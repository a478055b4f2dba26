------------------------------- MODULE Fleet --------------------------------
(***************************************************************************)
(* Several machines that push to each other, and phones that upload to the *)
(* web page of one machine for it to relay to another.  Of Daemon, each    *)
(* machine keeps what its pushes depend on: the watcher's channel and the  *)
(* lastSent of onLocalChange.  This module adds the two ends of a push:    *)
(* Client.Send with its timeout, the server's handleClip with Receive, and *)
(* handleSend with Relay.                                                  *)
(*                                                                         *)
(* Requests and answers get lost, a caller gives up while the handler goes *)
(* on, and machines stop and start again at any point.  A caller that has  *)
(* given up does not stop the handler: Receive knows no context.           *)
(***************************************************************************)
EXTENDS Naturals, Sequences, FiniteSets

CONSTANTS
  Machines,
  Users,       \* the machines whose users copy
  Hosts,       \* the machines whose web page phones open
  Peers,       \* per machine: those it pushes to
  Contents,    \* digests of what is pushed
  Big,         \* those of contents over payload.MaxSize
  Copied,      \* per copy a user makes: what the looks at it can read
  Uploads,     \* what phones upload: pairs of a kind and contents
  NoHash,      \* the digest of no content
  NoPush,      \* as in Outbox
  NoAsk,       \* a call that was not made yet
  OutCap,      \* capacity of the channel Run makes for the watcher
  MaxCalls,    \* bound: pushes begun
  MaxUploads,  \* bound: those of them that phones ask for
  MaxRestarts  \* bound: restarts, of one of the machines

Calls == 1..MaxCalls

(* A push: the loop of host pushes copy id in a run of the process, or host*)
(* relays what a phone has uploaded.                                       *)
Asks == [by : {"loop", "phone"}, host : Machines, to : Machines,
         kind : {"text", "file"}, id : Nat, hash : Contents, run : Nat]

ASSUME FleetAssumption ==
  /\ Big \subseteq Contents
  /\ NoAsk \notin Asks
  /\ NoPush \notin [id : Nat, hash : Contents, to : Machines, run : Nat]
  /\ Users \subseteq Machines /\ Hosts \subseteq Machines
  /\ Peers \in [Machines -> SUBSET Machines]
  /\ Copied \in Seq(SUBSET Contents)
  /\ Uploads \subseteq {"text", "file"} \X Contents
  /\ NoHash \notin Contents
  /\ OutCap \in Nat \ {0}
  /\ MaxCalls \in Nat /\ MaxUploads \in Nat /\ MaxRestarts \in Nat

VARIABLES
  copies, tried, log, run,  \* per machine: as in Outbox
  out,     \* per machine: the channel from the watcher to the loop
  lastSent, \* per machine: digest of what its loop pushed last
  loop,    \* per machine: the call its loop waits for, or 0
  begun,   \* how many calls were made
  ask,     \* per call: what was asked
  client,  \* per call: what Client.Send has returned, or "wait"
  server,  \* per call: how far the request or its answer is
  phone,   \* per call: what the phone was told, if it asked
  got      \* per machine: the calls that have arrived, in order

boxVars  == <<copies, tried, log, run, out, lastSent, loop>>
callVars == <<begun, ask>>

vars == <<boxVars, callVars, client, server, phone, got>>

Init ==
  /\ copies = [m \in Machines |-> 0]
  /\ tried = [m \in Machines |-> 0]
  /\ log = [m \in Machines |-> <<>>]
  /\ run = [m \in Machines |-> 0]
  /\ out = [m \in Machines |-> <<>>]
  /\ lastSent = [m \in Machines |-> NoHash]
  /\ loop = [m \in Machines |-> 0]
  /\ begun = 0
  /\ ask = [n \in Calls |-> NoAsk]
  /\ client = [n \in Calls |-> "wait"]
  /\ server = [n \in Calls |-> "way"]
  /\ phone = [n \in Calls |-> "wait"]
  /\ got = [m \in Machines |-> <<>>]

(* The push that a call of the loop makes.                                 *)
PushOf(n) == [id |-> ask[n].id, hash |-> ask[n].hash, to |-> ask[n].to,
              run |-> ask[n].run]

Trying(m) == IF loop[m] = 0 THEN NoPush ELSE PushOf(loop[m])

Box(m) == INSTANCE Outbox WITH
  Targets <- Machines,
  Contents <- Contents \ Big,
  copies <- copies[m], tried <- tried[m], trying <- Trying(m), log <- log[m],
  run <- run[m]

-----------------------------------------------------------------------------
(* Who asks.                                                               *)

UserCopy(m) ==
  /\ copies[m] < Len(Copied)
  /\ copies' = [copies EXCEPT ![m] = @ + 1]
  /\ UNCHANGED <<tried, log, run, out, lastSent, loop, callVars, client, server,
                 phone, got>>

(* A look of the watcher has read something else than the look before: a   *)
(* new copy, or another content of a copy that was read already.           *)
Emits(m, hash) ==
  /\ Len(out[m]) < OutCap
  /\ copies[m] > 0 /\ hash \in Copied[copies[m]]
  /\ out' = [out EXCEPT ![m] = Append(@, [id |-> copies[m], hash |-> hash])]
  /\ UNCHANGED <<copies, tried, log, run, lastSent, loop, callVars, client,
                 server, phone, got>>

(* Mutated: without the look at lastSent.                                  *)
NeverRepeated(m, hash) == FALSE

(* What the loop has pushed last is not pushed again.                      *)
Repeated(m, hash) == hash = lastSent[m]

(* onLocalChange leaves an item alone: an echo, a text, what was pushed    *)
(* last, sync off, no target, over the cap, or a target not to be resolved.*)
LoopDrops(m) ==
  /\ loop[m] = 0 /\ out[m] # <<>>
  /\ out' = [out EXCEPT ![m] = Tail(@)]
  /\ UNCHANGED <<copies, tried, log, run, lastSent, loop, callVars, client,
                 server, phone, got>>

Begin(a) ==
  /\ begun < MaxCalls
  /\ begun' = begun + 1
  /\ ask' = [ask EXCEPT ![begun + 1] = a]
  /\ UNCHANGED <<copies, log, run, lastSent, client, server, phone, got>>

LoopAsk(m, to) ==
  [by |-> "loop", host |-> m, to |-> to, kind |-> "file",
   id |-> Head(out[m]).id, hash |-> Head(out[m]).hash, run |-> run[m]]

(* onLocalChange calls sender, for a file or an image.                     *)
LoopSends(m, to) ==
  /\ loop[m] = 0 /\ out[m] # <<>>
  /\ ~Repeated(m, Head(out[m]).hash)
  /\ Head(out[m]).hash \notin Big
  /\ Begin(LoopAsk(m, to))
  /\ out' = [out EXCEPT ![m] = Tail(@)]
  /\ loop' = [loop EXCEPT ![m] = begun + 1]
  /\ tried' = [tried EXCEPT ![m] = Head(out[m]).id]

(* Mutated: a text that handleSend did not measure is not measured later.  *)
FitsUnlessText(kind, hash) == kind = "text" \/ hash \notin Big

(* handleSend measures a file, and Relay what it is given.                 *)
Fits(kind, hash) == hash \notin Big

(* Mutated: Relay keeps Daemon.mu until its push has ended.                *)
UnlockedByRelays(m) ==
  \A n \in 1..begun :
    ask[n].by = "phone" /\ ask[n].host = m => client[n] # "wait"

(* Nobody waits for another machine with Daemon.mu locked.                 *)
Unlocked(m) == TRUE

(* handleSend and Relay, for what a phone has uploaded to m.               *)
RelaySends(m, to, kind, hash) ==
  /\ Cardinality({n \in 1..begun : ask[n].by = "phone"}) < MaxUploads
  /\ Fits(kind, hash)
  /\ Unlocked(m)
  /\ Begin([by |-> "phone", host |-> m, to |-> to, kind |-> kind, id |-> 0,
            hash |-> hash, run |-> run[m]])
  /\ UNCHANGED <<out, loop, tried>>

-----------------------------------------------------------------------------
(* The server's end: handleClip and Receive.                               *)

Moves(n, from, to) ==
  /\ n <= begun
  /\ server[n] = from
  /\ server' = [server EXCEPT ![n] = to]
  /\ UNCHANGED <<boxVars, callVars, client, phone>>

(* handleClip has read the whole body, of the size and digest announced.   *)
Arrives(n) == Moves(n, "way", "handle") /\ UNCHANGED got

(* No connection, or a body cut short: it ends in an error at the caller.  *)
Lost(n) == Moves(n, "way", "no") /\ UNCHANGED got

(* Mutated: handleClip answers with 200 when Receive has failed.           *)
FailsQuietly(n) ==
  Moves(n, "handle", "yes") /\ Unlocked(ask[n].to) /\ UNCHANGED got

(* Set or WriteFile fails, after the lock was taken for the mark or for the*)
(* name of the folder: the answer is 500.                                  *)
Fails(n) == Moves(n, "handle", "no") /\ Unlocked(ask[n].to) /\ UNCHANGED got

(* A text is on the clipboard, which ends Receive; a file is in the folder.*)
Applies(n) ==
  /\ Moves(n, "handle", IF ask[n].kind = "text" THEN "yes" ELSE "path")
  /\ Unlocked(ask[n].to)
  /\ got' = [got EXCEPT ![ask[n].to] = Append(@, n)]

(* The path of the file goes to the clipboard; the answer is 200 even when *)
(* that fails.                                                             *)
ShowsPath(n) ==
  /\ Moves(n, "path", "yes")
  /\ Unlocked(ask[n].to)
  /\ UNCHANGED got

-----------------------------------------------------------------------------
(* The caller's end: Client.Send, and what follows it.                     *)

(* Mutated: what Relay has sent is recorded as well.                       *)
ReturnsRecorded(n, result) ==
  LET m == ask[n].host IN
  /\ loop' = IF ask[n].by = "phone" THEN loop ELSE [loop EXCEPT ![m] = 0]
  /\ IF result = "ok"
     THEN /\ log' = [log EXCEPT ![m] = Append(@, PushOf(n))]
          /\ lastSent' = [lastSent EXCEPT ![m] = ask[n].hash]
     ELSE UNCHANGED <<log, lastSent>>

(* The loop of the host goes on, and remembers an acknowledged push.       *)
LoopReturns(n, result) ==
  LET m == ask[n].host IN
  IF ask[n].by = "phone" THEN UNCHANGED <<loop, log, lastSent>>
  ELSE /\ loop' = [loop EXCEPT ![m] = 0]
       /\ IF result = "ok"
          THEN /\ log' = [log EXCEPT ![m] = Append(@, PushOf(n))]
               /\ lastSent' = [lastSent EXCEPT ![m] = ask[n].hash]
          ELSE UNCHANGED <<log, lastSent>>

(* Mutated: Send returns once it has sent the request.                     *)
SentIsOk(n) == IF server[n] = "no" THEN "failed" ELSE "ok"

Answered(n) ==
  CASE server[n] = "yes" -> "ok" [] server[n] = "no" -> "failed"
    [] OTHER -> "wait"

SendReturns(n) ==
  /\ n <= begun
  /\ client[n] = "wait" /\ Answered(n) # "wait"
  /\ client' = [client EXCEPT ![n] = Answered(n)]
  /\ LoopReturns(n, Answered(n))
  /\ UNCHANGED <<copies, tried, run, out, callVars, server, phone, got>>

(* 30 s have passed, or the answer is lost, wherever the handler is.       *)
TimesOut(n) ==
  /\ n <= begun
  /\ client[n] = "wait"
  /\ client' = [client EXCEPT ![n] = "failed"]
  /\ LoopReturns(n, "failed")
  /\ UNCHANGED <<copies, tried, run, out, callVars, server, phone, got>>

(* handleSend answers the phone with what Relay has returned.              *)
TellsPhone(n) ==
  /\ n <= begun
  /\ ask[n].by = "phone" /\ phone[n] = "wait" /\ client[n] # "wait"
  /\ phone' = [phone EXCEPT ![n] = client[n]]
  /\ UNCHANGED <<boxVars, callVars, client, server, got>>

(* The phone loses its connection: Relay goes on, with no context either.  *)
LosesPhone(n) ==
  /\ n <= begun
  /\ ask[n].by = "phone" /\ phone[n] = "wait"
  /\ phone' = [phone EXCEPT ![n] = "failed"]
  /\ UNCHANGED <<boxVars, callVars, client, server, got>>

(* The process of m stops and starts again: its calls are gone, and so are *)
(* the handlers it runs, which the callers see as an error.                *)
Restart(m) ==
  LET Gone(n) == n <= begun /\ ask[n].host = m IN
  /\ run[m] < MaxRestarts
  /\ \A x \in Machines \ {m} : run[x] = 0
  /\ run' = [run EXCEPT ![m] = @ + 1]
  /\ tried' = [tried EXCEPT ![m] = 0]
  /\ out' = [out EXCEPT ![m] = <<>>]
  /\ lastSent' = [lastSent EXCEPT ![m] = NoHash]
  /\ loop' = [loop EXCEPT ![m] = 0]
  /\ client' = [n \in Calls |-> IF Gone(n) /\ client[n] = "wait"
                                THEN "failed" ELSE client[n]]
  /\ phone' = [n \in Calls |-> IF Gone(n) /\ ask[n].by = "phone"
                                  /\ phone[n] = "wait"
                               THEN "failed" ELSE phone[n]]
  /\ server' = [n \in Calls |-> IF n <= begun /\ ask[n].to = m
                                   /\ server[n] \in {"handle", "path"}
                                THEN "no" ELSE server[n]]
  /\ UNCHANGED <<copies, log, callVars, got>>

-----------------------------------------------------------------------------
Network(n) == Arrives(n) \/ Lost(n)
Handler(n) == Applies(n) \/ Fails(n) \/ ShowsPath(n)

(* What the code does for a call, if only time passes.                     *)
Proceeds(n) == Network(n) \/ Handler(n) \/ SendReturns(n) \/ TellsPhone(n)

Next ==
  \/ \E m \in Users : UserCopy(m) \/ \E hash \in Contents : Emits(m, hash)
  \/ \E m \in Machines : Restart(m) \/ LoopDrops(m)
  \/ \E m \in Machines : \E to \in Peers[m] : LoopSends(m, to)
  \/ \E m \in Hosts : \E to \in Peers[m], u \in Uploads :
       RelaySends(m, to, u[1], u[2])
  \/ \E n \in Calls : Proceeds(n) \/ TimesOut(n) \/ LosesPhone(n)

Spec == Init /\ [][Next]_vars

(* A request arrives or its loss is noticed, handlers run, and answers are *)
(* passed on.  Nothing makes a call time out.                              *)
FairSpec == Spec /\ \A n \in Calls : WF_vars(Proceeds(n))

-----------------------------------------------------------------------------
(* Each variable keeps to its values; in particular nothing over the cap   *)
(* is ever asked for (FR-004, payload.go:10).                              *)
TypeOK ==
  /\ copies \in [Machines -> Nat] /\ tried \in [Machines -> Nat]
  /\ log \in [Machines -> Seq([id : Nat, hash : Contents, to : Machines,
                               run : Nat])]
  /\ run \in [Machines -> Nat]
  /\ out \in [Machines -> Seq([id : Nat, hash : Contents])]
  /\ \A m \in Machines : Len(out[m]) <= OutCap
  /\ lastSent \in [Machines -> Contents \cup {NoHash}]
  /\ loop \in [Machines -> 0..begun]
  /\ begun \in 0..MaxCalls
  /\ ask \in [Calls -> Asks \cup {NoAsk}]
  /\ \A n \in 1..begun : ask[n] \in Asks /\ ask[n].hash \notin Big
  /\ client \in [Calls -> {"wait", "ok", "failed"}]
  /\ phone \in [Calls -> {"wait", "ok", "failed"}]
  /\ server \in [Calls -> {"way", "handle", "path", "yes", "no"}]
  /\ got \in [Machines -> Seq(Calls)]

(* Two pushes of one life of a process, made by its loop.                  *)
SameLoop(p, q) ==
  /\ ask[p].by = "loop" /\ ask[q].by = "loop"
  /\ ask[p].host = ask[q].host /\ ask[p].run = ask[q].run

(* Of one machine, what was copied later arrives later, unless the sender  *)
(* had given up the earlier push while its handler went on: no answer can  *)
(* be passed by the push that comes after it (daemon.go:137-143).          *)
ArrivalOrder ==
  \A m \in Machines : \A i, j \in 1..Len(got[m]) :
    LET p == got[m][i]  q == got[m][j] IN
    i < j /\ q < p /\ SameLoop(p, q) => client[q] = "failed"

(* A process pushes a content again only if the push of before was not     *)
(* answered for, or if another content was acknowledged in between,        *)
(* whatever is read from the clipboard, relayed for phones and lost on the *)
(* way meanwhile (daemon.go:90, 137-143).                                  *)
RepeatsUnanswered ==
  \A p, q \in 1..begun :
    p < q /\ SameLoop(p, q) /\ client[p] = "ok" /\ ask[p].hash = ask[q].hash =>
      \E n \in p..q : /\ SameLoop(p, n) /\ client[n] = "ok"
                     /\ ask[n].hash # ask[p].hash

(* Towards the machines it pushes to, the loop of each machine keeps the   *)
(* promise of Outbox, whatever it relays for phones and handles for other  *)
(* machines meanwhile (daemon.go:137-143, 268-281).                        *)
ImplementsOutboxes ==
  /\ \A m \in Machines : Box(m)!Init
  /\ [][\A m \in Machines : UNCHANGED Box(m)!outboxVars \/ Box(m)!Next]_vars

(* Who asked, and what he was told.                                        *)
Told(n) ==
  IF n <= begun /\ ask[n].by = "phone" THEN phone[n] ELSE client[n]

(* A push arrives where it was meant to, once at most, and who asked for it*)
(* is told of success only after that, through all losses, timeouts and    *)
(* restarts at both ends, and through the relay.                           *)
Mail == INSTANCE Delivery WITH
  asked <- {<<n, ask[n].to>> : n \in 1..begun},
  arrived <- UNION {{<<got[m][i], m>> : i \in 1..Len(got[m])} : m \in Machines},
  told <- [n \in Calls |-> Told(n)]

ImplementsDelivery == Mail!Spec

(* Once nobody asks for more, everyone who did has been told, and every    *)
(* handler has ended, without any timeout: machines that push to each      *)
(* other, or to themselves, never wait for one another.                    *)
CallsEnd ==
  <>[](\A n \in 1..begun : Told(n) # "wait" /\ server[n] \in {"yes", "no"})
=============================================================================
