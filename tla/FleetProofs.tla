---------------------------- MODULE FleetProofs -----------------------------
(***************************************************************************)
(* What Fleet promises, for any machines, peers, contents and bounds.      *)
(***************************************************************************)
EXTENDS Fleet, TLAPS

(* What is at the places of a sequence that got one more element.          *)
LEMMA Appended ==
  ASSUME NEW S, NEW s \in Seq(S), NEW e \in S
  PROVE  /\ Append(s, e) \in Seq(S) /\ Len(s) \in Nat
         /\ Len(Append(s, e)) = Len(s) + 1
         /\ Append(s, e)[Len(Append(s, e))] = e
         /\ Len(Append(s, e)) \in 1..Len(Append(s, e))
         /\ \A k \in 1..Len(s) :
              k \in 1..Len(Append(s, e)) /\ Append(s, e)[k] = s[k]
OBVIOUS

Records == [id : Nat, hash : Contents, to : Machines, run : Nat]
Items   == [id : Nat, hash : Contents]

TypeInv ==
  /\ TypeOK
  /\ \A m \in Machines : copies[m] <= Len(Copied)

LEMMA Types ==
  ASSUME TypeInv
  PROVE  /\ begun \in Nat /\ begun <= MaxCalls /\ 1..begun \subseteq Calls
         /\ MaxCalls \in Nat
         /\ \A n \in 1..begun :
              /\ ask[n] \in Asks
              /\ ask[n].by \in {"loop", "phone"} /\ ask[n].host \in Machines
              /\ ask[n].to \in Machines /\ ask[n].hash \in Contents \ Big
              /\ ask[n].id \in Nat /\ ask[n].run \in Nat
              /\ PushOf(n) \in Records
<1>1. begun \in Nat /\ begun <= MaxCalls /\ MaxCalls \in Nat
  BY FleetAssumption DEF TypeInv, TypeOK
<1>2. 1..begun \subseteq Calls
  BY <1>1 DEF Calls
<1>3. ASSUME NEW n \in 1..begun
      PROVE  /\ ask[n] \in Asks /\ ask[n].hash \notin Big
  BY DEF TypeInv, TypeOK
<1>4. QED
  BY <1>1, <1>2, <1>3 DEF Asks, PushOf, Records

(* What a new call leaves behind.                                          *)
LEMMA NewCall ==
  ASSUME TypeInv, NEW a \in Asks, a.hash \notin Big, Begin(a)
  PROVE  /\ begun' = begun + 1 /\ begun + 1 \in Calls /\ begun' \in 0..MaxCalls
         /\ ask'[begun + 1] = a
         /\ \A n \in 1..begun : ask'[n] = ask[n]
         /\ 1..begun' = (1..begun) \cup {begun + 1} /\ begun + 1 \notin 1..begun
         /\ ask' \in [Calls -> Asks \cup {NoAsk}]
         /\ \A n \in 1..begun' : ask'[n] \in Asks /\ ask'[n].hash \notin Big
<1>1. begun \in Nat /\ begun < MaxCalls /\ MaxCalls \in Nat
      /\ begun' = begun + 1 /\ ask' = [ask EXCEPT ![begun + 1] = a]
      /\ ask \in [Calls -> Asks \cup {NoAsk}]
  BY Types DEF Begin, TypeInv, TypeOK
<1>2. begun + 1 \in Calls /\ 1..begun \subseteq Calls
  BY <1>1 DEF Calls
<1>3. 1..begun' = (1..begun) \cup {begun + 1} /\ begun + 1 \notin 1..begun
  BY <1>1
<1>4. ask'[begun + 1] = a /\ \A n \in 1..begun : ask'[n] = ask[n]
  BY <1>1, <1>2, <1>3
<1>5. ask' \in [Calls -> Asks \cup {NoAsk}]
  BY <1>1
<1>6. \A n \in 1..begun : ask[n] \in Asks /\ ask[n].hash \notin Big
  BY DEF TypeInv, TypeOK
<1>7. \A n \in 1..begun' : ask'[n] \in Asks /\ ask'[n].hash \notin Big
  BY <1>3, <1>4, <1>6
<1>8. begun' \in 0..MaxCalls
  BY <1>1
<1>9. QED
  BY <1>1, <1>2, <1>3, <1>4, <1>5, <1>7, <1>8

LEMMA OutTyped ==
  ASSUME TypeInv
  PROVE  /\ out \in [Machines -> Seq(Items)] /\ OutCap \in Nat
         /\ \A x \in Machines : /\ out[x] \in Seq(Items) /\ Len(out[x]) \in Nat
                              /\ Len(out[x]) <= OutCap
<1>1. out \in [Machines -> Seq(Items)]
  BY DEF TypeInv, TypeOK, Items
<1>2. OutCap \in Nat /\ \A x \in Machines : Len(out[x]) <= OutCap
  BY FleetAssumption DEF TypeInv, TypeOK
<1>3. \A x \in Machines : out[x] \in Seq(Items)
  BY <1>1
<1>4. \A x \in Machines : Len(out[x]) \in Nat
  BY <1>3
<1>5. QED
  BY <1>1, <1>2, <1>3, <1>4

LEMMA LoopAsks ==
  ASSUME TypeInv, NEW m \in Machines, NEW to \in Peers[m], LoopSends(m, to)
  PROVE  /\ LoopAsk(m, to) \in Asks /\ LoopAsk(m, to).hash \notin Big
         /\ LoopAsk(m, to).by = "loop" /\ LoopAsk(m, to).host = m
         /\ LoopAsk(m, to).to = to /\ LoopAsk(m, to).run = run[m]
         /\ LoopAsk(m, to).id = Head(out[m]).id
         /\ LoopAsk(m, to).hash = Head(out[m]).hash
         /\ Head(out[m]) \in Items /\ Tail(out[m]) \in Seq(Items)
         /\ Len(Tail(out[m])) <= Len(out[m])
<1>1. out[m] \in Seq(Items) /\ run[m] \in Nat /\ to \in Machines
  BY FleetAssumption DEF TypeInv, TypeOK, Items
<1>2. out[m] # <<>> /\ Head(out[m]).hash \notin Big
  BY DEF LoopSends
<1>3. Head(out[m]) \in Items /\ Tail(out[m]) \in Seq(Items)
      /\ Len(Tail(out[m])) <= Len(out[m])
  BY <1>1, <1>2
<1>4. QED
  BY <1>1, <1>2, <1>3 DEF LoopAsk, Asks, Items

(* The channel of m takes or loses an item that is not pushed.             *)
Queues(m) == LoopDrops(m) \/ \E hash \in Contents : Emits(m, hash)

LEMMA Queued ==
  ASSUME TypeInv, NEW m \in Machines, Queues(m)
  PROVE  /\ UNCHANGED <<copies, tried, log, run, lastSent, loop, callVars, client,
                        server, phone, got>>
         /\ out' \in [Machines -> Seq(Items)]
         /\ \A x \in Machines : Len(out'[x]) <= OutCap
<1>1. /\ out \in [Machines -> Seq(Items)] /\ OutCap \in Nat
      /\ \A x \in Machines : Len(out[x]) <= OutCap
      /\ out[m] \in Seq(Items) /\ Len(out[m]) \in Nat
  BY OutTyped
<1>2. CASE LoopDrops(m)
  <2>1. /\ out[m] # <<>> /\ out' = [out EXCEPT ![m] = Tail(out[m])]
        /\ UNCHANGED <<copies, tried, log, run, lastSent, loop, callVars, client,
                       server, phone, got>>
    BY <1>2 DEF LoopDrops
  <2>2. Tail(out[m]) \in Seq(Items) /\ Len(Tail(out[m])) <= Len(out[m])
        /\ Len(Tail(out[m])) \in Nat
    BY <1>1, <2>1
  <2>3. QED
    BY <1>1, <2>1, <2>2
<1>3. ASSUME NEW hash \in Contents, Emits(m, hash)
      PROVE  /\ UNCHANGED <<copies, tried, log, run, lastSent, loop, callVars,
                            client, server, phone, got>>
             /\ out' \in [Machines -> Seq(Items)]
             /\ \A x \in Machines : Len(out'[x]) <= OutCap
  <2> DEFINE item == [id |-> copies[m], hash |-> hash]
  <2>1. item \in Items
    BY DEF Items, TypeInv, TypeOK
  <2>2. /\ out' = [out EXCEPT ![m] = Append(out[m], item)]
        /\ Len(out[m]) < OutCap
        /\ UNCHANGED <<copies, tried, log, run, lastSent, loop, callVars, client,
                       server, phone, got>>
    BY <1>3 DEF Emits
  <2> HIDE DEF item
  <2>3. Append(out[m], item) \in Seq(Items)
        /\ Len(Append(out[m], item)) = Len(out[m]) + 1
    BY <1>1, <2>1, Appended
  <2>4. QED
    BY <1>1, <2>2, <2>3
<1>4. QED
  BY <1>2, <1>3 DEF Queues

LEMMA RelayAsks ==
  ASSUME TypeInv, NEW m \in Machines, NEW to \in Peers[m], NEW u \in Uploads,
         RelaySends(m, to, u[1], u[2])
  PROVE  /\ [by |-> "phone", host |-> m, to |-> to, kind |-> u[1], id |-> 0,
             hash |-> u[2], run |-> run[m]] \in Asks
         /\ u[2] \notin Big
BY FleetAssumption DEF Asks, RelaySends, Fits, TypeInv, TypeOK

(* What a step of the network or of a handler leaves alone.                *)
LEMMA ServerMoves ==
  ASSUME TypeInv, NEW n \in Calls,
         Arrives(n) \/ Lost(n) \/ Fails(n) \/ Applies(n) \/ ShowsPath(n)
  PROVE  /\ n \in 1..begun /\ server[n] \in {"way", "handle", "path"}
         /\ \E to \in {"handle", "path", "yes", "no"} :
              server' = [server EXCEPT ![n] = to]
         /\ \A x \in Calls \ {n} : server'[x] = server[x]
         /\ UNCHANGED <<boxVars, callVars, client, phone>>
         /\ UNCHANGED <<loop, run, begun, ask, client, phone>>
<1>1. /\ n <= begun /\ server[n] \in {"way", "handle", "path"}
      /\ \E to \in {"handle", "path", "yes", "no"} :
           server' = [server EXCEPT ![n] = to]
      /\ UNCHANGED <<boxVars, callVars, client, phone>>
  BY DEF Arrives, Lost, Fails, Applies, ShowsPath, Moves
<1>2. n \in 1..begun
  BY <1>1, Types DEF Calls
<1>3. \A x \in Calls \ {n} : server'[x] = server[x]
  BY <1>1 DEF TypeInv, TypeOK
<1>4. QED
  BY <1>1, <1>2, <1>3 DEF boxVars, callVars

LEMMA TypeNext == TypeInv /\ [Next]_vars => TypeInv'
<1> SUFFICES ASSUME TypeInv, [Next]_vars PROVE TypeInv'
  OBVIOUS
<1>1. ASSUME NEW m \in Machines, UserCopy(m) PROVE TypeInv'
  <2>1. /\ copies' \in [Machines -> Nat]
        /\ \A x \in Machines : copies'[x] <= Len(Copied)
    BY <1>1, FleetAssumption DEF UserCopy, TypeInv, TypeOK
  <2>2. UNCHANGED <<tried, log, run, out, lastSent, loop, callVars, client,
                   server, phone, got>>
    BY <1>1 DEF UserCopy
  <2>3. QED
    BY <2>1, <2>2 DEF callVars, TypeInv, TypeOK
<1>2. ASSUME NEW m \in Machines, NEW to \in Peers[m], LoopSends(m, to)
      PROVE  TypeInv'
  <2> PICK a : a = LoopAsk(m, to)
    OBVIOUS
  <2>1. /\ a \in Asks /\ a.hash \notin Big
        /\ Head(out[m]).id \in Nat /\ Tail(out[m]) \in Seq(Items)
        /\ Len(Tail(out[m])) <= Len(out[m])
    BY <1>2, LoopAsks DEF Items
  <2>2. /\ Begin(a) /\ loop' = [loop EXCEPT ![m] = begun + 1]
        /\ tried' = [tried EXCEPT ![m] = Head(out[m]).id]
        /\ out' = [out EXCEPT ![m] = Tail(out[m])]
    BY <1>2 DEF LoopSends
  <2>3. loop' \in [Machines -> 0..begun']
    <3>1. begun' = begun + 1 /\ begun \in Nat
      BY <2>1, <2>2, NewCall, Types
    <3>2. 0..begun \subseteq 0..begun' /\ begun + 1 \in 0..begun'
      BY <3>1
    <3>3. loop \in [Machines -> 0..begun]
      BY DEF TypeInv, TypeOK
    <3>4. QED
      BY <2>2, <3>2, <3>3
  <2>4. /\ tried' \in [Machines -> Nat] /\ out' \in [Machines -> Seq(Items)]
        /\ \A x \in Machines : Len(out'[x]) <= OutCap
    <3>1. /\ tried \in [Machines -> Nat] /\ out \in [Machines -> Seq(Items)]
          /\ \A x \in Machines :
               Len(out[x]) <= OutCap /\ Len(out[x]) \in Nat /\ OutCap \in Nat
      BY OutTyped DEF TypeInv, TypeOK
    <3>2. Len(Tail(out[m])) \in Nat
      BY <2>1
    <3>3. QED
      BY <2>1, <2>2, <3>1, <3>2
  <2>5. UNCHANGED <<copies, log, run, lastSent, client, server, phone, got>>
    BY <2>2 DEF Begin
  <2>6. QED
    BY <2>1, <2>2, <2>3, <2>4, <2>5, NewCall DEF TypeInv, TypeOK, Items
<1>3. ASSUME NEW m \in Machines, NEW to \in Peers[m], NEW u \in Uploads,
             RelaySends(m, to, u[1], u[2])
      PROVE  TypeInv'
  <2> PICK a : a = [by |-> "phone", host |-> m, to |-> to, kind |-> u[1],
                    id |-> 0, hash |-> u[2], run |-> run[m]]
    OBVIOUS
  <2>1. a \in Asks /\ a.hash \notin Big
    BY <1>3, RelayAsks
  <2>2. Begin(a) /\ UNCHANGED <<out, loop, tried>>
    BY <1>3 DEF RelaySends
  <2>3. loop' \in [Machines -> 0..begun']
    <3>1. begun' = begun + 1 /\ begun \in Nat
      BY <2>1, <2>2, NewCall, Types
    <3>2. 0..begun \subseteq 0..begun' /\ begun + 1 \in 0..begun'
      BY <3>1
    <3>3. loop \in [Machines -> 0..begun]
      BY DEF TypeInv, TypeOK
    <3>4. QED
      BY <2>2, <3>2, <3>3
  <2>5. UNCHANGED <<copies, log, run, lastSent, client, server, phone, got>>
    BY <2>2 DEF Begin
  <2>6. QED
    BY <2>1, <2>2, <2>3, <2>5, NewCall DEF TypeInv, TypeOK
<1>4. ASSUME NEW m \in Machines, Restart(m) PROVE TypeInv'
  <2>1. /\ run' \in [Machines -> Nat] /\ tried' \in [Machines -> Nat]
        /\ loop' \in [Machines -> 0..begun]
        /\ lastSent' \in [Machines -> Contents \cup {NoHash}]
    BY <1>4, Types DEF Restart, TypeInv, TypeOK
  <2>2. client' \in [Calls -> {"wait", "ok", "failed"}]
        /\ phone' \in [Calls -> {"wait", "ok", "failed"}]
        /\ server' \in [Calls -> {"way", "handle", "path", "yes", "no"}]
    BY <1>4 DEF Restart, TypeInv, TypeOK
  <2>3. UNCHANGED <<copies, log, callVars, got>>
    BY <1>4 DEF Restart
  <2>4. /\ out' \in [Machines -> Seq(Items)]
        /\ \A x \in Machines : Len(out'[x]) <= OutCap
    <3>1. /\ out \in [Machines -> Seq(Items)] /\ OutCap \in Nat
          /\ \A x \in Machines : Len(out[x]) <= OutCap
          /\ <<>> \in Seq(Items) /\ Len(<<>>) = 0
      BY OutTyped
    <3>2. out' = [out EXCEPT ![m] = <<>>]
      BY <1>4 DEF Restart
    <3>3. QED
      BY <3>1, <3>2
  <2>5. QED
    BY <2>1, <2>2, <2>3, <2>4 DEF TypeInv, TypeOK, callVars, Items
<1>5. ASSUME NEW n \in Calls,
             Arrives(n) \/ Lost(n) \/ Fails(n) \/ Applies(n) \/ ShowsPath(n)
      PROVE  TypeInv'
  <2>1. /\ n \in 1..begun
        /\ server' \in [Calls -> {"way", "handle", "path", "yes", "no"}]
        /\ UNCHANGED <<boxVars, callVars, client, phone>>
    <3>1. /\ n \in 1..begun /\ UNCHANGED <<boxVars, callVars, client, phone>>
          /\ \E to \in {"handle", "path", "yes", "no"} :
               server' = [server EXCEPT ![n] = to]
      BY <1>5, ServerMoves
    <3>2. QED
      BY <3>1 DEF TypeInv, TypeOK
  <2>2. got' \in [Machines -> Seq(Calls)]
    <3>1. \/ got' = got
          \/ got' = [got EXCEPT ![ask[n].to] = Append(@, n)]
      BY <1>5 DEF Arrives, Lost, Fails, Applies, ShowsPath
    <3>2. got \in [Machines -> Seq(Calls)] /\ ask[n].to \in Machines
      BY <2>1, Types DEF TypeInv, TypeOK
    <3>3. got[ask[n].to] \in Seq(Calls)
      BY <3>2
    <3>4. Append(got[ask[n].to], n) \in Seq(Calls)
      BY <3>3
    <3>5. QED
      BY <3>1, <3>2, <3>4
  <2>3. QED
    BY <2>1, <2>2 DEF TypeInv, TypeOK, boxVars, callVars
<1>6. ASSUME NEW n \in Calls, SendReturns(n) \/ TimesOut(n) PROVE TypeInv'
  <2>1. /\ n \in 1..begun
        /\ client' \in [Calls -> {"wait", "ok", "failed"}]
        /\ UNCHANGED <<copies, tried, run, out, callVars, server, phone, got>>
    <3>1. /\ n <= begun
          /\ \E result \in {"ok", "failed", "wait"} :
               client' = [client EXCEPT ![n] = result]
          /\ UNCHANGED <<copies, tried, run, out, callVars, server, phone, got>>
      BY <1>6 DEF SendReturns, TimesOut, Answered
    <3>2. n \in 1..begun
      BY <3>1, Types DEF Calls
    <3>3. QED
      BY <3>1, <3>2 DEF TypeInv, TypeOK
  <2>2. /\ loop' \in [Machines -> 0..begun]
        /\ log' \in [Machines -> Seq(Records)]
        /\ lastSent' \in [Machines -> Contents \cup {NoHash}]
    <3>1. \E result : LoopReturns(n, result)
      BY <1>6 DEF SendReturns, TimesOut
    <3>2. /\ loop \in [Machines -> 0..begun] /\ log \in [Machines -> Seq(Records)]
          /\ PushOf(n) \in Records /\ ask[n].host \in Machines /\ 0 \in 0..begun
          /\ lastSent \in [Machines -> Contents \cup {NoHash}]
          /\ ask[n].hash \in Contents
      <4>1. /\ PushOf(n) \in Records /\ ask[n].host \in Machines
            /\ ask[n].hash \in Contents /\ begun \in Nat
        BY <2>1, Types
      <4>2. /\ loop \in [Machines -> 0..begun]
            /\ log \in [Machines -> Seq(Records)]
            /\ lastSent \in [Machines -> Contents \cup {NoHash}]
        BY DEF TypeInv, TypeOK, Records
      <4>3. QED
        BY <4>1, <4>2
    <3>3. Append(log[ask[n].host], PushOf(n)) \in Seq(Records)
      BY <3>2
    <3>4. QED
      BY <3>1, <3>2, <3>3 DEF LoopReturns
  <2>3. QED
    BY <2>1, <2>2 DEF TypeInv, TypeOK, callVars, Records
<1>7. ASSUME NEW n \in Calls, TellsPhone(n) \/ LosesPhone(n) PROVE TypeInv'
  BY <1>7 DEF TellsPhone, LosesPhone, boxVars, callVars, TypeInv, TypeOK
<1>8. ASSUME NEW m \in Machines, Queues(m) PROVE TypeInv'
  BY <1>8, Queued DEF callVars, TypeInv, TypeOK, Items
<1>9. CASE UNCHANGED vars
  BY <1>9 DEF vars, boxVars, callVars, TypeInv, TypeOK
<1>10. QED
  BY <1>1, <1>2, <1>3, <1>4, <1>5, <1>6, <1>7, <1>8, <1>9, FleetAssumption
     DEF Next, Proceeds, Network, Handler, Queues

LEMMA TypeInit == Init => TypeInv
BY FleetAssumption DEF Init, TypeInv, TypeOK, Calls

LEMMA TypeAlways == Spec => []TypeInv
BY TypeInit, TypeNext, PTL DEF Spec

(* The values of the variables of all machines and of all calls; nothing   *)
(* over the cap is asked for, whoever asks (payload.go:10).                *)
THEOREM FleetTyped == Spec => []TypeOK
<1>1. TypeInv => TypeOK
  BY DEF TypeInv
<1>2. QED
  BY <1>1, TypeAlways, PTL

-----------------------------------------------------------------------------
(* Every call is made by the loop that waits for it, or by a handler.      *)

(* Nothing is known of a call that was not made.                           *)
Unmade ==
  \A n \in Calls : n > begun =>
    client[n] = "wait" /\ phone[n] = "wait" /\ server[n] = "way"

(* The loop of a process waits for one call, which it made in this run.    *)
OneCall ==
  /\ \A m \in Machines : loop[m] # 0 =>
       LET n == loop[m] IN
       /\ ask[n].by = "loop" /\ ask[n].host = m /\ ask[n].run = run[m]
       /\ client[n] = "wait"
  /\ \A n \in 1..begun : ask[n].by = "loop" /\ client[n] = "wait" =>
       loop[ask[n].host] = n
  /\ \A n \in 1..begun : ask[n].run <= run[ask[n].host]

(* It had an answer for a call, or gave it up, before it made another.     *)
OneByOne ==
  \A p, q \in 1..begun : q < p /\ SameLoop(p, q) => client[q] # "wait"

(* Success is an answer, and the one who asked gets no other.              *)
OkIsAnswer ==
  /\ \A n \in 1..begun : client[n] = "ok" => server[n] = "yes"
  /\ \A n \in 1..begun : phone[n] = "ok" => client[n] = "ok"

CallInv == Unmade /\ OneCall /\ OneByOne /\ OkIsAnswer

(* The three ways in which a call comes to an end at the caller.           *)
LEMMA Returning ==
  ASSUME TypeInv, CallInv, NEW n \in Calls, NEW r \in {"ok", "failed"},
         n <= begun, client[n] = "wait",
         client' = [client EXCEPT ![n] = r], LoopReturns(n, r)
  PROVE  /\ n \in 1..begun
         /\ client'[n] = r /\ \A x \in Calls \ {n} : client'[x] = client[x]
         /\ ask[n].by = "phone" => loop' = loop /\ log' = log
         /\ ask[n].by = "loop" =>
              /\ loop[ask[n].host] = n /\ ask[n].run = run[ask[n].host]
              /\ loop' = [loop EXCEPT ![ask[n].host] = 0]
              /\ log' = IF r = "ok"
                        THEN [log EXCEPT ![ask[n].host] = Append(@, PushOf(n))]
                        ELSE log
<1>1. n \in 1..begun
  BY Types DEF Calls
<1>2. client'[n] = r /\ \A x \in Calls \ {n} : client'[x] = client[x]
  BY DEF TypeInv, TypeOK
<1>3. n # 0 /\ ask[n].by \in {"loop", "phone"} /\ ask[n].host \in Machines
  BY <1>1, Types
<1>4. ask[n].by = "loop" =>
        loop[ask[n].host] = n /\ ask[n].run = run[ask[n].host]
  BY <1>1, <1>3 DEF CallInv, OneCall
<1>5. QED
  BY <1>1, <1>2, <1>3, <1>4 DEF LoopReturns

LEMMA CallNext == TypeInv /\ CallInv /\ [Next]_vars => CallInv'
<1> SUFFICES ASSUME TypeInv, CallInv, [Next]_vars PROVE CallInv'
  OBVIOUS
<1>t. TypeInv'
  BY TypeNext
<1>b. begun \in Nat /\ 1..begun \subseteq Calls
  BY Types
<1>0. ASSUME UNCHANGED <<loop, run, callVars, client, server, phone>>
      PROVE  CallInv'
  BY <1>0 DEF CallInv, Unmade, OneCall, OneByOne, OkIsAnswer, SameLoop, callVars
<1>1. ASSUME NEW a \in Asks, a.hash \notin Big, Begin(a), a.run = run[a.host],
             \/ /\ a.by = "loop" /\ loop[a.host] = 0
                /\ loop' = [loop EXCEPT ![a.host] = begun + 1]
             \/ a.by = "phone" /\ loop' = loop
      PROVE  CallInv'
  <2>1. /\ begun' = begun + 1 /\ begun + 1 \in Calls
        /\ 1..begun' = (1..begun) \cup {begun + 1} /\ begun + 1 \notin 1..begun
        /\ ask'[begun + 1] = a
        /\ \A n \in 1..begun : ask'[n] = ask[n]
        /\ UNCHANGED <<run, client, server, phone>>
        /\ begun \in Nat /\ a.host \in Machines
        /\ loop \in [Machines -> 0..begun] /\ run \in [Machines -> Nat]
    BY <1>1, NewCall, Types DEF Begin, TypeInv, TypeOK, Asks
  <2>2. /\ client[begun + 1] = "wait" /\ phone[begun + 1] = "wait"
        /\ server[begun + 1] = "way"
    BY <2>1 DEF CallInv, Unmade
  <2>3. Unmade'
    BY <2>1 DEF CallInv, Unmade, Calls
  <2>4. OneCall'
    <3>1. ASSUME NEW m \in Machines, loop'[m] # 0
          PROVE  LET n == loop'[m] IN
                 /\ ask'[n].by = "loop" /\ ask'[n].host = m
                 /\ ask'[n].run = run[m] /\ client[n] = "wait"
      <4>1. CASE loop'[m] = loop[m]
        BY <2>1, <3>1, <4>1 DEF CallInv, OneCall
      <4>2. CASE loop'[m] # loop[m]
        BY <1>1, <2>1, <2>2, <3>1, <4>2
      <4>3. QED
        BY <4>1, <4>2
    <3>2. ASSUME NEW n \in 1..begun', ask'[n].by = "loop", client[n] = "wait"
          PROVE  loop'[ask'[n].host] = n
      <4>1. CASE n = begun + 1
        BY <1>1, <2>1, <3>2, <4>1
      <4>2. CASE n \in 1..begun
        <5>1. /\ loop[ask[n].host] = n /\ n # 0 /\ ask[n].host \in Machines
              /\ ask'[n] = ask[n]
          BY <2>1, <3>2, <4>2, Types DEF CallInv, OneCall
        <5>2. QED
          BY <1>1, <2>1, <5>1
      <4>3. QED
        BY <2>1, <4>1, <4>2
    <3>3. ASSUME NEW n \in 1..begun'
          PROVE  ask'[n].run <= run[ask'[n].host]
      BY <1>1, <2>1 DEF CallInv, OneCall
    <3>4. QED
      BY <2>1, <3>1, <3>2, <3>3 DEF OneCall
  <2>5. OneByOne'
    <3> SUFFICES ASSUME NEW p \in 1..begun', NEW q \in 1..begun', q < p,
                        SameLoop(p, q)'
                 PROVE  client[q] # "wait"
      BY <2>1 DEF OneByOne
    <3>1. q \in 1..begun /\ ask'[q] = ask[q]
      BY <2>1
    <3>2. CASE p \in 1..begun
      BY <2>1, <3>1, <3>2 DEF CallInv, OneByOne, SameLoop
    <3>3. CASE p = begun + 1
      BY <1>1, <2>1, <3>1, <3>3 DEF CallInv, OneCall, SameLoop
    <3>4. QED
      BY <2>1, <3>2, <3>3
  <2>6. OkIsAnswer'
    BY <2>1, <2>2 DEF CallInv, OkIsAnswer
  <2>7. QED
    BY <2>3, <2>4, <2>5, <2>6 DEF CallInv
<1>2. ASSUME NEW m \in Machines, NEW to \in Peers[m], LoopSends(m, to)
      PROVE  CallInv'
  <2> PICK a : a = LoopAsk(m, to)
    OBVIOUS
  <2>1. a \in Asks /\ a.hash \notin Big
    BY <1>2, LoopAsks
  <2>2. /\ Begin(a) /\ loop[m] = 0 /\ loop' = [loop EXCEPT ![m] = begun + 1]
        /\ a.by = "loop" /\ a.host = m /\ a.run = run[m]
    BY <1>2, LoopAsks DEF LoopSends
  <2>3. QED
    BY <1>1, <2>1, <2>2
<1>3. ASSUME NEW m \in Machines, NEW to \in Peers[m], NEW u \in Uploads,
             RelaySends(m, to, u[1], u[2])
      PROVE  CallInv'
  <2> PICK a : a = [by |-> "phone", host |-> m, to |-> to, kind |-> u[1],
                    id |-> 0, hash |-> u[2], run |-> run[m]]
    OBVIOUS
  <2>1. a \in Asks /\ a.hash \notin Big
    BY <1>3, RelayAsks
  <2>2. /\ Begin(a) /\ loop' = loop
        /\ a.by = "phone" /\ a.host = m /\ a.run = run[m]
    BY <1>3 DEF RelaySends
  <2>3. QED
    BY <1>1, <2>1, <2>2
<1>4. ASSUME NEW n \in Calls,
             Arrives(n) \/ Lost(n) \/ Fails(n) \/ Applies(n) \/ ShowsPath(n)
      PROVE  CallInv'
  <2>1. /\ n \in 1..begun /\ n \in Calls
        /\ server[n] \in {"way", "handle", "path"}
        /\ \A x \in Calls \ {n} : server'[x] = server[x]
        /\ UNCHANGED <<loop, run, begun, ask, client, phone>>
    BY <1>4, ServerMoves
  <2>2. Unmade' /\ OkIsAnswer'
    BY <2>1, Types DEF CallInv, Unmade, OkIsAnswer
  <2>3. OneCall' /\ OneByOne'
    BY <2>1 DEF CallInv, OneCall, OneByOne, SameLoop
  <2>4. QED
    BY <2>2, <2>3 DEF CallInv
<1>5. ASSUME NEW n \in Calls, SendReturns(n) \/ TimesOut(n) PROVE CallInv'
  <2> PICK r \in {"ok", "failed"} :
        /\ client[n] = "wait" /\ n <= begun
        /\ client' = [client EXCEPT ![n] = r] /\ LoopReturns(n, r)
        /\ r = "ok" => server[n] = "yes"
        /\ UNCHANGED <<run, begun, ask, server, phone>>
    BY <1>5 DEF SendReturns, TimesOut, Answered, callVars
  <2>1. /\ n \in 1..begun
        /\ client'[n] = r /\ \A x \in Calls \ {n} : client'[x] = client[x]
        /\ ask[n].by = "phone" => loop' = loop
        /\ ask[n].by = "loop" =>
             loop[ask[n].host] = n /\ loop' = [loop EXCEPT ![ask[n].host] = 0]
        /\ begun \in Nat /\ 1..begun \subseteq Calls
    <3>1. /\ n \in 1..begun
          /\ client'[n] = r /\ \A x \in Calls \ {n} : client'[x] = client[x]
          /\ ask[n].by = "phone" => loop' = loop /\ log' = log
          /\ ask[n].by = "loop" =>
               /\ loop[ask[n].host] = n /\ ask[n].run = run[ask[n].host]
               /\ loop' = [loop EXCEPT ![ask[n].host] = 0]
               /\ log' = IF r = "ok"
                         THEN [log EXCEPT ![ask[n].host] = Append(@, PushOf(n))]
                         ELSE log
      BY Returning
    <3>2. QED
      BY <1>b, <3>1
  <2>2. Unmade'
    BY <2>1 DEF CallInv, Unmade
  <2>3. OneCall'
    <3>1. ASSUME NEW m \in Machines, loop'[m] # 0
          PROVE  /\ loop[m] = loop'[m] /\ loop'[m] \in 1..begun
                 /\ loop'[m] # n
      <4>1. loop[m] = loop'[m] /\ loop[m] \in 1..begun
        <5>1. /\ loop \in [Machines -> 0..begun]
              /\ ask[n].by \in {"loop", "phone"} /\ ask[n].host \in Machines
          BY <2>1, Types DEF TypeInv, TypeOK
        <5>2. loop[m] = loop'[m]
          BY <2>1, <3>1, <5>1
        <5>3. QED
          BY <2>1, <3>1, <5>1, <5>2
      <4>2. loop[m] # n
        <5>1. loop[m] = n => ask[n].by = "loop" /\ ask[n].host = m /\ n # 0
          BY <2>1, <4>1 DEF CallInv, OneCall
        <5>2. loop \in [Machines -> 0..begun]
          BY DEF TypeInv, TypeOK
        <5>3. QED
          BY <2>1, <3>1, <4>1, <5>1, <5>2
      <4>3. QED
        BY <4>1, <4>2
    <3>2. ASSUME NEW x \in 1..begun, ask[x].by = "loop", client'[x] = "wait"
          PROVE  loop'[ask[x].host] = x
      <4>1. x # n /\ client[x] = "wait"
        BY <2>1, <3>2
      <4>2. loop[ask[x].host] = x
        BY <3>2, <4>1 DEF CallInv, OneCall
      <4>3. ask[x].host \in Machines /\ loop \in [Machines -> 0..begun]
        BY Types DEF TypeInv, TypeOK
      <4>4. ask[n].by = "loop" => ask[x].host # ask[n].host
        BY <2>1, <4>1, <4>2
      <4>5. ask[n].by \in {"loop", "phone"}
        BY <2>1, Types
      <4>6. QED
        BY <2>1, <4>2, <4>3, <4>4, <4>5
    <3>3. QED
      BY <2>1, <3>1, <3>2 DEF CallInv, OneCall
  <2>4. OneByOne'
    BY <2>1 DEF CallInv, OneByOne, SameLoop
  <2>5. OkIsAnswer'
    BY <2>1 DEF CallInv, OkIsAnswer
  <2>6. QED
    BY <2>2, <2>3, <2>4, <2>5 DEF CallInv
<1>6. ASSUME NEW n \in Calls, TellsPhone(n) \/ LosesPhone(n) PROVE CallInv'
  <2>1. /\ n <= begun
        /\ \A x \in Calls : phone'[x] = "ok" => phone[x] = "ok" \/ client[x] = "ok"
        /\ \A x \in Calls \ {n} : phone'[x] = phone[x]
        /\ UNCHANGED <<loop, run, begun, ask, client, server>>
    BY <1>6 DEF TellsPhone, LosesPhone, boxVars, callVars, TypeInv, TypeOK
  <2>2. Unmade'
    <3>1. \A x \in Calls : x > begun => x # n
      BY <2>1, Types DEF Calls
    <3>2. QED
      BY <2>1, <3>1 DEF CallInv, Unmade
  <2>3. OkIsAnswer'
    <3>1. 1..begun \subseteq Calls
      BY Types
    <3>2. QED
      BY <2>1, <3>1 DEF CallInv, OkIsAnswer
  <2>4. OneCall' /\ OneByOne'
    BY <2>1 DEF CallInv, OneCall, OneByOne, SameLoop
  <2>5. QED
    BY <2>2, <2>3, <2>4 DEF CallInv
<1>7. ASSUME NEW m \in Machines, Restart(m) PROVE CallInv'
  <2>1. /\ run' = [run EXCEPT ![m] = @ + 1] /\ loop' = [loop EXCEPT ![m] = 0]
        /\ run \in [Machines -> Nat] /\ loop \in [Machines -> 0..begun]
        /\ UNCHANGED <<begun, ask>>
        /\ begun \in Nat /\ 1..begun \subseteq Calls
    BY <1>7, Types DEF Restart, callVars, TypeInv, TypeOK
  <2>2. \A n \in Calls :
          /\ client'[n] = "wait" =>
               client[n] = "wait" /\ ~(n <= begun /\ ask[n].host = m)
          /\ client'[n] = "ok" <=> client[n] = "ok"
          /\ phone'[n] = "ok" <=> phone[n] = "ok"
          /\ server[n] = "yes" => server'[n] = "yes"
          /\ n > begun => /\ client'[n] = client[n] /\ phone'[n] = phone[n]
                          /\ server'[n] = server[n]
          /\ ask[n].host # m => client'[n] = client[n]
    <3>1. \A n \in Calls :
            client'[n] = IF (n <= begun /\ ask[n].host = m) /\ client[n] = "wait"
                         THEN "failed" ELSE client[n]
      BY <1>7 DEF Restart
    <3>2. \A n \in Calls :
            phone'[n] = IF (n <= begun /\ ask[n].host = m) /\ ask[n].by = "phone"
                           /\ phone[n] = "wait"
                        THEN "failed" ELSE phone[n]
      BY <1>7 DEF Restart
    <3>3. \A n \in Calls :
            server'[n] = IF n <= begun /\ ask[n].to = m
                            /\ server[n] \in {"handle", "path"}
                         THEN "no" ELSE server[n]
      BY <1>7 DEF Restart
    <3>4. \A n \in Calls : n > begun => ~(n <= begun)
      BY <2>1 DEF Calls
    <3>5. QED
      BY <3>1, <3>2, <3>3, <3>4
  <2>3. Unmade'
    BY <2>1, <2>2 DEF CallInv, Unmade
  <2>4. OneCall'
    <3>1. ASSUME NEW x \in Machines, loop'[x] # 0
          PROVE  /\ x # m /\ loop'[x] = loop[x] /\ loop[x] \in 1..begun
                 /\ ask[loop[x]].host = x /\ run'[x] = run[x]
                 /\ client'[loop[x]] = client[loop[x]]
      <4>1. x # m /\ loop'[x] = loop[x] /\ run'[x] = run[x]
        BY <2>1, <3>1
      <4>2. loop[x] \in 1..begun
        BY <2>1, <3>1, <4>1
      <4>3. ask[loop[x]].host = x
        BY <3>1, <4>1 DEF CallInv, OneCall
      <4>4. QED
        BY <2>1, <2>2, <4>1, <4>2, <4>3
    <3>2. ASSUME NEW n \in 1..begun, ask[n].by = "loop", client'[n] = "wait"
          PROVE  loop'[ask[n].host] = n
      <4>1. client[n] = "wait" /\ ask[n].host # m /\ ask[n].host \in Machines
        BY <2>1, <2>2, <3>2, Types
      <4>2. QED
        BY <2>1, <3>2, <4>1 DEF CallInv, OneCall
    <3>3. ASSUME NEW n \in 1..begun
          PROVE  ask[n].run <= run'[ask[n].host]
      <4>1. /\ ask[n].run <= run[ask[n].host] /\ ask[n].run \in Nat
            /\ ask[n].host \in Machines /\ run[ask[n].host] \in Nat
        BY <2>1, Types DEF CallInv, OneCall
      <4>2. run'[ask[n].host] \in {run[ask[n].host], run[ask[n].host] + 1}
        BY <2>1, <4>1
      <4>3. QED
        BY <4>1, <4>2
    <3>4. QED
      BY <2>1, <3>1, <3>2, <3>3 DEF CallInv, OneCall
  <2>5. OneByOne'
    BY <2>1, <2>2 DEF CallInv, OneByOne, SameLoop
  <2>6. OkIsAnswer'
    BY <2>1, <2>2 DEF CallInv, OkIsAnswer
  <2>7. QED
    BY <2>3, <2>4, <2>5, <2>6 DEF CallInv
<1>8. ASSUME NEW m \in Machines, UserCopy(m) \/ Queues(m) PROVE CallInv'
  BY <1>0, <1>8, Queued DEF UserCopy
<1>9. CASE UNCHANGED vars
  BY <1>0, <1>9 DEF vars, boxVars, callVars
<1>10. QED
  BY <1>2, <1>3, <1>4, <1>5, <1>6, <1>7, <1>8, <1>9, FleetAssumption
     DEF Next, Proceeds, Network, Handler, Queues

LEMMA CallInit == Init => CallInv
BY FleetAssumption
   DEF Init, CallInv, Unmade, OneCall, OneByOne, OkIsAnswer, Calls

-----------------------------------------------------------------------------
(* Arrivals.                                                               *)

(* What has arrived was sent there, its handler got so far, and so has     *)
(* every call that was answered with success.                              *)
GotInv ==
  /\ \A m \in Machines : \A i \in 1..Len(got[m]) :
       /\ got[m][i] \in 1..begun /\ ask[got[m][i]].to = m
       /\ server[got[m][i]] \notin {"way", "handle"}
  /\ \A n \in 1..begun : server[n] \in {"path", "yes"} =>
       \E i \in 1..Len(got[ask[n].to]) : got[ask[n].to][i] = n

ArrivalInv == GotInv /\ ArrivalOrder

LEMMA ArrivalNext ==
  TypeInv /\ CallInv /\ ArrivalInv /\ [Next]_vars => ArrivalInv'
<1> SUFFICES ASSUME TypeInv, CallInv, ArrivalInv, [Next]_vars
             PROVE  ArrivalInv'
  OBVIOUS
<1>t. /\ TypeInv' /\ CallInv'
      /\ \A m \in Machines : got[m] \in Seq(Calls) /\ Len(got[m]) \in Nat
  <2>1. TypeInv' /\ CallInv'
    BY TypeNext, CallNext
  <2>2. \A m \in Machines : got[m] \in Seq(Calls)
    BY DEF TypeInv, TypeOK
  <2>3. QED
    BY <2>1, <2>2
(* A call that was given up stays so.                                      *)
<1>f. \A n \in 1..begun : client[n] = "failed" => client'[n] = "failed"
  <2>1. \A n \in 1..begun : n \in Calls
    BY Types
  <2>2. ASSUME NEW m \in Machines, Restart(m), NEW n \in 1..begun,
               client[n] = "failed"
        PROVE  client'[n] = "failed"
    BY <2>1, <2>2 DEF Restart
  <2>3. ASSUME NEW x \in Calls, SendReturns(x) \/ TimesOut(x),
               NEW n \in 1..begun, client[n] = "failed"
        PROVE  client'[n] = "failed"
    BY <2>1, <2>3 DEF SendReturns, TimesOut, TypeInv, TypeOK
  <2>4. client' = client \/ (\E m \in Machines : Restart(m))
        \/ (\E x \in Calls : SendReturns(x) \/ TimesOut(x))
    BY FleetAssumption
       DEF Next, Proceeds, Network, Handler, UserCopy, Emits, LoopDrops, LoopSends,
       RelaySends, Begin, Arrives, Lost, Fails, Applies, ShowsPath, Moves,
       TellsPhone, LosesPhone, vars
  <2>5. QED
    BY <2>2, <2>3, <2>4
<1>0. ASSUME got' = got, 1..begun \subseteq 1..begun',
             \A n \in 1..begun : ask'[n] = ask[n],
             \A n \in 1..begun : server[n] \notin {"way", "handle"} =>
                                server'[n] \notin {"way", "handle"},
             \A n \in 1..begun' : server'[n] \in {"path", "yes"} =>
                n \in 1..begun /\ server[n] \in {"path", "yes"}
      PROVE  ArrivalInv'
  <2>0. GotInv
    BY DEF ArrivalInv
  <2>1. GotInv'
    <3>1. \A m \in Machines : \A i \in 1..Len(got'[m]) :
            /\ got'[m][i] \in 1..begun' /\ ask'[got'[m][i]].to = m
            /\ server'[got'[m][i]] \notin {"way", "handle"}
      BY <1>0, <2>0 DEF GotInv
    <3>2. ASSUME NEW n \in 1..begun', server'[n] \in {"path", "yes"}
          PROVE  \E i \in 1..Len(got'[ask'[n].to]) : got'[ask'[n].to][i] = n
      <4>1. n \in 1..begun /\ server[n] \in {"path", "yes"} /\ ask'[n] = ask[n]
        BY <1>0, <3>2
      <4>2. QED
        BY <1>0, <2>0, <4>1 DEF GotInv
    <3>3. QED
      BY <3>1, <3>2 DEF GotInv
  <2>2. ArrivalOrder'
    <3> SUFFICES ASSUME NEW m \in Machines, NEW i \in 1..Len(got[m]),
                        NEW j \in 1..Len(got[m]), i < j, got[m][j] < got[m][i],
                        SameLoop(got[m][i], got[m][j])'
                 PROVE  client'[got[m][j]] = "failed"
      BY <1>0 DEF ArrivalOrder, SameLoop
    <3>1. got[m][i] \in 1..begun /\ got[m][j] \in 1..begun
      BY <2>0 DEF GotInv
    <3>2. SameLoop(got[m][i], got[m][j])
      BY <1>0, <3>1 DEF SameLoop
    <3>3. client[got[m][j]] = "failed"
      BY <3>2 DEF ArrivalInv, ArrivalOrder
    <3>4. QED
      BY <1>f, <3>1, <3>3
  <2>3. QED
    BY <2>1, <2>2 DEF ArrivalInv
<1>1. ASSUME NEW a \in Asks, a.hash \notin Big, Begin(a) PROVE ArrivalInv'
  <2>1. /\ begun' = begun + 1 /\ begun + 1 \in Calls
        /\ 1..begun' = (1..begun) \cup {begun + 1}
        /\ \A n \in 1..begun : ask'[n] = ask[n]
        /\ UNCHANGED <<server, got>> /\ begun \in Nat
    BY <1>1, NewCall, Types DEF Begin
  <2>2. server[begun + 1] = "way"
    BY <2>1 DEF CallInv, Unmade
  <2>3. QED
    BY <1>0, <2>1, <2>2
<1>2. ASSUME NEW m \in Machines, NEW to \in Peers[m], LoopSends(m, to)
      PROVE  ArrivalInv'
  <2> PICK a : a = LoopAsk(m, to)
    OBVIOUS
  <2>1. a \in Asks /\ a.hash \notin Big
    BY <1>2, LoopAsks
  <2>2. QED
    BY <1>1, <1>2, <2>1 DEF LoopSends
<1>3. ASSUME NEW m \in Machines, NEW to \in Peers[m], NEW u \in Uploads,
             RelaySends(m, to, u[1], u[2])
      PROVE  ArrivalInv'
  <2> PICK a : a = [by |-> "phone", host |-> m, to |-> to, kind |-> u[1],
                    id |-> 0, hash |-> u[2], run |-> run[m]]
    OBVIOUS
  <2>1. a \in Asks /\ a.hash \notin Big
    BY <1>3, RelayAsks
  <2>2. QED
    BY <1>1, <1>3, <2>1 DEF RelaySends
<1>4. ASSUME NEW n \in Calls, Arrives(n) \/ Lost(n) \/ Fails(n) \/ ShowsPath(n)
      PROVE  ArrivalInv'
  <2>1. /\ n \in 1..begun /\ 1..begun \subseteq Calls
        /\ \A x \in Calls \ {n} : server'[x] = server[x]
        /\ UNCHANGED <<begun, ask>>
    BY <1>4, ServerMoves, Types
  <2>2. /\ got' = got
        /\ server'[n] \in {"path", "yes"} => server[n] \in {"path", "yes"}
        /\ server[n] \notin {"way", "handle"} =>
             server'[n] \notin {"way", "handle"}
    BY <1>4 DEF Arrives, Lost, Fails, ShowsPath, Moves, TypeInv, TypeOK
  <2>3. QED
    BY <1>0, <2>1, <2>2
<1>5. ASSUME NEW n \in Calls, Applies(n) PROVE ArrivalInv'
  <2> PICK m \in Machines : m = ask[n].to
    BY <1>5, ServerMoves, Types
  <2>1. /\ n \in 1..begun /\ 1..begun \subseteq Calls
        /\ server[n] = "handle" /\ server'[n] \in {"path", "yes"}
        /\ \A x \in Calls \ {n} : server'[x] = server[x]
        /\ got' = [got EXCEPT ![m] = Append(@, n)]
        /\ UNCHANGED <<begun, ask, client>>
    BY <1>5, ServerMoves, Types DEF Applies, Moves, TypeInv, TypeOK
  <2>2. /\ got'[m] = Append(got[m], n)
        /\ \A x \in Machines \ {m} : got'[x] = got[x]
    BY <2>1 DEF TypeInv, TypeOK
  <2>3. /\ Len(got'[m]) = Len(got[m]) + 1
        /\ got'[m][Len(got[m]) + 1] = n
        /\ \A i \in 1..Len(got[m]) :
             i \in 1..Len(got'[m]) /\ got'[m][i] = got[m][i]
        /\ \A i \in 1..Len(got'[m]) : i \in 1..Len(got[m]) \/ i = Len(got[m]) + 1
        /\ Len(got[m]) + 1 \in 1..Len(got'[m])
    BY <1>t, <2>1, <2>2
  <2>4. GotInv'
    <3>1. ASSUME NEW x \in Machines, NEW i \in 1..Len(got'[x])
          PROVE  /\ got'[x][i] \in 1..begun /\ ask[got'[x][i]].to = x
                 /\ server'[got'[x][i]] \notin {"way", "handle"}
      <4>1. CASE x = m /\ i = Len(got[m]) + 1
        BY <2>1, <2>3, <4>1
      <4>2. CASE ~(x = m /\ i = Len(got[m]) + 1)
        <5>1. i \in 1..Len(got[x]) /\ got'[x][i] = got[x][i]
          BY <2>2, <2>3, <4>2
        <5>2. /\ got[x][i] \in 1..begun /\ ask[got[x][i]].to = x
              /\ server[got[x][i]] \notin {"way", "handle"}
          BY <5>1 DEF ArrivalInv, GotInv
        <5>3. QED
          BY <2>1, <5>1, <5>2
      <4>3. QED
        BY <4>1, <4>2
    <3>2. ASSUME NEW x \in 1..begun, server'[x] \in {"path", "yes"}
          PROVE  \E i \in 1..Len(got'[ask[x].to]) : got'[ask[x].to][i] = x
      <4>1. CASE x = n
        BY <2>3, <4>1
      <4>2. CASE x # n
        <5>1. ask[x].to \in Machines
          BY Types
        <5>2. PICK i \in 1..Len(got[ask[x].to]) : got[ask[x].to][i] = x
          BY <2>1, <3>2, <4>2 DEF ArrivalInv, GotInv
        <5>3. QED
          BY <2>2, <2>3, <5>1, <5>2
      <4>3. QED
        BY <4>1, <4>2
    <3>3. begun' = begun /\ ask' = ask
      BY <2>1
    <3>4. \A x \in Machines : \A i \in 1..Len(got'[x]) :
            /\ got'[x][i] \in 1..begun' /\ ask'[got'[x][i]].to = x
            /\ server'[got'[x][i]] \notin {"way", "handle"}
      BY <3>1, <3>3
    <3>5. \A x \in 1..begun' : server'[x] \in {"path", "yes"} =>
            \E i \in 1..Len(got'[ask'[x].to]) : got'[ask'[x].to][i] = x
      BY <3>2, <3>3
    <3>6. QED
      BY <3>4, <3>5 DEF GotInv
  <2>5. ArrivalOrder'
    <3> SUFFICES ASSUME NEW x \in Machines, NEW i \in 1..Len(got'[x]),
                        NEW j \in 1..Len(got'[x]), i < j,
                        got'[x][j] < got'[x][i],
                        SameLoop(got[x][i], got[x][j])'
                 PROVE  client'[got'[x][j]] = "failed"
      BY DEF ArrivalOrder
    <3>0. SameLoop(got'[x][i], got'[x][j]) /\ client' = client
      BY <2>1 DEF SameLoop
    <3>1. CASE x # m \/ j \in 1..Len(got[m])
      <4>1. /\ i \in 1..Len(got[x]) /\ got'[x][i] = got[x][i]
            /\ j \in 1..Len(got[x]) /\ got'[x][j] = got[x][j]
        <5>1. CASE x # m
          BY <2>2, <5>1
        <5>2. CASE x = m /\ j \in 1..Len(got[m])
          <6>1. Len(got[m]) \in Nat /\ i \in 1..Len(got'[m])
            BY <1>t, <5>2
          <6>2. i \in 1..Len(got[m])
            BY <5>2, <6>1
          <6>3. QED
            BY <2>3, <5>2, <6>2
        <5>3. QED
          BY <3>1, <5>1, <5>2
      <4>2. QED
        BY <3>0, <4>1 DEF ArrivalInv, ArrivalOrder
    <3>2. CASE x = m /\ j = Len(got[m]) + 1
      <4>1. got'[x][j] = n /\ got'[x][i] \in 1..begun
        <5>1. Len(got[m]) \in Nat /\ i \in 1..Len(got'[m])
          BY <1>t, <3>2
        <5>2. i \in 1..Len(got[m])
          BY <2>3, <3>2, <5>1
        <5>3. got[m][i] \in 1..begun
          BY <5>2 DEF ArrivalInv, GotInv
        <5>4. QED
          BY <2>3, <3>2, <5>2, <5>3
      <4>2. client[n] # "wait"
        BY <2>1, <3>0, <4>1 DEF CallInv, OneByOne
      <4>3. client[n] # "ok"
        BY <2>1 DEF CallInv, OkIsAnswer
      <4>4. QED
        BY <2>1, <3>0, <4>1, <4>2, <4>3 DEF TypeInv, TypeOK
    <3>3. QED
      BY <2>3, <3>1, <3>2
  <2>6. QED
    BY <2>4, <2>5 DEF ArrivalInv
<1>6. ASSUME NEW n \in Calls,
             SendReturns(n) \/ TimesOut(n) \/ TellsPhone(n) \/ LosesPhone(n)
      PROVE  ArrivalInv'
  <2>1. UNCHANGED <<begun, ask, server, got>>
    BY <1>6 DEF SendReturns, TimesOut, TellsPhone, LosesPhone, callVars
  <2>2. QED
    BY <1>0, <2>1
<1>7. ASSUME NEW m \in Machines, Restart(m) PROVE ArrivalInv'
  <2>1. UNCHANGED <<begun, ask, got>> /\ 1..begun \subseteq Calls
    BY <1>7, Types DEF Restart, callVars
  <2>2. \A n \in Calls : server'[n] = server[n] \/ server'[n] = "no"
    BY <1>7 DEF Restart
  <2>3. QED
    BY <1>0, <2>1, <2>2
<1>8. ASSUME NEW m \in Machines, UserCopy(m) \/ Queues(m) PROVE ArrivalInv'
  BY <1>0, <1>8, Queued DEF UserCopy, callVars
<1>9. CASE UNCHANGED vars
  BY <1>0, <1>9 DEF vars, boxVars, callVars
<1>10. QED
  BY <1>2, <1>3, <1>4, <1>5, <1>6, <1>7, <1>8, <1>9, FleetAssumption
     DEF Next, Proceeds, Network, Handler, Queues

LEMMA ArrivalAlways == Spec => [](TypeInv /\ CallInv /\ ArrivalInv)
<1>1. Init => ArrivalInv
  BY FleetAssumption DEF Init, ArrivalInv, GotInv, ArrivalOrder
<1>2. QED
  BY <1>1, TypeInit, TypeNext, CallInit, CallNext, ArrivalNext, PTL DEF Spec

(* An older push of the same process can come after a newer one only when  *)
(* the sender had given it up while its handler went on (client.go:21,     *)
(* daemon.go:137).                                                         *)
THEOREM ArrivalsInOrder == Spec => []ArrivalOrder
<1>1. ArrivalInv => ArrivalOrder
  BY DEF ArrivalInv
<1>2. QED
  BY <1>1, ArrivalAlways, PTL

-----------------------------------------------------------------------------
(* What a process has read and what it has sent.                           *)

(* What is at the places of a sequence without its first element.          *)
LEMMA Tailed ==
  ASSUME NEW S, NEW s \in Seq(S), s # <<>>
  PROVE  /\ Head(s) = s[1] /\ 1 \in 1..Len(s) /\ Len(Tail(s)) \in Nat
         /\ \A k \in 1..Len(Tail(s)) :
              k + 1 \in 1..Len(s) /\ Tail(s)[k] = s[k + 1]
OBVIOUS

(* The channel holds no copy from before the one tried last, and no older  *)
(* copy behind a newer one.                                                *)
QueueAt(m) ==
  /\ \A k \in 1..Len(out[m]) :
       tried[m] <= out[m][k].id /\ out[m][k].id \in 1..copies[m]
  /\ tried[m] <= copies[m]
  /\ \A j, k \in 1..Len(out[m]) : j < k => out[m][j].id <= out[m][k].id

(* lastSent is what the log ends with, if that was pushed in this run.     *)
SentAt(m) ==
  LET last == log[m][Len(log[m])] IN
  /\ \A k \in 1..Len(log[m]) : log[m][k].run <= run[m]
  /\ lastSent[m] = IF log[m] # <<>> /\ last.run = run[m] THEN last.hash
                   ELSE NoHash

QueueInv == \A m \in Machines : QueueAt(m)
SentInv  == \A m \in Machines : SentAt(m)

LEMMA QueueNext == TypeInv /\ QueueInv /\ [Next]_vars => QueueInv'
<1> SUFFICES ASSUME TypeInv, QueueInv, [Next]_vars, NEW x \in Machines
             PROVE  QueueAt(x)'
  BY DEF QueueInv
<1>q. QueueAt(x)
  BY DEF QueueInv
<1>t. /\ copies \in [Machines -> Nat] /\ tried \in [Machines -> Nat]
      /\ out \in [Machines -> Seq(Items)] /\ copies[x] \in Nat
      /\ tried[x] \in Nat /\ out[x] \in Seq(Items) /\ Len(out[x]) \in Nat
      /\ \A k \in 1..Len(out[x]) : out[x][k] \in Items /\ out[x][k].id \in Nat
  <2>1. /\ copies \in [Machines -> Nat] /\ tried \in [Machines -> Nat]
        /\ out \in [Machines -> Seq(Items)]
    BY DEF TypeInv, TypeOK, Items
  <2>2. out[x] \in Seq(Items) /\ Len(out[x]) \in Nat
        /\ \A k \in 1..Len(out[x]) : out[x][k] \in Items
    BY <2>1
  <2>3. \A i \in Items : i.id \in Nat
    BY DEF Items
  <2>4. QED
    BY <2>1, <2>2, <2>3
<1>0. ASSUME copies'[x] = copies[x], tried'[x] = tried[x], out'[x] = out[x]
      PROVE  QueueAt(x)'
  BY <1>0, <1>q DEF QueueAt
(* The channel has lost its first item.                                    *)
<1>h. ASSUME out[x] # <<>>, out'[x] = Tail(out[x]), copies'[x] = copies[x],
             tried'[x] \in {tried[x], Head(out[x]).id}
      PROVE  QueueAt(x)'
  <2>1. /\ Head(out[x]) = out[x][1] /\ 1 \in 1..Len(out[x])
        /\ \A k \in 1..Len(out'[x]) :
             k + 1 \in 1..Len(out[x]) /\ out'[x][k] = out[x][k + 1]
    BY <1>h, <1>t, Tailed
  <2>2. tried'[x] \in {tried[x], out[x][1].id} /\ tried'[x] <= copies[x]
    BY <1>h, <1>q, <1>t, <2>1 DEF QueueAt
  <2>3. ASSUME NEW k \in 1..Len(out'[x])
        PROVE  tried'[x] <= out'[x][k].id /\ out'[x][k].id \in 1..copies'[x]
    <3>1. k + 1 \in 1..Len(out[x]) /\ 1 < k + 1 /\ out'[x][k] = out[x][k + 1]
      BY <2>1, <1>t
    <3>2. out[x][1].id <= out[x][k + 1].id /\ tried[x] <= out[x][k + 1].id
      BY <1>q, <2>1, <3>1 DEF QueueAt
    <3>3. out[x][k + 1].id \in 1..copies[x]
      BY <1>q, <3>1 DEF QueueAt
    <3>4. QED
      BY <1>h, <2>2, <3>1, <3>2, <3>3
  <2>4. ASSUME NEW j \in 1..Len(out'[x]), NEW k \in 1..Len(out'[x]), j < k
        PROVE  out'[x][j].id <= out'[x][k].id
    <3>1. j + 1 \in 1..Len(out[x]) /\ k + 1 \in 1..Len(out[x])
      BY <2>1
    <3>2. j + 1 < k + 1
      BY <2>4
    <3>3. QED
      BY <1>q, <2>1, <3>1, <3>2 DEF QueueAt
  <2>5. QED
    BY <1>h, <2>2, <2>3, <2>4 DEF QueueAt
<1>1. ASSUME NEW m \in Machines, UserCopy(m) PROVE QueueAt(x)'
  <2>1. /\ copies' = [copies EXCEPT ![m] = @ + 1] /\ UNCHANGED <<tried, out>>
    BY <1>1 DEF UserCopy
  <2>2. copies'[x] \in {copies[x], copies[x] + 1}
    BY <1>t, <2>1
  <2>3. QED
    BY <1>q, <1>t, <2>1, <2>2 DEF QueueAt
<1>2. ASSUME NEW m \in Machines, NEW hash \in Contents, Emits(m, hash)
      PROVE  QueueAt(x)'
  <2> DEFINE item == [id |-> copies[m], hash |-> hash]
  <2>1. /\ out' = [out EXCEPT ![m] = Append(out[m], item)] /\ copies[m] > 0
        /\ UNCHANGED <<copies, tried>>
    BY <1>2 DEF Emits
  <2>2. item \in Items /\ item.id = copies[m]
    BY <1>t DEF Items
  <2> HIDE DEF item
  <2>3. CASE x # m
    BY <1>0, <1>t, <2>1, <2>3
  <2>4. CASE x = m
    <3>1. /\ out'[x] = Append(out[x], item) /\ Len(out'[x]) = Len(out[x]) + 1
          /\ out'[x][Len(out'[x])] = item
          /\ \A k \in 1..Len(out[x]) : out'[x][k] = out[x][k]
      <4>1. out'[x] = Append(out[x], item)
        BY <1>t, <2>1, <2>4
      <4>2. QED
        BY <1>t, <2>2, <4>1, Appended
    <3>2. \A k \in 1..Len(out'[x]) : k \in 1..Len(out[x]) \/ k = Len(out'[x])
      BY <1>t, <3>1
    <3>3. \A k \in 1..Len(out'[x]) :
            tried[x] <= out'[x][k].id /\ out'[x][k].id \in 1..copies[x]
      BY <1>q, <1>t, <2>1, <2>2, <2>4, <3>1, <3>2 DEF QueueAt
    <3>4. ASSUME NEW j \in 1..Len(out'[x]), NEW k \in 1..Len(out'[x]), j < k
          PROVE  out'[x][j].id <= out'[x][k].id
      <4>1. j \in 1..Len(out[x])
        BY <1>t, <3>1, <3>4
      <4>2. CASE k \in 1..Len(out[x])
        BY <1>q, <3>1, <3>4, <4>1, <4>2 DEF QueueAt
      <4>3. CASE k = Len(out'[x])
        <5>1. out'[x][k].id = copies[x] /\ out'[x][j].id \in 1..copies[x]
          BY <2>2, <2>4, <3>1, <3>3, <4>3
        <5>2. QED
          BY <5>1
      <4>4. QED
        BY <3>2, <4>2, <4>3
    <3>5. QED
      BY <1>q, <2>1, <3>3, <3>4 DEF QueueAt
  <2>5. QED
    BY <2>3, <2>4
<1>3. ASSUME NEW m \in Machines, LoopDrops(m) PROVE QueueAt(x)'
  <2>1. /\ out[m] # <<>> /\ out' = [out EXCEPT ![m] = Tail(out[m])]
        /\ UNCHANGED <<copies, tried>>
    BY <1>3 DEF LoopDrops
  <2>2. CASE x # m
    BY <1>0, <1>t, <2>1, <2>2
  <2>3. CASE x = m
    BY <1>h, <1>t, <2>1, <2>3
  <2>4. QED
    BY <2>2, <2>3
<1>4. ASSUME NEW m \in Machines, NEW to \in Peers[m], LoopSends(m, to)
      PROVE  QueueAt(x)'
  <2>1. /\ out[m] # <<>> /\ out' = [out EXCEPT ![m] = Tail(out[m])]
        /\ tried' = [tried EXCEPT ![m] = Head(out[m]).id] /\ copies' = copies
    BY <1>4 DEF LoopSends, Begin
  <2>2. CASE x # m
    BY <1>0, <1>t, <2>1, <2>2
  <2>3. CASE x = m
    <3>1. out'[x] = Tail(out[x]) /\ tried'[x] = Head(out[x]).id
      BY <1>t, <2>1, <2>3
    <3>2. QED
      BY <1>h, <2>1, <2>3, <3>1
  <2>4. QED
    BY <2>2, <2>3
<1>5. ASSUME NEW m \in Machines, Restart(m) PROVE QueueAt(x)'
  <2>1. /\ out' = [out EXCEPT ![m] = <<>>] /\ tried' = [tried EXCEPT ![m] = 0]
        /\ copies' = copies
    BY <1>5 DEF Restart
  <2>2. CASE x # m
    BY <1>0, <1>t, <2>1, <2>2
  <2>3. CASE x = m
    <3>1. out'[x] = <<>> /\ tried'[x] = 0 /\ copies'[x] = copies[x]
          /\ Len(<<>>) = 0 /\ 1..0 = {}
      BY <1>t, <2>1, <2>3
    <3>2. QED
      BY <1>t, <3>1 DEF QueueAt
  <2>4. QED
    BY <2>2, <2>3
<1>6. CASE UNCHANGED <<copies, tried, out>>
  BY <1>0, <1>6
<1>7. QED
  BY <1>1, <1>2, <1>3, <1>4, <1>5, <1>6, FleetAssumption
     DEF Next, Proceeds, Network, Handler, RelaySends, Begin, Arrives, Lost, Fails,
     Applies, ShowsPath, Moves, SendReturns, TimesOut, TellsPhone, LosesPhone,
     vars, boxVars, callVars

LEMMA SentNext == TypeInv /\ CallInv /\ SentInv /\ [Next]_vars => SentInv'
<1> SUFFICES ASSUME TypeInv, CallInv, SentInv, [Next]_vars, NEW x \in Machines
             PROVE  SentAt(x)'
  BY DEF SentInv
<1>s. SentAt(x)
  BY DEF SentInv
<1>t. /\ log \in [Machines -> Seq(Records)] /\ run \in [Machines -> Nat]
      /\ lastSent \in [Machines -> Contents \cup {NoHash}]
      /\ log[x] \in Seq(Records) /\ Len(log[x]) \in Nat /\ run[x] \in Nat
      /\ log[x] # <<>> => Len(log[x]) \in 1..Len(log[x])
      /\ \A k \in 1..Len(log[x]) : log[x][k].run \in Nat
  <2>1. /\ log \in [Machines -> Seq(Records)] /\ run \in [Machines -> Nat]
        /\ lastSent \in [Machines -> Contents \cup {NoHash}]
    BY DEF TypeInv, TypeOK, Records
  <2>2. /\ log[x] \in Seq(Records) /\ Len(log[x]) \in Nat /\ run[x] \in Nat
        /\ log[x] # <<>> => Len(log[x]) \in 1..Len(log[x])
        /\ \A k \in 1..Len(log[x]) : log[x][k] \in Records
    BY <2>1
  <2>3. \A e \in Records : e.run \in Nat
    BY DEF Records
  <2>4. QED
    BY <2>1, <2>2, <2>3
<1>0. ASSUME log'[x] = log[x], run'[x] = run[x], lastSent'[x] = lastSent[x]
      PROVE  SentAt(x)'
  BY <1>0, <1>s DEF SentAt
<1>1. ASSUME NEW n \in Calls, SendReturns(n) \/ TimesOut(n) PROVE SentAt(x)'
  <2> PICK r \in {"ok", "failed"} :
        /\ client[n] = "wait" /\ n <= begun
        /\ client' = [client EXCEPT ![n] = r] /\ LoopReturns(n, r)
        /\ UNCHANGED <<run, begun, ask>>
    BY <1>1 DEF SendReturns, TimesOut, Answered, callVars
  <2>1. n \in 1..begun /\ (ask[n].by = "loop" => ask[n].run = run[ask[n].host])
    BY Returning
  <2>2. CASE ask[n].by = "loop" /\ r = "ok" /\ ask[n].host = x
    <3>1. log' = [log EXCEPT ![x] = Append(log[x], PushOf(n))]
          /\ lastSent' = [lastSent EXCEPT ![x] = ask[n].hash]
      BY <2>2 DEF LoopReturns
    <3>2. PushOf(n) \in Records /\ PushOf(n).run = run[x]
          /\ PushOf(n).hash = ask[n].hash
      BY <2>1, <2>2, Types DEF PushOf
    <3>3. log'[x] = Append(log[x], PushOf(n)) /\ lastSent'[x] = ask[n].hash
      BY <1>t, <3>1
    <3>4. /\ Len(log'[x]) = Len(log[x]) + 1 /\ log'[x] # <<>>
          /\ log'[x][Len(log'[x])] = PushOf(n)
          /\ \A k \in 1..Len(log[x]) : log'[x][k] = log[x][k]
      BY <1>t, <3>2, <3>3, Appended
    <3>5. \A k \in 1..Len(log'[x]) : k \in 1..Len(log[x]) \/ k = Len(log'[x])
      BY <1>t, <3>4
    <3>6. \A k \in 1..Len(log'[x]) : log'[x][k].run <= run'[x]
      BY <1>s, <1>t, <3>2, <3>4, <3>5 DEF SentAt
    <3>7. QED
      BY <3>2, <3>3, <3>4, <3>6 DEF SentAt
  <2>3. CASE ~(ask[n].by = "loop" /\ r = "ok" /\ ask[n].host = x)
    <3>1. ask[n].by \in {"loop", "phone"} /\ ask[n].host \in Machines
      BY <2>1, Types
    <3>2. log'[x] = log[x] /\ lastSent'[x] = lastSent[x]
      BY <1>t, <2>3, <3>1 DEF LoopReturns
    <3>3. QED
      BY <1>0, <3>2
  <2>4. QED
    BY <2>2, <2>3
<1>2. ASSUME NEW m \in Machines, Restart(m) PROVE SentAt(x)'
  <2>1. /\ run' = [run EXCEPT ![m] = @ + 1]
        /\ lastSent' = [lastSent EXCEPT ![m] = NoHash] /\ log' = log
    BY <1>2 DEF Restart
  <2>2. CASE x # m
    BY <1>0, <1>t, <2>1, <2>2
  <2>3. CASE x = m
    <3>1. run'[x] = run[x] + 1 /\ lastSent'[x] = NoHash /\ log'[x] = log[x]
      BY <1>t, <2>1, <2>3
    <3>2. \A k \in 1..Len(log[x]) :
            log[x][k].run <= run[x] + 1 /\ log[x][k].run # run[x] + 1
      BY <1>s, <1>t DEF SentAt
    <3>3. QED
      BY <1>t, <3>1, <3>2 DEF SentAt
  <2>4. QED
    BY <2>2, <2>3
<1>3. CASE UNCHANGED <<log, run, lastSent>>
  BY <1>0, <1>3
<1>4. QED
  BY <1>1, <1>2, <1>3, FleetAssumption
     DEF Next, Proceeds, Network, Handler, UserCopy, Emits, LoopDrops, LoopSends,
     RelaySends, Begin, Arrives, Lost, Fails, Applies, ShowsPath, Moves,
     TellsPhone, LosesPhone, vars, boxVars, callVars

LEMMA QueueInit == Init => QueueInv /\ SentInv
<1> SUFFICES ASSUME Init, NEW m \in Machines PROVE QueueAt(m) /\ SentAt(m)
  BY DEF QueueInv, SentInv
<1>1. /\ out[m] = <<>> /\ log[m] = <<>> /\ tried[m] = 0 /\ copies[m] = 0
      /\ lastSent[m] = NoHash /\ Len(<<>>) = 0 /\ 1..0 = {}
  BY DEF Init
<1>2. QED
  BY <1>1 DEF QueueAt, SentAt

LEMMA QueueAlways == Spec => [](TypeInv /\ CallInv /\ QueueInv /\ SentInv)
BY TypeInit, TypeNext, CallInit, CallNext, QueueInit, QueueNext, SentNext, PTL
   DEF Spec

(* What the loop pushes is not what it pushed last, by the log.            *)
LEMMA SendingAllowed ==
  ASSUME TypeInv, SentInv, NEW m \in Machines, NEW to \in Peers[m],
         LoopSends(m, to), NEW hash, hash = LoopAsk(m, to).hash
  PROVE  Box(m)!Allows(hash)
<1>1. hash # lastSent[m]
  BY LoopAsks DEF LoopSends, Repeated
<1>2. QED
  BY <1>1 DEF SentInv, SentAt, Box!Allows

-----------------------------------------------------------------------------
(* What a process remembers of its pushes.                                 *)

(* Once a push of the process that runs was acknowledged, the log ends     *)
(* with that push or with a later one of the process.                      *)
Remembered(p) ==
  LET acked == log[ask[p].host] IN
  /\ acked # <<>>
  /\ \E n \in p..begun : /\ SameLoop(p, n) /\ client[n] = "ok"
                        /\ acked[Len(acked)] = PushOf(n)

AckedNow(p) ==
  ask[p].by = "loop" /\ client[p] = "ok" /\ ask[p].run = run[ask[p].host]

LogInv == \A p \in 1..begun : AckedNow(p) => Remembered(p)

RepeatInv == LogInv /\ RepeatsUnanswered

LEMMA RepeatNext ==
  TypeInv /\ CallInv /\ SentInv /\ RepeatInv /\ [Next]_vars => RepeatInv'
<1> SUFFICES ASSUME TypeInv, CallInv, SentInv, RepeatInv, [Next]_vars
             PROVE  RepeatInv'
  OBVIOUS
<1>t. /\ begun \in Nat /\ 1..begun \subseteq Calls
      /\ \A m \in Machines : log[m] \in Seq(Records) /\ Len(log[m]) \in Nat
  <2>1. \A m \in Machines : log[m] \in Seq(Records)
    BY DEF TypeInv, TypeOK, Records
  <2>2. QED
    BY <2>1, Types
<1>h. \A n \in 1..begun :
        ask[n].by \in {"loop", "phone"} /\ ask[n].host \in Machines
  BY Types
<1>0. ASSUME UNCHANGED <<begun, ask, log>>,
             \A n \in 1..begun : client'[n] = "ok" <=> client[n] = "ok",
             \A p \in 1..begun : AckedNow(p)' => AckedNow(p)
      PROVE  RepeatInv'
  <2>1. LogInv'
    <3> SUFFICES ASSUME NEW p \in 1..begun, AckedNow(p)
                 PROVE  Remembered(p)'
      BY <1>0 DEF LogInv
    <3>1. Remembered(p)
      BY DEF RepeatInv, LogInv
    <3>2. \A n \in p..begun : n \in 1..begun
      BY <1>t
    <3>3. QED
      BY <1>0, <3>1, <3>2 DEF Remembered, SameLoop, PushOf
  <2>2. RepeatsUnanswered'
    <3> SUFFICES ASSUME NEW p \in 1..begun, NEW q \in 1..begun, p < q,
                        SameLoop(p, q), client[p] = "ok",
                        ask[p].hash = ask[q].hash
                 PROVE  \E n \in p..q : /\ SameLoop(p, n) /\ client'[n] = "ok"
                                       /\ ask[n].hash # ask[p].hash
      BY <1>0 DEF RepeatsUnanswered, SameLoop
    <3>1. \A n \in p..q : n \in 1..begun
      BY <1>t
    <3>2. QED
      BY <1>0, <3>1 DEF RepeatInv, RepeatsUnanswered
  <2>3. QED
    BY <2>1, <2>2 DEF RepeatInv
<1>1. ASSUME NEW a \in Asks, a.hash \notin Big, Begin(a),
             a.run = run[a.host],
             a.by = "loop" => Box(a.host)!Allows(a.hash)
      PROVE  RepeatInv'
  <2>1. /\ begun' = begun + 1
        /\ 1..begun' = (1..begun) \cup {begun + 1} /\ begun + 1 \notin 1..begun
        /\ ask'[begun + 1] = a /\ begun + 1 \in Calls
        /\ \A n \in 1..begun : ask'[n] = ask[n]
        /\ UNCHANGED <<run, log, client>>
    BY <1>1, NewCall DEF Begin
  <2>2. client[begun + 1] = "wait"
    BY <1>t, <2>1 DEF CallInv, Unmade
  <2>3. LogInv'
    <3> SUFFICES ASSUME NEW p \in 1..begun', AckedNow(p)'
                 PROVE  Remembered(p)'
      BY DEF LogInv
    <3>1. p \in 1..begun /\ AckedNow(p)
      BY <2>1, <2>2 DEF AckedNow
    <3>2. Remembered(p)
      BY <3>1 DEF RepeatInv, LogInv
    <3>3. \A n \in p..begun : n \in 1..begun /\ n \in p..begun'
      BY <1>t, <2>1
    <3>4. ask'[p] = ask[p] /\ PushOf(p)' = PushOf(p)
      BY <2>1, <3>1 DEF PushOf
    <3>5. PICK n \in p..begun : /\ SameLoop(p, n) /\ client[n] = "ok"
                                /\ log[ask[p].host][Len(log[ask[p].host])] = PushOf(n)
      BY <3>2 DEF Remembered
    <3>6. /\ n \in p..begun' /\ SameLoop(p, n)' /\ client'[n] = "ok"
          /\ PushOf(n)' = PushOf(n)
      BY <2>1, <3>3, <3>4, <3>5 DEF SameLoop, PushOf
    <3>7. log'[ask'[p].host] # <<>>
      BY <2>1, <3>2, <3>4 DEF Remembered
    <3>8. QED
      BY <2>1, <3>4, <3>5, <3>6, <3>7 DEF Remembered
  <2>4. RepeatsUnanswered'
    <3> SUFFICES ASSUME NEW p \in 1..begun', NEW q \in 1..begun', p < q,
                        SameLoop(p, q)', client[p] = "ok",
                        ask'[p].hash = ask'[q].hash
                 PROVE  \E n \in p..q : /\ SameLoop(p, n)' /\ client[n] = "ok"
                                       /\ ask'[n].hash # ask'[p].hash
      BY <2>1 DEF RepeatsUnanswered
    <3>1. p \in 1..begun /\ ask'[p] = ask[p]
      BY <2>1, <2>2
    <3>2. \A n \in p..begun : n \in 1..begun /\ ask'[n] = ask[n]
      BY <1>t, <2>1, <3>1
    <3>3. CASE q \in 1..begun
      <4>1. ask'[q] = ask[q] /\ SameLoop(p, q)
        BY <2>1, <3>1, <3>3 DEF SameLoop
      <4>2. \E n \in p..q : /\ SameLoop(p, n) /\ client[n] = "ok"
                           /\ ask[n].hash # ask[p].hash
        BY <3>1, <3>3, <4>1 DEF RepeatInv, RepeatsUnanswered
      <4>3. \A n \in p..q : n \in p..begun
        BY <1>t, <3>3
      <4>4. QED
        BY <3>1, <3>2, <4>1, <4>2, <4>3 DEF SameLoop
    <3>4. CASE q = begun + 1
      <4>1. /\ ask'[q] = a /\ a.by = "loop" /\ ask[p].by = "loop"
            /\ ask[p].host = a.host /\ ask[p].run = a.run
        BY <2>1, <3>1, <3>4 DEF SameLoop
      <4>2. AckedNow(p)
        BY <1>1, <4>1 DEF AckedNow
      <4>3. Remembered(p)
        BY <3>1, <4>2 DEF RepeatInv, LogInv
      <4>4. log[a.host] # <<>>
        BY <4>1, <4>3 DEF Remembered
      <4>5. PICK n \in p..begun :
              /\ SameLoop(p, n) /\ client[n] = "ok"
              /\ log[a.host][Len(log[a.host])] = PushOf(n)
        BY <4>1, <4>3 DEF Remembered
      <4>6. PushOf(n).run = run[a.host] /\ PushOf(n).hash = ask[n].hash
        BY <1>1, <4>1, <4>5 DEF PushOf, SameLoop
      <4>7. ask[n].hash # a.hash
        BY <1>1, <4>1, <4>4, <4>5, <4>6 DEF Box!Allows
      <4>8. n \in p..q /\ SameLoop(p, n)'
        BY <1>t, <3>1, <3>2, <3>4, <4>5 DEF SameLoop
      <4>9. QED
        BY <3>1, <3>2, <4>1, <4>5, <4>7, <4>8
    <3>5. QED
      BY <2>1, <3>3, <3>4
  <2>5. QED
    BY <2>3, <2>4 DEF RepeatInv
<1>2. ASSUME NEW m \in Machines, NEW to \in Peers[m], LoopSends(m, to)
      PROVE  RepeatInv'
  <2> PICK a : a = LoopAsk(m, to)
    OBVIOUS
  <2>1. a \in Asks /\ a.hash \notin Big
    BY <1>2, LoopAsks
  <2>2. /\ Begin(a) /\ a.host = m /\ a.run = run[m]
    BY <1>2, LoopAsks DEF LoopSends
  <2>3. Box(m)!Allows(a.hash)
    BY <1>2, SendingAllowed
  <2>4. Box(a.host)!Allows(a.hash)
    BY <2>2, <2>3
  <2>5. QED
    BY <1>1, <2>1, <2>2, <2>4
<1>3. ASSUME NEW m \in Machines, NEW to \in Peers[m], NEW u \in Uploads,
             RelaySends(m, to, u[1], u[2])
      PROVE  RepeatInv'
  <2> PICK a : a = [by |-> "phone", host |-> m, to |-> to, kind |-> u[1],
                    id |-> 0, hash |-> u[2], run |-> run[m]]
    OBVIOUS
  <2>1. a \in Asks /\ a.hash \notin Big
    BY <1>3, RelayAsks
  <2>2. Begin(a) /\ a.host = m /\ a.run = run[m] /\ a.by = "phone"
    BY <1>3 DEF RelaySends
  <2>3. QED
    BY <1>1, <2>1, <2>2
<1>4. ASSUME NEW n \in Calls,
             Arrives(n) \/ Lost(n) \/ Fails(n) \/ Applies(n) \/ ShowsPath(n)
      PROVE  RepeatInv'
  <2>1. UNCHANGED <<run, begun, ask, log, client>>
    BY <1>4, ServerMoves DEF boxVars
  <2>2. QED
    BY <1>0, <2>1 DEF AckedNow
<1>5. ASSUME NEW n \in Calls, SendReturns(n) \/ TimesOut(n) PROVE RepeatInv'
  <2> PICK r \in {"ok", "failed"} :
        /\ client[n] = "wait" /\ n <= begun
        /\ client' = [client EXCEPT ![n] = r] /\ LoopReturns(n, r)
        /\ UNCHANGED <<run, begun, ask>>
    BY <1>5 DEF SendReturns, TimesOut, Answered, callVars
  <2>1. /\ n \in 1..begun
        /\ client'[n] = r /\ \A x \in Calls \ {n} : client'[x] = client[x]
        /\ ask[n].by = "phone" => log' = log
        /\ ask[n].by = "loop" =>
              /\ ask[n].run = run[ask[n].host]
              /\ log' = IF r = "ok"
                        THEN [log EXCEPT ![ask[n].host] = Append(@, PushOf(n))]
                        ELSE log
        /\ ask[n].by \in {"loop", "phone"} /\ ask[n].host \in Machines
    <3>1. /\ n \in 1..begun
          /\ client'[n] = r /\ \A x \in Calls \ {n} : client'[x] = client[x]
          /\ ask[n].by = "phone" => loop' = loop /\ log' = log
          /\ ask[n].by = "loop" =>
               /\ loop[ask[n].host] = n /\ ask[n].run = run[ask[n].host]
               /\ loop' = [loop EXCEPT ![ask[n].host] = 0]
               /\ log' = IF r = "ok"
                         THEN [log EXCEPT ![ask[n].host] = Append(@, PushOf(n))]
                         ELSE log
      BY Returning
    <3>2. QED
      BY <1>h, <3>1
  <2>2. ASSUME NEW q \in 1..begun, n < q PROVE ~SameLoop(n, q)
    BY <2>1, <2>2 DEF CallInv, OneByOne, SameLoop
  <2>3. CASE log' = log /\ (ask[n].by = "phone" \/ r = "failed")
    <3>1. LogInv'
      <4> SUFFICES ASSUME NEW p \in 1..begun, AckedNow(p)'
                   PROVE  Remembered(p)'
        BY DEF LogInv
      <4>1. AckedNow(p)
        BY <1>t, <2>1, <2>3 DEF AckedNow
      <4>2. Remembered(p)
        BY <4>1 DEF RepeatInv, LogInv
      <4>3. \A x \in p..begun : x \in Calls
        BY <1>t
      <4>4. QED
        BY <2>1, <2>3, <4>2, <4>3 DEF Remembered, SameLoop, PushOf
    <3>2. RepeatsUnanswered'
      <4> SUFFICES ASSUME NEW p \in 1..begun, NEW q \in 1..begun, p < q,
                          SameLoop(p, q), client'[p] = "ok",
                          ask[p].hash = ask[q].hash
                   PROVE  \E x \in p..q : /\ SameLoop(p, x) /\ client'[x] = "ok"
                                         /\ ask[x].hash # ask[p].hash
        BY DEF RepeatsUnanswered, SameLoop
      <4>1. client[p] = "ok"
        BY <1>t, <2>1, <2>3 DEF SameLoop
      <4>2. \A x \in p..q : x \in Calls
        BY <1>t
      <4>3. QED
        BY <2>1, <4>1, <4>2 DEF RepeatInv, RepeatsUnanswered
    <3>3. QED
      BY <3>1, <3>2 DEF RepeatInv
  <2>4. CASE ask[n].by = "loop" /\ r = "ok"
    <3> PICK m \in Machines : m = ask[n].host
      BY <2>1
    <3>1. /\ log'[m] = Append(log[m], PushOf(n))
          /\ \A x \in Machines \ {m} : log'[x] = log[x]
          /\ \A x \in Calls : client[x] = "ok" => client'[x] = "ok"
      BY <2>1, <2>4 DEF TypeInv, TypeOK
    <3>2. /\ Len(log'[m]) = Len(log[m]) + 1
          /\ log'[m][Len(log'[m])] = PushOf(n) /\ Len(log'[m]) \in 1..Len(log'[m])
          /\ \A k \in 1..Len(log[m]) :
               k \in 1..Len(log'[m]) /\ log'[m][k] = log[m][k]
      <4>1. log[m] \in Seq(Records) /\ PushOf(n) \in Records
        BY <1>t, <2>1, Types
      <4>2. QED
        BY <3>1, <4>1, Appended
    <3>3. LogInv'
      <4> SUFFICES ASSUME NEW p \in 1..begun, AckedNow(p)'
                   PROVE  Remembered(p)'
        BY DEF LogInv
      <4>1. ask[p].host \in Machines
        BY Types
      <4>2. CASE p = n
        <5>1. p \in p..begun /\ SameLoop(p, p)
          BY <1>t, <2>4, <4>2 DEF SameLoop
        <5>2. QED
          BY <2>1, <2>4, <3>2, <4>2, <5>1 DEF Remembered, SameLoop, PushOf
      <4>3. CASE p # n /\ ask[p].host = m
        <5>1. AckedNow(p)
          BY <1>t, <2>1, <4>3 DEF AckedNow
        <5>2. Remembered(p)
          BY <5>1 DEF RepeatInv, LogInv
        <5>3. SameLoop(p, n) /\ SameLoop(n, p)
          BY <2>1, <2>4, <4>3, <5>1 DEF AckedNow, SameLoop
        <5>4. n \in p..begun
          BY <1>t, <2>1, <2>2, <4>3, <5>3
        <5>5. log'[m] # <<>>
          BY <3>1
        <5>6. /\ \A x \in 1..begun : PushOf(x)' = PushOf(x)
              /\ SameLoop(p, n)' /\ ask'[p].host = m
          BY <2>1, <4>3, <5>3 DEF PushOf, SameLoop
        <5>7. QED
          BY <2>1, <2>4, <3>2, <5>4, <5>5, <5>6 DEF Remembered
      <4>4. CASE ask[p].host # m
        <5>1. AckedNow(p)
          BY <1>t, <2>1, <4>4 DEF AckedNow
        <5>2. Remembered(p) /\ log'[ask[p].host] = log[ask[p].host]
          BY <3>1, <4>1, <4>4, <5>1 DEF RepeatInv, LogInv
        <5>3. \A x \in p..begun : x \in Calls
          BY <1>t
        <5>4. PICK x \in p..begun :
                /\ SameLoop(p, x) /\ client[x] = "ok"
                /\ log[ask[p].host][Len(log[ask[p].host])] = PushOf(x)
          BY <5>2 DEF Remembered
        <5>5. client'[x] = "ok" /\ SameLoop(p, x)'
              /\ PushOf(x)' = PushOf(x) /\ PushOf(p)' = PushOf(p)
          BY <3>1, <5>3, <5>4 DEF SameLoop, PushOf
        <5>6. QED
          BY <5>2, <5>4, <5>5 DEF Remembered
      <4>5. QED
        BY <4>2, <4>3, <4>4
    <3>4. RepeatsUnanswered'
      <4> SUFFICES ASSUME NEW p \in 1..begun, NEW q \in 1..begun, p < q,
                          SameLoop(p, q), client'[p] = "ok",
                          ask[p].hash = ask[q].hash
                   PROVE  \E x \in p..q : /\ SameLoop(p, x) /\ client'[x] = "ok"
                                         /\ ask[x].hash # ask[p].hash
        BY DEF RepeatsUnanswered, SameLoop
      <4>1. client[p] = "ok"
        BY <1>t, <2>1, <2>2
      <4>2. \A x \in p..q : x \in Calls
        BY <1>t
      <4>3. QED
        BY <3>1, <4>1, <4>2 DEF RepeatInv, RepeatsUnanswered
    <3>5. QED
      BY <3>3, <3>4 DEF RepeatInv
  <2>5. QED
    BY <2>1, <2>3, <2>4
<1>6. ASSUME NEW n \in Calls, TellsPhone(n) \/ LosesPhone(n) PROVE RepeatInv'
  <2>1. UNCHANGED <<run, begun, ask, log, client>>
    BY <1>6 DEF TellsPhone, LosesPhone, boxVars, callVars
  <2>2. QED
    BY <1>0, <2>1 DEF AckedNow
<1>7. ASSUME NEW m \in Machines, Restart(m) PROVE RepeatInv'
  <2>1. /\ run' = [run EXCEPT ![m] = @ + 1] /\ run \in [Machines -> Nat]
        /\ UNCHANGED <<begun, ask, log>>
    BY <1>7 DEF Restart, callVars, TypeInv, TypeOK
  <2>2. \A n \in Calls : client'[n] = "ok" <=> client[n] = "ok"
    BY <1>7 DEF Restart
  <2>3. ASSUME NEW p \in 1..begun, AckedNow(p)' PROVE AckedNow(p)
    <3>1. /\ ask[p].run <= run[ask[p].host] /\ ask[p].run \in Nat
          /\ ask[p].host \in Machines
      BY Types DEF CallInv, OneCall
    <3>2. ask[p].run = run'[ask[p].host]
      BY <2>1, <2>3 DEF AckedNow
    <3>3. ask[p].host # m
      BY <2>1, <3>1, <3>2
    <3>4. QED
      BY <1>t, <2>1, <2>2, <2>3, <3>1, <3>3 DEF AckedNow
  <2>4. QED
    BY <1>0, <1>t, <2>1, <2>2, <2>3
<1>8. ASSUME NEW m \in Machines, UserCopy(m) \/ Queues(m) PROVE RepeatInv'
  BY <1>0, <1>8, Queued DEF UserCopy, callVars, AckedNow
<1>9. CASE UNCHANGED vars
  BY <1>0, <1>9 DEF vars, boxVars, callVars, AckedNow
<1>10. QED
  BY <1>2, <1>3, <1>4, <1>5, <1>6, <1>7, <1>8, <1>9, FleetAssumption
     DEF Next, Proceeds, Network, Handler, Queues

(* A process pushes a content again after an answer only if it has pushed  *)
(* another content in between: what it has read again from a clipboard that*)
(* changes under its looks, its relays, timeouts and the restarts of other *)
(* machines do not make it forget what it has pushed last (daemon.go:90,   *)
(* 137-143).                                                               *)
THEOREM RepeatsOnlyUnanswered == Spec => []RepeatsUnanswered
<1>1. Init => RepeatInv
  BY FleetAssumption DEF Init, RepeatInv, LogInv, RepeatsUnanswered
<1>2. RepeatInv => RepeatsUnanswered
  BY DEF RepeatInv
<1>3. QED
  BY <1>1, <1>2, QueueAlways, RepeatNext, PTL DEF Spec

-----------------------------------------------------------------------------
(* Every step of the fleet is a step of Delivery or leaves it alone.       *)

Asked == {<<n, ask[n].to>> : n \in 1..begun}
Arrived == UNION {{<<got[m][i], m>> : i \in 1..Len(got[m])} : m \in Machines}
ToldAll == [n \in Calls |-> Told(n)]

LEMMA ArrivedElements ==
  \A n, m : <<n, m>> \in Arrived <=>
            m \in Machines /\ \E i \in 1..Len(got[m]) : got[m][i] = n
BY DEF Arrived

(* Someone is told how a call has ended.                                   *)
LEMMA Telling ==
  ASSUME TypeInv, GotInv, NEW n \in 1..begun, NEW r \in {"ok", "failed"},
         Told(n) = "wait", r = "ok" => server[n] = "yes",
         ToldAll' = [ToldAll EXCEPT ![n] = r],
         Asked' = Asked, Arrived' = Arrived
  PROVE  Mail!Next
<1>1. n \in Calls /\ ask[n].to \in Machines
  BY Types
<1>2. ToldAll[n] = "wait" /\ <<n, ask[n].to>> \in Asked
  BY <1>1 DEF ToldAll, Asked
<1>3. CASE r = "ok"
  <2>1. <<n, ask[n].to>> \in Arrived
    BY <1>1, <1>3, ArrivedElements DEF GotInv
  <2>2. Mail!TellOk(n)
    BY <1>1, <1>2, <1>3, <2>1 DEF Mail!TellOk, ToldAll, Asked, Arrived
  <2>3. QED
    BY <1>1, <2>2 DEF Mail!Next
<1>4. CASE r = "failed"
  <2>1. ToldAll' = [x \in Calls |-> IF x \in {n} THEN "failed" ELSE ToldAll[x]]
    BY <1>4 DEF ToldAll
  <2>2. Mail!TellFailed({n})
    BY <1>1, <1>2, <2>1 DEF Mail!TellFailed, ToldAll, Asked, Arrived
  <2>3. {n} \in SUBSET Calls
    BY <1>1
  <2>4. QED
    BY <2>2, <2>3 DEF Mail!Next
<1>5. QED
  BY <1>3, <1>4

LEMMA StepOfDelivery ==
  TypeInv /\ CallInv /\ GotInv /\ [Next]_vars
    => [Mail!Next]_(Mail!deliveryVars)
<1> SUFFICES ASSUME TypeInv, CallInv, GotInv, [Next]_vars
             PROVE  [Mail!Next]_(Mail!deliveryVars)
  OBVIOUS
<1>t. begun \in Nat /\ 1..begun \subseteq Calls
  BY Types
<1>s. ASSUME UNCHANGED <<Asked, Arrived, ToldAll>>
      PROVE  UNCHANGED Mail!deliveryVars
  BY <1>s DEF Mail!deliveryVars, Asked, Arrived, ToldAll
<1>c. ASSUME UNCHANGED <<begun, ask>> PROVE Asked' = Asked
  BY <1>c DEF Asked
<1>g. ASSUME got' = got PROVE Arrived' = Arrived
  BY <1>g DEF Arrived
<1>1. ASSUME NEW a \in Asks, a.hash \notin Big, Begin(a) PROVE Mail!Next
  <2>1. /\ begun' = begun + 1 /\ begun + 1 \in Calls
        /\ 1..begun' = (1..begun) \cup {begun + 1} /\ begun + 1 \notin 1..begun
        /\ ask'[begun + 1] = a /\ a.to \in Machines
        /\ \A n \in 1..begun : ask'[n] = ask[n]
        /\ UNCHANGED <<client, phone, got>>
    BY <1>1, NewCall DEF Begin, Asks
  <2>2. \A x \in Machines : <<begun + 1, x>> \notin Asked
    BY <2>1 DEF Asked
  <2>3. Asked' = Asked \cup {<<begun + 1, a.to>>}
    <3>1. \A e \in Asked' : e \in Asked \cup {<<begun + 1, a.to>>}
      BY <2>1 DEF Asked
    <3>2. \A e \in Asked : e \in Asked'
      BY <2>1 DEF Asked
    <3>3. <<begun + 1, a.to>> \in Asked'
      BY <2>1 DEF Asked
    <3>4. QED
      BY <3>1, <3>2, <3>3
  <2>4. \A n \in Calls : Told(n)' = Told(n)
    <3>1. ASSUME NEW n \in Calls PROVE Told(n)' = Told(n)
      <4>1. CASE n \in 1..begun
        BY <1>t, <2>1, <4>1 DEF Told, Calls
      <4>2. CASE n \notin 1..begun
        <5>1. ~(n <= begun) /\ n > begun
          BY <1>t, <4>2, Types DEF Calls
        <5>2. client[n] = "wait" /\ phone[n] = "wait"
          BY <5>1 DEF CallInv, Unmade
        <5>3. QED
          BY <2>1, <5>1, <5>2 DEF Told
      <4>3. QED
        BY <4>1, <4>2
    <3>2. QED
      BY <3>1
  <2>5. ToldAll' = ToldAll
    BY <2>4 DEF ToldAll
  <2>6. Mail!Ask(begun + 1, a.to)
    BY <1>g, <2>1, <2>2, <2>3, <2>5 DEF Mail!Ask, Asked, Arrived, ToldAll
  <2>7. QED
    BY <2>1, <2>6 DEF Mail!Next
<1>2. ASSUME NEW m \in Machines, NEW to \in Peers[m], LoopSends(m, to)
      PROVE  Mail!Next
  <2> PICK a : a = LoopAsk(m, to)
    OBVIOUS
  <2>1. a \in Asks /\ a.hash \notin Big
    BY <1>2, LoopAsks
  <2>2. QED
    BY <1>1, <1>2, <2>1 DEF LoopSends
<1>3. ASSUME NEW m \in Machines, NEW to \in Peers[m], NEW u \in Uploads,
             RelaySends(m, to, u[1], u[2])
      PROVE  Mail!Next
  <2> PICK a : a = [by |-> "phone", host |-> m, to |-> to, kind |-> u[1],
                    id |-> 0, hash |-> u[2], run |-> run[m]]
    OBVIOUS
  <2>1. a \in Asks /\ a.hash \notin Big
    BY <1>3, RelayAsks
  <2>2. QED
    BY <1>1, <1>3, <2>1 DEF RelaySends
<1>4. ASSUME NEW n \in Calls,
             Arrives(n) \/ Lost(n) \/ Fails(n) \/ Applies(n) \/ ShowsPath(n)
      PROVE  Asked' = Asked /\ ToldAll' = ToldAll /\ n \in 1..begun
  <2>1. UNCHANGED <<begun, ask, client, phone>> /\ n \in 1..begun
    BY <1>4, ServerMoves
  <2>2. QED
    BY <1>c, <2>1 DEF ToldAll, Told
<1>5. ASSUME NEW n \in Calls, Arrives(n) \/ Lost(n) \/ Fails(n) \/ ShowsPath(n)
      PROVE  UNCHANGED Mail!deliveryVars
  <2>1. got' = got
    BY <1>5 DEF Arrives, Lost, Fails, ShowsPath
  <2>2. QED
    BY <1>4, <1>5, <1>g, <1>s, <2>1
<1>6. ASSUME NEW n \in Calls, Applies(n) PROVE Mail!Next
  <2> PICK m \in Machines : m = ask[n].to
    BY <1>4, <1>6, Types
  <2>1. /\ n \in 1..begun /\ Asked' = Asked /\ ToldAll' = ToldAll
        /\ server[n] = "handle" /\ got' = [got EXCEPT ![m] = Append(@, n)]
        /\ got \in [Machines -> Seq(Calls)]
    BY <1>4, <1>6 DEF Applies, Moves, TypeInv, TypeOK
  <2>2. /\ got'[m] = Append(got[m], n) /\ got[m] \in Seq(Calls)
        /\ \A x \in Machines \ {m} : got'[x] = got[x]
    BY <2>1
  <2>3. /\ Len(got'[m]) = Len(got[m]) + 1 /\ Len(got[m]) \in Nat
        /\ got'[m][Len(got[m]) + 1] = n
        /\ \A i \in 1..Len(got[m]) :
             i \in 1..Len(got'[m]) /\ got'[m][i] = got[m][i]
        /\ \A i \in 1..Len(got'[m]) : i \in 1..Len(got[m]) \/ i = Len(got[m]) + 1
        /\ Len(got[m]) + 1 \in 1..Len(got'[m])
    BY <2>2
  <2>4. <<n, m>> \in Asked
    BY <2>1 DEF Asked
  <2>5. <<n, m>> \notin Arrived
    BY <2>1, ArrivedElements DEF GotInv
  <2>6. Arrived' = Arrived \cup {<<n, m>>}
    <3>1. ASSUME NEW e \in Arrived' PROVE e \in Arrived \cup {<<n, m>>}
      <4>0. PICK x \in Machines :
              \E i \in 1..Len(got'[x]) : e = <<got'[x][i], x>>
        BY <3>1 DEF Arrived
      <4>1. PICK i \in 1..Len(got'[x]) : e = <<got'[x][i], x>>
        BY <4>0
      <4>2. CASE x = m /\ i = Len(got[m]) + 1
        BY <2>3, <4>1, <4>2
      <4>3. CASE ~(x = m /\ i = Len(got[m]) + 1)
        <5>1. i \in 1..Len(got[x]) /\ got'[x][i] = got[x][i]
          BY <2>2, <2>3, <4>3
        <5>2. QED
          BY <4>1, <5>1 DEF Arrived
      <4>4. QED
        BY <4>2, <4>3
    <3>2. ASSUME NEW e \in Arrived PROVE e \in Arrived'
      <4>0. PICK x \in Machines :
              \E i \in 1..Len(got[x]) : e = <<got[x][i], x>>
        BY <3>2 DEF Arrived
      <4>1. PICK i \in 1..Len(got[x]) : e = <<got[x][i], x>>
        BY <4>0
      <4>2. i \in 1..Len(got'[x]) /\ got'[x][i] = got[x][i]
        BY <2>2, <2>3
      <4>3. QED
        BY <4>1, <4>2 DEF Arrived
    <3>3. <<n, m>> \in Arrived'
      BY <2>3 DEF Arrived
    <3>4. QED
      BY <3>1, <3>2, <3>3
  <2>7. ToldAll[n] # "ok" /\ n \in Calls
    BY <1>t, <2>1 DEF CallInv, OkIsAnswer, ToldAll, Told
  <2>8. Mail!Arrive(n, m)
    BY <2>1, <2>4, <2>5, <2>6, <2>7 DEF Mail!Arrive, Asked, Arrived, ToldAll
  <2>9. QED
    BY <2>7, <2>8 DEF Mail!Next
<1>7. ASSUME NEW n \in Calls, SendReturns(n) \/ TimesOut(n)
      PROVE  [Mail!Next]_(Mail!deliveryVars)
  <2> PICK r \in {"ok", "failed"} :
        /\ client[n] = "wait" /\ n <= begun
        /\ client' = [client EXCEPT ![n] = r]
        /\ r = "ok" => server[n] = "yes"
        /\ UNCHANGED <<begun, ask, phone, got>>
    BY <1>7 DEF SendReturns, TimesOut, Answered, callVars
  <2>1. /\ n \in 1..begun /\ Asked' = Asked /\ Arrived' = Arrived
        /\ client \in [Calls -> {"wait", "ok", "failed"}]
    BY <1>c, <1>g, <1>t DEF Calls, TypeInv, TypeOK
  <2>2. CASE ask[n].by = "phone"
    <3>1. \A x \in Calls : Told(x)' = Told(x)
      BY <2>1, <2>2 DEF Told
    <3>2. ToldAll' = ToldAll
      BY <3>1 DEF ToldAll
    <3>3. QED
      BY <1>s, <2>1, <3>2
  <2>3. CASE ask[n].by # "phone"
    <3>1. Told(n) = "wait" /\ Told(n)' = r
      BY <2>1, <2>3 DEF Told
    <3>2. \A x \in Calls \ {n} : Told(x)' = Told(x)
      BY <2>1 DEF Told
    <3>3. ToldAll' = [ToldAll EXCEPT ![n] = r]
      BY <3>1, <3>2 DEF ToldAll
    <3>4. QED
      BY <2>1, <3>1, <3>3, Telling
  <2>4. QED
    BY <2>2, <2>3
<1>8. ASSUME NEW n \in Calls, TellsPhone(n) \/ LosesPhone(n)
      PROVE  Mail!Next
  <2> PICK r \in {"ok", "failed"} :
        /\ n <= begun /\ ask[n].by = "phone" /\ phone[n] = "wait"
        /\ phone' = [phone EXCEPT ![n] = r]
        /\ r = "ok" => client[n] = "ok"
        /\ UNCHANGED <<begun, ask, client, server, got>>
    BY <1>8 DEF TellsPhone, LosesPhone, callVars, TypeInv, TypeOK
  <2>1. /\ n \in 1..begun /\ Asked' = Asked /\ Arrived' = Arrived
        /\ phone \in [Calls -> {"wait", "ok", "failed"}]
    BY <1>c, <1>g, <1>t DEF Calls, TypeInv, TypeOK
  <2>2. Told(n) = "wait" /\ Told(n)' = r
    BY <2>1 DEF Told
  <2>3. \A x \in Calls \ {n} : Told(x)' = Told(x)
    BY <2>1 DEF Told
  <2>4. ToldAll' = [ToldAll EXCEPT ![n] = r]
    BY <2>2, <2>3 DEF ToldAll
  <2>5. r = "ok" => server[n] = "yes"
    BY <2>1 DEF CallInv, OkIsAnswer
  <2>6. QED
    BY <2>1, <2>2, <2>4, <2>5, Telling
<1>9. ASSUME NEW m \in Machines, Restart(m) PROVE Mail!Next
  <2> DEFINE N == {n \in 1..begun : ask[n].host = m /\ Told(n) = "wait"}
  <2>1. /\ UNCHANGED <<begun, ask, got>>
        /\ \A n \in Calls :
             client'[n] = IF (n <= begun /\ ask[n].host = m) /\ client[n] = "wait"
                          THEN "failed" ELSE client[n]
        /\ \A n \in Calls :
             phone'[n] = IF (n <= begun /\ ask[n].host = m) /\ ask[n].by = "phone"
                            /\ phone[n] = "wait"
                         THEN "failed" ELSE phone[n]
    BY <1>9 DEF Restart, callVars
  <2>2. Asked' = Asked /\ Arrived' = Arrived
    BY <1>c, <1>g, <2>1
  <2>3. \A n \in Calls : n <= begun => n \in 1..begun
    BY <1>t DEF Calls
  <2>4. ASSUME NEW n \in Calls
        PROVE  Told(n)' = IF n \in N THEN "failed" ELSE Told(n)
    <3>1. CASE n \in 1..begun
      <4>1. n <= begun
        BY <1>t, <3>1
      <4>2. QED
        BY <2>1, <3>1, <4>1 DEF Told
    <3>2. CASE n \notin 1..begun
      BY <2>1, <2>3, <3>2 DEF Told
    <3>3. QED
      BY <3>1, <3>2
  <2>5. ToldAll' = [n \in Calls |-> IF n \in N THEN "failed" ELSE ToldAll[n]]
    BY <2>4 DEF ToldAll
  <2>6. \A n \in N : /\ ToldAll[n] = "wait"
                    /\ \E x \in Machines : <<n, x>> \in Asked
    BY <1>t, Types DEF ToldAll, Asked
  <2>7. N \in SUBSET Calls
    BY <1>t
  <2> HIDE DEF N
  <2>8. Mail!TellFailed(N)
    BY <2>2, <2>5, <2>6 DEF Mail!TellFailed, ToldAll, Asked, Arrived
  <2>9. QED
    BY <2>7, <2>8 DEF Mail!Next
<1>10. ASSUME NEW m \in Machines, UserCopy(m) \/ Queues(m)
       PROVE  UNCHANGED Mail!deliveryVars
  <2>1. UNCHANGED <<begun, ask, client, phone, got>>
    BY <1>10, Queued DEF UserCopy, callVars
  <2>2. QED
    BY <1>c, <1>g, <1>s, <2>1 DEF ToldAll, Told
<1>11. CASE UNCHANGED vars
  <2>1. UNCHANGED <<begun, ask, client, phone, got>>
    BY <1>11 DEF vars, callVars
  <2>2. QED
    BY <1>c, <1>g, <1>s, <2>1 DEF ToldAll, Told
<1>12. QED
  BY <1>2, <1>3, <1>5, <1>6, <1>7, <1>8, <1>9, <1>10, <1>11, FleetAssumption
     DEF Next, Proceeds, Network, Handler, Queues

(* All of it, the loops and the relays of every machine, the network, the  *)
(* timeouts and the restarts, keeps the promise of Delivery                *)
(* (client.go:20-45, server.go:61, daemon.go:147, daemon.go:270).          *)
THEOREM KeepsDelivery == Spec => ImplementsDelivery
<1>1. Init => Mail!Init
  <2>1. Init => begun = 0 /\ \A m \in Machines : Len(got[m]) = 0
    BY DEF Init
  <2>2. Init => Asked = {} /\ Arrived = {}
    BY <2>1 DEF Asked, Arrived
  <2>3. Init => \A n \in Calls : Told(n) = "wait"
    BY DEF Init, Told
  <2>4. Init => ToldAll = [n \in Calls |-> "wait"]
    BY <2>3 DEF ToldAll
  <2>5. QED
    BY <2>2, <2>4 DEF Mail!Init, Asked, Arrived, ToldAll
<1>2. ArrivalInv => GotInv
  BY DEF ArrivalInv
<1>3. QED
  BY <1>1, <1>2, StepOfDelivery, ArrivalAlways, PTL
     DEF Spec, ImplementsDelivery, Mail!Spec
-----------------------------------------------------------------------------
(* Every machine keeps the promise of Outbox.                              *)

(* The push that the loop waits for does not change while it waits.        *)
LEMMA StillTrying ==
  ASSUME TypeInv, NEW m \in Machines, loop'[m] = loop[m],
         \A n \in 1..begun : ask'[n] = ask[n]
  PROVE  Trying(m)' = Trying(m)
<1>1. loop[m] \in 0..begun /\ begun \in Nat
  BY Types DEF TypeInv, TypeOK
<1>2. loop[m] # 0 => loop[m] \in 1..begun
  BY <1>1
<1>3. loop[m] # 0 => PushOf(loop[m])' = PushOf(loop[m])
  BY <1>2 DEF PushOf
<1>4. QED
  BY <1>3 DEF Trying

LEMMA StepOfOutboxes ==
  ASSUME TypeInv, CallInv, QueueInv, SentInv, [Next]_vars, NEW m \in Machines
  PROVE  UNCHANGED Box(m)!outboxVars \/ Box(m)!Next
<1>t. /\ begun \in Nat /\ loop[m] \in 0..begun
      /\ copies \in [Machines -> Nat] /\ tried \in [Machines -> Nat]
      /\ run \in [Machines -> Nat] /\ loop \in [Machines -> 0..begun]
      /\ log \in [Machines -> Seq(Records)]
  BY Types DEF TypeInv, TypeOK, Records
<1>0. ASSUME copies'[m] = copies[m], tried'[m] = tried[m], log'[m] = log[m],
             run'[m] = run[m], loop'[m] = loop[m],
             \A n \in 1..begun : ask'[n] = ask[n]
      PROVE  UNCHANGED Box(m)!outboxVars
  BY <1>0, StillTrying DEF Box!outboxVars
<1>1. ASSUME NEW x \in Machines, UserCopy(x)
      PROVE  UNCHANGED Box(m)!outboxVars \/ Box(m)!Next
  <2>1. /\ copies' = [copies EXCEPT ![x] = @ + 1]
        /\ UNCHANGED <<tried, log, run, loop, ask>>
    BY <1>1 DEF UserCopy, callVars
  <2>2. CASE x = m
    <3>1. Trying(m)' = Trying(m)
      BY <2>1, StillTrying
    <3>2. copies'[m] = copies[m] + 1
      BY <1>t, <2>1, <2>2
    <3>3. Box(m)!Copy
      BY <2>1, <3>1, <3>2 DEF Box!Copy
    <3>4. QED
      BY <3>3 DEF Box!Next
  <2>3. CASE x # m
    BY <1>0, <1>t, <2>1, <2>3
  <2>4. QED
    BY <2>2, <2>3
<1>2. ASSUME NEW x \in Machines, NEW to \in Peers[x], LoopSends(x, to)
      PROVE  UNCHANGED Box(m)!outboxVars \/ Box(m)!Next
  <2> PICK a : a = LoopAsk(x, to)
    OBVIOUS
  <2> PICK id \in Nat : id = Head(out[x]).id
    BY <1>2, LoopAsks DEF Items
  <2>1. /\ a \in Asks /\ a.hash \notin Big /\ Begin(a) /\ a.to = to
        /\ a.id = id /\ a.run = run[x]
    <3>1. Begin(a)
      BY <1>2 DEF LoopSends
    <3>2. /\ a \in Asks /\ a.hash \notin Big /\ a.to = to
          /\ a.id = id /\ a.run = run[x]
      BY <1>2, LoopAsks
    <3>3. QED
      BY <3>1, <3>2
  <2>2. /\ ask'[begun + 1] = a /\ \A n \in 1..begun : ask'[n] = ask[n]
        /\ loop[x] = 0 /\ loop' = [loop EXCEPT ![x] = begun + 1]
        /\ tried' = [tried EXCEPT ![x] = id]
        /\ UNCHANGED <<copies, log, run>>
    BY <1>2, <2>1, NewCall DEF LoopSends, Begin
  <2>3. CASE x = m
    <3>1. Trying(m) = NoPush
      BY <2>2, <2>3 DEF Trying
    <3>2. Trying(m)' = [id |-> id, hash |-> a.hash, to |-> to, run |-> run[m]]
      <4>1. loop'[m] = begun + 1 /\ begun + 1 # 0
        BY <1>t, <2>2, <2>3
      <4>2. Trying(m)' = [id |-> a.id, hash |-> a.hash, to |-> a.to,
                          run |-> a.run]
        BY <2>2, <4>1 DEF Trying, PushOf
      <4>3. QED
        BY <2>1, <2>3, <4>2
    <3>3. tried'[m] = id
      BY <1>t, <2>2, <2>3
    <3>4. tried[m] <= id /\ id \in 1..copies[m]
      <4>1. out[m] \in Seq(Items) /\ out[m] # <<>>
        BY <1>2, <2>3 DEF LoopSends, TypeInv, TypeOK, Items
      <4>2. Head(out[m]) = out[m][1] /\ 1 \in 1..Len(out[m])
        BY <4>1, Tailed
      <4>3. QED
        BY <2>3, <4>2 DEF QueueInv, QueueAt
    <3>5. Box(m)!Begin(id, a.hash, to)
      <4>1. Box(m)!Allows(a.hash)
        BY <1>2, <2>3, SendingAllowed
      <4>2. QED
        BY <2>2, <3>1, <3>2, <3>3, <3>4, <4>1 DEF Box!Begin
    <3>6. a.hash \in Contents \ Big /\ to \in Machines
      BY <2>1 DEF Asks
    <3>7. QED
      BY <3>4, <3>5, <3>6 DEF Box!Next
  <2>4. CASE x # m
    BY <1>0, <1>t, <2>2, <2>4
  <2>5. QED
    BY <2>3, <2>4
<1>3. ASSUME NEW x \in Machines, NEW to \in Peers[x], NEW u \in Uploads,
             RelaySends(x, to, u[1], u[2])
      PROVE  UNCHANGED Box(m)!outboxVars
  <2> PICK a : a = [by |-> "phone", host |-> x, to |-> to, kind |-> u[1],
                    id |-> 0, hash |-> u[2], run |-> run[x]]
    OBVIOUS
  <2>1. a \in Asks /\ a.hash \notin Big /\ Begin(a)
    BY <1>3, RelayAsks DEF RelaySends
  <2>2. /\ \A n \in 1..begun : ask'[n] = ask[n]
        /\ UNCHANGED <<copies, log, run, loop, tried>>
    BY <1>3, <2>1, NewCall DEF RelaySends, Begin
  <2>3. QED
    BY <1>0, <2>2
<1>4. ASSUME NEW n \in Calls, Network(n) \/ Handler(n)
      PROVE  UNCHANGED Box(m)!outboxVars
  <2>1. UNCHANGED <<boxVars, callVars>>
    BY <1>4, ServerMoves DEF Network, Handler
  <2>2. QED
    BY <1>0, <2>1 DEF boxVars, callVars
<1>5. ASSUME NEW n \in Calls, SendReturns(n) \/ TimesOut(n)
      PROVE  UNCHANGED Box(m)!outboxVars \/ Box(m)!Next
  <2> PICK r \in {"ok", "failed"} :
        /\ client[n] = "wait" /\ n <= begun
        /\ client' = [client EXCEPT ![n] = r] /\ LoopReturns(n, r)
        /\ UNCHANGED <<copies, tried, run, ask>>
    BY <1>5 DEF SendReturns, TimesOut, Answered, callVars
  <2> DEFINE x == ask[n].host
  <2>1. /\ n \in 1..begun
        /\ ask[n].by = "phone" => loop' = loop /\ log' = log
        /\ ask[n].by = "loop" =>
             /\ loop[x] = n /\ loop' = [loop EXCEPT ![x] = 0]
             /\ log' = IF r = "ok" THEN [log EXCEPT ![x] = Append(@, PushOf(n))]
                       ELSE log
    BY Returning
  <2>2. ask[n].by \in {"loop", "phone"} /\ x \in Machines /\ n # 0
    BY <1>t, <2>1, Types
  <2>3. CASE ask[n].by = "phone" \/ x # m
    <3>1. loop'[m] = loop[m] /\ log'[m] = log[m]
      BY <1>t, <2>1, <2>2, <2>3
    <3>2. QED
      BY <1>0, <3>1
  <2>4. CASE ask[n].by = "loop" /\ x = m
    <3>1. Trying(m) = PushOf(n) /\ Trying(m)' = NoPush
      BY <1>t, <2>1, <2>2, <2>4 DEF Trying
    <3>2. Trying(m) # NoPush
      BY <2>1, <3>1, Types, FleetAssumption DEF Records
    <3>3. CASE r = "ok"
      <4>1. log'[m] = Append(log[m], Trying(m))
        BY <1>t, <2>1, <2>4, <3>1, <3>3
      <4>2. Box(m)!Ack
        BY <3>1, <3>2, <4>1 DEF Box!Ack
      <4>3. QED
        BY <4>2 DEF Box!Next
    <3>4. CASE r = "failed"
      <4>1. Box(m)!Fail
        BY <2>1, <2>4, <3>1, <3>2, <3>4 DEF Box!Fail
      <4>2. QED
        BY <4>1 DEF Box!Next
    <3>5. QED
      BY <3>3, <3>4
  <2>5. QED
    BY <2>2, <2>3, <2>4
<1>6. ASSUME NEW n \in Calls, TellsPhone(n) \/ LosesPhone(n)
      PROVE  UNCHANGED Box(m)!outboxVars
  <2>1. UNCHANGED <<boxVars, callVars>>
    BY <1>6 DEF TellsPhone, LosesPhone
  <2>2. QED
    BY <1>0, <2>1 DEF boxVars, callVars
<1>7. ASSUME NEW x \in Machines, Restart(x)
      PROVE  UNCHANGED Box(m)!outboxVars \/ Box(m)!Next
  <2>1. /\ run' = [run EXCEPT ![x] = @ + 1] /\ tried' = [tried EXCEPT ![x] = 0]
        /\ loop' = [loop EXCEPT ![x] = 0] /\ UNCHANGED <<copies, log, ask>>
    BY <1>7 DEF Restart, callVars
  <2>2. CASE x = m
    <3>1. Trying(m)' = NoPush
      BY <1>t, <2>1, <2>2 DEF Trying
    <3>2. run'[m] = run[m] + 1 /\ tried'[m] = 0
      BY <1>t, <2>1, <2>2
    <3>3. Box(m)!Restart
      BY <2>1, <3>1, <3>2 DEF Box!Restart
    <3>4. QED
      BY <3>3 DEF Box!Next
  <2>3. CASE x # m
    BY <1>0, <1>t, <2>1, <2>3
  <2>4. QED
    BY <2>2, <2>3
<1>8. ASSUME NEW x \in Machines, Queues(x) PROVE UNCHANGED Box(m)!outboxVars
  BY <1>0, <1>8, Queued DEF callVars
<1>9. CASE UNCHANGED vars
  BY <1>0, <1>9 DEF vars, boxVars, callVars
<1>10. QED
  BY <1>1, <1>2, <1>3, <1>4, <1>5, <1>6, <1>7, <1>8, <1>9, FleetAssumption
     DEF Next, Proceeds, Queues

(* The loop of each machine keeps the promise of Outbox, because what it   *)
(* reads comes in order through its channel, and lastSent is always what   *)
(* the log of this run ends with, whatever the machine relays and handles  *)
(* meanwhile, through timeouts and restarts (daemon.go:90, 137-143).       *)
THEOREM MachinesKeepThePromise == Spec => ImplementsOutboxes
<1>1. Init => \A m \in Machines : Box(m)!Init
  BY DEF Init, Box!Init, Trying
<1>2. TypeInv /\ CallInv /\ QueueInv /\ SentInv /\ [Next]_vars =>
        [\A m \in Machines : UNCHANGED Box(m)!outboxVars \/ Box(m)!Next]_vars
  BY StepOfOutboxes
<1>3. QED
  BY <1>1, <1>2, QueueAlways, PTL DEF Spec, ImplementsOutboxes

-----------------------------------------------------------------------------
(* What the one who asked may conclude from what he is told.               *)

(* A push that somebody was told has succeeded has arrived at the machine  *)
(* it was meant for, and at no other.                                      *)
SuccessIsArrival ==
  \A n \in 1..begun : Told(n) = "ok" =>
    /\ \E i \in 1..Len(got[ask[n].to]) : got[ask[n].to][i] = n
    /\ \A m \in Machines \ {ask[n].to} : \A i \in 1..Len(got[m]) : got[m][i] # n

(* Nobody is told of a success that is none, although the answer comes     *)
(* through a handler, a network and a relay that know nothing of each other*)
(* (client.go:37-45, server.go:121-128, daemon.go:268-281).                *)
THEOREM SuccessIsNeverWrong == Spec => []SuccessIsArrival
<1>1. TypeInv /\ CallInv /\ ArrivalInv => SuccessIsArrival
  <2> SUFFICES ASSUME TypeInv, CallInv, ArrivalInv,
                      NEW n \in 1..begun, Told(n) = "ok"
               PROVE  /\ \E i \in 1..Len(got[ask[n].to]) : got[ask[n].to][i] = n
                      /\ \A m \in Machines \ {ask[n].to} :
                           \A i \in 1..Len(got[m]) : got[m][i] # n
    BY DEF SuccessIsArrival
  <2>1. client[n] = "ok"
    BY DEF Told, CallInv, OkIsAnswer
  <2>2. server[n] = "yes"
    BY <2>1 DEF CallInv, OkIsAnswer
  <2>3. \E i \in 1..Len(got[ask[n].to]) : got[ask[n].to][i] = n
    BY <2>2 DEF ArrivalInv, GotInv
  <2>4. ASSUME NEW m \in Machines \ {ask[n].to}, NEW i \in 1..Len(got[m])
        PROVE  got[m][i] # n
    BY DEF ArrivalInv, GotInv
  <2>5. QED
    BY <2>3, <2>4
<1>2. QED
  BY <1>1, ArrivalAlways, PTL

-----------------------------------------------------------------------------
(* Why calls end: what CallsEnd asks for, without the fairness.            *)

(* The steps of the code that a call may still take: of its request and the*)
(* handler, of the caller, and of the handler that answers its phone.      *)
OnTheWay(n) == CASE server[n] = "way" -> 3 [] server[n] = "handle" -> 2
                 [] server[n] = "path" -> 1 [] OTHER -> 0
AtCaller(n) == IF client[n] = "wait" THEN 1 ELSE 0
AtPhone(n)  == IF ask[n].by = "phone" /\ phone[n] = "wait" THEN 1 ELSE 0

Left(n) == IF n > begun THEN 5 ELSE OnTheWay(n) + AtCaller(n) + AtPhone(n)

LEMMA PartsTyped ==
  ASSUME NEW n
  PROVE  OnTheWay(n) \in 0..3 /\ AtCaller(n) \in 0..1 /\ AtPhone(n) \in 0..1
BY DEF OnTheWay, AtCaller, AtPhone

LEMMA LeftTyped ==
  ASSUME TypeInv, NEW n \in Calls
  PROVE  Left(n) \in 0..5
BY PartsTyped DEF Left

(* A step that makes no part larger makes the sum no larger, and smaller   *)
(* when it makes a part smaller.                                           *)
LEMMA PartsDecide ==
  ASSUME TypeInv, TypeInv', NEW n \in Calls, n <= begun, begun <= begun',
         OnTheWay(n)' <= OnTheWay(n), AtCaller(n)' <= AtCaller(n),
         AtPhone(n)' <= AtPhone(n)
  PROVE  /\ Left(n)' <= Left(n)
         /\ \/ OnTheWay(n)' < OnTheWay(n) \/ AtCaller(n)' < AtCaller(n)
            \/ AtPhone(n)' < AtPhone(n)
            => Left(n)' < Left(n)
<1>1. begun \in Nat /\ begun' \in Nat /\ n \in Nat
  BY Types DEF Calls, TypeInv, TypeOK
<1>2. OnTheWay(n) \in 0..3 /\ AtCaller(n) \in 0..1 /\ AtPhone(n) \in 0..1
  BY PartsTyped
<1>3. OnTheWay(n)' \in 0..3 /\ AtCaller(n)' \in 0..1 /\ AtPhone(n)' \in 0..1
  BY DEF OnTheWay, AtCaller, AtPhone
<1>4. Left(n) = OnTheWay(n) + AtCaller(n) + AtPhone(n)
  BY <1>1 DEF Left
<1>5. Left(n)' = OnTheWay(n)' + AtCaller(n)' + AtPhone(n)'
  BY <1>1 DEF Left
<1>6. QED
  BY <1>2, <1>3, <1>4, <1>5

(* No step takes back an answer, a receipt, or what the caller or the      *)
(* phone of a call was told.                                               *)
LEMMA PartsShrink ==
  ASSUME TypeInv, [Next]_vars, NEW n \in Calls, n <= begun
  PROVE  /\ begun <= begun'
         /\ OnTheWay(n)' <= OnTheWay(n) /\ AtCaller(n)' <= AtCaller(n)
         /\ AtPhone(n)' <= AtPhone(n)
<1> DEFINE Shrinks == /\ begun <= begun'
                      /\ OnTheWay(n)' <= OnTheWay(n)
                      /\ AtCaller(n)' <= AtCaller(n)
                      /\ AtPhone(n)' <= AtPhone(n)
<1>b. begun \in Nat /\ n \in 1..begun
  BY Types DEF Calls
<1>t. /\ server \in [Calls -> {"way", "handle", "path", "yes", "no"}]
      /\ client \in [Calls -> {"wait", "ok", "failed"}]
      /\ phone \in [Calls -> {"wait", "ok", "failed"}]
  BY DEF TypeInv, TypeOK
<1>0. ASSUME begun' \in {begun, begun + 1}, ask'[n] = ask[n],
             server'[n] \in {server[n], "yes", "no"},
             client'[n] = client[n] \/ client'[n] # "wait",
             phone'[n] = phone[n] \/ phone'[n] # "wait"
      PROVE  Shrinks
  <2>1. begun <= begun'
    BY <1>0, <1>b
  <2>2. OnTheWay(n)' = OnTheWay(n) \/ OnTheWay(n)' = 0
    BY <1>0 DEF OnTheWay
  <2>3. AtCaller(n)' = AtCaller(n) \/ AtCaller(n)' = 0
    BY <1>0 DEF AtCaller
  <2>4. AtPhone(n)' = AtPhone(n) \/ AtPhone(n)' = 0
    BY <1>0 DEF AtPhone
  <2>5. QED
    BY <2>1, <2>2, <2>3, <2>4, PartsTyped
<1>1. ASSUME NEW m \in Machines, UserCopy(m) \/ Queues(m) PROVE Shrinks
  BY <1>0, <1>1, Queued DEF UserCopy, callVars
<1>2. ASSUME NEW m \in Machines, NEW to \in Peers[m], LoopSends(m, to)
      PROVE  Shrinks
  <2> PICK a : a = LoopAsk(m, to)
    OBVIOUS
  <2>1. a \in Asks /\ a.hash \notin Big /\ Begin(a)
    BY <1>2, LoopAsks DEF LoopSends
  <2>2. begun' = begun + 1 /\ ask'[n] = ask[n]
        /\ UNCHANGED <<server, client, phone>>
    BY <1>b, <2>1, NewCall DEF Begin
  <2>3. QED
    BY <1>0, <2>2
<1>3. ASSUME NEW m \in Machines, NEW to \in Peers[m], NEW u \in Uploads,
             RelaySends(m, to, u[1], u[2])
      PROVE  Shrinks
  <2> PICK a : a = [by |-> "phone", host |-> m, to |-> to, kind |-> u[1],
                    id |-> 0, hash |-> u[2], run |-> run[m]]
    OBVIOUS
  <2>1. a \in Asks /\ a.hash \notin Big /\ Begin(a)
    BY <1>3, RelayAsks DEF RelaySends
  <2>2. begun' = begun + 1 /\ ask'[n] = ask[n]
        /\ UNCHANGED <<server, client, phone>>
    BY <1>b, <2>1, NewCall DEF Begin
  <2>3. QED
    BY <1>0, <2>2
<1>4. ASSUME NEW m \in Machines, Restart(m) PROVE Shrinks
  <2>1. /\ begun' = begun /\ ask' = ask
        /\ server'[n] \in {server[n], "no"}
        /\ client'[n] = client[n] \/ client'[n] = "failed"
        /\ phone'[n] = phone[n] \/ phone'[n] = "failed"
    BY <1>4 DEF Restart, callVars
  <2>2. QED
    BY <1>0, <2>1
<1>5. ASSUME NEW x \in Calls, Network(x) \/ Handler(x) PROVE Shrinks
  <2>1. /\ \A y \in Calls \ {x} : server'[y] = server[y]
        /\ UNCHANGED <<begun, ask, client, phone>>
    BY <1>5, ServerMoves DEF Network, Handler
  <2>2. CASE x # n
    BY <1>0, <2>1, <2>2
  <2>3. CASE x = n
    <3>1. \/ server[n] = "way" /\ server'[n] \in {"handle", "no"}
          \/ server[n] = "handle" /\ server'[n] \in {"path", "yes", "no"}
          \/ server[n] = "path" /\ server'[n] = "yes"
      BY <1>5, <1>t, <2>3 DEF Network, Handler, Arrives, Lost, Applies, Fails,
         ShowsPath, Moves
    <3>2. OnTheWay(n)' <= OnTheWay(n)
      BY <3>1 DEF OnTheWay
    <3>3. AtCaller(n)' = AtCaller(n) /\ AtPhone(n)' = AtPhone(n)
      BY <2>1 DEF AtCaller, AtPhone
    <3>4. QED
      BY <1>b, <2>1, <3>2, <3>3, PartsTyped
  <2>4. QED
    BY <2>2, <2>3
<1>6. ASSUME NEW x \in Calls, SendReturns(x) \/ TimesOut(x) PROVE Shrinks
  <2>1. /\ client'[n] = client[n] \/ client'[n] # "wait"
        /\ UNCHANGED <<begun, ask, server, phone>>
    BY <1>6, <1>t DEF SendReturns, TimesOut, Answered, callVars
  <2>2. QED
    BY <1>0, <2>1
<1>7. ASSUME NEW x \in Calls, TellsPhone(x) \/ LosesPhone(x) PROVE Shrinks
  <2>1. /\ phone'[n] = phone[n] \/ phone'[n] # "wait"
        /\ UNCHANGED <<begun, ask, server, client>>
    BY <1>7, <1>t DEF TellsPhone, LosesPhone, callVars
  <2>2. QED
    BY <1>0, <2>1
<1>8. CASE UNCHANGED vars
  BY <1>0, <1>8 DEF vars, callVars
<1>9. QED
  BY <1>1, <1>2, <1>3, <1>4, <1>5, <1>6, <1>7, <1>8, FleetAssumption
     DEF Next, Proceeds, Queues

LEMMA ProceedingShrinks ==
  ASSUME TypeInv, NEW n \in Calls, Proceeds(n)
  PROVE  /\ n <= begun
         /\ \/ OnTheWay(n)' < OnTheWay(n) \/ AtCaller(n)' < AtCaller(n)
            \/ AtPhone(n)' < AtPhone(n)
<1>t. /\ server \in [Calls -> {"way", "handle", "path", "yes", "no"}]
      /\ client \in [Calls -> {"wait", "ok", "failed"}]
      /\ phone \in [Calls -> {"wait", "ok", "failed"}]
  BY DEF TypeInv, TypeOK
<1>1. CASE Network(n) \/ Handler(n)
  <2>1. \/ server[n] = "way" /\ server'[n] \in {"handle", "no"}
        \/ server[n] = "handle" /\ server'[n] \in {"path", "yes", "no"}
        \/ server[n] = "path" /\ server'[n] = "yes"
    BY <1>1, <1>t DEF Network, Handler, Arrives, Lost, Applies, Fails,
       ShowsPath, Moves
  <2>2. OnTheWay(n)' < OnTheWay(n)
    BY <2>1 DEF OnTheWay
  <2>3. QED
    BY <1>1, <2>2 DEF Network, Handler, Arrives, Lost, Applies, Fails,
       ShowsPath, Moves
<1>2. CASE SendReturns(n)
  <2>1. n <= begun /\ client[n] = "wait" /\ client'[n] # "wait"
    BY <1>2, <1>t DEF SendReturns
  <2>2. QED
    BY <2>1 DEF AtCaller
<1>3. CASE TellsPhone(n)
  <2>1. /\ n <= begun /\ ask[n].by = "phone" /\ phone[n] = "wait"
        /\ phone'[n] # "wait"
    BY <1>3, <1>t DEF TellsPhone
  <2>2. AtPhone(n) = 1 /\ AtPhone(n)' = 0
    BY <2>1 DEF AtPhone
  <2>3. QED
    BY <2>1, <2>2
<1>4. QED
  BY <1>1, <1>2, <1>3 DEF Proceeds

(* Every step that the code takes for a call brings the call nearer to its *)
(* end, and no other step takes it further from it.                        *)
CallsComeNearer ==
  [][\A n \in Calls : /\ Left(n)' <= Left(n)
                      /\ Proceeds(n) => Left(n)' < Left(n)]_vars

(* A call ends after five steps of the code at most, whatever happens      *)
(* elsewhere: a relay, a restart, a push the other way                     *)
(* (client.go:25-47, server.go:61-129, daemon.go:268-281).                 *)
THEOREM CallsRunOut == Spec => CallsComeNearer
<1>1. TypeInv /\ TypeInv' /\ [Next]_vars =>
        [\A n \in Calls : /\ Left(n)' <= Left(n)
                          /\ Proceeds(n) => Left(n)' < Left(n)]_vars
  <2> SUFFICES ASSUME TypeInv, TypeInv', [Next]_vars, NEW n \in Calls
               PROVE  /\ Left(n)' <= Left(n)
                      /\ Proceeds(n) => Left(n)' < Left(n)
    OBVIOUS
  <2>1. CASE n <= begun
    BY <2>1, PartsShrink, PartsDecide, ProceedingShrinks
  <2>2. CASE ~(n <= begun)
    <3>1. n > begun /\ Left(n) = 5
      BY <2>2, Types DEF Calls, Left
    <3>2. /\ OnTheWay(n)' \in 0..3 /\ AtCaller(n)' \in 0..1
          /\ AtPhone(n)' \in 0..1
      BY DEF OnTheWay, AtCaller, AtPhone
    <3>3. Left(n)' \in 0..5
      BY <3>2 DEF Left
    <3>4. ~Proceeds(n)
      BY <2>2, ProceedingShrinks
    <3>5. QED
      BY <3>1, <3>3, <3>4
  <2>3. QED
    BY <2>1, <2>2
<1>2. QED
  BY <1>1, TypeAlways, PTL DEF Spec, CallsComeNearer
=============================================================================
