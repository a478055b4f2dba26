------------------------------- MODULE Daemon -------------------------------
(***************************************************************************)
(* One clippy process: the watcher goroutine, the goroutine of Daemon.Run  *)
(* that handles local clipboard changes (the loop), and the goroutines of  *)
(* the HTTP server that run Receive, SetTarget and SetSync.  They share    *)
(* the system clipboard, the receive folder and, under Daemon.mu, the      *)
(* settings, recentlySeen and lastSent.                                    *)
(*                                                                         *)
(* A step is the code between two points where another goroutine can get   *)
(* in: a critical section of Daemon.mu, a system call, a call of another   *)
(* program or of another machine.  copyIntoDocker only delays the thread   *)
(* between "write" and "mark" here; module RecvDir models it.              *)
(***************************************************************************)
EXTENDS Integers, Sequences, FiniteSets

CONSTANTS
  Bodies,      \* contents of copied and received items
  Offers,      \* what a copy can offer: for some kinds, a content each
  Empty,       \* the content of length 0
  Big,         \* the contents over payload.MaxSize
  Targets,     \* machines a target can name
  NoTarget,    \* the target ""
  NoItem,      \* no item: the watcher, or the loop, holds none
  NoData,      \* the local variable of a thread is not set
  MaxSeen,     \* maxRecentlySeen
  OutCap,      \* capacity of the channel between watcher and loop
  Loop,        \* the goroutine of Daemon.Run
  Handlers,    \* the goroutines of the HTTP server
  MaxCopies,   \* bound: copies the user makes
  MaxEdits,    \* bound: changes of a file that is on the clipboard
  MaxMisses,   \* bound: looks that miss the richest kind on offer
  MaxRequests, \* bound: pushes other machines make to this one
  MaxChanges,  \* bound: calls of SetTarget and SetSync
  MaxRestarts  \* bound: restarts of the process

Threads == Handlers \cup {Loop}
Kinds   == {"text", "image", "file"}

(* The absolute path of a saved file, as the text put on the clipboard:    *)
(* Path(0) is the name asked for, Path(i) the one dedupePath ends in (i).  *)
Path(i) == <<"path", i>>
Data    == Bodies \cup ({"path"} \X Nat)

(* id numbers the copies of the user; 0 is what the daemon wrote itself.   *)
Items == [kind : Kinds, data : Data, id : Nat]

(* What the user reads and sets with clippy on, off and target.            *)
Configs == [sync : BOOLEAN, target : Targets \cup {NoTarget}]

ASSUME DaemonAssumption ==
  /\ Empty \in Bodies
  /\ Big \subseteq Bodies
  /\ \A f \in Offers :
       /\ \E K \in SUBSET Kinds : f \in [K -> Bodies]
       /\ \A k \in DOMAIN f : k # "file" => f[k] # Empty
  /\ Bodies \cap ({"path"} \X Nat) = {}
  /\ NoData \notin Data
  /\ NoTarget \notin Targets
  /\ NoItem \notin Items
  /\ Loop \notin Handlers
  /\ MaxSeen \in Nat \ {0}
  /\ OutCap \in Nat \ {0}
  /\ MaxCopies \in Nat /\ MaxEdits \in Nat /\ MaxMisses \in Nat
  /\ MaxRequests \in Nat
  /\ MaxChanges \in Nat /\ MaxRestarts \in Nat

VARIABLES
  board, lastHash, held, out,  \* the watcher and its channel: see ClipFeed
  polling,     \* the watcher has fallen back from change events to polling
  cfg,         \* cfg.SyncEnabled and cfg.Target
  seen,        \* recentlySeen, as a set of digests
  lastSent,    \* digest of the content pushed last
  pc,          \* where each thread is
  job,         \* per thread: the text it is to put on the clipboard
  item,        \* onLocalChange's parameter it
  snap,        \* onLocalChange's enabled and target
  files,       \* the paths that exist in the receive folder
  log,         \* history: the pushes a target acknowledged, in order
  tried,       \* history: the copy this process last tried to push, or 0
  stale,       \* history: pushes begun under old settings since a change
  owed,        \* history: per content, texts received less items swallowed
  copies, edits, misses, arrived, changes, restarts
               \* how much of each bound is used up

Feed == INSTANCE ClipFeed

loopVars    == <<item, snap>>
historyVars == <<log, tried, stale, owed>>
boundVars   == <<copies, edits, misses, arrived, changes, restarts>>

Pushes == [id : Nat, hash : Feed!Digests, to : Targets \cup {NoTarget},
           run : Nat]

ASSUME PushAssumption == NoItem \notin Pushes

vars == <<board, lastHash, held, out, polling, cfg, seen, lastSent, pc, job,
          item, snap, files, log, tried, stale, owed, copies, edits, misses,
          arrived, changes, restarts>>

Init ==
  /\ Feed!FeedInit
  /\ polling = FALSE
  /\ cfg \in Configs
  /\ seen = {}
  /\ lastSent = Feed!NoHash
  /\ pc = [t \in Threads |-> "idle"]
  /\ job = [t \in Threads |-> NoData]
  /\ item = NoItem
  /\ snap = cfg
  /\ files = {}
  /\ log = <<>>
  /\ tried = 0
  /\ stale = 0
  /\ owed = [d \in Bodies |-> 0]
  /\ copies = 0 /\ edits = 0 /\ misses = 0
  /\ arrived = 0 /\ changes = 0 /\ restarts = 0

-----------------------------------------------------------------------------
(* The user and the watcher.                                               *)

(* A copy by the user offers its content as one or several kinds.  Only a  *)
(* file can be empty: an empty text or image is no offer at all.           *)
UserCopy(f) ==
  /\ copies < MaxCopies
  /\ Feed!Change({[kind |-> k, data |-> f[k], id |-> copies + 1] : k \in DOMAIN f})
  /\ copies' = copies + 1
  /\ UNCHANGED <<polling, cfg, seen, lastSent, pc, job, loopVars, files,
                 historyVars, edits, misses, arrived, changes, restarts>>

(* The clipboard names a file, whose bytes are read at every look: the copy*)
(* of before offers what has been written to the file since.               *)
EditFile(d) ==
  /\ edits < MaxEdits
  /\ \E it \in board :
       /\ it.kind = "file"
       /\ Feed!Change((board \ {it}) \cup {[it EXCEPT !.data = d]})
  /\ edits' = edits + 1
  /\ UNCHANGED <<polling, cfg, seen, lastSent, pc, job, loopVars, files,
                 historyVars, copies, misses, arrived, changes, restarts>>

(* The kinds in the order in which a look tries them.                      *)
Rank == [file |-> 1, image |-> 2, text |-> 3]

(* A richer kind than that of it is on offer.                              *)
Poorer(it) == \E richer \in board : Rank[richer.kind] < Rank[it.kind]

(* A look at the clipboard, which misses a richer kind when the reading of *)
(* it fails, or when its owner has changed in the middle of the look.      *)
WatchRead ==
  /\ Feed!Read
  /\ IF Poorer(held')
     THEN misses < MaxMisses /\ misses' = misses + 1
     ELSE misses' = misses
  /\ UNCHANGED <<polling, cfg, seen, lastSent, pc, job, loopVars, files,
                 historyVars, copies, edits, arrived, changes, restarts>>

WatchPush ==
  /\ Feed!Push
  /\ UNCHANGED <<polling, cfg, seen, lastSent, pc, job, loopVars, files,
                 historyVars, boundVars>>

(* The process that reports changes dies: Watch goes on polling.           *)
WatchFallback ==
  /\ ~polling
  /\ polling' = TRUE
  /\ Feed!Reset
  /\ UNCHANGED <<cfg, seen, lastSent, pc, job, loopVars, files, historyVars,
                 boundVars>>

-----------------------------------------------------------------------------
(* onLocalChange up to its first unlock, for the item at the head of the   *)
(* channel.  The four actions are the four ways through it.                *)

(* Mutated: recentlySeen is never emptied.                                 *)
RememberForever(S, h) == S \cup {h}

(* recentlySeen[h] = true, after emptying a full map.                      *)
Remember(S, h) == (IF Cardinality(S) >= MaxSeen THEN {} ELSE S) \cup {h}

(* Mutated: the digest pushed last is not looked at.                       *)
NeverRepeated(h) == FALSE

Repeated(h) == h = lastSent

LoopTakes ==
  /\ pc[Loop] = "idle"
  /\ Feed!Take

LocalIgnoreEmpty ==
  /\ LoopTakes
  /\ Head(out).data = Empty
  /\ UNCHANGED <<polling, cfg, seen, lastSent, pc, job, loopVars, files,
                 historyVars, boundVars>>

(* Mutated: a digest is swallowed, and stays in recentlySeen.              *)
SwallowForever ==
  /\ LoopTakes
  /\ Head(out).data # Empty
  /\ Feed!Hash(Head(out).data) \in seen
  /\ owed' = [d \in Bodies |-> IF d = Head(out).data THEN owed[d] - 1 ELSE owed[d]]
  /\ UNCHANGED <<polling, cfg, seen, lastSent, pc, job, loopVars, files, log,
                 tried, stale, boundVars>>

LocalSwallow ==
  /\ LoopTakes
  /\ Head(out).data # Empty
  /\ Feed!Hash(Head(out).data) \in seen
  /\ seen' = seen \ {Feed!Hash(Head(out).data)}
  /\ owed' = [d \in Bodies |-> IF d = Head(out).data THEN owed[d] - 1 ELSE owed[d]]
  /\ UNCHANGED <<polling, cfg, lastSent, pc, job, loopVars, files, log, tried,
                 stale, boundVars>>

LocalDedupe ==
  /\ LoopTakes
  /\ Head(out).data # Empty
  /\ Feed!Hash(Head(out).data) \notin seen
  /\ Repeated(Feed!Hash(Head(out).data))
  /\ UNCHANGED <<polling, cfg, seen, lastSent, pc, job, loopVars, files,
                 historyVars, boundVars>>

(* An image goes through the receive folder before it is pushed.           *)
LocalAccept ==
  /\ LoopTakes
  /\ Head(out).data # Empty
  /\ Feed!Hash(Head(out).data) \notin seen
  /\ ~Repeated(Feed!Hash(Head(out).data))
  /\ item' = Head(out)
  /\ snap' = cfg
  /\ pc' = [pc EXCEPT ![Loop] =
              IF Head(out).kind = "image" THEN "stat" ELSE "route"]
  /\ UNCHANGED <<polling, cfg, seen, lastSent, job, files, historyVars,
                 boundVars>>

-----------------------------------------------------------------------------
(* Receive, for a text and for a file or image.                            *)

RecvText(h, d) ==
  /\ pc[h] = "idle"
  /\ arrived < MaxRequests
  /\ d \notin Big
  /\ arrived' = arrived + 1
  /\ seen' = Remember(seen, Feed!Hash(d))
  /\ job' = [job EXCEPT ![h] = d]
  /\ pc' = [pc EXCEPT ![h] = "set"]
  /\ owed' = [owed EXCEPT ![d] = @ + 1]
  /\ UNCHANGED <<board, lastHash, held, out, polling, cfg, lastSent, loopVars,
                 files, log, tried, stale, copies, edits, misses, changes,
                 restarts>>

RecvFile(h) ==
  /\ pc[h] = "idle"
  /\ arrived < MaxRequests
  /\ arrived' = arrived + 1
  /\ pc' = [pc EXCEPT ![h] = "stat"]
  /\ UNCHANGED <<board, lastHash, held, out, polling, cfg, seen, lastSent, job,
                 loopVars, files, historyVars, copies, edits, misses, changes,
                 restarts>>

-----------------------------------------------------------------------------
(* saveFile and copyPathToClipboard, run by a handler for what it received *)
(* and by the loop for a copied image.                                     *)

(* Where a thread goes on after saving: the loop to its gates, a handler   *)
(* to its reply.                                                           *)
AfterSave(t) == IF t = Loop THEN "route" ELSE "idle"

(* dedupePath: the first name of the series that no file has.              *)
Stat(t) ==
  /\ pc[t] = "stat"
  /\ \E i \in 0..Cardinality(files) :
       /\ Path(i) \notin files
       /\ \A j \in 0..(i - 1) : Path(j) \in files
       /\ job' = [job EXCEPT ![t] = Path(i)]
  /\ pc' = [pc EXCEPT ![t] = "write"]
  /\ UNCHANGED <<board, lastHash, held, out, polling, cfg, seen, lastSent,
                 loopVars, files, historyVars, boundVars>>

Write(t) ==
  /\ pc[t] = "write"
  /\ files' = files \cup {job[t]}
  /\ pc' = [pc EXCEPT ![t] = "mark"]
  /\ UNCHANGED <<board, lastHash, held, out, polling, cfg, seen, lastSent, job,
                 loopVars, historyVars, boundVars>>

(* Mutated: the error of saveFile is logged, and the path copied anyway.   *)
SaveErrorIgnored(t) ==
  /\ pc[t] = "write"
  /\ files' = files
  /\ pc' = [pc EXCEPT ![t] = "mark"]
  /\ UNCHANGED <<board, lastHash, held, out, polling, cfg, seen, lastSent, job,
                 loopVars, historyVars, boundVars>>

(* MkdirAll or WriteFile fails; WriteFile may leave a file behind.         *)
SaveFails(t) ==
  /\ pc[t] \in {"stat", "write"}
  /\ \/ files' = files
     \/ pc[t] = "write" /\ files' = files \cup {job[t]}
  /\ job' = [job EXCEPT ![t] = NoData]
  /\ pc' = [pc EXCEPT ![t] = AfterSave(t)]
  /\ UNCHANGED <<board, lastHash, held, out, polling, cfg, seen, lastSent,
                 loopVars, historyVars, boundVars>>

MarkPath(t) ==
  /\ pc[t] = "mark"
  /\ seen' = Remember(seen, Feed!Hash(job[t]))
  /\ pc' = [pc EXCEPT ![t] = "set"]
  /\ UNCHANGED <<board, lastHash, held, out, polling, cfg, lastSent, job,
                 loopVars, files, historyVars, boundVars>>

(* What the clipboard offers once the daemon has set it to the text d.     *)
OwnText(d) ==
  IF d = Empty THEN {} ELSE {[kind |-> "text", data |-> d, id |-> 0]}

(* clip.Set, which can fail and leave the clipboard as it was.             *)
SetBoard(t) ==
  /\ pc[t] = "set"
  /\ \/ Feed!Change(OwnText(job[t]))
     \/ Feed!Change(board)
  /\ job' = [job EXCEPT ![t] = NoData]
  /\ pc' = [pc EXCEPT ![t] = AfterSave(t)]
  /\ UNCHANGED <<polling, cfg, seen, lastSent, loopVars, files, historyVars,
                 boundVars>>

-----------------------------------------------------------------------------
(* onLocalChange from its gates to its end.                                *)

(* Mutated: a text copied here is pushed like a file.                      *)
SendableText(it, s) ==
  /\ s.sync
  /\ s.target # NoTarget
  /\ it.data \notin Big

(* Mutated: no target is no obstacle.                                      *)
SendableNowhere(it, s) ==
  /\ it.kind # "text"
  /\ s.sync
  /\ it.data \notin Big

Sendable(it, s) ==
  /\ it.kind # "text"
  /\ s.sync
  /\ s.target # NoTarget
  /\ it.data \notin Big

(* The end of onLocalChange: its local variables are gone.                 *)
LoopReturns ==
  /\ pc' = [pc EXCEPT ![Loop] = "idle"]
  /\ item' = NoItem
  /\ UNCHANGED <<board, lastHash, held, out, polling, cfg, seen, job, snap,
                 files, tried, stale, owed, boundVars>>

(* A gate is closed, or the target's name does not resolve.                *)
LocalSkip ==
  /\ pc[Loop] = "route"
  /\ LoopReturns
  /\ UNCHANGED <<lastSent, log>>

LocalSend ==
  /\ pc[Loop] = "route"
  /\ Sendable(item, snap)
  /\ pc' = [pc EXCEPT ![Loop] = "wait"]
  /\ stale' = IF snap = cfg THEN stale ELSE stale + 1
  /\ tried' = item.id
  /\ UNCHANGED <<board, lastHash, held, out, polling, cfg, seen, lastSent, job,
                 loopVars, files, log, owed, boundVars>>

Acked ==
  /\ pc[Loop] = "wait"
  /\ LoopReturns
  /\ lastSent' = Feed!Hash(item.data)
  /\ log' = Append(log, [id |-> item.id, hash |-> Feed!Hash(item.data),
                         to |-> snap.target, run |-> restarts])

(* Mutated: a push that failed is tried again at once.                     *)
Retried ==
  /\ pc[Loop] = "wait"
  /\ pc' = [pc EXCEPT ![Loop] = "route"]
  /\ UNCHANGED <<board, lastHash, held, out, polling, cfg, seen, lastSent, job,
                 loopVars, files, historyVars, boundVars>>

(* Mutated: the digest is recorded whether the push succeeded or not.      *)
RecordedAnyway ==
  /\ pc[Loop] = "wait"
  /\ LoopReturns
  /\ lastSent' = Feed!Hash(item.data)
  /\ log' = log

(* Mutated: a push that failed goes back to the end of the queue.          *)
Requeued ==
  /\ pc[Loop] = "wait"
  /\ pc' = [pc EXCEPT ![Loop] = "idle"]
  /\ item' = NoItem
  /\ out' = Append(out, item)
  /\ UNCHANGED <<board, lastHash, held, polling, cfg, seen, lastSent, job, snap,
                 files, historyVars, boundVars>>

(* No connection, no answer in 30 s, or an answer other than 2xx.          *)
Unacked ==
  /\ pc[Loop] = "wait"
  /\ LoopReturns
  /\ UNCHANGED <<lastSent, log>>

-----------------------------------------------------------------------------
(* Settings, and the life of the process.                                  *)

SetConfig(new) ==
  /\ changes < MaxChanges
  /\ cfg' = new
  /\ changes' = changes + 1
  /\ stale' = 0
  /\ UNCHANGED <<board, lastHash, held, out, polling, seen, lastSent, pc, job,
                 loopVars, files, log, tried, owed, copies, edits, misses,
                 arrived, restarts>>

SetTarget(target) == SetConfig([cfg EXCEPT !.target = target])

SetSync(enabled) == SetConfig([cfg EXCEPT !.sync = enabled])

(* The process ends (signal or crash) wherever its threads are, and starts *)
(* again.  The clipboard and the folder remain; which settings config.json *)
(* holds by then is the business of module Control.                         *)
Restart ==
  /\ restarts < MaxRestarts
  /\ restarts' = restarts + 1
  /\ cfg' \in Configs
  /\ snap' = cfg'
  /\ stale' = 0
  /\ lastHash' = Feed!NoHash /\ held' = NoItem /\ out' = <<>>
  /\ polling' = FALSE
  /\ seen' = {}
  /\ lastSent' = Feed!NoHash
  /\ pc' = [t \in Threads |-> "idle"]
  /\ job' = [t \in Threads |-> NoData]
  /\ item' = NoItem
  /\ tried' = 0
  /\ owed' = [d \in Bodies |-> 0]
  /\ UNCHANGED <<board, files, log, copies, edits, misses, arrived, changes>>

-----------------------------------------------------------------------------
User == (\E f \in Offers : UserCopy(f)) \/ (\E d \in Bodies : EditFile(d))

Watcher == WatchRead \/ WatchPush \/ WatchFallback

Saver(t) == Stat(t) \/ Write(t) \/ SaveFails(t) \/ MarkPath(t) \/ SetBoard(t)

LocalChange ==
  \/ LocalIgnoreEmpty \/ LocalSwallow \/ LocalDedupe \/ LocalAccept
  \/ LocalSkip \/ LocalSend \/ Acked \/ Unacked

Next ==
  \/ User
  \/ Watcher
  \/ LocalChange
  \/ \E h \in Handlers, d \in Bodies : RecvText(h, d)
  \/ \E h \in Handlers : RecvFile(h)
  \/ \E t \in Threads : Saver(t)
  \/ \E target \in Targets \cup {NoTarget} : SetTarget(target)
  \/ \E enabled \in BOOLEAN : SetSync(enabled)
  \/ Restart

Spec == Init /\ [][Next]_vars

(* No goroutine waits for ever: the scheduler runs all of them, a push     *)
(* ends after 30 s at the latest, and docker and xclip are assumed to      *)
(* return.  Nothing makes the user, a peer or the fallback happen, nor a   *)
(* look: after a change event it may fail, and nothing repeats it.         *)
Fairness ==
  /\ WF_vars(WatchPush)
  /\ WF_vars(LocalChange)
  /\ \A t \in Threads : WF_vars(Saver(t))

FairSpec == Spec /\ Fairness

-----------------------------------------------------------------------------
(* Each variable keeps to its values; in particular the channel of Run     *)
(* never holds more than its capacity.                                     *)
TypeOK ==
  /\ Feed!FeedTypeOK
  /\ polling \in BOOLEAN
  /\ cfg \in Configs
  /\ seen \subseteq Feed!Digests
  /\ lastSent \in Feed!Digests \cup {Feed!NoHash}
  /\ pc \in [Threads -> {"idle", "stat", "write", "mark", "set", "route",
                        "wait"}]
  /\ job \in [Threads -> Data \cup {NoData}]
  /\ item \in Items \cup {NoItem}
  /\ snap \in Configs
  /\ files \subseteq Data
  /\ log \in Seq(Pushes)
  /\ tried \in Nat /\ owed \in [Bodies -> Int]
  /\ stale \in Nat /\ copies \in Nat /\ edits \in Nat /\ misses \in Nat
  /\ arrived \in Nat
  /\ changes \in Nat /\ restarts \in Nat

(* recentlySeen "cannot accumulate without bound": whatever is received,   *)
(* swallowed or never consumed, it holds at most maxRecentlySeen digests.  *)
SeenBounded ==
  /\ IsFiniteSet(seen)
  /\ Cardinality(seen) <= MaxSeen

(* Each text received swallows at most one item of its content: what the   *)
(* user copies afterwards is not taken for the daemon's own write again and*)
(* again, however receipts, copies and looks of the watcher fall.          *)
SwallowsOwed == \A d \in Bodies : owed[d] >= 0

(* No echo (FR-006, SC-007): nothing that the daemon itself put on the     *)
(* clipboard, a received text or the path of a saved file, is ever pushed, *)
(* or saved and put there once more, even after recentlySeen was emptied or*)
(* its entry consumed too early.                                           *)
NoEcho ==
  /\ pc[Loop] \notin {"idle", "route"} => item.id # 0
  /\ \A n \in 1..Len(log) : log[n].id # 0

(* Turning sync off, or changing the target, takes hold within one copy    *)
(* (SC-004): at most one push begins under the settings of before, the one *)
(* onLocalChange had already taken its snapshot for.                       *)
StaleBound == stale <= 1

(* The path the daemon puts on the clipboard is that of a file it has      *)
(* written: whoever pastes it finds the file.                              *)
PathNamesSavedFile ==
  \A it \in board : it.id = 0 /\ it.data \notin Bodies => it.data \in files

(* Dedupe (FR-005): two pushes acknowledged one after the other, by the    *)
(* same process, never have the same content, whatever was copied, failed  *)
(* or fired again in between.                                              *)
NoRepeat ==
  \A n \in 1..(Len(log) - 1) :
    log[n].run = log[n + 1].run => log[n].hash # log[n + 1].hash

(* lastSent is the digest of the last push acknowledged to this process: a *)
(* push that failed never stops the same content from being pushed later.  *)
LastSentWasAcked ==
  lastSent = IF log # <<>> /\ log[Len(log)].run = restarts
             THEN log[Len(log)].hash ELSE Feed!NoHash

(* A target never gets an older copy after a newer one, in the life of the *)
(* process, through the watcher, the channel, the saving of images, failed *)
(* pushes and the fallback to polling.  It can get the same copy again:    *)
(* another of its kinds, or what its file has become since.                *)
PushesInCopyOrder ==
  \A m, n \in 1..Len(log) :
    m < n /\ log[m].run = log[n].run => log[m].id <= log[n].id

(* The daemon keeps the promise of Outbox: it has a push under way from    *)
(* Client.Send to its answer, and a run is a life of the process.          *)
Trying ==
  IF pc[Loop] # "wait" THEN NoItem
  ELSE [id |-> item.id, hash |-> Feed!Hash(item.data), to |-> snap.target,
        run |-> restarts]

Box == INSTANCE Outbox WITH
  Contents <- {Feed!Hash(d) : d \in Bodies \ (Big \cup {Empty})},
  NoPush <- NoItem,
  trying <- Trying,
  run <- restarts

ImplementsOutbox == Box!Spec

(* The process never feeds itself: once the user, the peers and failures   *)
(* pause, the channel drains and every thread comes to rest, although the  *)
(* daemon's own writes fire its watcher too, and whether looks happen or   *)
(* not.  That the watcher ends with what the clipboard holds, where the    *)
(* code sees to it, is Watcher!CatchesUp.                                  *)
AtRest ==
  /\ \A t \in Threads : pc[t] = "idle"
  /\ held = NoItem
  /\ out = <<>>
Settles == <>[]AtRest
=============================================================================
