---------------------------- MODULE DaemonProofs ----------------------------
(***************************************************************************)
(* Proofs about module Daemon, for any contents, targets, handlers, queue  *)
(* length, size of recentlySeen and bounds.                                *)
(***************************************************************************)
EXTENDS Daemon, FiniteSetTheorems, TLAPS

(* A thread between two of its steps has the local variables that its next *)
(* steps use.                                                              *)
LocalsOK ==
  /\ pc[Loop] # "idle" => item \in Items
  /\ files \subseteq {"path"} \X Nat /\ IsFiniteSet(files)
  /\ \A t \in Threads :
       /\ pc[t] \in {"write", "mark"} => job[t] \in {"path"} \X Nat
       /\ pc[t] = "set" => job[t] \in Data

TypeInv == TypeOK /\ LocalsOK

LEMMA PathTyped == \A i \in Nat : Path(i) \in {"path"} \X Nat
BY DEF Path

LEMMA DigestTyped == \A d \in Data : Feed!Hash(d) \in Feed!Digests
BY DEF Feed!Hash, Feed!Digests

LEMMA FileAdded ==
  ASSUME NEW S, NEW p, IsFiniteSet(S)
  PROVE  IsFiniteSet(S \cup {p})
BY FS_AddElement

LEMMA BodiesAreData == \A d \in Bodies : d \in Data
BY DEF Data

(* What the daemon puts on the clipboard is an item.                       *)
LEMMA OwnTextTyped == \A d \in Data : OwnText(d) \subseteq Items
BY DEF OwnText, Items, Kinds

LEMMA RememberTyped ==
  ASSUME NEW S \in SUBSET Feed!Digests, NEW d \in Data
  PROVE  Remember(S, Feed!Hash(d)) \subseteq Feed!Digests
BY DigestTyped DEF Remember

(* The item at the head of the channel and the rest of the channel.        *)
LEMMA TakeTyped ==
  ASSUME TypeOK, Feed!Take
  PROVE  /\ Head(out) \in Items
         /\ Head(out).data \in Data
         /\ Feed!FeedTypeOK'
<1>1. /\ out \in Seq(Items) /\ out # <<>> /\ out' = Tail(out)
      /\ UNCHANGED <<board, lastHash, held>>
  BY DEF TypeOK, Feed!FeedTypeOK, Feed!Take
<1>2. Head(out) \in Items /\ Tail(out) \in Seq(Items)
  BY <1>1
<1>3. Len(Tail(out)) <= OutCap
  BY <1>1, DaemonAssumption DEF TypeOK, Feed!FeedTypeOK
<1>4. QED
  BY <1>1, <1>2, <1>3 DEF TypeOK, Feed!FeedTypeOK, Items

LEMMA TypeInit == Init => TypeInv
<1> SUFFICES ASSUME Init PROVE TypeInv
  OBVIOUS
<1>1. Feed!FeedTypeOK
  BY DaemonAssumption DEF Init, Feed!FeedInit, Feed!FeedTypeOK
<1>2. TypeOK
  <2>1. log \in Seq(Pushes)
    BY DEF Init
  <2>2. /\ pc \in [Threads -> {"idle", "stat", "write", "mark", "set", "route",
                             "wait"}]
        /\ job \in [Threads -> Data \cup {NoData}]
    BY DEF Init
  <2>3. stale \in Nat /\ copies \in Nat /\ edits \in Nat /\ misses \in Nat
        /\ arrived \in Nat /\ changes \in Nat
        /\ restarts \in Nat /\ tried \in Nat /\ owed \in [Bodies -> Int]
    BY DEF Init
  <2>4. QED
    BY <1>1, <2>1, <2>2, <2>3 DEF Init, TypeOK
<1>3. LocalsOK
  BY DaemonAssumption, FS_EmptySet DEF Init, LocalsOK, Threads
<1>4. QED
  BY <1>2, <1>3 DEF TypeInv

(* A file of the clipboard, with what has been written to it since.        *)
Rewritten(it) ==
  /\ it.kind = "file" /\ it.data \in Bodies
  /\ \E old \in board : old.kind = "file" /\ it.id = old.id

(* A copy by the user, or what is written to a copied file, changes only   *)
(* what the clipboard offers.  What it offers anew is the user's.          *)
LEMMA UserTouches ==
  ASSUME TypeInv, User
  PROVE  /\ board' \subseteq Items
         /\ copies' \in Nat /\ edits' \in Nat
         /\ \/ /\ copies' = copies + 1
               /\ \A it \in board' : it.id = copies + 1 /\ it.data \in Bodies
            \/ /\ copies' = copies
               /\ \A it \in board' : it \in board \/ Rewritten(it)
         /\ UNCHANGED <<lastHash, held, out, polling, cfg, seen, lastSent, pc,
                        job, item, snap, files, log, tried, stale, owed,
                        misses, arrived, changes, restarts>>
<1>1. board \subseteq Items /\ copies \in Nat /\ edits \in Nat
  BY DEF TypeInv, TypeOK, Feed!FeedTypeOK
<1>2. ASSUME NEW f \in Offers, UserCopy(f)
      PROVE  /\ \A it \in board' : /\ it \in Items /\ it.id = copies + 1
                                   /\ it.data \in Bodies
             /\ copies' = copies + 1 /\ edits' = edits
  <2>1. PICK K \in SUBSET Kinds : f \in [K -> Bodies]
    BY DaemonAssumption
  <2>2. board' = {[kind |-> k, data |-> f[k], id |-> copies + 1] :
                    k \in DOMAIN f}
    BY <1>2 DEF UserCopy, Feed!Change
  <2>3. \A k \in DOMAIN f : k \in Kinds /\ f[k] \in Bodies /\ f[k] \in Data
    BY <2>1, BodiesAreData
  <2>4. ASSUME NEW it \in board'
        PROVE  it \in Items /\ it.id = copies + 1 /\ it.data \in Bodies
    <3>1. PICK k \in DOMAIN f :
            it = [kind |-> k, data |-> f[k], id |-> copies + 1]
      BY <2>2
    <3>2. k \in Kinds /\ f[k] \in Bodies /\ f[k] \in Data /\ copies + 1 \in Nat
      BY <1>1, <2>3
    <3>3. QED
      BY <3>1, <3>2 DEF Items
  <2>5. QED
    BY <1>2, <2>4 DEF UserCopy
<1>3. ASSUME NEW d \in Bodies, EditFile(d)
      PROVE  /\ \A it \in board' : it \in Items /\ (it \in board \/ Rewritten(it))
             /\ copies' = copies /\ edits' = edits + 1
  <2>1. PICK old \in board :
          /\ old.kind = "file"
          /\ board' = (board \ {old}) \cup {[old EXCEPT !.data = d]}
    BY <1>3 DEF EditFile, Feed!Change
  <2>2. [old EXCEPT !.data = d] = [kind |-> "file", data |-> d, id |-> old.id]
    BY <1>1, <2>1 DEF Items
  <2>3. [old EXCEPT !.data = d] \in Items
    BY <1>1, <2>1, BodiesAreData DEF Items
  <2>4. QED
    BY <1>1, <1>3, <2>1, <2>2, <2>3 DEF EditFile, Rewritten
<1>4. UNCHANGED <<lastHash, held, out, polling, cfg, seen, lastSent, pc,
                  job, item, snap, files, log, tried, stale, owed,
                  misses, arrived, changes, restarts>>
  BY DEF User, UserCopy, EditFile, Feed!Change, loopVars, historyVars
<1>5. QED
  BY <1>1, <1>2, <1>3, <1>4 DEF User

LEMMA TypeNext == TypeInv /\ [Next]_vars => TypeInv'
<1> SUFFICES ASSUME TypeInv, [Next]_vars PROVE TypeInv'
  OBVIOUS
<1> USE DEF TypeInv
<1>1. CASE User
  BY <1>1, UserTouches DEF TypeOK, Feed!FeedTypeOK, LocalsOK
<1>2. CASE WatchRead
  BY <1>2, DigestTyped DEF WatchRead, Feed!Read, TypeOK, Feed!FeedTypeOK,
     LocalsOK, Items, loopVars, historyVars, boundVars
<1>3. CASE WatchPush
  <2>1. out' \in Seq(Items) /\ Len(out') <= OutCap
    BY <1>3, DaemonAssumption
       DEF WatchPush, Feed!Push, Feed!HasRoom, TypeOK, Feed!FeedTypeOK
  <2>2. QED
    BY <1>3, <2>1 DEF WatchPush, Feed!Push, TypeOK, Feed!FeedTypeOK,
       LocalsOK, loopVars, historyVars, boundVars
<1>4. CASE WatchFallback
  BY <1>4 DEF WatchFallback, Feed!Reset, TypeOK, Feed!FeedTypeOK,
     LocalsOK, loopVars, historyVars, boundVars
<1>5. CASE LocalIgnoreEmpty
  BY <1>5, TakeTyped DEF LocalIgnoreEmpty, LoopTakes, TypeOK,
     LocalsOK, loopVars, historyVars, boundVars
<1>6. CASE LocalSwallow
  <2>1. owed' \in [Bodies -> Int]
    BY <1>6 DEF LocalSwallow, TypeOK
  <2>2. QED
    BY <1>6, <2>1, TakeTyped DEF LocalSwallow, LoopTakes, TypeOK, LocalsOK,
       loopVars, boundVars
<1>7. CASE LocalDedupe
  BY <1>7, TakeTyped DEF LocalDedupe, LoopTakes, TypeOK,
     LocalsOK, loopVars, historyVars, boundVars
<1>8. CASE LocalAccept
  BY <1>8, TakeTyped, DaemonAssumption DEF LocalAccept, LoopTakes, TypeOK,
     LocalsOK, historyVars, boundVars, Threads
<1>9. CASE LocalSkip
  BY <1>9, DaemonAssumption DEF LocalSkip, LoopReturns, TypeOK,
     Feed!FeedTypeOK, LocalsOK, boundVars, Threads
<1>10. CASE LocalSend
  BY <1>10, DaemonAssumption DEF LocalSend, TypeOK,
     Feed!FeedTypeOK, LocalsOK, loopVars, boundVars, Threads, Items
<1>11. CASE Acked
  <2> DEFINE push == [id |-> item.id, hash |-> Feed!Hash(item.data),
                      to |-> snap.target, run |-> restarts]
  <2>1. item.id \in Nat /\ Feed!Hash(item.data) \in Feed!Digests
    BY <1>11, DigestTyped, DaemonAssumption
       DEF Acked, TypeOK, LocalsOK, Items
  <2>2. push \in Pushes
    BY <2>1 DEF TypeOK, Configs, Pushes
  <2>3. log' \in Seq(Pushes)
    BY <1>11, <2>2 DEF Acked, TypeOK
  <2>4. QED
    BY <1>11, <2>1, <2>3, DaemonAssumption DEF Acked, LoopReturns, TypeOK,
       Feed!FeedTypeOK, LocalsOK, boundVars, Threads
<1>12. CASE Unacked
  BY <1>12, DaemonAssumption DEF Unacked, LoopReturns, TypeOK,
     Feed!FeedTypeOK, LocalsOK, boundVars, Threads
<1>13. ASSUME NEW h \in Handlers, NEW d \in Bodies, RecvText(h, d)
       PROVE  TypeInv'
  <2>1. owed' \in [Bodies -> Int]
    BY <1>13 DEF RecvText, TypeOK
  <2>2. QED
    BY <1>13, <2>1, DaemonAssumption, RememberTyped, BodiesAreData
       DEF RecvText, TypeOK, Feed!FeedTypeOK, LocalsOK, loopVars, Threads
<1>14. ASSUME NEW h \in Handlers, RecvFile(h)
       PROVE  TypeInv'
  BY <1>14, DaemonAssumption DEF RecvFile, TypeOK, Feed!FeedTypeOK, LocalsOK,
     loopVars, historyVars, Threads
<1>15. ASSUME NEW t \in Threads, Stat(t) PROVE TypeInv'
  <2>1. Cardinality(files) \in Nat
    BY FS_CardinalityType DEF LocalsOK
  <2>2. PICK i \in 0..Cardinality(files) : job' = [job EXCEPT ![t] = Path(i)]
    BY <1>15 DEF Stat
  <2>3. Path(i) \in {"path"} \X Nat
    BY <2>1, <2>2, PathTyped
  <2>4. QED
  BY <1>15, <2>2, <2>3 DEF Stat, TypeOK, Feed!FeedTypeOK, LocalsOK,
     loopVars, historyVars, boundVars, Data
<1>16. ASSUME NEW t \in Threads, Write(t) PROVE TypeInv'
  <2>1. job[t] \in {"path"} \X Nat
    BY <1>16 DEF Write, LocalsOK
  <2>2. IsFiniteSet(files')
    BY <1>16, FileAdded DEF Write, LocalsOK
  <2>3. QED
    BY <1>16, <2>1, <2>2 DEF Write, TypeOK, Feed!FeedTypeOK, LocalsOK,
       loopVars, historyVars, boundVars, Data
<1>17. ASSUME NEW t \in Threads, SaveFails(t) PROVE TypeInv'
  <2>1. IsFiniteSet(files')
    <3>1. files' = files \/ files' = files \cup {job[t]}
      BY <1>17 DEF SaveFails
    <3>2. IsFiniteSet(files) /\ IsFiniteSet(files \cup {job[t]})
      BY FileAdded DEF LocalsOK
    <3>3. QED
      BY <3>1, <3>2
  <2>2. files' \subseteq {"path"} \X Nat
    BY <1>17 DEF SaveFails, LocalsOK
  <2>3. QED
    BY <1>17, <2>1, <2>2, DaemonAssumption DEF SaveFails, AfterSave, TypeOK,
       Feed!FeedTypeOK, LocalsOK, loopVars, historyVars, boundVars, Data
<1>18. ASSUME NEW t \in Threads, MarkPath(t) PROVE TypeInv'
  BY <1>18, RememberTyped DEF MarkPath, TypeOK, Feed!FeedTypeOK, LocalsOK,
     loopVars, historyVars, boundVars, Data
<1>19. ASSUME NEW t \in Threads, SetBoard(t) PROVE TypeInv'
  BY <1>19, OwnTextTyped, DaemonAssumption DEF SetBoard, AfterSave,
     Feed!Change, TypeOK, Feed!FeedTypeOK, LocalsOK, loopVars, historyVars,
     boundVars
<1>20. ASSUME NEW new \in Configs, SetConfig(new) PROVE TypeInv'
  BY <1>20 DEF SetConfig, TypeOK, Feed!FeedTypeOK, LocalsOK, loopVars
<1>21. CASE Restart
  <2>1. TypeOK'
    <3>1. Feed!FeedTypeOK'
      BY <1>21, DaemonAssumption DEF Restart, TypeOK, Feed!FeedTypeOK
    <3>2. pc' \in [Threads -> {"idle", "stat", "write", "mark", "set", "route",
                              "wait"}]
          /\ job' \in [Threads -> Data \cup {NoData}]
      BY <1>21 DEF Restart
    <3>3. stale' \in Nat /\ copies' \in Nat /\ edits' \in Nat
          /\ misses' \in Nat /\ arrived' \in Nat
          /\ changes' \in Nat /\ restarts' \in Nat
          /\ owed' \in [Bodies -> Int]
      BY <1>21 DEF Restart, TypeOK
    <3>4. /\ polling' \in BOOLEAN /\ cfg' \in Configs /\ snap' \in Configs
          /\ seen' \subseteq Feed!Digests /\ item' \in Items \cup {NoItem}
          /\ lastSent' \in Feed!Digests \cup {Feed!NoHash}
      BY <1>21 DEF Restart
    <3>5. QED
      BY <1>21, <3>1, <3>2, <3>3, <3>4 DEF Restart, TypeOK
  <2>2. LocalsOK'
    BY <1>21, DaemonAssumption DEF Restart, LocalsOK, Threads
  <2>3. QED
    BY <2>1, <2>2
<1>22. CASE UNCHANGED vars
  BY <1>22 DEF vars, TypeOK, Feed!FeedTypeOK, LocalsOK
<1>23. \A target \in Targets \cup {NoTarget} :
         [cfg EXCEPT !.target = target] \in Configs
  BY DEF TypeOK, Configs
<1>24. \A enabled \in BOOLEAN : [cfg EXCEPT !.sync = enabled] \in Configs
  BY DEF TypeOK, Configs
<1>25. QED
  BY <1>1, <1>2, <1>3, <1>4, <1>5, <1>6, <1>7, <1>8, <1>9, <1>10, <1>11,
     <1>12, <1>13, <1>14, <1>15, <1>16, <1>17, <1>18, <1>19, <1>20, <1>21,
     <1>22, <1>23, <1>24
     DEF Next, Watcher, LocalChange, Saver, SetTarget, SetSync

(* Every variable of the process keeps to its values, and the channel to   *)
(* its capacity, in every reachable state.                                 *)
THEOREM Typed == Spec => []TypeOK
<1>1. Spec => []TypeInv
  BY TypeInit, TypeNext, PTL DEF Spec
<1>2. QED
  BY <1>1, PTL DEF TypeInv

-----------------------------------------------------------------------------
(* The watcher.                                                            *)

(* A step of the process that is no end of it does with clipboard, watcher *)
(* and channel what ClipFeed allows, or leaves them alone.                 *)
FeedStep == Restart \/ [Feed!FeedNext]_(Feed!feedVars)

FedAsPromised == [][FeedStep]_vars

LEMMA StepOfFeed == TypeInv /\ [Next]_vars => FeedStep
<1> SUFFICES ASSUME TypeInv, [Next]_vars PROVE FeedStep
  OBVIOUS
<1>1. ASSUME NEW new \in SUBSET Items, Feed!Change(new) PROVE FeedStep
  BY <1>1 DEF FeedStep, Feed!FeedNext
<1>2. CASE User
  <2>1. board' \in SUBSET Items /\ UNCHANGED <<lastHash, held, out>>
    BY <1>2, UserTouches
  <2>2. Feed!Change(board')
    BY <2>1 DEF Feed!Change
  <2>3. QED
    BY <1>1, <2>1, <2>2
<1>3. CASE Watcher
  BY <1>3 DEF Watcher, WatchRead, WatchPush, WatchFallback, FeedStep,
     Feed!FeedNext
<1>4. CASE LocalIgnoreEmpty \/ LocalSwallow \/ LocalDedupe \/ LocalAccept
  BY <1>4 DEF LocalIgnoreEmpty, LocalSwallow, LocalDedupe, LocalAccept,
     LoopTakes, FeedStep, Feed!FeedNext
<1>5. CASE LocalSkip \/ LocalSend \/ Acked \/ Unacked
  BY <1>5 DEF LocalSkip, LocalSend, Acked, Unacked, LoopReturns, FeedStep,
     Feed!feedVars
<1>6. ASSUME NEW h \in Handlers,
             RecvFile(h) \/ \E d \in Bodies : RecvText(h, d)
      PROVE  FeedStep
  BY <1>6 DEF RecvFile, RecvText, FeedStep, Feed!feedVars
<1>7. ASSUME NEW t \in Threads, SetBoard(t) PROVE FeedStep
  <2>1. OwnText(job[t]) \subseteq Items /\ board \subseteq Items
    <3>1. job[t] \in Data
      BY <1>7 DEF SetBoard, TypeInv, LocalsOK
    <3>2. QED
      BY <3>1, OwnTextTyped DEF TypeInv, TypeOK, Feed!FeedTypeOK
  <2>2. QED
    BY <1>1, <1>7, <2>1 DEF SetBoard
<1>8. ASSUME NEW t \in Threads, Saver(t), ~SetBoard(t) PROVE FeedStep
  BY <1>8 DEF Saver, Stat, Write, SaveFails, MarkPath, FeedStep, Feed!feedVars
<1>9. ASSUME NEW new, SetConfig(new) PROVE FeedStep
  BY <1>9 DEF SetConfig, FeedStep, Feed!feedVars
<1>10. CASE Restart
  BY <1>10 DEF FeedStep
<1>11. CASE UNCHANGED vars
  BY <1>11 DEF vars, FeedStep, Feed!feedVars
<1>12. QED
  BY <1>2, <1>3, <1>4, <1>5, <1>6, <1>7, <1>8, <1>9, <1>10, <1>11
     DEF Next, LocalChange, SetTarget, SetSync

(* Until it ends, the process uses clipboard and watcher as ClipFeed lets  *)
(* its surroundings do, its own writes included: what WatcherProofs shows  *)
(* of a watcher on its own holds of the one inside the daemon              *)
(* (daemon.go:60-75).                                                      *)
THEOREM FedAlways == Spec => FedAsPromised
<1>1. TypeInv /\ [Next]_vars => [FeedStep]_vars
  BY StepOfFeed
<1>2. QED
  BY <1>1, TypeInit, TypeNext, PTL DEF Spec, FedAsPromised

-----------------------------------------------------------------------------
(* recentlySeen.                                                           *)

LEMMA RememberBounded ==
  ASSUME NEW S, NEW h, IsFiniteSet(S), Cardinality(S) <= MaxSeen
  PROVE  /\ IsFiniteSet(Remember(S, h))
         /\ Cardinality(Remember(S, h)) <= MaxSeen
<1>1. CASE Cardinality(S) >= MaxSeen
  <2>1. Remember(S, h) = {} \cup {h}
    BY <1>1 DEF Remember
  <2>2. IsFiniteSet({h}) /\ Cardinality({h}) = 1
    BY FS_Singleton
  <2>3. QED
    BY <2>1, <2>2, DaemonAssumption
<1>2. CASE ~(Cardinality(S) >= MaxSeen)
  <2>1. Remember(S, h) = S \cup {h}
    BY <1>2 DEF Remember
  <2>2. /\ IsFiniteSet(S \cup {h})
        /\ \/ Cardinality(S \cup {h}) = Cardinality(S)
           \/ Cardinality(S \cup {h}) = Cardinality(S) + 1
    BY FS_AddElement
  <2>3. Cardinality(S) \in Nat
    BY FS_CardinalityType
  <2>4. QED
    BY <1>2, <2>1, <2>2, <2>3, DaemonAssumption
<1>3. QED
  BY <1>1, <1>2

(* The four things that happen to recentlySeen.                            *)
LEMMA SeenChanges ==
  [Next]_vars => \/ seen' = seen
                 \/ seen' = {}
                 \/ \E h : seen' = Remember(seen, h)
                 \/ \E h : seen' = seen \ {h}
<1> SUFFICES ASSUME [Next]_vars
             PROVE  \/ seen' = seen
                    \/ seen' = {}
                    \/ \E h : seen' = Remember(seen, h)
                    \/ \E h : seen' = seen \ {h}
  OBVIOUS
<1>1. CASE User
  BY <1>1 DEF User, UserCopy, EditFile
<1>2. CASE Watcher
  BY <1>2 DEF Watcher, WatchRead, WatchPush, WatchFallback
<1>3. CASE LocalSwallow
  BY <1>3 DEF LocalSwallow
<1>4. CASE LocalChange /\ ~LocalSwallow
  BY <1>4 DEF LocalChange, LocalIgnoreEmpty, LocalDedupe, LocalAccept,
     LocalSkip, LocalSend, Acked, Unacked, LoopReturns
<1>5. ASSUME NEW h \in Handlers, NEW d \in Bodies, RecvText(h, d)
      PROVE  \E g : seen' = Remember(seen, g)
  BY <1>5 DEF RecvText
<1>6. ASSUME NEW h \in Handlers, RecvFile(h)
      PROVE  seen' = seen
  BY <1>6 DEF RecvFile
<1>7. ASSUME NEW t \in Threads, MarkPath(t)
      PROVE  \E g : seen' = Remember(seen, g)
  BY <1>7 DEF MarkPath
<1>8. ASSUME NEW t \in Threads, Saver(t), ~MarkPath(t)
      PROVE  seen' = seen
  BY <1>8 DEF Saver, Stat, Write, SaveFails, SetBoard
<1>9. ASSUME NEW new, SetConfig(new)
      PROVE  seen' = seen
  BY <1>9 DEF SetConfig
<1>10. CASE Restart
  BY <1>10 DEF Restart
<1>11. CASE UNCHANGED vars
  BY <1>11 DEF vars
<1>12. QED
  BY <1>1, <1>2, <1>3, <1>4, <1>5, <1>6, <1>7, <1>8, <1>9, <1>10, <1>11
     DEF Next, SetTarget, SetSync

(* recentlySeen never holds more than maxRecentlySeen digests, however     *)
(* many entries no watcher fire consumes (daemon.go:27-30, 184-187).       *)
THEOREM SeenStaysBounded == Spec => []SeenBounded
<1>1. Init => SeenBounded
  BY FS_EmptySet, DaemonAssumption DEF Init, SeenBounded
<1>2. SeenBounded /\ [Next]_vars => SeenBounded'
  <2> SUFFICES ASSUME SeenBounded, [Next]_vars PROVE SeenBounded'
    OBVIOUS
  <2>1. CASE seen' = seen
    BY <2>1 DEF SeenBounded
  <2>2. CASE seen' = {}
    BY <2>2, FS_EmptySet, DaemonAssumption DEF SeenBounded
  <2>3. ASSUME NEW h, seen' = Remember(seen, h) PROVE SeenBounded'
    BY <2>3, RememberBounded DEF SeenBounded
  <2>4. ASSUME NEW h, seen' = seen \ {h} PROVE SeenBounded'
    <3>1. /\ IsFiniteSet(seen \ {h})
          /\ Cardinality(seen \ {h}) <= Cardinality(seen)
      BY FS_Subset DEF SeenBounded
    <3>2. Cardinality(seen) \in Nat /\ Cardinality(seen \ {h}) \in Nat
      BY <3>1, FS_CardinalityType DEF SeenBounded
    <3>3. QED
      BY <2>4, <3>1, <3>2, DaemonAssumption DEF SeenBounded
  <2>5. QED
    BY <2>1, <2>2, <2>3, <2>4, SeenChanges
<1>3. QED
  BY <1>1, <1>2, PTL DEF Spec

-----------------------------------------------------------------------------
(* Settings.                                                               *)

(* The loop can begin at most one push under old settings, because it      *)
(* takes a new snapshot for the next item: until that push has begun, none *)
(* has since the change.                                                   *)
StaleInv ==
  /\ stale \in {0, 1}
  /\ pc[Loop] \notin {"idle", "wait"} /\ snap # cfg => stale = 0

LEMMA StaleNext == TypeInv /\ StaleInv /\ [Next]_vars => StaleInv'
<1> SUFFICES ASSUME TypeInv, StaleInv, [Next]_vars PROVE StaleInv'
  OBVIOUS
<1> USE DEF StaleInv
<1>p. pc \in [Threads -> {"idle", "stat", "write", "mark", "set", "route",
                         "wait"}]
      /\ Loop \in Threads /\ Loop \notin Handlers
  BY DaemonAssumption DEF TypeInv, TypeOK, Threads
<1>1. CASE User
  BY <1>1 DEF User, UserCopy, EditFile, loopVars, historyVars
<1>2. CASE Watcher
  BY <1>2 DEF Watcher, WatchRead, WatchPush, WatchFallback, loopVars,
     historyVars
<1>3. CASE LocalIgnoreEmpty \/ LocalSwallow \/ LocalDedupe
  BY <1>3 DEF LocalIgnoreEmpty, LocalSwallow, LocalDedupe, loopVars,
     historyVars
<1>4. CASE LocalAccept
  BY <1>4 DEF LocalAccept, historyVars
<1>5. CASE LocalSkip \/ Acked \/ Unacked
  BY <1>5, <1>p DEF LocalSkip, Acked, Unacked, LoopReturns
<1>6. CASE LocalSend
  BY <1>6, <1>p DEF LocalSend, loopVars
<1>7. ASSUME NEW h \in Handlers, NEW d \in Bodies, RecvText(h, d)
      PROVE  StaleInv'
  BY <1>7, <1>p DEF RecvText, loopVars, historyVars
<1>8. ASSUME NEW h \in Handlers, RecvFile(h)
      PROVE  StaleInv'
  BY <1>8, <1>p DEF RecvFile, loopVars, historyVars
<1>9. ASSUME NEW t \in Threads, Saver(t)
      PROVE  StaleInv'
  BY <1>9, <1>p DEF Saver, Stat, Write, SaveFails, MarkPath, SetBoard,
     loopVars, historyVars
<1>10. ASSUME NEW new, SetConfig(new)
       PROVE  StaleInv'
  BY <1>10 DEF SetConfig
<1>11. CASE Restart
  BY <1>11 DEF Restart
<1>12. CASE UNCHANGED vars
  BY <1>12 DEF vars
<1>13. QED
  BY <1>1, <1>2, <1>3, <1>4, <1>5, <1>6, <1>7, <1>8, <1>9, <1>10, <1>11,
     <1>12 DEF Next, LocalChange, SetTarget, SetSync

(* After clippy off or clippy target, at most the push already being       *)
(* prepared begins under the old settings (SC-004, US-4).                  *)
THEOREM SettingsTakeHold == Spec => []StaleBound
<1>1. Init => StaleInv
  BY DEF Init, StaleInv
<1>2. StaleInv => StaleBound
  BY DEF StaleInv, StaleBound
<1>3. QED
  BY <1>1, <1>2, TypeInit, TypeNext, StaleNext, PTL DEF Spec

-----------------------------------------------------------------------------
(* Echo.                                                                   *)

(* What the daemon wrote itself is text wherever it is on its way from the *)
(* clipboard to the loop, and the loop neither saves nor pushes a text.    *)
OwnIsText(it) == it.id = 0 => it.kind = "text"

EchoInv ==
  /\ \A it \in board : OwnIsText(it)
  /\ held # NoItem => OwnIsText(held)
  /\ \A n \in 1..Len(out) : OwnIsText(out[n])
  /\ pc[Loop] # "idle" => OwnIsText(item)
  /\ pc[Loop] \notin {"idle", "route"} => item.kind # "text"
  /\ \A n \in 1..Len(log) : log[n].id # 0

LEMMA TakeKeepsOwn ==
  ASSUME TypeInv, EchoInv, Feed!Take
  PROVE  /\ OwnIsText(Head(out))
         /\ \A n \in 1..Len(out') : OwnIsText(out'[n])
         /\ board' = board /\ held' = held
<1>1. /\ out \in Seq(Items) /\ out # <<>> /\ out' = Tail(out)
      /\ board' = board /\ held' = held
  BY DEF TypeInv, TypeOK, Feed!FeedTypeOK, Feed!Take
<1>2. Head(out) = out[1] /\ 1 \in 1..Len(out)
  BY <1>1
<1>3. \A n \in 1..Len(Tail(out)) :
        n + 1 \in 1..Len(out) /\ Tail(out)[n] = out[n + 1]
  BY <1>1
<1>4. QED
  BY <1>1, <1>2, <1>3 DEF EchoInv

LEMMA EchoNext == TypeInv /\ EchoInv /\ [Next]_vars => EchoInv'
<1> SUFFICES ASSUME TypeInv, EchoInv, [Next]_vars PROVE EchoInv'
  OBVIOUS
<1> USE DEF EchoInv, OwnIsText
<1>p. /\ pc \in [Threads -> {"idle", "stat", "write", "mark", "set", "route",
                            "wait"}]
      /\ Loop \in Threads /\ Loop \notin Handlers
      /\ out \in Seq(Items) /\ log \in Seq(Pushes) /\ copies \in Nat
  BY DaemonAssumption DEF TypeInv, TypeOK, Feed!FeedTypeOK, Threads
<1>1. CASE User
  BY <1>1, <1>p, UserTouches DEF Rewritten
<1>2. CASE WatchRead
  BY <1>2 DEF WatchRead, Feed!Read, loopVars, historyVars
<1>3. CASE WatchPush
  <2>1. /\ Len(out') = Len(out) + 1
        /\ \A n \in 1..Len(out') :
             out'[n] = IF n = Len(out) + 1 THEN held ELSE out[n]
    BY <1>3, <1>p DEF WatchPush, Feed!Push, TypeInv, TypeOK, Feed!FeedTypeOK
  <2>2. \A n \in 1..Len(out') : OwnIsText(out'[n])
    BY <1>3, <1>p, <2>1 DEF WatchPush, Feed!Push
  <2>3. QED
    BY <1>3, <2>2 DEF WatchPush, Feed!Push, loopVars, historyVars
<1>4. CASE WatchFallback
  BY <1>4 DEF WatchFallback, Feed!Reset, loopVars, historyVars
<1>5. CASE LocalIgnoreEmpty \/ LocalSwallow \/ LocalDedupe
  BY <1>5, TakeKeepsOwn DEF LocalIgnoreEmpty, LocalSwallow, LocalDedupe,
     LoopTakes, loopVars, historyVars
<1>6. CASE LocalAccept
  BY <1>6, <1>p, TakeKeepsOwn DEF LocalAccept, LoopTakes, historyVars
<1>7. CASE LocalSkip \/ Unacked
  BY <1>7, <1>p DEF LocalSkip, Unacked, LoopReturns
<1>8. CASE LocalSend
  BY <1>8, <1>p DEF LocalSend, Sendable, loopVars
<1>9. CASE Acked
  <2>1. /\ Len(log') = Len(log) + 1
        /\ \A n \in 1..Len(log') :
             log'[n].id = IF n = Len(log) + 1 THEN item.id ELSE log[n].id
    BY <1>9, <1>p DEF Acked
  <2>2. item.id # 0
    BY <1>9 DEF Acked
  <2>3. \A n \in 1..Len(log') : log'[n].id # 0
    BY <1>p, <2>1, <2>2
  <2>4. QED
    BY <1>9, <1>p, <2>3 DEF Acked, LoopReturns
<1>10. ASSUME NEW h \in Handlers, NEW d \in Bodies, RecvText(h, d)
       PROVE  EchoInv'
  BY <1>10, <1>p DEF RecvText, loopVars, historyVars
<1>11. ASSUME NEW h \in Handlers, RecvFile(h)
       PROVE  EchoInv'
  BY <1>11, <1>p DEF RecvFile, loopVars, historyVars
<1>12. ASSUME NEW t \in Threads, Saver(t), ~SetBoard(t)
       PROVE  EchoInv'
  BY <1>12, <1>p DEF Saver, Stat, Write, SaveFails, AfterSave, MarkPath,
     loopVars, historyVars
<1>13. ASSUME NEW t \in Threads, SetBoard(t)
       PROVE  EchoInv'
  BY <1>13, <1>p DEF SetBoard, AfterSave, OwnText, Feed!Change, loopVars,
     historyVars
<1>14. ASSUME NEW new, SetConfig(new)
       PROVE  EchoInv'
  BY <1>14 DEF SetConfig, loopVars
<1>15. CASE Restart
  <2>1. pc'[Loop] = "idle" /\ held' = NoItem /\ Len(out') = 0
    BY <1>15, <1>p DEF Restart
  <2>2. QED
    BY <1>15, <2>1 DEF Restart
<1>16. CASE UNCHANGED vars
  BY <1>16 DEF vars
<1>17. QED
  BY <1>1, <1>2, <1>3, <1>4, <1>5, <1>6, <1>7, <1>8, <1>9, <1>10, <1>11,
     <1>12, <1>13, <1>14, <1>15, <1>16
     DEF Next, Watcher, LocalChange, SetTarget, SetSync

(* Nothing that the daemon put on the clipboard is pushed (FR-006, SC-007),*)
(* or saved as an image and put there again, whatever recentlySeen still   *)
(* holds when the watcher sees it.                                         *)
THEOREM NothingEchoed == Spec => []NoEcho
<1>1. Init => EchoInv
  BY DaemonAssumption DEF Init, Feed!FeedInit, EchoInv, Threads
<1>2. TypeInv /\ EchoInv => NoEcho
  BY DEF EchoInv, OwnIsText, NoEcho
<1>3. QED
  BY <1>1, <1>2, TypeInit, TypeNext, EchoNext, PTL DEF Spec

-----------------------------------------------------------------------------
(* Swallowing.                                                             *)

(* A digest of recentlySeen that is one of a text was put there by a       *)
(* receipt that no swallow has answered yet: those of paths are no texts.  *)
OwedInv ==
  \A d \in Bodies : owed[d] >= IF Feed!Hash(d) \in seen THEN 1 ELSE 0

LEMMA HashTellsApart ==
  ASSUME NEW d, NEW e
  PROVE  Feed!Hash(d) = Feed!Hash(e) <=> d = e
BY DEF Feed!Hash

(* An entry of recentlySeen other than the new one is an old one.          *)
LEMMA RememberAddsOne ==
  ASSUME NEW S, NEW g, NEW h, g \in Remember(S, h)
  PROVE  g = h \/ g \in S
BY DEF Remember

LEMMA OwedNext == TypeInv /\ OwedInv /\ [Next]_vars => OwedInv'
<1> SUFFICES ASSUME TypeInv, OwedInv, [Next]_vars PROVE OwedInv'
  OBVIOUS
<1>p. owed \in [Bodies -> Int]
  BY DEF TypeInv, TypeOK
<1>1. ASSUME owed' = owed, seen' \subseteq seen
      PROVE  OwedInv'
  <2>1. \A d \in Bodies : Feed!Hash(d) \in seen' => Feed!Hash(d) \in seen
    BY <1>1
  <2>2. QED
    BY <1>1, <1>p, <2>1 DEF OwedInv
<1>2. CASE User
  BY <1>1, <1>2, UserTouches
<1>3. CASE Watcher
  BY <1>1, <1>3 DEF Watcher, WatchRead, WatchPush, WatchFallback, historyVars
<1>4. CASE LocalChange /\ ~LocalSwallow
  BY <1>1, <1>4 DEF LocalChange, LocalIgnoreEmpty, LocalDedupe, LocalAccept,
     LocalSkip, LocalSend, Acked, Unacked, LoopReturns, historyVars
<1>5. CASE LocalSwallow
  <2> DEFINE body == Head(out).data
  <2>1. /\ Feed!Hash(body) \in seen
        /\ seen' = seen \ {Feed!Hash(body)}
        /\ owed' = [d \in Bodies |-> IF d = body THEN owed[d] - 1 ELSE owed[d]]
    BY <1>5 DEF LocalSwallow
  <2> SUFFICES ASSUME NEW d \in Bodies
               PROVE  owed'[d] >= IF Feed!Hash(d) \in seen' THEN 1 ELSE 0
    BY DEF OwedInv
  <2>2. owed[d] >= IF Feed!Hash(d) \in seen THEN 1 ELSE 0
    BY DEF OwedInv
  <2>3. CASE d = body
    <3>1. Feed!Hash(d) \in seen /\ Feed!Hash(d) \notin seen'
      BY <2>1, <2>3
    <3>2. owed'[d] = owed[d] - 1
      BY <2>1, <2>3
    <3>3. QED
      BY <1>p, <2>2, <3>1, <3>2
  <2>4. CASE d # body
    <3>1. Feed!Hash(d) \in seen' => Feed!Hash(d) \in seen
      BY <2>1
    <3>2. owed'[d] = owed[d]
      BY <2>1, <2>4
    <3>3. QED
      BY <1>p, <2>2, <3>1, <3>2
  <2>5. QED
    BY <2>3, <2>4
<1>6. ASSUME NEW h \in Handlers, NEW e \in Bodies, RecvText(h, e)
      PROVE  OwedInv'
  <2>1. /\ seen' = Remember(seen, Feed!Hash(e))
        /\ owed' = [owed EXCEPT ![e] = @ + 1]
    BY <1>6 DEF RecvText
  <2> SUFFICES ASSUME NEW d \in Bodies
               PROVE  owed'[d] >= IF Feed!Hash(d) \in seen' THEN 1 ELSE 0
    BY DEF OwedInv
  <2>2. owed[d] >= IF Feed!Hash(d) \in seen THEN 1 ELSE 0
    BY DEF OwedInv
  <2>3. CASE d = e
    BY <1>p, <2>1, <2>2, <2>3
  <2>4. CASE d # e
    <3>1. Feed!Hash(d) \in seen' => Feed!Hash(d) \in seen
      BY <2>1, <2>4, HashTellsApart, RememberAddsOne
    <3>2. owed'[d] = owed[d]
      BY <1>p, <2>1, <2>4
    <3>3. QED
      BY <1>p, <2>2, <3>1, <3>2
  <2>5. QED
    BY <2>3, <2>4
<1>7. ASSUME NEW h \in Handlers, RecvFile(h)
      PROVE  OwedInv'
  BY <1>1, <1>7 DEF RecvFile, historyVars
<1>8. ASSUME NEW t \in Threads, MarkPath(t)
      PROVE  OwedInv'
  <2>1. /\ seen' = Remember(seen, Feed!Hash(job[t])) /\ owed' = owed
        /\ job[t] \in {"path"} \X Nat
    BY <1>8 DEF MarkPath, historyVars, TypeInv, LocalsOK
  <2>2. job[t] \notin Bodies
    BY <2>1, DaemonAssumption
  <2>3. \A d \in Bodies : Feed!Hash(d) \in seen' => Feed!Hash(d) \in seen
    BY <2>1, <2>2, HashTellsApart, RememberAddsOne
  <2>4. QED
    BY <1>p, <2>1, <2>3 DEF OwedInv
<1>9. ASSUME NEW t \in Threads, Saver(t), ~MarkPath(t)
      PROVE  OwedInv'
  BY <1>1, <1>9 DEF Saver, Stat, Write, SaveFails, SetBoard, historyVars
<1>10. ASSUME NEW new, SetConfig(new)
       PROVE  OwedInv'
  BY <1>1, <1>10 DEF SetConfig
<1>11. CASE Restart
  BY <1>11 DEF Restart, OwedInv
<1>12. CASE UNCHANGED vars
  BY <1>1, <1>12 DEF vars
<1>13. QED
  BY <1>2, <1>3, <1>4, <1>5, <1>6, <1>7, <1>8, <1>9, <1>10, <1>11, <1>12
     DEF Next, SetTarget, SetSync

(* What the user copies is swallowed for an echo at most as often as its   *)
(* text was received, however receipts, copies and looks of the watcher    *)
(* fall, and although the entry can outlive the echo it was made for       *)
(* (daemon.go:82-88, 184-196).                                             *)
THEOREM SwallowsArePaid == Spec => []SwallowsOwed
<1>1. Init => OwedInv
  BY DEF Init, OwedInv
<1>2. TypeInv /\ OwedInv => SwallowsOwed
  <2> SUFFICES ASSUME TypeInv, OwedInv, NEW d \in Bodies PROVE owed[d] >= 0
    BY DEF SwallowsOwed
  <2>1. owed[d] \in Int /\ owed[d] >= IF Feed!Hash(d) \in seen THEN 1 ELSE 0
    BY DEF TypeInv, TypeOK, OwedInv
  <2>2. QED
    BY <2>1
<1>3. QED
  BY <1>1, <1>2, TypeInit, TypeNext, OwedNext, PTL DEF Spec

-----------------------------------------------------------------------------
(* Saved files.                                                            *)

(* A path is put on the clipboard only after its file was written, and     *)
(* nothing removes a file.                                                 *)
PathInv ==
  /\ PathNamesSavedFile
  /\ \A t \in Threads :
       /\ pc[t] = "mark" => job[t] \in files
       /\ pc[t] = "set" => job[t] \in Bodies \cup files

LEMMA PathNext == TypeInv /\ PathInv /\ [Next]_vars => PathInv'
<1> SUFFICES ASSUME TypeInv, PathInv, [Next]_vars PROVE PathInv'
  OBVIOUS
<1> USE DEF PathInv, PathNamesSavedFile
<1>p. /\ pc \in [Threads -> {"idle", "stat", "write", "mark", "set", "route",
                            "wait"}]
      /\ job \in [Threads -> Data \cup {NoData}]
      /\ Loop \in Threads /\ copies \in Nat
  BY DEF TypeInv, TypeOK, Threads
<1>1. CASE User
  BY <1>1, <1>p, UserTouches DEF Rewritten
<1>2. CASE Watcher
  BY <1>2 DEF Watcher, WatchRead, WatchPush, WatchFallback, Feed!Read,
     Feed!Push, Feed!Reset
<1>3. CASE LocalIgnoreEmpty \/ LocalSwallow \/ LocalDedupe \/ LocalAccept
  BY <1>3, <1>p DEF LocalIgnoreEmpty, LocalSwallow, LocalDedupe, LocalAccept,
     LoopTakes, Feed!Take
<1>4. CASE LocalSkip \/ LocalSend \/ Acked \/ Unacked
  BY <1>4, <1>p DEF LocalSkip, LocalSend, Acked, Unacked, LoopReturns
<1>5. ASSUME NEW h \in Handlers, NEW d \in Bodies, RecvText(h, d)
      PROVE  PathInv'
  BY <1>5, <1>p DEF RecvText
<1>6. ASSUME NEW h \in Handlers, RecvFile(h)
      PROVE  PathInv'
  BY <1>6, <1>p DEF RecvFile
<1>7. ASSUME NEW t \in Threads, Stat(t)
      PROVE  PathInv'
  BY <1>7, <1>p DEF Stat
<1>8. ASSUME NEW t \in Threads, Write(t)
      PROVE  PathInv'
  BY <1>8, <1>p DEF Write
<1>9. ASSUME NEW t \in Threads, SaveFails(t)
      PROVE  PathInv'
  BY <1>9, <1>p DEF SaveFails, AfterSave
<1>10. ASSUME NEW t \in Threads, MarkPath(t)
       PROVE  PathInv'
  BY <1>10, <1>p DEF MarkPath
<1>11. ASSUME NEW t \in Threads, SetBoard(t)
       PROVE  PathInv'
  BY <1>11, <1>p DEF SetBoard, AfterSave, OwnText, Feed!Change
<1>12. ASSUME NEW new, SetConfig(new)
       PROVE  PathInv'
  BY <1>12 DEF SetConfig
<1>13. CASE Restart
  BY <1>13 DEF Restart
<1>14. CASE UNCHANGED vars
  BY <1>14 DEF vars
<1>15. QED
  BY <1>1, <1>2, <1>3, <1>4, <1>5, <1>6, <1>7, <1>8, <1>9, <1>10, <1>11,
     <1>12, <1>13, <1>14 DEF Next, LocalChange, Saver, SetTarget, SetSync

(* A path that the daemon puts on the clipboard is that of a file that has *)
(* been written (daemon.go:159-172).                                       *)
THEOREM PathsNameFiles == Spec => []PathNamesSavedFile
<1>1. Init => PathInv
  BY DEF Init, Feed!FeedInit, PathInv, PathNamesSavedFile
<1>2. PathInv => PathNamesSavedFile
  BY DEF PathInv
<1>3. QED
  BY <1>1, <1>2, TypeInit, TypeNext, PathNext, PTL DEF Spec

-----------------------------------------------------------------------------
(* Dedupe.                                                                 *)

(* The loop works on nothing that has the digest pushed last, and that is  *)
(* the digest of the last entry of the log made by this process.           *)
DedupeInv ==
  /\ LastSentWasAcked
  /\ NoRepeat
  /\ \A n \in 1..Len(log) : log[n].run <= restarts
  /\ pc[Loop] # "idle" => Feed!Hash(item.data) # lastSent

LEMMA DedupeNext == TypeInv /\ DedupeInv /\ [Next]_vars => DedupeInv'
<1> SUFFICES ASSUME TypeInv, DedupeInv, [Next]_vars PROVE DedupeInv'
  OBVIOUS
<1> USE DEF DedupeInv, LastSentWasAcked, NoRepeat
<1>p. /\ pc \in [Threads -> {"idle", "stat", "write", "mark", "set", "route",
                            "wait"}]
      /\ Loop \in Threads /\ Loop \notin Handlers
      /\ log \in Seq(Pushes) /\ restarts \in Nat
  BY DaemonAssumption DEF TypeInv, TypeOK, Threads
<1>1. CASE User
  BY <1>1, UserTouches
<1>2. CASE Watcher
  BY <1>2 DEF Watcher, WatchRead, WatchPush, WatchFallback, loopVars,
     historyVars, boundVars
<1>3. CASE LocalIgnoreEmpty \/ LocalSwallow \/ LocalDedupe
  BY <1>3 DEF LocalIgnoreEmpty, LocalSwallow, LocalDedupe, loopVars,
     historyVars, boundVars
<1>4. CASE LocalAccept
  BY <1>4, <1>p DEF LocalAccept, Repeated, historyVars, boundVars
<1>5. CASE LocalSkip \/ Unacked
  BY <1>5, <1>p DEF LocalSkip, Unacked, LoopReturns, boundVars
<1>6. CASE LocalSend
  BY <1>6, <1>p DEF LocalSend, loopVars, boundVars
<1>7. CASE Acked
  <2> DEFINE new == [id |-> item.id, hash |-> Feed!Hash(item.data),
                     to |-> snap.target, run |-> restarts]
  <2>1. /\ log' = Append(log, new) /\ restarts' = restarts
        /\ lastSent' = new.hash /\ pc'[Loop] = "idle"
    BY <1>7, <1>p DEF Acked, LoopReturns, boundVars
  <2>2. /\ Len(log') = Len(log) + 1 /\ Len(log) \in Nat
        /\ \A n \in 1..Len(log') :
             log'[n] = IF n = Len(log) + 1 THEN new ELSE log[n]
    BY <1>p, <2>1
  <2>3. log # <<>> /\ log[Len(log)].run = restarts
          => log[Len(log)].hash # new.hash
    BY <1>7 DEF Acked
  <2>4. LastSentWasAcked'
    BY <2>1, <2>2
  <2>5. NoRepeat'
    <3> SUFFICES ASSUME NEW n \in 1..(Len(log') - 1),
                        log'[n].run = log'[n + 1].run
                 PROVE  log'[n].hash # log'[n + 1].hash
      BY <2>1 DEF NoRepeat
    <3>1. CASE n = Len(log)
      BY <2>2, <2>3, <3>1, <1>p
    <3>2. CASE n # Len(log)
      BY <2>2, <3>2
    <3>3. QED
      BY <3>1, <3>2
  <2>6. \A n \in 1..Len(log') : log'[n].run <= restarts'
    BY <1>p, <2>1, <2>2
  <2>7. QED
    BY <2>1, <2>4, <2>5, <2>6
<1>8. ASSUME NEW h \in Handlers, NEW d \in Bodies, RecvText(h, d)
      PROVE  DedupeInv'
  BY <1>8, <1>p DEF RecvText, loopVars, historyVars
<1>9. ASSUME NEW h \in Handlers, RecvFile(h)
      PROVE  DedupeInv'
  BY <1>9, <1>p DEF RecvFile, loopVars, historyVars
<1>10. ASSUME NEW t \in Threads, Saver(t)
       PROVE  DedupeInv'
  BY <1>10, <1>p DEF Saver, Stat, Write, SaveFails, MarkPath, SetBoard,
     loopVars, historyVars, boundVars
<1>11. ASSUME NEW new, SetConfig(new)
       PROVE  DedupeInv'
  BY <1>11 DEF SetConfig, loopVars
<1>12. CASE Restart
  <2>1. /\ log' = log /\ restarts' = restarts + 1 /\ pc'[Loop] = "idle"
        /\ lastSent' = Feed!NoHash
    BY <1>12, <1>p DEF Restart
  <2>2. \A n \in 1..Len(log') : log'[n].run <= restarts
    BY <2>1
  <2>3. log # <<>> => Len(log) \in 1..Len(log)
    BY <1>p
  <2>4. \A n \in 1..Len(log) : log[n].run \in Nat
    <3>1. \A n \in 1..Len(log) : log[n] \in Pushes
      BY <1>p
    <3>2. \A p \in Pushes : p.run \in Nat
      BY DEF Pushes
    <3>3. QED
      BY <3>1, <3>2
  <2>5. LastSentWasAcked'
    BY <1>p, <2>1, <2>2, <2>3, <2>4
  <2>6. \A n \in 1..Len(log') : log'[n].run <= restarts'
    BY <1>p, <2>1, <2>2, <2>4
  <2>7. QED
    BY <2>1, <2>5, <2>6
<1>13. CASE UNCHANGED vars
  BY <1>13 DEF vars
<1>14. QED
  BY <1>1, <1>2, <1>3, <1>4, <1>5, <1>6, <1>7, <1>8, <1>9, <1>10, <1>11,
     <1>12, <1>13 DEF Next, LocalChange, SetTarget, SetSync

LEMMA DedupeAlways == Spec => []DedupeInv
<1>1. Init => DedupeInv
  BY DaemonAssumption DEF Init, DedupeInv, LastSentWasAcked, NoRepeat, Threads
<1>2. QED
  BY <1>1, TypeInit, TypeNext, DedupeNext, PTL DEF Spec

(* lastSent is the digest of the last acknowledged push of this process,   *)
(* never of one that failed (daemon.go:137-143).                           *)
THEOREM LastSentIsAcked == Spec => []LastSentWasAcked
<1>1. DedupeInv => LastSentWasAcked
  BY DEF DedupeInv
<1>2. QED
  BY <1>1, DedupeAlways, PTL

(* One process never gets the same content acknowledged twice in a row     *)
(* (FR-005).                                                               *)
THEOREM NeverRepeats == Spec => []NoRepeat
<1>1. DedupeInv => NoRepeat
  BY DEF DedupeInv
<1>2. QED
  BY <1>1, DedupeAlways, PTL
=============================================================================
