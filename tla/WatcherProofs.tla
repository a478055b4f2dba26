---------------------------- MODULE WatcherProofs ---------------------------
(***************************************************************************)
(* What Watcher promises for any contents, clipboards and bounds: it       *)
(* implements ClipFeed, and coalescing loses no change.                    *)
(***************************************************************************)
EXTENDS Watcher, TLAPS

(* Nothing is on its way that will make Watch look again, no look has      *)
(* failed, and a file on offer is as it was copied.                        *)
Quiet ==
  /\ ~polling /\ alive /\ failures = 0 /\ ~edited
  /\ lines = 0 /\ ~changes

(* NoLostChange, with what is so in the middle of a look: the look is at   *)
(* the clipboard as it is now.                                             *)
Abreast ==
  Quiet =>
    \/ pc = "types"
    \/ pc = "read" /\ offered = KindsOn(board)
    \/ pc \in {"wait", "push"} /\ UpToDate

-----------------------------------------------------------------------------
(* The look tries a kind that is on offer.                                 *)
LEMMA RichestOffered ==
  ASSUME NEW K \in SUBSET Kinds, K # {}
  PROVE  Richest(K) \in K
PROOF
  BY DEF Richest, Kinds

(* What ReadNew or ReadSame got, in a look at the clipboard as it is, is   *)
(* the richest item on it, and there is only one of its kind.              *)
LEMMA ReadIsRichest ==
  ASSUME TypeOK, offered = KindsOn(board), NEW it \in Here
  PROVE  \A i \in board : i.kind = Richest(KindsOn(board)) => i = it
PROOF
  BY WatcherAssumption DEF TypeOK, Here, Trying

(* Every step keeps the types.                                             *)
LEMMA TypedStep ==
  ASSUME TypeOK, [Next]_vars
  PROVE  TypeOK'
PROOF
<1> USE WatcherAssumption DEF TypeOK, Feed!FeedTypeOK, feed
<1>1. ASSUME NEW new \in Boards, Change(new) PROVE TypeOK'
  <2>1. edited' \in BOOLEAN
    BY <1>1 DEF Change
  <2>2. changed' \in Nat /\ lines' \in Nat
    BY <1>1, SMTT(20) DEF Change
  <2> QED
    BY <1>1, <2>1, <2>2 DEF Change, Feed!Change
<1>2. CASE Scan
  BY <1>2 DEF Scan, Notify
<1>3. CASE Die
  BY <1>3 DEF Die
<1>4. CASE Fallback
  BY <1>4 DEF Fallback, Feed!Reset
<1>5. CASE Wake
  BY <1>5 DEF Wake
<1>6. CASE ListTypes
  <2>1. KindsOn(board) \subseteq Kinds /\ (board # {} => KindsOn(board) # {})
    BY DEF KindsOn
  <2> QED
    BY <1>6, <2>1 DEF ListTypes
<1>7. CASE ListFails
  BY <1>7 DEF ListFails
<1>8. CASE ReadNew
  <2>1. PICK it \in Here : lastHash' = Feed!Hash(it.data) /\ held' = it
    BY <1>8 DEF ReadNew
  <2>2. it \in Items /\ lastHash' \in Feed!Digests
    BY <2>1 DEF Here, Feed!Digests, Feed!Hash
  <2> QED
    BY <1>8, <2>1, <2>2 DEF ReadNew
<1>9. CASE ReadSame
  BY <1>9 DEF ReadSame
<1>10. CASE Gone \/ ReadFails
  BY <1>10 DEF Gone, ReadFails, TryNext
<1>11. CASE Push
  BY <1>11 DEF Push, Feed!Push, Feed!HasRoom
<1>12. CASE Take
  BY <1>12 DEF Take, Feed!Take
<1>13. CASE TryAll
  BY <1>13 DEF TryAll, Kinds
<1>14. CASE NoTempFile
  BY <1>14 DEF NoTempFile
<1>15. ASSUME NEW new \in Boards, Edit(new) PROVE TypeOK'
  <2>1. edited' \in BOOLEAN /\ changed' \in Nat
    BY <1>15 DEF Edit
  <2> QED
    BY <1>15, <2>1 DEF Edit, Feed!Change
<1>16. CASE UNCHANGED vars
  BY <1>16 DEF vars
<1> QED
  BY <1>1, <1>2, <1>3, <1>4, <1>5, <1>6, <1>7, <1>8, <1>9, <1>10, <1>11, <1>12,
     <1>13, <1>14, <1>15, <1>16 DEF Next, Watch

(* Every step keeps the watcher abreast of the clipboard.                  *)
LEMMA AbreastStep ==
  ASSUME TypeOK, Abreast, [Next]_vars
  PROVE  Abreast'
PROOF
<1> USE DEF Abreast, Quiet, feed
<1>1. ASSUME NEW new \in Boards, Change(new) PROVE Abreast'
  BY <1>1 DEF Change, TypeOK
<1>2. CASE Scan
  BY <1>2 DEF Scan, Notify
<1>3. CASE Die
  BY <1>3 DEF Die
<1>4. CASE Fallback
  BY <1>4 DEF Fallback
<1>5. CASE Wake
  BY <1>5 DEF Wake
<1>6. CASE ListTypes
  BY <1>6 DEF ListTypes, UpToDate, KindsOn
<1>7. CASE ListFails
  BY <1>7 DEF ListFails, TypeOK
<1>8. CASE ReadNew
  <2> SUFFICES ASSUME Quiet' PROVE UpToDate'
    BY <1>8 DEF ReadNew
  <2>1. offered = KindsOn(board) /\ board' = board
    BY <1>8 DEF ReadNew
  <2>2. PICK it \in Here : lastHash' = Feed!Hash(it.data)
    BY <1>8 DEF ReadNew
  <2>3. \A i \in board : i.kind = Richest(KindsOn(board)) => i = it
    BY <2>1, ReadIsRichest
  <2> QED
    BY <2>1, <2>2, <2>3 DEF UpToDate, KindsOn, Feed!Hash
<1>9. CASE ReadSame
  <2> SUFFICES ASSUME Quiet' PROVE UpToDate'
    BY <1>9 DEF ReadSame
  <2>1. offered = KindsOn(board) /\ board' = board /\ lastHash' = lastHash
    BY <1>9 DEF ReadSame
  <2>2. PICK it \in Here : Feed!Hash(it.data) = lastHash
    BY <1>9 DEF ReadSame
  <2>3. \A i \in board : i.kind = Richest(KindsOn(board)) => i = it
    BY <2>1, ReadIsRichest
  <2> QED
    BY <2>1, <2>2, <2>3 DEF UpToDate, KindsOn, Feed!Hash
<1>10. CASE Gone \/ ReadFails
  <2> SUFFICES ASSUME Quiet' PROVE FALSE
    OBVIOUS
  <2>1. failures' = failures /\ Here = {} /\ offered = KindsOn(board)
    <3>1. CASE Gone
      BY <1>10, <3>1 DEF Gone, TryNext
    <3>2. CASE ReadFails
      BY <1>10, <3>2 DEF ReadFails, TryNext, TypeOK
    <3>3. QED
      BY <1>10, <3>1, <3>2
  <2>2. Richest(offered) \in offered
    BY <1>10, RichestOffered DEF Gone, ReadFails, TryNext, TypeOK
  <2> QED
    BY <2>1, <2>2 DEF Here, Trying, KindsOn
<1>11. CASE Push
  BY <1>11 DEF Push, Feed!Push, UpToDate, KindsOn, Feed!Hash
<1>12. CASE Take
  BY <1>12 DEF Take, Feed!Take, UpToDate, KindsOn, Feed!Hash
<1>13. CASE TryAll \/ NoTempFile
  BY <1>13 DEF TryAll, NoTempFile, TypeOK
<1>14. ASSUME NEW new \in Boards, Edit(new) PROVE Abreast'
  BY <1>14 DEF Edit
<1>15. CASE UNCHANGED vars
  BY <1>15 DEF vars, UpToDate, KindsOn, Feed!Hash
<1> QED
  BY <1>1, <1>2, <1>3, <1>4, <1>5, <1>6, <1>7, <1>8, <1>9, <1>10, <1>11, <1>12,
     <1>13, <1>14, <1>15 DEF Next, Watch

-----------------------------------------------------------------------------
(* TypeOK is an invariant; in particular the channel of the watcher never  *)
(* holds more than its capacity, and Watch never looks while it pushes.    *)
THEOREM Typed == Spec => []TypeOK
PROOF
<1>1. ASSUME Init PROVE TypeOK
  <2>1. out \in Seq(Items) /\ Len(out) <= OutCap
    BY <1>1, WatcherAssumption DEF Init, Feed!FeedInit
  <2>2. Feed!FeedTypeOK
    BY <1>1, <2>1 DEF Init, Feed!FeedInit, Feed!FeedTypeOK
  <2>3. held = NoItem /\ board = {}
    BY <1>1 DEF Init, Feed!FeedInit
  <2> QED
    BY <1>1, <2>2, <2>3, WatcherAssumption DEF Init, TypeOK
<1>2. TypeOK /\ [Next]_vars => TypeOK'
  BY TypedStep
<1> QED
  BY <1>1, <1>2, PTL DEF Spec

(* NoLostChange is an invariant: however changes of the clipboard fall     *)
(* into notification, list of types, read and push, the last one is seen.  *)
THEOREM NothingLost == Spec => []NoLostChange
PROOF
<1>1. Init => Abreast
  BY DEF Init, Feed!FeedInit, Abreast, UpToDate
<1>2. TypeOK /\ Abreast /\ [Next]_vars => Abreast'
  BY AbreastStep
<1>3. Abreast => NoLostChange
  BY DEF Abreast, Quiet, NoLostChange
<1> QED
  BY <1>1, <1>2, <1>3, Typed, PTL DEF Spec

(* Either watcher implements what the daemon relies on: every step         *)
(* of Watch is a step of ClipFeed, or one that ClipFeed does not see.      *)
THEOREM Implements == Spec => FeedSpec
PROOF
<1>1. Init => Feed!FeedInit
  BY DEF Init
<1>2. [Next]_vars => [Feed!FeedNext]_(Feed!feedVars)
  <2> SUFFICES ASSUME [Next]_vars PROVE [Feed!FeedNext]_(Feed!feedVars)
    OBVIOUS
  <2> USE DEF Feed!feedVars, feed
  <2>1. ASSUME NEW new \in Boards, Change(new) \/ Edit(new)
        PROVE  Feed!FeedNext
    BY <2>1, WatcherAssumption DEF Change, Edit, Feed!FeedNext
  <2>2. CASE Fallback
    BY <2>2 DEF Fallback, Feed!FeedNext
  <2>3. CASE ReadNew
    BY <2>3 DEF ReadNew, Here, Feed!Read, Feed!FeedNext
  <2>4. CASE Push
    BY <2>4 DEF Push, Feed!FeedNext
  <2>5. CASE Take
    BY <2>5 DEF Take, Feed!FeedNext
  <2>6. CASE Scan \/ Die \/ Wake \/ ListTypes \/ ListFails \/ TryAll
            \/ ReadSame \/ Gone \/ ReadFails \/ NoTempFile
    BY <2>6 DEF Scan, Die, Wake, ListTypes, ListFails, TryAll, ReadSame,
       Gone, ReadFails, TryNext, NoTempFile
  <2>7. CASE UNCHANGED vars
    BY <2>7 DEF vars
  <2> QED
    BY <2>1, <2>2, <2>3, <2>4, <2>5, <2>6, <2>7 DEF Next, Watch
<1> QED
  BY <1>1, <1>2, PTL DEF Spec, FeedSpec, Feed!FeedSpec
=============================================================================
