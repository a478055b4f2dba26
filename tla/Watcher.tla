------------------------------ MODULE Watcher -------------------------------
(***************************************************************************)
(* The clipboard watcher of Linux (clipboard_linux.go): Watch driven by    *)
(* the lines that wl-paste --watch prints, one per change of the clipboard,*)
(* or by a ticker where there is no such process, or once it has died.  A  *)
(* look at the clipboard is several programs run one after the other, so   *)
(* that it can change between the list of types and the reading of one of  *)
(* them.  The watcher of macOS (clipboard_darwin.go) polls from the start  *)
(* and tries the kinds without asking for a list.                          *)
(*                                                                         *)
(* The module implements ClipFeed.                                         *)
(***************************************************************************)
EXTENDS Naturals, Sequences

CONSTANTS
  Data, Items, NoItem, OutCap,  \* as in ClipFeed; items have a field kind
  Boards,       \* what the clipboard can offer: one item of a kind at most,
                \* and no empty text or image, which counts as none
  MaxChanges,   \* bound: changes of the clipboard, or of a file it names
  MaxFailures   \* bound: runs of a clipboard program that fail

Kinds == {"file", "image", "text"}

ASSUME WatcherAssumption ==
  /\ \A it \in Items : it.kind \in Kinds /\ it.data \in Data
  /\ NoItem \notin Items
  /\ OutCap \in Nat \ {0}
  /\ Boards \subseteq SUBSET Items
  /\ \A b \in Boards : \A i, j \in b : i.kind = j.kind => i = j
  /\ MaxChanges \in Nat /\ MaxFailures \in Nat

VARIABLES
  board, lastHash, held, out,  \* see ClipFeed; lastHash is the emitter's
  alive,     \* wl-paste --watch is running
  lines,     \* the lines it has printed and Scan has not read
  changes,   \* the channel changes holds its one notification
  polling,   \* watchEvents has returned and watchPoll runs
  edited,    \* the copied file was written to after it had been copied
  pc,        \* where Watch is: waiting, or in a step of emit
  offered,   \* current's types, as far as they are still to be tried
  darwin,    \* this is a macOS machine
  changed, failures  \* how much of each bound is used up

Feed == INSTANCE ClipFeed

feed == <<board, lastHash, held, out>>

vars == <<board, lastHash, held, out, alive, lines, changes, polling, edited,
          pc, offered, changed, failures, darwin>>

(* xclip and macOS report no changes: there Watch polls from the start.    *)
Init ==
  /\ Feed!FeedInit
  /\ darwin \in BOOLEAN
  /\ polling \in {b \in BOOLEAN : darwin => b}
  /\ alive = ~polling /\ lines = 0 /\ changes = FALSE
  /\ edited = FALSE
  /\ pc = "wait"
  /\ offered = {}
  /\ changed = 0 /\ failures = 0

-----------------------------------------------------------------------------
(* wl-paste --watch and the goroutine that scans its output.               *)

(* Some program, this daemon included, sets the clipboard.                 *)
Change(new) ==
  /\ changed < MaxChanges
  /\ changed' = changed + 1
  /\ Feed!Change(new)
  /\ lines' = IF alive THEN lines + 1 ELSE lines
  /\ edited' = FALSE
  /\ UNCHANGED <<alive, changes, polling, pc, offered, failures, darwin>>

KindsOn(b) == {it.kind : it \in b}

(* Some program writes to the file that the clipboard names.  The clipboard*)
(* itself has not changed: wl-paste prints no line.                        *)
Edit(new) ==
  /\ changed < MaxChanges
  /\ "file" \in KindsOn(board)
  /\ KindsOn(new) = KindsOn(board)
  /\ \A it \in board : it.kind # "file" => it \in new
  /\ Feed!Change(new)
  /\ changed' = changed + 1
  /\ edited' = TRUE
  /\ UNCHANGED <<alive, lines, changes, polling, pc, offered, failures,
                 darwin>>

(* Mutated: a notification is dropped while emit is at work.               *)
NotifyIdle == IF pc = "wait" THEN TRUE ELSE changes

(* The channel has room for one notification; more are coalesced into it.  *)
Notify == TRUE

Scan ==
  /\ lines > 0
  /\ lines' = lines - 1
  /\ changes' = Notify
  /\ UNCHANGED <<feed, edited, alive, polling, pc, offered, changed,
                 failures, darwin>>

Die ==
  /\ alive
  /\ alive' = FALSE
  /\ UNCHANGED <<feed, edited, lines, changes, polling, pc, offered,
                 changed, failures, darwin>>

-----------------------------------------------------------------------------
(* watchEvents, Watch and watchPoll.                                       *)

(* Mutated: Watch returns with the error of watchEvents.                   *)
GiveUp ==
  /\ pc = "wait"
  /\ ~polling /\ ~alive /\ lines = 0
  /\ pc' = "ended"
  /\ UNCHANGED <<feed, edited, alive, lines, changes, polling, offered,
                 changed, failures, darwin>>

(* The scanner has come to the end: watchChanges returns its error, and    *)
(* watchPoll starts with an emitter of its own.                            *)
Fallback ==
  /\ pc = "wait"
  /\ ~polling /\ ~alive /\ lines = 0
  /\ polling' = TRUE
  /\ Feed!Reset
  /\ UNCHANGED <<edited, alive, lines, changes, pc, offered, changed,
                 failures, darwin>>

(* A notification, taken before the look it asks for, or a tick.           *)
Wake ==
  /\ pc = "wait"
  /\ ~darwin
  /\ polling \/ changes
  /\ changes' = FALSE
  /\ pc' = "types"
  /\ UNCHANGED <<feed, edited, alive, lines, polling, offered, changed,
                 failures, darwin>>

-----------------------------------------------------------------------------
(* emit, with current.                                                     *)

(* The order of the cases of current.                                      *)
Richest(K) ==
  IF "file" \in K THEN "file" ELSE IF "image" \in K THEN "image" ELSE "text"

(* listTypes; nothing on offer ends the look.                              *)
ListTypes ==
  /\ pc = "types"
  /\ offered' = KindsOn(board)
  /\ pc' = IF board = {} THEN "wait" ELSE "read"
  /\ UNCHANGED <<feed, edited, alive, lines, changes, polling, changed,
                 failures, darwin>>

(* listTypes fails, which looks like an empty clipboard.                   *)
ListFails ==
  /\ pc = "types"
  /\ failures < MaxFailures
  /\ failures' = failures + 1
  /\ pc' = "wait"
  /\ UNCHANGED <<feed, edited, alive, lines, changes, polling, offered,
                 changed, darwin>>

(* A tick on macOS: readClipboard tries every kind.                        *)
TryAll ==
  /\ pc = "wait"
  /\ darwin
  /\ offered' = Kinds
  /\ pc' = "read"
  /\ UNCHANGED <<feed, edited, alive, lines, changes, polling, changed,
                 failures, darwin>>

(* The type being tried, and what the clipboard holds of it now.           *)
Trying == Richest(offered)
Here   == {it \in board : it.kind = Trying}

(* Mutated: what was emitted last is emitted again.                        *)
ReadAny ==
  /\ pc = "read"
  /\ held = NoItem
  /\ \E it \in Here : lastHash' = Feed!Hash(it.data) /\ held' = it
  /\ pc' = "push"
  /\ offered' = {}
  /\ UNCHANGED <<edited, board, out, alive, lines, changes, polling,
                 changed, failures, darwin>>

(* readType gets what the clipboard has of this type, which is new ...     *)
ReadNew ==
  /\ pc = "read"
  /\ held = NoItem
  /\ \E it \in Here :
       /\ Feed!Hash(it.data) # lastHash
       /\ lastHash' = Feed!Hash(it.data)
       /\ held' = it
  /\ pc' = "push"
  /\ offered' = {}
  /\ UNCHANGED <<edited, board, out, alive, lines, changes, polling,
                 changed, failures, darwin>>

(* ... or has the digest of the last emit.                                 *)
ReadSame ==
  /\ pc = "read"
  /\ \E it \in Here : Feed!Hash(it.data) = lastHash
  /\ pc' = "wait"
  /\ offered' = {}
  /\ UNCHANGED <<feed, edited, alive, lines, changes, polling, changed,
                 failures, darwin>>

(* The next kind on the list is tried, or the look ends with nothing.      *)
TryNext ==
  /\ pc = "read"
  /\ offered' = offered \ {Trying}
  /\ pc' = IF offered \ {Trying} = {} THEN "wait" ELSE "read"
  /\ UNCHANGED <<feed, edited, alive, lines, changes, polling, changed,
                 darwin>>

(* The clipboard holds nothing of this kind: on macOS that is how it is    *)
(* found out, elsewhere the kind was on the list and is gone.              *)
Gone ==
  /\ TryNext
  /\ Here = {}
  /\ UNCHANGED failures

(* The program fails, or the file that is named is not readable.           *)
ReadFails ==
  /\ TryNext
  /\ Here # {}
  /\ failures < MaxFailures
  /\ failures' = failures + 1

(* No temporary file for the image: readClipboard ends with an error, and  *)
(* Watch waits for the next tick without trying the text.                  *)
NoTempFile ==
  /\ pc = "read"
  /\ darwin /\ Trying = "image"
  /\ failures < MaxFailures
  /\ failures' = failures + 1
  /\ offered' = {}
  /\ pc' = "wait"
  /\ UNCHANGED <<feed, edited, alive, lines, changes, polling, changed,
                 darwin>>

Push ==
  /\ pc = "push"
  /\ Feed!Push
  /\ pc' = "wait"
  /\ UNCHANGED <<edited, alive, lines, changes, polling, offered, changed,
                 failures, darwin>>

(* The daemon loop.                                                        *)
Take ==
  /\ Feed!Take
  /\ UNCHANGED <<edited, alive, lines, changes, polling, pc, offered,
                 changed, failures, darwin>>

-----------------------------------------------------------------------------
Watch ==
  \/ Fallback \/ Wake \/ ListTypes \/ ListFails
  \/ TryAll \/ ReadNew \/ ReadSame \/ Gone \/ ReadFails \/ NoTempFile
  \/ Push

Next ==
  \/ \E new \in Boards : Change(new) \/ Edit(new)
  \/ Scan \/ Die
  \/ Watch
  \/ Take

Spec == Init /\ [][Next]_vars

(* The scheduler runs both goroutines, and the loop goes on taking items;  *)
(* the programs have ended when their step is taken.  Nothing makes the    *)
(* clipboard change or wl-paste die.                                       *)
FairSpec == Spec /\ WF_vars(Scan) /\ WF_vars(Watch) /\ WF_vars(Take)

-----------------------------------------------------------------------------
(* Each variable keeps to its values; Watch holds an item just while it is *)
(* pushing it.                                                             *)
TypeOK ==
  /\ Feed!FeedTypeOK
  /\ board \in Boards \cup {{}}
  /\ darwin \in BOOLEAN /\ (darwin => polling)
  /\ alive \in BOOLEAN /\ changes \in BOOLEAN /\ polling \in BOOLEAN
  /\ edited \in BOOLEAN
  /\ lines \in Nat
  /\ pc \in {"wait", "types", "read", "push"}
  /\ offered \subseteq Kinds
  /\ pc = "read" => offered # {}
  /\ held # NoItem <=> pc = "push"
  /\ changed \in Nat /\ failures \in Nat

(* The digest of the last emit is that of the richest item on offer.       *)
UpToDate ==
  \A it \in board : it.kind = Richest(KindsOn(board)) => Feed!Hash(it.data) = lastHash

(* Coalescing loses no change (clipboard.go:37-39, clipboard_linux.go:272):*)
(* while wl-paste runs and no program has failed, a watcher that has       *)
(* nothing left to do has emitted what the clipboard holds, however        *)
(* changes fell between notification, list of types, read and push.  What  *)
(* is written to a file after it was copied is no change of the clipboard. *)
NoLostChange ==
  /\ ~polling /\ alive /\ failures = 0 /\ ~edited
  /\ lines = 0 /\ ~changes /\ pc = "wait"
  => UpToDate

(* The watcher never gives up (clipboard_linux.go:202-214): once the       *)
(* clipboard and the failures pause, it has emitted what the clipboard     *)
(* holds, at once or, after the death of wl-paste, by polling.  Without    *)
(* polling it misses a change whose look has failed, and what was written  *)
(* to a file after it had been copied.                                     *)
CatchesUp == <>[](polling \/ (failures = 0 /\ ~edited) => UpToDate)

(* The watcher implements what the daemon relies on.                       *)
FeedSpec == Feed!FeedSpec
=============================================================================
