------------------------------ MODULE ClipFeed ------------------------------
(***************************************************************************)
(* What a clipboard watcher promises the daemon: the loop shared by every  *)
(* backend of internal/clipboard.  The watcher looks at the system         *)
(* clipboard, drops what has the digest it emitted last, and pushes the    *)
(* rest on the bounded Go channel that Daemon.Run reads.                   *)
(*                                                                         *)
(* The clipboard is the set of the representations its owner offers (a     *)
(* file, an image, a text); one look picks one of them.  Module Watcher    *)
(* details how the Linux backend looks, and implements this module; module *)
(* Daemon composes this one with the rest of the process.                  *)
(***************************************************************************)
EXTENDS Naturals, Sequences

CONSTANTS
  Data,     \* contents of items
  Items,    \* clipboard items: records with a field data, a member of Data
  NoItem,   \* "the watcher holds no item"
  OutCap    \* capacity of the channel out

VARIABLES
  board,     \* the system clipboard: the set of items its owner offers
  lastHash,  \* digest the watcher emitted last; NoHash for a new emitter
  held,      \* the item the watcher is blocked on pushing, or NoItem
  out        \* the channel between the watcher and the daemon loop

feedVars == <<board, lastHash, held, out>>

(* payload.Hash: a digest is a value of its own that stands for the bytes  *)
(* it was computed from (sha256 is taken to have no collisions).           *)
Hash(d) == <<"sha256", d>>
NoHash  == <<>>
Digests == {"sha256"} \X Data

FeedTypeOK ==
  /\ board \subseteq Items
  /\ lastHash \in Digests \cup {NoHash}
  /\ held \in Items \cup {NoItem}
  /\ out \in Seq(Items)
  /\ Len(out) <= OutCap

FeedInit ==
  /\ board = {}
  /\ lastHash = NoHash
  /\ held = NoItem
  /\ out = <<>>

-----------------------------------------------------------------------------
(* One look at the clipboard that finds something new.  A look that finds  *)
(* nothing, or the digest emitted last, changes nothing.                   *)
Read ==
  /\ held = NoItem
  /\ \E it \in board :
       /\ Hash(it.data) # lastHash
       /\ lastHash' = Hash(it.data)
       /\ held' = it
  /\ UNCHANGED <<board, out>>

(* Mutated: the watcher pushes without waiting for a free slot.            *)
HasRoomAlways == TRUE

HasRoom == Len(out) < OutCap

(* out <- item: blocks while the channel is full.                          *)
Push ==
  /\ held # NoItem
  /\ HasRoom
  /\ out' = Append(out, held)
  /\ held' = NoItem
  /\ UNCHANGED <<board, lastHash>>

(* A new emitter takes over: Watch falls back from change events to        *)
(* polling, and the digest emitted last is forgotten.                      *)
Reset ==
  /\ held = NoItem
  /\ lastHash' = NoHash
  /\ UNCHANGED <<board, held, out>>

(* The two ends of the watcher: some program changes the clipboard, and    *)
(* the daemon loop takes the next item.                                    *)
Change(new) ==
  /\ board' = new
  /\ UNCHANGED <<lastHash, held, out>>

Take ==
  /\ out # <<>>
  /\ out' = Tail(out)
  /\ UNCHANGED <<board, lastHash, held>>

FeedNext ==
  \/ Read \/ Push \/ Reset \/ Take
  \/ \E new \in SUBSET Items : Change(new)

FeedSpec == FeedInit /\ [][FeedNext]_feedVars
=============================================================================
