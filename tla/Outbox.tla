------------------------------- MODULE Outbox -------------------------------
(***************************************************************************)
(* What a daemon promises the machine it pushes to, without the clipboard, *)
(* the channel, the saving of images and the settings it takes to keep the *)
(* promise: it tries the copies of its user one at a time, never an older  *)
(* one after a newer one, and never a content again that was acknowledged  *)
(* last.  A copy may be left out, and it may be tried several times, with  *)
(* the contents it has as different kinds and at different times.  Daemon  *)
(* implements this module, and every machine of Fleet does.                *)
(***************************************************************************)
EXTENDS Naturals, Sequences

CONSTANTS
  Contents,  \* digests of the contents that may be pushed
  Targets,   \* the machines a push can go to
  NoPush     \* no push is under way

VARIABLES
  copies,    \* copies the user has made: they are numbered from 1
  tried,     \* the copy tried last by this run of the process, or 0
  trying,    \* the push under way, or NoPush
  log,       \* the pushes that were acknowledged, in order
  run        \* the number of the run

outboxVars == <<copies, tried, trying, log, run>>

Init == copies = 0 /\ tried = 0 /\ trying = NoPush /\ log = <<>> /\ run = 0

Copy ==
  /\ copies' = copies + 1
  /\ UNCHANGED <<tried, trying, log, run>>

(* The push acknowledged last in this run allows a push of this content.   *)
Allows(hash) ==
  log # <<>> /\ log[Len(log)].run = run => log[Len(log)].hash # hash

Begin(id, hash, to) ==
  /\ trying = NoPush
  /\ tried <= id /\ Allows(hash)
  /\ trying' = [id |-> id, hash |-> hash, to |-> to, run |-> run]
  /\ tried' = id
  /\ UNCHANGED <<copies, log, run>>

Ack ==
  /\ trying # NoPush
  /\ log' = Append(log, trying)
  /\ trying' = NoPush
  /\ UNCHANGED <<copies, tried, run>>

Fail ==
  /\ trying # NoPush
  /\ trying' = NoPush
  /\ UNCHANGED <<copies, tried, log, run>>

Restart ==
  /\ run' = run + 1
  /\ tried' = 0 /\ trying' = NoPush
  /\ UNCHANGED <<copies, log>>

Next ==
  \/ Copy \/ Ack \/ Fail \/ Restart
  \/ \E id \in 1..copies, hash \in Contents, to \in Targets :
       Begin(id, hash, to)

Spec == Init /\ [][Next]_outboxVars
=============================================================================
