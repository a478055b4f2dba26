------------------------------ MODULE Delivery ------------------------------
(***************************************************************************)
(* What a push between two machines comes to, whoever asked for it: it     *)
(* arrives at the machine it was meant for, once or not at all, and the    *)
(* one who asked is told at most once, of success only after the arrival.  *)
(* Who is told of a failure knows nothing: the push may have arrived, or   *)
(* may still do so.  Module Fleet implements this one.                     *)
(***************************************************************************)
EXTENDS Naturals

CONSTANTS Calls, Machines

VARIABLES
  asked,    \* the pushes asked for, with the machine each is for
  arrived,  \* those that have arrived, with the machine each is at
  told      \* per push: what the one who asked knows of it

deliveryVars == <<asked, arrived, told>>

Init == asked = {} /\ arrived = {} /\ told = [n \in Calls |-> "wait"]

Ask(n, m) ==
  /\ \A x \in Machines : <<n, x>> \notin asked
  /\ asked' = asked \cup {<<n, m>>}
  /\ UNCHANGED <<arrived, told>>

Arrive(n, m) ==
  /\ <<n, m>> \in asked \ arrived
  /\ told[n] # "ok"
  /\ arrived' = arrived \cup {<<n, m>>}
  /\ UNCHANGED <<asked, told>>

TellOk(n) ==
  /\ told[n] = "wait"
  /\ \E m \in Machines : <<n, m>> \in arrived
  /\ told' = [told EXCEPT ![n] = "ok"]
  /\ UNCHANGED <<asked, arrived>>

(* Several at once, when the machine they were asked of stops.             *)
TellFailed(N) ==
  /\ \A n \in N : told[n] = "wait" /\ \E m \in Machines : <<n, m>> \in asked
  /\ told' = [n \in Calls |-> IF n \in N THEN "failed" ELSE told[n]]
  /\ UNCHANGED <<asked, arrived>>

Next ==
  \/ \E n \in Calls, m \in Machines : Ask(n, m) \/ Arrive(n, m)
  \/ \E n \in Calls : TellOk(n)
  \/ \E N \in SUBSET Calls : TellFailed(N)

Spec == Init /\ [][Next]_deliveryVars
=============================================================================
