------------------------------ MODULE MCSwallow -----------------------------
(***************************************************************************)
(* What a comment of the repository says of recentlySeen and the code does *)
(* not do: the claim is the property of a run that TLC finds violated.     *)
(***************************************************************************)
EXTENDS MCDaemon

(* The claim of the run is about what is copied after a receipt has ended: *)
(* before[d] is the number of copies the user had made by the end of the   *)
(* last receipt of the text d.                                             *)
VARIABLE before

Receiving(d) == \E h \in Handlers : pc[h] = "set" /\ job[h] = d

ClaimInit == Init /\ before = [d \in Bodies |-> 0]

ClaimNext ==
  /\ Next
  /\ before' = [d \in Bodies |-> IF Receiving(d) \/ Receiving(d)'
                                  THEN copies' ELSE before[d]]

ClaimSpec == ClaimInit /\ [][ClaimNext]_<<vars, before>>

(* daemon.go:86, "our own Set caused this fire; swallow it": a file that   *)
(* the user copies once the receipt of a text has ended, with sync on and a*)
(* target set, is no fire of that receipt, and is not swallowed for it.    *)
SwallowsOnlyItsOwn ==
  [][LocalSwallow =>
       ~ /\ Head(out).kind = "file"
         /\ Head(out).id > before[Head(out).data]
         /\ cfg.sync /\ cfg.target # NoTarget]_<<vars, before>>
=============================================================================
