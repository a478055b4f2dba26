----------------------------- MODULE MCChoosing ----------------------------
(***************************************************************************)
(* Choosing on a small instance: two machines, one of which can lose its   *)
(* host name, its address, or take the name of the other one, written in   *)
(* capitals.                                                               *)
(***************************************************************************)
EXTENDS Choosing, TLC

CONSTANTS none, pi, PI, mac, piDns, macDns, piIp, macIp

MCNames == {none, pi, PI, mac, piDns, macDns}
MCFold == [n \in MCNames |-> IF n = PI THEN pi ELSE n]
MCLabel ==
  [n \in MCNames |-> CASE n = piDns -> pi [] n = macDns -> mac [] OTHER -> n]
MCLiteral == [n \in MCNames |-> NoAddress]
MCRank == none :> 0 @@ PI :> 1 @@ mac :> 2 @@ macDns :> 3 @@ pi :> 4 @@ piDns :> 5

MCForms ==
  1 :> {[host |-> PI, dns |-> piDns, ip |-> piIp]} @@
  2 :> {[host |-> mac, dns |-> macDns, ip |-> macIp],
        [host |-> none, dns |-> macDns, ip |-> macIp],
        [host |-> pi, dns |-> macDns, ip |-> macIp],
        [host |-> mac, dns |-> macDns, ip |-> NoAddress]}

MCBoxes == {<<pi>>, <<mac, pi>>}
=============================================================================
