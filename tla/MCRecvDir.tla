----------------------------- MODULE MCRecvDir ------------------------------
(***************************************************************************)
(* RecvDir on small instances, and what the repository says of it that the *)
(* code does not do.                                                       *)
(*                                                                         *)
(* Two names whose series of candidates overlap, as those of "a.txt" and   *)
(* "a (1).txt" do: the second name is the first one's candidate 1.         *)
(***************************************************************************)
EXTENDS RecvDir, TLC

CONSTANTS plain, suffixed

MCCand ==
  plain :> [i \in 0..MaxTry |-> <<"a", i>>] @@
  suffixed :> [i \in 0..MaxTry |-> IF i = 0 THEN <<"a", 1>> ELSE <<"a (1)", i>>]

MCPaths == {MCCand[n][i] : n \in {plain, suffixed}, i \in 0..MaxTry}

MCFirst == {<<"a", 0>>}

(* The names that a suffix makes longer than NAME_MAX.                     *)
MCTooLong == MCPaths \ MCFirst

-----------------------------------------------------------------------------
(* FR-008 and daemon.go:283-284, "an existing file is never overwritten":  *)
(* a saved file keeps its body.                                            *)
SavedIntact ==
  \A j \in Jobs : saved[j] # None => dir[saved[j]] = Body(j)

(* api.go:68-69, Receive "saves a file.  Returns the HTTP status to send": *)
(* the handler of a file gets to its answer.                               *)
ReceiveReturns == \A t \in Threads : pc[t] = "stat" ~> pc[t] # "stat"
=============================================================================
