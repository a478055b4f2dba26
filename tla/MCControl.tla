------------------------------ MODULE MCControl -----------------------------
(***************************************************************************)
(* Control on small instances, and what the repository says of it that the *)
(* code does not do.                                                       *)
(***************************************************************************)
EXTENDS Control

CONSTANT desk

MCNames == {NoName, desk}

(* A first run, and a later one.                                           *)
MCFirst == {Absent}
MCLater == {[sync |-> TRUE, target |-> desk, docker |-> NoName]}
MCBoth  == MCFirst \cup MCLater

-----------------------------------------------------------------------------
(* SC-005, "the active target and on/off state survive a daemon restart":  *)
(* a daemon that starts finds a file that it can read.                     *)
RestartReads == at[Serve] = "load" => disk \notin {Empty, Torn}

(* tailnet.go:163-165, the server and the CLI both call ListenAddr "so     *)
(* they always agree".                                                     *)
AddressesAgree ==
  \A c \in Clients :
    at[c] = "ready" /\ at[Serve] = "serving" => addr = ListenAddr
=============================================================================
