------------------------------- MODULE MCFleet ------------------------------
(***************************************************************************)
(* Fleet on a small instance.                                              *)
(***************************************************************************)
EXTENDS Fleet, TLC

CONSTANTS A, B, a, b, huge

MCMachines == {A, B}
MCUsers    == {A}
MCHosts    == {B}

(* A pushes to B, and B to A and to itself.                                *)
MCPeers == (A :> {B}) @@ (B :> {A, B})
MCContents == {a, b, huge}
MCBig      == {huge}

(* A file that is edited while its copy lies on the clipboard.             *)
MCCopied   == <<{a, b}>>
MCUploads  == {<<"text", a>>, <<"text", huge>>}
=============================================================================
