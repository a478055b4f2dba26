------------------------------ MODULE MCWatcher -----------------------------
(***************************************************************************)
(* Watcher on small instances.                                             *)
(***************************************************************************)
EXTENDS Watcher, TLC

CONSTANTS a, b

MCData == {a, b}

MCItems == [kind : Kinds, data : MCData]

(* One text, or a file or an image with the text that goes with it.        *)
MCBoards ==
  {{[kind |-> "text", data |-> d]} : d \in MCData} \cup
  {{[kind |-> "image", data |-> d]} : d \in MCData} \cup
  {{[kind |-> k, data |-> d], [kind |-> "text", data |-> b]} :
     k \in {"file", "image"}, d \in MCData}
=============================================================================
