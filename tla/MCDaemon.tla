------------------------------ MODULE MCDaemon ------------------------------
(***************************************************************************)
(* Daemon on small instances.                                              *)
(***************************************************************************)
EXTENDS Daemon, TLC

Interchangeable ==
  Permutations(Handlers) \cup Permutations(Bodies \ (Big \cup {Empty}))

(* A copy of a file, a picture or a text ...                               *)
Single(k) == {k :> d : d \in {x \in Bodies : k = "file" \/ x # Empty}}

(* ... and one that offers two kinds.                                      *)
Double(k, l) == {f @@ g : f \in Single(k), g \in Single(l)}

(* A file with a picture of it, of another content and within the limit.   *)
Previewed ==
  {f \in Double("file", "image") :
     f["file"] # f["image"] /\ \A k \in DOMAIN f : f[k] \notin Big \cup {Empty}}

PushOffers == Single("file") \cup Previewed
EchoOffers == Single("file") \cup Double("image", "text")
=============================================================================
