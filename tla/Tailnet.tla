------------------------------ MODULE Tailnet -------------------------------
(***************************************************************************)
(* Names and addresses of machines: what package tailnet makes of the      *)
(* answer of `tailscale status', as pure operators on that answer.  Peers  *)
(* gives the names that users pick from, Resolve turns a name back into an *)
(* address, perhaps much later.  Go ranges over the peers, a map, in any   *)
(* order: where that shows, an operator gives the set of outcomes.         *)
(***************************************************************************)
EXTENDS Naturals, FiniteSets

CONSTANTS
  Ids,        \* the machines that can be in the answer
  Self,       \* the one of them that tailscale runs on
  Names,      \* host names, DNS names and their first labels
  NoName,     \* the empty one
  Addresses,  \* IPv4 addresses
  NoAddress,  \* none, or an error
  Fold,       \* per name: in lower case
  Label,      \* per name: the part before its first dot
  Literal,    \* per name: the address that it spells, or NoAddress
  Rank        \* per name: its place in the order of strings

ASSUME TailnetAssumption ==
  /\ IsFiniteSet(Ids) /\ Self \in Ids
  /\ NoName \in Names /\ NoAddress \notin Addresses
  /\ Fold \in [Names -> Names] /\ Label \in [Names -> Names]
  /\ \A n \in Names : Label[Fold[n]] = Fold[Label[n]]
  /\ Literal \in [Names -> Addresses \cup {NoAddress}]
  /\ Rank \in [Names -> Nat]

(* ip is the first IPv4 address of the node: only that one is ever used.   *)
Nodes == [host : Names, dns : Names, ip : Addresses \cup {NoAddress}]

(* Answers of tailscale: the nodes that it knows, with Self or without.    *)
IsNet(net) == \E known \in SUBSET Ids : net \in [known -> Nodes]

DisplayName(n) == IF n.host # NoName THEN n.host ELSE Label[n.dns]

(* toPeer: machines without an IPv4 address are never offered.             *)
Listed(net) == {i \in DOMAIN net : net[i].ip # NoAddress}

Entry(net, i) == [id |-> i, name |-> DisplayName(net[i])]

(* What Peers can return: every listed machine once, by name; sort.Slice   *)
(* keeps no order among equal names.                                       *)
Lists(net) ==
  {l \in [1..Cardinality(Listed(net)) -> {Entry(net, i) : i \in Listed(net)}] :
     /\ \A i, j \in DOMAIN l : i < j => Rank[l[i].name] <= Rank[l[j].name]
     /\ \A i, j \in DOMAIN l : i # j => l[i].id # l[j].id}

(* Mutated: names without a host name are not looked up by their label.    *)
MatchesInFull(n, name) ==
  Fold[n.host] = Fold[name] \/ Fold[n.dns] = Fold[name]

Matches(n, name) ==
  \/ Fold[n.host] = Fold[name]
  \/ Fold[n.dns] = Fold[name]
  \/ Label[Fold[n.dns]] = Fold[name]

(* What Resolve can return for a name, NoAddress standing for an error.    *)
Resolutions(net, name) ==
  LET found == {i \in DOMAIN net : Matches(net[i], name)} IN
  IF Literal[name] # NoAddress THEN {Literal[name]}
  ELSE IF Self \in found THEN {net[Self].ip}
  ELSE IF found = {} THEN {NoAddress}
  ELSE {net[i].ip : i \in found}

(* The entry is what the machine is still called, and no other one is.     *)
Means(net, e) ==
  /\ e.id \in Listed(net) /\ e.name = DisplayName(net[e.id])
  /\ Literal[e.name] = NoAddress
  /\ \A i \in DOMAIN net \ {e.id} : ~Matches(net[i], e.name)
=============================================================================
