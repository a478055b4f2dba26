------------------------------ MODULE Choosing ------------------------------
(***************************************************************************)
(* How a user chooses the machine that a push goes to, and what becomes of *)
(* the choice: the pickers of `clippy target' and `clippy docker' in a     *)
(* terminal, and the chips of the web page on a phone.  Both show names,   *)
(* keep a name, and have it resolved when something is sent, after the     *)
(* tailnet may have changed; the page loads its list again and again, and  *)
(* its answers come in any order.                                          *)
(*                                                                         *)
(* An entry is a name with the id of the machine it was shown for.  The    *)
(* program knows names only: ids are there to state the properties.        *)
(***************************************************************************)
EXTENDS Tailnet, Sequences

CONSTANTS
  Forms,      \* per machine: the nodes that tailscale may report for it
  Typed,      \* names that users type after `clippy target'
  Boxes,      \* lists of containers that Docker may report
  NoList,     \* an answer that has not come
  NoUpload,   \* no upload under way
  MaxLoads,   \* bound: lists of machines on their way to the page
  MaxUploads  \* bound: uploads on their way from the page

Entries == [id : Ids \cup {0}, name : Names]
NoEntry == [id |-> 0, name |-> NoName]
Uploads == [name : Names, shown : Entries]

ASSUME ChoosingAssumption ==
  /\ 0 \notin Ids
  /\ Forms \in [Ids -> SUBSET Nodes]
  /\ Typed \subseteq Names \ {NoName}
  /\ Boxes \subseteq Seq(Names \ {NoName})
  /\ NoUpload \notin Uploads /\ NoList \notin Seq(Entries)

VARIABLES
  net,       \* what tailscale reports
  setting,   \* the target and the container of the daemon, as entries
  stage,     \* of the interactive command
  what,      \* it asks for: "target" or "docker"
  list,      \* what it shows
  cursor,    \* the place of its arrow
  loads,     \* the lists on their way to the page
  chips,     \* the list on the page
  lit,       \* the chips drawn as selected
  selected,  \* selectedTarget, and the same in localStorage
  uploads    \* on their way from the page

cliVars  == <<stage, what, list, cursor>>
pageVars == <<loads, chips, lit, selected, uploads>>

vars == <<net, setting, stage, what, list, cursor, loads, chips, lit, selected,
          uploads>>

Init ==
  /\ net = [i \in {} |-> NoAddress]
  /\ setting = [w \in {"target", "docker"} |-> NoEntry]
  /\ stage = "off" /\ what = "target" /\ list = <<>> /\ cursor = 1
  /\ loads = [k \in 1..MaxLoads |-> NoList]
  /\ chips = <<>> /\ lit = {} /\ selected = NoName
  /\ uploads = [u \in 1..MaxUploads |-> NoUpload]

-----------------------------------------------------------------------------
(* The tailnet: a machine joins, leaves, is renamed, or gets or loses its  *)
(* address.                                                                *)

Changes(i) ==
  /\ \/ \E n \in Forms[i] :
          net' = [j \in DOMAIN net \cup {i} |-> IF j = i THEN n ELSE net[j]]
     \/ net' = [j \in DOMAIN net \ {i} |-> net[j]]
  /\ UNCHANGED <<setting, cliVars, pageVars>>

(* Bound: the terminal is used while the page is closed, and the page while*)
(* no command runs.  The two share the tailnet and the daemon only.        *)
PageClosed ==
  /\ chips = <<>>
  /\ \A k \in 1..MaxLoads : loads[k] = NoList
  /\ \A u \in 1..MaxUploads : uploads[u] = NoUpload

-----------------------------------------------------------------------------
(* The terminal.                                                           *)

(* `clippy target NAME', in any terminal at any time.                      *)
CliTarget(n) ==
  /\ setting' = [setting EXCEPT !["target"] = [id |-> 0, name |-> n]]
  /\ UNCHANGED <<net, cliVars, pageVars>>

(* What the command asks the daemon for first.                             *)
Offers(w) ==
  IF w = "target" THEN Lists(net)
  ELSE {[i \in DOMAIN b |-> [id |-> 0, name |-> b[i]]] : b \in Boxes}

CliLists(w) ==
  /\ stage = "off" /\ PageClosed
  /\ \E l \in Offers(w) : Len(l) > 0 /\ list' = l
  /\ stage' = "status" /\ what' = w
  /\ UNCHANGED <<net, setting, cursor, pageVars>>

(* The arrow starts on the last entry with the name that is set now, if    *)
(* there is one.                                                           *)
Starts(l, current) ==
  LET at == {i \in DOMAIN l : l[i].name = current} IN
  IF at = {} THEN {1} ELSE {i \in at : \A j \in at : j <= i}

(* An error of this request counts as no name.                             *)
CliStatus ==
  /\ stage = "status" /\ stage' = "choose"
  /\ \E current \in {setting[what].name, NoName} : cursor' \in Starts(list, current)
  /\ UNCHANGED <<net, setting, what, list, pageVars>>

(* Mutated: the list is taken to have one entry more.                      *)
BelowTooFar == cursor <= Len(list)

Below == cursor < Len(list)

Up ==
  /\ stage = "choose" /\ cursor > 1 /\ cursor' = cursor - 1
  /\ UNCHANGED <<net, setting, stage, what, list, pageVars>>

Down ==
  /\ stage = "choose" /\ Below /\ cursor' = cursor + 1
  /\ UNCHANGED <<net, setting, stage, what, list, pageVars>>

Enter ==
  /\ stage = "choose" /\ list[cursor].name # NoName
  /\ stage' = "post"
  /\ UNCHANGED <<net, setting, what, list, cursor, pageVars>>

(* The process of the command ends.                                        *)
Exits == stage' = "off" /\ what' = "target" /\ list' = <<>> /\ cursor' = 1

CliSets ==
  /\ stage = "post"
  /\ setting' = [setting EXCEPT ![what] = list[cursor]]
  /\ Exits
  /\ UNCHANGED <<net, pageVars>>

(* Escape, an entry without a name, or a request that fails.               *)
CliEnds ==
  /\ stage \in {"choose", "post"}
  /\ Exits
  /\ UNCHANGED <<net, setting, pageVars>>

-----------------------------------------------------------------------------
(* The page.                                                               *)

(* Opened again, with the stored name, or for the first time on a phone.   *)
(* The lists for the old page go nowhere, what it has sent goes on.        *)
Opens ==
  /\ chips' = <<>> /\ lit' = {} /\ selected' \in {selected, NoName}
  /\ loads' = [k \in 1..MaxLoads |-> NoList]
  /\ UNCHANGED <<net, setting, cliVars, uploads>>

(* The daemon makes a list for loadPeers, called once at least.            *)
Loads(k) ==
  /\ loads[k] = NoList /\ stage = "off"
  /\ \E l \in Lists(net) : loads' = [loads EXCEPT ![k] = l]
  /\ UNCHANGED <<net, setting, cliVars, chips, lit, selected, uploads>>

(* selectTarget: every chip of that name is lit, and no other.             *)
Select(l, name) ==
  /\ selected' = name
  /\ lit' = {i \in DOMAIN l : l[i].name = name}

(* Mutated: a selected machine that is not there any more stays selected.  *)
KeptAlways(l) == IF selected # NoName \/ Len(l) = 0 THEN selected ELSE l[1].name

(* What loadPeers selects in a new list.                                   *)
Kept(l) ==
  IF selected # NoName /\ \E i \in DOMAIN l : l[i].name = selected
  THEN selected ELSE l[1].name

(* The answer to a call of loadPeers, of which there can be several.  When *)
(* it is empty, nothing else is selected.                                  *)
Shows(k) ==
  LET l == loads[k] IN
  /\ l # NoList
  /\ loads' = [loads EXCEPT ![k] = NoList]
  /\ chips' = l
  /\ IF Len(l) = 0 THEN lit' = {} /\ UNCHANGED selected ELSE Select(l, Kept(l))
  /\ UNCHANGED <<net, setting, cliVars, uploads>>

Click(i) ==
  /\ Select(chips, chips[i].name)
  /\ UNCHANGED <<net, setting, cliVars, loads, chips, uploads>>

(* doSend: the user sends to a chip that is lit, if there are chips.       *)
Upload(u) ==
  /\ uploads[u] = NoUpload /\ selected # NoName
  /\ \E e \in IF lit = {} THEN {[id |-> 0, name |-> selected]}
             ELSE {chips[i] : i \in lit} :
       uploads' = [uploads EXCEPT ![u] = [name |-> selected, shown |-> e]]
  /\ UNCHANGED <<net, setting, cliVars, loads, chips, lit, selected>>

(* Relay resolves the name, when it gets there; see PickedIsReached.       *)
Relays(u) ==
  /\ uploads[u] # NoUpload
  /\ uploads' = [uploads EXCEPT ![u] = NoUpload]
  /\ UNCHANGED <<net, setting, cliVars, loads, chips, lit, selected>>

-----------------------------------------------------------------------------
Terminal ==
  \/ \E n \in Typed : CliTarget(n)
  \/ \E w \in {"target", "docker"} : CliLists(w)
  \/ CliStatus \/ Up \/ Down \/ Enter \/ CliSets \/ CliEnds

Page ==
  \/ Opens
  \/ \E k \in 1..MaxLoads : Loads(k) \/ Shows(k)
  \/ \E i \in DOMAIN chips : Click(i)
  \/ \E u \in 1..MaxUploads : Upload(u) \/ Relays(u)

Next == (\E i \in Ids : Changes(i)) \/ Terminal \/ Page

Spec == Init /\ [][Next]_vars

-----------------------------------------------------------------------------
(* Each variable keeps to its values, and the arrow is on an entry of the  *)
(* list: Update indexes the list with it (picker.go:50).                   *)
TypeOK ==
  /\ IsNet(net)
  /\ setting \in [{"target", "docker"} -> Entries]
  /\ stage \in {"off", "status", "choose", "post"}
  /\ what \in {"target", "docker"}
  /\ list \in Seq(Entries)
  /\ stage \in {"choose", "post"} => cursor \in DOMAIN list
  /\ loads \in [1..MaxLoads -> Seq(Entries) \cup {NoList}]
  /\ chips \in Seq(Entries) /\ lit \subseteq DOMAIN chips
  /\ selected \in Names
  /\ uploads \in [1..MaxUploads -> Uploads \cup {NoUpload}]

(* Whatever order lists and clicks come in, a page that shows machines has *)
(* at least one of them lit, and what is lit is what uploads go to         *)
(* (index.html, selectTarget and loadPeers).                               *)
LitIsSelected ==
  chips # <<>> =>
    lit # {} /\ lit = {i \in DOMAIN chips : chips[i].name = selected}

(* What can be sent: by the daemon, to its target, or for the page.        *)
Outgoing ==
  {[name |-> setting["target"].name, shown |-> setting["target"]]}
    \cup {uploads[u] : u \in 1..MaxUploads}

(* A push goes to the machine that the user was shown, however long ago and*)
(* whatever has changed since, as long as that machine still has the name  *)
(* he was shown and no other machine answers to it (tailnet.go:127).       *)
PickedIsReached ==
  \A p \in Outgoing \ {NoUpload} : Means(net, p.shown) =>
    Resolutions(net, p.name) = {net[p.shown.id].ip}
=============================================================================
