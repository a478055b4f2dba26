--------------------------- MODULE ChoosingProofs ---------------------------
(***************************************************************************)
(* What Choosing promises, for any tailnet, names, lists and bounds.       *)
(***************************************************************************)
EXTENDS Choosing, FiniteSetTheorems, TLAPS

(* Peers and Resolve, which have no code in common, agree on names: what   *)
(* the one shows for a machine the other finds, for host names and DNS     *)
(* names in any case, if no other machine answers to it.                   *)
LEMMA ShownIsFound ==
  ASSUME NEW f, IsNet(f), NEW e \in Entries, Means(f, e)
  PROVE  Resolutions(f, e.name) = {f[e.id].ip}
<1>1. /\ e.id \in DOMAIN f /\ e.name = DisplayName(f[e.id])
      /\ Literal[e.name] = NoAddress
      /\ \A i \in DOMAIN f \ {e.id} : ~Matches(f[i], e.name)
  BY DEF Means, Listed
<1>2. f[e.id].host \in Names /\ f[e.id].dns \in Names
  BY <1>1 DEF IsNet, Nodes
<1>3. Matches(f[e.id], e.name)
  BY <1>1, <1>2, TailnetAssumption DEF DisplayName, Matches
<1>4. {i \in DOMAIN f : Matches(f[i], e.name)} = {e.id}
  BY <1>1, <1>3
<1>5. QED
  BY <1>1, <1>4 DEF Resolutions

LEMMA ListsAreEntries ==
  ASSUME NEW f, IsNet(f), NEW l \in Lists(f)
  PROVE  l \in Seq(Entries)
<1>1. Listed(f) \subseteq Ids
  BY DEF IsNet, Listed
<1>2. Cardinality(Listed(f)) \in Nat
  BY <1>1, TailnetAssumption, FS_Subset, FS_CardinalityType
<1>3. \A i \in Listed(f) : Entry(f, i) \in Entries
  <2>1. ASSUME NEW i \in Listed(f) PROVE Entry(f, i) \in Entries
    <3>1. f[i].host \in Names /\ f[i].dns \in Names /\ i \in Ids
      BY <1>1 DEF IsNet, Listed, Nodes
    <3>2. DisplayName(f[i]) \in Names
      BY <3>1, TailnetAssumption DEF DisplayName
    <3>3. QED
      BY <3>1, <3>2 DEF Entry, Entries
  <2>2. QED
    BY <2>1
<1>4. l \in [1..Cardinality(Listed(f)) -> {Entry(f, i) : i \in Listed(f)}]
  BY DEF Lists
<1>5. l \in [1..Cardinality(Listed(f)) -> Entries]
  BY <1>3, <1>4
<1>6. QED
  BY <1>2, <1>5

-----------------------------------------------------------------------------
(* A command that runs has a list to choose from.                          *)
SomeList == stage # "off" => Len(list) > 0

(* An upload has the name that was on the chip.                            *)
AsShown ==
  \A u \in 1..MaxUploads : uploads[u] # NoUpload =>
    uploads[u].name = uploads[u].shown.name

ChoosingInv == TypeOK /\ SomeList /\ LitIsSelected /\ AsShown

LEMMA Selecting ==
  ASSUME NEW l \in Seq(Entries), NEW name, Select(l, name), chips' = l,
         \E i \in DOMAIN l : l[i].name = name
  PROVE  /\ selected' \in Names /\ lit' \subseteq DOMAIN chips'
         /\ LitIsSelected'
<1>1. \A i \in DOMAIN l : l[i].name \in Names
  <2>1. \A i \in DOMAIN l : l[i] \in Entries
    OBVIOUS
  <2>2. \A e \in Entries : e.name \in Names
    BY DEF Entries
  <2>3. QED
    BY <2>1, <2>2
<1>2. selected' = name /\ lit' = {i \in DOMAIN l : l[i].name = name}
  BY DEF Select
<1>3. QED
  BY <1>1, <1>2 DEF LitIsSelected

LEMMA ChoosingNext == ChoosingInv /\ [Next]_vars => ChoosingInv'
<1> SUFFICES ASSUME ChoosingInv, [Next]_vars PROVE ChoosingInv'
  OBVIOUS
<1>t. NoEntry \in Entries /\ \A n \in Names : [id |-> 0, name |-> n] \in Entries
  BY TailnetAssumption DEF NoEntry, Entries
<1>1. ASSUME NEW i \in Ids, Changes(i) PROVE ChoosingInv'
  <2>1. IsNet(net)'
    <3>1. PICK known \in SUBSET Ids : net \in [known -> Nodes]
      BY DEF ChoosingInv, TypeOK, IsNet
    <3>2. CASE \E n \in Forms[i] :
                 net' = [j \in DOMAIN net \cup {i} |-> IF j = i THEN n ELSE net[j]]
      <4>1. PICK n \in Forms[i] :
              net' = [j \in DOMAIN net \cup {i} |-> IF j = i THEN n ELSE net[j]]
        BY <3>2
      <4>2. n \in Nodes
        BY ChoosingAssumption
      <4>3. net' \in [known \cup {i} -> Nodes]
        BY <3>1, <4>1, <4>2
      <4>4. known \cup {i} \in SUBSET Ids
        BY <3>1
      <4>5. QED
        BY <4>3, <4>4 DEF IsNet
    <3>3. CASE net' = [j \in DOMAIN net \ {i} |-> net[j]]
      <4>1. net' \in [known \ {i} -> Nodes]
        BY <3>1, <3>3
      <4>2. known \ {i} \in SUBSET Ids
        BY <3>1
      <4>3. QED
        BY <4>1, <4>2 DEF IsNet
    <3>4. QED
      BY <1>1, <3>2, <3>3 DEF Changes
  <2>2. UNCHANGED <<setting, cliVars, pageVars>>
    BY <1>1 DEF Changes
  <2>3. QED
    BY <2>1, <2>2 DEF ChoosingInv, TypeOK, SomeList, LitIsSelected, AsShown,
       cliVars, pageVars
<1>2. ASSUME NEW n \in Typed, CliTarget(n) PROVE ChoosingInv'
  <2>1. setting' \in [{"target", "docker"} -> Entries]
    BY <1>2, <1>t, ChoosingAssumption DEF CliTarget, ChoosingInv, TypeOK
  <2>2. UNCHANGED <<net, cliVars, pageVars>>
    BY <1>2 DEF CliTarget
  <2>3. QED
    BY <2>1, <2>2 DEF ChoosingInv, TypeOK, SomeList, LitIsSelected, AsShown,
       cliVars, pageVars
<1>3. ASSUME NEW w \in {"target", "docker"}, CliLists(w) PROVE ChoosingInv'
  <2>1. PICK l \in Offers(w) : Len(l) > 0 /\ list' = l
    BY <1>3 DEF CliLists
  <2>2. l \in Seq(Entries)
    <3>1. CASE w = "target"
      BY <2>1, <3>1, ListsAreEntries DEF Offers, ChoosingInv, TypeOK
    <3>2. CASE w = "docker"
      <4>1. PICK b \in Boxes : l = [i \in DOMAIN b |-> [id |-> 0, name |-> b[i]]]
        BY <2>1, <3>2 DEF Offers
      <4>2. b \in Seq(Names)
        <5>1. b \in Seq(Names \ {NoName})
          BY ChoosingAssumption
        <5>2. QED
          BY <5>1
      <4>3. \A i \in DOMAIN b : [id |-> 0, name |-> b[i]] \in Entries
        BY <4>2, <1>t
      <4>4. DOMAIN b = 1..Len(b) /\ Len(b) \in Nat
        BY <4>2
      <4>5. l \in [1..Len(b) -> Entries]
        BY <4>1, <4>3, <4>4
      <4>6. QED
        BY <4>4, <4>5
    <3>3. QED
      BY <3>1, <3>2
  <2>3. UNCHANGED <<net, setting, cursor, pageVars>>
        /\ stage' = "status" /\ what' = w
    BY <1>3 DEF CliLists
  <2>4. QED
    BY <2>1, <2>2, <2>3 DEF ChoosingInv, TypeOK, SomeList, LitIsSelected,
       AsShown, pageVars
<1>4. CASE CliStatus
  <2>1. PICK current \in {setting[what].name, NoName} :
          cursor' \in Starts(list, current)
    BY <1>4 DEF CliStatus
  <2>2. stage = "status" /\ Len(list) > 0 /\ list \in Seq(Entries)
    BY <1>4 DEF CliStatus, ChoosingInv, SomeList, TypeOK
  <2>3. 1 \in DOMAIN list
    BY <2>2
  <2>4. cursor' \in DOMAIN list
    BY <2>1, <2>3 DEF Starts
  <2>5. UNCHANGED <<net, setting, what, list, pageVars>> /\ stage' = "choose"
    BY <1>4 DEF CliStatus
  <2>6. QED
    BY <2>2, <2>4, <2>5 DEF ChoosingInv, TypeOK, SomeList, LitIsSelected,
       AsShown, pageVars
<1>5. CASE Up \/ Down
  <2>1. stage = "choose" /\ cursor \in DOMAIN list /\ list \in Seq(Entries)
    BY <1>5 DEF Up, Down, ChoosingInv, TypeOK
  <2>2. cursor' \in DOMAIN list
    BY <1>5, <2>1 DEF Up, Down, Below
  <2>3. UNCHANGED <<net, setting, stage, what, list, pageVars>>
    BY <1>5 DEF Up, Down
  <2>4. QED
    BY <2>2, <2>3 DEF ChoosingInv, TypeOK, SomeList, LitIsSelected, AsShown,
       pageVars
<1>6. CASE Enter
  BY <1>6 DEF Enter, ChoosingInv, TypeOK, SomeList, LitIsSelected, AsShown,
     pageVars
<1>7. CASE CliSets \/ CliEnds
  <2>1. /\ stage' = "off" /\ what' = "target" /\ list' = <<>> /\ cursor' = 1
        /\ UNCHANGED <<net, pageVars>>
    BY <1>7 DEF CliSets, CliEnds, Exits
  <2>2. setting' \in [{"target", "docker"} -> Entries]
    <3>1. CASE CliSets
      <4>1. list[cursor] \in Entries
        BY <3>1 DEF CliSets, ChoosingInv, TypeOK
      <4>2. QED
        BY <3>1, <4>1 DEF CliSets, ChoosingInv, TypeOK
    <3>2. CASE CliEnds
      BY <3>2 DEF CliEnds, ChoosingInv, TypeOK
    <3>3. QED
      BY <1>7, <3>1, <3>2
  <2>3. QED
    BY <2>1, <2>2 DEF ChoosingInv, TypeOK, SomeList, LitIsSelected, AsShown,
       pageVars
<1>8. CASE Opens
  <2>1. /\ chips' = <<>> /\ lit' = {} /\ selected' \in Names
        /\ loads' \in [1..MaxLoads -> Seq(Entries) \cup {NoList}]
        /\ UNCHANGED <<net, setting, cliVars, uploads>>
    BY <1>8, TailnetAssumption DEF Opens, ChoosingInv, TypeOK
  <2>2. QED
    BY <2>1 DEF ChoosingInv, TypeOK, SomeList, LitIsSelected, AsShown, cliVars
<1>9. ASSUME NEW k \in 1..MaxLoads, Loads(k) PROVE ChoosingInv'
  <2>1. PICK l \in Lists(net) : loads' = [loads EXCEPT ![k] = l]
    BY <1>9 DEF Loads
  <2>2. l \in Seq(Entries)
    BY ListsAreEntries DEF ChoosingInv, TypeOK
  <2>3. loads' \in [1..MaxLoads -> Seq(Entries) \cup {NoList}]
    BY <2>1, <2>2 DEF ChoosingInv, TypeOK
  <2>4. UNCHANGED <<net, setting, cliVars, chips, lit, selected, uploads>>
    BY <1>9 DEF Loads
  <2>5. QED
    BY <2>3, <2>4 DEF ChoosingInv, TypeOK, SomeList, LitIsSelected, AsShown,
       cliVars
<1>10. ASSUME NEW k \in 1..MaxLoads, Shows(k) PROVE ChoosingInv'
  <2>1. loads[k] \in Seq(Entries) /\ chips' = loads[k]
    BY <1>10 DEF Shows, ChoosingInv, TypeOK
  <2>2. loads' \in [1..MaxLoads -> Seq(Entries) \cup {NoList}]
    BY <1>10 DEF Shows, ChoosingInv, TypeOK
  <2>3. UNCHANGED <<net, setting, cliVars, uploads>>
    BY <1>10 DEF Shows
  <2>4. selected' \in Names /\ lit' \subseteq DOMAIN chips' /\ LitIsSelected'
    <3>1. CASE Len(loads[k]) = 0
      <4>1. chips' = <<>> /\ lit' = {} /\ selected' = selected
        BY <1>10, <2>1, <3>1 DEF Shows
      <4>2. QED
        BY <4>1 DEF LitIsSelected, ChoosingInv, TypeOK
    <3>2. CASE Len(loads[k]) # 0
      <4>1. Select(loads[k], Kept(loads[k]))
        BY <1>10, <3>2 DEF Shows
      <4>2. 1 \in DOMAIN loads[k]
        BY <2>1, <3>2
      <4>3. \E i \in DOMAIN loads[k] : loads[k][i].name = Kept(loads[k])
        BY <4>2 DEF Kept
      <4>4. QED
        BY <2>1, <4>1, <4>3, Selecting
    <3>3. QED
      BY <3>1, <3>2
  <2>5. QED
    BY <2>1, <2>2, <2>3, <2>4 DEF ChoosingInv, TypeOK, SomeList, AsShown, cliVars
<1>11. ASSUME NEW i \in DOMAIN chips, Click(i) PROVE ChoosingInv'
  <2>1. UNCHANGED <<net, setting, cliVars, loads, chips, uploads>>
        /\ Select(chips, chips[i].name) /\ chips \in Seq(Entries)
    BY <1>11 DEF Click, ChoosingInv, TypeOK
  <2>2. selected' \in Names /\ lit' \subseteq DOMAIN chips' /\ LitIsSelected'
    BY <2>1, Selecting
  <2>3. QED
    BY <2>1, <2>2 DEF ChoosingInv, TypeOK, SomeList, AsShown, cliVars
<1>12. ASSUME NEW u \in 1..MaxUploads, Upload(u) PROVE ChoosingInv'
  <2>1. PICK e \in IF lit = {} THEN {[id |-> 0, name |-> selected]}
                   ELSE {chips[i] : i \in lit} :
          uploads' = [uploads EXCEPT ![u] = [name |-> selected, shown |-> e]]
    BY <1>12 DEF Upload
  <2>2. e \in Entries /\ e.name = selected
    <3>1. CASE lit = {}
      BY <2>1, <3>1, <1>t DEF ChoosingInv, TypeOK
    <3>2. CASE lit # {}
      <4>1. PICK i \in lit : e = chips[i]
        BY <2>1, <3>2
      <4>2. i \in DOMAIN chips /\ chips \in Seq(Entries) /\ chips # <<>>
        BY DEF ChoosingInv, TypeOK
      <4>3. chips[i].name = selected
        BY <4>2 DEF ChoosingInv, LitIsSelected
      <4>4. QED
        BY <4>1, <4>2, <4>3
    <3>3. QED
      BY <3>1, <3>2
  <2>3. [name |-> selected, shown |-> e] \in Uploads
    BY <2>2 DEF Uploads, ChoosingInv, TypeOK
  <2>4. uploads' \in [1..MaxUploads -> Uploads \cup {NoUpload}]
    BY <2>1, <2>3 DEF ChoosingInv, TypeOK
  <2>5. AsShown'
    BY <2>1, <2>2 DEF ChoosingInv, TypeOK, AsShown
  <2>6. UNCHANGED <<net, setting, cliVars, loads, chips, lit, selected>>
    BY <1>12 DEF Upload
  <2>7. QED
    BY <2>4, <2>5, <2>6 DEF ChoosingInv, TypeOK, SomeList, LitIsSelected, cliVars
<1>13. ASSUME NEW u \in 1..MaxUploads, Relays(u) PROVE ChoosingInv'
  <2>1. /\ uploads' \in [1..MaxUploads -> Uploads \cup {NoUpload}]
        /\ AsShown'
    BY <1>13 DEF Relays, ChoosingInv, TypeOK, AsShown
  <2>2. UNCHANGED <<net, setting, cliVars, loads, chips, lit, selected>>
    BY <1>13 DEF Relays
  <2>3. QED
    BY <2>1, <2>2 DEF ChoosingInv, TypeOK, SomeList, LitIsSelected, cliVars
<1>14. CASE UNCHANGED vars
  BY <1>14 DEF vars, ChoosingInv, TypeOK, SomeList, LitIsSelected, AsShown
<1>15. QED
  BY <1>1, <1>2, <1>3, <1>4, <1>5, <1>6, <1>7, <1>8, <1>9, <1>10, <1>11, <1>12,
     <1>13, <1>14 DEF Next, Terminal, Page

LEMMA ChoosingAlways == Spec => []ChoosingInv
<1>1. Init => ChoosingInv
  <2> SUFFICES ASSUME Init PROVE ChoosingInv
    OBVIOUS
  <2>1. net \in [{} -> Nodes]
    BY DEF Init
  <2>2. IsNet(net)
    BY <2>1 DEF IsNet
  <2>3. NoEntry \in Entries
    BY TailnetAssumption DEF NoEntry, Entries
  <2>4. QED
    BY <2>2, <2>3, TailnetAssumption
       DEF Init, ChoosingInv, TypeOK, SomeList, LitIsSelected, AsShown
<1>2. QED
  BY <1>1, ChoosingNext, PTL DEF Spec

(* The values of the variables; the arrow of the picker is on an entry     *)
(* whenever a key is read (picker.go:36-56).                               *)
THEOREM ChoosingTyped == Spec => []TypeOK
<1>1. ChoosingInv => TypeOK
  BY DEF ChoosingInv
<1>2. QED
  BY <1>1, ChoosingAlways, PTL

(* The page sends to what it shows as selected, in whatever order its      *)
(* lists and the clicks come (index.html, loadPeers and selectTarget).     *)
THEOREM PageShowsItsTarget == Spec => []LitIsSelected
<1>1. ChoosingInv => LitIsSelected
  BY DEF ChoosingInv
<1>2. QED
  BY <1>1, ChoosingAlways, PTL

(* A name that was picked in the terminal or on the page is resolved to    *)
(* the machine it was shown for, whatever has happened to the tailnet, as  *)
(* long as it means that machine and no other (tailnet.go:94-161).         *)
THEOREM PicksAreReached == Spec => []PickedIsReached
<1>1. ChoosingInv => PickedIsReached
  <2> SUFFICES ASSUME ChoosingInv, NEW p \in Outgoing \ {NoUpload},
                      Means(net, p.shown)
               PROVE  Resolutions(net, p.name) = {net[p.shown.id].ip}
    BY DEF PickedIsReached
  <2>1. p.shown \in Entries /\ p.name = p.shown.name
    <3>1. CASE p = [name |-> setting["target"].name, shown |-> setting["target"]]
      BY <3>1 DEF ChoosingInv, TypeOK
    <3>2. CASE \E u \in 1..MaxUploads : p = uploads[u]
      <4>1. PICK u \in 1..MaxUploads : p = uploads[u]
        BY <3>2
      <4>2. p \in Uploads
        BY <4>1 DEF ChoosingInv, TypeOK
      <4>3. QED
        BY <4>1, <4>2 DEF Uploads, ChoosingInv, AsShown
    <3>3. QED
      BY <3>1, <3>2 DEF Outgoing
  <2>2. IsNet(net)
    BY DEF ChoosingInv, TypeOK
  <2>3. QED
    BY <2>1, <2>2, ShownIsFound
<1>2. QED
  BY <1>1, ChoosingAlways, PTL
=============================================================================
