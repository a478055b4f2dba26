---------------------------- MODULE PromiseProofs ----------------------------
(***************************************************************************)
(* What the abstract specifications promise: ClipFeed of a watcher, Outbox *)
(* of a daemon, Delivery of the network.  What is proved of them here holds*)
(* of everything that implements them: the watchers of Linux and macOS     *)
(* (WatcherProofs), a daemon and each machine of Fleet (OutboxProofs,      *)
(* FleetProofs), the whole of Fleet (FleetProofs).                         *)
(***************************************************************************)
EXTENDS Naturals, Sequences, TLAPS

CONSTANTS
  Data, Items, NoItem, OutCap,   \* of ClipFeed
  Contents, Targets, NoPush,     \* of Outbox
  Calls, Machines                \* of Delivery

VARIABLES
  board, lastHash, held, out,
  copies, tried, trying, log, run,
  asked, arrived, told

Feed == INSTANCE ClipFeed
Box  == INSTANCE Outbox
Mail == INSTANCE Delivery

-----------------------------------------------------------------------------
(* Outbox.                                                                 *)

Pushes == [id : Nat, hash : Contents, to : Targets, run : Nat]

(* What a target gets from one life of the process: copies that were made, *)
(* never an older one after a newer one, never the same content twice in a *)
(* row.                                                                    *)
InOrder ==
  \A m, n \in 1..Len(log) :
    m < n /\ log[m].run = log[n].run => log[m].id <= log[n].id

NoneTwice ==
  \A n \in 1..(Len(log) - 1) :
    log[n].run = log[n + 1].run => log[n].hash # log[n + 1].hash

OnlyCopies == \A n \in 1..Len(log) : log[n] \in Pushes /\ log[n].id \in 1..copies

(* The log ends with what this run has tried, the runs of before lie       *)
(* behind, and a push under way is allowed.                                *)
TriedInv ==
  /\ \A n \in 1..Len(log) :
       log[n].run <= run /\ (log[n].run = run => log[n].id <= tried)
  /\ trying # NoPush => /\ trying \in Pushes /\ trying.run = run
                        /\ trying.id \in 1..copies /\ trying.id = tried
                        /\ Box!Allows(trying.hash)

BoxInv ==
  /\ copies \in Nat /\ run \in Nat /\ tried \in Nat /\ log \in Seq(Pushes)
  /\ InOrder /\ NoneTwice /\ OnlyCopies /\ TriedInv

LEMMA BoxNext ==
  ASSUME BoxInv, [Box!Next]_(Box!outboxVars)
  PROVE  BoxInv'
<1> USE DEF BoxInv
<1>1. CASE Box!Copy
  <2>1. copies' = copies + 1 /\ UNCHANGED <<tried, trying, log, run>>
    BY <1>1 DEF Box!Copy
  <2>2. 1..copies \subseteq 1..copies'
    BY <2>1
  <2>3. InOrder' /\ NoneTwice'
    BY <2>1 DEF InOrder, NoneTwice
  <2>4. OnlyCopies'
    BY <2>1, <2>2 DEF OnlyCopies
  <2>5. TriedInv'
    BY <2>1, <2>2 DEF TriedInv, Box!Allows
  <2>6. QED
    BY <2>1, <2>3, <2>4, <2>5
<1>2. CASE Box!Ack
  <2>1. /\ trying \in Pushes /\ trying.run = run /\ trying.id \in 1..copies
        /\ trying.id = tried /\ Box!Allows(trying.hash)
        /\ log' = Append(log, trying) /\ trying' = NoPush
        /\ UNCHANGED <<copies, run, tried>>
    BY <1>2 DEF Box!Ack, TriedInv
  <2>2. /\ Len(log') = Len(log) + 1 /\ Len(log) \in Nat
        /\ log' \in Seq(Pushes)
        /\ \A n \in 1..Len(log') :
             log'[n] = IF n = Len(log) + 1 THEN trying ELSE log[n]
    BY <2>1
  <2>3. \A n \in 1..Len(log) : log[n].run = run =>
          log[n].id <= tried /\ (n = Len(log) => log[n].hash # trying.hash)
    BY <2>1 DEF TriedInv, Box!Allows
  <2>4. ASSUME NEW m \in 1..Len(log'), NEW n \in 1..Len(log'),
               m < n, log'[m].run = log'[n].run
        PROVE  log'[m].id <= log'[n].id
    <3>1. m \in 1..Len(log) /\ log'[m] = log[m]
      BY <2>2, <2>4
    <3>2. CASE n = Len(log) + 1
      BY <2>1, <2>2, <2>3, <2>4, <3>1, <3>2
    <3>3. CASE n # Len(log) + 1
      BY <2>2, <2>4, <3>1, <3>3 DEF InOrder
    <3>4. QED
      BY <3>2, <3>3
  <2>5. ASSUME NEW n \in 1..(Len(log') - 1), log'[n].run = log'[n + 1].run
        PROVE  log'[n].hash # log'[n + 1].hash
    <3>1. n \in 1..Len(log) /\ log'[n] = log[n]
      BY <2>2
    <3>2. CASE n = Len(log)
      BY <2>1, <2>2, <2>3, <2>5, <3>1, <3>2
    <3>3. CASE n # Len(log)
      BY <2>2, <2>5, <3>1, <3>3 DEF NoneTwice
    <3>4. QED
      BY <3>2, <3>3
  <2>6. OnlyCopies'
    BY <2>1, <2>2 DEF OnlyCopies
  <2>7. ASSUME NEW n \in 1..Len(log')
        PROVE  log'[n].run <= run /\ (log'[n].run = run => log'[n].id <= tried)
    <3>1. CASE n = Len(log) + 1
      BY <2>1, <2>2, <3>1
    <3>2. CASE n # Len(log) + 1
      BY <2>2, <3>2 DEF TriedInv
    <3>3. QED
      BY <3>1, <3>2
  <2>8. TriedInv'
    BY <2>1, <2>7 DEF TriedInv
  <2>9. QED
    BY <2>1, <2>2, <2>4, <2>5, <2>6, <2>8 DEF InOrder, NoneTwice
<1>3. CASE Box!Fail
  <2>1. trying' = NoPush /\ UNCHANGED <<copies, log, run, tried>>
    BY <1>3 DEF Box!Fail
  <2>2. QED
    BY <2>1 DEF InOrder, NoneTwice, OnlyCopies, TriedInv
<1>4. CASE Box!Restart
  <2>1. /\ trying' = NoPush /\ tried' = 0 /\ run' = run + 1
        /\ UNCHANGED <<copies, log>>
    BY <1>4 DEF Box!Restart
  <2>2. \A n \in 1..Len(log) : log[n].run \in Nat /\ log[n].run <= run
    BY DEF TriedInv, OnlyCopies, Pushes
  <2>3. InOrder' /\ NoneTwice' /\ OnlyCopies'
    BY <2>1 DEF InOrder, NoneTwice, OnlyCopies
  <2>4. TriedInv'
    BY <2>1, <2>2 DEF TriedInv
  <2>5. QED
    BY <2>1, <2>3, <2>4
<1>5. ASSUME NEW id \in 1..copies, NEW hash \in Contents, NEW to \in Targets,
             Box!Begin(id, hash, to)
      PROVE  BoxInv'
  <2>1. /\ trying' = [id |-> id, hash |-> hash, to |-> to, run |-> run]
        /\ tried <= id /\ tried' = id
        /\ Box!Allows(hash) /\ UNCHANGED <<copies, log, run>>
    BY <1>5 DEF Box!Begin
  <2>2. trying' \in Pushes
    BY <2>1 DEF Pushes
  <2>3. InOrder' /\ NoneTwice' /\ OnlyCopies'
    BY <2>1 DEF InOrder, NoneTwice, OnlyCopies
  <2>4. Box!Allows(hash)'
    BY <2>1 DEF Box!Allows
  <2>5. trying'.id = id /\ trying'.hash = hash /\ trying'.run = run
    BY <2>1
  <2>6. \A n \in 1..Len(log) : log[n].id \in Nat
    BY DEF OnlyCopies
  <2>7. ASSUME NEW n \in 1..Len(log)
        PROVE  log[n].run <= run /\ (log[n].run = run => log[n].id <= id)
    BY <2>1, <2>6 DEF TriedInv
  <2>8. TriedInv'
    BY <2>1, <2>2, <2>4, <2>5, <2>7 DEF TriedInv, Box!Allows
  <2>9. QED
    BY <2>1, <2>3, <2>8
<1>6. CASE UNCHANGED Box!outboxVars
  BY <1>6 DEF Box!outboxVars, InOrder, NoneTwice, OnlyCopies, TriedInv,
     Box!Allows
<1>7. QED
  BY <1>1, <1>2, <1>3, <1>4, <1>5, <1>6 DEF Box!Next

(* Whoever implements Outbox sends its target copies that were made, never *)
(* an older one after a newer one, and no content twice in a row, in a life*)
(* of the process (daemon.go:73-143).                                      *)
THEOREM OutboxOrders == Box!Spec => [](InOrder /\ NoneTwice /\ OnlyCopies)
<1>1. Box!Init => BoxInv
  BY DEF Box!Init, BoxInv, InOrder, NoneTwice, OnlyCopies, TriedInv
<1>2. BoxInv /\ [Box!Next]_(Box!outboxVars) => BoxInv'
  BY BoxNext
<1>3. BoxInv => InOrder /\ NoneTwice /\ OnlyCopies
  BY DEF BoxInv
<1>4. QED
  BY <1>1, <1>2, <1>3, PTL DEF Box!Spec

-----------------------------------------------------------------------------
(* Delivery.                                                               *)

(* A push is where it was sent to, and nowhere else; who was told that it  *)
(* has succeeded can rely on it.                                           *)
OnlyAsked == arrived \subseteq asked
OnePlace  == \A n \in Calls : \A x, y \in Machines :
               <<n, x>> \in asked /\ <<n, y>> \in asked => x = y
OkArrived == \A n \in Calls : told[n] = "ok" =>
               \E m \in Machines : <<n, m>> \in arrived

MailInv ==
  /\ asked \subseteq Calls \X Machines
  /\ told \in [Calls -> {"wait", "ok", "failed"}]
  /\ OnlyAsked /\ OnePlace /\ OkArrived

LEMMA MailNext ==
  ASSUME MailInv, [Mail!Next]_(Mail!deliveryVars)
  PROVE  /\ MailInv'
         /\ \A n \in Calls : told[n] # "wait" => told'[n] = told[n]
         /\ arrived \subseteq arrived'
         /\ \A n \in Calls : told[n] = "ok" =>
              \A m \in Machines : <<n, m>> \in arrived' => <<n, m>> \in arrived
<1> DEFINE Good == /\ MailInv'
                   /\ \A n \in Calls : told[n] # "wait" => told'[n] = told[n]
                   /\ arrived \subseteq arrived'
                   /\ \A n \in Calls : told[n] = "ok" => \A m \in Machines :
                        <<n, m>> \in arrived' => <<n, m>> \in arrived
<1> USE DEF MailInv, OnlyAsked, OnePlace, OkArrived
<1>1. ASSUME NEW n \in Calls, NEW m \in Machines, Mail!Ask(n, m) PROVE Good
  <2>1. /\ asked' = asked \cup {<<n, m>>} /\ UNCHANGED <<arrived, told>>
        /\ \A x \in Machines : <<n, x>> \notin asked
    BY <1>1 DEF Mail!Ask
  <2>2. OnePlace'
    BY <2>1
  <2>3. QED
    BY <2>1, <2>2
<1>2. ASSUME NEW n \in Calls, NEW m \in Machines, Mail!Arrive(n, m) PROVE Good
  <2>1. /\ arrived' = arrived \cup {<<n, m>>} /\ UNCHANGED <<asked, told>>
        /\ <<n, m>> \in asked /\ told[n] # "ok"
    BY <1>2 DEF Mail!Arrive
  <2>2. QED
    BY <2>1
<1>3. ASSUME NEW n \in Calls, Mail!TellOk(n) PROVE Good
  <2>1. /\ told' = [told EXCEPT ![n] = "ok"] /\ told[n] = "wait"
        /\ UNCHANGED <<asked, arrived>>
        /\ \E m \in Machines : <<n, m>> \in arrived
    BY <1>3 DEF Mail!TellOk
  <2>2. QED
    BY <2>1
<1>4. ASSUME NEW N \in SUBSET Calls, Mail!TellFailed(N) PROVE Good
  <2>1. /\ told' = [n \in Calls |-> IF n \in N THEN "failed" ELSE told[n]]
        /\ \A n \in N : told[n] = "wait"
        /\ UNCHANGED <<asked, arrived>>
    BY <1>4 DEF Mail!TellFailed
  <2>2. QED
    BY <2>1
<1>5. CASE UNCHANGED Mail!deliveryVars
  BY <1>5 DEF Mail!deliveryVars
<1>6. QED
  BY <1>1, <1>2, <1>3, <1>4, <1>5 DEF Mail!Next

LEMMA MailAlways == Mail!Spec => []MailInv
<1>1. Mail!Init => MailInv
  BY DEF Mail!Init, MailInv, OnlyAsked, OnePlace, OkArrived
<1>2. MailInv /\ [Mail!Next]_(Mail!deliveryVars) => MailInv'
  BY MailNext
<1>3. QED
  BY <1>1, <1>2, PTL DEF Mail!Spec

(* In whatever implements Delivery, a success that was told is one         *)
(* (client.go:37-45).                                                      *)
THEOREM DeliveryIsSound == Mail!Spec => [](OnlyAsked /\ OnePlace /\ OkArrived)
<1>1. MailInv => OnlyAsked /\ OnePlace /\ OkArrived
  BY DEF MailInv
<1>2. QED
  BY <1>1, MailAlways, PTL

(* Nobody is told twice, nothing that has arrived is taken back, and a push*)
(* whose success was told does not arrive once more.                       *)
ToldForGood ==
  [][/\ \A n \in Calls : told[n] # "wait" => told'[n] = told[n]
     /\ arrived \subseteq arrived'
     /\ \A n \in Calls : told[n] = "ok" =>
          \A m \in Machines : <<n, m>> \in arrived' => <<n, m>> \in arrived
    ]_(Mail!deliveryVars)

(* What was told of a push stays so, and a push comes once at most         *)
(* (client.go:37-45, daemon.go:147-198).                                   *)
THEOREM DeliveryIsFinal == Mail!Spec => ToldForGood
<1>1. MailInv /\ [Mail!Next]_(Mail!deliveryVars) =>
        [/\ \A n \in Calls : told[n] # "wait" => told'[n] = told[n]
         /\ arrived \subseteq arrived'
         /\ \A n \in Calls : told[n] = "ok" =>
              \A m \in Machines : <<n, m>> \in arrived' => <<n, m>> \in arrived
        ]_(Mail!deliveryVars)
  BY MailNext
<1>2. QED
  BY <1>1, MailAlways, PTL DEF Mail!Spec, ToldForGood

-----------------------------------------------------------------------------
(* ClipFeed.                                                               *)

(* What the instances of ClipFeed give for its constants.                  *)
FeedConstants ==
  /\ \A it \in Items : it.data \in Data
  /\ NoItem \notin Items
  /\ OutCap \in Nat \ {0}

(* The digest that the watcher remembers is that of the item it holds, or  *)
(* else of the last one in the channel.  So what is on the clipboard is    *)
(* either new to the watcher, or behind nothing else on its way.           *)
LastIsNewest ==
  lastHash # Feed!NoHash =>
    /\ held # NoItem => Feed!Hash(held.data) = lastHash
    /\ held = NoItem /\ out # <<>> => Feed!Hash(out[Len(out)].data) = lastHash

FeedInv == Feed!FeedTypeOK /\ LastIsNewest /\ (held # NoItem => lastHash # Feed!NoHash)

LEMMA FeedStep ==
  ASSUME FeedConstants, FeedInv, [Feed!FeedNext]_(Feed!feedVars)
  PROVE  FeedInv'
<1> USE DEF FeedConstants
<1>t. /\ board \subseteq Items /\ lastHash \in Feed!Digests \cup {Feed!NoHash}
      /\ held \in Items \cup {NoItem} /\ out \in Seq(Items) /\ Len(out) <= OutCap
  BY DEF FeedInv, Feed!FeedTypeOK
<1>h. \A it \in Items : /\ Feed!Hash(it.data) \in Feed!Digests
                        /\ Feed!Hash(it.data) # Feed!NoHash
  BY DEF Feed!Hash, Feed!Digests, Feed!NoHash
<1>1. CASE Feed!Read
  <2>1. /\ held' \in Items /\ lastHash' = Feed!Hash(held'.data)
        /\ UNCHANGED <<board, out>>
    BY <1>1, <1>t DEF Feed!Read
  <2>2. QED
    BY <1>t, <1>h, <2>1 DEF FeedInv, Feed!FeedTypeOK, LastIsNewest
<1>2. CASE Feed!Push
  <2>1. /\ held \in Items /\ Len(out) < OutCap /\ out' = Append(out, held)
        /\ held' = NoItem /\ UNCHANGED <<board, lastHash>>
    BY <1>2, <1>t DEF Feed!Push, Feed!HasRoom
  <2>2. /\ out' \in Seq(Items) /\ Len(out') = Len(out) + 1
        /\ out'[Len(out')] = held
    BY <1>t, <2>1
  <2>3. Len(out') <= OutCap
    BY <1>t, <2>1, <2>2
  <2>4. held # NoItem
    BY <2>1
  <2>5. QED
    BY <1>t, <2>1, <2>2, <2>3, <2>4 DEF FeedInv, Feed!FeedTypeOK, LastIsNewest
<1>3. CASE Feed!Reset
  BY <1>3, <1>t DEF Feed!Reset, FeedInv, Feed!FeedTypeOK, LastIsNewest
<1>4. CASE Feed!Take
  <2>1. /\ out # <<>> /\ out' = Tail(out) /\ UNCHANGED <<board, lastHash, held>>
    BY <1>4 DEF Feed!Take
  <2>2. /\ out' \in Seq(Items) /\ Len(out') = Len(out) - 1 /\ Len(out) \in Nat
        /\ out' # <<>> => out'[Len(out')] = out[Len(out)]
    BY <1>t, <2>1
  <2>3. Len(out') <= OutCap
    BY <1>t, <2>2
  <2>4. QED
    BY <1>t, <2>1, <2>2, <2>3 DEF FeedInv, Feed!FeedTypeOK, LastIsNewest
<1>5. ASSUME NEW new \in SUBSET Items, Feed!Change(new) PROVE FeedInv'
  BY <1>5, <1>t DEF Feed!Change, FeedInv, Feed!FeedTypeOK, LastIsNewest
<1>6. CASE UNCHANGED Feed!feedVars
  BY <1>6 DEF Feed!feedVars, FeedInv, Feed!FeedTypeOK, LastIsNewest
<1>7. QED
  BY <1>1, <1>2, <1>3, <1>4, <1>5, <1>6 DEF Feed!FeedNext

(* Whoever implements ClipFeed never overfills the channel of Daemon.Run,  *)
(* and forgets no change behind an older one (clipboard_linux.go:239-261,  *)
(* daemon.go:61).                                                          *)
THEOREM FeedIsBounded ==
  FeedConstants /\ Feed!FeedSpec => [](Feed!FeedTypeOK /\ LastIsNewest)
<1>1. FeedConstants /\ Feed!FeedInit => FeedInv
  BY DEF FeedConstants, Feed!FeedInit, FeedInv, Feed!FeedTypeOK, LastIsNewest
<1>2. FeedConstants /\ FeedInv /\ [Feed!FeedNext]_(Feed!feedVars) => FeedInv'
  BY FeedStep
<1>3. FeedConstants => []FeedConstants
  BY DEF FeedConstants
<1>4. FeedInv => Feed!FeedTypeOK /\ LastIsNewest
  BY DEF FeedInv
<1>5. QED
  BY <1>1, <1>2, <1>3, <1>4, PTL DEF Feed!FeedSpec
=============================================================================
