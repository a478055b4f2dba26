---------------------------- MODULE OutboxProofs ----------------------------
(***************************************************************************)
(* The order in which copies reach a target, and that Daemon implements    *)
(* Outbox, for any contents, channel length and bounds.                    *)
(***************************************************************************)
EXTENDS DaemonProofs

(* Two copies on their way: i is ahead of j.  The same copy can be on its  *)
(* way several times: as another kind, with what its file has become, or   *)
(* because the watcher has fallen back and looked again.                   *)
Ahead(i, j) == i.id # 0 /\ j.id # 0 => i.id <= j.id

(* What is on its way is not older than anything this process has tried or *)
(* had acknowledged.                                                       *)
Coming(it) ==
  /\ it.id <= copies
  /\ it.id # 0 =>
       /\ it.data \in Bodies
       /\ tried <= it.id
       /\ \A n \in 1..Len(log) : log[n].run = restarts => log[n].id <= it.id

(* Whatever the user's copy offers, it is one copy.                        *)
BoardOrder ==
  \A i \in board : Coming(i) /\ \A j \in board : Ahead(i, j)

HeldOrder ==
  held # NoItem => Coming(held) /\ \A j \in board : Ahead(held, j)

OutOrder ==
  \A n \in 1..Len(out) :
    /\ Coming(out[n])
    /\ \A m \in 1..Len(out) : n < m => Ahead(out[n], out[m])
    /\ held # NoItem => Ahead(out[n], held)
    /\ \A j \in board : Ahead(out[n], j)

LoopOrder ==
  pc[Loop] # "idle" =>
    /\ Coming(item)
    /\ \A m \in 1..Len(out) : Ahead(item, out[m])
    /\ held # NoItem => Ahead(item, held)
    /\ \A j \in board : Ahead(item, j)
    /\ item.data # Empty

LogOrder ==
  /\ PushesInCopyOrder
  /\ tried <= copies
  /\ \A n \in 1..Len(log) : log[n].run = restarts => log[n].id <= tried
  /\ \A m, n \in 1..Len(log) : m < n => log[m].run <= log[n].run
  /\ pc[Loop] = "wait" => /\ item.id = tried
                          /\ item.data \notin Big
                          /\ snap.target \in Targets

OrderInv == BoardOrder /\ HeldOrder /\ OutOrder /\ LoopOrder /\ LogOrder

AllInv == TypeInv /\ EchoInv /\ DedupeInv

LEMMA Types ==
  ASSUME TypeInv
  PROVE  /\ pc \in [Threads -> {"idle", "stat", "write", "mark", "set",
                                "route", "wait"}]
         /\ Loop \in Threads /\ Loop \notin Handlers
         /\ out \in Seq(Items) /\ log \in Seq(Pushes)
         /\ copies \in Nat /\ tried \in Nat /\ restarts \in Nat
         /\ board \subseteq Items /\ snap \in Configs
         /\ held # NoItem => held \in Items
         /\ pc[Loop] # "idle" => item \in Items
         /\ \A n \in 1..Len(out) : out[n] \in Items
         /\ \A n \in 1..Len(log) : log[n] \in Pushes
         /\ \A it \in Items : it.id \in Nat /\ it.data \in Data
         /\ \A p \in Pushes : p.id \in Nat /\ p.run \in Nat
         /\ Len(log) \in Nat /\ Len(out) \in Nat
<1>1. /\ out \in Seq(Items) /\ log \in Seq(Pushes)
  BY DEF TypeInv, TypeOK, Feed!FeedTypeOK
<1>2. \A it \in Items : it.id \in Nat /\ it.data \in Data
  BY DEF Items
<1>3. \A p \in Pushes : p.id \in Nat /\ p.run \in Nat
  BY DEF Pushes
<1>4. QED
  BY <1>1, <1>2, <1>3, DaemonAssumption
     DEF TypeInv, TypeOK, LocalsOK, Feed!FeedTypeOK, Threads

(* What the loop works on has another content than the push acknowledged   *)
(* last.                                                                   *)
LEMMA ItemIsNew ==
  ASSUME AllInv, pc[Loop] # "idle"
  PROVE  Box!Allows(Feed!Hash(item.data))
BY DEF AllInv, DedupeInv, LastSentWasAcked, Box!Allows

LEMMA TakeKeepsOrder ==
  ASSUME AllInv, OrderInv, Feed!Take,
         UNCHANGED <<copies, tried, log, restarts>>
  PROVE  /\ BoardOrder' /\ HeldOrder' /\ OutOrder'
         /\ Coming(Head(out))
         /\ \A m \in 1..Len(out') : Ahead(Head(out), out'[m])
         /\ held # NoItem => Ahead(Head(out), held)
         /\ \A j \in board : Ahead(Head(out), j)
         /\ board' = board /\ held' = held
<1>1. /\ out \in Seq(Items) /\ out # <<>> /\ out' = Tail(out)
      /\ board' = board /\ held' = held
  BY Types DEF AllInv, Feed!Take
<1>2. Head(out) = out[1] /\ 1 \in 1..Len(out)
  BY <1>1
<1>3. Len(out') = Len(out) - 1 /\ Len(out) \in Nat
  BY <1>1
<1>4. \A n \in 1..Len(out') :
        n + 1 \in 1..Len(out) /\ out'[n] = out[n + 1]
  BY <1>1
<1>5. BoardOrder' /\ HeldOrder'
  BY <1>1 DEF OrderInv, BoardOrder, HeldOrder, Coming, Ahead
<1>6. \A it : Coming(it) => Coming(it)'
  BY DEF Coming
<1>7. OutOrder'
  <2>1. \A n \in 1..Len(out') : Coming(out[n])'
    <3>1. \A n \in 1..Len(out') : Coming(out[n + 1])
      BY <1>4 DEF OrderInv, OutOrder
    <3>2. QED
      BY <1>4, <1>6, <3>1 DEF Coming
  <2>2. ASSUME NEW n \in 1..Len(out'), NEW m \in 1..Len(out'), n < m
        PROVE  Ahead(out'[n], out'[m])
    <3>1. n + 1 \in 1..Len(out) /\ m + 1 \in 1..Len(out) /\ n + 1 < m + 1
      BY <1>3, <2>2
    <3>2. Ahead(out[n + 1], out[m + 1])
      BY <3>1 DEF OrderInv, OutOrder
    <3>3. QED
      BY <1>4, <3>2
  <2>3. ASSUME NEW n \in 1..Len(out')
        PROVE  /\ held' # NoItem => Ahead(out'[n], held')
               /\ \A j \in board' : Ahead(out'[n], j)
    BY <1>1, <1>4 DEF OrderInv, OutOrder
  <2>4. QED
    BY <2>1, <2>2, <2>3 DEF OutOrder, Ahead
<1>8. Coming(Head(out))
  BY <1>2 DEF OrderInv, OutOrder
<1>9. ASSUME NEW m \in 1..Len(out') PROVE Ahead(Head(out), out'[m])
  BY <1>2, <1>3, <1>4 DEF OrderInv, OutOrder
<1>10. QED
  BY <1>1, <1>2, <1>5, <1>7, <1>8, <1>9 DEF OrderInv, OutOrder

LEMMA OrderNext == AllInv /\ OrderInv /\ [Next]_vars => OrderInv'
<1> SUFFICES ASSUME AllInv, OrderInv, [Next]_vars PROVE OrderInv'
  OBVIOUS
<1>p. TypeInv
  BY DEF AllInv
<1>1. CASE User
  <2>1. /\ board' \subseteq Items
        /\ UNCHANGED <<held, out, pc, item, snap, log, tried, restarts>>
    BY <1>1, <1>p, UserTouches
  <2>2. /\ copies' \in {copies, copies + 1}
        /\ \A it \in Items : Coming(it) => Coming(it)'
    BY <1>1, <1>p, <2>1, UserTouches, Types DEF Coming
  <2>3. ASSUME NEW new \in board', NEW it \in Items, Coming(it),
               \A j \in board : Ahead(it, j)
        PROVE  Ahead(it, new)
    <3>1. CASE new.id = copies + 1
      BY <1>p, <2>3, <3>1, Types DEF Coming, Ahead
    <3>2. CASE \E old \in board : new.id = old.id
      BY <2>3, <3>2 DEF Ahead
    <3>3. QED
      BY <1>1, <1>p, <3>1, <3>2, UserTouches DEF Rewritten
  <2>4. ASSUME NEW i \in board' PROVE Coming(i)' /\ \A j \in board' : Ahead(i, j)
    <3>1. CASE /\ copies' = copies + 1
               /\ \A it \in board' : it.id = copies + 1 /\ it.data \in Bodies
      BY <1>p, <2>1, <3>1, Types DEF Coming, Ahead, OrderInv, LogOrder
    <3>2. CASE /\ copies' = copies
               /\ \A it \in board' : it \in board \/ Rewritten(it)
      <4>1. PICK old \in board :
              i.id = old.id /\ (i = old \/ i.data \in Bodies)
        BY <3>2 DEF Rewritten
      <4>2. Coming(old) /\ \A j \in board : Ahead(old, j)
        BY DEF OrderInv, BoardOrder
      <4>3. Coming(i)'
        BY <2>1, <3>2, <4>1, <4>2 DEF Coming
      <4>4. \A j \in board' : Ahead(old, j)
        BY <1>p, <2>3, <4>2, Types
      <4>5. QED
        BY <4>1, <4>3, <4>4 DEF Ahead
    <3>3. QED
      BY <1>1, <1>p, <3>1, <3>2, UserTouches
  <2>5. BoardOrder'
    BY <2>4 DEF BoardOrder, Ahead
  <2>6. HeldOrder'
    BY <1>p, <2>1, <2>2, <2>3, Types DEF OrderInv, HeldOrder, Coming, Ahead
  <2>7. OutOrder'
    <3>1. ASSUME NEW n \in 1..Len(out)
          PROVE  Coming(out[n])' /\ \A j \in board' : Ahead(out[n], j)
      BY <1>p, <2>1, <2>2, <2>3, Types DEF OrderInv, OutOrder
    <3>2. QED
      BY <2>1, <3>1 DEF OrderInv, OutOrder, Coming, Ahead
  <2>8. LoopOrder'
    <3>1. ASSUME pc[Loop] # "idle"
          PROVE  Coming(item)' /\ \A j \in board' : Ahead(item, j)
      BY <1>p, <2>1, <2>2, <2>3, <3>1, Types DEF OrderInv, LoopOrder, Coming
    <3>2. QED
      BY <2>1, <3>1 DEF OrderInv, LoopOrder, Coming, Ahead
  <2>9. LogOrder'
    <3>1. PushesInCopyOrder'
      BY <2>1 DEF OrderInv, LogOrder, PushesInCopyOrder
    <3>2. tried <= copies'
      BY <1>p, <2>2, Types DEF OrderInv, LogOrder
    <3>3. QED
      BY <2>1, <3>1, <3>2 DEF OrderInv, LogOrder
  <2>10. QED
    BY <2>5, <2>6, <2>7, <2>8, <2>9 DEF OrderInv
<1>2. CASE WatchRead
  <2>1. /\ held' \in board /\ held = NoItem
        /\ UNCHANGED <<board, out, pc, item, snap, log, tried, restarts, copies>>
    BY <1>2 DEF WatchRead, Feed!Read, loopVars, historyVars
  <2>2. Coming(held') /\ \A j \in board : Coming(j) /\ Ahead(held', j)
    BY <2>1 DEF OrderInv, BoardOrder
  <2>3. \A j \in board : Ahead(j, held')
    BY <2>1 DEF OrderInv, BoardOrder
  <2>4. BoardOrder' /\ HeldOrder'
    <3>1. BoardOrder'
      BY <2>1 DEF OrderInv, BoardOrder, Coming, Ahead
    <3>2. QED
      BY <2>1, <2>2, <3>1 DEF HeldOrder, Coming, Ahead
  <2>5. OutOrder' /\ LoopOrder'
    BY <2>1 DEF OrderInv, OutOrder, LoopOrder, Coming, Ahead
  <2>6. LogOrder'
    BY <2>1 DEF OrderInv, LogOrder, PushesInCopyOrder
  <2>7. QED
    BY <2>4, <2>5, <2>6 DEF OrderInv
<1>3. CASE WatchPush
  <2>1. /\ held # NoItem /\ held' = NoItem /\ out' = Append(out, held)
        /\ UNCHANGED <<board, pc, item, snap, log, tried, restarts, copies>>
    BY <1>3 DEF WatchPush, Feed!Push, loopVars, historyVars, boundVars
  <2>2. /\ Len(out') = Len(out) + 1 /\ Len(out) \in Nat
        /\ \A n \in 1..Len(out') :
             out'[n] = IF n = Len(out) + 1 THEN held ELSE out[n]
    BY <1>p, <2>1, Types
  <2>3. BoardOrder' /\ HeldOrder'
    BY <2>1 DEF OrderInv, BoardOrder, HeldOrder, Coming
  <2>4. OutOrder'
    <3>1. \A n \in 1..Len(out') :
            Coming(out[n])' /\ \A j \in board' : Ahead(out'[n], j)
      BY <2>1, <2>2 DEF OrderInv, OutOrder, HeldOrder, Coming
    <3>2. ASSUME NEW n \in 1..Len(out'), NEW m \in 1..Len(out'), n < m
          PROVE  Ahead(out'[n], out'[m])
      BY <2>1, <2>2, <3>2 DEF OrderInv, OutOrder
    <3>3. QED
      BY <2>1, <3>1, <3>2 DEF OutOrder, Ahead
  <2>5. LoopOrder'
    BY <2>1, <2>2 DEF OrderInv, LoopOrder, Coming, Ahead
  <2>6. LogOrder'
    BY <2>1 DEF OrderInv, LogOrder, PushesInCopyOrder
  <2>7. QED
    BY <2>3, <2>4, <2>5, <2>6 DEF OrderInv
<1>4. CASE LocalIgnoreEmpty \/ LocalSwallow \/ LocalDedupe
  <2>1. Feed!Take /\ pc[Loop] = "idle"
        /\ UNCHANGED <<pc, item, snap, log, tried, restarts, copies>>
    BY <1>4 DEF LocalIgnoreEmpty, LocalSwallow, LocalDedupe, LoopTakes,
       loopVars, historyVars, boundVars
  <2>2. BoardOrder' /\ HeldOrder' /\ OutOrder'
    BY <2>1, TakeKeepsOrder
  <2>3. LoopOrder' /\ LogOrder'
    BY <2>1 DEF OrderInv, LoopOrder, LogOrder, PushesInCopyOrder
  <2>4. QED
    BY <2>2, <2>3 DEF OrderInv
<1>5. CASE LocalAccept
  <2>1. /\ Feed!Take /\ item' = Head(out) /\ item'.data # Empty
        /\ pc'[Loop] # "wait"
        /\ UNCHANGED <<log, tried, restarts, copies>>
    BY <1>5, <1>p, Types DEF LocalAccept, LoopTakes, historyVars, boundVars
  <2>2. BoardOrder' /\ HeldOrder' /\ OutOrder'
    BY <2>1, TakeKeepsOrder
  <2>3. LoopOrder'
    BY <2>1, TakeKeepsOrder DEF LoopOrder, Coming, Ahead
  <2>4. LogOrder'
    BY <2>1 DEF OrderInv, LogOrder, PushesInCopyOrder
  <2>5. QED
    BY <2>2, <2>3, <2>4 DEF OrderInv
<1>6. CASE LocalSkip \/ Unacked
  <2>1. /\ pc'[Loop] = "idle"
        /\ UNCHANGED <<board, held, out, log, tried, restarts, copies>>
    BY <1>6, <1>p, Types DEF LocalSkip, Unacked, LoopReturns, boundVars
  <2>2. BoardOrder' /\ HeldOrder' /\ OutOrder'
    BY <2>1 DEF OrderInv, BoardOrder, HeldOrder, OutOrder, Coming, Ahead
  <2>3. LoopOrder' /\ LogOrder'
    BY <2>1 DEF OrderInv, LoopOrder, LogOrder, PushesInCopyOrder
  <2>4. QED
    BY <2>2, <2>3 DEF OrderInv
<1>7. CASE LocalSend
  <2>1. /\ pc[Loop] = "route" /\ pc'[Loop] = "wait" /\ tried' = item.id
        /\ item.id # 0 /\ item.data \notin Big /\ snap.target \in Targets
        /\ item \in Items
        /\ UNCHANGED <<board, held, out, item, snap, log, restarts, copies>>
    BY <1>7, <1>p, Types DEF LocalSend, Sendable, loopVars, boundVars,
       AllInv, EchoInv, OwnIsText, Configs
  <2>2. Coming(item) /\ Ahead(item, item)
    BY <2>1, <1>p, Types DEF OrderInv, LoopOrder, Ahead
  <2>3. \A it \in Items : Coming(it) /\ Ahead(item, it) => Coming(it)'
    BY <2>1 DEF Coming, Ahead
  <2>4. BoardOrder' /\ HeldOrder'
    BY <2>1, <2>3, <1>p, Types
       DEF OrderInv, BoardOrder, HeldOrder, LoopOrder, Coming
  <2>5. OutOrder'
    BY <2>1, <2>3, <1>p, Types DEF OrderInv, OutOrder, LoopOrder, Coming
  <2>6. LoopOrder'
    BY <2>1, <2>2, <2>3 DEF OrderInv, LoopOrder, Coming
  <2>7. LogOrder'
    BY <2>1, <2>2 DEF OrderInv, LogOrder, PushesInCopyOrder, Coming
  <2>8. QED
    BY <2>4, <2>5, <2>6, <2>7 DEF OrderInv
<1>8. CASE Acked
  <2> DEFINE new == [id |-> item.id, hash |-> Feed!Hash(item.data),
                     to |-> snap.target, run |-> restarts]
  <2>1. /\ pc[Loop] = "wait" /\ pc'[Loop] = "idle" /\ log' = Append(log, new)
        /\ item \in Items /\ item.id # 0 /\ item.id = tried
        /\ UNCHANGED <<board, held, out, tried, restarts, copies>>
    BY <1>8, <1>p, Types DEF Acked, LoopReturns, boundVars, OrderInv,
       LogOrder, AllInv, EchoInv, OwnIsText
  <2>2. /\ Len(log') = Len(log) + 1 /\ Len(log) \in Nat
        /\ \A n \in 1..Len(log') :
             log'[n] = IF n = Len(log) + 1 THEN new ELSE log[n]
    BY <1>p, <2>1, Types
  <2>3. \A it \in Items : Coming(it) /\ Ahead(item, it) => Coming(it)'
    BY <2>1, <2>2 DEF Coming, Ahead
  <2>4. BoardOrder' /\ HeldOrder'
    BY <2>1, <2>3, <1>p, Types
       DEF OrderInv, BoardOrder, HeldOrder, LoopOrder, Coming
  <2>5. OutOrder'
    BY <2>1, <2>3, <1>p, Types DEF OrderInv, OutOrder, LoopOrder, Coming
  <2>6. PushesInCopyOrder'
    <3> SUFFICES ASSUME NEW m \in 1..Len(log'), NEW n \in 1..Len(log'),
                        m < n, log'[m].run = log'[n].run
                 PROVE  log'[m].id <= log'[n].id
      BY DEF PushesInCopyOrder
    <3>1. CASE n = Len(log) + 1
      <4>1. m \in 1..Len(log) /\ log'[m] = log[m] /\ log[m].run = restarts
        BY <2>2, <3>1
      <4>2. log[m].id <= tried /\ log'[n].id = item.id
        BY <2>2, <3>1, <4>1 DEF OrderInv, LogOrder
      <4>3. QED
        BY <2>1, <4>1, <4>2
    <3>2. CASE n # Len(log) + 1
      <4>0. m \in 1..Len(log) /\ n \in 1..Len(log)
        BY <2>2, <3>2
      <4>1. log'[m] = log[m] /\ log'[n] = log[n]
        BY <2>2, <4>0
      <4>2. PushesInCopyOrder
        BY DEF OrderInv, LogOrder
      <4>3. QED
        BY <4>0, <4>1, <4>2 DEF PushesInCopyOrder
    <3>3. QED
      BY <3>1, <3>2
  <2>7. /\ tried <= copies
        /\ \A n \in 1..Len(log') : log'[n].run = restarts => log'[n].id <= tried
    BY <2>1, <2>2, <1>p, Types DEF OrderInv, LogOrder
  <2>8. \A m, n \in 1..Len(log') : m < n => log'[m].run <= log'[n].run
    <3> SUFFICES ASSUME NEW m \in 1..Len(log'), NEW n \in 1..Len(log'), m < n
                 PROVE  log'[m].run <= log'[n].run
      OBVIOUS
    <3>1. m \in 1..Len(log) /\ log'[m] = log[m]
      BY <2>2
    <3>2. CASE n = Len(log) + 1
      BY <2>2, <3>1, <3>2 DEF AllInv, DedupeInv
    <3>3. \A i, j \in 1..Len(log) : i < j => log[i].run <= log[j].run
      BY DEF OrderInv, LogOrder
    <3>4. CASE n # Len(log) + 1
      BY <2>2, <3>1, <3>3, <3>4
    <3>5. QED
      BY <3>2, <3>4
  <2>9. QED
    BY <2>1, <2>4, <2>5, <2>6, <2>7, <2>8 DEF OrderInv, LoopOrder, LogOrder
<1>9. ASSUME NEW t \in Threads, SetBoard(t)
      PROVE  OrderInv'
  <2>1. /\ board' = board \/ board' \subseteq OwnText(job[t])
        /\ pc[Loop] = "idle" => pc'[Loop] = "idle"
        /\ pc[Loop] # "wait" => pc'[Loop] # "wait"
        /\ UNCHANGED <<held, out, item, snap, log, tried, restarts, copies>>
    BY <1>9, <1>p, Types DEF SetBoard, Feed!Change, AfterSave, loopVars,
       historyVars, boundVars
  <2>2. \A i \in OwnText(job[t]) : i.id = 0
    BY DEF OwnText
  <2>3. BoardOrder' /\ \A i : \A j \in board' : j \in board \/ Ahead(i, j)
    BY <2>1, <2>2, <1>p, Types DEF OrderInv, BoardOrder, Coming, Ahead
  <2>4. HeldOrder' /\ OutOrder'
    BY <2>1, <2>3 DEF OrderInv, HeldOrder, OutOrder, Coming
  <2>5. LoopOrder' /\ LogOrder'
    BY <2>1, <2>3 DEF OrderInv, LoopOrder, LogOrder, PushesInCopyOrder, Coming
  <2>6. QED
    BY <2>3, <2>4, <2>5 DEF OrderInv
<1>10. ASSUME /\ UNCHANGED <<board, out, item, snap, log, tried, restarts, copies>>
              /\ UNCHANGED held
              /\ pc[Loop] = "idle" => pc'[Loop] = "idle"
              /\ pc[Loop] # "wait" => pc'[Loop] # "wait"
       PROVE  OrderInv'
  <2>1. BoardOrder' /\ HeldOrder' /\ OutOrder'
    BY <1>10 DEF OrderInv, BoardOrder, HeldOrder, OutOrder, Coming, Ahead
  <2>2. LoopOrder' /\ LogOrder'
    BY <1>10 DEF OrderInv, LoopOrder, LogOrder, PushesInCopyOrder, Coming,
       Ahead
  <2>3. QED
    BY <2>1, <2>2 DEF OrderInv
<1>11. CASE WatchFallback
  BY <1>10, <1>11 DEF WatchFallback, Feed!Reset, loopVars, historyVars,
     boundVars
<1>12. ASSUME NEW h \in Handlers,
              RecvFile(h) \/ \E d \in Bodies : RecvText(h, d)
       PROVE  OrderInv'
  BY <1>10, <1>12, <1>p, Types DEF RecvText, RecvFile, loopVars, historyVars
<1>13. ASSUME NEW t \in Threads,
              Stat(t) \/ Write(t) \/ SaveFails(t) \/ MarkPath(t)
       PROVE  OrderInv'
  BY <1>10, <1>13, <1>p, Types DEF Stat, Write, SaveFails, MarkPath,
     AfterSave, loopVars, historyVars, boundVars
<1>14. ASSUME NEW new, SetConfig(new) PROVE OrderInv'
  BY <1>10, <1>14 DEF SetConfig, loopVars
<1>15. CASE Restart
  <2>1. /\ pc'[Loop] = "idle" /\ held' = NoItem /\ Len(out') = 0
        /\ tried' = 0 /\ restarts' = restarts + 1
        /\ UNCHANGED <<board, log, copies>>
    BY <1>15, <1>p, Types DEF Restart
  <2>2. \A n \in 1..Len(log) : log[n].run # restarts'
    BY <2>1, <1>p, Types DEF AllInv, DedupeInv
  <2>3. BoardOrder' /\ HeldOrder' /\ OutOrder' /\ LoopOrder'
    BY <2>1, <2>2, <1>p, Types
       DEF OrderInv, BoardOrder, HeldOrder, OutOrder, LoopOrder, Coming
  <2>4. LogOrder'
    <3>1. PushesInCopyOrder'
      BY <2>1 DEF OrderInv, LogOrder, PushesInCopyOrder
    <3>2. QED
      BY <2>1, <2>2, <3>1, <1>p, Types DEF OrderInv, LogOrder
  <2>5. QED
    BY <2>3, <2>4 DEF OrderInv
<1>16. CASE UNCHANGED vars
  BY <1>10, <1>16 DEF vars
<1>17. QED
  BY <1>1, <1>2, <1>3, <1>4, <1>5, <1>6, <1>7, <1>8, <1>9, <1>11, <1>12,
     <1>13, <1>14, <1>15, <1>16
     DEF Next, Watcher, LocalChange, Saver, SetTarget, SetSync

LEMMA OrderAlways == Spec => [](AllInv /\ OrderInv)
<1>1. Init => OrderInv
  BY DaemonAssumption
     DEF Init, Feed!FeedInit, OrderInv, BoardOrder, HeldOrder, OutOrder,
     LoopOrder, LogOrder, PushesInCopyOrder, Threads
<1>2. Init => EchoInv
  BY DaemonAssumption DEF Init, Feed!FeedInit, EchoInv, Threads
<1>3. Init => AllInv
  BY <1>2, TypeInit, DaemonAssumption
     DEF Init, AllInv, DedupeInv, LastSentWasAcked, NoRepeat, Threads
<1>4. AllInv /\ [Next]_vars => AllInv'
  BY TypeNext, EchoNext, DedupeNext DEF AllInv
<1>5. QED
  BY <1>1, <1>3, <1>4, OrderNext, PTL DEF Spec

(* A target never gets an older copy after a newer one: the kinds of a     *)
(* copy, what its file becomes, the watcher, which looks again after a     *)
(* fallback, the channel, the saving of images and failed pushes all keep  *)
(* the order (daemon.go:61-73, 137-143).                                   *)
THEOREM CopiesStayInOrder == Spec => []PushesInCopyOrder
<1>1. OrderInv => PushesInCopyOrder
  BY DEF OrderInv, LogOrder
<1>2. QED
  BY <1>1, OrderAlways, PTL

-----------------------------------------------------------------------------
(* Every step of the process is a step of Outbox or leaves it alone.       *)

LEMMA StepOfOutbox ==
  AllInv /\ OrderInv /\ [Next]_vars => [Box!Next]_(Box!outboxVars)
<1> SUFFICES ASSUME AllInv, OrderInv, [Next]_vars
             PROVE  [Box!Next]_(Box!outboxVars)
  OBVIOUS
<1>p. TypeInv
  BY DEF AllInv
<1> DEFINE push == [id |-> item.id, hash |-> Feed!Hash(item.data),
                    to |-> snap.target, run |-> restarts]
<1>q. pc[Loop] = "wait" => Trying = push /\ push # NoItem
  <2>1. pc[Loop] = "wait" => push \in Pushes
    BY <1>p, Types, DigestTyped DEF Pushes, Configs
  <2>2. QED
    BY <2>1, PushAssumption DEF Trying
<1>1. ASSUME NEW f \in Offers, UserCopy(f) PROVE Box!Copy
  BY <1>1 DEF UserCopy, loopVars, historyVars, Trying, Box!Copy
<1>2. CASE LocalSend
  <2>1. /\ Trying = NoItem /\ Trying' = push /\ tried' = item.id
        /\ UNCHANGED <<copies, log, restarts>>
        /\ item \in Items /\ item.id # 0
    BY <1>2, <1>p, Types DEF LocalSend, Sendable, Trying, loopVars, boundVars,
       AllInv, EchoInv, OwnIsText
  <2>2. pc[Loop] # "idle" /\ snap.target \in Targets /\ item.data \notin Big
    BY <1>2, <1>p, Types DEF LocalSend, Sendable, Configs
  <2>3. /\ item.id \in 1..copies /\ tried <= item.id
        /\ item.data \in Bodies /\ item.data # Empty
    BY <2>1, <2>2, <1>p, Types DEF OrderInv, LoopOrder, Coming
  <2>4. Box!Allows(Feed!Hash(item.data))
    BY <2>2, ItemIsNew
  <2>5. Box!Begin(item.id, Feed!Hash(item.data), snap.target)
    BY <2>1, <2>3, <2>4 DEF Box!Begin
  <2>6. QED
    BY <2>2, <2>3, <2>5 DEF Box!Next
<1>3. CASE Acked
  BY <1>3, <1>p, <1>q, Types DEF Acked, LoopReturns, boundVars, Trying,
     Box!Ack, Box!Next
<1>4. CASE Unacked
  BY <1>4, <1>p, <1>q, Types DEF Unacked, LoopReturns, boundVars, Trying,
     Box!Fail, Box!Next
<1>5. CASE LocalSkip
  BY <1>5, <1>p, Types DEF LocalSkip, LoopReturns, boundVars, Trying,
     Box!outboxVars
<1>6. CASE LocalIgnoreEmpty \/ LocalSwallow \/ LocalDedupe
  BY <1>6 DEF LocalIgnoreEmpty, LocalSwallow, LocalDedupe, loopVars,
     historyVars, boundVars, Trying, Box!outboxVars
<1>7. CASE LocalAccept
  BY <1>7, <1>p, Types DEF LocalAccept, LoopTakes, historyVars, boundVars,
     Trying, Box!outboxVars
<1>8. CASE Watcher
  BY <1>8 DEF Watcher, WatchRead, WatchPush, WatchFallback, loopVars,
     historyVars, boundVars, Trying, Box!outboxVars
<1>9. ASSUME NEW h \in Handlers,
             RecvFile(h) \/ \E d \in Bodies : RecvText(h, d)
      PROVE  UNCHANGED Box!outboxVars
  BY <1>9, <1>p, Types DEF RecvText, RecvFile, loopVars, historyVars, Trying,
     Box!outboxVars
<1>10. ASSUME NEW t \in Threads, Saver(t) PROVE UNCHANGED Box!outboxVars
  BY <1>10, <1>p, Types DEF Saver, Stat, Write, SaveFails, MarkPath, SetBoard,
     AfterSave, loopVars, historyVars, boundVars, Trying, Box!outboxVars
<1>11. ASSUME NEW new, SetConfig(new) PROVE UNCHANGED Box!outboxVars
  BY <1>11 DEF SetConfig, loopVars, Trying, Box!outboxVars
<1>12. CASE Restart
  BY <1>12, <1>p, Types DEF Restart, Trying, Box!Restart, Box!Next
<1>13. ASSUME NEW d \in Bodies, EditFile(d) PROVE UNCHANGED Box!outboxVars
  BY <1>13 DEF EditFile, loopVars, historyVars, Trying, Box!outboxVars
<1>14. CASE UNCHANGED vars
  BY <1>14 DEF vars, Trying, Box!outboxVars
<1>15. QED
  BY <1>1, <1>2, <1>3, <1>4, <1>5, <1>6, <1>7, <1>8, <1>9, <1>10, <1>11,
     <1>12, <1>13, <1>14 DEF Next, User, LocalChange, SetTarget, SetSync, Box!Next

(* The process, with its watcher, its channel, its saving of images, its   *)
(* settings and the writes of its own handlers, keeps the promise of       *)
(* Outbox (daemon.go:73-143).                                              *)
THEOREM KeepsThePromise == Spec => ImplementsOutbox
<1>1. Init => Box!Init
  BY DaemonAssumption DEF Init, Trying, Box!Init, Threads
<1>2. QED
  BY <1>1, StepOfOutbox, OrderAlways, PTL DEF Spec, ImplementsOutbox, Box!Spec
=============================================================================
