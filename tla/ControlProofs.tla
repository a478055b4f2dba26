---------------------------- MODULE ControlProofs ---------------------------
(***************************************************************************)
(* What Control promises for any clients, names and bounds.  The types are *)
(* an invariant on their own; AnsweredHolds needs the lock's protocol and  *)
(* what a process that seeds the file excludes.                            *)
(***************************************************************************)
EXTENDS Control, TLAPS

Locking == {"create", "write", "answer"}
Seeding == {"create", "write"}

(* Goroutines of the server live no longer than its process, and Daemon.mu *)
(* is held just by the handler that is between its lock and its unlock.    *)
ServedOnly ==
  at[Serve] # "serving" => mu = NoClient /\ \A c \in Clients : handler[c] = "none"

OneHolder == \A c \in Clients : handler[c] \in Locking <=> mu = c

(* A client whose request the server has taken waits or has given up.      *)
Requested == \A c \in Clients : handler[c] # "none" => at[c] \in {"asked", "failed"}

(* Before there is a file the daemon has not loaded, and nobody was told   *)
(* anything.                                                               *)
NoFileYet ==
  disk = Absent =>
    /\ at[Serve] \in {"off", "load", "create", "failed"}
    /\ \A c \in Clients : at[c] # "done"

(* A process that seeds the file, while no other has found none.           *)
SeederKnown == \A p \in Processes : at[p] \in Seeding => p \in seeded

SeederAlone ==
  Alone => \A p \in Processes : at[p] \in Seeding =>
    /\ disk \notin Settings
    /\ p # Serve => at[Serve] \notin {"create", "write", "ready", "serving"}
    /\ \A c \in Clients : at[c] # "done"

(* The handler that holds the lock was the last to set its field.          *)
HolderSet ==
  \A c \in Clients :
    handler[c] \in Locking /\ asks[c].field \in Fields =>
      latest[asks[c].field] = c /\ cfg[asks[c].field] = asks[c].value

(* AnsweredHolds, from the moment the save has succeeded and from the      *)
(* moment the daemon has read the file.                                    *)
Saved(c) ==
  /\ at[c] = "done" \/ handler[c] = "answer"
  /\ asks[c].field \in Fields /\ latest[asks[c].field] = c

Kept(c) ==
  /\ at[Serve] \in {"ready", "serving"} => cfg[asks[c].field] = asks[c].value
  /\ disk \in Settings => disk[asks[c].field] = asks[c].value

SavedKept == Alone => \A c \in Clients : Saved(c) => Kept(c)

(* FileWhole, with what makes it last: whoever is about to fill the file   *)
(* finds it as it was truncated, since nobody else is writing.             *)
FilledFresh ==
  Alone =>
    /\ \A p \in Processes : at[p] = "write" => disk = Empty
    /\ \A c \in Clients : handler[c] = "write" => disk = Empty

IInv ==
  /\ TypeOK /\ ServedOnly /\ OneHolder /\ Requested /\ NoFileYet
  /\ SeederKnown /\ SeederAlone /\ HolderSet /\ SavedKept
  /\ FilledFresh /\ FileWhole
-----------------------------------------------------------------------------
(* The defaults are settings, and differ from what stands for a file that  *)
(* cannot be read.                                                         *)
LEMMA DefaultsSettings == Defaults \in Settings /\ Defaults \notin {Absent, Empty, Torn}
PROOF
<1>1. Defaults \in Settings
  BY ControlAssumption DEF Defaults, Settings
<1> QED
  BY <1>1, ControlAssumption

LEMMA TypedInit == Init => TypeOK
PROOF
<1> SUFFICES ASSUME Init PROVE TypeOK
  OBVIOUS
<1>1. disk \in Settings \cup {Absent, Empty, Torn} /\ cfg \in Settings
  BY ControlAssumption, DefaultsSettings DEF Init
<1>2. asks \in [Clients -> Commands]
  BY DEF Init, Commands
<1>3. up \in BOOLEAN /\ cut \in BOOLEAN /\ addr \in Addresses
  BY DEF Init, Addresses
<1>4. /\ at \in [Processes -> {"off", "load", "create", "write", "ready", "asked",
                            "serving", "done", "failed"}]
      /\ handler \in [Clients -> {"none", "queued", "create", "write", "answer"}]
      /\ mu \in Clients \cup {NoClient}
      /\ latest \in [Fields -> Clients \cup {NoClient}]
      /\ seeded \subseteq Processes
  BY DEF Init
<1>5. starts \in Nat /\ failures \in Nat /\ flips \in Nat
  BY DEF Init
<1> QED
  BY <1>1, <1>2, <1>3, <1>4, <1>5 DEF TypeOK

(* Every step keeps the types.                                             *)
LEMMA TypedStep ==
  ASSUME TypeOK, [Next]_vars
  PROVE  TypeOK'
PROOF
<1> USE ControlAssumption DEF TypeOK, Settings, Commands, Report, Fields, Defaults, Processes, Addresses
<1>1. ASSUME Start PROVE TypeOK'
  BY <1>1 DEF Start, envVars, serverVars
<1>2. ASSUME Listen PROVE TypeOK'
  BY <1>2 DEF Listen, envVars, serverVars, ListenAddr
<1>3. ASSUME Stop PROVE TypeOK'
  BY <1>3 DEF Stop, envVars, serverVars
<1>4. ASSUME Flip PROVE TypeOK'
  BY <1>4 DEF Flip, envVars, serverVars
<1>5. ASSUME NEW p \in Processes, Load(p) PROVE TypeOK'
  <2>1. cfg' \in Settings
    BY <1>5, DefaultsSettings DEF Load, Keep
  <2>2. at' \in [Processes -> {"off", "load", "create", "write", "ready", "asked",
                              "serving", "done", "failed"}]
    BY <1>5 DEF Load
  <2>3. seeded' \subseteq Processes
    BY <1>5 DEF Load
  <2> QED
    BY <1>5, <2>1, <2>2, <2>3 DEF Load, envVars, serverVars
<1>6. ASSUME NEW p \in Processes, SeedCreate(p) PROVE TypeOK'
  BY <1>6 DEF SeedCreate, envVars, serverVars
<1>7. ASSUME NEW p \in Processes, SeedWrite(p) PROVE TypeOK'
  <2>1. disk' \in Settings \cup {Torn}
    BY <1>7, DefaultsSettings DEF SeedWrite, Filled
  <2> QED
    BY <1>7, <2>1 DEF SeedWrite, envVars, serverVars
<1>8. ASSUME NEW p \in Processes, SeedFails(p) PROVE TypeOK'
  BY <1>8 DEF SeedFails, envVars, serverVars
<1>9. ASSUME NEW c \in Clients, Invoke(c) PROVE TypeOK'
  BY <1>9 DEF Invoke, envVars, serverVars
<1>10. ASSUME NEW c \in Clients, NEW cmd \in Commands, Dial(c, cmd) PROVE TypeOK'
  BY <1>10 DEF Dial, envVars, serverVars
<1>11. ASSUME NEW c \in Clients, DialFails(c) PROVE TypeOK'
  BY <1>11 DEF DialFails, envVars, serverVars
<1>12. ASSUME NEW c \in Clients, Timeout(c) PROVE TypeOK'
  BY <1>12 DEF Timeout, envVars, serverVars
<1>13. ASSUME NEW c \in Clients, Set(c) PROVE TypeOK'
  BY <1>13 DEF Set, envVars, serverVars, Lock
<1>14. ASSUME NEW c \in Clients, Status(c) PROVE TypeOK'
  BY <1>14 DEF Status, envVars, serverVars, Lock
<1>15. ASSUME NEW c \in Clients, SaveCreate(c) PROVE TypeOK'
  BY <1>15 DEF SaveCreate, envVars, serverVars
<1>16. ASSUME NEW c \in Clients, SaveWrite(c) PROVE TypeOK'
  BY <1>16 DEF SaveWrite, envVars, serverVars, Filled
<1>17. ASSUME NEW c \in Clients, SaveFails(c) PROVE TypeOK'
  BY <1>17 DEF SaveFails, envVars, serverVars, Reply
<1>18. ASSUME NEW c \in Clients, Answer(c) PROVE TypeOK'
  BY <1>18 DEF Answer, envVars, serverVars, Reply
<1>19. CASE UNCHANGED vars
  BY <1>19 DEF vars
<1> QED
  BY <1>1, <1>2, <1>3, <1>4, <1>5, <1>6, <1>7, <1>8, <1>9, <1>10, <1>11, <1>12, <1>13, <1>14, <1>15, <1>16, <1>17, <1>18, <1>19 DEF Next, Loading, Client, Handler

(* Every step keeps the goroutines within the life of the process.         *)
LEMMA ServedStep ==
  ASSUME TypeOK, ServedOnly, OneHolder, [Next]_vars
  PROVE  ServedOnly'
PROOF
<1> USE ControlAssumption DEF TypeOK, Processes, ServedOnly
<1>1. ASSUME Start PROVE ServedOnly'
  BY <1>1 DEF Start, envVars, serverVars
<1>2. ASSUME Listen PROVE ServedOnly'
  BY <1>2 DEF Listen, envVars, serverVars, ListenAddr
<1>3. ASSUME Stop PROVE ServedOnly'
  BY <1>3 DEF Stop, envVars, serverVars
<1>4. ASSUME Flip PROVE ServedOnly'
  BY <1>4 DEF Flip, envVars, serverVars
<1>5. ASSUME NEW p \in Processes, Load(p) PROVE ServedOnly'
  BY <1>5 DEF Load, envVars, serverVars, Keep
<1>6. ASSUME NEW p \in Processes, SeedCreate(p) PROVE ServedOnly'
  BY <1>6 DEF SeedCreate, envVars, serverVars
<1>7. ASSUME NEW p \in Processes, SeedWrite(p) PROVE ServedOnly'
  BY <1>7 DEF SeedWrite, envVars, serverVars, Filled
<1>8. ASSUME NEW p \in Processes, SeedFails(p) PROVE ServedOnly'
  BY <1>8 DEF SeedFails, envVars, serverVars
<1>9. ASSUME NEW c \in Clients, Invoke(c) PROVE ServedOnly'
  BY <1>9 DEF Invoke, envVars, serverVars
<1>10. ASSUME NEW c \in Clients, NEW cmd \in Commands, Dial(c, cmd) PROVE ServedOnly'
  BY <1>10 DEF Dial, envVars, serverVars
<1>11. ASSUME NEW c \in Clients, DialFails(c) PROVE ServedOnly'
  BY <1>11 DEF DialFails, envVars, serverVars
<1>12. ASSUME NEW c \in Clients, Timeout(c) PROVE ServedOnly'
  BY <1>12 DEF Timeout, envVars, serverVars
<1>13. ASSUME NEW c \in Clients, Set(c) PROVE ServedOnly'
  BY <1>13 DEF Set, envVars, serverVars, Lock
<1>14. ASSUME NEW c \in Clients, Status(c) PROVE ServedOnly'
  BY <1>14 DEF Status, envVars, serverVars, Lock
<1>15. ASSUME NEW c \in Clients, SaveCreate(c) PROVE ServedOnly'
  BY <1>15 DEF SaveCreate, envVars, serverVars
<1>16. ASSUME NEW c \in Clients, SaveWrite(c) PROVE ServedOnly'
  BY <1>16 DEF SaveWrite, envVars, serverVars, Filled
<1>17. ASSUME NEW c \in Clients, SaveFails(c) PROVE ServedOnly'
  BY <1>17 DEF SaveFails, envVars, serverVars, Reply
<1>18. ASSUME NEW c \in Clients, Answer(c) PROVE ServedOnly'
  BY <1>18 DEF Answer, envVars, serverVars, Reply
<1>19. CASE UNCHANGED vars
  BY <1>19 DEF vars
<1> QED
  BY <1>1, <1>2, <1>3, <1>4, <1>5, <1>6, <1>7, <1>8, <1>9, <1>10, <1>11, <1>12, <1>13, <1>14, <1>15, <1>16, <1>17, <1>18, <1>19 DEF Next, Loading, Client, Handler

(* Every step keeps the lock with the handlers that have taken it.         *)
LEMMA HolderStep ==
  ASSUME TypeOK, ServedOnly, OneHolder, Requested, [Next]_vars
  PROVE  OneHolder'
PROOF
<1> USE ControlAssumption DEF TypeOK, OneHolder, Requested, Processes, Locking
<1>1. ASSUME Start PROVE OneHolder'
  BY <1>1 DEF Start, envVars, serverVars
<1>2. ASSUME Listen PROVE OneHolder'
  BY <1>2 DEF Listen, envVars, serverVars, ListenAddr
<1>3. ASSUME Stop PROVE OneHolder'
  BY <1>3 DEF Stop, envVars, serverVars
<1>4. ASSUME Flip PROVE OneHolder'
  BY <1>4 DEF Flip, envVars, serverVars
<1>5. ASSUME NEW p \in Processes, Load(p) PROVE OneHolder'
  BY <1>5 DEF Load, envVars, serverVars, Keep
<1>6. ASSUME NEW p \in Processes, SeedCreate(p) PROVE OneHolder'
  BY <1>6 DEF SeedCreate, envVars, serverVars
<1>7. ASSUME NEW p \in Processes, SeedWrite(p) PROVE OneHolder'
  BY <1>7 DEF SeedWrite, envVars, serverVars, Filled
<1>8. ASSUME NEW p \in Processes, SeedFails(p) PROVE OneHolder'
  BY <1>8 DEF SeedFails, envVars, serverVars
<1>9. ASSUME NEW c \in Clients, Invoke(c) PROVE OneHolder'
  BY <1>9 DEF Invoke, envVars, serverVars
<1>10. ASSUME NEW c \in Clients, NEW cmd \in Commands, Dial(c, cmd) PROVE OneHolder'
  BY <1>10 DEF Dial, envVars, serverVars
<1>11. ASSUME NEW c \in Clients, DialFails(c) PROVE OneHolder'
  BY <1>11 DEF DialFails, envVars, serverVars
<1>12. ASSUME NEW c \in Clients, Timeout(c) PROVE OneHolder'
  BY <1>12 DEF Timeout, envVars, serverVars
<1>13. ASSUME NEW c \in Clients, Set(c) PROVE OneHolder'
  BY <1>13 DEF Set, envVars, serverVars, Lock
<1>14. ASSUME NEW c \in Clients, Status(c) PROVE OneHolder'
  BY <1>14 DEF Status, envVars, serverVars, Lock
<1>15. ASSUME NEW c \in Clients, SaveCreate(c) PROVE OneHolder'
  BY <1>15 DEF SaveCreate, envVars, serverVars
<1>16. ASSUME NEW c \in Clients, SaveWrite(c) PROVE OneHolder'
  BY <1>16 DEF SaveWrite, envVars, serverVars, Filled
<1>17. ASSUME NEW c \in Clients, SaveFails(c) PROVE OneHolder'
  BY <1>17 DEF SaveFails, envVars, serverVars, Reply
<1>18. ASSUME NEW c \in Clients, Answer(c) PROVE OneHolder'
  BY <1>18 DEF Answer, envVars, serverVars, Reply
<1>19. CASE UNCHANGED vars
  BY <1>19 DEF vars
<1> QED
  BY <1>1, <1>2, <1>3, <1>4, <1>5, <1>6, <1>7, <1>8, <1>9, <1>10, <1>11, <1>12, <1>13, <1>14, <1>15, <1>16, <1>17, <1>18, <1>19 DEF Next, Loading, Client, Handler

(* Every step keeps the clients and their handlers together.               *)
LEMMA RequestStep ==
  ASSUME TypeOK, Requested, [Next]_vars
  PROVE  Requested'
PROOF
<1> USE ControlAssumption DEF TypeOK, Processes, Requested
<1>1. ASSUME Start PROVE Requested'
  BY <1>1 DEF Start, envVars, serverVars
<1>2. ASSUME Listen PROVE Requested'
  BY <1>2 DEF Listen, envVars, serverVars, ListenAddr
<1>3. ASSUME Stop PROVE Requested'
  BY <1>3 DEF Stop, envVars, serverVars
<1>4. ASSUME Flip PROVE Requested'
  BY <1>4 DEF Flip, envVars, serverVars
<1>5. ASSUME NEW p \in Processes, Load(p) PROVE Requested'
  BY <1>5 DEF Load, envVars, serverVars, Keep
<1>6. ASSUME NEW p \in Processes, SeedCreate(p) PROVE Requested'
  BY <1>6 DEF SeedCreate, envVars, serverVars
<1>7. ASSUME NEW p \in Processes, SeedWrite(p) PROVE Requested'
  BY <1>7 DEF SeedWrite, envVars, serverVars, Filled
<1>8. ASSUME NEW p \in Processes, SeedFails(p) PROVE Requested'
  BY <1>8 DEF SeedFails, envVars, serverVars
<1>9. ASSUME NEW c \in Clients, Invoke(c) PROVE Requested'
  BY <1>9 DEF Invoke, envVars, serverVars
<1>10. ASSUME NEW c \in Clients, NEW cmd \in Commands, Dial(c, cmd) PROVE Requested'
  BY <1>10 DEF Dial, envVars, serverVars
<1>11. ASSUME NEW c \in Clients, DialFails(c) PROVE Requested'
  BY <1>11 DEF DialFails, envVars, serverVars
<1>12. ASSUME NEW c \in Clients, Timeout(c) PROVE Requested'
  BY <1>12 DEF Timeout, envVars, serverVars
<1>13. ASSUME NEW c \in Clients, Set(c) PROVE Requested'
  BY <1>13 DEF Set, envVars, serverVars, Lock
<1>14. ASSUME NEW c \in Clients, Status(c) PROVE Requested'
  BY <1>14 DEF Status, envVars, serverVars, Lock
<1>15. ASSUME NEW c \in Clients, SaveCreate(c) PROVE Requested'
  BY <1>15 DEF SaveCreate, envVars, serverVars
<1>16. ASSUME NEW c \in Clients, SaveWrite(c) PROVE Requested'
  BY <1>16 DEF SaveWrite, envVars, serverVars, Filled
<1>17. ASSUME NEW c \in Clients, SaveFails(c) PROVE Requested'
  BY <1>17 DEF SaveFails, envVars, serverVars, Reply
<1>18. ASSUME NEW c \in Clients, Answer(c) PROVE Requested'
  BY <1>18 DEF Answer, envVars, serverVars, Reply
<1>19. CASE UNCHANGED vars
  BY <1>19 DEF vars
<1> QED
  BY <1>1, <1>2, <1>3, <1>4, <1>5, <1>6, <1>7, <1>8, <1>9, <1>10, <1>11, <1>12, <1>13, <1>14, <1>15, <1>16, <1>17, <1>18, <1>19 DEF Next, Loading, Client, Handler

(* No step serves, or answers, before there is a file.                     *)
LEMMA NoFileStep ==
  ASSUME TypeOK, ServedOnly, NoFileYet, [Next]_vars
  PROVE  NoFileYet'
PROOF
<1> USE ControlAssumption DEF TypeOK, Settings, Defaults, Processes, ServedOnly, NoFileYet
<1>1. ASSUME Start PROVE NoFileYet'
  BY <1>1 DEF Start, envVars, serverVars
<1>2. ASSUME Listen PROVE NoFileYet'
  BY <1>2 DEF Listen, envVars, serverVars, ListenAddr
<1>3. ASSUME Stop PROVE NoFileYet'
  BY <1>3 DEF Stop, envVars, serverVars
<1>4. ASSUME Flip PROVE NoFileYet'
  BY <1>4 DEF Flip, envVars, serverVars
<1>5. ASSUME NEW p \in Processes, Load(p) PROVE NoFileYet'
  BY <1>5 DEF Load, envVars, serverVars, Keep
<1>6. ASSUME NEW p \in Processes, SeedCreate(p) PROVE NoFileYet'
  BY <1>6 DEF SeedCreate, envVars, serverVars
<1>7. ASSUME NEW p \in Processes, SeedWrite(p) PROVE NoFileYet'
  BY <1>7, DefaultsSettings DEF SeedWrite, envVars, serverVars, Filled
<1>8. ASSUME NEW p \in Processes, SeedFails(p) PROVE NoFileYet'
  BY <1>8 DEF SeedFails, envVars, serverVars
<1>9. ASSUME NEW c \in Clients, Invoke(c) PROVE NoFileYet'
  BY <1>9 DEF Invoke, envVars, serverVars
<1>10. ASSUME NEW c \in Clients, NEW cmd \in Commands, Dial(c, cmd) PROVE NoFileYet'
  BY <1>10 DEF Dial, envVars, serverVars
<1>11. ASSUME NEW c \in Clients, DialFails(c) PROVE NoFileYet'
  BY <1>11 DEF DialFails, envVars, serverVars
<1>12. ASSUME NEW c \in Clients, Timeout(c) PROVE NoFileYet'
  BY <1>12 DEF Timeout, envVars, serverVars
<1>13. ASSUME NEW c \in Clients, Set(c) PROVE NoFileYet'
  BY <1>13 DEF Set, envVars, serverVars, Lock
<1>14. ASSUME NEW c \in Clients, Status(c) PROVE NoFileYet'
  BY <1>14 DEF Status, envVars, serverVars, Lock
<1>15. ASSUME NEW c \in Clients, SaveCreate(c) PROVE NoFileYet'
  BY <1>15 DEF SaveCreate, envVars, serverVars
<1>16. ASSUME NEW c \in Clients, SaveWrite(c) PROVE NoFileYet'
  BY <1>16 DEF SaveWrite, envVars, serverVars, Filled
<1>17. ASSUME NEW c \in Clients, SaveFails(c) PROVE NoFileYet'
  BY <1>17 DEF SaveFails, envVars, serverVars, Reply
<1>18. ASSUME NEW c \in Clients, Answer(c) PROVE NoFileYet'
  BY <1>18 DEF Answer, envVars, serverVars, Reply
<1>19. CASE UNCHANGED vars
  BY <1>19 DEF vars
<1> QED
  BY <1>1, <1>2, <1>3, <1>4, <1>5, <1>6, <1>7, <1>8, <1>9, <1>10, <1>11, <1>12, <1>13, <1>14, <1>15, <1>16, <1>17, <1>18, <1>19 DEF Next, Loading, Client, Handler

(* Every step keeps account of the processes that seed.                    *)
LEMMA KnownStep ==
  ASSUME TypeOK, SeederKnown, [Next]_vars
  PROVE  SeederKnown'
PROOF
<1> USE ControlAssumption DEF TypeOK, Processes, SeederKnown, Seeding
<1>1. ASSUME Start PROVE SeederKnown'
  BY <1>1 DEF Start, envVars, serverVars
<1>2. ASSUME Listen PROVE SeederKnown'
  BY <1>2 DEF Listen, envVars, serverVars, ListenAddr
<1>3. ASSUME Stop PROVE SeederKnown'
  BY <1>3 DEF Stop, envVars, serverVars
<1>4. ASSUME Flip PROVE SeederKnown'
  BY <1>4 DEF Flip, envVars, serverVars
<1>5. ASSUME NEW p \in Processes, Load(p) PROVE SeederKnown'
  BY <1>5 DEF Load, envVars, serverVars, Keep
<1>6. ASSUME NEW p \in Processes, SeedCreate(p) PROVE SeederKnown'
  BY <1>6 DEF SeedCreate, envVars, serverVars
<1>7. ASSUME NEW p \in Processes, SeedWrite(p) PROVE SeederKnown'
  BY <1>7 DEF SeedWrite, envVars, serverVars, Filled
<1>8. ASSUME NEW p \in Processes, SeedFails(p) PROVE SeederKnown'
  BY <1>8 DEF SeedFails, envVars, serverVars
<1>9. ASSUME NEW c \in Clients, Invoke(c) PROVE SeederKnown'
  BY <1>9 DEF Invoke, envVars, serverVars
<1>10. ASSUME NEW c \in Clients, NEW cmd \in Commands, Dial(c, cmd) PROVE SeederKnown'
  BY <1>10 DEF Dial, envVars, serverVars
<1>11. ASSUME NEW c \in Clients, DialFails(c) PROVE SeederKnown'
  BY <1>11 DEF DialFails, envVars, serverVars
<1>12. ASSUME NEW c \in Clients, Timeout(c) PROVE SeederKnown'
  BY <1>12 DEF Timeout, envVars, serverVars
<1>13. ASSUME NEW c \in Clients, Set(c) PROVE SeederKnown'
  BY <1>13 DEF Set, envVars, serverVars, Lock
<1>14. ASSUME NEW c \in Clients, Status(c) PROVE SeederKnown'
  BY <1>14 DEF Status, envVars, serverVars, Lock
<1>15. ASSUME NEW c \in Clients, SaveCreate(c) PROVE SeederKnown'
  BY <1>15 DEF SaveCreate, envVars, serverVars
<1>16. ASSUME NEW c \in Clients, SaveWrite(c) PROVE SeederKnown'
  BY <1>16 DEF SaveWrite, envVars, serverVars, Filled
<1>17. ASSUME NEW c \in Clients, SaveFails(c) PROVE SeederKnown'
  BY <1>17 DEF SaveFails, envVars, serverVars, Reply
<1>18. ASSUME NEW c \in Clients, Answer(c) PROVE SeederKnown'
  BY <1>18 DEF Answer, envVars, serverVars, Reply
<1>19. CASE UNCHANGED vars
  BY <1>19 DEF vars
<1> QED
  BY <1>1, <1>2, <1>3, <1>4, <1>5, <1>6, <1>7, <1>8, <1>9, <1>10, <1>11, <1>12, <1>13, <1>14, <1>15, <1>16, <1>17, <1>18, <1>19 DEF Next, Loading, Client, Handler

(* A process that seeds alone stays alone.                                 *)
LEMMA AloneStep ==
  ASSUME TypeOK, ServedOnly, NoFileYet, SeederKnown, SeederAlone, [Next]_vars
  PROVE  SeederAlone'
PROOF
<1> USE ControlAssumption DEF TypeOK, Processes, ServedOnly, NoFileYet, SeederKnown, SeederAlone, Seeding, Alone
<1>1. ASSUME Start PROVE SeederAlone'
  BY <1>1 DEF Start, envVars, serverVars
<1>2. ASSUME Listen PROVE SeederAlone'
  BY <1>2 DEF Listen, envVars, serverVars, ListenAddr
<1>3. ASSUME Stop PROVE SeederAlone'
  BY <1>3 DEF Stop, envVars, serverVars
<1>4. ASSUME Flip PROVE SeederAlone'
  BY <1>4 DEF Flip, envVars, serverVars
<1>5. ASSUME NEW p \in Processes, Load(p) PROVE SeederAlone'
  BY <1>5 DEF Load, envVars, serverVars, Keep
<1>6. ASSUME NEW p \in Processes, SeedCreate(p) PROVE SeederAlone'
  BY <1>6 DEF SeedCreate, envVars, serverVars
<1>7. ASSUME NEW p \in Processes, SeedWrite(p) PROVE SeederAlone'
  BY <1>7 DEF SeedWrite, envVars, serverVars, Filled
<1>8. ASSUME NEW p \in Processes, SeedFails(p) PROVE SeederAlone'
  BY <1>8 DEF SeedFails, envVars, serverVars
<1>9. ASSUME NEW c \in Clients, Invoke(c) PROVE SeederAlone'
  BY <1>9 DEF Invoke, envVars, serverVars
<1>10. ASSUME NEW c \in Clients, NEW cmd \in Commands, Dial(c, cmd) PROVE SeederAlone'
  BY <1>10 DEF Dial, envVars, serverVars
<1>11. ASSUME NEW c \in Clients, DialFails(c) PROVE SeederAlone'
  BY <1>11 DEF DialFails, envVars, serverVars
<1>12. ASSUME NEW c \in Clients, Timeout(c) PROVE SeederAlone'
  BY <1>12 DEF Timeout, envVars, serverVars
<1>13. ASSUME NEW c \in Clients, Set(c) PROVE SeederAlone'
  BY <1>13 DEF Set, envVars, serverVars, Lock
<1>14. ASSUME NEW c \in Clients, Status(c) PROVE SeederAlone'
  BY <1>14 DEF Status, envVars, serverVars, Lock
<1>15. ASSUME NEW c \in Clients, SaveCreate(c) PROVE SeederAlone'
  BY <1>15 DEF SaveCreate, envVars, serverVars
<1>16. ASSUME NEW c \in Clients, SaveWrite(c) PROVE SeederAlone'
  BY <1>16 DEF SaveWrite, envVars, serverVars, Filled
<1>17. ASSUME NEW c \in Clients, SaveFails(c) PROVE SeederAlone'
  BY <1>17 DEF SaveFails, envVars, serverVars, Reply
<1>18. ASSUME NEW c \in Clients, Answer(c) PROVE SeederAlone'
  BY <1>18 DEF Answer, envVars, serverVars, Reply
<1>19. CASE UNCHANGED vars
  BY <1>19 DEF vars
<1> QED
  BY <1>1, <1>2, <1>3, <1>4, <1>5, <1>6, <1>7, <1>8, <1>9, <1>10, <1>11, <1>12, <1>13, <1>14, <1>15, <1>16, <1>17, <1>18, <1>19 DEF Next, Loading, Client, Handler

(* No step of another process changes what the holder of the lock has set. *)
LEMMA SetStep ==
  ASSUME TypeOK, OneHolder, ServedOnly, HolderSet, [Next]_vars
  PROVE  HolderSet'
PROOF
<1> USE ControlAssumption DEF TypeOK, Settings, Commands, Report, Fields, Defaults, Processes, Addresses, OneHolder, ServedOnly, HolderSet, Locking
<1>1. ASSUME Start PROVE HolderSet'
  BY <1>1 DEF Start, envVars, serverVars
<1>2. ASSUME Listen PROVE HolderSet'
  BY <1>2 DEF Listen, envVars, serverVars, ListenAddr
<1>3. ASSUME Stop PROVE HolderSet'
  BY <1>3 DEF Stop, envVars, serverVars
<1>4. ASSUME Flip PROVE HolderSet'
  BY <1>4 DEF Flip, envVars, serverVars
<1>5. ASSUME NEW p \in Processes, Load(p) PROVE HolderSet'
  BY <1>5 DEF Load, envVars, serverVars, Keep
<1>6. ASSUME NEW p \in Processes, SeedCreate(p) PROVE HolderSet'
  BY <1>6 DEF SeedCreate, envVars, serverVars
<1>7. ASSUME NEW p \in Processes, SeedWrite(p) PROVE HolderSet'
  BY <1>7 DEF SeedWrite, envVars, serverVars, Filled
<1>8. ASSUME NEW p \in Processes, SeedFails(p) PROVE HolderSet'
  BY <1>8 DEF SeedFails, envVars, serverVars
<1>9. ASSUME NEW c \in Clients, Invoke(c) PROVE HolderSet'
  BY <1>9 DEF Invoke, envVars, serverVars
<1>10. ASSUME NEW c \in Clients, NEW cmd \in Commands, Dial(c, cmd) PROVE HolderSet'
  BY <1>10 DEF Dial, envVars, serverVars
<1>11. ASSUME NEW c \in Clients, DialFails(c) PROVE HolderSet'
  BY <1>11 DEF DialFails, envVars, serverVars
<1>12. ASSUME NEW c \in Clients, Timeout(c) PROVE HolderSet'
  BY <1>12 DEF Timeout, envVars, serverVars
<1>13. ASSUME NEW c \in Clients, Set(c) PROVE HolderSet'
  BY <1>13 DEF Set, envVars, serverVars, Lock
<1>14. ASSUME NEW c \in Clients, Status(c) PROVE HolderSet'
  BY <1>14 DEF Status, envVars, serverVars, Lock
<1>15. ASSUME NEW c \in Clients, SaveCreate(c) PROVE HolderSet'
  BY <1>15 DEF SaveCreate, envVars, serverVars
<1>16. ASSUME NEW c \in Clients, SaveWrite(c) PROVE HolderSet'
  BY <1>16 DEF SaveWrite, envVars, serverVars, Filled
<1>17. ASSUME NEW c \in Clients, SaveFails(c) PROVE HolderSet'
  BY <1>17 DEF SaveFails, envVars, serverVars, Reply
<1>18. ASSUME NEW c \in Clients, Answer(c) PROVE HolderSet'
  BY <1>18 DEF Answer, envVars, serverVars, Reply
<1>19. CASE UNCHANGED vars
  BY <1>19 DEF vars
<1> QED
  BY <1>1, <1>2, <1>3, <1>4, <1>5, <1>6, <1>7, <1>8, <1>9, <1>10, <1>11, <1>12, <1>13, <1>14, <1>15, <1>16, <1>17, <1>18, <1>19 DEF Next, Loading, Client, Handler

(* Every step keeps what was saved.                                        *)
LEMMA KeptStep ==
  ASSUME IInv, [Next]_vars
  PROVE  SavedKept'
PROOF
<1> USE ControlAssumption DEF TypeOK, Settings, Commands, Report, Fields, Defaults, Processes, Addresses, IInv, ServedOnly, OneHolder, Requested, NoFileYet, SeederKnown, SeederAlone, HolderSet, SavedKept, Saved, Kept, Locking, Seeding, Alone
<1>1. ASSUME Start PROVE SavedKept'
  BY <1>1 DEF Start, envVars, serverVars
<1>2. ASSUME Listen PROVE SavedKept'
  BY <1>2 DEF Listen, envVars, serverVars, ListenAddr
<1>3. ASSUME Stop PROVE SavedKept'
  BY <1>3 DEF Stop, envVars, serverVars
<1>4. ASSUME Flip PROVE SavedKept'
  BY <1>4 DEF Flip, envVars, serverVars
<1>5. ASSUME NEW p \in Processes, Load(p) PROVE SavedKept'
  BY <1>5 DEF Load, envVars, serverVars, Keep
<1>6. ASSUME NEW p \in Processes, SeedCreate(p) PROVE SavedKept'
  BY <1>6 DEF SeedCreate, envVars, serverVars
<1>7. ASSUME NEW p \in Processes, SeedWrite(p) PROVE SavedKept'
  BY <1>7 DEF SeedWrite, envVars, serverVars, Filled
<1>8. ASSUME NEW p \in Processes, SeedFails(p) PROVE SavedKept'
  BY <1>8 DEF SeedFails, envVars, serverVars
<1>9. ASSUME NEW c \in Clients, Invoke(c) PROVE SavedKept'
  BY <1>9 DEF Invoke, envVars, serverVars
<1>10. ASSUME NEW c \in Clients, NEW cmd \in Commands, Dial(c, cmd) PROVE SavedKept'
  BY <1>10 DEF Dial, envVars, serverVars
<1>11. ASSUME NEW c \in Clients, DialFails(c) PROVE SavedKept'
  BY <1>11 DEF DialFails, envVars, serverVars
<1>12. ASSUME NEW c \in Clients, Timeout(c) PROVE SavedKept'
  BY <1>12 DEF Timeout, envVars, serverVars
<1>13. ASSUME NEW c \in Clients, Set(c) PROVE SavedKept'
  BY <1>13 DEF Set, envVars, serverVars, Lock
<1>14. ASSUME NEW c \in Clients, Status(c) PROVE SavedKept'
  BY <1>14 DEF Status, envVars, serverVars, Lock
<1>15. ASSUME NEW c \in Clients, SaveCreate(c) PROVE SavedKept'
  BY <1>15 DEF SaveCreate, envVars, serverVars
<1>16. ASSUME NEW c \in Clients, SaveWrite(c) PROVE SavedKept'
  BY <1>16 DEF SaveWrite, envVars, serverVars, Filled
<1>17. ASSUME NEW c \in Clients, SaveFails(c) PROVE SavedKept'
  BY <1>17 DEF SaveFails, envVars, serverVars, Reply
<1>18. ASSUME NEW c \in Clients, Answer(c) PROVE SavedKept'
  BY <1>18 DEF Answer, envVars, serverVars, Reply
<1>19. CASE UNCHANGED vars
  BY <1>19 DEF vars
<1> QED
  BY <1>1, <1>2, <1>3, <1>4, <1>5, <1>6, <1>7, <1>8, <1>9, <1>10, <1>11, <1>12, <1>13, <1>14, <1>15, <1>16, <1>17, <1>18, <1>19 DEF Next, Loading, Client, Handler

(* While no two processes have seeded the file, one at most is writing it. *)
LEMMA OneWriter ==
  ASSUME TypeOK, ServedOnly, OneHolder, SeederKnown, SeederAlone, Alone
  PROVE  /\ \A p, q \in Processes : at[p] \in Seeding /\ at[q] \in Seeding => p = q
         /\ \A c, d \in Clients :
              handler[c] \in Locking /\ handler[d] \in Locking => c = d
         /\ \A p \in Processes, c \in Clients :
              ~(at[p] \in Seeding /\ handler[c] \in Locking)
PROOF
<1>1. \A p, q \in Processes : at[p] \in Seeding /\ at[q] \in Seeding => p = q
  BY DEF SeederKnown, Alone
<1>2. \A c, d \in Clients : handler[c] \in Locking /\ handler[d] \in Locking => c = d
  BY DEF OneHolder
<1>3. ASSUME NEW p \in Processes, NEW c \in Clients,
             at[p] \in Seeding, handler[c] \in Locking
      PROVE  FALSE
  <2>1. at[Serve] = "serving"
    BY <1>3 DEF ServedOnly, Locking
  <2>2. p # Serve
    BY <1>3, <2>1 DEF Seeding
  <2> QED
    BY <1>3, <2>1, <2>2 DEF SeederAlone
<1> QED
  BY <1>1, <1>2, <1>3

(* The processes that have seeded the file only become more.               *)
LEMMA AloneBefore ==
  ASSUME [Next]_vars, Alone'
  PROVE  Alone
PROOF
<1>1. seeded \subseteq seeded'
  BY DEF Next, Loading, Client, Handler, Start, Listen, Stop, Flip, Load, SeedCreate,
     SeedWrite, SeedFails, Invoke, Dial, DialFails, Timeout, Set, Status, SaveCreate,
     SaveWrite, SaveFails, Answer, vars
<1> QED
  BY <1>1 DEF Alone

(* Every step leaves the file to its writer.                               *)
LEMMA FreshStep ==
  ASSUME TypeOK, ServedOnly, OneHolder, SeederKnown, SeederAlone, FilledFresh,
         [Next]_vars
  PROVE  FilledFresh'
PROOF
<1> SUFFICES ASSUME Alone' PROVE FilledFresh'
  BY DEF FilledFresh
<1>a. Alone
  BY AloneBefore
<1>b. /\ \A p, q \in Processes : at[p] \in Seeding /\ at[q] \in Seeding => p = q
      /\ \A c, d \in Clients :
           handler[c] \in Locking /\ handler[d] \in Locking => c = d
      /\ \A p \in Processes, c \in Clients :
           ~(at[p] \in Seeding /\ handler[c] \in Locking)
  BY <1>a, OneWriter
<1> USE <1>a, ControlAssumption DEF TypeOK, Processes, FilledFresh, Seeding, Locking
<1>1. ASSUME Start PROVE FilledFresh'
  BY <1>1 DEF Start, envVars, serverVars
<1>2. ASSUME Listen PROVE FilledFresh'
  BY <1>2 DEF Listen, envVars, serverVars, ListenAddr
<1>3. ASSUME Stop PROVE FilledFresh'
  BY <1>3 DEF Stop, envVars, serverVars
<1>4. ASSUME Flip PROVE FilledFresh'
  BY <1>4 DEF Flip, envVars, serverVars
<1>5. ASSUME NEW p \in Processes, Load(p) PROVE FilledFresh'
  BY <1>5 DEF Load, envVars, serverVars, Keep
<1>6. ASSUME NEW p \in Processes, SeedCreate(p) PROVE FilledFresh'
  BY <1>6 DEF SeedCreate, envVars, serverVars
<1>7. ASSUME NEW p \in Processes, SeedWrite(p) PROVE FilledFresh'
  BY <1>7, <1>b DEF SeedWrite, envVars, serverVars, Filled
<1>8. ASSUME NEW p \in Processes, SeedFails(p) PROVE FilledFresh'
  BY <1>8 DEF SeedFails, envVars, serverVars
<1>9. ASSUME NEW c \in Clients, Invoke(c) PROVE FilledFresh'
  BY <1>9 DEF Invoke, envVars, serverVars
<1>10. ASSUME NEW c \in Clients, NEW cmd \in Commands, Dial(c, cmd) PROVE FilledFresh'
  BY <1>10 DEF Dial, envVars, serverVars
<1>11. ASSUME NEW c \in Clients, DialFails(c) PROVE FilledFresh'
  BY <1>11 DEF DialFails, envVars, serverVars
<1>12. ASSUME NEW c \in Clients, Timeout(c) PROVE FilledFresh'
  BY <1>12 DEF Timeout, envVars, serverVars
<1>13. ASSUME NEW c \in Clients, Set(c) PROVE FilledFresh'
  BY <1>13 DEF Set, envVars, serverVars, Lock
<1>14. ASSUME NEW c \in Clients, Status(c) PROVE FilledFresh'
  BY <1>14 DEF Status, envVars, serverVars, Lock
<1>15. ASSUME NEW c \in Clients, SaveCreate(c) PROVE FilledFresh'
  BY <1>15 DEF SaveCreate, envVars, serverVars
<1>16. ASSUME NEW c \in Clients, SaveWrite(c) PROVE FilledFresh'
  BY <1>16, <1>b DEF SaveWrite, envVars, serverVars, Filled
<1>17. ASSUME NEW c \in Clients, SaveFails(c) PROVE FilledFresh'
  BY <1>17 DEF SaveFails, envVars, serverVars, Reply
<1>18. ASSUME NEW c \in Clients, Answer(c) PROVE FilledFresh'
  BY <1>18 DEF Answer, envVars, serverVars, Reply
<1>19. CASE UNCHANGED vars
  BY <1>19 DEF vars
<1> QED
  BY <1>1, <1>2, <1>3, <1>4, <1>5, <1>6, <1>7, <1>8, <1>9, <1>10, <1>11, <1>12, <1>13, <1>14, <1>15, <1>16, <1>17, <1>18, <1>19 DEF Next, Loading, Client, Handler

(* Every step keeps the file whole, or notes that it has cut a write short.*)
LEMMA WholeStep ==
  ASSUME TypeOK, Requested, FilledFresh, FileWhole, [Next]_vars
  PROVE  FileWhole'
PROOF
<1> SUFFICES ASSUME Alone' PROVE FileWhole'
  BY DEF FileWhole
<1>a. Alone
  BY AloneBefore
<1> USE <1>a, ControlAssumption DEF TypeOK, Processes, FileWhole
<1>1. ASSUME Start PROVE FileWhole'
  BY <1>1 DEF Start, envVars, serverVars
<1>2. ASSUME Listen PROVE FileWhole'
  BY <1>2 DEF Listen, envVars, serverVars, ListenAddr
<1>3. ASSUME Stop PROVE FileWhole'
  BY <1>3 DEF Stop, envVars, serverVars
<1>4. ASSUME Flip PROVE FileWhole'
  BY <1>4 DEF Flip, envVars, serverVars
<1>5. ASSUME NEW p \in Processes, Load(p) PROVE FileWhole'
  BY <1>5 DEF Load, envVars, serverVars, Keep
<1>6. ASSUME NEW p \in Processes, SeedCreate(p) PROVE FileWhole'
  BY <1>6 DEF SeedCreate, envVars, serverVars
<1>7. ASSUME NEW p \in Processes, SeedWrite(p) PROVE FileWhole'
  BY <1>7, DefaultsSettings DEF FilledFresh, SeedWrite, envVars, serverVars, Filled
<1>8. ASSUME NEW p \in Processes, SeedFails(p) PROVE FileWhole'
  BY <1>8 DEF SeedFails, envVars, serverVars
<1>9. ASSUME NEW c \in Clients, Invoke(c) PROVE FileWhole'
  BY <1>9 DEF Invoke, envVars, serverVars
<1>10. ASSUME NEW c \in Clients, NEW cmd \in Commands, Dial(c, cmd) PROVE FileWhole'
  <2>1. UNCHANGED <<disk, seeded, cut>>
    BY <1>10 DEF Dial
  <2>2. /\ \A p \in Processes : at[p] = "write" => at'[p] = "write"
        /\ \A d \in Clients : handler[d] = "write" => handler'[d] = "write"
    BY <1>10 DEF Dial, Requested
  <2> QED
    BY <2>1, <2>2 DEF Alone
<1>11. ASSUME NEW c \in Clients, DialFails(c) PROVE FileWhole'
  BY <1>11 DEF DialFails, envVars, serverVars
<1>12. ASSUME NEW c \in Clients, Timeout(c) PROVE FileWhole'
  BY <1>12 DEF Timeout, envVars, serverVars
<1>13. ASSUME NEW c \in Clients, Set(c) PROVE FileWhole'
  BY <1>13 DEF Set, envVars, serverVars, Lock
<1>14. ASSUME NEW c \in Clients, Status(c) PROVE FileWhole'
  BY <1>14 DEF Status, envVars, serverVars, Lock
<1>15. ASSUME NEW c \in Clients, SaveCreate(c) PROVE FileWhole'
  BY <1>15 DEF SaveCreate, envVars, serverVars
<1>16. ASSUME NEW c \in Clients, SaveWrite(c) PROVE FileWhole'
  BY <1>16 DEF FilledFresh, SaveWrite, envVars, serverVars, Filled
<1>17. ASSUME NEW c \in Clients, SaveFails(c) PROVE FileWhole'
  BY <1>17 DEF SaveFails, envVars, serverVars, Reply
<1>18. ASSUME NEW c \in Clients, Answer(c) PROVE FileWhole'
  BY <1>18 DEF Answer, envVars, serverVars, Reply
<1>19. CASE UNCHANGED vars
  BY <1>19 DEF vars
<1> QED
  BY <1>1, <1>2, <1>3, <1>4, <1>5, <1>6, <1>7, <1>8, <1>9, <1>10, <1>11, <1>12, <1>13, <1>14, <1>15, <1>16, <1>17, <1>18, <1>19 DEF Next, Loading, Client, Handler

-----------------------------------------------------------------------------
(* TypeOK is an invariant: the daemon works only with settings it has read *)
(* in full or made itself, whatever it found and whatever failed.          *)
THEOREM Typed == Spec => []TypeOK
PROOF
<1>1. Init => TypeOK
  BY TypedInit
<1>2. TypeOK /\ [Next]_vars => TypeOK'
  BY TypedStep
<1> QED
  BY <1>1, <1>2, PTL DEF Spec

(* The strengthening is an invariant of the specification.                 *)
LEMMA Inductive == Spec => []IInv
PROOF
<1>1. Init => IInv
  BY TypedInit, ControlAssumption
     DEF Init, IInv, Processes, ServedOnly, OneHolder, Requested, NoFileYet,
     SeederKnown, SeederAlone, HolderSet, SavedKept, Saved, Locking, Seeding,
     FilledFresh, FileWhole
<1>2. IInv /\ [Next]_vars => IInv'
  BY TypedStep, ServedStep, HolderStep, RequestStep, NoFileStep, KnownStep,
     AloneStep, SetStep, KeptStep, FreshStep, WholeStep DEF IInv
<1> QED
  BY <1>1, <1>2, PTL DEF Spec

(* AnsweredHolds is an invariant: for any clients, names, failures and     *)
(* restarts, a setting the user was told about holds until it is set again.*)
THEOREM AnswersHold == Spec => []AnsweredHolds
PROOF
<1>1. IInv => AnsweredHolds
  BY DEF IInv, SavedKept, Saved, Kept, AnsweredHolds, Stands, Holds
<1> QED
  BY <1>1, Inductive, PTL

(* LockLent is an invariant: whatever fails, and wherever the process ends,*)
(* Daemon.mu is with the one handler that works, which will give it back.  *)
THEOREM LockComesBack == Spec => []LockLent
PROOF
<1>1. IInv => LockLent
  BY DEF IInv, OneHolder, Locking, LockLent
<1> QED
  BY <1>1, Inductive, PTL

(* FileWhole is an invariant: unless two processes have seeded config.json,*)
(* it is damaged by nothing but a write that was cut short.                *)
THEOREM FileStaysWhole == Spec => []FileWhole
PROOF
<1>1. IInv => FileWhole
  BY DEF IInv
<1> QED
  BY <1>1, Inductive, PTL

(* What is on disk when nobody writes, after no write was cut short, is    *)
(* what every answered command has set: a daemon that starts then finds it.*)
Survives(c) ==
  /\ disk \in Settings
  /\ disk[asks[c].field] = asks[c].value

NobodyWrites ==
  /\ \A p \in Processes : at[p] # "write"
  /\ \A c \in Clients : handler[c] # "write"

(* SC-005 as far as the code goes: the target, the container and the on and*)
(* off that a client was told of are in the file for the next start to     *)
(* read (config.go:46-70), unless a write was cut short or is under way.   *)
THEOREM AnswersSurvive ==
  Spec => [](Alone /\ ~cut /\ NobodyWrites =>
               \A c \in Clients : Stands(c) => Survives(c))
PROOF
<1>1. IInv => (Alone /\ ~cut /\ NobodyWrites =>
                 \A c \in Clients : Stands(c) => Survives(c))
  <2> SUFFICES ASSUME IInv, Alone, ~cut, NobodyWrites, NEW c \in Clients, Stands(c)
               PROVE  Survives(c)
    OBVIOUS
  <2>1. disk # Absent
    BY DEF IInv, NoFileYet, Stands
  <2>2. disk # Empty /\ disk # Torn
    BY DEF IInv, FileWhole, NobodyWrites
  <2>3. disk \in Settings
    BY <2>1, <2>2 DEF IInv, TypeOK
  <2> QED
    BY <2>3 DEF IInv, SavedKept, Saved, Kept, Stands, Survives
<1> QED
  BY <1>1, Inductive, PTL
=============================================================================
