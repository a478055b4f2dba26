--------------------------- MODULE RecvDirProofs ----------------------------
(***************************************************************************)
(* Proofs about module RecvDir, for any threads, names and candidates,     *)
(* files there before, sizes and bounds.                                   *)
(***************************************************************************)
EXTENDS RecvDir, FiniteSetTheorems, TLAPS

(* Where the threads are with their jobs: no two work on the same one, and *)
(* a job is saved once, where its thread was told to.                      *)
Active(t)  == pc[t] # "idle"
Placed(t)  == pc[t] \in {"open", "fill", "docker", "copy"}
Writing(t) == pc[t] \in {"open", "fill"}

ThreadOK(t) ==
  /\ Active(t) => job[t] \in 1..jobs
  /\ Placed(t) => dest[t] \in Paths \ Old
  /\ pc[t] = "copy" => into[t] \in Containers
  /\ pc[t] = "fill" => dir[dest[t]] # None
  /\ pc[t] \in {"stat", "open", "fill"} => saved[job[t]] = None
  /\ pc[t] \in {"docker", "copy"} => saved[job[t]] = dest[t]

JobsOK ==
  /\ \A p \in Old : dir[p] = [k \in 1..Blocks |-> 0]
  /\ \A t \in Threads : ThreadOK(t)
  /\ \A t, u \in Threads : t # u /\ Active(t) /\ Active(u) => job[t] # job[u]
  /\ \A j \in Jobs : saved[j] # None => j <= jobs /\ saved[j] \in Paths \ Old

TypeInv == TypeOK /\ JobsOK

(* Nobody else is about to write where an unraced thread is going to, or   *)
(* where an unraced job has been saved.                                    *)
Alone(t) ==
  \A u \in Threads \ {t} : Writing(u) => dest[u] # dest[t]

RaceInv ==
  /\ \A t \in Threads :
       /\ pc[t] = "open" /\ job[t] \notin raced => dir[dest[t]] = None /\ Alone(t)
       /\ pc[t] = "fill" /\ job[t] \notin raced => dir[dest[t]] = Blank /\ Alone(t)
  /\ \A j \in Jobs \ raced : saved[j] # None =>
       /\ dir[saved[j]] = Body(j)
       /\ \A u \in Threads : Writing(u) => dest[u] # saved[j]

-----------------------------------------------------------------------------
LEMMA OverlayTyped ==
  ASSUME NEW c \in Contents, NEW j \in Jobs, NEW m
  PROVE  Overlay(c, j, m) \in Contents
BY DEF Overlay, Contents

Zeros == [k \in 1..Blocks |-> 0]

LEMMA BlankTyped == Blank \in Contents /\ Zeros \in Contents
BY DEF Blank, Zeros, Contents

LEMMA NoneIsNoFile == None \notin Contents
BY RecvDirAssumption

LEMMA BodyTyped == \A j \in Jobs : Body(j) \in Contents
BY DEF Body, Contents

LEMMA CandidateTyped ==
  ASSUME TypeOK, NEW t \in Threads
  PROVE  Candidate(t) \in Paths
<1>1. name[t] \in Names /\ try[t] \in 0..MaxTry
  BY DEF TypeOK
<1>2. Cand[name[t]] \in [0..MaxTry -> Paths]
  BY <1>1, RecvDirAssumption
<1>3. QED
  BY <1>1, <1>2 DEF Candidate

LEMMA TypeInit == Init => TypeInv
<1> SUFFICES ASSUME Init PROVE TypeInv
  OBVIOUS
<1>1. [k \in 1..Blocks |-> 0] \in Contents
  BY DEF Contents
<1>2. dir \in [Paths -> Contents \cup {None}]
  BY <1>1 DEF Init
<1>3. (CHOOSE n \in Names : TRUE) \in Names
  BY RecvDirAssumption
<1>4. size \in [Jobs -> 1..Blocks]
  BY RecvDirAssumption DEF Init
<1>5. box \in [Containers -> [Paths -> Contents \cup {None}]]
  BY DEF Init
<1>a. /\ jobs \in 0..MaxJobs /\ changes \in Nat /\ restarts \in Nat
      /\ raced \subseteq Jobs
  BY RecvDirAssumption DEF Init
<1>b. /\ pc \in [Threads -> {"idle", "stat", "open", "fill", "docker", "copy"}]
      /\ job \in [Threads -> Jobs \cup {0}] /\ name \in [Threads -> Names]
      /\ try \in [Threads -> 0..MaxTry]
  BY <1>3, RecvDirAssumption DEF Init
<1>c. /\ dest \in [Threads -> Paths \cup {None}]
      /\ into \in [Threads -> Containers \cup {None}]
      /\ saved \in [Jobs -> Paths \cup {None}]
      /\ container \in Containers \cup {None}
  BY DEF Init
<1>6. TypeOK
  BY <1>2, <1>4, <1>5, <1>a, <1>b, <1>c DEF TypeOK
<1>7. JobsOK
  BY RecvDirAssumption DEF Init, JobsOK, ThreadOK, Active, Placed
<1>8. QED
  BY <1>6, <1>7 DEF TypeInv

LEMMA TypeNext == TypeInv /\ [Next]_vars => TypeInv'
<1> SUFFICES ASSUME TypeInv, [Next]_vars PROVE TypeInv'
  OBVIOUS
<1> USE DEF TypeInv, Active, Placed, ThreadOK
<1>1. ASSUME NEW t \in Threads, NEW n \in Names, NEW len \in 1..Blocks,
             Begin(t, n, len)
      PROVE  TypeInv'
  <2>1. jobs + 1 \in Jobs /\ jobs' = jobs + 1 /\ jobs \in Nat
    BY <1>1, RecvDirAssumption DEF Begin, TypeOK, Jobs
  <2>2. TypeOK'
    BY <1>1, <2>1, RecvDirAssumption DEF Begin, TypeOK, Jobs
  <2>3. saved[jobs + 1] = None
    BY <2>1 DEF JobsOK, TypeOK, Jobs
  <2>4. /\ pc[t] = "idle" /\ pc' = [pc EXCEPT ![t] = "stat"]
        /\ job' = [job EXCEPT ![t] = jobs + 1]
        /\ UNCHANGED <<dir, dest, into, saved>>
    BY <1>1 DEF Begin
  <2>5. ThreadOK(t)'
    BY <2>1, <2>3, <2>4 DEF TypeOK
  <2>6. \A u \in Threads \ {t} : ThreadOK(u)'
    BY <2>1, <2>4 DEF TypeOK, JobsOK
  <2>7. \A u, v \in Threads : u # v /\ Active(u)' /\ Active(v)'
                             => job'[u] # job'[v]
    BY <2>1, <2>4 DEF TypeOK, JobsOK
  <2>8. \A j \in Jobs : saved'[j] # None
                         => j <= jobs' /\ saved'[j] \in Paths \ Old
    BY <2>1, <2>4 DEF JobsOK, Jobs
  <2>9. \A u \in Threads : ThreadOK(u)'
    BY <2>5, <2>6
  <2>10. JobsOK'
    BY <2>4, <2>7, <2>8, <2>9 DEF JobsOK
  <2>11. QED
    BY <2>2, <2>10
<1>2. ASSUME NEW t \in Threads, Pick(t)
      PROVE  TypeInv'
  <2>1. Candidate(t) \in Paths \ Old
    <3>1. dir[Candidate(t)] = None
      BY <1>2 DEF Pick, Free
    <3>2. \A p \in Old : dir[p] # None
      BY BlankTyped, NoneIsNoFile DEF JobsOK, Zeros
    <3>3. QED
      BY <3>1, <3>2, CandidateTyped
  <2>2. raced' \subseteq Jobs
    <3>1. \A u \in Threads : pc[u] # "idle" => job[u] \in Jobs
      BY RecvDirAssumption DEF JobsOK, TypeOK, Jobs
    <3> DEFINE rivals == {u \in Threads : pc[u] = "open"
                                        /\ dest[u] = Candidate(t)}
    <3>2. raced' = raced \cup {job[u] : u \in rivals}
                         \cup (IF rivals = {} THEN {} ELSE {job[t]})
      BY <1>2 DEF Pick
    <3>3. {job[u] : u \in rivals} \subseteq Jobs /\ job[t] \in Jobs
      BY <1>2, <3>1 DEF Pick
    <3>4. QED
      BY <3>2, <3>3 DEF TypeOK
  <2>3. TypeOK'
    BY <1>2, <2>1, <2>2 DEF Pick, TypeOK, bounds
  <2>4. JobsOK'
    BY <1>2, <2>1 DEF Pick, TypeOK, JobsOK, bounds
  <2>5. QED
    BY <2>3, <2>4
<1>3. ASSUME NEW t \in Threads, TryNext(t)
      PROVE  TypeInv'
  <2>1. NextTry(try[t]) \in 0..MaxTry
    BY RecvDirAssumption DEF NextTry, TypeOK
  <2>2. TypeOK'
    BY <1>3, <2>1 DEF TryNext, TypeOK, history, bounds
  <2>3. JobsOK'
    BY <1>3 DEF TryNext, JobsOK, history, bounds
  <2>4. QED
    BY <2>2, <2>3
<1>4. ASSUME NEW t \in Threads, Open(t)
      PROVE  TypeInv'
  <2>1. TypeOK'
    BY <1>4, BlankTyped DEF Open, TypeOK, locals, history, bounds
  <2>2. JobsOK'
    <3>1. /\ pc[t] = "open" /\ dest[t] \in Paths \ Old /\ Blank # None
          /\ dir' = [dir EXCEPT ![dest[t]] = Blank]
      BY <1>4, BlankTyped, NoneIsNoFile DEF Open, JobsOK
    <3>2. QED
      <4>1. /\ \A p \in Old : dir'[p] = dir[p]
            /\ \A p \in Paths : dir[p] # None => dir'[p] # None
            /\ dir'[dest[t]] # None
            /\ pc' = [pc EXCEPT ![t] = "fill"]
            /\ UNCHANGED <<job, dest, into, saved, jobs>>
        BY <1>4, <3>1 DEF Open, TypeOK, locals, history, bounds
      <4>2. ThreadOK(t)'
        BY <3>1, <4>1 DEF TypeOK, JobsOK
      <4>3. \A u \in Threads \ {t} : ThreadOK(u)'
        BY <3>1, <4>1 DEF TypeOK, JobsOK
      <4>4. \A u, v \in Threads : u # v /\ Active(u)' /\ Active(v)'
                                 => job'[u] # job'[v]
        BY <3>1, <4>1 DEF TypeOK, JobsOK
      <4>5. \A u \in Threads : ThreadOK(u)'
        BY <4>2, <4>3
      <4>6. \A j \in Jobs : saved'[j] # None
                            => j <= jobs' /\ saved'[j] \in Paths \ Old
        BY <4>1 DEF JobsOK
      <4>7. \A p \in Old : dir'[p] = [k \in 1..Blocks |-> 0]
        BY <4>1 DEF JobsOK
      <4>8. QED
        BY <4>4, <4>5, <4>6, <4>7 DEF JobsOK
  <2>3. QED
    BY <2>1, <2>2
<1>5. ASSUME NEW t \in Threads, NEW m,
             pc[t] = "fill",
             dir' = [dir EXCEPT ![dest[t]] = Overlay(@, job[t], m)]
      PROVE  /\ dir' \in [Paths -> Contents \cup {None}]
             /\ \A p \in Old : dir'[p] = dir[p]
             /\ \A p \in Paths : dir[p] # None => dir'[p] # None
  <2>1. /\ job[t] \in Jobs /\ dest[t] \in Paths \ Old
        /\ dir[dest[t]] \in Contents
    BY <1>5, RecvDirAssumption DEF JobsOK, TypeOK, Jobs
  <2>2. Overlay(dir[dest[t]], job[t], m) \in Contents
    BY <2>1, OverlayTyped
  <2>3. Overlay(dir[dest[t]], job[t], m) # None
    BY <2>2, NoneIsNoFile
  <2>4. QED
    BY <1>5, <2>1, <2>2, <2>3 DEF TypeOK
<1>6. ASSUME NEW t \in Threads, Fill(t)
      PROVE  TypeInv'
  <2>1. job[t] \in Jobs /\ dest[t] \in Paths \ Old /\ pc[t] = "fill"
        /\ saved[job[t]] = None /\ job[t] \in 1..jobs
    BY <1>6, RecvDirAssumption DEF Fill, JobsOK, TypeOK, Jobs
  <2>2. /\ dir' \in [Paths -> Contents \cup {None}]
        /\ \A p \in Old : dir'[p] = dir[p]
        /\ \A p \in Paths : dir[p] # None => dir'[p] # None
    BY <1>5, <1>6, <2>1 DEF Fill
  <2>3. TypeOK'
    BY <1>6, <2>1, <2>2 DEF Fill, TypeOK, locals, bounds
  <2>4. saved' = [saved EXCEPT ![job[t]] = dest[t]]
    BY <1>6 DEF Fill
  <2>5. JobsOK'
    <3>1. /\ pc' = [pc EXCEPT ![t] = "docker"]
          /\ UNCHANGED <<job, dest, into, jobs>>
      BY <1>6 DEF Fill, locals, bounds
    <3>2. /\ saved'[job[t]] = dest[t]
          /\ \A j \in Jobs \ {job[t]} : saved'[j] = saved[j]
      BY <2>1, <2>4 DEF TypeOK
    <3>3. \A u \in Threads : Active(u) => job[u] \in Jobs
      BY RecvDirAssumption DEF JobsOK, TypeOK, Jobs
    <3>4. \A u \in Threads \ {t} :
            Active(u) => saved'[job[u]] = saved[job[u]]
      BY <2>1, <3>2, <3>3 DEF JobsOK
    <3>5. \A j \in Jobs : saved'[j] # None
                           => j <= jobs /\ saved'[j] \in Paths \ Old
      BY <2>1, <3>2 DEF JobsOK, TypeOK
    <3>6. ThreadOK(t)'
      BY <2>1, <3>1, <3>2 DEF TypeOK, JobsOK
    <3>7. \A u \in Threads \ {t} : ThreadOK(u)'
      BY <2>2, <3>1, <3>4 DEF TypeOK, JobsOK
    <3>8. \A u, v \in Threads : u # v /\ Active(u)' /\ Active(v)'
                               => job'[u] # job'[v]
      BY <2>1, <3>1 DEF TypeOK, JobsOK
    <3>9. \A u \in Threads : ThreadOK(u)'
      BY <3>6, <3>7
    <3>10. \A p \in Old : dir'[p] = [k \in 1..Blocks |-> 0]
      BY <2>2 DEF JobsOK
    <3>11. jobs' = jobs
      BY <3>1
    <3>12. QED
      BY <3>5, <3>8, <3>9, <3>10, <3>11 DEF JobsOK
  <2>6. QED
    BY <2>3, <2>5
<1>7. ASSUME NEW t \in Threads, SaveFails(t)
      PROVE  TypeInv'
  <2>1. /\ dir' \in [Paths -> Contents \cup {None}]
        /\ \A p \in Old : dir'[p] = dir[p]
        /\ \A p \in Paths : dir[p] # None => dir'[p] # None
    BY <1>5, <1>7 DEF SaveFails, TypeOK
  <2>2. TypeOK'
    BY <1>7, <2>1 DEF SaveFails, TypeOK, locals, history, bounds
  <2>3. JobsOK'
    <3>1. /\ pc' = [pc EXCEPT ![t] = "idle"]
          /\ UNCHANGED <<job, dest, into, jobs, saved>>
      BY <1>7 DEF SaveFails, locals, history, bounds
    <3>2. \A u \in Threads : Active(u)' => Active(u)
      BY <3>1 DEF TypeOK, Active
    <3>3. \A u \in Threads : ThreadOK(u)'
      BY <2>1, <3>1 DEF TypeOK, JobsOK
    <3>4. \A p \in Old : dir'[p] = [k \in 1..Blocks |-> 0]
      BY <2>1 DEF JobsOK
    <3>5. \A u, v \in Threads : u # v /\ Active(u)' /\ Active(v)'
                               => job'[u] # job'[v]
      BY <3>1, <3>2 DEF JobsOK
    <3>6. \A j \in Jobs : saved'[j] # None
                           => j <= jobs' /\ saved'[j] \in Paths \ Old
      BY <3>1 DEF JobsOK
    <3>7. QED
      BY <3>3, <3>4, <3>5, <3>6 DEF JobsOK
  <2>4. QED
    BY <2>2, <2>3
<1>8. ASSUME NEW t \in Threads, DockerRead(t)
      PROVE  TypeInv'
  <2>1. TypeOK'
    BY <1>8 DEF DockerRead, TypeOK, history, bounds
  <2>2. JobsOK'
    BY <1>8 DEF DockerRead, TypeOK, JobsOK, history, bounds
  <2>3. QED
    BY <2>1, <2>2
<1>9. ASSUME NEW t \in Threads, DockerCopy(t)
      PROVE  TypeInv'
  <2>1. dest[t] \in Paths /\ into[t] \in Containers
    BY <1>9 DEF DockerCopy, JobsOK
  <2>2. box' \in [Containers -> [Paths -> Contents \cup {None}]]
    <3> DEFINE copied == [box[into[t]] EXCEPT ![dest[t]] = dir[dest[t]]]
    <3>1. copied \in [Paths -> Contents \cup {None}]
      BY <2>1 DEF TypeOK
    <3>2. box' = box \/ box' = [box EXCEPT ![into[t]] = copied]
      BY <1>9 DEF DockerCopy
    <3>3. QED
      BY <2>1, <3>1, <3>2 DEF TypeOK
  <2>3. TypeOK'
    BY <1>9, <2>2 DEF DockerCopy, TypeOK, locals, history, bounds
  <2>4. JobsOK'
    BY <1>9 DEF DockerCopy, TypeOK, JobsOK, locals, history, bounds
  <2>5. QED
    BY <2>3, <2>4
<1>10. ASSUME NEW c \in Containers \cup {None}, SetDocker(c)
       PROVE  TypeInv'
  <2>1. TypeOK'
    BY <1>10 DEF SetDocker, TypeOK, locals, history
  <2>2. JobsOK'
    BY <1>10 DEF SetDocker, JobsOK, locals, history
  <2>3. QED
    BY <2>1, <2>2
<1>11. CASE Restart
  <2>1. TypeOK'
    BY <1>11 DEF Restart, TypeOK, locals, history
  <2>2. JobsOK'
    BY <1>11 DEF Restart, JobsOK, locals, history
  <2>3. QED
    BY <2>1, <2>2
<1>12. CASE UNCHANGED vars
  BY <1>12 DEF vars, TypeOK, JobsOK, locals, history, bounds
<1>13. QED
  BY <1>1, <1>2, <1>3, <1>4, <1>6, <1>7, <1>8, <1>9, <1>10, <1>11, <1>12
     DEF Next, Saver

(* Every variable keeps to its values in every reachable state.            *)
THEOREM Typed == Spec => []TypeOK
<1>1. Spec => []TypeInv
  BY TypeInit, TypeNext, PTL DEF Spec
<1>2. QED
  BY <1>1, PTL DEF TypeInv

-----------------------------------------------------------------------------
LEMMA OverBlank ==
  ASSUME NEW j \in Jobs
  PROVE  Overlay(Blank, j, size[j]) = Body(j)
BY DEF Overlay, Blank, Body

(* A step of t that writes c to dest[t] and moves no other thread.         *)
WriteStep(t, c) ==
  /\ Writing(t)
  /\ dir' = [dir EXCEPT ![dest[t]] = c]
  /\ \A u \in Threads \ {t} : pc'[u] = pc[u]
  /\ UNCHANGED <<job, dest, size, raced>>

(* After a step in which t alone writes, to dest[t]: what RaceInv says of  *)
(* the other threads, and of the jobs saved before the step.               *)
OthersKept(t) ==
  /\ \A u \in Threads \ {t} :
       /\ pc'[u] = "open" /\ job'[u] \notin raced' => dir'[dest'[u]] = None
       /\ pc'[u] = "fill" /\ job'[u] \notin raced' => dir'[dest'[u]] = Blank
       /\ Writing(u)' /\ job'[u] \notin raced'
            => /\ dest'[u] # dest'[t]
               /\ \A v \in Threads \ {u, t} : Writing(v)' => dest'[v] # dest'[u]
  /\ \A j \in Jobs \ raced' : saved[j] # None =>
       /\ dir'[saved[j]] = Body(j)' /\ dest'[t] # saved[j]
       /\ \A u \in Threads \ {t} : Writing(u)' => dest'[u] # saved[j]

LEMMA RaceNext == TypeInv /\ RaceInv /\ [Next]_vars => RaceInv'
<1> SUFFICES ASSUME TypeInv, RaceInv, [Next]_vars PROVE RaceInv'
  OBVIOUS
<1> USE DEF Active, Placed, Writing, Alone
<1>p. /\ pc \in [Threads -> {"idle", "stat", "open", "fill", "docker", "copy"}]
      /\ job \in [Threads -> Jobs \cup {0}]
      /\ dest \in [Threads -> Paths \cup {None}]
      /\ dir \in [Paths -> Contents \cup {None}]
      /\ saved \in [Jobs -> Paths \cup {None}]
      /\ size \in [Jobs -> 1..Blocks] /\ raced \subseteq Jobs
  BY DEF TypeInv, TypeOK
<1>q. /\ \A u \in Threads : pc[u] # "idle" => job[u] \in Jobs
      /\ \A u \in Threads : Writing(u) => dest[u] \in Paths
      /\ \A u \in Threads : pc[u] = "fill" => dir[dest[u]] # None
      /\ \A u, v \in Threads :
           u # v /\ pc[u] # "idle" /\ pc[v] # "idle" => job[u] # job[v]
      /\ \A j \in Jobs : saved[j] # None => saved[j] \in Paths
  BY RecvDirAssumption DEF TypeInv, TypeOK, JobsOK, ThreadOK, Jobs
<1>b. Blank # None /\ \A j \in Jobs : Body(j) # None
  BY BlankTyped, BodyTyped, NoneIsNoFile
<1>1. ASSUME NEW t \in Threads, NEW n \in Names, NEW len \in 1..Blocks,
             Begin(t, n, len)
      PROVE  RaceInv'
  <2>1. \A j \in Jobs : saved[j] # None => size'[j] = size[j]
    BY <1>1, <1>p, RecvDirAssumption DEF Begin, TypeInv, TypeOK, JobsOK, Jobs
  <2>2. \A j \in Jobs : saved[j] # None => Body(j)' = Body(j)
    BY <2>1 DEF Body
  <2>3. QED
    BY <1>1, <1>p, <2>2 DEF Begin, RaceInv
<1>2. ASSUME NEW t \in Threads, Pick(t)
      PROVE  RaceInv'
  <2> DEFINE rivals == {u \in Threads : pc[u] = "open"
                                      /\ dest[u] = Candidate(t)}
  <2>1. /\ dir[Candidate(t)] = None /\ Candidate(t) \in Paths
        /\ dest' = [dest EXCEPT ![t] = Candidate(t)]
        /\ pc[t] = "stat" /\ pc' = [pc EXCEPT ![t] = "open"]
        /\ UNCHANGED <<dir, job, size, saved>>
    BY <1>2, CandidateTyped DEF Pick, Free, TypeInv
  <2>2. /\ raced \subseteq raced'
        /\ \A u \in rivals : job[u] \in raced'
        /\ rivals # {} => job[t] \in raced'
    BY <1>2 DEF Pick
  <2>3. \A u \in Threads : Writing(u) /\ dest[u] = Candidate(t) => u \in rivals
    BY <1>q, <2>1
  <2>4. \A u \in Threads \ {t} :
          /\ pc'[u] = pc[u] /\ dest'[u] = dest[u] /\ job'[u] = job[u]
    BY <1>p, <2>1
  <2>5. pc'[t] = "open" /\ dest'[t] = Candidate(t)
    BY <1>p, <2>1
  <2>6. job'[t] \notin raced' => dir'[dest'[t]] = None /\ Alone(t)'
    BY <2>1, <2>2, <2>3, <2>4, <2>5
  <2>7. ASSUME NEW u \in Threads \ {t}
        PROVE  /\ pc'[u] = "open" /\ job'[u] \notin raced'
                   => dir'[dest'[u]] = None /\ Alone(u)'
               /\ pc'[u] = "fill" /\ job'[u] \notin raced'
                   => dir'[dest'[u]] = Blank /\ Alone(u)'
    BY <2>1, <2>2, <2>3, <2>4, <2>5 DEF RaceInv
  <2>8. ASSUME NEW j \in Jobs \ raced', saved'[j] # None
        PROVE  /\ dir'[saved'[j]] = Body(j)'
               /\ \A u \in Threads : Writing(u)' => dest'[u] # saved'[j]
    <3>1. Body(j)' = Body(j)
      BY <2>1 DEF Body
    <3>2. dir[saved[j]] = Body(j)
          /\ \A u \in Threads : Writing(u) => dest[u] # saved[j]
      BY <2>1, <2>2, <2>8 DEF RaceInv
    <3>3. saved[j] # Candidate(t)
      BY <1>b, <2>1, <3>2
    <3>4. QED
      BY <2>1, <2>4, <2>5, <3>1, <3>2, <3>3
  <2>9. QED
    BY <2>5, <2>6, <2>7, <2>8 DEF RaceInv
<1>3. ASSUME NEW t \in Threads, TryNext(t)
      PROVE  RaceInv'
  BY <1>3 DEF TryNext, RaceInv, history, Body
<1>4. ASSUME NEW t \in Threads, NEW c, WriteStep(t, c)
      PROVE  OthersKept(t)
  <2>1. \A j \in Jobs : Body(j)' = Body(j)
    BY <1>4 DEF Body, WriteStep
  <2>2. ASSUME NEW u \in Threads \ {t}, Writing(u)', job'[u] \notin raced'
        PROVE  /\ dest'[u] # dest[t] /\ dir'[dest'[u]] = dir[dest[u]]
               /\ \A v \in Threads \ {u, t} : Writing(v)' => dest'[v] # dest'[u]
    BY <1>4, <1>p, <1>q, <2>2 DEF RaceInv, WriteStep
  <2>3. ASSUME NEW j \in Jobs \ raced', saved[j] # None
        PROVE  /\ dir'[saved[j]] = Body(j)' /\ dest[t] # saved[j]
               /\ \A u \in Threads \ {t} : Writing(u)' => dest'[u] # saved[j]
    BY <1>4, <1>p, <1>q, <2>1, <2>3 DEF RaceInv, WriteStep
  <2>4. ASSUME NEW u \in Threads \ {t}, job'[u] \notin raced'
        PROVE  /\ pc'[u] = "open" => dir'[dest'[u]] = None
               /\ pc'[u] = "fill" => dir'[dest'[u]] = Blank
    BY <1>4, <2>2, <2>4 DEF RaceInv, WriteStep
  <2>5. QED
    BY <1>4, <2>2, <2>3, <2>4 DEF OthersKept, WriteStep
<1>5. ASSUME NEW t \in Threads, Open(t)
      PROVE  RaceInv'
  <2>1. /\ pc[t] = "open" /\ pc' = [pc EXCEPT ![t] = "fill"]
        /\ dir' = [dir EXCEPT ![dest[t]] = Blank]
        /\ UNCHANGED <<job, dest, size, raced, saved>>
    BY <1>5 DEF Open, locals, history
  <2>2. /\ pc' \in [Threads -> {"idle", "stat", "open", "fill", "docker",
                                "copy"}]
        /\ pc'[t] = "fill" /\ \A u \in Threads \ {t} : pc'[u] = pc[u]
        /\ dir'[dest'[t]] = Blank
    BY <1>p, <1>q, <2>1
  <2>3. job'[t] \notin raced' => Alone(t)'
    BY <2>1, <2>2 DEF RaceInv
  <2>w. WriteStep(t, Blank)
    BY <2>1, <2>2 DEF WriteStep
  <2>4. OthersKept(t)
    BY <1>4, <2>w
  <2>5. ASSUME NEW u \in Threads \ {t}, Writing(u)', job'[u] \notin raced'
        PROVE  Alone(u)'
    BY <2>1, <2>4, <2>5 DEF OthersKept
  <2>6. ASSUME NEW j \in Jobs \ raced', saved'[j] # None
        PROVE  /\ dir'[saved'[j]] = Body(j)'
               /\ \A u \in Threads : Writing(u)' => dest'[u] # saved'[j]
    BY <2>1, <2>4, <2>6 DEF OthersKept
  <2>7. QED
    BY <2>2, <2>3, <2>4, <2>5, <2>6 DEF RaceInv, OthersKept
<1>6. ASSUME NEW t \in Threads, Fill(t)
      PROVE  RaceInv'
  <2>1. /\ pc[t] = "fill" /\ pc' = [pc EXCEPT ![t] = "docker"]
        /\ dir' = [dir EXCEPT ![dest[t]] =
                      Overlay(dir[dest[t]], job[t], size[job[t]])]
        /\ saved' = [saved EXCEPT ![job[t]] = dest[t]]
        /\ UNCHANGED <<job, dest, size, raced>>
    BY <1>6 DEF Fill, locals, history
  <2>2. /\ pc' \in [Threads -> {"idle", "stat", "open", "fill", "docker",
                                "copy"}]
        /\ pc'[t] = "docker" /\ \A u \in Threads \ {t} : pc'[u] = pc[u]
    BY <1>p, <2>1
  <2>3. /\ job[t] \in Jobs /\ saved'[job[t]] = dest[t]
        /\ \A j \in Jobs \ {job[t]} : saved'[j] = saved[j]
    BY <1>p, <1>q, <2>1
  <2>4. job[t] \notin raced =>
          /\ dir'[dest[t]] = Body(job[t])'
          /\ \A u \in Threads : Writing(u)' => dest'[u] # dest[t]
    <3>1. Body(job[t])' = Body(job[t])
      BY <2>1 DEF Body
    <3>2. job[t] \notin raced => dir[dest[t]] = Blank /\ Alone(t)
      BY <2>1 DEF RaceInv
    <3>3. job[t] \notin raced => dir'[dest[t]] = Body(job[t])
      BY <1>p, <1>q, <2>1, <2>3, <3>2, OverBlank
    <3>4. QED
      BY <2>1, <2>2, <3>1, <3>2, <3>3
  <2>w. WriteStep(t, Overlay(dir[dest[t]], job[t], size[job[t]]))
    BY <2>1, <2>2 DEF WriteStep
  <2>6. OthersKept(t)
    BY <1>4, <2>w
  <2>5. \A j \in Jobs \ raced' : saved'[j] # None =>
          /\ dir'[saved'[j]] = Body(j)'
          /\ \A u \in Threads : Writing(u)' => dest'[u] # saved'[j]
    BY <2>1, <2>2, <2>3, <2>4, <2>6 DEF OthersKept
  <2>7. ASSUME NEW u \in Threads \ {t}, Writing(u)', job'[u] \notin raced'
        PROVE  Alone(u)'
    BY <2>2, <2>6, <2>7 DEF OthersKept
  <2>8. QED
    BY <2>2, <2>5, <2>6, <2>7 DEF RaceInv, OthersKept
<1>7. ASSUME NEW t \in Threads, SaveFails(t)
      PROVE  RaceInv'
  <2>1. /\ pc' = [pc EXCEPT ![t] = "idle"] /\ Writing(t)
        /\ UNCHANGED <<job, dest, size, raced, saved>>
    BY <1>7 DEF SaveFails, locals, history
  <2>2. /\ pc' \in [Threads -> {"idle", "stat", "open", "fill", "docker",
                                "copy"}]
        /\ pc'[t] = "idle" /\ \A u \in Threads \ {t} : pc'[u] = pc[u]
    BY <1>p, <2>1
  <2>3. PICK c : dir' = [dir EXCEPT ![dest[t]] = c]
    <3>1. CASE dir' = dir
      <4>1. dir' = [dir EXCEPT ![dest[t]] = dir[dest[t]]]
        BY <1>p, <3>1
      <4>2. QED
        BY <4>1
    <3>2. CASE dir' # dir
      BY <1>7, <3>2 DEF SaveFails
    <3>3. QED
      BY <3>1, <3>2
  <2>w. WriteStep(t, c)
    BY <2>1, <2>2, <2>3 DEF WriteStep
  <2>4. OthersKept(t)
    BY <1>4, <2>w
  <2>5. ASSUME NEW u \in Threads \ {t}, Writing(u)', job'[u] \notin raced'
        PROVE  Alone(u)'
    BY <2>2, <2>4, <2>5 DEF OthersKept
  <2>6. ASSUME NEW j \in Jobs \ raced', saved'[j] # None
        PROVE  /\ dir'[saved'[j]] = Body(j)'
               /\ \A u \in Threads : Writing(u)' => dest'[u] # saved'[j]
    BY <2>1, <2>2, <2>4, <2>6 DEF OthersKept
  <2>7. QED
    BY <2>2, <2>4, <2>5, <2>6 DEF RaceInv, OthersKept
<1>8. ASSUME NEW t \in Threads, DockerRead(t) \/ DockerCopy(t)
      PROVE  RaceInv'
  <2>1. /\ \A u \in Threads : /\ Writing(u)' => pc'[u] = pc[u]
        /\ UNCHANGED <<dir, job, dest, size, raced, saved>>
    BY <1>8, <1>p DEF DockerRead, DockerCopy, locals, history
  <2>2. QED
    BY <2>1 DEF RaceInv, Body
<1>9. ASSUME NEW c, SetDocker(c)
      PROVE  RaceInv'
  BY <1>9 DEF SetDocker, RaceInv, locals, history, Body
<1>10. CASE Restart
  <2>1. /\ \A u \in Threads : ~Writing(u)'
        /\ UNCHANGED <<dir, job, dest, size, raced, saved>>
    BY <1>10, <1>p DEF Restart, locals, history
  <2>2. QED
    BY <2>1 DEF RaceInv, Body
<1>11. CASE UNCHANGED vars
  BY <1>11 DEF vars, RaceInv, locals, history, Body
<1>12. QED
  BY <1>1, <1>2, <1>3, <1>5, <1>6, <1>7, <1>8, <1>9, <1>10, <1>11
     DEF Next, Saver

LEMMA RaceAlways == Spec => []RaceInv
<1>1. Init => RaceInv
  BY DEF Init, RaceInv
<1>2. QED
  BY <1>1, TypeInit, TypeNext, RaceNext, PTL DEF Spec

(* FR-008 as far as the code goes: a file there before is never touched,   *)
(* and a saved file never loses its body, except to a job that was given   *)
(* the same path between dedupePath's Stat and WriteFile's open.           *)
THEOREM SavedFilesStay == Spec => []UnracedIntact
<1>1. TypeInv /\ RaceInv => UnracedIntact
  BY DEF TypeInv, JobsOK, RaceInv, UnracedIntact
<1>2. QED
  BY <1>1, RaceAlways, TypeInit, TypeNext, PTL DEF Spec

-----------------------------------------------------------------------------
LEMMA CopyNext ==
  TypeInv /\ RaceInv /\ ContainerCopiesWhole /\ [Next]_vars
    => ContainerCopiesWhole'
<1> SUFFICES ASSUME TypeInv, RaceInv, ContainerCopiesWhole, [Next]_vars
             PROVE  ContainerCopiesWhole'
  OBVIOUS
<1>1. CASE UNCHANGED <<box, size, saved>> /\ raced \subseteq raced'
  BY <1>1 DEF ContainerCopiesWhole, Body
<1>2. ASSUME NEW t \in Threads, NEW n \in Names, NEW len \in 1..Blocks,
             Begin(t, n, len)
      PROVE  ContainerCopiesWhole'
  <2>1. \A j \in Jobs : saved[j] # None => size'[j] = size[j]
    BY <1>2, RecvDirAssumption DEF Begin, TypeInv, TypeOK, JobsOK, Jobs
  <2>2. \A j \in Jobs : saved[j] # None => Body(j)' = Body(j)
    BY <2>1 DEF Body
  <2>3. \A p \in Paths : p # None
    BY RecvDirAssumption
  <2>4. QED
    BY <1>2, <2>2, <2>3 DEF Begin, ContainerCopiesWhole
<1>3. ASSUME NEW t \in Threads, Fill(t)
      PROVE  ContainerCopiesWhole'
  <2>1. saved[job[t]] = None /\ job[t] \in Jobs
    BY <1>3, RecvDirAssumption
       DEF Fill, TypeInv, TypeOK, JobsOK, ThreadOK, Active, Jobs
  <2>2. \A j \in Jobs : saved[j] # None => saved'[j] = saved[j]
    BY <1>3, <2>1 DEF Fill, TypeInv, TypeOK
  <2>3. \A j \in Jobs : Body(j)' = Body(j)
    BY <1>3 DEF Fill, Body
  <2>4. \A p \in Paths : p # None
    BY RecvDirAssumption
  <2>5. QED
    BY <1>3, <2>2, <2>3, <2>4 DEF Fill, ContainerCopiesWhole
<1>4. ASSUME NEW t \in Threads, DockerCopy(t), box' # box
      PROVE  ContainerCopiesWhole'
  <2>1. /\ box' = [box EXCEPT ![into[t]] =
                     [box[into[t]] EXCEPT ![dest[t]] = dir[dest[t]]]]
        /\ pc[t] = "copy" /\ UNCHANGED <<size, saved, raced>>
    BY <1>4 DEF DockerCopy, history
  <2>2. /\ job[t] \in Jobs /\ saved[job[t]] = dest[t] /\ dest[t] # None
        /\ dest[t] \in Paths
    BY <2>1, RecvDirAssumption
       DEF TypeInv, TypeOK, JobsOK, ThreadOK, Active, Placed, Jobs
  <2>3. job[t] \in raced \/ dir[dest[t]] = Body(job[t])
    BY <2>2 DEF RaceInv
  <2>4. \A c \in Containers, p \in Paths :
          \/ box'[c][p] = box[c][p]
          \/ p = dest[t] /\ box'[c][p] = dir[dest[t]]
    BY <2>1 DEF TypeInv, TypeOK
  <2>5. \A j \in Jobs : Body(j)' = Body(j)
    BY <2>1 DEF Body
  <2>6. QED
    BY <2>1, <2>2, <2>3, <2>4, <2>5 DEF ContainerCopiesWhole
<1>5. QED
  <2>1. ASSUME NEW t \in Threads, Saver(t), ~Fill(t), ~(DockerCopy(t) /\ box' # box)
        PROVE  UNCHANGED <<box, size, saved>> /\ raced \subseteq raced'
    BY <2>1 DEF Saver, Pick, TryNext, Open, SaveFails, DockerRead, DockerCopy,
       locals, history
  <2>2. ASSUME NEW c, SetDocker(c)
        PROVE  UNCHANGED <<box, size, saved>> /\ raced \subseteq raced'
    BY <2>2 DEF SetDocker, history
  <2>3. CASE Restart \/ UNCHANGED vars
    BY <1>1, <2>3 DEF Restart, vars, history
  <2>4. QED
    BY <1>1, <1>2, <1>3, <1>4, <2>1, <2>2, <2>3 DEF Next

(* A file that docker cp has put in a container is the whole body of a     *)
(* saved one, unless its job lost the race for its path.                   *)
THEOREM CopiesAreWhole == Spec => []ContainerCopiesWhole
<1>1. Init => ContainerCopiesWhole
  BY DEF Init, ContainerCopiesWhole
<1>2. QED
  BY <1>1, RaceAlways, TypeInit, TypeNext, CopyNext, PTL DEF Spec
-----------------------------------------------------------------------------
(* Names.                                                                  *)

(* A file in the folder stays there.                                       *)
LEMMA FilesStay ==
  ASSUME TypeInv, [Next]_vars
  PROVE  \A p \in Paths : dir[p] # None => dir'[p] # None
<1> USE DEF TypeInv
<1>1. ASSUME NEW t \in Threads, Writing(t), NEW c \in Contents,
             dir' = [dir EXCEPT ![dest[t]] = c]
      PROVE  \A p \in Paths : dir[p] # None => dir'[p] # None
  BY <1>1, NoneIsNoFile DEF TypeOK
<1>2. ASSUME NEW t \in Threads, Open(t)
      PROVE  \A p \in Paths : dir[p] # None => dir'[p] # None
  BY <1>1, <1>2, BlankTyped DEF Open, Writing
<1>3. ASSUME NEW t \in Threads, pc[t] = "fill", NEW m,
             dir' = [dir EXCEPT ![dest[t]] = Overlay(@, job[t], m)]
      PROVE  \A p \in Paths : dir[p] # None => dir'[p] # None
  <2>1. /\ job[t] \in Jobs /\ dest[t] \in Paths
        /\ dir[dest[t]] \in Contents
    BY <1>3, RecvDirAssumption DEF JobsOK, ThreadOK, Active, Placed, TypeOK, Jobs
  <2>2. /\ Overlay(dir[dest[t]], job[t], m) \in Contents
        /\ dir' = [dir EXCEPT ![dest[t]] = Overlay(dir[dest[t]], job[t], m)]
    BY <1>3, <2>1, OverlayTyped
  <2>3. QED
    BY <1>1, <1>3, <2>2 DEF Writing
<1>4. ASSUME NEW t \in Threads, Fill(t)
      PROVE  \A p \in Paths : dir[p] # None => dir'[p] # None
  BY <1>3, <1>4 DEF Fill
<1>5. ASSUME NEW t \in Threads, SaveFails(t)
      PROVE  \A p \in Paths : dir[p] # None => dir'[p] # None
  BY <1>3, <1>5 DEF SaveFails
<1>6. ASSUME NEW t \in Threads, Pick(t) \/ TryNext(t) \/ DockerRead(t) \/ DockerCopy(t)
      PROVE  dir' = dir
  BY <1>6 DEF Pick, TryNext, DockerRead, DockerCopy
<1>7. ASSUME NEW t, NEW n, NEW len, Begin(t, n, len) PROVE dir' = dir
  BY <1>7 DEF Begin
<1>8. ASSUME NEW c, SetDocker(c) PROVE dir' = dir
  BY <1>8 DEF SetDocker
<1>9. CASE Restart \/ UNCHANGED vars
  BY <1>9 DEF Restart, vars
<1>10. QED
  BY <1>2, <1>4, <1>5, <1>6, <1>7, <1>8, <1>9 DEF Next, Saver

(* The candidates that dedupePath has passed over were taken, and stay so; *)
(* a thread that is about to open a file has the path it was given.        *)
GapOK(t) ==
  /\ pc[t] \in {"stat", "open"} =>
       \A i \in 0..(try[t] - 1) : ~Free(Cand[name[t]][i])
  /\ pc[t] = "open" => dest[t] = Candidate(t)

GapInv == \A t \in Threads : GapOK(t)

LEMMA StaysTaken ==
  ASSUME TypeInv, [Next]_vars,
         NEW t \in Threads, NEW i \in 0..MaxTry, ~Free(Cand[name[t]][i])
  PROVE  Cand[name[t]][i] \in Unstatable \/ dir'[Cand[name[t]][i]] # None
<1>1. Cand[name[t]][i] \in Paths
  BY RecvDirAssumption DEF TypeInv, TypeOK
<1>2. QED
  BY <1>1, FilesStay DEF Free

LEMMA GapNext == TypeInv /\ GapInv /\ [Next]_vars => GapInv'
<1> SUFFICES ASSUME TypeInv, GapInv, [Next]_vars,
                    NEW t \in Threads
             PROVE  GapOK(t)'
  BY DEF GapInv
<1>p. /\ pc \in [Threads -> {"idle", "stat", "open", "fill", "docker", "copy"}]
      /\ try \in [Threads -> 0..MaxTry] /\ name \in [Threads -> Names]
      /\ dest \in [Threads -> Paths \cup {None}]
      /\ MaxTry \in Nat \ {0}
  BY RecvDirAssumption DEF TypeInv, TypeOK
(* A thread that keeps its place, its name and its counter.                *)
<1>1. ASSUME pc'[t] = pc[t], name'[t] = name[t], try'[t] = try[t],
             dest'[t] = dest[t]
      PROVE  GapOK(t)'
  <2>1. ASSUME pc[t] \in {"stat", "open"}, NEW i \in 0..(try[t] - 1)
        PROVE  ~Free(Cand[name[t]][i])'
    <3>1. i \in 0..MaxTry /\ ~Free(Cand[name[t]][i])
      BY <1>p, <2>1 DEF GapInv, GapOK
    <3>2. QED
      BY <1>1, <3>1, StaysTaken DEF Free
  <2>2. QED
    BY <1>1, <2>1 DEF GapInv, GapOK, Candidate
(* A thread that has left dedupePath or has not got there.                 *)
<1>2. CASE pc'[t] \notin {"stat", "open"}
  BY <1>2 DEF GapOK
<1>3. ASSUME NEW u \in Threads, NEW n, NEW len, Begin(u, n, len)
      PROVE  GapOK(t)'
  <2>1. CASE u = t
    BY <1>3, <1>p, <2>1 DEF Begin, GapOK
  <2>2. CASE u # t
    BY <1>1, <1>3, <1>p, <2>2 DEF Begin
  <2>3. QED
    BY <2>1, <2>2
<1>4. ASSUME NEW u \in Threads, Pick(u)
      PROVE  GapOK(t)'
  <2>1. CASE u = t
    <3>1. /\ pc[t] = "stat" /\ dest'[t] = Candidate(t)
          /\ UNCHANGED <<try, name, dir>>
      BY <1>4, <1>p, <2>1 DEF Pick
    <3>2. QED
      BY <3>1 DEF GapInv, GapOK, Candidate, Free
  <2>2. CASE u # t
    BY <1>1, <1>4, <1>p, <2>2 DEF Pick
  <2>3. QED
    BY <2>1, <2>2
<1>5. ASSUME NEW u \in Threads, TryNext(u)
      PROVE  GapOK(t)'
  <2>1. CASE u = t
    <3>1. /\ pc[t] = "stat" /\ ~Free(Candidate(t))
          /\ try'[t] = NextTry(try[t])
          /\ UNCHANGED <<pc, name, dir, dest>>
      BY <1>5, <1>p, <2>1 DEF TryNext
    <3>2. \A i \in 0..try[t] : ~Free(Cand[name[t]][i])
      BY <1>p, <3>1 DEF GapInv, GapOK, Candidate
    <3>3. \A i \in 0..(try'[t] - 1) : i \in 0..try[t]
      BY <1>p, <3>1 DEF NextTry
    <3>4. QED
      BY <3>1, <3>2, <3>3 DEF Free, GapOK
  <2>2. CASE u # t
    BY <1>1, <1>5, <1>p, <2>2 DEF TryNext
  <2>3. QED
    BY <2>1, <2>2
<1>6. ASSUME NEW u \in Threads,
             Open(u) \/ Fill(u) \/ SaveFails(u) \/ DockerRead(u) \/ DockerCopy(u)
      PROVE  GapOK(t)'
  <2>1. CASE u = t
    <3>1. pc'[t] \notin {"stat", "open"}
      BY <1>6, <1>p, <2>1 DEF Open, Fill, SaveFails, DockerRead, DockerCopy
    <3>2. QED
      BY <1>2, <3>1
  <2>2. CASE u # t
    BY <1>1, <1>6, <1>p, <2>2
       DEF Open, Fill, SaveFails, DockerRead, DockerCopy, locals
  <2>3. QED
    BY <2>1, <2>2
<1>7. ASSUME NEW c, SetDocker(c)
      PROVE  pc'[t] = pc[t] /\ name'[t] = name[t] /\ try'[t] = try[t]
             /\ dest'[t] = dest[t]
  BY <1>7 DEF SetDocker, locals
<1>8. CASE Restart
  BY <1>2, <1>8 DEF Restart
<1>9. CASE UNCHANGED vars
  BY <1>1, <1>9 DEF vars, locals
<1>10. QED
  BY <1>1, <1>3, <1>4, <1>5, <1>6, <1>7, <1>8, <1>9 DEF Next, Saver

(* The paths that are taken, and the threads that are going to take one.   *)
Taken   == {p \in Paths : dir[p] # None}
Seeking == {t \in Threads : pc[t] \in {"stat", "open"}}

(* Each file there is was there before, or is one for which some thread    *)
(* was looking for a name.                                                 *)
CountInv ==
  IsFiniteSet(Old) =>
    /\ IsFiniteSet(Taken) /\ IsFiniteSet(Seeking)
    /\ Cardinality(Taken) + Cardinality(Seeking) <= Cardinality(Old) + jobs

LEMMA CountInit == TypeInv /\ Init => CountInv
<1> SUFFICES ASSUME TypeInv, Init, IsFiniteSet(Old) PROVE CountInv
  BY DEF CountInv
<1>1. Taken = Old
  BY RecvDirAssumption, BlankTyped, NoneIsNoFile DEF Init, Taken, Zeros
<1>2. Seeking = {}
  BY DEF Init, Seeking
<1>3. Cardinality(Old) \in Nat /\ jobs = 0
  BY FS_CardinalityType DEF Init
<1>4. QED
  BY <1>1, <1>2, <1>3, FS_EmptySet DEF CountInv

(* The three ways in which a step changes what is counted.                 *)
LEMMA CountSame ==
  ASSUME CountInv, Taken' = Taken, Seeking' \subseteq Seeking, jobs' = jobs,
         jobs \in Nat
  PROVE  CountInv'
<1> SUFFICES ASSUME IsFiniteSet(Old) PROVE CountInv'
  BY DEF CountInv
<1>1. IsFiniteSet(Seeking') /\ Cardinality(Seeking') <= Cardinality(Seeking)
  BY FS_Subset DEF CountInv
<1>2. /\ Cardinality(Seeking') \in Nat /\ Cardinality(Seeking) \in Nat
      /\ Cardinality(Taken) \in Nat /\ Cardinality(Old) \in Nat
  BY <1>1, FS_CardinalityType DEF CountInv
<1>3. Cardinality(Taken) + Cardinality(Seeking') <= Cardinality(Old) + jobs
  BY <1>1, <1>2 DEF CountInv
<1>4. QED
  BY <1>1, <1>3 DEF CountInv

LEMMA CountBegun ==
  ASSUME CountInv, NEW t, Taken' = Taken, Seeking' = Seeking \cup {t},
         jobs' = jobs + 1, jobs \in Nat
  PROVE  CountInv'
<1> SUFFICES ASSUME IsFiniteSet(Old) PROVE CountInv'
  BY DEF CountInv
<1>1. /\ IsFiniteSet(Seeking')
      /\ \/ Cardinality(Seeking') = Cardinality(Seeking)
         \/ Cardinality(Seeking') = Cardinality(Seeking) + 1
  BY FS_AddElement DEF CountInv
<1>2. /\ Cardinality(Seeking') \in Nat /\ Cardinality(Seeking) \in Nat
      /\ Cardinality(Taken) \in Nat /\ Cardinality(Old) \in Nat
  BY <1>1, FS_CardinalityType DEF CountInv
<1>3. Cardinality(Taken) + Cardinality(Seeking') <= Cardinality(Old) + jobs'
  BY <1>1, <1>2 DEF CountInv
<1>4. QED
  BY <1>1, <1>3 DEF CountInv

LEMMA CountOpened ==
  ASSUME CountInv, NEW t \in Seeking, NEW p, Taken' = Taken \cup {p},
         Seeking' = Seeking \ {t}, jobs' = jobs, jobs \in Nat
  PROVE  CountInv'
<1> SUFFICES ASSUME IsFiniteSet(Old) PROVE CountInv'
  BY DEF CountInv
<1>1. IsFiniteSet(Seeking') /\ Cardinality(Seeking') = Cardinality(Seeking) - 1
  BY FS_RemoveElement DEF CountInv
<1>2. /\ IsFiniteSet(Taken')
      /\ \/ Cardinality(Taken') = Cardinality(Taken)
         \/ Cardinality(Taken') = Cardinality(Taken) + 1
  BY FS_AddElement DEF CountInv
<1>3. /\ Cardinality(Seeking') \in Nat /\ Cardinality(Seeking) \in Nat
      /\ Cardinality(Taken) \in Nat /\ Cardinality(Taken') \in Nat
      /\ Cardinality(Old) \in Nat
  BY <1>1, <1>2, FS_CardinalityType DEF CountInv
<1>4. Cardinality(Taken') + Cardinality(Seeking') <= Cardinality(Old) + jobs
  BY <1>1, <1>2, <1>3 DEF CountInv
<1>5. QED
  BY <1>1, <1>2, <1>4 DEF CountInv

LEMMA CountNext == TypeInv /\ CountInv /\ [Next]_vars => CountInv'
<1> SUFFICES ASSUME TypeInv, CountInv, [Next]_vars PROVE CountInv'
  OBVIOUS
<1>p. /\ pc \in [Threads -> {"idle", "stat", "open", "fill", "docker", "copy"}]
      /\ dir \in [Paths -> Contents \cup {None}] /\ jobs \in Nat
  BY DEF TypeInv, TypeOK
<1>1. ASSUME NEW t \in Threads, NEW n, NEW len, Begin(t, n, len)
      PROVE  CountInv'
  <2>1. Seeking' = Seeking \cup {t}
    BY <1>1, <1>p DEF Begin, Seeking
  <2>2. Taken' = Taken /\ jobs' = jobs + 1
    BY <1>1 DEF Begin, Taken
  <2>3. QED
    BY <1>p, <2>1, <2>2, CountBegun
<1>2. ASSUME NEW t \in Threads, Open(t)
      PROVE  CountInv'
  <2>1. /\ pc[t] = "open" /\ dest[t] \in Paths /\ Blank # None
        /\ dir' = [dir EXCEPT ![dest[t]] = Blank]
        /\ pc' = [pc EXCEPT ![t] = "fill"] /\ jobs' = jobs
    BY <1>2, BlankTyped, NoneIsNoFile
       DEF Open, TypeInv, JobsOK, ThreadOK, Placed, bounds
  <2>2. Taken' = Taken \cup {dest[t]}
    BY <1>p, <2>1 DEF Taken
  <2>3. t \in Seeking /\ Seeking' = Seeking \ {t}
    BY <1>p, <2>1 DEF Seeking
  <2>4. QED
    BY <1>p, <2>1, <2>2, <2>3, CountOpened
(* All other steps leave the names as they are; those of a thread that     *)
(* writes to a file write to one that is there.                            *)
<1>3. ASSUME NEW t \in Threads, Saver(t), ~Open(t)
      PROVE  CountInv'
  <2>1. Seeking' \subseteq Seeking /\ jobs' = jobs
    BY <1>3, <1>p DEF Saver, Pick, TryNext, Fill, SaveFails, DockerRead,
       DockerCopy, Seeking, bounds
  <2>2. dir' = dir \/ \E m : pc[t] = "fill" /\
                        dir' = [dir EXCEPT ![dest[t]] = Overlay(@, job[t], m)]
    BY <1>3 DEF Saver, Pick, TryNext, Fill, SaveFails, DockerRead, DockerCopy
  <2>3. \A p \in Paths : dir[p] = None => dir'[p] = None
    BY <1>p, <2>2 DEF TypeInv, JobsOK, ThreadOK
  <2>4. \A p \in Paths : dir[p] # None => dir'[p] # None
    BY FilesStay
  <2>5. Taken' = Taken
    BY <2>3, <2>4 DEF Taken
  <2>6. QED
    BY <1>p, <2>1, <2>5, CountSame
<1>4. ASSUME NEW c, SetDocker(c) PROVE CountInv'
  <2>1. UNCHANGED <<dir, pc, jobs>>
    BY <1>4 DEF SetDocker
  <2>2. QED
    BY <1>p, <2>1, CountSame DEF Taken, Seeking
<1>5. CASE Restart
  <2>1. UNCHANGED <<dir, jobs>> /\ Seeking' = {}
    BY <1>5, <1>p DEF Restart, Seeking
  <2>2. QED
    BY <1>p, <2>1, CountSame DEF Taken
<1>6. CASE UNCHANGED vars
  BY <1>6, <1>p, CountSame DEF vars, bounds, Taken, Seeking
<1>7. QED
  BY <1>1, <1>2, <1>3, <1>4, <1>5, <1>6 DEF Next

(* A series with more candidates than files has one that is free.          *)
LEMMA SomeFree ==
  ASSUME TypeInv, CountInv, EnoughNames, NEW t \in Threads, pc[t] = "stat"
  PROVE  \E i \in 0..MaxTry : Free(Cand[name[t]][i])
<1> DEFINE f == Cand[name[t]]
<1> SUFFICES ASSUME \A i \in 0..MaxTry : ~Free(f[i]) PROVE FALSE
  OBVIOUS
<1>1. /\ f \in [0..MaxTry -> Paths] /\ MaxTry \in Nat /\ MaxJobs \in Nat
      /\ jobs \in 0..MaxJobs
  BY RecvDirAssumption DEF TypeInv, TypeOK
<1>2. \A i \in 0..MaxTry : f[i] \in Taken
  BY <1>1 DEF Free, EnoughNames, Taken
<1>3. \A i, j \in 0..MaxTry : f[i] = f[j] => i = j
  BY DEF EnoughNames, TypeInv, TypeOK
<1>4. f \in Injection(0..MaxTry, Taken)
  BY <1>1, <1>2, <1>3 DEF Injection, IsInjective
<1>5. /\ IsFiniteSet(Taken) /\ IsFiniteSet(Seeking)
      /\ Cardinality(Taken) + Cardinality(Seeking) <= Cardinality(Old) + jobs
      /\ Cardinality(Old) \in Nat
      /\ Cardinality(Old) + MaxJobs <= MaxTry + 1
  BY FS_CardinalityType DEF CountInv, EnoughNames
<1>6. Cardinality(0..MaxTry) <= Cardinality(Taken)
  BY <1>4, <1>5, FS_Injection
<1>7. Cardinality(0..MaxTry) = MaxTry + 1
  BY <1>1, FS_Interval
<1>8. t \in Seeking
  BY DEF Seeking
<1>9. Cardinality(Seeking) \in Nat /\ Cardinality(Seeking) # 0
  BY <1>5, <1>8, FS_CardinalityType, FS_EmptySet
<1>10. Cardinality(Taken) \in Nat
  BY <1>5, FS_CardinalityType
<1>11. QED
  BY <1>1, <1>5, <1>6, <1>7, <1>9, <1>10

(* dedupePath gives a file the first name of its series that is free, and  *)
(* finds one, whatever names other threads take while it searches, as long *)
(* as Stat fails for none of them (daemon.go:359-371).                     *)
THEOREM NamesAreFound == Spec => []FirstFreeName
<1>1. Init => GapInv
  BY DEF Init, GapInv, GapOK
<1>2. TypeInv /\ GapInv /\ CountInv => FirstFreeName
  <2> SUFFICES ASSUME TypeInv, GapInv, CountInv PROVE FirstFreeName
    OBVIOUS
  <2>1. ASSUME EnoughNames, NEW t \in Threads, pc[t] = "stat"
        PROVE  \E i \in try[t]..MaxTry : Free(Cand[name[t]][i])
    <3>1. PICK i \in 0..MaxTry : Free(Cand[name[t]][i])
      BY <2>1, SomeFree
    <3>2. try[t] \in 0..MaxTry /\ i \notin 0..(try[t] - 1) /\ MaxTry \in Nat
      BY <2>1, <3>1, RecvDirAssumption DEF GapInv, GapOK, TypeInv, TypeOK
    <3>3. i \in try[t]..MaxTry
      BY <3>2
    <3>4. QED
      BY <3>1, <3>3
  <2>2. QED
    BY <2>1 DEF FirstFreeName, GapInv, GapOK
<1>3. QED
  BY <1>1, <1>2, TypeInit, TypeNext, GapNext, CountInit, CountNext, PTL DEF Spec
=============================================================================
