------------------------------- MODULE RecvDir ------------------------------
(***************************************************************************)
(* The receive folder: saveFile and copyIntoDocker of the daemon, run by   *)
(* any number of threads at once (the handlers of received files and the   *)
(* loop for copied images).  Daemon.mu guards only the reading of the      *)
(* settings, so a thread can act between the Stat that finds a name free   *)
(* and the WriteFile that takes it.                                        *)
(*                                                                         *)
(* A file is a few blocks, each marked with the job that wrote it, which   *)
(* tells whole files from empty, short and mixed ones.  Nobody but the     *)
(* daemon writes to the folder.                                            *)
(***************************************************************************)
EXTENDS Integers, FiniteSets

CONSTANTS
  Threads,
  Names,       \* file names asked for
  Paths,       \* paths in the folder
  Cand,        \* Cand[n][i]: dedupePath's i-th candidate for the name n
  MaxTry,      \* bound: number of candidates; they stand for all after them
  Unstatable,  \* paths whose Stat fails with an error of its own
  Old,         \* paths of the files that were there before
  Containers,  \* Docker containers that can be chosen
  None,        \* no file, block, path or container
  Blocks,      \* bound: the size of the longest file
  MaxJobs,     \* bound: files to save
  MaxChanges,  \* bound: calls of SetDocker
  MaxRestarts  \* bound: restarts of the process

Jobs == 1..MaxJobs

(* What a file can hold: block k is the job that wrote it, 0 in a file     *)
(* that was there before, None past the end.                               *)
Contents == [1..Blocks -> Jobs \cup {0, None}]

ASSUME RecvDirAssumption ==
  /\ MaxTry \in Nat \ {0} /\ Blocks \in Nat \ {0}
  /\ MaxJobs \in Nat /\ MaxChanges \in Nat /\ MaxRestarts \in Nat
  /\ Cand \in [Names -> [0..MaxTry -> Paths]]
  /\ Names # {} /\ Old \subseteq Paths
  /\ None \notin Nat \cup Paths \cup Contents \cup Containers

VARIABLES
  dir,        \* path -> what the file holds, or None
  box,        \* container -> path -> what the copy holds, or None
  container,  \* cfg.DockerContainer
  pc,         \* where each thread is
  job,        \* per thread: the job it saves (0 before the first)
  name,       \* per thread: the name asked for
  try,        \* per thread: dedupePath's i
  dest,       \* per thread: the path dedupePath returned
  into,       \* per thread: copyIntoDocker's container
  size,       \* history: job -> number of blocks of its body
  saved,      \* history: job -> path saveFile returned without error
  raced,      \* history: jobs that got a path together with another one
  jobs, changes, restarts  \* how much of each bound is used up

locals   == <<job, name, try, dest, into>>
history  == <<size, saved, raced>>
bounds   == <<jobs, changes, restarts>>
vars     == <<dir, box, container, pc, locals, history, bounds>>

Blank   == [k \in 1..Blocks |-> None]
Body(j) == [k \in 1..Blocks |-> IF k <= size[j] THEN j ELSE None]

Init ==
  /\ dir = [p \in Paths |->
              IF p \in Old THEN [k \in 1..Blocks |-> 0] ELSE None]
  /\ box = [c \in Containers |-> [p \in Paths |-> None]]
  /\ container \in Containers \cup {None}
  /\ pc = [t \in Threads |-> "idle"]
  /\ job = [t \in Threads |-> 0]
  /\ name = [t \in Threads |-> CHOOSE n \in Names : TRUE]
  /\ try = [t \in Threads |-> 0]
  /\ dest = [t \in Threads |-> None]
  /\ into = [t \in Threads |-> None]
  /\ size = [j \in Jobs |-> 1]
  /\ saved = [j \in Jobs |-> None]
  /\ raced = {}
  /\ jobs = 0 /\ changes = 0 /\ restarts = 0

-----------------------------------------------------------------------------
(* saveFile is called; MkdirAll has made sure of the folder.               *)
Begin(t, n, len) ==
  /\ pc[t] = "idle"
  /\ jobs < MaxJobs
  /\ jobs' = jobs + 1
  /\ job' = [job EXCEPT ![t] = jobs + 1]
  /\ name' = [name EXCEPT ![t] = n]
  /\ try' = [try EXCEPT ![t] = 0]
  /\ size' = [size EXCEPT ![jobs + 1] = len]
  /\ pc' = [pc EXCEPT ![t] = "stat"]
  /\ UNCHANGED <<dir, box, container, dest, into, saved, raced, changes,
                 restarts>>

Candidate(t) == Cand[name[t]][try[t]]

(* Mutated: the name is taken without asking whether a file has it.        *)
FreeUnasked(p) == p \notin Unstatable

(* os.Stat(p) says that p does not exist.                                  *)
Free(p) == p \notin Unstatable /\ dir[p] = None

(* dedupePath returns its candidate.  The history notes who else has been  *)
(* given the same path and has not opened it yet.                          *)
Pick(t) ==
  /\ pc[t] = "stat"
  /\ Free(Candidate(t))
  /\ dest' = [dest EXCEPT ![t] = Candidate(t)]
  /\ pc' = [pc EXCEPT ![t] = "open"]
  /\ LET rivals == {u \in Threads : pc[u] = "open" /\ dest[u] = Candidate(t)}
     IN  raced' = raced \cup {job[u] : u \in rivals}
                        \cup (IF rivals = {} THEN {} ELSE {job[t]})
  /\ UNCHANGED <<dir, box, container, job, name, try, into, size, saved,
                 bounds>>

(* Mutated: the counter of the loop is not advanced, or runs down.         *)
SameTry(i) == i
CountDown(i) == i - 1

(* Mutated: the counter of the loop is advanced twice.                     *)
SkipTry(i) == IF i + 1 < MaxTry THEN i + 2 ELSE 1

(* After the last candidate come more of the same kind.                    *)
NextTry(i) == IF i < MaxTry THEN i + 1 ELSE 1

(* Any other answer of os.Stat, "exists" or an error, tries the next name. *)
TryNext(t) ==
  /\ pc[t] = "stat"
  /\ ~Free(Candidate(t))
  /\ try' = [try EXCEPT ![t] = NextTry(@)]
  /\ UNCHANGED <<dir, box, container, pc, job, name, dest, into, history,
                 bounds>>

(* Mutated: the file is opened, and goes on to Docker before it is filled. *)
OpenAndCopy(t) ==
  /\ pc[t] = "open"
  /\ dir' = [dir EXCEPT ![dest[t]] = Blank]
  /\ pc' = [pc EXCEPT ![t] = "docker"]
  /\ UNCHANGED <<box, container, locals, history, bounds>>

(* os.WriteFile opens with O_CREATE and O_TRUNC ...                        *)
Open(t) ==
  /\ pc[t] = "open"
  /\ dir' = [dir EXCEPT ![dest[t]] = Blank]
  /\ pc' = [pc EXCEPT ![t] = "fill"]
  /\ UNCHANGED <<box, container, locals, history, bounds>>

(* A file that holds c, once job j has written its first m blocks over it. *)
Overlay(c, j, m) == [k \in 1..Blocks |-> IF k <= m THEN j ELSE c[k]]

(* ... and writes the body, in one system call, from the start of the file.*)
Fill(t) ==
  /\ pc[t] = "fill"
  /\ dir' = [dir EXCEPT ![dest[t]] = Overlay(@, job[t], size[job[t]])]
  /\ saved' = [saved EXCEPT ![job[t]] = dest[t]]
  /\ pc' = [pc EXCEPT ![t] = "docker"]
  /\ UNCHANGED <<box, container, locals, size, raced, bounds>>

(* The open fails, or the write after some of the body (a full disk): the  *)
(* caller gets the error and what was written stays.                       *)
SaveFails(t) ==
  /\ \/ pc[t] = "open" /\ dir' = dir
     \/ /\ pc[t] = "fill"
        /\ \E m \in 0..(size[job[t]] - 1) :
             dir' = [dir EXCEPT ![dest[t]] = Overlay(@, job[t], m)]
  /\ pc' = [pc EXCEPT ![t] = "idle"]
  /\ UNCHANGED <<box, container, locals, history, bounds>>

(* copyIntoDocker reads the setting under the lock ...                     *)
DockerRead(t) ==
  /\ pc[t] = "docker"
  /\ into' = [into EXCEPT ![t] = container]
  /\ pc' = [pc EXCEPT ![t] = IF container = None THEN "idle" ELSE "copy"]
  /\ UNCHANGED <<dir, box, container, job, name, try, dest, history, bounds>>

(* ... and runs docker exec mkdir and docker cp, whose failure is logged   *)
(* (external: a docker cp that fails is taken to leave no file).           *)
DockerCopy(t) ==
  /\ pc[t] = "copy"
  /\ \/ box' = [box EXCEPT ![into[t]] = [@ EXCEPT ![dest[t]] = dir[dest[t]]]]
     \/ box' = box
  /\ pc' = [pc EXCEPT ![t] = "idle"]
  /\ UNCHANGED <<dir, container, locals, history, bounds>>

SetDocker(c) ==
  /\ changes < MaxChanges
  /\ container' = c
  /\ changes' = changes + 1
  /\ UNCHANGED <<dir, box, pc, locals, history, jobs, restarts>>

(* The process ends with saves under way, and starts again: serve returns  *)
(* without waiting for its handlers.                                       *)
Restart ==
  /\ restarts < MaxRestarts
  /\ restarts' = restarts + 1
  /\ pc' = [t \in Threads |-> "idle"]
  /\ UNCHANGED <<dir, box, container, locals, history, jobs, changes>>

Saver(t) ==
  \/ Pick(t) \/ TryNext(t) \/ Open(t) \/ Fill(t) \/ SaveFails(t)
  \/ DockerRead(t) \/ DockerCopy(t)

Next ==
  \/ \E t \in Threads, n \in Names, len \in 1..Blocks : Begin(t, n, len)
  \/ \E t \in Threads : Saver(t)
  \/ \E c \in Containers \cup {None} : SetDocker(c)
  \/ Restart

Spec == Init /\ [][Next]_vars

(* The scheduler runs every thread, and docker is assumed to return.       *)
FairSpec == Spec /\ \A t \in Threads : WF_vars(Saver(t))

-----------------------------------------------------------------------------
(* Each variable keeps to its values; a thread past dedupePath has a path. *)
TypeOK ==
  /\ dir \in [Paths -> Contents \cup {None}]
  /\ box \in [Containers -> [Paths -> Contents \cup {None}]]
  /\ container \in Containers \cup {None}
  /\ pc \in [Threads -> {"idle", "stat", "open", "fill", "docker", "copy"}]
  /\ job \in [Threads -> Jobs \cup {0}]
  /\ name \in [Threads -> Names]
  /\ try \in [Threads -> 0..MaxTry]
  /\ dest \in [Threads -> Paths \cup {None}]
  /\ into \in [Threads -> Containers \cup {None}]
  /\ size \in [Jobs -> 1..Blocks]
  /\ saved \in [Jobs -> Paths \cup {None}]
  /\ raced \subseteq Jobs
  /\ jobs \in 0..MaxJobs /\ changes \in Nat /\ restarts \in Nat

(* FR-008 as far as it goes: a file that was there before is never         *)
(* touched, and a saved file keeps exactly its body, whatever is saved,    *)
(* fails or crashes later, unless its job was given its path while another *)
(* job held the same path unopened.                                        *)
UnracedIntact ==
  /\ \A p \in Old : dir[p] = [k \in 1..Blocks |-> 0]
  /\ \A j \in Jobs \ raced : saved[j] # None => dir[saved[j]] = Body(j)

(* The copy in a container is the whole body of a saved file.              *)
ContainerCopiesWhole ==
  \A c \in Containers, p \in Paths :
    box[c][p] # None =>
      \E j \in Jobs : saved[j] = p /\ (j \in raced \/ box[c][p] = Body(j))

(* The candidates stand for a series without end as long as no more files  *)
(* than candidates can exist, and Stat fails for none of them.             *)
EnoughNames ==
  /\ Unstatable = {}
  /\ IsFiniteSet(Old) /\ Cardinality(Old) + MaxJobs <= MaxTry + 1
  /\ \A n \in Names, i, j \in 0..MaxTry : Cand[n][i] = Cand[n][j] => i = j

(* dedupePath gives a file the first name of its series that no file had   *)
(* when it looked (FR-008), and there is one it has not yet looked at,     *)
(* however many names other threads take while it searches.                *)
FirstFreeName ==
  /\ \A t \in Threads : pc[t] \in {"stat", "open"} =>
       \A i \in 0..(try[t] - 1) : ~Free(Cand[name[t]][i])
  /\ \A t \in Threads : pc[t] = "open" => dest[t] = Candidate(t)
  /\ EnoughNames => \A t \in Threads : pc[t] = "stat" =>
       \E i \in try[t]..MaxTry : Free(Cand[name[t]][i])

(* Every save comes to an end, with a path or an error.                    *)
SavesEnd == \A t \in Threads : pc[t] # "idle" ~> pc[t] = "idle"
=============================================================================
