------------------------------- MODULE Control ------------------------------
(***************************************************************************)
(* The settings: the file config.json, the daemon that keeps a copy of it  *)
(* in memory (Daemon.mu, config.Load and Save), the invocations of the CLI *)
(* that ask the daemon over HTTP to change it, and the starts and ends of  *)
(* the daemon's process.  The CLI reads the file too, and writes defaults  *)
(* if it finds none.                                                       *)
(*                                                                         *)
(* A file is written in two steps, as os.WriteFile does: it is created or  *)
(* truncated, and filled.                                                  *)
(***************************************************************************)
EXTENDS Naturals

CONSTANTS
  Clients,      \* invocations of the CLI; each has one handler in the server
  Names,        \* names of targets and containers
  NoName,       \* the name "": no target, or no container
  NoClient,     \* nobody holds the lock, or has changed a field
  Absent, Empty, Torn,  \* no file; a truncated one; one that is not JSON
  InitialDisks, \* what config.json may be at first
  MaxStarts,    \* bound: starts of the daemon
  MaxFailures,  \* bound: writes of the file that fail
  MaxFlips      \* bound: times Tailscale comes up or goes down

Serve     == "serve"
Processes == Clients \cup {Serve}
Settings  == [sync : BOOLEAN, target : Names, docker : Names]
Defaults  == [sync |-> TRUE, target |-> NoName, docker |-> NoName]
Fields    == {"sync", "target", "docker"}
Addresses == {"tailnet", "loopback"}

(* clippy on and off; target; docker; status.                              *)
Report   == [field |-> "status", value |-> TRUE]
Commands ==
  [field : {"sync"}, value : BOOLEAN] \cup
  [field : {"target"}, value : Names \ {NoName}] \cup
  [field : {"docker"}, value : Names] \cup
  {Report}

ASSUME ControlAssumption ==
  /\ NoName \in Names
  /\ Serve \notin Clients
  /\ NoClient \notin Clients
  /\ {Absent, Empty, Torn} \cap Settings = {}
  /\ Absent # Empty /\ Absent # Torn /\ Empty # Torn
  /\ InitialDisks \subseteq Settings \cup {Absent}
  /\ MaxStarts \in Nat /\ MaxFailures \in Nat /\ MaxFlips \in Nat

VARIABLES
  disk,      \* config.json
  at,        \* where each process is; the daemon, as far as its start
  asks,      \* per client: the command it has sent
  handler,   \* per client: where the server's goroutine for it is
  mu,        \* the client whose handler holds Daemon.mu
  cfg,       \* the settings in the daemon's memory
  addr,      \* the address the daemon listens on
  up,        \* Tailscale is up and tells this machine's address
  seeded,    \* history: the processes that found no file
  cut,       \* history: the last write of the file was cut short
  latest,    \* history: per field, the client whose command set it last
  starts, failures, flips  \* how much of each bound is used up

envVars    == <<addr, up, starts, flips>>
serverVars == <<asks, handler, mu, latest>>
vars == <<disk, at, asks, handler, mu, cfg, addr, up, seeded, cut, latest,
          starts, failures, flips>>

Init ==
  /\ disk \in InitialDisks
  /\ at = [p \in Processes |-> "off"]
  /\ asks = [c \in Clients |-> Report]
  /\ handler = [c \in Clients |-> "none"]
  /\ mu = NoClient
  /\ cfg = Defaults
  /\ addr = "loopback"
  /\ up \in BOOLEAN
  /\ seeded = {}
  /\ cut = FALSE
  /\ latest = [f \in Fields |-> NoClient]
  /\ starts = 0 /\ failures = 0 /\ flips = 0

-----------------------------------------------------------------------------
(* Starting: config.Load, by the daemon and by every invocation of the CLI.*)

Invoke(c) ==
  /\ at[c] = "off"
  /\ at' = [at EXCEPT ![c] = "load"]
  /\ UNCHANGED <<disk, serverVars, cfg, envVars, seeded, cut, failures>>

Start ==
  /\ at[Serve] \in {"off", "failed"}
  /\ starts < MaxStarts
  /\ starts' = starts + 1
  /\ at' = [at EXCEPT ![Serve] = "load"]
  /\ UNCHANGED <<disk, serverVars, cfg, addr, up, seeded, cut, failures, flips>>

(* What Load leaves in the memory of process p.                            *)
Keep(p, s) == cfg' = IF p = Serve THEN s ELSE cfg

(* Mutated: a file that does not parse is taken for a first run.           *)
LoadOrSeed(p) ==
  /\ at[p] = "load"
  /\ \/ disk \in Settings
        /\ at' = [at EXCEPT ![p] = "ready"]
        /\ Keep(p, disk)
        /\ seeded' = seeded
     \/ disk \notin Settings
        /\ at' = [at EXCEPT ![p] = "create"]
        /\ Keep(p, Defaults)
        /\ seeded' = seeded \cup {p}
  /\ UNCHANGED <<disk, serverVars, envVars, cut, failures>>

(* Mutated: the error of json.Unmarshal is ignored.                        *)
LoadAnything(p) ==
  /\ at[p] = "load"
  /\ disk # Absent
  /\ at' = [at EXCEPT ![p] = "ready"]
  /\ Keep(p, disk)
  /\ UNCHANGED <<disk, serverVars, envVars, seeded, cut, failures>>

Load(p) ==
  /\ at[p] = "load"
  /\ \/ disk \in Settings
        /\ at' = [at EXCEPT ![p] = "ready"]
        /\ Keep(p, disk)
        /\ seeded' = seeded
     \/ disk \in {Empty, Torn}
        /\ at' = [at EXCEPT ![p] = "failed"]
        /\ UNCHANGED <<cfg, seeded>>
     \/ disk = Absent
        /\ at' = [at EXCEPT ![p] = "create"]
        /\ Keep(p, Defaults)
        /\ seeded' = seeded \cup {p}
  /\ UNCHANGED <<disk, serverVars, envVars, cut, failures>>

(* A write starts at the beginning of the file: unless the file is still   *)
(* as it was truncated, the end of something longer may stay behind.       *)
Filled(s) ==
  \/ disk' = s
  \/ disk \notin {Empty, s} /\ disk' = Torn

SeedCreate(p) ==
  /\ at[p] = "create"
  /\ disk' = Empty
  /\ at' = [at EXCEPT ![p] = "write"]
  /\ UNCHANGED <<serverVars, cfg, envVars, seeded, cut, failures>>

SeedWrite(p) ==
  /\ at[p] = "write"
  /\ Filled(Defaults)
  /\ cut' = FALSE
  /\ at' = [at EXCEPT ![p] = "ready"]
  /\ UNCHANGED <<serverVars, cfg, envVars, seeded, failures>>

SeedFails(p) ==
  /\ at[p] \in {"create", "write"}
  /\ failures < MaxFailures
  /\ failures' = failures + 1
  /\ at' = [at EXCEPT ![p] = "failed"]
  /\ cut' = (cut \/ at[p] = "write")
  /\ UNCHANGED <<disk, serverVars, cfg, envVars, seeded>>

-----------------------------------------------------------------------------
(* The daemon serves, and a client reaches it or not.                      *)

(* ListenAddr: this machine's address on the tailnet, if there is one.     *)
ListenAddr == IF up THEN "tailnet" ELSE "loopback"

Listen ==
  /\ at[Serve] = "ready"
  /\ addr' = ListenAddr
  /\ at' = [at EXCEPT ![Serve] = "serving"]
  /\ UNCHANGED <<disk, serverVars, cfg, up, seeded, starts, cut, failures, flips>>

Dial(c, cmd) ==
  /\ at[c] = "ready"
  /\ at[Serve] = "serving"
  /\ addr = ListenAddr
  /\ asks' = [asks EXCEPT ![c] = cmd]
  /\ at' = [at EXCEPT ![c] = "asked"]
  /\ handler' = [handler EXCEPT ![c] = "queued"]
  /\ UNCHANGED <<disk, mu, cfg, envVars, seeded, latest, cut, failures>>

(* "is the daemon running?"                                                *)
DialFails(c) ==
  /\ at[c] = "ready"
  /\ at[Serve] # "serving" \/ addr # ListenAddr
  /\ at' = [at EXCEPT ![c] = "failed"]
  /\ UNCHANGED <<disk, serverVars, cfg, envVars, seeded, cut, failures>>

(* No answer within httpTimeout, or the connection is gone.                *)
Timeout(c) ==
  /\ at[c] = "asked"
  /\ at' = [at EXCEPT ![c] = "failed"]
  /\ UNCHANGED <<disk, serverVars, cfg, envVars, seeded, cut, failures>>

-----------------------------------------------------------------------------
(* SetTarget, SetSync and SetDocker, which hold the lock until they        *)
(* return, and Status, which holds it while it runs tailscale.             *)

Lock(c) ==
  /\ handler[c] = "queued"
  /\ mu = NoClient
  /\ mu' = c

Set(c) ==
  /\ Lock(c)
  /\ asks[c].field \in Fields
  /\ cfg' = [cfg EXCEPT ![asks[c].field] = asks[c].value]
  /\ latest' = [latest EXCEPT ![asks[c].field] = c]
  /\ handler' = [handler EXCEPT ![c] = "create"]
  /\ UNCHANGED <<disk, at, asks, envVars, seeded, cut, failures>>

Status(c) ==
  /\ Lock(c)
  /\ asks[c].field = "status"
  /\ handler' = [handler EXCEPT ![c] = "answer"]
  /\ UNCHANGED <<disk, at, asks, cfg, envVars, seeded, latest, cut, failures>>

SaveCreate(c) ==
  /\ handler[c] = "create"
  /\ disk' = Empty
  /\ handler' = [handler EXCEPT ![c] = "write"]
  /\ UNCHANGED <<at, asks, mu, cfg, envVars, seeded, latest, cut, failures>>

SaveWrite(c) ==
  /\ handler[c] = "write"
  /\ Filled(cfg)
  /\ cut' = FALSE
  /\ handler' = [handler EXCEPT ![c] = "answer"]
  /\ UNCHANGED <<at, asks, mu, cfg, envVars, seeded, latest, failures>>

(* How the client ends, if it still waits.                                 *)
Reply(c, how) ==
  at' = IF at[c] = "asked" THEN [at EXCEPT ![c] = how] ELSE at

(* Mutated: the way out after an error does not unlock.                    *)
SaveFailsLocked(c) ==
  /\ handler[c] \in {"create", "write"}
  /\ failures < MaxFailures
  /\ failures' = failures + 1
  /\ handler' = [handler EXCEPT ![c] = "none"]
  /\ cut' = (cut \/ handler[c] = "write")
  /\ Reply(c, "failed")
  /\ UNCHANGED <<disk, asks, mu, cfg, envVars, seeded, latest>>

(* The error of Save is the answer; what is in memory stays.               *)
SaveFails(c) ==
  /\ handler[c] \in {"create", "write"}
  /\ failures < MaxFailures
  /\ failures' = failures + 1
  /\ handler' = [handler EXCEPT ![c] = "none"]
  /\ mu' = NoClient
  /\ cut' = (cut \/ handler[c] = "write")
  /\ Reply(c, "failed")
  /\ UNCHANGED <<disk, asks, cfg, envVars, seeded, latest>>

Answer(c) ==
  /\ handler[c] = "answer"
  /\ handler' = [handler EXCEPT ![c] = "none"]
  /\ mu' = NoClient
  /\ Reply(c, "done")
  /\ UNCHANGED <<disk, asks, cfg, envVars, seeded, latest, cut, failures>>

-----------------------------------------------------------------------------
(* A signal makes serve return without waiting for the server, and a crash *)
(* ends the process as well: its goroutines stop where they are.           *)
Stop ==
  /\ at[Serve] \notin {"off", "failed"}
  /\ at' = [at EXCEPT ![Serve] = "off"]
  /\ handler' = [c \in Clients |-> "none"]
  /\ mu' = NoClient
  /\ cut' = (cut \/ at[Serve] = "write" \/ \E c \in Clients : handler[c] = "write")
  /\ UNCHANGED <<disk, asks, cfg, envVars, seeded, latest, failures>>

Flip ==
  /\ flips < MaxFlips
  /\ flips' = flips + 1
  /\ up' = ~up
  /\ UNCHANGED <<disk, at, serverVars, cfg, addr, seeded, starts, cut, failures>>

-----------------------------------------------------------------------------
Loading(p) == Load(p) \/ SeedCreate(p) \/ SeedWrite(p) \/ SeedFails(p)

Client(c) ==
  Invoke(c) \/ (\E cmd \in Commands : Dial(c, cmd)) \/ DialFails(c) \/ Timeout(c)

Handler(c) ==
  Set(c) \/ Status(c) \/ SaveCreate(c) \/ SaveWrite(c) \/ SaveFails(c) \/ Answer(c)

Next ==
  \/ Start \/ Listen \/ Stop \/ Flip
  \/ \E p \in Processes : Loading(p)
  \/ \E c \in Clients : Client(c) \/ Handler(c)

Spec == Init /\ [][Next]_vars

(* The server's goroutines run, and tailscale and the disk answer.         *)
FairSpec == Spec /\ \A c \in Clients : WF_vars(Handler(c))

-----------------------------------------------------------------------------
(* Each variable keeps to its values; the daemon never works with settings *)
(* that it did not read in full or make itself.                            *)
TypeOK ==
  /\ disk \in Settings \cup {Absent, Empty, Torn}
  /\ at \in [Processes -> {"off", "load", "create", "write", "ready", "asked",
                           "serving", "done", "failed"}]
  /\ asks \in [Clients -> Commands]
  /\ handler \in [Clients -> {"none", "queued", "create", "write", "answer"}]
  /\ mu \in Clients \cup {NoClient}
  /\ cfg \in Settings
  /\ addr \in Addresses
  /\ up \in BOOLEAN
  /\ seeded \subseteq Processes /\ cut \in BOOLEAN
  /\ latest \in [Fields -> Clients \cup {NoClient}]
  /\ starts \in Nat /\ failures \in Nat /\ flips \in Nat

(* At most one process has found no file.                                  *)
Alone == \A p, q \in seeded : p = q

(* Daemon.mu is held by one handler at most, and by nobody but the handler *)
(* that is between its lock and its unlock: no way through a handler, and  *)
(* no end of the process, keeps it (daemon.go:202-236).                    *)
LockLent ==
  \A c \in Clients : handler[c] \in {"create", "write", "answer"} <=> mu = c

(* Nothing but a write that is cut short, by a failure or by the end of the*)
(* process, damages config.json (config.go:48-58, 79): saves, first runs   *)
(* and readers never mix, and the file is empty only while it is written.  *)
FileWhole ==
  Alone =>
    /\ disk # Torn
    /\ disk = Empty /\ ~cut =>
         \/ \E p \in Processes : at[p] = "write"
         \/ \E c \in Clients : handler[c] = "write"

(* Client c was told that the daemon did what it asked, and no command has *)
(* touched the field since.                                                *)
Stands(c) ==
  at[c] = "done" /\ asks[c].field \in Fields /\ latest[asks[c].field] = c

Holds(c) ==
  /\ at[Serve] = "serving" => cfg[asks[c].field] = asks[c].value
  /\ disk \in Settings => disk[asks[c].field] = asks[c].value

(* A setting the user was told about holds (FR-011, FR-012, SC-005): in    *)
(* the memory of the daemon, and in the file as far as it can be read, so  *)
(* that it survives saves of other settings, failed saves and restarts,    *)
(* until it is set again; unless two processes seeded the file.            *)
AnsweredHolds == Alone => \A c \in Clients : Stands(c) => Holds(c)

(* The lock is never kept: every request the server takes is answered, or  *)
(* lost with the process, whichever saves fail (daemon.go:202-236).        *)
HandlersEnd ==
  \A c \in Clients : handler[c] = "queued" ~> handler[c] = "none"
=============================================================================
