# clippy in TLA+

Specifications of clippy (`src/`), a daemon that pushes what is copied on one
machine to a chosen other machine of a tailnet, and receives what other
machines push. They are checked by TLC on small instances, and their main
invariants are proved with TLAPS for every value of the constants.

## 1. The system

| Component | State it keeps | Operations | Talks to |
|---|---|---|---|
| Daemon core (`daemon/daemon.go`) | under `mu`: settings, `recentlySeen`, `lastSent` | `Run`/`onLocalChange`, `Receive`, `SetTarget`, `SetSync`, `SetDocker`, `Status`, `Relay` | channel from the watcher; called by the HTTP server; clipboard, folder, docker, peers |
| Receive folder (same file) | files, copies in containers | `saveFile`, `dedupePath`, `copyIntoDocker` | run by all handlers and by the loop, without a lock |
| Linux watcher (`clipboard/clipboard_linux.go`) | digest of the last emit, one pending notification, event or polling mode | `Watch`, `emit`, `current`, `watchChanges` | wl-paste/xclip; pushes on the daemon's channel of 8 |
| macOS backend (`clipboard_darwin.go`) | digest of the last emit | `Watch` (polling), `Set` | pbpaste, osascript |
| Configuration (`config/config.go`) | `config.json` | `Load` (seeds defaults), `Save` | daemon and CLI, with no lock between processes |
| CLI (`cli/cli.go`) | none | `target`, `docker`, `on`, `off`, `status`, `peers` | config file, then one HTTP request with a timeout of 5 s |
| Picker (`cli/picker.go`) | list, cursor | keys | used by `target` and `docker` without a name |
| HTTP server and client (`transport/`) | none | `handleClip`, `handleSend`, control handlers; `Client.Send` with a timeout of 30 s | daemon |
| Tailnet (`tailnet/tailnet.go`) | none | `Resolve`, `Peers`, `SelfIP`, `ListenAddr` | `tailscale status` |
| Payload (`payload/`) | none | `New`, `Hash`, `OverCap` | everywhere |
| Webapp (`webapp/`) | chips, selected machine (stored by the browser) | `loadPeers`, `selectTarget`, `doSend` | `handlePeers`, `handleSend` |
| Process (`cmd/clippy/main.go`) | none | `serve`, stop on a signal | starts watcher, loop and server |

What is hard here:

* **Concurrency.** The watcher, the loop and any number of handlers share the
  clipboard, the folder and the settings. Only short sections hold `mu`; saving,
  docker, the clipboard programs and pushes run outside, so that settings,
  free names and marks in `recentlySeen` can be stale when they are used.
* **Self-stimulation.** Everything the daemon puts on the clipboard fires its
  own watcher. `recentlySeen` is meant to swallow just that, but fires are
  coalesced, missing or late, and the map is emptied at its limit.
* **Failure.** Pushes fail after any delay, saves stop half way, wl-paste dies,
  one of the clipboard programs fails, the process ends wherever its
  goroutines are.
* **Two processes on one file.** CLI and daemon both load and seed the file.
* **Two ends of a push.** The caller gives up after 30 s or loses the answer,
  the handler knows nothing of it and goes on; either machine may stop; both
  may be pushing to each other.
* **Names.** Users choose from names, which are looked up again much later, by
  host name, DNS name and first label, in a tailnet that has changed.

Correctness, by component: no echo, order and no repetition of pushes, settings
that take hold, bounded memory, paths that name files (daemon); no file lost or
mixed, whole copies (folder); no change lost, no end of watching (watcher);
settings that were answered for hold and survive (configuration); the lock is
always given back (handlers); one arrival at most, in order, at the right
machine, and no success told without one, no machine waiting for another
(transport); what is drawn as chosen is what is used, and what was chosen is
what is reached (CLI, webapp, tailnet).

## 2. Modules

| Module | Models | Used by |
|---|---|---|
| `ClipFeed` | what any watcher promises the daemon: the abstract specification | `Daemon` (composition), `Watcher` (refinement), `PromiseProofs` |
| `Watcher` | the Linux and macOS watchers at the grain of program runs; implements `ClipFeed` | `MCWatcher`, `WatcherProofs` |
| `Daemon` | one process: watcher (as `ClipFeed`), loop, handlers of pushes and settings; implements `Outbox` | `MCDaemon`, `MCSwallow`, `DaemonProofs`, `OutboxProofs` |
| `Outbox` | what a daemon promises the machines it pushes to | `Daemon` and `Fleet` (refinement), `PromiseProofs` |
| `Fleet` | machines that push to each other: channel and `lastSent` of each, the two ends of a push, the relay; implements `Outbox` per machine, and `Delivery` | `MCFleet`, `FleetProofs` |
| `Delivery` | what a push comes to, whoever asked for it | `Fleet` (refinement), `PromiseProofs` |
| `RecvDir` | the receive folder and docker at the grain of system calls | `MCRecvDir`, `RecvDirProofs` |
| `Control` | `config.json`, the daemon's settings and lock, the CLI, start and stop | `MCControl`, `ControlProofs` |
| `Tailnet` | `Peers` and `Resolve` as operators on the answer of tailscale | `Choosing` |
| `Choosing` | the pickers of the terminal, the chips of the web page, what becomes of a choice | `MCChoosing`, `ChoosingProofs` |

How they hang together: `Watcher` implements `ClipFeed`, and `Daemon` is made of
`ClipFeed`, so that it assumes no more of its watcher than `Watcher` does;
`Daemon` implements `Outbox`. `Fleet` is not made of `Outbox` or of whole
daemons: of each machine it has the channel and `lastSent`, which it fills and
compares as `Daemon` does, and each machine implements `Outbox` for that reason.
That `Daemon` is a machine of `Fleet` is an abstraction made by reading both (a
look emits something that the current copy offers, or has become; an item may
be dropped), not a refinement that is checked. All of `Fleet` implements
`Delivery`. `RecvDir`, `Control` and `Choosing` take parts of a machine
that `Daemon` treats as one step and look at them from nearer.

`MC...` modules give the constants of the instances, the symmetry, and the
claims of documents and comments that TLC refutes. Operators marked "Mutated"
are plausible bugs: each property of a passing run fails when one of them takes
the place of the definition that follows it.

### How state and steps correspond to the code

**ClipFeed / Daemon.** `board` is the system clipboard (the set of the
kinds on offer, with a content each: `Offers` are the sets that a copy can make),
`lastHash` and `held` are the emitter's digest and
the item blocked in `out <- item`, `out` is the channel made in `Run`. `cfg`,
`seen` and `lastSent` are the fields guarded by `mu`. `UserCopy` is a new copy of
one or several kinds; `EditFile` changes the bytes of a copied file, which
`current` reads anew at every look, so that one copy can be emitted and pushed
several times; `WatchRead` takes any kind on offer, and a richer one missed (its
program failed, or the clipboard changed in between) counts against `MaxMisses`.
`pc[t]` says where each
goroutine is: `stat`, `write`, `mark`, `set` are the four steps that a handler
(for what it received) and the loop (for a copied image) share: `dedupePath`,
`os.WriteFile`, the critical section of `copyPathToClipboard`, and `clip.Set`;
`route` and `wait` are the loop between its snapshot of the settings and the
push, and in the push. A step is the code between two points where another
goroutine can get in. `LocalIgnoreEmpty`, `LocalSwallow`, `LocalDedupe` and
`LocalAccept` are the four ways through the first half of `onLocalChange`;
`LocalSkip`, `LocalSend`, `Acked` and `Unacked` the ways through the second.
Requests that change nothing (an unknown kind, a body over the limit) are not
steps. Contents are model values; a digest is a tag with its content, so that
SHA-256 has no collisions. Copies of the user are numbered and what the daemon
writes has number 0, which is what `NoEcho` and the claims look at: the code
cannot see it.

`Outbox` says that a later push is of the same copy or of a newer one, and of
another content than the one acknowledged last. It sees of `Daemon` `copies`, `log`, the push under way (`Trying`) and the
number of the run. One variable of it, the copy tried last, has no counterpart
in the code: `Daemon` keeps it as the history variable `tried`, which no guard
reads. So are `log`, `stale` (pushes begun under old settings since a change) and
`owed` (per content, texts received less items swallowed).

**Fleet / Delivery.** A call is one `Client.Send`: `ask` says who asked for it
and what it carries, `client` what it has returned, `server` where its request
is (`way`: not yet read by `handleClip`; `handle`: in `Receive`; `path`: the file
is saved, its path not yet on the clipboard; `yes`, `no`: answered). `got[m]`
are the calls that have changed the clipboard or folder of machine `m`.
`Copied` says of each copy what looks at it can read, which is more than one
content when it offers several kinds or its file is edited. `Emits` puts one of
them into `out[m]`, as often as there is room: what the emitter of the watcher
suppresses, and when a fallback makes it repeat itself, is in `Daemon` and
`Watcher`. `LoopDrops` is every way of `onLocalChange` to leave an item alone.
`LoopSends` takes the head of the channel and sends it unless `Repeated`, the
comparison with `lastSent[m]`, or the limit forbids; it knows nothing of the copy's
number. `RelaySends` is `handleSend` with `Relay`, `TellsPhone` its answer. `TimesOut` and
`LosesPhone` leave the handler where it is, since `Receive` takes no context and
`Relay` makes its own; `Restart` ends what the machine has asked for and what it
was handling. `Lost` is a request that was cut short: `handleClip` checks size and
digest, and refuses it. `Unlocked` is where a handler or `Relay` takes
`Daemon.mu`. It is an input: read off the code, where nobody keeps that lock over
a push (`daemon.go:95` and `270-272`), and its mutant shows the cycle of waiting
machines that would follow otherwise.

**Tailnet / Choosing.** `net` maps the machines in tailscale's answer to host
name, DNS name and first IPv4 address. Where Go ranges over a map, `Lists` and
`Resolutions` are sets of outcomes. Names are model values with functions for
their lower case, first label and place in the order. An entry is a name with
the machine it was shown for; the code has the name only, the machine is there
for `PickedIsReached`. `stage` is how far an interactive command is, `list` and
`cursor` are the fields of the picker's model; `loads` are answers of `/v1/peers`
on their way, `chips`, `lit` and `selected` the page's elements, their class and
`selectedTarget`. Ticks of the clock and drawing are not steps.

**RecvDir.** `dir[p]` is a file as a few blocks, each marked with the job that
wrote it, so that empty, short and mixed files differ from whole ones. `Pick`
and `TryNext` are one `os.Stat` each; `Open`, `Fill` and `SaveFails` are
`os.WriteFile`; `DockerRead` and `DockerCopy` are `copyIntoDocker`. `Cand` gives
the series of names that `dedupePath` tries, which overlap for names like
`a.txt` and `a (1).txt`.

**Watcher.** `lines` is the output of `wl-paste --watch`, `changes` the channel
with one place, `offered` the types that `current` has still to try. A look is
`ListTypes`, then reads from the richest type down, each against the clipboard
as it is by then. On macOS (`darwin`) there are no types to list: `TryAll` starts a
look that tries each kind, `Gone` goes on to the next one, and `NoTempFile` is
the error that ends it. Failing programs are `ListFails` and `ReadFails`; the death of
wl-paste is `Die`, and `Fallback` starts polling with a new emitter. `Edit` is a
write to the file that the clipboard names: it changes what the next look reads
and is not reported as an event, and `edited` remembers it.

**Control.** `disk` is absent, empty (just truncated), torn or a setting; `at`
is where each CLI invocation and the daemon's start are, `handler` and `mu` the
server's goroutines and `Daemon.mu`. `Load`, `SeedCreate`, `SeedWrite` and
`SeedFails` are `config.Load` in either process; `Set` with `SaveCreate`,
`SaveWrite`, `SaveFails` and `Answer` are `SetTarget`, `SetSync` and
`SetDocker`, which differ in the field only; `Status` holds the lock the same
way. `Stop` is a crash as well as a signal: `serve` does not wait for handlers.
The history variable `cut` says that the last write of the file was cut short.

## 3. Runs

Passing runs (`PROJECT.json` names the properties and a mutant for each):

| Run | Shows | Bounds |
|---|---|---|
| `MCDaemonPush` | no copy pushed after a newer one, no content twice in a row, `lastSent` is right, settings take hold within one push; refinement of `Outbox` | 2 copies, of a file or of a file with a picture of it, of 2 contents, the empty one and one over the limit, 1 edit of a copied file, 1 missed kind, 1 change of settings, channel of 1, 1 restart |
| `MCDaemonEcho` | no echo: nothing the daemon wrote is pushed or saved again; a received text swallows one item at most; `recentlySeen` bounded, paths name files; the daemon comes to rest | 2 handlers, 2 requests, 1 copy, of a file or of an image with its text, 1 missed kind, `recentlySeen` of 1 |
| `MCRecvDir` | the first free name is taken, and there is one; files and copies stay whole; every save ends | 2 threads, 2 files of up to 2 blocks and an old one, 2 overlapping names, 1 change of container, 1 restart |
| `MCWatcher` | no change lost; refinement of `ClipFeed`; the watcher catches up | Linux and macOS, 5 changes of the clipboard or of the file it names, 2 failures, 2 contents of 3 kinds |
| `MCControl` | answered settings hold; the file is whole unless a write was cut short; the lock is held by who is between lock and unlock, and given back | 2 commands, 2 starts, 1 failing save, 1 change of Tailscale, with and without a file |
| `MCFleet` | arrivals in order, a content pushed again only when an answer was missing or another one came between; refinement of `Outbox` by each machine and of `Delivery` by all; calls end without timeouts | 2 machines that push to each other and one of them to itself, 3 calls, 1 of them relayed, 1 copied file that is read with either of 2 contents at any look, one upload over the limit, channel of 1, 1 restart |
| `MCChoosing` | the page sends to what it shows; what was picked is reached; the cursor stays on the list | 2 machines, of which one loses its host name or its address or takes the other's name in other capitals; 2 lists of containers, 2 lists of machines on their way, 1 upload |

The bounds let each case happen that the properties are about: an emptied
`recentlySeen` needs one more mark than it holds; a wrong order needs two items
on their way (one in the channel, one with the loop or the watcher); the same copy
pushed twice needs an edit or a missed kind; a stale push needs a change of settings
behind a snapshot; a lost notification needs a change within each step of a
look and one after; a lost setting needs a second command after a start from
the file; a content repeated needs another one between two readings of it; a late arrival needs a call that was given up and one after it, and
machines that wait for each other need a relay and a push back; lists in the
wrong order need two on their way, and a name that changes its meaning needs
two machines. In `Choosing` the terminal is used while the page is closed
(`PageClosed`): the two share nothing but the tailnet and the daemon's target. Symmetry (of handlers and contents) is used in
runs without liveness only. In
`MCFleet` there is one copy, whose contents alternate: that the numbers of copies do
not fall is exercised by `MCDaemonPush`, and proved for `Fleet`. The other bounds
(`MaxCopies`, `MaxEdits`, `MaxMisses`, `MaxRequests`,
`MaxChanges`, `MaxRestarts`, `MaxJobs`, `MaxStarts`, `MaxFailures`, `MaxFlips`,
`Blocks`, `MaxTry`, `MaxCalls`, `MaxUploads`, `MaxLoads`) are guards on the
environment. Deadlock is checked for `MCChoosing` only: elsewhere the system
rightly stops when nobody copies or asks any more.

Runs that find a claim of the repository violated, each a finding in
`PROJECT.json` with the line it contradicts: `DaemonSwallow` (a mark that a
received text left over in `recentlySeen` swallows a file with the same bytes, copied
after the receipt had ended, with sync on and a target set), `RecvDirOverwritten` (two threads, one
name), `RecvDirNeverReturns` (a name that cannot be examined keeps `dedupePath`
searching), `ControlTorn` (a stop in the middle of a save leaves a file that
the next start refuses) and `ControlAddresses` (Tailscale comes up or goes
down after the daemon's start, and the CLI looks for the daemon elsewhere).

Other disagreements between documents and code that the models show, without a
run of their own: content that the old target got last is not pushed to a new
one (`daemon.go:90`, against FR-002, lines 77-78); a list without the chosen
machine makes the page choose the first one silently (`index.html:354-355`,
against US-5); the page names the machine that is chosen when the answer comes,
not the one it sent to (`index.html:379`); the text box is emptied after a failed
upload too (`index.html:394-397`); a copy made while sync is off is pushed if sync is on by the
time the loop reaches it (US-4); a target that does not answer holds up the
loop and then the watcher (the assumption on unreachable targets); after a
restart the unchanged clipboard is pushed again (FR-005); when polling, a copied
file that is edited, or a copy whose richer kind is read at one look and missed at
the next, is pushed again although the user has copied nothing (FR-005); in event mode a look
that fails is not repeated (`clipboard.go:37`); two processes that both find no
`config.json` can overwrite a saved setting with defaults (FR-011); texts copied
on a machine are never pushed (`daemon.go:112-117`, against FR-001 and SC-001);
a received image becomes a file whose path is put on the clipboard
(`daemon.go:155-177`, against FR-007).

### Fairness

Weak fairness of each goroutine, no more: the Go scheduler runs every runnable
goroutine, and `sync.Mutex` does not starve a waiter. It is also assumed that
programs which the code runs without a timeout (docker, xclip, tailscale)
return; pushes end after 30 s at the latest, so that their step may be taken.
In `Fleet` each call has weak fairness on its way (`Proceeds`): a request arrives
or its loss is noticed, the handler runs, the answer is passed on. `TimesOut` is
not fair, so that `CallsEnd` says that no call needs its timeout to end.
Looks at the clipboard (`WatchRead`) have no fairness in `Daemon`: in event mode a look
that failed is not repeated. `Settles` therefore says that the daemon rests
whatever looks happen, and `CatchesUp` of `Watcher` what is seen in the end: what the
clipboard holds if every look that an event caused has succeeded, and always by
polling. Nothing else in the environment is fair: users, peers, Tailscale, failures, the
death of wl-paste and restarts may or may not happen.

## 4. Proofs

Assumptions are those named in the modules: distinctness of the special values,
types of the bounds, and for `Watcher` at most one item of each kind on the
clipboard.

* `DaemonProofs`. `Typed`, with a few facts about locals added (a thread that
  saves has a path). `FedAlways`: between restarts the process does with
  clipboard and channel what `ClipFeed` allows, which is what joins `Watcher` to
  `Daemon`. `SeenStaysBounded` rests on what `Remember` does to the
  cardinality. `SettingsTakeHold`: the count of stale pushes can rise only
  between a snapshot older than the last change and the end of its
  `onLocalChange`, and it is zero before. `NothingEchoed`: what the daemon
  writes are texts, in the clipboard, the channel and the loop, and a text is
  neither saved nor let through the gates (`EchoInv`); so echo freedom does not
  depend on `recentlySeen` at all. `SwallowsArePaid`: an entry of `recentlySeen`
  for a text stands for a receipt not yet answered by a swallow (`OwedInv`); the
  entries for paths are no texts, and emptying the map only forgives.
  `PathsNameFiles`: from the write on, the path of a thread names a file.
  `LastSentIsAcked` and `NeverRepeats` share an invariant: `lastSent` is the
  digest of the last entry of the log, and an accepted item has another one.
* `RecvDirProofs`. `NamesAreFound` counts: the names taken, with those that the
  saves under way will take, are never more than the old files and the saves
  begun (`CountInv`), which are fewer than the names of a series; the names
  already looked at stay taken (`GapInv`), so that the pigeonhole principle
  (`FS_Injection`) leaves a free one ahead. It assumes what the code assumes, that
  every name can be examined and that a series does not repeat
  (`EnoughNames`); the finding `RecvDirNeverReturns` is the case where not.
  `SavedFilesStay` needs that a path being opened or filled by a thread outside
  a race is in nobody else's hands and is not the path of a saved file;
  `CopiesAreWhole` follows from it.
* `WatcherProofs`. `NothingLost` is not inductive: the strengthening `Abreast`
  says what a look in progress must have listed when nothing is on its way.
  `Implements` maps every step to a step of `ClipFeed` or to a stutter.
* `OutboxProofs`. `CopiesStayInOrder` relates the numbers of the items in
  clipboard, channel, loop and log: whatever is nearer to the target is not
  newer, and nothing on its way is older than what was tried (`OrderInv`). The
  order is `<=`: the same copy can be on its way several times, after a fallback,
  a missed kind or an edit of its file. `KeepsThePromise` maps every step of
  `Daemon` to a step of `Outbox` or a stutter; that the content is another one
  than that acknowledged last comes from `lastSent` alone (`ItemIsNew`).
* `FleetProofs`. All its results rest on `CallInv`: calls not yet made are
  untouched, a machine's loop waits for at most one call of its own, older ones
  were answered or given up (`OneByOne`), and a caller told of success has its
  answer (`OkIsAnswer`). `ArrivalsInOrder` adds that what is at a machine was meant
  for it and its handler is past `Receive`'s change, and that an answer of success
  is about something that is there (`GotInv`), from which `SuccessIsNeverWrong`
  follows. `RepeatsOnlyUnanswered` adds that the log has every acknowledged push
  of the present run (`LogInv`) and that `lastSent` is the content of the last of
  them (`SentInv`): a content that is pushed again differs from `lastSent`, so
  that, if it was acknowledged, something else was after it.
  `MachinesKeepThePromise` needs that too, for the contents, and for the order
  that the channel is a queue of numbers that do not fall, behind those tried
  (`QueueInv`). `KeepsDelivery` is the other refinement, step by step.
  `CallsRunOut` is a variant function: `Left` counts the steps a call can still
  take, at most five, each step of the code for the call lowers it and no other
  step raises it.
* `PromiseProofs`. What the three abstract specifications say on their own:
  `OutboxOrders`, `DeliveryIsSound`, `DeliveryIsFinal`, `FeedIsBounded`. With the
  refinements above these hold of the modules that implement them; they show
  that implementing them means something.
* `ChoosingProofs`. `ShownIsFound` is the lemma that matters: `Peers` and
  `Resolve` share no code, and yet what one shows the other finds, for any
  names. `PageShowsItsTarget` and `ChoosingTyped` need that a running command has
  a list, and `PicksAreReached` that an upload carries the name of its chip.
* `ControlProofs`. `LockComesBack` needs, besides the types, that a client whose
  request was taken has not been told anything (`Requested`). `FileStaysWhole`
  needs that at most one process or handler is in the middle of a write while
  one process seeds (`OneWriter`), because a handler writes under the lock and a
  seeding daemon serves nobody yet; whoever is about to fill the file then finds
  it as it was truncated (`FilledFresh`). `AnswersHold` rests on the lock's protocol,
  on what is known while there is no file yet, and on what a process that seeds
  alone excludes; `SavedKept` extends the property back to the end of the save
  and to a daemon that has loaded and does not serve yet. `AnswersSurvive` puts
  the two together, as SC-005 with the condition under which it is true: no
  write cut short, and one process that seeds.

Model-checked only: liveness (`Settles`, `SavesEnd`, `CatchesUp`, `HandlersEnd`,
`CallsEnd`), which is out of the prover's reach, as is what `ENABLED` occurs in.
What they rest on besides fairness is proved where it is a matter of safety:
for `CallsEnd` that calls run out (`CallsRunOut`),
for `SavesEnd` that there is a name to find (`NamesAreFound`), for `HandlersEnd`
that the lock is held only by who will give it back (`LockComesBack`), for
`Settles` that the daemon's own writes make it write nothing (`NothingEchoed`).
The five runs that find a claim violated are counterexamples and need no proof.

## 5. Not modelled

* Drawing and printing; `clippy peers`, which prints a list; the text box, drop
  zone and status line of the page, which decide when `doSend` is called and
  what is read afterwards, and which no other part sees.
* MIME types and file extensions, multipart parsing, headers: what a refused
  request is, but not what an accepted one does. Refused requests change
  nothing.
* The choice of the clipboard backend at start, the texts of the scripts for
  osascript, `Read`, which nothing calls.
* Whether a machine is online: it is shown, and nothing depends on it.
* `serve` with the port taken, and the parsing of arguments.
* Data races on words in memory (`c.b` when `Watch` switches to xclip), and
  programs that never return: hazards without a property.

What could come next: machines of `Fleet` with the whole `Daemon` instead of its
channel and `lastSent`, to check the abstraction between the two and to see what a
push of one does to the clipboard, and so to the watcher, of the other (`NoEcho` and `Settles` show it for one machine and any requests); the
liveness of a target that is switched back and forth while pushes time out.
