# A verification project for the nulnet agent

nulnet is a host agent: one Tokio process that probes the machine it runs on,
keeps the snapshots it takes as files, serves them to authenticated clients
over a Unix socket, streams live readings, and replaces its own binary when a
client asks for an update. This directory holds TLA+ specifications of the
agent, TLC models of them, and theorems about them that TLAPS checks.

Paths are relative to the repository (`src/transport.rs` is the Rust file).
`PROJECT.json` maps every definition to the lines it stands for, lists the runs
with what each one checks, and the hazards the properties are aimed at.

## 1. The system

| Component | Code | State | Operations |
| --- | --- | --- | --- |
| Socket server | `transport.rs` | accept loop, semaphore of 32 permits; per connection: `authenticated`, `pending_nonce`, `current_pubkey`, the running read | accept or reject, read a line with a timeout, authenticate, route, write |
| Snapshot store | `storage.rs` | a directory of `<timestamp>.json` files | `save`, `rotate`, `get_latest`, `get_range`, `get_bounds` |
| Self-update | `update.rs` | `/tmp/nulnet`, `/opt/nulnet/bin/nulnet`, what a task has fetched | version check, download, checksum, chmod, mkdir, mv, detached restart |
| Live channel | `live.rs` | a broadcast ring of 64 messages | `publish`, `subscribe` |
| Agent tasks | `main.rs` | `events`, `last_details`, the ticker | telemetry loop, rotation loop, shutdown |
| Pacer | `pacer.rs` | moving averages, six conditions with streaks, `last_persist` | `observe` |
| Collector | `telemetry.rs` | last counters, samples of the window, cached TCP and GPU readings | `probe`, `collect` |
| Configuration | `config.rs`, `release.rs` | none after start-up | load, defaults, URLs |
| Installer, service | `scripts/install.sh`, `systemd/` | files and users of the host | phases of an installation; `Restart=on-failure` |

How they interact:

- `main` spawns the telemetry loop and the rotation loop and serves the socket
  until a signal comes. The loops and the connection handlers share the data
  directory and nothing else; there is no lock, so the file system is their
  only synchronisation and every `await` lets the others in.
- The telemetry loop publishes to the live channel; a handler whose client has
  subscribed owns a receiver and leaves its request loop for good.
- `agent.update` spawns a task that the handler listens to. If the client
  leaves, the handler ends and the task goes on. Nothing keeps a second client
  from starting a second task; both use the same two paths.
- systemd restarts the process after a crash and when the detached shell of an
  update asks for it; everything in memory, and every child process, is lost.

What makes it hard: handlers that end in any of three loops and must give
their permit back; a challenge that may be replaced, expire or be answered
while other connections do the same; queries that walk a directory others
change; files torn by a crash; updates that share a temporary file; a ring
that overwrites what a slow subscriber has not read; a failed write as the
only sign that a client is gone; averages that decide about events and are frozen
by them; readings that are cached, fail, or have nothing to be compared with.

### What correctness means, per component

- **Server.** Permits are conserved on every path. Nothing privileged happens
  in a session that has not answered one of its own challenges, in time, with
  a configured key. A challenge opens at most one session. Clients that hang
  up or fall silent do not keep their permit.
- **Store.** A query leaves out nothing that was there all along and returns
  nothing unreadable or out of range; `limit` keeps the latest. Only expired
  files are pruned, all of them in the end. Crashes lose at most the snapshot
  being written.
- **Update.** What is put in place after a successful verification is one
  whole build, newer than the one running; the service can always be started;
  an update ends, and one that announced a restart takes effect.
- **Live channel.** A subscriber misses nothing from its subscription on unless it is
  lapped, and then no more than the ring has overwritten; changes of the host
  are announced once, and reach those who listen.
- **Pacer.** A jump that lasts is reported, by its second reading at the latest; a
  single reading, or one that stands for a failed one, starts nothing. An attack
  stays reported for as long as it lasts, a steady load does not, and on a calm host
  every event ends, whatever other events froze meanwhile.
- **Telemetry loop and collector.** Windows are as long as configured, however
  late a tick was. A reading is in one snapshot at most, with the events that came
  with it, and does not stay behind. No snapshot takes the place of another. A
  GPU that can be read is in the readings in the end.
- **Configuration.** Whatever the file says, the loop gets a tick that is at least a
  second and no longer than its interval (`Telemetry!TypeOK`).

## 2. The modules

| Module | Models | Extended by |
| --- | --- | --- |
| `Transport` | the socket server | `MCTransport`, `TransportProofs` |
| `Gate` | what authentication promises, with no sockets | instantiated by `Transport` |
| `TransportProofs`, `StoreProofs`, `UpdateProofs`, `LiveProofs`, `PacerProofs`, `TelemetryProofs` | theorems about the module they are named after | |
| `Store` | the snapshot store and its three users | `MCStore`, `StoreProofs` |
| `SnapshotLog` | what the store promises, with no files | instantiated by `Store` |
| `Update` | the self-update, the release server, systemd | `MCUpdate`, `UpdateProofs` |
| `Live` | the telemetry loop's publishing, the channel, its subscribers | `MCLive`, `LiveProofs` |
| `Pacer` | averages, conditions and events; rates of first and failed readings | `MCPacer`, `PacerProofs` |
| `Telemetry` | the windows of the telemetry loop: configuration, probe, collect, save | `MCTelemetry`, `TelemetryProofs` |

`MC*` modules only hold the values that TLC needs; the `.cfg` files name an
instance each. Definitions introduced by a comment "Mutant of" are plausible
errors in the definition they name; they are not used by any action, and serve
to see that a property notices the error when they take its place.

### Transport

A connection is a slot of `Conn` that can be used again and again. `pc` is the loop
its handler is in (`reading`, `following` the live stream, `updating`), or
`backlog` before it is accepted; `writing` is the line the handler is in the middle
of writing, since a write can block. `unread` and `outbox` are the two
directions of the socket. What a request says is chosen when it is read, so a
client can send any command at any time. `Close` is every `break` and `return
false`: both halves of the stream and the permit are dropped together.
Durations are counters that stop one past the value they are compared with. A
challenge is a nonce that has never been drawn before; a signature is the pair of the key
that made it and the nonce it signs, and `verify_strict` accepts exactly the
pair it expects. `challenges`, `grant` and `tried` (the nonces an answer has been held
against, right or wrong) are history variables that no action reads.

`Publish` stands for the telemetry loop: all this module needs to know of it is
that it makes followers write, and so notice that their client is gone. In the
same way an update is only a number of lines to relay.

`Gate` is the abstract specification of authentication: a session begins shut and
without a challenge, is asked a challenge, is opened by spending it, is served while
open, and ends with nothing left of it, for it to begin again shut. `Transport` refines
it with `begun` the connections that have a handler, `open` those whose
`authenticated` is set, `challenge` the pending nonces and `served` the
connections in a streaming loop or in the middle of a privileged answer. A handler that
ended without dropping its state would be no `End`, and one that started with
some of it no `Begin`.

### Store

A file is `absent`, `torn` or `whole`; `save` is two steps, since `fs::write`
truncates before it writes. A directory scan is opened, returns entries in any order
and ends; entries created or removed meanwhile may be seen or not. `rotate`
and the three queries are such scans, each one record of what it knows. `AskBulk` is
`get_bulk`: a `get_range` whose window ends now and is a number of hours long.
`Word` is the size of the unsigned type in which the retention and those hours are
multiplied.

`SnapshotLog` is the abstract log: snapshots are taken one at a time, recorded or
dropped, replaced by another of the same second, and removed when expired.
`Store` refines it with `kept` the files that are whole and `fresh` the
snapshot being saved.

### Update

Paths name inodes, because the interesting cases need it: `curl` goes on
writing the file it has opened after another task has renamed it, and truncates
whatever the path names when it starts. An inode's content is the set of builds
whose bytes are in it and whether its last opener has finished. A task's `step` is
the `await` it is at: the version (`checking`), the binary (`fetching` until curl is
started, then `downloading`) and the checksum (`summing`) come by requests of their
own, and the server may change between them. Builds can be `Damaged` on the way (`Damages`). The
release server replaces some of its three files at a time (`Batches`), by those of an
older release too if `Rollbacks` says so. `Restart` and `Crash` kill all tasks
and their children, as the unit's control group does. `mv` is `Rename`, or
`CopyBegins` and `CopyEnds` if `/tmp` is another file system.

### Live

A message is its position among all that were published. A receiver is a
cursor; `Lag` moves it to the oldest message left, as the broadcast channel
does. `acked`, `received` and `lapped` are history.

### Pacer

One step is one probe and the `observe` that follows it. `Hosts` are kinds of host, each
a set of what its signals may be at; the step chooses one of them, and `Probed` turns it
into a reading: no rates without an earlier probe, no connections if
`/proc/net/snmp` cannot be read, all since the boot when it can be again. A
condition is a record `[active, streak]`; the average of a signal is a whole number
that moves `1/Window` of the way, rounded up, so that, as a float
does, it comes to rest at a steady reading and never overshoots it. `jumped` and `since`
are history: which signals have just jumped to twice what an event takes, and the
readings each event began with, as long as none has fallen below them.

### Telemetry

One probe after another: `Wake` (the tick, and whether cached readings are
refreshed), `Probe` or `LastProbe` (whether the window is over), `TakeSamples` (after
the GPU was read, `telemetry.rs:320`), `TakeEvents` (after docker was asked,
`main.rs:91`), `Save` or `SaveFails`. Time passes in half seconds between them. `due` and the two ages
`sincePersist` and `sinceSlow` stand for instants; where a duration equals the one it is
compared with, `Reaches` leaves the answer open, since timers fire a little
late. `Pace` is what the loop makes of the two intervals in `config.toml`. The
properties follow one reading, and one event, through `Places`: its `window`, the
snapshot it is `taken` into, and whether that is `kept`, `dropped` or `overwritten`.

## 3. The runs

Runs that pass:

| Run | Shows | Bounds |
| --- | --- | --- |
| `transport_sessions` | `TypeOK`, `PermitsConserved`, `UnlockedOnlyByProof`, `ChallengesAnsweredOnce`, `ImplementsGate` | two connections served at once, two nonces, four kinds of key string |
| `transport_ends` | `HangupIsNoticed`, `SilentReaderCloses` | two clients, one permit, two lines in the socket, an idle limit of two, updates of up to two lines |
| `update_one` | `TypeOK`, `VerifiedBinary`, `UpdateTakesEffect` | one task, three versions published file by file in any order, renaming `mv`, two crashes |
| `update_two` | `InstallsOnlyNewer`, `EveryUpdateEnds` | two tasks, three versions, each published at once and after the older ones, copying `mv`, no damage on the way |
| `store_queries` | `TypeOK`, `RangeComplete`, `LatestNotStale`, `BoundsCover` | three seconds, one reader, saves and rotations |
| `store_log` | `ImplementsLog`, `ExpiredArePruned` | four seconds, a crash, directory errors |
| `live_stream` | `TypeOK`, `NothingSkippedUnlapped`, `LagKeepsTheBuffer`, `DetailsOnlyOnChange`, `DetailsArrive` | two subscribers, a ring of two, three ticks, a change |
| `pacer` | `TypeOK`, `AttackStaysReported`, `JumpIsReported`, `GlitchStartsNothing`, `SpikeEnds`, `CalmEndsEvents` | averages over 16 ticks, five kinds of host of up to three signals that move |
| `telemetry` | `TypeOK`, `WindowEndsInTime`, `NoSnapshotOverwritten`, `EventsWithReadings`, `ReadingsAreSaved`, `GpuComesBack` | windows of one to four seconds, steps of up to a second, refreshes every two seconds, one restart |

Runs in which the code differs from what its documentation or comments say:

| Run | Statement | What happens |
| --- | --- | --- |
| `transport_blocked` | `transport.rs:18` "Close connections that send nothing for this long." | a client that neither sends nor reads: the handler stays in a write, which has no timeout |
| `update_concurrent` | `update.rs:174` "Verify SHA-256 checksum before touching the filesystem." | two updates: the verified file is truncated by the second download, then moved into place by the first |
| `pacer_steady` | `README.md:121` "Sudden jumps [...] (not a steady high level)" | the first probe reads no rates, so that traffic which was there before the agent looks like a jump; the `net_spike` freezes its average near zero and does not end |

Limits the passing runs make visible in their bounds: `VerifiedBinary` is checked for a
renaming `mv` and one task at a time (with `/tmp` on another file system a
crash during the copy leaves nothing to start); `InstallsOnlyNewer` for a server that
never goes back to an older release (the version is compared once, before the
binary is fetched: if the server is rolled back between the two requests, the older binary
is installed, and with `Rollbacks` set TLC finds that in ten steps);
`UpdateTakesEffect` says that the service is what the installed file gives, which is
nothing if an unverified file cannot be started; `ImplementsLog` for a retention whose
seconds fit the word (`retention_days` is multiplied unchecked);
`DetailsArrive` excludes subscribers that were lapped (details are not sent again
until the host changes); `LatestNotStale` allows that `get_latest` gives up on a
file being written, which it does, although older snapshots are readable;
`JumpIsReported` needs averages that are slow against the tick (with a sample interval
of some 15 s one reading of a jump lifts the average too far for the second one to
count); `GpuComesBack` needs windows longer than `SLOW_PROBE` and two ticks
(in shorter ones `has_gpu` may alternate for ever); `NoSnapshotOverwritten`
excludes intervals of one second and the snapshots after a restart;
`SpikeEnds` a GPU that stays unreadable, whose event has no end;
`GlitchStartsNothing` is about the reading that completes an event: the one before
it, which also counts, may be a glitch.

Why the bounds are enough:

- *Connections.* The code never looks at two sessions together; they meet in
  the semaphore, the nonces and the channel. Two served connections let one be in
  any state while the other acts; two clients for one permit let one be turned away.
- *Nonces.* Two are needed for a session to replace its challenge, or for two
  sessions to hold one each.
- *Time-outs.* A counter with limit 1 has all three cases the code distinguishes:
  before, exactly at and past the limit.
- *Sockets.* One unread line and one response suffice to block either side; a
  larger capacity only delays it.
- *Inodes.* The two paths and, for each other task, the two files its children have
  open: `UpdateAssumption` asks for one more than that, so that `Fresh` has one to choose.
- *Time of the store.* With a retention of one second, three seconds make one snapshot
  expired, one at the cutoff and one fresh.
- *Versions.* With three, a task can find the second newer than the first and have the
  third published before its binary, or before its checksum, is fetched.
- *`Damages`.* `update_two` leaves out downloads that are damaged by the network: they never start,
  and one task still spoils the file of another by truncating it. `update_one` has them.
- *`MaxCrashes`, `MaxProbes`, `MaxChanges`, `MaxTime`, `UpdateLines`* bound
  counters that never decide what an action does, except that nothing happens
  beyond them. A ring of two is lapped by three messages.
- *Hosts of the pacer.* The conditions of CPU, memory and GPU never look at another
  signal; traffic, connections and packets meet in the flood. Each of the five kinds
  of host lets signals that meet move over levels below, between and above
  the limits they are compared with, and leaves the others still.
- *The pacer's window.* With 16 ticks one reading of the least spike raises an average
  of nothing by at most a quarter of itself, as with the default 50.
- *Time of the telemetry loop.* Half a second is the finest duration the code
  computes (half a tick of one second). The configurations are an interval
  of one tick, of several, of no whole number of ticks, shorter than the sample
  interval, and 0; a step may await a whole tick and so be late for the next.

`CHECK_DEADLOCK FALSE` is set where a run really comes to rest: the
service cannot start an unverified, damaged binary (`Update`); the ticks and
changes of the bounded instance are used up (`Live`).

## 4. Fairness

- `Transport!FairSpec`: weak fairness of each connection's handler and of its
  accept, as Tokio polls every ready task; of the clock; and of `Publish`,
  because the telemetry loop publishes a reading every tick for as long as the
  process runs. A handler blocked in a write is not ready, so this does not
  assume it away. Nothing is assumed of clients; `SilentReaderCloses` states for itself, of one
  client, that it reads.
- `Update!FairSpec`: weak fairness of each task's next step: every child it waits
  for ends (`curl` has `--max-time`). `CannotRun` is left out, since no
  task can count on a failure; so is the client's `Start`.
- `Store!FairSpec`: the clock and the rotation loop go on; strong fairness of
  each file's removal: it may fail any number of times, but not for ever.
- `Live!FairSpec`: weak fairness of each subscriber's handler, for clients that read.
- `Pacer!FairSpec`: weak fairness of `Observe`: the loop probes every tick. What the
  host does is free; `SpikeEnds` and `CalmEndsEvents` name the hosts they are about.
- `Telemetry!FairSpec`: weak fairness of the clock and of the loop, whose awaits all
  end (files, and child processes that exit). Nothing is assumed of which save
  succeeds, nor of the GPU.

## 5. What is proved

Each component has its theorems in a module of its own. They are about the modules
as they are checked: no run replaces a definition, and TLC evaluates the named
assumption on the constants of a module in each of its runs. Nothing bounds the
constants beyond that assumption: the numbers of clients, readers, tasks and restarts, the
capacities and the lengths of time are any.

Every invariant and every action property that a passing run checks is the
subject of a theorem.

| Theorem | Statement | Hypothesis |
| --- | --- | --- |
| `TransportProofs!TypeCorrect` | `[]TypeOK` | |
| `PermitsAreConserved` | `[]PermitsConserved` | |
| `OnlyProofUnlocks` | `[]UnlockedOnlyByProof` | |
| `ChallengesOpenOneSession` | `[]ChallengesAnsweredOnce` | |
| `SessionsAreGates` | `ImplementsGate`: `Transport` implements `Gate` | |
| `StoreProofs!TypeCorrect` | `[]TypeOK` | |
| `StoreImplementsLog` | `ImplementsLog`: `Store` implements `SnapshotLog` | `RetentionFits` |
| `RangesAreComplete` | `[]RangeComplete` | `NoIoErrors` |
| `LatestIsNotStale` | `[]LatestNotStale` | `NoIoErrors` |
| `BoundsAreCovered` | `[]BoundsCover` | `NoIoErrors` |
| `UpdateProofs!TypeCorrect` | `[]TypeOK` | |
| `VerifiedIsInstalled` | `[]VerifiedBinary` | `OneAtATime` |
| `OnlyNewerIsInstalled` | `InstallsOnlyNewer` | `ReleasedTogether`, `ReleasesRise` |
| `LiveProofs!TypeCorrect` | `[]TypeOK` | |
| `NothingIsSkipped` | `[]NothingSkippedUnlapped` | |
| `LagsKeepTheBuffer` | `[]LagKeepsTheBuffer` | |
| `DetailsAreNews` | `[]DetailsOnlyOnChange` | |
| `PacerProofs!TypeCorrect` | `[]TypeOK` | |
| `AttacksStayReported` | `[]AttackStaysReported` | |
| `GlitchesStartNothing` | `GlitchStartsNothing` | |
| `JumpsAreReported` | `JumpIsReported` | `Confirming` |
| `TelemetryProofs!TypeCorrect` | `[]TypeOK` | |
| `WindowsEndInTime` | `[]WindowEndsInTime` | |
| `NoneIsOverwritten` | `[]NoSnapshotOverwritten` | |
| `EventsStayWithReadings` | `[]EventsWithReadings` | |

### The hypotheses

Each says where the code keeps its promise; beyond it the statement is false.

- `RetentionFits`: `retention_days` in seconds fits into a `u64`. `storage.rs:40` multiplies
  unchecked; the default is 5 days, and it takes some 2 * 10^14 to wrap.
- `NoIoErrors`: the directory can be read to its end. `storage.rs:95` takes a scan
  that breaks off for one that has ended, and answers with what it has met.
- `OneAtATime`: no second update while one runs, and `/tmp` on the file system of
  the install path. Two updates break the property (run `update_concurrent`), and a
  crash during a copying `mv` leaves half a file.
- `ReleasedTogether`: the server replaces version, binary and checksum in one step.
  Otherwise an agent newer than what the server has can be told of a still newer version
  while the server's binary is the old one, and without a checksum to stop it, it
  installs that.
- `ReleasesRise`: the server's releases only go up. A release withdrawn between the fetch
  of its version and that of its binary leaves the older binary to be installed.
- `Confirming`: an event takes two probes, an average has at least 15 ticks, and a reading
  that can start an event is no smaller than its multiple of one unit. `CONFIRM_PROBES` is two;
  with the default tick of a second an average has about 50, with a tick of three
  seconds 17. The multiples are 4 and 5, the minima 20 connections, 20000 packets and
  a megabyte a second: the last condition is about the grid, and that of `MCPacer` is
  as coarse as it may be.

### The arguments

None of the properties is inductive. What each proof adds, and why:

**Transport.** One invariant, `Inv`, in two halves:

- `Capacity`: the types; only a live handler writes (`WritersHandle`), so that a
  failed write gives back a permit that is held; and the permits add up.
- `Sessions`: what is privileged is under way only in an authenticated
  session (`ServedIsUnlocked`), which carries the proof through the streaming
  loops; an authenticated session has its proof (`UnlockedIsProven`); a pending challenge
  was issued in this session, to the current key, which is a configured one
  (`PendingIsIssued`), which is what turns a matching signature into a proof; every
  nonce pending, tried or used has been drawn (`NoncesAreDrawn`), so that the next one
  drawn is pending nowhere and has never been tried; no challenge is pending twice;
  and what has no handler holds nothing (`ShutIsClean`), so that a connection
  accepted in its place begins shut.

`StepCases` first folds the actions of `Next` into those that differ for the
invariant (every way a handler ends is `Ends`, every request answered with one line is
`OneLine`). One lemma per part then shows it preserved, action by action. `GateStep` maps
every step to one of `Gate` or, by `StutterCases`, to none; that what is served
has been opened is `ServedIsUnlocked`, that what begins is shut `ShutIsClean`.

**Store.** For the log: a file that is open is torn and is that of the
snapshot being saved, and the cutoff of a rotation is never later than the clock's, so
that whatever it removes has expired even if the removal takes its time. For the queries: while
a reader scans, everything that has been readable since it began is either still to be met or
in what it has got (`Progress`); what it has met is no more than what has ever been
readable. The limit of a range is counted with the library's facts about finite sets.

**Update.** `FreshIsFree` is the counting lemma: a task whose children have ended
finds an inode nobody uses. `OwnsTheFile` serves `VerifiedIsInstalled`: the
temporary file is not the binary in place, a download is into the temporary file,
and what has been verified is still intact when it is moved. With two tasks it fails at the
first conjunct about `Intact(tmp)`, which is the finding. `OnlyNewerIsInstalled` needs no
such ownership: all files of the server are of one release (`OneRelease`), and while a
task is about to fetch the binary that release is newer than the running process, though it need
not be the one whose version the task has read (`FetchesNewer`); whatever inode a
task reads or writes holds only builds newer than the running process, and so does the
temporary file from the first download of this process on (`HandlesNewBuilds`), since a restart
ends every task; and an inode nobody refers to is empty (`FreeIsEmpty`), so that
the copy begins with nothing. Each step then either leaves what the service would start
(`SameLaunch`) or puts new builds in its place (`NewLaunch`).

**Live.** A receiver does not stand before its subscription and is written the message
it has just moved past (`Positions`); what lies behind it and is still in the ring has been
written (`BufferReached`), which a lag preserves because it moves to the oldest message
left; no details have been published that are newer than `last_details` (`DetailsKnown`).

**Pacer.** `RateOutcome` says what one probe makes of a condition without the cases of
its streak. While the signals of an event have not fallen, the readings it began with still
stand out from averages that stand still (`Lasting`); the flood, the surge and the
traffic event freeze one another's averages, which is why all three are in one
invariant. A reading that is missing leaves no streak (`Broken`). A jump that has
not been confirmed stands out from the average it has itself moved (`Confirmable`, from the
arithmetic of `SpikeSurvives`).

**Telemetry.** The next tick is never due earlier than four steps' time after a period
(`DueInTime`); how long a window has lasted and how long it can still last add up
(`WindowLasts`); two halves of a second bring a new second (`SecondsPass`); and in
its first run the agent keeps no snapshot of the second of the one it is about to save
(`NoneInTheWay`). An event is where its reading is but while docker is asked, when the reading is
already the snapshot's and none is left in the window (`Following`): that this
is so when the events are taken, whatever was restarted or failed before, puts
them back together.

### Only model-checked

- Liveness: `HangupIsNoticed`, `SilentReaderCloses`, `UpdateTakesEffect`,
  `EveryUpdateEnds`, `ExpiredArePruned`, `DetailsArrive`, `SpikeEnds`, `CalmEndsEvents`,
  `ReadingsAreSaved`, `GpuComesBack`. They need fairness and ENABLED, which the prover
  does not handle.
- The three runs that expect a violation, by their nature.

## 6. What is not modelled, and the plan

Left out for good: parsing of `/proc`, `nvidia-smi`, `rocm-smi` and `docker`
output, formatting, logging, URLs and artifact names (data no property tells
apart); `snapshots_disk_bytes` (a sum of sizes, displayed only); the sums over
interfaces that come and go (a model would copy the sum); a socket that cannot be
bound, after which `main` ends with status 0 and is not restarted (one
sequence, nothing to explore); the phases of `install.sh` (a sequential script).

Theorems to come, in this order:

1. `VerifiedBinary` for a copying `mv`, in a form that the code can keep: without a
   crash or a failure during the copy.
2. What is left of `OnlyNewerIsInstalled` if the server replaces its files one by one,
   the binary before the version.
3. The safety parts of the liveness properties: that a task which waits for a file can
   always take a step, and that a handler which is not blocked can.
