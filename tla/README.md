# HybridOS: specifications, model checking and proofs

HybridOS runs an energy storage site. It is a set of services on one or two
controllers that talk over a local message bus (FIMS). This directory holds
TLA+ models of the parts of it that have to stay correct when processes die,
messages are late and several threads touch the same state:

| module | models | checked by | proofs |
|---|---|---|---|
| `CopsFailover` | redundant failover of COPS | `MCCopsFailover` | `CopsFailoverProofs` |
| `CloudSync` | one client of cloud_sync | `MCCloudSync` | `CloudSyncProofs` |
| `StoreForward` | what that client promises (abstract) | as a property of `CloudSync` | `CloudSyncProofs` |
| `SequenceEngine` | the sequence interpreter of site_controller (operators only) | with the next two | `SequenceEngineProofs` |
| `EssActions` | automated maintenance actions of an energy storage asset | `MCEssActions` | `EssActionsProofs` |
| `SiteManager` | the site state machine of site_controller and its persisted commands | `MCSiteManager` | `SiteManagerProofs` |
| `SiteLifecycle` | what that state machine promises (abstract) | as a property of `SiteManager` | `SiteManagerProofs` |

`EssActions` and `SiteManager` extend `SequenceEngine`; `SiteManager` instantiates
`SiteLifecycle`, `CloudSync` instantiates `StoreForward`. Run a check with `tlc -config SiteManager_safety.cfg MCSiteManager`
and a proof with `tlapm SiteManagerProofs.tla`. `PROJECT.json` maps every definition to the
lines it stands for.

## 1. Inventory

### COPS, the process supervisor (`src/cops/src`, Go)

*Failover* (`negotiator.go`, `c2c.go`). Two controllers run COPS. The one with
the lower static IP is the TCP server of a TLS session between them (C2C).
State: `controllerMode` (Primary, Secondary, Update), the `c2c` record
(connected, resolvingConnection, time of the last confirmation),
`firstIteration`; outside the process the primary IP on a dummy network
interface, the PDU outlets, and the document `/dbi/cops/update_mode`.
Operations: connect and reconnect, ask `ModeQuery` once a second while not
Primary, answer with `ModeCommand` and a health score, take over (set the mode,
claim the IP, power-cycle the other controller through the PDU), enter and
leave Update mode. Three threads of one process can take over: the negotiation
goroutine, the C2C reader and the main loop. Hard: nothing locks
`controllerMode`; timeouts race late replies; handlers of connection errors
run late and act on whatever session exists then; both sides may decide at
once; any step of a takeover can fail. Correct when: two Primaries, or two
holders of the primary IP, are only ever a passing state that ends with a
reset; the survivor of a failure takes over; the pair comes to rest on a
healthy controller; the ends of the session agree.

*Supervision* (`watchdog.go`, `heartbeat.go`, `process.go`). For every process:
heartbeat, PID, alive flag, time of the last answer. The main loop sends
heartbeats, handles replies, patrols, kills what hangs, passes the primary flag
on, runs systemd actions. Hard: the loop can be held up by systemd or by C2C,
after which replies and patrols are served in any order; the PID is the one of
the last reply; the primary flag is evaluated before and sent after. Correct
when: a process that answers is not killed, one that hangs is, and every
process ends with the flag that matches the mode.

*FIMS handlers and replication* (`fimsHandler.go`, the rest of `c2c.go`).
Setpoints and documents written on the Primary go to the Secondary over C2C;
on its start a Secondary asks once for all documents. Correct when: a Secondary
that takes over has the documents of the last Primary.

*Doctor and statistician* (`doctor.go`, `statistician.go`): a health score in
floating point from restarts, response times and memory. *Configuration,
syswatch* (`config.go`, `syswatch.go`): read once; publishing only.

### cloud_sync (`src/cloud_sync/src`, Go)

A client watches a directory and sends each new file to all its servers (SCP,
SFTP, S3 or a local directory). State on disk: the source directory, its
`error` directory, a database that records per file the servers that failed.
State in memory: a buffer of new files, one bounded retry queue per server, a
bounded clear queue, and per server a transfer stage with its failure count and
*bad connection mode*. Threads: monitor, send, one retry thread per server,
clear, the goroutine of `sortFailures`, one transfer stage per server; in tar
or untar mode a further worker in front of send. Hard: a retry of a file runs
while send() is still busy with the same file; record, copy and delete are
separate steps that a crash can separate; the database update is a read and a
later write; queues are bounded and two threads push into the queue they
themselves empty; a transfer that reports an error may have arrived. Correct
when: a file is deleted only when it is at every server or kept, with its
record, for a retry; everything is delivered in the end; the program comes to
rest.

### site_controller (`src/site_controller`, C++)

One thread alternates between FIMS messages and, every 10 ms, an iteration:
asset data in, `Site_Manager::process_state`, asset data out
(`fims_data_pump`, main.cpp).

*Sequences* (`Sequence.cpp`, `Path.cpp`, `Step.cpp`). A configured sequence has
paths of steps; a step has entry actions and exit conditions, each condition
perhaps a debounce timer; a path has a timeout. State: step and path index, a
marker that the entry was done, reset and bypass flags, timers. Hard: a
sequence is interrupted anywhere and entered again; one exit timer is shared
by all sequences; a path switch, the completion and the timeout meet in one
call. Correct when: nothing left over from an earlier execution counts, and a
step ends.

*Site state machine* (`Site_Manager.cpp`). State: the site state (Init, Ready,
Startup, two run modes, Standby, Shutdown), the latched faults and a pending
delayed clearing, the operator's start, stop and standby flags, the power
commands. Hard: the order of check, sequence, state function and end of the
iteration decides which command or fault is seen when; a start command lives
for one iteration. Correct when: the site starts only on command, shuts down
on every fault and stop, commands no power while it is off, and follows its
life cycle.

*Persistent settings* (`Data_Endpoint.cpp`). Commands are echoed to DBI and
replayed by detached threads ten seconds after a restart, without a lock. Hard:
what DBI holds at the moment of a crash decides whether the site starts by
itself. Correct when: a site that was shut down stays so.

*Automated actions* (`Action.cpp`, `Asset.cpp`, `Asset_ESS.cpp`). In maintenance
mode an operator starts, stops and clears actions of an asset; an action may
have a shutdown action that runs after it. State: a status per action, the name
of the current one, a pointer to it, maintenance and lockdown mode, faults.
Hard: name and pointer are set in different places; an action ends in five
ways. Correct when: one action runs, the one that is shown; the shutdown action
always runs; every action ends.

*Power features, assets, watchdog*: control laws in floating point, aggregation
of measurements, an alarm.

### Data path and the rest

`ftd` collects FIMS messages into archives, `cloud_sync` moves archives between
machines, `dts` writes them into databases, `archive_cocoon` turns them into
Parquet files. The last three share one shape: watch a directory, work, delete
or set aside. `scheduler` keeps event lists and timers; `fleet_manager`
aggregates sites; `dbi` puts documents into MongoDB; `ess_controller`,
`go_metrics` and `psm` compute in floating point in a sequential loop; `modbus_interface`, `dnp3_interface` and the `gcom_*` services
encode field-bus traffic; `echo`, `washer`, `pluto`, `overwatch`, `events`,
`metrics`, `fims_relay` are small or legacy services; codecs, database clients,
`go_flexgen`, `web_apps` and the packaging directories are libraries, user
interface and tooling. `PROJECT.json` lists each with the reason it is not
modelled.

## 2. CopsFailover

`cops[c]` is the memory of the COPS process of controller `c`, `pc[c][t]` the
program point of each of its three threads that can take over, `up[c]` whether
the process runs. `ip[c]` is the dummy interface (absent, without address,
holding the primary IP), `dbi[c]` the update_mode document, `healthy[c]` whether
the score is not below the threshold. `link` and `chan` are the session and the
messages in it; `orphan[c]` is a reset that was sent by a process that is gone.

Actions and code: `Boot` (main, configureC2C); `Accept`, `Dialed`, `ReadError`,
`handleConnectionError`, `sendC2CMsg` (c2c.go); `WaitConnected`, `WaitDeadline`,
`checkControllerMode`, `replyToModeQueryMsg`, `processModeCommand` with
`RequestDBIUpdate` after its sleep; `getDBIUpdate`; `handleUpdateMode` and
`DbiReply` (the same handler for DBI's answer at start); and takeOverAsPrimary
as `Claim`, `setupPrimaryIP` (the two steps `ipLinkAdd` and `ipAddrAdd`, one per
ip command), `RequestReset`, and the PDU's `ResetOther`, `ResetRefused` or
`ResetUnanswered`. A thread whose test said "take over" is at
`decided`: the test and the assignment are separate steps, as in the code.

Points worth knowing:

- A write to a dead session is swallowed, or (fault `rst`) reports an error; then
  the writing thread itself waits in `connectOverTCP`.
- The client's handleConnectionError does not close the old session; the server
  finds out from silence. Both are `link = "none"` with `connected` still true at
  the server.
- An unanswered SNMP Set returns a nil result whose `Error` is read for the log:
  this panics. `processFIMS` recovers on the main loop, elsewhere COPS ends.
- `ip link add` fails on an interface that is already there, whether or not it has
  the address, and then no address is added. A COPS that dies between the two
  commands leaves the machine `Stranded`: no later takeover on it gets the primary
  IP until it loses power.
- Each C2C write is one TLS record, so that the new reader of each
  `getC2CMessage` loses no message.
- A connection request that waits in the listener's backlog while its client
  dies is dropped here; in the program it is accepted and found dead by the next
  read, which delays the server by one reconnection.

| run | properties | result |
|---|---|---|
| `failover_safety` | `TypeOK`, `SessionAgreement`, `SplitBrainIsTransient` | hold for one process death, refused PDU or ip command or change of health, where any write may report a broken session first, no timing assumption |
| `failover_ip` | `DuplicateIPIsTransient`, `AddressHasRole`, `SessionAgreement`, `SplitBrainIsTransient` | hold for two faults among power loss, broken session, late reply, update_mode, no timing assumption |
| `failover_stable` | `EventuallyStable`, `HealthyControllerLeads` | hold for two faults among crash, power loss, broken session, late reply, change of health |
| `failover_survivor` | `SurvivorTakesOver` | holds for two outages, nobody restarts a machine |
| `failover_blocked` | `SurvivorTakesOver` | **violated** when a write notices the dead session first |

`SessionAgreement` also says that a running process without a session has a
thread in `connectOverTCP`: error handlers that come late, for a session that has
been replaced, never leave an end that neither has nor makes one.
`AddressHasRole` says that the primary IP is never with a Secondary: a takeover
decided before an update_mode SET goes through after it and leaves `Primary`, and
a SET in the middle of a takeover leaves `Update`; only the reset takes role and
address away, both at once.

`EventuallyStable` and `HealthyControllerLeads` say that the Primary holds the
primary IP, unless its machine is `Stranded` (`Leads`). Without this exception TLC
refutes `EventuallyStable` by a process death between the two ip commands: roles
settle, but the Primary never gets the address. The code has no step that would
repair this, so no property demands it.

*Bounds.* Two controllers is the system. `MaxFaults` bounds the faults of one
behaviour; one fault of any kind meets every program point of both processes,
two give a second failure during the recovery from the first. `rst` is not
counted: where it is allowed, any write to a broken session may report it, which
multiplies the states, so `failover_safety` has it with the faults of one process
and `failover_ip` has the faults of power, network and operator without it.
Between them the two runs meet all nine kinds. `MaxRounds = 1`
and `MaxErrs = 1` allow one unanswered query per side and one late error
handler; both sides' messages and handlers still overlap.

*Fairness.* Threads run, timeouts expire, messages in an intact session arrive,
the PDU carries out requests (weak fairness of each). `Restarts` adds that
systemd restarts COPS (`Restart=always` in `cops.service`); `failover_survivor`
does without it. `Prompt` is the timing assumption of the liveness runs: a
takeover takes milliseconds and is over before the other side's next decision,
which waits for a tick of one second, a timeout of three or a restart of ten.
Without it overlapping takeovers can power-cycle each other again and again.

*Limits of the results.* With `rst`, late handlers on both sides can keep
tearing down each other's new session; `failover_stable` leaves it out. Two
unhealthy controllers take over from each other for ever, since
`processModeCommand` never looks at its own score although its comment says "and
we are more healthy" (negotiator.go:101); `EventuallyStable` asks for one
controller that stays healthy. A COPS that dies between `ip link add` and `ip addr add` leaves a controller that
can become Primary but never gets the primary IP (`Stranded`). A COPS that dies
between claiming the IP and the reset leaves a Secondary that holds the primary IP
for good; therefore
`DuplicateIPIsTransient` and `AddressHasRole` are stated for faults without
process death. On a cold
start the client's one `GetDBIUpdate` goes to a server that is itself Secondary,
although fimsHandler.go:71 says "As the primary". A takeover decided before
update_mode is set goes through after it, although negotiator.go:66 says "Only
take over if we are not currently updating": the test and the assignment of
`controllerMode` are separate steps of different threads.

*Not modelled:* TLS, parse errors, replication of setpoints, the kills and
notifications of `updatedProcesses`, operation without failover.

## 3. CloudSync

`src`, `err`, `db` are what is on disk, `dst` what each server has, each file
`none`, `open` (created and not yet filled), `part` or `whole`. `snd`, `rt[s]`, `clr`,
`srt` are the program points and locals of the send, retry and clear threads and
of sortFailures; `sendQ`, `retryQ`, `clearQ`, `refill` their inputs; `conn[s]` is the
transfer stage. Two history variables serve the properties: `acked[s]` is what a
transfer to `s` was reported successful for, whatever arrived, and `calm` says that
no process death, repeated event or failing copy has happened so far.

send() is `SendTake`, `SendTransfer` per server, `AddFailureGet`, `AddFailureSet`,
`CopyToError`, `FillErrorCopy`, `QueueRetry`, `QueueClear`; retry() is `RetryTake`,
`RetryTransfer`, `RetryAgain`, `RemoveFailureGet`, `RemoveFailurePut`, `RetryClear`;
clear() is `Clear`, `ClearAgain`; addFileToRetryFromError is `SortTake`, `SortRename`,
`SortPush`. A push into a full queue blocks the thread. `Crash` loses everything but
the disk, `Restart` is main() and createClient. Faults: servers go away, transfers
break off before or after the last byte or leave a truncated file, copies,
deletes and database writes fail, a file is announced twice, the process dies,
also inside a transfer or while it fills the error copy.

The copy into the error directory is two steps, as in copy() (transfer.go:266-283):
os.Create truncates `error/f`, and only later is it filled, wherever the file is by
then, since the retry thread may have had it deleted and sortFailures may have
moved it. Whoever reads the file in between finds a part of it, and nothing tells
a truncated file from a short one: its transfer may succeed. A transfer request,
its service and its response are one step, at the moment the file is read: the
requester waits, the stage serves one request at a time and nobody else writes to
the destination. A transfer that overlaps the filling of the file it reads is thus
a step between the two, with a success, or an error because the length changed.

| run | properties | result |
|---|---|---|
| `cloud_rest` | `SourceInHand`, `ComesToRest` | hold for a remote and a local server and three of all nine faults |
| `cloud_delivery` | `TypeOK`, `NoLoss`, `EverythingDelivered`, `ImplementsStore` | hold for one server and any four of outages, transfers that break off or are truncated, process deaths, failing deletes and repeated events, with queues longer than what is queued |
| `cloud_two` | `NoLoss` | **violated** with two servers |

`NoLoss` is a statement about `calm` behaviours, because the program does lose files
after a process death or a repeated event, with one server too:

- Repeated event. The first pass over `f` fails, copies `f` and queues it for a
  retry. The second pass fails too and copies `f` again. The retry thread uploads
  `error/f` after it was truncated and before it is filled; the upload succeeds.
  Copy and source are deleted, and the server keeps a part of the file.
- Process death. cloud_sync dies while the error copy is being filled, and systemd
  restarts it. After the restart `f` is sent whole
  from the source directory, which is then emptied, and sortFailures retries the
  truncated copy, which replaces the whole file at the server.

Both were found by TLC when `NoLoss` was checked without `calm`. Outages, transfers
that break off or are truncated, failing deletes and failing database writes do not
lead there, in whatever order the threads run: without a second pass over the
file the copy is whole before anybody retries it.

`EverythingDelivered` has two parts. Whatever happened, a transfer of every file
succeeds in the end and the file leaves the source directory; in a calm behaviour
the server then has it whole and the error directory is empty too.

`StoreForward` is the abstract specification: a file arrives, is delivered to a
server, is discarded when it was delivered to some server. The mapping takes the
files in the source or in the error directory for the kept ones, and `acked` for
the delivered ones; queues, threads, the database and the network are hidden.
Moving a file between the directories, copying it and sending it again are
stuttering steps. What `Deliver` records is that the program was told of a success;
that the server has the file whole is `NoLoss`. For more than one server `Discard` is
as weak as the program is, which `cloud_two` shows.

`SourceInHand` says that a running process has not forgotten a file of its source
directory: it waits to be sent, is being sent or waits to be deleted. It holds
under all faults and needs no restart.

`cloud_two`: the transfer to the first server fails, the file is recorded,
copied and retried; the retry succeeds, finds nobody else on record and deletes
the copy; only now does send() reach the second server, which fails too, but
the file is copied once per pass and is not copied again. Its last copy is then
deleted.

*Bounds.* `BufSz` is larger than what can be queued in the liveness runs,
because a full queue stops a thread for ever: the retry thread puts a file back
into the queue that only it empties, and so does the clear thread
(client.go:249, 272). With `BufSz = 4` and four faults, deletes that fail stop the
clear thread at its own full queue, and nothing is deleted any more; eight
places are more than four faults can fill. The theorems cover every queue length.
`RetryLimit` 1 and 2 reach bad connection mode at the first and at the second
error. One file suffices for the threads to meet: they share state per file, and
what they share across files, the queues and the connection, is filled by repeated
events and retries of one file as well. The safety theorems hold for any number.

*Fairness.* Every goroutine keeps running, a server that is away comes back,
systemd restarts the process (`Restart=always`). Deadlock is not checked: a
client with nothing to do rests.

*Limits of the results.* Beside process deaths and repeated events `NoLoss` needs
that the copy into the error directory succeeds: its error is only logged
(client.go:216) and the source file is deleted all the same. An error of a local
server is not retried before the next restart; so `EverythingDelivered` is checked
for remote servers. After a repeated event a delivered copy may stay in the error
directory until the next restart: send() may find the file already deleted, a
failure it records but does not queue for a retry; if sortFailures moves the file
back from the error directory between the record and the copy, the copy stays
there. This takes three faults.

*Not modelled:* tar and untar mode, sorted copies and retention, how sessions
are made, failing database reads; S3 is a server whose transfers succeed or
fail.

## 4. site_controller

### SequenceEngine

A module of operators on the record `q` of one sequence and on the exit timer
that its owner shares between sequences. `Attempt` is the middle of
`call_sequence`: `call_sequence_entry`, then, if the entry was done,
`call_sequence_exit` with `handle_exit_action` and, on the first failure,
`handle_initial_exit_attempt` (`Switches`). `Done`, `Late` and `LateTimer` are its
end. The functions that entry actions and conditions call are inputs: `ok` says
that an entry action succeeded, `res[c]` that condition `c` has its value.

*Time.* An iteration stands for a second: the distance between two iterations
matters only against timers, and those count seconds. A timer is armed with
`clock_gettime` in the middle of an iteration and compared with a time read at
the start of a later one, so `n` seconds are `n + 1` iterations; milliseconds are
cut to seconds as in the code. The parts of a second in which nothing expires
are stuttering of the timers only, and the operator's messages may come between
any two iterations in any number.

### EssActions

`sequence[a]`, `status[a]`, `status_swap[a]` are the fields of action `a`, `current`
is `current_sequence_name`, `quick` is `quick_action_access`. Messages are
`StartAction`, `ClearAction`, `StopAction` (handle_actions_set), `EnterMaint`,
`LeaveMaint`, `SetLockdown` (handle_generic_asset_controls_set) and
`clear_alerts`. `Iterate` is `Asset_ESS::process_asset` followed by the clock of
`update_asset`: `Alerts` for the faults, then one of `NoCurrent`, `WildPointer`,
`Abandon` (maintenance mode has ended), `FailOnFault` or `CallSequence`
(Action::process). No constructor sets `quick` or `lockdown`: their first values
are free, and a call through a wild pointer is taken to end the process, as is,
possibly, the read past the last step when an action completes and times out in
the same call.

`MaintHeld` is an assumption about the operator: maintenance mode is not ended
under an action with a shutdown action, and when it was ended under another
action, that one is the next to be started. `ess_maint` shows why it is needed:
leaving maintenance mode clears the name and not the pointer.

| run | properties | result |
|---|---|---|
| `ess_safety` | `TypeOK`, `OneActiveAction`, `StatusIsTrue`, `ShutdownAlwaysRuns`, `ActionEnds` | hold with `MaintHeld` |
| `ess_maint` | `OneActiveAction` | **violated** without it |

*Bounds.* One action with two paths, one of them debounced, and a shutdown
action; one action with a debounced step whose entry ends maintenance mode. This
has every kind of step, a path switch, both ways out of maintenance mode, and
two actions to be confused with each other. Timers are bounded by the
configuration, so the state space is finite without further bounds.

### SiteManager and SiteLifecycle

`pc` walks through `process_state`: `GetValues` (clock, start of a requested
clearing), `check_state`, `call_sequence`, `StateFunction` (one disjunct per
state), `set_values` (delayed clearing of the faults, `ui_configuration`).
Messages are `SetEnable`, `SetDisable`, `SetStandby`, `PressClear`, `DebugFault`,
handled at `pc = "idle"`. `dbi` is what DBI holds of the two commands; `Restart`
is a crash at any point followed by main(), `replay` the commands that
`delayed_set` threads still hold, which run between any two steps. `stopped` is a
history variable: shut down, and no start command since. `power` says whether
power commands may be other than zero.

`SiteLifecycle` is the abstract specification: booting, off, starting, running,
stopping, off; running only from starting and not with a fault, stopping only
for a fault or a stop command. `Phase` is the refinement mapping.

| run | properties | result |
|---|---|---|
| `site_safety` | `TypeOK`, `CommandedUntilRestart`, `PowerOffWhenReady`, `DebounceRestarts`, `StartupEnds`, `FaultShutsDown`, `ImplementsLifecycle` | hold |
| `site_restart` | `RestartForgetsStart` | **violated**: DBI keeps the start command after a shutdown for a fault |

*Bounds.* `MCSiteManager` has a Startup with a path of two debounced steps and a
second path reached by a path switch, a debounced Shutdown, and the one-step
bypass sequences that 11 of the repository's 13 `sequences.json` use for the other
states. `MaxExits = 1`: one condition per step, as in all but three steps there,
and nowhere more than one that is debounced. The other two files
(`templating_error_testing`, `testing_AGT_sequences`) belong to sites that can run
without the grid: there Ready may lead to Startup, and Startup and the run modes
to Shutdown, by sequence. The model and `ReturnAssumption` admit this; the run does
not have it, and `ManualStart` and `ManualStop` name it where a result excludes it.
`MaxRestarts = 1` suffices because a restart resets everything but `dbi`,
`standby` and `stopped`.

*VIEW.* Both runs identify states by `LiveState`, which leaves out the fields of a
sequence record that will be overwritten by `reset_sequence` or
`enter_automation` before they are read; the debounce timers, which are not, are
kept. States with the same view have the same future up to the fields left out,
and no property but `Typed` reads those.

*Fairness.* Weak fairness of `process_state` and of `Iterate`: the loop in main.cpp
runs an iteration every 10 ms whatever messages arrive. Nothing is assumed of
the operator, the assets or the replay threads. `StartupEnds` is stated for an
operator who stops pressing clear: whoever clears the timeout fault every second
can keep a site in Startup. Deadlock is not checked: a process that died is not
restarted a second time (`SiteManager`) or at all (`EssActions`).

*Limits of the results.* `DebounceRestarts` is a statement about steps with one
debounced condition: `debounce_reset` is one flag for all of them
(Sequence.cpp:243). `FaultShutsDown` excludes faults raised while a clearing is
pending: a timeout raised after check_state in the iteration that ends with the
delayed clearing is erased unseen, against Site_Manager.cpp:2552 "any site lvl
fault will place you in shutdown". `CommandedUntilRestart` stops at a restart,
for the reason `site_restart` shows, and speaks of sites that do not start by
sequence (`ManualStart`). `PowerOffWhenReady` rests on Shutdown taking more than one
call, as it does in all configurations (two steps or more): `shutdown_state` does
not run in the iteration in which the sequence of Shutdown completes. A path switch in the call in which the old
step expires raises the timeout fault of the new path.

*Not modelled:* what the site functions do, which faults a path lists (a check
finds one or not), alarms and the watchdog (they change no state), the debug
endpoint that sets the state, input sources, the settings read-in triggered by
COPS (`dbi_update`), the Error state (unreachable with the assumed
configurations), the setpoints of assets.

## 5. What is proved

All theorems hold for every value of the constants that satisfies the named
assumptions of the module.

- `TypeCorrect`, `CloudTypeCorrect`: `Spec => []TypeOK`.
- `SplitBrainTheorem`: `Spec => []SplitBrainIsTransient`. The invariant is
  inductive with `TypeOK`: every step is either *calm* (no controller becomes
  Primary, no takeover or alarm ends), or a `Claim` (which starts a takeover), or
  ends a takeover by resetting the other controller or by raising the alarm; a
  process that ends starts again as Secondary.
- `DuplicateIPTheorem`: `DuplicateIPIsTransient` when `crash` and `pdu` are not
  among the faults. The address is taken in the step that moves the thread to
  `addressed`, and a thread leaves `requested` only with the other controller's
  power.
- `RoleTheorem`: `AddressHasRole`, for the same faults. It is inductive only with
  `RoleInv`: a thread past `Claim` belongs to a process that is Primary, or in
  Update mode since, and so does an address; what sets the mode back is the end of
  the process, and without `crash` and `pdu` a process ends only with its machine,
  whose dummy interface goes with it.
- `SessionTheorem`: `Spec => []SessionAgreement`, for all faults. Given the types the
  invariant is inductive. Every step leaves the session and both `C2C` records alone, ends a process and the
  session with it, or is one of the few that make or give up a session.
- `StoreTheorem`: `Spec => ImplementsStore` for any number of servers and files, any
  queue length and all faults but failing copies and failing database writes
  (`NoDamage`). A delete is safe because of what was true when its path was queued,
  which `KeepInv` adds: a queued source path means that a transfer of the file
  succeeded or that it is kept with its record (`ClearInv`), an error copy was
  recorded before it was made (`ErrorInv`), a retry thread past its transfer has had
  a success (`RetryInv`), the send thread records, copies and queues in this order
  (`SendInv`), sortFailures moves back only what was delivered (`SortInv`). The
  argument is that what is known of a file only grows (`Grows`). A step that changes
  neither the kept nor the delivered files is a stuttering step, a successful
  transfer is `Deliver`, a delete is `Discard` or nothing.
- `NoLossTheorem`: `Spec => []NoLoss` for one server (`OneServer`), with all faults, for
  any number of files and faults and any queue length. `CalmInv` says, for a calm
  behaviour, in whose hands a file is (`HandInv`): while it waits to be sent, or its
  transfer was not tried or its failure not yet dealt with, it is nowhere else, and
  while it is copied nobody retries it (`OutInv`); it is retried by one hand at a
  time, from a whole copy, and the copy is deleted when the server has the file
  (`AgainInv`); once sent it is at the server or in the error directory (`SentInv`).
  A calm process is in its first life, so that sortFailures has nothing to do
  (`FirstLife`); a process death, a repeated event or a failing copy ends the calm,
  and nothing brings it back (`CalmEnds`). TLC checked `CalmInv` before the proof.
- `InHandTheorem`: `Spec => []SourceInHand`, for all faults, any number of servers and
  files and any queue length. Inductive with the types: every handover between the
  buffer, the send thread, the clear queue and the clear thread is one step, and
  what sortFailures moves back is announced again.
- `SequenceEngineProofs` has the lemmas that every operator of the engine keeps a
  record of its configuration, and that a call made at a step that exists
  (`AtStep`) leaves the sequence at one or complete.
- `ActionsTyped`: `Spec => []TypeOK`. The types alone (`Typed`) are not
  inductive, since a call indexes the steps: the other half of `TypeOK`, `Placed`, says that whatever action
  runs, or can be reached through the pointer, is at a step that exists.
- `StatusTheorem`, `OneActiveTheorem`: with `MaintHeld`, `Spec => []StatusIsTrue` and
  `Spec => []OneActiveAction`. The strengthening of both, `ActionInv`, says that the pointer leads to the named action
  whenever something runs, that the status kept for the end of a shutdown action
  is a final one, that outside maintenance mode only an action without a shutdown
  action can still be current, and that the shutdown action of an exiting action
  is the current one. `ShutdownTheorem` is the action property `ShutdownAlwaysRuns` from the same
  invariant: an action with a shutdown action leaves "in progress" only to
  "exiting", and "exiting" only in the step that ends its shutdown action.
- `SiteTyped`: `Spec => [](TypeOK /\ Checked)`. `TypeOK` includes `Placed`, that a
  sequence called without a reset is done or at a step that exists. `Checked` says what
  `check_state` has established for the rest of the iteration, among it that a
  site still in Startup has no latched fault.
- `LifecycleTheorem`: `ImplementsLifecycle`, the refinement, for all sequences that
  return where the repository's do (`ReturnAssumption`) and not to Shutdown
  (`ManualStop`). It needs `Checked`: the step from starting to running happens in `call_sequence`, which
  does not look at faults.
- `CommandTheorem`: `CommandedUntilRestart`, with `ManualStart`. `CommandInv` adds that
  before a restart nothing is replayed and that a start command that stands, at
  whatever point of the iteration, is younger than the last shutdown.
- `PowerTheorem`: `PowerOffWhenReady`, with `SlowShutdown`: the first call of Shutdown
  does not complete it, because it has a second step or waits for a debounced
  condition. `PowerInv` adds that power is commanded in the running states only,
  and in Shutdown up to its first `shutdown_state`; that a running state was not
  Shutdown when it was last checked, so that a shutdown from it resets the
  sequence. It covers the sites that stop by sequence.
- `DebounceTheorem`: the action property `DebounceRestarts`, with `OneDebounced`: at
  most one debounced condition per step.

Only model-checked: all liveness properties (the prover handles neither fairness
nor ENABLED), that is `EventuallyStable`, `HealthyControllerLeads`,
`SurvivorTakesOver`, `ComesToRest`, `EverythingDelivered`, `ActionEnds`, `StartupEnds` and
`FaultShutsDown`, and everything the violation runs show. Every invariant and
action property a passing run checks is also a theorem.

## 6. Not modelled, and the plan

Hazards met while reading that no model covers, beside those of `PROJECT.json`:
the watchdog of `site_controller` barks in the first iteration after it was disabled
for long (Watchdog.cpp:116); `configure_path` ignores the result of
`handle_return_id` (Path.cpp:748); `check_state` looks at the faults of the path its
sequence was last in (Site_Manager.cpp:2521); `set_maint_mode` in an action ignores
lockdown (Asset_ESS.cpp:1225); COPS' health scores are NaN without required
processes (doctor.go:57), and it kills by the PID of the last reply
(watchdog.go:75); `cloud_sync` has queues of capacity zero without a configured
buffer size (client.go:320) and looks up unpacked files by the extension of the
packed ones (client.go:404).

`PROJECT.json` lists every part of the repository with its status. Most of its
C and C++ is out of reach of a faithful model: `gcom_dnp3_interface` carries a
vendored protocol stack of 190 thousand lines, `ess_controller` keeps several
generations of old code and is a library of floating-point functions wired by
configuration, `modbus_interface`, `dnp3_interface` and the `gcom_*` services
encode registers, and the features and assets of `site_controller` are control
laws over floating-point data. There the control is a straight line through
data that no property distinguishes, and a model would be a transliteration.
The models therefore cover a small share of the lines and the parts in which
order, failure and concurrency decide.

What is left, in this order:

1. The error directory's counterpart of `SourceInHand` (without repeated events a
   copy is always queued, being retried or about to be deleted) as an invariant and
   a theorem; a run of `SiteManager` with a configuration that starts and stops by
   sequence.
2. `CopsWatchdog`: heartbeats, patrol, kill and primary flag for one process in
   discrete time, with the main loop held up. Properties: no false alarm for a
   process that answers (boundary: hang time equal to the heartbeat period), a
   hung process with a known PID is killed, the flag follows the mode.
3. `CopsReplication`, composed with `CopsFailover` and `SiteManager`: setpoints and
   documents over C2C, `dbi_update`, the stale DBI answer at start (main.go:91),
   the sync from a Secondary.
4. Tar and untar mode of cloud_sync as a stage in front of `CloudSync`.
5. Start and stop of generators in `site_controller` (LDSS, `Asset_Generator`).
6. The doctor's droop score and `numberfyIP` as operators with reference
   definitions; the archive pipeline of `dts` and `archive_cocoon`; the event list
   of `scheduler`.
