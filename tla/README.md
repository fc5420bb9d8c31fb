# A TLA+ model of inferia-worker

inferia-worker is an agent on a GPU machine. It keeps a websocket to a control
plane, starts and stops model servers in docker containers on its command,
proxies inference requests to them, and gives operators shells and logs. These
modules model the parts of it that share state between goroutines, processes
and connections, state what makes them correct, check it with TLC on small
instances and prove the most important results with TLAPS for every instance.

Files: `X.tla` is a component, `MCX.tla` its instance for TLC (symmetry sets
and sequence-valued constants only), `XProofs.tla` its theorems
(`ProcessProofs` those of Worker, CommandChannel and Metrics), and `Sums` the
lemmas about sums that two of them use. Every `.cfg` is a run; `PROJECT.json`
lists runs, mutants, source lines, findings, hazards and theorems.

## The system

| Component | State it keeps | Operations | What is hard |
|---|---|---|---|
| `internal/runtime` | table of deployments (state, container, endpoint, lock, progress log), table of groups, port allocators | `LoadModel`, `UnloadModel`, `LoadDeploymentGroup`, `UnloadDeploymentGroup` | commands overlap; docker calls fail, are cancelled or lose their answer; containers exit; the worker restarts and forgets |
| `internal/dispatcher` | GPU leases, and the static plan of their shares | `LoadModel`, `UnloadModel`, heartbeats, the scraper of engine metrics | writes registry, leases, groups and metrics one after the other; an unload goes through two paths, of which either may fail; both are given ports of overlapping ranges |
| `internal/control` channel | the connection, the dedup table | dial, reconnect, one goroutine per frame, reply | frames overtake each other; retries meet running commands; a disconnect cancels everything in flight |
| `internal/control` tunnel, `internal/shellbridge` | sessions by stream id | open, close, input, resize, teardown | open, close, exit and teardown of one session race |
| `internal/admin`, `internal/shellbridge` | the websocket, the closed flag, the stream from docker, the sidecar | `/v1/shell`, `/v1/logs`; spawn, read pump, close | three goroutines end in any order; the connection is reused once the handler returns; a start fails half way |
| `internal/inference` | registry of groups | `/v1/*` proxy, two-phase prefill/decode | reads tables that commands change |
| `runtime/progress.go`, `shellbridge` logs | the lines of a load, its followers and their channels | append, end, subscribe, follow, hand off | followers join in the middle, are slow, or leave without notice |
| `internal/metrics` | counters and a latency histogram per deployment | inc, dec, record, scrape, remove, snapshot | requests and scrapes outlive their deployment; the ring buffer fills |
| `internal/auth`, `control/bootstrap` | the worker token on disk | register, save, check | crash between write and rename |
| `internal/healthz`, `cmd/worker` | ready flag; process life | start, serve, stop | start-up order |
| recipes, config, telemetry, cloudenv | none shared | pure or I/O | not modelled |

Calls go control channel → dispatcher → runtime → docker. The runtime's tables
are read by the proxy, the heartbeat and the logs sessions. A disconnect
cancels the context of every command and session of the connection.

What makes each part correct, in one line each: a failed load leaves nothing, a
loaded deployment has its container on its port, an answered command means what
it says (runtime); a group is whole or absent (groups); the tables agree between
commands, and an unload leaves nothing of a deployment (dispatcher); followers
see a load's lines in order and its end, and never hold it up (progress log); no
session outlives its connection (tunnel), and what an operator's socket started
ends with it (sessions); a retry gets the original outcome (channel); over all its
starts the worker has one token, which the control plane issued (worker); counts
match what is under way, but for the requests an unload overlapped (metrics).

## Modules

### Runtime, ModelService

`Runtime` is `runtime.go` for deployments of one container. The variables
`deployments`, `state`, `containerID`, `endpointURL`, `init`, `prog` are the
table and the fields of its objects; `used` is the port allocator; `conts` and
`image` are docker's side; `pc`, `op`, `id`, `obj`, `port`, `cancelled` are the
goroutines. An object and a container are named by the call that created them,
because a call creates at most one of each.

One action is one section under `Runtime.mu`, one docker call, or the taking of
a deployment's lock: everything another goroutine can see or disturb in
between is a separate step. `getOrCreate` and the taking of the lock are
separate, which is where the code's hardest interleavings start. `LoadModel`
becomes `LoadModel`, `LockLoad`, `CheckEndpoint`, `ReturnCurrent`, `AllocPort`,
`SetPulling`, `Pull`, `ClearStale`, `Create`, `SetContainerID`, `SetStarting`,
`Start`, `WaitReady`, `OllamaPullIfNeeded`, `RemoveImage`, `Publish`,
`SetRunning`, and the failure path `Cleanup`, `SetFailed`, `DropFailed`;
`UnloadModel` becomes `UnloadModel`, `LockUnload`, `StopContainer`,
`RemoveContainer`, `DropUnloaded`.

The environment is a set `Faults` (each docker call failing, answers that are
lost after the call took effect, containers that exit, disconnects), a bound on
restarts, and `Sender`, which says when the control plane sends a command for a
deployment: `any` time, `serial` (after the last one was answered), or
`redrive` (a load again after a disconnect, while the old one winds down).

`ModelService` is the promise to the control plane without containers, ports
and locks: which deployments are served and what an answer means. `Runtime`
instantiates it with `serving <- LoadedDeployments` and
`phase <- phaseOf`; `ImplementsService` is its specification.

### DeploymentGroups

`LoadDeploymentGroup` with its loops over prefill and decode replicas,
`rollbackGroup`, `UnloadDeploymentGroup`, and the dispatcher's steps around
them: leases, `RegisterDisagg`, `Deregister`. The loop over the two roles is
one loop over `Slots`. Group commands take no lock, and their names are not
cleared before a create: both are as in the code, and `NeverReplaced` shows
what keeps the table sound nevertheless (docker's unique names).

### Dispatcher, GPUAllocator

`Dispatcher` is the composition: it extends `Runtime`, instantiates
`DeploymentGroups` and `GPUAllocator`, and adds `dispatcher.go` above them. A
command has a program counter in each half of the runtime and one (`dpc`) in the
dispatcher. The two halves share what they share in the worker: the image store,
the contexts of the connection, the restarts, and the ports of the host. A start
on a port that a container of the other half listens on is refused
(`StartRefused`); a probe may be answered by such a container when the one that
is waited for has exited (`ReadyByOther`). An unload is `DispatchUnload`
(Deregister), `ReleaseAll`, the group's teardown, `UnloadSingle`, and
`AnswerUnload`, which answers ok whatever the single half returned, because the
group half never fails. The leases of `DeploymentGroups` are, through the
instance, those that `GPUAllocator` keeps. Each load names its own GPUs
(`GPUChoices`), and indices the host does not have are refused
(`validateGPUIndices`). A load of a deployment that is running replaces its lease
before the runtime finds that there is nothing to start, so a lease may move away
from the GPUs of the container that runs; `granted` keeps what each load since the
last release was given, and `TablesAgree` says of the lease what the code makes
true. `ServedByItself` is about a container that runs: a load whose own has exited
while it was waited for may take the answer of another for it (`ReadyByOther`), and
answers ok.

`GPUAllocator` is `Allocate` and `Release` under their lock, and the static plan:
`AllocateStatic` in exact fractions, where the code has floating point. `Allocate`
uses the plan only to order the GPUs it grants, and then grants all of them, so
the order is left out and `SharesFit` is about the plan itself.

### ProgressLog

`progressLog` with its bounded list of lines and the bounded channel of each
follower; `LoadModel` by the lines it writes (`Says`) and the steps a logs
session can see; and the session: `Resolve` (is there a container?),
`DeploymentKnown`, `progressOf`, `subscribe`, `Replay`, `Receive`,
`ChannelEnds`, `Handoff`, `DockerLogsEnd`, and `Cancel` when it is closed, which
leaves its channel in the log's `subs` as the code does. A line is its number.
Loads of the deployment follow each other here, but a load may work on the
object and the ended log of an earlier one, when an unload failed in between.

### ShellTunnel

`ChannelShellTunnel` and the sessions it starts, for one connection. Shells and
logs have the same life, so one table stands for both. A session is named by
the frame that opened it and has a backend (`live`, `ended`), a read pump and a
`Close` with its bounded wait. `OpenArrives`/`CloseArrives` are the read loop;
from there each frame has a goroutine. `Report` is
`sendEnvelope`: the write may fail, which is logged and forgotten, and then the
connection is `broken` and will end. `Disconnect`, `CloseAll`, `CloseNext`
and `TeardownEnds` are the deferred teardown of `connectOnce`. A frame may find
that its connection is gone (`DropOpen`, `DropClose`); one that runs so late
that it finds the next connection's tunnel is, for that tunnel, an open frame
that fails or a session like any other. Not modelled: a report that spends its ten
seconds waiting for the lock of the connection's writer fails although the
connection lives, and the control plane then never hears of that end.

### ShellSession

The two websockets of `admin.go`, each with the session it starts. `handler` is
`handleShell` or `handleLogs`; `reader` the goroutine that reads a logs socket;
`pump` is `readPump` or `LogsSession.run` with its callbacks. The docker calls of
both shell backends are steps: `ExecCreate` with its fallback to `/bin/sh` and
`ExecAttach`; `EnsureImage`, `CreateSidecar`, `AttachSidecar`, `StartSidecar` and
`DiscardSidecar` for a shell on the host. A client reads, stalls (writes to it
wait, with `wmu` held) or leaves; `late` records that the connection was used after
its handler returned. `ShellTunnel` is about many such sessions and one connection
and has them coarser; the admin routes do not go through it. The object of a
connection is reused for later websockets; a reader or pump that is late may then
read from, or write to, another peer. The model records that it is late and lets it
end as if the connection were still its own.

### CommandChannel

`Channel.Run`, `connectOnce`, `handle` for command frames, and `dedup.Run`. The
clock is explicit, `TTL` is the window; `Hit`, `Store` and `Expired` are the
three uses of time in `dedup.go`. Commands with a body that does not parse
(`BadIds`) and the empty id (`NoId`) take their own paths. The dispatcher's
work is one step with an arbitrary outcome, which may take any time. Reading
the clock and the lookup are one step; a goroutine suspended there for a whole
window is not considered. `Overlap` says whether the control plane repeats a
command whose handler is still at work.

### Worker

`main`, `TokenStore`, `bootstrap.Register`, the ready flag and shutdown. `file`
(the token file), `issued` and `presented` (what the control plane knows) outlive
the process; everything else is lost when it exits, fails (`Fatal`) or is killed
(`Kill`, at any step). `CreateTemp`, `Write`, `Rename` and `KeepToken` are
`TokenStore.Set`; the operator may drop `BOOTSTRAP_TOKEN` before any start, and
`LoadConfig` accepts that when the file is there. The channel is reduced to what
`main` sees of it: dialling, open, in backoff, returned. Assumed: the control
plane answers a registration with a non-empty token of its own, and a crash is
one of the process, not of the machine, so that a completed write is not lost.
`ShutdownServer` follows the HTTP library, which does not stop a server that has
not begun to listen.

### Metrics

`Collector`, `PeakHistogram`, the calls of both proxy paths, the scraper and the
heartbeat. `deployments`
holds the buckets with the ring buffer as the code lays it out (`buffer`,
`head`, `cur`, `buckets`), so the index arithmetic is the code's. A panic of
`Observe` ends the process (`up`): there is no recover middleware. A request is
`FindEndpoint`, `IncActive`, `UpstreamFails` or `UpstreamAnswers` (which asks
`DeploymentInfo`), `Record` and `DecActive`: each takes a lock of its own in the
code, and the deployment may be unloaded and loaded again between any two. It ends
with the handler, as `DecActive` does; the body that is streamed afterwards
(`proxy.go:172-175`) the collector does not count. `Unload` and
`RemoveDeployment` are the two moments of `Dispatcher.UnloadModel` that matter
here; the second also happens when the first failed; two unloads of one id do not
overlap. `stale` are the requests that were under way when a bucket was removed,
which the collector forgets, and `seen` the samples of the present bucket. A scrape
picks a deployment, gets its bucket, makes the http request, takes the lock
(`ScrapeLocks`) and reads the body while it holds it, so that every call of the
collector waits (`Unlocked`), and writes to that bucket, still in the
collector or not (`own`); `sending` are the maps a heartbeat is writing out without
a lock, and a write to one of them may end the process. `MCMetrics` assumes, and
TLC evaluates, that for every number of samples up to 42 the rounded ranks of
`Percentile` are the least that reach the stated part; the proofs have it for every
number.

## Runs

Deadlock checking is off in all runs: the set of commands, frames or requests
is finite, and the control plane may simply send no more.

| Run | Instance | Shows |
|---|---|---|
| `RuntimeLive` | 3 overlapping calls, 1 id with an ollama model, 2 ports, fair; failing pulls, plans, creates, starts, probes, ollama pulls and removals, disconnects | `FailedLoadLeavesNothing`, `EveryCallReturns` |
| `RuntimeSerial` | 4 calls one after the other, 1 restart | `LoadedIsBacked`, `NothingUntracked`, `ProgressEnds`, `RunningOnlyStops`, refinement of `ModelService` |
| `GroupsAny` | 3 overlapping calls, 1+1 replicas, every fault, 1 restart | `GroupIsWhole`, `RolledBack`, `NeverReplaced` |
| `DispatcherSerial` | 3 commands for 2 ids, each a single load, a group load or an unload; overlapping ranges; two choices of GPUs; one disconnect, exit or restart | `EndpointsDistinct`, `TablesAgree`, `UnloadLeavesNothing`, `ServedByItself`, `SharesFit` |
| `ProgressFollowed` | 2 loads, 1 session, a log of 2 lines, a channel of 1, fair | `LinesInOrder`, `EndHasOutcome`, `LoadsEnd`, `FollowersEnd` |
| `TunnelLive` | 2 opens, 2 closes, fair | `SessionsEndWithConnection`, `TeardownCompletes`, `EndIsReported` |
| `ShellSessions` | a socket of any kind and one for a shell on the host, every fault, fair | `FailedSpawnLeavesNothing`, `OneEndPerSession`, `ConnUsedWhileHeld`, `HandlersReturn`, `NoGoroutineStays` |
| `ChannelSerial` | 3 frames, 2 commands, the empty id, a bad body; window 1, clock to 3 | `RetryGetsOriginal` |
| `WorkerRestarts` | 3 starts, 3 tokens, killed at any step, fair | `TokenIsIssued`, `OneIdentity`, `Reconnects`, `SignalStops` |
| `MetricsUnloads` | 3 requests, a deployment and a group, buffer of 3; requests, scrapes and heartbeats overlap loads and unloads | `PercentilesAreRanks`, `ActiveDriftsByStale`, `GhostCountsStale` |

The type invariant is checked for Runtime, DeploymentGroups, ShellTunnel,
CommandChannel (`CTypeOK`) and Worker, where it is also proved. Two more runs are
in the section on disagreements.

Why the bounds suffice. The hardest interleavings found need three calls of one
deployment: a holder of the lock that fails, one that waits for it, and one
that comes after the entry was dropped; `RuntimeSerial` has a fourth, for an
unload after an unload and a load that were cut off. Two replicas are the least
for which a rollback has something to undo and something not yet launched.
Two opens and two closes let a close overtake its open, a teardown race a
registration and another session be in the table at once. A load writes five
lines or more, so a log of two and a channel of one overflow, and a session may
join before, between and after them; the second load may find the log of the
first. In `ChannelSerial` the clock
passes the window and the deletion time (two windows after the start), and a
third frame of another command runs the deletion between two of the first.
Three starts of the worker are one that is cut short, one that presents its
token and one that must find it again. Three requests are one that ends after its
bucket was removed, one that is under way then and records later, and one of the
deployment loaded next; they fill a buffer of three, and a fourth would end the
process (`MetricsFull`). Symmetry is used for sets of
interchangeable calls, frames, requests and ids, in runs that check safety only;
`ProgressLog` names its loads in a fixed order instead. In `DispatcherSerial` three
commands are a single load, a group load and an unload of one id, or of two ids
whose ports meet; `MaxTroubles` bounds disconnects, exits and restarts to one
together, because with one command at a time per id a second one finds the states
that the first leaves. The commands name four GPUs for prefill and one for decode,
of seven, so that equal shares do not fit and the slack is divided, and a single load
names none and is given all; or a single load names one GPU, so that a load after
another moves the lease, and a group load one that the host does not have, which is
refused. That the lease of a group moves is covered by the proofs only. Overlapping commands and further faults of either half
are the business of the runs of `Runtime` and `DeploymentGroups`. The sockets of
`ShellSessions` share only the host image and the model's container, so two are
enough. `RuntimeLive` has no restart, which empties the tables its properties speak
of, and no failing stop or removal by name, lost answer or exit; the theorems about
its safety properties have any number of the first and all of the others.

Fairness. `RuntimeLive`: every step of a call, weakly: the docker client and
the probes have timeouts, mutexes of Go are not held for ever by a goroutine
that keeps running and do not starve, and no step waits for the control plane.
`TunnelLive`: every step of a session, a handler and the teardown, weakly: the
wait of `Close` is bounded by two seconds, the exit code's by five, writes by
ten; and a connection whose write has failed is closed by the websocket library, so
that its read loop ends and the teardown begins. `ProgressFollowed`: every step of a load, whose docker calls and probes have
timeouts, and of a session that is not closed. `ShellSessions`: the handler, the
reader and the pump of each socket, weakly: docker's calls and waits come to an end,
and docker takes the input written to a shell (the code has no deadline there).
Nothing makes a client read or leave, a shell exit or a stream produce output; a
write to a client that has stalled waits until it reads again or is gone.
`WorkerRestarts`: the goroutines
of `main`, weakly, and `Dial` strongly, because a control plane that is down
comes back and the channel tries for ever. The environment (arrivals, exits,
disconnects, signals, kills) is never fair.

Each property of a passing run has a mutant of a mapped definition, next to the
definition in the module and marked as such, that violates it.

## Where the code and its comments disagree

Two runs show that the code does not keep a sentence of the repository:

| Run | The sentence | What happens |
|---|---|---|
| `RuntimeRedriveLost` | "a re-drive (or retry) always recreates cleanly" (`runtime.go:255`) | a load that waits for the lock of an entry which its holder then drops works on an orphan and answers ok |
| `MetricsFull` | "retaining only the last maxSamples observations" (`histogram.go:7`) | the next observation indexes past the buffer and panics |

Others were met while modelling. They have no run of their own; the properties
state what holds, and their comments name the exception:

* the lock `init` goes with an entry that a failed load drops, so two loads of
  one id can be at work at once, against `runtime.go:61`;
* a failed unload leaves the endpoint, and the proxy forwards to it;
* nothing watches docker events for crashes (`docs/structure.md:43`), so
  `LoadedIsBacked` admits a container that has exited;
* a load that finds no free port leaves its progress log open
  (`ProgressEnds`, `FollowersEnd`);
* an unload answers ok for a container whose entry a failed load dropped
  (`NothingUntracked`);
* the rollback of a group uses the ctx whose cancellation made the load fail
  (`RolledBack` is about a live one), an unload of a group ignores docker's
  errors, and a group load is not idempotent;
* a load that fails leaves its GPU leases until an unload, and nothing calls
  `PortAllocator.Release`;
* `UnloadModel` of the dispatcher answers ok when the single half failed, because
  the group half never does (`dispatcher.go:207-210`; `UnloadLeavesNothing`);
* a callback may run after `Close`, against `shell.go:246`, when the two seconds of
  `Close` run out (the pump may wait five for an exit code, or be in a write to a
  client that does not read), and uses a connection that was given back
  (`ConnUsedWhileHeld`); the reader of `handleLogs` may do so when the container
  cannot be resolved;
* `Close` of a host shell closes the stream and leaves the sidecar to its shell
  (`host_backend.go:104-107`);
* the values reported as p50 and p95 (`histogram.go:56`, `collector.go:151`,
  `RequestLatencyP50Ms` and `RequestLatencyP95Ms` of `protocol.go:93-94`) are the
  95th and the 98th percentile; `PercentilesAreRanks` is about the computation of
  these two ranks, not about the names;
* a load of a running deployment that names other GPUs moves its lease to them,
  and the container stays on those it was started on (`dispatcher.go:120`,
  `gpuallocator.go:206`; `TablesAgree`);
* the end of a session whose report cannot be written is only logged
  (`shell_tunnel.go:383-387`; `EndIsReported`);
* a request that overlaps an unload of its deployment leaves the active count too
  low, below zero even, until the id is unloaded again, and an unload between
  `DeploymentInfo` and `RecordRequest` leaves a bucket that counts the request
  (`ActiveDriftsByStale` and `GhostCountsStale` state what is left);
* a heartbeat writes out the map of engine metrics itself, without the lock
  (`collector.go:176`), while the scraper may write to it; a scrape that was under
  way during an unload makes an empty bucket which heartbeats report
  (`GhostCountsStale`); and it reads the body of a model server with the collector's
  lock held, for as long as that takes (`collector.go:111-126`);
* in the tunnel a close may overtake its open, and two opens of one live stream id may both
  start a session (`ShellTunnel` assumes fresh ids);
* a retry "receives the original outcome rather than executing the action twice"
  (`dedup.go:8`), but not while the first is still running (`CommandChannel`
  with `Overlap = TRUE`), and the dedup window is counted from the start of a
  command;
* the worker becomes ready two seconds after its start, whether or not the
  channel is connected; when it cannot listen it stays, without server and
  channel, until a signal comes; and a signal that comes before the server
  listens leaves it waiting for that server (`SignalStops`).

## Theorems

All proofs are for arbitrary sets of calls, frames, ids and streams, arbitrary
bounds and fault sets; what a theorem assumes of the control plane (`FreshIds`,
`Overlap = FALSE`, `Sender = "serial"`) is said with it, and `DeploymentGroups`
assumes that a deployment keeps its recipe, since container names begin with that.
The other assumptions are the named `ASSUME`s of the modules
(`Nil` is not a call, ports are positive, the sets of ids and of the GPUs a command
names are finite, and so on), which TLC evaluates in every run.

An induction over data is by a set. `NatSet` of `Sums`, from the well-foundedness of
the naturals, says that a set which contains 0 and the successor of each of its
members contains every natural number; a lemma about all finite sets, or all
prefixes of a list of buckets, takes the set of the numbers for which it holds.

* `RuntimeProofs`. `TypeCorrect`. `FailedLoadsAreClean`: the property looks at
  returned loads only; `ContainerHasOwner` says where a container may be at
  every step, namely with a call past its `Create` that has not yet returned
  an error. `EndpointsStayDistinct`: `PortInv` follows a port from the
  allocator's `used` set through the call that asked for it to the object that
  publishes it; distinctness of endpoints alone says nothing of a port that is
  allocated and not yet published.
  For `Sender = "serial"`: `RuntimeImplementsService` and
  `RunningIsOnlyStopped`, because `SerialInv` says that a call works on the
  object that is in the table, which is false for overlapping commands (see
  `RuntimeRedriveLost`); every step then maps to a step of `ModelService` or to
  a stutter. `LoadedStaysBacked` and `NothingIsForgotten` share `TrackInv`, since
  neither is inductive alone: an entry names only a container of its own
  deployment (`NamesOwnContainer`), what a load is about to call running is
  the container and the port it published (`PublishedOwn`), nobody removes the
  container of a load under way (`StartedStays`), and every container is either named by
  its entry, held by the call that is about to name or remove it, kept by
  docker, or left by a failed unload (`Accounted`). `ProgressLogsEnd` follows the
  object of a load from the reset of its log to the mark that ends it
  (`RunningTold`, `LateTold`); with overlapping commands it is false, as a second
  load may take over the object.
* `DeploymentGroupsProofs`. `GroupsTypeCorrect` needs `LoopsInBounds` (the loop
  counters stay within the slices). `GroupsStayWhole` and
  `GroupsAreNeverReplaced`: what a load has launched exists and has no other
  owner as long as the load or the table holds it, and names, which docker
  keeps unique, separate two loads of one deployment. `FailedGroupsRollBack`:
  `OwnsOnly` says of every label of a load which containers it may still own
  (`MayOwn`: those of the slots launched so far, and the one being launched from
  its create on), or why it is excused (`Excused`: docker kept one, or the ctx is
  cancelled); the loop of the rollback then leaves none.
* `ShellTunnelProofs`. `TunnelTypeCorrect`. `SessionsEnd`, for fresh stream
  ids: `Owned` says that a live session is held by its handler, the table, the
  teardown or a close handler; that table entries carry their own stream id and
  that the teardown empties the table for good make it inductive. Without fresh
  ids it is false: a late exit or a second registration removes a live session
  from the table.
* `ShellSessionProofs`. `SessionTypeCorrect`. `NoSidecarLeft`, `EndsOnce` and
  `ConnectionHeld` come from one invariant that relates the program counters of
  the handler, the reader and the pump of a session: which handler labels go with
  a pump that has not begun, runs or is done (`Phases`), at which labels of
  `Spawn` a sidecar exists (`Sidecars`), how many end callbacks a pump has made at
  each of its labels and what it saw of the closed flag (`Callbacks`), and who may
  still hold the connection once the handler is about to return (`Readers`,
  `Connections`).
* `ProgressLogProofs`. `LogTypeCorrect`. `LinesStayInOrder`: what a follower was
  given and what waits in its channel are together a run of consecutive lines
  that ends with the last line of its log (`Follows`), which needs that the
  retained lines of a log are such a run (`LogsRun`), that a channel on the list
  of a log is open, and so is the log (`Subscribed`), that a session that follows
  is on the list until the log is done (`Told`), and that the same holds of what
  a session was given with what waits for it, whole unless it was skipped
  (`Streams`). The lemmas about
  runs (`RunAscends`, `FollowsAppend`, `RetainRuns`, `ConcatAppend`) are about
  sequences only. `EndsHaveOutcome` is `Told` at the label "outcome".
* `DispatcherProofs`, for `Sender = "serial"`: one command at a time per
  deployment. It takes the invariants of `RuntimeProofs` over to the composition:
  `SingleInv` survives the three steps at which the group half moves a single
  load (`Detour`: a refused start, and the two probes that another container
  answers), so that `EndpointsDistinctOnHost` holds on a host shared with groups.
  `TablesStayTogether` rests on `TablesInv`: the latest command for a deployment
  is the only one at work on it (`Latest`, `CallInv`), so that its program
  counters account for every difference between registry and group table
  (`RegistryInv`) and for every lease that is not held yet or no longer
  (`LeaseInv`); what an unload took away stays away until the next command
  (`GoneInv`). `LoadedServesItself` and `UnloadsLeaveNothing` add `GroupInv`: a
  load under way has the replicas it counts (`GroupCall`), a group in the table
  was started whole (`GroupUp`), and every container of a group belongs to the
  load that makes or undoes it, the group in the table, or the unload that takes
  that group down (`AccountedAt`), unless docker kept it, its command was cut
  short, or the worker restarted. The GPU leases enter only by what `Allocate`
  grants and `Release` clears, whatever GPUs each load names: `Holds` follows the
  loads that have leased under a key since it was released.
  `SharesAlwaysFit`, for every `Sender`: leases are finite sets of GPUs and finitely
  many (`LeaseTypes`), so the pool has a capacity and the shares a sum. `PlanFits`
  then is the argument for `AllocateStatic`: a receiver of slack has an equal share
  above its minimum; and where the equal shares do not fit, the plan is the minimums
  and, for each receiver, one part of what they leave, which sums to the pool.
* `Sums`. `SumFunctionOnSet` is a fold defined by a recursion over the subsets of its
  argument. `AddsExists` and `AddsUnique` show that the recursion has a solution, and
  one that does not depend on the set it started from, so that a sum may be taken one
  element at a time (`SumUnfold`), in whatever order (`SumRemove`); `SumLinear` sums
  a multiple of a function and a bonus for some of the members. `MinExists` and
  `MaxExists` give the least and the greatest number of a set.
* `ProcessProofs`. `WorkerTypeCorrect`. `TokensAreIssued` and
  `WorkerHasOneIdentity`: `PersistedInv` says that the file holds an issued token
  or nothing, that a presented token is the one in the file, and what `main` knows
  of both at each step of the start, so that a worker whose file holds a token
  never registers again.
  Of the channel: `ChannelTypeCorrect`. `RetriesGetTheOriginal`, when
  commands are not repeated while they run: `Latest` and `Fresh` say what the
  table knows of frames that were answered until their window has passed, and
  `Missed` what a handler has learnt when it decides to execute.
  Of the collector: `CollectorTypeCorrect` needs that the next position of the
  ring buffer is the number of samples (`Filling`); it stays so when the buffer is
  full, since the next sample then ends the process (`NeverEvicts`: the branch of
  `Observe` that evicts a sample is never taken, for a buffer of any length). `PercentilesAreRanksOfSamples`: `Filling` also says
  that each count is the number of samples of its bucket (`Tally`); the counts up to a
  bucket then sum to the samples that have come in by it, by induction on the bucket
  (`SumIsCountedUpTo`), and the rounded rank is the least number that makes up the
  stated part (`TargetIsRank`).
  `GaugeDrift`: each step of a request, and each removal, moves the reported count,
  the requests under way and the stale ones together (`GaugeInv`), whatever overlaps.
  `GhostsCountTheStale`: of a deployment that is neither loaded nor being unloaded
  a bucket has counted stale requests only, each once (`GhostsCount`), because a
  request that is about to record, for a deployment that is gone by now, was under
  way at the removal (`HandlersKnow`); and the bucket a scrape has to write to has
  counted a request (`ScraperKnows`, `Untouched`).

Model-checked only: the liveness properties (`EveryCallReturns`,
`TeardownCompletes`, `EndIsReported`, `LoadsEnd`, `FollowersEnd`,
`Reconnects`, `SignalStops`, `HandlersReturn`, `NoGoroutineStays`), which rest on
fairness and `ENABLED`.

## Plan

Done: Runtime with ModelService, DeploymentGroups, their composition in Dispatcher
with the GPUAllocator, ProgressLog, ShellTunnel, ShellSession, CommandChannel,
Worker, Metrics with percentiles and scraper, and a theorem for every safety
property that the passing runs check. What is left is input and resize frames
of the tunnel, and the round robin over replicas with its counter of 32 bits.

Not modelled: the contents of requests and frames, the docker arguments that
recipes build, the values of the configuration, GPU profiles, telemetry and cloud detection
(pure construction or reads of the machine, without state that two goroutines
share), the inference token (a stateless check of a header), and the length of
backoffs.
