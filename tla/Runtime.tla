------------------------------ MODULE Runtime ------------------------------
(***************************************************************************)
(* The single-container half of internal/runtime: what Runtime.LoadModel   *)
(* and Runtime.UnloadModel do to the deployment table, to the deployment   *)
(* objects, to the host ports and to the Docker daemon, when any number of *)
(* them run in goroutines of their own (control.Channel starts one per     *)
(* command) and the docker calls they make may fail, be cancelled or lose  *)
(* their reply.                                                            *)
(*                                                                         *)
(* Grain.  Every action is one access to state that another goroutine can  *)
(* also touch: one section under Runtime.mu, one docker call, or taking    *)
(* deployment.init.  Taking the lock is merged with the read or write that *)
(* follows it, and releasing it with the write before it.                  *)
(*                                                                         *)
(* A call creates at most one deployment object and at most one container, *)
(* so an object and a container are both named by the call that made them. *)
(***************************************************************************)
EXTENDS Integers, FiniteSets

CONSTANTS
    Calls,        \* the LoadModel and UnloadModel calls the worker receives
    Ids,          \* deployment ids
    Nil,          \* no object, no container, no call
    PortLo,       \* the allocator's range, PortLo .. PortHi
    PortHi,
    FixedPorts,   \* ports a LoadModel body may ask for (body.Port # 0)
    OllamaIds,    \* deployments of the ollama recipe, which pull after ready
    Faults,       \* what may go wrong outside the worker
    Sender,       \* when the control plane sends a command for an id: see CanSend
    MaxRestarts   \* bound on worker restarts

FaultKinds == {"pull", "spec", "removeByName", "create", "start", "ready",
               "ollama", "stop", "remove", "lostReply", "crash", "disconnect"}

\* plan.HostPort = 0 asks for a port; it also stands for the empty endpoint URL.
NoPort == 0
AllocRange == PortLo .. PortHi
Ports == AllocRange \cup FixedPorts

ASSUME PortAssumption ==
    /\ PortLo \in Nat \ {0} /\ PortHi \in Nat
    /\ FixedPorts \subseteq Nat \ {0}
ASSUME NilAssumption == Nil \notin Calls /\ Nil \notin Ids
ASSUME EnvAssumption ==
    /\ Faults \subseteq FaultKinds
    /\ Sender \in {"any", "redrive", "serial"}
    /\ OllamaIds \subseteq Ids
    /\ MaxRestarts \in Nat

VARIABLES
    deployments,  \* Runtime.deployments: id -> object
    \* the fields of the deployment objects
    state, containerID, endpointURL, init, prog,
    used,         \* PortAllocator.used
    conts,        \* docker: the container each call created
    image,        \* docker: the model image is in the local image store
    \* the calls: program counter and local variables
    pc, op, id, obj, port,
    cancelled,    \* the ctx of the call is cancelled
    lost,         \* history: containers docker kept behind the worker's back
    restarts

table   == <<deployments, state, containerID, endpointURL>>
docker  == <<conts, image>>
frame   == <<op, id, obj>>
env     == <<cancelled, restarts>>
vars == <<deployments, state, containerID, endpointURL, init, prog, used,
          conts, image, pc, op, id, obj, port, cancelled, lost, restarts>>

States     == {"absent", "pulling", "starting", "running", "stopping", "failed"}
ContStates == {"none", "created", "running", "exited"}
Progress   == {"open", "started", "failed"}

\* Labels before deployment.init is held, and while it is.
Waiting  == {"lock", "ulock"}
Holding  == {"endpoint", "current", "alloc", "setPulling", "pull", "clear",
             "create", "setCid", "setStarting", "start", "ready", "ollama",
             "rmImage", "publish", "setRunning", "cleanup", "setFailed", "drop",
             "stop", "remove", "udrop"}
Returned == {"ok", "err"}
Terminal == Returned \cup {"killed"}
InFlight(c) == pc[c] \in Waiting \cup Holding

TypeOK ==
    /\ deployments \in [Ids -> Calls \cup {Nil}]
    /\ state \in [Calls -> States]
    /\ containerID \in [Calls -> Calls \cup {Nil}]
    /\ endpointURL \in [Calls -> Ports \cup {NoPort}]
    /\ init \in [Calls -> Calls \cup {Nil}]
    /\ prog \in [Calls -> Progress]
    /\ used \in SUBSET AllocRange
    /\ conts \in [Calls -> ContStates]
    /\ image \in BOOLEAN
    /\ pc \in [Calls -> {"idle"} \cup Waiting \cup Holding \cup Terminal]
    /\ op \in [Calls -> {"none", "load", "unload"}]
    /\ id \in [Calls -> Ids \cup {Nil}]
    /\ obj \in [Calls -> Calls \cup {Nil}]
    /\ port \in [Calls -> Ports \cup {NoPort}]
    /\ cancelled \in SUBSET Calls
    /\ lost \in SUBSET Calls
    /\ restarts \in 0 .. MaxRestarts

-----------------------------------------------------------------------------
(* What a Runtime just built by New holds, on a host without containers. *)

Init ==
    /\ deployments = [i \in Ids |-> Nil]
    /\ state = [c \in Calls |-> "absent"]
    /\ containerID = [c \in Calls |-> Nil]
    /\ endpointURL = [c \in Calls |-> NoPort]
    /\ init = [c \in Calls |-> Nil]
    /\ prog = [c \in Calls |-> "open"]
    /\ used = {}
    /\ conts = [c \in Calls |-> "none"]
    /\ image = FALSE
    /\ pc = [c \in Calls |-> "idle"]
    /\ op = [c \in Calls |-> "none"]
    /\ id = [c \in Calls |-> Nil]
    /\ obj = [c \in Calls |-> Nil]
    /\ port = [c \in Calls |-> NoPort]
    /\ cancelled = {}
    /\ lost = {}
    /\ restarts = 0

-----------------------------------------------------------------------------
(* Accessors and mutators, each one section under Runtime.mu. *)

StatusOf(i) ==
    IF deployments[i] = Nil THEN "absent" ELSE state[deployments[i]]

EndpointURL(i) ==
    IF deployments[i] = Nil THEN NoPort ELSE endpointURL[deployments[i]]

ContainerForDeployment(i) ==
    IF deployments[i] = Nil THEN Nil ELSE containerID[deployments[i]]

\* The ids a heartbeat reports as loaded.
LoadedDeployments == {i \in Ids : StatusOf(i) = "running"}

\* setState and setContainerID find the object by id, not by pointer: they
\* write whatever object the table holds now, or none.
setState(i, s) ==
    state' = IF deployments[i] = Nil THEN state
             ELSE [state EXCEPT ![deployments[i]] = s]

setContainerID(i, cid) ==
    containerID' = IF deployments[i] = Nil THEN containerID
                   ELSE [containerID EXCEPT ![deployments[i]] = cid]

drop(i) == deployments' = [deployments EXCEPT ![i] = Nil]

\* Mutant: a failed load leaves its progress log open.
markStartedOnly(o, s) ==
    prog' = [prog EXCEPT ![o] = IF @ = "open" /\ s = "started" THEN s ELSE @]

\* progressLog.markContainerStarted and markFailed: only the first one counts.
mark(o, s) ==
    prog' = [prog EXCEPT ![o] = IF @ = "open" THEN s ELSE @]

-----------------------------------------------------------------------------
(* The Docker daemon, as the worker uses it. *)

\* A container's name is fixed by its deployment: inferia-<recipe>-<id>.
Named(i) == {b \in Calls : id[b] = i /\ conts[b] # "none"}

\* A started container owns its host port until it stops.
PortBound(c) == \E b \in Calls \ {c} : conts[b] = "running" /\ port[b] = port[c]

\* Something answers on the port the readiness probe asks.
Answers(p) == \E b \in Calls : conts[b] = "running" /\ port[b] = p

\* A call on a live ctx can succeed; it can fail when the daemon does, and
\* always fails, without being sent, once its ctx is cancelled.
Live(c) == c \notin cancelled
MayFail(c, f) == f \in Faults \/ ~Live(c)
\* The daemon acted, and the worker sees an error: the ctx expired or the
\* connection broke while the answer was on its way.
MayLose(c) == "lostReply" \in Faults /\ Live(c)

Goto(c, l) == pc' = [pc EXCEPT ![c] = l]

\* Mutant: an error return keeps the lock.
ReturnErrLocked(c, r) ==
    /\ Goto(c, r)
    /\ init' = IF r = "err" THEN init ELSE [init EXCEPT ![obj[c]] = Nil]

\* Returning runs the deferred init.Unlock.
Return(c, r) ==
    /\ Goto(c, r)
    /\ init' = [init EXCEPT ![obj[c]] = Nil]

-----------------------------------------------------------------------------
(* LoadModel *)

\* When the control plane sends a command for deployment i:
\*   serial    once every earlier command for i has come to its end;
\*   redrive   also when the earlier ones were cut off by a disconnect;
\*   any       at any time.
CanSend(i) ==
    LET earlier == {b \in Calls : id[b] = i /\ InFlight(b)}
    IN  CASE Sender = "serial"  -> earlier = {}
          [] Sender = "redrive" -> earlier \subseteq cancelled
          [] Sender = "any"     -> TRUE

\* LoadModel starts: getOrCreate.  p is the port the plan asks for.
LoadModel(c, i, p) ==
    /\ pc[c] = "idle"
    /\ CanSend(i)
    /\ op' = [op EXCEPT ![c] = "load"]
    /\ id' = [id EXCEPT ![c] = i]
    /\ port' = [port EXCEPT ![c] = p]
    /\ IF deployments[i] = Nil
       THEN /\ deployments' = [deployments EXCEPT ![i] = c]
            /\ obj' = [obj EXCEPT ![c] = c]
       ELSE /\ obj' = [obj EXCEPT ![c] = deployments[i]]
            /\ UNCHANGED deployments
    /\ Goto(c, "lock")
    /\ UNCHANGED <<state, containerID, endpointURL, init, prog, used, docker,
                   env, lost>>

\* Mutant: the state is not checked again under the lock.
LockLoadUnchecked(c) ==
    /\ pc[c] = "lock"
    /\ init[obj[c]] = Nil
    /\ init' = [init EXCEPT ![obj[c]] = c]
    /\ Goto(c, "alloc")
    /\ UNCHANGED <<table, prog, used, docker, frame, port, env, lost>>

\* init.Lock, then the state is checked again under it.
LockLoad(c) ==
    /\ pc[c] = "lock"
    /\ init[obj[c]] = Nil
    /\ init' = [init EXCEPT ![obj[c]] = c]
    /\ Goto(c, IF StatusOf(id[c]) = "running" THEN "endpoint" ELSE "alloc")
    /\ UNCHANGED <<table, prog, used, docker, frame, port, env, lost>>

CheckEndpoint(c) ==
    /\ pc[c] = "endpoint"
    /\ Goto(c, IF EndpointURL(id[c]) # NoPort THEN "current" ELSE "alloc")
    /\ UNCHANGED <<table, init, prog, used, docker, frame, port, env, lost>>

\* Already running: the third look at the table is the answer.
ReturnCurrent(c) ==
    /\ pc[c] = "current"
    /\ Return(c, "ok")
    /\ UNCHANGED <<table, prog, used, docker, frame, port, env, lost>>

\* Mutant: the allocator looks one port past the end of its range.
FreePortsPastEnd == (PortLo .. PortHi + 1) \ used

\* PortAllocator.Next: the smallest port of the range not in use.
FreePorts == AllocRange \ used

\* Mutant: the port handed out is not marked as used.
NextPortUnmarked(p) ==
    /\ p \in FreePorts
    /\ \A q \in FreePorts : p <= q
    /\ UNCHANGED used

NextPort(p) ==
    /\ p \in FreePorts
    /\ \A q \in FreePorts : p <= q
    /\ used' = used \cup {p}

AllocPort(c) ==
    /\ pc[c] = "alloc"
    /\ \/ /\ port[c] # NoPort
          /\ Goto(c, "setPulling")
          /\ UNCHANGED <<port, used, init>>
       \/ /\ port[c] = NoPort
          /\ \E p \in FreePorts :
                NextPort(p) /\ port' = [port EXCEPT ![c] = p]
          /\ Goto(c, "setPulling")
          /\ UNCHANGED init
       \/ /\ port[c] = NoPort
          /\ FreePorts = {}
          /\ Return(c, "err")
          /\ UNCHANGED <<port, used>>
    /\ UNCHANGED <<table, prog, docker, frame, env, lost>>

SetPulling(c) ==
    /\ pc[c] = "setPulling"
    /\ setState(id[c], "pulling")
    /\ Goto(c, "pull")
    /\ UNCHANGED <<deployments, containerID, endpointURL, init, prog, used,
                   docker, frame, port, env, lost>>

\* dockerEngine.Pull.  A progress stream that is cut short (an expired or
\* cancelled ctx) ends the pull without an error and without the image.
Pull(c) ==
    /\ pc[c] = "pull"
    /\ \/ /\ Live(c)
          /\ image' = TRUE
          /\ Goto(c, "clear")
          /\ UNCHANGED prog
       \/ /\ MayFail(c, "pull")
          /\ Goto(c, "clear")
          /\ UNCHANGED <<prog, image>>
       \/ /\ MayFail(c, "pull")
          /\ mark(obj[c], "failed")
          /\ Goto(c, "setFailed")
          /\ UNCHANGED image
    /\ UNCHANGED <<table, init, used, conts, frame, port, env, lost>>

\* BuildContainerSpec, then RemoveByName of what a dead attempt left behind.
ClearStale(c) ==
    /\ pc[c] = "clear"
    /\ \/ /\ Live(c)
          /\ conts' = [b \in Calls |->
                         IF b \in Named(id[c]) THEN "none" ELSE conts[b]]
          /\ Goto(c, "create")
          /\ UNCHANGED prog
       \/ /\ MayFail(c, "removeByName")
          /\ Goto(c, "create")
          /\ UNCHANGED <<prog, conts>>
       \/ /\ "spec" \in Faults
          /\ mark(obj[c], "failed")
          /\ Goto(c, "setFailed")
          /\ UNCHANGED conts
    /\ UNCHANGED <<table, init, used, image, frame, port, env, lost>>

\* The daemon refuses a name that is taken and an image that is not there.
Create(c) ==
    /\ pc[c] = "create"
    /\ \/ /\ Live(c)
          /\ Named(id[c]) = {} /\ image
          /\ conts' = [conts EXCEPT ![c] = "created"]
          /\ Goto(c, "setCid")
          /\ UNCHANGED <<prog, lost>>
       \/ /\ MayFail(c, "create") \/ Named(id[c]) # {} \/ ~image
          /\ mark(obj[c], "failed")
          /\ Goto(c, "setFailed")
          /\ UNCHANGED <<conts, lost>>
       \/ /\ MayLose(c)
          /\ Named(id[c]) = {} /\ image
          /\ conts' = [conts EXCEPT ![c] = "created"]
          /\ lost' = lost \cup {c}
          /\ mark(obj[c], "failed")
          /\ Goto(c, "setFailed")
    /\ UNCHANGED <<table, init, used, image, frame, port, env>>

SetContainerID(c) ==
    /\ pc[c] = "setCid"
    /\ setContainerID(id[c], c)
    /\ Goto(c, "setStarting")
    /\ UNCHANGED <<deployments, state, endpointURL, init, prog, used, docker,
                   frame, port, env, lost>>

SetStarting(c) ==
    /\ pc[c] = "setStarting"
    /\ setState(id[c], "starting")
    /\ Goto(c, "start")
    /\ UNCHANGED <<deployments, containerID, endpointURL, init, prog, used,
                   docker, frame, port, env, lost>>

\* Mutant: a container that did not start is not removed.
StartWithoutCleanup(c) ==
    /\ pc[c] = "start"
    /\ \/ /\ Live(c)
          /\ conts[c] = "created" /\ ~PortBound(c)
          /\ conts' = [conts EXCEPT ![c] = "running"]
          /\ mark(obj[c], "started")
          /\ Goto(c, "ready")
       \/ /\ MayFail(c, "start") \/ conts[c] # "created" \/ PortBound(c)
          /\ Goto(c, "setFailed")
          /\ mark(obj[c], "failed")
          /\ UNCHANGED conts
    /\ UNCHANGED <<table, init, used, image, frame, port, env, lost>>

\* A host port that another container holds fails the start.
Start(c) ==
    /\ pc[c] = "start"
    /\ \/ /\ Live(c)
          /\ conts[c] = "created" /\ ~PortBound(c)
          /\ conts' = [conts EXCEPT ![c] = "running"]
          /\ mark(obj[c], "started")
          /\ Goto(c, "ready")
       \/ /\ MayFail(c, "start") \/ conts[c] # "created" \/ PortBound(c)
          /\ Goto(c, "cleanup")
          /\ UNCHANGED <<prog, conts>>
       \/ /\ MayLose(c)
          /\ conts[c] = "created" /\ ~PortBound(c)
          /\ conts' = [conts EXCEPT ![c] = "running"]
          /\ Goto(c, "cleanup")
          /\ UNCHANGED prog
    /\ UNCHANGED <<table, init, used, image, frame, port, env, lost>>

\* waitReady probes before it looks at the ctx: a cancelled call may pass.
WaitReady(c) ==
    /\ pc[c] = "ready"
    /\ \/ Answers(port[c]) /\ Goto(c, "ollama")
       \/ (MayFail(c, "ready") \/ ~Answers(port[c])) /\ Goto(c, "cleanup")
    /\ UNCHANGED <<table, init, prog, used, docker, frame, port, env, lost>>

OllamaPullIfNeeded(c) ==
    /\ pc[c] = "ollama"
    /\ \/ /\ id[c] \in OllamaIds => Live(c) /\ Answers(port[c])
          /\ Goto(c, "rmImage")
       \/ /\ id[c] \in OllamaIds
          /\ MayFail(c, "ollama") \/ ~Answers(port[c])
          /\ Goto(c, "cleanup")
    /\ UNCHANGED <<table, init, prog, used, docker, frame, port, env, lost>>

\* The answer is ignored; the daemon may keep an image it considers in use.
RemoveImage(c) ==
    /\ pc[c] = "rmImage"
    /\ image' \in IF Live(c) THEN {FALSE, image} ELSE {image}
    /\ Goto(c, "publish")
    /\ UNCHANGED <<table, init, prog, used, conts, frame, port, env, lost>>

\* Mutant: an object that was published before keeps its old endpoint.
PublishOnce(c) ==
    /\ pc[c] = "publish"
    /\ containerID' = [containerID EXCEPT ![obj[c]] = c]
    /\ endpointURL' = [endpointURL EXCEPT ![obj[c]] =
                         IF @ = NoPort THEN port[c] ELSE @]
    /\ Goto(c, "setRunning")
    /\ UNCHANGED <<deployments, state, init, prog, used, docker, frame, port,
                   env, lost>>

\* The fields are written through the pointer, not through the table.
Publish(c) ==
    /\ pc[c] = "publish"
    /\ containerID' = [containerID EXCEPT ![obj[c]] = c]
    /\ endpointURL' = [endpointURL EXCEPT ![obj[c]] = port[c]]
    /\ Goto(c, "setRunning")
    /\ UNCHANGED <<deployments, state, init, prog, used, docker, frame, port,
                   env, lost>>

SetRunning(c) ==
    /\ pc[c] = "setRunning"
    /\ setState(id[c], "running")
    /\ Return(c, "ok")
    /\ UNCHANGED <<deployments, containerID, endpointURL, prog, used, docker,
                   frame, port, env, lost>>

\* Mutant: the cleanup runs under the ctx of the call.
CleanupOnRequestCtx(c) ==
    /\ pc[c] = "cleanup"
    /\ conts' = [conts EXCEPT ![c] = IF Live(c) THEN "none" ELSE @]
    /\ mark(obj[c], "failed")
    /\ Goto(c, "setFailed")
    /\ UNCHANGED <<table, init, used, image, frame, port, env, lost>>

\* Stop and Remove of the call's own container under a cleanupCtx, which a
\* cancelled call does not cancel; their errors are ignored.  markFailed comes
\* after them; a load that failed later than Start was marked started before.
Cleanup(c) ==
    /\ pc[c] = "cleanup"
    /\ \/ /\ conts' = [conts EXCEPT ![c] = "none"]
          /\ UNCHANGED lost
       \/ /\ "remove" \in Faults /\ conts[c] # "none"
          /\ \E s \in {conts[c], IF conts[c] = "running" THEN "exited" ELSE conts[c]} :
                conts' = [conts EXCEPT ![c] = s]
          /\ lost' = lost \cup {c}
    /\ mark(obj[c], "failed")
    /\ Goto(c, "setFailed")
    /\ UNCHANGED <<table, init, used, image, frame, port, env>>

SetFailed(c) ==
    /\ pc[c] = "setFailed"
    /\ setState(id[c], "failed")
    /\ Goto(c, "drop")
    /\ UNCHANGED <<deployments, containerID, endpointURL, init, prog, used,
                   docker, frame, port, env, lost>>

DropFailed(c) ==
    /\ pc[c] = "drop"
    /\ drop(id[c])
    /\ Return(c, "err")
    /\ UNCHANGED <<state, containerID, endpointURL, prog, used, docker, frame,
                   port, env, lost>>

-----------------------------------------------------------------------------
(* UnloadModel *)

UnloadModel(c, i) ==
    /\ pc[c] = "idle"
    /\ CanSend(i)
    /\ op' = [op EXCEPT ![c] = "unload"]
    /\ id' = [id EXCEPT ![c] = i]
    /\ obj' = [obj EXCEPT ![c] = deployments[i]]
    /\ Goto(c, IF deployments[i] = Nil THEN "ok" ELSE "ulock")
    /\ UNCHANGED <<table, init, prog, used, docker, port, env, lost>>

\* Mutant: the deployment stays in state running while it is stopped.
LockUnloadStillRunning(c) ==
    /\ pc[c] = "ulock"
    /\ init[obj[c]] = Nil
    /\ init' = [init EXCEPT ![obj[c]] = c]
    /\ Goto(c, "stop")
    /\ UNCHANGED <<table, prog, used, docker, frame, port, env, lost>>

LockUnload(c) ==
    /\ pc[c] = "ulock"
    /\ init[obj[c]] = Nil
    /\ init' = [init EXCEPT ![obj[c]] = c]
    /\ setState(id[c], "stopping")
    /\ Goto(c, "stop")
    /\ UNCHANGED <<deployments, containerID, endpointURL, prog, used, docker,
                   frame, port, env, lost>>

\* d.containerID is read afresh for each docker call.
StopContainer(c) ==
    LET cid == containerID[obj[c]] IN
    /\ pc[c] = "stop"
    /\ \/ /\ cid = Nil
          /\ Goto(c, "udrop")
          /\ UNCHANGED <<conts, init>>
       \/ /\ cid # Nil /\ Live(c) /\ conts[cid] # "none"
          /\ conts' = [conts EXCEPT ![cid] =
                         IF @ = "running" THEN "exited" ELSE @]
          /\ Goto(c, "remove")
          /\ UNCHANGED init
       \/ /\ cid # Nil
          /\ MayFail(c, "stop") \/ conts[cid] = "none"
          /\ Return(c, "err")
          /\ UNCHANGED conts
       \/ /\ cid # Nil /\ MayLose(c) /\ conts[cid] = "running"
          /\ conts' = [conts EXCEPT ![cid] = "exited"]
          /\ Return(c, "err")
    /\ UNCHANGED <<table, prog, used, image, frame, port, env, lost>>

RemoveContainer(c) ==
    LET cid == containerID[obj[c]] IN
    /\ pc[c] = "remove"
    /\ \/ /\ Live(c) /\ conts[cid] # "none"
          /\ conts' = [conts EXCEPT ![cid] = "none"]
          /\ Goto(c, "udrop")
          /\ UNCHANGED init
       \/ /\ MayFail(c, "remove") \/ conts[cid] = "none"
          /\ Return(c, "err")
          /\ UNCHANGED conts
       \/ /\ MayLose(c) /\ conts[cid] # "none"
          /\ conts' = [conts EXCEPT ![cid] = "none"]
          /\ Return(c, "err")
    /\ UNCHANGED <<table, prog, used, image, frame, port, env, lost>>

DropUnloaded(c) ==
    /\ pc[c] = "udrop"
    /\ drop(id[c])
    /\ Return(c, "ok")
    /\ UNCHANGED <<state, containerID, endpointURL, prog, used, docker, frame,
                   port, env, lost>>

-----------------------------------------------------------------------------
(* What happens around the calls *)

\* The control channel breaks, or the worker is told to stop: connectOnce
\* cancels the ctx of every handler it started.
Disconnect ==
    /\ "disconnect" \in Faults
    /\ {c \in Calls : InFlight(c)} \ cancelled # {}
    /\ cancelled' = cancelled \cup {c \in Calls : InFlight(c)}
    /\ UNCHANGED <<table, init, prog, used, docker, pc, frame, port, lost,
                   restarts>>

\* The model server exits; RestartPolicy is "no".
ContainerExits(c) ==
    /\ "crash" \in Faults
    /\ conts[c] = "running"
    /\ conts' = [conts EXCEPT ![c] = "exited"]
    /\ UNCHANGED <<table, init, prog, used, image, pc, frame, port, env, lost>>

\* The worker process dies and comes back: the table, the objects and the
\* ports in use are memory, the containers are not.
Restart ==
    /\ restarts < MaxRestarts
    /\ restarts' = restarts + 1
    /\ deployments' = [i \in Ids |-> Nil]
    /\ init' = [c \in Calls |-> Nil]
    /\ used' = {}
    /\ pc' = [c \in Calls |-> IF InFlight(c) THEN "killed" ELSE pc[c]]
    /\ lost' = lost \cup {c \in Calls : conts[c] # "none"}
    /\ UNCHANGED <<state, containerID, endpointURL, prog, docker, frame, port,
                   cancelled>>

-----------------------------------------------------------------------------

LoadStep(c) ==
    \/ LockLoad(c) \/ CheckEndpoint(c) \/ ReturnCurrent(c) \/ AllocPort(c)
    \/ SetPulling(c) \/ Pull(c) \/ ClearStale(c) \/ Create(c)
    \/ SetContainerID(c) \/ SetStarting(c) \/ Start(c) \/ WaitReady(c)
    \/ OllamaPullIfNeeded(c) \/ RemoveImage(c) \/ Publish(c) \/ SetRunning(c)
    \/ Cleanup(c) \/ SetFailed(c) \/ DropFailed(c)

UnloadStep(c) ==
    LockUnload(c) \/ StopContainer(c) \/ RemoveContainer(c) \/ DropUnloaded(c)

Step(c) == LoadStep(c) \/ UnloadStep(c)

Next ==
    \/ \E c \in Calls, i \in Ids :
          \/ \E p \in FixedPorts \cup {NoPort} : LoadModel(c, i, p)
          \/ UnloadModel(c, i)
    \/ \E c \in Calls : Step(c) \/ ContainerExits(c)
    \/ Disconnect
    \/ Restart

Spec == Init /\ [][Next]_vars

\* Every docker call, probe and lock a handler waits for comes to an end.
FairSpec == Spec /\ \A c \in Calls : WF_vars(Step(c))

-----------------------------------------------------------------------------
(* Properties that hold whatever the control plane does. *)

\* A LoadModel that returns an error has no container left: the failure paths
\* of runtime.go run their Stop and Remove under cleanupCtx, so a cancelled
\* call cleans up too.  What remains is what docker was never able to remove,
\* or made without the worker learning of it.
FailedLoadLeavesNothing ==
    \A c \in Calls :
        op[c] = "load" /\ pc[c] = "err" /\ c \notin lost => conts[c] = "none"

\* Two deployments never publish one endpoint, unless their commands asked
\* for the port by number: a port the allocator has handed out is not handed
\* out again, not even when its container has stopped but its table entry has
\* survived a failed UnloadModel.
EndpointsDistinct ==
    \A i, j \in Ids :
        i # j /\ EndpointURL(i) = EndpointURL(j)
            => EndpointURL(i) \in FixedPorts \cup {NoPort}

\* Every command is answered, or its worker dies: the locks of LoadModel and
\* UnloadModel are released on every path out of them.
EveryCallReturns ==
    \A c \in Calls : InFlight(c) ~> pc[c] \in Terminal

-----------------------------------------------------------------------------
(* Properties that need the control plane to wait. *)

Busy(i) == \E c \in Calls : id[c] = i /\ InFlight(c)

\* What the heartbeat reports as loaded has a container of its own, that the
\* table knows and that was started on the port the proxy sends requests to.
LoadedIsBacked ==
    \A i \in LoadedDeployments :
        LET cid == ContainerForDeployment(i) IN
        /\ cid # Nil
        /\ id[cid] = i
        /\ conts[cid] \in {"running", "exited"}
        /\ EndpointURL(i) = port[cid]

\* Once no command for a deployment is at work, its containers are the one in
\* the table and those docker kept behind the worker's back.  An UnloadModel
\* that failed is excepted: the next LoadModel that fails drops its entry,
\* and the UnloadModel after that finds nothing to remove.
UnloadFailed(i) == \E c \in Calls : id[c] = i /\ op[c] = "unload" /\ pc[c] = "err"

NothingUntracked ==
    \A i \in Ids :
        ~Busy(i) /\ ~UnloadFailed(i)
            => Named(i) \subseteq {ContainerForDeployment(i)} \cup lost

\* A running deployment leaves that state by an UnloadModel, or with the
\* worker; in particular a repeated LoadModel never restarts it.
RunningOnlyStops ==
    [][\A i \in Ids :
          StatusOf(i) = "running" =>
             StatusOf(i)' \in {"running", "stopping"} \/ restarts' # restarts]_vars

\* A LoadModel that has returned has ended its progress log, so a follower of
\* the log is not left waiting for a load that is over.  The one exception is
\* the load that finds no free port: it returns without markFailed.
ProgressEnds ==
    \A c \in Calls :
        /\ op[c] = "load" /\ pc[c] \in Returned
        /\ ~(pc[c] = "err" /\ port[c] = NoPort)
        => prog[obj[c]] # "open"

\* The abstract service, and the worker's state seen through it.
phaseOf == [c \in Calls |-> IF InFlight(c) THEN "pending" ELSE pc[c]]
Service == INSTANCE ModelService WITH
              serving <- LoadedDeployments, phase <- phaseOf

\* The answers given to the control plane mean what ModelService says.
ImplementsService == Service!SSpec

-----------------------------------------------------------------------------
(* What a comment of the repository claims, and the code does not do. *)

\* "so a re-drive (or retry) always recreates cleanly": a load that returned
\* without an error, of a deployment nobody unloads, is loaded.
LoadOkIsLoaded ==
    \A c \in Calls :
        /\ op[c] = "load" /\ pc[c] = "ok"
        /\ ~Busy(id[c])
        /\ \A b \in Calls : id[b] = id[c] => op[b] = "load"
        => id[c] \in LoadedDeployments

=============================================================================
