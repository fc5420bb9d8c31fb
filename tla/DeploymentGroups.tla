-------------------------- MODULE DeploymentGroups --------------------------
(***************************************************************************)
(* Disaggregated (prefill/decode) deployments: what Dispatcher.LoadModel   *)
(* and Dispatcher.UnloadModel do for them through                          *)
(* Runtime.LoadDeploymentGroup and Runtime.UnloadDeploymentGroup to the    *)
(* GPU leases, the group table, the proxy's registry and the Docker        *)
(* daemon.  No lock is held across a command, and the group path never     *)
(* clears a container name before it creates.                              *)
(*                                                                         *)
(* Grain.  One action is one section under Runtime.mu or the registry's    *)
(* lock, or one docker call.  The Stop and Remove of one container, whose  *)
(* errors are both ignored, are one action, and so are the Allocate calls  *)
(* for the two roles and the Release calls that undo them.                 *)
(*                                                                         *)
(* A load makes at most one group, and a group has one container for each  *)
(* replica, so a group is named by its call and a container by its call    *)
(* and its replica.  A deployment keeps its recipe, on which the names of  *)
(* its containers depend.                                                  *)
(***************************************************************************)
EXTENDS Integers, FiniteSets

CONSTANTS
    Calls,            \* the LoadModel and UnloadModel commands
    Ids,              \* deployment ids
    Nil,              \* no group
    PrefillReplicas,  \* len(plan.Prefill)
    DecodeReplicas,   \* len(plan.Decode)
    PrefillPorts,     \* the ranges of the two allocators
    DecodePorts,
    Faults,           \* what may go wrong outside the worker
    Sender,           \* "serial" or "any": see CanSend
    MaxRestarts       \* bound on worker restarts

FaultKinds == {"body", "plan", "pull", "create", "start", "ready", "remove",
               "lostReply", "crash", "disconnect"}

Replicas == PrefillReplicas + DecodeReplicas
Slots == 1 .. Replicas
NoPort == 0
Roles == {"prefill", "decode"}
RoleOf(s) == IF s <= PrefillReplicas THEN "prefill" ELSE "decode"

\* BuildDeploymentPlan raises both replica counts to at least one.
ASSUME ReplicaAssumption ==
    PrefillReplicas \in Nat \ {0} /\ DecodeReplicas \in Nat \ {0}
\* New's default ranges are 19000 .. 19499 and 19500 .. 19999.
ASSUME GroupPortAssumption ==
    /\ PrefillPorts \subseteq Nat \ {0} /\ DecodePorts \subseteq Nat \ {0}
    /\ PrefillPorts \cap DecodePorts = {}
ASSUME GroupEnvAssumption ==
    /\ Nil \notin Calls /\ Nil \notin Ids
    /\ Faults \subseteq FaultKinds
    /\ Sender \in {"serial", "any"}
    /\ MaxRestarts \in Nat

VARIABLES
    groups,      \* Runtime.groups: id -> group
    registry,    \* DeploymentRegistry.byID: id -> group
    leases,      \* ids whose /prefill and /decode keys GPUAllocator holds
    used,        \* PortAllocator.used of the two allocators, one per role
    conts,       \* docker: the container of each call and replica
    ports,       \* docker: the host port that container was created with
    image,       \* docker: the model image is in the local image store
    pc, op, id,  \* the commands
    launched,    \* replicas of its group a load has launched
    undone,      \* loop index of a rollback or teardown
    target,      \* the group an unload took out of the table
    cancelled,   \* commands whose ctx is cancelled
    lost,        \* history: groups of which docker would not remove a container
    restarts

vars == <<groups, registry, leases, used, conts, ports, image, pc, op, id,
          launched, undone, target, cancelled, lost, restarts>>
tables == <<groups, registry, leases>>
docker == <<conts, ports, image>>
frame  == <<op, id>>
loop   == <<launched, undone, target>>
env    == <<cancelled, restarts>>

LoadLabels   == {"plan", "pull", "alloc", "create", "start", "ready", "cleanup",
                 "rollback", "rmImage", "publish", "register"}
UnloadLabels == {"release", "take", "teardown"}
Terminal == {"ok", "err", "killed"}
InFlight(c) == pc[c] \in LoadLabels \cup UnloadLabels

TypeOK ==
    /\ groups \in [Ids -> Calls \cup {Nil}]
    /\ registry \in [Ids -> Calls \cup {Nil}]
    /\ leases \in SUBSET Ids
    /\ used \in [Roles -> SUBSET (PrefillPorts \cup DecodePorts)]
    /\ conts \in [Calls -> [Slots -> {"none", "created", "running", "exited"}]]
    /\ ports \in [Calls -> [Slots -> PrefillPorts \cup DecodePorts \cup {NoPort}]]
    /\ image \in BOOLEAN
    /\ pc \in [Calls -> {"idle"} \cup LoadLabels \cup UnloadLabels \cup Terminal]
    /\ op \in [Calls -> {"none", "load", "unload"}]
    /\ id \in [Calls -> Ids \cup {Nil}]
    /\ launched \in [Calls -> 0 .. Replicas]
    /\ undone \in [Calls -> 0 .. Replicas]
    /\ target \in [Calls -> Calls \cup {Nil}]
    /\ cancelled \in SUBSET Calls
    /\ lost \in SUBSET Calls
    /\ restarts \in 0 .. MaxRestarts

Init ==
    /\ groups = [i \in Ids |-> Nil]
    /\ registry = [i \in Ids |-> Nil]
    /\ leases = {}
    /\ used = [r \in Roles |-> {}]
    /\ conts = [c \in Calls |-> [s \in Slots |-> "none"]]
    /\ ports = [c \in Calls |-> [s \in Slots |-> NoPort]]
    /\ image = FALSE
    /\ pc = [c \in Calls |-> "idle"]
    /\ op = [c \in Calls |-> "none"]
    /\ id = [c \in Calls |-> Nil]
    /\ launched = [c \in Calls |-> 0]
    /\ undone = [c \in Calls |-> 0]
    /\ target = [c \in Calls |-> Nil]
    /\ cancelled = {}
    /\ lost = {}
    /\ restarts = 0

-----------------------------------------------------------------------------
(* The Docker daemon, as the worker uses it. *)

\* Mutant: every attempt gives its containers fresh names.
NameTakenNever(i, s) == FALSE

\* A container's name is made of its deployment, its role and its index.
NameTaken(i, s) == \E b \in Calls : id[b] = i /\ conts[b][s] # "none"

PortBound(c, s) ==
    \E b \in Calls, t \in Slots :
        <<b, t>> # <<c, s>> /\ conts[b][t] = "running" /\ ports[b][t] = ports[c][s]

Live(c) == c \notin cancelled
MayFail(c, f) == f \in Faults \/ ~Live(c)

Goto(c, l) == pc' = [pc EXCEPT ![c] = l]
SetCont(c, s, v) == conts' = [conts EXCEPT ![c][s] = v]

MayLose(c) == "lostReply" \in Faults /\ Live(c)

\* Stop, then Remove (forced), of the container of group g in slot s, on a ctx
\* that is alive or not.
Discard(g, s, alive) ==
    \/ /\ alive
       /\ SetCont(g, s, "none")
       /\ UNCHANGED lost
    \/ /\ ~alive
       /\ UNCHANGED <<conts, lost>>
    \/ /\ alive /\ "remove" \in Faults
       /\ conts[g][s] # "none"
       /\ \/ UNCHANGED conts
          \/ conts[g][s] = "running" /\ SetCont(g, s, "exited")
       /\ lost' = lost \cup {g}

-----------------------------------------------------------------------------
(* LoadModel with PrefillReplicas > 0 *)

\* The control plane sends a command for a deployment when it has seen the
\* previous one end ("serial"), or at any time ("any").
CanSend(i) ==
    Sender = "serial" => ~\E b \in Calls : id[b] = i /\ InFlight(b)

\* The GPUs of both roles are leased before the plan is built.  A body that
\* names an unknown recipe or GPU is refused; one without GPUs, on a host that
\* has none, leases nothing and is refused by the plan.
LoadModel(c, i) ==
    /\ pc[c] = "idle"
    /\ CanSend(i)
    /\ op' = [op EXCEPT ![c] = "load"]
    /\ id' = [id EXCEPT ![c] = i]
    /\ \/ Goto(c, "plan") /\ leases' = leases \cup {i}
       \/ "body" \in Faults /\ Goto(c, "err") /\ UNCHANGED leases
    /\ UNCHANGED <<groups, registry, used, docker, loop, env, lost>>

BuildDeploymentPlan(c) ==
    /\ pc[c] = "plan"
    /\ \/ Goto(c, "pull")
       \/ "plan" \in Faults /\ Goto(c, "err")
    /\ UNCHANGED <<tables, used, docker, frame, loop, env, lost>>

\* Pull without a progress callback: a stream cut short is an error.
PullGroup(c) ==
    /\ pc[c] = "pull"
    /\ \/ /\ Live(c)
          /\ image' = TRUE
          /\ Goto(c, "alloc")
       \/ /\ MayFail(c, "pull")
          /\ Goto(c, "err")
          /\ UNCHANGED image
    /\ UNCHANGED <<tables, used, conts, ports, frame, loop, env, lost>>

\* Prefill replicas come first, each role with an allocator of its own; a
\* port is never given back.  An exhausted range rolls back.
RangeOf(r) == IF r = "prefill" THEN PrefillPorts ELSE DecodePorts

\* Mutant: one port past the end of the range.
FreePortsPastEnd(r) == (RangeOf(r) \cup {p + 1 : p \in RangeOf(r)}) \ used[r]

FreePorts(r) == RangeOf(r) \ used[r]

AllocPort(c) ==
    LET s == launched[c] + 1
        r == RoleOf(s) IN
    /\ pc[c] = "alloc"
    /\ \/ \E p \in FreePorts(r) :
             /\ \A q \in FreePorts(r) : p <= q
             /\ used' = [used EXCEPT ![r] = @ \cup {p}]
             /\ ports' = [ports EXCEPT ![c][s] = p]
             /\ Goto(c, "create")
       \/ /\ FreePorts(r) = {}
          /\ Goto(c, "rollback")
          /\ UNCHANGED <<used, ports>>
    /\ UNCHANGED <<tables, conts, image, frame, loop, env, lost>>

\* createAndStartContainer for the next replica.
CreateReplica(c) ==
    LET s == launched[c] + 1 IN
    /\ pc[c] = "create"
    /\ \/ /\ Live(c)
          /\ ~NameTaken(id[c], s) /\ image
          /\ SetCont(c, s, "created")
          /\ Goto(c, "start")
          /\ UNCHANGED lost
       \/ /\ MayFail(c, "create") \/ NameTaken(id[c], s) \/ ~image
          /\ Goto(c, "rollback")
          /\ UNCHANGED <<conts, lost>>
       \/ /\ MayLose(c)
          /\ ~NameTaken(id[c], s) /\ image
          /\ SetCont(c, s, "created")
          /\ Goto(c, "rollback")
          /\ lost' = lost \cup {c}
    /\ UNCHANGED <<tables, used, ports, image, frame, loop, env>>

StartReplica(c) ==
    LET s == launched[c] + 1 IN
    /\ pc[c] = "start"
    /\ \/ /\ Live(c) /\ ~PortBound(c, s)
          /\ SetCont(c, s, "running")
          /\ Goto(c, "ready")
       \/ /\ MayFail(c, "start") \/ PortBound(c, s)
          /\ Goto(c, "cleanup")
          /\ UNCHANGED conts
       \/ /\ MayLose(c) /\ ~PortBound(c, s)
          /\ SetCont(c, s, "running")
          /\ Goto(c, "cleanup")
    /\ UNCHANGED <<tables, used, ports, image, frame, loop, env, lost>>

\* The probe runs before the ctx is looked at.  A replica that is ready is
\* entered in the group, and the loop goes on or the image is removed.
WaitReady(c) ==
    LET s == launched[c] + 1 IN
    /\ pc[c] = "ready"
    /\ \/ /\ conts[c][s] = "running"
          /\ launched' = [launched EXCEPT ![c] = s]
          /\ Goto(c, IF s = Replicas THEN "rmImage" ELSE "alloc")
       \/ /\ MayFail(c, "ready") \/ conts[c][s] # "running"
          /\ Goto(c, "cleanup")
          /\ UNCHANGED launched
    /\ UNCHANGED <<tables, used, docker, frame, undone, target, env, lost>>

\* The replica that failed is discarded under a cleanupCtx,
CleanupReplica(c) ==
    /\ pc[c] = "cleanup"
    /\ Discard(c, launched[c] + 1, TRUE)
    /\ Goto(c, "rollback")
    /\ UNCHANGED <<tables, used, ports, image, frame, loop, env>>

\* Mutant: the last replica launched is not rolled back.
RollbackButLast(c) ==
    /\ pc[c] = "rollback"
    /\ IF undone[c] + 1 >= launched[c]
       THEN Goto(c, "err") /\ UNCHANGED <<conts, undone, lost>>
       ELSE /\ Discard(c, undone[c] + 1, Live(c))
            /\ undone' = [undone EXCEPT ![c] = @ + 1]
            /\ UNCHANGED pc
    /\ UNCHANGED <<tables, used, ports, image, frame, launched, target, env>>

\* those before it under the ctx of the command.
Rollback(c) ==
    /\ pc[c] = "rollback"
    /\ IF undone[c] = launched[c]
       THEN Goto(c, "err") /\ UNCHANGED <<conts, undone, lost>>
       ELSE /\ Discard(c, undone[c] + 1, Live(c))
            /\ undone' = [undone EXCEPT ![c] = @ + 1]
            /\ UNCHANGED pc
    /\ UNCHANGED <<tables, used, ports, image, frame, launched, target, env>>

RemoveImage(c) ==
    /\ pc[c] = "rmImage"
    /\ image' \in IF Live(c) THEN {FALSE, image} ELSE {image}
    /\ Goto(c, "publish")
    /\ UNCHANGED <<tables, used, conts, ports, frame, loop, env, lost>>

PublishGroup(c) ==
    /\ pc[c] = "publish"
    /\ groups' = [groups EXCEPT ![id[c]] = c]
    /\ Goto(c, "register")
    /\ UNCHANGED <<registry, leases, used, docker, frame, loop, env, lost>>

RegisterDisagg(c) ==
    /\ pc[c] = "register"
    /\ registry' = [registry EXCEPT ![id[c]] = c]
    /\ Goto(c, "ok")
    /\ UNCHANGED <<groups, leases, used, docker, frame, loop, env, lost>>

-----------------------------------------------------------------------------
(* UnloadModel: Deregister, Release, UnloadDeploymentGroup.  The call of     *)
(* Runtime.UnloadModel that follows finds no single deployment of this id.   *)

UnloadModel(c, i) ==
    /\ pc[c] = "idle"
    /\ CanSend(i)
    /\ op' = [op EXCEPT ![c] = "unload"]
    /\ id' = [id EXCEPT ![c] = i]
    /\ registry' = [registry EXCEPT ![i] = Nil]
    /\ Goto(c, "release")
    /\ UNCHANGED <<groups, leases, used, docker, loop, env, lost>>

ReleaseLeases(c) ==
    /\ pc[c] = "release"
    /\ leases' = leases \ {id[c]}
    /\ Goto(c, "take")
    /\ UNCHANGED <<groups, registry, used, docker, frame, loop, env, lost>>

\* Mutant: the group stays in the table while it is torn down.
TakeGroupKeep(c) ==
    /\ pc[c] = "take"
    /\ target' = [target EXCEPT ![c] = groups[id[c]]]
    /\ Goto(c, IF groups[id[c]] = Nil THEN "ok" ELSE "teardown")
    /\ UNCHANGED <<tables, used, docker, frame, launched, undone, env, lost>>

\* The entry is deleted before any container is stopped.
TakeGroup(c) ==
    /\ pc[c] = "take"
    /\ target' = [target EXCEPT ![c] = groups[id[c]]]
    /\ groups' = [groups EXCEPT ![id[c]] = Nil]
    /\ Goto(c, IF groups[id[c]] = Nil THEN "ok" ELSE "teardown")
    /\ UNCHANGED <<registry, leases, used, docker, frame, launched, undone, env,
                   lost>>

\* The answer is "ok" whatever docker said.
TeardownReplica(c) ==
    /\ pc[c] = "teardown"
    /\ IF undone[c] = Replicas
       THEN Goto(c, "ok") /\ UNCHANGED <<conts, undone, lost>>
       ELSE /\ Discard(target[c], undone[c] + 1, Live(c))
            /\ undone' = [undone EXCEPT ![c] = @ + 1]
            /\ UNCHANGED pc
    /\ UNCHANGED <<tables, used, ports, image, frame, launched, target, env>>

-----------------------------------------------------------------------------
(* What happens around the commands *)

Disconnect ==
    /\ "disconnect" \in Faults
    /\ {c \in Calls : InFlight(c)} \ cancelled # {}
    /\ cancelled' = cancelled \cup {c \in Calls : InFlight(c)}
    /\ UNCHANGED <<tables, used, docker, pc, frame, loop, lost, restarts>>

ContainerExits(c, s) ==
    /\ "crash" \in Faults
    /\ conts[c][s] = "running"
    /\ SetCont(c, s, "exited")
    /\ UNCHANGED <<tables, used, ports, image, pc, frame, loop, env, lost>>

Restart ==
    /\ restarts < MaxRestarts
    /\ restarts' = restarts + 1
    /\ groups' = [i \in Ids |-> Nil]
    /\ registry' = [i \in Ids |-> Nil]
    /\ leases' = {}
    /\ used' = [r \in Roles |-> {}]
    /\ pc' = [c \in Calls |-> IF InFlight(c) THEN "killed" ELSE pc[c]]
    /\ UNCHANGED <<docker, frame, loop, cancelled, lost>>

-----------------------------------------------------------------------------

LoadStep(c) ==
    \/ BuildDeploymentPlan(c) \/ PullGroup(c) \/ AllocPort(c) \/ CreateReplica(c)
    \/ StartReplica(c) \/ WaitReady(c) \/ CleanupReplica(c) \/ Rollback(c)
    \/ RemoveImage(c) \/ PublishGroup(c) \/ RegisterDisagg(c)

UnloadStep(c) == ReleaseLeases(c) \/ TakeGroup(c) \/ TeardownReplica(c)

Next ==
    \/ \E c \in Calls, i \in Ids : LoadModel(c, i) \/ UnloadModel(c, i)
    \/ \E c \in Calls : LoadStep(c) \/ UnloadStep(c)
    \/ \E c \in Calls, s \in Slots : ContainerExits(c, s)
    \/ Disconnect
    \/ Restart

Spec == Init /\ [][Next]_vars

-----------------------------------------------------------------------------
(* Properties *)

Exists(g, s) == conts[g][s] # "none"

\* Every group in Runtime.groups has all of its containers, however commands
\* overlap: LoadDeploymentGroup enters it after the last replica is ready, and
\* UnloadDeploymentGroup deletes it before the first one is stopped.
GroupIsWhole ==
    \A i \in Ids :
        groups[i] # Nil =>
            id[groups[i]] = i /\ \A s \in Slots : Exists(groups[i], s)

\* A load never replaces a group that is in the table, which would leave the
\* containers of the old one with no owner.  Nothing in the worker prevents
\* it: only the container names, which docker keeps unique, do.
NeverReplaced ==
    [][\A i \in Ids :
          groups[i] # Nil => groups'[i] \in {groups[i], Nil}]_vars

\* A load that fails on a live ctx leaves no container behind, unless docker
\* refused to remove one or made one without the worker learning of it.
RolledBack ==
    \A c \in Calls :
        op[c] = "load" /\ pc[c] = "err" /\ Live(c) /\ c \notin lost
            => \A s \in Slots : ~Exists(c, s)

=============================================================================
