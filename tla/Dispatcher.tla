----------------------------- MODULE Dispatcher -----------------------------
(***************************************************************************)
(* dispatcher.Dispatcher, and below it the whole of the runtime: single    *)
(* deployments (Runtime), prefill/decode groups (DeploymentGroups) and the *)
(* GPU leases (GPUAllocator), on one host whose image store and ports they *)
(* share.  A load goes to one of the two halves of the runtime; an unload  *)
(* goes through both.  An id may name a single deployment and a group at   *)
(* once: nothing in the worker prevents it.                                *)
(*                                                                         *)
(* Grain.  A step of a command is a step of Runtime or of DeploymentGroups,*)
(* or one call of the allocator.  A command c has its program counters pc  *)
(* in Runtime and gpc in DeploymentGroups; dpc says where the dispatcher   *)
(* is.  The control plane sends a command for a deployment when the one    *)
(* before it has ended; each load names the GPUs it wants, the same as the *)
(* one before it or others.                                                *)
(***************************************************************************)
EXTENDS Runtime

CONSTANTS
    PrefillPorts, DecodePorts,   \* the group allocators' ranges
    TotalGPUs,                   \* GPUs of the host
    GPUChoices,                  \* the indices a load may name, for each use
    BodyFaults,                  \* "body", "plan": what may be wrong with a command
    MaxTroubles                  \* bound on disconnects, exits and restarts together

Uses == {"single", "prefill", "decode"}
Keys == Ids \X Uses
KeysOf(i) == {i} \X Uses

ASSUME DispatcherAssumption ==
    /\ IsFiniteSet(Ids)
    /\ GPUChoices \subseteq [Uses -> {gpus \in SUBSET Nat : IsFiniteSet(gpus)}]
    /\ BodyFaults \subseteq {"body", "plan"}
    /\ MaxTroubles \in Nat
    /\ TotalGPUs \in Nat
    \* On a host without GPUs a load names some for both roles of a group.
    /\ TotalGPUs = 0 => \A g \in GPUChoices : g["prefill"] # {} /\ g["decode"] # {}

VARIABLES
    dpc,        \* where the dispatcher is in a command, and what it answered
    kind,       \* what a command asks for
    last,       \* history: the latest command for a deployment
    allocated,  \* GPUAllocator.allocated
    granted,    \* history: the loads that have leased under a key since it was
                \* last released, each with the GPUs its containers get
    troubles,   \* disconnects, exits and restarts so far
    \* the variables of DeploymentGroups, those it shares with Runtime aside
    groups, registry, gused, gconts, gports, gpc, gop, gid, launched, undone,
    target, glost

A == INSTANCE GPUAllocator
G == INSTANCE DeploymentGroups WITH
        PrefillReplicas <- 1, DecodeReplicas <- 1,
        Faults <- Faults \cup BodyFaults \cup {"body"}, Sender <- "serial",
        leases <- {i \in Ids : \A u \in {"prefill", "decode"} : allocated[<<i, u>>] # {}},
        used <- gused, conts <- gconts, ports <- gports, pc <- gpc, op <- gop,
        id <- gid, lost <- glost

single == <<deployments, state, containerID, endpointURL, init, prog, used, conts, pc, op,
            id, obj, port, lost>>
shared == <<image, cancelled, restarts>>
group == <<groups, registry, gused, gconts, gports, gpc, gop, gid, launched, undone,
           target, glost>>
own == <<dpc, kind, last, allocated, granted, troubles>>
dvars == <<single, shared, group, own>>

DInit ==
    /\ Init
    /\ allocated = [k \in Keys |-> {}]
    /\ granted = [k \in Keys |-> {}]
    /\ G!Init
    /\ dpc = [c \in Calls |-> "idle"]
    /\ kind = [c \in Calls |-> "none"]
    /\ last = [i \in Ids |-> Nil]
    /\ troubles = 0

-----------------------------------------------------------------------------
(* LoadModel *)

Dispatch(c, l) == dpc' = [dpc EXCEPT ![c] = l]
Working(c) == dpc[c] \in {"plan", "runtime", "group", "release", "teardown", "single"}

\* A command arrives.
Receive(c, i, k) ==
    /\ dpc[c] = "idle"
    /\ last[i] # Nil => ~Working(last[i])
    /\ kind' = [kind EXCEPT ![c] = k]
    /\ last' = [last EXCEPT ![i] = c]

validateGPUIndices(gpus) == TotalGPUs > 0 => gpus \subseteq 0 .. TotalGPUs - 1

\* Load c, which names the GPUs g, leases under these keys: a lease it finds
\* there is replaced, also one that a running container was started on.
Lease(c, keys, g) ==
    /\ A!Allocate(keys, [k \in Keys |-> g[k[2]]])
    /\ granted' = [k \in Keys |->
                     IF k \in keys THEN granted[k] \cup {<<c, A!Granted(g[k[2]])>>}
                     ELSE granted[k]]

Refuse(c) == Dispatch(c, "err") /\ UNCHANGED <<allocated, granted>>

\* An unknown recipe or GPU index is refused; then the GPUs are leased.
DispatchLoad(c, i, g) ==
    /\ Receive(c, i, "load")
    /\ \/ /\ validateGPUIndices(g["single"])
          /\ Lease(c, {<<i, "single">>}, g)
          /\ Dispatch(c, "plan")
       \/ /\ "body" \in BodyFaults \/ ~validateGPUIndices(g["single"])
          /\ Refuse(c)
    /\ UNCHANGED <<single, shared, group, troubles>>

\* Mutant: a plan that cannot be built gives the GPUs back.
BuildPlanReleases(c, i, p) ==
    /\ dpc[c] = "plan" /\ last[i] = c
    /\ \/ LoadModel(c, i, p) /\ Dispatch(c, "runtime") /\ UNCHANGED <<shared, allocated>>
       \/ /\ "plan" \in BodyFaults /\ Dispatch(c, "err")
          /\ A!Release({<<i, "single">>})
          /\ UNCHANGED <<single, shared>>
    /\ UNCHANGED <<group, kind, last, granted, troubles>>

\* BuildPlan of the recipe; the lease stays when it fails.
BuildPlan(c, i, p) ==
    /\ dpc[c] = "plan" /\ last[i] = c
    /\ \/ LoadModel(c, i, p) /\ Dispatch(c, "runtime")
       \/ "plan" \in BodyFaults /\ Dispatch(c, "err") /\ UNCHANGED <<single, shared>>
    /\ UNCHANGED <<group, kind, last, allocated, granted, troubles>>

\* loadDeploymentGroup leases the GPUs of both roles; the indices of a role that
\* has none of its own are those of the command.
DispatchGroupLoad(c, i, g) ==
    LET valid == \A u \in {"prefill", "decode"} : validateGPUIndices(g[u]) IN
    /\ Receive(c, i, "groupLoad")
    /\ \/ /\ valid
          /\ Lease(c, KeysOf(i) \ {<<i, "single">>}, g)
          /\ Dispatch(c, "group")
       \/ ("body" \in BodyFaults \/ ~valid) /\ Refuse(c)
    /\ G!LoadModel(c, i)
    /\ (gpc'[c] = "err") <=> (dpc'[c] = "err")
    /\ UNCHANGED <<single, troubles>>

\* What the half of the runtime returned is answered.
AnswerLoad(c) ==
    /\ \/ dpc[c] = "runtime" /\ pc[c] \in Returned /\ Dispatch(c, pc[c])
       \/ dpc[c] = "group" /\ gpc[c] \in {"ok", "err"} /\ Dispatch(c, gpc[c])
    /\ UNCHANGED <<single, shared, group, kind, last, allocated, granted, troubles>>

-----------------------------------------------------------------------------
(* UnloadModel *)

\* Deregister,
DispatchUnload(c, i) ==
    /\ Receive(c, i, "unload")
    /\ Dispatch(c, "release")
    /\ UNCHANGED <<single, allocated, granted, troubles>>
    /\ G!UnloadModel(c, i)

\* Mutant: only the lease of a single deployment is given back.
ReleaseSingle(c) ==
    /\ dpc[c] = "release"
    /\ A!Release({<<gid[c], "single">>})
    /\ granted' = [granted EXCEPT ![<<gid[c], "single">>] = {}]
    /\ Dispatch(c, "teardown")
    /\ gpc' = [gpc EXCEPT ![c] = "take"]
    /\ UNCHANGED <<single, shared, kind, last, troubles, groups, registry, gused, gconts,
                   gports, gop, gid, launched, undone, target, glost>>

\* Release of the three keys,
ReleaseAll(c) ==
    /\ dpc[c] = "release"
    /\ A!Release(KeysOf(gid[c]))
    /\ granted' = [k \in Keys |-> IF k \in KeysOf(gid[c]) THEN {} ELSE granted[k]]
    /\ Dispatch(c, "teardown")
    /\ G!ReleaseLeases(c)
    /\ UNCHANGED <<single, kind, last, troubles>>

\* UnloadDeploymentGroup, which never fails, then Runtime.UnloadModel,
UnloadSingle(c) ==
    /\ dpc[c] = "teardown" /\ gpc[c] = "ok"
    /\ UnloadModel(c, gid[c])
    /\ Dispatch(c, "single")
    /\ UNCHANGED <<group, kind, last, allocated, granted, troubles>>

\* whose error is returned only together with one of the group.  (The metrics
\* of the deployment, which go last, are those of module Metrics.)
AnswerUnload(c) ==
    /\ dpc[c] = "single" /\ pc[c] \in Returned
    /\ Dispatch(c, "ok")
    /\ UNCHANGED <<single, shared, group, kind, last, allocated, granted, troubles>>

-----------------------------------------------------------------------------
(* Steps of the two halves, on the ports they share *)

SingleListens(p) == \E b \in Calls : conts[b] = "running" /\ port[b] = p
GroupListens(p) ==
    \E b \in Calls, s \in G!Slots : gconts[b][s] = "running" /\ gports[b][s] = p

\* The replica a group load is at.
At(c) == launched[c] + 1

SingleStep(c) ==
    /\ dpc[c] \in {"runtime", "single"}
    /\ Step(c)
    /\ pc[c] = "start" /\ GroupListens(port[c]) => conts' = conts
    /\ UNCHANGED <<group, own>>

GroupStep(c) ==
    /\ dpc[c] \in {"group", "teardown"}
    /\ UNCHANGED <<single, own>>
    /\ G!LoadStep(c) \/ G!TakeGroup(c) \/ G!TeardownReplica(c)
    /\ gpc[c] = "start" /\ SingleListens(gports[c][At(c)]) => gconts' = gconts

\* Mutant: a start that docker refused is not noticed.
StartRefusedUnnoticed(c) ==
    /\ \/ /\ pc[c] = "start" /\ GroupListens(port[c])
          /\ Goto(c, "ready")
          /\ UNCHANGED gpc
       \/ /\ gpc[c] = "start" /\ SingleListens(gports[c][At(c)])
          /\ G!Goto(c, "ready")
          /\ UNCHANGED pc
    /\ UNCHANGED <<deployments, state, containerID, endpointURL, init, prog, used, conts, op,
                   id, obj, port, lost, shared, own, groups, registry, gused, gconts,
                   gports, gop, gid, launched, undone, target, glost>>

\* The ranges of the allocators overlap: a start finds its port taken by a
\* container of the other half, and the load cleans up.
StartRefused(c) ==
    /\ \/ /\ pc[c] = "start" /\ GroupListens(port[c])
          /\ Goto(c, "cleanup")
          /\ UNCHANGED gpc
       \/ /\ gpc[c] = "start" /\ SingleListens(gports[c][At(c)])
          /\ G!Goto(c, "cleanup")
          /\ UNCHANGED pc
    /\ UNCHANGED <<deployments, state, containerID, endpointURL, init, prog, used, conts, op,
                   id, obj, port, lost, shared, own, groups, registry, gused, gconts,
                   gports, gop, gid, launched, undone, target, glost>>

\* A probe is answered by the container that took over the port of one that
\* exited while it was waited for.
ReadyByOther(c) ==
    /\ \/ /\ pc[c] \in {"ready", "ollama"} /\ GroupListens(port[c])
          /\ Goto(c, IF pc[c] = "ready" THEN "ollama" ELSE "rmImage")
          /\ UNCHANGED <<gpc, launched>>
       \/ /\ gpc[c] = "ready" /\ SingleListens(gports[c][At(c)])
          /\ launched' = [launched EXCEPT ![c] = @ + 1]
          /\ G!Goto(c, IF At(c) = G!Replicas THEN "rmImage" ELSE "alloc")
          /\ UNCHANGED pc
    /\ UNCHANGED <<deployments, state, containerID, endpointURL, init, prog, used, conts, op,
                   id, obj, port, lost, shared, own, groups, registry, gused, gconts,
                   gports, gop, gid, undone, target, glost>>

-----------------------------------------------------------------------------
(* What happens around the commands *)

Trouble ==
    /\ troubles < MaxTroubles
    /\ troubles' = troubles + 1

DDisconnect ==
    /\ "disconnect" \in Faults
    /\ {c \in Calls : Working(c)} \ cancelled # {}
    /\ cancelled' = cancelled \cup {c \in Calls : Working(c)}
    /\ Trouble
    /\ UNCHANGED <<single, group, dpc, kind, last, allocated, granted, image, restarts>>

Exits(c) ==
    /\ Trouble
    /\ UNCHANGED <<dpc, kind, last, allocated, granted>>
    /\ \/ ContainerExits(c) /\ UNCHANGED group
       \/ \E s \in G!Slots : G!ContainerExits(c, s) /\ UNCHANGED single

DRestart ==
    /\ Trouble
    /\ Restart
    /\ allocated' = [k \in Keys |-> {}]
    /\ granted' = [k \in Keys |-> {}]
    /\ G!Restart
    /\ dpc' = [c \in Calls |-> IF Working(c) THEN "killed" ELSE dpc[c]]
    /\ UNCHANGED <<kind, last>>

-----------------------------------------------------------------------------

DNext ==
    \/ \E c \in Calls, i \in Ids :
          \/ \E g \in GPUChoices : DispatchLoad(c, i, g) \/ DispatchGroupLoad(c, i, g)
          \/ DispatchUnload(c, i)
          \/ \E p \in FixedPorts \cup {NoPort} : BuildPlan(c, i, p)
    \/ \E c \in Calls :
          \/ AnswerLoad(c) \/ ReleaseAll(c) \/ UnloadSingle(c) \/ AnswerUnload(c)
          \/ SingleStep(c) \/ GroupStep(c) \/ StartRefused(c) \/ ReadyByOther(c) \/ Exits(c)
    \/ DDisconnect
    \/ DRestart

DSpec == DInit /\ [][DNext]_dvars

-----------------------------------------------------------------------------
(* Properties *)

Idle(i) == last[i] # Nil => ~Working(last[i])

\* The load that started a container is one of those that leased under the key
\* since it was released, and the lease is what one of them was given.
Holds(k, b) ==
    /\ \E h \in granted[k] : h[1] = b
    /\ \E h \in granted[k] : allocated[k] = h[2]

\* With no command at work for a deployment the tables agree: the proxy routes
\* to the group that is loaded, and to no other; and what is loaded has a lease,
\* also after a later command for it has failed: the GPUs it was started on, as
\* long as every load since the last unload named the same.  (A load that names
\* others moves the lease to them while the container that runs stays on its
\* own.)
TablesAgree ==
    \A i \in Ids :
        Idle(i) =>
            /\ registry[i] = groups[i]
            /\ groups[i] # Nil =>
                  \A u \in {"prefill", "decode"} : Holds(<<i, u>>, groups[i])
            /\ i \in LoadedDeployments =>
                  Holds(<<i, "single">>, ContainerForDeployment(i))

CutShort(i) == \E c \in cancelled : i \in {id[c], gid[c]}

\* After an UnloadModel that answered "ok" the deployment is gone, in both of
\* its forms: from the registry, the tables, the GPU leases and the host.  The
\* error of the single half is not in the answer, so what it left is excepted;
\* and so is what commands cut short, or docker, kept on the host.
UnloadLeavesNothing ==
    \A c \in Calls, i \in Ids :
        kind[c] = "unload" /\ dpc[c] = "ok" /\ last[i] = c =>
            /\ registry[i] = Nil /\ groups[i] = Nil
            /\ \A k \in KeysOf(i) : allocated[k] = {}
            /\ ~UnloadFailed(i) => deployments[i] = Nil
            /\ ~UnloadFailed(i) /\ ~CutShort(i) /\ restarts = 0 =>
                  /\ Named(i) \subseteq lost
                  /\ \A b \in Calls \ glost, s \in G!Slots :
                        gid[b] = i => gconts[b][s] = "none"

\* What is loaded, single or group, was started: a start that docker refused, for
\* a port that the other half of the runtime holds, never ends in a deployment
\* that is reported as loaded.  And while its container runs it alone answers on
\* its port: no container of the other half does.  Of one that has exited this
\* is not said: another may have taken its port, even while the load waited for
\* it, and have answered in its place.
ServedByItself ==
    \A i \in Ids :
        /\ i \in LoadedDeployments =>
              LET b == ContainerForDeployment(i) IN
              \/ conts[b] = "running" /\ ~GroupListens(port[b])
              \/ conts[b] = "exited"
        /\ groups[i] # Nil =>
              \A s \in G!Slots :
                  LET b == groups[i] IN
                  \/ gconts[b][s] = "running" /\ ~SingleListens(gports[b][s])
                  \/ gconts[b][s] = "exited"

\* The shares that AllocateStatic plans for the leases fit the pool, and give
\* no lease less than the GPUs it holds.  The pool is as large as the leases and
\* one that a load has replaced make it.
SharesFit ==
    LET replaced == {{}} \cup {h[2] : h \in UNION {granted[k] : k \in Keys}} IN
    \A cap \in {A!poolCapacity(old) : old \in replaced} :
        A!Agents # {} /\ A!Admitted(cap) =>
            LET plan  == A!AllocateStatic(cap)
                unit  == A!Unit(cap)
                least == A!MinResource
            IN  /\ A!Total(plan) <= cap * unit
                /\ \A k \in A!Agents : plan[k] >= least[k] * unit

=============================================================================
