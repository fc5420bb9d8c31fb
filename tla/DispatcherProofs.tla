-------------------------- MODULE DispatcherProofs --------------------------
(***************************************************************************)
(* Theorems about Dispatcher, for any number of commands, deployments,     *)
(* ports and GPUs and any set of faults.                                   *)
(*                                                                         *)
(* The single half of the runtime takes three steps here that Runtime does *)
(* not know: a start refused, and two probes answered, because of a port   *)
(* that the group half also uses.  Its invariants hold all the same.       *)
(*                                                                         *)
(* The shares of the GPUs are sums over the leases: what is summed in      *)
(* whatever order is in Sums, and PlanFits compares it with the pool.      *)
(***************************************************************************)
EXTENDS Dispatcher, RuntimeProofs, Sums

SingleInv == TypeOK /\ PortInv /\ SerialInv /\ ContainerHasOwner /\ TrackInv

LEMMA SingleInit == Init => SingleInv
  BY TypeInit, PortInit, SerialInit, OwnerInit, TrackInit DEF SingleInv

\* Where the other half moves a call of this one.
Detour(c) ==
    /\ \/ pc[c] = "start" /\ Goto(c, "cleanup")
       \/ pc[c] = "ready" /\ Goto(c, "ollama")
       \/ pc[c] = "ollama" /\ Goto(c, "rmImage")
    /\ UNCHANGED <<deployments, state, containerID, endpointURL, init, prog, used,
                   conts, image, op, id, obj, port, cancelled, lost, restarts>>

\* Everything a step of the worker does to the variables of Runtime.
SingleMoves ==
    \/ [Next]_vars
    \/ \E c \in Calls : Detour(c)
    \/ /\ UNCHANGED <<single, restarts>>
       /\ image' \in BOOLEAN /\ cancelled' \in SUBSET Calls

LEMMA DetourKeeps ==
    ASSUME SingleInv, NEW c \in Calls, Detour(c)
    PROVE  SingleInv'
<1> USE DEF SingleInv
<1>1. PICK l : /\ pc' = [pc EXCEPT ![c] = l]
               /\ \/ pc[c] = "start" /\ l = "cleanup"
                  \/ pc[c] = "ready" /\ l = "ollama"
                  \/ pc[c] = "ollama" /\ l = "rmImage"
  BY DEF Detour, Goto
<1>2. UNCHANGED <<deployments, state, containerID, endpointURL, init, prog, used,
                  conts, image, op, id, obj, port, cancelled, lost, restarts>>
  BY DEF Detour
<1>3. InFlight(c) /\ l # "idle" /\ pc[c] # "err" /\ l # "err"
  BY <1>1 DEF InFlight, Holding
<1>4. TypeOK'
  BY <1>1, <1>2 DEF TypeOK, Holding
<1>5. PortInv'
  BY <1>1, <1>2, PortQuiet DEF HasPort, Asking, Waiting, Holding
<1>6. SerialInv'
  <2>1. state[obj[c]] # "running"
    BY <1>1 DEF SerialInv, FoundDown, Down, Holding
  <2> QED
    BY <1>1, <1>2, <1>3, <2>1, SerialMove
    DEF Loading, Unloading, Waiting, Holding, Down
<1>7. ContainerHasOwner'
  BY <1>1, <1>2 DEF ContainerHasOwner, AfterCreate, TypeOK
<1>8. TrackInv'
  BY <1>1, <1>2, <1>3, <1>4, TrackQuiet DEF Started, Owning
<1> QED
  BY <1>4, <1>5, <1>6, <1>7, <1>8

LEMMA SingleKeeps ==
    ASSUME Sender = "serial", SingleInv, SingleMoves
    PROVE  SingleInv'
<1> USE DEF SingleInv
<1>1. CASE [Next]_vars
  BY <1>1, TypeNext, PortNext, SerialNext, OwnerNext, TrackNext
<1>2. CASE \E c \in Calls : Detour(c)
  BY <1>2, DetourKeeps
<1>3. CASE /\ UNCHANGED <<single, restarts>>
           /\ image' \in BOOLEAN /\ cancelled' \in SUBSET Calls
  <2> USE <1>3 DEF single
  <2>1. TypeOK'
    BY DEF TypeOK
  <2>2. PortInv'
    BY DEF PortInv, TableOfOwnIds, UnusedObjects, WorksOnObject, AskedPort,
           CallPortUsed, CallPortsDistinct, EndpointUsed, EndpointOfCall,
           EndpointsDistinct, EndpointURL
  <2>3. SerialInv'
    BY DEF SerialInv, OneCallPerId, WorksInTable, OpOfCall, FreshIsAbsent,
           FoundRunning, FoundDown, RunningHasEndpoint, Published, InFlight,
           StatusOf, EndpointURL
  <2>4. ContainerHasOwner'
    BY DEF ContainerHasOwner
  <2>5. TrackInv'
    BY DEF TrackInv, NamesOwnContainer, StartedStays, PublishedOwn, LoadedIsBacked,
           LoadedDeployments, StatusOf, ContainerForDeployment, EndpointURL,
           Accounted, Held, Kept, UnloadFailed
  <2> QED
    BY <2>1, <2>2, <2>3, <2>4, <2>5
<1> QED
  BY <1>1, <1>2, <1>3 DEF SingleMoves

(* What a step of a call does that the dispatcher can see.                   *)
LEMMA StepSeen ==
    ASSUME SingleInv, NEW c \in Calls, Step(c)
    PROVE  /\ UNCHANGED <<op, id, cancelled, restarts>>
           /\ id[c] \in Ids
           /\ \E l : /\ pc' = [pc EXCEPT ![c] = l]
                     /\ \/ pc[c] \in Loading /\ l \in Loading \cup Returned
                        \/ /\ pc[c] \in Unloading
                           /\ l \in {"stop", "remove", "udrop"} \cup Returned
                           /\ l = "ok" => deployments'[id[c]] = Nil
           /\ \A i \in Ids \ {id[c]} :
                 /\ deployments'[i] = deployments[i]
                 /\ i \in LoadedDeployments' => i \in LoadedDeployments
           /\ pc[c] \in Unloading =>
                 /\ id[c] \in LoadedDeployments' => id[c] \in LoadedDeployments
                 /\ pc[c] = "ulock" => id[c] \notin LoadedDeployments'
<1> USE DEF SingleInv, Goto, Return, table, docker, frame, env, Waiting, Holding,
            Loading, Unloading, Returned
<1> DEFINE quiet == UNCHANGED <<deployments, state>>
           drops == drop(id[c]) /\ UNCHANGED state
           sets  == \E s \in States : /\ setState(id[c], s) /\ UNCHANGED deployments
                                      /\ pc[c] \in Unloading => s = "stopping"
<1>1. /\ UNCHANGED <<op, id, cancelled, restarts>>
      /\ InFlight(c)
      /\ \/ quiet /\ pc[c] # "ulock"
         \/ drops /\ pc[c] # "ulock"
         \/ sets
      /\ \E l : /\ pc' = [pc EXCEPT ![c] = l]
                /\ \/ pc[c] \in Loading /\ l \in Loading \cup Returned
                   \/ /\ pc[c] \in Unloading
                      /\ l \in {"stop", "remove", "udrop"} \cup Returned
                      /\ l = "ok" => drops
  <2> USE DEF InFlight, States
  <2>1. CASE LockLoad(c) \/ CheckEndpoint(c) \/ ReturnCurrent(c)
    BY <2>1 DEF LockLoad, CheckEndpoint, ReturnCurrent
  <2>2. CASE AllocPort(c)
    BY <2>2 DEF AllocPort
  <2>3. CASE SetPulling(c) \/ SetStarting(c) \/ SetRunning(c) \/ SetFailed(c)
    BY <2>3 DEF SetPulling, SetStarting, SetRunning, SetFailed
  <2>4. CASE Pull(c) \/ ClearStale(c)
    BY <2>4 DEF Pull, ClearStale
  <2>5. CASE Create(c) \/ SetContainerID(c)
    BY <2>5 DEF Create, SetContainerID
  <2>6. CASE Start(c) \/ WaitReady(c)
    BY <2>6 DEF Start, WaitReady
  <2>7. CASE OllamaPullIfNeeded(c) \/ RemoveImage(c) \/ Publish(c) \/ Cleanup(c)
    BY <2>7 DEF OllamaPullIfNeeded, RemoveImage, Publish, Cleanup
  <2>8. CASE DropFailed(c) \/ DropUnloaded(c)
    BY <2>8 DEF DropFailed, DropUnloaded
  <2>9. CASE LockUnload(c)
    BY <2>9 DEF LockUnload
  <2>10. CASE StopContainer(c) \/ RemoveContainer(c)
    BY <2>10 DEF StopContainer, RemoveContainer
  <2> QED
    BY <2>1, <2>2, <2>3, <2>4, <2>5, <2>6, <2>7, <2>8, <2>9, <2>10
    DEF Step, LoadStep, UnloadStep
<1>2. id[c] \in Ids
  BY <1>1 DEF SerialInv, WorksInTable
<1>3. CASE quiet /\ pc[c] # "ulock"
  <2>1. LoadedDeployments' = LoadedDeployments
    BY <1>3 DEF LoadedDeployments, StatusOf
  <2>2. ~drops
    BY <1>1, <1>2, <1>3, OwnObject DEF drop, SerialInv, WorksInTable, TypeOK
  <2> QED
    BY <1>1, <1>2, <1>3, <2>1, <2>2
<1>4. CASE drops /\ pc[c] # "ulock"
  <2>1. deployments' = [deployments EXCEPT ![id[c]] = Nil]
    BY <1>4 DEF drop
  <2>2. \A i \in LoadedDeployments' : i \in LoadedDeployments
    BY <1>4, <2>1 DEF LoadedDeployments, StatusOf, TypeOK
  <2>3. /\ deployments'[id[c]] = Nil
        /\ \A i \in Ids \ {id[c]} : deployments'[i] = deployments[i]
    BY <1>2, <2>1 DEF TypeOK
  <2> QED
    BY <1>1, <1>2, <1>4, <2>2, <2>3
<1>5. CASE sets
  <2>1. PICK s \in States : /\ setState(id[c], s) /\ UNCHANGED deployments
                            /\ pc[c] \in Unloading => s = "stopping"
    BY <1>5
  <2>2. LoadedDeployments' = IF s = "running" THEN LoadedDeployments \cup {id[c]}
                             ELSE LoadedDeployments \ {id[c]}
    BY <1>1, <2>1, LoadedAfterSetState
  <2>3. ~drops
    BY <1>1, <1>2, <2>1, OwnObject DEF drop, SerialInv, WorksInTable, TypeOK
  <2> QED
    BY <1>1, <1>2, <2>1, <2>2, <2>3
<1> QED
  BY <1>1, <1>3, <1>4, <1>5

-----------------------------------------------------------------------------
(* The dispatcher's tables.  The latest command for a deployment is the only *)
(* one at work on it, so that what its program counters say is all there is  *)
(* to know of an unfinished change to the registry, the groups or the leases.*)

DLabels == {"idle", "plan", "runtime", "group", "release", "teardown", "single",
            "ok", "err", "killed"}
GLabels == {"idle"} \cup G!LoadLabels \cup G!UnloadLabels \cup G!Terminal

DTypes ==
    /\ dpc \in [Calls -> DLabels]
    /\ kind \in [Calls -> {"none", "load", "groupLoad", "unload"}]
    /\ last \in [Ids -> Calls \cup {Nil}]
    /\ DOMAIN allocated = Keys
    /\ groups \in [Ids -> Calls \cup {Nil}]
    /\ registry \in [Ids -> Calls \cup {Nil}]
    /\ gpc \in [Calls -> GLabels]
    /\ gid \in [Calls -> Ids \cup {Nil}]

\* Where a command is, in the dispatcher and in both halves of the runtime, and
\* that it is the latest one for its deployment while it is at work.
CallInv(c) ==
    /\ dpc[c] = "idle" => gpc[c] = "idle" /\ \A i \in Ids : last[i] # c
    /\ dpc[c] \in {"idle", "plan", "group", "release", "teardown"} => pc[c] = "idle"
    /\ gpc[c] = "idle" => gid[c] = Nil
    /\ pc[c] = "idle" => id[c] = Nil
    /\ dpc[c] \in {"group", "release", "teardown", "single"} =>
          gid[c] \in Ids /\ last[gid[c]] = c
    /\ dpc[c] \in {"runtime", "single"} =>
          /\ id[c] \in Ids /\ last[id[c]] = c
          /\ pc[c] \notin {"idle", "killed"}
    /\ pc[c] \in Loading => dpc[c] = "runtime"
    /\ pc[c] \in Unloading => dpc[c] = "single"
    /\ gpc[c] \in G!LoadLabels => dpc[c] = "group"
    /\ gpc[c] \in {"take", "teardown"} => dpc[c] = "teardown"
    /\ gpc[c] = "release" <=> dpc[c] = "release"
    /\ dpc[c] = "teardown" => gpc[c] \in {"take", "teardown", "ok"}
    /\ dpc[c] \in {"plan", "runtime"} => kind[c] = "load"
    /\ dpc[c] = "group" => kind[c] = "groupLoad"
    /\ dpc[c] \in {"release", "teardown", "single"} => kind[c] = "unload"

Latest == \A i, j \in Ids : last[i] # Nil /\ last[i] = last[j] => i = j

\* The lease is what one of the loads since the last release was given.
Leased(k) == \E h \in granted[k] : allocated[k] = h[2]
Where(i, L) == last[i] # Nil /\ dpc[last[i]] \in L
\* The leases are given back and the group is still in the table.
BeforeTake(i) == Where(i, {"teardown"}) /\ gpc[last[i]] = "take"

\* The group is in the table and not yet in the registry.
Registering(i) == Where(i, {"group"}) /\ gpc[last[i]] = "register"

RegistryInv(i) ==
    \/ ~Registering(i) /\ registry[i] = groups[i]
    \/ Registering(i) /\ groups[i] = last[i]
    \/ (Where(i, {"release"}) \/ BeforeTake(i)) /\ registry[i] = Nil

LeaseInv(i) ==
    /\ \A k \in KeysOf(i) : allocated[k] = {} \/ Leased(k)
    /\ groups[i] # Nil \/ Where(i, {"group"}) =>
          BeforeTake(i) \/ \A u \in {"prefill", "decode"} : Leased(<<i, u>>)
    /\ i \in LoadedDeployments \/ Where(i, {"plan", "runtime"}) =>
          \/ Leased(<<i, "single">>)
          \/ Where(i, {"teardown"})
          \/ Where(i, {"single"}) /\ pc[last[i]] = "ulock"

\* What an unload has taken away stays away until the next command.
GoneInv(i) ==
    LET c == last[i] IN
    c # Nil /\ kind[c] = "unload" =>
        /\ dpc[c] \in {"release", "teardown", "single", "ok"} => registry[i] = Nil
        /\ dpc[c] \in {"teardown", "single", "ok"} =>
              \A k \in KeysOf(i) : allocated[k] = {}
        /\ \/ dpc[c] \in {"single", "ok"}
           \/ dpc[c] = "teardown" /\ gpc[c] # "take"
           => groups[i] = Nil
        /\ dpc[c] \in {"single", "ok"} =>
              /\ id[c] = i /\ op[c] = "unload" /\ gpc[c] = "ok"
              /\ pc[c] = "ok" => deployments[i] = Nil
        /\ dpc[c] = "ok" => pc[c] \in Returned

IdInv(i) == RegistryInv(i) /\ LeaseInv(i) /\ GoneInv(i)

TablesInv ==
    DTypes /\ Latest /\ (\A c \in Calls : CallInv(c)) /\ \A i \in Ids : IdInv(i)

LEMMA TablesInit == DInit => TablesInv
<1> SUFFICES ASSUME DInit PROVE TablesInv
  OBVIOUS
<1>1. /\ dpc = [c \in Calls |-> "idle"] /\ kind = [c \in Calls |-> "none"]
      /\ last = [i \in Ids |-> Nil] /\ allocated = [k \in Keys |-> {}]
      /\ groups = [i \in Ids |-> Nil] /\ registry = [i \in Ids |-> Nil]
      /\ gpc = [c \in Calls |-> "idle"] /\ gid = [c \in Calls |-> Nil]
      /\ pc = [c \in Calls |-> "idle"] /\ id = [c \in Calls |-> Nil]
      /\ deployments = [i \in Ids |-> Nil]
  BY DEF DInit, Init, G!Init
<1>2. DTypes
  BY <1>1 DEF DTypes, DLabels, GLabels
<1>3. Latest
  BY <1>1 DEF Latest
<1>4. ASSUME NEW c \in Calls PROVE CallInv(c)
  BY <1>1, NilAssumption
  DEF CallInv, Loading, Unloading, Waiting, Holding, G!LoadLabels
<1>5. ASSUME NEW i \in Ids PROVE IdInv(i)
  <2>1. i \notin LoadedDeployments
    BY <1>1 DEF LoadedDeployments, StatusOf
  <2>2. \A k \in KeysOf(i) : allocated[k] = {}
    BY <1>1 DEF KeysOf, Keys
  <2>3. last[i] = Nil /\ groups[i] = Nil /\ registry[i] = Nil
    BY <1>1
  <2> QED
    BY <2>1, <2>2, <2>3 DEF IdInv, RegistryInv, Registering, LeaseInv, GoneInv, Where
<1> QED
  BY <1>2, <1>3, <1>4, <1>5 DEF TablesInv

(* Command c takes a step for deployment i.  What is known of the other      *)
(* commands and deployments stays true.                                      *)
LEMMA TablesMove ==
    ASSUME TablesInv, NEW c \in Calls, NEW i \in Ids,
           last'[i] = c, \A j \in Ids \ {i} : last'[j] = last[j],
           last[i] = c \/ (dpc[c] = "idle" /\ Idle(i)),
           \A b \in Calls \ {c} :
               /\ dpc'[b] = dpc[b] /\ kind'[b] = kind[b] /\ gpc'[b] = gpc[b]
               /\ gid'[b] = gid[b] /\ pc'[b] = pc[b] /\ id'[b] = id[b]
               /\ op'[b] = op[b],
           \A j \in Ids \ {i} :
               /\ registry'[j] = registry[j] /\ groups'[j] = groups[j]
               /\ deployments'[j] = deployments[j]
               /\ j \in LoadedDeployments' => j \in LoadedDeployments
               /\ \A k \in KeysOf(j) : allocated'[k] = allocated[k] /\ granted'[k] = granted[k],
           DTypes', CallInv(c)', IdInv(i)'
    PROVE  TablesInv'
<1> USE DEF TablesInv
<1>1. \A j \in Ids \ {i} : last[j] # c
  BY NilAssumption DEF Latest, CallInv
<1>2. Latest'
  BY <1>1 DEF Latest
<1>3. ASSUME NEW b \in Calls \ {c} PROVE CallInv(b)'
  <2>1. CallInv(b)
    BY <1>3
  <2>2. Working(b) => last[i] # b
    BY <1>3, NilAssumption DEF Idle
  <2>3. \A j \in Ids : last'[j] = b => last[j] = b
    BY <1>3
  <2>4. \A j \in Ids : last[j] = b /\ Working(b) => last'[j] = b
    BY <1>3, <2>2
  <2> QED
    BY <1>3, <2>1, <2>3, <2>4 DEF CallInv, Working
<1>4. ASSUME NEW j \in Ids \ {i} PROVE IdInv(j)'
  <2>1. IdInv(j)
    BY <1>4
  <2>2. last[j] # Nil => last[j] \in Calls \ {c}
    BY <1>1, <1>4 DEF DTypes
  <2>3. \A k \in KeysOf(j) : allocated'[k] = allocated[k] /\ granted'[k] = granted[k]
    BY <1>4
  <2>4. \A u \in Uses : <<j, u>> \in KeysOf(j)
    BY DEF KeysOf
  <2>5. RegistryInv(j)'
    BY <1>4, <2>1, <2>2 DEF IdInv, RegistryInv, Registering, Where, BeforeTake
  <2>6. LeaseInv(j)'
    <3>1. \A k \in KeysOf(j) : Leased(k) => Leased(k)'
      BY <2>3 DEF Leased
    <3>2. \A u \in {"prefill", "decode", "single"} : Leased(<<j, u>>) => Leased(<<j, u>>)'
      BY <2>4, <3>1 DEF Uses
    <3>3. /\ j \in LoadedDeployments' => j \in LoadedDeployments
          /\ groups'[j] = groups[j]
          /\ \A L : Where(j, L)' <=> Where(j, L)
          /\ BeforeTake(j)' <=> BeforeTake(j)
          /\ last[j] # Nil => pc'[last'[j]] = pc[last[j]]
      BY <1>4, <2>2 DEF Where, BeforeTake
    <3> QED
      BY <1>4, <2>1, <2>3, <3>1, <3>2, <3>3 DEF IdInv, LeaseInv, Where
  <2>7. GoneInv(j)'
    BY <1>4, <2>1, <2>2, <2>3 DEF IdInv, GoneInv
  <2> QED
    BY <2>5, <2>6, <2>7 DEF IdInv
<1> QED
  BY <1>2, <1>3, <1>4

(* Each key belongs to one deployment.                                       *)
LEMMA KeysApart ==
    ASSUME NEW i \in Ids
    PROVE  /\ KeysOf(i) \subseteq Keys
           /\ \A u \in Uses : <<i, u>> \in KeysOf(i)
           /\ \A k \in KeysOf(i) : \E u \in Uses : k = <<i, u>>
           /\ \A j \in Ids \ {i} : \A k \in KeysOf(j) : k \in Keys \ KeysOf(i)
<1>1. /\ KeysOf(i) \subseteq Keys
      /\ \A u \in Uses : <<i, u>> \in KeysOf(i)
      /\ \A k \in KeysOf(i) : \E u \in Uses : k = <<i, u>>
  BY DEF KeysOf, Keys
<1>2. ASSUME NEW j \in Ids \ {i}, NEW k \in KeysOf(j) PROVE k \in Keys \ KeysOf(i)
  BY <1>2 DEF KeysOf, Keys
<1> QED
  BY <1>1, <1>2

\* One of the loads since the last release is this one.
Owned(k, b) == \E h \in granted[k] : h[1] = b

(* Allocate leaves its keys with what Granted says, also where that is no    *)
(* GPU at all: a key that holds any holds those, or those of a load before.  *)
LEMMA LeaseGrants ==
    ASSUME NEW c, NEW K \in SUBSET Keys, NEW g, Lease(c, K, g),
           \A k \in K : allocated[k] = {} \/ Leased(k)
    PROVE  /\ DOMAIN allocated' = Keys
           /\ \A k \in K : Leased(k)' /\ Owned(k, c)'
           /\ \A k \in Keys \ K : allocated'[k] = allocated[k] /\ granted'[k] = granted[k]
<1> DEFINE gpus(k) == A!Granted(g[k[2]])
<1>1. /\ allocated' = [k \in Keys |-> IF k \in K /\ gpus(k) # {} THEN gpus(k)
                                     ELSE allocated[k]]
      /\ granted' = [k \in Keys |-> IF k \in K THEN granted[k] \cup {<<c, gpus(k)>>}
                                   ELSE granted[k]]
  BY DEF Lease, A!Allocate
<1>2. ASSUME NEW k \in K PROVE Leased(k)' /\ Owned(k, c)'
  <2>1. <<c, gpus(k)>> \in granted'[k] /\ \A h \in granted[k] : h \in granted'[k]
    BY <1>1
  <2>2. allocated'[k] = IF gpus(k) # {} THEN gpus(k) ELSE allocated[k]
    BY <1>1
  <2> HIDE DEF gpus
  <2>3. Leased(k)'
    BY <2>1, <2>2 DEF Leased
  <2>4. Owned(k, c)'
    BY <2>1 DEF Owned
  <2> QED
    BY <2>3, <2>4
<1> QED
  BY <1>1, <1>2

LEMMA ReleaseEmpties ==
    ASSUME NEW K \in SUBSET Keys, A!Release(K),
           granted' = [k \in Keys |-> IF k \in K THEN {} ELSE granted[k]]
    PROVE  /\ DOMAIN allocated' = Keys
           /\ \A k \in K : allocated'[k] = {}
           /\ \A k \in Keys \ K : allocated'[k] = allocated[k] /\ granted'[k] = granted[k]
  BY DEF A!Release

(* A new command finds the tables of its deployment at rest.                 *)
LEMMA AtRest ==
    ASSUME TablesInv, NEW i \in Ids, Idle(i)
    PROVE  /\ registry[i] = groups[i]
           /\ groups[i] # Nil => \A u \in {"prefill", "decode"} : Leased(<<i, u>>)
           /\ i \in LoadedDeployments => Leased(<<i, "single">>)
           /\ \A k \in KeysOf(i) : allocated[k] = {} \/ Leased(k)
<1>1. IdInv(i)
  BY DEF TablesInv
<1>2. ~Where(i, {"group"}) /\ ~Where(i, {"release"}) /\ ~Where(i, {"teardown"})
      /\ ~Where(i, {"single"})
  BY DEF Idle, Working, Where
<1> QED
  BY <1>1, <1>2 DEF IdInv, RegistryInv, Registering, LeaseInv, BeforeTake

LEMMA ReceiveSeen ==
    ASSUME TablesInv, NEW c \in Calls, NEW i \in Ids, NEW k, Receive(c, i, k)
    PROVE  /\ dpc[c] = "idle" /\ Idle(i) /\ gpc[c] = "idle" /\ pc[c] = "idle"
           /\ gid[c] = Nil /\ id[c] = Nil
           /\ last' = [last EXCEPT ![i] = c] /\ kind' = [kind EXCEPT ![c] = k]
           /\ last'[i] = c /\ \A j \in Ids \ {i} : last'[j] = last[j]
           /\ kind'[c] = k /\ \A b \in Calls \ {c} : kind'[b] = kind[b]
<1>1. CallInv(c) /\ DTypes
  BY DEF TablesInv
<1> QED
  BY <1>1 DEF Receive, Idle, CallInv, DTypes

LEMMA TablesDispatchLoad ==
    ASSUME TablesInv, NEW c \in Calls, NEW i \in Ids, NEW g \in GPUChoices,
           DispatchLoad(c, i, g)
    PROVE  TablesInv'
<1>1. /\ Receive(c, i, "load") /\ UNCHANGED <<single, shared, group, troubles>>
      /\ \/ Lease(c, {<<i, "single">>}, g) /\ Dispatch(c, "plan")
         \/ Dispatch(c, "err") /\ UNCHANGED <<allocated, granted>>
  BY DEF DispatchLoad, Refuse
<1>r. /\ dpc[c] = "idle" /\ Idle(i) /\ gpc[c] = "idle" /\ pc[c] = "idle"
      /\ gid[c] = Nil /\ id[c] = Nil
      /\ last' = [last EXCEPT ![i] = c] /\ kind' = [kind EXCEPT ![c] = "load"]
      /\ last'[i] = c /\ \A j \in Ids \ {i} : last'[j] = last[j]
      /\ kind'[c] = "load" /\ \A b \in Calls \ {c} : kind'[b] = kind[b]
  BY <1>1, ReceiveSeen
<1> USE <1>1, <1>r DEF single, group
<1>2. /\ DTypes
      /\ \A k \in KeysOf(i) : allocated[k] = {} \/ Leased(k)
  BY AtRest DEF TablesInv
<1>3. PICK l \in {"plan", "err"} :
         /\ dpc' = [dpc EXCEPT ![c] = l]
         /\ dpc'[c] = l /\ \A b \in Calls \ {c} : dpc'[b] = dpc[b]
         /\ l = "plan" => Lease(c, {<<i, "single">>}, g)
         /\ l = "err" => UNCHANGED <<allocated, granted>>
  BY <1>2 DEF Dispatch, DTypes
<1>4. /\ \A k \in KeysOf(i) : Leased(k) => Leased(k)'
      /\ \A k \in KeysOf(i) : allocated'[k] = {} \/ Leased(k)'
      /\ l = "plan" => Leased(<<i, "single">>)'
      /\ \A k \in Keys \ KeysOf(i) : allocated'[k] = allocated[k] /\ granted'[k] = granted[k]
      /\ DOMAIN allocated' = Keys
  <2>1. CASE l = "plan"
    <3>1. <<i, "single">> \in KeysOf(i) /\ KeysOf(i) \subseteq Keys
      BY KeysApart DEF Uses
    <3>2. \A k \in {<<i, "single">>} : allocated[k] = {} \/ Leased(k)
      BY <1>2, <3>1
    <3>3. /\ DOMAIN allocated' = Keys
          /\ Leased(<<i, "single">>)'
          /\ \A k \in Keys \ {<<i, "single">>} : allocated'[k] = allocated[k] /\ granted'[k] = granted[k]
      <4>1. {<<i, "single">>} \in SUBSET Keys
        BY <3>1
      <4> QED
        BY <1>3, <2>1, <3>2, <4>1, LeaseGrants
    <3>4. \A k \in KeysOf(i) : k # <<i, "single">> /\ Leased(k) => Leased(k)'
      BY <3>1, <3>3 DEF Leased
    <3> QED
      BY <1>2, <2>1, <3>1, <3>3, <3>4
  <2>2. CASE l = "err"
    BY <1>2, <1>3, <2>2 DEF DTypes, Leased
  <2> QED
    BY <2>1, <2>2
<1>5. LoadedDeployments' = LoadedDeployments
  BY DEF LoadedDeployments, StatusOf
<1>6. DTypes'
  BY <1>2, <1>3, <1>4 DEF DTypes, DLabels
<1>7. CallInv(c)'
  BY <1>3 DEF CallInv, Loading, Unloading, Waiting, Holding, G!LoadLabels
<1>8. IdInv(i)'
  <2>1. /\ registry'[i] = groups'[i] /\ groups' = groups
        /\ groups[i] # Nil => \A u \in {"prefill", "decode"} : Leased(<<i, u>>)
        /\ i \in LoadedDeployments => Leased(<<i, "single">>)
    BY AtRest
  <2>2. \A u \in {"single", "prefill", "decode"} : Leased(<<i, u>>) => Leased(<<i, u>>)'
    BY <1>4, KeysApart DEF Uses
  <2> QED
    BY <1>3, <1>4, <1>5, <2>1, <2>2
    DEF IdInv, RegistryInv, Registering, LeaseInv, GoneInv, Where, BeforeTake
<1>9. \A j \in Ids \ {i} : \A k \in KeysOf(j) : allocated'[k] = allocated[k] /\ granted'[k] = granted[k]
  BY <1>4, KeysApart
<1> QED
  BY <1>3, <1>5, <1>6, <1>7, <1>8, <1>9, TablesMove

LEMMA TablesDispatchGroupLoad ==
    ASSUME TablesInv, NEW c \in Calls, NEW i \in Ids, NEW g \in GPUChoices,
           DispatchGroupLoad(c, i, g)
    PROVE  TablesInv'
<1> DEFINE K == KeysOf(i) \ {<<i, "single">>}
<1>1. /\ Receive(c, i, "groupLoad") /\ UNCHANGED <<single, groups, registry>>
      /\ \/ Lease(c, K, g) /\ Dispatch(c, "group")
         \/ UNCHANGED <<allocated, granted>> /\ Dispatch(c, "err")
      /\ (gpc'[c] = "err") <=> (dpc'[c] = "err")
      /\ gid' = [gid EXCEPT ![c] = i]
      /\ \E l \in {"plan", "err"} : gpc' = [gpc EXCEPT ![c] = l]
  BY DEF DispatchGroupLoad, Refuse, G!LoadModel, G!Goto
<1>r. /\ dpc[c] = "idle" /\ Idle(i) /\ gpc[c] = "idle" /\ pc[c] = "idle"
      /\ gid[c] = Nil /\ id[c] = Nil
      /\ last' = [last EXCEPT ![i] = c] /\ kind' = [kind EXCEPT ![c] = "groupLoad"]
      /\ last'[i] = c /\ \A j \in Ids \ {i} : last'[j] = last[j]
      /\ kind'[c] = "groupLoad" /\ \A b \in Calls \ {c} : kind'[b] = kind[b]
  BY <1>1, ReceiveSeen
<1>2. /\ DTypes
      /\ registry[i] = groups[i]
      /\ groups[i] # Nil => \A u \in {"prefill", "decode"} : Leased(<<i, u>>)
      /\ i \in LoadedDeployments => Leased(<<i, "single">>)
      /\ \A k \in KeysOf(i) : allocated[k] = {} \/ Leased(k)
  BY <1>r, AtRest DEF TablesInv
<1>3. PICK l \in {"group", "err"} :
         /\ dpc' = [dpc EXCEPT ![c] = l]
         /\ dpc'[c] = l /\ \A b \in Calls \ {c} : dpc'[b] = dpc[b]
         /\ l = "group" => Lease(c, K, g)
         /\ l = "err" => UNCHANGED <<allocated, granted>>
  BY <1>1, <1>2 DEF Dispatch, DTypes
<1>4. /\ gpc' \in [Calls -> GLabels] /\ gid' \in [Calls -> Ids \cup {Nil}]
      /\ gid'[c] = i /\ gpc'[c] = IF l = "group" THEN "plan" ELSE "err"
      /\ \A b \in Calls \ {c} : gpc'[b] = gpc[b] /\ gid'[b] = gid[b]
  BY <1>1, <1>2, <1>3 DEF DTypes, GLabels, G!LoadLabels, G!Terminal
<1>5. /\ \A k \in KeysOf(i) : Leased(k) => Leased(k)'
      /\ \A k \in KeysOf(i) : allocated'[k] = {} \/ Leased(k)'
      /\ l = "group" => \A u \in {"prefill", "decode"} : Leased(<<i, u>>)'
      /\ \A k \in Keys \ KeysOf(i) : allocated'[k] = allocated[k] /\ granted'[k] = granted[k]
      /\ DOMAIN allocated' = Keys
  <2>1. CASE l = "group"
    <3>1. /\ K \subseteq KeysOf(i) /\ KeysOf(i) \subseteq Keys
          /\ <<i, "prefill">> \in K /\ <<i, "decode">> \in K
      BY KeysApart DEF Uses
    <3>2. \A k \in K : allocated[k] = {} \/ Leased(k)
      BY <1>2, <3>1
    <3>3. /\ DOMAIN allocated' = Keys
          /\ \A k \in K : Leased(k)'
          /\ \A k \in Keys \ K : allocated'[k] = allocated[k] /\ granted'[k] = granted[k]
      BY <1>3, <2>1, <3>1, <3>2, LeaseGrants
    <3>4. \A k \in KeysOf(i) \ K : Leased(k) => Leased(k)'
      BY <3>1, <3>3 DEF Leased
    <3> QED
      BY <1>2, <2>1, <3>1, <3>3, <3>4
  <2>2. CASE l = "err"
    BY <1>2, <1>3, <2>2 DEF DTypes, Leased
  <2> QED
    BY <2>1, <2>2
<1>6. LoadedDeployments' = LoadedDeployments
  BY <1>1 DEF single, LoadedDeployments, StatusOf
<1>7. DTypes'
  BY <1>1, <1>r, <1>2, <1>3, <1>4, <1>5 DEF DTypes, DLabels
<1>8. CallInv(c)'
  BY <1>1, <1>r, <1>3, <1>4
  DEF single, CallInv, Loading, Unloading, Waiting, Holding, G!LoadLabels
<1>9. IdInv(i)'
  <2>1. \A u \in {"single", "prefill", "decode"} : Leased(<<i, u>>) => Leased(<<i, u>>)'
    BY <1>5, KeysApart DEF Uses
  <2> QED
    BY <1>1, <1>r, <1>2, <1>3, <1>5, <1>6, <2>1
    DEF IdInv, RegistryInv, Registering, LeaseInv, GoneInv, Where, BeforeTake
<1>10. \A j \in Ids \ {i} : \A k \in KeysOf(j) : allocated'[k] = allocated[k] /\ granted'[k] = granted[k]
  BY <1>5, KeysApart
<1> QED
  BY <1>1, <1>r, <1>3, <1>4, <1>6, <1>7, <1>8, <1>9, <1>10, TablesMove DEF single

LEMMA TablesDispatchUnload ==
    ASSUME TablesInv, NEW c \in Calls, NEW i \in Ids, DispatchUnload(c, i)
    PROVE  TablesInv'
<1>1. /\ Receive(c, i, "unload") /\ UNCHANGED <<single, allocated, granted, groups>>
      /\ dpc' = [dpc EXCEPT ![c] = "release"]
      /\ gpc' = [gpc EXCEPT ![c] = "release"]
      /\ gid' = [gid EXCEPT ![c] = i]
      /\ registry' = [registry EXCEPT ![i] = Nil]
  BY DEF DispatchUnload, Dispatch, G!UnloadModel, G!Goto
<1>r. /\ dpc[c] = "idle" /\ Idle(i) /\ gpc[c] = "idle" /\ pc[c] = "idle"
      /\ gid[c] = Nil /\ id[c] = Nil
      /\ last' = [last EXCEPT ![i] = c] /\ kind' = [kind EXCEPT ![c] = "unload"]
      /\ last'[i] = c /\ \A j \in Ids \ {i} : last'[j] = last[j]
      /\ kind'[c] = "unload" /\ \A b \in Calls \ {c} : kind'[b] = kind[b]
  BY <1>1, ReceiveSeen
<1>2. /\ DTypes
      /\ groups[i] # Nil => \A u \in {"prefill", "decode"} : Leased(<<i, u>>)
      /\ i \in LoadedDeployments => Leased(<<i, "single">>)
      /\ \A k \in KeysOf(i) : allocated[k] = {} \/ Leased(k)
  BY <1>r, AtRest DEF TablesInv
<1>3. /\ dpc'[c] = "release" /\ gpc'[c] = "release" /\ gid'[c] = i /\ registry'[i] = Nil
      /\ \A b \in Calls \ {c} : dpc'[b] = dpc[b] /\ gpc'[b] = gpc[b] /\ gid'[b] = gid[b]
      /\ \A j \in Ids \ {i} : registry'[j] = registry[j]
  BY <1>1, <1>2 DEF DTypes
<1>4. /\ LoadedDeployments' = LoadedDeployments
      /\ \A k : Leased(k) => Leased(k)'
  <2>1. LoadedDeployments' = LoadedDeployments
    BY <1>1 DEF single, LoadedDeployments, StatusOf
  <2>2. \A k : Leased(k) => Leased(k)'
    BY <1>1 DEF Leased
  <2> QED
    BY <2>1, <2>2
<1>5. DTypes'
  BY <1>1, <1>r, <1>2 DEF DTypes, DLabels, GLabels, G!UnloadLabels
<1>6. CallInv(c)'
  BY <1>1, <1>r, <1>3
  DEF single, CallInv, Loading, Unloading, Waiting, Holding, G!LoadLabels
<1>7. IdInv(i)'
  <2>1. c # Nil /\ Where(i, {"release"})'
    BY <1>r, <1>3, NilAssumption DEF Where
  <2>2. RegistryInv(i)'
    BY <1>3, <2>1 DEF RegistryInv, Registering, Where
  <2>3. LeaseInv(i)'
    BY <1>1, <1>r, <1>2, <1>3, <1>4 DEF LeaseInv, Where
  <2>4. GoneInv(i)'
    BY <1>r, <1>3 DEF GoneInv
  <2> QED
    BY <2>2, <2>3, <2>4 DEF IdInv
<1> QED
  BY <1>1, <1>r, <1>3, <1>4, <1>5, <1>6, <1>7, TablesMove DEF single

(* What IdInv says of a deployment, seen from the latest command for it.     *)
LEMMA SeenFrom ==
    ASSUME TablesInv, NEW c \in Calls, NEW i \in Ids, last[i] = c
    PROVE  /\ DTypes /\ CallInv(c)
           /\ \A k \in KeysOf(i) : allocated[k] = {} \/ Leased(k)
           /\ \/ ~(dpc[c] = "group" /\ gpc[c] = "register") /\ registry[i] = groups[i]
              \/ dpc[c] = "group" /\ gpc[c] = "register" /\ groups[i] = c
              \/ /\ dpc[c] = "release" \/ (dpc[c] = "teardown" /\ gpc[c] = "take")
                 /\ registry[i] = Nil
           /\ groups[i] # Nil \/ dpc[c] = "group" =>
                 \/ dpc[c] = "teardown" /\ gpc[c] = "take"
                 \/ \A u \in {"prefill", "decode"} : Leased(<<i, u>>)
           /\ i \in LoadedDeployments \/ dpc[c] \in {"plan", "runtime"} =>
                 \/ Leased(<<i, "single">>) \/ dpc[c] = "teardown"
                 \/ dpc[c] = "single" /\ pc[c] = "ulock"
           /\ GoneInv(i)
<1>1. IdInv(i) /\ c # Nil
  BY NilAssumption DEF TablesInv
<1>2. DTypes /\ CallInv(c)
  BY DEF TablesInv
<1>3. /\ \A L : Where(i, L) <=> dpc[c] \in L
      /\ BeforeTake(i) <=> dpc[c] = "teardown" /\ gpc[c] = "take"
  BY <1>1 DEF Where, BeforeTake
<1>4. RegistryInv(i) /\ LeaseInv(i) /\ GoneInv(i)
  BY <1>1 DEF IdInv
<1>5. \/ ~(dpc[c] = "group" /\ gpc[c] = "register") /\ registry[i] = groups[i]
      \/ dpc[c] = "group" /\ gpc[c] = "register" /\ groups[i] = c
      \/ /\ dpc[c] = "release" \/ (dpc[c] = "teardown" /\ gpc[c] = "take")
         /\ registry[i] = Nil
  BY <1>3, <1>4 DEF RegistryInv, Registering
<1>6. /\ \A k \in KeysOf(i) : allocated[k] = {} \/ Leased(k)
      /\ groups[i] # Nil \/ dpc[c] = "group" =>
            \/ dpc[c] = "teardown" /\ gpc[c] = "take"
            \/ \A u \in {"prefill", "decode"} : Leased(<<i, u>>)
  BY <1>3, <1>4 DEF LeaseInv
<1>7. i \in LoadedDeployments \/ dpc[c] \in {"plan", "runtime"} =>
         \/ Leased(<<i, "single">>) \/ dpc[c] = "teardown"
         \/ dpc[c] = "single" /\ pc[c] = "ulock"
  BY <1>3, <1>4 DEF LeaseInv
<1> QED
  BY <1>2, <1>4, <1>5, <1>6, <1>7

(* The same, the other way round.                                            *)
LEMMA SeenNext ==
    ASSUME NEW c \in Calls, NEW i \in Ids, last'[i] = c,
           \A k \in KeysOf(i) : allocated'[k] = {} \/ Leased(k)',
           \/ ~(dpc'[c] = "group" /\ gpc'[c] = "register") /\ registry'[i] = groups'[i]
           \/ dpc'[c] = "group" /\ gpc'[c] = "register" /\ groups'[i] = c
           \/ /\ dpc'[c] = "release" \/ (dpc'[c] = "teardown" /\ gpc'[c] = "take")
              /\ registry'[i] = Nil,
           groups'[i] # Nil \/ dpc'[c] = "group" =>
               \/ dpc'[c] = "teardown" /\ gpc'[c] = "take"
               \/ \A u \in {"prefill", "decode"} : Leased(<<i, u>>)',
           i \in LoadedDeployments' \/ dpc'[c] \in {"plan", "runtime"} =>
               \/ Leased(<<i, "single">>)' \/ dpc'[c] = "teardown"
               \/ dpc'[c] = "single" /\ pc'[c] = "ulock",
           GoneInv(i)'
    PROVE  IdInv(i)'
<1>1. /\ c # Nil
      /\ \A L : Where(i, L)' <=> dpc'[c] \in L
      /\ BeforeTake(i)' <=> dpc'[c] = "teardown" /\ gpc'[c] = "take"
  BY NilAssumption DEF Where, BeforeTake
<1>2. RegistryInv(i)'
  BY <1>1 DEF RegistryInv, Registering
<1>3. LeaseInv(i)'
  BY <1>1 DEF LeaseInv
<1> QED
  BY <1>2, <1>3 DEF IdInv

(* A command goes on, and leaves the tables of the dispatcher as they are.   *)
LEMMA TablesStay ==
    ASSUME TablesInv, NEW c \in Calls, NEW i \in Ids, last[i] = c,
           UNCHANGED <<last, kind, registry, groups, allocated, granted, gid>>,
           NEW d \in DLabels, dpc' = [dpc EXCEPT ![c] = d],
           NEW g \in GLabels, gpc' = [gpc EXCEPT ![c] = g],
           \A b \in Calls \ {c} : pc'[b] = pc[b] /\ id'[b] = id[b] /\ op'[b] = op[b],
           \A j \in Ids \ {i} :
               /\ deployments'[j] = deployments[j]
               /\ j \in LoadedDeployments' => j \in LoadedDeployments,
           CallInv(c)', GoneInv(i)',
           \/ ~(d = "group" /\ g = "register") /\ registry[i] = groups[i]
           \/ d = "teardown" /\ g = "take" /\ registry[i] = Nil,
           groups[i] # Nil \/ d = "group" =>
               \/ d = "teardown" /\ g = "take"
               \/ \A u \in {"prefill", "decode"} : Leased(<<i, u>>),
           i \in LoadedDeployments' \/ d \in {"plan", "runtime"} =>
               \/ Leased(<<i, "single">>) \/ d = "teardown"
               \/ d = "single" /\ pc'[c] = "ulock"
    PROVE  TablesInv'
<1>1. DTypes /\ \A k \in KeysOf(i) : allocated[k] = {} \/ Leased(k)
  BY SeenFrom
<1>2. /\ dpc'[c] = d /\ gpc'[c] = g
      /\ \A b \in Calls \ {c} : dpc'[b] = dpc[b] /\ gpc'[b] = gpc[b]
  BY <1>1 DEF DTypes
<1>3. \A k : Leased(k) => Leased(k)'
  BY DEF Leased
<1>4. DTypes'
  BY <1>1 DEF DTypes
<1>5. IdInv(i)'
  BY <1>1, <1>2, <1>3, SeenNext
<1> QED
  BY <1>2, <1>4, <1>5, TablesMove

LEMMA TablesBuildPlan ==
    ASSUME SingleInv, TablesInv, NEW c \in Calls, NEW i \in Ids,
           NEW p \in FixedPorts \cup {NoPort}, BuildPlan(c, i, p)
    PROVE  TablesInv'
<1>1. /\ dpc[c] = "plan" /\ last[i] = c
      /\ UNCHANGED <<group, kind, last, allocated, granted>>
  BY DEF BuildPlan
<1>2. /\ DTypes /\ CallInv(c) /\ registry[i] = groups[i]
      /\ groups[i] # Nil => \A u \in {"prefill", "decode"} : Leased(<<i, u>>)
      /\ Leased(<<i, "single">>)
  BY <1>1, SeenFrom
<1>3. kind[c] = "load" /\ gpc[c] \notin G!LoadLabels \cup {"take", "teardown", "release"}
  BY <1>1, <1>2 DEF CallInv
<1>4. GoneInv(i)'
  BY <1>1, <1>3 DEF GoneInv
<1>5. gpc' = [gpc EXCEPT ![c] = gpc[c]] /\ gpc[c] \in GLabels
  BY <1>1, <1>2 DEF group, DTypes
<1>6. CASE LoadModel(c, i, p) /\ Dispatch(c, "runtime")
  <2>1. /\ dpc' = [dpc EXCEPT ![c] = "runtime"] /\ dpc'[c] = "runtime"
        /\ pc'[c] = "lock" /\ id'[c] = i
        /\ \A b \in Calls \ {c} : pc'[b] = pc[b] /\ id'[b] = id[b] /\ op'[b] = op[b]
    <3>1. /\ pc' = [pc EXCEPT ![c] = "lock"] /\ id' = [id EXCEPT ![c] = i]
          /\ op' = [op EXCEPT ![c] = "load"]
      BY <1>6 DEF LoadModel, Goto
    <3> QED
      BY <1>2, <1>6, <3>1 DEF Dispatch, DTypes, SingleInv, TypeOK
  <2>2. /\ \A j \in Ids \ {i} : deployments'[j] = deployments[j]
        /\ \A j \in Ids : j \in LoadedDeployments' => j \in LoadedDeployments
    BY <1>6, NilAssumption
    DEF LoadModel, SingleInv, TypeOK, LoadedDeployments, StatusOf, SerialInv, FreshIsAbsent
  <2>3. CallInv(c)'
    BY <1>1, <1>2, <1>3, <2>1 DEF CallInv, group, Loading, Unloading, Waiting, Holding
  <2>4. UNCHANGED <<last, kind, registry, groups, allocated, granted, gid>> /\ "runtime" \in DLabels
    BY <1>1 DEF group, DLabels
  <2> QED
    BY <1>1, <1>2, <1>4, <1>5, <2>1, <2>2, <2>3, <2>4, TablesStay
<1>7. CASE Dispatch(c, "err") /\ UNCHANGED <<single, shared>>
  <2>1. /\ dpc' = [dpc EXCEPT ![c] = "err"] /\ dpc'[c] = "err"
        /\ LoadedDeployments' = LoadedDeployments
    BY <1>2, <1>7 DEF Dispatch, DTypes, single, LoadedDeployments, StatusOf
  <2>2. CallInv(c)'
    BY <1>1, <1>2, <1>3, <1>7, <2>1
    DEF CallInv, group, single, Loading, Unloading, Waiting, Holding
  <2> QED
    BY <1>1, <1>2, <1>4, <1>5, <1>7, <2>1, <2>2, TablesStay DEF group, single, DLabels
<1> QED
  BY <1>6, <1>7 DEF BuildPlan

LEMMA TablesAnswerLoad ==
    ASSUME TablesInv, NEW c \in Calls, AnswerLoad(c)
    PROVE  TablesInv'
<1>1. /\ UNCHANGED <<single, group, kind, last, allocated, granted>>
      /\ \E r \in {"ok", "err"} : Dispatch(c, r)
      /\ \/ dpc[c] = "runtime" /\ pc[c] \in Returned
         \/ dpc[c] = "group" /\ gpc[c] \in {"ok", "err"}
  BY DEF AnswerLoad, Returned
<1>2. CallInv(c) /\ DTypes
  BY DEF TablesInv
<1>3. PICK i \in Ids : last[i] = c
  BY <1>1, <1>2 DEF CallInv
<1>4. PICK r \in {"ok", "err"} : dpc' = [dpc EXCEPT ![c] = r] /\ dpc'[c] = r
  BY <1>1, <1>2 DEF Dispatch, DTypes
<1>5. /\ registry[i] = groups[i]
      /\ groups[i] # Nil => \A u \in {"prefill", "decode"} : Leased(<<i, u>>)
      /\ i \in LoadedDeployments => Leased(<<i, "single">>)
  BY <1>1, <1>3, SeenFrom DEF Returned
<1>6. CallInv(c)'
  BY <1>1, <1>2, <1>4
  DEF CallInv, group, single, Returned, Loading, Unloading, Waiting, Holding, G!LoadLabels
<1>7. GoneInv(i)'
  BY <1>1, <1>2, <1>3 DEF GoneInv, CallInv
<1>8. gpc' = [gpc EXCEPT ![c] = gpc[c]] /\ gpc[c] \in GLabels
  BY <1>1, <1>2 DEF group, DTypes
<1>9. LoadedDeployments' = LoadedDeployments
  BY <1>1 DEF single, LoadedDeployments, StatusOf
<1> QED
  BY <1>1, <1>3, <1>4, <1>5, <1>6, <1>7, <1>8, <1>9, TablesStay DEF group, single, DLabels

LEMMA TablesReleaseAll ==
    ASSUME TablesInv, NEW c \in Calls, ReleaseAll(c)
    PROVE  TablesInv'
<1> DEFINE i == gid[c]
<1>1. /\ dpc[c] = "release" /\ A!Release(KeysOf(i))
      /\ granted' = [k \in Keys |-> IF k \in KeysOf(i) THEN {} ELSE granted[k]]
      /\ dpc' = [dpc EXCEPT ![c] = "teardown"] /\ gpc' = [gpc EXCEPT ![c] = "take"]
      /\ UNCHANGED <<single, kind, last, groups, registry, gid>>
  BY DEF ReleaseAll, Dispatch, G!ReleaseLeases, G!Goto, G!frame
<1>2. CallInv(c) /\ DTypes
  BY DEF TablesInv
<1>3. i \in Ids /\ last[i] = c /\ kind[c] = "unload" /\ pc[c] = "idle"
  BY <1>1, <1>2 DEF CallInv
<1>4. /\ DOMAIN allocated' = Keys
      /\ \A k \in KeysOf(i) : allocated'[k] = {}
      /\ \A k \in Keys \ KeysOf(i) : allocated'[k] = allocated[k] /\ granted'[k] = granted[k]
  <2>1. KeysOf(i) \subseteq Keys
    BY <1>3, KeysApart
  <2> QED
    BY <1>1, <2>1, ReleaseEmpties
<1>5. /\ dpc'[c] = "teardown" /\ gpc'[c] = "take"
      /\ \A b \in Calls \ {c} : dpc'[b] = dpc[b] /\ gpc'[b] = gpc[b]
  BY <1>1, <1>2 DEF DTypes
<1>6. GoneInv(i) /\ registry[i] = Nil
  <2>1. GoneInv(i)
    BY <1>3, SeenFrom
  <2> QED
    BY <1>1, <1>3, <2>1, NilAssumption DEF GoneInv
<1>7. LoadedDeployments' = LoadedDeployments
  BY <1>1 DEF single, LoadedDeployments, StatusOf
<1>8. DTypes'
  BY <1>1, <1>2, <1>4 DEF DTypes, DLabels, GLabels, G!UnloadLabels
<1>9. CallInv(c)'
  BY <1>1, <1>2, <1>3, <1>5
  DEF single, CallInv, Loading, Unloading, Waiting, Holding, G!LoadLabels
<1>10. GoneInv(i)'
  BY <1>1, <1>3, <1>4, <1>5, <1>6 DEF GoneInv
<1>11. IdInv(i)'
  BY <1>1, <1>3, <1>4, <1>5, <1>6, <1>10, SeenNext
<1>12. \A j \in Ids \ {i} : \A k \in KeysOf(j) : allocated'[k] = allocated[k] /\ granted'[k] = granted[k]
  BY <1>3, <1>4, KeysApart
<1> QED
  BY <1>1, <1>3, <1>5, <1>7, <1>8, <1>9, <1>11, <1>12, TablesMove DEF single

LEMMA TablesUnloadSingle ==
    ASSUME SingleInv, TablesInv, NEW c \in Calls, UnloadSingle(c)
    PROVE  TablesInv'
<1> DEFINE i == gid[c]
<1>1. /\ dpc[c] = "teardown" /\ gpc[c] = "ok" /\ UnloadModel(c, i)
      /\ dpc' = [dpc EXCEPT ![c] = "single"]
      /\ UNCHANGED <<group, kind, last, allocated, granted>>
  BY DEF UnloadSingle, Dispatch
<1>2. CallInv(c) /\ DTypes
  BY DEF TablesInv
<1>3. i \in Ids /\ last[i] = c /\ kind[c] = "unload" /\ pc[c] = "idle"
  BY <1>1, <1>2 DEF CallInv
<1>4. /\ registry[i] = groups[i] /\ GoneInv(i)
      /\ groups[i] # Nil => \A u \in {"prefill", "decode"} : Leased(<<i, u>>)
  BY <1>1, <1>3, SeenFrom
<1>5. dpc'[c] = "single" /\ gpc' = [gpc EXCEPT ![c] = gpc[c]] /\ gpc[c] \in GLabels
  BY <1>1, <1>2 DEF group, DTypes
<1>6. /\ pc'[c] = IF deployments[i] = Nil THEN "ok" ELSE "ulock"
      /\ id'[c] = i /\ op'[c] = "unload"
      /\ \A b \in Calls \ {c} : pc'[b] = pc[b] /\ id'[b] = id[b] /\ op'[b] = op[b]
  <2>1. /\ pc' = [pc EXCEPT ![c] = IF deployments[i] = Nil THEN "ok" ELSE "ulock"]
        /\ id' = [id EXCEPT ![c] = i] /\ op' = [op EXCEPT ![c] = "unload"]
    BY <1>1 DEF UnloadModel, Goto
  <2> QED
    BY <2>1 DEF SingleInv, TypeOK
<1>7. UNCHANGED deployments /\ LoadedDeployments' = LoadedDeployments
  BY <1>1 DEF UnloadModel, table, LoadedDeployments, StatusOf
<1>8. i \in LoadedDeployments => deployments[i] # Nil
  BY DEF LoadedDeployments, StatusOf
<1>9. CallInv(c)'
  BY <1>1, <1>2, <1>3, <1>5, <1>6
  DEF group, CallInv, Loading, Unloading, Waiting, Holding, G!LoadLabels
<1>10. GoneInv(i)'
  BY <1>1, <1>3, <1>4, <1>5, <1>6, <1>7, NilAssumption DEF GoneInv, group
<1>11. UNCHANGED <<last, kind, registry, groups, allocated, granted, gid>> /\ "single" \in DLabels
  BY <1>1 DEF group, DLabels
<1> QED
  BY <1>1, <1>3, <1>4, <1>5, <1>6, <1>7, <1>8, <1>9, <1>10, <1>11, TablesStay

LEMMA TablesAnswerUnload ==
    ASSUME TablesInv, NEW c \in Calls, AnswerUnload(c)
    PROVE  TablesInv'
<1> DEFINE i == gid[c]
<1>1. /\ dpc[c] = "single" /\ pc[c] \in Returned
      /\ dpc' = [dpc EXCEPT ![c] = "ok"]
      /\ UNCHANGED <<single, group, kind, last, allocated, granted>>
  BY DEF AnswerUnload, Dispatch
<1>2. CallInv(c) /\ DTypes
  BY DEF TablesInv
<1>3. i \in Ids /\ last[i] = c /\ kind[c] = "unload"
  BY <1>1, <1>2 DEF CallInv
<1>4. /\ registry[i] = groups[i] /\ GoneInv(i)
      /\ groups[i] # Nil => \A u \in {"prefill", "decode"} : Leased(<<i, u>>)
      /\ i \in LoadedDeployments => Leased(<<i, "single">>)
  BY <1>1, <1>3, SeenFrom DEF Returned
<1>5. dpc'[c] = "ok" /\ gpc' = [gpc EXCEPT ![c] = gpc[c]] /\ gpc[c] \in GLabels
  BY <1>1, <1>2 DEF group, DTypes
<1>6. LoadedDeployments' = LoadedDeployments
  BY <1>1 DEF single, LoadedDeployments, StatusOf
<1>7. CallInv(c)'
  BY <1>1, <1>2, <1>5
  DEF single, group, CallInv, Returned, Loading, Unloading, Waiting, Holding
<1>8. GoneInv(i)'
  BY <1>1, <1>3, <1>4, <1>5, NilAssumption DEF GoneInv, group, single
<1>9. UNCHANGED <<last, kind, registry, groups, allocated, granted, gid>> /\ "ok" \in DLabels
  BY <1>1 DEF group, DLabels
<1> QED
  BY <1>1, <1>3, <1>4, <1>5, <1>6, <1>7, <1>8, <1>9, TablesStay DEF single

LEMMA TablesSingleStep ==
    ASSUME SingleInv, TablesInv, NEW c \in Calls, SingleStep(c)
    PROVE  TablesInv'
<1> DEFINE i == id[c]
<1>1. /\ dpc[c] \in {"runtime", "single"} /\ Step(c)
      /\ UNCHANGED <<group, dpc, kind, last, allocated, granted>>
  BY DEF SingleStep, own
<1>2. CallInv(c) /\ DTypes
  BY DEF TablesInv
<1>3. i \in Ids /\ last[i] = c
  BY <1>1, <1>2 DEF CallInv
<1>4. PICK l : /\ pc' = [pc EXCEPT ![c] = l]
               /\ \/ pc[c] \in Loading /\ l \in Loading \cup Returned
                  \/ /\ pc[c] \in Unloading
                     /\ l \in {"stop", "remove", "udrop"} \cup Returned
                     /\ l = "ok" => deployments'[id[c]] = Nil
  BY <1>1, StepSeen
<1>5. /\ pc'[c] = l /\ \A b \in Calls \ {c} : pc'[b] = pc[b]
      /\ UNCHANGED <<op, id>>
  BY <1>1, <1>4, StepSeen DEF SingleInv, TypeOK
<1>6. /\ \A j \in Ids \ {i} :
            /\ deployments'[j] = deployments[j]
            /\ j \in LoadedDeployments' => j \in LoadedDeployments
      /\ pc[c] \in Unloading =>
            /\ i \in LoadedDeployments' => i \in LoadedDeployments
            /\ pc[c] = "ulock" => i \notin LoadedDeployments'
  BY <1>1, StepSeen
<1>7. /\ dpc' = [dpc EXCEPT ![c] = dpc[c]] /\ dpc[c] \in DLabels
      /\ gpc' = [gpc EXCEPT ![c] = gpc[c]] /\ gpc[c] \in GLabels
      /\ UNCHANGED <<last, kind, registry, groups, allocated, granted, gid>>
  BY <1>1, <1>2 DEF group, DTypes
<1>8. CallInv(c)'
  BY <1>1, <1>2, <1>4, <1>5
  DEF group, CallInv, Returned, Loading, Unloading, Waiting, Holding
<1>9. /\ registry[i] = groups[i] /\ GoneInv(i)
      /\ groups[i] # Nil => \A u \in {"prefill", "decode"} : Leased(<<i, u>>)
      /\ i \in LoadedDeployments \/ dpc[c] = "runtime" =>
            Leased(<<i, "single">>) \/ (dpc[c] = "single" /\ pc[c] = "ulock")
  BY <1>1, <1>3, SeenFrom
<1>10. pc[c] \in Unloading <=> dpc[c] = "single"
  BY <1>1, <1>2, <1>4 DEF CallInv, Loading, Unloading
<1>11. GoneInv(i)'
  <2>1. kind[c] = "unload" => dpc[c] = "single"
    BY <1>1, <1>2 DEF CallInv
  <2>2. pc'[c] = "ok" /\ dpc[c] = "single" => deployments'[i] = Nil
    BY <1>4, <1>5, <1>10 DEF Loading, Unloading
  <2> QED
    BY <1>1, <1>3, <1>5, <1>7, <1>9, <2>1, <2>2, NilAssumption DEF GoneInv
<1>12. i \in LoadedDeployments' \/ dpc[c] \in {"plan", "runtime"} => Leased(<<i, "single">>)
  BY <1>1, <1>6, <1>9, <1>10
<1> QED
  BY <1>1, <1>3, <1>5, <1>6, <1>7, <1>8, <1>9, <1>11, <1>12, TablesStay

(* The steps of the group half, as far as the tables show them.              *)
GroupMoves(c, l) ==
    \/ /\ gpc[c] \in G!LoadLabels \ {"publish", "register"}
       /\ l \in (G!LoadLabels \ {"register"}) \cup {"err"}
       /\ UNCHANGED <<groups, registry>>
    \/ /\ gpc[c] = "publish" /\ l = "register"
       /\ groups' = [groups EXCEPT ![gid[c]] = c] /\ UNCHANGED registry
    \/ /\ gpc[c] = "register" /\ l = "ok"
       /\ registry' = [registry EXCEPT ![gid[c]] = c] /\ UNCHANGED groups
    \/ /\ gpc[c] = "take" /\ l \in {"teardown", "ok"}
       /\ groups' = [groups EXCEPT ![gid[c]] = Nil] /\ UNCHANGED registry
    \/ /\ gpc[c] = "teardown" /\ l \in {"teardown", "ok"}
       /\ UNCHANGED <<groups, registry>>

LEMMA GroupSeen ==
    ASSUME DTypes, NEW c \in Calls, GroupStep(c)
    PROVE  /\ dpc[c] \in {"group", "teardown"}
           /\ UNCHANGED <<single, dpc, kind, last, allocated, granted, gid>>
           /\ \E l : gpc' = [gpc EXCEPT ![c] = l] /\ GroupMoves(c, l)
<1>1. dpc[c] \in {"group", "teardown"} /\ UNCHANGED <<single, dpc, kind, last, allocated, granted>>
  BY DEF GroupStep, own
<1>2. G!LoadStep(c) \/ G!TakeGroup(c) \/ G!TeardownReplica(c)
  BY DEF GroupStep
<1>3. gpc = [gpc EXCEPT ![c] = gpc[c]]
  BY DEF DTypes
<1> USE DEF GroupMoves, G!LoadLabels, G!tables, G!frame, G!Goto
<1>4. CASE G!BuildDeploymentPlan(c) \/ G!PullGroup(c)
  BY <1>1, <1>4 DEF G!BuildDeploymentPlan, G!PullGroup
<1>5. CASE G!AllocPort(c)
  BY <1>1, <1>5 DEF G!AllocPort
<1>6. CASE G!CreateReplica(c)
  BY <1>1, <1>6 DEF G!CreateReplica
<1>7. CASE G!StartReplica(c) \/ G!WaitReady(c)
  BY <1>1, <1>7 DEF G!StartReplica, G!WaitReady
<1>8. CASE G!CleanupReplica(c) \/ G!RemoveImage(c)
  BY <1>1, <1>8 DEF G!CleanupReplica, G!RemoveImage
<1>9. CASE G!Rollback(c)
  BY <1>1, <1>3, <1>9 DEF G!Rollback
<1>10. CASE G!PublishGroup(c) \/ G!RegisterDisagg(c)
  BY <1>1, <1>10 DEF G!PublishGroup, G!RegisterDisagg
<1>11. CASE G!TakeGroup(c)
  BY <1>1, <1>11 DEF G!TakeGroup
<1>12. CASE G!TeardownReplica(c)
  BY <1>1, <1>3, <1>12 DEF G!TeardownReplica
<1> QED
  BY <1>2, <1>4, <1>5, <1>6, <1>7, <1>8, <1>9, <1>10, <1>11, <1>12 DEF G!LoadStep

(* Any such step keeps the tables in order, whoever made the group move.     *)
LEMMA TablesGroupMoves ==
    ASSUME TablesInv, NEW c \in Calls, NEW l, gpc' = [gpc EXCEPT ![c] = l],
           GroupMoves(c, l), UNCHANGED <<single, dpc, kind, last, allocated, granted, gid>>
    PROVE  TablesInv'
<1> DEFINE i == gid[c]
<1>1. CallInv(c) /\ DTypes
  BY DEF TablesInv
<1>2. /\ i \in Ids /\ last[i] = c /\ pc[c] = "idle"
      /\ \/ gpc[c] \in G!LoadLabels /\ dpc[c] = "group" /\ kind[c] = "groupLoad"
         \/ gpc[c] \in {"take", "teardown"} /\ dpc[c] = "teardown" /\ kind[c] = "unload"
  BY <1>1 DEF CallInv, GroupMoves, G!LoadLabels
<1>3. /\ l \in GLabels /\ gpc'[c] = l /\ \A b \in Calls \ {c} : gpc'[b] = gpc[b]
      /\ gpc' \in [Calls -> GLabels]
  BY <1>1 DEF DTypes, GroupMoves, GLabels, G!LoadLabels, G!UnloadLabels, G!Terminal
<1>4. /\ groups' \in [Ids -> Calls \cup {Nil}] /\ registry' \in [Ids -> Calls \cup {Nil}]
      /\ \A j \in Ids \ {i} : groups'[j] = groups[j] /\ registry'[j] = registry[j]
      /\ gpc[c] \in {"publish", "take"} => groups'[i] = IF gpc[c] = "publish" THEN c ELSE Nil
      /\ gpc[c] \notin {"publish", "take"} => groups'[i] = groups[i]
      /\ registry'[i] = IF gpc[c] = "register" THEN c ELSE registry[i]
  BY <1>1, <1>2 DEF DTypes, GroupMoves, G!LoadLabels
<1>5. LoadedDeployments' = LoadedDeployments /\ \A k : Leased(k) => Leased(k)'
  <2>1. LoadedDeployments' = LoadedDeployments
    BY DEF single, LoadedDeployments, StatusOf
  <2>2. \A k : Leased(k) => Leased(k)'
    BY DEF Leased
  <2> QED
    BY <2>1, <2>2
<1>6. DTypes'
  BY <1>1, <1>3, <1>4 DEF DTypes
<1>7. CallInv(c)'
  BY <1>1, <1>2, <1>3 DEF CallInv, GroupMoves, single, G!LoadLabels
<1>8. /\ \A k \in KeysOf(i) : allocated[k] = {} \/ Leased(k)
      /\ dpc[c] = "group" =>
            /\ \A u \in {"prefill", "decode"} : Leased(<<i, u>>)
            /\ i \in LoadedDeployments => Leased(<<i, "single">>)
            /\ gpc[c] # "register" => registry[i] = groups[i]
            /\ gpc[c] = "register" => groups[i] = c
      /\ GoneInv(i)
  BY <1>2, SeenFrom
<1>9. dpc[c] = "teardown" => registry[i] = Nil /\ (gpc[c] = "teardown" => groups[i] = Nil)
  BY <1>2, <1>8, NilAssumption DEF GoneInv
<1>10. GoneInv(i)'
  BY <1>2, <1>3, <1>4, <1>8, <1>9, NilAssumption DEF GoneInv, GroupMoves, single
<1>11. IdInv(i)'
  <2>1. CASE dpc[c] = "group"
    <3>1. \/ ~(l = "register") /\ registry'[i] = groups'[i]
          \/ l = "register" /\ groups'[i] = c
      BY <1>2, <1>4, <1>8, <2>1 DEF GroupMoves, G!LoadLabels
    <3> QED
      BY <1>2, <1>3, <1>5, <1>8, <1>10, <2>1, <3>1, SeenNext
  <2>2. CASE dpc[c] = "teardown"
    <3>1. groups'[i] = Nil /\ registry'[i] = Nil
      BY <1>2, <1>4, <1>9, <2>2 DEF G!LoadLabels
    <3> QED
      BY <1>2, <1>3, <1>5, <1>8, <1>10, <2>2, <3>1, SeenNext
  <2> QED
    BY <1>2, <2>1, <2>2
<1> QED
  BY <1>2, <1>3, <1>4, <1>5, <1>6, <1>7, <1>11, TablesMove DEF single

(* A start refused, or a probe answered, by the other half.                  *)
LEMMA DetoursSeen ==
    ASSUME DTypes, NEW c \in Calls, StartRefused(c) \/ ReadyByOther(c)
    PROVE  /\ UNCHANGED own /\ UNCHANGED shared
           /\ \/ Detour(c) /\ UNCHANGED group
              \/ /\ UNCHANGED <<single, gid>>
                 /\ \E l : gpc' = [gpc EXCEPT ![c] = l] /\ GroupMoves(c, l)
<1>1. CASE StartRefused(c) /\ pc[c] = "start" /\ Goto(c, "cleanup") /\ UNCHANGED gpc
  BY <1>1 DEF StartRefused, Detour, shared, group
<1>2. CASE StartRefused(c) /\ gpc[c] = "start" /\ G!Goto(c, "cleanup") /\ UNCHANGED pc
  <2>1. gpc' = [gpc EXCEPT ![c] = "cleanup"] /\ GroupMoves(c, "cleanup")
    BY <1>2 DEF StartRefused, GroupMoves, G!Goto, G!LoadLabels
  <2> QED
    BY <1>2, <2>1 DEF StartRefused, single
<1>3. CASE /\ ReadyByOther(c) /\ pc[c] \in {"ready", "ollama"} /\ UNCHANGED <<gpc, launched>>
           /\ Goto(c, IF pc[c] = "ready" THEN "ollama" ELSE "rmImage")
  BY <1>3 DEF ReadyByOther, Detour, Goto, shared, group
<1>4. CASE /\ ReadyByOther(c) /\ gpc[c] = "ready" /\ UNCHANGED pc
           /\ G!Goto(c, IF At(c) = G!Replicas THEN "rmImage" ELSE "alloc")
  <2> DEFINE l == IF At(c) = G!Replicas THEN "rmImage" ELSE "alloc"
  <2>1. gpc' = [gpc EXCEPT ![c] = l] /\ l \in {"rmImage", "alloc"}
    BY <1>4 DEF G!Goto
  <2>2. GroupMoves(c, l)
    BY <1>4, <2>1 DEF ReadyByOther, GroupMoves, G!LoadLabels
  <2>3. UNCHANGED <<single, gid>> /\ UNCHANGED own /\ UNCHANGED shared
    BY <1>4 DEF ReadyByOther, single
  <2> QED
    BY <2>1, <2>2, <2>3
<1> QED
  BY <1>1, <1>2, <1>3, <1>4 DEF StartRefused, ReadyByOther

LEMMA TablesDetour ==
    ASSUME SingleInv, TablesInv, NEW c \in Calls, Detour(c), UNCHANGED <<group, own>>
    PROVE  TablesInv'
<1> DEFINE i == id[c]
<1>1. CallInv(c) /\ DTypes
  BY DEF TablesInv
<1>2. PICK l \in Loading : pc' = [pc EXCEPT ![c] = l] /\ pc[c] \in Loading
  BY DEF Detour, Goto, Loading, Unloading, Waiting, Holding
<1>3. /\ dpc[c] = "runtime" /\ i \in Ids /\ last[i] = c /\ kind[c] = "load"
      /\ pc'[c] = l /\ \A b \in Calls \ {c} : pc'[b] = pc[b]
  BY <1>1, <1>2 DEF CallInv, SingleInv, TypeOK
<1>4. UNCHANGED <<id, op, deployments>> /\ LoadedDeployments' = LoadedDeployments
  BY DEF Detour, LoadedDeployments, StatusOf
<1>5. /\ dpc' = [dpc EXCEPT ![c] = dpc[c]] /\ dpc[c] \in DLabels
      /\ gpc' = [gpc EXCEPT ![c] = gpc[c]] /\ gpc[c] \in GLabels
      /\ UNCHANGED <<last, kind, registry, groups, allocated, granted, gid>>
  BY <1>1 DEF group, own, DTypes
<1>6. CallInv(c)'
  BY <1>1, <1>2, <1>3, <1>4, <1>5 DEF CallInv, Loading, Unloading, Waiting, Holding
<1>7. GoneInv(i)'
  <2>1. last'[i] = c /\ kind'[c] # "unload"
    BY <1>3, <1>5
  <2> QED
    BY <1>4, <2>1 DEF GoneInv
<1>8. /\ registry[i] = groups[i] /\ Leased(<<i, "single">>)
      /\ groups[i] # Nil => \A u \in {"prefill", "decode"} : Leased(<<i, u>>)
  BY <1>3, SeenFrom
<1> QED
  BY <1>3, <1>4, <1>5, <1>6, <1>7, <1>8, TablesStay

(* What the tables do not see.                                               *)
LEMMA TablesQuiet ==
    ASSUME TablesInv, UNCHANGED <<dpc, kind, last, allocated, granted, groups, registry, gpc, gid,
                                  pc, id, op, deployments, state>>
    PROVE  TablesInv'
<1>1. LoadedDeployments' = LoadedDeployments
  BY DEF LoadedDeployments, StatusOf
<1>2. DTypes' /\ Latest'
  BY DEF TablesInv, DTypes, Latest
<1>3. ASSUME NEW c \in Calls PROVE CallInv(c)'
  BY DEF TablesInv, CallInv
<1>4. ASSUME NEW i \in Ids PROVE IdInv(i)'
  <2>1. IdInv(i)
    BY DEF TablesInv
  <2>2. RegistryInv(i)'
    BY <2>1 DEF IdInv, RegistryInv, Registering, Where, BeforeTake
  <2>3. LeaseInv(i)'
    BY <1>1, <2>1 DEF IdInv, LeaseInv, Leased, Where, BeforeTake
  <2>4. GoneInv(i)'
    BY <2>1 DEF IdInv, GoneInv
  <2> QED
    BY <2>2, <2>3, <2>4 DEF IdInv
<1> QED
  BY <1>2, <1>3, <1>4 DEF TablesInv

(* After a restart the tables are empty, and no command is at work.          *)
LEMMA TablesRestart ==
    ASSUME SingleInv, TablesInv, DRestart
    PROVE  TablesInv'
<1>1. /\ deployments' = [i \in Ids |-> Nil]
      /\ pc' = [c \in Calls |-> IF InFlight(c) THEN "killed" ELSE pc[c]]
      /\ UNCHANGED <<op, id>>
  BY DEF DRestart, Restart, frame
<1>2. /\ groups' = [i \in Ids |-> Nil] /\ registry' = [i \in Ids |-> Nil]
      /\ gpc' = [c \in Calls |-> IF G!InFlight(c) THEN "killed" ELSE gpc[c]]
      /\ UNCHANGED gid
  BY DEF DRestart, G!Restart, G!frame
<1>3. /\ allocated' = [k \in Keys |-> {}] /\ UNCHANGED <<kind, last>>
      /\ dpc' = [c \in Calls |-> IF Working(c) THEN "killed" ELSE dpc[c]]
  BY DEF DRestart
<1>4. DTypes
  BY DEF TablesInv
<1>5. DTypes'
  BY <1>2, <1>3, <1>4 DEF DTypes, DLabels, GLabels, G!Terminal
<1>6. Latest'
  BY <1>3 DEF Latest, TablesInv
<1>7. ASSUME NEW c \in Calls PROVE CallInv(c)'
  <2>1. CallInv(c)
    BY DEF TablesInv
  <2>2. /\ dpc'[c] \notin {"plan", "runtime", "group", "release", "teardown", "single"}
        /\ dpc'[c] = "idle" <=> dpc[c] = "idle"
    BY <1>3 DEF Working
  <2>3. /\ gpc'[c] \notin G!LoadLabels \cup G!UnloadLabels
        /\ gpc'[c] = "idle" <=> gpc[c] = "idle"
    BY <1>2 DEF G!InFlight, G!LoadLabels, G!UnloadLabels
  <2>4. /\ pc'[c] \notin Loading \cup Unloading
        /\ pc'[c] = "idle" <=> pc[c] = "idle"
    BY <1>1 DEF InFlight, Loading, Unloading, Waiting, Holding
  <2> QED
    BY <1>1, <1>2, <1>3, <2>1, <2>2, <2>3, <2>4 DEF CallInv, G!UnloadLabels
<1>8. ASSUME NEW i \in Ids PROVE IdInv(i)'
  <2>1. /\ deployments'[i] = Nil /\ groups'[i] = Nil /\ registry'[i] = Nil
        /\ i \notin LoadedDeployments'
    BY <1>1, <1>2 DEF LoadedDeployments, StatusOf
  <2>2. \A k \in KeysOf(i) : allocated'[k] = {}
    BY <1>3, KeysApart
  <2>3. \A L : L \subseteq {"plan", "runtime", "group", "release", "teardown", "single"}
               => ~Where(i, L)'
    BY <1>3, <1>4 DEF Where, Working, DTypes
  <2>4. RegistryInv(i)' /\ LeaseInv(i)'
    BY <2>1, <2>2, <2>3 DEF RegistryInv, Registering, LeaseInv, BeforeTake
  <2>5. GoneInv(i)'
    <3> DEFINE c == last[i]
    <3> SUFFICES ASSUME c # Nil, kind[c] = "unload", dpc'[c] = "ok"
                 PROVE  /\ id[c] = i /\ op[c] = "unload" /\ gpc'[c] = "ok"
                        /\ pc'[c] \in Returned
      BY <1>1, <1>3, <1>4, <2>1, <2>2, <2>3 DEF GoneInv, Where, DTypes
    <3>1. GoneInv(i) /\ c \in Calls
      BY <1>4 DEF TablesInv, IdInv, DTypes
    <3>2. dpc[c] = "ok"
      BY <1>3, <3>1
    <3>3. id[c] = i /\ op[c] = "unload" /\ gpc[c] = "ok" /\ pc[c] \in Returned
      BY <3>1, <3>2 DEF GoneInv
    <3>4. ~G!InFlight(c) /\ ~InFlight(c)
      BY <3>3 DEF G!InFlight, G!LoadLabels, G!UnloadLabels, InFlight, Returned,
                  Waiting, Holding
    <3> QED
      BY <1>1, <1>2, <3>1, <3>3, <3>4
  <2> QED
    BY <2>4, <2>5 DEF IdInv
<1> QED
  BY <1>5, <1>6, <1>7, <1>8 DEF TablesInv

LEMMA TablesNext == SingleInv /\ TablesInv /\ [DNext]_dvars => TablesInv'
<1> SUFFICES ASSUME SingleInv, TablesInv, [DNext]_dvars PROVE TablesInv'
  OBVIOUS
<1>1. DTypes
  BY DEF TablesInv
<1>2. CASE \E c \in Calls, i \in Ids :
              \/ \E g \in GPUChoices : DispatchLoad(c, i, g) \/ DispatchGroupLoad(c, i, g)
              \/ DispatchUnload(c, i)
              \/ \E p \in FixedPorts \cup {NoPort} : BuildPlan(c, i, p)
  BY <1>2, TablesDispatchLoad, TablesDispatchGroupLoad, TablesDispatchUnload,
     TablesBuildPlan
<1>3. ASSUME NEW c \in Calls,
             \/ AnswerLoad(c) \/ ReleaseAll(c) \/ UnloadSingle(c) \/ AnswerUnload(c)
             \/ SingleStep(c)
      PROVE  TablesInv'
  BY <1>3, TablesAnswerLoad, TablesReleaseAll, TablesUnloadSingle, TablesAnswerUnload,
     TablesSingleStep
<1>4. ASSUME NEW c \in Calls, GroupStep(c) PROVE TablesInv'
  BY <1>1, <1>4, GroupSeen, TablesGroupMoves
<1>5. ASSUME NEW c \in Calls, StartRefused(c) \/ ReadyByOther(c) PROVE TablesInv'
  <2>1. CASE Detour(c) /\ UNCHANGED <<group, own>>
    BY <2>1, TablesDetour
  <2>2. CASE /\ UNCHANGED <<single, gid>> /\ UNCHANGED own
             /\ \E l : gpc' = [gpc EXCEPT ![c] = l] /\ GroupMoves(c, l)
    BY <2>2, TablesGroupMoves DEF own
  <2> QED
    BY <1>1, <1>5, <2>1, <2>2, DetoursSeen
<1>6. ASSUME NEW c \in Calls, Exits(c) PROVE TablesInv'
  BY <1>6, TablesQuiet
  DEF Exits, ContainerExits, G!ContainerExits, G!tables, G!frame, table, frame, group,
      single
<1>7. CASE DDisconnect
  BY <1>7, TablesQuiet DEF DDisconnect, single, group
<1>8. CASE DRestart
  BY <1>8, TablesRestart
<1>9. CASE UNCHANGED dvars
  BY <1>9, TablesQuiet DEF dvars, single, group, own
<1> QED
  BY <1>2, <1>3, <1>4, <1>5, <1>6, <1>7, <1>8, <1>9 DEF DNext

(* What a step of the worker does to the single half.                        *)
LEMMA SingleSees == SingleInv /\ TablesInv /\ [DNext]_dvars => SingleMoves
<1> SUFFICES ASSUME SingleInv, TablesInv, [DNext]_dvars PROVE SingleMoves
  OBVIOUS
<1>1. DTypes /\ image \in BOOLEAN /\ cancelled \in SUBSET Calls
  BY DEF TablesInv, SingleInv, TypeOK
<1>2. ASSUME NEW c \in Calls, NEW i \in Ids,
             \/ \E g \in GPUChoices : DispatchLoad(c, i, g) \/ DispatchGroupLoad(c, i, g)
             \/ DispatchUnload(c, i)
      PROVE  SingleMoves
  BY <1>1, <1>2
  DEF DispatchLoad, DispatchGroupLoad, DispatchUnload, G!LoadModel, G!UnloadModel,
      G!docker, G!env, shared, SingleMoves
<1>3. ASSUME NEW c \in Calls, NEW i \in Ids, NEW p \in FixedPorts \cup {NoPort},
             BuildPlan(c, i, p)
      PROVE  SingleMoves
  <2>1. CASE LoadModel(c, i, p)
    BY <2>1 DEF SingleMoves, Next
  <2>2. CASE UNCHANGED <<single, shared>>
    BY <1>1, <2>2 DEF SingleMoves, shared
  <2> QED
    BY <1>3, <2>1, <2>2 DEF BuildPlan
<1>4. ASSUME NEW c \in Calls, AnswerLoad(c) \/ ReleaseAll(c) \/ AnswerUnload(c)
      PROVE  SingleMoves
  BY <1>1, <1>4
  DEF AnswerLoad, ReleaseAll, AnswerUnload, G!ReleaseLeases, G!docker, G!env, shared,
      SingleMoves
<1>5. ASSUME NEW c \in Calls, UnloadSingle(c) PROVE SingleMoves
  <2>1. CallInv(c) /\ dpc[c] = "teardown"
    BY <1>5 DEF TablesInv, UnloadSingle
  <2>2. gid[c] \in Ids /\ UnloadModel(c, gid[c])
    BY <1>5, <2>1 DEF CallInv, UnloadSingle
  <2> QED
    BY <2>2 DEF SingleMoves, Next
<1>6. ASSUME NEW c \in Calls, SingleStep(c) PROVE SingleMoves
  BY <1>6 DEF SingleStep, SingleMoves, Next
<1>7. ASSUME NEW c \in Calls, GroupStep(c) PROVE SingleMoves
  <2>1. /\ UNCHANGED single
        /\ G!LoadStep(c) \/ G!TakeGroup(c) \/ G!TeardownReplica(c)
    BY <1>7 DEF GroupStep
  <2>2. UNCHANGED <<cancelled, restarts>> /\ image' \in BOOLEAN
    BY <1>1, <2>1
    DEF G!LoadStep, G!BuildDeploymentPlan, G!PullGroup, G!AllocPort, G!CreateReplica,
        G!StartReplica, G!WaitReady, G!CleanupReplica, G!Rollback, G!RemoveImage,
        G!PublishGroup, G!RegisterDisagg, G!TakeGroup, G!TeardownReplica, G!docker, G!env
  <2> QED
    BY <1>1, <2>1, <2>2 DEF SingleMoves
<1>8. ASSUME NEW c \in Calls, StartRefused(c) \/ ReadyByOther(c) PROVE SingleMoves
  <2>1. CASE Detour(c)
    BY <2>1 DEF SingleMoves
  <2>2. CASE UNCHANGED single /\ UNCHANGED shared
    BY <1>1, <2>2 DEF SingleMoves, shared
  <2> QED
    BY <1>1, <1>8, <2>1, <2>2, DetoursSeen
<1>9. ASSUME NEW c \in Calls, Exits(c) PROVE SingleMoves
  <2>1. CASE ContainerExits(c)
    BY <2>1 DEF SingleMoves, Next
  <2>2. CASE \E s \in G!Slots : G!ContainerExits(c, s) /\ UNCHANGED single
    BY <1>1, <2>2 DEF SingleMoves, G!ContainerExits, G!env
  <2> QED
    BY <1>9, <2>1, <2>2 DEF Exits
<1>10. CASE DDisconnect
  BY <1>1, <1>10 DEF DDisconnect, SingleMoves
<1>11. CASE DRestart
  BY <1>11 DEF DRestart, SingleMoves, Next
<1>12. CASE UNCHANGED dvars
  BY <1>1, <1>12 DEF dvars, shared, SingleMoves
<1> QED
  BY <1>2, <1>3, <1>4, <1>5, <1>6, <1>7, <1>8, <1>9, <1>10, <1>11, <1>12 DEF DNext

(* Both halves' invariants together, for a control plane that waits.         *)
LEMMA CoreInvariant ==
    ASSUME Sender = "serial"
    PROVE  DSpec => [](SingleInv /\ TablesInv)
<1>1. DInit => SingleInv /\ TablesInv
  BY SingleInit, TablesInit DEF DInit
<1>2. SingleInv /\ TablesInv /\ [DNext]_dvars => (SingleInv /\ TablesInv)'
  BY SingleKeeps, SingleSees, TablesNext
<1> QED
  BY <1>1, <1>2, PTL DEF DSpec

(* The load that made what is in a table is among those that have leased its *)
(* keys since they were released.                                            *)
OwnInv(i) ==
    /\ i \in LoadedDeployments =>
          \/ Owned(<<i, "single">>, ContainerForDeployment(i))
          \/ Where(i, {"teardown"})
          \/ Where(i, {"single"}) /\ pc[last[i]] = "ulock"
    /\ Where(i, {"plan", "runtime"}) => Owned(<<i, "single">>, last[i])
    /\ groups[i] # Nil =>
          BeforeTake(i) \/ \A u \in {"prefill", "decode"} : Owned(<<i, u>>, groups[i])
    /\ Where(i, {"group"}) => \A u \in {"prefill", "decode"} : Owned(<<i, u>>, last[i])

OwnInvs == \A i \in Ids : OwnInv(i)

LEMMA OwnInit == DInit => OwnInvs
  BY DEF DInit, Init, G!Init, OwnInvs, OwnInv, Where, LoadedDeployments, StatusOf

(* What a step puts into the state running, and with which container.        *)
LEMMA StepOwns ==
    ASSUME SingleInv, NEW c \in Calls, Step(c), NEW i \in Ids, i \in LoadedDeployments'
    PROVE  \/ /\ i \in LoadedDeployments
              /\ ContainerForDeployment(i)' = ContainerForDeployment(i)
           \/ pc[c] = "setRunning" /\ i = id[c] /\ ContainerForDeployment(i)' = c
<1> DEFINE o == obj[c]
<1> USE DEF SingleInv
<1>1. /\ InFlight(c) /\ id[c] \in Ids /\ o \in Calls /\ deployments[id[c]] = o
      /\ \A j \in Ids \ {id[c]} : deployments[j] # o
      /\ o # Nil
  <2>1. InFlight(c)
    BY DEF Step, LoadStep, UnloadStep, LockLoad, CheckEndpoint, ReturnCurrent, AllocPort,
           SetPulling, Pull, ClearStale, Create, SetContainerID, SetStarting, Start,
           WaitReady, OllamaPullIfNeeded, RemoveImage, Publish, SetRunning, Cleanup,
           SetFailed, DropFailed, LockUnload, StopContainer, RemoveContainer,
           DropUnloaded, InFlight, Waiting, Holding
  <2>2. id[c] \in Ids /\ o \in Calls /\ deployments[id[c]] = o
    BY <2>1 DEF SerialInv, WorksInTable
  <2> QED
    BY <2>1, <2>2, NilAssumption DEF PortInv, TableOfOwnIds
<1>2. CASE UNCHANGED <<deployments, state, containerID>>
  BY <1>2 DEF LoadedDeployments, StatusOf, ContainerForDeployment
<1>3. CASE drop(id[c]) /\ UNCHANGED <<state, containerID>>
  BY <1>1, <1>3 DEF drop, LoadedDeployments, StatusOf, ContainerForDeployment
<1>4. CASE /\ \E s : s # "running" /\ setState(id[c], s)
           /\ UNCHANGED <<deployments, containerID>>
  BY <1>1, <1>4 DEF setState, LoadedDeployments, StatusOf, ContainerForDeployment, TypeOK
<1>5. CASE SetContainerID(c) \/ Publish(c)
  <2>1. /\ containerID' = [containerID EXCEPT ![o] = c]
        /\ UNCHANGED <<deployments, state>> /\ pc[c] \in {"setCid", "publish"}
    BY <1>1, <1>5 DEF SetContainerID, setContainerID, Publish
  <2>2. state[o] # "running"
    BY <2>1 DEF SerialInv, FoundDown, Down, Holding
  <2> QED
    BY <1>1, <2>1, <2>2 DEF LoadedDeployments, StatusOf, ContainerForDeployment, TypeOK
<1>6. CASE SetRunning(c)
  <2>1. /\ setState(id[c], "running") /\ UNCHANGED <<deployments, containerID>>
        /\ pc[c] = "setRunning" /\ containerID[o] = c
    BY <1>6 DEF SetRunning, TrackInv, PublishedOwn
  <2> QED
    BY <1>1, <2>1 DEF setState, LoadedDeployments, StatusOf, ContainerForDeployment, TypeOK
<1>7. CASE LockLoad(c)
  BY <1>2, <1>7 DEF LockLoad, table
<1> QED
  BY <1>2, <1>3, <1>4, <1>5, <1>6, <1>7
  DEF Step, LoadStep, UnloadStep, LockLoad, CheckEndpoint, ReturnCurrent, AllocPort,
      SetPulling, Pull, ClearStale, Create, SetStarting, Start, WaitReady,
      OllamaPullIfNeeded, RemoveImage, Cleanup, SetFailed, DropFailed, LockUnload,
      StopContainer, RemoveContainer, DropUnloaded, table

(* Command c takes a step for deployment i; the others keep what they have.  *)
LEMMA OwnMove ==
    ASSUME TablesInv, OwnInvs, NEW c \in Calls, NEW i \in Ids,
           last'[i] = c, \A j \in Ids \ {i} : last'[j] = last[j],
           last[i] = c \/ dpc[c] = "idle",
           \A b \in Calls \ {c} : dpc'[b] = dpc[b] /\ gpc'[b] = gpc[b] /\ pc'[b] = pc[b],
           \A j \in Ids \ {i} :
               /\ groups'[j] = groups[j]
               /\ j \in LoadedDeployments' =>
                     /\ j \in LoadedDeployments
                     /\ ContainerForDeployment(j)' = ContainerForDeployment(j)
               /\ \A k \in KeysOf(j) : granted'[k] = granted[k],
           OwnInv(i)'
    PROVE  OwnInvs'
<1>1. \A j \in Ids \ {i} : last[j] # c
  BY NilAssumption DEF TablesInv, Latest, CallInv
<1>2. ASSUME NEW j \in Ids \ {i} PROVE OwnInv(j)'
  <2>1. OwnInv(j) /\ (last[j] # Nil => last[j] \in Calls \ {c})
    BY <1>1 DEF OwnInvs, TablesInv, DTypes
  <2>2. \A u \in Uses : <<j, u>> \in KeysOf(j)
    BY DEF KeysOf
  <2>3. \A u \in {"single", "prefill", "decode"} : \A b :
           Owned(<<j, u>>, b) => Owned(<<j, u>>, b)'
    BY <1>2, <2>2 DEF Owned, Uses
  <2>4. /\ \A L : Where(j, L)' <=> Where(j, L)
        /\ BeforeTake(j)' <=> BeforeTake(j)
        /\ last'[j] = last[j] /\ groups'[j] = groups[j]
        /\ last[j] # Nil => pc'[last[j]] = pc[last[j]]
    BY <1>2, <2>1 DEF Where, BeforeTake
  <2> QED
    <3>1. \A b : Owned(<<j, "single">>, b) => Owned(<<j, "single">>, b)'
      BY <2>3
    <3>2. j \in LoadedDeployments' =>
             \/ Owned(<<j, "single">>, ContainerForDeployment(j))'
             \/ Where(j, {"teardown"})'
             \/ Where(j, {"single"})' /\ pc'[last'[j]] = "ulock"
      <4>1. ASSUME j \in LoadedDeployments'
            PROVE  /\ j \in LoadedDeployments
                   /\ ContainerForDeployment(j)' = ContainerForDeployment(j)
        BY <1>2, <4>1
      <4>2. ASSUME Where(j, {"single"}) PROVE last[j] # Nil
        BY <4>2 DEF Where
      <4>3. ASSUME j \in LoadedDeployments', Owned(<<j, "single">>, ContainerForDeployment(j))
            PROVE  Owned(<<j, "single">>, ContainerForDeployment(j))'
        BY <3>1, <4>1, <4>3 DEF Owned
      <4> QED
        BY <2>1, <2>4, <4>1, <4>2, <4>3 DEF OwnInv
    <3>3. Where(j, {"plan", "runtime"})' => Owned(<<j, "single">>, last[j])'
      BY <2>1, <2>4, <3>1 DEF OwnInv, Owned
    <3>4. groups'[j] # Nil =>
             BeforeTake(j)' \/ \A u \in {"prefill", "decode"} : Owned(<<j, u>>, groups[j])'
      BY <2>1, <2>3, <2>4 DEF OwnInv, Owned
    <3>5. Where(j, {"group"})' => \A u \in {"prefill", "decode"} : Owned(<<j, u>>, last[j])'
      BY <2>1, <2>3, <2>4 DEF OwnInv, Owned
    <3> QED
      BY <3>2, <3>3, <3>4, <3>5 DEF OwnInv
<1> QED
  BY <1>2 DEF OwnInvs

(* A step that leaves the leases alone.                                      *)
LEMMA OwnStay ==
    ASSUME TablesInv, OwnInvs, NEW c \in Calls, NEW i \in Ids, last[i] = c,
           UNCHANGED <<last, granted>>,
           \A b \in Calls \ {c} : dpc'[b] = dpc[b] /\ gpc'[b] = gpc[b] /\ pc'[b] = pc[b],
           \A j \in Ids : \/ groups'[j] = groups[j]
                          \/ j = i /\ groups'[j] \in {c, Nil},
           \A j \in Ids : j \in LoadedDeployments' =>
               \/ /\ j \in LoadedDeployments
                  /\ ContainerForDeployment(j)' = ContainerForDeployment(j)
               \/ j = i /\ dpc[c] = "runtime" /\ ContainerForDeployment(j)' = c,
           dpc'[c] \in {"plan", "runtime"} => dpc[c] \in {"plan", "runtime"},
           dpc'[c] = "group" => dpc[c] = "group",
           dpc[c] = "teardown" /\ i \in LoadedDeployments' =>
               dpc'[c] = "teardown" \/ (dpc'[c] = "single" /\ pc'[c] = "ulock"),
           dpc[c] = "single" /\ pc[c] = "ulock" /\ i \in LoadedDeployments' =>
               dpc'[c] = "single" /\ pc'[c] = "ulock",
           groups'[i] = c => dpc[c] = "group" \/ groups[i] = c,
           groups'[i] # Nil /\ gpc[c] = "take" => dpc'[c] = "teardown" /\ gpc'[c] = "take"
    PROVE  OwnInvs'
<1>1. DTypes /\ c # Nil /\ OwnInv(i)
  BY NilAssumption DEF TablesInv, OwnInvs
<1>2. last'[i] = c
  OBVIOUS
<1>3. /\ \A L : Where(i, L) <=> dpc[c] \in L
      /\ \A L : Where(i, L)' <=> dpc'[c] \in L
      /\ BeforeTake(i) <=> dpc[c] = "teardown" /\ gpc[c] = "take"
      /\ BeforeTake(i)' <=> dpc'[c] = "teardown" /\ gpc'[c] = "take"
  BY <1>1, <1>2 DEF Where, BeforeTake
<1>4. \A k, b : Owned(k, b) => Owned(k, b)'
  BY DEF Owned
<1>5. /\ i \in LoadedDeployments =>
            \/ Owned(<<i, "single">>, ContainerForDeployment(i))
            \/ dpc[c] = "teardown"
            \/ dpc[c] = "single" /\ pc[c] = "ulock"
      /\ dpc[c] \in {"plan", "runtime"} => Owned(<<i, "single">>, c)
      /\ groups[i] # Nil =>
            \/ dpc[c] = "teardown" /\ gpc[c] = "take"
            \/ \A u \in {"prefill", "decode"} : Owned(<<i, u>>, groups[i])
      /\ dpc[c] = "group" => \A u \in {"prefill", "decode"} : Owned(<<i, u>>, c)
  BY <1>1, <1>3 DEF OwnInv
<1>6. i \in LoadedDeployments' =>
         \/ Owned(<<i, "single">>, ContainerForDeployment(i))'
         \/ dpc'[c] = "teardown"
         \/ dpc'[c] = "single" /\ pc'[c] = "ulock"
  BY <1>5 DEF Owned
<1>7. dpc'[c] \in {"plan", "runtime"} => Owned(<<i, "single">>, c)'
  BY <1>4, <1>5
<1>8. groups'[i] # Nil =>
         \/ dpc'[c] = "teardown" /\ gpc'[c] = "take"
         \/ \A u \in {"prefill", "decode"} : Owned(<<i, u>>, groups[i])'
  BY <1>5 DEF Owned
<1>9. dpc'[c] = "group" => \A u \in {"prefill", "decode"} : Owned(<<i, u>>, c)'
  BY <1>4, <1>5
<1>10. OwnInv(i)'
  BY <1>2, <1>3, <1>6, <1>7, <1>8, <1>9 DEF OwnInv
<1> QED
  BY <1>1, <1>2, <1>10, OwnMove DEF ContainerForDeployment

LEMMA OwnDispatch ==
    ASSUME TablesInv, OwnInvs, NEW c \in Calls, NEW i \in Ids, NEW k, Receive(c, i, k),
           NEW d \in {"plan", "group", "release", "err"},
           dpc' = [dpc EXCEPT ![c] = d],
           UNCHANGED <<deployments, state, containerID, pc, groups>>,
           \A b \in Calls \ {c} : gpc'[b] = gpc[b],
           \A h \in KeysOf(i) : granted[h] \subseteq granted'[h],
           \A h \in Keys \ KeysOf(i) : granted'[h] = granted[h],
           d = "plan" => Owned(<<i, "single">>, c)',
           d = "group" => \A u \in {"prefill", "decode"} : Owned(<<i, u>>, c)'
    PROVE  OwnInvs'
<1>1. /\ dpc[c] = "idle" /\ Idle(i) /\ last'[i] = c
      /\ \A j \in Ids \ {i} : last'[j] = last[j]
  BY ReceiveSeen
<1>2. DTypes /\ OwnInv(i) /\ c # Nil
  BY NilAssumption DEF TablesInv, OwnInvs
<1>3. dpc'[c] = d /\ \A b \in Calls \ {c} : dpc'[b] = dpc[b]
  BY <1>2 DEF DTypes
<1>4. /\ LoadedDeployments' = LoadedDeployments
      /\ \A j \in Ids : ContainerForDeployment(j)' = ContainerForDeployment(j)
  BY DEF LoadedDeployments, StatusOf, ContainerForDeployment
<1>6. \A u \in {"single", "prefill", "decode"} : \A b :
         Owned(<<i, u>>, b) => Owned(<<i, u>>, b)'
  <2>1. \A u \in Uses : granted[<<i, u>>] \subseteq granted'[<<i, u>>]
    BY KeysApart
  <2> QED
    BY <2>1 DEF Owned, Uses
<1>7. /\ i \in LoadedDeployments => Owned(<<i, "single">>, ContainerForDeployment(i))
      /\ groups[i] # Nil => \A u \in {"prefill", "decode"} : Owned(<<i, u>>, groups[i])
  BY <1>1, <1>2 DEF OwnInv, BeforeTake, Where, Idle, Working
<1>8. \A L : Where(i, L)' <=> d \in L
  BY <1>1, <1>2, <1>3 DEF Where
<1>9. OwnInv(i)'
  <2>1. i \in LoadedDeployments' => Owned(<<i, "single">>, ContainerForDeployment(i))'
    BY <1>4, <1>6, <1>7 DEF Owned
  <2>2. d \in {"plan", "runtime"} => Owned(<<i, "single">>, c)'
    OBVIOUS
  <2>3. groups'[i] # Nil =>
           \A u \in {"prefill", "decode"} : Owned(<<i, u>>, groups[i])'
    BY <1>6, <1>7 DEF Owned
  <2>4. d = "group" => \A u \in {"prefill", "decode"} : Owned(<<i, u>>, c)'
    OBVIOUS
  <2> QED
    BY <1>1, <1>8, <2>1, <2>2, <2>3, <2>4 DEF OwnInv
<1>10. \A j \in Ids \ {i} : \A h \in KeysOf(j) : granted'[h] = granted[h]
  BY KeysApart
<1> QED
  BY <1>1, <1>3, <1>4, <1>9, <1>10, OwnMove DEF ContainerForDeployment

LEMMA OwnNext == SingleInv /\ TablesInv /\ OwnInvs /\ [DNext]_dvars => OwnInvs'
<1> SUFFICES ASSUME SingleInv, TablesInv, OwnInvs, [DNext]_dvars PROVE OwnInvs'
  OBVIOUS
<1> DEFINE same == /\ UNCHANGED <<deployments, state, containerID>>
<1>1. DTypes
  BY DEF TablesInv
<1>s. ASSUME same
      PROVE  /\ LoadedDeployments' = LoadedDeployments
             /\ \A j \in Ids : ContainerForDeployment(j)' = ContainerForDeployment(j)
  BY <1>s DEF LoadedDeployments, StatusOf, ContainerForDeployment
<1>q. ASSUME same, UNCHANGED <<last, dpc, gpc, pc, groups, granted>> PROVE OwnInvs'
  <2>1. ASSUME NEW i \in Ids PROVE OwnInv(i)'
    BY <1>s, <1>q DEF OwnInvs, OwnInv, Owned, Where, BeforeTake
  <2> QED
    BY <2>1 DEF OwnInvs
<1>l. ASSUME NEW c \in Calls, NEW i \in Ids, NEW k, Receive(c, i, k), NEW g,
             NEW K \in SUBSET KeysOf(i), Lease(c, K, g)
      PROVE  /\ \A h \in Keys \ K : granted'[h] = granted[h]
             /\ \A h \in K : granted[h] \subseteq granted'[h] /\ Owned(h, c)'
  <2>1. K \in SUBSET Keys
    BY KeysApart
  <2>2. \A h \in K : allocated[h] = {} \/ Leased(h)
    BY <1>l, ReceiveSeen, AtRest
  <2>3. \A h \in K : granted[h] \subseteq granted'[h]
    BY <1>l, <2>1 DEF Lease
  <2> QED
    BY <1>l, <2>1, <2>2, <2>3, LeaseGrants
<1>2. ASSUME NEW c \in Calls, NEW i \in Ids, NEW g \in GPUChoices, DispatchLoad(c, i, g)
      PROVE  OwnInvs'
  <2> DEFINE K == {<<i, "single">>}
  <2>1. /\ Receive(c, i, "load") /\ same /\ UNCHANGED <<pc, groups>>
        /\ \A b \in Calls \ {c} : gpc'[b] = gpc[b]
        /\ \/ Lease(c, K, g) /\ dpc' = [dpc EXCEPT ![c] = "plan"]
           \/ dpc' = [dpc EXCEPT ![c] = "err"] /\ UNCHANGED granted
    BY <1>2 DEF DispatchLoad, Refuse, Dispatch, single, group
  <2>2. K \in SUBSET KeysOf(i) /\ <<i, "single">> \in K
    BY DEF KeysOf, Uses
  <2> HIDE DEF K
  <2>3. CASE Lease(c, K, g) /\ dpc' = [dpc EXCEPT ![c] = "plan"]
    <3>1. /\ \A h \in Keys \ K : granted'[h] = granted[h]
          /\ \A h \in K : granted[h] \subseteq granted'[h] /\ Owned(h, c)'
      BY <1>l, <2>1, <2>2, <2>3
    <3>2. /\ \A h \in KeysOf(i) : granted[h] \subseteq granted'[h]
          /\ \A h \in Keys \ KeysOf(i) : granted'[h] = granted[h]
      BY <2>2, <3>1, KeysApart
    <3> QED
      BY <2>1, <2>2, <2>3, <3>1, <3>2, OwnDispatch
  <2>4. CASE dpc' = [dpc EXCEPT ![c] = "err"] /\ UNCHANGED granted
    BY <2>1, <2>4, OwnDispatch
  <2> QED
    BY <2>1, <2>3, <2>4
<1>3. ASSUME NEW c \in Calls, NEW i \in Ids, NEW g \in GPUChoices, DispatchGroupLoad(c, i, g)
      PROVE  OwnInvs'
  <2> DEFINE K == KeysOf(i) \ {<<i, "single">>}
  <2>1. /\ Receive(c, i, "groupLoad") /\ same /\ UNCHANGED <<pc, groups>>
        /\ \A b \in Calls \ {c} : gpc'[b] = gpc[b]
        /\ \/ Lease(c, K, g) /\ dpc' = [dpc EXCEPT ![c] = "group"]
           \/ dpc' = [dpc EXCEPT ![c] = "err"] /\ UNCHANGED granted
    BY <1>1, <1>3 DEF DispatchGroupLoad, Refuse, Dispatch, single, DTypes, G!LoadModel, G!Goto
  <2>2. /\ K \in SUBSET KeysOf(i)
        /\ <<i, "prefill">> \in K /\ <<i, "decode">> \in K
    BY DEF KeysOf, Uses
  <2> HIDE DEF K
  <2>3. CASE Lease(c, K, g) /\ dpc' = [dpc EXCEPT ![c] = "group"]
    <3>1. /\ \A h \in Keys \ K : granted'[h] = granted[h]
          /\ \A h \in K : granted[h] \subseteq granted'[h] /\ Owned(h, c)'
      BY <1>l, <2>1, <2>2, <2>3
    <3>2. /\ \A h \in KeysOf(i) : granted[h] \subseteq granted'[h]
          /\ \A h \in Keys \ KeysOf(i) : granted'[h] = granted[h]
      BY <2>2, <3>1, KeysApart
    <3> QED
      BY <2>1, <2>2, <2>3, <3>1, <3>2, OwnDispatch
  <2>4. CASE dpc' = [dpc EXCEPT ![c] = "err"] /\ UNCHANGED granted
    BY <2>1, <2>4, OwnDispatch
  <2> QED
    BY <2>1, <2>3, <2>4
<1>4. ASSUME NEW c \in Calls, NEW i \in Ids, DispatchUnload(c, i) PROVE OwnInvs'
  <2>1. /\ Receive(c, i, "unload") /\ same /\ UNCHANGED <<pc, groups, granted>>
        /\ \A b \in Calls \ {c} : gpc'[b] = gpc[b]
        /\ dpc' = [dpc EXCEPT ![c] = "release"]
    BY <1>1, <1>4 DEF DispatchUnload, Dispatch, single, DTypes, G!UnloadModel, G!Goto
  <2> QED
    BY <2>1, OwnDispatch
<1>5. ASSUME NEW c \in Calls, NEW i \in Ids, NEW p \in FixedPorts \cup {NoPort},
             BuildPlan(c, i, p)
      PROVE  OwnInvs'
  <2>1. /\ dpc[c] = "plan" /\ last[i] = c /\ pc[c] = "idle" /\ i \in Ids
        /\ UNCHANGED <<group, last, granted>>
        /\ gpc[c] # "take"
    BY <1>1, <1>5 DEF BuildPlan, TablesInv, CallInv
  <2>2. dpc'[c] \in {"runtime", "err"} /\ \A b \in Calls \ {c} : dpc'[b] = dpc[b]
    BY <1>1, <1>5 DEF BuildPlan, Dispatch, DTypes
  <2>3. /\ \A b \in Calls \ {c} : pc'[b] = pc[b]
        /\ \A j \in Ids : j \in LoadedDeployments' =>
              /\ j \in LoadedDeployments
              /\ ContainerForDeployment(j)' = ContainerForDeployment(j)
    <3>1. CASE LoadModel(c, i, p)
      BY <3>1, NilAssumption
      DEF LoadModel, Goto, SingleInv, TypeOK, LoadedDeployments, StatusOf,
          ContainerForDeployment, SerialInv, FreshIsAbsent
    <3>2. CASE UNCHANGED single
      BY <1>s, <3>2 DEF single
    <3> QED
      BY <1>5, <3>1, <3>2 DEF BuildPlan
  <2> QED
    BY <2>1, <2>2, <2>3, OwnStay DEF group, ContainerForDeployment
<1>6. ASSUME NEW c \in Calls, AnswerLoad(c) PROVE OwnInvs'
  <2>1. /\ CallInv(c) /\ same /\ UNCHANGED <<pc, gpc, groups, last, granted>>
        /\ dpc'[c] \in {"ok", "err"} /\ \A b \in Calls \ {c} : dpc'[b] = dpc[b]
        /\ dpc[c] \in {"runtime", "group"}
    BY <1>1, <1>6 DEF AnswerLoad, Returned, Dispatch, single, group, TablesInv, DTypes
  <2>2. PICK i \in Ids : last[i] = c
    BY <2>1 DEF CallInv
  <2>3. gpc[c] # "take"
    BY <2>1 DEF CallInv
  <2> QED
    BY <1>s, <2>1, <2>2, <2>3, OwnStay DEF ContainerForDeployment
<1>7. ASSUME NEW c \in Calls, ReleaseAll(c) PROVE OwnInvs'
  <2> PICK i : i = gid[c]
    OBVIOUS
  <2>1. /\ dpc[c] = "release" /\ same /\ UNCHANGED <<pc, groups, last>>
        /\ granted' = [k \in Keys |-> IF k \in KeysOf(i) THEN {} ELSE granted[k]]
        /\ dpc' = [dpc EXCEPT ![c] = "teardown"] /\ gpc' = [gpc EXCEPT ![c] = "take"]
    BY <1>7 DEF ReleaseAll, Dispatch, G!ReleaseLeases, G!Goto, single
  <2>2. i \in Ids /\ last[i] = c /\ c # Nil
    BY <2>1, NilAssumption DEF TablesInv, CallInv
  <2>3. /\ dpc'[c] = "teardown" /\ gpc'[c] = "take"
        /\ \A b \in Calls \ {c} : dpc'[b] = dpc[b] /\ gpc'[b] = gpc[b]
    BY <1>1, <2>1 DEF DTypes
  <2>4. OwnInv(i)'
    BY <2>1, <2>2, <2>3 DEF OwnInv, Where, BeforeTake
  <2>5. \A j \in Ids \ {i} : \A k \in KeysOf(j) : granted'[k] = granted[k]
    BY <2>1, <2>2, KeysApart
  <2> QED
    BY <1>s, <2>1, <2>2, <2>3, <2>4, <2>5, OwnMove DEF ContainerForDeployment
<1>8. ASSUME NEW c \in Calls, UnloadSingle(c) PROVE OwnInvs'
  <2> PICK i : i = gid[c]
    OBVIOUS
  <2>1. /\ dpc[c] = "teardown" /\ gpc[c] = "ok" /\ UNCHANGED <<group, last, granted>>
        /\ dpc'[c] = "single" /\ \A b \in Calls \ {c} : dpc'[b] = dpc[b]
        /\ UnloadModel(c, i)
    BY <1>1, <1>8 DEF UnloadSingle, Dispatch, DTypes
  <2>2. i \in Ids /\ last[i] = c
    BY <2>1 DEF TablesInv, CallInv
  <2>3. /\ pc' = [pc EXCEPT ![c] = IF deployments[i] = Nil THEN "ok" ELSE "ulock"]
        /\ same
    BY <2>1 DEF UnloadModel, Goto, table
  <2>4. i \in LoadedDeployments' => deployments[i] # Nil
    BY <2>3 DEF LoadedDeployments, StatusOf
  <2>5. (i \in LoadedDeployments' => pc'[c] = "ulock")
        /\ \A b \in Calls \ {c} : pc'[b] = pc[b]
    BY <2>3, <2>4 DEF SingleInv, TypeOK
  <2> QED
    BY <1>s, <2>1, <2>2, <2>3, <2>5, OwnStay DEF group, ContainerForDeployment
<1>9. ASSUME NEW c \in Calls, AnswerUnload(c) PROVE OwnInvs'
  <2> PICK i : i = gid[c]
    OBVIOUS
  <2>1. /\ dpc[c] = "single" /\ pc[c] # "ulock"
        /\ same /\ UNCHANGED <<pc, gpc, groups, last, granted>>
        /\ dpc'[c] = "ok" /\ \A b \in Calls \ {c} : dpc'[b] = dpc[b]
    BY <1>1, <1>9 DEF AnswerUnload, Returned, Dispatch, single, group, DTypes
  <2>2. i \in Ids /\ last[i] = c /\ gpc[c] # "take"
    BY <2>1 DEF TablesInv, CallInv
  <2> QED
    BY <1>s, <2>1, <2>2, OwnStay DEF ContainerForDeployment
<1>10. ASSUME NEW c \in Calls, SingleStep(c) PROVE OwnInvs'
  <2> PICK i : i = id[c]
    OBVIOUS
  <2>1. /\ dpc[c] \in {"runtime", "single"} /\ Step(c)
        /\ UNCHANGED <<group, dpc, last, granted>>
    BY <1>10 DEF SingleStep, own
  <2>2. /\ i \in Ids /\ last[i] = c /\ gpc[c] # "take"
        /\ pc[c] \in Loading => dpc[c] = "runtime"
    BY <2>1 DEF TablesInv, CallInv
  <2>3. \A b \in Calls \ {c} : pc'[b] = pc[b]
    BY <2>1, StepSeen DEF SingleInv, TypeOK
  <2>4. dpc[c] = "single" /\ pc[c] = "ulock" => i \notin LoadedDeployments'
    BY <2>1, StepSeen DEF Unloading
  <2>5. \A j \in Ids : j \in LoadedDeployments' =>
            \/ /\ j \in LoadedDeployments
               /\ ContainerForDeployment(j)' = ContainerForDeployment(j)
            \/ j = i /\ dpc[c] = "runtime" /\ ContainerForDeployment(j)' = c
    BY <2>1, <2>2, StepOwns DEF Loading, Unloading, Waiting, Holding
  <2> QED
    BY <2>1, <2>2, <2>3, <2>4, <2>5, OwnStay DEF group, ContainerForDeployment
<1>g. ASSUME NEW c \in Calls, NEW l, gpc' = [gpc EXCEPT ![c] = l], GroupMoves(c, l),
             UNCHANGED <<single, dpc, last, granted>>
      PROVE  OwnInvs'
  <2> PICK i : i = gid[c]
    OBVIOUS
  <2>1. /\ i \in Ids /\ last[i] = c
        /\ \/ gpc[c] \in G!LoadLabels /\ dpc[c] = "group"
           \/ gpc[c] \in {"take", "teardown"} /\ dpc[c] = "teardown"
    BY <1>g DEF TablesInv, CallInv, GroupMoves, G!LoadLabels
  <2>2. /\ \A j \in Ids \ {i} : groups'[j] = groups[j]
        /\ groups'[i] = IF gpc[c] = "publish" THEN c
                        ELSE IF gpc[c] = "take" THEN Nil ELSE groups[i]
    BY <1>1, <1>g, <2>1 DEF GroupMoves, DTypes, G!LoadLabels
  <2>3. gpc[c] = "publish" => dpc[c] = "group"
    BY <2>1
  <2>4. same /\ UNCHANGED pc /\ gpc'[c] = l /\ \A b \in Calls \ {c} : gpc'[b] = gpc[b]
    BY <1>1, <1>g DEF single, DTypes
  <2>5. UNCHANGED <<dpc, last, granted>>
    BY <1>g
  <2>6. /\ \A j \in Ids : groups'[j] = groups[j] \/ (j = i /\ groups'[j] \in {c, Nil})
        /\ groups'[i] = c => dpc[c] = "group" \/ groups[i] = c
        /\ gpc[c] = "take" => groups'[i] = Nil
    BY <2>2, <2>3, NilAssumption
  <2>7. \A j \in Ids : j \in LoadedDeployments' =>
           /\ j \in LoadedDeployments
           /\ ContainerForDeployment(j)' = ContainerForDeployment(j)
    BY <1>s, <2>4
  <2>8. \A b \in Calls \ {c} : dpc'[b] = dpc[b] /\ gpc'[b] = gpc[b] /\ pc'[b] = pc[b]
    BY <2>4, <2>5
  <2>9. dpc'[c] = dpc[c] /\ pc'[c] = pc[c] /\ dpc[c] # "single"
    BY <2>1, <2>4, <2>5
  <2> QED
    BY <2>1, <2>5, <2>6, <2>7, <2>8, <2>9, OwnStay DEF ContainerForDeployment
<1>11. ASSUME NEW c \in Calls, GroupStep(c) PROVE OwnInvs'
  BY <1>1, <1>11, <1>g, GroupSeen
<1>12. ASSUME NEW c \in Calls, StartRefused(c) \/ ReadyByOther(c) PROVE OwnInvs'
  <2>1. CASE Detour(c) /\ UNCHANGED <<group, own>>
    <3> PICK i : i = id[c]
      OBVIOUS
    <3>1. pc[c] \in Loading /\ same /\ \A b \in Calls \ {c} : pc'[b] = pc[b]
      BY <2>1 DEF Detour, Goto, Loading, Unloading, Waiting, Holding, SingleInv, TypeOK
    <3>2. dpc[c] = "runtime" /\ i \in Ids /\ last[i] = c
      BY <3>1 DEF TablesInv, CallInv
    <3>3. gpc[c] # "take" /\ UNCHANGED <<dpc, gpc, last, granted, groups>>
      BY <2>1, <3>2 DEF own, group, TablesInv, CallInv
    <3> QED
      BY <1>s, <3>1, <3>2, <3>3, OwnStay DEF ContainerForDeployment
  <2>2. CASE /\ UNCHANGED <<single, gid>> /\ UNCHANGED own
             /\ \E l : gpc' = [gpc EXCEPT ![c] = l] /\ GroupMoves(c, l)
    BY <1>g, <2>2 DEF own
  <2> QED
    <3>1. /\ UNCHANGED own
          /\ \/ Detour(c) /\ UNCHANGED group
             \/ /\ UNCHANGED <<single, gid>>
                /\ \E l : gpc' = [gpc EXCEPT ![c] = l] /\ GroupMoves(c, l)
      BY <1>1, <1>12, DetoursSeen
    <3> QED
      BY <2>1, <2>2, <3>1
<1>13. ASSUME NEW c \in Calls, Exits(c) PROVE OwnInvs'
  BY <1>13, <1>q
  DEF Exits, ContainerExits, G!ContainerExits, G!tables, G!frame, table, frame, group,
      single
<1>14. CASE DDisconnect
  BY <1>14, <1>q DEF DDisconnect, single, group
<1>15. CASE DRestart
  <2>1. /\ deployments' = [i \in Ids |-> Nil] /\ groups' = [i \in Ids |-> Nil]
        /\ dpc' = [c \in Calls |-> IF Working(c) THEN "killed" ELSE dpc[c]]
        /\ UNCHANGED last
    BY <1>15 DEF DRestart, Restart, G!Restart
  <2>2. ASSUME NEW i \in Ids PROVE OwnInv(i)'
    <3>1. i \notin LoadedDeployments' /\ groups'[i] = Nil
      BY <2>1 DEF LoadedDeployments, StatusOf
    <3>2. ~Where(i, {"plan", "runtime"})' /\ ~Where(i, {"group"})'
      BY <1>1, <2>1 DEF Where, Working, DTypes
    <3> QED
      BY <3>1, <3>2 DEF OwnInv
  <2> QED
    BY <2>2 DEF OwnInvs
<1>16. CASE UNCHANGED dvars
  BY <1>16, <1>q DEF dvars, single, group, own
<1> QED
  BY <1>2, <1>3, <1>4, <1>5, <1>6, <1>7, <1>8, <1>9, <1>10, <1>11, <1>12, <1>13, <1>14,
     <1>15, <1>16
  DEF DNext

LEMMA OwnInvariant ==
    ASSUME Sender = "serial"
    PROVE  DSpec => [](SingleInv /\ TablesInv /\ OwnInvs)
<1>1. SingleInv /\ TablesInv /\ OwnInvs /\ [DNext]_dvars => OwnInvs'
  BY OwnNext
<1> QED
  BY <1>1, OwnInit, CoreInvariant, PTL DEF DSpec

(* Whatever way the two halves share the host, and whatever fails, a         *)
(* deployment no command is at work on has tables that agree: the proxy      *)
(* routes to the group that is loaded, and what is loaded, in either form,   *)
(* has a lease: of the GPUs it was started on, or of those that a load of it *)
(* named since.                                                              *)
THEOREM TablesStayTogether ==
    ASSUME Sender = "serial"
    PROVE  DSpec => []TablesAgree
<1>1. TablesInv /\ OwnInvs => TablesAgree
  <2> SUFFICES ASSUME TablesInv, OwnInvs, NEW i \in Ids, Idle(i)
               PROVE  /\ registry[i] = groups[i]
                      /\ groups[i] # Nil =>
                            \A u \in {"prefill", "decode"} : Holds(<<i, u>>, groups[i])
                      /\ i \in LoadedDeployments =>
                            Holds(<<i, "single">>, ContainerForDeployment(i))
    BY DEF TablesAgree
  <2>1. OwnInv(i) /\ ~Where(i, {"teardown"}) /\ ~Where(i, {"single"})
    BY DEF OwnInvs, Idle, Working, Where
  <2>2. /\ registry[i] = groups[i]
        /\ groups[i] # Nil => \A u \in {"prefill", "decode"} : Leased(<<i, u>>)
        /\ i \in LoadedDeployments => Leased(<<i, "single">>)
    BY AtRest
  <2>3. /\ groups[i] # Nil => \A u \in {"prefill", "decode"} : Owned(<<i, u>>, groups[i])
        /\ i \in LoadedDeployments => Owned(<<i, "single">>, ContainerForDeployment(i))
    BY <2>1 DEF OwnInv, BeforeTake
  <2> QED
    BY <2>2, <2>3 DEF Holds, Leased, Owned
<1> QED
  BY <1>1, OwnInvariant, PTL

(* Two loaded single deployments never publish the same endpoint, although   *)
(* the group half takes ports of the same host and commands of both kinds    *)
(* interleave.                                                               *)
THEOREM EndpointsDistinctOnHost ==
    ASSUME Sender = "serial"
    PROVE  DSpec => []EndpointsDistinct
<1>1. SingleInv => EndpointsDistinct
  BY DEF SingleInv, PortInv
<1> QED
  BY <1>1, CoreInvariant, PTL

-----------------------------------------------------------------------------
(* The containers of the groups.  Docker keeps their names unique, a load    *)
(* under way has the replicas it has launched, and a container is accounted  *)
(* for by the load that is making it, by the group in the table, or by the   *)
(* unload that is taking that group down.                                    *)

GTypes ==
    /\ gconts \in [Calls -> [G!Slots -> {"none", "created", "running", "exited"}]]
    /\ launched \in [Calls -> 0 .. G!Replicas]
    /\ undone \in [Calls -> 0 .. G!Replicas]
    /\ target \in [Calls -> Calls \cup {Nil}]
    /\ glost \in SUBSET Calls

\* How far a command of the group half has come.
GroupCall(b) ==
    /\ gpc[b] # "idle" => gid[b] \in Ids
    /\ gpc[b] \in {"idle", "plan", "pull"} =>
          launched[b] = 0 /\ \A s \in G!Slots : gconts[b][s] = "none"
    /\ gpc[b] \in {"alloc", "create", "start", "ready", "cleanup"} =>
          launched[b] < G!Replicas
    /\ gpc[b] \in {"rmImage", "publish"} => launched[b] = G!Replicas
    /\ gpc[b] \in (G!LoadLabels \ {"rollback"}) \cup {"idle", "release", "take"} =>
          undone[b] = 0
    /\ gpc[b] = "rollback" => undone[b] <= launched[b]
    /\ gpc[b] \in G!LoadLabels \ {"rollback"} =>
          \A s \in G!Slots : s <= launched[b] => gconts[b][s] \in Backing
    /\ gpc[b] = "start" => gconts[b][At(b)] # "none"
    /\ gpc[b] = "ready" => gconts[b][At(b)] \in Backing
    /\ gpc[b] = "teardown" =>
          target[b] \in Calls /\ gid[target[b]] = gid[b] /\ gpc[target[b]] = "ok"

NamesUnique ==
    \A b, c \in Calls : \A s \in G!Slots :
        gid[b] = gid[c] /\ gconts[b][s] # "none" /\ gconts[c][s] # "none" => b = c

GroupUp(i) ==
    groups[i] # Nil =>
        /\ gid[groups[i]] = i /\ gpc[groups[i]] \in {"register", "ok"}
        /\ \A s \in G!Slots : gconts[groups[i]][s] \in Backing

\* A load is making the container, or undoing it.
InLoad(b, s) ==
    \/ gpc[b] \in {"alloc", "create"} /\ s <= launched[b]
    \/ gpc[b] \in {"start", "ready", "cleanup"} /\ s <= launched[b] + 1
    \/ gpc[b] = "rollback" /\ undone[b] < s /\ s <= launched[b]
    \/ gpc[b] \in {"rmImage", "publish"}

InTable(b) == gid[b] \in Ids /\ groups[gid[b]] = b
InUnload(b, s) == \E c \in Calls : gpc[c] = "teardown" /\ target[c] = b /\ undone[c] < s

AccountedAt(b, s) ==
    b \notin glost /\ gconts[b][s] # "none" /\ restarts = 0 /\ ~CutShort(gid[b])
        => InLoad(b, s) \/ InTable(b) \/ InUnload(b, s)

GroupInv ==
    /\ GTypes /\ NamesUnique
    /\ \A b \in Calls : GroupCall(b)
    /\ \A i \in Ids : GroupUp(i)
    /\ \A b \in Calls : \A s \in G!Slots : AccountedAt(b, s)

LEMMA TwoReplicas == G!Replicas = 2 /\ G!Slots = 1 .. 2
  BY DEF G!Replicas, G!Slots

LEMMA GroupInit == DInit => GroupInv
<1> SUFFICES ASSUME DInit PROVE GroupInv
  OBVIOUS
<1>1. /\ groups = [i \in Ids |-> Nil] /\ gpc = [c \in Calls |-> "idle"]
      /\ gid = [c \in Calls |-> Nil] /\ launched = [c \in Calls |-> 0]
      /\ undone = [c \in Calls |-> 0] /\ target = [c \in Calls |-> Nil] /\ glost = {}
      /\ gconts = [c \in Calls |-> [s \in G!Slots |-> "none"]]
  BY DEF DInit, G!Init
<1>2. GTypes
  BY <1>1, TwoReplicas DEF GTypes
<1>3. NamesUnique /\ \A b \in Calls : \A s \in G!Slots : AccountedAt(b, s)
  BY <1>1 DEF NamesUnique, AccountedAt
<1>4. \A b \in Calls : GroupCall(b)
  BY <1>1 DEF GroupCall, G!LoadLabels
<1>5. \A i \in Ids : GroupUp(i)
  BY <1>1 DEF GroupUp
<1> QED
  BY <1>2, <1>3, <1>4, <1>5 DEF GroupInv

(* What the groups do not see: a deployment cut short stays so.              *)
LEMMA GroupQuiet ==
    ASSUME GroupInv, UNCHANGED <<gconts, launched, undone, target, glost, gid, gpc, groups,
                                 restarts>>,
           \A j \in Ids : CutShort(j) => CutShort(j)'
    PROVE  GroupInv'
<1> USE DEF GroupInv
<1>1. GTypes' /\ NamesUnique'
  BY DEF GTypes, NamesUnique
<1>2. ASSUME NEW b \in Calls PROVE GroupCall(b)'
  BY DEF GroupCall, At
<1>3. ASSUME NEW i \in Ids PROVE GroupUp(i)'
  BY DEF GroupUp
<1>4. ASSUME NEW b \in Calls, NEW s \in G!Slots PROVE AccountedAt(b, s)'
  <2>1. AccountedAt(b, s) /\ GroupCall(b)
    OBVIOUS
  <2>2. CutShort(gid[b]) /\ gconts[b][s] # "none" => CutShort(gid[b])'
    BY <2>1 DEF GroupCall
  <2> QED
    BY <2>1, <2>2 DEF AccountedAt, InLoad, InTable, InUnload
<1> QED
  BY <1>1, <1>2, <1>3, <1>4

(* The steps of one command on its own replicas, and on the group of its     *)
(* deployment.                                                               *)
OthersStay(c) ==
    \A b \in Calls \ {c} :
        /\ gpc'[b] = gpc[b] /\ gid'[b] = gid[b] /\ launched'[b] = launched[b]
        /\ undone'[b] = undone[b] /\ target'[b] = target[b] /\ gconts'[b] = gconts[b]

LEMMA OwnMoves ==
    ASSUME DTypes, GroupInv, NEW c \in Calls, OthersStay(c),
           gpc[c] \notin {"ok", "teardown"}, UNCHANGED restarts, glost \subseteq glost',
           \A j \in Ids : CutShort(j) => CutShort(j)',
           NEW i \in Ids, gid'[c] = i, gid[c] \in {i, Nil},
           \A s \in G!Slots :
               gconts'[c][s] # "none" /\ gconts[c][s] = "none" => ~G!NameTaken(i, s),
           gid[c] = Nil => \A s \in G!Slots : gconts'[c][s] = "none",
           \A j \in Ids \ {i} : groups'[j] = groups[j],
           \/ groups[i] \in {groups'[i], Nil}
           \/ gpc'[c] = "teardown" /\ target'[c] = groups[i] /\ undone'[c] = 0,
           GTypes', GroupCall(c)', GroupUp(i)',
           \A s \in G!Slots : AccountedAt(c, s)'
    PROVE  GroupInv'
<1> USE DEF GroupInv
<1>1. NamesUnique'
  <2> SUFFICES ASSUME NEW b \in Calls, NEW s \in G!Slots, b # c, gid'[b] = i,
                      gconts'[b][s] # "none", gconts'[c][s] # "none"
               PROVE  FALSE
    BY DEF NamesUnique, OthersStay
  <2>1. gid[b] = i /\ gconts[b][s] # "none" /\ gid[c] = i
    BY DEF OthersStay
  <2>2. G!NameTaken(i, s)
    BY <2>1 DEF G!NameTaken
  <2> QED
    BY <2>1, <2>2 DEF NamesUnique
<1>2. ASSUME NEW b \in Calls \ {c} PROVE GroupCall(b)'
  <2>1. GroupCall(b)
    BY <1>2
  <2>2. gpc[b] = "teardown" => target[b] # c
    BY <1>2, <2>1 DEF GroupCall
  <2> QED
    BY <1>2, <2>1, <2>2 DEF GroupCall, OthersStay, At
<1>3. ASSUME NEW j \in Ids \ {i} PROVE GroupUp(j)'
  <2> SUFFICES ASSUME groups[j] # Nil PROVE GroupUp(j)'
    BY <1>3 DEF GroupUp
  <2>1. GroupUp(j)
    BY <1>3
  <2>2. groups[j] # c
    BY <1>3, <2>1, NilAssumption DEF GroupUp
  <2>3. groups[j] \in Calls
    BY <1>3 DEF DTypes
  <2> QED
    BY <1>3, <2>1, <2>2, <2>3 DEF GroupUp, OthersStay
<1>4. ASSUME NEW b \in Calls \ {c}, NEW s \in G!Slots PROVE AccountedAt(b, s)'
  <2>1. AccountedAt(b, s) /\ GroupCall(b)
    BY <1>4
  <2>2. CutShort(gid[b]) /\ gconts[b][s] # "none" => CutShort(gid[b])'
    BY <1>4, <2>1 DEF GroupCall, OthersStay
  <2>3. InLoad(b, s) => InLoad(b, s)'
    BY <1>4 DEF InLoad, OthersStay
  <2>4. InUnload(b, s) => InUnload(b, s)'
    BY <1>4 DEF InUnload, OthersStay
  <2>5. InTable(b) => InTable(b)' \/ InUnload(b, s)'
    BY <1>4, NilAssumption, TwoReplicas DEF InTable, InUnload, OthersStay
  <2> QED
    BY <1>4, <2>1, <2>2, <2>3, <2>4, <2>5 DEF AccountedAt, OthersStay
<1> QED
  BY <1>1, <1>2, <1>3, <1>4

LEMMA SetContAt ==
    ASSUME GTypes, NEW g \in Calls, NEW s \in G!Slots,
           NEW v \in {"none", "created", "running", "exited"}, G!SetCont(g, s, v)
    PROVE  /\ gconts' \in [Calls -> [G!Slots -> {"none", "created", "running", "exited"}]]
           /\ gconts'[g][s] = v /\ \A t \in G!Slots \ {s} : gconts'[g][t] = gconts[g][t]
           /\ \A b \in Calls \ {g} : gconts'[b] = gconts[b]
  BY DEF GTypes, G!SetCont

(* Stop and Remove: on a live ctx the container is gone or counts as lost.   *)
LEMMA DiscardAt ==
    ASSUME GTypes, NEW g \in Calls, NEW s \in G!Slots, NEW alive \in BOOLEAN,
           G!Discard(g, s, alive)
    PROVE  /\ gconts' \in [Calls -> [G!Slots -> {"none", "created", "running", "exited"}]]
           /\ \A t \in G!Slots \ {s} : gconts'[g][t] = gconts[g][t]
           /\ \A b \in Calls \ {g} : gconts'[b] = gconts[b]
           /\ gconts'[g][s] # "none" => gconts[g][s] # "none"
           /\ gconts'[g][s] # "none" /\ alive => g \in glost'
           /\ glost \subseteq glost' /\ glost' \in SUBSET Calls
<1>1. CASE alive /\ G!SetCont(g, s, "none") /\ UNCHANGED glost
  BY <1>1, SetContAt DEF GTypes
<1>2. CASE ~alive /\ UNCHANGED <<gconts, glost>>
  BY <1>2 DEF GTypes
<1>3. CASE /\ gconts[g][s] # "none" /\ glost' = glost \cup {g}
           /\ UNCHANGED gconts \/ G!SetCont(g, s, "exited")
  <2>1. CASE UNCHANGED gconts
    BY <1>3, <2>1 DEF GTypes
  <2>2. CASE G!SetCont(g, s, "exited")
    BY <1>3, <2>2, SetContAt DEF GTypes
  <2> QED
    BY <1>3, <2>1, <2>2
<1> QED
  BY <1>1, <1>2, <1>3 DEF G!Discard

(* A load on its way to its group, or back.                                  *)
LEMMA ReplicaMoves ==
    ASSUME DTypes, GroupInv, NEW c \in Calls, OthersStay(c),
           gpc[c] \in G!LoadLabels \ {"publish", "register"},
           UNCHANGED <<gid, id, cancelled, restarts, groups>>, glost \subseteq glost',
           GTypes', GroupCall(c)',
           \A s \in G!Slots :
               gconts'[c][s] # "none" /\ gconts[c][s] = "none" => ~G!NameTaken(gid[c], s),
           \A s \in G!Slots :
               gconts'[c][s] # "none" /\ (gconts[c][s] = "none" \/ InLoad(c, s)) =>
                   c \in glost' \/ c \in cancelled \/ InLoad(c, s)'
    PROVE  GroupInv'
<1> USE DEF GroupInv
<1>1. GroupCall(c)
  OBVIOUS
<1>2. PICK i \in Ids : gid[c] = i
  BY <1>1 DEF GroupCall, G!LoadLabels
<1>3. \A j : CutShort(j) <=> CutShort(j)'
  BY DEF CutShort
<1>4. ~InTable(c) /\ \A s \in G!Slots : ~InUnload(c, s)
  <2>1. ~InTable(c)
    BY NilAssumption DEF InTable, GroupUp, G!LoadLabels
  <2>2. \A s \in G!Slots : ~InUnload(c, s)
    BY DEF InUnload, GroupCall, G!LoadLabels
  <2> QED
    BY <2>1, <2>2
<1>5. GroupUp(i)'
  <2>1. groups[i] # c /\ (groups[i] # Nil => groups[i] \in Calls)
    BY <1>2, <1>4 DEF InTable, DTypes
  <2>2. GroupUp(i)
    OBVIOUS
  <2> QED
    BY <2>1, <2>2 DEF GroupUp, OthersStay
<1>6. ASSUME NEW s \in G!Slots PROVE AccountedAt(c, s)'
  <2> SUFFICES ASSUME c \notin glost', gconts'[c][s] # "none", restarts = 0, ~CutShort(i)
               PROVE  InLoad(c, s)'
    BY <1>2, <1>3 DEF AccountedAt
  <2>1. c \notin cancelled
    BY <1>2 DEF CutShort
  <2>2. gconts[c][s] = "none" \/ InLoad(c, s)
    BY <1>2, <1>4 DEF AccountedAt
  <2> QED
    BY <2>1, <2>2
<1>7. gpc[c] \notin {"ok", "teardown"}
  BY DEF G!LoadLabels
<1> QED
  BY <1>2, <1>3, <1>5, <1>6, <1>7, NilAssumption, OwnMoves

LEMMA GroupBegin ==
    ASSUME DTypes, GroupInv, NEW c \in Calls, UNCHANGED id,
           G!BuildDeploymentPlan(c) \/ G!PullGroup(c) \/ G!AllocPort(c)
    PROVE  GroupInv'
<1>1. PICK l : /\ gpc' = [gpc EXCEPT ![c] = l]
               /\ \/ gpc[c] \in {"plan", "pull"} /\ l \in {"pull", "alloc", "err"}
                  \/ gpc[c] = "alloc" /\ l \in {"create", "rollback"}
  BY DEF G!BuildDeploymentPlan, G!PullGroup, G!AllocPort, G!Goto
<1>2. UNCHANGED <<gconts, glost, launched, undone, target, gid, cancelled, restarts,
                  groups>>
  BY DEF G!BuildDeploymentPlan, G!PullGroup, G!AllocPort, G!tables, G!docker, G!frame,
         G!loop, G!env
<1>3. gpc'[c] = l /\ OthersStay(c) /\ GTypes'
  BY <1>1, <1>2 DEF GroupInv, OthersStay, DTypes, GTypes
<1>4. GroupCall(c)
  BY DEF GroupInv
<1>5. GroupCall(c)'
  BY <1>1, <1>2, <1>3, <1>4, TwoReplicas DEF GroupCall, G!LoadLabels, GroupInv, GTypes
<1>6. ASSUME NEW s \in G!Slots, gconts[c][s] # "none", InLoad(c, s) PROVE InLoad(c, s)'
  BY <1>1, <1>2, <1>3, <1>4, <1>6, TwoReplicas DEF InLoad, GroupCall, G!LoadLabels
<1>7. gpc[c] \in G!LoadLabels \ {"publish", "register"}
  BY <1>1 DEF G!LoadLabels
<1> QED
  BY <1>2, <1>3, <1>5, <1>6, <1>7, ReplicaMoves

LEMMA GroupCreate ==
    ASSUME DTypes, GroupInv, NEW c \in Calls, UNCHANGED id, G!CreateReplica(c)
    PROVE  GroupInv'
<1> DEFINE s == At(c)
<1>1. /\ gpc[c] = "create" /\ GroupCall(c) /\ GTypes
      /\ UNCHANGED <<launched, undone, target, gid, cancelled, restarts, groups>>
  BY DEF GroupInv, G!CreateReplica, G!tables, G!frame, G!loop, G!env
<1>2. s \in G!Slots /\ launched[c] \in Nat /\ s = launched[c] + 1
  BY <1>1, TwoReplicas DEF GroupCall, GTypes, At
<1>3. \/ /\ ~G!NameTaken(gid[c], s) /\ G!SetCont(c, s, "created")
         /\ \/ gpc' = [gpc EXCEPT ![c] = "start"] /\ UNCHANGED glost
            \/ gpc' = [gpc EXCEPT ![c] = "rollback"] /\ glost' = glost \cup {c}
      \/ gpc' = [gpc EXCEPT ![c] = "rollback"] /\ UNCHANGED <<gconts, glost>>
  BY DEF G!CreateReplica, G!Goto, At
<1>4. PICK l \in {"start", "rollback"} : gpc' = [gpc EXCEPT ![c] = l] /\ gpc'[c] = l
  BY <1>3 DEF DTypes
<1>5. /\ gconts' \in [Calls -> [G!Slots -> {"none", "created", "running", "exited"}]]
      /\ \A b \in Calls \ {c} : gconts'[b] = gconts[b]
      /\ \A t \in G!Slots \ {s} : gconts'[c][t] = gconts[c][t]
      /\ gconts'[c][s] # "none" /\ gconts[c][s] = "none" =>
            ~G!NameTaken(gid[c], s) /\ (l = "start" \/ c \in glost')
  BY <1>1, <1>2, <1>3, <1>4, SetContAt DEF GTypes
<1>6. glost \subseteq glost' /\ GTypes' /\ OthersStay(c)
  BY <1>1, <1>3, <1>4, <1>5 DEF GTypes, OthersStay, DTypes
<1>7. GroupCall(c)'
  <2>1. l = "start" => gconts'[c][s] = "created"
    BY <1>1, <1>2, <1>3, <1>4, SetContAt DEF GTypes
  <2> QED
    BY <1>1, <1>2, <1>4, <1>5, <2>1, TwoReplicas DEF GroupCall, G!LoadLabels, At
<1>8. ASSUME NEW t \in G!Slots, gconts'[c][t] # "none",
             gconts[c][t] = "none" \/ InLoad(c, t)
      PROVE  c \in glost' \/ InLoad(c, t)'
  <2>1. CASE gconts[c][t] = "none"
    <3>1. t = s /\ (l = "start" \/ c \in glost')
      BY <1>5, <1>8, <2>1
    <3> QED
      BY <1>1, <1>2, <1>4, <3>1 DEF InLoad
  <2>2. CASE InLoad(c, t)
    BY <1>1, <1>2, <1>4, <2>2, TwoReplicas DEF InLoad, GroupCall, G!LoadLabels
  <2> QED
    BY <1>8, <2>1, <2>2
<1>9. \A t \in G!Slots :
         gconts'[c][t] # "none" /\ gconts[c][t] = "none" => ~G!NameTaken(gid[c], t)
  BY <1>5
<1>10. gpc[c] \in G!LoadLabels \ {"publish", "register"}
  BY <1>1 DEF G!LoadLabels
<1> QED
  BY <1>1, <1>6, <1>7, <1>8, <1>9, <1>10, ReplicaMoves

(* The container at hand is started, found ready or not, or refused.  A      *)
(* container that was created keeps its name, so that no name is new.        *)
LEMMA GroupStart ==
    ASSUME DTypes, GroupInv, NEW c \in Calls, UNCHANGED id, G!StartReplica(c)
    PROVE  GroupInv'
<1> DEFINE s == At(c)
<1>1. /\ gpc[c] = "start" /\ GroupCall(c) /\ GTypes
      /\ UNCHANGED <<launched, undone, target, gid, cancelled, restarts, groups, glost>>
  BY DEF GroupInv, G!StartReplica, G!tables, G!frame, G!loop, G!env
<1>2. s \in G!Slots /\ launched[c] \in Nat /\ s = launched[c] + 1
  BY <1>1, TwoReplicas DEF GroupCall, GTypes, At
<1>3. \/ G!SetCont(c, s, "running") /\ gpc' = [gpc EXCEPT ![c] = "ready"]
      \/ G!SetCont(c, s, "running") /\ gpc' = [gpc EXCEPT ![c] = "cleanup"]
      \/ UNCHANGED gconts /\ gpc' = [gpc EXCEPT ![c] = "cleanup"]
  BY DEF G!StartReplica, G!Goto, At
<1>4. PICK l \in {"ready", "cleanup"} : gpc' = [gpc EXCEPT ![c] = l] /\ gpc'[c] = l
  BY <1>3 DEF DTypes
<1>5. /\ gconts' \in [Calls -> [G!Slots -> {"none", "created", "running", "exited"}]]
      /\ \A b \in Calls \ {c} : gconts'[b] = gconts[b]
      /\ \A t \in G!Slots \ {s} : gconts'[c][t] = gconts[c][t]
      /\ l = "ready" => gconts'[c][s] = "running"
  BY <1>1, <1>2, <1>3, <1>4, SetContAt DEF GTypes
<1>6. GTypes' /\ OthersStay(c)
  BY <1>1, <1>4, <1>5 DEF GTypes, OthersStay, DTypes
<1>7. GroupCall(c)'
  BY <1>1, <1>2, <1>4, <1>5, TwoReplicas DEF GroupCall, G!LoadLabels, Backing, At
<1>8. \A t \in G!Slots : gconts'[c][t] # "none" => gconts[c][t] # "none"
  BY <1>1, <1>2, <1>5 DEF GroupCall
<1>9. \A t \in G!Slots : InLoad(c, t) => InLoad(c, t)'
  BY <1>1, <1>4 DEF InLoad
<1>10. gpc[c] \in G!LoadLabels \ {"publish", "register"}
  BY <1>1 DEF G!LoadLabels
<1> QED
  BY <1>1, <1>6, <1>7, <1>8, <1>9, <1>10, ReplicaMoves

LEMMA GroupReady ==
    ASSUME DTypes, GroupInv, NEW c \in Calls, gpc[c] \in {"start", "ready"},
           UNCHANGED <<id, gid, gconts, undone, target, cancelled, restarts, groups, glost>>,
           \/ /\ gpc' = [gpc EXCEPT ![c] = "cleanup"]
              /\ UNCHANGED launched
           \/ /\ gpc[c] = "ready"
              /\ gpc' = [gpc EXCEPT ![c] = IF At(c) = G!Replicas THEN "rmImage" ELSE "alloc"]
              /\ launched' = [launched EXCEPT ![c] = At(c)]
    PROVE  GroupInv'
<1>1. /\ GroupCall(c) /\ GTypes
      /\ At(c) \in 1 .. 2 /\ At(c) = launched[c] + 1 /\ launched[c] \in Nat
  BY TwoReplicas DEF GroupInv, GroupCall, GTypes, At
<1>2. gpc[c] \in G!LoadLabels \ {"publish", "register"}
  BY DEF G!LoadLabels
<1>3. CASE gpc' = [gpc EXCEPT ![c] = "cleanup"] /\ UNCHANGED launched
  <2>1. gpc'[c] = "cleanup" /\ OthersStay(c) /\ GTypes'
    BY <1>1, <1>3 DEF OthersStay, DTypes, GTypes
  <2>2. GroupCall(c)'
    BY <1>1, <1>3, <2>1, TwoReplicas DEF GroupCall, G!LoadLabels
  <2>3. \A t \in G!Slots : InLoad(c, t) => InLoad(c, t)'
    BY <1>3, <2>1 DEF InLoad
  <2> QED
    BY <1>2, <2>1, <2>2, <2>3, ReplicaMoves
<1>4. CASE /\ gpc[c] = "ready"
           /\ gpc' = [gpc EXCEPT ![c] = IF At(c) = G!Replicas THEN "rmImage" ELSE "alloc"]
           /\ launched' = [launched EXCEPT ![c] = At(c)]
  <2>1. /\ gpc'[c] = IF At(c) = 2 THEN "rmImage" ELSE "alloc"
        /\ launched'[c] = At(c) /\ OthersStay(c) /\ GTypes'
    BY <1>1, <1>4, TwoReplicas DEF OthersStay, DTypes, GTypes
  <2>2. GroupCall(c)'
    <3>1. \A t \in G!Slots : t <= At(c) => gconts[c][t] \in Backing
      BY <1>1, <1>4, TwoReplicas DEF GroupCall, G!LoadLabels
    <3> QED
      BY <1>1, <1>4, <2>1, <3>1, TwoReplicas DEF GroupCall, G!LoadLabels
  <2>3. \A t \in G!Slots : InLoad(c, t) => InLoad(c, t)'
    BY <1>1, <1>4, <2>1 DEF InLoad
  <2> QED
    BY <1>2, <2>1, <2>2, <2>3, ReplicaMoves
<1> QED
  BY <1>3, <1>4

(* What a load undoes, it undoes on its own containers.                      *)
LEMMA GroupUndo ==
    ASSUME DTypes, GroupInv, NEW c \in Calls, UNCHANGED id,
           G!CleanupReplica(c) \/ G!Rollback(c)
    PROVE  GroupInv'
<1>1. /\ GroupCall(c) /\ GTypes
      /\ UNCHANGED <<launched, target, gid, cancelled, restarts, groups>>
      /\ gpc[c] \in {"cleanup", "rollback"}
  BY DEF GroupInv, G!CleanupReplica, G!Rollback, G!tables, G!frame, G!loop, G!env
<1>2. gpc[c] \in G!LoadLabels \ {"publish", "register"}
  BY <1>1 DEF G!LoadLabels
<1>3. launched[c] \in 0 .. 2 /\ undone[c] \in 0 .. 2
  BY <1>1, TwoReplicas DEF GTypes
<1>4. CASE G!CleanupReplica(c)
  <2> DEFINE s == launched[c] + 1
  <2>1. /\ gpc[c] = "cleanup" /\ s \in G!Slots /\ G!Discard(c, s, TRUE)
        /\ gpc' = [gpc EXCEPT ![c] = "rollback"] /\ UNCHANGED undone
    <3>1. /\ gpc[c] = "cleanup" /\ G!Discard(c, s, TRUE)
          /\ gpc' = [gpc EXCEPT ![c] = "rollback"] /\ UNCHANGED undone
      BY <1>4 DEF G!CleanupReplica, G!Goto, G!loop
    <3>2. s \in G!Slots
      BY <1>1, <1>3, <3>1, TwoReplicas DEF GroupCall
    <3> QED
      BY <3>1, <3>2
  <2>2. /\ gconts' \in [Calls -> [G!Slots -> {"none", "created", "running", "exited"}]]
        /\ \A t \in G!Slots \ {s} : gconts'[c][t] = gconts[c][t]
        /\ \A b \in Calls \ {c} : gconts'[b] = gconts[b]
        /\ gconts'[c][s] # "none" => gconts[c][s] # "none" /\ c \in glost'
        /\ glost \subseteq glost' /\ glost' \in SUBSET Calls
    BY <1>1, <2>1, DiscardAt
  <2>3. gpc'[c] = "rollback" /\ OthersStay(c) /\ GTypes'
    BY <1>1, <2>1, <2>2 DEF OthersStay, DTypes, GTypes
  <2>4. GroupCall(c)'
    BY <1>1, <1>3, <2>1, <2>3 DEF GroupCall, G!LoadLabels
  <2>5. \A t \in G!Slots : InLoad(c, t) => t = s \/ InLoad(c, t)'
    BY <1>1, <1>3, <2>1, <2>3, TwoReplicas DEF InLoad, GroupCall, G!LoadLabels
  <2> QED
    BY <1>1, <1>2, <2>2, <2>3, <2>4, <2>5, ReplicaMoves
<1>5. CASE G!Rollback(c) /\ undone[c] = launched[c]
  <2>1. gpc[c] = "rollback" /\ gpc' = [gpc EXCEPT ![c] = "err"]
        /\ UNCHANGED <<gconts, undone, glost>>
    BY <1>5 DEF G!Rollback, G!Goto
  <2>2. gpc'[c] = "err" /\ OthersStay(c) /\ GTypes'
    BY <1>1, <2>1 DEF OthersStay, DTypes, GTypes
  <2>3. GroupCall(c)'
    BY <1>1, <2>1, <2>2 DEF GroupCall, G!LoadLabels
  <2>4. \A t \in G!Slots : ~InLoad(c, t)
    BY <1>3, <1>5, <2>1, TwoReplicas DEF InLoad
  <2> QED
    BY <1>1, <1>2, <2>1, <2>2, <2>3, <2>4, ReplicaMoves
<1>6. CASE G!Rollback(c) /\ undone[c] # launched[c]
  <2> DEFINE s == undone[c] + 1
             alive == c \notin cancelled
  <2>1. /\ gpc[c] = "rollback" /\ G!Discard(c, s, alive)
        /\ undone' = [undone EXCEPT ![c] = s] /\ UNCHANGED gpc
    BY <1>1, <1>6 DEF G!Rollback, G!Live, GTypes
  <2>2. undone[c] < launched[c] /\ s \in G!Slots
    BY <1>1, <1>3, <1>6, <2>1, TwoReplicas DEF GroupCall
  <2>3. /\ gconts' \in [Calls -> [G!Slots -> {"none", "created", "running", "exited"}]]
        /\ \A t \in G!Slots \ {s} : gconts'[c][t] = gconts[c][t]
        /\ \A b \in Calls \ {c} : gconts'[b] = gconts[b]
        /\ gconts'[c][s] # "none" =>
              gconts[c][s] # "none" /\ (c \in glost' \/ c \in cancelled)
        /\ glost \subseteq glost' /\ glost' \in SUBSET Calls
    BY <1>1, <2>1, <2>2, DiscardAt
  <2>4. undone'[c] = s /\ OthersStay(c) /\ GTypes'
    <3>1. undone'[c] = s /\ undone' \in [Calls -> 0 .. G!Replicas]
      BY <1>1, <2>1, <2>2, TwoReplicas DEF GTypes
    <3>2. \A b \in Calls \ {c} : undone'[b] = undone[b]
      BY <1>1, <2>1 DEF GTypes
    <3> QED
      BY <1>1, <2>1, <2>3, <3>1, <3>2 DEF OthersStay, GTypes
  <2>5. GroupCall(c)'
    BY <1>1, <1>3, <2>1, <2>2, <2>4 DEF GroupCall, G!LoadLabels
  <2>6. \A t \in G!Slots : InLoad(c, t) => t = s \/ InLoad(c, t)'
    BY <1>1, <1>3, <2>1, <2>4, TwoReplicas DEF InLoad
  <2> QED
    BY <1>1, <1>2, <2>3, <2>4, <2>5, <2>6, ReplicaMoves
<1> QED
  BY <1>4, <1>5, <1>6

LEMMA GroupRemoveImage ==
    ASSUME DTypes, GroupInv, NEW c \in Calls, UNCHANGED id, G!RemoveImage(c)
    PROVE  GroupInv'
<1>1. /\ GroupCall(c) /\ GTypes /\ gpc[c] = "rmImage"
      /\ gpc' = [gpc EXCEPT ![c] = "publish"]
      /\ UNCHANGED <<launched, undone, target, gid, cancelled, restarts, groups, gconts,
                     glost>>
  BY DEF GroupInv, G!RemoveImage, G!Goto, G!tables, G!frame, G!loop, G!env
<1>2. gpc'[c] = "publish" /\ OthersStay(c) /\ GTypes'
  BY <1>1 DEF OthersStay, DTypes, GTypes
<1>3. GroupCall(c)'
  BY <1>1, <1>2 DEF GroupCall, G!LoadLabels
<1>4. \A t \in G!Slots : InLoad(c, t)'
  BY <1>2 DEF InLoad
<1>5. gpc[c] \in G!LoadLabels \ {"publish", "register"}
  BY <1>1 DEF G!LoadLabels
<1> QED
  BY <1>1, <1>2, <1>3, <1>4, <1>5, ReplicaMoves

(* The table has no group of this deployment yet: docker would not have let  *)
(* the load create containers of the same names.                             *)
LEMMA GroupPublish ==
    ASSUME DTypes, GroupInv, NEW c \in Calls, UNCHANGED id,
           G!PublishGroup(c) \/ G!RegisterDisagg(c)
    PROVE  GroupInv'
<1>1. /\ GroupCall(c) /\ GTypes /\ gpc[c] \in {"publish", "register"}
      /\ UNCHANGED <<launched, undone, target, gid, cancelled, restarts, gconts, glost>>
  BY DEF GroupInv, G!PublishGroup, G!RegisterDisagg, G!docker, G!frame, G!loop, G!env
<1>2. PICK i \in Ids : gid[c] = i
  BY <1>1 DEF GroupCall
<1>3. \/ /\ gpc[c] = "publish" /\ groups' = [groups EXCEPT ![i] = c]
         /\ gpc' = [gpc EXCEPT ![c] = "register"]
      \/ /\ gpc[c] = "register" /\ UNCHANGED groups
         /\ gpc' = [gpc EXCEPT ![c] = "ok"]
  BY <1>2 DEF G!PublishGroup, G!RegisterDisagg, G!Goto
<1>4. gpc[c] = "publish" => \A s \in G!Slots : gconts[c][s] \in Backing
  BY <1>1, TwoReplicas DEF GroupCall, G!LoadLabels
<1>5. GroupUp(i) /\ (groups[i] # Nil => groups[i] \in Calls)
  BY DEF GroupInv, DTypes
<1>6. gpc[c] = "publish" => groups[i] = Nil
  <2> SUFFICES ASSUME gpc[c] = "publish", groups[i] # Nil PROVE FALSE
    OBVIOUS
  <2>1. /\ gid[groups[i]] = gid[c] /\ gpc[groups[i]] # "publish" /\ 1 \in G!Slots
        /\ gconts[groups[i]][1] # "none" /\ gconts[c][1] # "none"
    BY <1>2, <1>4, <1>5, TwoReplicas DEF GroupUp, Backing
  <2>2. groups[i] = c
    BY <1>5, <2>1 DEF GroupInv, NamesUnique
  <2> QED
    BY <2>1, <2>2
<1>7. /\ gpc'[c] = IF gpc[c] = "publish" THEN "register" ELSE "ok"
      /\ groups'[i] = IF gpc[c] = "publish" THEN c ELSE groups[i]
      /\ \A j \in Ids \ {i} : groups'[j] = groups[j]
      /\ OthersStay(c) /\ GTypes'
  BY <1>1, <1>3 DEF OthersStay, DTypes, GTypes
<1>8. GroupCall(c)'
  BY <1>1, <1>7 DEF GroupCall, G!LoadLabels
<1>9. GroupUp(i)'
  BY <1>1, <1>2, <1>4, <1>5, <1>7 DEF GroupUp, OthersStay
<1>10. \A j : CutShort(j) <=> CutShort(j)'
  BY <1>1 DEF CutShort
<1>11. ASSUME NEW s \in G!Slots PROVE AccountedAt(c, s)'
  <2>1. CASE gpc[c] = "publish"
    BY <1>1, <1>2, <1>7, <2>1 DEF AccountedAt, InTable
  <2>2. CASE gpc[c] = "register"
    <3>1. ~InLoad(c, s) /\ ~InUnload(c, s)
      BY <2>2 DEF GroupInv, InLoad, InUnload, GroupCall
    <3>2. InTable(c) => InTable(c)'
      BY <1>1, <1>2, <1>7, <2>2 DEF InTable
    <3> QED
      BY <1>1, <1>10, <3>1, <3>2 DEF GroupInv, AccountedAt
  <2> QED
    BY <1>1, <2>1, <2>2
<1> QED
  BY <1>1, <1>2, <1>6, <1>7, <1>8, <1>9, <1>10, <1>11, NilAssumption, OwnMoves

(* The group an unload takes out of the table is one whose load has ended:   *)
(* a load that is registering it would be the latest command instead.        *)
LEMMA GroupTake ==
    ASSUME TablesInv, GroupInv, NEW c \in Calls, dpc[c] = "teardown", UNCHANGED id,
           G!TakeGroup(c)
    PROVE  GroupInv'
<1>1. /\ GroupCall(c) /\ GTypes /\ gpc[c] = "take"
      /\ UNCHANGED <<launched, undone, gid, cancelled, restarts, gconts, glost>>
  BY DEF GroupInv, G!TakeGroup, G!docker, G!frame, G!env
<1>2. PICK i \in Ids : gid[c] = i /\ last[i] = c
  BY <1>1 DEF TablesInv, CallInv
<1>3. /\ DTypes
      /\ target' = [target EXCEPT ![c] = groups[i]]
      /\ groups' = [groups EXCEPT ![i] = Nil]
      /\ gpc' = [gpc EXCEPT ![c] = IF groups[i] = Nil THEN "ok" ELSE "teardown"]
  BY <1>2 DEF TablesInv, G!TakeGroup, G!Goto
<1>4. /\ gpc'[c] = IF groups[i] = Nil THEN "ok" ELSE "teardown"
      /\ groups'[i] = Nil /\ \A j \in Ids \ {i} : groups'[j] = groups[j]
      /\ target'[c] = groups[i] /\ OthersStay(c) /\ GTypes'
  BY <1>1, <1>3 DEF OthersStay, DTypes, GTypes
<1>5. groups[i] # Nil =>
         groups[i] \in Calls /\ gid[groups[i]] = i /\ gpc[groups[i]] = "ok" /\ groups[i] # c
  <2> SUFFICES ASSUME groups[i] # Nil, gpc[groups[i]] = "register" PROVE FALSE
    BY <1>1, <1>3 DEF GroupInv, GroupUp, DTypes
  <2>1. groups[i] \in Calls /\ gid[groups[i]] = i
    BY <1>3 DEF GroupInv, GroupUp, DTypes
  <2>2. dpc[groups[i]] = "group"
    BY <2>1 DEF TablesInv, CallInv, G!LoadLabels
  <2> QED
    BY <1>2, <2>1, <2>2 DEF TablesInv, CallInv
<1>6. GroupCall(c)'
  <2>1. groups[i] # Nil => gpc'[groups[i]] = "ok" /\ gid'[groups[i]] = i
    BY <1>1, <1>4, <1>5 DEF OthersStay
  <2> QED
    BY <1>1, <1>2, <1>4, <1>5, <2>1 DEF GroupCall, G!LoadLabels
<1>7. GroupUp(i)'
  BY <1>4 DEF GroupUp
<1>8. \A j : CutShort(j) <=> CutShort(j)'
  BY <1>1 DEF CutShort
<1>9. ASSUME NEW s \in G!Slots PROVE AccountedAt(c, s)'
  <2>1. ~InLoad(c, s) /\ ~InUnload(c, s) /\ ~InTable(c)
    BY <1>1, NilAssumption DEF GroupInv, InLoad, InUnload, InTable, GroupUp, GroupCall
  <2> QED
    BY <1>1, <1>8, <2>1 DEF GroupInv, AccountedAt
<1>10. undone'[c] = 0
  BY <1>1 DEF GroupCall
<1> QED
  BY <1>1, <1>2, <1>3, <1>4, <1>6, <1>7, <1>8, <1>9, <1>10, NilAssumption, OwnMoves

(* A command that begins, and an unload before it looks at the table.        *)
LEMMA GroupArrives ==
    ASSUME DTypes, GroupInv, NEW c \in Calls, NEW i \in Ids,
           gpc[c] \in {"idle", "release"}, gid[c] \in {i, Nil},
           UNCHANGED <<launched, undone, target, restarts, gconts, glost, groups>>,
           gid' = [gid EXCEPT ![c] = i],
           NEW l \in {"plan", "err", "release", "take"}, gpc' = [gpc EXCEPT ![c] = l],
           gpc[c] = "idle" \/ l = "take",
           \A j \in Ids : CutShort(j) => CutShort(j)'
    PROVE  GroupInv'
<1>1. GroupCall(c) /\ GTypes
  BY DEF GroupInv
<1>2. gpc'[c] = l /\ gid'[c] = i /\ OthersStay(c) /\ GTypes'
  BY <1>1 DEF OthersStay, DTypes, GTypes
<1>3. gid[c] = Nil => gpc[c] = "idle"
  BY <1>1, NilAssumption DEF GroupCall
<1>4. GroupCall(c)'
  BY <1>1, <1>2, TwoReplicas DEF GroupCall, G!LoadLabels, GTypes
<1>5. GroupUp(i)'
  <2>1. GroupUp(i) /\ (groups[i] # Nil => groups[i] \in Calls)
    BY DEF GroupInv, DTypes
  <2>2. groups[i] # Nil => groups[i] # c
    BY <2>1 DEF GroupUp
  <2> QED
    BY <2>1, <2>2 DEF GroupUp, OthersStay
<1>6. ASSUME NEW s \in G!Slots PROVE AccountedAt(c, s)'
  <2>1. CASE gpc[c] = "idle"
    BY <1>1, <2>1 DEF AccountedAt, GroupCall
  <2>2. CASE gpc[c] = "release"
    <3>1. ~InLoad(c, s) /\ ~InUnload(c, s) /\ ~InTable(c) /\ gid[c] = i
      BY <1>3, <2>2, NilAssumption
      DEF GroupInv, InLoad, InUnload, InTable, GroupUp, GroupCall
    <3>2. CutShort(gid[c]) => CutShort(gid[c])'
      BY <1>2, <3>1
    <3> QED
      BY <1>2, <3>1, <3>2 DEF GroupInv, AccountedAt
  <2> QED
    BY <2>1, <2>2
<1>7. gid[c] = Nil => \A s \in G!Slots : gconts'[c][s] = "none"
  BY <1>1, <1>3 DEF GroupCall
<1> QED
  BY <1>2, <1>4, <1>5, <1>6, <1>7, OwnMoves

(* An unload stops and removes the containers of the group it has taken,     *)
(* which nobody else works on.                                               *)
LEMMA GroupTeardown ==
    ASSUME TablesInv, GroupInv, NEW c \in Calls, UNCHANGED id, G!TeardownReplica(c)
    PROVE  GroupInv'
<1> USE DEF GroupInv
<1>1. /\ GroupCall(c) /\ GTypes /\ DTypes /\ gpc[c] = "teardown"
      /\ UNCHANGED <<launched, target, gid, cancelled, restarts, groups>>
  BY DEF TablesInv, G!TeardownReplica, G!tables, G!frame, G!env
<1>2. PICK g \in Calls : target[c] = g /\ gid[g] = gid[c] /\ gpc[g] = "ok" /\ g # c
  BY <1>1 DEF GroupCall
<1>3. PICK i \in Ids : gid[c] = i /\ last[i] = c /\ groups[i] = Nil
  <2>1. CallInv(c) /\ kind[c] = "unload" /\ dpc[c] = "teardown" /\ gid[c] \in Ids
        /\ last[gid[c]] = c
    BY <1>1 DEF TablesInv, CallInv
  <2>2. GoneInv(gid[c])
    BY <2>1 DEF TablesInv, IdInv
  <2>3. groups[gid[c]] = Nil
    BY <1>1, <2>1, <2>2, NilAssumption DEF GoneInv
  <2> QED
    BY <2>1, <2>3
<1>4. \A j : CutShort(j) <=> CutShort(j)'
  BY <1>1 DEF CutShort
<1>5. undone[c] \in 0 .. 2
  BY <1>1, TwoReplicas DEF GTypes
<1>6. \/ /\ undone[c] = 2 /\ gpc' = [gpc EXCEPT ![c] = "ok"]
         /\ UNCHANGED <<gconts, undone, glost>>
      \/ /\ undone[c] # 2 /\ G!Discard(g, undone[c] + 1, c \notin cancelled)
         /\ undone' = [undone EXCEPT ![c] = undone[c] + 1] /\ UNCHANGED gpc
  BY <1>1, <1>2, TwoReplicas DEF G!TeardownReplica, G!Goto, G!Live, GTypes
<1>7. CASE /\ undone[c] = 2 /\ gpc' = [gpc EXCEPT ![c] = "ok"]
           /\ UNCHANGED <<gconts, undone, glost>>
  <2>1. gpc'[c] = "ok" /\ \A b \in Calls \ {c} : gpc'[b] = gpc[b]
    BY <1>1, <1>7 DEF DTypes
  <2>2. GTypes' /\ NamesUnique'
    BY <1>1, <1>7 DEF GTypes, NamesUnique
  <2>3. ASSUME NEW b \in Calls PROVE GroupCall(b)'
    <3>1. GroupCall(b)
      OBVIOUS
    <3>2. gpc[b] = "teardown" => target[b] # c
      BY <1>1, <3>1 DEF GroupCall
    <3>3. CASE b = c
      BY <1>1, <1>3, <2>1, <3>3 DEF GroupCall, G!LoadLabels
    <3>4. CASE b # c
      BY <1>1, <1>7, <2>1, <3>1, <3>2, <3>4 DEF GroupCall, At
    <3> QED
      BY <3>3, <3>4
  <2>4. ASSUME NEW j \in Ids PROVE GroupUp(j)'
    <3>1. GroupUp(j) /\ groups[j] # c /\ (groups[j] # Nil => groups[j] \in Calls)
      BY <1>1, NilAssumption DEF GroupUp, DTypes
    <3> QED
      BY <1>1, <1>7, <2>1, <3>1 DEF GroupUp
  <2>5. ASSUME NEW b \in Calls, NEW s \in G!Slots PROVE AccountedAt(b, s)'
    <3>1. AccountedAt(b, s) /\ (CutShort(gid[b]) => CutShort(gid[b])')
      BY <1>1, <1>4
    <3>2. InLoad(b, s) => InLoad(b, s)'
      BY <1>1, <1>7, <2>1 DEF InLoad
    <3>3. InTable(b) => InTable(b)'
      BY <1>1 DEF InTable
    <3>4. InUnload(b, s) => InUnload(b, s)'
      BY <1>1, <1>7, <2>1, TwoReplicas DEF InUnload
    <3> QED
      BY <1>1, <1>7, <3>1, <3>2, <3>3, <3>4 DEF AccountedAt
  <2> QED
    BY <2>2, <2>3, <2>4, <2>5
<1>8. CASE /\ undone[c] # 2 /\ G!Discard(g, undone[c] + 1, c \notin cancelled)
           /\ undone' = [undone EXCEPT ![c] = undone[c] + 1] /\ UNCHANGED gpc
  <2>1. PICK t \in G!Slots : t = undone[c] + 1
    BY <1>5, <1>8, TwoReplicas
  <2>2. /\ gconts' \in [Calls -> [G!Slots -> {"none", "created", "running", "exited"}]]
        /\ \A s \in G!Slots \ {t} : gconts'[g][s] = gconts[g][s]
        /\ \A b \in Calls \ {g} : gconts'[b] = gconts[b]
        /\ gconts'[g][t] # "none" => gconts[g][t] # "none"
        /\ gconts'[g][t] # "none" /\ c \notin cancelled => g \in glost'
        /\ glost \subseteq glost' /\ glost' \in SUBSET Calls
    BY <1>1, <1>8, <2>1, DiscardAt
  <2>3. undone'[c] = t /\ \A b \in Calls \ {c} : undone'[b] = undone[b]
    BY <1>1, <1>8, <2>1 DEF GTypes
  <2>4. GTypes'
    <3>1. undone' \in [Calls -> 0 .. G!Replicas]
      BY <1>1, <1>8, <2>1, TwoReplicas DEF GTypes
    <3> QED
      BY <1>1, <2>2, <3>1 DEF GTypes
  <2>5. \A b \in Calls : \A s \in G!Slots : gconts'[b][s] # "none" => gconts[b][s] # "none"
    BY <2>2
  <2>6. NamesUnique'
    BY <1>1, <2>5 DEF NamesUnique
  <2>7. ASSUME NEW b \in Calls PROVE GroupCall(b)'
    <3>1. GroupCall(b)
      OBVIOUS
    <3>2. CASE b = g
      BY <1>1, <1>2, <1>8, <3>1, <3>2 DEF GroupCall, G!LoadLabels
    <3>3. CASE b = c
      BY <1>1, <1>2, <1>8, <3>1, <3>3 DEF GroupCall, G!LoadLabels
    <3>4. CASE b \notin {c, g}
      BY <1>1, <1>8, <2>2, <2>3, <3>1, <3>4 DEF GroupCall, At
    <3> QED
      BY <3>2, <3>3, <3>4
  <2>8. ASSUME NEW j \in Ids PROVE GroupUp(j)'
    <3>1. GroupUp(j) /\ groups[j] # g /\ (groups[j] # Nil => groups[j] \in Calls)
      BY <1>1, <1>2, <1>3, NilAssumption DEF GroupUp, DTypes
    <3> QED
      BY <1>1, <1>8, <2>2, <3>1 DEF GroupUp
  <2>9. ASSUME NEW b \in Calls, NEW s \in G!Slots PROVE AccountedAt(b, s)'
    <3>1. AccountedAt(b, s) /\ (CutShort(gid[b]) => CutShort(gid[b])')
      BY <1>1, <1>4
    <3>2. InLoad(b, s) => InLoad(b, s)'
      BY <1>1, <1>8, <2>3 DEF InLoad
    <3>3. InTable(b) => InTable(b)'
      BY <1>1 DEF InTable
    <3>4. InUnload(b, s) => InUnload(b, s)' \/ (b = g /\ s = t)
      BY <1>1, <1>2, <1>5, <1>8, <2>1, <2>3, TwoReplicas DEF InUnload
    <3>5. b = g /\ s = t /\ gconts'[b][s] # "none" => g \in glost' \/ CutShort(gid[b])'
      BY <1>1, <1>2, <1>4, <2>2 DEF CutShort
    <3> QED
      BY <1>1, <2>2, <2>5, <3>1, <3>2, <3>3, <3>4, <3>5 DEF AccountedAt
  <2> QED
    BY <2>4, <2>6, <2>7, <2>8, <2>9
<1> QED
  BY <1>6, <1>7, <1>8

LEMMA GroupExits ==
    ASSUME DTypes, GroupInv, NEW c \in Calls, NEW s \in G!Slots, G!ContainerExits(c, s),
           UNCHANGED id
    PROVE  GroupInv'
<1> USE DEF GroupInv
<1>1. /\ G!SetCont(c, s, "exited") /\ gconts[c][s] = "running"
      /\ UNCHANGED <<launched, undone, target, glost, gid, gpc, groups, restarts, cancelled>>
  BY DEF G!ContainerExits, G!tables, G!frame, G!loop, G!env
<1>2. /\ gconts' \in [Calls -> [G!Slots -> {"none", "created", "running", "exited"}]]
      /\ gconts'[c][s] = "exited" /\ \A t \in G!Slots \ {s} : gconts'[c][t] = gconts[c][t]
      /\ \A b \in Calls \ {c} : gconts'[b] = gconts[b]
  BY <1>1, SetContAt
<1>3. \A b \in Calls : \A t \in G!Slots :
         /\ gconts'[b][t] # "none" <=> gconts[b][t] # "none"
         /\ gconts'[b][t] \in Backing <=> gconts[b][t] \in Backing
  BY <1>1, <1>2 DEF Backing
<1>4. GTypes' /\ NamesUnique'
  <2>1. GTypes'
    BY <1>1, <1>2 DEF GTypes
  <2>2. NamesUnique'
    BY <1>1, <1>3 DEF NamesUnique
  <2> QED
    BY <2>1, <2>2
<1>5. ASSUME NEW b \in Calls PROVE GroupCall(b)'
  <2>1. gpc[b] \in {"start", "ready"} => At(b) \in G!Slots
    BY TwoReplicas DEF GroupCall, GTypes, At
  <2> QED
    BY <1>1, <1>3, <2>1 DEF GroupCall, At
<1>6. ASSUME NEW i \in Ids PROVE GroupUp(i)'
  BY <1>1, <1>3 DEF GroupUp, DTypes
<1>7. ASSUME NEW b \in Calls, NEW t \in G!Slots PROVE AccountedAt(b, t)'
  <2>1. CutShort(gid[b]) <=> CutShort(gid[b])'
    BY <1>1 DEF CutShort
  <2> QED
    BY <1>1, <1>3, <2>1 DEF AccountedAt, InLoad, InTable, InUnload
<1> QED
  BY <1>4, <1>5, <1>6, <1>7

(* After a restart no group is in the table; what docker holds is excepted.  *)
LEMMA GroupRestart ==
    ASSUME SingleInv, DTypes, GroupInv, DRestart
    PROVE  GroupInv'
<1> USE DEF GroupInv
<1>1. /\ groups' = [i \in Ids |-> Nil] /\ restarts' = restarts + 1
      /\ gpc' = [c \in Calls |-> IF G!InFlight(c) THEN "killed" ELSE gpc[c]]
      /\ UNCHANGED <<gconts, gid, launched, undone, target, glost>>
  BY DEF DRestart, G!Restart, G!docker, G!frame, G!loop
<1>2. restarts' # 0
  BY <1>1 DEF SingleInv, TypeOK
<1>3. GTypes' /\ NamesUnique'
  BY <1>1 DEF GTypes, NamesUnique
<1>4. ASSUME NEW b \in Calls PROVE GroupCall(b)'
  <2>1. GroupCall(b)
    OBVIOUS
  <2>2. \/ gpc'[b] = "killed" /\ gpc[b] # "idle"
        \/ gpc'[b] = gpc[b] /\ gpc[b] \notin G!LoadLabels \cup G!UnloadLabels
    BY <1>1 DEF G!InFlight, G!LoadLabels, G!UnloadLabels
  <2> QED
    BY <1>1, <2>1, <2>2 DEF GroupCall, G!LoadLabels, G!UnloadLabels
<1>5. \A i \in Ids : GroupUp(i)'
  BY <1>1 DEF GroupUp
<1>6. \A b \in Calls : \A s \in G!Slots : AccountedAt(b, s)'
  BY <1>2 DEF AccountedAt
<1> QED
  BY <1>3, <1>4, <1>5, <1>6

(* A command gets its deployment when it begins, and is never uncancelled.   *)
LEMMA CutShortStays ==
    ASSUME TablesInv, NEW j \in Ids, CutShort(j), cancelled \subseteq cancelled',
           \A c \in Calls : /\ id'[c] = id[c] \/ pc[c] = "idle"
                            /\ gid'[c] = gid[c] \/ gpc[c] = "idle",
           cancelled \in SUBSET Calls
    PROVE  CutShort(j)'
<1>1. PICK c \in cancelled : j \in {id[c], gid[c]}
  BY DEF CutShort
<1>2. CallInv(c) /\ c \in Calls
  BY DEF TablesInv
<1>3. (id[c] = j => pc[c] # "idle") /\ (gid[c] = j => gpc[c] # "idle")
  BY <1>2, NilAssumption DEF CallInv
<1>4. j \in {id'[c], gid'[c]}
  BY <1>1, <1>2, <1>3
<1> QED
  BY <1>1, <1>4 DEF CutShort

LEMMA GroupNext == SingleInv /\ TablesInv /\ GroupInv /\ [DNext]_dvars => GroupInv'
<1> SUFFICES ASSUME SingleInv, TablesInv, GroupInv, [DNext]_dvars PROVE GroupInv'
  OBVIOUS
<1> DEFINE still == UNCHANGED <<gconts, launched, undone, target, glost, gid, gpc, groups,
                                restarts>>
<1>1. DTypes /\ cancelled \in SUBSET Calls
  BY DEF TablesInv, SingleInv, TypeOK
<1>q. ASSUME still, cancelled \subseteq cancelled',
             \A c \in Calls : id'[c] = id[c] \/ pc[c] = "idle"
      PROVE  GroupInv'
  BY <1>1, <1>q, CutShortStays, GroupQuiet
<1>2. ASSUME NEW c \in Calls, NEW i \in Ids, NEW g \in GPUChoices, DispatchLoad(c, i, g)
      PROVE  GroupInv'
  BY <1>2, <1>q DEF DispatchLoad, single, shared, group
<1>3. ASSUME NEW c \in Calls, NEW i \in Ids,
             (\E g \in GPUChoices : DispatchGroupLoad(c, i, g)) \/ DispatchUnload(c, i)
      PROVE  GroupInv'
  <2>1. /\ gpc[c] = "idle" /\ gid' = [gid EXCEPT ![c] = i]
        /\ UNCHANGED <<launched, undone, target, restarts, gconts, glost, groups, id,
                       cancelled>>
        /\ \E l \in {"plan", "err", "release"} : gpc' = [gpc EXCEPT ![c] = l]
    BY <1>3 DEF DispatchGroupLoad, DispatchUnload, G!LoadModel, G!UnloadModel, G!Goto,
                G!docker, G!loop, G!env, single
  <2>2. gid[c] = Nil
    BY <2>1 DEF TablesInv, CallInv
  <2>3. \A b \in Calls \ {c} : gid'[b] = gid[b]
    BY <1>1, <2>1 DEF DTypes
  <2>4. \A j \in Ids : CutShort(j) => CutShort(j)'
    BY <1>1, <2>1, <2>3, CutShortStays
  <2> QED
    BY <1>1, <2>1, <2>2, <2>4, GroupArrives
<1>4. ASSUME NEW c \in Calls, NEW i \in Ids, NEW p \in FixedPorts \cup {NoPort},
             BuildPlan(c, i, p)
      PROVE  GroupInv'
  <2>1. UNCHANGED group /\ pc[c] = "idle"
    BY <1>4 DEF BuildPlan, TablesInv, CallInv
  <2>2. /\ UNCHANGED <<cancelled, restarts>>
        /\ \A b \in Calls : id'[b] = id[b] \/ b = c
    BY <1>4 DEF BuildPlan, LoadModel, env, shared, single, SingleInv, TypeOK
  <2> QED
    BY <1>q, <2>1, <2>2 DEF group
<1>5. ASSUME NEW c \in Calls, AnswerLoad(c) \/ AnswerUnload(c) PROVE GroupInv'
  BY <1>5, <1>q DEF AnswerLoad, AnswerUnload, single, shared, group
<1>6. ASSUME NEW c \in Calls, ReleaseAll(c) PROVE GroupInv'
  <2>1. /\ gpc[c] = "release" /\ gpc' = [gpc EXCEPT ![c] = "take"]
        /\ UNCHANGED <<launched, undone, target, restarts, gconts, glost, groups, id, gid,
                       cancelled>>
    BY <1>6 DEF ReleaseAll, G!ReleaseLeases, G!Goto, G!docker, G!loop, G!env, G!frame, single
  <2>2. gid[c] \in Ids /\ gid' = [gid EXCEPT ![c] = gid[c]]
    BY <1>1, <2>1 DEF GroupInv, GroupCall, DTypes
  <2>3. \A j \in Ids : CutShort(j) => CutShort(j)'
    BY <1>1, <2>1, CutShortStays
  <2> QED
    BY <1>1, <2>1, <2>2, <2>3, GroupArrives
<1>7. ASSUME NEW c \in Calls, UnloadSingle(c) PROVE GroupInv'
  <2>1. UNCHANGED group /\ pc[c] = "idle"
    BY <1>7 DEF UnloadSingle, TablesInv, CallInv
  <2>2. /\ UNCHANGED <<cancelled, restarts>>
        /\ \A b \in Calls : id'[b] = id[b] \/ b = c
    BY <1>7 DEF UnloadSingle, UnloadModel, env, SingleInv, TypeOK
  <2> QED
    BY <1>q, <2>1, <2>2 DEF group
<1>8. ASSUME NEW c \in Calls, SingleStep(c) PROVE GroupInv'
  <2>1. UNCHANGED group /\ UNCHANGED <<id, cancelled, restarts>>
    BY <1>8, StepSeen DEF SingleStep
  <2> QED
    BY <1>q, <2>1 DEF group
<1>9. ASSUME NEW c \in Calls, GroupStep(c) PROVE GroupInv'
  <2>1. UNCHANGED id /\ dpc[c] \in {"group", "teardown"}
    BY <1>9 DEF GroupStep, single
  <2>2. CASE G!BuildDeploymentPlan(c) \/ G!PullGroup(c) \/ G!AllocPort(c)
    BY <1>1, <2>1, <2>2, GroupBegin
  <2>3. CASE G!CreateReplica(c) \/ G!StartReplica(c)
    BY <1>1, <2>1, <2>3, GroupCreate, GroupStart
  <2>4. CASE G!WaitReady(c)
    <3>1. /\ gpc[c] = "ready"
          /\ \/ /\ gpc' = [gpc EXCEPT ![c] = "cleanup"]
                /\ UNCHANGED launched
             \/ /\ gpc' = [gpc EXCEPT ![c] = IF At(c) = G!Replicas THEN "rmImage"
                                             ELSE "alloc"]
                /\ launched' = [launched EXCEPT ![c] = At(c)]
      BY <2>4 DEF G!WaitReady, G!Goto, At
    <3>2. UNCHANGED <<gid, gconts, undone, target, cancelled, restarts, groups, glost>>
      BY <2>4 DEF G!WaitReady, G!tables, G!docker, G!frame, G!env
    <3> QED
      BY <1>1, <2>1, <3>1, <3>2, GroupReady
  <2>5. CASE G!CleanupReplica(c) \/ G!Rollback(c) \/ G!RemoveImage(c)
    BY <1>1, <2>1, <2>5, GroupUndo, GroupRemoveImage
  <2>6. CASE G!PublishGroup(c) \/ G!RegisterDisagg(c)
    BY <1>1, <2>1, <2>6, GroupPublish
  <2>7. CASE G!TakeGroup(c)
    <3>1. dpc[c] = "teardown"
      BY <2>7 DEF G!TakeGroup, TablesInv, CallInv
    <3> QED
      BY <2>1, <2>7, <3>1, GroupTake
  <2>8. CASE G!TeardownReplica(c)
    BY <2>1, <2>8, GroupTeardown
  <2> QED
    BY <1>9, <2>2, <2>3, <2>4, <2>5, <2>6, <2>7, <2>8 DEF GroupStep, G!LoadStep
<1>10. ASSUME NEW c \in Calls, StartRefused(c) \/ ReadyByOther(c) PROVE GroupInv'
  <2>1. /\ UNCHANGED <<id, cancelled, restarts, gid, gconts, undone, target, groups, glost>>
        /\ \/ UNCHANGED <<gpc, launched>>
           \/ /\ gpc[c] = "start" /\ gpc' = [gpc EXCEPT ![c] = "cleanup"]
              /\ UNCHANGED launched
           \/ /\ gpc[c] = "ready"
              /\ gpc' = [gpc EXCEPT ![c] = IF At(c) = G!Replicas THEN "rmImage" ELSE "alloc"]
              /\ launched' = [launched EXCEPT ![c] = At(c)]
    BY <1>10 DEF StartRefused, ReadyByOther, G!Goto, At, shared
  <2>2. CASE UNCHANGED <<gpc, launched>>
    BY <1>q, <2>1, <2>2
  <2>3. CASE ~UNCHANGED <<gpc, launched>>
    BY <1>1, <2>1, <2>3, GroupReady
  <2> QED
    BY <2>2, <2>3
<1>11. ASSUME NEW c \in Calls, Exits(c) PROVE GroupInv'
  <2>1. CASE ContainerExits(c) /\ UNCHANGED group
    BY <1>q, <2>1 DEF ContainerExits, frame, env, group
  <2>2. CASE \E s \in G!Slots : G!ContainerExits(c, s) /\ UNCHANGED single
    BY <1>1, <2>2, GroupExits DEF single
  <2> QED
    BY <1>11, <2>1, <2>2 DEF Exits
<1>12. CASE DDisconnect
  BY <1>q, <1>12 DEF DDisconnect, single, group
<1>13. CASE DRestart
  BY <1>1, <1>13, GroupRestart
<1>14. CASE UNCHANGED dvars
  BY <1>q, <1>14 DEF dvars, single, shared, group
<1> QED
  BY <1>2, <1>3, <1>4, <1>5, <1>6, <1>7, <1>8, <1>9, <1>10, <1>11, <1>12, <1>13, <1>14
  DEF DNext

LEMMA HostInvariant ==
    ASSUME Sender = "serial"
    PROVE  DSpec => [](SingleInv /\ TablesInv /\ GroupInv)
<1>1. DInit => GroupInv
  BY GroupInit
<1>2. SingleInv /\ TablesInv /\ GroupInv /\ [DNext]_dvars => GroupInv'
  BY GroupNext
<1> QED
  BY <1>1, <1>2, CoreInvariant, PTL DEF DSpec

-----------------------------------------------------------------------------
(* A container that runs is alone on its port, as far as the other half goes:*)
(* docker refuses a start for a port that is bound, and a command is given a *)
(* port before it has a container.                                           *)

Early == {"idle"} \cup Asking

\* The load has not come to the start of this replica.
Ahead(c, s) ==
    \/ gpc[c] \in {"idle", "plan", "pull", "alloc", "create"} /\ s > launched[c]
    \/ gpc[c] \in {"start", "ready"} /\ s > launched[c] + 1

HostPorts == PrefillPorts \cup DecodePorts \cup {NoPort}

Apart ==
    \A b, g \in Calls : \A s \in G!Slots :
        conts[b] = "running" /\ gconts[g][s] = "running" => port[b] # gports[g][s]

ApartInv ==
    /\ gports \in [Calls -> [G!Slots -> HostPorts]]
    /\ \A c \in Calls : pc[c] \in Early => conts[c] # "running"
    /\ \A c \in Calls : \A s \in G!Slots : Ahead(c, s) => gconts[c][s] # "running"
    /\ Apart

LEMMA ApartInit == DInit => ApartInv
<1> SUFFICES ASSUME DInit PROVE ApartInv
  OBVIOUS
<1>1. /\ conts = [c \in Calls |-> "none"]
      /\ gconts = [c \in Calls |-> [s \in G!Slots |-> "none"]]
      /\ gports = [c \in Calls |-> [s \in G!Slots |-> NoPort]]
  <2>1. conts = [c \in Calls |-> "none"]
    BY DEF DInit, Init
  <2>2. /\ gconts = [c \in Calls |-> [s \in G!Slots |-> "none"]]
        /\ gports = [c \in Calls |-> [s \in G!Slots |-> NoPort]]
    BY DEF DInit, G!Init, G!NoPort, NoPort
  <2> QED
    BY <2>1, <2>2
<1>2. \A c \in Calls : \A s \in G!Slots : gports[c][s] = NoPort /\ gconts[c][s] = "none"
  BY <1>1
<1> QED
  BY <1>1, <1>2 DEF ApartInv, Apart, HostPorts

LEMMA ApartMove ==
    ASSUME ApartInv, gports' \in [Calls -> [G!Slots -> HostPorts]],
           \A c \in Calls :
               /\ pc'[c] \in Early => pc[c] \in Early
               /\ conts'[c] = "running" =>
                     \/ conts[c] = "running"
                     \/ pc'[c] \notin Early /\ ~GroupListens(port[c])
               /\ \/ port'[c] = port[c]
                  \/ pc[c] \in Early /\ (conts'[c] = "running" => conts[c] = "running"),
           \A c \in Calls : \A s \in G!Slots :
               /\ Ahead(c, s)' => Ahead(c, s)
               /\ gconts'[c][s] = "running" =>
                     \/ gconts[c][s] = "running"
                     \/ ~Ahead(c, s)' /\ ~SingleListens(gports[c][s])
               /\ \/ gports'[c][s] = gports[c][s]
                  \/ /\ Ahead(c, s)
                     /\ gconts'[c][s] = "running" => gconts[c][s] = "running",
           UNCHANGED <<conts, port>> \/ UNCHANGED <<gconts, gports>>
    PROVE  ApartInv'
<1> USE DEF ApartInv
<1>1. \A c \in Calls : pc'[c] \in Early => conts'[c] # "running"
  OBVIOUS
<1>2. ASSUME NEW c \in Calls, NEW s \in G!Slots, Ahead(c, s)'
      PROVE  gconts'[c][s] # "running"
  BY <1>2
<1>3. ASSUME NEW b \in Calls, NEW g \in Calls, NEW s \in G!Slots,
             conts'[b] = "running", gconts'[g][s] = "running"
      PROVE  port'[b] # gports'[g][s]
  <2>1. port'[b] = port[b] /\ gports'[g][s] = gports[g][s]
    BY <1>3
  <2>2. CASE conts[b] = "running" /\ gconts[g][s] = "running"
    BY <2>1, <2>2 DEF Apart
  <2>3. CASE conts[b] # "running"
    BY <1>3, <2>1, <2>3 DEF GroupListens
  <2>4. CASE gconts[g][s] # "running"
    BY <1>3, <2>1, <2>4 DEF SingleListens
  <2> QED
    BY <2>2, <2>3, <2>4
<1> QED
  BY <1>1, <1>2, <1>3 DEF Apart

(* A step of the single half starts at most the container of its own call.   *)
LEMMA SingleStarts ==
    ASSUME SingleInv, NEW c \in Calls, Step(c)
    PROVE  /\ \A b \in Calls : conts'[b] = "running" =>
                 \/ conts[b] = "running"
                 \/ b = c /\ pc[c] = "start" /\ pc'[c] \notin Early
           /\ \A b \in Calls : port'[b] = port[b] \/ (b = c /\ pc[c] = "alloc")
           /\ pc[c] = "alloc" => UNCHANGED conts
           /\ \A b \in Calls : pc'[b] \in Early => pc[b] \in Early
<1>1. /\ conts \in [Calls -> ContStates] /\ DOMAIN port = Calls /\ DOMAIN pc = Calls
      /\ containerID \in [Calls -> Calls \cup {Nil}]
  BY DEF SingleInv, TypeOK
<1> USE <1>1 DEF Goto, Return, frame, table, docker, env, Early, Asking
<1>2. CASE LockLoad(c) \/ CheckEndpoint(c) \/ ReturnCurrent(c)
  BY <1>2 DEF LockLoad, CheckEndpoint, ReturnCurrent
<1>3. CASE AllocPort(c)
  BY <1>3 DEF AllocPort
<1>4. CASE SetPulling(c) \/ SetStarting(c) \/ SetRunning(c) \/ SetFailed(c)
  BY <1>4 DEF SetPulling, SetStarting, SetRunning, SetFailed
<1>5. CASE Pull(c)
  BY <1>5 DEF Pull
<1>6. CASE ClearStale(c)
  BY <1>6 DEF ClearStale
<1>7. CASE Create(c) \/ SetContainerID(c)
  BY <1>7 DEF Create, SetContainerID
<1>8. CASE Start(c)
  BY <1>8 DEF Start
<1>9. CASE WaitReady(c) \/ OllamaPullIfNeeded(c) \/ RemoveImage(c) \/ Publish(c)
  BY <1>9 DEF WaitReady, OllamaPullIfNeeded, RemoveImage, Publish
<1>10. CASE Cleanup(c)
  BY <1>10 DEF Cleanup
<1>11. CASE DropFailed(c) \/ DropUnloaded(c) \/ LockUnload(c)
  BY <1>11 DEF DropFailed, DropUnloaded, LockUnload
<1>12. CASE StopContainer(c)
  BY <1>12 DEF StopContainer
<1>13. CASE RemoveContainer(c)
  BY <1>13 DEF RemoveContainer
<1> QED
  BY <1>2, <1>3, <1>4, <1>5, <1>6, <1>7, <1>8, <1>9, <1>10, <1>11, <1>12, <1>13
  DEF Step, LoadStep, UnloadStep

(* Nothing a stop and a remove do makes a container run.                     *)
LEMMA DiscardStarts ==
    ASSUME GTypes, NEW g \in Calls, NEW s, NEW alive, G!Discard(g, s, alive)
    PROVE  \A b \in Calls : \A t \in G!Slots :
               gconts'[b][t] = "running" => gconts[b][t] = "running"
<1>1. UNCHANGED gconts \/ G!SetCont(g, s, "none") \/ G!SetCont(g, s, "exited")
  BY DEF G!Discard
<1>2. ASSUME NEW v \in {"none", "exited"}, G!SetCont(g, s, v),
             NEW b \in Calls, NEW t \in G!Slots
      PROVE  gconts'[b][t] = "running" => gconts[b][t] = "running"
  BY <1>2 DEF G!SetCont, GTypes
<1> QED
  BY <1>1, <1>2

(* A step of the group half starts at most the replica its load is at.       *)
LEMMA GroupStarts ==
    ASSUME TablesInv, GroupInv, NEW c \in Calls,
           G!LoadStep(c) \/ G!TakeGroup(c) \/ G!TeardownReplica(c),
           gports \in [Calls -> [G!Slots -> HostPorts]]
    PROVE  /\ gports' \in [Calls -> [G!Slots -> HostPorts]]
           /\ \A b \in Calls : \A s \in G!Slots :
                 /\ Ahead(b, s)' => Ahead(b, s)
                 /\ gconts'[b][s] = "running" =>
                       \/ gconts[b][s] = "running"
                       \/ b = c /\ gpc[c] = "start" /\ s = At(c) /\ ~Ahead(c, s)'
                 /\ \/ gports'[b][s] = gports[b][s]
                    \/ b = c /\ gpc[c] = "alloc" /\ Ahead(c, s) /\ UNCHANGED gconts
<1>1. /\ DTypes /\ GTypes /\ GroupCall(c) /\ DOMAIN gpc = Calls
      /\ launched[c] \in Nat
  BY TwoReplicas DEF TablesInv, GroupInv, DTypes, GTypes
<1> DEFINE stays == \A b \in Calls : \A s \in G!Slots : Ahead(b, s)' => Ahead(b, s)
           quiet == \A b \in Calls : \A s \in G!Slots :
                       gconts'[b][s] = "running" => gconts[b][s] = "running"
<1>2. \A b \in Calls \ {c} : gpc'[b] = gpc[b] /\ launched'[b] = launched[b]
  BY <1>1 DEF G!LoadStep, G!BuildDeploymentPlan, G!PullGroup, G!AllocPort, G!CreateReplica,
       G!StartReplica, G!WaitReady, G!CleanupReplica, G!Rollback, G!RemoveImage,
       G!PublishGroup, G!RegisterDisagg, G!TakeGroup, G!TeardownReplica, G!Goto, G!loop, GTypes
<1>3. ASSUME \A s \in G!Slots : Ahead(c, s)' => Ahead(c, s) PROVE stays
  BY <1>2, <1>3 DEF Ahead
<1>4. CASE G!AllocPort(c)
  <2> DEFINE s == launched[c] + 1
             r == G!RoleOf(s)
  <2>1. /\ gpc[c] = "alloc" /\ UNCHANGED <<gconts, launched>>
        /\ gpc'[c] \in {"create", "rollback"}
        /\ \/ UNCHANGED gports
           \/ \E p \in PrefillPorts \cup DecodePorts : gports' = [gports EXCEPT ![c][s] = p]
    BY <1>1, <1>4 DEF G!AllocPort, G!Goto, G!loop, G!FreePorts, G!RangeOf
  <2>2. stays
    BY <1>3, <2>1 DEF Ahead
  <2>3. \A t \in G!Slots : t = s => Ahead(c, t)
    BY <1>1, <2>1 DEF Ahead
  <2>4. gports' \in [Calls -> [G!Slots -> HostPorts]]
    BY <2>1 DEF HostPorts
  <2> HIDE DEF s
  <2> QED
    BY <2>1, <2>2, <2>3, <2>4
<1>5. CASE G!StartReplica(c)
  <2>1. /\ gpc[c] = "start" /\ UNCHANGED <<gports, launched>>
        /\ gpc'[c] \in {"ready", "cleanup"}
        /\ UNCHANGED gconts \/ G!SetCont(c, At(c), "running")
    BY <1>1, <1>5 DEF G!StartReplica, G!Goto, G!loop, At
  <2>2. stays
    BY <1>3, <2>1 DEF Ahead
  <2>3. \A b \in Calls : \A s \in G!Slots : gconts'[b][s] = "running" =>
           gconts[b][s] = "running" \/ (b = c /\ s = At(c))
    BY <1>1, <2>1 DEF G!SetCont, GTypes
  <2>4. ~Ahead(c, At(c))'
    BY <1>1, <2>1 DEF Ahead, At
  <2>5. \A s : s = At(c) => ~Ahead(c, s)'
    BY <1>1, <2>1 DEF Ahead, At
  <2> QED
    BY <2>1, <2>2, <2>3, <2>5
<1>6. CASE /\ UNCHANGED gports /\ stays /\ quiet
  BY <1>6
<1>7. CASE G!BuildDeploymentPlan(c) \/ G!PullGroup(c) \/ G!RemoveImage(c)
           \/ G!PublishGroup(c) \/ G!RegisterDisagg(c)
  <2>1. UNCHANGED <<gports, gconts, launched>>
    BY <1>7 DEF G!BuildDeploymentPlan, G!PullGroup, G!RemoveImage, G!PublishGroup,
                G!RegisterDisagg, G!docker, G!loop
  <2>2. \/ gpc[c] = "plan" /\ gpc'[c] \in {"pull", "err"}
        \/ gpc[c] = "pull" /\ gpc'[c] \in {"alloc", "err"}
        \/ gpc'[c] \in {"publish", "register", "ok"}
    BY <1>1, <1>7 DEF G!BuildDeploymentPlan, G!PullGroup, G!RemoveImage, G!PublishGroup,
                      G!RegisterDisagg, G!Goto
  <2> QED
    BY <1>3, <1>6, <2>1, <2>2 DEF Ahead
<1>8. CASE G!CreateReplica(c)
  <2>1. /\ gpc[c] = "create" /\ gpc'[c] \in {"start", "rollback"}
        /\ UNCHANGED <<gports, launched>>
        /\ UNCHANGED gconts \/ G!SetCont(c, launched[c] + 1, "created")
    BY <1>1, <1>8 DEF G!CreateReplica, G!Goto, G!loop
  <2>2. quiet
    BY <1>1, <2>1 DEF G!SetCont, GTypes
  <2>3. stays
    BY <1>1, <1>3, <2>1, TwoReplicas DEF Ahead
  <2> QED
    BY <1>6, <2>1, <2>2, <2>3
<1>9. CASE G!WaitReady(c)
  <2>1. /\ gpc[c] = "ready" /\ UNCHANGED <<gports, gconts>>
        /\ \/ gpc'[c] = "cleanup"
           \/ /\ gpc'[c] \in {"alloc", "rmImage"}
              /\ launched'[c] = launched[c] + 1
    BY <1>1, <1>9 DEF G!WaitReady, G!Goto, G!docker, GTypes
  <2>2. stays
    BY <1>1, <1>3, <2>1 DEF Ahead
  <2> QED
    BY <1>6, <2>1, <2>2
<1>10. CASE G!CleanupReplica(c) \/ G!Rollback(c) \/ G!TeardownReplica(c)
  <2>1. /\ UNCHANGED gports
        /\ gpc'[c] \in {"rollback", "err", "teardown", "ok"}
    BY <1>1, <1>10 DEF G!CleanupReplica, G!Rollback, G!TeardownReplica, G!Goto
  <2>2. \/ UNCHANGED gconts
        \/ \E g \in Calls : \E s, alive : G!Discard(g, s, alive)
    BY <1>1, <1>10 DEF G!CleanupReplica, G!Rollback, G!TeardownReplica, GroupCall
  <2>3. quiet
    BY <1>1, <2>2, DiscardStarts
  <2>4. stays
    BY <1>3, <2>1 DEF Ahead
  <2> QED
    BY <1>6, <2>1, <2>3, <2>4
<1>11. CASE G!TakeGroup(c)
  <2>1. UNCHANGED <<gports, gconts>> /\ gpc'[c] \in {"ok", "teardown"}
    BY <1>1, <1>11 DEF G!TakeGroup, G!Goto, G!docker
  <2> QED
    BY <1>3, <1>6, <2>1 DEF Ahead
<1> QED
  BY <1>4, <1>5, <1>7, <1>8, <1>9, <1>10, <1>11 DEF G!LoadStep

LEMMA ApartNext == SingleInv /\ TablesInv /\ GroupInv /\ ApartInv /\ [DNext]_dvars => ApartInv'
<1> SUFFICES ASSUME SingleInv, TablesInv, GroupInv, ApartInv, [DNext]_dvars PROVE ApartInv'
  OBVIOUS
<1>1. /\ DTypes /\ GTypes /\ DOMAIN pc = Calls /\ DOMAIN port = Calls /\ DOMAIN conts = Calls
      /\ \A c \in Calls : CallInv(c)
      /\ gports \in [Calls -> [G!Slots -> HostPorts]]
  BY DEF TablesInv, GroupInv, SingleInv, TypeOK, ApartInv
\* Nothing starts, and no port is given but to a call that arrives.
<1>q. ASSUME UNCHANGED <<conts, gconts, gports, launched>>,
             \A c \in Calls :
                 /\ pc'[c] \in Early => pc[c] \in Early
                 /\ port'[c] = port[c] \/ pc[c] \in Early
                 /\ \/ gpc'[c] = gpc[c]
                    \/ gpc'[c] \in {"err", "release", "take", "cleanup"}
                    \/ gpc[c] = "idle" /\ gpc'[c] = "plan"
      PROVE  ApartInv'
  <2>1. \A c \in Calls : \A s \in G!Slots : Ahead(c, s)' => Ahead(c, s)
    BY <1>q DEF Ahead
  <2> QED
    BY <1>1, <1>q, <2>1, ApartMove
<1>2. ASSUME NEW c \in Calls, NEW i \in Ids,
             \/ \E g \in GPUChoices : DispatchLoad(c, i, g) \/ DispatchGroupLoad(c, i, g)
             \/ DispatchUnload(c, i)
      PROVE  ApartInv'
  <2>1. UNCHANGED <<conts, gconts, gports, launched, pc, port>>
    BY <1>2 DEF DispatchLoad, DispatchGroupLoad, DispatchUnload, G!LoadModel, G!UnloadModel,
                G!docker, G!loop, single, group
  <2>2. \/ UNCHANGED gpc
        \/ gpc[c] = "idle" /\ \E l \in {"plan", "err", "release"} : gpc' = [gpc EXCEPT ![c] = l]
    BY <1>2 DEF DispatchLoad, DispatchGroupLoad, DispatchUnload, G!LoadModel, G!UnloadModel,
                G!Goto, group
  <2> QED
    BY <1>1, <1>q, <2>1, <2>2 DEF DTypes
<1>3. ASSUME NEW c \in Calls, NEW i \in Ids, NEW p \in FixedPorts \cup {NoPort},
             BuildPlan(c, i, p)
      PROVE  ApartInv'
  <2>1. UNCHANGED group /\ pc[c] = "idle"
    BY <1>1, <1>3 DEF BuildPlan, CallInv
  <2>2. UNCHANGED conts /\ \A b \in Calls \ {c} : port'[b] = port[b] /\ pc'[b] = pc[b]
    BY <1>1, <1>3 DEF BuildPlan, LoadModel, Goto, docker, single
  <2> QED
    BY <1>q, <2>1, <2>2 DEF group, Early
<1>4. ASSUME NEW c \in Calls, AnswerLoad(c) \/ AnswerUnload(c) \/ ReleaseAll(c)
      PROVE  ApartInv'
  <2>1. UNCHANGED <<conts, gconts, gports, launched, pc, port>>
    BY <1>4 DEF AnswerLoad, AnswerUnload, ReleaseAll, G!ReleaseLeases, G!docker, G!loop,
                single, group
  <2>2. UNCHANGED gpc \/ gpc' = [gpc EXCEPT ![c] = "take"]
    BY <1>4 DEF AnswerLoad, AnswerUnload, ReleaseAll, G!ReleaseLeases, G!Goto, group
  <2> QED
    BY <1>1, <1>q, <2>1, <2>2 DEF DTypes
<1>5. ASSUME NEW c \in Calls, UnloadSingle(c) PROVE ApartInv'
  <2>1. UNCHANGED group /\ UNCHANGED <<conts, port>>
        /\ \E l \in {"ok", "ulock"} : pc' = [pc EXCEPT ![c] = l]
    BY <1>5 DEF UnloadSingle, UnloadModel, Goto, docker, frame
  <2> QED
    BY <1>1, <1>q, <2>1 DEF group, Early, Asking
<1>6. ASSUME NEW c \in Calls, SingleStep(c) PROVE ApartInv'
  <2>1. /\ Step(c) /\ UNCHANGED <<gconts, gports, launched, gpc>>
        /\ pc[c] = "start" /\ GroupListens(port[c]) => conts' = conts
    BY <1>6 DEF SingleStep, group
  <2>2. \A b \in Calls : conts'[b] = "running" =>
           conts[b] = "running" \/ (pc'[b] \notin Early /\ ~GroupListens(port[b]))
    BY <2>1, SingleStarts
  <2>3. \A b \in Calls :
           \/ port'[b] = port[b]
           \/ pc[b] \in Early /\ (conts'[b] = "running" => conts[b] = "running")
    BY <2>1, SingleStarts DEF Early, Asking
  <2>4. \A b \in Calls : \A s \in G!Slots : Ahead(b, s)' => Ahead(b, s)
    BY <2>1 DEF Ahead
  <2> QED
    BY <1>1, <2>1, <2>2, <2>3, <2>4, SingleStarts, ApartMove
<1>7. ASSUME NEW c \in Calls, GroupStep(c) PROVE ApartInv'
  <2>1. /\ G!LoadStep(c) \/ G!TakeGroup(c) \/ G!TeardownReplica(c)
        /\ UNCHANGED <<conts, port, pc>>
        /\ gpc[c] = "start" /\ SingleListens(gports[c][At(c)]) => gconts' = gconts
    BY <1>7 DEF GroupStep, single
  <2>2. /\ gports' \in [Calls -> [G!Slots -> HostPorts]]
        /\ \A b \in Calls : \A s \in G!Slots :
              /\ Ahead(b, s)' => Ahead(b, s)
              /\ gconts'[b][s] = "running" =>
                    \/ gconts[b][s] = "running"
                    \/ b = c /\ gpc[c] = "start" /\ s = At(c) /\ ~Ahead(c, s)'
              /\ \/ gports'[b][s] = gports[b][s]
                 \/ b = c /\ gpc[c] = "alloc" /\ Ahead(c, s) /\ UNCHANGED gconts
    BY <1>1, <2>1, GroupStarts
  <2>3. \A b \in Calls : \A s \in G!Slots : gconts'[b][s] = "running" =>
           gconts[b][s] = "running" \/ (~Ahead(b, s)' /\ ~SingleListens(gports[b][s]))
    BY <2>1, <2>2
  <2>4. \A b \in Calls : \A s \in G!Slots :
           \/ gports'[b][s] = gports[b][s]
           \/ Ahead(b, s) /\ (gconts'[b][s] = "running" => gconts[b][s] = "running")
    BY <2>2
  <2> QED
    BY <2>1, <2>2, <2>3, <2>4, ApartMove
<1>8. ASSUME NEW c \in Calls, StartRefused(c) PROVE ApartInv'
  <2>1. UNCHANGED <<conts, port, gconts, gports, launched>>
    BY <1>8 DEF StartRefused
  <2>2. /\ UNCHANGED pc \/ pc' = [pc EXCEPT ![c] = "cleanup"]
        /\ UNCHANGED gpc \/ gpc' = [gpc EXCEPT ![c] = "cleanup"]
    BY <1>8 DEF StartRefused, Goto, G!Goto
  <2> QED
    BY <1>1, <1>q, <2>1, <2>2 DEF DTypes, Early, Asking
<1>9. ASSUME NEW c \in Calls, ReadyByOther(c) PROVE ApartInv'
  <2>1. UNCHANGED <<conts, port, gconts, gports>>
    BY <1>9 DEF ReadyByOther
  <2>2. /\ \A b \in Calls : pc'[b] \in Early => pc[b] \in Early
        /\ \/ UNCHANGED <<gpc, launched>>
           \/ /\ gpc[c] = "ready" /\ launched' = [launched EXCEPT ![c] = @ + 1]
              /\ \E l \in {"rmImage", "alloc"} : gpc' = [gpc EXCEPT ![c] = l]
    BY <1>1, <1>9 DEF ReadyByOther, Goto, G!Goto, Early, Asking
  <2>3. \A b \in Calls : \A s \in G!Slots : Ahead(b, s)' => Ahead(b, s)
    <3>1. CASE UNCHANGED <<gpc, launched>>
      BY <3>1 DEF Ahead
    <3>2. CASE /\ gpc[c] = "ready" /\ launched' = [launched EXCEPT ![c] = @ + 1]
               /\ \E l \in {"rmImage", "alloc"} : gpc' = [gpc EXCEPT ![c] = l]
      <4>1. /\ launched'[c] = launched[c] + 1 /\ gpc'[c] \in {"rmImage", "alloc"}
            /\ \A b \in Calls \ {c} : launched'[b] = launched[b] /\ gpc'[b] = gpc[b]
        BY <1>1, <3>2 DEF DTypes, GTypes
      <4> QED
        BY <3>2, <4>1 DEF Ahead
    <3> QED
      BY <2>2, <3>1, <3>2
  <2> QED
    BY <1>1, <2>1, <2>2, <2>3, ApartMove
<1>10. ASSUME NEW c \in Calls, Exits(c) PROVE ApartInv'
  <2>1. CASE ContainerExits(c) /\ UNCHANGED group
    <3>1. /\ UNCHANGED <<pc, port, gconts, gports, launched, gpc>>
          /\ \A b \in Calls : conts'[b] = "running" => conts[b] = "running"
      BY <1>1, <2>1 DEF ContainerExits, group
    <3>2. \A b \in Calls : \A s \in G!Slots : Ahead(b, s)' => Ahead(b, s)
      BY <3>1 DEF Ahead
    <3> QED
      BY <1>1, <3>1, <3>2, ApartMove
  <2>2. CASE \E s \in G!Slots : G!ContainerExits(c, s) /\ UNCHANGED single
    <3>1. /\ UNCHANGED <<pc, port, conts, gports, launched, gpc>>
          /\ \A b \in Calls : \A s \in G!Slots :
                gconts'[b][s] = "running" => gconts[b][s] = "running"
      BY <1>1, <2>2 DEF G!ContainerExits, G!SetCont, G!loop, GTypes, single
    <3>2. \A b \in Calls : \A s \in G!Slots : Ahead(b, s)' => Ahead(b, s)
      BY <3>1 DEF Ahead
    <3> QED
      BY <1>1, <3>1, <3>2, ApartMove
  <2> QED
    BY <1>10, <2>1, <2>2 DEF Exits
<1>11. CASE DDisconnect
  BY <1>q, <1>11 DEF DDisconnect, single, group
<1>12. CASE DRestart
  <2>1. /\ UNCHANGED <<conts, port, gconts, gports, launched>>
        /\ pc' = [c \in Calls |-> IF InFlight(c) THEN "killed" ELSE pc[c]]
        /\ gpc' = [c \in Calls |-> IF G!InFlight(c) THEN "killed" ELSE gpc[c]]
    BY <1>12 DEF DRestart, Restart, G!Restart, docker, G!docker, G!loop
  <2>2. \A b \in Calls : \A s \in G!Slots : Ahead(b, s)' => Ahead(b, s)
    BY <1>1, <2>1 DEF Ahead
  <2>3. \A b \in Calls : pc'[b] \in Early => pc[b] \in Early
    BY <2>1 DEF Early, Asking
  <2> QED
    BY <1>1, <2>1, <2>2, <2>3, ApartMove
<1>13. CASE UNCHANGED dvars
  BY <1>q, <1>13 DEF dvars, single, group
<1> QED
  BY <1>2, <1>3, <1>4, <1>5, <1>6, <1>7, <1>8, <1>9, <1>10, <1>11, <1>12, <1>13 DEF DNext

LEMMA ApartInvariant ==
    ASSUME Sender = "serial"
    PROVE  DSpec => [](SingleInv /\ TablesInv /\ GroupInv /\ ApartInv)
<1>1. SingleInv /\ TablesInv /\ GroupInv /\ ApartInv /\ [DNext]_dvars => ApartInv'
  BY ApartNext
<1> QED
  BY <1>1, ApartInit, HostInvariant, PTL DEF DSpec

(* A deployment that is loaded, as a single one or as a group, was started,  *)
(* also where the ports of the two halves overlap, and while its container   *)
(* runs no container of the other half answers on its port.                  *)
THEOREM LoadedServesItself ==
    ASSUME Sender = "serial"
    PROVE  DSpec => []ServedByItself
<1>1. SingleInv /\ TablesInv /\ GroupInv /\ ApartInv => ServedByItself
  <2> SUFFICES ASSUME SingleInv, TablesInv, GroupInv, ApartInv, NEW i \in Ids
               PROVE  /\ i \in LoadedDeployments =>
                            LET b == ContainerForDeployment(i) IN
                            \/ conts[b] = "running" /\ ~GroupListens(port[b])
                            \/ conts[b] = "exited"
                      /\ groups[i] # Nil =>
                            \A s \in G!Slots :
                                LET b == groups[i] IN
                                \/ gconts[b][s] = "running" /\ ~SingleListens(gports[b][s])
                                \/ gconts[b][s] = "exited"
    BY DEF ServedByItself
  <2>1. ASSUME i \in LoadedDeployments
        PROVE  /\ ContainerForDeployment(i) \in Calls
               /\ conts[ContainerForDeployment(i)] \in {"running", "exited"}
    BY <2>1, NilAssumption
    DEF SingleInv, TypeOK, TrackInv, LoadedIsBacked, LoadedDeployments, StatusOf,
        ContainerForDeployment
  <2>2. ASSUME NEW b \in Calls, conts[b] = "running" PROVE ~GroupListens(port[b])
    BY <2>2 DEF ApartInv, Apart, GroupListens
  <2>3. ASSUME groups[i] # Nil
        PROVE  /\ groups[i] \in Calls
               /\ \A s \in G!Slots : gconts[groups[i]][s] \in {"running", "exited"}
    BY <2>3 DEF GroupInv, GroupUp, Backing, TablesInv, DTypes
  <2>4. ASSUME NEW g \in Calls, NEW s \in G!Slots, gconts[g][s] = "running"
        PROVE  ~SingleListens(gports[g][s])
    BY <2>4 DEF ApartInv, Apart, SingleListens
  <2> QED
    BY <2>1, <2>2, <2>3, <2>4
<1> QED
  BY <1>1, ApartInvariant, PTL

(* After an UnloadModel that answered "ok" nothing of the deployment is      *)
(* left, in the registry, the tables, the GPU leases or docker, in either of *)
(* its forms: with the exceptions the property names, for what failed,       *)
(* was cut short, or outlived the worker.                                    *)
THEOREM UnloadsLeaveNothing ==
    ASSUME Sender = "serial"
    PROVE  DSpec => []UnloadLeavesNothing
<1>1. SingleInv /\ TablesInv /\ GroupInv => UnloadLeavesNothing
  <2> SUFFICES ASSUME SingleInv, TablesInv, GroupInv, NEW c \in Calls, NEW i \in Ids,
                      kind[c] = "unload", dpc[c] = "ok", last[i] = c
               PROVE  /\ registry[i] = Nil /\ groups[i] = Nil
                      /\ \A k \in KeysOf(i) : allocated[k] = {}
                      /\ ~UnloadFailed(i) => deployments[i] = Nil
                      /\ ~UnloadFailed(i) /\ ~CutShort(i) /\ restarts = 0 =>
                            /\ Named(i) \subseteq lost
                            /\ \A b \in Calls \ glost, s \in G!Slots :
                                  gid[b] = i => gconts[b][s] = "none"
    BY DEF UnloadLeavesNothing
  <2>1. GoneInv(i) /\ c # Nil
    BY NilAssumption DEF TablesInv, IdInv
  <2>2. /\ registry[i] = Nil /\ groups[i] = Nil
        /\ \A k \in KeysOf(i) : allocated[k] = {}
        /\ id[c] = i /\ op[c] = "unload" /\ pc[c] \in Returned
        /\ pc[c] = "ok" => deployments[i] = Nil
    BY <2>1 DEF GoneInv
  <2>3. ~UnloadFailed(i) => deployments[i] = Nil
    BY <2>2 DEF UnloadFailed, Returned
  <2>4. ASSUME ~UnloadFailed(i), NEW b \in Named(i), b \notin lost PROVE FALSE
    <3>1. b \in Calls /\ id[b] = i /\ Held(b)
      BY <2>3, <2>4 DEF Named, SingleInv, TrackInv, Accounted, Kept
    <3>2. dpc[b] = "runtime" /\ last[i] = b
      BY <3>1 DEF Held, Owning, Loading, Unloading, Holding, TablesInv, CallInv
    <3> QED
      BY <3>2
  <2>5. ASSUME ~CutShort(i), restarts = 0, NEW b \in Calls \ glost, NEW s \in G!Slots,
               gid[b] = i, gconts[b][s] # "none"
        PROVE  FALSE
    <3>1. InLoad(b, s) \/ InTable(b) \/ InUnload(b, s)
      BY <2>5 DEF GroupInv, AccountedAt
    <3>2. ~InLoad(b, s)
      <4> SUFFICES ASSUME InLoad(b, s) PROVE FALSE
        OBVIOUS
      <4>1. dpc[b] = "group"
        BY <2>5 DEF InLoad, TablesInv, CallInv, G!LoadLabels
      <4>2. last[i] = b
        BY <2>5, <4>1 DEF TablesInv, CallInv
      <4> QED
        BY <4>1, <4>2
    <3>3. ~InTable(b)
      BY <2>2, <2>5, NilAssumption DEF InTable
    <3>4. ~InUnload(b, s)
      <4> SUFFICES ASSUME NEW d \in Calls, gpc[d] = "teardown", target[d] = b PROVE FALSE
        BY DEF InUnload
      <4>1. gid[d] = i
        BY <2>5 DEF GroupInv, GroupCall
      <4>2. dpc[d] = "teardown" /\ last[i] = d
        BY <4>1 DEF TablesInv, CallInv
      <4> QED
        BY <4>2
    <3> QED
      BY <3>1, <3>2, <3>3, <3>4
  <2> QED
    BY <2>2, <2>3, <2>4, <2>5
<1> QED
  BY <1>1, HostInvariant, PTL

-----------------------------------------------------------------------------
(* The shares of the plan.  Leases are finite sets of GPUs, and there are    *)
(* finitely many of them, so that the pool has a capacity and the shares a   *)
(* sum.                                                                      *)
GPUSets == {gpus \in SUBSET Nat : IsFiniteSet(gpus)}
LeaseTypes ==
    /\ allocated \in [Keys -> GPUSets]
    /\ \A k \in Keys : \A h \in granted[k] : h[2] \in GPUSets

LEMMA Divides ==
    ASSUME NEW n \in Nat \ {0}, NEW b \in Nat
    PROVE  (n * b) \div n = b
  OBVIOUS

LEMMA Scaled ==
    ASSUME NEW a \in Int, NEW b \in Int, NEW c \in Nat, a >= b
    PROVE  a * c >= b * c
  OBVIOUS

LEMMA AgentsFinite ==
    ASSUME LeaseTypes
    PROVE  /\ A!Agents \in SUBSET Keys /\ IsFiniteSet(A!Agents)
           /\ \A k \in A!Agents : allocated[k] \in GPUSets
<1>1. IsFiniteSet(Uses)
  <2>1. IsFiniteSet({"single"})
    BY FS_Singleton
  <2>2. IsFiniteSet({"single"} \cup {"prefill"})
    BY <2>1, FS_AddElement
  <2>3. IsFiniteSet(({"single"} \cup {"prefill"}) \cup {"decode"})
    BY <2>2, FS_AddElement
  <2>4. Uses = ({"single"} \cup {"prefill"}) \cup {"decode"}
    BY DEF Uses
  <2> QED
    BY <2>3, <2>4
<1>2. IsFiniteSet(Keys)
  BY <1>1, DispatcherAssumption, FS_Product DEF Keys
<1>3. A!Agents \in SUBSET Keys
  BY DEF A!Agents
<1>4. IsFiniteSet(A!Agents)
  BY <1>2, <1>3, FS_Subset
<1> QED
  BY <1>3, <1>4 DEF LeaseTypes

(* The operators of the library that GPUAllocator uses.                      *)
LEMMA AllocatorCounts ==
    ASSUME NEW T
    PROVE  A!Cardinality(T) = Cardinality(T) /\ A!Max(T) = Max(T)
  BY DEF A!Cardinality, Cardinality, A!IsFiniteSet, IsFiniteSet, A!Max, Max

LEMMA PoolFinite ==
    ASSUME LeaseTypes, NEW old \in GPUSets
    PROVE  A!poolCapacity(old) \in Nat
<1> DEFINE held == {allocated[k] : k \in A!Agents}
           f == [k \in A!Agents |-> allocated[k]]
           indices == {0} \cup old \cup UNION held
<1>1. IsFiniteSet(A!Agents) /\ \A k \in A!Agents : allocated[k] \in GPUSets
  BY AgentsFinite
<1>2. IsFiniteSet(held)
  <2>1. f \in [A!Agents -> held] /\ \A t \in held : \E k \in A!Agents : f[k] = t
    OBVIOUS
  <2>2. f \in Surjection(A!Agents, held)
    BY <2>1 DEF Surjection
  <2> QED
    BY <1>1, <2>2, FS_Surjection
<1>3. \A T \in held : IsFiniteSet(T) /\ T \in SUBSET Nat
  BY <1>1 DEF GPUSets
<1>4. IsFiniteSet(UNION held) /\ UNION held \in SUBSET Nat
  <2>1. IsFiniteSet(UNION held)
    BY <1>2, <1>3, FS_UNION
  <2> QED
    BY <1>3, <2>1
<1>5. IsFiniteSet(indices) /\ indices \in SUBSET Nat /\ 0 \in indices
  <2>1. IsFiniteSet({0})
    BY FS_Singleton
  <2>2. IsFiniteSet(old) /\ old \in SUBSET Nat
    BY DEF GPUSets
  <2>3. IsFiniteSet({0} \cup old)
    BY <2>1, <2>2, FS_Union
  <2> HIDE DEF held
  <2>4. IsFiniteSet(indices)
    BY <1>4, <2>3, FS_Union
  <2>5. indices \in SUBSET Nat /\ 0 \in indices
    <3> DEFINE all == UNION held
    <3>1. all \in SUBSET Nat /\ indices = {0} \cup old \cup all
      BY <1>4
    <3> HIDE DEF all, indices
    <3> QED
      BY <2>2, <3>1
  <2> QED
    BY <2>4, <2>5
<1>6. Max(indices) \in Nat
  BY <1>5, MaxExists
<1>7. A!poolCapacity(old) = 1 + Max(indices)
  BY AllocatorCounts DEF A!poolCapacity
<1> HIDE DEF indices
<1> QED
  BY <1>6, <1>7

LEMMA TotalIsSum ==
    ASSUME NEW share
    PROVE  A!Total(share) = SumFunctionOnSet(share, A!Agents)
  BY DEF A!Total, A!SumFunctionOnSet, A!FoldFunctionOnSet, A!MapThenFoldSet,
         SumFunctionOnSet, FoldFunctionOnSet, MapThenFoldSet

\* The plan for the leases, whatever they are, and a pool of any size.
LEMMA PlanFits ==
    ASSUME LeaseTypes, NEW C \in Nat, A!Agents # {}, A!Admitted(C)
    PROVE  /\ A!Total(A!AllocateStatic(C)) <= C * A!Unit(C)
           /\ \A k \in A!Agents : A!AllocateStatic(C)[k] >= A!MinResource[k] * A!Unit(C)
<1> DEFINE S == A!Agents
           R == A!slackReceivers(C)
           n == Cardinality(S)
           m == Cardinality(R)
           b == Max({1, m})
           U == A!Unit(C)
           h == A!MinResource
           total == A!Total(h)
<1>1. IsFiniteSet(S) /\ n \in Nat \ {0}
  BY AgentsFinite, FS_CardinalityType, FS_EmptySet
<1>2. \A k \in S : h[k] \in Nat /\ h[k] = Cardinality(allocated[k])
  <2>1. \A k \in S : h[k] = Cardinality(allocated[k]) /\ IsFiniteSet(allocated[k])
    BY AgentsFinite, AllocatorCounts DEF A!MinResource, GPUSets
  <2> QED
    BY <2>1, FS_CardinalityType
<1>3. R \in SUBSET S /\ IsFiniteSet(R) /\ m \in Nat
  <2>1. R \in SUBSET S
    BY DEF A!slackReceivers
  <2> QED
    BY <1>1, <2>1, FS_Subset, FS_CardinalityType
<1>4. b \in Nat \ {0} /\ (m # 0 => b = m)
  <2>1. {1, m} \in SUBSET Nat /\ IsFiniteSet({1, m})
    <3>1. IsFiniteSet({1} \cup {m})
      BY FS_Singleton, FS_Union
    <3>2. {1, m} = {1} \cup {m}
      OBVIOUS
    <3> QED
      BY <1>3, <3>1, <3>2
  <2> HIDE DEF m
  <2>2. Max({1, m}) \in {1, m} /\ \A y \in {1, m} : Max({1, m}) >= y
    BY <2>1, MaxExists
  <2> HIDE DEF b
  <2> QED
    BY <1>3, <2>2 DEF b
<1>5. U = n * b /\ U \in Nat \ {0}
  <2>1. U = n * b
    BY AllocatorCounts DEF A!Unit
  <2> HIDE DEF n, b, U
  <2> QED
    BY <1>1, <1>4, <2>1
<1>6. total = SumFunctionOnSet(h, S) /\ total \in Int
  <2>1. \A k \in S : h[k] \in Int
    BY <1>2
  <2>2. SumFunctionOnSet(h, S) \in Int
    BY <1>1, <2>1, SumType
  <2>3. total = SumFunctionOnSet(h, S)
    BY TotalIsSum
  <2> QED
    BY <2>2, <2>3
<1>7. total <= C
  BY DEF A!Admitted
<1>8. \A k \in S : k \in R <=> C > n * h[k]
  BY AllocatorCounts DEF A!slackReceivers, A!MinResource
<1>9. CASE ~(A!Total(A!EqualOrMin(C)) > C * U)
  <2>1. A!AllocateStatic(C) = A!EqualOrMin(C)
    BY <1>9 DEF A!AllocateStatic
  <2>2. \A k \in S : A!EqualOrMin(C)[k] = IF k \in R THEN C * (U \div n) ELSE h[k] * U
    BY AllocatorCounts DEF A!EqualOrMin, A!slackReceivers
  <2>3. U \div n = b
    <3> HIDE DEF n, b, U
    <3> QED
      BY <1>1, <1>4, <1>5, Divides
  <2>4. ASSUME NEW k \in S PROVE A!EqualOrMin(C)[k] >= h[k] * U
    <3>1. CASE k \in R
      <4>1. A!EqualOrMin(C)[k] = C * b /\ C > n * h[k] /\ h[k] \in Nat
        BY <1>2, <1>8, <2>2, <2>3, <3>1
      <4> DEFINE x == h[k]
      <4> HIDE DEF n, b, U, x
      <4>2. C * b >= (n * x) * b
        BY <1>1, <1>4, <4>1, Scaled DEF x
      <4>3. (n * x) * b = x * (n * b)
        BY <1>1, <1>4, <4>1 DEF x
      <4> QED
        BY <1>5, <4>1, <4>2, <4>3 DEF x
    <3>2. CASE k \notin R
      <4>1. A!EqualOrMin(C)[k] = h[k] * U /\ h[k] \in Nat
        BY <1>2, <2>2, <3>2
      <4> DEFINE x == h[k]
      <4> HIDE DEF x, U
      <4> QED
        BY <1>5, <4>1 DEF x
    <3> QED
      BY <3>1, <3>2
  <2>5. A!Total(A!AllocateStatic(C)) \in Int
    <3>1. \A k \in S : A!EqualOrMin(C)[k] \in Int
      <4>1. \A k \in S : h[k] * U \in Int /\ C * b \in Int
        <5> HIDE DEF h, U, b
        <5> QED
          BY <1>1, <1>2, <1>4, <1>5
      <4> QED
        BY <2>2, <2>3, <4>1
    <3> QED
      BY <1>1, <2>1, <3>1, SumType, TotalIsSum
  <2>6. C * U \in Int
    <3> HIDE DEF U
    <3> QED
      BY <1>1, <1>5
  <2>7. A!Total(A!AllocateStatic(C)) <= C * U
    <3> DEFINE T == A!Total(A!AllocateStatic(C))
               V == C * U
    <3>1. ~(T > V) /\ T \in Int /\ V \in Int
      BY <1>9, <2>1, <2>5, <2>6
    <3> HIDE DEF T, V
    <3>2. T <= V
      BY <3>1
    <3> QED
      BY <3>2 DEF T, V
  <2> QED
    BY <2>1, <2>4, <2>7
<1>10. CASE A!Total(A!EqualOrMin(C)) > C * U
  <2> DEFINE q == IF m = 0 THEN 0 ELSE (C - total) * (U \div m)
             f == A!AllocateStatic(C)
  <2>1. \A k \in S : f[k] = h[k] * U + (IF k \in R THEN q ELSE 0)
    <3>1. \A k \in S : f[k] = h[k] * U + (IF k \in R THEN (C - total) * (U \div m) ELSE 0)
      BY <1>10, AllocatorCounts DEF A!AllocateStatic, A!slackReceivers
    <3>2. \A k \in S : k \in R => m # 0
      BY <1>3, FS_EmptySet
    <3> QED
      BY <3>1, <3>2
  <2>2. /\ q \in Nat
        /\ q * m <= (C - total) * U
    <3> DEFINE r == C - total
    <3>1. r \in Nat
      <4> HIDE DEF total
      <4> QED
        BY <1>1, <1>6, <1>7
    <3> HIDE DEF r
    <3>2. CASE m = 0
      <4>1. q = 0 /\ q * m = 0
        BY <1>3, <3>2
      <4>2. r * U \in Nat
        <5> HIDE DEF U
        <5> QED
          BY <1>5, <3>1
      <4> HIDE DEF q, m, U
      <4> QED
        BY <4>1, <4>2 DEF r
    <3>3. CASE m # 0
      <4>1. U = m * n /\ m \in Nat \ {0}
        <5> HIDE DEF U, m, n, b
        <5> QED
          BY <1>1, <1>3, <1>4, <1>5, <3>3
      <4>2. U \div m = n
        <5> HIDE DEF U, m, n
        <5> QED
          BY <1>1, <4>1, Divides
      <4>3. q = r * n
        BY <3>3, <4>2 DEF r
      <4> HIDE DEF q, m, U, n, total
      <4>4. q \in Nat
        BY <1>1, <3>1, <4>3
      <4>5. q * m = r * U
        BY <1>1, <3>1, <4>1, <4>3
      <4>6. r * U \in Int
        BY <1>5, <3>1
      <4> QED
        BY <4>4, <4>5, <4>6 DEF r
    <3> QED
      BY <3>2, <3>3
  <2>3. /\ \A k \in S : h[k] \in Int
        /\ \A k \in S \cap R : f[k] = U * h[k] + q
        /\ \A k \in S \ R : f[k] = U * h[k]
    <3> SUFFICES ASSUME NEW k \in S
                 PROVE  /\ h[k] \in Int
                        /\ k \in R => f[k] = U * h[k] + q
                        /\ k \notin R => f[k] = U * h[k]
      OBVIOUS
    <3> DEFINE x == h[k]
    <3>1. x \in Nat /\ f[k] = x * U + (IF k \in R THEN q ELSE 0)
      BY <1>2, <2>1
    <3> HIDE DEF x, U, q, f
    <3>2. x * U = U * x /\ U * x \in Int
      BY <1>5, <3>1
    <3> QED
      BY <3>1, <3>2 DEF x
  <2>4. SumFunctionOnSet(f, S) = U * SumFunctionOnSet(h, S) + q * Cardinality(S \cap R)
    <3>1. IsFiniteSet(S) /\ U \in Int /\ q \in Int
      BY <1>1, <1>5, <2>2
    <3>2. Linear(S, f, U, h, q, R)
      BY <2>3, <3>1 DEF Linear
    <3> HIDE DEF S, R, U, h, q, f
    <3> QED
      BY <3>1, <3>2, SumLinear
  <2>5. S \cap R = R
    BY <1>3
  <2>6. A!Total(f) = U * total + q * m
    BY <1>6, <2>4, <2>5, TotalIsSum
  <2>7. A!Total(f) <= C * U
    <3> DEFINE T == A!Total(f)
    <3>1. T = U * total + q * m
      BY <2>6
    <3> HIDE DEF T, U, total, q, m
    <3>2. (C - total) * U = C * U - U * total
      BY <1>1, <1>5, <1>6
    <3>3. U * total \in Int /\ q * m \in Int /\ C * U \in Int
      BY <1>1, <1>3, <1>5, <1>6, <2>2
    <3>4. T <= C * U
      BY <2>2, <3>1, <3>2, <3>3
    <3> QED
      BY <3>4 DEF T, U
  <2>8. ASSUME NEW k \in S PROVE f[k] >= h[k] * U
    <3> DEFINE x == h[k] * U
               e == IF k \in R THEN q ELSE 0
    <3>1. f[k] = x + e
      BY <2>1
    <3>2. x \in Int
      <4>1. h[k] \in Nat
        BY <1>2
      <4> HIDE DEF h, U
      <4> QED
        BY <1>5, <4>1
    <3>3. e \in Nat
      <4> HIDE DEF q
      <4> QED
        BY <2>2
    <3> HIDE DEF x, e, f
    <3>4. f[k] >= x
      BY <3>1, <3>2, <3>3
    <3> QED
      BY <3>4 DEF x
  <2> QED
    BY <2>7, <2>8
<1> QED
  BY <1>9, <1>10

LEMMA GrantedIsGPUs ==
    ASSUME NEW g \in GPUChoices, NEW u \in Uses
    PROVE  A!Granted(g[u]) \in GPUSets
<1>1. g[u] \in GPUSets
  BY DispatcherAssumption DEF GPUSets
<1>2. 0 .. TotalGPUs - 1 \in GPUSets
  <2>1. IsFiniteSet(0 .. TotalGPUs - 1)
    BY DispatcherAssumption, FS_Interval
  <2> QED
    BY <2>1, DispatcherAssumption DEF GPUSets
<1> QED
  BY <1>1, <1>2 DEF A!Granted, A!makeRange

LEMMA LeasesInit == DInit => LeaseTypes
  BY FS_EmptySet DEF DInit, LeaseTypes, GPUSets

LEMMA LeasesNext == LeaseTypes /\ [DNext]_dvars => LeaseTypes'
<1> SUFFICES ASSUME LeaseTypes, [DNext]_dvars PROVE LeaseTypes'
  OBVIOUS
<1>e. {} \in GPUSets
  BY FS_EmptySet DEF GPUSets
<1>a. ASSUME NEW c, NEW K, NEW g \in GPUChoices, Lease(c, K, g) PROVE LeaseTypes'
  <2> DEFINE gpus(k) == A!Granted(g[k[2]])
  <2>1. /\ allocated' = [k \in Keys |-> IF k \in K /\ gpus(k) # {} THEN gpus(k)
                                       ELSE allocated[k]]
        /\ granted' = [k \in Keys |-> IF k \in K THEN granted[k] \cup {<<c, gpus(k)>>}
                                     ELSE granted[k]]
    BY <1>a DEF Lease, A!Allocate
  <2>2. \A k \in Keys : gpus(k) \in GPUSets
    BY GrantedIsGPUs DEF Keys
  <2> HIDE DEF gpus
  <2>3. \A k \in Keys : \A h \in granted'[k] : h[2] \in GPUSets
    BY <2>1, <2>2 DEF LeaseTypes
  <2>4. allocated' \in [Keys -> GPUSets]
    BY <2>1, <2>2 DEF LeaseTypes
  <2> QED
    BY <2>3, <2>4 DEF LeaseTypes
<1>r. ASSUME NEW K, A!Release(K),
             granted' = [k \in Keys |-> IF k \in K THEN {} ELSE granted[k]]
      PROVE  LeaseTypes'
  BY <1>e, <1>r DEF A!Release, LeaseTypes
<1>u. ASSUME UNCHANGED <<allocated, granted>> PROVE LeaseTypes'
  BY <1>u DEF LeaseTypes
<1>1. ASSUME NEW c \in Calls, NEW i \in Ids,
             \/ \E g \in GPUChoices : DispatchLoad(c, i, g) \/ DispatchGroupLoad(c, i, g)
             \/ DispatchUnload(c, i)
             \/ \E p \in FixedPorts \cup {NoPort} : BuildPlan(c, i, p)
      PROVE  LeaseTypes'
  <2>1. CASE \E g \in GPUChoices : DispatchLoad(c, i, g)
    BY <1>a, <1>u, <2>1 DEF DispatchLoad, Refuse
  <2>2. CASE \E g \in GPUChoices : DispatchGroupLoad(c, i, g)
    BY <1>a, <1>u, <2>2 DEF DispatchGroupLoad, Refuse
  <2>3. CASE DispatchUnload(c, i)
    BY <1>u, <2>3 DEF DispatchUnload
  <2>4. CASE \E p \in FixedPorts \cup {NoPort} : BuildPlan(c, i, p)
    BY <1>u, <2>4 DEF BuildPlan
  <2> QED
    BY <1>1, <2>1, <2>2, <2>3, <2>4
<1>2. ASSUME NEW c \in Calls, ReleaseAll(c) PROVE LeaseTypes'
  BY <1>2, <1>r DEF ReleaseAll
<1>3. ASSUME NEW c \in Calls,
             \/ AnswerLoad(c) \/ UnloadSingle(c) \/ AnswerUnload(c) \/ SingleStep(c)
             \/ GroupStep(c) \/ StartRefused(c) \/ ReadyByOther(c) \/ Exits(c)
      PROVE  LeaseTypes'
  BY <1>3, <1>u DEF AnswerLoad, UnloadSingle, AnswerUnload, SingleStep, GroupStep, StartRefused,
                    ReadyByOther, Exits, own
<1>4. CASE DDisconnect
  BY <1>4, <1>u DEF DDisconnect
<1>5. CASE DRestart
  <2>1. allocated' = [k \in Keys |-> {}] /\ granted' = [k \in Keys |-> {}]
    BY <1>5 DEF DRestart
  <2> QED
    BY <1>e, <2>1 DEF LeaseTypes
<1>6. CASE UNCHANGED dvars
  BY <1>6, <1>u DEF dvars, own
<1> QED
  BY <1>1, <1>2, <1>3, <1>4, <1>5, <1>6 DEF DNext

\* SharesFit: whatever commands have leased and released, the shares that
\* AllocateStatic plans give every lease at least its GPUs, and all of them
\* together no more than the pool, once the least they need has been admitted.
THEOREM SharesAlwaysFit == DSpec => []SharesFit
<1>1. LeaseTypes => SharesFit
  <2> SUFFICES ASSUME LeaseTypes,
                      NEW old \in {{}} \cup {h[2] : h \in UNION {granted[k] : k \in Keys}}
               PROVE  LET cap == A!poolCapacity(old) IN
                      A!Agents # {} /\ A!Admitted(cap) =>
                        /\ A!Total(A!AllocateStatic(cap)) <= cap * A!Unit(cap)
                        /\ \A k \in A!Agents :
                              A!AllocateStatic(cap)[k] >= A!MinResource[k] * A!Unit(cap)
    BY DEF SharesFit
  <2>1. old \in GPUSets
    BY FS_EmptySet DEF LeaseTypes, GPUSets
  <2> QED
    BY <2>1, PoolFinite, PlanFits
<1> QED
  BY <1>1, LeasesInit, LeasesNext, PTL DEF DSpec

=============================================================================
