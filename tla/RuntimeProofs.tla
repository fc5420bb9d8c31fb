--------------------------- MODULE RuntimeProofs ---------------------------
(***************************************************************************)
(* Proofs about Runtime, for every number of calls, ids and ports and every *)
(* set of faults.  The first part holds for every sender: types, what a     *)
(* failed load leaves, and the endpoints.  The second is about a control    *)
(* plane that sends one command at a time for a deployment: Runtime then    *)
(* implements ModelService, a deployment that runs stays until it is        *)
(* unloaded, what is loaded has its container, no container is forgotten,   *)
(* and every progress log ends.                                             *)
(***************************************************************************)
EXTENDS Runtime, TLAPS

LEMMA TypeInit == Init => TypeOK
<1> SUFFICES ASSUME Init PROVE TypeOK
  OBVIOUS
<1>1. restarts \in 0 .. MaxRestarts
  BY EnvAssumption DEF Init
<1>2. image \in BOOLEAN
  BY DEF Init
<1> QED
  BY <1>1, <1>2 DEF Init, TypeOK, States, Progress, ContStates

LEMMA TypeNext == TypeOK /\ [Next]_vars => TypeOK'
<1> SUFFICES ASSUME TypeOK, [Next]_vars PROVE TypeOK'
  OBVIOUS
<1> USE DEF TypeOK, States, Progress, ContStates, Waiting, Holding, Terminal,
            Returned, Goto, Return, Ports
<1>1. ASSUME NEW c \in Calls, NEW i \in Ids, NEW p \in FixedPorts \cup {NoPort},
             LoadModel(c, i, p)
      PROVE  TypeOK'
  BY <1>1 DEF LoadModel, docker, env
<1>2. ASSUME NEW c \in Calls, NEW i \in Ids, UnloadModel(c, i)
      PROVE  TypeOK'
  BY <1>2 DEF UnloadModel, table, docker, env
<1>3. ASSUME NEW c \in Calls, LoadStep(c) PROVE TypeOK'
  <2> USE DEF table, docker, frame, env
  <2>1. CASE LockLoad(c)
    BY <2>1 DEF LockLoad
  <2>2. CASE CheckEndpoint(c)
    BY <2>2 DEF CheckEndpoint
  <2>3. CASE ReturnCurrent(c)
    BY <2>3 DEF ReturnCurrent
  <2>4. CASE AllocPort(c)
    BY <2>4 DEF AllocPort, NextPort, FreePorts
  <2>5. CASE SetPulling(c)
    BY <2>5 DEF SetPulling, setState
  <2>6. CASE Pull(c)
    <3>1. image' \in BOOLEAN
      BY <2>6, Zenon DEF Pull
    <3>2. prog' \in [Calls -> Progress]
      BY <2>6 DEF Pull, mark
    <3>3. pc' \in [Calls -> {"idle"} \cup Waiting \cup Holding \cup Terminal]
      BY <2>6 DEF Pull
    <3> QED
      BY <2>6, <3>1, <3>2, <3>3 DEF Pull
  <2>7. CASE ClearStale(c)
    BY <2>7 DEF ClearStale, mark
  <2>8. CASE Create(c)
    BY <2>8 DEF Create, mark
  <2>9. CASE SetContainerID(c)
    BY <2>9 DEF SetContainerID, setContainerID
  <2>10. CASE SetStarting(c)
    BY <2>10 DEF SetStarting, setState
  <2>11. CASE Start(c)
    BY <2>11 DEF Start, mark
  <2>12. CASE WaitReady(c)
    BY <2>12 DEF WaitReady
  <2>13. CASE OllamaPullIfNeeded(c)
    BY <2>13 DEF OllamaPullIfNeeded
  <2>14. CASE RemoveImage(c)
    BY <2>14 DEF RemoveImage
  <2>15. CASE Publish(c)
    BY <2>15 DEF Publish
  <2>16. CASE SetRunning(c)
    BY <2>16 DEF SetRunning, setState
  <2>17. CASE Cleanup(c)
    <3>1. conts' \in [Calls -> ContStates] /\ lost' \in SUBSET Calls
      BY <2>17 DEF Cleanup
    <3> QED
      BY <2>17, <3>1 DEF Cleanup, mark
  <2>18. CASE SetFailed(c)
    BY <2>18 DEF SetFailed, setState
  <2>19. CASE DropFailed(c)
    BY <2>19 DEF DropFailed, drop
  <2> QED
    BY <1>3, <2>1, <2>2, <2>3, <2>4, <2>5, <2>6, <2>7, <2>8, <2>9, <2>10,
       <2>11, <2>12, <2>13, <2>14, <2>15, <2>16, <2>17, <2>18, <2>19
    DEF LoadStep
<1>4. ASSUME NEW c \in Calls, UnloadStep(c) PROVE TypeOK'
  <2> USE DEF table, docker, frame, env
  <2>1. CASE LockUnload(c)
    BY <2>1 DEF LockUnload, setState
  <2>2. CASE StopContainer(c)
    BY <2>2 DEF StopContainer
  <2>3. CASE RemoveContainer(c)
    BY <2>3 DEF RemoveContainer
  <2>4. CASE DropUnloaded(c)
    BY <2>4 DEF DropUnloaded, drop
  <2> QED
    BY <1>4, <2>1, <2>2, <2>3, <2>4 DEF UnloadStep
<1>5. ASSUME NEW c \in Calls, ContainerExits(c) PROVE TypeOK'
  BY <1>5 DEF ContainerExits, table, frame, env
<1>6. CASE Disconnect
  BY <1>6 DEF Disconnect, InFlight, table, docker, frame
<1>7. CASE Restart
  BY <1>7, EnvAssumption DEF Restart, InFlight, docker, frame
<1>8. CASE UNCHANGED vars
  BY <1>8 DEF vars
<1> QED
  BY <1>1, <1>2, <1>3, <1>4, <1>5, <1>6, <1>7, <1>8 DEF Next, Step

(* The variables keep the values runtime.go gives them: in particular the   *)
(* allocator stays within its range and no state outside the six of         *)
(* state.go is ever stored.                                                 *)
THEOREM TypeCorrect == Spec => []TypeOK
  BY TypeInit, TypeNext, PTL DEF Spec

-----------------------------------------------------------------------------
(* FailedLoadLeavesNothing.  The inductive form says where a call can be    *)
(* while its container exists: between Create and the end of Cleanup, or    *)
(* returned without an error, or killed.  Every path from there to an error *)
(* passes through Cleanup.                                                  *)

AfterCreate == {"setCid", "setStarting", "start", "ready", "ollama", "rmImage",
                "publish", "setRunning", "cleanup", "ok", "killed"}

ContainerHasOwner ==
    \A c \in Calls : conts[c] # "none" => c \in lost \/ pc[c] \in AfterCreate

LEMMA OwnerInit == Init => ContainerHasOwner
  BY DEF Init, ContainerHasOwner

LEMMA OwnerNext ==
    TypeOK /\ ContainerHasOwner /\ [Next]_vars => ContainerHasOwner'
<1> SUFFICES ASSUME TypeOK, ContainerHasOwner, [Next]_vars
             PROVE  ContainerHasOwner'
  OBVIOUS
<1> USE DEF TypeOK, ContainerHasOwner, AfterCreate, Goto, Return
<1>1. ASSUME NEW c \in Calls, NEW i \in Ids, NEW p \in FixedPorts \cup {NoPort},
             LoadModel(c, i, p)
      PROVE  ContainerHasOwner'
  BY <1>1 DEF LoadModel, docker
<1>2. ASSUME NEW c \in Calls, NEW i \in Ids, UnloadModel(c, i)
      PROVE  ContainerHasOwner'
  BY <1>2 DEF UnloadModel, docker
<1>3. ASSUME NEW c \in Calls, LoadStep(c) PROVE ContainerHasOwner'
  <2> USE DEF docker
  <2>1. CASE LockLoad(c) \/ CheckEndpoint(c) \/ ReturnCurrent(c)
    BY <2>1 DEF LockLoad, CheckEndpoint, ReturnCurrent
  <2>2. CASE AllocPort(c)
    BY <2>2 DEF AllocPort
  <2>3. CASE SetPulling(c) \/ Pull(c)
    BY <2>3 DEF SetPulling, Pull
  <2>4. CASE ClearStale(c)
    BY <2>4 DEF ClearStale
  <2>5. CASE Create(c)
    BY <2>5 DEF Create
  <2>6. CASE SetContainerID(c) \/ SetStarting(c)
    BY <2>6 DEF SetContainerID, SetStarting
  <2>7. CASE Start(c)
    BY <2>7 DEF Start
  <2>8. CASE WaitReady(c) \/ OllamaPullIfNeeded(c) \/ RemoveImage(c)
    BY <2>8 DEF WaitReady, OllamaPullIfNeeded, RemoveImage
  <2>9. CASE Publish(c) \/ SetRunning(c)
    BY <2>9 DEF Publish, SetRunning
  <2>10. CASE Cleanup(c)
    BY <2>10 DEF Cleanup
  <2>11. CASE SetFailed(c) \/ DropFailed(c)
    BY <2>11 DEF SetFailed, DropFailed
  <2> QED
    BY <1>3, <2>1, <2>2, <2>3, <2>4, <2>5, <2>6, <2>7, <2>8, <2>9, <2>10,
       <2>11 DEF LoadStep
<1>4. ASSUME NEW c \in Calls, UnloadStep(c) PROVE ContainerHasOwner'
  <2>1. CASE LockUnload(c)
    BY <2>1 DEF LockUnload, docker
  <2>2. CASE StopContainer(c)
    BY <2>2 DEF StopContainer
  <2>3. CASE RemoveContainer(c)
    BY <2>3 DEF RemoveContainer
  <2>4. CASE DropUnloaded(c)
    BY <2>4 DEF DropUnloaded, docker
  <2> QED
    BY <1>4, <2>1, <2>2, <2>3, <2>4 DEF UnloadStep
<1>5. ASSUME NEW c \in Calls, ContainerExits(c) PROVE ContainerHasOwner'
  BY <1>5 DEF ContainerExits
<1>6. CASE Disconnect
  BY <1>6 DEF Disconnect, docker
<1>7. CASE Restart
  BY <1>7 DEF Restart, docker
<1>8. CASE UNCHANGED vars
  BY <1>8 DEF vars
<1> QED
  BY <1>1, <1>2, <1>3, <1>4, <1>5, <1>6, <1>7, <1>8 DEF Next, Step

(* A LoadModel that returns an error leaves no container, except one that   *)
(* docker failed to remove or made without an answer: for any number of     *)
(* overlapping calls, under every fault, cancellation and restart.          *)
THEOREM FailedLoadsAreClean == Spec => []FailedLoadLeavesNothing
<1>1. TypeOK /\ ContainerHasOwner => FailedLoadLeavesNothing
  BY DEF TypeOK, ContainerHasOwner, AfterCreate, FailedLoadLeavesNothing
<1> QED
  BY <1>1, TypeCorrect, OwnerInit, OwnerNext, PTL DEF Spec

-----------------------------------------------------------------------------
(* EndpointsDistinct.  A port that the allocator handed out belongs to one  *)
(* call until that call publishes it in its object, and to that object      *)
(* afterwards; the entries of the table are distinct objects.               *)

Asking   == {"lock", "endpoint", "current", "alloc"}
HasPort  == {"setPulling", "pull", "clear", "create", "setCid", "setStarting",
             "start", "ready", "ollama", "rmImage", "publish", "setRunning"}

TableOfOwnIds ==
    \A i \in Ids : deployments[i] # Nil =>
        id[deployments[i]] = i /\ pc[deployments[i]] # "idle"
UnusedObjects ==
    \A c \in Calls : pc[c] = "idle" => endpointURL[c] = NoPort
WorksOnObject ==
    \A c \in Calls : pc[c] \in Waiting \cup Holding =>
        obj[c] \in Calls /\ pc[obj[c]] # "idle"
AskedPort ==
    \A c \in Calls : pc[c] \in Asking => port[c] \in FixedPorts \cup {NoPort}
CallPortUsed ==
    \A c \in Calls : pc[c] \in HasPort => port[c] \in used \cup FixedPorts
CallPortsDistinct ==
    \A b, c \in Calls :
        b # c /\ pc[b] \in HasPort /\ pc[c] \in HasPort /\ port[b] = port[c]
            => port[c] \in FixedPorts
EndpointUsed ==
    \A i \in Ids : deployments[i] # Nil =>
        endpointURL[deployments[i]] \in used \cup FixedPorts \cup {NoPort}
EndpointOfCall ==
    \A i \in Ids, c \in Calls :
        /\ deployments[i] # Nil /\ pc[c] \in HasPort
        /\ endpointURL[deployments[i]] = port[c]
        => port[c] \in FixedPorts \/ obj[c] = deployments[i]

PortInv ==
    /\ TableOfOwnIds /\ UnusedObjects /\ WorksOnObject /\ AskedPort
    /\ CallPortUsed /\ CallPortsDistinct /\ EndpointUsed /\ EndpointOfCall
    /\ EndpointsDistinct

LEMMA PortInit == Init => PortInv
  BY DEF Init, PortInv, TableOfOwnIds, UnusedObjects, WorksOnObject, AskedPort,
         CallPortUsed, CallPortsDistinct, EndpointUsed, EndpointOfCall,
         EndpointsDistinct, EndpointURL, Waiting, Holding, Asking, HasPort

(* A step that moves one call and touches neither the table, the endpoints  *)
(* nor the ports.                                                           *)
LEMMA PortQuiet ==
    ASSUME TypeOK, PortInv, NEW c \in Calls, NEW l,
           pc' = [pc EXCEPT ![c] = l],
           UNCHANGED <<deployments, endpointURL, id, obj, port, used>>,
           pc[c] # "idle", l # "idle",
           l \in HasPort => pc[c] \in HasPort,
           l \in Asking => pc[c] \in Asking,
           l \in Waiting \cup Holding => pc[c] \in Waiting \cup Holding
    PROVE  PortInv'
<1> USE DEF TypeOK, PortInv
<1>1. TableOfOwnIds'
  BY DEF TableOfOwnIds
<1>2. UnusedObjects'
  BY DEF UnusedObjects
<1>3. WorksOnObject'
  BY DEF WorksOnObject
<1>4. AskedPort'
  BY DEF AskedPort
<1>5. CallPortUsed'
  BY DEF CallPortUsed
<1>6. CallPortsDistinct'
  BY DEF CallPortsDistinct
<1>7. EndpointUsed'
  BY DEF EndpointUsed
<1>8. EndpointOfCall'
  BY DEF EndpointOfCall
<1>9. EndpointsDistinct'
  BY DEF EndpointsDistinct, EndpointURL
<1> QED
  BY <1>1, <1>2, <1>3, <1>4, <1>5, <1>6, <1>7, <1>8, <1>9

(* A call that ends takes its entry out of the table, or whatever entry its *)
(* deployment has by then.                                                  *)
LEMMA PortDrop ==
    ASSUME TypeOK, PortInv, NEW c \in Calls, NEW r \in Returned,
           pc[c] \in Holding, drop(id[c]), Return(c, r),
           UNCHANGED <<endpointURL, id, obj, port, used>>
    PROVE  PortInv'
<1> USE DEF TypeOK, PortInv, drop, Return, Goto, Returned, Holding, Waiting
<1>1. TableOfOwnIds'
  BY DEF TableOfOwnIds
<1>2. UnusedObjects'
  BY DEF UnusedObjects
<1>3. WorksOnObject'
  BY DEF WorksOnObject
<1>4. AskedPort'
  BY DEF AskedPort, Asking
<1>5. CallPortUsed'
  BY DEF CallPortUsed, HasPort
<1>6. CallPortsDistinct'
  BY DEF CallPortsDistinct, HasPort
<1>7. EndpointUsed'
  BY DEF EndpointUsed
<1>8. EndpointOfCall'
  BY DEF EndpointOfCall, HasPort
<1>9. EndpointsDistinct'
  BY DEF EndpointsDistinct, EndpointURL
<1> QED
  BY <1>1, <1>2, <1>3, <1>4, <1>5, <1>6, <1>7, <1>8, <1>9

LEMMA PortLoad ==
    ASSUME TypeOK, PortInv, NEW c \in Calls, NEW i \in Ids,
           NEW p \in FixedPorts \cup {NoPort}, LoadModel(c, i, p)
    PROVE  PortInv'
<1> USE NilAssumption DEF TypeOK, PortInv, LoadModel, Goto, Holding, Waiting
<1>1. TableOfOwnIds'
  BY DEF TableOfOwnIds
<1>2. UnusedObjects'
  BY DEF UnusedObjects
<1>3. WorksOnObject'
  BY DEF WorksOnObject, TableOfOwnIds
<1>4. AskedPort'
  BY DEF AskedPort
<1>5. CallPortUsed'
  BY DEF CallPortUsed, HasPort
<1>6. CallPortsDistinct'
  BY DEF CallPortsDistinct, HasPort
<1>7. EndpointUsed'
  BY DEF EndpointUsed, UnusedObjects
<1>8. EndpointOfCall'
  <2> SUFFICES ASSUME NEW j \in Ids, NEW b \in Calls,
                      deployments'[j] # Nil, pc'[b] \in HasPort,
                      endpointURL'[deployments'[j]] = port'[b]
               PROVE  port'[b] \in FixedPorts \/ obj'[b] = deployments'[j]
    BY DEF EndpointOfCall
  <2>1. b # c /\ pc[b] \in HasPort /\ port[b] = port'[b] /\ obj[b] = obj'[b]
    BY DEF HasPort
  <2>2. CASE deployments'[j] = deployments[j]
    BY <2>1, <2>2 DEF EndpointOfCall
  <2>3. CASE deployments'[j] # deployments[j]
    <3>1. endpointURL'[deployments'[j]] = NoPort
      BY <2>3 DEF UnusedObjects
    <3>2. port[b] # NoPort
      BY <2>1, PortAssumption DEF CallPortUsed, AllocRange, NoPort
    <3> QED
      BY <3>1, <3>2, <2>1
  <2> QED
    BY <2>2, <2>3
<1>9. EndpointsDistinct'
  BY DEF EndpointsDistinct, EndpointURL, UnusedObjects
<1> QED
  BY <1>1, <1>2, <1>3, <1>4, <1>5, <1>6, <1>7, <1>8, <1>9

LEMMA PortAlloc ==
    ASSUME TypeOK, PortInv, NEW c \in Calls, AllocPort(c)
    PROVE  PortInv'
<1> USE DEF TypeOK, PortInv, Goto
<1> pc[c] = "alloc" /\ UNCHANGED <<deployments, endpointURL, id, obj>>
  BY DEF AllocPort, table, frame
<1>1. CASE pc' = [pc EXCEPT ![c] = "err"] /\ UNCHANGED <<port, used>>
  BY <1>1, PortQuiet DEF Asking, HasPort, Waiting, Holding
<1>2. CASE /\ pc' = [pc EXCEPT ![c] = "setPulling"]
           /\ port[c] # NoPort
           /\ UNCHANGED <<port, used>>
  <2>1. port[c] \in FixedPorts
    BY <1>2 DEF AskedPort, Asking
  <2>2. CallPortUsed' /\ CallPortsDistinct' /\ EndpointOfCall'
    BY <1>2, <2>1 DEF CallPortUsed, CallPortsDistinct, EndpointOfCall
  <2>3. AskedPort' /\ WorksOnObject'
    BY <1>2 DEF AskedPort, WorksOnObject, Asking, Holding
  <2>4. TableOfOwnIds' /\ UnusedObjects' /\ EndpointUsed' /\ EndpointsDistinct'
    BY <1>2 DEF TableOfOwnIds, UnusedObjects, EndpointUsed, EndpointsDistinct,
                EndpointURL
  <2> QED
    BY <2>2, <2>3, <2>4
<1>3. ASSUME NEW p \in AllocRange \ used,
             pc' = [pc EXCEPT ![c] = "setPulling"],
             port' = [port EXCEPT ![c] = p],
             used' = used \cup {p}
      PROVE  PortInv'
  <2>1. p # NoPort
    BY PortAssumption DEF AllocRange, NoPort
  <2>2. CallPortUsed'
    BY <1>3 DEF CallPortUsed
  <2>3. CallPortsDistinct'
    BY <1>3 DEF CallPortsDistinct, CallPortUsed
  <2>4. EndpointOfCall'
    BY <1>3, <2>1 DEF EndpointOfCall, EndpointUsed
  <2>5. AskedPort' /\ WorksOnObject'
    BY <1>3 DEF AskedPort, WorksOnObject, Asking, Holding
  <2>6. TableOfOwnIds' /\ UnusedObjects' /\ EndpointUsed' /\ EndpointsDistinct'
    BY <1>3 DEF TableOfOwnIds, UnusedObjects, EndpointUsed, EndpointsDistinct,
                EndpointURL
  <2> QED
    BY <2>2, <2>3, <2>4, <2>5, <2>6
<1> QED
  BY <1>1, <1>2, <1>3 DEF AllocPort, FreePorts, NextPort, Return

LEMMA PortPublish ==
    ASSUME TypeOK, PortInv, NEW c \in Calls, Publish(c)
    PROVE  PortInv'
<1> USE DEF TypeOK, PortInv, Publish, Goto, docker, frame
<1>1. obj[c] \in Calls /\ pc[obj[c]] # "idle"
  BY DEF WorksOnObject, Holding
<1>2. \A o \in Calls : o # obj[c] => endpointURL'[o] = endpointURL[o]
  BY <1>1
<1>3. endpointURL'[obj[c]] = port[c]
  BY <1>1
<1>4. TableOfOwnIds' /\ WorksOnObject' /\ AskedPort' /\ UnusedObjects'
  BY <1>1, <1>2 DEF TableOfOwnIds, WorksOnObject, AskedPort, UnusedObjects,
                    Waiting, Holding, Asking
<1>5. CallPortUsed' /\ CallPortsDistinct'
  BY DEF CallPortUsed, CallPortsDistinct, HasPort
<1>6. EndpointUsed'
  BY <1>2, <1>3 DEF EndpointUsed, CallPortUsed, HasPort
<1>7. EndpointOfCall'
  <2> SUFFICES ASSUME NEW j \in Ids, NEW b \in Calls,
                      deployments[j] # Nil, pc'[b] \in HasPort,
                      endpointURL'[deployments[j]] = port[b]
               PROVE  port[b] \in FixedPorts \/ obj[b] = deployments[j]
    BY DEF EndpointOfCall
  <2>1. pc[b] \in HasPort
    BY DEF HasPort
  <2>2. CASE deployments[j] = obj[c]
    BY <1>3, <2>1, <2>2 DEF CallPortsDistinct, HasPort
  <2>3. CASE deployments[j] # obj[c]
    BY <1>2, <2>1, <2>3 DEF EndpointOfCall
  <2> QED
    BY <2>2, <2>3
<1>8. EndpointsDistinct'
  <2> SUFFICES ASSUME NEW i \in Ids, NEW j \in Ids, i # j,
                      EndpointURL(i)' = EndpointURL(j)',
                      EndpointURL(i)' # NoPort
               PROVE  EndpointURL(i)' \in FixedPorts
    BY DEF EndpointsDistinct
  <2>1. /\ deployments[i] \in Calls /\ deployments[j] \in Calls
        /\ deployments[i] # Nil /\ deployments[j] # Nil
        /\ deployments[i] # deployments[j]
    BY DEF EndpointURL, TableOfOwnIds
  <2>2. CASE deployments[i] = obj[c]
    BY <1>2, <1>3, <2>1, <2>2 DEF EndpointURL, EndpointOfCall, HasPort
  <2>3. CASE deployments[j] = obj[c]
    BY <1>2, <1>3, <2>1, <2>3 DEF EndpointURL, EndpointOfCall, HasPort
  <2>4. CASE deployments[i] # obj[c] /\ deployments[j] # obj[c]
    BY <1>2, <2>1, <2>4 DEF EndpointURL, EndpointsDistinct
  <2> QED
    BY <2>2, <2>3, <2>4
<1> QED
  BY <1>4, <1>5, <1>6, <1>7, <1>8

LEMMA PortNext == TypeOK /\ PortInv /\ [Next]_vars => PortInv'
<1> SUFFICES ASSUME TypeOK, PortInv, [Next]_vars PROVE PortInv'
  OBVIOUS
<1>1. ASSUME NEW c \in Calls, NEW i \in Ids, NEW p \in FixedPorts \cup {NoPort},
             LoadModel(c, i, p)
      PROVE  PortInv'
  BY <1>1, PortLoad
<1>2. ASSUME NEW c \in Calls, NEW i \in Ids, UnloadModel(c, i)
      PROVE  PortInv'
  <2> USE <1>2 DEF TypeOK, PortInv, UnloadModel, Goto, table
  <2>1. TableOfOwnIds' /\ UnusedObjects' /\ WorksOnObject'
    BY NilAssumption DEF TableOfOwnIds, UnusedObjects, WorksOnObject, Waiting,
                         Holding
  <2>2. AskedPort' /\ CallPortUsed' /\ CallPortsDistinct' /\ EndpointOfCall'
    BY DEF AskedPort, CallPortUsed, CallPortsDistinct, EndpointOfCall, Asking,
           HasPort
  <2>3. EndpointUsed' /\ EndpointsDistinct'
    BY DEF EndpointUsed, EndpointsDistinct, EndpointURL
  <2> QED
    BY <2>1, <2>2, <2>3
<1>3. ASSUME NEW c \in Calls, LoadStep(c) PROVE PortInv'
  <2> USE DEF Goto, Return, table, frame, Asking, HasPort, Waiting, Holding
  <2>1. CASE LockLoad(c)
    <3>1. PICK l \in {"endpoint", "alloc"} : pc' = [pc EXCEPT ![c] = l]
      BY <2>1 DEF LockLoad
    <3> QED
      BY <2>1, <3>1, PortQuiet DEF LockLoad
  <2>2. CASE CheckEndpoint(c)
    <3>1. PICK l \in {"current", "alloc"} : pc' = [pc EXCEPT ![c] = l]
      BY <2>2 DEF CheckEndpoint
    <3> QED
      BY <2>2, <3>1, PortQuiet DEF CheckEndpoint
  <2>3. CASE ReturnCurrent(c)
    BY <2>3, PortQuiet DEF ReturnCurrent
  <2>4. CASE AllocPort(c)
    BY <2>4, PortAlloc
  <2>5. CASE SetPulling(c)
    BY <2>5, PortQuiet DEF SetPulling
  <2>6. CASE Pull(c)
    <3>1. PICK l \in {"clear", "setFailed"} : pc' = [pc EXCEPT ![c] = l]
      BY <2>6 DEF Pull
    <3> QED
      BY <2>6, <3>1, PortQuiet DEF Pull
  <2>7. CASE ClearStale(c)
    <3>1. PICK l \in {"create", "setFailed"} : pc' = [pc EXCEPT ![c] = l]
      BY <2>7 DEF ClearStale
    <3> QED
      BY <2>7, <3>1, PortQuiet DEF ClearStale
  <2>8. CASE Create(c)
    <3>1. PICK l \in {"setCid", "setFailed"} : pc' = [pc EXCEPT ![c] = l]
      BY <2>8 DEF Create
    <3> QED
      BY <2>8, <3>1, PortQuiet DEF Create
  <2>9. CASE SetContainerID(c)
    BY <2>9, PortQuiet DEF SetContainerID
  <2>10. CASE SetStarting(c)
    BY <2>10, PortQuiet DEF SetStarting
  <2>11. CASE Start(c)
    <3>1. PICK l \in {"ready", "cleanup"} : pc' = [pc EXCEPT ![c] = l]
      BY <2>11 DEF Start
    <3> QED
      BY <2>11, <3>1, PortQuiet DEF Start
  <2>12. CASE WaitReady(c)
    <3>1. PICK l \in {"ollama", "cleanup"} : pc' = [pc EXCEPT ![c] = l]
      BY <2>12 DEF WaitReady
    <3> QED
      BY <2>12, <3>1, PortQuiet DEF WaitReady
  <2>13. CASE OllamaPullIfNeeded(c)
    <3>1. PICK l \in {"rmImage", "cleanup"} : pc' = [pc EXCEPT ![c] = l]
      BY <2>13 DEF OllamaPullIfNeeded
    <3> QED
      BY <2>13, <3>1, PortQuiet DEF OllamaPullIfNeeded
  <2>14. CASE RemoveImage(c)
    BY <2>14, PortQuiet DEF RemoveImage
  <2>15. CASE Publish(c)
    BY <2>15, PortPublish
  <2>16. CASE SetRunning(c)
    BY <2>16, PortQuiet DEF SetRunning
  <2>17. CASE Cleanup(c)
    BY <2>17, PortQuiet DEF Cleanup
  <2>18. CASE SetFailed(c)
    BY <2>18, PortQuiet DEF SetFailed
  <2>19. CASE DropFailed(c)
    BY <2>19, PortDrop DEF DropFailed, Returned
  <2> QED
    BY <1>3, <2>1, <2>2, <2>3, <2>4, <2>5, <2>6, <2>7, <2>8, <2>9, <2>10,
       <2>11, <2>12, <2>13, <2>14, <2>15, <2>16, <2>17, <2>18, <2>19
    DEF LoadStep
<1>4. ASSUME NEW c \in Calls, UnloadStep(c) PROVE PortInv'
  <2> USE DEF Goto, Return, table, frame, Asking, HasPort, Waiting, Holding
  <2>1. CASE LockUnload(c)
    BY <2>1, PortQuiet DEF LockUnload
  <2>2. CASE StopContainer(c)
    <3>1. PICK l \in {"udrop", "remove", "err"} : pc' = [pc EXCEPT ![c] = l]
      BY <2>2 DEF StopContainer
    <3> QED
      BY <2>2, <3>1, PortQuiet DEF StopContainer
  <2>3. CASE RemoveContainer(c)
    <3>1. PICK l \in {"udrop", "err"} : pc' = [pc EXCEPT ![c] = l]
      BY <2>3 DEF RemoveContainer
    <3> QED
      BY <2>3, <3>1, PortQuiet DEF RemoveContainer
  <2>4. CASE DropUnloaded(c)
    BY <2>4, PortDrop DEF DropUnloaded, Returned
  <2> QED
    BY <1>4, <2>1, <2>2, <2>3, <2>4 DEF UnloadStep
<1>5. ASSUME UNCHANGED <<deployments, endpointURL, id, obj, port, used, pc>>
      PROVE  PortInv'
  BY <1>5 DEF PortInv, TableOfOwnIds, UnusedObjects, WorksOnObject, AskedPort,
              CallPortUsed, CallPortsDistinct, EndpointUsed, EndpointOfCall,
              EndpointsDistinct, EndpointURL
<1>6. CASE \E c \in Calls : ContainerExits(c)
  BY <1>5, <1>6 DEF ContainerExits, table, frame
<1>7. CASE Disconnect
  BY <1>5, <1>7 DEF Disconnect, table, frame
<1>8. CASE Restart
  <2> USE <1>8 DEF Restart, TypeOK, PortInv, frame
  <2>1. \A c \in Calls : pc'[c] \notin Waiting \cup Holding
    BY DEF InFlight, Waiting, Holding
  <2>2. \A c \in Calls : pc'[c] \notin HasPort \cup Asking
    BY <2>1 DEF HasPort, Asking, Waiting, Holding
  <2>3. \A c \in Calls : pc'[c] = "idle" => pc[c] = "idle"
    BY DEF InFlight
  <2> QED
    BY <2>1, <2>2, <2>3
    DEF TableOfOwnIds, UnusedObjects, WorksOnObject, AskedPort, CallPortUsed,
        CallPortsDistinct, EndpointUsed, EndpointOfCall, EndpointsDistinct,
        EndpointURL
<1>9. CASE UNCHANGED vars
  BY <1>5, <1>9 DEF vars
<1> QED
  BY <1>1, <1>2, <1>3, <1>4, <1>6, <1>7, <1>8, <1>9 DEF Next, Step

(* Two deployments never share an endpoint that the allocator chose, for    *)
(* any number of overlapping calls and whatever fails.                      *)
THEOREM EndpointsStayDistinct == Spec => []EndpointsDistinct
<1>1. PortInv => EndpointsDistinct
  BY DEF PortInv
<1> QED
  BY <1>1, TypeCorrect, PortInit, PortNext, PTL DEF Spec

-----------------------------------------------------------------------------
(* One command at a time for a deployment.  A call then works on the object  *)
(* that the table holds, and is alone with it.                               *)

Unloading == {"ulock", "stop", "remove", "udrop"}
Loading   == (Waiting \cup Holding) \ Unloading
\* The call found, or made, its deployment not running.
Down      == Holding \ {"endpoint", "current"}

OneCallPerId ==
    \A b, c \in Calls : b # c /\ InFlight(b) /\ InFlight(c) => id[b] # id[c]
WorksInTable ==
    \A c \in Calls : InFlight(c) =>
        id[c] \in Ids /\ obj[c] \in Calls /\ deployments[id[c]] = obj[c]
OpOfCall ==
    \A c \in Calls : /\ pc[c] \in Loading => op[c] = "load"
                     /\ pc[c] \in Unloading => op[c] = "unload"
FreshIsAbsent ==
    \A c \in Calls : pc[c] = "idle" => state[c] = "absent"
FoundRunning ==
    \A c \in Calls : pc[c] \in {"endpoint", "current"} => state[obj[c]] = "running"
FoundDown ==
    \A c \in Calls : pc[c] \in Down => state[obj[c]] # "running"
RunningHasEndpoint ==
    \A i \in Ids : StatusOf(i) = "running" => EndpointURL(i) # NoPort
Published ==
    \A c \in Calls : pc[c] = "setRunning" => endpointURL[obj[c]] # NoPort

SerialInv ==
    /\ OneCallPerId /\ WorksInTable /\ OpOfCall /\ FreshIsAbsent
    /\ FoundRunning /\ FoundDown /\ RunningHasEndpoint /\ Published

LEMMA SerialInit == Init => SerialInv
  BY DEF Init, SerialInv, OneCallPerId, WorksInTable, OpOfCall, FreshIsAbsent,
         FoundRunning, FoundDown, RunningHasEndpoint, Published, InFlight,
         StatusOf, Loading, Unloading, Waiting, Holding, Down

(* Calls in flight work on different objects, and nobody else's entry is    *)
(* the object of a call.                                                    *)
LEMMA OwnObject ==
    ASSUME TypeOK, PortInv, SerialInv, NEW c \in Calls, InFlight(c)
    PROVE  /\ obj[c] # Nil /\ pc[obj[c]] # "idle"
           /\ \A b \in Calls : b # c /\ InFlight(b) => obj[b] # obj[c]
           /\ \A i \in Ids : deployments[i] = obj[c] => i = id[c]
  BY NilAssumption DEF TypeOK, PortInv, TableOfOwnIds, SerialInv, OneCallPerId,
                       WorksInTable

(* A step of a call in flight that changes at most the state and the        *)
(* endpoint of its own object.                                              *)
LEMMA SerialMove ==
    ASSUME TypeOK, PortInv, SerialInv, NEW c \in Calls, NEW l,
           InFlight(c), l # "idle",
           pc' = [pc EXCEPT ![c] = l],
           UNCHANGED <<deployments, op, id, obj>>,
           \A o \in Calls \ {obj[c]} :
               state'[o] = state[o] /\ endpointURL'[o] = endpointURL[o],
           l \in Waiting \cup Holding => (l \in Loading <=> pc[c] \in Loading),
           l \in {"endpoint", "current"} => state'[obj[c]] = "running",
           l \in Down => state'[obj[c]] # "running",
           \/ state'[obj[c]] # "running"
           \/ endpointURL'[obj[c]] # NoPort,
           l = "setRunning" => endpointURL'[obj[c]] # NoPort
    PROVE  SerialInv'
<1> USE DEF TypeOK, SerialInv
<1>1. /\ obj[c] \in Calls /\ pc[obj[c]] # "idle"
      /\ \A b \in Calls : b # c /\ InFlight(b) => obj[b] # obj[c] /\ obj[b] \in Calls
      /\ \A i \in Ids : deployments[i] = obj[c] => i = id[c]
  BY OwnObject DEF WorksInTable
<1>2. \A b \in Calls : b # c => InFlight(b)' = InFlight(b)
  BY DEF InFlight
<1>3. OneCallPerId' /\ WorksInTable'
  BY <1>2 DEF OneCallPerId, WorksInTable
<1>4. OpOfCall'
  BY DEF OpOfCall, InFlight, Loading, Unloading, Waiting, Holding
<1>5. FreshIsAbsent'
  BY <1>1 DEF FreshIsAbsent
<1>6. FoundRunning'
  BY <1>1 DEF FoundRunning, InFlight, Holding
<1>7. FoundDown'
  BY <1>1 DEF FoundDown, InFlight, Down
<1>8. RunningHasEndpoint'
  BY <1>1 DEF RunningHasEndpoint, StatusOf, EndpointURL
<1>9. Published'
  BY <1>1 DEF Published, InFlight, Holding
<1> QED
  BY <1>3, <1>4, <1>5, <1>6, <1>7, <1>8, <1>9

(* setState of a call in flight reaches the object of that call.            *)
LEMMA SetStateOwn ==
    ASSUME TypeOK, SerialInv, NEW c \in Calls, InFlight(c), NEW s,
           setState(id[c], s)
    PROVE  /\ state' = [state EXCEPT ![obj[c]] = s]
           /\ obj[c] \in Calls /\ state'[obj[c]] = s
           /\ \A o \in Calls \ {obj[c]} : state'[o] = state[o]
  BY NilAssumption DEF TypeOK, SerialInv, WorksInTable, setState

LEMMA SerialDrop ==
    ASSUME TypeOK, PortInv, SerialInv, NEW c \in Calls, InFlight(c),
           NEW r \in Returned, drop(id[c]), Return(c, r),
           UNCHANGED <<state, endpointURL, op, id, obj>>
    PROVE  SerialInv'
<1> USE DEF TypeOK, SerialInv, drop, Return, Goto, Returned
<1>1. \A b \in Calls : InFlight(b)' <=> b # c /\ InFlight(b)
  BY DEF InFlight, Waiting, Holding
<1>2. OneCallPerId' /\ WorksInTable'
  BY <1>1 DEF OneCallPerId, WorksInTable
<1>3. OpOfCall' /\ FreshIsAbsent'
  BY DEF OpOfCall, FreshIsAbsent, Loading, Unloading, Waiting, Holding
<1>4. FoundRunning' /\ FoundDown' /\ Published'
  BY DEF FoundRunning, FoundDown, Published, Down, Holding
<1>5. RunningHasEndpoint'
  BY DEF RunningHasEndpoint, StatusOf, EndpointURL
<1> QED
  BY <1>2, <1>3, <1>4, <1>5

LEMMA SerialLoad ==
    ASSUME TypeOK, PortInv, SerialInv, Sender = "serial", NEW c \in Calls,
           NEW i \in Ids, NEW p \in FixedPorts \cup {NoPort}, LoadModel(c, i, p)
    PROVE  SerialInv'
<1> USE NilAssumption DEF TypeOK, SerialInv, LoadModel, Goto
<1>1. \A b \in Calls : InFlight(b) => id[b] # i
  BY DEF CanSend
<1>2. \A b \in Calls : b # c => InFlight(b)' = InFlight(b)
  BY DEF InFlight
<1>3. OneCallPerId' /\ WorksInTable'
  BY <1>1, <1>2 DEF OneCallPerId, WorksInTable
<1>4. OpOfCall' /\ FreshIsAbsent'
  BY DEF OpOfCall, FreshIsAbsent, Loading, Unloading, Waiting, Holding
<1>5. FoundRunning' /\ FoundDown' /\ Published'
  BY DEF FoundRunning, FoundDown, Published, Down, Holding
<1>6. RunningHasEndpoint'
  BY DEF RunningHasEndpoint, StatusOf, EndpointURL, FreshIsAbsent
<1> QED
  BY <1>3, <1>4, <1>5, <1>6

LEMMA SerialUnload ==
    ASSUME TypeOK, PortInv, SerialInv, Sender = "serial", NEW c \in Calls,
           NEW i \in Ids, UnloadModel(c, i)
    PROVE  SerialInv'
<1> USE NilAssumption DEF TypeOK, SerialInv, UnloadModel, Goto, table
<1>1. \A b \in Calls : InFlight(b) => id[b] # i
  BY DEF CanSend
<1>2. \A b \in Calls : b # c => InFlight(b)' = InFlight(b)
  BY DEF InFlight
<1>3. InFlight(c)' => deployments[i] # Nil
  BY DEF InFlight, Waiting, Holding
<1>4. OneCallPerId' /\ WorksInTable'
  BY <1>1, <1>2, <1>3 DEF OneCallPerId, WorksInTable
<1>5. OpOfCall' /\ FreshIsAbsent'
  BY DEF OpOfCall, FreshIsAbsent, Loading, Unloading, Waiting, Holding
<1>6. FoundRunning' /\ FoundDown' /\ Published'
  BY DEF FoundRunning, FoundDown, Published, Down, Holding
<1>7. RunningHasEndpoint'
  BY DEF RunningHasEndpoint, StatusOf, EndpointURL
<1> QED
  BY <1>4, <1>5, <1>6, <1>7

(* The shape every step of a call in flight has, once its labels and states *)
(* are known: what SerialMove asks for, apart from the facts that differ.   *)
LEMMA SerialStep ==
    ASSUME TypeOK, PortInv, SerialInv, NEW c \in Calls, Step(c)
    PROVE  SerialInv'
<1> USE DEF TypeOK, Goto, Return, table, docker, frame, Waiting, Holding,
            Loading, Unloading, Down
<1>0. /\ InFlight(c) /\ obj[c] \in Calls /\ id[c] \in Ids
      /\ deployments[id[c]] = obj[c] /\ obj[c] # Nil
      /\ pc[c] \in Down => state[obj[c]] # "running"
      /\ \/ state[obj[c]] # "running"
         \/ endpointURL[obj[c]] # NoPort
  <2>1. InFlight(c)
    BY DEF Step, LoadStep, UnloadStep, InFlight, LockLoad, CheckEndpoint,
           ReturnCurrent, AllocPort, SetPulling, Pull, ClearStale, Create,
           SetContainerID, SetStarting, Start, WaitReady, OllamaPullIfNeeded,
           RemoveImage, Publish, SetRunning, Cleanup, SetFailed, DropFailed,
           LockUnload, StopContainer, RemoveContainer, DropUnloaded
  <2> QED
    BY <2>1, OwnObject DEF SerialInv, WorksInTable, FoundDown,
                           RunningHasEndpoint, StatusOf, EndpointURL
<1>1. CASE LockLoad(c)
  <2>1. PICK l \in {"endpoint", "alloc"} :
           /\ pc' = [pc EXCEPT ![c] = l]
           /\ l = "endpoint" <=> state[obj[c]] = "running"
    BY <1>0, <1>1 DEF LockLoad, StatusOf
  <2> QED
    BY <1>0, <1>1, <2>1, SerialMove DEF LockLoad
<1>2. CASE CheckEndpoint(c)
  <2>1. state[obj[c]] = "running"
    BY <1>2 DEF CheckEndpoint, SerialInv, FoundRunning
  <2>2. pc' = [pc EXCEPT ![c] = "current"]
    BY <1>0, <1>2, <2>1 DEF CheckEndpoint, EndpointURL
  <2> QED
    BY <1>0, <1>2, <2>1, <2>2, SerialMove DEF CheckEndpoint
<1>3. CASE ReturnCurrent(c)
  BY <1>0, <1>3, SerialMove DEF ReturnCurrent
<1>4. CASE AllocPort(c)
  <2>1. PICK l \in {"setPulling", "err"} : pc' = [pc EXCEPT ![c] = l]
    BY <1>4 DEF AllocPort
  <2> QED
    BY <1>0, <1>4, <2>1, SerialMove DEF AllocPort
<1>5. CASE SetPulling(c)
  <2>1. /\ state'[obj[c]] = "pulling"
        /\ \A o \in Calls \ {obj[c]} : state'[o] = state[o]
    BY <1>0, <1>5, SetStateOwn DEF SetPulling
  <2> QED
    BY <1>0, <1>5, <2>1, SerialMove DEF SetPulling
<1>6. CASE Pull(c)
  <2>1. PICK l \in {"clear", "setFailed"} : pc' = [pc EXCEPT ![c] = l]
    BY <1>6 DEF Pull
  <2> QED
    BY <1>0, <1>6, <2>1, SerialMove DEF Pull
<1>7. CASE ClearStale(c)
  <2>1. PICK l \in {"create", "setFailed"} : pc' = [pc EXCEPT ![c] = l]
    BY <1>7 DEF ClearStale
  <2> QED
    BY <1>0, <1>7, <2>1, SerialMove DEF ClearStale
<1>8. CASE Create(c)
  <2>1. PICK l \in {"setCid", "setFailed"} : pc' = [pc EXCEPT ![c] = l]
    BY <1>8 DEF Create
  <2> QED
    BY <1>0, <1>8, <2>1, SerialMove DEF Create
<1>9. CASE SetContainerID(c)
  BY <1>0, <1>9, SerialMove DEF SetContainerID
<1>10. CASE SetStarting(c)
  <2>1. /\ state'[obj[c]] = "starting"
        /\ \A o \in Calls \ {obj[c]} : state'[o] = state[o]
    BY <1>0, <1>10, SetStateOwn DEF SetStarting
  <2> QED
    BY <1>0, <1>10, <2>1, SerialMove DEF SetStarting
<1>11. CASE Start(c)
  <2>1. PICK l \in {"ready", "cleanup"} : pc' = [pc EXCEPT ![c] = l]
    BY <1>11 DEF Start
  <2> QED
    BY <1>0, <1>11, <2>1, SerialMove DEF Start
<1>12. CASE WaitReady(c)
  <2>1. PICK l \in {"ollama", "cleanup"} : pc' = [pc EXCEPT ![c] = l]
    BY <1>12 DEF WaitReady
  <2> QED
    BY <1>0, <1>12, <2>1, SerialMove DEF WaitReady
<1>13. CASE OllamaPullIfNeeded(c)
  <2>1. PICK l \in {"rmImage", "cleanup"} : pc' = [pc EXCEPT ![c] = l]
    BY <1>13 DEF OllamaPullIfNeeded
  <2> QED
    BY <1>0, <1>13, <2>1, SerialMove DEF OllamaPullIfNeeded
<1>14. CASE RemoveImage(c)
  BY <1>0, <1>14, SerialMove DEF RemoveImage
<1>15. CASE Publish(c)
  <2>1. port[c] # NoPort
    BY <1>15, PortAssumption
    DEF Publish, PortInv, CallPortUsed, HasPort, AllocRange, NoPort
  <2>2. /\ endpointURL'[obj[c]] = port[c]
        /\ \A o \in Calls \ {obj[c]} : endpointURL'[o] = endpointURL[o]
    BY <1>0, <1>15 DEF Publish
  <2> QED
    BY <1>0, <1>15, <2>1, <2>2, SerialMove DEF Publish
<1>16. CASE SetRunning(c)
  <2>1. endpointURL[obj[c]] # NoPort
    BY <1>16 DEF SetRunning, SerialInv, Published
  <2> QED
    BY <1>0, <1>16, <2>1, SetStateOwn, SerialMove DEF SetRunning
<1>17. CASE Cleanup(c)
  BY <1>0, <1>17, SerialMove DEF Cleanup
<1>18. CASE SetFailed(c)
  <2>1. /\ state'[obj[c]] = "failed"
        /\ \A o \in Calls \ {obj[c]} : state'[o] = state[o]
    BY <1>0, <1>18, SetStateOwn DEF SetFailed
  <2> QED
    BY <1>0, <1>18, <2>1, SerialMove DEF SetFailed
<1>19. CASE DropFailed(c)
  BY <1>0, <1>19, SerialDrop DEF DropFailed, Returned
<1>20. CASE LockUnload(c)
  <2>1. /\ state'[obj[c]] = "stopping"
        /\ \A o \in Calls \ {obj[c]} : state'[o] = state[o]
    BY <1>0, <1>20, SetStateOwn DEF LockUnload
  <2> QED
    BY <1>0, <1>20, <2>1, SerialMove DEF LockUnload
<1>21. CASE StopContainer(c)
  <2>1. PICK l \in {"udrop", "remove", "err"} : pc' = [pc EXCEPT ![c] = l]
    BY <1>21 DEF StopContainer
  <2> QED
    BY <1>0, <1>21, <2>1, SerialMove DEF StopContainer
<1>22. CASE RemoveContainer(c)
  <2>1. PICK l \in {"udrop", "err"} : pc' = [pc EXCEPT ![c] = l]
    BY <1>22 DEF RemoveContainer
  <2> QED
    BY <1>0, <1>22, <2>1, SerialMove DEF RemoveContainer
<1>23. CASE DropUnloaded(c)
  BY <1>0, <1>23, SerialDrop DEF DropUnloaded, Returned
<1> QED
  BY <1>1, <1>2, <1>3, <1>4, <1>5, <1>6, <1>7, <1>8, <1>9, <1>10, <1>11,
     <1>12, <1>13, <1>14, <1>15, <1>16, <1>17, <1>18, <1>19, <1>20, <1>21,
     <1>22, <1>23 DEF Step, LoadStep, UnloadStep

LEMMA SerialNext ==
    ASSUME Sender = "serial", TypeOK, PortInv, SerialInv, [Next]_vars
    PROVE  SerialInv'
<1>1. ASSUME UNCHANGED <<deployments, state, endpointURL, op, id, obj, pc>>
      PROVE  SerialInv'
  BY <1>1 DEF SerialInv, OneCallPerId, WorksInTable, OpOfCall, FreshIsAbsent,
              FoundRunning, FoundDown, RunningHasEndpoint, Published, InFlight,
              StatusOf, EndpointURL
<1>2. CASE \E c \in Calls : ContainerExits(c)
  BY <1>1, <1>2 DEF ContainerExits, table, frame
<1>3. CASE Disconnect
  BY <1>1, <1>3 DEF Disconnect, table, frame
<1>4. CASE Restart
  <2> USE <1>4 DEF Restart, TypeOK, SerialInv, frame
  <2>1. \A c \in Calls : ~InFlight(c)' /\ pc'[c] \notin Holding \cup Unloading \cup Loading
    BY DEF InFlight, Waiting, Holding, Unloading, Loading
  <2>2. OneCallPerId' /\ WorksInTable' /\ OpOfCall'
    BY <2>1 DEF OneCallPerId, WorksInTable, OpOfCall
  <2>3. FoundRunning' /\ FoundDown' /\ Published'
    BY <2>1 DEF FoundRunning, FoundDown, Published, Down, Holding
  <2>4. FreshIsAbsent'
    BY DEF FreshIsAbsent, InFlight
  <2>5. RunningHasEndpoint'
    BY DEF RunningHasEndpoint, StatusOf
  <2> QED
    BY <2>2, <2>3, <2>4, <2>5
<1>5. CASE UNCHANGED vars
  BY <1>1, <1>5 DEF vars
<1> QED
  BY <1>2, <1>3, <1>4, <1>5, SerialStep, SerialLoad, SerialUnload DEF Next

-----------------------------------------------------------------------------
(* The refinement.  serving is LoadedDeployments, and a call in flight is   *)
(* pending.                                                                 *)

LEMMA PhaseMoves ==
    ASSUME TypeOK, NEW c \in Calls, NEW l, pc' = [pc EXCEPT ![c] = l]
    PROVE  phaseOf' = [phaseOf EXCEPT ![c] =
                         IF l \in Waiting \cup Holding THEN "pending" ELSE l]
  BY DEF TypeOK, phaseOf, InFlight

(* A call that goes on, and leaves the loaded deployments alone, is a       *)
(* stuttering step of the service.                                          *)
LEMMA StillPending ==
    ASSUME TypeOK, NEW c \in Calls, NEW l \in Waiting \cup Holding,
           pc' = [pc EXCEPT ![c] = l], InFlight(c),
           UNCHANGED <<LoadedDeployments, op, id>>
    PROVE  UNCHANGED Service!svars
<1>1. phaseOf' = phaseOf
  BY PhaseMoves DEF TypeOK, phaseOf, InFlight
<1> QED
  BY <1>1 DEF Service!svars

(* setState changes what is loaded only at the deployment of the call.      *)
LEMMA LoadedAfterSetState ==
    ASSUME TypeOK, PortInv, SerialInv, NEW c \in Calls, InFlight(c),
           NEW s \in States, setState(id[c], s), UNCHANGED <<deployments, id>>
    PROVE  LoadedDeployments' = IF s = "running"
                                THEN LoadedDeployments \cup {id[c]}
                                ELSE LoadedDeployments \ {id[c]}
<1>1. /\ obj[c] # Nil /\ obj[c] \in Calls /\ id[c] \in Ids
      /\ deployments[id[c]] = obj[c]
      /\ \A i \in Ids : deployments[i] = obj[c] => i = id[c]
  BY OwnObject DEF SerialInv, WorksInTable
<1>2. StatusOf(id[c])' = s
  <2>1. state'[obj[c]] = s
    BY SetStateOwn
  <2> QED
    BY <1>1, <2>1 DEF StatusOf
<1>3. \A i \in Ids \ {id[c]} : StatusOf(i)' = StatusOf(i)
  BY <1>1, SetStateOwn DEF StatusOf, TypeOK
<1> QED
  BY <1>1, <1>2, <1>3 DEF LoadedDeployments

LEMMA NotLoadedWhenDown ==
    ASSUME TypeOK, PortInv, SerialInv, NEW c \in Calls, pc[c] \in Down
    PROVE  /\ InFlight(c) /\ id[c] \notin LoadedDeployments
           /\ id[c] \in Ids
<1>1. InFlight(c)
  BY DEF InFlight, Down
<1> QED
  BY <1>1, OwnObject
  DEF SerialInv, WorksInTable, FoundDown, LoadedDeployments, StatusOf

LEMMA ServiceStep ==
    ASSUME TypeOK, PortInv, SerialInv, NEW c \in Calls, Step(c)
    PROVE  Service!SNext \/ UNCHANGED Service!svars
<1> USE DEF Goto, Return, table, docker, frame, Waiting, Holding, States
<1> DEFINE quiet == UNCHANGED <<deployments, state, op, id>>
<1>1. quiet => UNCHANGED <<LoadedDeployments, op, id>>
  BY DEF LoadedDeployments, StatusOf
<1>2. ASSUME NEW l, pc' = [pc EXCEPT ![c] = l], l \in Waiting \cup Holding,
             pc[c] \in Waiting \cup Holding, quiet
      PROVE  UNCHANGED Service!svars
  BY <1>1, <1>2, StillPending DEF InFlight
<1>3. ASSUME NEW s \in States, NEW l, pc' = [pc EXCEPT ![c] = l],
             l \in Holding, pc[c] \in Down, s # "running",
             setState(id[c], s), UNCHANGED <<deployments, op, id>>
      PROVE  UNCHANGED Service!svars
  <2>1. UNCHANGED LoadedDeployments
    BY <1>3, LoadedAfterSetState, NotLoadedWhenDown
  <2> QED
    BY <1>3, <2>1, StillPending, NotLoadedWhenDown
<1>4. ASSUME pc' = [pc EXCEPT ![c] = "err"], pc[c] \in Down, op[c] = "load",
             UNCHANGED <<LoadedDeployments, op, id>>
      PROVE  Service!LoadErr(c)
  <2>1. phaseOf' = [phaseOf EXCEPT ![c] = "err"]
    BY <1>4, PhaseMoves DEF phaseOf
  <2>2. phaseOf[c] = "pending"
    BY <1>4 DEF phaseOf, InFlight, Down
  <2> QED
    BY <1>4, <2>1, <2>2, NotLoadedWhenDown
    DEF Service!LoadErr, Service!Pending, Service!Becomes
<1>5. ASSUME NEW r \in {"ok", "err"}, pc' = [pc EXCEPT ![c] = r],
             pc[c] \in Down, op[c] = "unload",
             UNCHANGED <<LoadedDeployments, op, id>>
      PROVE  Service!UnloadDone(c)
  <2>1. phaseOf' = [phaseOf EXCEPT ![c] = r]
    BY <1>5, PhaseMoves DEF phaseOf
  <2>2. phaseOf[c] = "pending"
    BY <1>5 DEF phaseOf, InFlight, Down
  <2> QED
    BY <1>5, <2>1, <2>2, NotLoadedWhenDown
    DEF Service!UnloadDone, Service!Pending, Service!Becomes
<1>6. ASSUME pc[c] \in Down, drop(id[c]), UNCHANGED state
      PROVE  UNCHANGED LoadedDeployments
  BY <1>6, NotLoadedWhenDown DEF drop, LoadedDeployments, StatusOf, TypeOK
<1>7. /\ pc[c] \in Loading => op[c] = "load"
      /\ pc[c] \in Unloading => op[c] = "unload"
  BY DEF SerialInv, OpOfCall
<1>11. CASE LockLoad(c) \/ CheckEndpoint(c)
  <2>1. PICK l \in Holding : pc' = [pc EXCEPT ![c] = l]
    BY <1>11 DEF LockLoad, CheckEndpoint
  <2> QED
    BY <1>2, <1>11, <2>1 DEF LockLoad, CheckEndpoint
<1>12. CASE ReturnCurrent(c)
  <2>1. phaseOf' = [phaseOf EXCEPT ![c] = "ok"]
    BY <1>12, PhaseMoves DEF ReturnCurrent
  <2>2. phaseOf[c] = "pending" /\ op[c] = "load"
    BY <1>7, <1>12 DEF ReturnCurrent, phaseOf, InFlight, Loading, Unloading
  <2>3. id[c] \in LoadedDeployments
    BY <1>12, OwnObject
    DEF ReturnCurrent, InFlight, SerialInv, FoundRunning, WorksInTable,
        LoadedDeployments, StatusOf
  <2>4. UNCHANGED <<LoadedDeployments, op, id>>
    BY <1>1, <1>12 DEF ReturnCurrent
  <2>5. Service!LoadOk(c)
    BY <2>1, <2>2, <2>3, <2>4
    DEF Service!LoadOk, Service!Pending, Service!Becomes
  <2> QED
    BY <2>5 DEF Service!SNext
<1>13. CASE AllocPort(c)
  <2>1. CASE pc' = [pc EXCEPT ![c] = "setPulling"]
    BY <1>2, <1>13, <2>1 DEF AllocPort
  <2>2. CASE pc' = [pc EXCEPT ![c] = "err"]
    BY <1>1, <1>4, <1>7, <1>13, <2>2
    DEF AllocPort, Down, Loading, Unloading, Service!SNext
  <2> QED
    BY <1>13, <2>1, <2>2 DEF AllocPort
<1>14. CASE SetPulling(c) \/ SetStarting(c) \/ SetFailed(c)
  <2>1. PICK s \in States \ {"running"}, l \in Holding :
           pc' = [pc EXCEPT ![c] = l] /\ setState(id[c], s)
    BY <1>14 DEF SetPulling, SetStarting, SetFailed
  <2> QED
    BY <1>3, <1>14, <2>1 DEF SetPulling, SetStarting, SetFailed, Down
<1>15. CASE Pull(c) \/ ClearStale(c) \/ Create(c) \/ SetContainerID(c)
  <2>1. PICK l \in Holding : pc' = [pc EXCEPT ![c] = l]
    BY <1>15 DEF Pull, ClearStale, Create, SetContainerID
  <2> QED
    BY <1>2, <1>15, <2>1 DEF Pull, ClearStale, Create, SetContainerID
<1>16. CASE Start(c) \/ WaitReady(c) \/ OllamaPullIfNeeded(c)
  <2>1. PICK l \in Holding : pc' = [pc EXCEPT ![c] = l]
    BY <1>16 DEF Start, WaitReady, OllamaPullIfNeeded
  <2> QED
    BY <1>2, <1>16, <2>1 DEF Start, WaitReady, OllamaPullIfNeeded
<1>17. CASE RemoveImage(c) \/ Publish(c) \/ Cleanup(c)
  <2>1. PICK l \in Holding : pc' = [pc EXCEPT ![c] = l]
    BY <1>17 DEF RemoveImage, Publish, Cleanup
  <2> QED
    BY <1>2, <1>17, <2>1 DEF RemoveImage, Publish, Cleanup
<1>18. CASE SetRunning(c)
  <2>1. phaseOf' = [phaseOf EXCEPT ![c] = "ok"]
    BY <1>18, PhaseMoves DEF SetRunning
  <2>2. phaseOf[c] = "pending" /\ op[c] = "load"
    BY <1>7, <1>18 DEF SetRunning, phaseOf, InFlight, Loading, Unloading
  <2>3. LoadedDeployments' = LoadedDeployments \cup {id[c]}
    BY <1>18, LoadedAfterSetState DEF SetRunning, InFlight
  <2>4. Service!LoadOk(c)
    BY <1>18, <2>1, <2>2, <2>3
    DEF SetRunning, Service!LoadOk, Service!Pending, Service!Becomes
  <2> QED
    BY <2>4 DEF Service!SNext
<1>19. CASE DropFailed(c)
  BY <1>4, <1>6, <1>7, <1>19
  DEF DropFailed, Down, Loading, Unloading, Service!SNext
<1>20. CASE LockUnload(c)
  <2>1. phaseOf' = phaseOf /\ phaseOf[c] = "pending" /\ op[c] = "unload"
    BY <1>7, <1>20, PhaseMoves
    DEF LockUnload, TypeOK, phaseOf, InFlight, Unloading
  <2>2. LoadedDeployments' = LoadedDeployments \ {id[c]}
    BY <1>20, LoadedAfterSetState DEF LockUnload, InFlight
  <2>3. Service!Withdraw(c)
    BY <1>20, <2>1, <2>2 DEF LockUnload, Service!Withdraw, Service!Pending
  <2> QED
    BY <2>3 DEF Service!SNext
<1>21. CASE StopContainer(c) \/ RemoveContainer(c)
  <2>1. PICK l \in {"udrop", "remove", "err"} : pc' = [pc EXCEPT ![c] = l]
    BY <1>21 DEF StopContainer, RemoveContainer
  <2>2. quiet /\ pc[c] \in Down \cap Unloading
    BY <1>21 DEF StopContainer, RemoveContainer, Down, Unloading
  <2>3. CASE l = "err"
    BY <1>1, <1>5, <1>7, <2>1, <2>2, <2>3 DEF Service!SNext
  <2>4. CASE l # "err"
    BY <1>2, <2>1, <2>2, <2>4 DEF Unloading
  <2> QED
    BY <2>3, <2>4
<1>22. CASE DropUnloaded(c)
  BY <1>5, <1>6, <1>7, <1>22 DEF DropUnloaded, Down, Unloading, Service!SNext
<1> QED
  BY <1>11, <1>12, <1>13, <1>14, <1>15, <1>16, <1>17, <1>18, <1>19, <1>20,
     <1>21, <1>22 DEF Step, LoadStep, UnloadStep

LEMMA ServiceNext ==
    ASSUME Sender = "serial", TypeOK, PortInv, SerialInv, [Next]_vars
    PROVE  [Service!SNext]_(Service!svars)
<1>1. ASSUME NEW c \in Calls, NEW i \in Ids, NEW p \in FixedPorts \cup {NoPort},
             LoadModel(c, i, p)
      PROVE  Service!Submit(c, "load", i)
  <2>1. phaseOf' = [phaseOf EXCEPT ![c] = "pending"]
    BY <1>1, PhaseMoves DEF LoadModel, Goto, Waiting
  <2>2. phaseOf[c] = "idle"
    BY <1>1 DEF LoadModel, phaseOf, InFlight, Waiting, Holding
  <2>3. LoadedDeployments' = LoadedDeployments
    BY <1>1, NilAssumption
    DEF LoadModel, LoadedDeployments, StatusOf, TypeOK, SerialInv,
        FreshIsAbsent
  <2> QED
    BY <1>1, <2>1, <2>2, <2>3 DEF LoadModel, Service!Submit, Service!Becomes
<1>2. ASSUME NEW c \in Calls, NEW i \in Ids, UnloadModel(c, i)
      PROVE  Service!Submit(c, "unload", i)
  <2>1. phaseOf' = [phaseOf EXCEPT ![c] =
                      IF deployments[i] = Nil THEN "ok" ELSE "pending"]
    BY <1>2, PhaseMoves DEF UnloadModel, Goto, Waiting, Holding
  <2>2. phaseOf[c] = "idle"
    BY <1>2 DEF UnloadModel, phaseOf, InFlight, Waiting, Holding
  <2>3. LoadedDeployments' = LoadedDeployments
    BY <1>2 DEF UnloadModel, table, LoadedDeployments, StatusOf
  <2>4. deployments[i] = Nil => i \notin LoadedDeployments
    BY DEF LoadedDeployments, StatusOf
  <2> QED
    BY <1>2, <2>1, <2>2, <2>3, <2>4
    DEF UnloadModel, Service!Submit, Service!Becomes
<1>3. ASSUME UNCHANGED <<deployments, state, op, id, pc>>
      PROVE  UNCHANGED Service!svars
  BY <1>3 DEF Service!svars, LoadedDeployments, StatusOf, phaseOf, InFlight
<1>4. CASE \E c \in Calls : ContainerExits(c)
  BY <1>3, <1>4 DEF ContainerExits, table, frame
<1>5. CASE Disconnect
  BY <1>3, <1>5 DEF Disconnect, table, frame
<1>6. CASE Restart
  <2>1. LoadedDeployments' = {}
    BY <1>6 DEF Restart, LoadedDeployments, StatusOf
  <2>2. phaseOf' = [c \in Calls |->
                      IF phaseOf[c] = "pending" THEN "killed" ELSE phaseOf[c]]
    BY <1>6 DEF Restart, phaseOf, InFlight, Waiting, Holding, TypeOK, Terminal,
                Returned
  <2> QED
    BY <1>6, <2>1, <2>2 DEF Restart, frame, Service!Die, Service!SNext
<1>7. CASE UNCHANGED vars
  BY <1>3, <1>7 DEF vars
<1>8. ASSUME NEW c \in Calls, NEW i \in Ids, NEW p \in FixedPorts \cup {NoPort},
             LoadModel(c, i, p) \/ UnloadModel(c, i)
      PROVE  Service!SNext
  BY <1>1, <1>2, <1>8 DEF Service!SNext
<1> QED
  BY <1>2, <1>4, <1>5, <1>6, <1>7, <1>8, ServiceStep DEF Next, Service!SNext

(* Under a control plane that waits for one command on a deployment before  *)
(* it sends the next, the answers of the worker mean what ModelService says *)
(* they mean: for any number of deployments and commands, under every       *)
(* fault, disconnect and restart.                                           *)
THEOREM RuntimeImplementsService ==
    ASSUME Sender = "serial"
    PROVE  Spec => ImplementsService
<1>1. Init => Service!SInit
  BY DEF Init, Service!SInit, LoadedDeployments, StatusOf, phaseOf, InFlight,
         Waiting, Holding
<1>2. TypeOK /\ PortInv /\ SerialInv /\ [Next]_vars => SerialInv'
  BY SerialNext
<1>3. TypeOK /\ PortInv /\ SerialInv /\ [Next]_vars
         => [Service!SNext]_(Service!svars)
  BY ServiceNext
<1> QED
  BY <1>1, <1>2, <1>3, TypeCorrect, PortInit, PortNext, SerialInit, PTL
  DEF Spec, ImplementsService, Service!SSpec

-----------------------------------------------------------------------------
(* RunningOnlyStops: the same invariant, at the grain of single states.     *)

LEMMA RunningStays ==
    ASSUME Sender = "serial", TypeOK, PortInv, SerialInv, [Next]_vars,
           NEW i \in Ids, StatusOf(i) = "running"
    PROVE  StatusOf(i)' \in {"running", "stopping"} \/ restarts' # restarts
<1> USE DEF TypeOK, table, docker, frame, Down, Holding
<1>1. deployments[i] # Nil /\ state[deployments[i]] = "running"
  BY DEF StatusOf
<1>2. ASSUME UNCHANGED <<deployments, state>> PROVE StatusOf(i)' = "running"
  BY <1>1, <1>2 DEF StatusOf
<1>3. ASSUME NEW c \in Calls, pc[c] \in Down PROVE id[c] # i
  BY <1>3, NotLoadedWhenDown DEF LoadedDeployments
<1>4. ASSUME NEW c \in Calls, InFlight(c), NEW s, setState(id[c], s),
             UNCHANGED deployments
      PROVE  StatusOf(i)' \in {"running", s}
  <2>1. state' = [state EXCEPT ![obj[c]] = s]
    BY <1>4, SetStateOwn
  <2> QED
    BY <1>1, <1>4, <2>1 DEF StatusOf
<1>5. ASSUME NEW c \in Calls, InFlight(c), pc[c] \in Down, NEW s,
             setState(id[c], s), UNCHANGED deployments
      PROVE  StatusOf(i)' = "running"
  <2>1. state' = [state EXCEPT ![obj[c]] = s] /\ obj[c] # deployments[i]
    BY <1>3, <1>5, SetStateOwn, OwnObject
  <2> QED
    BY <1>1, <1>5, <2>1 DEF StatusOf
<1>6. ASSUME NEW c \in Calls, pc[c] \in Down, drop(id[c]), UNCHANGED state
      PROVE  StatusOf(i)' = "running"
  BY <1>1, <1>3, <1>6 DEF drop, StatusOf
<1>7. ASSUME NEW c \in Calls, Step(c)
      PROVE  StatusOf(i)' \in {"running", "stopping"}
  <2>1. CASE SetPulling(c) \/ SetStarting(c) \/ SetFailed(c)
    BY <1>5, <2>1 DEF SetPulling, SetStarting, SetFailed, InFlight
  <2>2. CASE SetRunning(c)
    BY <1>4, <2>2 DEF SetRunning, InFlight
  <2>3. CASE LockUnload(c)
    BY <1>4, <2>3 DEF LockUnload, InFlight, Waiting
  <2>4. CASE DropFailed(c) \/ DropUnloaded(c)
    BY <1>6, <2>4 DEF DropFailed, DropUnloaded
  <2>5. CASE LockLoad(c) \/ CheckEndpoint(c) \/ ReturnCurrent(c) \/ AllocPort(c)
    BY <1>2, <2>5 DEF LockLoad, CheckEndpoint, ReturnCurrent, AllocPort
  <2>6. CASE Pull(c) \/ ClearStale(c) \/ Create(c) \/ SetContainerID(c) \/ Start(c)
    BY <1>2, <2>6 DEF Pull, ClearStale, Create, SetContainerID, Start
  <2>7. CASE WaitReady(c) \/ OllamaPullIfNeeded(c) \/ RemoveImage(c) \/ Publish(c)
    BY <1>2, <2>7 DEF WaitReady, OllamaPullIfNeeded, RemoveImage, Publish
  <2>8. CASE Cleanup(c) \/ StopContainer(c) \/ RemoveContainer(c)
    BY <1>2, <2>8 DEF Cleanup, StopContainer, RemoveContainer
  <2> QED
    BY <1>7, <2>1, <2>2, <2>3, <2>4, <2>5, <2>6, <2>7, <2>8
    DEF Step, LoadStep, UnloadStep
<1>8. ASSUME NEW c \in Calls, NEW j \in Ids, NEW p \in FixedPorts \cup {NoPort},
             LoadModel(c, j, p)
      PROVE  StatusOf(i)' = "running"
  BY <1>1, <1>8 DEF LoadModel, StatusOf
<1>9. ASSUME NEW c \in Calls, NEW j \in Ids, UnloadModel(c, j)
      PROVE  StatusOf(i)' = "running"
  BY <1>2, <1>9 DEF UnloadModel
<1>10. CASE Restart
  BY <1>10 DEF Restart
<1>11. CASE Disconnect \/ (\E c \in Calls : ContainerExits(c)) \/ UNCHANGED vars
  BY <1>2, <1>11 DEF Disconnect, ContainerExits, vars
<1> QED
  BY <1>7, <1>8, <1>9, <1>10, <1>11 DEF Next

(* A deployment that runs is only ever stopped by an UnloadModel, or lost   *)
(* with the worker: no LoadModel, failed or repeated, takes it down.        *)
THEOREM RunningIsOnlyStopped ==
    ASSUME Sender = "serial"
    PROVE  Spec => RunningOnlyStops
<1>1. TypeOK /\ PortInv /\ SerialInv /\ [Next]_vars => SerialInv'
  BY SerialNext
<1>2. TypeOK /\ PortInv /\ SerialInv /\ [Next]_vars =>
         [\A i \in Ids : StatusOf(i) = "running" =>
             StatusOf(i)' \in {"running", "stopping"} \/ restarts' # restarts]_vars
  BY RunningStays
<1> QED
  BY <1>1, <1>2, TypeCorrect, PortInit, PortNext, SerialInit, PTL
  DEF Spec, RunningOnlyStops

-----------------------------------------------------------------------------
(* LoadedIsBacked and NothingUntracked.  Both speak of a deployment at      *)
(* rest.  In between, a container that exists and is not lost is held by    *)
(* the LoadModel that made it (Owning), or is the one its entry names while *)
(* the deployment runs or is being unloaded; an UnloadModel that failed     *)
(* ends that, for the deployment, for good.                                 *)

Owning  == {"setCid", "setStarting", "start", "ready", "ollama", "rmImage",
            "publish", "setRunning", "cleanup"}
Started == {"ready", "ollama", "rmImage", "publish", "setRunning"}
Backing == {"running", "exited"}

\* An object names only containers of its own deployment, made by calls that
\* have begun.
NamesOwnContainer ==
    \A o \in Calls : containerID[o] # Nil =>
        /\ id[containerID[o]] = id[o]
        /\ pc[containerID[o]] # "idle" /\ pc[o] # "idle"
\* Nobody removes the container of a load under way.
StartedStays ==
    \A c \in Calls : pc[c] \in Started => conts[c] \in Backing
\* What a load is about to call running is what it published.
PublishedOwn ==
    \A c \in Calls : pc[c] = "setRunning" =>
        containerID[obj[c]] = c /\ endpointURL[obj[c]] = port[c]

Held(b) == pc[b] \in Owning
Kept(i, b) ==
    /\ deployments[i] # Nil
    /\ containerID[deployments[i]] = b
    /\ \/ state[deployments[i]] = "running"
       \/ \E c \in Calls : id[c] = i /\ pc[c] \in {"stop", "remove"}
Accounted ==
    \A i \in Ids : \A b \in Calls :
        /\ id[b] = i /\ conts[b] # "none" /\ b \notin lost
        /\ ~UnloadFailed(i)
        => Held(b) \/ Kept(i, b)

TrackInv ==
    /\ NamesOwnContainer /\ StartedStays /\ PublishedOwn /\ LoadedIsBacked /\ Accounted

LEMMA TrackInit == Init => TrackInv
  BY DEF Init, TrackInv, NamesOwnContainer, StartedStays, PublishedOwn,
         LoadedIsBacked, Accounted, LoadedDeployments, StatusOf, Started

(* The containers of the deployment of a call in flight, seen from it.      *)
Account(c, l, running, cid, b) ==
    (b = c /\ l \in Owning) \/ (cid = b /\ (running \/ l \in {"stop", "remove"}))

LEMMA TrackAt ==
    ASSUME TypeOK, PortInv, SerialInv, TrackInv, NEW c \in Calls, InFlight(c),
           ~UnloadFailed(id[c]), NEW b \in Calls, id[b] = id[c],
           conts[b] # "none", b \notin lost
    PROVE  Account(c, pc[c], state[obj[c]] = "running", containerID[obj[c]], b)
<1>1. id[c] \in Ids /\ deployments[id[c]] = obj[c]
  BY DEF SerialInv, WorksInTable
<1>2. Held(b) \/ Kept(id[c], b)
  BY <1>1 DEF TrackInv, Accounted
<1>3. \A a \in Calls : id[a] = id[c] /\ InFlight(a) => a = c
  BY DEF SerialInv, OneCallPerId
<1>4. Held(b) => b = c
  BY <1>3 DEF Held, Owning, InFlight, Holding
<1>5. \A a \in Calls : id[a] = id[c] /\ pc[a] \in {"stop", "remove"} => a = c
  BY <1>3 DEF InFlight, Holding
<1> QED
  BY <1>1, <1>2, <1>4, <1>5 DEF Held, Kept, Account

(* A failed UnloadModel is never forgotten.                                 *)
LEMMA FailureStays ==
    ASSUME TypeOK, NEW c \in Calls, NEW l, pc' = [pc EXCEPT ![c] = l],
           pc[c] # "err", UNCHANGED <<op, id>>, NEW i
    PROVE  /\ UnloadFailed(i) => UnloadFailed(i)'
           /\ l = "err" /\ op[c] = "unload" => UnloadFailed(id[c])'
  BY DEF TypeOK, UnloadFailed

(* A step of a call in flight that keeps the table, writes to its own       *)
(* object and touches containers of its own deployment only.                *)
LEMMA TrackMove ==
    ASSUME TypeOK, PortInv, SerialInv, TrackInv, NEW c \in Calls, NEW l,
           InFlight(c), l # "idle", pc' = [pc EXCEPT ![c] = l],
           UNCHANGED <<deployments, op, id, obj>>, TypeOK',
           \A o \in Calls \ {obj[c]} :
               /\ state'[o] = state[o]
               /\ containerID'[o] = containerID[o]
               /\ endpointURL'[o] = endpointURL[o],
           \A b \in Calls \ {c} : port'[b] = port[b],
           \A b \in Calls : id[b] # id[c] => conts'[b] = conts[b],
           lost \subseteq lost',
           containerID'[obj[c]] \in {containerID[obj[c]], c},
           l \in Started => conts'[c] \in Backing,
           l = "setRunning" =>
               containerID'[obj[c]] = c /\ endpointURL'[obj[c]] = port'[c],
           state'[obj[c]] = "running" =>
               /\ containerID'[obj[c]] # Nil
               /\ conts'[containerID'[obj[c]]] \in Backing
               /\ endpointURL'[obj[c]] = port'[containerID'[obj[c]]],
           \A b \in Calls :
               /\ id[b] = id[c] /\ conts'[b] # "none" /\ b \notin lost'
               /\ ~UnloadFailed(id[c]) /\ ~(l = "err" /\ op[c] = "unload")
               => Account(c, l, state'[obj[c]] = "running", containerID'[obj[c]], b)
    PROVE  TrackInv'
<1> USE DEF TrackInv
<1>1. /\ obj[c] \in Calls /\ pc[obj[c]] # "idle" /\ obj[c] # Nil
      /\ id[c] \in Ids /\ deployments[id[c]] = obj[c]
      /\ id[obj[c]] = id[c] /\ pc[c] # "idle" /\ pc[c] # "err"
      /\ \A b \in Calls : b # c /\ InFlight(b) => obj[b] # obj[c] /\ obj[b] \in Calls
      /\ \A b \in Calls : b # c /\ InFlight(b) => id[b] # id[c]
      /\ \A i \in Ids : deployments[i] = obj[c] => i = id[c]
  BY OwnObject
  DEF SerialInv, WorksInTable, OneCallPerId, PortInv, TableOfOwnIds, InFlight,
      Waiting, Holding
<1>2. \A b \in Calls : b # c => pc'[b] = pc[b]
  BY DEF TypeOK
<1>3. pc'[c] = l
  BY DEF TypeOK
<1>4. NamesOwnContainer'
  BY <1>1, <1>2, <1>3 DEF NamesOwnContainer, TypeOK
<1>5. StartedStays'
  BY <1>1, <1>2, <1>3 DEF StartedStays, Started, InFlight, Holding
<1>6. PublishedOwn'
  BY <1>1, <1>2, <1>3 DEF PublishedOwn, InFlight, Holding
<1>7. LoadedIsBacked'
  <2> SUFFICES ASSUME NEW i \in Ids, StatusOf(i)' = "running"
               PROVE  /\ ContainerForDeployment(i)' # Nil
                      /\ id'[ContainerForDeployment(i)'] = i
                      /\ conts'[ContainerForDeployment(i)'] \in {"running", "exited"}
                      /\ EndpointURL(i)' = port'[ContainerForDeployment(i)']
    BY DEF LoadedIsBacked, LoadedDeployments
  <2>1. CASE i = id[c]
    <3>1. /\ state'[obj[c]] = "running"
          /\ ContainerForDeployment(i)' = containerID'[obj[c]]
          /\ EndpointURL(i)' = endpointURL'[obj[c]]
      BY <1>1, <2>1 DEF StatusOf, ContainerForDeployment, EndpointURL
    <3>2. id'[containerID'[obj[c]]] = i
      BY <1>1, <1>4, <2>1, <3>1 DEF NamesOwnContainer
    <3> QED
      BY <3>1, <3>2 DEF Backing
  <2>2. CASE i # id[c]
    <3>1. /\ deployments[i] # Nil /\ deployments[i] # obj[c] /\ deployments[i] \in Calls
          /\ state[deployments[i]] = "running"
      BY <1>1, <2>2 DEF StatusOf, TypeOK
    <3>2. LET cid == containerID[deployments[i]] IN
             /\ cid # Nil /\ cid \in Calls /\ id[cid] = i
             /\ conts[cid] \in {"running", "exited"}
             /\ endpointURL[deployments[i]] = port[cid]
      BY <3>1 DEF LoadedIsBacked, LoadedDeployments, StatusOf,
                  ContainerForDeployment, EndpointURL, TypeOK
    <3> QED
      BY <2>2, <3>1, <3>2 DEF ContainerForDeployment, EndpointURL
  <2> QED
    BY <2>1, <2>2
<1>8. Accounted'
  <2> SUFFICES ASSUME NEW i \in Ids, NEW b \in Calls, id[b] = i,
                      conts'[b] # "none", b \notin lost', ~UnloadFailed(i)'
               PROVE  Held(b)' \/ Kept(i, b)'
    BY DEF Accounted
  <2>1. ~UnloadFailed(i)
    BY <1>1, FailureStays
  <2>2. CASE i = id[c]
    <3>1. ~(l = "err" /\ op[c] = "unload")
      BY <1>1, <2>2, FailureStays
    <3>2. Account(c, l, state'[obj[c]] = "running", containerID'[obj[c]], b)
      BY <2>1, <2>2, <3>1
    <3>3. CASE b = c /\ l \in Owning
      BY <1>3, <3>3 DEF Held
    <3>4. CASE /\ containerID'[obj[c]] = b
               /\ state'[obj[c]] = "running" \/ l \in {"stop", "remove"}
      <4>1. deployments'[i] # Nil /\ containerID'[deployments'[i]] = b
        BY <1>1, <2>2, <3>4
      <4>2. \/ state'[deployments'[i]] = "running"
            \/ id'[c] = i /\ pc'[c] \in {"stop", "remove"}
        BY <1>1, <1>3, <2>2, <3>4
      <4> QED
        BY <4>1, <4>2 DEF Kept
    <3> QED
      BY <3>2, <3>3, <3>4 DEF Account
  <2>3. CASE i # id[c]
    <3>1. conts[b] # "none" /\ b \notin lost /\ b # c
      BY <2>3
    <3>2. Held(b) \/ Kept(i, b)
      BY <2>1, <3>1 DEF Accounted
    <3>3. CASE Held(b)
      BY <1>2, <3>1, <3>3 DEF Held
    <3>4. CASE Kept(i, b)
      <4>1. deployments[i] # obj[c] /\ deployments[i] \in Calls /\ deployments[i] # Nil
        BY <1>1, <2>3, <3>4 DEF Kept, TypeOK
      <4>2. containerID'[deployments'[i]] = b
        BY <3>4, <4>1 DEF Kept
      <4>3. \/ state'[deployments'[i]] = "running"
            \/ \E a \in Calls : id'[a] = i /\ pc'[a] \in {"stop", "remove"}
        BY <1>2, <2>3, <3>4, <4>1 DEF Kept
      <4> QED
        BY <4>1, <4>2, <4>3 DEF Kept
    <3> QED
      BY <3>2, <3>3, <3>4
  <2> QED
    BY <2>2, <2>3
<1> QED
  BY <1>4, <1>5, <1>6, <1>7, <1>8

(* What a call in flight can rely on.                                       *)
LEMMA AtWork ==
    ASSUME TypeOK, PortInv, SerialInv, TrackInv, NEW c \in Calls, InFlight(c)
    PROVE  /\ obj[c] \in Calls /\ obj[c] # Nil /\ id[c] \in Ids
           /\ deployments[id[c]] = obj[c] /\ id[obj[c]] = id[c]
           /\ pc[c] \in Down => state[obj[c]] # "running"
           /\ containerID[obj[c]] \in Calls \cup {Nil}
           /\ containerID[obj[c]] # Nil => id[containerID[obj[c]]] = id[c]
           /\ state[obj[c]] = "running" =>
                 /\ containerID[obj[c]] # Nil
                 /\ conts[containerID[obj[c]]] \in Backing
                 /\ endpointURL[obj[c]] = port[containerID[obj[c]]]
<1>1. /\ obj[c] \in Calls /\ obj[c] # Nil /\ id[c] \in Ids
      /\ deployments[id[c]] = obj[c] /\ id[obj[c]] = id[c]
  BY OwnObject DEF SerialInv, WorksInTable, PortInv, TableOfOwnIds
<1>2. pc[c] \in Down => state[obj[c]] # "running"
  BY DEF SerialInv, FoundDown
<1>3. /\ containerID[obj[c]] \in Calls \cup {Nil}
      /\ containerID[obj[c]] # Nil => id[containerID[obj[c]]] = id[c]
  BY <1>1 DEF TypeOK, TrackInv, NamesOwnContainer
<1>4. state[obj[c]] = "running" => id[c] \in LoadedDeployments
  BY <1>1 DEF LoadedDeployments, StatusOf
<1>5. state[obj[c]] = "running" =>
         /\ containerID[obj[c]] # Nil
         /\ conts[containerID[obj[c]]] \in Backing
         /\ endpointURL[obj[c]] = port[containerID[obj[c]]]
  BY <1>1, <1>4 DEF TrackInv, LoadedIsBacked, ContainerForDeployment, EndpointURL,
                    Backing
<1> QED
  BY <1>1, <1>2, <1>3, <1>5

(* A step that touches no container, and neither starts nor stops a         *)
(* deployment.                                                              *)
LEMMA TrackQuiet ==
    ASSUME TypeOK, PortInv, SerialInv, TrackInv, NEW c \in Calls, NEW l,
           InFlight(c), l # "idle", pc' = [pc EXCEPT ![c] = l], TypeOK',
           UNCHANGED <<deployments, containerID, endpointURL, op, id, obj, port, conts, lost>>,
           \A o \in Calls \ {obj[c]} : state'[o] = state[o],
           state'[obj[c]] = "running" <=> state[obj[c]] = "running",
           l \in Started => pc[c] \in Started, l # "setRunning",
           pc[c] \in Owning => l \in Owning,
           pc[c] \notin {"stop", "remove"}
    PROVE  TrackInv'
<1>1. \A b \in Calls :
         /\ id[b] = id[c] /\ conts[b] # "none" /\ b \notin lost
         /\ ~UnloadFailed(id[c])
         => Account(c, pc[c], state[obj[c]] = "running", containerID[obj[c]], b)
  BY TrackAt
<1>2. \A b \in Calls :
         /\ id[b] = id[c] /\ conts[b] # "none" /\ b \notin lost
         /\ ~UnloadFailed(id[c])
         => Account(c, l, state'[obj[c]] = "running", containerID'[obj[c]], b)
  BY <1>1 DEF Account
<1>3. l \in Started => conts[c] \in Backing
  BY DEF TrackInv, StartedStays
<1>4. state'[obj[c]] = "running" =>
         /\ containerID'[obj[c]] # Nil
         /\ conts'[containerID'[obj[c]]] \in Backing
         /\ endpointURL'[obj[c]] = port'[containerID'[obj[c]]]
  BY AtWork
<1> QED
  BY <1>2, <1>3, <1>4, TrackMove

(* A call that drops its entry leaves nothing that only the entry named.    *)
LEMMA TrackDrop ==
    ASSUME TypeOK, PortInv, SerialInv, TrackInv, NEW c \in Calls,
           NEW r \in Returned, pc[c] \in {"drop", "udrop"}, drop(id[c]), Return(c, r),
           UNCHANGED <<state, containerID, endpointURL, op, id, obj, port, conts, lost>>
    PROVE  TrackInv'
<1> USE DEF TypeOK, TrackInv, drop, Return, Goto, Returned
<1>1. InFlight(c) /\ pc[c] \in Down
  BY DEF InFlight, Down, Holding
<1>2. id[c] \in Ids /\ state[obj[c]] # "running"
  BY <1>1, AtWork
<1>3. NamesOwnContainer' /\ StartedStays' /\ PublishedOwn'
  BY DEF NamesOwnContainer, StartedStays, PublishedOwn, Started
<1>4. LoadedIsBacked'
  BY DEF LoadedIsBacked, LoadedDeployments, StatusOf, ContainerForDeployment, EndpointURL
<1>5. Accounted'
  <2> SUFFICES ASSUME NEW i \in Ids, NEW b \in Calls, id[b] = i,
                      conts[b] # "none", b \notin lost, ~UnloadFailed(i)'
               PROVE  Held(b)' \/ Kept(i, b)'
    BY DEF Accounted
  <2>1. ~UnloadFailed(i)
    BY FailureStays
  <2>2. CASE i = id[c]
    <3>1. Account(c, pc[c], state[obj[c]] = "running", containerID[obj[c]], b)
      BY <1>1, <2>1, <2>2, TrackAt
    <3> QED
      BY <1>2, <3>1 DEF Account, Owning
  <2>3. CASE i # id[c]
    <3>1. Held(b) \/ Kept(i, b)
      BY <2>1 DEF Accounted
    <3> QED
      BY <2>3, <3>1 DEF Held, Kept
  <2> QED
    BY <2>2, <2>3
<1> QED
  BY <1>3, <1>4, <1>5

LEMMA TrackLoad ==
    ASSUME TypeOK, PortInv, SerialInv, TrackInv, ContainerHasOwner, Sender = "serial",
           NEW c \in Calls, NEW i \in Ids, NEW p \in FixedPorts \cup {NoPort},
           LoadModel(c, i, p)
    PROVE  TrackInv'
<1> USE NilAssumption DEF TypeOK, TrackInv, LoadModel, Goto, docker, env
<1>1. \A b \in Calls : b # c => pc'[b] = pc[b] /\ id'[b] = id[b] /\ port'[b] = port[b]
                                /\ obj'[b] = obj[b] /\ op'[b] = op[b]
  OBVIOUS
<1>2. \A o \in Calls : containerID[o] # c /\ (o = c => containerID[o] = Nil)
  BY DEF NamesOwnContainer
<1>3. NamesOwnContainer'
  BY <1>1, <1>2 DEF NamesOwnContainer
<1>4. StartedStays' /\ PublishedOwn'
  BY <1>1 DEF StartedStays, PublishedOwn, Started
<1>5. LoadedIsBacked'
  <2> SUFFICES ASSUME NEW j \in Ids, StatusOf(j)' = "running"
               PROVE  /\ ContainerForDeployment(j)' # Nil
                      /\ id'[ContainerForDeployment(j)'] = j
                      /\ conts'[ContainerForDeployment(j)'] \in {"running", "exited"}
                      /\ EndpointURL(j)' = port'[ContainerForDeployment(j)']
    BY DEF LoadedIsBacked, LoadedDeployments
  <2>1. deployments'[j] = deployments[j] /\ deployments[j] # Nil
    BY DEF StatusOf, SerialInv, FreshIsAbsent
  <2>2. StatusOf(j) = "running" /\ deployments[j] \in Calls
    BY <2>1 DEF StatusOf
  <2>3. LET cid == containerID[deployments[j]] IN
           /\ cid # Nil /\ cid \in Calls /\ id[cid] = j /\ cid # c
           /\ conts[cid] \in {"running", "exited"}
           /\ endpointURL[deployments[j]] = port[cid]
    BY <1>2, <2>1, <2>2
    DEF LoadedIsBacked, LoadedDeployments, ContainerForDeployment, EndpointURL
  <2> QED
    BY <1>1, <2>1, <2>3 DEF ContainerForDeployment, EndpointURL
<1>6. Accounted'
  <2> SUFFICES ASSUME NEW j \in Ids, NEW b \in Calls, id'[b] = j,
                      conts[b] # "none", b \notin lost, ~UnloadFailed(j)'
               PROVE  Held(b)' \/ Kept(j, b)'
    BY DEF Accounted
  <2>1. b # c
    BY DEF ContainerHasOwner, AfterCreate
  <2>2. ~UnloadFailed(j)
    BY <1>1 DEF UnloadFailed
  <2>3. Held(b) \/ Kept(j, b)
    BY <1>1, <2>1, <2>2 DEF Accounted
  <2>4. CASE Held(b)
    BY <1>1, <2>1, <2>4 DEF Held
  <2>5. CASE Kept(j, b)
    <3>1. deployments'[j] = deployments[j] /\ deployments[j] # Nil
      BY <2>5 DEF Kept
    <3>2. \A a \in Calls : pc[a] \in {"stop", "remove"} =>
             pc'[a] = pc[a] /\ id'[a] = id[a]
      BY <1>1
    <3> QED
      BY <2>5, <3>1, <3>2 DEF Kept
  <2> QED
    BY <2>3, <2>4, <2>5
<1> QED
  BY <1>3, <1>4, <1>5, <1>6

LEMMA TrackUnload ==
    ASSUME TypeOK, PortInv, SerialInv, TrackInv, ContainerHasOwner, Sender = "serial",
           NEW c \in Calls, NEW i \in Ids, UnloadModel(c, i)
    PROVE  TrackInv'
<1> USE NilAssumption DEF TypeOK, TrackInv, UnloadModel, Goto, table, docker, env
<1>1. \A b \in Calls : b # c => pc'[b] = pc[b] /\ id'[b] = id[b]
                                /\ obj'[b] = obj[b] /\ op'[b] = op[b]
  OBVIOUS
<1>2. \A o \in Calls : containerID[o] # c /\ (o = c => containerID[o] = Nil)
  BY DEF NamesOwnContainer
<1>3. NamesOwnContainer'
  BY <1>1, <1>2 DEF NamesOwnContainer
<1>4. StartedStays' /\ PublishedOwn'
  BY <1>1 DEF StartedStays, PublishedOwn, Started
<1>5. LoadedIsBacked'
  <2> SUFFICES ASSUME NEW j \in Ids, StatusOf(j) = "running"
               PROVE  id'[ContainerForDeployment(j)] = id[ContainerForDeployment(j)]
    BY DEF LoadedIsBacked, LoadedDeployments, StatusOf, ContainerForDeployment, EndpointURL
  <2>1. deployments[j] \in Calls /\ ContainerForDeployment(j) = containerID[deployments[j]]
    BY DEF StatusOf, ContainerForDeployment
  <2>2. containerID[deployments[j]] # Nil /\ containerID[deployments[j]] \in Calls
    BY <2>1 DEF LoadedIsBacked, LoadedDeployments
  <2> QED
    BY <1>1, <1>2, <2>1, <2>2
<1>6. Accounted'
  <2> SUFFICES ASSUME NEW j \in Ids, NEW b \in Calls, id'[b] = j,
                      conts[b] # "none", b \notin lost, ~UnloadFailed(j)'
               PROVE  Held(b)' \/ Kept(j, b)'
    BY DEF Accounted
  <2>1. b # c
    BY DEF ContainerHasOwner, AfterCreate
  <2>2. ~UnloadFailed(j)
    BY <1>1 DEF UnloadFailed
  <2>3. Held(b) \/ Kept(j, b)
    BY <1>1, <2>1, <2>2 DEF Accounted
  <2>4. CASE Held(b)
    BY <1>1, <2>1, <2>4 DEF Held
  <2>5. CASE Kept(j, b)
    <3>1. \A a \in Calls : pc[a] \in {"stop", "remove"} =>
             pc'[a] = pc[a] /\ id'[a] = id[a]
      BY <1>1
    <3> QED
      BY <2>5, <3>1 DEF Kept
  <2> QED
    BY <2>3, <2>4, <2>5
<1> QED
  BY <1>3, <1>4, <1>5, <1>6

LEMMA TrackStep ==
    ASSUME TypeOK, PortInv, SerialInv, TrackInv, NEW c \in Calls, Step(c), TypeOK'
    PROVE  TrackInv'
<1> USE DEF Goto, Return, table, docker, frame
<1> DEFINE Mine(b) == /\ id[b] = id[c] /\ conts[b] # "none" /\ b \notin lost
                      /\ ~UnloadFailed(id[c])
<1>0. InFlight(c)
  BY DEF Step, LoadStep, UnloadStep, InFlight, LockLoad, CheckEndpoint,
         ReturnCurrent, AllocPort, SetPulling, Pull, ClearStale, Create,
         SetContainerID, SetStarting, Start, WaitReady, OllamaPullIfNeeded,
         RemoveImage, Publish, SetRunning, Cleanup, SetFailed, DropFailed,
         LockUnload, StopContainer, RemoveContainer, DropUnloaded, Waiting, Holding
<1>1. /\ obj[c] \in Calls /\ obj[c] # Nil /\ id[c] \in Ids
      /\ deployments[id[c]] = obj[c] /\ id[obj[c]] = id[c]
      /\ containerID[obj[c]] \in Calls \cup {Nil}
      /\ containerID[obj[c]] # Nil => id[containerID[obj[c]]] = id[c]
      /\ state[obj[c]] = "running" =>
            /\ containerID[obj[c]] # Nil
            /\ conts[containerID[obj[c]]] \in Backing
            /\ endpointURL[obj[c]] = port[containerID[obj[c]]]
  BY <1>0, AtWork
<1>2. pc[c] \in Down => state[obj[c]] # "running"
  BY <1>0, AtWork
<1>3. \A b \in Calls : Mine(b) =>
         Account(c, pc[c], state[obj[c]] = "running", containerID[obj[c]], b)
  BY <1>0, TrackAt
<1>4. pc[c] \in Started => conts[c] \in Backing
  BY DEF TrackInv, StartedStays
<1>5. CASE LockLoad(c) \/ CheckEndpoint(c) \/ ReturnCurrent(c)
  <2>1. PICK l \in {"endpoint", "alloc", "current", "ok"} : pc' = [pc EXCEPT ![c] = l]
    BY <1>5 DEF LockLoad, CheckEndpoint, ReturnCurrent
  <2>2. /\ pc[c] \in {"lock", "endpoint", "current"}
        /\ UNCHANGED <<deployments, state, containerID, endpointURL, op, id, obj,
                       port, conts, lost>>
    BY <1>5 DEF LockLoad, CheckEndpoint, ReturnCurrent
  <2> QED
    BY <1>0, <2>1, <2>2, TrackQuiet DEF Owning, Started
<1>6. CASE AllocPort(c)
  <2>1. PICK l \in {"setPulling", "err"} : pc' = [pc EXCEPT ![c] = l]
    BY <1>6 DEF AllocPort
  <2>2. /\ pc[c] = "alloc"
        /\ UNCHANGED <<deployments, state, containerID, endpointURL, op, id, obj,
                       conts, lost>>
        /\ \A b \in Calls \ {c} : port'[b] = port[b]
    BY <1>6 DEF AllocPort, TypeOK
  <2>3. state[obj[c]] # "running"
    BY <1>2, <2>2 DEF Down, Holding
  <2>4. \A b \in Calls : ~Mine(b)
    BY <1>3, <2>2, <2>3 DEF Account, Owning
  <2> QED
    BY <1>0, <2>1, <2>2, <2>3, <2>4, TrackMove DEF Started
<1>7. CASE SetPulling(c) \/ SetStarting(c) \/ SetFailed(c)
  <2>1. PICK s \in States \ {"running"}, l \in {"pull", "start", "drop"} :
           /\ pc' = [pc EXCEPT ![c] = l] /\ setState(id[c], s)
           /\ pc[c] \in Owning => l \in Owning
    BY <1>7 DEF SetPulling, SetStarting, SetFailed, States, Owning
  <2>2. /\ pc[c] \in {"setPulling", "setStarting", "setFailed"}
        /\ UNCHANGED <<deployments, containerID, endpointURL, op, id, obj, port,
                       conts, lost>>
    BY <1>7 DEF SetPulling, SetStarting, SetFailed
  <2>3. state[obj[c]] # "running"
    BY <1>2, <2>2 DEF Down, Holding
  <2>4. /\ state'[obj[c]] # "running"
        /\ \A o \in Calls \ {obj[c]} : state'[o] = state[o]
    BY <1>0, <2>1, SetStateOwn
  <2> QED
    BY <1>0, <2>1, <2>2, <2>3, <2>4, TrackQuiet DEF Owning, Started
<1>8. CASE Pull(c)
  <2>1. PICK l \in {"clear", "setFailed"} : pc' = [pc EXCEPT ![c] = l]
    BY <1>8 DEF Pull
  <2> QED
    BY <1>0, <1>8, <2>1, TrackQuiet DEF Pull, Owning, Started
<1>9. CASE ClearStale(c)
  <2>1. PICK l \in {"create", "setFailed"} : pc' = [pc EXCEPT ![c] = l]
    BY <1>9 DEF ClearStale
  <2>2. /\ pc[c] = "clear"
        /\ UNCHANGED <<deployments, state, containerID, endpointURL, op, id, obj,
                       port, lost>>
        /\ \A b \in Calls : conts'[b] \in {conts[b], "none"}
        /\ \A b \in Calls : id[b] # id[c] => conts'[b] = conts[b]
    BY <1>9 DEF ClearStale, Named, TypeOK
  <2>3. state[obj[c]] # "running"
    BY <1>2, <2>2 DEF Down, Holding
  <2>4. \A b \in Calls : ~Mine(b)
    BY <1>3, <2>2, <2>3 DEF Account, Owning
  <2> QED
    BY <1>0, <2>1, <2>2, <2>3, <2>4, TrackMove DEF Started
<1>10. CASE Create(c)
  <2>1. /\ pc[c] = "create"
        /\ UNCHANGED <<deployments, state, containerID, endpointURL, op, id, obj, port>>
        /\ \A b \in Calls \ {c} : conts'[b] = conts[b]
        /\ lost \subseteq lost'
    BY <1>10 DEF Create, TypeOK
  <2>2. PICK l \in {"setCid", "setFailed"} :
           /\ pc' = [pc EXCEPT ![c] = l]
           /\ l = "setCid" \/ conts'[c] = conts[c] \/ c \in lost'
    BY <1>10 DEF Create
  <2>3. state[obj[c]] # "running"
    BY <1>2, <2>1 DEF Down, Holding
  <2>4. \A b \in Calls : ~Mine(b)
    BY <1>3, <2>1, <2>3 DEF Account, Owning
  <2> QED
    BY <1>0, <2>1, <2>2, <2>3, <2>4, TrackMove DEF Started, Account, Owning
<1>11. CASE SetContainerID(c)
  <2>1. /\ pc[c] = "setCid" /\ pc' = [pc EXCEPT ![c] = "setStarting"]
        /\ containerID' = [containerID EXCEPT ![obj[c]] = c]
        /\ UNCHANGED <<deployments, state, endpointURL, op, id, obj, port, conts, lost>>
    BY <1>1, <1>11 DEF SetContainerID, setContainerID
  <2>2. /\ containerID'[obj[c]] = c
        /\ \A o \in Calls \ {obj[c]} : containerID'[o] = containerID[o]
    BY <1>1, <2>1 DEF TypeOK
  <2>3. state[obj[c]] # "running"
    BY <1>2, <2>1 DEF Down, Holding
  <2>4. \A b \in Calls : Mine(b) => b = c
    BY <1>3, <2>1, <2>3 DEF Account
  <2> QED
    BY <1>0, <2>1, <2>2, <2>3, <2>4, TrackMove DEF Started, Account, Owning
<1>12. CASE Start(c)
  <2>1. /\ pc[c] = "start"
        /\ UNCHANGED <<deployments, state, containerID, endpointURL, op, id, obj,
                       port, lost>>
        /\ \A b \in Calls \ {c} : conts'[b] = conts[b]
    BY <1>12 DEF Start, TypeOK
  <2>2. PICK l \in {"ready", "cleanup"} :
           /\ pc' = [pc EXCEPT ![c] = l]
           /\ l = "ready" => conts'[c] = "running"
    BY <1>12 DEF Start, TypeOK
  <2>3. state[obj[c]] # "running"
    BY <1>2, <2>1 DEF Down, Holding
  <2>4. \A b \in Calls : Mine(b) => b = c
    BY <1>3, <2>1, <2>3 DEF Account
  <2> QED
    BY <1>0, <2>1, <2>2, <2>3, <2>4, TrackMove DEF Started, Account, Owning, Backing
<1>13. CASE WaitReady(c) \/ OllamaPullIfNeeded(c) \/ RemoveImage(c)
  <2>1. PICK l \in {"ollama", "cleanup", "rmImage", "publish"} : pc' = [pc EXCEPT ![c] = l]
    BY <1>13 DEF WaitReady, OllamaPullIfNeeded, RemoveImage
  <2>2. /\ pc[c] \in {"ready", "ollama", "rmImage"}
        /\ UNCHANGED <<deployments, state, containerID, endpointURL, op, id, obj,
                       port, conts, lost>>
    BY <1>13 DEF WaitReady, OllamaPullIfNeeded, RemoveImage
  <2> QED
    BY <1>0, <2>1, <2>2, TrackQuiet DEF Owning, Started
<1>14. CASE Publish(c)
  <2>1. /\ pc[c] = "publish" /\ pc' = [pc EXCEPT ![c] = "setRunning"]
        /\ UNCHANGED <<deployments, state, op, id, obj, port, conts, lost>>
    BY <1>14 DEF Publish
  <2>2. /\ containerID'[obj[c]] = c /\ endpointURL'[obj[c]] = port[c]
        /\ \A o \in Calls \ {obj[c]} :
              containerID'[o] = containerID[o] /\ endpointURL'[o] = endpointURL[o]
    BY <1>1, <1>14 DEF Publish, TypeOK
  <2>3. state[obj[c]] # "running"
    BY <1>2, <2>1 DEF Down, Holding
  <2>4. \A b \in Calls : Mine(b) => b = c
    BY <1>3, <2>1, <2>3 DEF Account
  <2>5. conts[c] \in Backing
    BY <1>4, <2>1 DEF Started
  <2> QED
    BY <1>0, <2>1, <2>2, <2>3, <2>4, <2>5, TrackMove DEF Account, Owning
<1>15. CASE SetRunning(c)
  <2>1. /\ pc[c] = "setRunning" /\ pc' = [pc EXCEPT ![c] = "ok"]
        /\ UNCHANGED <<deployments, containerID, endpointURL, op, id, obj, port,
                       conts, lost>>
    BY <1>15 DEF SetRunning
  <2>2. /\ state'[obj[c]] = "running"
        /\ \A o \in Calls \ {obj[c]} : state'[o] = state[o]
    BY <1>0, <1>15, SetStateOwn DEF SetRunning
  <2>3. containerID[obj[c]] = c /\ endpointURL[obj[c]] = port[c]
    BY <2>1 DEF TrackInv, PublishedOwn
  <2>4. state[obj[c]] # "running" /\ conts[c] \in Backing /\ c # Nil
    BY <1>2, <1>4, <2>1, NilAssumption DEF Down, Holding, Started
  <2>5. \A b \in Calls : Mine(b) => b = c
    BY <1>3, <2>1, <2>4 DEF Account
  <2>6. \A b \in Calls : Mine(b) =>
           Account(c, "ok", state'[obj[c]] = "running", containerID'[obj[c]], b)
    BY <2>1, <2>2, <2>3, <2>5 DEF Account
  <2> QED
    BY <1>0, <2>1, <2>2, <2>3, <2>4, <2>6, TrackMove DEF Started
<1>16. CASE Cleanup(c)
  <2>1. /\ pc[c] = "cleanup" /\ pc' = [pc EXCEPT ![c] = "setFailed"]
        /\ UNCHANGED <<deployments, state, containerID, endpointURL, op, id, obj, port>>
        /\ \A b \in Calls \ {c} : conts'[b] = conts[b]
        /\ lost \subseteq lost'
        /\ conts'[c] = "none" \/ c \in lost'
    BY <1>16 DEF Cleanup, TypeOK
  <2>2. state[obj[c]] # "running"
    BY <1>2, <2>1 DEF Down, Holding
  <2>3. \A b \in Calls : Mine(b) => b = c
    BY <1>3, <2>1, <2>2 DEF Account
  <2> QED
    BY <1>0, <2>1, <2>2, <2>3, TrackMove DEF Started
<1>17. CASE DropFailed(c)
  BY <1>17, TrackDrop DEF DropFailed, Returned
<1>18. CASE LockUnload(c)
  <2>1. /\ pc[c] = "ulock" /\ pc' = [pc EXCEPT ![c] = "stop"]
        /\ UNCHANGED <<deployments, containerID, endpointURL, op, id, obj, port,
                       conts, lost>>
    BY <1>18 DEF LockUnload
  <2>2. /\ state'[obj[c]] = "stopping"
        /\ \A o \in Calls \ {obj[c]} : state'[o] = state[o]
    BY <1>0, <1>18, SetStateOwn DEF LockUnload
  <2>3. \A b \in Calls : Mine(b) => b = containerID[obj[c]]
    BY <1>3, <2>1 DEF Account, Owning
  <2> QED
    BY <1>0, <2>1, <2>2, <2>3, TrackMove DEF Started, Account
<1>19. CASE StopContainer(c) \/ RemoveContainer(c)
  <2>1. /\ pc[c] \in {"stop", "remove"}
        /\ UNCHANGED <<deployments, state, containerID, endpointURL, op, id, obj,
                       port, lost>>
        /\ op[c] = "unload"
    BY <1>19 DEF StopContainer, RemoveContainer, SerialInv, OpOfCall, Unloading
  <2>2. state[obj[c]] # "running"
    BY <1>2, <2>1 DEF Down, Holding
  <2>3. \A b \in Calls : Mine(b) => b = containerID[obj[c]]
    BY <1>3, <2>1, <2>2 DEF Account, Owning
  <2>4. PICK l \in {"udrop", "remove", "err"} :
           /\ pc' = [pc EXCEPT ![c] = l]
           /\ l = "udrop" => \/ containerID[obj[c]] = Nil
                             \/ conts'[containerID[obj[c]]] = "none"
    <3>1. CASE StopContainer(c)
      BY <3>1 DEF StopContainer
    <3>2. CASE RemoveContainer(c)
      <4>1. containerID[obj[c]] = Nil \/ containerID[obj[c]] \in Calls
        BY <1>1
      <4> QED
        BY <3>2, <4>1 DEF RemoveContainer, TypeOK
    <3> QED
      BY <1>19, <3>1, <3>2
  <2>5. \A b \in Calls : b # containerID[obj[c]] => conts'[b] = conts[b]
    BY <1>19 DEF StopContainer, RemoveContainer, TypeOK
  <2>6. \A b \in Calls : conts[b] = "none" => conts'[b] = "none"
    BY <1>19 DEF StopContainer, RemoveContainer, TypeOK
  <2>7. \A b \in Calls : id[b] # id[c] => conts'[b] = conts[b]
    BY <1>1, <2>5, NilAssumption
  <2>8. \A b \in Calls :
           /\ id[b] = id[c] /\ conts'[b] # "none" /\ b \notin lost'
           /\ ~UnloadFailed(id[c]) /\ ~(l = "err" /\ op[c] = "unload")
           => Account(c, l, state'[obj[c]] = "running", containerID'[obj[c]], b)
    BY <2>1, <2>3, <2>4, <2>6, NilAssumption DEF Account
  <2> QED
    BY <1>0, <2>1, <2>2, <2>4, <2>7, <2>8, TrackMove DEF Started
<1>20. CASE DropUnloaded(c)
  BY <1>20, TrackDrop DEF DropUnloaded, Returned
<1> QED
  BY <1>5, <1>6, <1>7, <1>8, <1>9, <1>10, <1>11, <1>12, <1>13, <1>14, <1>15,
     <1>16, <1>17, <1>18, <1>19, <1>20 DEF Step, LoadStep, UnloadStep

LEMMA TrackNext ==
    ASSUME Sender = "serial", TypeOK, PortInv, SerialInv, ContainerHasOwner, TrackInv,
           [Next]_vars
    PROVE  TrackInv'
<1>1. ASSUME NEW c \in Calls, Step(c) PROVE TrackInv'
  BY <1>1, TypeNext, TrackStep
<1>2. ASSUME UNCHANGED <<deployments, state, containerID, endpointURL, op, id, obj, port,
                         pc, lost>>,
             \A b \in Calls : \/ conts'[b] = conts[b]
                              \/ conts[b] = "running" /\ conts'[b] = "exited"
      PROVE  TrackInv'
  <2> USE <1>2 DEF TrackInv
  <2>1. NamesOwnContainer' /\ StartedStays' /\ PublishedOwn'
    BY DEF NamesOwnContainer, StartedStays, PublishedOwn, Backing
  <2>2. LoadedIsBacked'
    BY DEF LoadedIsBacked, LoadedDeployments, StatusOf, ContainerForDeployment,
           EndpointURL, TypeOK
  <2>3. Accounted'
    BY DEF Accounted, Held, Kept, UnloadFailed
  <2> QED
    BY <2>1, <2>2, <2>3
<1>3. CASE \E c \in Calls : ContainerExits(c)
  BY <1>2, <1>3 DEF ContainerExits, table, frame, TypeOK
<1>4. CASE Disconnect
  BY <1>2, <1>4 DEF Disconnect, table, frame, docker
<1>5. CASE Restart
  <2> USE <1>5 DEF Restart, TypeOK, TrackInv, frame, docker
  <2>1. NamesOwnContainer'
    BY DEF NamesOwnContainer, InFlight
  <2>2. StartedStays' /\ PublishedOwn'
    BY DEF StartedStays, PublishedOwn, Started, InFlight, Holding
  <2>3. LoadedIsBacked'
    BY DEF LoadedIsBacked, LoadedDeployments, StatusOf
  <2>4. Accounted'
    BY DEF Accounted
  <2> QED
    BY <2>1, <2>2, <2>3, <2>4
<1>6. CASE UNCHANGED vars
  BY <1>2, <1>6 DEF vars
<1> QED
  BY <1>1, <1>3, <1>4, <1>5, <1>6, TrackLoad, TrackUnload DEF Next

(* Under the same control plane, what the heartbeat reports as loaded has a *)
(* started container of its own behind the endpoint that the proxy uses,    *)
(* and a deployment at rest has no container that the worker has forgotten. *)
LEMMA TrackHolds ==
    ASSUME Sender = "serial"
    PROVE  Spec => [](TypeOK /\ PortInv /\ SerialInv /\ TrackInv)
<1>1. TypeOK /\ PortInv /\ SerialInv /\ [Next]_vars => SerialInv'
  BY SerialNext
<1>2. TypeOK /\ PortInv /\ SerialInv /\ ContainerHasOwner /\ TrackInv /\ [Next]_vars
         => TrackInv'
  BY TrackNext
<1> QED
  BY <1>1, <1>2, TypeCorrect, PortInit, PortNext, SerialInit, TrackInit, OwnerInit,
     OwnerNext, PTL DEF Spec

(* A deployment that LoadedDeployments reports is backed: its entry names a *)
(* container of that deployment, which was started on the published port    *)
(* and which no other command removes while the deployment runs.            *)
THEOREM LoadedStaysBacked ==
    ASSUME Sender = "serial"
    PROVE  Spec => []LoadedIsBacked
  BY TrackHolds, PTL DEF TrackInv

(* Once no command is at work on a deployment, docker holds no container of *)
(* it but the one its entry names, unless docker kept it or an UnloadModel  *)
(* of the deployment returned an error.                                     *)
THEOREM NothingIsForgotten ==
    ASSUME Sender = "serial"
    PROVE  Spec => []NothingUntracked
<1>1. TypeOK /\ TrackInv => NothingUntracked
  <2> SUFFICES ASSUME TypeOK, TrackInv, NEW i \in Ids, ~Busy(i), ~UnloadFailed(i),
                      NEW b \in Named(i), b \notin lost
               PROVE  b = ContainerForDeployment(i)
    BY DEF NothingUntracked
  <2>1. Held(b) \/ Kept(i, b)
    BY DEF Named, TrackInv, Accounted
  <2>2. ~Held(b)
    BY DEF Held, Owning, Busy, InFlight, Holding, Named
  <2> QED
    BY <2>1, <2>2 DEF Kept, ContainerForDeployment
<1> QED
  BY <1>1, TrackHolds, PTL

-----------------------------------------------------------------------------
(* ProgressEnds.  A log is ended when its load has started a container or   *)
(* has failed, and a deployment that runs has an ended log; marks are       *)
(* never taken back.                                                        *)

Told == {"ready", "ollama", "rmImage", "publish", "setRunning", "setFailed", "drop"}
LoadHasObject ==
    \A c \in Calls : op[c] = "load" => obj[c] \in Calls
RunningTold ==
    \A o \in Calls : state[o] = "running" => prog[o] # "open"
LateTold ==
    \A c \in Calls : pc[c] \in Told => prog[obj[c]] # "open"

ProgInv == LoadHasObject /\ RunningTold /\ LateTold /\ ProgressEnds

LEMMA ProgInit == Init => ProgInv
  BY DEF Init, ProgInv, LoadHasObject, RunningTold, LateTold, ProgressEnds, Told

(* mark ends the log it is given, and changes no other.                     *)
LEMMA MarkEnds ==
    ASSUME TypeOK, NEW o \in Calls, NEW s \in {"started", "failed"}, mark(o, s)
    PROVE  /\ prog'[o] # "open"
           /\ \A a \in Calls : prog[a] # "open" => prog'[a] # "open"
  BY DEF TypeOK, mark

(* A step of a call in flight, which may not pass "start" or return without *)
(* an ended log.                                                            *)
LEMMA ProgMove ==
    ASSUME TypeOK, SerialInv, ProgInv, NEW c \in Calls, NEW l, InFlight(c),
           pc' = [pc EXCEPT ![c] = l], UNCHANGED <<op, obj>>,
           \A b \in Calls \ {c} : port'[b] = port[b],
           \A o \in Calls : prog[o] # "open" => prog'[o] # "open",
           \A o \in Calls : state'[o] = "running" =>
               state[o] = "running" \/ (o = obj[c] /\ prog[o] # "open"),
           l \in Told \cup Returned =>
               \/ prog'[obj[c]] # "open"
               \/ l = "err" /\ port'[c] = NoPort
               \/ l \notin Told /\ op[c] = "unload"
    PROVE  ProgInv'
<1> USE DEF TypeOK, ProgInv
<1>1. obj[c] \in Calls /\ \A b \in Calls : b # c => pc'[b] = pc[b]
  BY DEF SerialInv, WorksInTable
<1>2. pc'[c] = l
  OBVIOUS
<1>3. \A b \in Calls : pc[b] \in Told => obj[b] \in Calls
  BY DEF Told, SerialInv, WorksInTable, InFlight, Holding
<1>4. LoadHasObject' /\ RunningTold'
  BY DEF LoadHasObject, RunningTold
<1>5. LateTold'
  BY <1>1, <1>2, <1>3 DEF LateTold, Told
<1>6. ProgressEnds'
  BY <1>1, <1>2 DEF ProgressEnds, LoadHasObject
<1> QED
  BY <1>4, <1>5, <1>6

LEMMA ProgStep ==
    ASSUME TypeOK, SerialInv, ProgInv, NEW c \in Calls, Step(c)
    PROVE  ProgInv'
<1> USE DEF Goto, Return, table, docker, frame
<1>0. InFlight(c)
  BY DEF Step, LoadStep, UnloadStep, InFlight, LockLoad, CheckEndpoint,
         ReturnCurrent, AllocPort, SetPulling, Pull, ClearStale, Create,
         SetContainerID, SetStarting, Start, WaitReady, OllamaPullIfNeeded,
         RemoveImage, Publish, SetRunning, Cleanup, SetFailed, DropFailed,
         LockUnload, StopContainer, RemoveContainer, DropUnloaded, Waiting, Holding
<1>1. obj[c] \in Calls
  BY <1>0 DEF SerialInv, WorksInTable
<1>2. /\ pc[c] \in Told => prog[obj[c]] # "open"
      /\ state[obj[c]] = "running" => prog[obj[c]] # "open"
      /\ pc[c] \in Unloading => op[c] = "unload"
  BY <1>1 DEF ProgInv, LateTold, RunningTold, SerialInv, OpOfCall
<1>3. CASE LockLoad(c) \/ CheckEndpoint(c)
  <2>1. PICK l \in {"endpoint", "alloc", "current"} : pc' = [pc EXCEPT ![c] = l]
    BY <1>3 DEF LockLoad, CheckEndpoint
  <2> QED
    BY <1>0, <1>3, <2>1, ProgMove DEF LockLoad, CheckEndpoint, Told, Returned
<1>4. CASE ReturnCurrent(c)
  <2>1. prog[obj[c]] # "open"
    BY <1>2, <1>4 DEF ReturnCurrent, SerialInv, FoundRunning
  <2> QED
    BY <1>0, <1>4, <2>1, ProgMove DEF ReturnCurrent
<1>5. CASE AllocPort(c)
  <2>1. PICK l \in {"setPulling", "err"} :
           pc' = [pc EXCEPT ![c] = l] /\ (l = "err" => port'[c] = NoPort)
    BY <1>5 DEF AllocPort
  <2>2. \A b \in Calls \ {c} : port'[b] = port[b]
    BY <1>5 DEF AllocPort, TypeOK
  <2> QED
    BY <1>0, <1>5, <2>1, <2>2, ProgMove DEF AllocPort, Told, Returned
<1>6. CASE SetPulling(c) \/ SetStarting(c) \/ SetFailed(c)
  <2>1. PICK s \in States \ {"running"}, l \in {"pull", "start", "drop"} :
           /\ pc' = [pc EXCEPT ![c] = l] /\ setState(id[c], s)
           /\ l = "drop" => pc[c] \in Told
    BY <1>6 DEF SetPulling, SetStarting, SetFailed, States, Told
  <2>2. UNCHANGED <<op, obj, prog, port>>
    BY <1>6 DEF SetPulling, SetStarting, SetFailed
  <2>3. \A o \in Calls : state'[o] = "running" => state[o] = "running"
    BY <1>0, <2>1, SetStateOwn
  <2> QED
    BY <1>0, <1>2, <2>1, <2>2, <2>3, ProgMove DEF Told, Returned
<1>7. CASE Pull(c) \/ ClearStale(c) \/ Create(c)
  <2>1. UNCHANGED <<op, obj, state, port>>
    BY <1>7 DEF Pull, ClearStale, Create
  <2>2. PICK l \in {"clear", "create", "setCid", "setFailed"} :
           /\ pc' = [pc EXCEPT ![c] = l]
           /\ \/ l # "setFailed" /\ UNCHANGED prog
              \/ mark(obj[c], "failed")
    BY <1>7 DEF Pull, ClearStale, Create
  <2>3. /\ l = "setFailed" => prog'[obj[c]] # "open"
        /\ \A o \in Calls : prog[o] # "open" => prog'[o] # "open"
    BY <1>1, <2>2, MarkEnds
  <2> QED
    BY <1>0, <2>1, <2>2, <2>3, ProgMove DEF Told, Returned
<1>8. CASE SetContainerID(c)
  BY <1>0, <1>8, ProgMove DEF SetContainerID, Told, Returned
<1>9. CASE Start(c)
  <2>1. UNCHANGED <<op, obj, state, port>>
    BY <1>9 DEF Start
  <2>2. PICK l \in {"ready", "cleanup"} :
           /\ pc' = [pc EXCEPT ![c] = l]
           /\ \/ l = "cleanup" /\ UNCHANGED prog
              \/ mark(obj[c], "started")
    BY <1>9 DEF Start
  <2>3. /\ l = "ready" => prog'[obj[c]] # "open"
        /\ \A o \in Calls : prog[o] # "open" => prog'[o] # "open"
    BY <1>1, <2>2, MarkEnds
  <2> QED
    BY <1>0, <2>1, <2>2, <2>3, ProgMove DEF Told, Returned
<1>10. CASE WaitReady(c) \/ OllamaPullIfNeeded(c) \/ RemoveImage(c) \/ Publish(c)
  <2>1. PICK l \in {"ollama", "cleanup", "rmImage", "publish", "setRunning"} :
           pc' = [pc EXCEPT ![c] = l]
    BY <1>10 DEF WaitReady, OllamaPullIfNeeded, RemoveImage, Publish
  <2>2. pc[c] \in Told /\ UNCHANGED <<op, obj, prog, port, state>>
    BY <1>10 DEF WaitReady, OllamaPullIfNeeded, RemoveImage, Publish, Told
  <2> QED
    BY <1>0, <1>2, <2>1, <2>2, ProgMove
<1>11. CASE SetRunning(c)
  <2>1. \A o \in Calls : state'[o] = "running" => state[o] = "running" \/ o = obj[c]
    BY <1>0, <1>11, SetStateOwn DEF SetRunning
  <2>2. prog[obj[c]] # "open"
    BY <1>2, <1>11 DEF SetRunning, Told
  <2> QED
    BY <1>0, <1>11, <2>1, <2>2, ProgMove DEF SetRunning
<1>12. CASE Cleanup(c)
  <2>1. /\ prog'[obj[c]] # "open"
        /\ \A o \in Calls : prog[o] # "open" => prog'[o] # "open"
    BY <1>1, <1>12, MarkEnds DEF Cleanup
  <2> QED
    BY <1>0, <1>12, <2>1, ProgMove DEF Cleanup
<1>13. CASE DropFailed(c)
  BY <1>0, <1>2, <1>13, ProgMove DEF DropFailed, Told
<1>14. CASE LockUnload(c)
  <2>1. \A o \in Calls : state'[o] = "running" => state[o] = "running"
    BY <1>0, <1>14, SetStateOwn DEF LockUnload
  <2> QED
    BY <1>0, <1>14, <2>1, ProgMove DEF LockUnload, Told, Returned
<1>15. CASE StopContainer(c) \/ RemoveContainer(c) \/ DropUnloaded(c)
  <2>1. PICK l \in {"udrop", "remove", "err", "ok"} : pc' = [pc EXCEPT ![c] = l]
    BY <1>15 DEF StopContainer, RemoveContainer, DropUnloaded
  <2>2. op[c] = "unload" /\ UNCHANGED <<op, obj, prog, port, state>>
    BY <1>2, <1>15 DEF StopContainer, RemoveContainer, DropUnloaded, Unloading
  <2> QED
    BY <1>0, <2>1, <2>2, ProgMove DEF Told
<1> QED
  BY <1>3, <1>4, <1>5, <1>6, <1>7, <1>8, <1>9, <1>10, <1>11, <1>12, <1>13,
     <1>14, <1>15 DEF Step, LoadStep, UnloadStep

LEMMA ProgNext ==
    ASSUME TypeOK, PortInv, SerialInv, ProgInv, [Next]_vars
    PROVE  ProgInv'
<1>1. ASSUME NEW c \in Calls, NEW i \in Ids, NEW p \in FixedPorts \cup {NoPort},
             LoadModel(c, i, p)
      PROVE  ProgInv'
  BY <1>1 DEF LoadModel, Goto, TypeOK, ProgInv, LoadHasObject, RunningTold, LateTold,
              ProgressEnds, Told, Returned
<1>2. ASSUME NEW c \in Calls, NEW i \in Ids, UnloadModel(c, i) PROVE ProgInv'
  BY <1>2 DEF UnloadModel, Goto, TypeOK, ProgInv, LoadHasObject, RunningTold, LateTold,
              ProgressEnds, Told, Returned, table
<1>3. ASSUME UNCHANGED <<op, obj, state, prog, port>>,
             \A b \in Calls : pc'[b] \in {pc[b], "killed"}
      PROVE  ProgInv'
  BY <1>3 DEF ProgInv, LoadHasObject, RunningTold, LateTold, ProgressEnds, Told, Returned
<1>4. CASE Disconnect \/ (\E c \in Calls : ContainerExits(c)) \/ UNCHANGED vars
  BY <1>3, <1>4 DEF Disconnect, ContainerExits, vars, table, frame
<1>5. CASE Restart
  BY <1>3, <1>5 DEF Restart, frame
<1> QED
  BY <1>1, <1>2, <1>4, <1>5, ProgStep DEF Next

(* A LoadModel that has returned has ended the progress log of its          *)
(* deployment, with markContainerStarted or markFailed, unless it found no  *)
(* free port: for every number of commands, fault and restart.              *)
THEOREM ProgressLogsEnd ==
    ASSUME Sender = "serial"
    PROVE  Spec => []ProgressEnds
<1>1. TypeOK /\ PortInv /\ SerialInv /\ [Next]_vars => SerialInv'
  BY SerialNext
<1>2. TypeOK /\ PortInv /\ SerialInv /\ ProgInv /\ [Next]_vars => ProgInv'
  BY ProgNext
<1>3. ProgInv => ProgressEnds
  BY DEF ProgInv
<1> QED
  BY <1>1, <1>2, <1>3, TypeCorrect, PortInit, PortNext, SerialInit, ProgInit, PTL
  DEF Spec

=============================================================================
