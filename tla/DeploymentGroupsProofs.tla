----------------------- MODULE DeploymentGroupsProofs -----------------------
(* Proofs about DeploymentGroups, for every number of commands, deployments *)
(* and replicas, every set of faults and either sender.                     *)
EXTENDS DeploymentGroups, TLAPS

(* The loops of LoadDeploymentGroup, rollbackGroup and UnloadDeploymentGroup *)
(* stay within their slices, and commands name what they work on.            *)

Launching == {"alloc", "create", "start", "ready", "cleanup"}

LoopsInBounds ==
    \A c \in Calls :
        /\ pc[c] \in {"idle", "plan", "pull"} => launched[c] = 0
        /\ pc[c] \in Launching => launched[c] < Replicas
        /\ pc[c] \in {"idle"} \cup LoadLabels => undone[c] <= launched[c]
        /\ pc[c] \in {"rmImage", "publish"} => launched[c] = Replicas
        /\ pc[c] = "teardown" => target[c] \in Calls
        /\ pc[c] # "idle" => id[c] \in Ids

TypeInv == TypeOK /\ LoopsInBounds

LEMMA ReplicasPositive == Replicas \in Nat \ {0}
  BY ReplicaAssumption DEF Replicas

ContStates == {"none", "created", "running", "exited"}

LEMMA ExceptType ==
    ASSUME NEW S, NEW f \in [Calls -> S], NEW c \in Calls, NEW v \in S
    PROVE  [f EXCEPT ![c] = v] \in [Calls -> S]
  OBVIOUS

LEMMA SetContType ==
    ASSUME NEW g \in Calls, NEW s, NEW v \in ContStates,
           conts \in [Calls -> [Slots -> ContStates]], SetCont(g, s, v)
    PROVE  conts' \in [Calls -> [Slots -> ContStates]]
<1>1. conts' = [conts EXCEPT ![g] = [conts[g] EXCEPT ![s] = v]]
  BY DEF SetCont
<1>2. [conts[g] EXCEPT ![s] = v] \in [Slots -> ContStates]
  OBVIOUS
<1> QED
  BY <1>1, <1>2

LEMMA DiscardType ==
    ASSUME NEW g \in Calls, NEW s, NEW alive,
           conts \in [Calls -> [Slots -> ContStates]], lost \in SUBSET Calls,
           Discard(g, s, alive)
    PROVE  conts' \in [Calls -> [Slots -> ContStates]] /\ lost' \in SUBSET Calls
  BY SetContType DEF Discard, ContStates

LEMMA TypeInit == Init => TypeInv
<1> SUFFICES ASSUME Init PROVE TypeInv
  OBVIOUS
<1>1. restarts \in 0 .. MaxRestarts
  BY GroupEnvAssumption DEF Init
<1>2. image \in BOOLEAN
  BY DEF Init
<1>3. launched \in [Calls -> 0 .. Replicas] /\ undone \in [Calls -> 0 .. Replicas]
  BY ReplicasPositive DEF Init
<1>4. LoopsInBounds
  BY DEF Init, LoopsInBounds, Launching, LoadLabels
<1> QED
  BY <1>1, <1>2, <1>3, <1>4 DEF Init, TypeOK, TypeInv

LEMMA TypeNext == TypeInv /\ [Next]_vars => TypeInv'
<1> SUFFICES ASSUME TypeOK, LoopsInBounds, [Next]_vars PROVE TypeOK' /\ LoopsInBounds'
  BY DEF TypeInv
<1> USE ReplicasPositive
<1> USE DEF TypeOK, LoopsInBounds, Launching, LoadLabels, UnloadLabels, Terminal,
            Goto, docker, frame, env, loop, tables
<1>1. ASSUME NEW c \in Calls, NEW i \in Ids, LoadModel(c, i)
      PROVE  TypeOK' /\ LoopsInBounds'
  BY <1>1 DEF LoadModel
<1>2. ASSUME NEW c \in Calls, NEW i \in Ids, UnloadModel(c, i)
      PROVE  TypeOK' /\ LoopsInBounds'
  BY <1>2 DEF UnloadModel
<1>3. ASSUME NEW c \in Calls, LoadStep(c) PROVE TypeOK' /\ LoopsInBounds'
  <2>1. CASE BuildDeploymentPlan(c)
    BY <2>1 DEF BuildDeploymentPlan
  <2>2. CASE PullGroup(c)
    <3>1. image' \in BOOLEAN
      BY <2>2, Zenon DEF PullGroup
    <3> QED
      BY <2>2, <3>1 DEF PullGroup
  <2>3. CASE AllocPort(c)
    <3> DEFINE s == launched[c] + 1
               r == RoleOf(s)
    <3>1. r \in Roles /\ RangeOf(r) \subseteq PrefillPorts \cup DecodePorts
      BY DEF RoleOf, RangeOf, Roles
    <3>2. ASSUME NEW p \in FreePorts(r),
                 used' = [used EXCEPT ![r] = @ \cup {p}],
                 ports' = [ports EXCEPT ![c][s] = p]
          PROVE  /\ used' \in [Roles -> SUBSET (PrefillPorts \cup DecodePorts)]
                 /\ ports' \in [Calls -> [Slots -> PrefillPorts \cup DecodePorts \cup {NoPort}]]
      <4>1. p \in PrefillPorts \cup DecodePorts
        BY <3>1 DEF FreePorts
      <4>2. used' \in [Roles -> SUBSET (PrefillPorts \cup DecodePorts)]
        BY <3>1, <3>2, <4>1
      <4>3. ports' = [ports EXCEPT ![c] = [ports[c] EXCEPT ![s] = p]]
        BY <3>2
      <4>4. [ports[c] EXCEPT ![s] = p] \in [Slots -> PrefillPorts \cup DecodePorts \cup {NoPort}]
        BY <4>1
      <4> QED
        BY <4>2, <4>3, <4>4
    <3>3. /\ used' \in [Roles -> SUBSET (PrefillPorts \cup DecodePorts)]
          /\ ports' \in [Calls -> [Slots -> PrefillPorts \cup DecodePorts \cup {NoPort}]]
      BY <2>3, <3>2 DEF AllocPort
    <3>4. TypeOK'
      BY <2>3, <3>3 DEF AllocPort
    <3>5. LoopsInBounds'
      BY <2>3 DEF AllocPort
    <3> QED
      BY <3>4, <3>5
  <2>4. CASE CreateReplica(c)
    <3>1. conts' \in [Calls -> [Slots -> ContStates]]
      BY <2>4, SetContType DEF CreateReplica, ContStates
    <3> QED
      BY <2>4, <3>1 DEF CreateReplica, ContStates
  <2>5. CASE StartReplica(c)
    <3>1. conts' \in [Calls -> [Slots -> ContStates]]
      BY <2>5, SetContType DEF StartReplica, ContStates
    <3> QED
      BY <2>5, <3>1 DEF StartReplica, ContStates
  <2>6. CASE WaitReady(c)
    <3>1. pc[c] = "ready" /\ launched[c] + 1 \in 1 .. Replicas
      BY <2>6 DEF WaitReady
    <3>2. launched' \in [Calls -> 0 .. Replicas]
      <4>1. \/ launched' = launched
            \/ launched' = [launched EXCEPT ![c] = launched[c] + 1]
        BY <2>6 DEF WaitReady
      <4>2. launched \in [Calls -> 0 .. Replicas] /\ launched[c] + 1 \in 0 .. Replicas
        BY <3>1
      <4> HIDE DEF TypeOK, LoopsInBounds
      <4> QED
        BY <4>1, <4>2, ExceptType
    <3>3. pc' \in [Calls -> {"idle"} \cup LoadLabels \cup UnloadLabels \cup Terminal]
      BY <2>6 DEF WaitReady
    <3>4. TypeOK'
      BY <2>6, <3>2, <3>3 DEF WaitReady
    <3>5. /\ \A d \in Calls \ {c} : pc'[d] = pc[d] /\ launched'[d] = launched[d]
          /\ \/ pc'[c] = "cleanup" /\ launched'[c] = launched[c]
             \/ pc'[c] = "rmImage" /\ launched'[c] = Replicas
             \/ pc'[c] = "alloc" /\ launched'[c] = launched[c] + 1 /\ launched'[c] # Replicas
          /\ UNCHANGED <<undone, target, id>>
      BY <2>6, <3>1, <3>2 DEF WaitReady
    <3>6. LoopsInBounds'
      BY <3>1, <3>5
    <3> QED
      BY <3>4, <3>6
  <2>7. CASE CleanupReplica(c)
    <3>1. /\ conts' \in [Calls -> [Slots -> ContStates]]
          /\ lost' \in SUBSET Calls
      BY <2>7, DiscardType DEF CleanupReplica, ContStates
    <3> QED
      BY <2>7, <3>1 DEF CleanupReplica, ContStates
  <2>8. CASE Rollback(c)
    <3>1. /\ conts' \in [Calls -> [Slots -> ContStates]]
          /\ lost' \in SUBSET Calls
      BY <2>8, DiscardType DEF Rollback, ContStates
    <3>2. undone' \in [Calls -> 0 .. Replicas]
      <4>1. \/ undone' = undone
            \/ /\ undone[c] # launched[c]
               /\ undone' = [undone EXCEPT ![c] = undone[c] + 1]
        BY <2>8 DEF Rollback
      <4>2. /\ undone \in [Calls -> 0 .. Replicas]
            /\ undone[c] \in 0 .. launched[c] /\ launched[c] \in 0 .. Replicas
        BY <2>8 DEF Rollback
      <4> HIDE DEF TypeOK, LoopsInBounds
      <4>3. undone[c] # launched[c] => undone[c] + 1 \in 0 .. Replicas
        BY <4>2
      <4> QED
        BY <4>1, <4>2, <4>3, ExceptType
    <3>3. pc' \in [Calls -> {"idle"} \cup LoadLabels \cup UnloadLabels \cup Terminal]
      BY <2>8 DEF Rollback
    <3>4. TypeOK'
      BY <2>8, <3>1, <3>2, <3>3 DEF Rollback, ContStates
    <3>5. /\ \A d \in Calls \ {c} : pc'[d] = pc[d] /\ undone'[d] = undone[d]
          /\ pc'[c] \in {"rollback", "err"}
          /\ pc'[c] = "rollback" => undone'[c] <= launched[c]
          /\ pc[c] = "rollback" /\ UNCHANGED <<launched, target, id>>
      <4>1. undone[c] \in Nat /\ launched[c] \in Nat /\ undone[c] <= launched[c]
        BY <2>8 DEF Rollback
      <4>2. undone[c] # launched[c] => undone[c] + 1 <= launched[c]
        <5> HIDE DEF TypeOK, LoopsInBounds
        <5> QED
          BY <4>1
      <4>3. CASE undone[c] = launched[c]
        BY <2>8, <4>3 DEF Rollback
      <4>4. CASE undone[c] # launched[c]
        BY <2>8, <4>2, <4>4 DEF Rollback
      <4> QED
        BY <4>3, <4>4
    <3>6. LoopsInBounds'
      BY <3>5
    <3> QED
      BY <3>4, <3>6
  <2>9. CASE RemoveImage(c)
    <3>1. image' \in BOOLEAN
      BY <2>9, Zenon DEF RemoveImage
    <3> QED
      BY <2>9, <3>1 DEF RemoveImage
  <2>10. CASE PublishGroup(c)
    BY <2>10 DEF PublishGroup
  <2>11. CASE RegisterDisagg(c)
    BY <2>11 DEF RegisterDisagg
  <2> QED
    BY <1>3, <2>1, <2>2, <2>3, <2>4, <2>5, <2>6, <2>7, <2>8, <2>9, <2>10, <2>11
    DEF LoadStep
<1>4. ASSUME NEW c \in Calls, UnloadStep(c) PROVE TypeOK' /\ LoopsInBounds'
  <2>1. CASE ReleaseLeases(c)
    BY <2>1 DEF ReleaseLeases
  <2>2. CASE TakeGroup(c)
    <3>0. id[c] \in Ids /\ groups[id[c]] \in Calls \cup {Nil}
      BY <2>2 DEF TakeGroup
    <3>1. TypeOK'
      BY <2>2, <3>0 DEF TakeGroup
    <3>2. LoopsInBounds'
      BY <2>2, <3>0 DEF TakeGroup
    <3> QED
      BY <3>1, <3>2
  <2>3. CASE TeardownReplica(c)
    <3>1. /\ conts' \in [Calls -> [Slots -> ContStates]]
          /\ lost' \in SUBSET Calls
      BY <2>3, DiscardType DEF TeardownReplica, ContStates
    <3>2. undone' \in [Calls -> 0 .. Replicas]
      <4>1. \/ undone' = undone
            \/ /\ undone[c] # Replicas
               /\ undone' = [undone EXCEPT ![c] = undone[c] + 1]
        BY <2>3 DEF TeardownReplica
      <4>2. /\ undone \in [Calls -> 0 .. Replicas]
            /\ undone[c] \in 0 .. Replicas /\ launched[c] \in 0 .. Replicas
        BY <2>3 DEF TeardownReplica
      <4> HIDE DEF TypeOK, LoopsInBounds
      <4>3. undone[c] # Replicas => undone[c] + 1 \in 0 .. Replicas
        BY <4>2
      <4> QED
        BY <4>1, <4>2, <4>3, ExceptType
    <3>3. pc' \in [Calls -> {"idle"} \cup LoadLabels \cup UnloadLabels \cup Terminal]
      BY <2>3 DEF TeardownReplica
    <3>4. TypeOK'
      BY <2>3, <3>1, <3>2, <3>3 DEF TeardownReplica, ContStates
    <3>5. LoopsInBounds'
      BY <2>3, <3>2, <3>3 DEF TeardownReplica
    <3> QED
      BY <3>4, <3>5
  <2> QED
    BY <1>4, <2>1, <2>2, <2>3 DEF UnloadStep
<1>5. ASSUME NEW c \in Calls, NEW s \in Slots, ContainerExits(c, s)
      PROVE  TypeOK' /\ LoopsInBounds'
  <2>1. conts' \in [Calls -> [Slots -> ContStates]]
    BY <1>5, SetContType DEF ContainerExits, ContStates
  <2> QED
    BY <1>5, <2>1 DEF ContainerExits, ContStates
<1>6. CASE Disconnect
  BY <1>6 DEF Disconnect, InFlight
<1>7. CASE Restart
  BY <1>7, GroupEnvAssumption DEF Restart, InFlight
<1>8. CASE UNCHANGED vars
  BY <1>8 DEF vars
<1> QED
  BY <1>1, <1>2, <1>3, <1>4, <1>5, <1>6, <1>7, <1>8 DEF Next

(* The variables of DeploymentGroups keep their types: no loop over the      *)
(* replicas of a group leaves its slice, whatever fails and whoever else is  *)
(* at work.                                                                  *)
THEOREM GroupsTypeCorrect == Spec => []TypeOK
<1>1. TypeInv => TypeOK
  BY DEF TypeInv
<1> QED
  BY <1>1, TypeInit, TypeNext, PTL DEF Spec

-----------------------------------------------------------------------------
(* GroupIsWhole and NeverReplaced.  Docker gives a name to one container at   *)
(* a time, so of all the loads of one deployment at most one can hold a given *)
(* replica.  The inductive form says which replicas a load holds at each      *)
(* point, and that a group being torn down can never come back to the table.  *)

Published == {"register", "ok"}

NamesUnique ==
    \A b, c \in Calls, s \in Slots :
        b # c /\ id[b] = id[c] /\ Exists(b, s) => ~Exists(c, s)

HoldsLaunched ==
    \A c \in Calls, s \in Slots :
        /\ pc[c] = "idle" => ~Exists(c, s)
        /\ pc[c] \in Launching \cup {"rmImage", "publish"} /\ s <= launched[c]
              => Exists(c, s)
        /\ pc[c] = "start" /\ s = launched[c] + 1 => Exists(c, s)

InTable ==
    \A i \in Ids :
        groups[i] # Nil => /\ id[groups[i]] = i
                           /\ pc[groups[i]] \in Published
                           /\ \A s \in Slots : Exists(groups[i], s)

TornDownIsOut ==
    \A c \in Calls :
        pc[c] = "teardown" => /\ pc[target[c]] \in Published
                              /\ \A i \in Ids : groups[i] # target[c]

OwnInv == NamesUnique /\ HoldsLaunched /\ InTable /\ TornDownIsOut

LEMMA OwnInit == Init => OwnInv
  BY GroupEnvAssumption
  DEF Init, OwnInv, NamesUnique, HoldsLaunched, InTable, TornDownIsOut, Exists,
      Launching, Published

\* What a step does to the containers, when it touches the one of g in slot s.
Only(g, s) ==
    \A b \in Calls, t \in Slots :
        b # g \/ t # s => (Exists(b, t)' <=> Exists(b, t))

LEMMA SetContEffect ==
    ASSUME TypeOK, NEW g \in Calls, NEW s \in Slots, NEW v, SetCont(g, s, v)
    PROVE  Only(g, s) /\ (Exists(g, s)' <=> v # "none")
<1>1. conts' = [conts EXCEPT ![g] = [conts[g] EXCEPT ![s] = v]]
  BY DEF SetCont
<1>2. DOMAIN conts = Calls /\ \A b \in Calls : DOMAIN conts[b] = Slots
  BY DEF TypeOK
<1>3. conts'[g] = [conts[g] EXCEPT ![s] = v]
  BY <1>1, <1>2
<1>4. \A b \in Calls : b # g => conts'[b] = conts[b]
  BY <1>1, <1>2
<1>5. conts'[g][s] = v /\ \A t \in Slots : t # s => conts'[g][t] = conts[g][t]
  BY <1>2, <1>3
<1> QED
  BY <1>4, <1>5 DEF Only, Exists

LEMMA DiscardEffect ==
    ASSUME TypeOK, NEW g \in Calls, NEW s \in Slots, NEW alive, Discard(g, s, alive)
    PROVE  Only(g, s) /\ (Exists(g, s)' => Exists(g, s))
<1>1. CASE UNCHANGED conts
  BY <1>1 DEF Only, Exists
<1>2. CASE SetCont(g, s, "none")
  BY <1>2, SetContEffect
<1>3. CASE conts[g][s] = "running" /\ SetCont(g, s, "exited")
  BY <1>3, SetContEffect DEF Exists
<1> QED
  BY <1>1, <1>2, <1>3 DEF Discard

\* Steps that move one command along and leave the tables and containers alone.
LEMMA OwnMove ==
    ASSUME TypeInv, OwnInv, NEW c \in Calls, NEW l,
           pc' = [pc EXCEPT ![c] = l],
           UNCHANGED <<groups, conts, id, target>>,
           \A d \in Calls \ {c} : launched'[d] = launched[d],
           pc[c] # "idle", l \notin {"idle", "teardown", "start"},
           pc[c] \in Published => l \in Published,
           l \in Launching \cup {"rmImage", "publish"} =>
              \/ /\ pc[c] \in Launching \cup {"rmImage", "publish"}
                 /\ launched'[c] = launched[c]
              \/ /\ launched'[c] = launched[c] + 1
                 /\ pc[c] \in Launching
                 /\ Exists(c, launched[c] + 1)
              \/ launched'[c] = 0
    PROVE  OwnInv'
<1> USE DEF OwnInv
<1>1. /\ pc'[c] = l
      /\ \A d \in Calls \ {c} : pc'[d] = pc[d]
  BY DEF TypeInv, TypeOK
<1>2. \A b \in Calls, s \in Slots : Exists(b, s)' <=> Exists(b, s)
  BY DEF Exists
<1>3. NamesUnique'
  BY <1>2 DEF NamesUnique
<1>4. launched[c] \in Nat /\ \A s \in Slots : s \in Nat \ {0}
  BY ReplicasPositive DEF TypeInv, TypeOK, Slots
<1>5. HoldsLaunched'
  BY <1>1, <1>2, <1>4 DEF HoldsLaunched, Launching
<1>6. InTable'
  <2>1. \A i \in Ids : groups[i] \in Calls \cup {Nil}
    BY DEF TypeInv, TypeOK
  <2> QED
    BY <1>1, <1>2, <2>1 DEF InTable
<1>7. TornDownIsOut'
  <2>1. \A d \in Calls : pc[d] = "teardown" => target[d] \in Calls
    BY DEF TypeInv, LoopsInBounds
  <2> QED
    BY <1>1, <2>1 DEF TornDownIsOut
<1> QED
  BY <1>3, <1>5, <1>6, <1>7

\* A command arrives: its call owned nothing before.
LEMMA OwnArrive ==
    ASSUME TypeInv, OwnInv, NEW c \in Calls, NEW i \in Ids, NEW l,
           pc[c] = "idle", id' = [id EXCEPT ![c] = i], pc' = [pc EXCEPT ![c] = l],
           l \in {"plan", "err", "release"},
           UNCHANGED <<groups, conts, launched, target>>
    PROVE  OwnInv'
<1> USE DEF OwnInv
<1>1. /\ pc'[c] = l /\ id'[c] = i
      /\ \A d \in Calls \ {c} : pc'[d] = pc[d] /\ id'[d] = id[d]
  BY DEF TypeInv, TypeOK
<1>2. \A b \in Calls, s \in Slots : Exists(b, s)' <=> Exists(b, s)
  BY DEF Exists
<1>3. \A s \in Slots : ~Exists(c, s)
  BY DEF HoldsLaunched
<1>4. NamesUnique'
  BY <1>1, <1>2, <1>3 DEF NamesUnique
<1>5. HoldsLaunched'
  BY <1>1, <1>2 DEF HoldsLaunched, Launching
<1>6. InTable'
  <2>1. \A j \in Ids : groups[j] \in Calls \cup {Nil}
    BY DEF TypeInv, TypeOK
  <2> QED
    BY <1>1, <1>2, <2>1 DEF InTable, Published
<1>7. TornDownIsOut'
  <2>1. \A d \in Calls : pc[d] = "teardown" => target[d] \in Calls
    BY DEF TypeInv, LoopsInBounds
  <2> QED
    BY <1>1, <2>1 DEF TornDownIsOut, Published
<1> QED
  BY <1>4, <1>5, <1>6, <1>7

\* A step that gives the container of g in slot s up, or leaves it alone.
LEMMA OwnShed ==
    ASSUME TypeInv, OwnInv, NEW c \in Calls, NEW g \in Calls, NEW s \in Slots, NEW l,
           Only(g, s), Exists(g, s)' => Exists(g, s),
           pc' = [pc EXCEPT ![c] = l],
           UNCHANGED <<groups, id, target, launched>>,
           pc[c] \notin {"idle"} \cup Published,
           l \in {"rollback", "ok", "err"} \/ (l = pc[c] /\ l = "teardown"),
           pc'[g] \notin Launching \cup {"rmImage", "publish"},
           \A i \in Ids : groups[i] # g
    PROVE  OwnInv'
<1> USE DEF OwnInv
<1>1. /\ pc'[c] = l
      /\ \A d \in Calls \ {c} : pc'[d] = pc[d]
  BY DEF TypeInv, TypeOK
<1>2. \A b \in Calls, t \in Slots : Exists(b, t)' => Exists(b, t)
  BY DEF Only
<1>3. \A b \in Calls \ {g}, t \in Slots : Exists(b, t)' <=> Exists(b, t)
  BY DEF Only
<1>4. NamesUnique'
  BY <1>2 DEF NamesUnique
<1>5. HoldsLaunched'
  BY <1>1, <1>2, <1>3 DEF HoldsLaunched, Launching
<1>6. InTable'
  <2>1. \A j \in Ids : groups[j] \in Calls \cup {Nil}
    BY DEF TypeInv, TypeOK
  <2> QED
    BY <1>1, <1>3, <2>1 DEF InTable, Published
<1>7. TornDownIsOut'
  <2>1. \A d \in Calls : pc[d] = "teardown" => target[d] \in Calls
    BY DEF TypeInv, LoopsInBounds
  <2> QED
    BY <1>1, <2>1 DEF TornDownIsOut, Published
<1> QED
  BY <1>4, <1>5, <1>6, <1>7

\* A load that keeps what it holds and goes on.
LEMMA OwnKeep ==
    ASSUME TypeInv, OwnInv, NEW c \in Calls, NEW l \in {"ready", "cleanup"},
           \A b \in Calls, t \in Slots : Exists(b, t)' <=> Exists(b, t),
           pc' = [pc EXCEPT ![c] = l], pc[c] = "start",
           UNCHANGED <<groups, id, target, launched>>
    PROVE  OwnInv'
<1> USE DEF OwnInv
<1>1. pc'[c] = l /\ \A d \in Calls \ {c} : pc'[d] = pc[d]
  BY DEF TypeInv, TypeOK
<1>2. NamesUnique'
  BY DEF NamesUnique
<1>3. HoldsLaunched'
  BY <1>1 DEF HoldsLaunched, Launching
<1>4. InTable'
  <2>1. \A j \in Ids : groups[j] \in Calls \cup {Nil}
    BY DEF TypeInv, TypeOK
  <2> QED
    BY <1>1, <2>1 DEF InTable, Published
<1>5. TornDownIsOut'
  <2>1. \A d \in Calls : pc[d] = "teardown" => target[d] \in Calls
    BY DEF TypeInv, LoopsInBounds
  <2> QED
    BY <1>1, <2>1 DEF TornDownIsOut, Published
<1> QED
  BY <1>2, <1>3, <1>4, <1>5

\* A load that creates its next replica, whose name was free.
LEMMA OwnGain ==
    ASSUME TypeInv, OwnInv, NEW c \in Calls, NEW l \in {"start", "rollback"},
           NEW s \in Slots, s = launched[c] + 1,
           Only(c, s), Exists(c, s)',
           \A b \in Calls \ {c} : id[b] = id[c] => ~Exists(b, s),
           pc' = [pc EXCEPT ![c] = l], pc[c] = "create",
           UNCHANGED <<groups, id, target, launched>>
    PROVE  OwnInv'
<1> USE DEF OwnInv
<1>1. pc'[c] = l /\ \A d \in Calls \ {c} : pc'[d] = pc[d]
  BY DEF TypeInv, TypeOK
<1>2. \A b \in Calls, t \in Slots : Exists(b, t) => Exists(b, t)'
  BY DEF Only
<1>3. \A b \in Calls, t \in Slots : Exists(b, t)' => Exists(b, t) \/ (b = c /\ t = s)
  BY DEF Only
<1>4. NamesUnique'
  BY <1>3 DEF NamesUnique
<1>5. HoldsLaunched'
  BY <1>1, <1>2, <1>3 DEF HoldsLaunched, Launching
<1>6. InTable'
  <2>1. \A j \in Ids : groups[j] \in Calls \cup {Nil}
    BY DEF TypeInv, TypeOK
  <2> QED
    BY <1>1, <1>2, <2>1 DEF InTable, Published
<1>7. TornDownIsOut'
  <2>1. \A d \in Calls : pc[d] = "teardown" => target[d] \in Calls
    BY DEF TypeInv, LoopsInBounds
  <2> QED
    BY <1>1, <2>1 DEF TornDownIsOut, Published
<1> QED
  BY <1>4, <1>5, <1>6, <1>7

\* The group a load publishes finds the table entry of its deployment empty:
\* the one in it would hold the same container names.
LEMMA PublishFindsNone ==
    ASSUME TypeInv, OwnInv, NEW c \in Calls, PublishGroup(c)
    PROVE  groups[id[c]] = Nil
<1>1. /\ pc[c] = "publish" /\ id[c] \in Ids /\ launched[c] = Replicas
      /\ groups[id[c]] \in Calls \cup {Nil}
  BY DEF PublishGroup, TypeInv, TypeOK, LoopsInBounds
<1>2. 1 \in Slots /\ 1 <= launched[c]
  BY <1>1, ReplicasPositive DEF Slots
<1>3. Exists(c, 1)
  BY <1>1, <1>2 DEF OwnInv, HoldsLaunched
<1>4. SUFFICES ASSUME groups[id[c]] # Nil PROVE FALSE
  OBVIOUS
<1>5. /\ id[groups[id[c]]] = id[c] /\ Exists(groups[id[c]], 1)
      /\ groups[id[c]] # c
  BY <1>1, <1>2, <1>4 DEF OwnInv, InTable, Published
<1> QED
  BY <1>1, <1>2, <1>3, <1>4, <1>5 DEF OwnInv, NamesUnique

LEMMA OwnNext == TypeInv /\ OwnInv /\ [Next]_vars => OwnInv'
<1> SUFFICES ASSUME TypeInv, OwnInv, [Next]_vars PROVE OwnInv'
  OBVIOUS
<1> USE DEF Goto, docker, frame, env, loop, tables
<1>0. /\ DOMAIN pc = Calls /\ TypeOK
      /\ \A c \in Calls : launched[c] \in Nat
      /\ \A j \in Ids : groups[j] \in Calls \cup {Nil}
  BY ReplicasPositive DEF TypeInv, TypeOK
<1>1. ASSUME NEW c \in Calls, NEW i \in Ids, LoadModel(c, i) PROVE OwnInv'
  BY <1>1, OwnArrive DEF LoadModel
<1>2. ASSUME NEW c \in Calls, NEW i \in Ids, UnloadModel(c, i) PROVE OwnInv'
  BY <1>2, OwnArrive DEF UnloadModel
<1>3. ASSUME NEW c \in Calls, LoadStep(c) PROVE OwnInv'
  <2>0. /\ pc[c] \in Launching => launched[c] + 1 \in Slots
        /\ pc[c] \in Launching \cup {"rollback"} => \A i \in Ids : groups[i] # c
        /\ pc[c] = "pull" => launched[c] = 0
    <3>1. pc[c] \in Launching => launched[c] < Replicas
      BY DEF TypeInv, LoopsInBounds
    <3>2. pc[c] \in Launching => launched[c] + 1 \in Slots
      BY <1>0, <3>1, ReplicasPositive DEF Slots
    <3>3. pc[c] \notin Published => \A i \in Ids : groups[i] # c
      BY GroupEnvAssumption DEF OwnInv, InTable
    <3>4. pc[c] = "pull" => launched[c] = 0
      BY DEF TypeInv, LoopsInBounds
    <3> QED
      BY <3>2, <3>3, <3>4 DEF Published, Launching
  <2>1. CASE BuildDeploymentPlan(c)
    BY <2>1, OwnMove DEF BuildDeploymentPlan, Launching, Published
  <2>2. CASE PullGroup(c)
    BY <2>0, <2>2, OwnMove DEF PullGroup, Launching, Published
  <2>3. CASE AllocPort(c)
    BY <2>3, OwnMove DEF AllocPort, Launching, Published
  <2>4. CASE CreateReplica(c)
    <3>0. pc[c] = "create" /\ \A i \in Ids : groups[i] # c
      BY <2>0, <2>4 DEF CreateReplica, Launching
    <3>1. PICK s \in Slots : s = launched[c] + 1
      BY <2>0, <3>0 DEF Launching
    <3>2. CASE UNCHANGED conts /\ Goto(c, "rollback")
      BY <2>4, <3>2, OwnMove DEF CreateReplica, Launching, Published
    <3>3. CASE SetCont(c, s, "created") /\ ~NameTaken(id[c], s)
      <4>1. Only(c, s) /\ Exists(c, s)'
        BY <1>0, <3>1, <3>3, SetContEffect
      <4>2. \A b \in Calls \ {c} : id[b] = id[c] => ~Exists(b, s)
        BY <3>3 DEF NameTaken, Exists
      <4>3. PICK l \in {"start", "rollback"} : pc' = [pc EXCEPT ![c] = l]
        BY <2>4 DEF CreateReplica
      <4>4. UNCHANGED <<groups, id, target, launched>>
        BY <2>4 DEF CreateReplica
      <4> QED
        BY <3>0, <3>1, <4>1, <4>2, <4>3, <4>4, OwnGain DEF Launching, Published
    <3> QED
      BY <2>4, <3>1, <3>2, <3>3 DEF CreateReplica
  <2>5. CASE StartReplica(c)
    <3>0. pc[c] = "start"
      BY <2>5 DEF StartReplica
    <3>1. PICK s \in Slots : s = launched[c] + 1
      BY <2>0, <3>0 DEF Launching
    <3>2. Exists(c, s)
      BY <3>0, <3>1 DEF OwnInv, HoldsLaunched
    <3>3. \A b \in Calls, t \in Slots : Exists(b, t)' <=> Exists(b, t)
      <4>1. CASE UNCHANGED conts
        BY <4>1 DEF Exists
      <4>2. CASE SetCont(c, s, "running")
        BY <1>0, <3>1, <3>2, <4>2, SetContEffect DEF Only
      <4> QED
        BY <2>5, <3>1, <4>1, <4>2 DEF StartReplica
    <3>4. PICK l \in {"ready", "cleanup"} : pc' = [pc EXCEPT ![c] = l]
      BY <2>5 DEF StartReplica
    <3>5. UNCHANGED <<groups, id, target, launched>>
      BY <2>5 DEF StartReplica
    <3> QED
      BY <3>0, <3>3, <3>4, <3>5, OwnKeep DEF Launching, Published
  <2>6. CASE WaitReady(c)
    <3>1. CASE UNCHANGED launched
      BY <2>6, <3>1, OwnMove DEF WaitReady, Launching, Published
    <3>2. CASE conts[c][launched[c] + 1] = "running"
               /\ launched' = [launched EXCEPT ![c] = launched[c] + 1]
      <4>1. /\ launched'[c] = launched[c] + 1
            /\ \A d \in Calls \ {c} : launched'[d] = launched[d]
            /\ Exists(c, launched[c] + 1)
        BY <1>0, <3>2 DEF Exists, TypeOK
      <4> QED
        BY <2>6, <4>1, OwnMove DEF WaitReady, Launching, Published
    <3> QED
      BY <2>6, <3>1, <3>2 DEF WaitReady
  <2>7. CASE CleanupReplica(c)
    <3>1. launched[c] + 1 \in Slots /\ \A i \in Ids : groups[i] # c
      BY <2>0, <2>7 DEF CleanupReplica, Launching
    <3>2. /\ Only(c, launched[c] + 1)
          /\ Exists(c, launched[c] + 1)' => Exists(c, launched[c] + 1)
      BY <1>0, <2>7, <3>1, DiscardEffect DEF CleanupReplica
    <3>3. pc'[c] = "rollback"
      BY <1>0, <2>7 DEF CleanupReplica
    <3> QED
      BY <2>7, <3>1, <3>2, <3>3, OwnShed DEF CleanupReplica, Launching, Published
  <2>8. CASE Rollback(c)
    <3>1. CASE undone[c] = launched[c]
      BY <2>8, <3>1, OwnMove DEF Rollback, Launching, Published
    <3>2. CASE undone[c] # launched[c]
      <4>1. PICK s \in Slots : s = undone[c] + 1
        <5>1. /\ undone[c] \in Nat /\ undone[c] <= launched[c]
              /\ launched[c] <= Replicas
          BY <2>8, ReplicasPositive DEF Rollback, TypeInv, TypeOK, LoopsInBounds, LoadLabels
        <5> QED
          BY <1>0, <3>2, <5>1, ReplicasPositive DEF Slots
      <4>2. Only(c, s) /\ (Exists(c, s)' => Exists(c, s))
        BY <1>0, <2>8, <3>2, <4>1, DiscardEffect DEF Rollback
      <4>3. /\ pc[c] = "rollback" /\ \A i \in Ids : groups[i] # c
            /\ pc' = [pc EXCEPT ![c] = "rollback"] /\ pc'[c] = "rollback"
        BY <1>0, <2>0, <2>8, <3>2 DEF Rollback, TypeOK
      <4> QED
        BY <2>8, <4>1, <4>2, <4>3, OwnShed DEF Rollback, Launching, Published
    <3> QED
      BY <3>1, <3>2
  <2>9. CASE RemoveImage(c)
    BY <2>9, OwnMove DEF RemoveImage, Launching, Published
  <2>10. CASE PublishGroup(c)
    <3> USE DEF OwnInv
    <3>1. /\ pc[c] = "publish" /\ id[c] \in Ids /\ launched[c] = Replicas
          /\ pc'[c] = "register" /\ \A d \in Calls \ {c} : pc'[d] = pc[d]
          /\ groups'[id[c]] = c /\ \A j \in Ids \ {id[c]} : groups'[j] = groups[j]
          /\ UNCHANGED <<conts, id, launched, target>>
      BY <2>10 DEF PublishGroup, TypeInv, TypeOK, LoopsInBounds
    <3>2. \A b \in Calls, s \in Slots : Exists(b, s)' <=> Exists(b, s)
      BY <3>1 DEF Exists
    <3>3. \A s \in Slots : Exists(c, s)
      BY <3>1, ReplicasPositive DEF HoldsLaunched, Slots
    <3>4. NamesUnique'
      BY <3>1, <3>2 DEF NamesUnique
    <3>5. HoldsLaunched'
      BY <3>1, <3>2 DEF HoldsLaunched, Launching
    <3>6. InTable'
      BY <1>0, <3>1, <3>2, <3>3 DEF InTable, Published
    <3>7. TornDownIsOut'
      <4>1. \A d \in Calls : pc[d] = "teardown" => target[d] \in Calls
        BY DEF TypeInv, LoopsInBounds
      <4> QED
        BY <3>1, <4>1 DEF TornDownIsOut, Published
    <3> QED
      BY <3>4, <3>5, <3>6, <3>7
  <2>11. CASE RegisterDisagg(c)
    BY <2>11, OwnMove DEF RegisterDisagg, Launching, Published
  <2> QED
    BY <1>3, <2>1, <2>2, <2>3, <2>4, <2>5, <2>6, <2>7, <2>8, <2>9, <2>10, <2>11
    DEF LoadStep
<1>4. ASSUME NEW c \in Calls, UnloadStep(c) PROVE OwnInv'
  <2>1. CASE ReleaseLeases(c)
    BY <2>1, OwnMove DEF ReleaseLeases, Launching, Published
  <2>2. CASE TakeGroup(c)
    <3> USE DEF OwnInv
    <3> DEFINE g == groups[id[c]]
    <3>1. /\ pc[c] = "take" /\ id[c] \in Ids
          /\ pc'[c] = (IF g = Nil THEN "ok" ELSE "teardown")
          /\ \A d \in Calls \ {c} : pc'[d] = pc[d] /\ target'[d] = target[d]
          /\ target'[c] = g
          /\ groups'[id[c]] = Nil /\ \A j \in Ids \ {id[c]} : groups'[j] = groups[j]
          /\ UNCHANGED <<conts, id, launched>>
      BY <2>2 DEF TakeGroup, TypeInv, TypeOK, LoopsInBounds
    <3>2. \A b \in Calls, s \in Slots : Exists(b, s)' <=> Exists(b, s)
      BY <3>1 DEF Exists
    <3>3. NamesUnique'
      BY <3>1, <3>2 DEF NamesUnique
    <3>4. HoldsLaunched'
      BY <3>1, <3>2 DEF HoldsLaunched, Launching
    <3>5. InTable'
      BY <1>0, <3>1, <3>2 DEF InTable, Published
    <3>6. TornDownIsOut'
      <4>1. \A d \in Calls : pc[d] = "teardown" => target[d] \in Calls
        BY DEF TypeInv, LoopsInBounds
      <4>2. \A d \in Calls \ {c} :
               pc'[d] = "teardown" => /\ pc'[target'[d]] \in Published
                                      /\ \A j \in Ids : groups'[j] # target'[d]
        BY <3>1, <4>1, GroupEnvAssumption DEF TornDownIsOut, Published
      <4>3. g # Nil => /\ g \in Calls /\ g # c /\ id[g] = id[c]
                       /\ pc[g] \in Published
        BY <1>0, <3>1 DEF InTable, Published
      <4>4. g # Nil => \A j \in Ids : groups'[j] # g
        BY <1>0, <3>1, <4>3, GroupEnvAssumption DEF InTable
      <4> QED
        BY <3>1, <4>2, <4>3, <4>4 DEF TornDownIsOut
    <3> QED
      BY <3>3, <3>4, <3>5, <3>6
  <2>3. CASE TeardownReplica(c)
    <3>1. CASE undone[c] = Replicas
      BY <2>3, <3>1, OwnMove DEF TeardownReplica, Launching, Published
    <3>2. CASE undone[c] # Replicas
      <4>1. PICK s \in Slots : s = undone[c] + 1
        <5>1. undone[c] \in 0 .. Replicas
          BY DEF TypeInv, TypeOK
        <5> QED
          BY <3>2, <5>1, ReplicasPositive DEF Slots
      <4>2. PICK g \in Calls :
              /\ g = target[c] /\ pc[c] = "teardown"
              /\ pc[g] \in Published /\ \A i \in Ids : groups[i] # g
              /\ pc' = [pc EXCEPT ![c] = "teardown"] /\ pc'[g] = pc[g]
        BY <1>0, <2>3, <3>2
        DEF TeardownReplica, TypeInv, TypeOK, LoopsInBounds, OwnInv, TornDownIsOut
      <4>3. Only(g, s) /\ (Exists(g, s)' => Exists(g, s))
        BY <1>0, <2>3, <3>2, <4>1, <4>2, DiscardEffect DEF TeardownReplica
      <4> QED
        BY <2>3, <4>1, <4>2, <4>3, OwnShed DEF TeardownReplica, Launching, Published
    <3> QED
      BY <3>1, <3>2
  <2> QED
    BY <1>4, <2>1, <2>2, <2>3 DEF UnloadStep
<1>5. ASSUME NEW c \in Calls, NEW s \in Slots, ContainerExits(c, s) PROVE OwnInv'
  <2>1. \A b \in Calls, t \in Slots : Exists(b, t)' <=> Exists(b, t)
    BY <1>0, <1>5, SetContEffect DEF ContainerExits, Only, Exists
  <2>2. UNCHANGED <<groups, pc, id, target, launched>>
    BY <1>5 DEF ContainerExits
  <2> QED
    BY <1>0, <2>1, <2>2 DEF OwnInv, NamesUnique, HoldsLaunched, InTable,
                      TornDownIsOut
<1>6. CASE Disconnect
  BY <1>6 DEF Disconnect, OwnInv, NamesUnique, HoldsLaunched, InTable,
              TornDownIsOut, Exists
<1>7. CASE Restart
  <2>1. \A d \in Calls : /\ pc'[d] = pc[d] \/ pc'[d] = "killed"
                         /\ pc'[d] \notin Launching \cup {"rmImage", "publish", "teardown"}
    BY <1>7 DEF Restart, InFlight, Launching, LoadLabels, UnloadLabels
  <2> QED
    BY <1>7, <2>1 DEF Restart, OwnInv, NamesUnique, HoldsLaunched, InTable,
                      TornDownIsOut, Exists, Launching
<1>8. CASE UNCHANGED vars
  BY <1>8 DEF vars, OwnInv, NamesUnique, HoldsLaunched, InTable, TornDownIsOut,
              Exists
<1> QED
  BY <1>1, <1>2, <1>3, <1>4, <1>5, <1>6, <1>7, <1>8 DEF Next

(* No overlap of commands and no failure leaves a group in Runtime.groups    *)
(* that has lost a container to the worker: publishing comes last in a load  *)
(* and withdrawing first in an unload.                                       *)
THEOREM GroupsStayWhole == Spec => []GroupIsWhole
<1>1. TypeInv /\ OwnInv => GroupIsWhole
  BY DEF OwnInv, InTable, GroupIsWhole
<1> QED
  BY <1>1, TypeInit, TypeNext, OwnInit, OwnNext, PTL DEF Spec

(* LoadDeploymentGroup never overwrites the entry of another load in         *)
(* Runtime.groups, though it holds no lock and does not look.                *)
THEOREM GroupsAreNeverReplaced == Spec => NeverReplaced
<1>1. TypeInv /\ OwnInv /\ [Next]_vars =>
         [\A i \in Ids : groups[i] # Nil => groups'[i] \in {groups[i], Nil}]_vars
  <2> SUFFICES ASSUME TypeInv, OwnInv, Next, NEW i \in Ids, groups[i] # Nil
               PROVE  groups'[i] \in {groups[i], Nil}
    OBVIOUS
  <2> USE DEF tables
  <2>1. CASE \E c \in Calls : PublishGroup(c)
    <3>1. PICK c \in Calls : PublishGroup(c)
      BY <2>1
    <3>2. i # id[c]
      BY <3>1, PublishFindsNone
    <3> QED
      BY <3>1, <3>2 DEF PublishGroup, TypeInv, TypeOK
  <2>2. CASE \E c \in Calls : TakeGroup(c)
    BY <2>2 DEF TakeGroup, TypeInv, TypeOK
  <2>3. CASE Restart
    BY <2>3 DEF Restart
  <2>4. CASE UNCHANGED groups
    BY <2>4
  <2> QED
    BY <2>1, <2>2, <2>3, <2>4
    DEF Next, LoadStep, UnloadStep, LoadModel, UnloadModel, BuildDeploymentPlan,
        PullGroup, AllocPort, CreateReplica, StartReplica, WaitReady,
        CleanupReplica, Rollback, RemoveImage, RegisterDisagg, ReleaseLeases,
        TeardownReplica, ContainerExits, Disconnect
<1> QED
  BY <1>1, TypeInit, TypeNext, OwnInit, OwnNext, PTL DEF Spec, NeverReplaced

-----------------------------------------------------------------------------
(* RolledBack.  A failed load has nothing left because at every point of      *)
(* LoadDeploymentGroup the containers it may own are known: those launched,   *)
(* the one being launched, and in a rollback those the loop has not reached.  *)
(* A load whose ctx was cancelled, or of which docker kept a container, is    *)
(* excused from that point on.                                                *)

BeforeRollback == {"idle", "plan", "pull"} \cup Launching

MayOwn(c, s) ==
    /\ pc[c] \notin {"idle", "plan", "pull", "err"}
    /\ pc[c] \in {"alloc", "create"} => s <= launched[c]
    /\ pc[c] \in {"start", "ready", "cleanup"} => s <= launched[c] + 1
    /\ pc[c] = "rollback" => undone[c] < s /\ s <= launched[c]

Excused(c) == ~Live(c) \/ c \in lost

OwnsOnly ==
    \A c \in Calls :
        ~Excused(c) => \A s \in Slots : Exists(c, s) => MayOwn(c, s)

UndoneNothing ==
    \A c \in Calls : pc[c] \in BeforeRollback => undone[c] = 0

ClearInv == OwnsOnly /\ UndoneNothing

LEMMA ClearInit == Init => ClearInv
  BY DEF Init, ClearInv, OwnsOnly, UndoneNothing, Exists, BeforeRollback

\* A step of command c, for the others: it creates nothing of theirs, moves
\* none of them and excuses what was excused.
ClearOthers(c) ==
    /\ \A b \in Calls \ {c} :
          /\ pc'[b] = pc[b] /\ launched'[b] = launched[b] /\ undone'[b] = undone[b]
          /\ \A s \in Slots : Exists(b, s)' => Exists(b, s)
    /\ cancelled \subseteq cancelled' /\ lost \subseteq lost'

LEMMA ClearStep ==
    ASSUME ClearInv, NEW c \in Calls, ClearOthers(c),
           Excused(c)' \/ \A s \in Slots : Exists(c, s)' => MayOwn(c, s)',
           pc'[c] \in BeforeRollback => undone'[c] = 0
    PROVE  ClearInv'
<1>1. OwnsOnly'
  <2> SUFFICES ASSUME NEW b \in Calls, ~Excused(b)', NEW s \in Slots, Exists(b, s)'
               PROVE  MayOwn(b, s)'
    BY DEF OwnsOnly
  <2>1. CASE b = c
    BY <2>1
  <2>2. CASE b # c
    <3>1. /\ pc'[b] = pc[b] /\ launched'[b] = launched[b] /\ undone'[b] = undone[b]
          /\ Exists(b, s) /\ ~Excused(b)
      BY <2>2 DEF ClearOthers, Excused, Live
    <3>2. MayOwn(b, s)
      BY <3>1 DEF ClearInv, OwnsOnly
    <3> QED
      BY <3>1, <3>2 DEF MayOwn
  <2> QED
    BY <2>1, <2>2
<1>2. UndoneNothing'
  BY DEF ClearInv, UndoneNothing, ClearOthers
<1> QED
  BY <1>1, <1>2 DEF ClearInv

\* Stop and Remove on a live ctx leave no container, or docker refused.
LEMMA DiscardClears ==
    ASSUME TypeOK, NEW g \in Calls, NEW s \in Slots, Discard(g, s, TRUE)
    PROVE  /\ lost \subseteq lost'
           /\ g \in lost' \/ ~Exists(g, s)'
  BY SetContEffect DEF Discard

\* Steps that leave every container alone, or only run or exit one.
LEMMA ClearMove ==
    ASSUME TypeInv, ClearInv, NEW c \in Calls, NEW l,
           pc' = [pc EXCEPT ![c] = l], UNCHANGED <<launched, undone, cancelled, lost>>,
           \A b \in Calls, s \in Slots : Exists(b, s)' => Exists(b, s),
           l \in BeforeRollback => pc[c] \in BeforeRollback,
           \A s \in Slots : Exists(c, s) /\ MayOwn(c, s) /\ ~Excused(c) => MayOwn(c, s)'
    PROVE  ClearInv'
<1>1. pc'[c] = l /\ \A b \in Calls \ {c} : pc'[b] = pc[b]
  BY DEF TypeInv, TypeOK
<1>2. ClearOthers(c)
  BY <1>1 DEF ClearOthers
<1>3. Excused(c)' \/ \A s \in Slots : Exists(c, s)' => MayOwn(c, s)'
  BY DEF ClearInv, OwnsOnly, Excused, Live
<1>4. pc'[c] \in BeforeRollback => undone'[c] = 0
  BY <1>1 DEF ClearInv, UndoneNothing
<1> QED
  BY <1>2, <1>3, <1>4, ClearStep

LEMMA ClearNext == TypeInv /\ OwnInv /\ ClearInv /\ [Next]_vars => ClearInv'
<1> SUFFICES ASSUME TypeInv, OwnInv, ClearInv, [Next]_vars PROVE ClearInv'
  OBVIOUS
<1> USE DEF Goto, docker, frame, env, loop, tables
<1>0. /\ DOMAIN pc = Calls /\ TypeOK
      /\ \A c \in Calls : launched[c] \in Nat /\ undone[c] \in Nat
      /\ \A s \in Slots : s \in Nat \ {0}
  BY ReplicasPositive DEF TypeInv, TypeOK, Slots
<1>k. UNCHANGED conts => \A b \in Calls, t \in Slots : Exists(b, t)' => Exists(b, t)
  BY DEF Exists
<1>1. ASSUME NEW c \in Calls, NEW i \in Ids, LoadModel(c, i) \/ UnloadModel(c, i)
      PROVE  ClearInv'
  <2>1. /\ pc[c] = "idle" /\ UNCHANGED <<conts, launched, undone, cancelled, lost>>
        /\ \E l \in {"plan", "err", "release"} : pc' = [pc EXCEPT ![c] = l]
    BY <1>1 DEF LoadModel, UnloadModel
  <2>2. \A s \in Slots : ~Exists(c, s)
    BY <2>1 DEF OwnInv, HoldsLaunched
  <2>3. pc[c] \in BeforeRollback
    BY <2>1 DEF BeforeRollback
  <2> QED
    BY <1>k, <2>1, <2>2, <2>3, ClearMove
<1>2. ASSUME NEW c \in Calls, LoadStep(c) PROVE ClearInv'
  <2>0. pc[c] \in Launching => launched[c] + 1 \in Slots
    <3>1. pc[c] \in Launching => launched[c] < Replicas
      BY DEF TypeInv, LoopsInBounds
    <3> QED
      BY <1>0, <3>1, ReplicasPositive DEF Slots
  <2>1. CASE BuildDeploymentPlan(c)
    BY <1>0, <1>k, <2>1, ClearMove DEF BuildDeploymentPlan, BeforeRollback, MayOwn
  <2>2. CASE PullGroup(c)
    BY <1>0, <1>k, <2>2, ClearMove DEF PullGroup, BeforeRollback, MayOwn
  <2>3. CASE AllocPort(c)
    <3>1. /\ pc[c] = "alloc" /\ undone[c] = 0
          /\ UNCHANGED <<conts, launched, undone, cancelled, lost>>
      BY <2>3 DEF AllocPort, ClearInv, UndoneNothing, BeforeRollback, Launching
    <3>2. PICK l \in {"create", "rollback"} : pc' = [pc EXCEPT ![c] = l]
      BY <2>3 DEF AllocPort
    <3>3. \A s \in Slots : MayOwn(c, s) => MayOwn(c, s)'
      <4>1. pc'[c] = l
        BY <1>0, <3>2
      <4> QED
        BY <1>0, <3>1, <4>1 DEF MayOwn
    <3> QED
      BY <1>k, <3>1, <3>2, <3>3, ClearMove DEF BeforeRollback, Launching
  <2>4. CASE CreateReplica(c)
    <3>0. /\ pc[c] = "create" /\ undone[c] = 0 /\ launched[c] + 1 \in Slots
          /\ UNCHANGED <<launched, undone, cancelled>>
      BY <2>0, <2>4 DEF CreateReplica, ClearInv, UndoneNothing, BeforeRollback, Launching
    <3>1. CASE UNCHANGED <<conts, lost>> /\ Goto(c, "rollback")
      <4>1. pc' = [pc EXCEPT ![c] = "rollback"] /\ pc'[c] = "rollback"
        BY <1>0, <3>1
      <4>2. \A s \in Slots : MayOwn(c, s) => MayOwn(c, s)'
        BY <1>0, <3>0, <4>1 DEF MayOwn
      <4> QED
        BY <1>k, <3>0, <3>1, <4>1, <4>2, ClearMove DEF BeforeRollback, Launching
    <3>2. CASE /\ SetCont(c, launched[c] + 1, "created")
               /\ \/ Goto(c, "start") /\ UNCHANGED lost
                  \/ Goto(c, "rollback") /\ lost' = lost \cup {c}
      <4>1. Only(c, launched[c] + 1)
        BY <1>0, <3>0, <3>2, SetContEffect
      <4>2. \A b \in Calls \ {c} : pc'[b] = pc[b]
        BY <1>0, <3>2
      <4>3. ClearOthers(c)
        BY <3>0, <3>2, <4>1, <4>2 DEF ClearOthers, Only
      <4>4. Excused(c)' \/ \A s \in Slots : Exists(c, s)' => MayOwn(c, s)'
        <5> SUFFICES ASSUME ~Excused(c)', NEW s \in Slots, Exists(c, s)'
                     PROVE  MayOwn(c, s)'
          OBVIOUS
        <5>1. pc'[c] = "start" /\ ~Excused(c)
          BY <1>0, <3>0, <3>2 DEF Excused, Live
        <5>2. s # launched[c] + 1 => s <= launched[c]
          BY <3>0, <4>1, <5>1 DEF Only, ClearInv, OwnsOnly, MayOwn
        <5> QED
          BY <1>0, <3>0, <5>1, <5>2 DEF MayOwn
      <4> QED
        BY <3>0, <4>3, <4>4, ClearStep
    <3> QED
      BY <2>4, <3>1, <3>2 DEF CreateReplica
  <2>5. CASE StartReplica(c)
    <3>0. /\ pc[c] = "start" /\ launched[c] + 1 \in Slots
          /\ UNCHANGED <<launched, undone, cancelled, lost>>
          /\ \E l \in {"ready", "cleanup"} : pc' = [pc EXCEPT ![c] = l]
      BY <2>0, <2>5 DEF StartReplica, Launching
    <3>1. Exists(c, launched[c] + 1)
      BY <3>0 DEF OwnInv, HoldsLaunched
    <3>2. \A b \in Calls, t \in Slots : Exists(b, t)' => Exists(b, t)
      <4>1. CASE UNCHANGED conts
        BY <1>k, <4>1
      <4>2. CASE SetCont(c, launched[c] + 1, "running")
        BY <1>0, <3>0, <3>1, <4>2, SetContEffect DEF Only
      <4> QED
        BY <2>5, <4>1, <4>2 DEF StartReplica
    <3> QED
      BY <1>0, <3>0, <3>2, ClearMove DEF BeforeRollback, Launching, MayOwn
  <2>6. CASE WaitReady(c)
    <3>0. pc[c] = "ready" /\ undone[c] = 0 /\ UNCHANGED <<conts, undone, cancelled, lost>>
      BY <2>6 DEF WaitReady, ClearInv, UndoneNothing, BeforeRollback, Launching
    <3>1. /\ \A b \in Calls \ {c} : pc'[b] = pc[b] /\ launched'[b] = launched[b]
          /\ \/ pc'[c] = "cleanup" /\ launched'[c] = launched[c]
             \/ pc'[c] \in {"rmImage", "alloc"} /\ launched'[c] = launched[c] + 1
      BY <1>0, <2>6 DEF WaitReady, TypeOK
    <3>2. ClearOthers(c)
      BY <1>k, <3>0, <3>1 DEF ClearOthers
    <3>3. Excused(c)' \/ \A s \in Slots : Exists(c, s)' => MayOwn(c, s)'
      <4> SUFFICES ASSUME ~Excused(c)', NEW s \in Slots, Exists(c, s)'
                   PROVE  MayOwn(c, s)'
        OBVIOUS
      <4>1. MayOwn(c, s)
        BY <1>k, <3>0 DEF ClearInv, OwnsOnly, Excused, Live
      <4> QED
        BY <1>0, <3>0, <3>1, <4>1 DEF MayOwn
    <3> QED
      BY <3>0, <3>2, <3>3, ClearStep
  <2>7. CASE CleanupReplica(c)
    <3>0. /\ pc[c] = "cleanup" /\ undone[c] = 0 /\ launched[c] + 1 \in Slots
          /\ UNCHANGED <<launched, undone, cancelled>>
          /\ pc'[c] = "rollback" /\ \A b \in Calls \ {c} : pc'[b] = pc[b]
      BY <1>0, <2>0, <2>7
      DEF CleanupReplica, ClearInv, UndoneNothing, BeforeRollback, Launching
    <3>1. Only(c, launched[c] + 1)
      BY <1>0, <2>7, <3>0, DiscardEffect DEF CleanupReplica
    <3>2. /\ lost \subseteq lost'
          /\ c \in lost' \/ ~Exists(c, launched[c] + 1)'
      BY <1>0, <2>7, <3>0, DiscardClears DEF CleanupReplica
    <3>3. ClearOthers(c)
      BY <3>0, <3>1, <3>2 DEF ClearOthers, Only
    <3>4. Excused(c)' \/ \A s \in Slots : Exists(c, s)' => MayOwn(c, s)'
      <4> SUFFICES ASSUME ~Excused(c)', NEW s \in Slots, Exists(c, s)'
                   PROVE  MayOwn(c, s)'
        OBVIOUS
      <4>1. s # launched[c] + 1 /\ ~Excused(c)
        BY <3>0, <3>2 DEF Excused, Live
      <4>2. MayOwn(c, s)
        BY <3>0, <3>1, <4>1 DEF ClearInv, OwnsOnly, Only
      <4> QED
        BY <1>0, <3>0, <4>1, <4>2 DEF MayOwn
    <3> QED
      BY <3>0, <3>3, <3>4, ClearStep DEF BeforeRollback, Launching
  <2>8. CASE Rollback(c)
    <3>1. CASE undone[c] = launched[c]
      <4>1. /\ pc[c] = "rollback" /\ pc' = [pc EXCEPT ![c] = "err"]
            /\ UNCHANGED <<conts, launched, undone, cancelled, lost>>
        BY <2>8, <3>1 DEF Rollback
      <4>2. \A s \in Slots : ~MayOwn(c, s)
        BY <1>0, <3>1, <4>1 DEF MayOwn
      <4> QED
        BY <1>k, <4>1, <4>2, ClearMove DEF BeforeRollback, Launching
    <3>2. CASE undone[c] # launched[c]
      <4>0. /\ pc[c] = "rollback" /\ UNCHANGED <<pc, launched, cancelled>>
            /\ undone'[c] = undone[c] + 1
            /\ \A b \in Calls \ {c} : undone'[b] = undone[b]
        BY <2>8, <3>2 DEF Rollback, TypeInv, TypeOK
      <4>1. PICK u \in Slots : u = undone[c] + 1
        <5>1. /\ undone[c] \in Nat /\ undone[c] <= launched[c]
              /\ launched[c] <= Replicas
          BY <4>0, ReplicasPositive DEF TypeInv, TypeOK, LoopsInBounds, LoadLabels
        <5> QED
          BY <1>0, <3>2, <5>1, ReplicasPositive DEF Slots
      <4>2. Discard(c, u, Live(c))
        BY <2>8, <3>2, <4>1 DEF Rollback
      <4>3. /\ Only(c, u)
            /\ Exists(c, u)' => Exists(c, u)
        BY <1>0, <4>1, <4>2, DiscardEffect
      <4>4. /\ lost \subseteq lost'
            /\ Excused(c)' \/ ~Exists(c, u)'
        <5>1. CASE Live(c)
          BY <1>0, <4>1, <4>2, <5>1, DiscardClears DEF Excused
        <5>2. CASE ~Live(c)
          BY <4>0, <4>2, <5>2 DEF Excused, Live, Discard
        <5> QED
          BY <5>1, <5>2
      <4>5. ClearOthers(c)
        BY <4>0, <4>3, <4>4 DEF ClearOthers, Only
      <4>6. Excused(c)' \/ \A s \in Slots : Exists(c, s)' => MayOwn(c, s)'
        <5> SUFFICES ASSUME ~Excused(c)', NEW s \in Slots, Exists(c, s)'
                     PROVE  MayOwn(c, s)'
          OBVIOUS
        <5>1. s # u /\ ~Excused(c)
          BY <4>0, <4>4 DEF Excused, Live
        <5>2. MayOwn(c, s)
          BY <4>3, <5>1 DEF ClearInv, OwnsOnly, Only
        <5> QED
          BY <1>0, <4>0, <4>1, <5>1, <5>2 DEF MayOwn
      <4> QED
        BY <4>0, <4>5, <4>6, ClearStep DEF BeforeRollback, Launching
    <3> QED
      BY <3>1, <3>2
  <2>9. CASE RemoveImage(c) \/ PublishGroup(c) \/ RegisterDisagg(c)
    <3>1. /\ UNCHANGED <<conts, launched, undone, cancelled, lost>>
          /\ \E l \in {"publish", "register", "ok"} : pc' = [pc EXCEPT ![c] = l]
      BY <2>9 DEF RemoveImage, PublishGroup, RegisterDisagg
    <3> QED
      BY <1>0, <1>k, <3>1, ClearMove DEF BeforeRollback, Launching, MayOwn
  <2> QED
    BY <1>2, <2>1, <2>2, <2>3, <2>4, <2>5, <2>6, <2>7, <2>8, <2>9 DEF LoadStep
<1>3. ASSUME NEW c \in Calls, UnloadStep(c) PROVE ClearInv'
  <2>1. CASE ReleaseLeases(c) \/ TakeGroup(c)
    <3>1. /\ UNCHANGED <<conts, launched, undone, cancelled, lost>>
          /\ \E l \in {"take", "ok", "teardown"} : pc' = [pc EXCEPT ![c] = l]
      BY <2>1 DEF ReleaseLeases, TakeGroup
    <3> QED
      BY <1>0, <1>k, <3>1, ClearMove DEF BeforeRollback, Launching, MayOwn
  <2>2. CASE TeardownReplica(c) /\ undone[c] = Replicas
    BY <1>0, <1>k, <2>2, ClearMove DEF TeardownReplica, BeforeRollback, Launching, MayOwn
  <2>3. CASE TeardownReplica(c) /\ undone[c] # Replicas
    <3>0. /\ pc[c] = "teardown" /\ UNCHANGED <<pc, launched, cancelled>>
          /\ \A b \in Calls \ {c} : undone'[b] = undone[b]
          /\ Discard(target[c], undone[c] + 1, Live(c))
      BY <2>3 DEF TeardownReplica, TypeInv, TypeOK
    <3>1. target[c] \in Calls /\ undone[c] + 1 \in Slots
      <4>1. undone[c] \in 0 .. Replicas
        BY DEF TypeInv, TypeOK
      <4>2. undone[c] + 1 \in Slots
        BY <2>3, <4>1, ReplicasPositive DEF Slots
      <4> QED
        BY <3>0, <4>2 DEF TypeInv, LoopsInBounds
    <3>2. \A b \in Calls, s \in Slots : Exists(b, s)' => Exists(b, s)
      BY <1>0, <3>0, <3>1, DiscardEffect DEF Only
    <3>3. lost \subseteq lost'
      BY <3>0 DEF Discard
    <3>4. ClearOthers(c)
      BY <3>0, <3>2, <3>3 DEF ClearOthers
    <3> QED
      BY <3>0, <3>4, ClearStep DEF MayOwn, BeforeRollback, Launching
  <2> QED
    BY <1>3, <2>1, <2>2, <2>3 DEF UnloadStep
<1>4. ASSUME \A b \in Calls, t \in Slots : Exists(b, t)' => Exists(b, t),
             UNCHANGED <<pc, launched, undone, lost>>, cancelled \subseteq cancelled'
      PROVE  ClearInv'
  BY <1>4 DEF ClearInv, OwnsOnly, UndoneNothing, MayOwn, Excused, Live
<1>5. ASSUME NEW c \in Calls, NEW s \in Slots, ContainerExits(c, s) PROVE ClearInv'
  <2>1. \A b \in Calls, t \in Slots : Exists(b, t)' => Exists(b, t)
    BY <1>0, <1>5, SetContEffect DEF ContainerExits, Only, Exists
  <2> QED
    BY <1>4, <1>5, <2>1 DEF ContainerExits
<1>6. CASE Disconnect
  BY <1>k, <1>4, <1>6 DEF Disconnect
<1>7. CASE Restart
  <2>1. \A d \in Calls : /\ pc'[d] = pc[d] \/ pc'[d] = "killed"
                         /\ pc'[d] \notin LoadLabels
    BY <1>7 DEF Restart, InFlight, LoadLabels, UnloadLabels
  <2>2. UNCHANGED <<conts, launched, undone, cancelled, lost>>
    BY <1>7 DEF Restart
  <2>3. OwnsOnly'
    BY <1>k, <2>1, <2>2 DEF ClearInv, OwnsOnly, Excused, Live, MayOwn, LoadLabels
  <2>4. UndoneNothing'
    BY <2>1, <2>2 DEF ClearInv, UndoneNothing, BeforeRollback, Launching, LoadLabels
  <2> QED
    BY <2>3, <2>4 DEF ClearInv
<1>8. CASE UNCHANGED vars
  BY <1>k, <1>4, <1>8 DEF vars
<1> QED
  BY <1>1, <1>2, <1>3, <1>5, <1>6, <1>7, <1>8 DEF Next

(* A load of a group that fails on a live ctx has removed every container it *)
(* created, at whichever replica and step it failed: createAndStartContainer *)
(* clears the one it was launching and rollbackGroup all those before it.    *)
THEOREM FailedGroupsRollBack == Spec => []RolledBack
<1>1. ClearInv => RolledBack
  BY DEF ClearInv, OwnsOnly, MayOwn, Excused, RolledBack
<1> QED
  BY <1>1, TypeInit, TypeNext, OwnInit, OwnNext, ClearInit, ClearNext, PTL DEF Spec

=============================================================================
