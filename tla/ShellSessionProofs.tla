-------------------------- MODULE ShellSessionProofs --------------------------
(***************************************************************************)
(* Proofs about ShellSession, for any number of websockets, whatever each  *)
(* asks for and whatever fails around them: its type invariant and the     *)
(* three safety invariants of its run.                                     *)
(*                                                                         *)
(* None of the three is inductive: each speaks of the end of a session,    *)
(* and what decides it happens on the way there.  Inv adds, thread by      *)
(* thread, what holds before: Phases ties the handler to its pump and to   *)
(* the closed flag, Sidecars says who still has a sidecar in hand,         *)
(* Callbacks counts a pump's callbacks, and Connections says which threads *)
(* can still reach the connection when the handler gives it back.          *)
(***************************************************************************)
EXTENDS ShellSession, TLAPS

\* The handler has not started its session, or could not.
BeforeSession == {"idle", "sendErr"} \cup Spawning

\* The handler has a session.
InSession == {"serve", "input"} \cup Closing

\* The handler starts the pump when it begins to serve, and raises the closed
\* flag when it stops; nobody else does either.
Phases ==
    \A s \in Sessions :
        /\ handler[s] \in BeforeSession => pump[s] = "none"
        /\ handler[s] \in InSession => pump[s] # "none"
        /\ closed[s] => handler[s] \in {"await", "returned"}

\* A sidecar is in the hands of the Spawn that made it or belongs to a session
\* that began, unless the worker cannot remove it.
Sidecars ==
    \A s \in Sessions :
        sidecar[s] # "none" =>
            \/ s \in lost
            \/ handler[s] \in {"attach", "start", "discard"}
            \/ pump[s] # "none"

\* The end callback is the last thing a pump does, and the only way for it to
\* be done with a session that is not closed.
Callbacks ==
    \A s \in Sessions :
        /\ pump[s] # "done" => calls[s]["exit"] = 0 /\ calls[s]["error"] = 0
        /\ calls[s]["exit"] + calls[s]["error"] <= 1
        /\ pump[s] = "done" /\ ~closed[s] => calls[s]["exit"] + calls[s]["error"] = 1

\* Only handleLogs has a reader; while its handler runs, only the reader cancels
\* its ctx, on its way out.
Readers ==
    \A s \in Sessions :
        /\ reader[s] # "none" => kind[s] = "logs" /\ handler[s] # "idle"
        /\ handler[s] = "idle" => ctx[s] = "alive"
        /\ kind[s] = "logs" /\ ctx[s] = "cancelled" /\ handler[s] # "returned"
              => reader[s] = "done"
        /\ kind[s] = "logs" /\ handler[s] \in Closing => reader[s] = "done"

\* A handler that has returned has closed the connection, and left a pump that
\* could still write only by the deadline, a reader that could still read only
\* by returning early.
Connections ==
    \A s \in Sessions :
        /\ handler[s] = "returned" => client[s] = "gone"
        /\ handler[s] = "returned" /\ pump[s] \notin {"none", "done"} => s \in timedOut
        /\ handler[s] = "returned" /\ reader[s] \in {"reading", "got"} =>
              \/ s \in timedOut
              \/ kind[s] = "logs" /\ pump[s] = "none"
        /\ s \in late => handler[s] = "returned"

Inv ==
    /\ TypeOK
    /\ Phases
    /\ Sidecars
    /\ Callbacks
    /\ Readers
    /\ Connections
    /\ ConnUsedWhileHeld

-----------------------------------------------------------------------------

LEMMA InvInit == Init => Inv
<1> SUFFICES ASSUME Init PROVE Inv
  OBVIOUS
<1>1. image \in BOOLEAN /\ model \in BOOLEAN /\ closed \in [Sessions -> BOOLEAN]
  BY DEF Init
<1>2. calls \in [Sessions -> [{"exit", "error"} -> 0 .. 1]]
  BY DEF Init
<1> QED
  BY <1>1, <1>2
  DEF Init, Inv, TypeOK, Phases, Sidecars, Callbacks, Readers, Connections,
      ConnUsedWhileHeld, BeforeSession, InSession, Labels, Spawning, Closing

\* While a session is being started only the handler and docker move.
LEMMA SpawnStep ==
    ASSUME Inv, NEW s \in Sessions, NEW l \in BeforeSession \ {"idle"},
           handler[s] \in Spawning, Goto(s, l),
           UNCHANGED <<socket, ctx, closed, pump, history>>,
           stream' \in [Sessions -> {"none", "open", "eof", "broken", "closed"}],
           image' \in BOOLEAN, model' \in BOOLEAN,
           sidecar' \in [Sessions -> {"none", "created", "running"}],
           lost' \in SUBSET Sessions,
           Sidecars'
    PROVE  Inv'
<1> USE DEF Inv, TypeOK, BeforeSession, InSession, Labels, Spawning, Closing, socket,
            history, Goto
<1>1. TypeOK'
  OBVIOUS
<1>2. Phases'
  BY DEF Phases
<1>3. Callbacks'
  BY DEF Callbacks, Phases
<1>4. Readers'
  BY DEF Readers
<1>5. Connections'
  BY DEF Connections
<1>6. ConnUsedWhileHeld'
  BY DEF ConnUsedWhileHeld, Connections
<1> QED
  BY <1>1, <1>2, <1>3, <1>4, <1>5, <1>6

\* A session begins with a pump that reads; the sidecar, if it is one on the
\* host, passes from Spawn to the session.
LEMMA BeginStep ==
    ASSUME Inv, NEW s \in Sessions, NEW st \in {"open", "broken"},
           handler[s] \in Spawning, Goto(s, "serve"), SetPump(s, "read"),
           stream' = [stream EXCEPT ![s] = st],
           \/ UNCHANGED sidecar
           \/ sidecar' = [sidecar EXCEPT ![s] = "running"],
           UNCHANGED <<socket, ctx, closed, history, image, model, lost>>
    PROVE  Inv'
<1> USE DEF Inv, TypeOK, BeforeSession, InSession, Labels, Spawning, Closing, socket,
            history, Goto, SetPump
<1>1. TypeOK'
  OBVIOUS
<1>2. Phases'
  BY DEF Phases
<1>3. Sidecars'
  BY DEF Sidecars
<1>4. Callbacks'
  BY DEF Callbacks, Phases
<1>5. Readers'
  BY DEF Readers
<1>6. Connections'
  BY DEF Connections
<1>7. ConnUsedWhileHeld'
  BY DEF ConnUsedWhileHeld, Connections
<1> QED
  BY <1>1, <1>2, <1>3, <1>4, <1>5, <1>6, <1>7

\* The pump goes on without calling back; it is done only with a session that
\* was closed.
LEMMA PumpStepQuiet ==
    ASSUME Inv, NEW s \in Sessions,
           NEW l \in {"output", "exit", "error", "waitEOF", "waitErr", "done"},
           pump[s] \notin {"none", "done"}, SetPump(s, l), l = "done" => closed[s],
           UNCHANGED <<socket, handler, ctx, closed, stream, history, docker>>
    PROVE  Inv'
<1> USE DEF Inv, TypeOK, BeforeSession, InSession, Labels, Spawning, Closing, socket,
            history, docker, SetPump
<1>1. TypeOK'
  OBVIOUS
<1>2. Phases'
  BY DEF Phases
<1>3. Sidecars'
  BY DEF Sidecars
<1>4. Callbacks'
  BY DEF Callbacks, Phases
<1>5. Readers'
  BY DEF Readers
<1>6. Connections'
  BY DEF Connections
<1>7. ConnUsedWhileHeld'
  BY DEF ConnUsedWhileHeld, Connections
<1> QED
  BY <1>1, <1>2, <1>3, <1>4, <1>5, <1>6, <1>7

\* One step of each action: the steps of a handler that starts a session are
\* SpawnSteps or a BeginStep, those of a pump that does not call back are
\* PumpStepQuiet.
LEMMA InvNext == ASSUME Inv, [Next]_vars PROVE Inv'
<1> DEFINE SpawnParts ==
        /\ UNCHANGED <<socket, ctx, closed, pump, history>>
        /\ stream' \in [Sessions -> {"none", "open", "eof", "broken", "closed"}]
        /\ image' \in BOOLEAN /\ model' \in BOOLEAN
        /\ sidecar' \in [Sessions -> {"none", "created", "running"}]
        /\ lost' \in SUBSET Sessions
        /\ Sidecars'
<1>1. CASE UNCHANGED vars
  BY <1>1 DEF vars, Inv, TypeOK, Phases, Sidecars, Callbacks, Readers, Connections, ConnUsedWhileHeld
<1>2. ASSUME NEW s \in Sessions, NEW k \in Kinds[s], Open(s, k)
      PROVE  Inv'
  <2>1. k \in SessionKinds
    BY SessionAssumption
  <2>2. PICK l \in {"image", "resolve"}, r \in {"reading", "none"} :
            /\ Goto(s, l)
            /\ reader' = [reader EXCEPT ![s] = r]
            /\ r # "none" => k = "logs"
    BY <1>2 DEF Open
  <2>3. /\ handler[s] = "idle"
        /\ kind' = [kind EXCEPT ![s] = k]
        /\ UNCHANGED <<client, session, history, docker>>
    BY <1>2 DEF Open
  <2> USE DEF Inv, TypeOK, BeforeSession, InSession, Labels, Spawning, Closing, docker,
              session, history, Goto
  <2>4. TypeOK'
    BY <2>1, <2>2, <2>3
  <2>5. Phases' /\ Sidecars' /\ Callbacks'
    BY <2>2, <2>3 DEF Phases, Sidecars, Callbacks
  <2>6. Readers'
    BY <2>2, <2>3 DEF Readers
  <2>7. Connections' /\ ConnUsedWhileHeld'
    BY <2>2, <2>3 DEF Connections, ConnUsedWhileHeld
  <2> QED
    BY <2>4, <2>5, <2>6, <2>7
<1>3. ASSUME NEW s \in Sessions, NEW c \in {"reads", "stalled", "gone"}, Client(s, c)
      PROVE  Inv'
  BY <1>3
  DEF Client, Inv, TypeOK, Phases, Sidecars, Callbacks, Readers, Connections,
      ConnUsedWhileHeld, BeforeSession, InSession, Labels, Spawning, Closing,
      docker, socket, session, history
<1>4. CASE ModelStops
  BY <1>4
  DEF ModelStops, Eof, Inv, TypeOK, Phases, Sidecars, Callbacks, Readers, Connections,
      ConnUsedWhileHeld, BeforeSession, InSession, Labels, Spawning, Closing,
      docker, socket, session, history
<1>5. ASSUME NEW s \in Sessions, ResolveContainer(s) PROVE Inv'
  <2>1. PICK l \in {"exec", "startLogs", "sendErr"} : Goto(s, l)
    BY <1>5 DEF ResolveContainer
  <2>2. handler[s] \in {"resolve"}
    BY <1>5 DEF ResolveContainer
  <2>3. SpawnParts
    BY <1>5 DEF ResolveContainer, Goto, docker, session, Inv, TypeOK, Sidecars
  <2> QED
    BY <2>1, <2>2, <2>3, SpawnStep DEF BeforeSession, Spawning
<1>6. ASSUME NEW s \in Sessions, ExecCreate(s) PROVE Inv'
  <2>1. PICK l \in {"execAttach", "execSh", "sendErr"} : Goto(s, l)
    BY <1>6 DEF ExecCreate
  <2>2. handler[s] \in {"exec", "execSh"}
    BY <1>6 DEF ExecCreate
  <2>3. SpawnParts
    BY <1>6 DEF ExecCreate, Goto, docker, session, Inv, TypeOK, Sidecars
  <2> QED
    BY <2>1, <2>2, <2>3, SpawnStep DEF BeforeSession, Spawning
<1>7. ASSUME NEW s \in Sessions, ExecAttach(s) PROVE Inv'
  <2>1. CASE Begin(s)
    BY <1>7, <2>1, BeginStep DEF ExecAttach, Begin, SetPump, Spawning, docker
  <2>2. CASE Goto(s, "sendErr") /\ UNCHANGED <<stream, pump>>
    <3>1. SpawnParts
      BY <1>7, <2>2 DEF ExecAttach, Goto, docker, Inv, TypeOK, Sidecars
    <3> QED
      BY <1>7, <2>2, <3>1, SpawnStep DEF ExecAttach, BeforeSession, Spawning
  <2> QED
    BY <1>7, <2>1, <2>2 DEF ExecAttach
<1>8. ASSUME NEW s \in Sessions, EnsureImage(s) PROVE Inv'
  <2>1. PICK l \in {"create", "sendErr"} : Goto(s, l)
    BY <1>8 DEF EnsureImage
  <2>2. handler[s] \in {"image"}
    BY <1>8 DEF EnsureImage
  <2>3. SpawnParts
    BY <1>8 DEF EnsureImage, Goto, docker, session, Inv, TypeOK, Sidecars
  <2> QED
    BY <2>1, <2>2, <2>3, SpawnStep DEF BeforeSession, Spawning
<1>9. ASSUME NEW s \in Sessions, CreateSidecar(s) PROVE Inv'
  <2>1. PICK l \in {"attach", "sendErr"} : Goto(s, l)
    BY <1>9 DEF CreateSidecar
  <2>2. handler[s] \in {"create"}
    BY <1>9 DEF CreateSidecar
  <2>3. SpawnParts
    <3> USE DEF CreateSidecar, Goto, docker, session, Inv, TypeOK, Sidecars
    <3>1. CASE sidecar' = [sidecar EXCEPT ![s] = "created"] /\ Goto(s, "attach") /\ UNCHANGED lost
      BY <1>9, <3>1
    <3>2. CASE UNCHANGED <<sidecar, lost>>
      BY <1>9, <3>2
    <3>3. CASE sidecar' = [sidecar EXCEPT ![s] = "created"] /\ lost' = lost \cup {s}
      BY <1>9, <3>3
    <3> QED
      BY <1>9, <3>1, <3>2, <3>3
  <2> QED
    BY <2>1, <2>2, <2>3, SpawnStep DEF BeforeSession, Spawning
<1>10. ASSUME NEW s \in Sessions, AttachSidecar(s) PROVE Inv'
  <2>1. PICK l \in {"start", "discard"} : Goto(s, l)
    BY <1>10 DEF AttachSidecar
  <2>2. handler[s] \in {"attach"}
    BY <1>10 DEF AttachSidecar
  <2>3. SpawnParts
    <3> USE DEF AttachSidecar, Goto, docker, session, Inv, TypeOK, Sidecars
    <3>1. CASE stream' = [stream EXCEPT ![s] = "open"] /\ Goto(s, "start")
      BY <1>10, <3>1
    <3>2. CASE Goto(s, "discard") /\ UNCHANGED stream
      BY <1>10, <3>2
    <3> QED
      BY <1>10, <3>1, <3>2
  <2> QED
    BY <2>1, <2>2, <2>3, SpawnStep DEF BeforeSession, Spawning
<1>11. ASSUME NEW s \in Sessions, StartSidecar(s) PROVE Inv'
  <2>1. CASE sidecar' = [sidecar EXCEPT ![s] = "running"] /\ Begin(s)
    BY <1>11, <2>1, BeginStep DEF StartSidecar, Begin, SetPump, Spawning
  <2>2. CASE /\ stream' = [stream EXCEPT ![s] = "closed"]
             /\ Goto(s, "discard")
             /\ sidecar' \in {sidecar, [sidecar EXCEPT ![s] = "running"]}
             /\ UNCHANGED pump
    <3>1. SpawnParts
      BY <1>11, <2>2 DEF StartSidecar, Goto, Inv, TypeOK, Sidecars
    <3> QED
      BY <1>11, <2>2, <3>1, SpawnStep DEF StartSidecar, BeforeSession, Spawning
  <2> QED
    BY <1>11, <2>1, <2>2 DEF StartSidecar
<1>12. ASSUME NEW s \in Sessions, DiscardSidecar(s) PROVE Inv'
  <2>1. PICK l \in {"sendErr"} : Goto(s, l)
    BY <1>12 DEF DiscardSidecar
  <2>2. handler[s] \in {"discard"}
    BY <1>12 DEF DiscardSidecar
  <2>3. SpawnParts
    BY <1>12 DEF DiscardSidecar, Goto, docker, session, Inv, TypeOK, Sidecars
  <2> QED
    BY <2>1, <2>2, <2>3, SpawnStep DEF BeforeSession, Spawning
<1>13. ASSUME NEW s \in Sessions, StartLogs(s) PROVE Inv'
  <2>1. PICK st \in {"open", "broken"} : stream' = [stream EXCEPT ![s] = st]
    BY <1>13 DEF StartLogs, Begin
  <2> QED
    BY <1>13, <2>1, BeginStep DEF StartLogs, Begin, SetPump, Spawning, docker
<1>14. ASSUME NEW s \in Sessions, SendErr(s) PROVE Inv'
  BY <1>14
  DEF SendErr, Goto, Inv, TypeOK, Phases, Sidecars, Callbacks, Readers, Connections,
      ConnUsedWhileHeld, BeforeSession, InSession, Labels, Spawning, Closing,
      docker, socket, session, history
<1>15. ASSUME NEW s \in Sessions, HandlerWakes(s) PROVE Inv'
  BY <1>15
  DEF HandlerWakes, Goto, Inv, TypeOK, Phases, Sidecars, Callbacks, Readers, Connections,
      ConnUsedWhileHeld, BeforeSession, InSession, Labels, Spawning, Closing,
      docker, socket, session, history
<1>16. ASSUME NEW s \in Sessions, HandlerGets(s) PROVE Inv'
  BY <1>16
  DEF HandlerGets, Goto, Inv, TypeOK, Phases, Sidecars, Callbacks, Readers, Connections,
      ConnUsedWhileHeld, BeforeSession, InSession, Labels, Spawning, Closing,
      docker, socket, session, history
<1>17. ASSUME NEW s \in Sessions, WriteInput(s) PROVE Inv'
  BY <1>17
  DEF WriteInput, Goto, Inv, TypeOK, Phases, Sidecars, Callbacks, Readers, Connections,
      ConnUsedWhileHeld, BeforeSession, InSession, Labels, Spawning, Closing,
      docker, socket, session, history
<1>18. ASSUME NEW s \in Sessions, CloseSession(s) PROVE Inv'
  BY <1>18
  DEF CloseSession, Goto, Inv, TypeOK, Phases, Sidecars, Callbacks, Readers, Connections,
      ConnUsedWhileHeld, BeforeSession, InSession, Labels, Spawning, Closing,
      docker, socket, session, history
<1>19. ASSUME NEW s \in Sessions, CloseReturns(s) PROVE Inv'
  BY <1>19
  DEF CloseReturns, Goto, Inv, TypeOK, Phases, Sidecars, Callbacks, Readers, Connections,
      ConnUsedWhileHeld, BeforeSession, InSession, Labels, Spawning, Closing,
      docker, socket, session, history
<1>20. ASSUME NEW s \in Sessions, ReaderGets(s) PROVE Inv'
  BY <1>20
  DEF ReaderGets, Inv, TypeOK, Phases, Sidecars, Callbacks, Readers, Connections,
      ConnUsedWhileHeld, BeforeSession, InSession, Labels, Spawning, Closing,
      docker, socket, session, history
<1>21. ASSUME NEW s \in Sessions, ReaderLoops(s) PROVE Inv'
  BY <1>21
  DEF ReaderLoops, Inv, TypeOK, Phases, Sidecars, Callbacks, Readers, Connections,
      ConnUsedWhileHeld, BeforeSession, InSession, Labels, Spawning, Closing,
      docker, socket, session, history
<1>22. ASSUME NEW s \in Sessions, ReaderEnds(s) PROVE Inv'
  BY <1>22
  DEF ReaderEnds, Inv, TypeOK, Phases, Sidecars, Callbacks, Readers, Connections,
      ConnUsedWhileHeld, BeforeSession, InSession, Labels, Spawning, Closing,
      docker, socket, session, history
<1>23. ASSUME NEW s \in Sessions, PumpReads(s) PROVE Inv'
  BY <1>23, PumpStepQuiet DEF PumpReads
<1>24. ASSUME NEW s \in Sessions, PumpEmits(s) PROVE Inv'
  BY <1>24
  DEF PumpEmits, SetPump, Inv, TypeOK, Phases, Sidecars, Callbacks, Readers, Connections,
      ConnUsedWhileHeld, BeforeSession, InSession, Labels, Spawning, Closing,
      docker, socket, session, history
<1>25. ASSUME NEW s \in Sessions, PumpCallsBack(s) PROVE Inv'
  BY <1>25
  DEF PumpCallsBack, SetPump, Inv, TypeOK, Phases, Sidecars, Callbacks, Readers, Connections,
      ConnUsedWhileHeld, BeforeSession, InSession, Labels, Spawning, Closing,
      docker, socket, session, history
<1>26. ASSUME NEW s \in Sessions, PumpEnds(s) PROVE Inv'
  <2>1. PICK l \in {"done", "exit", "waitEOF", "waitErr"} :
            SetPump(s, l) /\ (l = "done" => closed[s])
    BY <1>26 DEF PumpEnds
  <2> QED
    BY <1>26, <2>1, PumpStepQuiet DEF PumpEnds
<1>27. ASSUME NEW s \in Sessions, WaitExit(s) PROVE Inv'
  <2>1. PICK l \in {"exit", "error"} : SetPump(s, l)
    BY <1>27 DEF WaitExit
  <2> QED
    BY <1>27, <2>1, PumpStepQuiet DEF WaitExit
<1>28. ASSUME NEW s \in Sessions, ShellExits(s) PROVE Inv'
  BY <1>28
  DEF ShellExits, Eof, Inv, TypeOK, Phases, Sidecars, Callbacks, Readers, Connections,
      ConnUsedWhileHeld, BeforeSession, InSession, Labels, Spawning, Closing,
      docker, socket, session, history
<1>29. ASSUME NEW s \in Sessions, StreamBreaks(s) PROVE Inv'
  BY <1>29
  DEF StreamBreaks, Inv, TypeOK, Phases, Sidecars, Callbacks, Readers, Connections,
      ConnUsedWhileHeld, BeforeSession, InSession, Labels, Spawning, Closing,
      docker, socket, session, history
<1> QED
  BY <1>1, <1>2, <1>3, <1>4, <1>5, <1>6, <1>7, <1>8, <1>9, <1>10, <1>11,
     <1>12, <1>13, <1>14, <1>15, <1>16, <1>17, <1>18, <1>19, <1>20, <1>21,
     <1>22, <1>23, <1>24, <1>25, <1>26, <1>27, <1>28, <1>29
  DEF Next, HandlerStep, ReaderStep, PumpStep

-----------------------------------------------------------------------------

LEMMA InvHolds == Spec => []Inv
  BY InvInit, InvNext, PTL DEF Spec

\* The fields of a shell or logs session, the program counters of its handler,
\* reader and pump, and what docker holds for it keep their types.
THEOREM SessionTypeCorrect == Spec => []TypeOK
  BY InvHolds, PTL DEF Inv

\* hostBackend.Spawn removes the sidecar it created on every path out of it:
\* for any number of sockets, a handler that returned without a session has
\* left no sidecar that docker would have let it remove.
THEOREM NoSidecarLeft == Spec => []FailedSpawnLeavesNothing
<1>1. Inv => FailedSpawnLeavesNothing
  BY DEF Inv, Sidecars, FailedSpawnLeavesNothing
<1> QED
  BY <1>1, InvHolds, PTL

\* readPump and LogsSession.run make one end callback, OnExit or OnError, and
\* make it unless Close had raised the closed flag before they looked.
THEOREM EndsOnce == Spec => []OneEndPerSession
<1>1. Inv => OneEndPerSession
  BY DEF Inv, Callbacks, OneEndPerSession
<1> QED
  BY <1>1, InvHolds, PTL

\* No goroutine of handleShell or handleLogs uses the websocket after its
\* handler has returned, but for a pump that Close stopped waiting for and the
\* reader of a logs socket whose session never began.
THEOREM ConnectionHeld == Spec => []ConnUsedWhileHeld
  BY InvHolds, PTL DEF Inv

=============================================================================
