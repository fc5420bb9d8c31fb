---------------------------- MODULE ShellSession ----------------------------
(***************************************************************************)
(* The operator's websockets, /v1/shell and /v1/logs: the handlers of      *)
(* internal/admin, the sessions of internal/shellbridge they start, and    *)
(* the two shell backends with their docker calls: an exec in a model's    *)
(* container, or a privileged sidecar of its own for a shell on the host.  *)
(*                                                                         *)
(* A session has three threads of control: the handler, which for a shell  *)
(* reads the websocket; the reader goroutine of handleLogs; and the pump   *)
(* (readPump, or LogsSession.run), which reads the stream from docker and  *)
(* calls back into the websocket.  The library takes the connection back   *)
(* and reuses it as soon as the handler returns.                           *)
(*                                                                         *)
(* Grain.  One action is one docker call, one read or write of a stream or *)
(* of the websocket, or one access to the closed flag.  The bytes that go  *)
(* through a session are left out: output is the fact that some arrived,   *)
(* and input matters only when it ends the shell.                          *)
(***************************************************************************)
EXTENDS Naturals, FiniteSets

CONSTANTS
    Sessions,   \* one for each websocket
    Kinds,      \* what each of them may ask for
    Faults      \* what may go wrong outside the worker

SessionKinds == {"exec", "host", "logs"}
SpawnFaults == {"resolve", "exec", "attach", "list", "pull", "create", "start", "remove",
               "lostReply"}
FaultKinds == SpawnFaults \cup {"break", "wait"}

ASSUME SessionAssumption ==
    /\ Kinds \in [Sessions -> SUBSET SessionKinds]
    /\ Faults \subseteq FaultKinds

VARIABLES
    kind,      \* the query of the websocket, once it is open
    handler,   \* program counter of handleShell or handleLogs
    client,    \* the peer: reads, does not read, or has left
    reader,    \* the read goroutine of handleLogs
    ctx,       \* the handler's ctx: alive or cancelled
    closed,    \* ShellSession.closed, LogsSession.closed
    stream,    \* the hijacked connection, or the body of docker logs
    pump,      \* program counter of readPump or LogsSession.run
    calls,     \* history: the end callbacks made, in order
    late,      \* history: uses of the connection after it was taken back
    timedOut,  \* history: Close did not see the pump end
    image,     \* docker: the host shell's image is in the local store
    model,     \* docker: the model's container runs
    sidecar,   \* docker: the sidecar of a host shell
    lost       \* history: sidecars the worker could not, or could not know to, remove

vars == <<kind, handler, client, reader, ctx, closed, stream, pump, calls, late,
          timedOut, image, model, sidecar, lost>>
docker == <<image, model, sidecar, lost>>
socket == <<kind, client, reader>>
session == <<ctx, closed, stream, pump>>
history == <<calls, late, timedOut>>

Spawning == {"resolve", "exec", "execSh", "execAttach", "image", "create", "attach", "start",
             "discard", "startLogs"}
Closing == {"close", "await"}
Labels == {"idle", "serve", "input", "sendErr", "returned"} \cup Spawning \cup Closing

TypeOK ==
    /\ kind \in [Sessions -> SessionKinds \cup {"none"}]
    /\ handler \in [Sessions -> Labels]
    /\ client \in [Sessions -> {"reads", "stalled", "gone"}]
    /\ reader \in [Sessions -> {"none", "reading", "got", "done"}]
    /\ ctx \in [Sessions -> {"alive", "cancelled"}]
    /\ closed \in [Sessions -> BOOLEAN]
    /\ stream \in [Sessions -> {"none", "open", "eof", "broken", "closed"}]
    /\ pump \in [Sessions -> {"none", "read", "output", "waitEOF", "waitErr",
                          "exit", "error", "done"}]
    /\ calls \in [Sessions -> [{"exit", "error"} -> 0 .. 1]]
    /\ late \in SUBSET Sessions
    /\ timedOut \in SUBSET Sessions
    /\ image \in BOOLEAN
    /\ model \in BOOLEAN
    /\ sidecar \in [Sessions -> {"none", "created", "running"}]
    /\ lost \in SUBSET Sessions

Init ==
    /\ kind = [s \in Sessions |-> "none"]
    /\ handler = [s \in Sessions |-> "idle"]
    /\ client = [s \in Sessions |-> "reads"]
    /\ reader = [s \in Sessions |-> "none"]
    /\ ctx = [s \in Sessions |-> "alive"]
    /\ closed = [s \in Sessions |-> FALSE]
    /\ stream = [s \in Sessions |-> "none"]
    /\ pump = [s \in Sessions |-> "none"]
    /\ calls = [s \in Sessions |-> [e \in {"exit", "error"} |-> 0]]
    /\ late = {}
    /\ timedOut = {}
    /\ image = FALSE
    /\ model = TRUE
    /\ sidecar = [s \in Sessions |-> "none"]
    /\ lost = {}

-----------------------------------------------------------------------------

Goto(s, l) == handler' = [handler EXCEPT ![s] = l]
MayFail(f) == f \in Faults

\* The session starts: its stream is open, and its pump reads.
Begin(s) ==
    /\ stream' = [stream EXCEPT ![s] = "open"]
    /\ pump' = [pump EXCEPT ![s] = "read"]
    /\ Goto(s, "serve")

-----------------------------------------------------------------------------
(* handleShell and handleLogs, up to the start of the session *)

\* A socket that names neither a container nor a deployment asks /v1/shell for
\* a shell on the host.  handleLogs starts its reader before anything else.
Open(s, k) ==
    /\ handler[s] = "idle"
    /\ kind' = [kind EXCEPT ![s] = k]
    /\ Goto(s, IF k = "host" THEN "image" ELSE "resolve")
    /\ reader' = [reader EXCEPT ![s] = IF k = "logs" THEN "reading" ELSE "none"]
    /\ UNCHANGED <<client, session, history, docker>>

\* A container id, or one the runtime remembers, is taken as it is; the
\* container need not run any more.
ResolveContainer(s) ==
    /\ handler[s] = "resolve"
    /\ \/ Goto(s, IF kind[s] = "exec" THEN "exec" ELSE "startLogs")
       \/ (MayFail("resolve") \/ ~model) /\ Goto(s, "sendErr")
    /\ UNCHANGED <<socket, session, history, docker>>

\* dockerShellBackend.Spawn: an exec of the shell asked for, else of /bin/sh,
ExecCreate(s) ==
    /\ \/ handler[s] = "exec" /\ model /\ Goto(s, "execAttach")
       \/ handler[s] = "exec" /\ (MayFail("exec") \/ ~model) /\ Goto(s, "execSh")
       \/ handler[s] = "execSh" /\ model /\ Goto(s, "execAttach")
       \/ handler[s] = "execSh" /\ (MayFail("exec") \/ ~model) /\ Goto(s, "sendErr")
    /\ UNCHANGED <<socket, session, history, docker>>

\* and its hijacked connection.
ExecAttach(s) ==
    /\ handler[s] = "execAttach"
    /\ \/ model /\ Begin(s)
       \/ (MayFail("attach") \/ ~model) /\ Goto(s, "sendErr") /\ UNCHANGED <<stream, pump>>
    /\ UNCHANGED <<socket, ctx, closed, history, docker>>

\* hostBackend.ensureImage: a list that fails counts as a missing image.
EnsureImage(s) ==
    /\ handler[s] = "image"
    /\ \/ image /\ Goto(s, "create") /\ UNCHANGED image
       \/ (~image \/ MayFail("list")) /\ image' = TRUE /\ Goto(s, "create")
       \/ (~image \/ MayFail("list")) /\ MayFail("pull") /\ Goto(s, "sendErr") /\ UNCHANGED image
    /\ UNCHANGED <<socket, session, history, model, sidecar, lost>>

CreateSidecar(s) ==
    /\ handler[s] = "create"
    /\ \/ /\ sidecar' = [sidecar EXCEPT ![s] = "created"]
          /\ Goto(s, "attach")
          /\ UNCHANGED lost
       \/ /\ MayFail("create")
          /\ Goto(s, "sendErr")
          /\ UNCHANGED <<sidecar, lost>>
       \/ /\ MayFail("lostReply")
          /\ sidecar' = [sidecar EXCEPT ![s] = "created"]
          /\ lost' = lost \cup {s}
          /\ Goto(s, "sendErr")
    /\ UNCHANGED <<socket, session, history, image, model>>

\* Mutant: a sidecar that could not be attached is left to AutoRemove.
AttachSidecarOnly(s) ==
    /\ handler[s] = "attach"
    /\ \/ /\ stream' = [stream EXCEPT ![s] = "open"]
          /\ Goto(s, "start")
       \/ MayFail("attach") /\ Goto(s, "sendErr") /\ UNCHANGED stream
    /\ UNCHANGED <<socket, ctx, closed, pump, history, docker>>

\* The sidecar is attached before it starts.
AttachSidecar(s) ==
    /\ handler[s] = "attach"
    /\ \/ /\ stream' = [stream EXCEPT ![s] = "open"]
          /\ Goto(s, "start")
       \/ MayFail("attach") /\ Goto(s, "discard") /\ UNCHANGED stream
    /\ UNCHANGED <<socket, ctx, closed, pump, history, docker>>

\* When the start fails the connection is closed, then the sidecar removed.
StartSidecar(s) ==
    /\ handler[s] = "start"
    /\ \/ /\ sidecar' = [sidecar EXCEPT ![s] = "running"]
          /\ Begin(s)
       \/ /\ MayFail("start")
          /\ stream' = [stream EXCEPT ![s] = "closed"]
          /\ Goto(s, "discard")
          /\ UNCHANGED <<sidecar, pump>>
       \/ /\ MayFail("lostReply")
          /\ sidecar' = [sidecar EXCEPT ![s] = "running"]
          /\ stream' = [stream EXCEPT ![s] = "closed"]
          /\ Goto(s, "discard")
          /\ UNCHANGED pump
    /\ UNCHANGED <<socket, ctx, closed, history, image, model, lost>>

\* ContainerRemove, forced, on a ctx of its own; its error is ignored.
DiscardSidecar(s) ==
    /\ handler[s] = "discard"
    /\ \/ /\ sidecar' = [sidecar EXCEPT ![s] = "none"]
          /\ UNCHANGED lost
       \/ /\ MayFail("remove")
          /\ lost' = lost \cup {s}
          /\ UNCHANGED sidecar
    /\ Goto(s, "sendErr")
    /\ UNCHANGED <<socket, session, history, image, model>>

\* startLogsWith cannot fail here; LogsSession.run makes the docker call.  It
\* fails when the container is gone or the ctx is cancelled already.
StartLogs(s) ==
    /\ handler[s] = "startLogs"
    /\ \/ model /\ ctx[s] = "alive" /\ Begin(s)
       \/ /\ ~model \/ ctx[s] = "cancelled" \/ MayFail("attach")
          /\ stream' = [stream EXCEPT ![s] = "broken"]
          /\ pump' = [pump EXCEPT ![s] = "read"]
          /\ Goto(s, "serve")
    /\ UNCHANGED <<socket, ctx, closed, history, docker>>

\* The socket is told why, and closed; the deferred cancel runs.  A write to a
\* peer that does not read waits for it.
SendErr(s) ==
    /\ handler[s] = "sendErr"
    /\ client[s] # "stalled"
    /\ client' = [client EXCEPT ![s] = "gone"]
    /\ ctx' = [ctx EXCEPT ![s] = "cancelled"]
    /\ Goto(s, "returned")
    /\ UNCHANGED <<kind, reader, closed, stream, pump, history, docker>>

-----------------------------------------------------------------------------
(* The websocket *)

\* The read of handleShell ends with the connection; handleLogs waits for the
\* ctx its reader cancels.
HandlerWakes(s) ==
    /\ handler[s] = "serve"
    /\ IF kind[s] = "logs" THEN ctx[s] = "cancelled" ELSE client[s] = "gone"
    /\ Goto(s, "close")
    /\ UNCHANGED <<socket, session, history, docker>>

\* A message for a shell is its input, or the size of its terminal,
HandlerGets(s) ==
    /\ handler[s] = "serve" /\ kind[s] # "logs" /\ client[s] # "gone"
    /\ Goto(s, "input")
    /\ UNCHANGED <<socket, session, history, docker>>

\* which is passed on to docker; errors, as of a shell that has exited, are ignored.
WriteInput(s) ==
    /\ handler[s] = "input"
    /\ Goto(s, "serve")
    /\ UNCHANGED <<socket, session, history, docker>>

\* A message for the logs socket is read and dropped,
ReaderGets(s) ==
    /\ reader[s] = "reading" /\ client[s] # "gone"
    /\ reader' = [reader EXCEPT ![s] = "got"]
    /\ UNCHANGED <<kind, handler, client, session, history, docker>>

\* and the next one waited for, on a connection that may be gone by now.  (It may
\* even be another one: the object is reused for a later websocket.  What a late
\* reader or pump then takes from, or writes to, the peer of another session is
\* not followed; that it is late is recorded, and it ends as on its own.)
ReaderLoops(s) ==
    /\ reader[s] = "got"
    /\ reader' = [reader EXCEPT ![s] = "reading"]
    /\ late' = IF handler[s] = "returned" THEN late \cup {s} ELSE late
    /\ UNCHANGED <<kind, handler, client, session, calls, timedOut, docker>>

\* Mutant: the end of the connection is not passed on.
ReaderEndsQuietly(s) ==
    /\ reader[s] = "reading" /\ client[s] = "gone"
    /\ reader' = [reader EXCEPT ![s] = "done"]
    /\ UNCHANGED <<kind, handler, client, session, history, docker>>

ReaderEnds(s) ==
    /\ reader[s] = "reading" /\ client[s] = "gone"
    /\ reader' = [reader EXCEPT ![s] = "done"]
    /\ ctx' = [ctx EXCEPT ![s] = "cancelled"]
    /\ UNCHANGED <<kind, handler, client, closed, stream, pump, history, docker>>

\* Mutant: Close cancels the session's ctx, which no backend looks at.
CloseSessionCancelOnly(s) ==
    /\ handler[s] = "close"
    /\ closed' = [closed EXCEPT ![s] = TRUE]
    /\ stream' = [stream EXCEPT ![s] = IF kind[s] = "logs" THEN "closed" ELSE @]
    /\ Goto(s, "await")
    /\ UNCHANGED <<socket, ctx, pump, history, docker>>

\* The deferred Close: the flag, the session's ctx, the stream.  Closing the
\* connection of a sidecar leaves the sidecar as it is.
CloseSession(s) ==
    /\ handler[s] = "close"
    /\ closed' = [closed EXCEPT ![s] = TRUE]
    /\ stream' = [stream EXCEPT ![s] = "closed"]
    /\ Goto(s, "await")
    /\ UNCHANGED <<socket, ctx, pump, history, docker>>

\* Mutant: Close returns at once.
CloseReturnsAtOnce(s) ==
    /\ handler[s] = "await"
    /\ ctx' = [ctx EXCEPT ![s] = "cancelled"]
    /\ client' = [client EXCEPT ![s] = "gone"]
    /\ Goto(s, "returned")
    /\ UNCHANGED <<kind, reader, closed, stream, pump, history, docker>>

\* The pump has ended, or two seconds have passed.  The handler's ctx is
\* cancelled after that, and the connection goes back to the library.
CloseReturns(s) ==
    /\ handler[s] = "await"
    /\ timedOut' = IF pump[s] = "done" THEN timedOut ELSE timedOut \cup {s}
    /\ ctx' = [ctx EXCEPT ![s] = "cancelled"]
    /\ client' = [client EXCEPT ![s] = "gone"]
    /\ Goto(s, "returned")
    /\ UNCHANGED <<kind, reader, closed, stream, pump, calls, late, docker>>

-----------------------------------------------------------------------------
(* readPump and LogsSession.run *)

SetPump(s, l) == pump' = [pump EXCEPT ![s] = l]

\* Output has arrived.  LogsSession.run drops it once the session is closed.
PumpReads(s) ==
    /\ pump[s] = "read" /\ stream[s] = "open"
    /\ ~(kind[s] = "logs" /\ closed[s])
    /\ SetPump(s, "output")
    /\ UNCHANGED <<socket, handler, ctx, closed, stream, history, docker>>

\* It is written under wmu, which waits for a peer that does not read.
PumpEmits(s) ==
    /\ pump[s] = "output" /\ client[s] # "stalled"
    /\ SetPump(s, "read")
    /\ late' = IF handler[s] = "returned" THEN late \cup {s} ELSE late
    /\ UNCHANGED <<socket, handler, ctx, closed, stream, calls, timedOut, docker>>

\* The read fails, or the ctx of docker logs ends: no callback after a Close.
PumpEnds(s) ==
    /\ pump[s] = "read"
    /\ \/ stream[s] \in {"eof", "broken", "closed"}
       \/ kind[s] = "logs" /\ ctx[s] = "cancelled"
    /\ \/ closed[s] /\ SetPump(s, "done")
       \/ ~closed[s] /\ kind[s] = "logs" /\ SetPump(s, "exit")
       \/ ~closed[s] /\ kind[s] # "logs" /\ stream[s] = "eof" /\ SetPump(s, "waitEOF")
       \/ ~closed[s] /\ kind[s] # "logs" /\ stream[s] # "eof" /\ SetPump(s, "waitErr")
    /\ UNCHANGED <<socket, handler, ctx, closed, stream, history, docker>>

\* The exit code, under the handler's ctx and a deadline.  An error is told as
\* one only when the stream did not end in EOF.
WaitExit(s) ==
    /\ pump[s] \in {"waitEOF", "waitErr"}
    /\ \/ /\ ctx[s] = "alive"
          /\ kind[s] = "host" => sidecar[s] = "none"
          /\ SetPump(s, "exit")
       \/ /\ MayFail("wait") \/ ctx[s] = "cancelled" \/ sidecar[s] # "none"
          /\ SetPump(s, IF pump[s] = "waitEOF" THEN "exit" ELSE "error")
    /\ UNCHANGED <<socket, handler, ctx, closed, stream, history, docker>>

\* Mutant: OnError does not end the pump.
PumpCallsBackTwice(s) ==
    /\ pump[s] \in {"exit", "error"} /\ client[s] # "stalled"
    /\ calls' = [calls EXCEPT ![s][pump[s]] = @ + 1]
    /\ late' = IF handler[s] = "returned" THEN late \cup {s} ELSE late
    /\ ctx' = [ctx EXCEPT ![s] = IF kind[s] = "logs" THEN @ ELSE "cancelled"]
    /\ SetPump(s, IF pump[s] = "error" THEN "exit" ELSE "done")
    /\ UNCHANGED <<socket, handler, closed, stream, timedOut, docker>>

\* OnExit or OnError writes the socket's last message and, for a shell, cancels
\* the handler's ctx, at which the handler does not look.
PumpCallsBack(s) ==
    /\ pump[s] \in {"exit", "error"} /\ client[s] # "stalled"
    /\ calls' = [calls EXCEPT ![s][pump[s]] = @ + 1]
    /\ late' = IF handler[s] = "returned" THEN late \cup {s} ELSE late
    /\ ctx' = [ctx EXCEPT ![s] = IF kind[s] = "logs" THEN @ ELSE "cancelled"]
    /\ SetPump(s, "done")
    /\ UNCHANGED <<socket, handler, closed, stream, timedOut, docker>>

-----------------------------------------------------------------------------
(* What happens around the sessions *)

Eof(S) == [s \in Sessions |-> IF s \in S /\ stream[s] = "open" THEN "eof" ELSE stream[s]]

\* The shell ends, told to by its input or not.  A sidecar is removed with it.
ShellExits(s) ==
    /\ kind[s] \in {"exec", "host"} /\ pump[s] # "none"
    /\ stream[s] = "open" \/ sidecar[s] = "running"
    /\ kind[s] = "host" => sidecar[s] = "running"
    /\ stream' = Eof({s})
    /\ sidecar' = [sidecar EXCEPT ![s] = "none"]
    /\ UNCHANGED <<socket, handler, ctx, closed, pump, history, image, model, lost>>

\* The model's container stops, and the streams into it with it.
ModelStops ==
    /\ model
    /\ model' = FALSE
    /\ stream' = Eof({s \in Sessions : kind[s] \in {"exec", "logs"}})
    /\ UNCHANGED <<socket, handler, ctx, closed, pump, history, image, sidecar, lost>>

\* The connection to the daemon breaks; what runs in the container goes on.
StreamBreaks(s) ==
    /\ MayFail("break")
    /\ stream[s] = "open" /\ pump[s] # "none"
    /\ stream' = [stream EXCEPT ![s] = "broken"]
    /\ UNCHANGED <<socket, handler, ctx, closed, pump, history, docker>>

Client(s, c) ==
    /\ handler[s] # "idle" /\ client[s] # "gone" /\ client[s] # c
    /\ client' = [client EXCEPT ![s] = c]
    /\ UNCHANGED <<kind, reader, handler, session, history, docker>>

-----------------------------------------------------------------------------

HandlerStep(s) ==
    \/ ResolveContainer(s) \/ ExecCreate(s) \/ ExecAttach(s) \/ EnsureImage(s)
    \/ CreateSidecar(s) \/ AttachSidecar(s) \/ StartSidecar(s) \/ DiscardSidecar(s)
    \/ StartLogs(s) \/ SendErr(s) \/ HandlerWakes(s) \/ WriteInput(s)
    \/ CloseSession(s) \/ CloseReturns(s)

ReaderStep(s) == ReaderLoops(s) \/ ReaderEnds(s)

PumpStep(s) == PumpEmits(s) \/ PumpEnds(s) \/ WaitExit(s) \/ PumpCallsBack(s)

Next ==
    \/ \E s \in Sessions : \E k \in Kinds[s] : Open(s, k)
    \/ \E s \in Sessions :
          \/ HandlerStep(s) \/ ReaderStep(s) \/ PumpStep(s) \/ ReaderGets(s) \/ HandlerGets(s)
          \/ PumpReads(s) \/ ShellExits(s) \/ StreamBreaks(s)
          \/ \E c \in {"reads", "stalled", "gone"} : Client(s, c)
    \/ ModelStops

Spec == Init /\ [][Next]_vars

\* Docker calls come to an end, docker takes the input of a shell, and
\* goroutines run.  Nothing makes a client read, send or leave, a shell exit or
\* a stream produce output.
FairSpec ==
    /\ Spec
    /\ \A s \in Sessions :
          WF_vars(HandlerStep(s)) /\ WF_vars(ReaderStep(s)) /\ WF_vars(PumpStep(s))

-----------------------------------------------------------------------------
(* Properties *)

\* A socket whose session could not be started leaves no sidecar on the host:
\* Spawn removes what it created on every path out of it, on a ctx that the
\* request does not cancel.  What remains is what docker would not remove, or
\* made without the worker learning of it.
FailedSpawnLeavesNothing ==
    \A s \in Sessions :
        handler[s] = "returned" /\ pump[s] = "none" /\ s \notin lost
            => sidecar[s] = "none"

\* OnExit and OnError exclude each other and come once; and a session that
\* ends with neither was closed by its handler.
OneEndPerSession ==
    \A s \in Sessions :
        /\ calls[s]["exit"] + calls[s]["error"] <= 1
        /\ pump[s] = "done" /\ ~closed[s] => calls[s]["exit"] + calls[s]["error"] = 1

\* The connection is not used after its handler has returned and the library
\* has taken it back.  Two exceptions: the two seconds of Close ran out while
\* the pump was past its look at the closed flag, in a callback or waiting for
\* an exit code; and handleLogs returned early, with its reader between reads.
ConnUsedWhileHeld ==
    \A s \in late :
        \/ s \in timedOut
        \/ kind[s] = "logs" /\ pump[s] = "none"

\* A client that leaves takes its handler with it, however its session stands.
HandlersReturn ==
    \A s \in Sessions : client[s] = "gone" ~> handler[s] = "returned"

\* A handler that has returned leaves no goroutine behind: closing the stream
\* ends the read, the deadline of WaitExit the wait, and the end of the
\* connection a callback that could not be written.
NoGoroutineStays ==
    \A s \in Sessions :
        handler[s] = "returned" ~> pump[s] \in {"none", "done"} /\ reader[s] \in {"none", "done"}

=============================================================================
