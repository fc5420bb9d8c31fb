----------------------------- MODULE ShellTunnel -----------------------------
(***************************************************************************)
(* The shell and logs sessions of one control connection:                  *)
(* control.ChannelShellTunnel and the shellbridge sessions it starts.      *)
(*                                                                         *)
(* Channel.readLoop starts a goroutine for every frame, so the handler of  *)
(* a ShellClose may run before that of the ShellOpen it follows; a session *)
(* has a read pump of its own; and the connection may end at any time, in  *)
(* which case CloseAll tears the sessions down while handlers still run.   *)
(*                                                                         *)
(* Shells and logs have the same shape (a table, a check, a start, a       *)
(* registration, a pump that drops and reports, a bounded Close), so one   *)
(* table stands for both.  Input, resize and output frames only move data  *)
(* to and from the session and are left out.                               *)
(*                                                                         *)
(* Grain.  One action is one section under tunnel.mu, one step of a        *)
(* session, or one call to its backend.  A session is named by the open    *)
(* frame that started it.                                                  *)
(***************************************************************************)
EXTENDS Naturals, FiniteSets

CONSTANTS
    Opens,      \* ShellOpen and LogsOpen frames
    Closes,     \* ShellClose and LogsClose frames
    Streams,    \* stream ids
    Nil,        \* no session, no stream
    FreshIds,   \* the control plane never uses a stream id twice
    Faults      \* "spawn": starting a session may fail

ASSUME TunnelAssumption ==
    /\ Nil \notin Opens \cup Streams
    /\ FreshIds \in BOOLEAN
    /\ Faults \subseteq {"spawn"}

VARIABLES
    link,      \* connectOnce: up, cancelled (ctx), closing (CloseAll), closed
    broken,    \* a write on the connection has failed
    table,     \* tunnel.shells: stream id -> session
    disposed,  \* tunnel.disposed
    doomed,    \* sessions CloseAll took and has yet to close
    tearing,   \* the session whose Close CloseAll waits for
    \* handlers of the open frames, and their sessions
    opc, stream, backend, pump, close,
    \* handlers of the close frames
    cpc, cstream, found,
    told       \* history: sessions whose end was written to the connection

tunnel  == <<table, disposed>>
tear    == <<link, broken, doomed, tearing>>
session == <<backend, pump, close>>
opener  == <<opc, stream>>
closer  == <<cpc, cstream, found>>
vars == <<link, broken, table, disposed, doomed, tearing, opc, stream, backend, pump,
          close, cpc, cstream, found, told>>

\* An open frame's handler before it ends.
Opening == {"check", "spawn", "register", "discard"}

TypeOK ==
    /\ link \in {"up", "cancelled", "closing", "closed"}
    /\ broken \in BOOLEAN
    /\ table \in [Streams -> Opens \cup {Nil}]
    /\ disposed \in BOOLEAN
    /\ doomed \in SUBSET Opens
    /\ tearing \in Opens \cup {Nil}
    /\ opc \in [Opens -> {"idle", "done"} \cup Opening]
    /\ stream \in [Opens -> Streams \cup {Nil}]
    /\ backend \in [Opens -> {"none", "live", "ended"}]
    /\ pump \in [Opens -> {"none", "reading", "reaping", "report", "done"}]
    /\ close \in [Opens -> {"no", "waiting", "returned"}]
    /\ cpc \in [Closes -> {"idle", "look", "close", "done"}]
    /\ cstream \in [Closes -> Streams \cup {Nil}]
    /\ found \in [Closes -> Opens \cup {Nil}]
    /\ told \in SUBSET Opens

Init ==
    /\ link = "up"
    /\ broken = FALSE
    /\ table = [s \in Streams |-> Nil]
    /\ disposed = FALSE
    /\ doomed = {}
    /\ tearing = Nil
    /\ opc = [o \in Opens |-> "idle"]
    /\ stream = [o \in Opens |-> Nil]
    /\ backend = [o \in Opens |-> "none"]
    /\ pump = [o \in Opens |-> "none"]
    /\ close = [o \in Opens |-> "no"]
    /\ cpc = [k \in Closes |-> "idle"]
    /\ cstream = [k \in Closes |-> Nil]
    /\ found = [k \in Closes |-> Nil]
    /\ told = {}

-----------------------------------------------------------------------------
(* Sessions *)

\* Close: the first caller sets the flag, cancels and closes the stream, and
\* waits for the pump; every other one returns at once.
Close(o) ==
    /\ close' = [close EXCEPT ![o] = IF @ = "no" THEN "waiting" ELSE @]
    /\ backend' = [backend EXCEPT ![o] = "ended"]

\* Mutant: a pump that has ended already does not signal again.
CloseReturnsOnSignal(o) ==
    /\ close[o] = "waiting" /\ pump[o] # "done"
    /\ close' = [close EXCEPT ![o] = "returned"]
    /\ tearing' = IF tearing = o THEN Nil ELSE tearing
    /\ UNCHANGED <<tunnel, link, broken, doomed, opener, backend, pump, closer, told>>

\* The wait of Close ends when the pump has, or after two seconds.
CloseReturns(o) ==
    /\ close[o] = "waiting"
    /\ close' = [close EXCEPT ![o] = "returned"]
    /\ tearing' = IF tearing = o THEN Nil ELSE tearing
    /\ UNCHANGED <<tunnel, link, broken, doomed, opener, backend, pump, closer, told>>

\* The shell exits, the container stops, or the stream breaks.
SessionEnds(o) ==
    /\ backend[o] = "live"
    /\ backend' = [backend EXCEPT ![o] = "ended"]
    /\ UNCHANGED <<tunnel, tear, opener, pump, close, closer, told>>

\* The pump's read fails.  A session closed before is not reported; otherwise
\* the exit code is fetched, which takes up to five seconds.
PumpEnds(o) ==
    /\ pump[o] = "reading" /\ backend[o] = "ended"
    /\ pump' = [pump EXCEPT ![o] = IF close[o] = "no" THEN "reaping" ELSE "done"]
    /\ UNCHANGED <<tunnel, tear, opener, backend, close, closer, told>>

\* OnExit, OnError or OnEnd: drop the table entry of the stream,
Reap(o) ==
    /\ pump[o] = "reaping"
    /\ table' = [table EXCEPT ![stream[o]] = Nil]
    /\ pump' = [pump EXCEPT ![o] = "report"]
    /\ UNCHANGED <<disposed, tear, opener, backend, close, closer, told>>

\* Mutant: a session that ended is dropped and nobody is told.
ReportNothing(o) ==
    /\ pump[o] = "report"
    /\ pump' = [pump EXCEPT ![o] = "done"]
    /\ UNCHANGED <<tunnel, tear, opener, backend, close, closer, told>>

\* then write ShellExit, ShellError or LogsEnd.  A write that fails is logged
\* and forgotten; it fails on a connection that is breaking or closed.
Report(o) ==
    /\ pump[o] = "report"
    /\ pump' = [pump EXCEPT ![o] = "done"]
    /\ \/ /\ ~broken /\ link # "closed"
          /\ told' = told \cup {o}
          /\ UNCHANGED broken
       \/ /\ broken' = TRUE
          /\ UNCHANGED told
    /\ UNCHANGED <<tunnel, link, doomed, tearing, opener, backend, close, closer>>

-----------------------------------------------------------------------------
(* handleShellOpen, handleLogsOpen *)

\* The read loop hands the frame to a goroutine.
OpenArrives(o, s) ==
    /\ link = "up"
    /\ opc[o] = "idle"
    /\ FreshIds => \A p \in Opens : stream[p] # s
    /\ stream' = [stream EXCEPT ![o] = s]
    /\ opc' = [opc EXCEPT ![o] = "check"]
    /\ UNCHANGED <<tunnel, tear, session, closer, told>>

\* handle finds no tunnel: the connection has ended in the meantime.
DropOpen(o) ==
    /\ opc[o] = "check" /\ link # "up"
    /\ opc' = [opc EXCEPT ![o] = "done"]
    /\ UNCHANGED <<tunnel, tear, stream, session, closer, told>>

CheckOpen(o) ==
    /\ opc[o] = "check"
    /\ opc' = [opc EXCEPT ![o] =
                 IF disposed \/ table[stream[o]] # Nil THEN "done" ELSE "spawn"]
    /\ UNCHANGED <<tunnel, tear, stream, session, closer, told>>

\* The session runs from here on.  A logs session starts whatever its ctx; a
\* shell on a cancelled ctx fails.
Spawn(o) ==
    /\ opc[o] = "spawn"
    /\ \/ /\ opc' = [opc EXCEPT ![o] = "register"]
          /\ backend' = [backend EXCEPT ![o] = "live"]
          /\ pump' = [pump EXCEPT ![o] = "reading"]
       \/ /\ "spawn" \in Faults \/ link # "up"
          /\ opc' = [opc EXCEPT ![o] = "done"]
          /\ UNCHANGED <<backend, pump>>
    /\ UNCHANGED <<tunnel, tear, stream, close, closer, told>>

\* Mutant: a teardown in the meantime goes unnoticed.
RegisterBlindly(o) ==
    /\ opc[o] = "register"
    /\ table' = [table EXCEPT ![stream[o]] = o]
    /\ opc' = [opc EXCEPT ![o] = "done"]
    /\ UNCHANGED <<disposed, tear, stream, session, closer, told>>

\* "A teardown raced us": disposed is checked again before the session is
\* registered.
Register(o) ==
    /\ opc[o] = "register"
    /\ IF disposed
       THEN /\ opc' = [opc EXCEPT ![o] = "discard"]
            /\ UNCHANGED table
       ELSE /\ table' = [table EXCEPT ![stream[o]] = o]
            /\ opc' = [opc EXCEPT ![o] = "done"]
    /\ UNCHANGED <<disposed, tear, stream, session, closer, told>>

DiscardSpawned(o) ==
    /\ opc[o] = "discard"
    /\ Close(o)
    /\ opc' = [opc EXCEPT ![o] = "done"]
    /\ UNCHANGED <<tunnel, tear, stream, pump, closer, told>>

-----------------------------------------------------------------------------
(* handleShellClose, handleLogsClose *)

\* A close frame follows the open frame of its stream.
CloseArrives(k, s) ==
    /\ link = "up"
    /\ cpc[k] = "idle"
    /\ \E o \in Opens : stream[o] = s
    /\ cstream' = [cstream EXCEPT ![k] = s]
    /\ cpc' = [cpc EXCEPT ![k] = "look"]
    /\ UNCHANGED <<tunnel, tear, opener, session, found, told>>

DropClose(k) ==
    /\ cpc[k] = "look" /\ link # "up"
    /\ cpc' = [cpc EXCEPT ![k] = "done"]
    /\ UNCHANGED <<tunnel, tear, opener, session, cstream, found, told>>

\* An unknown stream is ignored.
TakeSession(k) ==
    LET s == cstream[k] IN
    /\ cpc[k] = "look"
    /\ found' = [found EXCEPT ![k] = table[s]]
    /\ table' = [table EXCEPT ![s] = Nil]
    /\ cpc' = [cpc EXCEPT ![k] = IF table[s] = Nil THEN "done" ELSE "close"]
    /\ UNCHANGED <<disposed, tear, opener, session, cstream, told>>

CloseSession(k) ==
    /\ cpc[k] = "close"
    /\ Close(found[k])
    /\ cpc' = [cpc EXCEPT ![k] = "done"]
    /\ UNCHANGED <<tunnel, tear, opener, pump, cstream, found, told>>

-----------------------------------------------------------------------------
(* connectOnce ends *)

Disconnect ==
    /\ link = "up"
    /\ link' = "cancelled"
    /\ UNCHANGED <<tunnel, broken, doomed, tearing, opener, session, closer, told>>

\* Mutant: dropped entries stay in the map, without a session.
CloseAllNilToo ==
    /\ link = "cancelled"
    /\ link' = "closing"
    /\ disposed' = TRUE
    /\ doomed' = {table[s] : s \in Streams}
    /\ table' = [s \in Streams |-> Nil]
    /\ UNCHANGED <<broken, tearing, opener, session, closer, told>>

\* CloseAll takes the table,
CloseAll ==
    /\ link = "cancelled"
    /\ link' = "closing"
    /\ disposed' = TRUE
    /\ doomed' = {table[s] : s \in Streams} \ {Nil}
    /\ table' = [s \in Streams |-> Nil]
    /\ UNCHANGED <<broken, tearing, opener, session, closer, told>>

\* and closes its sessions one after the other,
CloseNext(o) ==
    /\ link = "closing" /\ tearing = Nil
    /\ o \in doomed
    /\ doomed' = doomed \ {o}
    /\ tearing' = IF close[o] = "no" THEN o ELSE Nil
    /\ Close(o)
    /\ UNCHANGED <<tunnel, link, broken, opener, pump, closer, told>>

\* and the connection is closed.
TeardownEnds ==
    /\ link = "closing" /\ tearing = Nil /\ doomed = {}
    /\ link' = "closed"
    /\ UNCHANGED <<tunnel, broken, doomed, tearing, opener, session, closer, told>>

-----------------------------------------------------------------------------

SessionStep(o) == CloseReturns(o) \/ PumpEnds(o) \/ Reap(o) \/ Report(o)
OpenStep(o) ==
    DropOpen(o) \/ CheckOpen(o) \/ Spawn(o) \/ Register(o) \/ DiscardSpawned(o)
CloseStep(k) == DropClose(k) \/ TakeSession(k) \/ CloseSession(k)
TearStep == CloseAll \/ TeardownEnds \/ \E o \in Opens : CloseNext(o)

Next ==
    \/ \E o \in Opens, s \in Streams : OpenArrives(o, s)
    \/ \E k \in Closes, s \in Streams : CloseArrives(k, s)
    \/ \E o \in Opens : SessionStep(o) \/ OpenStep(o) \/ SessionEnds(o)
    \/ \E k \in Closes : CloseStep(k)
    \/ Disconnect
    \/ TearStep

Spec == Init /\ [][Next]_vars

\* Every goroutine keeps running: the waits of a session, of a handler and of
\* the teardown are all bounded.  A connection whose write failed is closed by
\* the websocket library, so the read loop ends and connectOnce with it.
FairSpec ==
    /\ Spec
    /\ \A o \in Opens : WF_vars(SessionStep(o)) /\ WF_vars(OpenStep(o))
    /\ \A k \in Closes : WF_vars(CloseStep(k))
    /\ WF_vars(TearStep)
    /\ WF_vars(broken /\ Disconnect)

-----------------------------------------------------------------------------
(* Properties *)

\* Sessions do not survive their connection: once CloseAll has returned, a
\* session runs only in a handler that is about to close it, though handlers
\* of open and close frames were at work while the table was taken.
SessionsEndWithConnection ==
    link = "closed" =>
        \A o \in Opens :
            backend[o] = "live" =>
                \/ opc[o] \in {"register", "discard"}
                \/ \E k \in Closes : cpc[k] = "close" /\ found[k] = o

\* After the connection has broken every session comes to its end.
TeardownCompletes ==
    link # "up" ~> \A o \in Opens : opc[o] \notin Opening /\ backend[o] # "live"

\* OnExit, OnError and OnEnd: the end of a session that nobody closed is
\* written to the connection, or the connection comes to its end, and the
\* control plane sees that instead (shell_tunnel.go:384-385: "the channel is
\* probably down, in which case CloseAll is about to run").
EndIsReported ==
    \A o \in Opens :
        backend[o] = "ended" /\ close[o] = "no"
            ~> o \in told \/ close[o] # "no" \/ link # "up"

=============================================================================
