---------------------------- MODULE CommandChannel ----------------------------
(***************************************************************************)
(* The commands of the control channel: control.Channel, which dials,      *)
(* reconnects and hands every LoadModel and UnloadModel frame to a         *)
(* goroutine, and the dedup table those goroutines share.                  *)
(*                                                                         *)
(* The control plane repeats a command, under its id, when it has not      *)
(* heard of an outcome; the dedup table is to answer the repetition from   *)
(* memory.  It outlives connections (Channel.Run makes it once) and not    *)
(* the process.                                                            *)
(*                                                                         *)
(* Grain.  One action is one section under dedup.mu, one execution of a    *)
(* command by the dispatcher (whose own steps are the modules Runtime and  *)
(* DeploymentGroups), or one write.  Reading the clock and the lookup      *)
(* after it are one action: the lock between them is never held for long.  *)
(***************************************************************************)
EXTENDS Naturals

CONSTANTS
    Frames,      \* LoadModel and UnloadModel frames
    CommandIds,
    NoId,        \* the empty id
    BadIds,      \* commands with a body that does not parse
    Absent,      \* no id, no result
    TTL,         \* the dedup window
    MaxTime,     \* bound on the clock
    Overlap      \* the control plane repeats a command that is still running

Results == {"ok", "failed"}

ASSUME ChannelAssumption ==
    /\ BadIds \subseteq CommandIds
    /\ Absent \notin CommandIds \cup Results
    /\ TTL \in Nat \ {0}
    /\ MaxTime \in Nat
    /\ Overlap \in BOOLEAN

VARIABLES
    link,      \* Run: dial, up, backoff, stopped
    clock,
    \* dedup.entries
    cached, expires,
    \* the goroutine of each frame
    stage, id, began, result,
    cut,       \* frames whose connection has ended
    heard,     \* frames whose CommandResult has reached the control plane
    executed   \* history: frames the dispatcher has executed

dedup == <<cached, expires>>
cvars == <<link, clock, cached, expires, stage, id, began, result, cut, heard,
           executed>>

CTypeOK ==
    /\ link \in {"dial", "up", "backoff", "stopped"}
    /\ clock \in 0 .. MaxTime
    /\ cached \in [CommandIds -> Results \cup {Absent}]
    /\ expires \in [CommandIds -> Nat]
    /\ stage \in [Frames -> {"idle", "handle", "exec", "store", "reply", "done"}]
    /\ id \in [Frames -> CommandIds \cup {Absent}]
    /\ began \in [Frames -> 0 .. MaxTime]
    /\ result \in [Frames -> Results \cup {Absent}]
    /\ cut \in SUBSET Frames
    /\ heard \in SUBSET Frames
    /\ executed \in SUBSET Frames

CInit ==
    /\ link = "dial"
    /\ clock = 0
    /\ cached = [i \in CommandIds |-> Absent]
    /\ expires = [i \in CommandIds |-> 0]
    /\ stage = [f \in Frames |-> "idle"]
    /\ id = [f \in Frames |-> Absent]
    /\ began = [f \in Frames |-> 0]
    /\ result = [f \in Frames |-> Absent]
    /\ cut = {}
    /\ heard = {}
    /\ executed = {}

-----------------------------------------------------------------------------
(* Run and connectOnce *)

\* The dial and the Hello succeed, or the loop backs off.
Connect ==
    /\ link = "dial"
    /\ link' \in {"up", "backoff"}
    /\ UNCHANGED <<clock, dedup, stage, id, began, result, cut, heard, executed>>

Backoff ==
    /\ link = "backoff"
    /\ link' = "dial"
    /\ UNCHANGED <<clock, dedup, stage, id, began, result, cut, heard, executed>>

\* The read or the heartbeat loop fails: the ctx of every frame is cancelled.
LinkFails ==
    /\ link = "up"
    /\ link' = "backoff"
    /\ cut' = {f \in Frames : stage[f] # "idle"}
    /\ UNCHANGED <<clock, dedup, stage, id, began, result, heard, executed>>

\* main cancels the ctx of Run.
Shutdown ==
    /\ link # "stopped"
    /\ link' = "stopped"
    /\ cut' = {f \in Frames : stage[f] # "idle"}
    /\ UNCHANGED <<clock, dedup, stage, id, began, result, heard, executed>>

Tick ==
    /\ clock < MaxTime
    /\ clock' = clock + 1
    /\ UNCHANGED <<link, dedup, stage, id, began, result, cut, heard, executed>>

-----------------------------------------------------------------------------
(* handle *)

\* The read loop starts a goroutine.
Arrive(f, i) ==
    /\ link = "up"
    /\ stage[f] = "idle"
    /\ Overlap \/ \A g \in Frames : id[g] = i => stage[g] = "done"
    /\ id' = [id EXCEPT ![f] = i]
    /\ stage' = [stage EXCEPT ![f] = "handle"]
    /\ UNCHANGED <<link, clock, dedup, began, result, cut, heard, executed>>

\* "bad LoadModel body": refused, and not remembered.
Refuse(f) ==
    /\ stage[f] = "handle" /\ id[f] \in BadIds
    /\ result' = [result EXCEPT ![f] = "failed"]
    /\ stage' = [stage EXCEPT ![f] = "reply"]
    /\ UNCHANGED <<link, clock, dedup, id, began, cut, heard, executed>>

\* dedup.Run finds the outcome of the command, or goes on to execute it.
Hit(i, t) == i # NoId /\ cached[i] # Absent /\ t < expires[i]

Lookup(f) ==
    /\ stage[f] = "handle" /\ id[f] \notin BadIds
    /\ began' = [began EXCEPT ![f] = clock]
    /\ IF Hit(id[f], clock)
       THEN /\ result' = [result EXCEPT ![f] = cached[id[f]]]
            /\ stage' = [stage EXCEPT ![f] = "reply"]
       ELSE /\ stage' = [stage EXCEPT ![f] = "exec"]
            /\ UNCHANGED result
    /\ UNCHANGED <<link, clock, dedup, id, cut, heard, executed>>

\* Mutant: a command whose connection broke has an outcome of its own.
ExecuteCancelled(f) ==
    /\ stage[f] = "exec"
    /\ \E r \in Results :
          result' = [result EXCEPT ![f] = IF f \in cut THEN "cancelled" ELSE r]
    /\ executed' = executed \cup {f}
    /\ stage' = [stage EXCEPT ![f] = IF id[f] = NoId THEN "reply" ELSE "store"]
    /\ UNCHANGED <<link, clock, dedup, id, began, cut, heard>>

\* The dispatcher returns; a cancelled command may still have succeeded.
Execute(f) ==
    /\ stage[f] = "exec"
    /\ \E r \in Results : result' = [result EXCEPT ![f] = r]
    /\ executed' = executed \cup {f}
    /\ stage' = [stage EXCEPT ![f] = IF id[f] = NoId THEN "reply" ELSE "store"]
    /\ UNCHANGED <<link, clock, dedup, id, began, cut, heard>>

\* The outcome is remembered from the time the command began, and entries that
\* expired a window before that time are deleted.
Expired(i, t) == t > expires[i] + TTL

\* Mutant: the deletion counts from the start of the window.
StoreAndForget(f) ==
    /\ stage[f] = "store"
    /\ cached' = [i \in CommandIds |-> IF i = id[f] THEN result[f]
                                ELSE IF began[f] + TTL >= expires[i] THEN Absent ELSE cached[i]]
    /\ expires' = [expires EXCEPT ![id[f]] = began[f] + TTL]
    /\ stage' = [stage EXCEPT ![f] = "reply"]
    /\ UNCHANGED <<link, clock, id, began, result, cut, heard, executed>>

Store(f) ==
    /\ stage[f] = "store"
    /\ cached' = [i \in CommandIds |-> IF i = id[f] THEN result[f]
                                ELSE IF Expired(i, began[f]) THEN Absent ELSE cached[i]]
    /\ expires' = [expires EXCEPT ![id[f]] = began[f] + TTL]
    /\ stage' = [stage EXCEPT ![f] = "reply"]
    /\ UNCHANGED <<link, clock, id, began, result, cut, heard, executed>>

\* The write goes to the connection the command came from, and its error is
\* ignored.
Reply(f) ==
    /\ stage[f] = "reply"
    /\ \/ f \notin cut /\ heard' = heard \cup {f}
       \/ UNCHANGED heard
    /\ stage' = [stage EXCEPT ![f] = "done"]
    /\ UNCHANGED <<link, clock, dedup, id, began, result, cut, executed>>

-----------------------------------------------------------------------------

Handle(f) == Refuse(f) \/ Lookup(f) \/ Execute(f) \/ Store(f) \/ Reply(f)

CNext ==
    \/ \E f \in Frames, i \in CommandIds : Arrive(f, i)
    \/ \E f \in Frames : Handle(f)
    \/ Connect \/ Backoff \/ LinkFails \/ Shutdown
    \/ Tick

CSpec == CInit /\ [][CNext]_cvars

-----------------------------------------------------------------------------
(* Properties *)

\* "a CP retry of the same id receives the original outcome rather than
\* executing the action twice": within a window of an execution the command is
\* not executed again, on whatever connection, and whoever hears of it hears
\* the outcome of that execution.  This is so for a control plane that repeats a
\* command only when its handler is done (Overlap = FALSE): the lock is released
\* while a command runs, so one that is repeated then runs twice.  And the window
\* is the code's, counted from the start of the execution, so a command that
\* takes longer than the window is not covered when it ends.
RetryGetsOriginal ==
    \A f \in executed, g \in Frames :
        /\ f # g /\ id[f] = id[g] /\ id[f] # NoId
        /\ stage[g] \notin {"idle", "handle"}
        /\ began[f] <= began[g] /\ began[g] < began[f] + TTL
        => g \notin executed /\ (g \in heard => result[g] = result[f])

=============================================================================
