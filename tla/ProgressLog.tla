----------------------------- MODULE ProgressLog -----------------------------
(***************************************************************************)
(* What an operator sees of a load: the progressLog of a deployment, the   *)
(* LoadModel that writes to it, and the logs sessions that follow it until *)
(* the container is there and then follow the container.                   *)
(*                                                                         *)
(* One deployment, whose commands come one after the other (the module     *)
(* Runtime has overlapping ones).  A log lives in the deployment object,   *)
(* which is named by the load that made it; a later load may write to the  *)
(* log of an earlier one, if its object survived a failed unload.          *)
(*                                                                         *)
(* Grain.  One action is one section under progressLog.mu or Runtime.mu,   *)
(* one docker call, or one receive from a follower's channel.  A line is   *)
(* its number in its log: its text is left out.                            *)
(***************************************************************************)
EXTENDS Naturals, Sequences, FiniteSets

CONSTANTS
    Loads,         \* LoadModel calls
    Followers,     \* logs sessions
    Nil,           \* no object, no container
    LogCap,        \* progressLogCap
    ChanCap,       \* capacity of a follower's channel
    MaxPullLines   \* bound on the progress lines of a pull

ASSUME ProgressAssumption ==
    /\ Nil \notin Loads /\ Loads \cap {"open", "failed"} = {}
    /\ LogCap \in Nat \ {0} /\ ChanCap \in Nat \ {0}
    /\ MaxPullLines \in Nat

VARIABLES
    entry,        \* Runtime.deployments[id]: the object, or Nil
    running,      \* its state is StateRunning
    containerID,  \* its container, by the load that created it
    conts,        \* docker: the container each load created
    \* the logs: lines, subs, and the outcome (open, failed or a container)
    lines, subs, outcome,
    \* the loads
    lpc, obj,
    \* the followers: their channel, and what they have passed on
    fpc, fobj, replay, chan, closed, got, target,
    skipped       \* history: the sessions for which a line was dropped

log      == <<lines, subs, outcome>>
table    == <<entry, running, containerID>>
channels == <<chan, closed, skipped>>
reader   == <<fobj, replay, got, target>>
vars == <<entry, running, containerID, conts, lines, subs, outcome, lpc, obj,
          fpc, fobj, replay, chan, closed, got, target, skipped>>

Working   == {"port", "pull", "clear", "create", "setCid", "starting", "start",
              "started", "mark", "ready", "failed", "markFailed", "drop"}
Following == {"replay", "follow"}

TypeOK ==
    /\ entry \in Loads \cup {Nil}
    /\ running \in BOOLEAN
    /\ containerID \in [Loads -> Loads \cup {Nil}]
    /\ conts \in [Loads -> {"none", "stopped", "running"}]
    /\ lines \in [Loads -> Seq(Nat)]
    /\ \A o \in Loads : Len(lines[o]) <= LogCap
    /\ subs \in [Loads -> SUBSET Followers]
    /\ outcome \in [Loads -> {"open", "failed"} \cup Loads]
    /\ lpc \in [Loads -> {"idle", "noPort", "returned"} \cup Working]
    /\ obj \in [Loads -> Loads \cup {Nil}]
    /\ fpc \in [Followers -> {"idle", "known", "find", "subscribe", "outcome",
                              "docker", "done"} \cup Following]
    /\ fobj \in [Followers -> Loads \cup {Nil}]
    /\ replay \in [Followers -> Seq(Nat)]
    /\ chan \in [Followers -> Seq(Nat)]
    /\ \A f \in Followers : Len(chan[f]) <= ChanCap
    /\ closed \in SUBSET Followers
    /\ got \in [Followers -> Seq(Nat)]
    /\ target \in [Followers -> Loads \cup {Nil}]
    /\ skipped \in SUBSET Followers

Init ==
    /\ entry = Nil /\ running = FALSE
    /\ containerID = [o \in Loads |-> Nil]
    /\ conts = [l \in Loads |-> "none"]
    /\ lines = [o \in Loads |-> << >>]
    /\ subs = [o \in Loads |-> {}]
    /\ outcome = [o \in Loads |-> "open"]
    /\ lpc = [l \in Loads |-> "idle"]
    /\ obj = [l \in Loads |-> Nil]
    /\ fpc = [f \in Followers |-> "idle"]
    /\ fobj = [f \in Followers |-> Nil]
    /\ replay = [f \in Followers |-> << >>]
    /\ chan = [f \in Followers |-> << >>]
    /\ closed = {}
    /\ got = [f \in Followers |-> << >>]
    /\ target = [f \in Followers |-> Nil]
    /\ skipped = {}

-----------------------------------------------------------------------------
(* progressLog *)

done(o) == outcome[o] # "open"

\* The number of the next line of log o.
NextLine(o) == IF lines[o] = << >> THEN 1 ELSE lines[o][Len(lines[o])] + 1

\* The last LogCap lines.
Retain(s) == IF Len(s) > LogCap THEN SubSeq(s, Len(s) - LogCap + 1, Len(s)) ELSE s

Full(f) == Len(chan[f]) = ChanCap

\* Mutant: the loader waits for a follower whose channel is full.
appendBlocking(o) ==
    IF done(o)
    THEN UNCHANGED <<lines, chan, skipped>>
    ELSE LET k == NextLine(o) IN
         /\ \A f \in subs[o] : ~Full(f)
         /\ lines' = [lines EXCEPT ![o] = Retain(Append(@, k))]
         /\ chan' = [f \in Followers |->
                       IF f \in subs[o] THEN Append(chan[f], k) ELSE chan[f]]
         /\ UNCHANGED skipped

\* A follower whose channel is full misses the line: the loader never waits.
append(o) ==
    IF done(o)
    THEN UNCHANGED <<lines, chan, skipped>>
    ELSE LET k == NextLine(o) IN
         /\ lines' = [lines EXCEPT ![o] = Retain(Append(@, k))]
         /\ chan' = [f \in Followers |->
                       IF f \in subs[o] /\ ~Full(f) THEN Append(chan[f], k) ELSE chan[f]]
         /\ skipped' = skipped \cup {f \in subs[o] : Full(f) /\ fpc[f] # "done"}

\* Mutant: the channels are closed, and the outcome is never there.
markWithoutOutcome(o, r) ==
    /\ closed' = closed \cup subs[o]
    /\ subs' = [subs EXCEPT ![o] = {}]
    /\ UNCHANGED outcome

\* Mutant: the followers are not told.
markSilently(o, r) ==
    /\ outcome' = [outcome EXCEPT ![o] = IF done(o) THEN @ ELSE r]
    /\ UNCHANGED <<closed, subs>>

\* markContainerStarted and markFailed: the first one counts, and closes the
\* channels of the followers.
mark(o, r) ==
    IF done(o)
    THEN UNCHANGED <<outcome, closed, subs>>
    ELSE /\ outcome' = [outcome EXCEPT ![o] = r]
         /\ closed' = closed \cup subs[o]
         /\ subs' = [subs EXCEPT ![o] = {}]

-----------------------------------------------------------------------------
(* LoadModel, by what it writes to the log and what a logs session can see *)

Loading == \E l \in Loads : lpc[l] \in Working

LGoto(l, p) == lpc' = [lpc EXCEPT ![l] = p]

\* The name of the next load: which one it is makes no difference.
NextLoad == CHOOSE l \in Loads : lpc[l] = "idle"

\* A load of a deployment that runs returns before it comes to the log.
LoadModel(l) ==
    /\ lpc[l] = "idle" /\ l = NextLoad /\ ~Loading /\ ~running
    /\ IF entry = Nil
       THEN entry' = l /\ obj' = [obj EXCEPT ![l] = l]
       ELSE obj' = [obj EXCEPT ![l] = entry] /\ UNCHANGED entry
    /\ LGoto(l, "port")
    /\ UNCHANGED <<running, containerID, conts, log, fpc, reader, channels>>

\* No free port: the load returns and neither ends its log nor drops its entry.
NoPort(l) ==
    /\ lpc[l] = "port"
    /\ LGoto(l, "noPort")
    /\ UNCHANGED <<table, conts, log, obj, fpc, reader, channels>>

\* A step of load l from p to q that writes a line.
Says(l, p, q) ==
    /\ lpc[l] = p
    /\ append(obj[l])
    /\ LGoto(l, q)
    /\ UNCHANGED <<table, conts, subs, outcome, obj, fpc, reader, closed>>

\* "Pulling image", and the progress of the pull.
SayPulling(l) == Says(l, "port", "pull")
SayProgress(l) ==
    Says(l, "pull", "pull") /\ NextLine(obj[l]) <= MaxPullLines + 1

\* The pull ends: "Image ready" or an error.
Pulled(l) == Says(l, "pull", "clear")
PullFails(l) == Says(l, "pull", "markFailed")

\* RemoveByName of a stale container, whose failure is a line and no more;
\* BuildContainerSpec before it may fail the load.
ClearStale(l) ==
    /\ lpc[l] = "clear"
    /\ conts' = [b \in Loads |-> "none"]
    /\ LGoto(l, "create")
    /\ UNCHANGED <<table, log, obj, fpc, reader, channels>>
ClearFails(l) == Says(l, "clear", "create")
SpecFails(l) == Says(l, "clear", "markFailed")

Create(l) ==
    /\ lpc[l] = "create"
    /\ \A b \in Loads : conts[b] = "none"
    /\ conts' = [conts EXCEPT ![l] = "stopped"]
    /\ LGoto(l, "setCid")
    /\ UNCHANGED <<table, log, obj, fpc, reader, channels>>
CreateFails(l) == Says(l, "create", "markFailed")

SetContainerID(l) ==
    /\ lpc[l] = "setCid"
    /\ containerID' = [containerID EXCEPT ![entry] = l]
    /\ LGoto(l, "starting")
    /\ UNCHANGED <<entry, running, conts, log, obj, fpc, reader, channels>>

SayStarting(l) == Says(l, "starting", "start")

\* Start succeeds; or it fails, perhaps after docker has done it, and the
\* container is removed again, if docker does.
Start(l) ==
    /\ lpc[l] = "start"
    /\ \E s \in {"none", "stopped", "running"} :
          /\ conts' = [conts EXCEPT ![l] = s]
          /\ \/ s = "running" /\ LGoto(l, "started")
             \/ LGoto(l, "failed")
    /\ UNCHANGED <<table, log, obj, fpc, reader, channels>>

SayStarted(l) == Says(l, "started", "mark")
SayFailed(l) == Says(l, "failed", "markFailed")

MarkContainerStarted(l) ==
    /\ lpc[l] = "mark"
    /\ mark(obj[l], l)
    /\ LGoto(l, "ready")
    /\ UNCHANGED <<table, conts, lines, obj, fpc, reader, chan, skipped>>

MarkFailed(l) ==
    /\ lpc[l] = "markFailed"
    /\ mark(obj[l], "failed")
    /\ LGoto(l, "drop")
    /\ UNCHANGED <<table, conts, lines, obj, fpc, reader, chan, skipped>>

\* Ready, and published; or stopped and removed, if docker does.
WaitReady(l) ==
    /\ lpc[l] = "ready"
    /\ \/ /\ containerID' = [containerID EXCEPT ![obj[l]] = l]
          /\ running' = TRUE
          /\ LGoto(l, "returned")
          /\ UNCHANGED conts
       \/ /\ \E s \in {"none", conts[l]} : conts' = [conts EXCEPT ![l] = s]
          /\ LGoto(l, "drop")
          /\ UNCHANGED <<containerID, running>>
    /\ UNCHANGED <<entry, log, obj, fpc, reader, channels>>

Drop(l) ==
    /\ lpc[l] = "drop"
    /\ entry' = Nil
    /\ LGoto(l, "returned")
    /\ UNCHANGED <<running, containerID, conts, log, obj, fpc, reader, channels>>

LoadStep(l) ==
    \/ NoPort(l) \/ SayPulling(l) \/ SayProgress(l) \/ Pulled(l) \/ PullFails(l)
    \/ ClearStale(l) \/ ClearFails(l) \/ SpecFails(l) \/ Create(l) \/ CreateFails(l)
    \/ SetContainerID(l) \/ SayStarting(l) \/ Start(l) \/ SayStarted(l) \/ SayFailed(l)
    \/ MarkContainerStarted(l) \/ MarkFailed(l) \/ WaitReady(l) \/ Drop(l)

\* UnloadModel: the container goes and the entry with it; an error of Stop or
\* Remove leaves the entry, whatever docker has done.
UnloadModel ==
    LET cid == containerID[entry] IN
    /\ entry # Nil /\ ~Loading
    /\ \/ cid = Nil /\ entry' = Nil /\ UNCHANGED conts
       \/ /\ cid # Nil /\ conts[cid] # "none"
          /\ conts' = [conts EXCEPT ![cid] = "none"]
          /\ entry' = Nil
       \/ /\ cid # Nil
          /\ \E s \in {conts[cid], "none"} : conts' = [conts EXCEPT ![cid] = s]
          /\ UNCHANGED entry
    /\ running' = FALSE
    /\ UNCHANGED <<containerID, log, lpc, obj, fpc, reader, channels>>

ContainerExits(l) ==
    /\ conts[l] = "running"
    /\ conts' = [conts EXCEPT ![l] = "stopped"]
    /\ UNCHANGED <<table, log, lpc, obj, fpc, reader, channels>>

-----------------------------------------------------------------------------
(* The logs session: DefaultLogsSpawn, progressLogsBackend.Stream *)

FGoto(f, p) == fpc' = [fpc EXCEPT ![f] = p]

\* The session is over, and what it held with it; a channel that is still in a
\* log's subs stays there.
Leave(f) ==
    /\ FGoto(f, "done")
    /\ fobj' = [fobj EXCEPT ![f] = Nil]
    /\ replay' = [replay EXCEPT ![f] = << >>]
    /\ got' = [got EXCEPT ![f] = << >>]
    /\ target' = [target EXCEPT ![f] = Nil]
    /\ skipped' = skipped \ {f}

\* ResolveContainer: the container in the table, or one that docker runs and
\* that it lists before the lookup times out.
Resolve(f) ==
    LET known == IF entry = Nil THEN {} ELSE {containerID[entry]} \ {Nil}
        found == IF known # {} THEN known ELSE {b \in Loads : conts[b] = "running"}
    IN  /\ fpc[f] = "idle"
        /\ \/ \E cid \in found :
                 target' = [target EXCEPT ![f] = cid] /\ FGoto(f, "docker")
           \/ known = {} /\ FGoto(f, "known") /\ UNCHANGED target
        /\ UNCHANGED <<table, conts, log, lpc, obj, fobj, replay, got, channels>>

\* DeploymentKnown, and progressOf in SubscribeProgress.
Look(f, p, q) ==
    /\ fpc[f] = p
    /\ \/ entry = Nil /\ Leave(f)
       \/ /\ entry # Nil
          /\ fobj' = [fobj EXCEPT ![f] = entry]
          /\ FGoto(f, q)
          /\ UNCHANGED <<replay, got, target, skipped>>
    /\ UNCHANGED <<table, conts, log, lpc, obj, chan, closed>>
DeploymentKnown(f) == Look(f, "known", "find")
progressOf(f) == Look(f, "find", "subscribe")

\* The copy of the lines and the subscription are one section.
subscribe(f) ==
    LET o == fobj[f] IN
    /\ fpc[f] = "subscribe"
    /\ replay' = [replay EXCEPT ![f] = lines[o]]
    /\ subs' = [subs EXCEPT ![o] = IF done(o) THEN @ ELSE @ \cup {f}]
    /\ closed' = IF done(o) THEN closed \cup {f} ELSE closed
    /\ FGoto(f, "replay")
    /\ UNCHANGED <<table, conts, lines, outcome, lpc, obj, fobj, got, target, chan,
                   skipped>>

\* Mutant: the lines are copied when they are passed on, after the subscription.
ReplayLate(f) ==
    /\ fpc[f] = "replay"
    /\ got' = [got EXCEPT ![f] = lines[fobj[f]]]
    /\ FGoto(f, "follow")
    /\ UNCHANGED <<table, conts, log, lpc, obj, fobj, replay, target, channels>>

\* The copy is passed on while new lines go to the channel.
Replay(f) ==
    /\ fpc[f] = "replay"
    /\ got' = [got EXCEPT ![f] = replay[f]]
    /\ FGoto(f, "follow")
    /\ UNCHANGED <<table, conts, log, lpc, obj, fobj, replay, target, channels>>

Receive(f) ==
    /\ fpc[f] = "follow" /\ chan[f] # << >>
    /\ got' = [got EXCEPT ![f] = Append(@, Head(chan[f]))]
    /\ chan' = [chan EXCEPT ![f] = Tail(@)]
    /\ UNCHANGED <<table, conts, log, lpc, obj, fpc, fobj, replay, target, closed,
                   skipped>>

\* The channel is closed and drained.
ChannelEnds(f) ==
    /\ fpc[f] = "follow" /\ chan[f] = << >> /\ f \in closed
    /\ FGoto(f, "outcome")
    /\ UNCHANGED <<table, conts, log, lpc, obj, reader, channels>>

\* outcome: the load failed, or the container's own logs are next.
Handoff(f) ==
    LET r == outcome[fobj[f]] IN
    /\ fpc[f] = "outcome"
    /\ IF r \in Loads
       THEN /\ target' = [target EXCEPT ![f] = r]
            /\ FGoto(f, "docker")
            /\ UNCHANGED <<fobj, replay, got, skipped>>
       ELSE Leave(f)
    /\ UNCHANGED <<table, conts, log, lpc, obj, chan, closed>>

\* dockerLogsBackend: the stream ends with the container, or never began.
DockerLogsEnd(f) ==
    /\ fpc[f] = "docker"
    /\ conts[target[f]] # "running"
    /\ Leave(f)
    /\ UNCHANGED <<table, conts, log, lpc, obj, chan, closed>>

FollowStep(f) ==
    \/ DeploymentKnown(f) \/ progressOf(f) \/ subscribe(f) \/ Replay(f)
    \/ Receive(f) \/ ChannelEnds(f) \/ Handoff(f) \/ DockerLogsEnd(f)

\* The session is closed; its channel stays with the log until the load ends.
Cancel(f) ==
    /\ fpc[f] \in Following \cup {"docker"}
    /\ Leave(f)
    /\ UNCHANGED <<table, conts, log, lpc, obj, chan, closed>>

-----------------------------------------------------------------------------

Next ==
    \/ \E l \in Loads : LoadModel(l) \/ LoadStep(l) \/ ContainerExits(l)
    \/ UnloadModel
    \/ \E f \in Followers : Resolve(f) \/ FollowStep(f) \/ Cancel(f)

Spec == Init /\ [][Next]_vars

\* Every docker call of a load ends, and a session that is not closed reads on.
\* The lines of a pull are finitely many, so a pull ends.
FairSpec ==
    /\ Spec
    /\ \A l \in Loads : WF_vars(LoadStep(l))
    /\ \A f \in Followers : WF_vars(FollowStep(f))

-----------------------------------------------------------------------------
(* Properties *)

Ascending(s) == \A i, j \in 1 .. Len(s) : i < j => s[i] < s[j]

\* A follower passes on the lines of the log in order and none of them twice,
\* however the subscription falls between the lines; and it misses none from
\* its first one on, unless its channel was full.
LinesInOrder ==
    \A f \in Followers :
        LET seen == got[f] \o chan[f] IN
        fpc[f] = "follow" =>
            /\ Ascending(seen)
            /\ f \notin skipped /\ seen # << >> =>
                   /\ Len(seen) = seen[Len(seen)] - seen[1] + 1
                   /\ seen[Len(seen)] = NextLine(fobj[f]) - 1

\* A follower whose channel has ended finds the outcome of the load, so none is
\* told "deployment ended", which Stream keeps for a log without one.
EndHasOutcome ==
    \A f \in Followers : fpc[f] = "outcome" => done(fobj[f])

\* A load comes to its end whatever its followers do: those that are slow and
\* those that are gone without having been taken off the list.  (One load is at
\* work at a time.)
LoadsEnd == Loading ~> ~Loading

\* "The channel is closed when the load terminates": a follower is not left
\* following a load that is over.  Excepted is the load that finds no port.
FollowersEnd ==
    \A f \in Followers :
        fpc[f] = "follow" ~>
            \/ fpc[f] # "follow"
            \/ \E l \in Loads : obj[l] = fobj[f] /\ lpc[l] = "noPort"

=============================================================================
