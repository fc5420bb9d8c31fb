---------------------------- MODULE ModelService ----------------------------
(***************************************************************************)
(* What the worker promises the control plane about the commands it        *)
(* accepts, with the containers, ports and locks left out: which           *)
(* deployments are served, and what the answer to a command means.         *)
(***************************************************************************)
CONSTANTS Calls, Ids, Nil

VARIABLES
    serving,   \* the deployments the worker reports as loaded
    phase,     \* where each command is
    op, id     \* what each command asks for

svars == <<serving, phase, op, id>>

SInit ==
    /\ serving = {}
    /\ phase = [c \in Calls |-> "idle"]
    /\ op = [c \in Calls |-> "none"]
    /\ id = [c \in Calls |-> Nil]

Becomes(c, p) == phase' = [phase EXCEPT ![c] = p]
Pending(c, o) == phase[c] = "pending" /\ op[c] = o

\* A command arrives.  Unloading what is not there is answered at once.
Submit(c, o, i) ==
    /\ phase[c] = "idle"
    /\ op' = [op EXCEPT ![c] = o]
    /\ id' = [id EXCEPT ![c] = i]
    /\ \/ Becomes(c, "pending")
       \/ o = "unload" /\ i \notin serving /\ Becomes(c, "ok")
    /\ UNCHANGED serving

\* "ok" means that the deployment is served from here on ...
LoadOk(c) ==
    /\ Pending(c, "load")
    /\ serving' = serving \cup {id[c]}
    /\ Becomes(c, "ok")
    /\ UNCHANGED <<op, id>>

\* ... and a failed load never stops a deployment that was.
LoadErr(c) ==
    /\ Pending(c, "load")
    /\ id[c] \notin serving
    /\ Becomes(c, "err")
    /\ UNCHANGED <<serving, op, id>>

\* An unload first takes its deployment out of service,
Withdraw(c) ==
    /\ Pending(c, "unload")
    /\ serving' = serving \ {id[c]}
    /\ UNCHANGED <<phase, op, id>>

\* and whatever the answer, it is not served when the answer is given.
UnloadDone(c) ==
    /\ Pending(c, "unload")
    /\ id[c] \notin serving
    /\ \E r \in {"ok", "err"} : Becomes(c, r)
    /\ UNCHANGED <<serving, op, id>>

\* A worker that dies serves nothing and answers nothing.
Die ==
    /\ serving' = {}
    /\ phase' = [c \in Calls |->
                   IF phase[c] = "pending" THEN "killed" ELSE phase[c]]
    /\ UNCHANGED <<op, id>>

SNext ==
    \/ \E c \in Calls, i \in Ids, o \in {"load", "unload"} : Submit(c, o, i)
    \/ \E c \in Calls :
          LoadOk(c) \/ LoadErr(c) \/ Withdraw(c) \/ UnloadDone(c)
    \/ Die

SSpec == SInit /\ [][SNext]_svars
=============================================================================
