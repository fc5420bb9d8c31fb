------------------------------- MODULE Worker -------------------------------
(***************************************************************************)
(* The life of the worker process: main, the token store, the registration *)
(* that fills it, the readiness flag, and shutdown.                        *)
(*                                                                         *)
(* The process may be killed at any point and is started again by whoever  *)
(* supervises it; the token file survives.  The control plane issues a new *)
(* token for every registration it accepts, whether or not its answer      *)
(* arrives.                                                                *)
(*                                                                         *)
(* Grain.  One action is one operation on the file system or the network,  *)
(* or one step of a goroutine of main that another one can observe.        *)
(***************************************************************************)
EXTENDS Naturals, FiniteSets

CONSTANTS
    Jwts,      \* the tokens the control plane can issue
    NoToken,   \* an empty token, an absent file
    Part,      \* the contents of a file that is still being written
    MaxBoots   \* bound on starts of the process

ASSUME WorkerAssumption ==
    /\ NoToken \notin Jwts /\ Part \notin Jwts /\ NoToken # Part
    /\ MaxBoots \in Nat

VARIABLES
    \* what outlives the process: the token file, the control plane
    file, issued, presented, boots,
    \* main: where it is, BOOTSTRAP_TOKEN, TokenStore.tok, the answer of
    \* Register, the temporary file
    main, bootstrap, tok, answer, tmp,
    \* its goroutines: app.Listen, ch.Run, the sleeper that marks the worker
    \* ready; the ctx; a signal in sigs
    listener, channel, ready, cancelled, signal

outside    == <<file, issued, presented, boots>>
starting   == <<bootstrap, tok, answer, tmp>>
goroutines == <<listener, channel, ready, cancelled, signal>>
vars == <<file, issued, presented, boots, main, bootstrap, tok, answer, tmp,
          listener, channel, ready, cancelled, signal>>

Tokens == Jwts \cup {NoToken, Part}

TypeOK ==
    /\ file \in Tokens
    /\ issued \in SUBSET Jwts
    /\ presented \in SUBSET (Tokens \ {NoToken})
    /\ boots \in 0 .. MaxBoots
    /\ main \in {"off", "config", "store", "docker", "register", "create", "write",
                 "rename", "keep", "serve", "up", "closing", "wait"}
    /\ bootstrap \in BOOLEAN
    /\ tok \in Tokens /\ answer \in Tokens /\ tmp \in Tokens
    /\ listener \in {"none", "starting", "open", "returned"}
    /\ channel \in {"none", "dial", "open", "backoff", "returned"}
    /\ ready \in BOOLEAN /\ cancelled \in BOOLEAN /\ signal \in BOOLEAN

Init ==
    /\ file = NoToken /\ issued = {} /\ presented = {} /\ boots = 0
    /\ main = "off"
    /\ bootstrap = FALSE
    /\ tok = NoToken /\ answer = NoToken /\ tmp = NoToken
    /\ listener = "none" /\ channel = "none"
    /\ ready = FALSE /\ cancelled = FALSE /\ signal = FALSE

-----------------------------------------------------------------------------
(* Start-up *)

\* The process is gone, and its memory with it.
Gone ==
    /\ main' = "off"
    /\ tok' = NoToken /\ answer' = NoToken /\ tmp' = NoToken
    /\ listener' = "none" /\ channel' = "none"
    /\ ready' = FALSE /\ cancelled' = FALSE /\ signal' = FALSE

\* log.Fatalf at point p of main.
Fatal(p) ==
    /\ main = p
    /\ Gone
    /\ UNCHANGED <<file, issued, presented, boots, bootstrap>>

\* The operator may drop BOOTSTRAP_TOKEN, or set it again, before any start.
Boot ==
    /\ main = "off" /\ boots < MaxBoots
    /\ boots' = boots + 1
    /\ bootstrap' \in BOOLEAN
    /\ main' = "config"
    /\ UNCHANGED <<file, issued, presented, tok, answer, tmp, goroutines>>

FilePresent == file # NoToken

\* config.Load: BOOTSTRAP_TOKEN may be missing only if there is a token file.
LoadConfig ==
    /\ main = "config"
    /\ bootstrap \/ FilePresent
    /\ main' = "store"
    /\ UNCHANGED <<outside, starting, goroutines>>

NewTokenStore ==
    /\ main = "store"
    /\ tok' = file
    /\ main' = "docker"
    /\ UNCHANGED <<outside, bootstrap, answer, tmp, goroutines>>

\* Engine, Ping and EnsureNetwork; then "bootstrap if no token persisted".
DockerUp ==
    /\ main = "docker"
    /\ main' = IF tok = NoToken THEN "register" ELSE "serve"
    /\ UNCHANGED <<outside, starting, goroutines>>

\* Mutant: the status of the answer is not looked at.
RegisterUnchecked(j) ==
    /\ main = "register" /\ bootstrap
    /\ answer' = NoToken
    /\ main' = "create"
    /\ UNCHANGED <<outside, bootstrap, tok, tmp, goroutines>>

\* The control plane registers the worker; its answer arrives or is lost.
Register(j) ==
    /\ main = "register" /\ bootstrap
    /\ j \in Jwts \ issued
    /\ issued' = issued \cup {j}
    /\ answer' = j
    /\ main' = "create"
    /\ UNCHANGED <<file, presented, boots, bootstrap, tok, tmp, goroutines>>

RegisterLost(j) ==
    /\ main = "register" /\ bootstrap
    /\ j \in Jwts \ issued
    /\ issued' = issued \cup {j}
    /\ Gone
    /\ UNCHANGED <<file, presented, boots, bootstrap>>

-----------------------------------------------------------------------------
(* TokenStore.Set *)

\* Mutant: the token file itself is opened for writing.
CreateTempInPlace ==
    /\ main = "create"
    /\ tmp' = Part /\ file' = Part
    /\ main' = "write"
    /\ UNCHANGED <<issued, presented, boots, bootstrap, tok, answer, goroutines>>

CreateTemp ==
    /\ main = "create"
    /\ tmp' = Part
    /\ main' = "write"
    /\ UNCHANGED <<outside, bootstrap, tok, answer, goroutines>>

Write ==
    /\ main = "write"
    /\ tmp' = answer
    /\ main' = "rename"
    /\ UNCHANGED <<outside, bootstrap, tok, answer, goroutines>>

\* Mutant: an error of the rename is ignored.
RenameUnchecked ==
    /\ main = "rename"
    /\ file' \in {file, tmp} /\ tmp' = NoToken
    /\ main' = "keep"
    /\ UNCHANGED <<issued, presented, boots, bootstrap, tok, answer, goroutines>>

Rename ==
    /\ main = "rename"
    /\ file' = tmp /\ tmp' = NoToken
    /\ main' = "keep"
    /\ UNCHANGED <<issued, presented, boots, bootstrap, tok, answer, goroutines>>

KeepToken ==
    /\ main = "keep"
    /\ tok' = answer
    /\ main' = "serve"
    /\ UNCHANGED <<outside, bootstrap, answer, tmp, goroutines>>

-----------------------------------------------------------------------------
(* Serving *)

\* signal.Notify, and the goroutines of the server and of the channel.
Serve ==
    /\ main = "serve"
    /\ listener' = "starting" /\ channel' = "dial"
    /\ main' = "up"
    /\ UNCHANGED <<outside, starting, ready, cancelled, signal>>

Listen ==
    /\ listener = "starting"
    /\ listener' = "open"
    /\ UNCHANGED <<outside, main, starting, channel, ready, cancelled, signal>>

ListenFails ==
    /\ listener = "starting"
    /\ listener' = "returned"
    /\ cancelled' = TRUE
    /\ UNCHANGED <<outside, main, starting, channel, ready, signal>>

\* After two seconds, whatever the channel has done.
MarkReady ==
    /\ channel # "none" /\ ~ready
    /\ ready' = TRUE
    /\ UNCHANGED <<outside, main, starting, listener, channel, cancelled, signal>>

\* connectOnce presents the token of the store.
Dial ==
    /\ channel = "dial" /\ ~cancelled
    /\ presented' = presented \cup {tok}
    /\ channel' = "open"
    /\ UNCHANGED <<file, issued, boots, main, starting, listener, ready, cancelled,
                   signal>>

\* Mutant: the channel gives up when a dial fails.
DialFailsForGood ==
    /\ channel = "dial"
    /\ channel' = "returned"
    /\ UNCHANGED <<outside, main, starting, listener, ready, cancelled, signal>>

DialFails ==
    /\ channel = "dial"
    /\ channel' = "backoff"
    /\ UNCHANGED <<outside, main, starting, listener, ready, cancelled, signal>>

\* Hello, a read or a heartbeat fails.
Disconnect ==
    /\ channel = "open"
    /\ channel' = "backoff"
    /\ UNCHANGED <<outside, main, starting, listener, ready, cancelled, signal>>

Redial ==
    /\ channel = "backoff" /\ ~cancelled
    /\ channel' = "dial"
    /\ UNCHANGED <<outside, main, starting, listener, ready, cancelled, signal>>

\* ch.Run returns on the end of the ctx.
ChannelReturns ==
    /\ channel \in {"dial", "open", "backoff"} /\ cancelled
    /\ channel' = "returned"
    /\ UNCHANGED <<outside, main, starting, listener, ready, cancelled, signal>>

-----------------------------------------------------------------------------
(* Shutdown *)

Signal ==
    /\ main = "up" /\ ~signal
    /\ signal' = TRUE
    /\ UNCHANGED <<outside, main, starting, listener, channel, ready, cancelled>>

\* Mutant: the ctx is left to the deferred cancel.
TakeSignalOnly ==
    /\ main = "up" /\ signal
    /\ main' = "closing"
    /\ UNCHANGED <<outside, starting, goroutines>>

TakeSignal ==
    /\ main = "up" /\ signal
    /\ cancelled' = TRUE
    /\ main' = "closing"
    /\ UNCHANGED <<outside, starting, listener, channel, ready, signal>>

\* A server that listens stops; one that does not yet is left as it is.
ShutdownServer ==
    /\ main = "closing"
    /\ listener' = IF listener = "open" THEN "returned" ELSE listener
    /\ main' = "wait"
    /\ UNCHANGED <<outside, starting, channel, ready, cancelled, signal>>

\* wg.Wait returns.
Exit ==
    /\ main = "wait"
    /\ listener = "returned" /\ channel = "returned"
    /\ Gone
    /\ UNCHANGED <<file, issued, presented, boots, bootstrap>>

Kill ==
    /\ main # "off"
    /\ Gone
    /\ UNCHANGED <<file, issued, presented, boots, bootstrap>>

-----------------------------------------------------------------------------

\* A step of main that ends in log.Fatalf: a bad configuration, an unreadable
\* file, docker, the control plane's refusal, a full disk.
Fails == \E p \in {"config", "store", "docker", "register", "create", "write", "rename"} :
            Fatal(p)

MainStep ==
    \/ LoadConfig \/ NewTokenStore \/ DockerUp
    \/ \E j \in Jwts : Register(j) \/ RegisterLost(j)
    \/ CreateTemp \/ Write \/ Rename \/ KeepToken \/ Serve \/ Fails
    \/ TakeSignal \/ ShutdownServer \/ Exit

ListenStep == Listen \/ ListenFails

ChannelStep == Dial \/ DialFails \/ Redial \/ ChannelReturns

Next ==
    \/ Boot \/ MainStep \/ ListenStep \/ ChannelStep
    \/ MarkReady \/ Disconnect \/ Signal \/ Kill

Spec == Init /\ [][Next]_vars

\* The goroutines run on; a dial that is tried again and again succeeds at last,
\* when the control plane is back.
FairSpec ==
    /\ Spec
    /\ WF_vars(MainStep) /\ WF_vars(ListenStep) /\ WF_vars(ChannelStep)
    /\ SF_vars(Dial)

-----------------------------------------------------------------------------
(* Properties *)

\* Every token the worker presents was issued to it, whole: no crash during
\* Set makes a later start present what is left of a file.
TokenIsIssued == presented \subseteq issued

\* The control plane never meets one worker under two tokens: a token that was
\* presented is the one every later start finds, though registrations whose
\* answer was lost, or that a crash cut short, may have issued others.
OneIdentity ==
    /\ Cardinality(presented) <= 1
    /\ presented # {} => file \in presented

\* A worker that is not being stopped gets back to the control plane.
Reconnects ==
    channel \in {"dial", "backoff"} ~> channel = "open" \/ cancelled \/ main = "off"

\* Once main has caught a signal, the process ends.  Excepted is a signal that
\* comes before app.Listen: the shutdown finds no server to stop, and main waits
\* for the one that starts afterwards.
SignalStops ==
    signal ~> main = "off" \/ (main = "wait" /\ listener = "open")

=============================================================================
