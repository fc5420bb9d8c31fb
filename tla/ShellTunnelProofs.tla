-------------------------- MODULE ShellTunnelProofs --------------------------
(***************************************************************************)
(* Proofs about ShellTunnel, for any number of frames and streams: its     *)
(* type invariant and, for a control plane that never uses a stream id     *)
(* twice, that no session outlives its connection.                         *)
(*                                                                         *)
(* SessionsEndWithConnection speaks of the end of the teardown only.  It   *)
(* is made inductive by Owned: at every moment a live session is held by   *)
(* somebody who can close it: its own handler, the table, the teardown or  *)
(* a close handler.                                                        *)
(***************************************************************************)
EXTENDS ShellTunnel, TLAPS

\* A frame that has arrived names a stream, and a close handler that found a
\* session has it in hand.
FramesHaveStreams ==
    /\ \A o \in Opens : opc[o] # "idle" => stream[o] \in Streams
    /\ \A k \in Closes :
          /\ cpc[k] # "idle" => cstream[k] \in Streams
          /\ cpc[k] = "close" => found[k] \in Opens

TypeInv == TypeOK /\ FramesHaveStreams

\* TypeInv is inductive.
LEMMA TypeInvHolds == Spec => []TypeInv
<1>1. Init => TypeInv
  <2> SUFFICES ASSUME Init PROVE TypeInv
    OBVIOUS
  <2>1. disposed \in BOOLEAN
    BY DEF Init
  <2>2. FramesHaveStreams
    BY DEF Init, FramesHaveStreams
  <2> QED
    BY <2>1, <2>2 DEF Init, TypeInv, TypeOK
<1>2. TypeInv /\ [Next]_vars => TypeInv'
  <2> SUFFICES ASSUME TypeInv, [Next]_vars PROVE TypeInv'
    OBVIOUS
  <2> USE TunnelAssumption DEF TypeInv, TypeOK, FramesHaveStreams, Opening
  <2>1. CASE UNCHANGED vars
    BY <2>1 DEF vars
  <2>2. ASSUME NEW o \in Opens, NEW s \in Streams, OpenArrives(o, s)
        PROVE  TypeInv'
    BY <2>2 DEF OpenArrives, tunnel, tear, session, closer
  <2>3. ASSUME NEW k \in Closes, NEW s \in Streams, CloseArrives(k, s)
        PROVE  TypeInv'
    BY <2>3 DEF CloseArrives, tunnel, tear, opener, session
  <2>4. ASSUME NEW o \in Opens, CloseReturns(o) PROVE TypeInv'
    BY <2>4 DEF CloseReturns, tunnel, opener, closer
  <2>5. ASSUME NEW o \in Opens, PumpEnds(o) PROVE TypeInv'
    BY <2>5 DEF PumpEnds, tunnel, tear, opener, closer
  <2>6. ASSUME NEW o \in Opens, Reap(o) PROVE TypeInv'
    BY <2>6 DEF Reap, tear, opener, closer
  <2>7. ASSUME NEW o \in Opens, Report(o) PROVE TypeInv'
    BY <2>7 DEF Report, tunnel, opener, closer
  <2>8. ASSUME NEW o \in Opens, SessionEnds(o) PROVE TypeInv'
    BY <2>8 DEF SessionEnds, tunnel, tear, opener, closer
  <2>9. ASSUME NEW o \in Opens, CheckOpen(o) PROVE TypeInv'
    BY <2>9 DEF CheckOpen, tunnel, tear, session, closer
  <2>10. ASSUME NEW o \in Opens, Spawn(o) PROVE TypeInv'
    BY <2>10 DEF Spawn, tunnel, tear, closer
  <2>11. ASSUME NEW o \in Opens, Register(o) PROVE TypeInv'
    BY <2>11 DEF Register, tear, session, closer
  <2>12. ASSUME NEW o \in Opens, DiscardSpawned(o) PROVE TypeInv'
    BY <2>12 DEF DiscardSpawned, Close, tunnel, tear, closer
  <2>13. ASSUME NEW k \in Closes, TakeSession(k) PROVE TypeInv'
    BY <2>13 DEF TakeSession, tear, opener, session
  <2>14. ASSUME NEW k \in Closes, CloseSession(k) PROVE TypeInv'
    BY <2>14 DEF CloseSession, Close, tunnel, tear, opener
  <2>15. CASE Disconnect
    BY <2>15 DEF Disconnect, tunnel, opener, session, closer
  <2>16. CASE CloseAll
    BY <2>16 DEF CloseAll, opener, session, closer
  <2>17. ASSUME NEW o \in Opens, CloseNext(o) PROVE TypeInv'
    BY <2>17 DEF CloseNext, Close, tunnel, opener, closer
  <2>18. ASSUME NEW o \in Opens, DropOpen(o) PROVE TypeInv'
    BY <2>18 DEF DropOpen, tunnel, tear, session, closer
  <2>19. ASSUME NEW k \in Closes, DropClose(k) PROVE TypeInv'
    BY <2>19 DEF DropClose, tunnel, tear, opener, session
  <2>20. CASE TeardownEnds
    BY <2>20 DEF TeardownEnds, tunnel, opener, session, closer
  <2> QED
    BY <2>1, <2>2, <2>3, <2>4, <2>5, <2>6, <2>7, <2>8, <2>9, <2>10, <2>11,
       <2>12, <2>13, <2>14, <2>15, <2>16, <2>17, <2>18, <2>19, <2>20
    DEF Next, SessionStep, OpenStep, CloseStep, TearStep
<1> QED BY <1>1, <1>2, PTL DEF Spec

\* The tunnel's type invariant (tunnel.shells, tunnel.disposed and the
\* sessions' own fields) holds for every set of frames and streams.
THEOREM TunnelTypeCorrect == Spec => []TypeOK
BY TypeInvHolds, PTL DEF TypeInv

-----------------------------------------------------------------------------
(* Who can still close a session *)

\* A live session is in the hands of its own handler, of the table, of the
\* teardown or of a close handler.
Owned ==
    \A o \in Opens :
        backend[o] = "live" =>
            \/ opc[o] \in {"register", "discard"}
            \/ \E s \in Streams : table[s] = o
            \/ o \in doomed
            \/ \E k \in Closes : cpc[k] = "close" /\ found[k] = o

\* No two frames share a stream.
StreamsDistinct ==
    \A o, p \in Opens : stream[o] = stream[p] /\ stream[o] # Nil => o = p

\* The table holds sessions under their own stream, after their handlers.
TableInv ==
    \A s \in Streams :
        table[s] # Nil => stream[table[s]] = s /\ opc[table[s]] = "done"

\* A session exists once it is spawned, is reaped after its end, and passes
\* to others after its handler.
SessionInv ==
    \A o \in Opens :
        /\ opc[o] \in {"idle", "check", "spawn"} =>
              backend[o] = "none" /\ pump[o] = "none"
        /\ pump[o] = "reaping" => backend[o] = "ended"
        /\ o \in doomed => opc[o] = "done"
        /\ \A k \in Closes : cpc[k] = "close" /\ found[k] = o => opc[o] = "done"

\* The teardown empties the table for good and then its own list.
TearInv ==
    /\ link \in {"up", "cancelled", "closed"} => doomed = {}
    /\ link \in {"closing", "closed"} => disposed
    /\ disposed => \A s \in Streams : table[s] = Nil

OwnInv ==
    /\ Owned
    /\ StreamsDistinct
    /\ TableInv
    /\ SessionInv
    /\ TearInv

LEMMA OwnInit == Init => OwnInv
  BY DEF Init, OwnInv, Owned, StreamsDistinct, TableInv, SessionInv, TearInv

\* Each action keeps a session in somebody's hands.
LEMMA OwnNext ==
    ASSUME FreshIds, TypeInv, OwnInv, [Next]_vars
    PROVE  OwnInv'
<1> USE TunnelAssumption
    DEF TypeInv, TypeOK, FramesHaveStreams, Opening, OwnInv, Owned, StreamsDistinct,
        TableInv, SessionInv, TearInv
<1>1. CASE UNCHANGED vars
  BY <1>1 DEF vars
<1>2. ASSUME NEW o \in Opens, NEW s \in Streams, OpenArrives(o, s)
      PROVE  OwnInv'
  BY <1>2 DEF OpenArrives, tunnel, tear, session, closer
<1>3. ASSUME NEW k \in Closes, NEW s \in Streams, CloseArrives(k, s)
      PROVE  OwnInv'
  BY <1>3 DEF CloseArrives, tunnel, tear, opener, session
<1>4. ASSUME NEW o \in Opens, CloseReturns(o) PROVE OwnInv'
  BY <1>4 DEF CloseReturns, tunnel, opener, closer
<1>5. ASSUME NEW o \in Opens, PumpEnds(o) PROVE OwnInv'
  BY <1>5 DEF PumpEnds, tunnel, tear, opener, closer
<1>6. ASSUME NEW o \in Opens, Reap(o) PROVE OwnInv'
  BY <1>6 DEF Reap, tear, opener, closer
<1>7. ASSUME NEW o \in Opens, Report(o) PROVE OwnInv'
  BY <1>7 DEF Report, tunnel, opener, closer
<1>8. ASSUME NEW o \in Opens, SessionEnds(o) PROVE OwnInv'
  BY <1>8 DEF SessionEnds, tunnel, tear, opener, closer
<1>9. ASSUME NEW o \in Opens, CheckOpen(o) PROVE OwnInv'
  BY <1>9 DEF CheckOpen, tunnel, tear, session, closer
<1>10. ASSUME NEW o \in Opens, Spawn(o) PROVE OwnInv'
  BY <1>10 DEF Spawn, tunnel, tear, closer
<1>11. ASSUME NEW o \in Opens, Register(o) PROVE OwnInv'
  BY <1>11 DEF Register, tear, session, closer
<1>12. ASSUME NEW o \in Opens, DiscardSpawned(o) PROVE OwnInv'
  BY <1>12 DEF DiscardSpawned, Close, tunnel, tear, closer
<1>13. ASSUME NEW k \in Closes, TakeSession(k) PROVE OwnInv'
  BY <1>13 DEF TakeSession, tear, opener, session
<1>14. ASSUME NEW k \in Closes, CloseSession(k) PROVE OwnInv'
  BY <1>14 DEF CloseSession, Close, tunnel, tear, opener
<1>15. CASE Disconnect
  BY <1>15 DEF Disconnect, tunnel, opener, session, closer
<1>16. CASE CloseAll
  BY <1>16 DEF CloseAll, opener, session, closer
<1>17. ASSUME NEW o \in Opens, CloseNext(o) PROVE OwnInv'
  BY <1>17 DEF CloseNext, Close, tunnel, opener, closer
<1>18. ASSUME NEW o \in Opens, DropOpen(o) PROVE OwnInv'
  BY <1>18 DEF DropOpen, tunnel, tear, session, closer
<1>19. ASSUME NEW k \in Closes, DropClose(k) PROVE OwnInv'
  BY <1>19 DEF DropClose, tunnel, tear, opener, session
<1>20. CASE TeardownEnds
  BY <1>20 DEF TeardownEnds, tunnel, opener, session, closer
<1> QED
  BY <1>1, <1>2, <1>3, <1>4, <1>5, <1>6, <1>7, <1>8, <1>9, <1>10, <1>11,
     <1>12, <1>13, <1>14, <1>15, <1>16, <1>17, <1>18, <1>19, <1>20
  DEF Next, SessionStep, OpenStep, CloseStep, TearStep

\* After CloseAll has returned, a shell or logs session still runs only in a
\* handler that is about to close it: with fresh stream ids no interleaving of
\* handleShellOpen, handleShellClose, the read pumps and CloseAll leaks one.
THEOREM SessionsEnd ==
    ASSUME FreshIds
    PROVE  Spec => []SessionsEndWithConnection
<1>1. TypeInv /\ OwnInv /\ [Next]_vars => OwnInv'
  BY OwnNext
<1>2. OwnInv => SessionsEndWithConnection
  BY TunnelAssumption DEF OwnInv, Owned, TearInv, SessionsEndWithConnection
<1> QED
  BY OwnInit, TypeInvHolds, <1>1, <1>2, PTL DEF Spec

=============================================================================
