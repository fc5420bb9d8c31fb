-------------------------- MODULE ProgressLogProofs --------------------------
(***************************************************************************)
(* Theorems about ProgressLog, for any number of loads and logs sessions   *)
(* and any capacity of the log and of the channels.                        *)
(*                                                                         *)
(* A session sees a log through two sequences, the copy it took when it    *)
(* subscribed and its channel, which the loader fills while the copy is    *)
(* passed on.  The invariant is about the two together: they are an        *)
(* ascending run of line numbers that ends where the log does, as long as  *)
(* no line was dropped.                                                    *)
(***************************************************************************)
EXTENDS ProgressLog, SequenceTheorems, TLAPS

-----------------------------------------------------------------------------
(* Sequences of line numbers *)

\* Consecutive numbers.
Run(s) == \A i \in 1 .. Len(s) : s[i] = s[1] + (i - 1)

\* s ascends and stays below n; if it is whole it is a run that ends at n - 1.
Follows(s, n, whole) ==
    /\ Ascending(s)
    /\ s # << >> => s[Len(s)] < n
    /\ whole /\ s # << >> => Run(s) /\ s[Len(s)] = n - 1

LEMMA RunAscends ==
    ASSUME NEW s \in Seq(Nat), Run(s)
    PROVE  Ascending(s)
<1> SUFFICES ASSUME NEW i \in 1 .. Len(s), NEW j \in 1 .. Len(s), i < j
             PROVE  s[i] < s[j]
  BY DEF Ascending
<1>1. Len(s) \in Nat /\ 1 \in 1 .. Len(s)
  BY LenProperties
<1>2. s[1] \in Nat
  BY <1>1, ElementOfSeq
<1>3. s[i] = s[1] + (i - 1) /\ s[j] = s[1] + (j - 1)
  BY DEF Run
<1> QED
  BY <1>1, <1>2, <1>3

LEMMA FollowsAppend ==
    ASSUME NEW s \in Seq(Nat), NEW n \in Nat, NEW whole \in BOOLEAN, Follows(s, n, whole)
    PROVE  Follows(Append(s, n), n + 1, whole)
<1> DEFINE t == Append(s, n)
<1>1. /\ Len(s) \in Nat /\ Len(t) = Len(s) + 1 /\ t # << >>
      /\ \A i \in 1 .. Len(s) : t[i] = s[i] /\ s[i] \in Nat
      /\ t[Len(s) + 1] = n
  BY LenProperties, AppendProperties, ElementOfSeq
<1>2. s = << >> <=> Len(s) = 0
  BY EmptySeq, LenProperties
<1> HIDE DEF t
<1>3. Ascending(t)
  <2> SUFFICES ASSUME NEW i \in 1 .. Len(t), NEW j \in 1 .. Len(t), i < j
               PROVE  t[i] < t[j]
    BY DEF Ascending
  <2>1. i \in 1 .. Len(s) /\ (j \in 1 .. Len(s) \/ j = Len(s) + 1)
    BY <1>1
  <2>2. CASE j \in 1 .. Len(s)
    BY <1>1, <2>1, <2>2 DEF Follows, Ascending
  <2>3. CASE j = Len(s) + 1
    <3>1. Len(s) \in 1 .. Len(s) /\ s # << >>
      BY <1>1, <1>2, <2>1
    <3>2. i = Len(s) \/ s[i] < s[Len(s)]
      BY <1>1, <2>1, <3>1 DEF Follows, Ascending
    <3>3. s[Len(s)] < n
      BY <3>1 DEF Follows
    <3> QED
      BY <1>1, <2>1, <2>3, <3>1, <3>2, <3>3
  <2> QED
    BY <2>1, <2>2, <2>3
<1>4. whole => Run(t)
  <2> SUFFICES ASSUME whole, NEW i \in 1 .. Len(t) PROVE t[i] = t[1] + (i - 1)
    BY DEF Run
  <2>1. CASE Len(s) = 0
    BY <1>1, <2>1
  <2>2. CASE Len(s) # 0
    <3>1. 1 \in 1 .. Len(s) /\ Len(s) \in 1 .. Len(s)
      BY <1>1, <2>2
    <3>2. s[Len(s)] = s[1] + (Len(s) - 1) /\ s[Len(s)] = n - 1
      BY <1>2, <2>2, <3>1 DEF Follows, Run
    <3>3. t[1] = s[1] /\ s[1] \in Nat
      BY <1>1, <3>1
    <3>4. CASE i \in 1 .. Len(s)
      BY <1>1, <1>2, <2>2, <3>3, <3>4 DEF Follows, Run
    <3>5. CASE i = Len(s) + 1
      BY <1>1, <3>2, <3>3, <3>5
    <3> QED
      BY <1>1, <3>4, <3>5
  <2> QED
    BY <2>1, <2>2
<1>5. t[Len(t)] = n
  BY <1>1
<1> QED
  BY <1>3, <1>4, <1>5 DEF Follows, t

\* What a log keeps of a run is a run that ends with it.
LEMMA RetainRuns ==
    ASSUME NEW s \in Seq(Nat), Run(s), s # << >>
    PROVE  /\ Retain(s) \in Seq(Nat) /\ Run(Retain(s)) /\ Retain(s) # << >>
           /\ Retain(s)[Len(Retain(s))] = s[Len(s)]
           /\ Len(Retain(s)) <= LogCap
<1>1. Len(s) \in Nat /\ LogCap \in Nat \ {0}
  BY LenProperties, ProgressAssumption
<1>2. CASE ~(Len(s) > LogCap)
  BY <1>1, <1>2 DEF Retain
<1>3. CASE Len(s) > LogCap
  <2> DEFINE m == Len(s) - LogCap + 1
             t == SubSeq(s, m, Len(s))
  <2>1. m \in 1 .. Len(s) /\ m \in Nat /\ Len(s) \in 1 .. Len(s)
    BY <1>1, <1>3
  <2>2. /\ t \in Seq(Nat) /\ Len(t) = LogCap
        /\ \A i \in 1 .. LogCap : t[i] = s[m + i - 1]
    BY <1>1, <1>3, <2>1, SubSeqProperties
  <2>3. Retain(s) = t
    BY <1>3 DEF Retain
  <2>4. \A i \in 1 .. Len(s) : s[i] = s[1] + (i - 1)
    BY DEF Run
  <2>5. s[1] \in Nat
    BY <1>1, <1>3, ElementOfSeq
  <2> HIDE DEF t
  <2>6. Run(t)
    <3> SUFFICES ASSUME NEW i \in 1 .. LogCap PROVE t[i] = t[1] + (i - 1)
      BY <2>2 DEF Run
    <3>1. m + i - 1 \in 1 .. Len(s) /\ m + 1 - 1 \in 1 .. Len(s) /\ 1 \in 1 .. LogCap
      BY <1>1, <1>3
    <3>2. t[i] = s[m + i - 1] /\ t[1] = s[m + 1 - 1]
      BY <2>2, <3>1
    <3>3. t[i] = s[1] + ((m + i - 1) - 1) /\ t[1] = s[1] + ((m + 1 - 1) - 1)
      BY <2>4, <3>1, <3>2
    <3> QED
      BY <1>1, <2>5, <3>3
  <2>7. t[Len(t)] = s[Len(s)]
    <3>1. LogCap \in 1 .. LogCap /\ m + LogCap - 1 = Len(s)
      BY <1>1
    <3> QED
      BY <2>2, <3>1
  <2>8. t # << >>
    BY <1>1, <2>2, EmptySeq
  <2> QED
    BY <1>1, <2>2, <2>3, <2>6, <2>7, <2>8
<1> QED
  BY <1>2, <1>3

LEMMA ConcatAppend ==
    ASSUME NEW g \in Seq(Nat), NEW c \in Seq(Nat), NEW k \in Nat
    PROVE  g \o Append(c, k) = Append(g \o c, k)
<1>1. <<k>> \in Seq(Nat) /\ g \o c \in Seq(Nat)
  BY ConcatProperties
<1>2. Append(c, k) = c \o <<k>> /\ Append(g \o c, k) = (g \o c) \o <<k>>
  BY <1>1, AppendIsConcat
<1> QED
  BY <1>1, <1>2, ConcatAssociative

\* Receiving moves a line from the channel to what was passed on.
LEMMA PassedOn ==
    ASSUME NEW g \in Seq(Nat), NEW c \in Seq(Nat), c # << >>
    PROVE  /\ Append(g, Head(c)) \in Seq(Nat) /\ Tail(c) \in Seq(Nat)
           /\ Append(g, Head(c)) \o Tail(c) = g \o c
           /\ Len(Tail(c)) <= Len(c)
<1>1. /\ Head(c) \in Nat /\ Tail(c) \in Seq(Nat) /\ Len(Tail(c)) = Len(c) - 1
      /\ Head(c) = c[1] /\ \A i \in 1 .. Len(Tail(c)) : Tail(c)[i] = c[i + 1]
  BY HeadTailProperties
<1>2. Len(g) \in Nat /\ Len(c) \in Nat /\ Len(c) # 0
  BY LenProperties, EmptySeq
<1> DEFINE a == Append(g, Head(c))
           u == a \o Tail(c)
           v == g \o c
<1>3. /\ a \in Seq(Nat) /\ Len(a) = Len(g) + 1
      /\ \A i \in 1 .. Len(g) : a[i] = g[i]
      /\ a[Len(g) + 1] = c[1]
  BY <1>1, AppendProperties
<1>4. /\ u \in Seq(Nat) /\ Len(u) = Len(a) + Len(Tail(c))
      /\ \A i \in 1 .. Len(a) + Len(Tail(c)) :
            u[i] = IF i <= Len(a) THEN a[i] ELSE Tail(c)[i - Len(a)]
  BY <1>1, <1>3, ConcatProperties
<1>5. /\ v \in Seq(Nat) /\ Len(v) = Len(g) + Len(c)
      /\ \A i \in 1 .. Len(g) + Len(c) :
            v[i] = IF i <= Len(g) THEN g[i] ELSE c[i - Len(g)]
  BY ConcatProperties
<1> HIDE DEF a, u, v
<1>6. /\ Len(u) = Len(v) /\ Len(u) = Len(g) + Len(c)
      /\ Len(a) + Len(Tail(c)) = Len(g) + Len(c)
  BY <1>1, <1>2, <1>3, <1>4, <1>5
<1>7. ASSUME NEW i \in 1 .. Len(u) PROVE u[i] = v[i]
  <2>0. /\ i \in 1 .. Len(a) + Len(Tail(c)) /\ i \in 1 .. Len(g) + Len(c)
        /\ i \in Nat \ {0}
    BY <1>2, <1>6, <1>7
  <2>1. CASE i <= Len(g)
    <3>0. i <= Len(a) /\ i \in 1 .. Len(g)
      BY <1>2, <1>3, <2>0, <2>1
    <3>1. u[i] = a[i] /\ a[i] = g[i]
      BY <1>3, <1>4, <2>0, <3>0
    <3>2. v[i] = g[i]
      BY <1>5, <2>0, <2>1
    <3> QED
      BY <3>1, <3>2
  <2>2. CASE i = Len(g) + 1
    <3>1. u[i] = c[1]
      BY <1>2, <1>3, <1>4, <2>0, <2>2
    <3>2. i - Len(g) = 1 /\ ~(i <= Len(g))
      BY <1>2, <2>2
    <3>3. v[i] = c[1]
      BY <1>5, <2>0, <3>2
    <3> QED
      BY <3>1, <3>3
  <2>3. CASE i > Len(g) + 1
    <3>1. /\ i - Len(a) \in 1 .. Len(Tail(c)) /\ i - Len(a) + 1 = i - Len(g)
          /\ ~(i <= Len(a)) /\ ~(i <= Len(g))
      BY <1>1, <1>2, <1>3, <2>0, <2>3
    <3>2. u[i] = Tail(c)[i - Len(a)] /\ v[i] = c[i - Len(g)]
      BY <1>4, <1>5, <2>0, <3>1
    <3>3. Tail(c)[i - Len(a)] = c[i - Len(a) + 1]
      BY <1>1, <3>1
    <3> QED
      BY <3>1, <3>2, <3>3
  <2> QED
    BY <1>2, <2>0, <2>1, <2>2, <2>3
<1>8. u = v
  BY <1>4, <1>5, <1>6, <1>7, SeqEqual
<1> QED
  BY <1>1, <1>2, <1>3, <1>8 DEF a, u, v

-----------------------------------------------------------------------------
(* The inductive invariant *)

Early == {"idle", "known", "find", "subscribe"}

\* What a session has of its log: the copy, passed on or not, and the channel.
Stream(f) == (IF fpc[f] = "replay" THEN replay[f] ELSE got[f]) \o chan[f]

WorkHasObject == \A l \in Loads : lpc[l] \in Working => obj[l] \in Loads

LogsRun == \A o \in Loads : Run(lines[o])

\* A channel that a log knows is open, and so is the log; no other knows it.
Subscribed ==
    \A o \in Loads : \A f \in subs[o] :
        /\ ~done(o)
        /\ f \notin closed
        /\ fpc[f] = "done" \/ (fpc[f] \in Following /\ fobj[f] = o)
        /\ \A p \in Loads \ {o} : f \notin subs[p]

NotYet == \A f \in Followers : fpc[f] \in Early => f \notin closed /\ chan[f] = << >>

\* A session that follows a log is known to it until the log is done.
Told ==
    \A f \in Followers :
        /\ fpc[f] \in Following \cup {"subscribe", "outcome"} => fobj[f] \in Loads
        /\ fpc[f] \in Following =>
              IF f \in closed THEN done(fobj[f]) ELSE f \in subs[fobj[f]]
        /\ fpc[f] = "outcome" => done(fobj[f])

Streams ==
    \A f \in Followers :
        fpc[f] \in Following => Follows(Stream(f), NextLine(fobj[f]), f \notin skipped)

FollowInv == LogsRun /\ Subscribed /\ NotYet /\ Told /\ Streams

Inv == TypeOK /\ WorkHasObject /\ FollowInv

LEMMA InvInit == Init => Inv
<1> SUFFICES ASSUME Init PROVE Inv
  OBVIOUS
<1>1. << >> \in Seq(Nat) /\ Len(<< >>) = 0
  BY EmptySeq
<1>2. LogCap \in Nat /\ ChanCap \in Nat
  BY ProgressAssumption
<1>3. TypeOK
  <2>1. running \in BOOLEAN
    BY DEF Init
  <2>2. /\ \A o \in Loads : Len(lines[o]) <= LogCap
        /\ \A f \in Followers : Len(chan[f]) <= ChanCap
    BY <1>1, <1>2 DEF Init
  <2>3. /\ lines \in [Loads -> Seq(Nat)]
        /\ replay \in [Followers -> Seq(Nat)]
        /\ chan \in [Followers -> Seq(Nat)]
        /\ got \in [Followers -> Seq(Nat)]
    BY <1>1 DEF Init
  <2> QED
    BY <2>1, <2>2, <2>3 DEF Init, TypeOK
<1>4. LogsRun
  BY <1>1 DEF Init, LogsRun, Run
<1>5. WorkHasObject /\ Subscribed /\ NotYet /\ Told /\ Streams
  BY DEF Init, WorkHasObject, Working, Subscribed, NotYet, Told, Streams, Following
<1> QED
  BY <1>3, <1>4, <1>5 DEF Inv, FollowInv

-----------------------------------------------------------------------------
(* Steps of the loads *)

\* Steps that leave the logs and the sessions alone.
LEMMA QuietStep ==
    ASSUME Inv, UNCHANGED <<log, fpc, reader, channels>>
    PROVE  FollowInv'
  BY DEF Inv, FollowInv, log, reader, channels, LogsRun, Subscribed, NotYet, Told,
         Streams, Stream, NextLine, done

LEMMA NextLineType ==
    ASSUME Inv, NEW o \in Loads
    PROVE  /\ NextLine(o) \in Nat
           /\ lines[o] \in Seq(Nat) /\ Run(lines[o])
           /\ Follows(lines[o], NextLine(o), TRUE)
<1>1. lines[o] \in Seq(Nat) /\ Run(lines[o])
  BY DEF Inv, TypeOK, FollowInv, LogsRun
<1>2. lines[o] # << >> => lines[o][Len(lines[o])] \in Nat
  BY <1>1, EmptySeq, ElementOfSeq
<1>3. NextLine(o) \in Nat
  BY <1>2 DEF NextLine
<1>4. lines[o] # << >> => lines[o][Len(lines[o])] = NextLine(o) - 1
  BY <1>2 DEF NextLine
<1>5. Ascending(lines[o])
  BY <1>1, RunAscends
<1> QED
  BY <1>1, <1>2, <1>3, <1>4, <1>5 DEF Follows

LEMMA StreamType ==
    ASSUME TypeOK, NEW f \in Followers
    PROVE  /\ Stream(f) \in Seq(Nat) /\ chan[f] \in Seq(Nat)
           /\ replay[f] \in Seq(Nat) /\ got[f] \in Seq(Nat)
<1>1. chan[f] \in Seq(Nat) /\ replay[f] \in Seq(Nat) /\ got[f] \in Seq(Nat)
  BY DEF TypeOK
<1> QED
  BY <1>1, ConcatProperties DEF Stream

\* What append does to an open log: one more line, which the log's last is.
LEMMA AppendLog ==
    ASSUME Inv, NEW o \in Loads, ~done(o), append(o)
    PROVE  /\ lines' \in [Loads -> Seq(Nat)]
           /\ \A p \in Loads : Len(lines'[p]) <= LogCap
           /\ LogsRun'
           /\ NextLine(o)' = NextLine(o) + 1
           /\ \A p \in Loads \ {o} : NextLine(p)' = NextLine(p)
<1> DEFINE k == NextLine(o)
           t == Append(lines[o], k)
<1>1. /\ k \in Nat /\ lines[o] \in Seq(Nat) /\ Follows(lines[o], k, TRUE)
  BY NextLineType
<1>2. lines' = [lines EXCEPT ![o] = Retain(t)]
  BY DEF append
<1>3. t \in Seq(Nat) /\ t # << >> /\ t[Len(t)] = k
  <2>1. Len(t) = Len(lines[o]) + 1 /\ t[Len(lines[o]) + 1] = k /\ t \in Seq(Nat) /\ t # << >>
    BY <1>1, AppendProperties
  <2> QED
    BY <2>1
<1>4. Run(t)
  BY <1>1, <1>3, FollowsAppend DEF Follows
<1> HIDE DEF t
<1>5. /\ Retain(t) \in Seq(Nat) /\ Run(Retain(t)) /\ Retain(t) # << >>
      /\ Retain(t)[Len(Retain(t))] = k /\ Len(Retain(t)) <= LogCap
  BY <1>3, <1>4, RetainRuns
<1>6. /\ lines \in [Loads -> Seq(Nat)] /\ \A p \in Loads : Len(lines[p]) <= LogCap
      /\ \A p \in Loads : Run(lines[p])
  BY DEF Inv, TypeOK, FollowInv, LogsRun
<1>7. /\ lines' \in [Loads -> Seq(Nat)] /\ lines'[o] = Retain(t)
      /\ \A p \in Loads \ {o} : lines'[p] = lines[p]
  BY <1>2, <1>5, <1>6
<1>8. LogsRun'
  BY <1>5, <1>6, <1>7 DEF LogsRun
<1>9. NextLine(o)' = k + 1
  BY <1>5, <1>7 DEF NextLine
<1>10. \A p \in Loads \ {o} : NextLine(p)' = NextLine(p)
  BY <1>7 DEF NextLine
<1> QED
  BY <1>5, <1>6, <1>7, <1>8, <1>9, <1>10

LEMMA AppendChannels ==
    ASSUME Inv, NEW o \in Loads, ~done(o), append(o)
    PROVE  /\ chan' \in [Followers -> Seq(Nat)]
           /\ \A f \in Followers : Len(chan'[f]) <= ChanCap
           /\ skipped' \in SUBSET Followers
           /\ \A f \in Followers :
                 chan'[f] = IF f \in subs[o] /\ ~Full(f) THEN Append(chan[f], NextLine(o))
                            ELSE chan[f]
<1>1. NextLine(o) \in Nat /\ subs[o] \subseteq Followers /\ ChanCap \in Nat
  BY NextLineType, ProgressAssumption DEF Inv, TypeOK
<1>2. /\ chan' = [f \in Followers |->
                    IF f \in subs[o] /\ ~Full(f) THEN Append(chan[f], NextLine(o))
                    ELSE chan[f]]
      /\ skipped' = skipped \cup {f \in subs[o] : Full(f) /\ fpc[f] # "done"}
  BY DEF append
<1>3. ASSUME NEW f \in Followers
      PROVE  chan'[f] \in Seq(Nat) /\ Len(chan'[f]) <= ChanCap
  <2>1. chan[f] \in Seq(Nat) /\ Len(chan[f]) <= ChanCap /\ Len(chan[f]) \in Nat
    BY LenProperties DEF Inv, TypeOK
  <2>2. CASE f \in subs[o] /\ ~Full(f)
    <3>1. /\ Append(chan[f], NextLine(o)) \in Seq(Nat)
          /\ Len(Append(chan[f], NextLine(o))) = Len(chan[f]) + 1
      BY <1>1, <2>1, AppendProperties
    <3> QED
      BY <1>1, <1>2, <2>1, <2>2, <3>1 DEF Full
  <2>3. CASE ~(f \in subs[o] /\ ~Full(f))
    BY <1>2, <2>1, <2>3
  <2> QED
    BY <2>2, <2>3
<1> QED
  BY <1>1, <1>2, <1>3 DEF Inv, TypeOK

\* A step that writes a line, or finds the log done.
LEMMA AppendStep ==
    ASSUME Inv, NEW o \in Loads, append(o),
           UNCHANGED <<subs, outcome, fpc, reader, closed>>
    PROVE  /\ lines' \in [Loads -> Seq(Nat)]
           /\ \A p \in Loads : Len(lines'[p]) <= LogCap
           /\ chan' \in [Followers -> Seq(Nat)]
           /\ \A f \in Followers : Len(chan'[f]) <= ChanCap
           /\ skipped' \in SUBSET Followers
           /\ FollowInv'
<1>1. CASE done(o)
  <2>1. UNCHANGED <<lines, chan, skipped>>
    BY <1>1 DEF append
  <2>2. FollowInv'
    BY <2>1, QuietStep DEF log, channels
  <2> QED
    BY <2>1, <2>2 DEF Inv, TypeOK
<1>2. CASE ~done(o)
  <2>1. /\ lines' \in [Loads -> Seq(Nat)]
        /\ \A p \in Loads : Len(lines'[p]) <= LogCap
        /\ LogsRun'
        /\ NextLine(o)' = NextLine(o) + 1
        /\ \A p \in Loads \ {o} : NextLine(p)' = NextLine(p)
    BY <1>2, AppendLog
  <2>2. /\ chan' \in [Followers -> Seq(Nat)]
        /\ \A f \in Followers : Len(chan'[f]) <= ChanCap
        /\ skipped' \in SUBSET Followers
        /\ \A f \in Followers :
              chan'[f] = IF f \in subs[o] /\ ~Full(f) THEN Append(chan[f], NextLine(o))
                         ELSE chan[f]
    BY <1>2, AppendChannels
  <2>3. skipped' = skipped \cup {f \in subs[o] : Full(f) /\ fpc[f] # "done"}
    BY <1>2 DEF append
  <2>4. Subscribed' /\ Told'
    BY DEF Inv, FollowInv, Subscribed, Told, done, reader
  <2>5. NotYet'
    <3>1. \A f \in Followers : fpc[f] \in Early => f \notin subs[o]
      BY DEF Inv, FollowInv, Subscribed, Early, Following
    <3> QED
      BY <2>2, <3>1 DEF Inv, FollowInv, NotYet
  <2>6. Streams'
    <3> SUFFICES ASSUME NEW f \in Followers, fpc[f] \in Following
                 PROVE  Follows(Stream(f), NextLine(fobj[f]), f \notin skipped)'
      BY DEF Streams
    <3>0. /\ fobj[f] \in Loads /\ UNCHANGED <<fobj, replay, got>>
          /\ Follows(Stream(f), NextLine(fobj[f]), f \notin skipped)
          /\ Stream(f) \in Seq(Nat) /\ NextLine(o) \in Nat
          /\ chan[f] \in Seq(Nat) /\ replay[f] \in Seq(Nat) /\ got[f] \in Seq(Nat)
      BY StreamType, NextLineType DEF Inv, FollowInv, Told, Streams, reader
    <3>1. CASE f \notin subs[o]
      <4>1. fobj[f] # o
        BY <1>2, <3>1 DEF Inv, FollowInv, Told
      <4>2. NextLine(fobj[f])' = NextLine(fobj[f])
        BY <2>1, <3>0, <4>1
      <4>3. Stream(f)' = Stream(f) /\ (f \notin skipped' <=> f \notin skipped)
        BY <2>2, <2>3, <3>0, <3>1 DEF Stream
      <4> QED
        BY <3>0, <4>2, <4>3 DEF Follows
    <3>2. CASE f \in subs[o] /\ ~Full(f)
      <4>1. fobj[f] = o
        BY <3>2 DEF Inv, FollowInv, Subscribed, Following
      <4>2. NextLine(fobj[f])' = NextLine(o) + 1
        BY <2>1, <3>0, <4>1
      <4>3. Stream(f)' = Append(Stream(f), NextLine(o))
        <5>1. chan'[f] = Append(chan[f], NextLine(o))
          BY <2>2, <3>2
        <5>2. /\ replay[f] \o Append(chan[f], NextLine(o)) = Append(replay[f] \o chan[f], NextLine(o))
              /\ got[f] \o Append(chan[f], NextLine(o)) = Append(got[f] \o chan[f], NextLine(o))
          BY <3>0, ConcatAppend
        <5>3. CASE fpc[f] = "replay"
          BY <3>0, <5>1, <5>2, <5>3 DEF Stream
        <5>4. CASE fpc[f] # "replay"
          BY <3>0, <5>1, <5>2, <5>4 DEF Stream
        <5> QED
          BY <5>3, <5>4
      <4>4. f \notin skipped' <=> f \notin skipped
        BY <2>3, <3>2
      <4>5. Follows(Append(Stream(f), NextLine(o)), NextLine(o) + 1, f \notin skipped)
        BY <3>0, <4>1, FollowsAppend
      <4> QED
        BY <4>2, <4>3, <4>4, <4>5 DEF Follows
    <3>3. CASE f \in subs[o] /\ Full(f)
      <4>1. fobj[f] = o
        BY <3>3 DEF Inv, FollowInv, Subscribed, Following
      <4>2. NextLine(fobj[f])' = NextLine(o) + 1
        BY <2>1, <3>0, <4>1
      <4>3. Stream(f)' = Stream(f)
        BY <2>2, <3>0, <3>3 DEF Stream
      <4>4. f \in skipped'
        BY <2>3, <3>3 DEF Following
      <4>5. /\ Ascending(Stream(f))
            /\ Stream(f) # << >> => Stream(f)[Len(Stream(f))] < NextLine(o) + 1
        <5>1. Stream(f) # << >> => Stream(f)[Len(Stream(f))] \in Nat
          BY <3>0, EmptySeq, ElementOfSeq
        <5> QED
          BY <3>0, <4>1, <5>1 DEF Follows
      <4> QED
        BY <4>2, <4>3, <4>4, <4>5 DEF Follows
    <3> QED
      BY <3>1, <3>2, <3>3
  <2> QED
    BY <2>1, <2>2, <2>4, <2>5, <2>6 DEF FollowInv
<1> QED
  BY <1>1, <1>2

\* markContainerStarted and markFailed tell every session that is subscribed.
LEMMA MarkStep ==
    ASSUME Inv, NEW o \in Loads, NEW r \in {"failed"} \cup Loads, r # "open", mark(o, r),
           UNCHANGED <<lines, fpc, reader, chan, skipped>>
    PROVE  /\ outcome' \in [Loads -> {"open", "failed"} \cup Loads]
           /\ closed' \in SUBSET Followers
           /\ subs' \in [Loads -> SUBSET Followers]
           /\ FollowInv'
<1>1. CASE done(o)
  <2>1. UNCHANGED <<outcome, closed, subs>>
    BY <1>1 DEF mark
  <2>2. FollowInv'
    BY <2>1, QuietStep DEF log, channels
  <2> QED
    BY <2>1, <2>2 DEF Inv, TypeOK
<1>2. CASE ~done(o)
  <2>1. /\ outcome' = [outcome EXCEPT ![o] = r]
        /\ closed' = closed \cup subs[o]
        /\ subs' = [subs EXCEPT ![o] = {}]
    BY <1>2 DEF mark
  <2>2. /\ outcome \in [Loads -> {"open", "failed"} \cup Loads]
        /\ subs \in [Loads -> SUBSET Followers] /\ closed \in SUBSET Followers
    BY DEF Inv, TypeOK
  <2>3. /\ outcome' \in [Loads -> {"open", "failed"} \cup Loads]
        /\ closed' \in SUBSET Followers
        /\ subs' \in [Loads -> SUBSET Followers]
    BY <2>1, <2>2
  <2>4. /\ subs'[o] = {} /\ \A p \in Loads \ {o} : subs'[p] = subs[p]
        /\ done(o)' /\ \A p \in Loads \ {o} : done(p)' <=> done(p)
    BY <2>1, <2>2 DEF done
  <2>5. UNCHANGED <<fobj, replay, got>>
    BY DEF reader
  <2>6. LogsRun'
    BY DEF Inv, FollowInv, LogsRun
  <2>7. Subscribed'
    <3> SUFFICES ASSUME NEW p \in Loads, NEW f \in subs'[p]
                 PROVE  /\ ~done(p)' /\ f \notin closed'
                        /\ fpc'[f] = "done" \/ (fpc'[f] \in Following /\ fobj'[f] = p)
                        /\ \A q \in Loads \ {p} : f \notin subs'[q]
      BY DEF Subscribed
    <3>1. p # o /\ f \in subs[p]
      BY <2>4
    <3>2. /\ ~done(p) /\ f \notin closed
          /\ fpc[f] = "done" \/ (fpc[f] \in Following /\ fobj[f] = p)
      BY <3>1 DEF Inv, FollowInv, Subscribed
    <3>3. \A q \in Loads \ {p} : f \notin subs[q]
      BY <3>1 DEF Inv, FollowInv, Subscribed
    <3> QED
      BY <2>1, <2>4, <2>5, <3>1, <3>2, <3>3
  <2>8. NotYet'
    <3>1. \A f \in Followers : fpc[f] \in Early => f \notin subs[o]
      BY DEF Inv, FollowInv, Subscribed, Early, Following
    <3> QED
      BY <2>1, <3>1 DEF Inv, FollowInv, NotYet
  <2>9. Told'
    <3> SUFFICES ASSUME NEW f \in Followers
                 PROVE  /\ fpc'[f] \in Following \cup {"subscribe", "outcome"} => fobj'[f] \in Loads
                        /\ fpc'[f] \in Following =>
                              IF f \in closed' THEN done(fobj[f])' ELSE f \in subs'[fobj'[f]]
                        /\ fpc'[f] = "outcome" => done(fobj[f])'
      BY DEF Told
    <3>1. /\ fpc[f] \in Following \cup {"subscribe", "outcome"} => fobj[f] \in Loads
          /\ fpc[f] \in Following =>
                IF f \in closed THEN done(fobj[f]) ELSE f \in subs[fobj[f]]
          /\ fpc[f] = "outcome" => done(fobj[f])
      BY DEF Inv, FollowInv, Told
    <3>2. fobj[f] \in Loads => (done(fobj[f]) => done(fobj[f])')
      BY <2>1, <2>2, <2>5 DEF done
    <3>3. ASSUME fpc[f] \in Following
          PROVE  IF f \in closed' THEN done(fobj[f])' ELSE f \in subs'[fobj[f]]
      <4>1. CASE f \in subs[o]
        <5>1. fobj[f] = o /\ f \in closed'
          BY <2>1, <3>3, <4>1 DEF Inv, FollowInv, Subscribed, Following
        <5> QED
          BY <2>4, <2>5, <5>1 DEF done
      <4>2. CASE f \notin subs[o]
        BY <2>1, <2>4, <3>1, <3>2, <3>3, <4>2
      <4> QED
        BY <4>1, <4>2
    <3> QED
      BY <2>5, <3>1, <3>2, <3>3
  <2>10. Streams'
    BY <2>5 DEF Inv, FollowInv, Streams, Stream, NextLine
  <2> QED
    BY <2>3, <2>6, <2>7, <2>8, <2>9, <2>10 DEF FollowInv
<1> QED
  BY <1>1, <1>2

\* The fields of TypeOK that steps of the sessions leave alone, and those that
\* steps of the loads do.
LoadTypes ==
    /\ entry \in Loads \cup {Nil}
    /\ running \in BOOLEAN
    /\ containerID \in [Loads -> Loads \cup {Nil}]
    /\ conts \in [Loads -> {"none", "stopped", "running"}]
    /\ lpc \in [Loads -> {"idle", "noPort", "returned"} \cup Working]
    /\ obj \in [Loads -> Loads \cup {Nil}]

LogTypes ==
    /\ lines \in [Loads -> Seq(Nat)]
    /\ \A o \in Loads : Len(lines[o]) <= LogCap
    /\ subs \in [Loads -> SUBSET Followers]
    /\ outcome \in [Loads -> {"open", "failed"} \cup Loads]

SessionTypes ==
    /\ fpc \in [Followers -> {"idle", "known", "find", "subscribe", "outcome",
                              "docker", "done"} \cup Following]
    /\ fobj \in [Followers -> Loads \cup {Nil}]
    /\ replay \in [Followers -> Seq(Nat)]
    /\ chan \in [Followers -> Seq(Nat)]
    /\ \A f \in Followers : Len(chan[f]) <= ChanCap
    /\ closed \in SUBSET Followers
    /\ got \in [Followers -> Seq(Nat)]
    /\ target \in [Followers -> Loads \cup {Nil}]
    /\ skipped \in SUBSET Followers

LEMMA TypeParts == TypeOK <=> LoadTypes /\ LogTypes /\ SessionTypes
  BY DEF TypeOK, LoadTypes, LogTypes, SessionTypes

LEMMA SaysStep ==
    ASSUME Inv, NEW l \in Loads, NEW p \in Working,
           NEW q \in Working, Says(l, p, q)
    PROVE  Inv'
<1>1. /\ lpc[l] = p /\ lpc' = [lpc EXCEPT ![l] = q] /\ append(obj[l])
      /\ UNCHANGED <<table, conts, subs, outcome, obj, fpc, reader, closed>>
  BY DEF Says, LGoto
<1>2. obj[l] \in Loads
  BY <1>1 DEF Inv, WorkHasObject
<1>3. /\ lines' \in [Loads -> Seq(Nat)]
      /\ \A o \in Loads : Len(lines'[o]) <= LogCap
      /\ chan' \in [Followers -> Seq(Nat)]
      /\ \A f \in Followers : Len(chan'[f]) <= ChanCap
      /\ skipped' \in SUBSET Followers
      /\ FollowInv'
  BY <1>1, <1>2, AppendStep
<1>4. LoadTypes /\ LogTypes /\ SessionTypes
  BY TypeParts DEF Inv
<1>5. LoadTypes' /\ WorkHasObject'
  <2>1. running' \in BOOLEAN
    BY <1>1, <1>4, Zenon DEF LoadTypes, table
  <2>2. LoadTypes'
    BY <1>1, <1>4, <2>1 DEF LoadTypes, table
  <2>3. WorkHasObject'
    BY <1>1, <1>2, <1>4 DEF WorkHasObject, LoadTypes, Inv
  <2> QED
    BY <2>2, <2>3
<1>6. LogTypes'
  BY <1>1, <1>3, <1>4 DEF LogTypes
<1>7. SessionTypes'
  BY <1>1, <1>3, <1>4 DEF SessionTypes, reader
<1>8. TypeOK'
  BY <1>5, <1>6, <1>7 DEF TypeOK, LoadTypes, LogTypes, SessionTypes
<1> QED
  BY <1>3, <1>5, <1>8 DEF Inv

LEMMA MarksStep ==
    ASSUME Inv, NEW l \in Loads, MarkContainerStarted(l) \/ MarkFailed(l)
    PROVE  Inv'
<1>0. PICK r \in {"failed"} \cup Loads : r \in {l, "failed"} /\ mark(obj[l], r)
  BY DEF MarkContainerStarted, MarkFailed
<1>1. /\ lpc[l] \in {"mark", "markFailed"}
      /\ \E q \in {"ready", "drop"} : lpc' = [lpc EXCEPT ![l] = q]
      /\ UNCHANGED <<table, conts, lines, obj, fpc, reader, chan, skipped>>
  BY DEF MarkContainerStarted, MarkFailed, LGoto
<1>2. obj[l] \in Loads
  BY <1>1 DEF Inv, WorkHasObject, Working
<1>3. r # "open"
  BY <1>0, ProgressAssumption
<1>4. /\ outcome' \in [Loads -> {"open", "failed"} \cup Loads]
      /\ closed' \in SUBSET Followers
      /\ subs' \in [Loads -> SUBSET Followers]
      /\ FollowInv'
  BY <1>0, <1>1, <1>2, <1>3, MarkStep
<1>5. LoadTypes /\ LogTypes /\ SessionTypes
  BY TypeParts DEF Inv
<1>6. LoadTypes' /\ WorkHasObject'
  <2>1. running' \in BOOLEAN
    BY <1>1, <1>5, Zenon DEF LoadTypes, table
  <2>2. LoadTypes'
    BY <1>1, <1>5, <2>1 DEF LoadTypes, table, Working
  <2>3. WorkHasObject'
    BY <1>1, <1>2, <1>5 DEF WorkHasObject, LoadTypes, Inv
  <2> QED
    BY <2>2, <2>3
<1>7. LogTypes'
  BY <1>1, <1>4, <1>5 DEF LogTypes
<1>8. SessionTypes'
  BY <1>1, <1>4, <1>5 DEF SessionTypes, reader
<1>9. TypeOK'
  BY <1>6, <1>7, <1>8 DEF TypeOK, LoadTypes, LogTypes, SessionTypes
<1> QED
  BY <1>4, <1>6, <1>9 DEF Inv

\* The other steps of the runtime: the table and the containers.
LEMMA TableStep ==
    ASSUME Inv, LoadTypes', WorkHasObject', UNCHANGED <<log, fpc, reader, channels>>
    PROVE  Inv'
<1>1. FollowInv'
  BY QuietStep
<1>2. LogTypes /\ SessionTypes
  BY TypeParts DEF Inv
<1>3. LogTypes' /\ SessionTypes'
  BY <1>2 DEF LogTypes, SessionTypes, log, reader, channels
<1>4. TypeOK'
  BY <1>3 DEF TypeOK, LoadTypes, LogTypes, SessionTypes
<1> QED
  BY <1>1, <1>4 DEF Inv

LEMMA LoadStepInv ==
    ASSUME Inv, NEW l \in Loads, LoadModel(l) \/ LoadStep(l) \/ ContainerExits(l)
    PROVE  Inv'
<1>0. LoadTypes /\ WorkHasObject
  BY TypeParts DEF Inv
<1> USE DEF LGoto
<1>1. CASE LoadModel(l)
  <2>1. UNCHANGED <<log, fpc, reader, channels>> /\ running' = running
    BY <1>1 DEF LoadModel
  <2>2. running' \in BOOLEAN
    BY <1>0, <2>1, Zenon DEF LoadTypes
  <2>3. LoadTypes' /\ WorkHasObject'
    BY <1>0, <1>1, <2>2 DEF LoadModel, LoadTypes, WorkHasObject, Working
  <2> QED
    BY <2>1, <2>3, TableStep
<1>2. CASE SayPulling(l) \/ SayProgress(l) \/ Pulled(l) \/ PullFails(l) \/ ClearFails(l)
           \/ SpecFails(l) \/ CreateFails(l) \/ SayStarting(l) \/ SayStarted(l) \/ SayFailed(l)
  <2>1. PICK p \in Working, q \in Working : Says(l, p, q)
    BY <1>2 DEF SayPulling, SayProgress, Pulled, PullFails, ClearFails, SpecFails,
                CreateFails, SayStarting, SayStarted, SayFailed, Working
  <2> QED
    BY <2>1, SaysStep
<1>3. CASE MarkContainerStarted(l) \/ MarkFailed(l)
  BY <1>3, MarksStep
<1>4. CASE NoPort(l) \/ ClearStale(l) \/ Create(l) \/ SetContainerID(l) \/ Start(l) \/ Drop(l)
           \/ ContainerExits(l)
  <2>1. UNCHANGED <<log, fpc, reader, channels, running, obj>>
    BY <1>4 DEF NoPort, ClearStale, Create, SetContainerID, Start, Drop, ContainerExits, table
  <2>2. running' \in BOOLEAN
    BY <1>0, <2>1, Zenon DEF LoadTypes
  <2>3. conts' \in [Loads -> {"none", "stopped", "running"}]
    BY <1>0, <1>4 DEF NoPort, ClearStale, Create, SetContainerID, Start, Drop,
                      ContainerExits, LoadTypes
  <2>4. entry' \in Loads \cup {Nil} /\ containerID' \in [Loads -> Loads \cup {Nil}]
    BY <1>0, <1>4 DEF NoPort, ClearStale, Create, SetContainerID, Start, Drop,
                      ContainerExits, LoadTypes, table
  <2>5. /\ lpc' \in [Loads -> {"idle", "noPort", "returned"} \cup Working]
        /\ \A b \in Loads : lpc'[b] \in Working => lpc[b] \in Working
    BY <1>0, <1>4 DEF NoPort, ClearStale, Create, SetContainerID, Start, Drop,
                      ContainerExits, LoadTypes, Working
  <2>6. LoadTypes' /\ WorkHasObject'
    BY <1>0, <2>1, <2>2, <2>3, <2>4, <2>5 DEF LoadTypes, WorkHasObject
  <2> QED
    BY <2>1, <2>6, TableStep
<1>5. CASE WaitReady(l)
  <2>1. UNCHANGED <<log, fpc, reader, channels, entry, obj>>
    BY <1>5 DEF WaitReady
  <2>2. running' \in BOOLEAN
    BY <1>0, <1>5, Zenon DEF WaitReady, LoadTypes
  <2>3. /\ conts' \in [Loads -> {"none", "stopped", "running"}]
        /\ containerID' \in [Loads -> Loads \cup {Nil}]
    BY <1>0, <1>5 DEF WaitReady, LoadTypes
  <2>4. /\ lpc' \in [Loads -> {"idle", "noPort", "returned"} \cup Working]
        /\ \A b \in Loads : lpc'[b] \in Working => lpc[b] \in Working
    BY <1>0, <1>5 DEF WaitReady, LoadTypes, Working
  <2>5. LoadTypes' /\ WorkHasObject'
    BY <1>0, <2>1, <2>2, <2>3, <2>4 DEF LoadTypes, WorkHasObject
  <2> QED
    BY <2>1, <2>5, TableStep
<1> QED
  BY <1>1, <1>2, <1>3, <1>4, <1>5 DEF LoadStep

LEMMA UnloadInv == ASSUME Inv, UnloadModel PROVE Inv'
<1>0. LoadTypes /\ WorkHasObject
  BY TypeParts DEF Inv
<1>1. UNCHANGED <<containerID, log, lpc, obj, fpc, reader, channels>> /\ running' = FALSE
  BY DEF UnloadModel
<1>2. entry \in Loads /\ entry' \in {entry, Nil}
  BY <1>0 DEF UnloadModel, LoadTypes
<1>3. conts' \in [Loads -> {"none", "stopped", "running"}]
  <2>1. conts \in [Loads -> {"none", "stopped", "running"}]
    BY <1>0 DEF LoadTypes
  <2>2. \/ conts' = conts
        \/ /\ containerID[entry] \in Loads
           /\ \E s \in {conts[containerID[entry]], "none"} :
                 conts' = [conts EXCEPT ![containerID[entry]] = s]
    BY <1>0, <1>2 DEF UnloadModel, LoadTypes
  <2> QED
    BY <2>1, <2>2
<1>4. LoadTypes' /\ WorkHasObject'
  BY <1>0, <1>1, <1>2, <1>3 DEF LoadTypes, WorkHasObject
<1> QED
  BY <1>1, <1>4, TableStep

-----------------------------------------------------------------------------
(* Steps of the sessions *)

\* The invariant, from one session's point of view.
SessionInv(f) ==
    /\ \A o \in Loads :
          f \in subs[o] =>
              /\ ~done(o)
              /\ f \notin closed
              /\ fpc[f] = "done" \/ (fpc[f] \in Following /\ fobj[f] = o)
              /\ \A p \in Loads \ {o} : f \notin subs[p]
    /\ fpc[f] \in Early => f \notin closed /\ chan[f] = << >>
    /\ fpc[f] \in Following \cup {"subscribe", "outcome"} => fobj[f] \in Loads
    /\ fpc[f] \in Following =>
          /\ IF f \in closed THEN done(fobj[f]) ELSE f \in subs[fobj[f]]
          /\ Follows(Stream(f), NextLine(fobj[f]), f \notin skipped)
    /\ fpc[f] = "outcome" => done(fobj[f])

SubsTyped == subs \in [Loads -> SUBSET Followers]
EverySession == \A f \in Followers : SessionInv(f)

LEMMA SessionParts == SubsTyped => (FollowInv <=> LogsRun /\ EverySession)
<1> SUFFICES ASSUME SubsTyped PROVE FollowInv <=> LogsRun /\ EverySession
  OBVIOUS
<1> USE DEF SubsTyped, EverySession
<1>1. ASSUME FollowInv, NEW f \in Followers PROVE SessionInv(f)
  BY <1>1 DEF FollowInv, Subscribed, NotYet, Told, Streams, SessionInv
<1>2. ASSUME LogsRun, \A f \in Followers : SessionInv(f) PROVE FollowInv
  <2>1. Subscribed
    <3> SUFFICES ASSUME NEW o \in Loads, NEW f \in subs[o]
                 PROVE  /\ ~done(o) /\ f \notin closed
                        /\ fpc[f] = "done" \/ (fpc[f] \in Following /\ fobj[f] = o)
                        /\ \A p \in Loads \ {o} : f \notin subs[p]
      BY DEF Subscribed
    <3>1. f \in Followers
      OBVIOUS
    <3> QED
      BY <1>2, <3>1 DEF SessionInv
  <2>2. NotYet /\ Told /\ Streams
    BY <1>2 DEF NotYet, Told, Streams, SessionInv
  <2> QED
    BY <1>2, <2>1, <2>2 DEF FollowInv
<1> QED
  BY <1>1, <1>2 DEF FollowInv

\* A step of session f leaves the others as they are.
OthersKept(f) ==
    \A g \in Followers \ {f} :
        /\ fpc'[g] = fpc[g] /\ fobj'[g] = fobj[g] /\ replay'[g] = replay[g]
        /\ got'[g] = got[g] /\ chan'[g] = chan[g]
        /\ g \in closed' <=> g \in closed
        /\ g \in skipped' <=> g \in skipped
        /\ \A o \in Loads : g \in subs'[o] <=> g \in subs[o]

LEMMA SessionStep ==
    ASSUME Inv, NEW f \in Followers, SessionTypes', OthersKept(f),
           subs' \in [Loads -> SUBSET Followers],
           UNCHANGED <<table, conts, lines, outcome, lpc, obj>>,
           SessionInv(f)'
    PROVE  Inv'
<1>1. LoadTypes /\ LogTypes
  BY TypeParts DEF Inv
<1>2. LoadTypes' /\ LogTypes'
  <2>1. running' \in BOOLEAN
    BY <1>1, Zenon DEF LoadTypes, table
  <2> QED
    BY <1>1, <2>1 DEF LoadTypes, LogTypes, table
<1>3. TypeOK'
  BY <1>2 DEF TypeOK, LoadTypes, LogTypes, SessionTypes
<1>4. LogsRun' /\ WorkHasObject'
  BY DEF Inv, FollowInv, LogsRun, WorkHasObject
<1>5. LogsRun /\ \A g \in Followers : SessionInv(g)
  BY <1>1, SessionParts DEF Inv, LogTypes, SubsTyped, EverySession
<1>6. ASSUME NEW g \in Followers, g # f PROVE SessionInv(g)'
  <2>1. /\ fpc'[g] = fpc[g] /\ fobj'[g] = fobj[g] /\ replay'[g] = replay[g]
        /\ got'[g] = got[g] /\ chan'[g] = chan[g]
        /\ g \in closed' <=> g \in closed
        /\ g \in skipped' <=> g \in skipped
        /\ \A o \in Loads : g \in subs'[o] <=> g \in subs[o]
    BY <1>6 DEF OthersKept
  <2>2. \A o : /\ outcome'[o] = outcome[o]
               /\ lines'[o] = lines[o]
    OBVIOUS
  <2>3. Stream(g)' = Stream(g) /\ NextLine(fobj[g])' = NextLine(fobj[g])
    BY <2>1, <2>2 DEF Stream, NextLine
  <2>4. /\ Follows(Stream(g), NextLine(fobj[g]), g \notin skipped)'
             <=> Follows(Stream(g), NextLine(fobj[g]), g \notin skipped)
        /\ done(fobj[g])' <=> done(fobj[g])
    BY <2>1, <2>2, <2>3 DEF Follows, done
  <2>5. SessionInv(g)
    BY <1>5
  <2> QED
    BY <2>1, <2>2, <2>4, <2>5 DEF SessionInv, done
<1>7. \A g \in Followers : SessionInv(g)'
  BY <1>6
<1>8. FollowInv'
  <2>1. EverySession'
    BY <1>7 DEF EverySession
  <2>2. SubsTyped' => (FollowInv' <=> LogsRun' /\ EverySession')
    BY SessionParts, PTL
  <2> QED
    BY <1>4, <2>1, <2>2 DEF SubsTyped
<1> QED
  BY <1>3, <1>4, <1>8 DEF Inv

\* Before its subscription and after its outcome no log knows a session.
LEMMA Unsubscribed ==
    ASSUME Inv, NEW f \in Followers, fpc[f] \notin Following \cup {"done"}
    PROVE  \A o \in Loads : f \notin subs[o]
  BY DEF Inv, FollowInv, Subscribed

LEMMA LeaveStep ==
    ASSUME Inv, NEW f \in Followers, Leave(f),
           UNCHANGED <<table, conts, log, lpc, obj, chan, closed>>
    PROVE  Inv'
<1>1. LogTypes /\ SessionTypes
  BY TypeParts DEF Inv
<1>2. << >> \in Seq(Nat)
  BY EmptySeq
<1>3. SessionTypes'
  BY <1>1, <1>2 DEF SessionTypes, Leave, FGoto
<1>4. OthersKept(f)
  BY <1>1 DEF SessionTypes, Leave, FGoto, OthersKept, log
<1>5. SessionInv(f)'
  <2>1. fpc'[f] = "done"
    BY <1>1 DEF Leave, FGoto, SessionTypes
  <2>2. \A o \in Loads :
           f \in subs[o] => /\ ~done(o) /\ f \notin closed
                            /\ \A p \in Loads \ {o} : f \notin subs[p]
    BY DEF Inv, FollowInv, Subscribed
  <2> QED
    BY <2>1, <2>2 DEF SessionInv, done, log, Early, Following
<1> QED
  BY <1>1, <1>3, <1>4, <1>5, SessionStep DEF LogTypes, log

LEMMA SessionsInv ==
    ASSUME Inv, NEW f \in Followers, Resolve(f) \/ FollowStep(f) \/ Cancel(f)
    PROVE  Inv'
<1>0. LoadTypes /\ LogTypes /\ SessionTypes
  BY TypeParts DEF Inv
<1>s. /\ chan[f] \in Seq(Nat) /\ replay[f] \in Seq(Nat) /\ got[f] \in Seq(Nat)
  BY StreamType DEF Inv
<1>i. SessionInv(f)
  BY <1>0, SessionParts DEF Inv, LogTypes, SubsTyped, EverySession
<1> USE DEF FGoto
<1>1. CASE Resolve(f)
  <2>1. /\ fpc[f] = "idle" /\ \E p \in {"docker", "known"} : fpc' = [fpc EXCEPT ![f] = p]
        /\ UNCHANGED <<table, conts, log, lpc, obj, fobj, replay, got, channels>>
    BY <1>1 DEF Resolve
  <2>2. target' \in [Followers -> Loads \cup {Nil}]
    <3>1. entry = Nil \/ containerID[entry] \in Loads \cup {Nil}
      BY <1>0 DEF LoadTypes
    <3>2. target' = target \/ \E b \in Loads : target' = [target EXCEPT ![f] = b]
      BY <1>1, <3>1 DEF Resolve
    <3> QED
      BY <1>0, <3>2 DEF SessionTypes
  <2>3. SessionTypes'
    BY <1>0, <2>1, <2>2 DEF SessionTypes, channels
  <2>4. OthersKept(f)
    BY <1>0, <2>1 DEF SessionTypes, OthersKept, log, channels
  <2>5. SessionInv(f)'
    <3>1. fpc'[f] \in {"docker", "known"}
      BY <1>0, <2>1 DEF SessionTypes
    <3>2. \A o \in Loads : f \notin subs[o]
      BY <2>1, Unsubscribed DEF Following
    <3>3. f \notin closed /\ chan[f] = << >>
      BY <1>i, <2>1 DEF SessionInv, Early
    <3> QED
      BY <2>1, <3>1, <3>2, <3>3 DEF SessionInv, log, channels, Early, Following
  <2> QED
    BY <1>0, <2>1, <2>3, <2>4, <2>5, SessionStep DEF LogTypes, log
<1>2. CASE DeploymentKnown(f) \/ progressOf(f)
  <2>1. CASE Leave(f)
    BY <1>2, <2>1, LeaveStep DEF DeploymentKnown, progressOf, Look
  <2>2. CASE ~Leave(f)
    <3>1. /\ fpc[f] \in {"known", "find"} /\ entry \in Loads
          /\ fobj' = [fobj EXCEPT ![f] = entry]
          /\ \E q \in {"find", "subscribe"} : fpc' = [fpc EXCEPT ![f] = q]
          /\ UNCHANGED <<replay, got, target, skipped, table, conts, log, lpc, obj, chan, closed>>
      BY <1>0, <1>2, <2>2 DEF DeploymentKnown, progressOf, Look, LoadTypes
    <3>2. SessionTypes'
      BY <1>0, <3>1 DEF SessionTypes
    <3>3. OthersKept(f)
      BY <1>0, <3>1 DEF SessionTypes, OthersKept, log
    <3>4. SessionInv(f)'
      <4>1. fpc'[f] \in {"find", "subscribe"} /\ fobj'[f] \in Loads
        BY <1>0, <3>1 DEF SessionTypes
      <4>2. \A o \in Loads : f \notin subs[o]
        BY <3>1, Unsubscribed DEF Following
      <4>3. f \notin closed /\ chan[f] = << >>
        BY <1>i, <3>1 DEF SessionInv, Early
      <4> QED
        BY <3>1, <4>1, <4>2, <4>3 DEF SessionInv, log, Early, Following
    <3> QED
      BY <1>0, <3>1, <3>2, <3>3, <3>4, SessionStep DEF LogTypes, log
  <2> QED
    BY <2>1, <2>2
<1>3. CASE subscribe(f)
  <2> DEFINE o == fobj[f]
  <2>1. /\ fpc[f] = "subscribe" /\ replay' = [replay EXCEPT ![f] = lines[o]]
        /\ subs' = [subs EXCEPT ![o] = IF done(o) THEN @ ELSE @ \cup {f}]
        /\ closed' = IF done(o) THEN closed \cup {f} ELSE closed
        /\ fpc' = [fpc EXCEPT ![f] = "replay"]
        /\ UNCHANGED <<table, conts, lines, outcome, lpc, obj, fobj, got, target, chan, skipped>>
    BY <1>3 DEF subscribe
  <2>2. /\ o \in Loads /\ f \notin closed /\ chan[f] = << >>
        /\ \A p \in Loads : f \notin subs[p]
    BY <1>i, <2>1, Unsubscribed DEF SessionInv, Early, Following
  <2>3. /\ NextLine(o) \in Nat /\ lines[o] \in Seq(Nat)
        /\ Follows(lines[o], NextLine(o), TRUE)
    BY <2>2, NextLineType
  <2>4. /\ subs' \in [Loads -> SUBSET Followers]
        /\ subs'[o] = IF done(o) THEN subs[o] ELSE subs[o] \cup {f}
        /\ \A p \in Loads \ {o} : subs'[p] = subs[p]
    BY <1>0, <2>1, <2>2 DEF LogTypes
  <2>5. /\ fpc'[f] = "replay" /\ replay'[f] = lines[o] /\ fobj'[f] = o
        /\ \A g \in Followers \ {f} : fpc'[g] = fpc[g] /\ replay'[g] = replay[g]
    BY <1>0, <2>1 DEF SessionTypes
  <2>6. SessionTypes'
    BY <1>0, <2>1, <2>3 DEF SessionTypes, Following
  <2>7. OthersKept(f)
    BY <2>1, <2>4, <2>5 DEF OthersKept
  <2>8. Follows(Stream(f), NextLine(fobj[f]), f \notin skipped)'
    <3>1. Stream(f)' = lines[o] \o << >>
      BY <2>1, <2>2, <2>5 DEF Stream
    <3>2. lines[o] \o << >> = lines[o]
      BY <2>3, ConcatEmptySeq
    <3>3. NextLine(fobj[f])' = NextLine(o)
      BY <2>1 DEF NextLine
    <3> QED
      BY <2>3, <3>1, <3>2, <3>3 DEF Follows
  <2>9. SessionInv(f)'
    <3> HIDE DEF o
    <3>1. done(o)' <=> done(o)
      BY <2>1 DEF done, o
    <3>2. CASE done(o)
      <4>1. f \in closed' /\ \A p \in Loads : f \notin subs'[p]
        BY <2>1, <2>2, <2>4, <3>2 DEF o
      <4> QED
        BY <2>1, <2>2, <2>5, <2>8, <3>2, <4>1 DEF SessionInv, done, Early, Following, o
    <3>3. CASE ~done(o)
      <4>1. /\ f \notin closed' /\ f \in subs'[o]
            /\ \A p \in Loads \ {o} : f \notin subs'[p]
        BY <2>1, <2>2, <2>4, <3>3 DEF o
      <4> QED
        BY <2>1, <2>2, <2>5, <2>8, <3>3, <4>1 DEF SessionInv, done, Early, Following, o
    <3> QED
      BY <3>2, <3>3
  <2> QED
    BY <2>1, <2>4, <2>6, <2>7, <2>9, SessionStep
<1>4. CASE Replay(f)
  <2>1. /\ fpc[f] = "replay" /\ got' = [got EXCEPT ![f] = replay[f]]
        /\ fpc' = [fpc EXCEPT ![f] = "follow"]
        /\ UNCHANGED <<table, conts, log, lpc, obj, fobj, replay, target, channels>>
    BY <1>4 DEF Replay
  <2>2. SessionTypes'
    BY <1>0, <1>s, <2>1 DEF SessionTypes, channels, Following
  <2>3. OthersKept(f)
    BY <1>0, <2>1 DEF SessionTypes, OthersKept, log, channels
  <2>4. SessionInv(f)'
    <3>1. fpc'[f] = "follow" /\ got'[f] = replay[f]
      BY <1>0, <2>1 DEF SessionTypes
    <3>2. Stream(f)' = Stream(f) /\ NextLine(fobj[f])' = NextLine(fobj[f])
      BY <2>1, <3>1 DEF Stream, NextLine, log, channels
    <3>3. Follows(Stream(f), NextLine(fobj[f]), f \notin skipped)'
      BY <1>i, <2>1, <3>2 DEF SessionInv, Follows, Following, channels
    <3> QED
      BY <1>i, <2>1, <3>1, <3>3 DEF SessionInv, done, log, channels, Early, Following
  <2> QED
    BY <1>0, <2>1, <2>2, <2>3, <2>4, SessionStep DEF LogTypes, log
<1>5. CASE Receive(f)
  <2>1. /\ fpc[f] = "follow" /\ chan[f] # << >>
        /\ got' = [got EXCEPT ![f] = Append(got[f], Head(chan[f]))]
        /\ chan' = [chan EXCEPT ![f] = Tail(chan[f])]
        /\ UNCHANGED <<table, conts, log, lpc, obj, fpc, fobj, replay, target, closed, skipped>>
    BY <1>5 DEF Receive
  <2>2. /\ Append(got[f], Head(chan[f])) \in Seq(Nat) /\ Tail(chan[f]) \in Seq(Nat)
        /\ Append(got[f], Head(chan[f])) \o Tail(chan[f]) = got[f] \o chan[f]
        /\ Len(Tail(chan[f])) <= Len(chan[f])
    BY <1>s, <2>1, PassedOn
  <2>3. /\ got'[f] = Append(got[f], Head(chan[f])) /\ chan'[f] = Tail(chan[f])
        /\ \A g \in Followers \ {f} : got'[g] = got[g] /\ chan'[g] = chan[g]
    BY <1>0, <2>1 DEF SessionTypes
  <2>4. SessionTypes'
    <3>1. /\ got' \in [Followers -> Seq(Nat)] /\ chan' \in [Followers -> Seq(Nat)]
      BY <1>0, <2>1, <2>2 DEF SessionTypes
    <3>2. \A g \in Followers : Len(chan'[g]) <= ChanCap
      <4>1. Len(Tail(chan[f])) \in Nat /\ Len(chan[f]) \in Nat /\ ChanCap \in Nat
        BY <1>s, <2>2, LenProperties, ProgressAssumption
      <4>2. \A g \in Followers : Len(chan[g]) <= ChanCap
        BY <1>0 DEF SessionTypes
      <4>3. Len(Tail(chan[f])) <= ChanCap
        BY <2>2, <4>1, <4>2
      <4> QED
        BY <2>3, <4>2, <4>3
    <3> QED
      BY <1>0, <2>1, <3>1, <3>2 DEF SessionTypes
  <2>5. OthersKept(f)
    BY <2>1, <2>3 DEF OthersKept, log
  <2>6. SessionInv(f)'
    <3>1. Stream(f)' = Stream(f) /\ NextLine(fobj[f])' = NextLine(fobj[f])
      BY <2>1, <2>2, <2>3 DEF Stream, NextLine, log
    <3>2. Follows(Stream(f), NextLine(fobj[f]), f \notin skipped)'
      BY <1>i, <2>1, <3>1 DEF SessionInv, Follows, Following
    <3> QED
      BY <1>i, <2>1, <3>2 DEF SessionInv, done, log, Early, Following
  <2> QED
    BY <1>0, <2>1, <2>4, <2>5, <2>6, SessionStep DEF LogTypes, log
<1>6. CASE ChannelEnds(f)
  <2>1. /\ fpc[f] = "follow" /\ f \in closed /\ fpc' = [fpc EXCEPT ![f] = "outcome"]
        /\ UNCHANGED <<table, conts, log, lpc, obj, reader, channels>>
    BY <1>6 DEF ChannelEnds
  <2>2. SessionTypes'
    BY <1>0, <2>1 DEF SessionTypes, reader, channels
  <2>3. OthersKept(f)
    BY <1>0, <2>1 DEF SessionTypes, OthersKept, log, reader, channels
  <2>4. SessionInv(f)'
    <3>1. fpc'[f] = "outcome"
      BY <1>0, <2>1 DEF SessionTypes
    <3>2. fobj[f] \in Loads /\ done(fobj[f]) /\ \A o \in Loads : f \notin subs[o]
      BY <1>i, <2>1 DEF SessionInv, Following
    <3> QED
      BY <2>1, <3>1, <3>2 DEF SessionInv, done, log, reader, channels, Early, Following
  <2> QED
    BY <1>0, <2>1, <2>2, <2>3, <2>4, SessionStep DEF LogTypes, log
<1>7. CASE Handoff(f)
  <2>1. CASE outcome[fobj[f]] \in Loads
    <3>1. /\ fpc[f] = "outcome" /\ fpc' = [fpc EXCEPT ![f] = "docker"]
          /\ target' = [target EXCEPT ![f] = outcome[fobj[f]]]
          /\ UNCHANGED <<table, conts, log, lpc, obj, fobj, replay, got, skipped, chan, closed>>
      BY <1>7, <2>1 DEF Handoff
    <3>2. SessionTypes'
      BY <1>0, <2>1, <3>1 DEF SessionTypes
    <3>3. OthersKept(f)
      BY <1>0, <3>1 DEF SessionTypes, OthersKept, log
    <3>4. SessionInv(f)'
      <4>1. fpc'[f] = "docker" /\ \A o \in Loads : f \notin subs[o]
        BY <1>0, <3>1, Unsubscribed DEF SessionTypes, Following
      <4> QED
        BY <3>1, <4>1 DEF SessionInv, log, Early, Following
    <3> QED
      BY <1>0, <3>1, <3>2, <3>3, <3>4, SessionStep DEF LogTypes, log
  <2>2. CASE outcome[fobj[f]] \notin Loads
    BY <1>7, <2>2, LeaveStep DEF Handoff
  <2> QED
    BY <2>1, <2>2
<1>8. CASE DockerLogsEnd(f) \/ Cancel(f)
  BY <1>8, LeaveStep DEF DockerLogsEnd, Cancel
<1> QED
  BY <1>1, <1>2, <1>3, <1>4, <1>5, <1>6, <1>7, <1>8 DEF FollowStep

-----------------------------------------------------------------------------
(* Theorems *)

LEMMA InvNext == Inv /\ [Next]_vars => Inv'
<1> SUFFICES ASSUME Inv, [Next]_vars PROVE Inv'
  OBVIOUS
<1>1. ASSUME NEW l \in Loads, LoadModel(l) \/ LoadStep(l) \/ ContainerExits(l) PROVE Inv'
  BY <1>1, LoadStepInv
<1>2. CASE UnloadModel
  BY <1>2, UnloadInv
<1>3. ASSUME NEW f \in Followers, Resolve(f) \/ FollowStep(f) \/ Cancel(f) PROVE Inv'
  BY <1>3, SessionsInv
<1>4. CASE UNCHANGED vars
  <2>1. LoadTypes /\ WorkHasObject
    BY TypeParts DEF Inv
  <2>2. running' \in BOOLEAN
    BY <1>4, <2>1, Zenon DEF vars, LoadTypes
  <2>3. LoadTypes' /\ WorkHasObject'
    BY <1>4, <2>1, <2>2 DEF vars, LoadTypes, WorkHasObject
  <2> QED
    BY <1>4, <2>3, TableStep DEF vars, log, reader, channels
<1> QED
  BY <1>1, <1>2, <1>3, <1>4 DEF Next

LEMMA InvHolds == Spec => []Inv
  BY InvInit, InvNext, PTL DEF Spec

(* The variables of ProgressLog keep their types: no log outgrows            *)
(* progressLogCap and no channel its capacity.                               *)
THEOREM LogTypeCorrect == Spec => []TypeOK
<1>1. Inv => TypeOK
  BY DEF Inv
<1> QED
  BY <1>1, InvHolds, PTL

(* A logs session passes on the lines of a load in order, none of them twice *)
(* and, while its channel was never full, none of them missing, wherever its *)
(* subscription fell: subscribe copies the lines and enters the channel in   *)
(* one section.                                                              *)
THEOREM LinesStayInOrder == Spec => []LinesInOrder
<1>1. ASSUME Inv PROVE LinesInOrder
  <2> SUFFICES ASSUME NEW f \in Followers, fpc[f] = "follow"
               PROVE  LET seen == got[f] \o chan[f] IN
                      /\ Ascending(seen)
                      /\ f \notin skipped /\ seen # << >> =>
                             /\ Len(seen) = seen[Len(seen)] - seen[1] + 1
                             /\ seen[Len(seen)] = NextLine(fobj[f]) - 1
    BY DEF LinesInOrder
  <2> DEFINE seen == got[f] \o chan[f]
  <2>1. seen \in Seq(Nat) /\ Follows(seen, NextLine(fobj[f]), f \notin skipped)
    BY <1>1, StreamType DEF Inv, FollowInv, Streams, Stream, Following
  <2> HIDE DEF seen
  <2>2. ASSUME f \notin skipped, seen # << >>
        PROVE  /\ Len(seen) = seen[Len(seen)] - seen[1] + 1
               /\ seen[Len(seen)] = NextLine(fobj[f]) - 1
    <3>1. Len(seen) \in Nat /\ Len(seen) \in 1 .. Len(seen) /\ 1 \in 1 .. Len(seen)
      BY <2>1, <2>2, EmptySeq
    <3>2. seen[1] \in Nat
      BY <2>1, <3>1, ElementOfSeq
    <3>3. seen[Len(seen)] = seen[1] + (Len(seen) - 1)
      BY <2>1, <2>2, <3>1 DEF Follows, Run
    <3>4. seen[Len(seen)] = NextLine(fobj[f]) - 1
      BY <2>1, <2>2 DEF Follows
    <3> QED
      BY <3>1, <3>2, <3>3, <3>4
  <2> QED
    BY <2>1, <2>2 DEF Follows, seen
<1> QED
  BY <1>1, InvHolds, PTL

(* A session whose channel was closed finds how the load ended: mark records *)
(* the outcome and closes the channels in one section, and subscribe closes  *)
(* that of a session that comes later.                                       *)
THEOREM EndsHaveOutcome == Spec => []EndHasOutcome
<1>1. Inv => EndHasOutcome
  BY DEF Inv, FollowInv, Told, EndHasOutcome
<1> QED
  BY <1>1, InvHolds, PTL


=============================================================================
