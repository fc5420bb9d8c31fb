---------------------------- MODULE ProcessProofs ----------------------------
(***************************************************************************)
(* Theorems about the process itself: Worker, its start and its token,     *)
(* CommandChannel, the commands it is sent, and Metrics, what it counts    *)
(* while it runs.  The three share no variable, and each has its own       *)
(* invariant.                                                              *)
(*                                                                         *)
(* Worker, for any supply of tokens and any number of starts: the token    *)
(* file is the only thing a start knows of the ones before it, so the      *)
(* invariant ties every token in memory to it.                             *)
(*                                                                         *)
(* CommandChannel, for any number of frames and commands, any window and   *)
(* any clock: the invariant says what the dedup table knows of the frames  *)
(* before it.                                                              *)
(*                                                                         *)
(* Metrics, for any requests, deployments, latencies and size of the ring  *)
(* buffer: the invariant says who may have counted in a bucket nobody      *)
(* answers for, by how much the gauge of a bucket is off the number of     *)
(* handlers under way, and that the histogram's counts are those of the    *)
(* samples it retains.                                                     *)
(***************************************************************************)
EXTENDS Worker, CommandChannel, Metrics, Sums

-----------------------------------------------------------------------------
(* Worker: one identity over all starts *)

\* Inductive strengthening.  What is in the file was issued; once a token was
\* presented it is the one in the file; and a start that registers has found no
\* file, hence nobody has presented anything yet.
FileIsIssued ==
    /\ file \in issued \cup {NoToken}
    /\ issued \subseteq Jwts

PresentedIsFile == presented \subseteq {file} \ {NoToken}

Registering == {"register", "create", "write", "rename"}
Serving     == {"serve", "up", "closing", "wait"}

MainKnows ==
    /\ main \in Registering => file = NoToken
    /\ main = "docker" => tok = file
    /\ main \in {"create", "write", "rename", "keep"} => answer \in issued
    /\ main = "rename" => tmp = answer
    /\ main = "keep" => file = answer
    /\ main \in Serving => tok = file /\ tok # NoToken
    /\ channel # "none" => main \in Serving

PersistedInv == TypeOK /\ FileIsIssued /\ PresentedIsFile /\ MainKnows

LEMMA InitPersisted == Init => PersistedInv
<1> SUFFICES ASSUME Init PROVE PersistedInv
    OBVIOUS
<1>1. /\ bootstrap \in BOOLEAN /\ ready \in BOOLEAN
      /\ cancelled \in BOOLEAN /\ signal \in BOOLEAN
  BY DEF Init
<1>2. TypeOK
  BY <1>1, WorkerAssumption DEF Init, TypeOK, Tokens
<1>3. FileIsIssued /\ PresentedIsFile /\ MainKnows
  BY DEF Init, FileIsIssued, PresentedIsFile, MainKnows, Registering, Serving
<1> QED BY <1>2, <1>3 DEF PersistedInv

\* The end of the process takes its memory and leaves the file.
LEMMA GonePersisted ==
    ASSUME PersistedInv, Gone, issued' \in SUBSET Jwts, issued \subseteq issued',
           UNCHANGED <<file, presented, boots, bootstrap>>
    PROVE  PersistedInv'
BY WorkerAssumption DEF Gone, PersistedInv, TypeOK, Tokens, FileIsIssued,
   PresentedIsFile, MainKnows, Registering, Serving

LEMMA StepPersisted == PersistedInv /\ [Next]_vars => PersistedInv'
<1> SUFFICES ASSUME PersistedInv, [Next]_vars PROVE PersistedInv'
    OBVIOUS
<1> USE WorkerAssumption
<1>1. CASE UNCHANGED vars
  BY <1>1 DEF vars, PersistedInv, TypeOK, FileIsIssued, PresentedIsFile, MainKnows
<1>2. CASE Boot
  BY <1>2 DEF Boot, goroutines, PersistedInv, TypeOK, Tokens, FileIsIssued,
     PresentedIsFile, MainKnows, Registering, Serving
<1>3. CASE LoadConfig \/ NewTokenStore \/ DockerUp
  BY <1>3 DEF LoadConfig, NewTokenStore, DockerUp, outside, starting, goroutines,
     PersistedInv, TypeOK, Tokens, FileIsIssued, PresentedIsFile, MainKnows,
     Registering, Serving
<1>4. ASSUME NEW j \in Jwts, Register(j) PROVE PersistedInv'
  BY <1>4 DEF Register, goroutines, PersistedInv, TypeOK, Tokens, FileIsIssued,
     PresentedIsFile, MainKnows, Registering, Serving
<1>5. ASSUME NEW j \in Jwts, RegisterLost(j) PROVE PersistedInv'
  <2>1. issued' \in SUBSET Jwts /\ issued \subseteq issued'
    BY <1>5 DEF RegisterLost, PersistedInv, TypeOK
  <2> QED BY <1>5, <2>1, GonePersisted DEF RegisterLost
<1>6. CASE CreateTemp \/ Write
  BY <1>6 DEF CreateTemp, Write, outside, goroutines, PersistedInv, TypeOK, Tokens,
     FileIsIssued, PresentedIsFile, MainKnows, Registering, Serving
<1>7. CASE Rename
  BY <1>7 DEF Rename, goroutines, PersistedInv, TypeOK, Tokens, FileIsIssued,
     PresentedIsFile, MainKnows, Registering, Serving
<1>8. CASE KeepToken
  BY <1>8 DEF KeepToken, outside, goroutines, PersistedInv, TypeOK, Tokens,
     FileIsIssued, PresentedIsFile, MainKnows, Registering, Serving
<1>9. CASE Serve \/ ListenStep \/ MarkReady
  <2>1. ready' \in BOOLEAN /\ cancelled' \in BOOLEAN
    BY <1>9 DEF Serve, ListenStep, Listen, ListenFails, MarkReady, PersistedInv, TypeOK
  <2> QED
    BY <1>9, <2>1 DEF Serve, ListenStep, Listen, ListenFails, MarkReady, outside,
       starting, PersistedInv, TypeOK, FileIsIssued, PresentedIsFile, MainKnows,
       Registering, Serving
<1>10. CASE Dial
  BY <1>10 DEF Dial, starting, PersistedInv, TypeOK, Tokens, FileIsIssued,
     PresentedIsFile, MainKnows, Registering, Serving
<1>11. CASE DialFails \/ Redial \/ ChannelReturns \/ Disconnect
  BY <1>11 DEF DialFails, Redial, ChannelReturns, Disconnect, outside, starting,
     PersistedInv, TypeOK, FileIsIssued, PresentedIsFile, MainKnows, Registering,
     Serving
<1>12. CASE Signal \/ TakeSignal \/ ShutdownServer
  BY <1>12 DEF Signal, TakeSignal, ShutdownServer, outside, starting,
     PersistedInv, TypeOK, FileIsIssued, PresentedIsFile, MainKnows, Registering,
     Serving
<1>13. CASE Exit \/ Kill \/ Fails
  <2>1. Gone /\ UNCHANGED <<file, issued, presented, boots, bootstrap>>
    BY <1>13 DEF Exit, Kill, Fails, Fatal
  <2> QED BY <2>1, GonePersisted DEF PersistedInv, TypeOK
<1> QED
  BY <1>1, <1>2, <1>3, <1>4, <1>5, <1>6, <1>7, <1>8, <1>9, <1>10, <1>11, <1>12, <1>13
  DEF Next, MainStep, ChannelStep

\* The type invariant of the worker process.
THEOREM WorkerTypeCorrect == Spec => []TypeOK
<1>1. PersistedInv => TypeOK
  BY DEF PersistedInv
<1> QED BY <1>1, InitPersisted, StepPersisted, PTL DEF Spec

\* No start of the worker presents a token that was not issued to it, wherever
\* the starts before it were killed.
THEOREM TokensAreIssued == Spec => []TokenIsIssued
<1>1. PersistedInv => TokenIsIssued
  BY DEF PersistedInv, TokenIsIssued, FileIsIssued, PresentedIsFile
<1> QED BY <1>1, InitPersisted, StepPersisted, PTL DEF Spec

\* The control plane meets a worker under one token, over any number of starts.
THEOREM WorkerHasOneIdentity == Spec => []OneIdentity
<1>1. ASSUME PersistedInv PROVE OneIdentity
  <2>1. presented = {} \/ presented = {file}
    BY <1>1 DEF PersistedInv, PresentedIsFile
  <2>2. Cardinality({}) = 0 /\ Cardinality({file}) = 1
    BY FS_EmptySet, FS_Singleton
  <2> QED BY <2>1, <2>2 DEF OneIdentity
<1> QED BY <1>1, InitPersisted, StepPersisted, PTL DEF Spec

-----------------------------------------------------------------------------
(* CommandChannel: repeated commands.  The property relates two frames at    *)
(* the time they began; what carries it from the one to the other is the     *)
(* dedup table.  Latest says what the table still knows of a frame that has  *)
(* been stored, Fresh what it knows of one that was answered at all, and     *)
(* Missed what a handler has learnt when it decides to execute.              *)

\* A frame that has arrived has an id, one that is answered has a result, and
\* nothing refused is executed.
FramesInv ==
    \A f \in Frames :
        /\ stage[f] = "idle" <=> id[f] = Absent
        /\ stage[f] \in {"store", "reply", "done"} => result[f] \in Results
        /\ stage[f] \in {"exec", "store"} => id[f] \notin BadIds
        /\ f \in executed => id[f] \notin BadIds /\ stage[f] \in {"store", "reply", "done"}
        /\ stage[f] = "store" => f \in executed /\ id[f] # NoId
        /\ began[f] <= clock

CTypeInv == CTypeOK /\ FramesInv

LEMMA CTypeInvHolds == CSpec => []CTypeInv
<1>1. CInit => CTypeInv
  <2> SUFFICES ASSUME CInit PROVE CTypeInv
    OBVIOUS
  <2>1. clock \in 0 .. MaxTime /\ 0 \in 0 .. MaxTime
    BY ChannelAssumption DEF CInit
  <2>2. ASSUME NEW f \in Frames
        PROVE  stage[f] = "idle" /\ id[f] = Absent /\ f \notin executed /\ began[f] <= clock
    BY DEF CInit
  <2>3. FramesInv
    BY <2>2 DEF FramesInv
  <2> QED
    BY <2>1, <2>3 DEF CInit, CTypeOK, CTypeInv
<1>2. CTypeInv /\ [CNext]_cvars => CTypeInv'
  <2> SUFFICES ASSUME CTypeInv, [CNext]_cvars PROVE CTypeInv'
    OBVIOUS
  <2> USE ChannelAssumption DEF CTypeInv, CTypeOK, FramesInv, Results, dedup
  <2>1. CASE UNCHANGED cvars
    BY <2>1 DEF cvars
  <2>2. ASSUME NEW f \in Frames, NEW i \in CommandIds, Arrive(f, i) PROVE CTypeInv'
    BY <2>2 DEF Arrive
  <2>3. ASSUME NEW f \in Frames, Refuse(f) PROVE CTypeInv'
    BY <2>3 DEF Refuse
  <2>4. ASSUME NEW f \in Frames, Lookup(f) PROVE CTypeInv'
    BY <2>4 DEF Lookup, Hit
  <2>5. ASSUME NEW f \in Frames, Execute(f) PROVE CTypeInv'
    BY <2>5 DEF Execute
  <2>6. ASSUME NEW f \in Frames, Store(f) PROVE CTypeInv'
    BY <2>6 DEF Store
  <2>7. ASSUME NEW f \in Frames, Reply(f) PROVE CTypeInv'
    BY <2>7 DEF Reply
  <2>8. CASE Connect
    BY <2>8 DEF Connect
  <2>9. CASE Backoff
    BY <2>9 DEF Backoff
  <2>10. CASE LinkFails
    BY <2>10 DEF LinkFails
  <2>11. CASE Shutdown
    BY <2>11 DEF Shutdown
  <2>12. CASE Tick
    BY <2>12 DEF Tick
  <2> QED
    BY <2>1, <2>2, <2>3, <2>4, <2>5, <2>6, <2>7, <2>8, <2>9, <2>10, <2>11, <2>12
    DEF CNext, Handle
<1> QED BY <1>1, <1>2, PTL DEF CSpec

\* The type invariant of the channel and its dedup table, for every set of
\* frames and commands, every window and every bound on the clock.
THEOREM ChannelTypeCorrect == CSpec => []CTypeOK
BY CTypeInvHolds, PTL DEF CTypeInv

-----------------------------------------------------------------------------
(* What the dedup table knows *)

Remembers(f) == id[f] \in CommandIds \ (BadIds \cup {NoId})

\* One handler of a command at a time.
OneHandler ==
    \A f, g \in Frames :
        f # g /\ id[f] = id[g] /\ id[f] # Absent => stage[f] = "done" \/ stage[g] = "done"

\* Until its window has passed, the table holds the result of an execution.
Latest ==
    \A f \in executed :
        Remembers(f) /\ stage[f] \in {"reply", "done"} =>
            \/ cached[id[f]] = result[f] /\ expires[id[f]] = began[f] + TTL
            \/ clock >= began[f] + TTL

\* When a command has been answered, a repetition at the same instant hits.
Fresh ==
    \A g \in Frames :
        Remembers(g) /\ stage[g] \in {"reply", "done"} =>
            \/ cached[id[g]] # Absent /\ expires[id[g]] > began[g]
            \/ clock > began[g]

\* A handler that executes began after the windows of all earlier executions
\* of its command, and after every earlier handler of it.
Missed ==
    \A h, g \in Frames :
        /\ h # g /\ id[h] = id[g] /\ Remembers(h)
        /\ stage[h] \in {"exec", "store"} /\ stage[g] = "done"
        => /\ began[h] > began[g]
           /\ g \in executed => began[h] >= began[g] + TTL

\* RetryGetsOriginal, of every answer that is prepared and not only of those
\* that arrive.
Original ==
    \A f \in executed, g \in Frames :
        /\ f # g /\ id[f] = id[g] /\ id[f] # NoId
        /\ stage[g] \notin {"idle", "handle"}
        /\ began[f] <= began[g] /\ began[g] < began[f] + TTL
        => g \notin executed /\ stage[g] \in {"reply", "done"} /\ result[g] = result[f]

DedupInv ==
    /\ OneHandler
    /\ Latest
    /\ Fresh
    /\ Missed
    /\ Original

LEMMA DedupInit == CInit => DedupInv
  BY DEF CInit, DedupInv, OneHandler, Latest, Fresh, Missed, Original, Remembers

LEMMA DedupNext ==
    ASSUME ~Overlap, CTypeInv, DedupInv, [CNext]_cvars
    PROVE  DedupInv'
<1> USE ChannelAssumption
    DEF CTypeInv, CTypeOK, FramesInv, Results, dedup, DedupInv, OneHandler,
        Latest, Fresh, Missed, Original, Remembers
<1>1. CASE UNCHANGED cvars
  BY <1>1 DEF cvars
<1>2. ASSUME NEW f \in Frames, NEW i \in CommandIds, Arrive(f, i) PROVE DedupInv'
  BY <1>2 DEF Arrive
<1>3. ASSUME NEW f \in Frames, Refuse(f) PROVE DedupInv'
  BY <1>3 DEF Refuse
<1>4. ASSUME NEW f \in Frames, Lookup(f) PROVE DedupInv'
  BY <1>4 DEF Lookup, Hit
<1>5. ASSUME NEW f \in Frames, Execute(f) PROVE DedupInv'
  BY <1>5 DEF Execute
<1>6. ASSUME NEW f \in Frames, Store(f) PROVE DedupInv'
  BY <1>6 DEF Store, Expired
<1>7. ASSUME NEW f \in Frames, Reply(f) PROVE DedupInv'
  BY <1>7 DEF Reply
<1>8. CASE Connect
  BY <1>8 DEF Connect
<1>9. CASE Backoff
  BY <1>9 DEF Backoff
<1>10. CASE LinkFails
  BY <1>10 DEF LinkFails
<1>11. CASE Shutdown
  BY <1>11 DEF Shutdown
<1>12. CASE Tick
  BY <1>12 DEF Tick
<1> QED
  BY <1>1, <1>2, <1>3, <1>4, <1>5, <1>6, <1>7, <1>8, <1>9, <1>10, <1>11, <1>12
  DEF CNext, Handle

\* When the control plane does not repeat a command that is still running, a
\* repetition within the window of an execution is answered with the outcome
\* of that execution, whatever other commands were stored and deleted, and
\* over whatever connections the frames came.
THEOREM RetriesGetTheOriginal ==
    ASSUME ~Overlap
    PROVE  CSpec => []RetryGetsOriginal
<1>1. CTypeInv /\ DedupInv /\ [CNext]_cvars => DedupInv'
  BY DedupNext
<1>2. DedupInv => RetryGetsOriginal
  BY DEF DedupInv, Original, RetryGetsOriginal
<1> QED
  BY DedupInit, CTypeInvHolds, <1>1, <1>2, PTL DEF CSpec

-----------------------------------------------------------------------------
(* Metrics: samples, ghosts and the gauge *)

\* Which of the first n samples are counted with bucket i, or at most with it.
CountedWith(buffer, n, i) == {s \in 0 .. n - 1 : bucketIndex(buffer[s]) = i}
CountedUpTo(buffer, n, i) == {s \in 0 .. n - 1 : bucketIndex(buffer[s]) <= i}

\* The counts are those of the first n samples.
Tally(buffer, n, buckets) ==
    \A i \in Buckets : buckets[i] = Cardinality(CountedWith(buffer, n, i))

\* The next position is the number of samples, to the last: a full buffer takes
\* no more.  The counts are those of the samples.
Filling(b) == b.head = b.cur /\ Tally(b.buffer, b.cur, b.buckets)

\* A bucket that has counted no request has no recipe, and no engine metrics.
Untouched(b) == b.requestsTotal = 0 => ~b.recipe /\ ~b.vllmMetrics

\* What the handler of a request at pc r knows of its deployment.
Ghost(d) == d \notin loaded /\ d \notin unloading
Late(d) == {r \in stale[d] : pc[r] \in {"leave", "done"}}
HandlersKnow ==
    /\ \A r \in Requests : pc[r] # "idle" => target[r] \in Ids
    /\ \A d \in Ids : \A r \in stale[d] :
          target[r] = d /\ pc[r] \in {"upstream", "record", "leave", "done"}
    /\ \A r \in Requests : pc[r] = "record" /\ Ghost(target[r]) => r \in stale[target[r]]

\* Nobody counts in the bucket of a deployment that is gone but the requests that
\* were under way when its bucket was removed, each of them once.
GhostsCount ==
    \A d \in Ids : Ghost(d) /\ deployments[d] # Nil =>
                      deployments[d].requestsTotal <= Cardinality(Late(d))

\* The bucket in the scraper's hands has a recipe.
ScraperKnows ==
    /\ scraper.at # "idle" => scraper.id \in Ids
    /\ scraper.own => /\ scraper.id \in Ids /\ deployments[scraper.id] # Nil
                      /\ deployments[scraper.id].recipe

CollectorInv ==
    /\ MTypeOK
    /\ \A d \in Ids : deployments[d] # Nil => Filling(deployments[d]) /\ Untouched(deployments[d])
    /\ HandlersKnow
    /\ GhostsCount
    /\ ScraperKnows

\* The gauge counts the handlers up and down, but starts afresh at a removal.
Gauge(d) == IF deployments[d] = Nil THEN 0 ELSE deployments[d].activeRequests
GaugeInv ==
    \A d \in Ids : Gauge(d) = Cardinality(InFlight(d)) - Cardinality(stale[d])

LEMMA IndexInBuckets ==
    ASSUME NEW val \in Nat
    PROVE  bucketIndex(val) \in Buckets
<1> DEFINE S == {i \in Buckets : val <= Limits[i]} \cup {Len(Limits)}
<1>1. S \in SUBSET Nat /\ S # {} /\ S \subseteq Buckets
  BY MetricsAssumption DEF Buckets
<1> HIDE DEF S
<1>2. Min(S) \in S
  BY <1>1, MinExists
<1> QED
  BY <1>1, <1>2 DEF bucketIndex, S

LEMMA CountedFinite ==
    ASSUME NEW n \in Nat, NEW buffer, NEW i
    PROVE  /\ IsFiniteSet(CountedWith(buffer, n, i)) /\ IsFiniteSet(CountedUpTo(buffer, n, i))
           /\ Cardinality(CountedWith(buffer, n, i)) \in Nat
           /\ Cardinality(CountedUpTo(buffer, n, i)) \in Nat
<1>1. IsFiniteSet(0 .. n - 1)
  BY FS_Interval
<1>2. /\ CountedWith(buffer, n, i) \in SUBSET (0 .. n - 1)
      /\ CountedUpTo(buffer, n, i) \in SUBSET (0 .. n - 1)
  BY DEF CountedWith, CountedUpTo
<1>3. IsFiniteSet(CountedWith(buffer, n, i)) /\ IsFiniteSet(CountedUpTo(buffer, n, i))
  BY <1>1, <1>2, FS_Subset, Zenon
<1> QED
  BY <1>3, FS_CardinalityType

LEMMA NewBucketType == NewBucket \in Bucket /\ Filling(NewBucket) /\ Untouched(NewBucket)
<1> DEFINE none == [i \in Slots |-> 0]
           zero == [i \in Buckets |-> 0]
<1>1. NewBucket \in Bucket /\ Untouched(NewBucket)
  BY MetricsAssumption DEF NewBucket, Bucket, Untouched, Slots, Buckets
<1>2. /\ NewBucket.head = 0 /\ NewBucket.cur = 0 /\ NewBucket.buffer = none
      /\ NewBucket.buckets = zero
  BY DEF NewBucket
<1>3. \A i : CountedWith(none, 0, i) = {}
  BY DEF CountedWith
<1>4. Tally(none, 0, zero)
  BY <1>3, FS_EmptySet DEF Tally
<1> QED
  BY <1>1, <1>2, <1>4 DEF Filling

(* One more sample is one more count.                                        *)
LEMMA TallyObserve ==
    ASSUME NEW buffer \in [Slots -> Latencies \cup {0}], NEW buckets \in [Buckets -> Int],
           NEW n \in Slots, NEW val \in Latencies, Tally(buffer, n, buckets)
    PROVE  Tally([buffer EXCEPT ![n] = val], n + 1,
                 [buckets EXCEPT ![bucketIndex(val)] = buckets[bucketIndex(val)] + 1])
<1> DEFINE x == bucketIndex(val)
           more == [buffer EXCEPT ![n] = val]
<1>1. n \in Nat /\ x \in Buckets /\ Slots = 0 .. MaxSamples - 1 /\ MaxSamples \in Nat
  BY MetricsAssumption, IndexInBuckets DEF Slots
<1>2. /\ more[n] = val
      /\ \A s \in 0 .. n - 1 : more[s] = buffer[s]
  BY <1>1
<1>3. \A s \in 0 .. n : s = n \/ s \in 0 .. n - 1
  BY <1>1
<1> HIDE DEF more
<1>4. ASSUME NEW i \in Buckets
      PROVE  CountedWith(more, n + 1, i) =
               CountedWith(buffer, n, i) \cup (IF i = x THEN {n} ELSE {})
  <2>1. \A s : s \in 0 .. (n + 1) - 1 <=> s = n \/ s \in 0 .. n - 1
    BY <1>1
  <2> HIDE DEF x
  <2>2. bucketIndex(more[n]) = x
    BY <1>2 DEF x
  <2> QED
    BY <1>2, <2>1, <2>2 DEF CountedWith
<1> HIDE DEF x
<1> DEFINE one == [buckets EXCEPT ![x] = buckets[x] + 1]
<1>5. ASSUME NEW i \in Buckets
      PROVE  one[i] = Cardinality(CountedWith(more, n + 1, i))
  <2>1. buckets[i] = Cardinality(CountedWith(buffer, n, i))
    BY DEF Tally
  <2>2. CASE i = x
    <3>1. /\ CountedWith(more, n + 1, i) = CountedWith(buffer, n, i) \cup {n}
          /\ n \notin CountedWith(buffer, n, i)
      BY <1>1, <1>4, <2>2 DEF CountedWith
    <3>2. Cardinality(CountedWith(more, n + 1, i)) = Cardinality(CountedWith(buffer, n, i)) + 1
      BY <1>1, <3>1, CountedFinite, FS_AddElement
    <3> QED
      BY <2>1, <2>2, <3>2
  <2>3. CASE i # x
    <3>1. CountedWith(more, n + 1, i) = CountedWith(buffer, n, i)
      BY <1>4, <2>3
    <3>2. one[i] = buckets[i]
      BY <2>3
    <3> QED
      BY <2>1, <3>1, <3>2
  <2> QED
    BY <2>2, <2>3
<1> QED
  BY <1>5 DEF Tally, more, x

(* A sample changes the histogram of a bucket and nothing else of it.        *)
LEMMA ObserveKeeps ==
    ASSUME NEW b \in Bucket, Filling(b), ~Panics(b), NEW val \in Latencies
    PROVE  /\ Observe(b, val) \in Bucket /\ Filling(Observe(b, val))
           /\ Observe(b, val).requestsTotal = b.requestsTotal
           /\ Observe(b, val).activeRequests = b.activeRequests
           /\ Observe(b, val).recipe = b.recipe
<1>1. /\ MaxSamples \in Nat \ {0} /\ b.head \in 0 .. MaxSamples /\ b.cur \in 0 .. MaxSamples
      /\ b.buffer \in [Slots -> Latencies \cup {0}] /\ b.buckets \in [Buckets -> Int]
  BY MetricsAssumption DEF Bucket
<1> DEFINE i == bucketIndex(val)
           buf == [b.buffer EXCEPT ![b.cur] = val]
           one == [b.buckets EXCEPT ![i] = b.buckets[i] + 1]
<1>2. b.head = b.cur /\ b.cur < MaxSamples /\ b.cur \in Slots
  BY <1>1 DEF Filling, Panics, Slots
<1>3. buf \in [Slots -> Latencies \cup {0}] /\ Tally(buf, b.cur + 1, one)
  BY <1>1, <1>2, TallyObserve DEF Filling
<1>4. i \in Buckets
  BY MetricsAssumption, IndexInBuckets
<1> HIDE DEF i
<1>5. one \in [Buckets -> Int]
  BY <1>1, <1>4
<1>6. Observe(b, val) = [b EXCEPT !.buffer = buf, !.buckets = one,
                                  !.head = b.head + 1, !.cur = b.cur + 1]
  BY <1>2 DEF Observe, Bucket, i
<1>7. b.head + 1 \in 0 .. MaxSamples /\ b.cur + 1 \in 0 .. MaxSamples
  BY <1>1, <1>2
<1> HIDE DEF buf, one
<1>8. Observe(b, val) \in Bucket
  BY <1>3, <1>5, <1>6, <1>7 DEF Bucket
<1> QED
  BY <1>2, <1>3, <1>6, <1>8 DEF Bucket, Filling

LEMMA CollectorInit == MInit => CollectorInv
  BY DEF MInit, CollectorInv, MTypeOK, HandlersKnow, GhostsCount, ScraperKnows, Resting

(* Whoever asks for a bucket gets one, and a new one has counted nothing.    *)
LEMMA GotBucket ==
    ASSUME CollectorInv, NEW d \in Ids
    PROVE  /\ getBucket(d) \in Bucket /\ Filling(getBucket(d)) /\ Untouched(getBucket(d))
           /\ deployments[d] # Nil => getBucket(d) = deployments[d]
           /\ deployments[d] = Nil => getBucket(d).requestsTotal = 0
  BY NewBucketType DEF getBucket, CollectorInv, MTypeOK, NewBucket

LEMMA WriteBucket ==
    ASSUME CollectorInv, NEW d \in Ids, NEW b \in Bucket, Filling(b), Untouched(b),
           deployments' = [deployments EXCEPT ![d] = b]
    PROVE  /\ deployments' \in [Ids -> Bucket \cup {Nil}]
           /\ deployments'[d] = b /\ b # Nil
           /\ \A e \in Ids \ {d} : deployments'[e] = deployments[e]
           /\ \A e \in Ids : deployments'[e] # Nil =>
                 Filling(deployments'[e]) /\ Untouched(deployments'[e])
<1>1. /\ deployments' \in [Ids -> Bucket \cup {Nil}]
      /\ deployments'[d] = b /\ b # Nil
      /\ \A e \in Ids \ {d} : deployments'[e] = deployments[e]
  BY NilIsNothing DEF CollectorInv, MTypeOK
<1> QED
  BY <1>1 DEF CollectorInv

LEMMA AddActiveKeeps ==
    ASSUME CollectorInv, NEW d \in Ids, NEW n \in Int, AddActive(d, n)
    PROVE  /\ deployments' \in [Ids -> Bucket \cup {Nil}]
           /\ deployments'[d] # Nil
           /\ deployments'[d].activeRequests = getBucket(d).activeRequests + n
           /\ deployments'[d].requestsTotal = getBucket(d).requestsTotal
           /\ deployments'[d].recipe = getBucket(d).recipe
           /\ \A e \in Ids \ {d} : deployments'[e] = deployments[e]
           /\ \A e \in Ids : deployments'[e] # Nil =>
                 Filling(deployments'[e]) /\ Untouched(deployments'[e])
<1> DEFINE b == [getBucket(d) EXCEPT !.activeRequests = @ + n]
<1>1. /\ b \in Bucket /\ Filling(b) /\ Untouched(b)
      /\ b.activeRequests = getBucket(d).activeRequests + n
      /\ b.requestsTotal = getBucket(d).requestsTotal
      /\ b.recipe = getBucket(d).recipe
  BY GotBucket DEF Bucket, Filling, Untouched
<1>2. deployments' = [deployments EXCEPT ![d] = b]
  BY DEF AddActive
<1> HIDE DEF b
<1> QED
  BY <1>1, <1>2, WriteBucket

LEMMA RecordKeeps ==
    ASSUME CollectorInv, NEW d \in Ids, NEW val \in Latencies, RecordRequest(d, val)
    PROVE  /\ deployments' \in [Ids -> Bucket \cup {Nil}] /\ up' \in BOOLEAN
           /\ seen' \in [Ids -> Seq(Latencies)]
           /\ deployments'[d] # Nil
           /\ deployments'[d].activeRequests = getBucket(d).activeRequests
           /\ deployments'[d].requestsTotal = getBucket(d).requestsTotal + 1
           /\ deployments'[d].recipe
           /\ \A e \in Ids \ {d} : deployments'[e] = deployments[e]
           /\ \A e \in Ids : deployments'[e] # Nil =>
                 Filling(deployments'[e]) /\ Untouched(deployments'[e])
<1> DEFINE b == [getBucket(d) EXCEPT !.requestsTotal = @ + 1, !.recipe = TRUE]
           c == IF Panics(b) THEN b ELSE Observe(b, val)
<1>2. /\ b \in Bucket /\ Filling(b) /\ b.activeRequests = getBucket(d).activeRequests
      /\ b.requestsTotal = getBucket(d).requestsTotal + 1 /\ b.recipe
      /\ b.requestsTotal # 0
  <2> DEFINE g == getBucket(d)
  <2>1. g \in Bucket /\ Filling(g)
    BY GotBucket
  <2> HIDE DEF g
  <2> DEFINE h == [g EXCEPT !.requestsTotal = g.requestsTotal + 1]
  <2>2. /\ h \in Bucket /\ Filling(h) /\ h.activeRequests = g.activeRequests
        /\ h.requestsTotal = g.requestsTotal + 1 /\ h.requestsTotal # 0
    BY <2>1 DEF Bucket, Filling
  <2>3. b = [h EXCEPT !.recipe = TRUE]
    BY <2>1 DEF g, Bucket
  <2> HIDE DEF h
  <2>4. /\ b \in Bucket /\ Filling(b) /\ b.activeRequests = h.activeRequests
        /\ b.requestsTotal = h.requestsTotal /\ b.recipe
    BY <2>2, <2>3 DEF Bucket, Filling
  <2> QED
    BY <2>2, <2>4 DEF g
<1>3. /\ deployments' = [deployments EXCEPT ![d] = c]
      /\ seen' = [seen EXCEPT ![d] = Append(@, val)]
      /\ up' = ~Panics(b)
  BY DEF RecordRequest
<1> HIDE DEF b
<1>4. /\ c \in Bucket /\ Filling(c) /\ c.activeRequests = b.activeRequests
      /\ c.requestsTotal = b.requestsTotal /\ c.recipe
  BY <1>2, ObserveKeeps
<1>5. seen' \in [Ids -> Seq(Latencies)]
  <2>1. seen \in [Ids -> Seq(Latencies)] /\ seen[d] \in Seq(Latencies)
    BY DEF CollectorInv, MTypeOK
  <2>2. Append(seen[d], val) \in Seq(Latencies)
    BY <2>1
  <2> QED
    BY <1>3, <2>1, <2>2
<1>6. up' \in BOOLEAN
  BY <1>3, Zenon
<1> HIDE DEF c
<1>7. Untouched(c)
  BY <1>2, <1>4 DEF Untouched
<1> QED
  BY <1>2, <1>3, <1>4, <1>5, <1>6, <1>7, WriteBucket

LEMMA RequestsFinite ==
    ASSUME NEW S, S \subseteq Requests
    PROVE  IsFiniteSet(S) /\ Cardinality(S) \in Nat
<1>1. IsFiniteSet(S)
  BY MetricsAssumption, FS_Subset
<1> QED
  BY <1>1, FS_CardinalityType

(* The late requests of a deployment are finitely many.                      *)
LEMMA LateFinite ==
    ASSUME MTypeOK, NEW d \in Ids
    PROVE  /\ Cardinality(stale[d]) \in Nat
           /\ IsFiniteSet(Late(d)) /\ Cardinality(Late(d)) \in Nat
<1>1. stale[d] \subseteq Requests /\ Late(d) \subseteq Requests
  BY DEF MTypeOK, Late
<1> QED
  BY <1>1, RequestsFinite

(* Handlers only go forward: a late one stays late.                          *)
LEMMA LateGrows ==
    ASSUME CollectorInv, UNCHANGED stale, NEW r \in Requests, NEW p,
           pc' = [pc EXCEPT ![r] = p], pc[r] \in {"leave", "done"} => p \in {"leave", "done"},
           NEW d \in Ids
    PROVE  /\ Late(d) \subseteq Late(d)' /\ Late(d)' \subseteq stale[d]
           /\ IsFiniteSet(Late(d)) /\ IsFiniteSet(Late(d)')
           /\ Cardinality(Late(d)) \in Nat /\ Cardinality(Late(d)') \in Nat
           /\ Cardinality(Late(d)) <= Cardinality(Late(d)')
<1>1. /\ Late(d) \subseteq Late(d)' /\ Late(d)' \subseteq stale[d]
      /\ Late(d) \subseteq Requests /\ Late(d)' \subseteq Requests
  BY DEF Late, CollectorInv, MTypeOK
<1>2. /\ IsFiniteSet(Late(d)') /\ Cardinality(Late(d)') \in Nat
      /\ IsFiniteSet(Late(d)) /\ Cardinality(Late(d)) \in Nat
  BY <1>1, RequestsFinite
<1>3. Cardinality(Late(d)) <= Cardinality(Late(d)')
  BY <1>1, <1>2, FS_Subset
<1> QED
  BY <1>1, <1>2, <1>3

(* A step of a handler that is not a record.                                 *)
LEMMA HandlerKeeps ==
    ASSUME CollectorInv, NEW r \in Requests, NEW p, pc' = [pc EXCEPT ![r] = p],
           MTypeOK', UNCHANGED <<loaded, unloading, scraper, stale>>,
           pc[r] = "idle" => target'[r] \in Ids,
           pc[r] # "idle" => target'[r] = target[r],
           \A q \in Requests \ {r} : target'[q] = target[q],
           <<pc[r], p>> \in {<<"idle", "found">>, <<"found", "upstream">>, <<"leave", "done">>,
                             <<"upstream", "leave">>, <<"upstream", "record">>},
           p = "record" => target[r] \in loaded,
           \A e \in Ids : deployments'[e] # Nil =>
               Filling(deployments'[e]) /\ Untouched(deployments'[e]),
           \A e \in Ids : deployments'[e] # Nil =>
               deployments'[e].requestsTotal = getBucket(e).requestsTotal,
           \A e \in Ids : deployments[e] # Nil =>
               deployments'[e] # Nil /\ deployments'[e].recipe = getBucket(e).recipe
    PROVE  CollectorInv'
<1>t. MTypeOK /\ HandlersKnow /\ ScraperKnows /\ GhostsCount
  BY DEF CollectorInv
<1>1. HandlersKnow'
  BY <1>t DEF HandlersKnow, MTypeOK, Ghost
<1>2. GhostsCount'
  <2> SUFFICES ASSUME NEW d \in Ids, Ghost(d), deployments'[d] # Nil
               PROVE  deployments'[d].requestsTotal <= Cardinality(Late(d)')
    BY DEF GhostsCount, Ghost
  <2>1. Cardinality(Late(d)) <= Cardinality(Late(d)')
    BY LateGrows
  <2>2. Cardinality(Late(d)) \in Nat /\ Cardinality(Late(d)') \in Nat
    BY LateGrows
  <2>3. /\ deployments[d] # Nil => getBucket(d) = deployments[d]
        /\ deployments[d] = Nil => getBucket(d).requestsTotal = 0
        /\ getBucket(d).requestsTotal \in Nat
    BY GotBucket DEF Bucket
  <2>4. getBucket(d).requestsTotal <= Cardinality(Late(d))
    BY <1>t, <2>2, <2>3 DEF GhostsCount
  <2> QED
    BY <2>1, <2>2, <2>3, <2>4
<1>3. ScraperKnows'
  <2>1. \A e \in Ids : deployments[e] # Nil => getBucket(e) = deployments[e]
    BY DEF getBucket
  <2> QED
    BY <1>t, <2>1 DEF ScraperKnows, MTypeOK
<1> QED
  BY <1>1, <1>2, <1>3 DEF CollectorInv

(* A step that leaves handlers and history alone, and counts nothing.        *)
LEMMA OtherKeeps ==
    ASSUME CollectorInv, MTypeOK', ScraperKnows', UNCHANGED <<pc, target, stale>>,
           \A d \in Ids : Ghost(d)' => Ghost(d),
           \A e \in Ids : deployments'[e] # Nil =>
               /\ Filling(deployments'[e]) /\ Untouched(deployments'[e])
               /\ deployments'[e].requestsTotal = getBucket(e).requestsTotal
    PROVE  CollectorInv'
<1>t. MTypeOK /\ HandlersKnow /\ GhostsCount
  BY DEF CollectorInv
<1>1. HandlersKnow'
  BY <1>t DEF HandlersKnow
<1>2. GhostsCount'
  <2> SUFFICES ASSUME NEW d \in Ids, Ghost(d), deployments'[d] # Nil
               PROVE  deployments'[d].requestsTotal <= Cardinality(Late(d)')
    BY DEF GhostsCount
  <2>1. Late(d)' = Late(d) /\ Cardinality(Late(d)) \in Nat
    BY <1>t, LateFinite DEF Late
  <2>2. /\ deployments[d] # Nil => getBucket(d) = deployments[d]
        /\ deployments[d] = Nil => getBucket(d).requestsTotal = 0
    BY GotBucket
  <2> QED
    BY <1>t, <2>1, <2>2 DEF GhostsCount
<1> QED
  BY <1>1, <1>2 DEF CollectorInv

LEMMA CollectorNext == CollectorInv /\ [MNext]_mvars => CollectorInv'
<1> SUFFICES ASSUME CollectorInv, [MNext]_mvars PROVE CollectorInv'
  OBVIOUS
<1>t. /\ MTypeOK /\ HandlersKnow /\ GhostsCount /\ ScraperKnows
      /\ \A d \in Ids : deployments[d] # Nil =>
            Filling(deployments[d]) /\ Untouched(deployments[d])
      /\ \A d \in Ids : deployments[d] # Nil => getBucket(d) = deployments[d]
  BY DEF CollectorInv, getBucket
<1>1. ASSUME NEW r \in Requests, NEW d \in Ids, FindEndpoint(r, d) PROVE CollectorInv'
  <2>1. /\ pc[r] = "idle" /\ pc' = [pc EXCEPT ![r] = "found"]
        /\ target' = [target EXCEPT ![r] = d]
        /\ UNCHANGED <<up, loaded, unloading, deployments, scraper, sending, seen, stale>>
    BY <1>1 DEF FindEndpoint, known, background, history
  <2>2. MTypeOK' /\ target'[r] = d /\ \A q \in Requests \ {r} : target'[q] = target[q]
    BY <1>t, <2>1 DEF MTypeOK
  <2> QED
    BY <1>t, <2>1, <2>2, HandlerKeeps
<1>2. ASSUME NEW r \in Requests, IncActive(r) PROVE CollectorInv'
  <2>1. /\ AddActive(target[r], 1) /\ pc[r] = "found" /\ pc' = [pc EXCEPT ![r] = "upstream"]
        /\ UNCHANGED <<up, loaded, unloading, target, scraper, sending, seen, stale>>
        /\ target[r] \in Ids
    BY <1>t, <1>2 DEF IncActive, known, background, history, HandlersKnow
  <2>2. /\ deployments' \in [Ids -> Bucket \cup {Nil}]
        /\ \A e \in Ids : deployments'[e] # Nil =>
              Filling(deployments'[e]) /\ Untouched(deployments'[e])
        /\ \A e \in Ids : deployments'[e] # Nil =>
              deployments'[e].requestsTotal = getBucket(e).requestsTotal
        /\ \A e \in Ids : deployments[e] # Nil =>
              deployments'[e] # Nil /\ deployments'[e].recipe = getBucket(e).recipe
    BY <1>t, <2>1, AddActiveKeeps
  <2>3. MTypeOK'
    BY <1>t, <2>1, <2>2 DEF MTypeOK
  <2> QED
    BY <1>t, <2>1, <2>2, <2>3, HandlerKeeps
<1>3. ASSUME NEW r \in Requests, DecActive(r) PROVE CollectorInv'
  <2>1. /\ AddActive(target[r], -1) /\ pc[r] = "leave" /\ pc' = [pc EXCEPT ![r] = "done"]
        /\ UNCHANGED <<up, loaded, unloading, target, scraper, sending, seen, stale>>
        /\ target[r] \in Ids
    BY <1>t, <1>3 DEF DecActive, known, background, history, HandlersKnow
  <2>2. /\ deployments' \in [Ids -> Bucket \cup {Nil}]
        /\ \A e \in Ids : deployments'[e] # Nil =>
              Filling(deployments'[e]) /\ Untouched(deployments'[e])
        /\ \A e \in Ids : deployments'[e] # Nil =>
              deployments'[e].requestsTotal = getBucket(e).requestsTotal
        /\ \A e \in Ids : deployments[e] # Nil =>
              deployments'[e] # Nil /\ deployments'[e].recipe = getBucket(e).recipe
    BY <1>t, <2>1, AddActiveKeeps
  <2>3. MTypeOK'
    BY <1>t, <2>1, <2>2 DEF MTypeOK
  <2> QED
    BY <1>t, <2>1, <2>2, <2>3, HandlerKeeps
<1>4. ASSUME NEW r \in Requests, UpstreamFails(r) \/ UpstreamAnswers(r) PROVE CollectorInv'
  <2>1. PICK p \in {"record", "leave"} :
           /\ pc[r] = "upstream" /\ pc' = [pc EXCEPT ![r] = p]
           /\ p = "record" => target[r] \in loaded
           /\ UNCHANGED <<up, loaded, unloading, deployments, target, scraper, sending, seen,
                          stale>>
    BY <1>4 DEF UpstreamFails, UpstreamAnswers, known, background, history
  <2>2. MTypeOK'
    BY <1>t, <2>1 DEF MTypeOK
  <2>3. target[r] \in Ids
    BY <1>t, <2>1 DEF HandlersKnow
  <2> QED
    BY <1>t, <2>1, <2>2, <2>3, HandlerKeeps
<1>5. ASSUME NEW r \in Requests, NEW val \in Latencies, Record(r, val) PROVE CollectorInv'
  <2> PICK d \in Ids : d = target[r]
    BY <1>t, <1>5 DEF Record, HandlersKnow
  <2>1. /\ RecordRequest(d, val) /\ pc[r] = "record" /\ pc' = [pc EXCEPT ![r] = "leave"]
        /\ UNCHANGED <<loaded, unloading, target, scraper, sending, stale>>
    BY <1>5 DEF Record, known, background
  <2>2. /\ deployments' \in [Ids -> Bucket \cup {Nil}] /\ up' \in BOOLEAN
        /\ seen' \in [Ids -> Seq(Latencies)]
        /\ deployments'[d] # Nil /\ deployments'[d].recipe
        /\ deployments'[d].requestsTotal = getBucket(d).requestsTotal + 1
        /\ \A e \in Ids \ {d} : deployments'[e] = deployments[e]
        /\ \A e \in Ids : deployments'[e] # Nil =>
              Filling(deployments'[e]) /\ Untouched(deployments'[e])
    BY <2>1, RecordKeeps
  <2>3. MTypeOK'
    BY <1>t, <2>1, <2>2 DEF MTypeOK
  <2>4. HandlersKnow' /\ ScraperKnows'
    <3>1. HandlersKnow'
      BY <1>t, <2>1 DEF HandlersKnow, Ghost, MTypeOK
    <3>2. ScraperKnows'
      BY <1>t, <2>1, <2>2 DEF ScraperKnows
    <3> QED
      BY <3>1, <3>2
  <2>5. GhostsCount'
    <3> SUFFICES ASSUME NEW e \in Ids, Ghost(e), deployments'[e] # Nil
                 PROVE  deployments'[e].requestsTotal <= Cardinality(Late(e)')
      BY <2>1 DEF GhostsCount, Ghost
    <3>1. Cardinality(Late(e)) <= Cardinality(Late(e)')
      BY <2>1, LateGrows
    <3>2. /\ Cardinality(Late(e)) \in Nat /\ Cardinality(Late(e)') \in Nat
          /\ IsFiniteSet(Late(e))
      BY <2>1, LateGrows
    <3>3. CASE e # d
      <4>1. deployments[e].requestsTotal \in Nat /\ deployments'[e] = deployments[e]
        BY <1>t, <2>2, <3>3 DEF MTypeOK, Bucket
      <4> QED
        BY <1>t, <3>1, <3>2, <3>3, <4>1 DEF GhostsCount
    <3>4. CASE e = d
      <4>1. r \in stale[d] /\ r \notin Late(d)
        BY <1>t, <2>1, <3>4 DEF HandlersKnow, Late
      <4>2. Late(d)' = Late(d) \cup {r}
        BY <1>t, <2>1, <4>1 DEF Late, MTypeOK
      <4>3. Cardinality(Late(d)') = Cardinality(Late(d)) + 1
        BY <3>2, <3>4, <4>1, <4>2, FS_AddElement
      <4>4. /\ deployments[d] # Nil => getBucket(d) = deployments[d]
            /\ deployments[d] = Nil => getBucket(d).requestsTotal = 0
            /\ getBucket(d).requestsTotal \in Nat
        BY GotBucket DEF Bucket
      <4>5. getBucket(d).requestsTotal <= Cardinality(Late(d))
        BY <1>t, <3>2, <3>4, <4>4 DEF GhostsCount
      <4> QED
        BY <2>2, <3>2, <3>4, <4>3, <4>4, <4>5
    <3> QED
      BY <3>3, <3>4
  <2> QED
    BY <2>2, <2>3, <2>4, <2>5 DEF CollectorInv
<1>6. ASSUME NEW d \in Ids, Load(d) \/ Unload(d) PROVE CollectorInv'
  <2>1. /\ UNCHANGED <<up, deployments, pc, target, scraper, sending, seen, stale>>
        /\ loaded' \in SUBSET Ids /\ unloading' \in SUBSET Ids
        /\ loaded \cup unloading \subseteq loaded' \cup unloading'
    BY <1>t, <1>6 DEF Load, Unload, handler, background, history, MTypeOK
  <2>2. MTypeOK' /\ ScraperKnows' /\ \A e \in Ids : Ghost(e)' => Ghost(e)
    BY <1>t, <2>1 DEF MTypeOK, ScraperKnows, Ghost
  <2> QED
    BY <1>t, <2>1, <2>2, OtherKeeps
<1>7. ASSUME NEW d \in Ids, RemoveDeployment(d) PROVE CollectorInv'
  <2>1. /\ unloading' = unloading \ {d} /\ deployments' = [deployments EXCEPT ![d] = Nil]
        /\ seen' = [seen EXCEPT ![d] = << >>] /\ stale' = [stale EXCEPT ![d] = InFlight(d)]
        /\ UNCHANGED <<up, loaded, pc, target, sending>>
        /\ scraper' = IF scraper.id = d THEN [scraper EXCEPT !.own = FALSE] ELSE scraper
    BY <1>7 DEF RemoveDeployment, handler
  <2>2. /\ scraper' \in [at : {"idle", "picked", "http", "body"}, id : Ids \cup {Nil},
                         own : BOOLEAN]
        /\ scraper'.id = scraper.id /\ scraper'.at = scraper.at
        /\ scraper'.own => scraper.own /\ scraper.id # d
    BY <1>t, <2>1 DEF MTypeOK
  <2>3. /\ InFlight(d) \subseteq Requests
        /\ \A q \in InFlight(d) :
              target[q] = d /\ pc[q] \in {"upstream", "record", "leave", "done"}
        /\ \A q \in Requests : pc[q] = "record" /\ target[q] = d => q \in InFlight(d)
    BY DEF InFlight
  <2>4. MTypeOK'
    BY <1>t, <2>1, <2>2, <2>3 DEF MTypeOK
  <2>5. /\ deployments'[d] = Nil /\ stale'[d] = InFlight(d)
        /\ \A e \in Ids \ {d} : deployments'[e] = deployments[e] /\ stale'[e] = stale[e]
    BY <1>t, <2>1 DEF MTypeOK
  <2>6. HandlersKnow'
    BY <1>t, <2>1, <2>3, <2>5 DEF HandlersKnow, Ghost
  <2>7. GhostsCount'
    BY <1>t, <2>1, <2>5 DEF GhostsCount, Ghost, Late
  <2>8. ScraperKnows'
    BY <1>t, <2>2, <2>5 DEF ScraperKnows
  <2> QED
    BY <1>t, <2>4, <2>5, <2>6, <2>7, <2>8 DEF CollectorInv
<1>8. CASE ScrapeGetsBucket
  <2> PICK d \in Ids : d = scraper.id
    BY <1>t, <1>8 DEF ScrapeGetsBucket, ScraperKnows
  <2> DEFINE b == getBucket(d)
  <2>1. /\ deployments' = [deployments EXCEPT ![d] = b]
        /\ scraper' = IF b.recipe THEN [scraper EXCEPT !.at = "http", !.own = TRUE] ELSE Resting
        /\ UNCHANGED <<up, loaded, unloading, pc, target, sending, seen, stale>>
    BY <1>8 DEF ScrapeGetsBucket, known, handler, history
  <2>2. b \in Bucket /\ Filling(b) /\ Untouched(b)
    BY GotBucket
  <2>h. b = getBucket(d)
    OBVIOUS
  <2> HIDE DEF b
  <2>3. /\ deployments' \in [Ids -> Bucket \cup {Nil}] /\ deployments'[d] # Nil
        /\ deployments'[d] = b
        /\ \A e \in Ids \ {d} : deployments'[e] = deployments[e]
        /\ \A e \in Ids : deployments'[e] # Nil =>
              Filling(deployments'[e]) /\ Untouched(deployments'[e])
    BY <2>1, <2>2, WriteBucket
  <2>4. \A e \in Ids : deployments'[e] # Nil =>
           deployments'[e].requestsTotal = getBucket(e).requestsTotal
    BY <1>t, <2>3, <2>h
  <2>5. /\ scraper' \in [at : {"idle", "picked", "http", "body"}, id : Ids \cup {Nil},
                         own : BOOLEAN]
        /\ scraper'.at # "idle" => scraper'.id = d
        /\ scraper'.own => scraper'.id = d /\ b.recipe
    BY <1>t, <2>1 DEF MTypeOK, Resting
  <2>6. MTypeOK' /\ ScraperKnows'
    BY <1>t, <2>1, <2>3, <2>5 DEF MTypeOK, ScraperKnows
  <2> QED
    BY <2>1, <2>3, <2>4, <2>6, OtherKeeps DEF Ghost
<1>9. CASE ScrapeWrites
  <2>1. /\ scraper' = Resting /\ up' \in BOOLEAN
        /\ UNCHANGED <<loaded, unloading, pc, target, sending, seen, stale>>
    BY <1>t, <1>9 DEF ScrapeWrites, known, handler, history
  <2>2. /\ deployments' \in [Ids -> Bucket \cup {Nil}]
        /\ \A e \in Ids : deployments'[e] # Nil =>
              /\ Filling(deployments'[e]) /\ Untouched(deployments'[e])
              /\ deployments'[e].requestsTotal = getBucket(e).requestsTotal
    <3>1. CASE ~scraper.own
      BY <1>t, <1>9, <3>1 DEF ScrapeWrites, MTypeOK
    <3>2. CASE scraper.own
      <4> PICK d \in Ids : d = scraper.id
        BY <1>t, <1>9 DEF ScrapeWrites, ScraperKnows
      <4> DEFINE b == [deployments[d] EXCEPT !.vllmMetrics = TRUE]
      <4>1. /\ deployments[d] \in Bucket /\ deployments[d] # Nil /\ deployments[d].recipe
            /\ Filling(deployments[d]) /\ Untouched(deployments[d])
        BY <1>t, <3>2 DEF ScraperKnows, MTypeOK
      <4>2. /\ b \in Bucket /\ Filling(b) /\ Untouched(b)
            /\ b.requestsTotal = deployments[d].requestsTotal
        BY <4>1 DEF Bucket, Filling, Untouched
      <4>3. deployments' = [deployments EXCEPT ![d] = b]
        BY <1>9, <3>2 DEF ScrapeWrites
      <4> HIDE DEF b
      <4>4. /\ deployments' \in [Ids -> Bucket \cup {Nil}] /\ deployments'[d] = b
            /\ \A e \in Ids \ {d} : deployments'[e] = deployments[e]
            /\ \A e \in Ids : deployments'[e] # Nil =>
                  Filling(deployments'[e]) /\ Untouched(deployments'[e])
        BY <4>2, <4>3, WriteBucket
      <4> QED
        BY <1>t, <4>1, <4>2, <4>4
    <3> QED
      BY <3>1, <3>2
  <2>3. MTypeOK' /\ ScraperKnows'
    BY <1>t, <2>1, <2>2 DEF MTypeOK, ScraperKnows, Resting
  <2> QED
    BY <2>1, <2>2, <2>3, OtherKeeps DEF Ghost
<1>10. ASSUME \/ \E d \in Ids : ScrapePicks(d)
              \/ ScrapeFails \/ ScrapeLocks \/ HeartbeatSnapshot \/ HeartbeatSent
              \/ UNCHANGED mvars
       PROVE  CollectorInv'
  <2>1. /\ UNCHANGED <<up, loaded, unloading, deployments, pc, target, seen, stale>>
        /\ sending' \in SUBSET Ids
        /\ scraper' \in [at : {"idle", "picked", "http", "body"}, id : Ids \cup {Nil},
                         own : BOOLEAN]
        /\ scraper'.at # "idle" => scraper'.id \in Ids
        /\ scraper'.own => scraper.own /\ scraper'.id = scraper.id
    <3> USE DEF known, handler, history
    <3>1. UNCHANGED <<up, loaded, unloading, deployments, pc, target, seen, stale>>
      BY <1>10 DEF ScrapePicks, ScrapeFails, ScrapeLocks, HeartbeatSnapshot, HeartbeatSent, mvars
    <3>2. \/ UNCHANGED sending
          \/ sending' = {}
          \/ sending' = {d \in DOMAIN Snapshot : deployments[d].vllmMetrics}
      BY <1>10 DEF ScrapePicks, ScrapeFails, ScrapeLocks, HeartbeatSnapshot, HeartbeatSent, mvars
    <3>3. sending' \in SUBSET Ids
      BY <1>t, <3>2 DEF Snapshot, MTypeOK
    <3>4. \/ \E d \in Ids : scraper' = [at |-> "picked", id |-> d, own |-> FALSE]
          \/ scraper' = Resting
          \/ scraper' = [scraper EXCEPT !.at = "body"] /\ scraper.at = "http"
          \/ UNCHANGED scraper
      BY <1>10 DEF ScrapePicks, ScrapeFails, ScrapeLocks, HeartbeatSnapshot, HeartbeatSent, mvars
    <3>5. /\ scraper' \in [at : {"idle", "picked", "http", "body"}, id : Ids \cup {Nil},
                           own : BOOLEAN]
          /\ scraper'.at # "idle" => scraper'.id \in Ids
          /\ scraper'.own => scraper.own /\ scraper'.id = scraper.id
      <4>2. CASE \E d \in Ids : scraper' = [at |-> "picked", id |-> d, own |-> FALSE]
        BY <4>2
      <4>3. CASE scraper' = Resting
        BY <4>3 DEF Resting
      <4>4. CASE scraper' = [scraper EXCEPT !.at = "body"] /\ scraper.at = "http"
        BY <1>t, <4>4 DEF MTypeOK, ScraperKnows
      <4>5. CASE UNCHANGED scraper
        BY <1>t, <4>5 DEF MTypeOK, ScraperKnows
      <4> QED
        BY <3>4, <4>2, <4>3, <4>4, <4>5
    <3> QED
      BY <3>1, <3>3, <3>5
  <2>2. MTypeOK' /\ ScraperKnows'
    BY <1>t, <2>1 DEF MTypeOK, ScraperKnows
  <2> QED
    BY <1>t, <2>1, <2>2, OtherKeeps DEF Ghost
<1> QED
  BY <1>1, <1>2, <1>3, <1>4, <1>5, <1>6, <1>7, <1>8, <1>9, <1>10 DEF MNext

-----------------------------------------------------------------------------
(* The percentiles.  The counts summed up to a bucket are the samples that   *)
(* have come in by it, by induction on the bucket.                           *)

LEMMA SumIsCountedUpTo ==
    ASSUME NEW n \in 0 .. MaxSamples, NEW buffer \in [Slots -> Latencies \cup {0}],
           NEW buckets \in [Buckets -> Int], Tally(buffer, n, buckets), NEW i \in Buckets
    PROVE  SumFunctionOnSet(buckets, 1 .. i) = Cardinality(CountedUpTo(buffer, n, i))
<1> DEFINE P == {k \in Nat : k <= Len(Limits) =>
                    SumFunctionOnSet(buckets, 1 .. k) = Cardinality(CountedUpTo(buffer, n, k))}
<1>n. /\ n \in Nat /\ Len(Limits) \in Nat /\ MaxSamples \in Nat
      /\ \A s \in 0 .. n - 1 : s \in Slots
  BY MetricsAssumption DEF Slots
<1>b. \A s \in 0 .. n - 1 : bucketIndex(buffer[s]) \in Buckets
  BY <1>n, MetricsAssumption, IndexInBuckets
<1>1. 0 \in P
  <2>1. 1 .. 0 = {} /\ IsFiniteSet({}) /\ Cardinality({}) = 0
    BY FS_EmptySet
  <2>2. SumFunctionOnSet(buckets, {}) = 0
    BY <2>1, SumUnfold
  <2>3. CountedUpTo(buffer, n, 0) = {}
    BY <1>b DEF CountedUpTo, Buckets
  <2> QED
    BY <2>1, <2>2, <2>3
<1>2. ASSUME NEW k \in Nat, k \in P PROVE k + 1 \in P
  <2> SUFFICES ASSUME k + 1 <= Len(Limits)
               PROVE  SumFunctionOnSet(buckets, 1 .. k + 1) =
                        Cardinality(CountedUpTo(buffer, n, k + 1))
    OBVIOUS
  <2> DEFINE S == 1 .. k + 1
             low == CountedUpTo(buffer, n, k)
             new == CountedWith(buffer, n, k + 1)
  <2>1. /\ S \ {k + 1} = 1 .. k /\ k + 1 \in S /\ k + 1 \in Buckets
        /\ \A x \in S : x \in Buckets
    BY <1>n DEF Buckets
  <2>2. IsFiniteSet(S)
    BY FS_Interval
  <2>3. SumFunctionOnSet(buckets, S) = buckets[k + 1] + SumFunctionOnSet(buckets, S \ {k + 1})
    <3>1. \A x \in S : buckets[x] \in Int
      BY <2>1
    <3> HIDE DEF S
    <3> QED
      BY <2>1, <2>2, <3>1, SumRemove
  <2>4. SumFunctionOnSet(buckets, 1 .. k) = Cardinality(low)
    BY <1>2, <1>n
  <2>5. buckets[k + 1] = Cardinality(new)
    BY <2>1 DEF Tally
  <2>6. CountedUpTo(buffer, n, k + 1) = low \cup new /\ low \cap new = {}
    <3>1. \A s \in 0 .. n - 1 : /\ bucketIndex(buffer[s]) <= k + 1
                                   <=> \/ bucketIndex(buffer[s]) <= k
                                       \/ bucketIndex(buffer[s]) = k + 1
                                /\ bucketIndex(buffer[s]) <= k => bucketIndex(buffer[s]) # k + 1
      BY <1>b DEF Buckets
    <3> QED
      BY <3>1 DEF CountedUpTo, CountedWith
  <2>7. /\ IsFiniteSet(low) /\ Cardinality(low) \in Nat
        /\ IsFiniteSet(new) /\ Cardinality(new) \in Nat
    BY <1>n, CountedFinite
  <2> HIDE DEF low, new, S
  <2>8. Cardinality(low \cup new) = Cardinality(low) + Cardinality(new)
    <3>1. Cardinality(low \cup new) =
            Cardinality(low) + Cardinality(new) - Cardinality(low \cap new)
      BY <2>7, FS_Union
    <3>2. Cardinality(low \cap new) = 0
      BY <2>6, FS_EmptySet, Zenon
    <3> QED
      BY <2>7, <3>1, <3>2
  <2>9. SumFunctionOnSet(buckets, S) = Cardinality(low) + Cardinality(new)
    <3>1. SumFunctionOnSet(buckets, S) = Cardinality(new) + Cardinality(low)
      BY <2>1, <2>3, <2>4, <2>5, Zenon
    <3> QED
      BY <2>7, <3>1
  <2> QED
    BY <2>6, <2>8, <2>9, Zenon DEF S
<1>3. Nat \subseteq P
  <2> HIDE DEF P
  <2> QED
    BY <1>1, <1>2, NatSet
<1> QED
  BY <1>3, <1>n DEF Buckets

(* The target is the least number of samples that make up the stated part.   *)
LEMMA TargetIsRank ==
    ASSUME NEW n \in Nat, NEW q \in Nat, NEW w \in Nat
    PROVE  w >= (n * q + 99) \div 100 <=> w * 100 >= n * q
<1> DEFINE m == n * q
<1>1. m \in Nat
  OBVIOUS
<1> HIDE DEF m
<1>2. w >= (m + 99) \div 100 <=> w * 100 >= m
  BY <1>1
<1> QED
  BY <1>2 DEF m

LEMMA PercentileIsRank ==
    ASSUME NEW b \in Bucket, Filling(b), b.cur > 0, NEW q \in Nat
    PROVE  Percentile(b, q) =
             Limits[Min({i \in Buckets :
                Cardinality({s \in Samples(b) : bucketIndex(b.buffer[s]) <= i}) * 100
                    >= b.cur * q})]
<1>1. /\ b.cur \in 0 .. MaxSamples /\ b.cur \in Nat
      /\ b.buffer \in [Slots -> Latencies \cup {0}] /\ b.buckets \in [Buckets -> Int]
      /\ Tally(b.buffer, b.cur, b.buckets)
  BY MetricsAssumption DEF Bucket, Filling
<1> DEFINE W(i) == Cardinality({s \in Samples(b) : bucketIndex(b.buffer[s]) <= i})
           t == (b.cur * q + 99) \div 100
<1>2. \A i \in Buckets : SumFunctionOnSet(b.buckets, 1 .. i) = W(i) /\ W(i) \in Nat
  <2> SUFFICES ASSUME NEW i \in Buckets
               PROVE  SumFunctionOnSet(b.buckets, 1 .. i) = W(i) /\ W(i) \in Nat
    OBVIOUS
  <2>1. {s \in Samples(b) : bucketIndex(b.buffer[s]) <= i} = CountedUpTo(b.buffer, b.cur, i)
    BY DEF Samples, CountedUpTo
  <2>2. SumFunctionOnSet(b.buckets, 1 .. i) = Cardinality(CountedUpTo(b.buffer, b.cur, i))
    BY <1>1, SumIsCountedUpTo, Zenon
  <2>3. Cardinality(CountedUpTo(b.buffer, b.cur, i)) \in Nat
    BY <1>1, CountedFinite, Zenon
  <2> QED
    BY <2>1, <2>2, <2>3, Zenon
<1>3. \A i \in Buckets : W(i) >= t <=> W(i) * 100 >= b.cur * q
  BY <1>1, <1>2, TargetIsRank
<1>4. {i \in Buckets : SumFunctionOnSet(b.buckets, 1 .. i) >= t}
        = {i \in Buckets : W(i) * 100 >= b.cur * q}
  <2> HIDE DEF W, t
  <2> QED
    BY <1>2, <1>3
<1>5. b.cur # 0
  BY <1>1
<1> HIDE DEF W
<1>6. Percentile(b, q) = Limits[Min({i \in Buckets : W(i) * 100 >= b.cur * q})]
  BY <1>4, <1>5, Zenon DEF Percentile, FirstAtLeast, t
<1> QED
  BY <1>6, Zenon DEF W

-----------------------------------------------------------------------------
(* The gauge.  It follows the handlers, one up and one down at a time, and   *)
(* starts again from nothing at a removal, when those under way become stale. *)

LEMMA GaugeInit == MInit => GaugeInv
<1> SUFFICES ASSUME MInit, NEW d \in Ids
             PROVE  InFlight(d) = {} /\ Gauge(d) = 0 /\ stale[d] = {}
  BY FS_EmptySet DEF GaugeInv
<1> QED
  BY DEF MInit, InFlight, Gauge

\* What a handler does to the set of those under way, and to its size.
LEMMA HandlersFinite ==
    ASSUME NEW d
    PROVE  IsFiniteSet(InFlight(d)) /\ Cardinality(InFlight(d)) \in Nat
<1>1. InFlight(d) \in SUBSET Requests /\ IsFiniteSet(Requests)
  BY MetricsAssumption DEF InFlight
<1>2. IsFiniteSet(InFlight(d))
  BY <1>1, FS_Subset, Zenon
<1> QED
  BY <1>2, FS_CardinalityType

LEMMA GotGauge ==
    ASSUME NEW d
    PROVE  getBucket(d).activeRequests = Gauge(d)
  BY DEF getBucket, Gauge, NewBucket

LEMMA GaugeNext == CollectorInv /\ GaugeInv /\ [MNext]_mvars => GaugeInv'
<1> SUFFICES ASSUME CollectorInv, GaugeInv, [MNext]_mvars PROVE GaugeInv'
  OBVIOUS
<1>t. /\ MTypeOK /\ \A r \in Requests : pc[r] # "idle" => target[r] \in Ids
      /\ \A e \in Ids : /\ Cardinality(InFlight(e)) \in Nat
                        /\ Cardinality(stale[e]) \in Nat /\ Gauge(e) \in Int
                        /\ Gauge(e) = Cardinality(InFlight(e)) - Cardinality(stale[e])
  BY HandlersFinite, LateFinite DEF CollectorInv, HandlersKnow, GaugeInv
\* A step that leaves the handlers, the gauges and the history as they are.
<1>s. ASSUME \A e \in Ids : InFlight(e)' = InFlight(e) /\ Gauge(e)' = Gauge(e),
             UNCHANGED stale
      PROVE  GaugeInv'
  BY <1>s DEF GaugeInv
<1>1. ASSUME NEW r \in Requests, IncActive(r) PROVE GaugeInv'
  <2> PICK d \in Ids : d = target[r]
    BY <1>t, <1>1 DEF IncActive
  <2>1. /\ AddActive(d, 1) /\ UNCHANGED <<target, stale>>
        /\ pc[r] = "found" /\ pc' = [pc EXCEPT ![r] = "upstream"]
    BY <1>1 DEF IncActive, history
  <2>2. /\ Gauge(d)' = Gauge(d) + 1
        /\ \A e \in Ids \ {d} : Gauge(e)' = Gauge(e)
    BY <2>1, AddActiveKeeps, GotGauge DEF Gauge
  <2>3. /\ InFlight(d)' = InFlight(d) \cup {r} /\ r \notin InFlight(d)
        /\ \A e \in Ids \ {d} : InFlight(e)' = InFlight(e)
    BY <1>t, <2>1 DEF InFlight, MTypeOK
  <2>4. Cardinality(InFlight(d)') = Cardinality(InFlight(d)) + 1
    BY <2>3, HandlersFinite, FS_AddElement
  <2>5. ASSUME NEW e \in Ids
        PROVE  Gauge(e)' = Cardinality(InFlight(e)') - Cardinality(stale'[e])
    <3>1. stale'[e] = stale[e] /\ Gauge(e) = Cardinality(InFlight(e)) - Cardinality(stale[e])
      BY <1>t, <2>1
    <3>2. CASE e = d
      BY <1>t, <2>2, <2>4, <3>1, <3>2
    <3>3. CASE e # d
      BY <2>2, <2>3, <3>1, <3>3
    <3> QED
      BY <3>2, <3>3
  <2> QED
    BY <2>5 DEF GaugeInv
<1>2. ASSUME NEW r \in Requests, DecActive(r) PROVE GaugeInv'
  <2> PICK d \in Ids : d = target[r]
    BY <1>t, <1>2 DEF DecActive
  <2>1. /\ AddActive(d, -1) /\ UNCHANGED <<target, stale>>
        /\ pc[r] = "leave" /\ pc' = [pc EXCEPT ![r] = "done"]
    BY <1>2 DEF DecActive, history
  <2>2. /\ Gauge(d)' = Gauge(d) + (-1)
        /\ \A e \in Ids \ {d} : Gauge(e)' = Gauge(e)
    BY <2>1, AddActiveKeeps, GotGauge DEF Gauge
  <2>3. /\ InFlight(d)' = InFlight(d) \ {r} /\ r \in InFlight(d)
        /\ \A e \in Ids \ {d} : InFlight(e)' = InFlight(e)
    BY <1>t, <2>1 DEF InFlight, MTypeOK
  <2>4. Cardinality(InFlight(d)') = Cardinality(InFlight(d)) - 1
    BY <2>3, HandlersFinite, FS_RemoveElement
  <2>5. ASSUME NEW e \in Ids
        PROVE  Gauge(e)' = Cardinality(InFlight(e)') - Cardinality(stale'[e])
    <3>1. stale'[e] = stale[e] /\ Gauge(e) = Cardinality(InFlight(e)) - Cardinality(stale[e])
      BY <1>t, <2>1
    <3>2. CASE e = d
      BY <1>t, <2>2, <2>4, <3>1, <3>2
    <3>3. CASE e # d
      BY <2>2, <2>3, <3>1, <3>3
    <3> QED
      BY <3>2, <3>3
  <2> QED
    BY <2>5 DEF GaugeInv
<1>3. ASSUME NEW r \in Requests, NEW val \in Latencies, Record(r, val) PROVE GaugeInv'
  <2> PICK d \in Ids : d = target[r]
    BY <1>t, <1>3 DEF Record
  <2>1. /\ RecordRequest(d, val) /\ pc[r] = "record" /\ pc' = [pc EXCEPT ![r] = "leave"]
        /\ UNCHANGED <<target, stale>>
    BY <1>3 DEF Record
  <2>2. \A e \in Ids : InFlight(e)' = InFlight(e)
    BY <1>t, <2>1 DEF InFlight, MTypeOK
  <2>3. \A e \in Ids : Gauge(e)' = Gauge(e)
    BY <2>1, RecordKeeps, GotGauge DEF Gauge
  <2> QED
    BY <1>s, <2>1, <2>2, <2>3
<1>4. ASSUME NEW d \in Ids, RemoveDeployment(d) PROVE GaugeInv'
  <2>1. /\ UNCHANGED <<pc, target>> /\ deployments' = [deployments EXCEPT ![d] = Nil]
        /\ stale' = [stale EXCEPT ![d] = InFlight(d)]
    BY <1>4 DEF RemoveDeployment, handler
  <2>2. /\ \A e \in Ids : InFlight(e)' = InFlight(e)
        /\ Gauge(d)' = 0 /\ stale'[d] = InFlight(d)
        /\ \A e \in Ids \ {d} : Gauge(e)' = Gauge(e) /\ stale'[e] = stale[e]
    <3>1. \A e \in Ids : InFlight(e)' = InFlight(e)
      BY <2>1 DEF InFlight
    <3>2. /\ Gauge(d)' = 0 /\ stale'[d] = InFlight(d)
          /\ \A e \in Ids \ {d} : Gauge(e)' = Gauge(e) /\ stale'[e] = stale[e]
      BY <1>t, <2>1 DEF Gauge, MTypeOK
    <3> QED
      BY <3>1, <3>2
  <2> QED
    BY <1>t, <2>2 DEF GaugeInv
<1>5. CASE ScrapeGetsBucket
  <2> PICK d \in Ids : d = scraper.id
    BY <1>5 DEF ScrapeGetsBucket, CollectorInv, ScraperKnows
  <2> DEFINE b == getBucket(d)
  <2>1. /\ deployments' = [deployments EXCEPT ![d] = b] /\ UNCHANGED <<pc, target, stale>>
    BY <1>5 DEF ScrapeGetsBucket, handler, history
  <2>2. b \in Bucket /\ Filling(b) /\ Untouched(b) /\ b.activeRequests = Gauge(d)
    BY GotBucket, GotGauge
  <2> HIDE DEF b
  <2>3. /\ deployments'[d] = b /\ b # Nil
        /\ \A e \in Ids \ {d} : deployments'[e] = deployments[e]
    BY <2>1, <2>2, WriteBucket
  <2>4. \A e \in Ids : Gauge(e)' = Gauge(e)
    BY <2>2, <2>3 DEF Gauge
  <2> QED
    BY <1>s, <2>1, <2>4 DEF InFlight
<1>6. CASE ScrapeWrites
  <2>1. UNCHANGED <<pc, target, stale>>
    BY <1>6 DEF ScrapeWrites, handler, history
  <2>2. \A e \in Ids : Gauge(e)' = Gauge(e)
    <3>1. CASE ~scraper.own
      BY <1>6, <3>1 DEF ScrapeWrites, Gauge
    <3>2. CASE scraper.own
      <4> PICK d \in Ids : d = scraper.id
        BY <1>6 DEF ScrapeWrites, CollectorInv, ScraperKnows
      <4> DEFINE b == [deployments[d] EXCEPT !.vllmMetrics = TRUE]
      <4>1. deployments[d] \in Bucket /\ deployments[d] # Nil
        BY <1>t, <3>2 DEF CollectorInv, ScraperKnows, MTypeOK
      <4>2. /\ b \in Bucket /\ b.activeRequests = deployments[d].activeRequests
            /\ deployments' = [deployments EXCEPT ![d] = b]
        BY <1>6, <3>2, <4>1 DEF ScrapeWrites, Bucket
      <4> HIDE DEF b
      <4>3. deployments'[d] = b /\ b # Nil
            /\ \A e \in Ids \ {d} : deployments'[e] = deployments[e]
        BY <1>t, <4>1, <4>2, NilIsNothing DEF MTypeOK
      <4> QED
        BY <4>1, <4>2, <4>3 DEF Gauge
    <3> QED
      BY <3>1, <3>2
  <2> QED
    BY <1>s, <2>1, <2>2 DEF InFlight
\* A handler that is not marked yet, or stays marked.
<1>7. ASSUME NEW r \in Requests,
             (\E d \in Ids : FindEndpoint(r, d)) \/ UpstreamFails(r) \/ UpstreamAnswers(r)
      PROVE  GaugeInv'
  <2>1. UNCHANGED <<deployments, stale>>
    BY <1>7 DEF FindEndpoint, UpstreamFails, UpstreamAnswers, history
  <2>2. \A e \in Ids : InFlight(e)' = InFlight(e)
    BY <1>t, <1>7 DEF FindEndpoint, UpstreamFails, UpstreamAnswers, InFlight, MTypeOK
  <2> QED
    BY <1>s, <2>1, <2>2 DEF Gauge
<1>8. ASSUME \/ \E d \in Ids : Load(d) \/ Unload(d) \/ ScrapePicks(d)
             \/ ScrapeFails \/ ScrapeLocks \/ HeartbeatSnapshot \/ HeartbeatSent
             \/ UNCHANGED mvars
      PROVE  GaugeInv'
  <2>1. UNCHANGED <<deployments, pc, target, stale>>
    BY <1>8 DEF Load, Unload, ScrapePicks, ScrapeFails, ScrapeLocks, HeartbeatSnapshot,
                HeartbeatSent, mvars, handler, history
  <2> QED
    BY <1>s, <2>1 DEF Gauge, InFlight
<1> QED
  BY <1>1, <1>2, <1>3, <1>4, <1>5, <1>6, <1>7, <1>8 DEF MNext

-----------------------------------------------------------------------------
(* Theorems *)

\* Counters, gauge and ring buffer keep their types, whatever handlers,
\* unloads and scrapes do to one another: head and cur never pass maxSamples,
\* and no handler counts in a bucket of no deployment.
THEOREM CollectorTypeCorrect == MSpec => []MTypeOK
<1>1. CollectorInv => MTypeOK
  BY DEF CollectorInv
<1> QED
  BY <1>1, CollectorInit, CollectorNext, PTL DEF MSpec

\* GhostCountsStale: in the bucket of a deployment that is gone, made again by a
\* scrape, by RecordRequest or by DecActive, nothing is counted but the requests
\* that were under way when RemoveDeployment ran, each at most once, and engine
\* metrics come after such a count only.  (What ActiveRequests says there is the
\* subject of GaugeDrift.)
THEOREM GhostsCountTheStale == MSpec => []GhostCountsStale
<1>1. CollectorInv => GhostCountsStale
  <2> SUFFICES ASSUME CollectorInv, NEW d \in DOMAIN Snapshot, d \notin loaded, d \notin unloading
               PROVE  /\ Snapshot[d].RequestsTotal <= Cardinality(Late(d))
                      /\ deployments[d].vllmMetrics => Snapshot[d].RequestsTotal > 0
    BY DEF GhostCountsStale, Late
  <2>1. d \in Ids /\ deployments[d] \in Bucket /\ deployments[d] # Nil
    BY DEF CollectorInv, MTypeOK, Snapshot
  <2>2. Snapshot[d].RequestsTotal = deployments[d].requestsTotal
    BY DEF Snapshot
  <2>3. deployments[d].requestsTotal \in Nat
    BY <2>1 DEF Bucket
  <2> QED
    BY <2>1, <2>2, <2>3 DEF CollectorInv, GhostsCount, Ghost, Untouched
<1> QED
  BY <1>1, CollectorInit, CollectorNext, PTL DEF MSpec

\* ActiveDriftsByStale: the gauge a heartbeat reports is the number of requests
\* under way, less the number that were when IncActive's mark was last forgotten
\* by RemoveDeployment: for any requests, loads, unloads and scrapes, in any
\* order.
THEOREM GaugeDrift == MSpec => []ActiveDriftsByStale
<1>1. CollectorInv /\ GaugeInv => ActiveDriftsByStale
  BY DEF CollectorInv, MTypeOK, GaugeInv, Gauge, ActiveDriftsByStale, Snapshot
<1> QED
  BY <1>1, CollectorInit, CollectorNext, GaugeInit, GaugeNext, PTL DEF MSpec

\* PercentilesAreRanks: what PeakHistogram.Snapshot computes is the limit of the
\* first bucket by which 95, and 98, in a hundred of the retained samples have
\* come in, for any limits, latencies and length of the ring buffer: the counts
\* never drift from the samples, and the rounding of the rank is exact.
THEOREM PercentilesAreRanksOfSamples == MSpec => []PercentilesAreRanks
<1>1. CollectorInv => PercentilesAreRanks
  <2> SUFFICES ASSUME CollectorInv, NEW d \in Ids, NEW q \in {95, 98}, deployments[d] # Nil,
                      deployments[d].cur > 0
               PROVE  LET b == deployments[d]
                          Within(i) == Cardinality({s \in Samples(b) :
                                                      bucketIndex(b.buffer[s]) <= i})
                      IN  Percentile(b, q) =
                            Limits[Min({i \in Buckets : Within(i) * 100 >= b.cur * q})]
    BY DEF PercentilesAreRanks
  <2>1. deployments[d] \in Bucket /\ Filling(deployments[d])
    BY DEF CollectorInv, MTypeOK
  <2>2. q \in Nat
    OBVIOUS
  <2> QED
    BY <2>1, <2>2, PercentileIsRank
<1> QED
  BY <1>1, CollectorInit, CollectorNext, PTL DEF MSpec

\* A buffer that is full panics at the next sample.
FullPanics ==
    \A d \in Ids : LET b == deployments[d] IN b # Nil /\ b.cur = MaxSamples => Panics(b)

\* FullPanics, for a ring buffer of any length: the branch of Observe that evicts
\* the oldest sample, "retaining only the last maxSamples observations", is
\* reached by no sequence of requests, unloads and scrapes.
THEOREM NeverEvicts == MSpec => []FullPanics
<1>1. CollectorInv => FullPanics
  BY DEF CollectorInv, Filling, FullPanics, Panics
<1> QED
  BY <1>1, CollectorInit, CollectorNext, PTL DEF MSpec

=============================================================================
