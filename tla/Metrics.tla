------------------------------- MODULE Metrics -------------------------------
(***************************************************************************)
(* What the worker counts about inference requests: metrics.Collector, its *)
(* PeakHistogram, the proxy handlers that feed it, the scraper that adds   *)
(* what the model servers say of themselves, the heartbeat that reports it *)
(* and the unload that removes a deployment from it.                       *)
(*                                                                         *)
(* A request is a goroutine of the server: it looks its deployment up,     *)
(* marks itself active, waits for the model server, asks whether the       *)
(* deployment is still known, records its latency and unmarks itself.  The *)
(* deployment may be unloaded, and loaded again, between any two of these. *)
(*                                                                         *)
(* Grain.  One action is one call of the runtime or of the collector.  The *)
(* lookup of a bucket and the update of its counters are one step: if the  *)
(* bucket is removed in between, the update is lost with it, as it is when *)
(* the removal comes after both.  A scrape is four steps, with the http    *)
(* request before the collector's lock is taken and the body read while it *)
(* is held; a heartbeat is two, because the maps of a snapshot are written *)
(* out after the lock is released.                                         *)
(***************************************************************************)
EXTENDS Integers, Sequences, FiniteSets, FiniteSetsExt, Functions

CONSTANTS
    Requests,    \* inference requests
    Ids,         \* deployment ids
    Groups,      \* the ids that name prefill/decode groups
    Nil,         \* no bucket, no deployment
    Limits,      \* upper limits of the latency buckets, ascending
    Latencies,   \* latencies of requests
    MaxSamples   \* length of the ring buffer

ASSUME MetricsAssumption ==
    /\ IsFiniteSet(Requests)
    /\ Groups \subseteq Ids
    /\ Limits \in Seq(Nat) /\ Len(Limits) > 0
    /\ Latencies \subseteq Nat
    /\ MaxSamples \in Nat \ {0}

VARIABLES
    up,           \* the process runs
    loaded,       \* deployments the runtime or the registry knows
    unloading,    \* deployments whose UnloadModel has yet to remove the metrics
    deployments,  \* Collector.deployments
    pc, target,   \* the handler of each request
    scraper,      \* the deployment StartScraper is at, and its bucket if it has one
    sending,      \* deployments whose engine metrics a heartbeat is writing out
    seen,         \* history: latencies recorded in the present bucket
    stale         \* history: requests under way when the bucket was last removed

mvars ==
    <<up, loaded, unloading, deployments, pc, target, scraper, sending, seen, stale>>
known == <<loaded, unloading>>
handler == <<pc, target>>
background == <<scraper, sending>>
history == <<seen, stale>>

Slots == 0 .. MaxSamples - 1

Buckets == 1 .. Len(Limits)

Bucket == [requestsTotal : Nat, activeRequests : Int, buffer : [Slots -> Latencies \cup {0}],
           head : 0 .. MaxSamples, cur : 0 .. MaxSamples, buckets : [Buckets -> Int],
           recipe : BOOLEAN, vllmMetrics : BOOLEAN]

ASSUME NilIsNothing == Nil \notin Ids /\ Nil \notin Bucket

\* The types.  A recipe, and engine metrics, are there or not.
MTypeOK ==
    /\ up \in BOOLEAN
    /\ loaded \in SUBSET Ids
    /\ unloading \in SUBSET Ids
    /\ deployments \in [Ids -> Bucket \cup {Nil}]
    /\ pc \in [Requests -> {"idle", "found", "upstream", "record", "leave", "done"}]
    /\ target \in [Requests -> Ids \cup {Nil}]
    /\ scraper \in [at : {"idle", "picked", "http", "body"}, id : Ids \cup {Nil}, own : BOOLEAN]
    /\ sending \in SUBSET Ids
    /\ seen \in [Ids -> Seq(Latencies)]
    /\ stale \in [Ids -> SUBSET Requests]

\* Between two scrapes.
Resting == [at |-> "idle", id |-> Nil, own |-> FALSE]

MInit ==
    /\ up = TRUE
    /\ loaded = {}
    /\ unloading = {}
    /\ deployments = [d \in Ids |-> Nil]
    /\ pc = [r \in Requests |-> "idle"]
    /\ target = [r \in Requests |-> Nil]
    /\ scraper = Resting
    /\ sending = {}
    /\ seen = [d \in Ids |-> << >>]
    /\ stale = [d \in Ids |-> {}]

-----------------------------------------------------------------------------
(* PeakHistogram *)

\* Values above the last limit count with the last bucket.
bucketIndex(val) == Min({i \in Buckets : val <= Limits[i]} \cup {Len(Limits)})

\* An index past the end of the buffer panics.
Panics(b) == b.cur = MaxSamples /\ b.head = MaxSamples

\* Mutant: the position is advanced before the write.
ObserveSkipsSlot(b, val) ==
    [b EXCEPT !.buffer[b.head + 1] = val, !.buckets[bucketIndex(val)] = @ + 1,
              !.head = @ + 1, !.cur = @ + 1]

Observe(b, val) ==
    IF b.cur < MaxSamples
    THEN [b EXCEPT !.buffer[b.head] = val, !.buckets[bucketIndex(val)] = @ + 1,
                   !.head = @ + 1, !.cur = @ + 1]
    ELSE LET evicted == [b EXCEPT !.buckets[bucketIndex(b.buffer[b.head])] = @ - 1]
         IN  [evicted EXCEPT !.buffer[b.head] = val, !.buckets[bucketIndex(val)] = @ + 1,
                             !.head = (@ + 1) % MaxSamples]

-----------------------------------------------------------------------------
(* Collector *)

NewBucket ==
    [requestsTotal |-> 0, activeRequests |-> 0, buffer |-> [i \in Slots |-> 0],
     head |-> 0, cur |-> 0, buckets |-> [i \in Buckets |-> 0],
     recipe |-> FALSE, vllmMetrics |-> FALSE]

\* A bucket is made for whoever asks, but not while the scraper holds the lock.
Unlocked == scraper.at # "body"
getBucket(d) == IF deployments[d] = Nil THEN NewBucket ELSE deployments[d]

AddActive(d, n) ==
    deployments' = [deployments EXCEPT ![d] =
                      [getBucket(d) EXCEPT !.activeRequests = @ + n]]

RecordRequest(d, val) ==
    LET b == [getBucket(d) EXCEPT !.requestsTotal = @ + 1, !.recipe = TRUE]
    IN  /\ deployments' = [deployments EXCEPT ![d] =
                             IF Panics(b) THEN b ELSE Observe(b, val)]
        /\ seen' = [seen EXCEPT ![d] = Append(@, val)]
        /\ up' = ~Panics(b)

\* The bucket at which the counts have reached the target.
FirstAtLeast(b, n) ==
    Min({i \in Buckets : SumFunctionOnSet(b.buckets, 1 .. i) >= n})

\* PeakHistogram.Snapshot: the limit of the bucket that holds the sample of
\* this rank.
Percentile(b, q) ==
    IF b.cur = 0 THEN 0 ELSE Limits[FirstAtLeast(b, (b.cur * q + 99) \div 100)]

\* What a heartbeat reports of the deployments that have a bucket.
Snapshot ==
    [d \in {e \in Ids : deployments[e] # Nil} |->
        [RequestsTotal  |-> deployments[d].requestsTotal,
         ActiveRequests |-> deployments[d].activeRequests,
         RequestLatencyP50Ms |-> Percentile(deployments[d], 95),
         RequestLatencyP95Ms |-> Percentile(deployments[d], 98)]]

-----------------------------------------------------------------------------
(* The proxy handlers *)

\* EndpointURL, or LookupByID of a group, answers for the deployment;
FindEndpoint(r, d) ==
    /\ up /\ pc[r] = "idle"
    /\ d \in loaded
    /\ pc' = [pc EXCEPT ![r] = "found"]
    /\ target' = [target EXCEPT ![r] = d]
    /\ UNCHANGED <<up, known, deployments, background, history>>

\* it is marked active, loaded still or not;
IncActive(r) ==
    /\ up /\ pc[r] = "found" /\ Unlocked
    /\ AddActive(target[r], 1)
    /\ pc' = [pc EXCEPT ![r] = "upstream"]
    /\ UNCHANGED <<up, known, target, background, history>>

\* the model server fails, or for a group one of the two, and nothing is
\* recorded,
UpstreamFails(r) ==
    /\ up /\ pc[r] = "upstream"
    /\ pc' = [pc EXCEPT ![r] = "leave"]
    /\ UNCHANGED <<up, known, deployments, target, background, history>>

\* or it answers, and DeploymentInfo is asked, which never knows a group;
UpstreamAnswers(r) ==
    /\ up /\ pc[r] = "upstream"
    /\ pc' = [pc EXCEPT ![r] = IF target[r] \in loaded \ Groups THEN "record" ELSE "leave"]
    /\ UNCHANGED <<up, known, deployments, target, background, history>>

\* the answer is recorded,
Record(r, val) ==
    /\ up /\ pc[r] = "record" /\ Unlocked
    /\ RecordRequest(target[r], val)
    /\ pc' = [pc EXCEPT ![r] = "leave"]
    /\ UNCHANGED <<known, target, background, stale>>

\* Mutant: a request that recorded nothing is not unmarked.
DecActiveRecorded(r) ==
    /\ up /\ pc[r] = "leave" /\ Unlocked
    /\ IF Len(seen[target[r]]) = 0 THEN UNCHANGED deployments ELSE AddActive(target[r], -1)
    /\ pc' = [pc EXCEPT ![r] = "done"]
    /\ UNCHANGED <<up, known, target, background, history>>

\* and the deferred DecActive runs in any case.
DecActive(r) ==
    /\ up /\ pc[r] = "leave" /\ Unlocked
    /\ AddActive(target[r], -1)
    /\ pc' = [pc EXCEPT ![r] = "done"]
    /\ UNCHANGED <<up, known, target, background, history>>

\* The requests that are marked active.
InFlight(d) == {r \in Requests : pc[r] \in {"upstream", "record", "leave"} /\ target[r] = d}

-----------------------------------------------------------------------------
(* Deployments come and go *)

Load(d) ==
    /\ up /\ d \notin loaded
    /\ loaded' = loaded \cup {d}
    /\ UNCHANGED <<up, unloading, deployments, handler, background, history>>

\* Dispatcher.UnloadModel, seen from here, one at a time for an id: the
\* deployment goes, if there is one and docker does not fail,
Unload(d) ==
    /\ up /\ d \notin unloading
    /\ loaded' \in {loaded, loaded \ {d}}
    /\ unloading' = unloading \cup {d}
    /\ UNCHANGED <<up, deployments, handler, background, history>>

\* then, in any case, its metrics.
RemoveDeployment(d) ==
    /\ up /\ d \in unloading /\ Unlocked
    /\ unloading' = unloading \ {d}
    /\ deployments' = [deployments EXCEPT ![d] = Nil]
    /\ seen' = [seen EXCEPT ![d] = << >>]
    /\ stale' = [stale EXCEPT ![d] = InFlight(d)]
    /\ scraper' = IF scraper.id = d THEN [scraper EXCEPT !.own = FALSE] ELSE scraper
    /\ UNCHANGED <<up, loaded, handler, sending>>

-----------------------------------------------------------------------------
(* The scraper and the heartbeat *)

\* A tick of StartScraper takes a deployment that is running, with its endpoint.
ScrapePicks(d) ==
    /\ up /\ scraper.at = "idle"
    /\ d \in loaded \ Groups
    /\ scraper' = [at |-> "picked", id |-> d, own |-> FALSE]
    /\ UNCHANGED <<up, known, deployments, handler, sending, history>>

\* ScrapeVLLM gets its bucket, one of its own if the deployment is gone by now,
\* and ends unless a request has left it a recipe.
ScrapeGetsBucket ==
    LET d == scraper.id IN
    /\ up /\ scraper.at = "picked"
    /\ deployments' = [deployments EXCEPT ![d] = getBucket(d)]
    /\ scraper' = IF getBucket(d).recipe THEN [scraper EXCEPT !.at = "http", !.own = TRUE]
                  ELSE Resting
    /\ UNCHANGED <<up, known, handler, sending, history>>

\* The model server does not answer.
ScrapeFails ==
    /\ up /\ scraper.at = "http"
    /\ scraper' = Resting
    /\ UNCHANGED <<up, known, deployments, handler, sending, history>>

\* It answers, and the lock is taken before the body is read.
ScrapeLocks ==
    /\ up /\ scraper.at = "http"
    /\ scraper' = [scraper EXCEPT !.at = "body"]
    /\ UNCHANGED <<up, known, deployments, handler, sending, history>>

\* Mutant: the bucket is looked up again after the request.
ScrapeWritesById ==
    LET d == scraper.id IN
    /\ up /\ scraper.at = "body"
    /\ deployments' = [deployments EXCEPT ![d] = [getBucket(d) EXCEPT !.vllmMetrics = TRUE]]
    /\ scraper' = Resting
    /\ UNCHANGED <<up, known, handler, sending, history>>

\* What it reads goes to that bucket, still known to the collector or not.  A
\* write to a map that a heartbeat is reading ends the process, if the Go runtime
\* notices.  (A heartbeat may also be reading the map of an earlier bucket.)
ScrapeWrites ==
    LET d == scraper.id IN
    /\ up /\ scraper.at = "body"
    /\ deployments' = IF scraper.own THEN [deployments EXCEPT ![d].vllmMetrics = TRUE]
                      ELSE deployments
    /\ up' \in {TRUE, d \notin sending}
    /\ scraper' = Resting
    /\ UNCHANGED <<known, handler, sending, history>>

\* A heartbeat takes its snapshot, and writes it out.
HeartbeatSnapshot ==
    /\ up /\ sending = {} /\ Unlocked
    /\ sending' = {d \in DOMAIN Snapshot : deployments[d].vllmMetrics}
    /\ UNCHANGED <<up, known, deployments, handler, scraper, history>>

HeartbeatSent ==
    /\ up /\ sending # {}
    /\ sending' = {}
    /\ UNCHANGED <<up, known, deployments, handler, scraper, history>>

-----------------------------------------------------------------------------

MNext ==
    \/ \E r \in Requests, d \in Ids : FindEndpoint(r, d)
    \/ \E r \in Requests :
          IncActive(r) \/ UpstreamFails(r) \/ UpstreamAnswers(r) \/ DecActive(r)
    \/ \E r \in Requests, val \in Latencies : Record(r, val)
    \/ \E d \in Ids : Load(d) \/ Unload(d) \/ RemoveDeployment(d) \/ ScrapePicks(d)
    \/ ScrapeGetsBucket \/ ScrapeFails \/ ScrapeLocks \/ ScrapeWrites
    \/ HeartbeatSnapshot \/ HeartbeatSent

MSpec == MInit /\ [][MNext]_mvars

-----------------------------------------------------------------------------
(* Properties *)

\* The samples a bucket retains.
Samples(b) == 0 .. b.cur - 1

\* PeakHistogram.Snapshot computes ranks of the samples a bucket retains: the
\* limit of the first bucket by which 95, and 98, in a hundred of them have come
\* in.  It reads them off counts that are kept beside the samples, by a rank
\* that is rounded.  (The code hands the two on under the names P50 and P95.)
PercentilesAreRanks ==
    \A d \in Ids, q \in {95, 98} :
        LET b == deployments[d]
            Within(i) == Cardinality({s \in Samples(b) : bucketIndex(b.buffer[s]) <= i})
        IN  up /\ b # Nil /\ b.cur > 0 =>
                Percentile(b, q) = Limits[Min({i \in Buckets : Within(i) * 100 >= b.cur * q})]

\* IncActive and DecActive: the number of active requests a heartbeat reports is
\* the number that are under way less the number that were when the metrics of
\* the deployment were last removed, ended since or not: the removal forgets that
\* they were marked, and nobody corrects it.  So it is exact across failed
\* requests, scrapes and reloads as long as no request overlaps an unload of its
\* deployment, and too low by those that do, below zero even, until the id is
\* unloaded again.
ActiveDriftsByStale ==
    up => \A d \in Ids :
              Cardinality(InFlight(d)) - Cardinality(stale[d]) =
                  IF d \in DOMAIN Snapshot THEN Snapshot[d].ActiveRequests ELSE 0

\* A bucket of a deployment that is gone, made again by a scrape or by a request
\* that overlapped the unload and reported by every heartbeat from then on, holds
\* nothing of the former deployment: it has counted no request but those that
\* were under way at the removal, and has engine metrics only if it counted one.
GhostCountsStale ==
    up => \A d \in DOMAIN Snapshot \ (loaded \cup unloading) :
              /\ Snapshot[d].RequestsTotal <=
                     Cardinality({r \in stale[d] : pc[r] \in {"leave", "done"}})
              /\ deployments[d].vllmMetrics => Snapshot[d].RequestsTotal > 0

-----------------------------------------------------------------------------
(* What a comment of the repository claims, and the code does not do. *)

\* "retaining only the last maxSamples observations in FIFO order"
KeepsLastSamples ==
    \A d \in Ids :
        deployments[d] # Nil =>
            LET b    == deployments[d]
                n    == Len(seen[d])
                last == {k \in 1 .. n : k > n - MaxSamples}
            IN  \A v \in Latencies :
                    Cardinality({s \in Samples(b) : b.buffer[s] = v}) =
                    Cardinality({k \in last : seen[d][k] = v})

=============================================================================
