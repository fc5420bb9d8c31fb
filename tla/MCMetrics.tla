------------------------------ MODULE MCMetrics ------------------------------
(* Metrics for TLC: two latency buckets, and a latency for each of them and   *)
(* one above the last limit.  Requests are interchangeable.                   *)
EXTENDS Metrics, TLC

MCLimits == <<1, 2>>
MCLatencies == {1, 2, 3}

\* The percentiles of up to 42 samples, more than a run can record, against the
\* definition of a rank: one in twenty samples may lie above the 95th percentile,
\* and one in fifty above the 98th.
ASSUME RanksAreExact ==
    \A low, high \in 0 .. 21 :
        low + high > 0 =>
            LET b == [cur |-> low + high, buckets |-> <<low, high>>] IN
            /\ Percentile(b, 95) = IF high * 20 <= b.cur THEN Limits[1] ELSE Limits[2]
            /\ Percentile(b, 98) = IF high * 50 <= b.cur THEN Limits[1] ELSE Limits[2]

RequestSymmetry == Permutations(Requests)
=============================================================================
