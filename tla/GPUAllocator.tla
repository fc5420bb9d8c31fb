---------------------------- MODULE GPUAllocator ----------------------------
(***************************************************************************)
(* dispatcher.GPUAllocator: which GPUs each deployment, or each role of a  *)
(* group, has been given.  Allocate and Release run under one lock, so     *)
(* each is one step.                                                       *)
(*                                                                         *)
(* Allocate sorts the GPUs a command names by load and then takes as many  *)
(* as it was given: all of them.  The order, on which nothing else depends,*)
(* is left out, and so is the order of the agents, which comes from a map. *)
(* The shares AllocateStatic computes are kept, in units of 1/(n*k) of a   *)
(* GPU for n agents of which k receive slack.                              *)
(***************************************************************************)
EXTENDS Integers, FiniteSets, FiniteSetsExt, Functions

CONSTANTS
    Keys,       \* the names leases are kept under
    TotalGPUs   \* GPUs of the host

VARIABLE allocated   \* key -> GPUs held; a key that holds none is not in the map

makeRange(first, last) == first .. last

\* What a lease for these indices will hold: every GPU, when none are named.
Granted(desirable) ==
    IF desirable = {} THEN makeRange(0, TotalGPUs - 1) ELSE desirable

\* Without GPUs to give the map stays as it is, an older lease included.
Allocate(keys, desirable) ==
    allocated' = [k \in Keys |->
                    IF k \in keys /\ Granted(desirable[k]) # {} THEN Granted(desirable[k])
                    ELSE allocated[k]]

Release(keys) ==
    allocated' = [k \in Keys |-> IF k \in keys THEN {} ELSE allocated[k]]

-----------------------------------------------------------------------------
(* StaticEqualAllocator *)

Agents == {k \in Keys : allocated[k] # {}}
MinResource == [k \in Agents |-> Cardinality(allocated[k])]
Total(share) == SumFunctionOnSet(share, Agents)

\* One more than the largest index in use, the lease that is being replaced, if
\* there is one, included.
poolCapacity(replaced) ==
    1 + Max({0} \cup replaced \cup UNION {allocated[k] : k \in Agents})

\* Admission: the minimums fit the pool.
Admitted(cap) == Total(MinResource) <= cap

\* Those whose equal share of the pool is more than their minimum.
slackReceivers(cap) ==
    LET n == Cardinality(Agents) IN {k \in Agents : cap > n * Cardinality(allocated[k])}

Unit(cap) == Cardinality(Agents) * Max({1, Cardinality(slackReceivers(cap))})

\* The larger of the equal share and the minimum,
EqualOrMin(cap) ==
    LET unit  == Unit(cap)
        slack == slackReceivers(cap)
        least == MinResource
    IN  [k \in Agents |-> IF k \in slack THEN cap * (unit \div Cardinality(Agents))
                          ELSE least[k] * unit]

\* Mutant: the shares are scaled to fit.
ScaledToFit(cap) ==
    LET shares == EqualOrMin(cap)
        over   == Total(shares) > cap * Unit(cap)
    IN  IF over THEN [k \in Agents |-> (shares[k] * cap * Unit(cap)) \div Total(shares)]
        ELSE shares

\* and, where these do not fit together, the minimum and a share of the slack.
AllocateStatic(cap) ==
    LET shares == EqualOrMin(cap)
        unit   == Unit(cap)
        slack  == slackReceivers(cap)
        least  == MinResource
        rest   == cap - Total(least)
    IN  IF Total(shares) > cap * unit
        THEN [k \in Agents |->
                least[k] * unit
                + IF k \in slack THEN rest * (unit \div Cardinality(slack)) ELSE 0]
        ELSE shares

=============================================================================
