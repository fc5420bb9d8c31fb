---------------------------- MODULE MCDispatcher ----------------------------
(* Dispatcher for TLC.  A load names four GPUs for prefill and one for decode, *)
(* so that equal shares of the pool do not fit, and none for a single          *)
(* deployment, which then gets all of them; or it names one GPU for a single   *)
(* deployment, and for a group one that the host does not have.  The commands  *)
(* are interchangeable, and so are the ids.                                    *)
EXTENDS Dispatcher, TLC

MCGPUChoices ==
    {[single |-> {}, prefill |-> 1 .. 4, decode |-> {6}],
     [single |-> {0}, prefill |-> {7}, decode |-> {6}]}

CallIdSymmetry == Permutations(Calls) \cup Permutations(Ids)
=============================================================================
