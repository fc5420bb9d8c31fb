------------------------- MODULE MCDeploymentGroups -------------------------
(* DeploymentGroups for TLC: the commands are interchangeable.                *)
EXTENDS DeploymentGroups, TLC

CallSymmetry == Permutations(Calls)
=============================================================================
