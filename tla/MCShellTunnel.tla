---------------------------- MODULE MCShellTunnel ----------------------------
(* ShellTunnel for TLC: frames and stream ids are interchangeable. *)
EXTENDS ShellTunnel, TLC

FrameSymmetry ==
    Permutations(Opens) \cup Permutations(Closes) \cup Permutations(Streams)
=============================================================================
