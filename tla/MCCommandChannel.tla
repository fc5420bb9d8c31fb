--------------------------- MODULE MCCommandChannel ---------------------------
(* CommandChannel for TLC: frames are interchangeable, and so are commands. *)
EXTENDS CommandChannel, TLC

FrameSymmetry ==
    Permutations(Frames) \cup Permutations(CommandIds \ (BadIds \cup {NoId}))
=============================================================================
