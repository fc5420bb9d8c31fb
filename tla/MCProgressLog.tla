---------------------------- MODULE MCProgressLog ----------------------------
(* ProgressLog for TLC: loads and followers are model values. *)
EXTENDS ProgressLog
=============================================================================
