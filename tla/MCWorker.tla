------------------------------ MODULE MCWorker ------------------------------
(* Worker for TLC: tokens are model values. *)
EXTENDS Worker
=============================================================================
