--------------------------- MODULE MCShellSession ---------------------------
(* ShellSession for TLC: a socket of any kind beside one for a shell on the  *)
(* host, whose image they may share.                                         *)
EXTENDS ShellSession, TLC

CONSTANTS s1, s2

MCKinds == (s1 :> SessionKinds) @@ (s2 :> {"host"})
=============================================================================
