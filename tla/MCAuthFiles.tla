---------------------------- MODULE MCAuthFiles ----------------------------
(***************************************************************************)
(* Small instances of AuthFiles for TLC.  Requests differ by their job,    *)
(* not by the worker that serves them.                                     *)
(***************************************************************************)
EXTENDS AuthFiles, TLC

Symmetric == Permutations(Workers)

=============================================================================
