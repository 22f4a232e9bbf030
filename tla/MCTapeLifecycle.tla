-------------------------- MODULE MCTapeLifecycle --------------------------
(***************************************************************************)
(* TapeLifecycle on a small instance for TLC.                              *)
(***************************************************************************)
EXTENDS TapeLifecycle
=============================================================================
