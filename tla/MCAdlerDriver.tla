--------------------------- MODULE MCAdlerDriver ---------------------------
(***************************************************************************)
(* AdlerDriver on a small instance for TLC.                                *)
(***************************************************************************)
EXTENDS AdlerDriver
=============================================================================
