---------------------------- MODULE MCOomKiller ----------------------------
(***************************************************************************)
(* OomKiller on a small instance: two threads of one process and a map of  *)
(* one element, so that an insertion may take the other thread's entry.    *)
(***************************************************************************)
EXTENDS OomKiller, TLC

MCProcOf == [t \in Threads |-> "oomp_test"]

Interchangeable == Permutations(Threads)
=============================================================================
