---------------------------- MODULE MCOomSampler ----------------------------
(***************************************************************************)
(* OomSampler on a small instance: oomk.user, a process with two threads   *)
(* and one with a single thread, in a map for two of them.                 *)
(***************************************************************************)
EXTENDS OomSampler

CONSTANTS u1, u2, v1, proc1, proc2, oomk

MCProcOf == [c \in {Oomk, u1, u2, v1} |->
               CASE c = Oomk -> oomk [] c = v1 -> proc2 [] OTHER -> proc1]
=============================================================================
