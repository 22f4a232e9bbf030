---------------------------- MODULE MCTapeDriver ----------------------------
(* Small instances of TapeDriver, with the requests that do_scatter_gather *)
(* really makes of a start block and a list of segments.                   *)
EXTENDS TapeDriver, TapeCommands

MakeRequest(start, write, segs) ==
  [plan |-> DoScatterGather([start |-> start, write |-> write,
                             segs |-> segs]).cmds,
   size |-> SumOf(segs)]

(* One block; and two blocks from the end of tape 1 into tape 2, with a    *)
(* segment boundary on the tape boundary.                                  *)
GoodRequests == {MakeRequest(0, TRUE, <<1>>),
                 MakeRequest(1, FALSE, <<1, 1>>)}

(* A segment that straddles the end of the tape comes last.                *)
StraddlingRequests == {MakeRequest(1, TRUE, <<2>>)}
AllRequests == GoodRequests \cup StraddlingRequests
OneBlock == {MakeRequest(0, TRUE, <<1>>)}
=============================================================================
