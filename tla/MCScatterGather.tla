-------------------------- MODULE MCScatterGather --------------------------
(* Small instances of ScatterGather.                                       *)
EXTENDS ScatterGather

SegLists == UNION {[1 .. m -> 1 .. TapeBlocks] : m \in 1 .. MaxSgEntries}

(* Every request the block layer can send to a section of this size.      *)
AllInputs ==
  {q \in [start : 0 .. NTapes * TapeBlocks - 1, write : BOOLEAN,
          segs : SegLists] :
     q.start + SumOf(q.segs) <= NTapes * TapeBlocks}
=============================================================================
