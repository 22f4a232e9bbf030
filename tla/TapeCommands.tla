---------------------------- MODULE TapeCommands ----------------------------
(***************************************************************************)
(* How queue_rq turns a request into commands and a page table:            *)
(* calc_start_pos_within_section, create_start_pos_setup_cmds and the loop *)
(* of do_scatter_gather in tapedev_main.c, as operators.                   *)
(*                                                                         *)
(* The block size is 512 bytes throughout: the driver never writes the     *)
(* block size register.  Memory is counted in blocks too: the request's    *)
(* n-th block lives in memory cell n, so a segment of the scatter list is  *)
(* just its length.                                                        *)
(***************************************************************************)
EXTENDS TapeDefs

CONSTANT MaxSgEntries   \* MAX_SG_PGT_ENTRIES, 512; the 9 bits of an offset

(* The 15 bits of a block count.  The largest tape of the device has 8192  *)
(* blocks (tape type 4).                                                   *)
CountWidth == 32768

ASSUME TableAssumption ==
  /\ MaxSgEntries \in Nat \ {0}
  /\ TapeBlocks < CountWidth

(* A request: first block in the section, direction, segment lengths.      *)
Request == [start : 0 .. NTapes * TapeBlocks - 1, write : BOOLEAN,
            segs : Seq(1 .. TapeBlocks)]

(* create_tapedev_cmd: the fields of a transfer are cut to their width.    *)
PlainCmd(op, arg) == [op |-> op, arg |-> arg, off |-> 0]

TransferCmd(write, off, count) ==
  [op |-> IF write THEN "WRITE" ELSE "READ",
   arg |-> count % CountWidth, off |-> off % MaxSgEntries]

(* calc_start_pos_within_section: tapes are numbered from 1.               *)
StartTape(start) == start \div TapeBlocks + 1
StartBlock_NotReduced(start) == start
StartBlock(start) == start - (start \div TapeBlocks) * TapeBlocks

SetupCmds_NoRewind(start) ==
  << PlainCmd("EJECT_TAPE", 0), PlainCmd("TAKE_TAPE", StartTape(start)),
     PlainCmd("FAST_FWD", StartBlock(start)) >>

(* create_start_pos_setup_cmds                                             *)
SetupCmds(start) ==
  << PlainCmd("EJECT_TAPE", 0),
     PlainCmd("TAKE_TAPE", StartTape(start)),
     PlainCmd("REWIND", 0),
     PlainCmd("FAST_FWD", StartBlock(start)) >>

(* The locals of do_scatter_gather.  cmds is cmd_lst_head; pgt the entries *)
(* written so far, so that ent_id = Len(pgt); addr the next memory cell.   *)
SgInit(r) ==
  [cmds |-> SetupCmds(r.start), pgt |-> << >>, addr |-> 0,
   cmd_start_pos |-> 0, cmd_total_blocks |-> 0,
   blocks_left_in_tape |-> TapeBlocks - StartBlock(r.start),
   tape_nbr |-> StartTape(r.start), prev_tape_nbr |-> StartTape(r.start),
   failed |-> FALSE]

PgtEntry(a, n) == [addr |-> a, n |-> n]

(* The loop has moved on to a new tape: change tapes.                      *)
ChangeTape(a) ==
  IF a.prev_tape_nbr < a.tape_nbr
  THEN [a EXCEPT !.prev_tape_nbr = a.tape_nbr,
          !.cmds = @ \o << PlainCmd("EJECT_TAPE", 0),
                           PlainCmd("TAKE_TAPE", a.tape_nbr),
                           PlainCmd("REWIND", 0) >>]
  ELSE a

(* A segment of n blocks that stays on the current tape.                   *)
SegmentFits(a, n) ==
  [a EXCEPT !.pgt = Append(@, PgtEntry(a.addr, n)), !.addr = @ + n,
            !.cmd_total_blocks = @ + n]

(* A segment that reaches the end of the tape: the transfer up to there is *)
(* queued, the rest of the segment gets an entry of its own.               *)
SegmentEndsTape(a, n, write) ==
  LET overflow == a.cmd_total_blocks + n - a.blocks_left_in_tape
      inserted == n - overflow
      b == [a EXCEPT
             !.pgt = Append(@, PgtEntry(a.addr, inserted)),
             !.cmds = Append(@, TransferCmd(write, a.cmd_start_pos,
                                            a.blocks_left_in_tape)),
             !.cmd_start_pos = Len(a.pgt) + 1,
             !.cmd_total_blocks = overflow,
             !.blocks_left_in_tape = TapeBlocks,
             !.tape_nbr = @ + 1]
  IN  IF overflow = 0 THEN [b EXCEPT !.addr = @ + n]
      ELSE IF Len(b.pgt) > MaxSgEntries THEN [b EXCEPT !.failed = TRUE]
      ELSE [b EXCEPT !.addr = @ + n,
                     !.pgt = Append(@, PgtEntry(a.addr + inserted, overflow))]

SgStep_OffByOne(acc, n, write) ==
  LET a == ChangeTape(acc)
  IN  IF acc.tape_nbr > NTapes THEN [acc EXCEPT !.failed = TRUE]
      ELSE IF a.cmd_total_blocks + n > a.blocks_left_in_tape
      THEN SegmentEndsTape(a, n, write)
      ELSE SegmentFits(a, n)

(* One round of the for_each_sg loop.                                      *)
SgStep(acc, n, write) ==
  LET a == ChangeTape(acc)
  IN  IF acc.tape_nbr > NTapes THEN [acc EXCEPT !.failed = TRUE]
      ELSE IF a.cmd_total_blocks + n >= a.blocks_left_in_tape
      THEN SegmentEndsTape(a, n, write)
      ELSE SegmentFits(a, n)

SgFinish_NoTest(a, write) ==
  [a EXCEPT !.cmds = Append(@, TransferCmd(write, a.cmd_start_pos,
                                           a.cmd_total_blocks))]

(* After the loop: what is left over becomes the last transfer.            *)
SgFinish(a, write) ==
  IF a.cmd_total_blocks # 0
  THEN [a EXCEPT !.cmds = Append(@, TransferCmd(write, a.cmd_start_pos,
                                                a.cmd_total_blocks))]
  ELSE a

(* The blocks of the first m segments, and of all of them.                 *)
SumTo(segs, m) ==
  LET sum[n \in 0 .. Len(segs)] ==
        IF n = 0 THEN 0 ELSE sum[n - 1] + segs[n]
  IN  sum[m]

SumOf(segs) == SumTo(segs, Len(segs))

(* The locals after m rounds, and the whole of it: the commands queue_rq   *)
(* makes of request q.                                                     *)
SgAfter(q, m) ==
  LET run[n \in 0 .. Len(q.segs)] ==
        IF n = 0 THEN SgInit(q) ELSE SgStep(run[n - 1], q.segs[n], q.write)
  IN  run[m]

DoScatterGather(q) == SgFinish(SgAfter(q, Len(q.segs)), q.write)
=============================================================================
