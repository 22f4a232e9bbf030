--------------------------- MODULE ScatterGather ---------------------------
(***************************************************************************)
(* One request through do_scatter_gather, a segment per step, and then     *)
(* through a section of the device, a command per step.  Nothing else runs *)
(* here; the question is where on which tape each block of the request     *)
(* ends up.                                                                *)
(***************************************************************************)
EXTENDS TapeCommands, SequencesExt

CONSTANT Inputs   \* the requests to try

(* The block layer never sends a request past the capacity or with more    *)
(* segments than max_segments (set_capacity, queue_limits).                *)
ASSUME InputsAssumption ==
  /\ Inputs \subseteq Request
  /\ \A r \in Inputs : /\ Len(r.segs) \in 1 .. MaxSgEntries
                       /\ r.start + SumOf(r.segs) <= NTapes * TapeBlocks

VARIABLES r,      \* the request
          phase,  \* "build", "run", "done", or "failed"
          i,      \* segments consumed by the loop
          acc,    \* its locals
          sent,   \* blocks covered by the transfers queued so far
          k,      \* commands the device has executed
          tape, pos,  \* the device: inserted tape and position
          placed  \* <<memory cell, tape, block>> for every block moved

sgVars == <<r, phase, i, acc, sent, k, tape, pos, placed>>

Init ==
  /\ r \in Inputs
  /\ phase = "build" /\ i = 0 /\ acc = SgInit(r) /\ sent = 0
  /\ k = 0 /\ tape = 0 /\ pos = 0 /\ placed = {}

(* One round of the loop.                                                  *)
Segment ==
  /\ phase = "build"
  /\ i < Len(r.segs)
  /\ acc' = SgStep(acc, r.segs[i + 1], r.write)
  /\ i' = i + 1
  /\ phase' = IF acc'.failed THEN "failed" ELSE "build"
  /\ sent' = IF acc'.tape_nbr # acc.tape_nbr
             THEN sent + acc.blocks_left_in_tape ELSE sent
  /\ UNCHANGED <<r, k, tape, pos, placed>>

(* The last transfer is queued and the list handed to the device.          *)
Submit ==
  /\ phase = "build"
  /\ i = Len(r.segs)
  /\ acc' = SgFinish(acc, r.write)
  /\ phase' = "run"
  /\ sent' = sent + acc.cmd_total_blocks
  /\ UNCHANGED <<r, i, k, tape, pos, placed>>

(* The memory cells the page table lists, in the order the device walks    *)
(* them; it stops at the last entry of its one page.                       *)
Cells(pgt) == FlattenSeq([e \in 1 .. Min({Len(pgt), MaxSgEntries}) |->
                [j \in 1 .. pgt[e].n |-> pgt[e].addr + j - 1]])

(* A transfer skips off blocks of the page table, then moves one block     *)
(* after the other, n in all, until the count is reached or the tape or    *)
(* the table ends.                                                         *)
Transfer(c) ==
  LET cells == Cells(acc.pgt)
      Ends(n) == \/ n = c.arg
                 \/ pos + n >= TapeBlocks \/ c.off + n >= Len(cells)
  IN  \E n \in 0 .. c.arg :
        /\ Ends(n) /\ \A m \in 0 .. n - 1 : ~Ends(m)
        /\ placed' = placed \cup
             {<<cells[c.off + j + 1], tape, pos + j>> : j \in 0 .. n - 1}
        /\ pos' = pos + n
        /\ phase' = IF n < c.arg \/ pos >= TapeBlocks THEN "failed" ELSE "run"
        /\ UNCHANGED tape

(* The driver ignores EJECT's NO_TAPE.  A tape comes back at the position  *)
(* the device remembers for it, which is uninitialised the first time.     *)
Position(c) ==
  /\ tape' = CASE c.op = "EJECT_TAPE" -> 0
               [] c.op = "TAKE_TAPE" -> c.arg
               [] OTHER -> tape
  /\ pos' \in CASE c.op = "TAKE_TAPE" -> {0, TapeBlocks}
                [] c.op = "FAST_FWD" -> {pos + c.arg}
                [] OTHER -> {0}
  /\ UNCHANGED <<phase, placed>>

Run ==
  /\ phase = "run"
  /\ k < Len(acc.cmds)
  /\ k' = k + 1
  /\ LET c == acc.cmds[k + 1]
     IN  IF IsTransfer(c) THEN Transfer(c) ELSE Position(c)
  /\ UNCHANGED <<r, i, acc, sent>>

Finish ==
  /\ phase = "run"
  /\ k = Len(acc.cmds)
  /\ phase' = "done"
  /\ UNCHANGED <<r, i, acc, sent, k, tape, pos, placed>>

Next == Segment \/ Submit \/ Run \/ Finish

Spec == Init /\ [][Next]_sgVars

-----------------------------------------------------------------------------
(* Where block n of the section lives.                                     *)
TapeOf(n) == n \div TapeBlocks + 1
BlockOf(n) == n % TapeBlocks

(* What the segments of request q look like on the tapes.                  *)
EndOf(q, m) == q.start + SumTo(q.segs, m)

Straddles(q, m) == TapeOf(EndOf(q, m - 1)) # TapeOf(EndOf(q, m) - 1)

(* Segment m reaches the end of a tape and the request goes on.            *)
CrossesAt(q, m) ==
  /\ TapeOf(EndOf(q, m - 1)) # TapeOf(EndOf(q, m))
  /\ EndOf(q, m) # EndOf(q, Len(q.segs)) \/ Straddles(q, m)

(* The entries up to where segment m enters the next tape cover one block  *)
(* each.                                                                   *)
SingleUpTo(q, m) ==
  \A l \in 1 .. m :
    IF Straddles(q, l)
    THEN /\ EndOf(q, l - 1) % TapeBlocks = TapeBlocks - 1
         /\ l < m => EndOf(q, l) % TapeBlocks = 1
    ELSE q.segs[l] = 1

(* The three conditions under which the plan for a request is right.  Up   *)
(* to the last crossing every page table entry covers one block, because   *)
(* the second transfer starts at an entry number where the device counts   *)
(* blocks; ...                                                             *)
EntriesAreBlocks(q) ==
  \A m \in 1 .. Len(q.segs) : CrossesAt(q, m) => SingleUpTo(q, m)

(* ... the last segment lies on one tape, because tapes are only changed   *)
(* at the start of another round; ...                                      *)
LastOnOneTape(q) == ~Straddles(q, Len(q.segs))

(* ... and the entries, two for a segment that straddles, fit the table.   *)
TableFits(q) ==
  Len(q.segs) + Cardinality({m \in 1 .. Len(q.segs) : Straddles(q, m)})
    <= MaxSgEntries

WellPlanned(q) == EntriesAreBlocks(q) /\ LastOnOneTape(q) /\ TableFits(q)

TypeOK ==
  /\ r \in Inputs
  /\ phase \in {"build", "run", "done", "failed"}
  /\ i \in 0 .. Len(r.segs)
  /\ acc \in [cmds : Seq(Command), pgt : Seq([addr : Nat, n : Nat]),
              addr : Nat, cmd_start_pos : Nat, cmd_total_blocks : Nat,
              blocks_left_in_tape : Nat, tape_nbr : Nat,
              prev_tape_nbr : Nat, failed : BOOLEAN]
  /\ sent \in Nat
  /\ k \in Nat /\ tape \in Nat /\ pos \in Nat

(* A request is carried out with every block where the section's numbering *)
(* says, so that what is read back later comes from the same place, if and *)
(* only if it meets the three conditions; do_scatter_gather tests none of  *)
(* them.  "arg1 is offset counted in blocks" (tapedev_main.c:309), "add    *)
(* commands that change tapes" (710) and "at most we have 512 entries in   *)
(* pg table" (1238) say that it need not.                                  *)
PlacementExact ==
  LET right == placed = {<<n, TapeOf(r.start + n), BlockOf(r.start + n)>> :
                           n \in 0 .. SumOf(r.segs) - 1}
  IN  /\ phase = "failed" => ~WellPlanned(r)
      /\ phase = "done" => (right <=> WellPlanned(r))

(* For every request, as the loop goes round: the blocks of the queued     *)
(* transfers and those not queued yet are the ones consumed, the next      *)
(* transfer begins where the queued ones end, and it still fits the tape.  *)
Accounting ==
  phase = "build" =>
    /\ sent + acc.cmd_total_blocks = acc.addr
    /\ r.start + sent + acc.blocks_left_in_tape = acc.tape_nbr * TapeBlocks
    /\ acc.cmd_total_blocks < acc.blocks_left_in_tape
    /\ acc.blocks_left_in_tape <= TapeBlocks

(* No transfer is empty or longer than a tape, or than its 15-bit field.   *)
TransfersFit ==
  \A j \in 1 .. Len(acc.cmds) :
    IsTransfer(acc.cmds[j]) =>
      acc.cmds[j].arg \in 1 .. TapeBlocks /\ acc.cmds[j].arg < CountWidth
=============================================================================
