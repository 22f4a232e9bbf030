------------------------ MODULE ScatterGatherProofs ------------------------
(***************************************************************************)
(* Proofs about the loop of do_scatter_gather, for tapes and page tables   *)
(* of any size and any set of requests.                                    *)
(***************************************************************************)
EXTENDS ScatterGather, TLAPS, SequenceTheorems

(* The locals of the loop.                                                 *)
Locals ==
  [cmds : Seq(Command), pgt : Seq([addr : Nat, n : Nat]),
   addr : Nat, cmd_start_pos : Nat, cmd_total_blocks : Nat,
   blocks_left_in_tape : Nat, tape_nbr : Nat, prev_tape_nbr : Nat,
   failed : BOOLEAN]

(* While the loop runs its locals are well formed and add up.              *)
IInv == TypeOK /\ Accounting /\ TransfersFit

(* TypeOK says that acc is one of the Locals.                              *)
LEMMA LocalsTyped ==
  TypeOK <=> /\ r \in Inputs
             /\ phase \in {"build", "run", "done", "failed"}
             /\ i \in 0 .. Len(r.segs) /\ acc \in Locals
             /\ sent \in Nat /\ k \in Nat /\ tape \in Nat /\ pos \in Nat
BY DEF TypeOK, Locals

-----------------------------------------------------------------------------
(* The parts of a request the block layer may send.                        *)
LEMMA InputType ==
  ASSUME NEW q \in Inputs
  PROVE  /\ q.start \in Nat /\ q.write \in BOOLEAN
         /\ q.segs \in Seq(1 .. TapeBlocks) /\ Len(q.segs) \in Nat
         /\ NTapes \in Nat /\ TapeBlocks \in Nat \ {0}
<1>1. q \in Request
  BY InputsAssumption
<1>2. NTapes \in Nat /\ TapeBlocks \in Nat \ {0}
  BY GeometryAssumption
<1>3. q.segs \in Seq(1 .. TapeBlocks) /\ q.write \in BOOLEAN
  BY <1>1 DEF Request
<1>4. q.start \in Nat
  BY <1>1, <1>2 DEF Request
<1> QED
  BY <1>2, <1>3, <1>4, LenProperties

(* The start block is a block of the start tape                            *)
(* (calc_start_pos_within_section).                                        *)
LEMMA StartOnTape ==
  ASSUME NEW n \in Nat
  PROVE  /\ StartBlock(n) \in 0 .. TapeBlocks - 1
         /\ StartTape(n) \in Nat
         /\ n + TapeBlocks - StartBlock(n) = StartTape(n) * TapeBlocks
<1> USE GeometryAssumption
<1> DEFINE q == n \div TapeBlocks
<1>1. q \in Nat /\ q * TapeBlocks <= n /\ n < q * TapeBlocks + TapeBlocks
  OBVIOUS
<1>2. q * TapeBlocks \in Nat /\ (q + 1) * TapeBlocks = q * TapeBlocks + TapeBlocks
  BY <1>1
<1> QED
  BY <1>1, <1>2 DEF StartBlock, StartTape

-----------------------------------------------------------------------------
(* One round of the loop, on its locals.                                   *)

(* create_tapedev_cmd makes a command of a transfer.                       *)
LEMMA TransferType ==
  ASSUME NEW w, NEW off \in Nat, NEW count \in Nat
  PROVE  TransferCmd(w, off, count) \in Command
<1>1. CountWidth \in Nat \ {0} /\ MaxSgEntries \in Nat \ {0}
  BY TableAssumption DEF CountWidth
<1>2. count % CountWidth \in Nat /\ off % MaxSgEntries \in Nat
  BY <1>1
<1> QED
  BY <1>2 DEF TransferCmd, Command, Ops

(* TransfersFit for a list of commands.                                    *)
Fits(c) ==
  IsTransfer(c) => c.arg \in 1 .. TapeBlocks /\ c.arg < CountWidth

AllFit(cs) == \A j \in 1 .. Len(cs) : Fits(cs[j])

(* Two lists whose transfers fit make one list whose transfers fit.        *)
LEMMA AllFitConcat ==
  ASSUME NEW cs \in Seq(Command), NEW ds \in Seq(Command),
         AllFit(cs), AllFit(ds)
  PROVE  AllFit(cs \o ds)
<1> SUFFICES ASSUME NEW j \in 1 .. Len(cs \o ds) PROVE Fits((cs \o ds)[j])
  BY DEF AllFit
<1>1. /\ Len(cs) \in Nat /\ Len(ds) \in Nat
      /\ Len(cs \o ds) = Len(cs) + Len(ds)
      /\ (cs \o ds)[j] = IF j <= Len(cs) THEN cs[j] ELSE ds[j - Len(cs)]
  BY ConcatProperties, LenProperties
<1>2. CASE j <= Len(cs)
  BY <1>1, <1>2 DEF AllFit
<1>3. CASE ~(j <= Len(cs))
  <2>1. j - Len(cs) \in 1 .. Len(ds)
    BY <1>1, <1>3
  <2> QED
    BY <1>1, <1>3, <2>1 DEF AllFit
<1> QED
  BY <1>2, <1>3

(* A transfer of at most a tape keeps its count through the 15-bit field.  *)
LEMMA AllFitAppend ==
  ASSUME NEW cs \in Seq(Command), AllFit(cs), NEW w, NEW off \in Nat,
         NEW count \in 1 .. TapeBlocks
  PROVE  AllFit(Append(cs, TransferCmd(w, off, count)))
<1> DEFINE c == TransferCmd(w, off, count)
<1>1. count \in Nat /\ count < CountWidth /\ count % CountWidth = count
  BY GeometryAssumption, TableAssumption DEF CountWidth
<1>2. c \in Command /\ c.arg = count
  BY <1>1, TransferType DEF TransferCmd
<1> HIDE DEF c
<1>3. Fits(c)
  BY <1>1, <1>2 DEF Fits
<1>4. /\ Len(cs) \in Nat /\ Len(Append(cs, c)) = Len(cs) + 1
      /\ \A j \in 1 .. Len(cs) : Append(cs, c)[j] = cs[j]
      /\ Append(cs, c)[Len(cs) + 1] = c
  BY <1>2, AppendProperties, LenProperties
<1> QED
  BY <1>3, <1>4 DEF AllFit, c

(* The fields the accounting is about.                                     *)
SameCounts(a, b) ==
  /\ b.addr = a.addr /\ b.cmd_total_blocks = a.cmd_total_blocks
  /\ b.blocks_left_in_tape = a.blocks_left_in_tape
  /\ b.tape_nbr = a.tape_nbr

(* Changing tapes queues no transfer and leaves the counts alone.          *)
LEMMA ChangeTapeType ==
  ASSUME NEW a \in Locals
  PROVE  /\ ChangeTape(a) \in Locals /\ SameCounts(a, ChangeTape(a))
         /\ AllFit(a.cmds) => AllFit(ChangeTape(a).cmds)
<1> DEFINE cs == << PlainCmd("EJECT_TAPE", 0),
                    PlainCmd("TAKE_TAPE", a.tape_nbr),
                    PlainCmd("REWIND", 0) >>
<1>1. cs \in Seq(Command)
  BY DEF PlainCmd, Command, Ops, Locals
<1> HIDE DEF cs
<1>2. a.cmds \o cs \in Seq(Command)
  BY <1>1, ConcatProperties DEF Locals
<1>3. \/ ChangeTape(a) = a
      \/ ChangeTape(a) = [a EXCEPT !.prev_tape_nbr = a.tape_nbr,
                                   !.cmds = a.cmds \o cs]
  BY DEF ChangeTape, cs
<1>4. AllFit(cs)
  BY DEF cs, AllFit, Fits, PlainCmd, IsTransfer
<1>5. AllFit(a.cmds) => AllFit(a.cmds \o cs)
  BY <1>1, <1>4, AllFitConcat DEF Locals
<1> QED
  BY <1>2, <1>3, <1>5 DEF Locals, SameCounts

(* Writing an entry keeps the page table well typed.                       *)
LEMMA EntryType ==
  ASSUME NEW p \in Seq([addr : Nat, n : Nat]), NEW x \in Nat, NEW m \in Nat
  PROVE  Append(p, PgtEntry(x, m)) \in Seq([addr : Nat, n : Nat])
<1>1. PgtEntry(x, m) \in [addr : Nat, n : Nat]
  BY DEF PgtEntry
<1> QED
  BY <1>1, AppendProperties

(* A segment that stays on the tape adds its blocks to the open transfer.  *)
LEMMA FitsType ==
  ASSUME NEW a \in Locals, NEW n \in Nat
  PROVE  LET b == SegmentFits(a, n)
         IN  /\ b \in Locals
             /\ b.addr = a.addr + n
             /\ b.cmd_total_blocks = a.cmd_total_blocks + n
             /\ b.blocks_left_in_tape = a.blocks_left_in_tape
             /\ b.tape_nbr = a.tape_nbr
             /\ b.cmds = a.cmds
<1>1. /\ Append(a.pgt, PgtEntry(a.addr, n)) \in Seq([addr : Nat, n : Nat])
      /\ a.addr + n \in Nat /\ a.cmd_total_blocks + n \in Nat
  <2>1. /\ a.pgt \in Seq([addr : Nat, n : Nat])
        /\ a.addr \in Nat /\ a.cmd_total_blocks \in Nat
    BY DEF Locals
  <2>2. Append(a.pgt, PgtEntry(a.addr, n)) \in Seq([addr : Nat, n : Nat])
    BY <2>1, EntryType
  <2>3. a.addr + n \in Nat /\ a.cmd_total_blocks + n \in Nat
    BY <2>1
  <2> QED
    BY <2>2, <2>3
<1>2. SegmentFits(a, n) =
        [a EXCEPT !.pgt = Append(a.pgt, PgtEntry(a.addr, n)),
                  !.addr = a.addr + n,
                  !.cmd_total_blocks = a.cmd_total_blocks + n]
  BY DEF SegmentFits
<1> QED
  BY <1>1, <1>2 DEF Locals

(* The end of a tape: the blocks that were left on it are sent, the        *)
(* overflow opens the next tape.                                           *)
LEMMA EndsTapeType ==
  ASSUME NEW a \in Locals, NEW n \in Nat, NEW w,
         a.cmd_total_blocks < a.blocks_left_in_tape,
         a.cmd_total_blocks + n >= a.blocks_left_in_tape
  PROVE  LET b == SegmentEndsTape(a, n, w)
         IN  /\ b \in Locals
             /\ b.failed = TRUE \/ b.addr = a.addr + n
             /\ b.cmd_total_blocks =
                  a.cmd_total_blocks + n - a.blocks_left_in_tape
             /\ b.blocks_left_in_tape = TapeBlocks
             /\ b.tape_nbr = a.tape_nbr + 1
<1> DEFINE overflow == a.cmd_total_blocks + n - a.blocks_left_in_tape
           inserted == n - overflow
           p1 == Append(a.pgt, PgtEntry(a.addr, inserted))
           c1 == Append(a.cmds, TransferCmd(w, a.cmd_start_pos,
                                            a.blocks_left_in_tape))
           b1 == [a EXCEPT !.pgt = p1, !.cmds = c1,
                           !.cmd_start_pos = Len(a.pgt) + 1,
                           !.cmd_total_blocks = overflow,
                           !.blocks_left_in_tape = TapeBlocks,
                           !.tape_nbr = a.tape_nbr + 1]
           p2 == Append(b1.pgt, PgtEntry(a.addr + inserted, overflow))
<1>1. /\ a.addr \in Nat /\ a.addr + n \in Nat /\ a.tape_nbr + 1 \in Nat
      /\ overflow \in Nat /\ inserted \in Nat /\ a.addr + inserted \in Nat
      /\ TapeBlocks \in Nat
  <2>1. /\ a.addr \in Nat /\ a.tape_nbr \in Nat
        /\ a.cmd_total_blocks \in Nat /\ a.blocks_left_in_tape \in Nat
    BY DEF Locals
  <2> QED
    BY <2>1, GeometryAssumption
<1>2. Len(a.pgt) + 1 \in Nat
  BY LenProperties DEF Locals
<1>3. p1 \in Seq([addr : Nat, n : Nat])
  <2>1. a.pgt \in Seq([addr : Nat, n : Nat])
    BY DEF Locals
  <2> QED
    BY <1>1, <2>1, EntryType
<1>4. c1 \in Seq(Command)
  <2>1. a.cmds \in Seq(Command) /\ a.cmd_start_pos \in Nat
          /\ a.blocks_left_in_tape \in Nat
    BY DEF Locals
  <2> QED
    BY <2>1, TransferType, AppendProperties
<1>5. \/ SegmentEndsTape(a, n, w) = [b1 EXCEPT !.addr = b1.addr + n]
      \/ SegmentEndsTape(a, n, w) = [b1 EXCEPT !.failed = TRUE]
      \/ SegmentEndsTape(a, n, w) = [b1 EXCEPT !.addr = b1.addr + n,
                                               !.pgt = p2]
  BY DEF SegmentEndsTape
<1> HIDE DEF p1, c1, overflow, inserted
<1>6. /\ b1 \in Locals /\ b1.addr = a.addr
      /\ b1.cmd_total_blocks = overflow
      /\ b1.blocks_left_in_tape = TapeBlocks
      /\ b1.tape_nbr = a.tape_nbr + 1
      /\ b1.pgt = p1
  BY <1>1, <1>2, <1>3, <1>4 DEF Locals
<1> HIDE DEF b1
<1>7. p2 \in Seq([addr : Nat, n : Nat])
  BY <1>1, <1>3, <1>6, EntryType
<1> HIDE DEF p2
<1> QED
  BY <1>1, <1>5, <1>6, <1>7 DEF Locals, overflow

(* The commands with the transfer up to the end of the tape.               *)
CmdsToTapeEnd(a, w) ==
  Append(a.cmds, TransferCmd(w, a.cmd_start_pos, a.blocks_left_in_tape))

(* At the end of a tape exactly one transfer is queued.                    *)
LEMMA EndsTapeCmds ==
  ASSUME NEW a \in Locals, NEW n, NEW w
  PROVE  SegmentEndsTape(a, n, w).cmds = CmdsToTapeEnd(a, w)
<1> DEFINE overflow == a.cmd_total_blocks + n - a.blocks_left_in_tape
           cs == CmdsToTapeEnd(a, w)
           p1 == Append(a.pgt, PgtEntry(a.addr, n - overflow))
           b1 == [a EXCEPT !.pgt = p1, !.cmds = cs,
                           !.cmd_start_pos = Len(a.pgt) + 1,
                           !.cmd_total_blocks = overflow,
                           !.blocks_left_in_tape = TapeBlocks,
                           !.tape_nbr = a.tape_nbr + 1]
           p2 == Append(b1.pgt, PgtEntry(a.addr + (n - overflow), overflow))
<1>1. \/ SegmentEndsTape(a, n, w) = [b1 EXCEPT !.addr = b1.addr + n]
      \/ SegmentEndsTape(a, n, w) = [b1 EXCEPT !.failed = TRUE]
      \/ SegmentEndsTape(a, n, w) = [b1 EXCEPT !.addr = b1.addr + n,
                                               !.pgt = p2]
  BY DEF SegmentEndsTape, CmdsToTapeEnd
<1> HIDE DEF cs, p1, p2, overflow
<1> QED
  BY <1>1 DEF Locals, cs

(* No round queues a transfer that does not fit.                           *)
LEMMA RoundFits ==
  ASSUME NEW a \in Locals, NEW n \in Nat, NEW w, AllFit(a.cmds),
         a.cmd_total_blocks < a.blocks_left_in_tape,
         a.blocks_left_in_tape <= TapeBlocks
  PROVE  AllFit(SgStep(a, n, w).cmds)
<1> DEFINE e == ChangeTape(a)
<1>0. e \in Locals /\ SameCounts(a, e) /\ AllFit(e.cmds)
  BY ChangeTapeType
<1>1. CASE a.tape_nbr > NTapes
  <2>1. SgStep(a, n, w) = [a EXCEPT !.failed = TRUE]
    BY <1>1 DEF SgStep
  <2> QED
    BY <2>1 DEF Locals
<1>2. CASE ~(a.tape_nbr > NTapes)
             /\ e.cmd_total_blocks + n >= e.blocks_left_in_tape
  <2>1. SgStep(a, n, w) = SegmentEndsTape(e, n, w)
    BY <1>2 DEF SgStep
  <2> HIDE DEF e
  <2>2. /\ e.cmds \in Seq(Command) /\ e.cmd_start_pos \in Nat
        /\ e.cmd_total_blocks \in Nat /\ e.blocks_left_in_tape \in Nat
    BY <1>0 DEF Locals
  <2>3. e.cmd_total_blocks < e.blocks_left_in_tape
          /\ e.blocks_left_in_tape <= TapeBlocks
    BY <1>0 DEF SameCounts
  <2>4. e.blocks_left_in_tape \in 1 .. TapeBlocks
    BY <2>2, <2>3, GeometryAssumption
  <2>5. SegmentEndsTape(e, n, w).cmds = CmdsToTapeEnd(e, w)
    BY <1>0, EndsTapeCmds
  <2>6. AllFit(CmdsToTapeEnd(e, w))
    BY <1>0, <2>2, <2>4, AllFitAppend DEF CmdsToTapeEnd
  <2> QED
    BY <2>1, <2>5, <2>6
<1>3. CASE ~(a.tape_nbr > NTapes)
             /\ ~(e.cmd_total_blocks + n >= e.blocks_left_in_tape)
  <2>1. SgStep(a, n, w) = SegmentFits(e, n)
    BY <1>3 DEF SgStep
  <2> HIDE DEF e
  <2>2. SegmentFits(e, n).cmds = e.cmds
    BY <1>0, FitsType
  <2> QED
    BY <1>0, <2>1, <2>2
<1> QED
  BY <1>1, <1>2, <1>3

(* What one round over a segment of n blocks does to the counts: it gives  *)
(* up, stays on the tape, or moves on to the next one.                     *)
Round(a, b, n) ==
  LET total == a.cmd_total_blocks + n
  IN  \/ b.failed = TRUE
      \/ /\ total < a.blocks_left_in_tape
         /\ b.addr = a.addr + n
         /\ b.cmd_total_blocks = total
         /\ b.blocks_left_in_tape = a.blocks_left_in_tape
         /\ b.tape_nbr = a.tape_nbr
      \/ /\ total >= a.blocks_left_in_tape
         /\ b.addr = a.addr + n
         /\ b.cmd_total_blocks = total - a.blocks_left_in_tape
         /\ b.blocks_left_in_tape = TapeBlocks
         /\ b.tape_nbr = a.tape_nbr + 1

(* One round of the loop keeps the locals well typed and its accounts.     *)
LEMMA RoundType ==
  ASSUME NEW a \in Locals, NEW n \in Nat, NEW w,
         a.cmd_total_blocks < a.blocks_left_in_tape
  PROVE  SgStep(a, n, w) \in Locals /\ Round(a, SgStep(a, n, w), n)
<1> DEFINE e == ChangeTape(a)
<1>0. e \in Locals /\ SameCounts(a, e)
  BY ChangeTapeType
<1>1. CASE a.tape_nbr > NTapes
  <2>1. SgStep(a, n, w) = [a EXCEPT !.failed = TRUE]
    BY <1>1 DEF SgStep
  <2> QED
    BY <2>1 DEF Locals, Round
<1>2. CASE ~(a.tape_nbr > NTapes)
             /\ e.cmd_total_blocks + n >= e.blocks_left_in_tape
  <2>1. SgStep(a, n, w) = SegmentEndsTape(e, n, w)
    BY <1>2 DEF SgStep
  <2> HIDE DEF e
  <2>2. /\ e.addr = a.addr /\ e.cmd_total_blocks = a.cmd_total_blocks
        /\ e.blocks_left_in_tape = a.blocks_left_in_tape
        /\ e.tape_nbr = a.tape_nbr
    BY <1>0 DEF SameCounts
  <2>3. LET b == SegmentEndsTape(e, n, w)
        IN  /\ b \in Locals
            /\ b.failed = TRUE \/ b.addr = e.addr + n
            /\ b.cmd_total_blocks =
                 e.cmd_total_blocks + n - e.blocks_left_in_tape
            /\ b.blocks_left_in_tape = TapeBlocks
            /\ b.tape_nbr = e.tape_nbr + 1
    BY <1>0, <1>2, <2>2, EndsTapeType
  <2>4. a.cmd_total_blocks + n >= a.blocks_left_in_tape
    BY <1>2, <2>2
  <2>5. SegmentEndsTape(e, n, w) \in Locals
    BY <2>3
  <2>6. Round(a, SegmentEndsTape(e, n, w), n)
    <3>1. CASE SegmentEndsTape(e, n, w).failed = TRUE
      BY <3>1, Zenon DEF Round
    <3>2. CASE SegmentEndsTape(e, n, w).failed # TRUE
      <4>1. /\ a.addr \in Nat /\ a.tape_nbr \in Nat
            /\ a.cmd_total_blocks \in Nat /\ a.blocks_left_in_tape \in Nat
        BY DEF Locals
      <4> QED
        BY <2>2, <2>3, <2>4, <3>2, <4>1 DEF Round
    <3> QED
      BY <3>1, <3>2
  <2> QED
    BY <2>1, <2>5, <2>6
<1>3. CASE ~(a.tape_nbr > NTapes)
             /\ ~(e.cmd_total_blocks + n >= e.blocks_left_in_tape)
  <2>1. SgStep(a, n, w) = SegmentFits(e, n)
    BY <1>3 DEF SgStep
  <2> HIDE DEF e
  <2>2. a.cmd_total_blocks \in Nat /\ a.blocks_left_in_tape \in Nat
    BY DEF Locals
  <2>3. a.cmd_total_blocks + n < a.blocks_left_in_tape
    BY <1>0, <1>3, <2>2 DEF SameCounts
  <2> QED
    BY <1>0, <2>1, <2>3, FitsType DEF SameCounts, Round
<1> QED
  BY <1>1, <1>2, <1>3

-----------------------------------------------------------------------------
(* The accounts are right before the first round.                          *)
LEMMA InitAdds == Init => IInv
<1> SUFFICES ASSUME Init PROVE IInv
  OBVIOUS
<1>1. /\ r \in Inputs /\ phase = "build" /\ i = 0 /\ acc = SgInit(r)
      /\ sent = 0
  BY DEF Init
<1>2. r.start \in Nat /\ Len(r.segs) \in Nat /\ TapeBlocks \in Nat \ {0}
  BY <1>1, InputType
<1>3. /\ StartBlock(r.start) \in 0 .. TapeBlocks - 1
      /\ StartTape(r.start) \in Nat
      /\ r.start + TapeBlocks - StartBlock(r.start)
           = StartTape(r.start) * TapeBlocks
  BY <1>2, StartOnTape
<1>4. /\ TapeBlocks - StartBlock(r.start) \in 1 .. TapeBlocks
      /\ StartBlock(r.start) \in Nat
  BY <1>2, <1>3
<1>5. SetupCmds(r.start) \in Seq(Command)
  BY <1>3, <1>4 DEF SetupCmds, PlainCmd, Command, Ops
<1>6. << >> \in Seq([addr : Nat, n : Nat])
  BY EmptySeq
<1>7. acc \in Locals
  BY <1>1, <1>2, <1>3, <1>4, <1>5, <1>6 DEF SgInit, Locals
<1>8. Accounting
  <2>1. /\ acc.cmd_total_blocks = 0 /\ acc.addr = 0
        /\ acc.blocks_left_in_tape = TapeBlocks - StartBlock(r.start)
        /\ acc.tape_nbr = StartTape(r.start)
    BY <1>1 DEF SgInit
  <2>2. r.start + 0 + (TapeBlocks - StartBlock(r.start))
          = StartTape(r.start) * TapeBlocks
    BY <1>2, <1>3, <1>4
  <2> QED
    BY <1>1, <1>4, <2>1, <2>2 DEF Accounting
<1>9. TransfersFit
  <2>1. acc.cmds = SetupCmds(r.start)
    BY <1>1 DEF SgInit
  <2> QED
    BY <2>1 DEF TransfersFit, SetupCmds, PlainCmd, IsTransfer
<1>10. TypeOK
  BY <1>1, <1>2, <1>7, LocalsTyped DEF Init
<1> QED
  BY <1>8, <1>9, <1>10 DEF IInv

(* A round keeps the accounts.                                             *)
LEMMA SegmentAdds ==
  ASSUME IInv, Segment
  PROVE  IInv'
<1> DEFINE n == r.segs[i + 1]
           left == acc.blocks_left_in_tape
           total == acc.cmd_total_blocks + n
<1>0. /\ r' = r /\ r \in Inputs /\ i' = i + 1
      /\ acc' = SgStep(acc, n, r.write)
      /\ phase' = IF acc'.failed THEN "failed" ELSE "build"
      /\ sent' = IF acc'.tape_nbr # acc.tape_nbr THEN sent + left ELSE sent
      /\ UNCHANGED <<k, tape, pos>>
  BY LocalsTyped DEF IInv, Segment
<1>1. /\ acc \in Locals /\ sent \in Nat /\ i \in 0 .. Len(r.segs)
      /\ i < Len(r.segs) /\ Accounting!2
      /\ k \in Nat /\ tape \in Nat /\ pos \in Nat
  BY LocalsTyped DEF IInv, Segment, Accounting
<1>2. /\ r.start \in Nat /\ TapeBlocks \in Nat \ {0}
      /\ r.segs \in Seq(1 .. TapeBlocks) /\ Len(r.segs) \in Nat
  BY <1>0, InputType
<1>3. i + 1 \in 1 .. Len(r.segs) /\ i' \in 0 .. Len(r'.segs)
  BY <1>0, <1>1, <1>2
<1>4. n \in 1 .. TapeBlocks
  BY <1>2, <1>3, ElementOfSeq
<1>5. /\ n \in Nat /\ left \in Nat /\ acc.cmd_total_blocks \in Nat
      /\ acc.addr \in Nat /\ acc.tape_nbr \in Nat
  <2>1. n \in Nat
    BY <1>2, <1>4
  <2>2. /\ left \in Nat /\ acc.cmd_total_blocks \in Nat
        /\ acc.addr \in Nat /\ acc.tape_nbr \in Nat
    BY <1>1 DEF Locals
  <2> QED
    BY <2>1, <2>2
<1> HIDE DEF n
<1>6. acc' \in Locals /\ Round(acc, acc', n)
  BY <1>0, <1>1, <1>5, RoundType
<1>7. sent' \in Nat /\ TransfersFit'
  <2>1. AllFit(acc.cmds)
    BY DEF IInv, TransfersFit, AllFit, Fits
  <2>2. AllFit(acc'.cmds)
    BY <1>0, <1>1, <1>5, <2>1, RoundFits
  <2> QED
    BY <1>0, <1>1, <1>5, <2>2 DEF TransfersFit, AllFit, Fits
<1>11. TypeOK'
  <2>1. /\ r' \in Inputs /\ i' \in 0 .. Len(r'.segs) /\ acc' \in Locals
        /\ phase' \in {"build", "run", "done", "failed"}
        /\ sent' \in Nat /\ k' \in Nat /\ tape' \in Nat /\ pos' \in Nat
    BY <1>0, <1>1, <1>3, <1>6, <1>7
  <2> QED
    BY <2>1 DEF TypeOK, Locals
<1>8. CASE acc'.failed
  BY <1>0, <1>7, <1>8, <1>11 DEF IInv, Accounting
<1>9. CASE ~acc'.failed /\ acc'.tape_nbr = acc.tape_nbr
  <2>1. Accounting'
    <3>1. /\ total < left /\ acc'.addr = acc.addr + n
          /\ acc'.cmd_total_blocks = total
          /\ acc'.blocks_left_in_tape = left
          /\ acc'.tape_nbr = acc.tape_nbr /\ sent' = sent
      BY <1>0, <1>5, <1>6, <1>9 DEF Round
    <3>2. sent + total = acc.addr + n
      BY <1>1, <1>5
    <3> QED
      BY <1>0, <1>1, <3>1, <3>2 DEF Accounting
  <2> QED
    BY <1>7, <1>11, <2>1 DEF IInv
<1>10. CASE ~acc'.failed /\ acc'.tape_nbr # acc.tape_nbr
  <2>1. /\ acc'.addr = acc.addr + n /\ acc'.cmd_total_blocks = total - left
        /\ acc'.blocks_left_in_tape = TapeBlocks
        /\ acc'.tape_nbr = acc.tape_nbr + 1 /\ sent' = sent + left
    BY <1>0, <1>6, <1>10 DEF Round
  <2>2. total - left < TapeBlocks
    BY <1>1, <1>2, <1>4, <1>5
  <2>3. (acc.tape_nbr + 1) * TapeBlocks = acc.tape_nbr * TapeBlocks + TapeBlocks
    BY <1>2, <1>5
  <2>4. r.start + (sent + left) + TapeBlocks = (acc.tape_nbr + 1) * TapeBlocks
    BY <1>1, <1>2, <1>5, <2>3
  <2>5. (sent + left) + (total - left) = acc.addr + n
    BY <1>1, <1>5
  <2>6. Accounting'
    BY <1>0, <1>2, <2>1, <2>2, <2>4, <2>5 DEF Accounting
  <2> QED
    BY <1>7, <1>11, <2>6 DEF IInv
<1> QED
  BY <1>8, <1>9, <1>10

(* The last transfer is not longer than what is left of the tape.          *)
LEMMA SubmitFits ==
  ASSUME IInv, Submit
  PROVE  TransfersFit'
<1>1. /\ acc \in Locals /\ Accounting!2 /\ acc' = SgFinish(acc, r.write)
  BY LocalsTyped DEF IInv, Submit, Accounting
<1>2. AllFit(acc.cmds)
  BY DEF IInv, TransfersFit, AllFit, Fits
<1>3. /\ acc.cmds \in Seq(Command) /\ acc.cmd_start_pos \in Nat
      /\ acc.cmd_total_blocks \in Nat /\ acc.blocks_left_in_tape \in Nat
  BY <1>1 DEF Locals
<1>4. AllFit(acc'.cmds)
  <2>1. CASE acc.cmd_total_blocks = 0
    BY <1>1, <1>2, <2>1 DEF SgFinish
  <2>2. CASE acc.cmd_total_blocks # 0
    <3> DEFINE cs == Append(acc.cmds, TransferCmd(r.write, acc.cmd_start_pos,
                                                  acc.cmd_total_blocks))
    <3>1. acc.cmd_total_blocks \in 1 .. TapeBlocks
      BY <1>1, <1>3, <2>2, GeometryAssumption
    <3>2. AllFit(cs)
      BY <1>2, <1>3, <3>1, AllFitAppend
    <3>3. acc' = [acc EXCEPT !.cmds = cs]
      BY <1>1, <2>2 DEF SgFinish
    <3> HIDE DEF cs
    <3> QED
      BY <1>1, <3>2, <3>3 DEF Locals
  <2> QED
    BY <2>1, <2>2
<1> QED
  BY <1>4 DEF TransfersFit, AllFit, Fits

(* Handing the list over keeps the types.                                  *)
LEMMA SubmitType ==
  ASSUME IInv, Submit
  PROVE  TypeOK'
<1>1. /\ acc \in Locals /\ acc' = SgFinish(acc, r.write) /\ r' = r
      /\ r \in Inputs /\ i \in 0 .. Len(r.segs) /\ i' = i /\ phase' = "run"
      /\ sent \in Nat /\ sent' = sent + acc.cmd_total_blocks
      /\ k \in Nat /\ tape \in Nat /\ pos \in Nat
      /\ UNCHANGED <<k, tape, pos>>
  BY LocalsTyped DEF IInv, Submit
<1>2. /\ acc.cmds \in Seq(Command) /\ acc.cmd_start_pos \in Nat
      /\ acc.cmd_total_blocks \in Nat
  BY <1>1 DEF Locals
<1> DEFINE cs == Append(acc.cmds, TransferCmd(r.write, acc.cmd_start_pos,
                                              acc.cmd_total_blocks))
<1>3. cs \in Seq(Command)
  BY <1>2, TransferType, AppendProperties
<1>4. acc' = acc \/ acc' = [acc EXCEPT !.cmds = cs]
  BY <1>1 DEF SgFinish
<1> HIDE DEF cs
<1>5. acc' \in Locals
  BY <1>1, <1>3, <1>4 DEF Locals
<1>6. sent' \in Nat
  BY <1>1, <1>2
<1> QED
  BY <1>1, <1>5, <1>6 DEF TypeOK, Locals

(* The device goes through the list.                                       *)
LEMMA RunType ==
  ASSUME IInv, Run
  PROVE  TypeOK'
<1> DEFINE c == acc.cmds[k + 1]
<1>1. /\ TypeOK /\ acc \in Locals /\ k \in Nat /\ k < Len(acc.cmds)
      /\ k' = k + 1 /\ UNCHANGED <<r, i, acc, sent>>
      /\ tape \in Nat /\ pos \in Nat /\ TapeBlocks \in Nat
  BY LocalsTyped, GeometryAssumption DEF IInv, Run
<1>2. acc.cmds \in Seq(Command) /\ Len(acc.cmds) \in Nat
  BY <1>1, LenProperties DEF Locals
<1>3. c \in Command
  BY <1>1, <1>2, ElementOfSeq
<1>4. IF IsTransfer(c) THEN Transfer(c) ELSE Position(c)
  BY DEF Run
<1> HIDE DEF c
<1>5. c.arg \in Nat
  BY <1>3 DEF Command
<1>6. CASE Transfer(c)
  <2>1. \E n \in 0 .. c.arg : pos' = pos + n
    BY <1>6 DEF Transfer
  <2>2. tape' = tape /\ phase' \in {"failed", "run"}
    BY <1>6 DEF Transfer
  <2>3. pos' \in Nat
    BY <1>1, <1>5, <2>1
  <2> QED
    BY <1>1, <2>2, <2>3 DEF TypeOK
<1>7. CASE Position(c)
  <2>1. tape' \in Nat
    BY <1>1, <1>5, <1>7 DEF Position
  <2>2. pos' \in Nat /\ phase' = phase
    BY <1>1, <1>5, <1>7 DEF Position
  <2> QED
    BY <1>1, <2>1, <2>2 DEF TypeOK
<1> QED
  BY <1>4, <1>6, <1>7

(* So the invariant holds in every reachable state.                        *)
LEMMA Inductive == Spec => []IInv
<1>1. IInv /\ [Next]_sgVars => IInv'
  <2> SUFFICES ASSUME IInv, [Next]_sgVars PROVE IInv'
    OBVIOUS
  <2>1. CASE Segment
    BY <2>1, SegmentAdds
  <2>2. CASE Submit
    <3>1. r' = r /\ phase' # "build"
      BY <2>2 DEF Submit
    <3> QED
      BY <2>2, <3>1, SubmitFits, SubmitType DEF IInv, Accounting
  <2>3. CASE Run \/ Finish
    <3>1. r' = r /\ acc' = acc /\ phase' # "build"
      BY <2>3 DEF Run, Finish, Transfer, Position
    <3>2. TypeOK'
      BY <2>3, RunType DEF Finish, IInv, TypeOK
    <3> QED
      BY <3>1, <3>2 DEF IInv, Accounting, TransfersFit
  <2>4. CASE UNCHANGED sgVars
    BY <2>4 DEF sgVars, IInv, TypeOK, Accounting, TransfersFit
  <2> QED
    BY <2>1, <2>2, <2>3, <2>4 DEF Next
<1> QED
  BY <1>1, InitAdds, PTL DEF Spec

(* The locals of the loop, the commands and the state of the device have   *)
(* their types: no count of the loop ever gets below 0, where the unsigned *)
(* locals of do_scatter_gather would wrap round.                           *)
THEOREM PlanTypes == Spec => []TypeOK
<1>1. IInv => TypeOK
  BY DEF IInv
<1> QED
  BY <1>1, Inductive, PTL

(* Every block of the request is counted once, at its place on its tape,   *)
(* whatever the segments: no transfer ever runs past the end of a tape     *)
(* (the loop of do_scatter_gather).                                        *)
THEOREM LoopAccounts == Spec => []Accounting
<1>1. IInv => Accounting
  BY DEF IInv
<1> QED
  BY <1>1, Inductive, PTL

(* No transfer command is empty, longer than a tape, or cut by its 15-bit  *)
(* field (create_tapedev_cmd masks it without a check).                    *)
THEOREM TransfersAlwaysFit == Spec => []TransfersFit
<1>1. IInv => TransfersFit
  BY DEF IInv
<1> QED
  BY <1>1, Inductive, PTL
-----------------------------------------------------------------------------
(* The plan that is handed over has the shape the driver relies on.        *)

(* A piece of a plan: its ejects are followed by a take within the piece.  *)
Piece(cs, size) ==
  /\ \A j \in 1 .. Len(cs) :
       /\ cs[j].op = "EJECT_TAPE" =>
            j < Len(cs) /\ cs[j + 1].op = "TAKE_TAPE"
       /\ cs[j].op = "TAKE_TAPE" => cs[j].arg # 0
  /\ Progress(cs, size) # {}

LEMMA ShapeIsPiece ==
  ASSUME NEW cs, NEW size
  PROVE  PlanShape(cs, size) <=>
           /\ cs # << >> /\ cs[1].op = "EJECT_TAPE"
           /\ Piece(cs, size)
BY DEF PlanShape, Piece

(* The running totals of two pieces, one after the other.                  *)
LEMMA ProgressConcat ==
  ASSUME NEW cs \in Seq(Command), NEW ds \in Seq(Command),
         NEW m \in Nat, NEW n \in Nat,
         Progress(cs, m) # {}, Progress(ds, n) # {}
  PROVE  Progress(cs \o ds, m + n) # {}
<1>1. PICK f \in [0 .. Len(cs) -> 0 .. m] :
        /\ f[0] = 0 /\ f[Len(cs)] = m
        /\ \A j \in 1 .. Len(cs) : f[j] = f[j - 1] + Blocks(cs[j])
  BY DEF Progress
<1>2. PICK g \in [0 .. Len(ds) -> 0 .. n] :
        /\ g[0] = 0 /\ g[Len(ds)] = n
        /\ \A j \in 1 .. Len(ds) : g[j] = g[j - 1] + Blocks(ds[j])
  BY DEF Progress
<1> DEFINE p == Len(cs)
           q == Len(ds)
           h == [j \in 0 .. p + q |-> IF j <= p THEN f[j] ELSE m + g[j - p]]
<1>3. p \in Nat /\ q \in Nat /\ Len(cs \o ds) = p + q
        /\ \A j \in 1 .. p + q :
             (cs \o ds)[j] = IF j <= p THEN cs[j] ELSE ds[j - p]
  BY ConcatProperties, LenProperties
<1> HIDE DEF p, q
<1>4. \A j \in 0 .. p + q : j > p => j - p \in 1 .. q
  BY <1>3
<1>5. h \in [0 .. p + q -> 0 .. m + n]
  <2>1. \A j \in 0 .. p : f[j] \in 0 .. m
    BY <1>1 DEF p
  <2>2. \A j \in 1 .. q : g[j] \in 0 .. n
    BY <1>2, <1>3 DEF q
  <2>3. \A j \in 0 .. p + q :
          (IF j <= p THEN f[j] ELSE m + g[j - p]) \in 0 .. m + n
    <3> SUFFICES ASSUME NEW j \in 0 .. p + q
                 PROVE (IF j <= p THEN f[j] ELSE m + g[j - p]) \in 0 .. m + n
      OBVIOUS
    <3>1. CASE j <= p
      <4>1. f[j] \in 0 .. m
        BY <1>3, <2>1, <3>1
      <4> QED
        BY <3>1, <4>1
    <3>2. CASE ~(j <= p)
      <4>1. g[j - p] \in 0 .. n
        BY <1>3, <1>4, <2>2, <3>2
      <4> QED
        BY <3>2, <4>1
    <3> QED
      BY <3>1, <3>2
  <2> QED
    BY <2>3
<1>6. \A j \in 0 .. p + q : h[j] = IF j <= p THEN f[j] ELSE m + g[j - p]
  OBVIOUS
<1> HIDE DEF h
<1>7. h[0] = 0
  BY <1>1, <1>3, <1>6
<1>8. h[p + q] = m + n
  <2>1. CASE q = 0
    <3>1. n = 0
      BY <1>2, <2>1 DEF q
    <3> QED
      BY <1>1, <1>3, <1>6, <2>1, <3>1 DEF p
  <2>2. CASE q # 0
    <3>1. /\ p + q \in 0 .. p + q /\ ~(p + q <= p) /\ p + q - p = q
      BY <1>3, <2>2
    <3>2. h[p + q] = m + g[p + q - p]
      BY <1>3, <1>6, <3>1
    <3> QED
      BY <1>2, <3>1, <3>2 DEF q
  <2> QED
    BY <2>1, <2>2
<1>9. ASSUME NEW j \in 1 .. p + q
      PROVE  h[j] = h[j - 1] + Blocks((cs \o ds)[j])
  <2>1. CASE j <= p
    <3>1. h[j] = f[j] /\ h[j - 1] = f[j - 1] /\ (cs \o ds)[j] = cs[j]
      <4>1. /\ j \in 0 .. p + q /\ j - 1 \in 0 .. p + q /\ j - 1 <= p
        BY <1>3, <2>1
      <4> QED
        BY <1>3, <1>6, <2>1, <4>1
    <3> QED
      BY <1>1, <1>3, <2>1, <3>1 DEF p
  <2>2. CASE j > p
    <3>1. j - p \in 1 .. q /\ h[j] = m + g[j - p] /\ (cs \o ds)[j] = ds[j - p]
      BY <1>3, <1>6, <2>2
    <3>2. h[j - 1] = m + g[j - p - 1]
      <4>1. CASE j - 1 = p
        <5>1. h[j - 1] = f[p] /\ j - p - 1 = 0
          BY <1>3, <1>6, <4>1
        <5> QED
          BY <1>1, <1>2, <5>1 DEF p
      <4>2. CASE j - 1 > p
        <5>1. j - 1 \in 0 .. p + q /\ j - 1 - p = j - p - 1
          BY <1>3
        <5> QED
          BY <1>3, <1>6, <4>2, <5>1
      <4> QED
        BY <1>3, <2>2, <4>1, <4>2
    <3>3. g[j - p] = g[j - p - 1] + Blocks(ds[j - p])
      BY <1>2, <3>1 DEF q
    <3>4. ds[j - p] \in Command
      BY <3>1, ElementOfSeq DEF q
    <3>5. Blocks(ds[j - p]) \in Nat
      BY <3>4 DEF Blocks, Command
    <3>6. g[j - p - 1] \in Nat
      <4>1. j - p - 1 \in 0 .. q
        BY <1>3, <3>1
      <4> QED
        BY <1>2, <4>1 DEF q
    <3> QED
      BY <3>1, <3>2, <3>3, <3>5, <3>6
  <2>3. j <= p \/ j > p
    BY <1>3
  <2> QED
    BY <2>1, <2>2, <2>3, Zenon
<1>10. h \in Progress(cs \o ds, m + n)
  BY <1>3, <1>5, <1>7, <1>8, <1>9 DEF Progress
<1> QED
  BY <1>10

LEMMA PieceConcat ==
  ASSUME NEW cs \in Seq(Command), NEW ds \in Seq(Command),
         NEW m \in Nat, NEW n \in Nat, Piece(cs, m), Piece(ds, n)
  PROVE  Piece(cs \o ds, m + n)
<1> DEFINE p == Len(cs)
           q == Len(ds)
           es == cs \o ds
<1>1. p \in Nat /\ q \in Nat /\ Len(es) = p + q
        /\ \A j \in 1 .. p + q : es[j] = IF j <= p THEN cs[j] ELSE ds[j - p]
  BY ConcatProperties, LenProperties
<1>2. Progress(es, m + n) # {}
  BY ProgressConcat DEF Piece
<1>3. ASSUME NEW j \in 1 .. p
      PROVE  /\ cs[j].op = "EJECT_TAPE" =>
                  j < p /\ cs[j + 1].op = "TAKE_TAPE"
             /\ cs[j].op = "TAKE_TAPE" => cs[j].arg # 0
  BY DEF Piece
<1>4. ASSUME NEW j \in 1 .. q
      PROVE  /\ ds[j].op = "EJECT_TAPE" =>
                  j < q /\ ds[j + 1].op = "TAKE_TAPE"
             /\ ds[j].op = "TAKE_TAPE" => ds[j].arg # 0
  BY DEF Piece
<1> HIDE DEF p, q, es
<1>5. ASSUME NEW j \in 1 .. p + q
      PROVE  /\ es[j].op = "EJECT_TAPE" =>
                  j < p + q /\ es[j + 1].op = "TAKE_TAPE"
             /\ es[j].op = "TAKE_TAPE" => es[j].arg # 0
  <2>1. CASE j <= p
    <3>1. j \in 1 .. p /\ es[j] = cs[j]
      BY <1>1, <2>1
    <3>2. j < p => j + 1 \in 1 .. p + q /\ es[j + 1] = cs[j + 1]
      BY <1>1
    <3> QED
      BY <1>1, <1>3, <3>1, <3>2
  <2>2. CASE j > p
    <3>1. j - p \in 1 .. q /\ es[j] = ds[j - p]
      BY <1>1, <2>2
    <3>2. j - p < q => /\ j + 1 \in 1 .. p + q /\ j < p + q
                       /\ es[j + 1] = ds[j - p + 1]
      <4> SUFFICES ASSUME j - p < q
                   PROVE /\ j + 1 \in 1 .. p + q /\ j < p + q
                         /\ es[j + 1] = ds[j - p + 1]
        OBVIOUS
      <4>1. j + 1 \in 1 .. p + q /\ j < p + q /\ j + 1 - p = j - p + 1
        BY <1>1
      <4> QED
        BY <1>1, <2>2, <4>1
    <3> QED
      BY <1>4, <3>1, <3>2
  <2> QED
    BY <1>1, <2>1, <2>2
<1> QED
  BY <1>1, <1>2, <1>5 DEF Piece, es

LEMMA ShapeConcat ==
  ASSUME NEW cs \in Seq(Command), NEW ds \in Seq(Command),
         NEW m \in Nat, NEW n \in Nat, PlanShape(cs, m), Piece(ds, n)
  PROVE  PlanShape(cs \o ds, m + n)
<1>1. Piece(cs \o ds, m + n) /\ cs # << >> /\ cs[1].op = "EJECT_TAPE"
  BY ShapeIsPiece, PieceConcat
<1>2. Len(cs) \in Nat /\ Len(cs) # 0
  BY <1>1, EmptySeq, LenProperties
<1>3. Len(cs \o ds) = Len(cs) + Len(ds) /\ Len(ds) \in Nat
        /\ (cs \o ds)[1] = cs[1]
  BY <1>2, ConcatProperties, LenProperties
<1>4. cs \o ds # << >>
  BY <1>2, <1>3, EmptySeq
<1> QED
  BY <1>1, <1>3, <1>4, ShapeIsPiece

(* The commands that change tapes, and a transfer, are such pieces.        *)
LEMMA ChangePiece ==
  ASSUME NEW t \in Nat, t # 0
  PROVE  LET cs == << PlainCmd("EJECT_TAPE", 0), PlainCmd("TAKE_TAPE", t),
                      PlainCmd("REWIND", 0) >>
         IN  cs \in Seq(Command) /\ Piece(cs, 0)
<1> DEFINE cs == << PlainCmd("EJECT_TAPE", 0), PlainCmd("TAKE_TAPE", t),
                    PlainCmd("REWIND", 0) >>
           f == [j \in 0 .. 3 |-> 0]
<1>1. cs \in Seq(Command) /\ Len(cs) = 3
  BY DEF PlainCmd, Command, Ops
<1>2. /\ cs[1].op = "EJECT_TAPE" /\ cs[2].op = "TAKE_TAPE" /\ cs[2].arg = t
      /\ cs[3].op = "REWIND"
  BY DEF PlainCmd
<1> HIDE DEF cs
<1>3. \A j \in 1 .. 3 : j = 1 \/ j = 2 \/ j = 3
  OBVIOUS
<1>4. \A j \in 1 .. 3 : Blocks(cs[j]) = 0
  BY <1>2, <1>3 DEF Blocks, IsTransfer
<1>5. f \in Progress(cs, 0)
  BY <1>1, <1>4 DEF Progress
<1>6. \A j \in 1 .. 3 : /\ cs[j].op = "EJECT_TAPE" =>
                             j < 3 /\ cs[j + 1].op = "TAKE_TAPE"
                        /\ cs[j].op = "TAKE_TAPE" => cs[j].arg # 0
  BY <1>2, <1>3
<1> QED
  BY <1>1, <1>5, <1>6 DEF Piece, cs

LEMMA SetupShape ==
  ASSUME NEW n \in Nat
  PROVE  SetupCmds(n) \in Seq(Command) /\ PlanShape(SetupCmds(n), 0)
<1> DEFINE cs == SetupCmds(n)
           f == [j \in 0 .. 4 |-> 0]
<1>1. StartTape(n) \in Nat /\ StartTape(n) # 0 /\ StartBlock(n) \in Nat
  <2>1. /\ StartBlock(n) \in 0 .. TapeBlocks - 1 /\ StartTape(n) \in Nat
        /\ n + TapeBlocks - StartBlock(n) = StartTape(n) * TapeBlocks
    BY StartOnTape
  <2>2. TapeBlocks \in Nat
    BY GeometryAssumption
  <2>3. StartTape(n) # 0
    <3>1. StartTape(n) = 0 => StartTape(n) * TapeBlocks = 0
      BY <2>2
    <3> QED
      BY <2>1, <2>2, <3>1
  <2> QED
    BY <2>1, <2>2, <2>3
<1>2. cs \in Seq(Command) /\ Len(cs) = 4
  BY <1>1 DEF SetupCmds, PlainCmd, Command, Ops
<1>3. /\ cs[1].op = "EJECT_TAPE" /\ cs[2].op = "TAKE_TAPE"
      /\ cs[2].arg = StartTape(n)
      /\ cs[3].op = "REWIND" /\ cs[4].op = "FAST_FWD"
  BY DEF SetupCmds, PlainCmd
<1> HIDE DEF cs
<1>4. \A j \in 1 .. 4 : j = 1 \/ j = 2 \/ j = 3 \/ j = 4
  OBVIOUS
<1>5. \A j \in 1 .. 4 : Blocks(cs[j]) = 0
  BY <1>3, <1>4 DEF Blocks, IsTransfer
<1>6. f \in Progress(cs, 0)
  BY <1>2, <1>5 DEF Progress
<1>7. \A j \in 1 .. 4 : /\ cs[j].op = "EJECT_TAPE" =>
                             j < 4 /\ cs[j + 1].op = "TAKE_TAPE"
                        /\ cs[j].op = "TAKE_TAPE" => cs[j].arg # 0
  BY <1>1, <1>3, <1>4
<1>8. cs # << >>
  BY <1>2, EmptySeq
<1> QED
  BY <1>2, <1>3, <1>6, <1>7, <1>8 DEF PlanShape, cs

(* A transfer that fits moves the blocks it was made for.                  *)
LEMMA TransferPiece ==
  ASSUME NEW w, NEW off \in Nat, NEW count \in 1 .. TapeBlocks
  PROVE  LET c == TransferCmd(w, off, count)
         IN  c \in Command /\ Piece(<<c>>, count)
<1> DEFINE c == TransferCmd(w, off, count)
           f == [j \in 0 .. 1 |-> IF j = 0 THEN 0 ELSE count]
<1>1. count \in Nat /\ count % CountWidth = count
  BY GeometryAssumption, TableAssumption DEF CountWidth
<1>2. c \in Command /\ c.arg = count /\ c.op \in {"READ", "WRITE"}
  BY <1>1, TransferType DEF TransferCmd
<1> HIDE DEF c
<1>3. Len(<<c>>) = 1 /\ <<c>>[1] = c
  OBVIOUS
<1>4. Blocks(c) = count
  BY <1>2 DEF Blocks, IsTransfer
<1>5. \A j \in 1 .. 1 : j = 1
  OBVIOUS
<1>6. f \in Progress(<<c>>, count)
  BY <1>1, <1>3, <1>4, <1>5 DEF Progress
<1> QED
  BY <1>2, <1>3, <1>5, <1>6 DEF Piece, c

LEMMA AppendTransfer ==
  ASSUME NEW cs \in Seq(Command), NEW m \in Nat, PlanShape(cs, m),
         NEW w, NEW off \in Nat, NEW count \in 1 .. TapeBlocks
  PROVE  PlanShape(Append(cs, TransferCmd(w, off, count)), m + count)
<1> DEFINE c == TransferCmd(w, off, count)
<1>1. c \in Command /\ Piece(<<c>>, count)
  BY TransferPiece
<1> HIDE DEF c
<1>2. count \in Nat
  BY GeometryAssumption
<1>3. <<c>> \in Seq(Command) /\ Append(cs, c) = cs \o <<c>>
  BY <1>1
<1>4. PlanShape(cs \o <<c>>, m + count)
  BY <1>1, <1>2, <1>3, ShapeConcat
<1> QED
  BY <1>3, <1>4 DEF c
(* One round of the loop: the plan grows by well formed pieces, and its    *)
(* blocks are the ones counted as sent.                                    *)
LEMMA RoundShape ==
  ASSUME NEW a \in Locals, NEW n \in Nat, NEW w, NEW s \in Nat,
         PlanShape(a.cmds, s), a.tape_nbr # 0,
         a.cmd_total_blocks < a.blocks_left_in_tape,
         a.blocks_left_in_tape <= TapeBlocks
  PROVE  LET b == SgStep(a, n, w)
         IN  \/ b.failed = TRUE
             \/ b.tape_nbr = a.tape_nbr /\ PlanShape(b.cmds, s)
             \/ /\ b.tape_nbr = a.tape_nbr + 1
                /\ PlanShape(b.cmds, s + a.blocks_left_in_tape)
<1> DEFINE e == ChangeTape(a)
<1>1. /\ e \in Locals /\ e.cmd_total_blocks = a.cmd_total_blocks
      /\ e.blocks_left_in_tape = a.blocks_left_in_tape
      /\ e.tape_nbr = a.tape_nbr
  BY ChangeTapeType DEF SameCounts
<1>2. /\ a.cmds \in Seq(Command) /\ a.tape_nbr \in Nat
      /\ a.blocks_left_in_tape \in Nat /\ a.cmd_total_blocks \in Nat
  BY DEF Locals
<1>3. PlanShape(e.cmds, s)
  <2> DEFINE cs == << PlainCmd("EJECT_TAPE", 0),
                      PlainCmd("TAKE_TAPE", a.tape_nbr),
                      PlainCmd("REWIND", 0) >>
  <2>1. cs \in Seq(Command) /\ Piece(cs, 0)
    BY <1>2, ChangePiece
  <2>2. \/ e = a
        \/ e = [a EXCEPT !.prev_tape_nbr = a.tape_nbr, !.cmds = a.cmds \o cs]
    BY DEF ChangeTape
  <2> HIDE DEF cs, e
  <2>3. PlanShape(a.cmds \o cs, s + 0) /\ s + 0 = s
    BY <1>2, <2>1, ShapeConcat
  <2>4. e.cmds = a.cmds \/ e.cmds = a.cmds \o cs
    BY <2>2 DEF Locals
  <2> QED
    BY <2>3, <2>4
<1>4. CASE a.tape_nbr > NTapes
  <2>1. SgStep(a, n, w) = [a EXCEPT !.failed = TRUE]
    BY <1>4 DEF SgStep
  <2>2. SgStep(a, n, w).failed = TRUE
    BY <2>1 DEF Locals
  <2> QED
    BY <2>2, Zenon
<1>5. CASE ~(a.tape_nbr > NTapes)
             /\ e.cmd_total_blocks + n >= e.blocks_left_in_tape
  <2>1. SgStep(a, n, w) = SegmentEndsTape(e, n, w)
    BY <1>5 DEF SgStep
  <2> HIDE DEF e
  <2>2. SegmentEndsTape(e, n, w).cmds = CmdsToTapeEnd(e, w)
    BY <1>1, EndsTapeCmds
  <2>3. SegmentEndsTape(e, n, w).tape_nbr = e.tape_nbr + 1
    BY <1>1, <1>5, EndsTapeType
  <2>4. e.cmds \in Seq(Command) /\ e.cmd_start_pos \in Nat
          /\ e.blocks_left_in_tape \in 1 .. TapeBlocks
    BY <1>1, <1>2, GeometryAssumption DEF Locals
  <2>5. PlanShape(CmdsToTapeEnd(e, w), s + e.blocks_left_in_tape)
    BY <1>3, <2>4, AppendTransfer DEF CmdsToTapeEnd
  <2> QED
    BY <1>1, <2>1, <2>2, <2>3, <2>5
<1>6. CASE ~(a.tape_nbr > NTapes)
             /\ ~(e.cmd_total_blocks + n >= e.blocks_left_in_tape)
  <2>1. SgStep(a, n, w) = SegmentFits(e, n)
    BY <1>6 DEF SgStep
  <2> HIDE DEF e
  <2>2. /\ SegmentFits(e, n).cmds = e.cmds
        /\ SegmentFits(e, n).tape_nbr = e.tape_nbr
    BY <1>1, FitsType
  <2> QED
    BY <1>1, <1>3, <2>1, <2>2
<1> QED
  BY <1>4, <1>5, <1>6

(* While the loop runs the plan is for the blocks sent, and at the end for *)
(* all of the request.                                                     *)
Handed == phase \in {"run", "done"} => PlanShape(acc.cmds, acc.addr)

ShapeInv ==
  /\ phase = "build" => PlanShape(acc.cmds, sent) /\ acc.tape_nbr # 0
  /\ Handed

LEMMA ShapeInit == Init => ShapeInv
<1> SUFFICES ASSUME Init PROVE ShapeInv
  OBVIOUS
<1>1. /\ r \in Inputs /\ phase = "build" /\ acc = SgInit(r) /\ sent = 0
  BY DEF Init
<1>2. r.start \in Nat /\ TapeBlocks \in Nat \ {0}
  BY <1>1, InputType
<1>3. acc.cmds = SetupCmds(r.start) /\ acc.tape_nbr = StartTape(r.start)
  BY <1>1 DEF SgInit
<1>4. PlanShape(SetupCmds(r.start), 0)
  BY <1>2, SetupShape
<1>5. SetupCmds(r.start)[2].op = "TAKE_TAPE"
        /\ SetupCmds(r.start)[2].arg = StartTape(r.start)
        /\ Len(SetupCmds(r.start)) = 4
  BY DEF SetupCmds, PlainCmd
<1>6. StartTape(r.start) # 0
  BY <1>4, <1>5 DEF PlanShape
<1> QED
  BY <1>1, <1>3, <1>4, <1>6 DEF ShapeInv, Handed

LEMMA ShapeStep == IInv /\ ShapeInv /\ [Next]_sgVars => ShapeInv'
<1> SUFFICES ASSUME IInv, ShapeInv, [Next]_sgVars PROVE ShapeInv'
  OBVIOUS
<1>1. CASE Segment
  <2> DEFINE n == r.segs[i + 1]
  <2>1. /\ r \in Inputs /\ acc \in Locals /\ sent \in Nat
        /\ i \in 0 .. Len(r.segs) /\ i < Len(r.segs) /\ Accounting!2
        /\ PlanShape(acc.cmds, sent) /\ acc.tape_nbr # 0
    BY <1>1, LocalsTyped DEF IInv, ShapeInv, Segment, Accounting
  <2>2. /\ acc' = SgStep(acc, n, r.write)
        /\ phase' = IF acc'.failed THEN "failed" ELSE "build"
        /\ sent' = IF acc'.tape_nbr # acc.tape_nbr
                   THEN sent + acc.blocks_left_in_tape ELSE sent
    BY <1>1 DEF Segment
  <2>3. /\ r.segs \in Seq(1 .. TapeBlocks) /\ Len(r.segs) \in Nat
        /\ TapeBlocks \in Nat
    BY <2>1, InputType
  <2>4. n \in Nat
    <3>1. i + 1 \in 1 .. Len(r.segs)
      BY <2>1, <2>3
    <3>2. n \in 1 .. TapeBlocks
      BY <2>3, <3>1, ElementOfSeq
    <3> QED
      BY <2>3, <3>2
  <2> HIDE DEF n
  <2>5. \/ acc'.failed = TRUE
        \/ acc'.tape_nbr = acc.tape_nbr /\ PlanShape(acc'.cmds, sent)
        \/ /\ acc'.tape_nbr = acc.tape_nbr + 1
           /\ PlanShape(acc'.cmds, sent + acc.blocks_left_in_tape)
    BY <2>1, <2>2, <2>4, RoundShape
  <2>6. acc.tape_nbr \in Nat
    BY <2>1 DEF Locals
  <2> QED
    BY <2>1, <2>2, <2>5, <2>6 DEF ShapeInv, Handed
<1>2. CASE Submit
  <2>1. /\ acc \in Locals /\ sent \in Nat /\ Accounting!2
        /\ PlanShape(acc.cmds, sent) /\ acc' = SgFinish(acc, r.write)
        /\ phase' = "run"
    BY <1>2, LocalsTyped DEF IInv, ShapeInv, Submit, Accounting
  <2>2. /\ acc.cmds \in Seq(Command) /\ acc.cmd_start_pos \in Nat
        /\ acc.cmd_total_blocks \in Nat /\ acc.blocks_left_in_tape \in Nat
        /\ acc.addr \in Nat
    BY <2>1 DEF Locals
  <2>3. CASE acc.cmd_total_blocks = 0
    <3>1. acc' = acc /\ acc.addr = sent
      BY <2>1, <2>2, <2>3 DEF SgFinish
    <3> QED
      BY <2>1, <3>1 DEF ShapeInv, Handed
  <2>4. CASE acc.cmd_total_blocks # 0
    <3> DEFINE cs == Append(acc.cmds, TransferCmd(r.write, acc.cmd_start_pos,
                                                  acc.cmd_total_blocks))
    <3>1. acc.cmd_total_blocks \in 1 .. TapeBlocks
      BY <2>1, <2>2, <2>4, GeometryAssumption
    <3>2. PlanShape(cs, sent + acc.cmd_total_blocks)
      BY <2>1, <2>2, <3>1, AppendTransfer
    <3>3. acc' = [acc EXCEPT !.cmds = cs]
      BY <2>1, <2>4 DEF SgFinish
    <3> HIDE DEF cs
    <3>4. acc'.cmds = cs /\ acc'.addr = acc.addr
      BY <2>1, <3>3 DEF Locals
    <3> QED
      BY <2>1, <3>2, <3>4 DEF ShapeInv, Handed
  <2> QED
    BY <2>3, <2>4
<1>3. CASE Run
  <2>1. acc' = acc /\ phase = "run" /\ phase' # "build"
    BY <1>3 DEF Run, Transfer, Position
  <2> QED
    BY <2>1 DEF ShapeInv, Handed
<1>4. CASE Finish
  BY <1>4 DEF Finish, ShapeInv, Handed
<1>5. CASE UNCHANGED sgVars
  BY <1>5 DEF sgVars, ShapeInv, Handed
<1> QED
  BY <1>1, <1>2, <1>3, <1>4, <1>5 DEF Next

(* The commands do_scatter_gather hands over, for whatever request, eject  *)
(* the tape that is in before anything else, follow every EJECT by a TAKE  *)
(* of a tape with a number, and transfer as many blocks as the loop went   *)
(* through: what module TapeDriver assumes of the plans of its requests    *)
(* (DriverAssumption).                                                     *)
THEOREM PlansHaveShape ==
  Spec => [](phase \in {"run", "done"} => PlanShape(acc.cmds, acc.addr))
<1>1. IInv /\ ShapeInv /\ [Next]_sgVars => ShapeInv'
  BY ShapeStep
<1>2. ShapeInv => (phase \in {"run", "done"} => PlanShape(acc.cmds, acc.addr))
  BY DEF ShapeInv, Handed
<1>3. Spec => []ShapeInv
  BY <1>1, ShapeInit, Inductive, PTL DEF Spec
<1> QED
  BY <1>2, <1>3, PTL
=============================================================================
