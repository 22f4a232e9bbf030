----------------------------- MODULE TapeDevice -----------------------------
(***************************************************************************)
(* The PCI tape device as the driver sees it through its registers:        *)
(* hw/misc/tapedev.c.  Each section is a small machine that accepts one    *)
(* command at a time, works on it in timer steps and ends it by setting    *)
(* its DONE or its ERROR bit in the interrupt status register.  One level- *)
(* triggered INTx line is shared by all the bits.                          *)
(*                                                                         *)
(* The device is taken after its initialisation (device state 2).  With    *)
(* the fast_mode property the steps of a command run inside the register   *)
(* write that started it; every such behaviour is one in which Tick steps  *)
(* follow the write at once, so the timer-driven machine covers both.      *)
(***************************************************************************)
EXTENDS TapeDefs

CONSTANTS NSections,    \* number of sections of the device (1 to 8)
          IoFaults      \* may the backing file, DMA or the page table fail?

ASSUME DeviceAssumption ==
  /\ NSections \in Nat \ {0}
  /\ IoFaults \in BOOLEAN

VARIABLES dev,   \* dev[s]: the registers and the state of section s
          line   \* is the INTx line asserted?

Sections == 0 .. NSections - 1

NoCmd == [op |-> "NONE", arg |-> 0, off |-> 0]

ErrorStatus == {"TAPE_ACTIVE", "NO_TAPE", "INVALID_TAPE_NO",
                "INVALID_FFWD_POS", "READ_PAST_END", "IO", "PGTABLE"}

Status == {"IDLE", "WORKING", "DONE"} \cup ErrorStatus

SectionState ==
  [state  : {"idle", "busy", "dead"},       \* aadg: 1, 2..7, 8
   status : Status,                         \* aadf
   cmd    : Command \cup {NoCmd},           \* the command being worked on
   left   : Nat,                            \* aaal: blocks still to transfer
   tape   : 0 .. NTapes,                    \* aaaa: 0 when no tape is inserted
   pos    : Nat,                            \* aaaf: position on the tape
   saved  : [1 .. NTapes -> Nat],           \* aaag: remembered positions
   done   : BOOLEAN,                        \* bit 16+id of the irq status
   err    : BOOLEAN]                        \* bit 24+id of the irq status

DeviceTypeOK ==
  /\ dev \in [Sections -> SectionState]
  /\ line \in BOOLEAN

(* After INIT_DONE: every section accepts commands, the driver has cleared *)
(* all interrupt bits.  A tape may still be inserted from an earlier life  *)
(* of the driver; the remembered positions are uninitialised memory: at    *)
(* the start of the tape, or past its end, is all a command can tell.      *)
InitialSection(t, f) ==
  [state |-> "idle", status |-> "IDLE", cmd |-> NoCmd, left |-> 0,
   tape |-> t, pos |-> IF t = 0 THEN 0 ELSE f[t], saved |-> f,
   done |-> FALSE, err |-> FALSE]

DeviceInit ==
  /\ dev \in [Sections -> {InitialSection(t, f) :
               t \in 0 .. NTapes, f \in [1 .. NTapes -> {0, TapeBlocks}]}]
  /\ line = FALSE

(* A command ends: new state and status, registers cleared, one bit set.   *)
Complete(d, st, status) ==
  [d EXCEPT !.state = st, !.status = status, !.cmd = NoCmd, !.left = 0,
            !.done = @ \/ status \notin ErrorStatus,
            !.err = @ \/ status \in ErrorStatus]

Begin(d, c) ==
  [d EXCEPT !.state = "busy", !.status = "WORKING", !.cmd = c,
            !.left = IF IsTransfer(c) THEN c.arg ELSE 0]

(* Why a section refuses command c at once, "none" if it starts on it.     *)
Refusal(d, c) ==
  IF c.op = "TAKE_TAPE"
  THEN IF d.tape # 0 THEN "TAPE_ACTIVE"
       ELSE IF c.arg \notin 1 .. NTapes THEN "INVALID_TAPE_NO" ELSE "none"
  ELSE IF d.tape = 0 THEN "NO_TAPE"
       ELSE IF c.op = "FAST_FWD" /\ c.arg >= TapeBlocks
            THEN "INVALID_FFWD_POS" ELSE "none"

(* A write to the command register.  A section that is not idle, a dead    *)
(* one included, drops the command without any sign to the driver.         *)
Exec(d, c) ==
  IF d.state # "idle" THEN d
  ELSE IF Refusal(d, c) = "none" THEN Begin(d, c)
  ELSE Complete(d, "idle", Refusal(d, c))

(* Moving the head keeps the remembered position of the tape up to date.   *)
MoveTo(d, p) ==
  [d EXCEPT !.pos = p, !.saved = [@ EXCEPT ![d.tape] = p]]

(* One block of a transfer.  Going past the end is READ_PAST_END for       *)
(* writes as well.  A failure of the page table load leaves the section    *)
(* usable, a failure of the backing file or of the data DMA kills it.      *)
TransferBlock(d) ==
  IF d.pos >= TapeBlocks THEN {Complete(d, "idle", "READ_PAST_END")}
  ELSE IF d.left = 0 THEN {Complete(d, "idle", "DONE")}
  ELSE LET moved == MoveTo([d EXCEPT !.left = @ - 1], d.pos + 1)
       IN  {IF d.left = 1 THEN Complete(moved, "idle", "DONE") ELSE moved}
           \cup (IF IoFaults
                 THEN {Complete(d, "idle", "PGTABLE"),
                       Complete(d, "dead", "PGTABLE"),
                       Complete(d, "dead", "IO")}
                 ELSE {})

(* What one timer step can do to a busy section.                           *)
TickOutcomes(d) ==
  CASE d.cmd.op = "TAKE_TAPE" ->
         {Complete([d EXCEPT !.tape = d.cmd.arg, !.pos = d.saved[d.cmd.arg]],
                   "idle", "DONE")}
    [] d.cmd.op = "EJECT_TAPE" ->
         {Complete([d EXCEPT !.tape = 0, !.pos = 0], "idle", "DONE")}
    [] d.cmd.op = "REWIND" -> {Complete(MoveTo(d, 0), "idle", "DONE")}
    [] d.cmd.op = "FAST_FWD" ->
         {Complete(MoveTo(d, d.pos + d.cmd.arg), "idle", "DONE")}
    [] OTHER -> TransferBlock(d)

(* Did the step from d to e move one block between tape and memory?        *)
Transferred(d, e) ==
  IsTransfer(d.cmd) /\ e.pos # d.pos

(* Do a timer step and a command write end a command, and raise its bit?   *)
TickRaises(d, e) == d.state = "busy" /\ e.state # "busy"
ExecRaises(d, c) == d.state = "idle" /\ Refusal(d, c) # "none"

(* A write of ones to the clear register.                                  *)
ClearDone_Forgotten(d) == d
ClearDone(d) == [d EXCEPT !.done = FALSE]
ClearErr(d) == [d EXCEPT !.err = FALSE]

(* clear_irq lowers the line whenever a bit really went away, even when    *)
(* other bits are still set.                                               *)
LineAfterClear(l, d, e) == IF e = d THEN l ELSE FALSE
=============================================================================
