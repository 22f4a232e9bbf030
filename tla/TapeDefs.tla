------------------------------ MODULE TapeDefs ------------------------------
(***************************************************************************)
(* What driver and device agree on: the geometry of a section's tapes and  *)
(* the commands (tapedev.h, tapedev_defs.h).                               *)
(***************************************************************************)
EXTENDS Integers, Sequences

CONSTANTS NTapes,       \* tapes in a section's library
          TapeBlocks    \* blocks on one tape

ASSUME GeometryAssumption ==
  /\ NTapes \in Nat \ {0}
  /\ TapeBlocks \in Nat \ {0}

Ops == {"TAKE_TAPE", "EJECT_TAPE", "REWIND", "FAST_FWD", "READ", "WRITE"}

(* A command word: arg is the tape number, the blocks to skip or the       *)
(* blocks to transfer; off is the page-table offset of a transfer.         *)
Command == [op : Ops, arg : Nat, off : Nat]

IsTransfer(c) == c.op \in {"READ", "WRITE"}

(* The blocks a command moves when it ends well.                           *)
Blocks(c) == IF IsTransfer(c) THEN c.arg ELSE 0

(* Running totals: f[i] blocks are moved by the first i commands of plan,  *)
(* size by all of them.                                                    *)
Progress(plan, size) ==
  {f \in [0 .. Len(plan) -> 0 .. size] :
     /\ f[0] = 0 /\ f[Len(plan)] = size
     /\ \A i \in 1 .. Len(plan) : f[i] = f[i - 1] + Blocks(plan[i])}

(* What the driver relies on in the commands do_scatter_gather makes of a  *)
(* request for size blocks: whatever tape is in is ejected first, an EJECT *)
(* is followed by the TAKE of a real tape, the transfers make up size.     *)
PlanShape(plan, size) ==
  /\ plan # << >> /\ plan[1].op = "EJECT_TAPE"
  /\ \A i \in 1 .. Len(plan) :
       /\ plan[i].op = "EJECT_TAPE" =>
            i < Len(plan) /\ plan[i + 1].op = "TAKE_TAPE"
       /\ plan[i].op = "TAKE_TAPE" => plan[i].arg # 0
  /\ Progress(plan, size) # {}
=============================================================================
