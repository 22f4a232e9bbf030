---------------------------- MODULE TapeBlockDev ----------------------------
(***************************************************************************)
(* What the block layer may expect of a section's disk, with no queue, no  *)
(* tapes and no interrupts: a request is accepted when none is open, its   *)
(* blocks are moved one by one, and it is ended once: successfully only    *)
(* when every block was moved.                                             *)
(***************************************************************************)
EXTENDS Integers

CONSTANTS Disks,   \* the sections
          Sizes    \* how many blocks a request can ask for

VARIABLES open,    \* open[d]: is a request of disk d not ended yet?
          left,    \* left[d]: blocks of the last request not moved yet
          result   \* result[d]: how the last request ended

avars == <<open, left, result>>

AInit ==
  /\ open = [d \in Disks |-> FALSE]
  /\ left = [d \in Disks |-> 0]
  /\ result = [d \in Disks |-> "none"]

Accept(d) ==
  /\ ~open[d]
  /\ open' = [open EXCEPT ![d] = TRUE]
  /\ \E n \in Sizes : left' = [left EXCEPT ![d] = n]
  /\ result' = [result EXCEPT ![d] = "none"]

Move(d) ==
  /\ open[d] /\ left[d] > 0
  /\ left' = [left EXCEPT ![d] = @ - 1]
  /\ UNCHANGED <<open, result>>

End(d) ==
  /\ open[d]
  /\ open' = [open EXCEPT ![d] = FALSE]
  /\ \E st \in {"OK", "IOERR"} :
       /\ st = "OK" => left[d] = 0
       /\ result' = [result EXCEPT ![d] = st]
  /\ UNCHANGED left

ANext == \E d \in Disks : Accept(d) \/ Move(d) \/ End(d)

(* Every request is ended.                                                 *)
ASpec == AInit /\ [][ANext]_avars /\ \A d \in Disks : WF_avars(End(d))
=============================================================================
