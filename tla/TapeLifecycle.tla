--------------------------- MODULE TapeLifecycle ---------------------------
(***************************************************************************)
(* The life of one tape device in the driver: tapedev_probe with its       *)
(* error labels, tapedev_remove, and what the interrupt handler does       *)
(* before, during and after them (tapedev_main.c), against the enable      *)
(* machine and the interrupt mask of the device (hw/misc/tapedev.c).       *)
(*                                                                         *)
(* While the disks are there, a request or an eject is one command here;   *)
(* the command queue behind it is module TapeDriver.  One call of the      *)
(* interrupt handler is one step.                                          *)
(***************************************************************************)
EXTENDS Integers, FiniteSets

CONSTANT NSections    \* sections of the device (1 to 8)

ASSUME LifecycleAssumption == NSections \in 1 .. 8

VARIABLES pc,      \* where probe or remove is; "absent", "bound" between
          k,       \* loop counter of probe and remove
          td,      \* struct tapedev_device
          irq,     \* for which structures the handler is registered
          hw,      \* the device
          line,    \* the INTx line, as this device drives it
          crash,   \* what the handler fell over, "none" so far
          hist     \* history, used by the properties only

vars == <<pc, k, td, irq, hw, line, crash, hist>>

Sections == 0 .. NSections - 1

InitBit == -1                         \* TAPEDEV_IRQ_INIT_DONE
Bits == Sections \cup {InitBit}       \* section s: TAPEDEV_IRQ_SECT_X_DONE

Probing == {"clear", "mask", "enable", "wait", "alloc", "create", "setup",
            "disks"}
Failing == {"drop", "free", "disable", "cleanup"}
Removing == {"rm_irq", "rm_disk"}

TapeDev ==
  [init_done : {-1, 0, 1},       \* -1: an interrupt came too early
   arr      : {"null", "made", "freed"},                  \* sections
   sec      : [Sections -> {"null", "made", "freed"}],    \* sections[s]
   disk     : [Sections -> {"none", "added", "gone"}],    \* its gendisk
   ready    : SUBSET Sections,   \* whose page table the device knows
   inflight : [Sections -> BOOLEAN]]   \* a request that was not ended

Device ==
  [st      : {"off", "starting", "on", "stopping"},       \* aadg 0 to 3
   bits    : SUBSET Bits,                                 \* irq_aadf
   enabled : SUBSET Bits,                                 \* ~irq_mask
   sect    : [Sections -> {"idle", "eject", "request"}]]

History ==
  [foreign  : BOOLEAN,           \* the line fired for another device
   stale    : BOOLEAN,           \* the device was not at rest at a probe
   failed   : BOOLEAN,           \* a probe failed after it took the line
   ignored  : BOOLEAN,           \* the device ignored ENABLE = 1
   unlisted : SUBSET Sections]   \* added, but the sysfs group failed

NewTapeDev ==
  [init_done |-> 0, arr |-> "null", sec |-> [s \in Sections |-> "null"],
   disk |-> [s \in Sections |-> "none"], ready |-> {},
   inflight |-> [s \in Sections |-> FALSE]]

Init ==
  /\ pc = "absent" /\ k = 0
  /\ td = NewTapeDev
  /\ irq = [reg |-> FALSE, leaked |-> FALSE]
  /\ hw = [st |-> "off", bits |-> {}, enabled |-> Bits,
           sect |-> [s \in Sections |-> "idle"]]
  /\ line = FALSE
  /\ crash = "none"
  /\ hist = [foreign |-> FALSE, stale |-> FALSE, failed |-> FALSE,
             ignored |-> FALSE, unlisted |-> {}]

-----------------------------------------------------------------------------
(* The device.                                                             *)

(* Writes to ENABLE: 1 acts on a device that is off, 0 on one that is on;  *)
(* anything else is ignored.                                               *)
Enabled(d) == IF d.st = "off" THEN [d EXCEPT !.st = "starting"] ELSE d
Disabled(d) == IF d.st = "on" THEN [d EXCEPT !.st = "stopping"] ELSE d

(* A bit is recorded in any case; the line goes up if it is not masked.    *)
Raise(d, b) ==
  /\ hw' = [d EXCEPT !.bits = @ \cup {b}]
  /\ line' = (line \/ b \in d.enabled)

(* Writing ones to IRQ_CLEAR lowers the line if it clears anything.        *)
Clear(bs) ==
  /\ hw' = [hw EXCEPT !.bits = @ \ bs]
  /\ line' = (line /\ hw.bits \cap bs = {})

HwStarts ==
  /\ hw.st = "starting"
  /\ Raise([hw EXCEPT !.st = "on", !.sect = [s \in Sections |-> "idle"]],
           InitBit)
  /\ UNCHANGED <<pc, k, td, irq, crash, hist>>

(* A device that stops lets its sections finish what they do.              *)
HwStops ==
  /\ hw.st = "stopping"
  /\ \A s \in Sections : hw.sect[s] = "idle"
  /\ hw' = [hw EXCEPT !.st = "off"]
  /\ UNCHANGED <<pc, k, td, irq, line, crash, hist>>

HwFinishes(s) ==
  /\ hw.sect[s] # "idle"
  /\ Raise([hw EXCEPT !.sect[s] = "idle"], s)
  /\ UNCHANGED <<pc, k, td, irq, crash, hist>>

-----------------------------------------------------------------------------
(* Commands while a disk is there.  The queue of a section starts no       *)
(* command before the handler has seen the end of the last one, and a      *)
(* register write reaches the section only while the device is on.         *)
Command(s, what) ==
  /\ td.disk[s] = "added" /\ td.sec[s] = "made"
  /\ ~td.inflight[s]
  /\ hw.sect[s] = "idle" /\ s \notin hw.bits
  /\ hw' = IF hw.st = "on" THEN [hw EXCEPT !.sect[s] = what] ELSE hw

Request(s) ==
  /\ Command(s, "request")
  /\ td' = [td EXCEPT !.inflight[s] = TRUE]
  /\ UNCHANGED <<pc, k, irq, line, crash, hist>>

(* An eject, possibly of a process that was interrupted and is long gone.  *)
Eject(s) ==
  /\ Command(s, "eject")
  /\ UNCHANGED <<pc, k, td, irq, line, crash, hist>>

-----------------------------------------------------------------------------
(* tapedev_interrupt_handler.                                              *)

(* Before init_done: the interrupt is INIT_DONE, or initialisation fails.  *)
HandleTapedevInit ==
  /\ td.init_done = 0
  /\ IF InitBit \in hw.bits
     THEN td' = [td EXCEPT !.init_done = 1] /\ Clear({InitBit})
     ELSE td' = [td EXCEPT !.init_done = -1] /\ UNCHANGED <<hw, line>>
  /\ UNCHANGED crash

(* After it: the handler walks as many sections as the device reports.     *)
SectionsReported == IF hw.st = "off" THEN {} ELSE Sections

Walkable ==
  \/ SectionsReported = {}
  \/ td.arr = "made" /\ \A s \in Sections : td.sec[s] = "made"


HandleSectionsInterrupts ==
  LET done == hw.bits \cap SectionsReported
  IN  /\ td.init_done # 0 /\ Walkable
      /\ td' = [td EXCEPT !.inflight =
                  [s \in Sections |-> td.inflight[s] /\ s \notin done]]
      /\ Clear(done)
      /\ UNCHANGED crash

Falls(what) == crash' = what /\ UNCHANGED <<td, hw, line>>

Handler ==
  /\ irq.reg \/ irq.leaked
  /\ IF irq.leaked THEN Falls("freed_device")
     ELSE \/ HandleTapedevInit
          \/ HandleSectionsInterrupts
          \/ td.init_done # 0 /\ ~Walkable /\ Falls("bad_section")

Interrupt ==
  /\ line
  /\ Handler
  /\ UNCHANGED <<pc, k, irq, hist>>

(* The line is shared (IRQF_SHARED): another device interrupts.            *)
ForeignInterrupt ==
  /\ Handler
  /\ hist' = [hist EXCEPT !.foreign = TRUE]
  /\ UNCHANGED <<pc, k, irq>>

-----------------------------------------------------------------------------
(* tapedev_probe.                                                          *)

Goto(l) == pc' = l /\ k' = 0

(* Up to request_irq.  A failure before it undoes everything.              *)
Probe ==
  /\ pc = "absent"
  /\ Goto("clear")
  /\ td' = NewTapeDev
  /\ irq' = [irq EXCEPT !.reg = TRUE]
  /\ hist' = [hist EXCEPT !.stale = @ \/ line \/ hw.st # "off",
                          !.unlisted = {}, !.ignored = FALSE]
  /\ UNCHANGED <<hw, line, crash>>

ProbeClear ==
  /\ pc = "clear"
  /\ Clear(Bits)
  /\ Goto("mask")
  /\ UNCHANGED <<td, irq, crash, hist>>

ProbeMask_All ==
  /\ pc = "mask"
  /\ hw' = [hw EXCEPT !.enabled = {}]
  /\ Goto("enable")
  /\ UNCHANGED <<td, irq, line, crash, hist>>

ProbeMask ==
  /\ pc = "mask"
  /\ hw' = [hw EXCEPT !.enabled = {InitBit}]
  /\ Goto("enable")
  /\ UNCHANGED <<td, irq, line, crash, hist>>

ProbeEnable ==
  /\ pc = "enable"
  /\ hw' = Enabled(hw)
  /\ hist' = [hist EXCEPT !.ignored = hw.st # "off"]
  /\ Goto("wait")
  /\ UNCHANGED <<td, irq, line, crash>>

(* The wait ends well, ends badly, or is interrupted by a signal.          *)
ProbeInitDone ==
  /\ pc = "wait" /\ td.init_done = 1
  /\ Goto("alloc")
  /\ UNCHANGED <<td, irq, hw, line, crash, hist>>

Fail(l) == Goto(l) /\ hist' = [hist EXCEPT !.failed = TRUE]

ProbeInitFails ==
  /\ pc = "wait" /\ td.init_done = -1
  /\ Fail("disable")
  /\ UNCHANGED <<td, irq, hw, line, crash>>

ProbeInterrupted ==
  /\ pc = "wait" /\ td.init_done = 0
  /\ Fail("disable")
  /\ UNCHANGED <<td, irq, hw, line, crash>>

ProbeAlloc ==
  /\ pc = "alloc"
  /\ \/ td' = [td EXCEPT !.arr = "made"] /\ Goto("create") /\ UNCHANGED hist
     \/ Fail("disable") /\ UNCHANGED td
  /\ UNCHANGED <<irq, hw, line, crash>>

CreateSection_PastEnd ==
  /\ pc = "create" /\ k <= NSections
  /\ td' = [td EXCEPT !.sec = [s \in Sections |->
                                IF s = k THEN "made" ELSE td.sec[s]]]
  /\ k' = k + 1
  /\ UNCHANGED <<pc, irq, hw, line, crash, hist>>

(* create_sections, one section at a time; a failure frees the earlier.    *)
CreateSection ==
  /\ pc = "create" /\ k \in Sections
  /\ td' = [td EXCEPT !.sec[k] = "made"]
  /\ k' = k + 1
  /\ UNCHANGED <<pc, irq, hw, line, crash, hist>>

CreateSectionFails ==
  /\ pc = "create" /\ k \in Sections
  /\ td' = [td EXCEPT !.sec =
              [s \in Sections |-> IF s < k THEN "freed" ELSE td.sec[s]]]
  /\ Fail("free")
  /\ UNCHANGED <<irq, hw, line, crash>>

ProbeUnmask_Forgotten ==
  /\ pc = "create" /\ k = NSections
  /\ Goto("setup")
  /\ UNCHANGED <<td, irq, hw, line, crash, hist>>

ProbeUnmask ==
  /\ pc = "create" /\ k = NSections
  /\ hw' = [hw EXCEPT !.enabled = Bits]
  /\ Goto("setup")
  /\ UNCHANGED <<td, irq, line, crash, hist>>

(* Page-table addresses: the device takes them only while it is on.        *)
ProbeSetup ==
  /\ pc = "setup"
  /\ td' = [td EXCEPT !.ready = IF hw.st = "on" THEN Sections ELSE @]
  /\ Goto("disks")
  /\ UNCHANGED <<irq, hw, line, crash, hist>>

AddDisk ==
  /\ pc = "disks" /\ k \in Sections
  /\ td' = [td EXCEPT !.disk[k] = "added"]
  /\ k' = k + 1
  /\ UNCHANGED <<pc, irq, hw, line, crash, hist>>

AddDiskFails ==
  /\ pc = "disks" /\ k \in Sections
  /\ Fail("drop")
  /\ UNCHANGED <<td, irq, hw, line, crash>>

(* The disk of section k is there, but sysfs_create_group fails.           *)
SysfsGroupFails ==
  /\ pc = "disks" /\ k \in Sections
  /\ td' = [td EXCEPT !.disk[k] = "added"]
  /\ Goto("drop")
  /\ hist' = [hist EXCEPT !.failed = TRUE, !.unlisted = @ \cup {k}]
  /\ UNCHANGED <<irq, hw, line, crash>>

ProbeReturns ==
  /\ pc = "disks" /\ k = NSections
  /\ Goto("bound")
  /\ UNCHANGED <<td, irq, hw, line, crash, hist>>

DropSection_NoDelete ==
  /\ pc = "drop" /\ k \in Sections
  /\ td' = [td EXCEPT !.sec[k] = "freed"]
  /\ k' = k + 1
  /\ UNCHANGED <<pc, irq, hw, line, crash, hist>>

(* The clean-up of add_section_disks.  del_gendisk, which waits for the    *)
(* request of the section, is called for the sections before the failing   *)
(* one; the disk of that one is only put, whichever call failed.           *)
DropSection ==
  /\ pc = "drop" /\ k \in Sections
  /\ IF td.disk[k] = "added" /\ k \notin hist.unlisted
     THEN /\ ~td.inflight[k]
          /\ td' = [td EXCEPT !.disk[k] = "gone", !.sec[k] = "freed"]
     ELSE td' = [td EXCEPT !.sec[k] = "freed"]
  /\ k' = k + 1
  /\ UNCHANGED <<pc, irq, hw, line, crash, hist>>

ProbeFreeSections ==
  /\ pc = "free" \/ (pc = "drop" /\ k = NSections)
  /\ td' = [td EXCEPT !.arr = "freed"]
  /\ Goto("disable")
  /\ UNCHANGED <<irq, hw, line, crash, hist>>

ProbeDisable ==
  /\ pc = "disable"
  /\ hw' = Disabled(hw)
  /\ Goto("cleanup")
  /\ UNCHANGED <<td, irq, line, crash, hist>>

(* The rest of the labels; none of them calls free_irq.                    *)
ProbeCleanup ==
  /\ pc = "cleanup"
  /\ irq' = [reg |-> FALSE, leaked |-> TRUE]
  /\ Goto("absent")
  /\ UNCHANGED <<td, hw, line, crash, hist>>

-----------------------------------------------------------------------------
(* tapedev_remove.                                                         *)

RemoveDisable ==
  /\ pc = "bound"
  /\ hw' = Disabled(hw)
  /\ Goto("rm_irq")
  /\ UNCHANGED <<td, irq, line, crash, hist>>

RemoveFreeIrq_Late ==
  /\ pc = "rm_irq"
  /\ Goto("rm_disk")
  /\ UNCHANGED <<td, irq, hw, line, crash, hist>>

RemoveFreeIrq ==
  /\ pc = "rm_irq"
  /\ irq' = [irq EXCEPT !.reg = FALSE]
  /\ Goto("rm_disk")
  /\ UNCHANGED <<td, hw, line, crash, hist>>

(* del_gendisk waits for the request of the section to end.                *)
RemoveDisk ==
  /\ pc = "rm_disk" /\ k \in Sections
  /\ ~td.inflight[k]
  /\ td' = [td EXCEPT !.disk[k] = "gone", !.sec[k] = "freed"]
  /\ k' = k + 1
  /\ UNCHANGED <<pc, irq, hw, line, crash, hist>>

RemoveReturns ==
  /\ pc = "rm_disk" /\ k = NSections
  /\ td' = [td EXCEPT !.arr = "freed"]
  /\ Goto("absent")
  /\ UNCHANGED <<irq, hw, line, crash, hist>>

-----------------------------------------------------------------------------
ProbeStep ==
  \/ ProbeClear \/ ProbeMask \/ ProbeEnable
  \/ ProbeInitDone \/ ProbeInitFails
  \/ ProbeAlloc
  \/ CreateSection \/ CreateSectionFails
  \/ ProbeUnmask \/ ProbeSetup
  \/ AddDisk \/ AddDiskFails \/ SysfsGroupFails \/ ProbeReturns
  \/ DropSection \/ ProbeFreeSections \/ ProbeDisable \/ ProbeCleanup

RemoveStep == RemoveFreeIrq \/ RemoveDisk \/ RemoveReturns

HwStep == HwStarts \/ HwStops \/ \E s \in Sections : HwFinishes(s)

(* del_gendisk of a section whose request can no longer end.               *)
Hung == pc = "rm_disk" /\ k \in Sections /\ td.inflight[k]

Next ==
  \/ /\ crash = "none"
     /\ \/ Probe \/ ProbeStep \/ ProbeInterrupted
        \/ RemoveDisable \/ RemoveStep
        \/ HwStep
        \/ \E s \in Sections : Request(s) \/ Eject(s)
        \/ Interrupt
        \/ ForeignInterrupt
  \/ (crash # "none" \/ Hung) /\ UNCHANGED vars

(* The kernel runs probe and remove once they were called, each tick of    *)
(* the device's timer moves the device and every section on, and an        *)
(* asserted line reaches the handler.  Requests, signals and other devices *)
(* are never owed to anyone.                                               *)
Fairness ==
  /\ WF_vars(crash = "none" /\ ProbeStep)
  /\ WF_vars(crash = "none" /\ RemoveStep)
  /\ WF_vars(crash = "none" /\ (HwStarts \/ HwStops))
  /\ \A s \in Sections : WF_vars(crash = "none" /\ HwFinishes(s))
  /\ WF_vars(crash = "none" /\ Interrupt)

Spec == Init /\ [][Next]_vars

FairSpec == Spec /\ Fairness

-----------------------------------------------------------------------------
TypeOK ==
  /\ pc \in {"absent", "bound"} \cup Probing \cup Failing \cup Removing
  /\ k \in 0 .. NSections
  /\ td \in TapeDev
  /\ irq \in [reg : BOOLEAN, leaked : BOOLEAN]
  /\ hw \in Device
  /\ line \in BOOLEAN
  /\ crash \in {"none", "freed_device", "bad_section"}
  /\ hist \in History

(* A disk that user space can reach is backed by a section the handler can *)
(* find, by a device that is on and knows its page table, and by an        *)
(* interrupt that is unmasked and has a handler: until a clean-up begins.  *)
DisksServed ==
  \A s \in Sections : td.disk[s] = "added" /\ pc \in {"disks", "bound"} =>
    /\ td.arr = "made" /\ \A u \in Sections : td.sec[u] = "made"
    /\ td.init_done = 1
    /\ hw.st = "on" /\ s \in td.ready /\ s \in hw.enabled
    /\ irq.reg

(* The handler touches no section and no device structure that is missing  *)
(* or freed, provided no other device shares the line, the device was at   *)
(* rest when probe took the line, and no probe failed after taking it.     *)
(* With another device on the line it does: past init_done the handler     *)
(* takes it that "our device is INITIALIZED, so we can check other flags"  *)
(* (tapedev_main.c:105), but the sections come later.                      *)
CrashCause ==
  crash # "none" => hist.foreign \/ hist.stale \/ hist.failed

(* A disk whose section was freed is no longer there.  The exception is    *)
(* the section whose sysfs group failed: "where add_disk was successful we *)
(* need to call del_gendisk" (tapedev_main.c:1441), but it is not called.  *)
FreedDisksGone ==
  \A s \in Sections : td.sec[s] = "freed" /\ td.disk[s] = "added" =>
    s \in hist.unlisted

(* probe does not wait for ever, unless the device ignored ENABLE (it was  *)
(* still stopping, or had been left running by a probe that failed).       *)
ProbeWaitEnds ==
  pc = "wait" ~> (pc # "wait" \/ crash # "none" \/ hist.ignored)


=============================================================================
