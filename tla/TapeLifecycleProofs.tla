------------------------ MODULE TapeLifecycleProofs ------------------------
(***************************************************************************)
(* Proofs about TapeLifecycle, for any number of sections.                 *)
(***************************************************************************)
EXTENDS TapeLifecycle, TLAPS

Starting == {"clear", "mask", "enable"}
Initialised == {"alloc", "create", "setup", "disks", "bound"}
Registered == Probing \cup Failing \cup {"bound", "rm_irq"}

(* What probe has built by each of its steps.                              *)
Built ==
  /\ pc \in Starting \cup {"wait", "alloc", "create", "setup"} =>
       \A s \in Sections : td.disk[s] = "none"
  /\ pc = "create" =>
       td.arr = "made" /\ \A s \in Sections : s < k => td.sec[s] = "made"
  /\ pc \in {"setup", "disks", "bound", "rm_irq"} =>
       td.arr = "made" /\ \A s \in Sections : td.sec[s] = "made"
  /\ FreedDisksGone

(* Who may call the handler: a registration that outlives its structures   *)
(* comes from a probe that failed, and no later probe gets past its wait.  *)
Registration ==
  /\ irq.reg <=> pc \in Registered
  /\ pc \in Failing => hist.failed
  /\ irq.leaked =>
       /\ hist.failed
       /\ pc \in {"absent", "wait", "disable", "cleanup"} \cup Starting
       /\ pc \in Starting \cup {"wait"} => td.init_done = 0

(* The device is on once INIT_DONE was seen, and not before probe enabled  *)
(* it; its sections rest while it is off.                                  *)
Power ==
  /\ hw.st \in {"off", "starting"} => \A s \in Sections : hw.sect[s] = "idle"
  /\ ~irq.leaked =>
       /\ pc \in Starting \cup Removing \cup {"absent"} =>
            hw.st \in {"off", "stopping"}
       /\ pc \in Starting => td.init_done # 1
       /\ InitBit \in hw.bits => hw.st = "on" \/ pc \in Failing
       /\ pc = "wait" /\ td.init_done = 1 =>
            hw.st = "on" /\ InitBit \notin hw.bits
  /\ pc \in Initialised =>
       td.init_done = 1 /\ hw.st = "on" /\ InitBit \notin hw.bits
  /\ pc \in {"setup", "disks", "bound"} => hw.enabled = Bits
  /\ pc \in {"disks", "bound"} => td.ready = Sections

Disturbed == hist.foreign \/ hist.stale \/ hist.failed

(* While nothing disturbs the device the line is quiet until the sections  *)
(* are there, except for INIT_DONE.                                        *)
Quiet ==
  ~Disturbed =>
    /\ crash = "none"
    /\ pc \in Starting =>
         /\ hw.st = "off" /\ ~line /\ td.init_done = 0
    /\ pc = "wait" =>
         /\ td.init_done \in {0, 1}
         /\ td.init_done = 0 => hw.st \in {"starting", "on"}
         /\ td.init_done = 0 /\ line => InitBit \in hw.bits
         /\ td.init_done = 1 => ~line
         /\ \A s \in Sections : hw.sect[s] = "idle"
    /\ pc \in {"alloc", "create"} =>
         ~line /\ \A s \in Sections : hw.sect[s] = "idle"

IInv == TypeOK /\ Built /\ Registration /\ Power /\ Quiet
-----------------------------------------------------------------------------
(* What a call of the interrupt handler may change, whoever called it.     *)
LEMMA HandlerKeeps ==
  ASSUME TypeOK, Handler
  PROVE  /\ td' \in TapeDev
         /\ td'.arr = td.arr /\ td'.sec = td.sec
         /\ td'.disk = td.disk /\ td'.ready = td.ready
         /\ td.init_done # 0 => td'.init_done = td.init_done
         /\ hw' \in Device
         /\ hw'.st = hw.st /\ hw'.enabled = hw.enabled /\ hw'.sect = hw.sect
         /\ hw'.bits \subseteq hw.bits
         /\ line' \in BOOLEAN
         /\ crash' \in {"none", "freed_device", "bad_section"}
<1> USE DEF TypeOK, TapeDev, Device
<1>1. CASE Falls("freed_device") \/ Falls("bad_section")
  BY <1>1 DEF Falls
<1>2. CASE HandleTapedevInit
  <2>1. line' \in BOOLEAN
    BY <1>2 DEF HandleTapedevInit, Clear
  <2> QED BY <1>2, <2>1 DEF HandleTapedevInit, Clear
<1>3. CASE HandleSectionsInterrupts
  <2>1. line' \in BOOLEAN
    BY <1>3 DEF HandleSectionsInterrupts, Clear
  <2>2. td' \in TapeDev
    BY <1>3 DEF HandleSectionsInterrupts
  <2> QED BY <1>3, <2>1, <2>2 DEF HandleSectionsInterrupts, Clear
<1> QED BY <1>1, <1>2, <1>3 DEF Handler

(* Before init_done the handler looks for INIT_DONE only; after a failed   *)
(* probe it falls at once.                                                 *)
LEMMA HandlerBefore ==
  ASSUME TypeOK, Handler, td.init_done = 0
  PROVE  \/ irq.leaked /\ UNCHANGED <<td, hw, line>>
         \/ /\ ~irq.leaked /\ crash' = crash
            /\ InitBit \in hw.bits /\ InitBit \notin hw'.bits
            /\ td'.init_done = 1 /\ line' = FALSE
         \/ /\ ~irq.leaked /\ crash' = crash
            /\ InitBit \notin hw.bits
            /\ td'.init_done = -1 /\ UNCHANGED <<hw, line>>
<1>1. CASE irq.leaked
  BY <1>1 DEF Handler, Falls
<1>2. CASE ~irq.leaked
  <2>1. HandleTapedevInit
    BY <1>2 DEF Handler, HandleSectionsInterrupts
  <2>2. CASE InitBit \in hw.bits
    BY <1>2, <2>1, <2>2 DEF HandleTapedevInit, Clear, TypeOK, TapeDev, Device
  <2>3. CASE InitBit \notin hw.bits
    BY <1>2, <2>1, <2>3 DEF HandleTapedevInit, TypeOK, TapeDev
  <2> QED BY <2>2, <2>3
<1> QED BY <1>1, <1>2

(* A command changes the device only.                                      *)
LEMMA CommandKeeps ==
  ASSUME TypeOK, NEW s \in Sections, NEW what \in {"eject", "request"},
         Command(s, what)
  PROVE  /\ hw' \in Device
         /\ hw'.st = hw.st /\ hw'.bits = hw.bits /\ hw'.enabled = hw.enabled
         /\ hw.st # "on" => hw' = hw
         /\ td.disk[s] = "added"
  BY DEF Command, TypeOK, Device

(* DropSection frees the section, and its disk if del_gendisk is called.   *)
LEMMA DropSectionEffect ==
  ASSUME TypeOK, DropSection
  PROVE  /\ pc = "drop" /\ k \in Sections
         /\ td' \in TapeDev
         /\ \A s \in Sections : s # k => td'.sec[s] = td.sec[s]
         /\ \A s \in Sections :
              td'.disk[s] = td.disk[s] \/ td'.disk[s] = "gone"
         /\ td'.disk[k] = "added" => k \in hist.unlisted
<1>0. pc = "drop" /\ k \in Sections /\ td \in TapeDev
  BY DEF DropSection, TypeOK
<1>1. CASE td' = [td EXCEPT !.disk[k] = "gone", !.sec[k] = "freed"]
  BY <1>0, <1>1 DEF TapeDev
<1>2. CASE /\ td.disk[k] # "added" \/ k \in hist.unlisted
           /\ td' = [td EXCEPT !.sec[k] = "freed"]
  BY <1>0, <1>2 DEF TapeDev
<1>3. \/ td' = [td EXCEPT !.disk[k] = "gone", !.sec[k] = "freed"]
      \/ /\ td.disk[k] # "added" \/ k \in hist.unlisted
         /\ td' = [td EXCEPT !.sec[k] = "freed"]
  BY DEF DropSection
<1> QED BY <1>1, <1>2, <1>3

(* Types.                                                                  *)
LEMMA TypeStep ==
  ASSUME TypeOK, crash = "none", [Next]_vars
  PROVE  TypeOK'
<1> USE LifecycleAssumption DEF TypeOK
<1>1. CASE Probe
  <2>1. td' \in TapeDev
    BY <1>1 DEF Probe, Goto, NewTapeDev, TapeDev, Sections
  <2>2. irq' \in [reg : BOOLEAN, leaked : BOOLEAN]
    BY <1>1 DEF Probe, Goto, NewTapeDev
  <2>3. hist' \in History
    BY <1>1 DEF Probe, Goto, NewTapeDev, History, Sections
  <2> QED
    BY <1>1, <2>1, <2>2, <2>3 DEF Probe, Goto, NewTapeDev,
       Probing, Failing, Removing, Sections
<1>2. CASE ProbeClear
  <2>1. hw' \in Device
    BY <1>2 DEF ProbeClear, Goto, Clear, Device, Sections, Bits, InitBit
  <2>2. line' \in BOOLEAN
    BY <1>2 DEF ProbeClear, Goto, Clear
  <2> QED
    BY <1>2, <2>1, <2>2 DEF ProbeClear, Goto, Clear,
       Probing, Failing, Removing, Sections
<1>3. CASE ProbeMask
  <2>1. hw' \in Device
    BY <1>3 DEF ProbeMask, Goto, Device, Sections, Bits, InitBit
  <2> QED
    BY <1>3, <2>1 DEF ProbeMask, Goto,
       Probing, Failing, Removing, Sections
<1>4. CASE ProbeEnable
  <2>1. hw' \in Device
    BY <1>4 DEF ProbeEnable, Goto, Enabled, Device, Sections, Bits, InitBit
  <2>2. hist' \in History
    BY <1>4 DEF ProbeEnable, Goto, Enabled, History, Sections
  <2> QED
    BY <1>4, <2>1, <2>2 DEF ProbeEnable, Goto, Enabled,
       Probing, Failing, Removing, Sections
<1>5. CASE ProbeInitDone
  <2> QED
    BY <1>5 DEF ProbeInitDone, Goto,
       Probing, Failing, Removing, Sections
<1>6. CASE ProbeInitFails
  <2>1. hist' \in History
    BY <1>6 DEF ProbeInitFails, Goto, Fail, History, Sections
  <2> QED
    BY <1>6, <2>1 DEF ProbeInitFails, Goto, Fail,
       Probing, Failing, Removing, Sections
<1>7. CASE ProbeInterrupted
  <2>1. hist' \in History
    BY <1>7 DEF ProbeInterrupted, Goto, Fail, History, Sections
  <2> QED
    BY <1>7, <2>1 DEF ProbeInterrupted, Goto, Fail,
       Probing, Failing, Removing, Sections
<1>8. CASE ProbeAlloc
  <2>1. td' \in TapeDev
    BY <1>8 DEF ProbeAlloc, Goto, Fail, TapeDev, Sections
  <2>2. hist' \in History
    BY <1>8 DEF ProbeAlloc, Goto, Fail, History, Sections
  <2> QED
    BY <1>8, <2>1, <2>2 DEF ProbeAlloc, Goto, Fail,
       Probing, Failing, Removing, Sections
<1>9. CASE CreateSection
  <2>1. td' \in TapeDev
    BY <1>9 DEF CreateSection, TapeDev, Sections
  <2> QED
    BY <1>9, <2>1 DEF CreateSection,
       Probing, Failing, Removing, Sections
<1>10. CASE CreateSectionFails
  <2>1. td' \in TapeDev
    BY <1>10 DEF CreateSectionFails, Goto, Fail, TapeDev, Sections
  <2>2. hist' \in History
    BY <1>10 DEF CreateSectionFails, Goto, Fail, History, Sections
  <2> QED
    BY <1>10, <2>1, <2>2 DEF CreateSectionFails, Goto, Fail,
       Probing, Failing, Removing, Sections
<1>11. CASE ProbeUnmask
  <2>1. hw' \in Device
    BY <1>11 DEF ProbeUnmask, Goto, Device, Sections, Bits, InitBit
  <2> QED
    BY <1>11, <2>1 DEF ProbeUnmask, Goto,
       Probing, Failing, Removing, Sections
<1>12. CASE ProbeSetup
  <2>1. td' \in TapeDev
    BY <1>12 DEF ProbeSetup, Goto, TapeDev, Sections
  <2> QED
    BY <1>12, <2>1 DEF ProbeSetup, Goto,
       Probing, Failing, Removing, Sections
<1>13. CASE AddDisk
  <2>1. td' \in TapeDev
    BY <1>13 DEF AddDisk, TapeDev, Sections
  <2> QED
    BY <1>13, <2>1 DEF AddDisk,
       Probing, Failing, Removing, Sections
<1>14. CASE AddDiskFails
  <2>1. hist' \in History
    BY <1>14 DEF AddDiskFails, Goto, Fail, History, Sections
  <2> QED
    BY <1>14, <2>1 DEF AddDiskFails, Goto, Fail,
       Probing, Failing, Removing, Sections
<1>15. CASE SysfsGroupFails
  <2>1. td' \in TapeDev
    BY <1>15 DEF SysfsGroupFails, Goto, TapeDev, Sections
  <2>2. hist' \in History
    BY <1>15 DEF SysfsGroupFails, Goto, History, Sections
  <2> QED
    BY <1>15, <2>1, <2>2 DEF SysfsGroupFails, Goto,
       Probing, Failing, Removing, Sections
<1>16. CASE ProbeReturns
  <2> QED
    BY <1>16 DEF ProbeReturns, Goto,
       Probing, Failing, Removing, Sections
<1>17. CASE DropSection
  <2>1. td' \in TapeDev
    BY <1>17, DropSectionEffect
  <2> QED
    BY <1>17, <2>1 DEF DropSection, Probing, Failing, Removing, Sections
<1>18. CASE ProbeFreeSections
  <2>1. td' \in TapeDev
    BY <1>18 DEF ProbeFreeSections, Goto, TapeDev, Sections
  <2> QED
    BY <1>18, <2>1 DEF ProbeFreeSections, Goto,
       Probing, Failing, Removing, Sections
<1>19. CASE ProbeDisable
  <2>1. hw' \in Device
    BY <1>19 DEF ProbeDisable, Goto, Disabled, Device, Sections, Bits, InitBit
  <2> QED
    BY <1>19, <2>1 DEF ProbeDisable, Goto, Disabled,
       Probing, Failing, Removing, Sections
<1>20. CASE ProbeCleanup
  <2>1. irq' \in [reg : BOOLEAN, leaked : BOOLEAN]
    BY <1>20 DEF ProbeCleanup, Goto
  <2> QED
    BY <1>20, <2>1 DEF ProbeCleanup, Goto,
       Probing, Failing, Removing, Sections
<1>21. CASE RemoveDisable
  <2>1. hw' \in Device
    BY <1>21 DEF RemoveDisable, Goto, Disabled, Device, Sections, Bits, InitBit
  <2> QED
    BY <1>21, <2>1 DEF RemoveDisable, Goto, Disabled,
       Probing, Failing, Removing, Sections
<1>22. CASE RemoveFreeIrq
  <2>1. irq' \in [reg : BOOLEAN, leaked : BOOLEAN]
    BY <1>22 DEF RemoveFreeIrq, Goto
  <2> QED
    BY <1>22, <2>1 DEF RemoveFreeIrq, Goto,
       Probing, Failing, Removing, Sections
<1>23. CASE RemoveDisk
  <2>1. td' \in TapeDev
    BY <1>23 DEF RemoveDisk, TapeDev, Sections
  <2> QED
    BY <1>23, <2>1 DEF RemoveDisk,
       Probing, Failing, Removing, Sections
<1>24. CASE RemoveReturns
  <2>1. td' \in TapeDev
    BY <1>24 DEF RemoveReturns, Goto, TapeDev, Sections
  <2> QED
    BY <1>24, <2>1 DEF RemoveReturns, Goto,
       Probing, Failing, Removing, Sections
<1>25. CASE HwStarts
  <2>1. hw' \in Device
    BY <1>25 DEF HwStarts, Raise, Device, Sections, Bits, InitBit
  <2>2. line' \in BOOLEAN
    BY <1>25 DEF HwStarts, Raise
  <2> QED
    BY <1>25, <2>1, <2>2 DEF HwStarts, Raise,
       Probing, Failing, Removing, Sections
<1>26. CASE HwStops
  <2>1. hw' \in Device
    BY <1>26 DEF HwStops, Device, Sections, Bits, InitBit
  <2> QED
    BY <1>26, <2>1 DEF HwStops,
       Probing, Failing, Removing, Sections
<1>27. CASE \E s \in Sections : HwFinishes(s)
  <2> PICK s \in Sections : HwFinishes(s)
    BY <1>27
  <2>1. hw' \in Device
    BY DEF HwFinishes, Raise, Device, Bits
  <2>2. line' \in BOOLEAN
    BY DEF HwFinishes, Raise
  <2> QED BY <2>1, <2>2 DEF HwFinishes
<1>28. CASE \E s \in Sections : Request(s)
  <2> PICK s \in Sections : Request(s)
    BY <1>28
  <2>1. hw' \in Device
    BY CommandKeeps DEF Request
  <2>2. td' \in TapeDev
    BY DEF Request, TapeDev
  <2> QED BY <2>1, <2>2 DEF Request
<1>29. CASE \E s \in Sections : Eject(s)
  BY <1>29, CommandKeeps DEF Eject
<1>30. CASE Interrupt
  BY <1>30, HandlerKeeps DEF Interrupt
<1>31. CASE ForeignInterrupt
  <2>1. hist' \in History
    BY <1>31 DEF ForeignInterrupt, History
  <2> QED BY <1>31, <2>1, HandlerKeeps DEF ForeignInterrupt
<1>32. CASE UNCHANGED vars
  BY <1>32 DEF vars
<1> QED
  BY <1>1, <1>2, <1>3, <1>4, <1>5, <1>6, <1>7, <1>8, <1>9, <1>10,
     <1>11, <1>12, <1>13, <1>14, <1>15, <1>16, <1>17, <1>18, <1>19, <1>20,
     <1>21, <1>22, <1>23, <1>24, <1>25, <1>26, <1>27, <1>28, <1>29, <1>30,
     <1>31, <1>32
  DEF Next, ProbeStep, RemoveStep, HwStep

(* Each step of probe finds what the earlier ones have built.              *)
LEMMA BuiltStep ==
  ASSUME TypeOK, Built, crash = "none", [Next]_vars
  PROVE  Built'
<1> USE LifecycleAssumption DEF Built, FreedDisksGone, Starting, TypeOK,
      Probing, Failing, Removing, TapeDev, Device, History,
      Sections, Bits, InitBit
<1>1. CASE Probe
  BY <1>1 DEF Probe, Goto, NewTapeDev
<1>2. CASE ProbeClear
  BY <1>2 DEF ProbeClear, Goto, Clear
<1>3. CASE ProbeMask
  BY <1>3 DEF ProbeMask, Goto
<1>4. CASE ProbeEnable
  BY <1>4 DEF ProbeEnable, Goto, Enabled
<1>5. CASE ProbeInitDone
  BY <1>5 DEF ProbeInitDone, Goto
<1>6. CASE ProbeInitFails
  BY <1>6 DEF ProbeInitFails, Goto, Fail
<1>7. CASE ProbeInterrupted
  BY <1>7 DEF ProbeInterrupted, Goto, Fail
<1>8. CASE ProbeAlloc
  BY <1>8 DEF ProbeAlloc, Goto, Fail
<1>9. CASE CreateSection
  BY <1>9 DEF CreateSection
<1>10. CASE CreateSectionFails
  BY <1>10 DEF CreateSectionFails, Goto, Fail
<1>11. CASE ProbeUnmask
  BY <1>11 DEF ProbeUnmask, Goto
<1>12. CASE ProbeSetup
  BY <1>12 DEF ProbeSetup, Goto
<1>13. CASE AddDisk
  BY <1>13 DEF AddDisk
<1>14. CASE AddDiskFails
  BY <1>14 DEF AddDiskFails, Goto, Fail
<1>15. CASE SysfsGroupFails
  BY <1>15 DEF SysfsGroupFails, Goto
<1>16. CASE ProbeReturns
  BY <1>16 DEF ProbeReturns, Goto
<1>17. CASE DropSection
  <2>1. UNCHANGED <<pc, hist>>
    BY <1>17 DEF DropSection
  <2>2. FreedDisksGone'
    <3> SUFFICES ASSUME NEW s \in Sections, td'.sec[s] = "freed",
                        td'.disk[s] = "added"
                 PROVE  s \in hist'.unlisted
      OBVIOUS
    <3>1. CASE s = k
      BY <1>17, <2>1, <3>1, DropSectionEffect
    <3>2. CASE s # k
      <4>1. td.sec[s] = "freed" /\ td.disk[s] = "added"
        BY <1>17, <3>2, DropSectionEffect
      <4> QED BY <2>1, <4>1
    <3> QED BY <3>1, <3>2
  <2>3. pc' = "drop"
    BY <1>17 DEF DropSection
  <2> QED BY <2>2, <2>3
<1>18. CASE ProbeFreeSections
  BY <1>18 DEF ProbeFreeSections, Goto
<1>19. CASE ProbeDisable
  BY <1>19 DEF ProbeDisable, Goto, Disabled
<1>20. CASE ProbeCleanup
  BY <1>20 DEF ProbeCleanup, Goto
<1>21. CASE RemoveDisable
  BY <1>21 DEF RemoveDisable, Goto, Disabled
<1>22. CASE RemoveFreeIrq
  BY <1>22 DEF RemoveFreeIrq, Goto
<1>23. CASE RemoveDisk
  BY <1>23 DEF RemoveDisk
<1>24. CASE RemoveReturns
  BY <1>24 DEF RemoveReturns, Goto
<1>25. CASE HwStarts
  BY <1>25 DEF HwStarts, Raise
<1>26. CASE HwStops
  BY <1>26 DEF HwStops
<1>27. CASE \E s \in Sections : HwFinishes(s)
  BY <1>27 DEF HwFinishes, Raise
<1>28. CASE \E s \in Sections : Request(s)
  BY <1>28 DEF Request, Command
<1>29. CASE \E s \in Sections : Eject(s)
  BY <1>29 DEF Eject, Command
<1>30. CASE Interrupt
  BY <1>30, HandlerKeeps DEF Interrupt
<1>31. CASE ForeignInterrupt
  BY <1>31, HandlerKeeps DEF ForeignInterrupt
<1>32. CASE UNCHANGED vars
  BY <1>32 DEF vars
<1> QED
  BY <1>1, <1>2, <1>3, <1>4, <1>5, <1>6, <1>7, <1>8, <1>9, <1>10,
     <1>11, <1>12, <1>13, <1>14, <1>15, <1>16, <1>17, <1>18, <1>19, <1>20,
     <1>21, <1>22, <1>23, <1>24, <1>25, <1>26, <1>27, <1>28, <1>29, <1>30,
     <1>31, <1>32
  DEF Next, ProbeStep, RemoveStep, HwStep

(* After a failed probe the handler falls before it can set init_done.     *)
LEMMA RegistrationStep ==
  ASSUME TypeOK, Registration, crash = "none", [Next]_vars
  PROVE  Registration'
<1> USE LifecycleAssumption DEF Registration, Registered, Starting, TypeOK,
      Probing, Failing, Removing, TapeDev, Device, History,
      Sections, Bits, InitBit
<1>1. CASE Probe
  BY <1>1 DEF Probe, Goto, NewTapeDev
<1>2. CASE ProbeClear
  BY <1>2 DEF ProbeClear, Goto, Clear
<1>3. CASE ProbeMask
  BY <1>3 DEF ProbeMask, Goto
<1>4. CASE ProbeEnable
  BY <1>4 DEF ProbeEnable, Goto, Enabled
<1>5. CASE ProbeInitDone
  BY <1>5 DEF ProbeInitDone, Goto
<1>6. CASE ProbeInitFails
  BY <1>6 DEF ProbeInitFails, Goto, Fail
<1>7. CASE ProbeInterrupted
  BY <1>7 DEF ProbeInterrupted, Goto, Fail
<1>8. CASE ProbeAlloc
  BY <1>8 DEF ProbeAlloc, Goto, Fail
<1>9. CASE CreateSection
  BY <1>9 DEF CreateSection
<1>10. CASE CreateSectionFails
  BY <1>10 DEF CreateSectionFails, Goto, Fail
<1>11. CASE ProbeUnmask
  BY <1>11 DEF ProbeUnmask, Goto
<1>12. CASE ProbeSetup
  BY <1>12 DEF ProbeSetup, Goto
<1>13. CASE AddDisk
  BY <1>13 DEF AddDisk
<1>14. CASE AddDiskFails
  BY <1>14 DEF AddDiskFails, Goto, Fail
<1>15. CASE SysfsGroupFails
  BY <1>15 DEF SysfsGroupFails, Goto
<1>16. CASE ProbeReturns
  BY <1>16 DEF ProbeReturns, Goto
<1>17. CASE DropSection
  BY <1>17 DEF DropSection
<1>18. CASE ProbeFreeSections
  BY <1>18 DEF ProbeFreeSections, Goto
<1>19. CASE ProbeDisable
  BY <1>19 DEF ProbeDisable, Goto, Disabled
<1>20. CASE ProbeCleanup
  BY <1>20 DEF ProbeCleanup, Goto
<1>21. CASE RemoveDisable
  BY <1>21 DEF RemoveDisable, Goto, Disabled
<1>22. CASE RemoveFreeIrq
  BY <1>22 DEF RemoveFreeIrq, Goto
<1>23. CASE RemoveDisk
  BY <1>23 DEF RemoveDisk
<1>24. CASE RemoveReturns
  BY <1>24 DEF RemoveReturns, Goto
<1>25. CASE HwStarts
  BY <1>25 DEF HwStarts, Raise
<1>26. CASE HwStops
  BY <1>26 DEF HwStops
<1>27. CASE \E s \in Sections : HwFinishes(s)
  BY <1>27 DEF HwFinishes, Raise
<1>28. CASE \E s \in Sections : Request(s)
  BY <1>28 DEF Request, Command
<1>29. CASE \E s \in Sections : Eject(s)
  BY <1>29 DEF Eject, Command
<1>30. CASE Interrupt
  BY <1>30 DEF Interrupt, Handler, HandleTapedevInit,
     HandleSectionsInterrupts, Falls
<1>31. CASE ForeignInterrupt
  BY <1>31 DEF ForeignInterrupt, Handler, HandleTapedevInit,
     HandleSectionsInterrupts, Falls
<1>32. CASE UNCHANGED vars
  BY <1>32 DEF vars
<1> QED
  BY <1>1, <1>2, <1>3, <1>4, <1>5, <1>6, <1>7, <1>8, <1>9, <1>10,
     <1>11, <1>12, <1>13, <1>14, <1>15, <1>16, <1>17, <1>18, <1>19, <1>20,
     <1>21, <1>22, <1>23, <1>24, <1>25, <1>26, <1>27, <1>28, <1>29, <1>30,
     <1>31, <1>32
  DEF Next, ProbeStep, RemoveStep, HwStep

(* INIT_DONE is seen only by the probe that enabled the device.            *)
LEMMA PowerStep ==
  ASSUME TypeOK, Registration, Power, crash = "none", [Next]_vars
  PROVE  Power'
<1> USE LifecycleAssumption DEF Power, Registration, Registered, Starting,
      Initialised, TypeOK, Probing, Failing, Removing, TapeDev, Device,
      History, Sections, Bits, InitBit
<1>1. CASE Probe
  BY <1>1 DEF Probe, Goto, NewTapeDev
<1>2. CASE ProbeClear
  BY <1>2 DEF ProbeClear, Goto, Clear
<1>3. CASE ProbeMask
  BY <1>3 DEF ProbeMask, Goto
<1>4. CASE ProbeEnable
  BY <1>4 DEF ProbeEnable, Goto, Enabled
<1>5. CASE ProbeInitDone
  BY <1>5 DEF ProbeInitDone, Goto
<1>6. CASE ProbeInitFails
  BY <1>6 DEF ProbeInitFails, Goto, Fail
<1>7. CASE ProbeInterrupted
  BY <1>7 DEF ProbeInterrupted, Goto, Fail
<1>8. CASE ProbeAlloc
  BY <1>8 DEF ProbeAlloc, Goto, Fail
<1>9. CASE CreateSection
  BY <1>9 DEF CreateSection
<1>10. CASE CreateSectionFails
  BY <1>10 DEF CreateSectionFails, Goto, Fail
<1>11. CASE ProbeUnmask
  BY <1>11 DEF ProbeUnmask, Goto
<1>12. CASE ProbeSetup
  BY <1>12 DEF ProbeSetup, Goto
<1>13. CASE AddDisk
  BY <1>13 DEF AddDisk
<1>14. CASE AddDiskFails
  BY <1>14 DEF AddDiskFails, Goto, Fail
<1>15. CASE SysfsGroupFails
  BY <1>15 DEF SysfsGroupFails, Goto
<1>16. CASE ProbeReturns
  BY <1>16 DEF ProbeReturns, Goto
<1>17. CASE DropSection
  BY <1>17 DEF DropSection
<1>18. CASE ProbeFreeSections
  BY <1>18 DEF ProbeFreeSections, Goto
<1>19. CASE ProbeDisable
  BY <1>19 DEF ProbeDisable, Goto, Disabled
<1>20. CASE ProbeCleanup
  BY <1>20 DEF ProbeCleanup, Goto
<1>21. CASE RemoveDisable
  BY <1>21 DEF RemoveDisable, Goto, Disabled
<1>22. CASE RemoveFreeIrq
  BY <1>22 DEF RemoveFreeIrq, Goto
<1>23. CASE RemoveDisk
  BY <1>23 DEF RemoveDisk
<1>24. CASE RemoveReturns
  BY <1>24 DEF RemoveReturns, Goto
<1>25. CASE HwStarts
  BY <1>25 DEF HwStarts, Raise
<1>26. CASE HwStops
  BY <1>26 DEF HwStops
<1>27. CASE \E s \in Sections : HwFinishes(s)
  BY <1>27 DEF HwFinishes, Raise
<1>28. CASE \E s \in Sections : Request(s)
  BY <1>28 DEF Request, Command
<1>29. CASE \E s \in Sections : Eject(s)
  BY <1>29 DEF Eject, Command
<1>30. CASE Interrupt
  <2>1. Handler /\ UNCHANGED <<pc, irq>>
    BY <1>30 DEF Interrupt
  <2>2. CASE td.init_done = 0
    <3>1. CASE irq.leaked /\ UNCHANGED <<td, hw, line>>
      BY <2>1, <2>2, <3>1
    <3>2. CASE /\ ~irq.leaked /\ InitBit \in hw.bits
               /\ InitBit \notin hw'.bits /\ td'.init_done = 1
      BY <2>1, <2>2, <3>2, HandlerKeeps
    <3>3. CASE /\ ~irq.leaked /\ td'.init_done = -1 /\ UNCHANGED hw
      BY <2>1, <2>2, <3>3, HandlerKeeps
    <3> QED BY <2>1, <2>2, <3>1, <3>2, <3>3, HandlerBefore
  <2>3. CASE td.init_done # 0
    BY <2>1, <2>3, HandlerKeeps
  <2> QED BY <2>2, <2>3
<1>31. CASE ForeignInterrupt
  <2>1. Handler /\ UNCHANGED <<pc, irq>>
    BY <1>31 DEF ForeignInterrupt
  <2>2. CASE td.init_done = 0
    <3>1. CASE irq.leaked /\ UNCHANGED <<td, hw, line>>
      BY <2>1, <2>2, <3>1
    <3>2. CASE /\ ~irq.leaked /\ InitBit \in hw.bits
               /\ InitBit \notin hw'.bits /\ td'.init_done = 1
      BY <2>1, <2>2, <3>2, HandlerKeeps
    <3>3. CASE /\ ~irq.leaked /\ td'.init_done = -1 /\ UNCHANGED hw
      BY <2>1, <2>2, <3>3, HandlerKeeps
    <3> QED BY <2>1, <2>2, <3>1, <3>2, <3>3, HandlerBefore
  <2>3. CASE td.init_done # 0
    BY <2>1, <2>3, HandlerKeeps
  <2> QED BY <2>2, <2>3
<1>32. CASE UNCHANGED vars
  BY <1>32 DEF vars
<1> QED
  BY <1>1, <1>2, <1>3, <1>4, <1>5, <1>6, <1>7, <1>8, <1>9, <1>10,
     <1>11, <1>12, <1>13, <1>14, <1>15, <1>16, <1>17, <1>18, <1>19, <1>20,
     <1>21, <1>22, <1>23, <1>24, <1>25, <1>26, <1>27, <1>28, <1>29, <1>30,
     <1>31, <1>32
  DEF Next, ProbeStep, RemoveStep, HwStep

(* Without a disturbance the line rises only where the handler can walk.   *)
LEMMA QuietStep ==
  ASSUME IInv, crash = "none", [Next]_vars
  PROVE  Quiet'
<1> USE LifecycleAssumption DEF IInv, Quiet, Disturbed, Power, Registration,
      Registered, Built, Starting, Initialised, TypeOK, Probing, Failing,
      Removing, TapeDev, Device, History, Sections, Bits, InitBit
<1>1. CASE Probe
  BY <1>1 DEF Probe, Goto, NewTapeDev
<1>2. CASE ProbeClear
  BY <1>2 DEF ProbeClear, Goto, Clear
<1>3. CASE ProbeMask
  BY <1>3 DEF ProbeMask, Goto
<1>4. CASE ProbeEnable
  BY <1>4 DEF ProbeEnable, Goto, Enabled
<1>5. CASE ProbeInitDone
  BY <1>5 DEF ProbeInitDone, Goto
<1>6. CASE ProbeInitFails
  BY <1>6 DEF ProbeInitFails, Goto, Fail
<1>7. CASE ProbeInterrupted
  BY <1>7 DEF ProbeInterrupted, Goto, Fail
<1>8. CASE ProbeAlloc
  BY <1>8 DEF ProbeAlloc, Goto, Fail
<1>9. CASE CreateSection
  BY <1>9 DEF CreateSection
<1>10. CASE CreateSectionFails
  BY <1>10 DEF CreateSectionFails, Goto, Fail
<1>11. CASE ProbeUnmask
  BY <1>11 DEF ProbeUnmask, Goto
<1>12. CASE ProbeSetup
  BY <1>12 DEF ProbeSetup, Goto
<1>13. CASE AddDisk
  BY <1>13 DEF AddDisk
<1>14. CASE AddDiskFails
  BY <1>14 DEF AddDiskFails, Goto, Fail
<1>15. CASE SysfsGroupFails
  BY <1>15 DEF SysfsGroupFails, Goto
<1>16. CASE ProbeReturns
  BY <1>16 DEF ProbeReturns, Goto
<1>17. CASE DropSection
  BY <1>17 DEF DropSection
<1>18. CASE ProbeFreeSections
  BY <1>18 DEF ProbeFreeSections, Goto
<1>19. CASE ProbeDisable
  BY <1>19 DEF ProbeDisable, Goto, Disabled
<1>20. CASE ProbeCleanup
  BY <1>20 DEF ProbeCleanup, Goto
<1>21. CASE RemoveDisable
  BY <1>21 DEF RemoveDisable, Goto, Disabled
<1>22. CASE RemoveFreeIrq
  BY <1>22 DEF RemoveFreeIrq, Goto
<1>23. CASE RemoveDisk
  BY <1>23 DEF RemoveDisk
<1>24. CASE RemoveReturns
  BY <1>24 DEF RemoveReturns, Goto
<1>25. CASE HwStarts
  BY <1>25 DEF HwStarts, Raise
<1>26. CASE HwStops
  BY <1>26 DEF HwStops
<1>27. CASE \E s \in Sections : HwFinishes(s)
  BY <1>27 DEF HwFinishes, Raise
<1>28. CASE \E s \in Sections : Request(s)
  BY <1>28 DEF Request, Command
<1>29. CASE \E s \in Sections : Eject(s)
  BY <1>29 DEF Eject, Command
<1>30. CASE Interrupt
  <2>1. Handler /\ line = TRUE /\ UNCHANGED <<pc, irq, hist>>
    BY <1>30 DEF Interrupt
  <2>2. CASE td.init_done = 0
    <3>1. CASE irq.leaked
      BY <2>1, <3>1
    <3>2. CASE /\ ~irq.leaked /\ InitBit \in hw.bits /\ crash' = crash
               /\ td'.init_done = 1 /\ line' = FALSE
      BY <2>1, <2>2, <3>2, HandlerKeeps
    <3>3. CASE /\ ~irq.leaked /\ InitBit \notin hw.bits /\ crash' = crash
      <4>1. Disturbed \/ pc \notin {"wait", "alloc", "create"} \cup Starting
        BY <2>1, <2>2, <3>3
      <4> QED BY <2>1, <3>3, <4>1
    <3> QED BY <2>1, <2>2, <3>1, <3>2, <3>3, HandlerBefore
  <2>3. CASE td.init_done # 0
    <3>1. CASE Walkable /\ ~irq.leaked
      <4>1. HandleSectionsInterrupts
        BY <2>1, <2>3, <3>1 DEF Handler, HandleTapedevInit
      <4>2. crash' = crash /\ (line = FALSE => line' = FALSE)
        BY <4>1 DEF HandleSectionsInterrupts, Clear
      <4> QED BY <2>1, <2>3, <4>2, HandlerKeeps
    <3>2. CASE ~(Walkable /\ ~irq.leaked)
      <4>1. Disturbed \/ pc \in Starting \cup {"wait", "alloc", "create"}
        BY <2>1, <3>2 DEF Walkable, Handler
      <4> QED BY <2>1, <2>3, <4>1
    <3> QED BY <3>1, <3>2
  <2> QED BY <2>2, <2>3
<1>31. CASE ForeignInterrupt
  BY <1>31 DEF ForeignInterrupt
<1>32. CASE UNCHANGED vars
  BY <1>32 DEF vars
<1> QED
  BY <1>1, <1>2, <1>3, <1>4, <1>5, <1>6, <1>7, <1>8, <1>9, <1>10,
     <1>11, <1>12, <1>13, <1>14, <1>15, <1>16, <1>17, <1>18, <1>19, <1>20,
     <1>21, <1>22, <1>23, <1>24, <1>25, <1>26, <1>27, <1>28, <1>29, <1>30,
     <1>31, <1>32
  DEF Next, ProbeStep, RemoveStep, HwStep

LEMMA InitIInv == Init => IInv
<1> SUFFICES ASSUME Init PROVE IInv
  OBVIOUS
<1>1. TypeOK
  <2>1. td \in TapeDev
    BY DEF Init, NewTapeDev, TapeDev
  <2>2. hw \in Device
    BY DEF Init, Device
  <2>3. hist \in History /\ irq \in [reg : BOOLEAN, leaked : BOOLEAN]
    BY DEF Init, History
  <2>4. k \in 0 .. NSections
    BY LifecycleAssumption DEF Init
  <2> QED BY <2>1, <2>2, <2>3, <2>4 DEF Init, TypeOK
<1>2. Built /\ Registration /\ Power /\ Quiet
  BY DEF Init, NewTapeDev, Built, FreedDisksGone, Registration, Registered,
     Power, Quiet, Starting, Initialised, Probing, Failing, Removing, Bits,
     Sections
<1> QED BY <1>1, <1>2 DEF IInv

(* The system stands still after a crash.                                  *)
LEMMA CrashStep ==
  ASSUME IInv, crash # "none", [Next]_vars
  PROVE  IInv'
<1>1. UNCHANGED vars
  BY DEF Next
<1> QED
  BY <1>1 DEF vars, IInv, TypeOK, Built, FreedDisksGone, Registration, Power,
     Quiet, Disturbed

LEMMA NextIInv == IInv /\ [Next]_vars => IInv'
<1> SUFFICES ASSUME IInv, [Next]_vars PROVE IInv'
  OBVIOUS
<1>1. CASE crash = "none"
  <2>1. TypeOK' /\ Built' /\ Registration' /\ Power'
    BY <1>1, TypeStep, BuiltStep, RegistrationStep, PowerStep DEF IInv
  <2>2. Quiet'
    BY <1>1, QuietStep
  <2> QED BY <2>1, <2>2 DEF IInv
<1>2. CASE crash # "none"
  BY <1>2, CrashStep
<1> QED BY <1>1, <1>2

-----------------------------------------------------------------------------
(* The structures of driver and device are well typed; the loops of probe  *)
(* and remove stay within the sections.                                    *)
THEOREM LifecycleTypeCorrect == Spec => []TypeOK
<1>1. IInv => TypeOK
  BY DEF IInv
<1> QED BY <1>1, InitIInv, NextIInv, PTL DEF Spec

(* add_section_disks exposes no disk before its section, the device and    *)
(* the interrupt behind it are ready, whatever interrupts come during      *)
(* probe and whatever earlier probes and removes have left behind.         *)
THEOREM DisksAlwaysServed == Spec => []DisksServed
<1>1. IInv => DisksServed
  BY DEF IInv, DisksServed, Built, Registration, Registered, Power,
     Initialised, Probing, Bits
<1> QED BY <1>1, InitIInv, NextIInv, PTL DEF Spec

(* The interrupt handler falls over a missing or freed structure only with *)
(* another device on the line, a device not at rest at probe, or a failed  *)
(* probe before.                                                           *)
THEOREM CrashesExplained == Spec => []CrashCause
<1>1. IInv => CrashCause
  BY DEF IInv, CrashCause, Quiet, Disturbed
<1> QED BY <1>1, InitIInv, NextIInv, PTL DEF Spec

(* Neither the error labels of probe nor remove free a section under a     *)
(* disk, except the one whose sysfs group could not be made.               *)
THEOREM FreedDisksAlwaysGone == Spec => []FreedDisksGone
<1>1. IInv => FreedDisksGone
  BY DEF IInv, Built
<1> QED BY <1>1, InitIInv, NextIInv, PTL DEF Spec
=============================================================================
