-------------------------- MODULE OomSamplerProofs --------------------------
(***************************************************************************)
(* Proofs about OomSampler, for any number of callers and processes, any   *)
(* size of sysinfo_map and any number of missed returns.                   *)
(***************************************************************************)
EXTENDS OomSampler, FiniteSetTheorems, TLAPS

(* The inductive invariant: the types without the bound on the size of the *)
(* map, that bound, where the entries point, and that a call that did not  *)
(* go wrong is alone in its process and has the entry of the process.      *)
Shape ==
  /\ ram \in Level
  /\ call \in [Callers -> {"none", "entered"} \cup Level]
  /\ sysinfo_map \in [Procs -> Callers \cup {NoCaller, Stale}]
  /\ allowed \in BOOLEAN
  /\ missed \in 0 .. MaxMissed
  /\ marred \in SUBSET Callers

MapFits == Cardinality(Entries) <= MapMax

Unmarred ==
  \A c \in Callers : call[c] # "none" /\ c \notin marred =>
    /\ sysinfo_map[ProcOf[c]] = c
    /\ \A d \in Callers \ {c} : ProcOf[d] = ProcOf[c] => call[d] = "none"

IInv == Shape /\ MapFits /\ PointersLive /\ Unmarred

-----------------------------------------------------------------------------
(* Facts about the size of the map, check_ram_usage_entry and _exit.       *)

LEMMA EntriesFinite == IsFiniteSet(Entries)
  BY SamplerAssumption, FS_Subset DEF Entries

(* Deleting entries, or none, keeps the map within its size.               *)
LEMMA FewerEntries ==
  ASSUME MapFits, Entries' \subseteq Entries
  PROVE  MapFits'
<1>1. /\ IsFiniteSet(Entries') /\ Cardinality(Entries') <= Cardinality(Entries)
  BY EntriesFinite, FS_Subset
<1>2. /\ Cardinality(Entries) \in Nat /\ Cardinality(Entries') \in Nat
  BY <1>1, EntriesFinite, FS_CardinalityType
<1> QED BY <1>1, <1>2, SamplerAssumption DEF MapFits

(* check_ram_usage_entry inserts only where there is room.                 *)
LEMMA OneMoreEntry ==
  ASSUME NEW p \in Procs, Cardinality(Entries) < MapMax,
         Entries' \subseteq Entries \cup {p}
  PROVE  MapFits'
<1>1. /\ IsFiniteSet(Entries \cup {p})
      /\ Cardinality(Entries \cup {p}) \in
           {Cardinality(Entries), Cardinality(Entries) + 1}
  BY EntriesFinite, FS_AddElement
<1>2. /\ IsFiniteSet(Entries')
      /\ Cardinality(Entries') <= Cardinality(Entries \cup {p})
  BY <1>1, FS_Subset
<1>3. /\ Cardinality(Entries) \in Nat /\ Cardinality(Entries') \in Nat
      /\ Cardinality(Entries \cup {p}) \in Nat
  BY <1>1, <1>2, EntriesFinite, FS_CardinalityType
<1> QED BY <1>1, <1>2, <1>3, SamplerAssumption DEF MapFits

-----------------------------------------------------------------------------
LEMMA InitIInv == Init => IInv
<1> SUFFICES ASSUME Init PROVE IInv
  OBVIOUS
<1>0. /\ missed \in 0 .. MaxMissed
      /\ call \in [Callers -> {"none", "entered"} \cup Level]
      /\ sysinfo_map \in [Procs -> Callers \cup {NoCaller, Stale}]
  BY SamplerAssumption DEF Init
<1>1. Shape
  BY <1>0 DEF Init, Shape
<1>2. Entries = {}
  BY DEF Init, Entries
<1>3. MapFits
  BY <1>2, FS_EmptySet, SamplerAssumption DEF MapFits
<1>4. PointersLive
  BY SamplerAssumption DEF Init, PointersLive
<1>5. Unmarred
  BY DEF Init, Unmarred
<1> QED BY <1>1, <1>3, <1>4, <1>5 DEF IInv

LEMMA RamChangesStep == IInv /\ RamChanges => IInv'
  BY FewerEntries
     DEF IInv, Shape, PointersLive, Unmarred, RamChanges, Entries, MapFits

LEMMA SiEnterStep ==
  ASSUME NEW c \in Callers, IInv, SiEnter(c)
  PROVE  IInv'
<1> DEFINE p == ProcOf[c]
<1>0. p \in Procs
  BY SamplerAssumption
<1>1. Shape'
  BY <1>0, SamplerAssumption DEF IInv, Shape, SiEnter, Marred, Others
<1>2. PointersLive'
  BY <1>0, SamplerAssumption DEF IInv, Shape, PointersLive, SiEnter
<1>3. MapFits'
  <2>1. CASE sysinfo_map' = sysinfo_map
    BY <2>1, FewerEntries DEF IInv, Entries
  <2>2. CASE /\ Cardinality(Entries) < MapMax
             /\ sysinfo_map' = [sysinfo_map EXCEPT ![p] = c]
    <3>1. Entries' \subseteq Entries \cup {p}
      BY <2>2, <1>0 DEF Entries, IInv, Shape
    <3> QED BY <3>1, <2>2, <1>0, OneMoreEntry
  <2> QED BY <2>1, <2>2 DEF SiEnter
<1>4. ASSUME NEW d \in Callers, call'[d] # "none", d \notin marred'
      PROVE  /\ sysinfo_map'[ProcOf[d]] = d
             /\ \A e \in Callers \ {d} :
                  ProcOf[e] = ProcOf[d] => call'[e] = "none"
  <2>0. /\ call[c] = "none" /\ call' = [call EXCEPT ![c] = "entered"]
        /\ marred' = Marred(c)
        /\ call \in [Callers -> {"none", "entered"} \cup Level]
        /\ sysinfo_map \in [Procs -> Callers \cup {NoCaller, Stale}]
    BY DEF SiEnter, IInv, Shape
  <2>1. CASE d = c
    <3>1. /\ Others(c) = {} /\ sysinfo_map[p] # Stale
          /\ ~(Cardinality(Entries) >= MapMax)
      BY <2>0, <2>1, <1>4 DEF Marred
    <3>2. Cardinality(Entries) < MapMax
      BY <3>1, EntriesFinite, FS_CardinalityType, SamplerAssumption
    <3>3. \A e \in Callers \ {c} : ProcOf[e] = p => call[e] = "none"
      BY <3>1 DEF Others
    <3>4. sysinfo_map[p] = NoCaller
      BY <3>1, <3>3, <2>0, <1>0 DEF IInv, PointersLive
    <3>5. sysinfo_map' = [sysinfo_map EXCEPT ![p] = c]
      BY <3>2, <3>4 DEF SiEnter
    <3> QED BY <3>3, <3>5, <2>0, <2>1, <1>0
  <2>2. CASE d # c
    <3>1. /\ call[d] # "none" /\ d \notin marred /\ d \notin Others(c)
      BY <2>0, <2>2, <1>4 DEF Marred
    <3>2. ProcOf[d] # p
      BY <3>1, <2>2 DEF Others
    <3>3. /\ sysinfo_map[ProcOf[d]] = d
          /\ \A e \in Callers \ {d} :
               ProcOf[e] = ProcOf[d] => call[e] = "none"
      BY <3>1 DEF IInv, Unmarred
    <3>4. sysinfo_map'[ProcOf[d]] = sysinfo_map[ProcOf[d]]
      BY <3>2, <2>0, SamplerAssumption DEF SiEnter
    <3> QED BY <3>2, <3>3, <3>4, <2>0
  <2> QED BY <2>1, <2>2
<1>5. Unmarred'
  BY <1>4 DEF Unmarred
<1> QED BY <1>1, <1>2, <1>3, <1>5 DEF IInv

LEMMA SiFillStep ==
  ASSUME NEW c \in Callers, IInv, SiFill(c)
  PROVE  IInv'
<1>1. Shape'
  BY DEF IInv, Shape, SiFill, Level
<1>2. PointersLive'
  BY DEF IInv, Shape, PointersLive, SiFill, Level
<1>3. MapFits'
  BY FewerEntries DEF IInv, Entries, SiFill
<1>4. Unmarred'
  BY DEF IInv, Shape, Unmarred, SiFill, Level
<1> QED BY <1>1, <1>2, <1>3, <1>4 DEF IInv

(* A call that returns removes the entry of its process, its own or that   *)
(* of another thread, so that none points to it afterwards.                *)
LEMMA SiReturnStep ==
  ASSUME NEW c \in Callers, IInv, SiReturn(c)
  PROVE  IInv'
<1> DEFINE p == ProcOf[c]
<1>0. /\ p \in Procs
      /\ call' = [call EXCEPT ![c] = "none"]
      /\ sysinfo_map' = [sysinfo_map EXCEPT ![p] = NoCaller]
      /\ marred' = marred \ {c}
      /\ call[c] # "none"
      /\ UNCHANGED <<ram, missed>>
  BY SamplerAssumption DEF SiReturn, Back, Level
<1>1. allowed' \in BOOLEAN
  <2>1. CASE sysinfo_map[p] = NoCaller
    BY <2>1 DEF SiReturn, IInv, Shape
  <2>2. CASE sysinfo_map[p] # NoCaller
    BY <2>2 DEF SiReturn, Verdicts, Filled
  <2> QED BY <2>1, <2>2
<1>2. Shape'
  BY <1>0, <1>1, SamplerAssumption DEF IInv, Shape
<1>3. PointersLive'
  BY <1>0, SamplerAssumption DEF IInv, Shape, PointersLive
<1>4. Entries' \subseteq Entries
  BY <1>0 DEF Entries, IInv, Shape
<1>5. MapFits'
  BY <1>4, FewerEntries DEF IInv
<1>6. Unmarred'
  BY <1>0, SamplerAssumption DEF IInv, Shape, Unmarred
<1> QED BY <1>2, <1>3, <1>5, <1>6 DEF IInv

LEMMA SiMissedStep ==
  ASSUME NEW c \in Callers, IInv, SiMissed(c)
  PROVE  IInv'
<1>1. Shape'
  BY SamplerAssumption DEF IInv, Shape, SiMissed, Back
<1>2. PointersLive'
  BY SamplerAssumption DEF IInv, Shape, PointersLive, SiMissed, Back
<1>3. Entries' \subseteq Entries
  BY SamplerAssumption DEF Entries, IInv, Shape, SiMissed
<1>4. MapFits'
  BY <1>3, FewerEntries DEF IInv
<1>5. Unmarred'
  <2>1. /\ call[c] # "none" /\ call' = [call EXCEPT ![c] = "none"]
        /\ marred' = marred \ {c}
    BY DEF SiMissed, Back, Level
  <2>2. \A p \in Procs : sysinfo_map[p] # c => sysinfo_map'[p] = sysinfo_map[p]
    BY DEF SiMissed
  <2>3. ASSUME NEW d \in Callers, call'[d] # "none", d \notin marred'
        PROVE  /\ sysinfo_map'[ProcOf[d]] = d
               /\ \A e \in Callers \ {d} :
                    ProcOf[e] = ProcOf[d] => call'[e] = "none"
    <3>1. d # c /\ call[d] # "none" /\ d \notin marred
      BY <2>1, <2>3 DEF IInv, Shape
    <3>2. /\ sysinfo_map[ProcOf[d]] = d
          /\ \A e \in Callers \ {d} :
               ProcOf[e] = ProcOf[d] => call[e] = "none"
      BY <3>1 DEF IInv, Unmarred
    <3> QED BY <3>1, <3>2, <2>1, <2>2, SamplerAssumption DEF IInv, Shape
  <2> QED BY <2>3 DEF Unmarred
<1> QED BY <1>1, <1>2, <1>4, <1>5 DEF IInv

LEMMA NextIInv == IInv /\ [Next]_vars => IInv'
<1> SUFFICES ASSUME IInv, [Next]_vars PROVE IInv'
  OBVIOUS
<1>1. CASE RamChanges
  BY <1>1, RamChangesStep
<1>2. CASE \E c \in Callers :
             SiEnter(c) \/ SiFill(c) \/ SiReturn(c) \/ SiMissed(c)
  BY <1>2, SiEnterStep, SiFillStep, SiReturnStep, SiMissedStep
<1>3. CASE UNCHANGED vars
  BY <1>3 DEF vars, IInv, Shape, MapFits, PointersLive, Unmarred, Entries
<1> QED BY <1>1, <1>2, <1>3 DEF Next

-----------------------------------------------------------------------------
(* The state of the probes is well typed and sysinfo_map never holds more  *)
(* than its max_entries, however the calls of si_meminfo overlap.          *)
THEOREM SamplerTypeCorrect == Spec => []TypeOK
<1>1. IInv => TypeOK
  BY DEF IInv, Shape, MapFits, TypeOK
<1> QED BY <1>1, InitIInv, NextIInv, PTL DEF Spec

(* Every entry of sysinfo_map points to the struct of a call that is still *)
(* going on, unless the return probe of a call was missed.                 *)
THEOREM PointersAlwaysLive == Spec => []PointersLive
<1>1. IInv => PointersLive
  BY DEF IInv
<1> QED BY <1>1, InitIInv, NextIInv, PTL DEF Spec

(* Every return whose call did not go wrong sets IS_KILLING_ALLOWED by the *)
(* struct of that very call, which the kernel has filled in: the probes of *)
(* any number of other processes and missed returns come between or not.   *)
THEOREM OwnStruct == Spec => OwnStructDecides
<1> DEFINE Own == \A c \in Callers : SiReturn(c) /\ c \notin marred =>
                    allowed' = (call[c] = "high")
<1>1. IInv => Own
  <2> SUFFICES ASSUME IInv, NEW c \in Callers, SiReturn(c), c \notin marred
               PROVE  allowed' = (call[c] = "high")
    OBVIOUS
  <2>1. call[c] \in Level
    BY DEF SiReturn, Back
  <2>2. sysinfo_map[ProcOf[c]] = c
    BY <2>1 DEF IInv, Unmarred, Level
  <2>3. allowed' \in Verdicts(c)
    BY <2>2, SamplerAssumption DEF SiReturn
  <2> QED BY <2>1, <2>3 DEF Verdicts, Filled
<1>2. IInv /\ [Next]_vars => [Own]_vars
  BY <1>1
<1> QED BY <1>2, InitIInv, NextIInv, PTL DEF Spec, OwnStructDecides
=============================================================================
