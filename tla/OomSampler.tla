----------------------------- MODULE OomSampler -----------------------------
(***************************************************************************)
(* How the BPF OOM killer decides whether it may kill: the probes on       *)
(* si_meminfo (oomk.bpf.c) and the loop that keeps calling sysinfo         *)
(* (oomk.user.c).  The entry probe stores where the caller's struct        *)
(* sysinfo is, under the id of its process; the return probe reads the     *)
(* struct found there and sets IS_KILLING_ALLOWED.                         *)
(*                                                                         *)
(* Any thread of the system may be in si_meminfo.  The amount of RAM in    *)
(* use is "high" (at least ONE_GB) or "low".  A probe program is one step. *)
(***************************************************************************)
EXTENDS Integers, FiniteSets

CONSTANTS Callers,    \* threads that call si_meminfo
          Procs,      \* their processes
          ProcOf,     \* the process of each caller
          Oomk,       \* the only thread of oomk.user
          NoCaller,   \* no entry in sysinfo_map
          Stale,      \* an entry that points to the struct of a call long over
          MapMax,     \* max_entries of sysinfo_map
          MaxMissed   \* bound: returns the kernel has no kretprobe for

ASSUME SamplerAssumption ==
  /\ ProcOf \in [Callers -> Procs]
  /\ IsFiniteSet(Procs)
  /\ Oomk \in Callers
  /\ \A c \in Callers : ProcOf[c] = ProcOf[Oomk] => c = Oomk
  /\ NoCaller \notin Callers /\ Stale \notin Callers /\ Stale # NoCaller
  /\ MapMax \in Nat \ {0}
  /\ MaxMissed \in Nat

VARIABLES ram,          \* the RAM in use
          call,         \* each caller's struct sysinfo: what is in it
          sysinfo_map,  \* process -> whose struct
          allowed,      \* IS_KILLING_ALLOWED
          missed,       \* bound: returns missed so far
          marred        \* history: the calls under way that went wrong

vars == <<ram, call, sysinfo_map, allowed, missed, marred>>

Level == {"low", "high"}

Init ==
  /\ ram \in Level
  /\ call = [c \in Callers |-> "none"]
  /\ sysinfo_map = [p \in Procs |-> NoCaller]
  /\ allowed = FALSE
  /\ missed = 0
  /\ marred = {}

Entries == {p \in Procs : sysinfo_map[p] # NoCaller}

RamChanges ==
  /\ ram' \in Level \ {ram}
  /\ UNCHANGED <<call, sysinfo_map, allowed, missed, marred>>

(* The other calls of si_meminfo under way in the process of c.            *)
Others(c) ==
  {d \in Callers \ {c} : ProcOf[d] = ProcOf[c] /\ call[d] # "none"}

(* A call goes wrong when another one of the process overlaps with it, and *)
(* so does that one; when the map has no room for it; or when it finds the *)
(* entry of a call whose return was missed.                                *)
Marred(c) ==
  marred \cup Others(c)
         \cup IF \/ Others(c) # {}
                 \/ sysinfo_map[ProcOf[c]] = Stale
                 \/ Cardinality(Entries) >= MapMax
              THEN {c} ELSE {}

(* check_ram_usage_entry: BPF_NOEXIST keeps an entry that is there, and a  *)
(* full map takes no new one.                                              *)
SiEnter(c) ==
  /\ call[c] = "none"
  /\ call' = [call EXCEPT ![c] = "entered"]
  /\ sysinfo_map' = IF /\ sysinfo_map[ProcOf[c]] = NoCaller
                       /\ Cardinality(Entries) < MapMax
                    THEN [sysinfo_map EXCEPT ![ProcOf[c]] = c]
                    ELSE sysinfo_map
  /\ marred' = Marred(c)
  /\ UNCHANGED <<ram, allowed, missed>>

(* The kernel fills the struct in.                                         *)
SiFill(c) ==
  /\ call[c] = "entered"
  /\ call' = [call EXCEPT ![c] = ram]
  /\ UNCHANGED <<ram, sysinfo_map, allowed, missed, marred>>

Filled(x) == x \in Callers /\ call[x] \in Level

(* What the comparison with ONE_GB may say of the struct an entry points   *)
(* to: one that is not filled in, or no longer there, says anything.       *)
Verdicts(x) == IF Filled(x) THEN {call[x] = "high"} ELSE BOOLEAN

Back(c) ==
  /\ call[c] \in Level
  /\ call' = [call EXCEPT ![c] = "none"]
  /\ marred' = marred \ {c}

SiReturn_NoDelete(c) ==
  LET p == ProcOf[c]
      x == sysinfo_map[p]
  IN  /\ Back(c)
      /\ IF x = NoCaller THEN UNCHANGED allowed
         ELSE allowed' \in Verdicts(x)
      /\ UNCHANGED <<ram, sysinfo_map, missed>>

SiReturn_DeletesWhenLow(c) ==
  LET p == ProcOf[c]
      x == sysinfo_map[p]
  IN  /\ Back(c)
      /\ IF x = NoCaller THEN UNCHANGED allowed
         ELSE allowed' \in Verdicts(x)
      /\ sysinfo_map' = IF allowed' THEN sysinfo_map
                        ELSE [sysinfo_map EXCEPT ![p] = NoCaller]
      /\ UNCHANGED <<ram, missed>>

SiReturn_NeverOff(c) ==
  LET p == ProcOf[c]
      x == sysinfo_map[p]
  IN  /\ Back(c)
      /\ IF x = NoCaller THEN UNCHANGED allowed
         ELSE allowed' = (allowed \/ TRUE \in Verdicts(x))
      /\ sysinfo_map' = [sysinfo_map EXCEPT ![p] = NoCaller]
      /\ UNCHANGED <<ram, missed>>

(* check_ram_usage_exit.                                                   *)
SiReturn(c) ==
  LET p == ProcOf[c]
      x == sysinfo_map[p]
  IN  /\ Back(c)
      /\ IF x = NoCaller THEN UNCHANGED allowed
         ELSE allowed' \in Verdicts(x)
      /\ sysinfo_map' = [sysinfo_map EXCEPT ![p] = NoCaller]
      /\ UNCHANGED <<ram, missed>>

(* The kernel ran out of kretprobe instances: the return is not seen, and  *)
(* the entry stays behind.                                                 *)
SiMissed(c) ==
  /\ missed < MaxMissed
  /\ missed' = missed + 1
  /\ Back(c)
  /\ sysinfo_map' = [p \in Procs |-> IF sysinfo_map[p] = c THEN Stale
                                     ELSE sysinfo_map[p]]
  /\ UNCHANGED <<ram, allowed>>

Next ==
  \/ RamChanges
  \/ \E c \in Callers : SiEnter(c) \/ SiFill(c) \/ SiReturn(c) \/ SiMissed(c)

(* oomk.user calls sysinfo once a second for ever, and a call of           *)
(* si_meminfo, by whoever, comes to its end.                               *)
Fairness ==
  /\ WF_vars(SiEnter(Oomk))
  /\ \A c \in Callers : WF_vars(SiFill(c)) /\ WF_vars(SiReturn(c))

Spec == Init /\ [][Next]_vars

FairSpec == Spec /\ Fairness

-----------------------------------------------------------------------------
TypeOK ==
  /\ ram \in Level
  /\ call \in [Callers -> {"none", "entered"} \cup Level]
  /\ sysinfo_map \in [Procs -> Callers \cup {NoCaller, Stale}]
  /\ Cardinality(Entries) <= MapMax
  /\ allowed \in BOOLEAN
  /\ missed \in 0 .. MaxMissed
  /\ marred \in SUBSET Callers

(* An entry points to the struct of a call that is still going on, of a    *)
(* thread of the process it is stored for, however the calls of one        *)
(* process overlap: only a return the probes missed leaves a stale one.    *)
PointersLive ==
  \A p \in Procs :
    /\ sysinfo_map[p] \in Callers =>
         ProcOf[sysinfo_map[p]] = p /\ call[sysinfo_map[p]] # "none"
    /\ sysinfo_map[p] = Stale => missed > 0

(* Each return sets the flag by what the kernel told that very call, not   *)
(* by garbage or by an older call: whichever processes call si_meminfo at  *)
(* the same time and whatever was missed before.  The exceptions, calls in *)
(* marred: another thread of the process is in si_meminfo at some time of  *)
(* the call (sysinfo_map is keyed by process, and BPF_NOEXIST keeps the    *)
(* first entry), the map was full, or an entry had been left behind.       *)
OwnStructDecides ==
  [][\A c \in Callers : SiReturn(c) /\ c \notin marred =>
       allowed' = (call[c] = "high")]_vars

NoRoom == Cardinality(Entries \ {ProcOf[Oomk]}) >= MapMax

(* The flag follows the RAM: when it stays at one level, and from some     *)
(* time on the map is never full, the flag is set accordingly again and    *)
(* again.  An entry left behind by a process that ended is never removed,  *)
(* and 16 of them stop the sampling.                                       *)
FlagFollowsRam ==
  /\ <>[](ram = "high" /\ ~NoRoom) => []<>allowed
  /\ <>[](ram = "low" /\ ~NoRoom) => []<>(~allowed)
=============================================================================
