----------------------------- MODULE OomKiller -----------------------------
(***************************************************************************)
(* The accounting of the BPF OOM killer (oomk.bpf.c): every probe charges  *)
(* what the current thread did to its entry of state_map, an LRU hash map, *)
(* and kills its process when killing is allowed and a counter has reached *)
(* its threshold.                                                          *)
(*                                                                         *)
(* A probe program runs in two steps, as other CPUs see it: it looks its   *)
(* entry up and reads IS_KILLING_ALLOWED, and then works through the       *)
(* pointer it got.  In between the map may give the element to another     *)
(* key.  Whether killing is allowed is module OomSampler; here it changes  *)
(* at any time.  The thresholds are one constant, and rand, write and      *)
(* clone, counted alike, are kinds.                                        *)
(***************************************************************************)
EXTENDS Integers, FiniteSets

CONSTANTS Threads,    \* the pid_tgid values, used again by later threads
          ProcOf,     \* the process of each
          Elems,      \* the elements of state_map (MAX_ENTRIES)
          NoKey,      \* the key of an element that is not in use
          NoElem,     \* no pointer
          Kinds,      \* counters that only count; "spawn" is one of them
          Sizes,      \* what a read may return
          Threshold,
          Width,      \* the counters are unsigned of this many values
          MaxEvents   \* bound: calls of all threads

ASSUME KillerAssumption ==
  /\ Elems # {} /\ IsFiniteSet(Elems)
  /\ NoKey \notin Threads
  /\ NoElem \notin Elems
  /\ "spawn" \in Kinds
  /\ Sizes \subseteq Nat
  /\ Threshold \in Nat \ {0}
  /\ Width \in Nat \ {0}
  /\ MaxEvents \in Nat

VARIABLES allowed,   \* IS_KILLING_ALLOWED
          elem,      \* state_map: key and struct proc_info of each element
          task,      \* the threads
          oomp,      \* does the name of the thread contain "oomp"?
          phase,     \* between the two probes of a call
          probe,     \* the probe program the thread is in
          own,       \* history: what the thread has really done
          taint,     \* history: how its entry came to be wrong
          events     \* bound: calls so far

vars == <<allowed, elem, task, oomp, phase, probe, own, taint,
          events>>

(* A __u32 counter.                                                        *)
Counter == 0 .. Width - 1

(* struct proc_info.  fcntl_op = 0 is F_DUPFD, so a new one says "dup".    *)
ProcInfo ==
  [n : [Kinds -> Counter], fd : Counter, op : {"dup", "other"},
   read : Counter, tcp : BOOLEAN, sent : Counter]

NewInfo == [n |-> [k \in Kinds |-> 0], fd |-> 0, op |-> "dup", read |-> 0,
            tcp |-> FALSE, sent |-> 0]

Whats == {"count", "open", "close", "fcntl_enter", "fcntl_exit", "read",
          "xmit_enter", "xmit_exit", "nothing"}

(* "unread": the IP header of the packet could not be read.                *)
Args == Kinds \cup {"dup", "tcp", "unread", "other"}

(* A probe program under way: which one, what the kernel gave it, where    *)
(* the lookup pointed it, and i_can_kill.                                  *)
ProbeRun == [what : Whats, arg : Args, size : Nat, at : Elems, can : BOOLEAN]

NoProbe == [what |-> "none", arg |-> "other", size |-> 0, at |-> NoElem,
            can |-> FALSE]

(* What a thread has done while its name contained "oomp"; born: its life  *)
(* began with a return from clone that was counted.  fd is relative: a     *)
(* thread may close what it never opened.  op and tcp: its last fcntl and  *)
(* its last packet.                                                        *)
Deeds ==
  [n : [Kinds -> Nat], fd : Int, read : Nat, sent : Nat,
   op : {"dup", "other"}, tcp : BOOLEAN, born : {0, 1},
   under : Nat,           \* closes of its that were not counted
   late : BOOLEAN]        \* it may have left an entry when it ended

NoDeeds == [n |-> [k \in Kinds |-> 0], fd |-> 0, read |-> 0, sent |-> 0,
            op |-> "other", tcp |-> FALSE, born |-> 0, under |-> 0,
            late |-> FALSE]

Init ==
  /\ allowed = FALSE
  /\ elem = [e \in Elems |-> [key |-> NoKey, info |-> NewInfo]]
  /\ task = [t \in Threads |-> "dead"]
  /\ oomp = [t \in Threads |-> FALSE]
  /\ phase = [t \in Threads |-> "run"]
  /\ probe = [t \in Threads |-> NoProbe]
  /\ own = [t \in Threads |-> NoDeeds]
  /\ taint = [t \in Threads |-> "no"]
  /\ events = 0

-----------------------------------------------------------------------------
(* The map.                                                                *)

EntryOf(t) == {e \in Elems : elem[e].key = t}
HasEntry(t) == EntryOf(t) # {}
FreeElems == EntryOf(NoKey)

(* Losing the entry makes the thread start again from 0; between the two   *)
(* probes of fcntl it also makes the operation look like F_DUPFD.          *)
Evicted(v) == IF phase[v] = "fcntl" THEN "charged"
              ELSE IF taint[v] = "no" THEN "evicted" ELSE taint[v]

(* What a probe program is called with.                                    *)
What(what, arg) == [what |-> what, arg |-> arg, size |-> 0]
Looked(w, e) == [what |-> w.what, arg |-> w.arg, size |-> w.size, at |-> e,
                 can |-> allowed]

(* GET_PROC_INFO_OR_RETURN: look the entry up, making it if it is not      *)
(* there; a full map gives up some other entry, or refuses.                *)
Found(t, w) ==
  /\ \E e \in EntryOf(t) :
       probe' = [probe EXCEPT ![t] = Looked(w, e)]
  /\ UNCHANGED <<elem, taint>>

Inserted_KeepsInfo(t, w) ==
  /\ ~HasEntry(t)
  /\ \E e \in IF FreeElems # {} THEN FreeElems ELSE Elems :
       /\ elem' = [elem EXCEPT ![e].key = t]
       /\ probe' = [probe EXCEPT ![t] = Looked(w, e)]
       /\ taint' = [v \in Threads |-> IF elem[e].key = v THEN Evicted(v)
                                      ELSE taint[v]]

Inserted(t, w) ==
  /\ ~HasEntry(t)
  /\ \E e \in IF FreeElems # {} THEN FreeElems ELSE Elems :
       /\ elem' = [elem EXCEPT ![e] = [key |-> t, info |-> NewInfo]]
       /\ probe' = [probe EXCEPT ![t] = Looked(w, e)]
       /\ taint' = [v \in Threads |-> IF elem[e].key = v THEN Evicted(v)
                                      ELSE taint[v]]

Refused(t, w) ==
  /\ ~HasEntry(t) /\ FreeElems = {}
  /\ taint' = [taint EXCEPT ![t] = IF w.what = "fcntl_enter" THEN "charged"
                                   ELSE Evicted(t)]
  /\ UNCHANGED <<elem, probe>>

(* Entering a probe program; without "oomp" in the name it returns.        *)
Enter(t, w) ==
  IF oomp[t]
  THEN Found(t, w) \/ Inserted(t, w) \/ Refused(t, w)
  ELSE UNCHANGED <<elem, probe, taint>>

-----------------------------------------------------------------------------
(* The rest of a probe program.                                            *)

(* What it does to the proc_info it points to.                             *)
Updated_FdUnclamped(i, w) ==
  CASE w.what = "count" -> [i EXCEPT !.n[w.arg] = (@ + 1) % Width]
    [] w.what = "open" -> [i EXCEPT !.fd = (@ + 1) % Width]
    [] w.what = "close" -> [i EXCEPT !.fd = @ - 1]
    [] w.what = "fcntl_enter" -> [i EXCEPT !.op = w.arg]
    [] w.what = "fcntl_exit" -> IF i.op = "dup"
                                THEN [i EXCEPT !.fd = (@ + 1) % Width]
                                ELSE i
    [] w.what = "read" -> [i EXCEPT !.read = (@ + w.size) % Width]
    [] w.what = "xmit_enter" -> [i EXCEPT !.tcp = IF w.arg = "unread" THEN @
                                                ELSE w.arg = "tcp"]
    [] w.what = "xmit_exit" -> IF i.tcp
                               THEN [i EXCEPT !.sent = (@ + 1) % Width]
                               ELSE i
    [] OTHER -> i

Updated_AnyPacket(i, w) ==
  CASE w.what = "count" -> [i EXCEPT !.n[w.arg] = (@ + 1) % Width]
    [] w.what = "open" -> [i EXCEPT !.fd = (@ + 1) % Width]
    [] w.what = "close" -> IF i.fd > 0 THEN [i EXCEPT !.fd = @ - 1] ELSE i
    [] w.what = "fcntl_enter" -> [i EXCEPT !.op = w.arg]
    [] w.what = "fcntl_exit" -> IF i.op = "dup"
                                THEN [i EXCEPT !.fd = (@ + 1) % Width]
                                ELSE i
    [] w.what = "read" -> [i EXCEPT !.read = (@ + w.size) % Width]
    [] w.what = "xmit_enter" -> [i EXCEPT !.tcp = @ \/ w.arg = "tcp"]
    [] w.what = "xmit_exit" -> IF i.tcp
                               THEN [i EXCEPT !.sent = (@ + 1) % Width]
                               ELSE i
    [] OTHER -> i

Updated(i, w) ==
  CASE w.what = "count" -> [i EXCEPT !.n[w.arg] = (@ + 1) % Width]
    [] w.what = "open" -> [i EXCEPT !.fd = (@ + 1) % Width]
    [] w.what = "close" -> IF i.fd > 0 THEN [i EXCEPT !.fd = @ - 1] ELSE i
    [] w.what = "fcntl_enter" -> [i EXCEPT !.op = w.arg]
    [] w.what = "fcntl_exit" -> IF i.op = "dup"
                                THEN [i EXCEPT !.fd = (@ + 1) % Width]
                                ELSE i
    [] w.what = "read" -> [i EXCEPT !.read = (@ + w.size) % Width]
    [] w.what = "xmit_enter" -> [i EXCEPT !.tcp = IF w.arg = "unread" THEN @
                                                ELSE w.arg = "tcp"]
    [] w.what = "xmit_exit" -> IF i.tcp
                               THEN [i EXCEPT !.sent = (@ + 1) % Width]
                               ELSE i
    [] OTHER -> i

(* Whether it goes on to compare the counters with the thresholds.         *)
Checks_NotFcntl(i, what) ==
  \/ what \in {"count", "open", "read"}
  \/ what = "xmit_exit" /\ i.tcp

Checks(i, what) ==
  \/ what \in {"count", "open", "read"}
  \/ what = "fcntl_exit" /\ i.op = "dup"
  \/ what = "xmit_exit" /\ i.tcp

(* proc_should_be_killed.                                                  *)
ShouldBeKilled_Early(i) ==
  \/ \E k \in Kinds : i.n[k] >= Threshold - 1
  \/ i.fd >= Threshold
  \/ i.read >= Threshold
  \/ i.sent >= Threshold

ShouldBeKilled(i) ==
  \/ \E k \in Kinds : i.n[k] >= Threshold
  \/ i.fd >= Threshold
  \/ i.read >= Threshold
  \/ i.sent >= Threshold

(* bpf_send_signal(SIGKILL): to every thread of the process.               *)
Killed(t) ==
  [v \in Threads |-> IF ProcOf[v] = ProcOf[t] /\ task[v] = "alive"
                     THEN "doomed" ELSE task[v]]

(* bpf_map_delete_elem of the thread's own key.  The contents stay, which  *)
(* matters to a probe of another thread that still points there.           *)
Deleted(m, t) ==
  [e \in Elems |->
     IF m[e].key # t THEN m[e]
     ELSE [key |-> NoKey,
           info |-> IF \E v \in Threads \ {t} : probe[v].at = e
                    THEN m[e].info ELSE NewInfo]]

(* A packet whose header was not read passes for what the last one was.    *)
Mistaken(t, i) ==
  IF probe[t].what = "xmit_enter" /\ probe[t].arg = "unread"
     /\ i.tcp # own[t].tcp
  THEN "charged" ELSE taint[t]

(* If the element has been given to another key meanwhile, it is that      *)
(* thread that is charged, and its counters that are compared.             *)
Leave(t) ==
  LET e == probe[t].at
      i == elem[e].info
      j == Updated(i, probe[t])
      m == [elem EXCEPT ![e].info = j]
      kill == probe[t].can /\ Checks(i, probe[t].what) /\ ShouldBeKilled(j)
  IN  /\ probe[t] # NoProbe
      /\ probe' = [probe EXCEPT ![t] = NoProbe]
      /\ elem' = IF kill THEN Deleted(m, t) ELSE m
      /\ task' = IF kill THEN Killed(t) ELSE task
      /\ taint' = [v \in Threads |->
                     IF elem[e].key # t /\ v \in {t, elem[e].key}
                     THEN "charged"
                     ELSE IF v = t THEN Mistaken(t, i) ELSE taint[v]]
      /\ own' = [own EXCEPT ![t].under =
                   IF probe[t].what = "close" /\ i.fd = 0 THEN @ + 1 ELSE @]
      /\ UNCHANGED <<allowed, oomp, phase, events>>

-----------------------------------------------------------------------------
(* What threads do.  A thread in a probe program does nothing else.        *)

Runs(t) == /\ task[t] = "alive" /\ phase[t] = "run" /\ probe[t] = NoProbe
           /\ events < MaxEvents /\ events' = events + 1

Tally(t) == IF oomp[t] THEN 1 ELSE 0

(* A call of kind k returns.                                               *)
Call(t, k) ==
  /\ Runs(t)
  /\ k # "spawn"
  /\ own' = [own EXCEPT ![t].n[k] = @ + Tally(t)]
  /\ Enter(t, What("count", k))
  /\ UNCHANGED <<allowed, task, oomp, phase>>

(* A traced call fails: the probe only makes the entry.                    *)
CallFails(t) ==
  /\ Runs(t)
  /\ Enter(t, What("nothing", "other"))
  /\ UNCHANGED <<allowed, task, oomp, phase, own>>

OpenFd(t) ==
  /\ Runs(t)
  /\ own' = [own EXCEPT ![t].fd = @ + Tally(t)]
  /\ Enter(t, What("open", "other"))
  /\ UNCHANGED <<allowed, task, oomp, phase>>

CloseFd(t) ==
  /\ Runs(t)
  /\ Enter(t, What("close", "other"))
  /\ own' = [own EXCEPT ![t].fd = @ - Tally(t),
                        ![t].under = IF probe'[t] = NoProbe THEN @ + Tally(t)
                                     ELSE @]
  /\ UNCHANGED <<allowed, task, oomp, phase>>

ReadBytes(t, n) ==
  /\ Runs(t)
  /\ own' = [own EXCEPT ![t].read = @ + n * Tally(t)]
  /\ Enter(t, [What("read", "other") EXCEPT !.size = n])
  /\ UNCHANGED <<allowed, task, oomp, phase>>

FcntlEnter(t, op) ==
  /\ Runs(t)
  /\ phase' = [phase EXCEPT ![t] = "fcntl"]
  /\ own' = [own EXCEPT ![t].op = op]
  /\ Enter(t, What("fcntl_enter", op))
  /\ UNCHANGED <<allowed, task, oomp>>

(* The probe at the return of a fcntl that succeeded, or only the lookup.  *)
FcntlExit(t, ok) ==
  /\ phase[t] = "fcntl" /\ probe[t] = NoProbe
  /\ phase' = [phase EXCEPT ![t] = "run"]
  /\ own' = [own EXCEPT ![t].fd =
               IF ok /\ own[t].op = "dup" THEN @ + Tally(t) ELSE @]
  /\ Enter(t, What(IF ok THEN "fcntl_exit" ELSE "nothing", "other"))
  /\ UNCHANGED <<allowed, task, oomp, events>>

(* A packet goes through ip_finish_output2 in the context of the thread:   *)
(* also when the sockets of a thread that ends are closed.  The header may *)
(* not be readable.                                                        *)
XmitEnter(t, tcp, readable) ==
  /\ task[t] \in {"alive", "exiting"}
  /\ phase[t] = "run" /\ probe[t] = NoProbe
  /\ events < MaxEvents /\ events' = events + 1
  /\ phase' = [phase EXCEPT ![t] = "xmit"]
  /\ own' = [own EXCEPT ![t].tcp = tcp,
                        ![t].late = @ \/ task[t] = "exiting"]
  /\ Enter(t, What("xmit_enter", IF ~readable THEN "unread"
                                 ELSE IF tcp THEN "tcp" ELSE "other"))
  /\ UNCHANGED <<allowed, task, oomp>>

XmitExit(t, ok) ==
  /\ phase[t] = "xmit" /\ probe[t] = NoProbe
  /\ phase' = [phase EXCEPT ![t] = "run"]
  /\ own' = [own EXCEPT ![t].sent =
               IF ok /\ own[t].tcp THEN @ + Tally(t) ELSE @]
  /\ Enter(t, What(IF ok THEN "xmit_exit" ELSE "nothing", "other"))
  /\ UNCHANGED <<allowed, task, oomp, events>>

-----------------------------------------------------------------------------
(* Threads come and go.                                                    *)

(* A new life under an old pid_tgid starts with what the map still has.    *)
NewLife(own0, t) == [own0 EXCEPT ![t] = NoDeeds]
Inherited(t) == IF HasEntry(t) THEN "charged" ELSE "no"

(* A process started by one that is not traced.                            *)
Appear(t, named) ==
  /\ \A v \in Threads : ProcOf[v] = ProcOf[t] => task[v] = "dead"
  /\ task' = [task EXCEPT ![t] = "alive"]
  /\ oomp' = [oomp EXCEPT ![t] = named]
  /\ own' = NewLife(own, t)
  /\ taint' = [taint EXCEPT ![t] = Inherited(t)]
  /\ UNCHANGED <<allowed, elem, phase, probe, events>>

(* clone makes the child, a thread of the process or one of a new process, *)
(* ...                                                                     *)
Spawn(t, u) ==
  /\ Runs(t)
  /\ task[u] = "dead"
  /\ \/ ProcOf[u] = ProcOf[t]
     \/ \A v \in Threads : ProcOf[v] = ProcOf[u] => task[v] = "dead"
  /\ task' = [task EXCEPT ![u] = "alive"]
  /\ oomp' = [oomp EXCEPT ![u] = oomp[t]]
  /\ phase' = [phase EXCEPT ![t] = "clone", ![u] = "born"]
  /\ own' = NewLife(own, u)
  /\ taint' = [taint EXCEPT ![u] = Inherited(u)]
  /\ UNCHANGED <<allowed, elem, probe>>

(* ... then the parent returns from it, ...                                *)
CloneReturns(t) ==
  /\ phase[t] = "clone"
  /\ phase' = [phase EXCEPT ![t] = "run"]
  /\ own' = [own EXCEPT ![t].n["spawn"] = @ + Tally(t)]
  /\ Enter(t, What("count", "spawn"))
  /\ UNCHANGED <<allowed, task, oomp, events>>

(* ... and the child too, with 0: handle_spawning_threads counts ret >= 0. *)
Born(u) ==
  /\ phase[u] = "born"
  /\ phase' = [phase EXCEPT ![u] = "run"]
  /\ own' = [own EXCEPT ![u].born = Tally(u)]
  /\ Enter(u, What("count", "spawn"))
  /\ UNCHANGED <<allowed, task, oomp, events>>

(* execve or prctl, or another thread through /proc.                       *)
Rename(t) ==
  /\ task[t] = "alive"
  /\ events < MaxEvents /\ events' = events + 1
  /\ oomp' = [oomp EXCEPT ![t] = ~@]
  /\ taint' = [taint EXCEPT ![t] =
                 IF ~oomp[t] /\ phase[t] \in {"fcntl", "xmit"}
                 THEN "charged" ELSE @]
  /\ UNCHANGED <<allowed, elem, task, phase, probe, own>>

Exit_KeepEntry(t) ==
  /\ task[t] \in {"alive", "doomed"}
  /\ phase[t] = "run" /\ probe[t] = NoProbe
  /\ task' = [task EXCEPT ![t] = "exiting"]
  /\ own' = [own EXCEPT ![t].late = ~oomp[t]]
  /\ UNCHANGED <<allowed, elem, oomp, phase, probe, taint, events>>

(* check_if_proc_exited, called early in do_exit.                          *)
Exit(t) ==
  /\ task[t] \in {"alive", "doomed"}
  /\ phase[t] = "run" /\ probe[t] = NoProbe
  /\ task' = [task EXCEPT ![t] = "exiting"]
  /\ elem' = IF oomp[t] THEN Deleted(elem, t) ELSE elem
  /\ own' = [own EXCEPT ![t].late = ~oomp[t]]
  /\ UNCHANGED <<allowed, oomp, phase, probe, taint, events>>

Gone(t) ==
  /\ task[t] = "exiting"
  /\ phase[t] = "run" /\ probe[t] = NoProbe
  /\ task' = [task EXCEPT ![t] = "dead"]
  /\ oomp' = [oomp EXCEPT ![t] = FALSE]
  /\ own' = [own EXCEPT ![t] = [NoDeeds EXCEPT !.late = own[t].late]]
  /\ taint' = [taint EXCEPT ![t] = "no"]
  /\ UNCHANGED <<allowed, elem, phase, probe, events>>

(* A sample changes IS_KILLING_ALLOWED.                                    *)
Sample ==
  /\ allowed' = ~allowed
  /\ UNCHANGED <<elem, task, oomp, phase, probe, own, taint, events>>

ThreadStep(t) ==
  \/ \E k \in Kinds : Call(t, k)
  \/ CallFails(t)
  \/ OpenFd(t) \/ CloseFd(t)
  \/ \E n \in Sizes : ReadBytes(t, n)
  \/ \E op \in {"dup", "other"} : FcntlEnter(t, op)
  \/ \E ok \in BOOLEAN : FcntlExit(t, ok) \/ XmitExit(t, ok)
  \/ \E tcp, readable \in BOOLEAN : XmitEnter(t, tcp, readable)
  \/ \E u \in Threads : Spawn(t, u)
  \/ CloneReturns(t) \/ Born(t)
  \/ Leave(t)

Next ==
  \/ Sample
  \/ \E t \in Threads :
       \/ ThreadStep(t)
       \/ \E named \in BOOLEAN : Appear(t, named)
       \/ Rename(t) \/ Exit(t) \/ Gone(t)

Spec == Init /\ [][Next]_vars

-----------------------------------------------------------------------------
TypeOK ==
  /\ allowed \in BOOLEAN
  /\ elem \in [Elems -> [key : Threads \cup {NoKey}, info : ProcInfo]]
  /\ task \in [Threads -> {"dead", "alive", "doomed", "exiting"}]
  /\ oomp \in [Threads -> BOOLEAN]
  /\ phase \in [Threads -> {"run", "born", "clone", "fcntl", "xmit"}]
  /\ probe \in [Threads -> ProbeRun \cup {NoProbe}]
  /\ own \in [Threads -> Deeds]
  /\ taint \in [Threads -> {"no", "evicted", "charged"}]
  /\ events \in 0 .. MaxEvents

(* What the counters should say.                                           *)
Count(t, k) == own[t].n[k] + IF k = "spawn" THEN own[t].born ELSE 0
Fd(t) == own[t].fd + own[t].under

Quiet(t) == task[t] = "alive" /\ probe[t] = NoProbe

(* Between two probes the entry of a thread that never lost it says what   *)
(* the thread has done, modulo 2^32, and a thread without an entry has     *)
(* done nothing.  Two things are off by what the code does: a child counts *)
(* its own birth, and a close is forgotten when the counter is at 0.       *)
AccountingExact ==
  \A t \in Threads : Quiet(t) /\ taint[t] = "no" =>
    /\ \A e \in EntryOf(t) :
         LET i == elem[e].info
         IN  /\ \A k \in Kinds : i.n[k] = Count(t, k) % Width
             /\ i.sent = own[t].sent % Width
             /\ i.read = own[t].read % Width
             /\ i.fd = Fd(t) % Width
    /\ ~HasEntry(t) =>
         /\ \A k \in Kinds : Count(t, k) = 0
         /\ own[t].sent = 0 /\ own[t].read = 0
         /\ own[t].fd = 0 /\ own[t].under = 0

(* A thread that lost its entry to the LRU list is charged too little,     *)
(* never too much; so is one whose counter wrapped round.                  *)
NeverOvercharged ==
  \A t \in Threads : Quiet(t) /\ taint[t] = "evicted" =>
    \A e \in EntryOf(t) :
      LET i == elem[e].info
      IN  /\ \A k \in Kinds : i.n[k] <= Count(t, k)
          /\ i.sent <= own[t].sent
          /\ i.read <= own[t].read
          /\ i.fd <= Fd(t)

(* No entry outlives its thread, so that "if another process gets this     *)
(* pid" (oomk.bpf.c:303) it starts from nothing.  Two exceptions: a thread *)
(* renamed before it ends is not looked for, and a packet sent while the   *)
(* sockets are closed, after the probe, makes a new entry.                 *)
DeadForgotten ==
  \A t \in Threads : task[t] = "dead" /\ HasEntry(t) => own[t].late

(* Descriptors count net of the closes that were not forgotten.            *)
Over(t) ==
  \/ \E k \in Kinds : Count(t, k) >= Threshold
  \/ Fd(t) >= Threshold
  \/ own[t].read >= Threshold
  \/ own[t].sent >= Threshold

(* A process is killed only for what one of its threads has done, after a  *)
(* sample that allowed it; a thread that closes descriptors the probes did *)
(* not see it open gets no credit for that.  The exceptions, all of them   *)
(* taint = "charged", which then excuses any later kill of the thread: its *)
(* element was given away while a probe used it, or it was charged for     *)
(* another; it inherited an entry; that of a fcntl was refused, or lost    *)
(* before its return, or the thread took an oomp name in the middle of a   *)
(* fcntl or a packet, so that the return goes by a stale or a zero         *)
(* fcntl_op or is_tcp_packet; or the header of a packet could not be read  *)
(* and its is_tcp_packet is that of another (lines 644-650).               *)
KillJustified ==
  [][\A t \in Threads : task[t] = "alive" /\ task'[t] = "doomed" =>
       \E u \in Threads :
         /\ ProcOf[u] = ProcOf[t]
         /\ probe[u].can
         /\ Over(u) \/ taint'[u] = "charged"]_vars

Reached(n) == n % Width >= Threshold

(* A thread whose count stands at a threshold while killing is allowed     *)
(* does not get past the probe of the next thing it does that counts: a    *)
(* call, an open, a read, a return from F_DUPFD or a TCP packet sent.      *)
(* Unless it lost its entry, or its entry is wrong; and a count that went  *)
(* round modulo 2^32 starts again.                                         *)
KilledInTime ==
  [][\A t \in Threads :
       /\ Leave(t)
       /\ probe[t].can
       /\ \/ probe[t].what \in {"count", "open", "read"}
          \/ probe[t].what = "fcntl_exit" /\ own[t].op = "dup"
          \/ probe[t].what = "xmit_exit" /\ own[t].tcp
       /\ taint'[t] = "no"
       /\ \/ \E k \in Kinds : Reached(Count(t, k))
          \/ Reached(Fd(t))
          \/ Reached(own[t].read)
          \/ Reached(own[t].sent)
       => task'[t] # "alive"]_vars
=============================================================================
