----------------------------- MODULE TapeDriver -----------------------------
(***************************************************************************)
(* The tape driver (tapedev_main.c, tapedev_irq.c) on top of the device:   *)
(* the per-section command queue, the queue_rq callback of the block       *)
(* layer, the EJECT ioctl and the interrupt handler.                       *)
(*                                                                         *)
(* A critical section under sec->lock is one step.  The interrupt handler  *)
(* is one sequential process that reads the interrupt status once, then    *)
(* visits the sections in order, reading each status register outside the  *)
(* lock.  The block layer is external: it keeps one request per section in *)
(* flight (queue depth 1) until blk_mq_end_request is called for it.       *)
(***************************************************************************)
EXTENDS TapeDevice, FiniteSets

CONSTANTS Requests,    \* the requests the block layer may dispatch
          Threads,     \* user threads that may call the EJECT ioctl
          Signals,     \* may a waiting thread get a signal?
          AllocFails,  \* may an allocation in queue_rq fail?
          Spurious,    \* may the shared line call the handler for others?
          MaxEjects    \* bound: ejection_cmds never grows beyond this

(* A request is what the driver makes of it: the commands it queues for it *)
(* (computed in module TapeCommands) and the number of blocks asked for.   *)
ASSUME DriverAssumption ==
  /\ Requests \subseteq [plan : Seq(Command), size : Nat]
  /\ \A r \in Requests : PlanShape(r.plan, r.size)
  /\ Signals \in BOOLEAN
  /\ AllocFails \in BOOLEAN
  /\ Spurious \in BOOLEAN
  /\ MaxEjects \in Nat

VARIABLES sec,   \* sec[s]: struct section
          blk,   \* blk[s]: the block layer's side of section s
          isr    \* the interrupt handler's locals

vars == <<dev, line, sec, blk, isr>>

NoReq == [plan |-> << >>, size |-> 0]

Node == [cmd : Command, is_ioctl : BOOLEAN]

EjectNode ==
  [cmd |-> [op |-> "EJECT_TAPE", arg |-> 0, off |-> 0], is_ioctl |-> TRUE]

RequestNodes(r) == [i \in 1 .. Len(r.plan) |->
                      [cmd |-> r.plan[i], is_ioctl |-> FALSE]]

(* ends and result are what the block layer was told about the request by  *)
(* blk_mq_end_request since it was dispatched.                             *)
SectionStruct ==
  [cmd_queue      : Seq(Node),
   req            : Requests \cup {NoReq},
   current_tape   : Nat,
   ioctl_cmd_done : BOOLEAN,
   ioctl_status   : {"OK", "NO_TAPE"},
   ejection_cmds  : Int,
   wait_q         : SUBSET Threads,
   ends           : Nat,
   result         : {"none", "OK", "IOERR"}]

(* pc: is queue_rq running for this section, and where; rq: the request it *)
(* was last called for; moved: blocks of it the device has transferred.    *)
BlockLayer ==
  [pc : {"idle", "building", "failing"}, rq : Requests \cup {NoReq},
   moved : Nat]

(* pc "read": about to read the status register of sec_id; "handle": about *)
(* to enter _handle_section_interrupt.  done, err: the ir_status snapshot. *)
Handler ==
  [pc : {"off", "read", "handle"}, done : SUBSET Sections,
   err : SUBSET Sections, sec_id : Sections, status : Status]

HandlerOff == [pc |-> "off", done |-> {}, err |-> {}, sec_id |-> 0,
               status |-> "IDLE"]

TypeOK ==
  /\ DeviceTypeOK
  /\ sec \in [Sections -> SectionStruct]
  /\ blk \in [Sections -> BlockLayer]
  /\ isr \in Handler

Init ==
  /\ DeviceInit
  /\ sec = [s \in Sections |->
       [cmd_queue |-> << >>, req |-> NoReq, current_tape |-> dev[s].tape,
        ioctl_cmd_done |-> FALSE, ioctl_status |-> "OK", ejection_cmds |-> 0,
        wait_q |-> {}, ends |-> 0, result |-> "none"]]
  /\ blk = [s \in Sections |-> [pc |-> "idle", rq |-> NoReq, moved |-> 0]]
  /\ isr = HandlerOff

-----------------------------------------------------------------------------
(* Sending: every place writes the command register only if it has to      *)
(* start the queue, and then sends the head.                               *)

Enqueue_AlwaysSends(s, nodes, k) ==
  LET c == nodes[1].cmd
  IN  /\ sec' = [sec EXCEPT ![s] =
                   [k EXCEPT !.cmd_queue = sec[s].cmd_queue \o nodes]]
      /\ dev' = [dev EXCEPT ![s] = Exec(@, c)]
      /\ line' = (line \/ ExecRaises(dev[s], c))

Enqueue_BehindHead(s, nodes, k) ==
  LET c == nodes[1].cmd
      q == sec[s].cmd_queue
      start == q = << >>
  IN  /\ sec' = [sec EXCEPT ![s] = [k EXCEPT !.cmd_queue =
                   IF start THEN nodes ELSE <<Head(q)>> \o nodes \o Tail(q)]]
      /\ dev' = [dev EXCEPT ![s] = IF start THEN Exec(@, c) ELSE @]
      /\ line' = (line \/ (start /\ ExecRaises(dev[s], c)))

(* Append nodes to the queue of s, sending the first if it was empty.      *)
Enqueue(s, nodes, k) ==
  LET c == nodes[1].cmd
      start == sec[s].cmd_queue = << >>
  IN  /\ sec' = [sec EXCEPT ![s] =
                   [k EXCEPT !.cmd_queue = sec[s].cmd_queue \o nodes]]
      /\ dev' = [dev EXCEPT ![s] = IF start THEN Exec(@, c) ELSE @]
      /\ line' = (line \/ (start /\ ExecRaises(dev[s], c)))

-----------------------------------------------------------------------------
(* The block layer and queue_rq.                                           *)

BlkMqEndRequest(k, status) ==
  [k EXCEPT !.ends = @ + 1, !.result = IF @ = "none" THEN status ELSE @]

InFlight(s) == blk[s].rq # NoReq /\ sec[s].ends = 0

(* The block layer dispatches r; queue_rq remembers it in sec->req.        *)
QueueRq(s, r) ==
  /\ blk[s].pc = "idle"
  /\ ~InFlight(s)
  /\ blk' = [blk EXCEPT ![s] = [pc |-> "building", rq |-> r, moved |-> 0]]
  /\ sec' = [sec EXCEPT ![s].req = r, ![s].ends = 0, ![s].result = "none"]
  /\ UNCHANGED <<dev, line, isr>>

(* All commands are built: they join the queue under the lock.             *)
SubmitCommands(s) ==
  /\ blk[s].pc = "building"
  /\ blk' = [blk EXCEPT ![s].pc = "idle"]
  /\ Enqueue(s, RequestNodes(blk[s].rq), sec[s])
  /\ UNCHANGED isr

(* An allocation fails while they are built: queue_rq ends the request...  *)
SubmitFails(s) ==
  /\ AllocFails
  /\ blk[s].pc = "building"
  /\ blk' = [blk EXCEPT ![s].pc = "failing"]
  /\ sec' = [sec EXCEPT ![s] =
               IF @.req # NoReq
               THEN [BlkMqEndRequest(@, "IOERR") EXCEPT !.req = NoReq]
               ELSE @]
  /\ UNCHANGED <<dev, line, isr>>

(* ... and also returns the status, on which blk-mq ends it again.         *)
QueueRqReturnsError(s) ==
  /\ blk[s].pc = "failing"
  /\ blk' = [blk EXCEPT ![s].pc = "idle"]
  /\ sec' = [sec EXCEPT ![s] = BlkMqEndRequest(@, "IOERR")]
  /\ UNCHANGED <<dev, line, isr>>

-----------------------------------------------------------------------------
(* The EJECT ioctl.                                                        *)

(* A thread leaves the wait loop with the lock held and ioctl_cmd_done.    *)
ConsumeEject(k, t) ==
  [k EXCEPT !.ejection_cmds = @ - 1, !.ioctl_cmd_done = FALSE,
            !.ioctl_status = "OK", !.wait_q = @ \ {t}]

(* The call queues its command; it does not even wait if ioctl_cmd_done is *)
(* already set.                                                            *)
EjectIoctl(t, s) ==
  /\ \A x \in Sections : t \notin sec[x].wait_q
  /\ sec[s].ejection_cmds < MaxEjects
  /\ LET k == [sec[s] EXCEPT !.ejection_cmds = @ + 1, !.wait_q = @ \cup {t}]
     IN  Enqueue(s, <<EjectNode>>,
                 IF k.ioctl_cmd_done THEN ConsumeEject(k, t) ELSE k)
  /\ UNCHANGED <<blk, isr>>

(* Any waiter that finds ioctl_cmd_done under the lock takes it.           *)
EjectReturn(t, s) ==
  /\ t \in sec[s].wait_q
  /\ sec[s].ioctl_cmd_done
  /\ sec' = [sec EXCEPT ![s] = ConsumeEject(@, t)]
  /\ UNCHANGED <<dev, line, blk, isr>>

EjectInterrupted_Uncounts(t, s) ==
  /\ Signals
  /\ t \in sec[s].wait_q
  /\ ~sec[s].ioctl_cmd_done
  /\ sec' = [sec EXCEPT ![s].wait_q = @ \ {t},
                         ![s].ejection_cmds = @ - 1]
  /\ UNCHANGED <<dev, line, blk, isr>>

EjectInterrupted_Unqueues(t, s) ==
  /\ Signals
  /\ t \in sec[s].wait_q
  /\ ~sec[s].ioctl_cmd_done
  /\ sec' = [sec EXCEPT ![s].wait_q = @ \ {t},
                         ![s].cmd_queue = SubSeq(@, 1, Len(@) - 1)]
  /\ UNCHANGED <<dev, line, blk, isr>>

(* A signal ends the wait with -ERESTARTSYS: the command stays queued and  *)
(* counted.                                                                *)
EjectInterrupted(t, s) ==
  /\ Signals
  /\ t \in sec[s].wait_q
  /\ ~sec[s].ioctl_cmd_done
  /\ sec' = [sec EXCEPT ![s].wait_q = @ \ {t}]
  /\ UNCHANGED <<dev, line, blk, isr>>

-----------------------------------------------------------------------------
(* The interrupt handler.                                                  *)

EndRequestHelper(k, status) ==
  IF k.req # NoReq THEN [BlkMqEndRequest(k, status) EXCEPT !.req = NoReq]
  ELSE k

HasIoctl(q) == \E i \in 1 .. Len(q) : q[i].is_ioctl

FirstIoctl(q) == CHOOSE i \in 1 .. Len(q) :
  q[i].is_ioctl /\ \A j \in 1 .. i - 1 : ~q[j].is_ioctl

AbortRestOfReqCmds_OnlyHead(k) ==
  [k EXCEPT !.req = NoReq, !.cmd_queue = Tail(@)]

(* Drop the commands in front of the first ioctl command.  The request is  *)
(* ended here only if there is one, and forgotten in any case.             *)
AbortRestOfReqCmds(k) ==
  LET q == k.cmd_queue
  IN  IF HasIoctl(q)
      THEN [EndRequestHelper(k, "IOERR") EXCEPT !.req = NoReq,
              !.cmd_queue = SubSeq(q, FirstIoctl(q), Len(q))]
      ELSE [k EXCEPT !.req = NoReq, !.cmd_queue = << >>]

HandleSectionError_SkipsAny(k, status) ==
  [k EXCEPT !.cmd_queue = Tail(@),
            !.ioctl_cmd_done = @ \/ Head(k.cmd_queue).is_ioctl]

HandleSectionError_NoWake(k, status) ==
  [k EXCEPT !.cmd_queue = Tail(@)]

HandleSectionError(k, status) ==
  LET head == Head(k.cmd_queue)
      aborted == AbortRestOfReqCmds(k)
  IN  IF status = "NO_TAPE"
      THEN [k EXCEPT !.cmd_queue = Tail(@),
                     !.ioctl_cmd_done = @ \/ head.is_ioctl,
                     !.ioctl_status = IF head.is_ioctl THEN "NO_TAPE" ELSE @]
      ELSE IF head.is_ioctl THEN k
      ELSE IF aborted.cmd_queue = << >>
           THEN EndRequestHelper(aborted, "IOERR") ELSE aborted

EndReqIfCompleted_Unchecked(k, curr) ==
  IF k.cmd_queue = << >> \/ Head(k.cmd_queue).is_ioctl
  THEN [BlkMqEndRequest(k, "OK") EXCEPT !.req = NoReq] ELSE k

EndReqIfCompleted_OnlyIfEmpty(k, curr) ==
  IF ~curr.is_ioctl /\ k.cmd_queue = << >>
  THEN EndRequestHelper(k, "OK") ELSE k

(* A request is over when its last command is: nothing follows, or an      *)
(* ioctl command does.                                                     *)
EndReqIfCompleted(k, curr) ==
  IF ~curr.is_ioctl /\ (k.cmd_queue = << >> \/ Head(k.cmd_queue).is_ioctl)
  THEN EndRequestHelper(k, "OK") ELSE k

(* What sec->current_tape becomes when curr is done.                       *)
TapeAfter_EjectKeeps(curr, t) ==
  IF curr.cmd.op = "TAKE_TAPE" THEN curr.cmd.arg ELSE t

TapeAfter(curr, t) ==
  IF curr.cmd.op = "TAKE_TAPE" THEN curr.cmd.arg
  ELSE IF curr.cmd.op = "EJECT_TAPE" THEN 0 ELSE t

(* err: the handler gave up, and the next command is not started.          *)
HandleSectionDone(k, d, status) ==
  IF status # "DONE" \/ k.cmd_queue = << >> THEN [k |-> k, err |-> TRUE]
  ELSE
  LET curr == Head(k.cmd_queue)
      op == curr.cmd.op
      popped == [k EXCEPT !.cmd_queue = Tail(@),
                             !.current_tape = TapeAfter(curr, @)]
      mismatch == op \in {"TAKE_TAPE", "EJECT_TAPE"}
                    /\ d.tape # popped.current_tape
      woken == [popped EXCEPT !.ioctl_cmd_done =
                  @ \/ (op = "EJECT_TAPE" /\ curr.is_ioctl)]
  IN  IF mismatch THEN [k |-> popped, err |-> TRUE]
      ELSE [k |-> EndReqIfCompleted(woken, curr), err |-> FALSE]

(* The body of the handler for one section, under sec->lock: the new       *)
(* section, the device after the clear, and is the next command started?   *)
HandleSectionInterrupt(k, d, status, isErr) ==
  IF status = "WORKING" THEN [k |-> k, d |-> d, next |-> FALSE]
  ELSE IF isErr
  THEN [k |-> HandleSectionError(k, status), d |-> ClearErr(d), next |-> TRUE]
  ELSE LET out == HandleSectionDone(k, d, status)
       IN  [k |-> out.k, d |-> ClearDone(d), next |-> ~out.err]

IsrAdvance_OffByOne(h) ==
  IF h.sec_id < NSections
  THEN [h EXCEPT !.pc = "read", !.sec_id = @ + 1] ELSE HandlerOff

IsrAdvance(h) ==
  IF h.sec_id + 1 \in Sections
  THEN [h EXCEPT !.pc = "read", !.sec_id = @ + 1] ELSE HandlerOff

(* The line is level triggered: while it is high the handler is called     *)
(* again.  One read takes the snapshot of all the bits.                    *)
IsrSnapshot ==
  /\ isr.pc = "off"
  /\ isr' = [HandlerOff EXCEPT !.pc = "read",
               !.done = {s \in Sections : dev[s].done},
               !.err = {s \in Sections : dev[s].err}]
  /\ UNCHANGED <<dev, line, sec, blk>>

IsrEnter == line /\ IsrSnapshot

IsrSpurious == Spurious /\ ~line /\ IsrSnapshot

(* The status register is read for every section, outside the lock.        *)
IsrReadStatus ==
  LET s == isr.sec_id
      h == [isr EXCEPT !.status = dev[s].status]
  IN  /\ isr.pc = "read"
      /\ isr' = IF s \in isr.done \cup isr.err
                THEN [h EXCEPT !.pc = "handle"] ELSE IsrAdvance(h)
      /\ UNCHANGED <<dev, line, sec, blk>>

IsrHandle ==
  LET s == isr.sec_id
      out == HandleSectionInterrupt(sec[s], dev[s], isr.status, s \in isr.err)
      sends == out.next /\ out.k.cmd_queue # << >>
      c == Head(out.k.cmd_queue).cmd
  IN  /\ isr.pc = "handle"
      /\ isr' = IsrAdvance(isr)
      /\ sec' = [sec EXCEPT ![s] = out.k]
      /\ dev' = [dev EXCEPT ![s] = IF sends THEN Exec(out.d, c) ELSE out.d]
      /\ line' = (LineAfterClear(line, dev[s], out.d)
                    \/ (sends /\ ExecRaises(out.d, c)))
      /\ UNCHANGED blk

-----------------------------------------------------------------------------
(* One timer step of the device for a busy section.                        *)
Tick(s) ==
  /\ dev[s].state = "busy"
  /\ \E e \in TickOutcomes(dev[s]) :
       /\ dev' = [dev EXCEPT ![s] = e]
       /\ line' = (line \/ TickRaises(dev[s], e))
       /\ blk' = [blk EXCEPT ![s].moved =
                    IF Transferred(dev[s], e) THEN @ + 1 ELSE @]
  /\ UNCHANGED <<sec, isr>>

Next ==
  \/ \E s \in Sections :
       \/ \E r \in Requests : QueueRq(s, r)
       \/ SubmitCommands(s)
       \/ SubmitFails(s)
       \/ QueueRqReturnsError(s)
       \/ Tick(s)
       \/ \E t \in Threads :
            EjectIoctl(t, s) \/ EjectReturn(t, s) \/ EjectInterrupted(t, s)
  \/ IsrEnter
  \/ IsrSpurious
  \/ IsrReadStatus
  \/ IsrHandle

Spec == Init /\ [][Next]_vars

(* The timer ticks for ever, a raised line gets its handler called, and    *)
(* code that runs (the handler, queue_rq, a woken thread) goes on.  Users, *)
(* the block layer and other devices on the line owe nothing.              *)
Fairness ==
  /\ WF_vars(IsrEnter)
  /\ WF_vars(IsrReadStatus)
  /\ WF_vars(IsrHandle)
  /\ \A s \in Sections :
       /\ WF_vars(Tick(s))
       /\ WF_vars(SubmitCommands(s))
       /\ WF_vars(QueueRqReturnsError(s))
       /\ \A t \in Threads : WF_vars(EjectReturn(t, s))

FairSpec == Spec /\ Fairness

-----------------------------------------------------------------------------
Queue(s) == sec[s].cmd_queue
Pending(s) == dev[s].done \/ dev[s].err
IoctlNodes(q) == Cardinality({i \in 1 .. Len(q) : q[i].is_ioctl})
HasRequest(q) == \E i \in 1 .. Len(q) : ~q[i].is_ioctl

(* The head of the queue is what the device is working on, or has finished *)
(* and reported; an idle section without a report has an empty queue.  So  *)
(* no command is ever written to a busy section, which would drop it, and  *)
(* one that waits has a working section or a report before it; whether     *)
(* that report reaches the handler is RequestsEnd (section_send_cmd in     *)
(* queue_rq, the ioctl and __handle_next_cmd).                             *)
QueueMatchesDevice ==
  \A s \in Sections :
    /\ dev[s].state = "busy" =>
         Queue(s) # << >> /\ dev[s].cmd = Head(Queue(s)).cmd /\ ~Pending(s)
    /\ dev[s].state = "idle" => (Queue(s) # << >> <=> Pending(s))
    /\ Pending(s) => Queue(s) # << >>

(* What the handler read before taking sec->lock is still so when it uses  *)
(* it: the bits of the snapshot it has not handled yet are set, only one   *)
(* of the two, and the status register it read is the one that goes with   *)
(* the bit (_handle_section_interrupt).                                    *)
SnapshotStillTrue ==
  isr.pc # "off" =>
    /\ \A s \in Sections : s >= isr.sec_id =>
         /\ s \in isr.done => dev[s].done /\ dev[s].status = "DONE"
         /\ s \in isr.err => dev[s].err /\ dev[s].status \in ErrorStatus
         /\ ~(dev[s].done /\ dev[s].err)
    /\ isr.pc = "handle" => isr.status = dev[isr.sec_id].status

(* current_tape, which the GET_INFO ioctl and sysfs report, is the tape    *)
(* really inserted, but for a TAKE or EJECT whose DONE bit is not handled  *)
(* yet; then the device holds what that command asked for, so that the     *)
(* mismatch branches of __handle_section_done are never taken.             *)
TapeTracked ==
  \A s \in Sections :
    LET head == Head(Queue(s)).cmd
    IN  dev[s].tape = IF dev[s].done /\ head.op = "TAKE_TAPE" THEN head.arg
                      ELSE IF dev[s].done /\ head.op = "EJECT_TAPE" THEN 0
                      ELSE sec[s].current_tape

(* __handle_section_error drops any command that fails with NO_TAPE and    *)
(* goes on as if it had worked.  That is right only for EJECT.             *)
NoTapeOnlyForEject ==
  \A s \in Sections :
    dev[s].err /\ dev[s].status = "NO_TAPE" =>
      Head(Queue(s)).cmd.op = "EJECT_TAPE"

(* The commands of a request are not interleaved with ioctl commands and   *)
(* belong to the request sec->req points to, which is not ended: this is   *)
(* what __end_req_if_completed and __abort_rest_of_req_cmds rely on to     *)
(* tell where a request ends.                                              *)
RequestContiguous ==
  \A s \in Sections :
    LET q == Queue(s)
    IN  /\ \A i, j, l \in 1 .. Len(q) :
             i < j /\ j < l /\ ~q[i].is_ioctl /\ ~q[l].is_ioctl
               => ~q[j].is_ioctl
        /\ HasRequest(q) =>
             InFlight(s) /\ sec[s].req = blk[s].rq /\ blk[s].pc = "idle"

(* A request reported as successful had every one of its blocks moved by   *)
(* the device (_end_request_helper with BLK_STS_OK).                       *)
OkMeansTransferred ==
  \A s \in Sections :
    sec[s].result = "OK" => blk[s].moved = blk[s].rq.size

(* While the device works on a command nobody takes anything out of the    *)
(* queue: it can only grow at its tail.                                    *)
BusyQueueOnlyGrows ==
  [][\A s \in Sections :
       dev[s].state = "busy" =>
         /\ Len(Queue(s)') >= Len(Queue(s))
         /\ SubSeq(Queue(s)', 1, Len(Queue(s))) = Queue(s)]_vars

(* ejection_cmds covers all eject commands in the queue, the completion    *)
(* nobody has taken yet, and all the threads that wait.                    *)
EjectsCovered ==
  \A s \in Sections :
    /\ IoctlNodes(Queue(s)) + (IF sec[s].ioctl_cmd_done THEN 1 ELSE 0)
         <= sec[s].ejection_cmds
    /\ Cardinality(sec[s].wait_q) <= sec[s].ejection_cmds

(* With one ejecting thread and no signals the bookkeeping is exact: every *)
(* waiting thread has one command in the queue or its completion is        *)
(* flagged, and ejection_cmds counts them.                                 *)
EjectsPaired ==
  \A s \in Sections :
    /\ sec[s].ejection_cmds = Cardinality(sec[s].wait_q)
    /\ IoctlNodes(Queue(s)) + (IF sec[s].ioctl_cmd_done THEN 1 ELSE 0)
         = sec[s].ejection_cmds

(* blk_mq_end_request is called once at most for a request.                *)
EndedOnce == \A s \in Sections : sec[s].ends <= 1

(* A request the block layer waits for still has commands in the queue     *)
(* once queue_rq has returned: otherwise nothing will ever end it.         *)
NotForgotten ==
  \A s \in Sections :
    InFlight(s) /\ blk[s].pc = "idle" => HasRequest(Queue(s))

(* Completion triggers an interrupt that ends the request.                 *)
RequestsEnd == \A s \in Sections : InFlight(s) ~> ~InFlight(s)

(* An eject command is done in the near future and its thread returns.     *)
EjectsReturn ==
  \A s \in Sections, t \in Threads :
    t \in sec[s].wait_q ~> t \notin sec[s].wait_q

(* The driver implements what the block layer expects of a disk.           *)
Disk == INSTANCE TapeBlockDev WITH
  Disks <- Sections,
  Sizes <- {r.size : r \in Requests},
  open <- [s \in Sections |-> InFlight(s)],
  left <- [s \in Sections |-> blk[s].rq.size - blk[s].moved],
  result <- [s \in Sections |-> sec[s].result]

DiskSpec == Disk!ASpec
=============================================================================
