-------------------------- MODULE TapeDriverProofs --------------------------
(***************************************************************************)
(* Proofs about TapeDriver, for any number of sections, tapes, blocks,     *)
(* threads and any set of requests.                                        *)
(*                                                                         *)
(* QueueMatchesDevice is not inductive: that the handler really pops the   *)
(* head, and starts the next command, depends on the status it read        *)
(* outside the lock (SnapshotStillTrue), on the status register going with *)
(* the bits, and on the inserted tape being the one the head asked for.    *)
(* IInv puts these together.                                               *)
(***************************************************************************)
EXTENDS TapeDriver, TLAPS, SequenceTheorems, WellFoundedInduction

(* A section of the device taken by itself: at most one of the two bits,   *)
(* a status register that goes with it, none while a command is worked on. *)
DeviceConsistent(d) ==
  /\ d \in SectionState
  /\ ~(d.done /\ d.err)
  /\ d.done => d.status = "DONE"
  /\ d.err => d.status \in ErrorStatus
  /\ d.state = "busy" =>
       /\ ~d.done /\ ~d.err
       /\ d.cmd.op = "TAKE_TAPE" => d.cmd.arg \in 1 .. NTapes

(* QueueMatchesDevice for one section.                                     *)
Matches(d, q) ==
  /\ d.state = "busy" => q # << >> /\ d.cmd = Head(q).cmd
  /\ d.state = "idle" /\ q # << >> => d.done \/ d.err
  /\ d.done \/ d.err => q # << >>

(* TapeTracked for one section.                                            *)
TapeNow(d, k) ==
  LET head == Head(k.cmd_queue).cmd
  IN  IF d.done /\ head.op = "TAKE_TAPE" THEN head.arg
      ELSE IF d.done /\ head.op = "EJECT_TAPE" THEN 0
      ELSE k.current_tape

Good(d, k) ==
  /\ DeviceConsistent(d)
  /\ k \in SectionStruct
  /\ Matches(d, k.cmd_queue)
  /\ d.tape = TapeNow(d, k)

(* queue_rq builds commands for a real request.                            *)
Building ==
  \A s \in Sections : blk[s].pc = "building" => blk[s].rq \in Requests

(* The handler takes the lock only for a section of its snapshot.          *)
HandlerHasWork ==
  isr.pc = "handle" => isr.sec_id \in isr.done \cup isr.err

IInv ==
  /\ TypeOK
  /\ \A s \in Sections : Good(dev[s], sec[s])
  /\ Building
  /\ SnapshotStillTrue
  /\ HandlerHasWork

-----------------------------------------------------------------------------
(* The operations of one section of the device.                            *)

(* Ending a command sets exactly one bit (aabc in the device).             *)
LEMMA CompleteType ==
  ASSUME NEW d \in SectionState, NEW st \in {"idle", "dead"},
         NEW status \in Status
  PROVE  LET e == Complete(d, st, status)
         IN  /\ e \in SectionState
             /\ e.state = st
             /\ e.status = status
             /\ e.tape = d.tape
             /\ e.done <=> d.done \/ status \notin ErrorStatus
             /\ e.err <=> d.err \/ status \in ErrorStatus
BY DEF Complete, SectionState

(* Starting a command keeps the bits and remembers the command (aabd).     *)
LEMMA BeginType ==
  ASSUME NEW d \in SectionState, NEW c \in Command
  PROVE  LET e == Begin(d, c)
         IN  /\ e \in SectionState
             /\ e.state = "busy"
             /\ e.status = "WORKING"
             /\ e.cmd = c
             /\ e.tape = d.tape
             /\ e.done = d.done
             /\ e.err = d.err
BY DEF Begin, SectionState, Command, Status

(* A refusal is one of the error codes; a TAKE_TAPE that is not refused    *)
(* names a tape of the library (aabm).                                     *)
LEMMA RefusalType ==
  ASSUME NEW d \in SectionState, NEW c \in Command
  PROVE  /\ Refusal(d, c) # "none" => Refusal(d, c) \in ErrorStatus
         /\ Refusal(d, c) = "none" /\ c.op = "TAKE_TAPE" =>
              c.arg \in 1 .. NTapes
BY DEF Refusal, ErrorStatus

(* A command written to a section with no bit set starts or is refused     *)
(* with the ERROR bit; only a dead section ignores it.                     *)
LEMMA ExecStarts ==
  ASSUME NEW d, DeviceConsistent(d), ~d.done, ~d.err, d.state # "busy",
         NEW c \in Command
  PROVE  LET e == Exec(d, c)
         IN  /\ DeviceConsistent(e)
             /\ e.tape = d.tape
             /\ ~e.done
             /\ e.state = "busy" => e.cmd = c
             /\ e.state = "idle" => e.err
             /\ e.state = "dead" => ~e.err
<1>0. d \in SectionState
  BY DEF DeviceConsistent
<1>1. CASE d.state # "idle"
  BY <1>0, <1>1 DEF Exec, DeviceConsistent, SectionState
<1>2. CASE d.state = "idle" /\ Refusal(d, c) = "none"
  <2>1. Exec(d, c) = Begin(d, c)
    BY <1>2 DEF Exec
  <2> QED
    BY <1>0, <1>2, <2>1, BeginType, RefusalType DEF DeviceConsistent
<1>3. CASE d.state = "idle" /\ Refusal(d, c) # "none"
  <2>1. Exec(d, c) = Complete(d, "idle", Refusal(d, c))
    BY <1>3 DEF Exec
  <2>2. Refusal(d, c) \in ErrorStatus /\ Refusal(d, c) \in Status
    BY <1>0, <1>3, RefusalType DEF Status
  <2> QED
    BY <1>0, <2>1, <2>2, CompleteType DEF DeviceConsistent
<1> QED
  BY <1>1, <1>2, <1>3

(* Moving the head changes only the position and what is remembered.       *)
LEMMA MoveType ==
  ASSUME NEW d \in SectionState, NEW p \in Nat
  PROVE  LET e == MoveTo(d, p)
         IN  /\ e \in SectionState
             /\ e.state = d.state /\ e.status = d.status /\ e.cmd = d.cmd
             /\ e.tape = d.tape /\ e.done = d.done /\ e.err = d.err
BY DEF MoveTo, SectionState

(* What a timer step makes of a busy section, tape being what it holds     *)
(* when the command ends well.                                             *)
Ticked(d, e, tape) ==
  /\ DeviceConsistent(e)
  /\ e.state = "busy" => e.cmd = d.cmd /\ e.tape = d.tape
  /\ e.state # "busy" => e.done \/ e.err
  /\ e.done => e.tape = tape
  /\ e.err => e.tape = d.tape

(* Ending a command is a possible effect of a timer step (aabc).           *)
LEMMA CompleteTicks ==
  ASSUME NEW d \in SectionState, NEW f \in SectionState, ~f.done, ~f.err,
         NEW st \in {"idle", "dead"}, NEW status \in ErrorStatus \cup {"DONE"},
         status \in ErrorStatus => f.tape = d.tape
  PROVE  Ticked(d, Complete(f, st, status), f.tape)
<1>1. "DONE" \notin ErrorStatus /\ status \in Status
  BY DEF ErrorStatus, Status
<1> QED
  BY <1>1, CompleteType DEF Ticked, DeviceConsistent

(* One block of a transfer: the section stays busy with the same command,  *)
(* or ends it with one bit; the tape stays inserted (aabo).                *)
LEMMA TransferTicks ==
  ASSUME NEW d, DeviceConsistent(d), d.state = "busy",
         NEW e \in TransferBlock(d)
  PROVE  Ticked(d, e, d.tape)
<1> DEFINE moved == MoveTo([d EXCEPT !.left = @ - 1], d.pos + 1)
<1>0. d \in SectionState /\ ~d.done /\ ~d.err
  BY DEF DeviceConsistent
<1>1. \/ e = Complete(d, "idle", "READ_PAST_END")
      \/ e = Complete(d, "idle", "DONE")
      \/ d.left # 0 /\ e = moved
      \/ d.left # 0 /\ e = Complete(moved, "idle", "DONE")
      \/ e = Complete(d, "idle", "PGTABLE")
      \/ e = Complete(d, "dead", "PGTABLE")
      \/ e = Complete(d, "dead", "IO")
  BY Zenon DEF TransferBlock
<1>2. d.left # 0 =>
        /\ moved \in SectionState
        /\ moved.state = "busy" /\ moved.cmd = d.cmd /\ moved.tape = d.tape
        /\ ~moved.done /\ ~moved.err
  <2> SUFFICES ASSUME d.left # 0 PROVE <1>2!2
    OBVIOUS
  <2> DEFINE f == [d EXCEPT !.left = @ - 1]
  <2>1. /\ f \in SectionState
        /\ f.state = "busy" /\ f.cmd = d.cmd /\ f.tape = d.tape
        /\ ~f.done /\ ~f.err
    BY <1>0 DEF SectionState
  <2>2. d.pos + 1 \in Nat
    BY <1>0 DEF SectionState
  <2> QED
    BY <2>1, <2>2, MoveType
<1>3. {"READ_PAST_END", "PGTABLE", "IO"} \subseteq ErrorStatus
  BY DEF ErrorStatus
<1> HIDE DEF moved
<1>4. CASE d.left # 0 /\ e = moved
  BY <1>0, <1>2, <1>4 DEF Ticked, DeviceConsistent
<1>5. CASE d.left # 0 /\ e = Complete(moved, "idle", "DONE")
  BY <1>0, <1>2, <1>5, CompleteTicks
<1> QED
  BY <1>0, <1>1, <1>3, <1>4, <1>5, CompleteTicks

(* The tape a section holds when the command it works on ends well.        *)
TapeWhenDone(d) ==
  IF d.cmd.op = "TAKE_TAPE" THEN d.cmd.arg
  ELSE IF d.cmd.op = "EJECT_TAPE" THEN 0 ELSE d.tape

(* The same for every command (aabf).                                      *)
LEMMA TickTicks ==
  ASSUME NEW d, DeviceConsistent(d), d.state = "busy",
         NEW e \in TickOutcomes(d)
  PROVE  Ticked(d, e, TapeWhenDone(d))
<1>0. /\ d \in SectionState /\ ~d.done /\ ~d.err
      /\ d.cmd.arg \in Nat /\ d.pos \in Nat /\ 0 \in Nat
      /\ d.cmd.op = "TAKE_TAPE" => d.cmd.arg \in 1 .. NTapes
  BY DEF DeviceConsistent, SectionState, Command, NoCmd
<1>1. CASE d.cmd.op = "TAKE_TAPE"
  <2> DEFINE f == [d EXCEPT !.tape = d.cmd.arg, !.pos = d.saved[d.cmd.arg]]
  <2>1. e = Complete(f, "idle", "DONE")
    BY <1>1 DEF TickOutcomes
  <2>2. d.cmd.arg \in 0 .. NTapes /\ d.saved[d.cmd.arg] \in Nat
    BY <1>0, <1>1, GeometryAssumption DEF SectionState
  <2>3. f \in SectionState /\ f.tape = d.cmd.arg /\ ~f.done /\ ~f.err
    BY <1>0, <2>2 DEF SectionState
  <2>4. "DONE" \notin ErrorStatus
    BY DEF ErrorStatus
  <2> HIDE DEF f
  <2> QED
    BY <1>0, <1>1, <2>1, <2>3, <2>4, CompleteTicks DEF TapeWhenDone
<1>2. CASE d.cmd.op = "EJECT_TAPE"
  <2> DEFINE f == [d EXCEPT !.tape = 0, !.pos = 0]
  <2>1. e = Complete(f, "idle", "DONE")
    BY <1>2 DEF TickOutcomes
  <2>2. f \in SectionState /\ f.tape = 0 /\ ~f.done /\ ~f.err
    <3>1. 0 \in 0 .. NTapes
      BY GeometryAssumption
    <3> QED
      BY <1>0, <3>1 DEF SectionState
  <2>3. "DONE" \notin ErrorStatus
    BY DEF ErrorStatus
  <2> HIDE DEF f
  <2> QED
    BY <1>0, <1>2, <2>1, <2>2, <2>3, CompleteTicks DEF TapeWhenDone
<1>3. CASE d.cmd.op \in {"REWIND", "FAST_FWD"}
  <2>1. PICK p \in Nat : e = Complete(MoveTo(d, p), "idle", "DONE")
    <3>1. d.pos + d.cmd.arg \in Nat
      BY <1>0
    <3> QED
      BY <1>0, <1>3, <3>1 DEF TickOutcomes
  <2>2. /\ MoveTo(d, p) \in SectionState /\ MoveTo(d, p).tape = d.tape
        /\ ~MoveTo(d, p).done /\ ~MoveTo(d, p).err
    BY <1>0, MoveType
  <2>3. "DONE" \notin ErrorStatus
    BY DEF ErrorStatus
  <2> QED
    BY <1>0, <1>3, <2>1, <2>2, <2>3, CompleteTicks DEF TapeWhenDone
<1>4. CASE d.cmd.op \notin {"TAKE_TAPE", "EJECT_TAPE", "REWIND", "FAST_FWD"}
  <2>1. e \in TransferBlock(d)
    BY <1>4 DEF TickOutcomes
  <2> QED
    BY <1>4, <2>1, TransferTicks DEF TapeWhenDone
<1> QED
  BY <1>1, <1>2, <1>3, <1>4

-----------------------------------------------------------------------------
(* The driver's operations on one section.                                 *)

(* If the queue holds an ioctl command it has a first one: FirstIoctl is   *)
(* well defined.                                                           *)
LEMMA FirstIoctlExists ==
  ASSUME NEW q \in Seq(Node), HasIoctl(q)
  PROVE  FirstIoctl(q) \in 1 .. Len(q) /\ q[FirstIoctl(q)].is_ioctl
<1> DEFINE S == {i \in 1 .. Len(q) : q[i].is_ioctl}
<1>1. PICK i \in S : TRUE
  BY DEF HasIoctl
<1>2. S \subseteq Nat
  BY LenProperties
<1>3. PICK m \in S : \A j \in S : ~(<<j, m>> \in OpToRel(<, Nat))
  BY <1>1, <1>2, NatLessThanWellFounded, WFMin
<1>4. \A j \in 1 .. m - 1 : ~q[j].is_ioctl
  <2> SUFFICES ASSUME NEW j \in 1 .. m - 1, q[j].is_ioctl PROVE FALSE
    OBVIOUS
  <2>1. m \in Nat /\ j \in Nat /\ j < m /\ j \in S
    BY <1>2, LenProperties
  <2>2. <<j, m>> \in OpToRel(<, Nat)
    BY <2>1 DEF OpToRel
  <2> QED
    BY <1>3, <2>1, <2>2
<1>5. \E j \in 1 .. Len(q) : q[j].is_ioctl /\ \A l \in 1 .. j - 1 : ~q[l].is_ioctl
  BY <1>3, <1>4
<1> QED
  BY <1>5, Zenon DEF FirstIoctl

(* Ending a request keeps the struct well typed, and its queue and tape.   *)
LEMMA BlkMqEndType ==
  ASSUME NEW k \in SectionStruct, NEW status \in {"OK", "IOERR"}
  PROVE  LET h == BlkMqEndRequest(k, status)
         IN  /\ h \in SectionStruct
             /\ h.cmd_queue = k.cmd_queue
             /\ h.current_tape = k.current_tape
<1> DEFINE st == IF k.result = "none" THEN status ELSE k.result
<1>1. k.ends + 1 \in Nat /\ st \in {"none", "OK", "IOERR"}
  BY DEF SectionStruct
<1>2. BlkMqEndRequest(k, status) =
        [k EXCEPT !.ends = k.ends + 1, !.result = st]
  BY DEF BlkMqEndRequest
<1> HIDE DEF st
<1> QED
  BY <1>1, <1>2 DEF SectionStruct

(* Ending a request touches neither the queue nor the tape.                *)
LEMMA EndRequestType ==
  ASSUME NEW k \in SectionStruct, NEW status \in {"OK", "IOERR"}
  PROVE  LET h == EndRequestHelper(k, status)
         IN  /\ h \in SectionStruct
             /\ h.cmd_queue = k.cmd_queue
             /\ h.current_tape = k.current_tape
<1> DEFINE b == BlkMqEndRequest(k, status)
<1>1. b \in SectionStruct /\ b.cmd_queue = k.cmd_queue
        /\ b.current_tape = k.current_tape
  BY BlkMqEndType
<1>2. \/ EndRequestHelper(k, status) = k
      \/ EndRequestHelper(k, status) = [b EXCEPT !.req = NoReq]
  BY Zenon DEF EndRequestHelper
<1> HIDE DEF b
<1> QED
  BY <1>1, <1>2 DEF SectionStruct

(* Aborting a request keeps the struct well typed                          *)
(* (__abort_rest_of_req_cmds).                                             *)
LEMMA AbortType ==
  ASSUME NEW k \in SectionStruct
  PROVE  /\ AbortRestOfReqCmds(k) \in SectionStruct
         /\ AbortRestOfReqCmds(k).current_tape = k.current_tape
<1> DEFINE q == k.cmd_queue
           h == EndRequestHelper(k, "IOERR")
<1>0. q \in Seq(Node)
  BY DEF SectionStruct
<1>1. CASE HasIoctl(q)
  <2>1. SubSeq(q, FirstIoctl(q), Len(q)) \in Seq(Node)
    BY <1>0, <1>1, FirstIoctlExists, SubSeqProperties, LenProperties
  <2>2. /\ AbortRestOfReqCmds(k) =
             [h EXCEPT !.req = NoReq,
                       !.cmd_queue = SubSeq(q, FirstIoctl(q), Len(q))]
        /\ h \in SectionStruct /\ h.current_tape = k.current_tape
    BY <1>1, EndRequestType DEF AbortRestOfReqCmds
  <2> HIDE DEF h, q
  <2> QED
    BY <2>1, <2>2 DEF SectionStruct
<1>2. CASE ~HasIoctl(q)
  <2>1. AbortRestOfReqCmds(k) = [k EXCEPT !.req = NoReq, !.cmd_queue = << >>]
    BY <1>2 DEF AbortRestOfReqCmds
  <2>2. << >> \in Seq(Node)
    BY EmptySeq
  <2> QED
    BY <2>1, <2>2 DEF SectionStruct
<1> QED
  BY <1>1, <1>2

(* Whatever the error, the handler leaves a well-formed section, and the   *)
(* tape it believes in is untouched.                                       *)
LEMMA ErrorType ==
  ASSUME NEW k \in SectionStruct, k.cmd_queue # << >>, NEW status
  PROVE  /\ HandleSectionError(k, status) \in SectionStruct
         /\ HandleSectionError(k, status).current_tape = k.current_tape
<1>0. Tail(k.cmd_queue) \in Seq(Node)
  BY HeadTailProperties DEF SectionStruct
<1>1. CASE status = "NO_TAPE"
  <2> DEFINE head == Head(k.cmd_queue)
             h == [k EXCEPT !.cmd_queue = Tail(@),
                            !.ioctl_cmd_done = @ \/ head.is_ioctl,
                            !.ioctl_status = IF head.is_ioctl THEN "NO_TAPE"
                                             ELSE @]
  <2>1. HandleSectionError(k, status) = h
    BY <1>1 DEF HandleSectionError
  <2>2. h \in SectionStruct /\ h.current_tape = k.current_tape
    BY <1>0 DEF SectionStruct
  <2> QED
    BY <2>1, <2>2
<1>2. CASE status # "NO_TAPE"
  <2>1. \/ HandleSectionError(k, status) = k
        \/ HandleSectionError(k, status) = AbortRestOfReqCmds(k)
        \/ HandleSectionError(k, status) =
             EndRequestHelper(AbortRestOfReqCmds(k), "IOERR")
    BY <1>2, Zenon DEF HandleSectionError
  <2> QED
    BY <2>1, AbortType, EndRequestType
<1> QED
  BY <1>1, <1>2

(* If the device holds the tape the head asked for, the handler of DONE    *)
(* does not give up, and believes in that tape from then on.               *)
LEMMA DoneType ==
  ASSUME NEW k \in SectionStruct, k.cmd_queue # << >>,
         NEW d, d.tape = TapeAfter(Head(k.cmd_queue), k.current_tape)
  PROVE  LET out == HandleSectionDone(k, d, "DONE")
         IN  /\ out.k \in SectionStruct
             /\ out.k.current_tape = d.tape
             /\ out.err = FALSE
<1> DEFINE curr == Head(k.cmd_queue)
           popped == [k EXCEPT !.cmd_queue = Tail(@),
                               !.current_tape = TapeAfter(curr, @)]
           woken == [popped EXCEPT !.ioctl_cmd_done =
                       @ \/ (curr.cmd.op = "EJECT_TAPE" /\ curr.is_ioctl)]
<1>0. curr \in Node /\ Tail(k.cmd_queue) \in Seq(Node)
  BY HeadTailProperties DEF SectionStruct
<1>1. TapeAfter(curr, k.current_tape) \in Nat
  BY <1>0 DEF TapeAfter, Node, Command, SectionStruct
<1>2. popped \in SectionStruct /\ popped.current_tape = d.tape
  BY <1>0, <1>1 DEF SectionStruct
<1>3. woken \in SectionStruct /\ woken.current_tape = d.tape
  <2> HIDE DEF popped
  <2> QED
    BY <1>2 DEF SectionStruct
<1>4. HandleSectionDone(k, d, "DONE") =
        [k |-> EndReqIfCompleted(woken, curr), err |-> FALSE]
  BY <1>2, Zenon DEF HandleSectionDone
<1> HIDE DEF woken, curr
<1>5. \/ EndReqIfCompleted(woken, curr) = woken
      \/ EndReqIfCompleted(woken, curr) = EndRequestHelper(woken, "OK")
  BY Zenon DEF EndReqIfCompleted
<1> QED
  BY <1>3, <1>4, <1>5, EndRequestType

(* Clearing a bit: the section stays consistent and has no bit left.       *)
LEMMA ClearType ==
  ASSUME NEW d, DeviceConsistent(d), NEW e,
         \/ d.err /\ e = ClearErr(d)
         \/ d.done /\ e = ClearDone(d)
  PROVE  /\ DeviceConsistent(e)
         /\ ~e.done /\ ~e.err
         /\ e.state = d.state /\ e.state # "busy" /\ e.tape = d.tape
BY DEF ClearErr, ClearDone, DeviceConsistent, SectionState

(* A report that is true is handled: the bit goes, the driver knows the    *)
(* tape, and is told to start the next command.                            *)
LEMMA HandleReport ==
  ASSUME NEW d, NEW k, Good(d, k), NEW isErr \in BOOLEAN,
         IF isErr THEN d.err ELSE d.done
  PROVE  LET out == HandleSectionInterrupt(k, d, d.status, isErr)
         IN  /\ out.next
             /\ out.k \in SectionStruct
             /\ DeviceConsistent(out.d)
             /\ ~out.d.done /\ ~out.d.err /\ out.d.state # "busy"
             /\ out.d.tape = out.k.current_tape
<1> DEFINE out == HandleSectionInterrupt(k, d, d.status, isErr)
<1>0. /\ DeviceConsistent(d) /\ k \in SectionStruct /\ k.cmd_queue # << >>
      /\ d.status # "WORKING" /\ d.tape = TapeNow(d, k)
  BY DEF Good, Matches, DeviceConsistent, ErrorStatus
<1>1. CASE isErr
  <2>1. out = [k |-> HandleSectionError(k, d.status), d |-> ClearErr(d),
               next |-> TRUE]
    BY <1>0, <1>1 DEF HandleSectionInterrupt
  <2>2. d.err /\ d.tape = k.current_tape
    BY <1>0, <1>1 DEF TapeNow, DeviceConsistent
  <2> QED
    BY <1>0, <2>1, <2>2, ErrorType, ClearType
<1>2. CASE ~isErr
  <2>1. d.done /\ d.status = "DONE"
    BY <1>0, <1>2 DEF DeviceConsistent
  <2>2. d.tape = TapeAfter(Head(k.cmd_queue), k.current_tape)
    BY <1>0, <2>1 DEF TapeNow, TapeAfter
  <2> DEFINE res == HandleSectionDone(k, d, "DONE")
  <2>3. /\ res.k \in SectionStruct /\ res.k.current_tape = d.tape
        /\ res.err = FALSE
    BY <1>0, <2>2, DoneType
  <2>4. out = [k |-> res.k, d |-> ClearDone(d), next |-> ~res.err]
    BY <1>0, <1>2, <2>1 DEF HandleSectionInterrupt
  <2> HIDE DEF res
  <2>5. out = [k |-> res.k, d |-> ClearDone(d), next |-> TRUE]
    BY <2>3, <2>4
  <2> HIDE DEF out
  <2> QED
    BY <1>0, <2>1, <2>3, <2>5, ClearType DEF out
<1> QED
  BY <1>1, <1>2

(* Starting the head of the queue on a section that has nothing to report. *)
LEMMA SendHead ==
  ASSUME NEW d, DeviceConsistent(d), ~d.done, ~d.err, d.state # "busy",
         NEW k \in SectionStruct, d.tape = k.current_tape
  PROVE  IF k.cmd_queue # << >> THEN Good(Exec(d, Head(k.cmd_queue).cmd), k)
         ELSE Good(d, k)
<1>1. CASE k.cmd_queue = << >>
  BY <1>1 DEF Good, Matches, TapeNow
<1>2. CASE k.cmd_queue # << >>
  <2>1. Head(k.cmd_queue).cmd \in Command
    <3>1. Head(k.cmd_queue) \in Node
      BY <1>2, HeadTailProperties DEF SectionStruct
    <3> QED
      BY <3>1 DEF Node
  <2> DEFINE e == Exec(d, Head(k.cmd_queue).cmd)
  <2>2. /\ DeviceConsistent(e) /\ e.tape = d.tape /\ ~e.done
        /\ e.state = "busy" => e.cmd = Head(k.cmd_queue).cmd
        /\ e.state = "idle" => e.err
        /\ e.state = "dead" => ~e.err
    BY <2>1, ExecStarts
  <2> HIDE DEF e
  <2> QED
    BY <1>2, <2>2 DEF Good, Matches, TapeNow, e
<1> QED
  BY <1>1, <1>2

(* Appending to the queue of a good section leaves it good.  A section     *)
(* that has something to report keeps its device state.                    *)
LEMMA AppendGood ==
  ASSUME NEW d, NEW k, Good(d, k), NEW h \in SectionStruct,
         NEW nodes \in Seq(Node), nodes # << >>,
         h.cmd_queue = k.cmd_queue \o nodes, h.current_tape = k.current_tape
  PROVE  LET e == IF k.cmd_queue = << >> THEN Exec(d, nodes[1].cmd) ELSE d
         IN  Good(e, h) /\ (d.done \/ d.err => e = d)
<1> DEFINE q == k.cmd_queue
<1>0. /\ k \in SectionStruct /\ q \in Seq(Node) /\ DeviceConsistent(d)
      /\ Matches(d, q) /\ d.tape = TapeNow(d, k)
  BY DEF Good, SectionStruct
<1>1. CASE q = << >>
  <2>1. h.cmd_queue = nodes /\ Head(nodes) = nodes[1]
    BY <1>1, ConcatProperties, HeadTailProperties
  <2>2. ~d.done /\ ~d.err /\ d.state # "busy" /\ d.tape = k.current_tape
    BY <1>0, <1>1 DEF Matches, TapeNow
  <2> QED
    BY <1>0, <1>1, <2>1, <2>2, SendHead
<1>2. CASE q # << >>
  <2>1. h.cmd_queue # << >> /\ Head(h.cmd_queue) = Head(q)
    BY <1>0, <1>2, ConcatProperties, HeadTailProperties
  <2> QED
    BY <1>0, <1>2, <2>1 DEF Good, Matches, TapeNow
<1> QED
  BY <1>1, <1>2

-----------------------------------------------------------------------------
(* Steps of the system.                                                    *)

(* A change of section s that keeps it good keeps them all good.           *)
LEMMA OneSection ==
  ASSUME IInv, NEW s \in Sections, NEW d, NEW k, Good(d, k),
         dev' = [dev EXCEPT ![s] = d], sec' = [sec EXCEPT ![s] = k]
  PROVE  /\ dev' \in [Sections -> SectionState]
         /\ sec' \in [Sections -> SectionStruct]
         /\ \A x \in Sections : Good(dev'[x], sec'[x])
         /\ \A x \in Sections \ {s} : dev'[x] = dev[x]
         /\ dev'[s] = d
<1>1. dev \in [Sections -> SectionState] /\ sec \in [Sections -> SectionStruct]
  BY DEF IInv, TypeOK, DeviceTypeOK
<1>2. d \in SectionState /\ k \in SectionStruct
  BY DEF Good, DeviceConsistent
<1>3. \A x \in Sections : Good(dev[x], sec[x])
  BY DEF IInv
<1>4. \A x \in Sections : /\ dev'[x] = IF x = s THEN d ELSE dev[x]
                          /\ sec'[x] = IF x = s THEN k ELSE sec[x]
  BY <1>1
<1> QED
  BY <1>1, <1>2, <1>3, <1>4

(* The snapshot of a handler that does not move stays true as long as      *)
(* nobody else touches the device of a section that has reported.          *)
LEMMA SectionStep ==
  ASSUME IInv, NEW s \in Sections, NEW d, NEW k, Good(d, k),
         dev' = [dev EXCEPT ![s] = d], sec' = [sec EXCEPT ![s] = k],
         dev[s].done \/ dev[s].err => d = dev[s],
         isr' = isr, line' \in BOOLEAN,
         blk' \in [Sections -> BlockLayer], Building'
  PROVE  IInv'
<1>1. /\ dev' \in [Sections -> SectionState]
      /\ sec' \in [Sections -> SectionStruct]
      /\ \A x \in Sections : Good(dev'[x], sec'[x])
      /\ \A x \in Sections \ {s} : dev'[x] = dev[x]
      /\ dev'[s] = d
  BY OneSection
<1>2. \A x \in Sections : dev[x].done \/ dev[x].err => dev'[x] = dev[x]
  BY <1>1
<1>3. isr' \in Handler
  BY DEF IInv, TypeOK
<1>4. TypeOK'
  BY <1>1, <1>3 DEF TypeOK, DeviceTypeOK
<1>5. HandlerHasWork'
  BY DEF IInv, HandlerHasWork
<1>6. SnapshotStillTrue'
  <2>1. \A x \in Sections : ~(dev'[x].done /\ dev'[x].err)
    BY <1>1 DEF Good, DeviceConsistent
  <2> SUFFICES ASSUME isr.pc # "off" PROVE SnapshotStillTrue!2'
    BY DEF SnapshotStillTrue
  <2>2. SnapshotStillTrue!2
    BY DEF IInv, SnapshotStillTrue
  <2>3. ASSUME NEW x \in Sections, x >= isr.sec_id
        PROVE  /\ x \in isr.done => dev'[x].done /\ dev'[x].status = "DONE"
               /\ x \in isr.err =>
                    dev'[x].err /\ dev'[x].status \in ErrorStatus
    BY <1>2, <2>2, <2>3
  <2>4. isr.pc = "handle" => isr.status = dev'[isr.sec_id].status
    <3> SUFFICES ASSUME isr.pc = "handle" PROVE <2>4!2
      OBVIOUS
    <3>1. isr.sec_id \in Sections /\ isr.sec_id >= isr.sec_id
      BY DeviceAssumption DEF IInv, TypeOK, Handler, Sections
    <3>2. isr.sec_id \in isr.done \cup isr.err
      BY DEF IInv, HandlerHasWork
    <3> QED
      BY <1>2, <2>2, <3>1, <3>2
  <2> QED
    BY <2>1, <2>3, <2>4
<1> QED
  BY <1>1, <1>4, <1>5, <1>6 DEF IInv

(* The same when only fields of the section other than the queue and the   *)
(* tape change.                                                            *)
LEMMA FieldStep ==
  ASSUME IInv, NEW s \in Sections, NEW h \in SectionStruct,
         h.cmd_queue = sec[s].cmd_queue,
         h.current_tape = sec[s].current_tape,
         sec' = [sec EXCEPT ![s] = h],
         UNCHANGED <<dev, line, isr>>,
         blk' \in [Sections -> BlockLayer], Building'
  PROVE  IInv'
<1>1. Good(dev[s], h)
  BY DEF IInv, Good, TapeNow
<1>2. dev' = [dev EXCEPT ![s] = dev[s]]
  BY DEF IInv, TypeOK, DeviceTypeOK
<1>3. line' \in BOOLEAN
  BY DEF IInv, TypeOK, DeviceTypeOK
<1> QED
  BY <1>1, <1>2, <1>3, SectionStep

(* Appending commands under the lock.                                      *)
LEMMA EnqueueStep ==
  ASSUME IInv, NEW s \in Sections, NEW k \in SectionStruct,
         k.current_tape = sec[s].current_tape,
         NEW nodes \in Seq(Node), nodes # << >>,
         Enqueue(s, nodes, k), isr' = isr,
         blk' \in [Sections -> BlockLayer], Building'
  PROVE  IInv'
<1> DEFINE h == [k EXCEPT !.cmd_queue = sec[s].cmd_queue \o nodes]
           d == IF sec[s].cmd_queue = << >> THEN Exec(dev[s], nodes[1].cmd)
                ELSE dev[s]
<1>0. Good(dev[s], sec[s]) /\ sec[s].cmd_queue \in Seq(Node)
  BY DEF IInv, Good, SectionStruct
<1>1. sec[s].cmd_queue \o nodes \in Seq(Node)
  BY <1>0, ConcatProperties
<1>2. /\ h \in SectionStruct /\ h.current_tape = sec[s].current_tape
      /\ h.cmd_queue = sec[s].cmd_queue \o nodes
  BY <1>1 DEF SectionStruct
<1>3. sec' = [sec EXCEPT ![s] = h] /\ dev' = [dev EXCEPT ![s] = d]
  BY DEF Enqueue
<1>4. line' \in BOOLEAN
  BY DEF Enqueue
<1> HIDE DEF h
<1>5. Good(d, h) /\ (dev[s].done \/ dev[s].err => d = dev[s])
  BY <1>0, <1>2, AppendGood
<1> HIDE DEF d
<1> QED
  BY <1>3, <1>4, <1>5, SectionStep

(* A request is a real one: queue_rq makes at least one command of it.     *)
LEMMA RealRequest ==
  ASSUME NEW r \in Requests
  PROVE  /\ r.plan \in Seq(Command) /\ r.plan # << >> /\ r.size \in Nat
         /\ r # NoReq
<1>1. r.plan \in Seq(Command) /\ r.size \in Nat /\ PlanShape(r.plan, r.size)
  BY DriverAssumption
<1>2. r.plan # << >>
  BY <1>1, Zenon DEF PlanShape
<1> QED
  BY <1>1, <1>2 DEF NoReq

(* What queue_rq appends is a non-empty list of nodes.                     *)
LEMMA NodesOfRequest ==
  ASSUME NEW r \in Requests
  PROVE  RequestNodes(r) \in Seq(Node) /\ RequestNodes(r) # << >>
<1>1. r.plan \in Seq(Command) /\ r.plan # << >>
  BY RealRequest
<1>2. Len(r.plan) \in Nat /\ Len(r.plan) # 0
        /\ \A j \in 1 .. Len(r.plan) : r.plan[j] \in Command
  BY <1>1, LenProperties, ElementOfSeq, EmptySeq
<1>3. RequestNodes(r) \in [1 .. Len(r.plan) -> Node]
  BY <1>2 DEF RequestNodes, Node
<1>4. RequestNodes(r) \in Seq(Node) /\ Len(RequestNodes(r)) = Len(r.plan)
  BY <1>2, <1>3, IsASeq, LenProperties
<1> QED
  BY <1>2, <1>4, EmptySeq

(* The initial states: idle sections, empty queues.                        *)
LEMMA InitGood == Init => IInv
<1> SUFFICES ASSUME Init PROVE IInv
  OBVIOUS
<1>1. ASSUME NEW s \in Sections
      PROVE  /\ dev[s] \in SectionState /\ dev[s].state = "idle"
             /\ ~dev[s].done /\ ~dev[s].err
  <2>1. PICK t \in 0 .. NTapes, f \in [1 .. NTapes -> {0, TapeBlocks}] :
          dev[s] = InitialSection(t, f)
    BY DEF Init, DeviceInit
  <2>2. (IF t = 0 THEN 0 ELSE f[t]) \in Nat /\ f \in [1 .. NTapes -> Nat]
    BY GeometryAssumption
  <2> QED
    BY <2>1, <2>2 DEF InitialSection, SectionState, Status
<1>2. dev \in [Sections -> SectionState]
  <2>1. dev = [s \in Sections |-> dev[s]]
    BY DEF Init, DeviceInit
  <2> QED
    BY <1>1, <2>1
<1>3. ASSUME NEW s \in Sections
      PROVE  Good(dev[s], sec[s])
  <2>1. dev[s].tape \in Nat
    BY <1>1, GeometryAssumption DEF SectionState
  <2>2. << >> \in Seq(Node)
    BY EmptySeq
  <2>3. sec[s] \in SectionStruct /\ sec[s].cmd_queue = << >>
          /\ sec[s].current_tape = dev[s].tape
    BY <2>1, <2>2 DEF Init, SectionStruct
  <2> QED
    BY <1>1, <2>3 DEF Good, DeviceConsistent, Matches, TapeNow
<1>4. sec \in [Sections -> SectionStruct]
  BY <1>3, Zenon DEF Init, Good
<1>5. blk \in [Sections -> BlockLayer] /\ Building
  BY DEF Init, BlockLayer, Building
<1>6. isr \in Handler /\ isr.pc = "off"
  BY DeviceAssumption DEF Init, HandlerOff, Handler, Sections, Status
<1>7. line \in BOOLEAN
  BY DEF Init, DeviceInit
<1> QED
  BY <1>2, <1>3, <1>4, <1>5, <1>6, <1>7
     DEF IInv, TypeOK, DeviceTypeOK, SnapshotStillTrue, HandlerHasWork

(* The steps of the block layer and of queue_rq.                           *)
LEMMA BlockLayerSteps ==
  ASSUME IInv, NEW s \in Sections,
         \/ \E r \in Requests : QueueRq(s, r)
         \/ SubmitCommands(s) \/ SubmitFails(s) \/ QueueRqReturnsError(s)
  PROVE  IInv'
<1>0. /\ sec \in [Sections -> SectionStruct] /\ sec[s] \in SectionStruct
      /\ blk \in [Sections -> BlockLayer] /\ blk[s] \in BlockLayer /\ Building
  BY DEF IInv, TypeOK
<1>1. ASSUME NEW r \in Requests, QueueRq(s, r)
      PROVE  IInv'
  <2> DEFINE h == [sec[s] EXCEPT !.req = r, !.ends = 0, !.result = "none"]
  <2>1. /\ h \in SectionStruct /\ h.cmd_queue = sec[s].cmd_queue
        /\ h.current_tape = sec[s].current_tape
    BY <1>0 DEF SectionStruct
  <2>2. sec' = [sec EXCEPT ![s] = h] /\ UNCHANGED <<dev, line, isr>>
    BY <1>1 DEF QueueRq
  <2>3. blk' \in [Sections -> BlockLayer] /\ Building'
    BY <1>0, <1>1 DEF QueueRq, BlockLayer, Building
  <2> HIDE DEF h
  <2> QED
    BY <2>1, <2>2, <2>3, FieldStep
<1>2. CASE SubmitCommands(s)
  <2>1. blk[s].rq \in Requests
    BY <1>0, <1>2 DEF SubmitCommands, Building
  <2>2. blk' \in [Sections -> BlockLayer] /\ Building'
    BY <1>0, <1>2 DEF SubmitCommands, BlockLayer, Building
  <2>3. Enqueue(s, RequestNodes(blk[s].rq), sec[s]) /\ isr' = isr
    BY <1>2 DEF SubmitCommands
  <2> QED
    BY <1>0, <2>1, <2>2, <2>3, NodesOfRequest, EnqueueStep
<1>3. CASE SubmitFails(s)
  <2> DEFINE h == EndRequestHelper(sec[s], "IOERR")
  <2>1. /\ h \in SectionStruct /\ h.cmd_queue = sec[s].cmd_queue
        /\ h.current_tape = sec[s].current_tape
    BY <1>0, EndRequestType
  <2>2. sec' = [sec EXCEPT ![s] = h] /\ UNCHANGED <<dev, line, isr>>
    BY <1>3, Zenon DEF SubmitFails, EndRequestHelper
  <2>3. blk' \in [Sections -> BlockLayer] /\ Building'
    BY <1>0, <1>3 DEF SubmitFails, BlockLayer, Building
  <2> HIDE DEF h
  <2> QED
    BY <2>1, <2>2, <2>3, FieldStep
<1>4. CASE QueueRqReturnsError(s)
  <2> DEFINE h == BlkMqEndRequest(sec[s], "IOERR")
  <2>1. /\ h \in SectionStruct /\ h.cmd_queue = sec[s].cmd_queue
        /\ h.current_tape = sec[s].current_tape
    BY <1>0, BlkMqEndType
  <2>2. sec' = [sec EXCEPT ![s] = h] /\ UNCHANGED <<dev, line, isr>>
    BY <1>4 DEF QueueRqReturnsError
  <2>3. blk' \in [Sections -> BlockLayer] /\ Building'
    BY <1>0, <1>4 DEF QueueRqReturnsError, BlockLayer, Building
  <2> HIDE DEF h
  <2> QED
    BY <2>1, <2>2, <2>3, FieldStep
<1> QED
  BY <1>1, <1>2, <1>3, <1>4

(* Taking a completion changes neither the queue nor the tape.             *)
LEMMA ConsumeType ==
  ASSUME NEW k \in SectionStruct, NEW t
  PROVE  LET c == ConsumeEject(k, t)
         IN  /\ c \in SectionStruct /\ c.cmd_queue = k.cmd_queue
             /\ c.current_tape = k.current_tape
<1>1. k.ejection_cmds - 1 \in Int /\ k.wait_q \ {t} \in SUBSET Threads
  BY DEF SectionStruct
<1>2. ConsumeEject(k, t) =
        [k EXCEPT !.ejection_cmds = k.ejection_cmds - 1,
                  !.ioctl_cmd_done = FALSE, !.ioctl_status = "OK",
                  !.wait_q = k.wait_q \ {t}]
  BY DEF ConsumeEject
<1> QED
  BY <1>1, <1>2 DEF SectionStruct

(* The struct a call of the ioctl appends its command to.                  *)
LEMMA EjectKeepsType ==
  ASSUME NEW k0 \in SectionStruct, NEW t \in Threads
  PROVE  LET k == [k0 EXCEPT !.ejection_cmds = @ + 1, !.wait_q = @ \cup {t}]
             h == IF k.ioctl_cmd_done THEN ConsumeEject(k, t) ELSE k
         IN  h \in SectionStruct /\ h.current_tape = k0.current_tape
<1> DEFINE k == [k0 EXCEPT !.ejection_cmds = @ + 1, !.wait_q = @ \cup {t}]
<1>1. /\ k0.ejection_cmds + 1 \in Int
      /\ k0.wait_q \cup {t} \in SUBSET Threads
  BY DEF SectionStruct
<1>2. k = [k0 EXCEPT !.ejection_cmds = k0.ejection_cmds + 1,
                     !.wait_q = k0.wait_q \cup {t}]
  OBVIOUS
<1> HIDE DEF k
<1>3. k \in SectionStruct /\ k.current_tape = k0.current_tape
  BY <1>1, <1>2 DEF SectionStruct
<1> QED
  BY <1>3, ConsumeType DEF k

(* The steps of threads in the EJECT ioctl.                                *)
LEMMA EjectSteps ==
  ASSUME IInv, NEW s \in Sections, NEW t \in Threads,
         EjectIoctl(t, s) \/ EjectReturn(t, s) \/ EjectInterrupted(t, s)
  PROVE  IInv'
<1>0. /\ sec[s] \in SectionStruct
      /\ blk \in [Sections -> BlockLayer] /\ Building
  BY DEF IInv, TypeOK
<1>2. CASE EjectIoctl(t, s)
  <2> DEFINE k == [sec[s] EXCEPT !.ejection_cmds = @ + 1,
                                 !.wait_q = @ \cup {t}]
             h == IF k.ioctl_cmd_done THEN ConsumeEject(k, t) ELSE k
  <2>2. Enqueue(s, <<EjectNode>>, h) /\ UNCHANGED <<blk, isr>>
    BY <1>2 DEF EjectIoctl
  <2>3. h \in SectionStruct /\ h.current_tape = sec[s].current_tape
    BY <1>0, EjectKeepsType
  <2>4. <<EjectNode>> \in Seq(Node) /\ <<EjectNode>> # << >>
    BY DEF EjectNode, Node, Command, Ops
  <2>5. blk' \in [Sections -> BlockLayer] /\ Building'
    BY <1>0, <2>2 DEF Building
  <2> HIDE DEF h
  <2> QED
    BY <2>2, <2>3, <2>4, <2>5, EnqueueStep
<1>3. CASE EjectReturn(t, s) \/ EjectInterrupted(t, s)
  <2>1. PICK h \in SectionStruct :
          /\ h.cmd_queue = sec[s].cmd_queue
          /\ h.current_tape = sec[s].current_tape
          /\ sec' = [sec EXCEPT ![s] = h]
    <3>1. CASE EjectReturn(t, s)
      BY <1>0, <3>1, ConsumeType DEF EjectReturn
    <3>2. CASE EjectInterrupted(t, s)
      <4> DEFINE h == [sec[s] EXCEPT !.wait_q = @ \ {t}]
      <4>1. /\ h \in SectionStruct /\ h.cmd_queue = sec[s].cmd_queue
            /\ h.current_tape = sec[s].current_tape
        <5>1. sec[s].wait_q \ {t} \in SUBSET Threads
          BY <1>0 DEF SectionStruct
        <5>2. h = [sec[s] EXCEPT !.wait_q = sec[s].wait_q \ {t}]
          OBVIOUS
        <5> HIDE DEF h
        <5> QED
          BY <1>0, <5>1, <5>2 DEF SectionStruct
      <4>2. sec' = [sec EXCEPT ![s] = h]
        BY <3>2 DEF EjectInterrupted
      <4> QED
        BY <4>1, <4>2
    <3> QED
      BY <1>3, <3>1, <3>2
  <2>2. UNCHANGED <<dev, line, blk, isr>>
    BY <1>3 DEF EjectReturn, EjectInterrupted
  <2>3. blk' \in [Sections -> BlockLayer] /\ Building'
    BY <1>0, <2>2 DEF Building
  <2> QED
    BY <2>1, <2>2, <2>3, FieldStep
<1> QED
  BY <1>2, <1>3

(* A timer step of the device.                                             *)
LEMMA TickStep ==
  ASSUME IInv, NEW s \in Sections, Tick(s)
  PROVE  IInv'
<1>0. /\ Good(dev[s], sec[s]) /\ dev[s].state = "busy"
      /\ sec \in [Sections -> SectionStruct]
      /\ blk \in [Sections -> BlockLayer] /\ Building /\ line \in BOOLEAN
  BY DEF IInv, TypeOK, DeviceTypeOK, Tick
<1>1. PICK e \in TickOutcomes(dev[s]) :
        /\ dev' = [dev EXCEPT ![s] = e]
        /\ line' = (line \/ TickRaises(dev[s], e))
        /\ blk' = [blk EXCEPT ![s].moved =
                     IF Transferred(dev[s], e) THEN @ + 1 ELSE @]
  BY DEF Tick
<1>2. Ticked(dev[s], e, TapeWhenDone(dev[s]))
  BY <1>0, <1>1, TickTicks DEF Good
<1>3. Good(e, sec[s])
  <2>1. /\ sec[s].cmd_queue # << >> /\ ~dev[s].done
        /\ dev[s].cmd = Head(sec[s].cmd_queue).cmd
        /\ dev[s].tape = sec[s].current_tape
    BY <1>0 DEF Good, Matches, DeviceConsistent, TapeNow
  <2>2. e.tape = TapeNow(e, sec[s])
    BY <1>2, <2>1 DEF Ticked, TapeNow, TapeWhenDone, DeviceConsistent
  <2>3. Matches(e, sec[s].cmd_queue)
    BY <1>2, <2>1 DEF Ticked, Matches
  <2> QED
    BY <1>0, <1>2, <2>2, <2>3 DEF Good, Ticked
<1>4. sec' = [sec EXCEPT ![s] = sec[s]] /\ isr' = isr
  BY <1>0 DEF Tick
<1>5. line' \in BOOLEAN
  BY <1>1
<1>6. blk' \in [Sections -> BlockLayer] /\ Building'
  <2> DEFINE m == IF Transferred(dev[s], e) THEN blk[s].moved + 1
                  ELSE blk[s].moved
  <2>1. m \in Nat
    BY <1>0 DEF BlockLayer
  <2>2. blk' = [blk EXCEPT ![s] = [blk[s] EXCEPT !.moved = m]]
    BY <1>1
  <2> DEFINE b == [blk[s] EXCEPT !.moved = m]
  <2> HIDE DEF m
  <2>3. b \in BlockLayer /\ b.pc = blk[s].pc /\ b.rq = blk[s].rq
    BY <1>0, <2>1 DEF BlockLayer
  <2> HIDE DEF b
  <2>4. blk' = [blk EXCEPT ![s] = b]
    BY <2>2 DEF b
  <2> QED
    BY <1>0, <2>3, <2>4 DEF Building
<1>7. ~dev[s].done /\ ~dev[s].err
  BY <1>0 DEF Good, DeviceConsistent
<1> QED
  BY <1>1, <1>3, <1>4, <1>5, <1>6, <1>7, SectionStep

(* The handler goes on to the next section, or is done.                    *)
LEMMA AdvanceType ==
  ASSUME NEW h \in Handler
  PROVE  LET g == IsrAdvance(h)
         IN  /\ g \in Handler
             /\ g.pc # "handle"
             /\ g.pc # "off" => /\ g.sec_id = h.sec_id + 1
                                /\ g.done = h.done /\ g.err = h.err
<1>1. CASE h.sec_id + 1 \in Sections
  BY <1>1 DEF IsrAdvance, Handler
<1>2. CASE h.sec_id + 1 \notin Sections
  <2>1. 0 \in Sections /\ "IDLE" \in Status
    BY DeviceAssumption DEF Sections, Status
  <2> QED
    BY <1>2, <2>1 DEF IsrAdvance, HandlerOff, Handler
<1> QED
  BY <1>1, <1>2

(* What a step of the handler that leaves the sections behind it alone has *)
(* to show.                                                                *)
LEMMA AdvanceStep ==
  ASSUME IInv, isr.pc # "off", NEW status \in Status,
         isr' = IsrAdvance([isr EXCEPT !.status = status]),
         \A x \in Sections : x > isr.sec_id => dev'[x] = dev[x],
         \A x \in Sections : ~(dev'[x].done /\ dev'[x].err)
  PROVE  isr' \in Handler /\ SnapshotStillTrue' /\ HandlerHasWork'
<1> DEFINE h == [isr EXCEPT !.status = status]
<1>1. /\ h \in Handler /\ isr.sec_id \in Sections /\ h.sec_id = isr.sec_id
      /\ h.done = isr.done /\ h.err = isr.err
  BY DEF IInv, TypeOK, Handler
<1> HIDE DEF h
<1>2. /\ isr' \in Handler
      /\ isr'.pc # "handle"
      /\ isr'.pc # "off" => /\ isr'.sec_id = isr.sec_id + 1
                            /\ isr'.done = isr.done /\ isr'.err = isr.err
  BY <1>1, AdvanceType DEF h
<1>3. SnapshotStillTrue!2
  BY DEF IInv, SnapshotStillTrue
<1>4. ASSUME isr'.pc # "off", NEW x \in Sections, x >= isr'.sec_id
      PROVE  /\ x \in isr'.done => dev'[x].done /\ dev'[x].status = "DONE"
             /\ x \in isr'.err => dev'[x].err /\ dev'[x].status \in ErrorStatus
  <2>1. x > isr.sec_id /\ x >= isr.sec_id
    BY <1>1, <1>2, <1>4, DeviceAssumption DEF Sections
  <2> QED
    BY <1>2, <1>3, <1>4, <2>1
<1> QED
  BY <1>2, <1>4 DEF SnapshotStillTrue, HandlerHasWork

(* The section the handler is about to handle has reported, and what the   *)
(* handler read of it is still so.                                         *)
LEMMA HandledHasReported ==
  ASSUME IInv, isr.pc = "handle"
  PROVE  LET s == isr.sec_id
         IN  /\ s \in Sections
             /\ Good(dev[s], sec[s])
             /\ isr.status = dev[s].status
             /\ IF s \in isr.err THEN dev[s].err ELSE dev[s].done
             /\ dev[s].state # "busy"
<1> DEFINE s == isr.sec_id
<1>1. s \in Sections /\ s >= s
  BY DeviceAssumption DEF IInv, TypeOK, Handler, Sections
<1>2. SnapshotStillTrue!2 /\ s \in isr.done \cup isr.err
  BY DEF IInv, SnapshotStillTrue, HandlerHasWork
<1>3. Good(dev[s], sec[s]) /\ isr.status = dev[s].status
  BY <1>1, <1>2 DEF IInv
<1>4. (s \in isr.done => dev[s].done) /\ (s \in isr.err => dev[s].err)
  BY <1>1, <1>2
<1>5. dev[s].state # "busy"
  BY <1>2, <1>3, <1>4 DEF Good, DeviceConsistent
<1> QED
  BY <1>1, <1>2, <1>3, <1>4, <1>5

(* The body of the handler for one section.                                *)
LEMMA HandleStep ==
  ASSUME IInv, IsrHandle
  PROVE  IInv'
<1> DEFINE s == isr.sec_id
           out == HandleSectionInterrupt(sec[s], dev[s], isr.status,
                                         s \in isr.err)
           c == Head(out.k.cmd_queue).cmd
           sends == out.next /\ out.k.cmd_queue # << >>
           d == IF sends THEN Exec(out.d, c) ELSE out.d
<1>0. s \in Sections /\ isr.status \in Status /\ isr.pc = "handle"
  BY DEF IInv, TypeOK, Handler, IsrHandle
<1>1. /\ Good(dev[s], sec[s])
      /\ isr.status = dev[s].status
      /\ IF s \in isr.err THEN dev[s].err ELSE dev[s].done
  BY <1>0, HandledHasReported
<1>2. /\ out.next /\ out.k \in SectionStruct /\ DeviceConsistent(out.d)
      /\ ~out.d.done /\ ~out.d.err /\ out.d.state # "busy"
      /\ out.d.tape = out.k.current_tape
  <2> DEFINE isErr == s \in isr.err
  <2>1. isErr \in BOOLEAN /\ IF isErr THEN dev[s].err ELSE dev[s].done
    BY <1>1
  <2>2. out = HandleSectionInterrupt(sec[s], dev[s], dev[s].status, isErr)
    BY <1>1
  <2> HIDE DEF isErr, out
  <2> QED
    BY <1>1, <2>1, <2>2, HandleReport
<1>3. /\ isr' = IsrAdvance(isr) /\ sec' = [sec EXCEPT ![s] = out.k]
      /\ dev' = [dev EXCEPT ![s] = d] /\ UNCHANGED blk
  BY DEF IsrHandle
<1>4. line' \in BOOLEAN
  BY DEF IsrHandle
<1> HIDE DEF out, s
<1>5. Good(d, out.k)
  BY <1>2, SendHead
<1> HIDE DEF d
<1>6. /\ dev' \in [Sections -> SectionState]
      /\ sec' \in [Sections -> SectionStruct]
      /\ \A x \in Sections : Good(dev'[x], sec'[x])
      /\ \A x \in Sections \ {s} : dev'[x] = dev[x]
  BY <1>0, <1>3, <1>5, OneSection
<1>7. isr' \in Handler /\ SnapshotStillTrue' /\ HandlerHasWork'
  <2>1. isr = [isr EXCEPT !.status = isr.status]
    BY DEF IInv, TypeOK, Handler
  <2>2. \A x \in Sections : x > isr.sec_id => dev'[x] = dev[x]
    BY <1>0, <1>6, DeviceAssumption DEF Sections, s
  <2>3. \A x \in Sections : ~(dev'[x].done /\ dev'[x].err)
    BY <1>6 DEF Good, DeviceConsistent
  <2> QED
    BY <1>0, <1>3, <2>1, <2>2, <2>3, AdvanceStep
<1>8. blk' \in [Sections -> BlockLayer] /\ Building'
  BY <1>3 DEF IInv, TypeOK, Building
<1> QED
  BY <1>4, <1>6, <1>7, <1>8 DEF IInv, TypeOK, DeviceTypeOK

(* The handler's steps that change nothing but its locals.                 *)
LEMMA HandlerSteps ==
  ASSUME IInv, IsrEnter \/ IsrSpurious \/ IsrReadStatus
  PROVE  IInv'
<1>0. UNCHANGED <<dev, line, sec, blk>>
  BY DEF IsrEnter, IsrSpurious, IsrSnapshot, IsrReadStatus
<1>1. \A x \in Sections : DeviceConsistent(dev[x])
  BY DEF IInv, Good
<1>2. SUFFICES isr' \in Handler /\ SnapshotStillTrue' /\ HandlerHasWork'
  BY <1>0 DEF IInv, TypeOK, DeviceTypeOK, Building
<1>3. CASE IsrSnapshot
  <2> DEFINE D == {x \in Sections : dev[x].done}
             E == {x \in Sections : dev[x].err}
  <2>1. isr' = [pc |-> "read", done |-> D, err |-> E, sec_id |-> 0,
                status |-> "IDLE"]
    BY <1>3 DEF IsrSnapshot, HandlerOff
  <2>2. isr' \in Handler
    BY <2>1, DeviceAssumption DEF Handler, Sections, Status
  <2> QED
    BY <1>0, <1>1, <2>1, <2>2
       DEF SnapshotStillTrue, HandlerHasWork, DeviceConsistent
<1>4. CASE IsrReadStatus
  <2> DEFINE s == isr.sec_id
             h == [isr EXCEPT !.status = dev[s].status]
  <2>0. isr \in Handler /\ s \in Sections /\ dev[s].status \in Status
    BY <1>1 DEF IInv, TypeOK, Handler, DeviceConsistent, SectionState
  <2>1. CASE s \in isr.done \cup isr.err
    <3>1. isr' = [h EXCEPT !.pc = "handle"] /\ isr.pc = "read"
      BY <1>4, <2>1 DEF IsrReadStatus
    <3>2. /\ isr' \in Handler /\ isr'.pc = "handle" /\ isr'.sec_id = s
          /\ isr'.done = isr.done /\ isr'.err = isr.err
          /\ isr'.status = dev[s].status
      BY <2>0, <3>1 DEF Handler
    <3>3. SnapshotStillTrue!2
      BY <3>1 DEF IInv, SnapshotStillTrue
    <3> QED
      BY <1>0, <2>1, <3>2, <3>3 DEF SnapshotStillTrue, HandlerHasWork
  <2>2. CASE s \notin isr.done \cup isr.err
    <3>1. isr' = IsrAdvance(h) /\ isr.pc = "read"
      BY <1>4, <2>2 DEF IsrReadStatus
    <3>2. \A x \in Sections : ~(dev'[x].done /\ dev'[x].err)
      BY <1>0, <1>1 DEF DeviceConsistent
    <3> QED
      BY <1>0, <2>0, <3>1, <3>2, AdvanceStep
  <2> QED
    BY <2>1, <2>2
<1> QED
  BY <1>3, <1>4 DEF IsrEnter, IsrSpurious

(* IInv is inductive.                                                      *)
LEMMA StepGood == IInv /\ [Next]_vars => IInv'
<1> SUFFICES ASSUME IInv, [Next]_vars PROVE IInv'
  OBVIOUS
<1>1. CASE UNCHANGED vars
  BY <1>1 DEF vars, IInv, TypeOK, DeviceTypeOK, Building, SnapshotStillTrue,
              HandlerHasWork
<1>2. ASSUME NEW s \in Sections,
             \/ \E r \in Requests : QueueRq(s, r)
             \/ SubmitCommands(s) \/ SubmitFails(s) \/ QueueRqReturnsError(s)
      PROVE  IInv'
  BY <1>2, BlockLayerSteps
<1>3. ASSUME NEW s \in Sections, NEW t \in Threads,
             EjectIoctl(t, s) \/ EjectReturn(t, s) \/ EjectInterrupted(t, s)
      PROVE  IInv'
  BY <1>3, EjectSteps
<1>4. ASSUME NEW s \in Sections, Tick(s) PROVE IInv'
  BY <1>4, TickStep
<1>5. CASE IsrEnter \/ IsrSpurious \/ IsrReadStatus
  BY <1>5, HandlerSteps
<1>6. CASE IsrHandle
  BY <1>6, HandleStep
<1> QED
  BY <1>1, <1>2, <1>3, <1>4, <1>5, <1>6 DEF Next

(* So the invariant holds in every reachable state.                        *)
LEMMA Inductive == Spec => []IInv
BY InitGood, StepGood, PTL DEF Spec

(* Type correctness: among other things every pop is of a queue that is    *)
(* not empty, every tape is one of the library, every count a number.      *)
THEOREM TypeCorrect == Spec => []TypeOK
<1>1. IInv => TypeOK
  BY DEF IInv
<1> QED
  BY <1>1, Inductive, PTL

(* The command queue and the device agree in every reachable state: no     *)
(* command is dropped by a busy section, and one that waits has a working  *)
(* section or a report before it (section_send_cmd, __handle_next_cmd).    *)
THEOREM QueueAlwaysMatches == Spec => []QueueMatchesDevice
<1>1. IInv => QueueMatchesDevice
  <2> SUFFICES ASSUME IInv, NEW s \in Sections
               PROVE  QueueMatchesDevice!(s)
    BY DEF QueueMatchesDevice
  <2>1. Good(dev[s], sec[s])
    BY DEF IInv
  <2> QED
    BY <2>1 DEF Good, DeviceConsistent, Matches, Queue, Pending
<1> QED
  BY <1>1, Inductive, PTL

(* Reading the interrupt status and the section status outside sec->lock   *)
(* is safe: both still hold when the lock is taken.                        *)
THEOREM SnapshotSafe == Spec => []SnapshotStillTrue
<1>1. IInv => SnapshotStillTrue
  BY DEF IInv
<1> QED
  BY <1>1, Inductive, PTL

(* The tape the driver believes in is the one inserted, or the one the     *)
(* finished but not yet handled command put there.                         *)
THEOREM TapeAlwaysTracked == Spec => []TapeTracked
<1>1. IInv => TapeTracked
  BY DEF IInv, Good, TapeNow, TapeTracked, Queue
<1> QED
  BY <1>1, Inductive, PTL
-----------------------------------------------------------------------------
(* q2 is q1 with something appended, perhaps nothing.                      *)
Grows(q1, q2) == Len(q2) >= Len(q1) /\ SubSeq(q2, 1, Len(q1)) = q1

(* Appending nodes makes a queue grow at its tail (list_splice_tail).      *)
LEMMA AppendGrows ==
  ASSUME NEW q \in Seq(Node), NEW nodes \in Seq(Node)
  PROVE  Grows(q, q \o nodes)
<1> DEFINE p == q \o nodes
           u == SubSeq(p, 1, Len(q))
<1>1. /\ p \in Seq(Node) /\ Len(p) = Len(q) + Len(nodes)
      /\ \A j \in 1 .. Len(q) : p[j] = q[j]
      /\ Len(q) \in Nat /\ Len(nodes) \in Nat
  BY ConcatProperties, LenProperties
<1> HIDE DEF p
<1>2. \A j \in 1 .. Len(q) : p[j] \in Node
  BY <1>1, ElementOfSeq
<1>3. /\ u \in Seq(Node) /\ Len(u) = Len(q)
      /\ \A j \in 1 .. Len(q) : u[j] = p[j]
  BY <1>1, <1>2, SubSeqProperties
<1>4. u = q
  BY <1>1, <1>3, SeqEqual
<1> QED
  BY <1>1, <1>4 DEF Grows, p

(* A queue left alone counts as grown.                                     *)
LEMMA SameGrows ==
  ASSUME NEW q \in Seq(Node)
  PROVE  Grows(q, q)
<1>1. << >> \in Seq(Node) /\ q \o << >> = q
  BY EmptySeq, ConcatEmptySeq
<1> QED
  BY <1>1, AppendGrows

(* Enqueue is the only step that changes the queue of a busy section.      *)
LEMMA BusyStep ==
  ASSUME IInv, Next, NEW x \in Sections, dev[x].state = "busy"
  PROVE  Grows(sec[x].cmd_queue, sec'[x].cmd_queue)
<1>0. /\ sec \in [Sections -> SectionStruct]
      /\ sec[x].cmd_queue \in Seq(Node) /\ Building
      /\ blk \in [Sections -> BlockLayer]
  BY DEF IInv, TypeOK, SectionStruct
<1>1. CASE sec'[x].cmd_queue = sec[x].cmd_queue
  BY <1>0, <1>1, SameGrows
<1>2. ASSUME NEW s \in Sections, NEW k \in SectionStruct,
             NEW nodes \in Seq(Node), Enqueue(s, nodes, k)
      PROVE  Grows(sec[x].cmd_queue, sec'[x].cmd_queue)
  <2> DEFINE h == [k EXCEPT !.cmd_queue = sec[s].cmd_queue \o nodes]
  <2>1. sec' = [sec EXCEPT ![s] = h]
    BY <1>2 DEF Enqueue
  <2>2. h.cmd_queue = sec[s].cmd_queue \o nodes
    BY DEF SectionStruct
  <2> HIDE DEF h
  <2>3. CASE x = s
    BY <1>0, <2>1, <2>2, <2>3, AppendGrows
  <2>4. CASE x # s
    BY <1>0, <1>1, <2>1, <2>4
  <2> QED
    BY <2>3, <2>4
<1>3. ASSUME NEW s \in Sections, SubmitCommands(s)
      PROVE  Grows(sec[x].cmd_queue, sec'[x].cmd_queue)
  <2>1. blk[s].rq \in Requests /\ sec[s] \in SectionStruct
    BY <1>0, <1>3 DEF SubmitCommands, Building
  <2>2. Enqueue(s, RequestNodes(blk[s].rq), sec[s])
    BY <1>3 DEF SubmitCommands
  <2> QED
    BY <1>2, <2>1, <2>2, NodesOfRequest
<1>4. ASSUME NEW s \in Sections, NEW t \in Threads, EjectIoctl(t, s)
      PROVE  Grows(sec[x].cmd_queue, sec'[x].cmd_queue)
  <2> DEFINE k == [sec[s] EXCEPT !.ejection_cmds = @ + 1,
                                 !.wait_q = @ \cup {t}]
             h == IF k.ioctl_cmd_done THEN ConsumeEject(k, t) ELSE k
  <2>1. Enqueue(s, <<EjectNode>>, h)
    BY <1>4 DEF EjectIoctl
  <2>2. h \in SectionStruct
    BY <1>0, EjectKeepsType
  <2>3. <<EjectNode>> \in Seq(Node)
    BY DEF EjectNode, Node, Command, Ops
  <2> HIDE DEF h
  <2> QED
    BY <1>2, <2>1, <2>2, <2>3
<1>5. CASE IsrHandle
  <2>1. isr.sec_id # x
    BY <1>5, HandledHasReported DEF IsrHandle
  <2>2. sec'[x] = sec[x]
    BY <1>0, <1>5, <2>1 DEF IsrHandle
  <2> QED
    BY <1>1, <2>2
<1>6. ASSUME NEW s \in Sections, NEW t \in Threads,
             EjectReturn(t, s) \/ EjectInterrupted(t, s)
      PROVE  sec'[x].cmd_queue = sec[x].cmd_queue
  <2>0. sec[s] \in SectionStruct
    BY <1>0
  <2>1. CASE EjectReturn(t, s)
    BY <1>0, <2>0, <2>1, ConsumeType DEF EjectReturn
  <2>2. CASE EjectInterrupted(t, s)
    BY <1>0, <2>0, <2>2 DEF EjectInterrupted, SectionStruct
  <2> QED
    BY <1>6, <2>1, <2>2
<1>7. ASSUME NEW s \in Sections,
             \/ \E r \in Requests : QueueRq(s, r)
             \/ SubmitFails(s) \/ QueueRqReturnsError(s)
      PROVE  sec'[x].cmd_queue = sec[x].cmd_queue
  <2>0. sec[s] \in SectionStruct
    BY <1>0
  <2>1. ASSUME NEW r \in Requests, QueueRq(s, r)
        PROVE  sec'[x].cmd_queue = sec[x].cmd_queue
    BY <1>0, <2>0, <2>1 DEF QueueRq, SectionStruct
  <2>2. CASE SubmitFails(s)
    <3>1. sec' = [sec EXCEPT ![s] = EndRequestHelper(sec[s], "IOERR")]
      BY <2>2, Zenon DEF SubmitFails, EndRequestHelper
    <3> QED
      BY <1>0, <2>0, <3>1, EndRequestType
  <2>3. CASE QueueRqReturnsError(s)
    <3>1. sec' = [sec EXCEPT ![s] = BlkMqEndRequest(sec[s], "IOERR")]
      BY <2>3 DEF QueueRqReturnsError
    <3> QED
      BY <1>0, <2>0, <3>1, BlkMqEndType
  <2> QED
    BY <1>7, <2>1, <2>2, <2>3
<1>8. ASSUME NEW s \in Sections, Tick(s)
      PROVE  sec' = sec
  BY <1>8 DEF Tick
<1>9. CASE IsrEnter \/ IsrSpurious \/ IsrReadStatus
  BY <1>1, <1>9 DEF IsrEnter, IsrSpurious, IsrSnapshot, IsrReadStatus
<1> QED
  BY <1>1, <1>3, <1>4, <1>5, <1>6, <1>7, <1>8, <1>9 DEF Next

(* Nobody takes commands away from under a device that works on them.      *)
THEOREM BusyQueueStable == Spec => BusyQueueOnlyGrows
<1> DEFINE A == \A s \in Sections : dev[s].state = "busy" =>
                  /\ Len(Queue(s)') >= Len(Queue(s))
                  /\ SubSeq(Queue(s)', 1, Len(Queue(s))) = Queue(s)
<1>1. IInv /\ [Next]_vars => [A]_vars
  BY BusyStep DEF Grows, Queue
<1> QED
  BY <1>1, Inductive, PTL DEF Spec, BusyQueueOnlyGrows
=============================================================================
