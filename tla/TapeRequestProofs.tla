------------------------- MODULE TapeRequestProofs -------------------------
(***************************************************************************)
(* Proofs about the requests and the ejects that pass through TapeDriver,  *)
(* for any number of sections, tapes, blocks, threads and any set of       *)
(* requests the plans of which have the shape do_scatter_gather gives      *)
(* them, faults, signals and spurious interrupts included.                 *)
(*                                                                         *)
(* Every step of the system is a step of one section (OneSectionSteps), so *)
(* the inductive invariants are predicates on one section: its device d,   *)
(* its struct k and the block layer's side b of it.                        *)
(***************************************************************************)
EXTENDS TapeDriverProofs, FiniteSetTheorems

(* The block layer sees k and h alike.                                     *)
SameRequest(k, h) ==
  h.req = k.req /\ h.ends = k.ends /\ h.result = k.result

(* h is k after _end_request_helper.                                       *)
Ended(k, h, status) ==
  IF k.req # NoReq
  THEN /\ h.req = NoReq
       /\ h.ends = k.ends + 1
       /\ h.result = IF k.result = "none" THEN status ELSE k.result
  ELSE SameRequest(k, h)

LastOfRequest(q) ==
  ~Head(q).is_ioctl /\ (Tail(q) = << >> \/ Head(Tail(q)).is_ioctl)

-----------------------------------------------------------------------------
(* What the handler makes of a section that has reported.                  *)

(* An error of an ioctl command other than NO_TAPE changes nothing.        *)
HeadKept(k, h) == Head(k.cmd_queue).is_ioctl /\ h = k

(* The head leaves the queue and no request ends.                          *)
HeadPopped(d, k, h) ==
  LET q == k.cmd_queue
      noTape == d.err /\ d.status = "NO_TAPE"
  IN  /\ h.cmd_queue = Tail(q)
      /\ SameRequest(k, h)
      /\ h.ioctl_cmd_done => k.ioctl_cmd_done \/ Head(q).is_ioctl
      /\ \/ noTape /\ h.current_tape = k.current_tape
         \/ /\ d.done /\ ~LastOfRequest(q)
            /\ h.current_tape = TapeAfter(Head(q), k.current_tape)

(* The last command of the request is done.                                *)
RequestDone(d, k, h) ==
  /\ d.done /\ LastOfRequest(k.cmd_queue)
  /\ h.cmd_queue = Tail(k.cmd_queue)
  /\ h.ioctl_cmd_done = k.ioctl_cmd_done
  /\ Ended(k, h, "OK")

(* A command of the request failed and an ioctl command follows.           *)
RequestAborted(k, h) ==
  LET q == k.cmd_queue
  IN  /\ ~Head(q).is_ioctl /\ HasIoctl(q)
      /\ h.cmd_queue = SubSeq(q, FirstIoctl(q), Len(q))
      /\ h.ioctl_cmd_done = k.ioctl_cmd_done
      /\ Ended(k, h, "IOERR")

(* A command of the request failed and none follows: nobody ends it.       *)
RequestForgotten(k, h) ==
  /\ ~Head(k.cmd_queue).is_ioctl
  /\ h.cmd_queue = << >>
  /\ h.ioctl_cmd_done = k.ioctl_cmd_done
  /\ h.req = NoReq /\ h.ends = k.ends /\ h.result = k.result

Reported(d, k, h) ==
  /\ h.wait_q = k.wait_q /\ h.ejection_cmds = k.ejection_cmds
  /\ \/ HeadKept(k, h)
     \/ HeadPopped(d, k, h)
     \/ RequestDone(d, k, h)
     \/ RequestAborted(k, h)
     \/ RequestForgotten(k, h)

(* _end_request_helper touches only the request and what the block layer   *)
(* was told of it.                                                         *)
LEMMA EndEffect ==
  ASSUME NEW k \in SectionStruct, NEW status \in {"OK", "IOERR"}
  PROVE  LET h == EndRequestHelper(k, status)
         IN  /\ h \in SectionStruct
             /\ Ended(k, h, status) /\ h.req = NoReq
             /\ h.cmd_queue = k.cmd_queue
             /\ h.current_tape = k.current_tape
             /\ h.ioctl_cmd_done = k.ioctl_cmd_done
             /\ h.wait_q = k.wait_q /\ h.ejection_cmds = k.ejection_cmds
<1> DEFINE st == IF k.result = "none" THEN status ELSE k.result
           h == EndRequestHelper(k, status)
<1>0. h \in SectionStruct
  BY EndRequestType
<1>1. CASE k.req # NoReq
  <2>1. h = [[k EXCEPT !.ends = k.ends + 1, !.result = st]
               EXCEPT !.req = NoReq]
    BY <1>1 DEF EndRequestHelper, BlkMqEndRequest
  <2> QED
    BY <1>0, <1>1, <2>1 DEF SectionStruct, Ended
<1>2. CASE k.req = NoReq
  BY <1>0, <1>2 DEF EndRequestHelper, Ended, SameRequest
<1> QED
  BY <1>1, <1>2

(* __handle_section_error: the command is dropped, kept, or the rest of    *)
(* its request with it.                                                    *)
LEMMA ErrorEffect ==
  ASSUME NEW d, NEW k \in SectionStruct, k.cmd_queue # << >>, d.err
  PROVE  Reported(d, k, HandleSectionError(k, d.status))
<1> DEFINE q == k.cmd_queue
           head == Head(q)
           a == AbortRestOfReqCmds(k)
           h == HandleSectionError(k, d.status)
<1>0. q \in Seq(Node) /\ Tail(q) \in Seq(Node) /\ head \in Node
  BY HeadTailProperties DEF SectionStruct
<1>1. CASE d.status = "NO_TAPE"
  <2>1. h = [k EXCEPT !.cmd_queue = Tail(q),
                      !.ioctl_cmd_done = k.ioctl_cmd_done \/ head.is_ioctl,
                      !.ioctl_status = IF head.is_ioctl THEN "NO_TAPE"
                                       ELSE k.ioctl_status]
    BY <1>1 DEF HandleSectionError
  <2> DEFINE flag == k.ioctl_cmd_done \/ head.is_ioctl
             st == IF head.is_ioctl THEN "NO_TAPE" ELSE k.ioctl_status
  <2> HIDE DEF flag, st
  <2>2. h = [k EXCEPT !.cmd_queue = Tail(q), !.ioctl_cmd_done = flag,
                      !.ioctl_status = st]
    BY <2>1 DEF flag, st
  <2>3. /\ h.cmd_queue = Tail(q) /\ h.current_tape = k.current_tape
        /\ h.ioctl_cmd_done = flag
        /\ SameRequest(k, h)
        /\ h.wait_q = k.wait_q /\ h.ejection_cmds = k.ejection_cmds
    BY <2>2 DEF SameRequest, SectionStruct
  <2> HIDE DEF h
  <2>4. HeadPopped(d, k, h)
    BY <1>1, <2>3, Zenon DEF HeadPopped, flag
  <2> QED
    BY <2>3, <2>4 DEF Reported, h
<1>2. CASE d.status # "NO_TAPE" /\ head.is_ioctl
  <2>1. h = k
    BY <1>2 DEF HandleSectionError
  <2> QED
    BY <1>2, <2>1 DEF Reported, HeadKept
<1>3. CASE d.status # "NO_TAPE" /\ ~head.is_ioctl /\ HasIoctl(q)
  <2> DEFINE b == EndRequestHelper(k, "IOERR")
             p == SubSeq(q, FirstIoctl(q), Len(q))
  <2>1. a = [b EXCEPT !.req = NoReq, !.cmd_queue = p]
    BY <1>3 DEF AbortRestOfReqCmds
  <2>2. p # << >>
    <3>1. FirstIoctl(q) \in 1 .. Len(q) /\ Len(q) \in Nat
      BY <1>0, <1>3, FirstIoctlExists, LenProperties
    <3>2. \A j \in FirstIoctl(q) .. Len(q) : q[j] \in Node
      BY <1>0, <3>1, ElementOfSeq
    <3>3. Len(p) = Len(q) - FirstIoctl(q) + 1
      BY <1>0, <3>1, <3>2, SubSeqProperties
    <3>4. Len(p) # 0
      BY <3>1, <3>3
    <3> HIDE DEF p
    <3> QED
      BY <3>4, EmptySeq
  <2>3. /\ b \in SectionStruct /\ Ended(k, b, "IOERR") /\ b.req = NoReq
        /\ b.ioctl_cmd_done = k.ioctl_cmd_done
        /\ b.wait_q = k.wait_q /\ b.ejection_cmds = k.ejection_cmds
    BY EndEffect
  <2> HIDE DEF b, p
  <2>4. /\ a.cmd_queue = p /\ Ended(k, a, "IOERR")
        /\ a.ioctl_cmd_done = k.ioctl_cmd_done
        /\ a.wait_q = k.wait_q /\ a.ejection_cmds = k.ejection_cmds
    BY <2>1, <2>3 DEF SectionStruct, Ended, SameRequest
  <2>5. h = a
    BY <1>3, <2>2, <2>4, Zenon DEF HandleSectionError
  <2> QED
    BY <1>3, <2>4, <2>5 DEF Reported, RequestAborted, p
<1>4. CASE d.status # "NO_TAPE" /\ ~head.is_ioctl /\ ~HasIoctl(q)
  <2>1. a = [k EXCEPT !.req = NoReq, !.cmd_queue = << >>]
    BY <1>4 DEF AbortRestOfReqCmds
  <2>2. a.cmd_queue = << >> /\ a.req = NoReq
    BY <2>1 DEF SectionStruct
  <2>3. h = EndRequestHelper(a, "IOERR")
    BY <1>4, <2>2, Zenon DEF HandleSectionError
  <2>4. h = a
    BY <2>2, <2>3 DEF EndRequestHelper
  <2> QED
    BY <1>4, <2>1, <2>4 DEF Reported, RequestForgotten, SectionStruct
<1> QED
  BY <1>1, <1>2, <1>3, <1>4

(* __handle_section_done: the head is popped, and its request ended if it  *)
(* was the last of it.                                                     *)
LEMMA DoneEffect ==
  ASSUME NEW d, NEW k \in SectionStruct, k.cmd_queue # << >>, d.done,
         d.tape = TapeAfter(Head(k.cmd_queue), k.current_tape)
  PROVE  Reported(d, k, HandleSectionDone(k, d, "DONE").k)
<1> DEFINE curr == Head(k.cmd_queue)
           tape == TapeAfter(curr, k.current_tape)
           popped == [k EXCEPT !.cmd_queue = Tail(@),
                               !.current_tape = TapeAfter(curr, @)]
           flag == k.ioctl_cmd_done \/ (curr.cmd.op = "EJECT_TAPE" /\ curr.is_ioctl)
           woken == [popped EXCEPT !.ioctl_cmd_done =
                       @ \/ (curr.cmd.op = "EJECT_TAPE" /\ curr.is_ioctl)]
           h == HandleSectionDone(k, d, "DONE").k
<1>0. curr \in Node /\ Tail(k.cmd_queue) \in Seq(Node)
  BY HeadTailProperties DEF SectionStruct
<1>1. tape \in Nat
  BY <1>0 DEF TapeAfter, Node, Command, SectionStruct
<1>2. popped \in SectionStruct /\ popped.current_tape = d.tape
  BY <1>0, <1>1 DEF SectionStruct
<1>3. /\ woken \in SectionStruct
      /\ woken.current_tape = tape /\ woken.cmd_queue = Tail(k.cmd_queue)
      /\ woken.ioctl_cmd_done = flag
      /\ SameRequest(k, woken)
      /\ woken.wait_q = k.wait_q /\ woken.ejection_cmds = k.ejection_cmds
  <2>1. /\ popped.cmd_queue = Tail(k.cmd_queue) /\ SameRequest(k, popped)
        /\ popped.wait_q = k.wait_q /\ popped.ejection_cmds = k.ejection_cmds
        /\ popped.ioctl_cmd_done = k.ioctl_cmd_done
    BY DEF SectionStruct, SameRequest
  <2> HIDE DEF popped
  <2> QED
    BY <1>2, <2>1 DEF SectionStruct, SameRequest
<1>4. h = EndReqIfCompleted(woken, curr)
  <2>1. HandleSectionDone(k, d, "DONE") =
          [k |-> EndReqIfCompleted(woken, curr), err |-> FALSE]
    BY <1>2, Zenon DEF HandleSectionDone
  <2> QED
    BY <2>1
<1> HIDE DEF woken, h
<1>5. CASE LastOfRequest(k.cmd_queue)
  <2>1. h = EndRequestHelper(woken, "OK") /\ ~curr.is_ioctl
    BY <1>3, <1>4, <1>5, Zenon DEF EndReqIfCompleted, LastOfRequest
  <2>2. flag = k.ioctl_cmd_done
    BY <2>1 DEF SectionStruct
  <2>3. /\ Ended(woken, h, "OK") /\ h.cmd_queue = woken.cmd_queue
        /\ h.ioctl_cmd_done = woken.ioctl_cmd_done
        /\ h.wait_q = woken.wait_q /\ h.ejection_cmds = woken.ejection_cmds
    BY <1>3, <2>1, EndEffect
  <2>4. Ended(k, h, "OK")
    BY <1>3, <2>3 DEF Ended, SameRequest
  <2> QED
    BY <1>3, <1>5, <2>2, <2>3, <2>4 DEF Reported, RequestDone, h
<1>6. CASE ~LastOfRequest(k.cmd_queue)
  <2>1. h = woken
    BY <1>3, <1>4, <1>6, Zenon DEF EndReqIfCompleted, LastOfRequest
  <2>2. HeadPopped(d, k, h)
    BY <1>3, <1>6, <2>1 DEF HeadPopped, SameRequest
  <2> QED
    BY <1>3, <2>1, <2>2 DEF Reported, h
<1> QED
  BY <1>5, <1>6

(* The handler on a section that has reported.                             *)
LEMMA ReportEffect ==
  ASSUME NEW d, NEW k, Good(d, k), NEW isErr \in BOOLEAN,
         IF isErr THEN d.err ELSE d.done
  PROVE  Reported(d, k, HandleSectionInterrupt(k, d, d.status, isErr).k)
<1> DEFINE out == HandleSectionInterrupt(k, d, d.status, isErr)
<1>0. /\ DeviceConsistent(d) /\ k \in SectionStruct /\ k.cmd_queue # << >>
      /\ d.status # "WORKING" /\ d.tape = TapeNow(d, k)
  BY DEF Good, Matches, DeviceConsistent, ErrorStatus
<1>1. CASE isErr
  <2>1. out.k = HandleSectionError(k, d.status)
    BY <1>0, <1>1 DEF HandleSectionInterrupt
  <2> QED
    BY <1>0, <1>1, <2>1, ErrorEffect
<1>2. CASE ~isErr
  <2>1. d.done /\ d.status = "DONE"
    BY <1>0, <1>2 DEF DeviceConsistent
  <2>2. d.tape = TapeAfter(Head(k.cmd_queue), k.current_tape)
    BY <1>0, <2>1 DEF TapeNow, TapeAfter
  <2>3. out.k = HandleSectionDone(k, d, "DONE").k
    BY <1>0, <1>2, <2>1 DEF HandleSectionInterrupt
  <2> QED
    BY <1>0, <2>1, <2>2, <2>3, DoneEffect
<1> QED
  BY <1>1, <1>2
-----------------------------------------------------------------------------
(* What one step of the system does to one section: (d, k, b) before and   *)
(* (e, h, c) after.                                                        *)

Untouched(d, k, b, e, h, c) == e = d /\ h = k /\ c = b

Dispatched(d, k, b, e, h, c) ==
  /\ b.pc = "idle" /\ ~(b.rq # NoReq /\ k.ends = 0)
  /\ e = d
  /\ \E r \in Requests :
       /\ h = [k EXCEPT !.req = r, !.ends = 0, !.result = "none"]
       /\ c = [pc |-> "building", rq |-> r, moved |-> 0]

(* nodes joined the queue; the first was sent if the queue was empty.      *)
Enqueued(d, k, e, h, nodes) ==
  /\ h.cmd_queue = k.cmd_queue \o nodes
  /\ e = IF k.cmd_queue = << >> THEN Exec(d, nodes[1].cmd) ELSE d
  /\ h.current_tape = k.current_tape
  /\ SameRequest(k, h)

Submitted(d, k, b, e, h, c) ==
  /\ b.pc = "building" /\ b.rq \in Requests
  /\ Enqueued(d, k, e, h, RequestNodes(b.rq))
  /\ h.ioctl_cmd_done = k.ioctl_cmd_done
  /\ h.wait_q = k.wait_q /\ h.ejection_cmds = k.ejection_cmds
  /\ c = [b EXCEPT !.pc = "idle"]

SubmitFailed(d, k, b, e, h, c) ==
  /\ AllocFails /\ b.pc = "building"
  /\ e = d
  /\ h = EndRequestHelper(k, "IOERR")
  /\ c = [b EXCEPT !.pc = "failing"]

ErrorReturned(d, k, b, e, h, c) ==
  /\ b.pc = "failing"
  /\ e = d
  /\ h = BlkMqEndRequest(k, "IOERR")
  /\ c = [b EXCEPT !.pc = "idle"]

EjectQueued(d, k, b, e, h, c) ==
  /\ Enqueued(d, k, e, h, <<EjectNode>>)
  /\ c = b
  /\ h.ioctl_cmd_done = FALSE
  /\ IF k.ioctl_cmd_done
     THEN h.wait_q = k.wait_q /\ h.ejection_cmds = k.ejection_cmds
     ELSE \E t \in Threads \ k.wait_q :
            /\ h.wait_q = k.wait_q \cup {t}
            /\ h.ejection_cmds = k.ejection_cmds + 1

EjectOver(d, k, b, e, h, c) ==
  /\ e = d /\ c = b
  /\ h.cmd_queue = k.cmd_queue /\ h.current_tape = k.current_tape
  /\ SameRequest(k, h)
  /\ \E t \in k.wait_q : h.wait_q = k.wait_q \ {t}
  /\ \/ /\ k.ioctl_cmd_done /\ h.ioctl_cmd_done = FALSE
        /\ h.ejection_cmds = k.ejection_cmds - 1
     \/ /\ ~k.ioctl_cmd_done /\ h.ioctl_cmd_done = FALSE
        /\ h.ejection_cmds = k.ejection_cmds

(* The device once the handler has cleared the bit of its report.          *)
Cleared(d) == IF d.err THEN ClearErr(d) ELSE ClearDone(d)

ReportHandled(d, k, b, e, h, c) ==
  /\ d.done \/ d.err
  /\ Reported(d, k, h) /\ h.current_tape = Cleared(d).tape
  /\ e = IF h.cmd_queue # << >> THEN Exec(Cleared(d), Head(h.cmd_queue).cmd)
         ELSE Cleared(d)
  /\ c = b

DeviceTicked(d, k, b, e, h, c) ==
  /\ d.state = "busy"
  /\ e \in TickOutcomes(d)
  /\ h = k
  /\ c = [b EXCEPT !.moved = IF Transferred(d, e) THEN @ + 1 ELSE @]

SectionStepped(d, k, b, e, h, c) ==
  \/ Untouched(d, k, b, e, h, c)
  \/ Dispatched(d, k, b, e, h, c)
  \/ Submitted(d, k, b, e, h, c)
  \/ SubmitFailed(d, k, b, e, h, c)
  \/ ErrorReturned(d, k, b, e, h, c)
  \/ EjectQueued(d, k, b, e, h, c)
  \/ EjectOver(d, k, b, e, h, c)
  \/ ReportHandled(d, k, b, e, h, c)
  \/ DeviceTicked(d, k, b, e, h, c)

(* Section s makes the step, the others are left alone.                    *)
OnlySection(s) ==
  /\ SectionStepped(dev[s], sec[s], blk[s], dev'[s], sec'[s], blk'[s])
  /\ \A x \in Sections \ {s} :
       dev'[x] = dev[x] /\ sec'[x] = sec[x] /\ blk'[x] = blk[x]

(* The steps of the block layer and of queue_rq.                           *)
LEMMA OneBlockLayerStep ==
  ASSUME IInv, NEW s \in Sections,
         \/ \E r \in Requests : QueueRq(s, r)
         \/ SubmitCommands(s) \/ SubmitFails(s) \/ QueueRqReturnsError(s)
  PROVE  OnlySection(s)
<1>0. /\ sec \in [Sections -> SectionStruct] /\ sec[s] \in SectionStruct
      /\ blk \in [Sections -> BlockLayer] /\ blk[s] \in BlockLayer
      /\ dev \in [Sections -> SectionState] /\ Building
  BY DEF IInv, TypeOK, DeviceTypeOK
<1>1. ASSUME NEW r \in Requests, QueueRq(s, r)
      PROVE  OnlySection(s)
  <2> DEFINE h == [sec[s] EXCEPT !.req = r, !.ends = 0, !.result = "none"]
             c == [pc |-> "building", rq |-> r, moved |-> 0]
  <2>1. /\ sec' = [sec EXCEPT ![s] = h] /\ blk' = [blk EXCEPT ![s] = c]
        /\ dev' = dev
    BY <1>1 DEF QueueRq
  <2>2. Dispatched(dev[s], sec[s], blk[s], dev[s], h, c)
    BY <1>1 DEF QueueRq, Dispatched, InFlight
  <2> HIDE DEF h, c
  <2> QED
    BY <1>0, <2>1, <2>2 DEF OnlySection, SectionStepped
<1>2. CASE SubmitCommands(s)
  <2> DEFINE nodes == RequestNodes(blk[s].rq)
             h == [sec[s] EXCEPT !.cmd_queue = sec[s].cmd_queue \o nodes]
             e == IF sec[s].cmd_queue = << >> THEN Exec(dev[s], nodes[1].cmd)
                  ELSE dev[s]
             c == [blk[s] EXCEPT !.pc = "idle"]
  <2>1. /\ sec' = [sec EXCEPT ![s] = h] /\ blk' = [blk EXCEPT ![s] = c]
        /\ dev' = [dev EXCEPT ![s] = e]
    BY <1>2, Zenon DEF SubmitCommands, Enqueue
  <2>2. blk[s].pc = "building" /\ blk[s].rq \in Requests
    BY <1>0, <1>2 DEF SubmitCommands, Building
  <2> HIDE DEF nodes
  <2>3. /\ h.cmd_queue = sec[s].cmd_queue \o nodes
        /\ h.current_tape = sec[s].current_tape /\ SameRequest(sec[s], h)
        /\ h.ioctl_cmd_done = sec[s].ioctl_cmd_done
        /\ h.wait_q = sec[s].wait_q
        /\ h.ejection_cmds = sec[s].ejection_cmds
    BY <1>0 DEF SectionStruct, SameRequest
  <2>4. Submitted(dev[s], sec[s], blk[s], e, h, c)
    BY <2>2, <2>3 DEF Submitted, Enqueued, nodes
  <2> HIDE DEF h, c, e
  <2> QED
    BY <1>0, <2>1, <2>4 DEF OnlySection, SectionStepped
<1>3. CASE SubmitFails(s)
  <2> DEFINE h == EndRequestHelper(sec[s], "IOERR")
             c == [blk[s] EXCEPT !.pc = "failing"]
  <2>1. /\ sec' = [sec EXCEPT ![s] = h] /\ blk' = [blk EXCEPT ![s] = c]
        /\ dev' = dev
    BY <1>3, Zenon DEF SubmitFails, EndRequestHelper
  <2>2. SubmitFailed(dev[s], sec[s], blk[s], dev[s], h, c)
    BY <1>3 DEF SubmitFails, SubmitFailed
  <2> HIDE DEF h, c
  <2> QED
    BY <1>0, <2>1, <2>2 DEF OnlySection, SectionStepped
<1>4. CASE QueueRqReturnsError(s)
  <2> DEFINE h == BlkMqEndRequest(sec[s], "IOERR")
             c == [blk[s] EXCEPT !.pc = "idle"]
  <2>1. /\ sec' = [sec EXCEPT ![s] = h] /\ blk' = [blk EXCEPT ![s] = c]
        /\ dev' = dev
    BY <1>4 DEF QueueRqReturnsError
  <2>2. ErrorReturned(dev[s], sec[s], blk[s], dev[s], h, c)
    BY <1>4 DEF QueueRqReturnsError, ErrorReturned
  <2> HIDE DEF h, c
  <2> QED
    BY <1>0, <2>1, <2>2 DEF OnlySection, SectionStepped
<1> QED
  BY <1>1, <1>2, <1>3, <1>4

(* A call of the ioctl counts its command, and takes a completion that is  *)
(* there already.                                                          *)
LEMMA EjectCounts ==
  ASSUME NEW k0 \in SectionStruct, NEW t \in Threads \ k0.wait_q
  PROVE  LET k == [k0 EXCEPT !.ejection_cmds = @ + 1, !.wait_q = @ \cup {t}]
             h == IF k.ioctl_cmd_done THEN ConsumeEject(k, t) ELSE k
         IN  /\ h \in SectionStruct /\ SameRequest(k0, h)
             /\ h.current_tape = k0.current_tape
             /\ h.ioctl_cmd_done = FALSE
             /\ IF k0.ioctl_cmd_done
                THEN h.wait_q = k0.wait_q /\ h.ejection_cmds = k0.ejection_cmds
                ELSE /\ h.wait_q = k0.wait_q \cup {t}
                     /\ h.ejection_cmds = k0.ejection_cmds + 1
<1> DEFINE k == [k0 EXCEPT !.ejection_cmds = @ + 1, !.wait_q = @ \cup {t}]
           h == IF k.ioctl_cmd_done THEN ConsumeEject(k, t) ELSE k
<1>1. h \in SectionStruct /\ h.current_tape = k0.current_tape
  BY EjectKeepsType
<1>2. /\ k.ejection_cmds = k0.ejection_cmds + 1
      /\ k.wait_q = k0.wait_q \cup {t}
      /\ k.ioctl_cmd_done = k0.ioctl_cmd_done /\ SameRequest(k0, k)
  BY DEF SectionStruct, SameRequest
<1>3. CASE k0.ioctl_cmd_done
  <2>1. h = [k EXCEPT !.ejection_cmds = k.ejection_cmds - 1,
                      !.ioctl_cmd_done = FALSE, !.ioctl_status = "OK",
                      !.wait_q = k.wait_q \ {t}]
    BY <1>2, <1>3, Zenon DEF ConsumeEject
  <2> HIDE DEF h
  <2>2. /\ h.ejection_cmds = k0.ejection_cmds + 1 - 1
        /\ h.ioctl_cmd_done = FALSE /\ SameRequest(k0, h)
        /\ h.wait_q = (k0.wait_q \cup {t}) \ {t}
    BY <1>2, <2>1 DEF SectionStruct, SameRequest
  <2>3. (k0.wait_q \cup {t}) \ {t} = k0.wait_q
    OBVIOUS
  <2>4. k0.ejection_cmds + 1 - 1 = k0.ejection_cmds
    BY DEF SectionStruct
  <2> QED
    BY <1>1, <1>3, <2>2, <2>3, <2>4 DEF h
<1>4. CASE ~k0.ioctl_cmd_done
  <2>1. h = k
    BY <1>2, <1>4
  <2>2. k0.ioctl_cmd_done = FALSE
    BY <1>4 DEF SectionStruct
  <2> HIDE DEF h, k
  <2> QED
    BY <1>1, <1>2, <1>4, <2>1, <2>2 DEF h, k
<1> QED
  BY <1>3, <1>4

(* The steps of threads in the EJECT ioctl.                                *)
LEMMA OneEjectStep ==
  ASSUME IInv, NEW s \in Sections, NEW t \in Threads,
         EjectIoctl(t, s) \/ EjectReturn(t, s) \/ EjectInterrupted(t, s)
  PROVE  OnlySection(s)
<1>0. /\ sec \in [Sections -> SectionStruct] /\ sec[s] \in SectionStruct
      /\ dev \in [Sections -> SectionState]
  BY DEF IInv, TypeOK, DeviceTypeOK
<1>1. CASE EjectIoctl(t, s)
  <2> DEFINE k == [sec[s] EXCEPT !.ejection_cmds = @ + 1,
                                 !.wait_q = @ \cup {t}]
             g == IF k.ioctl_cmd_done THEN ConsumeEject(k, t) ELSE k
             h == [g EXCEPT !.cmd_queue = sec[s].cmd_queue \o <<EjectNode>>]
             e == IF sec[s].cmd_queue = << >>
                  THEN Exec(dev[s], <<EjectNode>>[1].cmd) ELSE dev[s]
  <2>0. t \in Threads \ sec[s].wait_q
    BY <1>1 DEF EjectIoctl
  <2>1. Enqueue(s, <<EjectNode>>, g) /\ blk' = blk
    BY <1>1 DEF EjectIoctl
  <2>2. /\ g \in SectionStruct /\ SameRequest(sec[s], g)
        /\ g.current_tape = sec[s].current_tape
        /\ g.ioctl_cmd_done = FALSE
        /\ IF sec[s].ioctl_cmd_done
           THEN /\ g.wait_q = sec[s].wait_q
                /\ g.ejection_cmds = sec[s].ejection_cmds
           ELSE /\ g.wait_q = sec[s].wait_q \cup {t}
                /\ g.ejection_cmds = sec[s].ejection_cmds + 1
    BY <1>0, <2>0, EjectCounts
  <2> HIDE DEF g
  <2>3. sec' = [sec EXCEPT ![s] = h] /\ dev' = [dev EXCEPT ![s] = e]
    BY <2>1, Zenon DEF Enqueue
  <2>4. /\ h.cmd_queue = sec[s].cmd_queue \o <<EjectNode>>
        /\ h.current_tape = g.current_tape /\ SameRequest(g, h)
        /\ h.ioctl_cmd_done = g.ioctl_cmd_done
        /\ h.wait_q = g.wait_q /\ h.ejection_cmds = g.ejection_cmds
    BY <2>2 DEF SectionStruct, SameRequest
  <2> HIDE DEF h
  <2>5. Enqueued(dev[s], sec[s], e, h, <<EjectNode>>)
    BY <2>2, <2>4 DEF Enqueued, SameRequest
  <2> HIDE DEF e
  <2>6. EjectQueued(dev[s], sec[s], blk[s], e, h, blk[s])
    BY <2>0, <2>2, <2>4, <2>5 DEF EjectQueued
  <2> QED
    BY <1>0, <2>1, <2>3, <2>6 DEF OnlySection, SectionStepped
<1>2. CASE EjectReturn(t, s)
  <2> DEFINE h == ConsumeEject(sec[s], t)
  <2>1. /\ sec' = [sec EXCEPT ![s] = h] /\ UNCHANGED <<dev, blk>>
        /\ t \in sec[s].wait_q /\ sec[s].ioctl_cmd_done
    BY <1>2 DEF EjectReturn
  <2>2. h = [sec[s] EXCEPT !.ejection_cmds = sec[s].ejection_cmds - 1,
                           !.ioctl_cmd_done = FALSE, !.ioctl_status = "OK",
                           !.wait_q = sec[s].wait_q \ {t}]
    BY DEF ConsumeEject
  <2> HIDE DEF h
  <2>3. /\ h.cmd_queue = sec[s].cmd_queue
        /\ h.current_tape = sec[s].current_tape /\ SameRequest(sec[s], h)
        /\ h.wait_q = sec[s].wait_q \ {t} /\ h.ioctl_cmd_done = FALSE
        /\ h.ejection_cmds = sec[s].ejection_cmds - 1
    BY <1>0, <2>2 DEF SectionStruct, SameRequest
  <2>4. EjectOver(dev[s], sec[s], blk[s], dev[s], h, blk[s])
    BY <2>1, <2>3 DEF EjectOver
  <2> QED
    BY <1>0, <2>1, <2>4 DEF OnlySection, SectionStepped
<1>3. CASE EjectInterrupted(t, s)
  <2> DEFINE h == [sec[s] EXCEPT !.wait_q = sec[s].wait_q \ {t}]
  <2>1. /\ sec' = [sec EXCEPT ![s] = h] /\ UNCHANGED <<dev, blk>>
        /\ t \in sec[s].wait_q /\ ~sec[s].ioctl_cmd_done
    BY <1>3 DEF EjectInterrupted
  <2>2. sec[s].ioctl_cmd_done = FALSE
    BY <1>0, <2>1 DEF SectionStruct
  <2>3. /\ h.cmd_queue = sec[s].cmd_queue
        /\ h.current_tape = sec[s].current_tape /\ SameRequest(sec[s], h)
        /\ h.wait_q = sec[s].wait_q \ {t}
        /\ h.ioctl_cmd_done = sec[s].ioctl_cmd_done
        /\ h.ejection_cmds = sec[s].ejection_cmds
    BY <1>0 DEF SectionStruct, SameRequest
  <2> HIDE DEF h
  <2>4. EjectOver(dev[s], sec[s], blk[s], dev[s], h, blk[s])
    BY <2>1, <2>2, <2>3 DEF EjectOver
  <2> QED
    BY <1>0, <2>1, <2>4 DEF OnlySection, SectionStepped
<1> QED
  BY <1>1, <1>2, <1>3

(* The interrupt handler's critical section.                               *)
LEMMA OneHandlerStep ==
  ASSUME IInv, IsrHandle
  PROVE  isr.sec_id \in Sections /\ OnlySection(isr.sec_id)
<1> DEFINE s == isr.sec_id
           isErr == s \in isr.err
           out == HandleSectionInterrupt(sec[s], dev[s], isr.status, isErr)
           sends == out.next /\ out.k.cmd_queue # << >>
           e == IF sends THEN Exec(out.d, Head(out.k.cmd_queue).cmd)
                ELSE out.d
<1>0. /\ sec \in [Sections -> SectionStruct]
      /\ dev \in [Sections -> SectionState] /\ isr.pc = "handle"
  BY DEF IInv, TypeOK, DeviceTypeOK, IsrHandle
<1>1. /\ s \in Sections /\ Good(dev[s], sec[s])
      /\ isr.status = dev[s].status
      /\ isErr \in BOOLEAN /\ IF isErr THEN dev[s].err ELSE dev[s].done
  BY <1>0, HandledHasReported
<1>2. /\ sec' = [sec EXCEPT ![s] = out.k] /\ dev' = [dev EXCEPT ![s] = e]
      /\ blk' = blk
  BY Zenon DEF IsrHandle
<1>3. out = HandleSectionInterrupt(sec[s], dev[s], dev[s].status, isErr)
  BY <1>1
<1>4. out.d = Cleared(dev[s])
  <2>1. /\ dev[s].status # "WORKING"
        /\ ~(dev[s].done /\ dev[s].err)
    BY <1>1 DEF Good, DeviceConsistent, ErrorStatus
  <2> QED
    BY <1>1, <1>3, <2>1 DEF HandleSectionInterrupt, Cleared
<1> HIDE DEF out, isErr, s
<1>5. /\ out.next /\ Reported(dev[s], sec[s], out.k)
      /\ out.k.current_tape = out.d.tape
  BY <1>1, <1>3, HandleReport, ReportEffect
<1>6. ReportHandled(dev[s], sec[s], blk[s], e, out.k, blk[s])
  BY <1>1, <1>4, <1>5 DEF ReportHandled
<1> HIDE DEF e
<1> QED
  BY <1>0, <1>1, <1>2, <1>6 DEF OnlySection, SectionStepped, s

(* Every step of the system is a step of one section.                      *)
LEMMA OneSectionSteps ==
  ASSUME IInv, [Next]_vars
  PROVE  \E s \in Sections : OnlySection(s)
<1>0. /\ dev \in [Sections -> SectionState] /\ blk \in [Sections -> BlockLayer]
      /\ sec \in [Sections -> SectionStruct]
  BY DEF IInv, TypeOK, DeviceTypeOK
<1>1. CASE UNCHANGED <<dev, sec, blk>>
  <2>1. 0 \in Sections
    BY DeviceAssumption DEF Sections
  <2> QED
    BY <1>1, <2>1 DEF OnlySection, SectionStepped, Untouched
<1>2. ASSUME NEW s \in Sections, Tick(s)
      PROVE  OnlySection(s)
  <2>1. PICK e \in TickOutcomes(dev[s]) :
          /\ dev' = [dev EXCEPT ![s] = e]
          /\ blk' = [blk EXCEPT ![s].moved =
                       IF Transferred(dev[s], e) THEN @ + 1 ELSE @]
    BY <1>2 DEF Tick
  <2> DEFINE c == [blk[s] EXCEPT !.moved =
                     IF Transferred(dev[s], e) THEN @ + 1 ELSE @]
  <2>2. blk' = [blk EXCEPT ![s] = c] /\ sec' = sec /\ dev[s].state = "busy"
    BY <1>2, <2>1 DEF Tick
  <2>3. DeviceTicked(dev[s], sec[s], blk[s], e, sec[s], c)
    BY <2>1, <2>2 DEF DeviceTicked
  <2> HIDE DEF c
  <2> QED
    BY <1>0, <2>1, <2>2, <2>3 DEF OnlySection, SectionStepped
<1>3. CASE IsrEnter \/ IsrSpurious \/ IsrReadStatus
  BY <1>1, <1>3 DEF IsrEnter, IsrSpurious, IsrSnapshot, IsrReadStatus
<1>4. CASE UNCHANGED vars
  BY <1>1, <1>4 DEF vars
<1> QED
  BY <1>2, <1>3, <1>4, OneBlockLayerStep, OneEjectStep, OneHandlerStep
     DEF Next
-----------------------------------------------------------------------------
(* Where the commands of a request are, and what the block layer was told. *)

Contiguous(q) ==
  \A i, j, l \in 1 .. Len(q) :
    i < j /\ j < l /\ ~q[i].is_ioctl /\ ~q[l].is_ioctl => ~q[j].is_ioctl

(* RequestContiguous says that the commands in the queue are those of      *)
(* sec->req.  That needs to know that sec->req, while it is set, is the    *)
(* request of the block layer and not ended, and that there are no such    *)
(* commands while queue_rq runs.                                           *)
RequestKept(k, b) ==
  /\ Contiguous(k.cmd_queue)
  /\ HasRequest(k.cmd_queue) => b.pc = "idle" /\ k.req # NoReq
  /\ b.pc = "building" => k.req # NoReq
  /\ k.req # NoReq => k.req = b.rq /\ k.ends = 0
  /\ k.ends = 0 <=> k.result = "none"
  /\ b.pc = "failing" => k.ends # 0
  /\ ~AllocFails => b.pc # "failing" /\ k.ends <= 1

RequestsKept == \A s \in Sections : RequestKept(sec[s], blk[s])

(* A queue with no request commands may get those of one request.          *)
LEMMA ContiguousRequest ==
  ASSUME NEW q \in Seq(Node), ~HasRequest(q), NEW r \in Requests
  PROVE  /\ Contiguous(q \o RequestNodes(r))
         /\ q \o RequestNodes(r) \in Seq(Node)
<1> DEFINE nodes == RequestNodes(r)
           p == q \o nodes
<1>1. nodes \in Seq(Node)
  BY NodesOfRequest
<1>2. /\ p \in Seq(Node) /\ Len(p) = Len(q) + Len(nodes)
      /\ \A i \in 1 .. Len(p) : p[i] = IF i <= Len(q) THEN q[i]
                                        ELSE nodes[i - Len(q)]
      /\ Len(q) \in Nat /\ Len(nodes) \in Nat
  BY <1>1, ConcatProperties, LenProperties
<1>3. \A i \in 1 .. Len(nodes) : ~nodes[i].is_ioctl
  <2>1. r.plan \in Seq(Command)
    BY RealRequest
  <2>2. Len(r.plan) \in Nat /\ Len(nodes) = Len(r.plan)
    BY <2>1, LenProperties DEF RequestNodes
  <2> QED
    BY <2>2 DEF RequestNodes
<1> HIDE DEF p, nodes
<1>4. \A i \in 1 .. Len(q) : q[i].is_ioctl
  BY DEF HasRequest
<1> QED
  BY <1>2, <1>3, <1>4 DEF Contiguous, p, nodes

(* An ioctl command may join any queue.                                    *)
LEMMA ContiguousEject ==
  ASSUME NEW q \in Seq(Node), Contiguous(q)
  PROVE  /\ Contiguous(q \o <<EjectNode>>)
         /\ HasRequest(q \o <<EjectNode>>) <=> HasRequest(q)
         /\ q \o <<EjectNode>> \in Seq(Node)
<1> DEFINE p == q \o <<EjectNode>>
<1>1. <<EjectNode>> \in Seq(Node) /\ Len(<<EjectNode>>) = 1
  BY DEF EjectNode, Node, Command, Ops
<1>2. /\ p \in Seq(Node) /\ Len(p) = Len(q) + 1
      /\ \A i \in 1 .. Len(q) : p[i] = q[i]
      /\ p[Len(q) + 1] = EjectNode
      /\ Len(q) \in Nat
  BY <1>1, ConcatProperties, LenProperties
<1>3. EjectNode.is_ioctl
  BY DEF EjectNode
<1> HIDE DEF p
<1>4. Contiguous(p)
  BY <1>2, <1>3 DEF Contiguous
<1>5. HasRequest(p) <=> HasRequest(q)
  BY <1>2, <1>3 DEF HasRequest
<1> QED
  BY <1>2, <1>4, <1>5 DEF p

(* A later part of a queue that is contiguous is so too.  It holds nothing *)
(* of the request any more if it begins with an ioctl command that stood   *)
(* behind a command of the request.                                        *)
LEMMA ContiguousRest ==
  ASSUME NEW q \in Seq(Node), Contiguous(q), NEW p \in Seq(Node),
         NEW m \in Nat, Len(p) + m <= Len(q),
         \A i \in 1 .. Len(p) : p[i] = q[i + m]
  PROVE  /\ Contiguous(p)
         /\ HasRequest(p) => HasRequest(q)
         /\ m > 0 /\ ~q[1].is_ioctl /\ (p # << >> => p[1].is_ioctl) =>
              ~HasRequest(p)
<1>1. Len(p) \in Nat /\ Len(q) \in Nat
  BY LenProperties
<1>2. Contiguous(p)
  <2> SUFFICES ASSUME NEW i \in 1 .. Len(p), NEW j \in 1 .. Len(p),
                      NEW l \in 1 .. Len(p), i < j, j < l,
                      ~p[i].is_ioctl, ~p[l].is_ioctl
               PROVE  ~p[j].is_ioctl
    BY DEF Contiguous
  <2>1. /\ i + m \in 1 .. Len(q) /\ j + m \in 1 .. Len(q)
        /\ l + m \in 1 .. Len(q) /\ i + m < j + m /\ j + m < l + m
    BY <1>1
  <2>2. ~q[i + m].is_ioctl /\ ~q[l + m].is_ioctl /\ p[j] = q[j + m]
    OBVIOUS
  <2> QED
    BY <2>1, <2>2 DEF Contiguous
<1>3. HasRequest(p) => HasRequest(q)
  <2> SUFFICES ASSUME NEW i \in 1 .. Len(p), ~p[i].is_ioctl
               PROVE  HasRequest(q)
    BY DEF HasRequest
  <2>1. i + m \in 1 .. Len(q) /\ p[i] = q[i + m]
    BY <1>1
  <2> QED
    BY <2>1 DEF HasRequest
<1>4. ASSUME m > 0, ~q[1].is_ioctl, p # << >> => p[1].is_ioctl, HasRequest(p)
      PROVE  FALSE
  <2>1. PICK i \in 1 .. Len(p) : ~p[i].is_ioctl
    BY <1>4 DEF HasRequest
  <2>2. Len(p) # 0 /\ i \in Nat /\ i >= 1
    BY <1>1, <2>1
  <2>3. p[1].is_ioctl
    BY <1>4, <2>2, EmptySeq
  <2>4. i # 1
    BY <2>1, <2>3
  <2>5. /\ 1 \in 1 .. Len(q) /\ 1 + m \in 1 .. Len(q) /\ i + m \in 1 .. Len(q)
        /\ 1 < 1 + m /\ 1 + m < i + m /\ 1 \in 1 .. Len(p)
    BY <1>1, <1>4, <2>2, <2>4
  <2>6. q[1 + m].is_ioctl /\ ~q[i + m].is_ioctl
    BY <2>1, <2>3, <2>5
  <2> QED
    BY <1>4, <2>5, <2>6 DEF Contiguous
<1> QED
  BY <1>2, <1>3, <1>4

(* Popping the head.                                                       *)
LEMMA ContiguousTail ==
  ASSUME NEW q \in Seq(Node), q # << >>, Contiguous(q)
  PROVE  /\ Contiguous(Tail(q)) /\ Tail(q) \in Seq(Node)
         /\ HasRequest(Tail(q)) => HasRequest(q)
         /\ LastOfRequest(q) => ~HasRequest(Tail(q))
<1>1. /\ Tail(q) \in Seq(Node) /\ Len(Tail(q)) = Len(q) - 1
      /\ \A i \in 1 .. Len(Tail(q)) : Tail(q)[i] = q[i + 1]
      /\ Len(q) \in Nat /\ Head(q) = q[1]
  BY HeadTailProperties, LenProperties
<1>2. 1 \in Nat /\ 1 > 0 /\ Len(Tail(q)) + 1 <= Len(q)
  BY <1>1
<1>3. Tail(q) # << >> => Head(Tail(q)) = Tail(q)[1]
  BY <1>1, HeadTailProperties
<1> DEFINE p == Tail(q)
<1> HIDE DEF p
<1>4. /\ p \in Seq(Node) /\ Len(p) + 1 <= Len(q)
      /\ \A i \in 1 .. Len(p) : p[i] = q[i + 1]
  BY <1>1, <1>2 DEF p
<1>5. /\ Contiguous(p)
      /\ HasRequest(p) => HasRequest(q)
      /\ ~q[1].is_ioctl /\ (p # << >> => p[1].is_ioctl) => ~HasRequest(p)
  BY <1>2, <1>4, ContiguousRest
<1> QED
  BY <1>1, <1>3, <1>5 DEF p, LastOfRequest

(* Dropping everything in front of the first ioctl command.                *)
LEMMA ContiguousAbort ==
  ASSUME NEW q \in Seq(Node), q # << >>, Contiguous(q), HasIoctl(q),
         ~Head(q).is_ioctl
  PROVE  LET p == SubSeq(q, FirstIoctl(q), Len(q))
         IN  p \in Seq(Node) /\ Contiguous(p) /\ ~HasRequest(p)
<1> DEFINE m == FirstIoctl(q)
           p == SubSeq(q, m, Len(q))
<1>1. m \in 1 .. Len(q) /\ q[m].is_ioctl /\ Len(q) \in Nat /\ Head(q) = q[1]
  BY FirstIoctlExists, LenProperties, HeadTailProperties
<1> HIDE DEF m
<1>2. \A j \in m .. Len(q) : q[j] \in Node
  BY <1>1, ElementOfSeq
<1>3. /\ p \in Seq(Node) /\ Len(p) = Len(q) - m + 1
      /\ \A i \in 1 .. Len(p) : p[i] = q[m + i - 1]
  BY <1>1, <1>2, SubSeqProperties
<1> HIDE DEF p
<1>4. m # 1
  BY <1>1
<1>5. /\ m - 1 \in Nat /\ m - 1 > 0 /\ Len(p) + (m - 1) <= Len(q)
      /\ \A i \in 1 .. Len(p) : p[i] = q[i + (m - 1)]
      /\ 1 \in 1 .. Len(p) /\ p[1] = q[m]
  BY <1>1, <1>3, <1>4
<1>6. Contiguous(p) /\ ~HasRequest(p)
  BY <1>1, <1>3, <1>5, ContiguousRest
<1> QED
  BY <1>3, <1>6 DEF p, m

(* Each step of a section keeps its request.                               *)
LEMMA RequestKeptStep ==
  ASSUME NEW d, NEW k, NEW b \in BlockLayer, Good(d, k), RequestKept(k, b),
         NEW e, NEW h \in SectionStruct, NEW c,
         SectionStepped(d, k, b, e, h, c)
  PROVE  RequestKept(h, c)
<1> DEFINE q == k.cmd_queue
<1>0. /\ k \in SectionStruct /\ q \in Seq(Node) /\ Contiguous(q)
      /\ k.ends \in Nat /\ k.result \in {"none", "OK", "IOERR"}
      /\ b.pc \in {"idle", "building", "failing"}
      /\ AllocFails \in BOOLEAN
  BY DriverAssumption DEF Good, SectionStruct, RequestKept, BlockLayer
<1>1. CASE Untouched(d, k, b, e, h, c)
  BY <1>1 DEF Untouched
<1>2. CASE Dispatched(d, k, b, e, h, c)
  <2>1. PICK r \in Requests :
          /\ h = [k EXCEPT !.req = r, !.ends = 0, !.result = "none"]
          /\ c = [pc |-> "building", rq |-> r, moved |-> 0]
    BY <1>2 DEF Dispatched
  <2>2. /\ h.cmd_queue = q /\ h.req = r /\ h.ends = 0 /\ h.result = "none"
        /\ c.pc = "building" /\ c.rq = r
    BY <1>0, <2>1 DEF SectionStruct
  <2>3. r # NoReq
    BY RealRequest
  <2>4. ~HasRequest(q)
    BY <1>2 DEF Dispatched, RequestKept
  <2> QED
    BY <1>0, <2>2, <2>3, <2>4 DEF RequestKept
<1>3. CASE Submitted(d, k, b, e, h, c)
  <2>1. /\ b.pc = "building" /\ b.rq \in Requests /\ SameRequest(k, h)
        /\ h.cmd_queue = q \o RequestNodes(b.rq)
        /\ c.pc = "idle" /\ c.rq = b.rq
    BY <1>3 DEF Submitted, Enqueued, BlockLayer
  <2>2. ~HasRequest(q) /\ k.req # NoReq
    BY <2>1 DEF RequestKept
  <2>3. Contiguous(h.cmd_queue)
    BY <1>0, <2>1, <2>2, ContiguousRequest
  <2> QED
    BY <2>1, <2>2, <2>3 DEF RequestKept, SameRequest
<1>4. CASE SubmitFailed(d, k, b, e, h, c)
  <2>1. /\ AllocFails /\ b.pc = "building" /\ h = EndRequestHelper(k, "IOERR")
        /\ c.pc = "failing" /\ c.rq = b.rq
    BY <1>4 DEF SubmitFailed, BlockLayer
  <2>2. ~HasRequest(q) /\ k.req # NoReq
    BY <2>1 DEF RequestKept
  <2>3. h.cmd_queue = q /\ Ended(k, h, "IOERR") /\ h.req = NoReq
    BY <1>0, <2>1, EndEffect
  <2> QED
    BY <1>0, <2>1, <2>2, <2>3 DEF RequestKept, Ended
<1>5. CASE ErrorReturned(d, k, b, e, h, c)
  <2>1. /\ b.pc = "failing" /\ h = BlkMqEndRequest(k, "IOERR")
        /\ c.pc = "idle" /\ c.rq = b.rq
    BY <1>5 DEF ErrorReturned, BlockLayer
  <2>2. k.ends # 0 /\ k.result # "none" /\ k.req = NoReq /\ AllocFails
    BY <1>0, <2>1 DEF RequestKept
  <2>3. /\ h.cmd_queue = q /\ h.req = NoReq /\ h.ends = k.ends + 1
        /\ h.result = k.result
    <3>1. h = [k EXCEPT !.ends = k.ends + 1, !.result = k.result]
      BY <2>1, <2>2 DEF BlkMqEndRequest
    <3> QED
      BY <1>0, <2>2, <3>1 DEF SectionStruct
  <2>4. ~HasRequest(q)
    BY <2>1 DEF RequestKept
  <2> QED
    BY <1>0, <2>1, <2>2, <2>3, <2>4 DEF RequestKept
<1>6. CASE EjectQueued(d, k, b, e, h, c)
  <2>1. h.cmd_queue = q \o <<EjectNode>> /\ SameRequest(k, h) /\ c = b
    BY <1>6 DEF EjectQueued, Enqueued
  <2>2. Contiguous(h.cmd_queue) /\ (HasRequest(h.cmd_queue) <=> HasRequest(q))
    BY <1>0, <2>1, ContiguousEject
  <2> QED
    BY <2>1, <2>2 DEF RequestKept, SameRequest
<1>7. CASE EjectOver(d, k, b, e, h, c)
  BY <1>7 DEF EjectOver, RequestKept, SameRequest
<1>8. CASE ReportHandled(d, k, b, e, h, c)
  <2>0. q # << >> /\ c = b
    BY <1>8 DEF ReportHandled, Good, Matches
  <2>1. CASE HeadKept(k, h)
    BY <2>0, <2>1 DEF HeadKept
  <2>2. CASE HeadPopped(d, k, h)
    <3>1. h.cmd_queue = Tail(q) /\ SameRequest(k, h)
      BY <2>2 DEF HeadPopped
    <3>2. Contiguous(Tail(q)) /\ (HasRequest(Tail(q)) => HasRequest(q))
      BY <1>0, <2>0, ContiguousTail
    <3> QED
      BY <2>0, <3>1, <3>2 DEF RequestKept, SameRequest
  <2>3. ASSUME Contiguous(h.cmd_queue), ~HasRequest(h.cmd_queue),
               ~Head(q).is_ioctl, h.req = NoReq,
               \/ h.ends = k.ends /\ h.result = k.result
               \/ h.ends = k.ends + 1 /\ h.result # "none"
        PROVE  RequestKept(h, c)
    <3>1. HasRequest(q)
      <4>1. 1 \in 1 .. Len(q) /\ Head(q) = q[1]
        BY <1>0, <2>0, EmptySeq, LenProperties
      <4> QED
        BY <2>3, <4>1 DEF HasRequest
    <3>2. b.pc = "idle" /\ k.req # NoReq /\ k.ends = 0 /\ k.result = "none"
      BY <3>1 DEF RequestKept
    <3> QED
      BY <2>0, <2>3, <3>2 DEF RequestKept
  <2>4. ASSUME NEW st \in {"OK", "IOERR"}, Ended(k, h, st), k.req # NoReq
        PROVE  h.req = NoReq /\ h.ends = k.ends + 1 /\ h.result # "none"
    BY <1>0, <2>4 DEF Ended
  <2>5. ~Head(q).is_ioctl => k.req # NoReq
    <3>1. 1 \in 1 .. Len(q) /\ Head(q) = q[1]
      BY <1>0, <2>0, EmptySeq, LenProperties
    <3> QED
      BY <3>1 DEF HasRequest, RequestKept
  <2>6. CASE RequestDone(d, k, h)
    <3>1. /\ LastOfRequest(q) /\ h.cmd_queue = Tail(q) /\ Ended(k, h, "OK")
          /\ ~Head(q).is_ioctl
      BY <2>6 DEF RequestDone, LastOfRequest
    <3>2. Contiguous(Tail(q)) /\ ~HasRequest(Tail(q))
      BY <1>0, <2>0, <3>1, ContiguousTail
    <3> QED
      BY <2>3, <2>4, <2>5, <3>1, <3>2
  <2>7. CASE RequestAborted(k, h)
    <3>1. /\ ~Head(q).is_ioctl /\ HasIoctl(q) /\ Ended(k, h, "IOERR")
          /\ h.cmd_queue = SubSeq(q, FirstIoctl(q), Len(q))
      BY <2>7 DEF RequestAborted
    <3>2. Contiguous(h.cmd_queue) /\ ~HasRequest(h.cmd_queue)
      BY <1>0, <2>0, <3>1, ContiguousAbort
    <3> QED
      BY <2>3, <2>4, <2>5, <3>1, <3>2
  <2>8. CASE RequestForgotten(k, h)
    <3>1. /\ ~Head(q).is_ioctl /\ h.cmd_queue = << >> /\ h.req = NoReq
          /\ h.ends = k.ends /\ h.result = k.result
      BY <2>8 DEF RequestForgotten
    <3>2. Contiguous(h.cmd_queue) /\ ~HasRequest(h.cmd_queue)
      BY <3>1 DEF Contiguous, HasRequest
    <3> QED
      BY <2>3, <3>1, <3>2
  <2> QED
    BY <1>8, <2>1, <2>2, <2>6, <2>7, <2>8 DEF ReportHandled, Reported
<1>9. CASE DeviceTicked(d, k, b, e, h, c)
  <2>1. h = k /\ c.pc = b.pc /\ c.rq = b.rq
    BY <1>9 DEF DeviceTicked, BlockLayer
  <2> QED
    BY <2>1 DEF RequestKept
<1> QED
  BY <1>1, <1>2, <1>3, <1>4, <1>5, <1>6, <1>7, <1>8, <1>9
     DEF SectionStepped

(* RequestsKept is inductive, given IInv.                                  *)
LEMMA RequestsKeptAlways == Spec => []RequestsKept
<1>1. Init => RequestsKept
  <2> SUFFICES ASSUME Init, NEW s \in Sections
               PROVE  RequestKept(sec[s], blk[s])
    BY DEF RequestsKept
  <2>1. /\ sec[s].cmd_queue = << >> /\ sec[s].req = NoReq
        /\ sec[s].ends = 0 /\ sec[s].result = "none"
        /\ blk[s].pc = "idle" /\ blk[s].rq = NoReq
    BY DEF Init
  <2>2. Contiguous(sec[s].cmd_queue) /\ ~HasRequest(sec[s].cmd_queue)
    BY <2>1 DEF Contiguous, HasRequest
  <2> QED
    BY <2>1, <2>2 DEF RequestKept
<1>2. IInv /\ IInv' /\ RequestsKept /\ [Next]_vars => RequestsKept'
  <2> SUFFICES ASSUME IInv, IInv', RequestsKept, [Next]_vars,
                      NEW x \in Sections
               PROVE  RequestKept(sec'[x], blk'[x])
    BY DEF RequestsKept
  <2>1. PICK s \in Sections : OnlySection(s)
    BY OneSectionSteps
  <2>2. /\ Good(dev[s], sec[s]) /\ blk[s] \in BlockLayer
        /\ sec'[s] \in SectionStruct
    BY DEF IInv, TypeOK
  <2>3. RequestKept(sec'[s], blk'[s])
    BY <2>1, <2>2, RequestKeptStep DEF OnlySection, RequestsKept
  <2> QED
    BY <2>1, <2>3 DEF OnlySection, RequestsKept
<1> QED
  BY <1>1, <1>2, Inductive, PTL DEF Spec

(* The commands of a request stay together and belong to the open request  *)
(* sec->req points to: the tests by which __end_req_if_completed and       *)
(* __abort_rest_of_req_cmds tell where a request ends are right.           *)
THEOREM RequestsStayContiguous == Spec => []RequestContiguous
<1>1. RequestsKept => RequestContiguous
  BY DEF RequestsKept, RequestKept, RequestContiguous, Contiguous, Queue,
         InFlight
<1> QED
  BY <1>1, RequestsKeptAlways, PTL

(* If no allocation fails in queue_rq, blk_mq_end_request is called once   *)
(* at most for every request (_end_request_helper clears sec->req).        *)
THEOREM EndedAtMostOnce ==
  ASSUME ~AllocFails
  PROVE  Spec => []EndedOnce
<1>1. RequestsKept => EndedOnce
  BY DEF RequestsKept, RequestKept, EndedOnce
<1> QED
  BY <1>1, RequestsKeptAlways, PTL
-----------------------------------------------------------------------------
(* The bookkeeping of the EJECT ioctl.                                     *)

IoctlIndices(q) == {i \in 1 .. Len(q) : q[i].is_ioctl}

(* EjectsCovered for one section; the threads that wait are finitely many. *)
EjectCovered(k) ==
  /\ IoctlNodes(k.cmd_queue) + (IF k.ioctl_cmd_done THEN 1 ELSE 0)
       <= k.ejection_cmds
  /\ IsFiniteSet(k.wait_q)
  /\ Cardinality(k.wait_q) <= k.ejection_cmds

AllEjectsCovered == \A s \in Sections : EjectCovered(sec[s])

(* The ioctl commands of a queue are finitely many.                        *)
LEMMA IoctlNodesType ==
  ASSUME NEW q \in Seq(Node)
  PROVE  /\ IsFiniteSet(IoctlIndices(q))
         /\ IoctlNodes(q) = Cardinality(IoctlIndices(q))
         /\ IoctlNodes(q) \in Nat
<1>1. Len(q) \in Nat
  BY LenProperties
<1>2. IsFiniteSet(1 .. Len(q))
  BY <1>1, FS_Interval
<1>3. IoctlIndices(q) \in SUBSET (1 .. Len(q))
  BY DEF IoctlIndices
<1>4. IsFiniteSet(IoctlIndices(q))
  BY <1>2, <1>3, FS_Subset
<1> QED
  BY <1>4, FS_CardinalityType DEF IoctlNodes, IoctlIndices

(* A later part of the queue, m commands dropped, has no more of them; it  *)
(* has one less at least if the head was one.                              *)
LEMMA IoctlNodesRest ==
  ASSUME NEW q \in Seq(Node), NEW p \in Seq(Node),
         NEW m \in Nat, Len(p) + m <= Len(q),
         \A i \in 1 .. Len(p) : p[i] = q[i + m]
  PROVE  /\ IoctlNodes(p) <= IoctlNodes(q)
         /\ m > 0 /\ q # << >> /\ q[1].is_ioctl =>
              IoctlNodes(p) + 1 <= IoctlNodes(q)
<1> DEFINE S == IoctlIndices(p)
           T == IoctlIndices(q)
           f == [i \in S |-> i + m]
<1>1. /\ Len(p) \in Nat /\ Len(q) \in Nat
      /\ IsFiniteSet(S) /\ IsFiniteSet(T)
      /\ IoctlNodes(p) = Cardinality(S) /\ IoctlNodes(q) = Cardinality(T)
      /\ Cardinality(S) \in Nat /\ Cardinality(T) \in Nat
  BY LenProperties, IoctlNodesType
<1>2. \A i \in S : i \in Nat /\ i >= 1 /\ i + m \in T
  BY <1>1 DEF IoctlIndices
<1>3. ASSUME NEW U \in SUBSET T, \A i \in S : i + m \in U
      PROVE  Cardinality(S) <= Cardinality(U)
  <2>1. f \in [S -> U]
    BY <1>3
  <2>2. \A i, j \in S : f[i] = f[j] => i = j
    BY <1>2
  <2>3. f \in Injection(S, U)
    BY <2>1, <2>2 DEF Injection, IsInjective
  <2>4. IsFiniteSet(U)
    BY <1>1, FS_Subset
  <2> QED
    BY <2>3, <2>4, FS_Injection
<1>4. IoctlNodes(p) <= IoctlNodes(q)
  BY <1>1, <1>2, <1>3
<1>5. ASSUME m > 0, q # << >>, q[1].is_ioctl
      PROVE  IoctlNodes(p) + 1 <= IoctlNodes(q)
  <2>1. 1 \in T
    BY <1>1, <1>5, EmptySeq DEF IoctlIndices
  <2>2. Cardinality(T \ {1}) = Cardinality(T) - 1
    BY <1>1, <2>1, FS_RemoveElement
  <2>3. \A i \in S : i + m \in T \ {1}
    BY <1>2, <1>5
  <2>4. Cardinality(S) <= Cardinality(T \ {1})
    BY <1>3, <2>3
  <2> QED
    BY <1>1, <2>2, <2>4
<1> QED
  BY <1>4, <1>5

(* Popping the head.                                                       *)
LEMMA IoctlNodesTail ==
  ASSUME NEW q \in Seq(Node), q # << >>
  PROVE  /\ IoctlNodes(Tail(q)) <= IoctlNodes(q)
         /\ Head(q).is_ioctl => IoctlNodes(Tail(q)) + 1 <= IoctlNodes(q)
<1> DEFINE p == Tail(q)
<1>1. /\ p \in Seq(Node) /\ Len(p) = Len(q) - 1
      /\ \A i \in 1 .. Len(p) : p[i] = q[i + 1]
      /\ Len(q) \in Nat /\ Head(q) = q[1]
  BY HeadTailProperties, LenProperties
<1>2. 1 \in Nat /\ 1 > 0 /\ Len(p) + 1 <= Len(q)
  BY <1>1
<1> HIDE DEF p
<1>3. /\ IoctlNodes(p) <= IoctlNodes(q)
      /\ q[1].is_ioctl => IoctlNodes(p) + 1 <= IoctlNodes(q)
  BY <1>1, <1>2, IoctlNodesRest
<1> QED
  BY <1>1, <1>3 DEF p

(* Dropping everything in front of the first ioctl command.                *)
LEMMA IoctlNodesAbort ==
  ASSUME NEW q \in Seq(Node), HasIoctl(q)
  PROVE  IoctlNodes(SubSeq(q, FirstIoctl(q), Len(q))) <= IoctlNodes(q)
<1> DEFINE m == FirstIoctl(q)
           p == SubSeq(q, m, Len(q))
<1>1. m \in 1 .. Len(q) /\ Len(q) \in Nat
  BY FirstIoctlExists, LenProperties
<1> HIDE DEF m
<1>2. \A j \in m .. Len(q) : q[j] \in Node
  BY <1>1, ElementOfSeq
<1>3. /\ p \in Seq(Node) /\ Len(p) = Len(q) - m + 1
      /\ \A i \in 1 .. Len(p) : p[i] = q[m + i - 1]
  BY <1>1, <1>2, SubSeqProperties
<1> HIDE DEF p
<1>4. /\ m - 1 \in Nat /\ Len(p) + (m - 1) <= Len(q)
      /\ \A i \in 1 .. Len(p) : p[i] = q[i + (m - 1)]
  BY <1>1, <1>3
<1>5. IoctlNodes(p) <= IoctlNodes(q)
  BY <1>3, <1>4, IoctlNodesRest
<1> QED
  BY <1>5 DEF p, m

(* Appending the commands of a request, or one ioctl command.              *)
LEMMA IoctlNodesAppend ==
  ASSUME NEW q \in Seq(Node), NEW nodes \in Seq(Node)
  PROVE  /\ (\A i \in 1 .. Len(nodes) : ~nodes[i].is_ioctl) =>
              IoctlNodes(q \o nodes) = IoctlNodes(q)
         /\ Len(nodes) = 1 => IoctlNodes(q \o nodes) <= IoctlNodes(q) + 1
<1> DEFINE p == q \o nodes
           S == IoctlIndices(p)
           T == IoctlIndices(q)
<1>1. /\ p \in Seq(Node) /\ Len(p) = Len(q) + Len(nodes)
      /\ Len(q) \in Nat /\ Len(nodes) \in Nat
      /\ \A i \in 1 .. Len(p) : p[i] = IF i <= Len(q) THEN q[i]
                                        ELSE nodes[i - Len(q)]
  BY ConcatProperties, LenProperties
<1> HIDE DEF p
<1>2. /\ IsFiniteSet(S) /\ IsFiniteSet(T)
      /\ IoctlNodes(p) = Cardinality(S) /\ IoctlNodes(q) = Cardinality(T)
      /\ Cardinality(S) \in Nat /\ Cardinality(T) \in Nat
  BY <1>1, IoctlNodesType
<1>3. ASSUME \A i \in 1 .. Len(nodes) : ~nodes[i].is_ioctl
      PROVE  IoctlNodes(p) = IoctlNodes(q)
  <2>1. S = T
    BY <1>1, <1>3 DEF IoctlIndices
  <2> QED
    BY <1>2, <2>1
<1>4. ASSUME Len(nodes) = 1
      PROVE  IoctlNodes(p) <= IoctlNodes(q) + 1
  <2>1. S \subseteq T \cup {Len(q) + 1}
    BY <1>1, <1>4 DEF IoctlIndices
  <2>2. /\ IsFiniteSet(T \cup {Len(q) + 1})
        /\ Cardinality(T \cup {Len(q) + 1}) <= Cardinality(T) + 1
    <3>1. /\ IsFiniteSet(T \cup {Len(q) + 1})
          /\ Cardinality(T \cup {Len(q) + 1}) =
               IF Len(q) + 1 \in T THEN Cardinality(T) ELSE Cardinality(T) + 1
      BY <1>2, FS_AddElement, Zenon
    <3> QED
      BY <1>2, <3>1
  <2>3. Cardinality(S) <= Cardinality(T \cup {Len(q) + 1})
    BY <2>1, <2>2, FS_Subset
  <2>4. Cardinality(T \cup {Len(q) + 1}) \in Nat
    BY <2>2, FS_CardinalityType
  <2> QED
    BY <1>2, <2>2, <2>3, <2>4
<1> QED
  BY <1>3, <1>4 DEF p

(* Each step of a section keeps its ejects covered.                        *)
LEMMA EjectCoveredStep ==
  ASSUME NEW d, NEW k, NEW b, Good(d, k), EjectCovered(k),
         NEW e, NEW h \in SectionStruct, NEW c,
         SectionStepped(d, k, b, e, h, c)
  PROVE  EjectCovered(h)
<1> DEFINE q == k.cmd_queue
           done(x) == IF x.ioctl_cmd_done THEN 1 ELSE 0
<1>0. /\ k \in SectionStruct /\ q \in Seq(Node) /\ h.cmd_queue \in Seq(Node)
      /\ k.ejection_cmds \in Int /\ h.ejection_cmds \in Int
      /\ IoctlNodes(q) \in Nat /\ IoctlNodes(h.cmd_queue) \in Nat
      /\ IsFiniteSet(k.wait_q) /\ Cardinality(k.wait_q) \in Nat
      /\ Cardinality(k.wait_q) <= k.ejection_cmds
      /\ IoctlNodes(q) + done(k) <= k.ejection_cmds
      /\ k.ioctl_cmd_done \in BOOLEAN
  BY IoctlNodesType, FS_CardinalityType DEF Good, SectionStruct, EjectCovered
<1>1. ASSUME h.wait_q = k.wait_q, h.ejection_cmds = k.ejection_cmds,
             IoctlNodes(h.cmd_queue) + done(h) <= IoctlNodes(q) + done(k)
      PROVE  EjectCovered(h)
  BY <1>0, <1>1 DEF EjectCovered
<1>2. ASSUME h.cmd_queue = q, h.ioctl_cmd_done = k.ioctl_cmd_done,
             h.wait_q = k.wait_q, h.ejection_cmds = k.ejection_cmds
      PROVE  EjectCovered(h)
  BY <1>0, <1>2 DEF EjectCovered
<1>3. CASE Untouched(d, k, b, e, h, c) \/ DeviceTicked(d, k, b, e, h, c)
  BY <1>3 DEF Untouched, DeviceTicked
<1>4. CASE Dispatched(d, k, b, e, h, c)
  BY <1>0, <1>2, <1>4 DEF Dispatched, SectionStruct
<1>5. CASE Submitted(d, k, b, e, h, c)
  <2> DEFINE nodes == RequestNodes(b.rq)
  <2>1. /\ b.rq \in Requests /\ h.cmd_queue = q \o nodes
        /\ h.ioctl_cmd_done = k.ioctl_cmd_done
        /\ h.wait_q = k.wait_q /\ h.ejection_cmds = k.ejection_cmds
    BY <1>5 DEF Submitted, Enqueued
  <2>2. nodes \in Seq(Node) /\ \A i \in 1 .. Len(nodes) : ~nodes[i].is_ioctl
    <3>1. b.rq.plan \in Seq(Command)
      BY <2>1, RealRequest
    <3>2. Len(b.rq.plan) \in Nat /\ Len(nodes) = Len(b.rq.plan)
      BY <3>1, LenProperties DEF RequestNodes
    <3> QED
      BY <2>1, <3>2, NodesOfRequest DEF RequestNodes
  <2> HIDE DEF nodes
  <2>3. IoctlNodes(h.cmd_queue) = IoctlNodes(q)
    BY <1>0, <2>1, <2>2, IoctlNodesAppend
  <2> QED
    BY <1>0, <1>1, <2>1, <2>3
<1>6. CASE SubmitFailed(d, k, b, e, h, c)
  BY <1>0, <1>2, <1>6, EndEffect DEF SubmitFailed
<1>7. CASE ErrorReturned(d, k, b, e, h, c)
  BY <1>0, <1>2, <1>7 DEF ErrorReturned, BlkMqEndRequest, SectionStruct
<1>8. CASE EjectQueued(d, k, b, e, h, c)
  <2>1. h.cmd_queue = q \o <<EjectNode>> /\ h.ioctl_cmd_done = FALSE
    BY <1>8 DEF EjectQueued, Enqueued
  <2>2. <<EjectNode>> \in Seq(Node) /\ Len(<<EjectNode>>) = 1
    BY DEF EjectNode, Node, Command, Ops
  <2>3. IoctlNodes(h.cmd_queue) <= IoctlNodes(q) + 1
    BY <1>0, <2>1, <2>2, IoctlNodesAppend
  <2>4. CASE k.ioctl_cmd_done
    BY <1>0, <1>1, <1>8, <2>1, <2>3, <2>4 DEF EjectQueued
  <2>5. CASE ~k.ioctl_cmd_done
    <3>1. PICK t \in Threads \ k.wait_q :
            /\ h.wait_q = k.wait_q \cup {t}
            /\ h.ejection_cmds = k.ejection_cmds + 1
      BY <1>8, <2>5 DEF EjectQueued
    <3>2. /\ IsFiniteSet(h.wait_q)
          /\ Cardinality(h.wait_q) = Cardinality(k.wait_q) + 1
      <4>1. /\ IsFiniteSet(k.wait_q \cup {t})
            /\ Cardinality(k.wait_q \cup {t}) =
                 IF t \in k.wait_q THEN Cardinality(k.wait_q)
                 ELSE Cardinality(k.wait_q) + 1
        BY <1>0, FS_AddElement, Zenon
      <4> QED
        BY <3>1, <4>1
    <3> QED
      BY <1>0, <2>1, <2>3, <2>5, <3>1, <3>2 DEF EjectCovered
  <2> QED
    BY <2>4, <2>5
<1>9. CASE EjectOver(d, k, b, e, h, c)
  <2>1. PICK t \in k.wait_q : h.wait_q = k.wait_q \ {t}
    BY <1>9 DEF EjectOver
  <2>2. /\ IsFiniteSet(h.wait_q)
        /\ Cardinality(h.wait_q) = Cardinality(k.wait_q) - 1
    BY <1>0, <2>1, FS_RemoveElement
  <2> QED
    BY <1>0, <1>9, <2>2 DEF EjectOver, EjectCovered
<1>10. CASE ReportHandled(d, k, b, e, h, c)
  <2>0. /\ q # << >> /\ Reported(d, k, h)
        /\ h.wait_q = k.wait_q /\ h.ejection_cmds = k.ejection_cmds
    BY <1>10 DEF ReportHandled, Reported, Good, Matches
  <2>1. CASE HeadKept(k, h)
    BY <2>1 DEF HeadKept
  <2>2. CASE HeadPopped(d, k, h)
    <3>1. /\ h.cmd_queue = Tail(q)
          /\ h.ioctl_cmd_done => k.ioctl_cmd_done \/ Head(q).is_ioctl
      BY <2>2 DEF HeadPopped
    <3>2. /\ IoctlNodes(Tail(q)) <= IoctlNodes(q)
          /\ Head(q).is_ioctl => IoctlNodes(Tail(q)) + 1 <= IoctlNodes(q)
      BY <1>0, <2>0, IoctlNodesTail
    <3>3. IoctlNodes(h.cmd_queue) + done(h) <= IoctlNodes(q) + done(k)
      <4>1. CASE ~h.ioctl_cmd_done \/ k.ioctl_cmd_done
        BY <1>0, <3>1, <3>2, <4>1
      <4>2. CASE h.ioctl_cmd_done /\ ~k.ioctl_cmd_done
        BY <1>0, <3>1, <3>2, <4>2
      <4> QED
        BY <4>1, <4>2
    <3> QED
      BY <1>1, <2>0, <3>3
  <2>3. CASE RequestDone(d, k, h)
    <3>1. h.cmd_queue = Tail(q) /\ h.ioctl_cmd_done = k.ioctl_cmd_done
      BY <2>3 DEF RequestDone
    <3>2. IoctlNodes(h.cmd_queue) <= IoctlNodes(q)
      BY <1>0, <2>0, <3>1, IoctlNodesTail
    <3> QED
      BY <1>0, <1>1, <2>0, <3>1, <3>2
  <2>4. CASE RequestAborted(k, h)
    <3>1. /\ h.cmd_queue = SubSeq(q, FirstIoctl(q), Len(q)) /\ HasIoctl(q)
          /\ h.ioctl_cmd_done = k.ioctl_cmd_done
      BY <2>4 DEF RequestAborted
    <3>2. IoctlNodes(h.cmd_queue) <= IoctlNodes(q)
      BY <1>0, <3>1, IoctlNodesAbort
    <3> QED
      BY <1>0, <1>1, <2>0, <3>1, <3>2
  <2>5. CASE RequestForgotten(k, h)
    <3>1. h.cmd_queue = << >> /\ h.ioctl_cmd_done = k.ioctl_cmd_done
      BY <2>5 DEF RequestForgotten
    <3>2. IoctlIndices(h.cmd_queue) = {}
      BY <3>1 DEF IoctlIndices
    <3>3. IoctlNodes(h.cmd_queue) = 0
      BY <1>0, <3>2, IoctlNodesType, FS_EmptySet
    <3> QED
      BY <1>0, <1>1, <2>0, <3>1, <3>3
  <2> QED
    BY <2>0, <2>1, <2>2, <2>3, <2>4, <2>5 DEF Reported
<1> QED
  BY <1>3, <1>4, <1>5, <1>6, <1>7, <1>8, <1>9, <1>10 DEF SectionStepped

(* ejection_cmds covers the eject commands in the queue with the           *)
(* completion nobody has taken, and the threads that wait: it is never     *)
(* decremented below what is still to come, whatever signals, stolen       *)
(* completions and aborted requests there are (tapedev_ioctl and the two   *)
(* handlers).                                                              *)
THEOREM EjectsAlwaysCovered == Spec => []EjectsCovered
<1>1. Init => AllEjectsCovered
  <2> SUFFICES ASSUME Init, NEW s \in Sections
               PROVE  EjectCovered(sec[s])
    BY DEF AllEjectsCovered
  <2>1. /\ sec[s].cmd_queue = << >> /\ sec[s].wait_q = {}
        /\ sec[s].ioctl_cmd_done = FALSE /\ sec[s].ejection_cmds = 0
    BY DEF Init
  <2>2. IoctlIndices(<< >>) = {} /\ << >> \in Seq(Node)
    BY EmptySeq DEF IoctlIndices
  <2>3. IoctlNodes(sec[s].cmd_queue) = 0
    BY <2>1, <2>2, IoctlNodesType, FS_EmptySet
  <2> QED
    BY <2>1, <2>3, FS_EmptySet DEF EjectCovered
<1>2. IInv /\ IInv' /\ AllEjectsCovered /\ [Next]_vars => AllEjectsCovered'
  <2> SUFFICES ASSUME IInv, IInv', AllEjectsCovered, [Next]_vars,
                      NEW x \in Sections
               PROVE  EjectCovered(sec'[x])
    BY DEF AllEjectsCovered
  <2>1. PICK s \in Sections : OnlySection(s)
    BY OneSectionSteps
  <2>2. Good(dev[s], sec[s]) /\ sec'[s] \in SectionStruct
    BY DEF IInv, TypeOK
  <2>3. EjectCovered(sec'[s])
    BY <2>1, <2>2, EjectCoveredStep DEF OnlySection, AllEjectsCovered
  <2> QED
    BY <2>1, <2>3 DEF OnlySection, AllEjectsCovered
<1>3. AllEjectsCovered => EjectsCovered
  BY DEF AllEjectsCovered, EjectCovered, EjectsCovered, Queue
<1> QED
  BY <1>1, <1>2, <1>3, Inductive, PTL DEF Spec
-----------------------------------------------------------------------------
(* How far the device is with the plan of a request.                       *)

ProgressOf(r) == CHOOSE f \in Progress(r.plan, r.size) : TRUE

(* The request commands in q are those of plan but for the first o, or,    *)
(* when o is negative, all of them behind -o ioctl commands.               *)
Follows(q, plan, o) ==
  \A j \in 1 .. Len(q) : ~q[j].is_ioctl =>
    /\ j + o \in 1 .. Len(plan)
    /\ q[j].cmd = plan[j + o]
    /\ j > 1 /\ q[j - 1].is_ioctl => j + o = 1
    /\ j = Len(q) \/ q[j + 1].is_ioctl => j + o = Len(plan)

(* With the first o commands done: a tape is in when the next one needs    *)
(* it, and the device has moved the blocks of those o commands and what it *)
(* has done of the next.                                                   *)
AtHead(d, k, b, o) ==
  LET head == Head(k.cmd_queue)
      f == ProgressOf(b.rq)
  IN  IF head.is_ioctl THEN b.moved = 0
      ELSE /\ head.cmd.op \notin {"EJECT_TAPE", "TAKE_TAPE"} =>
                k.current_tape # 0
           /\ d.state = "busy" =>
                /\ b.moved + d.left = f[o + 1]
                /\ ~IsTransfer(head.cmd) => d.left = 0
           /\ d.done => b.moved = f[o + 1]
           /\ d.err /\ d.status = "NO_TAPE" => b.moved = f[o]

(* NoTapeOnlyForEject and OkMeansTransferred for one section, and what     *)
(* makes them inductive: where in its plan the request is.                 *)
OnPlan(d, k, b) ==
  LET q == k.cmd_queue
  IN  /\ \A j \in 1 .. Len(q) : q[j].is_ioctl => q[j].cmd = EjectNode.cmd
      /\ d.err /\ d.status = "NO_TAPE" => Head(q).cmd.op = "EJECT_TAPE"
      /\ b.pc = "building" => b.moved = 0
      /\ k.result = "OK" => b.moved = b.rq.size
      /\ HasRequest(q) =>
           \E o \in Int : Follows(q, b.rq.plan, o) /\ AtHead(d, k, b, o)

AllOnPlan == \A s \in Sections : OnPlan(dev[s], sec[s], blk[s])
(* What PlanShape says of a request.                                       *)
LEMMA PlanFacts ==
  ASSUME NEW r \in Requests
  PROVE  LET f == ProgressOf(r)
             n == Len(r.plan)
         IN  /\ r.plan \in Seq(Command) /\ n \in Nat /\ n > 0 /\ r.size \in Nat
             /\ r.plan[1].op = "EJECT_TAPE"
             /\ \A i \in 1 .. n :
                  /\ r.plan[i] \in Command
                  /\ r.plan[i].op = "EJECT_TAPE" =>
                       i < n /\ r.plan[i + 1].op = "TAKE_TAPE"
                  /\ r.plan[i].op = "TAKE_TAPE" => r.plan[i].arg # 0
                  /\ f[i] = f[i - 1] + Blocks(r.plan[i])
             /\ \A i \in 0 .. n : f[i] \in Nat /\ f[i] <= r.size
             /\ f[0] = 0 /\ f[n] = r.size
<1>1. /\ r.plan \in Seq(Command) /\ r.size \in Nat
      /\ PlanShape(r.plan, r.size) /\ r.plan # << >>
  BY DriverAssumption DEF PlanShape
<1>2. Len(r.plan) \in Nat /\ Len(r.plan) > 0
        /\ \A i \in 1 .. Len(r.plan) : r.plan[i] \in Command
  BY <1>1, EmptySeq, LenProperties, ElementOfSeq
<1>3. ProgressOf(r) \in Progress(r.plan, r.size)
  BY <1>1 DEF PlanShape, ProgressOf
<1> QED
  BY <1>1, <1>2, <1>3 DEF PlanShape, Progress

(* A command starts with all its blocks to move; NO_TAPE is the answer to  *)
(* a command other than TAKE_TAPE when no tape is in.                      *)
LEMMA ExecAnswers ==
  ASSUME NEW d, DeviceConsistent(d), ~d.done, ~d.err, d.state # "busy",
         NEW c \in Command
  PROVE  LET e == Exec(d, c)
         IN  /\ ~e.done
             /\ e.state = "busy" => e.left = Blocks(c)
             /\ e.err /\ e.status = "NO_TAPE" =>
                  d.tape = 0 /\ c.op # "TAKE_TAPE"
<1>0. d \in SectionState
  BY DEF DeviceConsistent
<1>1. CASE d.state # "idle"
  BY <1>1 DEF Exec
<1>2. CASE d.state = "idle" /\ Refusal(d, c) = "none"
  <2>1. Exec(d, c) = Begin(d, c)
    BY <1>2 DEF Exec
  <2> QED
    BY <1>0, <2>1 DEF Begin, Blocks, SectionState
<1>3. CASE d.state = "idle" /\ Refusal(d, c) # "none"
  <2>1. Exec(d, c) = Complete(d, "idle", Refusal(d, c))
    BY <1>3 DEF Exec
  <2>2. Refusal(d, c) \in ErrorStatus /\ Refusal(d, c) \in Status
    BY <1>0, <1>3, RefusalType DEF Status
  <2>3. /\ ~Exec(d, c).done /\ Exec(d, c).state = "idle"
        /\ Exec(d, c).status = Refusal(d, c)
    BY <1>0, <2>1, <2>2, CompleteType
  <2>4. Refusal(d, c) = "NO_TAPE" => d.tape = 0 /\ c.op # "TAKE_TAPE"
    BY DEF Refusal
  <2> QED
    BY <2>3, <2>4
<1> QED
  BY <1>1, <1>2, <1>3

(* A command that ends raises one bit; the head does not move.             *)
LEMMA CompleteReports ==
  ASSUME NEW d \in SectionState, ~d.done, ~d.err, NEW st \in {"idle", "dead"},
         NEW status \in ErrorStatus \cup {"DONE"}
  PROVE  LET e == Complete(d, st, status)
         IN  /\ e.state # "busy" /\ e.status = status /\ e.pos = d.pos
             /\ e.done <=> status = "DONE"
             /\ e.err <=> status # "DONE"
<1>1. status \in Status /\ "DONE" \notin ErrorStatus
  BY DEF Status, ErrorStatus
<1>2. Complete(d, st, status).pos = d.pos
  BY DEF Complete, SectionState
<1> QED
  BY <1>1, <1>2, CompleteType

(* A timer step moves a block only for a transfer that has blocks left;    *)
(* a transfer is done when all are moved; no step reports NO_TAPE.         *)
LEMMA TickMoves ==
  ASSUME NEW d, DeviceConsistent(d), d.state = "busy", d.cmd \in Command,
         NEW e \in TickOutcomes(d)
  PROVE  LET n == IF Transferred(d, e) THEN 1 ELSE 0
         IN  /\ Transferred(d, e) => IsTransfer(d.cmd) /\ d.left > 0
             /\ e.state = "busy" => IsTransfer(d.cmd) /\ n + e.left = d.left
             /\ e.done => IF IsTransfer(d.cmd) THEN n = d.left ELSE n = 0
             /\ ~(e.err /\ e.status = "NO_TAPE")
<1>0. /\ d \in SectionState /\ ~d.done /\ ~d.err
      /\ d.left \in Nat /\ d.pos \in Nat
      /\ d.cmd.op = "TAKE_TAPE" => d.cmd.arg \in 1 .. NTapes
      /\ d.cmd.op \in Ops /\ d.cmd.arg \in Nat
  BY DEF DeviceConsistent, SectionState, Command
<1>1. CASE ~IsTransfer(d.cmd)
  <2>1. PICK g \in SectionState :
          ~g.done /\ ~g.err /\ e = Complete(g, "idle", "DONE")
    <3>1. CASE d.cmd.op = "TAKE_TAPE"
      <4> DEFINE g == [d EXCEPT !.tape = d.cmd.arg, !.pos = d.saved[d.cmd.arg]]
      <4>1. e = Complete(g, "idle", "DONE")
        BY <3>1 DEF TickOutcomes
      <4>2. d.cmd.arg \in 0 .. NTapes /\ d.saved[d.cmd.arg] \in Nat
        BY <1>0, <3>1, GeometryAssumption DEF SectionState
      <4>3. g \in SectionState /\ ~g.done /\ ~g.err
        BY <1>0, <4>2 DEF SectionState
      <4> QED
        BY <4>1, <4>3
    <3>2. CASE d.cmd.op = "EJECT_TAPE"
      <4> DEFINE g == [d EXCEPT !.tape = 0, !.pos = 0]
      <4>1. e = Complete(g, "idle", "DONE")
        BY <3>2 DEF TickOutcomes
      <4>2. 0 \in 0 .. NTapes
        BY GeometryAssumption
      <4>3. g \in SectionState /\ ~g.done /\ ~g.err
        BY <1>0, <4>2 DEF SectionState
      <4> QED
        BY <4>1, <4>3
    <3>3. CASE d.cmd.op \in {"REWIND", "FAST_FWD"}
      <4>1. PICK p \in Nat : e = Complete(MoveTo(d, p), "idle", "DONE")
        <5>1. d.pos + d.cmd.arg \in Nat /\ 0 \in Nat
          BY <1>0
        <5> QED
          BY <3>3, <5>1 DEF TickOutcomes
      <4>2. MoveTo(d, p) \in SectionState
              /\ ~MoveTo(d, p).done /\ ~MoveTo(d, p).err
        <5>1. d \in SectionState /\ p \in Nat /\ ~d.done /\ ~d.err
          BY <1>0
        <5> HIDE DEF IsTransfer
        <5> QED
          BY <5>1, MoveType
      <4> QED
        BY <4>1, <4>2
    <3> QED
      BY <1>0, <1>1, <3>1, <3>2, <3>3 DEF IsTransfer, Ops
  <2>3. e.state # "busy" /\ e.status = "DONE"
    BY <2>1, CompleteReports
  <2> QED
    BY <1>1, <2>3 DEF Transferred
<1>2. CASE IsTransfer(d.cmd)
  <2> DEFINE f == [d EXCEPT !.left = @ - 1]
             moved == MoveTo(f, d.pos + 1)
  <2>1. e \in TransferBlock(d)
    BY <1>2 DEF TickOutcomes, IsTransfer
  <2>2. \/ e = Complete(d, "idle", "READ_PAST_END")
        \/ d.left = 0 /\ e = Complete(d, "idle", "DONE")
        \/ d.left # 0 /\ d.left # 1 /\ e = moved
        \/ d.left = 1 /\ e = Complete(moved, "idle", "DONE")
        \/ e = Complete(d, "idle", "PGTABLE")
        \/ e = Complete(d, "dead", "PGTABLE")
        \/ e = Complete(d, "dead", "IO")
    BY <2>1 DEF TransferBlock
  <2>3. {"READ_PAST_END", "PGTABLE", "IO"} \subseteq ErrorStatus
    BY DEF ErrorStatus
  <2>4. d.left # 0 =>
          /\ moved \in SectionState /\ moved.state = "busy"
          /\ moved.pos = d.pos + 1 /\ moved.left = d.left - 1
          /\ ~moved.done /\ ~moved.err
    <3> SUFFICES ASSUME d.left # 0 PROVE <2>4!2
      OBVIOUS
    <3>1. /\ f \in SectionState /\ f.left = d.left - 1 /\ f.state = "busy"
          /\ f.pos = d.pos /\ ~f.done /\ ~f.err
      BY <1>0 DEF SectionState
    <3> HIDE DEF f
    <3>2. d.pos + 1 \in Nat
      BY <1>0
    <3>3. moved \in SectionState /\ moved.state = "busy"
            /\ ~moved.done /\ ~moved.err
      BY <3>1, <3>2, MoveType
    <3>4. moved.pos = d.pos + 1 /\ moved.left = f.left
      BY <3>1 DEF MoveTo, SectionState
    <3> QED
      BY <3>1, <3>3, <3>4
  <2> HIDE DEF f, moved
  <2>5. CASE e = Complete(d, "idle", "READ_PAST_END")
             \/ e = Complete(d, "idle", "PGTABLE")
             \/ e = Complete(d, "dead", "PGTABLE")
             \/ e = Complete(d, "dead", "IO")
    <3>1. /\ e.state # "busy" /\ ~e.done /\ e.status # "NO_TAPE"
          /\ e.pos = d.pos
      BY <1>0, <2>3, <2>5, CompleteReports
    <3> QED
      BY <3>1 DEF Transferred
  <2>6. CASE d.left = 0 /\ e = Complete(d, "idle", "DONE")
    <3>1. e.state # "busy" /\ ~e.err /\ e.pos = d.pos
      BY <1>0, <2>6, CompleteReports
    <3> QED
      BY <1>2, <2>6, <3>1 DEF Transferred
  <2>7. CASE d.left # 0 /\ d.left # 1 /\ e = moved
    <3>1. Transferred(d, e)
      BY <1>0, <1>2, <2>4, <2>7 DEF Transferred
    <3> QED
      BY <1>0, <1>2, <2>4, <2>7, <3>1
  <2>8. CASE d.left = 1 /\ e = Complete(moved, "idle", "DONE")
    <3>1. e.state # "busy" /\ ~e.err /\ e.pos = d.pos + 1
      BY <1>0, <2>4, <2>8, CompleteReports
    <3>2. Transferred(d, e)
      BY <1>0, <1>2, <3>1 DEF Transferred
    <3> QED
      BY <1>0, <1>2, <2>8, <3>1, <3>2
  <2> QED
    BY <2>2, <2>5, <2>6, <2>7, <2>8
<1> QED
  BY <1>1, <1>2

-----------------------------------------------------------------------------
(* The plan in the queue.                                                  *)

EjectsOnly(q) ==
  \A j \in 1 .. Len(q) : q[j].is_ioctl => q[j].cmd = EjectNode.cmd

(* queue_rq appends the whole plan.                                        *)
LEMMA FollowsRequest ==
  ASSUME NEW q \in Seq(Node), ~HasRequest(q), EjectsOnly(q),
         NEW r \in Requests
  PROVE  LET p == q \o RequestNodes(r)
         IN  /\ p \in Seq(Node) /\ p # << >>
             /\ EjectsOnly(p)
             /\ Follows(p, r.plan, -Len(q))
             /\ q = << >> => ~Head(p).is_ioctl /\ Head(p).cmd = r.plan[1]
             /\ q # << >> => Head(p) = Head(q) /\ Head(p).is_ioctl
<1> DEFINE nodes == RequestNodes(r)
           p == q \o nodes
<1>1. Len(r.plan) \in Nat /\ Len(r.plan) > 0
  BY PlanFacts
<1>0. nodes \in Seq(Node)
  BY NodesOfRequest
<1>2. /\ Len(nodes) = Len(r.plan)
      /\ \A i \in 1 .. Len(nodes) :
           nodes[i].cmd = r.plan[i] /\ ~nodes[i].is_ioctl
  BY <1>1 DEF RequestNodes
<1> HIDE DEF nodes
<1>3. /\ p \in Seq(Node) /\ Len(p) = Len(q) + Len(nodes)
      /\ \A i \in 1 .. Len(p) : p[i] = IF i <= Len(q) THEN q[i]
                                        ELSE nodes[i - Len(q)]
      /\ Len(q) \in Nat
  BY <1>0, ConcatProperties, LenProperties
<1> HIDE DEF p
<1>4. \A i \in 1 .. Len(q) : q[i].is_ioctl
  BY DEF HasRequest
<1>lens. /\ Len(p) = Len(q) + Len(nodes) /\ Len(q) \in Nat
         /\ Len(nodes) \in Nat /\ Len(nodes) > 0
  BY <1>1, <1>2, <1>3
<1>5. EjectsOnly(p)
  <2> SUFFICES ASSUME NEW j \in 1 .. Len(p), p[j].is_ioctl
               PROVE  p[j].cmd = EjectNode.cmd
    BY DEF EjectsOnly
  <2>1. j > Len(q) => j - Len(q) \in 1 .. Len(nodes)
    BY <1>lens
  <2>2. j > Len(q) => p[j] = nodes[j - Len(q)]
    BY <1>lens, <1>3
  <2>3. j <= Len(q)
    BY <1>lens, <1>2, <2>1, <2>2
  <2>4. j \in 1 .. Len(q) /\ p[j] = q[j]
    BY <1>lens, <1>3, <2>3
  <2> QED
    BY <2>4 DEF EjectsOnly
<1>6. Follows(p, r.plan, -Len(q))
  <2> SUFFICES ASSUME NEW j \in 1 .. Len(p), ~p[j].is_ioctl
               PROVE  /\ j + (-Len(q)) \in 1 .. Len(r.plan)
                      /\ p[j].cmd = r.plan[j + (-Len(q))]
                      /\ j > 1 /\ p[j - 1].is_ioctl => j + (-Len(q)) = 1
                      /\ j = Len(p) \/ p[j + 1].is_ioctl =>
                           j + (-Len(q)) = Len(r.plan)
    BY DEF Follows
  <2>1. j > Len(q)
    BY <1>3, <1>4
  <2>2. j - Len(q) \in 1 .. Len(nodes) /\ j + (-Len(q)) = j - Len(q)
    BY <1>1, <1>2, <1>3, <2>1
  <2>3. p[j] = nodes[j - Len(q)]
    BY <1>3, <2>1
  <2>4. ASSUME j > 1, p[j - 1].is_ioctl PROVE j - Len(q) = 1
    <3>1. SUFFICES ASSUME j - 1 > Len(q) PROVE FALSE
      BY <1>1, <1>3, <2>1
    <3>2. j - 1 \in 1 .. Len(p) /\ j - 1 - Len(q) \in 1 .. Len(nodes)
      BY <1>1, <1>2, <1>3, <2>4, <3>1
    <3>3. p[j - 1] = nodes[j - 1 - Len(q)]
      BY <1>3, <3>1, <3>2
    <3> QED
      BY <1>2, <2>4, <3>2, <3>3
  <2>5. ASSUME j # Len(p), p[j + 1].is_ioctl PROVE FALSE
    <3>1. /\ j + 1 \in 1 .. Len(p) /\ j + 1 - Len(q) \in 1 .. Len(nodes)
          /\ j + 1 > Len(q)
      BY <1>lens, <2>1, <2>5
    <3>2. p[j + 1] = nodes[j + 1 - Len(q)]
      BY <1>3, <3>1
    <3> QED
      BY <1>2, <2>5, <3>1, <3>2
  <2>6. j = Len(p) => j - Len(q) = Len(r.plan)
    BY <1>2, <1>3
  <2> QED
    BY <1>2, <2>2, <2>3, <2>4, <2>5, <2>6
<1>7. p # << >> /\ Head(p) = p[1]
  BY <1>1, <1>2, <1>3, EmptySeq
<1>8. q = << >> => Head(p) = nodes[1]
  BY <1>1, <1>2, <1>3, <1>7, EmptySeq
<1>9. q # << >> => Head(p) = Head(q) /\ Head(p).is_ioctl
  <2>1. q # << >> => 1 \in 1 .. Len(q) /\ Head(q) = q[1]
    BY <1>3, EmptySeq
  <2> QED
    BY <1>3, <1>4, <1>7, <2>1
<1> QED
  BY <1>1, <1>2, <1>3, <1>5, <1>6, <1>7, <1>8, <1>9 DEF p, nodes

(* An ioctl command behind the request.                                    *)
LEMMA FollowsEject ==
  ASSUME NEW q \in Seq(Node), EjectsOnly(q)
  PROVE  LET p == q \o <<EjectNode>>
         IN  /\ p \in Seq(Node) /\ p # << >> /\ EjectsOnly(p)
             /\ Head(p) = IF q = << >> THEN EjectNode ELSE Head(q)
             /\ \A plan \in Seq(Command) : \A o \in Int :
                  Follows(q, plan, o) => Follows(p, plan, o)
<1> DEFINE p == q \o <<EjectNode>>
<1>1. <<EjectNode>> \in Seq(Node) /\ Len(<<EjectNode>>) = 1
  BY DEF EjectNode, Node, Command, Ops
<1>2. /\ p \in Seq(Node) /\ Len(p) = Len(q) + 1
      /\ \A i \in 1 .. Len(q) : p[i] = q[i]
      /\ p[Len(q) + 1] = EjectNode
      /\ Len(q) \in Nat
  BY <1>1, ConcatProperties, LenProperties
<1>3. EjectNode.is_ioctl
  BY DEF EjectNode
<1> HIDE DEF p
<1>4. EjectsOnly(p)
  BY <1>2 DEF EjectsOnly
<1>5. ASSUME NEW plan \in Seq(Command), NEW o \in Int, Follows(q, plan, o)
      PROVE  Follows(p, plan, o)
  <2> SUFFICES ASSUME NEW j \in 1 .. Len(p), ~p[j].is_ioctl
               PROVE  /\ j + o \in 1 .. Len(plan)
                      /\ p[j].cmd = plan[j + o]
                      /\ j > 1 /\ p[j - 1].is_ioctl => j + o = 1
                      /\ j = Len(p) \/ p[j + 1].is_ioctl => j + o = Len(plan)
    BY DEF Follows
  <2>1. j \in 1 .. Len(q) /\ p[j] = q[j] /\ j # Len(p)
    BY <1>2, <1>3
  <2>2. j > 1 => p[j - 1] = q[j - 1]
    BY <1>2, <2>1
  <2>3. j # Len(q) => p[j + 1] = q[j + 1]
    BY <1>2, <2>1
  <2> QED
    BY <1>5, <2>1, <2>2, <2>3 DEF Follows
<1>6. Head(p) = IF q = << >> THEN EjectNode ELSE Head(q)
  <2>1. Head(p) = p[1]
    BY <1>2, EmptySeq
  <2>2. CASE q = << >>
    BY <1>2, <2>1, <2>2, EmptySeq
  <2>3. CASE q # << >>
    BY <1>2, <2>1, <2>3, EmptySeq
  <2> QED
    BY <2>2, <2>3
<1>7. p # << >>
  BY <1>2, EmptySeq
<1> QED
  BY <1>2, <1>4, <1>5, <1>6, <1>7 DEF p

(* Popping the head.                                                       *)
LEMMA FollowsTail ==
  ASSUME NEW q \in Seq(Node), q # << >>, NEW plan \in Seq(Command),
         NEW o \in Int, Follows(q, plan, o)
  PROVE  /\ Follows(Tail(q), plan, o + 1)
         /\ ~Head(q).is_ioctl =>
              /\ 1 + o \in 1 .. Len(plan) /\ Head(q).cmd = plan[1 + o]
              /\ LastOfRequest(q) => 1 + o = Len(plan)
         /\ Tail(q) # << >> /\ ~Head(Tail(q)).is_ioctl =>
              /\ 2 + o \in 1 .. Len(plan) /\ Head(Tail(q)).cmd = plan[2 + o]
              /\ Head(q).is_ioctl => 2 + o = 1
<1> DEFINE p == Tail(q)
<1>1. /\ p \in Seq(Node) /\ Len(p) = Len(q) - 1
      /\ \A i \in 1 .. Len(p) : p[i] = q[i + 1]
      /\ Len(q) \in Nat /\ Len(q) > 0 /\ Head(q) = q[1]
      /\ Len(plan) \in Nat
  BY HeadTailProperties, LenProperties, EmptySeq
<1> HIDE DEF p
<1>2. p = << >> => Len(q) = 1
  BY <1>1, EmptySeq
<1>3. p # << >> => Head(p) = q[2] /\ 2 \in 1 .. Len(q) /\ 1 # Len(q)
  BY <1>1, EmptySeq
<1>4. ASSUME NEW j \in 1 .. Len(p), ~p[j].is_ioctl
      PROVE  /\ j + (o + 1) \in 1 .. Len(plan)
             /\ p[j].cmd = plan[j + (o + 1)]
             /\ j > 1 /\ p[j - 1].is_ioctl => j + (o + 1) = 1
             /\ j = Len(p) \/ p[j + 1].is_ioctl => j + (o + 1) = Len(plan)
  <2>1. /\ j + 1 \in 1 .. Len(q) /\ p[j] = q[j + 1]
        /\ j + 1 > 1 /\ (j + 1) - 1 = j
        /\ j = Len(p) => j + 1 = Len(q)
        /\ (j + 1) + o = j + (o + 1)
    BY <1>1
  <2>2. j > 1 => j - 1 \in 1 .. Len(p) /\ (j - 1) + 1 = j
    BY <1>1
  <2>3. j > 1 => p[j - 1] = q[(j - 1) + 1]
    BY <1>1, <2>2
  <2>4. j # Len(p) => p[j + 1] = q[(j + 1) + 1]
    BY <1>1
  <2> DEFINE i == j + 1
  <2>5. /\ i + o \in 1 .. Len(plan) /\ q[i].cmd = plan[i + o]
        /\ i > 1 /\ q[i - 1].is_ioctl => i + o = 1
        /\ i = Len(q) \/ q[i + 1].is_ioctl => i + o = Len(plan)
    BY <1>4, <2>1 DEF Follows
  <2> QED
    BY <2>1, <2>2, <2>3, <2>4, <2>5
<1>5. Follows(p, plan, o + 1)
  BY <1>4 DEF Follows
<1>6. ASSUME ~Head(q).is_ioctl
      PROVE  /\ 1 + o \in 1 .. Len(plan) /\ Head(q).cmd = plan[1 + o]
             /\ LastOfRequest(q) => 1 + o = Len(plan)
  <2>1. 1 \in 1 .. Len(q) /\ 1 + 1 = 2
    BY <1>1
  <2>2. /\ 1 + o \in 1 .. Len(plan) /\ Head(q).cmd = plan[1 + o]
        /\ 1 = Len(q) \/ q[2].is_ioctl => 1 + o = Len(plan)
    BY <1>1, <1>6, <2>1 DEF Follows
  <2>3. LastOfRequest(q) => 1 = Len(q) \/ q[2].is_ioctl
    BY <1>2, <1>3 DEF LastOfRequest, p
  <2> QED
    BY <2>2, <2>3
<1>7. ASSUME p # << >>, ~Head(p).is_ioctl
      PROVE  /\ 2 + o \in 1 .. Len(plan) /\ Head(p).cmd = plan[2 + o]
             /\ Head(q).is_ioctl => 2 + o = 1
  <2>1. 2 \in 1 .. Len(q) /\ 2 > 1 /\ 2 - 1 = 1 /\ Head(p) = q[2]
    BY <1>3, <1>7
  <2> QED
    BY <1>1, <1>7, <2>1 DEF Follows
<1> QED
  BY <1>5, <1>6, <1>7 DEF p

(* A later part of a queue has no other ioctl commands.                    *)
LEMMA EjectsOnlyRest ==
  ASSUME NEW q \in Seq(Node), q # << >>, EjectsOnly(q)
  PROVE  /\ EjectsOnly(Tail(q))
         /\ HasIoctl(q) => EjectsOnly(SubSeq(q, FirstIoctl(q), Len(q)))
<1>1. Len(q) \in Nat
  BY LenProperties
<1>2. EjectsOnly(Tail(q))
  <2>1. /\ Len(Tail(q)) = Len(q) - 1
        /\ \A i \in 1 .. Len(Tail(q)) : Tail(q)[i] = q[i + 1]
    BY HeadTailProperties
  <2>2. \A i \in 1 .. Len(Tail(q)) : i + 1 \in 1 .. Len(q)
    BY <1>1, <2>1
  <2> QED
    BY <2>1, <2>2 DEF EjectsOnly
<1>3. ASSUME HasIoctl(q)
      PROVE  EjectsOnly(SubSeq(q, FirstIoctl(q), Len(q)))
  <2> DEFINE m == FirstIoctl(q)
             p == SubSeq(q, m, Len(q))
  <2>1. m \in 1 .. Len(q)
    BY <1>3, FirstIoctlExists
  <2> HIDE DEF m
  <2>2. \A j \in m .. Len(q) : q[j] \in Node
    BY <1>1, <2>1, ElementOfSeq
  <2>3. Len(p) = Len(q) - m + 1 /\ \A i \in 1 .. Len(p) : p[i] = q[m + i - 1]
    BY <1>1, <2>1, <2>2, SubSeqProperties
  <2> HIDE DEF p
  <2>4. \A i \in 1 .. Len(p) : m + i - 1 \in 1 .. Len(q)
    BY <1>1, <2>1, <2>3
  <2>5. EjectsOnly(p)
    BY <2>3, <2>4 DEF EjectsOnly
  <2> QED
    BY <2>5 DEF p, m
<1> QED
  BY <1>2, <1>3
-----------------------------------------------------------------------------
(* OnPlan is kept by every step of a section.                              *)

(* The section when its device has nothing to do and nothing to report,    *)
(* just before the head is sent.                                           *)
Ready(k, b) ==
  LET q == k.cmd_queue
      head == Head(q)
  IN  /\ EjectsOnly(q)
      /\ b.pc = "building" => b.moved = 0
      /\ k.result = "OK" => b.moved = b.rq.size
      /\ HasRequest(q) =>
           /\ b.rq \in Requests
           /\ \E o \in Int :
                /\ Follows(q, b.rq.plan, o)
                /\ IF head.is_ioctl THEN b.moved = 0
                   ELSE /\ head.cmd.op \notin {"EJECT_TAPE", "TAKE_TAPE"} =>
                             k.current_tape # 0
                        /\ b.moved = ProgressOf(b.rq)[o]

(* The first command of a queue that holds a request command.              *)
LEMMA HeadOfRequest ==
  ASSUME NEW q \in Seq(Node)
  PROVE  /\ HasRequest(q) => q # << >>
         /\ q # << >> => 1 \in 1 .. Len(q) /\ Head(q) = q[1]
         /\ q # << >> /\ ~Head(q).is_ioctl => HasRequest(q)
         /\ q # << >> => Head(q) \in Node /\ Head(q).cmd \in Command
<1>1. Len(q) \in Nat
  BY LenProperties
<1>2. HasRequest(q) => q # << >>
  BY <1>1, EmptySeq DEF HasRequest
<1>3. q # << >> => 1 \in 1 .. Len(q) /\ Head(q) = q[1]
  BY <1>1, EmptySeq
<1>4. q # << >> => Head(q) \in Node /\ Head(q).cmd \in Command
  <2>1. q # << >> => Head(q) \in Node
    BY <1>3, ElementOfSeq
  <2> QED
    BY <2>1 DEF Node
<1>5. q # << >> /\ ~Head(q).is_ioctl => HasRequest(q)
  BY <1>3 DEF HasRequest
<1> QED
  BY <1>2, <1>3, <1>4, <1>5

(* Sending the head of a ready section.                                    *)
LEMMA SendOnPlan ==
  ASSUME NEW d, DeviceConsistent(d), ~d.done, ~d.err, d.state # "busy",
         NEW k \in SectionStruct, d.tape = k.current_tape,
         NEW b \in BlockLayer, Ready(k, b)
  PROVE  OnPlan(IF k.cmd_queue # << >> THEN Exec(d, Head(k.cmd_queue).cmd)
                ELSE d, k, b)
<1> DEFINE q == k.cmd_queue
           head == Head(q)
           e == IF q # << >> THEN Exec(d, head.cmd) ELSE d
<1>0. q \in Seq(Node) /\ EjectsOnly(q)
  BY DEF SectionStruct, Ready
<1>1. CASE q = << >>
  <2>1. e = d /\ ~HasRequest(q)
    BY <1>0, <1>1, HeadOfRequest
  <2> QED
    BY <1>1, <2>1 DEF OnPlan, Ready, EjectsOnly
<1>2. CASE q # << >>
  <2>0. head.cmd \in Command /\ 1 \in 1 .. Len(q) /\ head = q[1]
    BY <1>0, <1>2, HeadOfRequest
  <2>1. /\ ~e.done
        /\ e.state = "busy" => e.left = Blocks(head.cmd)
        /\ e.err /\ e.status = "NO_TAPE" =>
             d.tape = 0 /\ head.cmd.op # "TAKE_TAPE"
    BY <1>2, <2>0, ExecAnswers
  <2> HIDE DEF e
  <2>2. head.is_ioctl => head.cmd.op = "EJECT_TAPE"
    BY <1>0, <2>0 DEF EjectsOnly, EjectNode
  <2>3. e.err /\ e.status = "NO_TAPE" => head.cmd.op = "EJECT_TAPE"
    <3> SUFFICES ASSUME e.err, e.status = "NO_TAPE", ~head.is_ioctl
                 PROVE  head.cmd.op = "EJECT_TAPE"
      BY <2>2
    <3>1. HasRequest(q)
      BY <1>0, <1>2, HeadOfRequest
    <3> QED
      BY <2>1, <3>1 DEF Ready
  <2>4. ASSUME HasRequest(q)
        PROVE  \E o \in Int : Follows(q, b.rq.plan, o) /\ AtHead(e, k, b, o)
    <3> DEFINE f == ProgressOf(b.rq)
    <3>1. PICK o \in Int :
            /\ Follows(q, b.rq.plan, o)
            /\ IF head.is_ioctl THEN b.moved = 0
               ELSE /\ head.cmd.op \notin {"EJECT_TAPE", "TAKE_TAPE"} =>
                         k.current_tape # 0
                    /\ b.moved = f[o]
      BY <2>4 DEF Ready
    <3>2. b.rq \in Requests
      BY <2>4 DEF Ready
    <3>3. CASE head.is_ioctl
      BY <3>1, <3>3 DEF AtHead
    <3>4. CASE ~head.is_ioctl
      <4>1. 1 + o \in 1 .. Len(b.rq.plan) /\ head.cmd = b.rq.plan[1 + o]
        BY <2>0, <3>1, <3>4 DEF Follows
      <4>2. /\ f[1 + o] = f[(1 + o) - 1] + Blocks(head.cmd)
            /\ Len(b.rq.plan) \in Nat
        BY <3>2, <4>1, PlanFacts
      <4>3. (1 + o) - 1 = o /\ o + 1 = 1 + o
        OBVIOUS
      <4> HIDE DEF f
      <4>4. f[o + 1] = f[o] + Blocks(head.cmd)
        BY <4>2, <4>3
      <4>5. e.state = "busy" =>
              /\ b.moved + e.left = f[o + 1]
              /\ ~IsTransfer(head.cmd) => e.left = 0
        BY <2>1, <3>1, <3>4, <4>4 DEF Blocks
      <4>6. AtHead(e, k, b, o)
        BY <2>1, <3>1, <3>4, <4>5 DEF AtHead, f
      <4> QED
        BY <3>1, <4>6
    <3> QED
      BY <3>3, <3>4
  <2> QED
    BY <1>0, <2>3, <2>4 DEF OnPlan, Ready, EjectsOnly, e
<1> QED
  BY <1>1, <1>2

(* The handler leaves a section that has reported ready.                   *)
LEMMA ReportReady ==
  ASSUME NEW d, NEW k, NEW b \in BlockLayer, Good(d, k), RequestKept(k, b),
         OnPlan(d, k, b), d.done \/ d.err,
         NEW h \in SectionStruct, Reported(d, k, h)
  PROVE  Ready(h, b)
<1> DEFINE q == k.cmd_queue
           head == Head(q)
           f == ProgressOf(b.rq)
           plan == b.rq.plan
<1>0. /\ k \in SectionStruct /\ q \in Seq(Node) /\ q # << >>
      /\ Contiguous(q) /\ EjectsOnly(q)
      /\ k.result \in {"none", "OK", "IOERR"}
      /\ b.moved \in Nat
  BY DEF Good, Matches, SectionStruct, RequestKept, OnPlan, EjectsOnly,
         BlockLayer
<1>1. /\ b.pc = "building" => b.moved = 0
      /\ k.result = "OK" => b.moved = b.rq.size
      /\ HasRequest(q) =>
           \E o \in Int : Follows(q, plan, o) /\ AtHead(d, k, b, o)
      /\ d.err /\ d.status = "NO_TAPE" => head.cmd.op = "EJECT_TAPE"
  BY DEF OnPlan
<1>2. HasRequest(q) =>
        b.rq \in Requests /\ k.req # NoReq /\ k.result = "none"
  BY <1>0 DEF RequestKept, SectionStruct
<1>3. ~head.is_ioctl => HasRequest(q)
  BY <1>0, HeadOfRequest
<1>4. CASE HeadKept(k, h)
  BY <1>0, <1>1, <1>2, <1>4 DEF HeadKept, Ready, AtHead
<1>5. CASE HeadPopped(d, k, h)
  <2> DEFINE p == Tail(q)
             next == Head(p)
  <2>1. h.cmd_queue = p /\ SameRequest(k, h)
    BY <1>5 DEF HeadPopped
  <2>2. p \in Seq(Node) /\ EjectsOnly(p) /\ (HasRequest(p) => HasRequest(q))
    BY <1>0, EjectsOnlyRest, ContiguousTail
  <2>3. ASSUME HasRequest(p)
        PROVE  \E o \in Int :
                 /\ Follows(p, plan, o)
                 /\ IF next.is_ioctl THEN b.moved = 0
                    ELSE /\ next.cmd.op \notin {"EJECT_TAPE", "TAKE_TAPE"} =>
                              h.current_tape # 0
                         /\ b.moved = f[o]
    <3>1. PICK o \in Int : Follows(q, plan, o) /\ AtHead(d, k, b, o)
      BY <1>1, <2>2, <2>3
    <3>2. b.rq \in Requests /\ p # << >> /\ plan \in Seq(Command)
      BY <1>2, <2>2, <2>3, HeadOfRequest, RealRequest
    <3>3. /\ Follows(p, plan, o + 1)
          /\ ~head.is_ioctl =>
               /\ 1 + o \in 1 .. Len(plan) /\ head.cmd = plan[1 + o]
               /\ LastOfRequest(q) => 1 + o = Len(plan)
          /\ ~next.is_ioctl =>
               /\ 2 + o \in 1 .. Len(plan) /\ next.cmd = plan[2 + o]
               /\ head.is_ioctl => 2 + o = 1
      BY <1>0, <3>1, <3>2, FollowsTail
    <3>4. CASE head.is_ioctl
      <4>1. b.moved = 0
        BY <3>1, <3>4 DEF AtHead
      <4>2. ~next.is_ioctl => o + 1 = 0 /\ next.cmd = plan[1]
        <5>1. ~next.is_ioctl => 2 + o = 1 /\ next.cmd = plan[2 + o]
          BY <3>3, <3>4
        <5>2. 2 + o = 1 => o + 1 = 0
          OBVIOUS
        <5> QED
          BY <5>1, <5>2
      <4>3. f[0] = 0 /\ plan[1].op = "EJECT_TAPE"
        BY <3>2, PlanFacts
      <4> HIDE DEF f, p, plan
      <4>4. IF next.is_ioctl THEN b.moved = 0
            ELSE /\ next.cmd.op \notin {"EJECT_TAPE", "TAKE_TAPE"} =>
                      h.current_tape # 0
                 /\ b.moved = f[o + 1]
        BY <4>1, <4>2, <4>3
      <4>5. o + 1 \in Int
        OBVIOUS
      <4> QED
        BY <3>3, <4>4, <4>5
    <3>5. CASE ~head.is_ioctl
      <4>1. /\ 1 + o \in 1 .. Len(plan) /\ head.cmd = plan[1 + o]
            /\ LastOfRequest(q) => 1 + o = Len(plan)
        BY <3>3, <3>5
      <4>2. /\ Len(plan) \in Nat
            /\ plan[1 + o].op = "EJECT_TAPE" =>
                 1 + o < Len(plan) /\ plan[(1 + o) + 1].op = "TAKE_TAPE"
            /\ plan[1 + o].op = "TAKE_TAPE" => plan[1 + o].arg # 0
            /\ f[1 + o] = f[(1 + o) - 1] + Blocks(plan[1 + o])
            /\ \A i \in 0 .. Len(plan) : f[i] \in Nat
        BY <3>2, <4>1, PlanFacts
      <4>3. (1 + o) + 1 = 2 + o /\ (1 + o) - 1 = o /\ o + 1 = 1 + o
              /\ o \in 0 .. Len(plan)
        BY <4>1, <4>2
      <4>4. /\ head.cmd.op \notin {"EJECT_TAPE", "TAKE_TAPE"} =>
                 k.current_tape # 0
            /\ d.done => b.moved = f[o + 1]
            /\ d.err /\ d.status = "NO_TAPE" => b.moved = f[o]
        BY <3>1, <3>5 DEF AtHead
      <4>5. ~LastOfRequest(q)
        <5>1. CASE d.done /\ ~LastOfRequest(q)
          BY <5>1
        <5>2. CASE d.err /\ d.status = "NO_TAPE"
          BY <1>1, <4>1, <4>2, <5>2
        <5> QED
          BY <1>5, <5>1, <5>2 DEF HeadPopped
      <4>6. ~next.is_ioctl
        BY <3>2, <3>5, <4>5 DEF LastOfRequest
      <4>7. next.cmd = plan[2 + o]
        BY <3>3, <4>6
      <4>8. head.cmd.op = "EJECT_TAPE" => next.cmd.op = "TAKE_TAPE"
        BY <4>1, <4>2, <4>3, <4>7
      <4>9. b.moved = f[o + 1]
               /\ (next.cmd.op \notin {"EJECT_TAPE", "TAKE_TAPE"} =>
                     h.current_tape # 0)
        <5>1. CASE d.err /\ d.status = "NO_TAPE"
          <6>1. head.cmd.op = "EJECT_TAPE"
            BY <1>1, <5>1
          <6>2. Blocks(plan[1 + o]) = 0
            BY <4>1, <6>1 DEF Blocks, IsTransfer
          <6> HIDE DEF f, plan
          <6>3. f[o + 1] = f[o] + 0 /\ f[o] \in Nat
            <7>1. f[1 + o] = f[o] + Blocks(plan[1 + o])
              BY <4>2, <4>3
            <7>2. f[o] \in Nat
              BY <4>2, <4>3
            <7> QED
              BY <4>3, <6>2, <7>1, <7>2
          <6>4. b.moved = f[o]
            BY <4>4, <5>1
          <6>5. b.moved = f[o + 1]
            BY <6>3, <6>4
          <6>6. next.cmd.op \notin {"EJECT_TAPE", "TAKE_TAPE"} =>
                  h.current_tape # 0
            BY <4>8, <6>1
          <6> QED
            BY <6>5, <6>6
        <5>2. CASE d.done /\ h.current_tape = TapeAfter(head, k.current_tape)
          <6>1. head.cmd.op # "EJECT_TAPE" => h.current_tape # 0
            BY <4>1, <4>2, <4>4, <5>2 DEF TapeAfter
          <6> QED
            BY <4>4, <4>8, <5>2, <6>1
        <5> QED
          BY <1>5, <5>1, <5>2 DEF HeadPopped
      <4>10. o + 1 \in Int
        OBVIOUS
      <4> QED
        BY <3>3, <4>6, <4>9, <4>10
    <3> QED
      BY <3>4, <3>5
  <2> HIDE DEF p, f, plan
  <2>4. HasRequest(p) => b.rq \in Requests
    BY <1>2, <2>2
  <2> QED
    BY <1>1, <2>1, <2>2, <2>3, <2>4 DEF Ready, SameRequest, f, plan
<1>6. CASE RequestDone(d, k, h)
  <2>1. /\ d.done /\ LastOfRequest(q) /\ h.cmd_queue = Tail(q)
        /\ Ended(k, h, "OK") /\ ~head.is_ioctl
    BY <1>6 DEF RequestDone, LastOfRequest
  <2>2. EjectsOnly(Tail(q)) /\ ~HasRequest(Tail(q))
    BY <1>0, <2>1, EjectsOnlyRest, ContiguousTail
  <2>3. PICK o \in Int : Follows(q, plan, o) /\ AtHead(d, k, b, o)
    BY <1>1, <1>3, <2>1
  <2>4. b.rq \in Requests /\ plan \in Seq(Command)
    BY <1>2, <1>3, <2>1, RealRequest
  <2>5. 1 + o = Len(plan)
    BY <1>0, <2>1, <2>3, <2>4, FollowsTail
  <2>6. b.moved = f[o + 1] /\ o + 1 = 1 + o
    BY <2>1, <2>3 DEF AtHead
  <2>7. f[Len(plan)] = b.rq.size
    BY <2>4, PlanFacts
  <2> HIDE DEF f, plan
  <2>8. b.moved = b.rq.size
    BY <2>5, <2>6, <2>7
  <2> QED
    BY <1>1, <2>1, <2>2, <2>8 DEF Ready
<1>7. CASE RequestAborted(k, h)
  <2>1. /\ ~head.is_ioctl /\ HasIoctl(q) /\ Ended(k, h, "IOERR")
        /\ h.cmd_queue = SubSeq(q, FirstIoctl(q), Len(q))
    BY <1>7 DEF RequestAborted
  <2>2. EjectsOnly(h.cmd_queue) /\ ~HasRequest(h.cmd_queue)
    BY <1>0, <2>1, EjectsOnlyRest, ContiguousAbort
  <2>3. h.result = "IOERR"
    BY <1>2, <1>3, <2>1 DEF Ended
  <2> QED
    BY <1>1, <2>2, <2>3 DEF Ready
<1>8. CASE RequestForgotten(k, h)
  <2>1. h.cmd_queue = << >> /\ h.result = k.result
    BY <1>8 DEF RequestForgotten
  <2>2. EjectsOnly(h.cmd_queue) /\ ~HasRequest(h.cmd_queue)
    BY <2>1 DEF EjectsOnly, HasRequest
  <2> QED
    BY <1>1, <2>1, <2>2 DEF Ready
<1> QED
  BY <1>4, <1>5, <1>6, <1>7, <1>8 DEF Reported
(* queue_rq hands over its commands.                                       *)
LEMMA SubmitOnPlan ==
  ASSUME NEW d, NEW k, NEW b \in BlockLayer, Good(d, k), RequestKept(k, b),
         OnPlan(d, k, b), NEW e, NEW h \in SectionStruct, NEW c,
         Submitted(d, k, b, e, h, c)
  PROVE  OnPlan(e, h, c)
<1> DEFINE q == k.cmd_queue
           p == q \o RequestNodes(b.rq)
<1>0. /\ k \in SectionStruct /\ q \in Seq(Node) /\ EjectsOnly(q)
      /\ DeviceConsistent(d) /\ Matches(d, q)
  BY DEF Good, SectionStruct, OnPlan, EjectsOnly
<1>1. /\ b.pc = "building" /\ b.rq \in Requests /\ h.cmd_queue = p
      /\ e = IF q = << >> THEN Exec(d, RequestNodes(b.rq)[1].cmd) ELSE d
      /\ h.current_tape = k.current_tape /\ h.result = k.result
      /\ c \in BlockLayer /\ c.pc = "idle" /\ c.rq = b.rq
      /\ c.moved = b.moved
  BY DEF Submitted, Enqueued, SameRequest, BlockLayer
<1>2. ~HasRequest(q) /\ k.result = "none" /\ b.moved = 0
  BY <1>0, <1>1 DEF RequestKept, OnPlan, SectionStruct
<1>3. /\ p \in Seq(Node) /\ p # << >> /\ EjectsOnly(p)
      /\ Follows(p, b.rq.plan, -Len(q))
      /\ q = << >> => ~Head(p).is_ioctl /\ Head(p).cmd = b.rq.plan[1]
      /\ q # << >> => Head(p) = Head(q) /\ Head(p).is_ioctl
  BY <1>0, <1>1, <1>2, FollowsRequest
<1>4. -Len(q) \in Int
  BY <1>0, LenProperties
<1> HIDE DEF p
<1>5. CASE q = << >>
  <2>1. /\ ~d.done /\ ~d.err /\ d.state # "busy"
        /\ d.tape = h.current_tape
    BY <1>0, <1>1, <1>5 DEF Good, Matches, TapeNow
  <2>2. /\ Follows(p, b.rq.plan, 0) /\ ~Head(p).is_ioctl
        /\ Head(p).cmd.op = "EJECT_TAPE" /\ b.moved = ProgressOf(b.rq)[0]
    BY <1>1, <1>2, <1>3, <1>5, PlanFacts
  <2>3. Ready(h, c)
    BY <1>1, <1>2, <1>3, <2>2 DEF Ready
  <2>4. RequestNodes(b.rq)[1].cmd = Head(p).cmd
    <3>1. 1 \in 1 .. Len(b.rq.plan)
      BY <1>1, PlanFacts
    <3> QED
      BY <1>3, <1>5, <3>1 DEF RequestNodes
  <2>5. e = IF h.cmd_queue # << >> THEN Exec(d, Head(h.cmd_queue).cmd) ELSE d
    BY <1>1, <1>3, <1>5, <2>4
  <2> QED
    BY <1>0, <1>1, <2>1, <2>3, <2>5, SendOnPlan
<1>6. CASE q # << >>
  <2>1. e = d /\ Head(p) = Head(q) /\ Head(p).is_ioctl
    BY <1>1, <1>3, <1>6
  <2>2. AtHead(d, h, c, -Len(q))
    BY <1>1, <1>2, <2>1 DEF AtHead
  <2>3. d.err /\ d.status = "NO_TAPE" => Head(p).cmd.op = "EJECT_TAPE"
    BY <2>1 DEF OnPlan
  <2> QED
    BY <1>1, <1>2, <1>3, <1>4, <2>1, <2>2, <2>3 DEF OnPlan, EjectsOnly
<1> QED
  BY <1>5, <1>6

(* The EJECT ioctl appends its command.                                    *)
LEMMA EjectOnPlan ==
  ASSUME NEW d, NEW k, NEW b \in BlockLayer, Good(d, k), RequestKept(k, b),
         OnPlan(d, k, b), NEW e, NEW h \in SectionStruct, NEW c,
         EjectQueued(d, k, b, e, h, c)
  PROVE  OnPlan(e, h, c)
<1> DEFINE q == k.cmd_queue
           p == q \o <<EjectNode>>
<1>0. /\ k \in SectionStruct /\ q \in Seq(Node) /\ EjectsOnly(q)
      /\ DeviceConsistent(d) /\ Matches(d, q) /\ Contiguous(q)
  BY DEF Good, SectionStruct, OnPlan, EjectsOnly, RequestKept
<1>1. /\ h.cmd_queue = p /\ c = b
      /\ e = IF q = << >> THEN Exec(d, EjectNode.cmd) ELSE d
      /\ h.current_tape = k.current_tape /\ h.result = k.result
  <2>1. <<EjectNode>>[1] = EjectNode
    OBVIOUS
  <2> QED
    BY <2>1, Zenon DEF EjectQueued, Enqueued, SameRequest
<1>2. /\ b.pc = "building" => b.moved = 0
      /\ k.result = "OK" => b.moved = b.rq.size
  BY DEF OnPlan
<1>3. /\ p \in Seq(Node) /\ p # << >> /\ EjectsOnly(p)
      /\ Head(p) = IF q = << >> THEN EjectNode ELSE Head(q)
      /\ \A plan \in Seq(Command) : \A o \in Int :
           Follows(q, plan, o) => Follows(p, plan, o)
  BY <1>0, FollowsEject
<1>4. HasRequest(p) <=> HasRequest(q)
  BY <1>0, ContiguousEject
<1> HIDE DEF p
<1>5. CASE q = << >>
  <2>1. /\ ~d.done /\ ~d.err /\ d.state # "busy"
        /\ d.tape = h.current_tape
    BY <1>0, <1>1, <1>5 DEF Good, Matches, TapeNow
  <2>2. ~HasRequest(p)
    BY <1>0, <1>4, <1>5, HeadOfRequest
  <2>3. Ready(h, c)
    BY <1>1, <1>2, <1>3, <2>2 DEF Ready
  <2>4. e = IF h.cmd_queue # << >> THEN Exec(d, Head(h.cmd_queue).cmd) ELSE d
    BY <1>1, <1>3, <1>5
  <2> QED
    BY <1>0, <1>1, <2>1, <2>3, <2>4, SendOnPlan
<1>6. CASE q # << >>
  <2>1. e = d /\ Head(p) = Head(q)
    BY <1>1, <1>3, <1>6
  <2>2. d.err /\ d.status = "NO_TAPE" => Head(p).cmd.op = "EJECT_TAPE"
    BY <2>1 DEF OnPlan
  <2>3. ASSUME HasRequest(p)
        PROVE  \E o \in Int : Follows(p, b.rq.plan, o) /\ AtHead(e, h, c, o)
    <3>1. PICK o \in Int :
            Follows(q, b.rq.plan, o) /\ AtHead(d, k, b, o)
      BY <1>4, <2>3 DEF OnPlan
    <3>2. b.rq.plan \in Seq(Command)
      <4>1. b.rq \in Requests
        BY <1>0, <1>4, <2>3 DEF RequestKept, SectionStruct
      <4> QED
        BY <4>1, RealRequest
    <3>3. AtHead(e, h, c, o)
      BY <1>1, <2>1, <3>1 DEF AtHead
    <3> QED
      BY <1>3, <3>1, <3>2, <3>3
  <2> QED
    BY <1>1, <1>2, <1>3, <2>1, <2>2, <2>3 DEF OnPlan, EjectsOnly
<1> QED
  BY <1>5, <1>6

(* A timer step of the device.                                             *)
LEMMA TickOnPlan ==
  ASSUME NEW d, NEW k, NEW b \in BlockLayer, Good(d, k), RequestKept(k, b),
         OnPlan(d, k, b), NEW e, NEW h \in SectionStruct, NEW c,
         DeviceTicked(d, k, b, e, h, c)
  PROVE  /\ OnPlan(e, h, c)
         /\ Transferred(d, e) =>
              HasRequest(k.cmd_queue) /\ b.moved + 1 <= b.rq.size
<1> DEFINE q == k.cmd_queue
           head == Head(q)
           n == IF Transferred(d, e) THEN 1 ELSE 0
<1>0. /\ k \in SectionStruct /\ q \in Seq(Node) /\ EjectsOnly(q) /\ q # << >>
      /\ DeviceConsistent(d) /\ d.state = "busy" /\ e \in TickOutcomes(d)
      /\ d.cmd = head.cmd /\ d.left \in Nat /\ b.moved \in Nat
  BY DEF Good, SectionStruct, OnPlan, EjectsOnly, DeviceTicked, Matches,
         DeviceConsistent, SectionState, BlockLayer
<1>1. /\ h = k /\ c.pc = b.pc /\ c.rq = b.rq /\ c.moved = b.moved + n
  <2>1. h = k /\ c = [b EXCEPT !.moved = IF Transferred(d, e) THEN @ + 1 ELSE @]
    BY DEF DeviceTicked
  <2>2. CASE Transferred(d, e)
    BY <2>1, <2>2 DEF BlockLayer
  <2>3. CASE ~Transferred(d, e)
    BY <1>0, <2>1, <2>3 DEF BlockLayer
  <2> QED
    BY <2>2, <2>3
<1>2. /\ head \in Node /\ head.cmd \in Command
      /\ head = q[1] /\ 1 \in 1 .. Len(q)
      /\ ~head.is_ioctl => HasRequest(q)
  BY <1>0, HeadOfRequest
<1>3. /\ Transferred(d, e) => IsTransfer(d.cmd) /\ d.left > 0
      /\ e.state = "busy" => IsTransfer(d.cmd) /\ n + e.left = d.left
      /\ e.done => IF IsTransfer(d.cmd) THEN n = d.left ELSE n = 0
      /\ ~(e.err /\ e.status = "NO_TAPE")
  BY <1>0, <1>2, TickMoves
<1>4. n \in {0, 1} /\ (n # 0 => Transferred(d, e))
  OBVIOUS
<1> HIDE DEF n
<1>5. head.is_ioctl => ~IsTransfer(d.cmd)
  BY <1>0, <1>2 DEF EjectsOnly, EjectNode, IsTransfer
<1>6. HasRequest(q) =>
        b.rq \in Requests /\ b.pc = "idle" /\ k.result = "none"
  BY <1>0 DEF RequestKept, SectionStruct
<1>7. n # 0 => ~head.is_ioctl /\ HasRequest(q)
  BY <1>2, <1>3, <1>4, <1>5
<1>8. /\ c.pc = "building" => c.moved = 0
      /\ h.result = "OK" => c.moved = c.rq.size
  BY <1>0, <1>1, <1>4, <1>6, <1>7 DEF OnPlan
<1>9. ASSUME HasRequest(q)
      PROVE  \E o \in Int : /\ Follows(q, b.rq.plan, o)
                            /\ AtHead(e, h, c, o)
                            /\ Transferred(d, e) => b.moved + 1 <= b.rq.size
  <2> DEFINE f == ProgressOf(b.rq)
  <2>1. PICK o \in Int :
          Follows(q, b.rq.plan, o) /\ AtHead(d, k, b, o)
    BY <1>9 DEF OnPlan
  <2>2. CASE head.is_ioctl
    <3>1. n = 0 /\ b.moved = 0
      BY <1>7, <2>1, <2>2 DEF AtHead
    <3>2. c.moved = 0 /\ ~Transferred(d, e)
      BY <1>0, <1>1, <1>3, <1>5, <2>2, <3>1
    <3>3. AtHead(e, h, c, o)
      BY <1>1, <2>2, <3>2 DEF AtHead
    <3> QED
      BY <2>1, <3>2, <3>3
  <2>3. CASE ~head.is_ioctl
    <3>1. /\ head.cmd.op \notin {"EJECT_TAPE", "TAKE_TAPE"} =>
               k.current_tape # 0
          /\ b.moved + d.left = f[o + 1]
          /\ ~IsTransfer(head.cmd) => d.left = 0
      BY <1>0, <2>1, <2>3 DEF AtHead
    <3>2. e.state = "busy" => IsTransfer(head.cmd) /\ c.moved + e.left = f[o + 1]
      <4> SUFFICES ASSUME e.state = "busy"
                   PROVE  IsTransfer(head.cmd) /\ c.moved + e.left = f[o + 1]
        OBVIOUS
      <4>1. IsTransfer(head.cmd) /\ n + e.left = d.left
        BY <1>0, <1>3
      <4>2. e.left \in Nat
        <5>1. DeviceConsistent(e)
          BY <1>0, <1>2, TickTicks DEF Ticked
        <5> QED
          BY <5>1 DEF DeviceConsistent, SectionState
      <4>3. (b.moved + n) + e.left = b.moved + d.left
        <5>1. n \in Nat
          BY <1>4
        <5> QED
          BY <1>0, <4>1, <4>2, <5>1
      <4> HIDE DEF f
      <4> QED
        BY <1>1, <3>1, <4>1, <4>3
    <3>3. e.done => c.moved = f[o + 1]
      <4> SUFFICES ASSUME e.done PROVE c.moved = f[o + 1]
        OBVIOUS
      <4>1. n = d.left
        BY <1>0, <1>3, <3>1
      <4> QED
        BY <1>1, <3>1, <4>1
    <3>4. AtHead(e, h, c, o)
      BY <1>1, <1>3, <2>3, <3>1, <3>2, <3>3 DEF AtHead
    <3>5. ASSUME Transferred(d, e) PROVE b.moved + 1 <= b.rq.size
      <4>1. d.left > 0
        BY <1>3, <3>5
      <4>2. o + 1 \in 1 .. Len(b.rq.plan)
        <5>1. 1 + o \in 1 .. Len(b.rq.plan) /\ o + 1 = 1 + o
          BY <1>2, <2>1, <2>3 DEF Follows
        <5> QED
          BY <5>1
      <4>3. f[o + 1] <= b.rq.size /\ b.rq.size \in Nat /\ f[o + 1] \in Nat
        <5>1. /\ Len(b.rq.plan) \in Nat /\ b.rq.size \in Nat
              /\ \A i \in 0 .. Len(b.rq.plan) : f[i] \in Nat /\ f[i] <= b.rq.size
          BY <1>6, <1>9, PlanFacts
        <5>2. o + 1 \in 0 .. Len(b.rq.plan)
          BY <4>2, <5>1
        <5> HIDE DEF f
        <5> QED
          BY <5>1, <5>2
      <4> HIDE DEF f
      <4> QED
        BY <1>0, <3>1, <4>1, <4>3
    <3> QED
      BY <2>1, <3>4, <3>5
  <2> QED
    BY <2>2, <2>3
<1>10. OnPlan(e, h, c)
  BY <1>0, <1>1, <1>3, <1>8, <1>9 DEF OnPlan, EjectsOnly
<1>11. Transferred(d, e) => n # 0
  BY DEF n
<1> QED
  BY <1>7, <1>9, <1>10, <1>11
(* Each step of a section keeps it on its plan.                            *)
LEMMA OnPlanStep ==
  ASSUME NEW d, NEW k, NEW b \in BlockLayer, Good(d, k), RequestKept(k, b),
         OnPlan(d, k, b), NEW e, NEW h \in SectionStruct, NEW c,
         SectionStepped(d, k, b, e, h, c)
  PROVE  OnPlan(e, h, c)
<1> DEFINE q == k.cmd_queue
<1>0. /\ k \in SectionStruct /\ q \in Seq(Node) /\ DeviceConsistent(d)
      /\ k.result \in {"none", "OK", "IOERR"}
      /\ EjectsOnly(q)
      /\ d.err /\ d.status = "NO_TAPE" => Head(q).cmd.op = "EJECT_TAPE"
  BY DEF Good, SectionStruct, OnPlan, EjectsOnly
<1>1. CASE Untouched(d, k, b, e, h, c)
  BY <1>1 DEF Untouched
<1>2. CASE Dispatched(d, k, b, e, h, c)
  <2>1. PICK r \in Requests :
          /\ e = d
          /\ h = [k EXCEPT !.req = r, !.ends = 0, !.result = "none"]
          /\ c = [pc |-> "building", rq |-> r, moved |-> 0]
    BY <1>2 DEF Dispatched
  <2>2. h.cmd_queue = q /\ h.result = "none" /\ c.moved = 0
    BY <1>0, <2>1 DEF SectionStruct
  <2>3. ~HasRequest(q)
    BY <1>2 DEF Dispatched, RequestKept
  <2> QED
    BY <1>0, <2>1, <2>2, <2>3 DEF OnPlan, EjectsOnly
<1>3. CASE Submitted(d, k, b, e, h, c)
  BY <1>3, SubmitOnPlan
<1>4. ASSUME e = d, h.cmd_queue = q, ~HasRequest(q), c.pc # "building",
             h.result = "OK" => k.result = "OK",
             c.moved = b.moved, c.rq = b.rq
      PROVE  OnPlan(e, h, c)
  BY <1>0, <1>4 DEF OnPlan, EjectsOnly
<1>5. CASE SubmitFailed(d, k, b, e, h, c)
  <2>1. /\ e = d /\ b.pc = "building" /\ h = EndRequestHelper(k, "IOERR")
        /\ c.pc = "failing" /\ c.rq = b.rq /\ c.moved = b.moved
    BY <1>5 DEF SubmitFailed, BlockLayer
  <2>2. ~HasRequest(q)
    BY <2>1 DEF RequestKept
  <2>3. h.cmd_queue = q /\ Ended(k, h, "IOERR")
    BY <1>0, <2>1, EndEffect
  <2>4. h.result = "OK" => k.result = "OK"
    BY <1>0, <2>3 DEF Ended, SameRequest
  <2> QED
    BY <1>4, <2>1, <2>2, <2>3, <2>4
<1>6. CASE ErrorReturned(d, k, b, e, h, c)
  <2>1. /\ e = d /\ b.pc = "failing" /\ h = BlkMqEndRequest(k, "IOERR")
        /\ c.pc = "idle" /\ c.rq = b.rq /\ c.moved = b.moved
    BY <1>6 DEF ErrorReturned, BlockLayer
  <2>2. ~HasRequest(q)
    BY <2>1 DEF RequestKept
  <2>3. h.cmd_queue = q /\ (h.result = "OK" => k.result = "OK")
    <3> DEFINE st == IF k.result = "none" THEN "IOERR" ELSE k.result
    <3>1. h = [k EXCEPT !.ends = k.ends + 1, !.result = st]
      BY <2>1 DEF BlkMqEndRequest
    <3> QED
      BY <1>0, <3>1 DEF SectionStruct
  <2> QED
    BY <1>4, <2>1, <2>2, <2>3
<1>7. CASE EjectQueued(d, k, b, e, h, c)
  BY <1>7, EjectOnPlan
<1>8. CASE EjectOver(d, k, b, e, h, c)
  <2>1. /\ e = d /\ c = b /\ h.cmd_queue = q
        /\ h.current_tape = k.current_tape /\ h.result = k.result
    BY <1>8 DEF EjectOver, SameRequest
  <2>2. \A o \in Int : AtHead(d, k, b, o) => AtHead(e, h, c, o)
    BY <2>1 DEF AtHead
  <2> QED
    BY <2>1, <2>2 DEF OnPlan
<1>9. CASE ReportHandled(d, k, b, e, h, c)
  <2> DEFINE g == Cleared(d)
  <2>1. /\ d.done \/ d.err
        /\ Reported(d, k, h) /\ h.current_tape = g.tape
        /\ e = IF h.cmd_queue # << >> THEN Exec(g, Head(h.cmd_queue).cmd)
               ELSE g
        /\ c = b
    BY <1>9 DEF ReportHandled
  <2>2. DeviceConsistent(g) /\ ~g.done /\ ~g.err /\ g.state # "busy"
    BY <1>0, <2>1, ClearType DEF Cleared
  <2>3. Ready(h, b)
    BY <2>1, ReportReady
  <2> HIDE DEF g
  <2> QED
    BY <2>1, <2>2, <2>3, SendOnPlan
<1>10. CASE DeviceTicked(d, k, b, e, h, c)
  BY <1>10, TickOnPlan
<1> QED
  BY <1>1, <1>2, <1>3, <1>5, <1>6, <1>7, <1>8, <1>9, <1>10
     DEF SectionStepped

(* AllOnPlan is inductive, given IInv and RequestsKept.                    *)
LEMMA AllOnPlanAlways == Spec => []AllOnPlan
<1>1. Init => AllOnPlan
  <2> SUFFICES ASSUME Init, NEW s \in Sections
               PROVE  OnPlan(dev[s], sec[s], blk[s])
    BY DEF AllOnPlan
  <2>1. /\ sec[s].cmd_queue = << >> /\ sec[s].result = "none"
        /\ blk[s].pc = "idle"
    BY DEF Init
  <2>2. ~dev[s].err
    BY DEF Init, DeviceInit, InitialSection
  <2> QED
    BY <2>1, <2>2 DEF OnPlan, HasRequest
<1>2. IInv /\ IInv' /\ RequestsKept /\ AllOnPlan /\ [Next]_vars => AllOnPlan'
  <2> SUFFICES ASSUME IInv, IInv', RequestsKept, AllOnPlan, [Next]_vars,
                      NEW x \in Sections
               PROVE  OnPlan(dev'[x], sec'[x], blk'[x])
    BY DEF AllOnPlan
  <2>1. PICK s \in Sections : OnlySection(s)
    BY OneSectionSteps
  <2>2. /\ Good(dev[s], sec[s]) /\ blk[s] \in BlockLayer
        /\ sec'[s] \in SectionStruct
        /\ RequestKept(sec[s], blk[s]) /\ OnPlan(dev[s], sec[s], blk[s])
    BY DEF IInv, TypeOK, RequestsKept, AllOnPlan
  <2>3. OnPlan(dev'[s], sec'[s], blk'[s])
    BY <2>1, <2>2, OnPlanStep DEF OnlySection
  <2> QED
    BY <2>1, <2>3 DEF OnlySection, AllOnPlan
<1> QED
  BY <1>1, <1>2, Inductive, RequestsKeptAlways, PTL DEF Spec

(* Only EJECT ever fails with NO_TAPE, so __handle_section_error may drop  *)
(* the command and go on: the plan of a request takes a tape before it     *)
(* moves or transfers, and the ioctl queues nothing but EJECT.             *)
THEOREM OnlyEjectFindsNoTape == Spec => []NoTapeOnlyForEject
<1>1. AllOnPlan => NoTapeOnlyForEject
  BY DEF AllOnPlan, OnPlan, NoTapeOnlyForEject, Queue
<1> QED
  BY <1>1, AllOnPlanAlways, PTL

(* A request ended with BLK_STS_OK had all its blocks moved by the device, *)
(* whatever ejects, faults and spurious interrupts came in between         *)
(* (__end_req_if_completed).                                               *)
THEOREM OkOnlyIfTransferred == Spec => []OkMeansTransferred
<1>1. AllOnPlan => OkMeansTransferred
  BY DEF AllOnPlan, OnPlan, OkMeansTransferred
<1> QED
  BY <1>1, AllOnPlanAlways, PTL
-----------------------------------------------------------------------------
(* The driver implements the safety part of the disk of TapeBlockDev.      *)

(* What the block layer sees of a section.                                 *)
OpenOf(k, b) == b.rq # NoReq /\ k.ends = 0
LeftOf(b) == b.rq.size - b.moved

SameDisk(k, b, h, c) ==
  OpenOf(h, c) = OpenOf(k, b) /\ LeftOf(c) = LeftOf(b) /\ h.result = k.result

Accepts(k, b, h, c) ==
  /\ ~OpenOf(k, b) /\ OpenOf(h, c) /\ h.result = "none"
  /\ \E r \in Requests : LeftOf(c) = r.size

Moves(k, b, h, c) ==
  /\ OpenOf(k, b) /\ OpenOf(h, c) /\ h.result = k.result
  /\ LeftOf(b) > 0 /\ LeftOf(c) = LeftOf(b) - 1

Ends(k, b, h, c) ==
  /\ OpenOf(k, b) /\ ~OpenOf(h, c) /\ LeftOf(c) = LeftOf(b)
  /\ h.result \in {"OK", "IOERR"} /\ (h.result = "OK" => LeftOf(b) = 0)

(* Ending the request sec->req points to is an End of the disk.            *)
LEMMA EndedEnds ==
  ASSUME NEW k \in SectionStruct, NEW b \in BlockLayer, RequestKept(k, b),
         k.req # NoReq, NEW h, NEW st \in {"OK", "IOERR"}, Ended(k, h, st),
         NEW c, c.rq = b.rq, c.moved = b.moved,
         h.result = "OK" => c.moved = c.rq.size
  PROVE  Ends(k, b, h, c)
<1>1. /\ OpenOf(k, b) /\ k.result = "none"
      /\ k.req \in Requests /\ k.req = b.rq
  BY DEF RequestKept, OpenOf, SectionStruct
<1>2. h.ends = 1 /\ h.result = st
  BY <1>1 DEF Ended, OpenOf
<1>3. ~OpenOf(h, c)
  BY <1>2 DEF OpenOf
<1>4. b.rq.size \in Nat
  BY <1>1, RealRequest
<1> QED
  BY <1>1, <1>2, <1>3, <1>4 DEF Ends, LeftOf

(* Each step of a section is one of the disk, or invisible to it.          *)
LEMMA DiskStep ==
  ASSUME NEW d, NEW k, NEW b \in BlockLayer, Good(d, k), RequestKept(k, b),
         OnPlan(d, k, b), NEW e, NEW h \in SectionStruct, NEW c,
         SectionStepped(d, k, b, e, h, c)
  PROVE  \/ SameDisk(k, b, h, c) \/ Accepts(k, b, h, c)
         \/ Moves(k, b, h, c) \/ Ends(k, b, h, c)
<1> DEFINE q == k.cmd_queue
<1>0. /\ k \in SectionStruct /\ k.ends \in Nat /\ b.moved \in Nat
      /\ OnPlan(e, h, c)
  BY OnPlanStep DEF Good, SectionStruct, BlockLayer
<1>1. h.result = "OK" => c.moved = c.rq.size
  BY <1>0 DEF OnPlan
<1>2. ASSUME SameRequest(k, h), c.rq = b.rq, c.moved = b.moved
      PROVE  SameDisk(k, b, h, c)
  BY <1>2 DEF SameRequest, SameDisk, OpenOf, LeftOf
<1>3. CASE Untouched(d, k, b, e, h, c) \/ EjectOver(d, k, b, e, h, c)
             \/ EjectQueued(d, k, b, e, h, c)
  BY <1>2, <1>3 DEF Untouched, EjectOver, EjectQueued, Enqueued, SameRequest
<1>4. CASE Submitted(d, k, b, e, h, c)
  BY <1>2, <1>4 DEF Submitted, Enqueued, BlockLayer
<1>5. CASE Dispatched(d, k, b, e, h, c)
  <2>1. PICK r \in Requests :
          /\ h = [k EXCEPT !.req = r, !.ends = 0, !.result = "none"]
          /\ c = [pc |-> "building", rq |-> r, moved |-> 0]
    BY <1>5 DEF Dispatched
  <2>2. h.ends = 0 /\ h.result = "none" /\ c.rq = r /\ c.moved = 0
    BY <1>0, <2>1 DEF SectionStruct
  <2>3. r # NoReq /\ r.size \in Nat
    BY RealRequest
  <2>4. ~OpenOf(k, b)
    BY <1>5 DEF Dispatched, OpenOf
  <2>5. OpenOf(h, c) /\ LeftOf(c) = r.size
    BY <2>2, <2>3 DEF OpenOf, LeftOf
  <2> QED
    BY <2>2, <2>4, <2>5 DEF Accepts
<1>6. CASE SubmitFailed(d, k, b, e, h, c)
  <2>1. /\ b.pc = "building" /\ h = EndRequestHelper(k, "IOERR")
        /\ c.rq = b.rq /\ c.moved = b.moved
    BY <1>6 DEF SubmitFailed, BlockLayer
  <2>2. k.req # NoReq /\ Ended(k, h, "IOERR")
    BY <1>0, <2>1, EndEffect DEF RequestKept
  <2> QED
    BY <1>0, <1>1, <2>1, <2>2, EndedEnds
<1>7. CASE ErrorReturned(d, k, b, e, h, c)
  <2>1. /\ b.pc = "failing" /\ h = BlkMqEndRequest(k, "IOERR")
        /\ c.rq = b.rq /\ c.moved = b.moved
    BY <1>7 DEF ErrorReturned, BlockLayer
  <2>2. k.ends # 0 /\ k.result # "none"
    BY <2>1 DEF RequestKept
  <2>3. h.ends = k.ends + 1 /\ h.result = k.result
    <3>1. h = [k EXCEPT !.ends = k.ends + 1, !.result = k.result]
      BY <2>1, <2>2 DEF BlkMqEndRequest
    <3> QED
      BY <1>0, <3>1 DEF SectionStruct
  <2>4. h.ends # 0
    BY <1>0, <2>3
  <2> QED
    BY <2>1, <2>2, <2>3, <2>4 DEF SameDisk, OpenOf, LeftOf
<1>8. CASE ReportHandled(d, k, b, e, h, c)
  <2>0. c = b /\ Reported(d, k, h) /\ q # << >> /\ q \in Seq(Node)
    BY <1>0, <1>8 DEF ReportHandled, Good, Matches, SectionStruct
  <2>1. ~Head(q).is_ioctl => k.req # NoReq
    BY <2>0, HeadOfRequest DEF RequestKept
  <2>2. CASE HeadKept(k, h) \/ HeadPopped(d, k, h)
    BY <1>2, <2>0, <2>2 DEF HeadKept, HeadPopped, SameRequest
  <2>3. CASE RequestDone(d, k, h)
    <3>1. ~Head(q).is_ioctl /\ Ended(k, h, "OK")
      BY <2>3 DEF RequestDone, LastOfRequest
    <3> QED
      BY <1>0, <1>1, <2>0, <2>1, <3>1, EndedEnds
  <2>4. CASE RequestAborted(k, h)
    <3>1. ~Head(q).is_ioctl /\ Ended(k, h, "IOERR")
      BY <2>4 DEF RequestAborted
    <3> QED
      BY <1>0, <1>1, <2>0, <2>1, <3>1, EndedEnds
  <2>5. CASE RequestForgotten(k, h)
    BY <2>0, <2>5 DEF RequestForgotten, SameDisk, OpenOf, LeftOf
  <2> QED
    BY <2>0, <2>2, <2>3, <2>4, <2>5 DEF Reported
<1>9. CASE DeviceTicked(d, k, b, e, h, c)
  <2>1. /\ h = k /\ c.rq = b.rq
        /\ c.moved = IF Transferred(d, e) THEN b.moved + 1 ELSE b.moved
    BY <1>9 DEF DeviceTicked, BlockLayer
  <2>2. CASE ~Transferred(d, e)
    BY <1>2, <2>1, <2>2 DEF SameRequest
  <2>3. CASE Transferred(d, e)
    <3>1. HasRequest(q) /\ b.moved + 1 <= b.rq.size
      BY <1>9, <2>3, TickOnPlan
    <3>2. k.req # NoReq /\ k.req \in Requests /\ k.req = b.rq /\ k.ends = 0
      BY <1>0, <3>1 DEF RequestKept, SectionStruct
    <3>3. b.rq.size \in Nat
      BY <3>2, RealRequest
    <3>4. OpenOf(k, b) /\ OpenOf(h, c)
      BY <2>1, <3>2 DEF OpenOf
    <3>5. LeftOf(b) > 0 /\ LeftOf(c) = LeftOf(b) - 1
      BY <1>0, <2>1, <2>3, <3>1, <3>3 DEF LeftOf
    <3> QED
      BY <2>1, <3>4, <3>5 DEF Moves
  <2> QED
    BY <2>2, <2>3
<1> QED
  BY <1>3, <1>4, <1>5, <1>6, <1>7, <1>8, <1>9 DEF SectionStepped

(* The driver implements what TapeBlockDev says a disk may do: it accepts  *)
(* a request only when none is open, moves its blocks one by one, never    *)
(* more than asked for, ends it once, and reports success only when all    *)
(* blocks were moved.                                                      *)
THEOREM DriverImplementsDisk ==
  Spec => Disk!AInit /\ [][Disk!ANext]_(Disk!avars)
<1>1. Init => Disk!AInit
  <2> SUFFICES ASSUME Init PROVE Disk!AInit
    OBVIOUS
  <2>1. \A s \in Sections :
          /\ ~InFlight(s) /\ blk[s].rq.size - blk[s].moved = 0
          /\ sec[s].result = "none"
    BY DEF Init, InFlight, NoReq
  <2>2. [s \in Sections |-> InFlight(s)] = [s \in Sections |-> FALSE]
    BY <2>1 DEF InFlight
  <2>3. [s \in Sections |-> blk[s].rq.size - blk[s].moved] =
          [s \in Sections |-> 0]
    BY <2>1
  <2>4. [s \in Sections |-> sec[s].result] = [s \in Sections |-> "none"]
    BY <2>1
  <2> QED
    BY <2>2, <2>3, <2>4 DEF Disk!AInit
<1>2. IInv /\ IInv' /\ RequestsKept /\ AllOnPlan /\ [Next]_vars
        => [Disk!ANext]_(Disk!avars)
  <2> SUFFICES ASSUME IInv, IInv', RequestsKept, AllOnPlan, [Next]_vars
               PROVE  [Disk!ANext]_(Disk!avars)
    OBVIOUS
  <2>1. PICK s \in Sections : OnlySection(s)
    BY OneSectionSteps
  <2> DEFINE k == sec[s]
             b == blk[s]
             h == sec'[s]
             c == blk'[s]
  <2>2. /\ Good(dev[s], k) /\ b \in BlockLayer /\ h \in SectionStruct
        /\ RequestKept(k, b) /\ OnPlan(dev[s], k, b)
        /\ SectionStepped(dev[s], k, b, dev'[s], h, c)
    BY <2>1 DEF IInv, TypeOK, RequestsKept, AllOnPlan, OnlySection
  <2>3. \/ SameDisk(k, b, h, c) \/ Accepts(k, b, h, c)
        \/ Moves(k, b, h, c) \/ Ends(k, b, h, c)
    BY <2>2, DiskStep
  <2> DEFINE open == [x \in Sections |-> InFlight(x)]
             left == [x \in Sections |-> blk[x].rq.size - blk[x].moved]
             result == [x \in Sections |-> sec[x].result]
  <2>4. /\ open[s] = OpenOf(k, b) /\ left[s] = LeftOf(b)
        /\ result[s] = k.result
        /\ open \in [Sections -> BOOLEAN]
        /\ open' = [open EXCEPT ![s] = OpenOf(h, c)]
        /\ left' = [left EXCEPT ![s] = LeftOf(c)]
        /\ result' = [result EXCEPT ![s] = h.result]
    BY <2>1 DEF OnlySection, InFlight, OpenOf, LeftOf
  <2>5. /\ OpenOf(h, c) = OpenOf(k, b) => open' = open
        /\ LeftOf(c) = LeftOf(b) => left' = left
        /\ h.result = k.result => result' = result
    <3>1. OpenOf(h, c) = OpenOf(k, b) => open' = open
      BY <2>1 DEF OnlySection, InFlight, OpenOf
    <3>2. LeftOf(c) = LeftOf(b) => left' = left
      BY <2>1 DEF OnlySection, LeftOf
    <3>3. h.result = k.result => result' = result
      BY <2>1 DEF OnlySection
    <3> QED
      BY <3>1, <3>2, <3>3
  <2>6. CASE SameDisk(k, b, h, c)
    <3>1. /\ OpenOf(h, c) = OpenOf(k, b) /\ LeftOf(c) = LeftOf(b)
          /\ h.result = k.result
      BY <2>6 DEF SameDisk
    <3>2. open' = open /\ left' = left /\ result' = result
      BY <2>5, <3>1
    <3> QED
      BY <3>2 DEF Disk!avars
  <2>7. CASE Accepts(k, b, h, c)
    <3>1. Disk!Accept(s)
      BY <2>4, <2>7 DEF Disk!Accept, Accepts
    <3> QED
      BY <3>1 DEF Disk!ANext
  <2>8. CASE Moves(k, b, h, c)
    <3>1. Disk!Move(s)
      BY <2>4, <2>8 DEF Disk!Move, Moves
    <3> QED
      BY <3>1 DEF Disk!ANext
  <2>9. CASE Ends(k, b, h, c)
    <3>1. open[s] /\ open' = [open EXCEPT ![s] = FALSE]
      <4>1. OpenOf(k, b) /\ OpenOf(h, c) = FALSE
        BY <2>9 DEF Ends, OpenOf
      <4> QED
        BY <2>4, <4>1, Zenon
    <3>2. /\ h.result \in {"OK", "IOERR"} /\ (h.result = "OK" => left[s] = 0)
          /\ result' = [result EXCEPT ![s] = h.result]
      BY <2>4, <2>9 DEF Ends
    <3>3. left' = left
      BY <2>5, <2>9 DEF Ends
    <3>4. Disk!End(s)
      BY <3>1, <3>2, <3>3 DEF Disk!End
    <3> QED
      BY <3>4 DEF Disk!ANext
  <2> QED
    BY <2>3, <2>6, <2>7, <2>8, <2>9
<1> QED
  BY <1>1, <1>2, Inductive, RequestsKeptAlways, AllOnPlanAlways, PTL DEF Spec
=============================================================================
