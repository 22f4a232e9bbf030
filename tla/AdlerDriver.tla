---------------------------- MODULE AdlerDriver ----------------------------
(***************************************************************************)
(* The checksum driver of src/11_lab_pci/adlerdev/adlerdev.c: open files   *)
(* (contexts) share a pool of DMA buffers and one device that works on one *)
(* buffer at a time.  write cuts its data into page-sized chunks, each     *)
(* chunk travels free -> held by the writer -> running -> free, and the    *)
(* interrupt handler carries a context's sum from one chunk to the next.   *)
(*                                                                         *)
(* A critical section under dev->slock is one step, except that of the     *)
(* interrupt handler: ctx->pending_buffers is incremented outside the lock *)
(* (line 175), so its increment and the decrement of the handler (line 87) *)
(* are a load and a store each, and either may overwrite the other.  While *)
(* the handler is between the two it holds slock.                          *)
(*                                                                         *)
(* A sum is the sequence of the chunks that went into it; chunk n of a     *)
(* context is the n-th one it submitted.                                   *)
(***************************************************************************)
EXTENDS Integers, Sequences, FiniteSets

CONSTANTS Ctxs,        \* slots for open files
          Threads,     \* user threads; several may use one file
          Buffers,     \* ADLERDEV_NUM_BUFFERS
          NoBuf,       \* no buffer: a register that holds 0
          NoCtx,       \* buf->ctx = 0
          MaxChunks    \* bound: chunks submitted per open file

ASSUME AdlerAssumption ==
  /\ Buffers # {}
  /\ IsFiniteSet(Buffers)
  /\ NoBuf \notin Buffers
  /\ NoCtx \notin Ctxs
  /\ MaxChunks \in Nat

VARIABLES dev,       \* is the driver bound to the device?
          ctx,       \* struct adlerdev_context of each file
          buf,       \* struct adlerdev_buffer: owner and contents
          free,      \* buffers_free
          running,   \* buffers_running, in order
          hw,        \* the registers of the device
          isr,       \* the handler: has it loaded the count, and what
          pc, thr,   \* where each thread is, and its locals
          pm,        \* power management: on, asleep, woken, off
          asked,     \* bound: chunks the writes on each open file asked for
          wrote,     \* history: chunks submitted for each open file
          lost,      \* history: an update of the count overwrote another
          stuck      \* history: resume threw a completion away

history == <<asked, wrote, lost, stuck>>
vars == <<dev, ctx, buf, free, running, hw, isr, pc, thr, pm,
          asked, wrote, lost, stuck>>

Context == [state : {"closed", "open", "closing", "dangling"},
            pending : Int, sum : Seq(Nat)]

NewContext(state) == [state |-> state, pending |-> 0, sum |-> <<>>]
NoContext == NewContext("closed")

Buffer == [ctx : Ctxs \cup {NoCtx}, chunk : Nat]

Registers == [enable : BOOLEAN,               \* INTR_ENABLE
              intr   : BOOLEAN,               \* INTR
              work   : Buffers \cup {NoBuf},  \* DATA_PTR while DATA_SIZE # 0
              sum    : Seq(Nat)]              \* SUM

Locals == [ctx : Ctxs \cup {NoCtx}, buf : Buffers \cup {NoBuf},
           tmp : Int, left : Nat]

(* A call on file c with n chunks to write, about to take a buffer.        *)
NewLocals(c, n) == [ctx |-> c, buf |-> NoBuf, tmp |-> 0, left |-> n]
NoLocals == NewLocals(NoCtx, 0)

(* adlerdev_isr holds slock from its load to its store of the count.       *)
Handler == [on : BOOLEAN, tmp : Int]
NoHandler == [on |-> FALSE, tmp |-> 0]

Labels == {"idle", "get", "fill", "count", "store", "submit", "read"}

InitialRegisters ==
  [enable |-> TRUE, intr |-> FALSE, work |-> NoBuf, sum |-> <<>>]

(* After a successful probe.                                               *)
Init ==
  /\ dev = "live"
  /\ ctx = [c \in Ctxs |-> NoContext]
  /\ buf = [b \in Buffers |-> [ctx |-> NoCtx, chunk |-> 0]]
  /\ free = Buffers
  /\ running = <<>>
  /\ hw = InitialRegisters
  /\ isr = NoHandler
  /\ pc = [t \in Threads |-> "idle"]
  /\ thr = [t \in Threads |-> NoLocals]
  /\ pm = "on"
  /\ asked = [c \in Ctxs |-> 0]
  /\ wrote = [c \in Ctxs |-> 0]
  /\ lost = [c \in Ctxs |-> FALSE]
  /\ stuck = FALSE

-----------------------------------------------------------------------------
(* dev->slock is free.                                                     *)
Unlocked == ~isr.on

(* Files.                                                                  *)

InUse(c) == \E t \in Threads : thr[t].ctx = c

(* User space runs: the driver is bound, the system is not suspending.     *)
UserRuns == dev = "live" /\ pm = "on"

Open(c) ==
  /\ UserRuns
  /\ ctx[c].state = "closed"
  /\ ctx' = [ctx EXCEPT ![c] = NewContext("open")]
  /\ asked' = [asked EXCEPT ![c] = 0]
  /\ wrote' = [wrote EXCEPT ![c] = 0]
  /\ lost' = [lost EXCEPT ![c] = FALSE]
  /\ UNCHANGED <<dev, buf, free, running, hw, isr, pc, thr, pm, stuck>>

(* The last reference goes away; release waits for pending_buffers = 0 ... *)
Release(c) ==
  /\ UserRuns
  /\ ctx[c].state = "open"
  /\ ~InUse(c)
  /\ ctx' = [ctx EXCEPT ![c].state = "closing"]
  /\ UNCHANGED <<dev, buf, free, running, hw, isr, pc, thr, pm, history>>

Owned(c) == {b \in Buffers : buf[b].ctx = c}

(* ... and frees the context.  A buffer that still points to it makes it a *)
(* dangling one: what the handler does with it is undefined.               *)
Freed(c) == IF Owned(c) = {} THEN "closed" ELSE "dangling"

ReleaseReturn_NoWait(c) ==
  /\ Unlocked
  /\ ctx[c].state = "closing"
  /\ ctx' = [ctx EXCEPT ![c].state = Freed(c)]
  /\ UNCHANGED <<dev, buf, free, running, hw, isr, pc, thr, pm, history>>

ReleaseReturn(c) ==
  /\ Unlocked
  /\ ctx[c].state = "closing"
  /\ ctx[c].pending = 0
  /\ ctx' = [ctx EXCEPT ![c].state = Freed(c)]
  /\ UNCHANGED <<dev, buf, free, running, hw, isr, pc, thr, pm, history>>

-----------------------------------------------------------------------------
(* write.                                                                  *)

Return(t) ==
  /\ pc' = [pc EXCEPT ![t] = "idle"]
  /\ thr' = [thr EXCEPT ![t] = NoLocals]

Write(t, c, n) ==
  /\ UserRuns
  /\ pc[t] = "idle"
  /\ ctx[c].state = "open"
  /\ asked[c] + n <= MaxChunks
  /\ asked' = [asked EXCEPT ![c] = @ + n]
  /\ pc' = [pc EXCEPT ![t] = "get"]
  /\ thr' = [thr EXCEPT ![t] = NewLocals(c, n)]
  /\ UNCHANGED <<dev, ctx, buf, free, running, hw, isr, pm, wrote, lost, stuck>>

GetBuffer(t) ==
  /\ pc[t] = "get"
  /\ Unlocked
  /\ \E b \in free :
       /\ free' = free \ {b}
       /\ thr' = [thr EXCEPT ![t].buf = b]
  /\ pc' = [pc EXCEPT ![t] = "fill"]
  /\ UNCHANGED <<dev, ctx, buf, running, hw, isr, pm, history>>

(* A signal while no buffer is free.                                       *)
GetInterrupted(t) ==
  /\ pc[t] = "get"
  /\ free = {}
  /\ Return(t)
  /\ UNCHANGED <<dev, ctx, buf, free, running, hw, isr, pm, history>>

FillFails_Forgotten(t) ==
  /\ pc[t] = "fill"
  /\ Unlocked
  /\ Return(t)
  /\ UNCHANGED <<dev, ctx, buf, free, running, hw, isr, pm, history>>

(* copy_from_user faults: the buffer goes back.                            *)
FillFails(t) ==
  /\ pc[t] = "fill"
  /\ Unlocked
  /\ free' = free \cup {thr[t].buf}
  /\ Return(t)
  /\ UNCHANGED <<dev, ctx, buf, running, hw, isr, pm, history>>

Fill(t) ==
  /\ pc[t] = "fill"
  /\ buf' = [buf EXCEPT ![thr[t].buf].ctx = thr[t].ctx]
  /\ pc' = [pc EXCEPT ![t] = "count"]
  /\ UNCHANGED <<dev, ctx, free, running, hw, isr, thr, pm, history>>

CountLoad(t) ==
  /\ pc[t] = "count"
  /\ thr' = [thr EXCEPT ![t].tmp = ctx[thr[t].ctx].pending]
  /\ pc' = [pc EXCEPT ![t] = "store"]
  /\ UNCHANGED <<dev, ctx, buf, free, running, hw, isr, pm, history>>

CountStore_Twice(t) ==
  /\ pc[t] = "store"
  /\ LET c == thr[t].ctx
     IN  /\ ctx' = [ctx EXCEPT ![c].pending = thr[t].tmp + 2]
         /\ lost' = [lost EXCEPT ![c] = @ \/ ctx[c].pending # thr[t].tmp]
  /\ pc' = [pc EXCEPT ![t] = "submit"]
  /\ UNCHANGED <<dev, buf, free, running, hw, isr, thr, pm,
                 asked, wrote, stuck>>

CountStore(t) ==
  /\ pc[t] = "store"
  /\ LET c == thr[t].ctx
     IN  /\ ctx' = [ctx EXCEPT ![c].pending = thr[t].tmp + 1]
         /\ lost' = [lost EXCEPT ![c] = @ \/ ctx[c].pending # thr[t].tmp]
  /\ pc' = [pc EXCEPT ![t] = "submit"]
  /\ UNCHANGED <<dev, buf, free, running, hw, isr, thr, pm,
                 asked, wrote, stuck>>

(* The three register writes that start the device on buffer b.            *)
Start(r, b, sum) == [r EXCEPT !.work = b, !.sum = sum]

Submit_NoEnd(t) ==
  /\ pc[t] = "submit"
  /\ Unlocked
  /\ LET b == thr[t].buf
         c == thr[t].ctx
     IN  /\ hw' = IF running = <<>> THEN Start(hw, b, ctx[c].sum) ELSE hw
         /\ running' = Append(running, b)
         /\ buf' = [buf EXCEPT ![b].chunk = wrote[c] + 1]
         /\ wrote' = [wrote EXCEPT ![c] = @ + 1]
  /\ pc' = [pc EXCEPT ![t] = "get"]
  /\ thr' = [thr EXCEPT ![t] = NewLocals(thr[t].ctx, thr[t].left - 1)]
  /\ UNCHANGED <<dev, ctx, free, isr, pm, asked, lost, stuck>>

(* Adds the chunk to buffers_running, starting the device if it was idle,  *)
(* and goes on with the next chunk of this write.                          *)
Submit(t) ==
  /\ pc[t] = "submit"
  /\ Unlocked
  /\ LET b == thr[t].buf
         c == thr[t].ctx
     IN  /\ hw' = IF running = <<>> THEN Start(hw, b, ctx[c].sum) ELSE hw
         /\ running' = Append(running, b)
         /\ buf' = [buf EXCEPT ![b].chunk = wrote[c] + 1]
         /\ wrote' = [wrote EXCEPT ![c] = @ + 1]
  /\ IF thr[t].left = 1
     THEN Return(t)
     ELSE /\ pc' = [pc EXCEPT ![t] = "get"]
          /\ thr' = [thr EXCEPT ![t] = NewLocals(thr[t].ctx, thr[t].left - 1)]
  /\ UNCHANGED <<dev, ctx, free, isr, pm, asked, lost, stuck>>

-----------------------------------------------------------------------------
(* read: waits for pending_buffers = 0, then takes the sum.                *)

Read(t, c) ==
  /\ UserRuns
  /\ pc[t] = "idle"
  /\ ctx[c].state = "open"
  /\ pc' = [pc EXCEPT ![t] = "read"]
  /\ thr' = [thr EXCEPT ![t] = NewLocals(c, 0)]
  /\ UNCHANGED <<dev, ctx, buf, free, running, hw, isr, pm, history>>

ReadReturn_NoWait(t) ==
  /\ pc[t] = "read"
  /\ Unlocked
  /\ Return(t)
  /\ UNCHANGED <<dev, ctx, buf, free, running, hw, isr, pm, history>>

ReadReturn(t) ==
  /\ pc[t] = "read"
  /\ Unlocked
  /\ ctx[thr[t].ctx].pending = 0
  /\ Return(t)
  /\ UNCHANGED <<dev, ctx, buf, free, running, hw, isr, pm, history>>

(* A signal while it waits.                                                *)
ReadInterrupted(t) ==
  /\ pc[t] = "read"
  /\ ctx[thr[t].ctx].pending # 0
  /\ Return(t)
  /\ UNCHANGED <<dev, ctx, buf, free, running, hw, isr, pm, history>>

-----------------------------------------------------------------------------
(* The device (not in this repository) finishes its buffer.                *)
DeviceDone ==
  /\ hw.work # NoBuf
  /\ hw' = [hw EXCEPT !.intr = TRUE, !.work = NoBuf,
                      !.sum = Append(@, buf[hw.work].chunk)]
  /\ UNCHANGED <<dev, ctx, buf, free, running, isr, pc, thr, pm, history>>

(* The registers after the handler: the interrupt is acknowledged, the     *)
(* next buffer runs with the sum its context has by now.                   *)
RunNext(r, q, cs) ==
  IF q = <<>> THEN r
  ELSE Start(r, Head(q), cs[buf[Head(q)].ctx].sum)

(* adlerdev_isr takes slock and, if the interrupt is its own, loads the    *)
(* count it is going to decrement.  What it has done by then (acknowledged *)
(* the interrupt, taken the buffer off the list) nobody sees without slock *)
(* and is part of the next step.                                           *)
IsrLoad ==
  /\ Unlocked
  /\ hw.intr /\ hw.enable
  /\ isr' = [on |-> TRUE, tmp |-> ctx[buf[Head(running)].ctx].pending]
  /\ UNCHANGED <<dev, ctx, buf, free, running, hw, pc, thr, pm, history>>

(* The rest of the handler, from the store of the decremented count to the *)
(* release of slock.  It wakes a suspend that waits on idle_wq only when   *)
(* it ran out of buffers.                                                  *)
IsrStore_OldSum ==
  /\ isr.on
  /\ LET b == Head(running)
         c == buf[b].ctx
     IN  /\ running' = Tail(running)
         /\ free' = free \cup {b}
         /\ buf' = [buf EXCEPT ![b].ctx = NoCtx]
         /\ ctx' = [ctx EXCEPT ![c].pending = isr.tmp - 1, ![c].sum = hw.sum]
         /\ lost' = [lost EXCEPT ![c] = @ \/ ctx[c].pending # isr.tmp]
         /\ hw' = RunNext([hw EXCEPT !.intr = FALSE], Tail(running), ctx)
  /\ isr' = NoHandler
  /\ pm' = IF pm = "asleep" /\ Tail(running) = <<>> THEN "woken" ELSE pm
  /\ UNCHANGED <<dev, pc, thr, asked, wrote, stuck>>

IsrStore_NeverWakes ==
  /\ isr.on
  /\ LET b == Head(running)
         c == buf[b].ctx
     IN  /\ running' = Tail(running)
         /\ free' = free \cup {b}
         /\ buf' = [buf EXCEPT ![b].ctx = NoCtx]
         /\ ctx' = [ctx EXCEPT ![c].pending = isr.tmp - 1, ![c].sum = hw.sum]
         /\ lost' = [lost EXCEPT ![c] = @ \/ ctx[c].pending # isr.tmp]
         /\ hw' = [hw EXCEPT !.intr = FALSE]
  /\ isr' = NoHandler
  /\ UNCHANGED <<dev, pc, thr, pm, asked, wrote, stuck>>

IsrStore ==
  /\ isr.on
  /\ LET b == Head(running)
         c == buf[b].ctx
         done == [ctx EXCEPT ![c].pending = isr.tmp - 1, ![c].sum = hw.sum]
     IN  /\ running' = Tail(running)
         /\ free' = free \cup {b}
         /\ buf' = [buf EXCEPT ![b].ctx = NoCtx]
         /\ ctx' = done
         /\ lost' = [lost EXCEPT ![c] = @ \/ ctx[c].pending # isr.tmp]
         /\ hw' = RunNext([hw EXCEPT !.intr = FALSE], Tail(running), done)
  /\ isr' = NoHandler
  /\ pm' = IF pm = "asleep" /\ Tail(running) = <<>> THEN "woken" ELSE pm
  /\ UNCHANGED <<dev, pc, thr, asked, wrote, stuck>>

-----------------------------------------------------------------------------
(* Power management.  User space is frozen first: no thread is inside the  *)
(* driver and nobody waits in release.                                     *)

Frozen ==
  /\ \A t \in Threads : pc[t] = "idle"
  /\ \A c \in Ctxs : ctx[c].state # "closing"

(* suspend waits only for a buffer to be free, and then masks the device.  *)
SuspendOrSleep ==
  IF free = {} THEN pm' = "asleep" /\ UNCHANGED hw
  ELSE pm' = "off" /\ hw' = [hw EXCEPT !.enable = FALSE]

Suspend ==
  /\ UserRuns
  /\ Unlocked
  /\ Frozen
  /\ SuspendOrSleep
  /\ UNCHANGED <<dev, ctx, buf, free, running, isr, pc, thr, history>>

SuspendWakes ==
  /\ pm = "woken"
  /\ Unlocked
  /\ SuspendOrSleep
  /\ UNCHANGED <<dev, ctx, buf, free, running, isr, pc, thr, history>>

(* resume clears the interrupt before it unmasks it.                       *)
Resume ==
  /\ pm = "off"
  /\ pm' = "on"
  /\ hw' = [hw EXCEPT !.intr = FALSE, !.enable = TRUE]
  /\ stuck' = (stuck \/ hw.intr)
  /\ UNCHANGED <<dev, ctx, buf, free, running, isr, pc, thr,
                 asked, wrote, lost>>

(* Unloading the module: open files hold a reference to it, so there are   *)
(* none.  Only the buffers on buffers_free are given back.                 *)
Remove ==
  /\ UserRuns
  /\ Frozen
  /\ \A c \in Ctxs : ctx[c].state = "closed"
  /\ dev' = "gone"
  /\ hw' = [hw EXCEPT !.enable = FALSE]
  /\ UNCHANGED <<ctx, buf, free, running, isr, pc, thr, pm, history>>

(* probe allocates the pool, clears and unmasks the interrupt.             *)
Probe ==
  /\ dev = "gone"
  /\ dev' = "live"
  /\ free' = Buffers
  /\ running' = <<>>
  /\ buf' = [b \in Buffers |-> [ctx |-> NoCtx, chunk |-> 0]]
  /\ hw' = [hw EXCEPT !.intr = FALSE, !.enable = TRUE]
  /\ stuck' = FALSE
  /\ UNCHANGED <<ctx, isr, pc, thr, pm, asked, wrote, lost>>

-----------------------------------------------------------------------------
Dangling == \E c \in Ctxs : ctx[c].state = "dangling"

Thread(t) ==
  \/ \E c \in Ctxs, n \in 1 .. MaxChunks : Write(t, c, n)
  \/ GetBuffer(t)
  \/ GetInterrupted(t)
  \/ FillFails(t)
  \/ Fill(t)
  \/ CountLoad(t)
  \/ CountStore(t)
  \/ Submit(t)
  \/ \E c \in Ctxs : Read(t, c)
  \/ ReadReturn(t)
  \/ ReadInterrupted(t)

(* A suspend sleeps on a list that is never served again, or every file    *)
(* is in a release whose count never comes down to 0.                      *)
Hung ==
  \/ pm = "asleep" /\ stuck
  \/ \A c \in Ctxs : ctx[c].state = "closing" /\ (stuck \/ lost[c])

(* The system stops for good in two cases only: a dangling context, where  *)
(* anything may happen next, and the hangs above.                          *)
Next ==
  \/ /\ ~Dangling
     /\ \/ \E c \in Ctxs : Open(c) \/ Release(c) \/ ReleaseReturn(c)
        \/ \E t \in Threads : Thread(t)
        \/ DeviceDone \/ IsrLoad \/ IsrStore
        \/ Suspend \/ SuspendWakes \/ Resume
        \/ Remove \/ Probe
  \/ (Dangling \/ Hung) /\ UNCHANGED vars

(* The kernel runs its code, the device finishes what it was started on    *)
(* and its interrupt is delivered; a suspended system is resumed.  Slock   *)
(* is a queued spinlock: whoever waits for it gets it, however often the   *)
(* handler takes it in between.  Signals and faults are never owed to      *)
(* anyone.                                                                 *)
Fairness ==
  /\ WF_vars(DeviceDone)
  /\ WF_vars(IsrLoad)
  /\ WF_vars(IsrStore)
  /\ WF_vars(SuspendWakes)
  /\ WF_vars(Resume)
  /\ \A c \in Ctxs : SF_vars(ReleaseReturn(c))

Spec == Init /\ [][Next]_vars

FairSpec == Spec /\ Fairness

-----------------------------------------------------------------------------
TypeOK ==
  /\ dev \in {"live", "gone"}
  /\ ctx \in [Ctxs -> Context]
  /\ buf \in [Buffers -> Buffer]
  /\ free \subseteq Buffers
  /\ running \in Seq(Buffers)
  /\ hw \in Registers
  /\ isr \in Handler
  /\ pc \in [Threads -> Labels]
  /\ thr \in [Threads -> Locals]
  /\ pm \in {"on", "asleep", "woken", "off"}
  /\ asked \in [Ctxs -> Nat]
  /\ wrote \in [Ctxs -> Nat]
  /\ lost \in [Ctxs -> BOOLEAN]
  /\ stuck \in BOOLEAN

Holds(t) == pc[t] \in {"fill", "count", "store", "submit"}

(* Every buffer is in exactly one place: on buffers_free, with one writer, *)
(* or once on buffers_running; no buffer is lost and none is used twice.   *)
PoolConserved ==
  \A b \in Buffers :
    /\ \/ b \in free
       \/ \E t \in Threads : Holds(t) /\ thr[t].buf = b
       \/ \E i \in DOMAIN running : running[i] = b
    /\ b \in free =>
         /\ \A i \in DOMAIN running : running[i] # b
         /\ \A t \in Threads : thr[t].buf # b
    /\ \A i \in DOMAIN running : running[i] = b =>
         /\ \A j \in DOMAIN running : running[j] = b => i = j
         /\ \A t \in Threads : thr[t].buf # b
    /\ \A t, u \in Threads : thr[t].buf = b /\ thr[u].buf = b => t = u

(* The device works on, or has just finished, the first buffer of          *)
(* buffers_running; the handler never meets an empty list (the BUG_ON of   *)
(* line 84), and the device rests only when the list is empty.  The one    *)
(* exception is a completion that resume threw away: from then on the list *)
(* is never served again.                                                  *)
HardwareFollows ==
  /\ hw.intr => running # <<>> /\ hw.work = NoBuf
  /\ hw.work # NoBuf => running # <<>> /\ hw.work = Head(running)
  /\ running # <<>> => hw.intr \/ hw.work # NoBuf \/ stuck
  /\ stuck => running # <<>> /\ ~hw.intr /\ hw.work = NoBuf

(* The places of the buffers of c on buffers_running, and what they carry. *)
Mine(c) == {i \in DOMAIN running : buf[running[i]].ctx = c}
Chunk(i) == buf[running[i]].chunk

(* What is summed for c is chunks 1 to n in order; its buffers on the list *)
(* carry chunks n + 1 to the last one submitted, in order and once each.   *)
Chained(c) ==
  LET n == Len(ctx[c].sum)
  IN  /\ n <= wrote[c]
      /\ ctx[c].sum = [k \in 1 .. n |-> k]
      /\ \A i \in Mine(c) : Chunk(i) \in n + 1 .. wrote[c]
      /\ \A k \in n + 1 .. wrote[c] : \E i \in Mine(c) : Chunk(i) = k
      /\ \A i, j \in Mine(c) : i < j => Chunk(i) < Chunk(j)

(* The sum of a context followed by its chunks that still run is every     *)
(* chunk submitted for it, in order: however contexts interleave on the    *)
(* device, no chunk is skipped, repeated or summed into another file.      *)
SumChain ==
  \A c \in Ctxs : ctx[c].state \in {"open", "closing"} => Chained(c)

Counted(c) ==
  {b \in Buffers : buf[b].ctx = c /\ \E i \in DOMAIN running : running[i] = b}
  \cup {b \in Buffers : \E t \in Threads :
          pc[t] = "submit" /\ thr[t].buf = b /\ thr[t].ctx = c}

(* pending_buffers is the number of buffers counted for the context and    *)
(* not finished, unless the unlocked increment of line 175 has overwritten *)
(* a concurrent change, or the handler's decrement of line 87 has          *)
(* overwritten such an increment: these are the only two ways in which it  *)
(* goes wrong.                                                             *)
PendingExact ==
  \A c \in Ctxs : ctx[c].state \in {"open", "closing"} /\ ~lost[c] =>
    ctx[c].pending = Cardinality(Counted(c))

(* release frees no context that a buffer still points to, as long as no   *)
(* increment or decrement of its count was lost (lines 87 and 175).        *)
NoDangling ==
  \A c \in Ctxs : ctx[c].state = "dangling" => lost[c]

(* A read that returns covers every chunk submitted for the file, as long  *)
(* as no increment or decrement of its count was lost (lines 87 and 175).  *)
ReadComplete ==
  [][\A t \in Threads : LET c == thr[t].ctx IN
       ReadReturn(t) /\ ~lost[c] => Len(ctx[c].sum) = wrote[c]]_vars

(* The last close of a file returns, unless an increment or decrement of   *)
(* its count was lost (lines 87 and 175) or resume threw a completion away *)
(* (release waits without a way out).                                      *)
ReleaseReturns ==
  \A c \in Ctxs :
    ctx[c].state = "closing" ~>
      (ctx[c].state # "closing" \/ lost[c] \/ stuck)

(* A suspend that went to sleep finishes, unless resume has thrown a       *)
(* completion away before: the handler wakes idle_wq once the list drains. *)
SuspendCompletes == pm = "asleep" ~> (pm # "asleep" \/ stuck)

(* suspend: "The driver must wait for the hardware to finish before        *)
(* turning it off" (adlerdev.c:381).                                       *)
SuspendWaits == pm = "off" => hw.work = NoBuf /\ ~hw.intr
=============================================================================
