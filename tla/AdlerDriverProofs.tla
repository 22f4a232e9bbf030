------------------------- MODULE AdlerDriverProofs -------------------------
(***************************************************************************)
(* Proofs about AdlerDriver, for any number of files, threads, buffers and *)
(* chunks.                                                                 *)
(***************************************************************************)
EXTENDS AdlerDriver, FiniteSetTheorems, TLAPS

Writing == {"get", "fill", "count", "store", "submit"}
Owning == {"count", "store", "submit"}

(* A thread inside the driver has an open file; a writer between           *)
(* buffers_free and buffers_running has a buffer, and chunks to write.     *)
LocalsOK ==
  \A t \in Threads :
    /\ pc[t] = "idle" => thr[t] = NoLocals
    /\ pc[t] # "idle" => thr[t].ctx \in Ctxs /\ ctx[thr[t].ctx].state = "open"
    /\ Holds(t) => thr[t].buf \in Buffers
    /\ ~Holds(t) => thr[t].buf = NoBuf
    /\ pc[t] \in Writing => thr[t].left > 0

(* The members of buffers_running, and that none is on it twice.           *)
OnList == {running[i] : i \in DOMAIN running}
NoRepeat == \A i, j \in DOMAIN running : running[i] = running[j] => i = j

Pool ==
  /\ \A b \in Buffers :
       b \in free \/ b \in OnList \/ \E t \in Threads : thr[t].buf = b
  /\ \A b \in free : b \notin OnList
  /\ \A t \in Threads : thr[t].buf \notin free /\ thr[t].buf \notin OnList
  /\ \A t, u \in Threads : thr[t].buf \in Buffers /\ thr[u].buf = thr[t].buf
                             => t = u
  /\ NoRepeat

(* Which file a buffer points to, by where it is.                          *)
Owners ==
  /\ \A b \in free : buf[b].ctx = NoCtx
  /\ \A t \in Threads : pc[t] = "fill" => buf[thr[t].buf].ctx = NoCtx
  /\ \A t \in Threads : pc[t] \in Owning => buf[thr[t].buf].ctx = thr[t].ctx
  /\ \A b \in OnList : buf[b].ctx \in Ctxs
  /\ \A b \in Buffers : buf[b].ctx \in Ctxs =>
       ctx[buf[b].ctx].state # "closed"

(* Without the module nobody is inside the driver, nothing runs.           *)
Gone ==
  dev = "gone" => running = <<>> /\ \A t \in Threads : pc[t] = "idle"

(* The handler between its load and its store has an interrupt of its own; *)
(* the interrupt is masked while the system is suspended.                  *)
HandlerOK ==
  /\ isr.on => hw.intr /\ hw.enable
  /\ pm = "off" => ~hw.enable
  /\ dev = "gone" => pm = "on"

(* The SUM register continues the sum of the file whose buffer is first on *)
(* the list, and has that buffer in it once the device is done.            *)
RightSum ==
  LET b == Head(running)
      s == ctx[buf[b].ctx].sum
  IN  /\ hw.work # NoBuf => hw.sum = s
      /\ hw.intr => hw.sum = Append(s, buf[b].chunk)

(* The sums are chained whatever the state of the file.                    *)
Chains == \A c \in Ctxs : Chained(c)

IInv == /\ TypeOK /\ LocalsOK /\ Pool /\ Owners /\ HardwareFollows /\ Gone
        /\ HandlerOK /\ PendingExact /\ NoDangling /\ RightSum /\ Chains

-----------------------------------------------------------------------------
(* buffers_running.                                                        *)

LEMMA ListAppend ==
  ASSUME running \in Seq(Buffers), NEW b \in Buffers,
         running' = Append(running, b)
  PROVE  /\ running' \in Seq(Buffers)
         /\ OnList' = OnList \cup {b}
         /\ running' # <<>>
         /\ Head(running') = IF running = <<>> THEN b ELSE Head(running)
         /\ NoRepeat /\ b \notin OnList => NoRepeat'
<1>1. /\ running' \in Seq(Buffers)
      /\ Len(running') = Len(running) + 1 /\ Len(running) \in Nat
      /\ DOMAIN running = 1 .. Len(running)
      /\ DOMAIN running' = 1 .. Len(running) + 1
      /\ \A i \in 1 .. Len(running) : running'[i] = running[i]
      /\ running'[Len(running) + 1] = b
  OBVIOUS
<1>2. OnList' = OnList \cup {b}
  BY <1>1 DEF OnList
<1>3. running' # <<>> /\ Head(running') = running'[1]
  BY <1>1
<1>4. Head(running') = IF running = <<>> THEN b ELSE Head(running)
  BY <1>1, <1>3
<1>5. ASSUME NoRepeat, b \notin OnList PROVE NoRepeat'
  BY <1>1, <1>5 DEF NoRepeat, OnList
<1> QED BY <1>1, <1>2, <1>3, <1>4, <1>5

LEMMA ListTail ==
  ASSUME running \in Seq(Buffers), running # <<>>, running' = Tail(running),
         NoRepeat
  PROVE  /\ running' \in Seq(Buffers)
         /\ Head(running) \in Buffers /\ Head(running) \in OnList
         /\ OnList' = OnList \ {Head(running)}
         /\ NoRepeat'
<1>1. /\ running' \in Seq(Buffers)
      /\ Len(running) \in Nat \ {0} /\ Len(running') = Len(running) - 1
      /\ DOMAIN running = 1 .. Len(running)
      /\ DOMAIN running' = 1 .. Len(running) - 1
      /\ \A i \in 1 .. Len(running) - 1 : running'[i] = running[i + 1]
      /\ Head(running) = running[1] /\ running[1] \in Buffers
  OBVIOUS
<1>2. Head(running) \in OnList
  BY <1>1 DEF OnList
<1>3. OnList' \subseteq OnList \ {Head(running)}
  <2> SUFFICES ASSUME NEW i \in DOMAIN running'
               PROVE  running'[i] \in OnList /\ running'[i] # Head(running)
    BY DEF OnList
  <2>1. i + 1 \in DOMAIN running /\ running'[i] = running[i + 1] /\ i + 1 # 1
    BY <1>1
  <2>2. running[i + 1] # running[1]
    BY <2>1, <1>1 DEF NoRepeat
  <2> QED BY <1>1, <2>1, <2>2 DEF OnList
<1>4. OnList \ {Head(running)} \subseteq OnList'
  <2> SUFFICES ASSUME NEW i \in DOMAIN running, running[i] # Head(running)
               PROVE  running[i] \in OnList'
    BY DEF OnList
  <2>1. i - 1 \in DOMAIN running' /\ running'[i - 1] = running[i]
    BY <1>1
  <2> QED BY <2>1 DEF OnList
<1>5. NoRepeat'
  <2> SUFFICES ASSUME NEW i \in DOMAIN running', NEW j \in DOMAIN running',
                      running'[i] = running'[j]
               PROVE  i = j
    BY DEF NoRepeat
  <2>1. /\ i + 1 \in DOMAIN running /\ j + 1 \in DOMAIN running
        /\ running[i + 1] = running[j + 1]
    BY <1>1
  <2>2. i + 1 = j + 1
    BY <2>1 DEF NoRepeat
  <2> QED BY <2>2, <1>1
<1> QED BY <1>1, <1>2, <1>3, <1>4, <1>5

(* An empty list has no members, and any other has its head.               *)
LEMMA ListHead ==
  ASSUME running \in Seq(Buffers)
  PROVE  /\ running = <<>> => OnList = {}
         /\ running # <<>> => Head(running) \in OnList
         /\ OnList \subseteq Buffers
<1>1. running = <<>> => OnList = {}
  BY DEF OnList
<1>2. ASSUME running # <<>> PROVE Head(running) \in OnList
  <2>1. 1 \in DOMAIN running /\ Head(running) = running[1]
    BY <1>2
  <2> QED BY <2>1 DEF OnList
<1>3. OnList \subseteq Buffers
  BY DEF OnList
<1> QED BY <1>1, <1>2, <1>3

-----------------------------------------------------------------------------
(* Steps.                                                                  *)

(* The handler never meets an empty list; the buffer it takes off points   *)
(* to a file.                                                              *)
LEMMA IsrEffect ==
  ASSUME TypeOK, Pool, Owners, HardwareFollows, HandlerOK, IsrStore
  PROVE  LET b == Head(running)
             c == buf[b].ctx
         IN  /\ running # <<>> /\ b \in Buffers /\ b \in OnList /\ c \in Ctxs
             /\ b \notin free /\ \A t \in Threads : thr[t].buf # b
             /\ running' \in Seq(Buffers)
             /\ OnList' = OnList \ {b} /\ NoRepeat'
             /\ free' = free \cup {b}
             /\ buf' = [buf EXCEPT ![b].ctx = NoCtx]
             /\ ctx' = [ctx EXCEPT ![c].pending = isr.tmp - 1,
                                   ![c].sum = hw.sum]
             /\ hw' \in Registers /\ hw'.intr = FALSE
             /\ hw'.work = IF running' = <<>> THEN NoBuf ELSE Head(running')
             /\ lost' = [lost EXCEPT ![c] =
                           lost[c] \/ ctx[c].pending # isr.tmp]
             /\ isr' = NoHandler
             /\ UNCHANGED <<dev, pc, thr, asked, wrote, stuck>>
<1> DEFINE b == Head(running)
           c == buf[b].ctx
           done == [ctx EXCEPT ![c].pending = isr.tmp - 1,
                               ![c].sum = hw.sum]
<1>1. /\ running # <<>> /\ running' = Tail(running) /\ hw.work = NoBuf
      /\ running \in Seq(Buffers) /\ NoRepeat
  BY DEF TypeOK, Pool, HardwareFollows, HandlerOK, IsrStore
<1>2. /\ b \in Buffers /\ b \in OnList
      /\ running' \in Seq(Buffers) /\ OnList' = OnList \ {b} /\ NoRepeat'
  BY <1>1, ListTail
<1>3. c \in Ctxs /\ b \notin free /\ \A t \in Threads : thr[t].buf # b
  BY <1>2 DEF Owners, Pool
<1>4. /\ free' = free \cup {b}
      /\ buf' = [buf EXCEPT ![b].ctx = NoCtx]
      /\ ctx' = done
      /\ hw' = RunNext([hw EXCEPT !.intr = FALSE], running', done)
      /\ lost' = [lost EXCEPT ![c] = lost[c] \/ ctx[c].pending # isr.tmp]
      /\ isr' = NoHandler
      /\ UNCHANGED <<dev, pc, thr, asked, wrote, stuck>>
  BY <1>1 DEF IsrStore, history
<1>5. done \in [Ctxs -> Context]
  <2>1. isr.tmp - 1 \in Int /\ hw.sum \in Seq(Nat)
    BY <1>3 DEF TypeOK, Context, Registers, Handler
  <2> QED BY <1>3, <2>1 DEF TypeOK, Context
<1>6. CASE running' = <<>>
  BY <1>1, <1>2, <1>3, <1>4, <1>6 DEF RunNext, TypeOK, Registers
<1>7. CASE running' # <<>>
  <2> DEFINE x == Head(running')
  <2>1. hw' = [hw EXCEPT !.intr = FALSE, !.work = x,
                         !.sum = done[buf[x].ctx].sum]
    BY <1>4, <1>7 DEF RunNext, Start, TypeOK, Registers
  <2>2. x \in Buffers /\ x \in OnList
    <3>1. 1 \in DOMAIN running' /\ x = running'[1] /\ x \in Buffers
      BY <1>2, <1>7
    <3>2. x \in OnList'
      BY <3>1 DEF OnList
    <3> QED BY <1>2, <3>1, <3>2
  <2>3. done[buf[x].ctx].sum \in Seq(Nat)
    BY <2>2, <1>5 DEF Owners, Context
  <2> HIDE DEF x, done
  <2>4. /\ hw' \in Registers /\ hw'.intr = FALSE /\ hw'.work = x
    BY <2>1, <2>2, <2>3 DEF TypeOK, Registers
  <2> QED BY <1>1, <1>2, <1>3, <1>4, <1>7, <2>4 DEF x, done
<1> QED BY <1>6, <1>7

(* A writer adds its buffer to the list; an idle device starts on it.      *)
LEMMA SubmitEffect ==
  ASSUME TypeOK, LocalsOK, Pool, NEW t \in Threads, Submit(t)
  PROVE  LET b == thr[t].buf
             c == thr[t].ctx
         IN  /\ pc[t] = "submit" /\ b \in Buffers /\ c \in Ctxs
             /\ b \notin OnList /\ b \notin free
             /\ running' \in Seq(Buffers) /\ running' # <<>>
             /\ Head(running') = IF running = <<>> THEN b ELSE Head(running)
             /\ OnList' = OnList \cup {b} /\ NoRepeat'
             /\ hw' \in Registers /\ hw'.intr = hw.intr
             /\ hw'.work = IF running = <<>> THEN b ELSE hw.work
             /\ buf' = [buf EXCEPT ![b].chunk = wrote[c] + 1]
             /\ wrote' = [wrote EXCEPT ![c] = wrote[c] + 1]
             /\ pc' \in [Threads -> Labels] /\ thr' \in [Threads -> Locals]
             /\ \/ pc'[t] = "idle" /\ thr'[t] = NoLocals
                \/ /\ pc'[t] = "get" /\ thr'[t].ctx = c
                   /\ thr'[t].buf = NoBuf /\ thr'[t].left > 0
             /\ \A u \in Threads \ {t} : pc'[u] = pc[u] /\ thr'[u] = thr[u]
             /\ UNCHANGED <<dev, ctx, free, isr, pm, asked, lost, stuck>>
<1> DEFINE b == thr[t].buf
           c == thr[t].ctx
<1>1. /\ pc[t] = "submit" /\ b \in Buffers /\ c \in Ctxs
      /\ b \notin OnList /\ b \notin free /\ thr[t].left > 0
      /\ running \in Seq(Buffers) /\ running' = Append(running, b) /\ NoRepeat
  BY DEF Submit, LocalsOK, Holds, Pool, Writing, TypeOK
<1>2. /\ running' \in Seq(Buffers) /\ running' # <<>>
      /\ Head(running') = IF running = <<>> THEN b ELSE Head(running)
      /\ OnList' = OnList \cup {b} /\ NoRepeat'
  BY <1>1, ListAppend
<1>3. /\ hw' \in Registers /\ hw'.intr = hw.intr
      /\ hw'.work = IF running = <<>> THEN b ELSE hw.work
  <2>1. CASE running = <<>>
    <3>1. hw' = [hw EXCEPT !.work = b, !.sum = ctx[c].sum]
      BY <2>1 DEF Submit, Start
    <3>2. ctx[c].sum \in Seq(Nat)
      BY <1>1 DEF TypeOK, Context
    <3> QED BY <1>1, <2>1, <3>1, <3>2 DEF TypeOK, Registers
  <2>2. CASE running # <<>>
    BY <2>2 DEF Submit, TypeOK, Registers
  <2> QED BY <2>1, <2>2
<1>4. /\ buf' = [buf EXCEPT ![b].chunk = wrote[c] + 1]
      /\ wrote' = [wrote EXCEPT ![c] = wrote[c] + 1]
      /\ UNCHANGED <<dev, ctx, free, isr, pm, asked, lost, stuck>>
  BY DEF Submit
<1>5. /\ pc' \in [Threads -> Labels] /\ thr' \in [Threads -> Locals]
      /\ \/ pc'[t] = "idle" /\ thr'[t] = NoLocals
         \/ /\ pc'[t] = "get" /\ thr'[t].ctx = c
            /\ thr'[t].buf = NoBuf /\ thr'[t].left > 0
      /\ \A u \in Threads \ {t} : pc'[u] = pc[u] /\ thr'[u] = thr[u]
  <2>1. CASE thr[t].left = 1
    <3>1. /\ pc' = [pc EXCEPT ![t] = "idle"]
          /\ thr' = [thr EXCEPT ![t] = NoLocals]
      BY <2>1 DEF Submit, Return
    <3>2. NoLocals \in Locals
      BY DEF NoLocals, NewLocals, Locals
    <3> QED BY <3>1, <3>2 DEF TypeOK, Labels
  <2>2. CASE thr[t].left # 1
    <3> DEFINE x == NewLocals(c, thr[t].left - 1)
    <3>1. thr' = [thr EXCEPT ![t] = x]
      BY <2>2 DEF Submit
    <3>2. pc' = [pc EXCEPT ![t] = "get"]
      BY <2>2 DEF Submit
    <3>3. thr[t].left - 1 \in Nat /\ thr[t].left - 1 > 0
      BY <1>1, <2>2 DEF TypeOK, Locals
    <3>4. x \in Locals
      BY <1>1, <3>3 DEF Locals, NewLocals
    <3>5. /\ thr'[t].ctx = c /\ thr'[t].buf = NoBuf /\ thr'[t].left > 0
      BY <3>3, <3>1 DEF TypeOK, NewLocals
    <3>6. thr' \in [Threads -> Locals]
      BY <3>4, <3>1 DEF TypeOK
    <3> QED BY <3>1, <3>2, <3>5, <3>6 DEF TypeOK, Labels
  <2> QED BY <2>1, <2>2
<1> QED BY <1>1, <1>2, <1>3, <1>4, <1>5

(* The pool does not depend on anything else.                              *)
LEMMA PoolKept ==
  ASSUME Pool, running' = running, free' = free,
         \A t \in Threads : thr'[t].buf = thr[t].buf
  PROVE  Pool'
<1>1. OnList' = OnList /\ NoRepeat'
  BY DEF OnList, NoRepeat, Pool
<1> QED BY <1>1 DEF Pool

LEMMA IsrStates ==
  ASSUME TypeOK, Pool, Owners, HardwareFollows, HandlerOK, IsrStore
  PROVE  \A c \in Ctxs : ctx'[c].state = ctx[c].state
<1> DEFINE h == buf[Head(running)].ctx
<1>1. /\ h \in Ctxs
      /\ ctx' = [ctx EXCEPT ![h].pending = isr.tmp - 1,
                            ![h].sum = hw.sum]
  BY IsrEffect
<1> HIDE DEF h
<1> QED BY <1>1 DEF TypeOK, Context

(* Types.                                                                  *)
LEMMA TypeStep ==
  ASSUME TypeOK, LocalsOK, Pool, Owners, HardwareFollows, HandlerOK,
         [Next]_vars
  PROVE  TypeOK'
<1> USE AdlerAssumption DEF TypeOK
<1>1. ASSUME NEW c \in Ctxs, Open(c) PROVE TypeOK'
  <2>1. ctx' \in [Ctxs -> Context]
    BY <1>1 DEF Open, Context, NewContext
  <2>2. asked' \in [Ctxs -> Nat]
    BY <1>1 DEF Open
  <2>3. wrote' \in [Ctxs -> Nat]
    BY <1>1 DEF Open
  <2>4. lost' \in [Ctxs -> BOOLEAN]
    BY <1>1 DEF Open
  <2> QED
    BY <1>1, <2>1, <2>2, <2>3, <2>4 DEF Open, history
<1>2. ASSUME NEW c \in Ctxs, Release(c) PROVE TypeOK'
  <2>1. ctx' \in [Ctxs -> Context]
    BY <1>2 DEF Release, Context
  <2> QED
    BY <1>2, <2>1 DEF Release, history
<1>3. ASSUME NEW c \in Ctxs, ReleaseReturn(c) PROVE TypeOK'
  <2>1. ctx' \in [Ctxs -> Context]
    BY <1>3 DEF ReleaseReturn, Freed, Context
  <2> QED
    BY <1>3, <2>1 DEF ReleaseReturn, Freed, history
<1>4. ASSUME NEW t \in Threads, NEW c \in Ctxs,
             NEW n \in 1 .. MaxChunks, Write(t, c, n) PROVE TypeOK'
  <2>1. thr' \in [Threads -> Locals]
    BY <1>4 DEF Write, Locals, NewLocals, NoLocals
  <2>2. pc' \in [Threads -> Labels]
    BY <1>4 DEF Write, Labels
  <2>3. asked' \in [Ctxs -> Nat]
    BY <1>4 DEF Write
  <2> QED
    BY <1>4, <2>1, <2>2, <2>3 DEF Write, history
<1>5. ASSUME NEW t \in Threads, GetBuffer(t) PROVE TypeOK'
  <2> PICK b \in free : thr' = [thr EXCEPT ![t].buf = b]
    BY <1>5 DEF GetBuffer
  <2>1. thr' \in [Threads -> Locals]
    <3>1. [thr[t] EXCEPT !.buf = b] \in Locals
      BY DEF Locals
    <3> QED BY <3>1
  <2>2. free' \subseteq Buffers
    BY <1>5 DEF GetBuffer
  <2>3. pc' \in [Threads -> Labels]
    BY <1>5 DEF GetBuffer, Labels
  <2> QED
    BY <1>5, <2>1, <2>2, <2>3 DEF GetBuffer, history
<1>6. ASSUME NEW t \in Threads, GetInterrupted(t) PROVE TypeOK'
  <2>1. thr' \in [Threads -> Locals]
    BY <1>6 DEF GetInterrupted, Return, Locals, NewLocals, NoLocals
  <2>2. pc' \in [Threads -> Labels]
    BY <1>6 DEF GetInterrupted, Return, Labels
  <2> QED
    BY <1>6, <2>1, <2>2 DEF GetInterrupted, Return, history
<1>7. ASSUME NEW t \in Threads, FillFails(t) PROVE TypeOK'
  <2>1. free' \subseteq Buffers
    BY <1>7 DEF FillFails, Return, LocalsOK, Holds
  <2>2. thr' \in [Threads -> Locals]
    BY <1>7 DEF FillFails, Return, Locals, NewLocals, NoLocals
  <2>3. pc' \in [Threads -> Labels]
    BY <1>7 DEF FillFails, Return, Labels
  <2> QED
    BY <1>7, <2>1, <2>2, <2>3 DEF FillFails, Return, history
<1>8. ASSUME NEW t \in Threads, Fill(t) PROVE TypeOK'
  <2>1. buf' \in [Buffers -> Buffer]
    BY <1>8 DEF Fill, Buffer, LocalsOK, Holds
  <2>2. pc' \in [Threads -> Labels]
    BY <1>8 DEF Fill, Labels
  <2> QED
    BY <1>8, <2>1, <2>2 DEF Fill, history
<1>9. ASSUME NEW t \in Threads, CountLoad(t) PROVE TypeOK'
  <2> DEFINE n == ctx[thr[t].ctx].pending
  <2>1. thr' \in [Threads -> Locals]
    <3>1. n \in Int
      BY <1>9 DEF CountLoad, LocalsOK, Context
    <3>2. [thr[t] EXCEPT !.tmp = n] \in Locals
      BY <3>1 DEF Locals
    <3> QED BY <1>9, <3>2 DEF CountLoad
  <2>2. pc' \in [Threads -> Labels]
    BY <1>9 DEF CountLoad, Labels
  <2> QED
    BY <1>9, <2>1, <2>2 DEF CountLoad, history
<1>10. ASSUME NEW t \in Threads, CountStore(t) PROVE TypeOK'
  <2> DEFINE c == thr[t].ctx
  <2>1. ctx' \in [Ctxs -> Context]
    <3>1. c \in Ctxs /\ thr[t].tmp + 1 \in Int
      BY <1>10 DEF CountStore, LocalsOK, Locals
    <3>2. [ctx[c] EXCEPT !.pending = thr[t].tmp + 1] \in Context
      BY <3>1 DEF Context
    <3> QED BY <1>10, <3>1, <3>2 DEF CountStore
  <2>2. lost' \in [Ctxs -> BOOLEAN]
    BY <1>10 DEF CountStore
  <2>3. pc' \in [Threads -> Labels]
    BY <1>10 DEF CountStore, Labels
  <2> QED
    BY <1>10, <2>1, <2>2, <2>3 DEF CountStore
<1>11. ASSUME NEW t \in Threads, Submit(t) PROVE TypeOK'
  <2> DEFINE b == thr[t].buf
             c == thr[t].ctx
  <2>1. /\ running' \in Seq(Buffers) /\ b \in Buffers /\ c \in Ctxs
        /\ hw' \in Registers
        /\ buf' = [buf EXCEPT ![b].chunk = wrote[c] + 1]
        /\ wrote' = [wrote EXCEPT ![c] = wrote[c] + 1]
        /\ pc' \in [Threads -> Labels] /\ thr' \in [Threads -> Locals]
        /\ UNCHANGED <<dev, ctx, free, isr, pm, asked, lost, stuck>>
    BY <1>11, SubmitEffect
  <2>2. wrote[c] + 1 \in Nat
    BY <2>1
  <2>3. [buf[b] EXCEPT !.chunk = wrote[c] + 1] \in Buffer
    BY <2>1, <2>2 DEF Buffer
  <2>4. buf' \in [Buffers -> Buffer] /\ wrote' \in [Ctxs -> Nat]
    BY <2>1, <2>2, <2>3
  <2> QED BY <2>1, <2>4
<1>12. ASSUME NEW t \in Threads, NEW c \in Ctxs, Read(t, c) PROVE TypeOK'
  <2>1. thr' \in [Threads -> Locals]
    BY <1>12 DEF Read, Locals, NewLocals, NoLocals
  <2>2. pc' \in [Threads -> Labels]
    BY <1>12 DEF Read, Labels
  <2> QED
    BY <1>12, <2>1, <2>2 DEF Read, history
<1>13. ASSUME NEW t \in Threads, ReadReturn(t) PROVE TypeOK'
  <2>1. thr' \in [Threads -> Locals]
    BY <1>13 DEF ReadReturn, Return, Locals, NewLocals, NoLocals
  <2>2. pc' \in [Threads -> Labels]
    BY <1>13 DEF ReadReturn, Return, Labels
  <2> QED
    BY <1>13, <2>1, <2>2 DEF ReadReturn, Return, history
<1>14. ASSUME NEW t \in Threads, ReadInterrupted(t) PROVE TypeOK'
  <2>1. thr' \in [Threads -> Locals]
    BY <1>14 DEF ReadInterrupted, Return, Locals, NewLocals, NoLocals
  <2>2. pc' \in [Threads -> Labels]
    BY <1>14 DEF ReadInterrupted, Return, Labels
  <2> QED
    BY <1>14, <2>1, <2>2 DEF ReadInterrupted, Return, history
<1>15. CASE DeviceDone
  <2>1. hw' \in Registers
    <3>1. buf[hw.work].chunk \in Nat /\ hw.sum \in Seq(Nat)
      BY <1>15 DEF DeviceDone, Registers, Buffer
    <3>2. Append(hw.sum, buf[hw.work].chunk) \in Seq(Nat)
      BY <3>1
    <3> QED BY <1>15, <3>2 DEF DeviceDone, Registers
  <2> QED
    BY <1>15, <2>1 DEF DeviceDone, history
<1>16. CASE IsrStore
  <2> DEFINE b == Head(running)
             c == buf[b].ctx
  <2>1. /\ running' \in Seq(Buffers) /\ free' = free \cup {b}
        /\ b \in Buffers /\ c \in Ctxs /\ hw' \in Registers
        /\ buf' = [buf EXCEPT ![b].ctx = NoCtx]
        /\ ctx' = [ctx EXCEPT ![c].pending = isr.tmp - 1,
                              ![c].sum = hw.sum]
        /\ lost' = [lost EXCEPT ![c] = lost[c] \/ ctx[c].pending # isr.tmp]
        /\ isr' = NoHandler
        /\ UNCHANGED <<dev, pc, thr, asked, wrote, stuck>>
    BY <1>16, IsrEffect
  <2>2. isr.tmp - 1 \in Int /\ hw.sum \in Seq(Nat)
    BY <2>1 DEF Context, Registers, Handler
  <2>3. ctx' \in [Ctxs -> Context]
    BY <2>1, <2>2 DEF Context
  <2>4. buf' \in [Buffers -> Buffer]
    BY <2>1 DEF Buffer
  <2>5. pm' \in {"on", "asleep", "woken", "off"}
    BY <1>16 DEF IsrStore
  <2>6. lost' \in [Ctxs -> BOOLEAN] /\ isr' \in Handler
    BY <2>1 DEF NoHandler, Handler
  <2> QED BY <2>1, <2>3, <2>4, <2>5, <2>6
<1>17. CASE Suspend
  <2>1. hw' \in Registers
    BY <1>17 DEF Suspend, SuspendOrSleep, Registers
  <2>2. pm' \in {"on", "asleep", "woken", "off"}
    BY <1>17 DEF Suspend, SuspendOrSleep
  <2> QED
    BY <1>17, <2>1, <2>2 DEF Suspend, SuspendOrSleep, history
<1>18. CASE SuspendWakes
  <2>1. hw' \in Registers
    BY <1>18 DEF SuspendWakes, SuspendOrSleep, Registers
  <2>2. pm' \in {"on", "asleep", "woken", "off"}
    BY <1>18 DEF SuspendWakes, SuspendOrSleep
  <2> QED
    BY <1>18, <2>1, <2>2 DEF SuspendWakes, SuspendOrSleep, history
<1>19. CASE Resume
  <2>1. hw' \in Registers
    BY <1>19 DEF Resume, Registers
  <2> QED
    BY <1>19, <2>1 DEF Resume, history
<1>20. CASE Remove
  <2>1. hw' \in Registers
    BY <1>20 DEF Remove, Frozen, Registers
  <2> QED
    BY <1>20, <2>1 DEF Remove, Frozen, history
<1>21. CASE Probe
  <2>1. hw' \in Registers
    BY <1>21 DEF Probe, Registers
  <2>2. buf' \in [Buffers -> Buffer]
    BY <1>21 DEF Probe, Buffer
  <2>3. running' \in Seq(Buffers) /\ free' \subseteq Buffers
    BY <1>21 DEF Probe
  <2>4. stuck' \in BOOLEAN /\ dev' \in {"live", "gone"}
    BY <1>21 DEF Probe
  <2> QED
    BY <1>21, <2>1, <2>2, <2>3, <2>4 DEF Probe
<1>22. CASE UNCHANGED vars
  BY <1>22 DEF vars, history
<1>23. CASE IsrLoad
  <2>1. isr' \in Handler
    <3>1. running \in Seq(Buffers) /\ running # <<>>
      BY <1>23 DEF IsrLoad, HardwareFollows
    <3>2. Head(running) \in OnList
      BY <3>1, ListHead
    <3>3. buf[Head(running)].ctx \in Ctxs
      BY <3>2 DEF Owners
    <3>4. ctx[buf[Head(running)].ctx].pending \in Int
      BY <3>3 DEF Context
    <3> QED BY <1>23, <3>4 DEF IsrLoad, Handler
  <2> QED BY <1>23, <2>1 DEF IsrLoad, history
<1> QED
  BY <1>1, <1>2, <1>3, <1>4, <1>5, <1>6, <1>7, <1>8, <1>9, <1>10,
     <1>11, <1>12, <1>13, <1>14, <1>15, <1>16, <1>17, <1>18, <1>19, <1>20,
     <1>21, <1>22, <1>23
  DEF Next, Thread

(* Locals of the threads.                                                  *)
LEMMA LocalsStep ==
  ASSUME TypeOK, LocalsOK, Pool, Owners, HardwareFollows, Gone, HandlerOK,
         [Next]_vars
  PROVE  LocalsOK'
<1>1. ASSUME NEW t \in Threads, Submit(t) PROVE LocalsOK'
  <2> DEFINE c == thr[t].ctx
  <2>1. /\ \/ pc'[t] = "idle" /\ thr'[t] = NoLocals
           \/ /\ pc'[t] = "get" /\ thr'[t].ctx = c
              /\ thr'[t].buf = NoBuf /\ thr'[t].left > 0
        /\ \A u \in Threads \ {t} : pc'[u] = pc[u] /\ thr'[u] = thr[u]
        /\ c \in Ctxs /\ pc[t] = "submit" /\ ctx' = ctx
    BY <1>1, SubmitEffect
  <2> QED BY <2>1 DEF LocalsOK, Holds, Writing, NoLocals, NewLocals
<1>2. CASE IsrStore
  <2>1. UNCHANGED <<pc, thr>>
    BY <1>2, IsrEffect
  <2>2. \A c \in Ctxs : ctx'[c].state = ctx[c].state
    BY <1>2, IsrStates
  <2> QED BY <2>1, <2>2 DEF LocalsOK, Holds
<1> USE AdlerAssumption DEF TypeOK, LocalsOK, Holds, Writing, InUse, UserRuns,
      Context, Buffer, Registers,
      Locals, Labels, NoLocals, NewLocals, NoContext, NewContext, history
<1>3. ASSUME NEW c \in Ctxs, Open(c) PROVE LocalsOK'
  BY <1>3 DEF Open
<1>4. ASSUME NEW c \in Ctxs, Release(c) PROVE LocalsOK'
  BY <1>4 DEF Release
<1>5. ASSUME NEW c \in Ctxs, ReleaseReturn(c) PROVE LocalsOK'
  BY <1>5 DEF ReleaseReturn, Freed
<1>6. ASSUME NEW t \in Threads, NEW c \in Ctxs,
             NEW n \in 1 .. MaxChunks, Write(t, c, n) PROVE LocalsOK'
  BY <1>6 DEF Write
<1>7. ASSUME NEW t \in Threads, GetBuffer(t) PROVE LocalsOK'
  BY <1>7 DEF GetBuffer
<1>8. ASSUME NEW t \in Threads, GetInterrupted(t) PROVE LocalsOK'
  BY <1>8 DEF GetInterrupted, Return
<1>9. ASSUME NEW t \in Threads, FillFails(t) PROVE LocalsOK'
  BY <1>9 DEF FillFails, Return
<1>10. ASSUME NEW t \in Threads, Fill(t) PROVE LocalsOK'
  BY <1>10 DEF Fill
<1>11. ASSUME NEW t \in Threads, CountLoad(t) PROVE LocalsOK'
  BY <1>11 DEF CountLoad
<1>12. ASSUME NEW t \in Threads, CountStore(t) PROVE LocalsOK'
  BY <1>12 DEF CountStore
<1>13. ASSUME NEW t \in Threads, NEW c \in Ctxs, Read(t, c) PROVE LocalsOK'
  BY <1>13 DEF Read
<1>14. ASSUME NEW t \in Threads, ReadReturn(t) PROVE LocalsOK'
  BY <1>14 DEF ReadReturn, Return
<1>15. ASSUME NEW t \in Threads, ReadInterrupted(t) PROVE LocalsOK'
  BY <1>15 DEF ReadInterrupted, Return
<1>16. CASE DeviceDone
  BY <1>16 DEF DeviceDone
<1>17. CASE Suspend
  BY <1>17 DEF Suspend, SuspendOrSleep
<1>18. CASE SuspendWakes
  BY <1>18 DEF SuspendWakes, SuspendOrSleep
<1>19. CASE Resume
  BY <1>19 DEF Resume
<1>20. CASE Remove
  BY <1>20 DEF Remove, Frozen
<1>21. CASE Probe
  BY <1>21 DEF Probe
<1>22. CASE UNCHANGED vars
  BY <1>22 DEF vars, history
<1>23. CASE IsrLoad
  BY <1>23 DEF IsrLoad
<1> QED
  BY <1>1, <1>2, <1>3, <1>4, <1>5, <1>6, <1>7, <1>8, <1>9, <1>10,
     <1>11, <1>12, <1>13, <1>14, <1>15, <1>16, <1>17, <1>18, <1>19, <1>20,
     <1>21, <1>22, <1>23
  DEF Next, Thread

(* The pool.                                                               *)
LEMMA PoolStep ==
  ASSUME TypeOK, LocalsOK, Pool, Owners, HardwareFollows, Gone, HandlerOK,
         [Next]_vars
  PROVE  Pool'
<1>1. ASSUME NEW c \in Ctxs, Open(c) PROVE Pool'
  BY <1>1, PoolKept DEF Open
<1>2. ASSUME NEW c \in Ctxs, Release(c) PROVE Pool'
  BY <1>2, PoolKept DEF Release
<1>3. ASSUME NEW c \in Ctxs, ReleaseReturn(c) PROVE Pool'
  BY <1>3, PoolKept DEF ReleaseReturn
<1>4. ASSUME NEW t \in Threads, NEW c \in Ctxs,
             NEW n \in 1 .. MaxChunks, Write(t, c, n) PROVE Pool'
  <2>1. \A u \in Threads : thr'[u].buf = thr[u].buf
    BY <1>4 DEF Write, TypeOK, Locals, LocalsOK, Holds,
       NoLocals, NewLocals
  <2> QED BY <1>4, <2>1, PoolKept DEF Write
<1>5. ASSUME NEW t \in Threads, GetBuffer(t) PROVE Pool'
  <2> PICK b \in free : thr' = [thr EXCEPT ![t].buf = b] /\ free' = free \ {b}
    BY <1>5 DEF GetBuffer
  <2>1. /\ thr'[t].buf = b /\ thr[t].buf = NoBuf /\ b \in Buffers
        /\ \A u \in Threads \ {t} : thr'[u].buf = thr[u].buf
    BY <1>5 DEF GetBuffer, TypeOK, Locals, LocalsOK, Holds
  <2>2. OnList' = OnList /\ NoRepeat'
    BY <1>5 DEF GetBuffer, OnList, NoRepeat, Pool
  <2> QED BY <2>1, <2>2, AdlerAssumption DEF Pool
<1>6. ASSUME NEW t \in Threads, GetInterrupted(t) PROVE Pool'
  <2>1. \A u \in Threads : thr'[u].buf = thr[u].buf
    BY <1>6 DEF GetInterrupted, Return, TypeOK, Locals, LocalsOK, Holds,
       NoLocals, NewLocals
  <2> QED BY <1>6, <2>1, PoolKept DEF GetInterrupted
<1>7. ASSUME NEW t \in Threads, FillFails(t) PROVE Pool'
  <2>1. /\ thr'[t].buf = NoBuf /\ thr[t].buf \in Buffers
        /\ \A u \in Threads \ {t} : thr'[u].buf = thr[u].buf
        /\ free' = free \cup {thr[t].buf}
    BY <1>7 DEF FillFails, Return, TypeOK, Locals, LocalsOK, Holds,
       NoLocals, NewLocals
  <2>2. OnList' = OnList /\ NoRepeat' /\ OnList \subseteq Buffers
    BY <1>7, ListHead DEF FillFails, OnList, NoRepeat, Pool, TypeOK
  <2>3. free' \subseteq Buffers
    BY <2>1 DEF TypeOK
  <2> QED BY <2>1, <2>2, <2>3, AdlerAssumption DEF Pool
<1>8. ASSUME NEW t \in Threads, Fill(t) PROVE Pool'
  <2>1. \A u \in Threads : thr'[u].buf = thr[u].buf
    BY <1>8 DEF Fill, TypeOK, Locals, LocalsOK, Holds,
       NoLocals, NewLocals
  <2> QED BY <1>8, <2>1, PoolKept DEF Fill
<1>9. ASSUME NEW t \in Threads, CountLoad(t) PROVE Pool'
  <2>1. \A u \in Threads : thr'[u].buf = thr[u].buf
    BY <1>9 DEF CountLoad, TypeOK, Locals, LocalsOK, Holds,
       NoLocals, NewLocals
  <2> QED BY <1>9, <2>1, PoolKept DEF CountLoad
<1>10. ASSUME NEW t \in Threads, CountStore(t) PROVE Pool'
  <2>1. \A u \in Threads : thr'[u].buf = thr[u].buf
    BY <1>10 DEF CountStore, TypeOK, Locals, LocalsOK, Holds,
       NoLocals, NewLocals
  <2> QED BY <1>10, <2>1, PoolKept DEF CountStore
<1>11. ASSUME NEW t \in Threads, Submit(t) PROVE Pool'
  <2> DEFINE b == thr[t].buf
  <2>1. /\ b \in Buffers /\ b \notin OnList /\ b \notin free
        /\ OnList' = OnList \cup {b} /\ NoRepeat' /\ free' = free
        /\ \A u \in Threads \ {t} : thr'[u].buf = thr[u].buf
    BY <1>11, SubmitEffect
  <2>2. thr'[t].buf = NoBuf
    <3>1. thr'[t] = NoLocals \/ thr'[t].buf = NoBuf
      BY <1>11, SubmitEffect
    <3> QED BY <3>1 DEF NoLocals, NewLocals
  <2>3. NoBuf \notin free /\ NoBuf \notin OnList'
    BY <2>1, AdlerAssumption, ListHead DEF TypeOK
  <2> QED BY <2>1, <2>2, <2>3, AdlerAssumption DEF Pool
<1>12. ASSUME NEW t \in Threads, NEW c \in Ctxs, Read(t, c) PROVE Pool'
  <2>1. \A u \in Threads : thr'[u].buf = thr[u].buf
    BY <1>12 DEF Read, TypeOK, Locals, LocalsOK, Holds,
       NoLocals, NewLocals
  <2> QED BY <1>12, <2>1, PoolKept DEF Read
<1>13. ASSUME NEW t \in Threads, ReadReturn(t) PROVE Pool'
  <2>1. \A u \in Threads : thr'[u].buf = thr[u].buf
    BY <1>13 DEF ReadReturn, Return, TypeOK, Locals, LocalsOK, Holds,
       NoLocals, NewLocals
  <2> QED BY <1>13, <2>1, PoolKept DEF ReadReturn
<1>14. ASSUME NEW t \in Threads, ReadInterrupted(t) PROVE Pool'
  <2>1. \A u \in Threads : thr'[u].buf = thr[u].buf
    BY <1>14 DEF ReadInterrupted, Return, TypeOK, Locals, LocalsOK, Holds,
       NoLocals, NewLocals
  <2> QED BY <1>14, <2>1, PoolKept DEF ReadInterrupted
<1>15. CASE DeviceDone
  BY <1>15, PoolKept DEF DeviceDone
<1>16. CASE IsrStore
  <2> DEFINE b == Head(running)
  <2>1. /\ b \in OnList /\ b \notin free /\ \A t \in Threads : thr[t].buf # b
        /\ OnList' = OnList \ {b} /\ NoRepeat' /\ free' = free \cup {b}
        /\ thr' = thr
    BY <1>16, IsrEffect
  <2> QED BY <2>1 DEF Pool
<1>17. CASE Suspend
  BY <1>17, PoolKept DEF Suspend
<1>18. CASE SuspendWakes
  BY <1>18, PoolKept DEF SuspendWakes
<1>19. CASE Resume
  BY <1>19, PoolKept DEF Resume
<1>20. CASE Remove
  BY <1>20, PoolKept DEF Remove
<1>21. CASE Probe
  <2>1. \A t \in Threads : pc[t] = "idle" /\ thr[t].buf = NoBuf
    BY <1>21 DEF Probe, Gone, LocalsOK, NoLocals, NewLocals
  <2>2. OnList' = {} /\ NoRepeat'
    BY <1>21 DEF Probe, OnList, NoRepeat
  <2> QED BY <1>21, <2>1, <2>2, AdlerAssumption DEF Probe, Pool
<1>22. CASE UNCHANGED vars
  BY <1>22, PoolKept DEF vars
<1>23. CASE IsrLoad
  BY <1>23, PoolKept DEF IsrLoad
<1> QED
  BY <1>1, <1>2, <1>3, <1>4, <1>5, <1>6, <1>7, <1>8, <1>9, <1>10,
     <1>11, <1>12, <1>13, <1>14, <1>15, <1>16, <1>17, <1>18, <1>19, <1>20,
     <1>21, <1>22, <1>23
  DEF Next, Thread

(* Whom the buffers belong to.                                             *)
LEMMA OwnersStep ==
  ASSUME TypeOK, LocalsOK, Pool, Owners, HardwareFollows, Gone, HandlerOK,
         [Next]_vars
  PROVE  Owners'
<1>1. ASSUME NEW t \in Threads, NEW c \in Ctxs,
             NEW n \in 1 .. MaxChunks, Write(t, c, n) PROVE Owners'
  <2>1. /\ pc[t] = "idle" /\ pc'[t] \notin Owning \cup {"fill"}
        /\ \A u \in Threads \ {t} : pc'[u] = pc[u] /\ thr'[u] = thr[u]
        /\ UNCHANGED <<buf, ctx, free, running>>
    BY <1>1 DEF Write, TypeOK, Owning
  <2>2. OnList' = OnList
    BY <2>1 DEF OnList
  <2> QED BY <2>1, <2>2 DEF Owners
<1>2. ASSUME NEW t \in Threads, Fill(t) PROVE Owners'
  <2> DEFINE b == thr[t].buf
             c == thr[t].ctx
  <2>1. /\ b \in Buffers /\ c \in Ctxs /\ ctx[c].state = "open"
        /\ pc[t] = "fill" /\ pc'[t] = "count"
        /\ \A u \in Threads \ {t} : pc'[u] = pc[u]
        /\ UNCHANGED <<thr, ctx, free, running>>
    BY <1>2 DEF Fill, LocalsOK, Holds, TypeOK
  <2>2. /\ buf'[b].ctx = c
        /\ \A x \in Buffers \ {b} : buf'[x].ctx = buf[x].ctx
    BY <1>2, <2>1 DEF Fill, TypeOK, Buffer
  <2>3. /\ b \notin free /\ b \notin OnList /\ OnList' = OnList
        /\ \A u \in Threads \ {t} : thr[u].buf # b
    BY <2>1 DEF Pool, OnList
  <2>4. /\ free \subseteq Buffers /\ OnList \subseteq Buffers
        /\ \A u \in Threads : pc[u] \in Owning \cup {"fill"} =>
             thr[u].buf \in Buffers
    BY ListHead DEF TypeOK, LocalsOK, Holds, Owning
  <2> HIDE DEF b, c
  <2>5. \A x \in free : buf'[x].ctx = NoCtx
    BY <2>2, <2>3, <2>4 DEF Owners
  <2>6. \A u \in Threads : pc'[u] = "fill" => buf'[thr[u].buf].ctx = NoCtx
    BY <2>1, <2>2, <2>3, <2>4 DEF Owners
  <2>7. \A u \in Threads : pc'[u] \in Owning =>
          buf'[thr[u].buf].ctx = thr[u].ctx
    BY <2>1, <2>2, <2>3, <2>4 DEF Owners, b, c
  <2>8. \A x \in OnList : buf'[x].ctx \in Ctxs
    BY <2>1, <2>2, <2>3, <2>4 DEF Owners
  <2>9. \A x \in Buffers : buf'[x].ctx \in Ctxs =>
          ctx[buf'[x].ctx].state # "closed"
    BY <2>1, <2>2 DEF Owners
  <2> QED BY <2>1, <2>3, <2>5, <2>6, <2>7, <2>8, <2>9 DEF Owners
<1>3. ASSUME NEW t \in Threads, Submit(t) PROVE Owners'
  <2> DEFINE b == thr[t].buf
             c == thr[t].ctx
  <2>1. /\ b \in Buffers /\ c \in Ctxs /\ pc[t] = "submit"
        /\ OnList' = OnList \cup {b} /\ free' = free /\ ctx' = ctx
        /\ buf' = [buf EXCEPT ![b].chunk = wrote[c] + 1]
        /\ pc'[t] \in {"idle", "get"}
        /\ \A u \in Threads \ {t} : pc'[u] = pc[u] /\ thr'[u] = thr[u]
    BY <1>3, SubmitEffect
  <2>2. \A x \in Buffers : buf'[x].ctx = buf[x].ctx
    BY <2>1 DEF TypeOK, Buffer
  <2>3. /\ free \subseteq Buffers /\ OnList \subseteq Buffers
        /\ \A u \in Threads : pc[u] \in Owning \cup {"fill"} =>
             thr[u].buf \in Buffers
    BY ListHead DEF TypeOK, LocalsOK, Holds, Owning
  <2>4. buf[b].ctx = c
    BY <2>1 DEF Owners, Owning
  <2> HIDE DEF b, c
  <2> QED BY <2>1, <2>2, <2>3, <2>4 DEF Owners, Owning
<1>4. ASSUME NEW t \in Threads, NEW c \in Ctxs, Read(t, c) PROVE Owners'
  <2>1. /\ pc[t] = "idle" /\ pc'[t] \notin Owning \cup {"fill"}
        /\ \A u \in Threads \ {t} : pc'[u] = pc[u] /\ thr'[u] = thr[u]
        /\ UNCHANGED <<buf, ctx, free, running>>
    BY <1>4 DEF Read, TypeOK, Owning
  <2>2. OnList' = OnList
    BY <2>1 DEF OnList
  <2> QED BY <2>1, <2>2 DEF Owners
<1>5. CASE IsrStore
  <2> DEFINE b == Head(running)
             c == buf[b].ctx
  <2>1. /\ b \in Buffers /\ c \in Ctxs
        /\ OnList' = OnList \ {b} /\ free' = free \cup {b}
        /\ buf' = [buf EXCEPT ![b].ctx = NoCtx]
        /\ UNCHANGED <<pc, thr>>
        /\ \A t \in Threads : thr[t].buf # b
    BY <1>5, IsrEffect
  <2>2. /\ buf'[b].ctx = NoCtx
        /\ \A x \in Buffers \ {b} : buf'[x].ctx = buf[x].ctx
    BY <2>1 DEF TypeOK, Buffer
  <2>3. \A x \in Ctxs : ctx'[x].state = ctx[x].state
    BY <1>5, IsrStates
  <2>4. /\ free \subseteq Buffers /\ OnList \subseteq Buffers
        /\ \A t \in Threads : pc[t] \in Owning \cup {"fill"} =>
             thr[t].buf \in Buffers
    BY ListHead DEF TypeOK, LocalsOK, Holds, Owning
  <2> HIDE DEF b, c
  <2> QED BY <2>1, <2>2, <2>3, <2>4, AdlerAssumption DEF Owners
<1> USE AdlerAssumption DEF TypeOK, LocalsOK, Owners, Owning, Holds, OnList,
      Gone, Owned, UserRuns, Context, Buffer, Registers,
      Locals, Labels, NoLocals, NewLocals, NoContext, NewContext, history
<1>6. ASSUME NEW c \in Ctxs, Open(c) PROVE Owners'
  BY <1>6 DEF Open
<1>7. ASSUME NEW c \in Ctxs, Release(c) PROVE Owners'
  BY <1>7 DEF Release
<1>8. ASSUME NEW c \in Ctxs, ReleaseReturn(c) PROVE Owners'
  BY <1>8 DEF ReleaseReturn, Freed
<1>9. ASSUME NEW t \in Threads, GetBuffer(t) PROVE Owners'
  BY <1>9 DEF GetBuffer
<1>10. ASSUME NEW t \in Threads, GetInterrupted(t) PROVE Owners'
  BY <1>10 DEF GetInterrupted, Return
<1>11. ASSUME NEW t \in Threads, FillFails(t) PROVE Owners'
  BY <1>11 DEF FillFails, Return
<1>12. ASSUME NEW t \in Threads, CountLoad(t) PROVE Owners'
  BY <1>12 DEF CountLoad
<1>13. ASSUME NEW t \in Threads, CountStore(t) PROVE Owners'
  BY <1>13 DEF CountStore
<1>14. ASSUME NEW t \in Threads, ReadReturn(t) PROVE Owners'
  BY <1>14 DEF ReadReturn, Return
<1>15. ASSUME NEW t \in Threads, ReadInterrupted(t) PROVE Owners'
  BY <1>15 DEF ReadInterrupted, Return
<1>16. CASE DeviceDone
  BY <1>16 DEF DeviceDone
<1>17. CASE Suspend
  BY <1>17 DEF Suspend, SuspendOrSleep
<1>18. CASE SuspendWakes
  BY <1>18 DEF SuspendWakes, SuspendOrSleep
<1>19. CASE Resume
  BY <1>19 DEF Resume
<1>20. CASE Remove
  BY <1>20 DEF Remove, Frozen
<1>21. CASE Probe
  BY <1>21 DEF Probe
<1>22. CASE UNCHANGED vars
  BY <1>22 DEF vars, history
<1>23. CASE IsrLoad
  BY <1>23 DEF IsrLoad
<1> QED
  BY <1>1, <1>2, <1>3, <1>4, <1>5, <1>6, <1>7, <1>8, <1>9, <1>10,
     <1>11, <1>12, <1>13, <1>14, <1>15, <1>16, <1>17, <1>18, <1>19, <1>20,
     <1>21, <1>22, <1>23
  DEF Next, Thread

(* The device.                                                             *)
LEMMA HardwareStep ==
  ASSUME TypeOK, LocalsOK, Pool, Owners, HardwareFollows, Gone, HandlerOK,
         [Next]_vars
  PROVE  HardwareFollows'
<1>1. ASSUME NEW t \in Threads, Submit(t)
       PROVE HardwareFollows'
  <2>1. /\ running' # <<>> /\ thr[t].buf \in Buffers
        /\ Head(running') =
             IF running = <<>> THEN thr[t].buf ELSE Head(running)
        /\ hw'.intr = hw.intr /\ stuck' = stuck
        /\ hw'.work = IF running = <<>> THEN thr[t].buf ELSE hw.work
    BY <1>1, SubmitEffect
  <2> QED BY <2>1, AdlerAssumption DEF HardwareFollows
<1>2. CASE IsrStore
  <2>1. /\ running' \in Seq(Buffers) /\ hw'.intr = FALSE /\ stuck' = stuck
        /\ hw'.work = IF running' = <<>> THEN NoBuf ELSE Head(running')
    BY <1>2, IsrEffect
  <2>2. stuck = FALSE
    BY <1>2 DEF IsrStore, HandlerOK, HardwareFollows, TypeOK
  <2>3. running' # <<>> => Head(running') \in Buffers
    BY <2>1
  <2> QED BY <2>1, <2>2, <2>3, AdlerAssumption DEF HardwareFollows
<1>3. CASE Probe
  <2>1. running = <<>> /\ hw.work = NoBuf
    BY <1>3 DEF Probe, Gone, HardwareFollows
  <2> QED BY <1>3, <2>1 DEF Probe, HardwareFollows, TypeOK, Registers
<1> USE AdlerAssumption DEF TypeOK, HardwareFollows,
      Context, Buffer, Registers,
      Locals, Labels, NoLocals, NewLocals, NoContext, NewContext, history
<1>4. ASSUME NEW c \in Ctxs, Open(c)
       PROVE HardwareFollows'
  BY <1>4 DEF Open
<1>5. ASSUME NEW c \in Ctxs, Release(c)
       PROVE HardwareFollows'
  BY <1>5 DEF Release
<1>6. ASSUME NEW c \in Ctxs, ReleaseReturn(c)
       PROVE HardwareFollows'
  BY <1>6 DEF ReleaseReturn, Freed
<1>7. ASSUME NEW t \in Threads, NEW c \in Ctxs,
             NEW n \in 1 .. MaxChunks, Write(t, c, n)
       PROVE HardwareFollows'
  BY <1>7 DEF Write
<1>8. ASSUME NEW t \in Threads, GetBuffer(t)
       PROVE HardwareFollows'
  BY <1>8 DEF GetBuffer
<1>9. ASSUME NEW t \in Threads, GetInterrupted(t)
       PROVE HardwareFollows'
  BY <1>9 DEF GetInterrupted, Return
<1>10. ASSUME NEW t \in Threads, FillFails(t)
       PROVE HardwareFollows'
  BY <1>10 DEF FillFails, Return
<1>11. ASSUME NEW t \in Threads, Fill(t)
       PROVE HardwareFollows'
  BY <1>11 DEF Fill
<1>12. ASSUME NEW t \in Threads, CountLoad(t)
       PROVE HardwareFollows'
  BY <1>12 DEF CountLoad
<1>13. ASSUME NEW t \in Threads, CountStore(t)
       PROVE HardwareFollows'
  BY <1>13 DEF CountStore
<1>14. ASSUME NEW t \in Threads, NEW c \in Ctxs, Read(t, c)
       PROVE HardwareFollows'
  BY <1>14 DEF Read
<1>15. ASSUME NEW t \in Threads, ReadReturn(t)
       PROVE HardwareFollows'
  BY <1>15 DEF ReadReturn, Return
<1>16. ASSUME NEW t \in Threads, ReadInterrupted(t)
       PROVE HardwareFollows'
  BY <1>16 DEF ReadInterrupted, Return
<1>17. CASE DeviceDone
  BY <1>17 DEF DeviceDone
<1>18. CASE Suspend
  BY <1>18 DEF Suspend, SuspendOrSleep
<1>19. CASE SuspendWakes
  BY <1>19 DEF SuspendWakes, SuspendOrSleep
<1>20. CASE Resume
  BY <1>20 DEF Resume
<1>21. CASE Remove
  BY <1>21 DEF Remove, Frozen
<1>22. CASE UNCHANGED vars
  BY <1>22 DEF vars, history
<1>23. CASE IsrLoad
  BY <1>23 DEF IsrLoad
<1> QED
  BY <1>1, <1>2, <1>3, <1>4, <1>5, <1>6, <1>7, <1>8, <1>9, <1>10,
     <1>11, <1>12, <1>13, <1>14, <1>15, <1>16, <1>17, <1>18, <1>19, <1>20,
     <1>21, <1>22, <1>23
  DEF Next, Thread

(* Module unload.                                                          *)
LEMMA GoneStep ==
  ASSUME TypeOK, LocalsOK, Pool, Owners, HardwareFollows, Gone, HandlerOK,
         [Next]_vars
  PROVE  Gone'
<1>1. ASSUME NEW t \in Threads, Submit(t) PROVE Gone'
  <2>1. pc[t] = "submit" /\ dev' = dev
    BY <1>1 DEF Submit
  <2> QED BY <2>1 DEF Gone
<1>2. CASE IsrStore
  <2>1. running # <<>> /\ dev' = dev
    BY <1>2, IsrEffect
  <2> QED BY <2>1 DEF Gone
<1>3. CASE Remove
  <2>1. running = <<>>
    <3>1. OnList = {}
      <4> SUFFICES ASSUME NEW b \in OnList PROVE FALSE
        OBVIOUS
      <4>1. b \in Buffers /\ buf[b].ctx \in Ctxs
        BY ListHead DEF Owners, TypeOK
      <4> QED BY <1>3, <4>1 DEF Remove, Owners
    <3> QED BY <3>1, ListHead DEF TypeOK
  <2> QED BY <1>3, <2>1 DEF Remove, Frozen, Gone
<1> USE AdlerAssumption DEF TypeOK, Gone, UserRuns, Frozen,
      Context, Buffer, Registers,
      Locals, Labels, NoLocals, NewLocals, NoContext, NewContext, history
<1>4. ASSUME NEW c \in Ctxs, Open(c) PROVE Gone'
  BY <1>4 DEF Open
<1>5. ASSUME NEW c \in Ctxs, Release(c) PROVE Gone'
  BY <1>5 DEF Release
<1>6. ASSUME NEW c \in Ctxs, ReleaseReturn(c) PROVE Gone'
  BY <1>6 DEF ReleaseReturn, Freed
<1>7. ASSUME NEW t \in Threads, NEW c \in Ctxs,
             NEW n \in 1 .. MaxChunks, Write(t, c, n) PROVE Gone'
  BY <1>7 DEF Write
<1>8. ASSUME NEW t \in Threads, GetBuffer(t) PROVE Gone'
  BY <1>8 DEF GetBuffer
<1>9. ASSUME NEW t \in Threads, GetInterrupted(t) PROVE Gone'
  BY <1>9 DEF GetInterrupted, Return
<1>10. ASSUME NEW t \in Threads, FillFails(t) PROVE Gone'
  BY <1>10 DEF FillFails, Return
<1>11. ASSUME NEW t \in Threads, Fill(t) PROVE Gone'
  BY <1>11 DEF Fill
<1>12. ASSUME NEW t \in Threads, CountLoad(t) PROVE Gone'
  BY <1>12 DEF CountLoad
<1>13. ASSUME NEW t \in Threads, CountStore(t) PROVE Gone'
  BY <1>13 DEF CountStore
<1>14. ASSUME NEW t \in Threads, NEW c \in Ctxs, Read(t, c) PROVE Gone'
  BY <1>14 DEF Read
<1>15. ASSUME NEW t \in Threads, ReadReturn(t) PROVE Gone'
  BY <1>15 DEF ReadReturn, Return
<1>16. ASSUME NEW t \in Threads, ReadInterrupted(t) PROVE Gone'
  BY <1>16 DEF ReadInterrupted, Return
<1>17. CASE DeviceDone
  BY <1>17 DEF DeviceDone
<1>18. CASE Suspend
  BY <1>18 DEF Suspend, SuspendOrSleep
<1>19. CASE SuspendWakes
  BY <1>19 DEF SuspendWakes, SuspendOrSleep
<1>20. CASE Resume
  BY <1>20 DEF Resume
<1>21. CASE Probe
  BY <1>21 DEF Probe
<1>22. CASE UNCHANGED vars
  BY <1>22 DEF vars, history
<1>23. CASE IsrLoad
  BY <1>23 DEF IsrLoad
<1> QED
  BY <1>1, <1>2, <1>3, <1>4, <1>5, <1>6, <1>7, <1>8, <1>9, <1>10,
     <1>11, <1>12, <1>13, <1>14, <1>15, <1>16, <1>17, <1>18, <1>19, <1>20,
     <1>21, <1>22, <1>23
  DEF Next, Thread

(* Nothing lowers or masks the interrupt under the handler.                *)
LEMMA HandlerStep ==
  ASSUME TypeOK, LocalsOK, Pool, Owners, HardwareFollows, Gone, HandlerOK,
         [Next]_vars
  PROVE  HandlerOK'
<1>1. ASSUME NEW t \in Threads, Submit(t) PROVE HandlerOK'
  <2>1. hw'.intr = hw.intr /\ hw'.enable = hw.enable
    BY <1>1 DEF Submit, Start, TypeOK, Registers
  <2> QED BY <1>1, <2>1 DEF Submit, HandlerOK
<1>2. CASE IsrLoad
  BY <1>2 DEF IsrLoad, HandlerOK
<1>3. CASE IsrStore
  <2>1. hw'.enable = hw.enable
    <3> DEFINE b == Head(running)
               done == [ctx EXCEPT ![buf[b].ctx].pending = isr.tmp - 1,
                                   ![buf[b].ctx].sum = hw.sum]
    <3>1. hw' = RunNext([hw EXCEPT !.intr = FALSE], Tail(running), done)
      BY <1>3 DEF IsrStore
    <3> HIDE DEF done
    <3> QED BY <3>1 DEF RunNext, Start, TypeOK, Registers
  <2>2. ~isr'.on
    BY <1>3 DEF IsrStore, NoHandler
  <2>3. dev' = dev /\ (pm' = pm \/ (pm = "asleep" /\ pm' = "woken"))
    BY <1>3 DEF IsrStore
  <2> QED BY <2>1, <2>2, <2>3 DEF HandlerOK
<1>4. CASE DeviceDone
  <2>1. hw'.intr = TRUE /\ hw'.enable = hw.enable
    BY <1>4 DEF DeviceDone, TypeOK, Registers
  <2> QED BY <1>4, <2>1 DEF DeviceDone, HandlerOK
<1>5. CASE Suspend \/ SuspendWakes
  <2>1. ~isr.on /\ isr' = isr /\ dev' = dev
    BY <1>5 DEF Suspend, SuspendWakes, Unlocked
  <2>2. \/ pm' = "asleep" /\ hw' = hw
        \/ pm' = "off" /\ hw'.enable = FALSE
    BY <1>5 DEF Suspend, SuspendWakes, SuspendOrSleep, TypeOK, Registers
  <2>3. dev # "gone"
    BY <1>5 DEF Suspend, SuspendWakes, UserRuns, HandlerOK
  <2> QED BY <2>1, <2>2, <2>3 DEF HandlerOK
<1>6. CASE Resume
  BY <1>6 DEF Resume, HandlerOK
<1>7. CASE Remove
  <2>1. OnList = {}
    <3> SUFFICES ASSUME NEW b \in OnList PROVE FALSE
      OBVIOUS
    <3>1. b \in Buffers /\ buf[b].ctx \in Ctxs
      BY ListHead DEF Owners, TypeOK
    <3> QED BY <1>7, <3>1 DEF Remove, Owners
  <2>2. running = <<>>
    BY <2>1, ListHead DEF TypeOK
  <2>3. ~isr.on /\ isr' = isr /\ pm' = pm /\ pm = "on"
    BY <1>7, <2>2 DEF Remove, UserRuns, HandlerOK, HardwareFollows
  <2> QED BY <2>3 DEF HandlerOK
<1>8. CASE Probe
  <2>1. ~isr.on /\ isr' = isr /\ pm' = pm /\ pm = "on" /\ dev' = "live"
    BY <1>8 DEF Probe, Gone, HandlerOK, HardwareFollows
  <2> QED BY <2>1 DEF HandlerOK
<1>9. ASSUME UNCHANGED <<isr, hw, pm, dev>> PROVE HandlerOK'
  BY <1>9 DEF HandlerOK
<1>10. ASSUME NEW c \in Ctxs, Open(c) \/ Release(c) \/ ReleaseReturn(c)
       PROVE  HandlerOK'
  BY <1>9, <1>10 DEF Open, Release, ReleaseReturn
<1>11. ASSUME NEW t \in Threads, NEW c \in Ctxs, NEW n \in 1 .. MaxChunks,
              Write(t, c, n)
       PROVE  HandlerOK'
  BY <1>9, <1>11 DEF Write
<1>12. ASSUME NEW t \in Threads, NEW c \in Ctxs, Read(t, c) PROVE HandlerOK'
  BY <1>9, <1>12 DEF Read
<1>13. ASSUME NEW t \in Threads,
              \/ GetBuffer(t) \/ GetInterrupted(t) \/ FillFails(t) \/ Fill(t)
              \/ CountLoad(t) \/ CountStore(t)
              \/ ReadReturn(t) \/ ReadInterrupted(t)
       PROVE  HandlerOK'
  BY <1>9, <1>13 DEF GetBuffer, GetInterrupted, FillFails, Fill, CountLoad,
     CountStore, ReadReturn, ReadInterrupted
<1>14. CASE UNCHANGED vars
  BY <1>9, <1>14 DEF vars
<1> QED
  BY <1>1, <1>2, <1>3, <1>4, <1>5, <1>6, <1>7, <1>8, <1>10, <1>11, <1>12,
     <1>13, <1>14
  DEF Next, Thread

-----------------------------------------------------------------------------
(* pending_buffers.                                                        *)

LEMMA CountedIs ==
  ASSUME NEW c \in Ctxs
  PROVE  Counted(c) =
           {b \in Buffers :
              \/ b \in OnList /\ buf[b].ctx = c
              \/ \E t \in Threads :
                   pc[t] = "submit" /\ thr[t].buf = b /\ thr[t].ctx = c}
  BY DEF Counted, OnList

LEMMA CountedFinite ==
  ASSUME NEW c \in Ctxs
  PROVE  IsFiniteSet(Counted(c)) /\ Cardinality(Counted(c)) \in Nat
<1>1. Counted(c) \subseteq Buffers
  BY DEF Counted
<1> QED BY <1>1, AdlerAssumption, FS_Subset, FS_CardinalityType

(* A step that leaves the list and the writers about to submit alone.      *)
LEMMA CountedKept ==
  ASSUME running' = running,
         \A b \in OnList : buf'[b].ctx = buf[b].ctx,
         \A t \in Threads : pc[t] = "submit" <=> pc'[t] = "submit",
         \A t \in Threads : pc[t] = "submit" => thr'[t] = thr[t],
         NEW c \in Ctxs
  PROVE  Counted(c)' = Counted(c)
<1>1. OnList' = OnList
  BY DEF OnList
<1>2. Counted(c)' =
        {b \in Buffers :
           \/ b \in OnList' /\ buf'[b].ctx = c
           \/ \E t \in Threads :
                pc'[t] = "submit" /\ thr'[t].buf = b /\ thr'[t].ctx = c}
  BY DEF Counted, OnList
<1> QED BY <1>1, <1>2, CountedIs

LEMMA PendingKept ==
  ASSUME PendingExact, lost' = lost,
         \A c \in Ctxs : ctx'[c].pending = ctx[c].pending,
         \A c \in Ctxs : ctx'[c].state \in {"open", "closing"} =>
                           ctx[c].state \in {"open", "closing"},
         \A c \in Ctxs : Counted(c)' = Counted(c)
  PROVE  PendingExact'
<1> SUFFICES ASSUME NEW c \in Ctxs, ctx'[c].state \in {"open", "closing"},
                    ~lost'[c]
             PROVE  ctx'[c].pending = Cardinality(Counted(c)')
  BY DEF PendingExact
<1>1. ctx[c].pending = Cardinality(Counted(c))
  BY DEF PendingExact
<1> QED BY <1>1

LEMMA PendingStep ==
  ASSUME TypeOK, LocalsOK, Pool, Owners, HardwareFollows, Gone, HandlerOK,
         PendingExact, NoDangling, [Next]_vars
  PROVE  PendingExact'
<1>1. ASSUME NEW c \in Ctxs, Open(c)
       PROVE PendingExact'
  <2>1. UNCHANGED <<running, buf, pc, thr>> /\ ctx[c].state = "closed"
    BY <1>1 DEF Open
  <2>2. \A x \in Ctxs : Counted(x)' = Counted(x)
    BY <2>1, CountedKept
  <2>3. Counted(c) = {}
    BY <2>1 DEF Counted, Owners, LocalsOK
  <2>4. /\ ctx'[c].pending = 0
        /\ \A x \in Ctxs \ {c} : ctx'[x] = ctx[x] /\ lost'[x] = lost[x]
    BY <1>1 DEF Open, TypeOK, NewContext
  <2> SUFFICES ASSUME NEW x \in Ctxs, ctx'[x].state \in {"open", "closing"},
                      ~lost'[x]
               PROVE  ctx'[x].pending = Cardinality(Counted(x)')
    BY DEF PendingExact
  <2>5. CASE x = c
    <3>1. Counted(x)' = {}
      BY <2>2, <2>3, <2>5
    <3>2. Cardinality(Counted(x)') = 0
      BY <3>1, FS_EmptySet
    <3> QED BY <2>4, <2>5, <3>2
  <2>6. CASE x # c
    <3>1. ctx[x].pending = Cardinality(Counted(x))
      BY <2>4, <2>6 DEF PendingExact
    <3> QED BY <2>2, <2>4, <2>6, <3>1
  <2> QED BY <2>5, <2>6
<1>2. ASSUME NEW c \in Ctxs, Release(c)
       PROVE PendingExact'
  <2>1. UNCHANGED <<running, buf, lost, pc, thr>>
    BY <1>2 DEF Release, history
  <2>2. \A x \in Ctxs : Counted(x)' = Counted(x)
    BY <2>1, CountedKept
  <2>3. \A x \in Ctxs :
          /\ ctx'[x].pending = ctx[x].pending
          /\ ctx'[x].state \in {"open", "closing"} =>
               ctx[x].state \in {"open", "closing"}
    BY <1>2 DEF Release, TypeOK, Context
  <2> QED BY <2>1, <2>2, <2>3, PendingKept
<1>3. ASSUME NEW c \in Ctxs, ReleaseReturn(c)
       PROVE PendingExact'
  <2>1. UNCHANGED <<running, buf, lost, pc, thr>>
    BY <1>3 DEF ReleaseReturn, history
  <2>2. \A x \in Ctxs : Counted(x)' = Counted(x)
    BY <2>1, CountedKept
  <2>3. \A x \in Ctxs :
          /\ ctx'[x].pending = ctx[x].pending
          /\ ctx'[x].state \in {"open", "closing"} =>
               ctx[x].state \in {"open", "closing"}
    BY <1>3 DEF ReleaseReturn, Freed, TypeOK, Context
  <2> QED BY <2>1, <2>2, <2>3, PendingKept
<1>4. ASSUME NEW t \in Threads, NEW c \in Ctxs,
             NEW n \in 1 .. MaxChunks, Write(t, c, n)
       PROVE PendingExact'
  <2>1. /\ \A u \in Threads : pc[u] = "submit" <=> pc'[u] = "submit"
        /\ \A u \in Threads : pc[u] = "submit" => thr'[u] = thr[u]
    BY <1>4 DEF Write, TypeOK
  <2>2. UNCHANGED <<running, buf, ctx, lost>>
    BY <1>4 DEF Write, history
  <2>3. \A x \in Ctxs : Counted(x)' = Counted(x)
    BY <2>1, <2>2, CountedKept
  <2> QED BY <2>2, <2>3, PendingKept
<1>5. ASSUME NEW t \in Threads, GetBuffer(t)
       PROVE PendingExact'
  <2>1. /\ \A u \in Threads : pc[u] = "submit" <=> pc'[u] = "submit"
        /\ \A u \in Threads : pc[u] = "submit" => thr'[u] = thr[u]
    BY <1>5 DEF GetBuffer, TypeOK
  <2>2. UNCHANGED <<running, buf, ctx, lost>>
    BY <1>5 DEF GetBuffer, history
  <2>3. \A x \in Ctxs : Counted(x)' = Counted(x)
    BY <2>1, <2>2, CountedKept
  <2> QED BY <2>2, <2>3, PendingKept
<1>6. ASSUME NEW t \in Threads, GetInterrupted(t)
       PROVE PendingExact'
  <2>1. /\ \A u \in Threads : pc[u] = "submit" <=> pc'[u] = "submit"
        /\ \A u \in Threads : pc[u] = "submit" => thr'[u] = thr[u]
    BY <1>6 DEF GetInterrupted, Return, TypeOK
  <2>2. UNCHANGED <<running, buf, ctx, lost>>
    BY <1>6 DEF GetInterrupted, history
  <2>3. \A x \in Ctxs : Counted(x)' = Counted(x)
    BY <2>1, <2>2, CountedKept
  <2> QED BY <2>2, <2>3, PendingKept
<1>7. ASSUME NEW t \in Threads, FillFails(t)
       PROVE PendingExact'
  <2>1. /\ \A u \in Threads : pc[u] = "submit" <=> pc'[u] = "submit"
        /\ \A u \in Threads : pc[u] = "submit" => thr'[u] = thr[u]
    BY <1>7 DEF FillFails, Return, TypeOK
  <2>2. UNCHANGED <<running, buf, ctx, lost>>
    BY <1>7 DEF FillFails, history
  <2>3. \A x \in Ctxs : Counted(x)' = Counted(x)
    BY <2>1, <2>2, CountedKept
  <2> QED BY <2>2, <2>3, PendingKept
<1>8. ASSUME NEW t \in Threads, Fill(t)
       PROVE PendingExact'
  <2>1. /\ \A u \in Threads : pc[u] = "submit" <=> pc'[u] = "submit"
        /\ UNCHANGED <<running, ctx, lost, thr>>
    BY <1>8 DEF Fill, TypeOK, history
  <2>2. thr[t].buf \in Buffers /\ thr[t].buf \notin OnList
    BY <1>8 DEF Fill, LocalsOK, Holds, Pool
  <2>3. \A b \in OnList : buf'[b].ctx = buf[b].ctx
    <3>1. OnList \subseteq Buffers
      BY ListHead DEF TypeOK
    <3>2. \A b \in Buffers : b # thr[t].buf => buf'[b] = buf[b]
      BY <1>8, <2>2 DEF Fill, TypeOK
    <3> QED BY <2>2, <3>1, <3>2
  <2>4. \A x \in Ctxs : Counted(x)' = Counted(x)
    BY <2>1, <2>3, CountedKept
  <2> QED BY <2>1, <2>4, PendingKept
<1>9. ASSUME NEW t \in Threads, CountLoad(t)
       PROVE PendingExact'
  <2>1. /\ \A u \in Threads : pc[u] = "submit" <=> pc'[u] = "submit"
        /\ \A u \in Threads : pc[u] = "submit" => thr'[u] = thr[u]
    BY <1>9 DEF CountLoad, TypeOK
  <2>2. UNCHANGED <<running, buf, ctx, lost>>
    BY <1>9 DEF CountLoad, history
  <2>3. \A x \in Ctxs : Counted(x)' = Counted(x)
    BY <2>1, <2>2, CountedKept
  <2> QED BY <2>2, <2>3, PendingKept
<1>10. ASSUME NEW t \in Threads, CountStore(t)
       PROVE PendingExact'
  <2> DEFINE b == thr[t].buf
  <2>0. PICK c \in Ctxs : c = thr[t].ctx
    BY <1>10 DEF CountStore, LocalsOK
  <2>1. /\ pc[t] = "store" /\ pc'[t] = "submit" /\ b \in Buffers
        /\ \A u \in Threads \ {t} : pc'[u] = pc[u]
        /\ UNCHANGED <<running, buf, thr>>
        /\ ctx[c].state = "open" /\ b \notin OnList
        /\ \A u \in Threads \ {t} : thr[u].buf # b
    BY <1>10, <2>0 DEF CountStore, LocalsOK, Holds, TypeOK, Pool
  <2>2. OnList' = OnList
    BY <2>1 DEF OnList
  <2>3. b \notin Counted(c) /\ Counted(c)' = Counted(c) \cup {b}
    <3>1. Counted(c)' =
            {x \in Buffers :
               \/ x \in OnList /\ buf[x].ctx = c
               \/ \E u \in Threads :
                    pc'[u] = "submit" /\ thr[u].buf = x /\ thr[u].ctx = c}
      BY <2>1, <2>2 DEF Counted, OnList
    <3>2. b \notin Counted(c)
      BY <2>0, <2>1, CountedIs
    <3>3. \A x \in Buffers : x # b => (x \in Counted(c)' <=> x \in Counted(c))
      BY <2>0, <2>1, <3>1, CountedIs
    <3>4. b \in Counted(c)'
      BY <2>0, <2>1, <3>1
    <3>5. Counted(c) \subseteq Buffers /\ Counted(c)' \subseteq Buffers
      BY DEF Counted
    <3> QED BY <3>2, <3>3, <3>4, <3>5
  <2>4. \A x \in Ctxs : x # c => Counted(x)' = Counted(x)
    <3> SUFFICES ASSUME NEW x \in Ctxs, x # c PROVE Counted(x)' = Counted(x)
      OBVIOUS
    <3>1. Counted(x)' =
            {y \in Buffers :
               \/ y \in OnList /\ buf[y].ctx = x
               \/ \E u \in Threads :
                    pc'[u] = "submit" /\ thr[u].buf = y /\ thr[u].ctx = x}
      BY <2>1, <2>2 DEF Counted, OnList
    <3> QED BY <2>0, <2>1, <3>1, CountedIs
  <2>5. /\ ctx'[c].pending = thr[t].tmp + 1
        /\ lost'[c] = FALSE => lost[c] = FALSE /\ ctx[c].pending = thr[t].tmp
        /\ \A x \in Ctxs : x # c => ctx'[x] = ctx[x] /\ lost'[x] = lost[x]
    BY <1>10, <2>0, <2>1 DEF CountStore, TypeOK, Context
  <2> SUFFICES ASSUME NEW x \in Ctxs, ctx'[x].state \in {"open", "closing"},
                      lost'[x] = FALSE
               PROVE  ctx'[x].pending = Cardinality(Counted(x)')
    <3>1. \A x \in Ctxs : lost'[x] \in BOOLEAN
      BY <1>10 DEF CountStore, TypeOK
    <3> QED BY <3>1 DEF PendingExact
  <2> HIDE DEF b
  <2>6. CASE x = c
    <3>1. ctx[c].pending = Cardinality(Counted(c))
      BY <2>1, <2>5, <2>6 DEF PendingExact
    <3>2. Cardinality(Counted(c) \cup {b}) = Cardinality(Counted(c)) + 1
      BY <2>1, <2>3, CountedFinite, FS_AddElement
    <3>3. Cardinality(Counted(x)') = Cardinality(Counted(c)) + 1
      BY <2>3, <2>6, <3>2
    <3>4. ctx'[x].pending = ctx[c].pending + 1
      BY <2>5, <2>6
    <3> QED BY <3>1, <3>3, <3>4
  <2>7. CASE x # c
    <3>1. ctx[x].pending = Cardinality(Counted(x))
      BY <2>5, <2>7 DEF PendingExact
    <3> QED BY <2>4, <2>5, <2>7, <3>1
  <2> QED BY <2>6, <2>7
<1>11. ASSUME NEW t \in Threads, Submit(t)
       PROVE PendingExact'
  <2> DEFINE b == thr[t].buf
             c == thr[t].ctx
  <2>1. /\ pc[t] = "submit" /\ b \in Buffers /\ c \in Ctxs
        /\ OnList' = OnList \cup {b}
        /\ buf' = [buf EXCEPT ![b].chunk = wrote[c] + 1]
        /\ pc'[t] \in {"idle", "get"}
        /\ \A u \in Threads \ {t} : pc'[u] = pc[u] /\ thr'[u] = thr[u]
        /\ UNCHANGED <<ctx, lost>>
    BY <1>11, SubmitEffect
  <2>2. \A x \in Buffers : buf'[x].ctx = buf[x].ctx
    BY <2>1 DEF TypeOK, Buffer
  <2>3. buf[b].ctx = c
    BY <2>1 DEF Owners, Owning
  <2>4. \A x \in Ctxs : Counted(x)' = Counted(x)
    <3> SUFFICES ASSUME NEW x \in Ctxs PROVE Counted(x)' = Counted(x)
      OBVIOUS
    <3>1. Counted(x)' =
            {y \in Buffers :
               \/ y \in OnList' /\ buf'[y].ctx = x
               \/ \E u \in Threads :
                    pc'[u] = "submit" /\ thr'[u].buf = y /\ thr'[u].ctx = x}
      BY DEF Counted, OnList
    <3>2. \A y \in Buffers : y \in Counted(x)' <=> y \in Counted(x)
      BY <2>1, <2>2, <2>3, <3>1, CountedIs
    <3>3. Counted(x) \subseteq Buffers /\ Counted(x)' \subseteq Buffers
      BY DEF Counted
    <3> QED BY <3>2, <3>3
  <2> QED BY <2>1, <2>4, PendingKept
<1>12. ASSUME NEW t \in Threads, NEW c \in Ctxs, Read(t, c)
       PROVE PendingExact'
  <2>1. /\ \A u \in Threads : pc[u] = "submit" <=> pc'[u] = "submit"
        /\ \A u \in Threads : pc[u] = "submit" => thr'[u] = thr[u]
    BY <1>12 DEF Read, TypeOK
  <2>2. UNCHANGED <<running, buf, ctx, lost>>
    BY <1>12 DEF Read, history
  <2>3. \A x \in Ctxs : Counted(x)' = Counted(x)
    BY <2>1, <2>2, CountedKept
  <2> QED BY <2>2, <2>3, PendingKept
<1>13. ASSUME NEW t \in Threads, ReadReturn(t)
       PROVE PendingExact'
  <2>1. /\ \A u \in Threads : pc[u] = "submit" <=> pc'[u] = "submit"
        /\ \A u \in Threads : pc[u] = "submit" => thr'[u] = thr[u]
    BY <1>13 DEF ReadReturn, Return, TypeOK
  <2>2. UNCHANGED <<running, buf, ctx, lost>>
    BY <1>13 DEF ReadReturn, history
  <2>3. \A x \in Ctxs : Counted(x)' = Counted(x)
    BY <2>1, <2>2, CountedKept
  <2> QED BY <2>2, <2>3, PendingKept
<1>14. ASSUME NEW t \in Threads, ReadInterrupted(t)
       PROVE PendingExact'
  <2>1. /\ \A u \in Threads : pc[u] = "submit" <=> pc'[u] = "submit"
        /\ \A u \in Threads : pc[u] = "submit" => thr'[u] = thr[u]
    BY <1>14 DEF ReadInterrupted, Return, TypeOK
  <2>2. UNCHANGED <<running, buf, ctx, lost>>
    BY <1>14 DEF ReadInterrupted, history
  <2>3. \A x \in Ctxs : Counted(x)' = Counted(x)
    BY <2>1, <2>2, CountedKept
  <2> QED BY <2>2, <2>3, PendingKept
<1>15. CASE DeviceDone
  <2>1. UNCHANGED <<running, buf, ctx, lost, pc, thr>>
    BY <1>15 DEF DeviceDone, history
  <2>2. \A x \in Ctxs : Counted(x)' = Counted(x)
    BY <2>1, CountedKept
  <2> QED BY <2>1, <2>2, PendingKept
<1>16. CASE IsrStore
  <2> DEFINE b == Head(running)
             c == buf[b].ctx
  <2>1. /\ b \in Buffers /\ c \in Ctxs /\ b \in OnList
        /\ OnList' = OnList \ {b}
        /\ buf' = [buf EXCEPT ![b].ctx = NoCtx]
        /\ ctx' = [ctx EXCEPT ![c].pending = isr.tmp - 1,
                              ![c].sum = hw.sum]
        /\ \A u \in Threads : thr[u].buf # b
        /\ lost' = [lost EXCEPT ![c] = lost[c] \/ ctx[c].pending # isr.tmp]
        /\ UNCHANGED <<pc, thr>>
    BY <1>16, IsrEffect
  <2>2. \A x \in Buffers : x # b => buf'[x].ctx = buf[x].ctx
    BY <2>1 DEF TypeOK, Buffer
  <2>3. /\ ctx'[c].pending = isr.tmp - 1
        /\ \A x \in Ctxs : x # c => ctx'[x].pending = ctx[x].pending
    BY <2>1 DEF TypeOK, Context
  <2>11. /\ lost'[c] = FALSE => lost[c] = FALSE /\ ctx[c].pending = isr.tmp
         /\ \A x \in Ctxs : x # c => lost'[x] = lost[x]
         /\ \A x \in Ctxs : lost'[x] \in BOOLEAN
    BY <2>1 DEF TypeOK
  <2>4. \A x \in Ctxs : ctx'[x].state = ctx[x].state
    BY <1>16, IsrStates
  <2> HIDE DEF b
  <2>5. \A x \in Ctxs : Counted(x)' = Counted(x) \ {b}
    <3> SUFFICES ASSUME NEW x \in Ctxs PROVE Counted(x)' = Counted(x) \ {b}
      OBVIOUS
    <3>1. Counted(x)' =
            {y \in Buffers :
               \/ y \in OnList' /\ buf'[y].ctx = x
               \/ \E u \in Threads :
                    pc'[u] = "submit" /\ thr'[u].buf = y /\ thr'[u].ctx = x}
      BY DEF Counted, OnList
    <3>2. \A y \in Buffers : y \in Counted(x)' <=> y \in Counted(x) /\ y # b
      BY <2>1, <2>2, <3>1, CountedIs
    <3>3. Counted(x) \subseteq Buffers /\ Counted(x)' \subseteq Buffers
      BY DEF Counted
    <3> QED BY <3>2, <3>3
  <2>6. b \in Counted(c) /\ \A x \in Ctxs : x # c => b \notin Counted(x)
    BY <2>1, CountedIs
  <2> HIDE DEF c
  <2> SUFFICES ASSUME NEW x \in Ctxs, ctx'[x].state \in {"open", "closing"},
                      lost'[x] = FALSE
               PROVE  ctx'[x].pending = Cardinality(Counted(x)')
    BY <2>11 DEF PendingExact
  <2>7. lost[x] = FALSE
    BY <2>11
  <2>8. ctx[x].pending = Cardinality(Counted(x))
    BY <2>4, <2>7 DEF PendingExact
  <2>9. CASE x = c
    <3>1. Cardinality(Counted(c) \ {b}) = Cardinality(Counted(c)) - 1
      BY <2>1, <2>6, CountedFinite, FS_RemoveElement
    <3>2. ctx'[x].pending = ctx[x].pending - 1
      BY <2>3, <2>11, <2>9
    <3> QED BY <2>1, <2>5, <2>8, <2>9, <3>1, <3>2
  <2>10. CASE x # c
    <3>1. Counted(x) \ {b} = Counted(x)
      BY <2>6, <2>10
    <3> QED BY <2>3, <2>5, <2>8, <2>10, <3>1
  <2> QED BY <2>9, <2>10
<1>17. CASE Suspend
  <2>1. UNCHANGED <<running, buf, ctx, lost, pc, thr>>
    BY <1>17 DEF Suspend, history
  <2>2. \A x \in Ctxs : Counted(x)' = Counted(x)
    BY <2>1, CountedKept
  <2> QED BY <2>1, <2>2, PendingKept
<1>18. CASE SuspendWakes
  <2>1. UNCHANGED <<running, buf, ctx, lost, pc, thr>>
    BY <1>18 DEF SuspendWakes, history
  <2>2. \A x \in Ctxs : Counted(x)' = Counted(x)
    BY <2>1, CountedKept
  <2> QED BY <2>1, <2>2, PendingKept
<1>19. CASE Resume
  <2>1. UNCHANGED <<running, buf, ctx, lost, pc, thr>>
    BY <1>19 DEF Resume, history
  <2>2. \A x \in Ctxs : Counted(x)' = Counted(x)
    BY <2>1, CountedKept
  <2> QED BY <2>1, <2>2, PendingKept
<1>20. CASE Remove
  <2>1. UNCHANGED <<running, buf, ctx, lost, pc, thr>>
    BY <1>20 DEF Remove, history
  <2>2. \A x \in Ctxs : Counted(x)' = Counted(x)
    BY <2>1, CountedKept
  <2> QED BY <2>1, <2>2, PendingKept
<1>21. CASE Probe
  <2>1. /\ running = <<>> /\ running' = <<>>
        /\ \A u \in Threads : pc[u] = "idle"
        /\ UNCHANGED <<ctx, lost, pc, thr>>
    BY <1>21 DEF Probe, Gone
  <2>2. OnList = {}
    BY <2>1, ListHead DEF TypeOK
  <2>3. \A x \in Ctxs : Counted(x)' = Counted(x)
    BY <2>1, <2>2, CountedKept
  <2> QED BY <2>1, <2>3, PendingKept
<1>22. CASE UNCHANGED vars
  <2>1. UNCHANGED <<running, buf, ctx, lost, pc, thr>>
    BY <1>22 DEF vars, history
  <2>2. \A x \in Ctxs : Counted(x)' = Counted(x)
    BY <2>1, CountedKept
  <2> QED BY <2>1, <2>2, PendingKept
<1>23. CASE IsrLoad
  <2>1. UNCHANGED <<running, buf, ctx, lost, pc, thr>>
    BY <1>23 DEF IsrLoad, history
  <2>2. \A x \in Ctxs : Counted(x)' = Counted(x)
    BY <2>1, CountedKept
  <2> QED BY <2>1, <2>2, PendingKept
<1> QED
  BY <1>1, <1>2, <1>3, <1>4, <1>5, <1>6, <1>7, <1>8, <1>9, <1>10,
     <1>11, <1>12, <1>13, <1>14, <1>15, <1>16, <1>17, <1>18, <1>19, <1>20,
     <1>21, <1>22, <1>23
  DEF Next, Thread

(* release waits for all buffers of its file.                              *)
LEMMA DanglingStep ==
  ASSUME TypeOK, LocalsOK, Pool, Owners, HardwareFollows, Gone, HandlerOK,
         PendingExact, NoDangling, [Next]_vars
  PROVE  NoDangling'
<1>1. ASSUME NEW c \in Ctxs, Open(c) PROVE NoDangling'
  BY <1>1 DEF Open, NoDangling, history, TypeOK, Context, NewContext
<1>2. ASSUME NEW c \in Ctxs, Release(c) PROVE NoDangling'
  BY <1>2 DEF Release, NoDangling, history, TypeOK, Context, NewContext
<1>3. ASSUME NEW c \in Ctxs, ReleaseReturn(c) PROVE NoDangling'
  <2>1. /\ ctx[c].state = "closing" /\ ctx[c].pending = 0
        /\ ctx'[c].state = Freed(c) /\ lost' = lost
        /\ \A x \in Ctxs : x # c => ctx'[x].state = ctx[x].state
    BY <1>3 DEF ReleaseReturn, TypeOK, Context, history
  <2>2. ASSUME lost[c] = FALSE PROVE Owned(c) = {}
    <3>1. Cardinality(Counted(c)) = 0
      BY <2>1, <2>2 DEF PendingExact
    <3>2. Counted(c) = {}
      BY <3>1, CountedFinite, FS_EmptySet
    <3> SUFFICES ASSUME NEW b \in Buffers, buf[b].ctx = c PROVE FALSE
      BY DEF Owned
    <3>3. b \notin free
      BY AdlerAssumption DEF Owners
    <3>4. b \notin OnList
      BY <3>2, CountedIs
    <3>5. PICK t \in Threads : thr[t].buf = b
      BY <3>3, <3>4 DEF Pool
    <3>6. pc[t] \in Owning \cup {"fill"}
      BY <3>5, AdlerAssumption DEF LocalsOK, Holds, Owning
    <3>7. CASE pc[t] = "fill"
      BY <3>5, <3>7, AdlerAssumption DEF Owners
    <3>8. CASE pc[t] \in Owning
      BY <2>1, <3>5, <3>8 DEF Owners, LocalsOK, Owning
    <3> QED BY <3>6, <3>7, <3>8
  <2>3. ctx'[c].state = "dangling" => lost[c]
    BY <2>1, <2>2 DEF Freed, TypeOK
  <2> QED BY <2>1, <2>3 DEF NoDangling
<1>4. ASSUME NEW t \in Threads, NEW c \in Ctxs,
             NEW n \in 1 .. MaxChunks, Write(t, c, n) PROVE NoDangling'
  BY <1>4 DEF Write, NoDangling, history
<1>5. ASSUME NEW t \in Threads, GetBuffer(t) PROVE NoDangling'
  BY <1>5 DEF GetBuffer, NoDangling, history
<1>6. ASSUME NEW t \in Threads, GetInterrupted(t) PROVE NoDangling'
  BY <1>6 DEF GetInterrupted, NoDangling, history
<1>7. ASSUME NEW t \in Threads, FillFails(t) PROVE NoDangling'
  BY <1>7 DEF FillFails, NoDangling, history
<1>8. ASSUME NEW t \in Threads, Fill(t) PROVE NoDangling'
  BY <1>8 DEF Fill, NoDangling, history
<1>9. ASSUME NEW t \in Threads, CountLoad(t) PROVE NoDangling'
  BY <1>9 DEF CountLoad, NoDangling, history
<1>10. ASSUME NEW t \in Threads, CountStore(t) PROVE NoDangling'
  <2>1. \A x \in Ctxs : ctx'[x].state = ctx[x].state /\ (lost[x] => lost'[x])
    BY <1>10 DEF CountStore, TypeOK, Context
  <2> QED BY <2>1 DEF NoDangling
<1>11. ASSUME NEW t \in Threads, Submit(t) PROVE NoDangling'
  BY <1>11 DEF Submit, NoDangling, history
<1>12. ASSUME NEW t \in Threads, NEW c \in Ctxs, Read(t, c) PROVE NoDangling'
  BY <1>12 DEF Read, NoDangling, history
<1>13. ASSUME NEW t \in Threads, ReadReturn(t) PROVE NoDangling'
  BY <1>13 DEF ReadReturn, NoDangling, history
<1>14. ASSUME NEW t \in Threads, ReadInterrupted(t) PROVE NoDangling'
  BY <1>14 DEF ReadInterrupted, NoDangling, history
<1>15. CASE DeviceDone
  BY <1>15 DEF DeviceDone, NoDangling, history
<1>16. CASE IsrStore
  <2>1. \A x \in Ctxs : ctx'[x].state = ctx[x].state
    BY <1>16, IsrStates
  <2>2. \A x \in Ctxs : lost[x] => lost'[x]
    BY <1>16, IsrEffect DEF TypeOK
  <2> QED BY <2>1, <2>2 DEF NoDangling
<1>17. CASE Suspend
  BY <1>17 DEF Suspend, NoDangling, history
<1>18. CASE SuspendWakes
  BY <1>18 DEF SuspendWakes, NoDangling, history
<1>19. CASE Resume
  BY <1>19 DEF Resume, NoDangling, history
<1>20. CASE Remove
  BY <1>20 DEF Remove, NoDangling, history
<1>21. CASE Probe
  BY <1>21 DEF Probe, NoDangling, history
<1>22. CASE UNCHANGED vars
  BY <1>22 DEF vars, NoDangling
<1>23. CASE IsrLoad
  BY <1>23 DEF IsrLoad, NoDangling, history
<1> QED
  BY <1>1, <1>2, <1>3, <1>4, <1>5, <1>6, <1>7, <1>8, <1>9, <1>10,
     <1>11, <1>12, <1>13, <1>14, <1>15, <1>16, <1>17, <1>18, <1>19, <1>20,
     <1>21, <1>22, <1>23
  DEF Next, Thread

-----------------------------------------------------------------------------
(* The sums.                                                               *)

(* What is chained depends on the list, what its buffers carry and for     *)
(* whom, the sum and the number of chunks submitted.                       *)
LEMMA ChainedKept ==
  ASSUME NEW c \in Ctxs, Chained(c), running' = running,
         wrote'[c] = wrote[c], ctx'[c].sum = ctx[c].sum,
         \A b \in OnList : buf'[b] = buf[b]
  PROVE  Chained(c)'
<1>1. \A i \in DOMAIN running : running'[i] = running[i] /\ running[i] \in OnList
  BY DEF OnList
<1>2. Mine(c)' = Mine(c) /\ \A i \in Mine(c) : Chunk(i)' = Chunk(i)
  BY <1>1 DEF Mine, Chunk
<1> QED BY <1>2 DEF Chained

LEMMA RightSumKept ==
  ASSUME TypeOK, HardwareFollows, RightSum, running' = running,
         hw'.sum = hw.sum, hw'.work = hw.work, hw'.intr => hw.intr,
         \A b \in OnList : /\ buf'[b] = buf[b]
                           /\ ctx'[buf[b].ctx].sum = ctx[buf[b].ctx].sum
  PROVE  RightSum'
<1> SUFFICES ASSUME hw'.work # NoBuf \/ hw'.intr PROVE RightSum'
  BY DEF RightSum
<1>1. running # <<>>
  BY DEF HardwareFollows
<1>2. Head(running) \in OnList
  BY <1>1, ListHead DEF TypeOK
<1> DEFINE b == Head(running)
<1>3. /\ b = Head(running') /\ buf'[b] = buf[b]
      /\ ctx'[buf'[b].ctx].sum = ctx[buf[b].ctx].sum
  BY <1>2
<1> HIDE DEF b
<1>4. /\ hw.work # NoBuf => hw.sum = ctx[buf[b].ctx].sum
      /\ hw.intr => hw.sum = Append(ctx[buf[b].ctx].sum, buf[b].chunk)
  BY DEF RightSum, b
<1> QED BY <1>3, <1>4 DEF RightSum

(* Steps that leave sums, list and buffers on the list alone.              *)
Quiet ==
  /\ running' = running /\ wrote' = wrote
  /\ \A c \in Ctxs : ctx'[c].sum = ctx[c].sum
  /\ \A b \in OnList : buf'[b] = buf[b]

LEMMA QuietChains ==
  ASSUME Chains, Quiet
  PROVE  Chains'
<1> SUFFICES ASSUME NEW c \in Ctxs PROVE Chained(c)'
  BY DEF Chains
<1>1. Chained(c)
  BY DEF Chains
<1>2. /\ running' = running /\ wrote'[c] = wrote[c] /\ ctx'[c].sum = ctx[c].sum
      /\ \A b \in OnList : buf'[b] = buf[b]
  BY DEF Quiet
<1> QED BY <1>1, <1>2, ChainedKept

LEMMA QuietSum ==
  ASSUME TypeOK, Owners, HardwareFollows, RightSum, Quiet,
         hw'.sum = hw.sum, hw'.work = hw.work, hw'.intr => hw.intr
  PROVE  RightSum'
<1>1. /\ running' = running
      /\ \A b \in OnList : /\ buf'[b] = buf[b]
                           /\ ctx'[buf[b].ctx].sum = ctx[buf[b].ctx].sum
  BY DEF Quiet, Owners
<1> QED BY <1>1, RightSumKept

LEMMA QuietWhen ==
  ASSUME UNCHANGED <<running, wrote, ctx, buf>>
  PROVE  Quiet
BY DEF Quiet

(* A file just opened has nothing submitted and nothing on the list.       *)
LEMMA OpenChains ==
  ASSUME TypeOK, Owners, HardwareFollows, Chains, RightSum,
         NEW c \in Ctxs, Open(c)
  PROVE  Chains' /\ RightSum'
<1>1. /\ ctx[c].state = "closed"
      /\ ctx' = [ctx EXCEPT ![c] = NewContext("open")]
      /\ wrote' = [wrote EXCEPT ![c] = 0]
      /\ UNCHANGED <<buf, running, hw>>
  BY DEF Open
<1>2. \A b \in OnList : b \in Buffers /\ buf[b].ctx \in Ctxs /\ buf[b].ctx # c
  BY <1>1, ListHead DEF Owners, TypeOK
<1>3. \A x \in Ctxs : x # c => ctx'[x] = ctx[x] /\ wrote'[x] = wrote[x]
  BY <1>1 DEF TypeOK
<1>4. ctx'[c].sum = <<>> /\ wrote'[c] = 0
  BY <1>1 DEF TypeOK, NewContext
<1>5. Mine(c)' = {}
  BY <1>1, <1>2 DEF Mine, OnList
<1>6. Chained(c)'
  <2>1. Len(ctx'[c].sum) = 0 /\ 1 .. 0 = {}
    BY <1>4
  <2>2. <<>> = [k \in 1 .. 0 |-> k]
    OBVIOUS
  <2> QED BY <1>4, <1>5, <2>1, <2>2 DEF Chained
<1>7. ASSUME NEW x \in Ctxs, x # c PROVE Chained(x)'
  BY <1>1, <1>3, <1>7, ChainedKept DEF Chains
<1>8. RightSum'
  <2>1. \A b \in OnList : /\ buf'[b] = buf[b]
                          /\ ctx'[buf[b].ctx].sum = ctx[buf[b].ctx].sum
    BY <1>1, <1>2, <1>3
  <2> QED BY <1>1, <2>1, RightSumKept
<1> QED BY <1>6, <1>7, <1>8 DEF Chains

(* A chunk submitted is the next one of its file and the last on the list. *)
LEMMA SubmitChains ==
  ASSUME TypeOK, LocalsOK, Pool, Owners, HardwareFollows, Chains, RightSum,
         NEW t \in Threads, Submit(t)
  PROVE  Chains' /\ RightSum'
<1> DEFINE b == thr[t].buf
<1>0. PICK c \in Ctxs, L \in Nat : c = thr[t].ctx /\ L = Len(running)
  <2>1. Len(running) \in Nat
    BY DEF TypeOK
  <2>2. thr[t].ctx \in Ctxs
    BY SubmitEffect
  <2> QED BY <2>1, <2>2
<1>1. /\ pc[t] = "submit" /\ b \in Buffers /\ c \in Ctxs /\ b \notin OnList
      /\ running' # <<>>
      /\ Head(running') = IF running = <<>> THEN b ELSE Head(running)
      /\ hw'.intr = hw.intr
      /\ buf' = [buf EXCEPT ![b].chunk = wrote[c] + 1]
      /\ wrote' = [wrote EXCEPT ![c] = wrote[c] + 1]
      /\ ctx' = ctx
  BY <1>0, SubmitEffect
<1>2. buf[b].ctx = c
  BY <1>0, <1>1 DEF Owners, Owning
<1>3. /\ running \in Seq(Buffers) /\ running' = Append(running, b)
      /\ hw' = IF running = <<>> THEN Start(hw, b, ctx[c].sum) ELSE hw
  BY <1>0 DEF TypeOK, Submit
<1>4. wrote[c] \in Nat /\ \A x \in Ctxs : ctx[x].sum \in Seq(Nat)
  BY <1>1 DEF TypeOK, Context
<1>5. \A e \in Buffers : /\ e # b => buf'[e] = buf[e]
                         /\ buf'[e].ctx = buf[e].ctx
  BY <1>1 DEF TypeOK, Buffer
<1>6. buf'[b].chunk = wrote[c] + 1
  BY <1>1 DEF TypeOK, Buffer
<1>7. \A x \in Ctxs : wrote'[x] = IF x = c THEN wrote[c] + 1 ELSE wrote[x]
  BY <1>1 DEF TypeOK
<1> HIDE DEF b
<1>8. /\ L \in Nat
      /\ DOMAIN running = 1 .. L
      /\ DOMAIN running' = 1 .. L + 1
      /\ \A i \in 1 .. L : running'[i] = running[i]
      /\ running'[L + 1] = b
  BY <1>0, <1>1, <1>3
<1>9. \A i \in 1 .. L : running[i] \in Buffers /\ running[i] # b
  BY <1>1, <1>3, <1>8 DEF OnList
<1>10. \A i \in 1 .. L : buf'[running'[i]] = buf[running[i]]
  BY <1>5, <1>8, <1>9
<1>11. ASSUME NEW x \in Ctxs, x # c PROVE Chained(x)'
  <2>1. Mine(x)' = Mine(x)
    <3>1. L + 1 \notin Mine(x)'
      BY <1>1, <1>2, <1>5, <1>8, <1>11 DEF Mine
    <3>2. \A i \in 1 .. L : i \in Mine(x)' <=> i \in Mine(x)
      BY <1>8, <1>10 DEF Mine
    <3>3. Mine(x)' \subseteq 1 .. L + 1 /\ Mine(x) \subseteq 1 .. L
      BY <1>8 DEF Mine
    <3>4. \A i \in 1 .. L + 1 : i = L + 1 \/ i \in 1 .. L
      BY <1>8
    <3> QED BY <3>1, <3>2, <3>3, <3>4
  <2>2. \A i \in Mine(x) : Chunk(i)' = Chunk(i)
    BY <1>8, <1>10 DEF Chunk, Mine
  <2>3. Chained(x) /\ wrote'[x] = wrote[x] /\ ctx'[x] = ctx[x]
    BY <1>1, <1>7, <1>11 DEF Chains
  <2> QED BY <2>1, <2>2, <2>3 DEF Chained
<1>12. Chained(c)'
  <2> DEFINE n == Len(ctx[c].sum)
             w == wrote[c]
  <2>1. n \in Nat /\ w \in Nat
    BY <1>1, <1>4
  <2>2. /\ n <= w
        /\ ctx[c].sum = [k \in 1 .. n |-> k]
        /\ \A i \in Mine(c) : Chunk(i) \in n + 1 .. w
        /\ \A k \in n + 1 .. w : \E i \in Mine(c) : Chunk(i) = k
        /\ \A i, j \in Mine(c) : i < j => Chunk(i) < Chunk(j)
    BY <1>1 DEF Chains, Chained
  <2>3. Mine(c)' = Mine(c) \cup {L + 1} /\ Mine(c) \subseteq 1 .. L
    <3>1. L + 1 \in Mine(c)'
      BY <1>1, <1>2, <1>5, <1>8 DEF Mine
    <3>2. \A i \in 1 .. L : i \in Mine(c)' <=> i \in Mine(c)
      BY <1>8, <1>10 DEF Mine
    <3>3. Mine(c)' \subseteq 1 .. L + 1 /\ Mine(c) \subseteq 1 .. L
      BY <1>8 DEF Mine
    <3>4. \A i \in 1 .. L + 1 : i = L + 1 \/ i \in 1 .. L
      BY <1>8
    <3> QED BY <3>1, <3>2, <3>3, <3>4
  <2>4. /\ \A i \in Mine(c) : Chunk(i)' = Chunk(i)
        /\ Chunk(L + 1)' = w + 1
    BY <1>6, <1>8, <1>10 DEF Chunk, Mine
  <2>5. wrote'[c] = w + 1 /\ ctx'[c].sum = ctx[c].sum
    BY <1>1, <1>7
  <2> HIDE DEF n, w
  <2>6. \A i \in Mine(c)' : Chunk(i)' \in n + 1 .. w + 1
    BY <2>1, <2>2, <2>3, <2>4
  <2>7. \A k \in n + 1 .. w + 1 : \E i \in Mine(c)' : Chunk(i)' = k
    <3> SUFFICES ASSUME NEW k \in n + 1 .. w + 1
                 PROVE  \E i \in Mine(c)' : Chunk(i)' = k
      OBVIOUS
    <3>1. CASE k = w + 1
      BY <2>3, <2>4, <3>1
    <3>2. CASE k # w + 1
      BY <2>1, <2>2, <2>3, <2>4, <3>2
    <3> QED BY <3>1, <3>2
  <2>8. ASSUME NEW i \in Mine(c)', NEW j \in Mine(c)', i < j
        PROVE  Chunk(i)' < Chunk(j)'
    <3>1. i \in 1 .. L + 1 /\ j \in 1 .. L + 1 /\ L \in Nat
      BY <1>8, <2>3
    <3>2. i \in Mine(c)
      BY <2>3, <2>8, <3>1
    <3>3. CASE j = L + 1
      BY <2>1, <2>2, <2>4, <3>2, <3>3
    <3>4. CASE j # L + 1
      BY <2>2, <2>3, <2>4, <2>8, <3>2, <3>4
    <3> QED BY <3>3, <3>4
  <2>9. n <= w + 1
    BY <2>1, <2>2
  <2>10. n = Len(ctx'[c].sum)
    BY <2>5 DEF n
  <2> QED BY <2>2, <2>5, <2>6, <2>7, <2>8, <2>9, <2>10 DEF Chained
<1>13. RightSum'
  <2>1. CASE running = <<>>
    <3>1. ~hw.intr /\ hw'.sum = ctx[c].sum
      BY <1>3, <2>1 DEF HardwareFollows, TypeOK, Registers, Start
    <3>2. Head(running') = b /\ buf'[b].ctx = c
      BY <1>1, <1>2, <1>5, <2>1
    <3> QED BY <1>1, <3>1, <3>2 DEF RightSum
  <2>2. CASE running # <<>>
    <3>1. Head(running') = Head(running) /\ hw' = hw
      BY <1>1, <1>3, <2>2
    <3>2. buf'[Head(running)] = buf[Head(running)]
      <4>1. Head(running) \in OnList /\ Head(running) \in Buffers
        BY <1>3, <2>2, ListHead
      <4> QED BY <1>1, <1>5, <4>1
    <3> QED BY <1>1, <3>1, <3>2 DEF RightSum
  <2> QED BY <2>1, <2>2
<1> QED BY <1>11, <1>12, <1>13 DEF Chains

(* The buffer that ends is the oldest of its file: its chunk is the next   *)
(* of the sum.  The next buffer starts with the sum of its own file.       *)
LEMMA IsrChains ==
  ASSUME TypeOK, LocalsOK, Pool, Owners, HardwareFollows, HandlerOK, Chains,
         RightSum, IsrStore
  PROVE  Chains' /\ RightSum'
<1> DEFINE b == Head(running)
<1>0. PICK c \in Ctxs, L \in Nat : c = buf[b].ctx /\ L = Len(running)
  <2>1. Len(running) \in Nat
    BY DEF TypeOK
  <2>2. buf[b].ctx \in Ctxs
    BY IsrEffect
  <2> QED BY <2>1, <2>2
<1> DEFINE done == [ctx EXCEPT ![c].pending = isr.tmp - 1,
                               ![c].sum = hw.sum]
<1>1. /\ running # <<>> /\ b \in Buffers /\ c \in Ctxs
      /\ OnList' = OnList \ {b}
      /\ buf' = [buf EXCEPT ![b].ctx = NoCtx]
      /\ ctx' = done
      /\ hw'.intr = FALSE
      /\ hw'.work = IF running' = <<>> THEN NoBuf ELSE Head(running')
      /\ wrote' = wrote
  BY <1>0, IsrEffect
<1>2. /\ running \in Seq(Buffers) /\ running' = Tail(running)
      /\ hw.intr /\ hw' = RunNext([hw EXCEPT !.intr = FALSE], running', done)
      /\ NoRepeat
  BY <1>0 DEF TypeOK, IsrStore, HandlerOK, Pool
<1>3. hw.sum = Append(ctx[c].sum, buf[b].chunk)
  BY <1>0, <1>2 DEF RightSum
<1>4. \A x \in Ctxs : /\ ctx[x].sum \in Seq(Nat)
                      /\ wrote[x] \in Nat /\ wrote'[x] = wrote[x]
                      /\ x # c => ctx'[x] = ctx[x]
  BY <1>1 DEF TypeOK, Context
<1>5. ctx'[c].sum = hw.sum
  BY <1>1 DEF TypeOK, Context
<1>6. \A e \in Buffers : /\ e # b => buf'[e] = buf[e]
  BY <1>1 DEF TypeOK, Buffer
<1>7. RightSum'
  <2> SUFFICES ASSUME running' # <<>>
               PROVE  hw'.sum = ctx'[buf'[Head(running')].ctx].sum
    BY <1>1 DEF RightSum
  <2> DEFINE x == Head(running')
  <2>1. x \in OnList' /\ x \in Buffers
    <3>1. running' \in Seq(Buffers)
      BY <1>2
    <3>2. 1 \in DOMAIN running' /\ x = running'[1] /\ x \in Buffers
      BY <3>1
    <3> QED BY <3>2 DEF OnList
  <2>2. buf'[x] = buf[x]
    BY <1>1, <1>6, <2>1
  <2> HIDE DEF x, done
  <2>3. hw'.sum = done[buf[x].ctx].sum
    BY <1>2 DEF RunNext, Start, TypeOK, Registers, x
  <2> QED BY <1>1, <2>2, <2>3 DEF x
<1> HIDE DEF done
<1>8. /\ L \in Nat \ {0} /\ b = running[1]
      /\ DOMAIN running = 1 .. L
      /\ DOMAIN running' = 1 .. L - 1
      /\ \A i \in 1 .. L - 1 : running'[i] = running[i + 1]
      /\ \A i \in 1 .. L : running[i] \in Buffers
  BY <1>0, <1>1, <1>2
<1>9. 1 \in Mine(c) /\ Chunk(1) = buf[b].chunk
  BY <1>0, <1>8 DEF Mine, Chunk
<1>10. \A x \in Ctxs : Mine(x) \subseteq 1 .. L /\ (x # c => 1 \notin Mine(x))
  BY <1>0, <1>8 DEF Mine
<1> HIDE DEF b
<1>11. \A i \in 1 .. L - 1 : buf'[running'[i]] = buf[running[i + 1]]
  <2> SUFFICES ASSUME NEW i \in 1 .. L - 1
               PROVE  buf'[running'[i]] = buf[running[i + 1]]
    OBVIOUS
  <2>1. i + 1 \in 1 .. L /\ 1 \in 1 .. L /\ i + 1 # 1
    BY <1>8
  <2>2. running[i + 1] # b /\ running[i + 1] \in Buffers
    BY <1>2, <1>8, <2>1 DEF NoRepeat
  <2> QED BY <1>6, <1>8, <2>2
<1>12. \A x \in Ctxs : /\ Mine(x)' \subseteq 1 .. L - 1
                       /\ \A i \in 1 .. L - 1 :
                            i \in Mine(x)' <=> i + 1 \in Mine(x)
  <2>1. \A i \in 1 .. L - 1 : i + 1 \in 1 .. L
    BY <1>8
  <2> QED BY <1>8, <1>11, <2>1 DEF Mine
<1>13. \A i \in 1 .. L - 1 : Chunk(i)' = Chunk(i + 1)
  BY <1>11 DEF Chunk
<1>14. ASSUME NEW x \in Ctxs
       PROVE  \A j \in Mine(x) : j # 1 =>
                /\ j - 1 \in 1 .. L - 1 /\ j - 1 \in Mine(x)'
                /\ Chunk(j - 1)' = Chunk(j)
  <2> SUFFICES ASSUME NEW j \in Mine(x), j # 1
               PROVE  /\ j - 1 \in 1 .. L - 1 /\ j - 1 \in Mine(x)'
                      /\ Chunk(j - 1)' = Chunk(j)
    OBVIOUS
  <2>1. j \in 1 .. L /\ L \in Nat
    BY <1>8, <1>10
  <2>2. j - 1 \in 1 .. L - 1 /\ (j - 1) + 1 = j
    BY <2>1
  <2> QED BY <1>12, <1>13, <2>2
<1>15. ASSUME NEW x \in Ctxs
       PROVE  \A i \in Mine(x)' : /\ i \in 1 .. L - 1 /\ i + 1 \in Mine(x)
                                  /\ Chunk(i)' = Chunk(i + 1)
  BY <1>12, <1>13
<1>16. ASSUME NEW x \in Ctxs
       PROVE  \A i, j \in Mine(x)' : i < j => Chunk(i)' < Chunk(j)'
  <2> SUFFICES ASSUME NEW i \in Mine(x)', NEW j \in Mine(x)', i < j
               PROVE  Chunk(i)' < Chunk(j)'
    OBVIOUS
  <2>1. i + 1 \in Mine(x) /\ j + 1 \in Mine(x) /\ i + 1 < j + 1
    BY <1>8, <1>15
  <2>2. Chunk(i + 1) < Chunk(j + 1)
    BY <2>1 DEF Chains, Chained
  <2> QED BY <1>15, <2>2
<1>17. ASSUME NEW x \in Ctxs, x # c PROVE Chained(x)'
  <2> DEFINE n == Len(ctx[x].sum)
             w == wrote[x]
  <2>1. /\ n <= w
        /\ ctx[x].sum = [k \in 1 .. n |-> k]
        /\ \A i \in Mine(x) : Chunk(i) \in n + 1 .. w
        /\ \A k \in n + 1 .. w : \E i \in Mine(x) : Chunk(i) = k
    BY DEF Chains, Chained
  <2>2. wrote'[x] = w /\ ctx'[x].sum = ctx[x].sum /\ n = Len(ctx'[x].sum)
    BY <1>4, <1>17
  <2>3. 1 \notin Mine(x)
    BY <1>10, <1>17
  <2> HIDE DEF n, w
  <2>4. \A i \in Mine(x)' : Chunk(i)' \in n + 1 .. w
    BY <1>15, <2>1
  <2>5. \A k \in n + 1 .. w : \E i \in Mine(x)' : Chunk(i)' = k
    <3> SUFFICES ASSUME NEW k \in n + 1 .. w
                 PROVE  \E i \in Mine(x)' : Chunk(i)' = k
      OBVIOUS
    <3>1. PICK j \in Mine(x) : Chunk(j) = k
      BY <2>1
    <3>2. j - 1 \in Mine(x)' /\ Chunk(j - 1)' = k
      BY <1>14, <2>3, <3>1
    <3> QED BY <3>2
  <2> QED BY <1>16, <2>1, <2>2, <2>4, <2>5 DEF Chained
<1>18. Chained(c)'
  <2> DEFINE n == Len(ctx[c].sum)
             w == wrote[c]
  <2>0. c \in Ctxs /\ n \in Nat /\ w \in Nat
    BY <1>4
  <2>1. /\ n <= w
        /\ ctx[c].sum = [k \in 1 .. n |-> k]
        /\ \A i \in Mine(c) : Chunk(i) \in n + 1 .. w
        /\ \A k \in n + 1 .. w : \E i \in Mine(c) : Chunk(i) = k
        /\ \A i, j \in Mine(c) : i < j => Chunk(i) < Chunk(j)
    BY <2>0 DEF Chains, Chained
  <2>2. \A j \in Mine(c) : j # 1 => 1 < j
    BY <1>8, <1>10, <2>0
  <2>3. Chunk(1) = n + 1
    <3>1. Chunk(1) \in n + 1 .. w
      BY <1>9, <2>1
    <3>2. n + 1 \in n + 1 .. w
      BY <2>0, <3>1
    <3>3. PICK j \in Mine(c) : Chunk(j) = n + 1
      BY <2>1, <3>2
    <3>4. j # 1 => Chunk(1) < Chunk(j)
      BY <1>9, <2>1, <2>2
    <3> QED BY <2>0, <3>1, <3>3, <3>4
  <2>4. n + 1 <= w
    BY <1>9, <2>0, <2>1, <2>3
  <2>5. ctx'[c].sum = Append(ctx[c].sum, n + 1)
    BY <1>3, <1>5, <1>9, <2>3
  <2>6. Len(ctx'[c].sum) = n + 1
    BY <1>4, <2>0, <2>5
  <2>7. ctx'[c].sum = [k \in 1 .. n + 1 |-> k]
    <3> HIDE DEF n
    <3>1. Append([k \in 1 .. n |-> k], n + 1) = [k \in 1 .. n + 1 |-> k]
      BY <2>0
    <3> QED BY <2>1, <2>5, <3>1
  <2>8. wrote'[c] = w
    BY <1>4, <2>0
  <2> HIDE DEF n, w
  <2>9. \A i \in Mine(c)' : Chunk(i)' \in n + 2 .. w
    <3> SUFFICES ASSUME NEW i \in Mine(c)' PROVE Chunk(i)' \in n + 2 .. w
      OBVIOUS
    <3>1. i + 1 \in Mine(c) /\ Chunk(i)' = Chunk(i + 1) /\ i + 1 # 1
      BY <1>8, <1>15, <2>0
    <3>2. Chunk(1) < Chunk(i + 1) /\ Chunk(i + 1) \in n + 1 .. w
      BY <1>9, <2>1, <2>2, <3>1
    <3> QED BY <2>0, <2>3, <3>1, <3>2
  <2>10. \A k \in n + 2 .. w : \E i \in Mine(c)' : Chunk(i)' = k
    <3> SUFFICES ASSUME NEW k \in n + 2 .. w
                 PROVE  \E i \in Mine(c)' : Chunk(i)' = k
      OBVIOUS
    <3>1. k \in n + 1 .. w /\ k # n + 1
      BY <2>0
    <3>2. PICK j \in Mine(c) : Chunk(j) = k
      BY <2>1, <3>1
    <3>3. j # 1
      BY <2>3, <3>1, <3>2
    <3>4. j - 1 \in Mine(c)' /\ Chunk(j - 1)' = k
      BY <1>14, <2>0, <3>2, <3>3
    <3> QED BY <3>4
  <2>11. (n + 1) + 1 = n + 2
    BY <2>0
  <2> QED
    BY <1>16, <2>0, <2>4, <2>6, <2>7, <2>8, <2>9, <2>10, <2>11 DEF Chained
<1> QED BY <1>7, <1>17, <1>18 DEF Chains

LEMMA ChainsStep ==
  ASSUME TypeOK, LocalsOK, Pool, Owners, HardwareFollows, Gone, HandlerOK,
         Chains, RightSum, [Next]_vars
  PROVE  Chains' /\ RightSum'
<1> USE DEF history
<1>0. ASSUME Quiet, hw' = hw PROVE Chains' /\ RightSum'
  BY <1>0, QuietChains, QuietSum
<1>1. ASSUME NEW c \in Ctxs, Open(c) PROVE Chains' /\ RightSum'
  BY <1>1, OpenChains
<1>2. ASSUME NEW c \in Ctxs, Release(c) PROVE Chains' /\ RightSum'
  <2>1. \A x \in Ctxs : ctx'[x].sum = ctx[x].sum
    BY <1>2 DEF Release, TypeOK, Context
  <2>2. UNCHANGED <<running, wrote, buf, hw>>
    BY <1>2 DEF Release
  <2> QED BY <1>0, <2>1, <2>2 DEF Quiet
<1>3. ASSUME NEW c \in Ctxs, ReleaseReturn(c) PROVE Chains' /\ RightSum'
  <2>1. \A x \in Ctxs : ctx'[x].sum = ctx[x].sum
    BY <1>3 DEF ReleaseReturn, TypeOK, Context
  <2>2. UNCHANGED <<running, wrote, buf, hw>>
    BY <1>3 DEF ReleaseReturn
  <2> QED BY <1>0, <2>1, <2>2 DEF Quiet
<1>4. ASSUME NEW t \in Threads, NEW c \in Ctxs,
             NEW n \in 1 .. MaxChunks, Write(t, c, n)
      PROVE  Chains' /\ RightSum'
  BY <1>4, <1>0, QuietWhen DEF Write
<1>5. ASSUME NEW t \in Threads,
             GetBuffer(t) \/ GetInterrupted(t) \/ FillFails(t) \/ CountLoad(t)
      PROVE  Chains' /\ RightSum'
  BY <1>5, <1>0, QuietWhen
     DEF GetBuffer, GetInterrupted, FillFails, CountLoad
<1>6. ASSUME NEW t \in Threads, Fill(t) PROVE Chains' /\ RightSum'
  <2>1. /\ UNCHANGED <<running, wrote, ctx, hw>>
        /\ buf' = [buf EXCEPT ![thr[t].buf].ctx = thr[t].ctx]
    BY <1>6 DEF Fill
  <2>2. thr[t].buf \notin OnList /\ OnList \subseteq Buffers
    BY ListHead DEF Pool, TypeOK
  <2>3. \A b \in OnList : buf'[b] = buf[b]
    BY <2>1, <2>2 DEF TypeOK
  <2> QED BY <1>0, <2>1, <2>3 DEF Quiet
<1>7. ASSUME NEW t \in Threads, CountStore(t) PROVE Chains' /\ RightSum'
  <2>1. \A x \in Ctxs : ctx'[x].sum = ctx[x].sum
    BY <1>7 DEF CountStore, TypeOK, Context
  <2>2. UNCHANGED <<running, wrote, buf, hw>>
    BY <1>7 DEF CountStore
  <2> QED BY <1>0, <2>1, <2>2 DEF Quiet
<1>8. ASSUME NEW t \in Threads, Submit(t) PROVE Chains' /\ RightSum'
  BY <1>8, SubmitChains
<1>9. ASSUME NEW t \in Threads, NEW c \in Ctxs, Read(t, c)
      PROVE  Chains' /\ RightSum'
  BY <1>9, <1>0, QuietWhen DEF Read
<1>10. ASSUME NEW t \in Threads, ReadReturn(t) \/ ReadInterrupted(t)
       PROVE  Chains' /\ RightSum'
  BY <1>10, <1>0, QuietWhen DEF ReadReturn, ReadInterrupted
<1>11. CASE DeviceDone
  <2>1. Quiet
    BY <1>11, QuietWhen DEF DeviceDone
  <2>2. /\ hw.work = Head(running) /\ hw'.work = NoBuf
        /\ hw'.sum = Append(hw.sum, buf[hw.work].chunk)
        /\ UNCHANGED <<ctx, buf, running>>
    BY <1>11 DEF DeviceDone, HardwareFollows, TypeOK, Registers
  <2>3. hw.sum = ctx[buf[Head(running)].ctx].sum
    BY <1>11 DEF DeviceDone, RightSum
  <2>4. RightSum'
    BY <2>2, <2>3 DEF RightSum
  <2> QED BY <2>1, <2>4, QuietChains
<1>12. CASE IsrStore
  BY <1>12, IsrChains
<1>13. CASE Suspend \/ SuspendWakes \/ Remove
  <2>1. Quiet
    BY <1>13, QuietWhen DEF Suspend, SuspendWakes, Remove
  <2>2. hw'.sum = hw.sum /\ hw'.work = hw.work /\ hw'.intr = hw.intr
    BY <1>13
       DEF Suspend, SuspendWakes, SuspendOrSleep, Remove, TypeOK, Registers
  <2> QED BY <2>1, <2>2, QuietChains, QuietSum
<1>14. CASE Resume
  <2>1. Quiet
    BY <1>14, QuietWhen DEF Resume
  <2>2. hw'.sum = hw.sum /\ hw'.work = hw.work /\ hw'.intr = FALSE
    BY <1>14 DEF Resume, TypeOK, Registers
  <2> QED BY <2>1, <2>2, QuietChains, QuietSum
<1>15. CASE Probe
  <2>1. /\ running = <<>> /\ running' = running /\ wrote' = wrote /\ ctx' = ctx
    BY <1>15 DEF Probe, Gone
  <2>2. OnList = {}
    BY <2>1, ListHead DEF TypeOK
  <2>3. Quiet
    BY <2>1, <2>2 DEF Quiet
  <2>4. hw'.sum = hw.sum /\ hw'.work = hw.work /\ hw'.intr = FALSE
    BY <1>15 DEF Probe, TypeOK, Registers
  <2> QED BY <2>3, <2>4, QuietChains, QuietSum
<1>16. CASE UNCHANGED vars
  BY <1>16, <1>0, QuietWhen DEF vars
<1>17. CASE IsrLoad
  BY <1>17, <1>0, QuietWhen DEF IsrLoad
<1> QED
  BY <1>1, <1>2, <1>3, <1>4, <1>5, <1>6, <1>7, <1>8, <1>9, <1>10,
     <1>11, <1>12, <1>13, <1>14, <1>15, <1>16, <1>17
  DEF Next, Thread

-----------------------------------------------------------------------------
LEMMA InitIInv == Init => IInv
<1> SUFFICES ASSUME Init PROVE IInv
  OBVIOUS
<1>0. OnList = {} /\ NoRepeat
  BY DEF Init, OnList, NoRepeat
<1>1. TypeOK
  <2>1. ctx \in [Ctxs -> Context] /\ thr \in [Threads -> Locals]
    BY DEF Init, Context, NoContext, NewContext, Locals, NoLocals, NewLocals
  <2>2. buf \in [Buffers -> Buffer] /\ hw \in Registers
    BY DEF Init, Buffer, InitialRegisters, Registers
  <2>3. /\ free \subseteq Buffers /\ running \in Seq(Buffers)
        /\ pc \in [Threads -> Labels]
        /\ asked \in [Ctxs -> Nat] /\ wrote \in [Ctxs -> Nat]
    BY DEF Init, Labels
  <2>4. isr \in Handler
    BY DEF Init, NoHandler, Handler
  <2> QED BY <2>1, <2>2, <2>3, <2>4 DEF Init, TypeOK
<1>2. LocalsOK /\ Gone
  BY DEF Init, LocalsOK, Gone, Holds, Writing, NoLocals, NewLocals
<1>3. Pool
  BY <1>0, AdlerAssumption DEF Init, Pool, NoLocals, NewLocals
<1>4. Owners
  BY <1>0, AdlerAssumption DEF Init, Owners, Owning
<1>5. HardwareFollows
  BY DEF Init, HardwareFollows, InitialRegisters
<1>6. NoDangling
  BY DEF Init, NoDangling, NoContext, NewContext
<1>7. PendingExact
  BY DEF Init, PendingExact, NoContext, NewContext
<1>8. RightSum /\ HandlerOK
  BY DEF Init, RightSum, HandlerOK, InitialRegisters, NoHandler
<1>9. Chains
  <2> SUFFICES ASSUME NEW c \in Ctxs PROVE Chained(c)
    BY DEF Chains
  <2>1. /\ ctx[c].sum = <<>> /\ wrote[c] = 0 /\ Mine(c) = {}
        /\ Len(<<>>) = 0 /\ 1 .. 0 = {} /\ <<>> = [k \in 1 .. 0 |-> k]
    BY DEF Init, NoContext, NewContext, Mine
  <2> QED BY <2>1 DEF Chained
<1> QED BY <1>1, <1>2, <1>3, <1>4, <1>5, <1>6, <1>7, <1>8, <1>9 DEF IInv

LEMMA NextIInv == IInv /\ [Next]_vars => IInv'
<1> SUFFICES ASSUME IInv, [Next]_vars PROVE IInv'
  OBVIOUS
<1>1. /\ TypeOK /\ LocalsOK /\ Pool /\ Owners /\ HardwareFollows /\ Gone
      /\ HandlerOK /\ PendingExact /\ NoDangling /\ RightSum /\ Chains
  BY DEF IInv
<1>2. TypeOK' /\ LocalsOK' /\ Pool' /\ Owners'
  BY <1>1, TypeStep, LocalsStep, PoolStep, OwnersStep
<1>3. HardwareFollows' /\ Gone' /\ PendingExact' /\ NoDangling'
  BY <1>1, HardwareStep, GoneStep, PendingStep, DanglingStep
<1>4. Chains' /\ RightSum' /\ HandlerOK'
  BY <1>1, ChainsStep, HandlerStep
<1> QED BY <1>2, <1>3, <1>4 DEF IInv

-----------------------------------------------------------------------------
(* The state of the driver is well typed, for any number of files, threads *)
(* and buffers: no buffer of the list is missing and no sum is lost.       *)
THEOREM AdlerTypeCorrect == Spec => []TypeOK
<1>1. IInv => TypeOK
  BY DEF IInv
<1> QED BY <1>1, InitIInv, NextIInv, PTL DEF Spec

(* Every buffer is in exactly one of buffers_free, the hands of one writer *)
(* and buffers_running.                                                    *)
THEOREM PoolAlwaysConserved == Spec => []PoolConserved
<1>1. IInv => PoolConserved
  <2> SUFFICES ASSUME IInv, NEW b \in Buffers
               PROVE  PoolConserved!(b)
    BY DEF PoolConserved
  <2>1. Pool /\ LocalsOK
    BY DEF IInv
  <2>2. \A i \in DOMAIN running : running[i] \in OnList
    BY DEF OnList
  <2>3. b \in free \/ (\E t \in Threads : Holds(t) /\ thr[t].buf = b)
                   \/ (\E i \in DOMAIN running : running[i] = b)
    BY <2>1, AdlerAssumption DEF Pool, LocalsOK, OnList
  <2>4. b \in free => /\ \A i \in DOMAIN running : running[i] # b
                      /\ \A t \in Threads : thr[t].buf # b
    BY <2>1, <2>2 DEF Pool
  <2>5. \A i \in DOMAIN running : running[i] = b =>
          /\ \A j \in DOMAIN running : running[j] = b => i = j
          /\ \A t \in Threads : thr[t].buf # b
    BY <2>1, <2>2 DEF Pool, NoRepeat
  <2>6. \A t, u \in Threads : thr[t].buf = b /\ thr[u].buf = b => t = u
    BY <2>1 DEF Pool
  <2> QED BY <2>3, <2>4, <2>5, <2>6
<1> QED BY <1>1, InitIInv, NextIInv, PTL DEF Spec

(* The device works on the head of buffers_running; the BUG_ON of the      *)
(* interrupt handler is never reached.                                     *)
THEOREM HardwareAlwaysFollows == Spec => []HardwareFollows
<1>1. IInv => HardwareFollows
  BY DEF IInv
<1> QED BY <1>1, InitIInv, NextIInv, PTL DEF Spec

(* pending_buffers counts exactly, as long as neither the unlocked         *)
(* increment of a writer nor the decrement of the handler has overwritten  *)
(* the other.                                                              *)
THEOREM PendingAlwaysExact == Spec => []PendingExact
<1>1. IInv => PendingExact
  BY DEF IInv
<1> QED BY <1>1, InitIInv, NextIInv, PTL DEF Spec

(* release frees a context under a running buffer only after an increment  *)
(* or a decrement of its count was lost.                                   *)
THEOREM NeverDangling == Spec => []NoDangling
<1>1. IInv => NoDangling
  BY DEF IInv
<1> QED BY <1>1, InitIInv, NextIInv, PTL DEF Spec

(* However files alternate on the device, the chunks of each are summed in *)
(* the order in which they were submitted, each one once and into its own  *)
(* file.                                                                   *)
THEOREM SumsAlwaysChain == Spec => []SumChain
<1>1. IInv => SumChain
  BY DEF IInv, Chains, SumChain
<1> QED BY <1>1, InitIInv, NextIInv, PTL DEF Spec

(* A read that returns has every chunk submitted for its file in the sum,  *)
(* as long as no increment or decrement of pending_buffers was lost.       *)
THEOREM ReadsAreComplete == Spec => ReadComplete
<1>1. ASSUME IInv, NEW t \in Threads, ReadReturn(t), lost[thr[t].ctx] = FALSE
      PROVE  Len(ctx[thr[t].ctx].sum) = wrote[thr[t].ctx]
  <2> DEFINE c == thr[t].ctx
  <2>1. /\ TypeOK /\ LocalsOK /\ Owners /\ PendingExact /\ Chains
    BY <1>1 DEF IInv
  <2>2. pc[t] = "read" /\ ctx[c].pending = 0
    BY <1>1 DEF ReadReturn
  <2>3. c \in Ctxs /\ ctx[c].state = "open"
    BY <2>1, <2>2 DEF LocalsOK
  <2>4. Cardinality(Counted(c)) = 0
    BY <1>1, <2>1, <2>2, <2>3 DEF PendingExact
  <2>5. Counted(c) = {}
    BY <2>1, <2>3, <2>4, CountedFinite, FS_EmptySet
  <2>6. Mine(c) = {}
    <3> SUFFICES ASSUME NEW i \in Mine(c) PROVE FALSE
      OBVIOUS
    <3>1. i \in DOMAIN running /\ running[i] \in Buffers
          /\ buf[running[i]].ctx = c
      BY <2>1 DEF Mine, TypeOK
    <3>2. running[i] \in Counted(c)
      BY <3>1 DEF Counted
    <3> QED BY <2>5, <3>2
  <2>7. Len(ctx[c].sum) \in Nat /\ wrote[c] \in Nat
    BY <2>1, <2>3 DEF TypeOK, Context
  <2>8. /\ Len(ctx[c].sum) <= wrote[c]
        /\ \A k \in Len(ctx[c].sum) + 1 .. wrote[c] : k \in {}
    BY <2>1, <2>3, <2>6 DEF Chains, Chained
  <2> HIDE DEF c
  <2>9. Len(ctx[c].sum) = wrote[c]
    <3> DEFINE n == Len(ctx[c].sum)
               w == wrote[c]
    <3>1. n \in Nat /\ w \in Nat /\ n <= w /\ \A k \in n + 1 .. w : k \in {}
      BY <2>7, <2>8
    <3> HIDE DEF n, w
    <3>2. ~(n + 1 <= w)
      BY <3>1
    <3>3. n = w
      BY <3>1, <3>2
    <3> QED BY <3>3 DEF n, w
  <2> QED BY <2>9 DEF c
<1>2. ASSUME IInv, [Next]_vars
      PROVE  [\A t \in Threads : LET c == thr[t].ctx IN
                ReadReturn(t) /\ ~lost[c] => Len(ctx[c].sum) = wrote[c]]_vars
  <2> SUFFICES ASSUME NEW t \in Threads, ReadReturn(t), ~lost[thr[t].ctx]
               PROVE  Len(ctx[thr[t].ctx].sum) = wrote[thr[t].ctx]
    OBVIOUS
  <2>1. lost[thr[t].ctx] = FALSE
    <3>1. thr[t].ctx \in Ctxs /\ lost \in [Ctxs -> BOOLEAN]
      BY <1>2 DEF IInv, LocalsOK, TypeOK, ReadReturn
    <3> QED BY <3>1
  <2> QED BY <1>1, <1>2, <2>1
<1>3. Spec => []IInv
  BY InitIInv, NextIInv, PTL DEF Spec
<1> QED BY <1>2, <1>3, PTL DEF Spec, ReadComplete
=============================================================================
