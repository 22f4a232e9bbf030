-------------------------- MODULE PlacementProofs --------------------------
(***************************************************************************)
(* Where the blocks of a request end up, for tapes, page tables and        *)
(* requests of any size: PlacementExact.  The argument follows the loop,   *)
(* then the device.  Built says what the locals of do_scatter_gather are   *)
(* after j segments, Plan what they are when the commands are handed over, *)
(* and Ran where the device is after executing some of them.               *)
(***************************************************************************)
EXTENDS ScatterGatherProofs, FiniteSetTheorems, WellFoundedInduction

(* The blocks on the tapes up to t.                                        *)
Base(t) == t * TapeBlocks

(* The request's u-th tape after the one it starts on, the request's first *)
(* block there, the position of that block, and the block that the         *)
(* transfer for this tape stops before when the plan covers x blocks.      *)
TapeNo(q, u) == StartTape(q.start) + u
FirstOn(q, u) == IF u = 0 THEN 0 ELSE Base(TapeNo(q, u) - 1) - q.start
PosOn(q, u) == IF u = 0 THEN StartBlock(q.start) ELSE 0
StopOn(q, u, x) == IF FirstOn(q, u + 1) <= x THEN FirstOn(q, u + 1) ELSE x

(* The index of that transfer in the list of commands.                     *)
Turn(u) == 4 * u + 5

(* Segment m is the one with which the loop moves on to tape u.            *)
Changes(q, m) == TapeOf(EndOf(q, m - 1)) # TapeOf(EndOf(q, m))
ChangesTo(q, m, u) ==
  /\ TapeOf(EndOf(q, m - 1)) = TapeNo(q, u) - 1
  /\ TapeOf(EndOf(q, m)) = TapeNo(q, u)

(* The entries of segment l cover one block each.                          *)
Single(q, l) ==
  IF Straddles(q, l)
  THEN /\ EndOf(q, l - 1) % TapeBlocks = TapeBlocks - 1
       /\ EndOf(q, l) % TapeBlocks = 1
  ELSE q.segs[l] = 1

-----------------------------------------------------------------------------
(* The page table lists the cells from 0 up to x in order.                 *)
EndsAt(pgt, e) == IF e = 0 THEN 0 ELSE pgt[e].addr + pgt[e].n

Contiguous(pgt, x) ==
  /\ \A e \in 1 .. Len(pgt) :
       pgt[e].n >= 1 /\ pgt[e].addr = EndsAt(pgt, e - 1)
  /\ \A e \in 0 .. Len(pgt) - 1 : EndsAt(pgt, e) < x
  /\ EndsAt(pgt, Len(pgt)) = x

(* It has an entry for a segment and two for one that straddles, so it has *)
(* as many entries as cells just when all of them are single.              *)
Tabled(q, j, a) ==
  /\ Contiguous(a.pgt, a.addr)
  /\ Len(a.pgt) = j + Cardinality({m \in 1 .. j : Straddles(q, m)})
  /\ Len(a.pgt) <= a.addr
  /\ Len(a.pgt) = a.addr <=> \A l \in 1 .. j : Single(q, l)

(* The first n commands: the setup, then a transfer and a change of tapes  *)
(* in turn.                                                                *)
Laid(q, cs, n, x) ==
  /\ n >= 4
  /\ cs[1].op = "EJECT_TAPE"
  /\ cs[2] = PlainCmd("TAKE_TAPE", TapeNo(q, 0))
  /\ cs[3].op = "REWIND"
  /\ cs[4] = PlainCmd("FAST_FWD", PosOn(q, 0))
  /\ \A u \in 0 .. n :
       Turn(u) <= n =>
         /\ IsTransfer(cs[Turn(u)])
         /\ cs[Turn(u)].arg = StopOn(q, u, x) - FirstOn(q, u)
  /\ \A u \in 1 .. n :
       /\ Turn(u) - 3 <= n => cs[Turn(u) - 3].op = "EJECT_TAPE"
       /\ Turn(u) - 2 <= n =>
            cs[Turn(u) - 2] = PlainCmd("TAKE_TAPE", TapeNo(q, u))
       /\ Turn(u) - 1 <= n => cs[Turn(u) - 1].op = "REWIND"

(* With p entries written the loop moves on to tape u: the transfer for it *)
(* will start at entry p, which is its first block if the entries are      *)
(* single and beyond it otherwise.                                         *)
Entered(q, m, u, p) ==
  /\ ChangesTo(q, m, u)
  /\ p <= FirstOn(q, u)
  /\ p = FirstOn(q, u) <=> SingleUpTo(q, m)

Ordinal(q, a) == a.tape_nbr - StartTape(q.start)

Linked(q, a, m, u, p) ==
  /\ Entered(q, m, u, p)
  /\ p <= Len(a.pgt)
  /\ u = Ordinal(q, a) => a.cmd_start_pos = p
  /\ u # Ordinal(q, a) \/ a.prev_tape_nbr = a.tape_nbr => p < Len(a.pgt)
  /\ Turn(u) <= Len(a.cmds) => a.cmds[Turn(u)].off = p % MaxSgEntries

(* Whether the last round moved on to another tape.                        *)
Stayed(q, j, a) ==
  /\ a.prev_tape_nbr = a.tape_nbr
  /\ Len(a.cmds) = Turn(Ordinal(q, a)) - 1
  /\ j # 0 => a.cmd_total_blocks # 0 /\ ~Changes(q, j)

Moved(q, j, a) ==
  /\ a.prev_tape_nbr + 1 = a.tape_nbr
  /\ Ordinal(q, a) # 0 /\ j # 0
  /\ Len(a.cmds) = Turn(Ordinal(q, a) - 1)
  /\ ChangesTo(q, j, Ordinal(q, a))
  /\ Straddles(q, j) <=> a.cmd_total_blocks # 0

(* The locals after j segments, with s blocks queued.                      *)
Built(q, j, a, s) ==
  /\ a.failed = FALSE
  /\ a.addr = SumTo(q.segs, j)
  /\ Ordinal(q, a) \in Nat
  /\ s = FirstOn(q, Ordinal(q, a))
  /\ Tabled(q, j, a)
  /\ Laid(q, a.cmds, Len(a.cmds), s)
  /\ Stayed(q, j, a) \/ Moved(q, j, a)
  /\ Ordinal(q, a) = 0 => a.cmd_start_pos = 0
  /\ Turn(0) <= Len(a.cmds) => a.cmds[Turn(0)].off = 0
  /\ \A u \in 1 .. Ordinal(q, a) :
       \E m \in 1 .. j, p \in 0 .. Len(a.pgt) : Linked(q, a, m, u, p)
  /\ \A m \in 1 .. j : Changes(q, m) =>
       \E u \in 1 .. Ordinal(q, a), p \in 0 .. Len(a.pgt) :
         Linked(q, a, m, u, p)

-----------------------------------------------------------------------------
(* Transfer u starts at entry p, with which segment m enters tape u.       *)
Starts(q, a, m, u, p) ==
  /\ CrossesAt(q, m)
  /\ Entered(q, m, u, p)
  /\ p < Len(a.pgt)
  /\ a.cmds[Turn(u)].off = p % MaxSgEntries

(* The commands end with the transfer for tape z, or with one more that    *)
(* was queued without changing tapes.                                      *)
EndsWell(q, a, z) ==
  /\ LastOnOneTape(q)
  /\ Len(a.cmds) = Turn(z)
  /\ a.addr <= FirstOn(q, z + 1)
  /\ \A m \in 1 .. Len(q.segs) : CrossesAt(q, m) =>
       \E u \in 1 .. z, p \in 0 .. Len(a.pgt) : Starts(q, a, m, u, p)

EndsBadly(q, a, z) ==
  /\ ~LastOnOneTape(q)
  /\ Len(a.cmds) = Turn(z) + 1
  /\ FirstOn(q, z + 1) < a.addr
  /\ IsTransfer(a.cmds[Turn(z) + 1]) /\ a.cmds[Turn(z) + 1].arg # 0

Plan(q, a, z) ==
  /\ a.addr = SumOf(q.segs)
  /\ Tabled(q, Len(q.segs), a)
  /\ FirstOn(q, z) < a.addr
  /\ Laid(q, a.cmds, Turn(z), a.addr)
  /\ a.cmds[Turn(0)].off = 0
  /\ \A u \in 1 .. z :
       \E m \in 1 .. Len(q.segs), p \in 0 .. Len(a.pgt) :
         Starts(q, a, m, u, p)
  /\ EndsWell(q, a, z) \/ EndsBadly(q, a, z)

(* The cells the device can reach through a contiguous table.              *)
Reach(pgt) ==
  EndsAt(pgt, IF Len(pgt) <= MaxSgEntries THEN Len(pgt) ELSE MaxSgEntries)

(* What transfer c for tape u puts where.                                  *)
Puts(q, c, u) ==
  {<<c.off + j, TapeNo(q, u), PosOn(q, u) + j>> : j \in 0 .. c.arg - 1}

(* The device after n commands, all of them executed to the end.           *)
Ran(q, a, z, n, tp, ps, pl) ==
  /\ n <= Turn(z)
  /\ n = 2 => tp = TapeNo(q, 0)
  /\ n = 3 => tp = TapeNo(q, 0) /\ ps = 0
  /\ \A u \in 0 .. n :
       /\ n = Turn(u) - 2 /\ u # 0 => tp = TapeNo(q, u)
       /\ n = Turn(u) - 1 => tp = TapeNo(q, u) /\ ps = PosOn(q, u)
       /\ n = Turn(u) => ps = PosOn(q, u) + a.cmds[Turn(u)].arg
       /\ Turn(u) <= n =>
            a.cmds[Turn(u)].off + a.cmds[Turn(u)].arg <= Reach(a.pgt)
  /\ pl = UNION {Puts(q, a.cmds[Turn(u)], u) :
                   u \in {v \in 0 .. n : Turn(v) <= n}}

PlacementInv ==
  /\ phase = "build" => Built(r, i, acc, sent) /\ k = 0 /\ placed = {}
  /\ phase \in {"run", "done"} =>
       \E z \in 0 .. Len(acc.cmds) :
         Plan(r, acc, z) /\ Ran(r, acc, z, k, tape, pos, placed)
  /\ phase = "done" => k = Len(acc.cmds)
  /\ phase = "failed" => ~WellPlanned(r)

-----------------------------------------------------------------------------
(* Induction over the natural numbers, as the absence of a least           *)
(* counterexample.                                                         *)
LEMMA LeastNatural ==
  ASSUME NEW S, S \subseteq Nat, S # {}
  PROVE  \E x \in S : \A y \in S : x <= y
<1>1. IsWellFoundedOn(OpToRel(<, Nat), Nat)
  BY NatLessThanWellFounded
<1>2. PICK x \in S : \A y \in S : ~(<<y, x>> \in OpToRel(<, Nat))
  BY <1>1, WFMin
<1>3. \A y \in S : ~(y < x)
  BY <1>2 DEF OpToRel
<1> QED
  BY <1>3

(* A set of numbers up to n that holds 0, and m + 1 with every m < n, is   *)
(* all of them.                                                            *)
LEMMA UpToAll ==
  ASSUME NEW n \in Nat, NEW S, 0 \in S,
         \A m \in 0 .. n - 1 : m \in S => m + 1 \in S
  PROVE  \A m \in 0 .. n : m \in S
<1> SUFFICES ASSUME (0 .. n) \ S # {} PROVE FALSE
  OBVIOUS
<1>1. PICK x \in (0 .. n) \ S : \A y \in (0 .. n) \ S : x <= y
  <2>1. (0 .. n) \ S \subseteq Nat
    OBVIOUS
  <2> QED
    BY <2>1, LeastNatural
<1>2. x # 0 /\ x - 1 \in 0 .. n - 1 /\ x - 1 \in 0 .. n
  BY <1>1
<1>3. x - 1 \in S
  BY <1>1, <1>2
<1>4. (x - 1) + 1 = x
  BY <1>1
<1> QED
  BY <1>1, <1>2, <1>3, <1>4

-----------------------------------------------------------------------------
(* The sums of a list of segments.                                         *)

(* f adds up the first n segments.                                         *)
AddsUp(f, segs, n) ==
  /\ f \in [0 .. n -> Nat]
  /\ f[0] = 0
  /\ \A m \in 1 .. n : f[m] = f[m - 1] + segs[m]

LEMMA AddsUpExists ==
  ASSUME NEW segs \in Seq(Nat)
  PROVE  \E f : AddsUp(f, segs, Len(segs))
<1> DEFINE N == Len(segs)
           S == {n \in 0 .. N : \E f : AddsUp(f, segs, n)}
<1>1. N \in Nat
  BY LenProperties
<1>2. \A m \in 1 .. N : segs[m] \in Nat
  BY ElementOfSeq
<1> HIDE DEF N
<1>3. 0 \in S
  <2>1. AddsUp([x \in 0 .. 0 |-> 0], segs, 0)
    BY DEF AddsUp
  <2> QED
    BY <1>1, <2>1
<1>4. ASSUME NEW n \in 0 .. N - 1, n \in S
      PROVE  n + 1 \in S
  <2>1. PICK f : AddsUp(f, segs, n)
    BY <1>4
  <2> DEFINE g == [x \in 0 .. n + 1 |->
                     IF x = n + 1 THEN f[n] + segs[n + 1] ELSE f[x]]
  <2>2. n \in Nat /\ n + 1 \in 1 .. N /\ n + 1 \in 0 .. N /\ n \in 0 .. n
    BY <1>1
  <2>3. f[n] \in Nat /\ segs[n + 1] \in Nat
    BY <1>2, <2>1, <2>2 DEF AddsUp
  <2>4. \A x \in 0 .. n + 1 : x # n + 1 => x \in 0 .. n
    BY <2>2
  <2>5. g \in [0 .. n + 1 -> Nat]
    BY <2>1, <2>3, <2>4 DEF AddsUp
  <2>6. g[0] = 0
    BY <2>1, <2>2 DEF AddsUp
  <2>7. ASSUME NEW m \in 1 .. n + 1
        PROVE  g[m] = g[m - 1] + segs[m]
    <3>1. m - 1 \in 0 .. n + 1 /\ m - 1 # n + 1 /\ m \in 0 .. n + 1
      BY <2>2
    <3>2. g[m - 1] = f[m - 1]
      BY <3>1
    <3>3. CASE m = n + 1
      <4>1. m - 1 = n
        BY <2>2, <3>3
      <4> QED
        BY <3>1, <3>2, <3>3, <4>1
    <3>4. CASE m # n + 1
      <4>1. m \in 1 .. n
        BY <2>2, <3>4
      <4> QED
        BY <2>1, <3>1, <3>2, <3>4, <4>1 DEF AddsUp
    <3> QED
      BY <3>3, <3>4
  <2>8. AddsUp(g, segs, n + 1)
    BY <2>5, <2>6, <2>7 DEF AddsUp
  <2> QED
    BY <2>2, <2>8
<1>5. N \in S
  <2> HIDE DEF S
  <2>1. \A m \in 0 .. N : m \in S
    BY <1>1, <1>3, <1>4, UpToAll
  <2> QED
    BY <1>1, <2>1
<1> QED
  BY <1>5 DEF N

(* SumTo adds up.                                                          *)
LEMMA SumRecursion ==
  ASSUME NEW segs \in Seq(Nat)
  PROVE  /\ SumTo(segs, 0) = 0
         /\ \A n \in 1 .. Len(segs) :
              SumTo(segs, n) = SumTo(segs, n - 1) + segs[n]
         /\ \A n \in 0 .. Len(segs) : SumTo(segs, n) \in Nat
<1> DEFINE N == Len(segs)
           Rec(g) == g = [n \in 0 .. N |->
                            IF n = 0 THEN 0 ELSE g[n - 1] + segs[n]]
           sum == CHOOSE g : Rec(g)
           S == {n \in 0 .. N : sum[n] \in Nat}
<1>0. N \in Nat /\ \A n \in 1 .. N : segs[n] \in Nat
  BY LenProperties, ElementOfSeq
<1>1. PICK f : AddsUp(f, segs, N)
  BY AddsUpExists
<1>2. \E g : Rec(g)
  <2> HIDE DEF N
  <2>1. f = [n \in 0 .. N |-> f[n]]
    BY <1>1 DEF AddsUp
  <2>2. \A n \in 0 .. N : n # 0 => n \in 1 .. N
    BY <1>0
  <2>3. \A n \in 0 .. N : f[n] = IF n = 0 THEN 0 ELSE f[n - 1] + segs[n]
    BY <1>1, <2>2 DEF AddsUp
  <2>4. Rec(f)
    BY <2>1, <2>3
  <2> QED
    BY <2>4
<1>3. Rec(sum)
  BY <1>2
<1>4. \A n : SumTo(segs, n) = sum[n]
  BY DEF SumTo
<1> HIDE DEF sum, N
<1>5. \A n \in 0 .. N : sum[n] = IF n = 0 THEN 0 ELSE sum[n - 1] + segs[n]
  BY <1>3
<1>6. sum[0] = 0
  BY <1>0, <1>5
<1>7. \A n \in 1 .. N : sum[n] = sum[n - 1] + segs[n]
  BY <1>0, <1>5
<1>8. 0 \in S
  BY <1>0, <1>6
<1>9. ASSUME NEW m \in 0 .. N - 1, m \in S
      PROVE  m + 1 \in S
  <2>1. m + 1 \in 1 .. N /\ m + 1 \in 0 .. N /\ (m + 1) - 1 = m
    BY <1>0
  <2>2. sum[m + 1] = sum[m] + segs[m + 1] /\ segs[m + 1] \in Nat
    BY <1>0, <1>7, <2>1
  <2> QED
    BY <1>9, <2>1, <2>2
<1>10. \A n \in 0 .. N : sum[n] \in Nat
  BY <1>0, <1>8, <1>9, UpToAll
<1> QED
  BY <1>4, <1>6, <1>7, <1>10 DEF N

-----------------------------------------------------------------------------
(* Tapes and blocks.                                                       *)
LEMMA BaseNext ==
  ASSUME NEW t \in Int
  PROVE  Base(t) \in Int /\ Base(t + 1) = Base(t) + TapeBlocks
<1>1. TapeBlocks \in Int
  BY GeometryAssumption
<1>2. (t + 1) * TapeBlocks = t * TapeBlocks + TapeBlocks
  BY <1>1
<1> QED
  BY <1>1, <1>2 DEF Base

LEMMA BaseGrows ==
  ASSUME NEW s \in Int, NEW t \in Int, s < t
  PROVE  Base(s) + TapeBlocks <= Base(t)
<1>1. TapeBlocks \in Nat \ {0}
  BY GeometryAssumption
<1>2. PICK d \in Nat : t = s + 1 + d
  <2>1. t - s - 1 \in Nat /\ t = s + 1 + (t - s - 1)
    OBVIOUS
  <2> QED
    BY <2>1
<1>3. d * TapeBlocks \in Nat
  BY <1>1
<1>4. (s + 1 + d) * TapeBlocks = s * TapeBlocks + TapeBlocks + d * TapeBlocks
  BY <1>1
<1>5. s * TapeBlocks \in Int
  BY <1>1
<1> QED
  BY <1>1, <1>2, <1>3, <1>4, <1>5 DEF Base

(* The tape of a block is the one whose bounds it lies between.            *)
LEMMA OnTape ==
  ASSUME NEW n \in Nat
  PROVE  /\ TapeOf(n) \in Nat \ {0}
         /\ Base(TapeOf(n) - 1) <= n /\ n < Base(TapeOf(n))
         /\ n % TapeBlocks = n - Base(TapeOf(n) - 1)
<1> DEFINE d == n \div TapeBlocks
<1>1. TapeBlocks \in Nat \ {0}
  BY GeometryAssumption
<1>2. d \in Nat /\ d * TapeBlocks <= n /\ n < d * TapeBlocks + TapeBlocks
        /\ n % TapeBlocks = n - d * TapeBlocks
  BY <1>1
<1>3. TapeOf(n) = d + 1 /\ (d + 1) - 1 = d
  BY <1>2 DEF TapeOf
<1> HIDE DEF d
<1>4. Base(d + 1) = Base(d) + TapeBlocks /\ Base(d) = d * TapeBlocks
  BY <1>2, BaseNext DEF Base
<1> QED
  BY <1>1, <1>2, <1>3, <1>4

LEMMA TheTape ==
  ASSUME NEW n \in Nat, NEW t \in Nat, Base(t - 1) <= n, n < Base(t)
  PROVE  TapeOf(n) = t /\ n % TapeBlocks = n - Base(t - 1)
<1> DEFINE s == TapeOf(n)
<1>1. /\ s \in Nat \ {0} /\ Base(s - 1) <= n /\ n < Base(s)
      /\ n % TapeBlocks = n - Base(s - 1)
  BY OnTape
<1> HIDE DEF s
<1>2. TapeBlocks \in Nat \ {0}
  BY GeometryAssumption
<1>3. Base(s) \in Int /\ Base(t) \in Int /\ Base(s - 1) \in Int
        /\ Base(t - 1) \in Int
  BY <1>1, BaseNext
<1>4. s <= t
  <2> SUFFICES ASSUME t < s PROVE FALSE
    BY <1>1
  <2>1. t - 1 < s - 1
    BY <1>1
  <2>2. Base(t - 1) + TapeBlocks <= Base(s - 1)
    BY <1>1, <2>1, BaseGrows
  <2>3. Base((t - 1) + 1) = Base(t - 1) + TapeBlocks /\ (t - 1) + 1 = t
    BY BaseNext
  <2> QED
    BY <1>1, <1>2, <1>3, <2>2, <2>3
<1>5. t <= s
  <2> SUFFICES ASSUME s < t PROVE FALSE
    BY <1>1
  <2>1. s - 1 < t - 1
    BY <1>1
  <2>2. Base(s - 1) + TapeBlocks <= Base(t - 1)
    BY <1>1, <2>1, BaseGrows
  <2>3. Base((s - 1) + 1) = Base(s - 1) + TapeBlocks /\ (s - 1) + 1 = s
    BY <1>1, BaseNext
  <2> QED
    BY <1>1, <1>2, <1>3, <2>2, <2>3
<1>6. s = t
  BY <1>1, <1>4, <1>5
<1> QED
  BY <1>1, <1>6 DEF s

(* Where a request starts.                                                 *)
LEMMA StartsOn ==
  ASSUME NEW n \in Nat
  PROVE  /\ StartTape(n) = TapeOf(n)
         /\ StartBlock(n) = n - Base(StartTape(n) - 1)
         /\ StartBlock(n) \in 0 .. TapeBlocks - 1
<1>1. n \div TapeBlocks \in Int
  BY GeometryAssumption
<1>2. (n \div TapeBlocks + 1) - 1 = n \div TapeBlocks
  BY <1>1
<1> QED
  BY <1>2, StartOnTape DEF StartTape, TapeOf, StartBlock, Base

-----------------------------------------------------------------------------
(* The segments of a request.                                              *)
LEMMA Segments ==
  ASSUME NEW q \in Inputs
  PROVE  /\ q.start \in Nat /\ Len(q.segs) \in Nat \ {0}
         /\ EndOf(q, 0) = q.start
         /\ \A m \in 1 .. Len(q.segs) :
              /\ q.segs[m] \in 1 .. TapeBlocks
              /\ EndOf(q, m) = EndOf(q, m - 1) + q.segs[m]
         /\ \A m \in 0 .. Len(q.segs) :
              EndOf(q, m) \in Nat /\ SumTo(q.segs, m) \in Nat
         /\ EndOf(q, Len(q.segs)) <= Base(NTapes)
<1>1. /\ q.start \in Nat /\ q.segs \in Seq(1 .. TapeBlocks)
      /\ TapeBlocks \in Nat \ {0} /\ NTapes \in Nat
  BY InputType
<1>2. /\ Len(q.segs) \in 1 .. MaxSgEntries
      /\ q.start + SumOf(q.segs) <= NTapes * TapeBlocks
  BY InputsAssumption
<1>3. MaxSgEntries \in Nat
  BY TableAssumption
<1>4. \A m \in 1 .. Len(q.segs) : q.segs[m] \in 1 .. TapeBlocks
  BY <1>1, ElementOfSeq
<1>5. q.segs \in Seq(Nat)
  <2>1. 1 .. TapeBlocks \subseteq Nat
    BY <1>1
  <2> QED
    BY <1>1, <2>1, SeqMonotonic
<1>6. /\ SumTo(q.segs, 0) = 0
      /\ \A n \in 1 .. Len(q.segs) :
           SumTo(q.segs, n) = SumTo(q.segs, n - 1) + q.segs[n]
      /\ \A n \in 0 .. Len(q.segs) : SumTo(q.segs, n) \in Nat
  BY <1>5, SumRecursion
<1>7. Len(q.segs) \in Nat \ {0}
  BY <1>2, <1>3
<1>8. \A m \in 0 .. Len(q.segs) : EndOf(q, m) \in Nat
  BY <1>1, <1>6 DEF EndOf
<1>9. ASSUME NEW m \in 1 .. Len(q.segs)
      PROVE  EndOf(q, m) = EndOf(q, m - 1) + q.segs[m]
  <2>1. m - 1 \in 0 .. Len(q.segs) /\ q.segs[m] \in Nat
    BY <1>1, <1>4, <1>7
  <2>2. SumTo(q.segs, m - 1) \in Nat
          /\ SumTo(q.segs, m) = SumTo(q.segs, m - 1) + q.segs[m]
    BY <1>6, <2>1
  <2> QED
    BY <1>1, <2>1, <2>2 DEF EndOf
<1>10. EndOf(q, 0) = q.start
  BY <1>1, <1>6 DEF EndOf
<1> QED
  BY <1>1, <1>2, <1>4, <1>6, <1>7, <1>8, <1>9, <1>10 DEF EndOf, SumOf, Base

LEMMA SegmentsGrow ==
  ASSUME NEW q \in Inputs, NEW m \in 0 .. Len(q.segs),
         NEW n \in 0 .. Len(q.segs), m < n
  PROVE  EndOf(q, m) < EndOf(q, n)
<1> DEFINE N == Len(q.segs)
           S == {x \in Nat : m + 1 + x <= N => EndOf(q, m) < EndOf(q, m + 1 + x)}
<1>1. /\ N \in Nat
      /\ \A l \in 1 .. N : /\ q.segs[l] \in 1 .. TapeBlocks
                           /\ EndOf(q, l) = EndOf(q, l - 1) + q.segs[l]
      /\ \A l \in 0 .. N : EndOf(q, l) \in Nat
  BY Segments
<1>2. TapeBlocks \in Nat
  BY GeometryAssumption
<1> HIDE DEF N
<1>3. \A l \in 1 .. N : EndOf(q, l - 1) < EndOf(q, l) /\ EndOf(q, l - 1) \in Nat
  <2> TAKE l \in 1 .. N
  <2>1. q.segs[l] \in 1 .. TapeBlocks
    BY <1>1
  <2>2. q.segs[l] \in Nat \ {0}
    BY <1>2, <2>1
  <2>3. l - 1 \in 0 .. N
    BY <1>1
  <2> QED
    BY <1>1, <2>2, <2>3
<1>4. 0 \in S
  <2>1. m + 1 <= N => m + 1 \in 1 .. N /\ (m + 1) - 1 = m
    BY <1>1 DEF N
  <2>2. m + 1 + 0 = m + 1
    BY <1>1 DEF N
  <2> QED
    BY <1>3, <2>1, <2>2
<1>5. ASSUME NEW x \in 0 .. N - 1, x \in S
      PROVE  x + 1 \in S
  <2> SUFFICES ASSUME m + 1 + (x + 1) <= N
               PROVE  EndOf(q, m) < EndOf(q, m + 1 + (x + 1))
    BY <1>1
  <2> DEFINE l == m + 1 + (x + 1)
  <2>1. l \in 1 .. N /\ l - 1 = m + 1 + x /\ m + 1 + x <= N /\ l \in 0 .. N
          /\ m \in 0 .. N /\ m + 1 + x \in 0 .. N
    BY <1>1 DEF N
  <2>2. EndOf(q, m) < EndOf(q, m + 1 + x)
    BY <1>5, <2>1
  <2>3. EndOf(q, l - 1) < EndOf(q, l)
    BY <1>3, <2>1
  <2> HIDE DEF l
  <2>4. EndOf(q, m) \in Nat /\ EndOf(q, l) \in Nat
          /\ EndOf(q, m + 1 + x) \in Nat
    BY <1>1, <2>1
  <2> QED
    BY <2>1, <2>2, <2>3, <2>4 DEF l
<1>6. \A x \in 0 .. N : x \in S
  <2> HIDE DEF S
  <2> QED
    BY <1>1, <1>4, <1>5, UpToAll
<1>7. n - m - 1 \in 0 .. N /\ m + 1 + (n - m - 1) = n /\ n <= N
  BY <1>1 DEF N
<1> QED
  BY <1>6, <1>7

LEMMA SegmentsOrdered ==
  ASSUME NEW q \in Inputs, NEW m \in 0 .. Len(q.segs)
  PROVE  /\ q.start <= EndOf(q, m)
         /\ EndOf(q, m) <= EndOf(q, Len(q.segs))
<1> DEFINE N == Len(q.segs)
<1>1. N \in Nat /\ EndOf(q, 0) = q.start /\ q.start \in Nat
        /\ EndOf(q, m) \in Nat /\ EndOf(q, N) \in Nat
  BY Segments
<1>2. m = 0 \/ EndOf(q, 0) < EndOf(q, m)
  BY <1>1, SegmentsGrow
<1>3. m = N \/ EndOf(q, m) < EndOf(q, N)
  BY <1>1, SegmentsGrow
<1> HIDE DEF N
<1>4. q.start <= EndOf(q, m)
  BY <1>1, <1>2
<1>5. EndOf(q, m) <= EndOf(q, N)
  BY <1>1, <1>3
<1> QED
  BY <1>4, <1>5 DEF N

(* The tapes of a request.                                                 *)
LEMMA Tapes ==
  ASSUME NEW q \in Inputs, NEW u \in Nat
  PROVE  /\ TapeNo(q, u) \in Nat \ {0} /\ PosOn(q, u) \in 0 .. TapeBlocks - 1
         /\ FirstOn(q, u) \in Nat /\ FirstOn(q, 0) = 0
         /\ PosOn(q, u) = q.start + FirstOn(q, u) - Base(TapeNo(q, u) - 1)
         /\ FirstOn(q, u + 1) = Base(TapeNo(q, u)) - q.start
         /\ FirstOn(q, u + 1) = FirstOn(q, u) + TapeBlocks - PosOn(q, u)
         /\ FirstOn(q, u) < FirstOn(q, u + 1)
<1> DEFINE t == StartTape(q.start)
<1>1. q.start \in Nat /\ TapeBlocks \in Nat \ {0}
  BY InputType
<1>2. /\ t \in Nat \ {0} /\ Base(t - 1) <= q.start /\ q.start < Base(t)
      /\ StartBlock(q.start) = q.start - Base(t - 1)
      /\ StartBlock(q.start) \in 0 .. TapeBlocks - 1
  BY <1>1, StartsOn, OnTape
<1> HIDE DEF t
<1>3. /\ Base(t) \in Int /\ Base(t + u) \in Int /\ Base(t + u - 1) \in Int
      /\ Base(t - 1) \in Int
      /\ Base(t + u) = Base(t + u - 1) + TapeBlocks
      /\ Base(t) = Base(t - 1) + TapeBlocks
  <2>1. t + u - 1 \in Int /\ (t + u - 1) + 1 = t + u
          /\ (t - 1) + 1 = t /\ t - 1 \in Int /\ t \in Int /\ t + u \in Int
    BY <1>2
  <2>2. Base((t + u - 1) + 1) = Base(t + u - 1) + TapeBlocks
          /\ Base((t - 1) + 1) = Base(t - 1) + TapeBlocks
    BY <2>1, BaseNext
  <2>3. Base(t) \in Int /\ Base(t + u) \in Int /\ Base(t + u - 1) \in Int
          /\ Base(t - 1) \in Int
    BY <2>1, BaseNext
  <2> QED
    BY <2>1, <2>2, <2>3
<1>4. u # 0 => Base(t) <= Base(t + u - 1)
  <2>1. CASE u = 0 \/ u = 1
    <3>1. t + 1 - 1 = t
      BY <1>2
    <3> QED
      BY <1>3, <2>1, <3>1
  <2>2. CASE u # 0 /\ u # 1
    <3>1. t < t + u - 1 /\ t + u - 1 \in Int /\ t \in Int
      BY <1>2, <2>2
    <3>2. Base(t) + TapeBlocks <= Base(t + u - 1)
      BY <3>1, BaseGrows
    <3> QED
      BY <1>1, <1>3, <3>2
  <2> QED
    BY <2>1, <2>2
<1>5. TapeNo(q, u) = t + u /\ TapeNo(q, u + 1) - 1 = t + u
        /\ TapeNo(q, u) - 1 = t + u - 1 /\ t + 0 - 1 = t - 1 /\ u + 1 # 0
  BY <1>2 DEF TapeNo, t
<1>6. FirstOn(q, u + 1) = Base(t + u) - q.start
  BY <1>5 DEF FirstOn
<1>7. FirstOn(q, u) = IF u = 0 THEN 0 ELSE Base(t + u - 1) - q.start
  BY <1>5 DEF FirstOn
<1>8. PosOn(q, u) = IF u = 0 THEN q.start - Base(t - 1) ELSE 0
  BY <1>2 DEF PosOn
<1>9. FirstOn(q, 0) = 0
  BY DEF FirstOn
<1>10. CASE u = 0
  <2>1. FirstOn(q, u) = 0 /\ PosOn(q, u) = q.start - Base(t - 1)
          /\ t + u - 1 = t - 1 /\ t + u = t
    BY <1>2, <1>7, <1>8, <1>10
  <2> QED
    BY <1>1, <1>2, <1>3, <1>5, <1>6, <1>9, <2>1
<1>11. CASE u # 0
  <2>1. FirstOn(q, u) = Base(t + u - 1) - q.start /\ PosOn(q, u) = 0
    BY <1>7, <1>8, <1>11
  <2>2. TapeNo(q, u) \in Nat \ {0}
    BY <1>2, <1>5
  <2> QED
    BY <1>1, <1>2, <1>3, <1>4, <1>5, <1>6, <1>9, <1>11, <2>1, <2>2
<1> QED
  BY <1>10, <1>11

LEMMA TapesGrow ==
  ASSUME NEW q \in Inputs, NEW u \in Nat, NEW v \in Nat, u < v
  PROVE  FirstOn(q, u + 1) <= FirstOn(q, v)
<1>1. /\ FirstOn(q, u + 1) = Base(TapeNo(q, u)) - q.start
      /\ TapeNo(q, u) \in Nat
  BY Tapes
<1>2. FirstOn(q, v) = Base(TapeNo(q, v) - 1) - q.start
  BY DEF FirstOn
<1>3. q.start \in Nat /\ StartTape(q.start) \in Nat /\ TapeBlocks \in Nat
  BY InputType, StartOnTape
<1>4. TapeNo(q, u) = TapeNo(q, v) - 1 \/ TapeNo(q, u) < TapeNo(q, v) - 1
  BY <1>3 DEF TapeNo
<1>5. TapeNo(q, v) - 1 \in Int
  BY <1>3 DEF TapeNo
<1>6. Base(TapeNo(q, u)) <= Base(TapeNo(q, v) - 1)
        /\ Base(TapeNo(q, u)) \in Int /\ Base(TapeNo(q, v) - 1) \in Int
  <2>1. Base(TapeNo(q, u)) \in Int /\ Base(TapeNo(q, v) - 1) \in Int
    BY <1>1, <1>5, BaseNext
  <2>2. CASE TapeNo(q, u) = TapeNo(q, v) - 1
    BY <2>1, <2>2
  <2>3. CASE TapeNo(q, u) < TapeNo(q, v) - 1
    <3>1. Base(TapeNo(q, u)) + TapeBlocks <= Base(TapeNo(q, v) - 1)
      BY <1>1, <1>5, <2>3, BaseGrows
    <3> QED
      BY <1>3, <2>1, <3>1
  <2> QED
    BY <1>4, <2>1, <2>2, <2>3
<1> QED
  BY <1>1, <1>2, <1>3, <1>6

(* The tape that block n of a request is for.                              *)
LEMMA TapeOfBlock ==
  ASSUME NEW q \in Inputs, NEW u \in Nat, NEW n \in Nat,
         FirstOn(q, u) <= n, n < FirstOn(q, u + 1)
  PROVE  /\ TapeOf(q.start + n) = TapeNo(q, u)
         /\ (q.start + n) % TapeBlocks = PosOn(q, u) + (n - FirstOn(q, u))
<1>1. /\ TapeNo(q, u) \in Nat \ {0} /\ PosOn(q, u) \in 0 .. TapeBlocks - 1
      /\ FirstOn(q, u) \in Nat
      /\ PosOn(q, u) = q.start + FirstOn(q, u) - Base(TapeNo(q, u) - 1)
      /\ FirstOn(q, u + 1) = Base(TapeNo(q, u)) - q.start
  BY Tapes
<1>2. q.start \in Nat /\ TapeBlocks \in Nat
  BY InputType
<1>3. Base(TapeNo(q, u)) \in Int /\ Base(TapeNo(q, u) - 1) \in Int
  BY <1>1, BaseNext
<1>4. Base(TapeNo(q, u) - 1) <= q.start + n /\ q.start + n < Base(TapeNo(q, u))
        /\ q.start + n \in Nat
  BY <1>1, <1>2, <1>3
<1>5. TapeOf(q.start + n) = TapeNo(q, u)
        /\ (q.start + n) % TapeBlocks = (q.start + n) - Base(TapeNo(q, u) - 1)
  <2> DEFINE x == q.start + n
             t == TapeNo(q, u)
  <2>1. x \in Nat /\ t \in Nat /\ Base(t - 1) <= x /\ x < Base(t)
    BY <1>1, <1>4
  <2> HIDE DEF x, t
  <2>2. TapeOf(x) = t /\ x % TapeBlocks = x - Base(t - 1)
    BY <2>1, TheTape
  <2> QED
    BY <2>2 DEF x, t
<1> QED
  BY <1>1, <1>2, <1>3, <1>5

-----------------------------------------------------------------------------
(* The page table as the device walks it.                                  *)
CellsFrom(a, n) == [j \in 1 .. n |-> a + j - 1]

LEMMA CellsConcat ==
  ASSUME NEW a \in Nat, NEW n \in Nat
  PROVE  /\ CellsFrom(0, a) \o CellsFrom(a, n) = CellsFrom(0, a + n)
         /\ CellsFrom(a, n) \in Seq(Nat)
<1>1. ASSUME NEW x \in Nat, NEW y \in Nat
      PROVE  /\ CellsFrom(x, y) \in Seq(Nat) /\ Len(CellsFrom(x, y)) = y
             /\ \A j \in 1 .. y : CellsFrom(x, y)[j] = x + j - 1
  <2>1. \A j \in 1 .. y : x + j - 1 \in Nat
    OBVIOUS
  <2> QED
    BY <2>1 DEF CellsFrom
<1> DEFINE s == CellsFrom(0, a)
           t == CellsFrom(a, n)
           c == CellsFrom(0, a + n)
<1>2. /\ s \in Seq(Nat) /\ Len(s) = a /\ \A j \in 1 .. a : s[j] = 0 + j - 1
      /\ t \in Seq(Nat) /\ Len(t) = n /\ \A j \in 1 .. n : t[j] = a + j - 1
      /\ c \in Seq(Nat) /\ Len(c) = a + n
      /\ \A j \in 1 .. a + n : c[j] = 0 + j - 1
  <2>1. 0 \in Nat /\ a + n \in Nat
    OBVIOUS
  <2> QED
    BY <1>1, <2>1, Zenon
<1> HIDE DEF s, t, c
<1>3. /\ s \o t \in Seq(Nat) /\ Len(s \o t) = a + n
      /\ \A j \in 1 .. a + n : (s \o t)[j] = IF j <= a THEN s[j] ELSE t[j - a]
  BY <1>2, ConcatProperties
<1>4. ASSUME NEW j \in 1 .. a + n
      PROVE  (s \o t)[j] = c[j]
  <2>1. CASE j <= a
    <3>1. j \in 1 .. a
      BY <2>1
    <3> QED
      BY <1>2, <1>3, <2>1, <3>1
  <2>2. CASE ~(j <= a)
    <3>1. j - a \in 1 .. n /\ a + (j - a) - 1 = 0 + j - 1
      BY <2>2
    <3>2. (s \o t)[j] = t[j - a]
      BY <1>3, <2>2
    <3>3. t[j - a] = a + (j - a) - 1
      BY <1>2, <3>1
    <3>4. c[j] = 0 + j - 1
      BY <1>2
    <3> QED
      BY <3>1, <3>2, <3>3, <3>4
  <2> QED
    BY <2>1, <2>2
<1>5. s \o t = c
  BY <1>2, <1>3, <1>4, SeqEqual
<1> QED
  BY <1>2, <1>5 DEF s, t, c

LEMMA TableEnds ==
  ASSUME NEW pgt \in Seq([addr : Nat, n : Nat]), NEW x, Contiguous(pgt, x)
  PROVE  \A e \in 1 .. Len(pgt) :
           /\ pgt[e].n \in Nat \ {0}
           /\ pgt[e].addr = EndsAt(pgt, e - 1) /\ pgt[e].addr \in Nat
           /\ EndsAt(pgt, e) = EndsAt(pgt, e - 1) + pgt[e].n
           /\ EndsAt(pgt, e) \in Nat
<1> TAKE e \in 1 .. Len(pgt)
<1>1. pgt[e] \in [addr : Nat, n : Nat]
  BY ElementOfSeq
<1>2. pgt[e].addr \in Nat /\ pgt[e].n \in Nat
  BY <1>1
<1>3. pgt[e].n >= 1 /\ pgt[e].addr = EndsAt(pgt, e - 1)
  BY DEF Contiguous
<1>4. e # 0 /\ EndsAt(pgt, e) = pgt[e].addr + pgt[e].n
  BY DEF EndsAt
<1> QED
  BY <1>2, <1>3, <1>4

LEMMA CellsInOrder ==
  ASSUME NEW pgt \in Seq([addr : Nat, n : Nat]), NEW x, Contiguous(pgt, x)
  PROVE  /\ Cells(pgt) = CellsFrom(0, Reach(pgt))
         /\ Reach(pgt) \in Nat
<1> DEFINE N == IF Len(pgt) <= MaxSgEntries THEN Len(pgt) ELSE MaxSgEntries
           ss == [e \in 1 .. N |-> CellsFrom(pgt[e].addr, pgt[e].n)]
           F(e) == CellsFrom(0, EndsAt(pgt, e))
<1>1. Len(pgt) \in Nat /\ MaxSgEntries \in Nat
  BY LenProperties, TableAssumption
<1>2. N \in Nat /\ N <= Len(pgt) /\ N <= MaxSgEntries
  BY <1>1
<1>3. Min({Len(pgt), MaxSgEntries}) = N
  <2>1. \E y \in {Len(pgt), MaxSgEntries} :
          \A z \in {Len(pgt), MaxSgEntries} : y =< z
    BY <1>1
  <2>2. /\ Min({Len(pgt), MaxSgEntries}) \in {Len(pgt), MaxSgEntries}
        /\ \A z \in {Len(pgt), MaxSgEntries} :
             Min({Len(pgt), MaxSgEntries}) =< z
    BY <2>1 DEF Min
  <2> QED
    BY <1>1, <2>2
<1>4. Reach(pgt) = EndsAt(pgt, N)
  BY DEF Reach
<1>5. Cells(pgt) = FlattenSeq(ss)
  BY <1>3 DEF Cells, CellsFrom
<1>6. \A e \in 1 .. N :
           /\ pgt[e].n \in Nat
           /\ pgt[e].addr = EndsAt(pgt, e - 1) /\ pgt[e].addr \in Nat
           /\ EndsAt(pgt, e) = EndsAt(pgt, e - 1) + pgt[e].n
           /\ EndsAt(pgt, e) \in Nat
  <2>1. \A e \in 1 .. N : e \in 1 .. Len(pgt)
    BY <1>1, <1>2
  <2> QED
    BY <2>1, TableEnds
<1> HIDE DEF N
<1>7. \A e \in 1 .. N : ss[e] = CellsFrom(pgt[e].addr, pgt[e].n)
  OBVIOUS
<1>8. \A e \in 1 .. N : ss[e] \in Seq(Nat)
  BY <1>6, <1>7, CellsConcat
<1>9. ss \in Seq(Seq(Nat)) /\ Len(ss) = N
  BY <1>2, <1>8
<1> HIDE DEF ss
<1>10. \A e \in 1 .. N : F(e) = F(e - 1) \o ss[e]
  <2> TAKE e \in 1 .. N
  <2>1. ss[e] = CellsFrom(EndsAt(pgt, e - 1), pgt[e].n)
          /\ EndsAt(pgt, e - 1) \in Nat /\ pgt[e].n \in Nat
          /\ EndsAt(pgt, e) = EndsAt(pgt, e - 1) + pgt[e].n
    BY <1>6, <1>7
  <2> QED
    BY <2>1, CellsConcat
<1>11. N # 0 => F(1) = ss[1]
  <2> SUFFICES ASSUME N # 0 PROVE F(1) = ss[1]
    OBVIOUS
  <2>1. 1 \in 1 .. N /\ 1 - 1 = 0 /\ EndsAt(pgt, 0) = 0
    BY <1>2 DEF EndsAt
  <2>2. pgt[1].addr = 0 /\ EndsAt(pgt, 1) = 0 + pgt[1].n /\ pgt[1].n \in Nat
    BY <1>6, <2>1
  <2> QED
    BY <1>7, <2>1, <2>2
<1>12. Reach(pgt) \in Nat
  <2>1. CASE N = 0
    BY <1>4, <2>1 DEF EndsAt
  <2>2. CASE N # 0
    <3>1. N \in 1 .. N
      BY <1>2, <2>2
    <3> QED
      BY <1>4, <1>6, <3>1
  <2> QED
    BY <2>1, <2>2
<1>13. CASE N = 0
  <2>1. FlattenSeq(ss) = ss
    BY <1>9, <1>13 DEF FlattenSeq
  <2>2. CellsFrom(0, EndsAt(pgt, N)) = << >>
    BY <1>13 DEF CellsFrom, EndsAt
  <2>3. ss = << >>
    BY <1>9, <1>13
  <2> QED
    BY <1>4, <1>5, <1>12, <2>1, <2>2, <2>3
<1>14. CASE N # 0
  <2> DEFINE Rec(g) == g = [e \in 1 .. Len(ss) |->
                              IF e = 1 THEN ss[e] ELSE g[e - 1] \o ss[e]]
             flat == CHOOSE g : Rec(g)
             S == {m \in Nat : m < N => flat[m + 1] = F(m + 1)}
  <2>1. FlattenSeq(ss) = flat[Len(ss)]
    BY <1>9, <1>14 DEF FlattenSeq
  <2>2. \E g : Rec(g)
    <3> DEFINE f == [e \in 1 .. N |-> F(e)]
    <3>1. \A e \in 1 .. N : e = 1 \/ e - 1 \in 1 .. N
      BY <1>2
    <3>2. \A e \in 1 .. N : F(e) = IF e = 1 THEN ss[e] ELSE F(e - 1) \o ss[e]
      BY <1>10, <1>11, <1>14
    <3> HIDE DEF F
    <3>3. \A e \in 1 .. N : f[e] = IF e = 1 THEN ss[e] ELSE f[e - 1] \o ss[e]
      BY <3>1, <3>2
    <3>4. f = [e \in 1 .. N |-> f[e]]
      OBVIOUS
    <3> HIDE DEF f
    <3>5. Rec(f)
      BY <1>9, <3>3, <3>4
    <3> QED
      BY <3>5
  <2>3. Rec(flat)
    BY <2>2
  <2> HIDE DEF flat, F
  <2>4. \A e \in 1 .. N :
          flat[e] = IF e = 1 THEN ss[e] ELSE flat[e - 1] \o ss[e]
    BY <1>9, <2>3
  <2>5. 0 \in S
    <3>1. 1 \in 1 .. N /\ 0 + 1 = 1
      BY <1>2, <1>14
    <3> QED
      BY <1>11, <1>14, <2>4, <3>1
  <2>6. ASSUME NEW m \in 0 .. N - 1, m \in S
        PROVE  m + 1 \in S
    <3> SUFFICES ASSUME m + 1 < N
                 PROVE  flat[(m + 1) + 1] = F((m + 1) + 1)
      BY <1>2
    <3>1. /\ (m + 1) + 1 \in 1 .. N /\ ((m + 1) + 1) - 1 = m + 1
          /\ (m + 1) + 1 # 1 /\ m < N
      BY <1>2
    <3>2. flat[(m + 1) + 1] = flat[m + 1] \o ss[(m + 1) + 1]
      BY <2>4, <3>1
    <3>3. F((m + 1) + 1) = F(m + 1) \o ss[(m + 1) + 1]
      BY <1>10, <3>1
    <3> QED
      BY <2>6, <3>1, <3>2, <3>3
  <2>7. \A m \in 0 .. N : m \in S
    <3> HIDE DEF S
    <3> QED
      BY <1>2, <2>5, <2>6, UpToAll
  <2>8. N - 1 \in 0 .. N /\ N - 1 < N /\ (N - 1) + 1 = N
    BY <1>2, <1>14
  <2>9. flat[N] = F(N)
    BY <2>7, <2>8
  <2> QED
    BY <1>4, <1>5, <1>9, <1>12, <2>1, <2>9 DEF F
<1> QED
  BY <1>13, <1>14

(* A table that does not fit leaves out cells.                             *)
LEMMA ReachBound ==
  ASSUME NEW pgt \in Seq([addr : Nat, n : Nat]), NEW x, Contiguous(pgt, x)
  PROVE  /\ Len(pgt) <= MaxSgEntries => Reach(pgt) = x
         /\ Len(pgt) > MaxSgEntries => Reach(pgt) < x
<1>1. Len(pgt) \in Nat /\ MaxSgEntries \in Nat
  BY LenProperties, TableAssumption
<1>2. CASE Len(pgt) <= MaxSgEntries
  BY <1>1, <1>2 DEF Contiguous, Reach
<1>3. CASE ~(Len(pgt) <= MaxSgEntries)
  <2>1. MaxSgEntries \in 0 .. Len(pgt) - 1
    BY <1>1, <1>3
  <2> QED
    BY <1>1, <1>3, <2>1 DEF Contiguous, Reach
<1> QED
  BY <1>2, <1>3

-----------------------------------------------------------------------------
(* One round of the loop, field by field.                                  *)
ChangedCmds(a) ==
  IF a.prev_tape_nbr < a.tape_nbr
  THEN a.cmds \o << PlainCmd("EJECT_TAPE", 0),
                    PlainCmd("TAKE_TAPE", a.tape_nbr),
                    PlainCmd("REWIND", 0) >>
  ELSE a.cmds

ChangedTape(a) ==
  IF a.prev_tape_nbr < a.tape_nbr THEN a.tape_nbr ELSE a.prev_tape_nbr

LEMMA ChangeFields ==
  ASSUME NEW a \in Locals
  PROVE  LET e == ChangeTape(a)
         IN  /\ e \in Locals
             /\ e.pgt = a.pgt /\ e.addr = a.addr
             /\ e.cmd_start_pos = a.cmd_start_pos
             /\ e.cmd_total_blocks = a.cmd_total_blocks
             /\ e.blocks_left_in_tape = a.blocks_left_in_tape
             /\ e.tape_nbr = a.tape_nbr /\ e.failed = a.failed
             /\ e.cmds = ChangedCmds(a) /\ e.prev_tape_nbr = ChangedTape(a)
<1> DEFINE cs == a.cmds \o << PlainCmd("EJECT_TAPE", 0),
                              PlainCmd("TAKE_TAPE", a.tape_nbr),
                              PlainCmd("REWIND", 0) >>
<1>1. ChangeTape(a) = IF a.prev_tape_nbr < a.tape_nbr
                      THEN [a EXCEPT !.prev_tape_nbr = a.tape_nbr, !.cmds = cs]
                      ELSE a
  BY DEF ChangeTape
<1>2. ChangedCmds(a) = IF a.prev_tape_nbr < a.tape_nbr THEN cs ELSE a.cmds
  BY DEF ChangedCmds
<1> HIDE DEF cs
<1>3. ChangeTape(a) \in Locals
  BY ChangeTapeType
<1> QED
  BY <1>1, <1>2, <1>3 DEF Locals, ChangedTape

(* A segment that stays on the tape.                                       *)
Keeps(a, b, n) ==
  /\ b.pgt = Append(a.pgt, PgtEntry(a.addr, n))
  /\ b.addr = a.addr + n
  /\ b.cmd_start_pos = a.cmd_start_pos
  /\ b.cmd_total_blocks = a.cmd_total_blocks + n
  /\ b.blocks_left_in_tape = a.blocks_left_in_tape
  /\ b.tape_nbr = a.tape_nbr /\ b.failed = a.failed
  /\ b.cmds = ChangedCmds(a) /\ b.prev_tape_nbr = ChangedTape(a)

(* A segment that reaches the end of the tape, by v blocks.                *)
Enters(a, b, n, v, w) ==
  /\ b.pgt = LET pgt == Append(a.pgt, PgtEntry(a.addr, n - v))
             IN  IF v = 0 THEN pgt
                 ELSE Append(pgt, PgtEntry(a.addr + (n - v), v))
  /\ b.addr = a.addr + n
  /\ b.cmd_start_pos = Len(a.pgt) + 1
  /\ b.cmd_total_blocks = v
  /\ b.blocks_left_in_tape = TapeBlocks
  /\ b.tape_nbr = a.tape_nbr + 1 /\ b.failed = a.failed
  /\ b.cmds = Append(ChangedCmds(a), TransferCmd(w, a.cmd_start_pos,
                                                 a.blocks_left_in_tape))
  /\ b.prev_tape_nbr = ChangedTape(a)

LEMMA KeepsFields ==
  ASSUME NEW a \in Locals, NEW n \in Nat, NEW w,
         ~(a.tape_nbr > NTapes),
         a.cmd_total_blocks + n < a.blocks_left_in_tape
  PROVE  Keeps(a, SgStep(a, n, w), n)
<1> DEFINE e == ChangeTape(a)
           p == Append(a.pgt, PgtEntry(a.addr, n))
<1>1. /\ e \in Locals
      /\ e.pgt = a.pgt /\ e.addr = a.addr
      /\ e.cmd_start_pos = a.cmd_start_pos
      /\ e.cmd_total_blocks = a.cmd_total_blocks
      /\ e.blocks_left_in_tape = a.blocks_left_in_tape
      /\ e.tape_nbr = a.tape_nbr /\ e.failed = a.failed
      /\ e.cmds = ChangedCmds(a) /\ e.prev_tape_nbr = ChangedTape(a)
  BY ChangeFields
<1>2. a.cmd_total_blocks \in Nat /\ a.blocks_left_in_tape \in Nat
  BY DEF Locals
<1>3. SgStep(a, n, w) = IF e.cmd_total_blocks + n >= e.blocks_left_in_tape
                        THEN SegmentEndsTape(e, n, w) ELSE SegmentFits(e, n)
  BY DEF SgStep
<1> HIDE DEF e
<1>4. SgStep(a, n, w) = SegmentFits(e, n)
  BY <1>1, <1>2, <1>3
<1>5. SegmentFits(e, n) =
        [e EXCEPT !.pgt = p, !.addr = a.addr + n,
                  !.cmd_total_blocks = a.cmd_total_blocks + n]
  BY <1>1 DEF SegmentFits
<1> HIDE DEF p
<1>6. LET b == SegmentFits(e, n)
      IN  /\ b.pgt = p /\ b.addr = a.addr + n
          /\ b.cmd_start_pos = e.cmd_start_pos
          /\ b.cmd_total_blocks = a.cmd_total_blocks + n
          /\ b.blocks_left_in_tape = e.blocks_left_in_tape
          /\ b.tape_nbr = e.tape_nbr /\ b.failed = e.failed
          /\ b.cmds = e.cmds /\ b.prev_tape_nbr = e.prev_tape_nbr
  BY <1>1, <1>5 DEF Locals
<1> QED
  BY <1>1, <1>4, <1>6 DEF Keeps, p

LEMMA EntersFields ==
  ASSUME NEW a \in Locals, NEW n \in Nat, NEW w, NEW v \in Nat,
         ~(a.tape_nbr > NTapes),
         v = a.cmd_total_blocks + n - a.blocks_left_in_tape
  PROVE  LET b == SgStep(a, n, w)
         IN  IF v # 0 /\ Len(a.pgt) + 1 > MaxSgEntries
             THEN b.failed = TRUE
             ELSE Enters(a, b, n, v, w)
<1> DEFINE e == ChangeTape(a)
           b == SgStep(a, n, w)
           p1 == Append(a.pgt, PgtEntry(a.addr, n - v))
           p2 == Append(p1, PgtEntry(a.addr + (n - v), v))
           cs == Append(ChangedCmds(a), TransferCmd(w, a.cmd_start_pos,
                                                    a.blocks_left_in_tape))
           b1 == [e EXCEPT !.pgt = p1, !.cmds = cs,
                           !.cmd_start_pos = Len(a.pgt) + 1,
                           !.cmd_total_blocks = v,
                           !.blocks_left_in_tape = TapeBlocks,
                           !.tape_nbr = a.tape_nbr + 1]
<1>1. /\ e \in Locals
      /\ e.pgt = a.pgt /\ e.addr = a.addr
      /\ e.cmd_start_pos = a.cmd_start_pos
      /\ e.cmd_total_blocks = a.cmd_total_blocks
      /\ e.blocks_left_in_tape = a.blocks_left_in_tape
      /\ e.tape_nbr = a.tape_nbr /\ e.failed = a.failed
      /\ e.cmds = ChangedCmds(a) /\ e.prev_tape_nbr = ChangedTape(a)
  BY ChangeFields
<1>2. /\ a.cmd_total_blocks \in Nat /\ a.blocks_left_in_tape \in Nat
      /\ a.pgt \in Seq([addr : Nat, n : Nat]) /\ Len(a.pgt) \in Nat
  BY LenProperties DEF Locals
<1>3. b = IF e.cmd_total_blocks + n >= e.blocks_left_in_tape
          THEN SegmentEndsTape(e, n, w) ELSE SegmentFits(e, n)
  BY DEF SgStep
<1> HIDE DEF e
<1>4. b = SegmentEndsTape(e, n, w)
  BY <1>1, <1>2, <1>3
<1>5. SegmentEndsTape(e, n, w) =
        IF v = 0 THEN [b1 EXCEPT !.addr = b1.addr + n]
        ELSE IF Len(b1.pgt) > MaxSgEntries THEN [b1 EXCEPT !.failed = TRUE]
        ELSE [b1 EXCEPT !.addr = b1.addr + n,
                        !.pgt = Append(b1.pgt, PgtEntry(a.addr + (n - v), v))]
  BY <1>1 DEF SegmentEndsTape
<1>6. Len(p1) = Len(a.pgt) + 1
  BY <1>2 DEF PgtEntry
<1> HIDE DEF b, p1, cs
<1>7. /\ b1.pgt = p1 /\ b1.addr = a.addr /\ b1.failed = a.failed
      /\ b1.cmds = cs /\ b1.cmd_start_pos = Len(a.pgt) + 1
      /\ b1.cmd_total_blocks = v /\ b1.blocks_left_in_tape = TapeBlocks
      /\ b1.tape_nbr = a.tape_nbr + 1 /\ b1.prev_tape_nbr = ChangedTape(a)
      /\ DOMAIN b1 = DOMAIN e
  BY <1>1 DEF Locals
<1>8. DOMAIN e = {"cmds", "pgt", "addr", "cmd_start_pos", "cmd_total_blocks",
                  "blocks_left_in_tape", "tape_nbr", "prev_tape_nbr", "failed"}
  BY <1>1 DEF Locals
<1> HIDE DEF b1
<1>9. CASE v # 0 /\ Len(a.pgt) + 1 > MaxSgEntries
  <2>1. b = [b1 EXCEPT !.failed = TRUE]
    BY <1>4, <1>5, <1>6, <1>7, <1>9
  <2> QED
    BY <1>7, <1>8, <1>9, <2>1 DEF b
<1>10. CASE v = 0
  <2>1. b = [b1 EXCEPT !.addr = a.addr + n]
    BY <1>4, <1>5, <1>7, <1>10
  <2>2. /\ b.pgt = p1 /\ b.addr = a.addr + n /\ b.failed = a.failed
        /\ b.cmds = cs /\ b.cmd_start_pos = Len(a.pgt) + 1
        /\ b.cmd_total_blocks = v /\ b.blocks_left_in_tape = TapeBlocks
        /\ b.tape_nbr = a.tape_nbr + 1 /\ b.prev_tape_nbr = ChangedTape(a)
    BY <1>7, <1>8, <2>1
  <2> QED
    BY <1>10, <2>2 DEF Enters, p1, cs, b
<1>11. CASE v # 0 /\ ~(Len(a.pgt) + 1 > MaxSgEntries)
  <2>1. b = [b1 EXCEPT !.addr = a.addr + n, !.pgt = p2]
    BY <1>4, <1>5, <1>6, <1>7, <1>11
  <2> HIDE DEF p2
  <2>2. /\ b.pgt = p2 /\ b.addr = a.addr + n /\ b.failed = a.failed
        /\ b.cmds = cs /\ b.cmd_start_pos = Len(a.pgt) + 1
        /\ b.cmd_total_blocks = v /\ b.blocks_left_in_tape = TapeBlocks
        /\ b.tape_nbr = a.tape_nbr + 1 /\ b.prev_tape_nbr = ChangedTape(a)
    BY <1>7, <1>8, <2>1
  <2> QED
    BY <1>11, <2>2 DEF Enters, p1, p2, cs, b
<1> QED
  BY <1>9, <1>10, <1>11

-----------------------------------------------------------------------------
(* An entry for the next cells keeps the table contiguous.                 *)
LEMMA TableGrows ==
  ASSUME NEW pgt \in Seq([addr : Nat, n : Nat]), NEW x \in Nat,
         NEW n \in Nat \ {0}, Contiguous(pgt, x)
  PROVE  LET p == Append(pgt, PgtEntry(x, n))
         IN  /\ p \in Seq([addr : Nat, n : Nat]) /\ Len(p) = Len(pgt) + 1
             /\ Contiguous(p, x + n)
<1> DEFINE c == PgtEntry(x, n)
           p == Append(pgt, c)
           N == Len(pgt)
<1>1. c \in [addr : Nat, n : Nat] /\ c.addr = x /\ c.n = n
  BY DEF PgtEntry
<1> HIDE DEF c
<1>2. /\ p \in Seq([addr : Nat, n : Nat]) /\ N \in Nat /\ Len(p) = N + 1
      /\ p[N + 1] = c /\ \A e \in 1 .. N : p[e] = pgt[e]
  BY <1>1, AppendProperties, LenProperties
<1> HIDE DEF p
<1>3. /\ \A e \in 1 .. N : pgt[e].n >= 1 /\ pgt[e].addr = EndsAt(pgt, e - 1)
      /\ \A e \in 0 .. N - 1 : EndsAt(pgt, e) < x
      /\ EndsAt(pgt, N) = x
  BY DEF Contiguous
<1> HIDE DEF N
<1>4. \A e \in 0 .. N : EndsAt(p, e) = EndsAt(pgt, e)
  <2> TAKE e \in 0 .. N
  <2>1. e = 0 \/ e \in 1 .. N
    BY <1>2
  <2> QED
    BY <1>2, <2>1 DEF EndsAt
<1>5. EndsAt(p, N + 1) = x + n
  BY <1>1, <1>2 DEF EndsAt
<1>6. ASSUME NEW e \in 1 .. N + 1
      PROVE  p[e].n >= 1 /\ p[e].addr = EndsAt(p, e - 1)
  <2>1. CASE e \in 1 .. N
    <3>1. e - 1 \in 0 .. N
      BY <1>2, <2>1
    <3> QED
      BY <1>2, <1>3, <1>4, <2>1, <3>1
  <2>2. CASE e = N + 1
    <3>1. e - 1 = N /\ N \in 0 .. N
      BY <1>2, <2>2
    <3> QED
      BY <1>1, <1>2, <1>3, <1>4, <2>2, <3>1
  <2> QED
    BY <1>2, <2>1, <2>2
<1>7. ASSUME NEW e \in 0 .. N
      PROVE  EndsAt(p, e) < x + n
  <2>1. CASE e = N
    BY <1>3, <1>4, <2>1
  <2>2. CASE e # N
    <3>1. e \in 0 .. N - 1
      BY <1>2, <2>2
    <3>2. EndsAt(pgt, e) < x
      BY <1>3, <3>1
    <3>3. EndsAt(pgt, e) \in Int
      <4>1. CASE e = 0
        BY <4>1 DEF EndsAt
      <4>2. CASE e # 0
        <5>1. e \in 1 .. Len(pgt)
          BY <1>2, <4>2 DEF N
        <5>2. EndsAt(pgt, e) \in Nat
          BY <5>1, TableEnds
        <5> QED
          BY <5>2
      <4> QED
        BY <4>1, <4>2
    <3> QED
      BY <1>4, <3>2, <3>3
  <2> QED
    BY <2>1, <2>2
<1>8. Contiguous(p, x + n)
  <2>1. (N + 1) - 1 = N
    BY <1>2
  <2> QED
    BY <1>2, <1>5, <1>6, <1>7, <2>1 DEF Contiguous
<1> QED
  BY <1>2, <1>8 DEF p, c, N

(* One more segment: one more to count if it straddles.                    *)
LEMMA CountStraddling ==
  ASSUME NEW q, NEW j \in Nat
  PROVE  LET C(l) == Cardinality({m \in 1 .. l : Straddles(q, m)})
         IN  /\ C(0) = 0 /\ C(j) \in Nat
             /\ C(j + 1) = IF Straddles(q, j + 1) THEN C(j) + 1 ELSE C(j)
<1> DEFINE S(l) == {m \in 1 .. l : Straddles(q, m)}
<1>1. IsFiniteSet(S(j))
  <2>1. IsFiniteSet(1 .. j)
    BY FS_Interval
  <2> QED
    BY <2>1, FS_Subset
<1>2. S(0) = {} /\ Cardinality({}) = 0
  BY FS_EmptySet
<1>3. Cardinality(S(j)) \in Nat
  BY <1>1, FS_CardinalityType
<1>4. j + 1 \notin S(j)
  OBVIOUS
<1>5. CASE Straddles(q, j + 1)
  <2>1. S(j + 1) = S(j) \cup {j + 1}
    BY <1>5
  <2> HIDE DEF S
  <2>2. Cardinality(S(j + 1)) = Cardinality(S(j)) + 1
    BY <1>1, <1>4, <2>1, FS_AddElement
  <2> QED
    BY <1>2, <1>3, <1>5, <2>2 DEF S
<1>6. CASE ~Straddles(q, j + 1)
  <2>1. S(j + 1) = S(j)
    BY <1>6
  <2> QED
    BY <1>2, <1>3, <1>6, <2>1
<1> QED
  BY <1>5, <1>6

LEMMA CountGrows ==
  ASSUME NEW q, NEW j \in Nat, NEW l \in Nat, j <= l
  PROVE  Cardinality({m \in 1 .. j : Straddles(q, m)}) <=
           Cardinality({m \in 1 .. l : Straddles(q, m)})
<1> DEFINE S == {m \in 1 .. j : Straddles(q, m)}
           T == {m \in 1 .. l : Straddles(q, m)}
<1>1. IsFiniteSet(T)
  <2>1. IsFiniteSet(1 .. l)
    BY FS_Interval
  <2> QED
    BY <2>1, FS_Subset
<1>2. S \in SUBSET T
  OBVIOUS
<1> HIDE DEF S, T
<1>3. Cardinality(S) <= Cardinality(T)
  BY <1>1, <1>2, FS_Subset
<1> QED
  BY <1>3 DEF S, T

-----------------------------------------------------------------------------
(* The list of commands as it grows.                                       *)
LEMMA LaidKept ==
  ASSUME NEW q \in Inputs, NEW cs, NEW ds, NEW n \in Nat, NEW v \in Nat,
         NEW x \in Nat, NEW y \in Nat, Laid(q, cs, n, x),
         \A j \in 1 .. n : ds[j] = cs[j],
         n < Turn(v), FirstOn(q, v) <= x, FirstOn(q, v) <= y
  PROVE  Laid(q, ds, n, y)
<1>1. \A u \in 0 .. n : Turn(u) <= n =>
        Turn(u) \in 1 .. n /\ StopOn(q, u, y) = StopOn(q, u, x)
  <2> SUFFICES ASSUME NEW u \in 0 .. n, Turn(u) <= n
               PROVE  Turn(u) \in 1 .. n /\ StopOn(q, u, y) = StopOn(q, u, x)
    OBVIOUS
  <2>1. u \in Nat /\ u < v /\ Turn(u) \in 1 .. n
    BY DEF Turn
  <2>2. FirstOn(q, u + 1) <= FirstOn(q, v)
    BY <2>1, TapesGrow
  <2>3. FirstOn(q, u + 1) \in Nat /\ FirstOn(q, v) \in Nat
    BY <2>1, Tapes
  <2> QED
    BY <2>1, <2>2, <2>3 DEF StopOn
<1>2. \A u \in 1 .. n : /\ Turn(u) - 3 <= n => Turn(u) - 3 \in 1 .. n
                        /\ Turn(u) - 2 <= n => Turn(u) - 2 \in 1 .. n
                        /\ Turn(u) - 1 <= n => Turn(u) - 1 \in 1 .. n
  BY DEF Turn
<1>3. n >= 4 => 1 \in 1 .. n /\ 2 \in 1 .. n /\ 3 \in 1 .. n /\ 4 \in 1 .. n
  OBVIOUS
<1> QED
  BY <1>1, <1>2, <1>3 DEF Laid

LEMMA LaidTransfer ==
  ASSUME NEW q, NEW cs, NEW v \in Nat, NEW x, Laid(q, cs, Turn(v) - 1, x),
         IsTransfer(cs[Turn(v)]),
         cs[Turn(v)].arg = StopOn(q, v, x) - FirstOn(q, v)
  PROVE  Laid(q, cs, Turn(v), x)
<1>1. \A u \in 0 .. Turn(v) : Turn(u) <= Turn(v) =>
        u = v \/ (u \in 0 .. Turn(v) - 1 /\ Turn(u) <= Turn(v) - 1)
  BY DEF Turn
<1>2. ASSUME NEW u \in 1 .. Turn(v)
      PROVE  /\ Turn(u) - 3 <= Turn(v) =>
                  u \in 1 .. Turn(v) - 1 /\ Turn(u) - 3 <= Turn(v) - 1
             /\ Turn(u) - 2 <= Turn(v) =>
                  u \in 1 .. Turn(v) - 1 /\ Turn(u) - 2 <= Turn(v) - 1
             /\ Turn(u) - 1 <= Turn(v) =>
                  u \in 1 .. Turn(v) - 1 /\ Turn(u) - 1 <= Turn(v) - 1
  BY DEF Turn
<1>3. Turn(v) - 1 >= 4 => Turn(v) >= 4
  BY DEF Turn
<1> QED
  BY <1>1, <1>2, <1>3 DEF Laid

LEMMA LaidChange ==
  ASSUME NEW q, NEW cs, NEW v \in Nat \ {0}, NEW x,
         Laid(q, cs, Turn(v) - 4, x),
         cs[Turn(v) - 3].op = "EJECT_TAPE",
         cs[Turn(v) - 2] = PlainCmd("TAKE_TAPE", TapeNo(q, v)),
         cs[Turn(v) - 1].op = "REWIND"
  PROVE  Laid(q, cs, Turn(v) - 1, x)
<1>1. \A u \in 0 .. Turn(v) - 1 : Turn(u) <= Turn(v) - 1 =>
        u \in 0 .. Turn(v) - 4 /\ Turn(u) <= Turn(v) - 4
  BY DEF Turn
<1>2. ASSUME NEW u \in 1 .. Turn(v) - 1
      PROVE  /\ Turn(u) - 3 <= Turn(v) - 1 =>
                  u = v \/ (u \in 1 .. Turn(v) - 4 /\ Turn(u) - 3 <= Turn(v) - 4)
             /\ Turn(u) - 2 <= Turn(v) - 1 =>
                  u = v \/ (u \in 1 .. Turn(v) - 4 /\ Turn(u) - 2 <= Turn(v) - 4)
             /\ Turn(u) - 1 <= Turn(v) - 1 =>
                  u = v \/ (u \in 1 .. Turn(v) - 4 /\ Turn(u) - 1 <= Turn(v) - 4)
  BY DEF Turn
<1>3. Turn(v) - 1 >= 4
  BY DEF Turn
<1> QED
  BY <1>1, <1>2, <1>3 DEF Laid

-----------------------------------------------------------------------------
(* Where a round of the loop is on the tapes.                              *)
Accounts(q, a, s) ==
  /\ s + a.cmd_total_blocks = a.addr
  /\ q.start + s + a.blocks_left_in_tape = Base(a.tape_nbr)
  /\ a.cmd_total_blocks < a.blocks_left_in_tape
  /\ a.blocks_left_in_tape <= TapeBlocks

LEMMA RoundStart ==
  ASSUME NEW q \in Inputs, NEW j \in 0 .. Len(q.segs), NEW a \in Locals,
         NEW s \in Nat, Accounts(q, a, s), a.addr = SumTo(q.segs, j)
  PROVE  /\ EndOf(q, j) = q.start + a.addr
         /\ TapeOf(EndOf(q, j)) = a.tape_nbr
         /\ EndOf(q, j) % TapeBlocks =
              TapeBlocks - (a.blocks_left_in_tape - a.cmd_total_blocks)
         /\ Base(a.tape_nbr) =
              EndOf(q, j) + (a.blocks_left_in_tape - a.cmd_total_blocks)
         /\ a.tape_nbr \in Nat \ {0}
         /\ Base(a.tape_nbr) = Base(a.tape_nbr - 1) + TapeBlocks
<1> DEFINE L == a.blocks_left_in_tape
           C == a.cmd_total_blocks
           t == a.tape_nbr
           x == EndOf(q, j)
           B == Base(t)
           A == Base(t - 1)
           o == q.start
           d == a.addr
<1>1. d \in Nat /\ C \in Nat /\ L \in Nat /\ t \in Nat
  BY DEF Locals
<1>2. o \in Nat /\ TapeBlocks \in Nat \ {0}
  BY InputType
<1>3. x = o + d
  BY DEF EndOf
<1>4. s + C = d /\ o + s + L = B /\ C < L /\ L <= TapeBlocks
  BY DEF Accounts
<1> HIDE DEF L, C, t, x, o, d
<1>5. B \in Int /\ A \in Int /\ B = A + TapeBlocks
  <2>1. (t - 1) + 1 = t /\ t - 1 \in Int
    BY <1>1
  <2>2. Base((t - 1) + 1) = Base(t - 1) + TapeBlocks /\ Base(t - 1) \in Int
    BY <2>1, BaseNext
  <2> QED
    BY <1>2, <2>1, <2>2
<1> HIDE DEF A, B
<1>6. x \in Nat /\ A <= x /\ x < B
  BY <1>1, <1>2, <1>3, <1>4, <1>5
<1>7. TapeOf(x) = t /\ x % TapeBlocks = x - A
  BY <1>1, <1>6, TheTape DEF A, B
<1>8. t # 0
  BY <1>6, <1>7, OnTape
<1>9. B = x + (L - C)
  BY <1>1, <1>2, <1>3, <1>4, <1>5
<1>10. x % TapeBlocks = TapeBlocks - (L - C)
  BY <1>1, <1>2, <1>5, <1>6, <1>7, <1>9
<1> QED
  BY <1>1, <1>3, <1>5, <1>7, <1>8, <1>9, <1>10 DEF L, C, t, x, A, B, o, d

(* The next segment: it stays, or it enters the next tape by v blocks.     *)
LEMMA RoundPlace ==
  ASSUME NEW q \in Inputs, NEW j \in 0 .. Len(q.segs), j < Len(q.segs),
         NEW a \in Locals, NEW s \in Nat, Accounts(q, a, s),
         a.addr = SumTo(q.segs, j)
  PROVE  LET n == q.segs[j + 1]
             v == a.cmd_total_blocks + n - a.blocks_left_in_tape
         IN  /\ n \in 1 .. TapeBlocks
             /\ EndOf(q, j + 1) = EndOf(q, j) + n
             /\ SumTo(q.segs, j + 1) = a.addr + n
             /\ a.tape_nbr <= NTapes
             /\ v < 0 => /\ TapeOf(EndOf(q, j + 1)) = a.tape_nbr
                         /\ ~Straddles(q, j + 1)
             /\ v >= 0 => /\ TapeOf(EndOf(q, j + 1)) = a.tape_nbr + 1
                          /\ EndOf(q, j + 1) % TapeBlocks = v
                          /\ v < TapeBlocks
                          /\ Straddles(q, j + 1) <=> v # 0
<1> DEFINE n == q.segs[j + 1]
           L == a.blocks_left_in_tape
           C == a.cmd_total_blocks
           v == C + n - L
           t == a.tape_nbr
           x == EndOf(q, j)
           y == EndOf(q, j + 1)
           A == Base(t - 1)
           B == Base(t)
           D == Base(t + 1)
           E == Base(NTapes)
           T == TapeBlocks
<1>1. a.addr \in Nat /\ C \in Nat /\ L \in Nat /\ t \in Nat
  BY DEF Locals
<1>2. q.start \in Nat /\ T \in Nat \ {0} /\ NTapes \in Nat
  BY InputType
<1>3. Len(q.segs) \in Nat /\ j + 1 \in 1 .. Len(q.segs)
        /\ j + 1 \in 0 .. Len(q.segs) /\ (j + 1) - 1 = j
  BY Segments
<1>4. n \in 1 .. T /\ y = x + n /\ x \in Nat /\ y \in Nat
  BY <1>3, Segments
<1>5. x = q.start + a.addr /\ TapeOf(x) = t /\ B = x + (L - C) /\ B = A + T
        /\ t # 0
  BY RoundStart
<1>6. Straddles(q, j + 1) <=> TapeOf(x) # TapeOf(y - 1)
  BY <1>3 DEF Straddles
<1>7. y <= EndOf(q, Len(q.segs))
  BY <1>3, SegmentsOrdered
<1>8. EndOf(q, Len(q.segs)) \in Nat /\ EndOf(q, Len(q.segs)) <= E
  <2>1. Len(q.segs) \in 0 .. Len(q.segs)
    BY <1>3
  <2> QED
    BY <2>1, Segments
<1>9. SumTo(q.segs, j + 1) = a.addr + n
  <2>1. q.start + SumTo(q.segs, j + 1) = y /\ SumTo(q.segs, j + 1) \in Nat
    BY <1>3, Segments DEF EndOf
  <2> DEFINE o == q.start
             d == a.addr
             f == SumTo(q.segs, j + 1)
  <2>2. o \in Nat /\ d \in Nat /\ o + f = y /\ f \in Nat /\ x = o + d
    BY <1>1, <1>2, <1>5, <2>1
  <2>3. n \in Nat /\ y = x + n
    BY <1>2, <1>4
  <2> HIDE DEF x, y, n, o, d, f
  <2>4. f = d + n
    BY <2>2, <2>3
  <2> QED
    BY <2>4 DEF f, d
<1>10. C < L /\ L <= T
  BY DEF Accounts
<1>11. A <= x /\ x < B
  BY <1>4, <1>5, OnTape
<1> HIDE DEF x, y, t, n, L, C
<1>12. /\ A \in Int /\ B \in Int /\ D \in Int /\ E \in Int
       /\ D = B + T /\ (t + 1) - 1 = t /\ t + 1 \in Nat
  <2>1. t - 1 \in Int /\ t \in Int /\ t + 1 \in Int /\ NTapes \in Int
    BY <1>1, <1>2
  <2>2. A \in Int /\ B \in Int /\ D \in Int /\ E \in Int /\ D = B + T
    BY <2>1, BaseNext
  <2> QED
    BY <1>1, <2>2
<1> DEFINE z == EndOf(q, Len(q.segs))
<1> HIDE DEF A, B, D, E, z, T
<1>13. /\ n \in Nat \ {0} /\ n <= T /\ y = x + n /\ x \in Nat /\ y \in Nat
       /\ B = x + (L - C) /\ B = A + T
  BY <1>2, <1>4, <1>5
<1>14. t <= NTapes
  <2> SUFFICES ASSUME NTapes < t PROVE FALSE
    BY <1>1, <1>2
  <2>1. E <= A
    <3>1. CASE NTapes = t - 1
      BY <1>12, <3>1 DEF A, E
    <3>2. CASE NTapes # t - 1
      <4>1. NTapes < t - 1 /\ t - 1 \in Int /\ NTapes \in Int
        BY <1>1, <1>2, <3>2
      <4>2. E + T <= A
        BY <4>1, BaseGrows DEF E, A, T
      <4> QED
        BY <1>2, <1>12, <4>2
    <3> QED
      BY <3>1, <3>2
  <2>2. y <= z /\ z \in Nat /\ z <= E
    BY <1>7, <1>8 DEF z
  <2> QED
    BY <1>2, <1>4, <1>11, <1>12, <1>13, <2>1, <2>2
<1>15. ASSUME v < 0
       PROVE  TapeOf(y) = t /\ ~Straddles(q, j + 1)
  <2>1. A <= y /\ y < B /\ A <= y - 1 /\ y - 1 < B /\ y - 1 \in Nat
    BY <1>1, <1>2, <1>11, <1>12, <1>13, <1>15
  <2>2. TapeOf(y) = t /\ TapeOf(y - 1) = t
    BY <1>1, <1>4, <2>1, TheTape DEF A, B
  <2> QED
    BY <1>5, <1>6, <2>2
<1>16. ASSUME v >= 0
       PROVE  /\ TapeOf(y) = t + 1 /\ y % T = v /\ v < T
              /\ Straddles(q, j + 1) <=> v # 0
  <2>1. y = B + v /\ v \in Nat /\ v < T
    BY <1>1, <1>2, <1>4, <1>5, <1>10, <1>12, <1>13, <1>16
  <2> HIDE DEF v
  <2>2. B <= y /\ y < D
    BY <1>2, <1>4, <1>12, <2>1
  <2>3. TapeOf(y) = t + 1 /\ y % T = y - B
    BY <1>4, <1>12, <2>2, TheTape DEF B, D, T
  <2>4. y % T = v
    BY <1>4, <1>12, <2>1, <2>3
  <2>5. CASE v = 0
    <3>1. A <= y - 1 /\ y - 1 < B /\ y - 1 \in Nat
      BY <1>2, <1>11, <1>12, <1>13, <2>1, <2>5
    <3>2. TapeOf(y - 1) = t
      BY <1>1, <3>1, TheTape DEF A, B
    <3> QED
      BY <1>5, <1>6, <2>1, <2>3, <2>4, <2>5, <3>2
  <2>6. CASE v # 0
    <3>1. B <= y - 1 /\ y - 1 < D /\ y - 1 \in Nat
      BY <1>4, <1>12, <2>1, <2>2, <2>6
    <3>2. TapeOf(y - 1) = t + 1
      BY <1>12, <3>1, TheTape DEF B, D
    <3>3. t # t + 1
      BY <1>1
    <3> QED
      BY <1>5, <1>6, <2>1, <2>3, <2>4, <2>6, <3>2, <3>3
  <2> QED
    BY <2>5, <2>6
<1> QED
  BY <1>4, <1>9, <1>14, <1>15, <1>16 DEF x, y, n, t, v, L, C, T

-----------------------------------------------------------------------------
(* The page table after one more round.                                    *)
LEMMA SinglesNext ==
  ASSUME NEW q, NEW j \in Nat
  PROVE  (\A l \in 1 .. j + 1 : Single(q, l)) <=>
           (\A l \in 1 .. j : Single(q, l)) /\ Single(q, j + 1)
<1>1. \A l : l \in 1 .. j + 1 <=> l \in 1 .. j \/ l = j + 1
  OBVIOUS
<1> QED
  BY <1>1, Zenon

LEMMA SingleUpToNext ==
  ASSUME NEW q, NEW j \in Nat
  PROVE  SingleUpTo(q, j + 1) <=>
           /\ \A l \in 1 .. j : Single(q, l)
           /\ IF Straddles(q, j + 1)
              THEN EndOf(q, j) % TapeBlocks = TapeBlocks - 1
              ELSE q.segs[j + 1] = 1
<1> DEFINE P(l) == IF Straddles(q, l)
                   THEN /\ EndOf(q, l - 1) % TapeBlocks = TapeBlocks - 1
                        /\ l < j + 1 => EndOf(q, l) % TapeBlocks = 1
                   ELSE q.segs[l] = 1
<1>1. \A l : l \in 1 .. j + 1 <=> l \in 1 .. j \/ l = j + 1
  OBVIOUS
<1>2. SingleUpTo(q, j + 1) <=> \A l \in 1 .. j + 1 : P(l)
  BY DEF SingleUpTo
<1>3. ~(j + 1 < j + 1) /\ (j + 1) - 1 = j /\ \A l \in 1 .. j : l < j + 1
  OBVIOUS
<1>4. \A l \in 1 .. j : P(l) <=> Single(q, l)
  BY <1>3, Zenon DEF Single
<1>5. P(j + 1) <=> IF Straddles(q, j + 1)
                   THEN EndOf(q, j) % TapeBlocks = TapeBlocks - 1
                   ELSE q.segs[j + 1] = 1
  BY <1>3, Zenon
<1> HIDE DEF P
<1>6. (\A l \in 1 .. j + 1 : P(l)) <=> (\A l \in 1 .. j : P(l)) /\ P(j + 1)
  BY <1>1, Zenon
<1> QED
  BY <1>2, <1>4, <1>5, <1>6, Zenon

LEMMA NextSegment ==
  ASSUME NEW q \in Inputs, NEW j \in 0 .. Len(q.segs), j < Len(q.segs)
  PROVE  /\ j \in Nat /\ j + 1 \in 1 .. Len(q.segs)
         /\ q.segs[j + 1] \in Nat \ {0}
<1>1. Len(q.segs) \in Nat /\ j + 1 \in 1 .. Len(q.segs)
  BY Segments
<1>2. q.segs[j + 1] \in 1 .. TapeBlocks
  BY <1>1, Segments
<1> QED
  BY <1>1, <1>2, GeometryAssumption

LEMMA TableType ==
  ASSUME NEW a \in Locals
  PROVE  /\ a.addr \in Nat /\ a.pgt \in Seq([addr : Nat, n : Nat])
         /\ Len(a.pgt) \in Nat
BY LenProperties DEF Locals

LEMMA TabledWhole ==
  ASSUME NEW q \in Inputs, NEW j \in 0 .. Len(q.segs), j < Len(q.segs),
         NEW a \in Locals, NEW b, Tabled(q, j, a), ~Straddles(q, j + 1),
         b.pgt = Append(a.pgt, PgtEntry(a.addr, q.segs[j + 1])),
         b.addr = a.addr + q.segs[j + 1]
  PROVE  Tabled(q, j + 1, b) /\ Len(b.pgt) = Len(a.pgt) + 1
<1> DEFINE n == q.segs[j + 1]
           d == a.addr
           N == Len(a.pgt)
           c == Cardinality({m \in 1 .. j : Straddles(q, m)})
<1>1. /\ d \in Nat /\ a.pgt \in Seq([addr : Nat, n : Nat]) /\ N \in Nat
      /\ j \in Nat /\ n \in Nat \ {0}
  BY NextSegment, TableType
<1>2. /\ Contiguous(a.pgt, d) /\ N = j + c /\ N <= d
      /\ N = d <=> \A l \in 1 .. j : Single(q, l)
  BY DEF Tabled
<1>3. c \in Nat /\ Cardinality({m \in 1 .. j + 1 : Straddles(q, m)}) = c
  BY <1>1, CountStraddling
<1>4. Single(q, j + 1) <=> n = 1
  BY DEF Single
<1> HIDE DEF n, d, c
<1>5. Len(b.pgt) = N + 1 /\ Contiguous(b.pgt, d + n)
  BY <1>1, <1>2, TableGrows DEF n, d
<1> HIDE DEF N
<1>6. N + 1 <= d + n /\ (N + 1 = d + n <=> N = d /\ n = 1)
        /\ N + 1 = (j + 1) + c
  BY <1>1, <1>2, <1>3
<1>7. N + 1 = d + n <=> \A l \in 1 .. j + 1 : Single(q, l)
  BY <1>1, <1>2, <1>4, <1>6, SinglesNext
<1> QED
  BY <1>3, <1>5, <1>6, <1>7 DEF Tabled, n, d, N, c

LEMMA TabledSplit ==
  ASSUME NEW q \in Inputs, NEW j \in 0 .. Len(q.segs), j < Len(q.segs),
         NEW a \in Locals, NEW b, Tabled(q, j, a), Straddles(q, j + 1),
         NEW v \in Nat \ {0}, v < q.segs[j + 1],
         EndOf(q, j) % TapeBlocks = TapeBlocks - (q.segs[j + 1] - v),
         EndOf(q, j + 1) % TapeBlocks = v,
         b.pgt = Append(Append(a.pgt, PgtEntry(a.addr, q.segs[j + 1] - v)),
                        PgtEntry(a.addr + (q.segs[j + 1] - v), v)),
         b.addr = a.addr + q.segs[j + 1]
  PROVE  Tabled(q, j + 1, b) /\ Len(b.pgt) = Len(a.pgt) + 2
<1> DEFINE n == q.segs[j + 1]
           d == a.addr
           N == Len(a.pgt)
           c == Cardinality({m \in 1 .. j : Straddles(q, m)})
           w == n - v
           p1 == Append(a.pgt, PgtEntry(d, w))
<1>1. /\ d \in Nat /\ a.pgt \in Seq([addr : Nat, n : Nat]) /\ N \in Nat
      /\ j \in Nat /\ n \in Nat \ {0}
  BY NextSegment, TableType
<1>2. /\ Contiguous(a.pgt, d) /\ N = j + c /\ N <= d
      /\ N = d <=> \A l \in 1 .. j : Single(q, l)
  BY DEF Tabled
<1>3. c \in Nat /\ Cardinality({m \in 1 .. j + 1 : Straddles(q, m)}) = c + 1
  BY <1>1, CountStraddling
<1>4. TapeBlocks \in Nat
  BY GeometryAssumption
<1>5. Single(q, j + 1) <=> TapeBlocks - w = TapeBlocks - 1 /\ v = 1
  <2>1. (j + 1) - 1 = j
    BY <1>1
  <2> QED
    BY <2>1 DEF Single
<1>6. b.pgt = Append(p1, PgtEntry(d + w, v)) /\ b.addr = d + n
  OBVIOUS
<1>7. v < n /\ w = n - v
  OBVIOUS
<1> HIDE DEF n, d, c, w
<1>8. w \in Nat \ {0} /\ d + w \in Nat
  BY <1>1, <1>7
<1>9. p1 \in Seq([addr : Nat, n : Nat]) /\ Len(p1) = N + 1
        /\ Contiguous(p1, d + w)
  BY <1>1, <1>2, <1>8, TableGrows
<1> HIDE DEF p1
<1>10. Len(b.pgt) = Len(p1) + 1 /\ Contiguous(b.pgt, (d + w) + v)
  <2> DEFINE x == d + w
  <2>1. x \in Nat /\ Contiguous(p1, x) /\ b.pgt = Append(p1, PgtEntry(x, v))
    BY <1>6, <1>8, <1>9
  <2> HIDE DEF x
  <2> DEFINE p2 == Append(p1, PgtEntry(x, v))
  <2>2. Len(p2) = Len(p1) + 1 /\ Contiguous(p2, x + v)
    BY ONLY <1>9, <2>1, v \in Nat \ {0}, TableGrows
  <2> QED
    BY <2>1, <2>2 DEF x
<1>11. (d + w) + v = d + n
  BY <1>1, <1>7
<1> HIDE DEF N
<1>12. /\ N + 2 <= d + n /\ N + 2 = (j + 1) + (c + 1)
       /\ N + 2 = d + n <=> N = d /\ w = 1 /\ v = 1
       /\ TapeBlocks - w = TapeBlocks - 1 <=> w = 1
       /\ (N + 1) + 1 = N + 2
  BY <1>1, <1>2, <1>3, <1>4, <1>7, <1>8
<1>13. N + 2 = d + n <=> \A l \in 1 .. j + 1 : Single(q, l)
  BY <1>1, <1>2, <1>5, <1>12, SinglesNext
<1> QED
  BY <1>3, <1>6, <1>9, <1>10, <1>11, <1>12, <1>13 DEF Tabled, N, c

-----------------------------------------------------------------------------
(* The commands after one more round.                                      *)
LEMMA Ordinals ==
  ASSUME NEW q \in Inputs, NEW a \in Locals
  PROVE  /\ Ordinal(q, a) \in Int
         /\ TapeNo(q, Ordinal(q, a)) = a.tape_nbr
         /\ TapeNo(q, Ordinal(q, a) + 1) = a.tape_nbr + 1
<1>1. a.tape_nbr \in Nat /\ StartTape(q.start) \in Nat
  BY InputType, StartOnTape DEF Locals
<1> QED
  BY <1>1 DEF Ordinal, TapeNo

(* After changing tapes where that is due, the commands end with the       *)
(* tape's REWIND or the setup.                                             *)
LEMMA ChangedLaid ==
  ASSUME NEW q \in Inputs, NEW j \in Nat, NEW a \in Locals, NEW s \in Nat,
         Built(q, j, a, s)
  PROVE  LET cs == ChangedCmds(a)
             u == Ordinal(q, a)
         IN  /\ cs \in Seq(Command) /\ Len(cs) = Turn(u) - 1
             /\ Len(a.cmds) <= Len(cs)
             /\ \A l \in 1 .. Len(a.cmds) : cs[l] = a.cmds[l]
             /\ Laid(q, cs, Len(cs), s)
             /\ ChangedTape(a) = a.tape_nbr
<1> DEFINE u == Ordinal(q, a)
           cs == ChangedCmds(a)
           ds == << PlainCmd("EJECT_TAPE", 0), PlainCmd("TAKE_TAPE", a.tape_nbr),
                    PlainCmd("REWIND", 0) >>
           N == Len(a.cmds)
<1>1. /\ a.cmds \in Seq(Command) /\ N \in Nat /\ a.tape_nbr \in Nat
      /\ a.prev_tape_nbr \in Nat /\ TapeNo(q, u) = a.tape_nbr
  BY LenProperties, Ordinals DEF Locals
<1>2. /\ u \in Nat /\ s = FirstOn(q, u) /\ Laid(q, a.cmds, N, s)
      /\ Stayed(q, j, a) \/ Moved(q, j, a)
  BY DEF Built
<1>3. CASE Stayed(q, j, a)
  <2>1. a.prev_tape_nbr = a.tape_nbr /\ N = Turn(u) - 1
    BY <1>3 DEF Stayed
  <2>2. cs = a.cmds /\ ChangedTape(a) = a.tape_nbr
    BY <1>1, <2>1 DEF ChangedCmds, ChangedTape
  <2> QED
    BY <1>1, <1>2, <2>1, <2>2
<1>4. CASE Moved(q, j, a)
  <2>1. a.prev_tape_nbr + 1 = a.tape_nbr /\ u # 0 /\ N = Turn(u - 1)
    BY <1>4 DEF Moved
  <2>2. cs = a.cmds \o ds /\ ChangedTape(a) = a.tape_nbr
    BY <1>1, <2>1 DEF ChangedCmds, ChangedTape
  <2>3. ds \in Seq(Command) /\ Len(ds) = 3
    BY <1>1 DEF PlainCmd, Command, Ops
  <2>4. /\ ds[1].op = "EJECT_TAPE" /\ ds[2] = PlainCmd("TAKE_TAPE", a.tape_nbr)
        /\ ds[3].op = "REWIND"
    BY DEF PlainCmd
  <2> HIDE DEF ds, cs, u, N
  <2>5. /\ cs \in Seq(Command) /\ Len(cs) = N + 3
        /\ \A l \in 1 .. N + 3 :
             cs[l] = IF l <= N THEN a.cmds[l] ELSE ds[l - N]
    <3>1. /\ a.cmds \o ds \in Seq(Command) /\ Len(a.cmds \o ds) = N + Len(ds)
          /\ \A l \in 1 .. N + Len(ds) :
               (a.cmds \o ds)[l] = IF l <= N THEN a.cmds[l] ELSE ds[l - N]
      BY <1>1, <2>3, ConcatProperties DEF N
    <3> QED
      BY <2>2, <2>3, <3>1
  <2>6. N = Turn(u) - 4 /\ N + 3 = Turn(u) - 1 /\ u \in Nat \ {0}
          /\ N + 1 = Turn(u) - 3 /\ N + 2 = Turn(u) - 2
    BY <1>2, <2>1 DEF Turn
  <2>7. \A l \in 1 .. N : l \in 1 .. N + 3 /\ l <= N
    BY <1>1
  <2>8. \A l \in 1 .. N : cs[l] = a.cmds[l]
    BY <2>5, <2>7
  <2>9. cs[N + 1] = ds[1] /\ cs[N + 2] = ds[2] /\ cs[N + 3] = ds[3]
    <3>1. /\ N + 1 \in 1 .. N + 3 /\ ~(N + 1 <= N) /\ (N + 1) - N = 1
          /\ N + 2 \in 1 .. N + 3 /\ ~(N + 2 <= N) /\ (N + 2) - N = 2
          /\ N + 3 \in 1 .. N + 3 /\ ~(N + 3 <= N) /\ (N + 3) - N = 3
      BY <1>1
    <3> QED
      BY <2>5, <3>1
  <2>10. Laid(q, cs, Turn(u) - 4, s)
    <3>1. N < Turn(u) /\ FirstOn(q, u) <= s
      BY <1>2, <2>6 DEF Turn
    <3>2. Laid(q, cs, N, s)
      BY <1>1, <1>2, <2>8, <3>1, LaidKept
    <3> QED
      BY <2>6, <3>2
  <2>11. /\ cs[Turn(u) - 3].op = "EJECT_TAPE"
         /\ cs[Turn(u) - 2] = PlainCmd("TAKE_TAPE", TapeNo(q, u))
         /\ cs[Turn(u) - 1].op = "REWIND"
    BY <1>1, <2>4, <2>6, <2>9
  <2>12. Laid(q, cs, Turn(u) - 1, s)
    BY <2>6, <2>10, <2>11, LaidChange
  <2>13. N <= N + 3
    BY <1>1
  <2> QED
    BY <2>2, <2>5, <2>6, <2>8, <2>12, <2>13 DEF cs, u, N
<1> QED
  BY <1>2, <1>3, <1>4

(* The transfer for tape u, of the blocks before y.                        *)
LEMMA TransferLaid ==
  ASSUME NEW q \in Inputs, NEW cs \in Seq(Command), NEW u \in Nat,
         Len(cs) = Turn(u) - 1, Laid(q, cs, Len(cs), FirstOn(q, u)),
         NEW y \in Nat, FirstOn(q, u) < y, y <= FirstOn(q, u + 1),
         NEW w, NEW off \in Nat
  PROVE  LET ds == Append(cs, TransferCmd(w, off, y - FirstOn(q, u)))
         IN  /\ ds \in Seq(Command) /\ Len(ds) = Turn(u)
             /\ \A l \in 1 .. Len(cs) : ds[l] = cs[l]
             /\ Laid(q, ds, Turn(u), y)
             /\ ds[Turn(u)].off = off % MaxSgEntries
<1> DEFINE f == FirstOn(q, u)
           g == FirstOn(q, u + 1)
           c == TransferCmd(w, off, y - f)
           ds == Append(cs, c)
           N == Len(cs)
<1>1. /\ f \in Nat /\ g = f + TapeBlocks - PosOn(q, u)
      /\ PosOn(q, u) \in 0 .. TapeBlocks - 1
  BY Tapes
<1>2. TapeBlocks \in Nat /\ TapeBlocks < CountWidth /\ CountWidth = 32768
  BY GeometryAssumption, TableAssumption DEF CountWidth
<1> HIDE DEF f, g
<1>3. f < y /\ y <= g
  BY DEF f, g
<1>4. y - f \in Nat /\ y - f < CountWidth
  BY <1>1, <1>2, <1>3
<1>5. (y - f) % CountWidth = y - f
  BY <1>2, <1>4
<1>6. c \in Command
  BY <1>4, TransferType
<1>7. IsTransfer(c) /\ c.arg = y - f /\ c.off = off % MaxSgEntries
  BY <1>5 DEF TransferCmd, IsTransfer
<1> HIDE DEF c
<1>8. /\ N \in Nat /\ ds \in Seq(Command) /\ Len(ds) = N + 1 /\ ds[N + 1] = c
      /\ \A l \in 1 .. N : ds[l] = cs[l]
  BY <1>6, AppendProperties, LenProperties
<1>9. N = Turn(u) - 1 /\ N < Turn(u) /\ N + 1 = Turn(u)
  BY DEF Turn
<1> HIDE DEF ds
<1>10. Laid(q, ds, N, y)
  <2>1. Laid(q, cs, N, f)
    BY DEF f
  <2>2. f <= f /\ f <= y
    BY <1>1, <1>3
  <2> HIDE DEF N
  <2> QED
    BY <1>1, <1>8, <1>9, <2>1, <2>2, LaidKept DEF f
<1>11. StopOn(q, u, y) = y
  <2>1. IF g <= y THEN g = y ELSE TRUE
    BY <1>1, <1>2, <1>3
  <2> QED
    BY <2>1 DEF StopOn, g
<1> HIDE DEF N
<1>12. ds[Turn(u)] = c /\ c.arg = StopOn(q, u, y) - FirstOn(q, u)
  BY <1>7, <1>8, <1>9, <1>11 DEF f
<1>13. Laid(q, ds, Turn(u), y)
  BY <1>7, <1>9, <1>10, <1>12, LaidTransfer
<1> QED
  BY <1>7, <1>8, <1>9, <1>12, <1>13 DEF ds, c, N, f

-----------------------------------------------------------------------------
(* A round adds entries, and it may queue the transfer for the tape it is  *)
(* on and move on.                                                         *)
Grows(q, a, b) ==
  /\ Len(a.pgt) < Len(b.pgt)
  /\ Len(a.cmds) <= Len(b.cmds)
  /\ \A l \in 1 .. Len(a.cmds) : b.cmds[l] = a.cmds[l]
  /\ \/ /\ Ordinal(q, b) = Ordinal(q, a)
        /\ b.cmd_start_pos = a.cmd_start_pos
        /\ Len(b.cmds) = Turn(Ordinal(q, a)) - 1
     \/ /\ Ordinal(q, b) = Ordinal(q, a) + 1
        /\ Len(b.cmds) = Turn(Ordinal(q, a))
        /\ b.cmds[Turn(Ordinal(q, a))].off = a.cmd_start_pos % MaxSgEntries

(* The transfers for the tapes before the current one are queued.          *)
LEMMA QueuedBefore ==
  ASSUME NEW q, NEW j, NEW a \in Locals, NEW s, Built(q, j, a, s)
  PROVE  /\ Len(a.cmds) \in Nat /\ Ordinal(q, a) \in Nat
         /\ \A u \in Nat : u < Ordinal(q, a) => Turn(u) \in 1 .. Len(a.cmds)
<1> DEFINE v == Ordinal(q, a)
           N == Len(a.cmds)
<1>1. N \in Nat
  BY LenProperties DEF Locals
<1>2. v \in Nat /\ (N = Turn(v) - 1 \/ (v # 0 /\ N = Turn(v - 1)))
  BY DEF Built, Stayed, Moved
<1> HIDE DEF v, N
<1>3. \A u \in Nat : u < v => Turn(u) \in 1 .. N
  BY <1>1, <1>2 DEF Turn
<1> QED
  BY <1>1, <1>2, <1>3 DEF v, N

LEMMA LinkKept ==
  ASSUME NEW q \in Inputs, NEW j, NEW a \in Locals, NEW b \in Locals, NEW s,
         Built(q, j, a, s), Grows(q, a, b),
         NEW m, NEW u \in 1 .. Ordinal(q, a), NEW p \in 0 .. Len(a.pgt),
         Linked(q, a, m, u, p)
  PROVE  Linked(q, b, m, u, p) /\ p \in 0 .. Len(b.pgt)
<1> DEFINE v == Ordinal(q, a)
           x == Ordinal(q, b)
           M == Len(a.pgt)
           N == Len(b.pgt)
           C == Len(a.cmds)
           D == Len(b.cmds)
<1>1. M \in Nat /\ N \in Nat /\ D \in Nat
  BY LenProperties DEF Locals
<1>2. C \in Nat /\ v \in Nat /\ \A y \in Nat : y < v => Turn(y) \in 1 .. C
  BY QueuedBefore
<1>3. /\ Entered(q, m, u, p) /\ p <= M
      /\ u = v => a.cmd_start_pos = p
      /\ Turn(u) <= C => a.cmds[Turn(u)].off = p % MaxSgEntries
  BY DEF Linked
<1>4. /\ M < N /\ C <= D /\ \A l \in 1 .. C : b.cmds[l] = a.cmds[l]
      /\ \/ x = v /\ b.cmd_start_pos = a.cmd_start_pos /\ D = Turn(v) - 1
         \/ /\ x = v + 1 /\ D = Turn(v)
            /\ b.cmds[Turn(v)].off = a.cmd_start_pos % MaxSgEntries
  BY DEF Grows
<1>5. u \in 1 .. v /\ p \in 0 .. M
  OBVIOUS
<1> HIDE DEF v, x, M, N, C, D
<1>6. p <= N /\ p < N /\ p \in 0 .. N
  BY <1>1, <1>4, <1>5
<1>7. u = x => b.cmd_start_pos = p
  BY <1>2, <1>3, <1>4, <1>5
<1>8. ASSUME Turn(u) <= D
      PROVE  b.cmds[Turn(u)].off = p % MaxSgEntries
  <2>1. CASE u < v
    <3>1. Turn(u) \in 1 .. C
      BY <1>2, <1>5, <2>1
    <3>2. Turn(u) <= C
      BY <1>2, <3>1
    <3> QED
      BY <1>3, <1>4, <3>1, <3>2
  <2>2. CASE u = v
    <3>1. D # Turn(v) - 1
      BY <1>1, <1>2, <1>8, <2>2 DEF Turn
    <3> QED
      BY <1>3, <1>4, <2>2, <3>1
  <2> QED
    BY <1>2, <1>5, <2>1, <2>2
<1> QED
  BY <1>3, <1>6, <1>7, <1>8 DEF Linked, x, N, D

LEMMA LinksKept ==
  ASSUME NEW q \in Inputs, NEW j \in Nat, NEW a \in Locals, NEW b \in Locals,
         NEW s, Built(q, j, a, s), Grows(q, a, b)
  PROVE  /\ Turn(0) <= Len(b.cmds) => b.cmds[Turn(0)].off = 0
         /\ \A u \in 1 .. Ordinal(q, a) :
              \E m \in 1 .. j, p \in 0 .. Len(b.pgt) : Linked(q, b, m, u, p)
         /\ \A m \in 1 .. j : Changes(q, m) =>
              \E u \in 1 .. Ordinal(q, a), p \in 0 .. Len(b.pgt) :
                Linked(q, b, m, u, p)
<1>1. ASSUME NEW u \in 1 .. Ordinal(q, a)
      PROVE  \E m \in 1 .. j, p \in 0 .. Len(b.pgt) : Linked(q, b, m, u, p)
  <2>1. PICK m \in 1 .. j, p \in 0 .. Len(a.pgt) : Linked(q, a, m, u, p)
    BY DEF Built
  <2>2. Linked(q, b, m, u, p) /\ p \in 0 .. Len(b.pgt)
    BY <2>1, LinkKept
  <2> QED
    BY <2>2
<1>2. ASSUME NEW m \in 1 .. j, Changes(q, m)
      PROVE  \E u \in 1 .. Ordinal(q, a), p \in 0 .. Len(b.pgt) :
               Linked(q, b, m, u, p)
  <2>1. PICK u \in 1 .. Ordinal(q, a), p \in 0 .. Len(a.pgt) :
          Linked(q, a, m, u, p)
    BY <1>2 DEF Built
  <2>2. Linked(q, b, m, u, p) /\ p \in 0 .. Len(b.pgt)
    BY <2>1, LinkKept
  <2> QED
    BY <2>2
<1>3. ASSUME Turn(0) <= Len(b.cmds)
      PROVE  b.cmds[Turn(0)].off = 0
  <2> DEFINE v == Ordinal(q, a)
             C == Len(a.cmds)
             D == Len(b.cmds)
  <2>1. C \in Nat /\ v \in Nat /\ \A y \in Nat : y < v => Turn(y) \in 1 .. C
    BY QueuedBefore
  <2>2. /\ v = 0 => a.cmd_start_pos = 0
        /\ Turn(0) <= C => a.cmds[Turn(0)].off = 0
    BY DEF Built
  <2>3. /\ \A l \in 1 .. C : b.cmds[l] = a.cmds[l]
        /\ \/ D = Turn(v) - 1
           \/ b.cmds[Turn(v)].off = a.cmd_start_pos % MaxSgEntries
    BY DEF Grows
  <2> HIDE DEF v, C
  <2>4. CASE v # 0
    <3>1. Turn(0) \in 1 .. C
      BY <2>1, <2>4
    <3>2. Turn(0) <= C
      BY <2>1, <3>1
    <3> QED
      BY <2>2, <2>3, <3>1, <3>2
  <2>5. CASE v = 0
    <3>1. D # Turn(v) - 1
      <4>1. D \in Nat /\ Turn(0) <= D
        BY <1>3, LenProperties DEF Locals
      <4> HIDE DEF D
      <4>2. Turn(0) = 5 /\ Turn(v) - 1 = 4
        BY <2>5 DEF Turn
      <4> QED
        BY <4>1, <4>2
    <3>2. 0 % MaxSgEntries = 0
      BY TableAssumption
    <3> QED
      BY <2>2, <2>3, <2>5, <3>1, <3>2
  <2> QED
    BY <2>4, <2>5
<1> QED
  BY <1>1, <1>2, <1>3

-----------------------------------------------------------------------------
(* One round of the loop.                                                  *)
LEMMA BuiltKeeps ==
  ASSUME NEW q \in Inputs, NEW j \in 0 .. Len(q.segs), j < Len(q.segs),
         NEW a \in Locals, NEW b \in Locals, NEW s \in Nat,
         Accounts(q, a, s), Built(q, j, a, s),
         Keeps(a, b, q.segs[j + 1]),
         a.cmd_total_blocks + q.segs[j + 1] < a.blocks_left_in_tape
  PROVE  Built(q, j + 1, b, s)
<1> DEFINE n == q.segs[j + 1]
           u == Ordinal(q, a)
<1>1. /\ j \in Nat /\ j + 1 \in 1 .. Len(q.segs) /\ n \in Nat \ {0}
      /\ (j + 1) - 1 = j /\ j + 1 # 0
  BY NextSegment
<1>2. /\ a.failed = FALSE /\ a.addr = SumTo(q.segs, j) /\ u \in Nat
      /\ s = FirstOn(q, u) /\ Tabled(q, j, a)
      /\ u = 0 => a.cmd_start_pos = 0
  BY DEF Built
<1>3. /\ b.pgt = Append(a.pgt, PgtEntry(a.addr, n))
      /\ b.addr = a.addr + n
      /\ b.cmd_start_pos = a.cmd_start_pos
      /\ b.cmd_total_blocks = a.cmd_total_blocks + n
      /\ b.tape_nbr = a.tape_nbr /\ b.failed = a.failed
      /\ b.cmds = ChangedCmds(a) /\ b.prev_tape_nbr = ChangedTape(a)
  BY DEF Keeps
<1>4. a.cmd_total_blocks \in Nat /\ a.blocks_left_in_tape \in Nat
  BY DEF Locals
<1>5. a.cmd_total_blocks + n - a.blocks_left_in_tape < 0
        /\ a.cmd_total_blocks + n # 0
  <2> DEFINE C == a.cmd_total_blocks
             L == a.blocks_left_in_tape
  <2>1. C \in Nat /\ L \in Nat /\ C + n < L
    BY <1>4
  <2> HIDE DEF n, C, L
  <2>2. C + n - L < 0 /\ C + n # 0
    BY <1>1, <2>1
  <2> QED
    BY <2>2 DEF C, L
<1>6. /\ SumTo(q.segs, j + 1) = a.addr + n
      /\ TapeOf(EndOf(q, j + 1)) = a.tape_nbr /\ ~Straddles(q, j + 1)
  BY <1>2, <1>5, RoundPlace
<1>7. TapeOf(EndOf(q, j)) = a.tape_nbr
  BY <1>2, RoundStart
<1>8. ~Changes(q, j + 1)
  BY <1>1, <1>6, <1>7 DEF Changes
<1>9. Tabled(q, j + 1, b) /\ Len(b.pgt) = Len(a.pgt) + 1
  BY <1>2, <1>3, <1>6, TabledWhole
<1>10. /\ b.cmds \in Seq(Command) /\ Len(b.cmds) = Turn(u) - 1
       /\ Len(a.cmds) <= Len(b.cmds)
       /\ \A l \in 1 .. Len(a.cmds) : b.cmds[l] = a.cmds[l]
       /\ Laid(q, b.cmds, Len(b.cmds), s)
       /\ b.prev_tape_nbr = a.tape_nbr
  BY <1>1, <1>3, ChangedLaid
<1>11. Ordinal(q, b) = u
  BY <1>3 DEF Ordinal
<1>12. Len(a.pgt) < Len(b.pgt)
  BY <1>9, TableType
<1> HIDE DEF n, u
<1>13. Grows(q, a, b)
  BY <1>3, <1>10, <1>11, <1>12 DEF Grows, u
<1>14. /\ Turn(0) <= Len(b.cmds) => b.cmds[Turn(0)].off = 0
       /\ \A x \in 1 .. u :
            \E m \in 1 .. j, p \in 0 .. Len(b.pgt) : Linked(q, b, m, x, p)
       /\ \A m \in 1 .. j : Changes(q, m) =>
            \E x \in 1 .. u, p \in 0 .. Len(b.pgt) : Linked(q, b, m, x, p)
  BY <1>1, <1>13, LinksKept DEF u
<1>15. \A m : m \in 1 .. j + 1 <=> m \in 1 .. j \/ m = j + 1
  BY <1>1
<1>16. Stayed(q, j + 1, b)
  BY <1>3, <1>5, <1>8, <1>10, <1>11 DEF Stayed
<1>17. /\ \A x \in 1 .. Ordinal(q, b) :
            \E m \in 1 .. j + 1, p \in 0 .. Len(b.pgt) : Linked(q, b, m, x, p)
       /\ \A m \in 1 .. j + 1 : Changes(q, m) =>
            \E x \in 1 .. Ordinal(q, b), p \in 0 .. Len(b.pgt) :
              Linked(q, b, m, x, p)
  BY <1>8, <1>11, <1>14, <1>15, Zenon
<1>18. b.addr = SumTo(q.segs, j + 1) /\ b.failed = FALSE
         /\ (Ordinal(q, b) = 0 => b.cmd_start_pos = 0)
  BY <1>2, <1>3, <1>6, <1>11
<1> QED
  BY <1>2, <1>9, <1>10, <1>11, <1>14, <1>16, <1>17, <1>18 DEF Built

(* The tape a segment enters, and the entry with which it does.            *)
LEMMA NewEntry ==
  ASSUME NEW q \in Inputs, NEW j \in 0 .. Len(q.segs), j < Len(q.segs),
         NEW a \in Locals, NEW s \in Nat,
         Accounts(q, a, s), Built(q, j, a, s), NEW v \in Nat,
         v = a.cmd_total_blocks + q.segs[j + 1] - a.blocks_left_in_tape
  PROVE  LET u == Ordinal(q, a) + 1
         IN  /\ Entered(q, j + 1, u, Len(a.pgt) + 1)
             /\ FirstOn(q, u) = s + a.blocks_left_in_tape
             /\ v < q.segs[j + 1]
             /\ EndOf(q, j) % TapeBlocks = TapeBlocks - (q.segs[j + 1] - v)
             /\ EndOf(q, j + 1) % TapeBlocks = v
             /\ Straddles(q, j + 1) <=> v # 0
             /\ SumTo(q.segs, j + 1) = a.addr + q.segs[j + 1]
<1> DEFINE n == q.segs[j + 1]
           u == Ordinal(q, a)
           C == a.cmd_total_blocks
           L == a.blocks_left_in_tape
           d == a.addr
           t == a.tape_nbr
           o == q.start
           N == Len(a.pgt)
           w == n - v
           T == TapeBlocks
<1>1. /\ j \in Nat /\ j + 1 \in 1 .. Len(q.segs) /\ n \in Nat \ {0}
      /\ (j + 1) - 1 = j
  BY NextSegment
<1>2. /\ d = SumTo(q.segs, j) /\ u \in Nat /\ s = FirstOn(q, u)
      /\ Tabled(q, j, a)
  BY DEF Built
<1>3. C \in Nat /\ L \in Nat /\ d \in Nat /\ t \in Nat /\ N \in Nat
        /\ o \in Nat /\ T \in Nat \ {0}
  BY TableType, InputType DEF Locals
<1>4. s + C = d /\ o + s + L = Base(t) /\ C < L
  BY DEF Accounts
<1>5. v = C + n - L /\ v >= 0
  OBVIOUS
<1>6. /\ SumTo(q.segs, j + 1) = d + n /\ TapeOf(EndOf(q, j + 1)) = t + 1
      /\ EndOf(q, j + 1) % T = v
      /\ Straddles(q, j + 1) <=> v # 0
  BY <1>2, <1>5, RoundPlace
<1>7. TapeOf(EndOf(q, j)) = t /\ EndOf(q, j) % T = T - (L - C)
  BY <1>2, RoundStart
<1>8. TapeNo(q, u) = t /\ TapeNo(q, u + 1) = t + 1
  BY Ordinals
<1>9. FirstOn(q, u + 1) = Base(t) - o
  BY <1>2, <1>8, Tapes
<1>10. N <= d /\ (N = d <=> \A l \in 1 .. j : Single(q, l))
  BY <1>2 DEF Tabled
<1>11. SingleUpTo(q, j + 1) <=>
         /\ \A l \in 1 .. j : Single(q, l)
         /\ IF Straddles(q, j + 1) THEN EndOf(q, j) % T = T - 1 ELSE n = 1
  BY <1>1, SingleUpToNext
<1> HIDE DEF n, u, C, L, d, t, o, N, T
<1>12. w = L - C /\ w \in Nat \ {0} /\ v < n /\ (v = 0 => w = n)
  <2>1. C \in Nat /\ L \in Nat /\ n \in Nat /\ C < L /\ v = C + n - L
    BY <1>1, <1>3, <1>4, <1>5
  <2>2. n - v = L - C
    BY ONLY <2>1
  <2>3. L - C \in Nat \ {0} /\ v < n /\ (v = 0 => L - C = n)
    BY ONLY <2>1
  <2> QED
    BY <2>2, <2>3
<1>13. ChangesTo(q, j + 1, u + 1)
  <2>1. (t + 1) - 1 = t
    BY <1>3
  <2> QED
    BY <1>1, <1>6, <1>7, <1>8, <2>1 DEF ChangesTo
<1>14. FirstOn(q, u + 1) = s + L
  <2> DEFINE B == Base(t)
  <2>1. o + s + L = B /\ FirstOn(q, u + 1) = B - o
    BY <1>4, <1>9
  <2> HIDE DEF B
  <2> QED
    BY <1>3, <2>1
<1>15. s + L = d + w
  BY <1>3, <1>4, <1>12
<1> HIDE DEF w
<1>16. N + 1 <= d + w /\ (N + 1 = d + w <=> N = d /\ w = 1)
  BY <1>3, <1>10, <1>12
<1>17. EndOf(q, j) % T = T - w /\ (T - w = T - 1 <=> w = 1)
  BY <1>3, <1>7, <1>12
<1>18. (IF Straddles(q, j + 1) THEN EndOf(q, j) % T = T - 1 ELSE n = 1)
         <=> w = 1
  BY <1>6, <1>12, <1>17
<1>19. N + 1 = d + w <=> SingleUpTo(q, j + 1)
  BY <1>10, <1>11, <1>16, <1>18
<1>20. Entered(q, j + 1, u + 1, N + 1)
  BY <1>13, <1>14, <1>15, <1>16, <1>19 DEF Entered
<1> QED
  BY <1>6, <1>12, <1>14, <1>17, <1>20 DEF n, u, L, C, d, t, N, w, T

LEMMA BuiltEnters ==
  ASSUME NEW q \in Inputs, NEW j \in 0 .. Len(q.segs), j < Len(q.segs),
         NEW a \in Locals, NEW b \in Locals, NEW s \in Nat, NEW w,
         Accounts(q, a, s), Built(q, j, a, s), NEW v \in Nat,
         v = a.cmd_total_blocks + q.segs[j + 1] - a.blocks_left_in_tape,
         Enters(a, b, q.segs[j + 1], v, w)
  PROVE  Built(q, j + 1, b, s + a.blocks_left_in_tape)
<1> DEFINE n == q.segs[j + 1]
           u == Ordinal(q, a)
           L == a.blocks_left_in_tape
           N == Len(a.pgt)
<1>1. /\ j \in Nat /\ j + 1 \in 1 .. Len(q.segs) /\ n \in Nat \ {0}
      /\ (j + 1) - 1 = j /\ j + 1 # 0
  BY NextSegment
<1>2. /\ a.failed = FALSE /\ u \in Nat /\ s = FirstOn(q, u) /\ Tabled(q, j, a)
  BY DEF Built
<1>3. /\ b.pgt = IF v = 0 THEN Append(a.pgt, PgtEntry(a.addr, n - v))
                 ELSE Append(Append(a.pgt, PgtEntry(a.addr, n - v)),
                             PgtEntry(a.addr + (n - v), v))
      /\ b.addr = a.addr + n
      /\ b.cmd_start_pos = N + 1
      /\ b.cmd_total_blocks = v
      /\ b.tape_nbr = a.tape_nbr + 1 /\ b.failed = a.failed
      /\ b.cmds = Append(ChangedCmds(a), TransferCmd(w, a.cmd_start_pos, L))
      /\ b.prev_tape_nbr = ChangedTape(a)
  BY DEF Enters
<1>4. /\ Entered(q, j + 1, u + 1, N + 1)
      /\ FirstOn(q, u + 1) = s + L
      /\ v < n
      /\ EndOf(q, j) % TapeBlocks = TapeBlocks - (n - v)
      /\ EndOf(q, j + 1) % TapeBlocks = v
      /\ Straddles(q, j + 1) <=> v # 0
      /\ SumTo(q.segs, j + 1) = a.addr + n
  BY NewEntry
<1>5. L \in Nat /\ a.cmd_start_pos \in Nat /\ a.tape_nbr \in Nat /\ N \in Nat
  BY TableType DEF Locals
<1>6. L # 0
  <2>1. a.cmd_total_blocks < L /\ a.cmd_total_blocks \in Nat
    BY DEF Accounts, Locals
  <2> QED
    BY ONLY <1>5, <2>1
(* The table.                                                              *)
<1>7. /\ Tabled(q, j + 1, b) /\ N < Len(b.pgt) /\ N + 1 <= Len(b.pgt)
      /\ Len(b.pgt) \in Nat
  <2>1. CASE v = 0
    <3>1. n - v = n
      BY <1>1, <2>1
    <3>2. b.pgt = Append(a.pgt, PgtEntry(a.addr, n)) /\ ~Straddles(q, j + 1)
      BY <1>3, <1>4, <2>1, <3>1
    <3>3. Tabled(q, j + 1, b) /\ Len(b.pgt) = N + 1
      BY <1>2, <1>3, <3>2, TabledWhole
    <3> QED
      BY <1>5, <3>3
  <2>2. CASE v # 0
    <3>1. v \in Nat \ {0} /\ Straddles(q, j + 1)
      BY <1>4, <2>2
    <3>2. b.pgt = Append(Append(a.pgt, PgtEntry(a.addr, n - v)),
                         PgtEntry(a.addr + (n - v), v))
      BY <1>3, <2>2
    <3>3. Tabled(q, j + 1, b) /\ Len(b.pgt) = N + 2
      BY <1>2, <1>3, <1>4, <3>1, <3>2, TabledSplit
    <3> QED
      BY <1>5, <3>3
  <2> QED
    BY <2>1, <2>2
(* The commands.                                                           *)
<1>8. PICK cs : cs = ChangedCmds(a)
  OBVIOUS
<1>9. /\ cs \in Seq(Command) /\ Len(cs) = Turn(u) - 1
      /\ Len(a.cmds) <= Len(cs)
      /\ \A l \in 1 .. Len(a.cmds) : cs[l] = a.cmds[l]
      /\ Laid(q, cs, Len(cs), s)
      /\ ChangedTape(a) = a.tape_nbr
  BY <1>1, <1>8, ChangedLaid
<1>10. /\ b.cmds \in Seq(Command) /\ Len(b.cmds) = Turn(u)
       /\ \A l \in 1 .. Len(cs) : b.cmds[l] = cs[l]
       /\ Laid(q, b.cmds, Turn(u), s + L)
       /\ b.cmds[Turn(u)].off = a.cmd_start_pos % MaxSgEntries
  <2> DEFINE y == s + L
             off == a.cmd_start_pos
             ds == Append(cs, TransferCmd(w, off, y - FirstOn(q, u)))
  <2>1. y - FirstOn(q, u) = L /\ y \in Nat /\ FirstOn(q, u) < y
          /\ y <= FirstOn(q, u + 1)
    <3> DEFINE f == FirstOn(q, u)
               g == FirstOn(q, u + 1)
    <3>1. s = f /\ g = s + L
      BY <1>2, <1>4
    <3> HIDE DEF f, g, L, u
    <3>2. y - f = L /\ y \in Nat /\ f < y /\ y <= g
      BY ONLY <1>5, <1>6, <3>1, s \in Nat
    <3> QED
      BY <3>2 DEF f, g
  <2>2. b.cmds = ds
    BY <1>3, <1>8, <2>1
  <2>3. Laid(q, cs, Len(cs), FirstOn(q, u)) /\ off \in Nat
    BY <1>2, <1>5, <1>9
  <2> HIDE DEF y, off, u
  <2>4. /\ ds \in Seq(Command) /\ Len(ds) = Turn(u)
        /\ \A l \in 1 .. Len(cs) : ds[l] = cs[l]
        /\ Laid(q, ds, Turn(u), y)
        /\ ds[Turn(u)].off = off % MaxSgEntries
    <3>1. /\ q \in Inputs /\ cs \in Seq(Command) /\ u \in Nat
          /\ Len(cs) = Turn(u) - 1 /\ Laid(q, cs, Len(cs), FirstOn(q, u))
          /\ y \in Nat /\ FirstOn(q, u) < y /\ y <= FirstOn(q, u + 1)
          /\ off \in Nat
      BY <1>2, <1>9, <2>1, <2>3
    <3> QED
      BY ONLY <3>1, TransferLaid
  <2> QED
    BY <2>2, <2>4 DEF y, off
<1>11. Ordinal(q, b) = u + 1
  <2>1. StartTape(q.start) \in Nat
    BY InputType, StartOnTape
  <2> QED
    BY <1>3, <1>5, <2>1 DEF Ordinal
<1> HIDE DEF n, u, L
<1>12. Grows(q, a, b)
  <2>1. Len(a.cmds) <= Turn(u) /\ \A l \in 1 .. Len(a.cmds) : l \in 1 .. Len(cs)
    <3>1. Len(a.cmds) \in Nat
      BY LenProperties DEF Locals
    <3>2. Turn(u) \in Nat
      BY <1>2 DEF Turn
    <3> QED
      BY <1>9, <3>1, <3>2
  <2>2. \A l \in 1 .. Len(a.cmds) : b.cmds[l] = a.cmds[l]
    BY <1>9, <1>10, <2>1
  <2> QED
    BY <1>7, <1>10, <1>11, <2>1, <2>2 DEF Grows, u
<1>13. /\ Turn(0) <= Len(b.cmds) => b.cmds[Turn(0)].off = 0
       /\ \A x \in 1 .. u :
            \E m \in 1 .. j, p \in 0 .. Len(b.pgt) : Linked(q, b, m, x, p)
       /\ \A m \in 1 .. j : Changes(q, m) =>
            \E x \in 1 .. u, p \in 0 .. Len(b.pgt) : Linked(q, b, m, x, p)
  BY <1>1, <1>12, LinksKept DEF u
(* The new link.                                                           *)
<1>14. Linked(q, b, j + 1, u + 1, N + 1) /\ N + 1 \in 0 .. Len(b.pgt)
  <2>1. ~(Turn(u + 1) <= Len(b.cmds))
    BY <1>2, <1>10 DEF Turn
  <2>2. b.prev_tape_nbr # b.tape_nbr
    BY <1>3, <1>5, <1>9
  <2> QED
    BY <1>3, <1>4, <1>5, <1>7, <1>11, <2>1, <2>2 DEF Linked
<1>15. /\ \A m : m \in 1 .. j + 1 <=> m \in 1 .. j \/ m = j + 1
       /\ \A x : x \in 1 .. u + 1 <=> x \in 1 .. u \/ x = u + 1
  BY <1>1, <1>2
<1>16. /\ \A x \in 1 .. u + 1 :
            \E m \in 1 .. j + 1, p \in 0 .. Len(b.pgt) : Linked(q, b, m, x, p)
       /\ \A m \in 1 .. j + 1 : Changes(q, m) =>
            \E x \in 1 .. u + 1, p \in 0 .. Len(b.pgt) :
              Linked(q, b, m, x, p)
  <2> HIDE DEF N
  <2> QED
    BY <1>13, <1>14, <1>15, Zenon
<1>17. Moved(q, j + 1, b)
  <2>1. ChangesTo(q, j + 1, u + 1)
    BY <1>4 DEF Entered
  <2>2. u + 1 # 0 /\ (u + 1) - 1 = u
    BY <1>2
  <2> QED
    BY <1>1, <1>3, <1>4, <1>9, <1>10, <1>11, <2>1, <2>2 DEF Moved
<1>18. u + 1 \in Nat /\ u + 1 # 0
  BY <1>2
<1>19. b.addr = SumTo(q.segs, j + 1) /\ b.failed = FALSE
  BY <1>2, <1>3, <1>4
<1> QED
  BY <1>4, <1>7, <1>10, <1>11, <1>13, <1>16, <1>17, <1>18, <1>19 DEF Built, L

(* A round gives up only on a request whose entries do not fit the table.  *)
LEMMA BuiltStep ==
  ASSUME NEW q \in Inputs, NEW j \in 0 .. Len(q.segs), j < Len(q.segs),
         NEW a \in Locals, NEW s \in Nat, NEW w,
         Accounts(q, a, s), Built(q, j, a, s)
  PROVE  LET b == SgStep(a, q.segs[j + 1], w)
         IN  \/ b.failed = TRUE /\ ~TableFits(q)
             \/ /\ b.failed = FALSE /\ b.tape_nbr = a.tape_nbr
                /\ Built(q, j + 1, b, s)
             \/ /\ b.failed = FALSE /\ b.tape_nbr # a.tape_nbr
                /\ Built(q, j + 1, b, s + a.blocks_left_in_tape)
<1> DEFINE n == q.segs[j + 1]
           b == SgStep(a, n, w)
           C == a.cmd_total_blocks
           L == a.blocks_left_in_tape
           v == C + n - L
           t == a.tape_nbr
<1>1. j \in Nat /\ j + 1 \in 1 .. Len(q.segs) /\ n \in Nat /\ n # 0
  BY NextSegment
<1>2. C \in Nat /\ L \in Nat /\ t \in Nat
  BY DEF Locals
<1>3. C < L
  BY DEF Accounts
<1>4. /\ a.failed = FALSE /\ a.addr = SumTo(q.segs, j) /\ Tabled(q, j, a)
  BY DEF Built
<1>5. b \in Locals
  BY <1>1, <1>3, RoundType
<1>6. ~(t > NTapes)
  <2>1. t <= NTapes /\ NTapes \in Nat
    BY <1>4, RoundPlace, InputType
  <2> HIDE DEF t
  <2> QED
    BY <1>2, <2>1
<1>7. CASE C + n < L
  <2>1. Keeps(a, b, n)
    BY <1>1, <1>6, <1>7, KeepsFields
  <2>2. b.failed = FALSE /\ b.tape_nbr = t
    BY <1>4, <2>1 DEF Keeps
  <2>3. Built(q, j + 1, b, s)
    BY <1>5, <1>7, <2>1, BuiltKeeps
  <2> QED
    BY <2>2, <2>3
<1>8. CASE ~(C + n < L)
  <2>1. v \in Nat
    <3> HIDE DEF C, n, L
    <3> QED
      BY ONLY <1>1, <1>2, <1>8
  <2>2. IF v # 0 /\ Len(a.pgt) + 1 > MaxSgEntries THEN b.failed = TRUE
        ELSE Enters(a, b, n, v, w)
    BY <1>1, <1>6, <2>1, EntersFields
  <2>3. CASE ~(v # 0 /\ Len(a.pgt) + 1 > MaxSgEntries)
    <3>1. Enters(a, b, n, v, w)
      BY <2>2, <2>3
    <3>2. b.failed = FALSE /\ b.tape_nbr = t + 1
      BY <1>4, <3>1 DEF Enters
    <3>3. Built(q, j + 1, b, s + L)
      BY <1>5, <2>1, <3>1, BuiltEnters
    <3>4. t + 1 # t
      BY <1>2
    <3> QED
      BY <3>2, <3>3, <3>4
  <2>4. CASE v # 0 /\ Len(a.pgt) + 1 > MaxSgEntries
    <3> DEFINE K(l) == Cardinality({m \in 1 .. l : Straddles(q, m)})
               M == Len(q.segs)
    <3>1. Straddles(q, j + 1)
      BY <2>1, <2>4, NewEntry
    <3>2. K(j) \in Nat /\ K(j + 1) = K(j) + 1
      BY <1>1, <3>1, CountStraddling
    <3>3. M \in Nat /\ j + 1 \in Nat /\ j + 1 <= M
      BY <1>1, Segments
    <3>4. K(j + 1) <= K(M) /\ K(M) \in Nat
      BY <3>3, CountGrows, CountStraddling
    <3>5. Len(a.pgt) = j + K(j)
      BY <1>4 DEF Tabled
    <3>6. TableFits(q) <=> M + K(M) <= MaxSgEntries
      BY DEF TableFits
    <3>7. MaxSgEntries \in Nat
      BY TableAssumption
    <3> HIDE DEF K, M
    <3>8. ~(M + K(M) <= MaxSgEntries)
      BY ONLY <1>1, <2>4, <3>2, <3>3, <3>4, <3>5, <3>7
    <3>9. b.failed = TRUE
      BY <2>2, <2>4
    <3> QED
      BY <3>6, <3>8, <3>9
  <2> QED
    BY <2>3, <2>4
<1> QED
  BY <1>7, <1>8

(* Before the first round.                                                 *)
LEMMA BuiltInit ==
  ASSUME NEW q \in Inputs
  PROVE  Built(q, 0, SgInit(q), 0)
<1> DEFINE a == SgInit(q)
           cs == SetupCmds(q.start)
<1>1. /\ a.cmds = cs /\ a.pgt = << >> /\ a.addr = 0 /\ a.cmd_start_pos = 0
      /\ a.tape_nbr = StartTape(q.start) /\ a.prev_tape_nbr = a.tape_nbr
      /\ a.failed = FALSE
  BY DEF SgInit
<1> HIDE DEF a
<1>2. q.start \in Nat /\ StartTape(q.start) \in Nat
  BY InputType, StartOnTape
<1>3. Ordinal(q, a) = 0
  BY <1>1, <1>2 DEF Ordinal
<1>4. SumTo(q.segs, 0) = 0
  <2>1. q.segs \in Seq(Nat)
    <3>1. 1 .. TapeBlocks \subseteq Nat /\ q.segs \in Seq(1 .. TapeBlocks)
      BY InputType
    <3> QED
      BY <3>1, SeqMonotonic
  <2> QED
    BY <2>1, SumRecursion
<1>5. Len(cs) = 4 /\ cs[1].op = "EJECT_TAPE"
        /\ cs[2] = PlainCmd("TAKE_TAPE", StartTape(q.start))
        /\ cs[3].op = "REWIND"
        /\ cs[4] = PlainCmd("FAST_FWD", StartBlock(q.start))
  BY DEF SetupCmds, PlainCmd
<1> HIDE DEF cs
<1>6. TapeNo(q, 0) = StartTape(q.start) /\ PosOn(q, 0) = StartBlock(q.start)
        /\ FirstOn(q, 0) = 0
  BY <1>2 DEF TapeNo, PosOn, FirstOn
<1>7. Laid(q, cs, 4, 0)
  <2>1. /\ \A u \in 0 .. 4 : ~(Turn(u) <= 4)
        /\ \A u \in 1 .. 4 : ~(Turn(u) - 3 <= 4) /\ ~(Turn(u) - 2 <= 4)
                               /\ ~(Turn(u) - 1 <= 4)
    BY DEF Turn
  <2> QED
    BY <1>5, <1>6, <2>1 DEF Laid
<1>8. Tabled(q, 0, a)
  <2>1. Len(a.pgt) = 0 /\ a.addr = 0
    BY <1>1
  <2>2. Contiguous(a.pgt, 0)
    BY <2>1 DEF Contiguous, EndsAt
  <2>3. Cardinality({m \in 1 .. 0 : Straddles(q, m)}) = 0
    BY CountStraddling
  <2>4. \A l \in 1 .. 0 : Single(q, l)
    OBVIOUS
  <2> QED
    BY <2>1, <2>2, <2>3, <2>4 DEF Tabled
<1>9. Turn(0) = 5
  BY DEF Turn
<1>10. Stayed(q, 0, a)
  BY <1>1, <1>3, <1>5, <1>9 DEF Stayed
<1>11. Built(q, 0, a, 0)
  <2>1. \A m \in 1 .. 0 : FALSE
    OBVIOUS
  <2> QED
    BY <1>1, <1>3, <1>4, <1>5, <1>6, <1>7, <1>8, <1>9, <1>10, <2>1 DEF Built
<1> QED
  BY <1>11 DEF a

-----------------------------------------------------------------------------
(* Handing over.                                                           *)
LEMMA TapesOrdered ==
  ASSUME NEW m \in Nat, NEW n \in Nat, m <= n
  PROVE  TapeOf(m) <= TapeOf(n)
<1> DEFINE s == TapeOf(m)
           t == TapeOf(n)
<1>1. /\ s \in Nat \ {0} /\ Base(s - 1) <= m /\ m < Base(s)
      /\ t \in Nat \ {0} /\ Base(t - 1) <= n /\ n < Base(t)
  BY OnTape
<1> HIDE DEF s, t
<1> SUFFICES ASSUME t < s PROVE FALSE
  BY <1>1 DEF s, t
<1>2. Base(t) \in Int /\ Base(s - 1) \in Int /\ TapeBlocks \in Nat
  BY <1>1, BaseNext, GeometryAssumption
<1>3. t = s - 1 \/ t < s - 1
  BY <1>1
<1>4. Base(t) <= Base(s - 1)
  <2>1. CASE t = s - 1
    BY <1>2, <2>1
  <2>2. CASE t < s - 1
    <3>1. t \in Int /\ s - 1 \in Int
      BY <1>1
    <3>2. Base(t) + TapeBlocks <= Base(s - 1)
      BY <2>2, <3>1, BaseGrows
    <3> QED
      BY <1>2, <3>2
  <2> QED
    BY <1>3, <2>1, <2>2
<1> QED
  BY <1>1, <1>2, <1>4

LEMMA StaysOnOneTape ==
  ASSUME NEW q \in Inputs, NEW m \in 1 .. Len(q.segs), ~Changes(q, m)
  PROVE  ~Straddles(q, m)
<1> DEFINE x == EndOf(q, m - 1)
           y == EndOf(q, m)
<1>1. Len(q.segs) \in Nat /\ m - 1 \in 0 .. Len(q.segs) /\ m \in 0 .. Len(q.segs)
        /\ m - 1 < m
  BY Segments
<1>2. x \in Nat /\ y \in Nat /\ x < y
  BY <1>1, Segments, SegmentsGrow
<1>3. TapeOf(x) = TapeOf(y)
  BY DEF Changes
<1> HIDE DEF x, y
<1>4. y - 1 \in Nat /\ x <= y - 1 /\ y - 1 <= y
  BY <1>2
<1>5. TapeOf(x) <= TapeOf(y - 1) /\ TapeOf(y - 1) <= TapeOf(y)
  BY <1>2, <1>4, TapesOrdered
<1>6. TapeOf(x) \in Nat /\ TapeOf(y - 1) \in Nat
  BY <1>2, <1>4, OnTape
<1>7. TapeOf(x) = TapeOf(y - 1)
  BY <1>3, <1>5, <1>6
<1> QED
  BY <1>7 DEF Straddles, x, y

(* Only one segment moves on to a tape.                                    *)
LEMMA OneChange ==
  ASSUME NEW q \in Inputs, NEW l \in 1 .. Len(q.segs),
         NEW m \in 1 .. Len(q.segs), NEW u \in Nat,
         ChangesTo(q, l, u), ChangesTo(q, m, u)
  PROVE  ~(l < m)
<1> SUFFICES ASSUME l < m PROVE FALSE
  OBVIOUS
<1>1. /\ Len(q.segs) \in Nat /\ l \in 0 .. Len(q.segs)
      /\ m - 1 \in 0 .. Len(q.segs) /\ (l = m - 1 \/ l < m - 1)
  <2> DEFINE M == Len(q.segs)
  <2>1. M \in Nat /\ l \in 1 .. M /\ m \in 1 .. M
    BY Segments
  <2> HIDE DEF M
  <2>2. l \in 0 .. M /\ m - 1 \in 0 .. M /\ (l = m - 1 \/ l < m - 1)
    BY <2>1
  <2> QED
    BY <2>1, <2>2 DEF M
<1>2. EndOf(q, l) \in Nat /\ EndOf(q, m - 1) \in Nat
  BY <1>1, Segments
<1>3. EndOf(q, l) = EndOf(q, m - 1) \/ EndOf(q, l) < EndOf(q, m - 1)
  BY <1>1, SegmentsGrow
<1>4. EndOf(q, l) <= EndOf(q, m - 1)
  BY <1>2, <1>3
<1>5. TapeOf(EndOf(q, l)) <= TapeOf(EndOf(q, m - 1))
  BY <1>2, <1>4, TapesOrdered
<1>6. TapeOf(EndOf(q, l)) = TapeNo(q, u)
        /\ TapeOf(EndOf(q, m - 1)) = TapeNo(q, u) - 1
  BY DEF ChangesTo
<1>7. TapeNo(q, u) \in Nat
  BY Tapes
<1> QED
  BY <1>5, <1>6, <1>7

LEMMA ChangesIsChange ==
  ASSUME NEW q \in Inputs, NEW m, NEW u \in Nat, ChangesTo(q, m, u)
  PROVE  Changes(q, m)
<1>1. TapeNo(q, u) \in Nat
  BY Tapes
<1>2. TapeNo(q, u) - 1 # TapeNo(q, u)
  BY <1>1
<1> QED
  BY <1>2 DEF Changes, ChangesTo

(* The loop at its end: how many blocks, and which tape they end on.       *)
LEMMA AtTheEnd ==
  ASSUME NEW q \in Inputs, NEW a \in Locals, NEW s \in Nat,
         Accounts(q, a, s), Built(q, Len(q.segs), a, s)
  PROVE  LET u == Ordinal(q, a)
             M == Len(q.segs)
         IN  /\ M \in 1 .. M /\ M \in Nat /\ u \in Nat
             /\ a.addr = SumOf(q.segs) /\ a.addr \in Nat
             /\ s = FirstOn(q, u) /\ a.addr = s + a.cmd_total_blocks
             /\ a.cmd_total_blocks \in Nat
             /\ a.cmd_total_blocks < CountWidth
             /\ a.addr < FirstOn(q, u + 1)
             /\ TapeOf(EndOf(q, M)) = TapeNo(q, u)
<1> DEFINE u == Ordinal(q, a)
           M == Len(q.segs)
           C == a.cmd_total_blocks
           L == a.blocks_left_in_tape
           d == a.addr
           o == q.start
           t == a.tape_nbr
           B == Base(t)
           x == EndOf(q, M)
           f == FirstOn(q, u + 1)
<1>1. M \in 1 .. M /\ M \in Nat /\ M \in 0 .. M
  BY Segments
<1>2. u \in Nat /\ s = FirstOn(q, u) /\ d = SumTo(q.segs, M)
  BY DEF Built
<1>3. C \in Nat /\ L \in Nat /\ d \in Nat /\ o \in Nat
        /\ TapeBlocks \in Nat /\ TapeBlocks < CountWidth /\ CountWidth = 32768
  BY TableType, InputType, TableAssumption DEF Locals, CountWidth
<1>4. s + C = d /\ C < L /\ L <= TapeBlocks
  BY DEF Accounts
<1>5. x = o + d /\ TapeOf(x) = t /\ B = x + (L - C)
  BY <1>1, <1>2, RoundStart
<1>6. TapeNo(q, u) = t
  BY Ordinals
<1>7. f = B - o
  BY <1>2, <1>6, Tapes
<1>8. d = SumOf(q.segs)
  BY <1>2 DEF SumOf
<1> HIDE DEF u, M, C, L, d, o, t, B, x, f
<1>9. B = (o + d) + (L - C)
  BY <1>5
<1>10. d < f /\ C < CountWidth
  BY ONLY <1>3, <1>4, <1>7, <1>9, s \in Nat
<1> QED
  BY <1>1, <1>2, <1>3, <1>4, <1>5, <1>6, <1>8, <1>10 DEF u, M, C, d, x, f, t

LEMMA FinishFields ==
  ASSUME NEW a \in Locals, NEW w
  PROVE  LET b == SgFinish(a, w)
         IN  /\ b.pgt = a.pgt /\ b.addr = a.addr
             /\ b.cmds = IF a.cmd_total_blocks = 0 THEN a.cmds
                         ELSE Append(a.cmds, TransferCmd(w, a.cmd_start_pos,
                                                         a.cmd_total_blocks))
<1> DEFINE cs == Append(a.cmds, TransferCmd(w, a.cmd_start_pos,
                                            a.cmd_total_blocks))
<1>1. SgFinish(a, w) = IF a.cmd_total_blocks # 0 THEN [a EXCEPT !.cmds = cs]
                       ELSE a
  BY DEF SgFinish
<1> HIDE DEF cs
<1>2. LET b == SgFinish(a, w)
      IN  /\ b.pgt = a.pgt /\ b.addr = a.addr
          /\ b.cmds = IF a.cmd_total_blocks = 0 THEN a.cmds ELSE cs
  BY <1>1 DEF Locals
<1> QED
  BY <1>2 DEF cs

LEMMA PlanSame ==
  ASSUME NEW q, NEW j, NEW a, NEW b, Tabled(q, j, a), b.pgt = a.pgt,
         b.addr = a.addr
  PROVE  Tabled(q, j, b)
BY DEF Tabled

(* The last round stayed on its tape: one more transfer, for that tape.    *)
LEMMA PlanStayed ==
  ASSUME NEW q \in Inputs, NEW a \in Locals, NEW s \in Nat, NEW w,
         Accounts(q, a, s), Built(q, Len(q.segs), a, s),
         Stayed(q, Len(q.segs), a), NEW b, b = SgFinish(a, w)
  PROVE  Plan(q, b, Ordinal(q, a)) /\ Len(b.cmds) = Turn(Ordinal(q, a))
<1> DEFINE u == Ordinal(q, a)
           M == Len(q.segs)
           C == a.cmd_total_blocks
           d == a.addr
           N == Len(a.cmds)
<1>1. /\ M \in 1 .. M /\ M \in Nat /\ u \in Nat
      /\ d = SumOf(q.segs) /\ d \in Nat
      /\ s = FirstOn(q, u) /\ d = s + C /\ C \in Nat
      /\ d < FirstOn(q, u + 1)
  BY AtTheEnd
<1>2. /\ a.prev_tape_nbr = a.tape_nbr /\ N = Turn(u) - 1
      /\ C # 0 /\ ~Changes(q, M)
  <2>1. M # 0
    BY <1>1
  <2> QED
    BY <2>1 DEF Stayed
<1>3. /\ Tabled(q, M, a) /\ Laid(q, a.cmds, N, s)
      /\ u = 0 => a.cmd_start_pos = 0
      /\ Turn(0) <= N => a.cmds[Turn(0)].off = 0
      /\ \A x \in 1 .. u :
           \E m \in 1 .. M, p \in 0 .. Len(a.pgt) : Linked(q, a, m, x, p)
      /\ \A m \in 1 .. M : Changes(q, m) =>
           \E x \in 1 .. u, p \in 0 .. Len(a.pgt) : Linked(q, a, m, x, p)
  BY DEF Built
<1>4. /\ b.pgt = a.pgt /\ b.addr = d
      /\ b.cmds = Append(a.cmds, TransferCmd(w, a.cmd_start_pos, C))
  BY <1>2, FinishFields
<1>5. a.cmds \in Seq(Command) /\ N \in Nat /\ a.cmd_start_pos \in Nat
  BY LenProperties DEF Locals
<1>6. /\ Len(b.cmds) = Turn(u)
      /\ \A l \in 1 .. N : b.cmds[l] = a.cmds[l]
      /\ Laid(q, b.cmds, Turn(u), d)
      /\ b.cmds[Turn(u)].off = a.cmd_start_pos % MaxSgEntries
      /\ FirstOn(q, u) < d
  <2> DEFINE f == FirstOn(q, u)
             g == FirstOn(q, u + 1)
             off == a.cmd_start_pos
             cs == a.cmds
             ds == Append(cs, TransferCmd(w, off, d - f))
  <2>1. s = f /\ d = s + C /\ d < g /\ d \in Nat /\ C \in Nat /\ C # 0
          /\ g \in Nat
    <3>1. u + 1 \in Nat
      BY <1>1
    <3>2. g \in Nat
      BY <3>1, Tapes
    <3> QED
      BY <1>1, <1>2, <3>2
  <2> HIDE DEF f, g, C, d
  <2>2. d - f = C /\ f < d /\ d <= g
    BY ONLY <2>1, s \in Nat
  <2>3. b.cmds = ds
    BY <1>4, <2>2
  <2>4. /\ q \in Inputs /\ cs \in Seq(Command) /\ u \in Nat
        /\ Len(cs) = Turn(u) - 1 /\ Laid(q, cs, Len(cs), FirstOn(q, u))
        /\ d \in Nat /\ FirstOn(q, u) < d /\ d <= FirstOn(q, u + 1)
        /\ off \in Nat
    BY <1>1, <1>2, <1>3, <1>5, <2>1, <2>2 DEF f, g
  <2> HIDE DEF cs, off, u
  <2>5. LET es == Append(cs, TransferCmd(w, off, d - FirstOn(q, u)))
        IN  /\ Len(es) = Turn(u)
            /\ \A l \in 1 .. Len(cs) : es[l] = cs[l]
            /\ Laid(q, es, Turn(u), d)
            /\ es[Turn(u)].off = off % MaxSgEntries
    BY ONLY <2>4, TransferLaid
  <2> QED
    BY <2>3, <2>4, <2>5 DEF f, cs, off
<1>7. b.cmds[Turn(0)].off = 0
  <2>1. CASE u = 0
    <3>1. 0 % MaxSgEntries = 0
      BY TableAssumption
    <3> QED
      BY <1>3, <1>6, <2>1, <3>1
  <2>2. CASE u # 0
    <3>1. Turn(0) \in 1 .. N /\ Turn(0) <= N
      BY <1>1, <1>2, <2>2 DEF Turn
    <3> QED
      BY <1>3, <1>6, <3>1
  <2> QED
    BY <2>1, <2>2
<1> HIDE DEF u, M, d, N
<1>8. ASSUME NEW x \in 1 .. u, NEW m \in 1 .. M, NEW p \in 0 .. Len(a.pgt),
             Linked(q, a, m, x, p)
      PROVE  Starts(q, b, m, x, p)
  <2>1. /\ Entered(q, m, x, p)
        /\ x = u => a.cmd_start_pos = p
        /\ p < Len(a.pgt)
        /\ Turn(x) <= N => a.cmds[Turn(x)].off = p % MaxSgEntries
    BY <1>2, <1>8 DEF Linked, u, N
  <2>2. x \in Nat /\ (x = u \/ (Turn(x) \in 1 .. N /\ Turn(x) <= N))
    BY <1>1, <1>2 DEF Turn
  <2>3. b.cmds[Turn(x)].off = p % MaxSgEntries
    BY <1>6, <2>1, <2>2
  <2>4. Changes(q, m)
    <3>1. ChangesTo(q, m, x)
      BY <2>1 DEF Entered
    <3> QED
      BY <2>2, <3>1, ChangesIsChange
  <2>5. EndOf(q, m) # EndOf(q, M)
    <3>1. m # M
      BY <1>2, <2>4
    <3>2. m \in 0 .. M /\ M \in 0 .. M /\ m < M
      BY <1>1, <3>1
    <3>3. EndOf(q, m) < EndOf(q, M) /\ EndOf(q, m) \in Nat
      BY <3>2, Segments, SegmentsGrow DEF M
    <3> QED
      BY <3>3
  <2>6. CrossesAt(q, m)
    BY <2>4, <2>5 DEF CrossesAt, Changes, M
  <2> QED
    BY <1>4, <2>1, <2>3, <2>6 DEF Starts
<1>9. \A x \in 1 .. u :
        \E m \in 1 .. M, p \in 0 .. Len(b.pgt) : Starts(q, b, m, x, p)
  <2> TAKE x \in 1 .. u
  <2>1. PICK m \in 1 .. M, p \in 0 .. Len(a.pgt) : Linked(q, a, m, x, p)
    BY <1>3
  <2> QED
    BY <1>4, <1>8, <2>1
<1>10. \A m \in 1 .. M : CrossesAt(q, m) =>
         \E x \in 1 .. u, p \in 0 .. Len(b.pgt) : Starts(q, b, m, x, p)
  <2> SUFFICES ASSUME NEW m \in 1 .. M, CrossesAt(q, m)
               PROVE  \E x \in 1 .. u, p \in 0 .. Len(b.pgt) :
                        Starts(q, b, m, x, p)
    OBVIOUS
  <2>1. Changes(q, m)
    BY DEF Changes, CrossesAt
  <2>2. PICK x \in 1 .. u, p \in 0 .. Len(a.pgt) : Linked(q, a, m, x, p)
    BY <1>3, <2>1
  <2> QED
    BY <1>4, <1>8, <2>2
<1>11. EndsWell(q, b, u)
  <2>1. LastOnOneTape(q)
    BY <1>1, <1>2, StaysOnOneTape DEF LastOnOneTape, M
  <2>2. b.addr <= FirstOn(q, u + 1)
    <3>1. u + 1 \in Nat
      BY <1>1
    <3>2. FirstOn(q, u + 1) \in Nat
      BY <3>1, Tapes
    <3> QED
      BY <1>1, <1>4, <3>2
  <2> QED
    BY <1>6, <1>10, <2>1, <2>2 DEF EndsWell, M
<1>12. Tabled(q, M, b)
  BY <1>3, <1>4, PlanSame DEF d
<1> QED
  BY <1>1, <1>4, <1>6, <1>7, <1>9, <1>11, <1>12 DEF Plan, u, M

(* The last round moved on to another tape: nothing is left over, or a     *)
(* transfer follows without a change of tapes.                             *)
LEMMA PlanMoved ==
  ASSUME NEW q \in Inputs, NEW a \in Locals, NEW s \in Nat, NEW w,
         Accounts(q, a, s), Built(q, Len(q.segs), a, s),
         Moved(q, Len(q.segs), a), NEW b, b = SgFinish(a, w)
  PROVE  LET z == Ordinal(q, a) - 1
         IN  z \in Nat /\ Plan(q, b, z) /\ Turn(z) <= Len(b.cmds)
<1> DEFINE u == Ordinal(q, a)
           z == u - 1
           M == Len(q.segs)
           C == a.cmd_total_blocks
           d == a.addr
           N == Len(a.cmds)
<1>1. /\ M \in 1 .. M /\ M \in Nat /\ u \in Nat
      /\ d = SumOf(q.segs) /\ d \in Nat
      /\ s = FirstOn(q, u) /\ d = s + C /\ C \in Nat /\ C < CountWidth
      /\ d < FirstOn(q, u + 1)
      /\ TapeOf(EndOf(q, M)) = TapeNo(q, u)
  BY AtTheEnd
<1>2. /\ u # 0 /\ N = Turn(z) /\ ChangesTo(q, M, u)
      /\ Straddles(q, M) <=> C # 0
  BY DEF Moved
<1>3. /\ Tabled(q, M, a) /\ Laid(q, a.cmds, N, s)
      /\ Turn(0) <= N => a.cmds[Turn(0)].off = 0
      /\ \A x \in 1 .. u :
           \E m \in 1 .. M, p \in 0 .. Len(a.pgt) : Linked(q, a, m, x, p)
      /\ \A m \in 1 .. M : Changes(q, m) =>
           \E x \in 1 .. u, p \in 0 .. Len(a.pgt) : Linked(q, a, m, x, p)
  BY DEF Built
<1>4. /\ b.pgt = a.pgt /\ b.addr = d
      /\ b.cmds = IF C = 0 THEN a.cmds
                  ELSE Append(a.cmds, TransferCmd(w, a.cmd_start_pos, C))
  BY FinishFields
<1>5. a.cmds \in Seq(Command) /\ N \in Nat /\ a.cmd_start_pos \in Nat
  BY LenProperties DEF Locals
<1>6. /\ \A l \in 1 .. N : b.cmds[l] = a.cmds[l]
      /\ C = 0 => Len(b.cmds) = N
      /\ C # 0 => /\ Len(b.cmds) = N + 1
                  /\ b.cmds[N + 1] = TransferCmd(w, a.cmd_start_pos, C)
  <2> DEFINE c == TransferCmd(w, a.cmd_start_pos, C)
  <2>1. c \in Command
    BY <1>1, <1>5, TransferType
  <2> HIDE DEF c
  <2>2. /\ Len(Append(a.cmds, c)) = N + 1
        /\ \A l \in 1 .. N : Append(a.cmds, c)[l] = a.cmds[l]
        /\ Append(a.cmds, c)[N + 1] = c
    BY <1>5, <2>1, AppendProperties
  <2> QED
    BY <1>4, <2>2 DEF c
<1> HIDE DEF u, M, d, N, C
<1>7. /\ z \in Nat /\ z + 1 = u /\ z < u /\ Turn(z) < Turn(u)
      /\ Turn(0) \in 1 .. N /\ Turn(0) <= N
      /\ \A x \in 1 .. z : /\ x \in 1 .. u /\ x \in Nat /\ x # u
                           /\ Turn(x) \in 1 .. N /\ Turn(x) <= N
      /\ \A x \in 1 .. u : x # u => x \in 1 .. z
      /\ N <= N + 1
  BY <1>1, <1>2, <1>5 DEF Turn
<1> HIDE DEF z
<1>8. FirstOn(q, z) < d /\ FirstOn(q, z + 1) = s /\ s <= d
  <2>1. FirstOn(q, z) < FirstOn(q, z + 1) /\ FirstOn(q, z) \in Nat
    BY <1>7, Tapes
  <2> QED
    BY <1>1, <1>7, <2>1
<1>9. Laid(q, b.cmds, N, d)
  <2>1. /\ q \in Inputs /\ N \in Nat /\ u \in Nat /\ s \in Nat /\ d \in Nat
        /\ Laid(q, a.cmds, N, s)
        /\ \A l \in 1 .. N : b.cmds[l] = a.cmds[l]
        /\ N < Turn(u) /\ FirstOn(q, u) <= s /\ FirstOn(q, u) <= d
    BY <1>1, <1>2, <1>3, <1>5, <1>6, <1>7, <1>8
  <2> QED
    BY ONLY <2>1, LaidKept
<1>10. b.cmds[Turn(0)].off = 0
  BY <1>3, <1>6, <1>7
<1>11. ASSUME NEW x \in 1 .. z, NEW m \in 1 .. M, NEW p \in 0 .. Len(a.pgt),
              Linked(q, a, m, x, p)
       PROVE  Starts(q, b, m, x, p)
  <2>1. /\ Entered(q, m, x, p)
        /\ p < Len(a.pgt)
        /\ a.cmds[Turn(x)].off = p % MaxSgEntries
    BY <1>7, <1>11 DEF Linked, u, N
  <2>2. b.cmds[Turn(x)].off = p % MaxSgEntries
    BY <1>6, <1>7, <2>1
  <2>3. ChangesTo(q, m, x)
    BY <2>1 DEF Entered
  <2>4. Changes(q, m)
    BY <1>7, <2>3, ChangesIsChange
  <2>5. EndOf(q, m) # EndOf(q, M)
    <3>1. TapeOf(EndOf(q, m)) = TapeNo(q, x)
      BY <2>3 DEF ChangesTo
    <3>2. TapeNo(q, x) # TapeNo(q, u)
      <4>1. StartTape(q.start) \in Nat
        BY InputType, StartOnTape
      <4> DEFINE t == StartTape(q.start)
      <4> HIDE DEF t
      <4>2. t + x # t + u
        BY <1>1, <1>7, <4>1 DEF t
      <4> QED
        BY <4>2 DEF TapeNo, t
    <3> QED
      BY <1>1, <3>1, <3>2
  <2>6. CrossesAt(q, m)
    BY <2>4, <2>5 DEF CrossesAt, Changes, M
  <2> QED
    BY <1>4, <2>1, <2>2, <2>6 DEF Starts
<1>12. \A x \in 1 .. z :
         \E m \in 1 .. M, p \in 0 .. Len(b.pgt) : Starts(q, b, m, x, p)
  <2> TAKE x \in 1 .. z
  <2>1. PICK m \in 1 .. M, p \in 0 .. Len(a.pgt) : Linked(q, a, m, x, p)
    BY <1>3, <1>7
  <2> QED
    BY <1>4, <1>11, <2>1
<1>13. ASSUME C = 0 PROVE EndsWell(q, b, z)
  <2>1. ASSUME NEW m \in 1 .. M, CrossesAt(q, m)
        PROVE  \E x \in 1 .. z, p \in 0 .. Len(b.pgt) : Starts(q, b, m, x, p)
    <3>1. Changes(q, m)
      BY <2>1 DEF Changes, CrossesAt
    <3>2. PICK x \in 1 .. u, p \in 0 .. Len(a.pgt) : Linked(q, a, m, x, p)
      BY <1>3, <3>1
    <3>3. x # u
      <4> SUFFICES ASSUME x = u PROVE FALSE
        OBVIOUS
      <4>1. ChangesTo(q, m, u)
        BY <3>2 DEF Linked, Entered
      <4>2. ~(m < M) /\ ~(M < m)
        BY <1>1, <1>2, <4>1, OneChange DEF M
      <4>3. m = M
        BY <1>1, <4>2
      <4> QED
        BY <1>2, <1>13, <2>1, <4>3 DEF CrossesAt, M
    <3> QED
      BY <1>4, <1>7, <1>11, <3>2, <3>3
  <2>2. EndsWell(q, b, z)
    <3>1. LastOnOneTape(q)
      BY <1>2, <1>13 DEF LastOnOneTape, M
    <3>2. d <= FirstOn(q, z + 1)
      BY <1>1, <1>8, <1>13
    <3> QED
      BY <1>2, <1>4, <1>6, <1>13, <2>1, <3>1, <3>2 DEF EndsWell, M
  <2> QED
    BY <2>2
<1>14. ASSUME C # 0 PROVE EndsBadly(q, b, z)
  <2>1. ~LastOnOneTape(q)
    BY <1>2, <1>14 DEF LastOnOneTape, M
  <2>2. FirstOn(q, z + 1) < d
    BY <1>1, <1>8, <1>14
  <2>3. IsTransfer(b.cmds[N + 1]) /\ b.cmds[N + 1].arg # 0
    <3>1. C % CountWidth = C
      BY <1>1 DEF CountWidth
    <3> QED
      BY <1>6, <1>14, <3>1 DEF TransferCmd, IsTransfer
  <2>4. EndsBadly(q, b, z)
    BY <1>2, <1>4, <1>6, <1>14, <2>1, <2>2, <2>3 DEF EndsBadly
  <2> QED
    BY <2>4
<1>15. EndsWell(q, b, z) \/ EndsBadly(q, b, z)
  BY <1>13, <1>14
<1>16. Tabled(q, M, b)
  BY <1>3, <1>4, PlanSame DEF d
<1>17. Plan(q, b, z)
  BY <1>1, <1>2, <1>4, <1>8, <1>9, <1>10, <1>12, <1>15, <1>16 DEF Plan, M
<1>18. Turn(z) <= Len(b.cmds)
  BY <1>2, <1>5, <1>6
<1> QED
  BY <1>7, <1>17, <1>18 DEF z, u

(* What is handed over is a plan.                                          *)
LEMMA SubmitPlan ==
  ASSUME NEW q \in Inputs, NEW a \in Locals, NEW s \in Nat, NEW w,
         Accounts(q, a, s), Built(q, Len(q.segs), a, s),
         NEW b, b = SgFinish(a, w), b.cmds \in Seq(Command)
  PROVE  \E z \in 0 .. Len(b.cmds) : Plan(q, b, z)
<1>1. Ordinal(q, a) \in Nat /\ Len(b.cmds) \in Nat
  BY AtTheEnd, LenProperties
<1>2. PICK z \in Nat : Plan(q, b, z) /\ Turn(z) <= Len(b.cmds)
  <2>1. CASE Stayed(q, Len(q.segs), a)
    <3>1. Plan(q, b, Ordinal(q, a)) /\ Len(b.cmds) = Turn(Ordinal(q, a))
      BY <2>1, PlanStayed
    <3>2. Turn(Ordinal(q, a)) <= Len(b.cmds)
      BY <1>1, <3>1
    <3> QED
      BY <1>1, <3>1, <3>2
  <2>2. CASE Moved(q, Len(q.segs), a)
    <3>1. LET z == Ordinal(q, a) - 1
          IN  z \in Nat /\ Plan(q, b, z) /\ Turn(z) <= Len(b.cmds)
      BY <2>2, PlanMoved
    <3> QED
      BY <3>1
  <2> QED
    BY <2>1, <2>2 DEF Built
<1>3. z \in 0 .. Len(b.cmds)
  BY <1>1, <1>2 DEF Turn
<1> QED
  BY <1>2, <1>3

-----------------------------------------------------------------------------
(* The device.  A transfer moves all of its blocks if the tape and the     *)
(* table last that long, and fails otherwise.                              *)
LEMMA TransferEffect ==
  ASSUME NEW c, c.arg \in Nat \ {0}, c.off \in Nat, pos \in Nat,
         acc \in Locals, Contiguous(acc.pgt, acc.addr), Transfer(c)
  PROVE  IF /\ pos + c.arg <= TapeBlocks
            /\ c.off + c.arg <= Reach(acc.pgt)
         THEN /\ phase' = "run" /\ tape' = tape /\ pos' = pos + c.arg
              /\ placed' = placed \cup
                   {<<c.off + j, tape, pos + j>> : j \in 0 .. c.arg - 1}
         ELSE phase' = "failed"
<1> DEFINE cells == Cells(acc.pgt)
           R == Reach(acc.pgt)
           g == c.arg
           o == c.off
           Ends(n) == n = g \/ pos + n >= TapeBlocks \/ o + n >= Len(cells)
<1>1. R \in Nat /\ cells = CellsFrom(0, R)
  BY TableType, CellsInOrder
<1>2. PICK n \in 0 .. g :
        /\ Ends(n) /\ \A m \in 0 .. n - 1 : ~Ends(m)
        /\ placed' = placed \cup
             {<<cells[o + j + 1], tape, pos + j>> : j \in 0 .. n - 1}
        /\ pos' = pos + n
        /\ phase' = IF n < g \/ pos >= TapeBlocks THEN "failed" ELSE "run"
        /\ tape' = tape
  BY DEF Transfer
<1>3. g \in Nat \ {0} /\ o \in Nat /\ TapeBlocks \in Nat
  BY GeometryAssumption
<1> HIDE DEF R, cells, g, o
<1>4. Len(cells) = R /\ \A x \in 1 .. R : cells[x] = x - 1
  BY <1>1 DEF CellsFrom
<1>5. CASE pos + g <= TapeBlocks /\ o + g <= R
  <2>1. n = g
    BY <1>2, <1>3, <1>4, <1>5, <1>1
  <2>2. \A j \in 0 .. n - 1 : cells[o + j + 1] = o + j
    <3> TAKE j \in 0 .. n - 1
    <3>1. o + j + 1 \in 1 .. R
      BY <1>1, <1>3, <1>5, <2>1
    <3>2. cells[o + j + 1] = (o + j + 1) - 1
      BY <1>4, <3>1
    <3> QED
      BY <1>3, <2>1, <3>2
  <2>3. {<<cells[o + j + 1], tape, pos + j>> : j \in 0 .. n - 1} =
          {<<o + j, tape, pos + j>> : j \in 0 .. n - 1}
    BY <2>2
  <2>4. ~(n < g \/ pos >= TapeBlocks)
    BY <1>3, <1>5, <2>1
  <2> QED
    BY <1>2, <1>5, <2>1, <2>3, <2>4 DEF R, g, o
<1>6. CASE ~(pos + g <= TapeBlocks /\ o + g <= R)
  <2>1. n < g
    <3> SUFFICES ASSUME n = g PROVE FALSE
      BY <1>3
    <3>1. g - 1 \in 0 .. n - 1
      BY <1>3
    <3>2. Ends(g - 1)
      BY <1>1, <1>3, <1>4, <1>6
    <3> QED
      BY <1>2, <3>1, <3>2
  <2> QED
    BY <1>2, <1>6, <2>1 DEF R, g, o
<1> QED
  BY <1>5, <1>6

(* The transfers of a plan.                                                *)
LEMMA PlanTransfers ==
  ASSUME NEW q \in Inputs, NEW a \in Locals, NEW z \in Nat, Plan(q, a, z),
         NEW u \in 0 .. z
  PROVE  LET c == a.cmds[Turn(u)]
         IN  /\ IsTransfer(c) /\ c.arg \in Nat \ {0}
             /\ FirstOn(q, u) + c.arg = StopOn(q, u, a.addr)
             /\ StopOn(q, u, a.addr) <= a.addr
             /\ StopOn(q, u, a.addr) <= FirstOn(q, u + 1)
             /\ FirstOn(q, u) < StopOn(q, u, a.addr)
             /\ PosOn(q, u) + c.arg <= TapeBlocks
             /\ FirstOn(q, u + 1) <= a.addr =>
                  PosOn(q, u) + c.arg = TapeBlocks
<1> DEFINE c == a.cmds[Turn(u)]
           g == c.arg
           d == a.addr
           f == FirstOn(q, u)
           h == FirstOn(q, u + 1)
           p == PosOn(q, u)
           e == StopOn(q, u, d)
<1>1. u \in Nat /\ Turn(u) <= Turn(z) /\ u \in 0 .. Turn(z) /\ u + 1 \in Nat
  BY DEF Turn
<1>2. IsTransfer(c) /\ g = e - f
  BY <1>1 DEF Plan, Laid
<1>3. f \in Nat /\ f < h /\ p \in Nat /\ h = f + TapeBlocks - p
  BY <1>1, Tapes
<1>4. h \in Nat /\ d \in Nat /\ TapeBlocks \in Nat
  BY <1>1, Tapes, TableType, GeometryAssumption
<1>5. f < d
  <2>1. FirstOn(q, z) < d /\ FirstOn(q, z) \in Nat
    BY Tapes DEF Plan
  <2>2. u = z \/ u < z
    BY <1>1
  <2>3. u < z => FirstOn(q, u + 1) <= FirstOn(q, z)
    BY <1>1, TapesGrow
  <2> DEFINE y == FirstOn(q, z)
  <2>4. f = y \/ h <= y
    BY <2>2, <2>3
  <2>5. y \in Nat /\ y < d
    BY <2>1
  <2> HIDE DEF y, f, h, d
  <2> QED
    BY ONLY <1>3, <1>4, <2>4, <2>5
<1>6. e = IF h <= d THEN h ELSE d
  BY DEF StopOn
<1> HIDE DEF c, g, f, h, p, e, d
<1>7. /\ g \in Nat \ {0} /\ f + g = e /\ e <= d /\ e <= h /\ f < e
      /\ p + g <= TapeBlocks
      /\ h <= d => p + g = TapeBlocks
  <2>1. e \in Nat /\ e <= d /\ e <= h /\ f < e
    BY ONLY <1>3, <1>4, <1>5, <1>6
  <2>2. g \in Nat \ {0} /\ f + g = e
    BY ONLY <1>2, <1>3, <2>1
  <2>3. g + f <= h /\ h + p = f + TapeBlocks
    BY ONLY <1>3, <1>4, <2>1, <2>2
  <2>4. p + g <= TapeBlocks
    BY ONLY <1>3, <1>4, <2>2, <2>3
  <2>5. h <= d => p + g = TapeBlocks
    BY ONLY <1>3, <1>4, <1>6, <2>2, <2>3
  <2> QED
    BY <2>1, <2>2, <2>4, <2>5
<1> QED
  BY <1>2, <1>7 DEF c, g, f, h, p, e, d

(* With a plan that meets the three conditions the table is whole and each *)
(* transfer starts at the first block of its tape.                         *)
LEMMA RightOffsets ==
  ASSUME NEW q \in Inputs, NEW a \in Locals, NEW z \in Nat, Plan(q, a, z),
         WellPlanned(q)
  PROVE  /\ Reach(a.pgt) = a.addr
         /\ \A u \in 0 .. z : a.cmds[Turn(u)].off = FirstOn(q, u)
<1>1. /\ Contiguous(a.pgt, a.addr) /\ Len(a.pgt) <= MaxSgEntries
      /\ a.pgt \in Seq([addr : Nat, n : Nat]) /\ Len(a.pgt) \in Nat
  BY TableType DEF Plan, Tabled, WellPlanned, TableFits
<1>2. Reach(a.pgt) = a.addr
  BY <1>1, ReachBound
<1>3. ASSUME NEW u \in 0 .. z
      PROVE  a.cmds[Turn(u)].off = FirstOn(q, u)
  <2>1. CASE u = 0
    <3>1. FirstOn(q, 0) = 0
      BY DEF FirstOn
    <3> QED
      BY <2>1, <3>1 DEF Plan
  <2>2. CASE u # 0
    <3>1. u \in 1 .. z
      BY <2>2
    <3>2. PICK m \in 1 .. Len(q.segs), p \in 0 .. Len(a.pgt) :
            Starts(q, a, m, u, p)
      BY <3>1 DEF Plan
    <3>3. SingleUpTo(q, m)
      BY <3>2 DEF WellPlanned, EntriesAreBlocks, Starts
    <3>4. p = FirstOn(q, u) /\ p < Len(a.pgt)
            /\ a.cmds[Turn(u)].off = p % MaxSgEntries
      BY <3>2, <3>3 DEF Starts, Entered
    <3>5. p % MaxSgEntries = p
      <4> DEFINE l == Len(a.pgt)
      <4>1. /\ l \in Nat /\ l <= MaxSgEntries /\ p \in 0 .. l /\ p < l
            /\ MaxSgEntries \in Nat \ {0}
        BY <1>1, <3>2, <3>4, TableAssumption
      <4> HIDE DEF l
      <4>2. p \in 0 .. MaxSgEntries - 1
        BY ONLY <4>1
      <4> QED
        BY ONLY <4>1, <4>2
    <3> QED
      BY <3>4, <3>5
  <2> QED
    BY <2>1, <2>2
<1> QED
  BY <1>2, <1>3

(* Every command of a plan is one of the setup, a transfer, or one of the  *)
(* three that change tapes.                                                *)
LEMMA CommandKinds ==
  ASSUME NEW z \in Nat, NEW n \in 1 .. Turn(z)
  PROVE  \/ n \in 1 .. 4
         \/ \E u \in 0 .. z : n = Turn(u)
         \/ \E u \in 1 .. z : n \in {Turn(u) - 3, Turn(u) - 2, Turn(u) - 1}
<1> DEFINE w == n \div 4
           x == n % 4
<1>1. n = 4 * w + x /\ w \in Nat /\ x \in 0 .. 3
  BY DEF Turn
<1>2. n \in Nat /\ n <= 4 * z + 5
  BY DEF Turn
<1> HIDE DEF w, x
<1> SUFFICES ASSUME n >= 5
             PROVE  \/ \E u \in 0 .. z : n = Turn(u)
                    \/ \E u \in 1 .. z :
                         n \in {Turn(u) - 3, Turn(u) - 2, Turn(u) - 1}
  BY <1>2
<1>3. CASE x = 1
  <2>1. w - 1 \in 0 .. z /\ n = 4 * (w - 1) + 5
    BY <1>1, <1>2, <1>3
  <2> QED
    BY <2>1 DEF Turn
<1>4. CASE x = 2
  <2>1. w \in 1 .. z /\ n = (4 * w + 5) - 3
    BY <1>1, <1>2, <1>4
  <2> QED
    BY <2>1 DEF Turn
<1>5. CASE x = 3
  <2>1. w \in 1 .. z /\ n = (4 * w + 5) - 2
    BY <1>1, <1>2, <1>5
  <2> QED
    BY <2>1 DEF Turn
<1>6. CASE x = 0
  <2>1. w - 1 \in 1 .. z /\ n = (4 * (w - 1) + 5) - 1
    BY <1>1, <1>2, <1>6
  <2> QED
    BY <2>1 DEF Turn
<1> QED
  BY <1>1, <1>3, <1>4, <1>5, <1>6

(* Commands executed: a transfer ...                                       *)
LEMMA RanTransfer ==
  ASSUME NEW q, NEW a, NEW z \in Nat, NEW u \in 0 .. z,
         NEW tp, NEW ps, NEW pl, Ran(q, a, z, Turn(u) - 1, tp, ps, pl),
         a.cmds[Turn(u)].off + a.cmds[Turn(u)].arg <= Reach(a.pgt),
         NEW tp2
  PROVE  Ran(q, a, z, Turn(u), tp2, PosOn(q, u) + a.cmds[Turn(u)].arg,
             pl \cup Puts(q, a.cmds[Turn(u)], u))
<1> DEFINE n == Turn(u) - 1
           P(v) == Puts(q, a.cmds[Turn(v)], v)
           F(v) == a.cmds[Turn(v)].off + a.cmds[Turn(v)].arg <= Reach(a.pgt)
           A == {v \in 0 .. n : Turn(v) <= n}
           B == {v \in 0 .. Turn(u) : Turn(v) <= Turn(u)}
<1>1. /\ u \in Nat /\ Turn(u) \in Nat /\ n \in Nat /\ Turn(u) <= Turn(z)
      /\ Turn(u) # 2 /\ Turn(u) # 3
      /\ \A v \in Nat : Turn(u) # Turn(v) - 2 /\ Turn(u) # Turn(v) - 1
      /\ \A v \in Nat : Turn(u) = Turn(v) => v = u
      /\ \A v \in 0 .. Turn(u) : v \in Nat
      /\ \A v \in 0 .. Turn(u) :
           Turn(v) <= Turn(u) => v = u \/ (v \in 0 .. n /\ Turn(v) <= n)
      /\ \A v \in 0 .. n :
           Turn(v) <= n => v \in 0 .. Turn(u) /\ Turn(v) <= Turn(u)
      /\ u \in 0 .. Turn(u) /\ Turn(u) <= Turn(u)
  BY DEF Turn
<1>2. pl = UNION {P(v) : v \in A} /\ \A v \in 0 .. n : Turn(v) <= n => F(v)
  BY DEF Ran
<1>3. B = A \cup {u}
  BY <1>1
<1>4. pl \cup P(u) = UNION {P(v) : v \in B}
  <2> HIDE DEF P, A, B
  <2> QED
    BY <1>2, <1>3
<1>5. \A v \in 0 .. Turn(u) : Turn(v) <= Turn(u) => F(v)
  <2>1. F(u)
    OBVIOUS
  <2> HIDE DEF F
  <2> QED
    BY <1>1, <1>2, <2>1
<1> HIDE DEF n
<1>6. \A v \in 0 .. Turn(u) :
        Turn(u) = Turn(v) =>
          PosOn(q, u) + a.cmds[Turn(u)].arg =
            PosOn(q, v) + a.cmds[Turn(v)].arg
  BY <1>1
<1> QED
  BY <1>1, <1>4, <1>5, <1>6 DEF Ran

(* ... or another command.                                                 *)
LEMMA RanPlain ==
  ASSUME NEW q, NEW a, NEW z \in Nat, NEW n \in Nat, n + 1 <= Turn(z),
         NEW tp, NEW ps, NEW pl, Ran(q, a, z, n, tp, ps, pl),
         NEW tp2, NEW ps2,
         \A v \in Nat : n + 1 # Turn(v),
         n + 1 = 2 => tp2 = TapeNo(q, 0),
         n + 1 = 3 => tp2 = TapeNo(q, 0) /\ ps2 = 0,
         \A v \in Nat :
           /\ n + 1 = Turn(v) - 2 /\ v # 0 => tp2 = TapeNo(q, v)
           /\ n + 1 = Turn(v) - 1 => tp2 = TapeNo(q, v) /\ ps2 = PosOn(q, v)
  PROVE  Ran(q, a, z, n + 1, tp2, ps2, pl)
<1> DEFINE P(v) == Puts(q, a.cmds[Turn(v)], v)
           F(v) == a.cmds[Turn(v)].off + a.cmds[Turn(v)].arg <= Reach(a.pgt)
           A == {v \in 0 .. n : Turn(v) <= n}
           B == {v \in 0 .. n + 1 : Turn(v) <= n + 1}
<1>1. /\ \A v \in 0 .. n + 1 : v \in Nat
      /\ \A v \in 0 .. n + 1 :
           Turn(v) <= n + 1 => v \in 0 .. n /\ Turn(v) <= n
      /\ \A v \in 0 .. n : Turn(v) <= n => v \in 0 .. n + 1 /\ Turn(v) <= n + 1
  BY DEF Turn
<1>2. pl = UNION {P(v) : v \in A} /\ \A v \in 0 .. n : Turn(v) <= n => F(v)
  BY DEF Ran
<1>3. A = B
  BY <1>1
<1>4. pl = UNION {P(v) : v \in B}
  BY <1>2, <1>3
<1>5. \A v \in 0 .. n + 1 : Turn(v) <= n + 1 => F(v)
  <2> HIDE DEF F
  <2> QED
    BY <1>1, <1>2
<1> QED
  BY <1>1, <1>4, <1>5 DEF Ran

(* The commands of a plan that are not transfers.                          *)
LEMMA PlainCommands ==
  ASSUME NEW q, NEW a, NEW z \in Nat, Plan(q, a, z)
  PROVE  LET cs == a.cmds
         IN  /\ cs[1].op = "EJECT_TAPE"
             /\ cs[2].op = "TAKE_TAPE" /\ cs[2].arg = TapeNo(q, 0)
             /\ cs[3].op = "REWIND"
             /\ cs[4].op = "FAST_FWD" /\ cs[4].arg = PosOn(q, 0)
             /\ \A u \in 1 .. z :
                  /\ cs[Turn(u) - 3].op = "EJECT_TAPE"
                  /\ cs[Turn(u) - 2].op = "TAKE_TAPE"
                  /\ cs[Turn(u) - 2].arg = TapeNo(q, u)
                  /\ cs[Turn(u) - 1].op = "REWIND"
<1> DEFINE cs == a.cmds
<1>1. Laid(q, cs, Turn(z), a.addr)
  BY DEF Plan
<1> HIDE DEF cs
<1>2. \A op, arg : PlainCmd(op, arg).op = op /\ PlainCmd(op, arg).arg = arg
  BY DEF PlainCmd
<1>3. ASSUME NEW u \in 1 .. z
      PROVE  /\ cs[Turn(u) - 3].op = "EJECT_TAPE"
             /\ cs[Turn(u) - 2] = PlainCmd("TAKE_TAPE", TapeNo(q, u))
             /\ cs[Turn(u) - 1].op = "REWIND"
  <2>1. /\ u \in 1 .. Turn(z) /\ Turn(u) - 3 <= Turn(z)
        /\ Turn(u) - 2 <= Turn(z) /\ Turn(u) - 1 <= Turn(z)
    BY DEF Turn
  <2> QED
    BY <1>1, <2>1 DEF Laid
<1>4. /\ cs[1].op = "EJECT_TAPE"
      /\ cs[2] = PlainCmd("TAKE_TAPE", TapeNo(q, 0))
      /\ cs[3].op = "REWIND"
      /\ cs[4] = PlainCmd("FAST_FWD", PosOn(q, 0))
  BY <1>1 DEF Laid
<1> QED
  BY <1>2, <1>3, <1>4 DEF cs

LEMMA PlainStep ==
  ASSUME NEW q \in Inputs, NEW a, NEW z \in Nat, Plan(q, a, z),
         NEW n \in Nat, n < Turn(z), Ran(q, a, z, n, tape, pos, placed),
         ~IsTransfer(a.cmds[n + 1]), Position(a.cmds[n + 1])
  PROVE  Ran(q, a, z, n + 1, tape', pos', placed)
<1> DEFINE cs == a.cmds
           c == cs[n + 1]
<1>1. Laid(q, cs, Turn(z), a.addr)
  BY DEF Plan
<1>2. /\ c.op = "TAKE_TAPE" => tape' = c.arg
      /\ c.op = "REWIND" => tape' = tape /\ pos' = 0
      /\ c.op = "FAST_FWD" => tape' = tape /\ pos' = pos + c.arg
  BY DEF Position
<1>3. n + 1 <= Turn(z) /\ n + 1 \in 1 .. Turn(z) /\ n + 1 \in Nat
  BY DEF Turn
<1>4. \A v \in 0 .. z : n + 1 # Turn(v)
  <2> SUFFICES ASSUME NEW v \in 0 .. z, n + 1 = Turn(v) PROVE FALSE
    OBVIOUS
  <2>1. v \in 0 .. Turn(z) /\ Turn(v) <= Turn(z)
    BY DEF Turn
  <2> QED
    BY <1>1, <2>1 DEF Laid
<1>5. \A v \in Nat : n + 1 # Turn(v)
  <2>1. \A v \in Nat : v \in 0 .. z \/ Turn(z) < Turn(v)
    BY DEF Turn
  <2> QED
    BY <1>3, <1>4, <2>1 DEF Turn
<1>6. /\ cs[2].op = "TAKE_TAPE" /\ cs[2].arg = TapeNo(q, 0)
      /\ cs[3].op = "REWIND"
      /\ cs[4].op = "FAST_FWD" /\ cs[4].arg = PosOn(q, 0)
  BY PlainCommands
<1>7. \A u \in 1 .. z :
        /\ cs[Turn(u) - 2].op = "TAKE_TAPE"
        /\ cs[Turn(u) - 2].arg = TapeNo(q, u)
        /\ cs[Turn(u) - 1].op = "REWIND"
  BY PlainCommands
<1>8. PosOn(q, 0) \in Nat
  BY Tapes
<1>9. /\ n = 2 => tape = TapeNo(q, 0)
      /\ n = 3 => tape = TapeNo(q, 0) /\ pos = 0
      /\ \A u \in 0 .. n : n = Turn(u) - 2 /\ u # 0 => tape = TapeNo(q, u)
  BY DEF Ran
<1>10. n + 1 \in 1 .. 4 \/
         \E u \in 1 .. z : n + 1 \in {Turn(u) - 3, Turn(u) - 2, Turn(u) - 1}
  BY <1>3, <1>4, CommandKinds
<1>11. n + 1 = 2 => tape' = TapeNo(q, 0)
  BY <1>2, <1>6
<1>12. n + 1 = 3 => tape' = TapeNo(q, 0) /\ pos' = 0
  BY <1>2, <1>6, <1>9
<1>13. n + 1 = 4 => tape' = TapeNo(q, 0) /\ pos' = PosOn(q, 0)
  BY <1>2, <1>6, <1>8, <1>9
<1>14. ASSUME NEW v \in Nat
       PROVE  /\ n + 1 = Turn(v) - 2 /\ v # 0 => tape' = TapeNo(q, v)
              /\ n + 1 = Turn(v) - 1 =>
                   tape' = TapeNo(q, v) /\ pos' = PosOn(q, v)
  <2>1. CASE n + 1 = Turn(v) - 2 /\ v # 0
    <3>1. v \in 1 .. z /\ ~(n + 1 = Turn(v) - 1)
      BY <1>3, <2>1 DEF Turn
    <3> QED
      BY <1>2, <1>7, <2>1, <3>1
  <2>2. CASE n + 1 = Turn(v) - 1 /\ v # 0
    <3>1. v \in 1 .. z /\ v \in 0 .. n /\ n = Turn(v) - 2
            /\ ~(n + 1 = Turn(v) - 2)
      BY <1>3, <2>2 DEF Turn
    <3>2. PosOn(q, v) = 0
      BY <2>2 DEF PosOn
    <3> QED
      BY <1>2, <1>7, <1>9, <2>2, <3>1, <3>2
  <2>3. CASE n + 1 = Turn(v) - 1 /\ v = 0
    <3>1. n + 1 = 4
      BY <2>3 DEF Turn
    <3> QED
      BY <1>13, <2>3, <3>1
  <2> QED
    BY <2>1, <2>2, <2>3
<1> HIDE DEF c, cs
<1> QED
  BY <1>3, <1>5, <1>11, <1>12, <1>14, RanPlain

(* A transfer of the plan: all of it, or the conditions are not met.       *)
LEMMA TransferStep ==
  ASSUME NEW q \in Inputs, acc \in Locals, pos \in Nat,
         NEW z \in Nat, Plan(q, acc, z), NEW n \in Nat, n < Turn(z),
         Ran(q, acc, z, n, tape, pos, placed),
         acc.cmds[n + 1] \in Command,
         IsTransfer(acc.cmds[n + 1]), Transfer(acc.cmds[n + 1])
  PROVE  \/ phase' = "run" /\ Ran(q, acc, z, n + 1, tape', pos', placed')
         \/ phase' = "failed" /\ ~WellPlanned(q)
<1> DEFINE c == acc.cmds[n + 1]
           R == Reach(acc.pgt)
<1>1. PICK u \in 0 .. z : n + 1 = Turn(u)
  <2>1. n + 1 \in 1 .. Turn(z)
    BY DEF Turn
  <2>2. /\ acc.cmds[1].op = "EJECT_TAPE" /\ acc.cmds[2].op = "TAKE_TAPE"
        /\ acc.cmds[3].op = "REWIND" /\ acc.cmds[4].op = "FAST_FWD"
    BY PlainCommands
  <2>3. \A v \in 1 .. z :
          /\ acc.cmds[Turn(v) - 3].op = "EJECT_TAPE"
          /\ acc.cmds[Turn(v) - 2].op = "TAKE_TAPE"
          /\ acc.cmds[Turn(v) - 1].op = "REWIND"
    BY PlainCommands
  <2>4. ~(n + 1 \in 1 .. 4)
    <3> SUFFICES ASSUME n + 1 \in 1 .. 4 PROVE FALSE
      OBVIOUS
    <3>1. n + 1 = 1 \/ n + 1 = 2 \/ n + 1 = 3 \/ n + 1 = 4
      OBVIOUS
    <3> QED
      BY <2>2, <3>1 DEF IsTransfer
  <2>5. ~\E v \in 1 .. z :
          n + 1 \in {Turn(v) - 3, Turn(v) - 2, Turn(v) - 1}
    BY <2>3 DEF IsTransfer
  <2> QED
    BY <2>1, <2>4, <2>5, CommandKinds
<1>2. n = Turn(u) - 1 /\ u \in 0 .. n /\ u \in Nat
  BY <1>1 DEF Turn
<1>3. tape = TapeNo(q, u) /\ pos = PosOn(q, u)
  BY <1>2 DEF Ran
<1>4. /\ c = acc.cmds[Turn(u)] /\ c.arg \in Nat \ {0}
      /\ FirstOn(q, u) + c.arg = StopOn(q, u, acc.addr)
      /\ StopOn(q, u, acc.addr) <= acc.addr
      /\ PosOn(q, u) + c.arg <= TapeBlocks
  BY <1>1, PlanTransfers
<1>5. c.off \in Nat /\ Contiguous(acc.pgt, acc.addr)
  BY DEF Command, Plan, Tabled
<1>6. IF c.off + c.arg <= R
      THEN /\ phase' = "run" /\ tape' = tape /\ pos' = pos + c.arg
           /\ placed' = placed \cup
                {<<c.off + j, tape, pos + j>> : j \in 0 .. c.arg - 1}
      ELSE phase' = "failed"
  <2>1. /\ c.arg \in Nat \ {0} /\ c.off \in Nat /\ pos \in Nat
        /\ acc \in Locals /\ Contiguous(acc.pgt, acc.addr) /\ Transfer(c)
        /\ pos + c.arg <= TapeBlocks
    BY <1>3, <1>4, <1>5
  <2> HIDE DEF c
  <2> QED
    BY <2>1, TransferEffect DEF R
<1>7. CASE c.off + c.arg <= R
  <2>1. {<<c.off + j, tape, pos + j>> : j \in 0 .. c.arg - 1} = Puts(q, c, u)
    BY <1>3 DEF Puts
  <2>2. placed' = placed \cup Puts(q, acc.cmds[Turn(u)], u)
          /\ pos' = PosOn(q, u) + acc.cmds[Turn(u)].arg
    BY <1>3, <1>4, <1>6, <1>7, <2>1
  <2>3. /\ Ran(q, acc, z, Turn(u) - 1, tape, pos, placed)
        /\ acc.cmds[Turn(u)].off + acc.cmds[Turn(u)].arg <= Reach(acc.pgt)
    BY <1>2, <1>4, <1>7
  <2>4. Ran(q, acc, z, Turn(u), tape', PosOn(q, u) + acc.cmds[Turn(u)].arg,
            placed \cup Puts(q, acc.cmds[Turn(u)], u))
    BY ONLY <2>3, RanTransfer, z \in Nat, u \in 0 .. z
  <2> QED
    BY <1>1, <1>6, <1>7, <2>2, <2>4
<1>8. CASE ~(c.off + c.arg <= R)
  <2>1. ASSUME WellPlanned(q) PROVE FALSE
    <3>1. R = acc.addr /\ c.off = FirstOn(q, u)
      BY <1>4, <2>1, RightOffsets
    <3> QED
      BY <1>4, <1>8, <3>1
  <2> QED
    BY <1>6, <1>8, <2>1
<1> QED
  BY <1>7, <1>8

(* A transfer queued after the last tape's has no tape left.               *)
LEMMA OddTransferFails ==
  ASSUME NEW q \in Inputs, acc \in Locals, pos \in Nat,
         NEW z \in Nat, Plan(q, acc, z), EndsBadly(q, acc, z),
         Ran(q, acc, z, Turn(z), tape, pos, placed),
         acc.cmds[Turn(z) + 1] \in Command, Transfer(acc.cmds[Turn(z) + 1])
  PROVE  phase' = "failed" /\ ~WellPlanned(q)
<1> DEFINE c == acc.cmds[Turn(z) + 1]
           g == c.arg
           h == FirstOn(q, z + 1)
           d == acc.addr
<1>1. /\ c.arg \in Nat \ {0} /\ c.off \in Nat /\ Contiguous(acc.pgt, acc.addr)
  BY DEF Command, EndsBadly, Plan, Tabled
<1>2. z \in 0 .. z /\ z \in 0 .. Turn(z)
  BY DEF Turn
<1>3. pos = TapeBlocks
  <2>1. h <= d => PosOn(q, z) + acc.cmds[Turn(z)].arg = TapeBlocks
    BY <1>2, PlanTransfers
  <2>2. h < d /\ d \in Nat /\ h \in Nat
    <3>1. z + 1 \in Nat
      OBVIOUS
    <3> QED
      BY <3>1, Tapes, TableType DEF EndsBadly
  <2>3. h <= d
    <3> HIDE DEF h, d
    <3> QED
      BY <2>2
  <2>4. pos = PosOn(q, z) + acc.cmds[Turn(z)].arg
    BY <1>2 DEF Ran
  <2> QED
    BY <2>1, <2>3, <2>4
<1>4. TapeBlocks \in Nat
  BY GeometryAssumption
<1> HIDE DEF c
<1>5. ~(pos + c.arg <= TapeBlocks)
  BY <1>1, <1>3, <1>4
<1>6. phase' = "failed"
  BY <1>1, <1>5, TransferEffect DEF c
<1> QED
  BY <1>6 DEF EndsBadly, WellPlanned

-----------------------------------------------------------------------------
(* The outcome.  Every block of a request has a tape.                      *)
LEMMA TapeExists ==
  ASSUME NEW q \in Inputs, NEW n \in Nat
  PROVE  \E u \in Nat : FirstOn(q, u) <= n /\ n < FirstOn(q, u + 1)
<1> DEFINE o == q.start
           t == TapeOf(o + n)
           s == StartTape(o)
           u == t - s
           B == Base(t - 1)
           C == Base(t)
<1>1. o \in Nat /\ o + n \in Nat /\ o <= o + n
  BY InputType
<1>2. /\ t \in Nat \ {0} /\ B <= o + n /\ o + n < C
      /\ s = TapeOf(o) /\ s \in Nat
  BY <1>1, OnTape, StartsOn, StartOnTape
<1>3. s <= t
  BY <1>1, <1>2, TapesOrdered
<1>4. B \in Int /\ C \in Int
  BY <1>2, BaseNext
<1> HIDE DEF o, t, s, B, C
<1>5. u \in Nat /\ s + u = t
  BY <1>2, <1>3
<1> HIDE DEF u
<1>6. TapeNo(q, u) = t
  BY <1>5 DEF TapeNo, s, o
<1>7. FirstOn(q, u + 1) = C - o
  BY <1>5, <1>6, Tapes DEF C, o
<1>8. FirstOn(q, u) = IF u = 0 THEN 0 ELSE B - o
  BY <1>6 DEF FirstOn, B, o
<1>9. FirstOn(q, u) <= n /\ n < FirstOn(q, u + 1)
  BY <1>1, <1>2, <1>4, <1>7, <1>8
<1> QED
  BY <1>5, <1>9

(* Where the blocks of request q belong.                                   *)
Right(q) == {<<n, TapeOf(q.start + n), BlockOf(q.start + n)>> :
               n \in 0 .. SumOf(q.segs) - 1}

(* What all the transfers of a plan have put where.                        *)
LEMMA AllPut ==
  ASSUME NEW q, NEW a, NEW z \in Nat, NEW tp, NEW ps, NEW pl,
         Ran(q, a, z, Turn(z), tp, ps, pl)
  PROVE  /\ \A u \in 0 .. z :
              /\ Puts(q, a.cmds[Turn(u)], u) \subseteq pl
              /\ a.cmds[Turn(u)].off + a.cmds[Turn(u)].arg <= Reach(a.pgt)
         /\ \A e \in pl : \E u \in 0 .. z : e \in Puts(q, a.cmds[Turn(u)], u)
<1> DEFINE P(v) == Puts(q, a.cmds[Turn(v)], v)
           A == {v \in 0 .. Turn(z) : Turn(v) <= Turn(z)}
<1>1. A = 0 .. z
  <2>1. \A v \in 0 .. Turn(z) : Turn(v) <= Turn(z) => v \in 0 .. z
    BY DEF Turn
  <2>2. \A v \in 0 .. z : v \in 0 .. Turn(z) /\ Turn(v) <= Turn(z)
    BY DEF Turn
  <2> QED
    BY <2>1, <2>2
<1>2. /\ pl = UNION {P(v) : v \in A}
      /\ \A u \in A : a.cmds[Turn(u)].off + a.cmds[Turn(u)].arg <= Reach(a.pgt)
  BY DEF Ran
<1> HIDE DEF A, P
<1>3. /\ \A u \in 0 .. z : P(u) \subseteq pl
      /\ \A e \in pl : \E u \in 0 .. z : e \in P(u)
  BY <1>1, <1>2
<1> QED
  BY <1>1, <1>2, <1>3 DEF P

(* If the conditions are met every block is where it belongs.              *)
LEMMA WellPlannedRight ==
  ASSUME NEW q \in Inputs, NEW a \in Locals, NEW z \in Nat, Plan(q, a, z),
         EndsWell(q, a, z), NEW tp, NEW ps, NEW pl,
         Ran(q, a, z, Turn(z), tp, ps, pl), WellPlanned(q)
  PROVE  pl = Right(q)
<1> DEFINE d == a.addr
           c(u) == a.cmds[Turn(u)]
           f(u) == FirstOn(q, u)
           Cell(n) == <<n, TapeOf(q.start + n), BlockOf(q.start + n)>>
<1>1. d \in Nat /\ d = SumOf(q.segs)
  BY TableType DEF Plan
<1>2. \A u \in 0 .. z : c(u).off = f(u)
  BY RightOffsets
<1>3. \A u \in 0 .. z :
        /\ c(u).arg \in Nat \ {0} /\ f(u) \in Nat /\ f(u + 1) \in Nat
        /\ f(u) + c(u).arg = StopOn(q, u, d)
        /\ f(u) + c(u).arg <= d /\ f(u) + c(u).arg <= f(u + 1)
  <2> TAKE u \in 0 .. z
  <2>1. u \in Nat /\ u + 1 \in Nat
    OBVIOUS
  <2>2. f(u) \in Nat /\ f(u + 1) \in Nat
    BY <2>1, Tapes
  <2>3. /\ c(u).arg \in Nat \ {0} /\ f(u) + c(u).arg = StopOn(q, u, d)
        /\ StopOn(q, u, d) <= d /\ StopOn(q, u, d) <= f(u + 1)
    BY PlanTransfers
  <2> QED
    BY <2>2, <2>3
<1>4. /\ \A u \in 0 .. z : Puts(q, c(u), u) \subseteq pl
      /\ \A e \in pl : \E u \in 0 .. z : e \in Puts(q, c(u), u)
  BY AllPut
<1>5. Right(q) = {Cell(n) : n \in 0 .. d - 1}
  BY <1>1 DEF Right
<1>6. d <= f(z + 1)
  BY DEF EndsWell
<1>7. ASSUME NEW u \in 0 .. z, NEW j \in 0 .. c(u).arg - 1
      PROVE  /\ <<f(u) + j, TapeNo(q, u), PosOn(q, u) + j>> = Cell(f(u) + j)
             /\ f(u) + j \in 0 .. d - 1
  <2> DEFINE x == f(u)
             y == f(u + 1)
             g == c(u).arg
             n == x + j
  <2>1. /\ x \in Nat /\ y \in Nat /\ g \in Nat \ {0} /\ j \in 0 .. g - 1
        /\ x + g <= d /\ x + g <= y /\ u \in Nat
    BY <1>3
  <2> HIDE DEF x, y, g, d
  <2>2. n \in Nat /\ x <= n /\ n < y /\ n \in 0 .. d - 1 /\ n - x = j
    BY ONLY <2>1, <1>1
  <2>3. /\ TapeOf(q.start + n) = TapeNo(q, u)
        /\ (q.start + n) % TapeBlocks = PosOn(q, u) + (n - FirstOn(q, u))
    <3>1. q \in Inputs /\ u \in Nat /\ n \in Nat
            /\ FirstOn(q, u) <= n /\ n < FirstOn(q, u + 1)
      BY <2>1, <2>2 DEF x, y
    <3> HIDE DEF n
    <3> QED
      BY ONLY <3>1, TapeOfBlock
  <2>4. BlockOf(q.start + n) = PosOn(q, u) + j
    BY <2>2, <2>3 DEF BlockOf, x
  <2> QED
    BY <2>2, <2>3, <2>4 DEF x
<1>8. pl \subseteq Right(q)
  <2> SUFFICES ASSUME NEW e \in pl PROVE e \in Right(q)
    OBVIOUS
  <2>1. PICK u \in 0 .. z : e \in Puts(q, c(u), u)
    BY <1>4
  <2>2. PICK j \in 0 .. c(u).arg - 1 :
          e = <<c(u).off + j, TapeNo(q, u), PosOn(q, u) + j>>
    BY <2>1 DEF Puts
  <2>3. e = <<f(u) + j, TapeNo(q, u), PosOn(q, u) + j>>
    BY <1>2, <2>2
  <2> HIDE DEF c, f, Cell
  <2> QED
    BY <1>5, <1>7, <2>3
<1>9. Right(q) \subseteq pl
  <2> SUFFICES ASSUME NEW n \in 0 .. d - 1 PROVE Cell(n) \in pl
    BY <1>5
  <2>1. n \in Nat /\ n < d
    BY <1>1
  <2>2. PICK u \in Nat : f(u) <= n /\ n < f(u + 1)
    BY <2>1, TapeExists
  <2>3. u \in 0 .. z
    <3> SUFFICES ASSUME z < u PROVE FALSE
      OBVIOUS
    <3>1. f(z + 1) <= f(u) /\ f(z + 1) \in Nat /\ f(u) \in Nat
      <4>1. z + 1 \in Nat
        OBVIOUS
      <4> QED
        BY <4>1, Tapes, TapesGrow
    <3> DEFINE x == f(z + 1)
               y == f(u)
    <3>2. x <= y /\ x \in Nat /\ y \in Nat /\ y <= n /\ d <= x
      BY <1>6, <2>2, <3>1
    <3> HIDE DEF x, y, d
    <3> QED
      BY ONLY <1>1, <2>1, <3>2
  <2> DEFINE x == f(u)
             y == f(u + 1)
             g == c(u).arg
             j == n - x
  <2>4. /\ x \in Nat /\ y \in Nat /\ g \in Nat \ {0} /\ x <= n /\ n < y
        /\ x + g = IF y <= d THEN y ELSE d
    BY <1>3, <2>2, <2>3 DEF StopOn
  <2> HIDE DEF x, y, g, d, f
  <2>5. j \in 0 .. g - 1 /\ x + j = n
    BY ONLY <1>1, <2>1, <2>4
  <2>6. <<x + j, TapeNo(q, u), PosOn(q, u) + j>> = Cell(x + j)
    BY <1>7, <2>3, <2>5 DEF x, g
  <2>7. <<c(u).off + j, TapeNo(q, u), PosOn(q, u) + j>> \in Puts(q, c(u), u)
    BY <2>5 DEF Puts, g
  <2>8. c(u).off = x
    BY <1>2, <2>3 DEF x
  <2> HIDE DEF j, c, Cell
  <2> QED
    BY <1>4, <2>3, <2>5, <2>6, <2>7, <2>8
<1> QED
  BY <1>8, <1>9

(* If every block is where it belongs the conditions are met.              *)
LEMMA RightWellPlanned ==
  ASSUME NEW q \in Inputs, NEW a \in Locals, NEW z \in Nat, Plan(q, a, z),
         EndsWell(q, a, z), NEW tp, NEW ps, NEW pl,
         Ran(q, a, z, Turn(z), tp, ps, pl), pl = Right(q)
  PROVE  WellPlanned(q)
<1> DEFINE d == a.addr
           R == Reach(a.pgt)
           c(u) == a.cmds[Turn(u)]
<1>1. d \in Nat /\ d = SumOf(q.segs)
  BY TableType DEF Plan
<1>2. /\ Contiguous(a.pgt, d) /\ a.pgt \in Seq([addr : Nat, n : Nat])
      /\ Len(a.pgt) \in Nat /\ R \in Nat
      /\ Len(a.pgt) = Len(q.segs) +
           Cardinality({m \in 1 .. Len(q.segs) : Straddles(q, m)})
  BY TableType, CellsInOrder DEF Plan, Tabled
<1>3. /\ \A u \in 0 .. z : /\ Puts(q, c(u), u) \subseteq pl
                           /\ c(u).off + c(u).arg <= R
      /\ \A e \in pl : \E u \in 0 .. z : e \in Puts(q, c(u), u)
  BY AllPut
<1>4. \A u \in 0 .. z : c(u).arg \in Nat \ {0} /\ c(u).off \in Nat
  <2> TAKE u \in 0 .. z
  <2>1. a.cmds \in Seq(Command) /\ Len(a.cmds) = Turn(z)
    BY DEF Locals, EndsWell
  <2>2. Turn(u) \in 1 .. Turn(z)
    BY DEF Turn
  <2>3. c(u) \in Command
    BY <2>1, <2>2, ElementOfSeq
  <2>4. c(u).arg \in Nat \ {0}
    BY PlanTransfers
  <2> HIDE DEF c
  <2> QED
    BY <2>3, <2>4 DEF Command
<1>5. TableFits(q)
  <2> SUFFICES ASSUME Len(a.pgt) > MaxSgEntries PROVE FALSE
    BY <1>2, TableAssumption DEF TableFits
  <2>1. R < d
    BY <1>2, ReachBound
  <2> DEFINE n == d - 1
  <2>2. n \in 0 .. d - 1
    BY <1>1, <1>2, <2>1
  <2>3. <<n, TapeOf(q.start + n), BlockOf(q.start + n)>> \in pl
    BY <1>1, <2>2 DEF Right
  <2>4. PICK u \in 0 .. z :
          <<n, TapeOf(q.start + n), BlockOf(q.start + n)>> \in
            Puts(q, c(u), u)
    BY <1>3, <2>3
  <2>5. PICK j \in 0 .. c(u).arg - 1 : n = c(u).off + j
    BY <2>4 DEF Puts
  <2> DEFINE g == c(u).arg
             o == c(u).off
  <2>6. /\ g \in Nat \ {0} /\ o \in Nat /\ j \in 0 .. g - 1 /\ n = o + j
        /\ o + g <= R
    BY <1>3, <1>4, <2>5
  <2> HIDE DEF g, o, R, d
  <2> QED
    BY ONLY <1>1, <1>2, <2>1, <2>6 DEF n
<1>6. EntriesAreBlocks(q)
  <2> SUFFICES ASSUME NEW m \in 1 .. Len(q.segs), CrossesAt(q, m)
               PROVE  SingleUpTo(q, m)
    BY DEF EntriesAreBlocks
  <2>1. PICK u \in 1 .. z, p \in 0 .. Len(a.pgt) : Starts(q, a, m, u, p)
    BY DEF EndsWell
  <2>2. /\ c(u).off = p % MaxSgEntries
        /\ p <= FirstOn(q, u)
        /\ p = FirstOn(q, u) <=> SingleUpTo(q, m)
    BY <2>1 DEF Starts, Entered
  <2> DEFINE o == c(u).off
             f == FirstOn(q, u)
             B == Base(TapeNo(q, u) - 1)
  <2>3. u \in 0 .. z /\ u \in Nat /\ u # 0
    BY <2>1
  <2>4. PosOn(q, u) = 0 /\ f = B - q.start /\ f \in Nat
    BY <2>3, Tapes DEF PosOn, FirstOn
  <2>5. <<o, TapeNo(q, u), 0>> \in pl
    <3>1. 0 \in 0 .. c(u).arg - 1 /\ o + 0 = o /\ 0 + 0 = 0
      BY <1>4, <2>3
    <3>2. <<o + 0, TapeNo(q, u), PosOn(q, u) + 0>> \in Puts(q, c(u), u)
      BY <3>1 DEF Puts
    <3>3. <<o, TapeNo(q, u), 0>> \in Puts(q, c(u), u)
      BY <2>4, <3>1, <3>2
    <3> QED
      BY <1>3, <2>3, <3>3
  <2>6. PICK n \in 0 .. SumOf(q.segs) - 1 :
          <<o, TapeNo(q, u), 0>> =
            <<n, TapeOf(q.start + n), BlockOf(q.start + n)>>
    BY <2>5 DEF Right
  <2>7. o = n /\ TapeOf(q.start + n) = TapeNo(q, u)
          /\ (q.start + n) % TapeBlocks = 0
    BY <2>6 DEF BlockOf
  <2>8. n \in Nat /\ q.start \in Nat /\ q.start + n \in Nat
    BY <1>1, InputType
  <2>9. q.start + n = B
    <3> DEFINE x == q.start + n
    <3>1. x \in Nat
      BY <2>8
    <3>2. x % TapeBlocks = x - Base(TapeOf(x) - 1)
      BY <3>1, OnTape
    <3>3. 0 = x - B
      BY <2>7, <3>2
    <3>4. B \in Int
      <4>1. TapeNo(q, u) \in Nat
        BY <2>3, Tapes
      <4>2. TapeNo(q, u) - 1 \in Int
        BY <4>1
      <4> QED
        BY <4>2, BaseNext
    <3> HIDE DEF x, B
    <3>5. x = B
      BY <3>1, <3>3, <3>4
    <3> QED
      BY <3>5 DEF x
  <2>10. n = f
    <3> HIDE DEF B, f
    <3> QED
      BY <2>4, <2>8, <2>9
  <2>11. p % MaxSgEntries <= p /\ p \in Nat
    <3>1. p \in Nat /\ MaxSgEntries \in Nat \ {0}
      BY <1>2, TableAssumption
    <3> QED
      BY ONLY <3>1
  <2>12. p = f
    <3>1. f = p % MaxSgEntries /\ p <= f
      BY <2>2, <2>7, <2>10
    <3> HIDE DEF f
    <3> QED
      BY <2>4, <2>11, <3>1
  <2> QED
    BY <2>2, <2>12
<1> QED
  BY <1>5, <1>6 DEF WellPlanned, EndsWell

-----------------------------------------------------------------------------
(* The invariant.                                                          *)
LEMMA RanInit ==
  ASSUME NEW q, NEW a, NEW z \in Nat, NEW tp, NEW ps
  PROVE  Ran(q, a, z, 0, tp, ps, {})
<1>1. 0 <= Turn(z) /\ \A v \in 0 .. 0 : ~(Turn(v) <= 0) /\ 0 # Turn(v) - 2
                                        /\ 0 # Turn(v) - 1 /\ 0 # Turn(v)
  BY DEF Turn
<1>2. {v \in 0 .. 0 : Turn(v) <= 0} = {}
  BY <1>1
<1>3. {} = UNION {Puts(q, a.cmds[Turn(u)], u) :
                    u \in {v \in 0 .. 0 : Turn(v) <= 0}}
  BY <1>2
<1> QED
  BY <1>1, <1>3 DEF Ran

LEMMA PlacementInit == Init => PlacementInv
<1> SUFFICES ASSUME Init PROVE PlacementInv
  OBVIOUS
<1>1. /\ r \in Inputs /\ phase = "build" /\ i = 0 /\ acc = SgInit(r)
      /\ sent = 0 /\ k = 0 /\ placed = {}
  BY DEF Init
<1>2. Built(r, i, acc, sent)
  BY <1>1, BuiltInit
<1> QED
  BY <1>1, <1>2 DEF PlacementInv

(* What the type and the accounts give in every state.                     *)
LEMMA StateFacts ==
  ASSUME IInv
  PROVE  /\ r \in Inputs /\ acc \in Locals /\ sent \in Nat /\ k \in Nat
         /\ tape \in Nat /\ pos \in Nat /\ i \in 0 .. Len(r.segs)
         /\ acc.cmds \in Seq(Command) /\ Len(acc.cmds) \in Nat
         /\ phase = "build" => Accounts(r, acc, sent)
<1>1. /\ r \in Inputs /\ acc \in Locals /\ sent \in Nat /\ k \in Nat
      /\ tape \in Nat /\ pos \in Nat /\ i \in 0 .. Len(r.segs)
  BY LocalsTyped DEF IInv
<1>2. acc.cmds \in Seq(Command) /\ Len(acc.cmds) \in Nat
  BY <1>1, LenProperties DEF Locals
<1>3. phase = "build" => Accounts(r, acc, sent)
  BY DEF IInv, Accounting, Accounts, Base
<1> QED
  BY <1>1, <1>2, <1>3

LEMMA PlaceSegment ==
  ASSUME IInv, PlacementInv, Segment
  PROVE  PlacementInv'
<1>1. /\ r \in Inputs /\ acc \in Locals /\ sent \in Nat
      /\ i \in 0 .. Len(r.segs) /\ i < Len(r.segs) /\ Accounts(r, acc, sent)
      /\ Built(r, i, acc, sent) /\ k = 0 /\ placed = {}
  BY StateFacts DEF PlacementInv, Segment
<1>2. /\ acc' = SgStep(acc, r.segs[i + 1], r.write)
      /\ i' = i + 1 /\ r' = r /\ k' = k /\ placed' = placed
      /\ phase' = IF acc'.failed THEN "failed" ELSE "build"
      /\ sent' = IF acc'.tape_nbr # acc.tape_nbr
                 THEN sent + acc.blocks_left_in_tape ELSE sent
  BY DEF Segment
<1>3. \/ acc'.failed = TRUE /\ ~TableFits(r)
      \/ /\ acc'.failed = FALSE /\ acc'.tape_nbr = acc.tape_nbr
         /\ Built(r, i + 1, acc', sent)
      \/ /\ acc'.failed = FALSE /\ acc'.tape_nbr # acc.tape_nbr
         /\ Built(r, i + 1, acc', sent + acc.blocks_left_in_tape)
  <2>1. /\ r \in Inputs /\ i \in 0 .. Len(r.segs) /\ i < Len(r.segs)
        /\ acc \in Locals /\ sent \in Nat /\ Accounts(r, acc, sent)
        /\ Built(r, i, acc, sent)
    BY <1>1
  <2>2. LET b == SgStep(acc, r.segs[i + 1], r.write)
        IN  \/ b.failed = TRUE /\ ~TableFits(r)
            \/ /\ b.failed = FALSE /\ b.tape_nbr = acc.tape_nbr
               /\ Built(r, i + 1, b, sent)
            \/ /\ b.failed = FALSE /\ b.tape_nbr # acc.tape_nbr
               /\ Built(r, i + 1, b, sent + acc.blocks_left_in_tape)
    BY ONLY <2>1, BuiltStep
  <2> QED
    BY <1>2, <2>2
<1>4. CASE acc'.failed = TRUE
  <2>1. ~WellPlanned(r') /\ phase' = "failed"
    BY <1>2, <1>3, <1>4 DEF WellPlanned
  <2> QED
    BY <2>1 DEF PlacementInv
<1>5. CASE acc'.failed = FALSE
  <2>1. Built(r', i', acc', sent') /\ phase' = "build"
    BY <1>2, <1>3, <1>5
  <2> QED
    BY <1>1, <1>2, <2>1 DEF PlacementInv
<1> QED
  BY <1>3, <1>4, <1>5

LEMMA PlaceSubmit ==
  ASSUME IInv, PlacementInv, Submit
  PROVE  PlacementInv'
<1>1. /\ r \in Inputs /\ acc \in Locals /\ sent \in Nat
      /\ Accounts(r, acc, sent) /\ i = Len(r.segs)
      /\ Built(r, i, acc, sent) /\ k = 0 /\ placed = {}
  BY StateFacts DEF PlacementInv, Submit
<1>2. /\ acc' = SgFinish(acc, r.write) /\ phase' = "run"
      /\ r' = r /\ k' = k /\ placed' = placed
  BY DEF Submit
<1>3. acc'.cmds \in Seq(Command)
  BY SubmitType DEF TypeOK
<1>4. Len(acc'.cmds) \in Nat
  BY <1>3, LenProperties
<1>5. PICK z \in 0 .. Len(acc'.cmds) : Plan(r, acc', z)
  BY <1>1, <1>2, <1>3, SubmitPlan
<1>6. z \in Nat
  BY <1>4, <1>5
<1>7. Ran(r, acc', z, 0, tape', pos', {})
  BY <1>6, RanInit
<1>8. Plan(r', acc', z) /\ Ran(r', acc', z, k', tape', pos', placed')
  BY <1>1, <1>2, <1>5, <1>7
<1> QED
  BY <1>2, <1>5, <1>8 DEF PlacementInv

LEMMA PlaceRun ==
  ASSUME IInv, PlacementInv, Run
  PROVE  PlacementInv'
<1> DEFINE c == acc.cmds[k + 1]
<1>1. /\ r \in Inputs /\ acc \in Locals /\ k \in Nat /\ pos \in Nat
      /\ acc.cmds \in Seq(Command) /\ Len(acc.cmds) \in Nat
  BY StateFacts
<1>2. /\ phase = "run" /\ k < Len(acc.cmds) /\ k' = k + 1
      /\ r' = r /\ acc' = acc
      /\ IF IsTransfer(c) THEN Transfer(c) ELSE Position(c)
  BY DEF Run
<1>3. PICK z \in 0 .. Len(acc.cmds) :
        Plan(r, acc, z) /\ Ran(r, acc, z, k, tape, pos, placed)
  BY <1>2 DEF PlacementInv
<1>4. z \in Nat /\ k <= Turn(z)
  BY <1>1, <1>3 DEF Ran
<1>5. c \in Command
  <2>1. k + 1 \in 1 .. Len(acc.cmds)
    BY <1>1, <1>2
  <2> QED
    BY <1>1, <2>1, ElementOfSeq
<1>6. CASE k < Turn(z) /\ IsTransfer(c)
  <2>1. \/ phase' = "run" /\ Ran(r, acc, z, k + 1, tape', pos', placed')
        \/ phase' = "failed" /\ ~WellPlanned(r)
    BY <1>1, <1>2, <1>3, <1>4, <1>5, <1>6, TransferStep
  <2>2. \/ /\ phase' = "run" /\ Plan(r', acc', z)
           /\ Ran(r', acc', z, k', tape', pos', placed')
        \/ phase' = "failed" /\ ~WellPlanned(r')
    BY <1>2, <1>3, <2>1
  <2>3. z \in 0 .. Len(acc'.cmds)
    BY <1>2
  <2> QED
    BY <2>2, <2>3 DEF PlacementInv
<1>7. CASE k < Turn(z) /\ ~IsTransfer(c)
  <2>1. Position(c)
    BY <1>2, <1>7
  <2>2. phase' = "run" /\ placed' = placed
    BY <1>2, <2>1 DEF Position
  <2>3. Ran(r, acc, z, k + 1, tape', pos', placed)
    BY <1>1, <1>3, <1>4, <1>7, <2>1, PlainStep
  <2>4. /\ Plan(r', acc', z) /\ z \in 0 .. Len(acc'.cmds)
        /\ Ran(r', acc', z, k', tape', pos', placed')
    BY <1>2, <1>3, <2>2, <2>3
  <2> QED
    BY <2>2, <2>4 DEF PlacementInv
<1>8. CASE ~(k < Turn(z))
  <2>1. k = Turn(z)
    BY <1>1, <1>4, <1>8 DEF Turn
  <2>2. EndsBadly(r, acc, z)
    <3>1. Len(acc.cmds) # Turn(z)
      BY <1>1, <1>2, <2>1
    <3> QED
      BY <1>3, <3>1 DEF Plan, EndsWell
  <2>3. IsTransfer(c)
    BY <2>1, <2>2 DEF EndsBadly
  <2>4. /\ Ran(r, acc, z, Turn(z), tape, pos, placed)
        /\ acc.cmds[Turn(z) + 1] \in Command
        /\ Transfer(acc.cmds[Turn(z) + 1])
    BY <1>2, <1>3, <1>5, <2>1, <2>3
  <2>5. phase' = "failed" /\ ~WellPlanned(r)
    BY <1>1, <1>3, <1>4, <2>2, <2>4, OddTransferFails
  <2>6. phase' = "failed" /\ ~WellPlanned(r')
    BY <1>2, <2>5
  <2> QED
    BY <2>6 DEF PlacementInv
<1> QED
  BY <1>6, <1>7, <1>8

LEMMA PlacementStep ==
  ASSUME IInv, PlacementInv, [Next]_sgVars
  PROVE  PlacementInv'
<1>1. CASE Segment
  BY <1>1, PlaceSegment
<1>2. CASE Submit
  BY <1>2, PlaceSubmit
<1>3. CASE Run
  BY <1>3, PlaceRun
<1>4. CASE Finish
  <2>1. /\ phase = "run" /\ k = Len(acc.cmds) /\ phase' = "done"
        /\ r' = r /\ acc' = acc /\ k' = k /\ tape' = tape /\ pos' = pos
        /\ placed' = placed
    BY <1>4 DEF Finish
  <2> QED
    BY <2>1 DEF PlacementInv
<1>5. CASE UNCHANGED sgVars
  BY <1>5 DEF sgVars, PlacementInv
<1> QED
  BY <1>1, <1>2, <1>3, <1>4, <1>5 DEF Next

LEMMA PlacementFollows ==
  ASSUME IInv, PlacementInv
  PROVE  PlacementExact
<1>1. phase = "failed" => ~WellPlanned(r)
  BY DEF PlacementInv
<1>2. ASSUME phase = "done"
      PROVE  placed = Right(r) <=> WellPlanned(r)
  <2>1. r \in Inputs /\ acc \in Locals /\ Len(acc.cmds) \in Nat /\ k \in Nat
    BY StateFacts
  <2>2. PICK z \in 0 .. Len(acc.cmds) :
          Plan(r, acc, z) /\ Ran(r, acc, z, k, tape, pos, placed)
    BY <1>2 DEF PlacementInv
  <2>3. k = Len(acc.cmds) /\ k <= Turn(z) /\ z \in Nat
    BY <1>2, <2>1, <2>2 DEF PlacementInv, Ran
  <2>4. EndsWell(r, acc, z)
    <3>1. Len(acc.cmds) # Turn(z) + 1
      BY <2>1, <2>3 DEF Turn
    <3> QED
      BY <2>2, <3>1 DEF Plan, EndsBadly
  <2>5. k = Turn(z)
    BY <2>3, <2>4 DEF EndsWell
  <2>6. Ran(r, acc, z, Turn(z), tape, pos, placed)
    BY <2>2, <2>5
  <2>7. WellPlanned(r) => placed = Right(r)
    BY <2>1, <2>2, <2>3, <2>4, <2>6, WellPlannedRight
  <2>8. placed = Right(r) => WellPlanned(r)
    BY <2>1, <2>2, <2>3, <2>4, <2>6, RightWellPlanned
  <2> QED
    BY <2>7, <2>8
<1> QED
  BY <1>1, <1>2 DEF PlacementExact, Right

(* A request that do_scatter_gather plans and the device carries out ends  *)
(* up with every block where the section's numbering says just when its    *)
(* page table entries up to the last crossing are single blocks, its last  *)
(* segment lies on one tape and its entries fit the table; the others fail *)
(* or go elsewhere.  For tapes and tables of any size and any requests.    *)
THEOREM PlacementIsExact == Spec => []PlacementExact
<1>1. IInv /\ PlacementInv /\ [Next]_sgVars => PlacementInv'
  BY PlacementStep
<1>2. IInv /\ PlacementInv => PlacementExact
  BY PlacementFollows
<1>3. Spec => []PlacementInv
  BY <1>1, PlacementInit, Inductive, PTL DEF Spec
<1> QED
  BY <1>2, <1>3, Inductive, PTL

-----------------------------------------------------------------------------
(* DoScatterGather, the rounds at one go, of which module TapeDriver gets  *)
(* the plans of its requests, and the loop of Spec.                        *)

(* f holds the locals after each of the first n rounds.                    *)
Rounds(f, q, n) ==
  /\ f = [m \in 0 .. n |-> f[m]]
  /\ f[0] = SgInit(q)
  /\ \A m \in 1 .. n : f[m] = SgStep(f[m - 1], q.segs[m], q.write)

LEMMA RoundsExist ==
  ASSUME NEW q \in Inputs
  PROVE  \E f : Rounds(f, q, Len(q.segs))
<1> DEFINE N == Len(q.segs)
           Next1(a, m) == SgStep(a, q.segs[m], q.write)
           S == {n \in 0 .. N : \E f : Rounds(f, q, n)}
<1>1. N \in Nat
  BY InputType
<1>2. \A f, n : Rounds(f, q, n) <=>
        /\ f = [m \in 0 .. n |-> f[m]] /\ f[0] = SgInit(q)
        /\ \A m \in 1 .. n : f[m] = Next1(f[m - 1], m)
  BY DEF Rounds
<1> HIDE DEF N, Next1
<1>3. 0 \in S
  <2> DEFINE f == [x \in 0 .. 0 |-> SgInit(q)]
  <2>1. f = [m \in 0 .. 0 |-> f[m]] /\ f[0] = SgInit(q)
    OBVIOUS
  <2>2. Rounds(f, q, 0)
    <3> HIDE DEF f
    <3>1. \A m \in 1 .. 0 : f[m] = Next1(f[m - 1], m)
      OBVIOUS
    <3> QED
      BY <1>2, <2>1, <3>1
  <2> QED
    BY <1>1, <2>2
<1>4. ASSUME NEW n \in 0 .. N - 1, n \in S
      PROVE  n + 1 \in S
  <2>1. PICK f : Rounds(f, q, n)
    BY <1>4
  <2> DEFINE g == [x \in 0 .. n + 1 |->
                     IF x = n + 1 THEN Next1(f[n], n + 1) ELSE f[x]]
  <2>2. n \in Nat /\ n + 1 \in 0 .. N /\ 0 \in 0 .. n + 1 /\ 0 # n + 1
    BY <1>1
  <2>3. f[0] = SgInit(q) /\ \A m \in 1 .. n : f[m] = Next1(f[m - 1], m)
    BY <1>2, <2>1
  <2>4. g[0] = SgInit(q)
    BY <2>2, <2>3
  <2>5. ASSUME NEW m \in 1 .. n + 1
        PROVE  g[m] = Next1(g[m - 1], m)
    <3>1. m - 1 \in 0 .. n + 1 /\ m - 1 # n + 1 /\ m \in 0 .. n + 1
      BY <2>2
    <3>2. g[m - 1] = f[m - 1]
      BY <3>1
    <3>3. CASE m = n + 1
      <4>1. m - 1 = n
        BY <2>2, <3>3
      <4> QED
        BY <3>1, <3>2, <3>3, <4>1
    <3>4. CASE m # n + 1
      <4>1. m \in 1 .. n
        BY <2>2, <3>4
      <4> QED
        BY <2>3, <3>1, <3>2, <3>4, <4>1
    <3> QED
      BY <3>3, <3>4
  <2>6. g = [m \in 0 .. n + 1 |-> g[m]]
    OBVIOUS
  <2>7. Rounds(g, q, n + 1)
    <3> HIDE DEF g
    <3> QED
      BY <1>2, <2>4, <2>5, <2>6
  <2> QED
    BY <2>2, <2>7
<1>5. N \in S
  <2> HIDE DEF S
  <2>1. \A m \in 0 .. N : m \in S
    BY <1>1, <1>3, <1>4, UpToAll
  <2> QED
    BY <1>1, <2>1
<1> QED
  BY <1>5 DEF N

LEMMA AfterRounds ==
  ASSUME NEW q \in Inputs
  PROVE  /\ SgAfter(q, 0) = SgInit(q)
         /\ \A n \in 1 .. Len(q.segs) :
              SgAfter(q, n) = SgStep(SgAfter(q, n - 1), q.segs[n], q.write)
<1> DEFINE N == Len(q.segs)
           Next1(a, m) == SgStep(a, q.segs[m], q.write)
           Rec(g) == g = [n \in 0 .. N |->
                            IF n = 0 THEN SgInit(q) ELSE Next1(g[n - 1], n)]
           run == CHOOSE g : Rec(g)
<1>1. N \in Nat
  BY InputType
<1>2. PICK f : Rounds(f, q, N)
  BY RoundsExist
<1>3. /\ f = [m \in 0 .. N |-> f[m]] /\ f[0] = SgInit(q)
      /\ \A m \in 1 .. N : f[m] = Next1(f[m - 1], m)
  BY <1>2 DEF Rounds
<1>4. \E g : Rec(g)
  <2> HIDE DEF N, Next1
  <2>1. \A n \in 0 .. N : n # 0 => n \in 1 .. N
    BY <1>1
  <2>2. \A n \in 0 .. N :
          f[n] = IF n = 0 THEN SgInit(q) ELSE Next1(f[n - 1], n)
    BY <1>3, <2>1
  <2>3. Rec(f)
    BY <1>3, <2>2
  <2> QED
    BY <2>3
<1>5. Rec(run)
  BY <1>4
<1>6. \A n : SgAfter(q, n) = run[n]
  BY DEF SgAfter
<1> HIDE DEF run, N, Next1
<1>7. \A n \in 0 .. N :
        run[n] = IF n = 0 THEN SgInit(q) ELSE Next1(run[n - 1], n)
  BY <1>5
<1>8. run[0] = SgInit(q)
  BY <1>1, <1>7
<1>9. \A n \in 1 .. N : run[n] = Next1(run[n - 1], n)
  BY <1>1, <1>7
<1> QED
  BY <1>6, <1>8, <1>9 DEF Next1, N

(* The locals are those after as many rounds as the loop has made.         *)
InStep ==
  /\ phase = "build" => acc = SgAfter(r, i)
  /\ phase \in {"run", "done"} => acc = DoScatterGather(r)

(* The loop of do_scatter_gather taken a segment per step, if it comes to  *)
(* its end, has made the plan that DoScatterGather gives: what is shown of *)
(* its plans holds for those of the driver's requests.                     *)
THEOREM LoopIsDoScatterGather ==
  Spec => [](phase \in {"run", "done"} => acc = DoScatterGather(r))
<1>1. Init => InStep
  BY AfterRounds DEF Init, InStep
<1>2. IInv /\ InStep /\ [Next]_sgVars => InStep'
  <2> SUFFICES ASSUME IInv, InStep, [Next]_sgVars PROVE InStep'
    OBVIOUS
  <2>1. CASE Segment
    <3>1. /\ r \in Inputs /\ i \in 0 .. Len(r.segs) /\ i < Len(r.segs)
          /\ acc = SgAfter(r, i) /\ Len(r.segs) \in Nat
      BY <2>1, StateFacts, InputType DEF Segment, InStep
    <3>2. i + 1 \in 1 .. Len(r.segs) /\ (i + 1) - 1 = i
      BY <3>1
    <3>3. SgAfter(r, i + 1) = SgStep(SgAfter(r, i), r.segs[i + 1], r.write)
      BY <3>1, <3>2, AfterRounds
    <3>4. /\ acc' = SgStep(acc, r.segs[i + 1], r.write) /\ i' = i + 1
          /\ r' = r /\ phase' \in {"failed", "build"}
      BY <2>1 DEF Segment
    <3> QED
      BY <3>1, <3>3, <3>4 DEF InStep
  <2>2. CASE Submit
    BY <2>2 DEF Submit, InStep, DoScatterGather
  <2>3. CASE Run \/ Finish
    <3>1. /\ phase = "run" /\ acc' = acc /\ r' = r
          /\ phase' \in {"run", "done", "failed"}
      BY <2>3 DEF Run, Finish, Transfer, Position
    <3> QED
      BY <3>1 DEF InStep
  <2>4. CASE UNCHANGED sgVars
    BY <2>4 DEF sgVars, InStep
  <2> QED
    BY <2>1, <2>2, <2>3, <2>4 DEF Next
<1>3. InStep => (phase \in {"run", "done"} => acc = DoScatterGather(r))
  BY DEF InStep
<1>4. Spec => []InStep
  BY <1>1, <1>2, Inductive, PTL DEF Spec
<1> QED
  BY <1>3, <1>4, PTL

(* The locals before the first round.                                      *)
LEMMA InitAccounts ==
  ASSUME NEW q \in Inputs
  PROVE  LET a == SgInit(q)
         IN  /\ a \in Locals /\ a.addr = 0 /\ Accounts(q, a, 0)
             /\ PlanShape(a.cmds, 0)
<1> DEFINE a == SgInit(q)
           o == q.start
           B == StartBlock(o)
           t == StartTape(o)
<1>1. o \in Nat /\ TapeBlocks \in Nat \ {0}
  BY InputType
<1>2. B \in 0 .. TapeBlocks - 1 /\ t \in Nat
        /\ o + TapeBlocks - B = t * TapeBlocks
  BY <1>1, StartOnTape
<1>3. SetupCmds(o) \in Seq(Command) /\ PlanShape(SetupCmds(o), 0)
  BY <1>1, SetupShape
<1>4. << >> \in Seq([addr : Nat, n : Nat])
  BY EmptySeq
<1>5. /\ a.cmds = SetupCmds(o) /\ a.addr = 0 /\ a.cmd_total_blocks = 0
      /\ a.blocks_left_in_tape = TapeBlocks - B /\ a.tape_nbr = t
  BY DEF SgInit
<1>6. TapeBlocks - B \in 1 .. TapeBlocks
  BY <1>1, <1>2
<1>7. a \in Locals
  BY <1>1, <1>2, <1>3, <1>4, <1>6 DEF SgInit, Locals
<1> HIDE DEF a, B, t
<1>8. Accounts(q, a, 0)
  <2>1. o + 0 + (TapeBlocks - B) = t * TapeBlocks
    BY <1>1, <1>2, <1>6
  <2> QED
    BY <1>1, <1>5, <1>6, <2>1 DEF Accounts, Base
<1> QED
  BY <1>3, <1>5, <1>7, <1>8 DEF a

(* A round that does not give up.                                          *)
LEMMA RoundAccounts ==
  ASSUME NEW q \in Inputs, NEW j \in 0 .. Len(q.segs), j < Len(q.segs),
         NEW a \in Locals, NEW s \in Nat, NEW w, Accounts(q, a, s),
         a.addr = SumTo(q.segs, j), PlanShape(a.cmds, s),
         SgStep(a, q.segs[j + 1], w).failed # TRUE
  PROVE  LET b == SgStep(a, q.segs[j + 1], w)
         IN  /\ b \in Locals /\ b.addr = SumTo(q.segs, j + 1)
             /\ \E x \in Nat : Accounts(q, b, x) /\ PlanShape(b.cmds, x)
<1> DEFINE n == q.segs[j + 1]
           b == SgStep(a, n, w)
           C == a.cmd_total_blocks
           L == a.blocks_left_in_tape
           t == a.tape_nbr
           d == a.addr
           o == q.start
           B == Base(t)
           B1 == Base(t + 1)
<1>1. /\ n \in 1 .. TapeBlocks /\ SumTo(q.segs, j + 1) = d + n
      /\ TapeBlocks \in Nat \ {0} /\ n \in Nat /\ o \in Nat
  <2>1. n \in 1 .. TapeBlocks /\ SumTo(q.segs, j + 1) = d + n
    BY RoundPlace
  <2> HIDE DEF n
  <2> QED
    BY <2>1, InputType
<1>2. t \in Nat \ {0}
  BY RoundStart
<1>3. C \in Nat /\ L \in Nat /\ d \in Nat
  BY DEF Locals
<1>4. s + C = d /\ o + s + L = B /\ C < L /\ L <= TapeBlocks
  BY DEF Accounts
<1>5. b \in Locals /\ Round(a, b, n)
  BY <1>1, <1>4, RoundType
<1>6. \/ t = b.tape_nbr /\ PlanShape(b.cmds, s)
      \/ b.tape_nbr = t + 1 /\ PlanShape(b.cmds, s + L)
  <2> HIDE DEF n
  <2>1. t # 0
    BY <1>2
  <2> QED
    BY <1>1, <1>4, <2>1, RoundShape DEF n
<1>7. B \in Int /\ B1 = B + TapeBlocks
  <2> HIDE DEF t
  <2>1. t \in Int
    BY <1>2
  <2> QED
    BY <2>1, BaseNext
<1>8. \/ /\ C + n < L /\ b.addr = d + n /\ b.cmd_total_blocks = C + n
         /\ b.blocks_left_in_tape = L /\ b.tape_nbr = t
      \/ /\ C + n >= L /\ b.addr = d + n /\ b.cmd_total_blocks = (C + n) - L
         /\ b.blocks_left_in_tape = TapeBlocks /\ b.tape_nbr = t + 1
  <2>1. b.failed # TRUE
    OBVIOUS
  <2> HIDE DEF n, b
  <2> QED
    BY <1>5, <2>1 DEF Round
<1> HIDE DEF n, b, C, L, t, d, o, B, B1
<1>9. ASSUME b.tape_nbr = t
      PROVE  /\ b \in Locals /\ b.addr = SumTo(q.segs, j + 1)
             /\ \E x \in Nat : Accounts(q, b, x) /\ PlanShape(b.cmds, x)
  <2>1. /\ C + n < L /\ b.addr = d + n /\ b.cmd_total_blocks = C + n
        /\ b.blocks_left_in_tape = L /\ PlanShape(b.cmds, s)
    <3>1. t # t + 1
      BY <1>2
    <3> QED
      BY <1>6, <1>8, <1>9, <3>1
  <2>2. s + (C + n) = d + n
    BY <1>1, <1>3, <1>4
  <2>3. Accounts(q, b, s)
    BY <1>4, <1>9, <2>1, <2>2 DEF Accounts, B, o
  <2> QED
    BY <1>1, <1>5, <2>1, <2>3
<1>10. ASSUME b.tape_nbr # t
       PROVE  /\ b \in Locals /\ b.addr = SumTo(q.segs, j + 1)
              /\ \E x \in Nat : Accounts(q, b, x) /\ PlanShape(b.cmds, x)
  <2>1. /\ C + n >= L /\ b.addr = d + n /\ b.cmd_total_blocks = (C + n) - L
        /\ b.blocks_left_in_tape = TapeBlocks /\ b.tape_nbr = t + 1
        /\ PlanShape(b.cmds, s + L)
    BY <1>6, <1>8, <1>10
  <2>2. /\ s + L \in Nat /\ (s + L) + ((C + n) - L) = d + n
        /\ (C + n) - L < TapeBlocks
    BY ONLY <1>1, <1>3, <1>4, s \in Nat
  <2>3. o + (s + L) + TapeBlocks = B1
    BY ONLY <1>1, <1>3, <1>4, <1>7, s \in Nat
  <2>4. TapeBlocks <= TapeBlocks
    BY <1>1
  <2>5. Accounts(q, b, s + L)
    BY <2>1, <2>2, <2>3, <2>4 DEF Accounts, B1, o
  <2> QED
    BY <1>1, <1>5, <2>1, <2>2, <2>5
<1>11. /\ b \in Locals /\ b.addr = SumTo(q.segs, j + 1)
       /\ \E x \in Nat : Accounts(q, b, x) /\ PlanShape(b.cmds, x)
  BY <1>9, <1>10
<1> QED
  BY <1>11 DEF b, n

(* Every request the block layer may send, unless a round gives up, gets a *)
(* plan with the shape that DriverAssumption asks of the plans in module   *)
(* TapeDriver, for all of its blocks.                                      *)
THEOREM RequestPlansHaveShape ==
  ASSUME NEW q \in Inputs,
         \A n \in 1 .. Len(q.segs) : SgAfter(q, n).failed # TRUE
  PROVE  /\ DoScatterGather(q).cmds \in Seq(Command)
         /\ PlanShape(DoScatterGather(q).cmds, SumOf(q.segs))
<1> DEFINE N == Len(q.segs)
           Good(n) == /\ SgAfter(q, n) \in Locals
                      /\ SgAfter(q, n).addr = SumTo(q.segs, n)
                      /\ \E s \in Nat : /\ Accounts(q, SgAfter(q, n), s)
                                        /\ PlanShape(SgAfter(q, n).cmds, s)
           S == {n \in 0 .. N : Good(n)}
<1>1. N \in Nat /\ SumTo(q.segs, 0) = 0
  <2>1. EndOf(q, 0) = q.start /\ q.start \in Nat /\ 0 \in 0 .. N
    BY Segments
  <2>2. SumTo(q.segs, 0) \in Nat
    BY <2>1, Segments
  <2> QED
    BY <2>1, <2>2, InputType DEF EndOf
<1>2. 0 \in S
  <2>1. Good(0)
    BY <1>1, AfterRounds, InitAccounts
  <2> HIDE DEF Good
  <2> QED
    BY <1>1, <2>1
<1>3. ASSUME NEW n \in 0 .. N - 1, n \in S
      PROVE  n + 1 \in S
  <2> DEFINE a == SgAfter(q, n)
             b == SgAfter(q, n + 1)
  <2>1. n \in 0 .. N /\ n < N /\ n + 1 \in 1 .. N /\ n + 1 \in 0 .. N
          /\ (n + 1) - 1 = n
    BY <1>1
  <2>2. b = SgStep(a, q.segs[n + 1], q.write) /\ b.failed # TRUE
    BY <2>1, AfterRounds
  <2>3. PICK s \in Nat : Accounts(q, a, s) /\ PlanShape(a.cmds, s)
    BY <1>3
  <2>4. a \in Locals /\ a.addr = SumTo(q.segs, n)
    BY <1>3
  <2>5. /\ q \in Inputs /\ n \in 0 .. Len(q.segs) /\ n < Len(q.segs)
        /\ a \in Locals /\ s \in Nat /\ Accounts(q, a, s)
        /\ a.addr = SumTo(q.segs, n) /\ PlanShape(a.cmds, s)
        /\ SgStep(a, q.segs[n + 1], q.write).failed # TRUE
    BY <2>1, <2>2, <2>3, <2>4
  <2> HIDE DEF a, b
  <2>6. LET e == SgStep(a, q.segs[n + 1], q.write)
        IN  /\ e \in Locals /\ e.addr = SumTo(q.segs, n + 1)
            /\ \E x \in Nat : Accounts(q, e, x) /\ PlanShape(e.cmds, x)
    BY ONLY <2>5, RoundAccounts
  <2>7. Good(n + 1)
    BY <2>2, <2>6 DEF b
  <2> HIDE DEF Good
  <2> QED
    BY <2>1, <2>7
<1>4. Good(N)
  <2> HIDE DEF S
  <2>1. \A m \in 0 .. N : m \in S
    BY <1>1, <1>2, <1>3, UpToAll
  <2>2. N \in S
    BY <1>1, <2>1
  <2> QED
    BY <2>2 DEF S
<1> DEFINE a == SgAfter(q, N)
           C == a.cmd_total_blocks
           b == SgFinish(a, q.write)
<1>5. PICK s \in Nat : Accounts(q, a, s) /\ PlanShape(a.cmds, s)
  BY <1>4
<1>6. /\ a \in Locals /\ a.addr = SumOf(q.segs) /\ b = DoScatterGather(q)
  BY <1>4 DEF SumOf, DoScatterGather
<1> HIDE DEF a, b
<1>7. /\ a.cmds \in Seq(Command) /\ C \in Nat /\ a.cmd_start_pos \in Nat
      /\ a.addr \in Nat
  BY <1>6 DEF Locals
<1>8. s + C = a.addr /\ (C # 0 => C \in 1 .. TapeBlocks)
  <2> DEFINE L == a.blocks_left_in_tape
  <2>1. s + C = a.addr /\ C < L /\ L <= TapeBlocks
    BY <1>5 DEF Accounts
  <2>2. L \in Nat /\ TapeBlocks \in Nat
    BY <1>6, GeometryAssumption DEF Locals
  <2> HIDE DEF L, C
  <2> QED
    BY <1>7, <2>1, <2>2
<1>9. b.cmds = IF C = 0 THEN a.cmds
               ELSE Append(a.cmds, TransferCmd(q.write, a.cmd_start_pos, C))
  BY <1>6, FinishFields DEF b
<1> HIDE DEF C
<1>10. b.cmds \in Seq(Command) /\ PlanShape(b.cmds, s + C)
  <2>1. CASE C = 0
    <3>1. s + C = s
      BY <2>1
    <3> QED
      BY <1>5, <1>7, <1>9, <2>1, <3>1
  <2>2. CASE C # 0
    <3> DEFINE c == TransferCmd(q.write, a.cmd_start_pos, C)
    <3>1. c \in Command
      BY <1>7, TransferType
    <3>2. PlanShape(Append(a.cmds, c), s + C)
      BY <1>5, <1>7, <1>8, <2>2, AppendTransfer
    <3> HIDE DEF c
    <3>3. Append(a.cmds, c) \in Seq(Command)
      BY <1>7, <3>1, AppendProperties
    <3> QED
      BY <1>9, <2>2, <3>2, <3>3 DEF c
  <2> QED
    BY <2>1, <2>2
<1> QED
  BY <1>6, <1>8, <1>10
=============================================================================
