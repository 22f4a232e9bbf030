-------------------------- MODULE OomKillerProofs --------------------------
(***************************************************************************)
(* Proofs about the accounting of the BPF OOM killer, for any number of    *)
(* threads and processes, any map size, thresholds and counter width.      *)
(*                                                                         *)
(* The inductive invariant is about one thread t and the element of the    *)
(* map m that has its key: what the entry says, together with what the     *)
(* probe program under way is going to add to it, is what the thread has   *)
(* done.  A step of one thread is harmless to the others (Bystander), or   *)
(* marks them as wronged.                                                  *)
(***************************************************************************)
EXTENDS OomKiller, TLAPS

Keyed(m, t) == {e \in Elems : m[e].key = t}

(* What the thread has done of kind k.                                     *)
Cnt(o, k) == o.n[k] + IF k = "spawn" THEN o.born ELSE 0

(* What probe p will add to the proc_info i.                               *)
PendN(p, k) == IF p.what = "count" /\ p.arg = k THEN 1 ELSE 0
PendRead(p) == IF p.what = "read" THEN p.size ELSE 0
PendSent(i, p) == IF p.what = "xmit_exit" /\ i.tcp THEN 1 ELSE 0
PendFd(i, p) ==
  IF p.what = "open" \/ (p.what = "fcntl_exit" /\ i.op = "dup") THEN 1
  ELSE IF p.what = "close" THEN -1 ELSE 0

(* The descriptors, less the closes that were counted.                     *)
Net(o) == o.fd + o.under

(* The entry charges no more than what was done, ...                       *)
AtMost(i, p, o) ==
  /\ \A k \in Kinds : i.n[k] + PendN(p, k) <= Cnt(o, k)
  /\ i.sent + PendSent(i, p) <= o.sent
  /\ i.read + PendRead(p) <= o.read
  /\ i.fd + PendFd(i, p) <= Net(o)

(* ... and no less, up to the times the counter went round.                *)
Wraps(a, b) == \E c \in Nat : b = a + c * Width

AtLeast(i, p, o) ==
  /\ \A k \in Kinds : Wraps(i.n[k] + PendN(p, k), Cnt(o, k))
  /\ Wraps(i.sent + PendSent(i, p), o.sent)
  /\ Wraps(i.read + PendRead(p), o.read)
  /\ Wraps(i.fd + PendFd(i, p), Net(o))

Nothing(o) ==
  /\ \A k \in Kinds : Cnt(o, k) = 0
  /\ o.sent = 0 /\ o.read = 0 /\ o.fd = 0 /\ o.under = 0

(* Between the two probes of a call the entry remembers what the first one *)
(* saw.                                                                    *)
Between(m, t, x, ph, p, o) ==
  /\ x /\ ph = "fcntl" =>
       /\ Keyed(m, t) # {}
       /\ IF p = NoProbe THEN \A e \in Keyed(m, t) : m[e].info.op = o.op
          ELSE p.arg = o.op
  /\ x /\ ph = "xmit" =>
       IF p = NoProbe THEN \A e \in Keyed(m, t) : m[e].info.tcp = o.tcp
       ELSE p.arg # "unread" => (p.arg = "tcp") = o.tcp

(* A thread has one entry at most, the one its probe works on; the phase,  *)
(* the probe and the life of the thread go together.                       *)
Life(m, t, tk, ph, p, o) ==
  /\ \A e, f \in Keyed(m, t) : e = f
  /\ p # NoProbe =>
       /\ Keyed(m, t) \subseteq {p.at}
       /\ p.what = "fcntl_enter" <=> ph = "fcntl"
       /\ p.what = "xmit_enter" <=> ph = "xmit"
       /\ ph \notin {"born", "clone"}
       /\ tk # "dead"
       /\ p.what = "count" => p.arg \in Kinds
       /\ p.what = "fcntl_enter" => p.arg \in {"dup", "other"}
  /\ tk = "dead" => ph = "run"
  /\ tk = "exiting" => ph = "run" \/ (ph = "xmit" /\ o.late)
  /\ tk \in {"dead", "exiting"} /\ Keyed(m, t) # {} => o.late
  /\ ph = "born" => o.born = 0

Under(m, t, x, ph, p, o) ==
  /\ \A e \in Keyed(m, t) : AtMost(m[e].info, p, o)
  /\ p = NoProbe => Net(o) >= 0
  /\ Between(m, t, x, ph, p, o)

Exact(m, t, x, ph, p, o) ==
  /\ \A e \in Keyed(m, t) : AtLeast(m[e].info, p, o)
  /\ Keyed(m, t) = {} => p = NoProbe /\ Nothing(o)
  /\ x /\ ph = "xmit" => Keyed(m, t) # {}
  /\ p.what = "fcntl_exit" => \A e \in Keyed(m, t) : m[e].info.op = o.op
  /\ p.what = "xmit_exit" => \A e \in Keyed(m, t) : m[e].info.tcp = o.tcp

ThreadOK(m, t, tk, x, ph, p, o, tn) ==
  /\ Life(m, t, tk, ph, p, o)
  /\ tk # "dead" /\ tn # "charged" => Under(m, t, x, ph, p, o)
  /\ tk = "alive" /\ tn = "no" => Exact(m, t, x, ph, p, o)

OK(t) == ThreadOK(elem, t, task[t], oomp[t], phase[t], probe[t], own[t],
                  taint[t])

IInv == TypeOK /\ \A t \in Threads : OK(t)

-----------------------------------------------------------------------------
(* Arithmetic of the counter that wraps round.                             *)

LEMMA TimesAtLeast ==
  ASSUME NEW w \in Nat, NEW c \in Nat, c # 0
  PROVE  c * w >= w
<1>1. PICK d \in Nat : c = d + 1
  <2>1. c - 1 \in Nat /\ c = (c - 1) + 1
    OBVIOUS
  <2> QED
    BY <2>1
<1>2. (d + 1) * w = d * w + w /\ d * w \in Nat
  OBVIOUS
<1> QED
  BY <1>1, <1>2

LEMMA ModFacts ==
  ASSUME NEW a \in Nat
  PROVE  /\ a % Width \in 0 .. Width - 1 /\ a % Width \in Nat
         /\ a % Width <= a
         /\ a \div Width \in Nat
         /\ a = (a % Width) + (a \div Width) * Width
<1>1. Width \in Nat /\ Width > 0
  BY KillerAssumption
<1> DEFINE q == a \div Width
           r == a % Width
<1>2. r \in 0 .. Width - 1
  BY <1>1
<1>3. a = q * Width + r
  BY <1>1
<1>4. q \in Nat
  BY <1>1
<1> HIDE DEF q, r
<1>5. q * Width \in Nat
  BY <1>1, <1>4
<1> QED
  BY <1>1, <1>2, <1>3, <1>4, <1>5 DEF q, r

(* A number below Width is what is left of it and any multiple of Width.   *)
LEMMA ModUnique ==
  ASSUME NEW a \in 0 .. Width - 1, NEW c \in Nat
  PROVE  (a + c * Width) % Width = a
<1> DEFINE b == a + c * Width
           m == b % Width
           d == b \div Width
<1>1. Width \in Nat /\ Width > 0 /\ a \in Nat /\ c * Width \in Nat
  BY KillerAssumption
<1>2. b \in Nat
  BY <1>1
<1>3. m \in 0 .. Width - 1 /\ d \in Nat /\ b = m + d * Width
  BY <1>2, ModFacts
<1> HIDE DEF m, d
<1>4. a + c * Width = m + d * Width
  BY <1>3
<1> HIDE DEF b
<1>5. d * Width \in Nat
  BY <1>1, <1>3
<1>6. CASE c = d
  <2>1. c * Width = d * Width
    BY <1>6
  <2> QED
    BY <1>1, <1>3, <1>4, <1>5, <2>1 DEF m, b
<1>7. CASE c < d
  <2>1. d - c \in Nat /\ d - c # 0
    BY <1>3, <1>7
  <2>2. (d - c) * Width >= Width
    BY <1>1, <2>1, TimesAtLeast
  <2>3. (d - c) * Width = d * Width - c * Width
    BY <1>1, <1>3
  <2> QED
    BY <1>1, <1>3, <1>4, <1>5, <2>2, <2>3
<1>8. CASE c > d
  <2>1. c - d \in Nat /\ c - d # 0
    BY <1>3, <1>8
  <2>2. (c - d) * Width >= Width
    BY <1>1, <2>1, TimesAtLeast
  <2>3. (c - d) * Width = c * Width - d * Width
    BY <1>1, <1>3
  <2> QED
    BY <1>1, <1>3, <1>4, <1>5, <2>2, <2>3
<1> QED
  BY <1>3, <1>6, <1>7, <1>8

LEMMA WrapsSame ==
  ASSUME NEW a \in Int
  PROVE  Wraps(a, a)
<1>1. a = a + 0 * Width
  BY KillerAssumption
<1> QED
  BY <1>1 DEF Wraps

(* What is added to both sides.                                            *)
LEMMA WrapsAdd ==
  ASSUME NEW a \in Int, NEW b \in Int, NEW d \in Int, Wraps(a, b)
  PROVE  Wraps(a + d, b + d)
<1>1. PICK c \in Nat : b = a + c * Width
  BY DEF Wraps
<1>2. c * Width \in Int
  BY KillerAssumption
<1>3. b + d = (a + d) + c * Width
  BY <1>1, <1>2
<1> QED
  BY <1>3 DEF Wraps

(* A close that was not counted after all.                                 *)
LEMMA WrapsUp ==
  ASSUME NEW b \in Int, Wraps(-1, b)
  PROVE  Wraps(0, b + 1)
<1>1. PICK c \in Nat : b = -1 + c * Width
  BY DEF Wraps
<1>2. c * Width \in Int
  BY KillerAssumption
<1>3. b + 1 = 0 + c * Width
  BY <1>1, <1>2
<1> QED
  BY <1>3 DEF Wraps

(* The counter goes round.                                                 *)
LEMMA WrapsMod ==
  ASSUME NEW a \in Nat, NEW b \in Int, Wraps(a, b)
  PROVE  Wraps(a % Width, b)
<1> DEFINE q == a \div Width
           r == a % Width
<1>1. PICK c \in Nat : b = a + c * Width
  BY DEF Wraps
<1>2. q \in Nat /\ r \in Nat /\ a = r + q * Width
  BY ModFacts
<1> HIDE DEF q, r
<1>3. (q + c) * Width = q * Width + c * Width
      /\ q * Width \in Int /\ c * Width \in Int /\ q + c \in Nat
  BY <1>2, KillerAssumption
<1>4. b = r + (q + c) * Width
  BY <1>1, <1>2, <1>3
<1> QED
  BY <1>3, <1>4 DEF Wraps, r

(* What is in the counter is what was counted, modulo Width.               *)
LEMMA WrapsExact ==
  ASSUME NEW a \in Counter, NEW b \in Int, Wraps(a, b)
  PROVE  a = b % Width
<1>1. PICK c \in Nat : b = a + c * Width
  BY DEF Wraps
<1>2. (a + c * Width) % Width = a
  BY ModUnique DEF Counter
<1> QED
  BY <1>1, <1>2

LEMMA CounterFacts ==
  /\ 0 \in Counter /\ Counter \subseteq Nat
  /\ \A a \in Counter : a % Width = a
  /\ \A a \in Nat : a % Width \in Counter /\ a % Width <= a
<1>1. Width \in Nat /\ Width > 0
  BY KillerAssumption
<1>2. 0 \in Counter /\ Counter \subseteq Nat
  BY <1>1 DEF Counter
<1>3. \A a \in Counter : a % Width = a
  BY <1>1 DEF Counter
<1>4. \A a \in Nat : a % Width \in Counter /\ a % Width <= a
  BY ModFacts DEF Counter
<1> QED
  BY <1>2, <1>3, <1>4
-----------------------------------------------------------------------------
(* What a probe program does to the proc_info it points to.                *)

(* The programs get arguments that fit them.                               *)
Fits(p) ==
  /\ p.what \in Whats /\ p.arg \in Args /\ p.size \in Nat
  /\ p.what = "count" => p.arg \in Kinds
  /\ p.what = "fcntl_enter" => p.arg \in {"dup", "other"}

Books(i, p, j) ==
  /\ \A k \in Kinds : j.n[k] = (i.n[k] + PendN(p, k)) % Width
  /\ j.sent = (i.sent + PendSent(i, p)) % Width
  /\ j.read = (i.read + PendRead(p)) % Width
  /\ j.fd = IF p.what = "close" /\ i.fd = 0 THEN 0
            ELSE (i.fd + PendFd(i, p)) % Width
  /\ j.op = IF p.what = "fcntl_enter" THEN p.arg ELSE i.op
  /\ j.tcp = IF p.what = "xmit_enter" /\ p.arg # "unread"
             THEN p.arg = "tcp" ELSE i.tcp

LEMMA InfoFields ==
  ASSUME NEW i \in ProcInfo
  PROVE  /\ i = [n |-> i.n, fd |-> i.fd, op |-> i.op, read |-> i.read,
                 tcp |-> i.tcp, sent |-> i.sent]
         /\ i.n \in [Kinds -> Counter] /\ i.fd \in Counter
         /\ i.op \in {"dup", "other"} /\ i.read \in Counter
         /\ i.tcp \in BOOLEAN /\ i.sent \in Counter
BY DEF ProcInfo

(* A counter that nothing is added to.                                     *)
LEMMA AddNothing ==
  ASSUME NEW a \in Counter
  PROVE  a = (a + 0) % Width
<1>1. a \in Nat /\ a % Width = a
  BY CounterFacts
<1>2. a + 0 = a
  BY <1>1
<1> QED
  BY <1>1, <1>2

LEMMA UpdatedBooks ==
  ASSUME NEW i \in ProcInfo, NEW p, Fits(p)
  PROVE  Updated(i, p) \in ProcInfo /\ Books(i, p, Updated(i, p))
<1> DEFINE j == Updated(i, p)
<1>1. /\ i = [n |-> i.n, fd |-> i.fd, op |-> i.op, read |-> i.read,
              tcp |-> i.tcp, sent |-> i.sent]
      /\ i.n \in [Kinds -> Counter] /\ i.fd \in Counter
      /\ i.op \in {"dup", "other"} /\ i.read \in Counter
      /\ i.tcp \in BOOLEAN /\ i.sent \in Counter
  BY InfoFields
<1>2. /\ \A k \in Kinds : i.n[k] = (i.n[k] + 0) % Width
      /\ i.fd = (i.fd + 0) % Width /\ i.sent = (i.sent + 0) % Width
      /\ i.read = (i.read + 0) % Width
  BY <1>1, AddNothing
<1>3. \A a \in Counter : (a + 1) % Width \in Counter
  <2> TAKE a \in Counter
  <2>1. a + 1 \in Nat
    BY CounterFacts
  <2> QED
    BY <2>1, CounterFacts
<1>4. CASE p.what = "count"
  <2>1. j = [i EXCEPT !.n[p.arg] = (@ + 1) % Width]
    BY <1>4 DEF Updated
  <2>2. p.arg \in Kinds
    BY <1>4 DEF Fits
  <2> DEFINE c == (i.n[p.arg] + 1) % Width
  <2>3. c \in Counter
    BY <1>1, <1>3, <2>2
  <2>4. c = (i.n[p.arg] + 1) % Width
    OBVIOUS
  <2>5. j = [i EXCEPT !.n = [i.n EXCEPT ![p.arg] = c]]
    BY <1>1, <2>1
  <2> HIDE DEF j, c
  <2>6. j.n = [i.n EXCEPT ![p.arg] = c] /\ j.fd = i.fd /\ j.op = i.op
        /\ j.read = i.read /\ j.tcp = i.tcp /\ j.sent = i.sent
        /\ j \in ProcInfo
    BY <1>1, <2>2, <2>3, <2>5 DEF ProcInfo
  <2>7. \A k \in Kinds : j.n[k] = (i.n[k] + PendN(p, k)) % Width
    <3> TAKE k \in Kinds
    <3>1. CASE k = p.arg
      <4>1. PendN(p, k) = 1 /\ j.n[k] = c
        BY <1>1, <1>4, <2>6, <3>1 DEF PendN
      <4> QED
        BY <2>4, <3>1, <4>1
    <3>2. CASE k # p.arg
      <4>1. PendN(p, k) = 0 /\ j.n[k] = i.n[k]
        BY <1>1, <2>6, <3>2 DEF PendN
      <4> QED
        BY <1>2, <4>1
    <3> QED
      BY <3>1, <3>2
  <2>8. PendSent(i, p) = 0 /\ PendRead(p) = 0 /\ PendFd(i, p) = 0
    BY <1>4 DEF PendSent, PendRead, PendFd
  <2> QED
    BY <1>2, <1>4, <2>6, <2>7, <2>8 DEF Books, j
<1>5. CASE p.what = "read"
  <2>1. j = [i EXCEPT !.read = (@ + p.size) % Width]
    BY <1>5 DEF Updated
  <2> DEFINE c == (i.read + p.size) % Width
  <2>2. c \in Counter
    <3>1. i.read + p.size \in Nat
      BY <1>1, CounterFacts DEF Fits
    <3> QED
      BY <3>1, CounterFacts
  <2>3. j = [i EXCEPT !.read = c]
    BY <2>1
  <2>4. PendRead(p) = p.size /\ c = (i.read + p.size) % Width
    BY <1>5 DEF PendRead
  <2> HIDE DEF j, c
  <2>5. j.read = c /\ j.fd = i.fd /\ j.op = i.op
        /\ j.n = i.n /\ j.tcp = i.tcp /\ j.sent = i.sent
        /\ j \in ProcInfo
    BY <1>1, <2>2, <2>3 DEF ProcInfo
  <2>6. PendSent(i, p) = 0 /\ PendFd(i, p) = 0
        /\ \A k \in Kinds : PendN(p, k) = 0
    BY <1>5 DEF PendSent, PendN, PendFd
  <2> QED
    BY <1>2, <1>5, <2>4, <2>5, <2>6 DEF Books, j
<1>6. CASE p.what = "fcntl_enter"
  <2>1. j = [i EXCEPT !.op = p.arg] /\ p.arg \in {"dup", "other"}
    BY <1>6 DEF Updated, Fits
  <2> HIDE DEF j
  <2>2. j.read = i.read /\ j.fd = i.fd /\ j.op = p.arg
        /\ j.n = i.n /\ j.tcp = i.tcp /\ j.sent = i.sent
        /\ j \in ProcInfo
    BY <1>1, <2>1 DEF ProcInfo
  <2>3. PendSent(i, p) = 0 /\ PendFd(i, p) = 0 /\ PendRead(p) = 0
        /\ \A k \in Kinds : PendN(p, k) = 0
    BY <1>6 DEF PendSent, PendN, PendFd, PendRead
  <2> QED
    BY <1>2, <1>6, <2>2, <2>3 DEF Books, j
<1>7. CASE p.what = "xmit_enter"
  <2> DEFINE b == IF p.arg = "unread" THEN i.tcp ELSE p.arg = "tcp"
  <2>1. j = [i EXCEPT !.tcp = b]
    BY <1>7 DEF Updated
  <2>2. b \in BOOLEAN
    BY <1>1, Zenon
  <2>3. b = IF p.what = "xmit_enter" /\ p.arg # "unread"
            THEN p.arg = "tcp" ELSE i.tcp
    BY <1>7, Zenon
  <2> HIDE DEF j, b
  <2>4. j.read = i.read /\ j.fd = i.fd /\ j.op = i.op
        /\ j.n = i.n /\ j.tcp = b /\ j.sent = i.sent
        /\ j \in ProcInfo
    BY <1>1, <2>1, <2>2 DEF ProcInfo
  <2>5. j.tcp = IF p.what = "xmit_enter" /\ p.arg # "unread"
                THEN p.arg = "tcp" ELSE i.tcp
    BY <2>3, <2>4, Zenon
  <2>6. PendSent(i, p) = 0 /\ PendFd(i, p) = 0 /\ PendRead(p) = 0
        /\ \A k \in Kinds : PendN(p, k) = 0
    BY <1>7 DEF PendSent, PendN, PendFd, PendRead
  <2> QED
    BY <1>2, <1>7, <2>4, <2>5, <2>6 DEF Books, j
<1>8. CASE p.what \in {"open", "close", "fcntl_exit"}
  <2> DEFINE c == IF p.what = "close" /\ i.fd = 0 THEN 0
                  ELSE (i.fd + PendFd(i, p)) % Width
  <2>1. i.fd \in Nat /\ i.fd < Width /\ Width \in Nat
    BY <1>1, KillerAssumption DEF Counter
  <2>2. j = [i EXCEPT !.fd = c] /\ c \in Counter
    <3>1. CASE p.what = "open" \/ (p.what = "fcntl_exit" /\ i.op = "dup")
      <4>1. PendFd(i, p) = 1 /\ p.what # "close"
        BY <3>1 DEF PendFd
      <4>2. j = [i EXCEPT !.fd = (@ + 1) % Width]
        BY <3>1 DEF Updated
      <4> QED
        BY <1>1, <1>3, <4>1, <4>2
    <3>2. CASE p.what = "close" /\ i.fd > 0
      <4>1. PendFd(i, p) = -1 /\ j = [i EXCEPT !.fd = @ - 1]
        BY <3>2 DEF PendFd, Updated
      <4>2. i.fd - 1 \in Counter
        BY <2>1, <3>2 DEF Counter
      <4>3. (i.fd + (-1)) % Width = i.fd - 1
        BY <2>1, <4>2, CounterFacts
      <4>4. c = i.fd - 1
        BY <2>1, <3>2, <4>1, <4>3
      <4> QED
        BY <4>1, <4>2, <4>4
    <3>3. CASE ~(p.what = "open" \/ (p.what = "fcntl_exit" /\ i.op = "dup"))
               /\ ~(p.what = "close" /\ i.fd > 0)
      <4>1. j = i
        BY <1>8, <3>3 DEF Updated
      <4>2. c = i.fd
        BY <1>2, <1>8, <2>1, <3>3 DEF PendFd
      <4> QED
        BY <1>1, <4>1, <4>2
    <3> QED
      BY <3>1, <3>2, <3>3
  <2>3. c = IF p.what = "close" /\ i.fd = 0 THEN 0
            ELSE (i.fd + PendFd(i, p)) % Width
    OBVIOUS
  <2> HIDE DEF j, c
  <2>4. j.read = i.read /\ j.fd = c /\ j.op = i.op
        /\ j.n = i.n /\ j.tcp = i.tcp /\ j.sent = i.sent
        /\ j \in ProcInfo
    BY <1>1, <2>2 DEF ProcInfo
  <2>5. PendSent(i, p) = 0 /\ PendRead(p) = 0
        /\ \A k \in Kinds : PendN(p, k) = 0
    BY <1>8 DEF PendSent, PendN, PendRead
  <2> QED
    BY <1>2, <1>8, <2>3, <2>4, <2>5 DEF Books, j
<1>9. CASE p.what \in {"xmit_exit", "nothing"}
  <2> DEFINE c == (i.sent + PendSent(i, p)) % Width
  <2>1. j = [i EXCEPT !.sent = c] /\ c \in Counter
    <3>1. CASE p.what = "xmit_exit" /\ i.tcp
      <4>1. PendSent(i, p) = 1 /\ j = [i EXCEPT !.sent = (@ + 1) % Width]
        BY <3>1 DEF PendSent, Updated
      <4> QED
        BY <1>1, <1>3, <4>1
    <3>2. CASE ~(p.what = "xmit_exit" /\ i.tcp)
      <4>1. PendSent(i, p) = 0 /\ j = i
        BY <1>9, <3>2 DEF PendSent, Updated
      <4>2. c = i.sent
        BY <1>2, <4>1
      <4> QED
        BY <1>1, <4>1, <4>2
    <3> QED
      BY <3>1, <3>2
  <2>2. c = (i.sent + PendSent(i, p)) % Width
    OBVIOUS
  <2> HIDE DEF j, c
  <2>3. j.read = i.read /\ j.fd = i.fd /\ j.op = i.op
        /\ j.n = i.n /\ j.tcp = i.tcp /\ j.sent = c
        /\ j \in ProcInfo
    BY <1>1, <2>1 DEF ProcInfo
  <2>4. PendFd(i, p) = 0 /\ PendRead(p) = 0
        /\ \A k \in Kinds : PendN(p, k) = 0
    BY <1>9 DEF PendFd, PendN, PendRead
  <2> QED
    BY <1>2, <1>9, <2>2, <2>3, <2>4 DEF Books, j
<1> QED
  BY <1>4, <1>5, <1>6, <1>7, <1>8, <1>9 DEF Fits, Whats
-----------------------------------------------------------------------------
(* A step of another thread leaves what thread v does alone.  It may doom  *)
(* v, take its entry away, or charge v through a stale pointer, and each   *)
(* of these leaves its mark.                                               *)
Bystander(v) ==
  /\ own'[v] = own[v] /\ phase'[v] = phase[v] /\ probe'[v] = probe[v]
  /\ oomp'[v] = oomp[v]
  /\ task'[v] = task[v] \/ (task[v] = "alive" /\ task'[v] = "doomed")
  /\ \/ taint'[v] = taint[v] \/ taint'[v] = "charged"
     \/ taint[v] = "no" /\ taint'[v] = "evicted"
  /\ \A e \in Elems : elem'[e].key = v =>
       /\ elem[e].key = v
       /\ elem'[e].info = elem[e].info \/ taint'[v] = "charged"
  /\ \A e \in Elems : elem[e].key = v /\ elem'[e].key # v =>
       /\ taint'[v] # "no"
       /\ phase[v] = "fcntl" => taint'[v] = "charged"

LEMMA BystanderOK ==
  ASSUME NEW v \in Threads, OK(v), Bystander(v)
  PROVE  OK(v)'
<1> DEFINE p == probe[v]
           o == own[v]
           ph == phase[v]
           x == oomp[v]
<1>1. ThreadOK(elem, v, task[v], x, ph, p, o, taint[v])
  BY DEF OK
<1> SUFFICES ThreadOK(elem', v, task'[v], x, ph, p, o, taint'[v])
  BY DEF OK, Bystander
<1>2. Keyed(elem', v) \subseteq Keyed(elem, v)
  BY DEF Bystander, Keyed
<1>3. task'[v] = task[v] \/ (task[v] = "alive" /\ task'[v] = "doomed")
  BY DEF Bystander
<1> HIDE DEF p, o, ph, x
<1>4. Life(elem', v, task'[v], ph, p, o)
  BY <1>1, <1>2, <1>3 DEF ThreadOK, Life
<1>5. ASSUME task'[v] # "dead", taint'[v] # "charged"
      PROVE  Under(elem', v, x, ph, p, o)
  <2>1. Under(elem, v, x, ph, p, o)
    BY <1>1, <1>3, <1>5 DEF ThreadOK, Bystander
  <2>2. \A e \in Keyed(elem', v) : elem'[e].info = elem[e].info
    BY <1>5 DEF Bystander, Keyed
  <2>3. ph = "fcntl" => Keyed(elem', v) = Keyed(elem, v)
    BY <1>2, <1>5 DEF Bystander, Keyed, ph
  <2>4. \A e \in Keyed(elem', v) : AtMost(elem'[e].info, p, o)
    BY <1>2, <2>1, <2>2 DEF Under
  <2>5. Between(elem', v, x, ph, p, o)
    BY <1>2, <2>1, <2>2, <2>3 DEF Under, Between
  <2> QED
    BY <2>1, <2>4, <2>5 DEF Under
<1>6. ASSUME task'[v] = "alive", taint'[v] = "no"
      PROVE  Exact(elem', v, x, ph, p, o)
  <2>1. Exact(elem, v, x, ph, p, o)
    BY <1>1, <1>3, <1>6 DEF ThreadOK, Bystander
  <2>2. \A e \in Keyed(elem', v) : elem'[e].info = elem[e].info
    BY <1>6 DEF Bystander, Keyed
  <2>3. Keyed(elem', v) = Keyed(elem, v)
    BY <1>2, <1>6 DEF Bystander, Keyed
  <2> QED
    BY <2>1, <2>2, <2>3 DEF Exact
<1> QED
  BY <1>4, <1>5, <1>6 DEF ThreadOK

-----------------------------------------------------------------------------
(* Entering a probe program.                                               *)

(* It starts on the entry of the thread, which may be new; ...             *)
Started(t, w, e) ==
  /\ oomp[t]
  /\ e \in Elems
  /\ probe'[t] = Looked(w, e)
  /\ Keyed(elem', t) = {e}
  /\ taint'[t] = taint[t]
  /\ \/ Keyed(elem, t) = {e} /\ elem'[e].info = elem[e].info
     \/ Keyed(elem, t) = {} /\ elem'[e].info = NewInfo

(* ... or a full map turns it away; ...                                    *)
Turned(t, w) ==
  /\ oomp[t]
  /\ Keyed(elem, t) = {} /\ Keyed(elem', t) = {}
  /\ probe'[t] = probe[t]
  /\ taint'[t] \in {"evicted", "charged"}
  /\ w.what = "fcntl_enter" \/ phase[t] = "fcntl" \/ taint[t] = "charged" =>
       taint'[t] = "charged"

(* ... or the thread is not one to look at.                                *)
Skipped(t) ==
  /\ ~oomp[t]
  /\ elem' = elem /\ probe'[t] = probe[t] /\ taint'[t] = taint[t]

LEMMA EnterOutcome ==
  ASSUME TypeOK, NEW t \in Threads, OK(t), NEW w, Enter(t, w)
  PROVE  \/ \E e \in Elems : Started(t, w, e)
         \/ Turned(t, w)
         \/ Skipped(t)
<1> USE DEF EntryOf, HasEntry, FreeElems
<1>1. /\ elem \in [Elems -> [key : Threads \cup {NoKey}, info : ProcInfo]]
      /\ probe \in [Threads -> ProbeRun \cup {NoProbe}]
      /\ taint \in [Threads -> {"no", "evicted", "charged"}]
      /\ oomp \in [Threads -> BOOLEAN]
  BY DEF TypeOK
<1>2. \A e, f \in Keyed(elem, t) : e = f
  BY DEF OK, ThreadOK, Life
<1>3. CASE ~oomp[t]
  BY <1>3 DEF Enter, Skipped
<1>4. CASE oomp[t] /\ Found(t, w)
  <2>1. PICK e \in Elems : /\ elem[e].key = t
                           /\ probe' = [probe EXCEPT ![t] = Looked(w, e)]
    BY <1>4 DEF Found
  <2>2. elem' = elem /\ taint' = taint
    BY <1>4 DEF Found
  <2>3. probe'[t] = Looked(w, e)
    BY <1>1, <2>1
  <2>4. Keyed(elem, t) = {e}
    BY <1>2, <2>1 DEF Keyed
  <2> QED
    BY <1>4, <2>2, <2>3, <2>4 DEF Started
<1>5. CASE oomp[t] /\ Inserted(t, w)
  <2>1. Keyed(elem, t) = {}
    BY <1>5 DEF Inserted, Keyed
  <2>2. PICK e \in Elems :
          /\ elem' = [elem EXCEPT ![e] = [key |-> t, info |-> NewInfo]]
          /\ probe' = [probe EXCEPT ![t] = Looked(w, e)]
          /\ taint' = [v \in Threads |-> IF elem[e].key = v THEN Evicted(v)
                                         ELSE taint[v]]
    BY <1>5 DEF Inserted
  <2>3. probe'[t] = Looked(w, e)
    BY <1>1, <2>2
  <2>4. elem'[e] = [key |-> t, info |-> NewInfo]
         /\ \A f \in Elems \ {e} : elem'[f] = elem[f]
    BY <1>1, <2>2
  <2>5. Keyed(elem', t) = {e} /\ elem'[e].info = NewInfo
    BY <2>1, <2>4 DEF Keyed
  <2>6. taint'[t] = taint[t]
    BY <2>1, <2>2 DEF Keyed
  <2> QED
    BY <1>5, <2>1, <2>3, <2>5, <2>6 DEF Started
<1>6. CASE oomp[t] /\ Refused(t, w)
  <2>1. Keyed(elem, t) = {} /\ elem' = elem /\ probe' = probe
    BY <1>6 DEF Refused, Keyed
  <2>2. taint'[t] = IF w.what = "fcntl_enter" THEN "charged" ELSE Evicted(t)
    BY <1>1, <1>6 DEF Refused
  <2> QED
    BY <1>1, <1>6, <2>1, <2>2 DEF Turned, Evicted
<1> QED
  BY <1>3, <1>4, <1>5, <1>6 DEF Enter

(* The other threads are bystanders.                                       *)
LEMMA EnterElsewhere ==
  ASSUME TypeOK, NEW t \in Threads, NEW w, Enter(t, w),
         NEW v \in Threads, v # t,
         own'[v] = own[v], phase'[v] = phase[v], oomp'[v] = oomp[v],
         task'[v] = task[v]
  PROVE  Bystander(v)
<1> USE DEF EntryOf, HasEntry, FreeElems
<1>1. /\ elem \in [Elems -> [key : Threads \cup {NoKey}, info : ProcInfo]]
      /\ probe \in [Threads -> ProbeRun \cup {NoProbe}]
      /\ taint \in [Threads -> {"no", "evicted", "charged"}]
  BY DEF TypeOK
<1>2. CASE UNCHANGED <<elem, probe, taint>>
  BY <1>2 DEF Bystander
<1>3. CASE Found(t, w)
  <2>1. elem' = elem /\ taint' = taint /\ probe'[v] = probe[v]
    BY <1>1, <1>3 DEF Found
  <2> QED
    BY <2>1 DEF Bystander
<1>4. CASE Inserted(t, w)
  <2>1. PICK e \in Elems :
          /\ elem' = [elem EXCEPT ![e] = [key |-> t, info |-> NewInfo]]
          /\ probe' = [probe EXCEPT ![t] = Looked(w, e)]
          /\ taint' = [u \in Threads |-> IF elem[e].key = u THEN Evicted(u)
                                         ELSE taint[u]]
    BY <1>4 DEF Inserted
  <2>2. probe'[v] = probe[v]
    BY <1>1, <2>1
  <2>3. elem'[e].key = t /\ \A f \in Elems \ {e} : elem'[f] = elem[f]
    BY <1>1, <2>1
  <2>4. taint'[v] = IF elem[e].key = v THEN Evicted(v) ELSE taint[v]
    BY <2>1
  <2>5. taint[v] \in {"no", "evicted", "charged"}
    BY <1>1
  <2> QED
    BY <2>2, <2>3, <2>4, <2>5 DEF Bystander, Evicted
<1>5. CASE Refused(t, w)
  <2>1. elem' = elem /\ probe' = probe /\ taint'[v] = taint[v]
    BY <1>1, <1>5 DEF Refused
  <2> QED
    BY <2>1 DEF Bystander
<1> QED
  BY <1>2, <1>3, <1>4, <1>5 DEF Enter

LEMMA NewInfoType == NewInfo \in ProcInfo
<1>1. 0 \in Counter
  BY CounterFacts
<1> QED
  BY <1>1 DEF NewInfo, ProcInfo

LEMMA EnterType ==
  ASSUME TypeOK, NEW t \in Threads, NEW w, Fits(w), Enter(t, w)
  PROVE  /\ elem' \in [Elems -> [key : Threads \cup {NoKey}, info : ProcInfo]]
         /\ probe' \in [Threads -> ProbeRun \cup {NoProbe}]
         /\ taint' \in [Threads -> {"no", "evicted", "charged"}]
<1> USE DEF EntryOf, HasEntry, FreeElems
<1>1. /\ elem \in [Elems -> [key : Threads \cup {NoKey}, info : ProcInfo]]
      /\ probe \in [Threads -> ProbeRun \cup {NoProbe}]
      /\ taint \in [Threads -> {"no", "evicted", "charged"}]
      /\ allowed \in BOOLEAN
  BY DEF TypeOK
<1>2. \A e \in Elems : Looked(w, e) \in ProbeRun
  BY <1>1 DEF Looked, Fits, ProbeRun
<1>3. \A v \in Threads : Evicted(v) \in {"no", "evicted", "charged"}
  BY <1>1 DEF Evicted
<1>4. [key |-> t, info |-> NewInfo] \in [key : Threads \cup {NoKey}, info : ProcInfo]
  BY NewInfoType
<1>5. CASE Found(t, w)
  BY <1>1, <1>2, <1>5 DEF Found
<1>6. CASE Inserted(t, w)
  BY <1>1, <1>2, <1>3, <1>4, <1>6 DEF Inserted
<1>7. CASE Refused(t, w)
  BY <1>1, <1>3, <1>7 DEF Refused
<1> QED
  BY <1>1, <1>5, <1>6, <1>7 DEF Enter
-----------------------------------------------------------------------------
(* A call of a thread, up to where its probe program has looked the entry  *)
(* up.                                                                     *)

(* What the thread did, deeds o before and o2 after, is what program w     *)
(* is going to charge; the phase follows.                                  *)
Did(o, o2, w, x, tk, ph, ph2) ==
  /\ \A k \in Kinds : Cnt(o2, k) = Cnt(o, k) + (IF x THEN PendN(w, k) ELSE 0)
  /\ o2.read = o.read + (IF x THEN PendRead(w) ELSE 0)
  /\ o2.sent = o.sent + (IF x THEN PendSent(o, w) ELSE 0)
  /\ o2.fd = o.fd + (IF x THEN PendFd(o, w) ELSE 0)
  /\ ph2 \in {"run", "fcntl", "xmit"}
  /\ w.what = "fcntl_enter" <=> ph2 = "fcntl"
  /\ w.what = "xmit_enter" <=> ph2 = "xmit"
  /\ w.what = "fcntl_enter" => w.arg = o2.op
  /\ w.what = "xmit_enter" /\ w.arg # "unread" => (w.arg = "tcp") = o2.tcp
  /\ w.what = "fcntl_exit" => ph = "fcntl" /\ o2.op = o.op
  /\ w.what = "xmit_exit" => ph = "xmit" /\ o2.tcp = o.tcp
  /\ tk # "dead"
  /\ tk = "exiting" => o2.late /\ ph2 # "fcntl"

LEMMA CntType ==
  ASSUME NEW o \in Deeds
  PROVE  /\ \A k \in Kinds : Cnt(o, k) \in Nat
         /\ o.read \in Nat /\ o.sent \in Nat /\ o.fd \in Int
         /\ o.under \in Nat /\ Net(o) \in Int
         /\ o.tcp \in BOOLEAN /\ o.late \in BOOLEAN
BY DEF Deeds, Cnt, Net

LEMMA NoProbePends ==
  ASSUME NEW i
  PROVE  /\ \A k \in Kinds : PendN(NoProbe, k) = 0
         /\ PendRead(NoProbe) = 0 /\ PendSent(i, NoProbe) = 0
         /\ PendFd(i, NoProbe) = 0
BY DEF NoProbe, PendN, PendRead, PendSent, PendFd

LEMMA LookedPends ==
  ASSUME NEW i, NEW w, NEW e
  PROVE  /\ \A k \in Kinds : PendN(Looked(w, e), k) = PendN(w, k)
         /\ PendRead(Looked(w, e)) = PendRead(w)
         /\ PendSent(i, Looked(w, e)) = PendSent(i, w)
         /\ PendFd(i, Looked(w, e)) = PendFd(i, w)
BY DEF Looked, PendN, PendRead, PendSent, PendFd

LEMMA PendType ==
  ASSUME NEW i, NEW w, Fits(w)
  PROVE  /\ \A k \in Kinds : PendN(w, k) \in {0, 1}
         /\ PendRead(w) \in Nat /\ PendSent(i, w) \in {0, 1}
         /\ PendFd(i, w) \in {-1, 0, 1}
         /\ PendFd(i, w) = -1 => w.what = "close"
BY DEF Fits, PendN, PendRead, PendSent, PendFd

LEMMA InfoIsNat ==
  ASSUME NEW i \in ProcInfo
  PROVE  /\ i.n \in [Kinds -> Nat] /\ i.fd \in Nat /\ i.op \in {"dup", "other"}
         /\ i.read \in Nat /\ i.tcp \in BOOLEAN /\ i.sent \in Nat
BY InfoFields, CounterFacts

(* What the thread did is added to both sides.                             *)
LEMMA DidWraps ==
  ASSUME NEW i \in ProcInfo, NEW w, Fits(w), NEW o \in Deeds,
         NEW o2 \in Deeds, NEW tk, NEW ph, NEW ph2,
         Did(o, o2, w, TRUE, tk, ph, ph2), o2.under = o.under,
         PendFd(i, w) = PendFd(o, w), PendSent(i, w) = PendSent(o, w)
  PROVE  /\ AtMost(i, NoProbe, o) => AtMost(i, w, o2)
         /\ AtLeast(i, NoProbe, o) => AtLeast(i, w, o2)
<1>1. /\ i.n \in [Kinds -> Nat] /\ i.fd \in Nat /\ i.read \in Nat
      /\ i.sent \in Nat
  BY InfoIsNat
<1>2. /\ \A k \in Kinds : Cnt(o, k) \in Nat
      /\ o.read \in Nat /\ o.sent \in Nat /\ Net(o) \in Int
      /\ o.fd \in Int /\ o.under \in Nat
  BY CntType
<1>3. /\ \A k \in Kinds : PendN(w, k) \in {0, 1}
      /\ PendRead(w) \in Nat /\ PendSent(i, w) \in {0, 1}
      /\ PendFd(i, w) \in {-1, 0, 1}
  BY PendType
<1>4. /\ \A k \in Kinds : Cnt(o2, k) = Cnt(o, k) + PendN(w, k)
      /\ o2.read = o.read + PendRead(w)
      /\ o2.sent = o.sent + PendSent(i, w)
      /\ o2.fd = o.fd + PendFd(i, w)
  BY DEF Did
<1>5. Net(o2) = Net(o) + PendFd(i, w)
  BY <1>2, <1>3, <1>4 DEF Net
<1>6. ASSUME AtMost(i, NoProbe, o)
      PROVE  AtMost(i, w, o2)
  <2>1. /\ \A k \in Kinds : i.n[k] <= Cnt(o, k)
        /\ i.sent <= o.sent /\ i.read <= o.read /\ i.fd <= Net(o)
    BY <1>1, <1>6, NoProbePends DEF AtMost
  <2>2. \A k \in Kinds : i.n[k] + PendN(w, k) <= Cnt(o2, k)
    BY <1>1, <1>2, <1>3, <1>4, <2>1
  <2>3. i.sent + PendSent(i, w) <= o2.sent
    BY <1>1, <1>2, <1>3, <1>4, <2>1
  <2>4. i.read + PendRead(w) <= o2.read
    BY <1>1, <1>2, <1>3, <1>4, <2>1
  <2>5. i.fd + PendFd(i, w) <= Net(o2)
    BY <1>1, <1>2, <1>3, <1>5, <2>1
  <2> QED
    BY <2>2, <2>3, <2>4, <2>5 DEF AtMost
<1>7. ASSUME AtLeast(i, NoProbe, o)
      PROVE  AtLeast(i, w, o2)
  <2>1. /\ \A k \in Kinds : Wraps(i.n[k], Cnt(o, k))
        /\ Wraps(i.sent, o.sent) /\ Wraps(i.read, o.read)
        /\ Wraps(i.fd, Net(o))
    <3>1. /\ \A k \in Kinds : i.n[k] + PendN(NoProbe, k) = i.n[k]
          /\ i.sent + PendSent(i, NoProbe) = i.sent
          /\ i.read + PendRead(NoProbe) = i.read
          /\ i.fd + PendFd(i, NoProbe) = i.fd
      BY <1>1, NoProbePends
    <3> QED
      BY <1>7, <3>1 DEF AtLeast
  <2>2. \A k \in Kinds : Wraps(i.n[k] + PendN(w, k), Cnt(o2, k))
    <3> TAKE k \in Kinds
    <3>1. i.n[k] \in Int /\ Cnt(o, k) \in Int /\ PendN(w, k) \in Int
      BY <1>1, <1>2, <1>3
    <3> QED
      BY <1>4, <2>1, <3>1, WrapsAdd
  <2>3. Wraps(i.sent + PendSent(i, w), o2.sent)
    <3>1. i.sent \in Int /\ o.sent \in Int /\ PendSent(i, w) \in Int
      BY <1>1, <1>2, <1>3
    <3> QED
      BY <1>4, <2>1, <3>1, WrapsAdd
  <2>4. Wraps(i.read + PendRead(w), o2.read)
    <3>1. i.read \in Int /\ o.read \in Int /\ PendRead(w) \in Int
      BY <1>1, <1>2, <1>3
    <3> QED
      BY <1>4, <2>1, <3>1, WrapsAdd
  <2>5. Wraps(i.fd + PendFd(i, w), Net(o2))
    <3>1. i.fd \in Int /\ PendFd(i, w) \in Int
      BY <1>1, <1>3
    <3> QED
      BY <1>2, <1>5, <2>1, <3>1, WrapsAdd
  <2> QED
    BY <2>2, <2>3, <2>4, <2>5 DEF AtLeast
<1> QED
  BY <1>6, <1>7

(* A new entry says nothing, as does a thread that did nothing.            *)
LEMMA NothingCharged ==
  ASSUME NEW o \in Deeds
  PROVE  /\ Net(o) >= 0 => AtMost(NewInfo, NoProbe, o)
         /\ Nothing(o) => AtLeast(NewInfo, NoProbe, o)
<1>1. /\ \A k \in Kinds : NewInfo.n[k] = 0
      /\ NewInfo.fd = 0 /\ NewInfo.read = 0 /\ NewInfo.sent = 0
  BY DEF NewInfo
<1>2. /\ \A k \in Kinds : Cnt(o, k) \in Nat
      /\ o.read \in Nat /\ o.sent \in Nat /\ Net(o) \in Int
  BY CntType
<1>3. Wraps(0, 0)
  BY WrapsSame
<1>4. Net(o) >= 0 => AtMost(NewInfo, NoProbe, o)
  BY <1>1, <1>2, NoProbePends DEF AtMost
<1>5. ASSUME Nothing(o) PROVE AtLeast(NewInfo, NoProbe, o)
  <2>1. /\ \A k \in Kinds : Cnt(o, k) = 0
        /\ o.sent = 0 /\ o.read = 0 /\ Net(o) = 0
    BY <1>5 DEF Nothing, Net
  <2>2. /\ \A k \in Kinds : NewInfo.n[k] + PendN(NoProbe, k) = 0
        /\ NewInfo.sent + PendSent(NewInfo, NoProbe) = 0
        /\ NewInfo.read + PendRead(NoProbe) = 0
        /\ NewInfo.fd + PendFd(NewInfo, NoProbe) = 0
    BY <1>1, NoProbePends
  <2> QED
    BY <1>3, <2>1, <2>2 DEF AtLeast
<1> QED
  BY <1>4, <1>5

(* A call the probe program has looked the entry up for, in the one or the *)
(* other way, keeps what the invariant says of the thread.                 *)
LEMMA StartedOK ==
  ASSUME NEW m, NEW m2, NEW t, NEW tk, NEW ph, NEW ph2,
         NEW w, Fits(w), NEW o \in Deeds, NEW o2 \in Deeds, NEW tn,
         NEW e \in Elems,
         ThreadOK(m, t, tk, TRUE, ph, NoProbe, o, tn),
         Did(o, o2, w, TRUE, tk, ph, ph2),
         Keyed(m2, t) = {e}, m2[e].info \in ProcInfo,
         \/ Keyed(m, t) = {e} /\ m2[e].info = m[e].info
         \/ Keyed(m, t) = {} /\ m2[e].info = NewInfo,
         o2.under = o.under
  PROVE  ThreadOK(m2, t, tk, TRUE, ph2, Looked(w, e), o2, tn)
<1> DEFINE i == m2[e].info
           p == Looked(w, e)
<1>1. /\ i.n \in [Kinds -> Nat] /\ i.fd \in Nat /\ i.op \in {"dup", "other"}
      /\ i.read \in Nat /\ i.tcp \in BOOLEAN /\ i.sent \in Nat
  BY InfoIsNat
<1>2. p # NoProbe
  BY KillerAssumption DEF Looked, NoProbe
<1>3. p.what = w.what /\ p.arg = w.arg /\ p.at = e
  BY DEF Looked
<1>4. /\ \A k \in Kinds : PendN(p, k) = PendN(w, k)
      /\ PendRead(p) = PendRead(w)
      /\ PendSent(i, p) = PendSent(i, w)
      /\ PendFd(i, p) = PendFd(i, w)
  BY LookedPends
<1> HIDE DEF p
<1>5. Life(m2, t, tk, ph2, p, o2)
  BY <1>2, <1>3 DEF Life, Did, Fits
<1>6. ASSUME tk # "dead", tn # "charged"
      PROVE  /\ AtMost(i, p, o2)
             /\ tk = "alive" /\ tn = "no" =>
                  /\ AtLeast(i, p, o2)
                  /\ w.what = "fcntl_exit" => i.op = o2.op
                  /\ w.what = "xmit_exit" => i.tcp = o2.tcp
  <2>1. Under(m, t, TRUE, ph, NoProbe, o)
    BY <1>6 DEF ThreadOK
  <2>2. tk = "alive" /\ tn = "no" => Exact(m, t, TRUE, ph, NoProbe, o)
    BY DEF ThreadOK
  <2>3. CASE Keyed(m, t) = {e} /\ i = m[e].info
    <3>1. AtMost(i, NoProbe, o)
      BY <2>1, <2>3 DEF Under
    <3>2. tk = "alive" /\ tn = "no" => AtLeast(i, NoProbe, o)
      BY <2>2, <2>3 DEF Exact
    <3>3. w.what = "fcntl_exit" => i.op = o.op
      BY <2>1, <2>3 DEF Under, Between, Did
    <3>4. w.what = "xmit_exit" => i.tcp = o.tcp
      BY <2>1, <2>3 DEF Under, Between, Did
    <3>5. PendFd(i, w) = PendFd(o, w)
      BY <3>3 DEF PendFd
    <3>6. PendSent(i, w) = PendSent(o, w)
      BY <3>4 DEF PendSent
    <3>7. AtMost(i, w, o2)
      BY <3>1, <3>5, <3>6, DidWraps
    <3>8. tk = "alive" /\ tn = "no" => AtLeast(i, w, o2)
      BY <3>2, <3>5, <3>6, DidWraps
    <3>9. /\ w.what = "fcntl_exit" => i.op = o2.op
          /\ w.what = "xmit_exit" => i.tcp = o2.tcp
      BY <3>3, <3>4 DEF Did
    <3> HIDE DEF i
    <3> QED
      BY <1>4, <3>7, <3>8, <3>9 DEF AtMost, AtLeast
  <2>4. CASE Keyed(m, t) = {} /\ i = NewInfo
    <3>1. w.what # "fcntl_exit"
      BY <2>1, <2>4 DEF Under, Between, Did
    <3>2. i.tcp = FALSE /\ i.sent = 0
      BY <2>4 DEF NewInfo
    <3>3. PendFd(i, w) = PendFd(o, w) /\ PendSent(i, w) = 0
      BY <3>1, <3>2 DEF PendFd, PendSent
    <3>4. AtMost(i, NoProbe, o)
      BY <2>1, <2>4, NothingCharged DEF Under
    <3>5. AtMost(i, w, o2)
      <4> HIDE DEF i
      <4>1. /\ \A k \in Kinds : i.n[k] <= Cnt(o, k)
            /\ i.sent <= o.sent /\ i.read <= o.read /\ i.fd <= Net(o)
        BY <1>1, <3>4, NoProbePends DEF AtMost
      <4>2. /\ \A k \in Kinds : Cnt(o2, k) = Cnt(o, k) + PendN(w, k)
            /\ o2.read = o.read + PendRead(w)
            /\ o2.sent = o.sent + PendSent(o, w)
            /\ o2.fd = o.fd + PendFd(i, w)
        BY <3>3 DEF Did
      <4>3. /\ \A k \in Kinds : Cnt(o, k) \in Nat
            /\ o.read \in Nat /\ o.sent \in Nat /\ Net(o) \in Int
            /\ o.fd \in Int /\ o.under \in Nat /\ o2.sent \in Nat
        BY CntType
      <4>4. /\ \A k \in Kinds : PendN(w, k) \in {0, 1}
            /\ PendRead(w) \in Nat /\ PendFd(i, w) \in {-1, 0, 1}
        BY PendType
      <4>5. Net(o2) = Net(o) + PendFd(i, w)
        BY <4>2, <4>3, <4>4 DEF Net
      <4>6. \A k \in Kinds : i.n[k] + PendN(w, k) <= Cnt(o2, k)
        BY <1>1, <4>1, <4>2, <4>3, <4>4
      <4>7. i.sent + PendSent(i, w) <= o2.sent
        BY <3>2, <3>3, <4>3
      <4>8. i.read + PendRead(w) <= o2.read
        BY <1>1, <4>1, <4>2, <4>3, <4>4
      <4>9. i.fd + PendFd(i, w) <= Net(o2)
        BY <1>1, <4>1, <4>3, <4>4, <4>5
      <4> QED
        BY <4>6, <4>7, <4>8, <4>9 DEF AtMost
    <3>6. ASSUME tk = "alive", tn = "no"
          PROVE  AtLeast(i, w, o2) /\ w.what # "xmit_exit"
      <4>1. Nothing(o) /\ w.what # "xmit_exit"
        BY <2>2, <2>4, <3>6 DEF Exact, Did
      <4>2. PendSent(i, w) = PendSent(o, w)
        BY <4>1 DEF PendSent
      <4>3. AtLeast(i, NoProbe, o)
        BY <2>4, <4>1, NothingCharged
      <4> QED
        BY <3>3, <4>1, <4>2, <4>3, DidWraps
    <3> HIDE DEF i
    <3> QED
      BY <1>4, <3>1, <3>5, <3>6 DEF AtMost, AtLeast
  <2> QED
    BY <2>3, <2>4
<1>7. Between(m2, t, TRUE, ph2, p, o2)
  BY <1>2, <1>3 DEF Between, Did
<1>8. tk # "dead" /\ tn # "charged" => Under(m2, t, TRUE, ph2, p, o2)
  BY <1>2, <1>6, <1>7 DEF Under
<1>9. tk = "alive" /\ tn = "no" => Exact(m2, t, TRUE, ph2, p, o2)
  BY <1>3, <1>6 DEF Exact
<1> QED
  BY <1>5, <1>8, <1>9 DEF ThreadOK, p

(* Being turned away leaves its mark.                                      *)
Marked(w, ph, tn, tn2, o, o2) ==
  /\ tn2 \in {"evicted", "charged"}
  /\ w.what = "fcntl_enter" \/ ph = "fcntl" \/ tn = "charged" =>
       tn2 = "charged"
  /\ o2.under = IF w.what = "close" THEN o.under + 1 ELSE o.under

LEMMA TurnedOK ==
  ASSUME NEW m, NEW m2, NEW t, NEW tk, NEW ph, NEW ph2,
         NEW w, Fits(w), NEW o \in Deeds, NEW o2 \in Deeds, NEW tn, NEW tn2,
         ThreadOK(m, t, tk, TRUE, ph, NoProbe, o, tn),
         Did(o, o2, w, TRUE, tk, ph, ph2),
         Keyed(m, t) = {}, Keyed(m2, t) = {},
         Marked(w, ph, tn, tn2, o, o2)
  PROVE  ThreadOK(m2, t, tk, TRUE, ph2, NoProbe, o2, tn2)
<1>1. Life(m2, t, tk, ph2, NoProbe, o2)
  BY DEF Life, Did
<1>2. ASSUME tn2 # "charged"
      PROVE  Under(m2, t, TRUE, ph2, NoProbe, o2)
  <2>1. Under(m, t, TRUE, ph, NoProbe, o)
    BY <1>2 DEF ThreadOK, Did, Marked
  <2>2. ph2 # "fcntl"
    BY <1>2 DEF Did, Marked
  <2>3. Net(o) >= 0
    BY <2>1 DEF Under
  <2>4. Net(o2) >= 0
    <3>1. o2.fd = o.fd + PendFd(o, w)
      BY DEF Did
    <3>2. PendFd(o, w) \in {-1, 0, 1} /\ (PendFd(o, w) = -1 => w.what = "close")
      BY PendType
    <3>3. o.fd \in Int /\ o.under \in Nat
      BY CntType
    <3>4. o2.under = IF w.what = "close" THEN o.under + 1 ELSE o.under
      BY DEF Marked
    <3> QED
      BY <2>3, <3>1, <3>2, <3>3, <3>4 DEF Net
  <2> QED
    BY <2>2, <2>4 DEF Under, Between
<1> QED
  BY <1>1, <1>2 DEF ThreadOK, Marked

LEMMA SkippedOK ==
  ASSUME NEW m, NEW t, NEW tk, NEW ph, NEW ph2,
         NEW w, Fits(w), NEW o \in Deeds, NEW o2 \in Deeds, NEW tn,
         ThreadOK(m, t, tk, FALSE, ph, NoProbe, o, tn),
         Did(o, o2, w, FALSE, tk, ph, ph2), o2.under = o.under
  PROVE  ThreadOK(m, t, tk, FALSE, ph2, NoProbe, o2, tn)
<1>1. Life(m, t, tk, ph2, NoProbe, o2)
  BY DEF Life, Did, ThreadOK
<1>2. /\ \A k \in Kinds : Cnt(o2, k) = Cnt(o, k)
      /\ o2.read = o.read /\ o2.sent = o.sent /\ o2.fd = o.fd
      /\ o2.under = o.under /\ Net(o2) = Net(o)
  BY CntType DEF Did, Net
<1>3. ASSUME tk # "dead", tn # "charged"
      PROVE  Under(m, t, FALSE, ph2, NoProbe, o2)
  BY <1>2, <1>3 DEF ThreadOK, Under, AtMost, Between
<1>4. ASSUME tk = "alive", tn = "no"
      PROVE  Exact(m, t, FALSE, ph2, NoProbe, o2)
  BY <1>2, <1>4 DEF ThreadOK, Exact, AtLeast, Nothing, NoProbe
<1> QED
  BY <1>1, <1>3, <1>4 DEF ThreadOK
(* A step in which thread t does something the probe program w charges.    *)
LEMMA CallKeeps ==
  ASSUME IInv, NEW t \in Threads, NEW w, Fits(w), Enter(t, w),
         probe[t] = NoProbe,
         NEW o2 \in Deeds, own' = [own EXCEPT ![t] = o2],
         NEW ph2, phase' = [phase EXCEPT ![t] = ph2],
         Did(own[t], o2, w, oomp[t], task[t], phase[t], ph2),
         o2.under = IF w.what = "close" /\ oomp[t] /\ probe'[t] = NoProbe
                    THEN own[t].under + 1 ELSE own[t].under,
         UNCHANGED <<allowed, task, oomp>>, events' \in 0 .. MaxEvents
  PROVE  IInv'
<1>1. TypeOK /\ OK(t)
  BY DEF IInv
<1>2. /\ own \in [Threads -> Deeds] /\ oomp[t] \in BOOLEAN
      /\ phase \in [Threads -> {"run", "born", "clone", "fcntl", "xmit"}]
  BY <1>1 DEF TypeOK
<1>3. own'[t] = o2 /\ phase'[t] = ph2 /\ own[t] \in Deeds
  BY <1>2
<1>4. \A v \in Threads \ {t} : own'[v] = own[v] /\ phase'[v] = phase[v]
  BY <1>2
<1>5. /\ elem' \in [Elems -> [key : Threads \cup {NoKey}, info : ProcInfo]]
      /\ probe' \in [Threads -> ProbeRun \cup {NoProbe}]
      /\ taint' \in [Threads -> {"no", "evicted", "charged"}]
  BY <1>1, EnterType
<1>6. TypeOK'
  BY <1>1, <1>2, <1>5 DEF TypeOK, Did
<1>7. ThreadOK(elem, t, task[t], oomp[t], phase[t], NoProbe, own[t], taint[t])
  BY <1>1 DEF OK
<1>8. ThreadOK(elem', t, task[t], oomp[t], ph2, probe'[t], o2, taint'[t])
  <2>1. CASE \E e \in Elems : Started(t, w, e)
    <3>1. PICK e \in Elems : Started(t, w, e)
      BY <2>1
    <3>2. elem'[e].info \in ProcInfo
      BY <1>5
    <3>3. /\ oomp[t] /\ Keyed(elem', t) = {e} /\ probe'[t] = Looked(w, e)
          /\ taint'[t] = taint[t]
          /\ \/ Keyed(elem, t) = {e} /\ elem'[e].info = elem[e].info
             \/ Keyed(elem, t) = {} /\ elem'[e].info = NewInfo
      BY <3>1 DEF Started
    <3>4. /\ ThreadOK(elem, t, task[t], TRUE, phase[t], NoProbe, own[t], taint[t])
          /\ Did(own[t], o2, w, TRUE, task[t], phase[t], ph2)
          /\ oomp[t] = TRUE
      BY <1>2, <1>7, <3>3
    <3>5. o2.under = own[t].under
      <4>1. probe'[t] # NoProbe
        BY <3>3, KillerAssumption DEF Looked, NoProbe
      <4>2. own[t].under \in Nat
        BY <1>3, CntType
      <4> QED
        BY <4>1, <4>2
    <3>6. ThreadOK(elem', t, task[t], TRUE, ph2, Looked(w, e), o2, taint[t])
      BY <1>3, <3>2, <3>3, <3>4, <3>5, StartedOK
    <3> QED
      BY <3>3, <3>4, <3>6
  <2>2. CASE Turned(t, w)
    <3>1. /\ oomp[t] /\ Keyed(elem, t) = {} /\ Keyed(elem', t) = {}
          /\ probe'[t] = NoProbe
      BY <2>2 DEF Turned
    <3>2. Marked(w, phase[t], taint[t], taint'[t], own[t], o2)
      <4>1. own[t].under \in Nat
        BY <1>3, CntType
      <4> QED
        BY <2>2, <3>1, <4>1 DEF Turned, Marked
    <3>3. /\ ThreadOK(elem, t, task[t], TRUE, phase[t], NoProbe, own[t], taint[t])
          /\ Did(own[t], o2, w, TRUE, task[t], phase[t], ph2)
          /\ oomp[t] = TRUE
      BY <1>2, <1>7, <3>1
    <3>4. ThreadOK(elem', t, task[t], TRUE, ph2, NoProbe, o2, taint'[t])
      BY <1>3, <3>1, <3>2, <3>3, TurnedOK
    <3> QED
      BY <3>1, <3>3, <3>4
  <2>3. CASE Skipped(t)
    <3>1. /\ oomp[t] = FALSE /\ elem' = elem /\ probe'[t] = NoProbe
          /\ taint'[t] = taint[t]
      BY <1>2, <2>3 DEF Skipped
    <3>2. /\ ThreadOK(elem, t, task[t], FALSE, phase[t], NoProbe, own[t], taint[t])
          /\ Did(own[t], o2, w, FALSE, task[t], phase[t], ph2)
          /\ o2.under = own[t].under
      BY <1>3, <1>7, <3>1, CntType
    <3>3. ThreadOK(elem, t, task[t], FALSE, ph2, NoProbe, o2, taint[t])
      BY <1>3, <3>2, SkippedOK
    <3> QED
      BY <3>1, <3>3
  <2> QED
    BY <1>1, <2>1, <2>2, <2>3, EnterOutcome
<1>9. OK(t)'
  BY <1>3, <1>8 DEF OK
<1>10. ASSUME NEW v \in Threads, v # t
       PROVE  OK(v)'
  <2>1. Bystander(v)
    BY <1>1, <1>4, <1>10, EnterElsewhere
  <2> QED
    BY <2>1, BystanderOK DEF IInv
<1> QED
  BY <1>6, <1>9, <1>10 DEF IInv

(* The record of deeds, field by field.                                    *)
LEMMA DeedsFields ==
  ASSUME NEW o \in Deeds
  PROVE  /\ o = [n |-> o.n, fd |-> o.fd, read |-> o.read, sent |-> o.sent,
                 op |-> o.op, tcp |-> o.tcp, born |-> o.born,
                 under |-> o.under, late |-> o.late]
         /\ o.n \in [Kinds -> Nat] /\ o.fd \in Int /\ o.read \in Nat
         /\ o.sent \in Nat /\ o.op \in {"dup", "other"} /\ o.born \in {0, 1}
         /\ o.tcp \in BOOLEAN /\ o.under \in Nat /\ o.late \in BOOLEAN
BY DEF Deeds

(* What a thread that may act, or is between two probes, is like.          *)
LEMMA ActorFacts ==
  ASSUME IInv, NEW t \in Threads
  PROVE  /\ own \in [Threads -> Deeds] /\ own[t] \in Deeds
         /\ Tally(t) = IF oomp[t] THEN 1 ELSE 0
         /\ oomp[t] \in BOOLEAN
         /\ phase \in [Threads -> {"run", "born", "clone", "fcntl", "xmit"}]
         /\ events \in 0 .. MaxEvents /\ MaxEvents \in Nat
         /\ Life(elem, t, task[t], phase[t], probe[t], own[t])
<1>1. TypeOK /\ OK(t)
  BY DEF IInv
<1>2. Life(elem, t, task[t], phase[t], probe[t], own[t])
  BY <1>1 DEF OK, ThreadOK
<1> QED
  BY <1>1, <1>2, KillerAssumption DEF Tally, TypeOK

LEMMA RunsFacts ==
  ASSUME IInv, NEW t \in Threads, Runs(t)
  PROVE  /\ task[t] = "alive" /\ phase[t] = "run" /\ probe[t] = NoProbe
         /\ events' \in 0 .. MaxEvents
         /\ phase' = phase => phase' = [phase EXCEPT ![t] = "run"]
<1>1. /\ phase \in [Threads -> {"run", "born", "clone", "fcntl", "xmit"}]
      /\ events \in 0 .. MaxEvents /\ MaxEvents \in Nat
  BY ActorFacts
<1>2. /\ task[t] = "alive" /\ phase[t] = "run" /\ probe[t] = NoProbe
      /\ events < MaxEvents /\ events' = events + 1
  BY DEF Runs
<1> QED
  BY <1>1, <1>2

LEMMA CallStep ==
  ASSUME IInv, NEW t \in Threads, NEW k \in Kinds, Call(t, k)
  PROVE  IInv'
<1> DEFINE o == own[t]
           o2 == [o EXCEPT !.n[k] = @ + Tally(t)]
           w == What("count", k)
<1>1. /\ Runs(t) /\ own' = [own EXCEPT ![t] = o2]
      /\ UNCHANGED <<allowed, task, oomp, phase>> /\ Enter(t, w)
  BY DEF Call
<1>2. /\ task[t] = "alive" /\ phase[t] = "run" /\ probe[t] = NoProbe
      /\ events' \in 0 .. MaxEvents /\ phase' = [phase EXCEPT ![t] = "run"]
  BY <1>1, RunsFacts
<1>3. w.what = "count" /\ w.arg = k /\ Fits(w)
  BY DEF Fits, What, Whats, Args
<1>4. o \in Deeds /\ Tally(t) = IF oomp[t] THEN 1 ELSE 0
  BY ActorFacts
<1> HIDE DEF w, o
<1>5. o2.n = [o.n EXCEPT ![k] = @ + Tally(t)] /\ o2 \in Deeds
  BY <1>4, DeedsFields DEF Deeds
<1>6. /\ o2.fd = o.fd /\ o2.read = o.read /\ o2.sent = o.sent
      /\ o2.born = o.born /\ o2.under = o.under /\ o2.late = o.late
  BY <1>4, DeedsFields
<1> HIDE DEF o2
<1>7. \A kk \in Kinds :
        Cnt(o2, kk) = Cnt(o, kk) + (IF oomp[t] THEN PendN(w, kk) ELSE 0)
  BY <1>3, <1>4, <1>5, <1>6, DeedsFields DEF Cnt, PendN
<1>8. Did(o, o2, w, oomp[t], task[t], phase[t], "run")
  BY <1>2, <1>3, <1>4, <1>6, <1>7, DeedsFields
     DEF Did, PendRead, PendSent, PendFd
<1> QED
  BY <1>1, <1>2, <1>3, <1>5, <1>6, <1>8, CallKeeps DEF o
(* The call is one of those that change neither the counts nor the phase.  *)
LEMMA CallFailsStep ==
  ASSUME IInv, NEW t \in Threads, CallFails(t)
  PROVE  IInv'
<1> DEFINE o == own[t]
           w == What("nothing", "other")
<1>1. /\ Runs(t) /\ own' = own
      /\ UNCHANGED <<allowed, task, oomp, phase>> /\ Enter(t, w)
  BY DEF CallFails
<1>2. /\ task[t] = "alive" /\ phase[t] = "run" /\ probe[t] = NoProbe
      /\ events' \in 0 .. MaxEvents /\ phase' = [phase EXCEPT ![t] = "run"]
  BY <1>1, RunsFacts
<1>3. w.what = "nothing" /\ Fits(w)
  BY DEF Fits, What, Whats, Args
<1>4. o \in Deeds /\ own' = [own EXCEPT ![t] = o]
  BY <1>1, ActorFacts
<1> HIDE DEF w, o
<1>5. \A k \in Kinds : Cnt(o, k) \in Nat /\ PendN(w, k) = 0
  BY <1>3, <1>4, CntType DEF PendN
<1>6. Did(o, o, w, oomp[t], task[t], phase[t], "run")
  BY <1>2, <1>3, <1>4, <1>5, DeedsFields DEF Did, PendRead, PendSent, PendFd
<1> QED
  BY <1>1, <1>2, <1>3, <1>4, <1>6, CallKeeps DEF o

LEMMA OpenFdStep ==
  ASSUME IInv, NEW t \in Threads, OpenFd(t)
  PROVE  IInv'
<1> DEFINE o == own[t]
           o2 == [o EXCEPT !.fd = @ + Tally(t)]
           w == What("open", "other")
<1>1. /\ Runs(t) /\ own' = [own EXCEPT ![t] = o2]
      /\ UNCHANGED <<allowed, task, oomp, phase>> /\ Enter(t, w)
  BY DEF OpenFd
<1>2. /\ task[t] = "alive" /\ phase[t] = "run" /\ probe[t] = NoProbe
      /\ events' \in 0 .. MaxEvents /\ phase' = [phase EXCEPT ![t] = "run"]
  BY <1>1, RunsFacts
<1>3. w.what = "open" /\ Fits(w)
  BY DEF Fits, What, Whats, Args
<1>4. o \in Deeds /\ Tally(t) = IF oomp[t] THEN 1 ELSE 0
  BY ActorFacts
<1> HIDE DEF w, o
<1>5. o2.fd = o.fd + Tally(t) /\ o2 \in Deeds
  BY <1>4, DeedsFields DEF Deeds
<1>6. /\ o2.n = o.n /\ o2.read = o.read /\ o2.sent = o.sent
      /\ o2.born = o.born /\ o2.under = o.under /\ o2.late = o.late
  BY <1>4, DeedsFields
<1> HIDE DEF o2
<1>7. \A k \in Kinds : Cnt(o2, k) = Cnt(o, k) /\ Cnt(o, k) \in Nat
                       /\ PendN(w, k) = 0
  BY <1>3, <1>4, <1>6, CntType DEF Cnt, PendN
<1>8. Did(o, o2, w, oomp[t], task[t], phase[t], "run")
  BY <1>2, <1>3, <1>4, <1>5, <1>6, <1>7, DeedsFields
     DEF Did, PendRead, PendSent, PendFd
<1> QED
  BY <1>1, <1>2, <1>3, <1>5, <1>6, <1>8, CallKeeps DEF o

LEMMA CloseFdStep ==
  ASSUME IInv, NEW t \in Threads, CloseFd(t)
  PROVE  IInv'
<1> DEFINE o == own[t]
           u == IF probe'[t] = NoProbe THEN o.under + Tally(t) ELSE o.under
           o2 == [o EXCEPT !.fd = @ - Tally(t), !.under = u]
           w == What("close", "other")
<1>1. o \in Deeds /\ Tally(t) = (IF oomp[t] THEN 1 ELSE 0)
        /\ own \in [Threads -> Deeds]
  BY ActorFacts
<1>2. /\ Runs(t) /\ UNCHANGED <<allowed, task, oomp, phase>> /\ Enter(t, w)
  BY DEF CloseFd
<1>3. own' = [own EXCEPT ![t] = o2]
  <2>1. own' = [own EXCEPT ![t].fd = @ - Tally(t),
                           ![t].under = IF probe'[t] = NoProbe
                                        THEN @ + Tally(t) ELSE @]
    BY DEF CloseFd
  <2> QED
    BY <1>1, <2>1, DeedsFields
<1>4. /\ task[t] = "alive" /\ phase[t] = "run" /\ probe[t] = NoProbe
      /\ events' \in 0 .. MaxEvents /\ phase' = [phase EXCEPT ![t] = "run"]
  BY <1>2, RunsFacts
<1>5. w.what = "close" /\ Fits(w)
  BY DEF Fits, What, Whats, Args
<1>6. /\ u \in Nat
      /\ u = IF oomp[t] /\ probe'[t] = NoProbe THEN o.under + 1 ELSE o.under
  BY <1>1, DeedsFields
<1> HIDE DEF w, o, u
<1>7. o2.fd = o.fd - Tally(t) /\ o2.under = u /\ o2 \in Deeds
  <2>1. o.fd - Tally(t) \in Int
    BY <1>1, DeedsFields
  <2> QED
    BY <1>1, <1>6, <2>1, DeedsFields DEF Deeds
<1>8. /\ o2.n = o.n /\ o2.read = o.read /\ o2.sent = o.sent
      /\ o2.born = o.born /\ o2.late = o.late
  BY <1>1, DeedsFields
<1> HIDE DEF o2
<1>9. \A k \in Kinds : Cnt(o2, k) = Cnt(o, k) /\ Cnt(o, k) \in Nat
                       /\ PendN(w, k) = 0
  BY <1>1, <1>5, <1>8, CntType DEF Cnt, PendN
<1>10. Did(o, o2, w, oomp[t], task[t], phase[t], "run")
  BY <1>1, <1>4, <1>5, <1>7, <1>8, <1>9, DeedsFields
     DEF Did, PendRead, PendSent, PendFd
<1>11. o2.under = IF w.what = "close" /\ oomp[t] /\ probe'[t] = NoProbe
                  THEN o.under + 1 ELSE o.under
  BY <1>5, <1>6, <1>7
<1> QED
  BY <1>2, <1>3, <1>4, <1>5, <1>7, <1>10, <1>11, CallKeeps DEF o

LEMMA ReadBytesStep ==
  ASSUME IInv, NEW t \in Threads, NEW n \in Sizes, ReadBytes(t, n)
  PROVE  IInv'
<1> DEFINE o == own[t]
           o2 == [o EXCEPT !.read = @ + n * Tally(t)]
           w == [What("read", "other") EXCEPT !.size = n]
<1>1. /\ Runs(t) /\ own' = [own EXCEPT ![t] = o2]
      /\ UNCHANGED <<allowed, task, oomp, phase>> /\ Enter(t, w)
  BY DEF ReadBytes
<1>2. /\ task[t] = "alive" /\ phase[t] = "run" /\ probe[t] = NoProbe
      /\ events' \in 0 .. MaxEvents /\ phase' = [phase EXCEPT ![t] = "run"]
  BY <1>1, RunsFacts
<1>3. n \in Nat
  BY KillerAssumption
<1>4. w.what = "read" /\ w.size = n /\ Fits(w)
  BY <1>3 DEF Fits, What, Whats, Args
<1>5. o \in Deeds /\ Tally(t) = IF oomp[t] THEN 1 ELSE 0
  BY ActorFacts
<1>6. n * Tally(t) = (IF oomp[t] THEN n ELSE 0) /\ n * Tally(t) \in Nat
  BY <1>3, <1>5
<1> HIDE DEF w, o
<1>7. o2.read = o.read + n * Tally(t) /\ o2 \in Deeds
  BY <1>5, <1>6, DeedsFields DEF Deeds
<1>8. /\ o2.n = o.n /\ o2.fd = o.fd /\ o2.sent = o.sent
      /\ o2.born = o.born /\ o2.under = o.under /\ o2.late = o.late
  BY <1>5, DeedsFields
<1> HIDE DEF o2
<1>9. \A k \in Kinds : Cnt(o2, k) = Cnt(o, k) /\ Cnt(o, k) \in Nat
                       /\ PendN(w, k) = 0
  BY <1>4, <1>5, <1>8, CntType DEF Cnt, PendN
<1>10. o2.read = o.read + (IF oomp[t] THEN n ELSE 0)
  BY <1>6, <1>7
<1>11. Did(o, o2, w, oomp[t], task[t], phase[t], "run")
  BY <1>2, <1>3, <1>4, <1>5, <1>8, <1>9, <1>10, DeedsFields
     DEF Did, PendRead, PendSent, PendFd
<1> QED
  BY <1>1, <1>2, <1>4, <1>7, <1>8, <1>11, CallKeeps DEF o

LEMMA FcntlEnterStep ==
  ASSUME IInv, NEW t \in Threads, NEW op \in {"dup", "other"},
         FcntlEnter(t, op)
  PROVE  IInv'
<1> DEFINE o == own[t]
           o2 == [o EXCEPT !.op = op]
           w == What("fcntl_enter", op)
<1>1. /\ Runs(t) /\ own' = [own EXCEPT ![t] = o2]
      /\ phase' = [phase EXCEPT ![t] = "fcntl"]
      /\ UNCHANGED <<allowed, task, oomp>> /\ Enter(t, w)
  BY DEF FcntlEnter
<1>2. /\ task[t] = "alive" /\ phase[t] = "run" /\ probe[t] = NoProbe
      /\ events' \in 0 .. MaxEvents
  BY <1>1, RunsFacts
<1>3. w.what = "fcntl_enter" /\ w.arg = op /\ Fits(w)
  BY DEF Fits, What, Whats, Args
<1>4. o \in Deeds
  BY ActorFacts
<1> HIDE DEF w, o
<1>5. o2.op = op /\ o2 \in Deeds
  BY <1>4, DeedsFields DEF Deeds
<1>6. /\ o2.n = o.n /\ o2.fd = o.fd /\ o2.read = o.read /\ o2.sent = o.sent
      /\ o2.born = o.born /\ o2.under = o.under /\ o2.late = o.late
  BY <1>4, DeedsFields
<1> HIDE DEF o2
<1>7. \A k \in Kinds : Cnt(o2, k) = Cnt(o, k) /\ Cnt(o, k) \in Nat
                       /\ PendN(w, k) = 0
  BY <1>3, <1>4, <1>6, CntType DEF Cnt, PendN
<1>8. Did(o, o2, w, oomp[t], task[t], phase[t], "fcntl")
  BY <1>2, <1>3, <1>4, <1>5, <1>6, <1>7, DeedsFields
     DEF Did, PendRead, PendSent, PendFd
<1> QED
  BY <1>1, <1>2, <1>3, <1>5, <1>6, <1>8, CallKeeps DEF o
LEMMA FcntlExitStep ==
  ASSUME IInv, NEW t \in Threads, NEW ok \in BOOLEAN, FcntlExit(t, ok)
  PROVE  IInv'
<1> DEFINE o == own[t]
           f == IF ok /\ o.op = "dup" THEN o.fd + Tally(t) ELSE o.fd
           o2 == [o EXCEPT !.fd = f]
           w == What(IF ok THEN "fcntl_exit" ELSE "nothing", "other")
<1>1. o \in Deeds /\ Tally(t) = (IF oomp[t] THEN 1 ELSE 0)
        /\ own \in [Threads -> Deeds] /\ events \in 0 .. MaxEvents
        /\ Life(elem, t, task[t], phase[t], probe[t], o)
  BY ActorFacts
<1>2. /\ phase[t] = "fcntl" /\ probe[t] = NoProbe
      /\ phase' = [phase EXCEPT ![t] = "run"]
      /\ UNCHANGED <<allowed, task, oomp, events>> /\ Enter(t, w)
  BY DEF FcntlExit
<1>3. own' = [own EXCEPT ![t] = o2]
  BY <1>1, DeedsFields DEF FcntlExit
<1>4. task[t] # "dead" /\ task[t] # "exiting"
  BY <1>1, <1>2 DEF Life
<1>5. w.what = (IF ok THEN "fcntl_exit" ELSE "nothing") /\ Fits(w)
  BY DEF Fits, What, Whats, Args
<1>6. f \in Int /\ f = o.fd + (IF oomp[t] THEN PendFd(o, w) ELSE 0)
  BY <1>1, <1>5, DeedsFields DEF PendFd
<1> HIDE DEF w, o, f
<1>7. o2.fd = f /\ o2 \in Deeds
  BY <1>1, <1>6, DeedsFields DEF Deeds
<1>8. /\ o2.n = o.n /\ o2.op = o.op /\ o2.read = o.read /\ o2.sent = o.sent
      /\ o2.born = o.born /\ o2.under = o.under /\ o2.late = o.late
  BY <1>1, DeedsFields
<1> HIDE DEF o2
<1>9. \A k \in Kinds : Cnt(o2, k) = Cnt(o, k) /\ Cnt(o, k) \in Nat
                       /\ PendN(w, k) = 0
  BY <1>1, <1>5, <1>8, CntType DEF Cnt, PendN
<1>10. Did(o, o2, w, oomp[t], task[t], phase[t], "run")
  BY <1>1, <1>2, <1>4, <1>5, <1>6, <1>7, <1>8, <1>9, DeedsFields
     DEF Did, PendRead, PendSent
<1>11. w.what # "close" /\ events' \in 0 .. MaxEvents
  BY <1>1, <1>2, <1>5
<1> QED
  BY <1>2, <1>3, <1>5, <1>7, <1>8, <1>10, <1>11, CallKeeps DEF o

LEMMA XmitEnterStep ==
  ASSUME IInv, NEW t \in Threads, NEW tcp \in BOOLEAN,
         NEW readable \in BOOLEAN, XmitEnter(t, tcp, readable)
  PROVE  IInv'
<1> DEFINE o == own[t]
           b == o.late \/ task[t] = "exiting"
           o2 == [o EXCEPT !.tcp = tcp, !.late = b]
           w == What("xmit_enter", IF ~readable THEN "unread"
                                   ELSE IF tcp THEN "tcp" ELSE "other")
<1>1. /\ o \in Deeds /\ own \in [Threads -> Deeds]
      /\ events \in 0 .. MaxEvents /\ MaxEvents \in Nat
  BY ActorFacts
<1>2. /\ phase[t] = "run" /\ probe[t] = NoProbe
      /\ task[t] \in {"alive", "exiting"}
      /\ events < MaxEvents /\ events' = events + 1
      /\ phase' = [phase EXCEPT ![t] = "xmit"]
      /\ UNCHANGED <<allowed, task, oomp>> /\ Enter(t, w)
  BY DEF XmitEnter
<1>3. own' = [own EXCEPT ![t] = o2]
  <2>1. own' = [own EXCEPT ![t].tcp = tcp,
                           ![t].late = @ \/ task[t] = "exiting"]
    BY DEF XmitEnter
  <2> QED
    BY <1>1, <2>1, DeedsFields
<1>4. /\ w.what = "xmit_enter" /\ Fits(w)
      /\ w.arg # "unread" => (w.arg = "tcp") = tcp
  BY DEF Fits, What, Whats, Args
<1>5. b \in BOOLEAN /\ (task[t] = "exiting" => b)
  BY <1>1, DeedsFields, Zenon
<1> HIDE DEF w, o, b
<1>6. o2.tcp = tcp /\ o2.late = b /\ o2 \in Deeds
  <2>1. b \in BOOLEAN
    BY <1>5
  <2> QED
    BY <1>1, <2>1, DeedsFields DEF Deeds
<1>7. /\ o2.n = o.n /\ o2.fd = o.fd /\ o2.read = o.read /\ o2.sent = o.sent
      /\ o2.born = o.born /\ o2.under = o.under
  BY <1>1, DeedsFields
<1>8. task[t] = "exiting" => o2.late
  BY <1>5, <1>6, Zenon
<1>9. w.arg # "unread" => (w.arg = "tcp") = o2.tcp
  BY <1>4, <1>6, Zenon
<1> HIDE DEF o2
<1>10. \A k \in Kinds : Cnt(o2, k) = Cnt(o, k) /\ Cnt(o, k) \in Nat
                        /\ PendN(w, k) = 0
  BY <1>1, <1>4, <1>7, CntType DEF Cnt, PendN
<1>11. Did(o, o2, w, oomp[t], task[t], phase[t], "xmit")
  BY <1>1, <1>2, <1>4, <1>7, <1>8, <1>9, <1>10, DeedsFields
     DEF Did, PendRead, PendSent, PendFd
<1>12. w.what # "close" /\ events' \in 0 .. MaxEvents
  BY <1>1, <1>2, <1>4
<1> QED
  BY <1>2, <1>3, <1>4, <1>6, <1>7, <1>11, <1>12, CallKeeps DEF o

LEMMA XmitExitStep ==
  ASSUME IInv, NEW t \in Threads, NEW ok \in BOOLEAN, XmitExit(t, ok)
  PROVE  IInv'
<1> DEFINE o == own[t]
           f == IF ok /\ o.tcp THEN o.sent + Tally(t) ELSE o.sent
           o2 == [o EXCEPT !.sent = f]
           w == What(IF ok THEN "xmit_exit" ELSE "nothing", "other")
<1>1. o \in Deeds /\ Tally(t) = (IF oomp[t] THEN 1 ELSE 0)
        /\ own \in [Threads -> Deeds] /\ events \in 0 .. MaxEvents
        /\ Life(elem, t, task[t], phase[t], probe[t], o)
  BY ActorFacts
<1>2. /\ phase[t] = "xmit" /\ probe[t] = NoProbe
      /\ phase' = [phase EXCEPT ![t] = "run"]
      /\ UNCHANGED <<allowed, task, oomp, events>> /\ Enter(t, w)
  BY DEF XmitExit
<1>3. own' = [own EXCEPT ![t] = o2]
  BY <1>1, DeedsFields DEF XmitExit
<1>4. task[t] # "dead" /\ (task[t] = "exiting" => o.late)
  BY <1>1, <1>2 DEF Life
<1>5. w.what = (IF ok THEN "xmit_exit" ELSE "nothing") /\ Fits(w)
  BY DEF Fits, What, Whats, Args
<1>6. f \in Nat /\ f = o.sent + (IF oomp[t] THEN PendSent(o, w) ELSE 0)
  BY <1>1, <1>5, DeedsFields DEF PendSent
<1> HIDE DEF w, o, f
<1>7. o2.sent = f /\ o2 \in Deeds
  BY <1>1, <1>6, DeedsFields DEF Deeds
<1>8. /\ o2.n = o.n /\ o2.tcp = o.tcp /\ o2.read = o.read /\ o2.fd = o.fd
      /\ o2.born = o.born /\ o2.under = o.under /\ o2.late = o.late
  BY <1>1, DeedsFields
<1> HIDE DEF o2
<1>9. \A k \in Kinds : Cnt(o2, k) = Cnt(o, k) /\ Cnt(o, k) \in Nat
                       /\ PendN(w, k) = 0
  BY <1>1, <1>5, <1>8, CntType DEF Cnt, PendN
<1>10. Did(o, o2, w, oomp[t], task[t], phase[t], "run")
  BY <1>1, <1>2, <1>4, <1>5, <1>6, <1>7, <1>8, <1>9, DeedsFields
     DEF Did, PendRead, PendFd
<1>11. w.what # "close" /\ events' \in 0 .. MaxEvents
  BY <1>1, <1>2, <1>5
<1> QED
  BY <1>2, <1>3, <1>5, <1>7, <1>8, <1>10, <1>11, CallKeeps DEF o

LEMMA CloneReturnsStep ==
  ASSUME IInv, NEW t \in Threads, CloneReturns(t)
  PROVE  IInv'
<1> DEFINE o == own[t]
           o2 == [o EXCEPT !.n["spawn"] = @ + Tally(t)]
           w == What("count", "spawn")
<1>1. o \in Deeds /\ Tally(t) = (IF oomp[t] THEN 1 ELSE 0)
        /\ events \in 0 .. MaxEvents
        /\ Life(elem, t, task[t], phase[t], probe[t], o)
  BY ActorFacts
<1>2. /\ phase[t] = "clone" /\ phase' = [phase EXCEPT ![t] = "run"]
      /\ own' = [own EXCEPT ![t] = o2]
      /\ UNCHANGED <<allowed, task, oomp, events>> /\ Enter(t, w)
  BY DEF CloneReturns
<1>3. probe[t] = NoProbe /\ task[t] # "dead" /\ task[t] # "exiting"
  BY <1>1, <1>2 DEF Life
<1>4. "spawn" \in Kinds
  BY KillerAssumption
<1>5. w.what = "count" /\ w.arg = "spawn" /\ Fits(w)
  BY <1>4 DEF Fits, What, Whats, Args
<1> HIDE DEF w, o
<1>6. o2.n = [o.n EXCEPT !["spawn"] = @ + Tally(t)] /\ o2 \in Deeds
  BY <1>1, <1>4, DeedsFields DEF Deeds
<1>7. /\ o2.fd = o.fd /\ o2.read = o.read /\ o2.sent = o.sent
      /\ o2.born = o.born /\ o2.under = o.under /\ o2.late = o.late
  BY <1>1, DeedsFields
<1> HIDE DEF o2
<1>8. \A kk \in Kinds :
        Cnt(o2, kk) = Cnt(o, kk) + (IF oomp[t] THEN PendN(w, kk) ELSE 0)
  BY <1>1, <1>4, <1>5, <1>6, <1>7, DeedsFields DEF Cnt, PendN
<1>9. Did(o, o2, w, oomp[t], task[t], phase[t], "run")
  BY <1>2, <1>3, <1>5, <1>1, <1>7, <1>8, DeedsFields
     DEF Did, PendRead, PendSent, PendFd
<1> QED
  BY <1>1, <1>2, <1>3, <1>5, <1>6, <1>7, <1>9, CallKeeps DEF o

LEMMA BornStep ==
  ASSUME IInv, NEW t \in Threads, Born(t)
  PROVE  IInv'
<1> DEFINE o == own[t]
           o2 == [o EXCEPT !.born = Tally(t)]
           w == What("count", "spawn")
<1>1. o \in Deeds /\ Tally(t) = (IF oomp[t] THEN 1 ELSE 0)
        /\ events \in 0 .. MaxEvents
        /\ Life(elem, t, task[t], phase[t], probe[t], o)
  BY ActorFacts
<1>2. /\ phase[t] = "born" /\ phase' = [phase EXCEPT ![t] = "run"]
      /\ own' = [own EXCEPT ![t] = o2]
      /\ UNCHANGED <<allowed, task, oomp, events>> /\ Enter(t, w)
  BY DEF Born
<1>3. probe[t] = NoProbe /\ task[t] # "dead" /\ task[t] # "exiting"
        /\ o.born = 0
  BY <1>1, <1>2 DEF Life
<1>4. "spawn" \in Kinds
  BY KillerAssumption
<1>5. w.what = "count" /\ w.arg = "spawn" /\ Fits(w)
  BY <1>4 DEF Fits, What, Whats, Args
<1> HIDE DEF w, o
<1>6. o2.born = Tally(t) /\ o2 \in Deeds
  BY <1>1, DeedsFields DEF Deeds
<1>7. /\ o2.n = o.n /\ o2.fd = o.fd /\ o2.read = o.read /\ o2.sent = o.sent
      /\ o2.under = o.under /\ o2.late = o.late
  BY <1>1, DeedsFields
<1> HIDE DEF o2
<1>8. \A kk \in Kinds :
        Cnt(o2, kk) = Cnt(o, kk) + (IF oomp[t] THEN PendN(w, kk) ELSE 0)
  BY <1>1, <1>3, <1>4, <1>5, <1>6, <1>7, DeedsFields DEF Cnt, PendN
<1>9. Did(o, o2, w, oomp[t], task[t], phase[t], "run")
  BY <1>2, <1>3, <1>5, <1>1, <1>7, <1>8, DeedsFields
     DEF Did, PendRead, PendSent, PendFd
<1> QED
  BY <1>1, <1>2, <1>3, <1>5, <1>6, <1>7, <1>9, CallKeeps DEF o
-----------------------------------------------------------------------------
(* The rest of a probe program.                                            *)

(* The deeds after it: only a close that was not counted is remembered.    *)
Left(o, o2, p, i) ==
  /\ o2.n = o.n /\ o2.fd = o.fd /\ o2.read = o.read /\ o2.sent = o.sent
  /\ o2.op = o.op /\ o2.tcp = o.tcp /\ o2.born = o.born /\ o2.late = o.late
  /\ o2.under = IF p.what = "close" /\ i.fd = 0 THEN o.under + 1 ELSE o.under

LEMMA LeftCnt ==
  ASSUME NEW o, NEW o2, NEW p, NEW i, Left(o, o2, p, i)
  PROVE  \A k \in Kinds : Cnt(o2, k) = Cnt(o, k)
BY DEF Left, Cnt

(* The thread kept its entry: the probe program has charged what the       *)
(* thread did.                                                             *)
LEMMA ChargedOK ==
  ASSUME NEW m, NEW m2, NEW t, NEW tk, NEW x, NEW ph, NEW p, NEW tn, NEW tn2,
         NEW o \in Deeds, NEW o2 \in Deeds, Fits(p), p # NoProbe,
         ThreadOK(m, t, tk, x, ph, p, o, tn), Left(o, o2, p, m[p.at].info),
         Keyed(m, t) = {p.at}, Keyed(m2, t) = {p.at},
         m[p.at].info \in ProcInfo, m2[p.at].info \in ProcInfo,
         Books(m[p.at].info, p, m2[p.at].info),
         tn2 = tn \/ tn2 = "charged",
         \/ tn2 = "charged" \/ p.arg # "unread" \/ p.what # "xmit_enter"
         \/ m[p.at].info.tcp = o.tcp
  PROVE  ThreadOK(m2, t, tk, x, ph, NoProbe, o2, tn2)
<1> DEFINE i == m[p.at].info
           j == m2[p.at].info
<1>1. /\ i.n \in [Kinds -> Nat] /\ i.fd \in Nat /\ i.op \in {"dup", "other"}
      /\ i.read \in Nat /\ i.tcp \in BOOLEAN /\ i.sent \in Nat
  BY InfoIsNat
<1>2. /\ j.n \in [Kinds -> Nat] /\ j.fd \in Nat /\ j.op \in {"dup", "other"}
      /\ j.read \in Nat /\ j.tcp \in BOOLEAN /\ j.sent \in Nat
  BY InfoIsNat
<1>3. Left(o, o2, p, i) /\ Books(i, p, j)
  OBVIOUS
<1>4. /\ \A k \in Kinds : Cnt(o2, k) = Cnt(o, k) /\ Cnt(o, k) \in Nat
      /\ o2.sent = o.sent /\ o2.read = o.read /\ o2.fd = o.fd
      /\ o.sent \in Nat /\ o.read \in Nat /\ o.fd \in Int /\ o.under \in Nat
      /\ Net(o) \in Int /\ Net(o2) \in Int
  BY <1>3, LeftCnt, CntType DEF Left
<1>5. Life(m2, t, tk, ph, NoProbe, o2)
  BY <1>3 DEF Life, ThreadOK, Left
<1>6. /\ \A e \in Keyed(m2, t) : m2[e].info = j
      /\ \A e \in Keyed(m, t) : m[e].info = i
  OBVIOUS
<1>7. /\ \A k \in Kinds : PendN(p, k) \in {0, 1}
      /\ PendRead(p) \in Nat /\ PendSent(i, p) \in {0, 1}
      /\ PendFd(i, p) \in {-1, 0, 1}
      /\ PendFd(i, p) = -1 => p.what = "close"
      /\ p.what = "close" => PendFd(i, p) = -1
  BY PendType DEF PendFd
<1>8. tn2 # "charged" /\ p.what = "xmit_enter" /\ p.arg = "unread" =>
        i.tcp = o.tcp
  OBVIOUS
<1> HIDE DEF i, j
<1>9. /\ \A k \in Kinds : /\ i.n[k] + PendN(p, k) \in Nat
                           /\ j.n[k] = (i.n[k] + PendN(p, k)) % Width
      /\ i.sent + PendSent(i, p) \in Nat
      /\ j.sent = (i.sent + PendSent(i, p)) % Width
      /\ i.read + PendRead(p) \in Nat
      /\ j.read = (i.read + PendRead(p)) % Width
  BY <1>1, <1>3, <1>7 DEF Books
<1>10. \/ /\ p.what = "close" /\ i.fd = 0 /\ j.fd = 0
          /\ PendFd(i, p) = -1 /\ Net(o2) = Net(o) + 1
       \/ /\ ~(p.what = "close" /\ i.fd = 0)
          /\ i.fd + PendFd(i, p) \in Nat
          /\ j.fd = (i.fd + PendFd(i, p)) % Width /\ Net(o2) = Net(o)
  BY <1>1, <1>3, <1>4, <1>7 DEF Books, Left, Net
<1>11. ASSUME tk # "dead", tn2 # "charged"
       PROVE  Under(m2, t, x, ph, NoProbe, o2)
  <2>1. AtMost(i, p, o) /\ Between(m, t, x, ph, p, o)
    BY <1>6, <1>11 DEF ThreadOK, Under
  <2>2. j.fd <= Net(o2)
    <3>1. i.fd + PendFd(i, p) <= Net(o)
      BY <2>1 DEF AtMost
    <3>2. CASE p.what = "close" /\ i.fd = 0
      BY <1>4, <1>10, <3>1, <3>2
    <3>3. CASE ~(p.what = "close" /\ i.fd = 0)
      <4>1. j.fd <= i.fd + PendFd(i, p)
        BY <1>10, <3>3, CounterFacts
      <4> QED
        BY <1>2, <1>4, <1>10, <3>1, <3>3, <4>1
    <3> QED
      BY <3>2, <3>3
  <2>3. \A k \in Kinds : j.n[k] <= Cnt(o2, k)
    <3> TAKE k \in Kinds
    <3>1. j.n[k] <= i.n[k] + PendN(p, k)
      BY <1>9, CounterFacts
    <3>2. i.n[k] + PendN(p, k) <= Cnt(o2, k)
      BY <1>4, <2>1 DEF AtMost
    <3> QED
      BY <1>2, <1>4, <1>9, <3>1, <3>2
  <2>4. j.sent <= o2.sent
    <3>1. j.sent <= i.sent + PendSent(i, p)
      BY <1>9, CounterFacts
    <3>2. i.sent + PendSent(i, p) <= o2.sent
      BY <1>4, <2>1 DEF AtMost
    <3> QED
      BY <1>2, <1>4, <1>9, <3>1, <3>2
  <2>5. j.read <= o2.read
    <3>1. j.read <= i.read + PendRead(p)
      BY <1>9, CounterFacts
    <3>2. i.read + PendRead(p) <= o2.read
      BY <1>4, <2>1 DEF AtMost
    <3> QED
      BY <1>2, <1>4, <1>9, <3>1, <3>2
  <2>6. AtMost(j, NoProbe, o2)
    BY <1>2, <2>2, <2>3, <2>4, <2>5, NoProbePends DEF AtMost
  <2>7. Net(o2) >= 0
    BY <1>2, <1>4, <2>2
  <2>8. (p.what = "fcntl_enter" <=> ph = "fcntl")
          /\ (p.what = "xmit_enter" <=> ph = "xmit")
    BY DEF ThreadOK, Life
  <2>9. x /\ ph = "fcntl" => j.op = o2.op
    BY <1>3, <2>1, <2>8 DEF Between, Books, Left
  <2>10. x /\ ph = "xmit" => j.tcp = o2.tcp
    <3> SUFFICES ASSUME x, ph = "xmit" PROVE j.tcp = o2.tcp
      OBVIOUS
    <3>1. o2.tcp = o.tcp
      BY <1>3 DEF Left
    <3>2. CASE p.arg = "unread"
      <4>1. j.tcp = i.tcp
        BY <1>3, <3>2 DEF Books
      <4> QED
        BY <1>8, <1>11, <2>8, <3>1, <3>2, <4>1
    <3>3. CASE p.arg # "unread"
      <4>1. j.tcp = (p.arg = "tcp")
        BY <1>3, <2>8, <3>3 DEF Books
      <4>2. (p.arg = "tcp") = o.tcp
        BY <2>1, <3>3 DEF Between
      <4> QED
        BY <3>1, <4>1, <4>2
    <3> QED
      BY <3>2, <3>3
  <2>11. Between(m2, t, x, ph, NoProbe, o2)
    BY <1>6, <2>9, <2>10 DEF Between
  <2> QED
    BY <1>6, <2>6, <2>7, <2>11 DEF Under
<1>12. ASSUME tk = "alive", tn2 = "no"
       PROVE  Exact(m2, t, x, ph, NoProbe, o2)
  <2>1. AtLeast(i, p, o)
    BY <1>6, <1>12 DEF ThreadOK, Exact
  <2>2. \A k \in Kinds : Wraps(j.n[k], Cnt(o2, k))
    BY <1>4, <1>9, <2>1, WrapsMod DEF AtLeast
  <2>3. Wraps(j.sent, o2.sent) /\ Wraps(j.read, o2.read)
    BY <1>4, <1>9, <2>1, WrapsMod DEF AtLeast
  <2>4. Wraps(j.fd, Net(o2))
    <3>1. Wraps(i.fd + PendFd(i, p), Net(o))
      BY <2>1 DEF AtLeast
    <3>2. CASE p.what = "close" /\ i.fd = 0
      <4>1. Wraps(-1, Net(o)) /\ j.fd = 0 /\ Net(o2) = Net(o) + 1
        BY <1>10, <3>1, <3>2
      <4>2. Wraps(0, Net(o) + 1)
        BY <1>4, <4>1, WrapsUp
      <4> QED
        BY <4>1, <4>2
    <3>3. CASE ~(p.what = "close" /\ i.fd = 0)
      BY <1>4, <1>10, <3>1, <3>3, WrapsMod
    <3> QED
      BY <3>2, <3>3
  <2>5. AtLeast(j, NoProbe, o2)
    <3>1. /\ \A k \in Kinds : j.n[k] + PendN(NoProbe, k) = j.n[k]
          /\ j.sent + PendSent(j, NoProbe) = j.sent
          /\ j.read + PendRead(NoProbe) = j.read
          /\ j.fd + PendFd(j, NoProbe) = j.fd
      BY <1>2, NoProbePends
    <3> QED
      BY <2>2, <2>3, <2>4, <3>1 DEF AtLeast
  <2> QED
    BY <1>6, <2>5 DEF Exact, NoProbe
<1> QED
  BY <1>5, <1>11, <1>12 DEF ThreadOK

(* The probe program killed the process and removed the entry.             *)
LEMMA RemovedOK ==
  ASSUME NEW m, NEW m2, NEW t, NEW tk, NEW tk2, NEW x, NEW ph, NEW p, NEW tn,
         NEW o \in Deeds, NEW o2 \in Deeds, Fits(p), p # NoProbe,
         ThreadOK(m, t, tk, x, ph, p, o, tn), Left(o, o2, p, m[p.at].info),
         Keyed(m, t) = {p.at}, Keyed(m2, t) = {},
         m[p.at].info \in ProcInfo,
         ph # "fcntl", tk2 \notin {"alive", "dead"},
         tk2 = "exiting" => tk = "exiting"
  PROVE  ThreadOK(m2, t, tk2, x, ph, NoProbe, o2, tn)
<1> DEFINE i == m[p.at].info
<1>1. i.fd \in Nat
  BY InfoIsNat
<1>2. Life(m2, t, tk2, ph, NoProbe, o2)
  BY DEF Life, ThreadOK, Left
<1>3. ASSUME tn # "charged"
      PROVE  Under(m2, t, x, ph, NoProbe, o2)
  <2>1. tk # "dead"
    BY DEF Life, ThreadOK
  <2>2. AtMost(i, p, o)
    BY <1>3, <2>1 DEF ThreadOK, Under
  <2>3. Net(o2) >= 0
    <3>1. i.fd + PendFd(i, p) <= Net(o)
      BY <2>2 DEF AtMost
    <3>2. PendFd(i, p) \in {-1, 0, 1} /\ (PendFd(i, p) = -1 => p.what = "close")
      BY PendType
    <3>3. o.fd \in Int /\ o.under \in Nat /\ o2.fd = o.fd
          /\ o2.under = IF p.what = "close" /\ i.fd = 0 THEN o.under + 1
                        ELSE o.under
      BY CntType DEF Left
    <3> HIDE DEF i
    <3> QED
      BY <1>1, <3>1, <3>2, <3>3 DEF Net
  <2> QED
    BY <2>3 DEF Under, Between
<1> QED
  BY <1>2, <1>3 DEF ThreadOK

(* The thread had lost its entry.                                          *)
LEMMA StaleOK ==
  ASSUME NEW m, NEW m2, NEW t, NEW tk, NEW tk2, NEW x, NEW ph, NEW p, NEW tn,
         NEW o, NEW o2, NEW i, p # NoProbe,
         ThreadOK(m, t, tk, x, ph, p, o, tn), Left(o, o2, p, i),
         Keyed(m2, t) = {},
         tk2 # "dead", tk2 = "exiting" => tk = "exiting"
  PROVE  ThreadOK(m2, t, tk2, x, ph, NoProbe, o2, "charged")
BY DEF ThreadOK, Life, Left
LEMMA DeletedFacts ==
  ASSUME TypeOK, NEW t \in Threads,
         NEW m \in [Elems -> [key : Threads \cup {NoKey}, info : ProcInfo]]
  PROVE  /\ Deleted(m, t)
              \in [Elems -> [key : Threads \cup {NoKey}, info : ProcInfo]]
         /\ Keyed(Deleted(m, t), t) = {}
         /\ \A f \in Elems : m[f].key # t => Deleted(m, t)[f] = m[f]
         /\ \A f \in Elems : m[f].key = t => Deleted(m, t)[f].key = NoKey
<1> DEFINE D(f) == IF m[f].key # t THEN m[f]
                   ELSE [key |-> NoKey,
                         info |-> IF \E v \in Threads \ {t} : probe[v].at = f
                                  THEN m[f].info ELSE NewInfo]
<1>1. Deleted(m, t) = [f \in Elems |-> D(f)]
  BY DEF Deleted
<1>2. \A f \in Elems : D(f) \in [key : Threads \cup {NoKey}, info : ProcInfo]
  BY NewInfoType
<1>3. \A f \in Elems : m[f].key = t => D(f).key = NoKey
  OBVIOUS
<1>4. \A f \in Elems : m[f].key # t => D(f) = m[f]
  OBVIOUS
<1> HIDE DEF D
<1>5. NoKey # t
  BY KillerAssumption
<1>6. Keyed(Deleted(m, t), t) = {}
  BY <1>1, <1>3, <1>4, <1>5 DEF Keyed
<1> QED
  BY <1>1, <1>2, <1>3, <1>4, <1>6

(* What a probe program works on.                                          *)
LEMMA ProbeFacts ==
  ASSUME IInv, NEW t \in Threads, probe[t] # NoProbe
  PROVE  /\ probe[t] \in ProbeRun /\ probe[t].at \in Elems
         /\ elem[probe[t].at].info \in ProcInfo
         /\ Fits(probe[t])
         /\ Keyed(elem, t) \subseteq {probe[t].at}
         /\ task[t] # "dead"
<1>1. TypeOK /\ OK(t)
  BY DEF IInv
<1>2. probe[t] \in ProbeRun
  BY <1>1 DEF TypeOK
<1>3. probe[t].at \in Elems /\ elem[probe[t].at].info \in ProcInfo
  BY <1>1, <1>2 DEF TypeOK, ProbeRun
<1>4. Life(elem, t, task[t], phase[t], probe[t], own[t])
  BY <1>1 DEF OK, ThreadOK
<1>5. Fits(probe[t])
  BY <1>2, <1>4 DEF Fits, Life, ProbeRun
<1> QED
  BY <1>2, <1>3, <1>4, <1>5 DEF Life

LEMMA LeaveStep ==
  ASSUME IInv, NEW t \in Threads, Leave(t)
  PROVE  IInv'
<1> DEFINE p == probe[t]
           e == p.at
           i == elem[e].info
           j == Updated(i, p)
           m == [elem EXCEPT ![e].info = j]
           kill == p.can /\ Checks(i, p.what) /\ ShouldBeKilled(j)
           b == IF p.what = "close" /\ i.fd = 0 THEN own[t].under + 1
                ELSE own[t].under
           o2 == [own[t] EXCEPT !.under = b]
           Map == [Elems -> [key : Threads \cup {NoKey}, info : ProcInfo]]
<1>1. TypeOK /\ OK(t)
  BY DEF IInv
<1>2. p # NoProbe
  BY DEF Leave
<1>3. /\ e \in Elems /\ i \in ProcInfo /\ Fits(p)
      /\ Keyed(elem, t) \subseteq {e} /\ task[t] # "dead"
  BY <1>2, ProbeFacts
<1>4. j \in ProcInfo /\ Books(i, p, j)
  BY <1>3, UpdatedBooks
<1>5. /\ probe' = [probe EXCEPT ![t] = NoProbe]
      /\ elem' = (IF kill THEN Deleted(m, t) ELSE m)
      /\ task' = (IF kill THEN Killed(t) ELSE task)
      /\ taint' = [v \in Threads |->
                     IF elem[e].key # t /\ v \in {t, elem[e].key}
                     THEN "charged"
                     ELSE IF v = t THEN Mistaken(t, i) ELSE taint[v]]
      /\ UNCHANGED <<allowed, oomp, phase, events>>
  BY DEF Leave
<1>6. own' = [own EXCEPT ![t] = o2]
  <2>1. own' = [own EXCEPT ![t].under =
                  IF probe[t].what = "close" /\ i.fd = 0 THEN @ + 1 ELSE @]
    BY DEF Leave
  <2> QED
    BY <2>1
<1>7. /\ own \in [Threads -> Deeds] /\ elem \in Map
      /\ task \in [Threads -> {"dead", "alive", "doomed", "exiting"}]
      /\ probe \in [Threads -> ProbeRun \cup {NoProbe}]
      /\ taint \in [Threads -> {"no", "evicted", "charged"}]
      /\ own[t] \in Deeds
  BY <1>1 DEF TypeOK
<1>8. /\ b \in Nat
      /\ b = IF p.what = "close" /\ i.fd = 0 THEN own[t].under + 1
             ELSE own[t].under
  BY <1>7, DeedsFields
<1>9. /\ Mistaken(t, i) \in {taint[t], "charged"}
      /\ p.what # "xmit_enter" => Mistaken(t, i) = taint[t]
      /\ \/ Mistaken(t, i) = "charged" \/ p.arg # "unread"
         \/ p.what # "xmit_enter" \/ i.tcp = own[t].tcp
  BY DEF Mistaken
<1> HIDE DEF b, kill, i, j
<1>10. o2.under = b /\ o2 \in Deeds
  BY <1>7, <1>8, DeedsFields DEF Deeds
<1> HIDE DEF o2
<1>11. Left(own[t], o2, p, i)
  BY <1>7, <1>8, <1>10, DeedsFields DEF Left, o2
<1>12. own' \in [Threads -> Deeds] /\ own'[t] = o2
         /\ \A v \in Threads \ {t} : own'[v] = own[v]
  BY <1>6, <1>7, <1>10
<1>13. /\ m \in Map /\ m[e].info = j
       /\ \A f \in Elems : m[f].key = elem[f].key
       /\ \A f \in Elems \ {e} : m[f] = elem[f]
  BY <1>3, <1>4, <1>7
<1> HIDE DEF m, e, p
<1>14. /\ Deleted(m, t) \in Map
       /\ Keyed(Deleted(m, t), t) = {}
       /\ \A f \in Elems : m[f].key # t => Deleted(m, t)[f] = m[f]
       /\ \A f \in Elems : m[f].key = t => Deleted(m, t)[f].key = NoKey
  BY <1>1, <1>13, DeletedFacts
<1>15. /\ elem' \in Map
       /\ \A f \in Elems : m[f].key # t => elem'[f] = m[f]
       /\ \A f \in Elems : elem'[f].key = t => m[f].key = t
       /\ kill => Keyed(elem', t) = {}
       /\ ~kill => elem' = m
  BY <1>5, <1>13, <1>14, KillerAssumption
<1>16. /\ task' \in [Threads -> {"dead", "alive", "doomed", "exiting"}]
       /\ \A v \in Threads : \/ task'[v] = task[v]
                             \/ task[v] = "alive" /\ task'[v] = "doomed"
       /\ kill => task'[t] # "alive"
       /\ ~kill => task' = task
  BY <1>5, <1>7 DEF Killed
<1>17. /\ taint' \in [Threads -> {"no", "evicted", "charged"}]
       /\ \A v \in Threads \ {t} :
            taint'[v] = IF elem[e].key # t /\ v \in {t, elem[e].key}
                        THEN "charged" ELSE taint[v]
       /\ taint'[t] = IF elem[e].key # t THEN "charged" ELSE Mistaken(t, i)
  BY <1>5, <1>7, <1>9
<1>18. /\ probe' \in [Threads -> ProbeRun \cup {NoProbe}] /\ probe'[t] = NoProbe
       /\ \A v \in Threads \ {t} : probe'[v] = probe[v]
  BY <1>5, <1>7
<1>19. TypeOK'
  BY <1>1, <1>5, <1>12, <1>15, <1>16, <1>17, <1>18 DEF TypeOK
<1>20. ASSUME NEW v \in Threads, v # t
       PROVE  OK(v)'
  <2>1. /\ own'[v] = own[v] /\ probe'[v] = probe[v]
        /\ phase'[v] = phase[v] /\ oomp'[v] = oomp[v]
    BY <1>5, <1>12, <1>18, <1>20
  <2>2. \A f \in Elems : elem'[f].key = v => elem[f].key = v
    BY <1>13, <1>14, <1>5, <1>20, KillerAssumption
  <2>3. ASSUME NEW f \in Elems, elem[f].key = v
        PROVE  /\ elem'[f].key = v
               /\ elem'[f].info = elem[f].info \/ taint'[v] = "charged"
    <3>1. elem'[f] = m[f] /\ m[f].key = v
      BY <1>13, <1>15, <1>20, <2>3
    <3>2. CASE f = e
      <4>1. taint'[v] = "charged"
        BY <1>17, <1>20, <2>3, <3>2
      <4> QED
        BY <3>1, <4>1
    <3>3. CASE f # e
      BY <1>13, <3>1, <3>3
    <3> QED
      BY <3>2, <3>3
  <2>4. taint'[v] = taint[v] \/ taint'[v] = "charged"
    BY <1>17, <1>20
  <2>5. task'[v] = task[v] \/ (task[v] = "alive" /\ task'[v] = "doomed")
    BY <1>16
  <2>6. Bystander(v)
    BY <2>1, <2>2, <2>3, <2>4, <2>5 DEF Bystander
  <2> QED
    BY <2>6, BystanderOK DEF IInv
<1>21. ThreadOK(elem, t, task[t], oomp[t], phase[t], p, own[t], taint[t])
  BY <1>1 DEF OK, p
<1>22. task'[t] # "dead" /\ (task'[t] = "exiting" => task[t] = "exiting")
  BY <1>3, <1>16
<1>23. ThreadOK(elem', t, task'[t], oomp[t], phase[t], NoProbe, o2, taint'[t])
  <2>1. CASE elem[e].key # t
    <3>1. Keyed(elem, t) = {} /\ taint'[t] = "charged"
      BY <1>3, <1>17, <2>1 DEF Keyed
    <3>2. Keyed(elem', t) = {}
      BY <1>13, <1>15, <3>1 DEF Keyed
    <3> QED
      BY <1>2, <1>11, <1>21, <1>22, <3>1, <3>2, StaleOK DEF p
  <2>2. CASE elem[e].key = t /\ kill
    <3>1. Keyed(elem, t) = {e} /\ taint'[t] = taint[t]
      <4>1. p.what # "xmit_enter"
        BY <2>2 DEF kill, Checks
      <4> QED
        BY <1>3, <1>9, <1>17, <2>2, <4>1 DEF Keyed
    <3>2. Keyed(elem', t) = {} /\ task'[t] # "alive"
      BY <1>15, <1>16, <2>2
    <3>3. phase[t] # "fcntl"
      <4>1. p.what # "fcntl_enter"
        BY <2>2 DEF kill, Checks
      <4> QED
        BY <1>2, <1>21, <4>1 DEF ThreadOK, Life, p
    <3> QED
      BY <1>2, <1>3, <1>7, <1>10, <1>11, <1>21, <1>22, <3>1, <3>2, <3>3, RemovedOK
         DEF p, e, i
  <2>3. CASE elem[e].key = t /\ ~kill
    <3>1. /\ Keyed(elem, t) = {e}
          /\ taint'[t] = taint[t] \/ taint'[t] = "charged"
          /\ \/ taint'[t] = "charged" \/ p.arg # "unread"
             \/ p.what # "xmit_enter" \/ i.tcp = own[t].tcp
      BY <1>3, <1>9, <1>17, <2>3 DEF Keyed
    <3>2. elem' = m /\ task'[t] = task[t]
      BY <1>15, <1>16, <2>3
    <3>3. Keyed(elem', t) = {e} /\ elem'[e].info = j
      BY <1>13, <3>1, <3>2 DEF Keyed
    <3>4. ThreadOK(elem', t, task[t], oomp[t], phase[t], NoProbe, o2, taint'[t])
      BY <1>2, <1>3, <1>4, <1>7, <1>10, <1>11, <1>21, <3>1, <3>3, ChargedOK
         DEF p, e, i
    <3> QED
      BY <3>1, <3>2, <3>4
  <2> QED
    BY <2>1, <2>2, <2>3
<1>24. OK(t)'
  BY <1>5, <1>12, <1>18, <1>23 DEF OK
<1> QED
  BY <1>19, <1>20, <1>24 DEF IInv
-----------------------------------------------------------------------------
(* Threads come and go.                                                    *)

LEMMA NoDeedsFacts ==
  /\ NoDeeds \in Deeds
  /\ \A k \in Kinds : Cnt(NoDeeds, k) = 0
  /\ NoDeeds.sent = 0 /\ NoDeeds.read = 0 /\ NoDeeds.fd = 0
  /\ NoDeeds.born = 0 /\ NoDeeds.under = 0 /\ Net(NoDeeds) = 0
BY DEF NoDeeds, Deeds, Cnt, Net

(* A new life starts with nothing done, and no entry or a mark.            *)
LEMMA NewLifeOK ==
  ASSUME NEW m, NEW t, NEW x, NEW ph \in {"run", "born"}, NEW tn, NEW ph0,
         NEW p0, NEW o0,
         Life(m, t, "dead", ph0, p0, o0),
         tn = IF Keyed(m, t) # {} THEN "charged" ELSE "no"
  PROVE  /\ p0 = NoProbe
         /\ ThreadOK(m, t, "alive", x, ph, p0, NoDeeds, tn)
<1>1. p0 = NoProbe
  BY DEF Life
<1>2. Life(m, t, "alive", ph, NoProbe, NoDeeds)
  BY NoDeedsFacts DEF Life
<1>3. ASSUME Keyed(m, t) = {}
      PROVE  /\ Under(m, t, x, ph, NoProbe, NoDeeds)
             /\ Exact(m, t, x, ph, NoProbe, NoDeeds)
  BY <1>3, NoDeedsFacts DEF Under, Exact, Between, Nothing
<1> QED
  BY <1>1, <1>2, <1>3 DEF ThreadOK

LEMMA AppearStep ==
  ASSUME IInv, NEW t \in Threads, NEW named \in BOOLEAN, Appear(t, named)
  PROVE  IInv'
<1>1. TypeOK /\ OK(t)
  BY DEF IInv
<1>2. /\ task[t] = "dead"
      /\ task' = [task EXCEPT ![t] = "alive"]
      /\ oomp' = [oomp EXCEPT ![t] = named]
      /\ own' = [own EXCEPT ![t] = NoDeeds]
      /\ taint' = [taint EXCEPT ![t] = Inherited(t)]
      /\ UNCHANGED <<allowed, elem, phase, probe, events>>
  BY DEF Appear, NewLife
<1>3. Inherited(t) = IF Keyed(elem, t) # {} THEN "charged" ELSE "no"
  BY DEF Inherited, HasEntry, EntryOf, Keyed
<1>4. TypeOK'
  BY <1>1, <1>2, <1>3, NoDeedsFacts DEF TypeOK
<1>5. /\ task'[t] = "alive" /\ own'[t] = NoDeeds /\ taint'[t] = Inherited(t)
      /\ \A v \in Threads \ {t} : /\ task'[v] = task[v] /\ oomp'[v] = oomp[v]
                                  /\ own'[v] = own[v] /\ taint'[v] = taint[v]
  BY <1>1, <1>2 DEF TypeOK
<1>6. Life(elem, t, "dead", phase[t], probe[t], own[t]) /\ phase[t] = "run"
  BY <1>1, <1>2 DEF OK, ThreadOK, Life
<1>7. ThreadOK(elem, t, "alive", oomp'[t], phase[t], probe[t], NoDeeds, Inherited(t))
  BY <1>3, <1>6, NewLifeOK
<1>8. OK(t)'
  BY <1>2, <1>5, <1>7 DEF OK
<1>9. ASSUME NEW v \in Threads, v # t
      PROVE  OK(v)'
  <2>1. Bystander(v)
    BY <1>2, <1>5, <1>9 DEF Bystander
  <2> QED
    BY <2>1, BystanderOK DEF IInv
<1> QED
  BY <1>4, <1>8, <1>9 DEF IInv

LEMMA SpawnStep ==
  ASSUME IInv, NEW t \in Threads, NEW u \in Threads, Spawn(t, u)
  PROVE  IInv'
<1>1. TypeOK /\ OK(t) /\ OK(u)
  BY DEF IInv
<1>2. /\ task[t] = "alive" /\ phase[t] = "run" /\ probe[t] = NoProbe
      /\ events' \in 0 .. MaxEvents
  BY RunsFacts DEF Spawn
<1>3. /\ task[u] = "dead" /\ t # u
      /\ task' = [task EXCEPT ![u] = "alive"]
      /\ oomp' = [oomp EXCEPT ![u] = oomp[t]]
      /\ phase' = [phase EXCEPT ![t] = "clone", ![u] = "born"]
      /\ own' = [own EXCEPT ![u] = NoDeeds]
      /\ taint' = [taint EXCEPT ![u] = Inherited(u)]
      /\ UNCHANGED <<allowed, elem, probe>>
  BY <1>2 DEF Spawn, NewLife
<1>4. Inherited(u) = IF Keyed(elem, u) # {} THEN "charged" ELSE "no"
  BY DEF Inherited, HasEntry, EntryOf, Keyed
<1>5. TypeOK'
  BY <1>1, <1>2, <1>3, <1>4, NoDeedsFacts DEF TypeOK
<1>6. /\ task'[u] = "alive" /\ own'[u] = NoDeeds /\ taint'[u] = Inherited(u)
      /\ phase'[t] = "clone" /\ phase'[u] = "born"
      /\ \A v \in Threads \ {u} : /\ task'[v] = task[v] /\ oomp'[v] = oomp[v]
                                  /\ own'[v] = own[v] /\ taint'[v] = taint[v]
      /\ \A v \in Threads \ {t, u} : phase'[v] = phase[v]
  BY <1>1, <1>3 DEF TypeOK
<1>7. Life(elem, u, "dead", phase[u], probe[u], own[u])
  BY <1>1, <1>3 DEF OK, ThreadOK
<1>8. ThreadOK(elem, u, "alive", oomp'[u], "born", probe[u], NoDeeds, Inherited(u))
  BY <1>4, <1>7, NewLifeOK
<1>9. OK(u)'
  BY <1>3, <1>6, <1>8 DEF OK
<1>10. OK(t)'
  <2>1. ThreadOK(elem, t, "alive", oomp[t], "run", NoProbe, own[t], taint[t])
    BY <1>1, <1>2 DEF OK
  <2>2. ThreadOK(elem, t, "alive", oomp[t], "clone", NoProbe, own[t], taint[t])
    BY <2>1 DEF ThreadOK, Life, Under, Between, Exact
  <2> QED
    BY <1>2, <1>3, <1>6, <2>2 DEF OK
<1>11. ASSUME NEW v \in Threads, v # t, v # u
       PROVE  OK(v)'
  <2>1. Bystander(v)
    BY <1>3, <1>6, <1>11 DEF Bystander
  <2> QED
    BY <2>1, BystanderOK DEF IInv
<1> QED
  BY <1>5, <1>9, <1>10, <1>11 DEF IInv

LEMMA RenameStep ==
  ASSUME IInv, NEW t \in Threads, Rename(t)
  PROVE  IInv'
<1> DEFINE tn2 == IF ~oomp[t] /\ phase[t] \in {"fcntl", "xmit"}
                  THEN "charged" ELSE taint[t]
<1>1. TypeOK /\ OK(t)
  BY DEF IInv
<1>2. /\ events < MaxEvents /\ events' = events + 1
      /\ oomp' = [oomp EXCEPT ![t] = ~@]
      /\ taint' = [taint EXCEPT ![t] = tn2]
      /\ UNCHANGED <<allowed, elem, task, phase, probe, own>>
  BY DEF Rename
<1>3. TypeOK'
  BY <1>1, <1>2, KillerAssumption DEF TypeOK
<1>4. /\ oomp'[t] = ~oomp[t] /\ taint'[t] = tn2
      /\ \A v \in Threads \ {t} : oomp'[v] = oomp[v] /\ taint'[v] = taint[v]
  BY <1>1, <1>2 DEF TypeOK
<1>5. ThreadOK(elem, t, task[t], oomp[t], phase[t], probe[t], own[t], taint[t])
  BY <1>1 DEF OK
<1>6. oomp[t] => ~oomp'[t]
  BY <1>4
<1>7. \/ taint'[t] = "charged"
      \/ taint'[t] = taint[t] /\ (oomp'[t] => phase[t] \notin {"fcntl", "xmit"})
  BY <1>4, <1>6
<1> HIDE DEF tn2
<1>8. ThreadOK(elem, t, task[t], oomp'[t], phase[t], probe[t], own[t], taint'[t])
  <2>1. CASE taint'[t] = "charged"
    BY <1>5, <2>1 DEF ThreadOK
  <2>2. CASE /\ taint'[t] = taint[t]
             /\ oomp'[t] => phase[t] \notin {"fcntl", "xmit"}
    BY <1>5, <2>2 DEF ThreadOK, Under, Between, Exact
  <2> QED
    BY <1>7, <2>1, <2>2
<1>9. OK(t)'
  BY <1>2, <1>8 DEF OK
<1>10. ASSUME NEW v \in Threads, v # t
       PROVE  OK(v)'
  <2>1. Bystander(v)
    BY <1>2, <1>4, <1>10 DEF Bystander
  <2> QED
    BY <2>1, BystanderOK DEF IInv
<1> QED
  BY <1>3, <1>9, <1>10 DEF IInv

LEMMA ExitStep ==
  ASSUME IInv, NEW t \in Threads, Exit(t)
  PROVE  IInv'
<1> DEFINE o2 == [own[t] EXCEPT !.late = ~oomp[t]]
<1>1. TypeOK /\ OK(t)
  BY DEF IInv
<1>2. /\ task[t] \in {"alive", "doomed"}
      /\ phase[t] = "run" /\ probe[t] = NoProbe
      /\ task' = [task EXCEPT ![t] = "exiting"]
      /\ elem' = IF oomp[t] THEN Deleted(elem, t) ELSE elem
      /\ own' = [own EXCEPT ![t] = o2]
      /\ UNCHANGED <<allowed, oomp, phase, probe, taint, events>>
  BY DEF Exit
<1>3. /\ elem \in [Elems -> [key : Threads \cup {NoKey}, info : ProcInfo]]
      /\ own \in [Threads -> Deeds] /\ own[t] \in Deeds
      /\ oomp[t] \in BOOLEAN
      /\ task \in [Threads -> {"dead", "alive", "doomed", "exiting"}]
  BY <1>1 DEF TypeOK
<1>4. /\ o2 \in Deeds /\ o2.late = ~oomp[t]
      /\ o2.n = own[t].n /\ o2.born = own[t].born /\ o2.fd = own[t].fd
      /\ o2.read = own[t].read /\ o2.sent = own[t].sent
      /\ o2.under = own[t].under /\ Net(o2) = Net(own[t])
  BY <1>3, DeedsFields DEF Deeds, Net
<1> HIDE DEF o2
<1>5. /\ Deleted(elem, t)
           \in [Elems -> [key : Threads \cup {NoKey}, info : ProcInfo]]
      /\ Keyed(Deleted(elem, t), t) = {}
      /\ \A f \in Elems : elem[f].key # t => Deleted(elem, t)[f] = elem[f]
      /\ \A f \in Elems : elem[f].key = t => Deleted(elem, t)[f].key = NoKey
  BY <1>1, <1>3, DeletedFacts
<1>6. TypeOK'
  BY <1>1, <1>2, <1>3, <1>4, <1>5 DEF TypeOK
<1>7. /\ task'[t] = "exiting" /\ own'[t] = o2
      /\ \A v \in Threads \ {t} : task'[v] = task[v] /\ own'[v] = own[v]
  BY <1>2, <1>3
<1>8. ThreadOK(elem, t, task[t], oomp[t], "run", NoProbe, own[t], taint[t])
  BY <1>1, <1>2 DEF OK
<1>9. \A k \in Kinds : Cnt(o2, k) = Cnt(own[t], k)
  BY <1>4 DEF Cnt
<1>10. Keyed(elem', t) = {} \/ (elem' = elem /\ o2.late)
  BY <1>2, <1>3, <1>4, <1>5
<1>11. Life(elem', t, "exiting", "run", NoProbe, o2)
  BY <1>8, <1>10 DEF ThreadOK, Life
<1>12. ASSUME taint[t] # "charged"
       PROVE  Under(elem', t, oomp[t], "run", NoProbe, o2)
  <2>1. Under(elem, t, oomp[t], "run", NoProbe, own[t])
    BY <1>2, <1>8, <1>12 DEF ThreadOK
  <2> QED
    BY <1>4, <1>9, <1>10, <2>1 DEF Under, Between, AtMost
<1>13. OK(t)'
  BY <1>2, <1>7, <1>11, <1>12 DEF OK, ThreadOK
<1>14. ASSUME NEW v \in Threads, v # t
       PROVE  OK(v)'
  <2>1. \A f \in Elems : elem[f].key # t => elem'[f] = elem[f]
    BY <1>2, <1>5
  <2>2. \A f \in Elems : elem[f].key = t => elem'[f].key # v
    BY <1>2, <1>5, <1>14, KillerAssumption
  <2>3. Bystander(v)
    BY <1>2, <1>7, <1>14, <2>1, <2>2 DEF Bystander
  <2> QED
    BY <2>3, BystanderOK DEF IInv
<1> QED
  BY <1>6, <1>13, <1>14 DEF IInv

LEMMA GoneStep ==
  ASSUME IInv, NEW t \in Threads, Gone(t)
  PROVE  IInv'
<1> DEFINE o2 == [NoDeeds EXCEPT !.late = own[t].late]
<1>1. TypeOK /\ OK(t)
  BY DEF IInv
<1>2. /\ task[t] = "exiting" /\ phase[t] = "run" /\ probe[t] = NoProbe
      /\ task' = [task EXCEPT ![t] = "dead"]
      /\ oomp' = [oomp EXCEPT ![t] = FALSE]
      /\ own' = [own EXCEPT ![t] = o2]
      /\ taint' = [taint EXCEPT ![t] = "no"]
      /\ UNCHANGED <<allowed, elem, phase, probe, events>>
  BY DEF Gone
<1>3. own[t] \in Deeds
  BY <1>1 DEF TypeOK
<1>4. o2 \in Deeds /\ o2.late = own[t].late
  <2>1. own[t].late \in BOOLEAN
    BY <1>3, DeedsFields
  <2>2. NoDeeds \in Deeds
    BY NoDeedsFacts
  <2> QED
    BY <2>1, <2>2, DeedsFields DEF Deeds
<1> HIDE DEF o2
<1>5. TypeOK'
  BY <1>1, <1>2, <1>4 DEF TypeOK
<1>6. /\ task'[t] = "dead" /\ own'[t] = o2
      /\ \A v \in Threads \ {t} : /\ task'[v] = task[v] /\ oomp'[v] = oomp[v]
                                  /\ own'[v] = own[v] /\ taint'[v] = taint[v]
  BY <1>1, <1>2 DEF TypeOK
<1>7. Life(elem, t, "exiting", "run", NoProbe, own[t])
  BY <1>1, <1>2 DEF OK, ThreadOK
<1>8. Life(elem, t, "dead", "run", NoProbe, o2)
  BY <1>4, <1>7 DEF Life
<1>9. OK(t)'
  BY <1>2, <1>6, <1>8 DEF OK, ThreadOK
<1>10. ASSUME NEW v \in Threads, v # t
       PROVE  OK(v)'
  <2>1. Bystander(v)
    BY <1>2, <1>6, <1>10 DEF Bystander
  <2> QED
    BY <2>1, BystanderOK DEF IInv
<1> QED
  BY <1>5, <1>9, <1>10 DEF IInv
-----------------------------------------------------------------------------
(* The inductive invariant.                                                *)

LEMMA InitOK == Init => IInv
<1> SUFFICES ASSUME Init PROVE IInv
  OBVIOUS
<1>1. TypeOK
  <2>1. 0 \in 0 .. MaxEvents
    BY KillerAssumption
  <2>2. elem \in [Elems -> [key : Threads \cup {NoKey}, info : ProcInfo]]
    BY NewInfoType DEF Init
  <2>3. own \in [Threads -> Deeds]
    BY NoDeedsFacts DEF Init
  <2> QED
    BY <2>1, <2>2, <2>3 DEF Init, TypeOK
<1>2. ASSUME NEW t \in Threads
      PROVE  OK(t)
  <2>1. /\ task[t] = "dead" /\ phase[t] = "run" /\ probe[t] = NoProbe
        /\ own[t] = NoDeeds
    BY DEF Init
  <2>2. \A e \in Elems : elem[e].key = NoKey
    BY DEF Init
  <2>3. Keyed(elem, t) = {}
    BY <2>2, KillerAssumption DEF Keyed
  <2> QED
    BY <2>1, <2>3, NoDeedsFacts DEF OK, ThreadOK, Life
<1> QED
  BY <1>1, <1>2 DEF IInv

LEMMA Inductive == IInv /\ [Next]_vars => IInv'
<1> SUFFICES ASSUME IInv, [Next]_vars PROVE IInv'
  OBVIOUS
<1>1. CASE UNCHANGED vars
  BY <1>1 DEF vars, IInv, TypeOK, OK
<1>2. CASE Sample
  <2>1. TypeOK'
    BY <1>2 DEF Sample, IInv, TypeOK
  <2>2. \A t \in Threads : OK(t)'
    BY <1>2 DEF Sample, IInv, OK
  <2> QED
    BY <2>1, <2>2 DEF IInv
<1>3. ASSUME NEW t \in Threads, ThreadStep(t)
      PROVE  IInv'
  BY <1>3, CallStep, CallFailsStep, OpenFdStep, CloseFdStep, ReadBytesStep,
     FcntlEnterStep, FcntlExitStep, XmitEnterStep, XmitExitStep, SpawnStep,
     CloneReturnsStep, BornStep, LeaveStep
     DEF ThreadStep
<1>4. ASSUME NEW t \in Threads,
             \/ \E named \in BOOLEAN : Appear(t, named)
             \/ Rename(t) \/ Exit(t) \/ Gone(t)
      PROVE  IInv'
  BY <1>4, AppearStep, RenameStep, ExitStep, GoneStep
<1> QED
  BY <1>1, <1>2, <1>3, <1>4 DEF Next

LEMMA IInvHolds == Spec => []IInv
BY InitOK, Inductive, PTL DEF Spec

-----------------------------------------------------------------------------
(* What it shows.                                                          *)

(* The variables of the OOM killer have their types: no counter of a       *)
(* struct proc_info gets below 0 or past 2^32 - 1 (the fd counter is only  *)
(* taken down when it is above 0, oomk.bpf.c:494).                         *)
THEOREM KillerTypes == Spec => []TypeOK
<1>1. IInv => TypeOK
  BY DEF IInv
<1> QED
  BY <1>1, IInvHolds, PTL

LEMMA CountIsCnt ==
  ASSUME NEW t, NEW k
  PROVE  Count(t, k) = Cnt(own[t], k)
BY DEF Count, Cnt

LEMMA FdIsNet ==
  ASSUME NEW t
  PROVE  Fd(t) = Net(own[t])
BY DEF Fd, Net

LEMMA EntryIsKeyed ==
  ASSUME NEW t
  PROVE  EntryOf(t) = Keyed(elem, t) /\ (HasEntry(t) <=> Keyed(elem, t) # {})
BY DEF EntryOf, Keyed, HasEntry

LEMMA ExactNow ==
  ASSUME IInv, NEW t \in Threads, Quiet(t), taint[t] = "no"
  PROVE  /\ \A e \in Keyed(elem, t) :
              AtMost(elem[e].info, NoProbe, own[t])
              /\ AtLeast(elem[e].info, NoProbe, own[t])
         /\ Keyed(elem, t) = {} => Nothing(own[t])
BY DEF IInv, OK, ThreadOK, Quiet, Under, Exact

(* Between two probes the entry of a thread that never lost it says what   *)
(* the thread has done, modulo 2^32, and a thread without an entry has     *)
(* done nothing (the handlers of oomk.bpf.c charge every call once, to the *)
(* thread that made it).                                                   *)
THEOREM AccountsAreExact == Spec => []AccountingExact
<1>1. IInv => AccountingExact
  <2> SUFFICES ASSUME IInv, NEW t \in Threads, Quiet(t), taint[t] = "no"
               PROVE  /\ \A e \in EntryOf(t) :
                           LET i == elem[e].info
                           IN  /\ \A k \in Kinds : i.n[k] = Count(t, k) % Width
                               /\ i.sent = own[t].sent % Width
                               /\ i.read = own[t].read % Width
                               /\ i.fd = Fd(t) % Width
                      /\ ~HasEntry(t) =>
                           /\ \A k \in Kinds : Count(t, k) = 0
                           /\ own[t].sent = 0 /\ own[t].read = 0
                           /\ own[t].fd = 0 /\ own[t].under = 0
    BY DEF AccountingExact
  <2>1. own[t] \in Deeds
        /\ elem \in [Elems -> [key : Threads \cup {NoKey}, info : ProcInfo]]
    BY DEF IInv, TypeOK
  <2>2. ~HasEntry(t) => Nothing(own[t])
    BY ExactNow, EntryIsKeyed
  <2>3. ASSUME NEW e \in EntryOf(t)
        PROVE  LET i == elem[e].info
               IN  /\ \A k \in Kinds : i.n[k] = Count(t, k) % Width
                   /\ i.sent = own[t].sent % Width
                   /\ i.read = own[t].read % Width
                   /\ i.fd = Fd(t) % Width
    <3> DEFINE i == elem[e].info
               o == own[t]
    <3>1. AtLeast(i, NoProbe, o)
      BY ExactNow, EntryIsKeyed
    <3>2. i \in ProcInfo
      BY <2>1 DEF EntryOf
    <3>3. o \in Deeds
      BY <2>1
    <3>4. Fd(t) = Net(o) /\ \A k \in Kinds : Count(t, k) = Cnt(o, k)
      BY CountIsCnt, FdIsNet
    <3> HIDE DEF i, o
    <3>5. /\ i.n \in [Kinds -> Counter] /\ i.fd \in Counter
          /\ i.sent \in Counter /\ i.read \in Counter
      BY <3>2, InfoFields
    <3>6. /\ \A k \in Kinds : i.n[k] + PendN(NoProbe, k) = i.n[k]
          /\ i.sent + PendSent(i, NoProbe) = i.sent
          /\ i.read + PendRead(NoProbe) = i.read
          /\ i.fd + PendFd(i, NoProbe) = i.fd
      BY <3>2, InfoIsNat, NoProbePends
    <3>7. /\ \A k \in Kinds : Wraps(i.n[k], Cnt(o, k)) /\ Cnt(o, k) \in Int
          /\ Wraps(i.sent, o.sent) /\ Wraps(i.read, o.read)
          /\ Wraps(i.fd, Net(o))
          /\ o.sent \in Int /\ o.read \in Int /\ Net(o) \in Int
      BY <3>1, <3>3, <3>6, CntType DEF AtLeast
    <3>8. \A k \in Kinds : i.n[k] = Cnt(o, k) % Width
      BY <3>5, <3>7, WrapsExact
    <3>9. i.sent = o.sent % Width /\ i.read = o.read % Width
          /\ i.fd = Net(o) % Width
      BY <3>5, <3>7, WrapsExact
    <3> QED
      BY <3>4, <3>8, <3>9 DEF i, o
  <2> QED
    BY <2>2, <2>3, CountIsCnt DEF Nothing
<1> QED
  BY <1>1, IInvHolds, PTL

(* A thread that lost its entry to the LRU list of state_map is charged    *)
(* too little, never too much.                                             *)
THEOREM EvictionUndercharges == Spec => []NeverOvercharged
<1>1. IInv => NeverOvercharged
  <2> SUFFICES ASSUME IInv, NEW t \in Threads, Quiet(t), taint[t] = "evicted",
                      NEW e \in EntryOf(t)
               PROVE  LET i == elem[e].info
                      IN  /\ \A k \in Kinds : i.n[k] <= Count(t, k)
                          /\ i.sent <= own[t].sent
                          /\ i.read <= own[t].read
                          /\ i.fd <= Fd(t)
    BY DEF NeverOvercharged
  <2>1. AtMost(elem[e].info, NoProbe, own[t])
    BY EntryIsKeyed DEF IInv, OK, ThreadOK, Quiet, Under
  <2>2. elem[e].info \in ProcInfo
    BY DEF IInv, TypeOK, EntryOf
  <2>3. LET i == elem[e].info
        IN  i.n \in [Kinds -> Nat] /\ i.fd \in Nat /\ i.sent \in Nat /\ i.read \in Nat
    BY <2>2, InfoIsNat
  <2> QED
    BY <2>1, <2>3, NoProbePends, CountIsCnt, FdIsNet DEF AtMost
<1> QED
  BY <1>1, IInvHolds, PTL

(* No entry outlives its thread, but for the two exceptions the property   *)
(* names (check_if_proc_exited in oomk.bpf.c).                             *)
THEOREM TheDeadAreForgotten == Spec => []DeadForgotten
<1>1. IInv => DeadForgotten
  BY EntryIsKeyed DEF IInv, OK, ThreadOK, Life, DeadForgotten
<1> QED
  BY <1>1, IInvHolds, PTL
-----------------------------------------------------------------------------
(* Killing.                                                                *)

(* Whether the rest of the probe program of t kills.                       *)
Kills(t) ==
  LET i == elem[probe[t].at].info
  IN  /\ probe[t].can /\ Checks(i, probe[t].what)
      /\ ShouldBeKilled(Updated(i, probe[t]))

LEMMA LeaveFacts ==
  ASSUME IInv, NEW t \in Threads, Leave(t)
  PROVE  LET e == probe[t].at
             i == elem[e].info
         IN  /\ probe[t] # NoProbe /\ Fits(probe[t]) /\ task[t] # "dead"
             /\ e \in Elems /\ i \in ProcInfo
             /\ Updated(i, probe[t]) \in ProcInfo
             /\ Books(i, probe[t], Updated(i, probe[t]))
             /\ task' = IF Kills(t) THEN Killed(t) ELSE task
             /\ elem[e].key # t => taint'[t] = "charged"
             /\ elem[e].key = t =>
                  /\ taint'[t] = taint[t] \/ taint'[t] = "charged"
                  /\ e \in Keyed(elem, t)
<1> DEFINE e == probe[t].at
           i == elem[e].info
<1>1. probe[t] # NoProbe
  BY DEF Leave
<1>2. /\ e \in Elems /\ i \in ProcInfo /\ Fits(probe[t]) /\ task[t] # "dead"
  BY <1>1, ProbeFacts
<1>3. Updated(i, probe[t]) \in ProcInfo /\ Books(i, probe[t], Updated(i, probe[t]))
  BY <1>2, UpdatedBooks
<1>4. task' = IF Kills(t) THEN Killed(t) ELSE task
  BY DEF Leave, Kills
<1>5. taint'[t] = IF elem[e].key # t /\ t \in {t, elem[e].key}
                  THEN "charged" ELSE Mistaken(t, i)
  BY DEF Leave
<1>6. Mistaken(t, i) = taint[t] \/ Mistaken(t, i) = "charged"
  BY DEF Mistaken
<1> QED
  BY <1>1, <1>2, <1>3, <1>4, <1>5, <1>6 DEF Keyed

(* What the probe program leaves in the entry is no more than what was     *)
(* done, ...                                                               *)
LEMMA BooksAtMost ==
  ASSUME NEW i \in ProcInfo, NEW j \in ProcInfo, NEW p, Fits(p),
         NEW o \in Deeds, Books(i, p, j), AtMost(i, p, o)
  PROVE  /\ \A k \in Kinds : j.n[k] <= Cnt(o, k)
         /\ j.sent <= o.sent /\ j.read <= o.read
         /\ j.fd <= Net(o) \/ j.fd = 0
<1>1. /\ i.n \in [Kinds -> Nat] /\ i.fd \in Nat /\ i.sent \in Nat
      /\ i.read \in Nat
      /\ j.n \in [Kinds -> Nat] /\ j.fd \in Nat /\ j.sent \in Nat
      /\ j.read \in Nat
  BY InfoIsNat
<1>2. /\ \A k \in Kinds : PendN(p, k) \in {0, 1}
      /\ PendRead(p) \in Nat /\ PendSent(i, p) \in {0, 1}
      /\ PendFd(i, p) \in {-1, 0, 1}
      /\ PendFd(i, p) = -1 => p.what = "close"
  BY PendType
<1>3. /\ \A k \in Kinds : Cnt(o, k) \in Nat
      /\ o.sent \in Nat /\ o.read \in Nat /\ Net(o) \in Int
  BY CntType
<1>4. \A k \in Kinds : j.n[k] <= Cnt(o, k)
  <2> TAKE k \in Kinds
  <2>1. i.n[k] + PendN(p, k) \in Nat
    BY <1>1, <1>2
  <2>2. j.n[k] <= i.n[k] + PendN(p, k)
    BY <2>1, CounterFacts DEF Books
  <2>3. i.n[k] + PendN(p, k) <= Cnt(o, k)
    BY DEF AtMost
  <2> QED
    BY <1>1, <1>3, <2>1, <2>2, <2>3
<1>5. j.sent <= o.sent
  <2>1. i.sent + PendSent(i, p) \in Nat
    BY <1>1, <1>2
  <2>2. j.sent <= i.sent + PendSent(i, p)
    BY <2>1, CounterFacts DEF Books
  <2>3. i.sent + PendSent(i, p) <= o.sent
    BY DEF AtMost
  <2> QED
    BY <1>1, <1>3, <2>1, <2>2, <2>3
<1>6. j.read <= o.read
  <2>1. i.read + PendRead(p) \in Nat
    BY <1>1, <1>2
  <2>2. j.read <= i.read + PendRead(p)
    BY <2>1, CounterFacts DEF Books
  <2>3. i.read + PendRead(p) <= o.read
    BY DEF AtMost
  <2> QED
    BY <1>1, <1>3, <2>1, <2>2, <2>3
<1>7. CASE p.what = "close" /\ i.fd = 0
  BY <1>4, <1>5, <1>6, <1>7 DEF Books
<1>8. CASE ~(p.what = "close" /\ i.fd = 0)
  <2>1. i.fd + PendFd(i, p) \in Nat
    BY <1>1, <1>2, <1>8
  <2>2. j.fd <= i.fd + PendFd(i, p)
    BY <1>8, <2>1, CounterFacts DEF Books
  <2>3. i.fd + PendFd(i, p) <= Net(o)
    BY DEF AtMost
  <2>4. j.fd <= Net(o)
    BY <1>1, <1>3, <2>1, <2>2, <2>3
  <2> QED
    BY <1>4, <1>5, <1>6, <2>4
<1> QED
  BY <1>7, <1>8

(* ... and, if the thread never lost its entry, what is left of that       *)
(* modulo Width.                                                           *)
LEMMA BooksExact ==
  ASSUME NEW i \in ProcInfo, NEW j \in ProcInfo, NEW p, Fits(p),
         NEW o \in Deeds, Books(i, p, j), AtLeast(i, p, o),
         p.what # "close"
  PROVE  /\ \A k \in Kinds : j.n[k] = Cnt(o, k) % Width
         /\ j.sent = o.sent % Width /\ j.read = o.read % Width
         /\ j.fd = Net(o) % Width
<1>1. /\ i.n \in [Kinds -> Nat] /\ i.fd \in Nat /\ i.sent \in Nat
      /\ i.read \in Nat
  BY InfoIsNat
<1>2. /\ j.n \in [Kinds -> Counter] /\ j.fd \in Counter /\ j.sent \in Counter
      /\ j.read \in Counter
  BY InfoFields
<1>3. /\ \A k \in Kinds : PendN(p, k) \in {0, 1}
      /\ PendRead(p) \in Nat /\ PendSent(i, p) \in {0, 1}
      /\ PendFd(i, p) \in {0, 1}
  BY PendType
<1>4. /\ \A k \in Kinds : Cnt(o, k) \in Int
      /\ o.sent \in Int /\ o.read \in Int /\ Net(o) \in Int
  BY CntType
<1>5. /\ \A k \in Kinds : i.n[k] + PendN(p, k) \in Nat
      /\ i.sent + PendSent(i, p) \in Nat /\ i.read + PendRead(p) \in Nat
      /\ i.fd + PendFd(i, p) \in Nat
  BY <1>1, <1>3
<1>6. \A k \in Kinds : j.n[k] = Cnt(o, k) % Width
  <2> TAKE k \in Kinds
  <2>1. Wraps(j.n[k], Cnt(o, k))
    BY <1>4, <1>5, WrapsMod DEF Books, AtLeast
  <2> QED
    BY <1>2, <1>4, <2>1, WrapsExact
<1>7. Wraps(j.sent, o.sent) /\ Wraps(j.read, o.read) /\ Wraps(j.fd, Net(o))
  BY <1>4, <1>5, WrapsMod DEF Books, AtLeast
<1>8. j.sent = o.sent % Width /\ j.read = o.read % Width
      /\ j.fd = Net(o) % Width
  BY <1>2, <1>4, <1>7, WrapsExact
<1> QED
  BY <1>6, <1>8

(* Only a probe program kills.                                             *)
LEMMA DoomedByLeave ==
  ASSUME IInv, [Next]_vars, NEW t \in Threads,
         task[t] = "alive", task'[t] = "doomed"
  PROVE  \E u \in Threads : Leave(u)
<1> SUFFICES ASSUME \A u \in Threads : ~Leave(u) PROVE FALSE
  OBVIOUS
<1>1. task \in [Threads -> {"dead", "alive", "doomed", "exiting"}]
  BY DEF IInv, TypeOK
<1>2. task' # task
  OBVIOUS
<1>3. PICK u \in Threads :
        \/ \E v \in Threads : Spawn(u, v)
        \/ \E named \in BOOLEAN : Appear(u, named)
        \/ Exit(u) \/ Gone(u)
  BY <1>2 DEF vars, Next, Sample, ThreadStep, Call, CallFails, OpenFd,
              CloseFd, ReadBytes, FcntlEnter, FcntlExit, XmitEnter, XmitExit,
              CloneReturns, Born, Rename
<1>4. \E v \in Threads, s \in {"alive", "exiting", "dead"} :
        task' = [task EXCEPT ![v] = s]
  BY <1>3 DEF Spawn, Appear, Exit, Gone
<1> QED
  BY <1>1, <1>4

(* A process is killed only for what one of its threads has done, after a  *)
(* sample that allowed it, or through an entry that is wrong in one of the *)
(* ways KillJustified lists (proc_should_be_killed and bpf_send_signal in  *)
(* oomk.bpf.c); closes that were not counted excuse no kill.               *)
THEOREM KillsAreJustified == Spec => KillJustified
<1> DEFINE Justified ==
      \A t \in Threads : task[t] = "alive" /\ task'[t] = "doomed" =>
        \E u \in Threads :
          /\ ProcOf[u] = ProcOf[t]
          /\ probe[u].can
          /\ Over(u) \/ taint'[u] = "charged"
<1>1. IInv /\ [Next]_vars => [Justified]_vars
  <2> SUFFICES ASSUME IInv, [Next]_vars, NEW t \in Threads,
                      task[t] = "alive", task'[t] = "doomed"
               PROVE  \E u \in Threads : /\ ProcOf[u] = ProcOf[t]
                                         /\ probe[u].can
                                         /\ Over(u) \/ taint'[u] = "charged"
    OBVIOUS
  <2>1. PICK u \in Threads : Leave(u)
    BY DoomedByLeave
  <2> DEFINE p == probe[u]
             e == p.at
             i == elem[e].info
             j == Updated(i, p)
             o == own[u]
  <2>2. /\ p # NoProbe /\ Fits(p) /\ task[u] # "dead"
        /\ i \in ProcInfo /\ j \in ProcInfo /\ Books(i, p, j)
        /\ task' = IF Kills(u) THEN Killed(u) ELSE task
        /\ elem[e].key # u => taint'[u] = "charged"
        /\ elem[e].key = u =>
             /\ taint'[u] = taint[u] \/ taint'[u] = "charged"
             /\ e \in Keyed(elem, u)
    BY <2>1, LeaveFacts
  <2>3. Kills(u) /\ ProcOf[u] = ProcOf[t]
    BY <2>2 DEF Killed
  <2>4. p.can /\ ShouldBeKilled(j)
    BY <2>3 DEF Kills
  <2>5. ASSUME taint'[u] # "charged"
        PROVE  Over(u)
    <3>1. OK(u) /\ own[u] \in Deeds
      BY DEF IInv, TypeOK
    <3>2. AtMost(i, p, o)
      BY <2>2, <2>5, <3>1 DEF OK, ThreadOK, Under
    <3>3. o \in Deeds /\ \A k \in Kinds : Count(u, k) = Cnt(o, k)
      BY <3>1, CountIsCnt
    <3>4. Fd(u) = Net(o)
      BY FdIsNet
    <3>5. Threshold \in Nat /\ Threshold > 0
      BY KillerAssumption
    <3> HIDE DEF p, e, i, j
    <3>6. j.n \in [Kinds -> Nat] /\ j.fd \in Nat /\ j.sent \in Nat
          /\ j.read \in Nat
      BY <2>2, InfoIsNat
    <3>7. /\ \A k \in Kinds : j.n[k] <= Cnt(o, k)
          /\ j.sent <= o.sent /\ j.read <= o.read
          /\ j.fd <= Net(o) \/ j.fd = 0
      BY <2>2, <3>2, <3>3, BooksAtMost
    <3>8. CASE \E k \in Kinds : j.n[k] >= Threshold
      <4>1. PICK k \in Kinds : j.n[k] >= Threshold
        BY <3>8
      <4>2. Count(u, k) >= Threshold
        BY <3>3, <3>5, <3>6, <3>7, <4>1, CntType
      <4> QED
        BY <4>2 DEF Over
    <3>9. CASE j.fd >= Threshold
      <4>1. Fd(u) >= Threshold
        BY <3>3, <3>4, <3>5, <3>6, <3>7, <3>9, CntType
      <4> QED
        BY <4>1 DEF Over
    <3>10. CASE j.read >= Threshold
      <4>1. o.read >= Threshold
        BY <3>3, <3>5, <3>6, <3>7, <3>10, CntType
      <4> QED
        BY <4>1 DEF Over
    <3>11. CASE j.sent >= Threshold
      <4>1. o.sent >= Threshold
        BY <3>3, <3>5, <3>6, <3>7, <3>11, CntType
      <4> QED
        BY <4>1 DEF Over
    <3> QED
      BY <2>4, <3>8, <3>9, <3>10, <3>11 DEF ShouldBeKilled
  <2> QED
    BY <2>3, <2>4, <2>5
<1>2. Spec => [][Justified]_vars
  BY <1>1, IInvHolds, PTL DEF Spec
<1> QED
  BY <1>2 DEF KillJustified

(* A thread whose count stands at a threshold while killing is allowed     *)
(* does not get past the probe of the next thing it does that counts, be   *)
(* it one of the handlers of oomk.bpf.c, fcntl_exit or                     *)
(* ip_finish_output2_exit, unless it lost its entry or its entry is wrong. *)
THEOREM KillsAreInTime == Spec => KilledInTime
<1> DEFINE Passed(t) ==
      \/ \E k \in Kinds : Reached(Count(t, k))
      \/ Reached(Fd(t))
      \/ Reached(own[t].read)
      \/ Reached(own[t].sent)
<1> DEFINE Counts(t) ==
      \/ probe[t].what \in {"count", "open", "read"}
      \/ probe[t].what = "fcntl_exit" /\ own[t].op = "dup"
      \/ probe[t].what = "xmit_exit" /\ own[t].tcp
<1> DEFINE InTime ==
      \A t \in Threads :
        /\ Leave(t)
        /\ probe[t].can
        /\ Counts(t)
        /\ taint'[t] = "no"
        /\ Passed(t)
        => task'[t] # "alive"
<1>1. IInv => [InTime]_vars
  <2> SUFFICES ASSUME IInv, NEW t \in Threads, Leave(t), probe[t].can,
                      Counts(t), taint'[t] = "no", Passed(t)
               PROVE  task'[t] # "alive"
    BY DEF vars
  <2> DEFINE p == probe[t]
             e == p.at
             i == elem[e].info
             j == Updated(i, p)
             o == own[t]
  <2>1. /\ p # NoProbe /\ Fits(p)
        /\ i \in ProcInfo /\ j \in ProcInfo /\ Books(i, p, j)
        /\ task' = IF Kills(t) THEN Killed(t) ELSE task
        /\ elem[e].key # t => taint'[t] = "charged"
        /\ elem[e].key = t =>
             /\ taint'[t] = taint[t] \/ taint'[t] = "charged"
             /\ e \in Keyed(elem, t)
    BY LeaveFacts
  <2>2. OK(t) /\ own[t] \in Deeds
        /\ task \in [Threads -> {"dead", "alive", "doomed", "exiting"}]
    BY DEF IInv, TypeOK
  <2>3. CASE task[t] # "alive"
    BY <2>1, <2>2, <2>3 DEF Killed
  <2>4. CASE task[t] = "alive"
    <3>1. e \in Keyed(elem, t) /\ taint[t] = "no"
      BY <2>1
    <3>2. Exact(elem, t, oomp[t], phase[t], p, o)
      BY <2>2, <2>4, <3>1 DEF OK, ThreadOK
    <3>3. /\ AtLeast(i, p, o)
          /\ p.what = "fcntl_exit" => i.op = o.op
          /\ p.what = "xmit_exit" => i.tcp = o.tcp
      BY <3>1, <3>2 DEF Exact
    <3>4. Checks(i, p.what) /\ p.what # "close"
      BY <3>3 DEF Checks
    <3>5. /\ o \in Deeds /\ Fd(t) = Net(o)
          /\ \A k \in Kinds : Count(t, k) = Cnt(o, k)
      BY <2>2, CountIsCnt, FdIsNet
    <3>6. \/ \E k \in Kinds : Cnt(o, k) % Width >= Threshold
          \/ Net(o) % Width >= Threshold
          \/ o.read % Width >= Threshold
          \/ o.sent % Width >= Threshold
      BY <3>5 DEF Reached
    <3> HIDE DEF p, e, i, j
    <3>7. /\ \A k \in Kinds : j.n[k] = Cnt(o, k) % Width
          /\ j.sent = o.sent % Width /\ j.read = o.read % Width
          /\ j.fd = Net(o) % Width
      BY <2>1, <3>3, <3>4, <3>5, BooksExact
    <3>8. ShouldBeKilled(j)
      BY <3>6, <3>7 DEF ShouldBeKilled
    <3>9. Kills(t)
      BY <3>4, <3>8 DEF Kills, p, e, i, j
    <3> QED
      BY <2>1, <2>4, <3>9 DEF Killed
  <2> QED
    BY <2>3, <2>4
<1>2. Spec => [][InTime]_vars
  BY <1>1, IInvHolds, PTL DEF Spec
<1> QED
  BY <1>2 DEF KilledInTime
=============================================================================
