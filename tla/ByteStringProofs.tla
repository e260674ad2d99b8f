-------------------------- MODULE ByteStringProofs --------------------------
(***************************************************************************)
(* Proofs about ByteString: byte strings behave like files, and a datagram *)
(* and its bytes determine each other, for every alignment, every set of   *)
(* bytes, every list of fields and strings of every length.                *)
(***************************************************************************)
EXTENDS ByteString, TLAPS, SequenceTheorems, WellFoundedInduction

-----------------------------------------------------------------------------
(* Induction and recursion over the natural numbers *)

\* A nonempty set of natural numbers has a least element.  Every induction
\* below is on the least number for which a claim fails.
LEMMA LeastExists ==
    ASSUME NEW T, T \subseteq Nat, T # {}
    PROVE  \E x \in T : \A y \in T : x <= y
<1>1. PICK x \in T : \A y \in T : ~(<<y, x>> \in OpToRel(<, Nat))
  BY NatLessThanWellFounded, WFMin
<1>2. ASSUME NEW y \in T PROVE x <= y
  <2>1. \A a, b \in Nat : a < b => <<a, b>> \in OpToRel(<, Nat)
    BY DEF OpToRel
  <2>2. x \in Nat /\ y \in Nat /\ ~(y < x)
    BY <1>1, <2>1
  <2>. QED
    BY <2>2
<1>. QED
  BY <1>2

\* A set that holds 0, and n + 1 with each n that it holds, holds every number.
LEMMA Induction ==
    ASSUME NEW T, 0 \in T, \A n \in Nat : n \in T => n + 1 \in T
    PROVE  \A n \in Nat : n \in T
<1>. DEFINE U == {n \in Nat : n \notin T}
<1>1. SUFFICES ASSUME U # {} PROVE FALSE
  OBVIOUS
<1>2. PICK u \in U : \A y \in U : u <= y
  <2>1. U \subseteq Nat
    OBVIOUS
  <2>. HIDE DEF U
  <2>. QED
    BY <1>1, <2>1, LeastExists
<1>3. u \in Nat /\ u # 0 /\ u - 1 \in Nat /\ (u - 1) + 1 = u
  OBVIOUS
<1>4. u - 1 \notin U
  BY <1>2, <1>3
<1>. QED
  BY <1>3, <1>4

\* The values up to n of a function on numbers given by its first value and by
\* how each value yields the next.
Follows(S, base, step, n, h) ==
    /\ h \in [0 .. n -> S]
    /\ h[0] = base
    /\ \A m \in 0 .. n - 1 : h[m + 1] = step[<<m, h[m]>>]

\* All of them.
Unrolls(g, base, step) ==
    g[0] = base /\ \A n \in Nat : g[n + 1] = step[<<n, g[n]>>]

\* There is such a function: what makes a recursive definition mean something.
LEMMA Recursion ==
    ASSUME NEW S, NEW base \in S, NEW step \in [Nat \X S -> S]
    PROVE  \E g \in [Nat -> S] : Unrolls(g, base, step)
<1>. DEFINE T == {n \in Nat : \E h : Follows(S, base, step, n, h)}
            pick(n) == CHOOSE h : Follows(S, base, step, n, h)
            g == [n \in Nat |-> pick(n)[n]]
<1>1. \A n \in Nat : \E h : Follows(S, base, step, n, h)
  <2>1. 0 \in T
    <3>1. Follows(S, base, step, 0, [m \in 0 .. 0 |-> base])
      BY DEF Follows
    <3>. QED
      BY <3>1
  <2>2. ASSUME NEW n \in Nat, n \in T PROVE n + 1 \in T
    <3>1. PICK h : Follows(S, base, step, n, h)
      BY <2>2
    <3>. DEFINE v == step[<<n, h[n]>>]
                k == [m \in 0 .. n + 1 |-> IF m = n + 1 THEN v ELSE h[m]]
    <3>2. h[n] \in S
      BY <3>1 DEF Follows
    <3>3. v \in S
      BY <3>2
    <3>4. k \in [0 .. n + 1 -> S]
      <4>. HIDE DEF v
      <4>. QED
        BY <3>1, <3>3 DEF Follows
    <3>5. k[0] = base
      BY <3>1 DEF Follows
    <3>6. ASSUME NEW m \in 0 .. (n + 1) - 1 PROVE k[m + 1] = step[<<m, k[m]>>]
      <4>1. k[m] = h[m]
        OBVIOUS
      <4>2. CASE m = n
        <5>1. k[n + 1] = v
          BY <3>4
        <5>. QED
          BY <4>1, <4>2, <5>1
      <4>3. CASE m # n
        <5>1. m \in 0 .. n - 1 /\ m + 1 \in 0 .. n
          BY <4>3
        <5>2. k[m + 1] = h[m + 1]
          BY <5>1
        <5>. QED
          BY <3>1, <4>1, <5>1, <5>2 DEF Follows
      <4>. QED
        BY <4>2, <4>3
    <3>7. Follows(S, base, step, n + 1, k)
      <4>. HIDE DEF k
      <4>. QED
        BY <3>4, <3>5, <3>6 DEF Follows
    <3>. QED
      BY <3>7
  <2>3. \A n \in Nat : n \in T
    <3>. HIDE DEF T
    <3>. QED
      BY <2>1, <2>2, Induction
  <2>. QED
    BY <2>3
<1>2. ASSUME NEW n \in Nat PROVE Follows(S, base, step, n, pick(n))
  BY <1>1
<1>. HIDE DEF pick
<1>3. ASSUME NEW n \in Nat PROVE pick(n + 1)[n] = pick(n)[n]
  <2>. DEFINE A == {m \in Nat : m <= n => pick(n + 1)[m] = pick(n)[m]}
  <2>1. 0 \in A
    BY <1>2 DEF Follows
  <2>2. ASSUME NEW m \in Nat, m \in A PROVE m + 1 \in A
    <3>1. SUFFICES ASSUME m + 1 <= n PROVE pick(n + 1)[m + 1] = pick(n)[m + 1]
      OBVIOUS
    <3>2. pick(n + 1)[m] = pick(n)[m]
      BY <2>2, <3>1
    <3>3. pick(n)[m + 1] = step[<<m, pick(n)[m]>>]
      <4>1. m \in 0 .. n - 1
        BY <3>1
      <4>. QED
        BY <1>2, <4>1 DEF Follows
    <3>4. pick(n + 1)[m + 1] = step[<<m, pick(n + 1)[m]>>]
      <4>1. m \in 0 .. (n + 1) - 1 /\ n + 1 \in Nat
        BY <3>1
      <4>. QED
        BY <1>2, <4>1 DEF Follows
    <3>. QED
      BY <3>2, <3>3, <3>4
  <2>3. \A m \in Nat : m \in A
    <3>. HIDE DEF A
    <3>. QED
      BY <2>1, <2>2, Induction
  <2>. QED
    BY <2>3
<1>4. g \in [Nat -> S]
  BY <1>2 DEF Follows
<1>5. g[0] = base
  BY <1>2 DEF Follows
<1>6. ASSUME NEW n \in Nat PROVE g[n + 1] = step[<<n, g[n]>>]
  <2>1. n + 1 \in Nat /\ n \in 0 .. (n + 1) - 1
    OBVIOUS
  <2>2. pick(n + 1)[n + 1] = step[<<n, pick(n + 1)[n]>>]
    BY <1>2, <2>1 DEF Follows
  <2>. QED
    BY <1>3, <2>1, <2>2
<1>. HIDE DEF g
<1>. QED
  BY <1>4, <1>5, <1>6 DEF Unrolls

-----------------------------------------------------------------------------
(* The sizes of buffers *)

\* The sizes that adjust_buffer_size tries.
LEMMA PowerIs ==
    /\ Power \in [Nat -> Nat]
    /\ Power[0] = 1
    /\ \A n \in Nat : Power[n + 1] = 2 * Power[n]
<1>. DEFINE one == 1
            step == [p \in Nat \X Nat |-> 2 * p[2]]
            Is(f) == f = [k \in Nat |-> IF k = 0 THEN 1 ELSE 2 * f[k - 1]]
<1>1. one \in Nat /\ step \in [Nat \X Nat -> Nat]
  OBVIOUS
<1>2. PICK g \in [Nat -> Nat] : Unrolls(g, one, step)
  <2>. HIDE DEF one, step
  <2>. QED
    BY <1>1, Recursion
<1>3. g[0] = 1 /\ \A n \in Nat : g[n + 1] = 2 * g[n]
  BY <1>2 DEF Unrolls
<1>4. ASSUME NEW k \in Nat PROVE g[k] = IF k = 0 THEN 1 ELSE 2 * g[k - 1]
  <2>1. CASE k = 0
    BY <1>3, <2>1
  <2>2. CASE k # 0
    <3>1. k - 1 \in Nat /\ (k - 1) + 1 = k
      BY <2>2
    <3>. QED
      BY <1>3, <2>2, <3>1
  <2>. QED
    BY <2>1, <2>2
<1>5. Is(g)
  BY <1>4
<1>6. Power = CHOOSE f : Is(f)
  BY DEF Power
<1>7. Is(Power)
  <2>. HIDE DEF Is
  <2>. QED
    BY <1>5, <1>6
<1>8. ASSUME NEW n \in Nat PROVE Power[n + 1] = 2 * Power[n]
  BY <1>7
<1>9. Power[0] = 1
  BY <1>7
<1>10. Power = [k \in Nat |-> Power[k]]
  BY <1>7
<1>. DEFINE T == {n \in Nat : Power[n] \in Nat}
<1>11. \A n \in Nat : n \in T
  <2>1. 0 \in T
    BY <1>9
  <2>2. \A n \in Nat : n \in T => n + 1 \in T
    BY <1>8
  <2>. HIDE DEF T
  <2>. QED
    BY <2>1, <2>2, Induction
<1>. QED
  BY <1>8, <1>9, <1>10, <1>11

\* The sizes that adjust_buffer_size tries grow beyond every size.
LEMMA PowerGrows == \A n \in Nat : Power[n] > n
<1>. DEFINE T == {n \in Nat : Power[n] > n}
<1>1. 0 \in T
  BY PowerIs
<1>2. ASSUME NEW n \in Nat, n \in T PROVE n + 1 \in T
  <2>1. Power[n] \in Nat /\ Power[n] > n /\ Power[n + 1] = 2 * Power[n]
    BY <1>2, PowerIs
  <2>. QED
    BY <2>1
<1>. HIDE DEF T
<1>3. \A n \in Nat : n \in T
  BY <1>1, <1>2, Induction
<1>. QED
  BY <1>3 DEF T

\* What adjust_buffer_size asks for is enough, and less than twice as much.
LEMMA DoubledIs ==
    ASSUME NEW need \in Nat, need # 0
    PROVE  Doubled(need) \in Nat /\ Doubled(need) >= need /\ Doubled(need) < 2 * need
<1>. DEFINE V == {Power[k] : k \in 0 .. need}
            W == {v \in V : v >= need}
            Least(n) == n >= need /\ \A k \in 0 .. need : Power[k] >= need => n <= Power[k]
<1>1. \A k \in 0 .. need : Power[k] \in Nat
  BY PowerIs
<1>2. W \subseteq Nat /\ W # {}
  <2>1. Power[need] >= need /\ need \in 0 .. need
    BY <1>1, PowerGrows
  <2>2. Power[need] \in W
    BY <2>1
  <2>. QED
    BY <1>1, <2>2
<1>3. PICK v \in W : \A w \in W : v <= w
  <2>. HIDE DEF W
  <2>. QED
    BY <1>2, LeastExists
<1>4. v \in V /\ Least(v)
  BY <1>3
<1>5. Doubled(need) = CHOOSE n \in V : Least(n)
  BY DEF Doubled
<1>6. Doubled(need) \in V /\ Least(Doubled(need))
  <2>. HIDE DEF V, Least
  <2>. QED
    BY <1>4, <1>5
<1>7. PICK k \in 0 .. need : Doubled(need) = Power[k]
  BY <1>6
<1>8. Power[k] < 2 * need
  <2>1. CASE k = 0
    BY <2>1, PowerIs
  <2>2. CASE k # 0
    <3>1. k - 1 \in 0 .. need /\ k - 1 \in Nat /\ (k - 1) + 1 = k
      BY <2>2
    <3>2. Power[k] = 2 * Power[k - 1] /\ Power[k - 1] \in Nat
      BY <3>1, PowerIs
    <3>3. Power[k - 1] >= need => Power[k] <= Power[k - 1]
      BY <1>6, <1>7, <3>1
    <3>. QED
      BY <3>2, <3>3
  <2>. QED
    BY <2>1, <2>2
<1>. QED
  BY <1>1, <1>6, <1>7, <1>8

\* Division: what is known of quotient and remainder, and that no other numbers
\* are like them.
LEMMA Quotient ==
    ASSUME NEW a \in Nat, NEW b \in Nat \ {0}
    PROVE  /\ a \div b \in Nat /\ a % b \in 0 .. b - 1
           /\ a = (a \div b) * b + (a % b)
OBVIOUS

\* A multiple of b, other than none of it, is at least b.
LEMMA Multiple ==
    ASSUME NEW b \in Nat, NEW n \in Nat \ {0}
    PROVE  n * b >= b
<1>1. n - 1 \in Nat /\ n * b = (n - 1) * b + b
  OBVIOUS
<1>2. (n - 1) * b \in Nat
  BY <1>1
<1>. QED
  BY <1>1, <1>2

LEMMA QuotientUnique ==
    ASSUME NEW b \in Nat \ {0}, NEW q \in Nat, NEW r \in 0 .. b - 1
    PROVE  (q * b + r) \div b = q
<1>. DEFINE a == q * b + r
            d == a \div b
            e == a % b
<1>1. a \in Nat
  OBVIOUS
<1>2. a = q * b + r
  OBVIOUS
<1>. HIDE DEF a
<1>3. d \in Nat /\ e \in 0 .. b - 1 /\ a = d * b + e
  BY <1>1, Quotient
<1>. HIDE DEF d, e
<1>4. ~(q > d)
  <2>1. SUFFICES ASSUME q > d PROVE FALSE
    OBVIOUS
  <2>2. q - d \in Nat \ {0} /\ q * b = (q - d) * b + d * b
    BY <1>3, <2>1
  <2>3. (q - d) * b >= b
    BY <2>2, Multiple
  <2>4. (q - d) * b \in Int /\ d * b \in Int /\ q * b \in Int
    BY <1>3
  <2>. QED
    BY <1>2, <1>3, <2>2, <2>3, <2>4
<1>5. ~(d > q)
  <2>1. SUFFICES ASSUME d > q PROVE FALSE
    OBVIOUS
  <2>2. d - q \in Nat \ {0} /\ d * b = (d - q) * b + q * b
    BY <1>3, <2>1
  <2>3. (d - q) * b >= b
    BY <2>2, Multiple
  <2>4. (d - q) * b \in Int /\ d * b \in Int /\ q * b \in Int
    BY <1>3
  <2>. QED
    BY <1>2, <1>3, <2>2, <2>3, <2>4
<1>6. d = q
  BY <1>3, <1>4, <1>5
<1>. QED
  BY <1>6 DEF d, a

\* The size that is allocated is enough, exceeds what was asked for by less than
\* the alignment, and is not changed when it is asked for in turn.
LEMMA AlignedIs ==
    ASSUME NEW n \in Nat
    PROVE  /\ Aligned(n) \in Nat /\ Aligned(n) >= n /\ Aligned(n) < n + Align
           /\ Aligned(Aligned(n)) = Aligned(n)
<1>1. Align \in Nat /\ Align # 0
  BY ConstantsAssumption
<1>2. CASE n = 0
  BY <1>1, <1>2 DEF Aligned
<1>3. CASE n # 0
  <2>. DEFINE a == n - 1
              q == a \div Align
              r == a % Align
              m == q * Align + Align
  <2>0. a \in Nat /\ Align \in Nat \ {0}
    BY <1>1, <1>3
  <2>1. q \in Nat /\ r \in 0 .. Align - 1 /\ a = q * Align + r
    <3>. HIDE DEF a
    <3>. QED
      BY <2>0, Quotient
  <2>2. Aligned(n) = m
    BY <1>3 DEF Aligned
  <2>. HIDE DEF q, r
  <2>3. q * Align \in Nat
    BY <1>1, <2>1
  <2>4. m \in Nat /\ m >= n /\ m < n + Align /\ m # 0
    BY <1>1, <2>1, <2>3
  <2>5. (m - 1) \div Align = q
    <3>1. m - 1 = q * Align + (Align - 1) /\ Align - 1 \in 0 .. Align - 1
      BY <1>1, <2>3
    <3>2. (q * Align + (Align - 1)) \div Align = q
      BY <1>1, <2>1, <3>1, QuotientUnique
    <3>. QED
      BY <3>1, <3>2
  <2>6. Aligned(m) = m
    <3>1. Aligned(m) = ((m - 1) \div Align) * Align + Align
      BY <2>4 DEF Aligned
    <3>. QED
      BY <2>5, <3>1
  <2>. QED
    BY <2>2, <2>4, <2>6
<1>. QED
  BY <1>2, <1>3

-----------------------------------------------------------------------------
(* The object *)

\* A buffer of n bytes, of any length.
Buffers == UNION {[0 .. n - 1 -> Bytes \cup {Junk}] : n \in Nat}

\* An object whose buffer is as large as it should be, and has a size that is
\* allocated.
Allocated(o) ==
    /\ o \in [buf_size_ : Nat, buf_ : Buffers, data_len_ : Nat, offset_ : Int]
    /\ o.buf_ \in [0 .. o.buf_size_ - 1 -> Bytes \cup {Junk}]
    /\ Aligned(o.buf_size_) = o.buf_size_

\* What is never otherwise, whatever the program does with an object: its data
\* lies within the buffer, and none of it is Junk.
Sound(o) ==
    /\ Allocated(o)
    /\ o.data_len_ <= o.buf_size_
    /\ \A k \in 0 .. o.data_len_ - 1 : o.buf_[k] \in Bytes

\* The parts of an object.
LEMMA Parts ==
    ASSUME NEW o, Allocated(o)
    PROVE  /\ o = [buf_size_ |-> o.buf_size_, buf_ |-> o.buf_, data_len_ |-> o.data_len_,
                   offset_ |-> o.offset_]
           /\ o.buf_size_ \in Nat /\ o.data_len_ \in Nat /\ o.offset_ \in Int
           /\ o.buf_ \in [0 .. o.buf_size_ - 1 -> Bytes \cup {Junk}]
           /\ Aligned(o.buf_size_) = o.buf_size_
BY DEF Allocated

\* Those of a sound one.
LEMMA SoundParts ==
    ASSUME NEW o, Sound(o)
    PROVE  /\ Allocated(o)
           /\ o.buf_size_ \in Nat /\ o.data_len_ \in Nat /\ o.offset_ \in Int
           /\ o.data_len_ <= o.buf_size_
           /\ \A k \in 0 .. o.data_len_ - 1 : o.buf_[k] \in Bytes
           /\ Aligned(o.buf_size_) = o.buf_size_
BY Parts DEF Sound

\* How to see that an object is allocated, from its parts.
LEMMA AllocatedBy ==
    ASSUME NEW size \in Nat, NEW buf \in [0 .. size - 1 -> Bytes \cup {Junk}],
           NEW len \in Nat, NEW at \in Int, Aligned(size) = size
    PROVE  Allocated([buf_size_ |-> size, buf_ |-> buf, data_len_ |-> len, offset_ |-> at])
<1>1. buf \in Buffers
  BY DEF Buffers
<1>. QED
  BY <1>1 DEF Allocated

\* The default constructor makes a sound object.
LEMMA EmptyIs == Sound(Empty) /\ Contents(Empty) = <<>>
<1>1. <<>> \in [0 .. 0 - 1 -> Bytes \cup {Junk}] /\ 0 \in Nat
  OBVIOUS
<1>2. <<>> \in Buffers
  BY <1>1 DEF Buffers
<1>3. Aligned(0) = 0
  BY DEF Aligned
<1>4. Allocated(Empty)
  BY <1>1, <1>2, <1>3 DEF Allocated, Empty
<1>5. Sound(Empty)
  BY <1>4 DEF Sound, Empty
<1>6. Contents(Empty) = <<>>
  BY DEF Contents, Slice, Empty
<1>. QED
  BY <1>5, <1>6

\* A part of the data is a string of bytes.
LEMMA SliceIs ==
    ASSUME NEW o, Sound(o), NEW k \in Nat, NEW l \in Nat, l <= o.data_len_, k <= l
    PROVE  /\ Slice(o, k, l) \in Seq(Bytes)
           /\ Len(Slice(o, k, l)) = l - k
           /\ \A i \in 1 .. l - k : Slice(o, k, l)[i] = o.buf_[k + i - 1]
<1>1. ASSUME NEW i \in 1 .. l - k PROVE o.buf_[k + i - 1] \in Bytes
  <2>1. k + i - 1 \in 0 .. o.data_len_ - 1
    BY SoundParts
  <2>. QED
    BY <2>1, SoundParts
<1>2. l - k \in Nat
  OBVIOUS
<1>3. Slice(o, k, l) \in [1 .. l - k -> Bytes]
  BY <1>1 DEF Slice
<1>4. Slice(o, k, l) \in Seq(Bytes)
  BY <1>2, <1>3
<1>5. Len(Slice(o, k, l)) = l - k
  BY <1>2 DEF Slice
<1>. QED
  BY <1>4, <1>5 DEF Slice

\* The data is.
LEMMA ContentsIs ==
    ASSUME NEW o, Sound(o)
    PROVE  /\ Contents(o) \in Seq(Bytes)
           /\ Len(Contents(o)) = o.data_len_
           /\ \A i \in 1 .. o.data_len_ : Contents(o)[i] = o.buf_[i - 1]
<1>. DEFINE first == 0
            len == o.data_len_
<1>1. first \in Nat /\ len \in Nat /\ first <= len /\ len <= o.data_len_
  BY SoundParts
<1>2. Contents(o) = Slice(o, first, len)
  BY DEF Contents
<1>3. first = 0
  OBVIOUS
<1>. HIDE DEF first, len
<1>4. /\ Slice(o, first, len) \in Seq(Bytes)
      /\ Len(Slice(o, first, len)) = len - first
  BY <1>1, SliceIs
<1>5. ASSUME NEW i \in 1 .. len PROVE Slice(o, first, len)[i] = o.buf_[i - 1]
  <2>1. i \in 1 .. len - first /\ first + i - 1 = i - 1
    BY <1>1, <1>3
  <2>2. Slice(o, first, len)[i] = o.buf_[first + i - 1]
    BY <1>1, <2>1, SliceIs
  <2>. QED
    BY <2>1, <2>2
<1>6. len - first = len
  BY <1>1, <1>3
<1>. QED
  BY <1>2, <1>4, <1>5, <1>6 DEF len

\* A part of the data is a part of the contents.
LEMMA SliceOfContents ==
    ASSUME NEW o, Sound(o), NEW k \in Nat, NEW l \in Nat, l <= o.data_len_, k <= l
    PROVE  Slice(o, k, l) = SubSeq(Contents(o), k + 1, l)
<1>. DEFINE c == Contents(o)
            t == SubSeq(c, k + 1, l)
            u == Slice(o, k, l)
<1>1. /\ c \in Seq(Bytes) /\ Len(c) = o.data_len_ /\ o.data_len_ \in Nat
      /\ \A i \in 1 .. o.data_len_ : c[i] = o.buf_[i - 1]
  BY ContentsIs, SoundParts
<1>2. /\ u \in Seq(Bytes) /\ Len(u) = l - k
      /\ \A i \in 1 .. l - k : u[i] = o.buf_[k + i - 1]
  BY SliceIs
<1>. HIDE DEF c, u
<1>3. \A i \in k + 1 .. l : c[i] \in Bytes
  BY <1>1, ElementOfSeq
<1>4. /\ t \in Seq(Bytes) /\ Len(t) = IF k + 1 <= l THEN l - (k + 1) + 1 ELSE 0
      /\ \A i \in 1 .. l - (k + 1) + 1 : t[i] = c[k + 1 + i - 1]
  BY <1>3, SubSeqProperties
<1>. HIDE DEF t
<1>5. Len(t) = l - k
  BY <1>4
<1>6. ASSUME NEW i \in 1 .. Len(u) PROVE u[i] = t[i]
  <2>1. i \in 1 .. l - k /\ i \in 1 .. l - (k + 1) + 1 /\ k + 1 + i - 1 = k + i
    BY <1>2
  <2>2. k + i \in 1 .. o.data_len_
    BY <1>1, <2>1
  <2>3. t[i] = c[k + i]
    BY <1>4, <2>1
  <2>4. c[k + i] = o.buf_[k + i - 1]
    BY <1>1, <2>2
  <2>5. u[i] = o.buf_[k + i - 1]
    BY <1>2, <2>1
  <2>. QED
    BY <2>3, <2>4, <2>5
<1>7. u = t
  BY <1>2, <1>4, <1>5, <1>6, SeqEqual
<1>. QED
  BY <1>7 DEF u, t, c

\* _change_buffer_size_to keeps the data that fits into the new buffer.
LEMMA ResizedIs ==
    ASSUME NEW o, Allocated(o), o.data_len_ <= o.buf_size_, NEW n \in Nat
    PROVE  LET r == Resized(o, n) IN
           /\ Allocated(r)
           /\ r.buf_size_ = Aligned(n) /\ r.data_len_ = o.data_len_ /\ r.offset_ = o.offset_
           /\ \A k \in 0 .. Aligned(n) - 1 :
                  r.buf_[k] = IF k < o.data_len_ THEN o.buf_[k] ELSE Junk
<1>. DEFINE size == Aligned(n)
            buf == [k \in 0 .. size - 1 |->
                      IF k < o.data_len_ /\ o.buf_size_ # 0 THEN o.buf_[k] ELSE Junk]
            r == [buf_size_ |-> size, buf_ |-> buf, data_len_ |-> o.data_len_,
                  offset_ |-> o.offset_]
<1>1. size \in Nat /\ Aligned(size) = size
  BY AlignedIs
<1>. HIDE DEF size
<1>2. ASSUME NEW k \in 0 .. size - 1
      PROVE  /\ buf[k] = IF k < o.data_len_ THEN o.buf_[k] ELSE Junk
             /\ buf[k] \in Bytes \cup {Junk}
  BY <1>1, Parts
<1>3. buf \in [0 .. size - 1 -> Bytes \cup {Junk}]
  BY <1>2
<1>4. Resized(o, n) = r
  <2>. DEFINE q == [buf_size_ |-> o.buf_size_, buf_ |-> o.buf_, data_len_ |-> o.data_len_,
                    offset_ |-> o.offset_]
  <2>1. o = q
    BY Parts
  <2>2. Resized(o, n) = [o EXCEPT !.buf_size_ = size, !.buf_ = buf]
    BY DEF Resized, size
  <2>. HIDE DEF buf
  <2>. DEFINE h == [buf_size_ |-> size, buf_ |-> o.buf_, data_len_ |-> o.data_len_,
                    offset_ |-> o.offset_]
  <2>3. [q EXCEPT !.buf_size_ = size, !.buf_ = buf]
          = [[q EXCEPT !.buf_size_ = size] EXCEPT !.buf_ = buf]
    OBVIOUS
  <2>4. [q EXCEPT !.buf_size_ = size] = h
    OBVIOUS
  <2>5. [h EXCEPT !.buf_ = buf] = r
    OBVIOUS
  <2>. HIDE DEF q, r, h
  <2>. QED
    BY <2>1, <2>2, <2>3, <2>4, <2>5
<1>5. Allocated(r)
  <2>. HIDE DEF buf
  <2>. QED
    BY <1>1, <1>3, Parts, AllocatedBy
<1>6. r.buf_size_ = size /\ r.data_len_ = o.data_len_ /\ r.offset_ = o.offset_ /\ r.buf_ = buf
  OBVIOUS
<1>. HIDE DEF r, buf
<1>. QED
  BY <1>2, <1>4, <1>5, <1>6 DEF size

\* bcopy changes the bytes it is given the place of, and no others.
LEMMA CopiedIs ==
    ASSUME NEW o, Allocated(o), NEW at \in Nat, NEW s \in Seq(Bytes),
           at + Len(s) <= o.buf_size_
    PROVE  LET w == Copied(o, at, s) IN
           /\ Allocated(w)
           /\ w.buf_size_ = o.buf_size_ /\ w.data_len_ = o.data_len_ /\ w.offset_ = o.offset_
           /\ \A k \in 0 .. o.buf_size_ - 1 :
                  w.buf_[k] = IF k \in at .. at + Len(s) - 1 THEN s[k - at + 1] ELSE o.buf_[k]
<1>. DEFINE buf == [k \in DOMAIN o.buf_ |->
                      IF k \in at .. at + Len(s) - 1 THEN s[k - at + 1] ELSE o.buf_[k]]
            w == [buf_size_ |-> o.buf_size_, buf_ |-> buf, data_len_ |-> o.data_len_,
                  offset_ |-> o.offset_]
<1>1. DOMAIN o.buf_ = 0 .. o.buf_size_ - 1 /\ o.buf_size_ \in Nat
  BY Parts
<1>2. ASSUME NEW k \in 0 .. o.buf_size_ - 1
      PROVE  /\ buf[k] = IF k \in at .. at + Len(s) - 1 THEN s[k - at + 1] ELSE o.buf_[k]
             /\ buf[k] \in Bytes \cup {Junk}
  <2>1. buf[k] = IF k \in at .. at + Len(s) - 1 THEN s[k - at + 1] ELSE o.buf_[k]
    BY <1>1
  <2>2. k \in at .. at + Len(s) - 1 => s[k - at + 1] \in Bytes
    <3>1. Len(s) \in Nat
      BY LenProperties
    <3>2. k \in at .. at + Len(s) - 1 => k - at + 1 \in 1 .. Len(s)
      BY <1>1, <3>1
    <3>. QED
      BY <3>2, ElementOfSeq
  <2>3. o.buf_[k] \in Bytes \cup {Junk}
    BY Parts
  <2>. HIDE DEF buf
  <2>. QED
    BY <2>1, <2>2, <2>3
<1>3. buf \in [0 .. o.buf_size_ - 1 -> Bytes \cup {Junk}]
  BY <1>1, <1>2
<1>4. Copied(o, at, s) = w
  <2>. DEFINE q == [buf_size_ |-> o.buf_size_, buf_ |-> o.buf_, data_len_ |-> o.data_len_,
                    offset_ |-> o.offset_]
  <2>1. o = q
    BY Parts
  <2>2. Copied(o, at, s) = [o EXCEPT !.buf_ = buf]
    BY DEF Copied
  <2>. HIDE DEF buf
  <2>3. [q EXCEPT !.buf_ = buf] = w
    OBVIOUS
  <2>. HIDE DEF q, w
  <2>. QED
    BY <2>1, <2>2, <2>3
<1>5. Allocated(w)
  <2>. HIDE DEF buf
  <2>. QED
    BY <1>3, Parts, AllocatedBy
<1>6. w.buf_size_ = o.buf_size_ /\ w.data_len_ = o.data_len_ /\ w.offset_ = o.offset_ /\ w.buf_ = buf
  OBVIOUS
<1>. HIDE DEF w, buf
<1>. QED
  BY <1>2, <1>4, <1>5, <1>6

\* gurantee_space makes room for n bytes and keeps the data; a buffer it makes is
\* less than twice as large, but for the alignment.
LEMMA WithSpaceIs ==
    ASSUME NEW o, Sound(o), NEW n \in Nat
    PROVE  LET w == WithSpace(o, n) IN
           /\ Allocated(w)
           /\ w.data_len_ = o.data_len_ /\ w.offset_ = o.offset_
           /\ w.buf_size_ >= n /\ w.buf_size_ >= o.buf_size_
           /\ w.buf_size_ = o.buf_size_ \/ w.buf_size_ < 2 * n + Align
           /\ \A k \in 0 .. o.data_len_ - 1 : w.buf_[k] = o.buf_[k]
<1>. DEFINE w == WithSpace(o, n)
<1>1. /\ Allocated(o) /\ o.buf_size_ \in Nat /\ o.data_len_ \in Nat
      /\ o.data_len_ <= o.buf_size_
  BY SoundParts
<1>2. CASE n > o.buf_size_
  <2>. DEFINE d == Doubled(n)
              r == Resized(o, d)
  <2>1. w = r
    BY <1>2 DEF WithSpace
  <2>2. d \in Nat /\ d >= n /\ d < 2 * n
    BY <1>1, <1>2, DoubledIs
  <2>. HIDE DEF d
  <2>3. Aligned(d) \in Nat /\ Aligned(d) >= d /\ Aligned(d) < d + Align
    BY <2>2, AlignedIs
  <2>4. /\ Allocated(r) /\ r.buf_size_ = Aligned(d)
        /\ r.data_len_ = o.data_len_ /\ r.offset_ = o.offset_
    BY <1>1, <2>2, ResizedIs
  <2>5. ASSUME NEW k \in 0 .. o.data_len_ - 1 PROVE r.buf_[k] = o.buf_[k]
    <3>1. k \in 0 .. Aligned(d) - 1 /\ k < o.data_len_
      BY <1>1, <1>2, <2>2, <2>3
    <3>2. r.buf_[k] = IF k < o.data_len_ THEN o.buf_[k] ELSE Junk
      BY <1>1, <2>2, <3>1, ResizedIs
    <3>. QED
      BY <3>1, <3>2
  <2>6. r.buf_size_ >= n /\ r.buf_size_ >= o.buf_size_ /\ r.buf_size_ < 2 * n + Align
    BY <1>1, <1>2, <2>2, <2>3, <2>4, ConstantsAssumption
  <2>. HIDE DEF r
  <2>. QED
    BY <2>1, <2>4, <2>5, <2>6
<1>3. CASE ~(n > o.buf_size_)
  <2>1. w = o
    BY <1>3 DEF WithSpace
  <2>2. w.buf_size_ >= n /\ w.buf_size_ >= o.buf_size_
    BY <1>1, <1>3, <2>1
  <2>. QED
    BY <1>1, <2>1, <2>2
<1>. QED
  BY <1>2, <1>3

\* What is to be shown of an object that was made or changed: its data is as
\* given, place by place.
LEMMA SoundFrom ==
    ASSUME NEW o, Allocated(o), o.data_len_ <= o.buf_size_,
           \A k \in 0 .. o.data_len_ - 1 : o.buf_[k] \in Bytes
    PROVE  Sound(o)
BY DEF Sound

\* Assigning the length leaves the buffer and the position alone.
LEMMA SetLength ==
    ASSUME NEW o, Allocated(o), NEW len \in Nat
    PROVE  /\ Allocated([o EXCEPT !.data_len_ = len])
           /\ [o EXCEPT !.data_len_ = len].buf_size_ = o.buf_size_
           /\ [o EXCEPT !.data_len_ = len].buf_ = o.buf_
           /\ [o EXCEPT !.data_len_ = len].data_len_ = len
           /\ [o EXCEPT !.data_len_ = len].offset_ = o.offset_
<1>. DEFINE q == [buf_size_ |-> o.buf_size_, buf_ |-> o.buf_, data_len_ |-> o.data_len_,
                  offset_ |-> o.offset_]
            r == [buf_size_ |-> o.buf_size_, buf_ |-> o.buf_, data_len_ |-> len,
                  offset_ |-> o.offset_]
<1>1. o = q
  BY Parts
<1>2. [q EXCEPT !.data_len_ = len] = r
  OBVIOUS
<1>3. Allocated(r)
  BY Parts, AllocatedBy
<1>4. /\ r.buf_size_ = o.buf_size_ /\ r.buf_ = o.buf_
      /\ r.data_len_ = len /\ r.offset_ = o.offset_
  OBVIOUS
<1>. HIDE DEF q, r
<1>. QED
  BY <1>1, <1>2, <1>3, <1>4

\* Assigning the position leaves the data alone.
LEMMA SetOffset ==
    ASSUME NEW o, Allocated(o), NEW at \in Int
    PROVE  /\ Allocated([o EXCEPT !.offset_ = at])
           /\ [o EXCEPT !.offset_ = at].buf_size_ = o.buf_size_
           /\ [o EXCEPT !.offset_ = at].buf_ = o.buf_
           /\ [o EXCEPT !.offset_ = at].data_len_ = o.data_len_
           /\ [o EXCEPT !.offset_ = at].offset_ = at
<1>. DEFINE q == [buf_size_ |-> o.buf_size_, buf_ |-> o.buf_, data_len_ |-> o.data_len_,
                  offset_ |-> o.offset_]
            r == [buf_size_ |-> o.buf_size_, buf_ |-> o.buf_, data_len_ |-> o.data_len_,
                  offset_ |-> at]
<1>1. o = q
  BY Parts
<1>2. [q EXCEPT !.offset_ = at] = r
  OBVIOUS
<1>3. Allocated(r)
  BY Parts, AllocatedBy
<1>4. /\ r.buf_size_ = o.buf_size_ /\ r.buf_ = o.buf_
      /\ r.data_len_ = o.data_len_ /\ r.offset_ = at
  OBVIOUS
<1>. HIDE DEF q, r
<1>. QED
  BY <1>1, <1>2, <1>3, <1>4

\* The object with its position and its length assigned.
Moved(o, at, len) == [o EXCEPT !.offset_ = at, !.data_len_ = len]

\* Assigning both leaves the buffer alone.
LEMMA SetBoth ==
    ASSUME NEW o, Allocated(o), NEW len \in Nat, NEW at \in Int
    PROVE  /\ Allocated(Moved(o, at, len))
           /\ Moved(o, at, len).buf_size_ = o.buf_size_
           /\ Moved(o, at, len).buf_ = o.buf_
           /\ Moved(o, at, len).data_len_ = len
           /\ Moved(o, at, len).offset_ = at
<1>. DEFINE q == [buf_size_ |-> o.buf_size_, buf_ |-> o.buf_, data_len_ |-> o.data_len_,
                  offset_ |-> o.offset_]
            r == [buf_size_ |-> o.buf_size_, buf_ |-> o.buf_, data_len_ |-> len,
                  offset_ |-> at]
<1>1. o = q
  BY Parts
<1>2. [q EXCEPT !.offset_ = at, !.data_len_ = len] = r
  <2>. DEFINE h == [buf_size_ |-> o.buf_size_, buf_ |-> o.buf_, data_len_ |-> o.data_len_,
                    offset_ |-> at]
  <2>1. [q EXCEPT !.offset_ = at, !.data_len_ = len]
          = [[q EXCEPT !.offset_ = at] EXCEPT !.data_len_ = len]
    OBVIOUS
  <2>2. [q EXCEPT !.offset_ = at] = h
    OBVIOUS
  <2>3. [h EXCEPT !.data_len_ = len] = r
    OBVIOUS
  <2>. HIDE DEF q, h, r
  <2>. QED
    BY <2>1, <2>2, <2>3
<1>3. Allocated(r)
  BY Parts, AllocatedBy
<1>4. /\ r.buf_size_ = o.buf_size_ /\ r.buf_ = o.buf_
      /\ r.data_len_ = len /\ r.offset_ = at
  OBVIOUS
<1>. HIDE DEF q, r
<1>. QED
  BY <1>1, <1>2, <1>3, <1>4 DEF Moved

\* The byte at the place k of the buffer once s was written.
ByteAfter(o, s, k) ==
    IF k \in o.offset_ .. o.offset_ + Len(s) - 1 THEN s[k - o.offset_ + 1] ELSE o.buf_[k]

\* write, at a position within the string, replaces what was there or follows
\* the string, and leaves the rest as it was.
LEMMA WrittenIs ==
    ASSUME NEW o, Sound(o), Inside(o), NEW s \in Seq(Bytes)
    PROVE  LET w == Written(o, s)
               p == o.offset_ + Len(s)
           IN  /\ Sound(w)
               /\ w.offset_ = p
               /\ w.data_len_ = IF p > o.data_len_ THEN p ELSE o.data_len_
               /\ w.buf_size_ = o.buf_size_ \/ w.buf_size_ < 2 * p + Align
               /\ \A k \in 0 .. w.data_len_ - 1 : w.buf_[k] = ByteAfter(o, s, k)
<1>. DEFINE w == Written(o, s)
            at == o.offset_
            p == at + Len(s)
            len == IF p > o.data_len_ THEN p ELSE o.data_len_
<1>1. /\ o.data_len_ \in Nat /\ at \in Nat /\ at <= o.data_len_ /\ o.buf_size_ \in Nat
      /\ o.data_len_ <= o.buf_size_ /\ Len(s) \in Nat /\ p \in Nat /\ at <= p
  BY SoundParts, LenProperties DEF Inside
<1>2. CASE s = <<>>
  <2>1. w = o /\ Len(s) = 0
    BY <1>2 DEF Written
  <2>2. p = at
    BY <1>1, <2>1
  <2>3. len = o.data_len_ /\ at .. p - 1 = {}
    BY <1>1, <2>2
  <2>4. ASSUME NEW k \in 0 .. len - 1 PROVE ByteAfter(o, s, k) = o.buf_[k]
    <3>1. k \notin at .. p - 1
      BY <2>3
    <3>. QED
      BY <1>1, <3>1 DEF ByteAfter
  <2>. QED
    BY <2>1, <2>2, <2>3, <2>4
<1>3. CASE s # <<>>
  <2>. DEFINE g == WithSpace(o, p)
              c == Copied(g, at, s)
              e == Moved(c, p, len)
  <2>1. /\ Allocated(g) /\ g.data_len_ = o.data_len_ /\ g.buf_size_ >= p
        /\ g.buf_size_ >= o.buf_size_
        /\ g.buf_size_ = o.buf_size_ \/ g.buf_size_ < 2 * p + Align
        /\ \A k \in 0 .. o.data_len_ - 1 : g.buf_[k] = o.buf_[k]
    <3>. HIDE DEF p
    <3>. QED
      BY <1>1, WithSpaceIs
  <2>. HIDE DEF g
  <2>2. g.buf_size_ \in Nat
    BY <2>1, Parts
  <2>3. /\ Allocated(c) /\ c.buf_size_ = g.buf_size_ /\ c.data_len_ = o.data_len_
        /\ \A k \in 0 .. g.buf_size_ - 1 :
             c.buf_[k] = IF k \in at .. p - 1 THEN s[k - at + 1] ELSE g.buf_[k]
    <3>. HIDE DEF at
    <3>. QED
      BY <1>1, <2>1, CopiedIs
  <2>4. w = [c EXCEPT !.offset_ = p, !.data_len_ = IF p > c.data_len_ THEN p ELSE c.data_len_]
    BY <1>3 DEF Written, g
  <2>. HIDE DEF c
  <2>5. len \in Nat /\ len <= g.buf_size_ /\ p \in Int
    BY <1>1, <2>1, <2>2
  <2>6. w = e
    BY <2>3, <2>4 DEF Moved
  <2>. HIDE DEF p, len
  <2>7. /\ Allocated(e) /\ e.buf_size_ = c.buf_size_ /\ e.buf_ = c.buf_
        /\ e.data_len_ = len /\ e.offset_ = p
    <3>1. Allocated(c) /\ len \in Nat /\ p \in Int
      BY <2>3, <2>5
    <3>. QED
      BY <3>1, SetBoth
  <2>. HIDE DEF e
  <2>8. ASSUME NEW k \in 0 .. len - 1
        PROVE  /\ e.buf_[k] = IF k \in at .. p - 1 THEN s[k - at + 1] ELSE o.buf_[k]
               /\ e.buf_[k] \in Bytes
    <3>1. k \in 0 .. g.buf_size_ - 1
      BY <2>2, <2>5
    <3>2. e.buf_[k] = IF k \in at .. p - 1 THEN s[k - at + 1] ELSE g.buf_[k]
      BY <2>3, <2>7, <3>1
    <3>3. CASE k \in at .. p - 1
      <4>1. k - at + 1 \in 1 .. Len(s)
        BY <1>1, <3>3 DEF p
      <4>. QED
        BY <3>2, <3>3, <4>1, ElementOfSeq
    <3>4. CASE k \notin at .. p - 1
      <4>1. k \in 0 .. o.data_len_ - 1
        BY <1>1, <2>5, <3>4 DEF len
      <4>2. g.buf_[k] = o.buf_[k] /\ o.buf_[k] \in Bytes
        BY <2>1, <4>1, SoundParts
      <4>. QED
        BY <3>2, <3>4, <4>2
    <3>. QED
      BY <3>3, <3>4
  <2>9. Sound(e)
    BY <2>3, <2>5, <2>7, <2>8, SoundFrom
  <2>10. \A k \in 0 .. len - 1 : e.buf_[k] = ByteAfter(o, s, k)
    <3>1. ASSUME NEW k \in 0 .. len - 1 PROVE e.buf_[k] = ByteAfter(o, s, k)
      <4>1. ByteAfter(o, s, k) = IF k \in at .. p - 1 THEN s[k - at + 1] ELSE o.buf_[k]
        BY <1>1 DEF ByteAfter, p
      <4>2. e.buf_[k] = IF k \in at .. p - 1 THEN s[k - at + 1] ELSE o.buf_[k]
        BY <2>8
      <4>. QED
        BY <4>1, <4>2
    <3>. QED
      BY <3>1
  <2>. QED
    BY <2>1, <2>3, <2>6, <2>7, <2>9, <2>10 DEF p, len
<1>. QED
  BY <1>2, <1>3

\* The contents are the bytes that are in their places.
LEMMA ContentsFrom ==
    ASSUME NEW o, Sound(o), NEW c \in Seq(Bytes), Len(c) = o.data_len_,
           \A k \in 0 .. o.data_len_ - 1 : o.buf_[k] = c[k + 1]
    PROVE  Contents(o) = c
<1>. DEFINE d == Contents(o)
<1>1. d \in Seq(Bytes) /\ Len(d) = o.data_len_ /\ o.data_len_ \in Nat
  BY ContentsIs, SoundParts
<1>2. ASSUME NEW i \in 1 .. Len(d) PROVE d[i] = c[i]
  <2>1. i - 1 \in 0 .. o.data_len_ - 1 /\ (i - 1) + 1 = i /\ i \in 1 .. o.data_len_
    BY <1>1
  <2>2. d[i] = o.buf_[i - 1]
    BY <2>1, ContentsIs
  <2>3. o.buf_[i - 1] = c[i]
    BY <2>1
  <2>. QED
    BY <2>2, <2>3
<1>. HIDE DEF d
<1>3. d = c
  BY <1>1, <1>2, SeqEqual
<1>. QED
  BY <1>3 DEF d

\* What a file's write makes of its contents, byte by byte.
LEMMA OverwrittenIs ==
    ASSUME NEW c \in Seq(Bytes), NEW p \in Nat, p <= Len(c), NEW s \in Seq(Bytes)
    PROVE  LET w == File!Overwritten(c, p, s) IN
           /\ w \in Seq(Bytes)
           /\ Len(w) = IF p + Len(s) > Len(c) THEN p + Len(s) ELSE Len(c)
           /\ \A i \in 1 .. Len(w) :
                w[i] = IF i - 1 \in p .. p + Len(s) - 1 THEN s[i - p] ELSE c[i]
<1>. DEFINE n == Len(c)
            m == Len(s)
            a == SubSeq(c, 1, p)
            b == SubSeq(c, p + m + 1, n)
            as == a \o s
            w == as \o b
<1>1. n \in Nat /\ m \in Nat /\ p <= n
  BY LenProperties
<1>2. \A i \in 1 .. n : c[i] \in Bytes
  BY ElementOfSeq
<1>3. a \in Seq(Bytes) /\ Len(a) = p /\ \A i \in 1 .. p : a[i] = c[i]
  <2>1. \A i \in 1 .. p : c[i] \in Bytes
    BY <1>1, <1>2
  <2>2. /\ a \in Seq(Bytes) /\ Len(a) = IF 1 <= p THEN p - 1 + 1 ELSE 0
        /\ \A i \in 1 .. p - 1 + 1 : a[i] = c[1 + i - 1]
    BY <2>1, SubSeqProperties
  <2>. HIDE DEF a
  <2>. QED
    BY <2>2
<1>4. /\ b \in Seq(Bytes) /\ Len(b) = IF p + m < n THEN n - p - m ELSE 0
      /\ \A i \in 1 .. n - p - m : b[i] = c[p + m + i]
  <2>1. \A i \in p + m + 1 .. n : c[i] \in Bytes
    BY <1>1, <1>2
  <2>2. p + m + 1 \in Int /\ n \in Int
    BY <1>1
  <2>. DEFINE q == p + m + 1
  <2>3. q = p + m + 1 /\ q \in Int
    BY <1>1
  <2>4. b = SubSeq(c, q, n)
    OBVIOUS
  <2>. HIDE DEF b, n, m, q
  <2>5. /\ b \in Seq(Bytes) /\ Len(b) = IF q <= n THEN n - q + 1 ELSE 0
        /\ \A i \in 1 .. n - q + 1 : b[i] = c[q + i - 1]
    BY <2>1, <2>2, <2>3, <2>4, SubSeqProperties
  <2>6. Len(b) = IF p + m < n THEN n - p - m ELSE 0
    BY <1>1, <2>3, <2>5
  <2>7. ASSUME NEW i \in 1 .. n - p - m PROVE b[i] = c[p + m + i]
    <3>1. i \in 1 .. n - q + 1 /\ q + i - 1 = p + m + i
      BY <1>1, <2>3
    <3>. QED
      BY <2>5, <3>1
  <2>. QED
    BY <2>5, <2>6, <2>7
<1>5. w = File!Overwritten(c, p, s)
  BY DEF File!Overwritten
<1>. HIDE DEF a, b
<1>6. /\ as \in Seq(Bytes) /\ Len(as) = p + m
      /\ \A i \in 1 .. p + m : as[i] = IF i <= p THEN a[i] ELSE s[i - p]
  BY <1>3, ConcatProperties
<1>. HIDE DEF as, n, m
<1>7. /\ w \in Seq(Bytes) /\ Len(w) = p + m + Len(b)
      /\ \A i \in 1 .. p + m + Len(b) : w[i] = IF i <= p + m THEN as[i] ELSE b[i - (p + m)]
  <2>1. /\ w \in Seq(Bytes) /\ Len(w) = Len(as) + Len(b)
        /\ \A i \in 1 .. Len(as) + Len(b) : w[i] = IF i <= Len(as) THEN as[i] ELSE b[i - Len(as)]
    BY <1>4, <1>6, ConcatProperties
  <2>. HIDE DEF w
  <2>. QED
    BY <1>6, <2>1
<1>. HIDE DEF w
<1>8. Len(w) = IF p + m > n THEN p + m ELSE n
  BY <1>1, <1>4, <1>7
<1>9. ASSUME NEW i \in 1 .. Len(w)
      PROVE  w[i] = IF i - 1 \in p .. p + m - 1 THEN s[i - p] ELSE c[i]
  <2>1. i \in 1 .. p + m + Len(b) /\ i \in Nat /\ i >= 1
    BY <1>1, <1>7, <1>8
  <2>2. w[i] = IF i <= p + m THEN as[i] ELSE b[i - (p + m)]
    BY <1>7, <2>1
  <2>3. CASE i <= p
    <3>1. i \in 1 .. p + m /\ i \in 1 .. p /\ ~(i - 1 \in p .. p + m - 1) /\ i <= p + m
      BY <1>1, <2>1, <2>3
    <3>2. w[i] = as[i]
      BY <2>2, <3>1
    <3>3. as[i] = a[i]
      BY <1>6, <2>3, <3>1
    <3>4. a[i] = c[i]
      BY <1>3, <3>1
    <3>. QED
      BY <3>1, <3>2, <3>3, <3>4
  <2>4. CASE ~(i <= p) /\ i <= p + m
    <3>1. i \in 1 .. p + m /\ i - 1 \in p .. p + m - 1
      BY <1>1, <2>1, <2>4
    <3>. QED
      BY <1>6, <2>2, <2>4, <3>1
  <2>5. CASE ~(i <= p + m)
    <3>1. i <= n /\ i - (p + m) \in 1 .. n - p - m /\ p + m + (i - (p + m)) = i
      BY <1>1, <1>8, <2>1, <2>5
    <3>2. ~(i - 1 \in p .. p + m - 1)
      BY <1>1, <2>1, <2>5
    <3>3. b[i - (p + m)] = c[i]
      BY <1>4, <3>1
    <3>. QED
      BY <2>2, <2>5, <3>2, <3>3
  <2>. QED
    BY <1>1, <2>1, <2>3, <2>4, <2>5
<1>. QED
  BY <1>5, <1>7, <1>8, <1>9 DEF n, m

\* write does to the contents what a file's write does.
LEMMA WrittenContents ==
    ASSUME NEW o, Sound(o), Inside(o), NEW s \in Seq(Bytes)
    PROVE  Contents(Written(o, s)) = File!Overwritten(Contents(o), o.offset_, s)
<1>. DEFINE w == Written(o, s)
            at == o.offset_
            c == Contents(o)
            t == File!Overwritten(c, at, s)
<1>1. /\ o.data_len_ \in Nat /\ at \in Nat /\ at <= o.data_len_ /\ Len(s) \in Nat
  BY SoundParts, LenProperties DEF Inside
<1>2. c \in Seq(Bytes) /\ Len(c) = o.data_len_ /\ \A i \in 1 .. o.data_len_ : c[i] = o.buf_[i - 1]
  BY ContentsIs
<1>3. /\ Sound(w) /\ w.data_len_ = IF at + Len(s) > o.data_len_ THEN at + Len(s) ELSE o.data_len_
      /\ \A k \in 0 .. w.data_len_ - 1 :
           w.buf_[k] = IF k \in at .. at + Len(s) - 1 THEN s[k - at + 1] ELSE o.buf_[k]
  <2>1. Sound(w)
    BY WrittenIs
  <2>2. w.data_len_ = IF at + Len(s) > o.data_len_ THEN at + Len(s) ELSE o.data_len_
    BY WrittenIs
  <2>3. ASSUME NEW k \in 0 .. w.data_len_ - 1
        PROVE  w.buf_[k] = IF k \in at .. at + Len(s) - 1 THEN s[k - at + 1] ELSE o.buf_[k]
    <3>1. w.buf_[k] = ByteAfter(o, s, k)
      BY WrittenIs
    <3>. QED
      BY <3>1 DEF ByteAfter
  <2>. QED
    BY <2>1, <2>2, <2>3
<1>. HIDE DEF w, c, at
<1>4. /\ t \in Seq(Bytes) /\ Len(t) = IF at + Len(s) > Len(c) THEN at + Len(s) ELSE Len(c)
      /\ \A i \in 1 .. Len(t) : t[i] = IF i - 1 \in at .. at + Len(s) - 1 THEN s[i - at] ELSE c[i]
  BY <1>1, <1>2, OverwrittenIs
<1>. HIDE DEF t
<1>5. Len(t) = w.data_len_ /\ w.data_len_ \in Nat
  BY <1>1, <1>2, <1>3, <1>4
<1>6. ASSUME NEW k \in 0 .. w.data_len_ - 1 PROVE w.buf_[k] = t[k + 1]
  <2>1. /\ k + 1 \in 1 .. Len(t) /\ (k + 1) - 1 = k /\ (k + 1) - at = k - at + 1
    BY <1>1, <1>5
  <2>2. t[k + 1] = IF k \in at .. at + Len(s) - 1 THEN s[k - at + 1] ELSE c[k + 1]
    BY <1>4, <2>1
  <2>3. w.buf_[k] = IF k \in at .. at + Len(s) - 1 THEN s[k - at + 1] ELSE o.buf_[k]
    BY <1>3
  <2>4. CASE k \in at .. at + Len(s) - 1
    BY <2>2, <2>3, <2>4
  <2>5. CASE k \notin at .. at + Len(s) - 1
    <3>1. k + 1 \in 1 .. o.data_len_
      BY <1>1, <1>3, <2>5
    <3>2. c[k + 1] = o.buf_[k]
      BY <1>2, <2>1, <3>1
    <3>. QED
      BY <2>2, <2>3, <2>5, <3>2
  <2>. QED
    BY <2>4, <2>5
<1>7. Contents(w) = t
  BY <1>3, <1>4, <1>5, <1>6, ContentsFrom
<1>. QED
  BY <1>7 DEF w, t, c, at

\* A new buffer for n bytes, filled with s.
Filled(o, n, s) == [Copied(Resized(o, n), 0, s) EXCEPT !.data_len_ = Len(s)]

\* It holds s and nothing else, at the position the object had.
LEMMA FilledIs ==
    ASSUME NEW o, Sound(o), NEW n \in Nat, NEW s \in Seq(Bytes), Len(s) <= n
    PROVE  LET w == Filled(o, n, s) IN
           /\ Sound(w) /\ Contents(w) = s
           /\ w.offset_ = o.offset_ /\ w.data_len_ = Len(s) /\ w.buf_size_ = Aligned(n)
<1>. DEFINE first == 0
            r == Resized(o, n)
            c == Copied(r, first, s)
            len == Len(s)
            w == Filled(o, n, s)
<1>1. Allocated(o) /\ o.data_len_ <= o.buf_size_ /\ len \in Nat
  BY SoundParts, LenProperties
<1>2. Allocated(r) /\ r.buf_size_ = Aligned(n) /\ r.offset_ = o.offset_
  BY <1>1, ResizedIs
<1>3. Aligned(n) \in Nat /\ len <= Aligned(n)
  BY <1>1, AlignedIs
<1>4. w = [c EXCEPT !.data_len_ = len]
  BY DEF Filled
<1>5. first \in Nat /\ first + Len(s) <= r.buf_size_ /\ first = 0
  BY <1>1, <1>2, <1>3
<1>. HIDE DEF first, r
<1>6. Allocated(c) /\ c.buf_size_ = r.buf_size_ /\ c.offset_ = r.offset_
  BY <1>2, <1>5, CopiedIs
<1>7. ASSUME NEW k \in 0 .. len - 1 PROVE c.buf_[k] = s[k + 1] /\ s[k + 1] \in Bytes
  <2>1. k \in 0 .. r.buf_size_ - 1
    BY <1>1, <1>2, <1>3
  <2>2. c.buf_[k] = IF k \in first .. first + Len(s) - 1 THEN s[k - first + 1] ELSE r.buf_[k]
    BY <1>2, <1>5, <2>1, CopiedIs
  <2>3. k \in first .. first + Len(s) - 1 /\ k - first + 1 = k + 1 /\ k + 1 \in 1 .. Len(s)
    BY <1>1, <1>5
  <2>. QED
    BY <2>2, <2>3, ElementOfSeq
<1>. HIDE DEF c, len
<1>8. /\ Allocated([c EXCEPT !.data_len_ = len])
      /\ [c EXCEPT !.data_len_ = len].buf_size_ = c.buf_size_
      /\ [c EXCEPT !.data_len_ = len].buf_ = c.buf_
      /\ [c EXCEPT !.data_len_ = len].data_len_ = len
      /\ [c EXCEPT !.data_len_ = len].offset_ = c.offset_
  BY <1>1, <1>6, SetLength
<1>. HIDE DEF w
<1>9. /\ Allocated(w) /\ w.buf_size_ = Aligned(n) /\ w.buf_ = c.buf_ /\ w.data_len_ = len
      /\ w.offset_ = o.offset_
  BY <1>2, <1>4, <1>6, <1>8
<1>10. Sound(w)
  BY <1>3, <1>7, <1>9, SoundFrom
<1>11. Contents(w) = s
  BY <1>7, <1>9, <1>10, ContentsFrom DEF len
<1>. QED
  BY <1>9, <1>10, <1>11 DEF w, len

\* The constructors make an object of the bytes they are given.
LEMMA ConstructedIs ==
    ASSUME NEW s \in Seq(Bytes), NEW n \in Nat, Len(s) <= n
    PROVE  LET w == Constructed(s, n) IN
           /\ Sound(w) /\ Contents(w) = s
           /\ w.offset_ = 0 /\ w.data_len_ = Len(s) /\ w.buf_size_ = Aligned(n)
<1>1. Constructed(s, n) = Filled(Empty, n, s)
  BY DEF Constructed, Filled
<1>2. Empty.offset_ = 0
  BY DEF Empty
<1>. QED
  BY <1>1, <1>2, EmptyIs, FilledIs

\* operator= makes the contents those of the other object, and no more.
LEMMA AssignedIs ==
    ASSUME NEW o, Sound(o), NEW v, Sound(v)
    PROVE  LET w == Assigned(o, v) IN
           /\ Sound(w) /\ Contents(w) = Contents(v)
           /\ w.offset_ = o.offset_ /\ w.data_len_ = v.data_len_ /\ w.buf_size_ = v.buf_size_
<1>. DEFINE c == Contents(v)
            n == v.buf_size_
<1>1. /\ c \in Seq(Bytes) /\ Len(c) = v.data_len_ /\ n \in Nat /\ Len(c) <= n
      /\ Aligned(n) = n
  BY ContentsIs, SoundParts
<1>2. Assigned(o, v) = Filled(o, n, c)
  BY <1>1 DEF Assigned, Filled
<1>. HIDE DEF c, n
<1>3. /\ Sound(Filled(o, n, c)) /\ Contents(Filled(o, n, c)) = c
      /\ Filled(o, n, c).offset_ = o.offset_ /\ Filled(o, n, c).data_len_ = Len(c)
      /\ Filled(o, n, c).buf_size_ = Aligned(n)
  BY <1>1, FilledIs
<1>. QED
  BY <1>1, <1>2, <1>3 DEF c, n

\* A change of the position alone leaves a sound object with its contents.
LEMMA PositionedIs ==
    ASSUME NEW o, Sound(o), NEW at \in Int
    PROVE  LET w == [o EXCEPT !.offset_ = at] IN
           /\ Sound(w) /\ Contents(w) = Contents(o) /\ w.offset_ = at
           /\ w.data_len_ = o.data_len_ /\ w.buf_size_ = o.buf_size_
<1>. DEFINE w == [o EXCEPT !.offset_ = at]
<1>1. /\ Allocated(w) /\ w.buf_size_ = o.buf_size_ /\ w.buf_ = o.buf_
      /\ w.data_len_ = o.data_len_ /\ w.offset_ = at
  BY SoundParts, SetOffset
<1>. HIDE DEF w
<1>2. Sound(w)
  BY <1>1, SoundParts, SoundFrom
<1>3. Contents(w) = Contents(o)
  BY <1>1 DEF Contents, Slice
<1>. QED
  BY <1>1, <1>2, <1>3 DEF w

\* Where seek goes.
SeekTo(o, whence, i) ==
    CASE whence = "seek_cur" -> o.offset_ + i
      [] whence = "seek_end" -> o.data_len_ + i
      [] whence = "seek_set" -> i

\* seek moves the position and nothing else.
LEMMA SoughtIs ==
    ASSUME NEW o, Sound(o), NEW i \in Int,
           NEW whence \in {"seek_set", "seek_cur", "seek_end"}
    PROVE  LET w == Sought(o, whence, i) IN
           /\ Sound(w) /\ Contents(w) = Contents(o)
           /\ w.offset_ = SeekTo(o, whence, i) /\ w.offset_ \in Int
           /\ w.data_len_ = o.data_len_ /\ w.buf_size_ = o.buf_size_
<1>. DEFINE at == SeekTo(o, whence, i)
<1>1. at \in Int
  BY SoundParts DEF SeekTo
<1>2. Sought(o, whence, i) = [o EXCEPT !.offset_ = at]
  BY DEF Sought, SeekTo
<1>. HIDE DEF at
<1>. QED
  BY <1>1, <1>2, PositionedIs DEF at

\* What is written at the end follows what there was.
LEMMA WrittenAtEnd ==
    ASSUME NEW o, Sound(o), o.offset_ = o.data_len_, NEW s \in Seq(Bytes)
    PROVE  LET w == Written(o, s) IN
           /\ Sound(w) /\ Contents(w) = Contents(o) \o s
           /\ w.offset_ = o.data_len_ + Len(s) /\ w.data_len_ = o.data_len_ + Len(s)
<1>. DEFINE c == Contents(o)
            n == o.data_len_
            w == Written(o, s)
            t == File!Overwritten(c, n, s)
            u == c \o s
<1>1. n \in Nat /\ Len(s) \in Nat /\ Inside(o)
  BY SoundParts, LenProperties DEF Inside
<1>2. c \in Seq(Bytes) /\ Len(c) = n
  BY ContentsIs
<1>3. Sound(w) /\ w.offset_ = n + Len(s)
  BY <1>1, WrittenIs
<1>4. w.data_len_ = n + Len(s)
  <2>1. w.data_len_ = IF n + Len(s) > n THEN n + Len(s) ELSE n
    BY <1>1, WrittenIs
  <2>. QED
    BY <1>1, <2>1
<1>5. Contents(w) = t
  BY <1>1, WrittenContents
<1>. HIDE DEF c, n, w
<1>6. /\ t \in Seq(Bytes) /\ Len(t) = IF n + Len(s) > Len(c) THEN n + Len(s) ELSE Len(c)
      /\ \A i \in 1 .. Len(t) : t[i] = IF i - 1 \in n .. n + Len(s) - 1 THEN s[i - n] ELSE c[i]
  BY <1>1, <1>2, OverwrittenIs
<1>7. /\ u \in Seq(Bytes) /\ Len(u) = Len(c) + Len(s)
      /\ \A i \in 1 .. Len(c) + Len(s) : u[i] = IF i <= Len(c) THEN c[i] ELSE s[i - Len(c)]
  BY <1>2, ConcatProperties
<1>. HIDE DEF t, u
<1>8. Len(t) = n + Len(s) /\ Len(u) = n + Len(s)
  BY <1>1, <1>2, <1>6, <1>7
<1>9. ASSUME NEW i \in 1 .. Len(t) PROVE t[i] = u[i]
  <2>1. i \in 1 .. Len(c) + Len(s)
    BY <1>1, <1>2, <1>8
  <2>2. t[i] = IF i - 1 \in n .. n + Len(s) - 1 THEN s[i - n] ELSE c[i]
    BY <1>6
  <2>3. u[i] = IF i <= n THEN c[i] ELSE s[i - n]
    BY <1>2, <1>7, <2>1
  <2>4. (i - 1 \in n .. n + Len(s) - 1) <=> ~(i <= n)
    BY <1>1, <1>2, <2>1
  <2>. QED
    BY <2>2, <2>3, <2>4
<1>10. t = u
  BY <1>6, <1>7, <1>8, <1>9, SeqEqual
<1>. QED
  BY <1>3, <1>4, <1>5, <1>10 DEF u, c, n, w

-----------------------------------------------------------------------------
(* Every state that is reached *)

\* Every object is sound, neither longer than the bound nor in a buffer larger
\* than doubling and alignment explain, and what was read is a string.
Inv ==
    /\ str = [x \in Objects |-> str[x]]
    /\ \A x \in Objects : /\ Sound(str[x])
                          /\ str[x].data_len_ <= MaxLen
                          /\ str[x].buf_size_ <= 2 * (MaxLen + Align)
    /\ out \in Strings

\* The strings are the sequences of bytes that are not too long.
LEMMA StringsAre ==
    /\ \A s \in Strings : s \in Seq(Bytes) /\ Len(s) \in Nat /\ Len(s) <= MaxLen
    /\ \A s \in Seq(Bytes) : Len(s) <= MaxLen => s \in Strings
    /\ File!Strings = Strings
<1>1. ASSUME NEW s \in Strings PROVE s \in Seq(Bytes) /\ Len(s) \in Nat /\ Len(s) <= MaxLen
  <2>1. PICK n \in 0 .. MaxLen : s \in [1 .. n -> Bytes]
    BY DEF Strings
  <2>2. n \in Nat /\ n <= MaxLen
    BY ConstantsAssumption
  <2>3. s \in Seq(Bytes)
    BY <2>1, <2>2
  <2>4. Len(s) = n
    BY <2>1, <2>2
  <2>. QED
    BY <2>2, <2>3, <2>4
<1>2. ASSUME NEW s \in Seq(Bytes), Len(s) <= MaxLen PROVE s \in Strings
  <2>1. s \in [1 .. Len(s) -> Bytes] /\ Len(s) \in Nat
    BY LenProperties
  <2>2. Len(s) \in 0 .. MaxLen
    BY <1>2, <2>1, ConstantsAssumption
  <2>. QED
    BY <2>1, <2>2 DEF Strings
<1>3. File!Strings = Strings
  BY DEF File!Strings, Strings
<1>. QED
  BY <1>1, <1>2, <1>3

\* The empty string is one.
LEMMA NothingIsString == <<>> \in Strings
<1>1. <<>> \in Seq(Bytes) /\ Len(<<>>) = 0 /\ MaxLen \in Nat
  BY EmptySeq, ConstantsAssumption
<1>2. Len(<<>>) <= MaxLen
  BY <1>1
<1>. QED
  BY <1>1, <1>2, StringsAre

\* Inv holds initially.
LEMMA InitInv == Init => Inv
<1>. SUFFICES ASSUME Init PROVE Inv
  OBVIOUS
<1>1. str = [x \in Objects |-> Empty] /\ out = <<>>
  BY DEF Init
<1>2. Empty.data_len_ <= MaxLen /\ Empty.buf_size_ <= 2 * (MaxLen + Align)
  BY ConstantsAssumption DEF Empty
<1>3. out \in Strings
  BY <1>1, NothingIsString
<1>4. \A x \in Objects : str[x] = Empty
  BY <1>1
<1>5. str = [x \in Objects |-> str[x]]
  BY <1>1
<1>. QED
  BY <1>2, <1>3, <1>4, <1>5, EmptyIs DEF Inv

\* The file that an object is, to whom knows the object: its contents and its
\* position, if it is in them.
Files == [x \in Objects |-> Contents(str[x])]
PlaceIn(o) == IF Inside(o) THEN o.offset_ ELSE Lost
Places == [x \in Objects |-> PlaceIn(str[x])]

\* An object that becomes a sound one: the file is set to its contents and to
\* its position, or has lost it.
LEMMA BecomesSound ==
    ASSUME Inv, NEW x \in Objects, NEW o, Sound(o),
           str' = [str EXCEPT ![x] = o], out' \in Strings,
           o.data_len_ <= MaxLen, o.buf_size_ <= 2 * (MaxLen + Align)
    PROVE  /\ Inv'
           /\ Files' = [Files EXCEPT ![x] = Contents(o)]
           /\ Places' = [Places EXCEPT ![x] = PlaceIn(o)]
<1>1. str = [y \in Objects |-> str[y]]
  BY DEF Inv
<1>2. /\ str' = [y \in Objects |-> str'[y]]
      /\ \A y \in Objects : str'[y] = IF y = x THEN o ELSE str[y]
  BY <1>1
<1>3. Inv'
  <2>1. ASSUME NEW y \in Objects
        PROVE  /\ Sound(str'[y]) /\ str'[y].data_len_ <= MaxLen
               /\ str'[y].buf_size_ <= 2 * (MaxLen + Align)
    <3>1. CASE y = x
      BY <1>2, <3>1
    <3>2. CASE y # x
      <4>1. str'[y] = str[y]
        BY <1>2, <3>2
      <4>. QED
        BY <4>1 DEF Inv
    <3>. QED
      BY <3>1, <3>2
  <2>. QED
    BY <1>2, <2>1 DEF Inv
<1>4. Files' = [Files EXCEPT ![x] = Contents(o)]
  <2>1. Files' = [y \in Objects |-> Contents(str'[y])]
    BY DEF Files
  <2>2. ASSUME NEW y \in Objects
        PROVE  Contents(str'[y]) = IF y = x THEN Contents(o) ELSE Contents(str[y])
    BY <1>2
  <2>. QED
    BY <2>1, <2>2 DEF Files
<1>5. Places' = [Places EXCEPT ![x] = PlaceIn(o)]
  <2>1. Places' = [y \in Objects |-> PlaceIn(str'[y])]
    BY DEF Places
  <2>2. ASSUME NEW y \in Objects
        PROVE  PlaceIn(str'[y]) = IF y = x THEN PlaceIn(o) ELSE PlaceIn(str[y])
    BY <1>2
  <2>. QED
    BY <2>1, <2>2 DEF Places
<1>. QED
  BY <1>3, <1>4, <1>5

\* What the file knows of an object.
LEMMA FileOf ==
    ASSUME Inv, NEW x \in Objects
    PROVE  /\ Sound(str[x]) /\ str[x].data_len_ \in Nat /\ str[x].offset_ \in Int
           /\ str[x].data_len_ <= MaxLen /\ str[x].buf_size_ <= 2 * (MaxLen + Align)
           /\ Contents(str[x]) \in Seq(Bytes) /\ Len(Contents(str[x])) = str[x].data_len_
           /\ Contents(str[x]) \in Strings
           /\ Files[x] = Contents(str[x]) /\ Places[x] = PlaceIn(str[x])
<1>1. /\ Sound(str[x]) /\ str[x].data_len_ <= MaxLen
      /\ str[x].buf_size_ <= 2 * (MaxLen + Align)
  BY DEF Inv
<1>2. str[x].data_len_ \in Nat /\ str[x].offset_ \in Int
  BY <1>1, SoundParts
<1>3. Contents(str[x]) \in Seq(Bytes) /\ Len(Contents(str[x])) = str[x].data_len_
  BY <1>1, ContentsIs
<1>4. Contents(str[x]) \in Strings
  BY <1>1, <1>3, StringsAre
<1>5. Files[x] = Contents(str[x]) /\ Places[x] = PlaceIn(str[x])
  BY DEF Files, Places
<1>. QED
  BY <1>1, <1>2, <1>3, <1>4, <1>5

\* A position that is known is a number.
LEMMA PlaceIs ==
    ASSUME NEW o, Sound(o)
    PROVE  /\ PlaceIn(o) = Lost <=> ~Inside(o)
           /\ Inside(o) => PlaceIn(o) = o.offset_
           /\ PlaceIn(o) = IF o.offset_ \in 0 .. Len(Contents(o)) THEN o.offset_ ELSE Lost
           /\ PlaceIn(o) \in 0 .. Len(Contents(o)) \cup {Lost}
<1>1. o.offset_ \in Int /\ Len(Contents(o)) = o.data_len_
  BY SoundParts, ContentsIs
<1>2. o.offset_ # Lost
  BY <1>1, ConstantsAssumption
<1>. QED
  BY <1>1, <1>2 DEF PlaceIn, Inside

-----------------------------------------------------------------------------
(* Each step, and the file's step that it is *)

\* A buffer that was kept, or made for what is not too long, is not too large.
LEMMA GrownEnough ==
    ASSUME NEW w, Sound(w), w.data_len_ <= MaxLen,
           NEW o, o.buf_size_ <= 2 * (MaxLen + Align),
           NEW p \in Int, NEW len \in Int,
           w.data_len_ = IF p > len THEN p ELSE len,
           w.buf_size_ = o.buf_size_ \/ w.buf_size_ < 2 * p + Align
    PROVE  w.buf_size_ <= 2 * (MaxLen + Align)
<1>1. Align \in Nat /\ MaxLen \in Nat /\ w.buf_size_ \in Nat
  BY ConstantsAssumption, SoundParts
<1>2. p <= MaxLen
  BY <1>1
<1>3. CASE w.buf_size_ = o.buf_size_
  BY <1>3
<1>4. CASE w.buf_size_ < 2 * p + Align
  BY <1>1, <1>2, <1>4
<1>. QED
  BY <1>3, <1>4

\* A write within the string.
LEMMA WriteStep ==
    ASSUME Inv, NEW x \in Objects, NEW s \in Strings, Write(x, s)
    PROVE  Inv' /\ File!FileNext
<1>. DEFINE o == str[x]
            w == Written(o, s)
            c == Contents(o)
<1>1. /\ Inside(o) /\ w.data_len_ <= MaxLen /\ str' = [str EXCEPT ![x] = w] /\ out' = <<>>
  BY DEF Write, Becomes
<1>2. /\ Sound(o) /\ o.offset_ \in Int /\ o.data_len_ \in Nat
      /\ o.buf_size_ <= 2 * (MaxLen + Align) /\ Files[x] = c
  BY FileOf
<1>3. s \in Seq(Bytes) /\ Len(s) \in Nat
  BY StringsAre
<1>4. /\ Sound(w) /\ w.offset_ = o.offset_ + Len(s)
      /\ w.data_len_ = IF o.offset_ + Len(s) > o.data_len_ THEN o.offset_ + Len(s) ELSE o.data_len_
      /\ w.buf_size_ = o.buf_size_ \/ w.buf_size_ < 2 * (o.offset_ + Len(s)) + Align
  BY <1>1, <1>2, <1>3, WrittenIs
<1>5. Contents(w) = File!Overwritten(c, o.offset_, s)
  BY <1>1, <1>2, <1>3, WrittenContents
<1>6. w.buf_size_ <= 2 * (MaxLen + Align)
  BY <1>1, <1>2, <1>3, <1>4, GrownEnough
<1>. HIDE DEF w
<1>7. /\ Inv' /\ Files' = [Files EXCEPT ![x] = Contents(w)]
      /\ Places' = [Places EXCEPT ![x] = PlaceIn(w)]
  BY <1>1, <1>4, <1>6, NothingIsString, BecomesSound
<1>8. Places[x] = o.offset_ /\ Places[x] # Lost
  BY <1>1, <1>2, FileOf, PlaceIs
<1>9. PlaceIn(w) = IF w.offset_ \in 0 .. Len(Contents(w)) THEN w.offset_ ELSE Lost
  BY <1>4, PlaceIs
<1>10. File!Write(x, s)
  <2>. DEFINE t == File!Overwritten(Files[x], Places[x], s)
              p == Places[x] + Len(s)
  <2>1. /\ Places[x] # Lost /\ Files' = [Files EXCEPT ![x] = t]
        /\ Places' = [Places EXCEPT ![x] = IF p \in 0 .. Len(t) THEN p ELSE Lost]
        /\ out' = <<>>
    BY <1>1, <1>2, <1>4, <1>5, <1>7, <1>8, <1>9
  <2>. QED
    BY <2>1 DEF File!Write, File!Known, File!Set, Files, Places, PlaceIn
<1>. QED
  BY <1>7, <1>10, StringsAre DEF File!FileNext

\* A read within the string.
LEMMA ReadStep ==
    ASSUME Inv, NEW x \in Objects, NEW n \in 0 .. MaxLen, Read(x, n)
    PROVE  Inv' /\ File!FileNext
<1>. DEFINE o == str[x]
            at == o.offset_
            c == Contents(o)
            last == ReadEnd(o, n)
            w == [o EXCEPT !.offset_ = last]
<1>1. /\ Inside(o) /\ out' = Slice(o, at, last)
      /\ str' = [str EXCEPT ![x].offset_ = last]
      /\ str = [y \in Objects |-> str[y]]
  BY DEF Read, Inv
<1>2. /\ Sound(o) /\ at \in Nat /\ o.data_len_ \in Nat /\ at <= o.data_len_
      /\ o.data_len_ <= MaxLen /\ o.buf_size_ <= 2 * (MaxLen + Align)
      /\ c \in Seq(Bytes) /\ Len(c) = o.data_len_ /\ Files[x] = c
  BY <1>1, FileOf DEF Inside
<1>3. Places[x] = at /\ at # Lost
  BY <1>1, <1>2, FileOf, PlaceIs
<1>4. /\ last = IF at + n <= Len(c) THEN at + n ELSE Len(c)
      /\ last \in Nat /\ last <= o.data_len_ /\ at <= last
  BY <1>2 DEF ReadEnd, Min
<1>5. str' = [str EXCEPT ![x] = w]
  <2>. HIDE DEF last
  <2>. QED
    BY <1>1
<1>6. out' = Slice(o, at, last)
  BY <1>1
<1>. HIDE DEF last, at
<1>7. Slice(o, at, last) = SubSeq(c, at + 1, last)
  BY <1>2, <1>4, SliceOfContents
<1>8. out' \in Strings
  <2>1. Slice(o, at, last) \in Seq(Bytes) /\ Len(Slice(o, at, last)) = last - at
    BY <1>2, <1>4, SliceIs
  <2>2. last - at <= MaxLen
    BY <1>2, <1>4, ConstantsAssumption
  <2>. QED
    BY <1>6, <2>1, <2>2, StringsAre
<1>9. /\ Sound(w) /\ Contents(w) = c /\ w.offset_ = last
      /\ w.data_len_ = o.data_len_ /\ w.buf_size_ = o.buf_size_
  BY <1>2, <1>4, PositionedIs
<1>10. PlaceIn(w) = last
  BY <1>4, <1>9 DEF Inside, PlaceIn
<1>. HIDE DEF w
<1>11. /\ Inv' /\ Files' = [Files EXCEPT ![x] = Contents(w)]
       /\ Places' = [Places EXCEPT ![x] = PlaceIn(w)]
  BY <1>2, <1>5, <1>8, <1>9, BecomesSound
<1>12. Files' = Files
  <2>1. Files = [y \in Objects |-> Files[y]]
    BY DEF Files
  <2>. QED
    BY <1>2, <1>9, <1>11, <2>1
<1>13. File!Read(x, n)
  <2>. DEFINE end == IF Places[x] + n <= Len(Files[x]) THEN Places[x] + n ELSE Len(Files[x])
  <2>1. /\ Places[x] # Lost /\ Files' = Files
        /\ Places' = [Places EXCEPT ![x] = end]
        /\ out' = SubSeq(Files[x], Places[x] + 1, end)
    <3>. HIDE DEF c
    <3>. QED
      BY <1>2, <1>3, <1>4, <1>6, <1>7, <1>10, <1>11, <1>12
  <2>. QED
    BY <2>1 DEF File!Read, File!Known, Files, Places, PlaceIn
<1>. QED
  BY <1>11, <1>13 DEF File!FileNext

\* seek, to a place in the string or outside it.
LEMMA SeekStep ==
    ASSUME Inv, NEW x \in Objects, NEW i \in -1 .. 1,
           NEW whence \in {"seek_set", "seek_cur", "seek_end"}, Seek(x, whence, i)
    PROVE  Inv' /\ File!FileNext
<1>. DEFINE o == str[x]
            w == Sought(o, whence, i)
            c == Contents(o)
            p == PlaceIn(w)
<1>1. str' = [str EXCEPT ![x] = w] /\ w.data_len_ <= MaxLen /\ out' = <<>>
  BY DEF Seek, Becomes
<1>2. Sound(o) /\ o.buf_size_ <= 2 * (MaxLen + Align) /\ Files[x] = c
  BY FileOf
<1>3. /\ Sound(w) /\ Contents(w) = c /\ w.buf_size_ = o.buf_size_
  <2>1. i \in Int
    OBVIOUS
  <2>. QED
    BY <1>2, <2>1, SoughtIs
<1>. HIDE DEF w
<1>4. /\ Inv' /\ Files' = [Files EXCEPT ![x] = Contents(w)]
      /\ Places' = [Places EXCEPT ![x] = p]
  BY <1>1, <1>2, <1>3, NothingIsString, BecomesSound
<1>5. p \in 0 .. Len(Files[x]) \cup {Lost}
  BY <1>2, <1>3, PlaceIs
<1>6. p = IF p \in 0 .. Len(Files[x]) THEN p ELSE Lost
  BY <1>5
<1>7. \E q \in 0 .. Len(Files[x]) \cup {Lost} : File!Seek(x, q)
  <2>. HIDE DEF p
  <2>1. PICK q \in 0 .. Len(Files[x]) \cup {Lost} : q = p
    BY <1>5
  <2>2. /\ Files' = [Files EXCEPT ![x] = Files[x]]
        /\ Places' = [Places EXCEPT ![x] = IF q \in 0 .. Len(Files[x]) THEN q ELSE Lost]
        /\ out' = <<>>
    BY <1>1, <1>2, <1>3, <1>4, <1>6, <2>1
  <2>3. File!Seek(x, q)
    BY <2>2 DEF File!Seek, File!Set, Files, Places, PlaceIn
  <2>. QED
    BY <2>3
<1>. QED
  BY <1>4, <1>7 DEF File!FileNext, Files

\* append, of any bytes.
LEMMA AppendStep ==
    ASSUME Inv, NEW x \in Objects, NEW s \in Seq(Bytes), AppendBytes(x, s)
    PROVE  Inv' /\ File!AppendTo(x, s)
<1>. DEFINE o == str[x]
            e == Sought(o, "seek_end", 0)
            w == Written(e, s)
            c == Contents(o)
            n == o.data_len_
<1>1. str' = [str EXCEPT ![x] = w] /\ w.data_len_ <= MaxLen /\ out' = <<>>
  BY DEF AppendBytes, Appended, Becomes
<1>2. /\ Sound(o) /\ o.buf_size_ <= 2 * (MaxLen + Align) /\ Files[x] = c
      /\ c \in Seq(Bytes) /\ Len(c) = n /\ n \in Nat /\ Len(s) \in Nat
  BY FileOf, LenProperties
<1>3. /\ Sound(e) /\ Contents(e) = c /\ e.buf_size_ = o.buf_size_ /\ e.data_len_ = n
      /\ e.offset_ = n
  <2>1. e = [o EXCEPT !.offset_ = n]
    BY <1>2 DEF Sought
  <2>. HIDE DEF e, o, n
  <2>. QED
    BY <1>2, <2>1, PositionedIs DEF n
<1>. HIDE DEF e
<1>4. /\ Sound(w) /\ Contents(w) = c \o s
      /\ w.offset_ = n + Len(s) /\ w.data_len_ = n + Len(s)
  BY <1>2, <1>3, WrittenAtEnd
<1>5. w.buf_size_ <= 2 * (MaxLen + Align)
  <2>1. Inside(e)
    BY <1>2, <1>3 DEF Inside
  <2>2. w.buf_size_ = e.buf_size_ \/ w.buf_size_ < 2 * (e.offset_ + Len(s)) + Align
    BY <1>3, <2>1, WrittenIs
  <2>. DEFINE p == n + Len(s)
  <2>3. /\ w.buf_size_ = o.buf_size_ \/ w.buf_size_ < 2 * p + Align
        /\ w.data_len_ = IF p > p THEN p ELSE p
        /\ p \in Int
    BY <1>2, <1>3, <1>4, <2>2
  <2>. HIDE DEF w, p
  <2>. QED
    BY <1>1, <1>2, <1>4, <2>3, GrownEnough
<1>. HIDE DEF w
<1>6. /\ Inv' /\ Files' = [Files EXCEPT ![x] = Contents(w)]
      /\ Places' = [Places EXCEPT ![x] = PlaceIn(w)]
  BY <1>1, <1>4, <1>5, NothingIsString, BecomesSound
<1>7. PlaceIn(w) = IF w.offset_ \in 0 .. Len(Contents(w)) THEN w.offset_ ELSE Lost
  BY <1>4, PlaceIs
<1>8. File!AppendTo(x, s)
  <2>. DEFINE t == Files[x] \o s
              p == Len(Files[x]) + Len(s)
  <2>1. /\ Files' = [Files EXCEPT ![x] = t]
        /\ Places' = [Places EXCEPT ![x] = IF p \in 0 .. Len(t) THEN p ELSE Lost]
        /\ out' = <<>>
    BY <1>1, <1>2, <1>4, <1>6, <1>7
  <2>. QED
    BY <2>1 DEF File!AppendTo, File!Set, Files, Places, PlaceIn
<1>. QED
  BY <1>6, <1>8

\* append of another byte_string.
LEMMA AppendStringStep ==
    ASSUME Inv, NEW x \in Objects, NEW y \in Objects, AppendString(x, y)
    PROVE  Inv' /\ File!FileNext
<1>1. Files[y] = Contents(str[y]) /\ Contents(str[y]) \in Strings
  BY FileOf
<1>2. PICK s \in Strings : s = Contents(str[y])
  BY <1>1
<1>3. AppendBytes(x, s)
  BY <1>2 DEF AppendString, AppendBytes, Becomes
<1>4. Inv' /\ File!AppendTo(x, s)
  BY <1>3, StringsAre, AppendStep
<1>. QED
  BY <1>4, StringsAre DEF File!FileNext

\* operator=
LEMMA AssignStep ==
    ASSUME Inv, NEW x \in Objects, NEW y \in Objects, Assign(x, y)
    PROVE  Inv' /\ File!FileNext
<1>. DEFINE o == str[x]
            v == str[y]
            w == Assigned(o, v)
            c == Contents(v)
<1>1. str' = [str EXCEPT ![x] = w] /\ w.data_len_ <= MaxLen /\ out' = <<>>
  BY DEF Assign, Becomes
<1>2. /\ Sound(o) /\ Sound(v) /\ v.buf_size_ <= 2 * (MaxLen + Align) /\ Files[y] = c
      /\ Places[x] = PlaceIn(o)
  BY FileOf
<1>3. Sound(w) /\ Contents(w) = c /\ w.offset_ = o.offset_ /\ w.buf_size_ = v.buf_size_
  BY <1>2, AssignedIs
<1>. HIDE DEF w
<1>4. /\ Inv' /\ Files' = [Files EXCEPT ![x] = Contents(w)]
      /\ Places' = [Places EXCEPT ![x] = PlaceIn(w)]
  BY <1>1, <1>2, <1>3, NothingIsString, BecomesSound
<1>. DEFINE P == IF Places[x] # Lost THEN {Places[x]} ELSE 0 .. Len(Files[y]) \cup {Lost}
<1>5. \E p \in P : PlaceIn(w) = IF p \in 0 .. Len(Files[y]) THEN p ELSE Lost
  <2>1. /\ PlaceIn(w) = IF o.offset_ \in 0 .. Len(Files[y]) THEN o.offset_ ELSE Lost
        /\ PlaceIn(w) \in 0 .. Len(Files[y]) \cup {Lost}
    BY <1>2, <1>3, PlaceIs
  <2>2. CASE Inside(o)
    <3>1. Places[x] = o.offset_ /\ Places[x] # Lost
      BY <1>2, <2>2, PlaceIs
    <3>. QED
      BY <2>1, <3>1
  <2>3. CASE ~Inside(o)
    <3>1. Places[x] = Lost
      BY <1>2, <2>3, PlaceIs
    <3>2. PlaceIn(w) = IF PlaceIn(w) \in 0 .. Len(Files[y]) THEN PlaceIn(w) ELSE Lost
      BY <2>1
    <3>3. PlaceIn(w) \in P
      BY <2>1, <3>1
    <3>. HIDE DEF P
    <3>. QED
      BY <3>2, <3>3
  <2>. QED
    BY <2>2, <2>3
<1>6. PICK p \in P : PlaceIn(w) = IF p \in 0 .. Len(Files[y]) THEN p ELSE Lost
  BY <1>5
<1>7. /\ Files' = [Files EXCEPT ![x] = Files[y]] /\ out' = <<>>
      /\ Places' = [Places EXCEPT ![x] = IF p \in 0 .. Len(Files[y]) THEN p ELSE Lost]
  BY <1>1, <1>2, <1>3, <1>4, <1>6
<1>8. File!Assign(x, Files[y])
  BY <1>6, <1>7 DEF File!Assign, File!Known, File!Set, Files, Places, PlaceIn
<1>. QED
  BY <1>4, <1>8 DEF File!FileNext, Files

\* A constructor, of a string in a buffer of some size.
LEMMA MakeStep ==
    ASSUME Inv, NEW x \in Objects, NEW s \in Strings, NEW n \in Nat, Len(s) <= n,
           Becomes(x, Constructed(s, n)), Aligned(n) <= 2 * (MaxLen + Align)
    PROVE  Inv' /\ File!FileNext
<1>. DEFINE w == Constructed(s, n)
<1>1. str' = [str EXCEPT ![x] = w] /\ w.data_len_ <= MaxLen /\ out' = <<>>
  BY DEF Becomes
<1>2. s \in Seq(Bytes) /\ Len(s) \in Nat
  BY StringsAre
<1>3. Sound(w) /\ Contents(w) = s /\ w.offset_ = 0 /\ w.buf_size_ = Aligned(n)
  BY <1>2, ConstructedIs
<1>. HIDE DEF w
<1>4. /\ Inv' /\ Files' = [Files EXCEPT ![x] = s]
      /\ Places' = [Places EXCEPT ![x] = PlaceIn(w)]
  BY <1>1, <1>3, NothingIsString, BecomesSound
<1>5. PlaceIn(w) = IF 0 \in 0 .. Len(s) THEN 0 ELSE Lost
  BY <1>3, PlaceIs
<1>6. File!Make(x, s)
  BY <1>1, <1>4, <1>5 DEF File!Make, File!Set, Files, Places, PlaceIn
<1>. QED
  BY <1>4, <1>6, StringsAre DEF File!FileNext

\* The constructors from bytes and from a string.
LEMMA FromBytesStep ==
    ASSUME Inv, NEW x \in Objects, NEW s \in Strings, FromBytes(x, s)
    PROVE  Inv' /\ File!FileNext
<1>. DEFINE n == Len(s)
<1>1. n \in Nat /\ n <= MaxLen /\ Len(s) <= n
  BY StringsAre
<1>2. Becomes(x, Constructed(s, n))
  BY DEF FromBytes
<1>. HIDE DEF n
<1>3. Aligned(n) \in Nat /\ Aligned(n) < n + Align
  BY <1>1, AlignedIs
<1>4. Aligned(n) <= 2 * (MaxLen + Align)
  BY <1>1, <1>3, ConstantsAssumption
<1>. QED
  BY <1>1, <1>2, <1>4, MakeStep

\* The copy constructor.
LEMMA CopyStep ==
    ASSUME Inv, NEW x \in Objects, NEW y \in Objects, Copy(x, y)
    PROVE  Inv' /\ File!FileNext
<1>. DEFINE v == str[y]
<1>1. /\ Sound(v) /\ Contents(v) \in Strings /\ Len(Contents(v)) = v.data_len_
      /\ v.buf_size_ <= 2 * (MaxLen + Align)
  BY FileOf
<1>2. v.buf_size_ \in Nat /\ v.data_len_ <= v.buf_size_ /\ Aligned(v.buf_size_) = v.buf_size_
  BY <1>1, SoundParts
<1>3. PICK s \in Strings : s = Contents(v)
  BY <1>1
<1>4. PICK n \in Nat : n = v.buf_size_
  BY <1>2
<1>5. Becomes(x, Constructed(s, n))
  BY <1>3, <1>4 DEF Copy, Becomes
<1>6. Len(s) <= n /\ Aligned(n) <= 2 * (MaxLen + Align)
  BY <1>1, <1>2, <1>3, <1>4
<1>. QED
  BY <1>5, <1>6, MakeStep

\* sub_byte_string
LEMMA SubByteStringStep ==
    ASSUME Inv, NEW x \in Objects, NEW y \in Objects,
           NEW k \in 0 .. MaxLen, NEW l \in 0 .. MaxLen, SubByteString(x, y, k, l)
    PROVE  Inv' /\ File!FileNext
<1>. DEFINE v == str[y]
            n == l - k
<1>1. k <= l /\ l <= v.data_len_ /\ Becomes(x, Constructed(Slice(v, k, l), n))
  BY DEF SubByteString
<1>2. k \in Nat /\ l \in Nat /\ n \in Nat /\ n <= MaxLen /\ Sound(v)
  BY <1>1, FileOf, ConstantsAssumption
<1>3. Slice(v, k, l) \in Seq(Bytes) /\ Len(Slice(v, k, l)) = n
  BY <1>1, <1>2, SliceIs
<1>4. Slice(v, k, l) \in Strings
  BY <1>2, <1>3, StringsAre
<1>5. PICK s \in Strings : s = Slice(v, k, l)
  BY <1>4
<1>. HIDE DEF n
<1>6. Becomes(x, Constructed(s, n))
  BY <1>1, <1>5 DEF Becomes
<1>7. Aligned(n) \in Nat /\ Aligned(n) < n + Align
  BY <1>2, AlignedIs
<1>8. Aligned(n) <= 2 * (MaxLen + Align) /\ Len(s) <= n
  BY <1>2, <1>3, <1>5, <1>7, ConstantsAssumption
<1>. QED
  BY <1>2, <1>6, <1>8, MakeStep

\* Every step keeps Inv and is a step of the file, or none.
LEMMA EveryStep ==
    ASSUME Inv, [Next]_vars
    PROVE  Inv' /\ [File!FileNext]_(File!fileVars)
<1>1. Handled \subseteq Objects
  BY ConstantsAssumption
<1>2. ASSUME NEW x \in Handled, NEW s \in Strings, Write(x, s) PROVE Inv' /\ File!FileNext
  BY <1>1, <1>2, WriteStep
<1>3. ASSUME NEW x \in Handled, NEW n \in 0 .. MaxLen, Read(x, n) PROVE Inv' /\ File!FileNext
  BY <1>1, <1>3, ReadStep
<1>4. ASSUME NEW x \in Handled, NEW whence \in {"seek_set", "seek_cur", "seek_end"},
             NEW i \in -1 .. 1, Seek(x, whence, i)
      PROVE  Inv' /\ File!FileNext
  BY <1>1, <1>4, SeekStep
<1>5. ASSUME NEW x \in Handled, NEW s \in Strings, AppendBytes(x, s)
      PROVE  Inv' /\ File!FileNext
  <2>1. Inv' /\ File!AppendTo(x, s)
    BY <1>1, <1>5, StringsAre, AppendStep
  <2>. QED
    BY <1>1, <2>1, StringsAre DEF File!FileNext
<1>6. ASSUME NEW x \in Handled, NEW y \in Objects, AppendString(x, y)
      PROVE  Inv' /\ File!FileNext
  BY <1>1, <1>6, AppendStringStep
<1>7. ASSUME NEW x \in Objects, NEW s \in Strings, FromBytes(x, s)
      PROVE  Inv' /\ File!FileNext
  BY <1>7, FromBytesStep
<1>8. ASSUME NEW x \in Objects, NEW y \in Objects, Assign(x, y) PROVE Inv' /\ File!FileNext
  BY <1>8, AssignStep
<1>9. ASSUME NEW x \in Objects, NEW y \in Objects, Copy(x, y) PROVE Inv' /\ File!FileNext
  BY <1>9, CopyStep
<1>10. ASSUME NEW x \in Objects, NEW y \in Objects, NEW k \in 0 .. MaxLen,
              NEW l \in 0 .. MaxLen, SubByteString(x, y, k, l)
       PROVE  Inv' /\ File!FileNext
  BY <1>10, SubByteStringStep
<1>11. CASE UNCHANGED vars
  <2>1. str' = str /\ out' = out
    BY <1>11 DEF vars
  <2>2. Inv'
    BY <2>1 DEF Inv
  <2>3. UNCHANGED File!fileVars
    BY <2>1 DEF File!fileVars
  <2>. QED
    BY <2>2, <2>3
<1>12. CASE Next
  <2>1. Inv' /\ File!FileNext
    BY <1>2, <1>3, <1>4, <1>5, <1>6, <1>7, <1>8, <1>9, <1>10, <1>12 DEF Next
  <2>. QED
    BY <2>1
<1>. QED
  BY <1>11, <1>12

-----------------------------------------------------------------------------
(* Datagrams: where their fields begin *)

\* Fields begin one after the other.
LEMMA BeginsIs ==
    /\ Len(Widths) \in Nat /\ Fields = 1 .. Len(Widths) /\ Widths \in [Fields -> Nat]
    /\ Begins \in [1 .. Len(Widths) + 1 -> Nat]
    /\ Begins[1] = 0
    /\ \A f \in Fields : Begins[f + 1] = Begins[f] + Widths[f]
<1>. DEFINE N == Len(Widths)
            zero == 0
            step == [p \in Nat \X Nat |-> IF p[1] + 1 \in 1 .. N THEN p[2] + Widths[p[1] + 1] ELSE p[2]]
            Is(at) == at = [n \in 1 .. N + 1 |-> IF n = 1 THEN 0 ELSE at[n - 1] + Widths[n - 1]]
<1>1. N \in Nat /\ Fields = 1 .. N /\ Widths \in [1 .. N -> Nat]
  BY ConstantsAssumption, LenProperties DEF Fields
<1>. HIDE DEF N
<1>2. zero \in Nat /\ step \in [Nat \X Nat -> Nat]
  BY <1>1
<1>3. PICK g \in [Nat -> Nat] : Unrolls(g, zero, step)
  <2>. HIDE DEF zero, step
  <2>. QED
    BY <1>2, Recursion
<1>4. g[0] = 0 /\ \A n \in 1 .. N : g[n] = g[n - 1] + Widths[n]
  <2>1. g[0] = 0
    BY <1>3 DEF Unrolls
  <2>2. ASSUME NEW n \in 1 .. N PROVE g[n] = g[n - 1] + Widths[n]
    <3>1. n - 1 \in Nat /\ (n - 1) + 1 = n
      BY <1>1
    <3>2. g[n] = step[<<n - 1, g[n - 1]>>]
      <4>. HIDE DEF step
      <4>. QED
        BY <1>3, <3>1 DEF Unrolls
    <3>3. step[<<n - 1, g[n - 1]>>] = g[n - 1] + Widths[n]
      <4>1. <<n - 1, g[n - 1]>> \in Nat \X Nat
        BY <3>1
      <4>. QED
        BY <3>1, <4>1
    <3>. QED
      BY <3>2, <3>3
  <2>. QED
    BY <2>1, <2>2
<1>. DEFINE h == [n \in 1 .. N + 1 |-> g[n - 1]]
<1>5. Is(h)
  <2>1. ASSUME NEW n \in 1 .. N + 1 PROVE h[n] = IF n = 1 THEN 0 ELSE h[n - 1] + Widths[n - 1]
    <3>1. CASE n = 1
      BY <1>1, <1>4, <3>1
    <3>2. CASE n # 1
      <4>1. n - 1 \in 1 .. N /\ n - 1 \in 1 .. N + 1
        BY <1>1, <3>2
      <4>2. h[n] = g[n - 1] /\ h[n - 1] = g[(n - 1) - 1]
        BY <4>1
      <4>3. g[n - 1] = g[(n - 1) - 1] + Widths[n - 1]
        BY <1>4, <4>1
      <4>. HIDE DEF h
      <4>. QED
        BY <3>2, <4>2, <4>3
    <3>. QED
      BY <3>1, <3>2
  <2>2. h = [n \in 1 .. N + 1 |-> h[n]]
    OBVIOUS
  <2>. HIDE DEF h
  <2>. QED
    BY <2>1, <2>2
<1>6. Begins = CHOOSE at : Is(at)
  BY DEF Begins, N
<1>7. Is(Begins)
  <2>. HIDE DEF Is, h
  <2>. QED
    BY <1>5, <1>6
<1>8. Begins = [n \in 1 .. N + 1 |-> IF n = 1 THEN 0 ELSE Begins[n - 1] + Widths[n - 1]]
  BY <1>7
<1>9. Begins[1] = 0
  BY <1>1, <1>8
<1>10. ASSUME NEW f \in 1 .. N PROVE Begins[f + 1] = Begins[f] + Widths[f]
  <2>1. f + 1 \in 1 .. N + 1 /\ f + 1 # 1 /\ (f + 1) - 1 = f
    BY <1>1
  <2>2. \A n \in 1 .. N + 1 : n # 1 => Begins[n] = Begins[n - 1] + Widths[n - 1]
    BY <1>8
  <2>3. Begins[f + 1] = Begins[(f + 1) - 1] + Widths[(f + 1) - 1]
    BY <2>1, <2>2
  <2>. QED
    BY <2>1, <2>3
<1>11. \A n \in 1 .. N + 1 : Begins[n] \in Nat
  <2>. DEFINE T == {n \in Nat : n + 1 \in 1 .. N + 1 => Begins[n + 1] \in Nat}
  <2>1. 0 \in T
    BY <1>9
  <2>2. ASSUME NEW n \in Nat, n \in T PROVE n + 1 \in T
    <3>1. SUFFICES ASSUME n + 1 + 1 \in 1 .. N + 1 PROVE Begins[n + 1 + 1] \in Nat
      OBVIOUS
    <3>2. n + 1 \in 1 .. N /\ n + 1 \in 1 .. N + 1
      BY <1>1, <3>1
    <3>3. Begins[n + 1] \in Nat /\ Widths[n + 1] \in Nat
      BY <1>1, <2>2, <3>2
    <3>. QED
      BY <1>10, <3>2, <3>3
  <2>3. \A n \in Nat : n \in T
    <3>. HIDE DEF T
    <3>. QED
      BY <2>1, <2>2, Induction
  <2>4. ASSUME NEW n \in 1 .. N + 1 PROVE Begins[n] \in Nat
    <3>1. n - 1 \in Nat /\ (n - 1) + 1 = n
      BY <1>1
    <3>. QED
      BY <2>3, <3>1
  <2>. QED
    BY <2>4
<1>12. Begins \in [1 .. N + 1 -> Nat]
  <2>1. Begins = [n \in 1 .. N + 1 |-> Begins[n]]
    BY <1>8
  <2>. QED
    BY <1>11, <2>1
<1>. QED
  BY <1>1, <1>9, <1>10, <1>12 DEF N

\* A later field does not begin earlier.
LEMMA BeginsInOrder ==
    ASSUME NEW f \in 1 .. Len(Widths) + 1, NEW h \in 1 .. Len(Widths) + 1, f <= h
    PROVE  Begins[f] <= Begins[h]
<1>. DEFINE N == Len(Widths)
            T == {m \in Nat : f + m <= N + 1 => Begins[f] <= Begins[f + m]}
<1>1. /\ N \in Nat /\ Fields = 1 .. N /\ Widths \in [1 .. N -> Nat]
      /\ Begins \in [1 .. N + 1 -> Nat]
      /\ \A n \in 1 .. N : Begins[n + 1] = Begins[n] + Widths[n]
  BY BeginsIs
<1>2. f \in 1 .. N + 1 /\ h \in 1 .. N + 1
  OBVIOUS
<1>. HIDE DEF N
<1>3. 0 \in T
  <2>1. f + 0 = f /\ Begins[f] \in Nat
    BY <1>1, <1>2
  <2>. QED
    BY <2>1
<1>4. ASSUME NEW m \in Nat, m \in T PROVE m + 1 \in T
  <2>1. SUFFICES ASSUME f + (m + 1) <= N + 1 PROVE Begins[f] <= Begins[f + (m + 1)]
    OBVIOUS
  <2>2. f + m \in 1 .. N /\ f + m <= N + 1 /\ f + m \in 1 .. N + 1 /\ f + (m + 1) = (f + m) + 1
    BY <1>1, <1>2, <2>1
  <2>3. Begins[f] <= Begins[f + m]
    BY <1>4, <2>2
  <2>4. Begins[(f + m) + 1] = Begins[f + m] + Widths[f + m] /\ Widths[f + m] \in Nat
    BY <1>1, <2>2
  <2>5. Begins[f] \in Nat /\ Begins[f + m] \in Nat
    BY <1>1, <1>2, <2>2
  <2>6. Begins[f] <= Begins[(f + m) + 1]
    BY <2>3, <2>4, <2>5
  <2>. QED
    BY <2>2, <2>6
<1>5. \A m \in Nat : m \in T
  <2>. HIDE DEF T
  <2>. QED
    BY <1>3, <1>4, Induction
<1>6. h - f \in Nat /\ f + (h - f) = h /\ h <= N + 1
  BY <1>1, <1>2
<1>. QED
  BY <1>5, <1>6

\* Every byte before the payload is in a field.
LEMMA InSomeField ==
    ASSUME NEW i \in Nat, i >= 1, i <= Begins[Len(Widths) + 1]
    PROVE  \E f \in Fields : Begins[f] < i /\ i <= Begins[f + 1]
<1>. DEFINE N == Len(Widths)
            T == {n \in 1 .. N + 1 : i <= Begins[n]}
<1>1. /\ N \in Nat /\ Fields = 1 .. N /\ Begins \in [1 .. N + 1 -> Nat] /\ Begins[1] = 0
  BY BeginsIs
<1>2. i <= Begins[N + 1]
  OBVIOUS
<1>. HIDE DEF N
<1>3. T \subseteq Nat /\ T # {}
  <2>1. N + 1 \in T
    BY <1>1, <1>2
  <2>. QED
    BY <1>1, <2>1
<1>4. PICK h \in T : \A n \in T : h <= n
  <2>. HIDE DEF T
  <2>. QED
    BY <1>3, LeastExists
<1>5. h # 1 /\ h \in 1 .. N + 1 /\ i <= Begins[h]
  BY <1>1
<1>6. h - 1 \in 1 .. N /\ (h - 1) + 1 = h /\ h - 1 \in 1 .. N + 1
  BY <1>1, <1>5
<1>7. ~(i <= Begins[h - 1])
  BY <1>4, <1>6
<1>8. Begins[h - 1] \in Nat
  BY <1>1, <1>6
<1>9. Begins[h - 1] < i /\ i <= Begins[(h - 1) + 1]
  BY <1>5, <1>6, <1>7, <1>8
<1>. QED
  BY <1>1, <1>6, <1>9

-----------------------------------------------------------------------------
(* Datagrams: from fields to bytes *)

\* The fields of a datagram, and its payload.
LEMMA DatagramIs ==
    ASSUME NEW d \in Datagrams
    PROVE  /\ d = [fields |-> d.fields, payload |-> d.payload]
           /\ d.fields \in [Fields -> Strings] /\ d.payload \in Strings
           /\ d.payload \in Seq(Bytes) /\ Len(d.payload) \in Nat
           /\ \A f \in Fields : d.fields[f] \in Seq(Bytes) /\ Len(d.fields[f]) = Widths[f]
<1>1. /\ d \in [fields : [Fields -> Strings], payload : Strings]
      /\ \A f \in Fields : Len(d.fields[f]) = Widths[f]
  BY DEF Datagrams
<1>2. d.fields \in [Fields -> Strings] /\ d.payload \in Strings
  BY <1>1
<1>3. \A f \in Fields : d.fields[f] \in Strings
  BY <1>2
<1>4. d = [fields |-> d.fields, payload |-> d.payload]
  BY <1>1
<1>. QED
  BY <1>1, <1>2, <1>3, <1>4, StringsAre

\* The objects that are only ever written at their end.
Growing == {o \in [buf_size_ : Nat, buf_ : Buffers, data_len_ : Nat, offset_ : Int] :
              Sound(o) /\ o.offset_ = o.data_len_}

\* Growing objects are what Sound says, and grow by what is written.
LEMMA GrowingIs ==
    /\ Empty \in Growing
    /\ \A o \in Growing : Sound(o) /\ o.offset_ = o.data_len_
    /\ \A o \in Growing, s \in Seq(Bytes) : Written(o, s) \in Growing
<1>1. \A o : Sound(o) /\ o.offset_ = o.data_len_ => o \in Growing
  BY DEF Growing, Sound, Allocated
<1>2. Empty.offset_ = Empty.data_len_
  BY DEF Empty
<1>3. \A o \in Growing : Sound(o) /\ o.offset_ = o.data_len_
  BY DEF Growing
<1>4. ASSUME NEW o \in Growing, NEW s \in Seq(Bytes) PROVE Written(o, s) \in Growing
  <2>1. /\ Sound(Written(o, s)) /\ Written(o, s).offset_ = o.data_len_ + Len(s)
        /\ Written(o, s).data_len_ = o.data_len_ + Len(s)
    BY <1>3, WrittenAtEnd
  <2>. QED
    BY <1>1, <2>1
<1>5. Empty \in Growing
  BY <1>1, <1>2, EmptyIs
<1>. QED
  BY <1>3, <1>4, <1>5

\* operator<< for each field, one after the other.
LEMMA WithFieldsIs ==
    ASSUME NEW d \in Datagrams
    PROVE  LET W == WithFields(d) IN
           /\ W[0] = Empty
           /\ \A n \in 0 .. Len(Widths) : W[n] \in Growing
           /\ \A n \in Fields : W[n] = Written(W[n - 1], d.fields[n])
<1>. DEFINE N == Len(Widths)
            step == [p \in Nat \X Growing |->
                       IF p[1] + 1 \in 1 .. N THEN Written(p[2], d.fields[p[1] + 1]) ELSE p[2]]
            Is(after) == after = [n \in 0 .. N |->
                                    IF n = 0 THEN Empty ELSE Written(after[n - 1], d.fields[n])]
            W == WithFields(d)
<1>1. N \in Nat /\ Fields = 1 .. N /\ \A f \in 1 .. N : d.fields[f] \in Seq(Bytes)
  BY BeginsIs, DatagramIs
<1>2. W = CHOOSE after : Is(after)
  BY DEF WithFields
<1>. HIDE DEF N
<1>3. step \in [Nat \X Growing -> Growing]
  <2>1. ASSUME NEW p \in Nat \X Growing
        PROVE  (IF p[1] + 1 \in 1 .. N THEN Written(p[2], d.fields[p[1] + 1]) ELSE p[2]) \in Growing
    <3>1. p[2] \in Growing
      OBVIOUS
    <3>2. p[1] + 1 \in 1 .. N => d.fields[p[1] + 1] \in Seq(Bytes)
      BY <1>1
    <3>. QED
      BY <3>1, <3>2, GrowingIs
  <2>. QED
    BY <2>1
<1>4. PICK g \in [Nat -> Growing] : Unrolls(g, Empty, step)
  <2>. HIDE DEF step
  <2>. QED
    BY <1>3, GrowingIs, Recursion
<1>5. g[0] = Empty
  BY <1>4 DEF Unrolls
<1>6. ASSUME NEW n \in 1 .. N PROVE g[n] = Written(g[n - 1], d.fields[n])
  <2>1. n - 1 \in Nat /\ (n - 1) + 1 = n
    BY <1>1
  <2>2. g[n] = step[<<n - 1, g[n - 1]>>]
    <3>. HIDE DEF step
    <3>. QED
      BY <1>4, <2>1 DEF Unrolls
  <2>3. <<n - 1, g[n - 1]>> \in Nat \X Growing
    BY <2>1
  <2>4. step[<<n - 1, g[n - 1]>>] = Written(g[n - 1], d.fields[n])
    BY <2>1, <2>3
  <2>. QED
    BY <2>2, <2>4
<1>. DEFINE h == [n \in 0 .. N |-> g[n]]
<1>7. Is(h)
  <2>1. ASSUME NEW n \in 0 .. N
        PROVE  h[n] = IF n = 0 THEN Empty ELSE Written(h[n - 1], d.fields[n])
    <3>1. CASE n = 0
      BY <1>1, <1>5, <3>1
    <3>2. CASE n # 0
      <4>1. n \in 1 .. N /\ n - 1 \in 0 .. N
        BY <1>1, <3>2
      <4>2. h[n] = g[n] /\ h[n - 1] = g[n - 1]
        BY <4>1
      <4>. HIDE DEF h
      <4>. QED
        BY <1>6, <3>2, <4>1, <4>2
    <3>. QED
      BY <3>1, <3>2
  <2>2. h = [n \in 0 .. N |-> h[n]]
    OBVIOUS
  <2>. HIDE DEF h
  <2>. QED
    BY <2>1, <2>2
<1>. HIDE DEF W
<1>8. Is(W)
  <2>. HIDE DEF Is, h
  <2>. QED
    BY <1>2, <1>7
<1>9. \A n \in 0 .. N : W[n] = IF n = 0 THEN Empty ELSE Written(W[n - 1], d.fields[n])
  BY <1>8
<1>10. W[0] = Empty
  <2>1. ASSUME NEW n \in 0 .. N, n = 0 PROVE W[n] = Empty
    BY <1>9, <2>1
  <2>2. 0 \in 0 .. N
    BY <1>1
  <2>. QED
    BY <2>1, <2>2
<1>11. ASSUME NEW n \in 1 .. N PROVE W[n] = Written(W[n - 1], d.fields[n])
  <2>1. n \in 0 .. N /\ n # 0
    BY <1>1
  <2>. QED
    BY <1>9, <2>1
<1>12. \A n \in 0 .. N : W[n] \in Growing
  <2>. DEFINE T == {n \in Nat : n <= N => W[n] \in Growing}
  <2>1. 0 \in T
    BY <1>10, GrowingIs
  <2>2. ASSUME NEW n \in Nat, n \in T PROVE n + 1 \in T
    <3>1. SUFFICES ASSUME n + 1 <= N PROVE W[n + 1] \in Growing
      OBVIOUS
    <3>2. n + 1 \in 1 .. N /\ n <= N /\ (n + 1) - 1 = n
      BY <1>1, <3>1
    <3>3. W[n + 1] = Written(W[n], d.fields[n + 1])
      BY <1>11, <3>2
    <3>. QED
      BY <1>1, <2>2, <3>2, <3>3, GrowingIs
  <2>3. \A n \in Nat : n \in T
    <3>. HIDE DEF T
    <3>. QED
      BY <2>1, <2>2, Induction
  <2>. QED
    BY <1>1, <2>3
<1>. QED
  BY <1>1, <1>10, <1>11, <1>12 DEF N, W

\* The bytes s hold the first n fields of d, each in its place.
Holds(d, s, n) ==
    \A f \in 1 .. n : \A i \in 1 .. Widths[f] : s[Begins[f] + i] = d.fields[f][i]

\* What follows bytes leaves the fields in them where they are.
LEMMA HoldsOn ==
    ASSUME NEW d \in Datagrams, NEW n \in 0 .. Len(Widths), NEW s \in Seq(Bytes),
           Len(s) = Begins[n + 1], Holds(d, s, n), NEW t \in Seq(Bytes)
    PROVE  /\ Holds(d, s \o t, n)
           /\ \A i \in 1 .. Len(t) : (s \o t)[Begins[n + 1] + i] = t[i]
<1>. DEFINE N == Len(Widths)
            b == Begins[n + 1]
<1>1. /\ N \in Nat /\ Fields = 1 .. N /\ Widths \in [1 .. N -> Nat]
      /\ Begins \in [1 .. N + 1 -> Nat]
      /\ \A f \in 1 .. N : Begins[f + 1] = Begins[f] + Widths[f]
  BY BeginsIs
<1>2. n + 1 \in 1 .. N + 1 /\ b \in Nat /\ Len(t) \in Nat /\ Len(s) = b
  BY <1>1, LenProperties
<1>3. \A i \in 1 .. b + Len(t) : (s \o t)[i] = IF i <= b THEN s[i] ELSE t[i - b]
  <2>1. \A i \in 1 .. Len(s) + Len(t) : (s \o t)[i] = IF i <= Len(s) THEN s[i] ELSE t[i - Len(s)]
    BY ConcatProperties
  <2>. QED
    BY <1>2, <2>1
<1>4. ASSUME NEW f \in 1 .. n, NEW i \in 1 .. Widths[f]
      PROVE  (s \o t)[Begins[f] + i] = d.fields[f][i]
  <2>1. f \in 1 .. N /\ f \in 1 .. N + 1 /\ f + 1 \in 1 .. N + 1 /\ f + 1 <= n + 1
    BY <1>1
  <2>2. Begins[f] \in Nat /\ Widths[f] \in Nat /\ Begins[f + 1] = Begins[f] + Widths[f]
    BY <1>1, <2>1
  <2>3. Begins[f + 1] <= b
    BY <1>2, <2>1, BeginsInOrder
  <2>. DEFINE k == Begins[f] + i
  <2>4. k \in 1 .. b + Len(t) /\ k <= b
    <3>1. i \in Nat /\ i >= 1 /\ i <= Widths[f]
      BY <2>2
    <3>2. k \in Nat /\ k >= 1 /\ k <= Begins[f + 1]
      BY <2>2, <3>1
    <3>. HIDE DEF b, k
    <3>3. k <= b
      BY <1>2, <2>2, <2>3, <3>2
    <3>. QED
      BY <1>2, <3>2, <3>3
  <2>5. (s \o t)[k] = s[k]
    <3>. HIDE DEF k
    <3>. QED
      BY <1>3, <2>4
  <2>6. s[k] = d.fields[f][i]
    BY DEF Holds
  <2>. QED
    BY <2>5, <2>6
<1>5. ASSUME NEW i \in 1 .. Len(t) PROVE (s \o t)[b + i] = t[i]
  <2>. DEFINE k == b + i
  <2>1. k \in 1 .. b + Len(t) /\ ~(k <= b) /\ k - b = i
    BY <1>2
  <2>. HIDE DEF k
  <2>2. (s \o t)[k] = t[k - b]
    BY <1>3, <2>1
  <2>. QED
    BY <2>1, <2>2 DEF k
<1>6. Holds(d, s \o t, n)
  BY <1>4 DEF Holds
<1>. QED
  BY <1>5, <1>6

\* The bytes of a datagram are its fields, each in its place, and its payload.
LEMMA SerializedIs ==
    ASSUME NEW d \in Datagrams
    PROVE  LET s == Serialized(d)
               b == Begins[Len(Widths) + 1]
           IN  /\ s \in Seq(Bytes) /\ Len(s) = b + Len(d.payload)
               /\ Holds(d, s, Len(Widths))
               /\ \A i \in 1 .. Len(d.payload) : s[b + i] = d.payload[i]
<1>. DEFINE N == Len(Widths)
            W == WithFields(d)
            c(n) == Contents(W[n])
            T == {n \in Nat : n <= N => Len(c(n)) = Begins[n + 1] /\ Holds(d, c(n), n)}
<1>1. /\ N \in Nat /\ Fields = 1 .. N /\ Widths \in [1 .. N -> Nat]
      /\ Begins \in [1 .. N + 1 -> Nat] /\ Begins[1] = 0
      /\ \A f \in 1 .. N : Begins[f + 1] = Begins[f] + Widths[f]
  BY BeginsIs
<1>2. /\ W[0] = Empty /\ \A n \in 0 .. N : W[n] \in Growing
      /\ \A n \in 1 .. N : W[n] = Written(W[n - 1], d.fields[n])
  BY <1>1, WithFieldsIs
<1>. HIDE DEF W
<1>3. \A f \in 1 .. N : d.fields[f] \in Seq(Bytes) /\ Len(d.fields[f]) = Widths[f]
  BY <1>1, DatagramIs
<1>4. \A n \in 0 .. N : c(n) \in Seq(Bytes)
  BY <1>2, GrowingIs, ContentsIs
<1>5. 0 \in T
  <2>1. Len(c(0)) = Begins[0 + 1]
    BY <1>1, <1>2, EmptyIs, EmptySeq
  <2>2. Holds(d, c(0), 0)
    BY DEF Holds
  <2>. QED
    BY <2>1, <2>2
<1>6. ASSUME NEW n \in Nat, n \in T PROVE n + 1 \in T
  <2>1. SUFFICES ASSUME n + 1 <= N
                 PROVE  Len(c(n + 1)) = Begins[(n + 1) + 1] /\ Holds(d, c(n + 1), n + 1)
    OBVIOUS
  <2>. DEFINE s == c(n)
              t == d.fields[n + 1]
              u == c(n + 1)
  <2>2. n \in 0 .. N /\ n <= N /\ n + 1 \in 1 .. N /\ n + 1 \in 1 .. N + 1 /\ (n + 1) - 1 = n
    BY <1>1, <2>1
  <2>3. /\ s \in Seq(Bytes) /\ Len(s) = Begins[n + 1] /\ Holds(d, s, n)
    BY <1>4, <1>6, <2>2
  <2>4. t \in Seq(Bytes) /\ Len(t) = Widths[n + 1]
    BY <1>3, <2>2
  <2>5. u = s \o t
    <3>1. W[n + 1] = Written(W[n], t)
      BY <1>2, <2>2
    <3>2. Sound(W[n]) /\ W[n].offset_ = W[n].data_len_
      BY <1>2, <2>2, GrowingIs
    <3>. HIDE DEF t
    <3>. QED
      BY <2>4, <3>1, <3>2, WrittenAtEnd
  <2>. HIDE DEF s, t, u
  <2>6. Len(u) = Begins[(n + 1) + 1]
    <3>1. Len(u) = Len(s) + Len(t)
      BY <2>3, <2>4, <2>5, ConcatProperties
    <3>2. Begins[(n + 1) + 1] = Begins[n + 1] + Widths[n + 1]
      BY <1>1, <2>2
    <3>. QED
      BY <2>3, <2>4, <3>1, <3>2
  <2>7. /\ Holds(d, u, n) /\ \A i \in 1 .. Len(t) : u[Begins[n + 1] + i] = t[i]
    BY <2>2, <2>3, <2>4, <2>5, HoldsOn
  <2>8. Holds(d, u, n + 1)
    <3>1. ASSUME NEW f \in 1 .. n + 1, NEW i \in 1 .. Widths[f]
          PROVE  u[Begins[f] + i] = d.fields[f][i]
      <4>1. CASE f = n + 1
        BY <2>4, <2>7, <4>1 DEF t
      <4>2. CASE f # n + 1
        <5>1. f \in 1 .. n
          BY <2>2, <4>2
        <5>. QED
          BY <2>7, <5>1 DEF Holds
      <4>. QED
        BY <4>1, <4>2
    <3>. QED
      BY <3>1 DEF Holds
  <2>. QED
    BY <2>6, <2>8 DEF u
<1>7. \A n \in Nat : n \in T
  <2>. HIDE DEF T
  <2>. QED
    BY <1>5, <1>6, Induction
<1>. DEFINE s == c(N)
            t == d.payload
<1>8. s \in Seq(Bytes) /\ Len(s) = Begins[N + 1] /\ Holds(d, s, N)
  <2>1. N \in T /\ N <= N /\ N \in 0 .. N
    BY <1>1, <1>7
  <2>. QED
    BY <1>4, <2>1
<1>9. t \in Seq(Bytes) /\ Len(t) \in Nat
  BY DatagramIs
<1>10. Serialized(d) = s \o t
  <2>1. Sound(W[N]) /\ W[N].offset_ = W[N].data_len_
    <3>1. N \in 0 .. N
      BY <1>1
    <3>. QED
      BY <1>2, <3>1, GrowingIs
  <2>2. Serialized(d) = Contents(Written(W[N], t))
    BY DEF Serialized, W
  <2>. QED
    BY <1>9, <2>1, <2>2, WrittenAtEnd
<1>. HIDE DEF c, t
<1>11. s \o t \in Seq(Bytes) /\ Len(s \o t) = Begins[N + 1] + Len(t)
  <2>. HIDE DEF s
  <2>1. s \o t \in Seq(Bytes) /\ Len(s \o t) = Len(s) + Len(t)
    BY <1>8, <1>9, ConcatProperties
  <2>. QED
    BY <1>8, <2>1
<1>12. /\ Holds(d, s \o t, N)
       /\ \A i \in 1 .. Len(t) : (s \o t)[Begins[N + 1] + i] = t[i]
  <2>1. N \in 0 .. N
    BY <1>1
  <2>. QED
    BY <1>8, <1>9, <2>1, HoldsOn
<1>. QED
  BY <1>10, <1>11, <1>12 DEF t

-----------------------------------------------------------------------------
(* Datagrams: from bytes to fields *)

\* What bytes that are enough for the fields are read as.
Reading(s) ==
    [fields  |-> [f \in Fields |-> SubSeq(s, Begins[f] + 1, Begins[f + 1])],
     payload |-> SubSeq(s, Begins[Len(Widths) + 1] + 1, Len(s))]

\* A part of a string is a string: its length and its bytes.
LEMMA PartIs ==
    ASSUME NEW s \in Strings, NEW k \in Nat, NEW l \in Nat, k <= l, l <= Len(s)
    PROVE  /\ SubSeq(s, k + 1, l) \in Strings /\ SubSeq(s, k + 1, l) \in Seq(Bytes)
           /\ Len(SubSeq(s, k + 1, l)) = l - k
           /\ \A i \in 1 .. l - k : SubSeq(s, k + 1, l)[i] = s[k + i]
<1>. DEFINE m == k + 1
            t == SubSeq(s, m, l)
<1>1. s \in Seq(Bytes) /\ Len(s) \in Nat /\ Len(s) <= MaxLen
  BY StringsAre
<1>2. m \in Int /\ l \in Int /\ m = k + 1
  OBVIOUS
<1>3. \A i \in m .. l : s[i] \in Bytes
  BY <1>1, ElementOfSeq
<1>. HIDE DEF m
<1>4. /\ t \in Seq(Bytes) /\ Len(t) = IF m <= l THEN l - m + 1 ELSE 0
      /\ \A i \in 1 .. l - m + 1 : t[i] = s[m + i - 1]
  BY <1>2, <1>3, SubSeqProperties
<1>. HIDE DEF t
<1>5. Len(t) = l - k
  BY <1>2, <1>4
<1>6. ASSUME NEW i \in 1 .. l - k PROVE t[i] = s[k + i]
  <2>1. i \in 1 .. l - m + 1 /\ m + i - 1 = k + i
    BY <1>2
  <2>. QED
    BY <1>4, <2>1
<1>7. t \in Strings
  <2>1. Len(t) <= MaxLen
    BY <1>1, <1>5, ConstantsAssumption
  <2>. QED
    BY <1>4, <2>1, StringsAre
<1>. QED
  BY <1>4, <1>5, <1>6, <1>7 DEF t, m

\* The constructor of datagram reads bytes that are enough for the fields, and
\* throws otherwise.
LEMMA ParsedIs ==
    ASSUME NEW s \in Strings
    PROVE  /\ Len(s) < Begins[Len(Widths) + 1] => Parsed(s) = {}
           /\ ~(Len(s) < Begins[Len(Widths) + 1]) => Parsed(s) = {Reading(s)}
<1>. DEFINE N == Len(Widths)
            n == Len(s)
            b == Begins[N + 1]
            o == Constructed(s, n)
            end(f) == ReadEnd([o EXCEPT !.offset_ = Begins[f]], Widths[f])
            Short == \E f \in Fields : end(f) < Begins[f] + Widths[f]
            Read0 == [fields  |-> [f \in Fields |-> Slice(o, Begins[f], end(f))],
                      payload |-> Slice(o, b, o.data_len_)]
<1>1. /\ N \in Nat /\ Fields = 1 .. N /\ Widths \in [1 .. N -> Nat]
      /\ Begins \in [1 .. N + 1 -> Nat] /\ Begins[1] = 0
      /\ \A f \in 1 .. N : Begins[f + 1] = Begins[f] + Widths[f]
  BY BeginsIs
<1>2. s \in Seq(Bytes) /\ n \in Nat /\ Len(s) <= n
  BY StringsAre
<1>3. Sound(o) /\ Contents(o) = s /\ o.data_len_ = n
  <2>1. \A m \in Nat : Len(s) <= m => Sound(Constructed(s, m)) /\ Contents(Constructed(s, m)) = s
                                      /\ Constructed(s, m).data_len_ = Len(s)
    BY <1>2, ConstructedIs
  <2>. QED
    BY <1>2, <2>1
<1>4. Parsed(s) = IF Short THEN {} ELSE {Read0}
  BY DEF Parsed
<1>. HIDE DEF o
<1>5. ASSUME NEW f \in 1 .. N
      PROVE  /\ Begins[f] \in Nat /\ Widths[f] \in Nat /\ Begins[f + 1] = Begins[f] + Widths[f]
             /\ Begins[f + 1] \in Nat /\ Begins[f + 1] <= b /\ b \in Nat
             /\ end(f) = IF Begins[f + 1] < n THEN Begins[f + 1] ELSE n
  <2>1. f \in 1 .. N + 1 /\ f + 1 \in 1 .. N + 1 /\ N + 1 \in 1 .. N + 1 /\ f + 1 <= N + 1
    BY <1>1
  <2>2. /\ Begins[f] \in Nat /\ Widths[f] \in Nat /\ Begins[f + 1] = Begins[f] + Widths[f]
        /\ Begins[f + 1] \in Nat /\ b \in Nat
    BY <1>1, <2>1
  <2>3. Begins[f + 1] <= b
    BY <2>1, BeginsInOrder
  <2>. DEFINE q == [o EXCEPT !.offset_ = Begins[f]]
  <2>4. q.offset_ = Begins[f] /\ q.data_len_ = n
    BY <1>3, <2>2, PositionedIs
  <2>. HIDE DEF q
  <2>5. ReadEnd(q, Widths[f]) = IF Begins[f] + Widths[f] < n THEN Begins[f] + Widths[f] ELSE n
    BY <2>4 DEF ReadEnd, Min
  <2>6. end(f) = IF Begins[f + 1] < n THEN Begins[f + 1] ELSE n
    BY <2>2, <2>5 DEF q
  <2>. QED
    BY <2>2, <2>3, <2>6
<1>. HIDE DEF end
<1>6. b \in Nat
  BY <1>1
<1>7. ASSUME n < b PROVE Short
  <2>1. N # 0
    BY <1>1, <1>2, <1>7
  <2>2. N \in 1 .. N
    BY <1>1, <2>1
  <2>3. end(N) = n /\ Begins[N] + Widths[N] = b
    BY <1>2, <1>5, <1>6, <1>7, <2>2
  <2>4. end(N) < Begins[N] + Widths[N]
    BY <1>7, <2>3
  <2>. QED
    BY <1>1, <2>2, <2>4
<1>8. ASSUME ~(n < b) PROVE ~Short /\ Read0 = Reading(s)
  <2>1. ASSUME NEW f \in 1 .. N 
        PROVE  end(f) = Begins[f + 1] /\ Begins[f + 1] <= n /\ Begins[f] <= Begins[f + 1]
    <3>. DEFINE lo == Begins[f]
                hi == Begins[f + 1]
                w == Widths[f]
                e == end(f)
    <3>1. /\ lo \in Nat /\ w \in Nat /\ hi = lo + w /\ hi \in Nat /\ hi <= b
          /\ e = IF hi < n THEN hi ELSE n
      BY <1>5
    <3>2. n \in Nat /\ b \in Nat /\ ~(n < b)
      BY <1>2, <1>6, <1>8
    <3>. HIDE DEF lo, hi, w, e, n, b
    <3>3. e = hi /\ hi <= n /\ lo <= hi
      BY <3>1, <3>2
    <3>. QED
      BY <3>3 DEF lo, hi, e
  <2>2. ~Short
    <3>1. ASSUME NEW f \in 1 .. N PROVE ~(end(f) < Begins[f] + Widths[f])
      BY <1>5, <2>1
    <3>. QED
      BY <1>1, <3>1
  <2>3. ASSUME NEW f \in 1 .. N
        PROVE  Slice(o, Begins[f], end(f)) = SubSeq(s, Begins[f] + 1, Begins[f + 1])
    <3>. DEFINE lo == Begins[f]
                hi == Begins[f + 1]
    <3>1. lo \in Nat /\ hi \in Nat /\ lo <= hi /\ hi <= o.data_len_
      BY <1>3, <1>5, <2>1
    <3>2. end(f) = hi
      BY <2>1
    <3>. HIDE DEF lo, hi
    <3>3. Slice(o, lo, hi) = SubSeq(s, lo + 1, hi)
      BY <1>3, <3>1, SliceOfContents
    <3>. QED
      BY <3>2, <3>3 DEF lo, hi
  <2>4. Slice(o, b, o.data_len_) = SubSeq(s, b + 1, n)
    <3>1. b <= n /\ n <= o.data_len_
      BY <1>2, <1>3, <1>6, <1>8
    <3>. HIDE DEF b, n
    <3>. QED
      BY <1>2, <1>3, <1>6, <3>1, SliceOfContents
  <2>5. [f \in Fields |-> Slice(o, Begins[f], end(f))]
          = [f \in Fields |-> SubSeq(s, Begins[f] + 1, Begins[f + 1])]
    BY <1>1, <2>3
  <2>. QED
    BY <2>2, <2>4, <2>5 DEF Reading
<1>. HIDE DEF Short, Read0
<1>. QED
  BY <1>4, <1>7, <1>8

\* What is read is a datagram that turns into the same bytes.
LEMMA ReadingIs ==
    ASSUME NEW s \in Strings, ~(Len(s) < Begins[Len(Widths) + 1])
    PROVE  Reading(s) \in Datagrams /\ Serialized(Reading(s)) = s
<1>. DEFINE N == Len(Widths)
            n == Len(s)
            b == Begins[N + 1]
            d == Reading(s)
            t == Serialized(d)
<1>1. /\ N \in Nat /\ Fields = 1 .. N /\ Widths \in [1 .. N -> Nat]
      /\ Begins \in [1 .. N + 1 -> Nat] /\ Begins[1] = 0
      /\ \A f \in 1 .. N : Begins[f + 1] = Begins[f] + Widths[f]
  BY BeginsIs
<1>2. s \in Seq(Bytes) /\ n \in Nat /\ b \in Nat /\ b <= n
  BY <1>1, StringsAre
<1>3. ASSUME NEW f \in 1 .. N
      PROVE  /\ Begins[f] \in Nat /\ Begins[f + 1] \in Nat /\ Begins[f] <= Begins[f + 1]
             /\ Begins[f + 1] <= n /\ Widths[f] \in Nat /\ Begins[f + 1] - Begins[f] = Widths[f]
             /\ Begins[f + 1] = Begins[f] + Widths[f]
  <2>1. f \in 1 .. N + 1 /\ f + 1 \in 1 .. N + 1 /\ N + 1 \in 1 .. N + 1 /\ f + 1 <= N + 1
    BY <1>1
  <2>2. /\ Begins[f] \in Nat /\ Begins[f + 1] \in Nat /\ Widths[f] \in Nat
        /\ Begins[f + 1] = Begins[f] + Widths[f]
    BY <1>1, <2>1
  <2>3. Begins[f + 1] <= b
    BY <2>1, BeginsInOrder
  <2>4. Begins[f + 1] <= n
    <3>. HIDE DEF b, n
    <3>. QED
      BY <1>2, <2>2, <2>3
  <2>. QED
    BY <2>2, <2>4
<1>4. ASSUME NEW f \in 1 .. N
      PROVE  /\ d.fields[f] \in Strings /\ Len(d.fields[f]) = Widths[f]
             /\ \A i \in 1 .. Widths[f] : d.fields[f][i] = s[Begins[f] + i]
  <2>. DEFINE lo == Begins[f]
              hi == Begins[f + 1]
  <2>1. lo \in Nat /\ hi \in Nat /\ lo <= hi /\ hi <= Len(s) /\ hi - lo = Widths[f]
    BY <1>3
  <2>2. d.fields[f] = SubSeq(s, lo + 1, hi)
    BY <1>1 DEF Reading
  <2>. HIDE DEF d, lo, hi
  <2>3. /\ d.fields[f] \in Strings /\ Len(d.fields[f]) = hi - lo
        /\ \A i \in 1 .. hi - lo : d.fields[f][i] = s[lo + i]
    BY <2>1, <2>2, PartIs
  <2>. QED
    BY <2>1, <2>3 DEF lo
<1>5. /\ d.payload \in Strings /\ Len(d.payload) = n - b
      /\ \A i \in 1 .. n - b : d.payload[i] = s[b + i]
  <2>1. d.payload = SubSeq(s, b + 1, n)
    BY DEF Reading
  <2>2. n <= Len(s)
    BY <1>2
  <2>. HIDE DEF d, b, n
  <2>. QED
    BY <1>2, <2>1, <2>2, PartIs
<1>6. d \in Datagrams
  <2>1. d.fields \in [Fields -> Strings]
    <3>1. d.fields = [f \in Fields |-> d.fields[f]]
      BY DEF Reading
    <3>. HIDE DEF d
    <3>. QED
      BY <1>1, <1>4, <3>1
  <2>2. d = [fields |-> d.fields, payload |-> d.payload]
    BY DEF Reading
  <2>. HIDE DEF d
  <2>. QED
    BY <1>1, <1>4, <1>5, <2>1, <2>2 DEF Datagrams
<1>. HIDE DEF d
<1>7. /\ t \in Seq(Bytes) /\ Len(t) = b + Len(d.payload) /\ Holds(d, t, N)
      /\ \A i \in 1 .. Len(d.payload) : t[b + i] = d.payload[i]
  BY <1>6, SerializedIs
<1>. HIDE DEF t
<1>8. Len(t) = n
  <2>. HIDE DEF n, b
  <2>. QED
    BY <1>2, <1>5, <1>7
<1>9. ASSUME NEW i \in 1 .. Len(t) PROVE t[i] = s[i]
  <2>1. i \in Nat /\ i >= 1 /\ i <= n
    BY <1>2, <1>8
  <2>2. CASE i <= b
    <3>1. PICK f \in 1 .. N : Begins[f] < i /\ i <= Begins[f + 1]
      BY <1>1, <2>1, <2>2, InSomeField
    <3>. DEFINE lo == Begins[f]
                w == Widths[f]
                k == i - lo
    <3>2. lo \in Nat /\ w \in Nat /\ lo < i /\ i <= lo + w
      BY <1>3, <3>1
    <3>. HIDE DEF lo, w
    <3>3. k \in 1 .. w /\ lo + k = i
      BY <2>1, <3>2
    <3>. HIDE DEF k
    <3>4. t[lo + k] = d.fields[f][k]
      BY <1>7, <3>3 DEF Holds, lo, w
    <3>5. d.fields[f][k] = s[lo + k]
      BY <1>4, <3>3 DEF lo, w
    <3>. QED
      BY <3>3, <3>4, <3>5
  <2>3. CASE ~(i <= b)
    <3>. DEFINE k == i - b
    <3>. HIDE DEF b, n
    <3>1. k \in 1 .. n - b /\ b + k = i
      BY <1>2, <2>1, <2>3
    <3>. HIDE DEF k
    <3>2. t[b + k] = d.payload[k] /\ d.payload[k] = s[b + k]
      BY <1>5, <1>7, <3>1
    <3>. QED
      BY <3>1, <3>2
  <2>. QED
    BY <2>2, <2>3
<1>10. t = s
  BY <1>2, <1>7, <1>8, <1>9, SeqEqual
<1>. QED
  BY <1>6, <1>10 DEF t, d

\* The bytes of a datagram are read as that datagram.
LEMMA ReadBack ==
    ASSUME NEW d \in Datagrams, NEW s \in Strings, Serialized(d) = s
    PROVE  ~(Len(s) < Begins[Len(Widths) + 1]) /\ Reading(s) = d
<1>. DEFINE N == Len(Widths)
            n == Len(s)
            b == Begins[N + 1]
            r == Reading(s)
<1>1. /\ N \in Nat /\ Fields = 1 .. N /\ b \in Nat
  BY BeginsIs
<1>2. /\ d = [fields |-> d.fields, payload |-> d.payload]
      /\ d.fields \in [Fields -> Strings]
      /\ d.payload \in Seq(Bytes) /\ Len(d.payload) \in Nat
      /\ \A f \in Fields : d.fields[f] \in Seq(Bytes) /\ Len(d.fields[f]) = Widths[f]
  BY DatagramIs
<1>3. /\ s \in Seq(Bytes) /\ n = b + Len(d.payload) /\ Holds(d, s, N)
      /\ \A i \in 1 .. Len(d.payload) : s[b + i] = d.payload[i]
  BY SerializedIs
<1>4. ~(n < b) /\ n \in Nat /\ b <= n /\ n - b = Len(d.payload)
  <2>. HIDE DEF n, b
  <2>. QED
    BY <1>1, <1>2, <1>3
<1>5. ASSUME NEW f \in Fields PROVE r.fields[f] = d.fields[f]
  <2>. DEFINE lo == Begins[f]
              hi == Begins[f + 1]
              p == SubSeq(s, lo + 1, hi)
              q == d.fields[f]
  <2>1. f \in 1 .. N + 1 /\ f + 1 \in 1 .. N + 1 /\ N + 1 \in 1 .. N + 1 /\ f + 1 <= N + 1
    BY <1>1
  <2>2. lo \in Nat /\ hi \in Nat /\ Widths[f] \in Nat /\ hi = lo + Widths[f]
    BY <2>1, BeginsIs
  <2>3. hi <= b
    BY <2>1, BeginsInOrder
  <2>4. r.fields[f] = p
    BY DEF Reading
  <2>5. q \in Seq(Bytes) /\ Len(q) = Widths[f] /\ \A i \in 1 .. Widths[f] : s[lo + i] = q[i]
    BY <1>1, <1>2, <1>3 DEF Holds
  <2>6. lo <= hi /\ hi <= Len(s) /\ hi - lo = Widths[f]
    <3>. HIDE DEF lo, hi, b
    <3>. QED
      BY <1>1, <1>4, <2>2, <2>3
  <2>. HIDE DEF lo, hi, q
  <2>7. p \in Seq(Bytes) /\ Len(p) = hi - lo /\ \A i \in 1 .. hi - lo : p[i] = s[lo + i]
    BY <2>2, <2>6, PartIs
  <2>. HIDE DEF p
  <2>8. p = q
    BY <2>5, <2>6, <2>7, SeqEqual
  <2>. QED
    BY <2>4, <2>8 DEF q
<1>6. r.payload = d.payload
  <2>. DEFINE p == SubSeq(s, b + 1, n)
              q == d.payload
  <2>1. r.payload = p
    BY DEF Reading
  <2>2. n <= Len(s)
    BY <1>4
  <2>3. s \in Strings
    OBVIOUS
  <2>4. Len(q) = n - b /\ q \in Seq(Bytes) /\ \A i \in 1 .. n - b : s[b + i] = q[i]
    BY <1>2, <1>3, <1>4
  <2>. HIDE DEF b, n, q
  <2>5. p \in Seq(Bytes) /\ Len(p) = n - b /\ \A i \in 1 .. n - b : p[i] = s[b + i]
    BY <1>1, <1>4, <2>2, PartIs
  <2>. HIDE DEF p
  <2>6. p = q
    BY <2>4, <2>5, SeqEqual
  <2>. QED
    BY <2>1, <2>6 DEF q
<1>7. r = d
  <2>1. r = [fields |-> r.fields, payload |-> r.payload]
    BY DEF Reading
  <2>2. r.fields = [f \in Fields |-> r.fields[f]]
    BY DEF Reading
  <2>. HIDE DEF r
  <2>3. r.fields = d.fields
    BY <1>2, <1>5, <2>2
  <2>. QED
    BY <1>2, <1>6, <2>1, <2>3
<1>. QED
  BY <1>4, <1>7

-----------------------------------------------------------------------------
(* The theorems *)

\* Every object is sound in every reachable state.
LEMMA Invariance == Spec => []Inv
<1>1. Inv /\ [Next]_vars => Inv'
  BY EveryStep
<1>. QED
  BY <1>1, InitInv, PTL DEF Spec

\* The variables have their types, data lies within its buffer, and a buffer is
\* never larger than doubling and alignment explain.
THEOREM ByteStringTypeCorrect == Spec => []TypeOK
<1>1. Inv => TypeOK
  <2>. SUFFICES ASSUME Inv PROVE TypeOK
    OBVIOUS
  <2>1. ASSUME NEW x \in Objects
        PROVE  /\ str[x] \in Object
               /\ DOMAIN str[x].buf_ = 0 .. str[x].buf_size_ - 1
               /\ str[x].data_len_ <= str[x].buf_size_
    <3>. DEFINE o == str[x]
                n == o.buf_size_
                most == 2 * (MaxLen + Align)
    <3>1. Sound(o) /\ o.data_len_ <= MaxLen /\ n <= most
      BY DEF Inv
    <3>2. /\ Allocated(o) /\ n \in Nat /\ o.data_len_ \in Nat /\ o.offset_ \in Int
          /\ o.data_len_ <= n
      BY <3>1, SoundParts
    <3>3. o.buf_ \in [0 .. n - 1 -> Bytes \cup {Junk}]
      BY <3>2, Parts
    <3>4. n \in 0 .. most /\ o.data_len_ \in 0 .. MaxLen
      BY <3>1, <3>2, ConstantsAssumption
    <3>5. o = [buf_size_ |-> o.buf_size_, buf_ |-> o.buf_, data_len_ |-> o.data_len_,
               offset_ |-> o.offset_]
      BY <3>2, Parts
    <3>6. o.buf_ \in UNION {[0 .. m - 1 -> Bytes \cup {Junk}] : m \in 0 .. most}
      BY <3>3, <3>4
    <3>7. o \in Object
      <4>. HIDE DEF o
      <4>. QED
        BY <3>2, <3>4, <3>5, <3>6 DEF Object
    <3>. QED
      BY <3>2, <3>3, <3>7
  <2>. QED
    BY <2>1 DEF Inv, TypeOK
<1>. QED
  BY <1>1, Invariance, PTL

\* Byte strings behave like files: whatever is written, read, positioned,
\* appended, assigned and copied, and however buffers grow and are replaced, a
\* program sees the bytes that were written, and never one that was not.
THEOREM ByteStringIsByteFile == Spec => IsByteFile
<1>1. Init => File!FileInit
  <2>. SUFFICES ASSUME Init PROVE File!FileInit
    OBVIOUS
  <2>1. \A x \in Objects : str[x] = Empty
    BY DEF Init
  <2>2. \A x \in Objects : Contents(str[x]) = <<>>
    BY <2>1, EmptyIs
  <2>3. \A x \in Objects : Inside(str[x]) /\ str[x].offset_ = 0
    <3>1. Empty.offset_ = 0 /\ Empty.data_len_ = 0
      BY DEF Empty
    <3>2. Inside(Empty)
      BY <3>1 DEF Inside
    <3>. QED
      BY <2>1, <3>1, <3>2
  <2>. QED
    BY <2>2, <2>3 DEF Init, File!FileInit
<1>2. Inv /\ [Next]_vars => [File!FileNext]_(File!fileVars)
  BY EveryStep
<1>. QED
  BY <1>1, <1>2, Invariance, PTL DEF Spec, IsByteFile, File!FileSpec

\* Whatever a byte string holds, at any time: if it is what some datagram turns
\* into, the constructor of datagram yields that datagram and no other; if it
\* yields one, that turns into the same bytes; and it throws exactly when the
\* bytes are too few for the fields.
THEOREM ByteStringRoundTrip == Spec => []RoundTrip
<1>1. Inv => RoundTrip
  <2>. SUFFICES ASSUME Inv, NEW x \in Objects
                PROVE  LET s == Contents(str[x]) IN
                       /\ \A d \in Parsed(s) : d \in Datagrams /\ Serialized(d) = s
                       /\ (Parsed(s) = {}) <=> Len(s) < Begins[Len(Widths) + 1]
                       /\ \A d \in Datagrams : Serialized(d) = s => Parsed(s) = {d}
    BY DEF RoundTrip
  <2>. DEFINE s == Contents(str[x])
              Short == Len(s) < Begins[Len(Widths) + 1]
  <2>1. s \in Strings
    BY FileOf
  <2>. HIDE DEF s
  <2>2. /\ Short => Parsed(s) = {}
        /\ ~Short => Parsed(s) = {Reading(s)}
    BY <2>1, ParsedIs
  <2>3. ~Short => Reading(s) \in Datagrams /\ Serialized(Reading(s)) = s
    BY <2>1, ReadingIs
  <2>4. \A d \in Datagrams : Serialized(d) = s => ~Short /\ Reading(s) = d
    BY <2>1, ReadBack
  <2>. HIDE DEF Short
  <2>5. \A d \in Parsed(s) : d \in Datagrams /\ Serialized(d) = s
    BY <2>2, <2>3
  <2>6. (Parsed(s) = {}) <=> Short
    BY <2>2
  <2>7. \A d \in Datagrams : Serialized(d) = s => Parsed(s) = {d}
    BY <2>2, <2>4
  <2>. QED
    BY <2>5, <2>6, <2>7 DEF s, Short
<1>. QED
  BY <1>1, Invariance, PTL
=============================================================================
