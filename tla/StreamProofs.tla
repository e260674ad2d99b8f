---------------------------- MODULE StreamProofs ----------------------------
(***************************************************************************)
(* Proofs about Stream: Inv, and with it every safety property of the       *)
(* stream, holds for any segment size, any amount of data below the offset  *)
(* space, any network capacity and any mix of loss, duplication and         *)
(* reordering.  The heart of the argument is DrainStep: what the loop at    *)
(* the end of stream::feed hands to the application is the unbroken run of  *)
(* segments that starts at recv_offset_.                                    *)
(*                                                                          *)
(* The second part shows that a stream that is given one string at a time,  *)
(* over a network that duplicates nothing, implements BytePipe.             *)
(***************************************************************************)
EXTENDS Stream, TLAPS, WellFoundedInduction

\* A nonempty set of natural numbers has a least element.
LEMMA LeastExists ==
    ASSUME NEW T, T \subseteq Nat, T # {}
    PROVE  \E x \in T : \A y \in T : x <= y
<1>1. PICK x \in T : \A y \in T : ~(<<y, x>> \in OpToRel(<, Nat))
  BY NatLessThanWellFounded, WFMin
<1>2. ASSUME NEW y \in T PROVE x <= y
  <2>1. \A a, b \in Nat : a < b => <<a, b>> \in OpToRel(<, Nat)
    BY DEF OpToRel
  <2>2. x \in Nat /\ y \in Nat /\ ~(y < x)
    BY <1>1, <2>1
  <2>. QED
    BY <2>2
<1>. QED
  BY <1>2

\* A nonempty bounded set of natural numbers has a greatest element.
LEMMA GreatestExists ==
    ASSUME NEW T, T \subseteq Nat, T # {}, NEW M \in Nat, \A x \in T : x <= M
    PROVE  \E x \in T : \A y \in T : y <= x
<1>. DEFINE U == {u \in Nat : M - u \in T}
<1>1. PICK t \in T : TRUE
  OBVIOUS
<1>2. t \in Nat /\ t <= M /\ M - t \in Nat /\ M - (M - t) = t
  OBVIOUS
<1>3. M - t \in U
  BY <1>2
<1>4. PICK u \in U : \A v \in U : u <= v
  BY <1>3, LeastExists
<1>5. ASSUME NEW y \in T PROVE y <= M - u
  <2>1. y \in Nat /\ y <= M /\ M - y \in Nat /\ M - (M - y) = y
    OBVIOUS
  <2>2. M - y \in U
    BY <2>1
  <2>3. u <= M - y /\ u \in Nat
    BY <1>4, <2>2
  <2>. QED
    BY <2>1, <2>3
<1>. QED
  BY <1>5

-----------------------------------------------------------------------------
\* The application sends fewer bytes than an offset can count: the assumption
\* under which every theorem below is stated (stream.h keeps 32-bit offsets).
NoWrap == MaxBytes < OffsetSpan

\* An offset below the bound is not truncated.
LEMMA OffsetOfSmall ==
    ASSUME NoWrap, NEW i \in 0 .. MaxBytes
    PROVE  Offset(i) = i
BY SizesAssumption DEF NoWrap, Offset

\* The two ends of a stream are each other's peer.
LEMMA OtherEnd ==
    \A e \in Endpoint : Other(e) \in Endpoint /\ Other(e) # e /\ Other(Other(e)) = e
BY EndpointAssumption DEF Endpoint, Other

\* What a handler leaves in flight: at most what was there and what it sent.
LEMMA BagStep ==
    ASSUME NEW B, IsABag(B), NEW d, NEW S
    PROVE  /\ IsABag((B (-) SetToBag({d})) (+) SetToBag(S))
           /\ BagToSet((B (-) SetToBag({d})) (+) SetToBag(S)) \subseteq BagToSet(B) \cup S
           /\ IsABag(B (+) SetToBag(S))
           /\ BagToSet(B (+) SetToBag(S)) \subseteq BagToSet(B) \cup S
           /\ IsABag(B (-) SetToBag({d}))
           /\ BagToSet(B (-) SetToBag({d})) \subseteq BagToSet(B)
BY DEF IsABag, BagToSet, SetToBag, (+), (-)

\* The segments stream::send cuts are typed, not empty and within the data.
LEMMA FreshFits ==
    ASSUME NoWrap, Inv, NEW e \in Endpoint, NEW n \in DataSizes,
           sentBytes[e] + n <= MaxBytes, NEW base \in Base(e)
    PROVE  /\ IsQueue(Fresh(e, n, base))
           /\ \A k \in DOMAIN Fresh(e, n, base) :
                /\ Fresh(e, n, base)[k].len >= 1
                /\ k + Fresh(e, n, base)[k].len <= sentBytes[e] + n
<1>1. base \in Nat /\ base <= sentBytes[e] /\ n \in Nat /\ n >= 1 /\ sentBytes[e] \in Nat
  <2>1. CASE sendQueue[e] = << >>
    BY <2>1, OtherEnd, SizesAssumption
       DEF Inv, TypeOK, Provenance, AckSound, Base
  <2>2. CASE sendQueue[e] # << >>
    <3>1. base \in DOMAIN sendQueue[e]
      BY <2>2 DEF Base, Last
    <3>2. Placed(base, sendQueue[e][base]) \in queued[e]
      BY <3>1 DEF Inv, Provenance, Holds
    <3>3. sendQueue[e][base] \in Segment /\ base \in Nat
      BY <3>1 DEF Inv, TypeOK, IsQueue
    <3>4. base + sendQueue[e][base].len <= sentBytes[e]
      BY <3>2 DEF Inv, Provenance, Placed
    <3>. QED
      BY <3>3, <3>4, SizesAssumption DEF Inv, TypeOK, Segment
  <2>. QED
    BY <2>1, <2>2
<1>2. ASSUME NEW o \in Cuts(n)
      PROVE  /\ Offset(base + o) = base + o
             /\ o % OffsetSpan = o
             /\ CutLength(n, o) \in Nat /\ CutLength(n, o) >= 1
             /\ o + CutLength(n, o) <= n
             /\ o \in Nat
  <2>1. o \in Nat /\ o < n
    BY <1>1 DEF Cuts
  <2>2. base + o \in 0 .. MaxBytes /\ o \in 0 .. MaxBytes /\ base + o - base = o
    BY <1>1, <2>1, SizesAssumption
  <2>3. Offset(base + o) = base + o /\ Offset(o) = o
    BY <2>2, OffsetOfSmall
  <2>4. CutLength(n, o) \in Nat /\ CutLength(n, o) >= 1 /\ o + CutLength(n, o) <= n
    BY <1>1, <2>1, SizesAssumption DEF CutLength
  <2>. QED
    BY <2>1, <2>2, <2>3, <2>4 DEF Offset
<1>3. ASSUME NEW k \in DOMAIN Fresh(e, n, base)
      PROVE  /\ k \in Nat
             /\ Fresh(e, n, base)[k] \in Segment
             /\ Fresh(e, n, base)[k].len >= 1
             /\ k + Fresh(e, n, base)[k].len <= sentBytes[e] + n
  <2>1. PICK o \in Cuts(n) : k = Offset(base + o)
    BY DEF Fresh
  <2>2. k = base + o /\ k - base = o
    BY <1>1, <1>2, <2>1
  <2>3. k = base + o /\ (k - base) % OffsetSpan = o
    BY <1>2, <2>2
  <2>4. Fresh(e, n, base)[k] = [len |-> CutLength(n, o), pos |-> sentBytes[e] + o]
    BY <2>3 DEF Fresh
  <2>. QED
    BY <1>1, <1>2, <2>3, <2>4 DEF Segment
<1>. QED
  BY <1>3 DEF IsQueue, Fresh

-----------------------------------------------------------------------------
\* Segments that are not empty and end at or before MaxBytes.
Bounded(rq) ==
    /\ IsQueue(rq)
    /\ \A k \in DOMAIN rq : rq[k].len >= 1 /\ k + rq[k].len <= MaxBytes

\* Every drained segment but the first starts where another one ends.
LEMMA Predecessor ==
    ASSUME NoWrap, NEW rq, Bounded(rq), NEW r \in Nat,
           NEW k \in InSequence(rq, r)
    PROVE  /\ k \in Nat /\ r \in InSequence(rq, r) /\ r <= k
           /\ r < k => \E i \in InSequence(rq, r) :
                          /\ i < k /\ k = i + rq[i].len
                          /\ \A m \in DOMAIN rq : m <= i \/ k <= m
<1>1. k \in DOMAIN rq /\ k \in Nat /\ r \in DOMAIN rq /\ \A j \in DOMAIN rq : r <= j
  BY DEF InSequence, First, Bounded, IsQueue
<1>2. r \in InSequence(rq, r)
  <2>1. \A j \in DOMAIN rq : ~(r < j /\ j <= r)
    BY DEF Bounded, IsQueue
  <2>. QED
    BY <1>1, <2>1 DEF InSequence, First
<1>3. ASSUME r < k
      PROVE  \E i \in InSequence(rq, r) :
                /\ i < k /\ k = i + rq[i].len
                /\ \A m \in DOMAIN rq : m <= i \/ k <= m
  <2>1. PICK i \in DOMAIN rq : Adjacent(DOMAIN rq, i, k) /\ k = Offset(i + rq[i].len)
    BY <1>1, <1>3 DEF InSequence
  <2>2. i \in Nat /\ rq[i].len \in Nat /\ i + rq[i].len \in 0 .. MaxBytes
    BY SizesAssumption DEF Bounded, IsQueue, Segment
  <2>3. k = i + rq[i].len
    BY <2>1, <2>2, OffsetOfSmall
  <2>4. i < k /\ \A m \in DOMAIN rq : m <= i \/ k <= m
    BY <2>1 DEF Adjacent
  <2>5. \A j \in DOMAIN rq : j <= i => j <= k
    BY <1>1, <2>2, <2>4 DEF Bounded, IsQueue
  <2>6. i \in InSequence(rq, r)
    BY <1>1, <2>5 DEF InSequence
  <2>. QED
    BY <2>3, <2>4, <2>6
<1>. QED
  BY <1>1, <1>2, <1>3

\* The drained segments do not overlap.
LEMMA RunDisjoint ==
    ASSUME NoWrap, NEW rq, Bounded(rq), NEW r \in Nat
    PROVE  \A j, k \in InSequence(rq, r) : j < k => j + rq[j].len <= k
<1>. DEFINE run == InSequence(rq, r)
            Bad == {k \in run : \E j \in run : j < k /\ ~(j + rq[j].len <= k)}
<1>. SUFFICES ASSUME Bad # {} PROVE FALSE
  OBVIOUS
<1>1. \A k \in run : k \in DOMAIN rq /\ k \in Nat /\ rq[k].len \in Nat
  BY DEF InSequence, Bounded, IsQueue, Segment
<1>2. Bad \subseteq Nat
  BY <1>1
<1>3. PICK k \in Bad : \A x \in Bad : k <= x
  BY <1>2, LeastExists
<1>4. PICK j \in run : j < k /\ ~(j + rq[j].len <= k)
  OBVIOUS
<1>5. r <= j
  BY Predecessor
<1>6. r < k
  BY <1>1, <1>4, <1>5
<1>7. PICK i \in run : i < k /\ k = i + rq[i].len /\ \A m \in DOMAIN rq : m <= i \/ k <= m
  BY <1>6, Predecessor
<1>8. j \in DOMAIN rq /\ j \in Nat /\ i \in Nat /\ k \in Nat /\ rq[i].len \in Nat
  BY <1>1
<1>9. j <= i
  BY <1>8, <1>4, <1>7
<1>10. i \notin Bad
  BY <1>1, <1>3, <1>7
<1>11. CASE j = i
  BY <1>8, <1>4, <1>7, <1>11
<1>12. CASE j # i
  <2>1. j + rq[j].len <= i
    BY <1>1, <1>9, <1>10, <1>12
  <2>. QED
    BY <2>1, <1>1, <1>4, <1>7
<1>. QED
  BY <1>11, <1>12

\* The drained segments leave no gap between r and the end of the last one.
LEMMA RunCovers ==
    ASSUME NoWrap, NEW rq, Bounded(rq), NEW r \in Nat,
           NEW last \in Last(InSequence(rq, r))
    PROVE  \A b \in Nat : r <= b /\ b < last + rq[last].len =>
              \E k \in InSequence(rq, r) : k <= b /\ b < k + rq[k].len
<1>. SUFFICES ASSUME NEW b \in Nat, r <= b, b < last + rq[last].len
              PROVE  \E k \in InSequence(rq, r) : k <= b /\ b < k + rq[k].len
  OBVIOUS
<1>. DEFINE run == InSequence(rq, r)
            Below == {k \in run : k <= b}
<1>1. \A k \in run : k \in DOMAIN rq /\ k \in Nat /\ rq[k].len \in Nat
  BY DEF InSequence, Bounded, IsQueue, Segment
<1>2. last \in run /\ (\A k \in run : k <= last) /\ r \in run
  BY Predecessor DEF Last
<1>3. b \in Nat /\ r <= b /\ b < last + rq[last].len
  BY <1>1, <1>2
<1>4. r \in Below /\ Below \subseteq Nat /\ \A k \in Below : k <= b
  BY <1>1, <1>2, <1>3
<1>5. PICK t \in Below : \A k \in Below : k <= t
  BY <1>3, <1>4, GreatestExists
<1>6. CASE t = last
  BY <1>3, <1>6
<1>7. CASE t # last
  <2>. DEFINE Above == {k \in run : t < k}
  <2>1. last \in Above /\ Above \subseteq Nat
    BY <1>1, <1>2, <1>7
  <2>2. PICK k \in Above : \A x \in Above : k <= x
    BY <2>1, LeastExists
  <2>3. r < k
    BY <1>1, <1>2, <1>4, <1>5, <2>2
  <2>4. PICK i \in run : i < k /\ k = i + rq[i].len /\ \A m \in DOMAIN rq : m <= i \/ k <= m
    BY <2>3, Predecessor
  <2>5. i = t
    BY <1>1, <2>2, <2>4
  <2>6. b < k
    BY <1>1, <1>3, <1>5, <2>2
  <2>. QED
    BY <2>4, <2>5, <2>6
<1>. QED
  BY <1>6, <1>7

-----------------------------------------------------------------------------
\* The queues of a state that satisfies Inv are bounded.
LEMMA HeldIsBounded ==
    ASSUME Inv, NEW e \in Endpoint, NEW rq, IsQueue(rq), Holds(rq, queued[Other(e)])
    PROVE  /\ Bounded(rq)
           /\ \A k \in DOMAIN rq : k + rq[k].len <= sentBytes[Other(e)]
<1>1. Other(e) \in Endpoint
  BY OtherEnd
<1>2. sentBytes[Other(e)] \in 0 .. MaxBytes
  BY <1>1 DEF Inv, TypeOK
<1>3. ASSUME NEW k \in DOMAIN rq
      PROVE  rq[k].len >= 1 /\ k + rq[k].len <= sentBytes[Other(e)]
  <2>1. Placed(k, rq[k]) \in queued[Other(e)]
    BY DEF Holds
  <2>. QED
    BY <1>1, <2>1 DEF Inv, Provenance, Placed
<1>4. \A k \in DOMAIN rq : k \in Nat /\ rq[k].len \in Nat
  BY DEF IsQueue, Segment
<1>. QED
  BY <1>2, <1>3, <1>4, SizesAssumption DEF Bounded

\* What the tail of stream::feed does to the receive side of an end.
LEMMA DrainStep ==
    ASSUME NoWrap, Inv, NEW e \in Endpoint, NEW rq, IsQueue(rq),
           Holds(rq, queued[Other(e)]), NEW d, NEW sent, Drain(e, rq, d, sent)
    PROVE  /\ recvOffset' \in [Endpoint -> Nat]
           /\ \A x \in Endpoint : recvOffset[x] <= recvOffset'[x]
           /\ recvOffset'[e] <= sentBytes[Other(e)]
           /\ DOMAIN recvQueue' = Endpoint
           /\ delivered' \in [Endpoint -> SUBSET PlacedSegment]
           /\ \A x \in Endpoint : x # e =>
                /\ recvOffset'[x] = recvOffset[x]
                /\ recvQueue'[x] = recvQueue[x]
                /\ delivered'[x] = delivered[x]
           /\ IsQueue(recvQueue'[e]) /\ Holds(recvQueue'[e], queued[Other(e)])
           /\ delivered'[e] \subseteq queued[Other(e)]
           /\ \A s \in delivered'[e] : s.offset + s.len <= recvOffset'[e]
           /\ \A b \in 0 .. recvOffset'[e] - 1 : \E s \in delivered'[e] :
                 Covers(s, b) /\ \A t \in delivered'[e] : Covers(t, b) => t = s
           /\ IsABag(net')
           /\ BagToSet(net') \subseteq
                BagToSet(net) \cup sent \cup {AckDatagram(e, recvOffset'[e])}
<1>. DEFINE r == recvOffset[e]
            run == InSequence(rq, r)
<1>1. /\ r \in Nat /\ Other(e) \in Endpoint /\ IsABag(net)
      /\ recvOffset \in [Endpoint -> Nat]
      /\ DOMAIN recvQueue = Endpoint
      /\ delivered \in [Endpoint -> SUBSET PlacedSegment]
  BY OtherEnd DEF Inv, TypeOK
<1>2. /\ delivered[e] \subseteq queued[Other(e)]
      /\ \A s \in delivered[e] : s.offset + s.len <= r
      /\ \A s \in delivered[e] : s.offset \in Nat /\ s.len \in Nat
      /\ r <= sentBytes[Other(e)]
      /\ \A b \in 0 .. r - 1 : \E s \in delivered[e] :
            Covers(s, b) /\ \A t \in delivered[e] : Covers(t, b) => t = s
  BY <1>1 DEF Inv, Provenance, Authentic, Contiguous, PlacedSegment
<1>3. CASE /\ run = {}
           /\ recvQueue' = [recvQueue EXCEPT ![e] = rq]
           /\ net' = (net (-) SetToBag({d})) (+) SetToBag(sent)
           /\ UNCHANGED <<recvOffset, delivered>>
  <2>1. IsABag(net') /\ BagToSet(net') \subseteq BagToSet(net) \cup sent
    BY <1>1, <1>3, BagStep
  <2>2. recvQueue'[e] = rq /\ recvOffset' = recvOffset /\ delivered' = delivered
    BY <1>1, <1>3
  <2>3. /\ DOMAIN recvQueue' = Endpoint
        /\ \A x \in Endpoint : x # e => recvQueue'[x] = recvQueue[x]
    BY <1>1, <1>3
  <2>4. \A x \in Endpoint : recvOffset[x] <= recvOffset'[x]
    BY <1>1, <2>2
  <2>. QED
    BY <1>1, <1>2, <2>1, <2>2, <2>3, <2>4
<1>4. ASSUME NEW k \in Last(run),
             recvOffset' = [recvOffset EXCEPT ![e] = Offset(k + rq[k].len)],
             recvQueue' = [recvQueue EXCEPT ![e] = [j \in DOMAIN rq \ run |-> rq[j]]],
             delivered' = [delivered EXCEPT ![e] =
                             @ \cup {Placed(j, rq[j]) : j \in run}],
             net' = (net (-) SetToBag({d})) (+)
                      SetToBag(sent \cup {AckDatagram(e, Offset(k + rq[k].len))})
      PROVE  /\ recvOffset' \in [Endpoint -> Nat]
             /\ \A x \in Endpoint : recvOffset[x] <= recvOffset'[x]
             /\ recvOffset'[e] <= sentBytes[Other(e)]
             /\ DOMAIN recvQueue' = Endpoint
             /\ delivered' \in [Endpoint -> SUBSET PlacedSegment]
             /\ \A x \in Endpoint : x # e =>
                  /\ recvOffset'[x] = recvOffset[x]
                  /\ recvQueue'[x] = recvQueue[x]
                  /\ delivered'[x] = delivered[x]
             /\ IsQueue(recvQueue'[e]) /\ Holds(recvQueue'[e], queued[Other(e)])
             /\ delivered'[e] \subseteq queued[Other(e)]
             /\ \A s \in delivered'[e] : s.offset + s.len <= recvOffset'[e]
             /\ \A b \in 0 .. recvOffset'[e] - 1 : \E s \in delivered'[e] :
                   Covers(s, b) /\ \A t \in delivered'[e] : Covers(t, b) => t = s
             /\ IsABag(net')
             /\ BagToSet(net') \subseteq
                  BagToSet(net) \cup sent \cup {AckDatagram(e, recvOffset'[e])}
  <2>. DEFINE end == k + rq[k].len
  <2>1. /\ Bounded(rq)
        /\ \A j \in DOMAIN rq : j + rq[j].len <= sentBytes[Other(e)]
    BY HeldIsBounded
  <2>2. k \in run /\ run \subseteq DOMAIN rq /\ \A j \in run : j <= k
    BY DEF Last, InSequence
  <2>3. \A j \in DOMAIN rq : /\ j \in Nat /\ rq[j].len \in Nat /\ rq[j].pos \in Nat
                             /\ rq[j].len >= 1 /\ j + rq[j].len \in 0 .. MaxBytes
    BY <2>1, SizesAssumption DEF Bounded, IsQueue, Segment
  <2>4. Offset(k + rq[k].len) = end /\ end \in Nat
    BY <2>2, <2>3, OffsetOfSmall
  <2>5. \A j \in run : r <= j
    BY <1>1, <2>1, Predecessor
  <2>6. r < end
    BY <1>1, <2>2, <2>3, <2>5
  <2>7. \A i, j \in run : i < j => i + rq[i].len <= j
    BY <1>1, <2>1, RunDisjoint
  <2>8. \A j \in run : j + rq[j].len <= end
    BY <2>2, <2>3, <2>7
  <2>9. /\ recvOffset'[e] = end
        /\ recvQueue'[e] = [j \in DOMAIN rq \ run |-> rq[j]]
        /\ delivered'[e] = delivered[e] \cup {Placed(j, rq[j]) : j \in run}
    BY <1>1, <1>4, <2>4
  <2>10. /\ recvOffset' \in [Endpoint -> Nat]
         /\ \A x \in Endpoint : recvOffset[x] <= recvOffset'[x]
         /\ recvOffset'[e] <= sentBytes[Other(e)]
    BY <1>1, <1>4, <2>1, <2>2, <2>4, <2>6, <2>9
  <2>11. \A j \in run : Placed(j, rq[j]) \in queued[Other(e)] /\ Placed(j, rq[j]) \in PlacedSegment
    BY <2>2, <2>3 DEF Holds, Placed, PlacedSegment
  <2>12. delivered' \in [Endpoint -> SUBSET PlacedSegment]
    BY <1>1, <1>4, <2>11
  <2>13. IsQueue(recvQueue'[e]) /\ Holds(recvQueue'[e], queued[Other(e)])
    BY <2>9 DEF IsQueue, Holds
  <2>14. delivered'[e] \subseteq queued[Other(e)]
    BY <1>2, <2>9, <2>11
  <2>15. \A s \in delivered'[e] : s.offset + s.len <= recvOffset'[e]
    BY <1>1, <1>2, <2>4, <2>6, <2>8, <2>9 DEF Placed
  <2>16. ASSUME NEW b \in 0 .. end - 1
         PROVE  \E s \in delivered'[e] :
                   Covers(s, b) /\ \A t \in delivered'[e] : Covers(t, b) => t = s
    <3>1. CASE b < r
      <4>1. PICK s \in delivered[e] :
               Covers(s, b) /\ \A t \in delivered[e] : Covers(t, b) => t = s
        BY <1>1, <1>2, <3>1
      <4>2. \A j \in run : ~Covers(Placed(j, rq[j]), b)
        BY <1>1, <2>2, <2>3, <2>5, <3>1 DEF Covers, Placed
      <4>. QED
        BY <2>9, <4>1, <4>2
    <3>2. CASE ~(b < r)
      <4>1. b \in Nat /\ r <= b /\ b < end
        BY <1>1, <2>4, <3>2
      <4>2. PICK j \in run : j <= b /\ b < j + rq[j].len
        <5>1. \A c \in Nat : r <= c /\ c < end => \E j \in run : j <= c /\ c < j + rq[j].len
          BY <1>1, <2>1, RunCovers
        <5>. QED
          BY <4>1, <5>1
      <4>3. Covers(Placed(j, rq[j]), b)
        BY <4>2 DEF Covers, Placed
      <4>4. \A t \in delivered[e] : ~Covers(t, b)
        BY <1>1, <1>2, <3>2 DEF Covers
      <4>5. ASSUME NEW i \in run, Covers(Placed(i, rq[i]), b) PROVE i = j
        <5>1. i <= b /\ b < i + rq[i].len
          BY <4>5 DEF Covers, Placed
        <5>. QED
          BY <2>2, <2>3, <2>7, <4>2, <5>1
      <4>. QED
        BY <2>9, <4>3, <4>4, <4>5
    <3>. QED
      BY <3>1, <3>2
  <2>17. /\ IsABag(net')
         /\ BagToSet(net') \subseteq
              BagToSet(net) \cup sent \cup {AckDatagram(e, recvOffset'[e])}
    <3>. DEFINE S == sent \cup {AckDatagram(e, recvOffset'[e])}
    <3>1. net' = (net (-) SetToBag({d})) (+) SetToBag(S)
      BY <1>4, <2>4, <2>9
    <3>2. IsABag(net') /\ BagToSet(net') \subseteq BagToSet(net) \cup S
      <4>. HIDE DEF S
      <4>. QED
        BY <1>1, <3>1, BagStep
    <3>. QED
      BY <3>2
  <2>. QED
    BY <1>1, <1>4, <2>9, <2>10, <2>12, <2>13, <2>14, <2>15, <2>16, <2>17
<1>. QED
  BY <1>3, <1>4 DEF Drain

-----------------------------------------------------------------------------
\* What send_one_datagram keeps, and the datagram it sends.
LEMMA UnsentHead ==
    ASSUME NEW e \in Endpoint, NEW q, IsQueue(q), NEW S, Holds(q, S), NEW off \in Nat
    PROVE  /\ IsQueue(Unsent(q, off)) /\ Holds(Unsent(q, off), S)
           /\ \A h \in HeadDatagram(e, Unsent(q, off)) :
                /\ h \in Datagram /\ h.type = "data" /\ h.to = Other(e)
                /\ Placed(h.offset, h) \in S
<1>. DEFINE u == Unsent(q, off)
<1>1. IsQueue(u) /\ Holds(u, S)
  BY DEF IsQueue, Holds, Unsent
<1>2. ASSUME NEW h \in HeadDatagram(e, u)
      PROVE  /\ h \in Datagram /\ h.type = "data" /\ h.to = Other(e)
             /\ Placed(h.offset, h) \in S
  <2>. HIDE DEF u
  <2>1. PICK k \in DOMAIN u : h = DataDatagram(e, k, u[k])
    BY DEF HeadDatagram, First
  <2>2. k \in Nat /\ u[k] \in Segment /\ Placed(k, u[k]) \in S
    BY <1>1 DEF IsQueue, Holds
  <2>3. h \in Datagram /\ h.type = "data" /\ h.to = Other(e)
    BY <2>1, <2>2, OtherEnd DEF DataDatagram, Datagram, Segment
  <2>4. Placed(h.offset, h) = Placed(k, u[k])
    BY <2>1 DEF DataDatagram, Placed
  <2>. QED
    BY <2>2, <2>3, <2>4
<1>. QED
  BY <1>1, <1>2

\* The empty stream satisfies the invariant.
LEMMA InitInv == Init => Inv
<1>. SUFFICES ASSUME Init PROVE Inv
  OBVIOUS
<1>1. IsABag(net) /\ BagToSet(net) = {}
  BY DEF Init, IsABag, BagToSet, EmptyBag, SetToBag
<1>2. TypeOK
  BY <1>1, SizesAssumption DEF Init, TypeOK, IsQueue
<1>3. Provenance
  BY <1>1, OtherEnd DEF Init, Provenance, Holds
<1>4. AckSound /\ NothingDropped /\ Contiguous /\ Authentic
  BY OtherEnd DEF Init, AckSound, NothingDropped, Contiguous, Authentic
<1>. QED
  BY <1>2, <1>3, <1>4 DEF Inv

\* A datagram that was right stays right while queued and recvOffset grow.
LEMMA DatagramStaysOK ==
    ASSUME NEW d, DatagramOK(d), TypeOK, recvOffset' \in [Endpoint -> Nat],
           \A x \in Endpoint : recvOffset[x] <= recvOffset'[x],
           \A x \in Endpoint : queued[x] \subseteq queued'[x]
    PROVE  DatagramOK(d)'
<1>1. d \in Datagram /\ d.to \in Endpoint /\ Other(d.to) \in Endpoint /\ d.offset \in Nat
  BY OtherEnd DEF DatagramOK, Datagram
<1>2. d.type = "data_ack" => d.offset <= recvOffset'[Other(d.to)]
  BY <1>1 DEF DatagramOK, TypeOK
<1>. QED
  BY <1>1, <1>2 DEF DatagramOK

\* stream::send keeps the invariant: it queues segments whose bytes are the ones
\* the application just added, and sends at most the head.
LEMMA SendInv ==
    ASSUME NoWrap, Inv, NEW e \in Endpoint, NEW n \in DataSizes, Send(e, n)
    PROVE  Inv'
<1>1. PICK base \in Base(e) :
         LET new == Fresh(e, n, base)
             q   == Insert(sendQueue[e], new)
         IN  /\ SendOneDatagram(e, q, sendOffset[e])
             /\ net' = net (+) SetToBag(HeadDatagram(e, Unsent(q, sendOffset[e])))
             /\ queued' = [queued EXCEPT ![e] = @ \cup
                    {Placed(k, new[k]) : k \in DOMAIN new \ DOMAIN sendQueue[e]}]
  BY DEF Send
<1>. DEFINE new == Fresh(e, n, base)
            q   == Insert(sendQueue[e], new)
            u   == Unsent(q, sendOffset[e])
<1>2. /\ sentBytes[e] + n <= MaxBytes
      /\ sentBytes' = [sentBytes EXCEPT ![e] = @ + n]
      /\ UNCHANGED <<sendOffset, recvOffset, recvQueue, delivered>>
  BY DEF Send
<1>3. /\ IsQueue(new)
      /\ \A k \in DOMAIN new : new[k].len >= 1 /\ k + new[k].len <= sentBytes[e] + n
  BY <1>2, FreshFits
<1>. HIDE DEF new
<1>4. /\ sendQueue' = [sendQueue EXCEPT ![e] = u]
      /\ timer' = [timer EXCEPT ![e] = u # << >>]
      /\ net' = net (+) SetToBag(HeadDatagram(e, u))
      /\ queued' = [queued EXCEPT ![e] = @ \cup
            {Placed(k, new[k]) : k \in DOMAIN new \ DOMAIN sendQueue[e]}]
  BY <1>1 DEF SendOneDatagram, new
<1>5. /\ TypeOK /\ Provenance /\ n \in Nat
      /\ sendOffset[e] \in Nat /\ recvOffset \in [Endpoint -> Nat]
      /\ sentBytes \in [Endpoint -> 0 .. MaxBytes]
      /\ queued \in [Endpoint -> SUBSET PlacedSegment]
      /\ IsQueue(sendQueue[e]) /\ Holds(sendQueue[e], queued[e])
      /\ DOMAIN sendQueue = Endpoint /\ IsABag(net)
      /\ timer \in [Endpoint -> BOOLEAN]
  BY SizesAssumption DEF Inv, TypeOK, Provenance
<1>6. queued'[e] = queued[e] \cup
        {Placed(k, new[k]) : k \in DOMAIN new \ DOMAIN sendQueue[e]}
  BY <1>4, <1>5
<1>7. \A x \in Endpoint : x # e => /\ queued'[x] = queued[x]
                                   /\ sendQueue'[x] = sendQueue[x]
                                   /\ sentBytes'[x] = sentBytes[x]
  BY <1>2, <1>4, <1>5
<1>8. sendQueue'[e] = u /\ sentBytes'[e] = sentBytes[e] + n
  BY <1>2, <1>4, <1>5
<1>9. IsQueue(q) /\ Holds(q, queued'[e])
  BY <1>3, <1>5, <1>6 DEF IsQueue, Holds, Insert
<1>10. /\ IsQueue(u) /\ Holds(u, queued'[e])
       /\ \A h \in HeadDatagram(e, u) :
            /\ h \in Datagram /\ h.type = "data" /\ h.to = Other(e)
            /\ Placed(h.offset, h) \in queued'[e]
  <2>. HIDE DEF q
  <2>. QED
    BY <1>5, <1>9, UnsentHead
<1>11. /\ IsABag(net')
       /\ BagToSet(net') \subseteq BagToSet(net) \cup HeadDatagram(e, u)
  BY <1>4, <1>5, BagStep
<1>12. \A k \in DOMAIN new : Placed(k, new[k]) \in PlacedSegment
  BY <1>3 DEF IsQueue, Segment, Placed, PlacedSegment
<1>13. \A x \in Endpoint : queued[x] \subseteq queued'[x]
  BY <1>6, <1>7
<1>14. \A d \in BagToSet(net') : DatagramOK(d)'
  <2>1. ASSUME NEW d \in BagToSet(net) PROVE DatagramOK(d)'
    <3>1. DatagramOK(d)
      BY <1>5 DEF Provenance
    <3>2. \A x \in Endpoint : recvOffset[x] <= recvOffset'[x]
      BY <1>2, <1>5
    <3>. QED
      BY <1>2, <1>5, <1>13, <3>1, <3>2, DatagramStaysOK
  <2>2. ASSUME NEW d \in HeadDatagram(e, u) PROVE DatagramOK(d)'
    BY <1>10, OtherEnd DEF DatagramOK
  <2>. QED
    BY <1>11, <2>1, <2>2
<1>15. TypeOK'
  <2>1. sentBytes' \in [Endpoint -> 0 .. MaxBytes]
    BY <1>2, <1>5
  <2>2. queued' \in [Endpoint -> SUBSET PlacedSegment]
    BY <1>4, <1>5, <1>12
  <2>3. BagToSet(net') \subseteq Datagram
    BY <1>14 DEF DatagramOK
  <2>4. timer' \in [Endpoint -> BOOLEAN]
    <3>1. (u # << >>) \in BOOLEAN
      OBVIOUS
    <3>. HIDE DEF u
    <3>. QED
      BY <1>4, <1>5, <3>1
  <2>5. DOMAIN sendQueue' = Endpoint /\ \A x \in Endpoint : IsQueue(sendQueue'[x])
    BY <1>4, <1>5, <1>7, <1>8, <1>10 DEF TypeOK
  <2>. QED
    BY <1>2, <1>5, <1>11, <2>1, <2>2, <2>3, <2>4, <2>5 DEF TypeOK
<1>16. Provenance'
  <2>1. ASSUME NEW x \in Endpoint
        PROVE  \A s \in queued'[x] : s.len >= 1 /\ s.offset + s.len <= sentBytes'[x]
    <3>1. CASE x # e
      BY <1>5, <1>7, <3>1 DEF Provenance
    <3>2. CASE x = e
      <4>1. \A s \in queued[e] : s.len >= 1 /\ s.offset + s.len <= sentBytes[e] + n
        BY <1>5 DEF Provenance, PlacedSegment
      <4>2. \A k \in DOMAIN new : /\ Placed(k, new[k]).len >= 1
                                  /\ Placed(k, new[k]).offset + Placed(k, new[k]).len
                                        <= sentBytes[e] + n
        BY <1>3 DEF Placed
      <4>. QED
        BY <1>6, <1>8, <3>2, <4>1, <4>2
    <3>. QED
      BY <3>1, <3>2
  <2>2. ASSUME NEW x \in Endpoint
        PROVE  Holds(sendQueue'[x], queued'[x]) /\ Holds(recvQueue'[x], queued'[Other(x)])
    BY <1>2, <1>5, <1>7, <1>8, <1>10, <1>13, OtherEnd DEF Provenance, Holds
  <2>3. ASSUME NEW x \in Endpoint
        PROVE  /\ \A s \in delivered'[x] : s.offset + s.len <= recvOffset'[x]
               /\ recvOffset'[x] <= sentBytes'[Other(x)]
    BY <1>2, <1>5, OtherEnd DEF Provenance
  <2>. QED
    BY <1>14, <2>1, <2>2, <2>3 DEF Provenance
<1>17. AckSound' /\ Contiguous'
  BY <1>2 DEF Inv, AckSound, Contiguous
<1>18. Authentic'
  BY <1>2, <1>13, OtherEnd DEF Inv, Authentic
<1>19. NothingDropped'
  <2>. SUFFICES ASSUME NEW x \in Endpoint, NEW s \in queued'[x]
                PROVE  \/ s.offset < recvOffset'[Other(x)]
                       \/ /\ s.offset \in DOMAIN sendQueue'[x]
                          /\ s = Placed(s.offset, sendQueue'[x][s.offset])
    BY DEF NothingDropped
  <2>1. CASE x # e
    BY <1>2, <1>7, <2>1 DEF Inv, NothingDropped
  <2>2. CASE x = e
    <3>1. \/ s.offset < recvOffset[Other(e)]
          \/ s.offset \in DOMAIN q /\ s = Placed(s.offset, q[s.offset])
      <4>1. CASE s \in queued[e]
        BY <4>1 DEF Inv, NothingDropped, Insert
      <4>2. CASE s \notin queued[e]
        <5>1. PICK k \in DOMAIN new \ DOMAIN sendQueue[e] : s = Placed(k, new[k])
          BY <1>6, <2>2, <4>2
        <5>2. s.offset = k /\ k \in DOMAIN q /\ q[k] = new[k]
          BY <5>1 DEF Placed, Insert
        <5>. QED
          BY <5>1, <5>2
      <4>. QED
        BY <4>1, <4>2
    <3>2. \A k \in DOMAIN q : k < sendOffset[e] => k < recvOffset[Other(e)]
      BY <1>5, <1>9, OtherEnd DEF Inv, AckSound, IsQueue
    <3>3. \A k \in DOMAIN q : k < sendOffset[e] \/ (k \in DOMAIN u /\ u[k] = q[k])
      BY <1>5, <1>9 DEF Unsent, IsQueue
    <3>. QED
      BY <1>2, <1>8, <2>2, <3>1, <3>2, <3>3
  <2>. QED
    BY <2>1, <2>2
<1>. QED
  BY <1>15, <1>16, <1>17, <1>18, <1>19 DEF Inv

\* Both kinds of stream::feed: the receive side does what DrainStep says, the
\* send side of the same end is trimmed to a lower bound of what was received.
LEMMA FeedInv ==
    ASSUME NoWrap, Inv, NEW e \in Endpoint, NEW rq, IsQueue(rq),
           Holds(rq, queued[Other(e)]), NEW d, NEW sent, Drain(e, rq, d, sent),
           \A m \in sent : DatagramOK(m),
           UNCHANGED <<sentBytes, queued>>,
           timer' \in [Endpoint -> BOOLEAN],
           sendOffset' \in [Endpoint -> Nat], DOMAIN sendQueue' = Endpoint,
           \A x \in Endpoint :
              /\ sendOffset'[x] <= recvOffset[Other(x)]
              /\ IsQueue(sendQueue'[x]) /\ Holds(sendQueue'[x], queued[x])
              /\ \A k \in DOMAIN sendQueue[x] :
                   \/ k < recvOffset[Other(x)]
                   \/ k \in DOMAIN sendQueue'[x] /\ sendQueue'[x][k] = sendQueue[x][k]
    PROVE  Inv'
<1>1. TypeOK /\ Provenance
  BY DEF Inv
<1>2. /\ recvOffset' \in [Endpoint -> Nat]
      /\ \A x \in Endpoint : recvOffset[x] <= recvOffset'[x]
      /\ recvOffset'[e] <= sentBytes[Other(e)]
      /\ DOMAIN recvQueue' = Endpoint
      /\ delivered' \in [Endpoint -> SUBSET PlacedSegment]
      /\ \A x \in Endpoint : x # e =>
           /\ recvOffset'[x] = recvOffset[x]
           /\ recvQueue'[x] = recvQueue[x]
           /\ delivered'[x] = delivered[x]
      /\ IsQueue(recvQueue'[e]) /\ Holds(recvQueue'[e], queued[Other(e)])
      /\ delivered'[e] \subseteq queued[Other(e)]
      /\ \A s \in delivered'[e] : s.offset + s.len <= recvOffset'[e]
  BY DrainStep
<1>3. \A b \in 0 .. recvOffset'[e] - 1 : \E s \in delivered'[e] :
         Covers(s, b) /\ \A t \in delivered'[e] : Covers(t, b) => t = s
  BY DrainStep
<1>4. /\ IsABag(net')
      /\ BagToSet(net') \subseteq
           BagToSet(net) \cup sent \cup {AckDatagram(e, recvOffset'[e])}
  BY DrainStep
<1>5. \A m \in BagToSet(net') : DatagramOK(m)'
  <2>1. ASSUME NEW m, DatagramOK(m) PROVE DatagramOK(m)'
    BY <1>1, <1>2, <2>1, DatagramStaysOK
  <2>2. ASSUME NEW m, m = AckDatagram(e, recvOffset'[e]) PROVE DatagramOK(m)'
    BY <1>2, <2>2, OtherEnd DEF DatagramOK, AckDatagram, Datagram
  <2>. QED
    BY <1>1, <1>4, <2>1, <2>2 DEF Provenance
<1>6. TypeOK'
  <2>1. BagToSet(net') \subseteq Datagram
    BY <1>5 DEF DatagramOK
  <2>2. \A x \in Endpoint : IsQueue(recvQueue'[x])
    BY <1>1, <1>2 DEF TypeOK
  <2>. QED
    BY <1>1, <1>2, <1>4, <2>1, <2>2 DEF TypeOK
<1>7. Provenance'
  BY <1>1, <1>2, <1>5, OtherEnd DEF Provenance
<1>8. AckSound'
  BY <1>1, <1>2, OtherEnd DEF TypeOK, AckSound
<1>9. NothingDropped'
  <2>. SUFFICES ASSUME NEW x \in Endpoint, NEW s \in queued[x]
                PROVE  \/ s.offset < recvOffset'[Other(x)]
                       \/ /\ s.offset \in DOMAIN sendQueue'[x]
                          /\ s = Placed(s.offset, sendQueue'[x][s.offset])
    BY DEF NothingDropped
  <2>1. s.offset \in Nat /\ Other(x) \in Endpoint
    BY <1>1, OtherEnd DEF TypeOK, PlacedSegment
  <2>2. s.offset < recvOffset[Other(x)] => s.offset < recvOffset'[Other(x)]
    BY <1>1, <1>2, <2>1 DEF TypeOK
  <2>. QED
    BY <2>2 DEF Inv, NothingDropped
<1>10. Contiguous'
  BY <1>2, <1>3 DEF Inv, Contiguous
<1>11. Authentic'
  BY <1>2 DEF Inv, Authentic
<1>. QED
  BY <1>6, <1>7, <1>8, <1>9, <1>10, <1>11 DEF Inv

\* stream::feed of a data datagram keeps the invariant.
LEMMA FeedDataInv ==
    ASSUME NoWrap, Inv, NEW d \in BagToSet(net), FeedData(d)
    PROVE  Inv'
<1>. DEFINE e  == d.to
            rq == [k \in DOMAIN recvQueue[e] \cup {d.offset} |->
                     IF k = d.offset THEN [len |-> d.len, pos |-> d.pos]
                                     ELSE recvQueue[e][k]]
<1>1. /\ d.type = "data" /\ Drain(e, rq, d, {})
      /\ UNCHANGED <<sendOffset, sendQueue, timer, sentBytes, queued>>
  BY DEF FeedData
<1>2. TypeOK /\ Provenance /\ AckSound
  BY DEF Inv
<1>3. DatagramOK(d) /\ e \in Endpoint
  BY <1>2 DEF Provenance, DatagramOK, Datagram
<1>4. d.offset \in Nat /\ [len |-> d.len, pos |-> d.pos] \in Segment
  BY <1>3 DEF DatagramOK, Datagram, Segment
<1>5. Placed(d.offset, [len |-> d.len, pos |-> d.pos]) \in queued[Other(e)]
  BY <1>1, <1>3 DEF DatagramOK, Placed
<1>6. IsQueue(rq)
  BY <1>2, <1>3, <1>4 DEF TypeOK, IsQueue
<1>7. Holds(rq, queued[Other(e)])
  BY <1>2, <1>3, <1>5 DEF Provenance, Holds
<1>. HIDE DEF rq
<1>8. \A x \in Endpoint :
         /\ sendOffset'[x] <= recvOffset[Other(x)]
         /\ IsQueue(sendQueue'[x]) /\ Holds(sendQueue'[x], queued[x])
         /\ \A k \in DOMAIN sendQueue[x] :
              \/ k < recvOffset[Other(x)]
              \/ k \in DOMAIN sendQueue'[x] /\ sendQueue'[x][k] = sendQueue[x][k]
  BY <1>1, <1>2 DEF TypeOK, Provenance, AckSound
<1>9. /\ timer' \in [Endpoint -> BOOLEAN] /\ sendOffset' \in [Endpoint -> Nat]
      /\ DOMAIN sendQueue' = Endpoint /\ UNCHANGED <<sentBytes, queued>>
  BY <1>1, <1>2 DEF TypeOK
<1>10. \A m \in {} : DatagramOK(m)
  OBVIOUS
<1>. QED
  BY <1>1, <1>3, <1>6, <1>7, <1>8, <1>9, <1>10, FeedInv

\* stream::feed of a data_ack keeps the invariant.
LEMMA FeedAckInv ==
    ASSUME NoWrap, Inv, NEW d \in BagToSet(net), FeedAck(d)
    PROVE  Inv'
<1>. DEFINE e == d.to
            u == Unsent(sendQueue[e], d.offset)
<1>1. /\ d.type = "data_ack"
      /\ sendOffset' = [sendOffset EXCEPT ![e] = d.offset]
      /\ sendQueue' = [sendQueue EXCEPT ![e] = u]
      /\ timer' = [timer EXCEPT ![e] = u # << >>]
      /\ Drain(e, recvQueue[e], d, HeadDatagram(e, u))
      /\ UNCHANGED <<sentBytes, queued>>
  BY DEF FeedAck, SendOneDatagram
<1>2. TypeOK /\ Provenance /\ AckSound
  BY DEF Inv
<1>3. DatagramOK(d) /\ e \in Endpoint /\ Other(e) \in Endpoint
  BY <1>2, OtherEnd DEF Provenance, DatagramOK, Datagram
<1>4. d.offset \in Nat /\ d.offset <= recvOffset[Other(e)]
  BY <1>1, <1>3 DEF DatagramOK, Datagram
<1>5. /\ IsQueue(sendQueue[e]) /\ Holds(sendQueue[e], queued[e])
      /\ IsQueue(recvQueue[e]) /\ Holds(recvQueue[e], queued[Other(e)])
  BY <1>2, <1>3 DEF TypeOK, Provenance
<1>6. /\ IsQueue(u) /\ Holds(u, queued[e])
      /\ \A h \in HeadDatagram(e, u) :
           /\ h \in Datagram /\ h.type = "data" /\ h.to = Other(e)
           /\ Placed(h.offset, h) \in queued[e]
  BY <1>3, <1>4, <1>5, UnsentHead
<1>7. \A h \in HeadDatagram(e, u) : DatagramOK(h)
  BY <1>3, <1>6, OtherEnd DEF DatagramOK
<1>8. \A k \in DOMAIN sendQueue[e] :
         k < recvOffset[Other(e)] \/ (k \in DOMAIN u /\ u[k] = sendQueue[e][k])
  BY <1>2, <1>3, <1>4, <1>5 DEF Unsent, IsQueue, TypeOK
<1>. HIDE DEF u
<1>9. /\ sendOffset' \in [Endpoint -> Nat] /\ DOMAIN sendQueue' = Endpoint
      /\ sendOffset'[e] = d.offset /\ sendQueue'[e] = u
      /\ \A x \in Endpoint : x # e => /\ sendOffset'[x] = sendOffset[x]
                                      /\ sendQueue'[x] = sendQueue[x]
  BY <1>1, <1>2, <1>3, <1>4 DEF TypeOK
<1>10. timer' \in [Endpoint -> BOOLEAN]
  <2>1. (u # << >>) \in BOOLEAN
    OBVIOUS
  <2>. QED
    BY <1>1, <1>2, <1>3, <2>1 DEF TypeOK
<1>11. \A x \in Endpoint :
         /\ sendOffset'[x] <= recvOffset[Other(x)]
         /\ IsQueue(sendQueue'[x]) /\ Holds(sendQueue'[x], queued[x])
         /\ \A k \in DOMAIN sendQueue[x] :
              \/ k < recvOffset[Other(x)]
              \/ k \in DOMAIN sendQueue'[x] /\ sendQueue'[x][k] = sendQueue[x][k]
  BY <1>2, <1>4, <1>6, <1>8, <1>9 DEF TypeOK, Provenance, AckSound
<1>. QED
  BY <1>1, <1>3, <1>5, <1>7, <1>9, <1>10, <1>11, FeedInv

\* The timer's send_one_datagram keeps the invariant.
LEMMA RetransmitInv ==
    ASSUME Inv, NEW e \in Endpoint, Retransmit(e)
    PROVE  Inv'
<1>. DEFINE u == Unsent(sendQueue[e], sendOffset[e])
<1>1. /\ sendQueue' = [sendQueue EXCEPT ![e] = u]
      /\ timer' = [timer EXCEPT ![e] = u # << >>]
      /\ net' = net (+) SetToBag(HeadDatagram(e, u))
      /\ UNCHANGED <<sendOffset, recvOffset, recvQueue, sentBytes, queued, delivered>>
  BY DEF Retransmit, SendOneDatagram
<1>2. TypeOK /\ Provenance /\ AckSound /\ NothingDropped /\ Other(e) \in Endpoint
  BY OtherEnd DEF Inv
<1>3. /\ IsQueue(u) /\ Holds(u, queued[e])
      /\ \A h \in HeadDatagram(e, u) :
           /\ h \in Datagram /\ h.type = "data" /\ h.to = Other(e)
           /\ Placed(h.offset, h) \in queued[e]
  BY <1>2, UnsentHead DEF TypeOK, Provenance
<1>4. \A k \in DOMAIN sendQueue[e] :
         k < recvOffset[Other(e)] \/ (k \in DOMAIN u /\ u[k] = sendQueue[e][k])
  BY <1>2 DEF Unsent, IsQueue, TypeOK, AckSound
<1>. HIDE DEF u
<1>5. /\ IsABag(net')
      /\ BagToSet(net') \subseteq BagToSet(net) \cup HeadDatagram(e, u)
  BY <1>1, <1>2, BagStep DEF TypeOK
<1>6. ASSUME NEW d \in BagToSet(net') PROVE DatagramOK(d)'
  <2>1. DatagramOK(d)
    BY <1>2, <1>3, <1>5, OtherEnd DEF Provenance, DatagramOK
  <2>. QED
    BY <1>1, <2>1 DEF DatagramOK
<1>7. /\ DOMAIN sendQueue' = Endpoint /\ sendQueue'[e] = u
      /\ \A x \in Endpoint : x # e => sendQueue'[x] = sendQueue[x]
  BY <1>1, <1>2 DEF TypeOK
<1>8. TypeOK'
  <2>1. BagToSet(net') \subseteq Datagram
    BY <1>6 DEF DatagramOK
  <2>2. (u # << >>) \in BOOLEAN
    OBVIOUS
  <2>3. timer' \in [Endpoint -> BOOLEAN]
    BY <1>1, <1>2, <2>2 DEF TypeOK
  <2>. QED
    BY <1>1, <1>2, <1>3, <1>5, <1>7, <2>1, <2>3 DEF TypeOK
<1>9. Provenance'
  BY <1>1, <1>2, <1>3, <1>6, <1>7 DEF Provenance
<1>10. NothingDropped'
  BY <1>1, <1>2, <1>4, <1>7 DEF NothingDropped
<1>11. AckSound' /\ Contiguous' /\ Authentic'
  BY <1>1 DEF Inv, AckSound, Contiguous, Authentic
<1>. QED
  BY <1>8, <1>9, <1>10, <1>11 DEF Inv

\* Losing or duplicating a datagram keeps the invariant.
LEMMA NetworkInv ==
    ASSUME Inv, NEW d \in BagToSet(net), Lose(d) \/ Duplicate(d)
    PROVE  Inv'
<1>1. UNCHANGED <<sendOffset, recvOffset, sendQueue, recvQueue, timer,
                  sentBytes, queued, delivered>>
  BY DEF Lose, Duplicate
<1>2. IsABag(net') /\ BagToSet(net') \subseteq BagToSet(net)
  <2>1. IsABag(net)
    BY DEF Inv, TypeOK
  <2>2. CASE Lose(d)
    BY <2>1, <2>2, BagStep DEF Lose
  <2>3. CASE Duplicate(d)
    <3>1. net' = net (+) SetToBag({d})
      BY <2>3 DEF Duplicate
    <3>2. IsABag(net') /\ BagToSet(net') \subseteq BagToSet(net) \cup {d}
      BY <2>1, <3>1, BagStep
    <3>. QED
      BY <3>2
  <2>. QED
    BY <2>2, <2>3
<1>3. ASSUME NEW m \in BagToSet(net') PROVE DatagramOK(m)'
  BY <1>1, <1>2 DEF Inv, Provenance, DatagramOK
<1>4. TypeOK'
  BY <1>1, <1>2 DEF Inv, TypeOK
<1>5. Provenance'
  BY <1>1, <1>3 DEF Inv, Provenance
<1>6. AckSound' /\ NothingDropped' /\ Contiguous' /\ Authentic'
  BY <1>1 DEF Inv, AckSound, NothingDropped, Contiguous, Authentic
<1>. QED
  BY <1>4, <1>5, <1>6 DEF Inv

\* Every step keeps the invariant.
LEMMA NextInv ==
    ASSUME NoWrap
    PROVE  Inv /\ [Next]_vars => Inv'
<1>. SUFFICES ASSUME Inv, [Next]_vars PROVE Inv'
  OBVIOUS
<1>1. ASSUME NEW e \in Endpoint, NEW n \in DataSizes, Send(e, n) PROVE Inv'
  BY <1>1, SendInv
<1>2. ASSUME NEW d \in BagToSet(net), FeedData(d) PROVE Inv'
  BY <1>2, FeedDataInv
<1>3. ASSUME NEW d \in BagToSet(net), FeedAck(d) PROVE Inv'
  BY <1>3, FeedAckInv
<1>4. ASSUME NEW e \in Endpoint, Retransmit(e) PROVE Inv'
  BY <1>4, RetransmitInv
<1>5. ASSUME NEW d \in BagToSet(net), Lose(d) \/ Duplicate(d) PROVE Inv'
  BY <1>5, NetworkInv
<1>6. CASE UNCHANGED vars
  BY <1>6 DEF vars, Inv, TypeOK, Provenance, DatagramOK, AckSound,
              NothingDropped, Contiguous, Authentic
<1>. QED
  BY <1>1, <1>2, <1>3, <1>4, <1>5, <1>6 DEF Next

\* The invariant holds throughout every behaviour in which fewer bytes are
\* sent than an offset can count, whatever the network loses, duplicates and
\* reorders, however early the timer fires and however send is called.
THEOREM StreamInvariant ==
    ASSUME NoWrap
    PROVE  Spec => []Inv
<1>1. Init => Inv
  BY InitInv
<1>2. Inv /\ [Next]_vars => Inv'
  BY NextInv
<1>. QED
  BY <1>1, <1>2, PTL DEF Spec

\* Every variable keeps its type.
THEOREM StreamTypeOK ==
    ASSUME NoWrap
    PROVE  Spec => []TypeOK
<1>1. Inv => TypeOK
  BY DEF Inv
<1>. QED
  BY <1>1, StreamInvariant, PTL

\* A stale, duplicated or reordered data_ack never makes an end believe that
\* the other has received more than it has.
THEOREM StreamAckSound ==
    ASSUME NoWrap
    PROVE  Spec => []AckSound
<1>1. Inv => AckSound
  BY DEF Inv
<1>. QED
  BY <1>1, StreamInvariant, PTL

\* A segment leaves the send queue only after the receiver has moved past it.
THEOREM StreamNothingDropped ==
    ASSUME NoWrap
    PROVE  Spec => []NothingDropped
<1>1. Inv => NothingDropped
  BY DEF Inv
<1>. QED
  BY <1>1, StreamInvariant, PTL

\* The application is given every offset from 0 to recv_offset_ exactly once.
THEOREM StreamContiguous ==
    ASSUME NoWrap
    PROVE  Spec => []Contiguous
<1>1. Inv => Contiguous
  BY DEF Inv
<1>. QED
  BY <1>1, StreamInvariant, PTL

\* The application is given only what the other end queued at that offset.
THEOREM StreamAuthentic ==
    ASSUME NoWrap
    PROVE  Spec => []Authentic
<1>1. Inv => Authentic
  BY DEF Inv
<1>. QED
  BY <1>1, StreamInvariant, PTL

\* Feeding data moves recv_offset_ of the receiving end only, and forward.
LEMMA FeedDataReads ==
    ASSUME NoWrap, Inv, NEW d \in BagToSet(net), FeedData(d)
    PROVE  /\ d.to \in Endpoint /\ sentBytes' = sentBytes
           /\ \A x \in Endpoint : recvOffset[x] <= recvOffset'[x]
           /\ \A x \in Endpoint : x # d.to => recvOffset'[x] = recvOffset[x]
<1>. DEFINE e  == d.to
            rq == [k \in DOMAIN recvQueue[e] \cup {d.offset} |->
                     IF k = d.offset THEN [len |-> d.len, pos |-> d.pos]
                                     ELSE recvQueue[e][k]]
<1>1. TypeOK /\ Provenance
  BY DEF Inv
<1>2. DatagramOK(d) /\ e \in Endpoint
  BY <1>1 DEF Provenance, DatagramOK, Datagram
<1>3. d.type = "data" /\ Drain(e, rq, d, {}) /\ sentBytes' = sentBytes
  BY DEF FeedData
<1>4. d.offset \in Nat /\ [len |-> d.len, pos |-> d.pos] \in Segment
  BY <1>2 DEF DatagramOK, Datagram, Segment
<1>5. Placed(d.offset, [len |-> d.len, pos |-> d.pos]) \in queued[Other(e)]
  BY <1>2, <1>3 DEF DatagramOK, Placed
<1>6. IsQueue(rq)
  BY <1>1, <1>2, <1>4 DEF TypeOK, IsQueue
<1>7. Holds(rq, queued[Other(e)])
  BY <1>1, <1>2, <1>5 DEF Provenance, Holds
<1>. HIDE DEF rq
<1>. QED
  BY <1>2, <1>3, <1>6, <1>7, DrainStep

\* So does feeding an acknowledgement, if it moves anything.
LEMMA FeedAckReads ==
    ASSUME NoWrap, Inv, NEW d \in BagToSet(net), FeedAck(d)
    PROVE  /\ d.to \in Endpoint /\ sentBytes' = sentBytes
           /\ \A x \in Endpoint : recvOffset[x] <= recvOffset'[x]
           /\ \A x \in Endpoint : x # d.to => recvOffset'[x] = recvOffset[x]
<1>. DEFINE e == d.to
<1>1. TypeOK /\ Provenance
  BY DEF Inv
<1>2. e \in Endpoint
  BY <1>1 DEF Provenance, DatagramOK, Datagram
<1>3. /\ Drain(e, recvQueue[e], d, HeadDatagram(e, Unsent(sendQueue[e], d.offset)))
      /\ sentBytes' = sentBytes
  BY DEF FeedAck
<1>4. IsQueue(recvQueue[e]) /\ Holds(recvQueue[e], queued[Other(e)])
  BY <1>1, <1>2 DEF TypeOK, Provenance
<1>. QED
  BY <1>2, <1>3, <1>4, DrainStep

-----------------------------------------------------------------------------
(* One send at a time: the refinement of BytePipe.                         *)

\* The uses of a stream that keep bytes in their places: send is not called
\* while segments are unacknowledged, and the network duplicates nothing.
OneByOne == ~Pipelined /\ ~Duplicating

\* The datagrams that carry data of e or acknowledge it.
Concerns(d, e) ==
    \/ d.type = "data" /\ d.to = Other(e)
    \/ d.type = "data_ack" /\ d.to = e

\* The datagrams of e's data: nothing beyond send_offset_ has been sent, and
\* the one acknowledgement on the way is new to e and up to date.
FlightOK(e) ==
    \A d \in BagToSet(net) : Concerns(d, e) =>
        /\ d.type = "data" => d.offset <= sendOffset[e]
        /\ d.type = "data_ack" => /\ d = AckDatagram(Other(e), recvOffset[Other(e)])
                                  /\ sendOffset[e] < recvOffset[Other(e)]
                                  /\ net[d] = 1

\* The ends of segments of e, as far as they are still queued.
Marks(e) == DOMAIN sendQueue[e] \cup {sentBytes[e]}

\* What e has sent sits at its place, its queue covers without a gap what lies
\* between send_offset_ and the bytes sent so far, and the other end is at a
\* boundary of segments.
DirectionOK(e) ==
    /\ \A s \in queued[e] : s.pos = s.offset
    /\ \A k \in DOMAIN sendQueue[e] :
         sendOffset[e] <= k /\ k + sendQueue[e][k].len \in Marks(e)
    /\ sendOffset[e] \in Marks(e)
    /\ recvOffset[Other(e)] \in Marks(e)
    /\ \A k \in DOMAIN recvQueue[Other(e)] : k <= sendOffset[e]
    /\ FlightOK(e)

\* The inductive invariant of a stream that is used that way.
PipeInv == Inv /\ \A e \in Endpoint : DirectionOK(e)

\* The copies left after one datagram is taken out of the network.
LEMMA BagTake ==
    ASSUME NEW B, IsABag(B), NEW d
    PROVE  /\ \A m \in BagToSet(B (-) SetToBag({d})) :
                m \in BagToSet(B) /\ (m # d => (B (-) SetToBag({d}))[m] = B[m])
           /\ B[d] = 1 => d \notin BagToSet(B (-) SetToBag({d}))
BY DEF IsABag, BagToSet, SetToBag, (-)

\* The copies there are after datagrams are sent.
LEMMA BagPut ==
    ASSUME NEW B, IsABag(B), NEW S
    PROVE  \A m \in BagToSet(B (+) SetToBag(S)) :
             /\ m \notin S => m \in BagToSet(B) /\ (B (+) SetToBag(S))[m] = B[m]
             /\ m \notin BagToSet(B) => m \in S /\ (B (+) SetToBag(S))[m] = 1
BY DEF IsABag, BagToSet, SetToBag, (+)

\* A direction stays in order if nothing of it changes but datagrams that go,
\* and data that comes at or below send_offset_.
LEMMA DirectionKept ==
    ASSUME NEW e \in Endpoint, DirectionOK(e),
           queued'[e] = queued[e], sendQueue'[e] = sendQueue[e],
           sendOffset'[e] = sendOffset[e], sentBytes'[e] = sentBytes[e],
           recvOffset'[Other(e)] = recvOffset[Other(e)],
           recvQueue'[Other(e)] = recvQueue[Other(e)],
           \A d \in BagToSet(net') : Concerns(d, e) =>
              \/ d.type = "data" /\ d.offset <= sendOffset[e]
              \/ d \in BagToSet(net) /\ (d.type = "data_ack" => net'[d] = net[d])
    PROVE  DirectionOK(e)'
<1>1. FlightOK(e)'
  <2>. SUFFICES ASSUME NEW d \in BagToSet(net'), Concerns(d, e)
                PROVE  /\ d.type = "data" => d.offset <= sendOffset[e]
                       /\ d.type = "data_ack" =>
                            /\ d = AckDatagram(Other(e), recvOffset[Other(e)])
                            /\ sendOffset[e] < recvOffset[Other(e)]
                            /\ net'[d] = 1
    BY DEF FlightOK, Concerns, AckDatagram
  <2>. QED
    BY DEF DirectionOK, FlightOK
<1>. QED
  BY <1>1 DEF DirectionOK, Marks

\* What the receive side of e does when nothing beyond send_offset_ of the other
\* end has been sent: it takes at most the one segment both offsets name, and
\* the acknowledgement of that is the only one on the way.
LEMMA DrainDirection ==
    ASSUME NoWrap, Inv, NEW e \in Endpoint, NEW o, o = Other(e), DirectionOK(o),
           NEW rq, IsQueue(rq), Holds(rq, queued[o]),
           \A k \in DOMAIN rq : k <= sendOffset[o],
           NEW d \in BagToSet(net), NEW sent, Drain(e, rq, d, sent),
           \A m \in sent : ~Concerns(m, o),
           Concerns(d, o) => d.type = "data",
           sendOffset'[o] = sendOffset[o], sendQueue'[o] = sendQueue[o],
           UNCHANGED <<sentBytes, queued>>
    PROVE  DirectionOK(o)'
<1>. DEFINE r   == recvOffset[e]
            run == InSequence(rq, r)
            L   == net (-) SetToBag({d})
<1>1. /\ o \in Endpoint /\ Other(o) = e /\ o # e
      /\ TypeOK /\ Provenance /\ AckSound /\ NothingDropped
      /\ IsABag(net) /\ r \in Nat /\ sendOffset[o] \in Nat /\ sendOffset[o] <= r
      /\ DOMAIN recvQueue = Endpoint
  BY OtherEnd DEF Inv, TypeOK, AckSound
<1>2. /\ IsABag(L)
      /\ \A m \in BagToSet(L) : m \in BagToSet(net) /\ (m # d => L[m] = net[m])
  BY <1>1, BagStep, BagTake
<1>. HIDE DEF L
<1>3. CASE /\ recvQueue' = [recvQueue EXCEPT ![e] = rq]
           /\ net' = L (+) SetToBag(sent)
           /\ UNCHANGED <<recvOffset, delivered>>
  <2>1. ASSUME NEW m \in BagToSet(net'), Concerns(m, o)
        PROVE  \/ m.type = "data" /\ m.offset <= sendOffset[o]
               \/ m \in BagToSet(net) /\ (m.type = "data_ack" => net'[m] = net[m])
    <3>1. m \notin sent
      BY <2>1
    <3>2. m \in BagToSet(L) /\ net'[m] = L[m]
      BY <1>2, <1>3, <3>1, BagPut
    <3>3. m.type = "data_ack" => m # d
      BY <2>1
    <3>. QED
      BY <1>2, <3>2, <3>3
  <2>2. FlightOK(o)'
    <3>. SUFFICES ASSUME NEW m \in BagToSet(net'), Concerns(m, o)
                  PROVE  /\ m.type = "data" => m.offset <= sendOffset[o]
                         /\ m.type = "data_ack" =>
                              /\ m = AckDatagram(e, r)
                              /\ sendOffset[o] < r
                              /\ net'[m] = 1
      BY <1>1, <1>3 DEF FlightOK, Concerns, AckDatagram
    <3>. QED
      BY <1>1, <2>1 DEF DirectionOK, FlightOK
  <2>3. recvQueue'[e] = rq
    BY <1>1, <1>3
  <2>. QED
    BY <1>1, <1>3, <2>2, <2>3 DEF DirectionOK, Marks
<1>4. ASSUME NEW k \in Last(run),
             recvOffset' = [recvOffset EXCEPT ![e] = Offset(k + rq[k].len)],
             recvQueue' = [recvQueue EXCEPT ![e] = [j \in DOMAIN rq \ run |-> rq[j]]],
             net' = L (+) SetToBag(sent \cup {AckDatagram(e, Offset(k + rq[k].len))})
      PROVE  DirectionOK(o)'
  <2>1. k \in DOMAIN rq /\ r \in DOMAIN rq /\ \A j \in DOMAIN rq : r <= j
    BY DEF Last, InSequence, First
  <2>2. k = r /\ r = sendOffset[o]
    BY <1>1, <2>1 DEF IsQueue
  <2>3. Placed(r, rq[r]) \in queued[o] /\ rq[r] \in Segment
    BY <2>1 DEF Holds, IsQueue
  <2>4. r \in DOMAIN sendQueue[o] /\ Placed(r, rq[r]) = Placed(r, sendQueue[o][r])
    BY <1>1, <2>3 DEF NothingDropped, Placed
  <2>5. rq[r].len = sendQueue[o][r].len
    BY <2>4 DEF Placed
  <2>6. r + rq[r].len \in Marks(o)
    BY <2>4, <2>5 DEF DirectionOK
  <2>7. rq[r].len >= 1 /\ r + rq[r].len <= sentBytes[o] /\ rq[r].len \in Nat
    BY <1>1, <2>3 DEF Provenance, Placed, Segment
  <2>8. sentBytes[o] \in 0 .. MaxBytes
    BY <1>1 DEF TypeOK
  <2>9. Offset(r + rq[r].len) = r + rq[r].len
    BY <1>1, <2>7, <2>8, SizesAssumption, OffsetOfSmall
  <2>. DEFINE end == r + rq[r].len
              ack == AckDatagram(e, end)
  <2>10. /\ recvOffset'[e] = end /\ end \in Nat /\ sendOffset[o] < end
         /\ recvQueue'[e] = [j \in DOMAIN rq \ run |-> rq[j]]
         /\ net' = L (+) SetToBag(sent \cup {ack})
    <3>1. recvOffset'[e] = end /\ end \in Nat /\ sendOffset[o] < end
      BY <1>1, <1>4, <2>2, <2>7, <2>9 DEF TypeOK
    <3>2. recvQueue'[e] = [j \in DOMAIN rq \ run |-> rq[j]]
      BY <1>1, <1>4
    <3>3. net' = L (+) SetToBag(sent \cup {ack})
      BY <1>4, <2>2, <2>9
    <3>. QED
      BY <3>1, <3>2, <3>3
  <2>. HIDE DEF end
  <2>11. ASSUME NEW m \in BagToSet(net), Concerns(m, o) PROVE m.type # "data_ack"
    BY <1>1, <2>2, <2>11 DEF DirectionOK, FlightOK
  <2>12. ack.type = "data_ack" /\ Concerns(ack, o)
    BY DEF AckDatagram, Concerns
  <2>13. FlightOK(o)'
    <3>. SUFFICES ASSUME NEW m \in BagToSet(net'), Concerns(m, o)
                  PROVE  /\ m.type = "data" => m.offset <= sendOffset[o]
                         /\ m.type = "data_ack" => m = ack /\ net'[m] = 1
      BY <1>1, <2>10 DEF FlightOK, Concerns, AckDatagram
    <3>1. CASE m = ack
      <4>1. m \notin BagToSet(L)
        BY <1>2, <2>11, <2>12, <3>1
      <4>. QED
        BY <1>2, <2>10, <2>12, <3>1, <4>1, BagPut
    <3>2. CASE m # ack
      <4>1. m \notin sent \cup {ack}
        BY <3>2
      <4>2. m \in BagToSet(net)
        BY <1>2, <2>10, <4>1, BagPut
      <4>3. m.type # "data_ack"
        BY <2>11, <4>2
      <4>. QED
        BY <4>2, <4>3 DEF DirectionOK, FlightOK
    <3>. QED
      BY <3>1, <3>2
  <2>14. Marks(o)' = Marks(o)
    BY DEF Marks
  <2>15. recvOffset'[Other(o)] \in Marks(o)
    BY <1>1, <2>6, <2>10 DEF end
  <2>16. \A j \in DOMAIN recvQueue'[Other(o)] : j <= sendOffset[o]
    BY <1>1, <2>10
  <2>. QED
    BY <2>13, <2>14, <2>15, <2>16 DEF DirectionOK
<1>. QED
  BY <1>3, <1>4 DEF Drain, L

\* send_one_datagram sends nothing beyond an offset that the queue has.
LEMMA HeadBelow ==
    ASSUME NEW e \in Endpoint, NEW q, NEW off, off \in DOMAIN q \/ DOMAIN q = {}
    PROVE  \A h \in HeadDatagram(e, q) :
              h.type = "data" /\ h.to = Other(e) /\ h.offset <= off
BY DEF HeadDatagram, First, DataDatagram

\* A full segment after a multiple of its size there is another one.
LEMMA NextMultiple ==
    ASSUME NEW S \in Nat, S > 0, NEW o \in Nat, o % S = 0
    PROVE  (o + S) % S = 0
<1>. DEFINE q == o \div S
            p == (o + S) \div S
            r == (o + S) % S
<1>1. q \in Int /\ p \in Int /\ r \in 0 .. S - 1 /\ o + S \in Nat
  OBVIOUS
<1>2. o = q * S
  OBVIOUS
<1>3. o + S = p * S + r
  BY <1>1
<1>. HIDE DEF q, p, r
<1>4. (q + 1 - p) * S = r
  <2>1. (q + 1 - p) * S = q * S + S - p * S
    BY <1>1
  <2>2. q * S \in Int /\ p * S \in Int
    BY <1>1
  <2>. QED
    BY <1>1, <1>2, <1>3, <2>1, <2>2
<1>. DEFINE x == q + 1 - p
<1>5. x \in Int /\ x * S = r
  BY <1>1, <1>4
<1>. HIDE DEF x
<1>6. r = 0
  BY <1>1, <1>5
<1>. QED
  BY <1>6 DEF r

\* Where stream::send cuts a string: at 0, and after every full segment.
LEMMA CutsMeet ==
    ASSUME NEW n \in Nat \ {0}
    PROVE  /\ 0 \in Cuts(n)
           /\ \A o \in Cuts(n) :
                /\ o \in Nat /\ o < n
                /\ CutLength(n, o) \in Nat /\ CutLength(n, o) >= 1
                /\ o + CutLength(n, o) \in Cuts(n) \cup {n}
<1>1. SegmentMax \in Nat /\ SegmentMax > 0
  BY SizesAssumption
<1>2. 0 \in Cuts(n)
  BY <1>1 DEF Cuts
<1>3. ASSUME NEW o \in Cuts(n)
      PROVE  /\ o \in Nat /\ o < n
             /\ CutLength(n, o) \in Nat /\ CutLength(n, o) >= 1
             /\ o + CutLength(n, o) \in Cuts(n) \cup {n}
  <2>1. o \in Nat /\ o < n /\ o % SegmentMax = 0
    BY DEF Cuts
  <2>2. (o + SegmentMax) % SegmentMax = 0
    BY <1>1, <2>1, NextMultiple
  <2>3. CASE n - o > SegmentMax
    BY <1>1, <2>1, <2>2, <2>3 DEF Cuts, CutLength
  <2>4. CASE ~(n - o > SegmentMax)
    BY <1>1, <2>1, <2>4 DEF CutLength
  <2>. QED
    BY <2>1, <2>3, <2>4
<1>. QED
  BY <1>2, <1>3

\* The segments of a string that is sent when nothing is queued: they follow
\* the bytes sent before, each where the one before it ends.
LEMMA FreshTiles ==
    ASSUME NoWrap, Inv, NEW e \in Endpoint, NEW n \in DataSizes,
           sentBytes[e] + n <= MaxBytes, NEW base, base = sentBytes[e]
    PROVE  /\ base \in DOMAIN Fresh(e, n, base)
           /\ \A k \in DOMAIN Fresh(e, n, base) :
                /\ k \in Nat /\ base <= k
                /\ Fresh(e, n, base)[k].pos = k
                /\ k + Fresh(e, n, base)[k].len \in
                      DOMAIN Fresh(e, n, base) \cup {base + n}
<1>1. n \in Nat \ {0} /\ base \in Nat /\ base + n <= MaxBytes /\ MaxBytes \in Nat
  BY SizesAssumption DEF Inv, TypeOK
<1>2. ASSUME NEW o \in Cuts(n)
      PROVE  Offset(base + o) = base + o /\ (base + o - base) % OffsetSpan = o
  <2>1. o \in Nat /\ o < n
    BY <1>1, CutsMeet
  <2>2. base + o \in 0 .. MaxBytes /\ o \in 0 .. MaxBytes /\ base + o - base = o
    BY <1>1, <2>1
  <2>. QED
    BY <2>2, OffsetOfSmall DEF Offset
<1>3. DOMAIN Fresh(e, n, base) = {base + o : o \in Cuts(n)}
  BY <1>2 DEF Fresh
<1>4. ASSUME NEW o \in Cuts(n)
      PROVE  Fresh(e, n, base)[base + o] =
                [len |-> CutLength(n, o), pos |-> sentBytes[e] + o]
  <2>. DEFINE k == base + o
  <2>1. k = Offset(base + o) /\ (k - base) % OffsetSpan = o
    <3>1. o \in Nat
      BY <1>1, CutsMeet
    <3>. QED
      BY <1>1, <1>2, <3>1
  <2>2. k \in {Offset(base + i) : i \in Cuts(n)}
    BY <2>1
  <2>. HIDE DEF k
  <2>3. Fresh(e, n, base)[k] = [len |-> CutLength(n, o), pos |-> sentBytes[e] + o]
    BY <2>1, <2>2 DEF Fresh
  <2>. QED
    BY <2>3 DEF k
<1>5. base \in DOMAIN Fresh(e, n, base)
  <2>1. 0 \in Cuts(n) /\ base + 0 = base
    BY <1>1, CutsMeet
  <2>. QED
    BY <1>3, <2>1
<1>6. ASSUME NEW k \in DOMAIN Fresh(e, n, base)
      PROVE  /\ k \in Nat /\ base <= k
             /\ Fresh(e, n, base)[k].pos = k
             /\ k + Fresh(e, n, base)[k].len \in DOMAIN Fresh(e, n, base) \cup {base + n}
  <2>1. PICK o \in Cuts(n) : k = base + o
    BY <1>3
  <2>2. o \in Nat /\ CutLength(n, o) \in Nat /\ o + CutLength(n, o) \in Cuts(n) \cup {n}
    BY <1>1, CutsMeet
  <2>3. Fresh(e, n, base)[k].pos = base + o /\ Fresh(e, n, base)[k].len = CutLength(n, o)
    <3>1. Fresh(e, n, base)[k] = [len |-> CutLength(n, o), pos |-> sentBytes[e] + o]
      BY <1>4, <2>1
    <3>. QED
      BY <3>1
  <2>4. k + CutLength(n, o) = base + (o + CutLength(n, o))
    BY <1>1, <2>1, <2>2
  <2>5. base + (o + CutLength(n, o)) \in DOMAIN Fresh(e, n, base) \cup {base + n}
    <3>1. CASE o + CutLength(n, o) = n
      BY <3>1
    <3>2. CASE o + CutLength(n, o) \in Cuts(n)
      BY <1>3, <3>2
    <3>. QED
      BY <2>2, <3>1, <3>2
  <2>. QED
    BY <1>1, <2>1, <2>2, <2>3, <2>4, <2>5
<1>. QED
  BY <1>5, <1>6

\* An end whose queue is empty is at the end of what it sent, and so is the
\* other one: only then is send called.
LEMMA NothingQueued ==
    ASSUME Inv, NEW e \in Endpoint, DirectionOK(e), sendQueue[e] = << >>
    PROVE  sendOffset[e] = sentBytes[e] /\ recvOffset[Other(e)] = sentBytes[e]
BY DEF DirectionOK, Marks

\* stream::send keeps both directions in order.
LEMMA SendDirection ==
    ASSUME NoWrap, OneByOne, PipeInv, NEW e \in Endpoint, NEW n \in DataSizes, Send(e, n)
    PROVE  \A x \in Endpoint : DirectionOK(x)'
<1>1. sendQueue[e] = << >> /\ sentBytes[e] + n <= MaxBytes
  BY DEF Send, OneByOne
<1>. DEFINE base == sentBytes[e]
            new  == Fresh(e, n, base)
<1>2. /\ Inv /\ DirectionOK(e) /\ TypeOK /\ AckSound /\ IsABag(net)
      /\ sendOffset[e] = base /\ recvOffset[Other(e)] = base
      /\ base \in Nat /\ n \in Nat /\ n >= 1
  BY <1>1, NothingQueued, SizesAssumption DEF PipeInv, Inv, TypeOK
<1>3. Base(e) = {base}
  BY <1>1, <1>2 DEF Base
<1>4. /\ base \in DOMAIN new
      /\ \A k \in DOMAIN new : /\ k \in Nat /\ base <= k
                               /\ new[k].pos = k
                               /\ k + new[k].len \in DOMAIN new \cup {base + n}
  BY <1>1, <1>2, FreshTiles
<1>5. /\ DOMAIN Insert(sendQueue[e], new) = DOMAIN new
      /\ \A k \in DOMAIN new : Insert(sendQueue[e], new)[k] = new[k]
  BY <1>1 DEF Insert
<1>. DEFINE u == Unsent(Insert(sendQueue[e], new), sendOffset[e])
<1>6. DOMAIN u = DOMAIN new /\ \A k \in DOMAIN new : u[k] = new[k]
  <2>. HIDE DEF new, base
  <2>. QED
    BY <1>2, <1>4, <1>5 DEF Unsent
<1>7. /\ sendQueue' = [sendQueue EXCEPT ![e] = u]
      /\ net' = net (+) SetToBag(HeadDatagram(e, u))
      /\ queued' = [queued EXCEPT ![e] = @ \cup
            {Placed(k, new[k]) : k \in DOMAIN new \ DOMAIN sendQueue[e]}]
      /\ sentBytes' = [sentBytes EXCEPT ![e] = @ + n]
      /\ UNCHANGED <<sendOffset, recvOffset, recvQueue, delivered>>
  <2>1. PICK b \in Base(e) :
           LET f == Fresh(e, n, b)
               q == Insert(sendQueue[e], f)
           IN  /\ SendOneDatagram(e, q, sendOffset[e])
               /\ net' = net (+) SetToBag(HeadDatagram(e, Unsent(q, sendOffset[e])))
               /\ queued' = [queued EXCEPT ![e] = @ \cup
                      {Placed(k, f[k]) : k \in DOMAIN f \ DOMAIN sendQueue[e]}]
    BY DEF Send
  <2>2. b = base
    BY <1>3
  <2>3. sendQueue' = [sendQueue EXCEPT ![e] = u]
    BY <2>1, <2>2 DEF SendOneDatagram
  <2>4. net' = net (+) SetToBag(HeadDatagram(e, u))
    BY <2>1, <2>2
  <2>5. queued' = [queued EXCEPT ![e] = @ \cup
            {Placed(k, new[k]) : k \in DOMAIN new \ DOMAIN sendQueue[e]}]
    BY <2>1, <2>2
  <2>6. /\ sentBytes' = [sentBytes EXCEPT ![e] = @ + n]
        /\ UNCHANGED <<sendOffset, recvOffset, recvQueue, delivered>>
    BY DEF Send
  <2>. QED
    BY <2>3, <2>4, <2>5, <2>6
<1>. HIDE DEF u, new
<1>8. /\ sendQueue'[e] = u /\ sentBytes'[e] = base + n
      /\ queued'[e] = queued[e] \cup {Placed(k, new[k]) : k \in DOMAIN new}
  BY <1>1, <1>2, <1>7 DEF TypeOK
<1>9. \A h \in HeadDatagram(e, u) : h.type = "data" /\ h.to = Other(e) /\ h.offset <= base
  BY <1>4, <1>6, HeadBelow
<1>10. ASSUME NEW m \in BagToSet(net')
       PROVE  \/ m.type = "data" /\ m.to = Other(e) /\ m.offset <= base
              \/ m \in BagToSet(net) /\ net'[m] = net[m]
  BY <1>2, <1>7, <1>9, BagPut
<1>11. DirectionOK(e)'
  <2>1. \A s \in queued'[e] : s.pos = s.offset
    BY <1>2, <1>4, <1>8 DEF DirectionOK, Placed
  <2>2. \A k \in DOMAIN u : /\ sendOffset[e] <= k
                            /\ k + u[k].len \in DOMAIN u \cup {base + n}
    BY <1>2, <1>4, <1>6
  <2>3. sendOffset[e] \in DOMAIN u /\ recvOffset[Other(e)] \in DOMAIN u
    BY <1>2, <1>4, <1>6
  <2>4. FlightOK(e)'
    <3>. SUFFICES ASSUME NEW m \in BagToSet(net'), Concerns(m, e)
                  PROVE  /\ m.type = "data" => m.offset <= sendOffset[e]
                         /\ m.type = "data_ack" =>
                              /\ m = AckDatagram(Other(e), recvOffset[Other(e)])
                              /\ sendOffset[e] < recvOffset[Other(e)]
                              /\ net'[m] = 1
      BY <1>7 DEF FlightOK, Concerns, AckDatagram
    <3>. QED
      BY <1>2, <1>10 DEF DirectionOK, FlightOK
  <2>. QED
    BY <1>2, <1>7, <1>8, <2>1, <2>2, <2>3, <2>4 DEF DirectionOK, Marks
<1>12. ASSUME NEW x \in Endpoint, x # e PROVE DirectionOK(x)'
  <2>1. /\ DirectionOK(x) /\ queued'[x] = queued[x] /\ sendQueue'[x] = sendQueue[x]
        /\ sendOffset'[x] = sendOffset[x] /\ sentBytes'[x] = sentBytes[x]
        /\ recvOffset'[Other(x)] = recvOffset[Other(x)]
        /\ recvQueue'[Other(x)] = recvQueue[Other(x)]
    BY <1>2, <1>7, <1>12 DEF TypeOK, PipeInv
  <2>2. Other(x) # Other(e)
    BY <1>12, OtherEnd
  <2>3. ASSUME NEW m \in BagToSet(net'), Concerns(m, x)
        PROVE  m \in BagToSet(net) /\ net'[m] = net[m]
    BY <1>10, <2>2, <2>3 DEF Concerns
  <2>. QED
    BY <2>1, <2>3, DirectionKept
<1>. QED
  BY <1>11, <1>12

\* stream::feed of data keeps both directions in order.
LEMMA FeedDataDirection ==
    ASSUME NoWrap, PipeInv, NEW d \in BagToSet(net), FeedData(d)
    PROVE  \A x \in Endpoint : DirectionOK(x)'
<1>. DEFINE e  == d.to
            o  == Other(e)
            rq == [k \in DOMAIN recvQueue[e] \cup {d.offset} |->
                     IF k = d.offset THEN [len |-> d.len, pos |-> d.pos]
                                     ELSE recvQueue[e][k]]
<1>1. /\ d.type = "data" /\ Drain(e, rq, d, {})
      /\ UNCHANGED <<sendOffset, sendQueue, timer, sentBytes, queued>>
  BY DEF FeedData
<1>2. Inv /\ TypeOK /\ Provenance /\ IsABag(net)
  BY DEF PipeInv, Inv, TypeOK
<1>3. /\ DatagramOK(d) /\ e \in Endpoint /\ o \in Endpoint /\ o # e /\ Other(o) = e
      /\ \A x \in Endpoint : x = e \/ x = o
  BY <1>2, OtherEnd DEF Provenance, DatagramOK, Datagram, Endpoint, Other
<1>4. d.offset \in Nat /\ [len |-> d.len, pos |-> d.pos] \in Segment
  BY <1>3 DEF DatagramOK, Datagram, Segment
<1>5. Placed(d.offset, [len |-> d.len, pos |-> d.pos]) \in queued[o]
  BY <1>1, <1>3 DEF DatagramOK, Placed
<1>6. IsQueue(rq)
  BY <1>2, <1>3, <1>4 DEF TypeOK, IsQueue
<1>7. Holds(rq, queued[o])
  BY <1>2, <1>3, <1>5 DEF Provenance, Holds
<1>8. DirectionOK(o) /\ DirectionOK(e)
  BY <1>3 DEF PipeInv
<1>9. d.offset <= sendOffset[o]
  BY <1>1, <1>3, <1>8 DEF DirectionOK, FlightOK, Concerns
<1>10. \A k \in DOMAIN rq : k <= sendOffset[o]
  BY <1>3, <1>8, <1>9 DEF DirectionOK
<1>. HIDE DEF rq
<1>11. DirectionOK(o)'
  <2>1. /\ sendOffset'[o] = sendOffset[o] /\ sendQueue'[o] = sendQueue[o]
        /\ UNCHANGED <<sentBytes, queued>>
        /\ Concerns(d, o) => d.type = "data"
    BY <1>1
  <2>2. \A m \in {} : ~Concerns(m, o)
    OBVIOUS
  <2>. HIDE DEF e, o
  <2>3. o = Other(e)
    BY DEF o
  <2>. QED
    BY <1>1, <1>2, <1>3, <1>6, <1>7, <1>8, <1>10, <2>1, <2>2, <2>3, DrainDirection
<1>12. DirectionOK(e)'
  <2>1. /\ recvOffset'[o] = recvOffset[o] /\ recvQueue'[o] = recvQueue[o]
    BY <1>1, <1>2, <1>3, <1>6, <1>7, DrainStep
  <2>2. PICK S \in {{}, {AckDatagram(e, recvOffset'[e])}} :
           net' = (net (-) SetToBag({d})) (+) SetToBag(S)
    <3>1. CASE net' = (net (-) SetToBag({d})) (+) SetToBag({})
      BY <3>1
    <3>2. ASSUME NEW r, recvOffset' = [recvOffset EXCEPT ![e] = r],
                 net' = (net (-) SetToBag({d})) (+) SetToBag({} \cup {AckDatagram(e, r)})
          PROVE  net' = (net (-) SetToBag({d})) (+) SetToBag({AckDatagram(e, recvOffset'[e])})
      <4>1. recvOffset'[e] = r
        BY <1>2, <1>3, <3>2 DEF TypeOK
      <4>2. {} \cup {AckDatagram(e, r)} = {AckDatagram(e, r)}
        OBVIOUS
      <4>. QED
        BY <3>2, <4>1, <4>2
    <3>. QED
      BY <1>1, <3>1, <3>2 DEF Drain
  <2>3. ASSUME NEW m \in BagToSet(net'), Concerns(m, e)
        PROVE  m \in BagToSet(net) /\ net'[m] = net[m]
    <3>. DEFINE L == net (-) SetToBag({d})
    <3>1. IsABag(L) /\ \A i \in BagToSet(L) : i \in BagToSet(net) /\ (i # d => L[i] = net[i])
      BY <1>2, BagStep, BagTake
    <3>2. m # d
      BY <1>1, <1>3, <2>3 DEF Concerns
    <3>3. m \notin S
      BY <1>3, <2>3 DEF Concerns, AckDatagram
    <3>. HIDE DEF L
    <3>4. net' = L (+) SetToBag(S)
      BY <2>2 DEF L
    <3>. QED
      BY <3>1, <3>2, <3>3, <3>4, BagPut
  <2>. QED
    BY <1>1, <1>3, <1>8, <2>1, <2>3, DirectionKept
<1>. QED
  BY <1>3, <1>11, <1>12

\* A queue that is trimmed to one of its marks begins there.
LEMMA TrimmedAtMark ==
    ASSUME Inv, NEW e \in Endpoint, DirectionOK(e), NEW off \in Marks(e),
           sendOffset[e] <= off
    PROVE  /\ off \in Nat
           /\ off \in DOMAIN Unsent(sendQueue[e], off) \cup {sentBytes[e]}
           /\ off \in DOMAIN Unsent(sendQueue[e], off)
                \/ DOMAIN Unsent(sendQueue[e], off) = {}
           /\ \A k \in DOMAIN Unsent(sendQueue[e], off) :
                /\ off <= k
                /\ k + Unsent(sendQueue[e], off)[k].len \in
                      DOMAIN Unsent(sendQueue[e], off) \cup {sentBytes[e]}
<1>. DEFINE q == sendQueue[e]
            u == Unsent(q, off)
<1>1. IsQueue(q) /\ Holds(q, queued[e]) /\ sentBytes[e] \in Nat
  BY DEF Inv, TypeOK, Provenance
<1>2. \A k \in DOMAIN q : k \in Nat /\ q[k].len \in Nat /\ q[k].len >= 1
                          /\ k + q[k].len <= sentBytes[e]
  BY <1>1 DEF Inv, Provenance, IsQueue, Segment, Holds, Placed
<1>3. off \in Nat /\ off \in DOMAIN q \cup {sentBytes[e]}
  BY <1>1, <1>2 DEF Marks
<1>4. /\ DOMAIN u = {k \in DOMAIN q : k >= off}
      /\ \A k \in DOMAIN u : u[k] = q[k]
  BY DEF Unsent
<1>5. \A k \in DOMAIN q : k + q[k].len \in DOMAIN q \cup {sentBytes[e]}
  BY DEF DirectionOK, Marks
<1>. HIDE DEF q, u
<1>6. off \in DOMAIN u \cup {sentBytes[e]}
  BY <1>3, <1>4
<1>7. off \in DOMAIN u \/ DOMAIN u = {}
  BY <1>1, <1>2, <1>3, <1>4
<1>8. \A k \in DOMAIN u : off <= k /\ k + u[k].len \in DOMAIN u \cup {sentBytes[e]}
  BY <1>2, <1>3, <1>4, <1>5
<1>. QED
  BY <1>3, <1>6, <1>7, <1>8 DEF q, u

\* stream::feed of an acknowledgement keeps both directions in order: it is the
\* one on the way, and moves send_offset_ up to what the other end has.
LEMMA FeedAckDirection ==
    ASSUME NoWrap, PipeInv, NEW d \in BagToSet(net), FeedAck(d)
    PROVE  \A x \in Endpoint : DirectionOK(x)'
<1>. DEFINE e == d.to
            o == Other(e)
            u == Unsent(sendQueue[e], d.offset)
            L == net (-) SetToBag({d})
<1>1. /\ d.type = "data_ack"
      /\ sendOffset' = [sendOffset EXCEPT ![e] = d.offset]
      /\ sendQueue' = [sendQueue EXCEPT ![e] = u]
      /\ Drain(e, recvQueue[e], d, HeadDatagram(e, u))
      /\ UNCHANGED <<sentBytes, queued>>
  BY DEF FeedAck, SendOneDatagram
<1>2. Inv /\ TypeOK /\ Provenance /\ IsABag(net) /\ AckSound
  BY DEF PipeInv, Inv, TypeOK
<1>3. /\ e \in Endpoint /\ o \in Endpoint /\ o # e /\ Other(o) = e
      /\ \A x \in Endpoint : x = e \/ x = o
  BY <1>2, OtherEnd DEF Provenance, DatagramOK, Datagram, Endpoint, Other
<1>4. DirectionOK(o) /\ DirectionOK(e)
  BY <1>3 DEF PipeInv
<1>5. /\ d.offset = recvOffset[o] /\ net[d] = 1
      /\ sendOffset[e] \in Nat /\ recvOffset[o] \in Nat /\ sendOffset[e] < recvOffset[o]
  BY <1>1, <1>2, <1>3, <1>4 DEF DirectionOK, FlightOK, Concerns, AckDatagram, TypeOK
<1>6. /\ d.offset \in Nat
      /\ d.offset \in DOMAIN u \cup {sentBytes[e]}
      /\ d.offset \in DOMAIN u \/ DOMAIN u = {}
      /\ \A k \in DOMAIN u : d.offset <= k /\ k + u[k].len \in DOMAIN u \cup {sentBytes[e]}
  <2>1. d.offset \in Marks(e) /\ sendOffset[e] <= d.offset
    BY <1>4, <1>5 DEF DirectionOK
  <2>. QED
    BY <1>2, <1>3, <1>4, <2>1, TrimmedAtMark
<1>. HIDE DEF u
<1>7. \A h \in HeadDatagram(e, u) : h.type = "data" /\ h.to = o /\ h.offset <= d.offset
  BY <1>3, <1>6, HeadBelow
<1>8. /\ sendOffset'[e] = d.offset /\ sendQueue'[e] = u
      /\ sendOffset'[o] = sendOffset[o] /\ sendQueue'[o] = sendQueue[o]
  BY <1>1, <1>2, <1>3 DEF TypeOK
<1>9. IsQueue(recvQueue[e]) /\ Holds(recvQueue[e], queued[o])
  BY <1>2, <1>3 DEF TypeOK, Provenance
<1>10. DirectionOK(o)'
  <2>1. \A m \in HeadDatagram(e, u) : ~Concerns(m, o)
    BY <1>3, <1>7 DEF Concerns
  <2>2. Concerns(d, o) => d.type = "data"
    BY <1>1, <1>3 DEF Concerns
  <2>3. \A k \in DOMAIN recvQueue[e] : k <= sendOffset[o]
    BY <1>3, <1>4 DEF DirectionOK
  <2>. HIDE DEF e, o
  <2>4. o = Other(e)
    BY DEF o
  <2>. QED
    BY <1>1, <1>2, <1>3, <1>4, <1>8, <1>9, <2>1, <2>2, <2>3, <2>4, DrainDirection
<1>11. DirectionOK(e)'
  <2>1. recvOffset'[o] = recvOffset[o] /\ recvQueue'[o] = recvQueue[o]
    BY <1>1, <1>2, <1>3, <1>9, DrainStep
  <2>2. PICK r : \/ net' = L (+) SetToBag(HeadDatagram(e, u))
                 \/ net' = L (+) SetToBag(HeadDatagram(e, u) \cup {AckDatagram(e, r)})
    BY <1>1 DEF Drain
  <2>3. /\ IsABag(L) /\ d \notin BagToSet(L)
        /\ \A m \in BagToSet(L) : m \in BagToSet(net) /\ L[m] = net[m]
    <3>1. IsABag(L)
      BY <1>2, BagStep
    <3>2. d \notin BagToSet(L)
      BY <1>2, <1>5, BagTake
    <3>3. \A m \in BagToSet(L) : m \in BagToSet(net) /\ (m # d => L[m] = net[m])
      BY <1>2, BagTake
    <3>. HIDE DEF L
    <3>. QED
      BY <3>1, <3>2, <3>3
  <2>. HIDE DEF L
  <2>4. ASSUME NEW m \in BagToSet(net'), Concerns(m, e)
        PROVE  m.type = "data" /\ m.offset <= d.offset
    <3>1. CASE m \in HeadDatagram(e, u)
      BY <1>7, <3>1
    <3>2. CASE m \notin HeadDatagram(e, u)
      <4>1. m # AckDatagram(e, r)
        BY <1>3, <2>4 DEF Concerns, AckDatagram
      <4>2. m \in BagToSet(L)
        BY <2>2, <2>3, <3>2, <4>1, BagPut
      <4>3. m \in BagToSet(net) /\ m # d
        BY <2>3, <4>2
      <4>4. m.type # "data_ack"
        BY <1>1, <1>4, <2>4, <4>3 DEF DirectionOK, FlightOK, Concerns
      <4>5. m.type = "data" /\ m.offset <= sendOffset[e] /\ m \in Datagram
        BY <1>2, <1>4, <2>4, <4>3, <4>4 DEF DirectionOK, FlightOK, Concerns, TypeOK
      <4>. QED
        BY <1>5, <4>5 DEF Datagram
    <3>. QED
      BY <3>1, <3>2
  <2>5. FlightOK(e)'
    <3>1. \A m \in BagToSet(net') : Concerns(m, e) =>
             m.type = "data" /\ m.offset <= sendOffset'[e]
      BY <1>8, <2>4
    <3>. QED
      BY <3>1 DEF FlightOK, Concerns
  <2>6. Marks(e)' = DOMAIN u \cup {sentBytes[e]}
    BY <1>1, <1>8 DEF Marks
  <2>7. \A k \in DOMAIN recvQueue[o] : k <= d.offset
    BY <1>2, <1>3, <1>4, <1>5 DEF DirectionOK, TypeOK, IsQueue
  <2>. QED
    BY <1>1, <1>4, <1>5, <1>6, <1>8, <2>1, <2>5, <2>6, <2>7 DEF DirectionOK
<1>. QED
  BY <1>3, <1>10, <1>11

\* The timer's send_one_datagram keeps both directions in order.
LEMMA RetransmitDirection ==
    ASSUME PipeInv, NEW e \in Endpoint, Retransmit(e)
    PROVE  \A x \in Endpoint : DirectionOK(x)'
<1>. DEFINE u == Unsent(sendQueue[e], sendOffset[e])
<1>1. /\ sendQueue' = [sendQueue EXCEPT ![e] = u]
      /\ net' = net (+) SetToBag(HeadDatagram(e, u))
      /\ UNCHANGED <<sendOffset, recvOffset, recvQueue, sentBytes, queued, delivered>>
  BY DEF Retransmit, SendOneDatagram
<1>2. Inv /\ TypeOK /\ IsABag(net) /\ DirectionOK(e)
  BY DEF PipeInv, Inv, TypeOK
<1>3. u = sendQueue[e]
  BY <1>2 DEF Unsent, DirectionOK, TypeOK, IsQueue
<1>4. sendOffset[e] \in DOMAIN u \/ DOMAIN u = {}
  <2>1. sendOffset[e] \in Marks(e) /\ sendOffset[e] <= sendOffset[e]
    BY <1>2 DEF DirectionOK, TypeOK
  <2>. QED
    BY <1>2, <2>1, TrimmedAtMark
<1>5. \A h \in HeadDatagram(e, u) :
         h.type = "data" /\ h.to = Other(e) /\ h.offset <= sendOffset[e]
  BY <1>4, HeadBelow
<1>. HIDE DEF u
<1>6. \A x \in Endpoint : sendQueue'[x] = sendQueue[x]
  BY <1>1, <1>2, <1>3 DEF TypeOK
<1>. SUFFICES ASSUME NEW x \in Endpoint PROVE DirectionOK(x)'
  OBVIOUS
<1>7. ASSUME NEW m \in BagToSet(net'), Concerns(m, x)
      PROVE  \/ m.type = "data" /\ m.offset <= sendOffset[x]
             \/ m \in BagToSet(net) /\ net'[m] = net[m]
  <2>1. CASE m \in HeadDatagram(e, u)
    BY <1>5, <1>7, <2>1, OtherEnd DEF Concerns
  <2>2. CASE m \notin HeadDatagram(e, u)
    BY <1>1, <1>2, <2>2, BagPut
  <2>. QED
    BY <2>1, <2>2
<1>8. DirectionOK(x)
  BY DEF PipeInv
<1>. QED
  BY <1>1, <1>6, <1>7, <1>8, DirectionKept

\* Losing a datagram keeps both directions in order.
LEMMA LoseDirection ==
    ASSUME PipeInv, NEW d \in BagToSet(net), Lose(d)
    PROVE  \A x \in Endpoint : DirectionOK(x)'
<1>1. /\ net' = net (-) SetToBag({d})
      /\ UNCHANGED <<sendOffset, recvOffset, sendQueue, recvQueue, sentBytes, queued>>
  BY DEF Lose
<1>. SUFFICES ASSUME NEW x \in Endpoint PROVE DirectionOK(x)'
  OBVIOUS
<1>2. DirectionOK(x) /\ IsABag(net)
  BY DEF PipeInv, Inv, TypeOK
<1>3. ASSUME NEW m \in BagToSet(net'), Concerns(m, x)
      PROVE  m \in BagToSet(net) /\ (m.type = "data_ack" => net'[m] = net[m])
  <2>1. m \in BagToSet(net) /\ (m # d => net'[m] = net[m])
    BY <1>1, <1>2, BagTake
  <2>2. m.type = "data_ack" => net[m] = 1
    BY <1>2, <1>3, <2>1 DEF DirectionOK, FlightOK
  <2>3. m.type = "data_ack" => m # d
    BY <1>1, <1>2, <2>2, BagTake
  <2>. QED
    BY <2>1, <2>3
<1>. QED
  BY <1>1, <1>2, <1>3, DirectionKept

\* The invariant of a stream that is sent to one string at a time, over a
\* network that loses and reorders datagrams but duplicates none, with a timer
\* that may fire at any time.
THEOREM StreamPipeInvariant ==
    ASSUME NoWrap, OneByOne
    PROVE  Spec => []PipeInv
<1>1. Init => PipeInv
  <2>. SUFFICES ASSUME Init PROVE PipeInv
    OBVIOUS
  <2>1. Inv
    BY InitInv
  <2>2. BagToSet(net) = {}
    BY DEF Init, EmptyBag, BagToSet, SetToBag
  <2>3. ASSUME NEW e \in Endpoint PROVE DirectionOK(e)
    BY <2>2, OtherEnd DEF Init, DirectionOK, FlightOK, Marks
  <2>. QED
    BY <2>1, <2>3 DEF PipeInv
<1>2. Inv /\ [Next]_vars => Inv'
  BY NextInv
<1>3. PipeInv /\ [Next]_vars => \A x \in Endpoint : DirectionOK(x)'
  <2>. SUFFICES ASSUME PipeInv, [Next]_vars PROVE \A x \in Endpoint : DirectionOK(x)'
    OBVIOUS
  <2>1. ASSUME NEW e \in Endpoint, NEW n \in DataSizes, Send(e, n)
        PROVE  \A x \in Endpoint : DirectionOK(x)'
    BY <2>1, SendDirection
  <2>2. ASSUME NEW d \in BagToSet(net), FeedData(d)
        PROVE  \A x \in Endpoint : DirectionOK(x)'
    BY <2>2, FeedDataDirection
  <2>3. ASSUME NEW d \in BagToSet(net), FeedAck(d)
        PROVE  \A x \in Endpoint : DirectionOK(x)'
    BY <2>3, FeedAckDirection
  <2>4. ASSUME NEW e \in Endpoint, Retransmit(e)
        PROVE  \A x \in Endpoint : DirectionOK(x)'
    BY <2>4, RetransmitDirection
  <2>5. ASSUME NEW d \in BagToSet(net), Lose(d)
        PROVE  \A x \in Endpoint : DirectionOK(x)'
    BY <2>5, LoseDirection
  <2>6. ASSUME NEW d, Duplicate(d) PROVE FALSE
    BY <2>6 DEF Duplicate, OneByOne
  <2>7. CASE UNCHANGED vars
    BY <2>7 DEF vars, PipeInv, DirectionOK, FlightOK, Concerns, Marks
  <2>. QED
    BY <2>1, <2>2, <2>3, <2>4, <2>5, <2>6, <2>7 DEF Next
<1>4. PipeInv /\ [Next]_vars => PipeInv'
  BY <1>2, <1>3 DEF PipeInv
<1>. QED
  BY <1>1, <1>4, PTL DEF Spec

\* In such a stream each application has been given a prefix of what the other
\* one sent.
LEMMA BytesInPlace ==
    ASSUME PipeInv, NEW e \in Endpoint
    PROVE  BytesRead(e) = Pipe!Prefix(recvOffset[e])
<1>1. ASSUME NEW b \in 0 .. recvOffset[e] - 1
      PROVE  LET s == CHOOSE s \in delivered[e] : Covers(s, b)
             IN  s.pos + (b - s.offset) = b
  <2>. DEFINE s == CHOOSE s \in delivered[e] : Covers(s, b)
  <2>1. s \in delivered[e]
    <3>1. \E t \in delivered[e] : Covers(t, b)
      BY DEF PipeInv, Inv, Contiguous
    <3>. QED
      BY <3>1
  <2>2. s \in queued[Other(e)] /\ s \in PlacedSegment
    BY <2>1 DEF PipeInv, Inv, Authentic, TypeOK
  <2>3. s.pos = s.offset /\ s.offset \in Nat
    BY <2>2, OtherEnd DEF PipeInv, DirectionOK, PlacedSegment
  <2>. QED
    BY <2>3
<1>. QED
  BY <1>1 DEF BytesRead, Pipe!Prefix

\* A stream used one send at a time implements BytePipe: whatever is lost or
\* overtaken and whenever the timer fires, each application reads a growing
\* prefix of exactly what the other one wrote.
THEOREM StreamIsBytePipe ==
    ASSUME NoWrap, OneByOne
    PROVE  Spec => IsBytePipe
<1>. DEFINE Given == [e \in Endpoint |-> BytesRead(e)]
            InPlace == Given = [e \in Endpoint |-> Pipe!Prefix(recvOffset[e])]
<1>1. PipeInv => InPlace
  BY BytesInPlace
<1>2. PipeInv' => InPlace'
  <2>. HIDE DEF InPlace
  <2>. QED
    BY <1>1, PTL
<1>3. Init => Pipe!PipeInit
  <2>. SUFFICES ASSUME Init PROVE Pipe!PipeInit
    OBVIOUS
  <2>1. ASSUME NEW e \in Endpoint PROVE BytesRead(e) = Pipe!Prefix(0)
    BY DEF Init, BytesRead, Pipe!Prefix
  <2>. QED
    BY <2>1 DEF Init, Pipe!PipeInit, Pipe!Ends, Endpoint
<1>4. PipeInv /\ PipeInv' /\ [Next]_vars => [Pipe!PipeNext]_(Pipe!pipeVars)
  <2>. SUFFICES ASSUME PipeInv, PipeInv', [Next]_vars
                PROVE  [Pipe!PipeNext]_(Pipe!pipeVars)
    OBVIOUS
  <2>1. Given = [e \in Endpoint |-> Pipe!Prefix(recvOffset[e])]
    BY <1>1
  <2>2. Given' = [e \in Endpoint |-> Pipe!Prefix(recvOffset'[e])]
    BY <1>2
  <2>3. /\ Inv /\ Inv' /\ Provenance' /\ TypeOK
        /\ sentBytes \in [Endpoint -> 0 .. MaxBytes] /\ recvOffset \in [Endpoint -> Nat]
        /\ recvOffset' \in [Endpoint -> Nat] /\ sentBytes' \in [Endpoint -> 0 .. MaxBytes]
    BY DEF PipeInv, Inv, TypeOK
  <2>. HIDE DEF Given
  <2>4. ASSUME recvOffset' = recvOffset, sentBytes' = sentBytes
        PROVE  [Pipe!PipeNext]_(Pipe!pipeVars)
    <3>1. Given' = Given
      BY <2>1, <2>2, <2>4
    <3>. QED
      BY <2>4, <3>1 DEF Pipe!pipeVars, Given
  <2>5. ASSUME NEW e \in Endpoint, NEW n \in DataSizes, Send(e, n)
        PROVE  Pipe!PipeNext
    <3>1. /\ sentBytes[e] + n <= MaxBytes
          /\ sentBytes' = [sentBytes EXCEPT ![e] = @ + n]
          /\ recvOffset' = recvOffset
      BY <2>5 DEF Send
    <3>2. Given' = Given
      BY <2>1, <2>2, <3>1
    <3>3. sentBytes[e] + n \in sentBytes[e] + 1 .. MaxBytes
      BY <2>3, <3>1, SizesAssumption
    <3>4. Pipe!Write(e)
      BY <3>1, <3>2, <3>3 DEF Pipe!Write, Given
    <3>. QED
      BY <3>4 DEF Pipe!PipeNext, Pipe!Ends, Endpoint
  <2>6. ASSUME NEW e \in Endpoint, sentBytes' = sentBytes,
               \A x \in Endpoint : x # e => recvOffset'[x] = recvOffset[x],
               recvOffset[e] <= recvOffset'[e]
        PROVE  [Pipe!PipeNext]_(Pipe!pipeVars)
    <3>1. CASE recvOffset'[e] = recvOffset[e]
      <4>1. recvOffset' = recvOffset
        BY <2>3, <2>6, <3>1
      <4>. QED
        BY <2>4, <2>6, <4>1
    <3>2. CASE recvOffset'[e] # recvOffset[e]
      <4>. DEFINE n == recvOffset'[e]
                  m == recvOffset[e]
      <4>1. n \in Nat /\ m \in 0 .. n - 1
        BY <2>3, <2>6, <3>2
      <4>2. n <= sentBytes[Other(e)]
        BY <2>3, <2>6 DEF Provenance
      <4>3. n \in 1 .. sentBytes[Pipe!Peer(e)]
        BY <2>3, <4>1, <4>2, OtherEnd DEF Pipe!Peer, Other
      <4>4. Given[e] = Pipe!Prefix(m)
        BY <2>1
      <4>5. Given' = [Given EXCEPT ![e] = Pipe!Prefix(n)]
        BY <2>1, <2>2, <2>6
      <4>6. Pipe!Read(e)
        BY <2>6, <4>1, <4>3, <4>4, <4>5 DEF Pipe!Read, Given
      <4>. QED
        BY <4>6 DEF Pipe!PipeNext, Pipe!Ends, Endpoint
    <3>. QED
      BY <3>1, <3>2
  <2>7. ASSUME NEW d \in BagToSet(net), FeedData(d)
        PROVE  [Pipe!PipeNext]_(Pipe!pipeVars)
    BY <2>3, <2>6, <2>7, FeedDataReads
  <2>8. ASSUME NEW d \in BagToSet(net), FeedAck(d)
        PROVE  [Pipe!PipeNext]_(Pipe!pipeVars)
    BY <2>3, <2>6, <2>8, FeedAckReads
  <2>9. CASE \/ \E e \in Endpoint : Retransmit(e)
             \/ \E d \in BagToSet(net) : Lose(d) \/ Duplicate(d)
             \/ UNCHANGED vars
    BY <2>4, <2>9 DEF Retransmit, Lose, Duplicate, vars
  <2>. QED
    BY <2>5, <2>7, <2>8, <2>9 DEF Next
<1>. QED
  BY <1>3, <1>4, StreamPipeInvariant, PTL DEF Spec, IsBytePipe, Pipe!PipeSpec
=============================================================================
