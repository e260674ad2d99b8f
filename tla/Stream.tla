------------------------------- MODULE Stream -------------------------------
(***************************************************************************)
(* The reliable byte stream of client/sml/stream.cpp, seen from both ends  *)
(* of one stream id of an established peer.                                *)
(*                                                                         *)
(* Every end keeps a send side (send_offset_, send_datagram_queue_ and the *)
(* one-second retransmit timer) and a receive side (recv_offset_ and       *)
(* recv_datagram_queue_).  The two ends talk over UDP: a bag of datagrams  *)
(* that may be delivered in any order, lost, or duplicated.                *)
(*                                                                         *)
(* Payloads are abstracted to where they come from: pos is the position of *)
(* a segment's first byte in everything the application has handed to      *)
(* stream::send on that end.  A receiver that delivers a segment with      *)
(* pos # offset has put those bytes in the wrong place.                    *)
(***************************************************************************)
EXTENDS Integers, FiniteSets, Bags

CONSTANTS
    Near, Far,      \* the two ends of the stream
    Senders,        \* the ends whose application calls stream::send
    DataSizes,      \* the sizes of the strings handed to stream::send
    MaxBytes,       \* bound: bytes an application sends in all
    SegmentMax,     \* segment_max_, 1000 in the code
    OffsetSpan,     \* number of values of datagram::offset_type, 2^32
    Pipelined,      \* may send be called while earlier data is unacked?
    Lossy,          \* the types of datagram the network may lose
    Duplicating,    \* may the network duplicate a datagram?
    EarlyTimeout,   \* may the timer fire before an answer has had its time?
    MaxInFlight     \* bound: copies in flight beyond which none is added

Endpoint == {Near, Far}

ASSUME EndpointAssumption == Near # Far
ASSUME SendersAssumption  == Senders \subseteq Endpoint
ASSUME SizesAssumption ==
    /\ MaxBytes \in Nat
    /\ SegmentMax \in Nat \ {0}
    /\ OffsetSpan \in Nat \ {0}
    /\ DataSizes \subseteq 1 .. OffsetSpan
ASSUME FaultsAssumption ==
    /\ Pipelined \in BOOLEAN
    /\ Lossy \subseteq {"data", "data_ack"}
    /\ Duplicating \in BOOLEAN
    /\ EarlyTimeout \in BOOLEAN
    /\ MaxInFlight \in Nat

VARIABLES
    sendOffset,   \* send_offset_ of each end
    recvOffset,   \* recv_offset_ of each end
    sendQueue,    \* send_datagram_queue_: offset |-> segment
    recvQueue,    \* recv_datagram_queue_: offset |-> segment
    timer,        \* is a retransmission armed?
    net,          \* the datagrams in flight
    sentBytes,    \* ghost: bytes handed to stream::send so far
    queued,       \* ghost: every segment ever put in the send queue
    delivered     \* ghost: every segment put in output_ring

vars == <<sendOffset, recvOffset, sendQueue, recvQueue, timer, net,
          sentBytes, queued, delivered>>

-----------------------------------------------------------------------------
Other(e) == IF e = Near THEN Far ELSE Near

\* Value of an integer expression once stored in a datagram::offset_type.
Offset(i) == i % OffsetSpan

\* begin() and rbegin() of a std::map, as the set of its first or last key:
\* empty for an empty map.
First(S) == {k \in S : \A j \in S : k <= j}
Last(S)  == {k \in S : \A j \in S : j <= k}

Segment == [len : Nat, pos : Nat]
Datagram == [to : Endpoint, type : {"data", "data_ack"},
             offset : Nat, len : Nat, pos : Nat]

\* Faulty variant: length_ is always segment_max_.
DataDatagramFullLength(e, k, s) ==
    [to |-> Other(e), type |-> "data", offset |-> k, len |-> SegmentMax, pos |-> s.pos]

DataDatagram(e, k, s) ==
    [to |-> Other(e), type |-> "data", offset |-> k, len |-> s.len, pos |-> s.pos]

\* Faulty variant: the ack names the byte after the next expected one.
AckDatagramBeyond(e, r) ==
    [to |-> Other(e), type |-> "data_ack", offset |-> r + 1, len |-> 0, pos |-> 0]

\* stream::send_ack: a datagram without payload carrying recv_offset_.
AckDatagram(e, r) ==
    [to |-> Other(e), type |-> "data_ack", offset |-> r, len |-> 0, pos |-> 0]

\* A queued or delivered segment together with its place in the stream.
PlacedSegment == [offset : Nat, len : Nat, pos : Nat]
Placed(k, s) == [offset |-> k, len |-> s.len, pos |-> s.pos]

-----------------------------------------------------------------------------
(* Sending *)

\* The offsets, within an n byte string, at which stream::send cuts it.
Cuts(n) == {o \in 0 .. n - 1 : o % SegmentMax = 0}
\* Faulty variant: what is left is measured from the end of a full segment.
CutLengthShort(n, o) ==
    IF n - o > SegmentMax THEN SegmentMax ELSE n - o - SegmentMax

\* seg_length: a full segment or what is left.
CutLength(n, o) == IF n - o > SegmentMax THEN SegmentMax ELSE n - o

\* Faulty variant: the receive offset is taken for the send offset.
BaseRecvOffset(e) == IF sendQueue[e] = << >> THEN {recvOffset[e]}
                                             ELSE Last(DOMAIN sendQueue[e])

\* current_max_offset: the largest KEY of the send queue, not the end of its
\* last segment; send_offset_ when the queue is empty.
Base(e) == IF sendQueue[e] = << >> THEN {sendOffset[e]}
                                   ELSE Last(DOMAIN sendQueue[e])

\* The segments cut from the next n bytes when the first one goes to base.
Fresh(e, n, base) ==
    [k \in {Offset(base + o) : o \in Cuts(n)} |->
        LET o == (k - base) % OffsetSpan
        IN  [len |-> CutLength(n, o), pos |-> sentBytes[e] + o]]

\* std::map::insert leaves an entry that is already there alone.
Insert(q, new) ==
    [k \in DOMAIN q \cup DOMAIN new |-> IF k \in DOMAIN q THEN q[k] ELSE new[k]]

\* Faulty variant: the segment at send_offset_ itself is erased too.
UnsentTooFew(q, off) == [k \in {j \in DOMAIN q : j > off} |-> q[k]]

\* send_one_datagram, first half: segments below send_offset_ leave the queue.
Unsent(q, off) == [k \in {j \in DOMAIN q : j >= off} |-> q[k]]

\* send_one_datagram, second half: a copy of the first segment is sent.
HeadDatagram(e, q) == {DataDatagram(e, k, q[k]) : k \in First(DOMAIN q)}

\* Faulty variant: the cancelled timer is not armed again.
SendOneDatagramNoTimer(e, q, off) ==
    /\ sendQueue' = [sendQueue EXCEPT ![e] = Unsent(q, off)]
    /\ timer' = [timer EXCEPT ![e] = FALSE]

\* The whole of send_one_datagram, for the queue q and offset off: the timer
\* is left armed exactly when something was sent.
SendOneDatagram(e, q, off) ==
    /\ sendQueue' = [sendQueue EXCEPT ![e] = Unsent(q, off)]
    /\ timer' = [timer EXCEPT ![e] = Unsent(q, off) # << >>]

-----------------------------------------------------------------------------
(* Receiving *)

\* j is the key right after i in a map with the keys S.
Adjacent(S, i, j) == i < j /\ \A m \in S : m <= i \/ j <= m

\* Faulty variant: a first key below recv_offset_ is drained as well.
InSequenceStale(rq, r) ==
    {k \in DOMAIN rq :
        /\ \E f \in First(DOMAIN rq) : f <= r
        /\ \A j \in DOMAIN rq : j <= k /\ j \notin First(DOMAIN rq) =>
              \E i \in DOMAIN rq : /\ Adjacent(DOMAIN rq, i, j)
                                   /\ j = Offset(i + rq[i].len)}

\* The keys the drain loop of stream::feed takes out of the queue: the first
\* one, if it is recv_offset_, and the ones after it as long as each starts
\* where the one before it ends.
InSequence(rq, r) ==
    {k \in DOMAIN rq :
        /\ r \in First(DOMAIN rq)
        /\ \A j \in DOMAIN rq : r < j /\ j <= k =>
              \E i \in DOMAIN rq : /\ Adjacent(DOMAIN rq, i, j)
                                   /\ j = Offset(i + rq[i].len)}

\* The tail of stream::feed, for the receive queue rq: drain, then send_ack if
\* anything was drained.  sent is what the handler has already sent, and d
\* the datagram it handles.
Drain(e, rq, d, sent) ==
    LET run == InSequence(rq, recvOffset[e])
    IN  \/ /\ run = {}
           /\ recvQueue' = [recvQueue EXCEPT ![e] = rq]
           /\ net' = (net (-) SetToBag({d})) (+) SetToBag(sent)
           /\ UNCHANGED <<recvOffset, delivered>>
        \/ \E k \in Last(run) :
             LET end == Offset(k + rq[k].len)
             IN  /\ recvOffset' = [recvOffset EXCEPT ![e] = end]
                 /\ recvQueue' = [recvQueue EXCEPT ![e] =
                                    [j \in DOMAIN rq \ run |-> rq[j]]]
                 /\ delivered' = [delivered EXCEPT ![e] =
                                    @ \cup {Placed(j, rq[j]) : j \in run}]
                 /\ net' = (net (-) SetToBag({d}))
                             (+) SetToBag(sent \cup {AckDatagram(e, end)})

-----------------------------------------------------------------------------
(* The handlers *)

\* stream::send with n bytes of data.
Send(e, n) ==
    /\ e \in Senders
    /\ Pipelined \/ sendQueue[e] = << >>
    /\ sentBytes[e] + n <= MaxBytes
    /\ \E base \in Base(e) :
         LET new == Fresh(e, n, base)
             q   == Insert(sendQueue[e], new)
         IN  /\ SendOneDatagram(e, q, sendOffset[e])
             /\ net' = net (+) SetToBag(HeadDatagram(e, Unsent(q, sendOffset[e])))
             /\ queued' = [queued EXCEPT ![e] = @ \cup
                    {Placed(k, new[k]) : k \in DOMAIN new \ DOMAIN sendQueue[e]}]
    /\ sentBytes' = [sentBytes EXCEPT ![e] = @ + n]
    /\ UNCHANGED <<sendOffset, recvOffset, recvQueue, delivered>>

\* stream::feed of a data datagram: operator[] = replaces an entry.
FeedData(d) ==
    LET e  == d.to
        rq == [k \in DOMAIN recvQueue[e] \cup {d.offset} |->
                 IF k = d.offset THEN [len |-> d.len, pos |-> d.pos]
                                 ELSE recvQueue[e][k]]
    IN  /\ d.type = "data"
        /\ Drain(e, rq, d, {})
        /\ UNCHANGED <<sendOffset, sendQueue, timer, sentBytes, queued>>

\* stream::feed of a data_ack datagram.
FeedAck(d) ==
    LET e == d.to
    IN  /\ d.type = "data_ack"
        /\ sendOffset' = [sendOffset EXCEPT ![e] = d.offset]
        /\ SendOneDatagram(e, sendQueue[e], d.offset)
        /\ Drain(e, recvQueue[e], d, HeadDatagram(e, Unsent(sendQueue[e], d.offset)))
        /\ UNCHANGED <<sentBytes, queued>>

\* Is data of e, or an answer to it, still in flight?
Outstanding(e) ==
    \E d \in BagToSet(net) : \/ d.type = "data" /\ d.to = Other(e)
                             \/ d.type = "data_ack" /\ d.to = e

\* stream::retransmit, when the timer has expired.
Retransmit(e) ==
    /\ timer[e]
    /\ EarlyTimeout \/ ~Outstanding(e)
    /\ BagCardinality(net) < MaxInFlight
    /\ SendOneDatagram(e, sendQueue[e], sendOffset[e])
    /\ net' = net (+) SetToBag(HeadDatagram(e, Unsent(sendQueue[e], sendOffset[e])))
    /\ UNCHANGED <<sendOffset, recvOffset, recvQueue, sentBytes, queued, delivered>>

-----------------------------------------------------------------------------
(* The network *)

Lose(d) ==
    /\ d.type \in Lossy
    /\ net' = net (-) SetToBag({d})
    /\ UNCHANGED <<sendOffset, recvOffset, sendQueue, recvQueue, timer,
                   sentBytes, queued, delivered>>

Duplicate(d) ==
    /\ Duplicating
    /\ BagCardinality(net) < MaxInFlight
    /\ net' = net (+) SetToBag({d})
    /\ UNCHANGED <<sendOffset, recvOffset, sendQueue, recvQueue, timer,
                   sentBytes, queued, delivered>>

-----------------------------------------------------------------------------
Init ==
    /\ sendOffset = [e \in Endpoint |-> 0]
    /\ recvOffset = [e \in Endpoint |-> 0]
    /\ sendQueue = [e \in Endpoint |-> << >>]
    /\ recvQueue = [e \in Endpoint |-> << >>]
    /\ timer = [e \in Endpoint |-> FALSE]
    /\ net = EmptyBag
    /\ sentBytes = [e \in Endpoint |-> 0]
    /\ queued = [e \in Endpoint |-> {}]
    /\ delivered = [e \in Endpoint |-> {}]

Next ==
    \/ \E e \in Endpoint : \E n \in DataSizes : Send(e, n)
    \/ \E d \in BagToSet(net) : FeedData(d)
    \/ \E d \in BagToSet(net) : FeedAck(d)
    \/ \E e \in Endpoint : Retransmit(e)
    \/ \E d \in BagToSet(net) : Lose(d)
    \/ \E d \in BagToSet(net) : Duplicate(d)

Spec == Init /\ [][Next]_vars

Delivery(e, t) ==
    \E d \in BagToSet(net) :
        d.to = e /\ d.type = t /\ (FeedData(d) \/ FeedAck(d))

\* The io_context runs every expired timer, and a network that is asked again
\* and again lets either kind of datagram through to either end.  Nothing makes
\* the application send.
Fairness ==
    \A e \in Endpoint :
        /\ SF_vars(Retransmit(e))
        /\ \A t \in {"data", "data_ack"} : SF_vars(Delivery(e, t))

FairSpec == Spec /\ Fairness

-----------------------------------------------------------------------------
(* Properties *)

IsQueue(q) == DOMAIN q \subseteq Nat /\ q \in [DOMAIN q -> Segment]

\* Every variable has its type; what is in flight is a bag of datagrams.
TypeOK ==
    /\ sendOffset \in [Endpoint -> Nat]
    /\ recvOffset \in [Endpoint -> Nat]
    /\ DOMAIN sendQueue = Endpoint /\ DOMAIN recvQueue = Endpoint
    /\ \A e \in Endpoint : IsQueue(sendQueue[e]) /\ IsQueue(recvQueue[e])
    /\ timer \in [Endpoint -> BOOLEAN]
    /\ IsABag(net) /\ BagToSet(net) \subseteq Datagram
    /\ sentBytes \in [Endpoint -> 0 .. MaxBytes]
    /\ queued \in [Endpoint -> SUBSET PlacedSegment]
    /\ delivered \in [Endpoint -> SUBSET PlacedSegment]

\* An end never takes for acknowledged (send_offset_) what the other has not
\* received (recv_offset_), although stream::feed assigns the offset of
\* whatever data_ack arrives, old ones included.
AckSound == \A e \in Endpoint : sendOffset[e] <= recvOffset[Other(e)]

\* A segment that went into the send queue stays there, unchanged, until the
\* receiver has moved past its offset: send_one_datagram erases nothing early.
NothingDropped ==
    \A e \in Endpoint : \A s \in queued[e] :
        \/ s.offset < recvOffset[Other(e)]
        \/ /\ s.offset \in DOMAIN sendQueue[e]
           /\ s = Placed(s.offset, sendQueue[e][s.offset])

Covers(s, b) == s.offset <= b /\ b < s.offset + s.len

\* What the drain loop hands to the application tiles the stream from 0 to
\* recv_offset_: no gap, and no offset twice, whatever the network does.
Contiguous ==
    \A e \in Endpoint : \A b \in 0 .. recvOffset[e] - 1 :
        \E s \in delivered[e] :
            /\ Covers(s, b)
            /\ \A t \in delivered[e] : Covers(t, b) => t = s

\* Only segments the other end queued are handed to the application, at the
\* offset they were queued for.
Authentic == \A e \in Endpoint : delivered[e] \subseteq queued[Other(e)]

(* The inductive invariant behind them, when offsets do not wrap around.   *)

\* What a datagram in flight says is still true when it arrives, however old.
DatagramOK(d) ==
    /\ d \in Datagram
    /\ d.type = "data" => Placed(d.offset, d) \in queued[Other(d.to)]
    /\ d.type = "data_ack" => d.offset <= recvOffset[Other(d.to)]

\* The segments of the queue q are among the set S.
Holds(q, S) == \A k \in DOMAIN q : Placed(k, q[k]) \in S

\* Every segment lies within the bytes sent, every queue and every datagram
\* holds only such segments, and what was delivered ends at recv_offset_.
Provenance ==
    /\ \A d \in BagToSet(net) : DatagramOK(d)
    /\ \A e \in Endpoint :
         /\ \A s \in queued[e] : s.len >= 1 /\ s.offset + s.len <= sentBytes[e]
         /\ Holds(sendQueue[e], queued[e])
         /\ Holds(recvQueue[e], queued[Other(e)])
         /\ \A s \in delivered[e] : s.offset + s.len <= recvOffset[e]
         /\ recvOffset[e] <= sentBytes[Other(e)]

\* The strengthening of the safety properties that every handler preserves.
Inv == TypeOK /\ Provenance /\ AckSound /\ NothingDropped /\ Contiguous /\ Authentic

\* The byte at position p of what e was given to send is out of output_ring.
Arrived(e, p) ==
    \E s \in delivered[Other(e)] : s.pos <= p /\ p < s.pos + s.len

\* A segment below recv_offset_ has come again.  It is the first key of the
\* receive queue from then on, and the drain loop never gets past it.
Wedged(e) == \E k \in DOMAIN recvQueue[e] : k < recvOffset[e]

\* Every byte handed to stream::send reaches the other application, unless that
\* one's receive queue is blocked: losses, late answers and acknowledgements
\* that overtake each other stop a stream in no other way.
ArrivesOrWedged ==
    \A e \in Senders : \A p \in 0 .. MaxBytes - 1 :
        sentBytes[e] > p ~> Arrived(e, p) \/ Wedged(Other(e))

\* The bytes an end has been given, as a function of their place.
BytesRead(e) ==
    [b \in 0 .. recvOffset[e] - 1 |->
        LET s == CHOOSE s \in delivered[e] : Covers(s, b)
        IN  s.pos + (b - s.offset)]

Pipe == INSTANCE BytePipe WITH
            written <- sentBytes, read <- [e \in Endpoint |-> BytesRead(e)]

\* A stream used one send at a time is a byte pipe: each application reads a
\* growing prefix of what the other one wrote.
IsBytePipe == Pipe!PipeSpec
=============================================================================
