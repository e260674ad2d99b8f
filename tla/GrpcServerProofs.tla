-------------------------- MODULE GrpcServerProofs --------------------------
(***************************************************************************)
(* Proofs about GrpcServer, for any number of peers, streams, calls and    *)
(* messages: writer_ points to a living writer of its peer, a writer has a *)
(* Write outstanding exactly when it has something to write, messages are  *)
(* switched in order, and a peer is lost only when a Write to an earlier   *)
(* stream of its own fails.  What a stream carries is kept by StreamOK;    *)
(* the order rests on the numbers of the messages that were read so far.   *)
(***************************************************************************)
EXTENDS GrpcServer, TLAPS, SequenceTheorems

-----------------------------------------------------------------------------
(* Queues: what a push at the end and a pop at the head do to the messages *)

\* Concatenation, of which only that it is associative is needed.
Join(s, t) == s \o t

\* It is associative.
LEMMA JoinAssociative ==
    ASSUME NEW S, NEW s \in Seq(S), NEW t \in Seq(S), NEW u \in Seq(S)
    PROVE  Join(Join(s, t), u) = Join(s, Join(t, u))
BY ConcatAssociative DEF Join

\* A message moves from the head of a queue to the end of the one before it.
LEMMA MovedOn ==
    ASSUME NEW S, NEW w \in Seq(S), NEW q \in Seq(S), q # <<>>
    PROVE  Append(w, Head(q)) \o Tail(q) = w \o q
<1>. DEFINE h == <<Head(q)>>
            t == Tail(q)
<1>1. Head(q) \in S /\ t \in Seq(S) /\ q = h \o t
  BY HeadTailAppend, HeadTailProperties, AppendIsConcat
<1>2. Append(w, Head(q)) = w \o h /\ h \in Seq(S)
  BY <1>1, AppendIsConcat
<1>. HIDE DEF h, t
<1>3. Join(Join(w, h), t) = Join(w, Join(h, t))
  BY <1>1, <1>2, JoinAssociative
<1>. QED
  BY <1>1, <1>2, <1>3 DEF Join, t

\* A message added to a queue is added to all that leaves through it.
LEMMA AddedLast ==
    ASSUME NEW S, NEW s \in Seq(S), NEW q \in Seq(S), NEW x \in S
    PROVE  s \o Append(q, x) = Append(s \o q, x)
<1>. DEFINE h == <<x>>
<1>1. Append(q, x) = q \o h /\ h \in Seq(S) /\ s \o q \in Seq(S)
  BY AppendIsConcat, ConcatProperties
<1>2. Append(s \o q, x) = (s \o q) \o h
  BY <1>1, AppendIsConcat
<1>. HIDE DEF h
<1>3. Join(Join(s, q), h) = Join(s, Join(q, h))
  BY <1>1, JoinAssociative
<1>. QED
  BY <1>1, <1>2, <1>3 DEF Join

\* What was written before is a beginning of what was written and queued.
LEMMA Beginning ==
    ASSUME NEW S, NEW w \in Seq(S), NEW q \in Seq(S)
    PROVE  /\ w \o <<>> = w
           /\ DOMAIN w \subseteq DOMAIN (w \o q)
           /\ \A i \in DOMAIN w : (w \o q)[i] = w[i]
<1>1. w \o <<>> = w
  BY ConcatEmptySeq
<1>2. /\ Len(w) \in Nat /\ Len(q) \in Nat /\ DOMAIN w = 1 .. Len(w)
      /\ w \o q \in Seq(S) /\ Len(w \o q) = Len(w) + Len(q)
  BY LenProperties, ConcatProperties
<1>3. DOMAIN (w \o q) = 1 .. Len(w) + Len(q)
  BY <1>2, LenProperties
<1>4. \A i \in 1 .. Len(w) : (w \o q)[i] = w[i]
  BY <1>2, ConcatProperties
<1>. QED
  BY <1>1, <1>2, <1>3, <1>4

\* What a push adds to a sequence, and what it leaves as it is.
LEMMA Pushed ==
    ASSUME NEW S, NEW s \in Seq(S), NEW x \in S
    PROVE  /\ Append(s, x) \in Seq(S)
           /\ Len(s) \in Nat /\ DOMAIN s = 1 .. Len(s)
           /\ DOMAIN Append(s, x) = 1 .. Len(s) + 1
           /\ DOMAIN Append(s, x) = DOMAIN s \cup {Len(s) + 1}
           /\ \A i \in DOMAIN s : Append(s, x)[i] = s[i]
           /\ Append(s, x)[Len(s) + 1] = x
BY LenProperties, AppendProperties

\* What replacing one element of a sequence changes.
LEMMA Replaced ==
    ASSUME NEW S, NEW s \in Seq(S), NEW i \in DOMAIN s, NEW x \in S
    PROVE  LET t == [s EXCEPT ![i] = x] IN
           /\ t \in Seq(S) /\ Len(t) = Len(s) /\ DOMAIN t = DOMAIN s
           /\ t[i] = x
           /\ \A j \in DOMAIN s : j # i => t[j] = s[j]
<1>1. DOMAIN s = 1 .. Len(s) /\ i \in 1 .. Len(s)
  BY LenProperties
<1>. QED
  BY <1>1, ExceptSeq, LenProperties

-----------------------------------------------------------------------------
(* What is kept *)

\* All that was, or will be, written to a stream.
Sent(s) == s.out \o s.to_write

\* Messages for n only; those of one sender in their order; and none that was
\* not read yet, if rd says how many were.
AllFor(all, n) == \A j \in DOMAIN all : all[j].to = n

Ordered(all) ==
    \A j, k \in DOMAIN all :
        j < k /\ all[j].from = all[k].from => all[j].number < all[k].number

Numbered(all, rd) == \A j \in DOMAIN all : all[j].number <= rd[all[j].from]

\* The state of one stream is sound.
StreamOK(s, rd) ==
    /\ AllFor(Sent(s), s.peer)
    /\ Ordered(Sent(s))
    /\ Numbered(Sent(s), rd)
    /\ s.writer = "RUNNING" <=> s.to_write # <<>>

\* The inductive invariant.
Inv ==
    /\ TypeOK
    /\ \A i \in DOMAIN streams : StreamOK(streams[i], read)
    /\ WriterValid
    /\ Reachable

Counters == [Names -> 0 .. MaxMessages]

-----------------------------------------------------------------------------
(* What the operations do to a stream *)

\* The fields of a stream and what it has sent are typed.
LEMMA StreamIs ==
    ASSUME NEW s \in Stream
    PROVE  /\ s.peer \in Names /\ s.up \in BOOLEAN /\ s.reading \in BOOLEAN
           /\ s.writer \in {"IDLE", "RUNNING", "deleted"}
           /\ s.to_write \in Seq(Message) /\ s.out \in Seq(Message)
           /\ Sent(s) \in Seq(Message)
           /\ \A j \in DOMAIN Sent(s) : Sent(s)[j] \in Message
<1>1. s.to_write \in Seq(Message) /\ s.out \in Seq(Message)
  BY DEF Stream
<1>2. Sent(s) \in Seq(Message)
  BY <1>1, ConcatProperties DEF Sent
<1>3. \A j \in DOMAIN Sent(s) : Sent(s)[j] \in Message
  BY <1>2, LenProperties, ElementOfSeq
<1>. QED
  BY <1>1, <1>2, <1>3 DEF Stream

\* A counter that goes up leaves a stream sound.
LEMMA CountedUp ==
    ASSUME NEW s \in Stream, NEW rd \in Counters, NEW n \in Names, StreamOK(s, rd)
    PROVE  StreamOK(s, [rd EXCEPT ![n] = @ + 1])
<1>. DEFINE all == Sent(s)
<1>1. \A p \in Names : /\ rd[p] \in Nat /\ [rd EXCEPT ![n] = @ + 1][p] \in Nat
                       /\ rd[p] <= [rd EXCEPT ![n] = @ + 1][p]
  BY DEF Counters
<1>2. \A j \in DOMAIN all : all[j].from \in Names /\ all[j].number \in Nat
  BY StreamIs DEF Message
<1>. HIDE DEF all
<1>3. ASSUME Numbered(all, rd) PROVE Numbered(all, [rd EXCEPT ![n] = @ + 1])
  BY <1>1, <1>2, <1>3 DEF Numbered
<1>. QED
  BY <1>3 DEF StreamOK, all

\* PeerMessageWriter::Write, of the message of n that was read just now.
LEMMA WriteOK ==
    ASSUME NEW s \in Stream, NEW rd \in Counters, NEW n \in Names, StreamOK(s, rd),
           NEW m \in Message, m.from = n, m.to = s.peer, m.number = rd[n] + 1
    PROVE  /\ Write(s, m) \in Stream
           /\ Write(s, m).peer = s.peer /\ Write(s, m).up = s.up
           /\ Write(s, m).writer = "RUNNING"
           /\ StreamOK(Write(s, m), [rd EXCEPT ![n] = @ + 1])
<1>. DEFINE t == Write(s, m)
            rd2 == [rd EXCEPT ![n] = @ + 1]
<1>1. /\ rd[n] \in Nat
      /\ rd2[n] = rd[n] + 1 /\ \A p \in Names : rd[p] \in Nat /\ rd[p] <= rd2[p] /\ rd2[p] \in Nat
  BY ConstantsAssumption DEF Counters
<1>3. Append(s.to_write, m) \in Seq(Message) /\ Append(s.to_write, m) # <<>>
  BY StreamIs, AppendProperties
<1>4. /\ t \in Stream /\ t.peer = s.peer /\ t.up = s.up /\ t.writer = "RUNNING"
      /\ t.to_write = Append(s.to_write, m) /\ t.out = s.out
  BY <1>3 DEF Write, Stream
<1>. DEFINE all == Sent(s)
<1>5. Sent(t) = Append(all, m) /\ all \in Seq(Message)
  <2>1. Sent(t) = s.out \o Append(s.to_write, m)
    BY <1>4 DEF Sent
  <2>. DEFINE w == s.out
              q == s.to_write
  <2>2. w \in Seq(Message) /\ q \in Seq(Message) /\ all \in Seq(Message)
    BY StreamIs
  <2>. HIDE DEF w, q
  <2>3. w \o Append(q, m) = Append(w \o q, m)
    BY ONLY m \in Message, <2>2, AddedLast
  <2>. QED
    BY <2>1, <2>2, <2>3 DEF Sent, w, q
<1>. HIDE DEF all, t, rd2
<1>6. /\ DOMAIN all = 1 .. Len(all) /\ Len(all) \in Nat
      /\ DOMAIN Sent(t) = DOMAIN all \cup {Len(all) + 1}
      /\ \A j \in DOMAIN all : Sent(t)[j] = all[j]
      /\ Sent(t)[Len(all) + 1] = m
  BY <1>5, Pushed
<1>7. AllFor(Sent(t), t.peer)
  BY <1>4, <1>6 DEF StreamOK, AllFor, all
<1>8. \A j \in DOMAIN all : /\ all[j].number <= rd[all[j].from] /\ all[j].number \in Nat
                            /\ all[j].from \in Names
  BY StreamIs DEF StreamOK, Numbered, all, Message
<1>9. Numbered(Sent(t), rd2)
  BY <1>1, <1>6, <1>8 DEF Numbered
<1>10. Ordered(Sent(t))
  <2>. SUFFICES ASSUME NEW j \in DOMAIN Sent(t), NEW k \in DOMAIN Sent(t), j < k,
                       Sent(t)[j].from = Sent(t)[k].from
                PROVE  Sent(t)[j].number < Sent(t)[k].number
    BY DEF Ordered
  <2>1. j \in DOMAIN all
    BY <1>6
  <2>2. CASE k \in DOMAIN all
    BY <1>6, <2>1, <2>2 DEF StreamOK, Ordered, all
  <2>3. CASE k = Len(all) + 1
    BY <1>1, <1>6, <1>8, <2>1, <2>3
  <2>. QED
    BY <1>6, <2>2, <2>3
<1>. QED
  BY <1>3, <1>4, <1>7, <1>9, <1>10 DEF StreamOK, t, rd2

\* PeerMessageWriter::Proceed after a Write that went well: nothing is sent
\* twice or left out, and the writer idles only if the queue is empty.
LEMMA WrittenOK ==
    ASSUME NEW s \in Stream, NEW rd \in Counters, StreamOK(s, rd), s.writer = "RUNNING"
    PROVE  /\ Written(s) \in Stream
           /\ Written(s).peer = s.peer /\ Written(s).up = s.up
           /\ Written(s).writer \in {"IDLE", "RUNNING"}
           /\ StreamOK(Written(s), rd)
<1>. DEFINE t == Written(s)
<1>1. s.to_write \in Seq(Message) /\ s.out \in Seq(Message) /\ s.to_write # <<>>
  BY StreamIs DEF StreamOK
<1>2. Tail(s.to_write) \in Seq(Message) /\ Append(s.out, Head(s.to_write)) \in Seq(Message)
  BY <1>1, HeadTailProperties, AppendProperties
<1>3. /\ t \in Stream /\ t.peer = s.peer /\ t.up = s.up
      /\ t.writer = IF Tail(s.to_write) = <<>> THEN "IDLE" ELSE "RUNNING"
      /\ t.to_write = Tail(s.to_write) /\ t.out = Append(s.out, Head(s.to_write))
  BY <1>2 DEF Written, Stream
<1>4. Sent(t) = Sent(s)
  BY <1>1, <1>3, MovedOn DEF Sent
<1>. HIDE DEF t
<1>5. StreamOK(t, rd)
  BY <1>3, <1>4 DEF StreamOK
<1>. QED
  BY <1>3, <1>5 DEF t

\* PeerMessageWriter::Proceed after a Write that failed: the queue is lost.
LEMMA DeletedOK ==
    ASSUME NEW s \in Stream, NEW rd \in Counters, StreamOK(s, rd),
           NEW t, t = [s EXCEPT !.writer = "deleted", !.to_write = <<>>]
    PROVE  /\ t \in Stream /\ t.peer = s.peer /\ t.up = s.up /\ t.writer = "deleted"
           /\ StreamOK(t, rd)
<1>1. /\ t \in Stream /\ t.peer = s.peer /\ t.up = s.up /\ t.writer = "deleted"
      /\ t.to_write = <<>> /\ t.out = s.out
  <2>1. <<>> \in Seq(Message)
    OBVIOUS
  <2>. QED
    BY <2>1 DEF Stream
<1>. DEFINE all == Sent(s)
            some == Sent(t)
<1>2. /\ DOMAIN some \subseteq DOMAIN all
      /\ \A j \in DOMAIN some : some[j] = all[j]
  <2>. DEFINE w == s.out
              q == s.to_write
  <2>1. w \in Seq(Message) /\ q \in Seq(Message)
    BY StreamIs
  <2>2. some = w \o <<>> /\ all = w \o q
    BY <1>1 DEF Sent
  <2>. HIDE DEF w, q, some, all
  <2>3. /\ w \o <<>> = w
        /\ DOMAIN w \subseteq DOMAIN (w \o q)
        /\ \A i \in DOMAIN w : (w \o q)[i] = w[i]
    BY ONLY <2>1, Beginning
  <2>. QED
    BY <2>2, <2>3
<1>3. AllFor(all, s.peer) /\ Ordered(all) /\ Numbered(all, rd)
  BY DEF StreamOK
<1>. HIDE DEF all, some
<1>4. AllFor(some, t.peer) /\ Ordered(some) /\ Numbered(some, rd)
  BY <1>1, <1>2, <1>3 DEF AllFor, Ordered, Numbered
<1>. QED
  BY <1>1, <1>4 DEF StreamOK, some

\* A new stream carries nothing.
LEMMA OpenedOK ==
    ASSUME NEW n \in Names, NEW rd \in Counters,
           NEW t, t = [peer |-> n, up |-> TRUE, reading |-> TRUE,
                       writer |-> "IDLE", to_write |-> <<>>, out |-> <<>>]
    PROVE  t \in Stream /\ StreamOK(t, rd)
<1>1. <<>> \in Seq(Message)
  OBVIOUS
<1>2. t \in Stream
  BY <1>1 DEF Stream
<1>3. <<>> \o <<>> = <<>>
  BY <1>1, ConcatEmptySeq
<1>4. Sent(t) = <<>> /\ DOMAIN Sent(t) = {}
  BY <1>3 DEF Sent
<1>. QED
  BY <1>2, <1>4 DEF StreamOK, AllFor, Ordered, Numbered

\* The connection, or the reader, of a stream has nothing to do with its writer.
LEMMA ReaderOK ==
    ASSUME NEW s \in Stream, NEW rd \in Counters, StreamOK(s, rd),
           NEW t, t = [s EXCEPT !.up = FALSE] \/ t = [s EXCEPT !.reading = FALSE]
    PROVE  /\ t \in Stream /\ t.peer = s.peer /\ t.writer = s.writer
           /\ t.up => s.up
           /\ StreamOK(t, rd)
<1>1. /\ t \in Stream /\ t.peer = s.peer /\ t.writer = s.writer /\ (t.up => s.up)
      /\ t.to_write = s.to_write /\ t.out = s.out
  BY DEF Stream
<1>. QED
  BY <1>1 DEF StreamOK, Sent

-----------------------------------------------------------------------------
(* Steps *)

\* The initial state satisfies the invariant.
LEMMA InitInv == Init => Inv
<1>. SUFFICES ASSUME Init PROVE Inv
  OBVIOUS
<1>1. TypeOK
  BY ConstantsAssumption DEF Init, TypeOK, Calls
<1>. QED
  BY <1>1 DEF Init, Inv, WriterValid, Reachable

\* The streams are typed.
LEMMA StreamsAre ==
    ASSUME TypeOK
    PROVE  /\ DOMAIN streams = 1 .. Len(streams) /\ Len(streams) \in Nat
           /\ \A i \in DOMAIN streams : streams[i] \in Stream
           /\ read \in Counters
BY LenProperties, ElementOfSeq DEF TypeOK, Counters

\* Calls that leave the streams alone, and Login, keep the invariant.
LEMMA CallsInv ==
    ASSUME Inv,
           \/ \E c \in Calls, ok \in BOOLEAN : Finished(c, ok)
           \/ \E n \in Names : Login(n) \/ SwitchMessagesRefused(n)
           \/ ListPeers
    PROVE  Inv'
<1>1. UNCHANGED <<writer_, streams, read>> /\ registered' \subseteq Names
  BY DEF Finished, Login, SwitchMessagesRefused, ListPeers, Inv, TypeOK
<1>2. ASSUME NEW c \in Calls, Finishing(c) PROVE finishing' \in [Calls -> 0 .. MaxCalls]
  <2>1. finishing \in [Calls -> 0 .. MaxCalls]
    BY DEF Inv, TypeOK
  <2>2. \A x \in Calls : finishing[x] \in Nat /\ finishing[x] <= MaxCalls
    BY <2>1, ConstantsAssumption
  <2>3. Total(finishing) < MaxCalls /\ finishing' = [finishing EXCEPT ![c] = finishing[c] + 1]
    BY <1>2 DEF Finishing
  <2>4. finishing[c] < MaxCalls
    <3>. DEFINE l == finishing["Login"]
                p == finishing["ListPeers"]
                w == finishing["SwitchMessages"]
    <3>1. l \in Nat /\ p \in Nat /\ w \in Nat /\ finishing[c] \in {l, p, w}
      BY <2>2 DEF Calls
    <3>2. l + p + w < MaxCalls
      BY <2>3 DEF Total
    <3>. HIDE DEF l, p, w
    <3>. QED
      BY <3>1, <3>2, ConstantsAssumption
  <2>5. finishing[c] + 1 \in 0 .. MaxCalls
    BY <2>2, <2>4, ConstantsAssumption
  <2>. QED
    BY <2>1, <2>3, <2>5
<1>3. ASSUME NEW c \in Calls, NEW ok \in BOOLEAN, Finished(c, ok)
      PROVE  finishing' \in [Calls -> 0 .. MaxCalls] /\ waiting' \in [Calls -> Nat]
  <2>1. finishing[c] \in 0 .. MaxCalls /\ finishing[c] > 0 /\ waiting[c] \in Nat
    BY <1>3 DEF Finished, Inv, TypeOK
  <2>2. finishing[c] - 1 \in 0 .. MaxCalls /\ waiting[c] + 1 \in Nat
    BY <2>1, ConstantsAssumption
  <2>. QED
    BY <1>3, <2>2 DEF Finished, Inv, TypeOK
<1>4. finishing' \in [Calls -> 0 .. MaxCalls] /\ waiting' \in [Calls -> Nat]
  BY <1>2, <1>3
     DEF Login, SwitchMessagesRefused, ListPeers, Accepted, Calls, Inv, TypeOK
<1>5. TypeOK'
  BY <1>1, <1>4 DEF Inv, TypeOK
<1>. QED
  BY <1>1, <1>5 DEF Inv, WriterValid, Reachable

\* One stream changes, and neither loses its peer nor comes up nor is its writer
\* deleted or revived: what the streams say together stays true.
LEMMA OneChanges ==
    ASSUME Inv, NEW i \in DOMAIN streams, NEW t \in Stream,
           streams' = [streams EXCEPT ![i] = t],
           t.peer = streams[i].peer, t.up => streams[i].up,
           t.writer = "deleted" <=> streams[i].writer = "deleted",
           writer_' = writer_, read' \in Counters,
           StreamOK(t, read'),
           \A j \in DOMAIN streams : j # i => StreamOK(streams[j], read')
    PROVE  /\ streams' \in Seq(Stream) /\ Len(streams') = Len(streams)
           /\ \A j \in DOMAIN streams' : StreamOK(streams'[j], read')
           /\ WriterValid' /\ Reachable'
<1>1. /\ streams' \in Seq(Stream) /\ Len(streams') = Len(streams)
      /\ DOMAIN streams' = DOMAIN streams
      /\ streams'[i] = t
      /\ \A j \in DOMAIN streams : j # i => streams'[j] = streams[j]
  BY Replaced DEF Inv, TypeOK
<1>2. \A j \in DOMAIN streams :
        /\ streams'[j].peer = streams[j].peer
        /\ streams'[j].up => streams[j].up
        /\ streams'[j].writer = "deleted" <=> streams[j].writer = "deleted"
  BY <1>1
<1>3. WriterValid'
  BY <1>1, <1>2 DEF Inv, WriterValid
<1>4. DOMAIN streams = 1 .. Len(streams) /\ Len(streams) \in Nat
  BY StreamsAre DEF Inv
<1>5. Reachable'
  BY <1>1, <1>2, <1>4 DEF Inv, Reachable
<1>. QED
  BY <1>1, <1>3, <1>5

\* A message that was read reaches the writer of the peer it names.
LEMMA ReadMessageInv ==
    ASSUME Inv, NEW i \in DOMAIN streams, NEW to \in Names, ReadMessage(i, to)
    PROVE  Inv'
<1>. DEFINE n == streams[i].peer
            m == [from |-> n, to |-> to, number |-> read[n] + 1]
            w == writer_[to]
<1>1. /\ n \in Names /\ read \in Counters /\ read[n] < MaxMessages
      /\ read' = [read EXCEPT ![n] = @ + 1]
      /\ UNCHANGED <<registered, writer_, waiting, finishing>>
  BY StreamsAre, StreamIs DEF Inv, ReadMessage
<1>2. read' \in Counters
  BY <1>1, ConstantsAssumption DEF Counters
<1>3. \A j \in DOMAIN streams : StreamOK(streams[j], read')
  BY <1>1, StreamsAre, CountedUp DEF Inv
<1>4. CASE to \in registered /\ w # 0
  <2>1. /\ w \in DOMAIN streams /\ streams[w].peer = to /\ streams[w] \in Stream
        /\ streams[w].writer # "deleted" /\ StreamOK(streams[w], read)
    BY <1>4, StreamsAre DEF Inv, WriterValid
  <2>. DEFINE t == Write(streams[w], m)
  <2>2. streams' = [streams EXCEPT ![w] = t]
    BY <1>4 DEF ReadMessage
  <2>3. /\ t \in Stream /\ t.peer = streams[w].peer /\ t.up = streams[w].up
        /\ t.writer = "RUNNING"
        /\ StreamOK(t, read')
    <3>. DEFINE s == streams[w]
                msg == m
    <3>1. s \in Stream /\ StreamOK(s, read) /\ s.peer = to
      BY <2>1
    <3>2. msg \in Message /\ msg.from = n /\ msg.to = s.peer /\ msg.number = read[n] + 1
      BY <1>1, <2>1, ConstantsAssumption DEF Message, Counters
    <3>. HIDE DEF s, msg, n, w
    <3>3. /\ Write(s, msg) \in Stream /\ Write(s, msg).peer = s.peer
          /\ Write(s, msg).up = s.up /\ Write(s, msg).writer = "RUNNING"
          /\ StreamOK(Write(s, msg), [read EXCEPT ![n] = @ + 1])
      BY <1>1, <3>1, <3>2, WriteOK
    <3>. QED
      BY <1>1, <3>3 DEF s, msg
  <2>. HIDE DEF t
  <2>4. /\ streams' \in Seq(Stream) /\ Len(streams') = Len(streams)
        /\ \A j \in DOMAIN streams' : StreamOK(streams'[j], read')
        /\ WriterValid' /\ Reachable'
    BY <1>1, <1>2, <1>3, <2>1, <2>2, <2>3, OneChanges
  <2>. QED
    BY <1>1, <1>2, <2>4 DEF Inv, TypeOK, Counters
<1>5. CASE ~(to \in registered /\ w # 0)
  <2>1. streams' = streams
    BY <1>5 DEF ReadMessage
  <2>. QED
    BY <1>1, <1>2, <1>3, <2>1 DEF Inv, TypeOK, Counters, WriterValid, Reachable
<1>. QED
  BY <1>4, <1>5

\* A Write that went well, a reader that ends and a connection that is lost.
LEMMA EventsInv ==
    ASSUME Inv, NEW i \in DOMAIN streams,
           WriteCompletes(i) \/ ReadFails(i) \/ Disconnect(i)
    PROVE  Inv'
<1>. DEFINE s == streams[i]
<1>0. s \in Stream /\ StreamOK(s, read) /\ read \in Counters /\ read' = read
  BY StreamsAre DEF Inv, WriteCompletes, ReadFails, Disconnect
<1>1. PICK t \in Stream : /\ streams' = [streams EXCEPT ![i] = t]
                          /\ t.peer = s.peer /\ (t.up => s.up)
                          /\ t.writer = "deleted" <=> s.writer = "deleted"
                          /\ StreamOK(t, read)
  <2>1. CASE WriteCompletes(i)
    <3>1. streams' = [streams EXCEPT ![i] = Written(s)] /\ s.writer = "RUNNING"
      BY <2>1 DEF WriteCompletes
    <3>. QED
      BY <1>0, <3>1, WrittenOK
  <2>2. CASE ReadFails(i)
    <3>. DEFINE t == [s EXCEPT !.reading = FALSE]
    <3>1. streams' = [streams EXCEPT ![i] = t]
      BY <2>2 DEF ReadFails
    <3>2. /\ t \in Stream /\ t.peer = s.peer /\ t.writer = s.writer /\ (t.up => s.up)
          /\ StreamOK(t, read)
      BY <1>0, ReaderOK
    <3>. HIDE DEF t
    <3>. QED
      BY <3>1, <3>2
  <2>3. CASE Disconnect(i)
    <3>. DEFINE t == [s EXCEPT !.up = FALSE]
    <3>1. streams' = [streams EXCEPT ![i] = t]
      BY <2>3 DEF Disconnect
    <3>2. /\ t \in Stream /\ t.peer = s.peer /\ t.writer = s.writer /\ (t.up => s.up)
          /\ StreamOK(t, read)
      BY <1>0, ReaderOK
    <3>. HIDE DEF t
    <3>. QED
      BY <3>1, <3>2
  <2>. QED
    BY <2>1, <2>2, <2>3
<1>2. /\ UNCHANGED <<registered, writer_, finishing>>
      /\ waiting' \in [Calls -> Nat]
  BY DEF WriteCompletes, ReadFails, Disconnect, Inv, TypeOK, Calls
<1>3. /\ streams' \in Seq(Stream) /\ Len(streams') = Len(streams)
      /\ \A j \in DOMAIN streams' : StreamOK(streams'[j], read')
      /\ WriterValid' /\ Reachable'
  BY <1>0, <1>1, <1>2, OneChanges DEF Inv
<1>. QED
  BY <1>0, <1>2, <1>3 DEF Inv, TypeOK

\* A Write that failed: the peer has no writer any more, and if it has a later
\* stream that is up, this one was earlier.
LEMMA WriteFailsInv ==
    ASSUME Inv, NEW i \in DOMAIN streams, WriteFails(i)
    PROVE  Inv'
<1>. DEFINE s == streams[i]
            t == [s EXCEPT !.writer = "deleted", !.to_write = <<>>]
<1>0. /\ s \in Stream /\ StreamOK(s, read) /\ read \in Counters /\ s.peer \in Names
      /\ DOMAIN streams = 1 .. Len(streams) /\ Len(streams) \in Nat
  BY StreamsAre, StreamIs DEF Inv
<1>1. /\ ~s.up
      /\ streams' = [streams EXCEPT ![i] = t]
      /\ writer_' = [writer_ EXCEPT ![s.peer] = 0]
      /\ UNCHANGED <<registered, waiting, finishing, read>>
  BY <1>0 DEF WriteFails, Stream
<1>2. t \in Stream /\ t.peer = s.peer /\ t.up = s.up /\ t.writer = "deleted" /\ StreamOK(t, read)
  BY <1>0, DeletedOK
<1>. HIDE DEF t
<1>3. /\ streams' \in Seq(Stream) /\ Len(streams') = Len(streams)
      /\ DOMAIN streams' = DOMAIN streams
      /\ streams'[i] = t
      /\ \A j \in DOMAIN streams : j # i => streams'[j] = streams[j]
  BY <1>1, <1>2, Replaced DEF Inv, TypeOK
<1>4. TypeOK'
  BY <1>0, <1>1, <1>3, ConstantsAssumption DEF Inv, TypeOK
<1>5. \A j \in DOMAIN streams' : StreamOK(streams'[j], read')
  BY <1>1, <1>2, <1>3 DEF Inv
<1>6. WriterValid'
  BY <1>0, <1>1, <1>2, <1>3 DEF Inv, WriterValid, TypeOK
<1>7. Reachable'
  <2>. SUFFICES ASSUME NEW k \in DOMAIN streams, streams'[k].up,
                       \A j \in k + 1 .. Len(streams) : streams'[j].peer # streams'[k].peer
                PROVE  \/ writer_'[streams'[k].peer] = k
                       \/ \E j \in 1 .. k - 1 : /\ streams'[j].peer = streams'[k].peer
                                                /\ streams'[j].writer = "deleted"
    BY <1>3 DEF Reachable
  <2>1. k # i /\ streams'[k] = streams[k] /\ streams[k].up /\ streams[k].peer \in Names
    BY <1>1, <1>2, <1>3, StreamsAre, StreamIs DEF Inv
  <2>2. \A j \in DOMAIN streams : streams'[j].peer = streams[j].peer
    BY <1>2, <1>3
  <2>3. CASE streams[k].peer = s.peer
    <3>1. i \in 1 .. k - 1
      BY <1>0, <2>1, <2>2, <2>3
    <3>. QED
      BY <1>2, <1>3, <2>1, <2>3, <3>1
  <2>4. CASE streams[k].peer # s.peer
    <3>1. writer_'[streams[k].peer] = writer_[streams[k].peer]
      BY <1>1, <2>1, <2>4 DEF Inv, TypeOK
    <3>2. \A j \in k + 1 .. Len(streams) : streams[j].peer # streams[k].peer
      BY <1>0, <2>1, <2>2
    <3>3. \/ writer_[streams[k].peer] = k
          \/ \E j \in 1 .. k - 1 : /\ streams[j].peer = streams[k].peer
                                   /\ streams[j].writer = "deleted"
      BY <2>1, <3>2 DEF Inv, Reachable
    <3>. QED
      BY <1>0, <1>2, <1>3, <2>1, <2>2, <3>1, <3>3
  <2>. QED
    BY <2>3, <2>4
<1>. QED
  BY <1>4, <1>5, <1>6, <1>7 DEF Inv

\* A stream that is opened gets the writer of its peer.
LEMMA SwitchMessagesInv ==
    ASSUME Inv, NEW n \in Names, SwitchMessages(n)
    PROVE  Inv'
<1>. DEFINE t == [peer |-> n, up |-> TRUE, reading |-> TRUE,
                  writer |-> "IDLE", to_write |-> <<>>, out |-> <<>>]
            k == Len(streams) + 1
<1>0. /\ \A j \in DOMAIN streams : streams[j] \in Stream /\ StreamOK(streams[j], read)
      /\ read \in Counters
      /\ DOMAIN streams = 1 .. Len(streams) /\ Len(streams) \in Nat
      /\ streams \in Seq(Stream)
  BY StreamsAre DEF Inv, TypeOK
<1>1. /\ Len(streams) < MaxStreams
      /\ streams' = Append(streams, t)
      /\ writer_' = [writer_ EXCEPT ![n] = k]
      /\ UNCHANGED <<registered, waiting, finishing, read>>
  BY DEF SwitchMessages, Accepted
<1>2. t \in Stream /\ StreamOK(t, read) /\ t.peer = n /\ t.writer = "IDLE"
  BY <1>0, OpenedOK
<1>. HIDE DEF t
<1>3. /\ streams' \in Seq(Stream) /\ Len(streams') = k
      /\ DOMAIN streams' = 1 .. k
      /\ DOMAIN streams' = DOMAIN streams \cup {k}
      /\ \A j \in DOMAIN streams : streams'[j] = streams[j]
      /\ streams'[k] = t
  BY <1>0, <1>1, <1>2, Pushed, AppendProperties
<1>4. TypeOK'
  BY <1>0, <1>1, <1>3, ConstantsAssumption DEF Inv, TypeOK
<1>5. \A j \in DOMAIN streams' : StreamOK(streams'[j], read')
  BY <1>0, <1>1, <1>2, <1>3
<1>6. WriterValid'
  BY <1>0, <1>1, <1>2, <1>3 DEF Inv, WriterValid, TypeOK
<1>7. Reachable'
  <2>. SUFFICES ASSUME NEW i \in DOMAIN streams', streams'[i].up,
                       \A j \in i + 1 .. k : streams'[j].peer # streams'[i].peer
                PROVE  \/ writer_'[streams'[i].peer] = i
                       \/ \E j \in 1 .. i - 1 : /\ streams'[j].peer = streams'[i].peer
                                                /\ streams'[j].writer = "deleted"
    BY <1>3 DEF Reachable
  <2>1. CASE i = k
    BY <1>1, <1>2, <1>3, <2>1 DEF Inv, TypeOK
  <2>2. CASE i \in DOMAIN streams
    <3>1. streams'[i] = streams[i] /\ streams[i].peer # n /\ streams[i].peer \in Names
      <4>1. streams'[i] = streams[i] /\ streams[i].peer \in Names
        BY <1>0, <1>3, <2>2, StreamIs
      <4>2. k \in i + 1 .. k
        BY <1>0, <2>2
      <4>. QED
        BY <1>2, <1>3, <4>1, <4>2
    <3>2. \A j \in i + 1 .. Len(streams) : streams[j].peer # streams[i].peer
      BY <1>0, <1>3, <2>2, <3>1
    <3>3. \/ writer_[streams[i].peer] = i
          \/ \E j \in 1 .. i - 1 : /\ streams[j].peer = streams[i].peer
                                   /\ streams[j].writer = "deleted"
      BY <2>2, <3>1, <3>2 DEF Inv, Reachable
    <3>4. writer_'[streams[i].peer] = writer_[streams[i].peer]
      BY <1>1, <3>1 DEF Inv, TypeOK
    <3>5. \A j \in 1 .. i - 1 : streams'[j] = streams[j]
      BY <1>0, <1>3, <2>2
    <3>. QED
      BY <3>1, <3>3, <3>4, <3>5
  <2>. QED
    BY <1>3, <2>1, <2>2
<1>. QED
  BY <1>4, <1>5, <1>6, <1>7 DEF Inv

-----------------------------------------------------------------------------
\* The invariant holds of every behaviour of the switch.
THEOREM GrpcServerInvariant == Spec => []Inv
<1>1. Inv /\ [Next]_vars => Inv'
  <2>. SUFFICES ASSUME Inv, [Next]_vars PROVE Inv'
    OBVIOUS
  <2>1. ASSUME UNCHANGED vars PROVE Inv'
    BY <2>1 DEF vars, Inv, TypeOK, WriterValid, Reachable
  <2>2. ASSUME Next PROVE Inv'
    BY <2>2, CallsInv, ReadMessageInv, EventsInv, WriteFailsInv, SwitchMessagesInv DEF Next
  <2>. QED
    BY <2>1, <2>2
<1>. QED
  BY <1>1, InitInv, PTL DEF Spec

\* Every variable keeps its type.
THEOREM GrpcServerTypeOK == Spec => []TypeOK
<1>1. Inv => TypeOK
  BY DEF Inv
<1>. QED
  BY <1>1, GrpcServerInvariant, PTL

\* PeerInfo::writer_ is null or points to a writer of its peer that exists,
\* although a writer deletes itself and its reader knows nothing of it.
THEOREM GrpcServerWriterValid == Spec => []WriterValid
<1>1. Inv => WriterValid
  BY DEF Inv
<1>. QED
  BY <1>1, GrpcServerInvariant, PTL

\* No message waits for a writer that is idle, and no writer pops an empty queue.
THEOREM GrpcServerBusy == Spec => []Busy
<1>1. Inv => Busy
  BY DEF Inv, StreamOK, Busy
<1>. QED
  BY <1>1, GrpcServerInvariant, PTL

\* A stream carries messages for its peer only, those of one sender in the order
\* in which they were read and none of them twice, through any number of streams
\* and failures.
THEOREM GrpcServerSwitched == Spec => []Switched
<1>1. Inv => Switched
  BY DEF Inv, StreamOK, AllFor, Ordered, Sent, Switched
<1>. QED
  BY <1>1, GrpcServerInvariant, PTL

\* The last stream of a peer, while it is up, is the one that messages to the
\* peer go to, unless a Write to an earlier stream of the peer has failed.
THEOREM GrpcServerReachable == Spec => []Reachable
<1>1. Inv => Reachable
  BY DEF Inv
<1>. QED
  BY <1>1, GrpcServerInvariant, PTL
=============================================================================
