-------------------------- MODULE GrpcClientProofs --------------------------
(***************************************************************************)
(* Proofs about GrpcClient, for any number of messages and every way in    *)
(* which the two threads interleave.                                       *)
(*                                                                         *)
(* Nothing is lost or reordered on the way through the queue (InOrder),    *)
(* whatever the user does.  If the user does not send before the message   *)
(* stream is ready, running_ is a token for the sender: whoever proceeds   *)
(* holds it, and so does a Write that has not completed (Token).  From     *)
(* that follow OneWrite and SenderExists.                                  *)
(***************************************************************************)
EXTENDS GrpcClient, TLAPS, SequenceTheorems

-----------------------------------------------------------------------------
(* Queues: what a push at the end and a pop at the head do to the messages *)

\* Concatenation, of which only that it is associative is needed.
Join(s, t) == s \o t

\* It is associative.
LEMMA JoinAssociative ==
    ASSUME NEW S, NEW s \in Seq(S), NEW t \in Seq(S), NEW u \in Seq(S)
    PROVE  Join(Join(s, t), u) = Join(s, Join(t, u))
BY ConcatAssociative DEF Join

\* What comes first is not affected by what moves behind it.
LEMMA Regrouped ==
    ASSUME NEW S, NEW d \in Seq(S), NEW w \in Seq(S), NEW q \in Seq(S),
           NEW v \in Seq(S), NEW p \in Seq(S), Join(v, p) = Join(w, q)
    PROVE  Join(Join(d, v), p) = Join(Join(d, w), q)
BY JoinAssociative

\* A message moves from the head of a queue to the end of the one before it.
LEMMA MovedOn ==
    ASSUME NEW S, NEW w \in Seq(S), NEW q \in Seq(S), q # <<>>
    PROVE  Append(w, Head(q)) \o Tail(q) = w \o q
<1>. DEFINE h == <<Head(q)>>
            t == Tail(q)
<1>1. Head(q) \in S /\ t \in Seq(S) /\ q = h \o t
  BY HeadTailAppend, HeadTailProperties, AppendIsConcat
<1>2. Append(w, Head(q)) = w \o h /\ h \in Seq(S)
  BY <1>1, AppendIsConcat
<1>. HIDE DEF h, t
<1>3. Join(Join(w, h), t) = Join(w, Join(h, t))
  BY <1>1, <1>2, JoinAssociative
<1>. QED
  BY <1>1, <1>2, <1>3 DEF Join, t

\* A message added to a queue is added to all that leaves through it.
LEMMA AddedLast ==
    ASSUME NEW S, NEW s \in Seq(S), NEW q \in Seq(S), NEW x \in S
    PROVE  s \o Append(q, x) = Append(s \o q, x)
<1>. DEFINE h == <<x>>
<1>1. Append(q, x) = q \o h /\ h \in Seq(S) /\ s \o q \in Seq(S)
  BY AppendIsConcat, ConcatProperties
<1>2. Append(s \o q, x) = (s \o q) \o h
  BY <1>1, AppendIsConcat
<1>. HIDE DEF h
<1>3. Join(Join(s, q), h) = Join(s, Join(q, h))
  BY <1>1, JoinAssociative
<1>. QED
  BY <1>1, <1>2, <1>3 DEF Join

\* The next number is added to a sequence that counts.
LEMMA CountsOn ==
    ASSUME NEW S, NEW t \in Seq(S), NEW n \in Nat, t = [i \in 1 .. n |-> i], n + 1 \in S
    PROVE  Append(t, n + 1) = [i \in 1 .. n + 1 |-> i]
<1>1. DOMAIN t = 1 .. n /\ DOMAIN t = 1 .. Len(t) /\ Len(t) \in Nat
  BY LenProperties
<1>2. Len(t) = n /\ \A i \in 1 .. n : t[i] = i
  BY <1>1
<1>3. /\ Append(t, n + 1) \in Seq(S) /\ Len(Append(t, n + 1)) = n + 1
      /\ \A i \in 1 .. n + 1 : Append(t, n + 1)[i] = i
  BY <1>2, AppendProperties
<1>. QED
  BY <1>3

-----------------------------------------------------------------------------
(* Order *)

\* The initial state is typed, and nothing has been sent.
LEMMA InitOrder == Init => TypeOK /\ InOrder
<1>. SUFFICES ASSUME Init PROVE TypeOK /\ InOrder
  OBVIOUS
<1>1. TypeOK
  <2>1. pc \in [Thread -> {"idle"}] /\ <<>> \in Seq(Messages) /\ 0 \in 0 .. MaxMessages
    BY ConstantsAssumption DEF Init
  <2>. QED
    BY <2>1 DEF Init, TypeOK
<1>2. <<>> \o <<>> = <<>> /\ <<>> = [i \in 1 .. 0 |-> i]
  <2>1. <<>> \in Seq(Messages)
    OBVIOUS
  <2>. QED
    BY <2>1, ConcatEmptySeq
<1>. QED
  BY <1>1, <1>2 DEF Init, InOrder

\* The steps that take place between the queue and the stream.
Moving == Enqueue \/ WriteCompletes \/ WriteFails \/ \E t \in Thread : Dequeue(t)

\* The messages and the link, as a step leaves them that only may break the link.
Untouched == UNCHANGED <<typed, msg_q_, writes, delivered>> /\ (link' => link)

\* The other steps leave the messages where they are, and only break the link.
LEMMA OthersMoveNothing ==
    ASSUME TypeOK, Next, ~Moving
    PROVE  TypeOK' /\ Untouched
<1>. USE DEF TypeOK, Untouched
<1>1. ASSUME NEW ok \in BOOLEAN, LoginCompletes(ok) PROVE TypeOK' /\ Untouched
  BY ONLY TypeOK, <1>1 DEF LoginCompletes, context
<1>2. ASSUME NEW ok \in BOOLEAN, ListPeersCompletes(ok) PROVE TypeOK' /\ Untouched
  BY ONLY TypeOK, <1>2 DEF ListPeersCompletes, context
<1>3. ASSUME NEW ok \in BOOLEAN, StreamReady(ok) PROVE TypeOK' /\ Untouched
  BY ONLY TypeOK, <1>3 DEF StreamReady, Goto, Thread, context
<1>4. ASSUME SenderInstalled PROVE TypeOK' /\ Untouched
  BY ONLY TypeOK, <1>4 DEF SenderInstalled, Goto, Thread
<1>5. ASSUME ReadFails PROVE TypeOK' /\ Untouched
  BY ONLY TypeOK, <1>5 DEF ReadFails, context
<1>6. ASSUME LinkBreaks PROVE TypeOK' /\ Untouched
  BY ONLY TypeOK, <1>6 DEF LinkBreaks, context, setup
<1>7. ASSUME Connect \/ OnLogin \/ SetFin \/ OnListPeers \/ ListPeersTwice
      PROVE  TypeOK' /\ Untouched
  <2>1. CASE Connect
    BY ONLY TypeOK, <2>1 DEF Connect, context
  <2>2. CASE OnLogin
    BY ONLY TypeOK, <2>2 DEF OnLogin, Goto, Thread, context
  <2>3. CASE OnListPeers
    BY ONLY TypeOK, <2>3 DEF OnListPeers, context
  <2>4. CASE SetFin
    BY ONLY TypeOK, <2>4 DEF SetFin, Goto, Thread, context, setup
  <2>5. CASE ListPeersTwice
    BY ONLY TypeOK, <2>5 DEF ListPeersTwice, context, setup
  <2>. QED
    BY <1>7, <2>1, <2>2, <2>3, <2>4, <2>5
<1>8. ASSUME Trigger \/ SetRunning PROVE TypeOK' /\ Untouched
  <2>1. CASE Trigger
    BY ONLY TypeOK, <2>1 DEF Trigger, Goto, Thread, setup, context
  <2>2. CASE SetRunning
    BY ONLY TypeOK, <2>2 DEF SetRunning, Goto, Thread, setup
  <2>. QED
    BY <1>8, <2>1, <2>2
<1>9. ASSUME NEW t \in Thread, FindsEmpty(t) PROVE TypeOK' /\ Untouched
  BY ONLY TypeOK, t \in Thread, <1>9 DEF FindsEmpty, Goto, context, setup
<1>10. ASSUME NEW t \in Thread, StopsRunning(t) PROVE TypeOK' /\ Untouched
  BY ONLY TypeOK, t \in Thread, <1>10 DEF StopsRunning, Returned, Goto, setup
<1>. QED
  BY <1>1, <1>2, <1>3, <1>4, <1>5, <1>6, <1>7, <1>8, <1>9, <1>10
     DEF Next, Worker, Proceed, Moving

\* A message that moves on keeps its place among all that were sent.
LEMMA MovingOrder ==
    ASSUME TypeOK, InOrder, Moving
    PROVE  TypeOK' /\ InOrder'
<1>. USE DEF TypeOK
<1>0. /\ msg_q_ \in Seq(Messages) /\ writes \in Seq(Messages) /\ delivered \in Seq(Messages)
      /\ delivered \o writes \in Seq(Messages)
      /\ delivered \o writes \o msg_q_ \in Seq(Messages)
  BY ConcatProperties
<1>1. ASSUME Enqueue PROVE TypeOK' /\ InOrder'
  <2>1. typed + 1 \in Messages /\ typed \in Nat /\ typed' = typed + 1
    BY <1>1, ConstantsAssumption DEF Enqueue, Messages
  <2>2. TypeOK'
    BY <1>1, <2>1, ConstantsAssumption DEF Enqueue, Goto, setup, Thread
  <2>3. ASSUME link' PROVE delivered' \o writes' \o msg_q_' = [i \in 1 .. typed' |-> i]
    <3>1. delivered \o writes \o msg_q_ = [i \in 1 .. typed |-> i]
      BY <1>1, <2>3 DEF Enqueue, InOrder
    <3>2. (delivered \o writes) \o Append(msg_q_, typed + 1)
            = Append(delivered \o writes \o msg_q_, typed + 1)
      BY <1>0, <2>1, AddedLast
    <3>. DEFINE all == delivered \o writes \o msg_q_
    <3>3. all \in Seq(Messages) /\ all = [i \in 1 .. typed |-> i]
      BY <1>0, <3>1
    <3>. HIDE DEF all
    <3>4. Append(all, typed + 1) = [i \in 1 .. typed + 1 |-> i]
      BY <2>1, <3>3, CountsOn
    <3>. QED
      BY <1>1, <2>1, <3>2, <3>4 DEF all, Enqueue
  <2>. QED
    BY <2>2, <2>3 DEF InOrder
<1>2. ASSUME NEW t \in Thread, Dequeue(t) PROVE TypeOK' /\ InOrder'
  <2>1. /\ Head(msg_q_) \in Messages /\ Tail(msg_q_) \in Seq(Messages)
        /\ Append(writes, Head(msg_q_)) \in Seq(Messages)
    BY <1>0, <1>2, HeadTailProperties, AppendProperties DEF Dequeue
  <2>2. TypeOK'
    BY <1>2, <2>1 DEF Dequeue, Returned, Goto, setup, Thread
  <2>3. Append(writes, Head(msg_q_)) \o Tail(msg_q_) = writes \o msg_q_
    BY <1>0, <1>2, MovedOn DEF Dequeue
  <2>4. delivered \o Append(writes, Head(msg_q_)) \o Tail(msg_q_)
          = delivered \o writes \o msg_q_
    <3>. DEFINE v == Append(writes, Head(msg_q_))
                p == Tail(msg_q_)
    <3>1. v \in Seq(Messages) /\ p \in Seq(Messages) /\ Join(v, p) = Join(writes, msg_q_)
      BY <2>1, <2>3 DEF Join
    <3>. HIDE DEF v, p
    <3>2. Join(Join(delivered, v), p) = Join(Join(delivered, writes), msg_q_)
      BY <1>0, <3>1, Regrouped
    <3>. QED
      BY <3>2 DEF v, p, Join
  <2>. QED
    BY <1>2, <2>2, <2>4 DEF Dequeue, InOrder, setup
<1>3. ASSUME WriteCompletes PROVE TypeOK' /\ InOrder'
  <2>1. /\ Head(writes) \in Messages /\ Tail(writes) \in Seq(Messages)
        /\ Append(delivered, Head(writes)) \in Seq(Messages)
    BY <1>0, <1>3, HeadTailProperties, AppendProperties DEF WriteCompletes
  <2>2. TypeOK'
    BY <1>3, <2>1 DEF WriteCompletes, Goto, setup, context, Thread
  <2>3. Append(delivered, Head(writes)) \o Tail(writes) = delivered \o writes
    BY <1>0, <1>3, MovedOn DEF WriteCompletes
  <2>. QED
    BY <1>3, <2>2, <2>3 DEF WriteCompletes, InOrder, context
<1>4. ASSUME WriteFails PROVE TypeOK' /\ InOrder'
  <2>1. Tail(writes) \in Seq(Messages)
    BY <1>0, <1>4, HeadTailProperties DEF WriteFails
  <2>. QED
    BY <1>4, <2>1 DEF WriteFails, InOrder, setup, context
<1>. QED
  BY <1>1, <1>2, <1>3, <1>4 DEF Moving

\* Types and order are kept by every step.
LEMMA OrderStep ==
    ASSUME TypeOK, InOrder, [Next]_vars
    PROVE  TypeOK' /\ InOrder'
<1>1. ASSUME UNCHANGED vars PROVE TypeOK' /\ InOrder'
  BY <1>1 DEF vars, setup, context, TypeOK, InOrder
<1>2. ASSUME Next, ~Moving PROVE TypeOK' /\ InOrder'
  BY <1>2, OthersMoveNothing DEF InOrder, Untouched
<1>. QED
  BY <1>1, <1>2, MovingOrder

\* What the user sent is, in this order, what was delivered, what is being
\* written and what waits in msg_q_, as long as the stream is up: a trigger that
\* races a completion neither doubles nor drops nor swaps a message.
THEOREM GrpcClientInOrder == Spec => [](TypeOK /\ InOrder)
BY InitOrder, OrderStep, PTL DEF Spec

-----------------------------------------------------------------------------
(* The token *)

\* The thread t is in Proceed of a sender that sender_ points to.
Proceeding(t) == pc[t] \in {"dequeue", "empty"}

\* Where the worker is while it runs the constructor of the sender.
Constructing == pc["worker"] \in {"constructing", "constructing_empty", "constructed"}

\* Until the sender is installed nothing is sent, if the user waits for it.
NothingEarly ==
    /\ ~sender_ => /\ msg_q_ = <<>> /\ writes = <<>> /\ ~running_
                   /\ pc["gui"] \in {"idle", "finishing", "aborted"}
                   /\ pc["worker"] \in {"idle", "aborted"} \/ Constructing
    /\ Constructing => ~sender_ /\ call = "READY" /\ alive
    /\ call \in {"none", "READY"} => ~sender_
    /\ login = "calling" => call = "none"
    /\ pc["gui"] \in {"idle", "finishing", "pushed", "triggering", "dequeue", "empty", "aborted"}
    /\ pc["worker"] \notin {"finishing", "pushed", "triggering"}

\* Only one proceeds or waits for a Write, with running_ set, or is about to do
\* so, while nobody else is: until running_ is set.  A sender that has
\* deleted itself has left running_ set, so that it is never triggered again.
Token ==
    /\ Len(writes) <= 1
    /\ ~(Proceeding("gui") /\ Proceeding("worker"))
    /\ \A t \in Thread : Proceeding(t) => running_ /\ writes = <<>>
    /\ writes # <<>> => running_
    /\ pc["gui"] = "triggering" => ~running_
    /\ sender_ /\ ~alive => running_ /\ writes = <<>> /\ \A t \in Thread : ~Proceeding(t)

\* The inductive invariant, if the user does not send early.
Inv == TypeOK /\ NothingEarly /\ Token

\* The initial state satisfies the invariant.
LEMMA InitInv == Init => Inv
BY InitOrder DEF Init, Inv, NothingEarly, Token, Idle, Constructing, Proceeding, Thread

\* What the steps that set up the stream, and the loss of it, keep.
LEMMA SetupInv ==
    ASSUME Inv, TypeOK',
           \/ \E ok \in BOOLEAN : LoginCompletes(ok)
           \/ \E ok \in BOOLEAN : ListPeersCompletes(ok)
           \/ \E ok \in BOOLEAN : StreamReady(ok)
           \/ SenderInstalled \/ ReadFails
           \/ Connect \/ OnLogin \/ SetFin \/ OnListPeers \/ ListPeersTwice \/ LinkBreaks
    PROVE  Inv'
<1>. USE DEF Inv, TypeOK, NothingEarly, Token, Idle, Constructing, Proceeding, Thread
<1>1. ASSUME NEW ok \in BOOLEAN, LoginCompletes(ok) \/ ListPeersCompletes(ok) PROVE Inv'
  BY <1>1 DEF LoginCompletes, ListPeersCompletes, context
<1>2. ASSUME NEW ok \in BOOLEAN, StreamReady(ok) PROVE Inv'
  BY <1>2 DEF StreamReady, Goto, context
<1>3. ASSUME SenderInstalled PROVE Inv'
  BY <1>3 DEF SenderInstalled, Goto
<1>4. ASSUME ReadFails PROVE Inv'
  BY <1>4 DEF ReadFails, context
<1>5. ASSUME Connect \/ OnListPeers \/ LinkBreaks PROVE Inv'
  BY <1>5 DEF Connect, OnListPeers, LinkBreaks, context, setup
<1>6. ASSUME OnLogin \/ SetFin PROVE Inv'
  BY <1>6 DEF OnLogin, SetFin, Goto, context, setup
<1>7. ASSUME ListPeersTwice PROVE Inv'
  BY <1>7 DEF ListPeersTwice, context, setup
<1>. QED
  BY <1>1, <1>2, <1>3, <1>4, <1>5, <1>6, <1>7

\* The token is passed from Trigger to Proceed, from Proceed to a Write, from its
\* completion to Proceed, and given back when the queue is found empty.
LEMMA SendingInv ==
    ASSUME ~Early, Inv, TypeOK',
           \/ Enqueue \/ Trigger \/ SetRunning \/ WriteCompletes \/ WriteFails
           \/ \E t \in Thread : Proceed(t)
    PROVE  Inv'
<1>. USE DEF Inv, NothingEarly, Token, Idle, Constructing, Proceeding, Thread
<1>1. ASSUME Enqueue PROVE Inv'
  BY <1>1 DEF Enqueue, Goto, setup, TypeOK
<1>2. ASSUME Trigger \/ SetRunning PROVE Inv'
  BY <1>2 DEF Trigger, SetRunning, Goto, setup, context, TypeOK
<1>3. ASSUME WriteCompletes \/ WriteFails PROVE Inv'
  <2>1. writes' = <<>>
    BY <1>3 DEF WriteCompletes, WriteFails, TypeOK
  <2>. QED
    BY <1>3, <2>1 DEF WriteCompletes, WriteFails, Goto, setup, context, TypeOK
<1>4. ASSUME NEW t \in Thread, Dequeue(t) PROVE Inv'
  <2>1. pc[t] = "dequeue" /\ writes = <<>> /\ running_ /\ sender_
    BY <1>4 DEF Dequeue, TypeOK
  <2>2. Len(writes') = 1
    BY <1>4, <2>1 DEF Dequeue, TypeOK
  <2>. QED
    BY <1>4, <2>1, <2>2 DEF Dequeue, Returned, Goto, setup, TypeOK
<1>5. ASSUME NEW t \in Thread, FindsEmpty(t) PROVE Inv'
  BY <1>5 DEF FindsEmpty, Goto, setup, context, TypeOK
<1>6. ASSUME NEW t \in Thread, StopsRunning(t) PROVE Inv'
  BY <1>6 DEF StopsRunning, Returned, Goto, setup, TypeOK
<1>. QED
  BY <1>1, <1>2, <1>3, <1>4, <1>5, <1>6 DEF Proceed

\* The invariant holds if the user sends only once the sender is installed.
THEOREM GrpcClientInvariant == ASSUME ~Early PROVE Spec => []Inv
<1>1. Inv /\ (TypeOK /\ InOrder) /\ [Next]_vars => Inv'
  <2>. SUFFICES ASSUME Inv, InOrder, [Next]_vars PROVE Inv'
    BY DEF Inv
  <2>0. TypeOK'
    BY OrderStep DEF Inv
  <2>1. ASSUME UNCHANGED vars PROVE Inv'
    BY <2>0, <2>1 DEF vars, setup, context, Inv, NothingEarly, Token, Idle, Constructing,
       Proceeding
  <2>2. ASSUME Next PROVE Inv'
    BY <2>0, <2>2, SetupInv, SendingInv DEF Next, Worker
  <2>. QED
    BY <2>1, <2>2
<1>. QED
  BY <1>1, InitInv, GrpcClientInOrder, PTL DEF Spec

\* The message stream has at most one Write outstanding, as gRPC demands,
\* although the user's thread looks at running_ without holding m_.
THEOREM GrpcClientOneWrite == ASSUME ~Early PROVE Spec => []OneWrite
<1>1. Inv => OneWrite
  BY DEF Inv, Token, OneWrite
<1>. QED
  BY <1>1, GrpcClientInvariant, PTL

\* No thread proceeds with a MessageSender that has deleted itself.
THEOREM GrpcClientSenderExists == ASSUME ~Early PROVE Spec => []SenderExists
<1>1. Inv => SenderExists
  BY DEF Inv, Token, NothingEarly, Constructing, Idle, Proceeding, SenderExists, Thread
<1>. QED
  BY <1>1, GrpcClientInvariant, PTL
=============================================================================
