---------------------------- MODULE RelayProofs -----------------------------
(***************************************************************************)
(* Proofs about Relay, for any number of addresses, sessions, requests and *)
(* queued messages, and whatever writing_started_ starts with: at most one *)
(* write is pending, what was begun goes on, messages arrive in order, and *)
(* no entry of sessions_ outlives its session.  If no client comes back    *)
(* from an address whose session is still there, each session that reads   *)
(* is the one found under its address.                                     *)
(***************************************************************************)
EXTENDS Relay, TLAPS, SequenceTheorems

-----------------------------------------------------------------------------
(* Queues: what a push at the end and a pop at the head do to the messages *)

\* Concatenation, of which only that it is associative is needed.
Join(s, t) == s \o t

\* It is associative.
LEMMA JoinAssociative ==
    ASSUME NEW S, NEW s \in Seq(S), NEW t \in Seq(S), NEW u \in Seq(S)
    PROVE  Join(Join(s, t), u) = Join(s, Join(t, u))
BY ConcatAssociative DEF Join

\* A message moves from the head of a queue to the end of the one before it.
LEMMA MovedOn ==
    ASSUME NEW S, NEW w \in Seq(S), NEW q \in Seq(S), q # <<>>
    PROVE  Append(w, Head(q)) \o Tail(q) = w \o q
<1>. DEFINE h == <<Head(q)>>
            t == Tail(q)
<1>1. Head(q) \in S /\ t \in Seq(S) /\ q = h \o t
  BY HeadTailAppend, HeadTailProperties, AppendIsConcat
<1>2. Append(w, Head(q)) = w \o h /\ h \in Seq(S)
  BY <1>1, AppendIsConcat
<1>. HIDE DEF h, t
<1>3. Join(Join(w, h), t) = Join(w, Join(h, t))
  BY <1>1, <1>2, JoinAssociative
<1>. QED
  BY <1>1, <1>2, <1>3 DEF Join, t

\* A message added to a queue is added to all that leaves through it.
LEMMA AddedLast ==
    ASSUME NEW S, NEW s \in Seq(S), NEW q \in Seq(S), NEW x \in S
    PROVE  s \o Append(q, x) = Append(s \o q, x)
<1>. DEFINE h == <<x>>
<1>1. Append(q, x) = q \o h /\ h \in Seq(S) /\ s \o q \in Seq(S)
  BY AppendIsConcat, ConcatProperties
<1>2. Append(s \o q, x) = (s \o q) \o h
  BY <1>1, AppendIsConcat
<1>. HIDE DEF h
<1>3. Join(Join(s, q), h) = Join(s, Join(q, h))
  BY <1>1, JoinAssociative
<1>. QED
  BY <1>1, <1>2, <1>3 DEF Join

\* What a push adds to a sequence, and what it leaves as it is.
LEMMA Pushed ==
    ASSUME NEW S, NEW s \in Seq(S), NEW x \in S
    PROVE  /\ Append(s, x) \in Seq(S)
           /\ Len(s) \in Nat /\ DOMAIN s = 1 .. Len(s)
           /\ DOMAIN Append(s, x) = 1 .. Len(s) + 1
           /\ DOMAIN Append(s, x) = DOMAIN s \cup {Len(s) + 1}
           /\ \A i \in DOMAIN s : Append(s, x)[i] = s[i]
           /\ Append(s, x)[Len(s) + 1] = x
BY LenProperties, AppendProperties

\* What replacing one element of a sequence changes.
LEMMA Replaced ==
    ASSUME NEW S, NEW s \in Seq(S), NEW i \in DOMAIN s, NEW x \in S
    PROVE  LET t == [s EXCEPT ![i] = x] IN
           /\ t \in Seq(S) /\ Len(t) = Len(s) /\ DOMAIN t = DOMAIN s
           /\ t[i] = x
           /\ \A j \in DOMAIN s : j # i => t[j] = s[j]
<1>1. DOMAIN s = 1 .. Len(s) /\ i \in 1 .. Len(s)
  BY LenProperties
<1>. QED
  BY <1>1, ExceptSeq, LenProperties

-----------------------------------------------------------------------------
(* What is kept *)

\* All that a session has written or will write.
Carried(s) == s.written \o s.to_write

\* What one session sent is in order; and it has been read, if rq says how many
\* requests each session has read.
Ordered(all) ==
    \A j, k \in DOMAIN all :
        j < k /\ all[j].from = all[k].from /\ all[j].from # 0
            => all[j].number < all[k].number

Numbered(all, rq) ==
    \A j \in DOMAIN all : all[j].from # 0 => all[j].number <= rq[all[j].from]

\* writing_started_ is set while a write is pending, and whenever there is
\* something to write; it may be set without a write, but only before the first
\* one or after the last one, when the connection is lost.
WriterOK(s) ==
    /\ s.writes <= 1
    /\ s.writes > 0 => s.writing_started_
    /\ ~s.writing_started_ => s.to_write = <<>>
    /\ s.up /\ s.written # <<>> /\ s.writing_started_ => s.writes > 0

\* A session that is open is held by a handler, and no other one is.
Held(s) == s.state = "open" <=> s.reading \/ s.writes > 0

SessionOK(s, rq) ==
    WriterOK(s) /\ Held(s) /\ Ordered(Carried(s)) /\ Numbered(Carried(s), rq)

\* How many requests a session has read, 0 for one that does not exist.
Requested == [k \in Nat |-> IF k \in DOMAIN sessions THEN sessions[k].requests ELSE 0]

\* An entry is that of a session that is open.
EntryOpen ==
    \A a \in Addresses : sessions_[a] # 0 =>
        /\ sessions_[a] \in DOMAIN sessions
        /\ sessions[sessions_[a]].state = "open"
        /\ sessions[sessions_[a]].addr = a

\* The inductive invariant.
Inv ==
    /\ TypeOK /\ Len(sessions) <= MaxSessions
    /\ \A i \in DOMAIN sessions : SessionOK(sessions[i], Requested)
    /\ EntryOpen

-----------------------------------------------------------------------------
(* What the operations do to a session *)

\* The fields of a session and what it carries are typed.
LEMMA SessionIs ==
    ASSUME NEW s \in Session
    PROVE  /\ s.addr \in Addresses /\ s.up \in BOOLEAN /\ s.reading \in BOOLEAN
           /\ s.state \in {"handshake", "open", "destroyed"}
           /\ s.writing_started_ \in BOOLEAN /\ s.writes \in Nat /\ s.requests \in Nat
           /\ s.to_write \in Seq(Reply) /\ s.written \in Seq(Reply)
           /\ Carried(s) \in Seq(Reply)
           /\ \A j \in DOMAIN Carried(s) : Carried(s)[j] \in Reply
<1>1. s.to_write \in Seq(Reply) /\ s.written \in Seq(Reply)
  BY DEF Session
<1>2. Carried(s) \in Seq(Reply)
  BY <1>1, ConcatProperties DEF Carried
<1>3. \A j \in DOMAIN Carried(s) : Carried(s)[j] \in Reply
  BY <1>2, LenProperties, ElementOfSeq
<1>. QED
  BY <1>1, <1>2, <1>3 DEF Session

\* What a handler of a session does not change.
Alike(s, t) ==
    /\ t.addr = s.addr /\ t.up = s.up /\ t.state = s.state
    /\ t.reading = s.reading /\ t.requests = s.requests

\* do_write, when no write is pending: it takes the next message, or none.
LEMMA DoWriteOK ==
    ASSUME NEW s \in Session, s.writes = 0
    PROVE  /\ DoWrite(s) \in Session /\ Alike(s, DoWrite(s))
           /\ Carried(DoWrite(s)) = Carried(s)
           /\ WriterOK(DoWrite(s))
<1>. DEFINE t == DoWrite(s)
<1>1. CASE s.to_write = <<>>
  <2>1. /\ t \in Session /\ Alike(s, t)
        /\ t.written = s.written /\ t.to_write = s.to_write
        /\ t.writes = 0 /\ t.writing_started_ = FALSE
    BY <1>1 DEF DoWrite, Session, Alike
  <2>. HIDE DEF t
  <2>2. Carried(t) = Carried(s) /\ WriterOK(t)
    BY <1>1, <2>1 DEF Carried, WriterOK
  <2>. QED
    BY <2>1, <2>2 DEF t
<1>2. CASE s.to_write # <<>>
  <2>1. s.to_write \in Seq(Reply) /\ s.written \in Seq(Reply)
    BY SessionIs
  <2>2. Tail(s.to_write) \in Seq(Reply) /\ Append(s.written, Head(s.to_write)) \in Seq(Reply)
    BY <1>2, <2>1, HeadTailProperties, AppendProperties
  <2>3. /\ t \in Session /\ Alike(s, t)
        /\ t.written = Append(s.written, Head(s.to_write)) /\ t.to_write = Tail(s.to_write)
        /\ t.writes = 1 /\ t.writing_started_ = TRUE
    <3>1. t = [s EXCEPT !.writing_started_ = TRUE,
                        !.written = Append(s.written, Head(s.to_write)),
                        !.to_write = Tail(s.to_write),
                        !.writes = 1]
      BY <1>2 DEF DoWrite, Session
    <3>. DEFINE w == Append(s.written, Head(s.to_write))
                q == Tail(s.to_write)
    <3>. HIDE DEF t, w, q
    <3>2. t = [s EXCEPT !.writing_started_ = TRUE, !.written = w, !.to_write = q, !.writes = 1]
      BY <3>1 DEF w, q
    <3>3. w \in Seq(Reply) /\ q \in Seq(Reply)
      BY <2>2 DEF w, q
    <3>4. t \in Session /\ Alike(s, t) /\ t.written = w /\ t.to_write = q
          /\ t.writes = 1 /\ t.writing_started_ = TRUE
      BY <3>2, <3>3 DEF Session, Alike
    <3>. QED
      BY <3>4 DEF w, q
  <2>. HIDE DEF t
  <2>4. WriterOK(t)
    BY <2>3 DEF WriterOK
  <2>5. Carried(t) = Carried(s)
    BY <1>2, <2>1, <2>3, MovedOn DEF Carried
  <2>. QED
    BY <2>3, <2>4, <2>5 DEF t
<1>. QED
  BY <1>1, <1>2

\* WriteMessage: the message is the last one the session carries.
LEMMA WriteMessageOK ==
    ASSUME NEW s \in Session, WriterOK(s), NEW r \in Reply
    PROVE  /\ WriteMessage(s, r) \in Session /\ Alike(s, WriteMessage(s, r))
           /\ Carried(WriteMessage(s, r)) = Append(Carried(s), r)
           /\ WriterOK(WriteMessage(s, r))
           /\ s.writes > 0 => WriteMessage(s, r).writes > 0
<1>. DEFINE q == [s EXCEPT !.to_write = Append(@, r)]
            t == WriteMessage(s, r)
<1>1. s.to_write \in Seq(Reply) /\ s.written \in Seq(Reply)
  BY SessionIs
<1>2. Append(s.to_write, r) \in Seq(Reply)
  BY <1>1, AppendProperties
<1>3. /\ q \in Session /\ Alike(s, q)
      /\ q.written = s.written /\ q.to_write = Append(s.to_write, r)
      /\ q.writes = s.writes /\ q.writing_started_ = s.writing_started_
  BY <1>2 DEF Session, Alike
<1>4. Carried(q) = Append(Carried(s), r)
  <2>1. Carried(q) = s.written \o Append(s.to_write, r)
    BY <1>3 DEF Carried
  <2>. DEFINE a == s.written
              b == s.to_write
  <2>2. a \in Seq(Reply) /\ b \in Seq(Reply)
    BY <1>1
  <2>. HIDE DEF a, b
  <2>3. a \o Append(b, r) = Append(a \o b, r)
    BY ONLY <2>2, r \in Reply, AddedLast
  <2>. QED
    BY <2>1, <2>3 DEF a, b, Carried
<1>5. t = IF s.writing_started_ THEN q ELSE DoWrite(q)
  BY DEF WriteMessage
<1>. HIDE DEF q, t
<1>6. CASE s.writing_started_
  <2>1. t = q
    BY <1>5, <1>6
  <2>2. WriterOK(q)
    BY <1>3, <1>6 DEF WriterOK, Alike
  <2>. QED
    BY <1>3, <1>4, <2>1, <2>2 DEF t
<1>7. CASE ~s.writing_started_
  <2>1. t = DoWrite(q)
    BY <1>5, <1>7
  <2>2. s.writes = 0 /\ q.writes = 0
    BY <1>3, <1>7, SessionIs DEF WriterOK
  <2>3. t \in Session /\ Alike(q, t) /\ Carried(t) = Carried(q) /\ WriterOK(t)
    BY <1>3, <2>1, <2>2, DoWriteOK
  <2>. QED
    BY <1>3, <1>4, <2>2, <2>3 DEF t, Alike
<1>. QED
  BY <1>6, <1>7

\* More requests have been read.
Grown(rq, rq2) == \A k \in Nat : rq[k] \in Nat /\ rq2[k] \in Nat /\ rq[k] <= rq2[k]

\* A session stays sound when more requests have been read.
LEMMA GrownOK ==
    ASSUME NEW s \in Session, NEW rq, NEW rq2, Grown(rq, rq2), SessionOK(s, rq)
    PROVE  SessionOK(s, rq2)
<1>. DEFINE all == Carried(s)
<1>1. \A j \in DOMAIN all : all[j].from \in Nat /\ all[j].number \in Nat
  BY SessionIs DEF Reply
<1>2. Numbered(all, rq)
  BY DEF SessionOK
<1>. HIDE DEF all
<1>3. Numbered(all, rq2)
  BY <1>1, <1>2 DEF Numbered, Grown
<1>. QED
  BY <1>3 DEF SessionOK, all

\* A session that is open takes a message: the next one of its sender.
LEMMA DeliveredOK ==
    ASSUME NEW s \in Session, NEW rq, NEW rq2, Grown(rq, rq2), SessionOK(s, rq),
           NEW m \in Reply,
           m.from # 0 => m.number = rq[m.from] + 1 /\ m.number <= rq2[m.from]
    PROVE  s.state = "open" => SessionOK(WriteMessage(s, m), rq2)
<1>. SUFFICES ASSUME s.state = "open" PROVE SessionOK(WriteMessage(s, m), rq2)
  OBVIOUS
<1>. DEFINE t == WriteMessage(s, m)
            all == Carried(s)
            now == Carried(t)
<1>1. /\ t \in Session /\ Alike(s, t) /\ now = Append(all, m) /\ WriterOK(t)
      /\ s.writes > 0 => t.writes > 0
  BY WriteMessageOK DEF SessionOK
<1>2. Held(t)
  BY <1>1 DEF SessionOK, Held, Alike
<1>3. /\ all \in Seq(Reply) /\ m.from \in Nat /\ m.number \in Nat
      /\ \A j \in DOMAIN all : all[j].from \in Nat /\ all[j].number \in Nat
  BY SessionIs DEF Reply
<1>4. Ordered(all) /\ Numbered(all, rq)
  BY DEF SessionOK
<1>. HIDE DEF t, all, now
<1>5. /\ DOMAIN all = 1 .. Len(all) /\ Len(all) \in Nat
      /\ DOMAIN now = DOMAIN all \cup {Len(all) + 1}
      /\ \A j \in DOMAIN all : now[j] = all[j]
      /\ now[Len(all) + 1] = m
  BY <1>1, <1>3, Pushed
<1>6. Numbered(now, rq2)
  BY <1>3, <1>4, <1>5 DEF Numbered, Grown
<1>7. Ordered(now)
  <2>. SUFFICES ASSUME NEW j \in DOMAIN now, NEW k \in DOMAIN now, j < k,
                       now[j].from = now[k].from, now[j].from # 0
                PROVE  now[j].number < now[k].number
    BY DEF Ordered
  <2>1. j \in DOMAIN all
    BY <1>5
  <2>2. CASE k \in DOMAIN all
    BY <1>4, <1>5, <2>1, <2>2 DEF Ordered
  <2>3. CASE k = Len(all) + 1
    <3>1. all[j].number <= rq[m.from] /\ m.number = rq[m.from] + 1 /\ rq[m.from] \in Nat
      BY <1>3, <1>4, <1>5, <2>1, <2>3 DEF Numbered, Grown
    <3>. QED
      BY <1>3, <1>5, <2>1, <2>3, <3>1
  <2>. QED
    BY <1>5, <2>2, <2>3
<1>. QED
  BY <1>1, <1>2, <1>6, <1>7 DEF SessionOK, t, now

\* The writer, the queue and the order of a session do not depend on the rest.
LEMMA SameQueue ==
    ASSUME NEW s \in Session, NEW t \in Session, NEW rq, SessionOK(s, rq),
           t.written = s.written, t.to_write = s.to_write, t.writes = s.writes,
           t.writing_started_ = s.writing_started_, t.up => s.up, Held(t)
    PROVE  SessionOK(t, rq)
BY DEF SessionOK, WriterOK, Carried

-----------------------------------------------------------------------------
(* Steps *)

\* The sessions are typed.
LEMMA SessionsAre ==
    ASSUME TypeOK
    PROVE  /\ DOMAIN sessions = 1 .. Len(sessions) /\ Len(sessions) \in Nat
           /\ \A i \in DOMAIN sessions : sessions[i] \in Session
           /\ \A k \in Nat : Requested[k] \in Nat
           /\ \A k \in DOMAIN sessions : k \in Nat /\ Requested[k] = sessions[k].requests
<1>1. DOMAIN sessions = 1 .. Len(sessions) /\ Len(sessions) \in Nat
  BY LenProperties DEF TypeOK
<1>2. \A i \in DOMAIN sessions : sessions[i] \in Session
  BY <1>1, ElementOfSeq DEF TypeOK
<1>3. \A i \in DOMAIN sessions : sessions[i].requests \in Nat
  BY <1>2, SessionIs
<1>. QED
  BY <1>1, <1>2, <1>3 DEF Requested

\* The initial state satisfies the invariant.
LEMMA InitInv == Init => Inv
<1>. SUFFICES ASSUME Init PROVE Inv
  OBVIOUS
<1>0. /\ sessions_ \in [Addresses -> 0 .. MaxSessions] /\ sessions \in Seq(Session)
      /\ Len(sessions) <= MaxSessions /\ DOMAIN sessions = {}
  BY ConstantsAssumption DEF Init
<1>1. TypeOK /\ Len(sessions) <= MaxSessions /\ DOMAIN sessions = {}
  BY <1>0 DEF Init, TypeOK
<1>. QED
  BY <1>1 DEF Init, Inv, EntryOpen

\* What a step does to the table and to the states of the sessions: nothing, or
\* it destroys one, whose address is erased if the session was open.
KeepsLives ==
    /\ DOMAIN sessions' = DOMAIN sessions
    /\ \A j \in DOMAIN sessions : /\ sessions'[j].addr = sessions[j].addr
                                  /\ sessions'[j].state = sessions[j].state
    /\ sessions_' = sessions_

Ends(i) ==
    /\ DOMAIN sessions' = DOMAIN sessions
    /\ \A j \in DOMAIN sessions : /\ sessions'[j].addr = sessions[j].addr
                                  /\ j # i => sessions'[j].state = sessions[j].state
    /\ sessions'[i].state = "destroyed"
    /\ \/ sessions[i].state = "handshake" /\ sessions_' = sessions_
       \/ /\ sessions[i].state = "open"
          /\ sessions_' = [sessions_ EXCEPT ![sessions[i].addr] = 0]

\* Either way the entries are those of open sessions.
LEMMA EntriesKept ==
    ASSUME Inv, KeepsLives \/ \E i \in DOMAIN sessions : Ends(i)
    PROVE  EntryOpen' /\ sessions_' \in [Addresses -> 0 .. MaxSessions]
<1>1. ASSUME KeepsLives PROVE EntryOpen' /\ sessions_' \in [Addresses -> 0 .. MaxSessions]
  BY <1>1 DEF KeepsLives, Inv, TypeOK, EntryOpen
<1>2. ASSUME NEW i \in DOMAIN sessions, Ends(i)
      PROVE  EntryOpen' /\ sessions_' \in [Addresses -> 0 .. MaxSessions]
  <2>1. sessions[i].addr \in Addresses
    BY SessionsAre, SessionIs DEF Inv
  <2>2. sessions_' \in [Addresses -> 0 .. MaxSessions]
    BY <1>2, <2>1, ConstantsAssumption DEF Ends, Inv, TypeOK
  <2>3. EntryOpen'
    BY <1>2, <2>1 DEF Ends, Inv, TypeOK, EntryOpen
  <2>. QED
    BY <2>2, <2>3
<1>. QED
  BY <1>1, <1>2

\* A step that changes one session, as far as requests are concerned.
LEMMA OneChanges ==
    ASSUME Inv, NEW i \in DOMAIN sessions, NEW t \in Session,
           sessions' = [sessions EXCEPT ![i] = t],
           t.requests = sessions[i].requests, SessionOK(t, Requested)
    PROVE  /\ sessions' \in Seq(Session) /\ Len(sessions') <= MaxSessions
           /\ DOMAIN sessions' = DOMAIN sessions
           /\ sessions'[i] = t
           /\ \A j \in DOMAIN sessions : j # i => sessions'[j] = sessions[j]
           /\ \A j \in DOMAIN sessions' : SessionOK(sessions'[j], Requested')
<1>1. /\ sessions' \in Seq(Session) /\ Len(sessions') = Len(sessions)
      /\ DOMAIN sessions' = DOMAIN sessions
      /\ sessions'[i] = t
      /\ \A j \in DOMAIN sessions : j # i => sessions'[j] = sessions[j]
  BY Replaced DEF Inv, TypeOK
<1>2. Requested' = Requested
  BY <1>1 DEF Requested
<1>. QED
  BY <1>1, <1>2 DEF Inv

\* server::do_accept keeps the invariant, and adds a session at the end.
LEMMA AcceptInv ==
    ASSUME Inv, NEW a \in Addresses, Accept(a)
    PROVE  /\ Inv' /\ sessions_' = sessions_
           /\ DOMAIN sessions' = DOMAIN sessions \cup {Len(sessions) + 1}
           /\ \A j \in DOMAIN sessions : sessions'[j] = sessions[j]
           /\ sessions'[Len(sessions) + 1].addr = a
           /\ sessions'[Len(sessions) + 1].state = "handshake"
<1>1. PICK started \in Garbage : sessions' = Append(sessions,
             [addr |-> a, up |-> TRUE, state |-> "handshake", reading |-> FALSE,
              writing_started_ |-> started, writes |-> 0,
              to_write |-> <<>>, written |-> <<>>, requests |-> 0])
  BY DEF Accept
<1>. DEFINE t == [addr |-> a, up |-> TRUE, state |-> "handshake", reading |-> FALSE,
                  writing_started_ |-> started, writes |-> 0,
                  to_write |-> <<>>, written |-> <<>>, requests |-> 0]
            n == Len(sessions) + 1
<1>2. <<>> \in Seq(Reply) /\ <<>> \o <<>> = <<>>
  <2>1. <<>> \in Seq(Reply)
    OBVIOUS
  <2>. QED
    BY <2>1, ConcatEmptySeq
<1>3. started \in BOOLEAN
  BY ConstantsAssumption
<1>4. t \in Session
  BY <1>2, <1>3 DEF Session
<1>5. Carried(t) = <<>> /\ DOMAIN Carried(t) = {}
  BY <1>2 DEF Carried
<1>6. /\ t.requests = 0 /\ t.addr = a /\ t.state = "handshake" /\ ~t.reading /\ t.writes = 0
      /\ t.written = <<>> /\ t.to_write = <<>>
      /\ sessions' = Append(sessions, t)
  BY <1>1
<1>. HIDE DEF t
<1>7. SessionOK(t, Requested)
  <2>1. WriterOK(t) /\ Held(t)
    BY <1>6 DEF WriterOK, Held
  <2>2. Ordered(Carried(t)) /\ Numbered(Carried(t), Requested)
    BY <1>5 DEF Ordered, Numbered
  <2>. QED
    BY <2>1, <2>2 DEF SessionOK
<1>8. /\ sessions' \in Seq(Session) /\ Len(sessions') = n
      /\ DOMAIN sessions' = DOMAIN sessions \cup {n}
      /\ \A j \in DOMAIN sessions : sessions'[j] = sessions[j]
      /\ sessions'[n] = t
      /\ DOMAIN sessions = 1 .. Len(sessions) /\ Len(sessions) \in Nat
  BY <1>4, <1>6, Pushed, AppendProperties DEF Inv, TypeOK
<1>9. Requested' = Requested
  BY <1>6, <1>8 DEF Requested
<1>10. \A j \in DOMAIN sessions' : SessionOK(sessions'[j], Requested')
  BY <1>7, <1>8, <1>9 DEF Inv
<1>11. TypeOK' /\ Len(sessions') <= MaxSessions /\ sessions_' = sessions_
  BY <1>8, ConstantsAssumption DEF Accept, Inv, TypeOK
<1>12. EntryOpen'
  BY <1>8, <1>11 DEF Inv, EntryOpen
<1>. QED
  BY <1>6, <1>8, <1>10, <1>11, <1>12 DEF Inv

\* The handler of the handshake enters the session and makes it read.
LEMMA HandshakeInv ==
    ASSUME Inv, NEW i \in DOMAIN sessions, Handshake(i)
    PROVE  /\ Inv' /\ sessions[i].state = "handshake"
           /\ DOMAIN sessions' = DOMAIN sessions
           /\ \A j \in DOMAIN sessions : /\ sessions'[j].addr = sessions[j].addr
                                         /\ j # i => sessions'[j].state = sessions[j].state
           /\ sessions_' = [sessions_ EXCEPT ![sessions[i].addr] = IF @ = 0 THEN i ELSE @]
<1>. DEFINE s == sessions[i]
            t == [s EXCEPT !.state = "open", !.reading = TRUE]
<1>1. s \in Session /\ SessionOK(s, Requested) /\ s.addr \in Addresses
  BY SessionsAre, SessionIs DEF Inv
<1>2. /\ s.state = "handshake" /\ sessions' = [sessions EXCEPT ![i] = t]
      /\ sessions_' = [sessions_ EXCEPT ![s.addr] = IF @ = 0 THEN i ELSE @]
  BY <1>1 DEF Handshake, Session
<1>3. /\ t \in Session /\ t.addr = s.addr /\ t.state = "open" /\ t.reading = TRUE
      /\ t.requests = s.requests /\ t.up = s.up
      /\ t.written = s.written /\ t.to_write = s.to_write /\ t.writes = s.writes
      /\ t.writing_started_ = s.writing_started_
  BY <1>1 DEF Session
<1>. HIDE DEF t
<1>4. SessionOK(t, Requested)
  BY <1>1, <1>3, SameQueue DEF Held
<1>5. /\ sessions' \in Seq(Session) /\ Len(sessions') <= MaxSessions
      /\ DOMAIN sessions' = DOMAIN sessions
      /\ sessions'[i] = t
      /\ \A j \in DOMAIN sessions : j # i => sessions'[j] = sessions[j]
      /\ \A j \in DOMAIN sessions' : SessionOK(sessions'[j], Requested')
  BY <1>2, <1>3, <1>4, OneChanges
<1>6. i \in 0 .. MaxSessions
  BY SessionsAre, ConstantsAssumption DEF Inv
<1>7. TypeOK'
  <2>1. terminated' \in BOOLEAN
    BY DEF Handshake, Inv, TypeOK
  <2>. QED
    BY <1>1, <1>2, <1>5, <1>6, <2>1 DEF Inv, TypeOK
<1>8. EntryOpen'
  BY <1>1, <1>2, <1>3, <1>5 DEF Inv, TypeOK, EntryOpen
<1>. QED
  BY <1>2, <1>3, <1>5, <1>7, <1>8 DEF Inv

\* A handshake that failed, and a connection that is lost.
LEMMA LossInv ==
    ASSUME Inv, NEW i \in DOMAIN sessions, HandshakeFails(i) \/ Disconnect(i)
    PROVE  Inv' /\ (KeepsLives \/ Ends(i))
<1>. DEFINE s == sessions[i]
<1>1. s \in Session /\ SessionOK(s, Requested) /\ s.addr \in Addresses
  BY SessionsAre, SessionIs DEF Inv
<1>2. PICK t \in Session :
             /\ sessions' = [sessions EXCEPT ![i] = t] /\ sessions_' = sessions_
             /\ t.addr = s.addr /\ t.requests = s.requests
             /\ t.state = s.state \/ (s.state = "handshake" /\ t.state = "destroyed")
             /\ SessionOK(t, Requested)
  <2>1. CASE HandshakeFails(i)
    <3>. DEFINE t == [s EXCEPT !.state = "destroyed"]
    <3>1. /\ t \in Session /\ t.addr = s.addr /\ t.state = "destroyed" /\ t.reading = s.reading
          /\ t.requests = s.requests /\ t.up = s.up
          /\ t.written = s.written /\ t.to_write = s.to_write /\ t.writes = s.writes
          /\ t.writing_started_ = s.writing_started_
      BY <1>1 DEF Session
    <3>2. sessions' = [sessions EXCEPT ![i] = t] /\ s.state = "handshake" /\ sessions_' = sessions_
      BY <2>1 DEF HandshakeFails
    <3>. HIDE DEF t
    <3>3. SessionOK(t, Requested)
      BY <1>1, <3>1, <3>2, SameQueue DEF SessionOK, Held
    <3>. QED
      BY <3>1, <3>2, <3>3
  <2>2. CASE Disconnect(i)
    <3>. DEFINE t == [s EXCEPT !.up = FALSE]
    <3>1. /\ t \in Session /\ t.addr = s.addr /\ t.state = s.state /\ t.reading = s.reading
          /\ t.requests = s.requests /\ (t.up => s.up)
          /\ t.written = s.written /\ t.to_write = s.to_write /\ t.writes = s.writes
          /\ t.writing_started_ = s.writing_started_
      BY <1>1 DEF Session
    <3>2. sessions' = [sessions EXCEPT ![i] = t] /\ sessions_' = sessions_
      BY <2>2 DEF Disconnect
    <3>. HIDE DEF t
    <3>3. SessionOK(t, Requested)
      BY <1>1, <3>1, SameQueue DEF SessionOK, Held
    <3>. QED
      BY <3>1, <3>2, <3>3
  <2>. QED
    BY <2>1, <2>2
<1>3. /\ sessions' \in Seq(Session) /\ Len(sessions') <= MaxSessions
      /\ DOMAIN sessions' = DOMAIN sessions
      /\ sessions'[i] = t
      /\ \A j \in DOMAIN sessions : j # i => sessions'[j] = sessions[j]
      /\ \A j \in DOMAIN sessions' : SessionOK(sessions'[j], Requested')
  BY <1>2, OneChanges
<1>4. KeepsLives \/ Ends(i)
  BY <1>2, <1>3 DEF KeepsLives, Ends
<1>5. terminated' \in BOOLEAN
  BY DEF HandshakeFails, Disconnect, Inv, TypeOK
<1>. QED
  BY <1>3, <1>4, <1>5, EntriesKept DEF Inv, TypeOK

\* A handler of an open session lets go of it: it is destroyed with the last one.
LEMMA ReleasedInv ==
    ASSUME Inv, NEW i \in DOMAIN sessions, NEW s \in Session, Released(i, s),
           sessions[i].state = "open",
           s.state = "open", s.addr = sessions[i].addr, s.requests = sessions[i].requests,
           WriterOK(s), Ordered(Carried(s)), Numbered(Carried(s), Requested)
    PROVE  Inv' /\ (KeepsLives \/ Ends(i))
<1>. DEFINE last == ~s.reading /\ s.writes = 0
            d == [s EXCEPT !.state = "destroyed"]
            t == IF last THEN d ELSE s
<1>1. sessions' = [sessions EXCEPT ![i] = t]
  BY DEF Released
<1>2. sessions_' = IF last THEN [sessions_ EXCEPT ![s.addr] = 0] ELSE sessions_
  BY DEF Released
<1>3. /\ d \in Session /\ d.addr = s.addr /\ d.requests = s.requests /\ d.state = "destroyed"
      /\ d.written = s.written /\ d.to_write = s.to_write /\ d.writes = s.writes
      /\ d.writing_started_ = s.writing_started_ /\ d.up = s.up /\ d.reading = s.reading
  BY DEF Session
<1>. HIDE DEF d
<1>4. /\ t \in Session /\ t.addr = s.addr /\ t.requests = s.requests
      /\ t.state = IF last THEN "destroyed" ELSE "open"
      /\ t.written = s.written /\ t.to_write = s.to_write /\ t.writes = s.writes
      /\ t.writing_started_ = s.writing_started_ /\ t.up = s.up /\ t.reading = s.reading
  BY <1>3
<1>. HIDE DEF t
<1>5. Held(t)
  BY <1>4, SessionIs DEF Held
<1>6. SessionOK(t, Requested)
  BY <1>4, <1>5 DEF SessionOK, WriterOK, Carried
<1>7. /\ sessions' \in Seq(Session) /\ Len(sessions') <= MaxSessions
      /\ DOMAIN sessions' = DOMAIN sessions
      /\ sessions'[i] = t
      /\ \A j \in DOMAIN sessions : j # i => sessions'[j] = sessions[j]
      /\ \A j \in DOMAIN sessions' : SessionOK(sessions'[j], Requested')
  BY <1>1, <1>4, <1>6, OneChanges
<1>8. KeepsLives \/ Ends(i)
  BY <1>2, <1>4, <1>7 DEF KeepsLives, Ends
<1>9. terminated' \in BOOLEAN
  BY DEF Released, Inv, TypeOK
<1>. QED
  BY <1>7, <1>8, <1>9, EntriesKept DEF Inv, TypeOK

\* A read that failed, and the handler of a write.
LEMMA HandlersInv ==
    ASSUME Inv, NEW i \in DOMAIN sessions, ReadFails(i) \/ WriteCompletes(i) \/ WriteFails(i)
    PROVE  Inv' /\ (KeepsLives \/ Ends(i))
<1>. DEFINE s == sessions[i]
<1>1. s \in Session /\ SessionOK(s, Requested)
  BY SessionsAre DEF Inv
<1>2. CASE ReadFails(i)
  <2>. DEFINE t == [s EXCEPT !.reading = FALSE]
  <2>1. /\ t \in Session /\ t.addr = s.addr /\ t.state = s.state
        /\ t.requests = s.requests /\ t.up = s.up
        /\ t.written = s.written /\ t.to_write = s.to_write /\ t.writes = s.writes
        /\ t.writing_started_ = s.writing_started_
    BY <1>1 DEF Session
  <2>2. s.reading /\ Released(i, t)
    BY <1>2 DEF ReadFails
  <2>. HIDE DEF t
  <2>3. s.state = "open" /\ WriterOK(t) /\ Ordered(Carried(t)) /\ Numbered(Carried(t), Requested)
    BY <1>1, <2>1, <2>2 DEF SessionOK, Held, WriterOK, Carried
  <2>. QED
    BY <2>1, <2>2, <2>3, ReleasedInv
<1>3. ASSUME s.writes > 0 PROVE s.writes = 1 /\ s.state = "open" /\ s.writing_started_
  BY <1>1, <1>3, SessionIs DEF SessionOK, WriterOK, Held
<1>. DEFINE r == [s EXCEPT !.writes = @ - 1]
<1>4. ASSUME s.writes > 0
      PROVE  /\ r \in Session /\ r.addr = s.addr /\ r.state = s.state
             /\ r.requests = s.requests /\ r.up = s.up /\ r.reading = s.reading
             /\ r.written = s.written /\ r.to_write = s.to_write /\ r.writes = 0
             /\ r.writing_started_ = s.writing_started_
  BY <1>1, <1>3, <1>4 DEF Session
<1>5. CASE WriteCompletes(i)
  <2>1. s.writes > 0 /\ Released(i, DoWrite(r))
    BY <1>5 DEF WriteCompletes
  <2>. HIDE DEF r
  <2>. DEFINE t == DoWrite(r)
  <2>2. t \in Session /\ Alike(r, t) /\ Carried(t) = Carried(r) /\ WriterOK(t)
    BY <1>4, <2>1, DoWriteOK
  <2>3. Carried(r) = Carried(s)
    BY <1>4, <2>1 DEF Carried
  <2>. HIDE DEF t
  <2>4. /\ t.state = "open" /\ t.addr = s.addr /\ t.requests = s.requests /\ s.state = "open"
    BY <1>3, <1>4, <2>1, <2>2 DEF Alike
  <2>5. Ordered(Carried(t)) /\ Numbered(Carried(t), Requested)
    BY <1>1, <2>2, <2>3 DEF SessionOK
  <2>6. Released(i, t)
    BY <2>1 DEF t
  <2>. QED
    BY <2>2, <2>4, <2>5, <2>6, ReleasedInv
<1>6. CASE WriteFails(i)
  <2>1. s.writes > 0 /\ ~s.up /\ Released(i, r)
    BY <1>6 DEF WriteFails
  <2>. HIDE DEF r
  <2>2. s.state = "open" /\ WriterOK(r) /\ Ordered(Carried(r)) /\ Numbered(Carried(r), Requested)
    BY <1>1, <1>3, <1>4, <2>1 DEF SessionOK, WriterOK, Carried
  <2>. QED
    BY <1>3, <1>4, <2>1, <2>2, ReleasedInv
<1>. QED
  BY <1>2, <1>5, <1>6

\* A handler that throws ends the process and touches nothing.
LEMMA ThrowsInv ==
    ASSUME Inv,
           \/ \E i \in DOMAIN sessions : HandshakeThrows(i)
           \/ \E i \in DOMAIN sessions : ReadMalformed(i)
           \/ \E i \in DOMAIN sessions : \E dst \in Addresses : ReadSendMsgThrows(i, dst)
           \/ \E i \in DOMAIN sessions : ReadListPeersThrows(i)
    PROVE  Inv' /\ KeepsLives
<1>1. sessions' = sessions /\ sessions_' = sessions_ /\ terminated' = TRUE
  BY DEF HandshakeThrows, ReadMalformed, ReadSendMsgThrows, ReadListPeersThrows, Throws
<1>. QED
  BY <1>1 DEF Inv, TypeOK, Requested, EntryOpen, KeepsLives

\* Counting a request leaves the other fields alone.
LEMMA OneMore ==
    ASSUME NEW s \in Session
    PROVE  LET t == [s EXCEPT !.requests = @ + 1]
           IN  /\ t \in Session /\ t.addr = s.addr /\ t.state = s.state
               /\ t.requests = s.requests + 1 /\ t.up = s.up /\ t.reading = s.reading
               /\ t.written = s.written /\ t.to_write = s.to_write /\ t.writes = s.writes
               /\ t.writing_started_ = s.writing_started_
<1>1. s.requests + 1 \in Nat
  BY DEF Session
<1>. QED
  BY <1>1 DEF Session

\* A request is counted, and before that a message may have gone to a session
\* that is open: the sender itself, or the one that is entered.
LEMMA CountedInv ==
    ASSUME Inv, NEW i \in DOMAIN sessions, UNCHANGED <<sessions_, terminated>>,
           NEW ss \in Seq(Session), DOMAIN ss = DOMAIN sessions, Len(ss) = Len(sessions),
           sessions' = Counted(ss, i),
           \A j \in DOMAIN sessions :
               /\ Alike(sessions[j], ss[j])
               /\ SessionOK(ss[j], [Requested EXCEPT ![i] = @ + 1])
    PROVE  Inv' /\ KeepsLives
<1>. DEFINE rq == [Requested EXCEPT ![i] = @ + 1]
            t == [ss[i] EXCEPT !.requests = @ + 1]
<1>1. i \in Nat /\ ss[i] \in Session /\ \A j \in DOMAIN sessions : ss[j] \in Session
  BY SessionsAre, ElementOfSeq DEF Inv
<1>2. sessions' = [ss EXCEPT ![i] = t]
  BY DEF Counted
<1>3. /\ t \in Session /\ t.addr = ss[i].addr /\ t.state = ss[i].state
      /\ t.requests = ss[i].requests + 1 /\ t.up = ss[i].up /\ t.reading = ss[i].reading
      /\ t.written = ss[i].written /\ t.to_write = ss[i].to_write /\ t.writes = ss[i].writes
      /\ t.writing_started_ = ss[i].writing_started_
  BY ONLY <1>1, OneMore
<1>. HIDE DEF t
<1>4. /\ sessions' \in Seq(Session) /\ Len(sessions') = Len(ss)
      /\ DOMAIN sessions' = DOMAIN ss
      /\ sessions'[i] = t
      /\ \A j \in DOMAIN ss : j # i => sessions'[j] = ss[j]
  BY <1>2, <1>3, Replaced
<1>5. SessionOK(t, rq)
  <2>1. SessionOK(ss[i], rq)
    OBVIOUS
  <2>2. Held(t)
    BY <1>3, <2>1 DEF SessionOK, Held
  <2>. HIDE DEF rq
  <2>. QED
    BY <1>1, <1>3, <2>1, <2>2, SameQueue
<1>6. Requested' = rq
  BY <1>1, <1>3, <1>4 DEF Requested, Alike
<1>7. \A j \in DOMAIN sessions' : SessionOK(sessions'[j], Requested')
  BY <1>4, <1>5, <1>6
<1>8. KeepsLives
  BY <1>3, <1>4 DEF KeepsLives, Alike
<1>. QED
  BY <1>4, <1>7, <1>8, EntriesKept DEF Inv, TypeOK

\* A request of session i is delivered to the open session k.
LEMMA DeliveredInv ==
    ASSUME Inv, NEW i \in DOMAIN sessions, NEW k \in DOMAIN sessions, NEW m \in Reply,
           sessions[k].state = "open",
           m.from # 0 => m.from = i /\ m.number = sessions[i].requests + 1,
           sessions' = Counted([sessions EXCEPT ![k] = WriteMessage(@, m)], i),
           UNCHANGED <<sessions_, terminated>>
    PROVE  Inv' /\ KeepsLives
<1>. DEFINE rq == [Requested EXCEPT ![i] = @ + 1]
            t == WriteMessage(sessions[k], m)
            ss == [sessions EXCEPT ![k] = t]
<1>1. /\ \A j \in DOMAIN sessions : sessions[j] \in Session /\ SessionOK(sessions[j], Requested)
      /\ i \in Nat /\ Requested[i] = sessions[i].requests
      /\ \A j \in Nat : Requested[j] \in Nat
  BY SessionsAre DEF Inv
<1>2. Requested \in [Nat -> Nat]
  BY <1>1 DEF Requested
<1>3. Grown(Requested, rq) /\ rq[i] = sessions[i].requests + 1
  BY <1>1, <1>2 DEF Grown
<1>4. t \in Session /\ Alike(sessions[k], t)
  BY <1>1, WriteMessageOK DEF SessionOK
<1>. HIDE DEF rq
<1>5. SessionOK(t, rq)
  <2>. DEFINE s == sessions[k]
  <2>1. s \in Session /\ SessionOK(s, Requested) /\ s.state = "open"
    BY <1>1
  <2>2. m.from # 0 => m.number = Requested[m.from] + 1 /\ m.number <= rq[m.from]
    BY <1>1, <1>3
  <2>. HIDE DEF s
  <2>3. SessionOK(WriteMessage(s, m), rq)
    BY <1>3, <2>1, <2>2, DeliveredOK
  <2>. QED
    BY <2>3 DEF s
<1>. HIDE DEF t
<1>6. /\ ss \in Seq(Session) /\ Len(ss) = Len(sessions) /\ DOMAIN ss = DOMAIN sessions
      /\ ss[k] = t
      /\ \A j \in DOMAIN sessions : j # k => ss[j] = sessions[j]
  BY <1>4, Replaced DEF Inv, TypeOK
<1>7. sessions' = Counted(ss, i)
  BY DEF t
<1>. HIDE DEF ss
<1>8. \A j \in DOMAIN sessions : SessionOK(sessions[j], rq)
  BY <1>1, <1>3, GrownOK
<1>9. \A j \in DOMAIN sessions : Alike(sessions[j], ss[j]) /\ SessionOK(ss[j], rq)
  BY <1>4, <1>5, <1>6, <1>8 DEF Alike
<1>. QED
  BY <1>6, <1>7, <1>9, CountedInv DEF rq

\* do_read's handler keeps the invariant, whatever the request.
LEMMA ReadInv ==
    ASSUME Inv, NEW i \in DOMAIN sessions,
           \/ \E type \in DOMAIN Answer : ReadQuery(i, type)
           \/ \E dst \in Addresses : ReadSendMsg(i, dst)
    PROVE  Inv' /\ KeepsLives
<1>1. \A j \in DOMAIN sessions : sessions[j] \in Session /\ SessionOK(sessions[j], Requested)
  BY SessionsAre DEF Inv
<1>2. ASSUME NEW type \in DOMAIN Answer, ReadQuery(i, type) PROVE Inv' /\ KeepsLives
  <2>. DEFINE m == [type |-> Answer[type], from |-> 0, number |-> 0]
  <2>1. Answer[type] \in {"PONG", "PEER_LIST"}
    BY DEF Answer
  <2>2. m \in Reply /\ m.from = 0
    BY <2>1 DEF Reply
  <2>3. sessions[i].state = "open"
    BY <1>1, <1>2 DEF ReadQuery, Reads, SessionOK, Held
  <2>4. /\ sessions' = Counted([sessions EXCEPT ![i] = WriteMessage(@, m)], i)
        /\ UNCHANGED <<sessions_, terminated>>
    BY <1>2 DEF ReadQuery
  <2>. HIDE DEF m
  <2>. QED
    BY <2>2, <2>3, <2>4, DeliveredInv
<1>3. ASSUME NEW dst \in Addresses, ReadSendMsg(i, dst) PROVE Inv' /\ KeepsLives
  <2>. DEFINE m == [type |-> "PEER_MSG", from |-> i, number |-> sessions[i].requests + 1]
              to == sessions_[dst]
  <2>1. m \in Reply /\ m.from = i /\ m.number = sessions[i].requests + 1
    BY <1>1, SessionsAre, SessionIs DEF Inv, Reply
  <2>2. UNCHANGED <<sessions_, terminated>>
    BY <1>3 DEF ReadSendMsg
  <2>3. CASE to \in Alive
    <3>1. sessions' = Counted([sessions EXCEPT ![to] = WriteMessage(@, m)], i)
      BY <1>3, <2>3 DEF ReadSendMsg
    <3>2. to \in DOMAIN sessions /\ to # 0
      BY <2>3, SessionsAre DEF Alive, Inv
    <3>3. sessions[to].state = "open"
      BY <3>2 DEF Inv, EntryOpen
    <3>. HIDE DEF m, to
    <3>. QED
      BY <2>1, <2>2, <3>1, <3>2, <3>3, DeliveredInv
  <2>4. CASE to \notin Alive
    <3>1. sessions' = Counted(sessions, i)
      BY <1>3, <2>4 DEF ReadSendMsg
    <3>. DEFINE rq == [Requested EXCEPT ![i] = @ + 1]
    <3>2. Grown(Requested, rq)
      BY SessionsAre DEF Inv, Grown, Requested
    <3>. HIDE DEF rq
    <3>3. \A j \in DOMAIN sessions : Alike(sessions[j], sessions[j]) /\ SessionOK(sessions[j], rq)
      BY <1>1, <3>2, GrownOK DEF Alike
    <3>. QED
      BY <2>2, <3>1, <3>3, CountedInv DEF rq, Inv, TypeOK
  <2>. QED
    BY <2>3, <2>4
<1>. QED
  BY <1>2, <1>3

-----------------------------------------------------------------------------
\* Every step keeps the invariant.
LEMMA StepInv == Inv /\ [Next]_vars => Inv'
<1>. SUFFICES ASSUME Inv, [Next]_vars PROVE Inv'
  OBVIOUS
<1>1. ASSUME UNCHANGED vars PROVE Inv'
  BY <1>1 DEF vars, Inv, TypeOK, Requested, EntryOpen
<1>2. ASSUME Next PROVE Inv'
  BY <1>2, AcceptInv, HandshakeInv, LossInv, HandlersInv, ReadInv, ThrowsInv DEF Next
<1>. QED
  BY <1>1, <1>2

\* The invariant holds of every behaviour of the relay.
THEOREM RelayInvariant == Spec => []Inv
BY InitInv, StepInv, PTL DEF Spec

\* Every variable keeps its type.
THEOREM RelayTypeOK == Spec => []TypeOK
<1>1. Inv => TypeOK
  BY DEF Inv
<1>. QED
  BY <1>1, RelayInvariant, PTL

\* No entry of sessions_ outlives its session, although a destructor erases the
\* entry of its address whose ever it is: even if clients reuse addresses.
THEOREM RelayNoExpiredEntry == Spec => []NoExpiredEntry
<1>1. Inv => NoExpiredEntry
  BY DEF Inv, EntryOpen, NoExpiredEntry, Alive
<1>. QED
  BY <1>1, RelayInvariant, PTL

\* A session has at most one async_write pending, whatever writing_started_ was
\* before anything assigned to it.
THEOREM RelayOneWrite == Spec => []OneWrite
<1>1. Inv => OneWrite
  BY DEF Inv, SessionOK, WriterOK, OneWrite
<1>. QED
  BY <1>1, RelayInvariant, PTL

\* A session that has written, and is up, does not stop with messages left.
THEOREM RelayKeepsWriting == Spec => []KeepsWriting
<1>1. ASSUME Inv PROVE KeepsWriting
  <2>1. \A i \in DOMAIN sessions : WriterOK(sessions[i]) /\ sessions[i] \in Session
    BY <1>1, SessionsAre DEF Inv, SessionOK
  <2>2. \A i \in DOMAIN sessions : sessions[i].writing_started_ \in BOOLEAN
    BY <2>1, SessionIs
  <2>. QED
    BY <2>1, <2>2 DEF KeepsWriting, WriterOK
<1>. QED
  BY <1>1, RelayInvariant, PTL

\* What one session sends to another is written in the order of its requests.
THEOREM RelayInOrder == Spec => []InOrder
<1>1. Inv => InOrder
  BY DEF Inv, SessionOK, Ordered, Carried, InOrder
<1>. QED
  BY <1>1, RelayInvariant, PTL

-----------------------------------------------------------------------------
\* No two sessions that exist have the same address, and those that are open are
\* the ones entered for theirs.
OnePerAddress ==
    /\ \A i, j \in Alive : sessions[i].addr = sessions[j].addr => i = j
    /\ \A i \in DOMAIN sessions :
         sessions[i].state = "open" => sessions_[sessions[i].addr] = i

\* Steps that keep all states, or destroy one session, keep it.
LEMMA LivesKept ==
    ASSUME Inv, OnePerAddress, KeepsLives \/ \E i \in DOMAIN sessions : Ends(i)
    PROVE  OnePerAddress'
<1>0. \A i \in DOMAIN sessions : sessions[i].addr \in Addresses
  BY SessionsAre, SessionIs DEF Inv
<1>1. CASE KeepsLives
  BY <1>1 DEF KeepsLives, OnePerAddress, Alive
<1>2. ASSUME NEW i \in DOMAIN sessions, Ends(i) PROVE OnePerAddress'
  <2>1. ASSUME NEW j \in DOMAIN sessions, sessions'[j].state = "open"
        PROVE  sessions_'[sessions'[j].addr] = j
    <3>1. j # i /\ sessions[j].state = "open" /\ sessions'[j].addr = sessions[j].addr
      BY <1>2, <2>1 DEF Ends
    <3>2. sessions_[sessions[j].addr] = j
      BY <3>1 DEF OnePerAddress
    <3>3. CASE sessions_' = sessions_
      BY <3>1, <3>2, <3>3
    <3>4. CASE sessions_' # sessions_
      <4>1. sessions_' = [sessions_ EXCEPT ![sessions[i].addr] = 0]
        BY <1>2, <3>4 DEF Ends
      <4>2. sessions[i].addr # sessions[j].addr
        BY <1>2, <3>1 DEF Ends, OnePerAddress, Alive
      <4>. QED
        BY <1>0, <3>1, <3>2, <4>1, <4>2 DEF Inv, TypeOK
    <3>. QED
      BY <3>3, <3>4
  <2>. QED
    BY <1>2, <2>1 DEF Ends, OnePerAddress, Alive
<1>. QED
  BY <1>1, <1>2

\* If no client comes back from an address before the session of its broken
\* connection is destroyed, a session that reads is the one that others find
\* under its address.
THEOREM RelayFindable == ASSUME ~Reused PROVE Spec => []Findable
<1>1. Init => OnePerAddress
  BY DEF Init, OnePerAddress, Alive
<1>2. ASSUME Inv, OnePerAddress, [Next]_vars PROVE OnePerAddress'
  <2>. USE <1>2
  <2>1. ASSUME NEW a \in Addresses, Accept(a) PROVE OnePerAddress'
    <3>1. \A i \in Alive : sessions[i].addr # a
      BY <2>1 DEF Accept
    <3>2. /\ sessions_' = sessions_
          /\ DOMAIN sessions' = DOMAIN sessions \cup {Len(sessions) + 1}
          /\ \A j \in DOMAIN sessions : sessions'[j] = sessions[j]
          /\ sessions'[Len(sessions) + 1].addr = a
          /\ sessions'[Len(sessions) + 1].state = "handshake"
      BY <2>1, AcceptInv
    <3>. QED
      BY <3>1, <3>2 DEF OnePerAddress, Alive
  <2>2. ASSUME NEW i \in DOMAIN sessions, Handshake(i) PROVE OnePerAddress'
    <3>. DEFINE a == sessions[i].addr
    <3>1. /\ sessions[i].state = "handshake"
          /\ DOMAIN sessions' = DOMAIN sessions
          /\ \A j \in DOMAIN sessions : /\ sessions'[j].addr = sessions[j].addr
                                        /\ j # i => sessions'[j].state = sessions[j].state
          /\ sessions_' = [sessions_ EXCEPT ![a] = IF @ = 0 THEN i ELSE @]
      BY <2>2, HandshakeInv
    <3>2. \A j \in DOMAIN sessions : sessions[j].addr \in Addresses
      BY SessionsAre, SessionIs DEF Inv
    <3>3. i \in Alive /\ \A j \in DOMAIN sessions : sessions[j].state = "open" => j \in Alive
      BY <3>1 DEF Alive
    <3>4. sessions_[a] = 0
      BY <3>1, <3>2, <3>3 DEF Inv, EntryOpen, OnePerAddress
    <3>5. \A j \in Alive : j # i => sessions[j].addr # a
      BY <3>3 DEF OnePerAddress
    <3>6. Alive' \subseteq Alive
      BY <3>1, <3>3 DEF Alive
    <3>7. \A j \in DOMAIN sessions : sessions'[j].state = "open"
            => sessions_'[sessions'[j].addr] = j
      BY <3>1, <3>2, <3>3, <3>4, <3>5 DEF OnePerAddress, Inv, TypeOK
    <3>. QED
      BY <3>1, <3>6, <3>7 DEF OnePerAddress, Alive
  <2>3. ASSUME NEW i \in DOMAIN sessions, HandshakeFails(i) \/ Disconnect(i) PROVE OnePerAddress'
    BY <2>3, LossInv, LivesKept
  <2>4. ASSUME NEW i \in DOMAIN sessions, ReadFails(i) \/ WriteCompletes(i) \/ WriteFails(i)
        PROVE  OnePerAddress'
    BY <2>4, HandlersInv, LivesKept
  <2>5. ASSUME NEW i \in DOMAIN sessions,
               \/ \E type \in DOMAIN Answer : ReadQuery(i, type)
               \/ \E dst \in Addresses : ReadSendMsg(i, dst)
        PROVE  OnePerAddress'
    BY <2>5, ReadInv, LivesKept
  <2>7. ASSUME \/ \E i \in DOMAIN sessions : HandshakeThrows(i)
               \/ \E i \in DOMAIN sessions : ReadMalformed(i)
               \/ \E i \in DOMAIN sessions : \E dst \in Addresses : ReadSendMsgThrows(i, dst)
               \/ \E i \in DOMAIN sessions : ReadListPeersThrows(i)
        PROVE  OnePerAddress'
    BY <2>7, ThrowsInv, LivesKept
  <2>6. ASSUME UNCHANGED vars PROVE OnePerAddress'
    BY <2>6 DEF vars, OnePerAddress, Alive
  <2>. QED
    BY <2>1, <2>2, <2>3, <2>4, <2>5, <2>6, <2>7 DEF Next
<1>3. Inv /\ OnePerAddress => Findable
  BY DEF Inv, SessionOK, Held, OnePerAddress, Findable
<1>. QED
  BY <1>1, <1>2, <1>3, RelayInvariant, PTL DEF Spec
=============================================================================
