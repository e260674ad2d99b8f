------------------------------- MODULE Relay -------------------------------
(***************************************************************************)
(* The TLS relay of server/server.cpp.  One thread runs the handlers of    *)
(* all sessions; each handler is an action.                                *)
(*                                                                         *)
(* A session object lives as long as a handler that captured it is         *)
(* pending: the handshake, a read or a write.  sessions_ maps the address  *)
(* of a client to a weak pointer, entered after the handshake and erased,  *)
(* by address, in the destructor.                                          *)
(*                                                                         *)
(* An exception that leaves a handler leaves io_context.run(), and main    *)
(* ends: there is no session any more that could do anything.              *)
(***************************************************************************)
EXTENDS Integers, Sequences

CONSTANTS
    Addresses,     \* the addresses, with port, of clients
    MaxSessions,   \* bound: connections accepted
    MaxRequests,   \* bound: requests read by each session
    MaxQueue,      \* bound: messages a session has to write beyond which
                   \* no request is read
    Garbage,       \* the values writing_started_, which the constructor does
                   \* not initialize, may start with
    Reused         \* may a client come back from the same address before the
                   \* session of its broken connection is destroyed?

ASSUME ConstantsAssumption ==
    /\ MaxSessions \in Nat /\ MaxRequests \in Nat /\ MaxQueue \in Nat
    /\ Garbage \subseteq BOOLEAN
    /\ Reused \in BOOLEAN

VARIABLES
    sessions_,   \* [Addresses -> session number, 0 if there is no entry]
    sessions,    \* the session objects, in the order of their creation
    terminated   \* has an exception left io_context.run()?

vars == <<sessions_, sessions, terminated>>

-----------------------------------------------------------------------------
(* A session *)

\* What a session writes.  A message that is relayed has the number of the
\* session that sent it and its own number among those; other replies have 0.
Reply == [type : {"PONG", "PEER_LIST", "PEER_MSG"}, from : Nat, number : Nat]

Session ==
    [addr     : Addresses,
     up       : BOOLEAN,       \* is the connection up?
     state    : {"handshake", "open", "destroyed"},
     reading  : BOOLEAN,       \* a read is pending
     writing_started_ : BOOLEAN,
     writes   : Nat,           \* how many writes are pending
     to_write : Seq(Reply),
     written  : Seq(Reply),
     requests : Nat]           \* how many requests were read

Alive == {i \in DOMAIN sessions : sessions[i].state # "destroyed"}

DoWriteLast(s) ==             \* mutant: the newest message is taken
    IF s.to_write = <<>>
    THEN [s EXCEPT !.writing_started_ = FALSE]
    ELSE [s EXCEPT !.writing_started_ = TRUE,
                   !.written = Append(@, s.to_write[Len(s.to_write)]),
                   !.to_write = SubSeq(@, 1, Len(@) - 1),
                   !.writes = @ + 1]

\* do_write of a session
DoWrite(s) ==
    IF s.to_write = <<>>
    THEN [s EXCEPT !.writing_started_ = FALSE]
    ELSE [s EXCEPT !.writing_started_ = TRUE,
                   !.written = Append(@, Head(s.to_write)),
                   !.to_write = Tail(@),
                   !.writes = @ + 1]

WriteMessageAtOnce(s, r) ==   \* mutant: writing_started_ is not looked at
    DoWrite([s EXCEPT !.to_write = Append(@, r)])

\* WriteMessage of a session
WriteMessage(s, r) ==
    LET q == [s EXCEPT !.to_write = Append(@, r)]
    IN  IF s.writing_started_ THEN q ELSE DoWrite(q)

ReleasedKept(i, s) ==         \* mutant: the entry is not erased
    /\ sessions' = [sessions EXCEPT ![i] =
           IF ~s.reading /\ s.writes = 0 THEN [s EXCEPT !.state = "destroyed"] ELSE s]
    /\ UNCHANGED <<sessions_, terminated>>

\* Session i becomes s.  If no handler holds it any more it is destroyed, and
\* the entry of its address with it.
Released(i, s) ==
    LET last == ~s.reading /\ s.writes = 0 IN
    /\ sessions' = [sessions EXCEPT ![i] = IF last THEN [s EXCEPT !.state = "destroyed"] ELSE s]
    /\ sessions_' = IF last THEN [sessions_ EXCEPT ![s.addr] = 0] ELSE sessions_
    /\ UNCHANGED terminated

\* A handler throws.  What it has done before does not matter any more.
Throws == terminated' = TRUE /\ UNCHANGED <<sessions_, sessions>>

-----------------------------------------------------------------------------
(* Handlers *)

\* server::do_accept: a connection comes in and its handshake is started.
Accept(a) ==
    /\ ~terminated
    /\ Len(sessions) < MaxSessions
    /\ \A i \in Alive : sessions[i].addr = a => Reused /\ ~sessions[i].up
    /\ \E started \in Garbage :
         sessions' = Append(sessions,
             [addr |-> a, up |-> TRUE, state |-> "handshake", reading |-> FALSE,
              writing_started_ |-> started, writes |-> 0,
              to_write |-> <<>>, written |-> <<>>, requests |-> 0])
    /\ UNCHANGED <<sessions_, terminated>>

HandshakeUnlisted(i) ==       \* mutant: the session is not entered
    /\ ~terminated
    /\ sessions[i].state = "handshake" /\ sessions[i].up
    /\ sessions' = [sessions EXCEPT ![i].state = "open", ![i].reading = TRUE]
    /\ UNCHANGED <<sessions_, terminated>>

\* do_handshake's handler: the session is entered, unless its address is
\* there, and starts to read.
Handshake(i) ==
    /\ ~terminated
    /\ sessions[i].state = "handshake" /\ sessions[i].up
    /\ sessions' = [sessions EXCEPT ![i].state = "open", ![i].reading = TRUE]
    /\ sessions_' = [sessions_ EXCEPT ![sessions[i].addr] = IF @ = 0 THEN i ELSE @]
    /\ UNCHANGED terminated

\* ... of a connection that is lost since: remote_endpoint() throws.
HandshakeThrows(i) ==
    /\ ~terminated
    /\ sessions[i].state = "handshake" /\ ~sessions[i].up
    /\ Throws

\* ... after an error: the session is destroyed.  Its addr_ is still empty.
HandshakeFails(i) ==
    /\ ~terminated
    /\ sessions[i].state = "handshake"
    /\ sessions' = [sessions EXCEPT ![i].state = "destroyed"]
    /\ UNCHANGED <<sessions_, terminated>>

\* do_read's handler, for one request.  It ends by reading on.  The requests of
\* one read are handled one by one here, with other handlers in between or not.
Reads(i) ==
    /\ ~terminated
    /\ sessions[i].reading /\ sessions[i].up
    /\ sessions[i].requests < MaxRequests
    /\ \A j \in DOMAIN sessions : Len(sessions[j].to_write) < MaxQueue

Counted(ss, i) == [ss EXCEPT ![i].requests = @ + 1]

\* What a session answers itself; NOP, PONG and the rest it ignores.
Answer == [PING |-> "PONG", LIST_PEERS |-> "PEER_LIST"]

ReadQuery(i, type) ==
    /\ Reads(i)
    /\ sessions' = Counted([sessions EXCEPT ![i] =
           WriteMessage(@, [type |-> Answer[type], from |-> 0, number |-> 0])], i)
    /\ UNCHANGED <<sessions_, terminated>>

\* SEND_MSG goes to the session entered for the address it names.
ReadSendMsg(i, dst) ==
    LET m == [type |-> "PEER_MSG", from |-> i, number |-> sessions[i].requests + 1]
        to == sessions_[dst]
    IN  /\ Reads(i)
        /\ sessions' = Counted(IF to \in Alive
                               THEN [sessions EXCEPT ![to] = WriteMessage(@, m)]
                               ELSE sessions, i)
        /\ UNCHANGED <<sessions_, terminated>>

\* do_read's handler throws: what was read is not a Message; it is a SEND_MSG
\* that is relayed although the certificate of the sender or the receiver names
\* nobody, so that front() is called on an empty list; or it is LIST_PEERS, and
\* dump() meets a name that is not UTF-8.  front() may also return garbage, and
\* the handler go on.  Certificates are not kept: any session may have such a one.
ReadMalformed(i) == Reads(i) /\ Throws
ReadSendMsgThrows(i, dst) == Reads(i) /\ sessions_[dst] \in Alive /\ Throws
ReadListPeersThrows(i) == Reads(i) /\ Throws

\* do_read's handler after an error: nothing is read any more.
ReadFails(i) ==
    /\ ~terminated
    /\ sessions[i].reading /\ ~sessions[i].up
    /\ Released(i, [sessions[i] EXCEPT !.reading = FALSE])

WriteCompletesOnce(i) ==      \* mutant: do_write is not called again
    /\ ~terminated
    /\ sessions[i].writes > 0
    /\ Released(i, [sessions[i] EXCEPT !.writes = @ - 1])

\* do_write's handler: it writes on.
WriteCompletes(i) ==
    /\ ~terminated
    /\ sessions[i].writes > 0
    /\ Released(i, DoWrite([sessions[i] EXCEPT !.writes = @ - 1]))

\* ... after an error it does not, and writing_started_ stays set.
WriteFails(i) ==
    /\ ~terminated
    /\ sessions[i].writes > 0 /\ ~sessions[i].up
    /\ Released(i, [sessions[i] EXCEPT !.writes = @ - 1])

\* The connection of a client is lost.
Disconnect(i) ==
    /\ ~terminated
    /\ sessions[i].up
    /\ sessions' = [sessions EXCEPT ![i].up = FALSE]
    /\ UNCHANGED <<sessions_, terminated>>

-----------------------------------------------------------------------------
Init ==
    /\ sessions_ = [a \in Addresses |-> 0]
    /\ sessions = <<>>
    /\ terminated = FALSE

Next ==
    \/ \E a \in Addresses : Accept(a)
    \/ \E i \in DOMAIN sessions : Handshake(i)
    \/ \E i \in DOMAIN sessions : HandshakeThrows(i)
    \/ \E i \in DOMAIN sessions : HandshakeFails(i)
    \/ \E i \in DOMAIN sessions : \E type \in DOMAIN Answer : ReadQuery(i, type)
    \/ \E i \in DOMAIN sessions : \E dst \in Addresses : ReadSendMsg(i, dst)
    \/ \E i \in DOMAIN sessions : ReadMalformed(i)
    \/ \E i \in DOMAIN sessions : \E dst \in Addresses : ReadSendMsgThrows(i, dst)
    \/ \E i \in DOMAIN sessions : ReadListPeersThrows(i)
    \/ \E i \in DOMAIN sessions : ReadFails(i)
    \/ \E i \in DOMAIN sessions : WriteCompletes(i)
    \/ \E i \in DOMAIN sessions : WriteFails(i)
    \/ \E i \in DOMAIN sessions : Disconnect(i)

Spec == Init /\ [][Next]_vars

-----------------------------------------------------------------------------
(* Properties *)

\* Every variable has its type.
TypeOK ==
    /\ sessions_ \in [Addresses -> 0 .. MaxSessions]
    /\ sessions \in Seq(Session)
    /\ terminated \in BOOLEAN

\* A session that reads requests is the one found under its address, so that
\* what others send to that address reaches it.
Findable ==
    \A i \in DOMAIN sessions :
        sessions[i].reading /\ sessions[i].up => sessions_[sessions[i].addr] = i

\* No entry outlives its session: a weak pointer that is found can be locked.
NoExpiredEntry ==
    \A a \in Addresses : sessions_[a] # 0 =>
        sessions_[a] \in Alive /\ sessions[sessions_[a]].addr = a

\* A session has at most one write pending, as the TLS stream demands.
OneWrite == \A i \in DOMAIN sessions : sessions[i].writes <= 1

\* A session that has begun to write and is up never has messages to write and
\* no write pending, whose handler would go on with them.
KeepsWriting ==
    \A i \in DOMAIN sessions :
        LET s == sessions[i] IN
        s.up /\ s.written # <<>> /\ s.to_write # <<>> => s.writes > 0

\* A session writes what another sent it in the order in which it was sent.
InOrder ==
    \A i \in DOMAIN sessions :
        LET all == sessions[i].written \o sessions[i].to_write IN
        \A j, k \in DOMAIN all :
            j < k /\ all[j].from = all[k].from /\ all[j].from # 0
                => all[j].number < all[k].number
=============================================================================
