------------------------------ MODULE WsServer ------------------------------
(***************************************************************************)
(* The websocket server of ws/WebSocket.cpp: the coroutine do_listen, one  *)
(* coroutine do_session per connection, on several threads, and the table  *)
(* session_table that they share under the mutex m.                        *)
(*                                                                         *)
(* A step is what a coroutine does between two points where it waits, for  *)
(* its connection or for the mutex.  The table is a set of endpoints: the  *)
(* weak pointers in it come from weak_from_this() in a constructor and are *)
(* all empty.  Of the replies only the list that LIST_PEERS gathers is     *)
(* kept, while the walk over the table lasts.                              *)
(*                                                                         *)
(* An exception that leaves a coroutine leaves ioc.run() and ends the      *)
(* process; remote_endpoint() throws once the connection has been reset,   *)
(* and the hash of the table for every address that is not IPv4.           *)
(***************************************************************************)
EXTENDS Integers, Sequences, SequencesExt

CONSTANTS
    Endpoints,     \* the addresses and ports clients connect from
    Types,         \* the types of message they send
    MaxConns,      \* bound: connections in all
    MaxBatch       \* bound: messages that one read completes

\* The types of MessageType that are told apart: those handleMessage has a reply
\* for, and those whose handler has no return statement.
Answered == {"NOP", "PONG", "LIST_PEERS"}
Unfinished == {"SEND_MSG", "WANT_TO_CONNECT"}

ASSUME ConstantsAssumption ==
    /\ Types \subseteq Answered \cup Unfinished
    /\ MaxConns \in Nat /\ MaxBatch \in Nat

VARIABLES
    conns,          \* the connections, in the order they were made
    session_table,  \* the endpoints in it
    terminated,     \* has the process died?
    v6,             \* was main given an IPv6 address to listen on?
    m,              \* the mutex: the connection whose coroutine holds it, or 0
    shared          \* history: sessions that had an endpoint in common with
                    \* another one during their life

vars == <<conns, session_table, terminated, v6, m, shared>>

Links == {"up", "closed", "silent", "reset"}
Labels == {"backlog", "accepting", "reading", "handling", "walking", "writing",
           "ending", "gone"}

Connection ==
    [endp : Endpoints,
     link : Links,      \* the client has closed it, vanished or reset it
     pc   : Labels,     \* where its coroutine is
     lst  : BoundedSeq(Types, MaxBatch),   \* messages still to be handled
     ahead     : SUBSET Endpoints,  \* entries that its walk has still to visit
     peer_list : SUBSET Endpoints]  \* entries that it has copied into its reply

At(i, l) == ~terminated /\ conns[i].pc = l
Goto(i, l) == conns' = [conns EXCEPT ![i].pc = l]
Terminate(b) == terminated' = b
Unlocked == m = 0

\* The connections that have a Session, and those of them from e.
Sessions == {i \in DOMAIN conns : conns[i].pc \notin {"backlog", "gone"}}
SessionsOf(e) == {i \in Sessions : conns[i].endp = e}

-----------------------------------------------------------------------------
(* The clients *)

\* A connection from e is made.  What is left at the server of an earlier one
\* from the same address and port is reset by TCP first.
Connect(e) ==
    /\ ~terminated
    /\ Len(conns) < MaxConns
    /\ \A i \in DOMAIN conns :
         conns[i].endp = e /\ conns[i].pc # "gone" => conns[i].link # "up"
    /\ conns' = Append(
         [i \in DOMAIN conns |->
            IF conns[i].endp = e /\ conns[i].pc # "gone"
            THEN [conns[i] EXCEPT !.link = "reset"] ELSE conns[i]],
         [endp |-> e, link |-> "up", pc |-> "backlog", lst |-> <<>>,
          ahead |-> {}, peer_list |-> {}])
    /\ UNCHANGED <<session_table, terminated, v6, m, shared>>

\* The client closes the connection, vanishes without a word, or resets it.
Leave(i, how) ==
    /\ ~terminated
    /\ conns[i].pc # "gone"
    /\ \/ conns[i].link = "up" /\ how # "up"
       \/ conns[i].link = "closed" /\ how = "reset"
    /\ conns' = [conns EXCEPT ![i].link = how]
    /\ UNCHANGED <<session_table, terminated, v6, m, shared>>

-----------------------------------------------------------------------------
(* do_listen *)

\* Is i the connection that async_accept takes next?
Oldest(i) ==
    At(i, "backlog") /\ \A j \in DOMAIN conns : conns[j].pc = "backlog" => i <= j

\* The constructor of Session waits for the mutex; emplace leaves an entry that
\* is there alone.  The coroutine of the session is spawned and accepts the
\* handshake.
Accept(i) ==
    /\ Oldest(i) /\ Unlocked
    /\ conns[i].link # "reset"
    /\ ~v6
    /\ LET e == conns[i].endp IN
         /\ session_table' = session_table \cup {e}
         /\ shared' = IF SessionsOf(e) = {} THEN shared
                      ELSE shared \cup SessionsOf(e) \cup {i}
    /\ Goto(i, "accepting")
    /\ UNCHANGED <<terminated, v6, m>>

\* emplace hashes the endpoint by way of to_v4(), which throws for an IPv6
\* address, and the constructor is noexcept.
AcceptV6(i) ==
    /\ Oldest(i) /\ Unlocked
    /\ conns[i].link # "reset"
    /\ v6
    /\ Terminate(TRUE)
    /\ UNCHANGED <<conns, session_table, v6, m, shared>>

\* The connection was reset before: async_accept reports an error, which is
\* only logged, or remote_endpoint() throws in the constructor, which is
\* noexcept, depending on the platform.
AcceptReset(i, thrown) ==
    /\ Oldest(i)
    /\ conns[i].link = "reset"
    /\ Terminate(thrown)
    /\ Goto(i, "gone")
    /\ UNCHANGED <<session_table, v6, m, shared>>

-----------------------------------------------------------------------------
(* do_session *)

\* The handshake is over; it fails for a client that is gone, takes longer than
\* the suggested timeout or does not speak the protocol.
Accepted(i, ok) ==
    /\ At(i, "accepting")
    /\ ok => conns[i].link \in {"up", "closed"}
    /\ Goto(i, IF ok THEN "reading" ELSE "ending")
    /\ UNCHANGED <<session_table, terminated, v6, m, shared>>

\* async_read has read something, and Feed yields the messages it completes:
\* none if the rest of one is still to come.
Read(i, lst) ==
    /\ At(i, "reading")
    /\ conns[i].link \in {"up", "closed"}
    /\ conns' = [conns EXCEPT ![i].pc = "handling", ![i].lst = lst]
    /\ UNCHANGED <<session_table, terminated, v6, m, shared>>

\* What was read is not a Message: Feed throws.
ReadMalformed(i) ==
    /\ At(i, "reading")
    /\ conns[i].link \in {"up", "closed"}
    /\ Terminate(TRUE)
    /\ UNCHANGED <<conns, session_table, v6, m, shared>>

ReadEndsUntimed(i) ==      \* mutant: no timeout is set
    /\ At(i, "reading")
    /\ conns[i].link \notin {"up", "silent"}
    /\ Goto(i, "ending")
    /\ UNCHANGED <<session_table, terminated, v6, m, shared>>

\* The read reports that the session was closed, or an error: after the
\* suggested timeout also for a client that has vanished.
ReadEnds(i) ==
    /\ At(i, "reading")
    /\ conns[i].link # "up"
    /\ Goto(i, "ending")
    /\ UNCHANGED <<session_table, terminated, v6, m, shared>>

\* The message that handleMessage is given, of a type in T.
Handles(i, T) ==
    At(i, "handling") /\ conns[i].lst # <<>> /\ Head(conns[i].lst) \in T

\* handleMessage for the first message: its reply is being written.  A handler
\* that returns nothing leaves garbage for one, and the process may not
\* survive its use.
HandleMessage(i, survives) ==
    /\ Handles(i, Types \ {"LIST_PEERS"})
    /\ survives \/ Head(conns[i].lst) \in Unfinished
    /\ Terminate(~survives)
    /\ conns' = [conns EXCEPT ![i].pc = "writing", ![i].lst = Tail(@)]
    /\ UNCHANGED <<session_table, v6, m, shared>>

\* handleLIST_PEERS waits for the mutex and begins to walk the table.
ListPeersLocks(i) ==
    /\ Handles(i, {"LIST_PEERS"}) /\ Unlocked
    /\ m' = i
    /\ conns' = [conns EXCEPT ![i].pc = "walking", ![i].ahead = session_table,
                              ![i].peer_list = {}]
    /\ UNCHANGED <<session_table, terminated, v6, shared>>

\* One turn of the loop: the next entry, in the order of the hash table.
ListPeersTurn(i, e) ==
    /\ At(i, "walking")
    /\ e \in conns[i].ahead
    /\ conns' = [conns EXCEPT ![i].ahead = @ \ {e}, ![i].peer_list = @ \cup {e}]
    /\ UNCHANGED <<session_table, terminated, v6, m, shared>>

\* The end of the table: the list is dropped, a PONG returned, and the mutex
\* released.
ListPeersUnlocks(i) ==
    /\ At(i, "walking")
    /\ conns[i].ahead = {}
    /\ m' = 0
    /\ conns' = [conns EXCEPT ![i].pc = "writing", ![i].lst = Tail(@),
                              ![i].peer_list = {}]
    /\ UNCHANGED <<session_table, terminated, v6, shared>>

\* async_write is over; an error ends the session.
Written(i, ok) ==
    /\ At(i, "writing")
    /\ IF ok THEN conns[i].link # "reset" ELSE conns[i].link # "up"
    /\ Goto(i, IF ok THEN "handling" ELSE "ending")
    /\ UNCHANGED <<session_table, terminated, v6, m, shared>>

\* All messages are handled, and the endpoint is asked for again to log it.
BatchDone(i) ==
    /\ At(i, "handling") /\ conns[i].lst = <<>>
    /\ Terminate(conns[i].link = "reset")
    /\ Goto(i, "reading")
    /\ UNCHANGED <<session_table, v6, m, shared>>

DestroyKept(i) ==          \* mutant: the entry is not erased
    /\ At(i, "ending") /\ Unlocked
    /\ conns' = [conns EXCEPT ![i].pc = "gone", ![i].link = "closed", ![i].lst = <<>>]
    /\ UNCHANGED <<session_table, terminated, v6, m, shared>>

DestroyUnlocked(i) ==      \* mutant: without the mutex
    /\ At(i, "ending")
    /\ session_table' = session_table \ {conns[i].endp}
    /\ conns' = [conns EXCEPT ![i].pc = "gone", ![i].link = "closed", ![i].lst = <<>>]
    /\ UNCHANGED <<terminated, v6, m, shared>>

\* The coroutine has returned, the last shared_ptr is released: ~Session waits
\* for the mutex, erases the entry of its endpoint, whose ever it is, and closes
\* the connection.
Destroy(i) ==
    /\ At(i, "ending") /\ Unlocked
    /\ session_table' = session_table \ {conns[i].endp}
    /\ conns' = [conns EXCEPT ![i].pc = "gone", ![i].link = "closed", ![i].lst = <<>>]
    /\ UNCHANGED <<terminated, v6, m, shared>>

-----------------------------------------------------------------------------
Init ==
    /\ conns = <<>>
    /\ session_table = {}
    /\ terminated = FALSE
    /\ v6 \in BOOLEAN
    /\ m = 0
    /\ shared = {}

Batches == BoundedSeq(Types, MaxBatch)

Next ==
    \/ \E e \in Endpoints : Connect(e)
    \/ \E i \in DOMAIN conns :
         \/ \E how \in Links : Leave(i, how)
         \/ Accept(i)
         \/ AcceptV6(i)
         \/ \E thrown \in BOOLEAN : AcceptReset(i, thrown)
         \/ \E ok \in BOOLEAN : Accepted(i, ok)
         \/ \E lst \in Batches : Read(i, lst)
         \/ ReadMalformed(i)
         \/ ReadEnds(i)
         \/ \E survives \in BOOLEAN : HandleMessage(i, survives)
         \/ ListPeersLocks(i)
         \/ \E e \in Endpoints : ListPeersTurn(i, e)
         \/ ListPeersUnlocks(i)
         \/ \E ok \in BOOLEAN : Written(i, ok)
         \/ BatchDone(i)
         \/ Destroy(i)

Spec == Init /\ [][Next]_vars

\* The step that the coroutine of i is due to take, but for what a read yields:
\* one that needs the mutex, or one that does not.
Locks(i) == Accept(i) \/ AcceptV6(i) \/ ListPeersLocks(i) \/ Destroy(i)
Proceed(i) ==
    \/ \E thrown \in BOOLEAN : AcceptReset(i, thrown)
    \/ \E ok \in BOOLEAN : Accepted(i, ok)
    \/ \E survives \in BOOLEAN : HandleMessage(i, survives)
    \/ \E e \in Endpoints : ListPeersTurn(i, e)
    \/ ListPeersUnlocks(i)
    \/ \E ok \in BOOLEAN : Written(i, ok)
    \/ BatchDone(i)

\* The threads run what is ready, and a thread that waits for the mutex gets it
\* in the end.  A handshake, and a write, ends by its timeout at the latest, and
\* so does a read from a client that has gone, once the little that it had sent
\* is read.  Nothing makes a client do anything.
Fairness ==
    \A i \in 1 .. MaxConns :
        /\ WF_vars(i \in DOMAIN conns /\ Proceed(i))
        /\ SF_vars(i \in DOMAIN conns /\ Locks(i))
        /\ SF_vars(i \in DOMAIN conns /\ ReadEnds(i))

FairSpec == Spec /\ Fairness

-----------------------------------------------------------------------------
(* Properties *)

\* Every variable has its type.
TypeOK ==
    /\ conns \in BoundedSeq(Connection, MaxConns)
    /\ session_table \subseteq Endpoints
    /\ terminated \in BOOLEAN /\ v6 \in BOOLEAN
    /\ m \in 0 .. MaxConns
    /\ shared \subseteq 1 .. MaxConns

\* The table that LIST_PEERS reads names no endpoint whose session is gone, and
\* names the endpoint of every session, whatever coroutines construct and
\* destroy at the same time: unless a client has come back from the same port
\* before its old session was destroyed, whose destructor then unlists it.
TableAccurate ==
    /\ \A e \in session_table : SessionsOf(e) # {}
    /\ \A i \in Sessions \ shared : conns[i].endp \in session_table

\* While a coroutine walks the table for LIST_PEERS, on whatever thread, no
\* session enters the table or leaves it: the entries that are ahead of its
\* iterator are still there, and what it has listed and what is ahead make up
\* the table, each entry once.
WalkValid ==
    \A i \in DOMAIN conns : conns[i].pc = "walking" =>
        /\ conns[i].ahead \cup conns[i].peer_list = session_table
        /\ conns[i].ahead \cap conns[i].peer_list = {}

\* No connection from e is up.
Gone(e) == \A i \in DOMAIN conns : conns[i].endp = e => conns[i].link # "up"

\* The entry of a client that has gone, without a word even, is erased in the
\* end, unless it comes back or the process has died.
Forgotten ==
    \A e \in Endpoints :
        Gone(e) ~> terminated \/ e \notin session_table \/ ~Gone(e)
=============================================================================
