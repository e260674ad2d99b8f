--------------------------- MODULE WsServerProofs ---------------------------
(***************************************************************************)
(* Proofs about WsServer, for any number of connections, endpoints and     *)
(* messages: the session table is accurate but for clients that came back  *)
(* early, and the mutex keeps it still while a coroutine walks it.         *)
(***************************************************************************)
EXTENDS WsServer, TLAPS

\* Sessions that have their endpoint in common are noted in shared, so that the
\* destructor of one cannot unlist another one that is not.
SharedSound ==
    \A i, j \in Sessions : i # j /\ conns[i].endp = conns[j].endp => i \in shared

\* A coroutine that walks the table holds the mutex and is at a message.
WalkerLocks ==
    \A i \in DOMAIN conns :
        conns[i].pc = "walking" => m = i /\ conns[i].lst # <<>>

\* The inductive invariant.
Inv == TypeOK /\ SharedSound /\ TableAccurate /\ WalkerLocks /\ WalkValid

-----------------------------------------------------------------------------
(* Bounded sequences *)

\* The empty sequence is a bounded sequence.
LEMMA BoundedEmpty ==
    ASSUME NEW S, NEW n \in Nat
    PROVE  <<>> \in BoundedSeq(S, n)
BY DEF BoundedSeq, SeqOf

\* A bounded sequence is a function on 1 .. m for an m up to the bound.
LEMMA BoundedIs ==
    ASSUME NEW S, NEW n \in Nat, NEW s \in BoundedSeq(S, n)
    PROVE  /\ s \in Seq(S) /\ Len(s) \in 0 .. n
           /\ DOMAIN s = 1 .. Len(s)
           /\ s \in [1 .. Len(s) -> S]
BY DEF BoundedSeq, SeqOf

\* What stays a bounded sequence.
LEMMA BoundedMakes ==
    ASSUME NEW S, NEW n \in Nat, NEW s \in Seq(S), Len(s) <= n
    PROVE  s \in BoundedSeq(S, n)
BY DEF BoundedSeq, SeqOf

\* The connections after one of them changed.
LEMMA OneChanged ==
    ASSUME TypeOK, NEW i \in DOMAIN conns, NEW r \in Connection,
           conns' = [conns EXCEPT ![i] = r]
    PROVE  /\ conns' \in BoundedSeq(Connection, MaxConns)
           /\ DOMAIN conns' = DOMAIN conns
           /\ conns'[i] = r
           /\ \A j \in DOMAIN conns : j # i => conns'[j] = conns[j]
<1>1. conns \in [1 .. Len(conns) -> Connection] /\ Len(conns) \in 0 .. MaxConns
  BY BoundedIs, ConstantsAssumption DEF TypeOK
<1>2. conns' \in [1 .. Len(conns) -> Connection]
  BY <1>1
<1>. QED
  BY <1>1, <1>2 DEF BoundedSeq, SeqOf

\* The messages that are left once the first one is handled.
LEMMA BoundedTail ==
    ASSUME NEW S, NEW n \in Nat, NEW s \in BoundedSeq(S, n), s # <<>>
    PROVE  Tail(s) \in BoundedSeq(S, n)
<1>1. s \in Seq(S) /\ Len(s) \in 0 .. n
  BY BoundedIs
<1>2. Tail(s) \in Seq(S) /\ Len(Tail(s)) <= n
  BY <1>1
<1>. QED
  BY <1>2, BoundedMakes

-----------------------------------------------------------------------------
(* Steps *)

\* The initial state satisfies the invariant.
LEMMA InitInv == Init => Inv
<1>. SUFFICES ASSUME Init PROVE Inv
  OBVIOUS
<1>0. conns \in BoundedSeq(Connection, MaxConns) /\ 0 \in 0 .. MaxConns
  BY BoundedEmpty, ConstantsAssumption DEF Init
<1>1. TypeOK
  BY <1>0 DEF Init, TypeOK
<1>2. Sessions = {}
  BY DEF Init, Sessions
<1>. QED
  BY <1>1, <1>2
     DEF Init, Inv, SharedSound, TableAccurate, WalkerLocks, WalkValid

\* While nobody holds the mutex nobody walks.
LEMMA NobodyWalks ==
    ASSUME Inv, Unlocked
    PROVE  \A j \in DOMAIN conns : conns[j].pc # "walking"
<1>1. \A j \in DOMAIN conns : j # 0
  BY BoundedIs, ConstantsAssumption DEF Inv, TypeOK
<1>. QED
  BY <1>1 DEF Inv, WalkerLocks, Unlocked

\* A step of a connection that has a session and keeps it, or has none and gets
\* none, and walks only with the mutex: the table and what it says stay.
LEMMA Moves ==
    ASSUME Inv, NEW i \in DOMAIN conns, NEW r \in Connection,
           conns' = [conns EXCEPT ![i] = r],
           r.endp = conns[i].endp,
           r.pc \in {"backlog", "gone"} <=> conns[i].pc \in {"backlog", "gone"},
           r.pc = "walking" => /\ m' = i /\ r.lst # <<>>
                               /\ r.ahead \cup r.peer_list = session_table
                               /\ r.ahead \cap r.peer_list = {},
           \A j \in DOMAIN conns : j # i /\ conns[j].pc = "walking" => m' = m,
           UNCHANGED <<session_table, v6, shared>>,
           terminated' \in BOOLEAN, m' \in 0 .. MaxConns
    PROVE  Inv'
<1>1. /\ conns' \in BoundedSeq(Connection, MaxConns)
      /\ DOMAIN conns' = DOMAIN conns
      /\ conns'[i] = r
      /\ \A j \in DOMAIN conns : j # i => conns'[j] = conns[j]
  BY OneChanged DEF Inv
<1>2. TypeOK'
  BY <1>1 DEF Inv, TypeOK
<1>3. \A j \in DOMAIN conns : conns'[j].endp = conns[j].endp
  BY <1>1
<1>4. Sessions' = Sessions
  BY <1>1 DEF Sessions
<1>5. SharedSound'
  BY <1>3, <1>4 DEF Inv, SharedSound, Sessions
<1>6. TableAccurate'
  BY <1>3, <1>4 DEF Inv, TableAccurate, SessionsOf, Sessions
<1>7. WalkerLocks'
  BY <1>1 DEF Inv, WalkerLocks
<1>8. WalkValid'
  BY <1>1 DEF Inv, WalkValid
<1>. QED
  BY <1>2, <1>5, <1>6, <1>7, <1>8 DEF Inv

\* A connection is a record of its type.
LEMMA ConnectionIs ==
    ASSUME TypeOK, NEW i \in DOMAIN conns
    PROVE  conns[i] \in Connection
BY BoundedIs, ConstantsAssumption DEF TypeOK

\* A connection from e: its endpoint has no session yet.
LEMMA ConnectInv ==
    ASSUME Inv, NEW e \in Endpoints, Connect(e)
    PROVE  Inv'
<1>. DEFINE old(i) == IF conns[i].endp = e /\ conns[i].pc # "gone"
                      THEN [conns[i] EXCEPT !.link = "reset"] ELSE conns[i]
            olds == [i \in DOMAIN conns |-> old(i)]
            new == [endp |-> e, link |-> "up", pc |-> "backlog", lst |-> <<>>,
                    ahead |-> {}, peer_list |-> {}]
<1>1. conns' = Append(olds, new)
  BY DEF Connect
<1>2. new \in Connection
  BY BoundedEmpty, ConstantsAssumption DEF Connection, Links, Labels
<1>3. \A i \in DOMAIN conns : old(i) \in Connection
  BY ConnectionIs DEF Inv, Connection, Links
<1>4. /\ Len(conns) \in Nat /\ DOMAIN conns = 1 .. Len(conns)
      /\ Len(conns) < MaxConns
  BY BoundedIs, ConstantsAssumption DEF Inv, TypeOK, Connect
<1>5. olds \in Seq(Connection) /\ Len(olds) = Len(conns)
  BY <1>3, <1>4
<1>. HIDE DEF olds, new
<1>6. conns' \in Seq(Connection) /\ Len(conns') = Len(conns) + 1
  BY <1>1, <1>2, <1>5, <1>4
<1>7. conns' \in BoundedSeq(Connection, MaxConns)
  BY <1>4, <1>6, BoundedMakes, ConstantsAssumption
<1>8. TypeOK'
  BY <1>7 DEF Inv, TypeOK, Connect
<1>9. /\ DOMAIN conns' = DOMAIN conns \cup {Len(conns) + 1}
      /\ \A i \in DOMAIN conns : conns'[i] = old(i)
      /\ conns'[Len(conns) + 1] = new
  <2>1. DOMAIN conns' = 1 .. Len(conns) + 1
    BY <1>4, <1>6
  <2>2. \A i \in 1 .. Len(olds) : Append(olds, new)[i] = olds[i]
    BY <1>2, <1>5
  <2>3. Append(olds, new)[Len(olds) + 1] = new
    BY <1>2, <1>5
  <2>. QED
    BY <1>1, <1>4, <1>5, <2>1, <2>2, <2>3 DEF olds
<1>10. /\ \A i \in DOMAIN conns : conns'[i].endp = conns[i].endp /\ conns'[i].pc = conns[i].pc
       /\ conns'[Len(conns) + 1].pc = "backlog"
  BY <1>9, ConnectionIs DEF new, Inv, Connection
<1>11. Sessions' = Sessions
  BY <1>9, <1>10 DEF Sessions
<1>12. SharedSound'
  BY <1>10, <1>11 DEF Inv, SharedSound, Sessions, Connect
<1>13. TableAccurate'
  <2>1. \A i \in Sessions : conns'[i].endp = conns[i].endp
    BY <1>10 DEF Sessions
  <2>2. \A f : SessionsOf(f)' = SessionsOf(f)
    BY <1>11, <2>1 DEF SessionsOf
  <2>. QED
    BY <1>11, <2>1, <2>2 DEF Inv, TableAccurate, Connect
<1>14. \A i \in DOMAIN conns : /\ conns'[i].lst = conns[i].lst
                                /\ conns'[i].ahead = conns[i].ahead
                                /\ conns'[i].peer_list = conns[i].peer_list
  BY <1>9, ConnectionIs DEF Inv, Connection
<1>15. WalkerLocks' /\ WalkValid'
  BY <1>9, <1>10, <1>14 DEF Inv, WalkerLocks, WalkValid, Connect
<1>. QED
  BY <1>8, <1>12, <1>13, <1>15 DEF Inv

\* The constructor of Session lists the endpoint, and the sessions that have it
\* already are noted together with the new one.
LEMMA AcceptInv ==
    ASSUME Inv, NEW i \in DOMAIN conns, Accept(i)
    PROVE  Inv'
<1>. DEFINE r == [conns[i] EXCEPT !.pc = "accepting"]
            e == conns[i].endp
<1>1. conns[i] \in Connection /\ r \in Connection /\ r.endp = e /\ e \in Endpoints
  BY ConnectionIs DEF Inv, Connection, Labels
<1>2. conns' = [conns EXCEPT ![i] = r] /\ conns[i].pc = "backlog" /\ ~terminated'
  BY <1>1 DEF Accept, Goto, Oldest, At
<1>3. /\ conns' \in BoundedSeq(Connection, MaxConns)
      /\ DOMAIN conns' = DOMAIN conns
      /\ conns'[i] = r
      /\ \A j \in DOMAIN conns : j # i => conns'[j] = conns[j]
  BY <1>1, <1>2, OneChanged DEF Inv
<1>4. \A j \in DOMAIN conns : conns'[j].endp = conns[j].endp
  BY <1>1, <1>3
<1>5. Sessions' = Sessions \cup {i} /\ i \notin Sessions
  BY <1>1, <1>2, <1>3 DEF Sessions
<1>6. /\ session_table' = session_table \cup {e}
      /\ shared' = IF SessionsOf(e) = {} THEN shared ELSE shared \cup SessionsOf(e) \cup {i}
  BY DEF Accept
<1>7. DOMAIN conns \subseteq 1 .. MaxConns
  BY BoundedIs, ConstantsAssumption DEF Inv, TypeOK
<1>8. TypeOK'
  BY <1>1, <1>3, <1>6, <1>7 DEF Inv, TypeOK, SessionsOf, Sessions, Accept
<1>9. SharedSound'
  BY <1>4, <1>5, <1>6 DEF Inv, SharedSound, SessionsOf, Sessions
<1>10. TableAccurate'
  BY <1>4, <1>5, <1>6 DEF Inv, TableAccurate, SessionsOf, Sessions
<1>11. \A j \in DOMAIN conns' : conns'[j].pc # "walking"
  <2>1. r.pc = "accepting"
    BY <1>1 DEF Connection
  <2>2. \A j \in DOMAIN conns : conns[j].pc # "walking"
    BY NobodyWalks DEF Accept
  <2>. HIDE DEF r
  <2>. QED
    BY <1>3, <2>1, <2>2
<1>. QED
  BY <1>8, <1>9, <1>10, <1>11 DEF Inv, WalkerLocks, WalkValid

\* ~Session unlists its endpoint: of the sessions that are left only one that
\* is noted in shared can have it.
LEMMA DestroyInv ==
    ASSUME Inv, NEW i \in DOMAIN conns, Destroy(i)
    PROVE  Inv'
<1>. DEFINE r == [conns[i] EXCEPT !.pc = "gone", !.link = "closed", !.lst = <<>>]
            e == conns[i].endp
<1>1. conns[i] \in Connection /\ r \in Connection /\ r.endp = e /\ r.pc = "gone"
  BY ConnectionIs, BoundedEmpty, ConstantsAssumption DEF Inv, Connection, Labels, Links
<1>2. conns' = [conns EXCEPT ![i] = r] /\ conns[i].pc = "ending" /\ ~terminated'
  BY <1>1 DEF Destroy, At
<1>3. /\ conns' \in BoundedSeq(Connection, MaxConns)
      /\ DOMAIN conns' = DOMAIN conns
      /\ conns'[i] = r
      /\ \A j \in DOMAIN conns : j # i => conns'[j] = conns[j]
  BY <1>1, <1>2, OneChanged DEF Inv
<1>4. \A j \in DOMAIN conns : conns'[j].endp = conns[j].endp
  BY <1>1, <1>3
<1>5. Sessions' = Sessions \ {i} /\ i \in Sessions
  BY <1>1, <1>2, <1>3 DEF Sessions
<1>6. session_table' = session_table \ {e} /\ shared' = shared
  BY DEF Destroy
<1>7. TypeOK'
  BY <1>3, <1>6 DEF Inv, TypeOK, Destroy
<1>8. SharedSound'
  BY <1>4, <1>5, <1>6 DEF Inv, SharedSound, Sessions
<1>9. TableAccurate'
  BY <1>4, <1>5, <1>6 DEF Inv, TableAccurate, SharedSound, SessionsOf, Sessions
<1>10. \A j \in DOMAIN conns' : conns'[j].pc # "walking"
  BY <1>1, <1>3, NobodyWalks DEF Destroy
<1>. QED
  BY <1>7, <1>8, <1>9, <1>10 DEF Inv, WalkerLocks, WalkValid

\* The steps of a session, and of a client, that leave the table alone.
LEMMA SessionInv ==
    ASSUME Inv, NEW i \in DOMAIN conns,
           \/ \E how \in Links : Leave(i, how)
           \/ \E thrown \in BOOLEAN : AcceptReset(i, thrown)
           \/ \E ok \in BOOLEAN : Accepted(i, ok) \/ Written(i, ok)
           \/ \E lst \in Batches : Read(i, lst)
           \/ ReadEnds(i)
           \/ \E survives \in BOOLEAN : HandleMessage(i, survives)
           \/ BatchDone(i)
    PROVE  Inv'
<1>. USE DEF Inv
<1>1. /\ conns[i] \in Connection
      /\ conns[i].endp \in Endpoints /\ conns[i].link \in Links /\ conns[i].pc \in Labels
      /\ conns[i].lst \in Batches
  BY ConnectionIs DEF Connection, Batches
<1>2. ASSUME NEW how \in Links, Leave(i, how) PROVE Inv'
  <2>1. [conns[i] EXCEPT !.link = how] \in Connection
    BY <1>1 DEF Connection, Batches
  <2>2. conns' = [conns EXCEPT ![i] = [conns[i] EXCEPT !.link = how]]
    BY <1>2 DEF Leave
  <2>. QED
    BY <1>1, <1>2, <2>1, <2>2, Moves
       DEF Leave, TypeOK, Connection, WalkerLocks, WalkValid
<1>3. ASSUME NEW thrown \in BOOLEAN, AcceptReset(i, thrown) PROVE Inv'
  <2>1. [conns[i] EXCEPT !.pc = "gone"] \in Connection
    BY <1>1 DEF Connection, Batches, Labels
  <2>2. conns' = [conns EXCEPT ![i] = [conns[i] EXCEPT !.pc = "gone"]]
    BY <1>3 DEF AcceptReset, Goto
  <2>. QED
    BY <1>1, <1>3, <2>1, <2>2, Moves
       DEF AcceptReset, Oldest, At, Terminate, TypeOK, Connection
<1>4. ASSUME NEW l \in {"accepting", "reading", "handling", "writing", "ending"},
             conns[i].pc \notin {"backlog", "gone"}, Goto(i, l),
             UNCHANGED <<session_table, v6, m, shared>>, terminated' \in BOOLEAN
      PROVE  Inv'
  <2>1. [conns[i] EXCEPT !.pc = l] \in Connection
    BY <1>1 DEF Connection, Batches, Labels
  <2>2. conns' = [conns EXCEPT ![i] = [conns[i] EXCEPT !.pc = l]]
    BY <1>4 DEF Goto
  <2>. QED
    BY <1>1, <1>4, <2>1, <2>2, Moves DEF TypeOK, Connection
<1>5. ASSUME NEW ok \in BOOLEAN, Accepted(i, ok) PROVE Inv'
  BY <1>4, <1>5 DEF Accepted, At, TypeOK
<1>6. ASSUME NEW ok \in BOOLEAN, Written(i, ok) PROVE Inv'
  BY <1>4, <1>6 DEF Written, At, TypeOK
<1>7. ASSUME ReadEnds(i) PROVE Inv'
  BY <1>4, <1>7 DEF ReadEnds, At, TypeOK
<1>8. ASSUME NEW lst \in Batches, Read(i, lst) PROVE Inv'
  <2>1. [conns[i] EXCEPT !.pc = "handling", !.lst = lst] \in Connection
    BY <1>1 DEF Connection, Batches, Labels
  <2>2. conns' = [conns EXCEPT ![i] = [conns[i] EXCEPT !.pc = "handling", !.lst = lst]]
    BY <1>1, <1>8 DEF Read
  <2>. QED
    BY <1>1, <1>8, <2>1, <2>2, Moves DEF Read, At, TypeOK, Connection
<1>9. ASSUME NEW survives \in BOOLEAN, HandleMessage(i, survives) PROVE Inv'
  <2>1. Tail(conns[i].lst) \in Batches
    BY <1>1, <1>9, BoundedTail, ConstantsAssumption DEF HandleMessage, Handles, Batches
  <2>2. [conns[i] EXCEPT !.pc = "writing", !.lst = Tail(@)] \in Connection
    BY <1>1, <2>1 DEF Connection, Batches, Labels
  <2>3. conns' = [conns EXCEPT ![i] = [conns[i] EXCEPT !.pc = "writing", !.lst = Tail(@)]]
    BY <1>1, <1>9 DEF HandleMessage
  <2>. QED
    BY <1>1, <1>9, <2>2, <2>3, Moves
       DEF HandleMessage, Handles, At, Terminate, TypeOK, Connection
<1>10. ASSUME BatchDone(i) PROVE Inv'
  BY <1>4, <1>10 DEF BatchDone, At, Terminate
<1>. QED
  BY <1>2, <1>3, <1>5, <1>6, <1>7, <1>8, <1>9, <1>10

\* Steps that only end the process.
LEMMA DiesInv ==
    ASSUME Inv, NEW i \in DOMAIN conns, ReadMalformed(i) \/ AcceptV6(i)
    PROVE  Inv'
<1>1. UNCHANGED <<conns, session_table, v6, m, shared>> /\ terminated' \in BOOLEAN
  BY DEF ReadMalformed, AcceptV6, Terminate
<1>2. Sessions' = Sessions
  BY <1>1 DEF Sessions
<1>. QED
  BY <1>1, <1>2
     DEF Inv, TypeOK, SharedSound, TableAccurate, SessionsOf, WalkerLocks, WalkValid

\* The walk of LIST_PEERS: it begins with all entries ahead, each turn moves one
\* to the list, and no other coroutine walks at the same time.
LEMMA WalkInv ==
    ASSUME Inv, NEW i \in DOMAIN conns,
           \/ ListPeersLocks(i)
           \/ \E e \in Endpoints : ListPeersTurn(i, e)
           \/ ListPeersUnlocks(i)
    PROVE  Inv'
<1>1. /\ conns[i] \in Connection
      /\ conns[i].lst \in Batches
      /\ conns[i].ahead \in SUBSET Endpoints /\ conns[i].peer_list \in SUBSET Endpoints
  BY ConnectionIs DEF Inv, Connection, Batches
<1>2. i \in 1 .. MaxConns /\ 0 \in 0 .. MaxConns /\ session_table \in SUBSET Endpoints
  BY BoundedIs, ConstantsAssumption DEF Inv, TypeOK
<1>3. /\ \A j \in DOMAIN conns : conns[j].pc = "walking" => m = j
      /\ conns[i].pc = "walking" =>
           /\ conns[i].lst # <<>>
           /\ conns[i].ahead \cup conns[i].peer_list = session_table
           /\ conns[i].ahead \cap conns[i].peer_list = {}
  BY DEF Inv, WalkerLocks, WalkValid
<1>4. CASE ListPeersLocks(i)
  <2>. DEFINE r == [conns[i] EXCEPT !.pc = "walking", !.ahead = session_table,
                                    !.peer_list = {}]
  <2>1. conns' = [conns EXCEPT ![i] = r]
    BY <1>1, <1>4 DEF ListPeersLocks
  <2>2. r \in Connection
    BY <1>1, <1>2 DEF Connection, Labels, Batches
  <2>3. /\ r.endp = conns[i].endp /\ r.pc = "walking" /\ r.lst = conns[i].lst
        /\ r.ahead = session_table /\ r.peer_list = {}
    BY <1>1 DEF Connection
  <2>4. /\ conns[i].pc = "handling" /\ conns[i].lst # <<>>
        /\ m' = i /\ UNCHANGED <<session_table, terminated, v6, shared>>
    BY <1>4 DEF ListPeersLocks, Handles, At
  <2>5. \A j \in DOMAIN conns : conns[j].pc # "walking"
    BY <1>4, NobodyWalks DEF ListPeersLocks
  <2>. HIDE DEF r
  <2>6. r.ahead \cup r.peer_list = session_table /\ r.ahead \cap r.peer_list = {}
    BY <2>3
  <2>7. m' \in 0 .. MaxConns /\ terminated' \in BOOLEAN
    BY <1>2, <2>4, ConstantsAssumption DEF Inv, TypeOK
  <2>. QED
    BY <2>1, <2>2, <2>3, <2>4, <2>5, <2>6, <2>7, Moves
<1>5. ASSUME NEW e \in Endpoints, ListPeersTurn(i, e) PROVE Inv'
  <2>. DEFINE r == [conns[i] EXCEPT !.ahead = @ \ {e}, !.peer_list = @ \cup {e}]
  <2>1. conns' = [conns EXCEPT ![i] = r]
    BY <1>1, <1>5 DEF ListPeersTurn
  <2>2. r \in Connection
    BY <1>1 DEF Connection, Batches
  <2>3. /\ r.endp = conns[i].endp /\ r.pc = conns[i].pc /\ r.lst = conns[i].lst
        /\ r.ahead = conns[i].ahead \ {e} /\ r.peer_list = conns[i].peer_list \cup {e}
    BY <1>1 DEF Connection
  <2>4. /\ conns[i].pc = "walking" /\ e \in conns[i].ahead
        /\ UNCHANGED <<session_table, terminated, v6, m, shared>>
    BY <1>5 DEF ListPeersTurn, At
  <2>. HIDE DEF r
  <2>5. r.ahead \cup r.peer_list = session_table /\ r.ahead \cap r.peer_list = {}
    BY <1>3, <2>3, <2>4
  <2>. QED
    BY <1>3, <2>1, <2>2, <2>3, <2>4, <2>5, Moves DEF Inv, TypeOK
<1>6. CASE ListPeersUnlocks(i)
  <2>. DEFINE r == [conns[i] EXCEPT !.pc = "writing", !.lst = Tail(@), !.peer_list = {}]
  <2>1. conns' = [conns EXCEPT ![i] = r]
    BY <1>1, <1>6 DEF ListPeersUnlocks
  <2>2. conns[i].pc = "walking" /\ m' = 0 /\ UNCHANGED <<session_table, terminated, v6, shared>>
    BY <1>6 DEF ListPeersUnlocks, At
  <2>3. Tail(conns[i].lst) \in Batches
    BY <1>1, <1>3, <2>2, BoundedTail, ConstantsAssumption DEF Batches
  <2>4. r \in Connection
    BY <1>1, <2>3 DEF Connection, Labels, Batches
  <2>5. r.endp = conns[i].endp /\ r.pc = "writing"
    BY <1>1 DEF Connection
  <2>6. \A j \in DOMAIN conns : j # i => conns[j].pc # "walking"
    BY <1>3, <2>2
  <2>. HIDE DEF r
  <2>. QED
    BY <1>2, <2>1, <2>2, <2>4, <2>5, <2>6, Moves DEF Inv, TypeOK
<1>. QED
  BY <1>4, <1>5, <1>6

-----------------------------------------------------------------------------
\* The invariant holds of every behaviour of the server and its clients.
THEOREM WsServerInvariant == Spec => []Inv
<1>1. Inv /\ [Next]_vars => Inv'
  <2>. SUFFICES ASSUME Inv, [Next]_vars PROVE Inv'
    OBVIOUS
  <2>1. ASSUME UNCHANGED vars PROVE Inv'
    BY <2>1 DEF vars, Inv, TypeOK, SharedSound, TableAccurate, Sessions, SessionsOf,
       WalkerLocks, WalkValid
  <2>2. ASSUME Next PROVE Inv'
    BY <2>2, ConnectInv, AcceptInv, DestroyInv, SessionInv, DiesInv, WalkInv DEF Next
  <2>. QED
    BY <2>1, <2>2
<1>. QED
  BY <1>1, InitInv, PTL DEF Spec

\* session_table (WebSocket.cpp) names no endpoint without a session and the
\* endpoint of every session that never shared it, whatever the coroutines do
\* at the same time.
THEOREM WsServerTableAccurate == Spec => []TableAccurate
<1>1. Inv => TableAccurate
  BY DEF Inv
<1>. QED
  BY <1>1, WsServerInvariant, PTL

\* handleLIST_PEERS (WebSocket.cpp) walks a table that stands still: its list and
\* what is ahead of it are the table, although other threads construct and
\* destroy sessions.
THEOREM WsServerWalkValid == Spec => []WalkValid
<1>1. Inv => WalkValid
  BY DEF Inv
<1>. QED
  BY <1>1, WsServerInvariant, PTL
=============================================================================
