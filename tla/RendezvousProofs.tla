-------------------------- MODULE RendezvousProofs --------------------------
(***************************************************************************)
(* Proofs about Rendezvous, for any number of clients, any timeout and any *)
(* number of requests lost in a row: the two tables of the server hold the *)
(* same peers, and a client that keeps asking is not taken for dead.  The  *)
(* second one rests on AgeBound: the age of a peer is paid for by requests *)
(* that were lost, but for the one that is on its way.                     *)
(***************************************************************************)
EXTENDS Rendezvous, TLAPS

\* What a client adds to its age while its next request is due or in flight.
OnItsWay(c) == IF c \in due \cup requests THEN 1 ELSE 0

\* As long as the server receives, the last beat of a client that runs is as
\* many periods old as requests have been lost since, and one more at most.
AgeBound ==
    Server \in receiving =>
        \A c \in running \cap heard : age[c] <= lost[c] + OnItsWay(c)

\* The inductive invariant.
Inv == TypeOK /\ TablesAgree /\ AgeBound

\* More than the requests that can be lost in a row go out before a peer may be
\* taken for dead.  The constants of the code allow for four lost requests: a
\* request every 5 s (service.cpp), a timeout of 30 s (sml.cpp).
LossBound == MaxLost + 1 < Timeout

-----------------------------------------------------------------------------
\* The initial state satisfies the invariant.
LEMMA InitInv == Init => Inv
BY ConstantsAssumption DEF Init, Inv, TypeOK, TablesAgree, AgeBound

\* service's constructor, destruction and timer keep the invariant.
LEMMA ClientInv ==
    ASSUME Inv, NEW c \in Clients, Start(c) \/ Stop(c) \/ QueryServer(c)
    PROVE  Inv'
<1>. USE ConstantsAssumption DEF Inv
<1>1. CASE Start(c)
  <2>1. TypeOK'
    BY <1>1 DEF TypeOK, Start, server
  <2>2. TablesAgree'
    BY <1>1 DEF TablesAgree, Start, server
  <2>3. AgeBound'
    BY <1>1 DEF TypeOK, AgeBound, OnItsWay, Start, server
  <2>. QED
    BY <2>1, <2>2, <2>3
<1>2. CASE Stop(c)
  <2>1. TypeOK'
    BY <1>2 DEF TypeOK, Stop, server
  <2>2. TablesAgree'
    BY <1>2 DEF TablesAgree, Stop, server
  <2>3. AgeBound'
    BY <1>2 DEF TypeOK, AgeBound, OnItsWay, Stop, server
  <2>. QED
    BY <2>1, <2>2, <2>3
<1>3. CASE QueryServer(c)
  <2>1. TypeOK'
    BY <1>3 DEF TypeOK, QueryServer, server
  <2>2. TablesAgree'
    BY <1>3 DEF TablesAgree, QueryServer, server
  <2>3. AgeBound'
    BY <1>3 DEF TypeOK, AgeBound, OnItsWay, QueryServer, server
  <2>. QED
    BY <2>1, <2>2, <2>3
<1>. QED
  BY <1>1, <1>2, <1>3

\* handle_client_request keeps the invariant: c is entered in both tables or in
\* neither, and what is found dead leaves both.
LEMMA ReceiveRequestInv ==
    ASSUME Inv, NEW c \in Clients, NEW dead \in SUBSET Clients, ReceiveRequest(c, dead)
    PROVE  Inv'
<1>. USE ConstantsAssumption DEF Inv
<1>1. TypeOK'
  BY DEF TypeOK, ReceiveRequest, Entered, Beat, Answer, client
<1>2. TablesAgree'
  BY DEF TablesAgree, ReceiveRequest, Entered
<1>3. AgeBound'
  BY DEF TypeOK, AgeBound, OnItsWay, ReceiveRequest, Beat, client
<1>. QED
  BY <1>1, <1>2, <1>3

\* What the network does, and the passing of time, keep the invariant.
LEMMA NetworkInv ==
    ASSUME Inv,
           \/ \E a \in answers : ReceiveAnswer(a) \/ LoseAnswer(a)
           \/ \E c \in Clients : LoseRequest(c)
           \/ \E x \in Failing : ReceiveFails(x)
           \/ Tick
    PROVE  Inv'
<1>. USE ConstantsAssumption DEF Inv
<1>1. ASSUME NEW a \in answers, ReceiveAnswer(a) PROVE Inv'
  <2>1. a.to \in Watched /\ a.about \in Clients
    BY DEF TypeOK, Answer
  <2>2. TypeOK'
    BY <1>1, <2>1 DEF TypeOK, ReceiveAnswer, server
  <2>3. (TablesAgree /\ AgeBound)'
    BY <1>1 DEF TablesAgree, AgeBound, OnItsWay, ReceiveAnswer, server
  <2>. QED
    BY <2>2, <2>3
<1>2. ASSUME NEW a \in answers, LoseAnswer(a) PROVE Inv'
  BY <1>2 DEF TypeOK, TablesAgree, AgeBound, OnItsWay, LoseAnswer, client, server
<1>3. ASSUME NEW c \in Clients, LoseRequest(c) PROVE Inv'
  <2>1. TypeOK'
    BY <1>3 DEF TypeOK, LoseRequest, client, server
  <2>2. AgeBound'
    BY <1>3 DEF TypeOK, AgeBound, OnItsWay, LoseRequest, client, server
  <2>. QED
    BY <1>3, <2>1, <2>2 DEF TablesAgree, LoseRequest, server
<1>4. ASSUME NEW x \in Failing, ReceiveFails(x) PROVE Inv'
  BY <1>4 DEF TypeOK, TablesAgree, AgeBound, OnItsWay, ReceiveFails, client, server
<1>5. ASSUME Tick PROVE Inv'
  <2>1. TypeOK'
    BY <1>5 DEF TypeOK, Tick, Dead, network
  <2>2. AgeBound'
    BY <1>5 DEF TypeOK, AgeBound, OnItsWay, Tick, network
  <2>. QED
    BY <1>5, <2>1, <2>2 DEF TablesAgree, Tick
<1>. QED
  BY <1>1, <1>2, <1>3, <1>4, <1>5

-----------------------------------------------------------------------------
\* The invariant holds of every behaviour of the clients and the server.
THEOREM RendezvousInvariant == Spec => []Inv
<1>1. Inv /\ [Next]_vars => Inv'
  <2>. SUFFICES ASSUME Inv, [Next]_vars PROVE Inv'
    OBVIOUS
  <2>1. ASSUME UNCHANGED vars PROVE Inv'
    BY <2>1 DEF vars, client, server, network, Inv, TypeOK, TablesAgree, AgeBound, OnItsWay
  <2>2. ASSUME Next PROVE Inv'
    BY <2>2, ClientInv, ReceiveRequestInv, NetworkInv DEF Next
  <2>. QED
    BY <2>1, <2>2
<1>. QED
  BY <1>1, InitInv, PTL DEF Spec

\* Every variable keeps its type.
THEOREM RendezvousTypeOK == Spec => []TypeOK
<1>1. Inv => TypeOK
  BY DEF Inv
<1>. QED
  BY <1>1, RendezvousInvariant, PTL

\* peer_endpoint_bm_ and live_peers_ (sml.cpp) hold the same peers, after any
\* sequence of expiries and returns.
THEOREM RendezvousTablesAgree == Spec => []TablesAgree
<1>1. Inv => TablesAgree
  BY DEF Inv
<1>. QED
  BY <1>1, RendezvousInvariant, PTL

-----------------------------------------------------------------------------
\* A peer that may be taken for dead runs no more, or has not been heard since
\* it was started: with AgeBound, too many of its requests were lost.
LEMMA NotFoundDead ==
    ASSUME LossBound, Inv, NEW c \in Clients, NEW dead \in SUBSET Clients,
           ReceiveRequest(c, dead), NEW p \in running \cap heard', p \in dead
    PROVE  FALSE
<1>. USE ConstantsAssumption DEF Inv
<1>1. Beat(c)[p] >= Timeout
  BY DEF ReceiveRequest, FoundDead, MaybeDead
<1>2. p # c /\ age[p] >= Timeout
  BY <1>1 DEF Beat, TypeOK
<1>3. age[p] <= lost[p] + 1
  BY <1>2 DEF ReceiveRequest, AgeBound, OnItsWay, TypeOK
<1>. QED
  BY <1>2, <1>3 DEF TypeOK, LossBound

\* If no more requests are lost in a row than LossBound says, a client that runs
\* and has been heard since its start stays in live_peers_ (sml.cpp), whoever
\* asks and however the others come and go.
THEOREM RendezvousStaysListed == ASSUME LossBound PROVE Spec => []StaysListed
<1>1. Init => StaysListed
  BY DEF Init, StaysListed
<1>2. ASSUME Inv, StaysListed, [Next]_vars PROVE StaysListed'
  <2>. USE <1>2 DEF StaysListed
  <2>1. ASSUME NEW c \in Clients, NEW dead \in SUBSET Clients, ReceiveRequest(c, dead)
        PROVE  StaysListed'
    <3>1. c \in Entered(c)
      BY DEF Entered, Inv, TablesAgree
    <3>2. running' \cap heard' \subseteq Entered(c)
      BY <2>1, <3>1 DEF ReceiveRequest, Entered, client
    <3>3. running' = running
      BY <2>1 DEF ReceiveRequest, client
    <3>. QED
      BY <2>1, <3>2, <3>3, NotFoundDead DEF ReceiveRequest
  <2>2. ASSUME NEW c \in Clients, Start(c) \/ Stop(c) \/ QueryServer(c) \/ LoseRequest(c)
        PROVE  StaysListed'
    BY <2>2 DEF Start, Stop, QueryServer, LoseRequest, client, server
  <2>3. ASSUME NEW a \in answers, ReceiveAnswer(a) \/ LoseAnswer(a) PROVE StaysListed'
    BY <2>3 DEF ReceiveAnswer, LoseAnswer, client, server
  <2>4. ASSUME NEW x \in Failing, ReceiveFails(x) PROVE StaysListed'
    BY <2>4 DEF ReceiveFails, client, server
  <2>5. ASSUME Tick PROVE StaysListed'
    BY <2>5 DEF Tick
  <2>6. ASSUME UNCHANGED vars PROVE StaysListed'
    BY <2>6 DEF vars, client, server
  <2>. QED
    BY <2>1, <2>2, <2>3, <2>4, <2>5, <2>6 DEF Next
<1>. QED
  BY <1>1, <1>2, RendezvousInvariant, PTL DEF Spec
=============================================================================
