----------------------------- MODULE Rendezvous -----------------------------
(***************************************************************************)
(* How clients find each other: the rendezvous server (UdpService of       *)
(* server/sml.cpp on top of server/udp_service.cpp, with the request       *)
(* handler of server/server.cpp) and the part of client/sml/service.cpp    *)
(* that asks it, over UDP.                                                 *)
(*                                                                         *)
(* A client sends a request every period of 5 s.  The server takes it for  *)
(* a sign of life, drops the peers it has not heard of for more than 30 s  *)
(* and answers with one datagram for each peer that is left.  The client   *)
(* gathers the answers and shows them when its timer expires the next time.*)
(*                                                                         *)
(* Time is cut into periods, and an age counts the boundaries passed since *)
(* an event: n of them are more than n - 1 and less than n + 1 periods.    *)
(* An address (endpoint, peer or string) is the client it belongs to.      *)
(* Lists are sets: their order and repetitions are left out.               *)
(***************************************************************************)
EXTENDS Integers

CONSTANTS
    Clients,
    Watched,    \* the clients whose lists are followed; those of the others
                \* have no influence on anything
    Server,
    Timeout,    \* periods after which a silent peer is dead: 30 s / 5 s
    MaxLost,    \* assumption: requests of a client lost in a row
    Failing     \* whose reception may end with an error: clients and Server

ASSUME ConstantsAssumption ==
    /\ Timeout \in Nat \ {0} /\ MaxLost \in Nat
    /\ Watched \subseteq Clients
    /\ Server \notin Clients /\ Failing \subseteq Clients \cup {Server}

VARIABLES
    running,         \* the clients whose service is up
    due,             \* the clients whose timer_ has expired
    peer_list_, new_peer_list_,   \* of the watched clients
    bimap,           \* the peers in peer_endpoint_bm_
    live_peers_,     \* of the server
    age,             \* boundaries since last_beat_ of the peer for a client
    requests,        \* the clients whose request is in flight
    answers,         \* answers to watched clients, in to_be_sent_ or in flight
    receiving,       \* who has a receive pending
    failed,          \* history: who lost it to an error
    lost,            \* how many requests of a client were lost since one came
    heard            \* history: clients the server heard since their start

client == <<running, due, peer_list_, new_peer_list_>>
server == <<bimap, live_peers_, age>>
network == <<requests, answers, receiving, failed, lost>>
vars == <<client, server, network, heard>>

Answer == [to : Watched, about : Clients]

-----------------------------------------------------------------------------
(* The client *)

\* The constructor of service: both lists are empty, the timer expires at once.
Start(c) ==
    /\ c \notin running
    /\ running' = running \cup {c}
    /\ due' = due \cup {c}
    /\ receiving' = receiving \cup {c}
    /\ heard' = heard \ {c}
    /\ UNCHANGED <<peer_list_, new_peer_list_, server, requests, answers, failed, lost>>

\* The process ends, and its state with it.
Stop(c) ==
    /\ c \in running
    /\ running' = running \ {c}
    /\ due' = due \ {c}
    /\ peer_list_' = [w \in Watched |-> IF w = c THEN {} ELSE peer_list_[w]]
    /\ new_peer_list_' = [w \in Watched |-> IF w = c THEN {} ELSE new_peer_list_[w]]
    /\ receiving' = receiving \ {c}
    /\ failed' = failed \ {c}
    /\ UNCHANGED <<server, requests, answers, lost, heard>>

QueryServerKeeps(c) ==       \* mutant: new_peer_list_ is not replaced
    /\ c \in due
    /\ due' = due \ {c}
    /\ peer_list_' = [w \in Watched |->
           IF w = c /\ new_peer_list_[w] # {} THEN new_peer_list_[w] ELSE peer_list_[w]]
    /\ requests' = requests \cup {c}
    /\ UNCHANGED <<running, new_peer_list_, server, answers, receiving, failed, lost, heard>>

\* service::query_server: what was gathered since the last request, if
\* anything, is the peer list now, and the next request goes out.
QueryServer(c) ==
    /\ c \in due
    /\ due' = due \ {c}
    /\ peer_list_' = [w \in Watched |->
           IF w = c /\ new_peer_list_[w] # {} THEN new_peer_list_[w] ELSE peer_list_[w]]
    /\ new_peer_list_' = [w \in Watched |-> IF w = c THEN {} ELSE new_peer_list_[w]]
    /\ requests' = requests \cup {c}
    /\ UNCHANGED <<running, server, answers, receiving, failed, lost, heard>>

ReceiveAnswerOnce(a) ==      \* mutant: start_receive is not called again
    /\ a.to \in receiving
    /\ new_peer_list_' = [new_peer_list_ EXCEPT ![a.to] = @ \cup {a.about}]
    /\ answers' = answers \ {a}
    /\ receiving' = receiving \ {a.to}
    /\ UNCHANGED <<running, due, peer_list_, server, requests, failed, lost, heard>>

\* udp_layer::handle_receive of an answer, which server_datagram_filter takes;
\* the next receive is started.
ReceiveAnswer(a) ==
    /\ a.to \in receiving
    /\ new_peer_list_' = [new_peer_list_ EXCEPT ![a.to] = @ \cup {a.about}]
    /\ answers' = answers \ {a}
    /\ UNCHANGED <<running, due, peer_list_, server, requests, receiving, failed, lost, heard>>

-----------------------------------------------------------------------------
(* The server *)

\* peer::dead for a peer whose last beat was n boundaries ago: surely dead, or
\* dead if the beat came early and is looked at late.
Dead(n) == n > Timeout

MaybeDeadSooner(n) == n >= Timeout - 1   \* mutant: a shorter timeout

MaybeDead(n) == n >= Timeout

\* last_beat_ when c is heard: update(), or the constructor of a new peer.
Beat(c) == [age EXCEPT ![c] = 0]

\* live_peers_ once receive_handler has entered c, if it was not known.
Entered(c) == live_peers_ \cup ({c} \ bimap)

\* May the peers in dead be those that live_peers finds dead?
FoundDead(c, dead) ==
    /\ dead \subseteq {p \in Entered(c) : MaybeDead(Beat(c)[p])}
    /\ {p \in Entered(c) : Dead(Beat(c)[p])} \subseteq dead

ReceiveRequestBimapKept(c, dead) ==  \* mutant: the bimap keeps the dead
    LET listed == Entered(c) \ dead IN
    /\ c \in requests /\ Server \in receiving
    /\ FoundDead(c, dead)
    /\ age' = Beat(c)
    /\ live_peers_' = listed
    /\ bimap' = bimap \cup {c}
    /\ answers' = answers \cup [to : Watched \cap {c}, about : listed]
    /\ requests' = requests \ {c}
    /\ lost' = [lost EXCEPT ![c] = 0]
    /\ heard' = heard \cup {c}
    /\ UNCHANGED <<client, receiving, failed>>

\* udp_service::handle_receive, UdpService::receive_handler and what it
\* signals, handle_client_request: live_peers erases the dead from both tables,
\* and send_message starts one answer to c for each peer that is left.
ReceiveRequest(c, dead) ==
    LET listed == Entered(c) \ dead IN
    /\ c \in requests /\ Server \in receiving
    /\ FoundDead(c, dead)
    /\ age' = Beat(c)
    /\ live_peers_' = listed
    /\ bimap' = (bimap \cup {c}) \ dead
    /\ answers' = answers \cup [to : Watched \cap {c}, about : listed]
    /\ requests' = requests \ {c}
    /\ lost' = [lost EXCEPT ![c] = 0]
    /\ heard' = heard \cup {c}
    /\ UNCHANGED <<client, receiving, failed>>

-----------------------------------------------------------------------------
(* The network and time *)

LoseRequest(c) ==
    /\ c \in requests
    /\ lost[c] < MaxLost \/ Server \notin receiving
    /\ requests' = requests \ {c}
    /\ lost' = [lost EXCEPT ![c] = IF @ < MaxLost THEN @ + 1 ELSE @]
    /\ UNCHANGED <<client, server, answers, receiving, failed, heard>>

LoseAnswer(a) ==
    /\ answers' = answers \ {a}
    /\ UNCHANGED <<client, server, requests, receiving, failed, lost, heard>>

\* handle_receive with an error, at x: start_receive is not called again.
ReceiveFails(x) ==
    /\ x \in receiving
    /\ receiving' = receiving \ {x}
    /\ failed' = failed \cup {x}
    /\ UNCHANGED <<client, server, requests, answers, lost, heard>>

\* A period passes.  The event loops have done what was due in it, and no
\* request is in flight for longer than that; answers may be.
Tick ==
    /\ due = {} /\ requests = {}
    /\ due' = running
    /\ age' = [c \in Clients |-> IF Dead(age[c]) THEN age[c] ELSE age[c] + 1]
    /\ UNCHANGED <<running, peer_list_, new_peer_list_, bimap, live_peers_, network, heard>>

-----------------------------------------------------------------------------
Init ==
    /\ running = {} /\ due = {}
    /\ peer_list_ = [w \in Watched |-> {}]
    /\ new_peer_list_ = [w \in Watched |-> {}]
    /\ bimap = {} /\ live_peers_ = {}
    /\ age = [c \in Clients |-> Timeout + 1]
    /\ requests = {} /\ answers = {}
    /\ receiving = {Server} /\ failed = {}
    /\ lost = [c \in Clients |-> 0]
    /\ heard = {}

Next ==
    \/ \E c \in Clients : Start(c)
    \/ \E c \in Clients : Stop(c)
    \/ \E c \in Clients : QueryServer(c)
    \/ \E a \in answers : ReceiveAnswer(a)
    \/ \E c \in Clients : \E dead \in SUBSET Clients : ReceiveRequest(c, dead)
    \/ \E c \in Clients : LoseRequest(c)
    \/ \E a \in answers : LoseAnswer(a)
    \/ \E x \in Failing : ReceiveFails(x)
    \/ Tick

Spec == Init /\ [][Next]_vars

\* Timers expire, requests are received unless they are lost, and of answers of
\* the same content that come again and again one arrives in the end.
Fairness ==
    /\ WF_vars(Tick)
    /\ \A c \in Clients :
         /\ WF_vars(QueryServer(c))
         /\ WF_vars(LoseRequest(c) \/ \E dead \in SUBSET Clients : ReceiveRequest(c, dead))
    /\ \A w \in Watched, c \in Clients :
         SF_vars([to |-> w, about |-> c] \in answers
                 /\ ReceiveAnswer([to |-> w, about |-> c]))

FairSpec == Spec /\ Fairness

-----------------------------------------------------------------------------
(* Properties *)

\* Every variable has its type.
TypeOK ==
    /\ running \subseteq Clients /\ due \subseteq running
    /\ peer_list_ \in [Watched -> SUBSET Clients]
    /\ new_peer_list_ \in [Watched -> SUBSET Clients]
    /\ bimap \subseteq Clients /\ live_peers_ \subseteq Clients
    /\ age \in [Clients -> 0 .. Timeout + 1]
    /\ requests \subseteq Clients /\ answers \subseteq Answer
    /\ receiving \subseteq running \cup {Server} /\ failed \subseteq Failing
    /\ lost \in [Clients -> 0 .. MaxLost]
    /\ heard \subseteq Clients

\* The two tables of the server hold the same peers, after any sequence of
\* expiries and returns, so that a peer known by its address is also listed.
TablesAgree == bimap = live_peers_

\* A client that runs and has been heard stays in the list, whoever asks, as
\* long as no more than MaxLost of its requests are lost in a row.
StaysListed == running \cap heard \subseteq live_peers_

\* From some time on the clients in R run, no others, and no receive has failed.
Stable(R) == <>[](running = R /\ failed = {})

\* Two clients that keep running find each other, again and again, although
\* answers are lost and a peer list is replaced as a whole.
Discovery ==
    \A R \in SUBSET Clients : Stable(R) =>
        \A w \in Watched \cap R, c \in R : []<>(c \in peer_list_[w])

\* A client that has stopped for good disappears from the peer lists of those
\* who go on asking, although an empty list of answers is ignored.
Forgets ==
    \A R \in SUBSET Clients : Stable(R) =>
        \A w \in Watched \cap R, c \in Clients \ R : <>[](c \notin peer_list_[w])
=============================================================================
