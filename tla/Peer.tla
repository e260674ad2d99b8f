-------------------------------- MODULE Peer --------------------------------
(***************************************************************************)
(* The handshake of client/sml/peer.cpp between two services, and how      *)
(* client/sml/udp_layer.cpp creates, feeds and deletes the peer object     *)
(* each keeps for the other.                                               *)
(*                                                                         *)
(* A peer says hello, exchanges ephemeral public keys, tries the link with *)
(* an echo and is then established: it feeds streams with what arrives and *)
(* encrypts what they send.  Every flight is retransmitted by one timer    *)
(* until an answer cancels it.  Acks are anonymous: create_ack(0, 0).      *)
(*                                                                         *)
(* A peer object is a record, and each member function maps the object and *)
(* a datagram to the object afterwards and the datagrams it sent.  Keys    *)
(* are abstract: an ephemeral key is named by the site that generated it   *)
(* and a generation number, and a shared key is the set of the two         *)
(* ephemeral keys it was computed from.                                    *)
(***************************************************************************)
EXTENDS Integers, FiniteSets, Bags

CONSTANTS
    Sites,         \* the two services
    UserStreams,   \* the stream ids the applications use; never 0
    MaxKeys,       \* bound: ephemeral keys a site generates
    MaxInFlight,   \* bound: datagrams in flight beyond which none is added
    MaxCommands,   \* bound: restarts and commands of a site's application
    Lossy,         \* the types of datagram the network may lose
    Duplicating,   \* the types of datagram the network may duplicate
    EarlyTimeout,  \* may the timer expire while an answer is on its way?
    Lingering,     \* may a datagram be on its way longer than a restart takes?
    Commands       \* what may happen to a site: "add", "add_again", "del" and
                   \* "stream", which its application does, "restart", "fail"

ASSUME SitesAssumption ==
    /\ IsFiniteSet(Sites) /\ Cardinality(Sites) = 2
ASSUME BoundsAssumption ==
    /\ MaxKeys \in Nat /\ MaxInFlight \in Nat /\ MaxCommands \in Nat
ASSUME StreamsAssumption == 0 \notin UserStreams

\* "data" stands for both datagrams of a stream, data and data_ack; the types
\* left out, keep_alive, partial_shared_key and abort, are never sent.
Types == {"hello", "ack", "public_key", "echo", "echo_back", "data"}
ASSUME FaultsAssumption ==
    /\ Lossy \subseteq Types
    /\ Duplicating \subseteq Types
    /\ EarlyTimeout \in BOOLEAN /\ Lingering \in BOOLEAN
    /\ Commands \subseteq {"add", "add_again", "del", "stream", "restart", "fail"}

VARIABLES
    peers,      \* peer_map_ of each site: {} or the set of its one peer object
    fired,      \* datagrams of retransmissions whose wait is over but whose
                \* handler has not run: timer_.cancel() does not reach them
    generated,  \* how many ephemeral keys a site has generated
    commands,   \* how many commands a site has executed
    net         \* the datagrams in flight

vars == <<peers, fired, generated, commands, net>>

-----------------------------------------------------------------------------
(* Datagrams *)

StreamIds == UserStreams \cup {0}
EphemeralKey == Sites \X Nat
Message == [type : Types, id : StreamIds, body : SUBSET EphemeralKey]

\* The creators of datagram.cpp.  Only streams have an id other than 0.
Hello == [type |-> "hello", id |-> 0, body |-> {}]
Ack == [type |-> "ack", id |-> 0, body |-> {}]
PublicKey(epub) == [type |-> "public_key", id |-> 0, body |-> epub]
Echo == [type |-> "echo", id |-> 0, body |-> {}]
EchoBack == [type |-> "echo_back", id |-> 0, body |-> {}]
Data(id, key) == [type |-> "data", id |-> id, body |-> key]

-----------------------------------------------------------------------------
(* The peer object *)

\* The bits of current_state_.
hello_complete == {"sent_hello", "received_hello_ack", "received_hello"}
public_key_exchanged ==
    {"sent_public_key", "received_public_key", "received_public_key_ack"}
established == hello_complete \cup public_key_exchanged \cup {"shared_key_agreement"}
Flags == established \cup {"wait_for_echo"}

Object ==
    [state     : SUBSET Flags,
     handler   : {"none", "hello", "public_key", "echo", "established"},
     timer     : SUBSET Message,       \* the armed retransmission, if any
     epub      : SUBSET EphemeralKey,  \* our ephemeral key
     peer_epub : SUBSET EphemeralKey,  \* the one last received
     key       : SUBSET EphemeralKey,  \* key_ and encrypt_layer_, {} for null
     streams   : SUBSET StreamIds]     \* stream_map_

\* The members before the constructor's body runs.
Blank == [state |-> {}, handler |-> "none", timer |-> {}, epub |-> {},
          peer_epub |-> {}, key |-> {}, streams |-> {}]

\* An object and what it has sent.
Did(p, out) == [p |-> p, out |-> out]

\* send_raw_datagram_with_retransmit: the timer now repeats m, only m.
WithRetransmit(p, m) == [p EXCEPT !.timer = {m}]

\* send_hello
SendHello(p) ==
    [WithRetransmit(p, Hello) EXCEPT !.state = @ \cup {"sent_hello"},
                                     !.handler = "hello"]

\* The constructor.
Constructed == Did(SendHello(Blank), {Hello})

\* hello_complete_handler of q, which has already sent out.
HelloComplete(q, out, k) ==
    Did([WithRetransmit(q, PublicKey({k})) EXCEPT
           !.state = @ \cup {"sent_public_key"},
           !.epub = {k},
           !.handler = "public_key"],
        out \cup {PublicKey({k})})

ReceivedHelloStops(p) ==     \* mutant: a hello is taken for an answer to ours
    [p EXCEPT !.state = @ \cup {"received_hello"}, !.timer = {}]

\* received_hello_handler, without its ack.
ReceivedHello(p) == [p EXCEPT !.state = @ \cup {"received_hello"}]

\* received_hello_ack_handler
ReceivedHelloAck(p) ==
    [p EXCEPT !.state = @ \cup {"received_hello_ack"}, !.timer = {}]

\* hello_handler; k is the key generate_ephemeral_key_pairs would yield.
HelloHandler(p, m, k) ==
    LET q == IF m.type = "hello" THEN ReceivedHello(p) ELSE ReceivedHelloAck(p)
        out == IF m.type = "hello" THEN {Ack} ELSE {}
    IN  CASE m.type \notin {"hello", "ack"} -> Did(p, {})
          [] m.type \in {"hello", "ack"} /\ hello_complete \subseteq q.state ->
               HelloComplete(q, out, k)
          [] OTHER -> Did(q, out)

\* generate_shared_key: the key both sides compute from the two ephemeral ones,
\* if they agree on one (see AgreeFails).
SharedKey(q) == q.epub \cup q.peer_epub

\* public_key_exchange_complete_handler of q, which has already sent out.
PublicKeyComplete(q, out) ==
    Did([WithRetransmit(q, Echo) EXCEPT
           !.key = SharedKey(q),
           !.state = @ \cup {"shared_key_agreement", "wait_for_echo"},
           !.handler = "echo"],
        out \cup {Echo})

PublicKeyAnswersEcho(m) ==   \* mutant: an echo is answered without a key
    CASE m.type \in {"public_key", "hello"} -> {Ack}
      [] m.type = "echo" -> {EchoBack}
      [] OTHER -> {}

\* What public_key_exchange_handler answers at once.
PublicKeyAnswers(m) ==
    IF m.type \in {"public_key", "hello"} THEN {Ack} ELSE {}

PublicKeyHandlerKeeps(p, m) ==   \* mutant: the peer's first key is kept
    LET q == CASE m.type = "public_key" ->
                    [p EXCEPT !.state = @ \cup {"received_public_key"},
                              !.peer_epub = IF @ = {} THEN m.body ELSE @]
               [] m.type = "ack" ->
                    [p EXCEPT !.state = @ \cup {"received_public_key_ack"},
                              !.timer = {}]
               [] OTHER -> p
        out == PublicKeyAnswers(m)
    IN  IF public_key_exchanged \subseteq q.state THEN PublicKeyComplete(q, out)
        ELSE Did(q, out)

\* public_key_exchange_handler
PublicKeyHandler(p, m) ==
    LET q == CASE m.type = "public_key" ->
                    [p EXCEPT !.state = @ \cup {"received_public_key"},
                              !.peer_epub = m.body]
               [] m.type = "ack" ->
                    [p EXCEPT !.state = @ \cup {"received_public_key_ack"},
                              !.timer = {}]
               [] OTHER -> p
        out == PublicKeyAnswers(m)
    IN  IF public_key_exchanged \subseteq q.state THEN PublicKeyComplete(q, out)
        ELSE Did(q, out)

\* received_echo_back_handler: every echo has the same payload, so an answer
\* to an earlier one matches as well.
ReceivedEchoBack(p) ==
    IF "wait_for_echo" \in p.state
    THEN [p EXCEPT !.state = @ \ {"wait_for_echo"}, !.timer = {}]
    ELSE p

EchoAnswersOnlyEcho(m) ==    \* mutant: the peer's lost ack is not sent again
    IF m.type = "echo" THEN {EchoBack} ELSE {}

\* What echo_handler answers.
EchoAnswers(m) ==
    CASE m.type = "echo" -> {EchoBack}
      [] m.type = "public_key" -> {Ack}
      [] OTHER -> {}

\* echo_handler
EchoHandler(p, m) ==
    LET q == IF m.type = "echo_back" THEN ReceivedEchoBack(p) ELSE p
    IN  Did(IF "wait_for_echo" \in q.state THEN q
            ELSE [q EXCEPT !.handler = "established"],
            EchoAnswers(m))

ResetKeepsState(p) ==        \* mutant: current_state_ survives the reset
    [p EXCEPT !.timer = {}, !.key = {}, !.streams = {}]

\* reset: the timer stops, the keys and the streams are gone.
Reset(p) == [p EXCEPT !.state = {}, !.timer = {}, !.key = {}, !.streams = {}]

EstablishedHandlerStays(p, m) ==   \* mutant: the handler is not switched back
    IF m.type = "hello"
    THEN Did([SendHello(Reset(p)) EXCEPT !.handler = "established"], {Hello, Ack})
    ELSE Did(p, {})

EstablishedHandlerNoEcho(p, m) ==  \* mutant: the echo branch is missing
    CASE m.type = "hello" -> Did(ReceivedHello(SendHello(Reset(p))), {Hello, Ack})
      [] m.type = "echo_back" -> Did(ReceivedEchoBack(p), {})
      [] OTHER -> Did([p EXCEPT !.streams = @ \cup {m.id}], {})

\* established_handler.  Whatever is not part of the handshake goes to the
\* stream its id names, which is created if need be.
EstablishedHandler(p, m) ==
    CASE m.type = "hello" -> Did(ReceivedHello(SendHello(Reset(p))), {Hello, Ack})
      [] m.type = "echo" -> Did(p, {EchoBack})
      [] m.type = "echo_back" -> Did(ReceivedEchoBack(p), {})
      [] OTHER -> Did([p EXCEPT !.streams = @ \cup {m.id}], {})

\* peer::feed, through datagram_handler_.
Feed(p, m, k) ==
    CASE p.handler = "hello"       -> HelloHandler(p, m, k)
      [] p.handler = "public_key"  -> PublicKeyHandler(p, m)
      [] p.handler = "echo"        -> EchoHandler(p, m)
      [] p.handler = "established" -> EstablishedHandler(p, m)

-----------------------------------------------------------------------------
(* A service *)

Other(s) == CHOOSE t \in Sites : t # s

\* Datagrams of s on their way to the other site.
Posted(s, out) == SetToBag({[to |-> Other(s), msg |-> m] : m \in out})

NextKey(s) == <<s, generated[s] + 1>>

\* The peer p of s is fed d; before, it sent out.
Fed(s, d, p, out) ==
    LET r == Feed(p, d.msg, NextKey(s))
        n == IF NextKey(s) \in r.p.epub THEN generated[s] + 1 ELSE generated[s]
    IN  /\ n <= MaxKeys
        /\ peers' = [peers EXCEPT ![s] = {r.p}]
        /\ generated' = [generated EXCEPT ![s] = n]
        /\ net' = (net (-) SetToBag({d})) (+) Posted(s, out \cup r.out)
        /\ UNCHANGED <<fired, commands>>

\* udp_layer::handle_receive for an address that has a peer.
Receive(d) == \E p \in peers[d.to] : Fed(d.to, d, p, {})

\* ... and for one that has none: the peer is made, says hello and is fed.
ReceiveFirst(d) ==
    /\ peers[d.to] = {}
    /\ Fed(d.to, d, Constructed.p, Constructed.out)

\* The wait for the timer of s is over: its handler is queued, beyond the
\* reach of timer_.cancel(), behind handlers that were queued before.
TimerExpires(s) ==
    /\ EarlyTimeout \/ net = EmptyBag
    /\ BagCardinality(net) < MaxInFlight
    /\ fired[s] = {}
    /\ \E p \in peers[s] :
         /\ p.timer # {}
         /\ fired' = [fired EXCEPT ![s] = p.timer]
         /\ peers' = [peers EXCEPT ![s] = {[p EXCEPT !.timer = {}]}]
    /\ UNCHANGED <<generated, commands, net>>

\* retransmit_raw_datagram: m is sent again and the timer, whatever it was
\* armed for since, now repeats m.
Retransmit(s) ==
    /\ \E m \in fired[s], p \in peers[s] :
         /\ peers' = [peers EXCEPT ![s] = {WithRetransmit(p, m)}]
         /\ net' = net (+) Posted(s, {m})
    /\ fired' = [fired EXCEPT ![s] = {}]
    /\ UNCHANGED <<generated, commands>>

-----------------------------------------------------------------------------
(* The application's commands *)

Commanded(s, c) ==
    /\ c \in Commands
    /\ commands[s] < MaxCommands
    /\ commands' = [commands EXCEPT ![s] = @ + 1]

AddPeerTwice(s) ==           \* mutant: a second object for the same address
    /\ Commanded(s, "add")
    /\ peers' = [peers EXCEPT ![s] = @ \cup {Constructed.p}]
    /\ net' = net (+) Posted(s, Constructed.out)
    /\ UNCHANGED <<fired, generated>>

\* udp_layer::add_peer for an address that has no peer.
AddPeer(s) ==
    /\ Commanded(s, "add")
    /\ peers[s] = {}
    /\ peers' = [peers EXCEPT ![s] = {Constructed.p}]
    /\ net' = net (+) Posted(s, Constructed.out)
    /\ UNCHANGED <<fired, generated>>

\* ... and for one that has: the argument of insert is constructed, and says
\* hello, before it is found superfluous and destroyed with its timer.
AddPeerAgain(s) ==
    /\ Commanded(s, "add_again")
    /\ peers[s] # {}
    /\ net' = net (+) Posted(s, Constructed.out)
    /\ UNCHANGED <<peers, fired, generated>>

\* udp_layer::del_peer.  A queued retransmission would run in the destroyed
\* object, so the model leaves that case out.
DelPeer(s) ==
    /\ Commanded(s, "del")
    /\ fired[s] = {}
    /\ peers' = [peers EXCEPT ![s] = {}]
    /\ UNCHANGED <<fired, generated, net>>

\* The process of s dies and starts again.
Restart(s) ==
    /\ Commanded(s, "restart")
    /\ Lingering \/ net = EmptyBag
    /\ peers' = [peers EXCEPT ![s] = {}]
    /\ fired' = [fired EXCEPT ![s] = {}]
    /\ UNCHANGED <<generated, net>>

\* dh2->Agree refuses the keys: the id in the hello is not in the configuration,
\* so that the static key is empty, or what arrived is no public key.  What
\* generate_shared_key throws leaves the event loop, and with it the process
\* ends, to be started again; the ack may or may not have been sent.
AgreeFails(d) ==
    LET s == d.to IN
    /\ Commanded(s, "fail")
    /\ \E p \in peers[s] :
         /\ p.handler = "public_key"
         /\ PublicKeyHandler(p, d.msg).p.handler = "echo"
    /\ peers' = [peers EXCEPT ![s] = {}]
    /\ fired' = [fired EXCEPT ![s] = {}]
    /\ \E out \in SUBSET PublicKeyAnswers(d.msg) :
         net' = (net (-) SetToBag({d})) (+) Posted(s, out)
    /\ UNCHANGED generated

\* peer::add_stream, which leaves a stream that is there alone.
AddStream(s, id) ==
    /\ Commanded(s, "stream")
    /\ \E p \in peers[s] :
         peers' = [peers EXCEPT ![s] = {[p EXCEPT !.streams = @ \cup {id}]}]
    /\ UNCHANGED <<fired, generated, net>>

\* peer::del_stream
DelStream(s, id) ==
    /\ Commanded(s, "stream")
    /\ \E p \in peers[s] :
         peers' = [peers EXCEPT ![s] = {[p EXCEPT !.streams = @ \ {id}]}]
    /\ UNCHANGED <<fired, generated, net>>

\* peer::send_datagram for a stream: nothing is sent until the state says
\* established, and then it is encrypted with the key of the moment.
SendData(s, id) ==
    /\ BagCardinality(net) < MaxInFlight
    /\ \E p \in peers[s] :
         /\ id \in p.streams
         /\ established \subseteq p.state
         /\ net' = net (+) Posted(s, {Data(id, p.key)})
    /\ UNCHANGED <<peers, fired, generated, commands>>

-----------------------------------------------------------------------------
(* The network *)

Lose(d) ==
    /\ d.msg.type \in Lossy
    /\ net' = net (-) SetToBag({d})
    /\ UNCHANGED <<peers, fired, generated, commands>>

Duplicate(d) ==
    /\ d.msg.type \in Duplicating
    /\ BagCardinality(net) < MaxInFlight
    /\ net' = net (+) SetToBag({d})
    /\ UNCHANGED <<peers, fired, generated, commands>>

-----------------------------------------------------------------------------
Init ==
    /\ peers = [s \in Sites |-> {}]
    /\ fired = [s \in Sites |-> {}]
    /\ generated = [s \in Sites |-> 0]
    /\ commands = [s \in Sites |-> 0]
    /\ net = EmptyBag

Next ==
    \/ \E d \in BagToSet(net) : Receive(d)
    \/ \E d \in BagToSet(net) : ReceiveFirst(d)
    \/ \E s \in Sites : TimerExpires(s)
    \/ \E s \in Sites : Retransmit(s)
    \/ \E s \in Sites : AddPeer(s)
    \/ \E s \in Sites : AddPeerAgain(s)
    \/ \E s \in Sites : DelPeer(s)
    \/ \E s \in Sites : Restart(s)
    \/ \E d \in BagToSet(net) : AgreeFails(d)
    \/ \E s \in Sites : \E id \in UserStreams : AddStream(s, id)
    \/ \E s \in Sites : \E id \in UserStreams : DelStream(s, id)
    \/ \E s \in Sites : \E id \in StreamIds : SendData(s, id)
    \/ \E d \in BagToSet(net) : Lose(d)
    \/ \E d \in BagToSet(net) : Duplicate(d)

Spec == Init /\ [][Next]_vars

Delivery(s, t) ==
    \E d \in BagToSet(net) :
        d.to = s /\ d.msg.type = t /\ (Receive(d) \/ ReceiveFirst(d))

\* The io_context runs what is queued, timers expire, and a network that is
\* asked again and again lets each kind of datagram through to either site in
\* the end.
Fairness ==
    \A s \in Sites :
        /\ SF_vars(TimerExpires(s)) /\ WF_vars(Retransmit(s))
        /\ \A t \in Types : SF_vars(Delivery(s, t))

FairSpec == Spec /\ Fairness

-----------------------------------------------------------------------------
(* Properties *)

\* Every variable has its type, and a site has at most one peer for the other.
TypeOK ==
    /\ peers \in [Sites -> SUBSET Object]
    /\ \A s \in Sites : \A p, q \in peers[s] : p = q
    /\ fired \in [Sites -> SUBSET Message]
    /\ generated \in [Sites -> 0 .. MaxKeys]
    /\ commands \in [Sites -> 0 .. MaxCommands]
    /\ IsABag(net)
    /\ BagToSet(net) \subseteq [to : Sites, msg : Message]

\* established_handler never throws unknown_error: whoever is called through
\* that handler has every bit of established set, after any number of resets.
NeverThrows ==
    \A s \in Sites : \A p \in peers[s] :
        p.handler = "established" => established \subseteq p.state

\* encrypt_layer_ is there whenever send_datagram or established_handler
\* dereferences it, and was made from a key of each side.
EncryptorReady ==
    \A s \in Sites : \A p \in peers[s] :
        established \subseteq p.state =>
            \E i, j \in 1 .. MaxKeys : p.key = {<<s, i>>, <<Other(s), j>>}

Is(s, h) == \E p \in peers[s] : p.handler = h

\* Two established peers use the same key, the one of their last handshake,
\* whichever of them has restarted in whatever state of the other: a key of the
\* session before, or of a handshake that was broken off, is in use on neither
\* side or on both.
KeyAgreement ==
    \A s, t \in Sites : \A p \in peers[s], q \in peers[t] :
        p.handler = "established" /\ q.handler = "established" => p.key = q.key

\* The echo answered means that the other side has computed its key: an
\* established peer is never alone.
EchoProvesKey ==
    \A s \in Sites : Is(s, "established") => Is(Other(s), "echo") \/ Is(Other(s), "established")

\* Streams exist only for ids that an application asked for; no datagram of
\* the handshake is taken for one of stream 0.
NoPhantomStream == \A s \in Sites : \A p \in peers[s] : p.streams \subseteq UserStreams

\* Two sites that have a peer for each other are not both left waiting for a
\* datagram that neither will send: when nothing is in flight, a timer is
\* armed or both are established.
NeverSilent ==
    /\ net = EmptyBag
    /\ \A s \in Sites : fired[s] = {} /\ \E p \in peers[s] : p.timer = {}
    => \A s \in Sites : Is(s, "established")

\* Once a site has a peer, both sites are established in the end.
HandshakeCompletes ==
    \A s \in Sites : peers[s] # {} ~> \A t \in Sites : Is(t, "established")
=============================================================================
