----------------------------- MODULE PeerProofs -----------------------------
(***************************************************************************)
(* Proofs about Peer, for any streams, any number of ephemeral keys and    *)
(* any number of commands.                                                 *)
(*                                                                         *)
(* Whatever the network and the applications do, the flags of a peer match *)
(* its handler and each flag of the key exchange has its key (PeerOK), and *)
(* a peer that waits for an answer has a timer (Armed).                    *)
(*                                                                         *)
(* If timers do not overtake answers and no site starts over, a site has   *)
(* at most one datagram of its own, or one answer to it, on the way        *)
(* (StopAndWait).  Then an anonymous ack says which datagram it is for,    *)
(* and what the flags of one peer say of the other is true (Linked).       *)
(*                                                                         *)
(* If a site does start over, with nothing on its way, the two are linked  *)
(* all the same or the other one is left with a peer of the time before    *)
(* (Orphan): the new peer then gets no further than an ack, until its      *)
(* hello resets the old one and both begin again.                          *)
(***************************************************************************)
EXTENDS Peer, TLAPS, FiniteSetTheorems

\* e holds one ephemeral key of site s.
KeyOf(s, e) == \E i \in 1 .. MaxKeys : e = {<<s, i>>}

\* What site s may send: its public keys are its own.
SentBy(s, m) == m \in Message /\ (m.type = "public_key" => KeyOf(s, m.body))

\* The flags agree with the handler that is next to run.
PhaseOK(p) ==
    /\ p.handler # "none"
    /\ p.handler = "hello" => p.state \subseteq hello_complete
    /\ p.handler = "public_key" => /\ hello_complete \subseteq p.state
                                   /\ "sent_public_key" \in p.state
                                   /\ "shared_key_agreement" \notin p.state
    /\ p.handler \in {"echo", "established"} => established \subseteq p.state

\* Each flag of the exchange has its key.
KeysOK(s, p) ==
    /\ "sent_public_key" \in p.state => KeyOf(s, p.epub)
    /\ "received_public_key" \in p.state => KeyOf(Other(s), p.peer_epub)
    /\ "shared_key_agreement" \in p.state =>
         \E i, j \in 1 .. MaxKeys : p.key = {<<s, i>>, <<Other(s), j>>}

PeerOK(s, p) == PhaseOK(p) /\ KeysOK(s, p) /\ \A m \in p.timer : SentBy(s, m)

\* The inductive invariant.
Inv ==
    /\ TypeOK
    /\ \A s \in Sites : \A p \in peers[s] : PeerOK(s, p)
    /\ \A s \in Sites : \A m \in fired[s] : SentBy(s, m)
    /\ \A d \in BagToSet(net) : SentBy(Other(d.to), d.msg)

-----------------------------------------------------------------------------
(* The sites, the network and the datagrams *)

\* There are two sites.
LEMMA TwoSites ==
    ASSUME NEW s \in Sites
    PROVE  /\ Other(s) \in Sites /\ Other(s) # s /\ Other(Other(s)) = s
           /\ \A t \in Sites : t = s \/ t = Other(s)
<1>1. IsFiniteSet(Sites \ {s}) /\ Cardinality(Sites \ {s}) = 1
  BY SitesAssumption, FS_RemoveElement
<1>2. PICK o : Sites \ {s} = {o}
  BY <1>1, FS_Singleton
<1>3. o \in Sites /\ o # s /\ \A t \in Sites : t = s \/ t = o
  BY <1>2
<1>4. Other(s) = o /\ Other(o) = s
  BY <1>3 DEF Other
<1>. QED
  BY <1>3, <1>4

\* What bags of datagrams hold after one was taken out and others were put in.
LEMMA Bag ==
    ASSUME NEW B, IsABag(B), NEW d, NEW S
    PROVE  /\ IsABag((B (-) SetToBag({d})) (+) SetToBag(S))
           /\ BagToSet((B (-) SetToBag({d})) (+) SetToBag(S)) \subseteq BagToSet(B) \cup S
           /\ IsABag(B (+) SetToBag(S))
           /\ BagToSet(B (+) SetToBag(S)) \subseteq BagToSet(B) \cup S
           /\ IsABag(B (-) SetToBag({d}))
           /\ BagToSet(B (-) SetToBag({d})) \subseteq BagToSet(B)
BY DEF IsABag, BagToSet, SetToBag, (+), (-)

\* The datagrams of the handshake are messages, of whoever sends them.
LEMMA Handshakes ==
    ASSUME NEW s \in Sites
    PROVE  /\ SentBy(s, Hello) /\ SentBy(s, Ack) /\ SentBy(s, Echo) /\ SentBy(s, EchoBack)
           /\ Hello.type = "hello" /\ Ack.type = "ack" /\ Echo.type = "echo"
           /\ EchoBack.type = "echo_back"
BY DEF SentBy, Hello, Ack, Echo, EchoBack, Message, Types, StreamIds

\* So is a public key.
LEMMA PublicKeys ==
    ASSUME NEW s \in Sites, NEW e, KeyOf(s, e)
    PROVE  SentBy(s, PublicKey(e)) /\ PublicKey(e).type = "public_key" /\ PublicKey(e).body = e
<1>1. e \in SUBSET EphemeralKey
  BY BoundsAssumption DEF KeyOf, EphemeralKey
<1>. QED
  BY <1>1 DEF SentBy, PublicKey, Message, Types, StreamIds

\* The fields of an object are typed.
LEMMA ObjectIs ==
    ASSUME NEW p \in Object
    PROVE  /\ p.state \in SUBSET Flags
           /\ p.handler \in {"none", "hello", "public_key", "echo", "established"}
           /\ p.timer \in SUBSET Message
           /\ p.epub \in SUBSET EphemeralKey /\ p.peer_epub \in SUBSET EphemeralKey
           /\ p.key \in SUBSET EphemeralKey /\ p.streams \in SUBSET StreamIds
BY DEF Object

-----------------------------------------------------------------------------
(* What the member functions do to a peer object *)

\* A peer as the constructor leaves it.
LEMMA ConstructedOK ==
    ASSUME NEW s \in Sites
    PROVE  /\ Constructed.p \in Object /\ PeerOK(s, Constructed.p)
           /\ Constructed.out = {Hello}
           /\ Constructed.p.handler = "hello" /\ Constructed.p.state = {"sent_hello"}
           /\ Constructed.p.timer = {Hello} /\ Constructed.p.streams = {}
<1>. DEFINE c == Constructed.p
<1>0. Hello \in Message /\ SentBy(s, Hello)
  BY Handshakes DEF SentBy
<1>1. /\ c.handler = "hello" /\ c.state = {"sent_hello"} /\ c.timer = {Hello}
      /\ c.epub = {} /\ c.peer_epub = {} /\ c.key = {} /\ c.streams = {}
      /\ Constructed.out = {Hello}
  BY DEF Constructed, Did, SendHello, WithRetransmit, Blank
<1>2. c \in Object
  BY <1>0 DEF Constructed, Did, SendHello, WithRetransmit, Blank, Object, Flags, established,
              hello_complete
<1>. QED
  BY <1>0, <1>1, <1>2
     DEF PeerOK, PhaseOK, KeysOK, hello_complete

\* p has become q: its flags st, its handler h, its timer tm and its keys, while
\* the streams are the ones there were.
Becomes(p, q, st, h, tm, e, pe, k) ==
    /\ q.state = st /\ q.handler = h /\ q.timer = tm
    /\ q.epub = e /\ q.peer_epub = pe /\ q.key = k
    /\ q.streams = p.streams

\* hello_handler: a hello and an ack each add their flag, an ack stops the timer,
\* and with the last of them the keys are generated.
LEMMA HelloHandlerDoes ==
    ASSUME NEW p \in Object, NEW m \in Message, NEW k \in EphemeralKey,
           PublicKey({k}) \in Message
    PROVE  LET r == HelloHandler(p, m, k)
               st == p.state \cup (IF m.type = "hello" THEN {"received_hello"}
                                   ELSE {"received_hello_ack"})
               tm == IF m.type = "hello" THEN p.timer ELSE {}
               out == IF m.type = "hello" THEN {Ack} ELSE {}
           IN  /\ m.type \notin {"hello", "ack"} => r.p = p /\ r.out = {}
               /\ m.type \in {"hello", "ack"} /\ ~ (hello_complete \subseteq st) =>
                    /\ r.p \in Object /\ r.out = out
                    /\ Becomes(p, r.p, st, p.handler, tm, p.epub, p.peer_epub, p.key)
               /\ m.type \in {"hello", "ack"} /\ hello_complete \subseteq st =>
                    /\ r.p \in Object /\ r.out = out \cup {PublicKey({k})}
                    /\ Becomes(p, r.p, st \cup {"sent_public_key"}, "public_key",
                               {PublicKey({k})}, {k}, p.peer_epub, p.key)
<1>. DEFINE st == p.state \cup (IF m.type = "hello" THEN {"received_hello"}
                                ELSE {"received_hello_ack"})
            tm == IF m.type = "hello" THEN p.timer ELSE {}
            out == IF m.type = "hello" THEN {Ack} ELSE {}
            q == IF m.type = "hello" THEN ReceivedHello(p) ELSE ReceivedHelloAck(p)
            r == HelloHandler(p, m, k)
<1>1. /\ st \in SUBSET Flags /\ tm \in SUBSET Message /\ st \cup {"sent_public_key"} \in SUBSET Flags
      /\ {k} \in SUBSET EphemeralKey
      /\ {PublicKey({k})} \in SUBSET Message
  BY ObjectIs DEF Flags, established, hello_complete, public_key_exchanged
<1>2. q \in Object /\ Becomes(p, q, st, p.handler, tm, p.epub, p.peer_epub, p.key)
  <2>1. CASE m.type = "hello"
    BY <2>1, <1>1 DEF ReceivedHello, Becomes, Object
  <2>2. CASE m.type # "hello"
    BY <2>2, <1>1 DEF ReceivedHelloAck, Becomes, Object
  <2>. QED
    BY <2>1, <2>2
<1>3. m.type \notin {"hello", "ack"} => r = Did(p, {})
  BY DEF HelloHandler
<1>4. m.type \in {"hello", "ack"} /\ ~ (hello_complete \subseteq st) => r = Did(q, out)
  BY <1>2 DEF HelloHandler, Becomes
<1>5. m.type \in {"hello", "ack"} /\ hello_complete \subseteq st => r = HelloComplete(q, out, k)
  BY <1>2 DEF HelloHandler, Becomes
<1>. HIDE DEF r, q, out, tm
<1>6. LET c == HelloComplete(q, out, k)
      IN  /\ c.p \in Object /\ c.out = out \cup {PublicKey({k})}
          /\ Becomes(p, c.p, st \cup {"sent_public_key"}, "public_key",
                     {PublicKey({k})}, {k}, p.peer_epub, p.key)
  BY <1>1, <1>2 DEF HelloComplete, WithRetransmit, Did, Becomes, Object
<1>. HIDE DEF st
<1>7. /\ m.type \notin {"hello", "ack"} => r.p = p /\ r.out = {}
      /\ m.type \in {"hello", "ack"} /\ ~ (hello_complete \subseteq st) =>
           /\ r.p \in Object /\ r.out = out
           /\ Becomes(p, r.p, st, p.handler, tm, p.epub, p.peer_epub, p.key)
      /\ m.type \in {"hello", "ack"} /\ hello_complete \subseteq st =>
           /\ r.p \in Object /\ r.out = out \cup {PublicKey({k})}
           /\ Becomes(p, r.p, st \cup {"sent_public_key"}, "public_key",
                      {PublicKey({k})}, {k}, p.peer_epub, p.key)
  BY <1>2, <1>3, <1>4, <1>5, <1>6 DEF Did
<1>. QED
  BY <1>7 DEF r, out, tm, st

\* public_key_exchange_handler: a key is taken, an ack stops the timer, and with
\* the last flag of the exchange the shared key is made and tried with an echo.
LEMMA PublicKeyHandlerDoes ==
    ASSUME NEW p \in Object, NEW m \in Message
    PROVE  LET r == PublicKeyHandler(p, m)
               st == p.state \cup (IF m.type = "public_key" THEN {"received_public_key"}
                                   ELSE IF m.type = "ack" THEN {"received_public_key_ack"}
                                   ELSE {})
               pe == IF m.type = "public_key" THEN m.body ELSE p.peer_epub
               tm == IF m.type = "ack" THEN {} ELSE p.timer
           IN  /\ ~ (public_key_exchanged \subseteq st) =>
                    /\ r.p \in Object /\ r.out = PublicKeyAnswers(m)
                    /\ Becomes(p, r.p, st, p.handler, tm, p.epub, pe, p.key)
               /\ public_key_exchanged \subseteq st =>
                    /\ r.p \in Object /\ r.out = PublicKeyAnswers(m) \cup {Echo}
                    /\ Becomes(p, r.p, st \cup {"shared_key_agreement", "wait_for_echo"}, "echo",
                               {Echo}, p.epub, pe, p.epub \cup pe)
<1>. DEFINE st == p.state \cup (IF m.type = "public_key" THEN {"received_public_key"}
                                ELSE IF m.type = "ack" THEN {"received_public_key_ack"}
                                ELSE {})
            pe == IF m.type = "public_key" THEN m.body ELSE p.peer_epub
            tm == IF m.type = "ack" THEN {} ELSE p.timer
            q == CASE m.type = "public_key" ->
                        [p EXCEPT !.state = @ \cup {"received_public_key"},
                                  !.peer_epub = m.body]
                   [] m.type = "ack" ->
                        [p EXCEPT !.state = @ \cup {"received_public_key_ack"},
                                  !.timer = {}]
                   [] OTHER -> p
            r == PublicKeyHandler(p, m)
            all == st \cup {"shared_key_agreement", "wait_for_echo"}
<1>1. /\ st \in SUBSET Flags /\ tm \in SUBSET Message /\ all \in SUBSET Flags
      /\ pe \in SUBSET EphemeralKey /\ p.epub \cup pe \in SUBSET EphemeralKey
  BY ObjectIs DEF Flags, established, hello_complete, public_key_exchanged, Message
<1>2. q \in Object /\ Becomes(p, q, st, p.handler, tm, p.epub, pe, p.key)
  <2>1. CASE m.type = "public_key"
    BY <2>1, <1>1 DEF Becomes, Object
  <2>2. CASE m.type = "ack"
    BY <2>2, <1>1 DEF Becomes, Object
  <2>3. CASE m.type \notin {"public_key", "ack"}
    BY <2>3, <1>1 DEF Becomes, Object
  <2>. QED
    BY <2>1, <2>2, <2>3
<1>3. r = IF public_key_exchanged \subseteq st
          THEN PublicKeyComplete(q, PublicKeyAnswers(m)) ELSE Did(q, PublicKeyAnswers(m))
  BY <1>2 DEF PublicKeyHandler, Becomes
<1>4. {Echo} \in SUBSET Message
  BY DEF Echo, Message, Types, StreamIds
<1>. HIDE DEF r, q, tm, pe, st
<1>5. LET c == PublicKeyComplete(q, PublicKeyAnswers(m))
      IN  /\ c.p \in Object /\ c.out = PublicKeyAnswers(m) \cup {Echo}
          /\ Becomes(p, c.p, all, "echo", {Echo}, p.epub, pe, p.epub \cup pe)
  BY <1>1, <1>2, <1>4 DEF PublicKeyComplete, SharedKey, WithRetransmit, Did, Becomes, Object
<1>6. /\ ~ (public_key_exchanged \subseteq st) =>
           /\ r.p \in Object /\ r.out = PublicKeyAnswers(m)
           /\ Becomes(p, r.p, st, p.handler, tm, p.epub, pe, p.key)
      /\ public_key_exchanged \subseteq st =>
           /\ r.p \in Object /\ r.out = PublicKeyAnswers(m) \cup {Echo}
           /\ Becomes(p, r.p, all, "echo", {Echo}, p.epub, pe, p.epub \cup pe)
  BY <1>2, <1>3, <1>5 DEF Did
<1>. QED
  BY <1>6 DEF r, tm, pe, st

\* received_echo_back_handler: an echo that is waited for has its answer.
LEMMA ReceivedEchoBackDoes ==
    ASSUME NEW p \in Object
    PROVE  LET q == ReceivedEchoBack(p)
               tm == IF "wait_for_echo" \in p.state THEN {} ELSE p.timer
           IN  /\ q \in Object
               /\ Becomes(p, q, p.state \ {"wait_for_echo"}, p.handler, tm, p.epub,
                          p.peer_epub, p.key)
<1>1. CASE "wait_for_echo" \in p.state
  BY <1>1 DEF ReceivedEchoBack, Becomes, Object
<1>2. CASE "wait_for_echo" \notin p.state
  BY <1>2 DEF ReceivedEchoBack, Becomes, Object
<1>. QED
  BY <1>1, <1>2

\* echo_handler: it is over once no answer is waited for.
LEMMA EchoHandlerDoes ==
    ASSUME NEW p \in Object, NEW m \in Message
    PROVE  LET r == EchoHandler(p, m)
               back == m.type = "echo_back" /\ "wait_for_echo" \in p.state
               st == IF back THEN p.state \ {"wait_for_echo"} ELSE p.state
               tm == IF back THEN {} ELSE p.timer
               h == IF "wait_for_echo" \in st THEN p.handler ELSE "established"
           IN  /\ r.p \in Object /\ r.out = EchoAnswers(m)
               /\ Becomes(p, r.p, st, h, tm, p.epub, p.peer_epub, p.key)
<1>. DEFINE back == m.type = "echo_back" /\ "wait_for_echo" \in p.state
            st == IF back THEN p.state \ {"wait_for_echo"} ELSE p.state
            tm == IF back THEN {} ELSE p.timer
            q == IF m.type = "echo_back" THEN ReceivedEchoBack(p) ELSE p
<1>1. q \in Object /\ Becomes(p, q, st, p.handler, tm, p.epub, p.peer_epub, p.key)
  BY ReceivedEchoBackDoes DEF Becomes
<1>2. /\ EchoHandler(p, m).p = IF "wait_for_echo" \in q.state THEN q
                               ELSE [q EXCEPT !.handler = "established"]
      /\ EchoHandler(p, m).out = EchoAnswers(m)
  BY DEF EchoHandler, Did
<1>. HIDE DEF q
<1>3. [q EXCEPT !.handler = "established"] \in Object
  BY <1>1 DEF Object
<1>4. Becomes(p, [q EXCEPT !.handler = "established"], st, "established", tm, p.epub,
              p.peer_epub, p.key)
  BY <1>1 DEF Becomes, Object
<1>5. q.state = st
  BY <1>1 DEF Becomes
<1>. QED
  BY <1>1, <1>2, <1>3, <1>4, <1>5

\* established_handler: a hello starts over, an echo is answered, and all that
\* is no part of the handshake is for a stream.
LEMMA EstablishedHandlerDoes ==
    ASSUME NEW p \in Object, NEW m \in Message
    PROVE  LET r == EstablishedHandler(p, m)
           IN  /\ r.p \in Object
               /\ m.type = "hello" =>
                    /\ r.out = {Hello, Ack}
                    /\ r.p.state = {"sent_hello", "received_hello"} /\ r.p.handler = "hello"
                    /\ r.p.timer = {Hello} /\ r.p.streams = {}
               /\ m.type = "echo" => r.p = p /\ r.out = {EchoBack}
               /\ m.type = "echo_back" => r.p = ReceivedEchoBack(p) /\ r.out = {}
               /\ m.type \notin {"hello", "echo", "echo_back"} =>
                    /\ r.out = {} /\ r.p = [p EXCEPT !.streams = @ \cup {m.id}]
<1>1. CASE m.type = "hello"
  <2>. DEFINE z == Reset(p)
              h == SendHello(z)
              q == ReceivedHello(h)
  <2>0. Hello \in Message
    BY DEF Hello, Message, Types, StreamIds
  <2>1. z \in Object /\ z.state = {} /\ z.streams = {}
    BY DEF Reset, Object
  <2>. HIDE DEF z
  <2>2. h \in Object /\ h.state = {"sent_hello"} /\ h.handler = "hello" /\ h.timer = {Hello}
        /\ h.streams = {}
    BY <2>0, <2>1 DEF SendHello, WithRetransmit, Object, Flags, established, hello_complete
  <2>. HIDE DEF h
  <2>3. /\ q \in Object /\ q.state = {"sent_hello", "received_hello"} /\ q.handler = "hello"
        /\ q.timer = {Hello} /\ q.streams = {}
    BY <2>2 DEF ReceivedHello, Object, Flags, established, hello_complete
  <2>4. EstablishedHandler(p, m) = Did(q, {Hello, Ack})
    BY <1>1 DEF EstablishedHandler, z, h
  <2>. HIDE DEF q
  <2>. QED
    BY <1>1, <2>3, <2>4 DEF Did
<1>2. CASE m.type = "echo"
  BY <1>2 DEF EstablishedHandler, Did
<1>3. CASE m.type = "echo_back"
  BY <1>3, ReceivedEchoBackDoes DEF EstablishedHandler, Did
<1>4. CASE m.type \notin {"hello", "echo", "echo_back"}
  <2>. DEFINE q == [p EXCEPT !.streams = @ \cup {m.id}]
  <2>1. q \in Object
    BY DEF Object, Message
  <2>. QED
    BY <1>4, <2>1 DEF EstablishedHandler, Did
<1>. QED
  BY <1>1, <1>2, <1>3, <1>4

-----------------------------------------------------------------------------
(* Flags and keys: what holds whatever the network and the applications do *)

\* A peer that is fed keeps its flags and keys in order, and what it sends is
\* its own.  The key it may generate is within the bound if it is used.
LEMMA FeedOK ==
    ASSUME NEW s \in Sites, NEW p \in Object, PeerOK(s, p),
           NEW m, SentBy(Other(s), m),
           NEW i \in Nat, <<s, i>> \in Feed(p, m, <<s, i>>).p.epub => i \in 1 .. MaxKeys
    PROVE  LET r == Feed(p, m, <<s, i>>)
           IN  r.p \in Object /\ PeerOK(s, r.p) /\ \A x \in r.out : SentBy(s, x)
<1>. DEFINE k == <<s, i>>
            r == Feed(p, m, k)
<1>. SUFFICES r.p \in Object /\ PeerOK(s, r.p) /\ \A x \in r.out : SentBy(s, x)
  OBVIOUS
<1>0. /\ k \in r.p.epub => KeyOf(s, {k})
      /\ p.handler = "hello" => r = HelloHandler(p, m, k)
      /\ p.handler = "public_key" => r = PublicKeyHandler(p, m)
      /\ p.handler = "echo" => r = EchoHandler(p, m)
      /\ p.handler = "established" => r = EstablishedHandler(p, m)
  BY DEF KeyOf, Feed
<1>1. /\ m \in Message /\ Other(s) \in Sites /\ k \in EphemeralKey
      /\ p.timer \subseteq Message /\ \A x \in p.timer : SentBy(s, x)
  BY TwoSites, ObjectIs DEF SentBy, EphemeralKey, PeerOK
<1>2. SentBy(s, Hello) /\ SentBy(s, Ack) /\ SentBy(s, Echo) /\ SentBy(s, EchoBack)
  BY Handshakes
<1>3. PublicKey({k}) \in Message
  BY <1>1 DEF PublicKey, Message, Types, StreamIds
<1>. HIDE DEF k, r
<1>4. CASE p.handler = "hello"
  <2>1. r = HelloHandler(p, m, k)
    BY <1>0, <1>4
  <2>2. p.state \subseteq hello_complete
    BY <1>4 DEF PeerOK, PhaseOK
  <2>3. CASE m.type \notin {"hello", "ack"}
    <3>1. r.p = p /\ r.out = {}
      BY <1>1, <1>3, <2>1, <2>3, HelloHandlerDoes
    <3>. QED
      BY <3>1
  <2>. DEFINE st == p.state \cup (IF m.type = "hello" THEN {"received_hello"}
                                  ELSE {"received_hello_ack"})
  <2>4. CASE m.type \in {"hello", "ack"} /\ ~ (hello_complete \subseteq st)
    <3>1. /\ r.p \in Object /\ r.out \subseteq {Ack}
          /\ r.p.state = st /\ r.p.handler = "hello" /\ r.p.timer \subseteq p.timer
      BY <1>1, <1>3, <1>4, <2>1, <2>4, HelloHandlerDoes DEF Becomes
    <3>2. st \subseteq hello_complete
      BY <2>2 DEF hello_complete
    <3>3. PhaseOK(r.p) /\ KeysOK(s, r.p)
      BY <3>1, <3>2 DEF PhaseOK, KeysOK, hello_complete
    <3>. QED
      BY <1>1, <1>2, <3>1, <3>3 DEF PeerOK
  <2>5. CASE m.type \in {"hello", "ack"} /\ hello_complete \subseteq st
    <3>1. /\ r.p \in Object /\ r.out \subseteq {Ack, PublicKey({k})}
          /\ r.p.state = st \cup {"sent_public_key"} /\ r.p.handler = "public_key"
          /\ r.p.timer = {PublicKey({k})} /\ r.p.epub = {k}
      BY <1>1, <1>3, <2>1, <2>5, HelloHandlerDoes DEF Becomes
    <3>2. KeyOf(s, {k})
      BY <1>0, <3>1
    <3>3. SentBy(s, PublicKey({k}))
      BY <3>2, PublicKeys
    <3>4. PhaseOK(r.p) /\ KeysOK(s, r.p)
      <4>1. r.p.state = hello_complete \cup {"sent_public_key"}
        BY <2>2, <2>5, <3>1 DEF hello_complete
      <4>. QED
        BY <3>1, <3>2, <4>1 DEF PhaseOK, KeysOK, hello_complete
    <3>. QED
      BY <1>2, <3>1, <3>3, <3>4 DEF PeerOK
  <2>. QED
    BY <2>3, <2>4, <2>5
<1>5. CASE p.handler = "public_key"
  <2>1. r = PublicKeyHandler(p, m)
    BY <1>0, <1>5
  <2>. DEFINE st == p.state \cup (IF m.type = "public_key" THEN {"received_public_key"}
                                  ELSE IF m.type = "ack" THEN {"received_public_key_ack"}
                                  ELSE {})
              pe == IF m.type = "public_key" THEN m.body ELSE p.peer_epub
  <2>2. /\ hello_complete \subseteq st /\ "sent_public_key" \in st
        /\ "shared_key_agreement" \notin st
        /\ KeyOf(s, p.epub)
    BY <1>5 DEF PeerOK, PhaseOK, KeysOK
  <2>3. "received_public_key" \in st => KeyOf(Other(s), pe)
    BY DEF PeerOK, KeysOK, SentBy
  <2>4. \A x \in PublicKeyAnswers(m) \cup {Echo} : SentBy(s, x)
    BY <1>2 DEF PublicKeyAnswers
  <2>5. CASE ~ (public_key_exchanged \subseteq st)
    <3>1. /\ r.p \in Object /\ r.out = PublicKeyAnswers(m)
          /\ r.p.state = st /\ r.p.handler = "public_key" /\ r.p.timer \subseteq p.timer
          /\ r.p.epub = p.epub /\ r.p.peer_epub = pe
      BY <1>1, <1>5, <2>1, <2>5, PublicKeyHandlerDoes DEF Becomes
    <3>. HIDE DEF st, pe
    <3>2. PhaseOK(r.p) /\ KeysOK(s, r.p)
      BY <2>2, <2>3, <3>1 DEF PhaseOK, KeysOK
    <3>. QED
      BY <1>1, <2>4, <3>1, <3>2 DEF PeerOK
  <2>6. CASE public_key_exchanged \subseteq st
    <3>1. /\ r.p \in Object /\ r.out = PublicKeyAnswers(m) \cup {Echo}
          /\ r.p.state = st \cup {"shared_key_agreement", "wait_for_echo"}
          /\ r.p.handler = "echo" /\ r.p.timer = {Echo}
          /\ r.p.epub = p.epub /\ r.p.peer_epub = pe /\ r.p.key = p.epub \cup pe
      BY <1>1, <2>1, <2>6, PublicKeyHandlerDoes DEF Becomes
    <3>2. "received_public_key" \in st
      BY <2>6 DEF public_key_exchanged
    <3>. HIDE DEF st, pe
    <3>3. \E x, y \in 1 .. MaxKeys : p.epub \cup pe = {<<s, x>>, <<Other(s), y>>}
      <4>1. PICK x \in 1 .. MaxKeys : p.epub = {<<s, x>>}
        BY <2>2 DEF KeyOf
      <4>2. PICK y \in 1 .. MaxKeys : pe = {<<Other(s), y>>}
        BY <2>3, <3>2 DEF KeyOf
      <4>3. p.epub \cup pe = {<<s, x>>, <<Other(s), y>>}
        BY <4>1, <4>2
      <4>. QED
        BY <4>3
    <3>4. PhaseOK(r.p)
      BY <2>2, <2>6, <3>1 DEF PhaseOK, established
    <3>5. KeysOK(s, r.p)
      BY <2>2, <2>3, <3>1, <3>2, <3>3 DEF KeysOK
    <3>. QED
      BY <1>2, <2>4, <3>1, <3>4, <3>5 DEF PeerOK
  <2>. QED
    BY <2>5, <2>6
<1>6. CASE p.handler \in {"echo", "established"}
  <2>1. established \subseteq p.state
    BY <1>6 DEF PeerOK, PhaseOK
  <2>2. "wait_for_echo" \notin established
    BY DEF established, hello_complete, public_key_exchanged
  <2>3. ASSUME NEW q \in Object, q.state \subseteq p.state, established \subseteq q.state,
               q.handler \in {"echo", "established"}, q.timer \subseteq p.timer,
               q.epub = p.epub, q.peer_epub = p.peer_epub, q.key = p.key
        PROVE  PeerOK(s, q)
    <3>1. PhaseOK(q)
      BY <2>3 DEF PhaseOK
    <3>2. KeysOK(s, q)
      BY <2>3 DEF PeerOK, KeysOK
    <3>. QED
      BY <2>3, <3>1, <3>2 DEF PeerOK
  <2>4. CASE p.handler = "echo"
    <3>1. r = EchoHandler(p, m)
      BY <1>0, <2>4
    <3>2. \A x \in EchoAnswers(m) : SentBy(s, x)
      BY <1>2 DEF EchoAnswers
    <3>3. /\ r.p \in Object /\ r.out = EchoAnswers(m)
          /\ r.p.state \subseteq p.state /\ p.state \ {"wait_for_echo"} \subseteq r.p.state
          /\ r.p.handler \in {"echo", "established"} /\ r.p.timer \subseteq p.timer
          /\ r.p.epub = p.epub /\ r.p.peer_epub = p.peer_epub /\ r.p.key = p.key
      BY <1>1, <2>4, <3>1, EchoHandlerDoes DEF Becomes
    <3>. QED
      BY <2>1, <2>2, <2>3, <3>2, <3>3
  <2>5. CASE p.handler = "established"
    <3>1. r = EstablishedHandler(p, m)
      BY <1>0, <2>5
    <3>2. r.p \in Object /\ \A x \in r.out : SentBy(s, x)
      <4>1. /\ r.p \in Object
            /\ r.out = {Hello, Ack} \/ r.out = {EchoBack} \/ r.out = {}
        BY <1>1, <3>1, EstablishedHandlerDoes
      <4>. QED
        BY <1>2, <4>1
    <3>3. CASE m.type = "hello"
      <4>1. r.p.state = {"sent_hello", "received_hello"} /\ r.p.handler = "hello"
            /\ r.p.timer = {Hello}
        BY <1>1, <3>1, <3>3, EstablishedHandlerDoes
      <4>2. PhaseOK(r.p) /\ KeysOK(s, r.p)
        BY <4>1 DEF PhaseOK, KeysOK, hello_complete
      <4>. QED
        BY <1>2, <3>2, <4>1, <4>2 DEF PeerOK
    <3>4. CASE m.type = "echo"
      <4>1. r.p = p
        BY <1>1, <3>1, <3>4, EstablishedHandlerDoes
      <4>. QED
        BY <3>2, <4>1
    <3>5. CASE m.type = "echo_back"
      <4>1. r.p = ReceivedEchoBack(p)
        BY <1>1, <3>1, <3>5, EstablishedHandlerDoes
      <4>2. /\ r.p.state = p.state \ {"wait_for_echo"} /\ r.p.handler = p.handler
            /\ r.p.timer \subseteq p.timer
            /\ r.p.epub = p.epub /\ r.p.peer_epub = p.peer_epub /\ r.p.key = p.key
        BY <4>1, ReceivedEchoBackDoes DEF Becomes
      <4>. QED
        BY <2>1, <2>2, <2>3, <2>5, <3>2, <4>2
    <3>6. CASE m.type \notin {"hello", "echo", "echo_back"}
      <4>1. r.p = [p EXCEPT !.streams = @ \cup {m.id}]
        BY <1>1, <3>1, <3>6, EstablishedHandlerDoes
      <4>2. /\ r.p.state = p.state /\ r.p.handler = p.handler /\ r.p.timer = p.timer
            /\ r.p.epub = p.epub /\ r.p.peer_epub = p.peer_epub /\ r.p.key = p.key
        BY <4>1 DEF Object
      <4>. QED
        BY <2>1, <2>3, <2>5, <3>2, <4>2
    <3>. QED
      BY <3>3, <3>4, <3>5, <3>6
  <2>. QED
    BY <1>6, <2>4, <2>5
<1>7. p.handler \in {"hello", "public_key", "echo", "established"}
  BY ObjectIs DEF PeerOK, PhaseOK
<1>. QED
  BY <1>4, <1>5, <1>6, <1>7

\* The part of the invariant about the peers, about queued handlers, and about
\* the network.
PeersOK ==
    /\ peers \in [Sites -> SUBSET Object]
    /\ \A s \in Sites : \A p, q \in peers[s] : p = q
    /\ \A s \in Sites : \A p \in peers[s] : PeerOK(s, p)

FiredOK ==
    /\ fired \in [Sites -> SUBSET Message]
    /\ \A s \in Sites : \A m \in fired[s] : SentBy(s, m)

NetOK ==
    /\ IsABag(net)
    /\ \A d \in BagToSet(net) :
         d \in [to : Sites, msg : Message] /\ SentBy(Other(d.to), d.msg)

\* With the counters, they are the invariant.
LEMMA Parts ==
    Inv <=> /\ PeersOK /\ FiredOK /\ NetOK
            /\ generated \in [Sites -> 0 .. MaxKeys]
            /\ commands \in [Sites -> 0 .. MaxCommands]
BY DEF Inv, TypeOK, PeersOK, FiredOK, NetOK

\* A site's peer is replaced.
LEMMA PeerReplaced ==
    ASSUME PeersOK, NEW s \in Sites, NEW p \in Object, PeerOK(s, p),
           peers' = [peers EXCEPT ![s] = {p}]
    PROVE  PeersOK'
BY DEF PeersOK

\* A site sends datagrams of its own.
LEMMA Sends ==
    ASSUME NetOK, NEW s \in Sites, NEW out, \A m \in out : SentBy(s, m),
           IsABag(net'),
           BagToSet(net') \subseteq BagToSet(net) \cup {[to |-> Other(s), msg |-> m] : m \in out}
    PROVE  NetOK'
<1>. SUFFICES ASSUME NEW d \in BagToSet(net')
              PROVE  d \in [to : Sites, msg : Message] /\ SentBy(Other(d.to), d.msg)
  BY DEF NetOK
<1>1. CASE d \in BagToSet(net)
  BY <1>1 DEF NetOK
<1>2. ASSUME NEW m \in out, d = [to |-> Other(s), msg |-> m]
      PROVE  d \in [to : Sites, msg : Message] /\ SentBy(Other(d.to), d.msg)
  BY <1>2, TwoSites DEF SentBy
<1>. QED
  BY <1>1, <1>2

\* A peer of a site is fed.
LEMMA FedInv ==
    ASSUME Inv, NEW d \in BagToSet(net), NEW p \in Object, PeerOK(d.to, p),
           NEW out, \A m \in out : SentBy(d.to, m), Fed(d.to, d, p, out)
    PROVE  Inv'
<1>. DEFINE s == d.to
            k == NextKey(s)
            i == generated[s] + 1
            r == Feed(p, d.msg, k)
            n == IF k \in r.p.epub THEN i ELSE generated[s]
            all == out \cup r.out
<1>1. /\ s \in Sites /\ SentBy(Other(s), d.msg) /\ NetOK /\ FiredOK /\ PeersOK
      /\ generated \in [Sites -> 0 .. MaxKeys] /\ commands \in [Sites -> 0 .. MaxCommands]
  BY Parts DEF NetOK
<1>2. /\ n <= MaxKeys
      /\ peers' = [peers EXCEPT ![s] = {r.p}]
      /\ generated' = [generated EXCEPT ![s] = n]
      /\ net' = (net (-) SetToBag({d})) (+) Posted(s, all)
      /\ UNCHANGED <<fired, commands>>
  BY DEF Fed
<1>3. k = <<s, i>> /\ i \in Nat /\ generated[s] \in Nat
  BY <1>1, BoundsAssumption DEF NextKey
<1>4. n \in 0 .. MaxKeys /\ (k \in r.p.epub => i \in 1 .. MaxKeys)
  BY <1>2, <1>3, BoundsAssumption
<1>5. r.p \in Object /\ PeerOK(s, r.p) /\ \A x \in r.out : SentBy(s, x)
  BY <1>1, <1>3, <1>4, FeedOK
<1>. HIDE DEF r, k, n, i
<1>6. PeersOK'
  BY <1>1, <1>2, <1>5, PeerReplaced
<1>7. NetOK'
  <2>. DEFINE S == {[to |-> Other(s), msg |-> m] : m \in all}
  <2>1. net' = (net (-) SetToBag({d})) (+) SetToBag(S)
    BY <1>2 DEF Posted
  <2>2. \A m \in all : SentBy(s, m)
    BY <1>5
  <2>3. IsABag(net)
    BY <1>1 DEF NetOK
  <2>. HIDE DEF S, all
  <2>4. IsABag(net') /\ BagToSet(net') \subseteq BagToSet(net) \cup S
    BY <2>1, <2>3, Bag
  <2>. QED
    BY <1>1, <2>2, <2>4, Sends DEF S
<1>8. FiredOK' /\ generated' \in [Sites -> 0 .. MaxKeys] /\ commands' \in [Sites -> 0 .. MaxCommands]
  BY <1>1, <1>2, <1>4 DEF FiredOK
<1>. QED
  BY <1>6, <1>7, <1>8 DEF Inv, TypeOK, PeersOK, FiredOK, NetOK

\* A site sends what is its own beyond what it was fed.
LEMMA PostedOK ==
    ASSUME NetOK, NEW s \in Sites, NEW out, \A m \in out : SentBy(s, m),
           net' = net (+) Posted(s, out)
    PROVE  NetOK'
<1>. DEFINE S == {[to |-> Other(s), msg |-> m] : m \in out}
<1>1. net' = net (+) SetToBag(S) /\ IsABag(net)
  BY DEF Posted, NetOK
<1>. HIDE DEF S
<1>2. IsABag(net') /\ BagToSet(net') \subseteq BagToSet(net) \cup S
  BY <1>1, Bag
<1>. QED
  BY <1>2, Sends DEF S

\* The initial state satisfies the invariant.
LEMMA InitInv == Init => Inv
<1>. SUFFICES ASSUME Init PROVE Inv
  OBVIOUS
<1>1. IsABag(net) /\ BagToSet(net) = {}
  BY DEF Init, IsABag, BagToSet, EmptyBag, SetToBag
<1>2. generated \in [Sites -> 0 .. MaxKeys] /\ commands \in [Sites -> 0 .. MaxCommands]
  BY BoundsAssumption DEF Init
<1>. QED
  BY <1>1, <1>2 DEF Init, Inv, TypeOK

\* Every step keeps the invariant.
LEMMA StepInv == Inv /\ [Next]_vars => Inv'
<1>. SUFFICES ASSUME Inv, [Next]_vars PROVE Inv'
  OBVIOUS
<1>. USE DEF PeersOK, FiredOK
<1>1. /\ PeersOK /\ FiredOK /\ NetOK
      /\ generated \in [Sites -> 0 .. MaxKeys] /\ commands \in [Sites -> 0 .. MaxCommands]
  BY Parts
<1>2. ASSUME PeersOK', FiredOK', NetOK',
             generated' \in [Sites -> 0 .. MaxKeys], commands' \in [Sites -> 0 .. MaxCommands]
      PROVE  Inv'
  BY <1>2 DEF Inv, TypeOK, NetOK
<1>3. \A d \in BagToSet(net) : d.to \in Sites
  BY <1>1 DEF NetOK
<1>4. ASSUME NEW s \in Sites, NEW c, Commanded(s, c) PROVE commands' \in [Sites -> 0 .. MaxCommands]
  <2>1. commands[s] + 1 \in 0 .. MaxCommands
    BY <1>1, <1>4, BoundsAssumption DEF Commanded
  <2>. QED
    BY <1>1, <1>4, <2>1 DEF Commanded
<1>5. ASSUME NEW d \in BagToSet(net), Receive(d) PROVE Inv'
  <2>1. PICK p \in peers[d.to] : Fed(d.to, d, p, {})
    BY <1>5 DEF Receive
  <2>2. p \in Object /\ PeerOK(d.to, p)
    BY <1>1, <1>3
  <2>. QED
    BY <2>1, <2>2, FedInv
<1>6. ASSUME NEW d \in BagToSet(net), ReceiveFirst(d) PROVE Inv'
  <2>. DEFINE p == Constructed.p
              out == Constructed.out
  <2>1. p \in Object /\ PeerOK(d.to, p) /\ out = {Hello}
    BY <1>3, ConstructedOK
  <2>2. Fed(d.to, d, p, out)
    BY <1>6 DEF ReceiveFirst
  <2>3. \A m \in out : SentBy(d.to, m)
    BY <1>3, <2>1, Handshakes
  <2>. HIDE DEF p, out
  <2>. QED
    BY <2>1, <2>2, <2>3, FedInv
<1>7. ASSUME NEW s \in Sites, TimerExpires(s) PROVE Inv'
  <2>1. PICK p \in peers[s] : /\ fired' = [fired EXCEPT ![s] = p.timer]
                              /\ peers' = [peers EXCEPT ![s] = {[p EXCEPT !.timer = {}]}]
    BY <1>7 DEF TimerExpires
  <2>. DEFINE q == [p EXCEPT !.timer = {}]
  <2>2. p \in Object /\ PeerOK(s, p) /\ p.timer \subseteq Message
    BY <1>1, ObjectIs
  <2>3. q \in Object /\ PeerOK(s, q)
    BY <2>2 DEF Object, PeerOK, PhaseOK, KeysOK
  <2>. HIDE DEF q
  <2>4. PeersOK'
    BY <1>1, <2>1, <2>3, PeerReplaced DEF q
  <2>5. FiredOK'
    BY <1>1, <2>1, <2>2 DEF PeerOK
  <2>. QED
    BY <1>1, <1>2, <1>7, <2>4, <2>5 DEF TimerExpires, NetOK
<1>8. ASSUME NEW s \in Sites, Retransmit(s) PROVE Inv'
  <2>1. PICK m \in fired[s], p \in peers[s] :
             /\ peers' = [peers EXCEPT ![s] = {WithRetransmit(p, m)}]
             /\ net' = net (+) Posted(s, {m})
    BY <1>8 DEF Retransmit
  <2>. DEFINE q == WithRetransmit(p, m)
  <2>2. p \in Object /\ PeerOK(s, p) /\ SentBy(s, m) /\ m \in Message
    BY <1>1
  <2>3. q \in Object /\ PeerOK(s, q)
    BY <2>2 DEF WithRetransmit, Object, PeerOK, PhaseOK, KeysOK
  <2>. HIDE DEF q
  <2>4. PeersOK'
    BY <1>1, <2>1, <2>3, PeerReplaced DEF q
  <2>5. NetOK'
    BY <1>1, <2>1, <2>2, PostedOK
  <2>. QED
    BY <1>1, <1>2, <1>8, <2>4, <2>5 DEF Retransmit
<1>9. ASSUME NEW s \in Sites, AddPeer(s) \/ AddPeerAgain(s) PROVE Inv'
  <2>. DEFINE p == Constructed.p
              out == Constructed.out
  <2>1. p \in Object /\ PeerOK(s, p) /\ \A m \in out : SentBy(s, m)
    BY ConstructedOK, Handshakes
  <2>2. /\ peers' = [peers EXCEPT ![s] = {p}] \/ peers' = peers
        /\ net' = net (+) Posted(s, out) /\ UNCHANGED <<fired, generated>>
        /\ \E c : Commanded(s, c)
    BY <1>9 DEF AddPeer, AddPeerAgain
  <2>. HIDE DEF p, out
  <2>3. PeersOK'
    BY <1>1, <2>1, <2>2, PeerReplaced
  <2>4. NetOK'
    BY <1>1, <2>1, <2>2, PostedOK
  <2>. QED
    BY <1>1, <1>2, <1>4, <2>2, <2>3, <2>4
<1>10. ASSUME NEW s \in Sites, DelPeer(s) \/ Restart(s) PROVE Inv'
  <2>1. /\ peers' = [peers EXCEPT ![s] = {}]
        /\ fired' = [fired EXCEPT ![s] = {}] \/ fired' = fired
        /\ UNCHANGED <<generated, net>> /\ \E c : Commanded(s, c)
    BY <1>10 DEF DelPeer, Restart
  <2>. QED
    BY <1>1, <1>2, <1>4, <2>1 DEF NetOK
<1>10a. ASSUME NEW d \in BagToSet(net), AgreeFails(d) PROVE Inv'
  <2>. DEFINE s == d.to
  <2>1. /\ peers' = [peers EXCEPT ![s] = {}] /\ fired' = [fired EXCEPT ![s] = {}]
        /\ generated' = generated /\ Commanded(s, "fail")
    BY <1>10a DEF AgreeFails
  <2>2. PICK out \in SUBSET PublicKeyAnswers(d.msg) :
             net' = (net (-) SetToBag({d})) (+) Posted(s, out)
    BY <1>10a DEF AgreeFails
  <2>3. s \in Sites /\ IsABag(net)
    BY <1>1, <1>3 DEF NetOK
  <2>4. \A m \in out : SentBy(s, m)
    BY <2>2, <2>3, Handshakes DEF PublicKeyAnswers
  <2>. DEFINE S == {[to |-> Other(s), msg |-> m] : m \in out}
  <2>5. net' = (net (-) SetToBag({d})) (+) SetToBag(S)
    BY <2>2 DEF Posted
  <2>. HIDE DEF S
  <2>6. IsABag(net') /\ BagToSet(net') \subseteq BagToSet(net) \cup S
    BY <2>3, <2>5, Bag
  <2>7. NetOK'
    BY <1>1, <2>3, <2>4, <2>6, Sends DEF S
  <2>. QED
    BY <1>1, <1>2, <1>4, <2>1, <2>3, <2>7
<1>11. ASSUME NEW s \in Sites, NEW id \in UserStreams, AddStream(s, id) \/ DelStream(s, id) PROVE Inv'
  <2>1. /\ \E p \in peers[s], z \in SUBSET StreamIds :
             peers' = [peers EXCEPT ![s] = {[p EXCEPT !.streams = z]}]
        /\ UNCHANGED <<fired, generated, net>> /\ Commanded(s, "stream")
    <3>1. \A p \in peers[s] : /\ p.streams \cup {id} \in SUBSET StreamIds
                              /\ p.streams \ {id} \in SUBSET StreamIds
      BY <1>1, ObjectIs DEF StreamIds
    <3>. QED
      BY <1>11, <3>1 DEF AddStream, DelStream
  <2>2. PICK p \in peers[s], z \in SUBSET StreamIds :
             peers' = [peers EXCEPT ![s] = {[p EXCEPT !.streams = z]}]
    BY <2>1
  <2>. DEFINE q == [p EXCEPT !.streams = z]
  <2>3. p \in Object /\ PeerOK(s, p)
    BY <1>1
  <2>4. q \in Object /\ PeerOK(s, q)
    BY <2>3 DEF Object, PeerOK, PhaseOK, KeysOK
  <2>. HIDE DEF q
  <2>5. PeersOK'
    BY <1>1, <2>2, <2>4, PeerReplaced DEF q
  <2>. QED
    BY <1>1, <1>2, <1>4, <2>1, <2>5 DEF NetOK
<1>12. ASSUME NEW s \in Sites, NEW id \in StreamIds, SendData(s, id) PROVE Inv'
  <2>1. PICK p \in peers[s] : net' = net (+) Posted(s, {Data(id, p.key)})
    BY <1>12 DEF SendData
  <2>2. SentBy(s, Data(id, p.key))
    <3>1. p.key \in SUBSET EphemeralKey
      BY <1>1, ObjectIs
    <3>. QED
      BY <3>1 DEF SentBy, Data, Message, Types
  <2>3. NetOK'
    BY <1>1, <2>1, <2>2, PostedOK
  <2>. QED
    BY <1>1, <1>2, <1>12, <2>3 DEF SendData
<1>13. ASSUME NEW d \in BagToSet(net), Lose(d) \/ Duplicate(d) PROVE Inv'
  <2>1. IsABag(net') /\ BagToSet(net') \subseteq BagToSet(net)
    <3>1. IsABag(net)
      BY <1>1 DEF NetOK
    <3>2. net' = net (-) SetToBag({d}) \/ net' = net (+) SetToBag({d})
      BY <1>13 DEF Lose, Duplicate
    <3>3. IsABag(net (-) SetToBag({d})) /\ BagToSet(net (-) SetToBag({d})) \subseteq BagToSet(net)
      BY <3>1, Bag
    <3>4. IsABag(net (+) SetToBag({d})) /\ BagToSet(net (+) SetToBag({d})) \subseteq BagToSet(net)
      <4>. DEFINE S == {d}
      <4>1. BagToSet(net) \cup S = BagToSet(net)
        OBVIOUS
      <4>. HIDE DEF S
      <4>2. IsABag(net (+) SetToBag(S)) /\ BagToSet(net (+) SetToBag(S)) \subseteq BagToSet(net)
        BY <3>1, <4>1, Bag
      <4>. QED
        BY <4>2 DEF S
    <3>. QED
      BY <3>2, <3>3, <3>4
  <2>2. NetOK'
    BY <1>1, <2>1 DEF NetOK
  <2>. QED
    BY <1>1, <1>2, <1>13, <2>2 DEF Lose, Duplicate
<1>14. ASSUME UNCHANGED vars PROVE Inv'
  BY <1>1, <1>2, <1>14 DEF vars, NetOK
<1>. QED
  BY <1>5, <1>6, <1>7, <1>8, <1>9, <1>10, <1>10a, <1>11, <1>12, <1>13, <1>14 DEF Next

\* The invariant holds of every behaviour, with any loss, duplication, reordering
\* and lateness, and any commands.
THEOREM PeerInvariant == Spec => []Inv
BY InitInv, StepInv, PTL DEF Spec

\* Every variable keeps its type; a site never has two peers for the other.
THEOREM PeerTypeOK == Spec => []TypeOK
<1>1. Inv => TypeOK
  BY DEF Inv
<1>. QED
  BY <1>1, PeerInvariant, PTL

\* established_handler never throws: through any resets, restarts and late
\* retransmissions, who is called through it has every flag of established.
THEOREM PeerNeverThrows == Spec => []NeverThrows
<1>1. Inv => NeverThrows
  BY DEF Inv, PeerOK, PhaseOK, NeverThrows
<1>. QED
  BY <1>1, PeerInvariant, PTL

\* encrypt_layer_ is there when it is used, made from a key of each side.
THEOREM PeerEncryptorReady == Spec => []EncryptorReady
<1>1. Inv => EncryptorReady
  BY DEF Inv, PeerOK, KeysOK, EncryptorReady, established
<1>. QED
  BY <1>1, PeerInvariant, PTL

-----------------------------------------------------------------------------
(* The handshake of two sites whose answers are not late *)

\* UDP loses and reorders, but does not repeat what belongs to the handshake,
\* and no timer expires while anything is on its way.
Prompt == ~ EarlyTimeout /\ Duplicating \subseteq {"data"}

\* Moreover no site starts over, ...
Undisturbed == Prompt /\ Commands \subseteq {"add", "stream"}

\* ... or, where one may, nothing of its past is on its way when it does.
Orderly ==
    /\ Prompt
    /\ Commands \subseteq {"add", "stream", "restart"}
    /\ "restart" \in Commands => ~ Lingering

\* What a peer repeats until it is answered, and whether it is.
Flight(p) ==
    CASE p.handler = "hello"      -> {Hello}
      [] p.handler = "public_key" -> {PublicKey(p.epub)}
      [] p.handler = "echo"       -> {Echo}
      [] OTHER                    -> {}

Answered(p) ==
    \/ p.handler = "hello" /\ "received_hello_ack" \in p.state
    \/ p.handler = "public_key" /\ "received_public_key_ack" \in p.state
    \/ p.handler = "established"

HasKey(p) == p.handler \in {"echo", "established"}

\* What holds of one peer, and what its flags say of the other's, q in Q.
LocalOK(p) ==
    /\ p.handler = "hello" => /\ "sent_hello" \in p.state
                              /\ ~ (hello_complete \subseteq p.state)
    /\ p.handler = "public_key" => ~ (public_key_exchanged \subseteq p.state)
    /\ p.handler = "echo" => "wait_for_echo" \in p.state
    /\ HasKey(p) => p.key = p.epub \cup p.peer_epub
    /\ p.timer \subseteq Flight(p)
    /\ Answered(p) => p.timer = {}
    /\ p.streams \subseteq UserStreams

Knows(p, Q) ==
    /\ "received_hello_ack" \in p.state => \E q \in Q : "received_hello" \in q.state
    /\ "received_public_key_ack" \in p.state => \E q \in Q : "received_public_key" \in q.state
    /\ "received_public_key" \in p.state =>
         \E q \in Q : q.handler # "hello" /\ p.peer_epub = q.epub
    /\ p.handler = "established" => \E q \in Q : HasKey(q)

\* The sender, in S, still waits for the answer to m.
Awaits(S, m) == \E p \in S : ~ Answered(p) /\ m \in Flight(p)

\* The answer m to the one in S, sent by the one in Q, says what the latter did.
Answers(S, Q, m) ==
    \E p \in S, q \in Q :
        /\ ~ Answered(p)
        /\ m.type = "ack" =>
             \/ p.handler = "hello" /\ "received_hello" \in q.state
             \/ p.handler = "public_key" /\ "received_public_key" \in q.state
        /\ m.type = "echo_back" => p.handler = "echo" /\ HasKey(q)

Asks == {"hello", "public_key", "echo"}
Replies == {"ack", "echo_back"}

\* What the datagram m, sent by the one in Q to the one in S, says.
DatagramOK(S, Q, m) ==
    /\ m.type \in Asks => Awaits(Q, m)
    /\ m.type \in Replies => Answers(S, Q, m)
    /\ m.type = "data" => m.id \in UserStreams

\* d is the flight of site s, or the answer to it.  There is at most one such
\* datagram, and none while a retransmission is queued.
Concerns(s, d) ==
    \/ d.to = Other(s) /\ d.msg.type \in Asks
    \/ d.to = s /\ d.msg.type \in Replies

StopAndWait(s, F, N) ==
    \A d, e \in BagToSet(N) :
        Concerns(s, d) /\ Concerns(s, e) => d = e /\ N[d] = 1 /\ F[s] = {}

\* All this of the peers P, the queued retransmissions F and the network N.
Linked(P, F, N) ==
    /\ \A s \in Sites : \A p \in P[s] : LocalOK(p) /\ Knows(p, P[Other(s)])
    /\ \A s \in Sites : \A m \in F[s] : Awaits(P[s], m)
    /\ \A d \in BagToSet(N) : DatagramOK(P[d.to], P[Other(d.to)], d.msg)
    /\ \A s \in Sites : StopAndWait(s, F, N)

SessionInv == Inv /\ Linked(peers, fired, net)

-----------------------------------------------------------------------------
\* Nothing of the exchange of s is under way.
Quiet(s, F, N) == F[s] = {} /\ \A e \in BagToSet(N) : ~ Concerns(s, e)

\* c is p after a while: flags but that of the echo stay, and so do keys in use.
Advances(p, c) ==
    /\ p.state \ {"wait_for_echo"} \subseteq c.state
    /\ p.handler # "hello" => c.handler # "hello" /\ c.epub = p.epub
    /\ HasKey(p) => HasKey(c) /\ c.key = p.key

SameFlight(p, c) ==
    /\ c.handler = p.handler /\ Flight(c) = Flight(p)
    /\ Answered(c) <=> Answered(p)

\* What site s may do when its peer becomes c and sends out: it asks only when
\* nothing of its own is under way, and replies only to what it took.
Reacts(s, P, F, M, c, out) ==
    /\ \A p \in P[s] : Advances(p, c)
    /\ LocalOK(c) /\ Knows(c, P[Other(s)])
    /\ Quiet(s, F, M) \/ \E p \in P[s] : SameFlight(p, c)
    /\ \A m \in out : DatagramOK(P[Other(s)], {c}, m)
    /\ \A m \in out : m.type \in Asks => Quiet(s, F, M)
    /\ \A m \in out : m.type \in Replies => Quiet(Other(s), F, M)
    /\ \A m, n \in out : m.type \in Asks /\ n.type \in Asks => m = n
    /\ \A m, n \in out : m.type \in Replies /\ n.type \in Replies => m = n

\* How many copies a bag has of what is left when one is taken out.
LEMMA CopiesLeft ==
    ASSUME NEW B, IsABag(B), NEW d
    PROVE  /\ \A e \in BagToSet(B (-) SetToBag({d})) : B[e] = 1 => (B (-) SetToBag({d}))[e] = 1
           /\ d \in BagToSet(B) /\ B[d] = 1 => d \notin BagToSet(B (-) SetToBag({d}))
BY DEF IsABag, BagToSet, SetToBag, (-)

\* ... and what is put into one.
LEMMA CopiesAdded ==
    ASSUME NEW B, IsABag(B), NEW S
    PROVE  /\ BagToSet(B (+) SetToBag(S)) = BagToSet(B) \cup S
           /\ \A e \in BagToSet(B) : e \notin S => (B (+) SetToBag(S))[e] = B[e]
           /\ \A e \in S : e \notin BagToSet(B) => (B (+) SetToBag(S))[e] = 1
BY DEF IsABag, BagToSet, SetToBag, (+)

\* A datagram that is taken from the network, received or lost, leaves what
\* it was about quiet.
LEMMA Consumed ==
    ASSUME NEW P, NEW F, NEW N, IsABag(N), Linked(P, F, N), NEW d \in BagToSet(N)
    PROVE  LET M == N (-) SetToBag({d})
           IN  /\ IsABag(M) /\ BagToSet(M) \subseteq BagToSet(N)
               /\ Linked(P, F, M)
               /\ \A s \in Sites : Concerns(s, d) => Quiet(s, F, M)
<1>. DEFINE M == N (-) SetToBag({d})
<1>1. /\ IsABag(M) /\ BagToSet(M) \subseteq BagToSet(N)
      /\ \A e \in BagToSet(M) : N[e] = 1 => M[e] = 1
      /\ N[d] = 1 => d \notin BagToSet(M)
  BY Bag, CopiesLeft
<1>. HIDE DEF M
<1>2. \A s \in Sites : StopAndWait(s, F, N)
  BY DEF Linked
<1>3. \A s \in Sites : StopAndWait(s, F, M)
  BY <1>1, <1>2 DEF StopAndWait
<1>4. \A s \in Sites : Concerns(s, d) => Quiet(s, F, M)
  BY <1>1, <1>2 DEF StopAndWait, Quiet
<1>5. Linked(P, F, M)
  BY <1>1, <1>3 DEF Linked
<1>. QED
  BY <1>1, <1>4, <1>5 DEF M

\* What is said of a peer is still true when it has advanced.
LEMMA StillKnown ==
    ASSUME NEW q, NEW S, NEW c, \A p \in S : Advances(p, c), Knows(q, S)
    PROVE  Knows(q, {c})
BY DEF Knows, Advances, HasKey

\* So are the datagrams that it has sent, or that are sent to it, if it has not
\* begun another flight.
LEMMA StillOK ==
    ASSUME NEW S, NEW Q, NEW c, NEW m, \A p \in S : Advances(p, c)
    PROVE  /\ m.type \notin Asks /\ DatagramOK(Q, S, m) => DatagramOK(Q, {c}, m)
           /\ m.type \notin Replies /\ DatagramOK(S, Q, m) => DatagramOK({c}, Q, m)
           /\ (\A p \in S : SameFlight(p, c)) /\ DatagramOK(Q, S, m) => DatagramOK(Q, {c}, m)
           /\ (\A p \in S : SameFlight(p, c)) /\ DatagramOK(S, Q, m) => DatagramOK({c}, Q, m)
<1>1. DatagramOK(Q, S, m) /\ m.type \in Replies => Answers(Q, {c}, m)
  BY DEF DatagramOK, Answers, Advances, HasKey
<1>2. DatagramOK(Q, S, m) /\ m.type = "data" => m.id \in UserStreams
  BY DEF DatagramOK
<1>3. DatagramOK(Q, S, m) /\ m.type \in Asks /\ (\A p \in S : SameFlight(p, c)) => Awaits({c}, m)
  BY DEF DatagramOK, Awaits, SameFlight
<1>4. DatagramOK(S, Q, m) /\ m.type \in Replies /\ (\A p \in S : SameFlight(p, c)) =>
        Answers({c}, Q, m)
  BY DEF DatagramOK, Answers, SameFlight
<1>5. DatagramOK(S, Q, m) /\ m.type \notin Replies => DatagramOK({c}, Q, m)
  BY DEF DatagramOK
<1>6. DatagramOK(Q, S, m) /\ m.type \notin Asks => DatagramOK(Q, {c}, m)
  BY <1>1, <1>2 DEF DatagramOK
<1>. QED
  BY <1>1, <1>2, <1>3, <1>4, <1>5, <1>6 DEF DatagramOK

\* A site that reacts so keeps the two linked.
LEMMA ActsLinked ==
    ASSUME NEW s \in Sites, NEW P \in [Sites -> SUBSET Object], NEW F, NEW M, IsABag(M),
           \A t \in Sites : \A p, q \in P[t] : p = q,
           \A e \in BagToSet(M) : e.to \in Sites,
           Linked(P, F, M), NEW c, NEW out, Reacts(s, P, F, M, c, out)
    PROVE  Linked([P EXCEPT ![s] = {c}], F, M (+) Posted(s, out))
<1>. DEFINE o == Other(s)
            R == [P EXCEPT ![s] = {c}]
            S == {[to |-> o, msg |-> m] : m \in out}
            N == M (+) Posted(s, out)
<1>1. o \in Sites /\ o # s /\ Other(o) = s /\ \A t \in Sites : t = s \/ t = o
  BY TwoSites
<1>2. R[s] = {c} /\ R[o] = P[o]
  BY <1>1
<1>3. /\ BagToSet(N) = BagToSet(M) \cup S
      /\ \A e \in BagToSet(M) : e \notin S => N[e] = M[e]
      /\ \A e \in S : e \notin BagToSet(M) => N[e] = 1
  <2>0. IsABag(M)
    OBVIOUS
  <2>1. N = M (+) SetToBag(S)
    BY DEF Posted
  <2>. HIDE DEF S, N
  <2>2. /\ BagToSet(M (+) SetToBag(S)) = BagToSet(M) \cup S
        /\ \A e \in BagToSet(M) : e \notin S => (M (+) SetToBag(S))[e] = M[e]
        /\ \A e \in S : e \notin BagToSet(M) => (M (+) SetToBag(S))[e] = 1
    BY ONLY <2>0, CopiesAdded
  <2>. QED
    BY <2>1, <2>2
<1>. HIDE DEF R, N
<1>4. /\ \A p \in P[s] : Advances(p, c)
      /\ Quiet(s, F, M) \/ \A p \in P[s] : SameFlight(p, c)
      /\ Quiet(s, F, M) \/ P[s] # {}
  BY DEF Reacts
<1>5. \A t \in Sites : \A p \in R[t] : LocalOK(p) /\ Knows(p, R[Other(t)])
  <2>1. LocalOK(c) /\ Knows(c, R[o])
    BY <1>2 DEF Reacts
  <2>2. ASSUME NEW q \in R[o] PROVE LocalOK(q) /\ Knows(q, R[Other(o)])
    <3>1. LocalOK(q) /\ Knows(q, P[s])
      BY <1>1, <1>2, <2>2 DEF Linked
    <3>. QED
      BY <1>1, <1>2, <1>4, <3>1, StillKnown
  <2>. QED
    BY <1>1, <1>2, <2>1, <2>2
<1>6. \A t \in Sites : \A m \in F[t] : Awaits(R[t], m)
  <2>1. \A m \in F[s] : Awaits(P[s], m)
    BY DEF Linked
  <2>2. \A m \in F[s] : Awaits({c}, m)
    BY <1>4, <2>1 DEF Quiet, Awaits, SameFlight
  <2>3. \A m \in F[o] : Awaits(R[o], m)
    BY <1>1, <1>2 DEF Linked
  <2>. QED
    BY <1>1, <1>2, <2>2, <2>3
<1>7. \A e \in BagToSet(N) : DatagramOK(R[e.to], R[Other(e.to)], e.msg)
  <2>1. ASSUME NEW e \in BagToSet(M) PROVE DatagramOK(R[e.to], R[Other(e.to)], e.msg)
    <3>1. DatagramOK(P[e.to], P[Other(e.to)], e.msg) /\ e.to \in {s, o}
      BY <1>1, <2>1 DEF Linked
    <3>2. Concerns(s, e) => \A p \in P[s] : SameFlight(p, c)
      BY <1>4, <2>1 DEF Quiet
    <3>3. CASE e.to = s
      <4>1. DatagramOK(P[s], P[o], e.msg) /\ (e.msg.type \in Replies => Concerns(s, e))
        BY <3>1, <3>3 DEF Concerns
      <4>2. DatagramOK({c}, P[o], e.msg)
        BY <1>4, <3>2, <4>1, StillOK
      <4>. QED
        BY <1>2, <3>3, <4>2
    <3>4. CASE e.to = o
      <4>1. DatagramOK(P[o], P[s], e.msg) /\ (e.msg.type \in Asks => Concerns(s, e))
        BY <1>1, <3>1, <3>4 DEF Concerns
      <4>2. DatagramOK(P[o], {c}, e.msg)
        BY <1>4, <3>2, <4>1, StillOK
      <4>. QED
        BY <1>1, <1>2, <3>4, <4>2
    <3>. QED
      BY <3>1, <3>3, <3>4
  <2>2. ASSUME NEW m \in out
        PROVE  LET e == [to |-> o, msg |-> m] IN DatagramOK(R[e.to], R[Other(e.to)], e.msg)
    <3>1. DatagramOK(P[o], {c}, m)
      BY <2>2 DEF Reacts
    <3>. QED
      BY <1>1, <1>2, <3>1
  <2>. QED
    BY <1>3, <2>1, <2>2
<1>8. \A t \in Sites : StopAndWait(t, F, N)
  <2>1. ASSUME NEW t \in Sites, NEW d \in BagToSet(N), NEW e \in BagToSet(N),
               Concerns(t, d), Concerns(t, e)
        PROVE  d = e /\ N[d] = 1 /\ F[t] = {}
    <3>1. \A x \in S : \A y \in S : Concerns(t, x) /\ Concerns(t, y) => x = y
      <4>1. \A x \in S : /\ x.to = o /\ x.msg \in out /\ x = [to |-> o, msg |-> x.msg]
                         /\ Concerns(t, x) =>
                              \/ t = s /\ x.msg.type \in Asks
                              \/ t = o /\ x.msg.type \in Replies
        BY <1>1 DEF Concerns
      <4>2. \A x \in S : \A y \in S : Concerns(t, x) /\ Concerns(t, y) => x.msg = y.msg
        BY <1>1, <4>1 DEF Reacts
      <4>. HIDE DEF S
      <4>. QED
        BY <4>1, <4>2
    <3>2. \A x \in S : Concerns(t, x) => Quiet(t, F, M)
      <4>1. \A x \in S : /\ x.to = o /\ x.msg \in out
                         /\ Concerns(t, x) =>
                              \/ t = s /\ x.msg.type \in Asks
                              \/ t = o /\ x.msg.type \in Replies
        BY <1>1 DEF Concerns
      <4>. QED
        BY <1>1, <4>1 DEF Reacts
    <3>. HIDE DEF S
    <3>3. CASE d \in S \/ e \in S
      <4>1. Quiet(t, F, M)
        BY <2>1, <3>2, <3>3
      <4>2. d \in S /\ e \in S /\ d \notin BagToSet(M)
        BY <1>3, <2>1, <4>1 DEF Quiet
      <4>. QED
        BY <1>3, <2>1, <3>1, <4>1, <4>2 DEF Quiet
    <3>4. CASE d \notin S /\ e \notin S
      <4>1. d \in BagToSet(M) /\ e \in BagToSet(M) /\ N[d] = M[d]
        BY <1>3, <2>1, <3>4
      <4>2. StopAndWait(t, F, M)
        BY DEF Linked
      <4>. QED
        BY <2>1, <4>1, <4>2 DEF StopAndWait
    <3>. QED
      BY <3>3, <3>4
  <2>. QED
    BY <2>1 DEF StopAndWait
<1>9. Linked(R, F, N)
  BY <1>5, <1>6, <1>7, <1>8 DEF Linked
<1>. QED
  BY <1>9 DEF R, N

\* Who is answered, or not there, has nothing under way.
LEMMA AnsweredQuiet ==
    ASSUME NEW s \in Sites, NEW P, NEW F, NEW M, Linked(P, F, M), \A p \in P[s] : Answered(p)
    PROVE  Quiet(s, F, M)
<1>1. Other(s) \in Sites /\ Other(Other(s)) = s
  BY TwoSites
<1>2. F[s] = {}
  <2>1. \A m \in F[s] : Awaits(P[s], m)
    BY DEF Linked
  <2>. QED
    BY <2>1 DEF Awaits
<1>3. ASSUME NEW e \in BagToSet(M), Concerns(s, e) PROVE FALSE
  <2>1. DatagramOK(P[e.to], P[Other(e.to)], e.msg)
    BY <1>3 DEF Linked
  <2>2. CASE e.to = Other(s) /\ e.msg.type \in Asks
    BY <1>1, <2>1, <2>2 DEF DatagramOK, Awaits
  <2>3. CASE e.to = s /\ e.msg.type \in Replies
    BY <2>1, <2>3 DEF DatagramOK, Answers
  <2>. QED
    BY <1>3, <2>2, <2>3 DEF Concerns
<1>. QED
  BY <1>2, <1>3 DEF Quiet

\* The types of the datagrams.
LEMMA TypesAre ==
    /\ Hello.type = "hello" /\ Ack.type = "ack" /\ Echo.type = "echo"
    /\ EchoBack.type = "echo_back"
    /\ \A e : PublicKey(e).type = "public_key" /\ PublicKey(e).body = e
BY DEF Hello, Ack, Echo, EchoBack, PublicKey

\* Whoever awaits the answer to m has the handler of that phase.
LEMMA FlightIs ==
    ASSUME NEW Q, NEW m, Awaits(Q, m)
    PROVE  \E q \in Q :
             /\ ~ Answered(q)
             /\ m.type = "hello" => q.handler = "hello"
             /\ m.type = "public_key" => q.handler = "public_key" /\ m.body = q.epub
             /\ m.type = "echo" => q.handler = "echo"
<1>1. PICK q \in Q : ~ Answered(q) /\ m \in Flight(q)
  BY DEF Awaits
<1>2. CASE q.handler = "hello"
  BY <1>1, <1>2, TypesAre DEF Flight
<1>3. CASE q.handler = "public_key"
  BY <1>1, <1>3, TypesAre DEF Flight
<1>4. CASE q.handler = "echo"
  BY <1>1, <1>4, TypesAre DEF Flight
<1>5. CASE q.handler \notin {"hello", "public_key", "echo"}
  BY <1>1, <1>5 DEF Flight
<1>. QED
  BY <1>2, <1>3, <1>4, <1>5

\* The reply to such a datagram says what it should.
LEMMA RepliesOK ==
    ASSUME NEW Q, NEW m, Awaits(Q, m), NEW c
    PROVE  /\ m.type = "hello" /\ "received_hello" \in c.state => DatagramOK(Q, {c}, Ack)
           /\ m.type = "public_key" /\ "received_public_key" \in c.state =>
                DatagramOK(Q, {c}, Ack)
           /\ m.type = "echo" /\ HasKey(c) => DatagramOK(Q, {c}, EchoBack)
<1>1. PICK q \in Q :
        /\ ~ Answered(q)
        /\ m.type = "hello" => q.handler = "hello"
        /\ m.type = "public_key" => q.handler = "public_key" /\ m.body = q.epub
        /\ m.type = "echo" => q.handler = "echo"
  BY FlightIs
<1>. QED
  BY <1>1, TypesAre DEF DatagramOK, Answers, Asks, Replies

\* What a peer does with a datagram it took: at most one question and one reply.
LEMMA ReactsIf ==
    ASSUME NEW s, NEW P, NEW F, NEW M, NEW p, P[s] = {p}, NEW c, NEW out,
           Advances(p, c), LocalOK(c), Knows(c, P[Other(s)]),
           Quiet(s, F, M) \/ SameFlight(p, c),
           NEW a, a.type \in Asks, NEW b, b.type \in Replies, out \subseteq {a, b},
           a \in out => Quiet(s, F, M) /\ ~ Answered(c) /\ a \in Flight(c),
           b \in out => Quiet(Other(s), F, M) /\ DatagramOK(P[Other(s)], {c}, b)
    PROVE  Reacts(s, P, F, M, c, out)
<1>1. Asks \cap Replies = {} /\ "data" \notin Asks
  BY DEF Asks, Replies
<1>2. a \in out => DatagramOK(P[Other(s)], {c}, a)
  BY <1>1 DEF DatagramOK, Awaits
<1>. QED
  BY <1>1, <1>2 DEF Reacts

\* Site s took m from the network, of which M is left.
Took(s, P, F, M, m) ==
    /\ DatagramOK(P[s], P[Other(s)], m)
    /\ m.type \in Asks => Quiet(Other(s), F, M)
    /\ m.type \in Replies => Quiet(s, F, M)

\* A peer that does nothing keeps the two linked.
LEMMA NothingReacts ==
    ASSUME NEW s \in Sites, NEW P, NEW F, NEW M, Linked(P, F, M), NEW p \in Object, P[s] = {p}
    PROVE  Reacts(s, P, F, M, p, {})
<1>1. LocalOK(p) /\ Knows(p, P[Other(s)])
  BY DEF Linked
<1>2. Advances(p, p) /\ SameFlight(p, p)
  BY DEF Advances, SameFlight
<1>. QED
  BY <1>1, <1>2 DEF Reacts

\* hello_handler reacts so.
LEMMA HelloReacts ==
    ASSUME NEW s \in Sites, NEW P, NEW F, NEW M, Linked(P, F, M), NEW p \in Object, P[s] = {p},
           PeerOK(s, p), p.handler = "hello", NEW m \in Message, Took(s, P, F, M, m),
           NEW k \in EphemeralKey
    PROVE  Reacts(s, P, F, M, HelloHandler(p, m, k).p, HelloHandler(p, m, k).out)
<1>. DEFINE Q == P[Other(s)]
            r == HelloHandler(p, m, k)
            c == r.p
            a == PublicKey({k})
            st == p.state \cup (IF m.type = "hello" THEN {"received_hello"}
                                ELSE {"received_hello_ack"})
<1>. SUFFICES Reacts(s, P, F, M, c, r.out)
  OBVIOUS
<1>1. LocalOK(p) /\ Knows(p, Q) /\ p.state \subseteq hello_complete
  BY DEF Linked, PeerOK, PhaseOK
<1>2. a \in Message
  BY DEF PublicKey, Message, Types, StreamIds
<1>3. a.type \in Asks /\ Ack.type \in Replies
  BY TypesAre DEF Asks, Replies
<1>. HIDE DEF Q
<1>4. CASE m.type \notin {"hello", "ack"}
  <2>1. c = p /\ r.out = {}
    BY <1>2, <1>4, HelloHandlerDoes
  <2>. QED
    BY <2>1, NothingReacts
<1>5. CASE m.type \in {"hello", "ack"}
  <2>1. ASSUME m.type = "hello", NEW x, "received_hello" \in x.state
        PROVE  Quiet(Other(s), F, M) /\ DatagramOK(Q, {x}, Ack)
    <3>1. Quiet(Other(s), F, M) /\ Awaits(Q, m)
      BY <2>1 DEF Took, DatagramOK, Asks, Q
    <3>. QED
      BY <2>1, <3>1, RepliesOK
  <2>2. ASSUME m.type = "ack"
        PROVE  Quiet(s, F, M) /\ \E q \in Q : "received_hello" \in q.state
    <3>1. Quiet(s, F, M) /\ Answers({p}, Q, m)
      BY <2>2 DEF Took, DatagramOK, Replies, Q
    <3>. QED
      BY <2>2, <3>1 DEF Answers
  <2>3. st \subseteq hello_complete /\ p.state \subseteq st
    BY <1>1, <1>5 DEF hello_complete
  <2>4. "received_hello_ack" \in st => \E q \in Q : "received_hello" \in q.state
    BY <1>1, <1>5, <2>2 DEF Knows
  <2>5. CASE ~ (hello_complete \subseteq st)
    <3>1. /\ c.state = st /\ c.handler = "hello" /\ c.streams = p.streams /\ c.epub = p.epub
          /\ c.timer = IF m.type = "hello" THEN p.timer ELSE {}
          /\ r.out = IF m.type = "hello" THEN {Ack} ELSE {}
      <4>1. Becomes(p, c, st, p.handler, IF m.type = "hello" THEN p.timer ELSE {}, p.epub,
                    p.peer_epub, p.key)
        BY <1>2, <1>5, <2>5, HelloHandlerDoes
      <4>2. r.out = IF m.type = "hello" THEN {Ack} ELSE {}
        BY <1>2, <1>5, <2>5, HelloHandlerDoes
      <4>. HIDE DEF c, r, st
      <4>. QED
        BY <4>1, <4>2 DEF Becomes
    <3>. HIDE DEF r, a
    <3>2. Flight(c) = {Hello} /\ Flight(p) = {Hello}
      BY <3>1 DEF Flight
    <3>3. LocalOK(c)
      BY <1>1, <1>5, <2>5, <3>1, <3>2 DEF LocalOK, HasKey, Answered
    <3>4. Knows(c, Q)
      BY <2>3, <2>4, <3>1 DEF Knows, hello_complete
    <3>5. Advances(p, c)
      BY <2>3, <3>1 DEF Advances, HasKey
    <3>6. Quiet(s, F, M) \/ SameFlight(p, c)
      BY <1>5, <2>2, <3>1, <3>2 DEF SameFlight, Answered
    <3>7. Ack \in r.out => Quiet(Other(s), F, M) /\ DatagramOK(Q, {c}, Ack)
      BY <2>1, <3>1
    <3>8. r.out \subseteq {a, Ack} /\ a \notin r.out
      BY <3>1, TypesAre DEF a
    <3>. HIDE DEF c
    <3>. QED
      BY <1>3, <3>3, <3>4, <3>5, <3>6, <3>7, <3>8, ReactsIf DEF Q
  <2>6. CASE hello_complete \subseteq st
    <3>1. /\ c.state = st \cup {"sent_public_key"} /\ c.handler = "public_key"
          /\ c.streams = p.streams /\ c.epub = {k} /\ c.timer = {a}
          /\ r.out = (IF m.type = "hello" THEN {Ack} ELSE {}) \cup {a}
      BY <1>2, <1>5, <2>6, HelloHandlerDoes DEF Becomes
    <3>2. Flight(c) = {a}
      BY <3>1 DEF Flight
    <3>. HIDE DEF r, a
    <3>3. Quiet(s, F, M)
      <4>1. CASE m.type = "ack"
        BY <2>2, <4>1
      <4>2. CASE m.type = "hello"
        <5>1. Answered(p)
          BY <2>6, <4>2 DEF Answered, hello_complete
        <5>. QED
          BY <5>1, AnsweredQuiet
      <4>. QED
        BY <1>5, <4>1, <4>2
    <3>4. "received_public_key_ack" \notin c.state /\ "received_public_key" \notin c.state
      BY <2>3, <3>1 DEF hello_complete
    <3>5. LocalOK(c) /\ ~ Answered(c)
      BY <1>1, <3>1, <3>2, <3>4 DEF LocalOK, HasKey, Answered, public_key_exchanged
    <3>6. Knows(c, Q)
      BY <2>4, <3>1, <3>4 DEF Knows
    <3>7. Advances(p, c)
      BY <2>3, <3>1 DEF Advances, HasKey
    <3>8. Ack \in r.out => Quiet(Other(s), F, M) /\ DatagramOK(Q, {c}, Ack)
      <4>1. "received_hello" \in c.state
        BY <2>6, <3>1 DEF hello_complete
      <4>2. Ack # a
        BY TypesAre DEF a
      <4>. QED
        BY <2>1, <3>1, <4>1, <4>2
    <3>9. r.out \subseteq {a, Ack}
      BY <3>1
    <3>. HIDE DEF c
    <3>. QED
      BY <1>3, <3>2, <3>3, <3>5, <3>6, <3>7, <3>8, <3>9, ReactsIf DEF Q
  <2>. QED
    BY <2>5, <2>6
<1>. QED
  BY <1>4, <1>5

\* public_key_exchange_handler reacts so.
LEMMA PublicKeyReacts ==
    ASSUME NEW s \in Sites, NEW P, NEW F, NEW M, Linked(P, F, M), NEW p \in Object, P[s] = {p},
           PeerOK(s, p), p.handler = "public_key", NEW m \in Message, Took(s, P, F, M, m)
    PROVE  Reacts(s, P, F, M, PublicKeyHandler(p, m).p, PublicKeyHandler(p, m).out)
<1>. DEFINE Q == P[Other(s)]
            r == PublicKeyHandler(p, m)
            c == r.p
            st == p.state \cup (IF m.type = "public_key" THEN {"received_public_key"}
                                ELSE IF m.type = "ack" THEN {"received_public_key_ack"}
                                ELSE {})
            pe == IF m.type = "public_key" THEN m.body ELSE p.peer_epub
            tm == IF m.type = "ack" THEN {} ELSE p.timer
<1>. SUFFICES Reacts(s, P, F, M, c, r.out)
  OBVIOUS
<1>1. /\ LocalOK(p) /\ Knows(p, Q) /\ hello_complete \subseteq p.state
      /\ "sent_public_key" \in p.state
  BY DEF Linked, PeerOK, PhaseOK
<1>2. Echo.type \in Asks /\ Ack.type \in Replies /\ Ack # Echo
  BY TypesAre DEF Asks, Replies
<1>. HIDE DEF Q
<1>3. ASSUME m.type \in Asks PROVE Quiet(Other(s), F, M) /\ Awaits(Q, m)
  BY <1>3 DEF Took, DatagramOK, Q
<1>4. ASSUME m.type = "ack"
      PROVE  Quiet(s, F, M) /\ \E q \in Q : "received_public_key" \in q.state
  <2>1. Quiet(s, F, M) /\ Answers({p}, Q, m)
    BY <1>4 DEF Took, DatagramOK, Replies, Q
  <2>. QED
    BY <1>4, <2>1 DEF Answers
<1>5. p.state \subseteq st
  OBVIOUS
<1>6. ASSUME NEW x, x.state \subseteq st \cup {"shared_key_agreement", "wait_for_echo"},
             x.handler # "established", x.peer_epub = pe
      PROVE  Knows(x, Q)
  <2>1. "received_hello_ack" \in p.state
    BY <1>1 DEF hello_complete
  <2>2. "received_public_key_ack" \in st => \E q \in Q : "received_public_key" \in q.state
    BY <1>1, <1>4 DEF Knows
  <2>3. "received_public_key" \in st => \E q \in Q : q.handler # "hello" /\ pe = q.epub
    <3>1. CASE m.type = "public_key"
      <4>1. m.type \in Asks /\ pe = m.body
        BY <3>1 DEF Asks
      <4>2. \E q \in Q : q.handler = "public_key" /\ m.body = q.epub
        BY <1>3, <3>1, <4>1, FlightIs
      <4>. QED
        BY <4>1, <4>2
    <3>2. CASE m.type # "public_key"
      BY <1>1, <3>2 DEF Knows
    <3>. QED
      BY <3>1, <3>2
  <2>. HIDE DEF st, pe
  <2>. QED
    BY <1>1, <1>6, <2>1, <2>2, <2>3 DEF Knows
<1>7. ASSUME NEW x, st \subseteq x.state, Ack \in PublicKeyAnswers(m)
      PROVE  Quiet(Other(s), F, M) /\ DatagramOK(Q, {x}, Ack)
  <2>1. m.type \in {"public_key", "hello"}
    BY <1>7 DEF PublicKeyAnswers
  <2>2. Quiet(Other(s), F, M) /\ Awaits(Q, m)
    BY <1>3, <2>1 DEF Asks
  <2>3. /\ m.type = "hello" => "received_hello" \in x.state
        /\ m.type = "public_key" => "received_public_key" \in x.state
    BY <1>1, <1>7 DEF hello_complete
  <2>. QED
    BY <2>1, <2>2, <2>3, RepliesOK
<1>8. PublicKeyAnswers(m) \subseteq {Ack}
  BY DEF PublicKeyAnswers
<1>9. CASE ~ (public_key_exchanged \subseteq st)
  <2>1. /\ c.state = st /\ c.handler = "public_key" /\ c.streams = p.streams
        /\ c.epub = p.epub /\ c.peer_epub = pe /\ c.timer = tm
        /\ r.out = PublicKeyAnswers(m)
    BY <1>9, PublicKeyHandlerDoes DEF Becomes
  <2>. HIDE DEF r, c
  <2>2. Flight(c) = Flight(p)
    BY <2>1 DEF Flight
  <2>3. LocalOK(c)
    BY <1>1, <1>9, <2>1, <2>2 DEF LocalOK, HasKey, Answered
  <2>4. Advances(p, c)
    BY <1>5, <2>1 DEF Advances, HasKey
  <2>5. Quiet(s, F, M) \/ SameFlight(p, c)
    BY <1>4, <2>1, <2>2 DEF SameFlight, Answered
  <2>6. Knows(c, Q)
    BY <1>6, <2>1
  <2>7. Ack \in r.out => Quiet(Other(s), F, M) /\ DatagramOK(Q, {c}, Ack)
    BY <1>7, <2>1
  <2>8. r.out \subseteq {Echo, Ack} /\ Echo \notin r.out
    BY <1>2, <1>8, <2>1
  <2>. QED
    BY <1>2, <2>3, <2>4, <2>5, <2>6, <2>7, <2>8, ReactsIf DEF Q
<1>10. CASE public_key_exchanged \subseteq st
  <2>1. /\ c.state = st \cup {"shared_key_agreement", "wait_for_echo"} /\ c.handler = "echo"
        /\ c.streams = p.streams /\ c.epub = p.epub /\ c.peer_epub = pe
        /\ c.timer = {Echo} /\ c.key = p.epub \cup pe
        /\ r.out = PublicKeyAnswers(m) \cup {Echo}
    BY <1>10, PublicKeyHandlerDoes DEF Becomes
  <2>. HIDE DEF r, c
  <2>2. Flight(c) = {Echo} /\ ~ Answered(c)
    BY <2>1 DEF Flight, Answered
  <2>3. LocalOK(c)
    BY <1>1, <2>1, <2>2 DEF LocalOK, HasKey
  <2>4. Advances(p, c)
    BY <1>5, <2>1 DEF Advances, HasKey
  <2>5. Quiet(s, F, M)
    <3>1. CASE m.type = "ack"
      BY <1>4, <3>1
    <3>2. CASE m.type # "ack"
      <4>1. Answered(p)
        BY <1>10, <3>2 DEF Answered, public_key_exchanged
      <4>. QED
        BY <4>1, AnsweredQuiet
    <3>. QED
      BY <3>1, <3>2
  <2>6. Knows(c, Q)
    BY <1>6, <2>1
  <2>7. Ack \in r.out => Quiet(Other(s), F, M) /\ DatagramOK(Q, {c}, Ack)
    BY <1>2, <1>7, <2>1
  <2>8. r.out \subseteq {Echo, Ack}
    BY <1>8, <2>1
  <2>. QED
    BY <1>2, <2>2, <2>3, <2>4, <2>5, <2>6, <2>7, <2>8, ReactsIf DEF Q
<1>. QED
  BY <1>9, <1>10

\* echo_handler reacts so.
LEMMA EchoReacts ==
    ASSUME NEW s \in Sites, NEW P, NEW F, NEW M, Linked(P, F, M), NEW p \in Object, P[s] = {p},
           PeerOK(s, p), p.handler = "echo", NEW m \in Message, Took(s, P, F, M, m)
    PROVE  Reacts(s, P, F, M, EchoHandler(p, m).p, EchoHandler(p, m).out)
<1>. DEFINE Q == P[Other(s)]
            r == EchoHandler(p, m)
            c == r.p
            back == m.type = "echo_back"
<1>. SUFFICES Reacts(s, P, F, M, c, r.out)
  OBVIOUS
<1>1. LocalOK(p) /\ Knows(p, Q) /\ established \subseteq p.state /\ "wait_for_echo" \in p.state
  BY DEF Linked, LocalOK, PeerOK, PhaseOK
<1>. HIDE DEF Q
<1>2. /\ c.state = IF back THEN p.state \ {"wait_for_echo"} ELSE p.state
      /\ c.handler = IF back THEN "established" ELSE "echo"
      /\ c.timer = IF back THEN {} ELSE p.timer
      /\ c.epub = p.epub /\ c.peer_epub = p.peer_epub /\ c.key = p.key /\ c.streams = p.streams
      /\ r.out = EchoAnswers(m)
  <2>1. r.out = EchoAnswers(m)
    BY EchoHandlerDoes
  <2>2. Becomes(p, c, IF back THEN p.state \ {"wait_for_echo"} ELSE p.state,
                IF back THEN "established" ELSE "echo", IF back THEN {} ELSE p.timer,
                p.epub, p.peer_epub, p.key)
    BY <1>1, EchoHandlerDoes
  <2>. HIDE DEF r, c, back
  <2>. QED
    BY <2>1, <2>2 DEF Becomes
<1>. HIDE DEF r, c
<1>3. ASSUME back PROVE Quiet(s, F, M) /\ \E q \in Q : HasKey(q)
  <2>1. Quiet(s, F, M) /\ Answers({p}, Q, m)
    BY <1>3 DEF Took, DatagramOK, Replies, Q
  <2>. QED
    BY <1>3, <2>1 DEF Answers
<1>4. Flight(p) = {Echo} /\ Flight(c) = IF back THEN {} ELSE {Echo}
  BY <1>2 DEF Flight
<1>5. LocalOK(c)
  BY <1>1, <1>2, <1>4 DEF LocalOK, HasKey, Answered
<1>6. Knows(c, Q)
  BY <1>1, <1>2, <1>3 DEF Knows
<1>7. Advances(p, c)
  BY <1>2 DEF Advances, HasKey
<1>8. Quiet(s, F, M) \/ SameFlight(p, c)
  BY <1>2, <1>3, <1>4 DEF SameFlight, Answered
<1>9. Ack.type \in Replies /\ EchoBack.type \in Replies /\ Echo.type \in Asks
      /\ Ack # Echo /\ EchoBack # Echo
  BY TypesAre DEF Asks, Replies
<1>10. ASSUME m.type \in Asks PROVE Quiet(Other(s), F, M) /\ Awaits(Q, m)
  BY <1>10 DEF Took, DatagramOK, Q
<1>11. CASE m.type = "echo"
  <2>1. r.out = {EchoBack}
    BY <1>2, <1>11 DEF EchoAnswers
  <2>2. Quiet(Other(s), F, M) /\ Awaits(Q, m) /\ HasKey(c)
    BY <1>2, <1>10, <1>11 DEF Asks, HasKey
  <2>3. DatagramOK(Q, {c}, EchoBack)
    BY <1>11, <2>2, RepliesOK
  <2>4. r.out \subseteq {Echo, EchoBack} /\ Echo \notin r.out
    BY <1>9, <2>1
  <2>. QED
    BY <1>5, <1>6, <1>7, <1>8, <1>9, <2>2, <2>3, <2>4, ReactsIf DEF Q
<1>12. CASE m.type = "public_key"
  <2>1. r.out = {Ack}
    BY <1>2, <1>12 DEF EchoAnswers
  <2>2. Quiet(Other(s), F, M) /\ Awaits(Q, m) /\ "received_public_key" \in c.state
    BY <1>1, <1>2, <1>10, <1>12 DEF Asks, established, public_key_exchanged
  <2>3. DatagramOK(Q, {c}, Ack)
    BY <1>12, <2>2, RepliesOK
  <2>4. r.out \subseteq {Echo, Ack} /\ Echo \notin r.out
    BY <1>9, <2>1
  <2>. QED
    BY <1>5, <1>6, <1>7, <1>8, <1>9, <2>2, <2>3, <2>4, ReactsIf DEF Q
<1>13. CASE m.type \notin {"echo", "public_key"}
  <2>1. r.out = {}
    BY <1>2, <1>13 DEF EchoAnswers
  <2>. QED
    BY <1>5, <1>6, <1>7, <1>8, <1>9, <2>1, ReactsIf DEF Q
<1>. QED
  BY <1>11, <1>12, <1>13

\* established_handler reacts so.  No hello, key or ack arrives there, so that it
\* neither resets nor takes one for a stream's.
LEMMA EstablishedReacts ==
    ASSUME NEW s \in Sites, NEW P, NEW F, NEW M, Linked(P, F, M), NEW p \in Object, P[s] = {p},
           \A x, y \in P[Other(s)] : x = y,
           p.handler = "established", NEW m \in Message, Took(s, P, F, M, m)
    PROVE  Reacts(s, P, F, M, EstablishedHandler(p, m).p, EstablishedHandler(p, m).out)
<1>. DEFINE Q == P[Other(s)]
            r == EstablishedHandler(p, m)
            c == r.p
<1>. SUFFICES Reacts(s, P, F, M, c, r.out)
  OBVIOUS
<1>1. LocalOK(p) /\ Knows(p, Q) /\ \A x, y \in Q : x = y
  BY DEF Linked
<1>. HIDE DEF Q
<1>2. PICK q \in Q : HasKey(q)
  BY <1>1 DEF Knows
<1>3. ASSUME m.type \in Asks PROVE Quiet(Other(s), F, M) /\ Awaits(Q, m)
  BY <1>3 DEF Took, DatagramOK, Q
<1>4. m.type \notin {"hello", "public_key"}
  <2>1. ASSUME m.type \in {"hello", "public_key"} PROVE FALSE
    <3>1. \E x \in Q : x.handler \in {"hello", "public_key"}
      BY <1>3, <2>1, FlightIs DEF Asks
    <3>. QED
      BY <1>1, <1>2, <3>1 DEF HasKey
  <2>. QED
    BY <2>1
<1>5. m.type \notin {"ack", "echo_back"}
  <2>1. ASSUME m.type \in {"ack", "echo_back"} PROVE FALSE
    <3>1. Answers({p}, Q, m)
      BY <2>1 DEF Took, DatagramOK, Replies, Q
    <3>. QED
      BY <2>1, <3>1 DEF Answers
  <2>. QED
    BY <2>1
<1>6. Echo.type \in Asks /\ EchoBack.type \in Replies /\ EchoBack # Echo
  BY TypesAre DEF Asks, Replies
<1>7. CASE m.type = "echo"
  <2>1. c = p /\ r.out = {EchoBack}
    BY <1>7, EstablishedHandlerDoes
  <2>2. Quiet(Other(s), F, M) /\ Awaits(Q, m) /\ HasKey(p)
    BY <1>3, <1>7 DEF Asks, HasKey
  <2>3. DatagramOK(Q, {p}, EchoBack)
    BY <1>7, <2>2, RepliesOK
  <2>4. Advances(p, p) /\ SameFlight(p, p)
    BY DEF Advances, SameFlight
  <2>. HIDE DEF r, c
  <2>5. r.out \subseteq {Echo, EchoBack} /\ Echo \notin r.out
    BY <1>6, <2>1
  <2>. QED
    BY <1>1, <1>6, <2>1, <2>2, <2>3, <2>4, <2>5, ReactsIf DEF Q
<1>8. CASE m.type = "data"
  <2>1. c = [p EXCEPT !.streams = @ \cup {m.id}] /\ r.out = {}
    BY <1>8, EstablishedHandlerDoes
  <2>. HIDE DEF r, c
  <2>2. /\ c.state = p.state /\ c.handler = p.handler /\ c.timer = p.timer
        /\ c.epub = p.epub /\ c.peer_epub = p.peer_epub /\ c.key = p.key
        /\ c.streams = p.streams \cup {m.id}
    BY <2>1 DEF Object
  <2>3. m.id \in UserStreams
    BY <1>8 DEF Took, DatagramOK
  <2>4. Flight(c) = Flight(p) /\ (Answered(c) <=> Answered(p)) /\ (HasKey(c) <=> HasKey(p))
    BY <2>2 DEF Flight, Answered, HasKey
  <2>5. LocalOK(c)
    BY <1>1, <2>2, <2>3, <2>4 DEF LocalOK
  <2>6. Knows(c, Q) /\ Advances(p, c) /\ SameFlight(p, c)
    BY <1>1, <2>2, <2>4 DEF Knows, Advances, SameFlight
  <2>. QED
    BY <1>6, <2>1, <2>5, <2>6, ReactsIf DEF Q
<1>. QED
  BY <1>4, <1>5, <1>7, <1>8 DEF Message, Types

\* Whatever the handler.
LEMMA FeedReacts ==
    ASSUME NEW s \in Sites, NEW P, NEW F, NEW M, Linked(P, F, M), NEW p \in Object, P[s] = {p},
           \A x, y \in P[Other(s)] : x = y, PeerOK(s, p),
           NEW m \in Message, Took(s, P, F, M, m), NEW k \in EphemeralKey
    PROVE  Reacts(s, P, F, M, Feed(p, m, k).p, Feed(p, m, k).out)
<1>1. p.handler \in {"hello", "public_key", "echo", "established"}
  BY ObjectIs DEF PeerOK, PhaseOK
<1>2. CASE p.handler = "hello"
  BY <1>2, HelloReacts DEF Feed
<1>3. CASE p.handler = "public_key"
  BY <1>3, PublicKeyReacts DEF Feed
<1>4. CASE p.handler = "echo"
  BY <1>4, EchoReacts DEF Feed
<1>5. CASE p.handler = "established"
  BY <1>5, EstablishedReacts DEF Feed
<1>. QED
  BY <1>1, <1>2, <1>3, <1>4, <1>5

\* So does a peer that has just been made.
LEMMA NewReacts ==
    ASSUME NEW s \in Sites, NEW P, NEW F, NEW M, Linked(P, F, M), P[s] = {},
           NEW c, c.handler = "hello", "sent_hello" \in c.state,
           c.state \subseteq {"sent_hello", "received_hello"},
           c.timer = {Hello}, c.streams = {},
           NEW out, out \subseteq {Hello, Ack},
           Ack \in out => Quiet(Other(s), F, M) /\ DatagramOK(P[Other(s)], {c}, Ack)
    PROVE  Reacts(s, P, F, M, c, out)
<1>1. Quiet(s, F, M)
  BY AnsweredQuiet
<1>2. Flight(c) = {Hello} /\ ~ Answered(c) /\ ~ HasKey(c)
  BY DEF Flight, Answered, HasKey
<1>3. LocalOK(c)
  BY <1>2 DEF LocalOK, hello_complete
<1>4. Knows(c, P[Other(s)])
  BY DEF Knows
<1>5. Hello.type \in Asks /\ Hello.type \notin Replies /\ Hello.type # "data"
      /\ Ack.type \in Replies /\ Ack.type \notin Asks
  BY TypesAre DEF Asks, Replies
<1>6. DatagramOK(P[Other(s)], {c}, Hello)
  BY <1>2, <1>5 DEF DatagramOK, Awaits
<1>. QED
  BY <1>1, <1>3, <1>4, <1>5, <1>6 DEF Reacts

-----------------------------------------------------------------------------
\* What a datagram's receiver may conclude when it is taken.
LEMMA Taken ==
    ASSUME Inv, Linked(peers, fired, net), NEW d \in BagToSet(net)
    PROVE  LET M == net (-) SetToBag({d})
           IN  /\ d.to \in Sites /\ d.msg \in Message
               /\ IsABag(M) /\ Linked(peers, fired, M) /\ Took(d.to, peers, fired, M, d.msg)
               /\ \A e \in BagToSet(M) : e.to \in Sites
<1>. DEFINE M == net (-) SetToBag({d})
            s == d.to
<1>1. NetOK
  BY Parts
<1>2. IsABag(net) /\ s \in Sites /\ d.msg \in Message /\ \A e \in BagToSet(net) : e.to \in Sites
  BY <1>1 DEF NetOK
<1>3. Other(s) \in Sites /\ Other(Other(s)) = s
  BY <1>2, TwoSites
<1>4. /\ IsABag(M) /\ BagToSet(M) \subseteq BagToSet(net) /\ Linked(peers, fired, M)
      /\ \A t \in Sites : Concerns(t, d) => Quiet(t, fired, M)
  BY <1>2, Consumed
<1>. HIDE DEF M
<1>5. DatagramOK(peers[s], peers[Other(s)], d.msg)
  BY DEF Linked
<1>6. /\ d.msg.type \in Asks => Concerns(Other(s), d)
      /\ d.msg.type \in Replies => Concerns(s, d)
  BY <1>3 DEF Concerns
<1>7. Took(s, peers, fired, M, d.msg)
  BY <1>2, <1>3, <1>4, <1>5, <1>6 DEF Took
<1>. QED
  BY <1>2, <1>4, <1>7 DEF M

\* A peer that is fed keeps the two linked.
LEMMA ReceiveLinked ==
    ASSUME Inv, Linked(peers, fired, net), NEW d \in BagToSet(net), Receive(d)
    PROVE  Linked(peers', fired', net')
<1>. DEFINE s == d.to
            M == net (-) SetToBag({d})
            k == NextKey(s)
<1>1. /\ s \in Sites /\ d.msg \in Message /\ IsABag(M) /\ Linked(peers, fired, M)
      /\ Took(s, peers, fired, M, d.msg) /\ \A e \in BagToSet(M) : e.to \in Sites
  BY Taken
<1>2. PICK p \in peers[s] : Fed(s, d, p, {})
  BY DEF Receive
<1>. DEFINE c == Feed(p, d.msg, k).p
            out == Feed(p, d.msg, k).out
<1>3. peers' = [peers EXCEPT ![s] = {c}] /\ net' = M (+) Posted(s, out) /\ fired' = fired
  BY <1>2 DEF Fed
<1>4. /\ PeersOK /\ generated \in [Sites -> 0 .. MaxKeys] /\ Other(s) \in Sites
  BY <1>1, Parts, TwoSites
<1>5. p \in Object /\ PeerOK(s, p) /\ peers[s] = {p} /\ \A x, y \in peers[Other(s)] : x = y
  BY <1>1, <1>4 DEF PeersOK
<1>6. k \in EphemeralKey
  BY <1>1, <1>4, BoundsAssumption DEF NextKey, EphemeralKey
<1>. HIDE DEF M, k
<1>7. Reacts(s, peers, fired, M, c, out)
  BY <1>1, <1>5, <1>6, FeedReacts
<1>. HIDE DEF c, out
<1>8. Linked([peers EXCEPT ![s] = {c}], fired, M (+) Posted(s, out))
  BY <1>1, <1>4, <1>7, ActsLinked DEF PeersOK
<1>. QED
  BY <1>3, <1>8

\* A peer that has said hello and is fed for the first time.
LEMMA FirstFed ==
    ASSUME NEW p \in Object, p.handler = "hello", p.state = {"sent_hello"},
           p.timer = {Hello}, p.streams = {},
           NEW m \in Message, m.type # "ack", NEW k \in EphemeralKey
    PROVE  LET r == HelloHandler(p, m, k)
           IN  /\ r.p.handler = "hello" /\ "sent_hello" \in r.p.state
               /\ r.p.state \subseteq {"sent_hello", "received_hello"}
               /\ r.p.timer = {Hello} /\ r.p.streams = {}
               /\ r.out \subseteq {Ack}
               /\ Ack \in r.out => m.type = "hello" /\ "received_hello" \in r.p.state
<1>. DEFINE r == HelloHandler(p, m, k)
            st == p.state \cup (IF m.type = "hello" THEN {"received_hello"}
                                ELSE {"received_hello_ack"})
            tm == IF m.type = "hello" THEN p.timer ELSE {}
            out == IF m.type = "hello" THEN {Ack} ELSE {}
<1>1. PublicKey({k}) \in Message
  BY DEF PublicKey, Message, Types, StreamIds
<1>2. CASE m.type = "hello"
  <2>1. ~ (hello_complete \subseteq st) /\ st = {"sent_hello", "received_hello"}
    BY <1>2 DEF hello_complete
  <2>2. Becomes(p, r.p, st, p.handler, tm, p.epub, p.peer_epub, p.key) /\ r.out = out
    <3>1. m.type \in {"hello", "ack"} /\ ~ (hello_complete \subseteq st)
      BY <1>2, <2>1
    <3>2. p \in Object /\ m \in Message /\ k \in EphemeralKey
      OBVIOUS
    <3>3. Becomes(p, r.p, st, p.handler, tm, p.epub, p.peer_epub, p.key)
      BY ONLY <1>1, <3>1, <3>2, HelloHandlerDoes
    <3>4. r.out = out
      BY ONLY <1>1, <3>1, <3>2, HelloHandlerDoes
    <3>. QED
      BY <3>3, <3>4
  <2>3. /\ r.p.handler = "hello" /\ r.p.state = {"sent_hello", "received_hello"}
        /\ r.p.timer = {Hello} /\ r.p.streams = {}
    BY <1>2, <2>1, <2>2 DEF Becomes
  <2>. HIDE DEF r
  <2>4. /\ r.p.handler = "hello" /\ "sent_hello" \in r.p.state
        /\ r.p.state \subseteq {"sent_hello", "received_hello"}
        /\ r.p.timer = {Hello} /\ r.p.streams = {}
        /\ r.out \subseteq {Ack}
        /\ Ack \in r.out => m.type = "hello" /\ "received_hello" \in r.p.state
    BY <1>2, <2>2, <2>3
  <2>. QED
    BY <2>4 DEF r
<1>3. CASE m.type # "hello"
  <2>1. r.p = p /\ r.out = {}
    BY <1>1, <1>3, HelloHandlerDoes
  <2>. QED
    BY <2>1
<1>. QED
  BY <1>2, <1>3

\* So does one that is made for what arrives, or at a command.
LEMMA NewLinked ==
    ASSUME Inv, Linked(peers, fired, net),
           (\E d \in BagToSet(net) : ReceiveFirst(d)) \/ (\E s \in Sites : AddPeer(s))
    PROVE  Linked(peers', fired', net')
<1>. DEFINE p == Constructed.p
<1>1. PeersOK /\ NetOK
  BY Parts
<1>2. ASSUME NEW s \in Sites PROVE /\ p \in Object /\ Constructed.out = {Hello}
                                  /\ p.handler = "hello" /\ p.state = {"sent_hello"}
                                  /\ p.timer = {Hello} /\ p.streams = {}
  BY ConstructedOK
<1>. HIDE DEF p
<1>3. Hello # Ack
  BY TypesAre
<1>4. ASSUME NEW d \in BagToSet(net), ReceiveFirst(d) PROVE Linked(peers', fired', net')
  <2>. DEFINE s == d.to
              M == net (-) SetToBag({d})
              m == d.msg
              k == NextKey(s)
              c == Feed(p, m, k).p
              sent == Feed(p, m, k).out
  <2>1. /\ s \in Sites /\ m \in Message /\ IsABag(M) /\ Linked(peers, fired, M)
        /\ Took(s, peers, fired, M, m) /\ \A e \in BagToSet(M) : e.to \in Sites
    BY Taken
  <2>2. Constructed.out = {Hello}
    BY <1>2, <2>1
  <2>3. /\ peers[s] = {} /\ peers' = [peers EXCEPT ![s] = {c}]
        /\ net' = M (+) Posted(s, {Hello} \cup sent) /\ fired' = fired
    BY <1>4, <2>2 DEF ReceiveFirst, Fed, p
  <2>4. k \in EphemeralKey
    <3>1. generated[s] \in 0 .. MaxKeys
      BY <2>1, Parts
    <3>. QED
      BY <2>1, <3>1, BoundsAssumption DEF NextKey, EphemeralKey
  <2>. HIDE DEF M, k
  <2>5. /\ c = HelloHandler(p, m, k).p /\ sent = HelloHandler(p, m, k).out
        /\ p \in Object /\ p.handler = "hello" /\ p.state = {"sent_hello"}
        /\ p.timer = {Hello} /\ p.streams = {}
    BY <1>2, <2>1 DEF Feed
  <2>. HIDE DEF c, sent, m
  <2>7. m.type # "ack"
    BY <2>1, <2>3 DEF Took, DatagramOK, Answers, Replies
  <2>8. /\ c.handler = "hello" /\ "sent_hello" \in c.state
        /\ c.state \subseteq {"sent_hello", "received_hello"}
        /\ c.timer = {Hello} /\ c.streams = {}
        /\ sent \subseteq {Ack}
        /\ Ack \in sent => m.type = "hello" /\ "received_hello" \in c.state
    BY <2>1, <2>4, <2>5, <2>7, FirstFed
  <2>9. Ack \in {Hello} \cup sent =>
          Quiet(Other(s), fired, M) /\ DatagramOK(peers[Other(s)], {c}, Ack)
    <3>1. ASSUME Ack \in sent PROVE Quiet(Other(s), fired, M) /\ Awaits(peers[Other(s)], m)
      BY <2>1, <2>8, <3>1 DEF Took, DatagramOK, Asks
    <3>. QED
      BY <1>3, <2>8, <3>1, RepliesOK
  <2>10. {Hello} \cup sent \subseteq {Hello, Ack}
    BY <2>8
  <2>. DEFINE out == {Hello} \cup sent
  <2>. HIDE DEF out
  <2>11. Reacts(s, peers, fired, M, c, out)
    BY <2>1, <2>3, <2>8, <2>9, <2>10, NewReacts DEF out
  <2>12. Linked([peers EXCEPT ![s] = {c}], fired, M (+) Posted(s, out))
    BY <1>1, <2>1, <2>11, ActsLinked DEF PeersOK
  <2>. QED
    BY <2>3, <2>12 DEF out
<1>5. ASSUME NEW s \in Sites, AddPeer(s) PROVE Linked(peers', fired', net')
  <2>1. /\ peers[s] = {} /\ peers' = [peers EXCEPT ![s] = {p}]
        /\ net' = net (+) Posted(s, {Hello}) /\ fired' = fired
    BY <1>2, <1>5 DEF AddPeer, p
  <2>2. Reacts(s, peers, fired, net, p, {Hello})
    BY <1>2, <1>3, <2>1, NewReacts
  <2>3. IsABag(net) /\ \A e \in BagToSet(net) : e.to \in Sites
    BY <1>1 DEF NetOK
  <2>4. Linked([peers EXCEPT ![s] = {p}], fired, net (+) Posted(s, {Hello}))
    BY <1>1, <2>2, <2>3, ActsLinked DEF PeersOK
  <2>. QED
    BY <2>1, <2>4
<1>. QED
  BY <1>4, <1>5

\* Nothing put into a bag leaves it as it is.
LEMMA NothingAdded ==
    ASSUME NEW B, IsABag(B), NEW s
    PROVE  B (+) Posted(s, {}) = B
<1>1. {[to |-> Other(s), msg |-> m] : m \in {}} = {}
  OBVIOUS
<1>2. B (+) SetToBag({}) = B
  BY DEF IsABag, SetToBag, (+)
<1>. QED
  BY <1>1, <1>2 DEF Posted

\* A peer whose streams or timer alone change is still linked, if the timer is
\* that of its flight.
LEMMA Alike ==
    ASSUME NEW s \in Sites, NEW P, NEW F, NEW M, Linked(P, F, M), NEW p \in Object, P[s] = {p},
           NEW c, c.state = p.state, c.handler = p.handler, c.epub = p.epub,
           c.peer_epub = p.peer_epub, c.key = p.key, c.streams \subseteq UserStreams,
           c.timer \subseteq Flight(p), Answered(p) => c.timer = {}
    PROVE  /\ LocalOK(c) /\ Knows(c, P[Other(s)]) /\ Advances(p, c) /\ SameFlight(p, c)
           /\ Reacts(s, P, F, M, c, {})
<1>1. LocalOK(p) /\ Knows(p, P[Other(s)])
  BY DEF Linked
<1>2. Flight(c) = Flight(p) /\ (Answered(c) <=> Answered(p)) /\ (HasKey(c) <=> HasKey(p))
  BY DEF Flight, Answered, HasKey
<1>3. LocalOK(c)
  BY <1>1, <1>2 DEF LocalOK
<1>4. Knows(c, P[Other(s)]) /\ Advances(p, c) /\ SameFlight(p, c)
  BY <1>1, <1>2 DEF Knows, Advances, SameFlight
<1>. QED
  BY <1>3, <1>4 DEF Reacts

\* The timer expires only when nothing is on its way.
LEMMA TimerLinked ==
    ASSUME Prompt, Inv, Linked(peers, fired, net), NEW s \in Sites, TimerExpires(s)
    PROVE  Linked(peers', fired', net')
<1>1. PeersOK /\ FiredOK
  BY Parts
<1>2. PICK p \in peers[s] : /\ p.timer # {} /\ fired' = [fired EXCEPT ![s] = p.timer]
                            /\ peers' = [peers EXCEPT ![s] = {[p EXCEPT !.timer = {}]}]
  BY DEF TimerExpires
<1>3. net' = net /\ IsABag(net) /\ BagToSet(net) = {}
  BY DEF TimerExpires, Prompt, IsABag, BagToSet, EmptyBag, SetToBag
<1>4. p \in Object /\ peers[s] = {p} /\ LocalOK(p)
  BY <1>1, <1>2 DEF PeersOK, Linked
<1>. DEFINE c == [p EXCEPT !.timer = {}]
            R == [peers EXCEPT ![s] = {c}]
            G == [fired EXCEPT ![s] = p.timer]
<1>5. /\ c.state = p.state /\ c.handler = p.handler /\ c.timer = {}
      /\ c.epub = p.epub /\ c.peer_epub = p.peer_epub /\ c.key = p.key /\ c.streams = p.streams
  BY <1>4 DEF Object
<1>. HIDE DEF c
<1>6. Reacts(s, peers, fired, net, c, {}) /\ SameFlight(p, c)
  BY <1>4, <1>5, Alike DEF LocalOK
<1>7. Linked(R, fired, net)
  <2>1. Linked(R, fired, net (+) Posted(s, {}))
    BY <1>1, <1>3, <1>6, ActsLinked DEF PeersOK
  <2>. QED
    BY <1>3, <2>1, NothingAdded
<1>8. \A t \in Sites : \A m \in G[t] : Awaits(R[t], m)
  <2>1. \A m \in p.timer : Awaits({c}, m)
    BY <1>2, <1>4, <1>6 DEF LocalOK, SameFlight, Awaits
  <2>2. G[s] = p.timer /\ R[s] = {c} /\ \A t \in Sites : t # s => G[t] = fired[t]
    BY <1>1 DEF PeersOK, FiredOK
  <2>3. \A t \in Sites : \A m \in fired[t] : Awaits(R[t], m)
    BY <1>7 DEF Linked
  <2>. HIDE DEF G, R
  <2>. QED
    BY <2>1, <2>2, <2>3
<1>. HIDE DEF R, G
<1>9. Linked(R, G, net)
  BY <1>3, <1>7, <1>8 DEF Linked, StopAndWait
<1>. QED
  BY <1>2, <1>3, <1>9 DEF R, G, c

\* A retransmission finds nothing of its site's on its way.
LEMMA RetransmitLinked ==
    ASSUME Inv, Linked(peers, fired, net), NEW s \in Sites, Retransmit(s)
    PROVE  Linked(peers', fired', net')
<1>1. PeersOK /\ FiredOK /\ NetOK
  BY Parts
<1>2. PICK m \in fired[s], p \in peers[s] :
             /\ peers' = [peers EXCEPT ![s] = {WithRetransmit(p, m)}]
             /\ net' = net (+) Posted(s, {m})
  BY DEF Retransmit
<1>. DEFINE G == [fired EXCEPT ![s] = {}]
            c == WithRetransmit(p, m)
<1>3. fired' = G /\ G[s] = {} /\ \A t \in Sites : G[t] \subseteq fired[t]
  BY <1>1 DEF Retransmit, FiredOK
<1>4. /\ p \in Object /\ peers[s] = {p} /\ LocalOK(p)
      /\ IsABag(net) /\ \A e \in BagToSet(net) : e.to \in Sites
  BY <1>1, <1>2 DEF PeersOK, NetOK, Linked
<1>5. ~ Answered(p) /\ m \in Flight(p)
  BY <1>2, <1>4 DEF Linked, Awaits
<1>6. /\ c.state = p.state /\ c.handler = p.handler /\ c.timer = {m}
      /\ c.epub = p.epub /\ c.peer_epub = p.peer_epub /\ c.key = p.key /\ c.streams = p.streams
  BY <1>4 DEF Object, WithRetransmit
<1>. HIDE DEF c, G
<1>7. Linked(peers, G, net)
  BY <1>3 DEF Linked, StopAndWait
<1>8. Quiet(s, G, net)
  <2>1. StopAndWait(s, fired, net)
    BY DEF Linked
  <2>. QED
    BY <1>2, <1>3, <2>1 DEF StopAndWait, Quiet
<1>9. LocalOK(c) /\ Knows(c, peers[Other(s)]) /\ Advances(p, c) /\ SameFlight(p, c)
  BY <1>4, <1>5, <1>6, <1>7, Alike DEF LocalOK
<1>10. m.type \in Asks /\ Ack.type \in Replies
  <2>1. CASE p.handler = "hello"
    BY <1>5, <2>1, TypesAre DEF Flight, Asks, Replies
  <2>2. CASE p.handler = "public_key"
    BY <1>5, <2>2, TypesAre DEF Flight, Asks, Replies
  <2>3. CASE p.handler = "echo"
    BY <1>5, <2>3, TypesAre DEF Flight, Asks, Replies
  <2>4. CASE p.handler \notin {"hello", "public_key", "echo"}
    BY <1>5, <2>4 DEF Flight
  <2>. QED
    BY <2>1, <2>2, <2>3, <2>4
<1>11. ~ Answered(c) /\ m \in Flight(c)
  BY <1>5, <1>9 DEF SameFlight
<1>12. Ack \notin {m} /\ {m} \subseteq {m, Ack}
  BY <1>10 DEF Asks, Replies
<1>13. Reacts(s, peers, G, net, c, {m})
  BY <1>4, <1>8, <1>9, <1>10, <1>11, <1>12, ReactsIf
<1>14. Linked([peers EXCEPT ![s] = {c}], G, net (+) Posted(s, {m}))
  BY <1>1, <1>4, <1>7, <1>13, ActsLinked DEF PeersOK
<1>. QED
  BY <1>2, <1>3, <1>14 DEF c

\* The commands about streams, and what the streams send.
LEMMA StreamLinked ==
    ASSUME Inv, Linked(peers, fired, net), NEW s \in Sites,
           \/ \E id \in UserStreams : AddStream(s, id) \/ DelStream(s, id)
           \/ \E id \in StreamIds : SendData(s, id)
    PROVE  Linked(peers', fired', net')
<1>1. /\ PeersOK /\ NetOK /\ IsABag(net) /\ \A e \in BagToSet(net) : e.to \in Sites
  BY Parts DEF NetOK
<1>2. ASSUME NEW id \in UserStreams, AddStream(s, id) \/ DelStream(s, id)
      PROVE  Linked(peers', fired', net')
  <2>1. PICK p \in peers[s] :
           \/ peers' = [peers EXCEPT ![s] = {[p EXCEPT !.streams = @ \cup {id}]}]
           \/ peers' = [peers EXCEPT ![s] = {[p EXCEPT !.streams = @ \ {id}]}]
    BY <1>2 DEF AddStream, DelStream
  <2>2. fired' = fired /\ net' = net
    BY <1>2 DEF AddStream, DelStream
  <2>3. p \in Object /\ peers[s] = {p} /\ LocalOK(p)
    BY <1>1, <2>1 DEF PeersOK, Linked
  <2>4. PICK c : /\ peers' = [peers EXCEPT ![s] = {c}]
                 /\ c = [p EXCEPT !.streams = @ \cup {id}] \/ c = [p EXCEPT !.streams = @ \ {id}]
    BY <2>1
  <2>5. /\ c.state = p.state /\ c.handler = p.handler /\ c.timer = p.timer
        /\ c.epub = p.epub /\ c.peer_epub = p.peer_epub /\ c.key = p.key
        /\ c.streams \subseteq UserStreams
    BY <2>3, <2>4 DEF Object, LocalOK
  <2>6. Reacts(s, peers, fired, net, c, {})
    BY <2>3, <2>5, Alike DEF LocalOK
  <2>7. Linked([peers EXCEPT ![s] = {c}], fired, net (+) Posted(s, {}))
    BY <1>1, <2>6, ActsLinked DEF PeersOK
  <2>. QED
    BY <1>1, <2>2, <2>4, <2>7, NothingAdded
<1>3. ASSUME NEW id \in StreamIds, SendData(s, id) PROVE Linked(peers', fired', net')
  <2>1. PICK p \in peers[s] : /\ id \in p.streams /\ established \subseteq p.state
                              /\ net' = net (+) Posted(s, {Data(id, p.key)})
    BY <1>3 DEF SendData
  <2>. DEFINE m == Data(id, p.key)
  <2>2. p \in Object /\ peers[s] = {p} /\ LocalOK(p) /\ PeerOK(s, p)
    BY <1>1, <2>1 DEF PeersOK, Linked
  <2>3. HasKey(p)
    <3>1. p.handler \in {"hello", "public_key", "echo", "established"}
      BY <2>2, ObjectIs DEF PeerOK, PhaseOK
    <3>2. "shared_key_agreement" \in p.state /\ "shared_key_agreement" \notin hello_complete
      BY <2>1 DEF established, hello_complete
    <3>. QED
      BY <2>2, <3>1, <3>2 DEF PeerOK, PhaseOK, HasKey
  <2>4. m.type = "data" /\ m.id = id /\ m.body = p.key
    BY DEF Data
  <2>. HIDE DEF m
  <2>5. DatagramOK(peers[Other(s)], {p}, m)
    BY <2>1, <2>2, <2>3, <2>4 DEF DatagramOK, Asks, Replies, LocalOK
  <2>6. Reacts(s, peers, fired, net, p, {})
    BY <2>2, NothingReacts
  <2>7. Reacts(s, peers, fired, net, p, {m})
    BY <2>4, <2>5, <2>6 DEF Reacts, Asks, Replies
  <2>8. Linked([peers EXCEPT ![s] = {p}], fired, net (+) Posted(s, {m}))
    BY <1>1, <2>7, ActsLinked DEF PeersOK
  <2>9. [peers EXCEPT ![s] = {p}] = peers
    BY <1>1, <2>2 DEF PeersOK
  <2>. QED
    BY <1>3, <2>1, <2>8, <2>9 DEF SendData, m
<1>. QED
  BY <1>2, <1>3

\* The network.
LEMMA NetworkLinked ==
    ASSUME Prompt, Inv, Linked(peers, fired, net), NEW d \in BagToSet(net),
           Lose(d) \/ Duplicate(d)
    PROVE  Linked(peers', fired', net')
<1>1. IsABag(net) /\ d.to \in Sites /\ peers' = peers /\ fired' = fired
  BY Parts DEF NetOK, Lose, Duplicate
<1>2. CASE Lose(d)
  <2>1. net' = net (-) SetToBag({d})
    BY <1>2 DEF Lose
  <2>. QED
    BY <1>1, <2>1, Consumed
<1>3. CASE Duplicate(d)
  <2>. DEFINE S == {d}
  <2>1. net' = net (+) SetToBag(S) /\ d.msg.type = "data" /\ S \subseteq BagToSet(net)
    BY <1>3 DEF Duplicate, Prompt
  <2>2. \A s \in Sites : ~ Concerns(s, d)
    BY <2>1 DEF Concerns, Asks, Replies
  <2>3. BagToSet(net') = BagToSet(net) /\ \A e \in BagToSet(net) : e # d => net'[e] = net[e]
    <3>1. \A e : e # d => e \notin S
      OBVIOUS
    <3>. HIDE DEF S
    <3>2. /\ BagToSet(net (+) SetToBag(S)) = BagToSet(net) \cup S
          /\ \A e \in BagToSet(net) : e \notin S => (net (+) SetToBag(S))[e] = net[e]
      BY ONLY <1>1, CopiesAdded
    <3>. QED
      BY <2>1, <3>1, <3>2
  <2>4. \A s \in Sites : StopAndWait(s, fired, net')
    BY <2>2, <2>3 DEF Linked, StopAndWait
  <2>. QED
    BY <1>1, <2>3, <2>4 DEF Linked
<1>. QED
  BY <1>2, <1>3

\* Every step of an undisturbed handshake keeps the invariant.
LEMMA StepLinked ==
    ASSUME Undisturbed, SessionInv, [Next]_vars
    PROVE  SessionInv'
<1>1. Inv /\ Linked(peers, fired, net)
  BY DEF SessionInv
<1>2. Inv'
  BY <1>1, StepInv
<1>3. /\ \A s \in Sites : ~ AddPeerAgain(s) /\ ~ DelPeer(s) /\ ~ Restart(s)
      /\ \A d \in BagToSet(net) : ~ AgreeFails(d)
      /\ Prompt
  BY DEF Undisturbed, AddPeerAgain, DelPeer, Restart, AgreeFails, Commanded
<1>4. ASSUME UNCHANGED vars PROVE Linked(peers', fired', net')
  BY <1>1, <1>4 DEF vars
<1>5. Linked(peers', fired', net')
  BY <1>1, <1>3, <1>4, ReceiveLinked, NewLinked, TimerLinked, RetransmitLinked, StreamLinked,
     NetworkLinked DEF Next
<1>. QED
  BY <1>2, <1>5 DEF SessionInv

\* The invariant of an undisturbed handshake, of whatever is lost.
THEOREM PeerSessionInvariant == ASSUME Undisturbed PROVE Spec => []SessionInv
<1>1. Init => SessionInv
  <2>. SUFFICES ASSUME Init PROVE SessionInv
    OBVIOUS
  <2>1. BagToSet(net) = {} /\ \A s \in Sites : peers[s] = {} /\ fired[s] = {}
    BY DEF Init, BagToSet, EmptyBag, SetToBag
  <2>2. Linked(peers, fired, net)
    BY <2>1 DEF Linked, StopAndWait
  <2>. QED
    BY <2>2, InitInv DEF SessionInv
<1>2. SessionInv /\ [Next]_vars => SessionInv'
  BY StepLinked
<1>. QED
  BY <1>1, <1>2, PTL DEF Spec

\* Of two peers that have a key, each has the other's public key.
LEMMA SameKey ==
    ASSUME SessionInv, NEW s \in Sites, NEW p \in peers[s], NEW q \in peers[Other(s)],
           HasKey(p), HasKey(q)
    PROVE  p.key = q.key
<1>1. PeersOK /\ Linked(peers, fired, net)
  BY Parts DEF SessionInv
<1>2. Other(s) \in Sites /\ Other(Other(s)) = s
  BY TwoSites
<1>3. ASSUME NEW t \in Sites, NEW x \in peers[t], HasKey(x)
      PROVE  /\ x.key = x.epub \cup x.peer_epub
             /\ \E y \in peers[Other(t)] : x.peer_epub = y.epub
  <2>1. LocalOK(x) /\ Knows(x, peers[Other(t)]) /\ PeerOK(t, x)
    BY <1>1, <1>3 DEF Linked, PeersOK
  <2>2. "received_public_key" \in x.state
    BY <1>3, <2>1 DEF PeerOK, PhaseOK, HasKey, established, public_key_exchanged
  <2>. QED
    BY <1>3, <2>1, <2>2 DEF LocalOK, Knows
<1>4. p.peer_epub = q.epub
  BY <1>1, <1>2, <1>3 DEF PeersOK
<1>5. q.peer_epub = p.epub
  BY <1>1, <1>2, <1>3 DEF PeersOK
<1>. QED
  BY <1>2, <1>3, <1>4, <1>5

\* The echo answered means that the other side has its key.
THEOREM PeerEchoProvesKey == ASSUME Undisturbed PROVE Spec => []EchoProvesKey
<1>1. SessionInv => EchoProvesKey
  BY DEF SessionInv, Linked, Knows, HasKey, EchoProvesKey, Is
<1>. QED
  BY <1>1, PeerSessionInvariant, PTL

-----------------------------------------------------------------------------
(* Handshakes that are broken off and begun anew *)

\* A peer that has just been made and knows of nothing but acks.
Newborn(q) == LocalOK(q) /\ q.handler = "hello" /\ "received_hello" \notin q.state

\* One that has been answered before, whose timer is that of its flight.
Survivor(p, queued) ==
    /\ LocalOK(p)
    /\ p.handler # "hello" \/ "received_hello_ack" \in p.state
    /\ queued \subseteq Flight(p)
    /\ Answered(p) => queued = {}

\* What may be on its way when t has started over and s has not noticed: hellos
\* of t, and what an s that is not established sends.
Passes(s, t, P, F, N, d) ==
    /\ d.msg.type = "data" => d.msg.id \in UserStreams
    /\ d.to = t =>
         /\ d.msg.type \in {"ack", "public_key", "echo", "data"}
         /\ d.msg.type # "data" => \A p \in P[s] : p.handler # "established"
         /\ d.msg.type = "ack" => F[t] = {}
    /\ d.to = s => d.msg = Hello /\ N[d] = 1 /\ F[t] = {} /\ P[t] # {}

\* Site t has started over, and site s still has the peer of the time before.
Orphan(s, t, P, F, N) ==
    /\ P[s] # {}
    /\ \A p \in P[s] : Survivor(p, F[s])
    /\ \A q \in P[t] :
         /\ Newborn(q)
         /\ Answered(q) => F[t] = {} /\ \A p \in P[s] : p.handler # "established"
    /\ F[t] \subseteq {Hello} /\ (P[t] = {} => F[t] = {})
    /\ \A d \in BagToSet(N) : Passes(s, t, P, F, N, d)

\* Either the flags of each peer say what is true of the other, or one of them
\* is left over from before the other started anew.
RekeyInv ==
    /\ Inv
    /\ \/ Linked(peers, fired, net)
       \/ \E s \in Sites : Orphan(s, Other(s), peers, fired, net)

\* What is in flight after a site has sent out.
LEMMA PostedAre ==
    ASSUME NEW s \in Sites, NEW M, IsABag(M), NEW out
    PROVE  LET N == M (+) Posted(s, out)
           IN  \A e \in BagToSet(N) :
                 \/ e \in BagToSet(M) /\ N[e] = M[e]
                 \/ e.to = Other(s) /\ e.msg \in out /\ (e \notin BagToSet(M) => N[e] = 1)
<1>. DEFINE S == {[to |-> Other(s), msg |-> m] : m \in out}
            N == M (+) Posted(s, out)
<1>1. N = M (+) SetToBag(S)
  BY DEF Posted
<1>2. \A e \in S : e.to = Other(s) /\ e.msg \in out
  OBVIOUS
<1>. HIDE DEF S
<1>3. /\ BagToSet(M (+) SetToBag(S)) = BagToSet(M) \cup S
      /\ \A e \in BagToSet(M) : e \notin S => (M (+) SetToBag(S))[e] = M[e]
      /\ \A e \in S : e \notin BagToSet(M) => (M (+) SetToBag(S))[e] = 1
  BY CopiesAdded
<1>. HIDE DEF N
<1>4. \A e \in BagToSet(N) :
        \/ e \in BagToSet(M) /\ N[e] = M[e]
        \/ e.to = Other(s) /\ e.msg \in out /\ (e \notin BagToSet(M) => N[e] = 1)
  BY <1>1, <1>2, <1>3
<1>. QED
  BY <1>4 DEF N

\* The site that started over says hello, or nothing.
LEMMA NewbornActs ==
    ASSUME NEW s \in Sites, NEW t, t = Other(s), NEW P \in [Sites -> SUBSET Object], NEW F,
           NEW M, IsABag(M), Orphan(s, t, P, F, M),
           NEW c, Newborn(c),
           Answered(c) => F[t] = {} /\ \A p \in P[s] : p.handler # "established",
           NEW out, out \subseteq {Hello},
           Hello \in out => F[t] = {} /\ \A e \in BagToSet(M) : e.to # s
    PROVE  Orphan(s, t, [P EXCEPT ![t] = {c}], F, M (+) Posted(t, out))
<1>. DEFINE R == [P EXCEPT ![t] = {c}]
            N == M (+) Posted(t, out)
<1>1. t \in Sites /\ t # s /\ Other(t) = s
  BY TwoSites
<1>2. R[t] = {c} /\ R[s] = P[s]
  BY <1>1
<1>3. \A e \in BagToSet(N) :
        \/ e \in BagToSet(M) /\ N[e] = M[e]
        \/ e.to = s /\ e.msg \in out /\ (e \notin BagToSet(M) => N[e] = 1)
  BY <1>1, PostedAre
<1>4. Hello.type = "hello"
  BY TypesAre
<1>. HIDE DEF R, N
<1>5. ASSUME NEW e \in BagToSet(N) PROVE Passes(s, t, R, F, N, e)
  <2>1. CASE e \in BagToSet(M) /\ N[e] = M[e]
    <3>1. Passes(s, t, P, F, M, e)
      BY <2>1 DEF Orphan
    <3>. QED
      BY <1>2, <2>1, <3>1 DEF Passes
  <2>2. CASE e.to = s /\ e.msg \in out /\ (e \notin BagToSet(M) => N[e] = 1)
    <3>1. e.msg = Hello /\ N[e] = 1 /\ F[t] = {}
      BY <2>2
    <3>. QED
      BY <1>1, <1>2, <1>4, <2>2, <3>1 DEF Passes
  <2>. QED
    BY <1>3, <2>1, <2>2
<1>6. Orphan(s, t, R, F, N)
  BY <1>2, <1>5 DEF Orphan
<1>. QED
  BY <1>6 DEF R, N

\* The other one goes on as if nothing had happened.
LEMMA SurvivorActs ==
    ASSUME NEW s \in Sites, NEW t, t = Other(s), NEW P \in [Sites -> SUBSET Object], NEW F,
           NEW M, IsABag(M), Orphan(s, t, P, F, M),
           NEW c, Survivor(c, F[s]),
           c.handler = "established" => \A p \in P[s] : p.handler = "established",
           NEW out,
           \A m \in out : /\ m.type \in {"ack", "public_key", "echo", "data"}
                          /\ m.type = "data" => m.id \in UserStreams
                          /\ m.type # "data" => c.handler # "established"
                          /\ m.type = "ack" => F[t] = {}
    PROVE  Orphan(s, t, [P EXCEPT ![s] = {c}], F, M (+) Posted(s, out))
<1>. DEFINE R == [P EXCEPT ![s] = {c}]
            N == M (+) Posted(s, out)
<1>1. t \in Sites /\ t # s
  BY TwoSites
<1>2. R[s] = {c} /\ R[t] = P[t] /\ P[s] # {}
  BY <1>1 DEF Orphan
<1>3. \A e \in BagToSet(N) :
        \/ e \in BagToSet(M) /\ N[e] = M[e]
        \/ e.to = t /\ e.msg \in out
  BY PostedAre
<1>. HIDE DEF R, N
<1>4. ASSUME NEW e \in BagToSet(N) PROVE Passes(s, t, R, F, N, e)
  <2>1. CASE e \in BagToSet(M) /\ N[e] = M[e]
    <3>1. Passes(s, t, P, F, M, e)
      BY <2>1 DEF Orphan
    <3>. QED
      BY <1>2, <2>1, <3>1 DEF Passes
  <2>2. CASE e.to = t /\ e.msg \in out
    BY <1>1, <1>2, <2>2 DEF Passes
  <2>. QED
    BY <1>3, <2>1, <2>2
<1>5. Orphan(s, t, R, F, N)
  BY <1>2, <1>4 DEF Orphan
<1>. QED
  BY <1>5 DEF R, N

\* Fewer datagrams and queued retransmissions change nothing.
LEMMA OrphanFewer ==
    ASSUME NEW s, NEW t, NEW P, NEW F, NEW N, Orphan(s, t, P, F, N),
           NEW G, G[s] \subseteq F[s], G[t] \subseteq F[t],
           NEW M, BagToSet(M) \subseteq BagToSet(N), \A e \in BagToSet(M) : N[e] = 1 => M[e] = 1
    PROVE  Orphan(s, t, P, G, M)
<1>1. \A d \in BagToSet(M) : Passes(s, t, P, G, M, d)
  BY DEF Orphan, Passes
<1>2. \A p \in P[s] : Survivor(p, G[s])
  BY DEF Orphan, Survivor
<1>. QED
  BY <1>1, <1>2 DEF Orphan

\* What a peer that has just been made does with what it gets.
LEMMA NewbornFed ==
    ASSUME NEW q \in Object, Newborn(q), NEW m \in Message, NEW k \in EphemeralKey,
           m.type \in {"ack", "public_key", "echo", "data"}
    PROVE  LET r == Feed(q, m, k)
           IN  /\ r.out = {} /\ Newborn(r.p)
               /\ Answered(r.p) => Answered(q) \/ m.type = "ack"
<1>. DEFINE r == HelloHandler(q, m, k)
<1>1. Feed(q, m, k) = r
  BY DEF Feed, Newborn
<1>2. PublicKey({k}) \in Message
  BY DEF PublicKey, Message, Types, StreamIds
<1>3. CASE m.type # "ack"
  <2>1. r.p = q /\ r.out = {}
    BY <1>2, <1>3, HelloHandlerDoes
  <2>. QED
    BY <1>1, <2>1
<1>4. CASE m.type = "ack"
  <2>. DEFINE st == q.state \cup {"received_hello_ack"}
  <2>1. m.type # "hello" /\ ~ (hello_complete \subseteq st)
    BY <1>4 DEF Newborn, hello_complete
  <2>2. /\ r.out = {}
        /\ Becomes(q, r.p, st, q.handler, {}, q.epub, q.peer_epub, q.key)
    BY <1>2, <1>4, <2>1, HelloHandlerDoes
  <2>. HIDE DEF r
  <2>3. Newborn(r.p)
    BY <2>1, <2>2 DEF Newborn, LocalOK, Becomes, HasKey
  <2>. QED
    BY <1>1, <1>4, <2>2, <2>3
<1>. QED
  BY <1>3, <1>4

\* What a peer that is left over does with a hello, unless it is established.
LEMMA SurvivorFed ==
    ASSUME NEW s, NEW p \in Object, PeerOK(s, p), NEW queued, Survivor(p, queued),
           p.handler # "established", NEW m \in Message, m.type = "hello",
           NEW k \in EphemeralKey
    PROVE  LET r == Feed(p, m, k)
           IN  /\ Survivor(r.p, queued) /\ r.p.handler # "established"
               /\ r.out \subseteq {Ack, PublicKey({k})}
<1>1. PublicKey({k}) \in Message
  BY DEF PublicKey, Message, Types, StreamIds
<1>2. p.handler \in {"hello", "public_key", "echo"} /\ LocalOK(p)
  BY ObjectIs DEF PeerOK, PhaseOK, Survivor
<1>3. ASSUME NEW c, Becomes(p, c, p.state, p.handler, p.timer, p.epub, p.peer_epub, p.key)
      PROVE  Survivor(c, queued) /\ c.handler # "established"
  <2>1. Flight(c) = Flight(p) /\ (Answered(c) <=> Answered(p)) /\ (HasKey(c) <=> HasKey(p))
    BY <1>3 DEF Becomes, Flight, Answered, HasKey
  <2>2. LocalOK(c)
    BY <1>2, <1>3, <2>1 DEF LocalOK, Becomes
  <2>. QED
    BY <1>3, <2>1, <2>2 DEF Survivor, Becomes
<1>4. CASE p.handler = "hello"
  <2>. DEFINE r == HelloHandler(p, m, k)
              st == p.state \cup (IF m.type = "hello" THEN {"received_hello"}
                                  ELSE {"received_hello_ack"})
  <2>1. Feed(p, m, k) = r
    BY <1>4 DEF Feed
  <2>2. hello_complete \subseteq st /\ st \subseteq hello_complete /\ queued = {}
    BY <1>2, <1>4 DEF Survivor, LocalOK, Answered, PeerOK, PhaseOK, hello_complete
  <2>3. r.out = (IF m.type = "hello" THEN {Ack} ELSE {}) \cup {PublicKey({k})}
    BY <1>1, <2>2, HelloHandlerDoes
  <2>3a. Becomes(p, r.p, st \cup {"sent_public_key"}, "public_key",
                 {PublicKey({k})}, {k}, p.peer_epub, p.key)
    BY <1>1, <2>2, HelloHandlerDoes
  <2>. HIDE DEF r
  <2>4. /\ "received_public_key" \notin r.p.state /\ "received_public_key_ack" \notin r.p.state
        /\ r.p.handler = "public_key" /\ r.p.epub = {k} /\ r.p.timer = {PublicKey({k})}
        /\ r.p.streams = p.streams
    BY <2>2, <2>3a DEF Becomes, hello_complete
  <2>5. Flight(r.p) = {PublicKey({k})} /\ ~ Answered(r.p) /\ ~ HasKey(r.p)
    BY <2>4 DEF Flight, Answered, HasKey
  <2>6. LocalOK(r.p)
    BY <1>2, <2>4, <2>5 DEF LocalOK, public_key_exchanged
  <2>. QED
    BY <2>1, <2>2, <2>3, <2>4, <2>5, <2>6 DEF Survivor
<1>5. CASE p.handler = "public_key"
  <2>. DEFINE r == PublicKeyHandler(p, m)
  <2>1. Feed(p, m, k) = r
    BY <1>5 DEF Feed
  <2>2. ~ (public_key_exchanged \subseteq p.state) /\ p.state \cup {} = p.state
    BY <1>2, <1>5 DEF LocalOK
  <2>3. /\ r.out = PublicKeyAnswers(m)
        /\ Becomes(p, r.p, p.state, p.handler, p.timer, p.epub, p.peer_epub, p.key)
    BY <1>1, <1>2, <2>2, PublicKeyHandlerDoes
  <2>. HIDE DEF r
  <2>. QED
    BY <1>2, <1>3, <2>1, <2>3 DEF PublicKeyAnswers
<1>6. CASE p.handler = "echo"
  <2>. DEFINE r == EchoHandler(p, m)
  <2>1. Feed(p, m, k) = r
    BY <1>6 DEF Feed
  <2>2. "wait_for_echo" \in p.state
    BY <1>2, <1>6 DEF LocalOK
  <2>3. /\ r.out = EchoAnswers(m)
        /\ Becomes(p, r.p, p.state, p.handler, p.timer, p.epub, p.peer_epub, p.key)
    BY <1>1, <1>2, <2>2, EchoHandlerDoes
  <2>. HIDE DEF r
  <2>. QED
    BY <1>2, <1>3, <2>1, <2>3 DEF EchoAnswers
<1>. QED
  BY <1>2, <1>4, <1>5, <1>6

\* What is left of the network when a datagram is taken from it.
LEMMA OrphanTook ==
    ASSUME Inv, NEW s \in Sites, NEW t, t = Other(s), Orphan(s, t, peers, fired, net),
           NEW d \in BagToSet(net)
    PROVE  LET M == net (-) SetToBag({d})
           IN  /\ IsABag(M) /\ Orphan(s, t, peers, fired, M)
               /\ d.to \in Sites /\ d.msg \in Message
               /\ d.to = s => \A e \in BagToSet(M) : e.to # s
<1>. DEFINE M == net (-) SetToBag({d})
<1>1. NetOK /\ IsABag(net)
  BY Parts DEF NetOK
<1>2. d \in [to : Sites, msg : Message] /\ \A e \in BagToSet(net) : e \in [to : Sites, msg : Message]
  BY <1>1 DEF NetOK
<1>3. IsABag(M) /\ BagToSet(M) \subseteq BagToSet(net)
  BY <1>1, Bag
<1>4. /\ \A e \in BagToSet(M) : net[e] = 1 => M[e] = 1
      /\ net[d] = 1 => d \notin BagToSet(M)
  BY <1>1, CopiesLeft
<1>. HIDE DEF M
<1>5. Orphan(s, t, peers, fired, M)
  BY <1>3, <1>4, OrphanFewer
<1>6. ASSUME d.to = s, NEW e \in BagToSet(M) PROVE e.to # s
  <2>1. Passes(s, t, peers, fired, net, d) /\ Passes(s, t, peers, fired, net, e)
    BY <1>3, <1>6 DEF Orphan
  <2>2. e.to = s => e = d
    BY <1>2, <1>3, <1>6, <2>1 DEF Passes
  <2>. QED
    BY <1>4, <1>6, <2>1, <2>2 DEF Passes
<1>. QED
  BY <1>2, <1>3, <1>5, <1>6 DEF M

\* Two sites one of which has no peer, while the other's has had no answer, are
\* linked.
LEMMA Forgotten ==
    ASSUME NEW s \in Sites, NEW t, t = Other(s), NEW P, NEW F, NEW N, P[s] = {}, F[s] = {},
           \A q \in P[t] : /\ LocalOK(q) /\ q.handler = "hello" /\ q.state \subseteq hello_complete
                           /\ "received_hello_ack" \notin q.state,
           F[t] \subseteq {Hello}, P[t] = {} => F[t] = {},
           \A e \in BagToSet(N) : e.msg.type = "data" /\ e.msg.id \in UserStreams
    PROVE  Linked(P, F, N)
<1>1. \A x \in Sites : x = s \/ x = t
  BY TwoSites
<1>2. \A q \in P[t] : ~ Answered(q) /\ Flight(q) = {Hello} /\ Knows(q, P[Other(t)])
  BY DEF Answered, Flight, Knows, hello_complete
<1>3. \A m \in F[t] : Awaits(P[t], m)
  BY <1>2 DEF Awaits
<1>4. \A e \in BagToSet(N) : DatagramOK(P[e.to], P[Other(e.to)], e.msg)
  BY DEF DatagramOK, Asks, Replies
<1>5. \A x \in Sites : StopAndWait(x, F, N)
  BY DEF StopAndWait, Concerns, Asks, Replies
<1>. QED
  BY <1>1, <1>2, <1>3, <1>4, <1>5 DEF Linked

\* The hello of the one that started over resets an established peer, and the two
\* are linked again.
LEMMA Relinked ==
    ASSUME NEW s \in Sites, NEW t, t = Other(s), NEW P \in [Sites -> SUBSET Object], NEW F,
           \A x \in Sites : \A p, q \in P[x] : p = q,
           NEW M, IsABag(M), Orphan(s, t, P, F, M), \A e \in BagToSet(M) : e.to = t,
           P[t] # {}, F[t] = {}, \A q \in P[t] : q.state \subseteq hello_complete,
           \E p \in P[s] : p.handler = "established",
           NEW c, c.handler = "hello", c.state = {"sent_hello", "received_hello"},
           c.timer = {Hello}, c.streams = {}
    PROVE  Linked([P EXCEPT ![s] = {c}], F, M (+) Posted(s, {Hello, Ack}))
<1>. DEFINE R == [P EXCEPT ![s] = {}]
<1>1. t \in Sites /\ t # s /\ Other(t) = s
  BY TwoSites
<1>2. /\ R[s] = {} /\ R[t] = P[t] /\ R \in [Sites -> SUBSET Object]
      /\ \A x \in Sites : \A p, q \in R[x] : p = q
  BY <1>1
<1>3. [R EXCEPT ![s] = {c}] = [P EXCEPT ![s] = {c}]
  OBVIOUS
<1>. HIDE DEF R
<1>4. F[s] = {}
  BY DEF Orphan, Survivor, Answered
<1>5. \A e \in BagToSet(M) : e.msg.type = "data" /\ e.msg.id \in UserStreams
  BY DEF Orphan, Passes
<1>6. \A q \in P[t] : /\ LocalOK(q) /\ q.handler = "hello" /\ ~ Answered(q)
                      /\ "received_hello_ack" \notin q.state
  BY DEF Orphan, Newborn, Answered
<1>7. Linked(R, F, M)
  BY <1>2, <1>4, <1>5, <1>6, Forgotten
<1>8. Quiet(t, F, M)
  BY <1>5 DEF Quiet, Concerns, Asks, Replies
<1>9. DatagramOK(R[t], {c}, Ack)
  BY <1>2, <1>6, TypesAre DEF DatagramOK, Answers, Asks, Replies
<1>. DEFINE out == {Hello, Ack}
<1>10. out \subseteq {Hello, Ack} /\ "sent_hello" \in c.state
       /\ c.state \subseteq {"sent_hello", "received_hello"}
  OBVIOUS
<1>. HIDE DEF out
<1>11. Reacts(s, R, F, M, c, out)
  BY <1>2, <1>7, <1>8, <1>9, <1>10, NewReacts
<1>12. Linked([R EXCEPT ![s] = {c}], F, M (+) Posted(s, out))
  BY <1>1, <1>2, <1>7, <1>11, ActsLinked
<1>. QED
  BY <1>3, <1>12 DEF out

\* A datagram arrives at either.
LEMMA ReceiveOrphan ==
    ASSUME Inv, NEW s \in Sites, NEW t, t = Other(s), Orphan(s, t, peers, fired, net),
           NEW d \in BagToSet(net), Receive(d)
    PROVE  Linked(peers', fired', net') \/ Orphan(s, t, peers', fired', net')
<1>. DEFINE M == net (-) SetToBag({d})
            m == d.msg
            k == NextKey(d.to)
<1>1. /\ IsABag(M) /\ Orphan(s, t, peers, fired, M) /\ d.to \in Sites /\ m \in Message
      /\ d.to = s => \A e \in BagToSet(M) : e.to # s
  BY OrphanTook
<1>2. PICK p \in peers[d.to] : Fed(d.to, d, p, {})
  BY DEF Receive
<1>. DEFINE c == Feed(p, m, k).p
            out == Feed(p, m, k).out
<1>3. peers' = [peers EXCEPT ![d.to] = {c}] /\ net' = M (+) Posted(d.to, out) /\ fired' = fired
  BY <1>2 DEF Fed
<1>4. /\ PeersOK /\ NetOK /\ generated \in [Sites -> 0 .. MaxKeys]
      /\ t \in Sites /\ s # t /\ Other(t) = s /\ (d.to = s \/ d.to = t)
  BY <1>1, Parts, TwoSites
<1>5. /\ p \in Object /\ PeerOK(d.to, p) /\ peers[d.to] = {p}
      /\ peers \in [Sites -> SUBSET Object]
  BY <1>1, <1>2, <1>4 DEF PeersOK
<1>6. k \in EphemeralKey
  BY <1>1, <1>4, BoundsAssumption DEF NextKey, EphemeralKey
<1>7. Passes(s, t, peers, fired, net, d)
  BY DEF Orphan
<1>. HIDE DEF M, k
<1>8. CASE d.to = t
  <2>1. /\ m.type \in {"ack", "public_key", "echo", "data"}
        /\ m.type = "ack" => fired[t] = {} /\ \A x \in peers[s] : x.handler # "established"
    BY <1>7, <1>8 DEF Passes
  <2>2. Newborn(p) /\ (Answered(p) => fired[t] = {} /\ \A x \in peers[s] : x.handler # "established")
    BY <1>2, <1>8 DEF Orphan
  <2>3. out = {} /\ Newborn(c) /\ (Answered(c) => Answered(p) \/ m.type = "ack")
    BY <1>1, <1>5, <1>6, <2>1, <2>2, NewbornFed
  <2>. HIDE DEF c, out
  <2>4. Orphan(s, t, [peers EXCEPT ![t] = {c}], fired, M (+) Posted(t, out))
    BY <1>1, <1>5, <2>1, <2>2, <2>3, NewbornActs
  <2>. QED
    BY <1>3, <1>8, <2>4
<1>9. CASE d.to = s /\ p.handler # "established"
  <2>1. m = Hello /\ fired[t] = {}
    BY <1>7, <1>9 DEF Passes
  <2>2. Survivor(p, fired[s])
    BY <1>2, <1>9 DEF Orphan
  <2>3. /\ Survivor(c, fired[s]) /\ c.handler # "established"
        /\ out \subseteq {Ack, PublicKey({k})}
    BY <1>1, <1>5, <1>6, <1>9, <2>1, <2>2, TypesAre, SurvivorFed
  <2>. HIDE DEF c, out
  <2>4. \A x \in out : x.type \in {"ack", "public_key"}
    BY <2>3, TypesAre
  <2>5. Orphan(s, t, [peers EXCEPT ![s] = {c}], fired, M (+) Posted(s, out))
    BY <1>1, <1>5, <2>1, <2>3, <2>4, SurvivorActs
  <2>. QED
    BY <1>3, <1>9, <2>5
<1>10. CASE d.to = s /\ p.handler = "established"
  <2>1. m = Hello /\ fired[t] = {} /\ peers[t] # {}
    BY <1>7, <1>10 DEF Passes
  <2>2. c = EstablishedHandler(p, m).p /\ out = EstablishedHandler(p, m).out
    BY <1>10 DEF Feed
  <2>. HIDE DEF c, out, m
  <2>3. m.type = "hello"
    BY <2>1, TypesAre
  <2>4. /\ out = {Hello, Ack} /\ c.state = {"sent_hello", "received_hello"}
        /\ c.handler = "hello" /\ c.timer = {Hello} /\ c.streams = {}
    BY <1>1, <1>5, <2>2, <2>3, EstablishedHandlerDoes
  <2>5. \A e \in BagToSet(M) : e.to = t
    <3>1. BagToSet(M) \subseteq BagToSet(net)
      BY <1>4, Bag DEF M, NetOK
    <3>2. \A e \in BagToSet(net) : e.to \in Sites
      BY <1>4 DEF NetOK
    <3>. QED
      BY <1>1, <1>10, <3>1, <3>2, TwoSites
  <2>6. \A q \in peers[t] : q.state \subseteq hello_complete
    <3>1. \A q \in peers[t] : PeerOK(t, q) /\ q.handler = "hello"
      BY <1>4 DEF PeersOK, Orphan, Newborn
    <3>. QED
      BY <3>1 DEF PeerOK, PhaseOK
  <2>7. \A x \in Sites : \A y, z \in peers[x] : y = z
    BY <1>4 DEF PeersOK
  <2>8. Linked([peers EXCEPT ![s] = {c}], fired, M (+) Posted(s, {Hello, Ack}))
    BY <1>1, <1>5, <1>10, <2>1, <2>4, <2>5, <2>6, <2>7, Relinked
  <2>. QED
    BY <1>3, <1>10, <2>4, <2>8
<1>. QED
  BY <1>4, <1>8, <1>9, <1>10

\* The one that started over has its first peer.
LEMMA NewOrphan ==
    ASSUME Inv, NEW s \in Sites, NEW t, t = Other(s), Orphan(s, t, peers, fired, net),
           (\E d \in BagToSet(net) : ReceiveFirst(d)) \/ (\E x \in Sites : AddPeer(x))
    PROVE  Orphan(s, t, peers', fired', net')
<1>. DEFINE p == Constructed.p
<1>1. /\ PeersOK /\ NetOK /\ generated \in [Sites -> 0 .. MaxKeys]
      /\ t \in Sites /\ s # t /\ Other(t) = s /\ \A x \in Sites : x = s \/ x = t
      /\ peers \in [Sites -> SUBSET Object] /\ peers[s] # {}
  BY Parts, TwoSites DEF PeersOK, Orphan
<1>2. /\ p \in Object /\ Constructed.out = {Hello}
      /\ p.handler = "hello" /\ p.state = {"sent_hello"}
      /\ p.timer = {Hello} /\ p.streams = {}
  BY ConstructedOK
<1>. HIDE DEF p
<1>3. Newborn(p) /\ ~ Answered(p)
  BY <1>2 DEF Newborn, LocalOK, Answered, HasKey, Flight, hello_complete
<1>4. ASSUME peers[t] = {} PROVE fired[t] = {} /\ \A e \in BagToSet(net) : e.to # s
  BY <1>4 DEF Orphan, Passes
<1>5. ASSUME NEW d \in BagToSet(net), ReceiveFirst(d)
      PROVE  Orphan(s, t, peers', fired', net')
  <2>. DEFINE M == net (-) SetToBag({d})
              m == d.msg
              k == NextKey(t)
              c == Feed(p, m, k).p
              sent == Feed(p, m, k).out
  <2>1. /\ IsABag(M) /\ Orphan(s, t, peers, fired, M) /\ d.to \in Sites /\ m \in Message
    BY OrphanTook
  <2>2. d.to = t /\ peers[t] = {}
    BY <1>1, <1>5, <2>1 DEF ReceiveFirst
  <2>3. /\ peers' = [peers EXCEPT ![t] = {c}] /\ fired' = fired
        /\ net' = M (+) Posted(t, {Hello} \cup sent)
    BY <1>2, <1>5, <2>2 DEF ReceiveFirst, Fed, p
  <2>4. k \in EphemeralKey
    BY <1>1, BoundsAssumption DEF NextKey, EphemeralKey
  <2>5. \A e \in BagToSet(M) : e.to # s
    <3>1. BagToSet(M) \subseteq BagToSet(net)
      BY <1>1, Bag DEF NetOK
    <3>. QED
      BY <1>4, <2>2, <3>1
  <2>. HIDE DEF M, k
  <2>6. /\ m.type \in {"ack", "public_key", "echo", "data"}
        /\ m.type = "ack" => \A x \in peers[s] : x.handler # "established"
    BY <2>2 DEF Orphan, Passes
  <2>7. sent = {} /\ Newborn(c) /\ (Answered(c) => m.type = "ack")
    BY <1>2, <1>3, <2>1, <2>4, <2>6, NewbornFed
  <2>. DEFINE out == {Hello} \cup sent
  <2>. HIDE DEF c, sent
  <2>8. out \subseteq {Hello}
    BY <2>7
  <2>. HIDE DEF out
  <2>9. Orphan(s, t, [peers EXCEPT ![t] = {c}], fired, M (+) Posted(t, out))
    BY <1>1, <1>4, <2>1, <2>2, <2>5, <2>6, <2>7, <2>8, NewbornActs
  <2>. QED
    BY <2>3, <2>9 DEF out
<1>6. ASSUME NEW x \in Sites, AddPeer(x) PROVE Orphan(s, t, peers', fired', net')
  <2>1. x = t /\ peers[t] = {}
    BY <1>1, <1>6 DEF AddPeer
  <2>2. peers' = [peers EXCEPT ![t] = {p}] /\ net' = net (+) Posted(t, {Hello}) /\ fired' = fired
    BY <1>2, <1>6, <2>1 DEF AddPeer, p
  <2>3. IsABag(net)
    BY <1>1 DEF NetOK
  <2>4. Orphan(s, t, [peers EXCEPT ![t] = {p}], fired, net (+) Posted(t, {Hello}))
    BY <1>1, <1>3, <1>4, <2>1, <2>3, NewbornActs
  <2>. QED
    BY <2>2, <2>4
<1>. QED
  BY <1>5, <1>6

\* A change of timer or streams alone leaves both as they are.
LEMMA AlikeOrphan ==
    ASSUME NEW p \in Object,
           NEW c, c.state = p.state, c.handler = p.handler, c.epub = p.epub,
           c.peer_epub = p.peer_epub, c.key = p.key, c.streams \subseteq UserStreams,
           c.timer \subseteq Flight(p), Answered(p) => c.timer = {}
    PROVE  /\ Newborn(p) => Newborn(c)
           /\ \A queued : Survivor(p, queued) => Survivor(c, queued)
           /\ Answered(c) <=> Answered(p)
           /\ Flight(c) = Flight(p)
<1>1. Flight(c) = Flight(p) /\ (Answered(c) <=> Answered(p)) /\ (HasKey(c) <=> HasKey(p))
  BY DEF Flight, Answered, HasKey
<1>2. LocalOK(p) => LocalOK(c)
  BY <1>1 DEF LocalOK
<1>. QED
  BY <1>1, <1>2 DEF Newborn, Survivor

\* The timers.
LEMMA TimerOrphan ==
    ASSUME Prompt, Inv, NEW s \in Sites, NEW t, t = Other(s), Orphan(s, t, peers, fired, net),
           NEW x \in Sites, TimerExpires(x)
    PROVE  Orphan(s, t, peers', fired', net')
<1>1. /\ PeersOK /\ FiredOK /\ t \in Sites /\ s # t /\ (x = s \/ x = t)
  BY Parts, TwoSites
<1>2. PICK p \in peers[x] : /\ p.timer # {} /\ fired' = [fired EXCEPT ![x] = p.timer]
                            /\ peers' = [peers EXCEPT ![x] = {[p EXCEPT !.timer = {}]}]
  BY DEF TimerExpires
<1>3. net' = net /\ BagToSet(net) = {}
  BY DEF TimerExpires, Prompt, BagToSet, EmptyBag, SetToBag
<1>. DEFINE c == [p EXCEPT !.timer = {}]
<1>4. p \in Object /\ peers[x] = {p}
  BY <1>1, <1>2 DEF PeersOK
<1>5. /\ c.state = p.state /\ c.handler = p.handler /\ c.timer = {}
      /\ c.epub = p.epub /\ c.peer_epub = p.peer_epub /\ c.key = p.key /\ c.streams = p.streams
  BY <1>4 DEF Object
<1>6. /\ peers'[x] = {c} /\ fired'[x] = p.timer
      /\ \A y \in Sites : y # x => peers'[y] = peers[y] /\ fired'[y] = fired[y]
  BY <1>1, <1>2 DEF PeersOK, FiredOK
<1>. HIDE DEF c
<1>7. LocalOK(p)
  BY <1>1, <1>2 DEF Orphan, Survivor, Newborn
<1>8. /\ Newborn(p) => Newborn(c)
      /\ \A queued : Survivor(p, queued) => Survivor(c, queued)
      /\ (Answered(c) <=> Answered(p)) /\ Flight(c) = Flight(p)
      /\ p.timer \subseteq Flight(p) /\ ~ Answered(p)
  BY <1>2, <1>4, <1>5, <1>7, AlikeOrphan DEF LocalOK
<1>9. CASE x = s
  <2>1. Survivor(c, fired'[s])
    <3>1. Survivor(c, fired[s])
      BY <1>2, <1>8, <1>9 DEF Orphan
    <3>. QED
      BY <1>6, <1>8, <1>9, <3>1 DEF Survivor
  <2>2. /\ peers'[s] = {c} /\ peers'[t] = peers[t] /\ fired'[t] = fired[t]
        /\ peers[s] = {p} /\ c.handler = p.handler
    BY <1>1, <1>4, <1>5, <1>6, <1>9
  <2>. QED
    BY <1>3, <2>1, <2>2 DEF Orphan
<1>10. CASE x = t
  <2>1. /\ peers'[t] = {c} /\ peers'[s] = peers[s] /\ fired'[s] = fired[s]
        /\ Newborn(c) /\ ~ Answered(c)
    BY <1>1, <1>2, <1>6, <1>8, <1>10 DEF Orphan
  <2>2. fired'[t] \subseteq {Hello}
    BY <1>6, <1>8, <1>10, <2>1 DEF Newborn, Flight
  <2>. QED
    BY <1>3, <2>1, <2>2 DEF Orphan
<1>. QED
  BY <1>1, <1>9, <1>10

\* ... and the retransmissions they queued.
LEMMA RetransmitOrphan ==
    ASSUME Inv, NEW s \in Sites, NEW t, t = Other(s), Orphan(s, t, peers, fired, net),
           NEW x \in Sites, Retransmit(x)
    PROVE  Orphan(s, t, peers', fired', net')
<1>1. /\ PeersOK /\ FiredOK /\ NetOK /\ t \in Sites /\ s # t /\ (x = s \/ x = t)
      /\ IsABag(net) /\ peers \in [Sites -> SUBSET Object]
  BY Parts, TwoSites DEF NetOK, PeersOK
<1>2. PICK m \in fired[x], p \in peers[x] :
             /\ peers' = [peers EXCEPT ![x] = {WithRetransmit(p, m)}]
             /\ net' = net (+) Posted(x, {m})
  BY DEF Retransmit
<1>. DEFINE G == [fired EXCEPT ![x] = {}]
            c == WithRetransmit(p, m)
<1>3. fired' = G /\ G[x] = {} /\ \A y \in Sites : G[y] \subseteq fired[y]
  BY <1>1 DEF Retransmit, FiredOK
<1>4. p \in Object
  BY <1>1, <1>2 DEF PeersOK
<1>5. /\ c.state = p.state /\ c.handler = p.handler /\ c.timer = {m}
      /\ c.epub = p.epub /\ c.peer_epub = p.peer_epub /\ c.key = p.key /\ c.streams = p.streams
  BY <1>4 DEF Object, WithRetransmit
<1>. HIDE DEF c, G
<1>6. Orphan(s, t, peers, G, net)
  BY <1>1, <1>3, OrphanFewer
<1>7. LocalOK(p) /\ ~ Answered(p) /\ m \in Flight(p)
  <2>1. CASE x = s
    BY <1>2, <2>1 DEF Orphan, Survivor
  <2>2. CASE x = t
    BY <1>2, <2>2 DEF Orphan, Newborn, Flight
  <2>. QED
    BY <1>1, <2>1, <2>2
<1>8. /\ Newborn(p) => Newborn(c)
      /\ \A queued : Survivor(p, queued) => Survivor(c, queued)
      /\ (Answered(c) <=> Answered(p)) /\ Flight(c) = Flight(p)
  BY <1>4, <1>5, <1>7, AlikeOrphan DEF LocalOK
<1>9. CASE x = s
  <2>1. Survivor(p, G[s])
    BY <1>2, <1>6, <1>9 DEF Orphan
  <2>2. Survivor(c, G[s])
    BY <1>8, <2>1
  <2>3. m.type \in {"public_key", "echo"} /\ c.handler # "established"
    <3>1. p.handler # "hello" /\ p.handler # "established"
      BY <1>7, <2>1 DEF Survivor, Answered
    <3>2. p.handler \in {"public_key", "echo"} \/ Flight(p) = {}
      BY <3>1 DEF Flight
    <3>3. m \in {PublicKey(p.epub), Echo}
      BY <1>7, <3>1, <3>2 DEF Flight
    <3>. QED
      BY <1>5, <3>1, <3>3, TypesAre
  <2>. DEFINE out == {m}
  <2>4. \A y \in out : y.type \in {"public_key", "echo"}
    BY <2>3
  <2>. HIDE DEF out
  <2>5. Orphan(s, t, [peers EXCEPT ![s] = {c}], G, net (+) Posted(s, out))
    BY <1>1, <1>6, <2>2, <2>3, <2>4, SurvivorActs
  <2>. QED
    BY <1>2, <1>3, <1>9, <2>5 DEF out, c
<1>10. CASE x = t
  <2>1. Newborn(c) /\ ~ Answered(c)
    BY <1>2, <1>7, <1>8, <1>10 DEF Orphan
  <2>2. m = Hello /\ G[t] = {}
    BY <1>2, <1>3, <1>10 DEF Orphan
  <2>3. \A e \in BagToSet(net) : e.to # s
    BY <1>2, <1>10 DEF Orphan, Passes
  <2>. DEFINE out == {m}
  <2>4. out \subseteq {Hello}
    BY <2>2
  <2>. HIDE DEF out
  <2>5. Orphan(s, t, [peers EXCEPT ![t] = {c}], G, net (+) Posted(t, out))
    BY <1>1, <1>6, <2>1, <2>2, <2>3, <2>4, NewbornActs
  <2>. QED
    BY <1>2, <1>3, <1>10, <2>5 DEF out, c
<1>. QED
  BY <1>1, <1>9, <1>10

\* Streams, and what they send.
LEMMA StreamOrphan ==
    ASSUME Inv, NEW s \in Sites, NEW t, t = Other(s), Orphan(s, t, peers, fired, net),
           NEW x \in Sites,
           \/ \E id \in UserStreams : AddStream(x, id) \/ DelStream(x, id)
           \/ \E id \in StreamIds : SendData(x, id)
    PROVE  Orphan(s, t, peers', fired', net')
<1>1. /\ PeersOK /\ NetOK /\ t \in Sites /\ s # t /\ (x = s \/ x = t)
      /\ IsABag(net) /\ peers \in [Sites -> SUBSET Object]
  BY Parts, TwoSites DEF NetOK, PeersOK
<1>2. ASSUME NEW p \in peers[x]
      PROVE  p \in Object /\ peers[x] = {p} /\ LocalOK(p) /\ PeerOK(x, p)
  BY <1>1, <1>2 DEF PeersOK, Orphan, Survivor, Newborn
<1>3. ASSUME NEW id \in UserStreams, AddStream(x, id) \/ DelStream(x, id)
      PROVE  Orphan(s, t, peers', fired', net')
  <2>1. PICK p \in peers[x] :
           \/ peers' = [peers EXCEPT ![x] = {[p EXCEPT !.streams = @ \cup {id}]}]
           \/ peers' = [peers EXCEPT ![x] = {[p EXCEPT !.streams = @ \ {id}]}]
    BY <1>3 DEF AddStream, DelStream
  <2>2. fired' = fired /\ net' = net
    BY <1>3 DEF AddStream, DelStream
  <2>3. PICK c : /\ peers' = [peers EXCEPT ![x] = {c}]
                 /\ c = [p EXCEPT !.streams = @ \cup {id}] \/ c = [p EXCEPT !.streams = @ \ {id}]
    BY <2>1
  <2>4. /\ c.state = p.state /\ c.handler = p.handler /\ c.timer = p.timer
        /\ c.epub = p.epub /\ c.peer_epub = p.peer_epub /\ c.key = p.key
        /\ c.streams \subseteq UserStreams
    BY <1>2, <2>1, <2>3 DEF Object, LocalOK
  <2>5. /\ Newborn(p) => Newborn(c)
        /\ \A queued : Survivor(p, queued) => Survivor(c, queued)
        /\ (Answered(c) <=> Answered(p))
    BY <1>2, <2>4, AlikeOrphan DEF LocalOK
  <2>6. CASE x = s
    <3>1. Survivor(c, fired[s]) /\ c.handler = p.handler /\ peers[s] = {p}
      BY <1>2, <2>4, <2>5, <2>6 DEF Orphan
    <3>2. Orphan(s, t, [peers EXCEPT ![s] = {c}], fired, net (+) Posted(s, {}))
      BY <1>1, <3>1, SurvivorActs
    <3>. QED
      BY <1>1, <2>2, <2>3, <2>6, <3>2, NothingAdded
  <2>7. CASE x = t
    <3>1. Newborn(c) /\ (Answered(c) => fired[t] = {} /\ \A y \in peers[s] : y.handler # "established")
      BY <2>1, <2>5, <2>7 DEF Orphan
    <3>2. Orphan(s, t, [peers EXCEPT ![t] = {c}], fired, net (+) Posted(t, {}))
      BY <1>1, <3>1, NewbornActs
    <3>. QED
      BY <1>1, <2>2, <2>3, <2>7, <3>2, NothingAdded
  <2>. QED
    BY <1>1, <2>6, <2>7
<1>4. ASSUME NEW id \in StreamIds, SendData(x, id) PROVE Orphan(s, t, peers', fired', net')
  <2>1. PICK p \in peers[x] : /\ id \in p.streams /\ established \subseteq p.state
                              /\ net' = net (+) Posted(x, {Data(id, p.key)})
    BY <1>4 DEF SendData
  <2>2. peers' = peers /\ fired' = fired
    BY <1>4 DEF SendData
  <2>3. x = s
    <3>1. "shared_key_agreement" \in p.state /\ "shared_key_agreement" \notin hello_complete
      BY <2>1 DEF established, hello_complete
    <3>2. p.handler # "hello"
      BY <1>2, <2>1, <3>1 DEF PeerOK, PhaseOK
    <3>. QED
      BY <1>1, <2>1, <3>2 DEF Orphan, Newborn
  <2>. DEFINE m == Data(id, p.key)
              out == {m}
  <2>4. m.type = "data" /\ m.id = id /\ id \in UserStreams
    BY <1>2, <2>1 DEF Data, LocalOK
  <2>5. \A y \in out : y.type = "data" /\ y.id \in UserStreams
    BY <2>4
  <2>6. peers[s] = {p} /\ Survivor(p, fired[s])
    BY <1>2, <2>1, <2>3 DEF Orphan
  <2>. HIDE DEF out
  <2>7. Orphan(s, t, [peers EXCEPT ![s] = {p}], fired, net (+) Posted(s, out))
    BY <1>1, <2>5, <2>6, SurvivorActs
  <2>8. [peers EXCEPT ![s] = {p}] = peers
    BY <1>1, <2>6
  <2>. QED
    BY <2>1, <2>2, <2>3, <2>7, <2>8 DEF out
<1>. QED
  BY <1>3, <1>4

\* The network.
LEMMA NetworkOrphan ==
    ASSUME Prompt, Inv, NEW s \in Sites, NEW t, t = Other(s), Orphan(s, t, peers, fired, net),
           NEW d \in BagToSet(net), Lose(d) \/ Duplicate(d)
    PROVE  Orphan(s, t, peers', fired', net')
<1>1. IsABag(net) /\ peers' = peers /\ fired' = fired
  BY Parts DEF NetOK, Lose, Duplicate
<1>2. CASE Lose(d)
  BY <1>1, <1>2, OrphanTook DEF Lose
<1>3. CASE Duplicate(d)
  <2>. DEFINE S == {d}
  <2>1. net' = net (+) SetToBag(S) /\ d.msg.type = "data" /\ S \subseteq BagToSet(net)
    BY <1>3 DEF Duplicate, Prompt
  <2>2. d.to # s
    BY <2>1, TypesAre DEF Orphan, Passes
  <2>3. BagToSet(net') = BagToSet(net) /\ \A e \in BagToSet(net) : e # d => net'[e] = net[e]
    <3>1. \A e : e # d => e \notin S
      OBVIOUS
    <3>. HIDE DEF S
    <3>2. /\ BagToSet(net (+) SetToBag(S)) = BagToSet(net) \cup S
          /\ \A e \in BagToSet(net) : e \notin S => (net (+) SetToBag(S))[e] = net[e]
      BY ONLY <1>1, CopiesAdded
    <3>. QED
      BY <2>1, <3>1, <3>2
  <2>4. \A e \in BagToSet(net') : Passes(s, t, peers, fired, net', e)
    BY <2>2, <2>3 DEF Orphan, Passes
  <2>. QED
    BY <1>1, <2>4 DEF Orphan
<1>. QED
  BY <1>2, <1>3

\* A site starts over when nothing is on its way.  If the other has had an answer,
\* it is left over; otherwise it will begin with the new one.
LEMMA RestartRekey ==
    ASSUME Orderly, Inv, NEW s \in Sites, NEW t, t = Other(s), Restart(t),
           \A p \in peers[s] : LocalOK(p) /\ (Answered(p) => fired[s] = {}),
           \A m \in fired[s] : \E p \in peers[s] : m \in Flight(p)
    PROVE  Linked(peers', fired', net') \/ Orphan(s, t, peers', fired', net')
<1>1. /\ PeersOK /\ FiredOK /\ t \in Sites /\ s # t /\ Other(t) = s
  BY Parts, TwoSites
<1>2. /\ peers' = [peers EXCEPT ![t] = {}] /\ fired' = [fired EXCEPT ![t] = {}]
      /\ BagToSet(net') = {}
  BY DEF Restart, Commanded, Orderly, BagToSet, EmptyBag, SetToBag
<1>3. /\ peers'[t] = {} /\ fired'[t] = {} /\ peers'[s] = peers[s] /\ fired'[s] = fired[s]
  BY <1>1, <1>2 DEF PeersOK, FiredOK
<1>4. CASE \A p \in peers[s] : p.handler = "hello" /\ "received_hello_ack" \notin p.state
  <2>1. \A p \in peers[s] : p.state \subseteq hello_complete
    BY <1>1, <1>4 DEF PeersOK, PeerOK, PhaseOK
  <2>2. fired[s] \subseteq {Hello} /\ (peers[s] = {} => fired[s] = {})
    BY <1>4 DEF Flight
  <2>. QED
    BY <1>1, <1>2, <1>3, <1>4, <2>1, <2>2, Forgotten
<1>5. CASE \E p \in peers[s] : p.handler # "hello" \/ "received_hello_ack" \in p.state
  <2>1. PICK p \in peers[s] : p.handler # "hello" \/ "received_hello_ack" \in p.state
    BY <1>5
  <2>2. peers[s] = {p}
    BY <1>1, <2>1 DEF PeersOK
  <2>3. Survivor(p, fired[s])
    BY <2>1, <2>2 DEF Survivor
  <2>. QED
    BY <1>2, <1>3, <2>2, <2>3 DEF Orphan
<1>. QED
  BY <1>4, <1>5

\* Every step of an orderly system keeps the invariant.
LEMMA StepRekey ==
    ASSUME Orderly, RekeyInv, [Next]_vars
    PROVE  RekeyInv'
<1>. DEFINE Left == \E s \in Sites : Orphan(s, Other(s), peers', fired', net')
            Joined == Linked(peers', fired', net')
<1>1. Inv /\ Prompt
  BY DEF RekeyInv, Orderly
<1>2. Inv'
  BY <1>1, StepInv
<1>3. /\ \A s \in Sites : ~ AddPeerAgain(s) /\ ~ DelPeer(s)
      /\ \A d \in BagToSet(net) : ~ AgreeFails(d)
  BY DEF Orderly, AddPeerAgain, DelPeer, AgreeFails, Commanded
<1>4. CASE Linked(peers, fired, net)
  <2>1. ASSUME NEW t \in Sites, Restart(t) PROVE Joined \/ Left
    <3>. DEFINE s == Other(t)
    <3>1. s \in Sites /\ t = Other(s)
      BY TwoSites
    <3>2. PeersOK
      BY <1>1, Parts
    <3>3. /\ \A p \in peers[s] : LocalOK(p) /\ (Answered(p) => fired[s] = {})
          /\ \A m \in fired[s] : \E p \in peers[s] : m \in Flight(p)
      BY <1>4, <3>1, <3>2 DEF Linked, Awaits, PeersOK
    <3>. HIDE DEF s
    <3>4. Linked(peers', fired', net') \/ Orphan(s, t, peers', fired', net')
      BY <1>1, <2>1, <3>1, <3>3, RestartRekey
    <3>. QED
      BY <3>1, <3>4
  <2>2. ASSUME UNCHANGED vars PROVE Joined
    BY <1>4, <2>2 DEF vars
  <2>. HIDE DEF Left, Joined
  <2>3. Joined \/ Left
    BY <1>1, <1>3, <1>4, <2>1, <2>2, ReceiveLinked, NewLinked, TimerLinked, RetransmitLinked,
       StreamLinked, NetworkLinked DEF Next, Joined
  <2>. QED
    BY <1>2, <2>3 DEF RekeyInv, Joined, Left
<1>5. ASSUME NEW s \in Sites, Orphan(s, Other(s), peers, fired, net) PROVE Joined \/ Left
  <2>. DEFINE t == Other(s)
              O == Orphan(s, t, peers', fired', net')
  <2>1. t \in Sites /\ s = Other(t) /\ \A x \in Sites : x = s \/ x = t
    BY TwoSites
  <2>2. Orphan(s, t, peers, fired, net)
    BY <1>5
  <2>3. O => Left
    OBVIOUS
  <2>. HIDE DEF t
  <2>4. ASSUME NEW x \in Sites, Restart(x) PROVE Joined \/ Left
    <3>1. CASE x = t
      <4>1. /\ \A p \in peers[s] : LocalOK(p) /\ (Answered(p) => fired[s] = {})
            /\ \A m \in fired[s] : \E p \in peers[s] : m \in Flight(p)
        BY <2>2 DEF Orphan, Survivor
      <4>2. t = Other(s)
        BY DEF t
      <4>3. Linked(peers', fired', net') \/ Orphan(s, t, peers', fired', net')
        BY <1>1, <2>4, <3>1, <4>1, <4>2, RestartRekey
      <4>. QED
        BY <2>3, <4>3
    <3>2. CASE x = s
      <4>1. /\ \A p \in peers[t] : LocalOK(p) /\ (Answered(p) => fired[t] = {})
            /\ \A m \in fired[t] : \E p \in peers[t] : m \in Flight(p)
        BY <2>2 DEF Orphan, Newborn, Flight
      <4>2. Linked(peers', fired', net') \/ Orphan(t, s, peers', fired', net')
        BY <1>1, <2>1, <2>4, <3>2, <4>1, RestartRekey
      <4>. QED
        BY <2>1, <4>2
    <3>. QED
      BY <2>1, <3>1, <3>2
  <2>5. ASSUME UNCHANGED vars PROVE O
    BY <2>2, <2>5 DEF vars
  <2>6. t = Other(s)
    BY DEF t
  <2>. HIDE DEF Left
  <2>7. Joined \/ O \/ Left
    BY <1>1, <1>3, <2>2, <2>4, <2>5, <2>6, ReceiveOrphan, NewOrphan, TimerOrphan,
       RetransmitOrphan, StreamOrphan, NetworkOrphan DEF Next
  <2>. QED
    BY <2>3, <2>7
<1>. QED
  BY <1>2, <1>4, <1>5 DEF RekeyInv

\* The invariant of handshakes that restarts break off.
THEOREM PeerRekeyInvariant == ASSUME Orderly PROVE Spec => []RekeyInv
<1>1. Init => RekeyInv
  <2>. SUFFICES ASSUME Init PROVE RekeyInv
    OBVIOUS
  <2>1. BagToSet(net) = {} /\ \A s \in Sites : peers[s] = {} /\ fired[s] = {}
    BY DEF Init, BagToSet, EmptyBag, SetToBag
  <2>2. Linked(peers, fired, net)
    BY <2>1 DEF Linked, StopAndWait
  <2>. QED
    BY <2>2, InitInv DEF RekeyInv
<1>2. RekeyInv /\ [Next]_vars => RekeyInv'
  BY StepRekey
<1>. QED
  BY <1>1, <1>2, PTL DEF Spec

\* Two established peers use the same key, through any number of restarts of
\* either site in any state of the other, and of the handshakes they break off.
THEOREM PeerKeyAgreement == ASSUME Orderly PROVE Spec => []KeyAgreement
<1>1. ASSUME RekeyInv PROVE KeyAgreement
  <2>. SUFFICES ASSUME NEW s \in Sites, NEW t \in Sites, NEW p \in peers[s], NEW q \in peers[t],
                       p.handler = "established", q.handler = "established"
                PROVE  p.key = q.key
    BY DEF KeyAgreement
  <2>1. PeersOK
    BY <1>1, Parts DEF RekeyInv
  <2>2. CASE t = s
    BY <2>1, <2>2 DEF PeersOK
  <2>3. CASE t = Other(s) /\ Linked(peers, fired, net)
    BY <1>1, <2>3, SameKey DEF RekeyInv, SessionInv, HasKey
  <2>4. ASSUME t = Other(s), NEW x \in Sites, Orphan(x, Other(x), peers, fired, net) PROVE FALSE
    <3>1. Other(x) = s \/ Other(x) = t
      BY <2>4, TwoSites
    <3>. QED
      BY <2>4, <3>1 DEF Orphan, Newborn
  <2>. QED
    BY <1>1, <2>2, <2>3, <2>4, TwoSites DEF RekeyInv
<1>. QED
  BY <1>1, PeerRekeyInvariant, PTL

\* No datagram of the handshake is taken for one of stream 0, through restarts too.
THEOREM PeerNoPhantomStream == ASSUME Orderly PROVE Spec => []NoPhantomStream
<1>1. ASSUME RekeyInv PROVE NoPhantomStream
  <2>1. CASE Linked(peers, fired, net)
    BY <2>1 DEF Linked, LocalOK, NoPhantomStream
  <2>2. ASSUME NEW x \in Sites, Orphan(x, Other(x), peers, fired, net) PROVE NoPhantomStream
    <3>1. \A s \in Sites : s = x \/ s = Other(x)
      BY TwoSites
    <3>. QED
      BY <2>2, <3>1 DEF Orphan, Survivor, Newborn, LocalOK, NoPhantomStream
  <2>. QED
    BY <1>1, <2>1, <2>2 DEF RekeyInv
<1>. QED
  BY <1>1, PeerRekeyInvariant, PTL

-----------------------------------------------------------------------------
(* Retransmission *)

\* A peer that waits has its timer armed or its retransmission queued.
Asking(p, queued) == Answered(p) \/ p.timer # {} \/ queued # {}

\* Who is not answered will ask again.
Armed == \A s \in Sites : \A p \in peers[s] : Asking(p, fired[s])

\* Being fed does not stop a peer from asking, unless it is answered.
LEMMA FeedAsking ==
    ASSUME NEW s, NEW p \in Object, PeerOK(s, p), NEW m \in Message, NEW k \in EphemeralKey,
           NEW queued, Asking(p, queued)
    PROVE  Asking(Feed(p, m, k).p, queued)
<1>. DEFINE c == Feed(p, m, k).p
<1>. SUFFICES Asking(c, queued)
  OBVIOUS
<1>1. PublicKey({k}) \in Message
  BY DEF PublicKey, Message, Types, StreamIds
<1>2. CASE p.handler = "hello"
  <2>. DEFINE st == p.state \cup (IF m.type = "hello" THEN {"received_hello"}
                                  ELSE {"received_hello_ack"})
  <2>1. c = HelloHandler(p, m, k).p
    BY <1>2 DEF Feed
  <2>. HIDE DEF c
  <2>2. CASE m.type \notin {"hello", "ack"}
    <3>1. c = p
      BY <1>1, <2>1, <2>2, HelloHandlerDoes
    <3>. QED
      BY <3>1
  <2>3. CASE m.type \in {"hello", "ack"} /\ ~ (hello_complete \subseteq st)
    <3>1. /\ c.state = st /\ c.handler = p.handler
          /\ c.timer = IF m.type = "hello" THEN p.timer ELSE {}
      BY <1>1, <2>1, <2>3, HelloHandlerDoes DEF Becomes
    <3>. QED
      BY <1>2, <2>3, <3>1 DEF Asking, Answered
  <2>4. CASE m.type \in {"hello", "ack"} /\ hello_complete \subseteq st
    <3>1. c.timer = {PublicKey({k})}
      BY <1>1, <2>1, <2>4, HelloHandlerDoes DEF Becomes
    <3>. QED
      BY <3>1 DEF Asking
  <2>. QED
    BY <2>2, <2>3, <2>4
<1>3. CASE p.handler = "public_key"
  <2>. DEFINE st == p.state \cup (IF m.type = "public_key" THEN {"received_public_key"}
                                  ELSE IF m.type = "ack" THEN {"received_public_key_ack"}
                                  ELSE {})
  <2>1. c = PublicKeyHandler(p, m).p
    BY <1>3 DEF Feed
  <2>. HIDE DEF c
  <2>2. CASE ~ (public_key_exchanged \subseteq st)
    <3>1. /\ c.state = st /\ c.handler = p.handler
          /\ c.timer = IF m.type = "ack" THEN {} ELSE p.timer
      BY <2>1, <2>2, PublicKeyHandlerDoes DEF Becomes
    <3>. QED
      BY <1>3, <3>1 DEF Asking, Answered
  <2>3. CASE public_key_exchanged \subseteq st
    <3>1. c.timer = {Echo}
      BY <2>1, <2>3, PublicKeyHandlerDoes DEF Becomes
    <3>. QED
      BY <3>1 DEF Asking
  <2>. QED
    BY <2>2, <2>3
<1>4. CASE p.handler = "echo"
  <2>1. c = EchoHandler(p, m).p
    BY <1>4 DEF Feed
  <2>. HIDE DEF c
  <2>2. c.handler = "established" \/ (c.handler = p.handler /\ c.state = p.state /\ c.timer = p.timer)
    BY <2>1, EchoHandlerDoes DEF Becomes
  <2>. QED
    BY <1>4, <2>2 DEF Asking, Answered
<1>5. CASE p.handler = "established"
  <2>1. c = EstablishedHandler(p, m).p
    BY <1>5 DEF Feed
  <2>. HIDE DEF c
  <2>2. CASE m.type = "hello"
    <3>1. c.timer = {Hello}
      BY <2>1, <2>2, EstablishedHandlerDoes
    <3>. QED
      BY <3>1 DEF Asking
  <2>3. CASE m.type = "echo_back"
    <3>1. c = ReceivedEchoBack(p)
      BY <2>1, <2>3, EstablishedHandlerDoes
    <3>2. c.handler = "established"
      BY <1>5, <3>1, ReceivedEchoBackDoes DEF Becomes
    <3>. QED
      BY <3>2 DEF Asking, Answered
  <2>4. CASE m.type \notin {"hello", "echo_back"}
    <3>1. c = p \/ c = [p EXCEPT !.streams = @ \cup {m.id}]
      BY <2>1, <2>4, EstablishedHandlerDoes
    <3>2. c.handler = "established"
      BY <1>5, <3>1 DEF Object
    <3>. QED
      BY <3>2 DEF Asking, Answered
  <2>. QED
    BY <2>2, <2>3, <2>4
<1>6. p.handler \in {"hello", "public_key", "echo", "established"}
  BY ObjectIs DEF PeerOK, PhaseOK
<1>. QED
  BY <1>2, <1>3, <1>4, <1>5, <1>6

\* The steps that feed a peer.
LEMMA FedArmed ==
    ASSUME Inv, Armed, NEW d \in BagToSet(net), NEW p \in Object, PeerOK(d.to, p),
           Asking(p, fired[d.to]), NEW out, Fed(d.to, d, p, out)
    PROVE  Armed'
<1>. DEFINE s == d.to
            k == NextKey(s)
            c == Feed(p, d.msg, k).p
<1>1. PeersOK /\ NetOK /\ generated \in [Sites -> 0 .. MaxKeys]
  BY Parts
<1>2. s \in Sites /\ d.msg \in Message
  BY <1>1 DEF NetOK
<1>3. k \in EphemeralKey
  BY <1>1, <1>2, BoundsAssumption DEF NextKey, EphemeralKey
<1>4. peers' = [peers EXCEPT ![s] = {c}] /\ fired' = fired
  BY DEF Fed
<1>. HIDE DEF k
<1>5. Asking(c, fired[s])
  BY <1>2, <1>3, FeedAsking
<1>. HIDE DEF c
<1>. QED
  BY <1>1, <1>2, <1>4, <1>5 DEF Armed, PeersOK

\* Every step leaves whoever waits asking, disturbed or not.
LEMMA StepArmed == Inv /\ Armed /\ [Next]_vars => Armed'
<1>. SUFFICES ASSUME Inv, Armed, [Next]_vars PROVE Armed'
  OBVIOUS
<1>1. PeersOK /\ FiredOK /\ NetOK
  BY Parts
<1>2. ASSUME NEW s \in Sites, NEW c, peers' = [peers EXCEPT ![s] = {c}], Asking(c, fired'[s]),
             \A t \in Sites : t # s => fired'[t] = fired[t]
      PROVE  Armed'
  BY <1>1, <1>2 DEF Armed, PeersOK
<1>3. Constructed.p \in Object /\ Constructed.p.timer = {Hello} /\
      \A s \in Sites : PeerOK(s, Constructed.p)
  <2>1. \E s : s \in Sites
    <3>1. Sites # {}
      BY SitesAssumption, FS_EmptySet
    <3>. QED
      BY <3>1
  <2>. QED
    BY <2>1, ConstructedOK
<1>4. ASSUME NEW d \in BagToSet(net), Receive(d) PROVE Armed'
  <2>1. PICK p \in peers[d.to] : Fed(d.to, d, p, {})
    BY <1>4 DEF Receive
  <2>2. p \in Object /\ PeerOK(d.to, p) /\ Asking(p, fired[d.to])
    BY <1>1, <2>1 DEF PeersOK, NetOK, Armed
  <2>. QED
    BY <2>1, <2>2, FedArmed
<1>5. ASSUME NEW d \in BagToSet(net), ReceiveFirst(d) PROVE Armed'
  <2>. DEFINE p == Constructed.p
  <2>1. p \in Object /\ PeerOK(d.to, p) /\ Asking(p, fired[d.to])
    BY <1>1, <1>3 DEF NetOK, Asking
  <2>2. Fed(d.to, d, p, Constructed.out)
    BY <1>5 DEF ReceiveFirst
  <2>. HIDE DEF p
  <2>. QED
    BY <2>1, <2>2, FedArmed
<1>6. ASSUME NEW s \in Sites, TimerExpires(s) PROVE Armed'
  <2>1. PICK p \in peers[s] : /\ p.timer # {} /\ fired' = [fired EXCEPT ![s] = p.timer]
                              /\ peers' = [peers EXCEPT ![s] = {[p EXCEPT !.timer = {}]}]
    BY <1>6 DEF TimerExpires
  <2>2. fired'[s] # {} /\ \A t \in Sites : t # s => fired'[t] = fired[t]
    BY <1>1, <2>1 DEF FiredOK
  <2>. QED
    BY <1>2, <2>1, <2>2 DEF Asking
<1>7. ASSUME NEW s \in Sites, Retransmit(s) PROVE Armed'
  <2>1. PICK m \in fired[s], p \in peers[s] :
             peers' = [peers EXCEPT ![s] = {WithRetransmit(p, m)}]
    BY <1>7 DEF Retransmit
  <2>2. \A t \in Sites : t # s => fired'[t] = fired[t]
    BY <1>1, <1>7 DEF Retransmit, FiredOK
  <2>3. WithRetransmit(p, m).timer = {m}
    BY <1>1, <2>1 DEF PeersOK, WithRetransmit, Object
  <2>. QED
    BY <1>2, <2>1, <2>2, <2>3 DEF Asking
<1>8. ASSUME NEW s \in Sites, AddPeer(s) PROVE Armed'
  <2>1. peers' = [peers EXCEPT ![s] = {Constructed.p}] /\ fired' = fired
    BY <1>8 DEF AddPeer
  <2>. QED
    BY <1>2, <1>3, <2>1 DEF Asking
<1>9. ASSUME NEW s \in Sites, DelPeer(s) \/ Restart(s) PROVE Armed'
  <2>1. /\ peers' = [peers EXCEPT ![s] = {}] /\ \A t \in Sites : t # s => fired'[t] = fired[t]
    BY <1>1, <1>9 DEF DelPeer, Restart, FiredOK
  <2>. QED
    BY <1>1, <2>1 DEF Armed, PeersOK
<1>9a. ASSUME NEW d \in BagToSet(net), AgreeFails(d) PROVE Armed'
  <2>1. d.to \in Sites
    BY <1>1 DEF NetOK
  <2>2. peers' = [peers EXCEPT ![d.to] = {}] /\ fired' = [fired EXCEPT ![d.to] = {}]
    BY <1>9a DEF AgreeFails
  <2>. QED
    BY <1>1, <2>1, <2>2 DEF Armed, PeersOK, FiredOK
<1>10. ASSUME NEW s \in Sites, NEW id, AddStream(s, id) \/ DelStream(s, id) PROVE Armed'
  <2>1. PICK p \in peers[s] :
           \E z : peers' = [peers EXCEPT ![s] = {[p EXCEPT !.streams = z]}]
    BY <1>10 DEF AddStream, DelStream
  <2>. PICK z : peers' = [peers EXCEPT ![s] = {[p EXCEPT !.streams = z]}]
    BY <2>1
  <2>2. p \in Object /\ Asking(p, fired[s]) /\ fired' = fired
    BY <1>1, <1>10, <2>1 DEF PeersOK, Armed, AddStream, DelStream
  <2>3. Asking([p EXCEPT !.streams = z], fired[s])
    BY <2>2 DEF Object, Asking, Answered
  <2>. QED
    BY <1>2, <2>1, <2>2, <2>3
<1>11. ASSUME UNCHANGED <<peers, fired>> PROVE Armed'
  BY <1>11 DEF Armed
<1>12. ASSUME NEW s \in Sites, NEW id, AddPeerAgain(s) \/ SendData(s, id) PROVE Armed'
  BY <1>11, <1>12 DEF AddPeerAgain, SendData
<1>13. ASSUME NEW d, Lose(d) \/ Duplicate(d) PROVE Armed'
  BY <1>11, <1>13 DEF Lose, Duplicate
<1>. QED
  BY <1>4, <1>5, <1>6, <1>7, <1>8, <1>9, <1>9a, <1>10, <1>11, <1>12, <1>13 DEF Next, vars

\* A peer that waits for an answer has a timer that will make it ask again, even
\* if sites restart and answers are late.
THEOREM PeerArmed == Spec => []Armed
<1>1. Init => Armed
  BY DEF Init, Armed
<1>. QED
  BY <1>1, StepArmed, PeerInvariant, PTL DEF Spec

\* In an undisturbed handshake two sites are not both left waiting for a datagram
\* that neither will send.
THEOREM PeerNeverSilent == ASSUME Undisturbed PROVE Spec => []NeverSilent
<1>1. ASSUME SessionInv, Armed PROVE NeverSilent
  <2>. SUFFICES ASSUME \A s \in Sites : fired[s] = {} /\ \E p \in peers[s] : p.timer = {},
                       NEW s \in Sites
                PROVE  Is(s, "established")
    BY DEF NeverSilent
  <2>. DEFINE o == Other(s)
  <2>1. o \in Sites /\ Other(o) = s
    BY TwoSites
  <2>2. PICK p \in peers[s] : p.timer = {}
    OBVIOUS
  <2>3. PICK q \in peers[o] : q.timer = {}
    BY <2>1
  <2>4. peers[s] = {p} /\ peers[o] = {q} /\ PeerOK(s, p) /\ PeerOK(o, q)
    <3>1. PeersOK
      BY <1>1, Parts DEF SessionInv
    <3>. QED
      BY <2>1, <2>2, <2>3, <3>1 DEF PeersOK
  <2>5. Answered(p) /\ Answered(q)
    BY <1>1, <2>1, <2>2, <2>3 DEF Armed, Asking
  <2>6. LocalOK(p) /\ LocalOK(q) /\ Knows(p, {q}) /\ Knows(q, {p})
    BY <1>1, <2>1, <2>4 DEF SessionInv, Linked
  <2>. HIDE DEF o
  <2>7. ASSUME NEW t, NEW x, PeerOK(t, x), Answered(x)
        PROVE  /\ "received_hello_ack" \in x.state
               /\ x.handler # "hello" => "received_public_key_ack" \in x.state
    BY <2>7 DEF Answered, PeerOK, PhaseOK, hello_complete, established, public_key_exchanged
  <2>8. "received_hello" \in p.state
    BY <2>4, <2>5, <2>6, <2>7 DEF Knows
  <2>9. "received_hello" \in q.state
    BY <2>4, <2>5, <2>6, <2>7 DEF Knows
  <2>10. p.handler # "hello" /\ q.handler # "hello"
    BY <2>4, <2>5, <2>6, <2>7, <2>8, <2>9 DEF LocalOK, hello_complete
  <2>11. "received_public_key" \in p.state
    BY <2>4, <2>5, <2>6, <2>7, <2>10 DEF Knows
  <2>12. p.handler # "public_key"
    BY <2>4, <2>5, <2>6, <2>11 DEF LocalOK, PeerOK, PhaseOK, Answered, public_key_exchanged
  <2>13. p.handler = "established"
    BY <2>5, <2>10, <2>12 DEF Answered
  <2>. QED
    BY <2>13 DEF Is
<1>. QED
  BY <1>1, PeerSessionInvariant, PeerArmed, PTL
=============================================================================
