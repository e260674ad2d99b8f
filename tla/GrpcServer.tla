----------------------------- MODULE GrpcServer -----------------------------
(***************************************************************************)
(* The message switch of grpc-server/GRPCServer.cpp.  One thread takes     *)
(* completion events from a queue and calls Proceed of the object that the *)
(* event names; each event is an action here.                              *)
(*                                                                         *)
(* An instance of each HandleCall waits for the next request.  A message   *)
(* stream has a reader, its HandleSwitchMessages, and a PeerMessageWriter  *)
(* that outlives it; PeerInfo::writer_ points to the writer of the stream  *)
(* that its peer opened last.                                              *)
(***************************************************************************)
EXTENDS Integers, Sequences

CONSTANTS
    Names,         \* the names of peers
    MaxStreams,    \* bound: message streams opened
    MaxCalls,      \* bound: replies under way, and instances in excess of
                   \* one of each kind beyond which no reply fails
    MaxMessages    \* bound: messages read from each peer

ASSUME ConstantsAssumption ==
    /\ MaxStreams \in Nat /\ MaxCalls \in Nat /\ MaxMessages \in Nat

VARIABLES
    registered,   \* the keys of peer_name_map_; peer_id_map_ has their hashes
    writer_,      \* PeerInfo::writer_, as the number of a stream; 0 is null
    streams,      \* the message streams opened
    waiting,      \* how many instances wait for a request, of each kind
    finishing,    \* how many are in state FINALLIZE
    read          \* how many messages were read from each peer

vars == <<registered, writer_, streams, waiting, finishing, read>>

\* The calls RunServer starts an instance for.
Calls == {"Login", "ListPeers", "SwitchMessages"}

\* How many there are of all kinds.
Total(count) == count["Login"] + count["ListPeers"] + count["SwitchMessages"]

\* A message as the receiver gets it: its sender's name, its receiver's name
\* and, instead of a text, its number among the sender's.
Message == [from : Names, to : Names, number : 1 .. MaxMessages]

Stream ==
    [peer     : Names,
     up       : BOOLEAN,       \* is the connection up?
     reading  : BOOLEAN,       \* does its HandleSwitchMessages exist?
     writer   : {"IDLE", "RUNNING", "deleted"},
     to_write : Seq(Message),
     out      : Seq(Message)]  \* what was written

-----------------------------------------------------------------------------
(* HandleCall *)

\* Proceed in state RECEIVED_REQUEST: the instance that waited makes another
\* one in its place.
Accepted(c) ==
    /\ waiting[c] > 0
    /\ UNCHANGED waiting

\* HandleRequest has called Finish.
Finishing(c) ==
    /\ Total(finishing) < MaxCalls
    /\ finishing' = [finishing EXCEPT ![c] = @ + 1]

\* Proceed in state FINALLIZE.  When the reply failed, one more instance is
\* made to wait.
Finished(c, ok) ==
    /\ finishing[c] > 0
    /\ ok \/ Total(waiting) < 3 + MaxCalls
    /\ finishing' = [finishing EXCEPT ![c] = @ - 1]
    /\ waiting' = IF ok THEN waiting ELSE [waiting EXCEPT ![c] = @ + 1]
    /\ UNCHANGED <<registered, writer_, streams, read>>

LoginResets(n) ==             \* mutant: the PeerInfo is replaced
    /\ Accepted("Login")
    /\ Finishing("Login")
    /\ registered' = registered \cup {n}
    /\ writer_' = [writer_ EXCEPT ![n] = 0]
    /\ UNCHANGED <<streams, read>>

\* HandleLogin::HandleRequest.  emplace keeps the PeerInfo that is there.
Login(n) ==
    /\ Accepted("Login")
    /\ Finishing("Login")
    /\ registered' = registered \cup {n}
    /\ UNCHANGED <<writer_, streams, read>>

\* HandleListPeers::HandleRequest, which replies whether or not it finds the
\* peer.
ListPeers ==
    /\ Accepted("ListPeers")
    /\ Finishing("ListPeers")
    /\ UNCHANGED <<registered, writer_, streams, read>>

-----------------------------------------------------------------------------
(* PeerMessageWriter *)

WriteInFront(s, m) ==         \* mutant: emplace_front
    [s EXCEPT !.to_write = <<m>> \o @, !.writer = "RUNNING"]

\* Write: the stream is written to at once if it is idle.
Write(s, m) == [s EXCEPT !.to_write = Append(@, m), !.writer = "RUNNING"]

WrittenStops(s) ==            \* mutant: idle with messages still to write
    [s EXCEPT !.out = Append(@, Head(s.to_write)),
              !.to_write = Tail(@),
              !.writer = "IDLE"]

\* Proceed, after a Write that went well.
Written(s) ==
    [s EXCEPT !.out = Append(@, Head(s.to_write)),
              !.to_write = Tail(@),
              !.writer = IF Tail(s.to_write) = <<>> THEN "IDLE" ELSE "RUNNING"]

WriteCompletes(i) ==
    /\ streams[i].writer = "RUNNING"
    /\ streams' = [streams EXCEPT ![i] = Written(@)]
    /\ UNCHANGED <<registered, writer_, waiting, finishing, read>>

WriteFailsSilently(i) ==      \* mutant: writer_ is left as it is
    /\ streams[i].writer = "RUNNING" /\ ~streams[i].up
    /\ streams' = [streams EXCEPT ![i].writer = "deleted", ![i].to_write = <<>>]
    /\ UNCHANGED <<registered, writer_, waiting, finishing, read>>

\* Proceed, after a Write that failed: the writer of the peer is forgotten,
\* whichever it is, and this one deleted.
WriteFails(i) ==
    /\ streams[i].writer = "RUNNING" /\ ~streams[i].up
    /\ streams' = [streams EXCEPT ![i].writer = "deleted", ![i].to_write = <<>>]
    /\ writer_' = [writer_ EXCEPT ![streams[i].peer] = 0]
    /\ UNCHANGED <<registered, waiting, finishing, read>>

-----------------------------------------------------------------------------
(* HandleSwitchMessages *)

\* HandleRequest the first time, for a token that is not known.
SwitchMessagesRefused(n) ==
    /\ n \notin registered
    /\ Accepted("SwitchMessages")
    /\ Finishing("SwitchMessages")
    /\ UNCHANGED <<registered, writer_, streams, read>>

\* ... and for one that is: the stream gets a writer, and a Read is started.
SwitchMessages(n) ==
    /\ n \in registered
    /\ Len(streams) < MaxStreams
    /\ Accepted("SwitchMessages")
    /\ streams' = Append(streams, [peer |-> n, up |-> TRUE, reading |-> TRUE,
                                   writer |-> "IDLE", to_write |-> <<>>, out |-> <<>>])
    /\ writer_' = [writer_ EXCEPT ![n] = Len(streams) + 1]
    /\ UNCHANGED <<registered, finishing, read>>

\* HandleRequest from then on: a message that stream i has received goes to
\* the writer of the peer it names, with the name of its sender, if there is
\* such a peer and it has one.
ReadMessage(i, to) ==
    LET from == streams[i].peer
        m == [from |-> from, to |-> to, number |-> read[from] + 1]
    IN  /\ streams[i].reading /\ streams[i].up
        /\ read[from] < MaxMessages
        /\ read' = [read EXCEPT ![from] = @ + 1]
        /\ streams' = IF to \in registered /\ writer_[to] # 0
                      THEN [streams EXCEPT ![writer_[to]] = Write(@, m)]
                      ELSE streams
        /\ UNCHANGED <<registered, writer_, waiting, finishing>>

\* HandleCall::Proceed for a Read that failed: the reader makes another
\* instance and deletes itself; the writer stays.
ReadFails(i) ==
    /\ streams[i].reading /\ ~streams[i].up
    /\ streams' = [streams EXCEPT ![i].reading = FALSE]
    /\ waiting' = [waiting EXCEPT !["SwitchMessages"] = @ + 1]
    /\ UNCHANGED <<registered, writer_, finishing, read>>

\* The connection of a peer is lost.
Disconnect(i) ==
    /\ streams[i].up
    /\ streams' = [streams EXCEPT ![i].up = FALSE]
    /\ UNCHANGED <<registered, writer_, waiting, finishing, read>>

-----------------------------------------------------------------------------
Init ==
    /\ registered = {}
    /\ writer_ = [n \in Names |-> 0]
    /\ streams = <<>>
    /\ waiting = [c \in Calls |-> 1]
    /\ finishing = [c \in Calls |-> 0]
    /\ read = [n \in Names |-> 0]

Next ==
    \/ \E c \in Calls : \E ok \in BOOLEAN : Finished(c, ok)
    \/ \E n \in Names : Login(n)
    \/ ListPeers
    \/ \E n \in Names : SwitchMessagesRefused(n)
    \/ \E n \in Names : SwitchMessages(n)
    \/ \E i \in DOMAIN streams : \E to \in Names : ReadMessage(i, to)
    \/ \E i \in DOMAIN streams : ReadFails(i)
    \/ \E i \in DOMAIN streams : WriteCompletes(i)
    \/ \E i \in DOMAIN streams : WriteFails(i)
    \/ \E i \in DOMAIN streams : Disconnect(i)

Spec == Init /\ [][Next]_vars

\* gRPC completes every Write it is given.
Fairness ==
    \A i \in 1 .. MaxStreams :
        WF_vars(i \in DOMAIN streams /\ (WriteCompletes(i) \/ WriteFails(i)))

FairSpec == Spec /\ Fairness

-----------------------------------------------------------------------------
(* Properties *)

\* Every variable has its type.
TypeOK ==
    /\ registered \subseteq Names
    /\ writer_ \in [Names -> 0 .. MaxStreams]
    /\ streams \in Seq(Stream) /\ Len(streams) <= MaxStreams
    /\ waiting \in [Calls -> Nat]
    /\ finishing \in [Calls -> 0 .. MaxCalls]
    /\ read \in [Names -> 0 .. MaxMessages]

\* PeerInfo::writer_ never points to a writer that has deleted itself, nor to
\* that of another peer.
WriterValid ==
    \A n \in Names : writer_[n] # 0 =>
        /\ writer_[n] \in DOMAIN streams
        /\ streams[writer_[n]].peer = n
        /\ streams[writer_[n]].writer # "deleted"

\* A writer has a Write outstanding exactly when it has something to write: no
\* message waits for an idle writer, and Proceed never pops an empty queue.
Busy ==
    \A i \in DOMAIN streams :
        streams[i].writer = "RUNNING" <=> streams[i].to_write # <<>>

\* A stream carries messages for its own peer only, and those of one sender in
\* the order in which they were read from it, none of them twice.
Switched ==
    \A i \in DOMAIN streams :
        LET all == streams[i].out \o streams[i].to_write IN
        /\ \A j \in DOMAIN all : all[j].to = streams[i].peer
        /\ \A j, k \in DOMAIN all :
             j < k /\ all[j].from = all[k].from => all[j].number < all[k].number

\* A peer whose last stream is up can be written to on that stream, unless a
\* Write to an earlier stream of the same peer has failed.
Reachable ==
    \A i \in DOMAIN streams :
        LET n == streams[i].peer IN
        streams[i].up /\ (\A j \in i + 1 .. Len(streams) : streams[j].peer # n) =>
            \/ writer_[n] = i
            \/ \E j \in 1 .. i - 1 : streams[j].peer = n /\ streams[j].writer = "deleted"

\* The i-th stream, if it has been opened.
Nth(i) == {streams[j] : j \in DOMAIN streams \cap {i}}

\* What is to be written to a stream is written, unless the stream breaks.
AllWritten ==
    \A i \in 1 .. MaxStreams :
        (\E s \in Nth(i) : s.to_write # <<>>)
            ~> (\E s \in Nth(i) : s.to_write = <<>> \/ ~s.up)
=============================================================================
