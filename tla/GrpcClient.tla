----------------------------- MODULE GrpcClient -----------------------------
(***************************************************************************)
(* The chat client: the thread of client/MainWindow.cpp, in which the user *)
(* lists peers and sends messages, and the thread of GRPCThreads::run in   *)
(* client/GRPCClient.cpp, which handles one completion event after the     *)
(* other.  They share the Context of the message stream: its queue, the    *)
(* flag running_ and the pointer sender_.                                  *)
(*                                                                         *)
(* HandleEvent holds the mutex m_, but SendMessage and ListPeers do not,   *)
(* so a call of the user may overlap a handler.  Both threads run          *)
(* MessageSender::Proceed and ListPeerCall::Proceed, and each has a        *)
(* program counter; a step is one access to the shared state.              *)
(***************************************************************************)
EXTENDS Integers, Sequences

CONSTANTS
    MaxMessages,   \* bound: messages the user sends
    Early,         \* may the user send before the message stream is ready?
    Breaking       \* may calls fail and the message stream break?

ASSUME ConstantsAssumption ==
    /\ MaxMessages \in Nat
    /\ Early \in BOOLEAN /\ Breaking \in BOOLEAN

VARIABLES
    connected,  \* has the window connected its slots to the worker's signals?
    login,      \* LoginCall: "calling", "done" or "failed"
    peers,      \* the peer list: "none", "signalled" (OnLogin is queued for the
                \* window), "asked", "answered", "shown" or "failed"
    call,       \* state_ of SwitchMessagesCall: "none", "READY", "READING",
                \* or "deleted"
    link,       \* is the stream up?
    msg_q_, running_, sender_,  \* of the Context; is sender_ other than null?
    alive,      \* does the MessageSender exist?
    pc,         \* where each thread is
    typed,      \* how many messages the user has sent; they are numbered
    writes,     \* messages handed to rw_->Write and not completed
    delivered   \* messages whose Write completed

context == <<msg_q_, running_, sender_>>
setup == <<connected, login, peers, call>>
vars == <<setup, link, context, alive, pc, typed, writes, delivered>>

Thread == {"gui", "worker"}
Idle(t) == pc[t] = "idle"

Goto(t, l) == pc' = [pc EXCEPT ![t] = l]

-----------------------------------------------------------------------------
(* Setting up *)

\* The constructor of MainWindow, once it has started the worker, connects the
\* signals; until it returns, none of the user interface's other steps happen.
Connect ==
    /\ ~connected
    /\ connected' = TRUE
    /\ UNCHANGED <<login, peers, call, link, context, alive, pc, typed, writes, delivered>>

LoginCompletesSilently(ok) ==   \* mutant: the callback does not emit OnLogin
    /\ login = "calling" /\ Idle("worker")
    /\ ok \/ Breaking
    /\ login' = IF ok THEN "done" ELSE "failed"
    /\ call' = IF ok THEN "READY" ELSE call
    /\ UNCHANGED <<connected, peers, link, context, alive, pc, typed, writes, delivered>>

\* LoginCall::Proceed in state FIN: the callback makes the Context, starts the
\* SwitchMessagesCall and emits OnLogin, which is lost if no slot is connected;
\* a failure is only logged.
LoginCompletes(ok) ==
    /\ login = "calling" /\ Idle("worker")
    /\ ok \/ Breaking
    /\ login' = IF ok THEN "done" ELSE "failed"
    /\ call' = IF ok THEN "READY" ELSE call
    /\ peers' = IF ok /\ connected THEN "signalled" ELSE peers
    /\ UNCHANGED <<connected, link, context, alive, pc, typed, writes, delivered>>

\* MainWindow::onLogin: ListPeers constructs a ListPeerCall, which calls Proceed
\* in the window's thread.  With Finish the call is under way, ...
OnLogin ==
    /\ peers = "signalled" /\ connected /\ Idle("gui")
    /\ peers' = "asked"
    /\ Goto("gui", "finishing")
    /\ UNCHANGED <<connected, login, call, link, context, alive, typed, writes, delivered>>

\* ... and after it state_ becomes FIN: until then it is INIT.
SetFin ==
    /\ pc["gui"] = "finishing"
    /\ Goto("gui", "idle")
    /\ UNCHANGED <<setup, link, context, alive, typed, writes, delivered>>

\* ListPeerCall::Proceed for the completion, in state FIN; after a failure
\* nothing asks again.
ListPeersCompletes(ok) ==
    /\ peers = "asked" /\ Idle("worker")
    /\ pc["gui"] # "finishing"
    /\ ok \/ Breaking
    /\ peers' = IF ok THEN "answered" ELSE "failed"
    /\ UNCHANGED <<connected, login, call, link, context, alive, pc, typed, writes, delivered>>

\* ... and in state INIT, if the completion is faster than SetFin: AsyncListPeers
\* is called a second time with the same ClientContext, which the library takes
\* for a misuse, and the process aborts.  Neither thread takes another step.
ListPeersTwice ==
    /\ peers = "asked" /\ Idle("worker")
    /\ pc["gui"] = "finishing"
    /\ pc' = [t \in Thread |-> "aborted"]
    /\ UNCHANGED <<setup, link, context, alive, typed, writes, delivered>>

\* MainWindow::onListPeers: the user can choose a receiver.
OnListPeers ==
    /\ peers = "answered" /\ Idle("gui")
    /\ peers' = "shown"
    /\ UNCHANGED <<connected, login, call, link, context, alive, pc, typed, writes, delivered>>

-----------------------------------------------------------------------------
(* The worker: completion events of the message stream *)

\* SwitchMessagesCall::Proceed in state READY: the constructor of the sender
\* calls Proceed, and sender_ is assigned when it returns.
StreamReady(ok) ==
    /\ call = "READY" /\ Idle("worker")
    /\ ok = link
    /\ IF ok THEN /\ alive' = TRUE
                  /\ Goto("worker", "constructing")
                  /\ UNCHANGED call
             ELSE /\ call' = "deleted"
                  /\ UNCHANGED <<alive, pc>>
    /\ UNCHANGED <<connected, login, peers, link, context, typed, writes, delivered>>

\* The first Read is started as well.
SenderInstalled ==
    /\ pc["worker"] = "constructed"
    /\ sender_' = TRUE
    /\ call' = "READING"
    /\ Goto("worker", "idle")
    /\ UNCHANGED <<connected, login, peers, link, msg_q_, running_, alive, typed, writes, delivered>>

\* SwitchMessagesCall::Proceed in state READING, when the stream is broken.
\* (A message received is passed to the callback and changes nothing here.)
ReadFails ==
    /\ call = "READING" /\ Idle("worker")
    /\ ~link
    /\ call' = "deleted"
    /\ UNCHANGED <<connected, login, peers, link, context, alive, pc, typed, writes, delivered>>

\* MessageSender::Proceed, for a Write that has completed.
WriteCompletes ==
    /\ writes # <<>> /\ Idle("worker")
    /\ link
    /\ delivered' = Append(delivered, Head(writes))
    /\ writes' = Tail(writes)
    /\ Goto("worker", "dequeue")
    /\ UNCHANGED <<setup, link, context, alive, typed>>

WriteFailsReset ==       \* mutant: running_ is cleared for a sender that is gone
    /\ writes # <<>> /\ Idle("worker")
    /\ ~link
    /\ writes' = Tail(writes)
    /\ alive' = FALSE
    /\ running_' = FALSE
    /\ UNCHANGED <<setup, link, msg_q_, sender_, pc, typed, delivered>>

\* ... or failed: the sender deletes itself, and sender_ is left as it is.
WriteFails ==
    /\ writes # <<>> /\ Idle("worker")
    /\ ~link
    /\ writes' = Tail(writes)
    /\ alive' = FALSE
    /\ UNCHANGED <<setup, link, context, pc, typed, delivered>>

-----------------------------------------------------------------------------
(* MessageSender::Proceed from Dequeue on, in either thread *)

\* Where a thread goes when Proceed returns.
Returned(t) == IF pc[t] \in {"constructing", "constructing_empty"}
               THEN "constructed" ELSE "idle"

DequeueLast(t) ==        \* mutant: the queue is emptied from the wrong end
    /\ pc[t] \in {"constructing", "dequeue"} /\ msg_q_ # <<>>
    /\ writes' = Append(writes, msg_q_[Len(msg_q_)])
    /\ msg_q_' = SubSeq(msg_q_, 1, Len(msg_q_) - 1)
    /\ Goto(t, Returned(t))
    /\ UNCHANGED <<setup, link, running_, sender_, alive, typed, delivered>>

\* Dequeue yields a message, and Proceed passes it to rw_->Write.
Dequeue(t) ==
    /\ pc[t] \in {"constructing", "dequeue"} /\ msg_q_ # <<>>
    /\ writes' = Append(writes, Head(msg_q_))
    /\ msg_q_' = Tail(msg_q_)
    /\ Goto(t, Returned(t))
    /\ UNCHANGED <<setup, link, running_, sender_, alive, typed, delivered>>

\* Dequeue finds the queue empty ...
FindsEmpty(t) ==
    /\ pc[t] \in {"constructing", "dequeue"} /\ msg_q_ = <<>>
    /\ Goto(t, IF pc[t] = "dequeue" THEN "empty" ELSE "constructing_empty")
    /\ UNCHANGED <<setup, link, context, alive, typed, writes, delivered>>

StopsRunningNever(t) ==  \* mutant: running_ is not cleared
    /\ pc[t] \in {"empty", "constructing_empty"}
    /\ Goto(t, Returned(t))
    /\ UNCHANGED <<setup, link, context, alive, typed, writes, delivered>>

\* ... and clears running_: the sender sleeps.
StopsRunning(t) ==
    /\ pc[t] \in {"empty", "constructing_empty"}
    /\ running_' = FALSE
    /\ Goto(t, Returned(t))
    /\ UNCHANGED <<setup, link, msg_q_, sender_, alive, typed, writes, delivered>>

-----------------------------------------------------------------------------
(* The user *)

\* MainWindow::sendMessage and the first line of Context::Enqueue.
Enqueue ==
    /\ peers = "shown" /\ Idle("gui")
    /\ Early \/ sender_
    /\ typed < MaxMessages
    /\ typed' = typed + 1
    /\ msg_q_' = Append(msg_q_, typed + 1)
    /\ Goto("gui", "pushed")
    /\ UNCHANGED <<setup, link, running_, sender_, alive, writes, delivered>>

TriggerAlways ==         \* mutant: running_ is not looked at
    /\ pc["gui"] = "pushed"
    /\ Goto("gui", IF sender_ THEN "triggering" ELSE "idle")
    /\ UNCHANGED <<setup, link, context, alive, typed, writes, delivered>>

\* The second line: whether there is a sender, and whether it sleeps.
Trigger ==
    /\ pc["gui"] = "pushed"
    /\ Goto("gui", IF ~running_ /\ sender_ THEN "triggering" ELSE "idle")
    /\ UNCHANGED <<setup, link, context, alive, typed, writes, delivered>>

\* The rest of Enqueue: the sleeping sender is made to Proceed.
SetRunning ==
    /\ pc["gui"] = "triggering"
    /\ running_' = TRUE
    /\ Goto("gui", "dequeue")
    /\ UNCHANGED <<setup, link, msg_q_, sender_, alive, typed, writes, delivered>>

\* The connection is lost.
LinkBreaks ==
    /\ Breaking /\ link
    /\ link' = FALSE
    /\ UNCHANGED <<setup, context, alive, pc, typed, writes, delivered>>

-----------------------------------------------------------------------------
Init ==
    /\ connected = FALSE
    /\ login = "calling" /\ peers = "none" /\ call = "none"
    /\ link = TRUE
    /\ msg_q_ = <<>> /\ running_ = FALSE /\ sender_ = FALSE
    /\ alive = FALSE
    /\ pc = [t \in Thread |-> "idle"]
    /\ typed = 0 /\ writes = <<>> /\ delivered = <<>>

Worker ==
    \/ \E ok \in BOOLEAN : LoginCompletes(ok)
    \/ \E ok \in BOOLEAN : ListPeersCompletes(ok)
    \/ ListPeersTwice
    \/ \E ok \in BOOLEAN : StreamReady(ok)
    \/ SenderInstalled
    \/ ReadFails
    \/ WriteCompletes
    \/ WriteFails

Proceed(t) == Dequeue(t) \/ FindsEmpty(t) \/ StopsRunning(t)

Next ==
    \/ Worker
    \/ \E t \in Thread : Proceed(t)
    \/ Connect
    \/ OnLogin
    \/ SetFin
    \/ OnListPeers
    \/ Enqueue
    \/ Trigger
    \/ SetRunning
    \/ LinkBreaks

Spec == Init /\ [][Next]_vars

\* Each thread goes on with what it has begun, the worker handles the
\* completions that are due, and the user interface the signals it is sent.
Fairness ==
    /\ WF_vars(Worker)
    /\ \A t \in Thread : WF_vars(Proceed(t))
    /\ WF_vars(Connect) /\ WF_vars(OnLogin) /\ WF_vars(SetFin) /\ WF_vars(OnListPeers)
    /\ WF_vars(Trigger) /\ WF_vars(SetRunning)

FairSpec == Spec /\ Fairness

-----------------------------------------------------------------------------
(* Properties *)

Messages == 1 .. MaxMessages

\* Every variable has its type.
TypeOK ==
    /\ login \in {"calling", "done", "failed"}
    /\ connected \in BOOLEAN
    /\ peers \in {"none", "signalled", "asked", "answered", "shown", "failed"}
    /\ call \in {"none", "READY", "READING", "deleted"}
    /\ link \in BOOLEAN /\ running_ \in BOOLEAN /\ sender_ \in BOOLEAN
    /\ alive \in BOOLEAN
    /\ pc \in [Thread -> {"idle", "finishing", "pushed", "triggering", "constructing",
                          "constructing_empty", "constructed", "dequeue", "empty", "aborted"}]
    /\ typed \in 0 .. MaxMessages
    /\ msg_q_ \in Seq(Messages) /\ writes \in Seq(Messages)
    /\ delivered \in Seq(Messages)

\* A message stream has at most one Write outstanding, as gRPC demands: the
\* sender is triggered only while it sleeps.
OneWrite == Len(writes) <= 1

\* What the user sent leaves in order, each message once and none missing.
InOrder ==
    link => delivered \o writes \o msg_q_ = [i \in 1 .. typed |-> i]

\* A sender that is there, has nothing to write and is not being called.
Quiet == (\A t \in Thread : Idle(t)) /\ sender_ /\ alive /\ writes = <<>>

\* The pointer sender_ is not followed once the sender has deleted itself.
SenderExists == \A t \in Thread : pc[t] \in {"dequeue", "empty"} => alive

\* What the user sends is sent in the end, unless the connection is lost or the
\* sender has gone to sleep meanwhile, to be woken by the next message.
SentOrAsleep ==
    \A m \in Messages :
        typed >= m ~> Len(delivered) >= m \/ (Quiet /\ ~running_) \/ ~link

Aborted == \A t \in Thread : pc[t] = "aborted"

\* A login that is still under way when the window has connected its slots is
\* followed by the peer list, by a call that failed, or by the end of the process
\* if the answer overtook SetFin: the user is left with an empty window only if
\* the worker was faster than the constructor.
LoginNoticed ==
    connected /\ login = "calling"
        ~> login = "failed" \/ peers \in {"shown", "failed"} \/ Aborted
=============================================================================
