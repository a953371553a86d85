----------------------------- MODULE CtrlRequest -----------------------------
(***************************************************************************)
(* wpa_ctrl_request on ctrl_conn.  The dispatch loop and the scan thread   *)
(* take turns, since one pauses the other, but the event thread and the    *)
(* DHCP threads send DISCONNECT and LIST_NETWORKS whenever an event asks   *)
(* for it.  A request is sent, the answer is waited for and received, with *)
(* no lock and nothing in an answer that says what it answers.             *)
(*                                                                         *)
(* Requests and answers are named by the thread that waits for them, or    *)
(* Stale when it no longer does.  The supplicant answers in order.         *)
(*                                                                         *)
(* A definition commented "Defect" is not part of the specification: it is *)
(* the one below it with a plausible mistake, for testing the properties.  *)
(***************************************************************************)
EXTENDS Naturals, Sequences

CONSTANTS
  Threads,      \* threads that send commands at will
  Stale,        \* no thread
  MaxWaiting    \* bound: requests and answers in the sockets

ASSUME ThreadsAssumption    == Stale \notin Threads
ASSUME MaxWaitingAssumption == MaxWaiting \in Nat \ {0}

VARIABLES
  pc,           \* where wpa_ctrl_request is in each thread
  answer,       \* what the last one of each thread brought
  requests,     \* sent and not yet answered, oldest first
  replies,      \* answered and not yet received, oldest first
  reachable,    \* the supplicant this connection was opened to still runs
  overlapped,   \* history: two threads have been in a request at once
  abandoned     \* history: a thread gave up while its answer was to come

vars == <<pc, answer, requests, replies, reachable, overlapped, abandoned>>

\* "own" and "other": an answer, to this request or to another one;
\* "failed" is -1, "expired" -2.
Answers == {"none", "own", "other", "failed", "expired"}

TypeOK ==
  /\ pc \in [Threads -> {"idle", "send", "select", "recv"}]
  /\ answer \in [Threads -> Answers]
  /\ requests \in Seq(Threads \cup {Stale})
  /\ replies \in Seq(Threads \cup {Stale})
  /\ reachable \in BOOLEAN
  /\ overlapped \in BOOLEAN
  /\ abandoned \in BOOLEAN

\* wifi_connect_on_socket_path has just opened the connection.
Init ==
  /\ pc = [t \in Threads |-> "idle"]
  /\ answer = [t \in Threads |-> "none"]
  /\ requests = <<>> /\ replies = <<>>
  /\ reachable = TRUE
  /\ overlapped = FALSE /\ abandoned = FALSE

\* Nobody waits for what t has asked any more.
Disown(queue, t) ==
  [n \in DOMAIN queue |-> IF queue[n] = t THEN Stale ELSE queue[n]]

Awaited(t) ==
  \/ \E n \in DOMAIN requests : requests[n] = t
  \/ \E n \in DOMAIN replies : replies[n] = t

\* wpa_ctrl_request returns to t.
Return(t, result) ==
  /\ pc' = [pc EXCEPT ![t] = "idle"]
  /\ answer' = [answer EXCEPT ![t] = result]

Begin(t) ==
  /\ pc[t] = "idle"
  /\ pc' = [pc EXCEPT ![t] = "send"]
  /\ answer' = [answer EXCEPT ![t] = "none"]
  /\ overlapped' = (overlapped \/ \E u \in Threads \ {t} : pc[u] # "idle")
  /\ UNCHANGED <<requests, replies, reachable, abandoned>>

\* send() is tried again for five seconds while the supplicant's queue is full.
Send(t) ==
  /\ pc[t] = "send"
  /\ \/ /\ reachable /\ Len(requests) + Len(replies) < MaxWaiting
        /\ requests' = Append(requests, t)
        /\ pc' = [pc EXCEPT ![t] = "select"]
        /\ UNCHANGED answer
     \/ /\ ~ reachable \/ Len(requests) + Len(replies) >= MaxWaiting
        /\ Return(t, "failed")
        /\ UNCHANGED requests
  /\ UNCHANGED <<replies, reachable, overlapped, abandoned>>

\* Defect: the ten seconds are waited for without looking at the socket.
SelectUnseen(t) ==
  /\ pc[t] = "select"
  /\ pc' = [pc EXCEPT ![t] = "recv"]
  /\ UNCHANGED <<answer, requests, replies, reachable, overlapped, abandoned>>

\* select() finds the socket readable ...
Select(t) ==
  /\ pc[t] = "select" /\ replies # <<>>
  /\ pc' = [pc EXCEPT ![t] = "recv"]
  /\ UNCHANGED <<answer, requests, replies, reachable, overlapped, abandoned>>

\* Defect: a select() that has run out of time is called again.
ExpireAgain(t) ==
  /\ pc[t] = "select" /\ replies = <<>>
  /\ UNCHANGED vars

\* ... or ten seconds pass.  The answer may come all the same.
Expire(t) ==
  /\ pc[t] = "select" /\ replies = <<>>
  /\ Return(t, "expired")
  /\ requests' = Disown(requests, t)
  /\ abandoned' = (abandoned \/ Awaited(t))
  /\ UNCHANGED <<replies, reachable, overlapped>>

\* The first answer is taken, whosever it is.
Receive(t) ==
  /\ pc[t] = "recv" /\ replies # <<>>
  /\ Return(t, IF Head(replies) = t THEN "own" ELSE "other")
  /\ replies' = Disown(Tail(replies), t)
  /\ requests' = Disown(requests, t)
  /\ UNCHANGED <<reachable, overlapped, abandoned>>

\* Another thread was quicker: recv() on a non-blocking socket fails.
ReceiveNothing(t) ==
  /\ pc[t] = "recv" /\ replies = <<>>
  /\ Return(t, "failed")
  /\ requests' = Disown(requests, t)
  /\ UNCHANGED <<replies, reachable, overlapped, abandoned>>

Answer ==
  /\ reachable /\ requests # <<>>
  /\ replies' = Append(replies, Head(requests))
  /\ requests' = Tail(requests)
  /\ UNCHANGED <<pc, answer, reachable, overlapped, abandoned>>

\* A supplicant that is started anew does not know this connection.
SupplicantEnds ==
  /\ reachable /\ reachable' = FALSE
  /\ requests' = <<>>
  /\ UNCHANGED <<pc, answer, replies, overlapped, abandoned>>

Request(t) == Send(t) \/ Select(t) \/ Expire(t) \/ Receive(t) \/ ReceiveNothing(t)

Next == Answer \/ SupplicantEnds \/ \E t \in Threads : Begin(t) \/ Request(t)

\* Each thread runs; select() and send() have time limits.
Spec     == Init /\ [][Next]_vars
FairSpec == Spec /\ \A t \in Threads : WF_vars(Request(t))

(***************************************************************************)
(* Properties.                                                             *)
(***************************************************************************)

\* A thread gets the answer to its own request as long as no two requests
\* overlap and none has run out of time before; and it is not told that a
\* request failed that the supplicant is still going to carry out.
AnswersOwn ==
  ~ overlapped /\ ~ abandoned =>
    \A t \in Threads : /\ answer[t] # "other"
                       /\ answer[t] = "failed" => requests = <<>> /\ replies = <<>>

\* wifi_command always returns.
RequestReturns == \A t \in Threads : (pc[t] # "idle") ~> (pc[t] = "idle")

\* What wpa_ctrl.c takes for "the reply to the request" is the answer to what was
\* sent.  This does not hold once two requests overlap or one has expired.
ReplyToRequest == \A t \in Threads : answer[t] # "other"
=============================================================================
