-------------------------- MODULE CtrlRequestProofs --------------------------
(***************************************************************************)
(* CtrlRequest, for any number of threads and any capacity of the sockets. *)
(*                                                                         *)
(* Nothing in an answer says what it answers; what makes the scheme work   *)
(* is that the sockets are empty whenever a request begins.  That is the   *)
(* invariant, and it lasts as long as nobody interferes.                   *)
(***************************************************************************)
EXTENDS CtrlRequest, SequenceTheorems, TLAPS

Undisturbed == ~ overlapped /\ ~ abandoned

Alone == \A t, u \in Threads : pc[t] # "idle" /\ pc[u] # "idle" => t = u

Quiet == requests = <<>> /\ replies = <<>>

\* Whatever is in the sockets is asked by, or for, the one thread in a request.
Sockets ==
  /\ (\A t \in Threads : pc[t] \in {"idle", "send"}) => Quiet
  /\ \A t \in Threads :
       /\ pc[t] = "select" => \/ Quiet
                              \/ requests = <<t>> /\ replies = <<>>
                              \/ requests = <<>> /\ replies = <<t>>
       /\ pc[t] = "recv" => requests = <<>> /\ replies = <<t>>

\* A request fails only when the supplicant is gone, and then all others will.
Failures ==
  \A t \in Threads :
    /\ answer[t] # "other"
    /\ answer[t] = "failed" =>
         ~ reachable /\ Quiet /\ \A u \in Threads : pc[u] \in {"idle", "send"}

IInv == TypeOK /\ (Undisturbed => Alone /\ Sockets /\ Failures)

LEMMA DisownType ==
  ASSUME NEW q \in Seq(Threads \cup {Stale}), NEW t PROVE Disown(q, t) \in Seq(Threads \cup {Stale})
<1>1. DOMAIN q = 1 .. Len(q) /\ Len(q) \in Nat /\ \A n \in 1 .. Len(q) : q[n] \in Threads \cup {Stale}
  BY ElementOfSeq
<1>2. Disown(q, t) \in [1 .. Len(q) -> Threads \cup {Stale}]
  BY <1>1 DEF Disown
<1> QED BY <1>1, <1>2, SeqDef

LEMMA DisownEmpty == ASSUME NEW t PROVE Disown(<<>>, t) = <<>>
<1>1. DOMAIN <<>> = {} OBVIOUS
<1>2. Disown(<<>>, t) = [n \in {} |-> <<>>[n]]
  BY <1>1, Zenon DEF Disown
<1>3. <<>> = [n \in {} |-> <<>>[n]]
  OBVIOUS
<1> QED BY <1>2, <1>3

LEMMA Flags ==
  ASSUME TypeOK, [Next]_vars
  PROVE  reachable' \in BOOLEAN /\ overlapped' \in BOOLEAN /\ abandoned' \in BOOLEAN
<1>1. CASE UNCHANGED vars BY <1>1, Zenon DEF vars, TypeOK
<1>2. CASE Answer BY <1>2, Zenon DEF Answer, TypeOK
<1>3. CASE SupplicantEnds BY <1>3, Zenon DEF SupplicantEnds, TypeOK
<1>4. ASSUME NEW t \in Threads, Begin(t) \/ Request(t)
      PROVE  reachable' \in BOOLEAN /\ overlapped' \in BOOLEAN /\ abandoned' \in BOOLEAN
  BY <1>4, Zenon DEF TypeOK, Begin, Request, Send, Select, Expire, Receive, ReceiveNothing
<1> QED BY <1>1, <1>2, <1>3, <1>4 DEF Next

LEMMA Types == ASSUME TypeOK, [Next]_vars PROVE TypeOK'
<1>1. CASE UNCHANGED vars BY <1>1, Flags DEF vars, TypeOK
<1>2. CASE Answer
  <2>1. Head(requests) \in Threads \cup {Stale} /\ Tail(requests) \in Seq(Threads \cup {Stale})
    BY <1>2 DEF Answer, TypeOK
  <2> QED BY <1>2, <2>1, Flags DEF Answer, TypeOK
<1>3. CASE SupplicantEnds BY <1>3, Flags DEF SupplicantEnds, TypeOK
<1>4. ASSUME NEW t \in Threads, Begin(t) \/ Send(t) \/ Select(t) PROVE TypeOK'
  <2>1. CASE Begin(t) BY <2>1, Flags DEF Begin, TypeOK, Answers
  <2>2. CASE Send(t)
    <3>1. Append(requests, t) \in Seq(Threads \cup {Stale})
      BY DEF TypeOK
    <3> QED BY <2>2, <3>1, Flags DEF Send, Return, TypeOK, Answers
  <2>3. CASE Select(t) BY <2>3, Flags DEF Select, TypeOK
  <2> QED BY <1>4, <2>1, <2>2, <2>3
<1>5. ASSUME NEW t \in Threads, Expire(t) \/ ReceiveNothing(t) PROVE TypeOK'
  <2>1. Disown(requests, t) \in Seq(Threads \cup {Stale})
    BY DisownType DEF TypeOK
  <2>2. CASE Expire(t) BY <2>1, <2>2, Flags DEF Expire, Return, TypeOK, Answers
  <2>3. CASE ReceiveNothing(t) BY <2>1, <2>3, Flags DEF ReceiveNothing, Return, TypeOK, Answers
  <2> QED BY <1>5, <2>2, <2>3
<1>6. ASSUME NEW t \in Threads, Receive(t) PROVE TypeOK'
  <2>1. Tail(replies) \in Seq(Threads \cup {Stale})
    BY <1>6 DEF Receive, TypeOK
  <2> QED BY <1>6, <2>1, Flags, DisownType DEF Receive, Return, TypeOK, Answers
<1> QED BY <1>1, <1>2, <1>3, <1>4, <1>5, <1>6 DEF Next, Request

\* Nobody interferes unnoticed: a second request, or a thread that gives up while
\* its answer is to come, is remembered.
LEMMA Remembered ==
  ASSUME TypeOK, [Next]_vars, Undisturbed' PROVE Undisturbed
BY DEF Undisturbed, TypeOK, Next, vars, Answer, SupplicantEnds, Begin, Request, Send, Select,
   Expire, Receive, ReceiveNothing

LEMMA BeginKeeps ==
  ASSUME IInv, Undisturbed, Undisturbed', NEW t \in Threads, Begin(t)
  PROVE  Alone' /\ Sockets' /\ Failures'
<1>1. \A u \in Threads \ {t} : pc[u] = "idle"
  BY DEF Begin, Undisturbed
<1> QED BY <1>1 DEF IInv, TypeOK, Alone, Sockets, Failures, Quiet, Begin

LEMMA SendKeeps ==
  ASSUME IInv, Undisturbed, NEW t \in Threads, Send(t)
  PROVE  Alone' /\ Sockets' /\ Failures'
<1>1. \A u \in Threads \ {t} : pc[u] = "idle"
  BY DEF IInv, Alone, Send
<1>2. Quiet
  BY <1>1 DEF IInv, Sockets, Send
<1>3. Append(requests, t) = <<t>> /\ Len(requests) + Len(replies) = 0
  BY <1>2 DEF Quiet
<1> QED BY <1>1, <1>2, <1>3, MaxWaitingAssumption
        DEF IInv, TypeOK, Alone, Sockets, Failures, Quiet, Send, Return

LEMMA SelectKeeps ==
  ASSUME IInv, Undisturbed, NEW t \in Threads, Select(t)
  PROVE  Alone' /\ Sockets' /\ Failures'
<1>1. \A u \in Threads \ {t} : pc[u] = "idle"
  BY DEF IInv, Alone, Select
<1>2. requests = <<>> /\ replies = <<t>>
  BY DEF IInv, Sockets, Quiet, Select
<1> QED BY <1>1, <1>2 DEF IInv, TypeOK, Alone, Sockets, Failures, Quiet, Select

LEMMA ExpireKeeps ==
  ASSUME IInv, Undisturbed, Undisturbed', NEW t \in Threads, Expire(t)
  PROVE  Alone' /\ Sockets' /\ Failures'
<1>1. \A u \in Threads \ {t} : pc[u] = "idle"
  BY DEF IInv, Alone, Expire
<1>2. ~ Awaited(t)
  BY DEF Expire, Undisturbed
<1>3. Quiet
  <2>1. requests # <<t>>
    BY <1>2 DEF Awaited
  <2> QED BY <2>1 DEF IInv, Sockets, Quiet, Expire
<1>4. Quiet'
  BY <1>3, DisownEmpty DEF Quiet, Expire
<1> QED BY <1>1, <1>4 DEF IInv, TypeOK, Alone, Sockets, Failures, Quiet, Expire, Return

LEMMA ReceiveKeeps ==
  ASSUME IInv, Undisturbed, NEW t \in Threads, Receive(t)
  PROVE  Alone' /\ Sockets' /\ Failures'
<1>1. \A u \in Threads \ {t} : pc[u] = "idle"
  BY DEF IInv, Alone, Receive
<1>2. requests = <<>> /\ replies = <<t>>
  BY DEF IInv, Sockets, Receive
<1>3. Head(replies) = t /\ Tail(replies) = <<>>
  BY <1>2
<1>4. Quiet'
  BY <1>2, <1>3, DisownEmpty DEF Quiet, Receive
<1> QED BY <1>1, <1>2, <1>3, <1>4 DEF IInv, TypeOK, Alone, Sockets, Failures, Quiet, Receive, Return

LEMMA ReceiveNothingKeeps ==
  ASSUME IInv, Undisturbed, NEW t \in Threads, ReceiveNothing(t)
  PROVE  FALSE
BY DEF IInv, Sockets, ReceiveNothing

LEMMA SupplicantKeeps ==
  ASSUME IInv, Undisturbed, Answer \/ SupplicantEnds
  PROVE  Alone' /\ Sockets' /\ Failures'
<1>1. CASE Answer
  <2>1. PICK t \in Threads : pc[t] = "select" /\ requests = <<t>> /\ replies = <<>>
    BY <1>1 DEF IInv, TypeOK, Sockets, Quiet, Answer
  <2>2. requests' = <<>> /\ replies' = <<t>>
    BY <1>1, <2>1 DEF Answer
  <2> QED BY <1>1, <2>1, <2>2 DEF IInv, TypeOK, Alone, Sockets, Failures, Quiet, Answer
<1>2. CASE SupplicantEnds
  BY <1>2 DEF IInv, TypeOK, Alone, Sockets, Failures, Quiet, SupplicantEnds
<1> QED BY <1>1, <1>2

LEMMA StepKeeps == ASSUME IInv, [Next]_vars PROVE IInv'
<1>1. TypeOK'
  BY Types DEF IInv
<1>2. SUFFICES ASSUME Undisturbed' PROVE Alone' /\ Sockets' /\ Failures'
  BY <1>1 DEF IInv
<1>3. Undisturbed
  BY Remembered, <1>2 DEF IInv
<1>4. CASE UNCHANGED vars
  BY <1>3, <1>4 DEF vars, IInv, Alone, Sockets, Failures, Quiet
<1>5. CASE Next
  BY <1>2, <1>3, <1>5, BeginKeeps, SendKeeps, SelectKeeps, ExpireKeeps, ReceiveKeeps,
     ReceiveNothingKeeps, SupplicantKeeps DEF Next, Request
<1> QED BY <1>4, <1>5

LEMMA Invariance == Spec => []IInv
<1>1. Init => IInv
  <2>1. Init => TypeOK
    <3>1. Init => reachable \in BOOLEAN /\ overlapped \in BOOLEAN /\ abandoned \in BOOLEAN
      BY Zenon DEF Init
    <3> QED BY <3>1 DEF Init, TypeOK, Answers
  <2>2. Init => Alone /\ Sockets /\ Failures
    BY DEF Init, Alone, Sockets, Failures, Quiet
  <2> QED BY <2>1, <2>2 DEF IInv
<1> QED BY <1>1, StepKeeps, PTL DEF Spec

\* Types, with the sockets' contents.
THEOREM TypeCorrect == Spec => []TypeOK
<1>1. IInv => TypeOK BY DEF IInv
<1> QED BY <1>1, Invariance, PTL

\* As long as no two requests overlap and none is given up, each thread gets the
\* answer to what it has asked, and no request fails that will be carried out.
THEOREM AnswersOwnCorrect == Spec => []AnswersOwn
<1>1. IInv => AnswersOwn
  BY DEF IInv, Undisturbed, Failures, Quiet, AnswersOwn
<1> QED BY <1>1, Invariance, PTL

(***************************************************************************)
(* An answer is counted as a thread's own when it bears the thread's name. *)
(* That is the answer to what the thread is asking now, and not to what it *)
(* asked before, because a thread that returns disowns its request: this   *)
(* holds however the requests overlap and expire.                          *)
(***************************************************************************)

In(queue, t)   == \E n \in DOMAIN queue : queue[n] = t
Once(queue, t) == \A m, n \in DOMAIN queue : queue[m] = t /\ queue[n] = t => m = n

\* At most one request or answer bears the name of a thread, and none that of a
\* thread that waits for nothing.
Named(t) ==
  /\ Once(requests, t) /\ Once(replies, t)
  /\ ~ (In(requests, t) /\ In(replies, t))
  /\ pc[t] \in {"idle", "send"} => ~ Awaited(t)

OwnNames == \A t \in Threads : Named(t)

\* What Append, Tail and Disown do to the names in a queue.
LEMMA AppendNames ==
  ASSUME NEW S, NEW q \in Seq(S), NEW x \in S, NEW t
  PROVE  /\ In(Append(q, x), t) <=> In(q, t) \/ x = t
         /\ Once(q, t) /\ (x = t => ~ In(q, t)) => Once(Append(q, x), t)
<1>1. /\ DOMAIN q = 1 .. Len(q) /\ DOMAIN Append(q, x) = 1 .. Len(q) + 1 /\ Len(q) \in Nat
      /\ Append(q, x)[Len(q) + 1] = x
      /\ \A n \in 1 .. Len(q) : Append(q, x)[n] = q[n]
  OBVIOUS
<1> HIDE DEF In, Once
<1>2. In(Append(q, x), t) <=> In(q, t) \/ x = t
  BY <1>1 DEF In
<1>3. Once(q, t) /\ (x = t => ~ In(q, t)) => Once(Append(q, x), t)
  BY <1>1 DEF In, Once
<1> QED BY <1>2, <1>3

LEMMA TailNames ==
  ASSUME NEW S, NEW q \in Seq(S), q # <<>>, NEW t, Once(q, t)
  PROVE  /\ In(Tail(q), t) <=> In(q, t) /\ Head(q) # t
         /\ Once(Tail(q), t)
<1>1. /\ Len(q) \in Nat \ {0} /\ DOMAIN q = 1 .. Len(q) /\ DOMAIN Tail(q) = 1 .. Len(q) - 1
      /\ Head(q) = q[1]
      /\ \A n \in 1 .. Len(q) - 1 : Tail(q)[n] = q[n + 1]
  OBVIOUS
<1>2. ASSUME In(Tail(q), t) PROVE In(q, t) /\ Head(q) # t
  <2>1. PICK n \in 1 .. Len(q) - 1 : q[n + 1] = t
    BY <1>1, <1>2 DEF In
  <2>2. n + 1 \in DOMAIN q /\ n + 1 # 1
    BY <1>1
  <2> QED BY <1>1, <2>1, <2>2 DEF In, Once
<1>3. ASSUME In(q, t), Head(q) # t PROVE In(Tail(q), t)
  <2>1. PICK n \in 1 .. Len(q) : q[n] = t
    BY <1>1, <1>3 DEF In
  <2>2. n - 1 \in 1 .. Len(q) - 1 /\ (n - 1) + 1 = n
    BY <1>1, <1>3, <2>1
  <2>3. Tail(q)[n - 1] = t
    BY <1>1, <2>1, <2>2
  <2> QED BY <1>1, <2>2, <2>3 DEF In
<1>4. Once(Tail(q), t)
  BY <1>1 DEF Once
<1> QED BY <1>2, <1>3, <1>4

LEMMA DisownNames ==
  ASSUME NEW q, NEW t \in Threads, NEW u \in Threads
  PROVE  /\ In(Disown(q, t), u) <=> In(q, u) /\ u # t
         /\ Once(q, u) => Once(Disown(q, t), u)
BY ThreadsAssumption DEF Disown, In, Once

LEMMA NamedStep == ASSUME TypeOK, OwnNames, [Next]_vars PROVE OwnNames'
<1> SUFFICES ASSUME NEW u \in Threads PROVE Named(u)'
  BY DEF OwnNames
<1>0. /\ \A t \in Threads : Named(t) /\ (Awaited(t) <=> In(requests, t) \/ In(replies, t))
      /\ (Awaited(u) <=> In(requests, u) \/ In(replies, u))'
      /\ requests \in Seq(Threads \cup {Stale}) /\ replies \in Seq(Threads \cup {Stale})
      /\ pc \in [Threads -> {"idle", "send", "select", "recv"}]
  BY DEF OwnNames, Awaited, In, TypeOK
<1> HIDE DEF In, Once, Awaited
<1>1. CASE UNCHANGED vars
  BY <1>0, <1>1 DEF vars, Named, In, Once
<1>2. CASE Answer
  <2>1. Head(requests) \in Threads \cup {Stale} /\ requests # <<>>
    BY <1>0, <1>2 DEF Answer
  <2>2. Head(requests) = u => In(requests, u)
    BY <1>0, <2>1 DEF In
  <2>3. Once(requests, u) /\ Once(replies, u)
    BY <1>0 DEF Named
  <2> QED
    BY <1>0, <1>2, <2>1, <2>2, <2>3, AppendNames, TailNames DEF Answer, Named
<1>3. CASE SupplicantEnds
  <2>1. ~ In(<<>>, u) /\ Once(<<>>, u)
    BY DEF In, Once
  <2> QED BY <1>0, <1>3, <2>1 DEF SupplicantEnds, Named
<1>4. ASSUME NEW t \in Threads, Begin(t) \/ Select(t) PROVE Named(u)'
  BY <1>0, <1>4 DEF Begin, Select, Named
<1>5. ASSUME NEW t \in Threads, Send(t) PROVE Named(u)'
  <2>1. ~ In(requests, t) /\ ~ In(replies, t) /\ Once(requests, u)
    BY <1>0, <1>5 DEF Send, Named
  <2>2. CASE requests' = Append(requests, t)
    <3>1. In(requests', u) <=> In(requests, u) \/ t = u
      BY <1>0, <2>2, AppendNames
    <3>2. Once(requests', u)
      BY <1>0, <2>1, <2>2, AppendNames
    <3>3. pc' = [pc EXCEPT ![t] = "select"]
      BY <1>5, <2>2, <3>1, <2>1 DEF Send
    <3> QED BY <1>0, <1>5, <2>1, <3>1, <3>2, <3>3 DEF Send, Named
  <2>3. CASE UNCHANGED requests
    BY <1>0, <1>5, <2>1, <2>3 DEF Send, Return, Named
  <2> QED BY <1>5, <2>2, <2>3 DEF Send
<1>6. ASSUME NEW t \in Threads, Expire(t) \/ ReceiveNothing(t) PROVE Named(u)'
  <2>1. replies = <<>> /\ ~ In(replies, t)
    BY <1>6 DEF Expire, ReceiveNothing, In
  <2> QED BY <1>0, <1>6, <2>1, DisownNames DEF Expire, ReceiveNothing, Return, Named
<1>7. ASSUME NEW t \in Threads, Receive(t) PROVE Named(u)'
  <2>1. Once(replies, u) /\ replies # <<>>
    BY <1>0, <1>7 DEF Named, Receive
  <2> QED BY <1>0, <1>7, <2>1, TailNames, DisownNames DEF Receive, Return, Named
<1> QED BY <1>1, <1>2, <1>3, <1>4, <1>5, <1>6, <1>7 DEF Next, Request

\* No answer is taken twice, and none that wpa_ctrl_request has given up waiting
\* for is counted as the answer to a later request of the same thread.
THEOREM OwnNamesCorrect == Spec => []OwnNames
<1>1. Init => OwnNames
  <2>1. DOMAIN <<>> = {}
    OBVIOUS
  <2>2. \A t : Once(<<>>, t) /\ ~ In(<<>>, t)
    BY <2>1 DEF Once, In
  <2>3. Init => \A t : ~ Awaited(t)
    BY <2>1 DEF Init, Awaited
  <2> QED BY <2>2, <2>3 DEF Init, OwnNames, Named
<1>2. IInv /\ OwnNames /\ [Next]_vars => OwnNames'
  BY NamedStep DEF IInv
<1> QED BY <1>1, <1>2, Invariance, PTL DEF Spec

(***************************************************************************)
(* RequestReturns, the part that is safety: a request is sent, waited for  *)
(* and received, and every step of a thread brings it nearer to its return *)
(* whatever the other threads and the supplicant do.                       *)
(***************************************************************************)

StepsLeft(at) ==
  CASE at = "send" -> 3 [] at = "select" -> 2 [] at = "recv" -> 1 [] OTHER -> 0

RequestProgress ==
  [][\A t \in Threads : /\ Request(t) => StepsLeft(pc'[t]) < StepsLeft(pc[t])
                        /\ pc[t] # "idle" => pc'[t] = pc[t] \/ Request(t)]_vars

LEMMA RequestDescends ==
  ASSUME TypeOK, NEW t \in Threads, Request(t) PROVE StepsLeft(pc'[t]) < StepsLeft(pc[t])
BY DEF TypeOK, StepsLeft, Request, Send, Select, Expire, Receive, ReceiveNothing, Return

LEMMA OthersStay ==
  ASSUME TypeOK, Next, NEW t \in Threads, pc[t] # "idle" PROVE pc'[t] = pc[t] \/ Request(t)
<1>1. CASE Answer \/ SupplicantEnds
  BY <1>1 DEF Answer, SupplicantEnds
<1>2. ASSUME NEW u \in Threads, Begin(u) PROVE pc'[t] = pc[t]
  BY <1>2 DEF TypeOK, Begin
<1>3. ASSUME NEW u \in Threads \ {t}, Request(u) PROVE pc'[t] = pc[t]
  BY <1>3 DEF TypeOK, Request, Send, Select, Expire, Receive, ReceiveNothing, Return
<1> QED BY <1>1, <1>2, <1>3 DEF Next

\* No thread is in wpa_ctrl_request for more than three steps of its own.
THEOREM RequestProgressCorrect == Spec => RequestProgress
<1>1. TypeOK /\ [Next]_vars =>
        [\A t \in Threads : /\ Request(t) => StepsLeft(pc'[t]) < StepsLeft(pc[t])
                            /\ pc[t] # "idle" => pc'[t] = pc[t] \/ Request(t)]_vars
  BY RequestDescends, OthersStay
<1> QED BY <1>1, TypeCorrect, PTL DEF Spec, RequestProgress
=============================================================================
