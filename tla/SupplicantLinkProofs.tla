------------------------ MODULE SupplicantLinkProofs ------------------------
(***************************************************************************)
(* Theorems about SupplicantLink, for any number of devices, sessions,     *)
(* messages and entries of the callback table.                             *)
(*                                                                         *)
(* What the closing leaves behind depends on where the event thread is,    *)
(* and that on what gwifi_state was: the invariant ties the three together *)
(* for as long as off waits long enough and no thread has ended by itself. *)
(***************************************************************************)
EXTENDS SupplicantLink, FiniteSetTheorems, TLAPS

Closed == ctrl_conn = NULL /\ monitor_conn = NULL /\ exit_sockets = NULL

\* What main has done so far of what it is doing.
Control ==
  /\ main \in {"on", "enable"} => contexts < WifiDevices
  /\ main \in {"on", "enable", "get"} => gwifi_state = "DISABLED"
  /\ main \in {"enable", "create"} =>
       ctrl_conn # NULL /\ monitor_conn # NULL /\ ~ MonitorGone
  /\ main \in InClose /\ closing_for = "get" => gwifi_state = "DISABLED"
  /\ main \in {"detach", "detached", "close_monitor", "forget_monitor", "close_exit",
               "wait", "disable"} => ctrl_conn = NULL
  /\ main \in {"close_exit", "wait", "disable"} => monitor_conn = NULL
  /\ main \in {"wait", "disable"} => exit_sockets = NULL

\* The callback table is filled as often as on has succeeded, and emptied only
\* together with the state.
Table ==
  /\ opened <= MAX_CALLBACKS_COUNT => wifi_event_callback_index = opened
  /\ gwifi_state = "ENABLED" \/ main = "write" =>
       (opened <= MAX_CALLBACKS_COUNT => registered # {})

\* There is at most one event thread, and none while the library is disabled.
OneThread ==
  ~ SlowThreads =>
    /\ \A k, l \in LiveThreads : k = l
    /\ gwifi_state = "DISABLED" \/ main \in InOn \cup {"disable"} => LiveThreads = {}
    /\ main = "create" => gwifi_state = "ENABLED"

\* Nothing is open that the globals do not hold, and a disabled library that is
\* not at work holds nothing.
Tidy ==
  ~ SlowThreads /\ ~ alone =>
    /\ open = Held
    /\ gwifi_state = "DISABLED" /\ main \in {"idle", "on", "get"} => Closed
    /\ \A k \in Sessions : thread[k] = "end" => main \in InClose
    /\ LiveThreads # {} /\ main \notin InClose => monitor_conn # NULL

IInv == TypeOK /\ Control /\ Table /\ OneThread /\ Tidy

USE DEF device, globals, callbacks, threads, supplicant, history, Sessions, NULL,
        Live, InOn, InClose, InGet, MonitorGone

(***************************************************************************)
(* Lemmas.                                                                 *)
(***************************************************************************)

\* What is readable is what is in the sockets, or nothing.
LEMMA ReadableType ==
  ASSUME TypeOK PROVE Readable \in [Sessions -> Seq(Messages)]
<1>1. <<>> \in Seq(Messages)
  OBVIOUS
<1> QED BY <1>1 DEF TypeOK, Readable

\* Writing to one socket, and reading from one, keep the sockets' types.
LEMMA ReceiveType ==
  ASSUME TypeOK, NEW k \in Sessions, NEW m \in Messages
  PROVE  Receive(k, m) \in [Sessions -> Seq(Messages)]
<1>1. Append(inbox[k], m) \in Seq(Messages)
  BY DEF TypeOK
<1> QED BY <1>1 DEF TypeOK, Receive

LEMMA ReadType ==
  ASSUME TypeOK, NEW k, k \in Sessions => inbox[k] # <<>>
  PROVE  [inbox EXCEPT ![k] = Tail(@)] \in [Sessions -> Seq(Messages)]
<1>1. CASE k \in Sessions
  <2>1. Tail(inbox[k]) \in Seq(Messages)
    BY <1>1 DEF TypeOK
  <2> QED BY <1>1, <2>1 DEF TypeOK
<1>2. CASE k \notin Sessions
  BY <1>2 DEF TypeOK
<1> QED BY <1>1, <1>2

\* A step of an event thread leaves no thread that was not there.
LEMMA FewerThreads ==
  ASSUME TypeOK, NEW k \in Sessions, NEW from \in Live, NEW to, ThreadStep(k, from, to)
  PROVE  LiveThreads' \subseteq LiveThreads /\ k \in LiveThreads
  BY DEF TypeOK, ThreadStep, LiveThreads

(***************************************************************************)
(* Every action keeps the invariant.                                       *)
(***************************************************************************)

\* wpa_supplicant sends, stops or starts.
LEMMA SupplicantKeeps ==
  ASSUME IInv, Supplicant PROVE IInv'
<1>0. inbox' \in [Sessions -> Seq(Messages)]
  <2>1. \A k \in Sessions, m \in Messages : Append(inbox[k], m) \in Seq(Messages)
    BY DEF IInv, TypeOK
  <2>2. \A k \in Monitors : k \in Sessions
    BY DEF IInv, TypeOK, Monitors
  <2>3. CASE SupplicantEvent
    BY <2>2, <2>3, ReceiveType DEF IInv, SupplicantEvent, Messages
  <2>4. CASE SupplicantStops
    BY <2>1, <2>4 DEF IInv, TypeOK, SupplicantStops, Messages
  <2>5. CASE SupplicantStarts
    BY <2>5 DEF IInv, TypeOK, SupplicantStarts
  <2> QED BY <2>3, <2>4, <2>5 DEF Supplicant
<1>1. Flags'
  BY Zenon DEF IInv, TypeOK, Flags, Supplicant, SupplicantEvent, SupplicantStops,
     SupplicantStarts
<1>2. TypeOK'
  BY <1>1, <1>0, LimitsAssumption DEF IInv, TypeOK, Control, Kinds, Supplicant,
     SupplicantEvent, SupplicantStops, SupplicantStarts
<1>3. Control' /\ Table'
  BY LimitsAssumption DEF IInv, TypeOK, Control, Table, Supplicant, SupplicantEvent,
     SupplicantStops, SupplicantStarts
<1>4. OneThread'
  BY DEF IInv, TypeOK, Control, OneThread, LiveThreads, Supplicant, SupplicantEvent,
     SupplicantStops, SupplicantStarts
<1>5. Tidy'
  BY DEF IInv, TypeOK, Control, OneThread, Tidy, Closed, Held, LiveThreads, Supplicant,
     SupplicantEvent, SupplicantStops, SupplicantStarts
<1> QED BY <1>2, <1>3, <1>4, <1>5 DEF IInv

\* aw_wifi_on begins.
LEMMA OnKeeps ==
  ASSUME IInv, On PROVE IInv'
<1>1. Flags'
  BY Zenon DEF IInv, TypeOK, Flags, On, MainStep
<1>2. TypeOK'
  BY <1>1, LimitsAssumption DEF IInv, TypeOK, Control, Kinds, On, MainStep
<1>3. Control' /\ Table'
  BY LimitsAssumption DEF IInv, TypeOK, Control, Table, On, MainStep
<1>4. OneThread'
  BY DEF IInv, TypeOK, Control, OneThread, LiveThreads, On, MainStep
<1>5. Tidy'
  BY DEF IInv, TypeOK, Control, OneThread, Tidy, Closed, Held, LiveThreads, On, MainStep
<1> QED BY <1>2, <1>3, <1>4, <1>5 DEF IInv

\* It connects.
LEMMA OnConnectsKeeps ==
  ASSUME IInv, OnConnects PROVE IInv'
<1>1. Flags'
  BY Zenon DEF IInv, TypeOK, Flags, OnConnects, ConnectSucceeds, Descriptors, MainStep
<1>2. TypeOK'
  BY <1>1, ReadableType, LimitsAssumption DEF IInv, TypeOK, Control, Kinds, OnConnects,
     ConnectSucceeds, Descriptors, MainStep
<1>3. Control' /\ Table'
  <2>1. monitor_conn' # NULL /\ ctrl_conn' # NULL /\ ~ MonitorGone'
    BY DEF OnConnects, ConnectSucceeds, Descriptors, Kinds
  <2>2. Control'
    BY <2>1 DEF IInv, Control, OnConnects, MainStep
  <2>3. Table'
    BY DEF IInv, Table, OnConnects, MainStep
  <2> QED BY <2>2, <2>3
<1>4. OneThread'
  BY DEF IInv, TypeOK, Control, OneThread, LiveThreads, OnConnects, ConnectSucceeds,
     Descriptors, MainStep
<1>5. Tidy'
  <2>1. ASSUME ~ SlowThreads, ~ alone, ConnectSucceeds PROVE open' = Held'
    <3>1. open = {}
      BY <2>1 DEF IInv, Control, Tidy, Closed, Held, OnConnects, MainStep
    <3>2. PICK k \in Sessions : /\ ctrl_conn' = k /\ monitor_conn' = k /\ exit_sockets' = k
                               /\ open' = open \cup Descriptors(k)
      BY <2>1 DEF ConnectSucceeds
    <3>3. open' = {<<"ctrl", k>>, <<"monitor", k>>, <<"exit", k>>}
      BY <3>1, <3>2 DEF Descriptors, Kinds
    <3>4. Held' = {<<"ctrl", k>>, <<"monitor", k>>, <<"exit", k>>}
      BY <3>2 DEF Held, OnConnects, MainStep
    <3> QED BY <3>3, <3>4
  <2>2. LiveThreads' = {} \/ SlowThreads
    BY DEF IInv, OneThread, LiveThreads, OnConnects, MainStep
  <2>3. ASSUME NEW k \in Sessions, ~ SlowThreads PROVE thread'[k] # "end"
    BY <2>2, <2>3 DEF LiveThreads
  <2> QED BY <2>1, <2>2, <2>3 DEF Tidy, OnConnects, MainStep
<1> QED BY <1>2, <1>3, <1>4, <1>5 DEF IInv

\* It tries again.
LEMMA OnRetriesKeeps ==
  ASSUME IInv, OnRetries PROVE IInv'
<1>1. Flags'
  BY Zenon DEF IInv, TypeOK, Flags, OnRetries, MainStep
<1>2. TypeOK'
  BY <1>1, LimitsAssumption DEF IInv, TypeOK, Control, Kinds, OnRetries, MainStep
<1>3. Control' /\ Table'
  BY LimitsAssumption DEF IInv, TypeOK, Control, Table, OnRetries, MainStep
<1>4. OneThread'
  BY DEF IInv, TypeOK, Control, OneThread, LiveThreads, OnRetries, MainStep
<1>5. Tidy'
  BY DEF IInv, TypeOK, Control, OneThread, Tidy, Closed, Held, LiveThreads, OnRetries, MainStep
<1> QED BY <1>2, <1>3, <1>4, <1>5 DEF IInv

\* It gives up.
LEMMA OnFailsKeeps ==
  ASSUME IInv, OnFails PROVE IInv'
<1>1. Flags'
  BY Zenon DEF IInv, TypeOK, Flags, OnFails, ConnectFails, MainStep
<1>2. TypeOK'
  BY <1>1, LimitsAssumption DEF IInv, TypeOK, Control, Kinds, OnFails, ConnectFails, MainStep
<1>3. Control' /\ Table'
  BY LimitsAssumption DEF IInv, TypeOK, Control, Table, OnFails, ConnectFails, MainStep
<1>4. OneThread'
  BY DEF IInv, TypeOK, Control, OneThread, LiveThreads, OnFails, ConnectFails, MainStep
<1>5. Tidy'
  BY DEF IInv, TypeOK, Control, OneThread, Tidy, Closed, Held, LiveThreads, OnFails,
     ConnectFails, MainStep
<1> QED BY <1>2, <1>3, <1>4, <1>5 DEF IInv

\* It enables the library.
LEMMA OnEnablesKeeps ==
  ASSUME IInv, OnEnables PROVE IInv'
<1>0. \/ /\ wifi_event_callback_index = MAX_CALLBACKS_COUNT
         /\ wifi_event_callback_index' = wifi_event_callback_index /\ registered' = registered
      \/ /\ wifi_event_callback_index < MAX_CALLBACKS_COUNT
         /\ wifi_event_callback_index' = wifi_event_callback_index + 1
         /\ registered' = registered \cup {wifi_event_callback_index + 1}
  BY LimitsAssumption DEF IInv, TypeOK, OnEnables, AddCallback, Register
<1>1. Flags'
  BY Zenon DEF IInv, TypeOK, Flags, OnEnables, AddCallback, Register, MainStep
<1>2. TypeOK'
  <2>1. /\ wifi_event_callback_index' \in 0 .. MAX_CALLBACKS_COUNT
        /\ registered' \subseteq 1 .. wifi_event_callback_index'
    <3>1. wifi_event_callback_index \in 0 .. MAX_CALLBACKS_COUNT
          /\ registered \subseteq 1 .. wifi_event_callback_index
      BY DEF IInv, TypeOK
    <3>2. CASE wifi_event_callback_index < MAX_CALLBACKS_COUNT
      <4>1. wifi_event_callback_index' = wifi_event_callback_index + 1
        BY <1>0, <3>1, <3>2, LimitsAssumption
      <4>2. registered' = registered \cup {wifi_event_callback_index + 1}
        BY <1>0, <3>1, <3>2, LimitsAssumption
      <4>3. ASSUME NEW n \in registered' PROVE n \in 1 .. wifi_event_callback_index'
        BY <3>1, <4>1, <4>2
      <4> QED BY <3>1, <3>2, <4>1, <4>3, LimitsAssumption
    <3>3. CASE wifi_event_callback_index = MAX_CALLBACKS_COUNT
      <4>1. wifi_event_callback_index' = wifi_event_callback_index /\ registered' = registered
        BY <1>0, <3>3, LimitsAssumption
      <4> QED BY <3>1, <4>1, Zenon
    <3> QED BY <3>1, <3>2, <3>3, LimitsAssumption
  <2>2. opened' \in 0 .. MAX_CALLBACKS_COUNT + 1 /\ contexts' \in 0 .. WifiDevices
    BY LimitsAssumption DEF IInv, TypeOK, Control, OnEnables, MainStep
  <2> QED BY <1>1, <2>1, <2>2 DEF IInv, TypeOK, OnEnables, MainStep
<1>3. Control' /\ Table'
  BY <1>0, LimitsAssumption DEF IInv, TypeOK, Control, Table, OnEnables, MainStep
<1>4. OneThread'
  BY DEF IInv, TypeOK, Control, OneThread, LiveThreads, OnEnables, AddCallback, Register,
     MainStep
<1>5. Tidy'
  BY DEF IInv, TypeOK, Control, OneThread, Tidy, Closed, Held, LiveThreads, OnEnables,
     AddCallback, Register, MainStep
<1> QED BY <1>2, <1>3, <1>4, <1>5 DEF IInv

\* It starts the event thread.
LEMMA OnCreatesKeeps ==
  ASSUME IInv, OnCreates PROVE IInv'
<1>1. Flags'
  BY Zenon DEF IInv, TypeOK, Flags, OnCreates, MainStep
<1>2. TypeOK'
  BY <1>1, LimitsAssumption DEF IInv, TypeOK, Control, Kinds, OnCreates, MainStep
<1>3. Control' /\ Table'
  BY LimitsAssumption DEF IInv, TypeOK, Control, Table, OnCreates, MainStep
<1>4. OneThread' /\ Tidy'
  <2>1. CASE UNCHANGED thread
    BY <2>1 DEF IInv, TypeOK, Control, OneThread, Tidy, Closed, Held, LiveThreads, OnCreates,
       MainStep
  <2>2. CASE thread' = [thread EXCEPT ![ctrl_conn] = "top"]
    <3>1. OneThread'
      BY <2>2 DEF IInv, TypeOK, Control, OneThread, LiveThreads, OnCreates, MainStep
    <3>2. Tidy'
      BY <2>2 DEF IInv, TypeOK, Control, OneThread, Tidy, Closed, Held, LiveThreads, OnCreates,
         MainStep
    <3> QED BY <3>1, <3>2
  <2> QED BY <2>1, <2>2 DEF OnCreates
<1> QED BY <1>2, <1>3, <1>4 DEF IInv

\* The event thread looks at monitor_conn.
LEMMA LookAtMonitorKeeps ==
  ASSUME IInv, NEW k \in Sessions, LookAtMonitor(k) PROVE IInv'
<1>0. LiveThreads' \subseteq LiveThreads /\ k \in LiveThreads
  BY FewerThreads DEF IInv, LookAtMonitor
<1>1. Flags'
  BY Zenon DEF IInv, TypeOK, Flags, LookAtMonitor, ThreadStep
<1>2. TypeOK'
  BY <1>1, LimitsAssumption DEF IInv, TypeOK, Control, Kinds, LookAtMonitor, ThreadStep
<1>3. Control' /\ Table'
  BY LimitsAssumption DEF IInv, TypeOK, Control, Table, LookAtMonitor, ThreadStep
<1>4. OneThread'
  BY <1>0 DEF IInv, TypeOK, Control, OneThread, LookAtMonitor, ThreadStep
<1>5. Tidy'
  BY <1>0, <1>4 DEF IInv, TypeOK, Control, OneThread, Tidy, Closed, Held, LookAtMonitor,
     ThreadStep
<1> QED BY <1>2, <1>3, <1>4, <1>5 DEF IInv

\* It takes the descriptors.
LEMMA GetDescriptorsKeeps ==
  ASSUME IInv, NEW k \in Sessions, GetDescriptors(k) PROVE IInv'
<1>0. LiveThreads' \subseteq LiveThreads /\ k \in LiveThreads
  BY FewerThreads DEF IInv, GetDescriptors
<1>1. Flags'
  BY Zenon DEF IInv, TypeOK, Flags, GetDescriptors, ThreadStep
<1>2. TypeOK'
  BY <1>1, LimitsAssumption DEF IInv, TypeOK, Control, Kinds, GetDescriptors, ThreadStep
<1>3. Control' /\ Table'
  BY LimitsAssumption DEF IInv, TypeOK, Control, Table, GetDescriptors, ThreadStep
<1>4. OneThread'
  BY <1>0 DEF IInv, TypeOK, Control, OneThread, GetDescriptors, ThreadStep
<1>5. Tidy'
  BY <1>0, <1>4 DEF IInv, TypeOK, Control, OneThread, Tidy, Closed, Held, GetDescriptors,
     ThreadStep
<1> QED BY <1>2, <1>3, <1>4, <1>5 DEF IInv

\* A message is there.
LEMMA PollMessageKeeps ==
  ASSUME IInv, NEW k \in Sessions, PollMessage(k) PROVE IInv'
<1>0. LiveThreads' \subseteq LiveThreads /\ k \in LiveThreads
  BY FewerThreads DEF IInv, PollMessage
<1>1. Flags'
  BY Zenon DEF IInv, TypeOK, Flags, PollMessage, Forget, ThreadStep
<1>2. TypeOK'
  BY <1>1, LimitsAssumption DEF IInv, TypeOK, Control, Kinds, PollMessage, Forget, ThreadStep
<1>3. Control' /\ Table'
  BY LimitsAssumption DEF IInv, TypeOK, Control, Table, PollMessage, Forget, ThreadStep
<1>4. OneThread'
  BY <1>0 DEF IInv, TypeOK, Control, OneThread, PollMessage, Forget, ThreadStep
<1>5. Tidy'
  BY <1>0, <1>4 DEF IInv, TypeOK, Control, OneThread, Tidy, Closed, Held, PollMessage, Forget,
     ThreadStep
<1> QED BY <1>2, <1>3, <1>4, <1>5 DEF IInv

\* The exit pair is readable.
LEMMA PollExitKeeps ==
  ASSUME IInv, NEW k \in Sessions, PollExit(k) PROVE IInv'
<1>0. LiveThreads' \subseteq LiveThreads /\ k \in LiveThreads
  BY FewerThreads DEF IInv, PollExit
<1>1. Flags'
  BY Zenon DEF IInv, TypeOK, Flags, PollExit, Forget, ThreadStep
<1>2. TypeOK'
  BY <1>1, LimitsAssumption DEF IInv, TypeOK, Control, Kinds, PollExit, Forget, ThreadStep
<1>3. Control' /\ Table'
  BY LimitsAssumption DEF IInv, TypeOK, Control, Table, PollExit, Forget, ThreadStep
<1>4. OneThread'
  BY <1>0 DEF IInv, TypeOK, Control, OneThread, PollExit, Forget, ThreadStep
<1>5. Tidy'
  BY <1>0, <1>4 DEF IInv, TypeOK, Control, OneThread, Tidy, Closed, Held, PollExit, Forget,
     ThreadStep
<1> QED BY <1>2, <1>3, <1>4, <1>5 DEF IInv

\* The message is read.
LEMMA ReadMessageKeeps ==
  ASSUME IInv, NEW k \in Sessions, ReadMessage(k) PROVE IInv'
<1>0. LiveThreads' \subseteq LiveThreads /\ k \in LiveThreads
  BY FewerThreads DEF IInv, ReadMessage
<1>r. inbox' \in [Sessions -> Seq(Messages)]
  BY ReadType DEF IInv, TypeOK, ReadMessage
<1>1. Flags'
  BY Zenon DEF IInv, TypeOK, Flags, ReadMessage, ThreadStep
<1>2. TypeOK'
  BY <1>1, <1>r, LimitsAssumption DEF IInv, TypeOK, Control, Kinds, ReadMessage, ThreadStep
<1>3. Control' /\ Table'
  BY LimitsAssumption DEF IInv, TypeOK, Control, Table, ReadMessage, ThreadStep
<1>4. OneThread'
  BY <1>0 DEF IInv, TypeOK, Control, OneThread, ReadMessage, ThreadStep
<1>5. Tidy'
  BY <1>0, <1>4 DEF IInv, TypeOK, Control, OneThread, Tidy, Closed, Held, ReadMessage,
     ThreadStep
<1> QED BY <1>2, <1>3, <1>4, <1>5 DEF IInv

\* The thread ends.
LEMMA EndThreadKeeps ==
  ASSUME IInv, NEW k \in Sessions, EndThread(k) PROVE IInv'
<1>0. LiveThreads' \subseteq LiveThreads /\ k \in LiveThreads
  BY FewerThreads DEF IInv, EndThread
<1>k. k \notin LiveThreads'
  BY DEF IInv, TypeOK, LiveThreads, EndThread, ThreadStep
<1>1. Flags'
  BY Zenon DEF IInv, TypeOK, Flags, EndThread, ThreadStep
<1>2. TypeOK'
  BY <1>1, LimitsAssumption DEF IInv, TypeOK, Control, Kinds, EndThread, ThreadStep
<1>3. Control' /\ Table'
  BY LimitsAssumption DEF IInv, TypeOK, Control, Table, EndThread, ThreadStep
<1>4. OneThread'
  BY <1>0, <1>k DEF IInv, TypeOK, Control, OneThread, EndThread, ThreadStep
<1>5. Tidy'
  BY <1>0, <1>4 DEF IInv, TypeOK, Control, OneThread, Tidy, Closed, Held, EndThread, ThreadStep
<1> QED BY <1>2, <1>3, <1>4, <1>5 DEF IInv

\* aw_wifi_off begins.
LEMMA OffKeeps ==
  ASSUME IInv, Off PROVE IInv'
<1>1. Flags'
  BY Zenon DEF IInv, TypeOK, Flags, Off, MainStep
<1>2. TypeOK'
  BY <1>1, LimitsAssumption DEF IInv, TypeOK, Control, Kinds, Off, MainStep
<1>3. Control' /\ Table'
  BY LimitsAssumption DEF IInv, TypeOK, Control, Table, Off, MainStep
<1>4. OneThread'
  BY DEF IInv, TypeOK, Control, OneThread, LiveThreads, Off, MainStep
<1>5. Tidy'
  BY DEF IInv, TypeOK, Control, OneThread, Tidy, Closed, Held, LiveThreads, Off, MainStep
<1> QED BY <1>2, <1>3, <1>4, <1>5 DEF IInv

\* ctrl_conn is closed.
LEMMA CloseCtrlKeeps ==
  ASSUME IInv, CloseCtrl PROVE IInv'
<1>1. Flags'
  BY Zenon DEF IInv, TypeOK, Flags, CloseCtrl, MainStep
<1>2. TypeOK'
  BY <1>1, LimitsAssumption DEF IInv, TypeOK, Control, Kinds, CloseCtrl, MainStep
<1>3. Control' /\ Table'
  BY LimitsAssumption DEF IInv, TypeOK, Control, Table, CloseCtrl, MainStep
<1>4. OneThread'
  BY DEF IInv, TypeOK, Control, OneThread, LiveThreads, CloseCtrl, MainStep
<1>5. Tidy'
  BY DEF IInv, TypeOK, Control, OneThread, Tidy, Closed, Held, LiveThreads, CloseCtrl, MainStep
<1> QED BY <1>2, <1>3, <1>4, <1>5 DEF IInv

\* monitor_conn is detached.
LEMMA DetachKeeps ==
  ASSUME IInv, Detach PROVE IInv'
<1>0. inbox' \in [Sessions -> Seq(Messages)]
  <2>1. CASE monitor_conn \in attached
    <3>1. monitor_conn \in Sessions /\ "OK" \in Messages
      BY <2>1 DEF IInv, TypeOK, Messages
    <3> QED BY <2>1, <3>1, ReceiveType DEF IInv, Detach
  <2>2. CASE monitor_conn \notin attached
    BY <2>2 DEF IInv, TypeOK, Detach
  <2> QED BY <2>1, <2>2
<1>1. Flags'
  BY Zenon DEF IInv, TypeOK, Flags, Detach, MainStep
<1>2. TypeOK'
  BY <1>0, <1>1, LimitsAssumption DEF IInv, TypeOK, Control, Kinds, Detach, MainStep
<1>3. Control' /\ Table'
  BY LimitsAssumption DEF IInv, TypeOK, Control, Table, Detach, MainStep
<1>4. OneThread'
  BY DEF IInv, TypeOK, Control, OneThread, LiveThreads, Detach, MainStep
<1>5. Tidy'
  BY DEF IInv, TypeOK, Control, OneThread, Tidy, Closed, Held, LiveThreads, Detach, MainStep
<1> QED BY <1>2, <1>3, <1>4, <1>5 DEF IInv

\* The answer is waited for.
LEMMA DetachedKeeps ==
  ASSUME IInv, Detached PROVE IInv'
<1>0. inbox' \in [Sessions -> Seq(Messages)]
  <2>1. CASE inbox[monitor_conn] = <<>>
    BY <2>1 DEF IInv, TypeOK, Detached
  <2>2. CASE inbox[monitor_conn] # <<>>
    <3>1. [inbox EXCEPT ![monitor_conn] = Tail(@)] \in [Sessions -> Seq(Messages)]
      BY <2>2, ReadType DEF IInv
    <3> QED BY <2>2, <3>1 DEF Detached
  <2> QED BY <2>1, <2>2
<1>1. Flags'
  BY Zenon DEF IInv, TypeOK, Flags, Detached
<1>2. TypeOK'
  BY <1>1, <1>0, LimitsAssumption DEF IInv, TypeOK, Control, Kinds, Detached
<1>3. Control' /\ Table'
  BY LimitsAssumption DEF IInv, TypeOK, Control, Table, Detached
<1>4. OneThread'
  BY DEF IInv, TypeOK, Control, OneThread, LiveThreads, Detached
<1>5. Tidy'
  BY DEF IInv, TypeOK, Control, OneThread, Tidy, Closed, Held, LiveThreads, Detached
<1> QED BY <1>2, <1>3, <1>4, <1>5 DEF IInv

\* monitor_conn is closed.
LEMMA CloseMonitorKeeps ==
  ASSUME IInv, CloseMonitor PROVE IInv'
<1>1. Flags'
  BY Zenon DEF IInv, TypeOK, Flags, CloseMonitor, MainStep
<1>2. TypeOK'
  BY <1>1, ReadableType, LimitsAssumption DEF IInv, TypeOK, Control, Kinds, CloseMonitor,
     MainStep
<1>3. Control' /\ Table'
  BY LimitsAssumption DEF IInv, TypeOK, Control, Table, CloseMonitor, MainStep
<1>4. OneThread'
  BY DEF IInv, TypeOK, Control, OneThread, LiveThreads, CloseMonitor, MainStep
<1>5. Tidy'
  BY DEF IInv, TypeOK, Control, OneThread, Tidy, Closed, Held, LiveThreads, CloseMonitor,
     MainStep
<1> QED BY <1>2, <1>3, <1>4, <1>5 DEF IInv

\* monitor_conn is forgotten.
LEMMA ForgetMonitorKeeps ==
  ASSUME IInv, ForgetMonitor PROVE IInv'
<1>1. Flags'
  BY Zenon DEF IInv, TypeOK, Flags, ForgetMonitor, MainStep
<1>2. TypeOK'
  BY <1>1, LimitsAssumption DEF IInv, TypeOK, Control, Kinds, ForgetMonitor,
     MainStep
<1>3. Control' /\ Table'
  BY LimitsAssumption DEF IInv, TypeOK, Control, Table, ForgetMonitor, MainStep
<1>4. OneThread'
  BY DEF IInv, TypeOK, Control, OneThread, LiveThreads, ForgetMonitor, MainStep
<1>5. Tidy'
  BY DEF IInv, TypeOK, Control, OneThread, Tidy, Closed, Held, LiveThreads, ForgetMonitor,
     MainStep
<1> QED BY <1>2, <1>3, <1>4, <1>5 DEF IInv

\* The exit pair is closed.
LEMMA CloseExitKeeps ==
  ASSUME IInv, CloseExit PROVE IInv'
<1>1. Flags'
  BY Zenon DEF IInv, TypeOK, Flags, CloseExit, MainStep
<1>2. TypeOK'
  BY <1>1, LimitsAssumption DEF IInv, TypeOK, Control, Kinds, CloseExit, MainStep
<1>3. Control' /\ Table'
  BY LimitsAssumption DEF IInv, TypeOK, Control, Table, CloseExit, MainStep
<1>4. OneThread'
  BY DEF IInv, TypeOK, Control, OneThread, LiveThreads, CloseExit, MainStep
<1>5. Tidy'
  BY DEF IInv, TypeOK, Control, OneThread, Tidy, Closed, Held, LiveThreads, CloseExit, MainStep
<1> QED BY <1>2, <1>3, <1>4, <1>5 DEF IInv

\* Off waits.
LEMMA WaitASecondKeeps ==
  ASSUME IInv, WaitASecond PROVE IInv'
<1>1. Flags'
  BY Zenon DEF IInv, TypeOK, Flags, WaitASecond, MainStep
<1>2. TypeOK'
  BY <1>1, LimitsAssumption DEF IInv, TypeOK, Control, Kinds, WaitASecond, MainStep
<1>3. Control' /\ Table'
  BY LimitsAssumption DEF IInv, TypeOK, Control, Table, WaitASecond, MainStep
<1>4. OneThread'
  BY DEF IInv, TypeOK, Control, OneThread, LiveThreads, WaitASecond, MainStep
<1>5. Tidy'
  BY DEF IInv, TypeOK, Control, OneThread, Tidy, Closed, Held, LiveThreads, WaitASecond,
     MainStep
<1> QED BY <1>2, <1>3, <1>4, <1>5 DEF IInv

\* The library is disabled.
LEMMA DisableKeeps ==
  ASSUME IInv, Disable PROVE IInv'
<1>1. Flags'
  BY Zenon DEF IInv, TypeOK, Flags, Disable, MainStep
<1>2. TypeOK'
  BY <1>1, LimitsAssumption DEF IInv, TypeOK, Control, Kinds, Disable, MainStep
<1>3. Control' /\ Table'
  BY LimitsAssumption DEF IInv, TypeOK, Control, Table, Disable, MainStep
<1>4. OneThread'
  BY DEF IInv, TypeOK, Control, OneThread, LiveThreads, Disable, MainStep
<1>5. Tidy'
  BY DEF IInv, TypeOK, Control, OneThread, Tidy, Closed, Held, LiveThreads, Disable, MainStep
<1> QED BY <1>2, <1>3, <1>4, <1>5 DEF IInv

\* aw_wifi_get_wifi_state looks at gwifi_state.
LEMMA GetStateKeeps ==
  ASSUME IInv, GetState PROVE IInv'
<1>1. Flags'
  BY Zenon DEF IInv, TypeOK, Flags, GetState, MainStep
<1>2. TypeOK'
  BY <1>1, LimitsAssumption DEF IInv, TypeOK, Control, Kinds, GetState, MainStep
<1>3. Control' /\ Table'
  BY LimitsAssumption DEF IInv, TypeOK, Control, Table, GetState, MainStep
<1>4. OneThread'
  BY DEF IInv, TypeOK, Control, OneThread, LiveThreads, GetState, MainStep
<1>5. Tidy'
  BY DEF IInv, TypeOK, Control, OneThread, Tidy, Closed, Held, LiveThreads, GetState, MainStep
<1> QED BY <1>2, <1>3, <1>4, <1>5 DEF IInv

\* It connects, or fails to.
LEMMA GetConnectsKeeps ==
  ASSUME IInv, GetConnects PROVE IInv'
<1>1. Flags'
  BY Zenon DEF IInv, TypeOK, Flags, GetConnects, ConnectSucceeds, ConnectFails, Descriptors,
     MainStep
<1>2. TypeOK'
  BY <1>1, ReadableType, LimitsAssumption DEF IInv, TypeOK, Control, Kinds, GetConnects,
     ConnectSucceeds, ConnectFails, Descriptors, MainStep
<1>3. Control' /\ Table'
  BY LimitsAssumption DEF IInv, TypeOK, Control, Table, GetConnects, ConnectSucceeds,
     ConnectFails, Descriptors, MainStep
<1>4. OneThread'
  BY DEF IInv, TypeOK, Control, OneThread, LiveThreads, GetConnects, ConnectSucceeds,
     ConnectFails, Descriptors, MainStep
<1>5. Tidy'
  <2>1. CASE main' = "close_ctrl" /\ ConnectSucceeds
    <3>1. ASSUME ~ SlowThreads, ~ alone, ConnectSucceeds PROVE open' = Held'
      <4>1. open = {}
        BY <3>1 DEF IInv, Control, Tidy, Closed, Held, GetConnects, MainStep
      <4>2. PICK k \in Sessions : /\ ctrl_conn' = k /\ monitor_conn' = k /\ exit_sockets' = k
                                 /\ open' = open \cup Descriptors(k)
        BY <3>1 DEF ConnectSucceeds
      <4>3. open' = {<<"ctrl", k>>, <<"monitor", k>>, <<"exit", k>>}
        BY <4>1, <4>2 DEF Descriptors, Kinds
      <4>4. Held' = {<<"ctrl", k>>, <<"monitor", k>>, <<"exit", k>>}
        BY <2>1, <4>2 DEF Held
      <4> QED BY <4>3, <4>4
    <3>2. LiveThreads' = {} \/ SlowThreads
      BY DEF IInv, Control, OneThread, LiveThreads, GetConnects, MainStep
    <3>3. ASSUME NEW k \in Sessions, ~ SlowThreads PROVE thread'[k] # "end"
      BY <3>2, <3>3 DEF LiveThreads
    <3> QED BY <2>1, <3>1, <3>2, <3>3 DEF Tidy, GetConnects, MainStep, history
  <2>2. CASE main' = "idle" /\ ConnectFails
    BY <2>2 DEF IInv, TypeOK, Control, OneThread, Tidy, Closed, Held, LiveThreads, GetConnects,
       ConnectFails, MainStep
  <2> QED BY <2>1, <2>2 DEF GetConnects, MainStep
<1> QED BY <1>2, <1>3, <1>4, <1>5 DEF IInv

\* It writes gwifi_state.
LEMMA GetWritesKeeps ==
  ASSUME IInv, GetWrites PROVE IInv'
<1>1. Flags'
  BY Zenon DEF IInv, TypeOK, Flags, GetWrites, MainStep
<1>2. TypeOK'
  BY <1>1, LimitsAssumption DEF IInv, TypeOK, Control, Kinds, GetWrites, MainStep
<1>3. Control' /\ Table'
  BY LimitsAssumption DEF IInv, TypeOK, Control, Table, GetWrites, MainStep
<1>4. OneThread'
  BY DEF IInv, TypeOK, Control, OneThread, LiveThreads, GetWrites, MainStep
<1>5. Tidy'
  BY DEF IInv, TypeOK, Control, OneThread, Tidy, Closed, Held, LiveThreads, GetWrites, MainStep
<1> QED BY <1>2, <1>3, <1>4, <1>5 DEF IInv

\* A command is not answered in time.
LEMMA CommandTimesOutKeeps ==
  ASSUME IInv, CommandTimesOut PROVE IInv'
<1>1. Flags'
  BY Zenon DEF IInv, TypeOK, Flags, CommandTimesOut
<1>2. TypeOK'
  BY <1>1, LimitsAssumption DEF IInv, TypeOK, Control, Kinds, CommandTimesOut
<1>3. Control' /\ Table'
  BY LimitsAssumption DEF IInv, TypeOK, Control, Table, CommandTimesOut
<1>4. OneThread'
  BY DEF IInv, TypeOK, Control, OneThread, LiveThreads, CommandTimesOut
<1>5. Tidy'
  BY DEF IInv, TypeOK, Control, OneThread, Tidy, Closed, Held, LiveThreads, CommandTimesOut
<1> QED BY <1>2, <1>3, <1>4, <1>5 DEF IInv

\* The invariant holds at the start and in every step.
LEMMA Invariance == Spec => []IInv
<1>1. Init => IInv
  <2> SUFFICES ASSUME Init PROVE IInv
    OBVIOUS
  <2>1. Flags
    BY Zenon DEF Init, Flags
  <2>2. <<>> \in Seq(Messages)
    OBVIOUS
  <2>3. TypeOK
    BY <2>1, <2>2, LimitsAssumption DEF Init, TypeOK
  <2> QED BY <2>3, LimitsAssumption DEF Init, IInv, Control, Table, OneThread, Tidy, Closed, Held,
     LiveThreads
<1>2. IInv /\ [Next]_vars => IInv'
  <2> SUFFICES ASSUME IInv, [Next]_vars PROVE IInv'
    OBVIOUS
  <2>1. CASE UNCHANGED vars
    BY <2>1 DEF vars, IInv, TypeOK, Flags, Control, Table, OneThread, Tidy, Closed, Held,
       LiveThreads
  <2>2. ASSUME NEW k \in Sessions, EventThread(k) PROVE IInv'
    BY <2>2, LookAtMonitorKeeps, GetDescriptorsKeeps, PollMessageKeeps, PollExitKeeps,
       ReadMessageKeeps, EndThreadKeeps
       DEF EventThread
  <2>3. CASE Supplicant
    BY <2>3, SupplicantKeeps
  <2>4. CASE Main
    BY <2>4, OnKeeps, OnConnectsKeeps, OnRetriesKeeps, OnFailsKeeps,
       OnEnablesKeeps, OnCreatesKeeps, OffKeeps, CloseCtrlKeeps,
       DetachKeeps, DetachedKeeps, CloseMonitorKeeps, ForgetMonitorKeeps, CloseExitKeeps,
       WaitASecondKeeps, DisableKeeps, GetStateKeeps, GetConnectsKeeps,
       GetWritesKeeps, CommandTimesOutKeeps
       DEF Main, Switching, Closing
  <2> QED BY <2>1, <2>2, <2>3, <2>4 DEF Next
<1> QED BY <1>1, <1>2, PTL DEF Spec

(***************************************************************************)
(* Theorems.                                                               *)
(***************************************************************************)

\* The types: main and the event threads stay where the code has a line, the
\* callback table is not overrun, and no more devices hold a context than there are.
THEOREM TypeCorrect == Spec => []TypeOK
<1>1. IInv => TypeOK
  BY DEF IInv
<1> QED BY <1>1, Invariance, PTL

\* An enabled library reports to a callback, until the table of aw_wifi_on is
\* used up.
THEOREM HearsCorrect == Spec => []Hears
<1>1. IInv => Hears
  BY DEF IInv, Table, Hears
<1> QED BY <1>1, Invariance, PTL

\* Two event threads never share the events, if off waits long enough.
THEOREM OneListenerCorrect == Spec => []OneListener
<1>1. IInv => OneListener
  <2> SUFFICES ASSUME IInv, ~ SlowThreads PROVE Cardinality(LiveThreads) <= 1
    BY DEF OneListener
  <2>1. CASE LiveThreads = {}
    BY <2>1, FS_EmptySet
  <2>2. CASE LiveThreads # {}
    <3>1. PICK k \in LiveThreads : LiveThreads = {k}
      BY <2>2 DEF IInv, OneThread
    <3> QED BY <3>1, FS_Singleton
  <2> QED BY <2>1, <2>2
<1> QED BY <1>1, Invariance, PTL

\* No descriptor is lost, on whichever path opening or closing fails, unless an
\* event thread ended by itself.
THEOREM NoLeakCorrect == Spec => []NoLeak
<1>1. IInv => NoLeak
  BY DEF IInv, Tidy, NoLeak
<1> QED BY <1>1, Invariance, PTL

\* Only the write in aw_wifi_get_wifi_state, and a thread that could not be
\* started, leave the library enabled without an event thread, slow threads or not.
THEOREM DeafOnlyByGetOrCreateCorrect == Spec => DeafOnlyByGetOrCreate
<1>1. IInv /\ [Next]_vars => [Listened /\ ~ Listened' => main \in {"write", "create"}]_vars
  <2> SUFFICES ASSUME IInv, Next, Listened, main \notin {"write", "create"} PROVE Listened'
    OBVIOUS
  <2>1. ASSUME NEW k \in Sessions, EventThread(k) PROVE Listened'
    <3>1. CASE EndThread(k)
      BY <3>1 DEF EndThread, Listened
    <3>2. CASE \/ LookAtMonitor(k) \/ GetDescriptors(k) \/ PollMessage(k)
               \/ PollExit(k) \/ ReadMessage(k)
      <4>1. thread'[k] \in Live
        BY <3>2 DEF IInv, TypeOK, LookAtMonitor, GetDescriptors, PollMessage, PollExit,
           ReadMessage,
           ThreadStep
      <4> QED BY <4>1 DEF Listened, LiveThreads
    <3> QED BY <2>1, <3>1, <3>2 DEF EventThread
  <2>2. CASE OnCreates
    BY <2>2 DEF OnCreates, MainStep
  <2>3. CASE OnEnables
    BY <2>3 DEF OnEnables, MainStep, Listened
  <2>4. CASE On \/ OnConnects \/ OnRetries \/ OnFails \/ Off
    BY <2>4 DEF On, OnConnects, OnRetries, OnFails, Off, MainStep, Listened, LiveThreads
  <2>5. CASE Closing
    BY <2>5 DEF Closing, CloseCtrl, Detach, Detached, CloseMonitor, ForgetMonitor,
       CloseExit, WaitASecond, Disable, MainStep, Listened, LiveThreads
  <2>6. CASE GetState \/ GetConnects \/ CommandTimesOut \/ Supplicant
    BY <2>6 DEF GetState, GetConnects, CommandTimesOut, Supplicant, MainStep, Listened,
       LiveThreads
  <2>7. CASE GetWrites
    BY <2>7 DEF GetWrites, MainStep
  <2> QED BY <2>1, <2>2, <2>3, <2>4, <2>5, <2>6, <2>7 DEF Next, Main, Switching
<1> QED BY <1>1, Invariance, PTL DEF Spec, DeafOnlyByGetOrCreate

(***************************************************************************)
(* The crash.  GetDescriptors and ReadMessage use monitor_conn after a     *)
(* look at it that may be stale.  Who can have taken it away?              *)
(***************************************************************************)

\* Between wpa_ctrl_close(monitor_conn) and the end of the second that off waits.
ClosedUnderThread ==
  main \in {"forget_monitor", "close_exit", "wait"} /\ closing_for = "off"

\* A thread that has lost its connection is one that off is closing, and after a
\* crash nothing moves.
Lost ==
  /\ ~ SlowThreads /\ LiveThreads # {} /\ MonitorGone => ClosedUnderThread
  /\ crashed => LiveThreads # {} /\ MonitorGone

\* The event threads only lose threads, and only in "end".
LEMMA ThreadLoses ==
  ASSUME IInv, IInv', Lost, NEW k \in Sessions, EventThread(k) PROVE Lost'
<1> USE DEF IInv, TypeOK, Lost, ClosedUnderThread
<1>1. CASE LookAtMonitor(k)
  <2>1. LiveThreads' \subseteq LiveThreads
    BY <1>1, FewerThreads DEF LookAtMonitor
  <2> QED BY <1>1, <2>1 DEF LookAtMonitor, ThreadStep
<1>2. CASE GetDescriptors(k)
  <2>1. LiveThreads' \subseteq LiveThreads
    BY <1>2, FewerThreads DEF GetDescriptors
  <2>2. LiveThreads' # {}
    BY <1>2 DEF GetDescriptors, ThreadStep, LiveThreads
  <2> QED BY <1>2, <2>1, <2>2 DEF GetDescriptors, ThreadStep
<1>3. CASE PollMessage(k)
  <2>1. LiveThreads' \subseteq LiveThreads
    BY <1>3, FewerThreads DEF PollMessage
  <2> QED BY <1>3, <2>1 DEF PollMessage, ThreadStep
<1>4. CASE PollExit(k)
  <2>1. LiveThreads' \subseteq LiveThreads
    BY <1>4, FewerThreads DEF PollExit
  <2> QED BY <1>4, <2>1 DEF PollExit, ThreadStep
<1>5. CASE ReadMessage(k)
  <2>1. LiveThreads' \subseteq LiveThreads
    BY <1>5, FewerThreads DEF ReadMessage
  <2>2. LiveThreads' # {}
    BY <1>5 DEF ReadMessage, ThreadStep, LiveThreads
  <2> QED BY <1>5, <2>1, <2>2 DEF ReadMessage, ThreadStep
<1>6. CASE EndThread(k)
  <2>1. LiveThreads' \subseteq LiveThreads
    BY <1>6, FewerThreads DEF EndThread
  <2> QED BY <1>6, <2>1 DEF EndThread, ThreadStep
<1> QED BY <1>1, <1>2, <1>3, <1>4, <1>5, <1>6 DEF EventThread

\* Opening happens without a thread, as does the closing that is not off's; off
\* takes the connection away and does not return before the thread has ended.
LEMMA MainLoses == ASSUME IInv, IInv', Lost, Main PROVE Lost'
<1>0. ~ crashed /\ ~ crashed'
  BY DEF Main, Switching, Closing, On, OnConnects, OnRetries, OnFails, OnEnables, OnCreates,
     Off, CloseCtrl, Detach, Detached, CloseMonitor, ForgetMonitor, CloseExit, WaitASecond, Disable,
     GetState, GetConnects, GetWrites, CommandTimesOut, MainStep
<1> USE <1>0 DEF IInv, Lost, ClosedUnderThread, Control, OneThread
<1>1. CASE On \/ OnEnables \/ Off \/ Disable \/ GetState \/ GetWrites \/ CommandTimesOut
  BY <1>1 DEF On, OnEnables, Off, Disable, GetState, GetWrites, CommandTimesOut, MainStep,
     LiveThreads
<1>2. CASE OnConnects \/ OnRetries \/ OnFails
  BY <1>2 DEF OnConnects, OnRetries, OnFails, MainStep, LiveThreads
<1>3. CASE OnCreates
  <2>1. ~ MonitorGone /\ UNCHANGED <<monitor_conn, open>>
    BY <1>3 DEF OnCreates, MainStep
  <2> QED BY <2>1
<1>4. CASE CloseCtrl \/ Detach \/ Detached
  BY <1>4 DEF CloseCtrl, Detach, Detached, MainStep, LiveThreads
<1>5. CASE CloseMonitor
  <2>1. LiveThreads' = LiveThreads
    BY <1>5 DEF CloseMonitor, LiveThreads
  <2>2. ~ SlowThreads /\ LiveThreads # {} => closing_for = "off"
    BY <1>5 DEF CloseMonitor, MainStep, TypeOK
  <2> QED BY <1>5, <2>1, <2>2 DEF CloseMonitor, MainStep
<1>6. CASE CloseExit \/ ForgetMonitor
  <2>1. CASE CloseExit
    BY <2>1 DEF CloseExit, MainStep, LiveThreads
  <2>2. CASE ForgetMonitor
    <3>1. LiveThreads' = LiveThreads
      BY <2>2 DEF ForgetMonitor, LiveThreads
    <3>2. ~ SlowThreads /\ LiveThreads # {} => closing_for = "off"
      BY <2>2 DEF ForgetMonitor, MainStep, TypeOK
    <3> QED BY <2>2, <3>1, <3>2 DEF ForgetMonitor, MainStep
  <2> QED BY <1>6, <2>1, <2>2
<1>7. CASE WaitASecond
  BY <1>7 DEF WaitASecond, MainStep, LiveThreads
<1>8. CASE GetConnects
  BY <1>8 DEF GetConnects, MainStep, LiveThreads
<1> QED BY <1>1, <1>2, <1>3, <1>4, <1>5, <1>6, <1>7, <1>8 DEF Main, Switching, Closing

LEMMA LostInvariance == Spec => [](IInv /\ Lost)
<1>1. Init => Lost
  BY DEF Init, Lost, LiveThreads
<1>2. ASSUME IInv, IInv', Lost, [Next]_vars PROVE Lost'
  <2>1. CASE Supplicant
    BY <1>2, <2>1 DEF Supplicant, Lost, ClosedUnderThread, LiveThreads
  <2>2. CASE UNCHANGED vars
    BY <1>2, <2>2 DEF vars, Lost, ClosedUnderThread, LiveThreads
  <2> QED BY <1>2, <2>1, <2>2, ThreadLoses, MainLoses DEF Next
<1> QED BY <1>1, <1>2, Invariance, PTL DEF Spec

\* If off waits long enough, the event thread uses a closed connection in one
\* place only: from the moment at which off closes monitor_conn to the end of the
\* second in which it waits for the thread.  Neither the attempts of aw_wifi_on that fail nor the connection that
\* aw_wifi_get_wifi_state opens and closes ever take it away.
CrashInOff == ~ SlowThreads /\ ~ NoUseAfterClose => ClosedUnderThread

THEOREM CrashInOffCorrect == Spec => []CrashInOff
<1>1. Lost => CrashInOff
  BY DEF Lost, CrashInOff, NoUseAfterClose
<1> QED BY <1>1, LostInvariance, PTL

(***************************************************************************)
(* ThreadStops, the part that is safety: what the thread is told in poll() *)
(* it is told for good.  The pair may be closed after a "T" was written to *)
(* it, commands may go on timing out, and new sessions are opened, but the *)
(* thread that is still in poll() has the news before it.                  *)
(***************************************************************************)

ToldStays ==
  [][\A k \in Sessions : thread[k] = "poll" /\ Told(k) /\ thread'[k] = "poll" => Told(k)']_vars

\* Opening a session takes nothing from a thread in poll().
LEMMA ConnectTells ==
  ASSUME TypeOK, ConnectSucceeds, UNCHANGED threads,
         NEW k \in Sessions, thread[k] = "poll", Told(k)
  PROVE  Told(k)'
<1>1. k \in LiveThreads
  BY DEF LiveThreads
<1>2. CASE polled_exit[k] \in expired
  BY <1>1, <1>2 DEF ConnectSucceeds, Told, LiveThreads
<1>3. CASE polled_exit[k] # NULL /\ <<"exit", polled_exit[k]>> \notin open
  BY <1>1, <1>3 DEF ConnectSucceeds, Told, Unused, Descriptors, LiveThreads
<1> QED BY <1>2, <1>3 DEF Told

LEMMA StepTells ==
  ASSUME TypeOK, Next, NEW k \in Sessions, thread[k] = "poll", Told(k), thread'[k] = "poll"
  PROVE  Told(k)'
<1> USE DEF Told
<1>1. ASSUME NEW l \in Sessions, EventThread(l) PROVE Told(k)'
  <2>1. l # k
    BY <1>1 DEF TypeOK, EventThread, LookAtMonitor, GetDescriptors, PollMessage, PollExit,
       ReadMessage, EndThread, ThreadStep
  <2>2. polled_exit'[k] = polled_exit[k]
    <3>1. CASE GetDescriptors(l)
      BY <2>1, <3>1 DEF TypeOK, GetDescriptors
    <3>2. CASE PollMessage(l) \/ PollExit(l)
      BY <2>1, <3>2 DEF TypeOK, PollMessage, PollExit, Forget
    <3>3. CASE LookAtMonitor(l) \/ ReadMessage(l) \/ EndThread(l)
      BY <3>3 DEF LookAtMonitor, ReadMessage, EndThread
    <3> QED BY <1>1, <3>1, <3>2, <3>3 DEF EventThread
  <2>3. UNCHANGED <<open, expired>>
    BY <1>1 DEF EventThread, LookAtMonitor, GetDescriptors, PollMessage, PollExit,
       ReadMessage, EndThread
  <2> QED BY <2>2, <2>3
<1>2. CASE OnConnects \/ GetConnects
  BY <1>2, ConnectTells DEF OnConnects, GetConnects, ConnectFails
<1>3. CASE CloseExit
  BY <1>3 DEF CloseExit, TypeOK
<1>4. CASE CommandTimesOut
  BY <1>4 DEF CommandTimesOut
<1>5. CASE CloseCtrl \/ CloseMonitor \/ ForgetMonitor
  BY <1>5 DEF CloseCtrl, CloseMonitor, ForgetMonitor
<1>6. CASE Supplicant \/ On \/ OnRetries \/ OnFails \/ OnEnables \/ OnCreates \/ Off \/ Detach
           \/ Detached \/ WaitASecond \/ Disable \/ GetState \/ GetWrites
  BY <1>6 DEF Supplicant, On, OnRetries, OnFails, ConnectFails, OnEnables, OnCreates, Off,
     Detach, Detached, WaitASecond, Disable, GetState, GetWrites
<1> QED BY <1>1, <1>2, <1>3, <1>4, <1>5, <1>6 DEF Next, Main, Switching, Closing

\* The end of the exit pair, or a "T" in it, is not lost for a thread in poll().
THEOREM ToldStaysCorrect == Spec => ToldStays
<1>1. TypeOK /\ [Next]_vars =>
        [\A k \in Sessions :
           thread[k] = "poll" /\ Told(k) /\ thread'[k] = "poll" => Told(k)']_vars
  BY StepTells
<1> QED BY <1>1, TypeCorrect, PTL DEF Spec, ToldStays
=============================================================================
