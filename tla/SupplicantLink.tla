--------------------------- MODULE SupplicantLink ---------------------------
(***************************************************************************)
(* The connection of wifimanager to wpa_supplicant: ctrl_conn for          *)
(* commands, monitor_conn for events, and the pair exit_sockets through    *)
(* which the event thread is told to stop.  aw_wifi_on opens them,         *)
(* aw_wifi_off closes them under the event thread, and                     *)
(* aw_wifi_get_wifi_state does both when it believes the library disabled. *)
(* None of the variables is locked.                                        *)
(*                                                                         *)
(* A session is what one wifi_connect_on_socket_path opens, and the event  *)
(* thread that aw_wifi_on starts on it.  Its number stands for its four    *)
(* descriptors and is used again when nothing is left of it.               *)
(*                                                                         *)
(* A definition commented "Defect" is not part of the specification: it is *)
(* the one below it with a plausible mistake, for testing the properties.  *)
(***************************************************************************)
EXTENDS Naturals, Sequences, FiniteSets

CONSTANTS
  WifiDevices,          \* how many devices use the library
  MaxSessions,          \* bound: sessions of which something is left
  MAX_CALLBACKS_COUNT,  \* 1024 in wifi_intf.h
  MaxEvents,            \* bound: unread messages beyond which the air is quiet
  SlowThreads           \* whether the event thread may take longer to end than
                        \* the second aw_wifi_off gives it

ASSUME LimitsAssumption ==
  /\ WifiDevices \in Nat \ {0}
  /\ MaxSessions \in Nat \ {0}
  /\ MAX_CALLBACKS_COUNT \in Nat \ {0}
  /\ MaxEvents \in Nat \ {0}
  /\ SlowThreads \in BOOLEAN

Sessions == 1 .. MaxSessions
NULL     == 0           \* a null connection, and -1 in exit_sockets

VARIABLES
  gwifi_state,          \* "DISABLED", or "ENABLED" for all other values
  ctrl_conn, monitor_conn, exit_sockets,
  open,                 \* <<kind, session>>: descriptors that are open
  expired,              \* exit pairs into which a timed-out command wrote
  wifi_event_callback_index,
  registered,           \* entries of the callback table that are not NULL
  contexts,             \* devices that hold what aw_wifi_on returned
  main,                 \* where the dispatch loop is
  closing_for,          \* whom wifi_close_supplicant_connection returns to
  thread,               \* where the event thread of each session is
  polled,               \* the session whose monitor it polls
  polled_exit,          \* and the one whose exit pair
  running,              \* wpa_supplicant
  attached,             \* sessions it sends events to
  inbox,                \* messages in each monitor's socket, oldest first
  crashed,              \* a null or freed connection was used
  alone,                \* history: an event thread ended though nobody closed
  opened                \* history: how often on succeeded, up to the table's size

device    == <<gwifi_state, contexts>>
globals   == <<ctrl_conn, monitor_conn, exit_sockets>>
callbacks == <<wifi_event_callback_index, registered>>
threads   == <<thread, polled, polled_exit>>
supplicant == <<running, attached, inbox>>
history   == <<alone, opened>>
vars == <<gwifi_state, ctrl_conn, monitor_conn, exit_sockets, open, expired,
          wifi_event_callback_index, registered, contexts, main, closing_for, thread,
          polled, polled_exit, running, attached, inbox, crashed, alone, opened>>

Kinds    == {"ctrl", "monitor", "exit"}
Messages == {"event", "OK", "TERMINATING"}
Live     == {"top", "fd", "poll", "read", "end"}
InOn     == {"on", "enable", "create"}
InClose  == {"close_ctrl", "detach", "detached", "close_monitor", "forget_monitor",
             "close_exit", "wait"}
InGet    == {"get", "write"}

Flags == running \in BOOLEAN /\ crashed \in BOOLEAN /\ alone \in BOOLEAN

TypeOK ==
  /\ gwifi_state \in {"DISABLED", "ENABLED"}
  /\ ctrl_conn \in Sessions \cup {NULL}
  /\ monitor_conn \in Sessions \cup {NULL}
  /\ exit_sockets \in Sessions \cup {NULL}
  /\ open \subseteq Kinds \X Sessions
  /\ expired \subseteq Sessions
  /\ wifi_event_callback_index \in 0 .. MAX_CALLBACKS_COUNT
  /\ registered \subseteq 1 .. wifi_event_callback_index
  /\ contexts \in 0 .. WifiDevices
  /\ main \in {"idle", "disable"} \cup InOn \cup InClose \cup InGet
  /\ closing_for \in {"off", "get"}
  /\ thread \in [Sessions -> {"none"} \cup Live]
  /\ polled \in [Sessions -> Sessions \cup {NULL}]
  /\ polled_exit \in [Sessions -> Sessions \cup {NULL}]
  /\ attached \subseteq Sessions
  /\ inbox \in [Sessions -> Seq(Messages)]
  /\ Flags
  /\ opened \in 0 .. MAX_CALLBACKS_COUNT + 1

Init ==
  /\ gwifi_state = "DISABLED"
  /\ ctrl_conn = NULL /\ monitor_conn = NULL /\ exit_sockets = NULL
  /\ open = {} /\ expired = {}
  /\ wifi_event_callback_index = 0 /\ registered = {}
  /\ contexts = 0 /\ main = "idle" /\ closing_for = "off"
  /\ thread = [k \in Sessions |-> "none"]
  /\ polled = [k \in Sessions |-> NULL]
  /\ polled_exit = [k \in Sessions |-> NULL]
  /\ running \in BOOLEAN
  /\ attached = {}
  /\ inbox = [k \in Sessions |-> <<>>]
  /\ crashed = FALSE /\ alone = FALSE /\ opened = 0

MainStep(from, to)      == ~ crashed /\ main = from /\ main' = to
ThreadStep(k, from, to) == /\ ~ crashed /\ thread[k] = from
                           /\ thread' = [thread EXCEPT ![k] = to]

Descriptors(k) == Kinds \X {k}
LiveThreads    == {k \in Sessions : thread[k] \in Live}

\* Nothing is left of a session.
Unused(k) ==
  /\ Descriptors(k) \cap open = {}
  /\ k \notin {ctrl_conn, monitor_conn, exit_sockets}
  /\ thread[k] = "none"
  /\ \A l \in LiveThreads : k \notin {polled[l], polled_exit[l]}

(***************************************************************************)
(* wpa_supplicant.  When it stops in order it tells its monitors; killed,  *)
(* it says nothing.  Sockets connected to it do not survive it.            *)
(***************************************************************************)

Receive(k, m) == [inbox EXCEPT ![k] = Append(@, m)]

\* Messages to a connection that no thread has in its hands are left out.
Polled(k) == \E l \in LiveThreads : polled[l] = k
Readable  == [k \in Sessions |-> IF Polled(k) THEN inbox[k] ELSE <<>>]
Monitors  == {k \in attached : k = monitor_conn \/ Polled(k)}

SupplicantEvent ==
  /\ running
  /\ \E k \in Monitors : Len(inbox[k]) < MaxEvents /\ inbox' = Receive(k, "event")
  /\ UNCHANGED <<running, attached>>

SupplicantStops ==
  /\ running /\ running' = FALSE
  /\ attached' = {}
  /\ \/ inbox' = [k \in Sessions |-> IF k \in Monitors THEN Append(inbox[k], "TERMINATING")
                                                       ELSE inbox[k]]
     \/ UNCHANGED inbox

SupplicantStarts ==
  /\ ~ running /\ running' = TRUE
  /\ UNCHANGED <<attached, inbox>>

Supplicant ==
  /\ ~ crashed
  /\ SupplicantEvent \/ SupplicantStops \/ SupplicantStarts
  /\ UNCHANGED <<device, globals, open, expired, callbacks, main, closing_for,
                 threads, crashed, history>>

(***************************************************************************)
(* wifi_connect_on_socket_path: both connections, ATTACH, the exit pair.   *)
(* It writes the global variables whatever they hold.                      *)
(***************************************************************************)

ConnectSucceeds ==
  /\ running
  /\ \E k \in Sessions :
       /\ Unused(k)
       /\ ctrl_conn' = k /\ monitor_conn' = k /\ exit_sockets' = k
       /\ open' = open \cup Descriptors(k)
       /\ attached' = {k} \cup {l \in attached : Polled(l)}
  /\ inbox' = Readable
  /\ expired' = {k \in expired : \E l \in LiveThreads : polled_exit[l] = k}
  /\ UNCHANGED running

\* Defect: ctrl_conn is forgotten, not closed, when ATTACH fails.
ConnectLeaks ==
  /\ ctrl_conn' = NULL
  /\ \/ UNCHANGED <<monitor_conn, open>>
     \/ running /\ monitor_conn' = NULL /\ UNCHANGED open
     \/ /\ running /\ monitor_conn' = NULL
        /\ \E k \in Sessions : Unused(k) /\ open' = open \cup {<<"ctrl", k>>}
  /\ UNCHANGED <<exit_sockets, expired, supplicant>>

\* The first open fails and leaves monitor_conn alone; or the second, ATTACH
\* or socketpair fail, and what this call opened is closed again.
ConnectFails ==
  /\ ctrl_conn' = NULL
  /\ UNCHANGED monitor_conn \/ (running /\ monitor_conn' = NULL)
  /\ UNCHANGED <<exit_sockets, open, expired, supplicant>>

(***************************************************************************)
(* aw_wifi_on.                                                             *)
(***************************************************************************)

\* Only a disabled library is switched on.
On ==
  /\ MainStep("idle", "on")
  /\ contexts < WifiDevices
  /\ gwifi_state = "DISABLED"
  /\ UNCHANGED <<device, globals, open, expired, callbacks, closing_for, threads,
                 supplicant, crashed, history>>

\* At once or in one of ten more attempts.
OnConnects ==
  /\ MainStep("on", "enable")
  /\ ConnectSucceeds
  /\ UNCHANGED <<device, callbacks, closing_for, threads, crashed, history>>

\* wifi_start_supplicant, between the attempts, forgets the exit sockets.
OnRetries ==
  /\ MainStep("on", "on")
  /\ ctrl_conn' = NULL /\ exit_sockets' = NULL
  /\ UNCHANGED monitor_conn \/ (running /\ monitor_conn' = NULL)
  /\ UNCHANGED <<device, open, expired, callbacks, closing_for, threads, supplicant,
                 crashed, history>>

OnFails ==
  /\ MainStep("on", "idle")
  /\ ConnectFails
  /\ UNCHANGED <<device, callbacks, closing_for, threads, crashed, history>>

Register == /\ wifi_event_callback_index' = wifi_event_callback_index + 1
            /\ registered' = registered \cup {wifi_event_callback_index + 1}

\* Defect: one entry too few is used.
AddCallbackShort ==
  IF wifi_event_callback_index >= MAX_CALLBACKS_COUNT - 1 THEN UNCHANGED callbacks
                                                          ELSE Register

\* Defect: one entry too many is used.
AddCallbackBeyond ==
  IF wifi_event_callback_index > MAX_CALLBACKS_COUNT THEN UNCHANGED callbacks ELSE Register

\* add_wifi_event_callback_inner; nobody looks at what it returns.
AddCallback ==
  IF wifi_event_callback_index >= MAX_CALLBACKS_COUNT THEN UNCHANGED callbacks ELSE Register

OnEnables ==
  /\ MainStep("enable", "create")
  /\ gwifi_state' = "ENABLED"
  /\ contexts' = contexts + 1
  /\ AddCallback
  /\ opened' = IF opened > MAX_CALLBACKS_COUNT THEN opened ELSE opened + 1
  /\ UNCHANGED <<globals, open, expired, closing_for, threads, supplicant, crashed,
                 alone>>

\* wifi_event_loop.  What pthread_create returns is not looked at.
OnCreates ==
  /\ MainStep("create", "idle")
  /\ thread' = [thread EXCEPT ![ctrl_conn] = "top"] \/ UNCHANGED thread
  /\ UNCHANGED <<device, globals, open, expired, callbacks, closing_for, polled,
                 polled_exit, supplicant, crashed, history>>

(***************************************************************************)
(* The event thread: wifi_wait_on_socket, wifi_ctrl_recv, dispatch_event.  *)
(***************************************************************************)

\* monitor_conn is null, or what it points to has been closed and freed.
MonitorGone == <<"monitor", monitor_conn>> \notin open

\* Every turn begins with a look at monitor_conn.
LookAtMonitor(k) ==
  /\ ThreadStep(k, "top", IF monitor_conn = NULL THEN "end" ELSE "fd")
  /\ UNCHANGED <<device, globals, open, expired, callbacks, main, closing_for,
                 polled, polled_exit, supplicant, crashed, history>>

\* wpa_ctrl_get_fd follows the pointer it finds by now.
GetDescriptors(k) ==
  /\ ThreadStep(k, "fd", IF MonitorGone THEN "fd" ELSE "poll")
  /\ crashed' = MonitorGone
  /\ polled' = [polled EXCEPT ![k] = monitor_conn]
  /\ polled_exit' = [polled_exit EXCEPT ![k] = exit_sockets]
  /\ UNCHANGED <<device, globals, open, expired, callbacks, main, closing_for,
                 supplicant, history>>

\* The exit pair is readable: a "T", or the end of the file.
Told(k) == \/ polled_exit[k] \in expired
           \/ polled_exit[k] # NULL /\ <<"exit", polled_exit[k]>> \notin open

Pending(k) == polled[k] # NULL /\ inbox[polled[k]] # <<>>

Forget(k) == /\ polled' = [polled EXCEPT ![k] = NULL]
             /\ polled_exit' = [polled_exit EXCEPT ![k] = NULL]

PollMessage(k) ==
  /\ ThreadStep(k, "poll", "read")
  /\ Pending(k)
  /\ Forget(k)
  /\ UNCHANGED <<device, globals, open, expired, callbacks, main, closing_for,
                 supplicant, crashed, history>>

\* Defect: the exit pair is not polled.
PollWithoutExit(k) ==
  /\ ThreadStep(k, "poll", "end")
  /\ ~ Pending(k)
  /\ <<"monitor", polled[k]>> \notin open
  /\ polled_exit[k] = NULL
  /\ Forget(k)
  /\ alone' = (alone \/ main \notin InClose)
  /\ UNCHANGED <<device, globals, open, expired, callbacks, main, closing_for,
                 supplicant, crashed, opened>>

\* Only when there is no message is the exit pair considered, or the error of
\* a descriptor that was closed before the poll.
PollExit(k) ==
  /\ ThreadStep(k, "poll", "end")
  /\ ~ Pending(k)
  /\ Told(k) \/ (polled_exit[k] = NULL /\ <<"monitor", polled[k]>> \notin open)
  /\ Forget(k)
  /\ alone' = (alone \/ main \notin InClose)
  /\ UNCHANGED <<device, globals, open, expired, callbacks, main, closing_for,
                 supplicant, crashed, opened>>

\* wpa_ctrl_recv reads from what monitor_conn is now.  Another reader may have
\* been quicker.
ReadMessage(k) ==
  /\ \/ MonitorGone /\ ThreadStep(k, "read", "read")
     \/ /\ ~ MonitorGone
        /\ ThreadStep(k, "read",
             IF inbox[monitor_conn] = <<>> \/ Head(inbox[monitor_conn]) = "TERMINATING"
             THEN "end" ELSE "top")
  /\ crashed' = MonitorGone
  /\ inbox' = IF MonitorGone \/ inbox[monitor_conn] = <<>> THEN inbox
              ELSE [inbox EXCEPT ![monitor_conn] = Tail(@)]
  /\ alone' = (alone \/ (thread'[k] = "end" /\ main \notin InClose))
  /\ UNCHANGED <<device, globals, open, expired, callbacks, main, closing_for,
                 polled, polled_exit, running, attached, opened>>

\* Defect: the thread ends but the library stays enabled.
EndSilently(k) ==
  /\ ThreadStep(k, "end", "none")
  /\ UNCHANGED <<device, polled, polled_exit, globals, open, expired, callbacks, main,
                 closing_for, supplicant, crashed, history>>

\* CTRL-EVENT-TERMINATING, received or made up, disables the library.
EndThread(k) ==
  /\ ThreadStep(k, "end", "none")
  /\ gwifi_state' = "DISABLED"
  /\ UNCHANGED <<contexts, polled, polled_exit, globals, open, expired, callbacks, main,
                 closing_for, supplicant, crashed, history>>

EventThread(k) == \/ LookAtMonitor(k) \/ GetDescriptors(k) \/ PollMessage(k)
                  \/ PollExit(k) \/ ReadMessage(k) \/ EndThread(k)

(***************************************************************************)
(* aw_wifi_off and wifi_close_supplicant_connection.                       *)
(***************************************************************************)

\* The caller holds the interface that a successful aw_wifi_on returned.  The
\* scan thread is stopped first.
Off ==
  /\ MainStep("idle", "close_ctrl")
  /\ contexts > 0 /\ contexts' = contexts - 1
  /\ closing_for' = "off"
  /\ UNCHANGED <<gwifi_state, globals, open, expired, callbacks, threads, supplicant,
                 crashed, history>>

CloseCtrl ==
  /\ MainStep("close_ctrl", IF monitor_conn = NULL THEN "close_exit" ELSE "detach")
  /\ ctrl_conn' = NULL
  /\ open' = open \ {<<"ctrl", ctrl_conn>>}
  /\ UNCHANGED <<device, monitor_conn, exit_sockets, expired, callbacks, closing_for,
                 threads, supplicant, crashed, history>>

\* DETACH goes through the socket the event thread reads; the answer queues
\* behind the events.  A supplicant that is gone or was started anew cannot
\* be reached.
Detach ==
  /\ IF monitor_conn \in attached
     THEN /\ MainStep("detach", "detached")
          /\ attached' = attached \ {monitor_conn}
          /\ inbox' = Receive(monitor_conn, "OK")
     ELSE MainStep("detach", "close_monitor") /\ UNCHANGED <<attached, inbox>>
  /\ UNCHANGED <<device, globals, open, expired, callbacks, closing_for, threads,
                 running, crashed, history>>

\* wpa_ctrl_request reads until the answer; if the event thread has taken it,
\* until ten seconds are over.
Detached ==
  /\ ~ crashed /\ main = "detached"
  /\ IF inbox[monitor_conn] = <<>>
     THEN main' = "close_monitor" /\ UNCHANGED inbox
     ELSE /\ main' = IF Head(inbox[monitor_conn]) = "event" THEN "detached"
                     ELSE "close_monitor"
          /\ inbox' = [inbox EXCEPT ![monitor_conn] = Tail(@)]
  /\ UNCHANGED <<device, globals, open, expired, callbacks, closing_for, threads,
                 running, attached, crashed, history>>

\* wpa_ctrl_close closes the socket and frees the connection ...
CloseMonitor ==
  /\ MainStep("close_monitor", "forget_monitor")
  /\ open' = open \ {<<"monitor", monitor_conn>>}
  /\ attached' = attached \ {monitor_conn}
  /\ inbox' = Readable
  /\ UNCHANGED <<device, globals, expired, callbacks, closing_for, threads, running,
                 crashed, history>>

\* ... to which the pointer leads until it is overwritten.
ForgetMonitor ==
  /\ MainStep("forget_monitor", "close_exit")
  /\ monitor_conn' = NULL
  /\ UNCHANGED <<device, ctrl_conn, exit_sockets, open, expired, callbacks, closing_for,
                 threads, supplicant, crashed, history>>

CloseExit ==
  /\ MainStep("close_exit", "wait")
  /\ exit_sockets' = NULL
  /\ open' = open \ {<<"exit", exit_sockets>>}
  /\ expired' = expired \ {exit_sockets}
  /\ UNCHANGED <<device, ctrl_conn, monitor_conn, callbacks, closing_for,
                 threads, supplicant, crashed, history>>

\* Defect: off does not wait.
HurryOn ==
  /\ MainStep("wait", IF closing_for = "off" THEN "disable" ELSE "idle")
  /\ UNCHANGED <<device, globals, open, expired, callbacks, closing_for, threads,
                 supplicant, crashed, history>>

\* Ten times a tenth of a second, in which the event thread is to end.
WaitASecond ==
  /\ MainStep("wait", IF closing_for = "off" THEN "disable" ELSE "idle")
  /\ SlowThreads \/ LiveThreads = {}
  /\ UNCHANGED <<device, globals, open, expired, callbacks, closing_for, threads,
                 supplicant, crashed, history>>

\* reset_wifi_event_callback empties the entries and keeps the index.
Disable ==
  /\ MainStep("disable", "idle")
  /\ registered' = {}
  /\ gwifi_state' = "DISABLED"
  /\ UNCHANGED <<contexts, globals, open, expired, wifi_event_callback_index, closing_for, threads,
                 supplicant, crashed, history>>

(***************************************************************************)
(* aw_wifi_get_wifi_state, and a command that is not answered.             *)
(***************************************************************************)

GetState ==
  /\ MainStep("idle", IF gwifi_state = "DISABLED" THEN "get" ELSE "write")
  /\ contexts > 0
  /\ UNCHANGED <<device, globals, open, expired, callbacks, closing_for, threads,
                 supplicant, crashed, history>>

\* Disabled: ask wpa_supplicant over a connection of its own.
GetConnects ==
  /\ \/ MainStep("get", "close_ctrl") /\ ConnectSucceeds
     \/ MainStep("get", "idle") /\ ConnectFails
  /\ closing_for' = "get"
  /\ UNCHANGED <<device, callbacks, threads, crashed, history>>

\* Otherwise the state of the machine is copied into gwifi_state.
GetWrites ==
  /\ MainStep("write", "idle")
  /\ gwifi_state' = "ENABLED"
  /\ UNCHANGED <<contexts, globals, open, expired, callbacks, closing_for, threads, supplicant,
                 crashed, history>>

\* wifi_send_command writes to the exit pair "for termination".  Besides main,
\* the scan thread sends commands as long as a device is open.
CommandTimesOut ==
  /\ ~ crashed /\ contexts > 0
  /\ ctrl_conn # NULL
  /\ exit_sockets \notin expired \cup {NULL}
  /\ expired' = expired \cup {exit_sockets}
  /\ UNCHANGED <<device, globals, open, callbacks, main, closing_for, threads, supplicant,
                 crashed, history>>

Switching == On \/ OnConnects \/ OnRetries \/ OnFails \/ OnEnables \/ OnCreates
Closing   == \/ CloseCtrl \/ Detach \/ Detached \/ CloseMonitor \/ ForgetMonitor
             \/ CloseExit \/ WaitASecond \/ Disable
Main      == Switching \/ Off \/ Closing \/ GetState \/ GetConnects \/ GetWrites
             \/ CommandTimesOut

Next == Supplicant \/ Main \/ \E k \in Sessions : EventThread(k)

\* The event thread runs.
Fairness == \A k \in Sessions : WF_vars(EventThread(k))

Spec     == Init /\ [][Next]_vars
FairSpec == Spec /\ Fairness

(***************************************************************************)
(* Properties.                                                             *)
(***************************************************************************)

\* aw_wifi_on starts an event thread for every time it enables the library,
\* and the thread disables the library when it ends; what can leave the library
\* enabled and deaf is a thread that could not be started, and the write of
\* gwifi_state in aw_wifi_get_wifi_state, after a test that no longer holds.
Listened == gwifi_state = "ENABLED" /\ main # "create" => LiveThreads # {}
DeafOnlyByGetOrCreate ==
  [][Listened /\ ~ Listened' => main \in {"write", "create"}]_vars

\* No two event threads share the events between them, unless off was quicker
\* than the thread it stopped.
OneListener == ~ SlowThreads => Cardinality(LiveThreads) <= 1

\* Every descriptor that is open can still be closed, on all the paths on which
\* opening fails half-way, unless an event thread ended on its own; then the
\* next opening writes over the globals.
Held == (IF ctrl_conn = NULL THEN {} ELSE {<<"ctrl", ctrl_conn>>})
        \cup (IF monitor_conn = NULL \/ main = "forget_monitor" THEN {}
              ELSE {<<"monitor", monitor_conn>>})
        \cup (IF exit_sockets = NULL THEN {} ELSE {<<"exit", exit_sockets>>})
NoLeak == ~ alone /\ ~ SlowThreads => open = Held

\* An enabled library reports its events to a callback as long as it has not
\* been switched on more often than the callback table has entries.
Hears == gwifi_state = "ENABLED" /\ opened <= MAX_CALLBACKS_COUNT => registered # {}

\* An event thread whose exit pair has been closed, or written to because a
\* command timed out, ends, unless the next message is there first.
ThreadStops ==
  \A k \in Sessions :
    (thread[k] = "poll" /\ Told(k))
      ~> (thread[k] = "none" \/ crashed \/ Pending(k))

\* The event thread uses no connection that main has closed.  This does not hold:
\* off may close it between the thread's test of monitor_conn and its use.
NoUseAfterClose == ~ crashed
=============================================================================
