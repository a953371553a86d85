------------------------------- MODULE Station -------------------------------
(***************************************************************************)
(* The connection state machine of wifimanager: one wifi_machine_state     *)
(* variable, written without a lock by three kinds of threads,             *)
(*                                                                         *)
(*   main          aw_wifi_connect_ap / wifi_connect_ap_inner, and         *)
(*                 aw_wifi_disconnect_ap with the control layer's          *)
(*                 disconnect(), which waits until the state is not busy;  *)
(*   event_thread  dispatch_event and handle_event;                        *)
(*   dhcp          any number of detached udhcpc_threads, one per          *)
(*                 CONNECTED event,                                        *)
(*                                                                         *)
(* and wpa_supplicant, which is external: it executes commands at once and *)
(* queues its events.  Commands may fail, and the event thread may be told *)
(* that wpa_supplicant has ended, which also follows a command without an  *)
(* answer in time: then it ends and leaves the library disabled.  Every    *)
(* read and write of machine_state and of wifi_event_inner is a step of    *)
(* its own; poll counts and durations are abstract (a bounded poll may run *)
(* out at any time).                                                       *)
(*                                                                         *)
(* A definition commented "Defect" is not part of the specification: it is *)
(* the one below it with a plausible mistake, for testing the properties.  *)
(***************************************************************************)
EXTENDS Naturals, Sequences

CONSTANTS
  Networks,       \* network ids wpa_supplicant knows
  NoNetwork,      \* no network: the empty id
  CommandsFail,   \* whether control commands may fail, and the supplicant end
  MAX_ASSOC_REJECT_COUNT,                  \* 3 in wifi_event.h
  MAX_RETRIES_ON_AUTHENTICATION_FAILURE,   \* 2 in wifi_event.h
  MaxEvents,      \* bound: queued events beyond which the air is quiet
  MaxDhcp         \* bound: udhcpc_threads alive at once

ASSUME NetworksAssumption == NoNetwork \notin Networks /\ Networks # {}
ASSUME BoundsAssumption ==
  /\ CommandsFail \in BOOLEAN
  /\ MAX_ASSOC_REJECT_COUNT \in Nat \ {0}
  /\ MAX_RETRIES_ON_AUTHENTICATION_FAILURE \in Nat \ {0}
  /\ MaxEvents \in Nat \ {0}
  /\ MaxDhcp \in Nat \ {0}

VARIABLES
  machine_state, wifi_event_inner, gwifi_state,
  netid_connecting, disconnecting,
  assoc_reject_count,        \* counts up to the limit it is compared with
  authentication_fail_count, \* likewise
  main,                      \* where the main thread is
  netid2,                    \* the network wifi_connect_ap_inner has added
  state,                     \* its reading of machine_state, while it polls
  retry,                     \* a second attempt, with WEP, is left
  event_thread,              \* where the event thread is
  dhcp,                      \* how many udhcpc_threads are at each point
  link, active,              \* wpa_supplicant: association, connecting allowed
  events                     \* its events, oldest first

shared     == <<machine_state, wifi_event_inner, gwifi_state>>
counters   == <<assoc_reject_count, authentication_fail_count>>
request    == <<netid_connecting, disconnecting>>
locals     == <<main, netid2, state, retry>>
supplicant == <<link, active, events>>
vars == <<machine_state, wifi_event_inner, gwifi_state, netid_connecting, disconnecting,
          assoc_reject_count, authentication_fail_count, main, netid2, state, retry,
          event_thread, dhcp, link, active, events>>

\* gwifi_state as it is tested: WIFIMG_WIFI_DISABLED, or any of the others.
WifiStates    == {"ENABLE", "DISABLED"}
MachineStates == {"DISCONNECTED", "CONNECTING", "L2CONNECTED", "CONNECTED", "DISCONNECTING"}
Busy          == {"CONNECTING", "L2CONNECTED", "DISCONNECTING"}
InnerEvents   == {"AP_DISCONNECTED", "AP_CONNECTED", "PASSWORD_INCORRECT",
                  "CONNECT_AP_TIMEOUT", "OBTAINING_IP_TIMEOUT"}
SupplicantEvents == {"CONNECTED", "DISCONNECTED", "ASSOC_REJECT", "WPA_FAILURE"}

InConnect    == {"begin", "select", "save", "reconnect", "reset", "poll", "poll_event",
                 "give_up", "given_up", "password", "remove", "fail", "succeed"}
InDisconnect == {"check", "find", "mark", "command", "wait"}
DhcpPoints   == {"polling", "bound", "connected", "failed", "cut", "timed_out"}
EventPoints  == {"idle", "drop", "dropped", "check", "l2", "spawn", "auth", "auth_cut",
                 "auth_failed", "reject", "ended"}

TypeOK ==
  /\ machine_state \in MachineStates
  /\ wifi_event_inner \in InnerEvents
  /\ gwifi_state \in WifiStates
  /\ netid_connecting \in Networks \cup {NoNetwork}
  /\ disconnecting \in BOOLEAN
  /\ assoc_reject_count \in 0 .. MAX_ASSOC_REJECT_COUNT
  /\ authentication_fail_count \in 0 .. MAX_RETRIES_ON_AUTHENTICATION_FAILURE
  /\ main \in {"idle"} \cup InConnect \cup InDisconnect
  /\ netid2 \in IF main \in InConnect THEN Networks ELSE {NoNetwork}
  /\ state \in MachineStates
  /\ retry \in BOOLEAN
  /\ event_thread \in EventPoints
  /\ dhcp \in [DhcpPoints -> Nat]
  /\ link \in Networks \cup {NoNetwork}
  /\ active \in BOOLEAN
  /\ events \in Seq(SupplicantEvents)

\* A freshly loaded libwifimanager after aw_wifi_on.
Init ==
  /\ machine_state = "DISCONNECTED" /\ wifi_event_inner = "AP_DISCONNECTED"
  /\ gwifi_state = "ENABLE"
  /\ netid_connecting = NoNetwork /\ disconnecting = FALSE
  /\ assoc_reject_count = 0 /\ authentication_fail_count = 0
  /\ main = "idle" /\ netid2 = NoNetwork /\ state = "DISCONNECTED" /\ retry = FALSE
  /\ event_thread = "idle"
  /\ dhcp = [p \in DhcpPoints |-> 0]
  /\ link = NoNetwork /\ active = FALSE
  /\ events = <<>>

MainStep(from, to)  == main = from /\ main' = to
EventStep(from, to) == event_thread = from /\ event_thread' = to

\* One udhcpc_thread moves; a thread that ends moves to "none".
DhcpStep(from, to) ==
  /\ dhcp[from] > 0
  /\ dhcp' = [p \in DhcpPoints |->
                dhcp[p] - (IF p = from THEN 1 ELSE 0) + (IF p = to THEN 1 ELSE 0)]

Alive == dhcp["polling"] + dhcp["bound"] + dhcp["connected"] + dhcp["failed"]
         + dhcp["cut"] + dhcp["timed_out"]

(***************************************************************************)
(* wpa_supplicant.  Commands act at once; losing the association queues an *)
(* event.  Which networks are enabled is abstract: one that may connect    *)
(* may choose any.  Nobody reads the events once the event thread has      *)
(* ended: they are not kept then.                                          *)
(***************************************************************************)

Tell(e) == events' = IF event_thread = "ended" THEN events ELSE Append(events, e)

Unlink ==
  /\ link' = NoNetwork
  /\ IF link = NoNetwork THEN UNCHANGED events ELSE Tell("DISCONNECTED")

DISCONNECT == Unlink /\ active' = FALSE

SELECT_NETWORK(n) ==
  /\ active' = TRUE
  /\ IF link = n THEN UNCHANGED <<link, events>> ELSE Unlink

REMOVE_NETWORK(n) ==
  /\ IF link = n THEN Unlink ELSE UNCHANGED <<link, events>>
  /\ UNCHANGED active

\* A command that is not carried out.  Few callers look at the answer.
Failed == CommandsFail /\ UNCHANGED supplicant

\* wpa_conf_get_ap_connected: what LIST_NETWORKS calls CURRENT, if it is answered.
ApConnected == IF CommandsFail THEN {link, NoNetwork} ELSE {link}

\* wpa_conf_get_netid_connected is the same once more.
NetidConnected == ApConnected

\* What happens on the air: an association, a refusal, a wrong key, a lost link.
Air ==
  /\ Len(events) < MaxEvents
  /\ \/ /\ active /\ link = NoNetwork
        /\ link' \in Networks
        /\ Tell("CONNECTED")
     \/ /\ active /\ link = NoNetwork
        /\ \E e \in {"ASSOC_REJECT", "WPA_FAILURE"} : Tell(e)
        /\ UNCHANGED link
     \/ link # NoNetwork /\ Unlink
  /\ UNCHANGED <<shared, counters, request, locals, event_thread, dhcp, active>>

(***************************************************************************)
(* The event thread.                                                       *)
(***************************************************************************)

Up(count, limit) == IF count < limit THEN count + 1 ELSE count

\* dispatch_event takes the oldest event.  handle_event reads machine_state
\* here to decide whether a DISCONNECTED event matters.
Dispatch ==
  /\ event_thread = "idle" /\ events # <<>>
  /\ events' = Tail(events)
  /\ LET e == Head(events) IN
     /\ assoc_reject_count' = IF e = "ASSOC_REJECT"
                              THEN Up(assoc_reject_count, MAX_ASSOC_REJECT_COUNT)
                              ELSE assoc_reject_count
     /\ authentication_fail_count' =
          IF e = "WPA_FAILURE"
          THEN Up(authentication_fail_count, MAX_RETRIES_ON_AUTHENTICATION_FAILURE)
          ELSE authentication_fail_count
     /\ event_thread' =
          CASE e = "CONNECTED" -> "check"
            [] e = "DISCONNECTED" ->
                 IF machine_state \in {"DISCONNECTING", "L2CONNECTED", "CONNECTED"}
                 THEN "drop" ELSE "idle"
            [] e = "ASSOC_REJECT" ->
                 IF assoc_reject_count' = MAX_ASSOC_REJECT_COUNT THEN "reject" ELSE "idle"
            [] e = "WPA_FAILURE" ->
                 IF authentication_fail_count' = MAX_RETRIES_ON_AUTHENTICATION_FAILURE
                 THEN "auth" ELSE "idle"
  /\ UNCHANGED <<shared, request, locals, dhcp, link, active>>

\* TERMINATING, sent by wpa_supplicant or made up when its socket is closed or a
\* command has timed out: the thread ends.  aw_wifi_get_wifi_state, in the wait of
\* disconnect(), writes gwifi_state after testing it and may undo this.
Terminates ==
  /\ CommandsFail
  /\ EventStep("idle", "ended")
  /\ \/ gwifi_state' = "DISABLED"
     \/ main = "wait" /\ UNCHANGED gwifi_state
  /\ events' = <<>>
  /\ UNCHANGED <<machine_state, wifi_event_inner, counters, request, locals, dhcp, link,
                 active>>

\* set_wifi_machine_state and set_cur_wifi_event, by the event thread.
EventSets ==
  /\ \/ /\ EventStep("drop", "dropped")
        /\ machine_state' = "DISCONNECTED" /\ UNCHANGED <<wifi_event_inner, gwifi_state>>
     \/ /\ EventStep("dropped", "idle")
        /\ wifi_event_inner' = "AP_DISCONNECTED" /\ UNCHANGED <<machine_state, gwifi_state>>
     \/ /\ EventStep("auth_cut", "auth_failed")
        /\ machine_state' = "DISCONNECTED" /\ UNCHANGED <<wifi_event_inner, gwifi_state>>
     \/ /\ EventStep("auth_failed", "idle")
        /\ wifi_event_inner' = "PASSWORD_INCORRECT" /\ UNCHANGED <<machine_state, gwifi_state>>
  /\ UNCHANGED <<counters, request, locals, dhcp, supplicant>>

\* DISCONNECT after too many refusals or wrong keys.
EventDisconnects ==
  /\ EventStep("auth", "auth_cut") \/ EventStep("reject", "idle")
  /\ DISCONNECT \/ Failed
  /\ UNCHANGED <<shared, counters, request, locals, dhcp>>

\* case CONNECTED: a network other than the one being connected is refused;
\* the comparison asks the supplicant for its current network, and not being
\* told is taken for another one.
CheckNetwork ==
  /\ \E netid_connected \in ApConnected :
       \/ /\ netid_connecting \in {NoNetwork, netid_connected}
          /\ EventStep("check", "l2")
          /\ UNCHANGED supplicant
       \/ /\ netid_connecting \notin {NoNetwork, netid_connected}
          /\ EventStep("check", "idle")
          /\ DISCONNECT \/ Failed
  /\ UNCHANGED <<shared, counters, request, locals, dhcp>>

EnterL2 ==
  /\ EventStep("l2", "spawn")
  /\ assoc_reject_count' = 0
  /\ machine_state' = "L2CONNECTED"
  /\ UNCHANGED <<wifi_event_inner, gwifi_state, authentication_fail_count, request, locals,
                 dhcp, supplicant>>

\* Defect: pthread_create has failed, which nobody looks at.
SpawnFails ==
  /\ EventStep("spawn", "idle")
  /\ UNCHANGED <<shared, counters, request, locals, dhcp, supplicant>>

\* start_udhcpc_thread.
Spawn ==
  /\ EventStep("spawn", "idle")
  /\ Alive < MaxDhcp
  /\ dhcp' = [dhcp EXCEPT !["polling"] = @ + 1]
  /\ UNCHANGED <<shared, counters, request, locals, supplicant>>

(***************************************************************************)
(* udhcpc_thread.                                                          *)
(***************************************************************************)

\* An address appears on the interface (or was there), the polls run out, or
\* the disconnecting flag is seen.
DhcpPolls ==
  /\ \/ ~ disconnecting /\ DhcpStep("polling", "bound")
     \/ DhcpStep("polling", "failed")
  /\ UNCHANGED <<shared, counters, request, locals, event_thread, supplicant>>

DhcpDisconnects ==
  /\ DhcpStep("failed", "cut")
  /\ DISCONNECT \/ Failed
  /\ UNCHANGED <<shared, counters, request, locals, event_thread>>

DhcpSets ==
  /\ \/ /\ DhcpStep("bound", "connected")
        /\ machine_state' = "CONNECTED" /\ UNCHANGED <<wifi_event_inner, gwifi_state>>
     \/ /\ DhcpStep("connected", "none")
        /\ wifi_event_inner' = "AP_CONNECTED" /\ UNCHANGED <<machine_state, gwifi_state>>
     \/ /\ DhcpStep("cut", "timed_out")
        /\ machine_state' = "DISCONNECTED" /\ UNCHANGED <<wifi_event_inner, gwifi_state>>
     \/ /\ DhcpStep("timed_out", "none")
        /\ wifi_event_inner' = "OBTAINING_IP_TIMEOUT" /\ UNCHANGED <<machine_state, gwifi_state>>
  /\ UNCHANGED <<counters, request, locals, event_thread, supplicant>>

(***************************************************************************)
(* aw_wifi_connect_ap and wifi_connect_ap_inner.                           *)
(***************************************************************************)

\* A disabled library or a busy interface refuses; the network was found in the
\* scan results.  With both WPA and WEP offered a second attempt follows a failed
\* first one.
Connect ==
  /\ MainStep("idle", "begin")
  /\ gwifi_state # "DISABLED"
  /\ machine_state \in {"CONNECTED", "DISCONNECTED"}
  /\ netid2' \in Networks
  /\ retry' \in BOOLEAN
  /\ UNCHANGED <<shared, counters, request, state, event_thread, dhcp, supplicant>>

BeginAttempt ==
  /\ MainStep("begin", "select")
  /\ machine_state' = "CONNECTING"
  /\ disconnecting' = FALSE
  /\ UNCHANGED <<wifi_event_inner, gwifi_state, counters, netid_connecting, netid2, state,
                 retry, event_thread, dhcp, supplicant>>

\* ADD_NETWORK ... SELECT_NETWORK, ENABLE_NETWORK.  The one that fails may come
\* before SELECT_NETWORK or after it, or be SELECT_NETWORK without its answer.
SelectNetwork ==
  /\ \/ MainStep("select", "save") /\ SELECT_NETWORK(netid2)
     \/ /\ CommandsFail /\ MainStep("select", "remove")
        /\ SELECT_NETWORK(netid2) \/ Failed
  /\ UNCHANGED <<shared, counters, request, netid2, state, retry, event_thread, dhcp>>

SaveNetid ==
  /\ MainStep("save", "reconnect")
  /\ netid_connecting' = netid2
  /\ UNCHANGED <<shared, counters, disconnecting, netid2, state, retry, event_thread, dhcp,
                 supplicant>>

Reconnect ==
  /\ MainStep("reconnect", "reset") \/ (CommandsFail /\ MainStep("reconnect", "remove"))
  /\ \/ active' = TRUE /\ UNCHANGED <<link, events>>
     \/ main' = "remove" /\ Failed
  /\ UNCHANGED <<shared, counters, request, netid2, state, retry, event_thread, dhcp>>

ResetRejects ==
  /\ MainStep("reset", "poll")
  /\ assoc_reject_count' = 0
  /\ UNCHANGED <<shared, authentication_fail_count, request, netid2, state, retry,
                 event_thread, dhcp, supplicant>>

PollState ==
  /\ MainStep("poll", "poll_event")
  /\ state' = machine_state
  /\ UNCHANGED <<shared, counters, request, netid2, retry, event_thread, dhcp, supplicant>>

\* What the attempt does with its last readings of the state and of the event.
Outcome(s, e) ==
  CASE s = "CONNECTING" -> "give_up"
    [] s \in {"L2CONNECTED", "CONNECTED"} -> "succeed"
    [] s = "DISCONNECTED" /\ e = "PASSWORD_INCORRECT" -> "password"
    [] s = "DISCONNECTED" /\ e = "OBTAINING_IP_TIMEOUT" -> "succeed"
    [] OTHER -> "fail"

\* Defect: the polls are not counted.
PollEventUncounted ==
  /\ main = "poll_event"
  /\ main' = IF \/ Outcome(state, wifi_event_inner) = "password"
                \/ state \in {"L2CONNECTED", "CONNECTED"}
                \/ assoc_reject_count = MAX_ASSOC_REJECT_COUNT
             THEN Outcome(state, wifi_event_inner) ELSE "poll"
  /\ assoc_reject_count' = IF /\ assoc_reject_count = MAX_ASSOC_REJECT_COUNT
                              /\ main' # "password"
                           THEN 0 ELSE assoc_reject_count
  /\ state' = "DISCONNECTED"
  /\ UNCHANGED <<shared, authentication_fail_count, request, netid2, retry, event_thread,
                 dhcp, supplicant>>

\* The loop ends on a result, on too many refusals or when its polls run out.
PollEvent ==
  /\ main = "poll_event"
  /\ \/ main' = Outcome(state, wifi_event_inner)
     \/ /\ assoc_reject_count < MAX_ASSOC_REJECT_COUNT
        /\ Outcome(state, wifi_event_inner) # "password"
        /\ state \notin {"L2CONNECTED", "CONNECTED"}
        /\ main' = "poll"
  /\ assoc_reject_count' = IF /\ assoc_reject_count = MAX_ASSOC_REJECT_COUNT
                              /\ main' # "password"
                           THEN 0 ELSE assoc_reject_count
  /\ state' = "DISCONNECTED"
  /\ UNCHANGED <<shared, authentication_fail_count, request, netid2, retry, event_thread,
                 dhcp, supplicant>>

\* Still connecting: stop it.
GiveUp ==
  /\ MainStep("give_up", "given_up")
  /\ DISCONNECT \/ Failed
  /\ UNCHANGED <<shared, counters, request, netid2, state, retry, event_thread, dhcp>>

GivenUp ==
  /\ MainStep("given_up", "remove")
  /\ machine_state' = "DISCONNECTED"
  /\ wifi_event_inner' = "CONNECT_AP_TIMEOUT"
  /\ UNCHANGED <<gwifi_state, counters, request, netid2, state, retry, event_thread, dhcp,
                 supplicant>>

RemoveNetwork ==
  /\ MainStep("password", "fail") \/ MainStep("remove", "fail")
  /\ REMOVE_NETWORK(netid2) \/ Failed
  /\ UNCHANGED <<shared, counters, request, netid2, state, retry, event_thread, dhcp>>

\* The end label: restore the state when the attempt failed.
AttemptFails ==
  /\ main = "fail"
  /\ main' = IF retry THEN "begin" ELSE "idle"
  /\ netid2' \in IF retry THEN Networks ELSE {NoNetwork}
  /\ retry' = FALSE
  /\ machine_state' = "DISCONNECTED"
  /\ UNCHANGED <<wifi_event_inner, gwifi_state, counters, request, state, event_thread, dhcp,
                 supplicant>>

AttemptSucceeds ==
  /\ MainStep("succeed", "idle")
  /\ netid2' = NoNetwork /\ retry' = FALSE
  /\ UNCHANGED <<shared, counters, request, state, event_thread, dhcp, supplicant>>

(***************************************************************************)
(* disconnect() and aw_wifi_disconnect_ap.                                 *)
(***************************************************************************)

\* A disabled library does nothing, and disconnect() waits all the same.
Disconnect ==
  /\ IF gwifi_state = "DISABLED"
     THEN MainStep("idle", "wait") /\ UNCHANGED disconnecting
     ELSE MainStep("idle", "check") /\ disconnecting' = TRUE
  /\ UNCHANGED <<shared, counters, netid_connecting, netid2, state, retry, event_thread,
                 dhcp, supplicant>>

CheckState ==
  /\ MainStep("check", IF machine_state \in {"L2CONNECTED", "CONNECTED"} THEN "find"
                                                                        ELSE "wait")
  /\ UNCHANGED <<shared, counters, request, netid2, state, retry, event_thread, dhcp,
                 supplicant>>

FindConnected ==
  /\ \E netid \in NetidConnected :
       MainStep("find", IF netid # NoNetwork THEN "mark" ELSE "wait")
  /\ UNCHANGED <<shared, counters, request, netid2, state, retry, event_thread, dhcp,
                 supplicant>>

MarkDisconnecting ==
  /\ MainStep("mark", "command")
  /\ machine_state' = "DISCONNECTING"
  /\ UNCHANGED <<wifi_event_inner, gwifi_state, counters, request, netid2, state, retry,
                 event_thread, dhcp, supplicant>>

\* Three seconds of polling follow; disconnect() goes on waiting all the same.
CommandDisconnect ==
  /\ MainStep("command", "wait")
  /\ DISCONNECT \/ Failed
  /\ UNCHANGED <<shared, counters, request, netid2, state, retry, event_thread, dhcp>>

\* Defect: disconnect() returns when the polls of aw_wifi_disconnect_ap are over.
ReturnAnyway ==
  /\ MainStep("wait", "idle")
  /\ UNCHANGED <<shared, counters, request, netid2, state, retry, event_thread, dhcp,
                 supplicant>>

\* aw_wifi_get_wifi_state answers WIFIMG_WIFI_BUSING.  A disabled library answers
\* with what wpa_supplicant says, which is never busy.
GetsBusy == machine_state \in Busy /\ gwifi_state # "DISABLED"

\* while(wifi_get_wifi_state() == WIFIMG_WIFI_BUSING).
WaitNotBusy ==
  /\ MainStep("wait", "idle")
  /\ ~ GetsBusy
  /\ UNCHANGED <<shared, counters, request, netid2, state, retry, event_thread, dhcp,
                 supplicant>>

(***************************************************************************)
(* The specification.                                                      *)
(***************************************************************************)

EventThread == Dispatch \/ EventSets \/ EventDisconnects \/ CheckNetwork \/ EnterL2 \/ Spawn
Dhcp        == DhcpPolls \/ DhcpDisconnects \/ DhcpSets
ConnectRuns == BeginAttempt \/ SelectNetwork \/ SaveNetid \/ Reconnect \/ ResetRejects
               \/ PollState \/ PollEvent \/ GiveUp \/ GivenUp \/ RemoveNetwork
               \/ AttemptFails \/ AttemptSucceeds
DisconnectRuns == CheckState \/ FindConnected \/ MarkDisconnecting \/ CommandDisconnect
                  \/ WaitNotBusy

Next == Air \/ EventThread \/ Terminates \/ Dhcp \/ Connect \/ ConnectRuns \/ Disconnect
        \/ DisconnectRuns

\* Every thread keeps running; polling loops give up in the end.
PollsEnd == PollEvent /\ main' # "poll"
Fairness == /\ WF_vars(EventThread) /\ WF_vars(Dhcp)
            /\ WF_vars(ConnectRuns) /\ WF_vars(DisconnectRuns)
            /\ SF_vars(PollsEnd)

Spec     == Init /\ [][Next]_vars
FairSpec == Spec /\ Fairness

(***************************************************************************)
(* Properties.                                                             *)
(***************************************************************************)

\* The two states in which only the main thread can be are its own: no other
\* thread enters them, and no path of connect or disconnect leaves them behind
\* when it returns to the dispatch loop, but for a wait cut short by the end of
\* wpa_supplicant.
OwnStates ==
  /\ machine_state = "CONNECTING" => main \in InConnect
  /\ machine_state = "DISCONNECTING" => main \in InDisconnect \/ gwifi_state = "DISABLED"

\* L2CONNECTED is busy, so it must end: a udhcpc_thread that will set another
\* state is alive, or about to be started.
L2HasDhcp ==
  machine_state = "L2CONNECTED" =>
    event_thread = "spawn" \/ dhcp["polling"] + dhcp["bound"] + dhcp["failed"] + dhcp["cut"] > 0

\* wifi_connect_ap_inner always returns.
ConnectReturns == (main \in InConnect) ~> (main = "idle")

\* An association is followed by an address or by a timeout.
L2Ends == (machine_state = "L2CONNECTED") ~> (machine_state # "L2CONNECTED")

\* disconnect() returns.
DisconnectReturns == (main \in InDisconnect) ~> (main = "idle")
=============================================================================
