---------------------------- MODULE StationProofs ----------------------------
(* Theorems about Station, for every set of networks and every bound. *)
EXTENDS Station, TLAPS

(***************************************************************************)
(* CONNECTING and DISCONNECTING belong to the main thread.  The invariant  *)
(* adds what wifi_connect_ap_inner knows: once machine_state has left      *)
(* CONNECTING, which its polls have seen, no thread brings it back, so the *)
(* attempt that succeeds cannot leave CONNECTING behind.                   *)
(***************************************************************************)

OwnInv ==
  /\ machine_state = "CONNECTING" => main \in InConnect \ {"begin", "succeed"}
  /\ machine_state = "DISCONNECTING" => main \in {"command", "wait"} \/ gwifi_state = "DISABLED"
  /\ main = "poll_event" /\ machine_state = "CONNECTING" => state = "CONNECTING"

LEMMA OwnInvStep == OwnInv /\ [Next]_vars => OwnInv'
<1> SUFFICES ASSUME OwnInv, [Next]_vars PROVE OwnInv'
  OBVIOUS
<1> USE DEF OwnInv, InConnect, Busy, GetsBusy, shared, counters, request, locals, supplicant, MainStep,
            EventStep
<1>1. CASE Air
  BY <1>1 DEF Air
<1>2. CASE Dispatch
  BY <1>2 DEF Dispatch
<1>3. CASE Terminates
  BY <1>3 DEF Terminates
<1>4. CASE EventSets
  BY <1>4 DEF EventSets
<1>5. CASE EventDisconnects
  BY <1>5 DEF EventDisconnects
<1>6. CASE CheckNetwork
  BY <1>6 DEF CheckNetwork
<1>7. CASE EnterL2
  BY <1>7 DEF EnterL2
<1>8. CASE Spawn
  BY <1>8 DEF Spawn
<1>9. CASE DhcpPolls
  BY <1>9 DEF DhcpPolls
<1>10. CASE DhcpDisconnects
  BY <1>10 DEF DhcpDisconnects
<1>11. CASE DhcpSets
  BY <1>11 DEF DhcpSets
<1>12. CASE Connect
  BY <1>12 DEF Connect
<1>13. CASE BeginAttempt
  BY <1>13 DEF BeginAttempt
<1>14. CASE SelectNetwork
  BY <1>14 DEF SelectNetwork
<1>15. CASE SaveNetid
  BY <1>15 DEF SaveNetid
<1>16. CASE Reconnect
  BY <1>16 DEF Reconnect
<1>17. CASE ResetRejects
  BY <1>17 DEF ResetRejects
<1>18. CASE PollState
  BY <1>18 DEF PollState
<1>19. CASE PollEvent
  BY <1>19 DEF PollEvent, Outcome
<1>20. CASE GiveUp
  BY <1>20 DEF GiveUp
<1>21. CASE GivenUp
  BY <1>21 DEF GivenUp
<1>22. CASE RemoveNetwork
  BY <1>22 DEF RemoveNetwork
<1>23. CASE AttemptFails
  BY <1>23 DEF AttemptFails
<1>24. CASE AttemptSucceeds
  BY <1>24 DEF AttemptSucceeds
<1>25. CASE Disconnect
  BY <1>25 DEF Disconnect
<1>26. CASE CheckState
  BY <1>26 DEF CheckState
<1>27. CASE FindConnected
  BY <1>27 DEF FindConnected
<1>28. CASE MarkDisconnecting
  BY <1>28 DEF MarkDisconnecting
<1>29. CASE CommandDisconnect
  BY <1>29 DEF CommandDisconnect
<1>30. CASE WaitNotBusy
  BY <1>30 DEF WaitNotBusy
<1>31. CASE UNCHANGED vars
  BY <1>31 DEF vars
<1> QED
  BY <1>1, <1>2, <1>3, <1>4, <1>5, <1>6, <1>7, <1>8, <1>9, <1>10, <1>11, <1>12,
     <1>13, <1>14, <1>15, <1>16, <1>17, <1>18, <1>19, <1>20, <1>21, <1>22, <1>23,
     <1>24, <1>25, <1>26, <1>27, <1>28, <1>29, <1>30, <1>31
  DEF Next, EventThread, Dhcp, ConnectRuns, DisconnectRuns

\* CONNECTING is left before wifi_connect_ap_inner returns, DISCONNECTING before
\* disconnect() returns, whatever the other threads do meanwhile and whichever
\* command fails; only a wait that the end of wpa_supplicant cuts short leaves
\* DISCONNECTING behind.
THEOREM OwnStatesCorrect == Spec => []OwnStates
<1>1. Init => OwnInv
  BY DEF Init, OwnInv
<1>2. OwnInv => OwnStates
  BY DEF OwnInv, OwnStates, InConnect, InDisconnect
<1> QED
  BY <1>1, <1>2, OwnInvStep, PTL DEF Spec

(***************************************************************************)
(* Types.                                                                  *)
(***************************************************************************)

LEMMA DhcpStepType ==
  ASSUME NEW from \in DhcpPoints, NEW to \in DhcpPoints \cup {"none"}, from # to,
         dhcp \in [DhcpPoints -> Nat], DhcpStep(from, to)
  PROVE  /\ dhcp' \in [DhcpPoints -> Nat]
         /\ dhcp'[from] = dhcp[from] - 1
         /\ to \in DhcpPoints => dhcp'[to] = dhcp[to] + 1
         /\ \A p \in DhcpPoints \ {from, to} : dhcp'[p] = dhcp[p]
BY DEF DhcpStep

(***************************************************************************)
(* L2CONNECTED always has a udhcpc_thread that will leave it.              *)
(***************************************************************************)

DhcpCounts == dhcp \in [DhcpPoints -> Nat]

LEMMA DhcpCountsStep == DhcpCounts /\ [Next]_vars => DhcpCounts'
<1> SUFFICES ASSUME DhcpCounts, [Next]_vars PROVE DhcpCounts'
  OBVIOUS
<1> USE DEF DhcpCounts, shared, counters, request, locals, supplicant
<1>1. CASE Air
  BY <1>1 DEF Air
<1>2. CASE Dispatch
  BY <1>2 DEF Dispatch
<1>3. CASE Terminates
  BY <1>3 DEF Terminates
<1>4. CASE EventSets
  BY <1>4 DEF EventSets
<1>5. CASE EventDisconnects
  BY <1>5 DEF EventDisconnects
<1>6. CASE CheckNetwork
  BY <1>6 DEF CheckNetwork
<1>7. CASE EnterL2
  BY <1>7 DEF EnterL2
<1>8. CASE Spawn
  BY <1>8 DEF Spawn, DhcpPoints
<1>9. CASE DhcpPolls
  BY <1>9, DhcpStepType DEF DhcpPolls, DhcpPoints
<1>10. CASE DhcpDisconnects
  BY <1>10, DhcpStepType DEF DhcpDisconnects, DhcpPoints
<1>11. CASE DhcpSets
  BY <1>11, DhcpStepType DEF DhcpSets, DhcpPoints
<1>12. CASE Connect
  BY <1>12 DEF Connect
<1>13. CASE BeginAttempt
  BY <1>13 DEF BeginAttempt
<1>14. CASE SelectNetwork
  BY <1>14 DEF SelectNetwork
<1>15. CASE SaveNetid
  BY <1>15 DEF SaveNetid
<1>16. CASE Reconnect
  BY <1>16 DEF Reconnect
<1>17. CASE ResetRejects
  BY <1>17 DEF ResetRejects
<1>18. CASE PollState
  BY <1>18 DEF PollState
<1>19. CASE PollEvent
  BY <1>19 DEF PollEvent
<1>20. CASE GiveUp
  BY <1>20 DEF GiveUp
<1>21. CASE GivenUp
  BY <1>21 DEF GivenUp
<1>22. CASE RemoveNetwork
  BY <1>22 DEF RemoveNetwork
<1>23. CASE AttemptFails
  BY <1>23 DEF AttemptFails
<1>24. CASE AttemptSucceeds
  BY <1>24 DEF AttemptSucceeds
<1>25. CASE Disconnect
  BY <1>25 DEF Disconnect
<1>26. CASE CheckState
  BY <1>26 DEF CheckState
<1>27. CASE FindConnected
  BY <1>27 DEF FindConnected
<1>28. CASE MarkDisconnecting
  BY <1>28 DEF MarkDisconnecting
<1>29. CASE CommandDisconnect
  BY <1>29 DEF CommandDisconnect
<1>30. CASE WaitNotBusy
  BY <1>30 DEF WaitNotBusy
<1>31. CASE UNCHANGED vars
  BY <1>31 DEF vars
<1> QED
  BY <1>1, <1>2, <1>3, <1>4, <1>5, <1>6, <1>7, <1>8, <1>9, <1>10, <1>11, <1>12,
     <1>13, <1>14, <1>15, <1>16, <1>17, <1>18, <1>19, <1>20, <1>21, <1>22, <1>23,
     <1>24, <1>25, <1>26, <1>27, <1>28, <1>29, <1>30, <1>31
  DEF Next, EventThread, Dhcp, ConnectRuns, DisconnectRuns

LEMMA L2Step == DhcpCounts /\ L2HasDhcp /\ [Next]_vars => L2HasDhcp'
<1> SUFFICES ASSUME DhcpCounts, L2HasDhcp, [Next]_vars PROVE L2HasDhcp'
  OBVIOUS
<1> USE DEF DhcpCounts, L2HasDhcp, shared, counters, request, locals, supplicant, EventStep,
            DhcpPoints
<1>1. CASE Air
  BY <1>1 DEF Air
<1>2. CASE Dispatch
  BY <1>2 DEF Dispatch
<1>3. CASE Terminates
  BY <1>3 DEF Terminates
<1>4. CASE EventSets
  BY <1>4 DEF EventSets
<1>5. CASE EventDisconnects
  BY <1>5 DEF EventDisconnects
<1>6. CASE CheckNetwork
  BY <1>6 DEF CheckNetwork
<1>7. CASE EnterL2
  BY <1>7 DEF EnterL2
<1>8. CASE Spawn
  BY <1>8 DEF Spawn
<1>9. CASE DhcpPolls
  BY <1>9, DhcpStepType DEF DhcpPolls
<1>10. CASE DhcpDisconnects
  BY <1>10, DhcpStepType DEF DhcpDisconnects
<1>11. CASE DhcpSets
  BY <1>11, DhcpStepType DEF DhcpSets
<1>12. CASE Connect
  BY <1>12 DEF Connect
<1>13. CASE BeginAttempt
  BY <1>13 DEF BeginAttempt
<1>14. CASE SelectNetwork
  BY <1>14 DEF SelectNetwork
<1>15. CASE SaveNetid
  BY <1>15 DEF SaveNetid
<1>16. CASE Reconnect
  BY <1>16 DEF Reconnect
<1>17. CASE ResetRejects
  BY <1>17 DEF ResetRejects
<1>18. CASE PollState
  BY <1>18 DEF PollState
<1>19. CASE PollEvent
  BY <1>19 DEF PollEvent
<1>20. CASE GiveUp
  BY <1>20 DEF GiveUp
<1>21. CASE GivenUp
  BY <1>21 DEF GivenUp
<1>22. CASE RemoveNetwork
  BY <1>22 DEF RemoveNetwork
<1>23. CASE AttemptFails
  BY <1>23 DEF AttemptFails
<1>24. CASE AttemptSucceeds
  BY <1>24 DEF AttemptSucceeds
<1>25. CASE Disconnect
  BY <1>25 DEF Disconnect
<1>26. CASE CheckState
  BY <1>26 DEF CheckState
<1>27. CASE FindConnected
  BY <1>27 DEF FindConnected
<1>28. CASE MarkDisconnecting
  BY <1>28 DEF MarkDisconnecting
<1>29. CASE CommandDisconnect
  BY <1>29 DEF CommandDisconnect
<1>30. CASE WaitNotBusy
  BY <1>30 DEF WaitNotBusy
<1>31. CASE UNCHANGED vars
  BY <1>31 DEF vars
<1> QED
  BY <1>1, <1>2, <1>3, <1>4, <1>5, <1>6, <1>7, <1>8, <1>9, <1>10, <1>11, <1>12,
     <1>13, <1>14, <1>15, <1>16, <1>17, <1>18, <1>19, <1>20, <1>21, <1>22, <1>23,
     <1>24, <1>25, <1>26, <1>27, <1>28, <1>29, <1>30, <1>31
  DEF Next, EventThread, Dhcp, ConnectRuns, DisconnectRuns

\* L2CONNECTED, which makes the interface busy, is never left without a
\* udhcpc_thread that will set CONNECTED or DISCONNECTED.
THEOREM L2HasDhcpCorrect == Spec => []L2HasDhcp
<1>1. Init => DhcpCounts /\ L2HasDhcp
  BY DEF Init, DhcpCounts, L2HasDhcp
<1> QED
  BY <1>1, DhcpCountsStep, L2Step, PTL DEF Spec

LEMMA TypeStep == TypeOK /\ [Next]_vars => TypeOK'
<1> SUFFICES ASSUME TypeOK, [Next]_vars PROVE TypeOK'
  OBVIOUS
<1> USE NetworksAssumption, BoundsAssumption
    DEF TypeOK, MachineStates, InnerEvents, SupplicantEvents, InConnect, InDisconnect,
        EventPoints, shared, counters, request, locals, supplicant, MainStep, EventStep,
        Unlink, Tell, DISCONNECT, SELECT_NETWORK, REMOVE_NETWORK, Failed, WifiStates
<1>1. CASE Air
  BY <1>1 DEF Air
<1>2. CASE Dispatch
  BY <1>2 DEF Dispatch, Up
<1>3. CASE Terminates
  BY <1>3 DEF Terminates
<1>4. CASE EventSets
  BY <1>4 DEF EventSets
<1>5. CASE EventDisconnects
  <2>1. active' \in BOOLEAN
    BY <1>5, Zenon DEF EventDisconnects
  <2> QED
    BY <1>5, <2>1 DEF EventDisconnects
<1>6. CASE CheckNetwork
  <2>1. active' \in BOOLEAN
    BY <1>6, Zenon DEF CheckNetwork
  <2> QED
    BY <1>6, <2>1 DEF CheckNetwork
<1>7. CASE EnterL2
  BY <1>7 DEF EnterL2
<1>8. CASE Spawn
  BY <1>8 DEF Spawn, DhcpPoints
<1>9. CASE DhcpPolls
  BY <1>9, DhcpStepType DEF DhcpPolls, DhcpPoints
<1>10. CASE DhcpDisconnects
  <2>1. active' \in BOOLEAN
    BY <1>10, Zenon DEF DhcpDisconnects
  <2>2. dhcp' \in [DhcpPoints -> Nat]
    BY <1>10, DhcpStepType DEF DhcpDisconnects, DhcpPoints
  <2>3. events' \in Seq(SupplicantEvents) /\ link' \in Networks \cup {NoNetwork}
    BY <1>10 DEF DhcpDisconnects
  <2> QED
    BY <1>10, <2>1, <2>2, <2>3 DEF DhcpDisconnects
<1>11. CASE DhcpSets
  <2>1. dhcp' \in [DhcpPoints -> Nat]
    BY <1>11, DhcpStepType DEF DhcpSets, DhcpPoints
  <2>2. machine_state' \in MachineStates /\ wifi_event_inner' \in InnerEvents
    BY <1>11 DEF DhcpSets
  <2> QED
    BY <1>11, <2>1, <2>2 DEF DhcpSets
<1>12. CASE Connect
  BY <1>12 DEF Connect
<1>13. CASE BeginAttempt
  <2>1. disconnecting' \in BOOLEAN
    BY <1>13, Zenon DEF BeginAttempt
  <2> QED
    BY <1>13, <2>1 DEF BeginAttempt
<1>14. CASE SelectNetwork
  <2>1. active' \in BOOLEAN
    BY <1>14, Zenon DEF SelectNetwork
  <2>2. netid2 \in Networks
    BY <1>14 DEF SelectNetwork
  <2>3. link' \in Networks \cup {NoNetwork}
    BY <1>14, <2>2 DEF SelectNetwork
  <2>4. events' \in Seq(SupplicantEvents)
    BY <1>14 DEF SelectNetwork
  <2>5. main' \in InConnect /\ main \in InConnect
    BY <1>14 DEF SelectNetwork
  <2> QED
    BY <1>14, <2>1, <2>2, <2>3, <2>4, <2>5 DEF SelectNetwork
<1>15. CASE SaveNetid
  BY <1>15 DEF SaveNetid
<1>16. CASE Reconnect
  <2>1. active' \in BOOLEAN
    BY <1>16, Zenon DEF Reconnect
  <2> QED
    BY <1>16, <2>1 DEF Reconnect
<1>17. CASE ResetRejects
  BY <1>17 DEF ResetRejects
<1>18. CASE PollState
  BY <1>18 DEF PollState
<1>19. CASE PollEvent
  BY <1>19 DEF PollEvent, Outcome
<1>20. CASE GiveUp
  <2>1. active' \in BOOLEAN
    BY <1>20, Zenon DEF GiveUp
  <2> QED
    BY <1>20, <2>1 DEF GiveUp
<1>21. CASE GivenUp
  BY <1>21 DEF GivenUp
<1>22. CASE RemoveNetwork
  BY <1>22 DEF RemoveNetwork
<1>23. CASE AttemptFails
  <2>1. retry' \in BOOLEAN
    BY <1>23, Zenon DEF AttemptFails
  <2> QED
    BY <1>23, <2>1 DEF AttemptFails
<1>24. CASE AttemptSucceeds
  <2>1. retry' \in BOOLEAN
    BY <1>24, Zenon DEF AttemptSucceeds
  <2> QED
    BY <1>24, <2>1 DEF AttemptSucceeds
<1>25. CASE Disconnect
  <2>1. disconnecting' \in BOOLEAN
    BY <1>25, Zenon DEF Disconnect
  <2> QED
    BY <1>25, <2>1 DEF Disconnect
<1>26. CASE CheckState
  BY <1>26 DEF CheckState
<1>27. CASE FindConnected
  BY <1>27 DEF FindConnected
<1>28. CASE MarkDisconnecting
  BY <1>28 DEF MarkDisconnecting
<1>29. CASE CommandDisconnect
  <2>1. active' \in BOOLEAN
    BY <1>29, Zenon DEF CommandDisconnect
  <2> QED
    BY <1>29, <2>1 DEF CommandDisconnect
<1>30. CASE WaitNotBusy
  BY <1>30 DEF WaitNotBusy
<1>31. CASE UNCHANGED vars
  BY <1>31 DEF vars
<1> QED
  BY <1>1, <1>2, <1>3, <1>4, <1>5, <1>6, <1>7, <1>8, <1>9, <1>10, <1>11, <1>12,
     <1>13, <1>14, <1>15, <1>16, <1>17, <1>18, <1>19, <1>20, <1>21, <1>22, <1>23,
     <1>24, <1>25, <1>26, <1>27, <1>28, <1>29, <1>30, <1>31
  DEF Next, EventThread, Dhcp, ConnectRuns, DisconnectRuns

\* TypeOK holds in every behaviour.
THEOREM TypeCorrect == Spec => []TypeOK
<1>1. Init => TypeOK
  <2> SUFFICES ASSUME Init PROVE TypeOK
    OBVIOUS
  <2>1. disconnecting \in BOOLEAN /\ retry \in BOOLEAN /\ active \in BOOLEAN
    BY Zenon DEF Init
  <2>2. events \in Seq(SupplicantEvents)
    BY DEF Init
  <2> QED
    BY <2>1, <2>2, NetworksAssumption, BoundsAssumption
    DEF Init, TypeOK, MachineStates, InnerEvents, WifiStates, InConnect, EventPoints
<1> QED
  BY <1>1, TypeStep, PTL DEF Spec

(***************************************************************************)
(* The calls of main end.  Fairness is TLC's business; what can be proved  *)
(* is that nothing but the two polling loops keeps a call from its end: an *)
(* attempt goes forward, a failed one is followed by at most one more, and *)
(* disconnect() goes forward to its wait.                                  *)
(***************************************************************************)

\* How much of its call main has before it.
CallPlace ==
  CASE main = "begin"       -> 11
    [] main = "select"      -> 10
    [] main = "save"        -> 9
    [] main = "reconnect"   -> 8
    [] main = "reset"       -> 7
    [] main = "poll"        -> 6
    [] main \in {"poll_event", "check"}       -> 5
    [] main \in {"give_up", "find"}           -> 4
    [] main \in {"given_up", "mark"}          -> 3
    [] main \in {"password", "remove", "command"} -> 2
    [] main \in {"fail", "succeed", "wait"}   -> 1
    [] OTHER -> 0

CallLeft == CallPlace + IF retry THEN 11 ELSE 0

PollsAgain == main = "poll_event" /\ main' = "poll" /\ UNCHANGED retry

Forward == UNCHANGED <<main, retry>> \/ PollsAgain \/ CallLeft' < CallLeft

CallProgress == [][main # "idle" => Forward]_vars

LEMMA CallStep == ASSUME TypeOK, Next, main # "idle" PROVE Forward
<1> USE DEF TypeOK, Forward, CallLeft, CallPlace, PollsAgain, InConnect, InDisconnect, shared,
            counters, request, locals, supplicant, MainStep, EventStep
<1>1. CASE Air
  BY <1>1 DEF Air
<1>2. CASE Dispatch
  BY <1>2 DEF Dispatch
<1>3. CASE Terminates
  BY <1>3 DEF Terminates
<1>4. CASE EventSets
  BY <1>4 DEF EventSets
<1>5. CASE EventDisconnects
  BY <1>5 DEF EventDisconnects
<1>6. CASE CheckNetwork
  BY <1>6 DEF CheckNetwork
<1>7. CASE EnterL2
  BY <1>7 DEF EnterL2
<1>8. CASE Spawn
  BY <1>8 DEF Spawn
<1>9. CASE DhcpPolls
  BY <1>9 DEF DhcpPolls
<1>10. CASE DhcpDisconnects
  BY <1>10 DEF DhcpDisconnects
<1>11. CASE DhcpSets
  BY <1>11 DEF DhcpSets
<1>12. CASE Connect
  BY <1>12 DEF Connect
<1>13. CASE BeginAttempt
  BY <1>13 DEF BeginAttempt
<1>14. CASE SelectNetwork
  BY <1>14 DEF SelectNetwork
<1>15. CASE SaveNetid
  BY <1>15 DEF SaveNetid
<1>16. CASE Reconnect
  BY <1>16 DEF Reconnect
<1>17. CASE ResetRejects
  BY <1>17 DEF ResetRejects
<1>18. CASE PollState
  BY <1>18 DEF PollState
<1>19. CASE PollEvent
  BY <1>19 DEF PollEvent, Outcome
<1>20. CASE GiveUp
  BY <1>20 DEF GiveUp
<1>21. CASE GivenUp
  BY <1>21 DEF GivenUp
<1>22. CASE RemoveNetwork
  BY <1>22 DEF RemoveNetwork
<1>23. CASE AttemptFails
  BY <1>23 DEF AttemptFails
<1>24. CASE AttemptSucceeds
  BY <1>24 DEF AttemptSucceeds
<1>25. CASE Disconnect
  BY <1>25 DEF Disconnect
<1>26. CASE CheckState
  BY <1>26 DEF CheckState
<1>27. CASE FindConnected
  BY <1>27 DEF FindConnected
<1>28. CASE MarkDisconnecting
  BY <1>28 DEF MarkDisconnecting
<1>29. CASE CommandDisconnect
  BY <1>29 DEF CommandDisconnect
<1>30. CASE WaitNotBusy
  BY <1>30 DEF WaitNotBusy
<1> QED
  BY <1>1, <1>2, <1>3, <1>4, <1>5, <1>6, <1>7, <1>8, <1>9, <1>10, <1>11, <1>12,
     <1>13, <1>14, <1>15, <1>16, <1>17, <1>18, <1>19, <1>20, <1>21, <1>22, <1>23,
     <1>24, <1>25, <1>26, <1>27, <1>28, <1>29, <1>30
  DEF Next, EventThread, Dhcp, ConnectRuns, DisconnectRuns

\* wifi_connect_ap_inner and disconnect() move towards their return with every
\* step of main that is not another turn of the poll loop, whatever the event
\* thread, the udhcpc_threads and wpa_supplicant do; a second attempt is the last.
THEOREM CallProgressCorrect == Spec => CallProgress
<1>1. TypeOK /\ [Next]_vars => [main # "idle" => Forward]_vars
  BY CallStep
<1> QED
  BY <1>1, TypeCorrect, PTL DEF Spec, CallProgress

(***************************************************************************)
(* L2CONNECTED ends, the part that is safety: the threads that L2HasDhcp   *)
(* promises come nearer to their end with every step any of them takes,    *)
(* and only a CONNECTED event starts another.                              *)
(***************************************************************************)

DhcpLeft == 4 * dhcp["polling"] + 3 * dhcp["failed"] + 2 * (dhcp["cut"] + dhcp["bound"])
            + dhcp["timed_out"] + dhcp["connected"]

DhcpForward ==
  \/ UNCHANGED dhcp
  \/ DhcpLeft' < DhcpLeft
  \/ event_thread = "spawn" /\ event_thread' = "idle"

DhcpProgress == [][DhcpForward /\ (Dhcp => DhcpLeft' < DhcpLeft)]_vars

LEMMA DhcpDescends ==
  ASSUME DhcpCounts, Dhcp PROVE DhcpLeft \in Nat /\ DhcpLeft' \in Nat /\ DhcpLeft' < DhcpLeft
<1> USE DEF DhcpCounts, DhcpPoints, DhcpLeft
<1>1. CASE DhcpPolls
  BY <1>1, DhcpStepType DEF DhcpPolls
<1>2. CASE DhcpDisconnects
  BY <1>2, DhcpStepType DEF DhcpDisconnects
<1>3. CASE DhcpSets
  BY <1>3, DhcpStepType DEF DhcpSets
<1> QED
  BY <1>1, <1>2, <1>3 DEF Dhcp

LEMMA DhcpForwardStep == ASSUME DhcpCounts, Next PROVE DhcpForward
<1> USE DEF DhcpForward, shared, counters, request, locals, supplicant, EventStep
<1>1. CASE Air
  BY <1>1 DEF Air
<1>2. CASE Dispatch
  BY <1>2 DEF Dispatch
<1>3. CASE Terminates
  BY <1>3 DEF Terminates
<1>4. CASE EventSets
  BY <1>4 DEF EventSets
<1>5. CASE EventDisconnects
  BY <1>5 DEF EventDisconnects
<1>6. CASE CheckNetwork
  BY <1>6 DEF CheckNetwork
<1>7. CASE EnterL2
  BY <1>7 DEF EnterL2
<1>8. CASE Spawn
  BY <1>8 DEF Spawn
<1>9. CASE DhcpPolls
  BY <1>9, DhcpDescends DEF DhcpPolls, Dhcp
<1>10. CASE DhcpDisconnects
  BY <1>10, DhcpDescends DEF DhcpDisconnects, Dhcp
<1>11. CASE DhcpSets
  BY <1>11, DhcpDescends DEF DhcpSets, Dhcp
<1>12. CASE Connect
  BY <1>12 DEF Connect
<1>13. CASE BeginAttempt
  BY <1>13 DEF BeginAttempt
<1>14. CASE SelectNetwork
  BY <1>14 DEF SelectNetwork
<1>15. CASE SaveNetid
  BY <1>15 DEF SaveNetid
<1>16. CASE Reconnect
  BY <1>16 DEF Reconnect
<1>17. CASE ResetRejects
  BY <1>17 DEF ResetRejects
<1>18. CASE PollState
  BY <1>18 DEF PollState
<1>19. CASE PollEvent
  BY <1>19 DEF PollEvent
<1>20. CASE GiveUp
  BY <1>20 DEF GiveUp
<1>21. CASE GivenUp
  BY <1>21 DEF GivenUp
<1>22. CASE RemoveNetwork
  BY <1>22 DEF RemoveNetwork
<1>23. CASE AttemptFails
  BY <1>23 DEF AttemptFails
<1>24. CASE AttemptSucceeds
  BY <1>24 DEF AttemptSucceeds
<1>25. CASE Disconnect
  BY <1>25 DEF Disconnect
<1>26. CASE CheckState
  BY <1>26 DEF CheckState
<1>27. CASE FindConnected
  BY <1>27 DEF FindConnected
<1>28. CASE MarkDisconnecting
  BY <1>28 DEF MarkDisconnecting
<1>29. CASE CommandDisconnect
  BY <1>29 DEF CommandDisconnect
<1>30. CASE WaitNotBusy
  BY <1>30 DEF WaitNotBusy
<1> QED
  BY <1>1, <1>2, <1>3, <1>4, <1>5, <1>6, <1>7, <1>8, <1>9, <1>10, <1>11, <1>12,
     <1>13, <1>14, <1>15, <1>16, <1>17, <1>18, <1>19, <1>20, <1>21, <1>22, <1>23,
     <1>24, <1>25, <1>26, <1>27, <1>28, <1>29, <1>30
  DEF Next, EventThread, Dhcp, ConnectRuns, DisconnectRuns

\* Every step of a udhcpc_thread brings the detached threads nearer to their end:
\* none of them turns back, and no step but start_udhcpc_thread adds to their work.
THEOREM DhcpProgressCorrect == Spec => DhcpProgress
<1>1. Init => DhcpCounts
  BY DEF Init, DhcpCounts
<1>2. DhcpCounts /\ [Next]_vars => [DhcpForward /\ (Dhcp => DhcpLeft' < DhcpLeft)]_vars
  BY DhcpDescends, DhcpForwardStep
<1> QED
  BY <1>1, <1>2, DhcpCountsStep, PTL DEF Spec, DhcpProgress

(***************************************************************************)
(* The wait of disconnect() is without end only if the association was     *)
(* gone before the command, the command failed or the event thread ended:  *)
(* a DISCONNECT that ends an association queues the event that ends the    *)
(* wait, and nothing takes that event away from a thread that lives.       *)
(***************************************************************************)

\* The event that leads out of DISCONNECTING is queued or being handled.
EventComes == event_thread = "drop" \/ \E n \in DOMAIN events : events[n] = "DISCONNECTED"

Listening == event_thread # "ended"

Waiting == main = "wait" /\ machine_state = "DISCONNECTING"

DisconnectTold ==
  [][/\ CommandDisconnect /\ Listening /\ link # NoNetwork /\ link' = NoNetwork => EventComes'
     /\ Waiting /\ EventComes /\ Waiting' /\ Listening' => EventComes']_vars

\* Queued events stay queued when one is added behind them.
LEMMA AppendKeeps ==
  ASSUME NEW S, NEW q \in Seq(S), NEW x \in S, NEW e
  PROVE  /\ (\E n \in DOMAIN q : q[n] = e) => \E n \in DOMAIN Append(q, x) : Append(q, x)[n] = e
         /\ \E n \in DOMAIN Append(q, x) : Append(q, x)[n] = x
<1>1. /\ DOMAIN q = 1 .. Len(q) /\ DOMAIN Append(q, x) = 1 .. Len(q) + 1 /\ Len(q) \in Nat
      /\ Append(q, x)[Len(q) + 1] = x
      /\ \A n \in 1 .. Len(q) : Append(q, x)[n] = q[n]
  OBVIOUS
<1> QED BY <1>1

\* Losing the association queues the event and keeps those that are queued.
LEMMA UnlinkKeeps ==
  ASSUME TypeOK, Unlink, Listening, UNCHANGED event_thread
  PROVE  (EventComes \/ link # NoNetwork) => EventComes'
<1>1. events \in Seq(SupplicantEvents) /\ "DISCONNECTED" \in SupplicantEvents
  BY DEF TypeOK, SupplicantEvents
<1>2. CASE link = NoNetwork
  BY <1>2 DEF Unlink, Tell, Listening, EventComes
<1>3. CASE link # NoNetwork
  BY <1>1, <1>3, AppendKeeps DEF Unlink, Tell, Listening, EventComes
<1> QED BY <1>2, <1>3

\* dispatch_event takes the oldest event; when that is the one waited for, it is
\* handled.
LEMMA DispatchKeeps ==
  ASSUME TypeOK, Waiting, EventComes, Dispatch PROVE EventComes'
<1>1. /\ events \in Seq(SupplicantEvents) /\ events # <<>> /\ events' = Tail(events)
      /\ event_thread = "idle"
  BY DEF TypeOK, Dispatch
<1>2. /\ Len(events) \in Nat \ {0} /\ DOMAIN events = 1 .. Len(events)
      /\ DOMAIN Tail(events) = 1 .. Len(events) - 1 /\ Head(events) = events[1]
      /\ \A n \in 1 .. Len(events) - 1 : Tail(events)[n] = events[n + 1]
  BY <1>1
<1>3. PICK n \in DOMAIN events : events[n] = "DISCONNECTED"
  BY <1>1 DEF EventComes
<1>4. CASE n = 1
  <2>1. Head(events) = "DISCONNECTED"
    BY <1>2, <1>3, <1>4
  <2> QED BY <2>1 DEF Dispatch, Waiting, EventComes
<1>5. CASE n # 1
  <2>1. n - 1 \in 1 .. Len(events) - 1 /\ (n - 1) + 1 = n
    BY <1>2, <1>5
  <2>2. events'[n - 1] = "DISCONNECTED" /\ n - 1 \in DOMAIN events'
    BY <1>1, <1>2, <1>3, <2>1
  <2> QED BY <2>2 DEF EventComes
<1> QED BY <1>4, <1>5

LEMMA WaitKeeps ==
  ASSUME TypeOK, Next, Waiting, EventComes, Waiting', Listening' PROVE EventComes'
<1> USE DEF Waiting, Listening, MainStep, EventStep, shared, counters, request, locals, supplicant
<1>1. CASE Air
  <2>1. UNCHANGED event_thread /\ event_thread # "ended"
    BY <1>1 DEF Air
  <2>2. CASE Unlink
    BY <2>1, <2>2, UnlinkKeeps
  <2>3. CASE \E e \in SupplicantEvents : Tell(e)
    <3>1. events \in Seq(SupplicantEvents)
      BY DEF TypeOK
    <3> QED BY <2>1, <2>3, <3>1, AppendKeeps DEF EventComes, Tell
  <2> QED BY <1>1, <2>2, <2>3 DEF Air, SupplicantEvents
<1>2. CASE Dispatch
  BY <1>2, DispatchKeeps
<1>3. CASE EventSets
  BY <1>3 DEF EventSets, EventComes
<1>4. CASE EventDisconnects \/ CheckNetwork
  <2>1. EventComes /\ event_thread # "drop"
    BY <1>4 DEF EventDisconnects, CheckNetwork
  <2>2. CASE Unlink
    <3>1. events \in Seq(SupplicantEvents) /\ "DISCONNECTED" \in SupplicantEvents
      BY DEF TypeOK, SupplicantEvents
    <3> QED BY <2>1, <2>2, <3>1, AppendKeeps DEF Unlink, Tell, Listening, EventComes
  <2>3. CASE UNCHANGED events
    BY <2>1, <2>3 DEF EventComes
  <2> QED BY <1>4, <2>2, <2>3 DEF EventDisconnects, CheckNetwork, DISCONNECT, Failed
<1>5. CASE EnterL2 \/ Spawn
  BY <1>5 DEF EnterL2, Spawn, EventComes
<1>6. CASE DhcpPolls \/ DhcpSets
  BY <1>6 DEF DhcpPolls, DhcpSets, EventComes
<1>7. CASE DhcpDisconnects
  <2>1. UNCHANGED event_thread
    BY <1>7 DEF DhcpDisconnects
  <2>2. CASE Unlink
    BY <2>1, <2>2, UnlinkKeeps
  <2>3. CASE UNCHANGED events
    BY <2>1, <2>3 DEF EventComes
  <2> QED BY <1>7, <2>2, <2>3 DEF DhcpDisconnects, DISCONNECT, Failed
<1>8. CASE WaitNotBusy \/ Terminates
  BY <1>8 DEF WaitNotBusy, Terminates
<1>9. ~ (Connect \/ ConnectRuns \/ Disconnect \/ CheckState \/ FindConnected
           \/ MarkDisconnecting \/ CommandDisconnect)
  BY DEF Connect, ConnectRuns, BeginAttempt, SelectNetwork, SaveNetid, Reconnect,
     ResetRejects, PollState, PollEvent, GiveUp, GivenUp, RemoveNetwork, AttemptFails,
     AttemptSucceeds, Disconnect, CheckState, FindConnected, MarkDisconnecting,
     CommandDisconnect
<1> QED
  BY <1>1, <1>2, <1>3, <1>4, <1>5, <1>6, <1>7, <1>8, <1>9
  DEF Next, EventThread, Dhcp, DisconnectRuns

\* A disconnect whose command ends an association is told so: the event is on its
\* way until the wait is over.  Only a command that fails, an event thread that has
\* ended, or an association that was lost between the test of machine_state and the
\* command leaves it waiting.
THEOREM DisconnectToldCorrect == Spec => DisconnectTold
<1>1. ASSUME TypeOK, CommandDisconnect, Listening, link # NoNetwork, link' = NoNetwork
      PROVE  EventComes'
  BY <1>1, UnlinkKeeps DEF CommandDisconnect, DISCONNECT, Failed, supplicant
<1>2. TypeOK /\ [Next]_vars =>
        [/\ CommandDisconnect /\ Listening /\ link # NoNetwork /\ link' = NoNetwork
              => EventComes'
         /\ Waiting /\ EventComes /\ Waiting' /\ Listening' => EventComes']_vars
  BY <1>1, WaitKeeps
<1> QED BY <1>2, TypeCorrect, PTL DEF Spec, DisconnectTold
==============================================================================
