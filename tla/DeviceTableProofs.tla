-------------------------- MODULE DeviceTableProofs --------------------------
(***************************************************************************)
(* Proofs about DeviceTable, for any number of devices of either kind and   *)
(* any names.                                                              *)
(***************************************************************************)
EXTENDS DeviceTable, TLAPS, WellFoundedInduction

LEMMA TypeInit == Init => TypeOK
<1> SUFFICES ASSUME Init PROVE TypeOK
  OBVIOUS
<1> USE DeviceAssumption DEF Init
<1>1. link \in [Devices -> {"absent", "down", "up"}]
  OBVIOUS
<1>2. type \in [Devices -> {"unknown", "wifi", "ethernet"}]
  OBVIOUS
<1>3. status \in [Devices -> {"uncertain", "down", "up"}]
  OBVIOUS
<1>4. QED
  BY <1>1, <1>2, <1>3 DEF TypeOK, InProcess, InOpen, Opening

LEMMA TypeStep == TypeOK /\ [Next]_vars => TypeOK'
<1> SUFFICES ASSUME TypeOK, [Next]_vars PROVE TypeOK'
  OBVIOUS
<1> USE DeviceAssumption
    DEF TypeOK, InProcess, InOpen, Opening, Replies, Codes, Answer, Call, table, loaded,
        library, locals
<1>1. ASSUME NEW n \in Names, NEW procedure \in {"open", "close", "use"}, NoDevice(procedure, n)
      PROVE  TypeOK'
  BY <1>1 DEF NoDevice
<1>2. ASSUME NEW n \in Names, NEW d \in Devices, OpenAgain(n, d) PROVE TypeOK'
  BY <1>2 DEF OpenAgain
<1>3. ASSUME NEW n \in Names, NEW d \in Devices, OpenUnloadable(n, d) PROVE TypeOK'
  BY <1>3 DEF OpenUnloadable
<1>4. ASSUME NEW n \in Names, NEW d \in Devices, OpenLoad(n, d) PROVE TypeOK'
  <2>1. lib_handle' \in [Devices -> BOOLEAN] /\ Ops' \in [Devices -> BOOLEAN]
    BY <1>4 DEF OpenLoad
  <2>2. leaked' \in BOOLEAN
    BY <1>4, Zenon DEF OpenLoad
  <2>3. QED
    BY <1>4, <2>1, <2>2 DEF OpenLoad
<1>5. ASSUME NEW n \in Names, NEW d \in Devices, CloseClosed(n, d) PROVE TypeOK'
  BY <1>5 DEF CloseClosed
<1>6. ASSUME NEW n \in Names, NEW d \in Devices, CloseCrashes(n, d) PROVE TypeOK'
  BY <1>6 DEF CloseCrashes
<1>7. ASSUME NEW n \in Names, NEW d \in Devices, CloseBegins(n, d) PROVE TypeOK'
  BY <1>7 DEF CloseBegins
<1>8. ASSUME NEW n \in Names, NEW d \in Devices, CloseUnknown(n, d) PROVE TypeOK'
  <2>1. machine' \in {"settled", "l2connected", "disconnecting"} /\ callback' \in Names \cup {NULL}
    BY <1>8 DEF CloseUnknown, Unload
  <2>2. status' \in [Devices -> {"uncertain", "down", "up"}] /\ lib_handle' \in [Devices -> BOOLEAN]
    BY <1>8 DEF CloseUnknown
  <2>3. QED
    BY <1>8, <2>1, <2>2 DEF CloseUnknown, Unloaded
<1>9. ASSUME NEW n \in Names, NEW d \in Devices, Refuse(n, d) PROVE TypeOK'
  BY <1>9 DEF Refuse, Refusal
<1>10. ASSUME NEW n \in Names, NEW d \in Devices, Use(n, d) PROVE TypeOK'
  BY <1>10 DEF Use, RaiseInterface, CannotRaise, Interfaces
<1>11. ASSUME NEW n \in Names, NEW d \in Devices, DisconnectCut(n, d) PROVE TypeOK'
  BY <1>11 DEF DisconnectCut
<1>12. CASE GetStatus
  BY <1>12 DEF GetStatus, TypeOf, StatusOf
<1>13. CASE OpenUnknown
  BY <1>13 DEF OpenUnknown, get_if_info, TypeOf, StatusOf
<1>14. CASE OpenEthernet
  BY <1>14 DEF OpenEthernet, get_if_info, TypeOf, StatusOf, RaiseInterface, CannotRaise, Interfaces
<1>15. CASE OpenWifi
  BY <1>15 DEF OpenWifi, get_if_info, TypeOf, StatusOf, RaiseInterface, CannotRaise, Interfaces
<1>16. CASE OpenWait
  BY <1>16 DEF OpenWait, get_if_info, TypeOf, StatusOf
<1>17. CASE OpenCrashes
  BY <1>17 DEF OpenCrashes
<1>18. CASE OpenOn
  <2>1. scanners' \in Nat /\ context' \in [Devices -> BOOLEAN]
    BY <1>18 DEF OpenOn
  <2>2. QED
    BY <1>18, <2>1 DEF OpenOn
<1>19. CASE OpenFails
  BY <1>19 DEF OpenFails
<1>20. CASE OpenReady
  BY <1>20 DEF OpenReady
<1>21. CASE CloseJoinsTwice
  BY <1>21 DEF CloseJoinsTwice
<1>22. CASE CloseWifi
  <2>1. machine' \in {"settled", "l2connected", "disconnecting"} /\ callback' \in Names \cup {NULL}
    BY <1>22 DEF CloseWifi, Unload
  <2>2. scanners' \in Nat
    BY <1>22 DEF CloseWifi
  <2>3. /\ context' \in [Devices -> BOOLEAN]
        /\ Ops' \in [Devices -> BOOLEAN]
        /\ lib_handle' \in [Devices -> BOOLEAN]
        /\ type' \in [Devices -> {"unknown", "wifi", "ethernet"}]
        /\ status' \in [Devices -> {"uncertain", "down", "up"}]
    BY <1>22 DEF CloseWifi, get_if_info, TypeOf, StatusOf
  <2>4. QED
    BY <1>22, <2>1, <2>2, <2>3 DEF CloseWifi, Unloaded
<1>23. CASE Terminates
  BY <1>23 DEF Terminates
<1>24. CASE Associates
  BY <1>24 DEF Associates
<1>25. CASE LosesLink
  BY <1>25 DEF LosesLink
<1>26. CASE DhcpEnds
  BY <1>26 DEF DhcpEnds
<1>27. ASSUME NEW d \in Devices, GoesDown(d) PROVE TypeOK'
  BY <1>27 DEF GoesDown, Changes
<1>28. ASSUME NEW d \in Devices, Unplugged(d) PROVE TypeOK'
  BY <1>28 DEF Unplugged, Changes
<1>29. ASSUME NEW d \in Devices, Plugged(d) PROVE TypeOK'
  BY <1>29 DEF Plugged, Changes
<1>30. CASE UNCHANGED vars
  BY <1>30 DEF vars
<1>31. QED
  BY <1>1, <1>2, <1>3, <1>4, <1>5, <1>6, <1>7, <1>8, <1>9, <1>10, <1>11,
     <1>12, <1>13, <1>14, <1>15, <1>16, <1>17, <1>18, <1>19, <1>20, <1>21,
     <1>22, <1>23, <1>24, <1>25, <1>26, <1>27, <1>28, <1>29, <1>30
     DEF Next, Calls, OpenSteps, CloseSteps, System

\* Types, and the locals of openDevice in step with its control points.
THEOREM TypeCorrect == Spec => []TypeOK
<1>1. QED
  BY TypeInit, TypeStep, PTL DEF Spec

-----------------------------------------------------------------------------
(***************************************************************************)
(* What holds whatever goes wrong.  openDevice works for the device its    *)
(* name stands for, only configured WiFi devices get that far, and so only *)
(* they have a library or a context.                                       *)
(***************************************************************************)

Addressed ==
  /\ \A d \in Devices : type[d] \in {"unknown", Kind[d]}
  /\ \A d \in Devices : lib_handle[d] => Kind[d] = "wifi" /\ d \in Configured
  /\ \A d \in Devices : context[d] => Kind[d] = "wifi" /\ d \in Configured
  /\ main \in InProcess => get_device_index(name) = index
  /\ main \in Opening => index \in Configured
  /\ main \in {"wait", "on"} => Kind[index] = "wifi"

LEMMA AddressedInit == Init => Addressed
BY DeviceAssumption DEF Init, Addressed, InProcess, InOpen, Opening

LEMMA AddressedStep == ASSUME TypeOK, Addressed, [Next]_vars PROVE Addressed'
<1> USE DeviceAssumption
    DEF TypeOK, Addressed, InProcess, InOpen, Opening, Answer, Call, table, loaded, library,
        locals
<1>1. ASSUME NEW n \in Names, NEW procedure \in {"open", "close", "use"}, NoDevice(procedure, n)
      PROVE  Addressed'
  BY <1>1 DEF NoDevice
<1>2. ASSUME NEW n \in Names, NEW d \in Devices, OpenAgain(n, d) PROVE Addressed'
  BY <1>2 DEF OpenAgain
<1>3. ASSUME NEW n \in Names, NEW d \in Devices, OpenUnloadable(n, d) PROVE Addressed'
  BY <1>3 DEF OpenUnloadable
<1>4. ASSUME NEW n \in Names, NEW d \in Devices, OpenLoad(n, d) PROVE Addressed'
  BY <1>4 DEF OpenLoad
<1>5. ASSUME NEW n \in Names, NEW d \in Devices, CloseClosed(n, d) PROVE Addressed'
  BY <1>5 DEF CloseClosed
<1>6. ASSUME NEW n \in Names, NEW d \in Devices, CloseCrashes(n, d) PROVE Addressed'
  BY <1>6 DEF CloseCrashes
<1>7. ASSUME NEW n \in Names, NEW d \in Devices, CloseBegins(n, d) PROVE Addressed'
  BY <1>7 DEF CloseBegins
<1>8. ASSUME NEW n \in Names, NEW d \in Devices, CloseUnknown(n, d) PROVE Addressed'
  BY <1>8 DEF CloseUnknown, Unload, Unloaded
<1>9. ASSUME NEW n \in Names, NEW d \in Devices, Refuse(n, d) PROVE Addressed'
  BY <1>9 DEF Refuse
<1>10. ASSUME NEW n \in Names, NEW d \in Devices, Use(n, d) PROVE Addressed'
  BY <1>10 DEF Use, RaiseInterface, CannotRaise, Interfaces
<1>11. ASSUME NEW n \in Names, NEW d \in Devices, DisconnectCut(n, d) PROVE Addressed'
  BY <1>11 DEF DisconnectCut
<1>12. CASE GetStatus
  BY <1>12 DEF GetStatus, TypeOf, StatusOf
<1>13. CASE OpenUnknown
  BY <1>13 DEF OpenUnknown, get_if_info, TypeOf, StatusOf
<1>14. CASE OpenEthernet
  BY <1>14 DEF OpenEthernet, get_if_info, TypeOf, StatusOf, RaiseInterface, CannotRaise, Interfaces
<1>15. CASE OpenWifi
  BY <1>15 DEF OpenWifi, get_if_info, TypeOf, StatusOf, RaiseInterface, CannotRaise, Interfaces
<1>16. CASE OpenWait
  BY <1>16 DEF OpenWait, get_if_info, TypeOf, StatusOf
<1>17. CASE OpenCrashes
  BY <1>17 DEF OpenCrashes
<1>18. CASE OpenOn
  BY <1>18 DEF OpenOn
<1>19. CASE OpenFails
  BY <1>19 DEF OpenFails
<1>20. CASE OpenReady
  BY <1>20 DEF OpenReady
<1>21. CASE CloseJoinsTwice
  BY <1>21 DEF CloseJoinsTwice
<1>22. CASE CloseWifi
  BY <1>22 DEF CloseWifi, Unload, Unloaded, get_if_info, TypeOf, StatusOf
<1>23. CASE Terminates
  BY <1>23 DEF Terminates
<1>24. CASE Associates
  BY <1>24 DEF Associates
<1>25. CASE LosesLink
  BY <1>25 DEF LosesLink
<1>26. CASE DhcpEnds
  BY <1>26 DEF DhcpEnds
<1>27. ASSUME NEW d \in Devices, GoesDown(d) PROVE Addressed'
  BY <1>27 DEF GoesDown, Changes
<1>28. ASSUME NEW d \in Devices, Unplugged(d) PROVE Addressed'
  BY <1>28 DEF Unplugged, Changes
<1>29. ASSUME NEW d \in Devices, Plugged(d) PROVE Addressed'
  BY <1>29 DEF Plugged, Changes
<1>30. CASE UNCHANGED vars
  BY <1>30 DEF vars
<1>31. QED
  BY <1>1, <1>2, <1>3, <1>4, <1>5, <1>6, <1>7, <1>8, <1>9, <1>10, <1>11,
     <1>12, <1>13, <1>14, <1>15, <1>16, <1>17, <1>18, <1>19, <1>20, <1>21,
     <1>22, <1>23, <1>24, <1>25, <1>26, <1>27, <1>28, <1>29, <1>30
     DEF Next, Calls, OpenSteps, CloseSteps, System

LEMMA AddressedInvariant == Spec => [](TypeOK /\ Addressed)
<1>1. Init => TypeOK /\ Addressed
  BY TypeInit, AddressedInit
<1>2. (TypeOK /\ Addressed) /\ [Next]_vars => (TypeOK /\ Addressed)'
  BY TypeStep, AddressedStep
<1>3. QED
  BY <1>1, <1>2, PTL DEF Spec

LEMMA ReportsStep ==
  ASSUME TypeOK, Addressed, [Next]_vars, NEW e \in Devices,
         context[e], context'[e], lib_handle'[e], Reported(e), ~ Reported(e)'
  PROVE  /\ main = "on" /\ index # e
         /\ reply'.code = "open_wifi" \/ gwifi_state = "disabled"
<1> DEFINE Goal == /\ main = "on" /\ index # e
                   /\ reply'.code = "open_wifi" \/ gwifi_state = "disabled"
<1> USE DeviceAssumption
    DEF TypeOK, Addressed, InProcess, InOpen, Opening, Reported, Answer, Call, table, loaded,
        library, locals
<1> HIDE DEF Goal
<1>0. callback' # callback /\ Mapped'
  BY DEF Mapped
<1>1. ASSUME NEW n \in Names, NEW procedure \in {"open", "close", "use"}, NoDevice(procedure, n)
      PROVE  Goal
  BY <1>0, <1>1 DEF NoDevice
<1>2. ASSUME NEW n \in Names, NEW d \in Devices, OpenAgain(n, d) PROVE Goal
  BY <1>0, <1>2 DEF OpenAgain
<1>3. ASSUME NEW n \in Names, NEW d \in Devices, OpenUnloadable(n, d) PROVE Goal
  BY <1>0, <1>3 DEF OpenUnloadable
<1>4. ASSUME NEW n \in Names, NEW d \in Devices, OpenLoad(n, d) PROVE Goal
  BY <1>0, <1>4 DEF OpenLoad
<1>5. ASSUME NEW n \in Names, NEW d \in Devices, CloseClosed(n, d) PROVE Goal
  BY <1>0, <1>5 DEF CloseClosed
<1>6. ASSUME NEW n \in Names, NEW d \in Devices, CloseCrashes(n, d) PROVE Goal
  BY <1>0, <1>6 DEF CloseCrashes
<1>7. ASSUME NEW n \in Names, NEW d \in Devices, CloseBegins(n, d) PROVE Goal
  BY <1>0, <1>7 DEF CloseBegins
<1>8. ASSUME NEW n \in Names, NEW d \in Devices, CloseUnknown(n, d) PROVE Goal
  <2>1. callback' = callback
    BY <1>8, <1>0 DEF CloseUnknown, Unload
  <2>2. QED
    BY <1>0, <2>1
<1>9. ASSUME NEW n \in Names, NEW d \in Devices, Refuse(n, d) PROVE Goal
  BY <1>0, <1>9 DEF Refuse
<1>10. ASSUME NEW n \in Names, NEW d \in Devices, Use(n, d) PROVE Goal
  BY <1>0, <1>10 DEF Use
<1>11. ASSUME NEW n \in Names, NEW d \in Devices, DisconnectCut(n, d) PROVE Goal
  BY <1>0, <1>11 DEF DisconnectCut
<1>12. CASE GetStatus
  BY <1>0, <1>12 DEF GetStatus
<1>13. CASE OpenUnknown
  BY <1>0, <1>13 DEF OpenUnknown
<1>14. CASE OpenEthernet
  BY <1>0, <1>14 DEF OpenEthernet
<1>15. CASE OpenWifi
  BY <1>0, <1>15 DEF OpenWifi
<1>16. CASE OpenWait
  BY <1>0, <1>16 DEF OpenWait
<1>17. CASE OpenCrashes
  BY <1>0, <1>17 DEF OpenCrashes
<1>18. CASE OpenOn
  <2>1. main = "on" /\ gwifi_state = "disabled" /\ get_device_index(callback') = index
    BY <1>18 DEF OpenOn
  <2>2. QED
    BY <2>1 DEF Goal
<1>19. CASE OpenFails
  <2>1. main = "on" /\ get_device_index(callback') = index
    BY <1>19 DEF OpenFails
  <2>2. reply'.code = "open_wifi"
    BY <1>19 DEF OpenFails
  <2>3. QED
    BY <2>1, <2>2 DEF Goal
<1>20. CASE OpenReady
  BY <1>0, <1>20 DEF OpenReady
<1>21. CASE CloseJoinsTwice
  BY <1>0, <1>21 DEF CloseJoinsTwice
<1>22. CASE CloseWifi
  <2>1. callback' = callback
    BY <1>22, <1>0 DEF CloseWifi, Unload
  <2>2. QED
    BY <1>0, <2>1
<1>23. CASE Terminates
  BY <1>0, <1>23 DEF Terminates
<1>24. CASE Associates
  BY <1>0, <1>24 DEF Associates
<1>25. CASE LosesLink
  BY <1>0, <1>25 DEF LosesLink
<1>26. CASE DhcpEnds
  BY <1>0, <1>26 DEF DhcpEnds
<1>27. ASSUME NEW d \in Devices, GoesDown(d) PROVE Goal
  BY <1>0, <1>27 DEF GoesDown, Changes
<1>28. ASSUME NEW d \in Devices, Unplugged(d) PROVE Goal
  BY <1>0, <1>28 DEF Unplugged, Changes
<1>29. ASSUME NEW d \in Devices, Plugged(d) PROVE Goal
  BY <1>0, <1>29 DEF Plugged, Changes
<1>30. CASE UNCHANGED vars
  BY <1>0, <1>30 DEF vars
<1>31. QED
  BY <1>1, <1>2, <1>3, <1>4, <1>5, <1>6, <1>7, <1>8, <1>9, <1>10, <1>11,
     <1>12, <1>13, <1>14, <1>15, <1>16, <1>17, <1>18, <1>19, <1>20, <1>21,
     <1>22, <1>23, <1>24, <1>25, <1>26, <1>27, <1>28, <1>29, <1>30
     DEF Goal, Next, Calls, OpenSteps, CloseSteps, System

\* An opened device, one of any number, loses the reports of its scans to another's
\* openDevice only, which the library has refused or for which it has been switched on
\* anew after the supplicant's end; whatever goes wrong, with names that clash, too.
THEOREM ReportsTakenCorrect == Spec => ReportsTaken
<1>1. TypeOK /\ Addressed /\ [Next]_vars =>
        [\A d \in Devices :
           (context[d] /\ context'[d] /\ lib_handle'[d] /\ Reported(d) /\ ~ Reported(d)')
             => /\ main = "on" /\ index # d
                /\ reply'.code = "open_wifi" \/ gwifi_state = "disabled"]_vars
  BY ReportsStep
<1>2. QED
  BY <1>1, AddressedInvariant, PTL DEF Spec, ReportsTaken

-----------------------------------------------------------------------------
(***************************************************************************)
(* What holds while interfaces stay.  The table knows the kind of every    *)
(* device, so that a WiFi device in openDevice has a library, and a        *)
(* context has one.                                                        *)
(***************************************************************************)

Loaded ==
  /\ \A d \in Devices : link[d] # "absent" /\ type[d] = Kind[d]
  /\ \A d \in Devices : lib_handle[d] => Ops[d]
  /\ \A d \in Devices : context[d] => lib_handle[d]
  /\ main \in Opening => ~ context[index]
  /\ main \in {"ready", "closing"} => context[index]
  /\ main \in Opening /\ Kind[index] = "wifi" => lib_handle[index]
  /\ main \in {"wait", "on"} => Kind[index] = "wifi"

LEMMA LoadedInit == Init => Loaded
BY DeviceAssumption DEF Init, Loaded, Opening

LEMMA LoadedStep ==
  ASSUME "unplug" \notin Faults, TypeOK, Loaded, [Next]_vars PROVE Loaded'
<1> USE DeviceAssumption
    DEF TypeOK, Loaded, InProcess, InOpen, Opening, Answer, Call, table, loaded, library, locals
<1>1. ASSUME NEW n \in Names, NEW procedure \in {"open", "close", "use"}, NoDevice(procedure, n)
      PROVE  Loaded'
  BY <1>1 DEF NoDevice
<1>2. ASSUME NEW n \in Names, NEW d \in Devices, OpenAgain(n, d) PROVE Loaded'
  BY <1>2 DEF OpenAgain
<1>3. ASSUME NEW n \in Names, NEW d \in Devices, OpenUnloadable(n, d) PROVE Loaded'
  BY <1>3 DEF OpenUnloadable
<1>4. ASSUME NEW n \in Names, NEW d \in Devices, OpenLoad(n, d) PROVE Loaded'
  BY <1>4 DEF OpenLoad
<1>5. ASSUME NEW n \in Names, NEW d \in Devices, CloseClosed(n, d) PROVE Loaded'
  BY <1>5 DEF CloseClosed
<1>6. ASSUME NEW n \in Names, NEW d \in Devices, CloseCrashes(n, d) PROVE Loaded'
  BY <1>6 DEF CloseCrashes
<1>7. ASSUME NEW n \in Names, NEW d \in Devices, CloseBegins(n, d) PROVE Loaded'
  BY <1>7 DEF CloseBegins
<1>8. ASSUME NEW n \in Names, NEW d \in Devices, CloseUnknown(n, d) PROVE Loaded'
  BY <1>8 DEF CloseUnknown, Unload, Unloaded
<1>9. ASSUME NEW n \in Names, NEW d \in Devices, Refuse(n, d) PROVE Loaded'
  BY <1>9 DEF Refuse
<1>10. ASSUME NEW n \in Names, NEW d \in Devices, Use(n, d) PROVE Loaded'
  BY <1>10 DEF Use, RaiseInterface, CannotRaise, Interfaces
<1>11. ASSUME NEW n \in Names, NEW d \in Devices, DisconnectCut(n, d) PROVE Loaded'
  BY <1>11 DEF DisconnectCut
<1>12. CASE GetStatus
  BY <1>12 DEF GetStatus, TypeOf, StatusOf
<1>13. CASE OpenUnknown
  BY <1>13 DEF OpenUnknown, get_if_info, TypeOf, StatusOf
<1>14. CASE OpenEthernet
  BY <1>14 DEF OpenEthernet, get_if_info, TypeOf, StatusOf, RaiseInterface, CannotRaise, Interfaces
<1>15. CASE OpenWifi
  BY <1>15 DEF OpenWifi, get_if_info, TypeOf, StatusOf, RaiseInterface, CannotRaise, Interfaces
<1>16. CASE OpenWait
  BY <1>16 DEF OpenWait, get_if_info, TypeOf, StatusOf
<1>17. CASE OpenCrashes
  BY <1>17 DEF OpenCrashes
<1>18. CASE OpenOn
  BY <1>18 DEF OpenOn
<1>19. CASE OpenFails
  BY <1>19 DEF OpenFails
<1>20. CASE OpenReady
  BY <1>20 DEF OpenReady
<1>21. CASE CloseJoinsTwice
  BY <1>21 DEF CloseJoinsTwice
<1>22. CASE CloseWifi
  BY <1>22 DEF CloseWifi, Unload, Unloaded, get_if_info, TypeOf, StatusOf
<1>23. CASE Terminates
  BY <1>23 DEF Terminates
<1>24. CASE Associates
  BY <1>24 DEF Associates
<1>25. CASE LosesLink
  BY <1>25 DEF LosesLink
<1>26. CASE DhcpEnds
  BY <1>26 DEF DhcpEnds
<1>27. ASSUME NEW d \in Devices, GoesDown(d) PROVE Loaded'
  BY <1>27 DEF GoesDown, Changes
<1>28. ASSUME NEW d \in Devices, Unplugged(d) PROVE Loaded'
  BY <1>28 DEF Unplugged, Changes
<1>29. ASSUME NEW d \in Devices, Plugged(d) PROVE Loaded'
  BY <1>29 DEF Plugged, Changes
<1>30. CASE UNCHANGED vars
  BY <1>30 DEF vars
<1>31. QED
  BY <1>1, <1>2, <1>3, <1>4, <1>5, <1>6, <1>7, <1>8, <1>9, <1>10, <1>11,
     <1>12, <1>13, <1>14, <1>15, <1>16, <1>17, <1>18, <1>19, <1>20, <1>21,
     <1>22, <1>23, <1>24, <1>25, <1>26, <1>27, <1>28, <1>29, <1>30
     DEF Next, Calls, OpenSteps, CloseSteps, System

LEMMA LoadedInvariant ==
  ASSUME "unplug" \notin Faults PROVE Spec => [](TypeOK /\ Loaded)
<1>1. Init => TypeOK /\ Loaded
  BY TypeInit, LoadedInit
<1>2. (TypeOK /\ Loaded) /\ [Next]_vars => (TypeOK /\ Loaded)'
  BY TypeStep, LoadedStep
<1>3. QED
  BY <1>1, <1>2, PTL DEF Spec

LEMMA AnswersStep ==
  ASSUME TypeOK, Loaded, AnswersTruthful, [Next]_vars PROVE AnswersTruthful'
<1> USE DeviceAssumption
    DEF TypeOK, Loaded, InProcess, InOpen, Opening, AnswersTruthful, Answer, Call, table,
        loaded, library, locals
<1>1. ASSUME NEW n \in Names, NEW procedure \in {"open", "close", "use"}, NoDevice(procedure, n)
      PROVE  AnswersTruthful'
  BY <1>1 DEF NoDevice
<1>2. ASSUME NEW n \in Names, NEW d \in Devices, OpenAgain(n, d) PROVE AnswersTruthful'
  BY <1>2 DEF OpenAgain
<1>3. ASSUME NEW n \in Names, NEW d \in Devices, OpenUnloadable(n, d) PROVE AnswersTruthful'
  BY <1>3 DEF OpenUnloadable
<1>4. ASSUME NEW n \in Names, NEW d \in Devices, OpenLoad(n, d) PROVE AnswersTruthful'
  BY <1>4 DEF OpenLoad
<1>5. ASSUME NEW n \in Names, NEW d \in Devices, CloseClosed(n, d) PROVE AnswersTruthful'
  BY <1>5 DEF CloseClosed
<1>6. ASSUME NEW n \in Names, NEW d \in Devices, CloseCrashes(n, d) PROVE AnswersTruthful'
  BY <1>6 DEF CloseCrashes
<1>7. ASSUME NEW n \in Names, NEW d \in Devices, CloseBegins(n, d) PROVE AnswersTruthful'
  BY <1>7 DEF CloseBegins
<1>8. ASSUME NEW n \in Names, NEW d \in Devices, CloseUnknown(n, d) PROVE AnswersTruthful'
  BY <1>8 DEF CloseUnknown, Unload, Unloaded
<1>9. ASSUME NEW n \in Names, NEW d \in Devices, Refuse(n, d) PROVE AnswersTruthful'
  BY <1>9 DEF Refuse
<1>10. ASSUME NEW n \in Names, NEW d \in Devices, Use(n, d) PROVE AnswersTruthful'
  BY <1>10 DEF Use
<1>11. ASSUME NEW n \in Names, NEW d \in Devices, DisconnectCut(n, d) PROVE AnswersTruthful'
  BY <1>11 DEF DisconnectCut
<1>12. CASE GetStatus
  BY <1>12 DEF GetStatus
<1>13. CASE OpenUnknown
  BY <1>13 DEF OpenUnknown
<1>14. CASE OpenEthernet
  BY <1>14 DEF OpenEthernet, TypeOf
<1>15. CASE OpenWifi
  BY <1>15 DEF OpenWifi
<1>16. CASE OpenWait
  BY <1>16 DEF OpenWait
<1>17. CASE OpenCrashes
  BY <1>17 DEF OpenCrashes
<1>18. CASE OpenOn
  BY <1>18 DEF OpenOn
<1>19. CASE OpenFails
  BY <1>19 DEF OpenFails
<1>20. CASE OpenReady
  BY <1>20 DEF OpenReady
<1>21. CASE CloseJoinsTwice
  BY <1>21 DEF CloseJoinsTwice
<1>22. CASE CloseWifi
  BY <1>22 DEF CloseWifi, Unload, Unloaded
<1>23. CASE Terminates
  BY <1>23 DEF Terminates
<1>24. CASE Associates
  BY <1>24 DEF Associates
<1>25. CASE LosesLink
  BY <1>25 DEF LosesLink
<1>26. CASE DhcpEnds
  BY <1>26 DEF DhcpEnds
<1>27. ASSUME NEW d \in Devices, GoesDown(d) PROVE AnswersTruthful'
  BY <1>27 DEF GoesDown, Changes
<1>28. ASSUME NEW d \in Devices, Unplugged(d) PROVE AnswersTruthful'
  BY <1>28 DEF Unplugged, Changes
<1>29. ASSUME NEW d \in Devices, Plugged(d) PROVE AnswersTruthful'
  BY <1>29 DEF Plugged, Changes
<1>30. CASE UNCHANGED vars
  BY <1>30 DEF vars
<1>31. QED
  BY <1>1, <1>2, <1>3, <1>4, <1>5, <1>6, <1>7, <1>8, <1>9, <1>10, <1>11,
     <1>12, <1>13, <1>14, <1>15, <1>16, <1>17, <1>18, <1>19, <1>20, <1>21,
     <1>22, <1>23, <1>24, <1>25, <1>26, <1>27, <1>28, <1>29, <1>30
     DEF Next, Calls, OpenSteps, CloseSteps, System

\* What openDevice and closeDevice answer is so, whether or not the supplicant and
\* the ioctls serve them.
THEOREM AnswersTruthfulCorrect ==
  ASSUME "unplug" \notin Faults PROVE Spec => []AnswersTruthful
<1>1. Init => AnswersTruthful
  BY DEF Init, AnswersTruthful
<1>2. (TypeOK /\ Loaded) /\ AnswersTruthful /\ [Next]_vars => AnswersTruthful'
  BY AnswersStep
<1>3. QED
  BY <1>1, <1>2, LoadedInvariant, PTL DEF Spec

-----------------------------------------------------------------------------
(***************************************************************************)
(* What holds while the supplicant does not end, either, or while there is *)
(* no second WiFi device for which openDevice would then switch the        *)
(* library on anew.  One device at most has a context, and there is one    *)
(* scan thread just while one has.                                         *)
(***************************************************************************)

\* With one WiFi device whose library is configured, as many others as there are.
OneWifi ==
  \A d, e \in Configured : Kind[d] = "wifi" /\ Kind[e] = "wifi" => d = e

InTurns == "unplug" \notin Faults /\ ("terminate" \notin Faults \/ OneWifi)

Steady ==
  /\ \A d, e \in Devices : context[d] /\ context[e] => d = e
  /\ scanners = IF \E d \in Devices : context[d] THEN 1 ELSE 0
  /\ gwifi_state = "enabled" => \E d \in Devices : context[d]
  /\ "terminate" \notin Faults => \A d \in Devices : context[d] => gwifi_state = "enabled"

LEMMA SteadyInit == Init => Steady
BY DeviceAssumption DEF Init, Steady, Opening

\* openDevice gets as far as aw_wifi_on with the library off only if nothing is open.
LEMMA OnAlone ==
  ASSUME InTurns, TypeOK, Addressed, Loaded, Steady, main = "on", gwifi_state = "disabled"
  PROVE  \A d \in Devices : ~ context[d]
<1> SUFFICES ASSUME NEW d \in Devices, context[d] PROVE FALSE
  OBVIOUS
<1>1. CASE "terminate" \notin Faults
  BY <1>1 DEF Steady
<1>2. CASE OneWifi
  <2>1. index \in Devices /\ index \in Configured /\ Kind[index] = "wifi" /\ ~ context[index]
    BY DeviceAssumption DEF TypeOK, Addressed, Loaded, InProcess, InOpen, Opening
  <2>2. d \in Configured /\ Kind[d] = "wifi"
    BY DEF Addressed
  <2>3. QED
    BY <1>2, <2>1, <2>2 DEF OneWifi
<1>3. QED
  BY <1>1, <1>2 DEF InTurns

LEMMA SteadyStep ==
  ASSUME InTurns, TypeOK, Addressed, Loaded, Steady, [Next]_vars
  PROVE  Steady'
<1> USE DeviceAssumption
    DEF TypeOK, Loaded, InProcess, InOpen, Opening, Answer, Call, table, loaded, library, locals
<1>1. ASSUME NEW n \in Names, NEW procedure \in {"open", "close", "use"}, NoDevice(procedure, n)
      PROVE  Steady'
  BY <1>1 DEF Steady, NoDevice
<1>2. ASSUME NEW n \in Names, NEW d \in Devices, OpenAgain(n, d) PROVE Steady'
  BY <1>2 DEF Steady, OpenAgain
<1>3. ASSUME NEW n \in Names, NEW d \in Devices, OpenUnloadable(n, d) PROVE Steady'
  BY <1>3 DEF Steady, OpenUnloadable
<1>4. ASSUME NEW n \in Names, NEW d \in Devices, OpenLoad(n, d) PROVE Steady'
  BY <1>4 DEF Steady, OpenLoad
<1>5. ASSUME NEW n \in Names, NEW d \in Devices, CloseClosed(n, d) PROVE Steady'
  BY <1>5 DEF Steady, CloseClosed
<1>6. ASSUME NEW n \in Names, NEW d \in Devices, CloseCrashes(n, d) PROVE Steady'
  BY <1>6 DEF Steady, CloseCrashes
<1>7. ASSUME NEW n \in Names, NEW d \in Devices, CloseBegins(n, d) PROVE Steady'
  BY <1>7 DEF Steady, CloseBegins
<1>8. ASSUME NEW n \in Names, NEW d \in Devices, CloseUnknown(n, d) PROVE Steady'
  <2>1. type[d] # "unknown"
    BY <1>8 DEF Loaded
  <2>2. QED
    BY <1>8, <2>1 DEF CloseUnknown
<1>9. ASSUME NEW n \in Names, NEW d \in Devices, Refuse(n, d) PROVE Steady'
  BY <1>9 DEF Steady, Refuse
<1>10. ASSUME NEW n \in Names, NEW d \in Devices, Use(n, d) PROVE Steady'
  BY <1>10 DEF Steady, Use
<1>11. ASSUME NEW n \in Names, NEW d \in Devices, DisconnectCut(n, d) PROVE Steady'
  BY <1>11 DEF Steady, DisconnectCut
<1>12. CASE GetStatus
  BY <1>12 DEF Steady, GetStatus
<1>13. CASE OpenUnknown
  BY <1>13 DEF Steady, OpenUnknown
<1>14. CASE OpenEthernet
  BY <1>14 DEF Steady, OpenEthernet
<1>15. CASE OpenWifi
  BY <1>15 DEF Steady, OpenWifi
<1>16. CASE OpenWait
  BY <1>16 DEF Steady, OpenWait
<1>17. CASE OpenCrashes
  BY <1>17 DEF Steady, OpenCrashes
<1>18. CASE OpenOn
  <2>1. gwifi_state = "disabled" /\ main = "on" /\ index \in Devices
    BY <1>18 DEF OpenOn
  <2>2. scanners = 0 /\ \A d \in Devices : ~ context[d]
    BY <2>1, OnAlone DEF Steady
  <2>3. gwifi_state' = "enabled" /\ scanners' = 1
    BY <1>18, <2>2 DEF OpenOn
  <2>4. \A d \in Devices : context'[d] <=> d = index
    BY <1>18, <2>1, <2>2 DEF OpenOn
  <2>5. QED
    BY <2>1, <2>3, <2>4 DEF Steady
<1>19. CASE OpenFails
  <2>1. context' = context
    BY <1>19 DEF OpenFails
  <2>2. QED
    BY <1>19, <2>1 DEF Steady, OpenFails
<1>20. CASE OpenReady
  BY <1>20 DEF Steady, OpenReady
<1>21. CASE CloseJoinsTwice
  BY <1>21 DEF Steady, CloseJoinsTwice
<1>22. CASE CloseWifi
  <2>1. index \in Devices /\ context[index]
    BY <1>22 DEF CloseWifi
  <2>2. scanners = 1 /\ \A d \in Devices : context[d] => d = index
    BY <2>1 DEF Steady
  <2>3. scanners' = 0 /\ gwifi_state' = "disabled"
    BY <1>22, <2>2 DEF CloseWifi
  <2>4. \A d \in Devices : ~ context'[d]
    BY <1>22, <2>1, <2>2 DEF CloseWifi
  <2>5. QED
    BY <2>3, <2>4 DEF Steady
<1>23. CASE Terminates
  BY <1>23 DEF Steady, Terminates
<1>24. CASE Associates
  BY <1>24 DEF Steady, Associates
<1>25. CASE LosesLink
  BY <1>25 DEF Steady, LosesLink
<1>26. CASE DhcpEnds
  BY <1>26 DEF Steady, DhcpEnds
<1>27. ASSUME NEW d \in Devices, GoesDown(d) PROVE Steady'
  BY <1>27 DEF Steady, GoesDown, Changes
<1>28. ASSUME NEW d \in Devices, Unplugged(d) PROVE Steady'
  BY <1>28 DEF Steady, Unplugged, Changes
<1>29. ASSUME NEW d \in Devices, Plugged(d) PROVE Steady'
  BY <1>29 DEF Steady, Plugged, Changes
<1>30. CASE UNCHANGED vars
  BY <1>30 DEF Steady, vars
<1>31. QED
  BY <1>1, <1>2, <1>3, <1>4, <1>5, <1>6, <1>7, <1>8, <1>9, <1>10, <1>11,
     <1>12, <1>13, <1>14, <1>15, <1>16, <1>17, <1>18, <1>19, <1>20, <1>21,
     <1>22, <1>23, <1>24, <1>25, <1>26, <1>27, <1>28, <1>29, <1>30
     DEF Next, Calls, OpenSteps, CloseSteps, System

LEMMA Invariant ==
  ASSUME InTurns PROVE Spec => [](TypeOK /\ Addressed /\ Loaded /\ Steady)
<1>1. Init => TypeOK /\ Addressed /\ Loaded /\ Steady
  BY TypeInit, AddressedInit, LoadedInit, SteadyInit
<1>2. (TypeOK /\ Addressed /\ Loaded /\ Steady) /\ [Next]_vars
        => (TypeOK /\ Addressed /\ Loaded /\ Steady)'
  BY TypeStep, AddressedStep, LoadedStep, SteadyStep DEF InTurns
<1>3. QED
  BY <1>1, <1>2, PTL DEF Spec

\* Contexts and scan threads find the library in memory, whatever openings fail: with
\* any number of devices that share it if the supplicant does not end, and with one
\* WiFi device if it does.  Interfaces are not unplugged.
THEOREM LibraryInUseCorrect == ASSUME InTurns PROVE Spec => []LibraryInUse
<1>1. TypeOK /\ Loaded /\ Steady => LibraryInUse
  BY DEF TypeOK, Loaded, Steady, LibraryInUse, Mapped
<1>2. QED
  BY <1>1, Invariant, PTL

-----------------------------------------------------------------------------
(***************************************************************************)
(* What holds while openings cannot fail: a WiFi device has a library just *)
(* while it has a context or is being opened.                              *)
(***************************************************************************)

\* One WiFi device, clients that send whole names, and no fault but interfaces that
\* are set down and the end of the supplicant once it has been there.
OpeningsWork ==
  /\ OneWifi
  /\ \A n \in Names, d \in Devices : <<n, ifname[d]>> \in Prefixes => n = ifname[d]
  /\ Faults \subseteq {"down", "terminate"}

Opened ==
  /\ NoCrash \/ clients > 0
  /\ \A d \in Devices : lib_handle[d] => context[d] \/ (main \in Opening /\ d = index)

\* Every set of devices has a first one.
LEMMA FirstDevice ==
  ASSUME NEW S, S \subseteq Nat, S # {} PROVE \E x \in S : \A y \in S : x <= y
<1> DEFINE Less == {ss \in Nat \X Nat : ss[1] < ss[2]}
<1>1. IsWellFoundedOn(Less, Nat)
  BY NatLessThanWellFounded DEF OpToRel
<1> HIDE DEF Less
<1>2. PICK x \in S : \A y \in S : ~ (<<y, x>> \in Less)
  BY <1>1, WFMin
<1>3. ASSUME NEW y \in S PROVE x <= y
  <2>1. <<y, x>> \notin Less /\ x \in Nat /\ y \in Nat
    BY <1>2, <1>3
  <2>2. QED
    BY <2>1 DEF Less
<1>4. QED
  BY <1>3

\* get_device_index finds a device if there is one the name fits, and then the first.
LEMMA DeviceIndex ==
  ASSUME NEW n \in Names
  PROVE  LET found == {d \in Devices : <<n, ifname[d]>> \in Prefixes}
             d     == get_device_index(n)
         IN  IF found = {} THEN d = NULL ELSE d \in found /\ \A e \in found : d <= e
<1> DEFINE found == {d \in Devices : <<n, ifname[d]>> \in Prefixes}
<1>1. CASE found = {}
  BY <1>1 DEF get_device_index
<1>2. CASE found # {}
  <2>1. found \subseteq Nat
    BY DeviceAssumption DEF Devices
  <2> HIDE DEF found
  <2>2. \E d \in found : \A e \in found : d <= e
    BY <1>2, <2>1, FirstDevice
  <2>3. QED
    BY <1>2, <2>2 DEF get_device_index, found
<1>3. QED
  BY <1>1, <1>2

\* The interface of the device that is being opened is there, under the client's name.
LEMMA InterfaceThere ==
  ASSUME OpeningsWork, TypeOK, Addressed, Loaded, main \in Opening
  PROVE  index \in Interfaces(name)
<1>1. name \in Names /\ index \in Devices /\ get_device_index(name) = index
  BY DeviceAssumption DEF TypeOK, Addressed, InProcess, InOpen
<1>2. name = ifname[index]
  BY <1>1, DeviceIndex, DeviceAssumption DEF OpeningsWork
<1>3. QED
  BY <1>1, <1>2 DEF Interfaces, Loaded

LEMMA OpenedStep ==
  ASSUME OpeningsWork, TypeOK, Addressed, Loaded, Steady, Opened, [Next]_vars
  PROVE  Opened'
<1> USE DeviceAssumption
    DEF TypeOK, Addressed, Loaded, Opened, NoCrash, InProcess, InOpen, Opening, Answer, Call,
        table, loaded, library, locals
<1>1. ASSUME NEW n \in Names, NEW procedure \in {"open", "close", "use"}, NoDevice(procedure, n)
      PROVE  Opened'
  BY <1>1 DEF NoDevice
<1>2. ASSUME NEW n \in Names, NEW d \in Devices, OpenAgain(n, d) PROVE Opened'
  BY <1>2 DEF OpenAgain
<1>3. ASSUME NEW n \in Names, NEW d \in Devices, OpenUnloadable(n, d) PROVE Opened'
  BY <1>3 DEF OpenUnloadable
<1>4. ASSUME NEW n \in Names, NEW d \in Devices, OpenLoad(n, d) PROVE Opened'
  BY <1>4 DEF OpenLoad
<1>5. ASSUME NEW n \in Names, NEW d \in Devices, CloseClosed(n, d) PROVE Opened'
  BY <1>5 DEF CloseClosed
<1>6. ASSUME NEW n \in Names, NEW d \in Devices, CloseCrashes(n, d) PROVE Opened'
  <2>1. context[d]
    BY <1>6 DEF CloseCrashes
  <2>2. QED
    BY <1>6, <2>1 DEF CloseCrashes
<1>7. ASSUME NEW n \in Names, NEW d \in Devices, CloseBegins(n, d) PROVE Opened'
  BY <1>7 DEF CloseBegins
<1>8. ASSUME NEW n \in Names, NEW d \in Devices, CloseUnknown(n, d) PROVE Opened'
  <2>1. type[d] # "unknown"
    BY <1>8 DEF Loaded
  <2>2. QED
    BY <1>8, <2>1 DEF CloseUnknown
<1>9. ASSUME NEW n \in Names, NEW d \in Devices, Refuse(n, d) PROVE Opened'
  BY <1>9 DEF Refuse
<1>10. ASSUME NEW n \in Names, NEW d \in Devices, Use(n, d) PROVE Opened'
  BY <1>10 DEF Use
<1>11. ASSUME NEW n \in Names, NEW d \in Devices, DisconnectCut(n, d) PROVE Opened'
  BY <1>11 DEF DisconnectCut
<1>12. CASE GetStatus
  BY <1>12 DEF GetStatus
<1>13. CASE OpenUnknown
  <2>1. link[index] = "absent" /\ index \in Devices
    BY <1>13 DEF OpenUnknown, TypeOf
  <2>2. QED
    BY <2>1
<1>14. CASE OpenEthernet
  <2>1. Kind[index] = "ethernet" /\ ~ lib_handle[index]
    BY <1>14 DEF OpenEthernet, TypeOf
  <2>2. QED
    BY <1>14, <2>1 DEF OpenEthernet
<1>15. CASE OpenWifi
  <2>1. index \in Interfaces(name) /\ "ifconfig" \notin Faults
    BY <1>15, InterfaceThere DEF OpenWifi, OpeningsWork
  <2>2. main' = "wait" /\ UNCHANGED locals
    BY <1>15, <2>1 DEF OpenWifi, CannotRaise
  <2>3. QED
    BY <1>15, <2>2 DEF OpenWifi
<1>16. CASE OpenWait
  BY <1>16 DEF OpenWait
<1>17. CASE OpenCrashes
  <2>1. Ops[index]
    BY <1>17 DEF OpenCrashes
  <2>2. QED
    BY <1>17, <2>1 DEF OpenCrashes
<1>18. CASE OpenOn
  BY <1>18 DEF OpenOn
<1>19. CASE OpenFails
  <2>1. index \in Interfaces(name) /\ "supplicant" \notin Faults
    BY <1>19, InterfaceThere DEF OpenFails, OpeningsWork
  <2>2. PICK d \in Devices : context[d]
    BY <1>19, <2>1 DEF OpenFails, SupplicantFor, Steady
  <2>3. d = index
    BY <1>19, <2>2 DEF OpenFails, OpeningsWork, OneWifi
  <2>4. QED
    BY <1>19, <2>2, <2>3 DEF OpenFails
<1>20. CASE OpenReady
  BY <1>20 DEF OpenReady
<1>21. CASE CloseJoinsTwice
  <2>1. context[index] /\ index \in Devices /\ scanners = 0
    BY <1>21 DEF CloseJoinsTwice
  <2>2. QED
    BY <2>1 DEF Steady
<1>22. CASE CloseWifi
  <2>1. context[index] /\ index \in Devices
    BY <1>22 DEF CloseWifi
  <2>2. scanners = 1 /\ \A d \in Devices : context[d] => d = index
    BY <2>1 DEF Steady
  <2>3. scanners' = 0 /\ clients' = clients
    BY <1>22, <2>2 DEF CloseWifi, Unloaded
  <2>4. main' # "crashed" \/ clients' > 0
    BY <1>22, <2>3 DEF CloseWifi, Unloaded
  <2>5. \A d \in Devices : ~ lib_handle'[d]
    BY <1>22, <2>1, <2>2 DEF CloseWifi
  <2>6. QED
    BY <2>4, <2>5
<1>23. CASE Terminates
  BY <1>23 DEF Terminates
<1>24. CASE Associates
  BY <1>24 DEF Associates
<1>25. CASE LosesLink
  BY <1>25 DEF LosesLink
<1>26. CASE DhcpEnds
  BY <1>26 DEF DhcpEnds
<1>27. ASSUME NEW d \in Devices, GoesDown(d) PROVE Opened'
  BY <1>27 DEF GoesDown, Changes
<1>28. ASSUME NEW d \in Devices, Unplugged(d) PROVE Opened'
  BY <1>28 DEF Unplugged, Changes
<1>29. ASSUME NEW d \in Devices, Plugged(d) PROVE Opened'
  BY <1>29 DEF Plugged, Changes
<1>30. CASE UNCHANGED vars
  BY <1>30 DEF vars
<1>31. QED
  BY <1>1, <1>2, <1>3, <1>4, <1>5, <1>6, <1>7, <1>8, <1>9, <1>10, <1>11,
     <1>12, <1>13, <1>14, <1>15, <1>16, <1>17, <1>18, <1>19, <1>20, <1>21,
     <1>22, <1>23, <1>24, <1>25, <1>26, <1>27, <1>28, <1>29, <1>30
     DEF Next, Calls, OpenSteps, CloseSteps, System

\* When openings cannot fail, closeDevice crashes in one case only: it unloads the
\* library under a udhcpc_thread.  The null context and the thread joined twice need
\* an openDevice that has failed half-way.
THEOREM NoCrashCorrect == ASSUME OpeningsWork PROVE Spec => [](NoCrash \/ clients > 0)
<1>1. InTurns
  BY DEF OpeningsWork, InTurns
<1>2. Spec => [](TypeOK /\ Addressed /\ Loaded /\ Steady)
  BY <1>1, Invariant
<1>3. Init => Opened
  BY DeviceAssumption DEF Init, Opened, NoCrash
<1>4. (TypeOK /\ Addressed /\ Loaded /\ Steady) /\ Opened /\ [Next]_vars => Opened'
  BY OpenedStep
<1>5. Opened => NoCrash \/ clients > 0
  BY DEF Opened
<1>6. QED
  BY <1>2, <1>3, <1>4, <1>5, PTL DEF Spec

-----------------------------------------------------------------------------

opened == {d \in Devices : context[d]}
running == scanners > 0

LEMMA ServiceInit == Init => Service!Init
BY DEF Init, Service!Init

LEMMA ServiceStep ==
  ASSUME InTurns, TypeOK, Addressed, Loaded, Steady, [Next]_vars
  PROVE  [Service!Next]_<<opened, running>>
<1> USE DeviceAssumption
    DEF TypeOK, Loaded, InProcess, InOpen, Opening, Answer, Call, table, loaded, library, locals,
        opened, running
<1>1. ASSUME NEW n \in Names, NEW procedure \in {"open", "close", "use"}, NoDevice(procedure, n)
      PROVE  [Service!Next]_<<opened, running>>
  BY <1>1 DEF NoDevice
<1>2. ASSUME NEW n \in Names, NEW d \in Devices, OpenAgain(n, d)
      PROVE  [Service!Next]_<<opened, running>>
  BY <1>2 DEF OpenAgain
<1>3. ASSUME NEW n \in Names, NEW d \in Devices, OpenUnloadable(n, d)
      PROVE  [Service!Next]_<<opened, running>>
  BY <1>3 DEF OpenUnloadable
<1>4. ASSUME NEW n \in Names, NEW d \in Devices, OpenLoad(n, d)
      PROVE  [Service!Next]_<<opened, running>>
  BY <1>4 DEF OpenLoad
<1>5. ASSUME NEW n \in Names, NEW d \in Devices, CloseClosed(n, d)
      PROVE  [Service!Next]_<<opened, running>>
  BY <1>5 DEF CloseClosed
<1>6. ASSUME NEW n \in Names, NEW d \in Devices, CloseCrashes(n, d)
      PROVE  [Service!Next]_<<opened, running>>
  BY <1>6 DEF CloseCrashes
<1>7. ASSUME NEW n \in Names, NEW d \in Devices, CloseBegins(n, d)
      PROVE  [Service!Next]_<<opened, running>>
  BY <1>7 DEF CloseBegins
<1>8. ASSUME NEW n \in Names, NEW d \in Devices, CloseUnknown(n, d)
      PROVE  [Service!Next]_<<opened, running>>
  <2>1. type[d] # "unknown"
    BY <1>8 DEF Loaded
  <2>2. QED
    BY <1>8, <2>1 DEF CloseUnknown
<1>9. ASSUME NEW n \in Names, NEW d \in Devices, Refuse(n, d)
      PROVE  [Service!Next]_<<opened, running>>
  BY <1>9 DEF Refuse
<1>10. ASSUME NEW n \in Names, NEW d \in Devices, Use(n, d)
       PROVE  [Service!Next]_<<opened, running>>
  BY <1>10 DEF Use
<1>11. ASSUME NEW n \in Names, NEW d \in Devices, DisconnectCut(n, d)
       PROVE  [Service!Next]_<<opened, running>>
  BY <1>11 DEF DisconnectCut
<1>12. CASE GetStatus
  BY <1>12 DEF GetStatus
<1>13. CASE OpenUnknown
  BY <1>13 DEF OpenUnknown
<1>14. CASE OpenEthernet
  BY <1>14 DEF OpenEthernet
<1>15. CASE OpenWifi
  BY <1>15 DEF OpenWifi
<1>16. CASE OpenWait
  BY <1>16 DEF OpenWait
<1>17. CASE OpenCrashes
  BY <1>17 DEF OpenCrashes
<1>18. CASE OpenOn
  <2>1. gwifi_state = "disabled" /\ main = "on" /\ index \in Devices
    BY <1>18 DEF OpenOn
  <2>2. opened = {} /\ scanners = 0
    BY <2>1, OnAlone DEF Steady
  <2>3. opened' = {index} /\ running'
    BY <1>18, <2>1, <2>2 DEF OpenOn
  <2>4. PICK d \in Devices : d = index
    BY <2>1
  <2>5. Service!Open(d)
    BY <2>2, <2>3, <2>4 DEF Service!Open
  <2>6. QED
    BY <2>5 DEF Service!Next
<1>19. CASE OpenFails
  <2>1. context' = context
    BY <1>19 DEF OpenFails
  <2>2. QED
    BY <1>19, <2>1 DEF OpenFails
<1>20. CASE OpenReady
  BY <1>20 DEF OpenReady
<1>21. CASE CloseJoinsTwice
  BY <1>21 DEF CloseJoinsTwice
<1>22. CASE CloseWifi
  <2>1. index \in Devices /\ context[index]
    BY <1>22 DEF CloseWifi
  <2>2. opened = {index} /\ scanners = 1
    BY <2>1 DEF Steady
  <2>3. opened' = {} /\ ~ running'
    BY <1>22, <2>2 DEF CloseWifi
  <2>4. PICK d \in Devices : d = index
    BY <2>1
  <2>5. Service!Close(d)
    BY <2>2, <2>3, <2>4 DEF Service!Close
  <2>6. QED
    BY <2>5 DEF Service!Next
<1>23. CASE Terminates
  BY <1>23 DEF Terminates
<1>24. CASE Associates
  BY <1>24 DEF Associates
<1>25. CASE LosesLink
  BY <1>25 DEF LosesLink
<1>26. CASE DhcpEnds
  BY <1>26 DEF DhcpEnds
<1>27. ASSUME NEW d \in Devices, GoesDown(d) PROVE [Service!Next]_<<opened, running>>
  BY <1>27 DEF GoesDown, Changes
<1>28. ASSUME NEW d \in Devices, Unplugged(d) PROVE [Service!Next]_<<opened, running>>
  BY <1>28 DEF Unplugged, Changes
<1>29. ASSUME NEW d \in Devices, Plugged(d) PROVE [Service!Next]_<<opened, running>>
  BY <1>29 DEF Plugged, Changes
<1>30. CASE UNCHANGED vars
  BY <1>30 DEF vars
<1>31. QED
  BY <1>1, <1>2, <1>3, <1>4, <1>5, <1>6, <1>7, <1>8, <1>9, <1>10, <1>11,
     <1>12, <1>13, <1>14, <1>15, <1>16, <1>17, <1>18, <1>19, <1>20, <1>21,
     <1>22, <1>23, <1>24, <1>25, <1>26, <1>27, <1>28, <1>29, <1>30
     DEF Next, Calls, OpenSteps, CloseSteps, System

\* openDevice and closeDevice, with the library's own state behind them, implement the
\* abstract service: one device opened at a time, scanned for by one thread.  They do so
\* for several WiFi devices if the supplicant does not end, and for one if it does;
\* in both cases interfaces must not be unplugged.
THEOREM Refinement == ASSUME InTurns PROVE Spec => ImplementsService
<1>1. (TypeOK /\ Addressed /\ Loaded /\ Steady) /\ [Next]_vars
        => [Service!Next]_<<opened, running>>
  BY ServiceStep
<1>2. QED
  BY <1>1, Invariant, ServiceInit, PTL
     DEF Spec, ImplementsService, Service!Spec, opened, running

\* ScanService, as long as nobody uses the radio: opening a device switches the
\* scan thread on, closing it switches it off.
Scan == INSTANCE ScanService WITH user <- "nobody"

LEMMA ServiceDrivesScan ==
  ASSUME [Service!Next]_<<opened, running>> PROVE [Scan!Next]_<<running, "nobody">>
<1>1. ASSUME NEW d \in Devices, Service!Open(d) PROVE Scan!SwitchOn
  BY <1>1 DEF Service!Open, Scan!SwitchOn, running
<1>2. ASSUME NEW d \in Devices, Service!Close(d) PROVE Scan!SwitchOff
  BY <1>2 DEF Service!Close, Scan!SwitchOff, running
<1>3. QED
  BY <1>1, <1>2 DEF Service!Next, Scan!Next

\* openDevice and closeDevice bring up and end the scan thread in turns, which is how
\* ScanService expects to be switched on and off (and HotspotList to be run): under
\* the assumptions of Refinement, the end of the supplicant with one WiFi device
\* included, where aw_wifi_on could start a second thread but openDevice does not ask.
THEOREM ScanLifetime == ASSUME InTurns PROVE Spec => Scan!Spec
<1>1. Init => Scan!Init
  BY DEF Init, Scan!Init, running
<1>2. (TypeOK /\ Addressed /\ Loaded /\ Steady) /\ [Next]_vars
        => [Scan!Next]_<<running, "nobody">>
  BY ServiceStep, ServiceDrivesScan
<1>3. QED
  BY <1>1, <1>2, Invariant, PTL DEF Spec, Scan!Spec
=============================================================================
