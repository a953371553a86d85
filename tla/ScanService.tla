----------------------------- MODULE ScanService -----------------------------
(***************************************************************************)
(* What the scan thread promises its client: the radio and the scan        *)
(* results have one user at a time, the scan in progress or the client     *)
(* (reading the results, or connecting and disconnecting under a pause),   *)
(* and switching the interface off waits until there is none.              *)
(***************************************************************************)

VARIABLES
  running,   \* between aw_wifi_on and the end of aw_wifi_off
  user       \* who uses the radio and the results

Init == running = FALSE /\ user = "nobody"

SwitchOn == ~ running /\ running' = TRUE /\ UNCHANGED user

SwitchOff == running /\ user = "nobody" /\ running' = FALSE /\ UNCHANGED user

Acquire(who) == running /\ user = "nobody" /\ user' = who /\ UNCHANGED running

Release(who) == user = who /\ user' = "nobody" /\ UNCHANGED running

Next == SwitchOn \/ SwitchOff \/ \E who \in {"scan", "client"} : Acquire(who) \/ Release(who)

Spec == Init /\ [][Next]_<<running, user>>
=============================================================================
