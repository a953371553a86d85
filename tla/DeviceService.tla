---------------------------- MODULE DeviceService ----------------------------
(***************************************************************************)
(* What openDevice and closeDevice promise of the WiFi devices: one at a   *)
(* time is opened, and the scan thread of ScanService runs just while one  *)
(* is.                                                                     *)
(***************************************************************************)

CONSTANT Devices

VARIABLES
  opened,    \* the devices with a live context
  running    \* between aw_wifi_on and the end of aw_wifi_off

Init == opened = {} /\ running = FALSE

Open(d) == ~ running /\ opened = {} /\ opened' = {d} /\ running' = TRUE

Close(d) == running /\ opened = {d} /\ opened' = {} /\ running' = FALSE

Next == \E d \in Devices : Open(d) \/ Close(d)

Spec == Init /\ [][Next]_<<opened, running>>
=============================================================================
