---------------------------- MODULE MCCtrlRequest ----------------------------
(* CtrlRequest with main (or the scan thread), the event thread and a DHCP    *)
(* thread.                                                                   *)
EXTENDS CtrlRequest

CONSTANTS main, event, dhcp
AllThreads == {main, event, dhcp}
=============================================================================
