---------------------------- MODULE MCScanThread ----------------------------
(* ScanThread with every call of the library that uses the scan thread. *)
EXTENDS ScanThread

AllOperations == {"scan", "results", "connect", "add", "disconnect", "get_netid", "remove"}
=============================================================================
