----------------------------- MODULE HotspotList -----------------------------
(***************************************************************************)
(* The hotspots list of a WiFi device in the hiBus layer, inetd/wifi.c and *)
(* closeDevice.  Two threads use it:                                       *)
(*                                                                         *)
(*   scanner  report_wifi_scan_info compares the hotspots of a finished    *)
(*            scan with the list, fires WIFIHOTSPOTSCHANGED and replaces   *)
(*            the list;                                                    *)
(*   main     the procedures, one at a time: they print the list, search   *)
(*            it for the connected hotspot, or free it.                    *)
(*                                                                         *)
(* A list is an address (a member of Lists) with the hotspots stored       *)
(* there, or Free.  Only what the comparison reads is kept of a hotspot:   *)
(* its bssid and one strength, which stands for ssid and capabilities too. *)
(* Their order is the subject of HotspotOrder.  The scan thread below is   *)
(* the one ScanService promises: never active under a client's pause, and  *)
(* joined by close.                                                        *)
(*                                                                         *)
(* A definition commented "Defect" is not part of the specification: it is *)
(* the one below it with a plausible mistake, for testing the properties.  *)
(***************************************************************************)
EXTENDS Naturals, Functions

CONSTANTS
  Bssids,       \* the hotspots' identities
  Strengths,    \* what a scan says of a hotspot
  Lists,        \* addresses a list can have
  Free,         \* what is stored at an address that is not allocated
  NULL,         \* the null pointer, the empty bssid, no strength
  Procedures    \* the procedures clients call besides openDevice

ASSUME ListsAssumption == NULL \notin Lists /\ NULL \notin Bssids
ASSUME ProceduresAssumption ==
  Procedures \subseteq {"start_scan", "connect", "disconnect", "info", "close"}

\* What a scan, or a list, says of the hotspots it contains.
Hotspots == UNION {[S -> Strengths] : S \in SUBSET Bssids}

ASSUME FreeAssumption == Free \notin Hotspots

VARIABLES
  running,         \* the device is opened, its scan thread runs
  main, scanner,   \* where the two threads are
  memory,          \* what is stored at each address
  first_hotspot,   \* the device's list
  hotspots,        \* the scan thread's new list
  host,            \* its pointer into the old one
  node,            \* the main thread's pointer into the list
  bssid,           \* the device's "bssid of current connecting network"
  signal,          \* whose strength is in the device's signal
  dropped,         \* lists of reports that returned early, which nobody frees
  known            \* the hotspots a subscriber of the event believes in, or NULL
                   \* when an event may have told it anything

lists  == <<memory, first_hotspot, dropped>>
locals == <<hotspots, host, node>>
device == <<bssid, signal>>
vars   == <<running, main, scanner, memory, first_hotspot, hotspots, host, node,
            bssid, signal, dropped, known>>

(***************************************************************************)
(* Control points.                                                         *)
(***************************************************************************)

\* main inside the pause of aw_wifi_connect_ap or aw_wifi_disconnect_ap.
Held == {"connecting", "disconnecting"}

\* main where it holds list_mutex across steps.
ListHeld == {"listing", "walking"}

MainPoints == {"idle", "status", "pointer", "walk", "info", "clear", "closing",
               "close_clear"} \cup Held \cup ListHeld

ScannerPoints == {"away", "scanning", "compare", "publish"}

TypeOK ==
  /\ running \in BOOLEAN
  /\ main \in MainPoints
  /\ scanner \in ScannerPoints
  /\ memory \in [Lists -> Hotspots \cup {Free}]
  /\ first_hotspot \in Lists \cup {NULL}
  /\ hotspots \in Lists \cup {NULL}
  /\ host \in Lists \cup {NULL}
  /\ node \in Lists \cup {NULL}
  /\ bssid \in Bssids \cup {NULL}
  /\ signal \in Bssids \cup {NULL}
  /\ dropped \subseteq Lists
  /\ known \in Hotspots \cup {NULL}
  /\ hotspots # NULL <=> scanner \in {"compare", "publish"}
  /\ host # NULL => hotspots # NULL
  /\ node # NULL => main \in {"walk"} \cup ListHeld

NoHotspots == [b \in {} |-> NULL]

Init ==
  /\ running = FALSE
  /\ main = "idle"
  /\ scanner = "away"
  /\ memory = [l \in Lists |-> Free]
  /\ first_hotspot = NULL
  /\ hotspots = NULL
  /\ host = NULL
  /\ node = NULL
  /\ bssid = NULL
  /\ signal = NULL
  /\ dropped = {}
  /\ known = NoHotspots

(***************************************************************************)
(* Lists.                                                                  *)
(***************************************************************************)

Allocated == {l \in Lists : memory[l] # Free}

\* The hotspots at a pointer that is null or allocated.
At(l) == IF l = NULL THEN NoHotspots ELSE memory[l]

\* The memory after the loop that frees a list.
Freed(l) == [memory EXCEPT ![l] = Free]

\* The three parts of WIFIHOTSPOTSCHANGED.
Event(old, new) ==
  [found   |-> Restrict(new, DOMAIN new \ DOMAIN old),
   missed  |-> DOMAIN old \ DOMAIN new,
   changed |-> Restrict(new, {b \in DOMAIN old \cap DOMAIN new : old[b] # new[b]})]

\* What a subscriber makes of it.
Apply(map, event) ==
  IF map = NULL THEN NULL ELSE
  [b \in (DOMAIN map \ event.missed) \cup DOMAIN event.found |->
     IF b \in DOMAIN event.found THEN event.found[b]
     ELSE IF b \in DOMAIN event.changed THEN event.changed[b] ELSE map[b]]

MainStep(from, to)    == main = from /\ main' = to
ScannerStep(from, to) == scanner = from /\ scanner' = to

(***************************************************************************)
(* The scan thread.                                                        *)
(***************************************************************************)

ScanBegins ==
  /\ ScannerStep("away", "scanning")
  /\ running /\ main \notin Held
  /\ UNCHANGED <<running, main, lists, locals, device, known>>

\* A command failed, or no hotspot was received: the list stays as it is.
ScanEnds ==
  /\ ScannerStep("scanning", "away")
  /\ UNCHANGED <<running, main, lists, locals, device, known>>

\* get_wifimanager_info allocates the list of a scan.
Allocate(l, results) ==
  /\ l \notin {first_hotspot, node} /\ memory[l] = Free
  /\ memory' = [memory EXCEPT ![l] = results]

\* report_wifi_scan_info returns early: get_if_info has last read that the
\* interface is gone, or no wireless one.  What the list holds is then without
\* interest.
ReportDropped ==
  /\ ScannerStep("scanning", "away")
  /\ \E l \in Lists : Allocate(l, NoHotspots) /\ dropped' = dropped \cup {l}
  /\ UNCHANGED <<running, main, first_hotspot, locals, device, known>>

\* report_wifi_scan_info takes the list of a scan, reads the old one's address
\* without list_mutex, and refreshes the signal if the connected hotspot is among
\* the new ones.
ReportBegins(results) ==
  /\ ScannerStep("scanning", "compare")
  /\ results # NoHotspots
  /\ \E l \in Lists : Allocate(l, results) /\ hotspots' = l
  /\ host' = first_hotspot
  /\ signal' = IF bssid \in DOMAIN results THEN bssid ELSE signal
  /\ UNCHANGED <<running, main, first_hotspot, node, bssid, dropped, known>>

OldListGone == host # NULL /\ memory[host] = Free

\* Defect: hotspots that have gone are not reported.
CompareWithoutMissed ==
  /\ ScannerStep("compare", "publish")
  /\ known' = IF OldListGone THEN NULL
              ELSE Apply(known, [Event(At(host), memory[hotspots]) EXCEPT !.missed = {}])
  /\ UNCHANGED <<running, main, lists, locals, device>>

\* Defect: the changes are those from the new list to the old one.
CompareBackwards ==
  /\ ScannerStep("compare", "publish")
  /\ known' = IF OldListGone THEN NULL ELSE Apply(known, Event(memory[hotspots], At(host)))
  /\ UNCHANGED <<running, main, lists, locals, device>>

\* Both lists are compared without list_mutex, and the event is fired.  An old
\* list freed meanwhile can read as anything, and then so does the event.
Compare ==
  /\ ScannerStep("compare", "publish")
  /\ known' = IF OldListGone THEN NULL ELSE Apply(known, Event(At(host), memory[hotspots]))
  /\ UNCHANGED <<running, main, lists, locals, device>>

\* Defect: the old list is not freed when the new one replaces it.
PublishLeaks ==
  /\ ScannerStep("publish", "away")
  /\ main \notin ListHeld
  /\ first_hotspot' = hotspots
  /\ hotspots' = NULL
  /\ host' = NULL
  /\ UNCHANGED <<running, main, memory, node, device, dropped, known>>

\* Under list_mutex the list of this moment is freed and the new one installed.
Publish ==
  /\ ScannerStep("publish", "away")
  /\ main \notin ListHeld
  /\ memory' = IF first_hotspot = NULL THEN memory ELSE Freed(first_hotspot)
  /\ first_hotspot' = hotspots
  /\ hotspots' = NULL
  /\ host' = NULL
  /\ UNCHANGED <<running, main, node, device, dropped, known>>

(***************************************************************************)
(* The main thread.                                                        *)
(***************************************************************************)

\* A successful openDevice.
Open ==
  /\ main = "idle" /\ ~ running
  /\ running' = TRUE
  /\ UNCHANGED <<main, scanner, lists, locals, device, known>>

\* A procedure starts; wifi_device->context # NULL is running here.
Call(procedure, to) ==
  /\ procedure \in Procedures
  /\ running
  /\ MainStep("idle", to)

\* wifiStartScanHotspots prints the list under list_mutex.
StartScan ==
  /\ Call("start_scan", "listing")
  /\ node' = first_hotspot
  /\ UNCHANGED <<running, scanner, lists, hotspots, host, device, known>>

ListPrinted ==
  /\ MainStep("listing", "idle")
  /\ node' = NULL
  /\ UNCHANGED <<running, scanner, lists, hotspots, host, device, known>>

\* wifiConnect; the library pauses the scan thread, which waits for the round.
Connect ==
  /\ Call("connect", "connecting")
  /\ scanner = "away"
  /\ UNCHANGED <<running, scanner, lists, locals, device, known>>

\* connect() returned: with an error, or the old bssid is erased.
ConnectReturns ==
  /\ \/ MainStep("connecting", "idle") /\ UNCHANGED bssid
     \/ MainStep("connecting", "status") /\ bssid' = NULL
  /\ UNCHANGED <<running, scanner, lists, locals, signal, known>>

\* get_cur_net_info: never answered, not COMPLETED, or the new bssid.
ReadStatus ==
  /\ \/ MainStep("status", "idle") /\ UNCHANGED bssid
     \/ MainStep("status", "pointer") /\ bssid' \in Bssids \cup {bssid}
  /\ UNCHANGED <<running, scanner, lists, locals, signal, known>>

\* wifiConnect reads first_hotspot, and only then takes list_mutex.
TakePointer ==
  /\ MainStep("pointer", "walk")
  /\ node' = first_hotspot
  /\ UNCHANGED <<running, scanner, lists, hotspots, host, device, known>>

LockWalk ==
  /\ MainStep("walk", "walking")
  /\ UNCHANGED <<running, scanner, lists, locals, device, known>>

\* The strength of the connected hotspot, if the list has it.  Freed nodes may
\* still compare equal, or not.
Walk ==
  /\ MainStep("walking", "idle")
  /\ node' = NULL
  /\ IF node # NULL /\ memory[node] = Free
     THEN signal' \in {signal, bssid}
     ELSE signal' = IF bssid \in DOMAIN At(node) THEN bssid ELSE signal
  /\ UNCHANGED <<running, scanner, lists, hotspots, host, bssid, known>>

\* wifiGetNetworkInfo of a connected device erases and rewrites the bssid.
Info ==
  /\ Call("info", "info")
  /\ bssid' = NULL
  /\ UNCHANGED <<running, scanner, lists, locals, signal, known>>

InfoReturns ==
  /\ MainStep("info", "idle")
  /\ bssid' \in Bssids \cup {NULL}
  /\ UNCHANGED <<running, scanner, lists, locals, signal, known>>

\* wifiDisconnect: the library pauses, disconnects and resumes ...
Disconnect ==
  /\ Call("disconnect", "disconnecting")
  /\ scanner = "away"
  /\ UNCHANGED <<running, scanner, lists, locals, device, known>>

DisconnectReturns ==
  /\ MainStep("disconnecting", "clear")
  /\ UNCHANGED <<running, scanner, lists, locals, device, known>>

\* Free the list, under list_mutex.
ClearList ==
  /\ memory' = IF first_hotspot = NULL THEN memory ELSE Freed(first_hotspot)
  /\ first_hotspot' = NULL
  /\ UNCHANGED dropped

\* ... and the bssid, the signal and the list are reset.
Clear ==
  /\ MainStep("clear", "idle")
  /\ ClearList
  /\ bssid' = NULL
  /\ signal' = NULL
  /\ UNCHANGED <<running, scanner, locals, known>>

\* closeDevice.  Its disconnect is a pause like wifiDisconnect's, without steps
\* of its own here.
Close ==
  /\ Call("close", "closing")
  /\ UNCHANGED <<running, scanner, lists, locals, device, known>>

\* Defect: the device is closed without joining the scan thread.
ClosedUnjoined ==
  /\ MainStep("closing", "close_clear")
  /\ running' = FALSE
  /\ UNCHANGED <<scanner, lists, locals, device, known>>

\* aw_wifi_off has joined the scan thread.
Closed ==
  /\ MainStep("closing", "close_clear")
  /\ scanner = "away"
  /\ running' = FALSE
  /\ UNCHANGED <<scanner, lists, locals, device, known>>

\* closeDevice frees the list; bssid and signal stay.
CloseClear ==
  /\ MainStep("close_clear", "idle")
  /\ ClearList
  /\ UNCHANGED <<running, scanner, locals, device, known>>

(***************************************************************************)
(* The specification.                                                      *)
(***************************************************************************)

Scanner == ScanBegins \/ ScanEnds \/ ReportDropped
           \/ (\E results \in Hotspots : ReportBegins(results)) \/ Compare \/ Publish

Main == Open \/ StartScan \/ ListPrinted \/ Connect \/ ConnectReturns \/ ReadStatus
        \/ TakePointer \/ LockWalk \/ Walk \/ Info \/ InfoReturns \/ Disconnect
        \/ DisconnectReturns \/ Clear \/ Close \/ Closed \/ CloseClear

Next == Scanner \/ Main

Spec == Init /\ [][Next]_vars

(***************************************************************************)
(* Properties.                                                             *)
(***************************************************************************)

\* Every list in memory has one owner, the device or the report under way: whatever
\* the procedures do, nothing is freed twice, and nothing is leaked but what a report
\* that returns early leaves behind.
ListsOwned ==
  /\ Allocated = ({first_hotspot, hotspots} \ {NULL}) \cup dropped
  /\ {first_hotspot, hotspots} \cap dropped = {}
  /\ hotspots # NULL => hotspots # first_hotspot

\* The scan thread compares with a list that is allocated ("for hotspots list",
\* says the declaration of list_mutex).
CompareSafe == scanner = "compare" => ~ OldListGone

\* A list in use is not freed: not while the main thread prints or searches it
\* with list_mutex, and while the scan thread compares with it, without the
\* mutex, by nobody but wifiDisconnect.
ListKept(l) == l # NULL /\ memory[l] # Free => memory'[l] # Free

InUseKept ==
  [][/\ main \in ListHeld => ListKept(node)
     /\ scanner = "compare" /\ main # "clear" => ListKept(host)]_vars

\* wifiStartScanHotspots prints a list that is allocated.
PrintSafe == main = "listing" /\ node # NULL => memory[node] # Free

\* A closed device has no hotspots: no late report puts a list back.
ClosedEmpty == main = "idle" /\ ~ running => first_hotspot = NULL

\* The list the events have last told about.
Reported == IF scanner = "publish" THEN At(hotspots) ELSE At(first_hotspot)

\* A subscriber that follows WIFIHOTSPOTSCHANGED knows every hotspot of the
\* list with its present strength.
SubscriberCovers ==
  known # NULL =>
    \A b \in DOMAIN Reported : b \in DOMAIN known /\ known[b] = Reported[b]

\* It believes in hotspots that are not listed only because wifiDisconnect or
\* closeDevice cleared the list, which they do without an event: every hotspot
\* that goes away in a scan is reported.
Ghosts == DOMAIN known \ DOMAIN Reported

NoNewGhosts ==
  [][known' # NULL /\ main \notin {"clear", "close_clear"} => Ghosts' \subseteq Ghosts]_vars

\* The scan thread and the pauses of the procedures are used as ScanService
\* describes them, which ScanThread implements.
Service == INSTANCE ScanService WITH
  user <- IF scanner # "away" THEN "scan" ELSE IF main \in Held THEN "client" ELSE "nobody"

UsesService == Service!Spec
=============================================================================
