# Verification of the HybridOS settings runner (inetd)

TLA+ models of `src/inetd`: the runner that gives HybridOS applications their network
settings over hiBus, its WiFi control library and the tools library below it. The
models are written from the code. TLC checks them on small instances; TLAPS proves the
main results for every value of the constants.

Contents: [the system](#1-the-system), [the models](#2-the-models),
[the runs](#3-the-runs), [bounds and fairness](#4-bounds-and-fairness),
[the proofs](#5-the-proofs), [what disagrees](#6-where-code-and-text-disagree),
[what is not modelled](#7-what-is-not-modelled), [the plan](#8-the-plan).

## 1. The system

```
 clients --hiBus--> main.c ............ one dispatch loop, the device table
                    inetd/{common,wifi,ethernet,mobile,tools}.c ..... the hiBus layer
                    wifi/wifi.c (libwifi.so) ................. the control layer
                    wifimanager/* (libwifimanager.so) ........ the tools layer
                    wpa_supplicant (another process) ......... external
```

Four kinds of threads run through these layers:

| thread | created by | code |
|---|---|---|
| dispatch loop ("main") | the process | one hiBus procedure at a time, down to the supplicant |
| scan thread | `aw_wifi_on` | `wifi_scan_thread`, and through its callback `get_wifimanager_info` and `report_wifi_scan_info` |
| event thread | `aw_wifi_on` | `event_handle_thread` → `dispatch_event` → `handle_event` |
| DHCP threads, detached | each CONNECTED event | `udhcpc_thread` |

### Inventory

| component | state | operations | what is hard | what makes it correct |
|---|---|---|---|---|
| runner, `main.c` | the device table | fill it from `inetd.cfg`, register the procedures, dispatch | the clean-up after the loop is unreachable | the table describes the interfaces |
| device procedures, `common.c`, `tools.c` | per device: type, status, library handle, operations, context | `openDevice`, `closeDevice`, `getNetworkDevicesStatus`, `load_device_library`, `get_if_info`, `ifconfig_helper` | an opening that fails half-way; interfaces that go down or away; several devices on one library | what is used of the library is loaded; answers are true; one device is opened at a time; reports carry its name |
| WiFi procedures and report, `inetd/wifi.c` | hotspots list, bssid, signal, `list_mutex` | `wifiStartScanHotspots`, `wifiStopScanHotspots`, `wifiConnect`, `wifiDisconnect`, `wifiGetNetworkInfo`, `report_wifi_scan_info` | the scan thread compares without the mutex; events are differences | lists are neither leaked, freed twice nor used after; the list is ordered; subscribers can rebuild it |
| control layer, `wifi/wifi.c` | context | `open_device`, `close_device`, `connect`, `disconnect`, `start_scan`, `get_cur_net_info`, `get_wifimanager_info` | the busy wait of `disconnect` has no end of its own; ssids are re-coded in fixed buffers | every call returns; ssids survive |
| scan thread, `network_manager.c` | four flags, two mutexes, two conditions, `scan_results` | start, stop, pause, resume, request a scan, read results | lost signals, foreign unlocks, join against waits, early returns under the pause | one user of radio and results; operations return; scanning goes on |
| connection, `wifimanager.c`, `wifi_event.c`, `wifi_state_machine.c`, `udhcpc_thread.c` | `wifi_machine_state`, `wifi_event_inner`, counters, `netid_connecting`, `disconnecting` | connect, disconnect, event handling, DHCP polling | all shared state is unlocked; late events; threads outlive the association they belong to | busy states end; CONNECTED means a link; calls return |
| connection to the supplicant, `wifimanager/wifi.c`, `wpa_ctrl.c` | four sockets, an exit socket pair, the callback table | connect, command, wait for an event, close | closing under the event thread; a timed-out command ends it; reconnect of `aw_wifi_get_wifi_state`; answers carry no mark of their request | an enabled library hears events; no descriptor is lost; a thread gets the answer to its own request |
| network list queries, `wpa_supplicant_conf.c` | reply buffers | search by name and key, highest priority, enable all, remove all | networks are found by searching text for their name; error codes double as values | the network found is the one asked for |
| operations on the saved networks, `wifimanager.c` | the list is the supplicant's | `connect_ap`, `connect_ap_key_mgmt`, `add_network`, `connect_ap_with_netid`, `connect_ap_auto`, `remove_network`, `remove_all_networks`, `list_networks`, `get_netid` | a dozen commands each, any of which may fail; ids kept across them | a failed attempt changes nothing; a name is saved once; nothing else is removed; the busy state is left |
| other vendored hostap files, Ethernet and mobile stubs, test client | | | | not examined |

Components interact by direct calls (hiBus layer → operations table of the device →
tools layer), by the scan callback (scan thread → hiBus layer), by the shared state
machine (main, event thread, DHCP threads), and by the supplicant's commands and events.

## 2. The models

| module | code | role |
|---|---|---|
| `ScanService` | what `network_manager.c` is for | abstract: radio and results have one user at a time; off waits for nobody to use them |
| `ScanThread` | `network_manager.c`, and the operations around it in `wifimanager.c` | implements `ScanService` |
| `Station` | `wifi_connect_ap_inner`, `aw_wifi_disconnect_ap`, `disconnect`, `wifi_event.c`, `udhcpc_thread.c` | the connection state machine and its three kinds of writers |
| `HotspotList` | `inetd/wifi.c` (procedures and report), `closeDevice`'s clearing | uses `ScanService` |
| `HotspotOrder` | the sort and the search in `report_wifi_scan_info` | the pointer algorithm, node by node |
| `DeviceService` | what `openDevice` and `closeDevice` are for | abstract: one WiFi device at a time, with the scan thread of `ScanService` |
| `DeviceTable` | `common.c`, `tools.c`, `aw_wifi_on`/`aw_wifi_off` as they see them | implements `DeviceService` |
| `SupplicantLink` | `wifimanager/wifi.c`, `aw_wifi_on`, `aw_wifi_off`, `aw_wifi_get_wifi_state`, the event thread and callback table of `wifi_event.c` | the sockets, and who closes and polls them |
| `CtrlRequest` | `wpa_ctrl_request` and `wifi_command` | threads that share one control connection |
| `NetworkList` | the operations of `wifimanager.c` on saved networks, `wpa_supplicant_conf.c`, `check_connect_timeout` | the list, command by command |
| `MC*` | | instances for TLC |
| `*Proofs` | | theorems and their proofs, one module per model |

How they fit together: `ScanThread` implements `ScanService`; `HotspotList` is a client of
exactly that service (its property `UsesService` says that its two threads keep to it);
`DeviceTable` implements `DeviceService`, whose `running` is the `running` of `ScanService`.
The models of the tools layer look at the same functions from different sides: `Station` at
one connect or disconnect and the threads that write the state machine meanwhile,
`NetworkList` at what a sequence of operations, with their failing commands, does to the
saved networks, `SupplicantLink` at the sockets below both, `CtrlRequest` at a single command.

### Correspondence

A step is what a thread does between two points at which another thread can see or
change the shared state: every lock, unlock, signal, wait and every access to an unlocked
shared variable is a step of its own.

**ScanThread.** `scanner` is the line `wifi_scan_thread` is at. A `pthread_cond_wait` is
two steps, parking (`Park`, `Sleep`) with the mutex given back, and taking the mutex again
(`Unpark`, `Wake`); `Signal` wakes only a thread that is parked, so signals can be lost.
`stop_wifi_scan_thread` is modelled statement by statement, because it writes
`scan_pause` without the mutex and unlocks both mutexes without owning them (`Unlock`
frees a mutex whoever holds it, which is what the default mutexes of the C library do).
`Begin` stands for every call that uses the scan thread, up to its first use of it; calls that
use it alike are one operation:

| operation | calls |
|---|---|
| `scan`, `results` | `aw_wifi_scan`, `aw_wifi_get_scan_results` |
| `connect` | `aw_wifi_connect_ap`, `aw_wifi_connect_ap_key_mgmt`: scan results, then a pause |
| `add` | `aw_wifi_add_network`, `aw_wifi_connect_ap_with_netid`: a pause, and a resume even if refused |
| `disconnect` | `aw_wifi_disconnect_ap`, `aw_wifi_connect_ap_auto`, `aw_wifi_remove_all_networks`, `aw_wifi_list_networks` |
| `get_netid` | `aw_wifi_get_netid`, the one that does not test `gwifi_state` |
| `remove` | `aw_wifi_remove_network`, with its early returns |

`held` is their body under the pause. `scanned` is a history variable.

**Station.** `main` is the line of `wifi_connect_ap_inner`, `aw_wifi_disconnect_ap` or
`disconnect`; `event_thread` that of `handle_event`/`dispatch_event`; `dhcp` counts the
`udhcpc_thread`s at each point. Every read and write of the state machine is a step.
wpa_supplicant is external: commands act at once or fail (`Failed`; nearly all callers ignore
that), events queue up, `Air` is what access points do. Which networks SELECT_NETWORK has
disabled is abstract: a supplicant that may connect may choose any. When it ends, or a command
times out, the event thread ends and leaves `gwifi_state` disabled (`Terminates`), and the wait
of `disconnect` ends through the other branch of `aw_wifi_get_wifi_state`, which may also undo
the `DISABLED` it has just been told. A `pthread_create` that fails is `SpawnFails`, a defect:
nobody looks at it, and L2CONNECTED then has nobody to leave it.

**HotspotList.** A list is an address with what is stored there, or `Free`; use after
free and double free are visible. Of each hotspot its bssid and one comparable strength are
kept. `known` is what a subscriber of `WIFIHOTSPOTSCHANGED` concludes from the three parts
of the event; if the event was computed from a freed list, anything (`NULL`). The pause in
which `connect` and `disconnect` work is `Held`; `Closed` joins the scan thread, as
`ScanService` promises. `closeDevice` disconnects before it joins; that pause has no
step of its own in `Close`, since the list is not touched in it. A report that returns early,
because `get_if_info` has last found the interface gone or wired, is `ReportDropped`; the list
that `get_wifimanager_info` had allocated for it stays behind in `dropped`, for good.
`InfoReturns` leaves the bssid empty when the answer to STATUS has none. Closing a device whose
interface was unplugged, which skips all of this, is `CloseUnknown` of `DeviceTable`.

**HotspotOrder.** `memory` holds nodes with their `next`; `Exchanged` is the code's
exchange of next pointers followed by the copy of whole structures. The inner and
the outer loop and the search are steps.

**DeviceTable.** `openDevice` is split where the system can change under it: loading the
library, reading the interface, waiting for it, switching the library on, and the busy wait with
which `open_device` ends (`ready`). An opening that fails returns before that wait. `closeDevice`
is split at the busy wait of the `disconnect` it begins with (`closing`); the other procedures
are one step each: nothing they read in between changes the outcome. `machine` is as much
of `Station`'s state machine as the two waits see, `clients` counts the `udhcpc_thread`s, which
outlive the association (`Associates`, `LosesLink`, `DhcpEnds`) and which closing does not
join; `DisconnectCut` is a `wifiDisconnect` that the supplicant's end interrupts.
`crashed` is a null or unmapped pointer. `Faults` chooses what may go wrong.

**SupplicantLink.** A session is what one `wifi_connect_on_socket_path` opens; its number
stands for the four descriptors, so that a descriptor closed under a thread that polls it
stays distinguishable from one opened later. `main` is the line of `aw_wifi_on`,
`wifi_close_sockets` (entered from `aw_wifi_off` or `aw_wifi_get_wifi_state`: `closing_for`)
or `aw_wifi_get_wifi_state`; `thread` that of each event thread, which looks at
`monitor_conn` three times in one turn (`LookAtMonitor`, `GetDescriptors`, `ReadMessage`); that
`wifi_close_sockets` closes the connection and then forgets the pointer are two steps
(`CloseMonitor`, `ForgetMonitor`). `OnCreates` may start no event thread, since the answer of
`pthread_create` is not looked at. wpa_supplicant stops in order, is killed, and starts anew.
`alone` and `opened` are history variables.

**CtrlRequest.** The two queues of the control socket hold, for each request and answer, the
thread that waits for it. `overlapped` and `abandoned` are history variables.

**NetworkList.** A step is one command or one search, whose reply is bound to the state of
the list at that moment. `Fails` is an answer FAIL: the command was not carried out. An answer
that comes too late is another matter, because the next command takes it for its own and every
later one is shifted (`ReplyToRequest` of `CtrlRequest`), and so are answers that two threads have
swapped: from `GoesAstray` on, `astray` is set for the rest of the behaviour, each step may
act on any answer (`Strays`; ADD_NETWORK's id may be that of any saved network), and the
properties about networks claim nothing more. `Init` may have networks saved before. `Hits` says
in which networks' lines a name is found. The code of an attempt exists twice, in `wifi_connect_ap_inner` and in
`aw_wifi_add_network`, with the differences the module names. The association is one
choice here (`Associated`, `NotAssociated`, `Refused`): how it comes about is
`Station`'s subject. `SAVE_CONFIG` is no step, since `wifi_command` answers it without
sending it.

## 3. The runs

Every property of a passing run has a mutant of the model (the definitions commented
"Defect") under which TLC finds it violated.

| run | instance | checks |
|---|---|---|
| `scan` | every call that uses the scan thread, failing commands, a supplicant that may end; 10,522 states | a paused scan thread is off the radio (`PauseHolds`); readers exclude the writer of the results (`ResultsExclusive`); nobody meets a destroyed mutex (`SyncObjectsLive`); every call but `remove` leaves scanning unpaused (`PauseEnds`); an answered request has a SCAN behind it (`CompletionHasScan`); calls return, the join included (`OperationReturns`); scanning goes on (`ScansRecur`); refinement of `ScanService` |
| `station` | one network, failing commands, a supplicant that may end, one DHCP thread at a time, limits 1; 561,409 states | CONNECTING and DISCONNECTING never outlive the call that set them, unless the supplicant's end cuts a disconnect short (`OwnStates`); L2CONNECTED always has a thread that will leave it (`L2HasDhcp`) and is left (`L2Ends`); a connect returns (`ConnectReturns`) |
| `hotspots` | all procedures, two hotspots, two strengths, reports that return early, three addresses; 512,432 states | one owner per list, the dropped ones aside (`ListsOwned`); nothing listed on a closed device (`ClosedEmpty`); only `wifiDisconnect` frees a list in use (`InUseKept`); subscribers miss no hotspot (`SubscriberCovers`) and get no new ghosts from an event (`NoNewGhosts`) |
| `hotspot_order` | every scan of up to five hotspots with three strengths; 33,117 states | no hotspot is lost and no ring tied (`NothingLost`); everything behind the head is ordered (`TailOrdered`); the connected one comes first (`ConnectedFirst`) |
| `device_faults` | two WiFi devices on one library, every fault, a name that is a prefix of both and one that is unknown, no associations; 1,568,739 states | types; an opened device loses the reports of its scans only to an `openDevice` of another that is refused, or that switches the library on after the supplicant's end (`ReportsTaken`) |
| `device_two` | two WiFi devices on one library, two Ethernet ones of which one has a library configured, failing ioctls and supplicant, interfaces set down, associations with a DHCP thread; 274,302 states | what points into the library finds it loaded (`LibraryInUse`); `openDevice` returns from both its waits unless the interface is down (`OpenReturns`); refinement of `DeviceService` |
| `link` | two devices, two sessions, a callback table of two, a supplicant that stops, is killed and comes back, commands that time out, an event thread that may not start; 43,288 states | types, which bound the callback table; one event thread listens (`OneListener`); no descriptor is lost unless an event thread ended on its own (`NoLeak`); an enabled library has a callback until the table is full (`Hears`); only `aw_wifi_get_wifi_state`, or a thread that did not start, can leave it enabled and deaf (`DeafOnlyByGetOrCreate`); a thread told to stop stops (`ThreadStops`) |
| `ctrl` | three threads, four requests and answers in the sockets; 50,928 states | every thread gets its own answer until requests overlap or one is given up, and what is reported as failed is not carried out later (`AnswersOwn`); requests return (`RequestReturns`) |
| `networks` | three ids, the names home and myhome, WPA and WEP, networks saved before, every command may fail, answers may go astray; 1,525,146 states | while commands take their own answers: a failed attempt keeps every network and, if none of its commands failed, leaves none (`FailureRestores`); all networks are enabled again (`AllEnabled`); a name is saved once (`SavedOnce`); the latest has the highest priority (`MostRecentFirst`); what is reported as removed is gone (`Removed`); nothing else is removed (`RemovesOnlyItsOwn`); in any case CONNECTING is left (`StateRestored`) |
| `station_disconnect`, `device_close`, `networks_suffix` | the smallest instance that shows it | violated: see [section 6](#6-where-code-and-text-disagree) |

## 4. Bounds and fairness

Bounds, all named in the modules:

- `Station`: `MaxEvents` = 1 queued event keeps the air quiet while one is unread; commands
  may queue more, so reordering with commands still occurs. Both limits on refusals are 1, so
  that reaching a limit is part of short behaviours. One network and one DHCP thread at a
  time keep the liveness properties in reach; with two DHCP threads the invariants hold as well
  (2.7 million states), and the theorems have no such bounds.
- `HotspotList`: two hotspots and two strengths give every case of the comparison (found,
  gone, changed, unchanged, at once). At most two lists are in use at a time and a
  third can be the stale one somebody holds, or one that a report dropped; each dropped list
  takes an address away, so behaviours have few of them.
- `HotspotOrder`: `MaxNumber` = 5 is the least number for which the inner loop runs over
  both neighbours and non-neighbours more than once; three strengths include ties.
- `DeviceTable`: two WiFi devices are the least that share the library, and with them every
  fault is checked. `MaxScanners` = 2 bounds how often the supplicant ends while a device
  is open: one surviving scan thread and the new one. `MaxClients` = 1: one `udhcpc_thread` is
  enough to keep the state busy, or to be left behind by closing; in `device_faults` it is 0, since
  associations have no part in who gets the reports. `device_two` has neither
  unplugged interfaces nor the supplicant's end: both break `LibraryInUse` or the refinement
  (sections 5 and 6).
- `ScanThread` has no bound: its state is finite.
- `SupplicantLink`: `MaxSessions` = 2 sessions of which something is left, one that a thread
  still polls and one that was opened after it; two devices, since each holds what
  `aw_wifi_on` returned and may close what the other opened; a table of two callbacks is full
  after the second opening; `MaxEvents` = 1. `SlowThreads` is FALSE: the event thread takes
  less than the second that closing waits for it. With TRUE `TypeOK`, `Hears` and
  `DeafOnlyByGetOrCreate` remain, as the theorems show.
- `CtrlRequest`: `MaxWaiting` = 4 is one more than the threads, so that an abandoned answer
  and one for each thread fit.
- `NetworkList`: an attempt needs one free id, and two if a second attempt may follow (`Room`).
  With three ids the list may so hold an older network of the name, another's, and the new one
  at once. Networks saved before have priority 0; `MaxPriority` = 2 lets three connects follow
  one another. "home" is found in the
  line of "myhome", not the other way round: one name is ambiguous, the other plain. WEP and
  open networks look alike to the searches, so two kinds of key suffice. The ids are
  symmetric; no liveness is checked here.

Fairness:

- `ScanThread`: weak fairness of each thread's own steps. Every blocking call in them has
  a timeout (a command ten seconds, polls are counted, `pthread_cond_timedwait`).
  Strong fairness of taking a mutex: the scan thread holds `scan_mutex` most of the
  time but gives it back in every round, and the code relies on getting it then. The
  pause of a parked scan thread is not fair: only a signal ends it.
- `Station`: weak fairness of the event thread, the DHCP threads and main inside a call
  (same reason), strong fairness of a polling loop's last turn, since its turns are counted.
  Nothing is assumed of the air: no event has to come.
- `SupplicantLink`: weak fairness of the event threads; nothing of main or the supplicant.
  `CtrlRequest`: weak fairness of a thread in a request, whose `send` and `select` have time
  limits; none of the supplicant.
- `HotspotOrder` and `NetworkList` have no liveness property. `DeviceTable`: weak fairness of the
  call the dispatch loop is in and of `DhcpEnds` (a `udhcpc_thread` looks 400 times), strong
  fairness of `OpenReady`: a state that is settled again and again is so at one of the looks of
  the busy wait. Nothing is assumed of interfaces, associations or the supplicant.
- Clients are never fair: no call has to be made.

Deadlock is checked except where the system may stop: a quiet station (`MCStation*`, where
the bounds stop the air and nobody calls), a finished sort, a crashed process (`MCDeviceTable*`,
`MCSupplicantLink`: the models stop there).

## 5. The proofs

All theorems hold for every value of the constants under the named assumptions of the
modules (types of the constants; `FaultsAssumption`, `OperationsAssumption`,
`ProceduresAssumption` only say which names exist). Further assumptions are in the
statement of a theorem.

**ScanThreadProofs.** `ScanInv` = types ∧ `MutexInv` ∧ `LifetimeInv` ∧ `HeldInv` ∧
`PauseHolds`. The critical point is that `stop_wifi_scan_thread` unlocks a mutex somebody
else may hold. Mutual exclusion therefore cannot be an invariant as it stands:
`MutexInv` claims ownership only while main is not stopping, and `LifetimeInv` says what is
left of the threads when the objects go. `ScanInv` yields `PauseCorrect`,
`ResultsCorrect`, `SyncObjectsCorrect` and, with the step lemma `ServiceStep`,
`Refinement`. `AnswerInv` ties `scan_completed`, the control point and the
history; it yields `CompletionCorrect`. `PauseEndsCorrect` needs that all pausing calls but
`remove` leave through `resume` only. `WaitInv` says, for every wait of the two threads,
what the other one is about to do; it yields `ServedCorrect`: whoever waits for a mutex waits
for an owner that is on its way to unlock it, and a parked scan thread is parked under a pause
or has its signal to come. With two measures, `StopProgressCorrect` (a thread about to be
joined descends, if scanning was not paused when `aw_wifi_off` came) and
`CallProgressCorrect` (a call has at most ten steps), this is what `OperationReturns` rests
on, fairness apart.

**StationProofs.** `OwnInv` for `OwnStates`; `DhcpCounts` (how many threads are where) for
`L2HasDhcpCorrect`: whoever ends an L2CONNECTED state late does end it, and the counts
cannot go below zero. `TypeCorrect`. `CallProgressCorrect` and `DhcpProgressCorrect` are
what `ConnectReturns` and `L2Ends` rest on: an attempt, with the second one that may follow
it, and `disconnect` go forward except where they poll, and the detached threads go forward
always. `OwnStates` allows one exception, a DISCONNECTING that is left when the supplicant's
end disables the library and so ends the wait. `DisconnectToldCorrect` narrows
`station_disconnect` down: as long as the event thread lives (`Listening`), a command that ends
an association queues the event that leads out of DISCONNECTING, which stays queued until
the wait is over; the wait without end needs an association that was lost before the
command, a command that failed, or an event thread that has ended while
`aw_wifi_get_wifi_state` undoes the DISABLED it left.

**HotspotListProofs.** `IInv` = types ∧ `Control` ∧ `ListsOwned` ∧ `ClosedEmpty`.
`ListsOwned` counts what reports have dropped and says that nothing else is lost. `Control`
relates the two threads (no scan under a pause, none without a running device).
`InUseKeptCorrect` and `PrintSafeCorrect` hold for every set of procedures;
`CompareSafeCorrect` assumes that `disconnect` is not among them, which shows that it is
the only cause of the violation of `CompareSafe`. `HostInv` (the scan
thread's pointer is to the device's list, unless that list has been freed under it) carries
`SubscriberCoversCorrect` and `NoNewGhostsCorrect`. `Refinement`: `UsesService`.

**HotspotOrderProofs.** `IInv` = types ∧ `NothingLost` ∧ `Loops` ∧ `Searched`, for scans of
every length and any integers as strengths: `Loops` says where the two pointers stand
and which part of the list is ordered and dominates the rest, `Searched` which part of it
is known not to contain the connected hotspot. It rests on `ExchangeLemma`: the exchange
of two nodes, neighbours or not, swaps their contents and leaves all `next` pointers as
they were. `StrengthsKept` follows from it too. `Terminates`: every step descends in the
lexicographic order of phase, rounds and turns that are left, so the loops end for a scan of
any length; `IInv` bounds the counters and pointers.

**DeviceTableProofs.** Any number of devices, names and prefixes. The invariants are layers,
each under the faults it survives:

| invariant | assumes | yields |
|---|---|---|
| types, `Addressed` (a call works for the device its name stands for) | nothing, every fault | `TypeCorrect`, `ReportsTakenCorrect` |
| `Loaded` (a context has a library, the table is right about devices) | no interface is unplugged | `AnswersTruthfulCorrect` |
| `Steady` (a context and the one scan thread exist together) | `InTurns`: no interface is unplugged; nor does the supplicant end, unless there is one WiFi device only | `LibraryInUseCorrect`, `Refinement`, `ScanLifetime` |
| `Opened` (a library just while there is a context or an opening) | `OpeningsWork`: one WiFi device, whole names, openings that do not fail; interfaces set down and the supplicant's end are allowed | `NoCrashCorrect` |

The assumptions are needed; section 6 names the behaviour that each excludes. In particular
`Refinement` and `ScanLifetime` are false of the code when the supplicant ends and another WiFi
device is opened: the library is switched on a second time, with a second scan thread beside
the first. `NoCrashCorrect` is the counterpart of `device_close`: without what
`OpeningsWork` excludes, the null context does not occur, and the only crash left is that
closing unloads the library under a `udhcpc_thread` (`clients > 0`).
`DeviceIndex` says what the loop of
`get_device_index` finds, the first device whose name begins with what was sent; its
induction is `FirstDevice`, that every non-empty set of numbers has a least element.

**SupplicantLinkProofs.** `IInv` = types ∧ `Control` ∧ `Table` ∧ `OneThread` ∧ `Tidy`, for any
number of devices and sessions. What closing leaves behind depends on where the event thread
is, and that on what `gwifi_state` was when main looked; `OneThread` and `Tidy` tie the three
together as long as closing waits long enough and no thread has ended by itself (the
history `alone`). `HearsCorrect` needs neither. `Lost` adds who may have taken
`monitor_conn` away from a live thread: `CrashInOffCorrect` shows that only the time from the
closing of `monitor_conn` to the end of the second in which off waits for the thread is
dangerous, not the failed attempts of `aw_wifi_on` nor the connection of
`aw_wifi_get_wifi_state`. `MonitorGone` counts as gone a connection that is closed while the
pointer to it is still there. `ToldStaysCorrect` is the safety half of
`ThreadStops`.

**CtrlRequestProofs.** Nothing in an answer says what it answers; the scheme works because the
sockets are empty whenever a request begins. `Sockets` says so, and what is in them
while the one thread in a request is at each line; `IInv` claims it until requests overlap or
one is given up. Without that limit, `OwnNamesCorrect` shows that the model's naming of
answers is sound: a name occurs once at most, and only while its thread waits.
`RequestProgressCorrect` is the safety half of `RequestReturns`.

**NetworkListProofs.** Everything that is claimed of networks is claimed while every answer is
its command's own (`~ astray`); after that the code may overwrite or remove any of them.
`IInv` ties every point of an attempt to what the list has gained and
lost since the operation began (`Kept`, `Gained`), to what the search has found (`Found`:
it still matches when it is removed; `Complete`: nothing else does), to what was added
(`Added`, `Topmost`) and to the list as a whole (`Tidy`: a plain name once per kind of key,
the network being added aside). For any number of ids and names, and any `Hits`.
`RemovesItsOwn` (what a step removes was found, or added by it) is shared by
`RemovesOnlyItsOwnCorrect` and `OthersKeptCorrect`; the latter assumes that no name is found
in another's line, so that a removal of another network has two causes, the search in the text
(`networks_suffix`) and answers that go astray. `StateRestoredCorrect` needs no such condition.

Only model-checked: liveness (`OperationReturns`, `ScansRecur`, `ConnectReturns`, `L2Ends`,
`OpenReturns`, `ThreadStops`, `RequestReturns`). Fairness and ENABLED are out of the
prover's reach; what is proved is the safety half, that nobody waits for what nobody will do
and that steps lead nearer to the end. Every other property of a passing run is the
statement of a theorem, the types included, except that the theorems on `DeviceTable` beyond
its first layer have the assumptions of the table above. The prover cannot use an induction
theorem with an operator parameter; there are no recursive definitions in the models, and
the one induction needed, on the device table, goes by the least counterexample.

Proved beyond the runs, for any constants: the types of every model, `PrintSafe`,
`UsesService`, `AnswersTruthful`, the progress and cause theorems named above, and
`CompareSafe`, `OthersKept` and `NoCrash` without what violates them.

## 6. Where code and text disagree

Shown by runs:

1. `station_disconnect`: `aw_wifi_disconnect_ap` tests the state and later overwrites it with
   DISCONNECTING; if the association ended in between, no event will ever leave that state
   and `disconnect` waits for ever, and with it all clients of the runner. If the association
   is there when the command ends it, and the event thread lives, the event comes
   (`DisconnectToldCorrect`).
2. `device_close`: `closeDevice` after a failed `openDevice` dereferences a null context.
   The run opens a device without a supplicant: `aw_wifi_on` fails, the library stays loaded and
   the context null. `NoCrashCorrect`: where openings do not fail, this does not happen.
3. `networks_suffix`: a saved network whose name ends in the name one connects to is taken for
   the older entry of the same network and removed after the connect ("home" forgets
   "myhome"). `OthersKeptCorrect`: where no name is found in another's line, and every answer is its
   command's own, it does not happen.

Met while modelling; the models contain the behaviour, and the passing properties are
stated so that they are true of it:

- `aw_wifi_remove_network` announces "resume scan thread" but its early returns skip it;
  scanning stays paused (`RemoveReturnsEarly`; excepted in `PauseEnds`). If scanning is
  paused when `aw_wifi_off` comes, its one signal can fall between the scan thread's test
  of `scan_pause` and its wait, and the join never returns (excepted in
  `OperationReturns`). inetd does not call it.
- "run scan immediately": a request may be answered by the end of a round that began before
  it (`CompletionHasScan` admits a SCAN in progress).
- After "auto disconnect (ap shutdown)" (`wifi_event.c:39`) the DHCP thread of the lost
  association finds an address and sets CONNECTED (`udhcpc_thread.c:107`, `DhcpSets`); no event
  corrects it.
- list_mutex is "for hotspots list" (`inetd.h:151`), but `report_wifi_scan_info` compares with
  the list before it takes the mutex, and `wifiDisconnect` may free it then. The theorem
  `CompareSafeCorrect` shows that nothing else can.
- "signal strength for current connecting network" (`inetd.h:149`): `signal` keeps the value of
  the hotspot connected before when the list has not got the new one (`wifi.c:413`).
- `aw_wifi_off` may close `monitor_conn` after the event thread has tested it and before it uses
  it (`NoUseAfterClose` of `SupplicantLink` does not hold; `CrashInOffCorrect` says when).
- `aw_wifi_get_wifi_state` writes `gwifi_state` after a test that the end of the event thread may
  have made untrue: the library is then enabled and hears nothing, and `aw_wifi_on` refuses
  to repair it (`GetWrites`).
- An event thread ends whenever one command times out; the next opening overwrites the
  connections it leaves open (`CommandTimesOut`, `alone`).
- The callback index is never reset: after 1024 openings events reach nobody (`AddCallback`).
- Replies carry no tag: requests of two threads may swap answers, and after one timeout every
  request receives the answer to the one before (`ReplyToRequest` of `CtrlRequest` does
  not hold). A connect that is shifted in this way takes another text, such as a priority, for
  the id of the network it has added, and then renames or removes the network of that id
  (`GoesAstray`, `Strays`, `Add`).
- No caller of `pthread_create` looks at its answer. Without the event thread the library is
  enabled and deaf (`OnCreates`, `DeafOnlyByGetOrCreate`); without a `udhcpc_thread` L2CONNECTED
  lasts for ever (`SpawnFails`). `Station` and `ScanThread` assume that threads are created.
- The end of the supplicant ends the wait of `disconnect` and leaves DISCONNECTING behind
  (`OwnStates`); and `aw_wifi_get_wifi_state`, which that wait calls, may write over the DISABLED
  that the event thread has just set (`Terminates`).
- After such an end, `openDevice` hangs in its busy wait if another handle has kept the library
  in memory, and with it the DISCONNECTING: no event is due that would leave that state
  (`DisconnectCut`, `OpenReady`). `OpenReturns` is about a supplicant that lives.
- `closeDevice` unloads the library under a `udhcpc_thread` that is still looking for an address;
  nothing joins or counts these threads (`Unloaded`; the `clients > 0` of `NoCrashCorrect`).
- `aw_wifi_get_netid` does not test `gwifi_state`: called when the library is off it would pause a
  scan thread whose mutexes are destroyed. No procedure of inetd calls it.
- `report_wifi_scan_info` returns early for an interface that is gone or wired, and nobody frees
  the list that was allocated for it (`ReportDropped`).
- `aw_wifi_add_network` answers 0 when the link is lost for another reason than a password or a
  timeout, and keeps both the new network and the old one; refused because of the busy
  state or of the name, it sets DISCONNECTED while somebody else is connecting.
- `aw_wifi_connect_ap_with_netid` leaves CONNECTING behind when SELECT_NETWORK fails, and never
  enables the networks again that SELECT_NETWORK disabled.
- `aw_wifi_remove_network` answers 0 when LIST_NETWORKS fails.
- `wpa_conf_is_ap_exist` answers 0, not the -1 its comment announces, for a network that is not
  there.
- SAVE_CONFIG is never sent: `wifi_command` answers it with 0.
- Names with characters beyond ASCII are saved coded and looked for in a notation the list does
  not use, so that each connect adds one more network.
- The event thread takes a LIST_NETWORKS that fails for the answer that another network is
  connected, and disconnects the one that was asked for (`CheckNetwork`).
- `authentication_fail_count` is never reset; from the second wrong key of a session on, one
  rejection ends an attempt.
- `wifiConnect` reads `first_hotspot` before it locks `list_mutex` and may search a freed
  list (`TakePointer`, `LockWalk`, `Walk`).
- `closeDevice` leaves `bssid`; the next session takes that hotspot for the connected one.
- `wifiDisconnect` and `closeDevice` clear the list without an event; subscribers keep
  hotspots that are not listed.
- "according to signal strength, order the list": the first hotspot of a scan is never
  compared.
- `openDevice` after a failed `openDevice` answers ERR_NO without trying.
- "if(loop > 200) break": `loop` is never incremented, the wait for the interface has no end
  of its own.
- `closeDevice` never sets an Ethernet interface down: the device has no library, so it
  counts as closed.
- A refused `openDevice` of a second WiFi device takes over the reports of the first
  (`OpenFails` sets `callback`), as does a successful one after the supplicant's end, which adds a
  scan thread too. `ReportsTaken` says that there is no third way.
- `closeDevice` of a device whose interface was unplugged unloads the library under its
  threads (`CloseUnknown`).
- `get_device_index` compares as many characters as the client sent: a prefix matches.

## 7. What is not modelled

- JSON text, the fixed buffers of answers and events, logging.
- `init_from_etc_file` and the hiBus registration in `main.c`; its clean-up is unreachable.
- The Ethernet and mobile procedures (empty functions), `is_if_changed` (unused), code
  under `#ifdef gengyue` with `wifi_on_check_connect_timeout`, which only it starts.
- The helper files vendored from hostap (`common.c`, `os_unix.c`, `wpa_debug.c`,
  `ieee802_11_defs.h`, ...), which keep no state of the program, the test client and the web
  pages; in `wpa_ctrl.c` the UDP and Android variants.
- The parsing of LIST_NETWORKS and STATUS beyond what a search may find (`Hits`), the recognition
  of event texts, the conversion of ssids, the length checks of passwords. A password of the
  wrong length is a way out of `Set`.
- `get_key_mgmt`'s reading of a scan: `Connect` may be refused or make one attempt or two.
- The creation of configuration files by `wifi_start_supplicant`.
- Undefined behaviour after a crash: the models stop there. Reads of a freed list are
  nondeterministic.

## 8. The plan

What is left, in this order; each module with an MC module, runs and proofs of its own.

1. `Inetd`: `DeviceTable` × `HotspotList` × `ScanService`, with one instance per device:
   reports of a device that another opening has taken over.
2. `Station` with `CtrlRequest` below it: what a swapped answer does to a connect.
3. `SsidCodec` (`change_string`, `ssid_app_to_wpa_conf`): decoding and encoding over bounded
   strings of byte classes.
4. `DeviceConfig` (`init_from_etc_file`): the table read from `inetd.cfg`.
5. Theorems: `CrashInOff` for slow threads, where a later opening or `aw_wifi_get_wifi_state`
   may take the connection away as well.
