----------------------------- MODULE DeviceTable -----------------------------
(***************************************************************************)
(* The device table of the inetd runner and the procedures that open and   *)
(* close its devices (common.c, tools.c), down to aw_wifi_on and           *)
(* aw_wifi_off.  Procedures run one at a time, on the dispatch loop; what  *)
(* changes under them is the system: interfaces appear, disappear and are  *)
(* set down, networks associate and are lost, udhcpc_threads look for      *)
(* addresses, and the event thread of the library learns that the          *)
(* supplicant has gone.                                                    *)
(*                                                                         *)
(* A device is its index in the table.  Addresses, speed and priority are  *)
(* left out, status "up" stands for RUNNING as well, and a request with    *)
(* malformed JSON or without a name is answered like one for an unknown    *)
(* device: with an error and no effect.                                    *)
(*                                                                         *)
(* A definition commented "Defect" is not part of the specification: it is *)
(* the one below it with a plausible mistake, for testing the properties.  *)
(***************************************************************************)
EXTENDS Integers

CONSTANTS
  DeviceNumber,
  Names,         \* names of interfaces, and others clients may send
  ifname,        \* of each device
  Kind,          \* of each device: what the ioctls make of its interface
  Prefixes,      \* <<n, m>>: n is a prefix of m, in the sense of strncasecmp
  Configured,    \* the devices for which inetd.cfg names a library that exists
  Faults,        \* what may go wrong
  MaxScanners,   \* bound: the supplicant stops with fewer scan threads only
  MaxClients,    \* bound: a network associates with fewer udhcpc_threads only
  NULL

Devices == 1 .. DeviceNumber

AllFaults == {"ifconfig",     \* the ioctls of ifconfig_helper fail
              "supplicant",   \* wpa_supplicant is not there
              "terminate",    \* wpa_supplicant, or its answers, stop coming
              "down",         \* somebody else sets interfaces down
              "unplug"}       \* interfaces disappear and return

ASSUME DeviceAssumption ==
  /\ DeviceNumber \in Nat
  /\ ifname \in [Devices -> Names]
  /\ Kind \in [Devices -> {"wifi", "ethernet"}]
  /\ Configured \subseteq Devices
  /\ MaxScanners \in Nat
  /\ MaxClients \in Nat
  /\ NULL \notin Devices \cup Names

ASSUME FaultsAssumption == Faults \subseteq AllFaults

VARIABLES
  link,          \* the interface of each device, in the kernel
  type, status,  \* what get_if_info last made of it
  lib_handle,    \* whether the device has one
  Ops, context,  \* whether its WiFi_device has them (they need not be valid)
  leaked,        \* a handle of the WiFi library was lost, it stays loaded
  gwifi_state,   \* the library's "enabled" or "disabled"
  callback,      \* the device name the library will report scans for
  scanners,      \* scan threads of the library
  machine,       \* gwifi_machine_state; "settled" is CONNECTED or DISCONNECTED
  clients,       \* its udhcpc_threads
  main,          \* where openDevice or closeDevice is, "idle", or "crashed"
  name, index,   \* its locals
  reply          \* the last answer

table   == <<type, status>>
loaded  == <<lib_handle, Ops, leaked>>
library == <<gwifi_state, callback, scanners, machine, clients>>
locals  == <<name, index>>
vars    == <<link, type, status, lib_handle, Ops, context, leaked, gwifi_state, callback,
             scanners, machine, clients, main, name, index, reply>>

\* openDevice before the library is on, and all of it.
Opening   == {"loaded", "wait", "on"}
InOpen    == Opening \cup {"ready"}
InProcess == InOpen \cup {"closing"}

Codes == {"ok", "no_device", "device_type", "load_library", "not_wifi", "not_opened",
          "open_wifi", "open_ethernet"}

Replies == [procedure : {"open", "close", "status", "use"},
            device    : Devices \cup {NULL},
            code      : Codes]

TypeOK ==
  /\ link \in [Devices -> {"absent", "down", "up"}]
  /\ type \in [Devices -> {"unknown", "wifi", "ethernet"}]
  /\ status \in [Devices -> {"uncertain", "down", "up"}]
  /\ lib_handle \in [Devices -> BOOLEAN]
  /\ Ops \in [Devices -> BOOLEAN]
  /\ context \in [Devices -> BOOLEAN]
  /\ leaked \in BOOLEAN
  /\ gwifi_state \in {"disabled", "enabled"}
  /\ callback \in Names \cup {NULL}
  /\ scanners \in Nat
  /\ machine \in {"settled", "l2connected", "disconnecting"}
  /\ clients \in Nat
  /\ main \in InProcess \cup {"idle", "crashed"}
  /\ name \in Names \cup {NULL}
  /\ index \in Devices \cup {NULL}
  /\ reply \in Replies \cup {NULL}
  /\ main \in InProcess => name # NULL /\ index # NULL
  /\ main = "idle" => name = NULL /\ index = NULL

\* main() has filled the table; nothing is opened.
Init ==
  /\ link \in [Devices -> {"down", "up"}]
  /\ type = Kind
  /\ status = link
  /\ lib_handle = [d \in Devices |-> FALSE]
  /\ Ops = [d \in Devices |-> FALSE]
  /\ context = [d \in Devices |-> FALSE]
  /\ leaked = FALSE
  /\ gwifi_state = "disabled"
  /\ callback = NULL
  /\ scanners = 0
  /\ machine = "settled"
  /\ clients = 0
  /\ main = "idle"
  /\ name = NULL
  /\ index = NULL
  /\ reply = NULL

(***************************************************************************)
(* Helpers of tools.c.                                                     *)
(***************************************************************************)

\* The first device whose name begins with what the client sent.
get_device_index(n) ==
  LET found == {d \in Devices : <<n, ifname[d]>> \in Prefixes}
  IN  IF found = {} THEN NULL ELSE CHOOSE d \in found : \A e \in found : d <= e

TypeOf(d)   == IF link[d] = "absent" THEN "unknown" ELSE Kind[d]

\* Defect: an absent interface is not "uncertain".
StatusOfPresent(d) == link[d]

StatusOf(d) == IF link[d] = "absent" THEN "uncertain" ELSE link[d]

get_if_info(d) ==
  /\ type'   = [type EXCEPT ![d] = TypeOf(d)]
  /\ status' = [status EXCEPT ![d] = StatusOf(d)]

Interfaces(n) == {d \in Devices : ifname[d] = n /\ link[d] # "absent"}

\* ifconfig_helper(n, 1) succeeds, or fails.
RaiseInterface(n) == \E d \in Interfaces(n) : link' = [link EXCEPT ![d] = "up"]

CannotRaise(n) == (Interfaces(n) = {} \/ "ifconfig" \in Faults) /\ UNCHANGED link

\* The WiFi library is in memory.
Mapped == leaked \/ \E d \in Devices : lib_handle[d]

\* Unloaded with its last handle, the library starts over the next time.
Unload ==
  /\ machine' = IF Mapped' THEN machine ELSE "settled"
  /\ callback' = IF Mapped' THEN callback ELSE NULL

\* The loops "wifi state busing,waiting" end: the state is settled, or the library
\* is disabled, and aw_wifi_get_wifi_state asks the supplicant instead.
NotBusy == machine = "settled" \/ gwifi_state = "disabled"

(***************************************************************************)
(* Answers.                                                                *)
(***************************************************************************)

Answer(procedure, d, code) ==
  /\ main' = "idle"
  /\ name' = NULL
  /\ index' = NULL
  /\ reply' = [procedure |-> procedure, device |-> d, code |-> code]

\* A call of a procedure for a device of the table is dispatched.
Call(n, d) == main = "idle" /\ d = get_device_index(n) /\ d # NULL

NoDevice(procedure, n) ==
  /\ main = "idle" /\ get_device_index(n) = NULL
  /\ Answer(procedure, NULL, "no_device")
  /\ UNCHANGED <<link, table, loaded, context, library>>

(***************************************************************************)
(* openDevice.                                                             *)
(***************************************************************************)

\* "whether openned": a device with a library is taken to be opened.
OpenAgain(n, d) ==
  /\ Call(n, d) /\ lib_handle[d]
  /\ Answer("open", d, "ok")
  /\ UNCHANGED <<link, table, loaded, context, library>>

OpenUnloadable(n, d) ==
  /\ Call(n, d) /\ ~ lib_handle[d]
  /\ d \notin Configured
  /\ Answer("open", d, "load_library")
  /\ UNCHANGED <<link, table, loaded, context, library>>

\* load_device_library keeps the handle of a device it takes for WiFi only.
OpenLoad(n, d) ==
  /\ Call(n, d) /\ ~ lib_handle[d]
  /\ d \in Configured
  /\ lib_handle' = [lib_handle EXCEPT ![d] = type[d] = "wifi"]
  /\ Ops' = [Ops EXCEPT ![d] = @ \/ type[d] = "wifi"]
  /\ leaked' = (leaked \/ (Kind[d] = "wifi" /\ type[d] # "wifi"))
  /\ main' = "loaded"
  /\ name' = n
  /\ index' = d
  /\ UNCHANGED <<link, table, context, library, reply>>

\* get_if_info, and then by its type: nothing can be done ...
OpenUnknown ==
  /\ main = "loaded" /\ TypeOf(index) = "unknown"
  /\ get_if_info(index)
  /\ Answer("open", index, "device_type")
  /\ UNCHANGED <<link, loaded, context, library>>

\* ... an Ethernet interface is set up ...
OpenEthernet ==
  /\ main = "loaded" /\ TypeOf(index) = "ethernet"
  /\ get_if_info(index)
  /\ \/ RaiseInterface(name) /\ Answer("open", index, "ok")
     \/ CannotRaise(name) /\ Answer("open", index, "open_ethernet")
  /\ UNCHANGED <<loaded, context, library>>

\* ... and so is a WiFi interface, unless it is up already.
OpenWifi ==
  /\ main = "loaded" /\ TypeOf(index) = "wifi"
  /\ get_if_info(index)
  /\ \/ /\ IF StatusOf(index) = "up" THEN UNCHANGED link ELSE RaiseInterface(name)
        /\ main' = "wait"
        /\ UNCHANGED <<locals, reply>>
     \/ /\ StatusOf(index) # "up"
        /\ CannotRaise(name)
        /\ Answer("open", index, "open_wifi")
  /\ UNCHANGED <<loaded, context, library>>

\* Defect: the status is tested, but not read again.
OpenWaitBlind ==
  /\ main = "wait"
  /\ main' = IF status[index] = "up" THEN "on" ELSE "wait"
  /\ UNCHANGED <<link, table, loaded, context, library, locals, reply>>

\* The loop that waits for the interface: its counter is never incremented.
OpenWait ==
  /\ main = "wait"
  /\ get_if_info(index)
  /\ main' = IF StatusOf(index) = "up" THEN "on" ELSE "wait"
  /\ UNCHANGED <<link, loaded, context, library, locals, reply>>

\* The operations are missing: a null pointer is called.
OpenCrashes ==
  /\ main = "on" /\ ~ Ops[index]
  /\ main' = "crashed"
  /\ UNCHANGED <<link, table, loaded, context, library, locals, reply>>

\* A supplicant answers for the interface.
SupplicantFor(n) == Interfaces(n) # {}

\* Defect: the library is switched on although it is on already.
OpenOnTwice ==
  /\ main = "on" /\ Ops[index]
  /\ SupplicantFor(name)
  /\ callback' = name
  /\ gwifi_state' = "enabled"
  /\ scanners' = scanners + 1
  /\ context' = [context EXCEPT ![index] = TRUE]
  /\ main' = "ready"
  /\ UNCHANGED <<link, table, loaded, machine, clients, locals, reply>>

\* open_device and aw_wifi_on: the library is off, and is connected to the
\* supplicant.
OpenOn ==
  /\ main = "on" /\ Ops[index]
  /\ gwifi_state = "disabled" /\ SupplicantFor(name)
  /\ callback' = name
  /\ gwifi_state' = "enabled"
  /\ scanners' = scanners + 1
  /\ context' = [context EXCEPT ![index] = TRUE]
  /\ main' = "ready"
  /\ UNCHANGED <<link, table, loaded, machine, clients, locals, reply>>

\* aw_wifi_on fails, having set the callback, and open_device returns without its
\* busy wait; the library stays loaded.
OpenFails ==
  /\ main = "on" /\ Ops[index]
  /\ gwifi_state # "disabled" \/ ~ SupplicantFor(name) \/ "supplicant" \in Faults
  /\ callback' = name
  /\ context' = [context EXCEPT ![index] = FALSE]
  /\ Answer("open", index, "open_wifi")
  /\ UNCHANGED <<link, table, loaded, gwifi_state, scanners, machine, clients>>

\* The busy wait of open_device: a saved network may have associated already.
OpenReady ==
  /\ main = "ready" /\ NotBusy
  /\ Answer("open", index, "ok")
  /\ UNCHANGED <<link, table, loaded, context, library>>

(***************************************************************************)
(* closeDevice.                                                            *)
(***************************************************************************)

\* "whether closed": a device without a library is taken to be closed.
CloseClosed(n, d) ==
  /\ Call(n, d) /\ ~ lib_handle[d]
  /\ Answer("close", d, "ok")
  /\ UNCHANGED <<link, table, loaded, context, library>>

\* disconnect does nothing for a null context; close_device dereferences it.
CloseCrashes(n, d) ==
  /\ Call(n, d) /\ lib_handle[d] /\ type[d] = "wifi"
  /\ ~ context[d]
  /\ main' = "crashed"
  /\ UNCHANGED <<link, table, loaded, context, library, locals, reply>>

\* disconnect: aw_wifi_disconnect_ap leaves an association for DISCONNECTING.
CloseBegins(n, d) ==
  /\ Call(n, d) /\ lib_handle[d] /\ type[d] = "wifi"
  /\ context[d]
  /\ \/ UNCHANGED machine
     \/ gwifi_state = "enabled" /\ machine # "disconnecting" /\ machine' = "disconnecting"
  /\ main' = "closing"
  /\ name' = n
  /\ index' = d
  /\ UNCHANGED <<link, table, loaded, context, gwifi_state, callback, scanners, clients, reply>>

\* After the busy wait of disconnect, aw_wifi_off joins a thread joined before.
CloseJoinsTwice ==
  /\ main = "closing" /\ NotBusy
  /\ scanners = 0
  /\ main' = "crashed"
  /\ UNCHANGED <<link, table, loaded, context, library, locals, reply>>

\* The library has been unloaded; threads of it that are left run into nothing.
Unloaded(d, code) ==
  /\ UNCHANGED clients
  /\ IF ~ Mapped' /\ (scanners' > 0 \/ clients > 0)
     THEN main' = "crashed" /\ UNCHANGED <<locals, reply>>
     ELSE Answer("close", d, code)

\* Defect: the device keeps its context.
CloseWifiKeepsContext ==
  /\ main = "closing" /\ NotBusy
  /\ scanners > 0
  /\ scanners' \in 0 .. scanners - 1
  /\ gwifi_state' = "disabled"
  /\ Ops' = [Ops EXCEPT ![index] = FALSE]
  /\ lib_handle' = [lib_handle EXCEPT ![index] = FALSE]
  /\ get_if_info(index)
  /\ UNCHANGED <<link, context, leaked>>
  /\ Unload
  /\ Unloaded(index, "ok")

\* The library is switched off, with the scan thread joined (one of them: the
\* others end in their own time), and unloaded.
CloseWifi ==
  /\ main = "closing" /\ NotBusy
  /\ scanners > 0
  /\ scanners' \in 0 .. scanners - 1
  /\ gwifi_state' = "disabled"
  /\ context' = [context EXCEPT ![index] = FALSE]
  /\ Ops' = [Ops EXCEPT ![index] = FALSE]
  /\ lib_handle' = [lib_handle EXCEPT ![index] = FALSE]
  /\ get_if_info(index)
  /\ UNCHANGED <<link, leaked>>
  /\ Unload
  /\ Unloaded(index, "ok")

\* A device whose interface was found absent since: only its library goes.  (The
\* branches for Ethernet and mobile are never taken: such a device has no library.)
CloseUnknown(n, d) ==
  /\ Call(n, d) /\ lib_handle[d] /\ type[d] = "unknown"
  /\ status' = [status EXCEPT ![d] = "down"]
  /\ lib_handle' = [lib_handle EXCEPT ![d] = FALSE]
  /\ UNCHANGED <<link, type, Ops, leaked, context, scanners>>
  /\ gwifi_state' = IF Mapped' THEN gwifi_state ELSE "disabled"
  /\ Unload
  /\ Unloaded(d, "device_type")

(***************************************************************************)
(* The other procedures.                                                   *)
(***************************************************************************)

\* getNetworkDevicesStatus reads all interfaces again.
GetStatus ==
  /\ main = "idle"
  /\ type' = [d \in Devices |-> TypeOf(d)]
  /\ status' = [d \in Devices |-> StatusOf(d)]
  /\ Answer("status", NULL, "ok")
  /\ UNCHANGED <<link, loaded, context, library>>

\* What a WiFi procedure asks before it uses the library.
Refusal(d) ==
  IF type[d] # "wifi" THEN "not_wifi"
  ELSE IF ~ lib_handle[d] THEN "load_library"
  ELSE IF ~ context[d] THEN "not_opened" ELSE "ok"

Refuse(n, d) ==
  /\ Call(n, d) /\ Refusal(d) # "ok"
  /\ Answer("use", d, Refusal(d))
  /\ UNCHANGED <<link, table, loaded, context, library>>

\* wifiStartScanHotspots sets an interface up that was down when last read.
Use(n, d) ==
  /\ Call(n, d) /\ Refusal(d) = "ok"
  /\ \/ /\ IF status[d] = "up" THEN UNCHANGED link ELSE RaiseInterface(n)
        /\ Answer("use", d, "ok")
     \/ /\ status[d] # "up"
        /\ CannotRaise(n)
        /\ Answer("use", d, "open_wifi")
  /\ UNCHANGED <<table, loaded, context, library>>

\* The supplicant ends in the middle of a wifiDisconnect, which returns and leaves
\* DISCONNECTING behind.
DisconnectCut(n, d) ==
  /\ Call(n, d) /\ Refusal(d) = "ok"
  /\ "terminate" \in Faults /\ gwifi_state = "enabled"
  /\ scanners < MaxScanners
  /\ gwifi_state' = "disabled"
  /\ machine' = "disconnecting"
  /\ Answer("use", d, "ok")
  /\ UNCHANGED <<link, table, loaded, context, callback, scanners, clients>>

(***************************************************************************)
(* The system.                                                             *)
(***************************************************************************)

Changes(d, from, to) ==
  /\ link[d] \in from
  /\ link' = [link EXCEPT ![d] = to]
  /\ UNCHANGED <<table, loaded, context, library, main, locals, reply>>

GoesDown(d) == "down" \in Faults /\ Changes(d, {"up"}, "down")
Unplugged(d) == "unplug" \in Faults /\ Changes(d, {"down", "up"}, "absent")
Plugged(d) == "unplug" \in Faults /\ Changes(d, {"absent"}, "down")

\* The event thread ends on CTRL-EVENT-TERMINATING; the scan thread goes on.
Terminates ==
  /\ "terminate" \in Faults /\ gwifi_state = "enabled" /\ main # "crashed"
  /\ scanners < MaxScanners
  /\ gwifi_state' = "disabled"
  /\ UNCHANGED <<link, table, loaded, context, callback, scanners, machine, clients, main,
                 locals, reply>>

\* CTRL-EVENT-CONNECTED: an association, asked for or not, gets a udhcpc_thread.
Associates ==
  /\ gwifi_state = "enabled" /\ main # "crashed"
  /\ clients < MaxClients
  /\ machine' = "l2connected"
  /\ clients' = clients + 1
  /\ UNCHANGED <<link, table, loaded, context, gwifi_state, callback, scanners, main, locals,
                 reply>>

\* CTRL-EVENT-DISCONNECTED.
LosesLink ==
  /\ gwifi_state = "enabled" /\ main # "crashed"
  /\ machine # "settled"
  /\ machine' = "settled"
  /\ UNCHANGED <<link, table, loaded, context, gwifi_state, callback, scanners, clients, main,
                 locals, reply>>

\* A udhcpc_thread ends, with an address or after 400 looks for one.
DhcpEnds ==
  /\ clients > 0 /\ main # "crashed"
  /\ clients' = clients - 1
  /\ machine' = "settled"
  /\ UNCHANGED <<link, table, loaded, context, gwifi_state, callback, scanners, main, locals,
                 reply>>

(***************************************************************************)
(* The specification.                                                      *)
(***************************************************************************)

OpenSteps == OpenUnknown \/ OpenEthernet \/ OpenWifi \/ OpenWait \/ OpenCrashes \/ OpenOn
             \/ OpenFails

CloseSteps == CloseJoinsTwice \/ CloseWifi

Calls ==
  \E n \in Names :
    \/ \E procedure \in {"open", "close", "use"} : NoDevice(procedure, n)
    \/ \E d \in Devices :
         \/ OpenAgain(n, d) \/ OpenUnloadable(n, d) \/ OpenLoad(n, d)
         \/ CloseClosed(n, d) \/ CloseCrashes(n, d) \/ CloseBegins(n, d) \/ CloseUnknown(n, d)
         \/ Refuse(n, d) \/ Use(n, d) \/ DisconnectCut(n, d)

System == \/ Terminates \/ Associates \/ LosesLink \/ DhcpEnds
          \/ \E d \in Devices : GoesDown(d) \/ Unplugged(d) \/ Plugged(d)

Next == Calls \/ GetStatus \/ OpenSteps \/ OpenReady \/ CloseSteps \/ System

Spec == Init /\ [][Next]_vars

\* The dispatch loop goes on with the call it is in, udhcpc_threads end, and a state
\* that is settled again and again is so at one of the looks of the busy wait.
FairSpec == Spec /\ WF_vars(OpenSteps) /\ WF_vars(DhcpEnds) /\ SF_vars(OpenReady)

(***************************************************************************)
(* Properties.                                                             *)
(***************************************************************************)

\* Whatever points into the WiFi library finds it there: a context has its
\* operations and its library, and a scan thread runs in mapped code.
LibraryInUse ==
  /\ \A d \in Devices : context[d] => lib_handle[d] /\ Ops[d]
  /\ scanners > 0 => Mapped

\* No procedure goes through a null pointer ("if the device is openned", says
\* closeDevice before it calls the library).
NoCrash == main # "crashed"

\* "whether openned" and "whether closed": openDevice answers ERR_NO only for a
\* WiFi device with a library (which may be all that a failed attempt has left),
\* and closeDevice only when neither library nor context is left.
AnswersTruthful ==
  main = "idle" /\ reply # NULL =>
    /\ (reply.procedure = "open" /\ reply.code = "ok" /\ Kind[reply.device] = "wifi"
          => lib_handle[reply.device])
    /\ (reply.procedure = "close" /\ reply.code = "ok"
          => ~ lib_handle[reply.device] /\ ~ context[reply.device])

\* The library reports its scans under the name of this device.
Reported(d) == get_device_index(callback) = d

\* An opened device loses the reports ("device_name" of the callback) to another's
\* openDevice only, and only if that is refused because the library is in use, or
\* if the supplicant has ended and the library is switched on anew.
ReportsTaken ==
  [][\A d \in Devices :
       (context[d] /\ context'[d] /\ lib_handle'[d] /\ Reported(d) /\ ~ Reported(d)')
         => /\ main = "on" /\ index # d
            /\ reply'.code = "open_wifi" \/ gwifi_state = "disabled"]_vars

\* While the supplicant lives, openDevice returns from both its waits, for the
\* interface and for a state that is not busy, unless the interface is set down or
\* away again and again: "if(loop > 200) break", to end the first wait, never does.
OpenReturns ==
  main \in InOpen ~> main \notin InOpen \/ (main = "wait" /\ link[index] # "up")

\* The devices implement DeviceService: one is opened at a time, with the one
\* scan thread.
Service == INSTANCE DeviceService WITH
  opened  <- {d \in Devices : context[d]},
  running <- scanners > 0

ImplementsService == Service!Spec
=============================================================================
