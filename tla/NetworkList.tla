----------------------------- MODULE NetworkList -----------------------------
(***************************************************************************)
(* The list of saved networks in wpa_supplicant and the operations of      *)
(* libwifimanager on it: connect_ap and add_network, which add a network,  *)
(* wait for the association and forget the older network of that name,     *)
(* connect by network id, removal, and the queries.  One thread does this; *)
(* what makes it hard is that an operation is a dozen commands, each of    *)
(* which may fail or take another one's answer, and that networks are      *)
(* found by searching the text of the list for their name.                 *)
(*                                                                         *)
(* The list's order is abstract: a search takes one of the networks that   *)
(* match, and a loop over the list may stop after any of them.             *)
(*                                                                         *)
(* A definition commented "Defect" is not part of the specification: it is *)
(* the one below it with a plausible mistake, for testing the properties.  *)
(***************************************************************************)
EXTENDS Integers, FiniteSets

CONSTANTS
  Ids,           \* network ids of wpa_supplicant
  Ssids,         \* names of access points
  Hits,          \* <<s, t>>: looking for s stops at the line of a network named t
  KeyMgmts,      \* the kinds of key asked for, of WIFIMG_NONE, _WPA_PSK and _WEP
  None,          \* no id, no name, no network
  CommandsFail,  \* whether a command may fail, and answers may go astray
  MaxPriority    \* bound: no attempt begins with a higher priority in the list

KeyTypes == {"WPA-PSK", "NONE", "default"}
Network == [ssid : Ssids \cup {None}, key_mgmt : KeyTypes, priority : Nat]

ASSUME IdsAssumption   == IsFiniteSet(Ids) /\ None \notin Ids
ASSUME SsidsAssumption == None \notin Ssids /\ None \notin Network /\ Hits \subseteq Ssids \X Ssids
ASSUME KeyMgmtsAssumption == KeyMgmts \subseteq {"NONE", "WPA_PSK", "WEP"}
ASSUME BoundsAssumption == CommandsFail \in BOOLEAN /\ MaxPriority \in Nat

VARIABLES
  networks, enabled,   \* wpa_supplicant: the list, the networks it may choose
  machine_state,       \* as Station has it, without DISCONNECTING
  main, op,            \* where the main thread is; the operation it is in or was in
  ssid, key,           \* what it was called with
  again,               \* a second attempt, with WEP, is left
  netid1, netid2,      \* the network found, the network added or chosen
  ret,
  before,              \* history: the networks there were when op began
  astray,              \* commands take answers that are not their own
  failed, refused,     \* history: a command of op failed; op ended by the link's loss
  untidy               \* history: either of them ever

list    == <<networks, enabled>>
call    == <<op, ssid, key, before>>
history == <<astray, failed, refused, untidy>>
vars == <<networks, enabled, machine_state, main, op, ssid, key, again,
          netid1, netid2, ret, before, astray, failed, refused, untidy>>

Attempts == {"connect", "add"}
InAttempt == {"search", "add", "set", "select", "wait", "forget", "disable", "drop", "enable_all"}
Saved == {n \in Ids : networks[n] # None}

Flags ==
  /\ again \in BOOLEAN
  /\ astray \in BOOLEAN /\ failed \in BOOLEAN /\ refused \in BOOLEAN /\ untidy \in BOOLEAN

TypeOK ==
  /\ networks \in [Ids -> Network \cup {None}]
  /\ enabled \subseteq Saved
  /\ machine_state \in {"DISCONNECTED", "CONNECTING", "L2CONNECTED", "CONNECTED"}
  /\ main \in {"idle", "pick", "pick_wait", "find", "remove", "remove_all"} \cup InAttempt
  /\ op \in {"none", "with_netid", "remove", "remove_all", "auto"} \cup Attempts
  /\ ssid \in Ssids \cup {None} /\ key \in {"NONE", "WPA_PSK", "WEP"}
  /\ netid1 \in Ids \cup {None} /\ netid2 \in Ids \cup {None}
  /\ ret \in {"none", "ok", "error"}
  /\ before \subseteq Ids
  /\ Flags
  \* while an attempt handles the network it has added, that network is there
  /\ ~ astray /\ main \in {"set", "select", "wait", "forget", "disable", "drop"} =>
       netid2 \in Saved \ before /\ netid2 # netid1
  /\ main \in InAttempt => op \in Attempts
  /\ main \in InAttempt \ {"enable_all"} \/ again => ssid \in Ssids

\* aw_wifi_on with a wpa_supplicant.conf that has each name once per kind of key,
\* and no priorities.
Init ==
  /\ networks \in [Ids -> {None} \cup [ssid : Ssids, key_mgmt : {"WPA-PSK", "NONE"}, priority : {0}]]
  /\ \A m, n \in Saved : networks[m] = networks[n] => m = n
  /\ enabled = Saved
  /\ machine_state = "DISCONNECTED"
  /\ main = "idle" /\ op = "none" /\ ssid = None /\ key = "NONE" /\ again = FALSE
  /\ netid1 = None /\ netid2 = None /\ ret = "none" /\ before = {}
  /\ astray = FALSE /\ failed = FALSE /\ refused = FALSE /\ untidy = FALSE

(***************************************************************************)
(* Commands and searches.                                                  *)
(***************************************************************************)

\* All of a step's commands succeed ...
Succeeds == ~ astray /\ UNCHANGED history
\* ... or one is answered FAIL and not carried out ...
Fails == /\ CommandsFail /\ ~ astray
         /\ failed' = TRUE /\ untidy' = TRUE /\ UNCHANGED <<astray, refused>>
\* ... or their answers are other commands', and what the step does is arbitrary.
Strays == astray /\ UNCHANGED history

\* A command of any thread has no answer within ten seconds.  The answer that
\* comes after that stays in the socket, the next command takes it for its own,
\* and leaves its own to the one after it, for as long as the connection lasts.
\* Or two threads' commands overlap, and each takes the other's answer.
GoesAstray ==
  /\ CommandsFail /\ ~ astray
  /\ astray' = TRUE /\ failed' = TRUE /\ untidy' = TRUE
  /\ UNCHANGED <<list, machine_state, main, call, again, netid1, netid2, ret, refused>>

KeyType(k) == IF k = "WPA_PSK" THEN "WPA-PSK" ELSE "NONE"

\* The networks a search may stop at; WEP and open networks look the same.
Matching(s, k) ==
  {n \in Saved : <<s, networks[n].ssid>> \in Hits /\ networks[n].key_mgmt = KeyType(k)}

\* A search that fails finds nothing; in the answers of other commands, or in a
\* list that is out of date, it may find anything.
FindsWrong == \/ Fails /\ netid1' = None
              \/ Strays /\ netid1' \in Saved \cup {None}

\* Defect: the id is taken without looking at what the search returned; it may
\* be that of a network with another kind of key.
FindsNamed(s, k) ==
  LET named == {n \in Saved : <<s, networks[n].ssid>> \in Hits}
  IN  \/ Succeeds /\ IF named = {} THEN netid1' = None ELSE netid1' \in named
      \/ FindsWrong

\* Defect: the search ends at a network of that name with another kind of key.
FindsFirst(s, k) ==
  \/ /\ Succeeds
     /\ IF Matching(s, k) = {} THEN netid1' = None
        ELSE \E n \in Saved : /\ <<s, networks[n].ssid>> \in Hits
                              /\ netid1' = IF n \in Matching(s, k) THEN n ELSE None
  \/ FindsWrong

\* wpa_conf_is_ap_exist and wpa_conf_ssid2netid write the id they find.
FindsOne(s, k) ==
  \/ Succeeds /\ IF Matching(s, k) = {} THEN netid1' = None ELSE netid1' \in Matching(s, k)
  \/ FindsWrong

\* What wpa_conf_get_max_priority may answer: the maximum, unless a command
\* fails; then -1.
Highest ==
  {p \in {0} \cup {networks[n].priority : n \in Saved} :
     \A n \in Saved : networks[n].priority <= p}

Delete(gone) ==
  /\ networks' = [n \in Ids |-> IF n \in gone THEN None ELSE networks[n]]
  /\ enabled' = enabled \ gone

\* A REMOVE_NETWORK whose answer the caller does not look at.
TryToRemove(n) == \/ Succeeds /\ Delete({n})
                  \/ Fails /\ UNCHANGED list
                  \/ Strays /\ (Delete({n}) \/ UNCHANGED list)

(***************************************************************************)
(* How an operation begins and ends.                                       *)
(***************************************************************************)

Begin(o, s, k) ==
  /\ main = "idle"
  /\ op' = o /\ ssid' = s /\ key' = k /\ before' = Saved
  /\ netid1' = None /\ failed' = astray /\ refused' = FALSE
  /\ UNCHANGED <<astray, untidy>>

Busy == machine_state \notin {"CONNECTED", "DISCONNECTED"}

\* Bound: an attempt, and a second one if it is asked for, find a free id and a
\* priority each.
Room(more) == /\ Cardinality(Ids \ Saved) > (IF more THEN 1 ELSE 0)
              /\ \A n \in Saved : networks[n].priority < MaxPriority

Return(result) == main' = "idle" /\ ret' = result

\* A call that only reads, or is refused, leaves nothing but its answer.
Answer(result) ==
  /\ Begin("none", None, "NONE") /\ netid2' = None /\ again' = FALSE
  /\ Return(result)
  /\ UNCHANGED <<list, machine_state>>

\* connect_ap is refused while busy, and when the scan does not list the name, and
\* connect_ap_with_netid while busy.
Refuse == Answer("error")

\* aw_wifi_connect_ap: with a password WPA, WEP or both are tried, as the scan
\* says.
Connect(s, k, more) ==
  /\ Begin("connect", s, k) /\ netid2' = None
  /\ ~ Busy /\ Room(more) /\ (more => k = "WPA_PSK")
  /\ main' = "search" /\ ret' = "none" /\ again' = more
  /\ UNCHANGED <<list, machine_state>>

\* aw_wifi_connect_ap_key_mgmt names the kind of key; there is one attempt.
ConnectKeyMgmt(s, k) == Connect(s, k, FALSE)

AddNetwork(s, k) ==
  /\ Begin("add", s, k) /\ netid2' = None /\ again' = FALSE
  /\ ~ Busy /\ Room(FALSE)
  /\ main' = "search" /\ ret' = "none"
  /\ UNCHANGED <<list, machine_state>>

\* When aw_wifi_add_network is refused, because of the state or of the name, the
\* way out passes the end of an attempt all the same.
AddRefused ==
  /\ Begin("add", None, "NONE") /\ netid2' = None /\ again' = FALSE
  /\ main' = "enable_all" /\ ret' = "error"
  /\ UNCHANGED <<list, machine_state>>

(***************************************************************************)
(* One attempt: wifi_connect_ap_inner, and the same within add_network.    *)
(***************************************************************************)

Search ==
  /\ main = "search" /\ main' = "add"
  /\ machine_state' = "CONNECTING"
  /\ FindsOne(ssid, key)
  /\ UNCHANGED <<list, call, again, netid2, ret>>

Fresh == [ssid |-> None, key_mgmt |-> "default", priority |-> 0]
Named(p) == [ssid |-> ssid, key_mgmt |-> KeyType(key), priority |-> p]

\* ADD_NETWORK's answer is the new network's id.  A text that is not its own, such
\* as the priority of a network or "OK", is taken for an id as well; None stands for
\* one that no network has.
Add ==
  /\ main = "add"
  /\ \/ /\ Succeeds
        /\ \E n \in Ids \ Saved :
             networks' = [networks EXCEPT ![n] = Fresh] /\ netid2' = n
        /\ main' = "set" /\ UNCHANGED ret
     \/ /\ Fails /\ UNCHANGED networks
        /\ main' = "enable_all" /\ ret' = "error" /\ UNCHANGED netid2
     \/ /\ Strays
        /\ \/ \E n \in Ids \ Saved : networks' = [networks EXCEPT ![n] = Fresh]
           \/ UNCHANGED networks
        /\ \/ main' = "set" /\ netid2' \in Saved' \cup {None} /\ UNCHANGED ret
           \/ main' = "enable_all" /\ ret' = "error" /\ UNCHANGED netid2
  /\ UNCHANGED <<enabled, machine_state, call, again, netid1>>

\* Defect: the highest priority, not the one above it.
SetEqual ==
  /\ main = "set" /\ Succeeds
  /\ \E p \in Highest : networks' = [networks EXCEPT ![netid2] = Named(p)]
  /\ main' = "select"
  /\ UNCHANGED <<enabled, machine_state, call, again, netid1, netid2, ret>>

\* SET_NETWORK: name, key and, last, a priority above all others.  A password of
\* the wrong length ends the attempt without a command having failed.  The priority
\* read from other commands' answers is 0 for any.
Set ==
  /\ main = "set"
  /\ \/ /\ Succeeds
        /\ \E p \in Highest : networks' = [networks EXCEPT ![netid2] = Named(p + 1)]
        /\ main' = "select" /\ UNCHANGED ret
     \/ /\ Fails /\ networks' = [networks EXCEPT ![netid2] = Named(0)]
        /\ main' = "select" /\ UNCHANGED ret
     \/ /\ \/ Fails /\ networks' \in {networks, [networks EXCEPT ![netid2] = Named(0)]}
           \/ /\ key = "WPA_PSK" /\ Succeeds
              /\ networks' = [networks EXCEPT ![netid2] = Named(0)]
        /\ main' = "drop" /\ ret' = "error"
     \/ /\ Strays
        /\ networks' \in {networks} \cup {[networks EXCEPT ![n] = Named(0)] :
                                         n \in Saved \cap {netid2}}
        /\ \/ main' = "select" /\ UNCHANGED ret
           \/ main' = "drop" /\ ret' = "error"
  /\ UNCHANGED <<enabled, machine_state, call, again, netid1, netid2>>

\* Defect: the older network is forgotten as soon as the new one is chosen.
SelectAndForget ==
  /\ main = "select"
  /\ \/ /\ Succeeds /\ main' = "wait" /\ UNCHANGED ret
        /\ networks' = [n \in Ids |-> IF n = netid1 THEN None ELSE networks[n]]
        /\ enabled' = {netid2}
     \/ /\ Fails /\ main' = "drop" /\ ret' = "error"
        /\ UNCHANGED list
  /\ UNCHANGED <<machine_state, call, again, netid1, netid2>>

\* SELECT_NETWORK disables all others; connect_ap sends ENABLE_NETWORK and
\* RECONNECT as well.
Chosen(n) == IF n \in Saved THEN {n} ELSE enabled

Select ==
  /\ main = "select"
  /\ \/ Succeeds /\ enabled' = Chosen(netid2) /\ main' = "wait" /\ UNCHANGED ret
     \/ /\ Fails /\ enabled' \in {enabled, Chosen(netid2)}
        /\ main' = "drop" /\ ret' = "error"
     \/ /\ Strays /\ enabled' \in {enabled, Chosen(netid2)}
        /\ \/ main' = "wait" /\ UNCHANGED ret
           \/ main' = "drop" /\ ret' = "error"
  /\ UNCHANGED <<networks, machine_state, call, again, netid1, netid2>>

\* Defect: without an address in time the older network is not forgotten.
AssociatedKept ==
  /\ main = "wait" /\ ret' = "ok"
  /\ machine_state' \in {"L2CONNECTED", "CONNECTED", "DISCONNECTED"}
  /\ main' = IF machine_state' = "DISCONNECTED" THEN "enable_all" ELSE "forget"
  /\ UNCHANGED <<list, call, again, netid1, netid2, history>>

\* The association is made, with or without an address ...
Associated ==
  /\ main = "wait" /\ main' = "forget" /\ ret' = "ok"
  /\ machine_state' \in {"L2CONNECTED", "CONNECTED", "DISCONNECTED"}
  /\ UNCHANGED <<list, call, again, netid1, netid2, history>>

\* ... or not in time, refused too often, or the password is wrong ...
NotAssociated ==
  /\ main = "wait" /\ main' = "disable" /\ ret' = "error"
  /\ machine_state' = "DISCONNECTED"
  /\ UNCHANGED <<list, call, again, netid1, netid2, history>>

\* ... or the link is lost for another reason: the network added stays, and
\* add_network answers that all went well.
Refused ==
  /\ main = "wait" /\ main' = "enable_all"
  /\ ret' = IF op = "add" THEN "ok" ELSE "error"
  /\ machine_state' = "DISCONNECTED" /\ refused' = TRUE /\ untidy' = TRUE
  /\ UNCHANGED <<list, call, again, netid1, netid2, astray, failed>>

\* The older network of that name is forgotten once the new one has worked.
Forget ==
  /\ main = "forget" /\ main' = "enable_all"
  /\ IF netid1 = None THEN UNCHANGED <<list, history>> ELSE TryToRemove(netid1)
  /\ UNCHANGED <<machine_state, call, again, netid1, netid2, ret>>

Disable ==
  /\ main = "disable" /\ main' = "drop"
  /\ \/ Succeeds /\ enabled' = enabled \ {netid2}
     \/ Fails /\ UNCHANGED enabled
     \/ Strays /\ enabled' \in {enabled, enabled \ {netid2}}
  /\ UNCHANGED <<networks, machine_state, call, again, netid1, netid2, ret>>

Drop ==
  /\ main = "drop" /\ main' = "enable_all"
  /\ TryToRemove(netid2)
  /\ UNCHANGED <<machine_state, call, again, netid1, netid2, ret>>

\* Defect: an attempt that failed returns at once.
EnableAllIfOk ==
  /\ main = "enable_all" /\ main' = "idle" /\ Succeeds
  /\ enabled' = IF ret = "ok" THEN Saved ELSE enabled
  /\ UNCHANGED <<networks, machine_state, call, again, netid1, netid2, ret>>

\* wpa_conf_enable_all_networks stops at the first command that fails.
EnableNetworks ==
  \/ Succeeds /\ enabled' = Saved
  \/ (Fails \/ Strays) /\ \E some \in SUBSET Saved : enabled' = enabled \cup some

\* An attempt that failed ends in DISCONNECTED, and WEP may be tried after WPA.
EnableAll ==
  /\ main = "enable_all"
  /\ EnableNetworks
  /\ machine_state' = IF ret = "error" THEN "DISCONNECTED" ELSE machine_state
  /\ IF ret = "error" /\ again
     THEN main' = "search" /\ ret' = "none" /\ key' = "WEP" /\ again' = FALSE
     ELSE main' = "idle" /\ UNCHANGED <<ret, key, again>>
  /\ netid1' = None
  /\ UNCHANGED <<networks, op, ssid, before, netid2>>

(***************************************************************************)
(* Connecting by network id, and by what is saved.                         *)
(***************************************************************************)

\* aw_wifi_connect_ap_with_netid first leaves the network it is connected to.
WithNetid(n) ==
  /\ Begin("with_netid", None, "NONE") /\ netid2' = n /\ again' = FALSE
  /\ ~ Busy /\ machine_state' = "CONNECTING"
  /\ main' = "pick" /\ ret' = "none"
  /\ UNCHANGED list

\* After a failed SELECT_NETWORK nothing restores the state.  A failed RECONNECT
\* is the answer only if the polling does not bring another one.
Pick ==
  /\ main = "pick"
  /\ \/ /\ netid2 \in Saved /\ enabled' = {netid2}
        /\ \/ Succeeds /\ ret' = "ok"
           \/ Fails /\ ret' = "error"
        /\ main' = "pick_wait"
     \/ /\ \/ netid2 \notin Saved /\ Succeeds
           \/ Fails
        /\ UNCHANGED enabled /\ Return("error")
     \/ /\ Strays /\ enabled' \in {enabled, Chosen(netid2)}
        /\ \/ main' = "pick_wait" /\ ret' \in {"ok", "error"}
           \/ Return("error")
  /\ UNCHANGED <<networks, machine_state, call, again, netid1, netid2>>

\* It ends as an attempt does, but no other network is enabled again.
PickWait ==
  /\ main = "pick_wait"
  /\ \/ /\ Return("ok") /\ UNCHANGED <<enabled, history>>
        /\ machine_state' \in {"L2CONNECTED", "CONNECTED", "DISCONNECTED"}
     \/ /\ Return("error") /\ machine_state' = "DISCONNECTED"
        /\ \/ Succeeds /\ enabled' = enabled \ {netid2}
           \/ Fails /\ UNCHANGED enabled
           \/ Strays /\ enabled' \in {enabled, enabled \ {netid2}}
     \/ /\ Return(ret) /\ machine_state' = "DISCONNECTED"
        /\ UNCHANGED <<enabled, history>>
  /\ UNCHANGED <<networks, call, again, netid1, netid2>>

NetworkInfoExist == Saved # {}

\* aw_wifi_connect_ap_auto: the association is waited for by a thread.
ConnectAuto ==
  /\ Begin("auto", None, "NONE") /\ netid2' = None /\ again' = FALSE
  /\ \/ /\ machine_state = "DISCONNECTED" /\ (NetworkInfoExist \/ astray)
        /\ machine_state' = "CONNECTING"
        /\ Return("ok") \/ (CommandsFail /\ Return("error"))
     \/ /\ machine_state # "DISCONNECTED" \/ ~ NetworkInfoExist \/ CommandsFail
        /\ Return("error") /\ UNCHANGED machine_state
  /\ UNCHANGED list

\* What the event thread, the DHCP threads and check_connect_timeout do to the
\* state.  It is read when an operation begins, and in the waits, which choose.
Events ==
  /\ main = "idle"
  /\ \/ machine_state = "DISCONNECTED" /\ machine_state' = "L2CONNECTED"
     \/ machine_state = "CONNECTING"   /\ machine_state' \in {"L2CONNECTED", "DISCONNECTED"}
     \/ machine_state = "L2CONNECTED"  /\ machine_state' \in {"CONNECTED", "DISCONNECTED"}
     \/ machine_state = "CONNECTED"    /\ machine_state' = "DISCONNECTED"
  /\ UNCHANGED <<list, main, call, again, netid1, netid2, ret, history>>

(***************************************************************************)
(* Removal and queries.                                                    *)
(***************************************************************************)

RemoveNetwork(s, k) ==
  /\ Begin("remove", s, k) /\ netid2' = None /\ again' = FALSE
  /\ main' = "find" /\ ret' = "none"
  /\ UNCHANGED <<list, machine_state>>

\* A network that is not found, or not looked for because a command failed, is
\* taken for removed.
Find ==
  /\ main = "find"
  /\ FindsOne(ssid, key)
  /\ IF netid1' = None THEN Return("ok") ELSE main' = "remove" /\ UNCHANGED ret
  /\ UNCHANGED <<list, machine_state, call, again, netid2>>

Remove ==
  /\ main = "remove"
  /\ \/ Succeeds /\ Delete({netid1}) /\ Return("ok")
     \/ Fails /\ UNCHANGED list /\ Return("error")
     \/ Strays /\ (Delete({netid1}) \/ UNCHANGED list) /\ (Return("ok") \/ Return("error"))
  /\ netid1' = None
  /\ UNCHANGED <<machine_state, call, again, netid2>>

\* wpa_conf_remove_all_networks stops at the first command that fails.
RemoveAllNetworks ==
  /\ Begin("remove_all", None, "NONE") /\ netid2' = None /\ again' = FALSE
  /\ main' = "remove_all" /\ ret' = "none"
  /\ UNCHANGED <<list, machine_state>>

RemoveAll ==
  /\ main = "remove_all"
  /\ \/ Succeeds /\ Delete(Saved) /\ Return("ok")
     \/ Fails /\ (\E some \in SUBSET Saved : Delete(some)) /\ Return("error")
     \/ Strays /\ (\E some \in SUBSET Saved : Delete(some)) /\ (Return("ok") \/ Return("error"))
  /\ UNCHANGED <<machine_state, call, again, netid1, netid2>>

\* aw_wifi_list_networks is refused while busy.
ListNetworks ==
  \/ ~ Busy /\ Answer("ok")
  \/ (Busy \/ CommandsFail) /\ Answer("error")

GetNetid ==
  \E s \in Ssids, k \in KeyMgmts :
    \/ (Matching(s, k) # {} \/ astray) /\ Answer("ok")
    \/ (Matching(s, k) = {} \/ CommandsFail) /\ Answer("error")

Attempt == Search \/ Add \/ Set \/ Select \/ Associated \/ NotAssociated \/ Refused
           \/ Forget \/ Disable \/ Drop \/ EnableAll

Operation ==
  \/ \E s \in Ssids, k \in KeyMgmts :
       \/ \E more \in BOOLEAN : Connect(s, k, more)
       \/ ConnectKeyMgmt(s, k) \/ AddNetwork(s, k) \/ RemoveNetwork(s, k)
  \/ \E n \in Ids : WithNetid(n)
  \/ ConnectAuto \/ RemoveAllNetworks
  \/ Refuse \/ AddRefused \/ ListNetworks \/ GetNetid

Next == Operation \/ Attempt \/ Pick \/ PickWait \/ Events \/ GoesAstray
        \/ Find \/ Remove \/ RemoveAll

Spec == Init /\ [][Next]_vars

(***************************************************************************)
(* Properties.                                                             *)
(***************************************************************************)

\* No other name's line is hit by a search for s, and its own is.
Plain(s) == \A t \in Ssids : <<s, t>> \in Hits <=> s = t

\* An operation on a network removes none but that one: what the search found
\* dozens of commands ago, or in an earlier attempt, is still the network of that
\* name and kind of key when it is removed, whichever commands were answered FAIL
\* between.  Only for plain names, and while commands take their own answers.
RemovesOnlyItsOwn ==
  [][\A n \in before :
       /\ op # "remove_all" /\ Plain(ssid) /\ ~ astray
       /\ networks[n] # None /\ networks'[n] = None
       => networks[n].ssid = ssid /\ networks[n].key_mgmt = KeyType(key)]_vars

\* An attempt that fails, whichever of its commands is answered FAIL, has kept every
\* network there was; and, unless a command failed or the link was lost, it has left
\* none of its own.  Only while commands take their own answers.
FailureRestores ==
  main = "idle" /\ op \in Attempts /\ ret = "error" /\ ~ astray =>
    /\ before \subseteq Saved
    /\ ~ failed /\ ~ refused => Saved \subseteq before

\* After an attempt, whatever its outcome, wpa_supplicant may choose every
\* network again, unless a command failed.
AllEnabled ==
  main = "idle" /\ op \in Attempts /\ netid2 # None /\ ~ failed => enabled = Saved

\* Between operations a plain name is saved once per kind of key, as long as no
\* command has failed and no attempt was ended by a loss of the link.
SavedOnce ==
  main = "idle" /\ ~ untidy =>
    \A m, n \in Saved :
      /\ networks[m].ssid = networks[n].ssid /\ networks[m].key_mgmt = networks[n].key_mgmt
      /\ Plain(networks[n].ssid)
      => m = n

\* The network last connected to has a higher priority than all others.
MostRecentFirst ==
  main = "idle" /\ op \in Attempts /\ ret = "ok" /\ ~ failed /\ netid2 \in Saved =>
    \A n \in Saved \ {netid2} : networks[n].priority < networks[netid2].priority

\* When removal answers that all went well, the network is gone.
Removed ==
  main = "idle" /\ op = "remove" /\ ret = "ok" /\ ~ untidy /\ Plain(ssid) =>
    \A n \in Saved : ~ (networks[n].ssid = ssid /\ networks[n].key_mgmt = KeyType(key))

\* An operation that has waited for an association, or has failed to come that
\* far, does not leave CONNECTING behind, which every later connect_ap would take
\* for busy.  (Pick does, when SELECT_NETWORK fails.)
StateRestored ==
  [][/\ main \in InAttempt \cup {"pick_wait"} /\ main' = "idle"
     => machine_state' # "CONNECTING"]_vars

\* "-1: not exist" (wpa_supplicant_conf.c): a network is not taken for another
\* one, so connecting to one never removes another, as long as commands take their
\* own answers.
OthersKept ==
  [][\A n \in before :
       op \in Attempts /\ ~ astray /\ networks[n] # None /\ networks'[n] = None
       => networks[n].ssid = ssid]_vars
=============================================================================
