---------------------------- MODULE HotspotOrder ----------------------------
(***************************************************************************)
(* How report_wifi_scan_info of inetd/wifi.c arranges the hotspots of a    *)
(* scan before it reports them: it exchanges nodes of the linked list, the *)
(* stronger signal first, and then brings the connected hotspot to the     *)
(* head.  Two nodes are exchanged by exchanging their next pointers and    *)
(* then copying the whole structures over each other; the nodes are        *)
(* addresses 1..number here, linked in that order by the scan.             *)
(*                                                                         *)
(* A definition commented "Defect" is not part of the specification: it is *)
(* the one below it with a plausible mistake, for testing the properties.  *)
(***************************************************************************)
EXTENDS Integers

CONSTANTS
  MaxNumber,   \* bound: hotspots in one scan
  Strengths    \* signal strengths

ASSUME MaxNumberAssumption == MaxNumber \in Nat
ASSUME StrengthsAssumption == Strengths \subseteq Int

NULL == 0      \* the null pointer and the empty bssid

VARIABLES
  pc,          \* "outer" and "inner" loop of the sort, "search", "done"
  number,      \* the hotspots of the scan
  memory,      \* the nodes
  bssid,       \* the connected hotspot, or NULL
  node, tempnode, i, j

vars == <<pc, number, memory, bssid, node, tempnode, i, j>>

hotspots == 1                \* the first node
Nodes    == 1 .. number

NodeType ==
  [bssid : Nodes, signal_strength : Strengths, next : Nodes \cup {NULL}]

TypeOK ==
  /\ pc \in {"outer", "inner", "search", "done"}
  /\ number \in 1 .. MaxNumber
  /\ memory \in [Nodes -> NodeType]
  /\ bssid \in Nat
  /\ node \in Nodes \cup {NULL}
  /\ tempnode \in Nodes \cup {NULL}
  /\ i \in 1 .. number
  /\ j \in 1 .. number

\* The pointer after a node, in the order of the list.
Following(n) == IF n = number THEN NULL ELSE n + 1

\* Any scan with at least one hotspot; the connected one is in it, or not, or
\* there is none.
Init ==
  /\ number \in 1 .. MaxNumber
  /\ \E strength \in [1 .. number -> Strengths] :
       memory = [n \in 1 .. number |->
                   [bssid |-> n, signal_strength |-> strength[n], next |-> Following(n)]]
  /\ bssid \in 0 .. MaxNumber
  /\ pc = "outer"
  /\ node = hotspots
  /\ tempnode = NULL
  /\ i = 1
  /\ j = 1

\* Defect: the structures are exchanged but not the pointers in them.
CopiedOnly(m, a, b) == [m EXCEPT ![a] = m[b], ![b] = m[a]]

\* Exchange the next pointers of two nodes ...
Relinked(m, a, b) == [m EXCEPT ![a].next = m[b].next, ![b].next = m[a].next]

\* ... and copy the structures over each other.
Exchanged(m, a, b) ==
  LET r == Relinked(m, a, b) IN [r EXCEPT ![a] = r[b], ![b] = r[a]]

\* Defect: the inner loop stops one hotspot early.
OuterSkipsOne ==
  /\ pc = "outer"
  /\ IF i < number - 2
     THEN /\ pc' = "inner"
          /\ node' = memory[node].next
          /\ tempnode' = memory[node'].next
          /\ j' = i + 1
     ELSE /\ pc' = "search"
          /\ node' = hotspots
          /\ UNCHANGED <<tempnode, j>>
  /\ UNCHANGED <<number, memory, bssid, i>>

\* for(i = 1; i < number - 1; i++) ...
Outer ==
  /\ pc = "outer"
  /\ IF i < number - 1
     THEN /\ pc' = "inner"
          /\ node' = memory[node].next
          /\ tempnode' = memory[node'].next
          /\ j' = i + 1
     ELSE /\ pc' = "search"
          /\ node' = hotspots
          /\ UNCHANGED <<tempnode, j>>
  /\ UNCHANGED <<number, memory, bssid, i>>

\* ... for(j = i + 1; j < number; j++): a stronger hotspot comes forward.
InnerStep ==
  /\ pc = "inner" /\ j < number
  /\ memory' = IF memory[node].signal_strength < memory[tempnode].signal_strength
               THEN Exchanged(memory, node, tempnode) ELSE memory
  /\ tempnode' = memory'[tempnode].next
  /\ j' = j + 1
  /\ UNCHANGED <<pc, number, bssid, node, i>>

InnerEnds ==
  /\ pc = "inner" /\ j = number
  /\ pc' = "outer"
  /\ i' = i + 1
  /\ UNCHANGED <<number, memory, bssid, node, tempnode, j>>

\* The list has been gone through, or there is no connected hotspot.
SearchEnds ==
  /\ pc = "search"
  /\ bssid = NULL \/ node = NULL
  /\ pc' = "done"
  /\ UNCHANGED <<number, memory, bssid, node, tempnode, i, j>>

Connected(n) == memory[n].bssid = bssid

\* Not the connected hotspot, or it is the head already: go on.
SearchNext ==
  /\ pc = "search" /\ bssid # NULL /\ node # NULL
  /\ ~ Connected(node) \/ node = hotspots
  /\ node' = memory[node].next
  /\ UNCHANGED <<pc, number, memory, bssid, tempnode, i, j>>

\* Defect: the connected hotspot changes places with the second.
SearchFindsSecond ==
  /\ pc = "search" /\ bssid # NULL /\ node # NULL
  /\ Connected(node) /\ node # hotspots
  /\ memory' = Exchanged(memory, node, memory[hotspots].next)
  /\ pc' = "done"
  /\ UNCHANGED <<number, bssid, node, tempnode, i, j>>

\* The connected hotspot changes places with the head.
SearchFinds ==
  /\ pc = "search" /\ bssid # NULL /\ node # NULL
  /\ Connected(node) /\ node # hotspots
  /\ memory' = Exchanged(memory, node, hotspots)
  /\ pc' = "done"
  /\ UNCHANGED <<number, bssid, node, tempnode, i, j>>

Next == Outer \/ InnerStep \/ InnerEnds \/ SearchEnds \/ SearchNext \/ SearchFinds

Spec     == Init /\ [][Next]_vars

(***************************************************************************)
(* Properties.                                                             *)
(***************************************************************************)

\* Exchanging nodes by their pointers neither drops a hotspot nor ties the
\* list into a ring: next still leads from the head through all nodes to the
\* end, and every hotspot of the scan is at one of them.
NothingLost ==
  /\ \A n \in Nodes : memory[n].next = Following(n)
  /\ \A b \in Nodes : \E n \in Nodes : memory[n].bssid = b

\* After the sort ("according to signal strength, order the list") the hotspots
\* behind the head are in descending order; the head is never compared.
TailOrdered ==
  pc = "search" =>
    \A k \in 2 .. number - 1 :
      memory[k].signal_strength >= memory[k + 1].signal_strength

\* Of the scan's hotspots the connected one comes first in the end.
ConnectedFirst ==
  pc = "done" /\ bssid \in Nodes => Connected(hotspots)
=============================================================================
