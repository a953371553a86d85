------------------------- MODULE HotspotOrderProofs -------------------------
(***************************************************************************)
(* Proofs about HotspotOrder, for scans of every length and any strengths. *)
(***************************************************************************)
EXTENDS HotspotOrder, TLAPS

\* Two nodes of a list have changed places, apart from their next pointers.
Swapped(e, a, b) ==
  /\ e \in [Nodes -> NodeType]
  /\ \A n \in Nodes : e[n].next = memory[n].next
  /\ e[a].bssid = memory[b].bssid
  /\ e[b].bssid = memory[a].bssid
  /\ e[a].signal_strength = memory[b].signal_strength
  /\ e[b].signal_strength = memory[a].signal_strength
  /\ \A n \in Nodes \ {a, b} : e[n] = memory[n]

\* That is what the exchange of the code does, also when the nodes are
\* neighbours.
LEMMA ExchangeLemma ==
  ASSUME TypeOK, NEW a \in Nodes, NEW b \in Nodes, a # b
  PROVE  Swapped(Exchanged(memory, a, b), a, b)
<1> DEFINE r == Relinked(memory, a, b)
           e == Exchanged(memory, a, b)
<1>1. r = [memory EXCEPT ![a] = [memory[a] EXCEPT !.next = memory[b].next],
                         ![b] = [memory[b] EXCEPT !.next = memory[a].next]]
  BY DEF Relinked, TypeOK, NodeType
<1>2. /\ r[a] = [memory[a] EXCEPT !.next = memory[b].next]
      /\ r[b] = [memory[b] EXCEPT !.next = memory[a].next]
      /\ \A n \in Nodes \ {a, b} : r[n] = memory[n]
      /\ r \in [Nodes -> NodeType]
  BY <1>1 DEF TypeOK, NodeType
<1>3. e = [r EXCEPT ![a] = r[b], ![b] = r[a]]
  BY DEF Exchanged
<1>4. /\ e[a] = r[b] /\ e[b] = r[a]
      /\ \A n \in Nodes \ {a, b} : e[n] = r[n]
      /\ e \in [Nodes -> NodeType]
  BY <1>2, <1>3
<1>5. QED
  BY <1>2, <1>4 DEF TypeOK, NodeType, Swapped

-----------------------------------------------------------------------------

Strength(n) == memory[n].signal_strength

\* The hotspots from the second to the m-th node are in their final place.
SortedTo(m) == \A a \in 2 .. m, b \in Nodes : a < b => Strength(a) >= Strength(b)

\* Where the loops are, and what they have done so far.
Loops ==
  /\ pc = "outer" => node = i /\ SortedTo(i)
  /\ pc = "inner" =>
       /\ node = i + 1 /\ tempnode = Following(j)
       /\ i < number - 1 /\ i < j
       /\ SortedTo(i)
       /\ \A b \in i + 2 .. j : Strength(i + 1) >= Strength(b)
  /\ pc = "search" => SortedTo(number - 1)

\* What the search has gone through.
Searched ==
  /\ pc = "search" /\ bssid # NULL =>
       \A n \in 2 .. number : (node = NULL \/ n < node) => ~ Connected(n)
  /\ ConnectedFirst

IInv == TypeOK /\ NothingLost /\ Loops /\ Searched

LEMMA Initially == Init => IInv
<1> SUFFICES ASSUME Init PROVE IInv
  OBVIOUS
<1> USE MaxNumberAssumption, StrengthsAssumption DEF Init, Nodes, NULL, hotspots, Following
<1>1. TypeOK
  <2>1. PICK strength \in [1 .. number -> Strengths] :
          memory = [n \in 1 .. number |->
                     [bssid |-> n, signal_strength |-> strength[n], next |-> Following(n)]]
    OBVIOUS
  <2>2. memory \in [Nodes -> NodeType]
    BY <2>1 DEF NodeType
  <2>3. QED
    BY <2>2 DEF TypeOK
<1>2. NothingLost
  BY DEF NothingLost
<1>3. Loops
  BY DEF Loops, SortedTo
<1>4. Searched
  BY DEF Searched, ConnectedFirst
<1>5. QED
  BY <1>1, <1>2, <1>3, <1>4 DEF IInv

\* An exchange keeps the list whole.
LEMMA ExchangeLosesNothing ==
  ASSUME TypeOK, NothingLost, NEW a \in Nodes, NEW b \in Nodes, a # b,
         memory' = Exchanged(memory, a, b), number' = number
  PROVE  memory' \in [Nodes -> NodeType] /\ NothingLost'
<1>0. Swapped(memory', a, b)
  BY ExchangeLemma
<1>1. memory' \in [Nodes -> NodeType]
  BY <1>0 DEF Swapped
<1>2. \A n \in Nodes : memory'[n].next = Following(n)
  BY <1>0 DEF NothingLost, Swapped
<1>3. ASSUME NEW c \in Nodes PROVE \E n \in Nodes : memory'[n].bssid = c
  <2>1. PICK n \in Nodes : memory[n].bssid = c
    BY DEF NothingLost
  <2>2. CASE n = a
    BY <2>1, <2>2, <1>0 DEF Swapped
  <2>3. CASE n = b
    BY <2>1, <2>3, <1>0 DEF Swapped
  <2>4. CASE n \notin {a, b}
    BY <2>1, <2>4, <1>0 DEF Swapped
  <2>5. QED
    BY <2>2, <2>3, <2>4
<1>4. QED
  BY <1>1, <1>2, <1>3 DEF NothingLost, Nodes, Following

LEMMA Step == IInv /\ [Next]_vars => IInv'
<1> SUFFICES ASSUME IInv, [Next]_vars PROVE IInv'
  OBVIOUS
<1> USE MaxNumberAssumption, StrengthsAssumption
<1>1. TypeOK /\ NothingLost /\ Loops /\ Searched
  BY DEF IInv
<1>2. \A n \in Nodes : /\ Strength(n) \in Int
                       /\ memory[n] \in NodeType
                       /\ memory[n].next = Following(n)
  BY <1>1 DEF TypeOK, NodeType, Strength, NothingLost
<1>3. CASE Outer
  <2>1. CASE i < number - 1
    <3>1. /\ pc' = "inner" /\ node = i /\ SortedTo(i)
          /\ node' = memory[node].next /\ tempnode' = memory[node'].next
          /\ j' = i + 1 /\ UNCHANGED <<number, memory, bssid, i>>
      BY <1>1, <1>3, <2>1 DEF Outer, Loops
    <3>2. node' = i + 1 /\ tempnode' = i + 2 /\ i \in Nodes /\ i + 1 \in Nodes /\ i + 2 \in Nodes
      BY <1>1, <1>2, <2>1, <3>1 DEF TypeOK, Nodes, Following
    <3>3. TypeOK'
      BY <1>1, <2>1, <3>1, <3>2 DEF TypeOK, Nodes, NodeType
    <3>4. NothingLost'
      BY <1>1, <3>1 DEF NothingLost, Nodes, Following
    <3>5. Loops'
      BY <1>1, <2>1, <3>1, <3>2 DEF Loops, SortedTo, Strength, TypeOK, Nodes, Following
    <3>6. Searched'
      BY <3>1 DEF Searched, ConnectedFirst
    <3>7. QED
      BY <3>3, <3>4, <3>5, <3>6 DEF IInv
  <2>2. CASE ~ (i < number - 1)
    <3>1. /\ pc' = "search" /\ SortedTo(i) /\ node' = hotspots
          /\ UNCHANGED <<number, memory, bssid, i, tempnode, j>>
      BY <1>1, <1>3, <2>2 DEF Outer, Loops
    <3>2. TypeOK'
      BY <1>1, <3>1 DEF TypeOK, Nodes, NodeType, hotspots
    <3>3. NothingLost'
      BY <1>1, <3>1 DEF NothingLost, Nodes, Following
    <3>4. Loops'
      BY <1>1, <2>2, <3>1 DEF Loops, SortedTo, Strength, TypeOK, Nodes
    <3>5. Searched'
      BY <3>1 DEF Searched, ConnectedFirst, hotspots, NULL
    <3>6. QED
      BY <3>2, <3>3, <3>4, <3>5 DEF IInv
  <2>3. QED
    BY <2>1, <2>2
<1>4. CASE InnerStep
  <2> DEFINE old(n) == memory[n].signal_strength
             new(n) == memory'[n].signal_strength
  <2>1. /\ pc = "inner" /\ j < number /\ pc' = "inner" /\ j' = j + 1
        /\ node = i + 1 /\ tempnode = j + 1 /\ i < j /\ i < number - 1
        /\ tempnode' = memory'[tempnode].next
        /\ UNCHANGED <<pc, number, bssid, node, i>>
        /\ SortedTo(i)
        /\ \A b \in i + 2 .. j : old(i + 1) >= old(b)
    BY <1>1, <1>4 DEF InnerStep, Loops, Following, TypeOK, Strength
  <2>2. i \in Nat /\ j \in Nat /\ number \in Nat /\ i + 1 \in Nodes /\ j + 1 \in Nodes
    BY <1>1, <2>1 DEF TypeOK, Nodes
  <2>3. /\ memory' \in [Nodes -> NodeType] /\ NothingLost'
        /\ new(i + 1) >= new(j + 1)
        /\ new(i + 1) >= old(i + 1)
        /\ \A n \in Nodes \ {i + 1, j + 1} : memory'[n] = memory[n]
        /\ \/ memory' = memory
           \/ /\ new(i + 1) = old(j + 1)
              /\ new(j + 1) = old(i + 1)
    <3>1. CASE old(i + 1) < old(j + 1)
      <4>1. memory' = Exchanged(memory, i + 1, j + 1)
        BY <1>4, <2>1, <3>1 DEF InnerStep, Strength
      <4>2. memory' \in [Nodes -> NodeType] /\ NothingLost'
        BY <1>1, <2>1, <2>2, <4>1, ExchangeLosesNothing
      <4>0. Swapped(memory', i + 1, j + 1)
        BY <1>1, <2>1, <2>2, <4>1, ExchangeLemma
      <4>3. /\ memory'[i + 1].signal_strength = memory[j + 1].signal_strength
            /\ memory'[j + 1].signal_strength = memory[i + 1].signal_strength
            /\ \A n \in Nodes \ {i + 1, j + 1} : memory'[n] = memory[n]
        BY <4>0 DEF Swapped
      <4>4. new(i + 1) = old(j + 1) /\ new(j + 1) = old(i + 1)
        BY <4>3, <2>1 DEF Strength
      <4>5. QED
        BY <1>2, <2>2, <3>1, <4>2, <4>3, <4>4 DEF Strength
    <3>2. CASE ~ (old(i + 1) < old(j + 1))
      <4>1. memory' = memory
        BY <1>4, <2>1, <3>2 DEF InnerStep, Strength
      <4>2. memory' \in [Nodes -> NodeType] /\ NothingLost'
        BY <1>1, <2>1, <4>1 DEF TypeOK, NodeType, NothingLost, Nodes, Following
      <4>3. new(i + 1) = old(i + 1) /\ new(j + 1) = old(j + 1)
        BY <2>1, <4>1 DEF Strength
      <4>4. QED
        BY <1>2, <2>2, <3>2, <4>1, <4>2, <4>3 DEF Strength
    <3>3. QED
      BY <3>1, <3>2
  <2>4. tempnode' = Following(j + 1)
    BY <2>1, <2>2, <2>3 DEF NothingLost, Nodes, Following
  <2>5. TypeOK'
    BY <1>1, <2>1, <2>2, <2>3, <2>4 DEF TypeOK, Nodes, NodeType, Following
  <2>6. \A n \in Nodes \ {i + 1, j + 1} : new(n) = old(n)
    BY <2>3 DEF Strength
  <2>7. \A n \in Nodes : new(n) \in Int
    BY <2>3, <2>1 DEF NodeType, Nodes, Strength
  <2>8. SortedTo(i)'
    <3> SUFFICES ASSUME NEW a \in 2 .. i, NEW b \in Nodes, a < b
                 PROVE  new(a) >= new(b)
      BY <2>1 DEF SortedTo, Strength, Nodes
    <3>1. a \in Nodes \ {i + 1, j + 1} /\ a \in Nodes
      BY <2>1, <2>2 DEF Nodes
    <3>2. new(a) = old(a)
      BY <3>1, <2>6
    <3>3. old(a) >= old(b) /\ old(a) >= old(i + 1) /\ old(a) >= old(j + 1)
      BY <2>1, <2>2 DEF SortedTo, Strength
    <3>4. new(b) \in {old(b), old(i + 1), old(j + 1)}
      BY <2>3, <2>6 DEF Strength
    <3>5. QED
      BY <3>2, <3>3, <3>4
  <2>9. ASSUME NEW b \in i + 2 .. j + 1 PROVE new(i + 1) >= new(b)
    <3>1. CASE b = j + 1
      BY <2>3, <3>1
    <3>2. CASE b # j + 1
      <4>1. b \in i + 2 .. j /\ b \in Nodes \ {i + 1, j + 1}
        BY <2>1, <2>2, <2>9, <3>2 DEF Nodes
      <4>2. old(i + 1) >= old(b) /\ new(b) = old(b)
        BY <4>1, <2>1, <2>6
      <4>3. QED
        BY <4>1, <4>2, <2>2, <2>3, <2>7, <1>2 DEF Strength
    <3>3. QED
      BY <3>1, <3>2
  <2>10. Loops'
    BY <2>1, <2>2, <2>4, <2>8, <2>9 DEF Loops, Strength, Following, SortedTo, Nodes
  <2>11. Searched'
    BY <2>1 DEF Searched, ConnectedFirst
  <2>12. QED
    BY <2>3, <2>5, <2>10, <2>11 DEF IInv
<1>5. CASE InnerEnds
  <2>1. /\ pc = "inner" /\ j = number /\ pc' = "outer" /\ i' = i + 1
        /\ node = i + 1 /\ i < number - 1
        /\ UNCHANGED <<number, memory, bssid, node, tempnode, j>>
        /\ SortedTo(i)
        /\ \A b \in i + 2 .. number : Strength(i + 1) >= Strength(b)
    BY <1>1, <1>5 DEF InnerEnds, Loops
  <2>2. TypeOK'
    <3>1. i \in 1 .. number /\ number \in 1 .. MaxNumber
      BY <1>1 DEF TypeOK
    <3>2. i + 1 \in 1 .. number
      BY <2>1, <3>1
    <3>3. QED
      BY <1>1, <2>1, <3>2 DEF TypeOK, Nodes, NodeType
  <2>3. NothingLost'
    BY <1>1, <2>1 DEF NothingLost, Nodes, Following
  <2>4. Loops'
    <3>1. SortedTo(i + 1)
      BY <1>1, <2>1 DEF SortedTo, TypeOK, Nodes
    <3>2. QED
      BY <2>1, <3>1 DEF Loops, SortedTo, Strength, Nodes
  <2>5. Searched'
    BY <2>1 DEF Searched, ConnectedFirst
  <2>6. QED
    BY <2>2, <2>3, <2>4, <2>5 DEF IInv
<1>6. CASE SearchEnds
  <2>1. /\ pc = "search" /\ pc' = "done" /\ (bssid = NULL \/ node = NULL)
        /\ UNCHANGED <<number, memory, bssid, node, tempnode, i, j>>
    BY <1>6 DEF SearchEnds
  <2>2. TypeOK' /\ NothingLost' /\ Loops'
    BY <1>1, <2>1 DEF TypeOK, NodeType, NothingLost, Loops, Nodes, Following
  <2>3. Searched'
    <3> SUFFICES ASSUME bssid \in Nodes PROVE Connected(hotspots)
      BY <2>1 DEF Searched, ConnectedFirst, Connected, Nodes
    <3>1. bssid # NULL /\ node = NULL
      BY <1>1, <2>1 DEF Nodes, NULL, TypeOK
    <3>2. PICK n \in Nodes : Connected(n)
      BY <1>1 DEF NothingLost, Connected
    <3>3. n \notin 2 .. number
      BY <1>1, <2>1, <3>1, <3>2 DEF Searched
    <3>4. QED
      BY <1>1, <3>2, <3>3 DEF Nodes, hotspots, TypeOK
  <2>4. QED
    BY <2>2, <2>3 DEF IInv
<1>7. CASE SearchNext
  <2>1. /\ pc = "search" /\ bssid # NULL /\ node # NULL /\ (~ Connected(node) \/ node = hotspots)
        /\ node' = memory[node].next
        /\ UNCHANGED <<pc, number, memory, bssid, tempnode, i, j>>
    BY <1>7 DEF SearchNext
  <2>2. node \in Nodes /\ node' = Following(node)
    BY <1>1, <1>2, <2>1 DEF TypeOK
  <2>3. TypeOK'
    BY <1>1, <2>1, <2>2 DEF TypeOK, Nodes, NodeType, Following
  <2>4. NothingLost' /\ Loops'
    BY <1>1, <2>1 DEF NothingLost, Loops, SortedTo, Strength, Nodes, Following
  <2>5. Searched'
    <3> SUFFICES ASSUME NEW n \in 2 .. number, node' = NULL \/ n < node'
                 PROVE  ~ Connected(n)
      BY <1>1, <2>1 DEF Searched, ConnectedFirst, Connected
    <3>1. n < node \/ n = node
      BY <1>1, <2>2 DEF TypeOK, Nodes, Following, NULL
    <3>2. QED
      BY <1>1, <2>1, <3>1 DEF Searched, hotspots
  <2>6. QED
    BY <2>3, <2>4, <2>5 DEF IInv
<1>8. CASE SearchFinds
  <2>1. /\ pc = "search" /\ node # NULL /\ Connected(node) /\ node # hotspots
        /\ memory' = Exchanged(memory, node, hotspots) /\ pc' = "done"
        /\ UNCHANGED <<number, bssid, node, tempnode, i, j>>
    BY <1>8 DEF SearchFinds
  <2>2. node \in Nodes /\ hotspots \in Nodes
    BY <1>1, <2>1 DEF TypeOK, Nodes, hotspots
  <2>3. memory' \in [Nodes -> NodeType] /\ NothingLost'
    BY <1>1, <2>1, <2>2, ExchangeLosesNothing
  <2>4. TypeOK'
    BY <1>1, <2>1, <2>3 DEF TypeOK, Nodes, NodeType
  <2>5. memory'[hotspots].bssid = memory[node].bssid
    <3>1. Swapped(memory', node, hotspots)
      BY <1>1, <2>1, <2>2, ExchangeLemma
    <3>2. QED
      BY <3>1 DEF Swapped
  <2>6. Loops' /\ Searched'
    BY <2>1, <2>5 DEF Loops, Searched, ConnectedFirst, Connected
  <2>7. QED
    BY <2>3, <2>4, <2>6 DEF IInv
<1>9. CASE UNCHANGED vars
  BY <1>1, <1>9 DEF IInv, TypeOK, NothingLost, Loops, SortedTo, Strength, Searched,
     ConnectedFirst, Connected, Nodes, NodeType, Following, vars
<1>10. QED
  BY <1>3, <1>4, <1>5, <1>6, <1>7, <1>8, <1>9 DEF Next

LEMMA Invariant == Spec => []IInv
<1>1. QED
  BY Initially, Step, PTL DEF Spec

\* The loops stay within the list: every pointer they follow is a node of the
\* scan, and NULL is only met at its end, for scans of every length.
THEOREM TypeCorrect == Spec => []TypeOK
<1>1. IInv => TypeOK
  BY DEF IInv
<1>2. QED
  BY <1>1, Invariant, PTL

\* No hotspot of the scan is dropped, and the list stays a list.
THEOREM NothingLostCorrect == Spec => []NothingLost
<1>1. IInv => NothingLost
  BY DEF IInv
<1>2. QED
  BY <1>1, Invariant, PTL

\* What the sort achieves: descending order behind the head.
THEOREM TailOrderedCorrect == Spec => []TailOrdered
<1>1. IInv => TailOrdered
  BY DEF IInv, Loops, TailOrdered, SortedTo, Strength, Nodes, TypeOK
<1>2. QED
  BY <1>1, Invariant, PTL

\* The connected hotspot, if the scan has it, is the head in the end.
THEOREM ConnectedFirstCorrect == Spec => []ConnectedFirst
<1>1. IInv => ConnectedFirst
  BY DEF IInv, Searched
<1>2. QED
  BY <1>1, Invariant, PTL

-----------------------------------------------------------------------------

\* A hotspot of the list keeps its strength, wherever in the list it goes.
Kept(n) ==
  \E m \in Nodes : /\ memory'[m].bssid = memory[n].bssid
                  /\ memory'[m].signal_strength = memory[n].signal_strength

LEMMA ExchangeKeeps ==
  ASSUME TypeOK, NEW a \in Nodes, NEW b \in Nodes, a # b, memory' = Exchanged(memory, a, b),
         NEW n \in Nodes
  PROVE  Kept(n)
<1>1. Swapped(memory', a, b)
  BY ExchangeLemma
<1>2. CASE n = a
  BY <1>1, <1>2 DEF Swapped, Kept
<1>3. CASE n = b
  BY <1>1, <1>3 DEF Swapped, Kept
<1>4. CASE n \notin {a, b}
  BY <1>1, <1>4 DEF Swapped, Kept
<1>5. QED
  BY <1>2, <1>3, <1>4

\* What sort and search do is rearrange: no step gives a hotspot the strength of
\* another one, although each exchange copies whole structures over each other.
THEOREM StrengthsKept == Spec => [][\A n \in Nodes : Kept(n)]_vars
<1>1. ASSUME IInv, [Next]_vars PROVE [\A n \in Nodes : Kept(n)]_vars
  <2>1. CASE InnerStep
    <3>1. CASE memory' = memory
      BY <3>1 DEF Kept
    <3>2. CASE memory' # memory
      <4>1. /\ pc = "inner" /\ j < number /\ memory' = Exchanged(memory, node, tempnode)
            /\ node = i + 1 /\ tempnode = Following(j) /\ i < j
        BY <1>1, <2>1, <3>2 DEF InnerStep, IInv, Loops
      <4>2. node \in Nodes /\ tempnode \in Nodes /\ node # tempnode
        BY <1>1, <4>1 DEF IInv, TypeOK, Nodes, Following
      <4>3. QED
        BY <1>1, <4>1, <4>2, ExchangeKeeps DEF IInv
    <3>3. QED
      BY <3>1, <3>2
  <2>2. CASE SearchFinds
    <3>1. /\ memory' = Exchanged(memory, node, hotspots)
          /\ node \in Nodes /\ hotspots \in Nodes /\ node # hotspots
      BY <1>1, <2>2 DEF SearchFinds, IInv, TypeOK, Nodes, hotspots
    <3>2. QED
      BY <1>1, <3>1, ExchangeKeeps DEF IInv
  <2>3. CASE Outer \/ InnerEnds \/ SearchEnds \/ SearchNext \/ UNCHANGED vars
    BY <2>3 DEF Outer, InnerEnds, SearchEnds, SearchNext, Kept, vars
  <2>4. QED
    BY <1>1, <2>1, <2>2, <2>3 DEF Next
<1>2. QED
  BY <1>1, Invariant, PTL DEF Spec

\* What is left to do: phases, rounds of the sort, and turns of the loop at work.
Phases == CASE pc \in {"outer", "inner"} -> 2 [] pc = "search" -> 1 [] pc = "done" -> 0

Rounds == IF pc \in {"outer", "inner"} THEN number - i ELSE 0

Turns ==
  CASE pc = "outer"  -> number
    [] pc = "inner"  -> number - j
    [] pc = "search" -> IF node = NULL THEN 0 ELSE number - node + 1
    [] pc = "done"   -> 0

\* Less is left afterwards, in the order of that list.
Descends ==
  \/ Phases' < Phases
  \/ Phases' = Phases /\ Rounds' < Rounds
  \/ Phases' = Phases /\ Rounds' = Rounds /\ Turns' < Turns

\* The loops of report_wifi_scan_info, which end by what the pointers and counters
\* they change make of their conditions, end for scans of every length.
THEOREM Terminates == Spec => [](Rounds \in Nat /\ Turns \in Nat) /\ [][Descends]_vars
<1>1. IInv => Rounds \in Nat /\ Turns \in Nat
  BY DEF IInv, TypeOK, Rounds, Turns, Nodes, NULL
<1>2. ASSUME IInv, [Next]_vars PROVE [Descends]_vars
  <2> USE DEF IInv, TypeOK, Nodes, NULL, Descends, Phases, Rounds, Turns
  <2>1. CASE Outer
    BY <1>1, <1>2, <2>1 DEF Outer
  <2>2. CASE InnerStep
    BY <1>2, <2>2 DEF InnerStep
  <2>3. CASE InnerEnds
    <3>1. i < number
      BY <1>2, <2>3 DEF InnerEnds, Loops
    <3>2. QED
      BY <1>2, <2>3, <3>1 DEF InnerEnds
  <2>4. CASE SearchEnds
    BY <1>2, <2>4 DEF SearchEnds
  <2>5. CASE SearchNext
    <3>1. node' = Following(node) /\ node \in Nodes
      BY <1>2, <2>5 DEF SearchNext, NothingLost
    <3>2. QED
      BY <1>2, <2>5, <3>1 DEF SearchNext, Following
  <2>6. CASE SearchFinds
    BY <1>2, <2>6 DEF SearchFinds
  <2>7. CASE UNCHANGED vars
    BY <2>7
  <2>8. QED
    BY <1>2, <2>1, <2>2, <2>3, <2>4, <2>5, <2>6, <2>7 DEF Next
<1>3. QED
  BY <1>1, <1>2, Invariant, PTL DEF Spec
=============================================================================
