------------------------- MODULE HotspotListProofs -------------------------
(***************************************************************************)
(* Proofs about HotspotList, for any number of hotspots and lists and any   *)
(* set of procedures.                                                      *)
(***************************************************************************)
EXTENDS HotspotList, TLAPS

\* What the control points say: a pause and a closed device exclude the scan
\* thread, and a procedure that is never called is never under way.
Control ==
  /\ main \in Held => scanner = "away"
  /\ ~ running => scanner = "away" /\ main \in {"idle", "close_clear"}
  /\ main = "close_clear" => ~ running
  /\ "disconnect" \notin Procedures => main \notin {"disconnecting", "clear"}

IInv == TypeOK /\ Control /\ ListsOwned /\ ClosedEmpty

-----------------------------------------------------------------------------
(***************************************************************************)
(* Hotspots and events.                                                    *)
(***************************************************************************)

LEMMA HotspotsLemma ==
  /\ \A h \in Hotspots : DOMAIN h \subseteq Bssids /\ \A b \in DOMAIN h : h[b] \in Strengths
  /\ \A S \in SUBSET Bssids : [S -> Strengths] \subseteq Hotspots
  /\ NoHotspots \in Hotspots
<1>1. \A h \in Hotspots : DOMAIN h \subseteq Bssids /\ \A b \in DOMAIN h : h[b] \in Strengths
  <2> SUFFICES ASSUME NEW h \in Hotspots
               PROVE  DOMAIN h \subseteq Bssids /\ \A b \in DOMAIN h : h[b] \in Strengths
    OBVIOUS
  <2>1. PICK S \in SUBSET Bssids : h \in [S -> Strengths]
    BY DEF Hotspots
  <2>2. QED
    BY <2>1
<1>2. \A S \in SUBSET Bssids : [S -> Strengths] \subseteq Hotspots
  BY DEF Hotspots
<1>3. NoHotspots \in [{} -> Strengths]
  BY DEF NoHotspots
<1>4. QED
  BY <1>1, <1>2, <1>3

\* What an event does to the map of a subscriber: if it knows the old hotspots
\* it then knows the new ones, and it believes in no others than before.
LEMMA ApplyLemma ==
  ASSUME NEW map \in Hotspots, NEW old \in Hotspots, NEW new \in Hotspots, map # NULL
  PROVE  /\ Apply(map, Event(old, new)) \in Hotspots
         /\ (\A b \in DOMAIN old : b \in DOMAIN map /\ map[b] = old[b]) =>
              \A b \in DOMAIN new :
                /\ b \in DOMAIN Apply(map, Event(old, new))
                /\ Apply(map, Event(old, new))[b] = new[b]
         /\ DOMAIN Apply(map, Event(old, new)) \ DOMAIN new \subseteq DOMAIN map \ DOMAIN old
<1> DEFINE e == Event(old, new)
           after == Apply(map, e)
           D == (DOMAIN map \ e.missed) \cup DOMAIN e.found
<1>1. /\ DOMAIN e.found = DOMAIN new \ DOMAIN old
      /\ \A b \in DOMAIN new \ DOMAIN old : e.found[b] = new[b]
      /\ e.missed = DOMAIN old \ DOMAIN new
      /\ DOMAIN e.changed = {b \in DOMAIN old \cap DOMAIN new : old[b] # new[b]}
      /\ \A b \in DOMAIN e.changed : e.changed[b] = new[b]
  BY DEF Event, Restrict
<1>2. /\ DOMAIN after = D
      /\ \A b \in D :
           after[b] = IF b \in DOMAIN e.found THEN e.found[b]
                      ELSE IF b \in DOMAIN e.changed THEN e.changed[b] ELSE map[b]
      /\ after = [b \in D |-> after[b]]
  BY DEF Apply
<1>3. D \subseteq Bssids
  BY <1>1, HotspotsLemma
<1>4. ASSUME NEW b \in D PROVE after[b] \in Strengths
  <2>1. CASE b \in DOMAIN e.found
    <3>1. after[b] = new[b] /\ b \in DOMAIN new
      BY <1>1, <1>2, <2>1
    <3>2. QED
      BY <3>1, HotspotsLemma
  <2>2. CASE b \notin DOMAIN e.found /\ b \in DOMAIN e.changed
    <3>1. after[b] = new[b] /\ b \in DOMAIN new
      BY <1>1, <1>2, <2>2
    <3>2. QED
      BY <3>1, HotspotsLemma
  <2>3. CASE b \notin DOMAIN e.found /\ b \notin DOMAIN e.changed
    <3>1. after[b] = map[b] /\ b \in DOMAIN map
      BY <1>2, <2>3
    <3>2. QED
      BY <3>1, HotspotsLemma
  <2>4. QED
    BY <2>1, <2>2, <2>3
<1>5. after \in [D -> Strengths]
  BY <1>2, <1>4
<1>6. after \in Hotspots
  BY <1>3, <1>5, HotspotsLemma
<1>7. ASSUME \A b \in DOMAIN old : b \in DOMAIN map /\ map[b] = old[b], NEW b \in DOMAIN new
      PROVE  b \in DOMAIN after /\ after[b] = new[b]
  <2>1. CASE b \notin DOMAIN old
    BY <1>1, <1>2, <2>1
  <2>2. CASE b \in DOMAIN old
    <3>1. b \in D /\ b \notin DOMAIN e.found /\ map[b] = old[b]
      BY <1>1, <1>7, <2>2
    <3>2. after[b] = IF b \in DOMAIN e.changed THEN e.changed[b] ELSE map[b]
      BY <1>2, <3>1
    <3>3. QED
      BY <1>1, <1>2, <2>2, <3>1, <3>2
  <2>3. QED
    BY <2>1, <2>2
<1>8. DOMAIN after \ DOMAIN new \subseteq DOMAIN map \ DOMAIN old
  BY <1>1, <1>2
<1>9. QED
  BY <1>6, <1>7, <1>8

-----------------------------------------------------------------------------
(***************************************************************************)
(* The inductive invariant.                                                *)
(***************************************************************************)

LEMMA Initially == Init => IInv
BY ListsAssumption, HotspotsLemma
   DEF Init, IInv, TypeOK, Control, ListsOwned, ClosedEmpty, Allocated, MainPoints,
       ScannerPoints, Held, ListHeld

LEMMA ControlStep == TypeOK /\ Control /\ [Next]_vars => Control'
<1> SUFFICES ASSUME TypeOK, Control, [Next]_vars PROVE Control'
  OBVIOUS
<1> USE DEF Control, TypeOK, Held, MainStep, ScannerStep, Call, locals, lists, device
<1>1. CASE ScanBegins
  BY <1>1 DEF ScanBegins
<1>2. CASE ScanEnds
  BY <1>2 DEF ScanEnds
<1>3. CASE ReportDropped
  BY <1>3 DEF ReportDropped, Allocate
<1>4. CASE Compare
  BY <1>4 DEF Compare
<1>5. CASE Publish
  BY <1>5 DEF Publish
<1>6. CASE Open
  BY <1>6 DEF Open
<1>7. CASE StartScan
  BY <1>7 DEF StartScan
<1>8. CASE ListPrinted
  BY <1>8 DEF ListPrinted
<1>9. CASE Connect
  BY <1>9 DEF Connect
<1>10. CASE ConnectReturns
  BY <1>10 DEF ConnectReturns
<1>11. CASE ReadStatus
  BY <1>11 DEF ReadStatus
<1>12. CASE TakePointer
  BY <1>12 DEF TakePointer
<1>13. CASE LockWalk
  BY <1>13 DEF LockWalk
<1>14. CASE Walk
  BY <1>14 DEF Walk
<1>15. CASE Info
  BY <1>15 DEF Info
<1>16. CASE InfoReturns
  BY <1>16 DEF InfoReturns
<1>17. CASE Disconnect
  BY <1>17 DEF Disconnect
<1>18. CASE DisconnectReturns
  BY <1>18 DEF DisconnectReturns
<1>19. CASE Clear
  BY <1>19 DEF Clear
<1>20. CASE Close
  BY <1>20 DEF Close
<1>21. CASE Closed
  BY <1>21 DEF Closed
<1>22. CASE CloseClear
  BY <1>22 DEF CloseClear
<1>23. ASSUME NEW results \in Hotspots, ReportBegins(results) PROVE Control'
  BY <1>23 DEF ReportBegins, Allocate
<1>24. CASE UNCHANGED vars
  BY <1>24 DEF vars
<1>25. QED
  BY <1>1, <1>2, <1>3, <1>4, <1>5, <1>6, <1>7, <1>8, <1>9, <1>10, <1>11, <1>12,
     <1>13, <1>14, <1>15, <1>16, <1>17, <1>18, <1>19, <1>20, <1>21, <1>22, <1>23, <1>24
     DEF Next, Scanner, Main

\* A list is freed by the device that owns it, or handed over to it.
LEMMA ListsStep == IInv /\ [Next]_vars => ListsOwned'
<1> SUFFICES ASSUME IInv, [Next]_vars PROVE ListsOwned'
  OBVIOUS
<1> USE ListsAssumption, FreeAssumption
    DEF IInv, TypeOK, ListsOwned, Allocated, MainStep, ScannerStep, Call, locals, lists,
        device, Freed, ClearList
<1>1. CASE ScanBegins
  BY <1>1 DEF ScanBegins
<1>2. CASE ScanEnds
  BY <1>2 DEF ScanEnds
<1>3. CASE ReportDropped
  BY <1>3, HotspotsLemma DEF ReportDropped, Allocate
<1>4. CASE Compare
  BY <1>4 DEF Compare
<1>5. CASE Publish
  BY <1>5 DEF Publish
<1>6. CASE Open
  BY <1>6 DEF Open
<1>7. CASE StartScan
  BY <1>7 DEF StartScan
<1>8. CASE ListPrinted
  BY <1>8 DEF ListPrinted
<1>9. CASE Connect
  BY <1>9 DEF Connect
<1>10. CASE ConnectReturns
  BY <1>10 DEF ConnectReturns
<1>11. CASE ReadStatus
  BY <1>11 DEF ReadStatus
<1>12. CASE TakePointer
  BY <1>12 DEF TakePointer
<1>13. CASE LockWalk
  BY <1>13 DEF LockWalk
<1>14. CASE Walk
  BY <1>14 DEF Walk
<1>15. CASE Info
  BY <1>15 DEF Info
<1>16. CASE InfoReturns
  BY <1>16 DEF InfoReturns
<1>17. CASE Disconnect
  BY <1>17 DEF Disconnect
<1>18. CASE DisconnectReturns
  BY <1>18 DEF DisconnectReturns
<1>19. CASE Clear
  BY <1>19 DEF Clear
<1>20. CASE Close
  BY <1>20 DEF Close
<1>21. CASE Closed
  BY <1>21 DEF Closed
<1>22. CASE CloseClear
  BY <1>22 DEF CloseClear
<1>23. ASSUME NEW results \in Hotspots, ReportBegins(results) PROVE ListsOwned'
  BY <1>23 DEF ReportBegins, Allocate
<1>24. CASE UNCHANGED vars
  BY <1>24 DEF vars
<1>25. QED
  BY <1>1, <1>2, <1>3, <1>4, <1>5, <1>6, <1>7, <1>8, <1>9, <1>10, <1>11, <1>12,
     <1>13, <1>14, <1>15, <1>16, <1>17, <1>18, <1>19, <1>20, <1>21, <1>22, <1>23, <1>24
     DEF Next, Scanner, Main

LEMMA ClosedStep == IInv /\ [Next]_vars => ClosedEmpty'
<1> SUFFICES ASSUME IInv, [Next]_vars PROVE ClosedEmpty'
  OBVIOUS
<1> USE DEF IInv, Control, ClosedEmpty, MainStep, ScannerStep, Call, locals, lists, device,
            ClearList
<1>1. CASE ScanBegins
  BY <1>1 DEF ScanBegins
<1>2. CASE ScanEnds
  BY <1>2 DEF ScanEnds
<1>3. CASE ReportDropped
  BY <1>3 DEF ReportDropped, Allocate
<1>4. CASE Compare
  BY <1>4 DEF Compare
<1>5. CASE Publish
  BY <1>5 DEF Publish
<1>6. CASE Open
  BY <1>6 DEF Open
<1>7. CASE StartScan
  BY <1>7 DEF StartScan
<1>8. CASE ListPrinted
  BY <1>8 DEF ListPrinted
<1>9. CASE Connect
  BY <1>9 DEF Connect
<1>10. CASE ConnectReturns
  BY <1>10 DEF ConnectReturns
<1>11. CASE ReadStatus
  BY <1>11 DEF ReadStatus
<1>12. CASE TakePointer
  BY <1>12 DEF TakePointer
<1>13. CASE LockWalk
  BY <1>13 DEF LockWalk
<1>14. CASE Walk
  BY <1>14 DEF Walk
<1>15. CASE Info
  BY <1>15 DEF Info
<1>16. CASE InfoReturns
  BY <1>16 DEF InfoReturns
<1>17. CASE Disconnect
  BY <1>17 DEF Disconnect
<1>18. CASE DisconnectReturns
  BY <1>18 DEF DisconnectReturns
<1>19. CASE Clear
  BY <1>19 DEF Clear
<1>20. CASE Close
  BY <1>20 DEF Close
<1>21. CASE Closed
  BY <1>21 DEF Closed
<1>22. CASE CloseClear
  BY <1>22 DEF CloseClear
<1>23. ASSUME NEW results \in Hotspots, ReportBegins(results) PROVE ClosedEmpty'
  BY <1>23 DEF ReportBegins, Allocate
<1>24. CASE UNCHANGED vars
  BY <1>24 DEF vars
<1>25. QED
  BY <1>1, <1>2, <1>3, <1>4, <1>5, <1>6, <1>7, <1>8, <1>9, <1>10, <1>11, <1>12,
     <1>13, <1>14, <1>15, <1>16, <1>17, <1>18, <1>19, <1>20, <1>21, <1>22, <1>23, <1>24
     DEF Next, Scanner, Main

LEMMA TypeStep == IInv /\ [Next]_vars => TypeOK'
<1> SUFFICES ASSUME IInv, [Next]_vars PROVE TypeOK'
  OBVIOUS
<1> USE ListsAssumption
    DEF IInv, TypeOK, MainPoints, ScannerPoints, Held, ListHeld, MainStep, ScannerStep,
        Call, locals, lists, device, Freed, ClearList
<1>1. CASE ScanBegins
  BY <1>1 DEF ScanBegins
<1>2. CASE ScanEnds
  BY <1>2 DEF ScanEnds
<1>3. CASE ReportDropped
  BY <1>3, HotspotsLemma DEF ReportDropped, Allocate
<1>4. CASE Compare
  <2>1. known' \in Hotspots \cup {NULL}
    <3>1. CASE OldListGone
      BY <1>4, <3>1 DEF Compare
    <3>2. CASE ~ OldListGone /\ known = NULL
      BY <1>4, <3>2 DEF Compare, Apply
    <3>3. CASE ~ OldListGone /\ known # NULL
      <4>1. known' = Apply(known, Event(At(host), memory[hotspots]))
        BY <1>4, <3>3 DEF Compare
      <4>2. At(host) \in Hotspots /\ memory[hotspots] \in Hotspots
        BY <1>4, <3>3, HotspotsLemma DEF Compare, At, ListsOwned, Allocated, OldListGone
      <4>3. QED
        BY <3>3, <4>1, <4>2, ApplyLemma
    <3>4. QED
      BY <3>1, <3>2, <3>3
  <2>2. QED
    BY <1>4, <2>1 DEF Compare
<1>5. CASE Publish
  BY <1>5 DEF Publish
<1>6. CASE Open
  <2>1. running' \in BOOLEAN
    BY <1>6, Zenon DEF Open
  <2>2. QED
    BY <1>6, <2>1 DEF Open
<1>7. CASE StartScan
  BY <1>7 DEF StartScan
<1>8. CASE ListPrinted
  BY <1>8 DEF ListPrinted
<1>9. CASE Connect
  BY <1>9 DEF Connect
<1>10. CASE ConnectReturns
  BY <1>10 DEF ConnectReturns
<1>11. CASE ReadStatus
  BY <1>11 DEF ReadStatus
<1>12. CASE TakePointer
  BY <1>12 DEF TakePointer
<1>13. CASE LockWalk
  BY <1>13 DEF LockWalk
<1>14. CASE Walk
  BY <1>14 DEF Walk
<1>15. CASE Info
  BY <1>15 DEF Info
<1>16. CASE InfoReturns
  BY <1>16 DEF InfoReturns
<1>17. CASE Disconnect
  BY <1>17 DEF Disconnect
<1>18. CASE DisconnectReturns
  BY <1>18 DEF DisconnectReturns
<1>19. CASE Clear
  BY <1>19 DEF Clear
<1>20. CASE Close
  BY <1>20 DEF Close
<1>21. CASE Closed
  <2>1. running' \in BOOLEAN
    BY <1>21, Zenon DEF Closed
  <2>2. QED
    BY <1>21, <2>1 DEF Closed
<1>22. CASE CloseClear
  BY <1>22 DEF CloseClear
<1>23. ASSUME NEW results \in Hotspots, ReportBegins(results) PROVE TypeOK'
  BY <1>23 DEF ReportBegins, Allocate
<1>24. CASE UNCHANGED vars
  BY <1>24 DEF vars
<1>25. QED
  BY <1>1, <1>2, <1>3, <1>4, <1>5, <1>6, <1>7, <1>8, <1>9, <1>10, <1>11, <1>12,
     <1>13, <1>14, <1>15, <1>16, <1>17, <1>18, <1>19, <1>20, <1>21, <1>22, <1>23, <1>24
     DEF Next, Scanner, Main

LEMMA Step == IInv /\ [Next]_vars => IInv'
BY TypeStep, ControlStep, ListsStep, ClosedStep DEF IInv

LEMMA Invariant == Spec => []IInv
<1>1. QED
  BY Initially, Step, PTL DEF Spec

-----------------------------------------------------------------------------

\* Types, and the pointers in step with the control points.
THEOREM TypeCorrect == Spec => []TypeOK
<1>1. IInv => TypeOK
  BY DEF IInv
<1>2. QED
  BY <1>1, Invariant, PTL

\* No list is freed twice, and none is lost but those that a report dropped on its
\* early returns, whichever procedures clients call.
THEOREM ListsOwnedCorrect == Spec => []ListsOwned
<1>1. IInv => ListsOwned
  BY DEF IInv
<1>2. QED
  BY <1>1, Invariant, PTL

\* A closed device has no hotspots.
THEOREM ClosedEmptyCorrect == Spec => []ClosedEmpty
<1>1. IInv => ClosedEmpty
  BY DEF IInv
<1>2. QED
  BY <1>1, Invariant, PTL

-----------------------------------------------------------------------------
(***************************************************************************)
(* The lists in use.                                                       *)
(***************************************************************************)

LEMMA KeptStep ==
  IInv /\ [Next]_vars =>
    [/\ main \in ListHeld => ListKept(node)
     /\ scanner = "compare" /\ main # "clear" => ListKept(host)]_vars
<1> DEFINE Kept == /\ main \in ListHeld => ListKept(node)
                   /\ scanner = "compare" /\ main # "clear" => ListKept(host)
<1> SUFFICES ASSUME IInv, [Next]_vars PROVE Kept
  OBVIOUS
<1> USE ListsAssumption, FreeAssumption
    DEF IInv, TypeOK, Control, ListHeld, ListKept, MainStep, ScannerStep, Call, locals,
        lists, device, ClearList
<1>1. CASE ScanBegins
  BY <1>1 DEF ScanBegins
<1>2. CASE ScanEnds
  BY <1>2 DEF ScanEnds
<1>3. CASE ReportDropped
  BY <1>3 DEF ReportDropped, Allocate
<1>4. CASE Compare
  BY <1>4 DEF Compare
<1>5. CASE Publish
  BY <1>5 DEF Publish
<1>6. CASE Open
  BY <1>6 DEF Open
<1>7. CASE StartScan
  BY <1>7 DEF StartScan
<1>8. CASE ListPrinted
  BY <1>8 DEF ListPrinted
<1>9. CASE Connect
  BY <1>9 DEF Connect
<1>10. CASE ConnectReturns
  BY <1>10 DEF ConnectReturns
<1>11. CASE ReadStatus
  BY <1>11 DEF ReadStatus
<1>12. CASE TakePointer
  BY <1>12 DEF TakePointer
<1>13. CASE LockWalk
  BY <1>13 DEF LockWalk
<1>14. CASE Walk
  BY <1>14 DEF Walk
<1>15. CASE Info
  BY <1>15 DEF Info
<1>16. CASE InfoReturns
  BY <1>16 DEF InfoReturns
<1>17. CASE Disconnect
  BY <1>17 DEF Disconnect
<1>18. CASE DisconnectReturns
  BY <1>18 DEF DisconnectReturns
<1>19. CASE Clear
  BY <1>19 DEF Clear
<1>20. CASE Close
  BY <1>20 DEF Close
<1>21. CASE Closed
  BY <1>21 DEF Closed
<1>22. CASE CloseClear
  BY <1>22 DEF CloseClear
<1>23. ASSUME NEW results \in Hotspots, ReportBegins(results) PROVE Kept
  BY <1>23 DEF ReportBegins, Allocate
<1>24. CASE UNCHANGED vars
  BY <1>24 DEF vars
<1>25. QED
  BY <1>1, <1>2, <1>3, <1>4, <1>5, <1>6, <1>7, <1>8, <1>9, <1>10, <1>11, <1>12,
     <1>13, <1>14, <1>15, <1>16, <1>17, <1>18, <1>19, <1>20, <1>21, <1>22, <1>23, <1>24
     DEF Next, Scanner, Main

\* No procedure and no report frees a list that another thread is using, except
\* wifiDisconnect.
THEOREM InUseKeptCorrect == Spec => InUseKept
<1>1. QED
  BY Invariant, KeptStep, PTL DEF Spec, InUseKept

ListingInv == main = "listing" => node = first_hotspot

LEMMA ListingStep == IInv /\ ListingInv /\ [Next]_vars => ListingInv'
<1> SUFFICES ASSUME IInv, ListingInv, [Next]_vars PROVE ListingInv'
  OBVIOUS
<1> USE DEF IInv, TypeOK, ListingInv, ListHeld, MainStep, ScannerStep, Call, locals, lists,
            device, ClearList
<1>1. CASE ScanBegins
  BY <1>1 DEF ScanBegins
<1>2. CASE ScanEnds
  BY <1>2 DEF ScanEnds
<1>3. CASE ReportDropped
  BY <1>3 DEF ReportDropped, Allocate
<1>4. CASE Compare
  BY <1>4 DEF Compare
<1>5. CASE Publish
  BY <1>5 DEF Publish
<1>6. CASE Open
  BY <1>6 DEF Open
<1>7. CASE StartScan
  BY <1>7 DEF StartScan
<1>8. CASE ListPrinted
  BY <1>8 DEF ListPrinted
<1>9. CASE Connect
  BY <1>9 DEF Connect
<1>10. CASE ConnectReturns
  BY <1>10 DEF ConnectReturns
<1>11. CASE ReadStatus
  BY <1>11 DEF ReadStatus
<1>12. CASE TakePointer
  BY <1>12 DEF TakePointer
<1>13. CASE LockWalk
  BY <1>13 DEF LockWalk
<1>14. CASE Walk
  BY <1>14 DEF Walk
<1>15. CASE Info
  BY <1>15 DEF Info
<1>16. CASE InfoReturns
  BY <1>16 DEF InfoReturns
<1>17. CASE Disconnect
  BY <1>17 DEF Disconnect
<1>18. CASE DisconnectReturns
  BY <1>18 DEF DisconnectReturns
<1>19. CASE Clear
  BY <1>19 DEF Clear
<1>20. CASE Close
  BY <1>20 DEF Close
<1>21. CASE Closed
  BY <1>21 DEF Closed
<1>22. CASE CloseClear
  BY <1>22 DEF CloseClear
<1>23. ASSUME NEW results \in Hotspots, ReportBegins(results) PROVE ListingInv'
  BY <1>23 DEF ReportBegins, Allocate
<1>24. CASE UNCHANGED vars
  BY <1>24 DEF vars
<1>25. QED
  BY <1>1, <1>2, <1>3, <1>4, <1>5, <1>6, <1>7, <1>8, <1>9, <1>10, <1>11, <1>12,
     <1>13, <1>14, <1>15, <1>16, <1>17, <1>18, <1>19, <1>20, <1>21, <1>22, <1>23, <1>24
     DEF Next, Scanner, Main

\* wifiStartScanHotspots prints an allocated list.
THEOREM PrintSafeCorrect == Spec => []PrintSafe
<1>1. Init => ListingInv
  BY DEF Init, ListingInv
<1>2. IInv /\ ListingInv => PrintSafe
  BY DEF IInv, TypeOK, ListingInv, ListsOwned, Allocated, PrintSafe
<1>3. QED
  BY <1>1, <1>2, Invariant, ListingStep, PTL DEF Spec

LEMMA CompareStep ==
  ASSUME "disconnect" \notin Procedures
  PROVE  IInv /\ CompareSafe /\ [Next]_vars => CompareSafe'
<1> SUFFICES ASSUME IInv, CompareSafe, [Next]_vars PROVE CompareSafe'
  OBVIOUS
<1> USE ListsAssumption, FreeAssumption
    DEF IInv, TypeOK, Control, CompareSafe, OldListGone, ListsOwned, Allocated, MainStep,
        ScannerStep, Call, locals, lists, device, ClearList
<1>1. CASE ScanBegins
  BY <1>1 DEF ScanBegins
<1>2. CASE ScanEnds
  BY <1>2 DEF ScanEnds
<1>3. CASE ReportDropped
  BY <1>3 DEF ReportDropped, Allocate
<1>4. CASE Compare
  BY <1>4 DEF Compare
<1>5. CASE Publish
  BY <1>5 DEF Publish
<1>6. CASE Open
  BY <1>6 DEF Open
<1>7. CASE StartScan
  BY <1>7 DEF StartScan
<1>8. CASE ListPrinted
  BY <1>8 DEF ListPrinted
<1>9. CASE Connect
  BY <1>9 DEF Connect
<1>10. CASE ConnectReturns
  BY <1>10 DEF ConnectReturns
<1>11. CASE ReadStatus
  BY <1>11 DEF ReadStatus
<1>12. CASE TakePointer
  BY <1>12 DEF TakePointer
<1>13. CASE LockWalk
  BY <1>13 DEF LockWalk
<1>14. CASE Walk
  BY <1>14 DEF Walk
<1>15. CASE Info
  BY <1>15 DEF Info
<1>16. CASE InfoReturns
  BY <1>16 DEF InfoReturns
<1>17. CASE Disconnect
  BY <1>17 DEF Disconnect
<1>18. CASE DisconnectReturns
  BY <1>18 DEF DisconnectReturns
<1>19. CASE Clear
  BY <1>19 DEF Clear
<1>20. CASE Close
  BY <1>20 DEF Close
<1>21. CASE Closed
  BY <1>21 DEF Closed
<1>22. CASE CloseClear
  BY <1>22 DEF CloseClear
<1>23. ASSUME NEW results \in Hotspots, ReportBegins(results) PROVE CompareSafe'
  BY <1>23 DEF ReportBegins, Allocate
<1>24. CASE UNCHANGED vars
  BY <1>24 DEF vars
<1>25. QED
  BY <1>1, <1>2, <1>3, <1>4, <1>5, <1>6, <1>7, <1>8, <1>9, <1>10, <1>11, <1>12,
     <1>13, <1>14, <1>15, <1>16, <1>17, <1>18, <1>19, <1>20, <1>21, <1>22, <1>23, <1>24
     DEF Next, Scanner, Main

\* Without wifiDisconnect the comparison, which takes no lock, goes through a
\* list that is still allocated: closing the device cannot free it.
THEOREM CompareSafeCorrect ==
  ASSUME "disconnect" \notin Procedures PROVE Spec => []CompareSafe
<1>1. Init => CompareSafe
  BY DEF Init, CompareSafe
<1>2. QED
  BY <1>1, Invariant, CompareStep, PTL DEF Spec

-----------------------------------------------------------------------------
(***************************************************************************)
(* What a subscriber knows.  The scan thread's pointer into the old list   *)
(* is right unless wifiDisconnect has freed that list.                     *)
(***************************************************************************)

HostInv ==
  /\ scanner = "compare" => host = first_hotspot \/ (OldListGone /\ first_hotspot = NULL)
  /\ SubscriberCovers

\* The comparison of two lists that are there.
LEMMA CompareLemma ==
  ASSUME IInv, HostInv, Compare, known' # NULL
  PROVE  /\ SubscriberCovers'
         /\ Ghosts' \subseteq Ghosts
<1> USE ListsAssumption DEF IInv, TypeOK, HostInv
<1>1. ~ OldListGone /\ known' = Apply(known, Event(At(host), memory[hotspots]))
  BY DEF Compare
<1>2. known # NULL
  BY <1>1 DEF Apply
<1>3. /\ scanner = "compare" /\ scanner' = "publish" /\ host = first_hotspot
      /\ hotspots # NULL /\ UNCHANGED <<memory, first_hotspot, hotspots, host>>
  BY <1>1 DEF Compare, ScannerStep, lists, locals
<1>4. At(host) \in Hotspots /\ memory[hotspots] \in Hotspots /\ known \in Hotspots
  BY <1>1, <1>2, <1>3, HotspotsLemma DEF At, ListsOwned, Allocated, OldListGone
<1>5. Reported = At(host) /\ Reported' = memory[hotspots]
  BY <1>3 DEF Reported, At
<1>6. \A b \in DOMAIN At(host) : b \in DOMAIN known /\ known[b] = At(host)[b]
  BY <1>2, <1>5 DEF SubscriberCovers
<1>7. /\ \A b \in DOMAIN memory[hotspots] :
           b \in DOMAIN known' /\ known'[b] = memory[hotspots][b]
      /\ DOMAIN known' \ DOMAIN memory[hotspots] \subseteq DOMAIN known \ DOMAIN At(host)
  BY <1>1, <1>2, <1>4, <1>6, ApplyLemma
<1>8. QED
  BY <1>5, <1>7 DEF SubscriberCovers, Ghosts

LEMMA HostStep ==
  ASSUME IInv, HostInv, [Next]_vars
  PROVE  HostInv'
<1> USE ListsAssumption, FreeAssumption
    DEF IInv, TypeOK, HostInv, SubscriberCovers, Reported, At, OldListGone, MainStep,
        ScannerStep, Call, locals, lists, device
<1>1. CASE ScanBegins
  BY <1>1 DEF ScanBegins
<1>2. CASE ScanEnds
  BY <1>2 DEF ScanEnds
<1>3. CASE ReportDropped
  BY <1>3 DEF ReportDropped, Allocate
<1>4. CASE Compare
  <2>1. known' # NULL => SubscriberCovers'
    BY <1>4, CompareLemma
  <2>2. QED
    BY <1>4, <2>1 DEF Compare
<1>5. CASE Publish
  BY <1>5 DEF Publish, Freed, ListsOwned
<1>6. CASE Open
  BY <1>6 DEF Open
<1>7. CASE StartScan
  BY <1>7 DEF StartScan
<1>8. CASE ListPrinted
  BY <1>8 DEF ListPrinted
<1>9. CASE Connect
  BY <1>9 DEF Connect
<1>10. CASE ConnectReturns
  BY <1>10 DEF ConnectReturns
<1>11. CASE ReadStatus
  BY <1>11 DEF ReadStatus
<1>12. CASE TakePointer
  BY <1>12 DEF TakePointer
<1>13. CASE LockWalk
  BY <1>13 DEF LockWalk
<1>14. CASE Walk
  BY <1>14 DEF Walk
<1>15. CASE Info
  BY <1>15 DEF Info
<1>16. CASE InfoReturns
  BY <1>16 DEF InfoReturns
<1>17. CASE Disconnect
  BY <1>17 DEF Disconnect
<1>18. CASE DisconnectReturns
  BY <1>18 DEF DisconnectReturns
<1>19. CASE Clear
  BY <1>19 DEF Clear, ClearList, Freed, ListsOwned, NoHotspots
<1>20. CASE Close
  BY <1>20 DEF Close
<1>21. CASE Closed
  BY <1>21 DEF Closed
<1>22. CASE CloseClear
  BY <1>22 DEF CloseClear, Control, ClearList, Freed, NoHotspots
<1>23. ASSUME NEW results \in Hotspots, ReportBegins(results) PROVE HostInv'
  BY <1>23 DEF ReportBegins, Allocate, ListsOwned, Allocated
<1>24. CASE UNCHANGED vars
  BY <1>24 DEF vars
<1>25. QED
  BY <1>1, <1>2, <1>3, <1>4, <1>5, <1>6, <1>7, <1>8, <1>9, <1>10, <1>11, <1>12,
     <1>13, <1>14, <1>15, <1>16, <1>17, <1>18, <1>19, <1>20, <1>21, <1>22, <1>23, <1>24
     DEF Next, Scanner, Main

LEMMA HostInvariant == Spec => [](IInv /\ HostInv)
<1>1. Init => IInv /\ HostInv
  BY Initially DEF Init, HostInv, SubscriberCovers, Reported, At, NoHotspots
<1>2. IInv /\ HostInv /\ [Next]_vars => (IInv /\ HostInv)'
  BY Step, HostStep
<1>3. QED
  BY <1>1, <1>2, PTL DEF Spec

\* The events tell a subscriber every hotspot of the list.
THEOREM SubscriberCoversCorrect == Spec => []SubscriberCovers
<1>1. IInv /\ HostInv => SubscriberCovers
  BY DEF HostInv
<1>2. QED
  BY <1>1, HostInvariant, PTL

LEMMA GhostsStep ==
  IInv /\ HostInv /\ [Next]_vars =>
    [known' # NULL /\ main \notin {"clear", "close_clear"} => Ghosts' \subseteq Ghosts]_vars
<1> DEFINE Fewer == known' # NULL /\ main \notin {"clear", "close_clear"} => Ghosts' \subseteq Ghosts
<1> SUFFICES ASSUME IInv, HostInv, [Next]_vars PROVE Fewer
  OBVIOUS
<1> USE ListsAssumption, FreeAssumption
    DEF IInv, TypeOK, Ghosts, Reported, At, MainStep, ScannerStep, Call, locals, lists, device
<1>1. CASE ScanBegins
  BY <1>1 DEF ScanBegins
<1>2. CASE ScanEnds
  BY <1>2 DEF ScanEnds
<1>3. CASE ReportDropped
  BY <1>3 DEF ReportDropped, Allocate
<1>4. CASE Compare
  BY <1>4, CompareLemma
<1>5. CASE Publish
  BY <1>5 DEF Publish, Freed, ListsOwned
<1>6. CASE Open
  BY <1>6 DEF Open
<1>7. CASE StartScan
  BY <1>7 DEF StartScan
<1>8. CASE ListPrinted
  BY <1>8 DEF ListPrinted
<1>9. CASE Connect
  BY <1>9 DEF Connect
<1>10. CASE ConnectReturns
  BY <1>10 DEF ConnectReturns
<1>11. CASE ReadStatus
  BY <1>11 DEF ReadStatus
<1>12. CASE TakePointer
  BY <1>12 DEF TakePointer
<1>13. CASE LockWalk
  BY <1>13 DEF LockWalk
<1>14. CASE Walk
  BY <1>14 DEF Walk
<1>15. CASE Info
  BY <1>15 DEF Info
<1>16. CASE InfoReturns
  BY <1>16 DEF InfoReturns
<1>17. CASE Disconnect
  BY <1>17 DEF Disconnect
<1>18. CASE DisconnectReturns
  BY <1>18 DEF DisconnectReturns
<1>19. CASE Clear
  BY <1>19 DEF Clear
<1>20. CASE Close
  BY <1>20 DEF Close
<1>21. CASE Closed
  BY <1>21 DEF Closed
<1>22. CASE CloseClear
  BY <1>22 DEF CloseClear
<1>23. ASSUME NEW results \in Hotspots, ReportBegins(results) PROVE Fewer
  BY <1>23 DEF ReportBegins, Allocate, ListsOwned, Allocated
<1>24. CASE UNCHANGED vars
  BY <1>24 DEF vars
<1>25. QED
  BY <1>1, <1>2, <1>3, <1>4, <1>5, <1>6, <1>7, <1>8, <1>9, <1>10, <1>11, <1>12,
     <1>13, <1>14, <1>15, <1>16, <1>17, <1>18, <1>19, <1>20, <1>21, <1>22, <1>23, <1>24
     DEF Next, Scanner, Main

\* Every hotspot that goes away in a scan is reported.
THEOREM NoNewGhostsCorrect == Spec => NoNewGhosts
<1>1. QED
  BY HostInvariant, GhostsStep, PTL DEF Spec, NoNewGhosts

-----------------------------------------------------------------------------
(***************************************************************************)
(* The use of the scan service.                                            *)
(***************************************************************************)

user == IF scanner # "away" THEN "scan" ELSE IF main \in Held THEN "client" ELSE "nobody"

LEMMA ServiceInit == Init => Service!Init
BY DEF Init, Service!Init, Held

LEMMA ServiceStep == IInv /\ [Next]_vars => [Service!Next]_<<running, user>>
<1> SUFFICES ASSUME IInv, [Next]_vars PROVE [Service!Next]_<<running, user>>
  OBVIOUS
<1> USE DEF IInv, TypeOK, Control, Held, user, MainStep, ScannerStep, Call, locals, lists,
            device, Service!Next, Service!SwitchOn, Service!SwitchOff, Service!Acquire,
            Service!Release
<1>1. CASE ScanBegins
  BY <1>1 DEF ScanBegins
<1>2. CASE ScanEnds
  BY <1>2 DEF ScanEnds
<1>3. CASE ReportDropped
  BY <1>3 DEF ReportDropped, Allocate
<1>4. CASE Compare
  BY <1>4 DEF Compare
<1>5. CASE Publish
  BY <1>5 DEF Publish
<1>6. CASE Open
  BY <1>6 DEF Open
<1>7. CASE StartScan
  BY <1>7 DEF StartScan
<1>8. CASE ListPrinted
  BY <1>8 DEF ListPrinted
<1>9. CASE Connect
  BY <1>9 DEF Connect
<1>10. CASE ConnectReturns
  BY <1>10 DEF ConnectReturns
<1>11. CASE ReadStatus
  BY <1>11 DEF ReadStatus
<1>12. CASE TakePointer
  BY <1>12 DEF TakePointer
<1>13. CASE LockWalk
  BY <1>13 DEF LockWalk
<1>14. CASE Walk
  BY <1>14 DEF Walk
<1>15. CASE Info
  BY <1>15 DEF Info
<1>16. CASE InfoReturns
  BY <1>16 DEF InfoReturns
<1>17. CASE Disconnect
  BY <1>17 DEF Disconnect
<1>18. CASE DisconnectReturns
  BY <1>18 DEF DisconnectReturns
<1>19. CASE Clear
  BY <1>19 DEF Clear
<1>20. CASE Close
  BY <1>20 DEF Close
<1>21. CASE Closed
  BY <1>21 DEF Closed
<1>22. CASE CloseClear
  BY <1>22 DEF CloseClear
<1>23. ASSUME NEW results \in Hotspots, ReportBegins(results) PROVE [Service!Next]_<<running, user>>
  BY <1>23 DEF ReportBegins, Allocate
<1>24. CASE UNCHANGED vars
  BY <1>24 DEF vars
<1>25. QED
  BY <1>1, <1>2, <1>3, <1>4, <1>5, <1>6, <1>7, <1>8, <1>9, <1>10, <1>11, <1>12,
     <1>13, <1>14, <1>15, <1>16, <1>17, <1>18, <1>19, <1>20, <1>21, <1>22, <1>23, <1>24
     DEF Next, Scanner, Main

\* The procedures and the report use the scan thread as ScanService allows:
\* what ScanThread implements is all this module relies on.
THEOREM Refinement == Spec => UsesService
<1>1. QED
  BY Invariant, ServiceInit, ServiceStep, PTL DEF Spec, UsesService, Service!Spec, user
=============================================================================
