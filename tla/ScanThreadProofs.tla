-------------------------- MODULE ScanThreadProofs --------------------------
(* Theorems about ScanThread, for every set of client operations. *)
EXTENDS ScanThread, Integers, TLAPS

(***************************************************************************)
(* The inductive invariant.  PauseHolds and ResultsExclusive do not follow  *)
(* from their own truth one step earlier: one must know who holds           *)
(* scan_mutex, and that only stop_wifi_scan_thread, which never coexists    *)
(* with a reader or a pause, takes it away from its holder.                 *)
(***************************************************************************)

MutexInv ==
  /\ scanner \in InScanSection /\ main \notin Stopping => scan_mutex = "scanner"
  /\ main \in Reading => scan_mutex = "main"

LifetimeInv ==
  /\ main # "idle" => initialised
  /\ scanner # "none" => initialised
  /\ main = "destroy" => scanner = "none"

HeldInv == main = "held" => scan_pause

ScanInv == TypeOK /\ MutexInv /\ LifetimeInv /\ HeldInv /\ PauseHolds

\* The invariant yields the properties the runs check.
LEMMA ScanInvImplies == ScanInv => PauseHolds /\ ResultsExclusive /\ SyncObjectsLive
BY DEF ScanInv, MutexInv, LifetimeInv, PauseHolds, ResultsExclusive, SyncObjectsLive,
       InScanSection, Scanning, Reading, Stopping

LEMMA ScanInvInit == Init => ScanInv
BY DEF Init, ScanInv, TypeOK, MutexInv, LifetimeInv, HeldInv, PauseHolds, MainPoints,
       ScannerPoints, InScanSection, Scanning, Reading, Stopping, Threads

LEMMA TypeStep == TypeOK /\ [Next]_vars => TypeOK'
<1> SUFFICES ASSUME TypeOK, [Next]_vars PROVE TypeOK'
  OBVIOUS
<1> USE DEF TypeOK, locks, flags, progress, MainPoints, ScannerPoints, InScanSection,
            Scanning, Reading, Stopping, Threads, MainStep, ScannerStep, Lock, Unlock, Signal
<1>1. CASE Loop
  BY <1>1 DEF Loop
<1>2. CASE Gate
  <2>1. scan_complete' \in BOOLEAN
    BY <1>2, Zenon DEF Gate
  <2>2. CASE scan_pause
    BY <1>2, <2>1, <2>2 DEF Gate
  <2>3. CASE ~ scan_pause
    BY <1>2, <2>1, <2>3 DEF Gate
  <2> QED
    BY <2>2, <2>3
<1>3. CASE Park
  BY <1>3 DEF Park
<1>4. CASE IssueScan
  BY <1>4 DEF IssueScan
<1>5. CASE CommandFails
  BY <1>5 DEF CommandFails
<1>6. CASE Backoff
  BY <1>6 DEF Backoff
<1>7. CASE ResultReady
  BY <1>7 DEF ResultReady
<1>8. CASE NoResult
  BY <1>8 DEF NoResult
<1>9. CASE FetchResults
  <2>1. scan_error' \in BOOLEAN
    BY <1>9, Zenon DEF FetchResults
  <2> QED
    BY <1>9, <2>1 DEF FetchResults
<1>10. CASE Report
  BY <1>10 DEF Report
<1>11. CASE Sleep
  BY <1>11 DEF Sleep
<1>12. CASE IntervalElapses
  BY <1>12 DEF IntervalElapses
<1>13. CASE EnterRound
  BY <1>13 DEF EnterRound
<1>14. CASE Unpark
  BY <1>14 DEF Unpark
<1>15. CASE RoundOver
  BY <1>15 DEF RoundOver
<1>16. CASE Wake
  BY <1>16 DEF Wake
<1>17. CASE StopPause
  <2>1. scan_pause' \in BOOLEAN
    BY <1>17, Zenon DEF StopPause
  <2> QED
    BY <1>17, <2>1 DEF StopPause
<1>18. CASE StopUnlock
  BY <1>18 DEF StopUnlock
<1>19. CASE StopSignal
  BY <1>19 DEF StopSignal
<1>20. CASE Join
  BY <1>20 DEF Join
<1>21. CASE Destroy
  <2>1. initialised' \in BOOLEAN /\ enabled' \in BOOLEAN
    BY <1>21, Zenon DEF Destroy
  <2> QED
    BY <1>21, <2>1 DEF Destroy
<1>22. CASE UpdateCompletes
  BY <1>22 DEF UpdateCompletes, PollEnds
<1>23. CASE UpdateTimesOut
  BY <1>23 DEF UpdateTimesOut, PollEnds
<1>24. CASE UnlockResults
  BY <1>24 DEF UnlockResults
<1>25. CASE Held
  BY <1>25 DEF Held
<1>26. CASE RemoveReturnsEarly
  BY <1>26 DEF RemoveReturnsEarly
<1>27. CASE SignalResume
  BY <1>27 DEF SignalResume
<1>28. CASE RequestScan
  <2>1. scanned' \in BOOLEAN
    <3>1. scanned' = (scanner \in InRound)
      BY <1>28, Zenon DEF RequestScan
    <3>2. (scanner \in InRound) \in BOOLEAN
      OBVIOUS
    <3> QED
      BY <3>1, <3>2, Zenon
  <2>2. scan_completed' \in BOOLEAN
    BY <1>28, Zenon DEF RequestScan
  <2> QED
    BY <1>28, <2>1, <2>2 DEF RequestScan
<1>29. CASE LockResults
  BY <1>29 DEF LockResults
<1>30. CASE PauseScan
  BY <1>30 DEF PauseScan
<1>31. CASE ResumeScan
  <2>1. scan_pause' \in BOOLEAN
    BY <1>31, Zenon DEF ResumeScan
  <2> QED
    BY <1>31, <2>1 DEF ResumeScan
<1>32. CASE Begin
  BY <1>32 DEF Begin
<1>33. CASE On
  BY <1>33 DEF On
<1>34. CASE Off
  <2>1. scan_running' \in BOOLEAN
    BY <1>34, Zenon DEF Off
  <2> QED
    BY <1>34, <2>1 DEF Off
<1>35. CASE ScanResultsEvent
  BY <1>35 DEF ScanResultsEvent
<1>36. CASE TerminatingEvent
  <2>1. enabled' \in BOOLEAN
    BY <1>36, Zenon DEF TerminatingEvent
  <2> QED
    BY <1>36, <2>1 DEF TerminatingEvent
<1>37. CASE UNCHANGED vars
  BY <1>37 DEF vars
<1> QED
  BY <1>1, <1>2, <1>3, <1>4, <1>5, <1>6, <1>7, <1>8, <1>9, <1>10, <1>11, <1>12,
     <1>13, <1>14, <1>15, <1>16, <1>17, <1>18, <1>19, <1>20, <1>21, <1>22, <1>23,
     <1>24, <1>25, <1>26, <1>27, <1>28, <1>29, <1>30, <1>31, <1>32, <1>33, <1>34,
     <1>35, <1>36, <1>37
  DEF Next, ScannerRuns, ScannerLocks, MainRuns, MainLocks, Client

\* The parts of the invariant that relate the two threads.
ThreadsInv == MutexInv /\ LifetimeInv /\ HeldInv /\ PauseHolds

LEMMA ThreadsStep == ScanInv /\ [Next]_vars => ThreadsInv'
<1> SUFFICES ASSUME ScanInv, [Next]_vars PROVE ThreadsInv'
  OBVIOUS
<1> USE DEF ScanInv, ThreadsInv, MutexInv, LifetimeInv, HeldInv, PauseHolds, locks, flags,
            progress, InScanSection, Scanning, Reading, Stopping, MainStep, ScannerStep,
            Lock, Unlock, Signal
<1>1. CASE Loop
  BY <1>1 DEF Loop
<1>2. CASE Gate
  BY <1>2 DEF Gate
<1>3. CASE Park
  BY <1>3 DEF Park
<1>4. CASE IssueScan
  BY <1>4 DEF IssueScan
<1>5. CASE CommandFails
  BY <1>5 DEF CommandFails
<1>6. CASE Backoff
  BY <1>6 DEF Backoff
<1>7. CASE ResultReady
  BY <1>7 DEF ResultReady
<1>8. CASE NoResult
  BY <1>8 DEF NoResult
<1>9. CASE FetchResults
  BY <1>9 DEF FetchResults
<1>10. CASE Report
  BY <1>10 DEF Report
<1>11. CASE Sleep
  BY <1>11 DEF Sleep
<1>12. CASE IntervalElapses
  BY <1>12 DEF IntervalElapses
<1>13. CASE EnterRound
  BY <1>13 DEF EnterRound
<1>14. CASE Unpark
  BY <1>14 DEF Unpark
<1>15. CASE RoundOver
  BY <1>15 DEF RoundOver
<1>16. CASE Wake
  BY <1>16 DEF Wake
<1>17. CASE StopPause
  BY <1>17 DEF StopPause
<1>18. CASE StopUnlock
  BY <1>18 DEF StopUnlock
<1>19. CASE StopSignal
  BY <1>19 DEF StopSignal
<1>20. CASE Join
  BY <1>20 DEF Join
<1>21. CASE Destroy
  BY <1>21 DEF Destroy
<1>22. CASE UpdateCompletes
  BY <1>22 DEF UpdateCompletes, PollEnds
<1>23. CASE UpdateTimesOut
  BY <1>23 DEF UpdateTimesOut, PollEnds
<1>24. CASE UnlockResults
  BY <1>24 DEF UnlockResults
<1>25. CASE Held
  BY <1>25 DEF Held
<1>26. CASE RemoveReturnsEarly
  BY <1>26 DEF RemoveReturnsEarly
<1>27. CASE SignalResume
  BY <1>27 DEF SignalResume
<1>28. CASE RequestScan
  BY <1>28 DEF RequestScan
<1>29. CASE LockResults
  BY <1>29 DEF LockResults
<1>30. CASE PauseScan
  BY <1>30 DEF PauseScan
<1>31. CASE ResumeScan
  BY <1>31 DEF ResumeScan
<1>32. CASE Begin
  BY <1>32 DEF Begin
<1>33. CASE On
  BY <1>33 DEF On
<1>34. CASE Off
  BY <1>34 DEF Off
<1>35. CASE ScanResultsEvent
  BY <1>35 DEF ScanResultsEvent
<1>36. CASE TerminatingEvent
  BY <1>36 DEF TerminatingEvent
<1>37. CASE UNCHANGED vars
  BY <1>37 DEF vars
<1> QED
  BY <1>1, <1>2, <1>3, <1>4, <1>5, <1>6, <1>7, <1>8, <1>9, <1>10, <1>11, <1>12,
     <1>13, <1>14, <1>15, <1>16, <1>17, <1>18, <1>19, <1>20, <1>21, <1>22, <1>23,
     <1>24, <1>25, <1>26, <1>27, <1>28, <1>29, <1>30, <1>31, <1>32, <1>33, <1>34,
     <1>35, <1>36, <1>37
  DEF Next, ScannerRuns, ScannerLocks, MainRuns, MainLocks, Client

LEMMA ScanInvStep == ScanInv /\ [Next]_vars => ScanInv'
BY TypeStep, ThreadsStep DEF ScanInv, ThreadsInv

THEOREM ScanInvariance == Spec => []ScanInv
BY ScanInvInit, ScanInvStep, PTL DEF Spec

\* TypeOK holds in every behaviour.
THEOREM TypeCorrect == Spec => []TypeOK
<1>1. ScanInv => TypeOK
  BY DEF ScanInv
<1> QED
  BY <1>1, ScanInvariance, PTL

\* An operation that has paused scanning has the radio and
\* scan_results to itself (pause_wifi_scan_thread, wifi_scan_thread's gate).
THEOREM PauseCorrect == Spec => []PauseHolds
BY ScanInvImplies, ScanInvariance, PTL

\* get_key_mgmt and get_scan_results_inner are atomic with respect to the scan
\* thread's use of scan_results.
THEOREM ResultsCorrect == Spec => []ResultsExclusive
BY ScanInvImplies, ScanInvariance, PTL

\* No thread is left that could reach a destroyed mutex or condition variable.
THEOREM SyncObjectsCorrect == Spec => []SyncObjectsLive
BY ScanInvImplies, ScanInvariance, PTL

(***************************************************************************)
(* How operations end: those that pause with scanning unpaused, and        *)
(* a completed update_scan_results with a SCAN to show for it.             *)
(***************************************************************************)

AnswerInv ==
  /\ main = "signal" => ~ scan_pause
  /\ main \in {"results", "results_read"} => op = "results"
  /\ main = "poll" /\ (scan_completed \/ scanner \in InRound) => scanned

LEMMA AnswerInvStep == AnswerInv /\ [Next]_vars => AnswerInv'
<1> SUFFICES ASSUME AnswerInv, [Next]_vars PROVE AnswerInv'
  OBVIOUS
<1> USE DEF AnswerInv, InRound, locks, flags, progress, MainStep, ScannerStep, Signal
<1>1. CASE Loop
  BY <1>1 DEF Loop
<1>2. CASE Gate
  BY <1>2 DEF Gate
<1>3. CASE Park
  BY <1>3 DEF Park
<1>4. CASE IssueScan
  BY <1>4 DEF IssueScan
<1>5. CASE CommandFails
  BY <1>5 DEF CommandFails
<1>6. CASE Backoff
  BY <1>6 DEF Backoff
<1>7. CASE ResultReady
  BY <1>7 DEF ResultReady
<1>8. CASE NoResult
  BY <1>8 DEF NoResult
<1>9. CASE FetchResults
  BY <1>9 DEF FetchResults
<1>10. CASE Report
  BY <1>10 DEF Report
<1>11. CASE Sleep
  BY <1>11 DEF Sleep
<1>12. CASE IntervalElapses
  BY <1>12 DEF IntervalElapses
<1>13. CASE EnterRound
  BY <1>13 DEF EnterRound
<1>14. CASE Unpark
  BY <1>14 DEF Unpark
<1>15. CASE RoundOver
  BY <1>15 DEF RoundOver
<1>16. CASE Wake
  BY <1>16 DEF Wake
<1>17. CASE StopPause
  BY <1>17 DEF StopPause
<1>18. CASE StopUnlock
  BY <1>18 DEF StopUnlock
<1>19. CASE StopSignal
  BY <1>19 DEF StopSignal
<1>20. CASE Join
  BY <1>20 DEF Join
<1>21. CASE Destroy
  BY <1>21 DEF Destroy
<1>22. CASE UpdateCompletes
  BY <1>22 DEF UpdateCompletes, PollEnds
<1>23. CASE UpdateTimesOut
  BY <1>23 DEF UpdateTimesOut, PollEnds
<1>24. CASE UnlockResults
  BY <1>24 DEF UnlockResults
<1>25. CASE Held
  BY <1>25 DEF Held
<1>26. CASE RemoveReturnsEarly
  BY <1>26 DEF RemoveReturnsEarly
<1>27. CASE SignalResume
  BY <1>27 DEF SignalResume
<1>28. CASE RequestScan
  BY <1>28 DEF RequestScan
<1>29. CASE LockResults
  BY <1>29 DEF LockResults
<1>30. CASE PauseScan
  BY <1>30 DEF PauseScan
<1>31. CASE ResumeScan
  BY <1>31 DEF ResumeScan
<1>32. CASE Begin
  BY <1>32 DEF Begin
<1>33. CASE On
  BY <1>33 DEF On
<1>34. CASE Off
  BY <1>34 DEF Off
<1>35. CASE ScanResultsEvent
  BY <1>35 DEF ScanResultsEvent
<1>36. CASE TerminatingEvent
  BY <1>36 DEF TerminatingEvent
<1>37. CASE UNCHANGED vars
  BY <1>37 DEF vars
<1> QED
  BY <1>1, <1>2, <1>3, <1>4, <1>5, <1>6, <1>7, <1>8, <1>9, <1>10, <1>11, <1>12,
     <1>13, <1>14, <1>15, <1>16, <1>17, <1>18, <1>19, <1>20, <1>21, <1>22, <1>23,
     <1>24, <1>25, <1>26, <1>27, <1>28, <1>29, <1>30, <1>31, <1>32, <1>33, <1>34,
     <1>35, <1>36, <1>37
  DEF Next, ScannerRuns, ScannerLocks, MainRuns, MainLocks, Client

LEMMA AnswerInvariance == Spec => []AnswerInv
<1>1. Init => AnswerInv
  BY DEF Init, AnswerInv
<1> QED
  BY <1>1, AnswerInvStep, PTL DEF Spec

\* The steps that end an operation: only the last one of resume_wifi_scan_thread
\* ends an operation that pauses.
LEMMA PauseEndsStep ==
  AnswerInv /\ [Next]_vars =>
    [op' = "none" /\ op \in Pausing => ~ scan_pause']_vars
<1> SUFFICES ASSUME AnswerInv, Next, op' = "none", op \in Pausing
             PROVE  ~ scan_pause'
  OBVIOUS
<1> USE DEF AnswerInv, Pausing, locks, flags, progress, MainStep, ScannerStep
<1>1. CASE Loop
  BY <1>1 DEF Loop
<1>2. CASE Gate
  BY <1>2 DEF Gate
<1>3. CASE Park
  BY <1>3 DEF Park
<1>4. CASE IssueScan
  BY <1>4 DEF IssueScan
<1>5. CASE CommandFails
  BY <1>5 DEF CommandFails
<1>6. CASE Backoff
  BY <1>6 DEF Backoff
<1>7. CASE ResultReady
  BY <1>7 DEF ResultReady
<1>8. CASE NoResult
  BY <1>8 DEF NoResult
<1>9. CASE FetchResults
  BY <1>9 DEF FetchResults
<1>10. CASE Report
  BY <1>10 DEF Report
<1>11. CASE Sleep
  BY <1>11 DEF Sleep
<1>12. CASE IntervalElapses
  BY <1>12 DEF IntervalElapses
<1>13. CASE EnterRound
  BY <1>13 DEF EnterRound
<1>14. CASE Unpark
  BY <1>14 DEF Unpark
<1>15. CASE RoundOver
  BY <1>15 DEF RoundOver
<1>16. CASE Wake
  BY <1>16 DEF Wake
<1>17. CASE StopPause
  BY <1>17 DEF StopPause
<1>18. CASE StopUnlock
  BY <1>18 DEF StopUnlock
<1>19. CASE StopSignal
  BY <1>19 DEF StopSignal
<1>20. CASE Join
  BY <1>20 DEF Join
<1>21. CASE Destroy
  BY <1>21 DEF Destroy
<1>22. CASE UpdateCompletes
  BY <1>22 DEF UpdateCompletes, PollEnds
<1>23. CASE UpdateTimesOut
  BY <1>23 DEF UpdateTimesOut, PollEnds
<1>24. CASE UnlockResults
  BY <1>24 DEF UnlockResults
<1>25. CASE Held
  BY <1>25 DEF Held
<1>26. CASE RemoveReturnsEarly
  BY <1>26 DEF RemoveReturnsEarly
<1>27. CASE SignalResume
  BY <1>27 DEF SignalResume, Signal
<1>28. CASE RequestScan
  BY <1>28 DEF RequestScan
<1>29. CASE LockResults
  BY <1>29 DEF LockResults
<1>30. CASE PauseScan
  BY <1>30 DEF PauseScan
<1>31. CASE ResumeScan
  BY <1>31 DEF ResumeScan
<1>32. CASE Begin
  BY <1>32 DEF Begin
<1>33. CASE On
  BY <1>33 DEF On
<1>34. CASE Off
  BY <1>34 DEF Off
<1>35. CASE ScanResultsEvent
  BY <1>35 DEF ScanResultsEvent
<1>36. CASE TerminatingEvent
  BY <1>36 DEF TerminatingEvent
<1> QED
  BY <1>1, <1>2, <1>3, <1>4, <1>5, <1>6, <1>7, <1>8, <1>9, <1>10, <1>11, <1>12,
     <1>13, <1>14, <1>15, <1>16, <1>17, <1>18, <1>19, <1>20, <1>21, <1>22,
     <1>23, <1>24, <1>25, <1>26, <1>27, <1>28, <1>29, <1>30, <1>31, <1>32,
     <1>33, <1>34, <1>35, <1>36
  DEF Next, ScannerRuns, ScannerLocks, MainRuns, MainLocks, Client

\* Every call that pauses the scan thread, but aw_wifi_remove_network, resumes it on
\* every path.
THEOREM PauseEndsCorrect == Spec => PauseEnds
BY AnswerInvariance, PauseEndsStep, PTL DEF Spec, PauseEnds

\* update_scan_results is never answered by a round that was over, or whose SCAN
\* was refused, when the request came.
THEOREM CompletionCorrect == Spec => CompletionHasScan
<1>1. AnswerInv /\ [Next]_vars => [UpdateCompletes => scanned]_vars
  BY DEF AnswerInv, UpdateCompletes, PollEnds, MainStep
<1> QED
  BY <1>1, AnswerInvariance, PTL DEF Spec, CompletionHasScan

(***************************************************************************)
(* What the liveness properties rest on.  Whoever waits, waits for         *)
(* somebody who is on the way: a mutex that is not free is held by a       *)
(* thread between its lock and its unlock, and the scan thread is parked   *)
(* under a pause only.  The exception is stop_wifi_scan_thread, which      *)
(* clears scan_pause without the mutex.                                    *)
(***************************************************************************)

Parked == {"park", "paused"}

WaitInv ==
  /\ scan_mutex = "scanner" => scanner \in InScanSection
  /\ scan_mutex = "main" => main \in Reading
  /\ thread_run_mutex # "free" => thread_run_mutex = "scanner" /\ scanner = "arm"
  /\ scanner \in Parked /\ main \notin Stopping =>
       scan_pause \/ (main = "signal" /\ scanner = "paused")
  /\ initialised /\ main \notin Stopping => scanner \notin {"none", "exited"} /\ scan_running
  /\ main \in Stopping => ~ scan_running
  /\ main \in Stopping \ {"destroy"} => scanner # "none"

LEMMA WaitInvStep == ASSUME ScanInv, WaitInv, [Next]_vars PROVE WaitInv'
<1> USE DEF ScanInv, TypeOK, MutexInv, LifetimeInv, WaitInv, Parked, MainPoints,
            ScannerPoints, InScanSection, Scanning, Reading, Stopping, Threads, locks,
            flags, progress, MainStep, ScannerStep, Lock, Unlock, Signal
<1>1. CASE Loop
  BY <1>1 DEF Loop
<1>2. CASE Gate
  BY <1>2 DEF Gate
<1>3. CASE Park
  BY <1>3 DEF Park
<1>4. CASE IssueScan
  BY <1>4 DEF IssueScan
<1>5. CASE CommandFails
  BY <1>5 DEF CommandFails
<1>6. CASE Backoff
  BY <1>6 DEF Backoff
<1>7. CASE ResultReady
  BY <1>7 DEF ResultReady
<1>8. CASE NoResult
  BY <1>8 DEF NoResult
<1>9. CASE FetchResults
  BY <1>9 DEF FetchResults
<1>10. CASE Report
  BY <1>10 DEF Report
<1>11. CASE Sleep
  BY <1>11 DEF Sleep
<1>12. CASE IntervalElapses
  BY <1>12 DEF IntervalElapses
<1>13. CASE EnterRound
  BY <1>13 DEF EnterRound
<1>14. CASE Unpark
  BY <1>14 DEF Unpark
<1>15. CASE RoundOver
  BY <1>15 DEF RoundOver
<1>16. CASE Wake
  BY <1>16 DEF Wake
<1>17. CASE StopPause
  BY <1>17 DEF StopPause
<1>18. CASE StopUnlock
  BY <1>18 DEF StopUnlock
<1>19. CASE StopSignal
  BY <1>19 DEF StopSignal
<1>20. CASE Join
  BY <1>20 DEF Join
<1>21. CASE Destroy
  BY <1>21 DEF Destroy
<1>22. CASE UpdateCompletes
  BY <1>22 DEF UpdateCompletes, PollEnds
<1>23. CASE UpdateTimesOut
  BY <1>23 DEF UpdateTimesOut, PollEnds
<1>24. CASE UnlockResults
  BY <1>24 DEF UnlockResults
<1>25. CASE Held
  BY <1>25 DEF Held
<1>26. CASE RemoveReturnsEarly
  BY <1>26 DEF RemoveReturnsEarly
<1>27. CASE SignalResume
  BY <1>27 DEF SignalResume
<1>28. CASE RequestScan
  BY <1>28 DEF RequestScan
<1>29. CASE LockResults
  BY <1>29 DEF LockResults
<1>30. CASE PauseScan
  BY <1>30 DEF PauseScan
<1>31. CASE ResumeScan
  BY <1>31 DEF ResumeScan
<1>32. CASE Begin
  BY <1>32 DEF Begin
<1>33. CASE On
  BY <1>33 DEF On
<1>34. CASE Off
  BY <1>34 DEF Off
<1>35. CASE ScanResultsEvent
  BY <1>35 DEF ScanResultsEvent
<1>36. CASE TerminatingEvent
  BY <1>36 DEF TerminatingEvent
<1>37. CASE UNCHANGED vars
  BY <1>37 DEF vars
<1> QED
  BY <1>1, <1>2, <1>3, <1>4, <1>5, <1>6, <1>7, <1>8, <1>9, <1>10, <1>11, <1>12, <1>13,
     <1>14, <1>15, <1>16, <1>17, <1>18, <1>19, <1>20, <1>21, <1>22, <1>23, <1>24,
     <1>25, <1>26, <1>27, <1>28, <1>29, <1>30, <1>31, <1>32, <1>33, <1>34, <1>35,
     <1>36, <1>37
  DEF Next, ScannerRuns, ScannerLocks, MainRuns, MainLocks, Client

LEMMA WaitInvariance == Spec => [](ScanInv /\ WaitInv)
<1>1. Init => WaitInv
  BY DEF Init, WaitInv, Stopping, Parked
<1> QED
  BY <1>1, WaitInvStep, ScanInvariance, PTL DEF Spec

\* Nobody waits in vain: for scan_mutex while nobody is about to unlock it, for
\* thread_run_mutex likewise, or, the scan thread, for a resume that is over.
Served ==
  /\ main \in {"key", "rekey", "results", "pause", "resume"} /\ scan_mutex # "free" =>
       scanner \in InScanSection
  /\ main = "update" /\ thread_run_mutex # "free" => scanner = "arm"
  /\ scanner \in {"enter", "resumed"} /\ scan_mutex # "free" => main \in Reading
  /\ scanner \in {"round_over", "wake"} => thread_run_mutex = "free"
  /\ scanner = "paused" => scan_pause \/ main \in {"signal"} \cup Stopping

\* No lock is forgotten and no signal is lost: outside aw_wifi_off, every wait of the
\* two threads is for something the other one is on the way to do.
THEOREM ServedCorrect == Spec => []Served
<1>1. ScanInv /\ WaitInv => Served
  BY DEF ScanInv, TypeOK, WaitInv, Served, Threads, Parked, Reading, InScanSection,
         Scanning, Stopping
<1> QED
  BY <1>1, WaitInvariance, PTL

\* What is left of the scan thread's way out, and of main's way through a call.
ScannerLeft(at) ==
  CASE at = "none"        -> 0
    [] at = "exited"      -> 1
    [] at = "loop"        -> 2
    [] at \in {"backoff", "wake"} -> 3
    [] at = "sleep"       -> 4
    [] at = "arm"         -> 5
    [] at = "round_over"  -> 6
    [] at = "report"      -> 7
    [] at = "fetch"       -> 8
    [] at = "wait_result" -> 9
    [] at = "scan"        -> 10
    [] at = "gate"        -> 11
    [] at \in {"enter", "resumed"} -> 12
    [] OTHER              -> 13

MainLeft(at) ==
  CASE at = "idle" -> 0
    [] at \in {"signal", "results_read", "destroy"} -> 1
    [] at \in {"resume", "results", "join"}         -> 2
    [] at \in {"held", "stop_signal"}              -> 3
    [] at \in {"pause", "stop_signal_run"}         -> 4
    [] at \in {"rekey_read", "stop_unlock_run"}    -> 5
    [] at \in {"rekey", "stop_unlock"}             -> 6
    [] at \in {"poll", "stop_pause"}               -> 7
    [] at = "update"   -> 8
    [] at = "key_read" -> 9
    [] OTHER           -> 10

\* The scan thread has not been left waiting for a resume.
Unparked == ~ scan_pause /\ scanner \notin Parked

\* aw_wifi_off that finds scanning unpaused never joins a parked thread, and every
\* step of the thread it is about to join brings that thread nearer to its end.
StopProgress ==
  [][/\ main = "idle" /\ ~ scan_pause /\ main' \in Stopping => Unparked'
     /\ main \in Stopping /\ Unparked =>
          Unparked' /\ (scanner' = scanner \/ ScannerLeft(scanner') < ScannerLeft(scanner))]_vars

LEMMA StopProgressStep ==
  ASSUME ScanInv, WaitInv, Next
  PROVE  /\ main = "idle" /\ ~ scan_pause /\ main' \in Stopping => Unparked'
         /\ main \in Stopping /\ Unparked =>
              Unparked' /\ (scanner' = scanner \/ ScannerLeft(scanner') < ScannerLeft(scanner))
<1> USE DEF ScanInv, TypeOK, MutexInv, LifetimeInv, WaitInv, Parked, Unparked, MainPoints,
            ScannerPoints, InScanSection, Scanning, Reading, Stopping, Threads, locks,
            flags, progress, MainStep, ScannerStep, Lock, Unlock, Signal, ScannerLeft
<1>1. CASE Loop
  BY <1>1 DEF Loop
<1>2. CASE Gate
  BY <1>2 DEF Gate
<1>3. CASE Park
  BY <1>3 DEF Park
<1>4. CASE IssueScan
  BY <1>4 DEF IssueScan
<1>5. CASE CommandFails
  BY <1>5 DEF CommandFails
<1>6. CASE Backoff
  BY <1>6 DEF Backoff
<1>7. CASE ResultReady
  BY <1>7 DEF ResultReady
<1>8. CASE NoResult
  BY <1>8 DEF NoResult
<1>9. CASE FetchResults
  BY <1>9 DEF FetchResults
<1>10. CASE Report
  BY <1>10 DEF Report
<1>11. CASE Sleep
  BY <1>11 DEF Sleep
<1>12. CASE IntervalElapses
  BY <1>12 DEF IntervalElapses
<1>13. CASE EnterRound
  BY <1>13 DEF EnterRound
<1>14. CASE Unpark
  BY <1>14 DEF Unpark
<1>15. CASE RoundOver
  BY <1>15 DEF RoundOver
<1>16. CASE Wake
  BY <1>16 DEF Wake
<1>17. CASE StopPause
  BY <1>17 DEF StopPause
<1>18. CASE StopUnlock
  BY <1>18 DEF StopUnlock
<1>19. CASE StopSignal
  BY <1>19 DEF StopSignal
<1>20. CASE Join
  BY <1>20 DEF Join
<1>21. CASE Destroy
  BY <1>21 DEF Destroy
<1>22. CASE UpdateCompletes
  BY <1>22 DEF UpdateCompletes, PollEnds
<1>23. CASE UpdateTimesOut
  BY <1>23 DEF UpdateTimesOut, PollEnds
<1>24. CASE UnlockResults
  BY <1>24 DEF UnlockResults
<1>25. CASE Held
  BY <1>25 DEF Held
<1>26. CASE RemoveReturnsEarly
  BY <1>26 DEF RemoveReturnsEarly
<1>27. CASE SignalResume
  BY <1>27 DEF SignalResume
<1>28. CASE RequestScan
  BY <1>28 DEF RequestScan
<1>29. CASE LockResults
  BY <1>29 DEF LockResults
<1>30. CASE PauseScan
  BY <1>30 DEF PauseScan
<1>31. CASE ResumeScan
  BY <1>31 DEF ResumeScan
<1>32. CASE Begin
  BY <1>32 DEF Begin
<1>33. CASE On
  BY <1>33 DEF On
<1>34. CASE Off
  BY <1>34 DEF Off
<1>35. CASE ScanResultsEvent
  BY <1>35 DEF ScanResultsEvent
<1>36. CASE TerminatingEvent
  BY <1>36 DEF TerminatingEvent
<1> QED
  BY <1>1, <1>2, <1>3, <1>4, <1>5, <1>6, <1>7, <1>8, <1>9, <1>10, <1>11, <1>12, <1>13,
     <1>14, <1>15, <1>16, <1>17, <1>18, <1>19, <1>20, <1>21, <1>22, <1>23, <1>24,
     <1>25, <1>26, <1>27, <1>28, <1>29, <1>30, <1>31, <1>32, <1>33, <1>34, <1>35, <1>36
  DEF Next, ScannerRuns, ScannerLocks, MainRuns, MainLocks, Client

\* The join of stop_wifi_scan_thread ends after at most a dozen steps of the scan
\* thread, unless aw_wifi_off came while scanning was paused.
THEOREM StopProgressCorrect == Spec => StopProgress
<1>1. ScanInv /\ WaitInv /\ [Next]_vars =>
        [/\ main = "idle" /\ ~ scan_pause /\ main' \in Stopping => Unparked'
         /\ main \in Stopping /\ Unparked =>
              Unparked' /\ (scanner' = scanner \/ ScannerLeft(scanner') < ScannerLeft(scanner))]_vars
  BY StopProgressStep
<1> QED
  BY <1>1, WaitInvariance, PTL DEF Spec, StopProgress

\* Main goes through a call without turning back: no call is more than ten steps.
CallProgress == [][main # "idle" => main' = main \/ MainLeft(main') < MainLeft(main)]_vars

LEMMA CallProgressStep ==
  ASSUME TypeOK, Next, main # "idle" PROVE main' = main \/ MainLeft(main') < MainLeft(main)
<1> USE DEF TypeOK, MainPoints, Reading, Stopping, locks, flags, progress, MainStep, MainLeft
<1>1. CASE Loop
  BY <1>1 DEF Loop
<1>2. CASE Gate
  BY <1>2 DEF Gate
<1>3. CASE Park
  BY <1>3 DEF Park
<1>4. CASE IssueScan
  BY <1>4 DEF IssueScan
<1>5. CASE CommandFails
  BY <1>5 DEF CommandFails
<1>6. CASE Backoff
  BY <1>6 DEF Backoff
<1>7. CASE ResultReady
  BY <1>7 DEF ResultReady
<1>8. CASE NoResult
  BY <1>8 DEF NoResult
<1>9. CASE FetchResults
  BY <1>9 DEF FetchResults
<1>10. CASE Report
  BY <1>10 DEF Report
<1>11. CASE Sleep
  BY <1>11 DEF Sleep
<1>12. CASE IntervalElapses
  BY <1>12 DEF IntervalElapses
<1>13. CASE EnterRound
  BY <1>13 DEF EnterRound
<1>14. CASE Unpark
  BY <1>14 DEF Unpark
<1>15. CASE RoundOver
  BY <1>15 DEF RoundOver
<1>16. CASE Wake
  BY <1>16 DEF Wake
<1>17. CASE StopPause
  BY <1>17 DEF StopPause
<1>18. CASE StopUnlock
  BY <1>18 DEF StopUnlock
<1>19. CASE StopSignal
  BY <1>19 DEF StopSignal
<1>20. CASE Join
  BY <1>20 DEF Join
<1>21. CASE Destroy
  BY <1>21 DEF Destroy
<1>22. CASE UpdateCompletes
  BY <1>22 DEF UpdateCompletes, PollEnds
<1>23. CASE UpdateTimesOut
  BY <1>23 DEF UpdateTimesOut, PollEnds
<1>24. CASE UnlockResults
  BY <1>24 DEF UnlockResults
<1>25. CASE Held
  BY <1>25 DEF Held
<1>26. CASE RemoveReturnsEarly
  BY <1>26 DEF RemoveReturnsEarly
<1>27. CASE SignalResume
  BY <1>27 DEF SignalResume
<1>28. CASE RequestScan
  BY <1>28 DEF RequestScan
<1>29. CASE LockResults
  BY <1>29 DEF LockResults
<1>30. CASE PauseScan
  BY <1>30 DEF PauseScan
<1>31. CASE ResumeScan
  BY <1>31 DEF ResumeScan
<1>32. CASE Begin
  BY <1>32 DEF Begin
<1>33. CASE On
  BY <1>33 DEF On
<1>34. CASE Off
  BY <1>34 DEF Off
<1>35. CASE ScanResultsEvent
  BY <1>35 DEF ScanResultsEvent
<1>36. CASE TerminatingEvent
  BY <1>36 DEF TerminatingEvent
<1> QED
  BY <1>1, <1>2, <1>3, <1>4, <1>5, <1>6, <1>7, <1>8, <1>9, <1>10, <1>11, <1>12, <1>13,
     <1>14, <1>15, <1>16, <1>17, <1>18, <1>19, <1>20, <1>21, <1>22, <1>23, <1>24,
     <1>25, <1>26, <1>27, <1>28, <1>29, <1>30, <1>31, <1>32, <1>33, <1>34, <1>35, <1>36
  DEF Next, ScannerRuns, ScannerLocks, MainRuns, MainLocks, Client

\* Every aw_wifi_xxx call is a bounded number of steps, each of which is served.
THEOREM CallProgressCorrect == Spec => CallProgress
<1>1. ScanInv /\ [Next]_vars =>
        [main # "idle" => main' = main \/ MainLeft(main') < MainLeft(main)]_vars
  BY CallProgressStep DEF ScanInv
<1> QED
  BY <1>1, ScanInvariance, PTL DEF Spec, CallProgress

(***************************************************************************)
(* Refinement.                                                             *)
(***************************************************************************)

LEMMA ServiceInit == Init => Service!Init
BY DEF Init, Service!Init, User, Scanning, Reading

LEMMA ServiceStep ==
  ScanInv /\ ScanInv' /\ [Next]_vars => [Service!Next]_<<initialised, User>>
<1> SUFFICES ASSUME ScanInv, ScanInv', [Next]_vars
             PROVE  [Service!Next]_<<initialised, User>>
  OBVIOUS
<1> USE DEF ScanInv, MutexInv, LifetimeInv, HeldInv, PauseHolds, locks, flags, progress,
            InScanSection, Scanning, Reading, Stopping, MainStep, ScannerStep, Lock, Unlock,
            Signal, User, Service!Next, Service!SwitchOn, Service!SwitchOff,
            Service!Acquire, Service!Release
<1>1. CASE Loop
  BY <1>1 DEF Loop
<1>2. CASE Gate
  BY <1>2 DEF Gate
<1>3. CASE Park
  BY <1>3 DEF Park
<1>4. CASE IssueScan
  BY <1>4 DEF IssueScan
<1>5. CASE CommandFails
  BY <1>5 DEF CommandFails
<1>6. CASE Backoff
  BY <1>6 DEF Backoff
<1>7. CASE ResultReady
  BY <1>7 DEF ResultReady
<1>8. CASE NoResult
  BY <1>8 DEF NoResult
<1>9. CASE FetchResults
  BY <1>9 DEF FetchResults
<1>10. CASE Report
  BY <1>10 DEF Report
<1>11. CASE Sleep
  BY <1>11 DEF Sleep
<1>12. CASE IntervalElapses
  BY <1>12 DEF IntervalElapses
<1>13. CASE EnterRound
  BY <1>13 DEF EnterRound
<1>14. CASE Unpark
  BY <1>14 DEF Unpark
<1>15. CASE RoundOver
  BY <1>15 DEF RoundOver
<1>16. CASE Wake
  BY <1>16 DEF Wake
<1>17. CASE StopPause
  BY <1>17 DEF StopPause
<1>18. CASE StopUnlock
  BY <1>18 DEF StopUnlock
<1>19. CASE StopSignal
  BY <1>19 DEF StopSignal
<1>20. CASE Join
  BY <1>20 DEF Join
<1>21. CASE Destroy
  BY <1>21 DEF Destroy
<1>22. CASE UpdateCompletes
  BY <1>22 DEF UpdateCompletes, PollEnds
<1>23. CASE UpdateTimesOut
  BY <1>23 DEF UpdateTimesOut, PollEnds
<1>24. CASE UnlockResults
  BY <1>24 DEF UnlockResults
<1>25. CASE Held
  BY <1>25 DEF Held
<1>26. CASE RemoveReturnsEarly
  BY <1>26 DEF RemoveReturnsEarly
<1>27. CASE SignalResume
  BY <1>27 DEF SignalResume
<1>28. CASE RequestScan
  BY <1>28 DEF RequestScan
<1>29. CASE LockResults
  BY <1>29 DEF LockResults
<1>30. CASE PauseScan
  BY <1>30 DEF PauseScan
<1>31. CASE ResumeScan
  BY <1>31 DEF ResumeScan
<1>32. CASE Begin
  BY <1>32 DEF Begin
<1>33. CASE On
  BY <1>33 DEF On
<1>34. CASE Off
  BY <1>34 DEF Off
<1>35. CASE ScanResultsEvent
  BY <1>35 DEF ScanResultsEvent
<1>36. CASE TerminatingEvent
  BY <1>36 DEF TerminatingEvent
<1>37. CASE UNCHANGED vars
  BY <1>37 DEF vars
<1> QED
  BY <1>1, <1>2, <1>3, <1>4, <1>5, <1>6, <1>7, <1>8, <1>9, <1>10, <1>11, <1>12,
     <1>13, <1>14, <1>15, <1>16, <1>17, <1>18, <1>19, <1>20, <1>21, <1>22, <1>23,
     <1>24, <1>25, <1>26, <1>27, <1>28, <1>29, <1>30, <1>31, <1>32, <1>33, <1>34,
     <1>35, <1>36, <1>37
  DEF Next, ScannerRuns, ScannerLocks, MainRuns, MainLocks, Client

\* The scan thread with its pause, its locks and the foreign unlock of
\* stop_wifi_scan_thread implements the abstract scan service.
THEOREM Refinement == Spec => ImplementsService
<1>1. ScanInv /\ [Next]_vars => [Service!Next]_<<initialised, User>>
  BY ScanInvStep, ServiceStep
<1> QED
  BY <1>1, ScanInvariance, ServiceInit, PTL DEF Spec, ImplementsService, Service!Spec
=============================================================================
