----------------------------- MODULE ScanThread -----------------------------
(***************************************************************************)
(* The periodic scan of wifimanager/network_manager.c and the operations   *)
(* of wifimanager.c that drive it.  Three threads meet here:               *)
(*                                                                         *)
(*   scanner  wifi_scan_thread: SCAN, wait for the result event,           *)
(*            SCAN_RESULTS, report, sleep until the interval or a request; *)
(*   main     the hiBus dispatch loop, one aw_wifi_xxx call at a time;     *)
(*   event    the supplicant's event thread, which raises scan_complete    *)
(*            and, on TERMINATING, disables the interface.                 *)
(*                                                                         *)
(* scan_mutex protects scan_results and scan_pause; thread_run_mutex       *)
(* protects scan_completed.  stop_wifi_scan_thread unlocks both mutexes    *)
(* without owning them: with the default (normal) mutexes of the C library *)
(* that simply frees them, whoever holds them, and Unlock says so.         *)
(* Durations are abstract: a poll or a timed wait may end at any time.     *)
(*                                                                         *)
(* A definition commented "Defect" is not part of the specification: it is *)
(* the one below it with a plausible mistake, for testing the properties.  *)
(***************************************************************************)

CONSTANTS Operations      \* the aw_wifi_xxx calls the client makes

ASSUME OperationsAssumption ==
  Operations \subseteq {"scan", "results", "connect", "add", "disconnect", "get_netid", "remove"}

VARIABLES
  main,             \* where the main thread is
  op,               \* the operation main executes, or "none"
  scanner,          \* where the scan thread is
  scan_mutex,       \* "free", or the thread that holds it
  thread_run_mutex,
  initialised,      \* the mutexes and condition variables are initialised
  enabled,          \* gwifi_state # WIFIMG_WIFI_DISABLED
  scan_running,
  scan_pause,
  scan_error,
  scan_complete,    \* the result event of the SCAN command has arrived
  scan_completed,   \* a round of the scan thread is over
  scanned           \* history: a SCAN was issued since update_scan_results began,
                    \* or was in progress then

locks    == <<scan_mutex, thread_run_mutex, initialised, enabled>>
flags    == <<scan_running, scan_pause, scan_error>>
progress == <<scan_complete, scan_completed, scanned>>
vars == <<main, op, scanner, scan_mutex, thread_run_mutex, initialised, enabled,
          scan_running, scan_pause, scan_error, scan_complete, scan_completed,
          scanned>>

(***************************************************************************)
(* Threads' control points.                                                *)
(***************************************************************************)

\* The scan thread between its first and last use of the radio and of
\* scan_results.
Scanning == {"scan", "wait_result", "fetch", "report"}

\* The scan thread after a SCAN command and before scan_completed is set for it.
InRound == {"wait_result", "fetch", "report", "round_over"}

\* The scan thread where the code holds scan_mutex.
InScanSection == {"gate", "park"} \cup Scanning

ScannerPoints ==
  InScanSection \cup {"none", "loop", "enter", "paused", "resumed", "backoff",
                      "round_over", "arm", "sleep", "wake", "exited"}

\* main where it reads (get_key_mgmt also rewrites in place) scan_results.
Reading == {"key_read", "rekey_read", "results_read"}

\* main inside stop_wifi_scan_thread.
Stopping == {"stop", "stop_pause", "stop_unlock", "stop_unlock_run", "stop_signal_run",
             "stop_signal", "join", "destroy"}

MainPoints ==
  Reading \cup Stopping \cup
  {"idle", "key", "update", "poll", "rekey", "results", "pause", "held", "resume",
   "signal"}

Threads == {"free", "main", "scanner"}

TypeOK ==
  /\ main \in MainPoints
  /\ op \in IF main \in {"idle"} \cup Stopping THEN {"none"} ELSE Operations
  /\ scanner \in ScannerPoints
  /\ scan_mutex \in Threads
  /\ thread_run_mutex \in Threads
  /\ initialised \in BOOLEAN
  /\ enabled \in BOOLEAN
  /\ scan_running \in BOOLEAN
  /\ scan_pause \in BOOLEAN
  /\ scan_error \in BOOLEAN
  /\ scan_complete \in BOOLEAN
  /\ scan_completed \in BOOLEAN
  /\ scanned \in BOOLEAN

Init ==
  /\ main = "idle"
  /\ op = "none"
  /\ scanner = "none"
  /\ scan_mutex = "free"
  /\ thread_run_mutex = "free"
  /\ initialised = FALSE
  /\ enabled = FALSE
  /\ scan_running = FALSE
  /\ scan_pause = FALSE
  /\ scan_error = FALSE
  /\ scan_complete = FALSE
  /\ scan_completed = FALSE
  /\ scanned = FALSE

(***************************************************************************)
(* Steps shared by the actions.                                            *)
(***************************************************************************)

MainStep(from, to)    == main = from /\ main' = to
ScannerStep(from, to) == scanner = from /\ scanner' = to

\* pthread_mutex_lock and pthread_mutex_unlock of a normal mutex.
Lock(mutex, thread) == mutex = "free" /\ mutex' = thread
Unlock(mutex)       == mutex' = "free"

\* pthread_cond_signal: only a thread already waiting is woken.
Signal(waiting, woken) == scanner' = IF scanner = waiting THEN woken ELSE scanner

(***************************************************************************)
(* wifi_scan_thread.                                                       *)
(***************************************************************************)

\* while(scan_running) ...
Loop ==
  /\ ScannerStep("loop", IF scan_running THEN "enter" ELSE "exited")
  /\ UNCHANGED <<main, op, locks, flags, progress>>

EnterRound ==
  /\ ScannerStep("enter", "gate")
  /\ Lock(scan_mutex, "scanner")
  /\ UNCHANGED <<main, op, thread_run_mutex, initialised, enabled, flags, progress>>

\* while(scan_pause == 1) ...  On the way out, set_scan_start_flag.
Gate ==
  /\ ScannerStep("gate", IF scan_pause THEN "park" ELSE "scan")
  /\ scan_complete' = IF scan_pause THEN scan_complete ELSE FALSE
  /\ UNCHANGED <<main, op, locks, flags, scan_completed, scanned>>

\* ... pthread_cond_wait(&scan_cond, &scan_mutex), in two halves.
Park ==
  /\ ScannerStep("park", "paused")
  /\ Unlock(scan_mutex)
  /\ UNCHANGED <<main, op, thread_run_mutex, initialised, enabled, flags, progress>>

\* Defect: the pause is tested with if instead of while.
UnparkWithoutTest ==
  /\ ScannerStep("resumed", "scan")
  /\ Lock(scan_mutex, "scanner")
  /\ UNCHANGED <<main, op, thread_run_mutex, initialised, enabled, flags, progress>>

Unpark ==
  /\ ScannerStep("resumed", "gate")
  /\ Lock(scan_mutex, "scanner")
  /\ UNCHANGED <<main, op, thread_run_mutex, initialised, enabled, flags, progress>>

IssueScan ==
  /\ ScannerStep("scan", "wait_result")
  /\ scanned' = TRUE
  /\ UNCHANGED <<main, op, locks, flags, scan_complete, scan_completed>>

\* Defect: the error paths keep scan_mutex.
CommandFailsLocked ==
  /\ \/ ScannerStep("scan", "backoff")
     \/ ScannerStep("fetch", "loop")
  /\ scan_error' = TRUE
  /\ UNCHANGED <<main, op, locks, scan_running, scan_pause, progress>>

\* Defect: a round whose SCAN was refused counts as completed.
CommandFailsCompletes ==
  /\ ScannerStep("scan", "round_over") \/ ScannerStep("fetch", "loop")
  /\ scan_error' = TRUE
  /\ Unlock(scan_mutex)
  /\ UNCHANGED <<main, op, thread_run_mutex, initialised, enabled, scan_running,
                 scan_pause, progress>>

\* A command fails: SCAN is retried after five seconds, SCAN_RESULTS at once.
\* Neither path passes the end of the round.
CommandFails ==
  /\ \/ ScannerStep("scan", "backoff")
     \/ ScannerStep("fetch", "loop")
  /\ scan_error' = TRUE
  /\ Unlock(scan_mutex)
  /\ UNCHANGED <<main, op, thread_run_mutex, initialised, enabled, scan_running,
                 scan_pause, progress>>

Backoff ==
  /\ ScannerStep("backoff", "loop")
  /\ UNCHANGED <<main, op, locks, flags, progress>>

\* The wait for scan_complete ends: the event came ...
ResultReady ==
  /\ ScannerStep("wait_result", "fetch")
  /\ scan_complete
  /\ UNCHANGED <<main, op, locks, flags, progress>>

\* ... or fifty polls did not see it, and the round ends without results.
NoResult ==
  /\ ScannerStep("wait_result", "round_over")
  /\ ~ scan_complete
  /\ Unlock(scan_mutex)
  /\ UNCHANGED <<main, op, thread_run_mutex, initialised, enabled, flags, progress>>

\* SCAN_RESULTS has written scan_results.
FetchResults ==
  /\ ScannerStep("fetch", "report")
  /\ scan_error' = FALSE
  /\ UNCHANGED <<main, op, locks, scan_running, scan_pause, progress>>

\* info_callback has returned.
Report ==
  /\ ScannerStep("report", "round_over")
  /\ Unlock(scan_mutex)
  /\ UNCHANGED <<main, op, thread_run_mutex, initialised, enabled, flags, progress>>

RoundOver ==
  /\ ScannerStep("round_over", "arm")
  /\ Lock(thread_run_mutex, "scanner")
  /\ scan_completed' = TRUE
  /\ UNCHANGED <<main, op, scan_mutex, initialised, enabled, flags, scan_complete,
                 scanned>>

\* pthread_cond_timedwait(&thread_run_cond, &thread_run_mutex, ...): park ...
Sleep ==
  /\ ScannerStep("arm", "sleep")
  /\ Unlock(thread_run_mutex)
  /\ UNCHANGED <<main, op, scan_mutex, initialised, enabled, flags, progress>>

\* ... scan_interval elapses ...
IntervalElapses ==
  /\ ScannerStep("sleep", "wake")
  /\ UNCHANGED <<main, op, locks, flags, progress>>

\* ... and, signalled or not, take the mutex and give it back.
Wake ==
  /\ ScannerStep("wake", "loop")
  /\ thread_run_mutex = "free"
  /\ UNCHANGED <<main, op, locks, flags, progress>>

(***************************************************************************)
(* The event thread.                                                       *)
(***************************************************************************)

\* CTRL-EVENT-SCAN-RESULTS.  The supplicant also sends it for scans of its own.
ScanResultsEvent ==
  /\ initialised
  /\ scan_complete' = TRUE
  /\ UNCHANGED <<main, op, scanner, locks, flags, scan_completed, scanned>>

\* CTRL-EVENT-TERMINATING disables the interface under a running operation.
TerminatingEvent ==
  /\ initialised
  /\ enabled' = FALSE
  /\ UNCHANGED <<main, op, scanner, scan_mutex, thread_run_mutex, initialised, flags,
                 progress>>

(***************************************************************************)
(* The main thread: aw_wifi_on and aw_wifi_off.  The control layer calls   *)
(* aw_wifi_on only when the device is closed (initialised = FALSE here).   *)
(***************************************************************************)

\* start_wifi_scan_thread.
On ==
  /\ main = "idle" /\ ~ enabled /\ ~ initialised
  /\ initialised' = TRUE
  /\ enabled' = TRUE
  /\ scan_mutex' = "free"
  /\ thread_run_mutex' = "free"
  /\ scan_running' = TRUE
  /\ scanner' = "loop"
  /\ UNCHANGED <<main, op, scan_pause, scan_error, progress>>

\* stop_wifi_scan_thread, statement by statement.  scan_running and
\* scan_pause are written without scan_mutex.
Off ==
  /\ MainStep("idle", "stop_pause")
  /\ initialised
  /\ scan_running' = FALSE
  /\ UNCHANGED <<op, scanner, locks, scan_pause, scan_error, progress>>

StopPause ==
  /\ MainStep("stop_pause", "stop_unlock")
  /\ scan_pause' = FALSE
  /\ UNCHANGED <<op, scanner, locks, scan_running, scan_error, progress>>

StopUnlock ==
  /\ \/ /\ MainStep("stop_unlock", "stop_unlock_run")
        /\ Unlock(scan_mutex)
        /\ UNCHANGED thread_run_mutex
     \/ /\ MainStep("stop_unlock_run", "stop_signal_run")
        /\ Unlock(thread_run_mutex)
        /\ UNCHANGED scan_mutex
  /\ UNCHANGED <<op, scanner, initialised, enabled, flags, progress>>

StopSignal ==
  /\ \/ MainStep("stop_signal_run", "stop_signal") /\ Signal("sleep", "wake")
     \/ MainStep("stop_signal", "join") /\ Signal("paused", "resumed")
  /\ UNCHANGED <<op, locks, flags, progress>>

\* Defect: the mutexes are destroyed without waiting for the thread.
JoinSkipped ==
  /\ MainStep("join", "destroy")
  /\ UNCHANGED <<op, scanner, locks, flags, progress>>

Join ==
  /\ MainStep("join", "destroy")
  /\ ScannerStep("exited", "none")
  /\ UNCHANGED <<op, locks, flags, progress>>

\* The four destroys, then the rest of aw_wifi_off.
Destroy ==
  /\ MainStep("destroy", "idle")
  /\ initialised' = FALSE
  /\ enabled' = FALSE
  /\ UNCHANGED <<op, scanner, scan_mutex, thread_run_mutex, flags, progress>>

(***************************************************************************)
(* The main thread: the operations.                                        *)
(***************************************************************************)

\* The calls up to their first use of the scan thread; those that use it alike
\* are one operation:
\*   scan, results  aw_wifi_scan, aw_wifi_get_scan_results;
\*   connect        aw_wifi_connect_ap and aw_wifi_connect_ap_key_mgmt;
\*   add            aw_wifi_add_network and aw_wifi_connect_ap_with_netid (which, when
\*                  connected, begins with a disconnect of its own);
\*   disconnect     aw_wifi_disconnect_ap, aw_wifi_connect_ap_auto,
\*                  aw_wifi_remove_all_networks and aw_wifi_list_networks;
\*   get_netid, remove  aw_wifi_get_netid, aw_wifi_remove_network.
\* All but get_netid return at once when the interface is disabled, as a busy
\* aw_wifi_scan does; a refused connect or add goes to its end label, which resumes.
Begin ==
  /\ main = "idle" /\ initialised
  /\ op' \in Operations
  /\ enabled \/ op' = "get_netid"
  /\ \/ op' = "scan"    /\ main' = "update"
     \/ op' = "results" /\ main' = "results"
     \/ op' = "connect" /\ main' \in {"key", "resume"}
     \/ op' = "add"     /\ main' \in {"pause", "resume"}
     \/ op' \in {"disconnect", "get_netid", "remove"} /\ main' = "pause"
  /\ UNCHANGED <<scanner, locks, flags, progress>>

\* update_scan_results: the request ...
RequestScan ==
  /\ MainStep("update", "poll")
  /\ thread_run_mutex = "free"
  /\ scan_completed' = FALSE
  /\ Signal("sleep", "wake")
  /\ scanned' = (scanner \in InRound)
  /\ UNCHANGED <<op, locks, flags, scan_complete>>

\* ... is answered, or fifteen polls go by ...
PollEnds == op' = (IF op = "scan" THEN "none" ELSE op)
            /\ MainStep("poll", IF op = "scan" THEN "idle" ELSE "rekey")
            /\ UNCHANGED <<scanner, locks, flags, progress>>

UpdateCompletes == scan_completed /\ PollEnds
UpdateTimesOut  == ~ scan_completed /\ PollEnds

\* Defect: the results are read without scan_mutex.
ReadUnlocked ==
  /\ \/ MainStep("key", "key_read")
     \/ MainStep("rekey", "rekey_read")
     \/ MainStep("results", "results_read")
  /\ UNCHANGED <<op, scanner, locks, flags, progress>>

\* get_key_mgmt and get_scan_results_inner, under scan_mutex.
LockResults ==
  /\ \/ MainStep("key", "key_read")
     \/ MainStep("rekey", "rekey_read")
     \/ MainStep("results", "results_read")
  /\ Lock(scan_mutex, "main")
  /\ UNCHANGED <<op, scanner, thread_run_mutex, initialised, enabled, flags, progress>>

\* The network is in the results (pause), or not: ask for a scan the first
\* time, give up the second.
UnlockResults ==
  /\ \/ main = "key_read"     /\ main' \in {"pause", "update"} /\ UNCHANGED op
     \/ main = "rekey_read"   /\ main' \in {"pause", "resume"} /\ UNCHANGED op
     \/ main = "results_read" /\ main' = "idle"                /\ op' = "none"
  /\ Unlock(scan_mutex)
  /\ UNCHANGED <<scanner, thread_run_mutex, initialised, enabled, flags, progress>>

\* Defect: scan_pause is set without scan_mutex.
PauseUnlocked ==
  /\ MainStep("pause", "held")
  /\ scan_pause' = TRUE
  /\ UNCHANGED <<op, scanner, locks, scan_running, scan_error, progress>>

\* pause_wifi_scan_thread.
PauseScan ==
  /\ MainStep("pause", "held")
  /\ scan_mutex = "free"
  /\ scan_pause' = TRUE
  /\ UNCHANGED <<op, scanner, locks, scan_running, scan_error, progress>>

\* Defect: a failed command returns without resuming, in every operation.
HeldReturns ==
  /\ main = "held"
  /\ \/ main' = "resume" /\ UNCHANGED op
     \/ main' = "idle"   /\ op' = "none"
  /\ UNCHANGED <<scanner, locks, flags, progress>>

\* What the operation does under its pause: the commands of a connect, a disconnect,
\* a search or a removal.
Held ==
  /\ MainStep("held", "resume")
  /\ UNCHANGED <<op, scanner, locks, flags, progress>>

\* aw_wifi_remove_network returns early (no such network, or a command failed).
RemoveReturnsEarly ==
  /\ op = "remove" /\ op' = "none"
  /\ MainStep("held", "idle")
  /\ UNCHANGED <<scanner, locks, flags, progress>>

\* resume_wifi_scan_thread: clear under the mutex, signal after it.
ResumeScan ==
  /\ MainStep("resume", "signal")
  /\ scan_mutex = "free"
  /\ scan_pause' = FALSE
  /\ UNCHANGED <<op, scanner, locks, scan_running, scan_error, progress>>

\* Defect: the flag is cleared but the paused thread is not signalled.
ResumeSilently ==
  /\ MainStep("signal", "idle")
  /\ op' = "none"
  /\ UNCHANGED <<scanner, locks, flags, progress>>

SignalResume ==
  /\ MainStep("signal", "idle")
  /\ op' = "none"
  /\ Signal("paused", "resumed")
  /\ UNCHANGED <<locks, flags, progress>>

(***************************************************************************)
(* The specification.                                                      *)
(***************************************************************************)

\* Steps of the scan thread that need no mutex, and those that wait for one.
ScannerRuns == Loop \/ Gate \/ Park \/ IssueScan \/ CommandFails \/ Backoff \/ ResultReady
               \/ NoResult \/ FetchResults \/ Report \/ Sleep \/ IntervalElapses
ScannerLocks == EnterRound \/ Unpark \/ RoundOver \/ Wake

\* Steps of main inside a call; Begin, On and Off are the client's choice.
MainRuns  == StopPause \/ StopUnlock \/ StopSignal \/ Join \/ Destroy \/ UpdateCompletes
             \/ UpdateTimesOut \/ UnlockResults \/ Held \/ RemoveReturnsEarly
             \/ SignalResume
MainLocks == RequestScan \/ LockResults \/ PauseScan \/ ResumeScan
Client    == Begin \/ On \/ Off

Next == ScannerRuns \/ ScannerLocks \/ MainRuns \/ MainLocks \/ Client
        \/ ScanResultsEvent \/ TerminatingEvent

\* Every blocking call of the code has a timeout, so each thread keeps
\* running; a thread that waits for a mutex which is released again and again
\* gets it (strong fairness: the scan thread holds scan_mutex most of the time).
Fairness ==
  /\ WF_vars(ScannerRuns) /\ SF_vars(ScannerLocks)
  /\ WF_vars(MainRuns)    /\ SF_vars(MainLocks)

Spec     == Init /\ [][Next]_vars
FairSpec == Spec /\ Fairness

(***************************************************************************)
(* Properties.                                                             *)
(***************************************************************************)

\* While an operation holds the pause, the scan thread uses
\* neither the radio nor scan_results: pause_wifi_scan_thread waits for the
\* scan in flight and no later round passes the gate.
PauseHolds == main = "held" => scanner \notin Scanning

\* get_key_mgmt and get_scan_results_inner never overlap the scan thread's
\* use of scan_results, although stop_wifi_scan_thread unlocks scan_mutex
\* under its holder.
ResultsExclusive == main \in Reading => scanner \notin Scanning

\* Neither thread reaches a mutex or condition variable that
\* stop_wifi_scan_thread has destroyed.
SyncObjectsLive ==
  ~ initialised => scanner = "none" /\ main = "idle"

\* An operation that pauses leaves scanning unpaused, whatever path it took and
\* whatever an earlier one left behind; only aw_wifi_remove_network, whose early
\* returns do not resume, is excepted.
Pausing == {"connect", "add", "disconnect", "get_netid"}

PauseEnds == [][op' = "none" /\ op \in Pausing => ~ scan_pause']_vars

\* update_scan_results ("run scan immediately") reports a completed scan only if
\* a SCAN was issued after the request, or was in progress when it came.
CompletionHasScan == [][UpdateCompletes => scanned]_vars

\* Every operation returns; so does aw_wifi_off, with the join of
\* stop_wifi_scan_thread, unless it finds scanning paused.
OperationReturns ==
  /\ (main \notin {"idle"} \cup Stopping) ~> (main = "idle")
  /\ (main = "stop_pause" /\ ~ scan_pause) ~> (main = "idle")

\* Once no operation disturbs it, a running scan thread that is not paused scans
\* again and again: no resume is lost and the end of a round is never the end of
\* scanning.
ScansRecur ==
  <>[](main = "idle" /\ scanner # "none" /\ ~ scan_pause) => []<>(scanner = "scan")

\* The abstract service: one user of radio and results at a time.
User == IF scanner \in Scanning THEN "scan"
        ELSE IF main \in Reading \cup {"held"} THEN "client" ELSE "nobody"

Service == INSTANCE ScanService WITH running <- initialised, user <- User

\* The scan thread, its pause and its foreign unlock implement the service.
ImplementsService == Service!Spec
=============================================================================
