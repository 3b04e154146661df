--------------------------- MODULE ScanApiProofs ---------------------------
(***************************************************************************)
(* Proofs about ScanApi, for any number of scans and concurrent requests   *)
(* and any limit.                                                          *)
(***************************************************************************)
EXTENDS ScanApi, TLAPS

\* A request inserts a scan that nobody else knows.
RequestFresh ==
  /\ \A c \in Clients : request[c] # None => status[request[c]] = "absent"
  /\ \A c, d \in Clients : c # d /\ request[c] # None => request[c] # request[d]

\* A scan that is waiting to be run has not been run, whatever happened to its
\* status since the runner picked it.
NotRunYet ==
  \A s \in Scans :
    /\ status[s] \in {"absent", "queued"} \/ picked = s => worker[s] = "none"
    /\ picked = s => status[s] # "absent"

RunsCounted == \A s \in Scans : runs[s] = IF worker[s] = "none" THEN 0 ELSE 1

ResultsFirst ==
  \A s \in Scans : worker[s] = "stored" \/ status[s] = "completed" => s \in results

\* The inductive invariant.
IInv ==
  /\ TypeOK
  /\ RequestFresh
  /\ NotRunYet
  /\ RunsCounted
  /\ ResultsFirst
  /\ StatusFollowsWork

-----------------------------------------------------------------------------
LEMMA IInvInit == Init => IInv
BY ApiAssumption
DEF Init, IInv, TypeOK, RequestFresh, NotRunYet, RunsCounted, ResultsFirst,
    StatusFollowsWork, Statuses, Terminal

\* Requests.
LEMMA CheckLimitStep ==
  ASSUME IInv, NEW c \in Clients, NEW s \in Scans, CheckLimit(c, s)
  PROVE  IInv'
<1> USE DEF IInv
<1>1. /\ request' = [request EXCEPT ![c] = s]
      /\ status[s] = "absent" /\ \A d \in Clients : request[d] # s
      /\ UNCHANGED <<status, results, picked, worker, runs, stream>>
  BY DEF CheckLimit
<1>2. TypeOK'
  BY <1>1 DEF TypeOK
<1>3. RequestFresh'
  BY <1>1 DEF RequestFresh, TypeOK
<1>4. QED
  BY <1>1, <1>2, <1>3
  DEF NotRunYet, RunsCounted, ResultsFirst, StatusFollowsWork

LEMMA InsertScanStep ==
  ASSUME IInv, NEW c \in Clients, InsertScan(c)
  PROVE  IInv'
<1> USE DEF IInv
<1> DEFINE s == request[c]
<1>1. /\ s \in Scans /\ s # None
      /\ status' = [status EXCEPT ![s] = "queued"]
      /\ request' = [request EXCEPT ![c] = None]
      /\ UNCHANGED <<results, picked, worker, runs, stream>>
  BY DEF InsertScan, UpdateStatus, TypeOK
<1>2. status[s] = "absent" /\ worker[s] = "none"
  BY <1>1 DEF RequestFresh, NotRunYet
<1>3. TypeOK'
  BY <1>1 DEF TypeOK, Statuses
<1>4. RequestFresh'
  BY <1>1 DEF RequestFresh, TypeOK
<1>5. NotRunYet' /\ RunsCounted'
  BY <1>1, <1>2 DEF NotRunYet, RunsCounted, TypeOK
<1>6. ResultsFirst' /\ StatusFollowsWork'
  BY <1>1, <1>2 DEF ResultsFirst, StatusFollowsWork, TypeOK
<1>7. QED
  BY <1>3, <1>4, <1>5, <1>6

LEMMA CancelScanStep ==
  ASSUME IInv, NEW s \in Scans, CancelScan(s)
  PROVE  IInv'
<1> USE DEF IInv
<1>1. /\ status[s] # "absent" /\ status' = [status EXCEPT ![s] = "cancelled"]
      /\ UNCHANGED <<results, request, picked, worker, runs, stream>>
  BY DEF CancelScan, UpdateStatus
<1>2. TypeOK'
  BY <1>1 DEF TypeOK, Statuses, Terminal
<1>3. RequestFresh'
  BY <1>1 DEF RequestFresh, TypeOK
<1>4. QED
  BY <1>1, <1>2, <1>3
  DEF NotRunYet, RunsCounted, ResultsFirst, StatusFollowsWork, TypeOK

\* The runner.
LEMMA PickQueuedStep ==
  ASSUME IInv, NEW s \in Scans, PickQueued(s)
  PROVE  IInv'
<1> USE DEF IInv
<1>1. /\ status[s] = "queued" /\ picked' = s
      /\ UNCHANGED <<status, results, request, worker, runs, stream>>
  BY DEF PickQueued
<1>2. QED
  BY <1>1
  DEF TypeOK, RequestFresh, NotRunYet, RunsCounted, ResultsFirst,
      StatusFollowsWork

LEMMA StartScanStep ==
  ASSUME IInv, NEW s \in Scans, StartScan(s)
  PROVE  IInv'
<1> USE DEF IInv
<1>1. /\ picked = s /\ picked' = None
      /\ status' = [status EXCEPT ![s] = "running"]
      /\ worker' = [worker EXCEPT ![s] = "running"]
      /\ runs' = [runs EXCEPT ![s] = @ + 1]
      /\ UNCHANGED <<results, request, stream>>
  BY DEF StartScan, UpdateStatus
<1>2. worker[s] = "none" /\ runs[s] = 0
  BY <1>1 DEF NotRunYet, RunsCounted
<1>3. None \notin Scans
  BY ApiAssumption
<1>4. TypeOK'
  BY <1>1 DEF TypeOK, Statuses
<1>5. RequestFresh'
  <2>1. \A c \in Clients : request[c] # s
    <3>1. SUFFICES ASSUME NEW c \in Clients, request[c] = s PROVE FALSE
      OBVIOUS
    <3>2. status[s] = "absent"
      BY <1>3, <3>1 DEF RequestFresh
    <3>3. QED
      BY <1>1, <3>1, <3>2 DEF NotRunYet
  <2>2. QED
    BY <1>1, <2>1 DEF RequestFresh, TypeOK
<1>6. NotRunYet'
  BY <1>1, <1>3 DEF NotRunYet, TypeOK
<1>7. RunsCounted'
  BY <1>1, <1>2 DEF RunsCounted, TypeOK
<1>8. ResultsFirst' /\ StatusFollowsWork'
  BY <1>1 DEF ResultsFirst, StatusFollowsWork, TypeOK
<1>9. QED
  BY <1>4, <1>5, <1>6, <1>7, <1>8

\* The task of a scan.
LEMMA StoreResultsStep ==
  ASSUME IInv, NEW s \in Scans, StoreResults(s)
  PROVE  IInv'
<1> USE DEF IInv
<1>1. /\ worker[s] = "running" /\ worker' = [worker EXCEPT ![s] = "stored"]
      /\ results' = results \union {s}
      /\ UNCHANGED <<status, request, picked, runs, stream>>
  BY DEF StoreResults
<1>2. TypeOK'
  BY <1>1 DEF TypeOK
<1>3. RequestFresh'
  BY <1>1 DEF RequestFresh
<1>4. NotRunYet' /\ RunsCounted'
  BY <1>1 DEF NotRunYet, RunsCounted, TypeOK
<1>5. ResultsFirst' /\ StatusFollowsWork'
  BY <1>1 DEF ResultsFirst, StatusFollowsWork, TypeOK
<1>6. QED
  BY <1>2, <1>3, <1>4, <1>5

LEMMA CompleteScanStep ==
  ASSUME IInv, NEW s \in Scans, CompleteScan(s)
  PROVE  IInv'
<1> USE DEF IInv
<1>1. /\ worker[s] = "stored" /\ worker' = [worker EXCEPT ![s] = "over"]
      /\ status' = [status EXCEPT ![s] = "completed"]
      /\ UNCHANGED <<results, request, picked, runs, stream>>
  BY DEF CompleteScan, UpdateStatus
<1>2. s \in results /\ status[s] # "absent"
  BY <1>1 DEF ResultsFirst, NotRunYet
<1>3. TypeOK'
  BY <1>1 DEF TypeOK, Statuses, Terminal
<1>4. RequestFresh'
  BY <1>1, <1>2 DEF RequestFresh, TypeOK
<1>5. NotRunYet' /\ RunsCounted'
  BY <1>1 DEF NotRunYet, RunsCounted, TypeOK
<1>6. ResultsFirst' /\ StatusFollowsWork'
  BY <1>1, <1>2 DEF ResultsFirst, StatusFollowsWork, TypeOK
<1>7. QED
  BY <1>3, <1>4, <1>5, <1>6

LEMMA FailScanStep ==
  ASSUME IInv, NEW s \in Scans, FailScan(s)
  PROVE  IInv'
<1> USE DEF IInv
<1>1. /\ worker[s] = "running" /\ worker' = [worker EXCEPT ![s] = "over"]
      /\ status' = [status EXCEPT ![s] = "failed"]
      /\ UNCHANGED <<results, request, picked, runs, stream>>
  BY DEF FailScan, UpdateStatus
<1>2. status[s] # "absent"
  BY <1>1 DEF NotRunYet
<1>3. TypeOK'
  BY <1>1 DEF TypeOK, Statuses, Terminal
<1>4. RequestFresh'
  BY <1>1, <1>2 DEF RequestFresh, TypeOK
<1>5. NotRunYet' /\ RunsCounted'
  BY <1>1 DEF NotRunYet, RunsCounted, TypeOK
<1>6. ResultsFirst' /\ StatusFollowsWork'
  BY <1>1 DEF ResultsFirst, StatusFollowsWork, TypeOK
<1>7. QED
  BY <1>3, <1>4, <1>5, <1>6

\* The event stream only reads.
LEMMA WatchStep ==
  ASSUME IInv, NEW s \in Scans, Watch(s)
  PROVE  IInv'
<1> USE DEF IInv
<1>1. UNCHANGED <<status, results, request, picked, worker, runs>>
  BY DEF Watch, PollStatus, StreamTimeout
<1>2. stream' \in [Scans -> (Statuses \ {"absent"}) \union {"off", "timeout"}]
  BY DEF Watch, PollStatus, StreamTimeout, TypeOK
<1>3. QED
  BY <1>1, <1>2
  DEF TypeOK, RequestFresh, NotRunYet, RunsCounted, ResultsFirst,
      StatusFollowsWork

LEMMA IInvNext == IInv /\ [Next]_vars => IInv'
<1> SUFFICES ASSUME IInv, [Next]_vars PROVE IInv'
  OBVIOUS
<1>1. CASE Request
  BY <1>1, CheckLimitStep, InsertScanStep, CancelScanStep DEF Request
<1>2. CASE Runner
  BY <1>2, PickQueuedStep, StartScanStep DEF Runner
<1>3. ASSUME NEW s \in Scans, Work(s) PROVE IInv'
  BY <1>3, StoreResultsStep, CompleteScanStep, FailScanStep DEF Work
<1>4. ASSUME NEW s \in Scans, Watch(s) PROVE IInv'
  BY <1>4, WatchStep
<1>5. CASE UNCHANGED vars
  BY <1>5
  DEF vars, IInv, TypeOK, RequestFresh, NotRunYet, RunsCounted, ResultsFirst,
      StatusFollowsWork
<1>6. QED
  BY <1>1, <1>2, <1>3, <1>4, <1>5 DEF Next

LEMMA Invariant == Spec => []IInv
<1>1. Init => IInv
  BY IInvInit
<1>2. IInv /\ [Next]_vars => IInv'
  BY IInvNext
<1>3. QED
  BY <1>1, <1>2, PTL DEF Spec

-----------------------------------------------------------------------------
\* Every variable keeps its type: no stream is opened for a scan that does not
\* exist (scan_stream).
THEOREM TypeCorrect == Spec => []TypeOK
<1>1. IInv => TypeOK
  BY DEF IInv
<1>2. QED
  BY <1>1, Invariant, PTL

\* No scan is run twice, although the runner acts on old reads and scans are
\* cancelled at any moment (process_queued_scans).
THEOREM RunsOnce == Spec => []RunOnce
<1>1. IInv => RunOnce
  BY DEF IInv, RunsCounted, RunOnce
<1>2. QED
  BY <1>1, Invariant, PTL

\* Whoever sees that a scan is completed finds its results (store_results
\* before update_status).
THEOREM ResultsBeforeCompletion == Spec => []CompletedHasResults
<1>1. IInv => CompletedHasResults
  BY DEF IInv, ResultsFirst, CompletedHasResults
<1>2. QED
  BY <1>1, Invariant, PTL

\* A scan marked as running has a task that will end it, and one marked as
\* completed or failed has none.
THEOREM StatusIsTrue == Spec => []StatusFollowsWork
<1>1. IInv => StatusFollowsWork
  BY DEF IInv
<1>2. QED
  BY <1>1, Invariant, PTL
=============================================================================
