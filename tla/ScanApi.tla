------------------------------ MODULE ScanApi ------------------------------
(***************************************************************************)
(* The scans of the REST server, crates/rustnmap-api: ScanManager          *)
(* (manager.rs), the handlers that create and cancel scans (handlers/),    *)
(* ScanRunner (runner.rs), which polls for queued scans and runs them in   *)
(* tasks of their own, and the event stream (sse/mod.rs), which polls the  *)
(* status of a scan.                                                       *)
(*                                                                         *)
(* tasks and results are concurrent maps: one access is one step, and what *)
(* a handler or the runner read may be old when it acts.  A count over the *)
(* map is taken as a snapshot.  The scan itself is external: it ends with  *)
(* a result or an error.  Handlers that only read are left out.            *)
(***************************************************************************)
EXTENDS Naturals, FiniteSets

CONSTANTS
  Scans,        \* the identifiers that requests can draw: fresh UUIDs
  Clients,      \* requests that the server handles at the same time
  MaxConcurrent, \* max_concurrent_scans
  None

ASSUME ApiAssumption ==
  /\ IsFiniteSet(Scans)
  /\ MaxConcurrent \in Nat
  /\ None \notin Scans

VARIABLES
  status,  \* status of each scan in tasks, or "absent"
  results, \* the scans that have an entry in results
  request, \* the scan each client is about to insert, or None
  picked,  \* the scan the runner found queued, or None
  worker,  \* the task that runs a scan
  runs,    \* history: how often a scan was run
  stream   \* what the event stream of a scan reported last

vars == <<status, results, request, picked, worker, runs, stream>>

Terminal == {"completed", "failed", "cancelled"}
Statuses == {"absent", "queued", "running"} \union Terminal

TypeOK ==
  /\ status \in [Scans -> Statuses]
  /\ results \subseteq Scans
  /\ request \in [Clients -> Scans \union {None}]
  /\ picked \in Scans \union {None}
  /\ worker \in [Scans -> {"none", "running", "stored", "over"}]
  /\ runs \in [Scans -> Nat]
  /\ stream \in [Scans -> (Statuses \ {"absent"}) \union {"off", "timeout"}]

Init ==
  /\ status = [s \in Scans |-> "absent"]
  /\ results = {}
  /\ request = [c \in Clients |-> None]
  /\ picked = None
  /\ worker = [s \in Scans |-> "none"]
  /\ runs = [s \in Scans |-> 0]
  /\ stream = [s \in Scans |-> "off"]

-----------------------------------------------------------------------------
UpdateStatus(s, new) == status' = [status EXCEPT ![s] = new]

\* The scans that count against the limit.
Counted == {s \in Scans : status[s] \in {"queued", "running"}}

CanStartScan == Cardinality(Counted) < MaxConcurrent

\* create_scan draws an identifier and create_scan_if_allowed looks at the
\* limit; a request over the limit is refused and changes nothing.
CheckLimit(c, s) ==
  /\ request[c] = None
  /\ status[s] = "absent"
  /\ \A d \in Clients : request[d] # s
  /\ CanStartScan
  /\ request' = [request EXCEPT ![c] = s]
  /\ UNCHANGED <<status, results, picked, worker, runs, stream>>

\* ScanManager::create_scan inserts the task.
InsertScan(c) ==
  /\ request[c] # None
  /\ UpdateStatus(request[c], "queued")
  /\ request' = [request EXCEPT ![c] = None]
  /\ UNCHANGED <<results, picked, worker, runs, stream>>

\* cancel_scan: any scan that exists, whatever its status.
CancelScan(s) ==
  /\ status[s] # "absent"
  /\ UpdateStatus(s, "cancelled")
  /\ UNCHANGED <<results, request, picked, worker, runs, stream>>

-----------------------------------------------------------------------------
\* The runner lists the scans and takes one that was queued then ...
PickQueued(s) ==
  /\ picked = None
  /\ status[s] = "queued"
  /\ picked' = s
  /\ UNCHANGED <<status, results, request, worker, runs, stream>>

\* Slip: the status is left for the spawned task to set.
StartUnmarked(s) ==
  /\ picked = s
  /\ picked' = None
  /\ worker' = [worker EXCEPT ![s] = "running"]
  /\ runs' = [runs EXCEPT ![s] = @ + 1]
  /\ UNCHANGED <<status, results, request, stream>>

\* Slip: a scan that was cancelled meanwhile is not started, and stays picked.
StartIfQueued(s) ==
  /\ picked = s
  /\ status[s] = "queued"
  /\ picked' = None
  /\ UpdateStatus(s, "running")
  /\ worker' = [worker EXCEPT ![s] = "running"]
  /\ runs' = [runs EXCEPT ![s] = @ + 1]
  /\ UNCHANGED <<results, request, stream>>

\* ... marks it as running and spawns the task that executes it.
StartScan(s) ==
  /\ picked = s
  /\ picked' = None
  /\ UpdateStatus(s, "running")
  /\ worker' = [worker EXCEPT ![s] = "running"]
  /\ runs' = [runs EXCEPT ![s] = @ + 1]
  /\ UNCHANGED <<results, request, stream>>

\* Slip: the scan is marked as completed before its results are stored.
CompleteFirst(s) ==
  /\ worker[s] = "running"
  /\ worker' = [worker EXCEPT ![s] = "stored"]
  /\ UpdateStatus(s, "completed")
  /\ UNCHANGED <<results, request, picked, runs, stream>>

\* The scan succeeds: its results are stored first ...
StoreResults(s) ==
  /\ worker[s] = "running"
  /\ worker' = [worker EXCEPT ![s] = "stored"]
  /\ results' = results \union {s}
  /\ UNCHANGED <<status, request, picked, runs, stream>>

\* ... and its status second.
CompleteScan(s) ==
  /\ worker[s] = "stored"
  /\ worker' = [worker EXCEPT ![s] = "over"]
  /\ UpdateStatus(s, "completed")
  /\ UNCHANGED <<results, request, picked, runs, stream>>

\* Slip: an error ends the task and leaves the status.
FailSilently(s) ==
  /\ worker[s] = "running"
  /\ worker' = [worker EXCEPT ![s] = "over"]
  /\ UNCHANGED <<status, results, request, picked, runs, stream>>

\* The scan type is not supported, the targets do not parse, or the scan ends
\* with an error.
FailScan(s) ==
  /\ worker[s] = "running"
  /\ worker' = [worker EXCEPT ![s] = "over"]
  /\ UpdateStatus(s, "failed")
  /\ UNCHANGED <<results, request, picked, runs, stream>>

-----------------------------------------------------------------------------
\* Slip: a cancelled scan is not over.
StreamOverUnlessCancelled(s) == stream[s] \in {"completed", "failed", "timeout"}

StreamOver(s) == stream[s] \in Terminal \union {"timeout"}

\* Slip: a stream is opened for a scan that does not exist.
PollAnyScan(s) ==
  /\ ~StreamOver(s)
  /\ stream' = [stream EXCEPT ![s] = status[s]]
  /\ UNCHANGED <<status, results, request, picked, worker, runs>>

\* scan_stream polls the status, reports it, and ends with a terminal one.
PollStatus(s) ==
  /\ status[s] # "absent"
  /\ ~StreamOver(s)
  /\ stream' = [stream EXCEPT ![s] = status[s]]
  /\ UNCHANGED <<status, results, request, picked, worker, runs>>

\* SSE_TIMEOUT
StreamTimeout(s) ==
  /\ stream[s] \in {"queued", "running"}
  /\ stream' = [stream EXCEPT ![s] = "timeout"]
  /\ UNCHANGED <<status, results, request, picked, worker, runs>>

-----------------------------------------------------------------------------
Request ==
  \/ \E c \in Clients : InsertScan(c) \/ \E s \in Scans : CheckLimit(c, s)
  \/ \E s \in Scans : CancelScan(s)

Runner == \E s \in Scans : PickQueued(s) \/ StartScan(s)

Work(s) == StoreResults(s) \/ CompleteScan(s) \/ FailScan(s)

Watch(s) == PollStatus(s) \/ StreamTimeout(s)

Next == Request \/ Runner \/ \E s \in Scans : Work(s) \/ Watch(s)

Spec == Init /\ [][Next]_vars

\* The runner polls for ever, an accepted request is handled, a scan ends, and
\* a stream polls until it is over.
Fairness ==
  /\ WF_vars(Runner)
  /\ \A c \in Clients : WF_vars(InsertScan(c))
  /\ \A s \in Scans : WF_vars(Work(s)) /\ WF_vars(PollStatus(s))

FairSpec == Spec /\ Fairness

-----------------------------------------------------------------------------
\* A scan is run at most once, although the runner acts on a list that may be
\* old: a cancellation in between does not make it run again.
RunOnce == \A s \in Scans : runs[s] <= 1

\* Who sees that a scan is completed finds its results: they are stored before
\* the status, and a later cancellation does not take them away
\* (process_queued_scans, get_scan_results).
CompletedHasResults ==
  \A s \in Scans : status[s] = "completed" => s \in results

\* A scan that is marked as running has a task that will end it, so that its
\* place under the limit is given back, and a scan that is marked as completed
\* or failed has none (process_queued_scans).
StatusFollowsWork ==
  \A s \in Scans :
    /\ status[s] = "running" => worker[s] \in {"running", "stored"}
    /\ status[s] \in {"completed", "failed"} => worker[s] = "over"

\* A cancelled scan stays cancelled, as the response to the client says.
CancelIsFinal ==
  [][\A s \in Scans : status[s] = "cancelled" => status'[s] = "cancelled"]_vars

\* Every scan that is created ends, and so does a stream that watches it,
\* whatever is cancelled meanwhile.
EveryScanEnds == \A s \in Scans : (status[s] = "queued") ~> (status[s] \in Terminal)
EveryStreamEnds == \A s \in Scans : (status[s] = "queued") ~> StreamOver(s)
=============================================================================
