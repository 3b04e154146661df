--------------------------- MODULE TaskScheduler ---------------------------
(***************************************************************************)
(* TaskScheduler of crates/rustnmap-core/src/scheduler.rs: a bounded       *)
(* channel of task messages, a semaphore that limits how many tasks run,   *)
(* and the run loop, which runs only inside wait_for_completion.  Callers  *)
(* work through programs of calls; run_host_discovery of orchestrator.rs   *)
(* is one caller that schedules every ping and then waits.                 *)
(*                                                                         *)
(* A message is a task, or Shutdown.  The future of a task is external:    *)
(* it ends, with success or not, whenever it likes.                        *)
(***************************************************************************)
EXTENDS Naturals, Sequences, FiniteSets, Functions

CONSTANTS
  Tasks,         \* the tasks, each scheduled once
  Callers,       \* who calls the scheduler
  Program,       \* what each caller calls, in order
  Capacity,      \* of the channel: 1024
  MaxConcurrent, \* permits of the semaphore
  Shutdown       \* TaskMessage::Shutdown

Calls == Tasks \union {"shutdown", "wait"}

ASSUME SchedulerAssumption ==
  /\ IsFiniteSet(Tasks)
  /\ Shutdown \notin Tasks
  /\ Tasks \intersect {"shutdown", "wait"} = {}
  /\ Program \in [Callers -> Seq(Calls)]
  /\ Capacity \in Nat \ {0}
  /\ MaxConcurrent \in Nat

VARIABLES
  pos,       \* the call each caller is at
  at,        \* where it is in that call
  queue,     \* the channel
  task,      \* what became of each task
  permits,   \* free permits of the semaphore
  handles,   \* join handles of the run that holds the receiver
  submitted, \* total_submitted
  active,    \* active_count
  completed, \* total_completed
  failed     \* total_failed

vars == <<pos, at, queue, task, permits, handles, submitted, active,
          completed, failed>>

Places == {"idle", "send", "lock", "recv", "permit", "join"}
Fates == {"new", "submitted", "queued", "taken", "running", "ok", "failed"}

TypeOK ==
  /\ pos \in [Callers -> Nat \ {0}]
  /\ \A c \in Callers : pos[c] <= Len(Program[c]) + 1
  /\ at \in [Callers -> Places]
  /\ queue \in Seq(Tasks \union {Shutdown})
  /\ Len(queue) <= Capacity
  /\ task \in [Tasks -> Fates]
  /\ permits \in 0..MaxConcurrent
  /\ handles \in Seq(Tasks)
  /\ submitted \in Nat
  /\ active \in Nat
  /\ completed \in Nat
  /\ failed \in Nat

Init ==
  /\ pos = [c \in Callers |-> 1]
  /\ at = [c \in Callers |-> "idle"]
  /\ queue = <<>>
  /\ task = [t \in Tasks |-> "new"]
  /\ permits = MaxConcurrent
  /\ handles = <<>>
  /\ submitted = 0
  /\ active = 0
  /\ completed = 0
  /\ failed = 0

-----------------------------------------------------------------------------
Finished(c) == pos[c] > Len(Program[c])
Current(c) == Program[c][pos[c]]
Goto(c, place) == at' = [at EXCEPT ![c] = place]
Becomes(t, fate) == task' = [task EXCEPT ![t] = fate]

\* The call returns, and the caller is at its next one.
CallReturns(c) ==
  /\ Goto(c, "idle")
  /\ pos' = [pos EXCEPT ![c] = @ + 1]

\* The caller whose run holds the lock on the receiver.
Holds(c) == at[c] \in {"recv", "permit", "join"}

\* schedule counts the task as submitted before it has a place in the channel;
\* wait_for_completion and shutdown only have their message to send.  A task is
\* moved into schedule, so it is scheduled once.
Begin(c) ==
  /\ at[c] = "idle" /\ ~Finished(c)
  /\ Goto(c, "send")
  /\ IF Current(c) \in Tasks
     THEN /\ task[Current(c)] = "new"
          /\ submitted' = submitted + 1
          /\ Becomes(Current(c), "submitted")
     ELSE UNCHANGED <<submitted, task>>
  /\ UNCHANGED <<pos, queue, permits, handles, active, completed, failed>>

\* The message goes into the channel; a full channel makes the caller wait.
Send(c) ==
  /\ at[c] = "send"
  /\ Len(queue) < Capacity
  /\ IF Current(c) \in Tasks
     THEN /\ queue' = Append(queue, Current(c))
          /\ Becomes(Current(c), "queued")
     ELSE /\ queue' = Append(queue, Shutdown)
          /\ UNCHANGED task
  /\ IF Current(c) = "wait"
     THEN Goto(c, "lock") /\ UNCHANGED pos
     ELSE CallReturns(c)
  /\ UNCHANGED <<permits, handles, submitted, active, completed, failed>>

\* run takes the receiver's lock and holds it until it returns.
Lock(c) ==
  /\ at[c] = "lock"
  /\ \A d \in Callers : ~Holds(d)
  /\ Goto(c, "recv")
  /\ UNCHANGED <<pos, queue, task, permits, handles, submitted, active,
                 completed, failed>>

ReceiveTask(c) ==
  /\ at[c] = "recv"
  /\ queue # <<>> /\ Head(queue) # Shutdown
  /\ queue' = Tail(queue)
  /\ Becomes(Head(queue), "taken")
  /\ Goto(c, "permit")
  /\ UNCHANGED <<pos, permits, handles, submitted, active, completed, failed>>

ReceiveShutdown(c) ==
  /\ at[c] = "recv"
  /\ queue # <<>> /\ Head(queue) = Shutdown
  /\ queue' = Tail(queue)
  /\ Goto(c, "join")
  /\ UNCHANGED <<pos, task, permits, handles, submitted, active, completed,
                 failed>>

\* The loop waits for a permit, counts the task as active and spawns it.
Spawn(c) ==
  /\ at[c] = "permit"
  /\ permits > 0
  /\ permits' = permits - 1
  /\ active' = active + 1
  /\ \E t \in Tasks :
       /\ task[t] = "taken"
       /\ Becomes(t, "running")
       /\ handles' = Append(handles, t)
  /\ Goto(c, "recv")
  /\ UNCHANGED <<pos, queue, submitted, completed, failed>>

\* Slip: a task that fails keeps its permit.
FinishLeaking(t) ==
  /\ task[t] = "running"
  /\ \/ Becomes(t, "ok") /\ permits' = permits + 1
     \/ Becomes(t, "failed") /\ UNCHANGED permits
  /\ UNCHANGED <<pos, at, queue, handles, submitted, active, completed, failed>>

\* The spawned task ends, returns an error or panics, and drops its permit.
Finish(t) ==
  /\ task[t] = "running"
  /\ \E fate \in {"ok", "failed"} : Becomes(t, fate)
  /\ permits' = permits + 1
  /\ UNCHANGED <<pos, at, queue, handles, submitted, active, completed, failed>>

\* Slip: a task that failed is awaited and forgotten.
JoinForgetful(c) ==
  /\ at[c] = "join"
  /\ handles # <<>>
  /\ task[Head(handles)] \in {"ok", "failed"}
  /\ completed' = IF task[Head(handles)] = "ok" THEN completed + 1 ELSE completed
  /\ active' = active - 1
  /\ handles' = Tail(handles)
  /\ UNCHANGED <<pos, at, queue, task, permits, submitted, failed>>

\* The handles are awaited in the order of the spawns.
Join(c) ==
  /\ at[c] = "join"
  /\ handles # <<>>
  /\ \/ /\ task[Head(handles)] = "ok"
        /\ completed' = completed + 1
        /\ UNCHANGED failed
     \/ /\ task[Head(handles)] = "failed"
        /\ failed' = failed + 1
        /\ UNCHANGED completed
  /\ active' = active - 1
  /\ handles' = Tail(handles)
  /\ UNCHANGED <<pos, at, queue, task, permits, submitted>>

\* Slip: wait_for_completion returns when it has the shutdown message.
ReturnEarly(c) ==
  /\ at[c] = "join"
  /\ handles' = <<>>
  /\ CallReturns(c)
  /\ UNCHANGED <<queue, task, permits, submitted, active, completed, failed>>

\* Every handle was awaited: run returns and lets go of the receiver.
Return(c) ==
  /\ at[c] = "join"
  /\ handles = <<>>
  /\ CallReturns(c)
  /\ UNCHANGED <<queue, task, permits, handles, submitted, active, completed,
                 failed>>

\* Every call returned and no task runs.
Rest ==
  /\ \A c \in Callers : Finished(c)
  /\ \A t \in Tasks : task[t] # "running"
  /\ UNCHANGED vars

CallerStep(c) ==
  \/ Begin(c) \/ Send(c)
  \/ Lock(c) \/ ReceiveTask(c) \/ ReceiveShutdown(c) \/ Spawn(c)
  \/ Join(c) \/ Return(c)

Next ==
  \/ \E c \in Callers : CallerStep(c)
  \/ \E t \in Tasks : Finish(t)
  \/ Rest

Spec == Init /\ [][Next]_vars

\* The runtime polls a caller that can go on, and every ping has a timeout.
Fairness ==
  /\ \A c \in Callers : WF_vars(CallerStep(c))
  /\ \A t \in Tasks : WF_vars(Finish(t))

FairSpec == Spec /\ Fairness

-----------------------------------------------------------------------------
Are(fates) == {t \in Tasks : task[t] \in fates}
Over == Are({"ok", "failed"})

\* However callers, the run loop and the tasks interleave, no more tasks run
\* than the semaphore has permits, and no permit is lost: those that are not
\* free are held by running tasks (acquire_owned, _permit).
ConcurrencyBounded == Cardinality(Are({"running"})) + permits = MaxConcurrent

\* The counters agree with what the tasks did: a task that is over is counted
\* once, as completed or failed, when its handle is awaited, and until then it
\* counts as active.
CountsAgree ==
  /\ active = Cardinality(Are({"running"}) \union Range(handles))
  /\ completed = Cardinality(Are({"ok"}) \ Range(handles))
  /\ failed = Cardinality(Are({"failed"}) \ Range(handles))

\* When wait_for_completion returns, every task its caller scheduled before
\* has been run and is over, in every round in which the scheduler is used.
WaitMeansDone ==
  \A c \in Callers : \A i \in 1..(pos[c] - 1) :
    Program[c][i] = "wait" =>
      \A j \in 1..(i - 1) : Program[c][j] \in Tasks => Program[c][j] \in Over

\* The doc of schedule says that it returns an error when the queue is full: a
\* caller that schedules a task would get an answer in any case.
ScheduleReturns ==
  \A c \in Callers :
    at[c] = "send" /\ Current(c) \in Tasks ~> at[c] # "send"
=============================================================================
