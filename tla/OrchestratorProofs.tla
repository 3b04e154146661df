------------------------- MODULE OrchestratorProofs -------------------------
(***************************************************************************)
(* Proofs about TaskScheduler and about Orchestrator, which extends it.    *)
(*                                                                         *)
(* The scheduler's are for any set of tasks, any number of callers with    *)
(* any programs, any capacity of the channel and any number of permits:    *)
(* they rest on SchedulerAssumption alone, which the orchestrator's        *)
(* constants add nothing to.  The orchestrator's are for any hosts, target *)
(* sets, ports and ping programs.  To the scheduler a run is one more use  *)
(* of it (Implements), so that its promises carry over; they are what      *)
(* keeps a late ping from changing the status of a host while the scan     *)
(* acts on it.                                                             *)
(***************************************************************************)
EXTENDS Orchestrator, FiniteSetTheorems, TLAPS

(* ------------------------- The task scheduler. ------------------------- *)
FatesTyped ==
  /\ task \in [Tasks -> Fates]
  /\ permits \in Nat

CallsTyped ==
  /\ pos \in [Callers -> Nat]
  /\ at \in [Callers -> Places]
  /\ queue \in Seq(Tasks \union {Shutdown})

Sending(c) == at[c] = "send" /\ Current(c) \in Tasks

\* Callers send different tasks, each submitted and not queued yet.
SentOnce ==
  /\ \A c \in Callers : Sending(c) => task[Current(c)] = "submitted"
  /\ \A c, d \in Callers : Sending(c) /\ Sending(d) /\ c # d =>
                             Current(c) # Current(d)

\* A task is in the queue at most once, and only while it was not taken.
QueuedOnce ==
  /\ \A i \in DOMAIN queue : queue[i] \in Tasks => task[queue[i]] = "queued"
  /\ \A i, j \in DOMAIN queue :
       queue[i] \in Tasks /\ i # j => queue[i] # queue[j]

\* Inductive: a task moves along the channel once.
QInv == FatesTyped /\ CallsTyped /\ SentOnce /\ QueuedOnce

\* Inductive with QInv: the permits that are not free are held by running
\* tasks.
IInv == QInv /\ ConcurrencyBounded

\* A task that starts or stops running changes the number of those that run
\* by one.
LEMMA OneStarts ==
  ASSUME NEW t \in Tasks, NEW fate \in Fates, FatesTyped,
         task[t] # "running", task' = [task EXCEPT ![t] = fate]
  PROVE  /\ Cardinality(Are({"running"})) \in Nat
         /\ fate = "running" =>
              Cardinality(Are({"running"})') = Cardinality(Are({"running"})) + 1
         /\ fate # "running" => Are({"running"})' = Are({"running"})
<1> DEFINE R == Are({"running"})
<1>1. R \subseteq Tasks /\ IsFiniteSet(R)
  BY SchedulerAssumption, FS_Subset DEF Are
<1>2. t \notin R
  BY DEF Are
<1>3. fate = "running" => R' = R \union {t}
  BY DEF Are, FatesTyped
<1>4. fate # "running" => R' = R
  BY DEF Are, FatesTyped
<1>5. Cardinality(R) \in Nat
  BY <1>1, FS_CardinalityType
<1>6. Cardinality(R \union {t}) = Cardinality(R) + 1
  BY <1>1, <1>2, FS_AddElement
<1>7. QED
  BY <1>3, <1>4, <1>5, <1>6

LEMMA OneStops ==
  ASSUME NEW t \in Tasks, NEW fate \in Fates \ {"running"}, FatesTyped,
         task[t] = "running", task' = [task EXCEPT ![t] = fate]
  PROVE  /\ Cardinality(Are({"running"})) \in Nat
         /\ Cardinality(Are({"running"})') = Cardinality(Are({"running"})) - 1
<1> DEFINE R == Are({"running"})
<1>1. R \subseteq Tasks /\ IsFiniteSet(R)
  BY SchedulerAssumption, FS_Subset DEF Are
<1>2. t \in R
  BY DEF Are
<1>3. R' = R \ {t}
  BY DEF Are, FatesTyped
<1>4. Cardinality(R) \in Nat
  BY <1>1, FS_CardinalityType
<1>5. Cardinality(R \ {t}) = Cardinality(R) - 1
  BY <1>1, <1>2, FS_RemoveElement
<1>6. QED
  BY <1>3, <1>4, <1>5

-----------------------------------------------------------------------------
LEMMA QInvInit == Init => QInv
BY SchedulerAssumption
DEF Init, QInv, FatesTyped, CallsTyped, SentOnce, QueuedOnce, Sending, Fates,
    Places

LEMMA QBegin == ASSUME QInv, NEW c \in Callers, Begin(c) PROVE QInv'
<1> USE DEF QInv
<1>1. pos' = pos /\ queue' = queue /\ permits' = permits
  BY DEF Begin
<1>2. at' = [at EXCEPT ![c] = "send"]
  BY DEF Begin, Goto
<1>3. CASE Current(c) \in Tasks
  <2>1. task[Current(c)] = "new" /\ task' = [task EXCEPT ![Current(c)] = "submitted"]
    BY <1>3 DEF Begin, Becomes
  <2>2. FatesTyped'
    BY <1>1, <2>1 DEF FatesTyped, Fates
  <2>3. CallsTyped'
    BY <1>1, <1>2 DEF CallsTyped, Places
  <2>4. SentOnce'
    BY <1>1, <1>2, <1>3, <2>1 DEF SentOnce, Sending, Current, CallsTyped, FatesTyped
  <2>5. QueuedOnce'
    BY <1>1, <2>1 DEF QueuedOnce, FatesTyped
  <2>6. QED
    BY <2>2, <2>3, <2>4, <2>5
<1>4. CASE Current(c) \notin Tasks
  <2>1. task' = task
    BY <1>4 DEF Begin
  <2>2. SentOnce'
    BY <1>1, <1>2, <1>4, <2>1 DEF SentOnce, Sending, Current, CallsTyped
  <2>3. QED
    BY <1>1, <1>2, <2>1, <2>2 DEF FatesTyped, CallsTyped, QueuedOnce, Places
<1>5. QED
  BY <1>3, <1>4

\* The message of c is on its way into the channel.
LEMMA QSend == ASSUME QInv, NEW c \in Callers, Send(c) PROVE QInv'
<1> USE DEF QInv
<1> DEFINE m == IF Current(c) \in Tasks THEN Current(c) ELSE Shutdown
<1>1. permits' = permits /\ queue' = Append(queue, m) /\ at[c] = "send"
  BY DEF Send
<1>2. at' \in [Callers -> Places] /\ pos' \in [Callers -> Nat] /\ at'[c] # "send"
  BY DEF Send, CallReturns, Goto, CallsTyped, Places
<1>3. \A d \in Callers \ {c} : at'[d] = at[d] /\ pos'[d] = pos[d]
  BY DEF Send, CallReturns, Goto, CallsTyped
<1>4. m \in Tasks \union {Shutdown}
  OBVIOUS
<1>5. CallsTyped'
  BY <1>1, <1>2, <1>4 DEF CallsTyped
<1>6. \A d \in Callers : Sending(d)' => Sending(d) /\ d # c /\ Current(d)' = Current(d)
  BY <1>2, <1>3 DEF Sending, Current
<1>7. /\ DOMAIN queue' = 1..(Len(queue) + 1) /\ DOMAIN queue = 1..Len(queue)
      /\ Len(queue) \in Nat
      /\ queue'[Len(queue) + 1] = m
      /\ \A i \in 1..Len(queue) : queue'[i] = queue[i]
  BY <1>1, <1>4 DEF CallsTyped
<1> HIDE DEF m
<1>8. CASE Current(c) \in Tasks
  <2>1. m = Current(c) /\ task[m] = "submitted"
    BY <1>1, <1>8 DEF m, SentOnce, Sending
  <2>2. task' = [task EXCEPT ![m] = "queued"]
    BY <1>8 DEF Send, Becomes, m
  <2>3. FatesTyped'
    BY <1>1, <2>2 DEF FatesTyped, Fates
  <2>4. SentOnce'
    <3>1. Sending(c)
      BY <1>1, <1>8 DEF Sending
    <3>2. \A d \in Callers : Sending(d)' => Current(d) # m
      BY <1>6, <2>1, <3>1 DEF SentOnce
    <3>3. \A d \in Callers : Sending(d)' => task'[Current(d)'] = "submitted"
      BY <1>6, <2>2, <3>2 DEF SentOnce, FatesTyped, Sending
    <3>4. \A d, e \in Callers : Sending(d)' /\ Sending(e)' /\ d # e =>
                                  Current(d)' # Current(e)'
      BY <1>6 DEF SentOnce
    <3>5. QED
      BY <3>3, <3>4 DEF SentOnce
  <2>5. QueuedOnce'
    <3>1. m \in Tasks
      BY <1>8, <2>1
    <3>2. \A i \in 1..Len(queue) : queue[i] # m
      BY <1>7, <2>1, <3>1 DEF QueuedOnce
    <3>3. \A i \in DOMAIN queue' : queue'[i] \in Tasks => task'[queue'[i]] = "queued"
      BY <1>7, <2>2, <3>1 DEF QueuedOnce, FatesTyped
    <3>4. \A i, j \in DOMAIN queue' :
            queue'[i] \in Tasks /\ i # j => queue'[i] # queue'[j]
      BY <1>7, <3>2 DEF QueuedOnce
    <3>5. QED
      BY <3>3, <3>4 DEF QueuedOnce
  <2>6. QED
    BY <1>5, <2>3, <2>4, <2>5
<1>9. CASE Current(c) \notin Tasks
  <2>1. task' = task /\ m = Shutdown /\ m \notin Tasks
    BY <1>9, SchedulerAssumption DEF Send, m
  <2>2. SentOnce'
    BY <1>6, <2>1 DEF SentOnce
  <2>3. QueuedOnce'
    BY <1>7, <2>1 DEF QueuedOnce
  <2>4. QED
    BY <1>1, <1>5, <2>1, <2>2, <2>3 DEF FatesTyped
<1>10. QED
  BY <1>8, <1>9

\* The head of the queue goes to the run loop.
LEMMA QReceive ==
  ASSUME QInv, NEW c \in Callers, NEW place \in {"permit", "join"},
         at[c] = "recv", queue # <<>>, queue' = Tail(queue), pos' = pos,
         permits' = permits, at' = [at EXCEPT ![c] = place],
         task' = IF Head(queue) = Shutdown THEN task
                 ELSE [task EXCEPT ![Head(queue)] = "taken"]
  PROVE  QInv'
<1> USE DEF QInv
<1> DEFINE h == Head(queue)
<1>1. h \in Tasks \union {Shutdown} /\ h = queue[1] /\ 1 \in DOMAIN queue
  BY DEF CallsTyped
<1>2. /\ queue' \in Seq(Tasks \union {Shutdown})
      /\ \A i \in DOMAIN queue' :
           i + 1 \in DOMAIN queue /\ queue'[i] = queue[i + 1] /\ i \in Nat /\ i >= 1
  BY DEF CallsTyped
<1>3. FatesTyped'
  BY <1>1 DEF FatesTyped, Fates
<1>4. CallsTyped'
  BY <1>2 DEF CallsTyped, Places
<1>5. h \in Tasks => task[h] = "queued"
  BY <1>1 DEF QueuedOnce
<1>6. \A d \in Callers : Sending(d)' => Sending(d) /\ Current(d)' = Current(d)
  BY DEF Sending, Current, CallsTyped
<1>7. SentOnce'
  <2>1. \A d \in Callers : Sending(d)' => task'[Current(d)'] = "submitted"
    BY <1>1, <1>5, <1>6 DEF SentOnce, FatesTyped, Sending
  <2>2. \A d, e \in Callers : Sending(d)' /\ Sending(e)' /\ d # e =>
                                Current(d)' # Current(e)'
    BY <1>6 DEF SentOnce
  <2>3. QED
    BY <2>1, <2>2 DEF SentOnce
<1>8. QueuedOnce'
  <2>1. \A i \in DOMAIN queue' : queue'[i] \in Tasks => queue'[i] # h
    BY <1>1, <1>2 DEF QueuedOnce
  <2>2. \A i \in DOMAIN queue' : queue'[i] \in Tasks => task'[queue'[i]] = "queued"
    BY <1>1, <1>2, <2>1 DEF QueuedOnce, FatesTyped
  <2>3. \A i, j \in DOMAIN queue' :
          queue'[i] \in Tasks /\ i # j => queue'[i] # queue'[j]
    BY <1>2 DEF QueuedOnce
  <2>4. QED
    BY <2>2, <2>3 DEF QueuedOnce
<1>9. QED
  BY <1>3, <1>4, <1>7, <1>8

\* Steps that leave the queue alone, change only the fate of a task that is
\* neither submitted nor queued, and let no caller begin to send.
LEMMA QElsewhere ==
  ASSUME QInv, queue' = queue, permits' \in Nat,
         pos' \in [Callers -> Nat], at' \in [Callers -> Places],
         \A d \in Callers : at'[d] = "send" => at[d] = "send" /\ pos'[d] = pos[d],
         task' \in [Tasks -> Fates],
         \A t \in Tasks : task[t] \in {"submitted", "queued"} => task'[t] = task[t]
  PROVE  QInv'
<1> USE DEF QInv
<1>1. \A d \in Callers : Sending(d)' => Sending(d) /\ Current(d)' = Current(d)
  BY DEF Sending, Current
<1>2. SentOnce'
  <2>1. \A d \in Callers : Sending(d) => Current(d) \in Tasks
    BY DEF Sending
  <2>2. QED
    BY <1>1, <2>1 DEF SentOnce
<1>3. QueuedOnce'
  BY DEF QueuedOnce
<1>4. QED
  BY <1>2, <1>3 DEF FatesTyped, CallsTyped

LEMMA QInvNext == QInv /\ [Next]_vars => QInv'
<1> SUFFICES ASSUME QInv, [Next]_vars PROVE QInv'
  OBVIOUS
<1>1. ASSUME NEW c \in Callers, Begin(c) PROVE QInv'
  BY <1>1, QBegin
<1>2. ASSUME NEW c \in Callers, Send(c) PROVE QInv'
  BY <1>2, QSend
<1>3. ASSUME NEW c \in Callers, Lock(c) PROVE QInv'
  <2>1. /\ queue' = queue /\ permits' = permits /\ pos' = pos /\ task' = task
        /\ at' = [at EXCEPT ![c] = "recv"]
    BY <1>3 DEF Lock, Goto
  <2>2. QED
    BY <2>1, QElsewhere DEF QInv, CallsTyped, FatesTyped, Places
<1>4. ASSUME NEW c \in Callers, ReceiveTask(c) PROVE QInv'
  <2>1. /\ at[c] = "recv" /\ queue # <<>> /\ queue' = Tail(queue) /\ pos' = pos
        /\ permits' = permits /\ at' = [at EXCEPT ![c] = "permit"]
        /\ Head(queue) # Shutdown
        /\ task' = [task EXCEPT ![Head(queue)] = "taken"]
    BY <1>4 DEF ReceiveTask, Goto, Becomes
  <2>2. QED
    BY <2>1, QReceive
<1>5. ASSUME NEW c \in Callers, ReceiveShutdown(c) PROVE QInv'
  <2>1. /\ at[c] = "recv" /\ queue # <<>> /\ queue' = Tail(queue) /\ pos' = pos
        /\ permits' = permits /\ at' = [at EXCEPT ![c] = "join"]
        /\ Head(queue) = Shutdown /\ task' = task
    BY <1>5 DEF ReceiveShutdown, Goto
  <2>2. QED
    BY <2>1, QReceive
<1>6. ASSUME NEW c \in Callers, Spawn(c) PROVE QInv'
  <2>1. PICK t \in Tasks : task[t] = "taken" /\ task' = [task EXCEPT ![t] = "running"]
    BY <1>6 DEF Spawn, Becomes
  <2>2. /\ queue' = queue /\ pos' = pos /\ at' = [at EXCEPT ![c] = "recv"]
        /\ permits > 0 /\ permits' = permits - 1
    BY <1>6 DEF Spawn, Goto
  <2>3. permits' \in Nat
    BY <2>2 DEF QInv, FatesTyped
  <2>4. QED
    BY <2>1, <2>2, <2>3, QElsewhere DEF QInv, CallsTyped, FatesTyped, Places, Fates
<1>7. ASSUME NEW t \in Tasks, Finish(t) PROVE QInv'
  <2>1. PICK fate \in {"ok", "failed"} : task' = [task EXCEPT ![t] = fate]
    BY <1>7 DEF Finish, Becomes
  <2>2. /\ queue' = queue /\ pos' = pos /\ at' = at /\ task[t] = "running"
        /\ permits' = permits + 1
    BY <1>7 DEF Finish
  <2>3. permits' \in Nat
    BY <2>2 DEF QInv, FatesTyped
  <2>4. QED
    BY <2>1, <2>2, <2>3, QElsewhere DEF QInv, CallsTyped, FatesTyped, Fates
<1>8. ASSUME NEW c \in Callers, Join(c) PROVE QInv'
  <2>1. queue' = queue /\ pos' = pos /\ at' = at /\ task' = task /\ permits' = permits
    BY <1>8 DEF Join
  <2>2. QED
    BY <2>1, QElsewhere DEF QInv, CallsTyped, FatesTyped
<1>9. ASSUME NEW c \in Callers, Return(c) PROVE QInv'
  <2>1. /\ queue' = queue /\ task' = task /\ permits' = permits
        /\ at' = [at EXCEPT ![c] = "idle"] /\ pos' = [pos EXCEPT ![c] = @ + 1]
    BY <1>9 DEF Return, CallReturns, Goto
  <2>2. QED
    BY <2>1, QElsewhere DEF QInv, CallsTyped, FatesTyped, Places
<1>10. CASE UNCHANGED vars
  BY <1>10, QElsewhere DEF vars, QInv, CallsTyped, FatesTyped
<1>11. QED
  BY <1>1, <1>2, <1>3, <1>4, <1>5, <1>6, <1>7, <1>8, <1>9, <1>10
  DEF Next, CallerStep, Rest

-----------------------------------------------------------------------------
LEMMA IInvInit == Init => IInv
<1> SUFFICES ASSUME Init PROVE IInv
  OBVIOUS
<1>1. Are({"running"}) = {}
  BY DEF Init, Are
<1>2. Cardinality(Are({"running"})) = 0
  BY <1>1, FS_EmptySet
<1>3. ConcurrencyBounded
  BY <1>2, SchedulerAssumption DEF Init, ConcurrencyBounded
<1>4. QED
  BY <1>3, QInvInit DEF IInv

\* No task starts or stops running, and the permits stay.
LEMMA NothingStarts ==
  ASSUME IInv, permits' = permits, NEW t \in Tasks,
         NEW fate \in Fates \ {"running"}, task[t] # "running",
         task' = [task EXCEPT ![t] = fate]
  PROVE  ConcurrencyBounded'
<1>1. Are({"running"})' = Are({"running"})
  BY DEF Are, IInv, QInv, FatesTyped
<1>2. QED
  BY <1>1 DEF IInv, ConcurrencyBounded

LEMMA BoundNext == IInv /\ [Next]_vars => ConcurrencyBounded'
<1> SUFFICES ASSUME IInv, [Next]_vars PROVE ConcurrencyBounded'
  OBVIOUS
<1> USE DEF IInv, QInv
<1>1. ASSUME UNCHANGED <<task, permits>> PROVE ConcurrencyBounded'
  BY <1>1 DEF ConcurrencyBounded, Are
<1>2. ASSUME NEW c \in Callers, Begin(c) PROVE ConcurrencyBounded'
  BY <1>1, <1>2, NothingStarts DEF Begin, Becomes, Fates
<1>3. ASSUME NEW c \in Callers, Send(c) PROVE ConcurrencyBounded'
  <2>1. CASE Current(c) \in Tasks
    <3>1. task[Current(c)] = "submitted"
      BY <1>3, <2>1 DEF Send, SentOnce, Sending
    <3>2. QED
      BY <1>3, <2>1, <3>1, NothingStarts DEF Send, Becomes, Fates
  <2>2. CASE Current(c) \notin Tasks
    BY <1>1, <1>3, <2>2 DEF Send
  <2>3. QED
    BY <2>1, <2>2
<1>4. ASSUME NEW c \in Callers, ReceiveTask(c) PROVE ConcurrencyBounded'
  <2>1. Head(queue) = queue[1] /\ 1 \in DOMAIN queue /\ Head(queue) \in Tasks
    BY <1>4 DEF ReceiveTask, CallsTyped
  <2>2. task[Head(queue)] = "queued"
    BY <2>1 DEF QueuedOnce
  <2>3. QED
    BY <1>4, <2>1, <2>2, NothingStarts DEF ReceiveTask, Becomes, Fates
<1>5. ASSUME NEW c \in Callers, Spawn(c) PROVE ConcurrencyBounded'
  <2>1. PICK t \in Tasks : task[t] = "taken" /\ task' = [task EXCEPT ![t] = "running"]
    BY <1>5 DEF Spawn, Becomes
  <2>2. permits > 0 /\ permits' = permits - 1
    BY <1>5 DEF Spawn
  <2>3. /\ Cardinality(Are({"running"})) \in Nat
        /\ Cardinality(Are({"running"})') = Cardinality(Are({"running"})) + 1
    BY <2>1, OneStarts DEF Fates
  <2>4. QED
    BY <2>2, <2>3 DEF ConcurrencyBounded, FatesTyped
<1>6. ASSUME NEW t \in Tasks, Finish(t) PROVE ConcurrencyBounded'
  <2>1. PICK fate \in {"ok", "failed"} : task' = [task EXCEPT ![t] = fate]
    BY <1>6 DEF Finish, Becomes
  <2>2. task[t] = "running" /\ permits' = permits + 1
    BY <1>6 DEF Finish
  <2>3. /\ Cardinality(Are({"running"})) \in Nat
        /\ Cardinality(Are({"running"})') = Cardinality(Are({"running"})) - 1
    BY <2>1, <2>2, OneStops DEF Fates
  <2>4. QED
    BY <2>2, <2>3 DEF ConcurrencyBounded, FatesTyped
<1>7. QED
  BY <1>1, <1>2, <1>3, <1>4, <1>5, <1>6
  DEF Next, CallerStep, Lock, ReceiveShutdown, Join, Return, Rest, vars

\* Whatever callers call and however they, the run loop and the tasks
\* interleave, the permits of the semaphore are free or held by a running
\* task, so that no more than max_concurrent tasks run (run, acquire_owned).
THEOREM Bounded == Spec => []ConcurrencyBounded
<1>1. Init => IInv
  BY IInvInit
<1>2. IInv /\ [Next]_vars => IInv'
  BY QInvNext, BoundNext DEF IInv
<1>3. IInv => ConcurrencyBounded
  BY DEF IInv
<1>4. QED
  BY <1>1, <1>2, <1>3, PTL DEF Spec

\* A task is at most once on its way: no two callers send it, it is in the
\* channel once and only while the run loop has not taken it (schedule, run).
THEOREM MovesOnce == Spec => [](SentOnce /\ QueuedOnce)
<1>1. Init => QInv
  BY QInvInit
<1>2. QInv /\ [Next]_vars => QInv'
  BY QInvNext
<1>3. QInv => SentOnce /\ QueuedOnce
  BY DEF QInv
<1>4. QED
  BY <1>1, <1>2, <1>3, PTL DEF Spec
-----------------------------------------------------------------------------
\* The fates of a task that was spawned.
Live == {"running", "ok", "failed"}

\* The handles are those of different tasks that were spawned, and no task that
\* runs is without one.
HandlesInv ==
  /\ handles \in Seq(Tasks)
  /\ \A i \in DOMAIN handles : task[handles[i]] \in Live
  /\ \A i, j \in DOMAIN handles : i # j => handles[i] # handles[j]
  /\ \A t \in Tasks : task[t] = "running" => t \in Range(handles)

\* Inductive with QInv.
CountInv == HandlesInv /\ CountsAgree

LEMMA CountInit == Init => CountInv
<1> SUFFICES ASSUME Init PROVE CountInv
  OBVIOUS
<1>1. HandlesInv
  BY DEF Init, HandlesInv
<1>2. Range(handles) = {} /\ Are({"running"}) = {} /\ Are({"ok"}) = {} /\ Are({"failed"}) = {}
  BY DEF Init, Range, Are
<1>3. /\ Are({"running"}) \union Range(handles) = {}
      /\ Are({"ok"}) \ Range(handles) = {}
      /\ Are({"failed"}) \ Range(handles) = {}
  BY <1>2
<1>4. CountsAgree
  BY <1>3, FS_EmptySet DEF Init, CountsAgree
<1>5. QED
  BY <1>1, <1>4 DEF CountInv

\* The task moves between fates of tasks that were not spawned yet.
LEMMA CountQuiet ==
  ASSUME FatesTyped, CountInv, NEW t \in Tasks, NEW fate \in Fates \ Live,
         task[t] \notin Live, task' = [task EXCEPT ![t] = fate],
         UNCHANGED <<handles, active, completed, failed>>
  PROVE  CountInv'
<1>1. HandlesInv'
  BY DEF HandlesInv, CountInv, FatesTyped, Live
<1>2. /\ Are({"running"})' = Are({"running"})
      /\ Are({"ok"})' = Are({"ok"})
      /\ Are({"failed"})' = Are({"failed"})
  BY DEF Are, FatesTyped, Live
<1>3. CountsAgree'
  BY <1>2 DEF CountInv, CountsAgree
<1>4. QED
  BY <1>1, <1>3 DEF CountInv

LEMMA CountSame ==
  ASSUME CountInv, UNCHANGED <<task, handles, active, completed, failed>>
  PROVE  CountInv'
<1>1. HandlesInv'
  BY DEF HandlesInv, CountInv
<1>2. CountsAgree'
  BY DEF CountInv, CountsAgree, Are
<1>3. QED
  BY <1>1, <1>2 DEF CountInv

\* A task is spawned: it counts as active.
LEMMA CountSpawn ==
  ASSUME FatesTyped, CountInv, NEW t \in Tasks, task[t] = "taken",
         task' = [task EXCEPT ![t] = "running"],
         handles' = Append(handles, t), active' = active + 1,
         UNCHANGED <<completed, failed>>
  PROVE  CountInv'
<1> USE DEF CountInv
<1>1. /\ handles \in Seq(Tasks) /\ Len(handles) \in Nat
      /\ DOMAIN handles = 1..Len(handles)
      /\ handles' \in Seq(Tasks)
      /\ DOMAIN handles' = 1..(Len(handles) + 1)
      /\ handles'[Len(handles) + 1] = t
      /\ \A i \in DOMAIN handles : handles'[i] = handles[i]
  BY DEF HandlesInv
<1>2. \A i \in DOMAIN handles : handles[i] # t /\ handles[i] \in Tasks
  BY <1>1 DEF HandlesInv, Live
<1>3. Range(handles') = Range(handles) \union {t}
  BY <1>1 DEF Range
<1>4. t \notin Range(handles) /\ t \notin Are({"running"})
  BY <1>2 DEF Range, Are
<1>5. HandlesInv'
  <2>1. \A i \in DOMAIN handles' : task'[handles'[i]] \in Live
    BY <1>1, <1>2 DEF HandlesInv, Live, FatesTyped
  <2>2. \A i, j \in DOMAIN handles' : i # j => handles'[i] # handles'[j]
    BY <1>1, <1>2 DEF HandlesInv
  <2>3. \A u \in Tasks : task'[u] = "running" => u \in Range(handles')
    BY <1>3 DEF HandlesInv, FatesTyped
  <2>4. QED
    BY <1>1, <2>1, <2>2, <2>3 DEF HandlesInv
<1>6. /\ Are({"running"})' = Are({"running"}) \union {t}
      /\ Are({"ok"})' = Are({"ok"})
      /\ Are({"failed"})' = Are({"failed"})
  BY DEF Are, FatesTyped
<1> DEFINE A == Are({"running"}) \union Range(handles)
<1>7. IsFiniteSet(A) /\ t \notin A
  <2>1. A \subseteq Tasks
    BY <1>2 DEF Are, Range
  <2>2. QED
    BY <1>4, <2>1, SchedulerAssumption, FS_Subset
<1>8. Are({"running"})' \union Range(handles') = A \union {t}
  BY <1>3, <1>6
<1>9. active' = Cardinality(Are({"running"})' \union Range(handles'))
  BY <1>7, <1>8, FS_AddElement DEF CountsAgree
<1>10. /\ Are({"ok"})' \ Range(handles') = Are({"ok"}) \ Range(handles)
       /\ Are({"failed"})' \ Range(handles') = Are({"failed"}) \ Range(handles)
  BY <1>3, <1>6 DEF Are
<1>11. CountsAgree'
  BY <1>9, <1>10 DEF CountsAgree
<1>12. QED
  BY <1>5, <1>11

\* A task ends: until its handle is awaited the counters stay.
LEMMA CountFinish ==
  ASSUME FatesTyped, CountInv, NEW t \in Tasks, NEW fate \in {"ok", "failed"},
         task[t] = "running", task' = [task EXCEPT ![t] = fate],
         UNCHANGED <<handles, active, completed, failed>>
  PROVE  CountInv'
<1> USE DEF CountInv
<1>1. HandlesInv'
  BY DEF HandlesInv, Live, FatesTyped
<1>2. t \in Range(handles) /\ Are({"running"}) \subseteq Range(handles)
  BY DEF HandlesInv, Are
<1>3. Are({"running"})' \subseteq Range(handles)
  BY <1>2 DEF Are, FatesTyped
<1>4. /\ Are({"ok"})' \ Range(handles) = Are({"ok"}) \ Range(handles)
      /\ Are({"failed"})' \ Range(handles) = Are({"failed"}) \ Range(handles)
  BY <1>2 DEF Are, FatesTyped
<1>5. Are({"running"})' \union Range(handles) = Are({"running"}) \union Range(handles)
  BY <1>2, <1>3
<1>6. CountsAgree'
  BY <1>4, <1>5 DEF CountsAgree
<1>7. QED
  BY <1>1, <1>6

\* The first handle is awaited: its task is counted.
LEMMA CountJoin ==
  ASSUME FatesTyped, CountInv, NEW c \in Callers, Join(c)
  PROVE  CountInv'
<1> USE DEF CountInv
<1> DEFINE h == Head(handles)
<1>1. handles # <<>> /\ handles \in Seq(Tasks) /\ handles' = Tail(handles) /\ task' = task
  BY DEF Join, HandlesInv
<1>2. /\ h = handles[1] /\ 1 \in DOMAIN handles /\ h \in Tasks
      /\ Len(handles) \in Nat
      /\ DOMAIN handles = 1..Len(handles)
      /\ handles' \in Seq(Tasks)
      /\ DOMAIN handles' = 1..(Len(handles) - 1)
      /\ \A i \in DOMAIN handles' : handles'[i] = handles[i + 1]
  BY <1>1
<1>3. task[h] \in {"ok", "failed"}
  BY DEF Join
<1>4. \A i \in DOMAIN handles : i # 1 => handles[i] # h
  BY <1>2 DEF HandlesInv
<1>5. Range(handles') = Range(handles) \ {h}
  <2>1. \A i \in DOMAIN handles' : handles'[i] \in Range(handles) \ {h}
    BY <1>2, <1>4 DEF Range
  <2>2. ASSUME NEW i \in DOMAIN handles, handles[i] # h
        PROVE  i - 1 \in DOMAIN handles' /\ handles'[i - 1] = handles[i]
    <3>1. i \in Nat /\ i > 1 /\ i =< Len(handles)
      BY <1>2, <2>2
    <3>2. i - 1 \in 1..(Len(handles) - 1) /\ (i - 1) + 1 = i
      BY <1>2, <3>1
    <3>3. QED
      BY <1>2, <3>2
  <2>3. \A i \in DOMAIN handles : handles[i] # h => \E k \in DOMAIN handles' : handles'[k] = handles[i]
    BY <2>2
  <2>4. QED
    BY <2>1, <2>3 DEF Range
<1>6. h \in Range(handles) /\ \A i \in DOMAIN handles : handles[i] \in Tasks
  BY <1>1, <1>2 DEF Range
<1>7. HandlesInv'
  <2>1. \A i \in DOMAIN handles' : task'[handles'[i]] \in Live
    BY <1>1, <1>2 DEF HandlesInv
  <2>2. \A i, j \in DOMAIN handles' : i # j => handles'[i] # handles'[j]
    BY <1>2 DEF HandlesInv
  <2>3. \A u \in Tasks : task'[u] = "running" => u \in Range(handles')
    BY <1>1, <1>3, <1>5 DEF HandlesInv
  <2>4. QED
    BY <1>2, <2>1, <2>2, <2>3 DEF HandlesInv
<1>8. /\ Are({"running"})' = Are({"running"})
      /\ Are({"ok"})' = Are({"ok"})
      /\ Are({"failed"})' = Are({"failed"})
      /\ h \notin Are({"running"})
  BY <1>1, <1>3 DEF Are
<1> DEFINE A == Are({"running"}) \union Range(handles)
           O == Are({"ok"}) \ Range(handles)
           F == Are({"failed"}) \ Range(handles)
<1>9. /\ A \subseteq Tasks /\ O \subseteq Tasks /\ F \subseteq Tasks
      /\ h \in A /\ h \notin O /\ h \notin F
  BY <1>6 DEF Are, Range
<1>10. IsFiniteSet(A) /\ IsFiniteSet(O) /\ IsFiniteSet(F)
  BY <1>9, SchedulerAssumption, FS_Subset
<1>11. Are({"running"})' \union Range(handles') = A \ {h}
  BY <1>5, <1>8
<1>12. active' = Cardinality(A \ {h})
  BY <1>9, <1>10, FS_RemoveElement DEF Join, CountsAgree
<1>13. CASE task[h] = "ok"
  <2>1. /\ Are({"ok"})' \ Range(handles') = O \union {h}
        /\ Are({"failed"})' \ Range(handles') = F
    BY <1>2, <1>5, <1>8, <1>13 DEF Are
  <2>2. completed' = completed + 1 /\ failed' = failed
    BY <1>13 DEF Join
  <2>3. completed' = Cardinality(O \union {h})
    BY <1>9, <1>10, <2>2, FS_AddElement DEF CountsAgree
  <2>4. failed' = Cardinality(F)
    BY <2>2 DEF CountsAgree
  <2>5. CountsAgree'
    BY <1>11, <1>12, <2>1, <2>3, <2>4 DEF CountsAgree
  <2>6. QED
    BY <1>7, <2>5
<1>14. CASE task[h] = "failed"
  <2>1. /\ Are({"failed"})' \ Range(handles') = F \union {h}
        /\ Are({"ok"})' \ Range(handles') = O
    BY <1>2, <1>5, <1>8, <1>14 DEF Are
  <2>2. failed' = failed + 1 /\ completed' = completed
    BY <1>14 DEF Join
  <2>3. failed' = Cardinality(F \union {h})
    BY <1>9, <1>10, <2>2, FS_AddElement DEF CountsAgree
  <2>4. completed' = Cardinality(O)
    BY <2>2 DEF CountsAgree
  <2>5. CountsAgree'
    BY <1>11, <1>12, <2>1, <2>3, <2>4 DEF CountsAgree
  <2>6. QED
    BY <1>7, <2>5
<1>15. QED
  BY <1>3, <1>13, <1>14

LEMMA CountNext == QInv /\ CountInv /\ [Next]_vars => CountInv'
<1> SUFFICES ASSUME QInv, CountInv, [Next]_vars PROVE CountInv'
  OBVIOUS
<1> USE DEF QInv
<1>1. ASSUME NEW c \in Callers, Begin(c) PROVE CountInv'
  <2>1. CASE Current(c) \in Tasks
    BY <1>1, <2>1, CountQuiet DEF Begin, Becomes, Fates, Live
  <2>2. CASE Current(c) \notin Tasks
    BY <1>1, <2>2, CountSame DEF Begin
  <2>3. QED
    BY <2>1, <2>2
<1>2. ASSUME NEW c \in Callers, Send(c) PROVE CountInv'
  <2>1. CASE Current(c) \in Tasks
    <3>1. task[Current(c)] = "submitted"
      BY <1>2, <2>1 DEF Send, SentOnce, Sending
    <3>2. QED
      BY <1>2, <2>1, <3>1, CountQuiet DEF Send, Becomes, Fates, Live
  <2>2. CASE Current(c) \notin Tasks
    BY <1>2, <2>2, CountSame DEF Send
  <2>3. QED
    BY <2>1, <2>2
<1>3. ASSUME NEW c \in Callers, ReceiveTask(c) PROVE CountInv'
  <2>1. Head(queue) = queue[1] /\ 1 \in DOMAIN queue /\ Head(queue) \in Tasks
    BY <1>3 DEF ReceiveTask, CallsTyped
  <2>2. task[Head(queue)] = "queued"
    BY <2>1 DEF QueuedOnce
  <2>3. QED
    BY <1>3, <2>1, <2>2, CountQuiet DEF ReceiveTask, Becomes, Fates, Live
<1>4. ASSUME NEW c \in Callers, Spawn(c) PROVE CountInv'
  <2>1. PICK t \in Tasks : /\ task[t] = "taken"
                           /\ task' = [task EXCEPT ![t] = "running"]
                           /\ handles' = Append(handles, t)
    BY <1>4 DEF Spawn, Becomes
  <2>2. active' = active + 1 /\ UNCHANGED <<completed, failed>>
    BY <1>4 DEF Spawn
  <2>3. QED
    BY <2>1, <2>2, CountSpawn
<1>5. ASSUME NEW t \in Tasks, Finish(t) PROVE CountInv'
  <2>1. PICK fate \in {"ok", "failed"} : task' = [task EXCEPT ![t] = fate]
    BY <1>5 DEF Finish, Becomes
  <2>2. task[t] = "running" /\ UNCHANGED <<handles, active, completed, failed>>
    BY <1>5 DEF Finish
  <2>3. QED
    BY <2>1, <2>2, CountFinish
<1>6. ASSUME NEW c \in Callers, Join(c) PROVE CountInv'
  BY <1>6, CountJoin
<1>7. QED
  BY <1>1, <1>2, <1>3, <1>4, <1>5, <1>6, CountSame
  DEF Next, CallerStep, Lock, ReceiveShutdown, Return, Rest, vars

\* The counters of the scheduler are true at every step, whatever the order in
\* which tasks end and handles are awaited: what was spawned is active until it
\* is awaited, and then counted once (run).
THEOREM CountsTrue == Spec => []CountsAgree
<1>1. Init => QInv /\ CountInv
  BY QInvInit, CountInit
<1>2. QInv /\ CountInv /\ [Next]_vars => QInv' /\ CountInv'
  BY QInvNext, CountNext
<1>3. CountInv => CountsAgree
  BY DEF CountInv
<1>4. QED
  BY <1>1, <1>2, <1>3, PTL DEF Spec
-----------------------------------------------------------------------------
\* Only a run that holds the receiver has handles, and who has made all his
\* calls is in none.
RestInv ==
  /\ (\A c \in Callers : ~Holds(c)) => handles = <<>>
  /\ \A c \in Callers : Finished(c) => at[c] = "idle"

LEMMA RestInit == Init => RestInv
BY DEF Init, RestInv, Holds

LEMMA RestNext == CallsTyped /\ RestInv /\ [Next]_vars => RestInv'
<1> SUFFICES ASSUME CallsTyped, RestInv, [Next]_vars PROVE RestInv'
  OBVIOUS
<1> USE DEF RestInv, Holds, Finished
<1>1. ASSUME NEW c \in Callers, Begin(c) PROVE RestInv'
  BY <1>1 DEF Begin, Goto, CallsTyped
<1>2. ASSUME NEW c \in Callers, Send(c) PROVE RestInv'
  <2>1. /\ at[c] = "send" /\ handles' = handles
        /\ \/ at' = [at EXCEPT ![c] = "lock"] /\ pos' = pos
           \/ at' = [at EXCEPT ![c] = "idle"] /\ pos' = [pos EXCEPT ![c] = @ + 1]
    BY <1>2 DEF Send, Goto, CallReturns
  <2>2. ~Holds(c)
    BY <2>1
  <2>3. QED
    BY <2>1, <2>2 DEF CallsTyped
<1>3. ASSUME NEW c \in Callers, Lock(c) PROVE RestInv'
  BY <1>3 DEF Lock, Goto, CallsTyped
<1>4. ASSUME NEW c \in Callers, ReceiveTask(c) PROVE RestInv'
  BY <1>4 DEF ReceiveTask, Goto, CallsTyped
<1>5. ASSUME NEW c \in Callers, ReceiveShutdown(c) PROVE RestInv'
  BY <1>5 DEF ReceiveShutdown, Goto, CallsTyped
<1>6. ASSUME NEW c \in Callers, Spawn(c) PROVE RestInv'
  BY <1>6 DEF Spawn, Goto, CallsTyped
<1>7. ASSUME NEW t \in Tasks, Finish(t) PROVE RestInv'
  BY <1>7 DEF Finish
<1>8. ASSUME NEW c \in Callers, Join(c) PROVE RestInv'
  BY <1>8 DEF Join
<1>9. ASSUME NEW c \in Callers, Return(c) PROVE RestInv'
  BY <1>9 DEF Return, CallReturns, Goto, CallsTyped
<1>10. CASE UNCHANGED vars
  BY <1>10 DEF vars
<1>11. QED
  BY <1>1, <1>2, <1>3, <1>4, <1>5, <1>6, <1>7, <1>8, <1>9, <1>10
  DEF Next, CallerStep, Rest

\* When no caller is inside wait_for_completion, nothing runs.
LEMMA NothingRuns ==
  ASSUME HandlesInv, RestInv, \A c \in Callers : ~Holds(c)
  PROVE  \A t \in Tasks : task[t] # "running"
BY DEF HandlesInv, RestInv, Range

\* The scheduler never works behind its callers' backs: a task runs only while
\* some caller is inside wait_for_completion (run is called from there only).
THEOREM RunsOnlyWhileWaited ==
  Spec => []((\A c \in Callers : ~Holds(c)) => \A t \in Tasks : task[t] # "running")
<1> DEFINE Inv == QInv /\ CountInv /\ RestInv
<1>1. Init => Inv
  BY QInvInit, CountInit, RestInit
<1>2. Inv /\ [Next]_vars => Inv'
  BY QInvNext, CountNext, RestNext DEF QInv
<1>3. Inv => ((\A c \in Callers : ~Holds(c)) => \A t \in Tasks : task[t] # "running")
  BY NothingRuns DEF CountInv
<1>4. QED
  BY <1>1, <1>2, <1>3, PTL DEF Spec
-----------------------------------------------------------------------------
\* One caller that never calls shutdown itself, as host discovery is one.  With
\* more, one caller may receive the shutdown message that another one sent.
LoneCaller(c) ==
  /\ Callers = {c}
  /\ \A i \in DOMAIN Program[c] : Program[c][i] # "shutdown"

\* Where a task is follows from its fate and from where the caller is.
TasksPlaced(c) ==
  /\ \A t \in Tasks : task[t] = "submitted" => at[c] = "send" /\ t = Current(c)
  /\ \A t \in Tasks : task[t] = "queued" => \E i \in DOMAIN queue : queue[i] = t
  /\ \A t \in Tasks : task[t] = "taken" => at[c] = "permit"
  /\ \A t, u \in Tasks : task[t] = "taken" /\ task[u] = "taken" => t = u

\* A shutdown message is the last one, and is there while its run is.
LastIsShutdown(c) ==
  /\ at[c] \in {"idle", "send"} => \A i \in DOMAIN queue : queue[i] # Shutdown
  /\ \A i \in DOMAIN queue : queue[i] = Shutdown => i = Len(queue)
  /\ at[c] = "join" => queue = <<>>

\* What was scheduled is under way or over; who is in a run waits.
Scheduled(c) ==
  /\ pos[c] >= 1
  /\ at[c] \notin {"idle", "send"} => Current(c) = "wait"
  /\ \A j \in 1..(pos[c] - 1) : Program[c][j] \in Tasks => task[Program[c][j]] # "new"

\* Inductive with QInv, CountInv and RestInv, for a lone caller.
RoundInv(c) ==
  TasksPlaced(c) /\ LastIsShutdown(c) /\ Scheduled(c) /\ WaitMeansDone

LEMMA RoundInit == ASSUME NEW c, LoneCaller(c), Init PROVE RoundInv(c)
BY DEF Init, LoneCaller, RoundInv, TasksPlaced, LastIsShutdown, Scheduled, WaitMeansDone

\* The caller is at a call of its program.
LEMMA AtACall ==
  ASSUME NEW c, LoneCaller(c), CallsTyped, RestInv, RoundInv(c), at[c] # "idle"
  PROVE  /\ pos[c] \in DOMAIN Program[c]
         /\ Current(c) \in Tasks \union {"wait"}
<1>1. c \in Callers /\ Program[c] \in Seq(Calls)
  BY SchedulerAssumption DEF LoneCaller
<1>2. pos[c] \in Nat /\ pos[c] >= 1 /\ ~(pos[c] > Len(Program[c]))
  BY <1>1 DEF CallsTyped, RestInv, Finished, RoundInv, Scheduled
<1>3. pos[c] \in DOMAIN Program[c]
  BY <1>1, <1>2
<1>4. Program[c][pos[c]] \in Calls /\ Program[c][pos[c]] # "shutdown"
  BY <1>1, <1>3 DEF LoneCaller
<1>5. QED
  BY <1>3, <1>4 DEF Calls, Current

\* As long as the caller stays at its call, tasks that are over stay over.
LEMMA StillDone ==
  ASSUME NEW c, LoneCaller(c), WaitMeansDone, Scheduled(c), pos' = pos,
         at'[c] \notin {"idle", "send"} => Current(c) = "wait",
         \A t \in Tasks : task[t] # "new" => task'[t] # "new",
         \A t \in Tasks : t \in Over => task'[t] = task[t]
  PROVE  WaitMeansDone' /\ Scheduled(c)'
<1>1. Over \subseteq Over'
  BY DEF Over, Are
<1>2. WaitMeansDone'
  BY <1>1 DEF WaitMeansDone
<1>3. Scheduled(c)'
  BY DEF Scheduled, Current
<1>4. QED
  BY <1>2, <1>3

LEMMA RoundBegin ==
  ASSUME NEW c, LoneCaller(c), FatesTyped, CallsTyped, RoundInv(c), Begin(c)
  PROVE  RoundInv(c)'
<1> USE DEF RoundInv
<1>1. /\ at[c] = "idle" /\ at'[c] = "send" /\ pos' = pos /\ queue' = queue
      /\ c \in Callers
  BY DEF Begin, Goto, CallsTyped, LoneCaller
<1>2. \/ Current(c) \in Tasks /\ task[Current(c)] = "new"
         /\ task' = [task EXCEPT ![Current(c)] = "submitted"]
      \/ task' = task
  BY DEF Begin, Becomes
<1>3. TasksPlaced(c)'
  BY <1>1, <1>2 DEF TasksPlaced, FatesTyped, Current
<1>4. LastIsShutdown(c)'
  BY <1>1 DEF LastIsShutdown
<1>5. WaitMeansDone' /\ Scheduled(c)'
  <2>1. \A t \in Tasks : task[t] # "new" => task'[t] = task[t]
    BY <1>2 DEF FatesTyped
  <2>2. QED
    BY <1>1, <2>1, StillDone DEF Over, Are
<1>6. QED
  BY <1>3, <1>4, <1>5

LEMMA RoundSend ==
  ASSUME NEW c, LoneCaller(c), QInv, RestInv, RoundInv(c), Send(c)
  PROVE  RoundInv(c)'
<1> USE DEF RoundInv, QInv
<1>1. c \in Callers /\ Callers = {c} /\ at[c] = "send"
  BY DEF LoneCaller, Send
<1>2. pos[c] \in Nat /\ pos[c] >= 1 /\ Current(c) \in Tasks \union {"wait"}
  BY <1>1, AtACall DEF CallsTyped, Scheduled
<1>3. Len(queue) \in Nat /\ DOMAIN queue = 1..Len(queue)
  BY DEF CallsTyped
<1>4. CASE Current(c) \in Tasks
  <2> DEFINE t == Current(c)
  <2>1. t # "wait" /\ t # Shutdown
    BY <1>4, SchedulerAssumption
  <2>2. /\ queue' = Append(queue, t) /\ task' = [task EXCEPT ![t] = "queued"]
        /\ at'[c] = "idle" /\ pos' = [pos EXCEPT ![c] = @ + 1]
    BY <1>1, <1>4, <2>1 DEF Send, CallReturns, Goto, Becomes, CallsTyped
  <2>3. task[t] = "submitted" /\ pos'[c] = pos[c] + 1
    BY <1>1, <1>4, <2>2 DEF SentOnce, Sending, CallsTyped
  <2>4. /\ DOMAIN queue' = 1..(Len(queue) + 1) /\ queue'[Len(queue) + 1] = t
        /\ \A i \in DOMAIN queue : queue'[i] = queue[i] /\ i \in DOMAIN queue'
    BY <1>3, <1>4, <2>2 DEF CallsTyped
  <2>5. TasksPlaced(c)'
    <3>1. \A u \in Tasks : task'[u] = IF u = t THEN "queued" ELSE task[u]
      BY <2>2 DEF FatesTyped
    <3>2. \A u \in Tasks : task[u] = "submitted" => u = t
      BY DEF TasksPlaced
    <3>3. \A u \in Tasks : task'[u] # "submitted"
      BY <3>1, <3>2
    <3>4. \A u \in Tasks : task'[u] # "taken"
      BY <1>1, <3>1 DEF TasksPlaced
    <3>5. \A u \in Tasks : task'[u] = "queued" => \E i \in DOMAIN queue' : queue'[i] = u
      <4>1. Len(queue) + 1 \in DOMAIN queue'
        BY <1>3, <2>4
      <4>2. QED
        BY <2>4, <3>1, <4>1 DEF TasksPlaced
    <3>6. QED
      BY <3>3, <3>4, <3>5 DEF TasksPlaced
  <2>6. LastIsShutdown(c)'
    <3>1. \A i \in DOMAIN queue : queue[i] # Shutdown
      BY <1>1 DEF LastIsShutdown
    <3>2. \A i \in DOMAIN queue' : i \in DOMAIN queue \/ i = Len(queue) + 1
      BY <1>3, <2>4
    <3>3. \A i \in DOMAIN queue' : queue'[i] # Shutdown
      BY <2>1, <2>4, <3>1, <3>2
    <3>4. QED
      BY <2>2, <3>3 DEF LastIsShutdown
  <2>7. \A u \in Tasks : u # t => task'[u] = task[u]
    BY <2>2 DEF FatesTyped
  <2>8. task'[t] = "queued"
    BY <1>4, <2>2 DEF FatesTyped
  <2>9. 1..(pos'[c] - 1) = 1..(pos[c] - 1) \union {pos[c]}
    BY <1>2, <2>3
  <2>10. Scheduled(c)'
    <3>1. \A j \in 1..(pos[c] - 1) : Program[c][j] \in Tasks => task'[Program[c][j]] # "new"
      BY <2>7, <2>8 DEF Scheduled
    <3>2. Program[c][pos[c]] = t
      BY DEF Current
    <3>3. \A j \in 1..(pos'[c] - 1) : Program[c][j] \in Tasks => task'[Program[c][j]] # "new"
      BY <2>8, <2>9, <3>1, <3>2
    <3>4. pos'[c] >= 1
      BY <1>2, <2>3
    <3>5. QED
      BY <2>2, <3>3, <3>4 DEF Scheduled
  <2>11. Over \subseteq Over'
    BY <2>3, <2>7 DEF Over, Are
  <2>12. WaitMeansDone'
    <3>1. \A i \in 1..(pos[c] - 1) : Program[c][i] = "wait" =>
            \A j \in 1..(i - 1) : Program[c][j] \in Tasks => Program[c][j] \in Over'
      BY <1>1, <2>11 DEF WaitMeansDone
    <3>2. Program[c][pos[c]] # "wait"
      BY <2>1 DEF Current
    <3>3. QED
      BY <1>1, <2>9, <3>1, <3>2 DEF WaitMeansDone
  <2>13. QED
    BY <2>5, <2>6, <2>10, <2>12
<1>5. CASE Current(c) \notin Tasks
  <2>1. /\ queue' = Append(queue, Shutdown) /\ task' = task /\ at'[c] = "lock"
        /\ pos' = pos
    BY <1>1, <1>2, <1>5 DEF Send, Goto, CallsTyped
  <2>2. /\ DOMAIN queue' = 1..(Len(queue) + 1) /\ Len(queue') = Len(queue) + 1
        /\ \A i \in DOMAIN queue : queue'[i] = queue[i] /\ i \in DOMAIN queue'
    BY <1>3, <2>1 DEF CallsTyped
  <2>3. TasksPlaced(c)'
    <3>1. \A u \in Tasks : task[u] # "submitted" /\ task[u] # "taken"
      BY <1>1, <1>5 DEF TasksPlaced
    <3>2. \A u \in Tasks : task[u] = "queued" => \E i \in DOMAIN queue' : queue'[i] = u
      BY <2>2 DEF TasksPlaced
    <3>3. QED
      BY <2>1, <3>1, <3>2 DEF TasksPlaced
  <2>4. LastIsShutdown(c)'
    <3>1. \A i \in DOMAIN queue : queue[i] # Shutdown
      BY <1>1 DEF LastIsShutdown
    <3>2. \A i \in DOMAIN queue' : i \in DOMAIN queue \/ i = Len(queue')
      BY <1>3, <2>2
    <3>3. \A i \in DOMAIN queue' : queue'[i] = Shutdown => i = Len(queue')
      BY <2>2, <3>1, <3>2
    <3>4. QED
      BY <2>1, <3>3 DEF LastIsShutdown
  <2>5. WaitMeansDone' /\ Scheduled(c)'
    BY <1>2, <1>5, <2>1, StillDone
  <2>6. QED
    BY <2>3, <2>4, <2>5
<1>6. QED
  BY <1>4, <1>5

LEMMA RoundReceive ==
  ASSUME NEW c, LoneCaller(c), QInv, RoundInv(c), ReceiveTask(c)
  PROVE  RoundInv(c)'
<1> USE DEF RoundInv, QInv
<1> DEFINE h == Head(queue)
<1>1. /\ at[c] = "recv" /\ at'[c] = "permit" /\ queue # <<>> /\ h # Shutdown
      /\ queue' = Tail(queue) /\ pos' = pos /\ task' = [task EXCEPT ![h] = "taken"]
  BY DEF ReceiveTask, Goto, Becomes, CallsTyped, LoneCaller
<1>2. /\ h = queue[1] /\ 1 \in DOMAIN queue /\ h \in Tasks
      /\ Len(queue) \in Nat /\ DOMAIN queue = 1..Len(queue)
      /\ DOMAIN queue' = 1..(Len(queue) - 1) /\ Len(queue') = Len(queue) - 1
      /\ \A i \in DOMAIN queue' : queue'[i] = queue[i + 1] /\ i + 1 \in DOMAIN queue
  BY <1>1 DEF CallsTyped
<1>3. task[h] = "queued"
  BY <1>2 DEF QueuedOnce
<1>4. \A u \in Tasks : task'[u] = IF u = h THEN "taken" ELSE task[u]
  BY <1>1 DEF FatesTyped
<1>5. TasksPlaced(c)'
  <2>1. \A u \in Tasks : task[u] # "submitted" /\ task[u] # "taken"
    BY <1>1 DEF TasksPlaced
  <2>2. ASSUME NEW u \in Tasks, task'[u] = "queued"
        PROVE  \E i \in DOMAIN queue' : queue'[i] = u
    <3>1. u # h /\ task[u] = "queued"
      BY <1>4, <2>2
    <3>2. PICK i \in DOMAIN queue : queue[i] = u
      BY <3>1 DEF TasksPlaced
    <3>3. i # 1
      BY <1>2, <3>1, <3>2
    <3>4. i - 1 \in DOMAIN queue' /\ (i - 1) + 1 = i
      BY <1>2, <3>3
    <3>5. QED
      BY <1>2, <3>2, <3>4
  <2>3. QED
    BY <1>1, <1>4, <2>1, <2>2 DEF TasksPlaced
<1>6. LastIsShutdown(c)'
  <2>1. ASSUME NEW i \in DOMAIN queue', queue'[i] = Shutdown PROVE i = Len(queue')
    <3>1. i + 1 = Len(queue)
      BY <1>2, <2>1 DEF LastIsShutdown
    <3>2. QED
      BY <1>2, <3>1
  <2>2. QED
    BY <1>1, <2>1 DEF LastIsShutdown
<1>7. WaitMeansDone' /\ Scheduled(c)'
  <2>1. Current(c) = "wait"
    BY <1>1 DEF Scheduled
  <2>2. QED
    BY <1>1, <1>3, <1>4, <2>1, StillDone DEF Over, Are
<1>8. QED
  BY <1>5, <1>6, <1>7

LEMMA RoundShutdown ==
  ASSUME NEW c, LoneCaller(c), QInv, RoundInv(c), ReceiveShutdown(c)
  PROVE  RoundInv(c)'
<1> USE DEF RoundInv, QInv
<1>1. /\ at[c] = "recv" /\ at'[c] = "join" /\ queue # <<>> /\ Head(queue) = Shutdown
      /\ queue' = Tail(queue) /\ pos' = pos /\ task' = task
  BY DEF ReceiveShutdown, Goto, CallsTyped, LoneCaller
<1>2. Head(queue) = queue[1] /\ 1 \in DOMAIN queue /\ queue \in Seq(Tasks \union {Shutdown})
  BY <1>1 DEF CallsTyped
<1>3. Len(queue) = 1
  BY <1>1, <1>2 DEF LastIsShutdown
<1>4. queue' = <<>> /\ DOMAIN queue = {1}
  BY <1>1, <1>2, <1>3
<1>5. \A u \in Tasks : task[u] # "queued" /\ task[u] # "submitted" /\ task[u] # "taken"
  BY <1>1, <1>2, <1>4, SchedulerAssumption DEF TasksPlaced
<1>6. TasksPlaced(c)' /\ LastIsShutdown(c)'
  BY <1>1, <1>4, <1>5 DEF TasksPlaced, LastIsShutdown
<1>7. Current(c) = "wait"
  BY <1>1 DEF Scheduled
<1>8. WaitMeansDone' /\ Scheduled(c)'
  BY <1>1, <1>7, StillDone
<1>9. QED
  BY <1>6, <1>8

LEMMA RoundSpawn ==
  ASSUME NEW c, LoneCaller(c), QInv, RoundInv(c), Spawn(c)
  PROVE  RoundInv(c)'
<1> USE DEF RoundInv, QInv
<1>1. /\ at[c] = "permit" /\ at'[c] = "recv" /\ queue' = queue /\ pos' = pos
  BY DEF Spawn, Goto, CallsTyped, LoneCaller
<1>2. PICK t \in Tasks : task[t] = "taken" /\ task' = [task EXCEPT ![t] = "running"]
  BY DEF Spawn, Becomes
<1>3. \A u \in Tasks : task'[u] = IF u = t THEN "running" ELSE task[u]
  BY <1>2 DEF FatesTyped
<1>4. TasksPlaced(c)' /\ LastIsShutdown(c)'
  BY <1>1, <1>2, <1>3 DEF TasksPlaced, LastIsShutdown
<1>5. WaitMeansDone' /\ Scheduled(c)'
  <2>1. Current(c) = "wait"
    BY <1>1 DEF Scheduled
  <2>2. QED
    BY <1>1, <1>2, <1>3, <2>1, StillDone DEF Over, Are
<1>6. QED
  BY <1>4, <1>5

\* wait_for_completion returns: nothing that was scheduled before can be
\* anywhere but at its end.
LEMMA RoundReturn ==
  ASSUME NEW c, LoneCaller(c), QInv, HandlesInv, RoundInv(c), Return(c)
  PROVE  RoundInv(c)'
<1> USE DEF RoundInv, QInv
<1>1. /\ at[c] = "join" /\ at'[c] = "idle" /\ pos'[c] = pos[c] + 1 /\ queue = <<>>
      /\ UNCHANGED <<queue, task>> /\ handles = <<>> /\ c \in Callers /\ Callers = {c}
  BY DEF Return, CallReturns, Goto, CallsTyped, LoneCaller, LastIsShutdown
<1>2. \A t \in Tasks : task[t] \notin {"submitted", "queued", "taken"}
  BY <1>1 DEF TasksPlaced
<1>3. \A t \in Tasks : task[t] # "running"
  BY <1>1 DEF HandlesInv, Range
<1>4. \A t \in Tasks : task[t] # "new" => t \in Over
  BY <1>2, <1>3 DEF FatesTyped, Fates, Over, Are
<1>5. \A j \in 1..(pos[c] - 1) : Program[c][j] \in Tasks => Program[c][j] \in Over
  BY <1>4 DEF Scheduled
<1>6. pos[c] \in Nat /\ pos[c] >= 1 /\ Over' = Over
  BY <1>1 DEF CallsTyped, Scheduled, Over, Are
<1>7. 1..(pos'[c] - 1) = 1..(pos[c] - 1) \union {pos[c]}
  BY <1>1, <1>6
<1>8. WaitMeansDone'
  BY <1>1, <1>5, <1>6, <1>7 DEF WaitMeansDone
<1>9. Scheduled(c)'
  <2>1. Current(c) \notin Tasks
    BY <1>1, SchedulerAssumption DEF Scheduled
  <2>2. QED
    BY <1>1, <1>6, <1>7, <2>1 DEF Scheduled, Current
<1>10. TasksPlaced(c)' /\ LastIsShutdown(c)'
  BY <1>1, <1>2 DEF TasksPlaced, LastIsShutdown
<1>11. QED
  BY <1>8, <1>9, <1>10

LEMMA RoundNext ==
  ASSUME NEW c, LoneCaller(c), QInv, CountInv, RestInv, RoundInv(c), [Next]_vars
  PROVE  RoundInv(c)'
<1> USE DEF QInv
<1>1. Callers = {c} /\ HandlesInv
  BY DEF LoneCaller, CountInv
<1>2. CASE Begin(c) \/ Send(c) \/ ReceiveTask(c) \/ ReceiveShutdown(c) \/ Spawn(c) \/ Return(c)
  BY <1>1, <1>2, RoundBegin, RoundSend, RoundReceive, RoundShutdown, RoundSpawn, RoundReturn
<1>3. ASSUME UNCHANGED <<pos, queue, task>>,
             \/ at' = at
             \/ at[c] = "lock" /\ at'[c] = "recv"
      PROVE  RoundInv(c)'
  <2>1. TasksPlaced(c)' /\ LastIsShutdown(c)'
    BY <1>3 DEF RoundInv, TasksPlaced, LastIsShutdown, Current
  <2>2. Scheduled(c)'
    BY <1>3 DEF RoundInv, Scheduled, Current
  <2>3. WaitMeansDone'
    BY <1>3 DEF RoundInv, WaitMeansDone, Over, Are
  <2>4. QED
    BY <2>1, <2>2, <2>3 DEF RoundInv
<1>4. CASE Lock(c)
  BY <1>1, <1>3, <1>4 DEF Lock, Goto, CallsTyped
<1>5. CASE Join(c) \/ UNCHANGED vars
  BY <1>3, <1>5 DEF Join, vars
<1>6. ASSUME NEW t \in Tasks, Finish(t) PROVE RoundInv(c)'
  <2>1. PICK fate \in {"ok", "failed"} : task' = [task EXCEPT ![t] = fate]
    BY <1>6 DEF Finish, Becomes
  <2>2. UNCHANGED <<pos, at, queue>> /\ task[t] = "running"
    BY <1>6 DEF Finish
  <2>3. \A u \in Tasks : task'[u] = IF u = t THEN fate ELSE task[u]
    BY <2>1 DEF FatesTyped
  <2>4. TasksPlaced(c)' /\ LastIsShutdown(c)'
    BY <2>2, <2>3 DEF RoundInv, TasksPlaced, LastIsShutdown, Current
  <2>5. WaitMeansDone' /\ Scheduled(c)'
    <3>1. at'[c] \notin {"idle", "send"} => Current(c) = "wait"
      BY <2>2 DEF RoundInv, Scheduled
    <3>2. \A u \in Tasks : task[u] # "new" => task'[u] # "new"
      BY <2>3
    <3>3. \A u \in Tasks : u \in Over => task'[u] = task[u]
      BY <2>2, <2>3 DEF Over, Are
    <3>4. QED
      BY <2>2, <3>1, <3>2, <3>3, StillDone DEF RoundInv
  <2>6. QED
    BY <2>4, <2>5 DEF RoundInv
<1>7. QED
  BY <1>1, <1>2, <1>4, <1>5, <1>6 DEF Next, CallerStep, Rest

\* When wait_for_completion returns, all that its caller scheduled before has
\* run and is over, in every round, whatever the size of the channel, if he is
\* the only caller and does not shut the scheduler down himself: his shutdown
\* message is then the last one in the channel (wait_for_completion, run).
THEOREM WaitingWaits ==
  ASSUME NEW c
  PROVE  LoneCaller(c) /\ Spec => []WaitMeansDone
<1> DEFINE Inv == LoneCaller(c) /\ QInv /\ CountInv /\ RestInv /\ RoundInv(c)
<1>1. LoneCaller(c) /\ Init => Inv
  BY QInvInit, CountInit, RestInit, RoundInit
<1>2. Inv /\ [Next]_vars => Inv'
  <2> SUFFICES ASSUME Inv, [Next]_vars PROVE Inv'
    OBVIOUS
  <2>1. LoneCaller(c)'
    BY DEF LoneCaller
  <2>2. QInv' /\ CountInv' /\ RestInv'
    BY QInvNext, CountNext, RestNext DEF QInv
  <2>3. RoundInv(c)'
    BY RoundNext
  <2>4. QED
    BY <2>1, <2>2, <2>3
<1>3. Inv => WaitMeansDone
  BY DEF RoundInv
<1>4. QED
  BY <1>1, <1>2, <1>3, PTL DEF Spec

-----------------------------------------------------------------------------
(* --------------------------- The orchestrator. -------------------------- *)

LEMMA StartsScheduler == RunInit => Init /\ OwnScheduler
BY DEF RunInit

LEMMA StepsScheduler == OwnScheduler /\ [RunNext]_runVars => [Next]_vars
<1> SUFFICES ASSUME OwnScheduler, [RunNext]_runVars PROVE [Next]_vars
  OBVIOUS
<1>1. CASE Discover
  <2>1. CASE Schedule
    BY <2>1 DEF Schedule, Next, OwnScheduler
  <2>2. CASE vars' = vars
    BY <2>2
  <2>3. QED
    BY <1>1, <2>1, <2>2
    DEF Discover, StartDiscovery, ArpOver, PingsOver, ArpBatch
<1>2. CASE Scan
  BY <1>2 DEF Scan, Sweep, StartScan, ScanTogether, SecondPhase, ScanOver, ScanHost,
    HostOver, ScanPort
<1>3. CASE Annotate
  BY <1>3 DEF Annotate
<1>4. ASSUME NEW t \in Tasks, PingEnds(t) PROVE [Next]_vars
  BY <1>4 DEF PingEnds, Next
<1>5. CASE Stopped \/ UNCHANGED runVars
  BY <1>5 DEF Stopped, runVars
<1>6. QED
  BY <1>1, <1>2, <1>3, <1>4, <1>5 DEF RunNext

\* A run uses the scheduler as the scheduler allows it to be used.
THEOREM Implements == RunSpec => Spec
<1>1. RunInit => Init /\ OwnScheduler
  BY StartsScheduler
<1>2. OwnScheduler => OwnScheduler'
  BY DEF OwnScheduler
<1>3. OwnScheduler /\ [RunNext]_runVars => [Next]_vars
  BY StepsScheduler
<1>4. QED
  BY <1>1, <1>2, <1>3, PTL DEF RunSpec, Spec

\* However many targets are pinged and however their pings end, no more run at
\* a time than max_parallel_hosts allows (run_host_discovery).
THEOREM PingsBounded == RunSpec => []ConcurrencyBounded
BY Implements, Bounded, PTL

\* What the scheduler counts during host discovery is what its pings did.
THEOREM PingsCounted == RunSpec => []CountsAgree
BY Implements, CountsTrue, PTL

\* Discovery is over when every ping is over: when the orchestrator's call of
\* wait_for_completion returns, every ping it scheduled has ended
\* (run_host_discovery).
THEOREM PingsWaitedFor == RunSpec => []WaitMeansDone
<1>1. RunInit => LoneCaller(Orchestrated)
  BY DEF RunInit, OwnScheduler, LoneCaller
<1>2. LoneCaller(Orchestrated) /\ Spec => []WaitMeansDone
  BY WaitingWaits
<1>3. QED
  BY <1>1, <1>2, Implements, PTL DEF RunSpec

-----------------------------------------------------------------------------
Early == {"discovery", "arp", "ping", "scan"}
AfterScan == {"annotate", "ended"}

\* Outside of the ping phase the orchestrator is in no call of the scheduler.
CallsOnlyToPing == phase # "ping" => at[Orchestrated] = "idle"

\* What holds of the scheduler throughout a run.
SchedulerInv == OwnScheduler /\ QInv /\ CountInv /\ RestInv /\ CallsOnlyToPing

LEMMA SchedulerInit == RunInit => SchedulerInv
BY StartsScheduler, QInvInit, CountInit, RestInit
DEF SchedulerInv, CallsOnlyToPing, RunInit, Init, OwnScheduler

LEMMA SchedulerNext == SchedulerInv /\ [RunNext]_runVars => SchedulerInv'
<1> SUFFICES ASSUME SchedulerInv, [RunNext]_runVars PROVE SchedulerInv'
  OBVIOUS
<1>1. OwnScheduler' /\ QInv' /\ CountInv' /\ RestInv'
  <2>1. OwnScheduler /\ OwnScheduler'
    BY DEF SchedulerInv, OwnScheduler
  <2>2. QED
    BY <2>1, StepsScheduler, QInvNext, CountNext, RestNext DEF SchedulerInv, QInv
<1>2. CallsOnlyToPing'
  <2> USE DEF SchedulerInv, CallsOnlyToPing
  <2>1. CASE Discover
    <3>1. CASE StartDiscovery
      BY <3>1 DEF StartDiscovery, vars
    <3>2. CASE ArpOver
      BY <3>2 DEF ArpOver, vars
    <3>3. CASE PingsOver
      BY <3>3 DEF PingsOver, vars, RestInv, OwnScheduler
    <3>4. CASE Schedule
      BY <3>4 DEF Schedule, scanVars
    <3>5. ASSUME NEW S \in arpLeft, ArpBatch(S) PROVE CallsOnlyToPing'
      BY <3>5 DEF ArpBatch, vars
    <3>6. QED
      BY <2>1, <3>1, <3>2, <3>3, <3>4, <3>5 DEF Discover
  <2>2. CASE Scan
    BY <2>2 DEF Scan, Sweep, StartScan, ScanTogether, SecondPhase, ScanOver,
      ScanHost, HostOver, ScanPort, vars, Scanning
  <2>3. CASE Annotate
    BY <2>3 DEF Annotate, vars
  <2>4. ASSUME NEW t \in Tasks, PingEnds(t) PROVE CallsOnlyToPing'
    BY <2>4 DEF PingEnds, Finish
  <2>5. CASE Stopped \/ UNCHANGED runVars
    BY <2>5 DEF Stopped, runVars, scanVars, vars
  <2>6. QED
    BY <2>1, <2>2, <2>3, <2>4, <2>5 DEF RunNext
<1>3. QED
  BY <1>1, <1>2 DEF SchedulerInv

\* No ping ends after the ping phase.
LEMMA PingsEndInTime ==
  ASSUME SchedulerInv, NEW t \in Tasks, Finish(t)
  PROVE  phase = "ping"
<1>1. task[t] = "running"
  BY DEF Finish
<1>2. HandlesInv /\ RestInv
  BY DEF SchedulerInv, CountInv
<1>3. \E c \in Callers : Holds(c)
  BY <1>1, <1>2, NothingRuns
<1>4. at[Orchestrated] # "idle"
  BY <1>3 DEF Holds, SchedulerInv, OwnScheduler
<1>5. QED
  BY <1>4 DEF SchedulerInv, CallsOnlyToPing

-----------------------------------------------------------------------------
\* Before the scan nothing was scanned, and until it has scanned them all at
\* once the parallel SYN scan has neither results nor failures.
NothingYet ==
  /\ phase \in Early => todo = {} /\ asked = {} /\ reported = {} /\ lost = {}
  /\ phase = "syn" => reported = {} /\ lost = {}

\* Two phases are for scans in two phases, and -sn stops any other scan.
RightPhase ==
  phase \in Scanning =>
    /\ phase \in {"first", "second"} <=> config.twoPhase
    /\ config.twoPhase \/ ~config.sweep

DownHosts == {h \in targets : status[h] = "Down"}

\* No Down host is scanned, is to be scanned or is reported.
DownUntouched ==
  ~config.twoPhase =>
    \A h \in DownHosts :
      h \notin todo /\ h \notin reported /\ \A p \in AllPorts : <<h, p>> \notin asked

\* In a scan in one phase every target is to be scanned, reported, lost or
\* Down, and is only one of them.
EachSomewhere ==
  phase \in Scanning \union AfterScan /\ ~config.twoPhase /\ ~config.sweep =>
    /\ targets \ reported = todo \union lost \union DownHosts
    /\ todo \intersect (lost \union DownHosts) = {}

\* What the results hold when the scan is over.
WhenOver ==
  phase \in AfterScan =>
    /\ todo = {}
    /\ config.twoPhase => targets \subseteq reported
    /\ ~config.twoPhase /\ config.sweep =>
         reported = {h \in targets : status[h] = "Up"}

\* Inductive with SchedulerInv.
ScanInv == NothingYet /\ RightPhase /\ DownUntouched /\ EachSomewhere /\ WhenOver

LEMMA ScanInvInit == RunInit => ScanInv
BY DEF RunInit, ScanInv, NothingYet, RightPhase, DownUntouched, EachSomewhere, WhenOver,
  Early, AfterScan, Scanning

\* Discovery goes on: only the status of hosts and the phase change.
LEMMA StillEarly ==
  ASSUME ScanInv, phase \in Early, phase' \in Early,
         UNCHANGED <<config, targets, todo, asked, reported, lost>>
  PROVE  ScanInv'
BY DEF ScanInv, NothingYet, RightPhase, DownUntouched, EachSomewhere, WhenOver,
  Early, AfterScan, Scanning

LEMMA DiscoverKeeps == ASSUME ScanInv, Discover PROVE ScanInv'
<1>1. phase \in Early /\ phase' \in Early
      /\ UNCHANGED <<config, targets, todo, asked, reported, lost>>
  BY DEF Discover, StartDiscovery, ArpOver, PingsOver, Schedule, ArpBatch, Early, scanVars
<1>2. QED
  BY <1>1, StillEarly

LEMMA SweepKeeps == ASSUME ScanInv, Sweep PROVE ScanInv'
<1>1. /\ phase = "scan" /\ phase' = "annotate" /\ config.sweep /\ ~config.twoPhase
      /\ reported' = {h \in targets : status[h] = "Up"}
      /\ UNCHANGED <<config, targets, status, todo, asked, lost>>
  BY DEF Sweep
<1>2. QED
  BY <1>1 DEF ScanInv, NothingYet, RightPhase, DownUntouched, EachSomewhere, WhenOver,
    Early, AfterScan, Scanning, DownHosts

LEMMA StartKeeps == ASSUME ScanInv, StartScan PROVE ScanInv'
<1>1. /\ phase = "scan" /\ phase' \in Scanning
      /\ phase' \in {"first", "second"} <=> config.twoPhase
      /\ config.twoPhase \/ ~config.sweep
      /\ UNCHANGED <<config, targets, status, asked, reported, lost>>
  BY DEF StartScan, Scanning
<1>2. asked = {} /\ reported = {} /\ lost = {}
  BY <1>1 DEF ScanInv, NothingYet, Early
<1>3. ~config.twoPhase => todo' = targets \ DownHosts
  BY DEF StartScan, Alive, DownHosts
<1>4. NothingYet' /\ RightPhase' /\ WhenOver'
  BY <1>1, <1>2 DEF NothingYet, RightPhase, WhenOver, Early, AfterScan, Scanning
<1>5. DownHosts' = DownHosts
  BY <1>1 DEF DownHosts
<1>6. DownUntouched'
  BY <1>1, <1>2, <1>3, <1>5 DEF DownUntouched
<1>7. EachSomewhere'
  BY <1>1, <1>2, <1>3, <1>5 DEF EachSomewhere, DownHosts
<1>8. QED
  BY <1>4, <1>6, <1>7 DEF ScanInv

LEMMA TogetherKeeps == ASSUME ScanInv, ScanTogether PROVE ScanInv'
<1>1. /\ phase = "syn" /\ phase' = "annotate" /\ todo' = {} /\ asked' = todo \X Ports
      /\ UNCHANGED <<config, targets, status>>
      /\ \/ reported' = todo /\ lost' = lost
         \/ reported' = reported /\ lost' = lost \union todo
  BY DEF ScanTogether
<1>2. reported = {} /\ lost = {} /\ ~config.twoPhase /\ ~config.sweep
  BY <1>1 DEF ScanInv, NothingYet, RightPhase, Scanning
<1>3. DownHosts' = DownHosts
  BY <1>1 DEF DownHosts
<1>4. NothingYet' /\ RightPhase' /\ WhenOver'
  BY <1>1, <1>2 DEF NothingYet, RightPhase, WhenOver, Early, AfterScan, Scanning
<1>5. \A h \in DownHosts : h \notin todo
  BY <1>2 DEF ScanInv, DownUntouched
<1>6. DownUntouched'
  BY <1>1, <1>2, <1>3, <1>5 DEF DownUntouched
<1>7. /\ targets = todo \union DownHosts
      /\ todo \intersect DownHosts = {}
  BY <1>1, <1>2 DEF ScanInv, EachSomewhere, Scanning
<1>8. EachSomewhere'
  BY <1>1, <1>2, <1>3, <1>7 DEF EachSomewhere
<1>9. QED
  BY <1>4, <1>6, <1>8 DEF ScanInv

\* One host of todo is dealt with: probed, and possibly reported or lost.
LEMMA HostKeeps ==
  ASSUME ScanInv, phase \in Scanning \ {"syn"}, NEW h \in todo,
         UNCHANGED <<config, targets, phase, status>>,
         NEW Q \in SUBSET ({h} \X AllPorts), asked' = asked \union Q,
         \/ UNCHANGED <<todo, reported, lost>>
         \/ todo' = todo \ {h} /\ UNCHANGED lost /\
            (reported' = reported \union {h} \/ (phase = "first" /\ UNCHANGED reported))
         \/ todo' = todo \ {h} /\ UNCHANGED reported /\ lost' = lost \union {h} /\ h \in targets
  PROVE  ScanInv'
<1>1. DownHosts' = DownHosts
  BY DEF DownHosts
<1>2. NothingYet' /\ RightPhase' /\ WhenOver'
  BY DEF ScanInv, NothingYet, RightPhase, WhenOver, Early, AfterScan, Scanning
<1>3. DownUntouched'
  BY <1>1 DEF ScanInv, DownUntouched
<1>4. EachSomewhere'
  <2> SUFFICES ASSUME ~config.twoPhase, ~config.sweep PROVE EachSomewhere'
    BY DEF EachSomewhere
  <2>1. /\ targets \ reported = todo \union lost \union DownHosts
        /\ todo \intersect (lost \union DownHosts) = {}
    BY DEF ScanInv, EachSomewhere
  <2>2. phase # "first"
    BY DEF ScanInv, RightPhase
  <2>3. QED
    BY <1>1, <2>1, <2>2 DEF EachSomewhere
<1>5. QED
  BY <1>2, <1>3, <1>4 DEF ScanInv

LEMMA ScanHostKeeps == ASSUME ScanInv, NEW h \in todo, ScanHost(h) PROVE ScanInv'
<1>1. phase \in Scanning \ {"syn", "first", "second"}
  BY DEF ScanHost, Scanning
<1>2. ~config.twoPhase /\ ~config.sweep
  BY <1>1 DEF ScanInv, RightPhase
<1>3. h \in targets
  BY <1>1, <1>2 DEF ScanInv, EachSomewhere
<1>4. {h} \X Ports \in SUBSET ({h} \X AllPorts)
  BY DEF AllPorts
<1>5. /\ UNCHANGED <<config, targets, phase, status>> /\ todo' = todo \ {h}
      /\ asked' = asked \union ({h} \X Ports)
      /\ \/ reported' = reported \union {h} /\ UNCHANGED lost
         \/ UNCHANGED reported /\ lost' = lost \union {h}
  BY DEF ScanHost
<1> DEFINE Q == {h} \X Ports
<1> HIDE DEF Q
<1>6. /\ Q \in SUBSET ({h} \X AllPorts) /\ asked' = asked \union Q
      /\ phase \in Scanning \ {"syn"}
  BY <1>1, <1>4, <1>5 DEF Q
<1>7. QED
  BY <1>3, <1>5, <1>6, HostKeeps

LEMMA ScanPortKeeps ==
  ASSUME ScanInv, NEW h \in todo, NEW p \in AllPorts, ScanPort(h, p)
  PROVE  ScanInv'
<1>1. {<<h, p>>} \in SUBSET ({h} \X AllPorts)
  OBVIOUS
<1>2. /\ UNCHANGED <<config, targets, phase, status, todo, reported, lost>>
      /\ asked' = asked \union {<<h, p>>} /\ phase \in Scanning \ {"syn"}
  BY DEF ScanPort, Scanning
<1>3. QED
  BY <1>1, <1>2, HostKeeps

LEMMA HostOverKeeps == ASSUME ScanInv, NEW h \in todo, HostOver(h) PROVE ScanInv'
<1> DEFINE Q == asked \intersect ({h} \X AllPorts)
<1>1. Q \in SUBSET ({h} \X AllPorts) /\ asked \union Q = asked
  OBVIOUS
<1>2. /\ UNCHANGED <<config, targets, phase, status, asked, lost>>
      /\ todo' = todo \ {h} /\ phase \in Scanning \ {"syn"}
      /\ reported' = reported \union {h} \/ (phase = "first" /\ UNCHANGED reported)
  BY DEF HostOver, Scanning
<1>3. asked' = asked \union Q
  BY <1>1, <1>2
<1> HIDE DEF Q
<1>4. QED
  BY <1>1, <1>2, <1>3, HostKeeps

LEMMA SecondKeeps == ASSUME ScanInv, SecondPhase PROVE ScanInv'
<1>1. /\ UNCHANGED <<config, targets, status, asked, reported, lost>>
      /\ phase = "first" /\ phase' = "second"
  BY DEF SecondPhase
<1>2. config.twoPhase
  BY <1>1 DEF ScanInv, RightPhase, Scanning
<1>3. QED
  BY <1>1, <1>2 DEF ScanInv, NothingYet, RightPhase, DownUntouched, EachSomewhere,
    WhenOver, Early, AfterScan, Scanning

LEMMA ScanOverKeeps == ASSUME ScanInv, ScanOver PROVE ScanInv'
<1>1. /\ UNCHANGED <<config, targets, status, asked, todo, lost>>
      /\ phase \in Scanning \ {"syn", "first"} /\ phase' = "annotate" /\ todo = {}
      /\ reported' = IF phase = "second" THEN targets ELSE reported
  BY DEF ScanOver
<1>2. /\ phase = "second" <=> config.twoPhase
      /\ config.twoPhase \/ ~config.sweep
  BY <1>1 DEF ScanInv, RightPhase
<1>3. NothingYet' /\ RightPhase' /\ WhenOver'
  BY <1>1, <1>2 DEF NothingYet, RightPhase, WhenOver, Early, AfterScan, Scanning
<1>4. DownHosts' = DownHosts
  BY <1>1 DEF DownHosts
<1>5. DownUntouched'
  BY <1>1, <1>2, <1>4 DEF ScanInv, DownUntouched
<1>6. EachSomewhere'
  BY <1>1, <1>2, <1>4 DEF ScanInv, EachSomewhere, AfterScan
<1>7. QED
  BY <1>3, <1>5, <1>6 DEF ScanInv

LEMMA ScanInvNext == SchedulerInv /\ ScanInv /\ [RunNext]_runVars => ScanInv'
<1> SUFFICES ASSUME SchedulerInv, ScanInv, [RunNext]_runVars PROVE ScanInv'
  OBVIOUS
<1>1. CASE Discover
  BY <1>1, DiscoverKeeps
<1>2. CASE Scan
  BY <1>2, SweepKeeps, StartKeeps, TogetherKeeps, ScanHostKeeps, ScanPortKeeps,
    HostOverKeeps, SecondKeeps, ScanOverKeeps DEF Scan
<1>3. CASE Annotate
  BY <1>3 DEF Annotate, ScanInv, NothingYet, RightPhase, DownUntouched, EachSomewhere,
    WhenOver, Early, AfterScan, Scanning, DownHosts
<1>4. ASSUME NEW t \in Tasks, PingEnds(t) PROVE ScanInv'
  <2>1. phase = "ping"
    BY <1>4, PingsEndInTime DEF PingEnds
  <2>2. UNCHANGED <<config, targets, phase, todo, asked, reported, lost>>
    BY <1>4 DEF PingEnds
  <2>3. QED
    BY <2>1, <2>2, StillEarly DEF Early
<1>5. CASE Stopped \/ UNCHANGED runVars
  BY <1>5 DEF Stopped, runVars, scanVars, ScanInv, NothingYet, RightPhase, DownUntouched,
    EachSomewhere, WhenOver, DownHosts
<1>6. QED
  BY <1>1, <1>2, <1>3, <1>4, <1>5 DEF RunNext

\* A host that discovery finds Down is neither probed nor reported: every ping
\* is over when the scan reads the status, none ends later, and no way of
\* scanning in one phase takes a Down host (run_port_scanning).
THEOREM DownIsLeftAlone == RunSpec => []DownLeftAlone
<1>1. RunInit => SchedulerInv /\ ScanInv
  BY SchedulerInit, ScanInvInit
<1>2. SchedulerInv /\ ScanInv /\ [RunNext]_runVars => SchedulerInv' /\ ScanInv'
  BY SchedulerNext, ScanInvNext
<1>3. ScanInv => DownLeftAlone
  BY DEF ScanInv, DownUntouched, DownHosts, DownLeftAlone
<1>4. QED
  BY <1>1, <1>2, <1>3, PTL DEF RunSpec

\* When a run ends, a target is missing from the results exactly if it is Down
\* or its scan failed; with -sn, if it is not Up (run_port_scanning and its
\* ways of scanning).
THEOREM NoTargetLost == RunSpec => []TargetsAccounted
<1>1. RunInit => SchedulerInv /\ ScanInv
  BY SchedulerInit, ScanInvInit
<1>2. SchedulerInv /\ ScanInv /\ [RunNext]_runVars => SchedulerInv' /\ ScanInv'
  BY SchedulerNext, ScanInvNext
<1>3. ScanInv => TargetsAccounted
  <2> SUFFICES ASSUME ScanInv, phase = "ended"
               PROVE  targets \ reported =
                        IF config.twoPhase THEN {}
                        ELSE IF config.sweep THEN {h \in targets : status[h] # "Up"}
                        ELSE lost \union {h \in targets : status[h] = "Down"}
    BY DEF TargetsAccounted
  <2>1. CASE config.twoPhase
    BY <2>1 DEF ScanInv, WhenOver, AfterScan
  <2>2. CASE ~config.twoPhase /\ config.sweep
    <3>1. reported = {h \in targets : status[h] = "Up"}
      BY <2>2 DEF ScanInv, WhenOver, AfterScan
    <3>2. QED
      BY <2>2, <3>1
  <2>3. CASE ~config.twoPhase /\ ~config.sweep
    <3>1. targets \ reported = todo \union lost \union DownHosts /\ todo = {}
      BY <2>3 DEF ScanInv, EachSomewhere, WhenOver, AfterScan
    <3>2. QED
      BY <2>3, <3>1 DEF DownHosts
  <2>4. QED
    BY <2>1, <2>2, <2>3
<1>4. QED
  BY <1>1, <1>2, <1>3, PTL DEF RunSpec

-----------------------------------------------------------------------------
(* The counters.  What a way of scanning counts is about probes it has just  *)
(* made, which no verdict was about before.                                  *)

HostPorts == Hosts \X AllPorts

ResultsTyped ==
  /\ targets \subseteq Hosts /\ todo \subseteq Hosts
  /\ asked \subseteq HostPorts
  /\ verdict \in [HostPorts -> Verdicts \union {NoVerdict}]
  /\ openCount \in Nat /\ sentCount \in Nat

VerdictsAsked == \A k \in HostPorts : verdict[k] # NoVerdict => k \in asked

\* Who scans whole hosts has asked nothing of those to come.
HostsUnasked ==
  /\ phase = "syn" => asked = {}
  /\ phase \in {"udp", "stealth", "connect"} =>
       \A h \in todo, p \in AllPorts : <<h, p>> \notin asked

\* Inductive with ScanInv.
TallyInv == ResultsTyped /\ VerdictsAsked /\ HostsUnasked /\ StatisticsAgree

LEMMA HostPortsFinite == IsFiniteSet(HostPorts)
<1>1. IsFiniteSet(AllPorts)
  BY OrchestratorAssumption, FS_Union DEF AllPorts
<1>2. QED
  BY <1>1, OrchestratorAssumption, FS_Product DEF HostPorts

\* The keys of K that h takes into P.
Into(K, h, P) == {k \in K : h[k] \in P}

\* Where f and v are merged, their keys are added up.
LEMMA Merged ==
  ASSUME NEW K, IsFiniteSet(K), NEW D \in SUBSET K, NEW P, NEW v, NEW f, NEW g,
         g = [k \in K |-> IF k \in D THEN f[k] ELSE v[k]],
         \A k \in D : v[k] \notin P
  PROVE  Cardinality(Into(K, g, P)) =
           Cardinality(Into(K, v, P)) + Cardinality(Into(D, f, P))
<1> DEFINE Old == Into(K, v, P)
           New == Into(D, f, P)
           Both == Into(K, g, P)
<1>1. Both = Old \union New /\ Old \intersect New = {}
  BY DEF Into
<1>2. Old \in SUBSET K /\ New \in SUBSET K
  BY DEF Into
<1> HIDE DEF Old, New, Both
<1>3. IsFiniteSet(Old) /\ IsFiniteSet(New)
  BY <1>2, FS_Subset
<1>4. /\ Cardinality(Old) \in Nat /\ Cardinality(New) \in Nat
      /\ Cardinality(Old \intersect New) = 0
  BY <1>1, <1>3, FS_CardinalityType, FS_EmptySet
<1>5. Cardinality(Old \union New) =
        Cardinality(Old) + Cardinality(New) - Cardinality(Old \intersect New)
  BY <1>3, FS_Union
<1>6. Cardinality(Both) = Cardinality(Old) + Cardinality(New)
  BY <1>1, <1>4, <1>5
<1>7. QED
  BY <1>6 DEF Old, New, Both

\* Keep counts the verdicts f of new probes D.
LEMMA KeepTallies ==
  ASSUME ResultsTyped, VerdictsAsked, StatisticsAgree,
         NEW D \in SUBSET HostPorts, D \intersect asked = {}, asked' = asked \union D,
         NEW f \in [D -> Verdicts \union {NoVerdict}], Keep(f), UNCHANGED config
  PROVE  /\ asked' \subseteq HostPorts
         /\ verdict' \in [HostPorts -> Verdicts \union {NoVerdict}]
         /\ openCount' \in Nat /\ sentCount' \in Nat
         /\ VerdictsAsked' /\ StatisticsAgree'
<1> DEFINE V == Verdicts \union {NoVerdict}
           g == [k \in HostPorts |-> IF k \in D THEN f[k] ELSE verdict[k]]
<1>1. /\ verdict' = g /\ openCount' = openCount + Opens(f)
      /\ sentCount' = sentCount + Given(f)
  BY DEF Keep, HostPorts
<1>2. verdict \in [HostPorts -> V] /\ \A k \in D : verdict[k] = NoVerdict
  BY DEF ResultsTyped, VerdictsAsked
<1>3. g \in [HostPorts -> V]
  BY <1>2
<1>4. NoVerdict \notin {"Open"} /\ NoVerdict \notin Verdicts
  BY DEF NoVerdict, Verdicts
<1>6. Opens(g) = Opens(verdict) + Opens(f)
  <2>1. /\ {k \in DOMAIN g : g[k] = "Open"} = {k \in HostPorts : g[k] \in {"Open"}}
        /\ {k \in DOMAIN verdict : verdict[k] = "Open"} =
             {k \in HostPorts : verdict[k] \in {"Open"}}
        /\ {k \in DOMAIN f : f[k] = "Open"} = {k \in D : f[k] \in {"Open"}}
    BY <1>2, <1>3, <1>4
  <2>2. \A k \in D : verdict[k] \notin {"Open"}
    BY <1>2, <1>4
  <2> DEFINE P == {"Open"}
  <2>3. /\ g = [k \in HostPorts |-> IF k \in D THEN f[k] ELSE verdict[k]]
        /\ \A k \in D : verdict[k] \notin P
    BY <2>2
  <2> HIDE DEF g, P
  <2>4. Cardinality(Into(HostPorts, g, P)) =
          Cardinality(Into(HostPorts, verdict, P)) + Cardinality(Into(D, f, P))
    BY <2>3, HostPortsFinite, Merged
  <2>5. QED
    BY <2>1, <2>4 DEF Opens, P, Into
<1>7. Given(g) = Given(verdict) + Given(f)
  <2>1. /\ {k \in DOMAIN g : g[k] # NoVerdict} = {k \in HostPorts : g[k] \in Verdicts}
        /\ {k \in DOMAIN verdict : verdict[k] # NoVerdict} =
             {k \in HostPorts : verdict[k] \in Verdicts}
        /\ {k \in DOMAIN f : f[k] # NoVerdict} = {k \in D : f[k] \in Verdicts}
    BY <1>2, <1>3, <1>4
  <2>2. \A k \in D : verdict[k] \notin Verdicts
    BY <1>2, <1>4
  <2> DEFINE P == Verdicts
  <2>3. /\ g = [k \in HostPorts |-> IF k \in D THEN f[k] ELSE verdict[k]]
        /\ \A k \in D : verdict[k] \notin P
    BY <2>2
  <2> HIDE DEF g, P
  <2>4. Cardinality(Into(HostPorts, g, P)) =
          Cardinality(Into(HostPorts, verdict, P)) + Cardinality(Into(D, f, P))
    BY <2>3, HostPortsFinite, Merged
  <2>5. QED
    BY <2>1, <2>4 DEF Given, P, Into
<1>8. /\ Opens(f) \in Nat /\ Given(f) \in Nat /\ Given(f) <= Cardinality(D)
      /\ Given(verdict) \in Nat
      /\ Cardinality(asked) \in Nat /\ Cardinality(D) \in Nat
      /\ Cardinality(asked \union D) = Cardinality(asked) + Cardinality(D)
  <2>1. IsFiniteSet(D) /\ IsFiniteSet(asked)
    BY HostPortsFinite, FS_Subset DEF ResultsTyped
  <2>2. /\ {k \in DOMAIN f : f[k] = "Open"} \in SUBSET D
        /\ {k \in DOMAIN f : f[k] # NoVerdict} \in SUBSET D
    OBVIOUS
  <2>3. {k \in DOMAIN verdict : verdict[k] # NoVerdict} \in SUBSET HostPorts
    BY <1>2
  <2>4. Opens(f) \in Nat /\ Given(f) \in Nat /\ Given(f) <= Cardinality(D)
    BY <2>1, <2>2, FS_Subset, FS_CardinalityType DEF Opens, Given
  <2>5. Given(verdict) \in Nat
    BY <2>3, HostPortsFinite, FS_Subset, FS_CardinalityType DEF Given
  <2>6. /\ Cardinality(asked) \in Nat /\ Cardinality(D) \in Nat
        /\ Cardinality(asked \intersect D) = 0
    BY <2>1, FS_CardinalityType, FS_EmptySet
  <2>7. Cardinality(asked \union D) =
          Cardinality(asked) + Cardinality(D) - Cardinality(asked \intersect D)
    BY <2>1, FS_Union
  <2>8. QED
    BY <2>4, <2>5, <2>6, <2>7
<1>9. asked' \subseteq HostPorts /\ verdict' \in [HostPorts -> V]
  BY <1>1, <1>3 DEF ResultsTyped
<1>10. VerdictsAsked'
  BY <1>1, <1>2 DEF VerdictsAsked
<1>11. Opens(verdict') = Opens(g) /\ Given(verdict') = Given(g)
  BY <1>1
<1> HIDE DEF g
<1>12. openCount' = Opens(verdict')
  BY <1>1, <1>6, <1>11 DEF StatisticsAgree
<1>13. /\ Given(verdict') <= sentCount' /\ sentCount' <= Cardinality(asked')
       /\ ~config'.twoPhase => sentCount' = Given(verdict')
  BY <1>1, <1>7, <1>8, <1>11 DEF StatisticsAgree, ResultsTyped
<1>14. Opens(verdict)' = Opens(verdict') /\ Given(verdict)' = Given(verdict')
  BY DEF Opens, Given
<1>15. StatisticsAgree'
  BY <1>12, <1>13, <1>14 DEF StatisticsAgree
<1>16. QED
  BY <1>1, <1>8, <1>9, <1>10, <1>15 DEF ResultsTyped

\* New probes D that are counted at most once and give no verdict.
LEMMA AskingTallies ==
  ASSUME ResultsTyped, VerdictsAsked, StatisticsAgree,
         NEW D \in SUBSET HostPorts, asked' = asked \union D,
         UNCHANGED <<config, verdict, openCount>>,
         \/ UNCHANGED sentCount
         \/ /\ sentCount' = sentCount + 1 /\ config.twoPhase
            /\ \E k \in HostPorts : D = {k} /\ k \notin asked
  PROVE  /\ asked' \subseteq HostPorts /\ sentCount' \in Nat
         /\ VerdictsAsked' /\ StatisticsAgree'
<1>1. IsFiniteSet(asked) /\ IsFiniteSet(D) /\ IsFiniteSet(asked \union D)
  BY HostPortsFinite, FS_Subset, FS_Union DEF ResultsTyped
<1>2. /\ Cardinality(asked) \in Nat /\ Cardinality(asked \union D) \in Nat
      /\ Cardinality(asked) <= Cardinality(asked \union D)
  BY <1>1, FS_Subset, FS_CardinalityType
<1>3. \A k : D = {k} /\ k \notin asked =>
         Cardinality(asked \union D) = Cardinality(asked) + 1
  BY <1>1, FS_AddElement
<1>4. asked' \subseteq HostPorts /\ VerdictsAsked' /\ sentCount' \in Nat
  BY DEF ResultsTyped, VerdictsAsked
<1>5. {k \in DOMAIN verdict : verdict[k] # NoVerdict} \in SUBSET HostPorts
  BY DEF ResultsTyped
<1>6. Given(verdict) \in Nat
  BY <1>5, HostPortsFinite, FS_Subset, FS_CardinalityType DEF Given
<1>7. Opens(verdict)' = Opens(verdict) /\ Given(verdict)' = Given(verdict)
  BY DEF Opens, Given
<1>8. openCount' = Opens(verdict)'
  BY <1>7 DEF StatisticsAgree
<1>9. Given(verdict) <= sentCount' /\ sentCount' <= Cardinality(asked \union D)
  <2>1. CASE UNCHANGED sentCount
    BY <1>2, <1>6, <2>1 DEF StatisticsAgree, ResultsTyped
  <2>2. CASE sentCount' = sentCount + 1 /\ \E k \in HostPorts : D = {k} /\ k \notin asked
    BY <1>2, <1>3, <1>6, <2>2 DEF StatisticsAgree, ResultsTyped
  <2>3. QED
    BY <2>1, <2>2
<1>10. ~config'.twoPhase => sentCount' = Given(verdict)
  BY DEF StatisticsAgree
<1>11. Cardinality(asked') = Cardinality(asked \union D)
  OBVIOUS
<1>12. StatisticsAgree'
  BY <1>7, <1>8, <1>9, <1>10, <1>11 DEF StatisticsAgree
<1>13. QED
  BY <1>4, <1>12

LEMMA TallyInit == RunInit => TallyInv
<1> SUFFICES ASSUME RunInit PROVE TallyInv
  OBVIOUS
<1>1. ResultsTyped /\ VerdictsAsked /\ HostsUnasked
  BY OrchestratorAssumption
  DEF RunInit, ResultsTyped, VerdictsAsked, HostsUnasked, HostPorts
<1>2. /\ {k \in DOMAIN verdict : verdict[k] = "Open"} = {}
      /\ {k \in DOMAIN verdict : verdict[k] # NoVerdict} = {}
  BY DEF RunInit, NoVerdict
<1>3. Opens(verdict) = 0 /\ Given(verdict) = 0
  BY <1>2, FS_EmptySet DEF Opens, Given
<1>4. openCount = 0 /\ sentCount = 0 /\ Cardinality(asked) = 0
  BY FS_EmptySet DEF RunInit
<1>5. StatisticsAgree
  BY <1>3, <1>4 DEF StatisticsAgree
<1>6. QED
  BY <1>1, <1>5 DEF TallyInv

\* Steps that make no probe.
LEMMA NothingTallied ==
  ASSUME TallyInv, UNCHANGED <<config, targets, asked, verdict, openCount, sentCount>>,
         todo' \subseteq Hosts,
         \/ phase' \notin {"syn", "udp", "stealth", "connect"}
         \/ asked = {}
         \/ phase' = phase /\ todo' \subseteq todo
  PROVE  TallyInv'
<1>1. ResultsTyped' /\ VerdictsAsked' /\ HostsUnasked'
  BY DEF TallyInv, ResultsTyped, VerdictsAsked, HostsUnasked
<1>2. Opens(verdict)' = Opens(verdict) /\ Given(verdict)' = Given(verdict)
  BY DEF Opens, Given
<1>3. StatisticsAgree'
  BY <1>2 DEF TallyInv, StatisticsAgree
<1>4. QED
  BY <1>1, <1>3 DEF TallyInv

LEMMA TogetherTallies == ASSUME TallyInv, ScanTogether PROVE TallyInv'
<1> DEFINE D == todo \X Ports
<1>1. /\ phase = "syn" /\ phase' = "annotate" /\ todo' = {} /\ asked' = D
      /\ UNCHANGED <<config, targets>>
  BY DEF ScanTogether
<1>2. asked = {} /\ D \in SUBSET HostPorts
  BY <1>1 DEF TallyInv, HostsUnasked, ResultsTyped, HostPorts, AllPorts
<1>3. asked' = asked \union D /\ D \intersect asked = {}
  BY <1>1, <1>2
<1>4. /\ asked' \subseteq HostPorts
      /\ verdict' \in [HostPorts -> Verdicts \union {NoVerdict}]
      /\ openCount' \in Nat /\ sentCount' \in Nat /\ VerdictsAsked' /\ StatisticsAgree'
  <2>1. ASSUME NEW f \in [D -> Verdicts \union {NoVerdict}], Keep(f) PROVE <1>4!:
    BY <1>1, <1>2, <1>3, <2>1, KeepTallies DEF TallyInv
  <2>2. CASE UNCHANGED <<verdict, openCount, sentCount>>
    BY <1>1, <1>2, <1>3, <2>2, AskingTallies DEF TallyInv, ResultsTyped
  <2>3. QED
    BY <2>1, <2>2 DEF ScanTogether
<1>5. QED
  BY <1>1, <1>4 DEF TallyInv, ResultsTyped, HostsUnasked

LEMMA ScanHostTallies ==
  ASSUME TallyInv, NEW h \in todo, ScanHost(h) PROVE TallyInv'
<1> DEFINE D == {h} \X Ports
<1>1. /\ phase \in {"udp", "stealth", "connect"} /\ todo' = todo \ {h}
      /\ asked' = asked \union D /\ UNCHANGED <<config, targets, phase>>
  BY DEF ScanHost
<1>2. D \in SUBSET HostPorts /\ D \intersect asked = {}
  BY <1>1 DEF TallyInv, HostsUnasked, ResultsTyped, HostPorts, AllPorts
<1>3. /\ asked' \subseteq HostPorts
      /\ verdict' \in [HostPorts -> Verdicts \union {NoVerdict}]
      /\ openCount' \in Nat /\ sentCount' \in Nat /\ VerdictsAsked' /\ StatisticsAgree'
  <2>1. ASSUME NEW f \in [D -> Verdicts \union {NoVerdict}], Keep(f) PROVE <1>3!:
    BY <1>1, <1>2, <2>1, KeepTallies DEF TallyInv
  <2>2. CASE UNCHANGED <<verdict, openCount, sentCount>>
    BY <1>1, <1>2, <2>2, AskingTallies DEF TallyInv, ResultsTyped
  <2>3. \/ UNCHANGED <<verdict, openCount, sentCount>>
        \/ \E f \in [D -> Verdicts \union {NoVerdict}] : Keep(f)
    <3>1. ASSUME NEW f \in [D -> Verdicts \union IF phase = "udp" THEN {NoVerdict}
                                                  ELSE {}]
          PROVE  f \in [D -> Verdicts \union {NoVerdict}]
      OBVIOUS
    <3>2. QED
      BY <3>1 DEF ScanHost
  <2>4. QED
    BY <2>1, <2>2, <2>3
<1>4. HostsUnasked'
  BY <1>1 DEF TallyInv, HostsUnasked
<1>5. QED
  BY <1>1, <1>3, <1>4 DEF TallyInv, ResultsTyped

LEMMA ScanPortTallies ==
  ASSUME TallyInv, ScanInv, NEW h \in todo, NEW p \in AllPorts, ScanPort(h, p)
  PROVE  TallyInv'
<1> DEFINE k == <<h, p>>
<1>1. /\ phase \in {"ports", "first", "second"} /\ asked' = asked \union {k}
      /\ sentCount' = sentCount + 1 /\ UNCHANGED <<config, targets, phase, todo>>
  BY DEF ScanPort
<1>2. k \notin asked /\ k \in HostPorts /\ {k} \in SUBSET HostPorts
  <2>1. p \in PortsLeft(h)
    BY DEF ScanPort, PortTurn
  <2>2. QED
    BY <2>1 DEF PortsLeft, HostPorts, TallyInv, ResultsTyped
<1>3. PICK v \in Verdicts :
        /\ openCount' = openCount + IF v = "Open" THEN 1 ELSE 0
        /\ verdict' = IF phase = "first" /\ v # "Open" THEN verdict
                      ELSE [verdict EXCEPT ![k] = v]
  BY DEF ScanPort
<1>4. /\ asked' \subseteq HostPorts
      /\ verdict' \in [HostPorts -> Verdicts \union {NoVerdict}]
      /\ openCount' \in Nat /\ sentCount' \in Nat /\ VerdictsAsked' /\ StatisticsAgree'
  <2>1. CASE phase = "first" /\ v # "Open"
    <3>1. config.twoPhase
      BY <2>1 DEF ScanInv, RightPhase, Scanning
    <3>2. UNCHANGED <<config, verdict, openCount>>
      BY <1>1, <1>3, <2>1 DEF TallyInv, ResultsTyped
    <3>3. QED
      BY <1>1, <1>2, <3>1, <3>2, AskingTallies DEF TallyInv, ResultsTyped
  <2>2. CASE ~(phase = "first" /\ v # "Open")
    <3> DEFINE f == [x \in {k} |-> v]
    <3>1. f \in [{k} -> Verdicts \union {NoVerdict}]
      OBVIOUS
    <3>2. Opens(f) = IF v = "Open" THEN 1 ELSE 0
      <4>1. {x \in DOMAIN f : f[x] = "Open"} = IF v = "Open" THEN {k} ELSE {}
        OBVIOUS
      <4>2. QED
        BY <4>1, FS_Singleton, FS_EmptySet DEF Opens
    <3>3. Given(f) = 1
      <4>1. {x \in DOMAIN f : f[x] # NoVerdict} = {k}
        BY DEF Verdicts, NoVerdict
      <4>2. QED
        BY <4>1, FS_Singleton DEF Given
    <3>4. verdict' = [x \in HostPorts |-> IF x \in DOMAIN f THEN f[x] ELSE verdict[x]]
      BY <1>2, <1>3, <2>2 DEF TallyInv, ResultsTyped
    <3>5. Keep(f)
      BY <1>1, <1>3, <3>2, <3>3, <3>4 DEF Keep, HostPorts
    <3> HIDE DEF f
    <3>6. {k} \intersect asked = {}
      BY <1>2
    <3>7. QED
      BY <1>1, <1>2, <3>1, <3>5, <3>6, KeepTallies DEF TallyInv
  <2>3. QED
    BY <2>1, <2>2
<1>5. HostsUnasked'
  BY <1>1 DEF HostsUnasked
<1>6. QED
  BY <1>1, <1>4, <1>5 DEF TallyInv, ResultsTyped

LEMMA TallyNext ==
  SchedulerInv /\ ScanInv /\ TallyInv /\ [RunNext]_runVars => TallyInv'
<1> SUFFICES ASSUME SchedulerInv, ScanInv, TallyInv, [RunNext]_runVars
             PROVE  TallyInv'
  OBVIOUS
<1>1. todo \subseteq Hosts /\ targets \subseteq Hosts
  BY DEF TallyInv, ResultsTyped
<1>2. CASE Discover
  <2>1. /\ phase' \in Early
        /\ UNCHANGED <<config, targets, todo, asked, verdict, openCount, sentCount>>
    BY <1>2 DEF Discover, StartDiscovery, ArpOver, PingsOver, Schedule, ArpBatch, Early,
      scanVars
  <2>2. QED
    BY <1>1, <2>1, NothingTallied DEF Early
<1>3. CASE Scan
  <2>1. CASE Sweep
    BY <1>1, <2>1, NothingTallied DEF Sweep
  <2>2. CASE StartScan
    <3>1. asked = {}
      BY <2>2 DEF StartScan, ScanInv, NothingYet, Early
    <3>2. todo' \subseteq Hosts
      BY <1>1, <2>2 DEF StartScan, Alive
    <3>3. UNCHANGED <<config, targets, asked, verdict, openCount, sentCount>>
      BY <2>2 DEF StartScan
    <3>4. QED
      BY <3>1, <3>2, <3>3, NothingTallied
  <2>3. CASE SecondPhase
    <3>1. todo' \subseteq Hosts /\ phase' = "second"
      BY <1>1, <2>3 DEF SecondPhase
    <3>2. UNCHANGED <<config, targets, asked, verdict, openCount, sentCount>>
      BY <2>3 DEF SecondPhase
    <3>3. QED
      BY <3>1, <3>2, NothingTallied
  <2>4. CASE ScanOver
    BY <1>1, <2>4, NothingTallied DEF ScanOver
  <2>5. ASSUME NEW h \in todo, HostOver(h) PROVE TallyInv'
    BY <1>1, <2>5, NothingTallied DEF HostOver
  <2>6. QED
    BY <1>3, <2>1, <2>2, <2>3, <2>4, <2>5, TogetherTallies, ScanHostTallies,
      ScanPortTallies DEF Scan
<1>4. CASE Annotate
  BY <1>1, <1>4, NothingTallied DEF Annotate
<1>5. ASSUME NEW t \in Tasks, PingEnds(t) PROVE TallyInv'
  BY <1>1, <1>5, NothingTallied DEF PingEnds
<1>6. CASE Stopped \/ UNCHANGED runVars
  BY <1>1, <1>6, NothingTallied DEF Stopped, runVars, scanVars
<1>7. QED
  BY <1>2, <1>3, <1>4, <1>5, <1>6 DEF RunNext

\* The session's counters agree with the results, for all six ways of scanning
\* and both phases of a scan in two: an open port is counted once, a packet for
\* every verdict (record_open_port, record_packet_sent).
THEOREM CountersAgree == RunSpec => []StatisticsAgree
<1>1. RunInit => SchedulerInv /\ ScanInv /\ TallyInv
  BY SchedulerInit, ScanInvInit, TallyInit
<1>2. /\ SchedulerInv /\ ScanInv /\ TallyInv /\ [RunNext]_runVars
      => SchedulerInv' /\ ScanInv' /\ TallyInv'
  BY SchedulerNext, ScanInvNext, TallyNext
<1>3. TallyInv => StatisticsAgree
  BY DEF TallyInv
<1>4. QED
  BY <1>1, <1>2, <1>3, PTL DEF RunSpec
=============================================================================
