---------------------------- MODULE RateLimiter ----------------------------
(***************************************************************************)
(* RateLimiter of crates/rustnmap-common/src/rate.rs, and the senders that *)
(* use it as the scan loops do: check_rate, sleep as long as it says,      *)
(* send without asking again, record_sent.  Every atomic access is a step  *)
(* of its own, as the type promises to be usable from many threads.        *)
(*                                                                         *)
(* Time is counted in ticks; a window has Window of them.  Which tasks use *)
(* the limiter is chosen at the start (active).  The scan loops share one  *)
(* limiter per engine, whose scans run one after the other: in the engine  *)
(* as it is used one task is active, and CountExact and TwiceTheRate are   *)
(* about that case.                                                        *)
(***************************************************************************)
EXTENDS Integers, Sequences, FiniteSets

CONSTANTS
  Senders,  \* the tasks that may share the limiter
  Window,   \* WINDOW_SIZE_NANOS
  MaxRate,  \* max_rate, packets per window
  Forever,  \* u64::MAX
  MaxTime,  \* bound: ticks until the model stops
  MaxSharedTime \* bound: the same when several tasks are active

ASSUME RateAssumption ==
  /\ IsFiniteSet(Senders)
  /\ Window \in Nat \ {0}
  /\ MaxRate \in Nat
  /\ MaxTime \in Nat
  /\ MaxSharedTime \in 0..MaxTime
  /\ Forever \in Nat /\ Forever > MaxTime /\ Forever >= Window

VARIABLES
  active,  \* the tasks that use the limiter
  now,     \* reference_instant.elapsed()
  start,   \* window_start_nanos
  count,   \* window_count
  pc,      \* where each sender is
  at,      \* now_nanos of its check
  seen,    \* window_start_nanos of its check
  wake,    \* when its sleep ends
  sent,    \* history: the tick of each packet sent
  inWindow \* history: packets sent since the window was last moved

vars == <<active, now, start, count, pc, at, seen, wake, sent, inWindow>>

Steps == {"idle", "load", "cas", "reload", "clear", "check", "sleep", "send",
          "record"}

TypeOK ==
  /\ active \in SUBSET Senders
  /\ now \in 0..MaxTime
  /\ start \in 0..MaxTime
  /\ count \in Nat
  /\ pc \in [Senders -> Steps]
  /\ at \in [Senders -> 0..MaxTime]
  /\ seen \in [Senders -> 0..MaxTime]
  /\ wake \in [Senders -> Nat]
  /\ sent \in Seq(0..MaxTime)
  /\ inWindow \in Nat

Saturating(n) == IF n <= Forever THEN n ELSE Forever

\* saturating_sub
Minus(a, b) == IF a >= b THEN a - b ELSE 0

\* Slip: half the interval.
IntervalHalf == IF MaxRate = 0 THEN Forever ELSE (Window \div MaxRate) \div 2

\* min_packet_interval_nanos
Interval == IF MaxRate = 0 THEN Forever ELSE Window \div MaxRate

Init ==
  /\ active \in SUBSET Senders \ {{}}
  /\ now = 0
  /\ start = 0
  /\ count = 0
  /\ pc = [s \in Senders |-> "idle"]
  /\ at = [s \in Senders |-> 0]
  /\ seen = [s \in Senders |-> 0]
  /\ wake = [s \in Senders |-> 0]
  /\ sent = <<>>
  /\ inWindow = 0

Goto(s, step) == pc' = [pc EXCEPT ![s] = step]

\* check_rate reads the clock ...
ReadClock(s) ==
  /\ pc[s] = "idle"
  /\ at' = [at EXCEPT ![s] = now]
  /\ Goto(s, "load")
  /\ UNCHANGED <<active, now, start, count, seen, wake, sent, inWindow>>

\* ... and the start of the window, and sees whether the window is over.
LoadStart(s) ==
  /\ pc[s] = "load"
  /\ seen' = [seen EXCEPT ![s] = start]
  /\ Goto(s, IF Minus(at[s], start) >= Window THEN "cas" ELSE "check")
  /\ UNCHANGED <<active, now, start, count, at, wake, sent, inWindow>>

\* Slip: a plain store instead of the compare_exchange.
MoveWindowBlindly(s) ==
  /\ pc[s] = "cas"
  /\ start' = at[s] /\ inWindow' = 0
  /\ Goto(s, "clear")
  /\ UNCHANGED <<active, now, count, at, seen, wake, sent>>

\* compare_exchange: the winner moves the window, the others look again.
MoveWindow(s) ==
  /\ pc[s] = "cas"
  /\ IF start = seen[s]
     THEN start' = at[s] /\ inWindow' = 0 /\ Goto(s, "clear")
     ELSE UNCHANGED <<start, inWindow>> /\ Goto(s, "reload")
  /\ UNCHANGED <<active, now, count, at, seen, wake, sent>>

\* Slip: the count of the old window is kept.
KeepCount(s) ==
  /\ pc[s] = "clear"
  /\ Goto(s, "send")
  /\ UNCHANGED <<active, now, start, count, at, seen, wake, sent, inWindow>>

\* The winner empties the count, a store of its own, and may send.
ClearCount(s) ==
  /\ pc[s] = "clear"
  /\ count' = 0
  /\ Goto(s, "send")
  /\ UNCHANGED <<active, now, start, at, seen, wake, sent, inWindow>>

\* A loser finds the new window over as well: it sleeps a microsecond.
Reload(s) ==
  /\ pc[s] = "reload"
  /\ seen' = [seen EXCEPT ![s] = start]
  /\ IF Minus(at[s], start) >= Window
     THEN wake' = [wake EXCEPT ![s] = now] /\ Goto(s, "sleep")
     ELSE UNCHANGED wake /\ Goto(s, "check")
  /\ UNCHANGED <<active, now, start, count, at, sent, inWindow>>

\* check_max_rate
CheckMaxRate(s) ==
  /\ pc[s] = "check"
  /\ LET elapsed == Minus(at[s], seen[s])
         needed == Saturating(count * Interval)
     IN  IF elapsed < needed
         THEN /\ wake' = [wake EXCEPT ![s] = now + (needed - elapsed)]
              /\ Goto(s, "sleep")
         ELSE UNCHANGED wake /\ Goto(s, "send")
  /\ UNCHANGED <<active, now, start, count, at, seen, sent, inWindow>>

\* The sleep is over, at the earliest when it should be; the scan loop does
\* not ask the limiter again.
WakeUp(s) ==
  /\ pc[s] = "sleep"
  /\ now >= wake[s]
  /\ Goto(s, "send")
  /\ UNCHANGED <<active, now, start, count, at, seen, wake, sent, inWindow>>

Send(s) ==
  /\ pc[s] = "send"
  /\ sent' = Append(sent, now)
  /\ inWindow' = inWindow + 1
  /\ Goto(s, "record")
  /\ UNCHANGED <<active, now, start, count, at, seen, wake>>

\* record_sent
RecordSent(s) ==
  /\ pc[s] = "record"
  /\ count' = count + 1
  /\ Goto(s, "idle")
  /\ UNCHANGED <<active, now, start, at, seen, wake, sent, inWindow>>

OneSender == Cardinality(active) = 1

\* Time passes; a sender may be slow at any point.
Tick ==
  /\ now < IF OneSender THEN MaxTime ELSE MaxSharedTime
  /\ now' = now + 1
  /\ UNCHANGED <<active, start, count, pc, at, seen, wake, sent, inWindow>>

Next ==
  \/ \E s \in active :
       \/ ReadClock(s) \/ LoadStart(s) \/ MoveWindow(s) \/ ClearCount(s)
       \/ Reload(s) \/ CheckMaxRate(s) \/ WakeUp(s) \/ Send(s) \/ RecordSent(s)
  \/ Tick

Spec == Init /\ [][Next]_vars
-----------------------------------------------------------------------------
\* Packets sent in the ticks from first to last.
SentIn(first, last) ==
  Cardinality({i \in DOMAIN sent : sent[i] \in first..last})

\* Packets that fit in a window: the interval between two is rounded down, so
\* this is the rate only where the rate divides the window.
PerWindow ==
  LET interval == IF MaxRate = 0 THEN Window ELSE Window \div MaxRate
  IN  (Window + interval - 1) \div interval

\* With one sender the count is exact whenever it is used: it is the number of
\* packets of the current window, none of them forgotten by a reset.
CountExact ==
  OneSender => \A s \in active : pc[s] \in {"idle", "check"} => count = inWindow

\* What the limiter guarantees one sender of any stretch of one window's
\* length: at most what fits in two windows and a packet, since an idle sender
\* may catch up at the end of one window and go on at the start of the next.  A
\* rate of more than a packet a tick leaves no interval and limits nothing.
TwiceTheRate ==
  OneSender /\ MaxRate <= Window =>
    \A t \in 0..MaxTime : t + Window - 1 <= now =>
      SentIn(t, t + Window - 1) <= 2 * PerWindow + 1

\* However many senders there are, windows do not overlap: of those that see the
\* same window end, one moves it, and by at least its own length.
WindowsDoNotOverlap == [][start' # start => start' >= start + Window]_vars
=============================================================================
