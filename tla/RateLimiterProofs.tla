------------------------- MODULE RateLimiterProofs -------------------------
(***************************************************************************)
(* What TLAPS proves of RateLimiter, for any number of senders, any window *)
(* and any rate: windows do not overlap, and each is reset by one sender;  *)
(* and with one sender the count is exact.                                 *)
(***************************************************************************)
EXTENDS RateLimiter, FiniteSetTheorems, WellFoundedInduction, TLAPS

USE DEF Goto

\* Two senders that see the same window end never both empty the count.
OneResetPerWindow ==
  \A s, r \in Senders :
    s # r /\ pc[s] = "clear" /\ pc[r] = "clear" => seen[s] # seen[r]

\* The types the argument needs.
Clocks ==
  /\ active \subseteq Senders
  /\ now \in Nat /\ start \in Nat
  /\ pc \in [Senders -> Steps]
  /\ at \in [Senders -> Nat] /\ seen \in [Senders -> Nat]

\* A sender that is about to move the window found it over when it read it,
\* and one that just moved it left it at least a window later.
Elapsed ==
  \A s \in Senders :
    /\ pc[s] = "cas" => seen[s] + Window <= at[s]
    /\ pc[s] = "clear" => seen[s] + Window <= start

ResetInv == Clocks /\ Elapsed /\ OneResetPerWindow

LEMMA InitReset == Init => ResetInv
BY RateAssumption DEF Init, ResetInv, Clocks, Elapsed, OneResetPerWindow, Steps

\* Moving the window moves it by at least its length.
LEMMA MoveIsLong ==
  ASSUME ResetInv, NEW s \in Senders, MoveWindow(s)
  PROVE  start' = start \/ start' >= start + Window
BY DEF MoveWindow, ResetInv, Clocks, Elapsed

LEMMA NextReset == ResetInv /\ [Next]_vars => ResetInv'
<1> SUFFICES ASSUME ResetInv, [Next]_vars PROVE ResetInv'
  OBVIOUS
<1> USE DEF ResetInv, Clocks, Steps
<1>1. ASSUME NEW s \in Senders, ReadClock(s) PROVE ResetInv'
  <2>1. Clocks'
    BY <1>1 DEF ReadClock
  <2>2. Elapsed' /\ OneResetPerWindow'
    BY <1>1 DEF ReadClock, Elapsed, OneResetPerWindow
  <2> QED BY <2>1, <2>2
<1>2. ASSUME NEW s \in Senders, LoadStart(s) PROVE ResetInv'
  <2>1. Clocks'
    BY <1>2 DEF LoadStart
  <2>2. Elapsed'
    BY <1>2, RateAssumption DEF LoadStart, Elapsed, Minus
  <2>3. OneResetPerWindow'
    BY <1>2 DEF LoadStart, OneResetPerWindow
  <2> QED BY <2>1, <2>2, <2>3
<1>3. ASSUME NEW s \in Senders, MoveWindow(s) PROVE ResetInv'
  <2>1. CASE start = seen[s]
    <3>1. /\ start' = at[s] /\ pc' = [pc EXCEPT ![s] = "clear"]
          /\ pc[s] = "cas" /\ UNCHANGED <<active, now, at, seen>>
      BY <1>3, <2>1 DEF MoveWindow
    <3>2. Clocks'
      BY <3>1
    <3>3. start + Window <= start'
      BY <2>1, <3>1 DEF Elapsed
    <3>4. Elapsed'
      BY <2>1, <3>1, <3>3, RateAssumption DEF Elapsed
    <3>5. \A r \in Senders : pc[r] = "clear" => seen[r] < seen[s]
      BY <2>1, RateAssumption DEF Elapsed
    <3>6. OneResetPerWindow'
      BY <3>1, <3>5 DEF OneResetPerWindow
    <3> QED BY <3>2, <3>4, <3>6
  <2>2. CASE start # seen[s]
    <3>1. UNCHANGED <<active, now, start, at, seen>> /\ pc' = [pc EXCEPT ![s] = "reload"]
      BY <1>3, <2>2 DEF MoveWindow
    <3> QED BY <3>1 DEF Elapsed, OneResetPerWindow
  <2> QED BY <2>1, <2>2
<1>4. ASSUME NEW s \in Senders, Reload(s) PROVE ResetInv'
  <2>1. /\ pc[s] = "reload" /\ UNCHANGED <<active, now, start, at>>
        /\ seen' = [seen EXCEPT ![s] = start]
        /\ \/ pc' = [pc EXCEPT ![s] = "sleep"]
           \/ pc' = [pc EXCEPT ![s] = "check"]
    BY <1>4 DEF Reload
  <2> QED BY <2>1 DEF Elapsed, OneResetPerWindow
<1>5. ASSUME NEW s \in Senders, CheckMaxRate(s) PROVE ResetInv'
  <2>1. /\ UNCHANGED <<active, now, start, at, seen>>
        /\ \/ pc' = [pc EXCEPT ![s] = "sleep"]
           \/ pc' = [pc EXCEPT ![s] = "send"]
    BY <1>5 DEF CheckMaxRate
  <2> QED BY <2>1 DEF Elapsed, OneResetPerWindow
<1>6. ASSUME NEW s \in Senders,
             ClearCount(s) \/ WakeUp(s) \/ Send(s) \/ RecordSent(s)
      PROVE  ResetInv'
  <2>1. /\ UNCHANGED <<active, now, start, at, seen>>
        /\ \E step \in Steps \ {"cas", "clear"} : pc' = [pc EXCEPT ![s] = step]
    BY <1>6 DEF ClearCount, WakeUp, Send, RecordSent
  <2> QED BY <2>1 DEF Elapsed, OneResetPerWindow
<1>7. CASE Tick
  BY <1>7 DEF Tick, Elapsed, OneResetPerWindow
<1>8. CASE UNCHANGED vars
  BY <1>8 DEF vars, Elapsed, OneResetPerWindow
<1> QED BY <1>1, <1>2, <1>3, <1>4, <1>5, <1>6, <1>7, <1>8 DEF Next

\* Two senders that see the same window end never both empty the count.
THEOREM ResetOnce == Spec => []OneResetPerWindow
<1>1. Init => ResetInv
  BY InitReset
<1>2. ResetInv /\ [Next]_vars => ResetInv'
  BY NextReset
<1>3. ResetInv => OneResetPerWindow
  BY DEF ResetInv
<1> QED BY <1>1, <1>2, <1>3, PTL DEF Spec

\* However the senders race, a window lasts at least its length.
THEOREM WindowsApart == Spec => WindowsDoNotOverlap
<1>1. Init => ResetInv
  BY InitReset
<1>2. ResetInv /\ [Next]_vars => ResetInv'
  BY NextReset
<1>3. ResetInv /\ [Next]_vars => [start' # start => start' >= start + Window]_vars
  <2> SUFFICES ASSUME ResetInv, Next, start' # start
               PROVE  start' >= start + Window
    BY DEF vars
  <2>1. PICK s \in Senders : MoveWindow(s)
    BY DEF Next, Tick, ReadClock, LoadStart, ClearCount, Reload, CheckMaxRate,
           WakeUp, Send, RecordSent, ResetInv, Clocks
  <2> QED BY <2>1, MoveIsLong
<1> QED BY <1>1, <1>2, <1>3, PTL DEF Spec, WindowsDoNotOverlap
-----------------------------------------------------------------------------
\* Where the one sender is, and what its count is worth there: between moving
\* the window and emptying the count, and between sending and recording, the
\* count is not the number of packets of the window.
Exact(a) ==
  CASE pc[a] = "clear"  -> inWindow = 0
    [] pc[a] = "record" -> inWindow = count + 1
    [] OTHER            -> inWindow = count

CountInv ==
  /\ active \subseteq Senders
  /\ pc \in [Senders -> Steps]
  /\ count \in Nat /\ inWindow \in Nat
  /\ \A a \in Senders : active = {a} => Exact(a)

LEMMA InitCount == Init => CountInv
BY DEF Init, CountInv, Exact, Steps

\* One lemma for all steps that leave the count and the window alone and do not
\* leave "clear" or "record".
LEMMA QuietStep ==
  ASSUME CountInv, NEW s \in active, UNCHANGED <<active, count, inWindow>>,
         pc[s] \notin {"clear", "record"},
         NEW step \in Steps \ {"clear", "record"}, Goto(s, step)
  PROVE  CountInv'
<1>1. s \in Senders /\ pc' = [pc EXCEPT ![s] = step] /\ pc' \in [Senders -> Steps]
  BY DEF CountInv
<1>2. ASSUME NEW a \in Senders, active = {a} PROVE Exact(a)'
  <2>1. a = s
    BY <1>2
  <2> QED BY <1>1, <1>2, <2>1 DEF CountInv, Exact
<1> QED BY <1>1, <1>2 DEF CountInv

LEMMA NextCount == CountInv /\ [Next]_vars => CountInv'
<1> SUFFICES ASSUME CountInv, [Next]_vars PROVE CountInv'
  OBVIOUS
<1>1. ASSUME NEW s \in active,
             ReadClock(s) \/ LoadStart(s) \/ Reload(s) \/ CheckMaxRate(s)
             \/ WakeUp(s)
      PROVE  CountInv'
  <2>1. UNCHANGED <<active, count, inWindow>>
    BY <1>1 DEF ReadClock, LoadStart, Reload, CheckMaxRate, WakeUp
  <2>2. pc[s] \notin {"clear", "record"}
    BY <1>1 DEF ReadClock, LoadStart, Reload, CheckMaxRate, WakeUp
  <2>3. \E step \in Steps \ {"clear", "record"} : Goto(s, step)
    BY <1>1 DEF ReadClock, LoadStart, Reload, CheckMaxRate, WakeUp, Steps
  <2> QED BY <2>1, <2>2, <2>3, QuietStep
<1>2. ASSUME NEW s \in active, MoveWindow(s) PROVE CountInv'
  <2>1. CASE start = seen[s]
    <3>1. inWindow' = 0 /\ pc' = [pc EXCEPT ![s] = "clear"]
          /\ UNCHANGED <<active, count>>
      BY <1>2, <2>1 DEF MoveWindow
    <3> QED BY <3>1 DEF CountInv, Exact, Steps
  <2>2. CASE start # seen[s]
    <3>1. /\ UNCHANGED <<active, count, inWindow>>
          /\ pc[s] \notin {"clear", "record"} /\ Goto(s, "reload")
      BY <1>2, <2>2 DEF MoveWindow
    <3> QED BY <3>1, QuietStep DEF Steps
  <2> QED BY <2>1, <2>2
<1>3. ASSUME NEW s \in active, ClearCount(s) PROVE CountInv'
  <2>1. /\ pc[s] = "clear" /\ pc' = [pc EXCEPT ![s] = "send"]
        /\ count' = 0 /\ UNCHANGED <<active, inWindow>>
    BY <1>3 DEF ClearCount
  <2> QED BY <2>1 DEF CountInv, Exact, Steps
<1>4. ASSUME NEW s \in active, Send(s) PROVE CountInv'
  <2>1. /\ pc[s] = "send" /\ pc' = [pc EXCEPT ![s] = "record"]
        /\ inWindow' = inWindow + 1 /\ UNCHANGED <<active, count>>
    BY <1>4 DEF Send
  <2> QED BY <2>1 DEF CountInv, Exact, Steps
<1>5. ASSUME NEW s \in active, RecordSent(s) PROVE CountInv'
  <2>1. /\ pc[s] = "record" /\ pc' = [pc EXCEPT ![s] = "idle"]
        /\ count' = count + 1 /\ UNCHANGED <<active, inWindow>>
    BY <1>5 DEF RecordSent
  <2> QED BY <2>1 DEF CountInv, Exact, Steps
<1>6. CASE Tick
  BY <1>6 DEF Tick, CountInv, Exact
<1>7. CASE UNCHANGED vars
  BY <1>7 DEF vars, CountInv, Exact
<1> QED BY <1>1, <1>2, <1>3, <1>4, <1>5, <1>6, <1>7 DEF Next

\* A limiter that one task uses counts every packet of its window, at any rate.
THEOREM CountIsExact == Spec => []CountExact
<1>1. Init => CountInv
  BY InitCount
<1>2. CountInv /\ [Next]_vars => CountInv'
  BY NextCount
<1>3. CountInv => CountExact
  <2> SUFFICES ASSUME CountInv, OneSender, NEW s \in active,
                      pc[s] \in {"idle", "check"}
               PROVE  count = inWindow
    BY DEF CountExact
  <2>1. IsFiniteSet(active)
    BY RateAssumption, FS_Subset DEF CountInv
  <2>2. active = {s}
    BY <2>1, FS_Singleton DEF OneSender
  <2>3. Exact(s) /\ pc[s] \notin {"clear", "record"}
    BY <2>2 DEF CountInv
  <2> QED BY <2>3 DEF Exact
<1> QED BY <1>1, <1>2, <1>3, PTL DEF Spec
-----------------------------------------------------------------------------
LEMMA InitTypes == Init => TypeOK
BY RateAssumption DEF Init, TypeOK, Steps

\* The interval between packets is a number of ticks, for a rate of 0 as well.
LEMMA IntervalType == Interval \in Nat
<1>1. CASE MaxRate = 0
  BY <1>1, RateAssumption DEF Interval
<1>2. CASE MaxRate # 0
  <2>1. MaxRate \in Nat \ {0} /\ Window \in Nat
    BY <1>2, RateAssumption
  <2>2. Window \div MaxRate \in Nat
    BY <2>1
  <2> QED BY <1>2, <2>2 DEF Interval
<1> QED BY <1>1, <1>2

LEMMA NextTypes == TypeOK /\ [Next]_vars => TypeOK'
<1> SUFFICES ASSUME TypeOK, [Next]_vars PROVE TypeOK'
  OBVIOUS
<1> USE RateAssumption DEF TypeOK, Steps
<1>1. ASSUME NEW s \in Senders,
             ReadClock(s) \/ LoadStart(s) \/ ClearCount(s) \/ WakeUp(s)
             \/ RecordSent(s)
      PROVE  TypeOK'
  <2>1. /\ at' \in [Senders -> 0..MaxTime] /\ seen' \in [Senders -> 0..MaxTime]
        /\ UNCHANGED <<active, now, start, wake, sent, inWindow>>
    BY <1>1 DEF ReadClock, LoadStart, ClearCount, WakeUp, RecordSent
  <2>2. count' \in Nat
    BY <1>1 DEF ReadClock, LoadStart, ClearCount, WakeUp, RecordSent
  <2>3. \E step \in Steps : pc' = [pc EXCEPT ![s] = step]
    BY <1>1 DEF ReadClock, LoadStart, ClearCount, WakeUp, RecordSent
  <2> QED BY <2>1, <2>2, <2>3
<1>2. ASSUME NEW s \in Senders, MoveWindow(s) PROVE TypeOK'
  <2>1. /\ start' \in 0..MaxTime /\ inWindow' \in Nat
        /\ UNCHANGED <<active, now, count, at, seen, wake, sent>>
        /\ \E step \in Steps : pc' = [pc EXCEPT ![s] = step]
    BY <1>2 DEF MoveWindow
  <2> QED BY <2>1
<1>3. ASSUME NEW s \in Senders, Reload(s) PROVE TypeOK'
  <2>1. /\ seen' \in [Senders -> 0..MaxTime]
        /\ UNCHANGED <<active, now, start, count, at, sent, inWindow>>
    BY <1>3 DEF Reload
  <2>2. wake' \in [Senders -> Nat]
    <3>1. wake' = wake \/ wake' = [wake EXCEPT ![s] = now]
      BY <1>3 DEF Reload
    <3>2. now \in Nat
      BY RateAssumption
    <3> HIDE RateAssumption
    <3> QED BY <3>1, <3>2
  <2>3. \E step \in Steps : pc' = [pc EXCEPT ![s] = step]
    BY <1>3 DEF Reload
  <2> QED BY <2>1, <2>2, <2>3
<1>4. ASSUME NEW s \in Senders, CheckMaxRate(s) PROVE TypeOK'
  <2> DEFINE elapsed == Minus(at[s], seen[s])
             needed == Saturating(count * Interval)
  <2>1. elapsed \in Nat
    BY DEF Minus
  <2>2. needed \in Nat
    <3>1. count * Interval \in Nat
      BY IntervalType
    <3> QED BY <3>1 DEF Saturating
  <2>3. elapsed < needed => now + (needed - elapsed) \in Nat
    <3> HIDE DEF elapsed, needed
    <3> QED BY <2>1, <2>2
  <2>4. /\ \/ elapsed < needed
              /\ wake' = [wake EXCEPT ![s] = now + (needed - elapsed)]
           \/ wake' = wake
        /\ UNCHANGED <<active, now, start, count, at, seen, sent, inWindow>>
        /\ \E step \in Steps : pc' = [pc EXCEPT ![s] = step]
    BY <1>4 DEF CheckMaxRate
  <2>5. wake' \in [Senders -> Nat]
    <3> HIDE DEF elapsed, needed
    <3> QED BY <2>3, <2>4
  <2> QED BY <2>4, <2>5
<1>5. ASSUME NEW s \in Senders, Send(s) PROVE TypeOK'
  <2>1. /\ sent' \in Seq(0..MaxTime) /\ inWindow' \in Nat
        /\ UNCHANGED <<active, now, start, count, at, seen, wake>>
        /\ pc' = [pc EXCEPT ![s] = "record"]
    BY <1>5 DEF Send
  <2> QED BY <2>1
<1>6. CASE Tick
  BY <1>6 DEF Tick
<1>7. CASE UNCHANGED vars
  BY <1>7 DEF vars
<1> QED BY <1>1, <1>2, <1>3, <1>4, <1>5, <1>6, <1>7 DEF Next

\* Every sender's step keeps the types, however slow it is.
THEOREM TypeCorrect == Spec => []TypeOK
<1>1. Init => TypeOK
  BY InitTypes
<1>2. TypeOK /\ [Next]_vars => TypeOK'
  BY NextTypes
<1> QED BY <1>1, <1>2, PTL DEF Spec
-----------------------------------------------------------------------------
\* When the n-th packet after the first of a window is due.
Due(n) == n * Interval

LEMMA CeilCovers ==
  ASSUME NEW w \in Nat \ {0}, NEW i \in Nat \ {0}
  PROVE  LET k == (w + i - 1) \div i IN k \in Nat \ {0} /\ k * i >= w
<1> DEFINE n == w + i - 1
           k == n \div i
<1>1. n \in Nat /\ n = w + i - 1 /\ n >= i
  OBVIOUS
<1>2. k \in Nat /\ n % i \in 0..(i - 1) /\ n = (i * k) + (n % i)
  <2> HIDE DEF n
  <2> QED BY <1>1
<1>3. i * k >= w
  <2> HIDE DEF n, k
  <2> DEFINE m == i * k
             r == n % i
  <2>1. m \in Int /\ r \in 0..(i - 1) /\ n = m + r
    BY <1>2
  <2> HIDE DEF m, r
  <2>2. m >= w
    BY <2>1, <1>1
  <2> QED BY <2>2 DEF m
<1>4. k # 0
  <2> HIDE DEF n, k
  <2> SUFFICES ASSUME k = 0 PROVE FALSE
    OBVIOUS
  <2>1. i * k = 0
    OBVIOUS
  <2> QED BY <2>1, <1>3
<1>5. i * k = k * i
  <2> HIDE DEF n, k
  <2> QED BY <1>2
<1> QED BY <1>2, <1>3, <1>4, <1>5

LEMMA Fits ==
  ASSUME NEW c \in Nat, NEW k \in Nat, NEW i \in Nat, NEW w \in Nat,
         c >= 1, (c - 1) * i < w, w <= k * i
  PROVE  c <= k
<1> SUFFICES ASSUME c - 1 >= k PROVE FALSE
  OBVIOUS
<1>1. PICK d \in Nat : c - 1 = k + d
  BY c - 1 - k \in Nat
<1>2. (k + d) * i = k * i + d * i
  OBVIOUS
<1>3. k * i \in Nat /\ d * i \in Nat
  OBVIOUS
<1> QED BY <1>1, <1>2, <1>3

\* No packet of a window but its last is due after the window, and PerWindow of
\* them fill it, although the interval is rounded down.
LEMMA DueInWindow ==
  ASSUME MaxRate <= Window
  PROVE  /\ PerWindow \in Nat \ {0}
         /\ Due(0) = 0
         /\ \A n \in Nat : Due(n) \in Nat
         /\ Due(PerWindow) >= Window
         /\ \A n \in Nat : n >= 1 /\ Due(n - 1) < Window => n <= PerWindow
<1> USE RateAssumption
<1> DEFINE interval == IF MaxRate = 0 THEN Window ELSE Window \div MaxRate
<1>1. interval \in Nat \ {0}
  <2>1. CASE MaxRate = 0
    BY <2>1
  <2>2. CASE MaxRate # 0
    <3>1. MaxRate \in Nat \ {0} /\ Window \in Nat /\ MaxRate <= Window
      BY <2>2
    <3>2. Window \div MaxRate \in Nat /\ Window \div MaxRate >= 1
      BY <3>1
    <3> QED BY <2>2, <3>2
  <2> QED BY <2>1, <2>2
<1>2. PerWindow \in Nat \ {0} /\ PerWindow * interval >= Window
  <2> HIDE DEF interval
  <2>1. PerWindow = (Window + interval - 1) \div interval
    BY DEF PerWindow, interval
  <2> QED BY <1>1, <2>1, CeilCovers
<1>3. Interval \in Nat /\ Interval >= interval
  BY IntervalType DEF Interval
<1> HIDE DEF interval
<1>4. PerWindow * Interval >= Window
  <2>1. PICK d \in Nat : Interval = interval + d
    BY <1>1, <1>3, Interval - interval \in Nat
  <2>2. PerWindow * (interval + d) = PerWindow * interval + PerWindow * d
    BY <1>1, <1>2
  <2>3. PerWindow * d \in Nat /\ PerWindow * interval \in Nat
    BY <1>1, <1>2
  <2> QED BY <1>2, <2>1, <2>2, <2>3
<1>5. ASSUME NEW n \in Nat, n >= 1, Due(n - 1) < Window PROVE n <= PerWindow
  BY <1>2, <1>3, <1>4, <1>5, Fits DEF Due
<1>6. Due(0) = 0
  BY <1>3 DEF Due
<1>7. \A n \in Nat : Due(n) \in Nat
  BY <1>3 DEF Due
<1> QED BY <1>2, <1>4, <1>5, <1>6, <1>7 DEF Due

\* Of 2 * PerWindow + 2 packets the last is a window later than the first.
Spread ==
  \A i, j \in 1..Len(sent) :
    i + 2 * PerWindow + 1 <= j => sent[i] + Window <= sent[j]

\* How the one sender paces its packets: those of the windows before were sent
\* before this one, and all but the last PerWindow + 1 of them even a window
\* before it began; and it sends a window's packets when they are due.
Pace(a) ==
  /\ start <= at[a] /\ at[a] <= now
  /\ inWindow <= Len(sent) /\ inWindow <= PerWindow + 1
  /\ inWindow >= 1 => sent[Len(sent)] >= start + Due(inWindow - 1)
  /\ \A i \in 1..Len(sent) :
       /\ sent[i] <= now
       /\ pc[a] \in {"load", "cas", "check"} => sent[i] <= at[a]
       /\ i <= Len(sent) - inWindow => sent[i] <= start
       /\ i + PerWindow + 1 <= Len(sent) - inWindow => sent[i] + Window <= start
  /\ pc[a] # "reload"
  /\ pc[a] \in {"cas", "check"} => seen[a] = start
  /\ pc[a] = "cas" => at[a] >= start + Window
  /\ pc[a] = "check" => at[a] < start + Window
  /\ pc[a] = "sleep" =>
       inWindow <= PerWindow /\ wake[a] >= start + Saturating(Due(inWindow))
  /\ pc[a] = "send" => inWindow <= PerWindow /\ now >= start + Due(inWindow)

PaceInv ==
  /\ TypeOK /\ CountInv
  /\ MaxRate <= Window =>
       \A a \in Senders : active = {a} => Pace(a) /\ Spread

LEMMA InitPace == Init => PaceInv
<1> SUFFICES ASSUME Init PROVE PaceInv
  OBVIOUS
<1>1. TypeOK /\ CountInv
  BY InitTypes, InitCount
<1>2. ASSUME MaxRate <= Window, NEW a \in Senders PROVE Pace(a) /\ Spread
  <2>1. PerWindow \in Nat \ {0}
    BY <1>2, DueInWindow
  <2> QED BY <2>1 DEF Init, Pace, Spread
<1> QED BY <1>1, <1>2 DEF PaceInv

LEMMA NextPace == PaceInv /\ [Next]_vars => PaceInv'
<1> SUFFICES ASSUME PaceInv, [Next]_vars PROVE PaceInv'
  OBVIOUS
<1>1. TypeOK' /\ CountInv' /\ TypeOK /\ CountInv
  BY NextTypes, NextCount DEF PaceInv
<1>2. UNCHANGED active
  BY DEF Next, vars, ReadClock, LoadStart, MoveWindow, ClearCount, Reload,
         CheckMaxRate, WakeUp, Send, RecordSent, Tick
<1> SUFFICES ASSUME MaxRate <= Window, NEW a \in Senders, active = {a}
             PROVE  Pace(a)' /\ Spread'
  BY <1>1, <1>2 DEF PaceInv
<1>3. Pace(a) /\ Spread /\ Exact(a)
  BY <1>1 DEF PaceInv, CountInv
<1>4. /\ PerWindow \in Nat \ {0} /\ Due(0) = 0
      /\ \A n \in Nat : Due(n) \in Nat
      /\ Due(PerWindow) >= Window
      /\ \A n \in Nat : n >= 1 /\ Due(n - 1) < Window => n <= PerWindow
  BY DueInWindow
<1>5. /\ now \in Nat /\ now <= MaxTime /\ start \in Nat /\ count \in Nat
      /\ inWindow \in Nat /\ at[a] \in Nat /\ seen[a] \in Nat /\ wake[a] \in Nat
      /\ at \in [Senders -> Nat] /\ seen \in [Senders -> Nat]
      /\ wake \in [Senders -> Nat] /\ pc \in [Senders -> Steps]
      /\ sent \in Seq(Nat) /\ Len(sent) \in Nat
      /\ \A i \in 1..Len(sent) : sent[i] \in Nat
  <2>1. 0..MaxTime \subseteq Nat /\ sent \in Seq(0..MaxTime) /\ sent \in Seq(Nat)
    BY <1>1, RateAssumption DEF TypeOK
  <2>2. /\ at \in [Senders -> 0..MaxTime] /\ seen \in [Senders -> 0..MaxTime]
        /\ wake \in [Senders -> Nat] /\ pc \in [Senders -> Steps]
        /\ now \in 0..MaxTime /\ start \in 0..MaxTime /\ count \in Nat
        /\ inWindow \in Nat
    BY <1>1 DEF TypeOK
  <2>3. at \in [Senders -> Nat] /\ seen \in [Senders -> Nat]
    BY <2>1, <2>2
  <2>4. at[a] \in Nat /\ seen[a] \in Nat /\ wake[a] \in Nat
    BY <2>2, <2>3
  <2>5. now \in Nat /\ now <= MaxTime /\ start \in Nat
    BY <2>1, <2>2, RateAssumption
  <2>6. Len(sent) \in Nat /\ \A i \in 1..Len(sent) : sent[i] \in Nat
    BY <2>1
  <2> QED BY <2>1, <2>2, <2>3, <2>4, <2>5, <2>6
<1>6. /\ Window \in Nat \ {0} /\ MaxTime \in Nat /\ Forever \in Nat
      /\ Forever > MaxTime
  BY RateAssumption
<1> DEFINE N == Len(sent)
\* While the sender waits, or looks, the packets stay as they are.
<1>7. ASSUME ReadClock(a) PROVE Pace(a)' /\ Spread'
  <2>1. /\ at' = [at EXCEPT ![a] = now] /\ pc' = [pc EXCEPT ![a] = "load"]
        /\ UNCHANGED <<now, start, inWindow, sent, wake, seen>>
    BY <1>7 DEF ReadClock
  <2>2. at'[a] = now /\ pc'[a] = "load"
    BY <2>1, <1>5
  <2>3. \A i \in 1..Len(sent) : sent[i] <= at'[a]
    BY <2>2, <1>3 DEF Pace
  <2>4. at[a] <= now /\ start <= at'[a]
    BY <2>2, <1>3, <1>5 DEF Pace
  <2> QED BY <1>3, <1>5, <2>1, <2>2, <2>3, <2>4 DEF Pace, Spread
<1>8. ASSUME LoadStart(a) PROVE Pace(a)' /\ Spread'
  <2>1. /\ seen' = [seen EXCEPT ![a] = start] /\ pc[a] = "load"
        /\ pc' = [pc EXCEPT ![a] = IF at[a] - start >= Window
                                   THEN "cas" ELSE "check"]
        /\ UNCHANGED <<now, start, inWindow, sent, wake, at>>
    BY <1>8, <1>3, <1>5 DEF LoadStart, Minus, Pace
  <2>2. /\ seen'[a] = start
        /\ \/ pc'[a] = "cas" /\ at[a] >= start + Window
           \/ pc'[a] = "check" /\ at[a] < start + Window
    BY <2>1, <1>5, <1>6
  <2> QED BY <1>3, <1>4, <1>5, <2>1, <2>2 DEF Pace, Spread, Due
\* A new window: the packets of the last one are now before it, those of the
\* one before that a window before it.
<1>9. ASSUME MoveWindow(a) PROVE Pace(a)' /\ Spread'
  <2>1. /\ start' = at[a] /\ inWindow' = 0 /\ pc[a] = "cas"
        /\ pc' = [pc EXCEPT ![a] = "clear"]
        /\ UNCHANGED <<now, sent, wake, at, seen>>
    BY <1>9, <1>3 DEF MoveWindow, Pace
  <2>2. pc'[a] = "clear" /\ start + Window <= start'
    BY <2>1, <1>3, <1>5 DEF Pace
  <2>3. ASSUME NEW i \in 1..N
        PROVE  /\ sent[i] <= start'
               /\ i + PerWindow + 1 <= N => sent[i] + Window <= start'
    <3>1. sent[i] <= start'
      BY <2>1, <1>3 DEF Pace
    <3>2. ASSUME i + PerWindow + 1 <= N PROVE sent[i] + Window <= start'
      <4>1. i <= N - inWindow
        BY <3>2, <1>3, <1>4, <1>5 DEF Pace
      <4>2. sent[i] <= start
        BY <4>1, <1>3 DEF Pace
      <4> QED BY <4>2, <2>2, <2>1, <1>5, <1>6
    <3> QED BY <3>1, <3>2
  <2>4. Spread'
    BY <1>3, <2>1 DEF Spread, PerWindow
  <2>5. /\ inWindow' <= Len(sent') /\ inWindow' <= PerWindow + 1
        /\ ~(inWindow' >= 1) /\ start' <= at'[a] /\ at'[a] <= now'
    BY <1>3, <1>4, <1>5, <2>1 DEF Pace
  <2>6. \A i \in 1..Len(sent') :
          /\ sent'[i] <= now'
          /\ i <= Len(sent') - inWindow' => sent'[i] <= start'
          /\ i + PerWindow + 1 <= Len(sent') - inWindow' =>
               sent'[i] + Window <= start'
    <3>1. Len(sent') - inWindow' = N
      BY <2>1, <1>5
    <3> QED BY <3>1, <1>3, <2>1, <2>3 DEF Pace
  <2>7. Pace(a)'
    <3> HIDE DEF N
    <3> QED BY <2>1, <2>2, <2>5, <2>6 DEF Pace, PerWindow
  <2> QED BY <2>4, <2>7
<1>10. ASSUME ClearCount(a) PROVE Pace(a)' /\ Spread'
  <2>1. /\ pc[a] = "clear" /\ pc' = [pc EXCEPT ![a] = "send"]
        /\ UNCHANGED <<now, start, inWindow, sent, wake, at, seen>>
    BY <1>10 DEF ClearCount
  <2>2. pc'[a] = "send" /\ inWindow = 0
    <3>1. pc'[a] = "send"
      BY <2>1, <1>5
    <3>2. inWindow = 0
      BY <2>1, <1>3 DEF Exact
    <3> QED BY <3>1, <3>2
  <2>3. start <= now
    BY <1>3, <1>5 DEF Pace
  <2> QED BY <1>3, <1>4, <1>5, <2>1, <2>2, <2>3 DEF Pace, Spread
<1>11. ASSUME Reload(a) PROVE Pace(a)' /\ Spread'
  BY <1>11, <1>3 DEF Reload, Pace
\* The packet is due, or the sender sleeps until it is.
<1>12. ASSUME CheckMaxRate(a) PROVE Pace(a)' /\ Spread'
  <2> DEFINE needed == Saturating(Due(inWindow))
  <2>1. pc[a] = "check" /\ seen[a] = start /\ count = inWindow
    BY <1>12, <1>3 DEF CheckMaxRate, Pace, Exact
  <2>2. needed \in Nat
    BY <1>4, <1>5, <1>6 DEF Saturating
  <2>3. Minus(at[a], seen[a]) = at[a] - start
    BY <2>1, <1>3, <1>5 DEF Minus, Pace
  <2>4. /\ \/ /\ at[a] - start < needed
              /\ wake' = [wake EXCEPT ![a] = now + (needed - (at[a] - start))]
              /\ pc' = [pc EXCEPT ![a] = "sleep"]
           \/ /\ at[a] - start >= needed
              /\ wake' = wake
              /\ pc' = [pc EXCEPT ![a] = "send"]
        /\ UNCHANGED <<now, start, inWindow, sent, at, seen>>
    <3>1. count * Interval = Due(inWindow)
      BY <2>1 DEF Due
    <3>2. /\ IF at[a] - start < needed
             THEN /\ wake' = [wake EXCEPT ![a] = now + (needed - (at[a] - start))]
                  /\ pc' = [pc EXCEPT ![a] = "sleep"]
             ELSE wake' = wake /\ pc' = [pc EXCEPT ![a] = "send"]
          /\ UNCHANGED <<now, start, inWindow, sent, at, seen>>
      BY <1>12, <2>3, <3>1 DEF CheckMaxRate
    <3> HIDE DEF needed
    <3> QED BY <3>2, <2>2, <1>3, <1>5 DEF Pace
  <2>5. inWindow <= PerWindow
    <3>1. CASE inWindow = 0
      BY <3>1, <1>4
    <3>2. CASE inWindow >= 1
      <4>1. sent[N] >= start + Due(inWindow - 1) /\ N \in 1..N
        BY <3>2, <1>3, <1>5 DEF Pace
      <4>2. sent[N] <= at[a] /\ at[a] < start + Window
        BY <4>1, <2>1, <1>3 DEF Pace
      <4>3. inWindow - 1 \in Nat /\ Due(inWindow - 1) \in Nat /\ sent[N] \in Nat
        BY <3>2, <4>1, <1>4, <1>5
      <4>4. Due(inWindow - 1) < Window
        BY <4>1, <4>2, <4>3, <1>5, <1>6
      <4> QED BY <4>4, <3>2, <1>4, <1>5
    <3> QED BY <3>1, <3>2, <1>5
  <2>6. at[a] - start >= needed => now >= start + Due(inWindow)
    <3>1. Due(inWindow) \in Nat
      BY <1>4, <1>5
    <3>2. ASSUME at[a] - start >= needed PROVE needed # Forever
      BY <3>2, <1>3, <1>5, <1>6 DEF Pace
    <3> QED BY <3>1, <3>2, <1>3, <1>5, <1>6 DEF Saturating, Pace
  <2> HIDE DEF needed
  <2>7. CASE /\ wake' = [wake EXCEPT ![a] = now + (needed - (at[a] - start))]
             /\ pc' = [pc EXCEPT ![a] = "sleep"]
    <3>1. pc'[a] = "sleep" /\ wake'[a] = now + (needed - (at[a] - start))
      BY <2>7, <1>5
    <3>2. wake'[a] >= start + needed
      BY <3>1, <2>2, <1>3, <1>5 DEF Pace
    <3>3. needed = Saturating(Due(inWindow))
      BY DEF needed
    <3> QED BY <1>3, <1>4, <1>5, <2>4, <2>5, <3>1, <3>2, <3>3
            DEF Pace, Spread
  <2>8. CASE /\ at[a] - start >= needed
             /\ wake' = wake
             /\ pc' = [pc EXCEPT ![a] = "send"]
    <3>1. pc'[a] = "send" /\ now >= start + Due(inWindow)
      BY <2>6, <2>8, <1>5
    <3> QED BY <1>3, <1>4, <1>5, <2>4, <2>5, <3>1 DEF Pace, Spread
  <2> QED BY <2>4, <2>7, <2>8
<1>13. ASSUME WakeUp(a) PROVE Pace(a)' /\ Spread'
  <2>1. /\ pc[a] = "sleep" /\ now >= wake[a] /\ pc' = [pc EXCEPT ![a] = "send"]
        /\ UNCHANGED <<now, start, inWindow, sent, wake, at, seen>>
    BY <1>13 DEF WakeUp
  <2>2. pc'[a] = "send" /\ inWindow <= PerWindow
    BY <2>1, <1>3, <1>5 DEF Pace
  <2>3. now >= start + Saturating(Due(inWindow)) /\ Due(inWindow) \in Nat
    <3>1. wake[a] >= start + Saturating(Due(inWindow)) /\ Due(inWindow) \in Nat
      BY <2>1, <1>3, <1>4, <1>5 DEF Pace
    <3> QED BY <3>1, <2>1, <1>5, <1>6 DEF Saturating
  <2>4. now >= start + Due(inWindow)
    BY <2>3, <1>5, <1>6 DEF Saturating
  <2> QED BY <1>3, <1>4, <1>5, <2>1, <2>2, <2>4 DEF Pace, Spread
\* The packet sent now is the (inWindow + 1)-th of the window: if it is the last
\* but one that can be, a whole window has passed since the start; if not, the
\* packet 2 * PerWindow + 1 before it is of a window before the last.
<1>14. ASSUME Send(a) PROVE Pace(a)' /\ Spread'
  <2>1. /\ pc[a] = "send" /\ pc' = [pc EXCEPT ![a] = "record"]
        /\ sent' = Append(sent, now) /\ inWindow' = inWindow + 1
        /\ UNCHANGED <<now, start, wake, at, seen>>
    BY <1>14 DEF Send
  <2>2. /\ pc'[a] = "record" /\ inWindow <= PerWindow
        /\ now >= start + Due(inWindow) /\ Due(inWindow) \in Nat
    BY <2>1, <1>3, <1>4, <1>5 DEF Pace
  <2>3. /\ Len(sent') = N + 1 /\ sent'[N + 1] = now
        /\ \A i \in 1..N : sent'[i] = sent[i]
    BY <2>1, <1>5
  <2>4. ASSUME NEW i \in 1..N, i + 2 * PerWindow <= N
        PROVE  sent[i] + Window <= now
    <3>1. CASE inWindow = PerWindow
      <4>1. i <= N - inWindow
        BY <2>4, <3>1, <1>4, <1>5
      <4>2. sent[i] <= start
        BY <4>1, <1>3 DEF Pace
      <4>3. now >= start + Window
        BY <3>1, <2>2, <1>4, <1>5, <1>6
      <4> QED BY <4>2, <4>3, <1>5, <1>6
    <3>2. CASE inWindow < PerWindow
      <4>1. i + PerWindow + 1 <= N - inWindow
        BY <2>4, <3>2, <1>4, <1>5
      <4>2. sent[i] + Window <= start
        BY <4>1, <1>3 DEF Pace
      <4> QED BY <4>2, <1>3, <1>5, <1>6 DEF Pace
    <3> QED BY <3>1, <3>2, <2>2, <1>4, <1>5
  <2>5. Spread'
    <3> SUFFICES ASSUME NEW i \in 1..(N + 1), NEW j \in 1..(N + 1),
                        i + 2 * PerWindow + 1 <= j
                 PROVE  sent'[i] + Window <= sent'[j]
      BY <2>3 DEF Spread, PerWindow
    <3>1. i \in 1..N /\ sent'[i] = sent[i]
      <4>1. PerWindow \in Nat /\ N \in Nat
        BY <1>4, <1>5
      <4>2. i \in 1..N
        BY <4>1
      <4> QED BY <4>2, <2>3
    <3>2. CASE j = N + 1
      BY <3>1, <3>2, <2>3, <2>4, <1>4, <1>5
    <3>3. CASE j \in 1..N
      BY <3>1, <3>3, <2>3, <1>3 DEF Spread
    <3> QED BY <3>2, <3>3, <1>5
  <2>6. ASSUME NEW i \in 1..(N + 1)
        PROVE  /\ sent'[i] <= now
               /\ i <= N + 1 - (inWindow + 1) => sent'[i] <= start
               /\ i + PerWindow + 1 <= N + 1 - (inWindow + 1) =>
                    sent'[i] + Window <= start
    <3>1. CASE i = N + 1
      BY <3>1, <2>3, <1>4, <1>5
    <3>2. CASE i \in 1..N
      <4>1. N + 1 - (inWindow + 1) = N - inWindow
        BY <1>5
      <4> QED BY <4>1, <3>2, <2>3, <1>3 DEF Pace
    <3> QED BY <3>1, <3>2, <1>5
  <2>7. /\ inWindow + 1 <= Len(sent') /\ inWindow + 1 <= PerWindow + 1
        /\ sent'[Len(sent')] >= start + Due(inWindow + 1 - 1)
    <3>1. inWindow + 1 - 1 = inWindow
      BY <1>5
    <3> QED BY <3>1, <2>2, <2>3, <1>3, <1>4, <1>5 DEF Pace
  <2> QED BY <2>1, <2>2, <2>3, <2>5, <2>6, <2>7, <1>3, <1>5
          DEF Pace, PerWindow, Due, Interval
<1>15. ASSUME RecordSent(a) PROVE Pace(a)' /\ Spread'
  <2>1. /\ pc' = [pc EXCEPT ![a] = "idle"]
        /\ UNCHANGED <<now, start, inWindow, sent, wake, at, seen>>
    BY <1>15 DEF RecordSent
  <2>2. pc'[a] = "idle"
    BY <2>1, <1>5
  <2> QED BY <1>3, <1>4, <1>5, <2>1, <2>2 DEF Pace, Spread
<1>16. CASE Tick
  <2>1. now' = now + 1 /\ UNCHANGED <<start, inWindow, sent, wake, at, seen, pc>>
    BY <1>16 DEF Tick
  <2>2. \A n \in Nat : n <= now => n <= now'
    BY <2>1, <1>5
  <2>3. \A i \in 1..Len(sent) : sent[i] <= now'
    BY <2>2, <1>3, <1>5 DEF Pace
  <2>4. at[a] <= now' /\ (pc[a] = "send" => now' >= start + Due(inWindow))
    <3>1. at[a] <= now /\ (pc[a] = "send" => now >= start + Due(inWindow))
      BY <1>3 DEF Pace
    <3>2. Due(inWindow) \in Nat
      BY <1>4, <1>5
    <3> QED BY <3>1, <3>2, <2>1, <1>5
  <2> QED BY <1>3, <2>1, <2>3, <2>4 DEF Pace, Spread
<1>17. CASE UNCHANGED vars
  BY <1>3, <1>17 DEF vars, Pace, Spread
<1> QED BY <1>7, <1>8, <1>9, <1>10, <1>11, <1>12, <1>13, <1>14, <1>15, <1>16,
           <1>17 DEF Next

\* A set of numbers no two of which are more than n apart has at most n + 1.
LEMMA NearTogether ==
  ASSUME NEW D \in SUBSET Nat, NEW n \in Nat,
         \A i, j \in D : j <= i + n
  PROVE  IsFiniteSet(D) /\ Cardinality(D) <= n + 1
<1>1. CASE D = {}
  BY <1>1, FS_EmptySet
<1>2. CASE D # {}
  <2> DEFINE smaller == {ss \in Nat \X Nat : ss[1] < ss[2]}
  <2>0. IsWellFoundedOn(smaller, Nat)
    BY NatLessThanWellFounded DEF OpToRel
  <2>1. PICK m \in D : \A i \in D : <<i, m>> \notin smaller
    <3> HIDE DEF smaller
    <3> QED BY <1>2, <2>0, WFMin
  <2>2. ASSUME NEW i \in D PROVE m <= i
    <3>1. i \in Nat /\ m \in Nat
      OBVIOUS
    <3>2. i < m => <<i, m>> \in smaller
      BY <3>1
    <3> QED BY <3>1, <3>2, <2>1
  <2>3. D \subseteq m..(m + n)
    BY <2>2
  <2>4. IsFiniteSet(m..(m + n)) /\ Cardinality(m..(m + n)) = n + 1
    BY FS_Interval
  <2>5. Cardinality(D) \in Nat /\ Cardinality(D) <= Cardinality(m..(m + n))
    BY <2>3, <2>4, FS_Subset, FS_CardinalityType
  <2> QED BY <2>3, <2>4, <2>5, FS_Subset
<1> QED BY <1>1, <1>2

\* No stretch of a window's length, wherever it begins, sees more packets than
\* two windows and one more, at any rate of at most a packet a tick.
THEOREM NoBurst == Spec => []TwiceTheRate
<1>1. Init => PaceInv
  BY InitPace
<1>2. PaceInv /\ [Next]_vars => PaceInv'
  BY NextPace
<1>3. PaceInv => TwiceTheRate
  <2> SUFFICES ASSUME PaceInv, OneSender, MaxRate <= Window, NEW t \in 0..MaxTime
               PROVE  SentIn(t, t + Window - 1) <= 2 * PerWindow + 1
    BY DEF TwiceTheRate
  <2>1. PICK a \in Senders : active = {a}
    <3>1. active \subseteq Senders /\ IsFiniteSet(active)
      BY RateAssumption, FS_Subset DEF PaceInv, CountInv
    <3>2. PICK a : active = {a}
      BY <3>1, FS_Singleton DEF OneSender
    <3> QED BY <3>1, <3>2
  <2>2. Spread
    BY <2>1 DEF PaceInv
  <2>3. PerWindow \in Nat
    BY DueInWindow
  <2>4. /\ Len(sent) \in Nat /\ DOMAIN sent = 1..Len(sent)
        /\ \A i \in 1..Len(sent) : sent[i] \in Nat
    <3>1. sent \in Seq(0..MaxTime)
      BY DEF PaceInv, TypeOK
    <3> QED BY <3>1, RateAssumption
  <2> DEFINE D == {i \in DOMAIN sent : sent[i] \in t..(t + Window - 1)}
  <2>5. D \in SUBSET Nat
    BY <2>4
  <2>6. \A i, j \in D : j <= i + 2 * PerWindow
    <3> SUFFICES ASSUME NEW i \in D, NEW j \in D, i + 2 * PerWindow + 1 <= j
                 PROVE  FALSE
      BY <2>3, <2>5
    <3>1. i \in 1..Len(sent) /\ j \in 1..Len(sent)
      BY <2>4
    <3>2. sent[i] + Window <= sent[j]
      BY <3>1, <2>2 DEF Spread
    <3>3. sent[i] >= t /\ sent[j] <= t + Window - 1
      OBVIOUS
    <3>4. sent[i] \in Nat /\ sent[j] \in Nat /\ Window \in Nat /\ t \in Nat
      BY <3>1, <2>4, RateAssumption
    <3> HIDE DEF D
    <3> QED BY <3>2, <3>3, <3>4
  <2>7. Cardinality(D) <= 2 * PerWindow + 1
    <3> HIDE DEF D
    <3>1. 2 * PerWindow \in Nat
      BY <2>3
    <3> QED BY <2>5, <2>6, <3>1, NearTogether
  <2> QED BY <2>7 DEF SentIn
<1> QED BY <1>1, <1>2, <1>3, PTL DEF Spec

=============================================================================
