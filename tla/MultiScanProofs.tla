-------------------------- MODULE MultiScanProofs --------------------------
(***************************************************************************)
(* What TLAPS proves of MultiScan, for any hosts, ports, limits and number *)
(* of retries.                                                             *)
(*                                                                         *)
(* Every step of this loop but the check for timeouts is a step of         *)
(* TcpScan's loop over the pairs of a host and a port, so what             *)
(* TcpScanProofs proves of a step is used here (Proved!NextType, ...); the *)
(* check is taken by itself.                                               *)
(***************************************************************************)
EXTENDS MultiScan, FiniteSetTheorems, TLAPS

Proved == INSTANCE TcpScanProofs WITH
  Ports <- Keys,
  MaxParallelism <- ParallelCap,
  BatchSize <- BatchCap,
  capturing <- captured # {}
-----------------------------------------------------------------------------
(* The constants. *)

\* The list of targets and the list of ports repeat nothing.
LEMMA Distinct ==
  /\ \A i, j \in DOMAIN Targets : Targets[i] = Targets[j] => i = j
  /\ \A m, n \in DOMAIN PortList : PortList[m] = PortList[n] => m = n
  /\ IsFiniteSet(Hosts) /\ IsFiniteSet(Numbers)
<1>1. ASSUME NEW S, NEW s \in Seq(S), S = {s[i] : i \in DOMAIN s}, Cardinality(S) = Len(s)
      PROVE  IsFiniteSet(S) /\ \A i, j \in DOMAIN s : s[i] = s[j] => i = j
  <2>1. Len(s) \in Nat /\ DOMAIN s = 1 .. Len(s) /\ s \in [1 .. Len(s) -> S]
    OBVIOUS
  <2>2. s \in Surjection(1 .. Len(s), S)
    BY <1>1, <2>1 DEF Surjection
  <2>3. IsFiniteSet(1 .. Len(s)) /\ Cardinality(1 .. Len(s)) = Len(s)
    BY <2>1, FS_Interval
  <2>4. IsFiniteSet(S)
    BY <2>2, <2>3, FS_Surjection
  <2>5. s \in Injection(1 .. Len(s), S)
    BY <1>1, <2>2, <2>3, FS_SurjSameCardinalityImpliesInj
  <2> QED BY <2>1, <2>4, <2>5 DEF Injection, IsInjective
<1>2. IsFiniteSet(Hosts) /\ \A i, j \in DOMAIN Targets : Targets[i] = Targets[j] => i = j
  BY <1>1, MultiAssumption DEF Hosts
<1>3. IsFiniteSet(Numbers) /\ \A m, n \in DOMAIN PortList : PortList[m] = PortList[n] => m = n
  BY <1>1, MultiAssumption DEF Numbers
<1> QED BY <1>2, <1>3

\* The limits of the loop are those TcpScan asks for, cut to the total cap.
LEMMA Limits ==
  /\ IsFiniteSet(Keys)
  /\ ParallelCap \in Nat \ {0} /\ ParallelCap <= TotalCap
  /\ BatchCap \in Nat \ {0}
  /\ TotalCap \in Nat \ {0} /\ MaxRetries \in Nat
<1>1. IsFiniteSet(Keys)
  BY Distinct, FS_Product DEF Keys
<1>2. Len(Targets) \in Nat \ {0}
  BY MultiAssumption
<1>3. MaxParallelism * Len(Targets) \in Nat \ {0} /\ BatchSize * Len(Targets) \in Nat \ {0}
  BY <1>2, MultiAssumption
<1> QED BY <1>1, <1>3, MultiAssumption DEF ParallelCap, BatchCap, AtMost

\* TcpScan's assumptions hold of the instance.
LEMMA LoopAssumption == Proved!ScanAssumption /\ Proved!CongestionAssumption
<1>1. Proved!IsFiniteSet(Keys)
  BY Limits DEF Proved!IsFiniteSet, IsFiniteSet
<1> QED
  BY <1>1, Limits, CongestionAssumption
     DEF Proved!ScanAssumption, Proved!CongestionAssumption
-----------------------------------------------------------------------------
(* The steps that are TcpScan's. *)

\* The instance that MultiScan is written with and the one that carries the
\* proofs say the same.
LEMMA SameState ==
  /\ Loop!TypeOK <=> Proved!TypeOK
  /\ Loop!Init <=> Proved!Init
  /\ \A k \in Keys : Loop!Capturable(k) = Proved!Capturable(k)
  /\ \A S : Cardinality(S) = Proved!Cardinality(S) /\ Loop!Cardinality(S) = Proved!Cardinality(S)
<1>1. Loop!TypeOK <=> Proved!TypeOK
  BY DEF Loop!TypeOK, Proved!TypeOK, Loop!Controllers, Proved!Controllers,
         Loop!Verdicts, Proved!Verdicts, Loop!NoVerdict, Proved!NoVerdict,
         Loop!Answers, Proved!Answers
<1>2. Loop!Init <=> Proved!Init
  BY DEF Loop!Init, Proved!Init, Loop!NoVerdict, Proved!NoVerdict,
         Loop!Answers, Proved!Answers, Loop!Reset, Proved!Reset,
         Loop!NewController, Proved!NewController, Loop!Seed, Proved!Seed
<1>3. \A k \in Keys : Loop!Capturable(k) = Proved!Capturable(k)
  BY DEF Loop!Capturable, Proved!Capturable, Loop!Reply, Proved!Reply,
         Loop!Background, Proved!Background, Loop!SynAck, Proved!SynAck,
         Loop!Rst, Proved!Rst, Loop!LoneAck, Proved!LoneAck
<1>4. \A S : Cardinality(S) = Proved!Cardinality(S) /\ Loop!Cardinality(S) = Proved!Cardinality(S)
  BY DEF Cardinality, Loop!Cardinality, Proved!Cardinality
<1> QED BY <1>1, <1>2, <1>3, <1>4

\* A step of TcpScan but for its check for timeouts, with answers of captured
\* hosts only.
LoopStep ==
  \/ Proved!Finish \/ Proved!ScanTimeout \/ Proved!StartIteration
  \/ Proved!Send \/ Proved!SendFails
  \/ \E k \in Keys : \E pkt \in Proved!Capturable(k) :
       k[1] \in captured /\ Proved!ReceiveAnswer(k, pkt)
  \/ Proved!EndDrain
  \/ UNCHANGED Proved!vars

LEMMA LoopStepIsNext == LoopStep => [Proved!Next]_(Proved!vars)
BY DEF LoopStep, Proved!Next, Proved!Receive

\* Every step of MultiScan is one of those or its own check, and none changes
\* what is captured.
LEMMA StepIsLoopStep ==
  ASSUME [Next]_vars
  PROVE  /\ UNCHANGED captured
         /\ LoopStep \/ \E T \in SUBSET outstanding : CheckTimeouts(T)
<1>1. CASE Finish
  BY <1>1 DEF Finish, Loop!Finish, Loop!WorkLeft, Proved!Finish, Proved!WorkLeft,
              LoopStep
<1>2. CASE ScanTimeout
  BY <1>2 DEF ScanTimeout, Loop!ScanTimeout, Loop!WorkLeft, Loop!NoVerdict,
              Proved!ScanTimeout, Proved!WorkLeft, Proved!NoVerdict, LoopStep
<1>3. CASE StartIteration
  BY <1>3 DEF StartIteration, Loop!StartIteration, Loop!WorkLeft,
              Proved!StartIteration, Proved!WorkLeft, LoopStep
<1>4. ASSUME NEW k \in Keys, SendNew(k)
      PROVE  UNCHANGED captured /\ Proved!SendNew(k)
  BY <1>4, SameState
     DEF SendNew, Loop!SendNew, Loop!MaySend, Proved!SendNew, Proved!MaySend
<1>5. ASSUME NEW k \in Keys, SendRetry(k)
      PROVE  UNCHANGED captured /\ Proved!SendRetry(k)
  BY <1>5, SameState
     DEF SendRetry, Loop!SendRetry, Loop!MaySend, Proved!SendRetry, Proved!MaySend
<1>6. CASE EndSend
  <2>1. UNCHANGED captured /\ Proved!EndSend
    BY <1>6, SameState
       DEF EndSend, Loop!EndSend, Loop!MaySend, Proved!EndSend, Proved!MaySend
  <2> QED BY <2>1 DEF Proved!Send, LoopStep
<1>7. CASE SendFails
  <2>1. UNCHANGED captured /\ Proved!SendFails
    BY <1>7, SameState
       DEF SendFails, Loop!SendFails, Loop!MaySend, Proved!SendFails, Proved!MaySend
  <2> QED BY <2>1 DEF LoopStep
<1>8. ASSUME NEW k \in Keys, NEW pkt \in Loop!Capturable(k), ReceiveAnswer(k, pkt)
      PROVE  /\ UNCHANGED captured /\ k[1] \in captured
             /\ pkt \in Proved!Capturable(k) /\ Proved!ReceiveAnswer(k, pkt)
  <2>1. pkt \in Proved!Capturable(k)
    BY SameState
  <2>2. Loop!OnAcked(Loop!RecordExpected(cc)) = Proved!OnAcked(Proved!RecordExpected(cc))
    BY DEF Loop!OnAcked, Loop!RecordExpected, Loop!CcScale, Loop!Grown, Loop!AcksNeeded,
           Loop!CeilDiv, Loop!AtMost, Proved!OnAcked, Proved!RecordExpected,
           Proved!CcScale, Proved!Grown, Proved!AcksNeeded, Proved!CeilDiv, Proved!AtMost
  <2> QED
    BY <1>8, <2>1, <2>2
       DEF ReceiveAnswer, Loop!ReceiveAnswer, Loop!ValidResponse, Loop!PortState,
           Loop!AtLeast, Proved!ReceiveAnswer, Proved!ValidResponse,
           Proved!PortState, Proved!AtLeast
<1>9. ASSUME NEW k \in Keys, NEW pkt \in Loop!Capturable(k), IgnorePacket(k, pkt)
      PROVE  UNCHANGED captured /\ UNCHANGED Proved!vars
  BY <1>9 DEF IgnorePacket, Loop!IgnorePacket, Loop!vars, Proved!vars
<1>10. CASE EndDrain
  BY <1>10 DEF EndDrain, Loop!EndDrain, Proved!EndDrain, LoopStep
<1>11. CASE Check
  BY <1>11 DEF Check, CheckTimeouts
<1>12. CASE UNCHANGED vars
  BY <1>12 DEF vars, Proved!vars, LoopStep
<1>13. CASE Send
  BY <1>4, <1>5, <1>6, <1>13 DEF Send, LoopStep, Proved!Send
<1>14. CASE Receive
  BY <1>8, <1>9, <1>14 DEF Receive, LoopStep
<1> QED
  BY <1>1, <1>2, <1>3, <1>7, <1>10, <1>11, <1>12, <1>13, <1>14 DEF Next, Stopped

\* check_timeouts_multi and what follows it, as the proofs below use it.
LEMMA CheckEffect ==
  ASSUME Proved!Tracked, NEW T \in SUBSET outstanding, CheckTimeouts(T)
  PROVE  LET again == {k \in T : tryno[k] < MaxRetries}
         IN  /\ pc = "check" /\ pc' = "head"
             /\ outstanding' = outstanding \ T
             /\ retry' = retry \cup again
             /\ results' = [k \in Keys |-> IF k \in T \ again THEN "Filtered"
                                           ELSE results[k]]
             /\ batch' \in Nat
             /\ cc' \in Proved!Controllers
             /\ Proved!WindowKept(cc, cc')
             /\ UNCHANGED <<captured, host, unsent, tryno, maxTryno, syns, answered>>
             /\ \A k \in T : /\ k \in Keys /\ results[k] = Proved!NoVerdict
                             /\ k \notin unsent /\ k \notin retry
<1> DEFINE counted == [cc EXCEPT !.expected = @ + Cardinality(T)]
<1>1. cc \in Proved!Controllers /\ batch \in Nat
  BY DEF Proved!Tracked, Proved!TypeOK
<1>2. Cardinality(T) \in Nat
  <2>1. IsFiniteSet(outstanding)
    BY Limits, FS_Subset DEF Proved!Tracked, Proved!TypeOK
  <2> QED BY <2>1, FS_Subset, FS_CardinalityType
<1>3. /\ counted \in Proved!Controllers
      /\ counted.cwnd = cc.cwnd /\ counted.maxCwnd = cc.maxCwnd
  BY <1>1, <1>2 DEF Proved!Controllers
<1>4. cc' = IF cc.seeded THEN MaybeBoost(counted) ELSE counted
  BY DEF CheckTimeouts
<1> HIDE DEF counted
<1>5. MaybeBoost(counted) = Proved!MaybeBoost(counted)
  BY DEF MaybeBoost, AtMost, Proved!MaybeBoost, Proved!AtMost
<1>6. /\ Proved!MaybeBoost(counted) \in Proved!Controllers
      /\ Proved!WindowKept(counted, Proved!MaybeBoost(counted))
  BY <1>3, LoopAssumption, Proved!MaybeBoostType, Proved!MaybeBoostKeeps
     DEF Proved!ScanAssumption, Proved!CongestionAssumption
<1>7. Proved!WindowKept(counted, counted)
  BY <1>3 DEF Proved!WindowKept, Proved!Controllers
<1>8. cc' \in Proved!Controllers /\ Proved!WindowKept(cc, cc')
  BY <1>3, <1>4, <1>5, <1>6, <1>7 DEF Proved!WindowKept
<1>9. \A k \in T : /\ k \in Keys /\ results[k] = Proved!NoVerdict
                   /\ k \notin unsent /\ k \notin retry
  BY DEF CheckTimeouts, Proved!Tracked, Proved!TypeOK, Proved!EveryPortTracked,
         Proved!Running, Proved!Decided
<1>10. batch' \in Nat
  BY <1>1 DEF CheckTimeouts
<1> QED BY <1>8, <1>9, <1>10 DEF CheckTimeouts
-----------------------------------------------------------------------------
(* Types and places. *)

\* A pair of a host and a port is in one place, as a port is in TcpScan.
Placed == captured \subseteq Hosts /\ Proved!Tracked

LEMMA InitPlaced == Init => Placed
<1> SUFFICES ASSUME Init PROVE Placed
  OBVIOUS
<1>1. Proved!Tracked
  BY LoopAssumption, SameState, Proved!InitTracked
     DEF Init, Proved!ScanAssumption, Proved!CongestionAssumption
<1> QED BY <1>1 DEF Init, Placed

LEMMA NextPlaced == Placed /\ [Next]_vars => Placed'
<1> SUFFICES ASSUME Placed, [Next]_vars PROVE Placed'
  OBVIOUS
<1>1. UNCHANGED captured
  BY StepIsLoopStep
<1>2. CASE LoopStep
  <2>1. Proved!Tracked'
    BY <1>2, LoopStepIsNext, LoopAssumption, Proved!NextTracked
       DEF Placed, Proved!ScanAssumption, Proved!CongestionAssumption
  <2> QED BY <1>1, <2>1 DEF Placed
<1>3. ASSUME NEW T \in SUBSET outstanding, CheckTimeouts(T)
      PROVE  Placed'
  <2> USE DEF Proved!Verdicts, Proved!NoVerdict
  <2> DEFINE again == {k \in T : tryno[k] < MaxRetries}
  <2>1. Proved!Tracked
    BY DEF Placed
  <2>2. Proved!TypeOK'
    BY <1>1, <1>3, <2>1, CheckEffect DEF Proved!Tracked, Proved!TypeOK
  <2>3. Proved!Decided' = Proved!Decided \cup (T \ again)
    BY <1>3, <2>1, CheckEffect DEF Proved!Decided
  <2>4. Proved!EveryPortTracked'
    BY <1>3, <2>1, <2>3, CheckEffect
       DEF Proved!Tracked, Proved!TypeOK, Proved!EveryPortTracked, Proved!Running
  <2> QED BY <1>1, <2>2, <2>4 DEF Placed, Proved!Tracked
<1> QED BY <1>2, <1>3, StepIsLoopStep

\* Every variable of the loop over several hosts keeps its type.
THEOREM TypeCorrect == Spec => []TypeOK
<1>1. Init => Placed
  BY InitPlaced
<1>2. Placed /\ [Next]_vars => Placed'
  BY NextPlaced
<1>3. Placed => TypeOK
  BY SameState DEF Placed, Proved!Tracked, TypeOK
<1> QED BY <1>1, <1>2, <1>3, PTL DEF Spec
\* No pair of a host and a port is lost or tracked twice, although
\* check_timeouts_multi does not look at what results holds already.
THEOREM NoProbeLost == Spec => []Proved!EveryPortTracked
<1>1. Init => Placed
  BY InitPlaced
<1>2. Placed /\ [Next]_vars => Placed'
  BY NextPlaced
<1>3. Placed => Proved!EveryPortTracked
  BY DEF Placed, Proved!Tracked
<1> QED BY <1>1, <1>2, <1>3, PTL DEF Spec
-----------------------------------------------------------------------------
(* The load. *)

\* LoadBounded rests on what is in flight fitting the window and the limit,
\* and on no acknowledgement or boost taking the window over the maximum.
LoadInv ==
  /\ Placed
  /\ Proved!WindowInv
  /\ cc.cwnd <= AtLeast(ParallelCap, InitialCwnd)

LEMMA InitLoad == Init => LoadInv
<1> SUFFICES ASSUME Init PROVE LoadInv
  OBVIOUS
<1>1. Proved!WindowInv
  BY LoopAssumption, SameState, Proved!InitWindow
     DEF Init, Proved!ScanAssumption, Proved!CongestionAssumption
<1>2. cc.cwnd = InitialCwnd
  BY SameState
     DEF Init, Proved!Init, Proved!Reset, Proved!Seed, Proved!NewController
<1> QED BY <1>1, <1>2, InitPlaced, Limits, CongestionAssumption DEF LoadInv, AtLeast

LEMMA NextLoad == LoadInv /\ [Next]_vars => LoadInv'
<1> SUFFICES ASSUME LoadInv, [Next]_vars
             PROVE  Proved!WindowInv' /\ cc'.cwnd <= AtLeast(ParallelCap, InitialCwnd)
  BY NextPlaced DEF LoadInv
<1>a. /\ Proved!Tracked /\ Proved!TypeOK /\ Proved!WindowRespected
      /\ cc.maxCwnd = ParallelCap /\ cc.cwnd <= AtLeast(ParallelCap, InitialCwnd)
  BY DEF LoadInv, Placed, Proved!Tracked, Proved!WindowInv
<1>b. Proved!TypeOK'
  BY NextPlaced DEF LoadInv, Placed, Proved!Tracked
<1>c. /\ cc.cwnd \in Nat /\ cc'.cwnd \in Nat
      /\ ParallelCap \in Nat /\ InitialCwnd \in Nat
  BY <1>a, <1>b, Limits, CongestionAssumption DEF Proved!TypeOK, Proved!Controllers
<1>1. ASSUME Proved!WindowKept(cc, cc')
      PROVE  cc'.cwnd <= AtLeast(ParallelCap, InitialCwnd)
  BY <1>1, <1>a, <1>c DEF Proved!WindowKept, AtLeast
<1>2. CASE LoopStep
  <2>1. Proved!WindowInv'
    BY <1>2, LoopStepIsNext, LoopAssumption, Proved!NextWindow
       DEF LoadInv, Proved!ScanAssumption, Proved!CongestionAssumption
  <2>2. Proved!WindowKept(cc, cc')
    BY <1>2, <1>a, LoopStepIsNext, LoopAssumption, Proved!StepKeepsWindow
       DEF Proved!ScanAssumption, Proved!CongestionAssumption
  <2> QED BY <1>1, <2>1, <2>2
<1>3. ASSUME NEW T \in SUBSET outstanding, CheckTimeouts(T)
      PROVE  Proved!WindowInv' /\ cc'.cwnd <= AtLeast(ParallelCap, InitialCwnd)
  <2>1. Proved!WindowKept(cc, cc') /\ outstanding' = outstanding \ T
    BY <1>3, <1>a, CheckEffect
  <2>2. /\ Cardinality(outstanding') \in Nat /\ Cardinality(outstanding) \in Nat
        /\ Cardinality(outstanding') <= Cardinality(outstanding)
    <3>1. IsFiniteSet(outstanding) /\ outstanding' \in SUBSET outstanding
      BY <1>a, <2>1, Limits, FS_Subset DEF Proved!TypeOK
    <3> QED BY <3>1, FS_Subset, FS_CardinalityType
  <2>3. Proved!WindowRespected'
    BY <1>a, <1>c, <2>1, <2>2, SameState DEF Proved!WindowRespected, Proved!WindowKept
  <2>4. cc'.maxCwnd = ParallelCap
    BY <1>a, <2>1 DEF Proved!WindowKept
  <2> QED BY <1>1, <1>b, <2>1, <2>3, <2>4 DEF Proved!WindowInv
<1> QED BY <1>2, <1>3, StepIsLoopStep

\* However many hosts share the loop, what is in flight stays within the total cap
\* and the window, and the window itself within the cap once it has grown
\* (scan_ports_multi).
THEOREM LoadIsBounded == Spec => []LoadBounded
<1>1. Init => LoadInv
  BY InitLoad
<1>2. LoadInv /\ [Next]_vars => LoadInv'
  BY NextLoad
<1>3. LoadInv => LoadBounded
  <2> SUFFICES ASSUME LoadInv PROVE LoadBounded
    OBVIOUS
  <2>1. /\ Cardinality(outstanding) <= cc.cwnd
        /\ Cardinality(outstanding) <= ParallelCap
        /\ cc.cwnd <= AtLeast(ParallelCap, InitialCwnd)
    BY SameState DEF LoadInv, Proved!WindowInv, Proved!WindowRespected
  <2>2. /\ Cardinality(outstanding) \in Nat /\ cc.cwnd \in Nat
    <3>1. IsFiniteSet(outstanding)
      BY Limits, FS_Subset DEF LoadInv, Proved!WindowInv, Proved!TypeOK
    <3> QED
      BY <3>1, FS_CardinalityType
         DEF LoadInv, Proved!WindowInv, Proved!TypeOK, Proved!Controllers
  <2> QED BY <2>1, <2>2, Limits, CongestionAssumption DEF LoadBounded, AtLeast
<1> QED BY <1>1, <1>2, <1>3, PTL DEF Spec
-----------------------------------------------------------------------------
(* Retries and verdicts. *)

\* The retry count of a port follows the SYNs it was sent and stays within the
\* configured retries, below them while the port waits for one more; and only
\* decided ports count as answered.
Counted ==
  /\ \A k \in Keys : IF k \in unsent THEN syns[k] = 0 ELSE syns[k] = tryno[k] + 1
  /\ \A k \in Keys : tryno[k] <= MaxRetries
  /\ \A k \in retry : tryno[k] < MaxRetries
  /\ answered \subseteq Proved!Decided

CountedInv == Placed /\ Counted /\ FilteredEarned

LEMMA InitCounted == Init => CountedInv
<1> SUFFICES ASSUME Init PROVE Counted /\ FilteredEarned
  BY InitPlaced DEF CountedInv
<1>1. Proved!Init
  BY SameState DEF Init
<1> QED BY <1>1, Limits DEF Proved!Init, Proved!NoVerdict, Counted, FilteredEarned

LEMMA NextCounted == CountedInv /\ [Next]_vars => CountedInv'
<1> SUFFICES ASSUME CountedInv, [Next]_vars
             PROVE  Counted' /\ FilteredEarned'
  BY NextPlaced DEF CountedInv
<1> USE Limits DEF Proved!Verdicts, Proved!NoVerdict
<1>a. Proved!Tracked /\ Proved!TypeOK /\ Proved!EveryPortTracked /\ Counted /\ FilteredEarned
  BY DEF CountedInv, Placed, Proved!Tracked
<1>1. ASSUME NEW T \in SUBSET outstanding, CheckTimeouts(T)
      PROVE  Counted' /\ FilteredEarned'
  <2> DEFINE again == {k \in T : tryno[k] < MaxRetries}
  <2>1. /\ results' = [k \in Keys |-> IF k \in T \ again THEN "Filtered" ELSE results[k]]
        /\ retry' = retry \cup again
        /\ UNCHANGED <<host, unsent, tryno, syns, answered>>
        /\ pc = "check" /\ pc' = "head"
        /\ \A k \in T : k \in Keys /\ results[k] = Proved!NoVerdict /\ k \notin unsent
    BY <1>1, <1>a, CheckEffect
  <2>2. Counted'
    BY <1>a, <2>1 DEF Counted, Proved!Decided, Proved!TypeOK
  <2>3. \A k \in T \ again : k \notin answered /\ syns[k] = 1 + MaxRetries
    BY <1>a, <2>1 DEF Counted, Proved!Decided, Proved!TypeOK
  <2>4. FilteredEarned'
    BY <1>a, <2>1, <2>3 DEF FilteredEarned
  <2> QED BY <2>2, <2>4
<1>2. CASE Proved!Finish \/ Proved!StartIteration \/ Proved!SendFails \/ Proved!EndSend
           \/ Proved!EndDrain
  BY <1>2, <1>a DEF Proved!Finish, Proved!StartIteration, Proved!SendFails,
                    Proved!EndSend, Proved!EndDrain, Counted, FilteredEarned, Proved!Decided
<1>3. CASE Proved!ScanTimeout
  BY <1>3, <1>a DEF Proved!ScanTimeout, Counted, FilteredEarned, Proved!Decided
<1>4. ASSUME NEW k \in Keys, Proved!SendNew(k)
      PROVE  Counted' /\ FilteredEarned'
  <2>1. Counted'
    BY <1>4, <1>a DEF Proved!SendNew, Counted, Proved!Decided, Proved!TypeOK,
                      Proved!EveryPortTracked, Proved!Running
  <2>2. results[k] = Proved!NoVerdict
    BY <1>4, <1>a DEF Proved!SendNew, Proved!EveryPortTracked, Proved!Running,
                      Proved!Decided, Proved!TypeOK
  <2>3. FilteredEarned'
    BY <1>4, <1>a, <2>2 DEF Proved!SendNew, FilteredEarned, Proved!TypeOK
  <2> QED BY <2>1, <2>3
<1>5. ASSUME NEW k \in Keys, Proved!SendRetry(k)
      PROVE  Counted' /\ FilteredEarned'
  <2>1. k \notin unsent /\ results[k] = Proved!NoVerdict
    BY <1>5, <1>a DEF Proved!SendRetry, Proved!EveryPortTracked, Proved!Running,
                      Proved!Decided, Proved!TypeOK
  <2>2. Counted'
    BY <1>5, <1>a, <2>1 DEF Proved!SendRetry, Counted, Proved!Decided, Proved!TypeOK
  <2>3. FilteredEarned'
    BY <1>5, <1>a, <2>1 DEF Proved!SendRetry, FilteredEarned, Proved!TypeOK
  <2> QED BY <2>2, <2>3
<1>6. ASSUME NEW k \in Keys, NEW pkt \in Proved!Capturable(k), Proved!ReceiveAnswer(k, pkt)
      PROVE  Counted' /\ FilteredEarned'
  <2>1. /\ Proved!PortState(pkt) \in Proved!Verdicts
        /\ Proved!PortState(pkt) = "Filtered" => host[k] = "odd"
    BY <1>6, LoopAssumption, Proved!ValidIsReply
       DEF Proved!ReceiveAnswer, Proved!ScanAssumption, Proved!CongestionAssumption
  <2>2. Counted'
    BY <1>6, <1>a, <2>1 DEF Proved!ReceiveAnswer, Counted, Proved!Decided, Proved!TypeOK
  <2>3. FilteredEarned'
    BY <1>6, <1>a, <2>1 DEF Proved!ReceiveAnswer, FilteredEarned, Proved!TypeOK
  <2> QED BY <2>2, <2>3
<1>7. CASE UNCHANGED Proved!vars
  BY <1>7, <1>a DEF Proved!vars, Counted, FilteredEarned, Proved!Decided
<1>8. CASE LoopStep
  BY <1>2, <1>3, <1>4, <1>5, <1>6, <1>7, <1>8
     DEF LoopStep, Proved!Send
<1> QED BY <1>1, <1>8, StepIsLoopStep

\* A silent port is given up only after the configured retries, whatever the
\* other hosts answered meanwhile.
THEOREM SilenceIsEarned == Spec => []FilteredEarned
<1>1. Init => CountedInv
  BY InitCounted
<1>2. CountedInv /\ [Next]_vars => CountedInv'
  BY NextCounted
<1>3. CountedInv => FilteredEarned
  BY DEF CountedInv
<1> QED BY <1>1, <1>2, <1>3, PTL DEF Spec
-----------------------------------------------------------------------------
(* The turns. *)

\* What work_iter has left is the end of the order in which it was made: a pair
\* that is still to come has all pairs behind it still to come.
Before(i, m, j, n) == m < n \/ (m = n /\ i < j)

InTurn ==
  \A i, j \in DOMAIN Targets, m, n \in DOMAIN PortList :
    Before(i, m, j, n) /\ <<Targets[i], PortList[m]>> \in unsent
      => <<Targets[j], PortList[n]>> \in unsent

TurnInv == CountedInv /\ InTurn

LEMMA InitTurn == Init => TurnInv
<1> SUFFICES ASSUME Init PROVE InTurn
  BY InitCounted DEF TurnInv
<1>1. unsent = Keys
  BY SameState DEF Init, Proved!Init
<1> QED BY <1>1 DEF InTurn, Keys, Hosts, Numbers

LEMMA NextTurn == TurnInv /\ [Next]_vars => TurnInv'
<1> SUFFICES ASSUME TurnInv, [Next]_vars PROVE InTurn'
  BY NextCounted DEF TurnInv
<1>1. ASSUME NEW k \in Keys, SendNew(k) PROVE InTurn'
  <2>1. NextInTurn(k) /\ unsent' = unsent \ {k}
    BY <1>1 DEF SendNew, Loop!SendNew
  <2> SUFFICES ASSUME NEW i \in DOMAIN Targets, NEW j \in DOMAIN Targets,
                      NEW m \in DOMAIN PortList, NEW n \in DOMAIN PortList,
                      Before(i, m, j, n), <<Targets[i], PortList[m]>> \in unsent'
               PROVE  <<Targets[j], PortList[n]>> \in unsent'
    BY DEF InTurn
  <2>2. <<Targets[i], PortList[m]>> \in unsent \ {k}
    BY <2>1
  <2>3. <<Targets[j], PortList[n]>> \in unsent
    BY <2>2 DEF TurnInv, InTurn
  <2>4. ASSUME <<Targets[j], PortList[n]>> = k PROVE FALSE
    <3>1. PICK i1, j1 \in DOMAIN Targets, m1, n1 \in DOMAIN PortList :
            /\ k = <<Targets[i1], PortList[m1]>>
            /\ <<Targets[i], PortList[m]>> = <<Targets[j1], PortList[n1]>>
            /\ m1 < n1 \/ (m1 = n1 /\ i1 < j1)
      BY <2>1, <2>2 DEF NextInTurn
    <3>2. i1 = j /\ m1 = n /\ j1 = i /\ n1 = m
      BY <2>4, <3>1, Distinct
    <3>3. i \in Int /\ j \in Int /\ m \in Int /\ n \in Int
      BY MultiAssumption
    <3> QED BY <3>1, <3>2, <3>3 DEF Before
  <2> QED BY <2>1, <2>3, <2>4
<1>2. CASE UNCHANGED unsent
  BY <1>2 DEF TurnInv, InTurn
<1>3. ASSUME NEW k \in Keys, SendRetry(k) PROVE UNCHANGED unsent
  BY <1>3 DEF SendRetry, Loop!SendRetry
<1>4. ASSUME NEW k \in Keys, NEW pkt, ReceiveAnswer(k, pkt) \/ IgnorePacket(k, pkt)
      PROVE  UNCHANGED unsent
  BY <1>4 DEF ReceiveAnswer, Loop!ReceiveAnswer, IgnorePacket, Loop!IgnorePacket, Loop!vars
<1>5. CASE Finish \/ ScanTimeout \/ StartIteration \/ SendFails \/ EndSend \/ EndDrain \/ Check
  BY <1>2, <1>5
     DEF Finish, Loop!Finish, ScanTimeout, Loop!ScanTimeout, StartIteration,
         Loop!StartIteration, SendFails, Loop!SendFails, EndSend, Loop!EndSend,
         EndDrain, Loop!EndDrain, Check, CheckTimeouts
<1>6. CASE UNCHANGED vars
  BY <1>2, <1>6 DEF vars
<1> QED
  BY <1>1, <1>2, <1>3, <1>4, <1>5, <1>6 DEF Next, Send, Receive, Stopped

\* The keys of host h that have had their first SYN.
Begun(h) == {k \in Keys : k[1] = h /\ syns[k] > 0}

\* Of the ports that host g has begun and host h has not there is at most one:
\* any other lies before it, so that h has begun it, or after it, so that g has
\* not.
LEMMA OnePortAhead ==
  ASSUME TurnInv, NEW g \in Hosts, NEW h \in Hosts,
         NEW p \in Numbers, <<g, p>> \in Begun(g), <<h, p>> \notin Begun(h),
         NEW q \in Numbers, <<g, q>> \in Begun(g), q # p
  PROVE  <<h, q>> \in Begun(h)
<1>1. PICK i, j \in DOMAIN Targets : g = Targets[i] /\ h = Targets[j]
  BY DEF Hosts
<1>2. PICK m, n \in DOMAIN PortList : p = PortList[m] /\ q = PortList[n]
  BY DEF Numbers
<1>3. \A k \in Keys : k \in unsent <=> ~(syns[k] > 0)
  BY DEF TurnInv, CountedInv, Counted, Placed, Proved!Tracked, Proved!TypeOK
<1>4. /\ <<g, p>> \in Keys /\ <<h, p>> \in Keys /\ <<g, q>> \in Keys /\ <<h, q>> \in Keys
  BY DEF Keys
<1>5. <<g, p>> \notin unsent /\ <<h, p>> \in unsent /\ <<g, q>> \notin unsent
  BY <1>3, <1>4 DEF Begun
<1>6. m \in Int /\ n \in Int /\ m # n
  BY <1>2, MultiAssumption
<1>7. CASE n < m
  <2>1. <<h, q>> \notin unsent
    BY <1>1, <1>2, <1>5, <1>7 DEF TurnInv, InTurn, Before
  <2> QED BY <2>1, <1>3, <1>4 DEF Begun
<1>8. CASE m < n
  BY <1>1, <1>2, <1>5, <1>8 DEF TurnInv, InTurn, Before
<1> QED BY <1>6, <1>7, <1>8

\* The keys of g in A have their counterparts for h in B: A is no larger than B.
LEMMA Counterparts ==
  ASSUME NEW g \in Hosts, NEW h \in Hosts, NEW A, NEW B, IsFiniteSet(B),
         A \subseteq {g} \X Numbers, \A p \in Numbers : <<g, p>> \in A => <<h, p>> \in B
  PROVE  IsFiniteSet(A) /\ Cardinality(A) <= Cardinality(B)
<1> DEFINE f == [k \in A |-> <<h, k[2]>>]
<1>1. f \in [A -> B] /\ \A k, l \in A : f[k] = f[l] => k = l
  OBVIOUS
<1>2. f \in Injection(A, B)
  BY <1>1 DEF Injection, IsInjective
<1> QED BY <1>2, FS_Injection

\* The round robin leaves no host behind: whatever the window and the answers of
\* the other hosts do, it is at most one first SYN short of any other.
THEOREM HostsStayInStep == Spec => []HostsInStep
<1>1. Init => TurnInv
  BY InitTurn
<1>2. TurnInv /\ [Next]_vars => TurnInv'
  BY NextTurn
<1>3. TurnInv => HostsInStep
  <2> SUFFICES ASSUME TurnInv, NEW g \in Hosts, NEW h \in Hosts
               PROVE  Cardinality(Begun(g)) <= Cardinality(Begun(h)) + 1
    BY DEF HostsInStep, FirstSyns, Begun
  <2>1. /\ Begun(g) \subseteq {g} \X Numbers /\ Begun(h) \subseteq {h} \X Numbers
        /\ IsFiniteSet(Begun(g)) /\ IsFiniteSet(Begun(h))
    BY Limits, FS_Subset DEF Begun, Keys
  <2>2. Cardinality(Begun(g)) \in Nat /\ Cardinality(Begun(h)) \in Nat
    BY <2>1, FS_CardinalityType
  <2>3. CASE \A p \in Numbers : <<g, p>> \in Begun(g) => <<h, p>> \in Begun(h)
    BY <2>1, <2>2, <2>3, Counterparts
  <2>4. ASSUME NEW p \in Numbers, <<g, p>> \in Begun(g), <<h, p>> \notin Begun(h)
        PROVE  Cardinality(Begun(g)) <= Cardinality(Begun(h)) + 1
    <3>1. Begun(g) \ {<<g, p>>} \subseteq {g} \X Numbers
      BY <2>1
    <3>2. \A q \in Numbers : <<g, q>> \in Begun(g) \ {<<g, p>>} => <<h, q>> \in Begun(h)
      BY <2>4, OnePortAhead
    <3>3. Cardinality(Begun(g) \ {<<g, p>>}) <= Cardinality(Begun(h))
      BY <2>1, <3>1, <3>2, Counterparts
    <3>4. Cardinality(Begun(g) \ {<<g, p>>}) = Cardinality(Begun(g)) - 1
      BY <2>1, <2>4, FS_RemoveElement
    <3> QED BY <2>2, <3>3, <3>4
  <2> QED BY <2>3, <2>4
<1> QED BY <1>1, <1>2, <1>3, PTL DEF Spec
-----------------------------------------------------------------------------
(* The refinement: for each host, a step of the loop is a step of PortScan or  *)
(* a stutter.                                                                  *)

\* What a host that the capture does not see amounts to.
Seen(k) == IF k[1] \in captured THEN host[k] ELSE "none"

\* The ports of host h among the keys K.
PortsOf(h, K) == {n \in Numbers : <<h, n>> \in K}

LEMMA HostReport ==
  ASSUME Placed, Placed', UNCHANGED <<captured, host>>, NEW h \in Hosts,
         NEW K \in SUBSET Keys,
         \A k \in K : results[k] = Proved!NoVerdict,
         \A k \in K : results'[k] \in HostScan(h)!Deserved(Seen(k)),
         \A k \in Keys \ K : results'[k] = results[k]
  PROVE  HostScan(h)!Report(PortsOf(h, K))
<1>1. /\ results \in [Keys -> Proved!Verdicts \cup {Proved!NoVerdict}]
      /\ results' \in [Keys -> Proved!Verdicts \cup {Proved!NoVerdict}]
  BY DEF Placed, Proved!Tracked, Proved!TypeOK
<1>2. \A n \in Numbers : <<h, n>> \in Keys
  BY DEF Keys
<1> QED
  BY <1>1, <1>2 DEF HostScan!Report, HostScan!Verdicts, Proved!Verdicts, Proved!NoVerdict, Loop!NoVerdict, PortsOf, Seen

LEMMA StepKeepsPromise ==
  ASSUME Placed, [Next]_vars, NEW h \in Hosts
  PROVE  [HostScan(h)!ScanNext]_(HostScan(h)!pvars)
<1> USE DEF Proved!NoVerdict
<1>a. Placed' /\ UNCHANGED captured
  BY NextPlaced, StepIsLoopStep
<1>b. Proved!TypeOK /\ Proved!EveryPortTracked
  BY DEF Placed, Proved!Tracked
<1>c. \A n \in Numbers : <<h, n>> \in Keys
  BY DEF Keys
<1>d. ASSUME NEW k PROVE "Filtered" \in HostScan(h)!Deserved(Seen(k))
  BY DEF HostScan!Deserved
<1>1. ASSUME NEW K \in SUBSET Keys,
             pc \in {"head", "send", "drain", "check"},
             pc' \in {"head", "send", "drain", "check"},
             UNCHANGED host,
             \A k \in K : results[k] = Proved!NoVerdict,
             \A k \in K : results'[k] \in HostScan(h)!Deserved(Seen(k)),
             \A k \in Keys \ K : results'[k] = results[k]
      PROVE  HostScan(h)!ScanNext
  <2>1. HostScan(h)!Report(PortsOf(h, K)) /\ PortsOf(h, K) \in SUBSET Numbers
    BY <1>a, <1>1, HostReport DEF PortsOf
  <2>2. HostScan(h)!Decide
    BY <1>a, <1>1, <2>1 DEF HostScan!Decide
  <2> QED BY <2>2 DEF HostScan!ScanNext
<1>2. CASE Proved!StartIteration \/ Proved!EndSend \/ Proved!EndDrain
  BY <1>a, <1>2 DEF Proved!StartIteration, Proved!EndSend, Proved!EndDrain, HostScan!pvars
<1>3. CASE Proved!Finish
  <2>1. \A n \in Numbers : results[<<h, n>>] # Proved!NoVerdict
    BY <1>3, <1>b, <1>c
       DEF Proved!Finish, Proved!WorkLeft, Proved!EveryPortTracked, Proved!Running,
           Proved!Decided
  <2>2. HostScan(h)!Complete
    BY <1>3, <1>a, <2>1 DEF Proved!Finish, HostScan!Complete, Loop!NoVerdict
  <2> QED BY <2>2 DEF HostScan!ScanNext
<1>4. CASE Proved!ScanTimeout
  <2>1. PICK K \in SUBSET Keys :
          /\ \A k \in K : results[k] = Proved!NoVerdict /\ results'[k] = "Filtered"
          /\ \A k \in Keys \ K : results'[k] = results[k]
    <3>1. {k \in outstanding : results[k] = Proved!NoVerdict} \in SUBSET Keys
      BY <1>b DEF Proved!TypeOK
    <3> WITNESS {k \in outstanding : results[k] = Proved!NoVerdict} \in SUBSET Keys
    <3> QED BY <1>4, <1>b DEF Proved!ScanTimeout, Proved!TypeOK
  <2>2. pc = "head" /\ pc' = "expired" /\ UNCHANGED host
    BY <1>4 DEF Proved!ScanTimeout
  <2>3. \A k \in K : results'[k] \in HostScan(h)!Deserved(Seen(k))
    BY <1>d, <2>1
  <2>4. HostScan(h)!Report(PortsOf(h, K))
    BY <1>a, <2>1, <2>2, <2>3, HostReport
  <2>5. PortsOf(h, K) \in SUBSET Numbers
    BY DEF PortsOf
  <2>6. HostScan(h)!Expire
    BY <1>a, <2>2, <2>4, <2>5 DEF HostScan!Expire
  <2> QED BY <2>6 DEF HostScan!ScanNext
<1>5. CASE Proved!SendFails
  <2>1. HostScan(h)!Fail
    BY <1>5, <1>a DEF Proved!SendFails, HostScan!Fail
  <2> QED BY <2>1 DEF HostScan!ScanNext
<1>6. ASSUME NEW k \in Keys, Proved!SendNew(k) \/ Proved!SendRetry(k)
      PROVE  UNCHANGED HostScan(h)!pvars
  BY <1>6, <1>a DEF Proved!SendNew, Proved!SendRetry, HostScan!pvars
<1>7. ASSUME NEW k \in Keys, NEW pkt \in Proved!Capturable(k), k[1] \in captured,
             Proved!ReceiveAnswer(k, pkt)
      PROVE  HostScan(h)!ScanNext
  <2>1. /\ pc = "drain" /\ k \in outstanding /\ UNCHANGED <<host, pc>>
        /\ results' = [results EXCEPT ![k] = Proved!PortState(pkt)]
        /\ Proved!ValidResponse(pkt)
    BY <1>7 DEF Proved!ReceiveAnswer
  <2>2. results[k] = Proved!NoVerdict
    BY <1>b, <2>1 DEF Proved!EveryPortTracked, Proved!Running, Proved!Decided
  <2>3. /\ Proved!PortState(pkt) \in {"Open", "Closed", "Filtered"}
        /\ Proved!PortState(pkt) = "Open" => host[k] = "synack"
        /\ Proved!PortState(pkt) = "Closed" => host[k] = "rst"
    BY <2>1, LoopAssumption, Proved!ValidIsReply
       DEF Proved!Verdicts, Proved!ScanAssumption, Proved!CongestionAssumption
  <2>4. results'[k] = Proved!PortState(pkt) /\ \A l \in Keys \ {k} : results'[l] = results[l]
    BY <1>b, <2>1 DEF Proved!TypeOK
  <2>5. Proved!PortState(pkt) \in HostScan(h)!Deserved(Seen(k))
    BY <1>7, <2>3 DEF HostScan!Deserved, Seen
  <2>6. \A l \in {k} : results[l] = Proved!NoVerdict /\ results'[l] \in HostScan(h)!Deserved(Seen(l))
    BY <2>2, <2>4, <2>5
  <2>7. /\ {k} \in SUBSET Keys
        /\ pc \in {"head", "send", "drain", "check"} /\ pc' \in {"head", "send", "drain", "check"}
    BY <2>1
  <2> QED BY <1>1, <2>1, <2>4, <2>6, <2>7
<1>8. ASSUME NEW T \in SUBSET outstanding, CheckTimeouts(T)
      PROVE  HostScan(h)!ScanNext
  <2> DEFINE K == {k \in T : ~(tryno[k] < MaxRetries)}
  <2>1. /\ pc = "check" /\ pc' = "head" /\ UNCHANGED host
        /\ \A k \in K : results[k] = Proved!NoVerdict /\ results'[k] = "Filtered"
        /\ \A k \in Keys \ K : results'[k] = results[k]
        /\ K \in SUBSET Keys
    BY <1>8, CheckEffect DEF Placed
  <2> HIDE DEF K
  <2> QED BY <1>1, <1>d, <2>1
<1>9. CASE UNCHANGED Proved!vars
  BY <1>9, <1>a DEF Proved!vars, HostScan!pvars
<1> QED
  BY <1>2, <1>3, <1>4, <1>5, <1>6, <1>7, <1>8, <1>9, StepIsLoopStep
     DEF LoopStep, Proved!Send

\* Every host gets the scan that PortScan promises, as if it were alone: although
\* the hosts share one loop, whose check inserts verdicts over whatever is there,
\* no verdict is taken back, given undeserved or missing when the scan completes.
THEOREM KeepsPromises == Spec => HostPromises
<1>1. Init => \A h \in Hosts : HostScan(h)!ScanInit
  <2> SUFFICES ASSUME Init, NEW h \in Hosts PROVE HostScan(h)!ScanInit
    OBVIOUS
  <2>1. Proved!Init /\ \A n \in Numbers : <<h, n>> \in Keys
    BY SameState DEF Init, Keys
  <2> QED
    BY <2>1 DEF HostScan!ScanInit, Proved!Init, Proved!NoVerdict, Loop!NoVerdict,
                Proved!Answers, Loop!Answers
<1>2. Init => Placed
  BY InitPlaced
<1>3. Placed /\ [Next]_vars => Placed'
  BY NextPlaced
<1>4. Placed /\ [Next]_vars => [\A h \in Hosts : [HostScan(h)!ScanNext]_(HostScan(h)!pvars)]_vars
  BY StepKeepsPromise
<1> QED BY <1>1, <1>2, <1>3, <1>4, PTL DEF Spec, HostPromises

\* What the orchestrator relies on: a scan that returns has decided every port of
\* every host, and no port has a verdict its host does not deserve; one that is
\* not captured deserves Filtered only.
Relied ==
  /\ pc = "done" => \A k \in Keys : results[k] # Loop!NoVerdict
  /\ \A k \in Keys :
       results[k] \in {Loop!NoVerdict} \cup HostScan(k[1])!Deserved(Seen(k))

LEMMA KeyOfHost ==
  ASSUME NEW k \in Keys
  PROVE  k[1] \in Hosts /\ k[2] \in Numbers /\ k = <<k[1], k[2]>>
BY DEF Keys

\* The promises to the single hosts, whoever keeps them, make a whole scan.
THEOREM PromisesAreEnough == HostPromises => []Relied
<1> USE DEF Loop!NoVerdict
<1>1. (\A h \in Hosts : HostScan(h)!ScanInit) => Relied
  <2> SUFFICES ASSUME \A h \in Hosts : HostScan(h)!ScanInit PROVE Relied
    OBVIOUS
  <2>1. PICK h \in Hosts : TRUE
    BY MultiAssumption DEF Hosts
  <2>2. pc # "done"
    BY <2>1 DEF HostScan!ScanInit
  <2>3. ASSUME NEW k \in Keys PROVE results[k] = "none"
    BY KeyOfHost DEF HostScan!ScanInit
  <2> QED BY <2>2, <2>3 DEF Relied
<1>2. Relied /\ [\A h \in Hosts : [HostScan(h)!ScanNext]_(HostScan(h)!pvars)]_vars => Relied'
  <2> SUFFICES ASSUME Relied,
                      \A h \in Hosts : [HostScan(h)!ScanNext]_(HostScan(h)!pvars)
               PROVE  Relied'
    BY DEF vars, Relied, Seen, HostScan!Deserved
  <2>1. ASSUME NEW k \in Keys
        PROVE  /\ results'[k] \in {"none"} \cup HostScan(k[1])!Deserved(Seen(k)')
               /\ pc' = "done" => results'[k] # "none"
    <3> DEFINE h == k[1]
               n == k[2]
    <3>1. h \in Hosts /\ n \in Numbers /\ k = <<h, n>>
      BY KeyOfHost
    <3>2. [HostScan(h)!ScanNext]_(HostScan(h)!pvars)
      BY <3>1
    <3>3. /\ results[k] \in {"none"} \cup HostScan(h)!Deserved(Seen(k))
          /\ pc = "done" => results[k] # "none"
      BY DEF Relied
    <3> HIDE DEF h, n
    <3>4. /\ [m \in Numbers |-> results[<<h, m>>]][n] = results[k]
          /\ [m \in Numbers |-> results'[<<h, m>>]][n] = results'[k]
          /\ [m \in Numbers |-> IF h \in captured THEN host[<<h, m>>] ELSE "none"][n] = Seen(k)
          /\ [m \in Numbers |-> IF h \in captured' THEN host'[<<h, m>>] ELSE "none"][n] = Seen(k)'
      BY <3>1 DEF Seen
    <3>5. ASSUME NEW S \in SUBSET Numbers, HostScan(h)!Report(S)
          PROVE  \/ results'[k] = results[k]
                 \/ results'[k] \in HostScan(h)!Deserved(Seen(k))
      BY <3>1, <3>4, <3>5 DEF HostScan!Report
    <3>6. CASE UNCHANGED HostScan(h)!pvars
      <4>1. results'[k] = results[k]
        BY <3>4, <3>6 DEF HostScan!pvars
      <4>2. Seen(k)' = Seen(k)
        BY <3>4, <3>6 DEF HostScan!pvars
      <4>3. pc' = "done" => pc = "done"
        BY <3>6 DEF HostScan!pvars
      <4> QED BY <3>3, <4>1, <4>2, <4>3 DEF h
    <3>7. CASE HostScan(h)!Decide \/ HostScan(h)!Expire
      <4>1. PICK S \in SUBSET Numbers : HostScan(h)!Report(S)
        BY <3>7 DEF HostScan!Decide, HostScan!Expire
      <4>2. Seen(k)' = Seen(k)
        BY <3>4, <3>7 DEF HostScan!Decide, HostScan!Expire
      <4>3. pc' # "done"
        BY <3>7 DEF HostScan!Decide, HostScan!Expire
      <4> QED BY <3>3, <3>5, <4>1, <4>2, <4>3 DEF h
    <3>8. CASE HostScan(h)!Complete
      <4>1. /\ results'[k] = results[k] /\ Seen(k)' = Seen(k)
            /\ results[k] # "none"
        BY <3>1, <3>4, <3>8 DEF HostScan!Complete
      <4> QED BY <3>3, <4>1 DEF h
    <3>9. CASE HostScan(h)!Fail
      <4>1. results'[k] = results[k] /\ Seen(k)' = Seen(k)
        BY <3>4, <3>9 DEF HostScan!Fail
      <4>2. pc' # "done"
        BY <3>9 DEF HostScan!Fail
      <4> QED BY <3>3, <4>1, <4>2 DEF h
    <3> QED BY <3>2, <3>6, <3>7, <3>8, <3>9 DEF HostScan!ScanNext
  <2> QED BY <2>1 DEF Relied, HostScan!Deserved
<1> QED BY <1>1, <1>2, PTL DEF HostPromises

\* So whatever the network does, and however the hosts share the loop, a scan of
\* several hosts that returns is complete and earned.
THEOREM ScanIsReliable == Spec => []Relied
BY KeepsPromises, PromisesAreEnough, PTL
=============================================================================
