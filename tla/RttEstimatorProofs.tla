------------------------- MODULE RttEstimatorProofs -------------------------
(***************************************************************************)
(* What TLAPS proves of RttEstimator, for any timing template and any      *)
(* round-trip times.                                                       *)
(***************************************************************************)
EXTENDS RttEstimator, TLAPS

\* The boxes return what is inside their bounds.
LEMMA BoxBounds ==
  ASSUME NEW v \in Nat
  PROVE  /\ VarBox(v) \in Nat /\ VarFloor <= VarBox(v) /\ VarBox(v) <= VarCeil
         /\ AdaptedMin(v) \in Nat /\ AdaptedMin(v) <= MaxRtt
BY RttAssumption DEF VarBox, AdaptedMin, AtMost, AtLeast

\* The smoothed RTT lies between the old estimate and the new sample.
LEMMA SmoothedBetween ==
  ASSUME NEW old \in Nat, NEW r \in Nat
  PROVE  /\ Smoothed(old, r) \in Nat
         /\ AtMost(old, r) <= Smoothed(old, r)
         /\ Smoothed(old, r) <= AtLeast(old, r)
BY DEF Smoothed, AtMost, AtLeast

\* The mean deviation stays a natural.
LEMMA DeviationType ==
  ASSUME NEW v \in Nat, NEW a \in Nat, NEW b \in Nat
  PROVE  (3 * v + Distance(a, b)) \div 4 \in Nat
<1>1. Distance(a, b) \in Nat
  BY DEF Distance
<1> QED BY <1>1

\* The range of the samples grows around the new estimate.
LEMMA RangeGrows ==
  ASSUME NEW l \in Nat, NEW h \in Nat, NEW old \in Nat, NEW r \in Nat,
         l <= old, old <= h
  PROVE  /\ AtMost(l, r) \in Nat /\ AtLeast(h, r) \in Nat
         /\ AtMost(l, r) <= Smoothed(old, r)
         /\ Smoothed(old, r) <= AtLeast(h, r)
BY DEF Smoothed, AtMost, AtLeast

\* The inductive invariant: types, the bounds of the smoothed RTT and of the
\* adapted minimum, and the variance inside its box, which TimeoutReasonable
\* rests on.
Estimates ==
  /\ TypeOK
  /\ SmoothedWithinSamples
  /\ minRtt <= MaxRtt
  /\ VarFloor <= rttvar

LEMMA InitEstimates == Init => Estimates
<1> SUFFICES ASSUME Init PROVE Estimates
  OBVIOUS
<1>1. InitialRtt \div 2 \in Nat
  BY RttAssumption
<1>2. VarBox(InitialRtt \div 2) \in Nat /\ VarFloor <= VarBox(InitialRtt \div 2)
  BY <1>1, BoxBounds
<1>3. prepared \in BOOLEAN /\ first \in BOOLEAN
  BY DEF Init
<1>4. /\ phase \in {"idle", "scanning"} /\ samples \in 0..MaxSamples
      /\ minRtt = MinRtt /\ initial = InitialRtt /\ srtt = InitialRtt
      /\ rttvar \in Nat /\ VarFloor <= rttvar /\ lo = InitialRtt /\ hi = InitialRtt
  BY <1>2, RttAssumption DEF Init
<1> QED BY <1>3, <1>4, RttAssumption
       DEF Estimates, TypeOK, SmoothedWithinSamples

LEMMA NextEstimates == Estimates /\ [Next]_vars => Estimates'
<1> SUFFICES ASSUME Estimates, [Next]_vars PROVE Estimates'
  OBVIOUS
<1> USE DEF Estimates, TypeOK, SmoothedWithinSamples
<1>1. CASE Prepare
  <2>1. /\ minRtt' \in Nat /\ minRtt' <= MaxRtt
        /\ initial' \in Nat
    BY <1>1, BoxBounds, RttAssumption DEF Prepare
  <2> QED BY <1>1, <2>1 DEF Prepare
<1>2. CASE StartTcp
  <2>1. initial \div 2 \in Nat
    OBVIOUS
  <2>2. rttvar' \in Nat /\ VarFloor <= rttvar'
    BY <1>2, <2>1, BoxBounds DEF StartTcp
  <2> QED BY <1>2, <2>2, RttAssumption DEF StartTcp
<1>3. CASE StartUdp \/ EndScan
  BY <1>3 DEF StartUdp, EndScan
<1>4. ASSUME NEW r \in Rtts, Measure(r) PROVE Estimates'
  <2>1. r \in Nat
    BY RttAssumption
  <2>2. /\ phase' = phase /\ prepared' = prepared /\ first' = FALSE
        /\ minRtt' = minRtt /\ initial' = initial
        /\ samples' \in 0..MaxSamples
    BY <1>4, RttAssumption DEF Measure
  <2>3. CASE first
    <3>1. srtt' = r /\ rttvar' = VarBox(r) /\ lo' = r /\ hi' = r
      BY <1>4, <2>3 DEF Measure
    <3>2. rttvar' \in Nat /\ VarFloor <= rttvar'
      BY <2>1, <3>1, BoxBounds
    <3>3. /\ lo' \in Nat /\ hi' \in Nat /\ srtt' \in Nat
          /\ lo' <= srtt' /\ srtt' <= hi'
      BY <2>1, <3>1
    <3> QED BY <2>2, <3>2, <3>3
  <2>4. CASE ~first
    <3>1. /\ srtt' = Smoothed(srtt, r)
          /\ rttvar' = VarBox((3 * rttvar + Distance(srtt', r)) \div 4)
          /\ lo' = AtMost(lo, r) /\ hi' = AtLeast(hi, r)
      BY <1>4, <2>4 DEF Measure
    <3>2. lo' \in Nat /\ hi' \in Nat /\ lo' <= srtt' /\ srtt' <= hi'
      BY <2>1, <3>1, RangeGrows
    <3>3. srtt' \in Nat
      BY <2>1, <3>1, SmoothedBetween
    <3>4. (3 * rttvar + Distance(srtt', r)) \div 4 \in Nat
      BY <2>1, <3>3, DeviationType
    <3>5. rttvar' \in Nat /\ VarFloor <= rttvar'
      BY <3>1, <3>4, BoxBounds
    <3> QED BY <2>2, <3>2, <3>3, <3>5
  <2> QED BY <2>3, <2>4
<1>5. CASE UNCHANGED vars
  BY <1>5 DEF vars
<1> QED BY <1>1, <1>2, <1>3, <1>4, <1>5 DEF Next

\* The smoothed RTT never leaves the range of the samples it was made from.
THEOREM SmoothedStaysWithin == Spec => []SmoothedWithinSamples
<1>1. Init => Estimates
  BY InitEstimates
<1>2. Estimates /\ [Next]_vars => Estimates'
  BY NextEstimates
<1>3. Estimates => SmoothedWithinSamples
  BY DEF Estimates
<1> QED BY <1>1, <1>2, <1>3, PTL DEF Spec

\* Timeouts stay between what the fastest answer needs and the maximum, and
\* the clamp of the first one has its bounds in order.
THEOREM TimeoutsReasonable == Spec => []TimeoutReasonable
<1>1. Init => Estimates
  BY InitEstimates
<1>2. Estimates /\ [Next]_vars => Estimates'
  BY NextEstimates
<1>3. Estimates => TimeoutReasonable
  BY RttAssumption
     DEF Estimates, TypeOK, SmoothedWithinSamples,
         TimeoutReasonable, Timeout, AtMost, AtLeast
<1> QED BY <1>1, <1>2, <1>3, PTL DEF Spec
=============================================================================
