--------------------------- MODULE TcpScanProofs ---------------------------
(***************************************************************************)
(* What TLAPS proves of TcpScan, for any set of ports, any limits and any  *)
(* number of retries.                                                      *)
(***************************************************************************)
EXTENDS TcpScan, FiniteSetTheorems, TLAPS

USE DEF NoVerdict, Verdicts

-----------------------------------------------------------------------------
(* The congestion controller keeps its type. *)

\* A rounded-up quotient of naturals is a natural.
LEMMA CeilDivNat ==
  ASSUME NEW a \in Nat, NEW b \in Nat \ {0}
  PROVE  CeilDiv(a, b) \in Nat
BY DEF CeilDiv

\* cc_scale is a positive fraction.
LEMMA CcScaleType ==
  ASSUME NEW c \in Controllers
  PROVE  CcScale(c) \in [num : Nat, den : Nat \ {0}]
BY CongestionAssumption DEF CcScale, Controllers

\* on_packet_acked leaves a controller.
LEMMA OnAckedType ==
  ASSUME NEW before \in Controllers
  PROVE  OnAcked(before) \in Controllers
<1> DEFINE c == [before EXCEPT !.received = @ + 1, !.seeded = TRUE]
           s == CcScale(c)
<1>1. c \in Controllers
  <2> DEFINE d == [before EXCEPT !.received = @ + 1]
  <2>1. d \in Controllers
    BY DEF Controllers
  <2>2. c = [d EXCEPT !.seeded = TRUE]
    OBVIOUS
  <2> HIDE DEF d
  <2>3. [d EXCEPT !.seeded = TRUE] \in Controllers
    BY <2>1 DEF Controllers
  <2> QED BY <2>2, <2>3
<1>2. s.num \in Nat /\ s.den \in Nat \ {0}
  BY <1>1, CcScaleType
<1>3. CeilDiv(s.num, s.den) \in Nat /\ CeilDiv(CaIncr * s.num, s.den) \in Nat
  <2>1. CaIncr * s.num \in Nat
    BY <1>2, CongestionAssumption
  <2> QED BY <1>2, <2>1, CeilDivNat
<1> HIDE DEF c, s
<1>4. \A i \in Nat : Grown(c, i) \in Nat
  BY <1>1 DEF Grown, AtMost, Controllers
<1>5. \A w \in Nat : [c EXCEPT !.cwnd = w] \in Controllers
  BY <1>1 DEF Controllers
<1>6. \A w \in Nat : [c EXCEPT !.caAcks = 0, !.cwnd = w] \in Controllers
  BY <1>1 DEF Controllers
<1>7. [c EXCEPT !.caAcks = @ + 1] \in Controllers
  BY <1>1 DEF Controllers
<1> QED BY <1>3, <1>4, <1>5, <1>6, <1>7 DEF OnAcked, c, s

\* A scan starts with a controller.
LEMMA StartType ==
  ASSUME NEW max \in Nat
  PROVE  /\ Reset(NewController(max)) \in Controllers
         /\ Reset(Seed(NewController(max))) \in Controllers
<1>1. NewController(max) \in Controllers
  BY CongestionAssumption DEF NewController, Controllers
<1>2. \A c \in Controllers : Seed(c) \in Controllers
  BY DEF Seed, Controllers
<1>3. \A c \in Controllers : Reset(c) \in Controllers
  BY CongestionAssumption DEF Reset, Controllers
<1> QED BY <1>1, <1>2, <1>3

\* maybe_boost_cwnd leaves a controller.
LEMMA MaybeBoostType ==
  ASSUME NEW c \in Controllers
  PROVE  MaybeBoost(c) \in Controllers
BY DEF MaybeBoost, Controllers, AtMost
-----------------------------------------------------------------------------
(* Types. *)

LEMMA InitType == Init => TypeOK
<1> SUFFICES ASSUME Init PROVE TypeOK
  OBVIOUS
<1>1. cc \in Controllers
  BY ScanAssumption, StartType DEF Init
<1> QED BY <1>1 DEF Init, TypeOK, Answers

LEMMA NextType == TypeOK /\ [Next]_vars => TypeOK'
<1> SUFFICES ASSUME TypeOK, [Next]_vars PROVE TypeOK'
  OBVIOUS
<1> USE DEF TypeOK
<1>1. CASE Finish \/ ScanTimeout \/ StartIteration \/ SendFails \/ EndSend \/ EndDrain
  BY <1>1 DEF Finish, ScanTimeout, StartIteration, SendFails, EndSend, EndDrain
<1>2. ASSUME NEW p \in Ports, SendNew(p) PROVE TypeOK'
  BY <1>2 DEF SendNew
<1>3. ASSUME NEW p \in Ports, SendRetry(p) PROVE TypeOK'
  BY <1>3 DEF SendRetry
<1>4. ASSUME NEW p \in Ports, NEW pkt \in Capturable(p), ReceiveAnswer(p, pkt)
      PROVE  TypeOK'
  <2>1. cc' \in Controllers
    <3>1. RecordExpected(cc) \in Controllers
      BY DEF RecordExpected, Controllers
    <3> QED BY <1>4, <3>1, OnAckedType DEF ReceiveAnswer
  <2>2. maxTryno' \in Nat
    BY <1>4 DEF ReceiveAnswer, AtLeast
  <2>3. results' \in [Ports -> Verdicts \cup {NoVerdict}]
    BY <1>4 DEF ReceiveAnswer, PortState
  <2> QED BY <1>4, <2>1, <2>2, <2>3 DEF ReceiveAnswer
<1>5. ASSUME NEW T \in SUBSET outstanding, CheckTimeouts(T)
      PROVE  TypeOK'
  <2>1. Cardinality(T) \in Nat
    BY ScanAssumption, FS_Subset, FS_CardinalityType
  <2>2. [cc EXCEPT !.expected = @ + Cardinality(T)] \in Controllers
    BY <2>1 DEF Controllers
  <2>3. cc' \in Controllers
    BY <1>5, <2>2, MaybeBoostType DEF CheckTimeouts
  <2>4. retry' \subseteq Ports /\ outstanding' \subseteq Ports
    BY <1>5 DEF CheckTimeouts
  <2>5. results' \in [Ports -> Verdicts \cup {NoVerdict}]
    BY <1>5 DEF CheckTimeouts
  <2>6. batch' \in Nat /\ pc' = "head"
    BY <1>5 DEF CheckTimeouts
  <2> QED BY <1>5, <2>3, <2>4, <2>5, <2>6 DEF CheckTimeouts
<1>6. CASE UNCHANGED vars
  BY <1>6 DEF vars
<1> QED
  BY <1>1, <1>2, <1>3, <1>4, <1>5, <1>6
     DEF Next, Send, Receive, Check, Stopped, IgnorePacket

\* Every variable of the scan loop keeps its type.
THEOREM TypeCorrect == Spec => []TypeOK
<1>1. Init => TypeOK
  BY InitType
<1>2. TypeOK /\ [Next]_vars => TypeOK'
  BY NextType
<1> QED BY <1>1, <1>2, PTL DEF Spec
-----------------------------------------------------------------------------
(* The places a port can be. *)

\* The invariant the others rest on: types and EveryPortTracked.
Tracked == TypeOK /\ EveryPortTracked

LEMMA InitTracked == Init => Tracked
<1> SUFFICES ASSUME Init PROVE EveryPortTracked
  BY InitType DEF Tracked
<1> QED BY DEF Init, EveryPortTracked, Decided

LEMMA NextTracked == Tracked /\ [Next]_vars => Tracked'
<1> SUFFICES ASSUME TypeOK, EveryPortTracked, [Next]_vars
             PROVE  EveryPortTracked'
  BY NextType DEF Tracked
<1> USE DEF TypeOK, EveryPortTracked, Running, Decided
<1>1. CASE Finish \/ ScanTimeout \/ StartIteration \/ SendFails \/ EndSend \/ EndDrain
  BY <1>1 DEF Finish, ScanTimeout, StartIteration, SendFails, EndSend, EndDrain, WorkLeft
<1>2. ASSUME NEW p \in Ports, SendNew(p) PROVE EveryPortTracked'
  BY <1>2 DEF SendNew
<1>3. ASSUME NEW p \in Ports, SendRetry(p) PROVE EveryPortTracked'
  BY <1>3 DEF SendRetry
<1>4. ASSUME NEW p \in Ports, NEW pkt \in Capturable(p), ReceiveAnswer(p, pkt)
      PROVE  EveryPortTracked'
  <2>1. PortState(pkt) \in Verdicts
    BY DEF PortState
  <2>2. Decided' = Decided \cup {p}
    BY <1>4, <2>1 DEF ReceiveAnswer
  <2> QED BY <1>4, <2>2 DEF ReceiveAnswer
<1>5. ASSUME NEW T \in SUBSET outstanding, CheckTimeouts(T)
      PROVE  EveryPortTracked'
  <2> DEFINE again == {p \in T : tryno[p] < AllowedTryno}
  <2>1. /\ outstanding' = outstanding \ T
        /\ retry' = retry \cup again
        /\ unsent' = unsent
        /\ pc = "check"
    BY <1>5 DEF CheckTimeouts
  <2>2. results' = [p \in Ports |-> IF p \in T \ again /\ results[p] = NoVerdict
                                    THEN "Filtered" ELSE results[p]]
    BY <1>5 DEF CheckTimeouts
  <2>3. Decided' = Decided \cup (T \ again)
    <3>1. \A p \in T : results[p] = NoVerdict
      BY <2>1
    <3> QED BY <2>2, <3>1
  <2> QED BY <2>1, <2>3
<1>6. CASE UNCHANGED vars
  BY <1>6 DEF vars
<1> QED
  BY <1>1, <1>2, <1>3, <1>4, <1>5, <1>6
     DEF Next, Send, Receive, Check, Stopped, IgnorePacket

\* No probe is lost between ports_iter, outstanding, retry_probes and results.
THEOREM NoProbeLost == Spec => []EveryPortTracked
<1>1. Init => Tracked
  BY InitTracked
<1>2. Tracked /\ [Next]_vars => Tracked'
  BY NextTracked
<1>3. Tracked => EveryPortTracked
  BY DEF Tracked
<1> QED BY <1>1, <1>2, <1>3, PTL DEF Spec
-----------------------------------------------------------------------------
(* Why a verdict is what it is. *)

\* The strengthening behind the three verdict properties: the retry count of
\* a port follows the SYNs it was sent, only decided ports count as answered,
\* retries stay below what check_timeouts allows, and max_successful_tryno is
\* the retry count of some port that answered.
Accounted ==
  /\ \A p \in Ports : IF p \in unsent THEN syns[p] = 0 ELSE syns[p] = tryno[p] + 1
  /\ answered \subseteq Decided
  /\ \A p \in Ports : tryno[p] <= AllowedTryno
  /\ \A p \in retry : tryno[p] < AllowedTryno
  /\ maxTryno = 0 \/ \E q \in answered : tryno[q] = maxTryno

VerdictInv == Tracked /\ Accounted /\ VerdictEarned /\ FilteredEarned

LEMMA InitVerdict == Init => VerdictInv
<1> SUFFICES ASSUME Init PROVE VerdictInv
  OBVIOUS
<1>1. Tracked
  BY InitTracked
<1>2. Accounted
  BY ScanAssumption DEF Init, Accounted, Decided, AllowedTryno, AtMost, AtLeast
<1>3. VerdictEarned /\ FilteredEarned
  BY DEF Init, VerdictEarned, FilteredEarned
<1> QED BY <1>1, <1>2, <1>3 DEF VerdictInv

\* A valid packet of a probed port is the answer of the host.
LEMMA ValidIsReply ==
  ASSUME NEW p \in Ports, NEW pkt \in Capturable(p), ValidResponse(pkt)
  PROVE  /\ PortState(pkt) \in Verdicts
         /\ PortState(pkt) = "Open" => host[p] = "synack"
         /\ PortState(pkt) = "Closed" => host[p] = "rst"
         /\ PortState(pkt) = "Filtered" => host[p] = "odd"
<1>1. pkt \in Reply(host[p])
  BY DEF Capturable, Background, ValidResponse, SynAck, Rst, LoneAck
<1> QED BY <1>1 DEF Reply, ValidResponse, PortState, SynAck, Rst, LoneAck

LEMMA NextVerdict == VerdictInv /\ [Next]_vars => VerdictInv'
<1> SUFFICES ASSUME VerdictInv, [Next]_vars
             PROVE  Accounted' /\ VerdictEarned' /\ FilteredEarned'
  BY NextTracked DEF VerdictInv
<1> USE DEF VerdictInv, Tracked, TypeOK
<1>1. CASE Finish \/ StartIteration \/ SendFails \/ EndSend \/ EndDrain
  BY <1>1 DEF Finish, StartIteration, SendFails, EndSend, EndDrain, Accounted,
              VerdictEarned, FilteredEarned, Decided, AllowedTryno
<1>2. CASE ScanTimeout
  <2>1. \A p \in Ports : results[p] # NoVerdict => results'[p] = results[p]
    BY <1>2 DEF ScanTimeout
  <2>2. \A p \in Ports : results'[p] \in {results[p], "Filtered"}
    BY <1>2 DEF ScanTimeout
  <2>3. Accounted'
    BY <1>2, <2>1 DEF ScanTimeout, Accounted, Decided, AllowedTryno
  <2>4. VerdictEarned'
    BY <1>2, <2>2 DEF ScanTimeout, VerdictEarned
  <2>5. FilteredEarned'
    BY <1>2 DEF ScanTimeout, FilteredEarned
  <2> QED BY <2>3, <2>4, <2>5
<1>3. ASSUME NEW p \in Ports, SendNew(p)
      PROVE  Accounted' /\ VerdictEarned' /\ FilteredEarned'
  <2>1. Accounted'
    BY <1>3, ScanAssumption
       DEF SendNew, Accounted, Decided, AllowedTryno, AtMost, AtLeast,
           EveryPortTracked, Running
  <2>2. VerdictEarned'
    BY <1>3 DEF SendNew, VerdictEarned
  <2>3. FilteredEarned'
    BY <1>3, ScanAssumption DEF SendNew, FilteredEarned, AtMost
  <2> QED BY <2>1, <2>2, <2>3
<1>4. ASSUME NEW p \in Ports, SendRetry(p)
      PROVE  Accounted' /\ VerdictEarned' /\ FilteredEarned'
  <2>1. p \notin unsent /\ p \notin Decided
    BY <1>4 DEF SendRetry, EveryPortTracked, Running
  <2>2. Accounted'
    BY <1>4, <2>1, ScanAssumption
       DEF SendRetry, Accounted, Decided, AllowedTryno, AtMost, AtLeast
  <2>3. VerdictEarned'
    BY <1>4 DEF SendRetry, VerdictEarned
  <2>4. FilteredEarned'
    BY <1>4, ScanAssumption DEF SendRetry, FilteredEarned, AtMost
  <2> QED BY <2>2, <2>3, <2>4
<1>5. ASSUME NEW p \in Ports, NEW pkt \in Capturable(p), ReceiveAnswer(p, pkt)
      PROVE  Accounted' /\ VerdictEarned' /\ FilteredEarned'
  <2>1. /\ ValidResponse(pkt)
        /\ results' = [results EXCEPT ![p] = PortState(pkt)]
        /\ answered' = answered \cup {p}
        /\ UNCHANGED <<host, syns, tryno, unsent, pc, retry>>
        /\ maxTryno' = AtLeast(tryno[p], maxTryno)
        /\ pc = "drain" /\ p \in outstanding
    BY <1>5 DEF ReceiveAnswer
  <2>2. /\ PortState(pkt) \in Verdicts
        /\ PortState(pkt) = "Open" => host[p] = "synack"
        /\ PortState(pkt) = "Closed" => host[p] = "rst"
        /\ PortState(pkt) = "Filtered" => host[p] = "odd"
    BY <2>1, ValidIsReply
  <2>3. AllowedTryno <= AllowedTryno' /\ AllowedTryno \in Nat /\ AllowedTryno' \in Nat
    BY <2>1, ScanAssumption DEF AllowedTryno, AtMost, AtLeast
  <2>4. Accounted'
    <3>1. answered' \subseteq Decided'
      BY <2>1, <2>2 DEF Accounted, Decided
    <3>2. maxTryno' = 0 \/ \E q \in answered' : tryno'[q] = maxTryno'
      BY <2>1 DEF Accounted, AtLeast
    <3>3. \A q \in Ports : tryno'[q] <= AllowedTryno' /\ (q \in retry' => tryno'[q] < AllowedTryno')
      BY <2>1, <2>3 DEF Accounted
    <3> QED BY <2>1, <3>1, <3>2, <3>3 DEF Accounted
  <2>5. VerdictEarned'
    BY <2>1, <2>2 DEF VerdictEarned
  <2>6. FilteredEarned'
    BY <2>1, <2>2 DEF FilteredEarned
  <2> QED BY <2>4, <2>5, <2>6
<1>6. ASSUME NEW T \in SUBSET outstanding, CheckTimeouts(T)
      PROVE  Accounted' /\ VerdictEarned' /\ FilteredEarned'
  <2> DEFINE again == {p \in T : tryno[p] < AllowedTryno}
  <2>1. /\ results' = [p \in Ports |-> IF p \in T \ again /\ results[p] = NoVerdict
                                       THEN "Filtered" ELSE results[p]]
        /\ retry' = retry \cup again
        /\ UNCHANGED <<host, unsent, tryno, maxTryno, syns, answered>>
        /\ pc = "check" /\ pc' = "head"
    BY <1>6 DEF CheckTimeouts
  <2>2. \A p \in T : p \notin unsent /\ p \notin answered
    BY <2>1 DEF EveryPortTracked, Running, Accounted
  <2>3. Accounted'
    BY <2>1 DEF Accounted, Decided, AllowedTryno
  <2>4. VerdictEarned'
    BY <2>1 DEF VerdictEarned
  <2>5. FilteredEarned'
    <3> SUFFICES ASSUME NEW p \in Ports, results'[p] = "Filtered"
                 PROVE  \/ p \in answered /\ host[p] = "odd"
                        \/ p \notin answered /\ syns[p] >= 1 + AtMost(1, MaxRetries)
      BY <2>1 DEF FilteredEarned
    <3>1. CASE p \in T \ again
      <4>1. tryno[p] >= AllowedTryno /\ syns[p] = tryno[p] + 1
        BY <3>1, <2>2, ScanAssumption DEF Accounted, AllowedTryno, AtMost, AtLeast
      <4> QED BY <4>1, <3>1, <2>2, ScanAssumption DEF AllowedTryno, AtMost, AtLeast
    <3>2. CASE p \notin T \ again
      BY <3>2, <2>1 DEF FilteredEarned
    <3> QED BY <3>1, <3>2
  <2> QED BY <2>3, <2>4, <2>5
<1>7. CASE UNCHANGED vars
  BY <1>7 DEF vars, Accounted, VerdictEarned, FilteredEarned, Decided, AllowedTryno
<1> QED
  BY <1>1, <1>2, <1>3, <1>4, <1>5, <1>6, <1>7
     DEF Next, Send, Receive, Check, Stopped, IgnorePacket

\* Open and Closed are what the host said, in answer to a SYN of this scan.
THEOREM VerdictsAreEarned == Spec => []VerdictEarned
<1>1. Init => VerdictInv
  BY InitVerdict
<1>2. VerdictInv /\ [Next]_vars => VerdictInv'
  BY NextVerdict
<1>3. VerdictInv => VerdictEarned
  BY DEF VerdictInv
<1> QED BY <1>1, <1>2, <1>3, PTL DEF Spec

\* Silence takes a second SYN to become a verdict, whatever max_successful_tryno
\* the answers of other ports make of the retries.
THEOREM SilenceIsEarned == Spec => []FilteredEarned
<1>1. Init => VerdictInv
  BY InitVerdict
<1>2. VerdictInv /\ [Next]_vars => VerdictInv'
  BY NextVerdict
<1>3. VerdictInv => FilteredEarned
  BY DEF VerdictInv
<1> QED BY <1>1, <1>2, <1>3, PTL DEF Spec

\* The number of SYNs a port gets follows what the host answered.
THEOREM RetriesAreJustified == Spec => []RetriesJustified
<1>1. Init => VerdictInv
  BY InitVerdict
<1>2. VerdictInv /\ [Next]_vars => VerdictInv'
  BY NextVerdict
<1>3. VerdictInv => RetriesJustified
  <2> SUFFICES ASSUME VerdictInv, NEW p \in Ports
               PROVE  /\ syns[p] <= MaxRetries + 1
                      /\ syns[p] > 2 => \E q \in answered : tryno[q] >= syns[p] - 2
    BY DEF RetriesJustified
  <2>1. syns[p] \in Nat /\ tryno[p] \in Nat /\ maxTryno \in Nat /\ answered \subseteq Ports
    BY DEF VerdictInv, Tracked, TypeOK
  <2>2. syns[p] = 0 \/ syns[p] = tryno[p] + 1
    BY DEF VerdictInv, Accounted
  <2>3. tryno[p] <= MaxRetries /\ (tryno[p] <= 1 \/ tryno[p] <= maxTryno + 1)
    BY <2>1, ScanAssumption DEF VerdictInv, Accounted, AllowedTryno, AtMost, AtLeast
  <2>4. maxTryno = 0 \/ \E q \in answered : tryno[q] = maxTryno
    BY DEF VerdictInv, Accounted
  <2> QED BY <2>1, <2>2, <2>3, <2>4, ScanAssumption
<1> QED BY <1>1, <1>2, <1>3, PTL DEF Spec
-----------------------------------------------------------------------------
(* The window. *)

\* Acknowledgements and boosts bring the window to the maximum or beyond where
\* it was, push it beyond the maximum never, and leave the maximum alone.
WindowKept(before, after) ==
  /\ after.maxCwnd = before.maxCwnd
  /\ after.cwnd >= before.cwnd \/ after.cwnd = before.maxCwnd
  /\ after.cwnd = before.cwnd \/ after.cwnd <= before.maxCwnd

LEMMA OnAckedKeeps ==
  ASSUME NEW before \in Controllers
  PROVE  WindowKept(before, OnAcked(before))
<1> DEFINE c == [before EXCEPT !.received = @ + 1, !.seeded = TRUE]
           s == CcScale(c)
<1>1. /\ c \in Controllers
      /\ c.cwnd = before.cwnd /\ c.maxCwnd = before.maxCwnd
  <2> DEFINE d == [before EXCEPT !.received = @ + 1]
  <2>1. d \in Controllers /\ d.cwnd = before.cwnd /\ d.maxCwnd = before.maxCwnd
    BY DEF Controllers
  <2>2. c = [d EXCEPT !.seeded = TRUE]
    OBVIOUS
  <2> HIDE DEF d
  <2>3. /\ [d EXCEPT !.seeded = TRUE] \in Controllers
        /\ [d EXCEPT !.seeded = TRUE].cwnd = d.cwnd
        /\ [d EXCEPT !.seeded = TRUE].maxCwnd = d.maxCwnd
    BY <2>1 DEF Controllers
  <2> QED BY <2>1, <2>2, <2>3
<1>2. s.num \in Nat /\ s.den \in Nat \ {0}
  BY <1>1, CcScaleType
<1>3. CeilDiv(s.num, s.den) \in Nat /\ CeilDiv(CaIncr * s.num, s.den) \in Nat
  <2>1. CaIncr * s.num \in Nat
    BY <1>2, CongestionAssumption
  <2> QED BY <1>2, <2>1, CeilDivNat
<1> HIDE DEF c, s
<1>4. \A i \in Nat : /\ Grown(c, i) >= c.cwnd \/ Grown(c, i) = c.maxCwnd
                    /\ Grown(c, i) <= c.maxCwnd
  BY <1>1 DEF Grown, AtMost, Controllers
<1>5. \A w \in Nat : (w >= c.cwnd \/ w = c.maxCwnd) /\ w <= c.maxCwnd
                       => WindowKept(c, [c EXCEPT !.cwnd = w])
  BY <1>1 DEF WindowKept, Controllers
<1>6. \A w \in Nat : (w >= c.cwnd \/ w = c.maxCwnd) /\ w <= c.maxCwnd
                       => WindowKept(c, [c EXCEPT !.caAcks = 0, !.cwnd = w])
  BY <1>1 DEF WindowKept, Controllers
<1>7. WindowKept(c, [c EXCEPT !.caAcks = @ + 1])
  BY <1>1 DEF WindowKept, Controllers
<1>8. \A i \in Nat : Grown(c, i) \in Nat
  BY <1>1 DEF Grown, AtMost, Controllers
<1>9. WindowKept(c, OnAcked(before))
  BY <1>3, <1>4, <1>5, <1>6, <1>7, <1>8 DEF OnAcked, c, s
<1> QED BY <1>1, <1>9 DEF WindowKept

LEMMA MaybeBoostKeeps ==
  ASSUME NEW c \in Controllers
  PROVE  WindowKept(c, MaybeBoost(c))
BY DEF WindowKept, MaybeBoost, Controllers, AtMost

\* WindowRespected rests on the controller's maximum being the parallelism
\* limit: a window that is cut to the maximum still holds what is in flight.
WindowInv == TypeOK /\ WindowRespected /\ cc.maxCwnd = MaxParallelism

LEMMA InitWindow == Init => WindowInv
<1> SUFFICES ASSUME Init PROVE WindowInv
  OBVIOUS
<1>1. TypeOK /\ outstanding = {} /\ Cardinality(outstanding) = 0
  BY InitType, FS_EmptySet DEF Init
<1>2. cc.cwnd \in Nat /\ MaxParallelism \in Nat
  BY <1>1, ScanAssumption DEF TypeOK, Controllers
<1>3. cc.maxCwnd = MaxParallelism
  BY DEF Init, Reset, Seed, NewController
<1> QED BY <1>1, <1>2, <1>3 DEF WindowInv, WindowRespected

\* Whatever the loop does, the window is kept.
LEMMA StepKeepsWindow == TypeOK /\ [Next]_vars => WindowKept(cc, cc')
<1> SUFFICES ASSUME TypeOK, [Next]_vars PROVE WindowKept(cc, cc')
  OBVIOUS
<1>a. cc \in Controllers
  BY DEF TypeOK
<1>1. CASE UNCHANGED cc
  BY <1>a, <1>1 DEF WindowKept, Controllers
<1>2. ASSUME NEW p \in Ports, NEW pkt \in Capturable(p), ReceiveAnswer(p, pkt)
      PROVE  WindowKept(cc, cc')
  <2>1. /\ RecordExpected(cc) \in Controllers
        /\ RecordExpected(cc).cwnd = cc.cwnd /\ RecordExpected(cc).maxCwnd = cc.maxCwnd
    BY <1>a DEF RecordExpected, Controllers
  <2>2. WindowKept(RecordExpected(cc), cc')
    BY <1>2, <2>1, OnAckedKeeps DEF ReceiveAnswer
  <2> QED BY <2>1, <2>2 DEF WindowKept
<1>3. ASSUME NEW T \in SUBSET outstanding, CheckTimeouts(T)
      PROVE  WindowKept(cc, cc')
  <2> DEFINE counted == [cc EXCEPT !.expected = @ + Cardinality(T)]
  <2>1. Cardinality(T) \in Nat
    BY ScanAssumption, FS_Subset, FS_CardinalityType DEF TypeOK
  <2>2. counted \in Controllers /\ counted.cwnd = cc.cwnd /\ counted.maxCwnd = cc.maxCwnd
    BY <1>a, <2>1 DEF Controllers
  <2>3. cc' = IF cc.seeded THEN MaybeBoost(counted) ELSE counted
    BY <1>3 DEF CheckTimeouts
  <2> HIDE DEF counted
  <2>4. WindowKept(counted, MaybeBoost(counted)) /\ WindowKept(counted, counted)
    BY <2>2, MaybeBoostKeeps DEF WindowKept, Controllers
  <2> QED BY <2>2, <2>3, <2>4 DEF WindowKept
<1> QED
  BY <1>1, <1>2, <1>3
     DEF Next, Send, Receive, Check, Stopped, IgnorePacket, vars, Finish,
         ScanTimeout, StartIteration, SendFails, EndSend, EndDrain, SendNew, SendRetry

LEMMA NextWindow == WindowInv /\ [Next]_vars => WindowInv'
<1> SUFFICES ASSUME WindowInv, [Next]_vars
             PROVE  WindowRespected' /\ cc'.maxCwnd = MaxParallelism
  BY NextType DEF WindowInv
<1> USE DEF WindowInv
<1>a. TypeOK'
  BY NextType
<1>b. /\ cc \in Controllers /\ cc.cwnd \in Nat /\ cc.maxCwnd \in Nat
      /\ cc' \in Controllers /\ cc'.cwnd \in Nat /\ MaxParallelism \in Nat
  BY <1>a, ScanAssumption DEF TypeOK, Controllers
<1>c. /\ IsFiniteSet(outstanding) /\ Cardinality(outstanding) \in Nat
      /\ \A T \in SUBSET outstanding :
           /\ Cardinality(outstanding \ T) \in Nat
           /\ Cardinality(outstanding \ T) <= Cardinality(outstanding)
  <2>1. IsFiniteSet(outstanding)
    BY ScanAssumption, FS_Subset DEF TypeOK
  <2>2. ASSUME NEW T \in SUBSET outstanding
        PROVE  /\ Cardinality(outstanding \ T) \in Nat
               /\ Cardinality(outstanding \ T) <= Cardinality(outstanding)
    <3>1. outstanding \ T \subseteq outstanding
      OBVIOUS
    <3> QED BY <2>1, <3>1, FS_Subset, FS_CardinalityType
  <2> QED BY <2>1, <2>2, FS_CardinalityType
<1>1. ASSUME UNCHANGED <<outstanding, cc>>
      PROVE  WindowRespected' /\ cc'.maxCwnd = MaxParallelism
  BY <1>1 DEF WindowRespected
<1>2. ASSUME NEW p \in Ports, MaySend, outstanding' = outstanding \cup {p}, cc' = cc
      PROVE  WindowRespected' /\ cc'.maxCwnd = MaxParallelism
  <2>1. Cardinality(outstanding') \in Nat /\ Cardinality(outstanding') <= Cardinality(outstanding) + 1
    BY <1>c, <1>2, FS_AddElement
  <2> QED BY <1>b, <1>c, <1>2, <2>1 DEF MaySend, WindowRespected
<1>3. ASSUME NEW T \in SUBSET outstanding, outstanding' = outstanding \ T,
             WindowKept(cc, cc')
      PROVE  WindowRespected' /\ cc'.maxCwnd = MaxParallelism
  BY <1>b, <1>c, <1>3 DEF WindowKept, WindowRespected
<1>4. ASSUME NEW p \in Ports, NEW pkt \in Capturable(p), ReceiveAnswer(p, pkt)
      PROVE  WindowRespected' /\ cc'.maxCwnd = MaxParallelism
  <2>1. {p} \in SUBSET outstanding /\ outstanding' = outstanding \ {p}
    BY <1>4 DEF ReceiveAnswer
  <2> QED BY <1>3, <2>1, StepKeepsWindow
<1>5. ASSUME NEW T \in SUBSET outstanding, CheckTimeouts(T)
      PROVE  WindowRespected' /\ cc'.maxCwnd = MaxParallelism
  <2>1. outstanding' = outstanding \ T
    BY <1>5 DEF CheckTimeouts
  <2> QED BY <1>3, <2>1, StepKeepsWindow
<1>6. CASE Finish \/ ScanTimeout \/ StartIteration \/ SendFails \/ EndSend \/ EndDrain
  BY <1>1, <1>6 DEF Finish, ScanTimeout, StartIteration, SendFails, EndSend, EndDrain
<1>7. ASSUME NEW p \in Ports, SendNew(p) \/ SendRetry(p)
      PROVE  WindowRespected' /\ cc'.maxCwnd = MaxParallelism
  BY <1>2, <1>7 DEF SendNew, SendRetry
<1>8. CASE UNCHANGED vars
  BY <1>1, <1>8 DEF vars
<1> QED
  BY <1>4, <1>5, <1>6, <1>7, <1>8
     DEF Next, Send, Receive, Check, Stopped, IgnorePacket

\* What is in flight fits the window and the parallelism limit, although answers
\* change the window while probes are in flight.
THEOREM WindowIsRespected == Spec => []WindowRespected
<1>1. Init => WindowInv
  BY InitWindow
<1>2. WindowInv /\ [Next]_vars => WindowInv'
  BY NextWindow
<1>3. WindowInv => WindowRespected
  BY DEF WindowInv
<1> QED BY <1>1, <1>2, <1>3, PTL DEF Spec
-----------------------------------------------------------------------------
(* The refinement: a step of the loop is a step of PortScan or a stutter. *)

LEMMA StepKeepsPromise ==
  ASSUME VerdictInv, [Next]_vars
  PROVE  [Promise!ScanNext]_(Promise!pvars)
<1> USE DEF VerdictInv, Tracked, TypeOK
<1>a. ASSUME NEW S \in SUBSET Ports,
             results' \in [Ports -> Verdicts \cup {NoVerdict}],
             \A p \in S : /\ results[p] = NoVerdict
                          /\ results'[p] \in Promise!Deserved(host[p]),
             \A p \in Ports \ S : results'[p] = results[p]
      PROVE  Promise!Report(S)
  BY <1>a DEF Promise!Report, Promise!Verdicts
<1>1. CASE StartIteration \/ EndSend \/ EndDrain
  BY <1>1 DEF StartIteration, EndSend, EndDrain, Promise!pvars
<1>2. CASE Finish
  <2>1. \A p \in Ports : results[p] # NoVerdict
    BY <1>2 DEF Finish, WorkLeft, EveryPortTracked, Running, Decided
  <2>2. Promise!Complete
    BY <1>2, <2>1 DEF Finish, Promise!Complete
  <2> QED BY <2>2 DEF Promise!ScanNext
<1>3. CASE ScanTimeout
  <2> DEFINE S == {p \in outstanding : results[p] = NoVerdict}
  <2>1. results' \in [Ports -> Verdicts \cup {NoVerdict}]
    BY <1>3 DEF ScanTimeout
  <2>2. \A p \in S : results[p] = NoVerdict /\ results'[p] \in Promise!Deserved(host[p])
    BY <1>3 DEF ScanTimeout, Promise!Deserved, Answers
  <2>3. \A p \in Ports \ S : results'[p] = results[p]
    BY <1>3 DEF ScanTimeout
  <2>4. Promise!Report(S) /\ S \in SUBSET Ports
    BY <1>a, <2>1, <2>2, <2>3
  <2>5. Promise!Expire
    BY <1>3, <2>4 DEF ScanTimeout, Promise!Expire
  <2> QED BY <2>5 DEF Promise!ScanNext
<1>4. CASE SendFails
  <2>1. Promise!Fail
    BY <1>4 DEF SendFails, Promise!Fail
  <2> QED BY <2>1 DEF Promise!ScanNext
<1>5. ASSUME NEW p \in Ports, SendNew(p) \/ SendRetry(p)
      PROVE  UNCHANGED Promise!pvars
  BY <1>5 DEF SendNew, SendRetry, Promise!pvars
<1>6. ASSUME NEW p \in Ports, NEW pkt \in Capturable(p), ReceiveAnswer(p, pkt)
      PROVE  Promise!Decide
  <2>1. /\ pc = "drain" /\ p \in outstanding /\ UNCHANGED <<host, pc>>
        /\ results' = [results EXCEPT ![p] = PortState(pkt)]
        /\ ValidResponse(pkt)
    BY <1>6 DEF ReceiveAnswer
  <2>2. results[p] = NoVerdict
    BY <2>1 DEF EveryPortTracked, Running, Decided
  <2>3. PortState(pkt) \in Verdicts /\ PortState(pkt) \in Promise!Deserved(host[p])
    BY <2>1, ValidIsReply DEF Promise!Deserved, Answers
  <2>4. Promise!Report({p})
    BY <1>a, <2>1, <2>2, <2>3
  <2> QED BY <2>1, <2>4 DEF Promise!Decide
<1>7. ASSUME NEW T \in SUBSET outstanding, CheckTimeouts(T)
      PROVE  Promise!Decide
  <2> DEFINE again == {p \in T : tryno[p] < AllowedTryno}
             S == {p \in T \ again : results[p] = NoVerdict}
  <2>1. /\ pc = "check" /\ pc' = "head" /\ UNCHANGED host
        /\ results' = [p \in Ports |-> IF p \in T \ again /\ results[p] = NoVerdict
                                       THEN "Filtered" ELSE results[p]]
    BY <1>7 DEF CheckTimeouts
  <2>2. results' \in [Ports -> Verdicts \cup {NoVerdict}]
    BY <2>1
  <2>3. \A p \in S : results[p] = NoVerdict /\ results'[p] \in Promise!Deserved(host[p])
    BY <2>1 DEF Promise!Deserved, Answers
  <2>4. \A p \in Ports \ S : results'[p] = results[p]
    BY <2>1
  <2>5. Promise!Report(S) /\ S \in SUBSET Ports
    BY <1>a, <2>2, <2>3, <2>4
  <2> QED BY <2>1, <2>5 DEF Promise!Decide
<1>8. CASE UNCHANGED vars
  BY <1>8 DEF vars, Promise!pvars
<1> QED
  BY <1>1, <1>2, <1>3, <1>4, <1>5, <1>6, <1>7, <1>8
     DEF Next, Send, Receive, Check, Stopped, IgnorePacket, Promise!ScanNext

\* The scan loop implements PortScan: what the orchestrator may rely on holds for
\* any ports, limits and retries, and whatever the network does.
THEOREM KeepsPromise == Spec => ScanPromise
<1>1. Init => Promise!ScanInit
  BY DEF Init, Promise!ScanInit
<1>2. Init => VerdictInv
  BY InitVerdict
<1>3. VerdictInv /\ [Next]_vars => VerdictInv'
  BY NextVerdict
<1>4. VerdictInv /\ [Next]_vars => [Promise!ScanNext]_(Promise!pvars)
  BY StepKeepsPromise
<1> QED BY <1>1, <1>2, <1>3, <1>4, PTL DEF Spec, ScanPromise, Promise!ScanSpec

\* What the orchestrator relies on: a scan that returns has decided every port,
\* and no port has a verdict its host does not deserve.
Relied ==
  /\ pc = "done" => \A p \in Ports : results[p] # NoVerdict
  /\ \A p \in Ports : results[p] \in {NoVerdict} \cup Promise!Deserved(host[p])

\* The promise by itself, whoever keeps it, gives the caller that: nothing else
\* about the loop is used.
THEOREM PromiseIsEnough == ScanPromise => []Relied
<1> DEFINE Typed == results \in [Ports -> Verdicts \cup {NoVerdict}]
           Kept == Relied /\ Typed
<1>1. Promise!ScanInit => Kept
  <2> SUFFICES ASSUME Promise!ScanInit PROVE Kept
    OBVIOUS
  <2>1. results = [p \in Ports |-> NoVerdict] /\ pc # "done"
    BY DEF Promise!ScanInit
  <2> QED BY <2>1 DEF Relied
<1>2. Kept /\ [Promise!ScanNext]_(Promise!pvars) => Kept'
  <2> SUFFICES ASSUME Kept, [Promise!ScanNext]_(Promise!pvars) PROVE Kept'
    OBVIOUS
  <2>1. ASSUME NEW S \in SUBSET Ports, Promise!Report(S), host' = host, pc' # "done"
        PROVE  Kept'
    <3>1. Typed'
      BY <2>1 DEF Promise!Report, Promise!Verdicts
    <3>2. \A p \in Ports : results'[p] \in {NoVerdict} \cup Promise!Deserved(host[p])
      BY <2>1 DEF Promise!Report, Relied
    <3> QED BY <2>1, <3>1, <3>2 DEF Relied, Promise!Deserved
  <2>2. CASE Promise!Decide
    BY <2>1, <2>2 DEF Promise!Decide
  <2>3. CASE Promise!Expire
    BY <2>1, <2>3 DEF Promise!Expire
  <2>4. CASE Promise!Complete
    BY <2>4 DEF Promise!Complete, Promise!Deserved, Relied
  <2>5. CASE Promise!Fail
    <3>1. results' = results /\ host' = host /\ pc' # "done"
      BY <2>5 DEF Promise!Fail
    <3> QED BY <3>1 DEF Promise!Deserved, Relied
  <2>6. CASE UNCHANGED Promise!pvars
    <3>1. results' = results /\ host' = host /\ (pc' = "done" => pc = "done")
      BY <2>6 DEF Promise!pvars
    <3> QED BY <3>1 DEF Promise!Deserved, Relied
  <2> QED BY <2>2, <2>3, <2>4, <2>5, <2>6 DEF Promise!ScanNext
<1>3. Kept => Relied
  OBVIOUS
<1> QED BY <1>1, <1>2, <1>3, PTL DEF ScanPromise, Promise!ScanSpec

\* So whatever the network does, a TCP scan that returns is complete and earned.
THEOREM ScanIsReliable == Spec => []Relied
BY KeepsPromise, PromiseIsEnough, PTL
=============================================================================
