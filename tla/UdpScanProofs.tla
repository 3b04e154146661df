---------------------------- MODULE UdpScanProofs ----------------------------
(***************************************************************************)
(* Proofs about UdpScan, for any set of ports, any number of hosts, any    *)
(* limits and any number of retries.  Nothing is assumed of the congestion *)
(* window that one host leaves to the next: these promises do not rest on  *)
(* its size.                                                               *)
(***************************************************************************)
EXTENDS UdpScan, FiniteSetTheorems, TLAPS

USE DEF NoVerdict, Verdicts

PortsTyped ==
  /\ nth \in Nat
  /\ host \in [Ports -> Answers]
  /\ busy \subseteq Ports
  /\ unsent \subseteq Ports
  /\ outstanding \subseteq Ports
  /\ retry \subseteq Ports
  /\ tryno \in [Ports -> Nat]
  /\ results \in [Ports -> Verdicts \cup {NoVerdict}]
  /\ sent \in [Ports -> Nat]

\* The history of a port fits its place: it is unsent until its first probe,
\* each later probe is a retry, and only a port with a retry left is retried.
Probed ==
  \A p \in Ports :
    /\ p \in unsent => sent[p] = 0 /\ tryno[p] = 0
    /\ p \notin unsent => sent[p] = tryno[p] + 1
    /\ p \in outstanding \cup retry => p \notin unsent
    /\ p \in retry => tryno[p] < MaxRetries
    /\ tryno[p] <= MaxRetries

\* In the last wait every port that was probed has a verdict, one that is still
\* in flight the one of the expiry.
LastWait ==
  /\ pc \in {"final", "expired"} => \A p \in Ports : p \in unsent \/ p \in Decided
  /\ pc = "final" => \A p \in outstanding : results[p] = "OpenOrFiltered"
  /\ pc = "done" => Decided = Ports

InFlightBounded == Cardinality(outstanding \cup retry) <= MaxParallelism

\* Inductive.
UInv ==
  PortsTyped /\ EveryPortTracked /\ Probed /\ LastWait /\ VerdictEarned /\
  InFlightBounded

LEMMA FreshScan ==
  ASSUME nth \in Nat, host \in [Ports -> Answers], busy \subseteq Ports,
         pc = "head", unsent = Ports,
         outstanding = {}, retry = {}, tryno = [p \in Ports |-> 0],
         results = [p \in Ports |-> NoVerdict], sent = [p \in Ports |-> 0]
  PROVE  UInv
<1>1. PortsTyped /\ Probed /\ LastWait /\ VerdictEarned
  BY UdpAssumption DEF PortsTyped, Probed, LastWait, VerdictEarned
<1>2. EveryPortTracked
  BY DEF EveryPortTracked, Decided
<1>3. Cardinality(outstanding \cup retry) = 0
  <2>1. outstanding \cup retry = {}
    OBVIOUS
  <2>2. QED
    BY <2>1, FS_EmptySet
<1>4. InFlightBounded
  BY <1>3, UdpAssumption DEF InFlightBounded
<1>5. QED
  BY <1>1, <1>2, <1>4 DEF UInv

LEMMA UInvInit == Init => UInv
BY FreshScan DEF Init

LEMMA UInvNextHost == ASSUME UInv, NextHost PROVE UInv'
<1>1. /\ nth' \in Nat /\ host' \in [Ports -> Answers] /\ busy' \subseteq Ports
      /\ pc' = "head"
      /\ unsent' = Ports /\ outstanding' = {} /\ retry' = {}
      /\ tryno' = [p \in Ports |-> 0]
      /\ results' = [p \in Ports |-> NoVerdict]
      /\ sent' = [p \in Ports |-> 0]
  BY DEF NextHost, StartScan, UInv, PortsTyped
<1>2. PortsTyped' /\ Probed' /\ LastWait' /\ VerdictEarned'
  BY <1>1, UdpAssumption DEF PortsTyped, Probed, LastWait, VerdictEarned
<1>3. EveryPortTracked'
  BY <1>1 DEF EveryPortTracked, Decided
<1>4. outstanding' \cup retry' = {}
  BY <1>1
<1>5. InFlightBounded'
  BY <1>4, FS_EmptySet, UdpAssumption DEF InFlightBounded
<1>6. QED
  BY <1>2, <1>3, <1>5 DEF UInv

\* The ports stay where they are and only the phase of the loop changes.
LEMMA UInvPhase ==
  ASSUME UInv,
         UNCHANGED <<nth, host, busy, unsent, outstanding, retry, tryno, results, sent>>,
         Running' \/ pc' = "done" => Running \/ pc = "done",
         pc' \in {"head", "send", "drain", "check"} => retry = {},
         pc' = "final" => pc = "final",
         pc' = "expired" => pc \in {"final", "expired"},
         pc' = "done" => Decided = Ports
  PROVE  UInv'
<1>1. PortsTyped' /\ Probed' /\ VerdictEarned' /\ InFlightBounded'
  BY DEF UInv, PortsTyped, Probed, VerdictEarned, InFlightBounded
<1>2. Decided' = Decided
  BY DEF Decided
<1>3. EveryPortTracked'
  BY <1>2 DEF UInv, EveryPortTracked
<1>4. LastWait'
  BY <1>2 DEF UInv, LastWait
<1>5. QED
  BY <1>1, <1>3, <1>4 DEF UInv

\* A probe is sent for the first time.
LEMMA UInvSendNew == ASSUME UInv, NEW p \in Ports, SendNew(p) PROVE UInv'
<1> USE DEF UInv
<1>1. /\ pc = "send" /\ pc' = "send" /\ retry = {} /\ retry' = {} /\ p \in unsent
      /\ unsent' = unsent \ {p} /\ outstanding' = outstanding \cup {p}
      /\ sent' = [sent EXCEPT ![p] = @ + 1]
      /\ UNCHANGED <<nth, host, busy, tryno, results>>
  BY DEF SendNew, EveryPortTracked
<1>2. PortsTyped' /\ LastWait'
  BY <1>1 DEF PortsTyped, LastWait
<1>3. Probed'
  BY <1>1 DEF Probed, PortsTyped
<1>4. VerdictEarned'
  BY <1>1 DEF VerdictEarned, PortsTyped
<1>5. Decided' = Decided
  BY <1>1 DEF Decided
<1>6. EveryPortTracked'
  BY <1>1, <1>5 DEF EveryPortTracked, Running
<1>7. InFlightBounded'
  <2>1. IsFiniteSet(outstanding) /\ p \notin outstanding
    BY <1>1, UdpAssumption, FS_Subset DEF PortsTyped, Probed
  <2>2. Cardinality(outstanding \cup {p}) = Cardinality(outstanding) + 1
    BY <2>1, FS_AddElement
  <2>3. Cardinality(outstanding) \in Nat /\ Cardinality(outstanding) < MaxParallelism
    BY <2>1, FS_CardinalityType DEF SendNew, WindowOpen
  <2>4. outstanding' \cup retry' = outstanding \cup {p}
    BY <1>1
  <2>5. Cardinality(outstanding' \cup retry') = Cardinality(outstanding) + 1
    BY <2>2, <2>4
  <2>6. MaxParallelism \in Nat
    BY UdpAssumption
  <2>7. Cardinality(outstanding) + 1 <= MaxParallelism
    BY <2>3, <2>6
  <2>8. QED
    BY <2>5, <2>7 DEF InFlightBounded
<1>8. QED
  BY <1>2, <1>3, <1>4, <1>6, <1>7

\* Fewer ports in flight or to be retried.
LEMMA FewerInFlight ==
  ASSUME PortsTyped, InFlightBounded,
         outstanding' \cup retry' \subseteq outstanding \cup retry
  PROVE  InFlightBounded'
<1>1. IsFiniteSet(outstanding \cup retry)
  BY UdpAssumption, FS_Subset DEF PortsTyped
<1>2. /\ IsFiniteSet(outstanding' \cup retry')
      /\ Cardinality(outstanding' \cup retry') <= Cardinality(outstanding \cup retry)
  BY <1>1, FS_Subset
<1>3. /\ Cardinality(outstanding \cup retry) \in Nat
      /\ Cardinality(outstanding' \cup retry') \in Nat
  BY <1>1, <1>2, FS_CardinalityType
<1>4. QED
  BY <1>2, <1>3, UdpAssumption DEF InFlightBounded

\* What PortState makes of an answer.
LEMMA PortStateFits ==
  ASSUME NEW a \in Answers, a # "none"
  PROVE  /\ PortState(a) \in {"Open", "Closed", "Filtered"}
         /\ PortState(a) = "Open" => a = "udp"
         /\ PortState(a) = "Closed" => a = "port_unreach"
         /\ PortState(a) = "Filtered" => a = "prohibited"
BY DEF PortState, Answers

\* A packet is matched, in the loop or in the last wait: it names the scanned
\* host, and only a busy port gets one that is not the host's answer.
LEMMA UInvReceive ==
  ASSUME UInv, NEW p \in Ports, NEW pkt \in Arriving(p), Matches(pkt, p),
         pc \in {"drain", "final"},
         outstanding' = outstanding \ {p},
         results' = [results EXCEPT ![p] = PortState(pkt.says)],
         UNCHANGED <<nth, host, busy, pc, unsent, retry, tryno, sent>>
  PROVE  UInv'
<1> USE DEF UInv
<1> DEFINE v == PortState(pkt.says)
<1>1. p \in outstanding /\ p \notin unsent /\ sent[p] > 0
  BY DEF Matches, PortsTyped, Probed
<1>2. /\ pkt.says \in Answers /\ pkt.says # "none"
      /\ pkt.says = host[p] \/ p \in busy
  BY DEF Arriving, Packets, Matches
<1>2a. /\ v \in {"Open", "Closed", "Filtered"}
       /\ v = "Open" => host[p] = "udp" \/ p \in busy
       /\ v = "Closed" => host[p] = "port_unreach" \/ p \in busy
       /\ v = "Filtered" => host[p] = "prohibited" \/ p \in busy
  BY <1>2, PortStateFits
<1> HIDE DEF v
<1>3. \A q \in Ports : results'[q] = IF q = p THEN v ELSE results[q]
  BY <1>1 DEF PortsTyped, v
<1>4. PortsTyped'
  BY <1>1, <1>2a DEF PortsTyped, v
<1>5. Probed'
  BY DEF Probed
<1>6. Decided' = Decided \cup {p}
  BY <1>1, <1>2a, <1>3 DEF Decided
<1>7. EveryPortTracked'
  <2>1. CASE pc = "drain"
    BY <1>1, <1>6, <2>1 DEF EveryPortTracked, Running
  <2>2. CASE pc = "final"
    BY <2>2 DEF EveryPortTracked, Running
  <2>3. QED
    BY <2>1, <2>2
<1>8. LastWait'
  BY <1>1, <1>3, <1>6 DEF LastWait, PortsTyped
<1>9. VerdictEarned'
  BY <1>1, <1>2a, <1>3 DEF VerdictEarned
<1>10. InFlightBounded'
  BY FewerInFlight
<1>11. QED
  BY <1>4, <1>5, <1>7, <1>8, <1>9, <1>10

\* Undecided ports get the verdict of silence.
LEMMA SilenceEarned ==
  ASSUME PortsTyped, VerdictEarned, UNCHANGED <<host, busy, sent>>,
         results' \in [Ports -> Verdicts \cup {NoVerdict}],
         \A p \in Ports : results'[p] \in {results[p], "OpenOrFiltered"}
  PROVE  VerdictEarned'
BY DEF VerdictEarned

LEMMA UInvTimeouts ==
  ASSUME UInv, NEW T \in SUBSET outstanding, CheckTimeouts(T) PROVE UInv'
<1> USE DEF UInv
<1> DEFINE again == {p \in T : tryno[p] < MaxRetries}
<1>1. /\ pc = "check" /\ pc' = "resend" /\ retry = {} /\ retry' = again
      /\ outstanding' = outstanding \ T
      /\ results' = [p \in Ports |-> IF p \in T \ again /\ results[p] = NoVerdict
                                     THEN "OpenOrFiltered" ELSE results[p]]
      /\ UNCHANGED <<nth, host, busy, unsent, tryno, sent>>
  BY DEF CheckTimeouts, EveryPortTracked
<1>2. PortsTyped'
  BY <1>1 DEF PortsTyped
<1>3. Probed'
  BY <1>1 DEF Probed
<1>4. T \intersect Decided = {} /\ T \subseteq Ports /\ again \subseteq T
  BY <1>1 DEF EveryPortTracked, Running, PortsTyped
<1>5. Decided' = Decided \cup (T \ again)
  BY <1>1, <1>4 DEF Decided
<1> HIDE DEF again
<1>6. EveryPortTracked'
  BY <1>1, <1>4, <1>5 DEF EveryPortTracked, Running
<1>7. LastWait'
  BY <1>1 DEF LastWait
<1>8. VerdictEarned'
  BY <1>1, <1>2, SilenceEarned DEF PortsTyped
<1>9. InFlightBounded'
  BY <1>1, <1>4, FewerInFlight
<1>10. QED
  BY <1>2, <1>3, <1>6, <1>7, <1>8, <1>9

LEMMA UInvResend == ASSUME UInv, NEW p \in Ports, Resend(p) PROVE UInv'
<1> USE DEF UInv
<1>1. /\ pc = "resend" /\ pc' = "resend" /\ p \in retry /\ retry' = retry \ {p}
      /\ outstanding' = outstanding \cup {p}
      /\ tryno' = [tryno EXCEPT ![p] = @ + 1]
      /\ sent' = [sent EXCEPT ![p] = @ + 1]
      /\ UNCHANGED <<nth, host, busy, unsent, results>>
  BY DEF Resend
<1>2. PortsTyped' /\ LastWait'
  BY <1>1 DEF PortsTyped, LastWait
<1>3. Probed'
  <2>1. p \notin unsent /\ tryno[p] < MaxRetries /\ p \notin outstanding
    BY <1>1 DEF Probed, EveryPortTracked, Running
  <2>2. \A q \in Ports : /\ tryno'[q] = IF q = p THEN tryno[p] + 1 ELSE tryno[q]
                         /\ sent'[q] = IF q = p THEN sent[p] + 1 ELSE sent[q]
    BY <1>1 DEF PortsTyped
  <2>3. QED
    BY <1>1, <2>1, <2>2, UdpAssumption DEF Probed, PortsTyped
<1>4. VerdictEarned'
  BY <1>1 DEF VerdictEarned, PortsTyped
<1>5. Decided' = Decided
  BY <1>1 DEF Decided
<1>6. EveryPortTracked'
  BY <1>1, <1>5 DEF EveryPortTracked, Running
<1>7. InFlightBounded'
  BY <1>1, FewerInFlight
<1>8. QED
  BY <1>2, <1>3, <1>4, <1>6, <1>7

LEMMA UInvGiveUp == ASSUME UInv, NEW p \in Ports, GiveUp(p) PROVE UInv'
<1> USE DEF UInv
<1>1. /\ pc = "resend" /\ pc' = "resend" /\ p \in retry /\ retry' = retry \ {p}
      /\ results' = [results EXCEPT ![p] = IF @ = NoVerdict THEN "OpenOrFiltered" ELSE @]
      /\ UNCHANGED <<nth, host, busy, unsent, outstanding, tryno, sent>>
  BY DEF GiveUp
<1>2. \A q \in Ports : results'[q] = IF q = p /\ results[q] = NoVerdict
                                     THEN "OpenOrFiltered" ELSE results[q]
  BY <1>1 DEF PortsTyped
<1>3. PortsTyped' /\ LastWait'
  BY <1>1 DEF PortsTyped, LastWait
<1>4. Probed'
  BY <1>1 DEF Probed
<1>5. VerdictEarned'
  BY <1>1, <1>2, <1>3, SilenceEarned DEF PortsTyped
<1>6. Decided' = Decided \cup {p}
  BY <1>2 DEF Decided
<1>7. EveryPortTracked'
  BY <1>1, <1>6 DEF EveryPortTracked, Running
<1>8. InFlightBounded'
  BY <1>1, FewerInFlight
<1>9. QED
  BY <1>3, <1>4, <1>5, <1>7, <1>8

\* The scan timeout, and the end of the last wait.
LEMMA UInvExpiry ==
  ASSUME UInv, (pc = "head" /\ pc' = "final") \/ (pc = "final" /\ pc' = "expired"),
         results' = [p \in Ports |-> IF p \in outstanding /\ results[p] = NoVerdict
                                     THEN "OpenOrFiltered" ELSE results[p]],
         UNCHANGED <<nth, host, busy, unsent, outstanding, retry, tryno, sent>>
  PROVE  UInv'
<1> USE DEF UInv
<1>1. PortsTyped' /\ Probed' /\ InFlightBounded'
  BY DEF PortsTyped, Probed, InFlightBounded
<1>2. \A p \in Ports : results'[p] = IF p \in outstanding /\ results[p] = NoVerdict
                                     THEN "OpenOrFiltered" ELSE results[p]
  OBVIOUS
<1>3. VerdictEarned'
  BY <1>1, <1>2, SilenceEarned DEF PortsTyped
<1>4. EveryPortTracked'
  BY DEF EveryPortTracked, Running
<1>5. \A p \in Ports : p \in unsent \/ p \in Decided'
  <2>1. CASE pc = "head"
    BY <1>2, <2>1 DEF EveryPortTracked, Running, Decided
  <2>2. CASE pc = "final"
    BY <1>2, <2>2 DEF LastWait, Decided
  <2>3. QED
    BY <2>1, <2>2
<1>6. pc = "head" => \A p \in outstanding : results'[p] = "OpenOrFiltered"
  BY <1>2 DEF EveryPortTracked, Running, Decided, PortsTyped
<1>7. LastWait'
  BY <1>5, <1>6 DEF LastWait
<1>8. QED
  BY <1>1, <1>3, <1>4, <1>7

LEMMA UInvNext == UInv /\ [Next]_vars => UInv'
<1> SUFFICES ASSUME UInv, [Next]_vars PROVE UInv'
  OBVIOUS
<1>1. CASE Finish
  <2>1. Decided = Ports /\ retry = {}
    BY <1>1 DEF Finish, WorkLeft, UInv, EveryPortTracked, Running
  <2>2. QED
    BY <1>1, <2>1, UInvPhase DEF Finish, Running
<1>2. CASE StartIteration \/ EndSend
  BY <1>2, UInvPhase DEF StartIteration, EndSend, Running, UInv, EveryPortTracked
<1>3. CASE EndDrain
  BY <1>3, UInvPhase DEF EndDrain, Running, UInv, EveryPortTracked
<1>4. CASE EndIteration
  BY <1>4, UInvPhase DEF EndIteration, Running
<1>5. CASE SendFails
  BY <1>5, UInvPhase DEF SendFails, Running
<1>6. CASE ScanTimeout
  BY <1>6, UInvExpiry DEF ScanTimeout
<1>7. CASE EndFinal
  BY <1>7, UInvExpiry DEF EndFinal
<1>8. ASSUME NEW p \in Ports, Receive(p) \/ ReceiveFinal(p) PROVE UInv'
  <2>1. PICK pkt \in Arriving(p) :
          Matches(pkt, p) /\ results' = [results EXCEPT ![p] = PortState(pkt.says)]
    BY <1>8 DEF Receive, ReceiveFinal
  <2>2. QED
    BY <1>8, <2>1, UInvReceive DEF Receive, ReceiveFinal
<1>9. ASSUME NEW p \in Ports, SendNew(p) \/ Resend(p) \/ GiveUp(p) PROVE UInv'
  BY <1>9, UInvSendNew, UInvResend, UInvGiveUp
<1>10. ASSUME NEW T \in SUBSET outstanding, CheckTimeouts(T) PROVE UInv'
  BY <1>10, UInvTimeouts
<1>11. CASE NextHost
  BY <1>11, UInvNextHost
<1>12. CASE UNCHANGED vars \/ \E p \in Ports : IgnorePacket(p)
  BY <1>12, UInvPhase DEF IgnorePacket, vars, Running, UInv, EveryPortTracked, LastWait
<1>13. QED
  BY <1>1, <1>2, <1>3, <1>4, <1>5, <1>6, <1>7, <1>8, <1>9, <1>10, <1>11, <1>12
  DEF Next, Send, Check, Retries, Stopped

-----------------------------------------------------------------------------
\* No port of any host is lost or held in two places, and no retry outlives its
\* iteration (scan_udp_ports).
THEOREM NoProbeLost == Spec => []EveryPortTracked
<1>1. UInv => EveryPortTracked
  BY DEF UInv
<1>2. QED
  BY <1>1, UInvInit, UInvNext, PTL DEF Spec

\* The load on a host is bounded, whatever the window is: never more probes in
\* flight or about to be sent again than max_parallelism, never more to a port
\* than one and its retries (scan_udp_ports, check_udp_timeouts).
THEOREM LoadIsBounded == Spec => []LoadBounded
<1>1. UInv => LoadBounded
  BY UdpAssumption
  DEF UInv, LoadBounded, InFlightBounded, Probed, PortsTyped
<1>2. QED
  BY <1>1, UInvInit, UInvNext, PTL DEF Spec

\* Whatever packets about other hosts come, late answers of earlier hosts among
\* them: Open, Closed and Filtered come from an answer of the scanned host to a
\* probe of this scan, or, for a port that is busy, from other traffic with that
\* very port (scan_udp_ports).
THEOREM VerdictsAreEarned == Spec => []VerdictEarned
<1>1. UInv => VerdictEarned
  BY DEF UInv
<1>2. QED
  BY <1>1, UInvInit, UInvNext, PTL DEF Spec

\* However a scan ends, other than by an error, the ports that were probed are
\* in the map, those of the expiry included (scan_udp_ports).
THEOREM NothingForgotten == Spec => []ProbedPortsReported
<1>1. UInv => ProbedPortsReported
  BY DEF UInv, ProbedPortsReported, LastWait, Probed
<1>2. QED
  BY <1>1, UInvInit, UInvNext, PTL DEF Spec

\* A verdict is final, except that in the last wait an answer replaces the
\* OpenOrFiltered of the expiry (scan_udp_ports).
THEOREM OnlyImprovements == Spec => VerdictsOnlyImprove
<1> DEFINE Kept == nth' = nth =>
                     \A p \in Ports :
                       results[p] # NoVerdict =>
                         \/ results'[p] = results[p]
                         \/ results[p] = "OpenOrFiltered" /\ pc = "final"
<1>1. UInv /\ [Next]_vars => [Kept]_vars
  <2> SUFFICES ASSUME UInv, Next PROVE Kept
    BY DEF vars
  <2> USE DEF UInv
  <2>1. CASE UNCHANGED results
    BY <2>1
  <2>2. ASSUME NEW p \in Ports, Receive(p) PROVE Kept
    <3>1. results[p] = NoVerdict
      BY <2>2 DEF Receive, Matches, EveryPortTracked, Running, Decided
    <3>2. \E v : results' = [results EXCEPT ![p] = v]
      BY <2>2 DEF Receive
    <3>3. QED
      BY <3>1, <3>2 DEF PortsTyped
  <2>3. ASSUME NEW p \in Ports, ReceiveFinal(p) PROVE Kept
    <3>1. results[p] = "OpenOrFiltered" /\ pc = "final"
      BY <2>3 DEF ReceiveFinal, Matches, LastWait
    <3>2. \E v : results' = [results EXCEPT ![p] = v]
      BY <2>3 DEF ReceiveFinal
    <3>3. QED
      BY <3>1, <3>2 DEF PortsTyped
  <2>4. ASSUME NEW p \in Ports, GiveUp(p) PROVE Kept
    BY <2>4 DEF GiveUp, PortsTyped
  <2>5. ASSUME NEW T \in SUBSET outstanding, CheckTimeouts(T) PROVE Kept
    BY <2>5 DEF CheckTimeouts
  <2>6. CASE ScanTimeout \/ EndFinal
    BY <2>6 DEF ScanTimeout, EndFinal
  <2>7. CASE NextHost
    BY <2>7 DEF NextHost, PortsTyped
  <2>8. QED
    BY <2>1, <2>2, <2>3, <2>4, <2>5, <2>6, <2>7
    DEF Next, Finish, StartIteration, Send, SendNew, EndSend, SendFails, EndDrain,
        IgnorePacket, Check, Retries, Resend, EndIteration, Stopped, vars
<1>2. QED
  BY <1>1, UInvInit, UInvNext, PTL DEF Spec, VerdictsOnlyImprove
=============================================================================
