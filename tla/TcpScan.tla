------------------------------ MODULE TcpScan ------------------------------
(***************************************************************************)
(* ParallelScanEngine::scan_ports of crates/rustnmap-scan/src/ultrascan.rs *)
(* the TCP SYN scan of one host.  One task runs a loop of four phases:     *)
(*                                                                         *)
(*   head   the loop condition and the scan timeout;                       *)
(*   send   SYNs, new ports before retries, while the congestion window,   *)
(*          the parallelism limit and the batch limit allow;               *)
(*   drain  packets are taken from the capture engine and matched against  *)
(*          the probes in flight;                                          *)
(*   check  probes that timed out are queued for a retry or given up.      *)
(*                                                                         *)
(* The host answers a port in one way throughout the scan (host), and the  *)
(* network is free to lose, delay, repeat and reorder: once a SYN to a     *)
(* port has left, the answer to it can be captured in any later drain, any *)
(* number of times, or never.  The capture also shows the traffic of other *)
(* connections of the same host and port and stale answers of an earlier   *)
(* scan, whose acknowledgement number is not the probe's.                  *)
(*                                                                         *)
(* Time is abstract: any probe in flight may have timed out when check     *)
(* runs, since the timeout follows the measured RTT (RttEstimator) and can *)
(* be shorter than the next round trip.  The rate limiter and the scan     *)
(* delay only put the task to sleep.                                       *)
(***************************************************************************)
EXTENDS CongestionControl, FiniteSets

CONSTANTS
  Ports,           \* the ports asked for (no duplicates)
  MaxParallelism,  \* max_parallelism, also the congestion maximum
  BatchSize,       \* BATCH_SIZE
  MaxRetries       \* config.max_retries

ASSUME ScanAssumption ==
  /\ IsFiniteSet(Ports)
  /\ MaxParallelism \in Nat \ {0}
  /\ BatchSize \in Nat \ {0}
  /\ MaxRetries \in Nat

VARIABLES
  host,         \* how each port answers a SYN
  capturing,    \* packet_engine is Some
  pc,           \* the phase of the loop, or how it ended
  unsent,       \* ports_iter
  outstanding,  \* outstanding, keyed by port: there is one target
  retry,        \* retry_probes
  tryno,        \* retry_count of a port's probe
  results,      \* results
  batch,        \* probes_sent_this_batch
  maxTryno,     \* max_successful_tryno
  cc,           \* the congestion controller
  syns,         \* history: SYNs sent to a port
  answered      \* history: ports decided by a matched packet

vars == <<host, capturing, pc, unsent, outstanding, retry, tryno, results,
          batch, maxTryno, cc, syns, answered>>

NoVerdict == "none"
Verdicts == {"Open", "Closed", "Filtered"}

\* synack and rst are the answers of an open and of a closed port; odd is an
\* answer that is neither (a lone ACK), isn0 a SYN+ACK whose sequence number
\* is 0, none a dropped SYN.
Answers == {"synack", "rst", "odd", "isn0", "none"}

Decided == {p \in Ports : results[p] # NoVerdict}

TypeOK ==
  /\ host \in [Ports -> Answers]
  /\ capturing \in BOOLEAN
  /\ pc \in {"head", "send", "drain", "check", "done", "expired", "failed"}
  /\ unsent \subseteq Ports
  /\ outstanding \subseteq Ports
  /\ retry \subseteq Ports
  /\ tryno \in [Ports -> Nat]
  /\ results \in [Ports -> Verdicts \cup {NoVerdict}]
  /\ batch \in Nat
  /\ maxTryno \in Nat
  /\ cc \in Controllers
  /\ syns \in [Ports -> Nat]
  /\ answered \subseteq Ports
-----------------------------------------------------------------------------
\* A captured packet of port p, after parse_packet.
SynAck(seqZero, ackOk) ==
  [syn |-> TRUE, ack |-> TRUE, rst |-> FALSE, seqZero |-> seqZero, ackOk |-> ackOk]
Rst(ackOk) ==
  [syn |-> FALSE, ack |-> TRUE, rst |-> TRUE, seqZero |-> TRUE, ackOk |-> ackOk]
LoneAck(ackOk) ==
  [syn |-> FALSE, ack |-> TRUE, rst |-> FALSE, seqZero |-> FALSE, ackOk |-> ackOk]

\* What the host sends back for a probe to a port that answers a.
Reply(a) ==
  CASE a = "synack" -> {SynAck(FALSE, TRUE)}
    [] a = "rst"    -> {Rst(TRUE)}
    [] a = "odd"    -> {LoneAck(TRUE)}
    [] a = "isn0"   -> {SynAck(TRUE, TRUE)}
    [] OTHER        -> {}

\* Packets from the same address and port that answer some other segment.
Background == {SynAck(FALSE, FALSE), Rst(FALSE), LoneAck(FALSE)}

Capturable(p) == (IF syns[p] > 0 THEN Reply(host[p]) ELSE {}) \cup Background

\* Slip: the acknowledgement number is not compared.
ValidResponseNoAck(pkt) == pkt.rst \/ ~pkt.seqZero

\* ack == seq + 1, and a sequence number unless the packet is a RST.
ValidResponse(pkt) == pkt.ackOk /\ (pkt.rst \/ ~pkt.seqZero)

\* ReceivedPacket::port_state
PortState(pkt) ==
  IF pkt.syn /\ pkt.ack THEN "Open"
  ELSE IF pkt.rst THEN "Closed"
  ELSE "Filtered"
-----------------------------------------------------------------------------
Init ==
  /\ host \in [Ports -> Answers]
  /\ capturing \in BOOLEAN
  /\ pc = "head"
  /\ unsent = Ports
  /\ outstanding = {}
  /\ retry = {}
  /\ tryno = [p \in Ports |-> 0]
  /\ results = [p \in Ports |-> NoVerdict]
  /\ batch = 0
  /\ maxTryno = 0
  /\ cc \in {Reset(NewController(MaxParallelism)),
             Reset(Seed(NewController(MaxParallelism)))}
  /\ syns = [p \in Ports |-> 0]
  /\ answered = {}

\* Slip: the loop condition of scan_udp_ports, which forgets the retries.
WorkLeftNoRetry == unsent # {} \/ outstanding # {}

WorkLeft == unsent # {} \/ outstanding # {} \/ retry # {}

\* The loop condition fails: Ok(results).
Finish ==
  /\ pc = "head"
  /\ ~WorkLeft
  /\ pc' = "done"
  /\ UNCHANGED <<host, capturing, unsent, outstanding, retry, tryno, results,
                 batch, maxTryno, cc, syns, answered>>

\* start_time.elapsed() > scan_timeout: only the probes in flight are
\* reported; ports never sent and ports waiting for a retry are not.
ScanTimeout ==
  /\ pc = "head"
  /\ WorkLeft
  /\ results' = [p \in Ports |-> IF p \in outstanding /\ results[p] = NoVerdict
                                 THEN "Filtered" ELSE results[p]]
  /\ pc' = "expired"
  /\ UNCHANGED <<host, capturing, unsent, outstanding, retry, tryno, batch,
                 maxTryno, cc, syns, answered>>

StartIteration ==
  /\ pc = "head"
  /\ WorkLeft
  /\ pc' = "send"
  /\ UNCHANGED <<host, capturing, unsent, outstanding, retry, tryno, results,
                 batch, maxTryno, cc, syns, answered>>

\* Slip: the window compared with <=.
MaySendOneMore ==
  Cardinality(outstanding) <= cc.cwnd /\ batch < BatchSize

MaySend ==
  /\ Cardinality(outstanding) < cc.cwnd
  /\ Cardinality(outstanding) < MaxParallelism
  /\ batch < BatchSize

\* send_probe, on_packet_sent, record_sent.
SendNew(p) ==
  /\ pc = "send" /\ MaySend
  /\ p \in unsent
  /\ unsent' = unsent \ {p}
  /\ outstanding' = outstanding \cup {p}
  /\ tryno' = [tryno EXCEPT ![p] = 0]
  /\ batch' = batch + 1
  /\ syns' = [syns EXCEPT ![p] = @ + 1]
  /\ UNCHANGED <<host, capturing, pc, retry, results, maxTryno, cc, answered>>

\* Slip: the retry is looked at but not taken off the list.
SendRetryKept(p) ==
  /\ pc = "send" /\ MaySend
  /\ unsent = {} /\ p \in retry
  /\ outstanding' = outstanding \cup {p}
  /\ tryno' = [tryno EXCEPT ![p] = @ + 1]
  /\ syns' = [syns EXCEPT ![p] = @ + 1]
  /\ UNCHANGED <<host, capturing, pc, unsent, retry, results, batch, maxTryno,
                 cc, answered>>

\* resend_probe: same source port, same sequence number, not counted in the
\* batch.
SendRetry(p) ==
  /\ pc = "send" /\ MaySend
  /\ unsent = {}
  /\ p \in retry
  /\ retry' = retry \ {p}
  /\ outstanding' = outstanding \cup {p}
  /\ tryno' = [tryno EXCEPT ![p] = @ + 1]
  /\ syns' = [syns EXCEPT ![p] = @ + 1]
  /\ UNCHANGED <<host, capturing, pc, unsent, results, batch, maxTryno, cc,
                 answered>>

\* A send error leaves scan_ports with Err: the results so far are dropped.
SendFails ==
  /\ pc = "send" /\ MaySend
  /\ unsent # {} \/ retry # {}
  /\ pc' = "failed"
  /\ UNCHANGED <<host, capturing, unsent, outstanding, retry, tryno, results,
                 batch, maxTryno, cc, syns, answered>>

\* Without a capture engine the drain is skipped.
EndSend ==
  /\ pc = "send"
  /\ ~MaySend \/ (unsent = {} /\ retry = {})
  /\ pc' = IF capturing THEN "drain" ELSE "check"
  /\ UNCHANGED <<host, capturing, unsent, outstanding, retry, tryno, results,
                 batch, maxTryno, cc, syns, answered>>
-----------------------------------------------------------------------------
\* A packet of port p whose probe is in flight and that acknowledges it.
ReceiveAnswer(p, pkt) ==
  /\ pc = "drain"
  /\ p \in outstanding
  /\ pkt \in Capturable(p)
  /\ ValidResponse(pkt)
  /\ outstanding' = outstanding \ {p}
  /\ maxTryno' = AtLeast(tryno[p], maxTryno)
  /\ cc' = OnAcked(RecordExpected(cc))
  /\ results' = [results EXCEPT ![p] = PortState(pkt)]
  /\ answered' = answered \cup {p}
  /\ UNCHANGED <<host, capturing, pc, unsent, retry, tryno, batch, syns>>

\* Any other packet changes nothing: an invalid one puts the probe back, one
\* without a probe in flight is dropped, even if the probe waits in retry.
IgnorePacket(p, pkt) ==
  /\ pc = "drain"
  /\ outstanding # {}
  /\ pkt \in Capturable(p)
  /\ p \notin outstanding \/ ~ValidResponse(pkt)
  /\ UNCHANGED vars

\* The drain ends at its deadline or when nothing is in flight.
EndDrain ==
  /\ pc = "drain"
  /\ pc' = "check"
  /\ UNCHANGED <<host, capturing, unsent, outstanding, retry, tryno, results,
                 batch, maxTryno, cc, syns, answered>>

\* Slips: retries that ignore what the host answered so far, and no retry at
\* all until some port answered one.
AllowedTrynoFixed == MaxRetries
AllowedTrynoNone == AtMost(maxTryno, MaxRetries)

\* allowed_tryno
AllowedTryno == AtMost(AtLeast(1, maxTryno + 1), MaxRetries)

\* Slip: timeouts wait for the last new port, as in scan_udp_ports.
CheckTimeoutsLate(T) ==
  /\ pc = "check"
  /\ T \subseteq outstanding
  /\ LET due == IF unsent = {} THEN T ELSE {}
         again == {p \in due : tryno[p] < AllowedTryno}
     IN  /\ outstanding' = outstanding \ due
         /\ retry' = retry \cup again
         /\ results' = [p \in Ports |-> IF p \in due \ again THEN "Filtered"
                                        ELSE results[p]]
  /\ batch' = IF batch >= BatchSize THEN 0 ELSE batch
  /\ pc' = "head"
  /\ UNCHANGED <<host, capturing, unsent, tryno, maxTryno, cc, syns, answered>>

\* check_timeouts finds the probes T timed out; then the batch counter is
\* reset if the batch was full, and the window is boosted once the RTT is
\* known.
CheckTimeouts(T) ==
  /\ pc = "check"
  /\ T \subseteq outstanding
  /\ LET again == {p \in T : tryno[p] < AllowedTryno}
         counted == [cc EXCEPT !.expected = @ + Cardinality(T)]
     IN  /\ outstanding' = outstanding \ T
         /\ retry' = retry \cup again
         /\ results' = [p \in Ports |->
                          IF p \in T \ again /\ results[p] = NoVerdict
                          THEN "Filtered" ELSE results[p]]
         /\ cc' = IF cc.seeded THEN MaybeBoost(counted) ELSE counted
  /\ batch' = IF batch >= BatchSize THEN 0 ELSE batch
  /\ pc' = "head"
  /\ UNCHANGED <<host, capturing, unsent, tryno, maxTryno, syns, answered>>
-----------------------------------------------------------------------------
Send == (\E p \in Ports : SendNew(p) \/ SendRetry(p)) \/ EndSend

Receive == \E p \in Ports : \E pkt \in Capturable(p) :
             ReceiveAnswer(p, pkt) \/ IgnorePacket(p, pkt)

Check == \E T \in SUBSET outstanding : CheckTimeouts(T)

Stopped == pc \in {"done", "expired", "failed"} /\ UNCHANGED vars

Next ==
  \/ Finish \/ ScanTimeout \/ StartIteration
  \/ Send \/ SendFails
  \/ Receive \/ EndDrain
  \/ Check
  \/ Stopped

Spec == Init /\ [][Next]_vars

\* The task is always scheduled again; a drain ends at its deadline; and as
\* recommended_timeout is at most max_rtt, a probe that stays in flight while
\* check runs again and again is found timed out in the end.  Nothing is
\* assumed of the network, and the scan timeout need not strike.
Fairness ==
  /\ WF_vars(Finish \/ StartIteration \/ Send)
  /\ WF_vars(EndDrain)
  /\ WF_vars(Check)
  /\ \A p \in Ports :
       SF_vars(\E T \in SUBSET outstanding : p \in T /\ CheckTimeouts(T))

FairSpec == Spec /\ Fairness
-----------------------------------------------------------------------------
Running == pc \in {"head", "send", "drain", "check"}

\* A port is in exactly one place: not sent yet, in flight, waiting for its
\* retry, or decided.  No probe is forgotten between the three collections of
\* the loop, and none is tracked twice.
EveryPortTracked ==
  Running \/ pc = "done" =>
    /\ unsent \cup outstanding \cup retry \cup Decided = Ports
    /\ unsent \cap outstanding = {} /\ unsent \cap retry = {}
    /\ outstanding \cap retry = {}
    /\ (unsent \cup outstanding \cup retry) \cap Decided = {}

\* The probes in flight never outgrow the congestion window or the
\* parallelism limit, whatever acknowledgements do to the window meanwhile.
WindowRespected ==
  /\ Cardinality(outstanding) <= cc.cwnd
  /\ Cardinality(outstanding) <= MaxParallelism

\* A port is reported Open or Closed only if its host said so to one of this
\* scan's SYNs: neither the traffic of another connection with the same
\* address and port nor a stale answer decides a port.
VerdictEarned ==
  \A p \in Ports :
    /\ results[p] = "Open"   => p \in answered /\ host[p] = "synack"
    /\ results[p] = "Closed" => p \in answered /\ host[p] = "rst"

\* One lost packet never makes a port Filtered: unless it gave an answer that
\* says nothing, or the scan timed out, a port is given up only after a second
\* SYN (if the configuration allows retries at all).
FilteredEarned ==
  \A p \in Ports :
    results[p] = "Filtered" /\ pc # "expired" =>
      \/ p \in answered /\ host[p] = "odd"
      \/ p \notin answered /\ syns[p] >= 1 + AtMost(1, MaxRetries)

\* Retries adapt to the network: a port gets a third SYN (a fourth, ...) only
\* once some other port answered a second (a third, ...), and never more than
\* the configured retries.
RetriesJustified ==
  \A p \in Ports :
    /\ syns[p] <= MaxRetries + 1
    /\ syns[p] > 2 => \E q \in answered : tryno[q] >= syns[p] - 2

\* The scan keeps the promise of PortScan.
Promise == INSTANCE PortScan WITH
  verdict <- results,
  status <- CASE pc = "done" -> "complete"
              [] pc = "expired" -> "expired"
              [] pc = "failed" -> "failed"
              [] OTHER -> "running"

ScanPromise == Promise!ScanSpec

\* Even against a host that never answers, every port is decided unless the
\* scan is cut short: no probe starves behind new ports or behind retries.
EveryPortDecided ==
  \A p \in Ports : <>(results[p] # NoVerdict \/ pc \in {"expired", "failed"})
=============================================================================
