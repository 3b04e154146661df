------------------------------ MODULE UdpScan ------------------------------
(***************************************************************************)
(* ParallelScanEngine::scan_udp_ports of                                   *)
(* crates/rustnmap-scan/src/ultrascan.rs, called for one host after the    *)
(* other by the orchestrator with the same engine.  The loop resembles     *)
(* scan_ports (TcpScan) but differs where it matters:                      *)
(*                                                                         *)
(*   - the congestion controller is not reset: window, threshold and the   *)
(*     iteration of the last drop are those the previous host left;        *)
(*   - timeouts are looked at only once no port is left to send;           *)
(*   - a retry that finds no room in the window is given up;               *)
(*   - after the scan timeout, a last wait may still improve a verdict.    *)
(*                                                                         *)
(* Packets reach the loop from the receiver task through an unbounded      *)
(* channel.  It captures every UDP and ICMP packet sent to this machine,   *)
(* and the loop takes one for an answer that names the scanned host and a  *)
(* port in flight, whatever local port it was sent to: the answer of a     *)
(* probed port, in any later drain, repeatedly, or never, but also a       *)
(* packet of another conversation of this machine with that host and port. *)
(* Time is abstract, as in TcpScan.                                        *)
(***************************************************************************)
EXTENDS CongestionControl, FiniteSets

CONSTANTS
  Ports,           \* the ports asked for
  MaxParallelism,  \* max_parallelism
  BatchSize,       \* BATCH_SIZE
  MaxRetries,      \* config.max_retries
  Hosts,           \* how many hosts the orchestrator scans
  IterationCap     \* bound: loop_iterations stops counting there

ASSUME UdpAssumption ==
  /\ IsFiniteSet(Ports)
  /\ MaxParallelism \in Nat \ {0}
  /\ BatchSize \in Nat \ {0}
  /\ MaxRetries \in Nat
  /\ Hosts \in Nat \ {0}
  /\ IterationCap \in Nat \ {0}

VARIABLES
  nth,          \* which host is scanned
  host,         \* how each port of it answers a probe
  busy,         \* its ports that other programs of this machine talk to
  pc,           \* the phase of the loop
  unsent,       \* ports_iter
  outstanding,  \* outstanding
  retry,        \* retry_probes
  tryno,        \* retry_count
  results,      \* results
  batch,        \* probes_sent_this_batch
  iteration,    \* loop_iterations
  cc,           \* the engine's congestion controller
  sent          \* history: probes sent to a port

vars == <<nth, host, busy, pc, unsent, outstanding, retry, tryno, results,
          batch, iteration, cc, sent>>

NoVerdict == "none"
Verdicts == {"Open", "Closed", "Filtered", "OpenOrFiltered"}

\* A datagram back, ICMP port unreachable, another ICMP unreachable, nothing.
Answers == {"udp", "port_unreach", "prohibited", "none"}

Decided == {p \in Ports : results[p] # NoVerdict}

TypeOK ==
  /\ nth \in 1..Hosts
  /\ host \in [Ports -> Answers]
  /\ busy \subseteq Ports
  /\ pc \in {"head", "send", "drain", "check", "resend", "final",
             "done", "expired", "failed"}
  /\ unsent \subseteq Ports
  /\ outstanding \subseteq Ports
  /\ retry \subseteq Ports
  /\ tryno \in [Ports -> Nat]
  /\ results \in [Ports -> Verdicts \cup {NoVerdict}]
  /\ batch \in Nat
  /\ iteration \in 0..IterationCap
  /\ cc \in Controllers
  /\ sent \in [Ports -> Nat]
-----------------------------------------------------------------------------
\* ScanResponse::port_state
PortState(a) ==
  CASE a = "udp"          -> "Open"
    [] a = "port_unreach" -> "Closed"
    [] a = "prohibited"   -> "Filtered"

\* What the receiver task makes of a packet that names port p: whether it names
\* the scanned host too, as its source or as the destination of the datagram an
\* ICMP error returns, and what it says.
Packets == [scanned : BOOLEAN, says : Answers \ {"none"}]

\* The answer to a probe of this scan; anything from a port that is busy, also
\* from before its probe; anything about other hosts, late answers of those
\* scanned earlier among it.
Arriving(p) ==
  {pkt \in Packets : \/ ~pkt.scanned
                     \/ p \in busy
                     \/ sent[p] > 0 /\ pkt.says = host[p]}

\* Slip: the port alone is looked up among the probes in flight.
MatchesPortOnly(pkt, p) == p \in outstanding

\* The key (target_ip, port) is in outstanding.  The local port is not compared.
Matches(pkt, p) == pkt.scanned /\ p \in outstanding

\* What one call of scan_udp_ports starts from.
StartScan ==
  /\ host' \in [Ports -> Answers]
  /\ busy' \in SUBSET Ports
  /\ pc' = "head"
  /\ unsent' = Ports
  /\ outstanding' = {}
  /\ retry' = {}
  /\ tryno' = [p \in Ports |-> 0]
  /\ results' = [p \in Ports |-> NoVerdict]
  /\ batch' = 0
  /\ iteration' = 0
  /\ sent' = [p \in Ports |-> 0]

Init ==
  /\ nth = 1
  /\ host \in [Ports -> Answers]
  /\ busy \in SUBSET Ports
  /\ pc = "head"
  /\ unsent = Ports
  /\ outstanding = {}
  /\ retry = {}
  /\ tryno = [p \in Ports |-> 0]
  /\ results = [p \in Ports |-> NoVerdict]
  /\ batch = 0
  /\ iteration = 0
  /\ cc = NewController(MaxParallelism)
  /\ sent = [p \in Ports |-> 0]

\* The orchestrator goes on to the next host, also after an error.
NextHost ==
  /\ pc \in {"done", "expired", "failed"}
  /\ nth < Hosts
  /\ nth' = nth + 1
  /\ StartScan
  /\ UNCHANGED cc

\* Slip: only unsent ports keep the loop going.
WorkLeftUnsentOnly == unsent # {}

\* The loop condition; retry is always empty here.
WorkLeft == unsent # {} \/ outstanding # {}

\* Slip: the expiry forgets the probes in flight.
ScanTimeoutForgets ==
  /\ pc = "head" /\ WorkLeft
  /\ outstanding' = {}
  /\ pc' = "final"
  /\ UNCHANGED <<nth, host, busy, unsent, retry, tryno, results, batch,
                 iteration, cc, sent>>

\* start_time.elapsed() > scan_timeout
ScanTimeout ==
  /\ pc = "head"
  /\ WorkLeft
  /\ results' = [p \in Ports |-> IF p \in outstanding /\ results[p] = NoVerdict
                                 THEN "OpenOrFiltered" ELSE results[p]]
  /\ pc' = "final"
  /\ UNCHANGED <<nth, host, busy, unsent, outstanding, retry, tryno, batch,
                 iteration, cc, sent>>

StartIteration ==
  /\ pc = "head"
  /\ WorkLeft
  /\ iteration' = AtMost(iteration + 1, IterationCap)
  /\ pc' = "send"
  /\ UNCHANGED <<nth, host, busy, unsent, outstanding, retry, tryno, results,
                 batch, cc, sent>>

\* The loop condition fails: nothing in flight, so no last wait.
Finish ==
  /\ pc = "head"
  /\ ~WorkLeft
  /\ pc' = "done"
  /\ UNCHANGED <<nth, host, busy, unsent, outstanding, retry, tryno, results,
                 batch, iteration, cc, sent>>

WindowOpen ==
  /\ Cardinality(outstanding) < cc.cwnd
  /\ Cardinality(outstanding) < MaxParallelism

\* send_udp_probe
SendNew(p) ==
  /\ pc = "send" /\ WindowOpen /\ batch < BatchSize
  /\ p \in unsent
  /\ unsent' = unsent \ {p}
  /\ outstanding' = outstanding \cup {p}
  /\ batch' = batch + 1
  /\ sent' = [sent EXCEPT ![p] = @ + 1]
  /\ UNCHANGED <<nth, host, busy, pc, retry, tryno, results, iteration, cc>>

EndSend ==
  /\ pc = "send"
  /\ ~WindowOpen \/ batch >= BatchSize \/ unsent = {}
  /\ pc' = "drain"
  /\ UNCHANGED <<nth, host, busy, unsent, outstanding, retry, tryno, results,
                 batch, iteration, cc, sent>>

\* Slip: the answer is not matched against the probes in flight.
ReceiveUnmatched(p) ==
  /\ pc = "drain"
  /\ \E pkt \in Arriving(p) :
       /\ pkt.scanned
       /\ results' = [results EXCEPT ![p] = PortState(pkt.says)]
  /\ outstanding' = outstanding \ {p}
  /\ cc' = OnAcked(RecordExpected(cc))
  /\ UNCHANGED <<nth, host, busy, pc, unsent, retry, tryno, batch, iteration,
                 sent>>

\* A packet about a probe in flight.
Receive(p) ==
  /\ pc = "drain"
  /\ \E pkt \in Arriving(p) :
       /\ Matches(pkt, p)
       /\ results' = [results EXCEPT ![p] = PortState(pkt.says)]
  /\ outstanding' = outstanding \ {p}
  /\ cc' = OnAcked(RecordExpected(cc))
  /\ UNCHANGED <<nth, host, busy, pc, unsent, retry, tryno, batch, iteration,
                 sent>>

\* Any other packet is dropped; in a drain it starts the wait of 10 ms anew.
IgnorePacket(p) ==
  /\ pc \in {"drain", "final"}
  /\ \E pkt \in Arriving(p) : ~Matches(pkt, p)
  /\ UNCHANGED vars

\* No packet for 10 ms.  The batch counter is reset at the end of the
\* iteration, check or no check.
EndDrain ==
  /\ pc = "drain"
  /\ pc' = IF unsent # {} THEN "resend" ELSE "check"
  /\ batch' = IF unsent # {} /\ batch >= BatchSize THEN 0 ELSE batch
  /\ UNCHANGED <<nth, host, busy, unsent, outstanding, retry, tryno, results,
                 iteration, cc, sent>>

\* The controller after n probes were found lost in one iteration: only the
\* first can shrink the window.
AfterLosses(n) ==
  LET counted == [cc EXCEPT !.expected = @ + n]
  IN  IF n > 0 THEN OnLost(counted, iteration) ELSE counted

\* Slip: one retry too many.
CheckTimeoutsOneMore(T) ==
  /\ pc = "check"
  /\ T \subseteq outstanding
  /\ LET again == {p \in T : tryno[p] <= MaxRetries}
     IN  /\ retry' = retry \cup again
         /\ results' = [p \in Ports |-> IF p \in T \ again THEN "OpenOrFiltered"
                                         ELSE results[p]]
  /\ outstanding' = outstanding \ T
  /\ cc' = AfterLosses(Cardinality(T))
  /\ batch' = IF batch >= BatchSize THEN 0 ELSE batch
  /\ pc' = "resend"
  /\ UNCHANGED <<nth, host, busy, unsent, tryno, iteration, sent>>

\* check_udp_timeouts finds the probes T timed out.
CheckTimeouts(T) ==
  /\ pc = "check"
  /\ T \subseteq outstanding
  /\ LET again == {p \in T : tryno[p] < MaxRetries}
     IN  /\ retry' = retry \cup again
         /\ results' = [p \in Ports |->
                          IF p \in T \ again /\ results[p] = NoVerdict
                          THEN "OpenOrFiltered" ELSE results[p]]
  /\ outstanding' = outstanding \ T
  /\ cc' = AfterLosses(Cardinality(T))
  /\ batch' = IF batch >= BatchSize THEN 0 ELSE batch
  /\ pc' = "resend"
  /\ UNCHANGED <<nth, host, busy, unsent, tryno, iteration, sent>>

\* resend_udp_probe, if there is room ...
Resend(p) ==
  /\ pc = "resend" /\ WindowOpen
  /\ p \in retry
  /\ retry' = retry \ {p}
  /\ outstanding' = outstanding \cup {p}
  /\ tryno' = [tryno EXCEPT ![p] = @ + 1]
  /\ sent' = [sent EXCEPT ![p] = @ + 1]
  /\ UNCHANGED <<nth, host, busy, pc, unsent, results, batch, iteration, cc>>

\* Slip: the retry that found no room is dropped without a verdict.
GiveUpSilently(p) ==
  /\ pc = "resend" /\ ~WindowOpen
  /\ p \in retry
  /\ retry' = retry \ {p}
  /\ UNCHANGED <<nth, host, busy, pc, unsent, outstanding, tryno, results,
                 batch, iteration, cc, sent>>

\* ... else the port is given up.
GiveUp(p) ==
  /\ pc = "resend" /\ ~WindowOpen
  /\ p \in retry
  /\ retry' = retry \ {p}
  /\ results' = [results EXCEPT ![p] =
                   IF @ = NoVerdict THEN "OpenOrFiltered" ELSE @]
  /\ UNCHANGED <<nth, host, busy, pc, unsent, outstanding, tryno, batch,
                 iteration, cc, sent>>

EndIteration ==
  /\ pc = "resend"
  /\ retry = {}
  /\ pc' = "head"
  /\ UNCHANGED <<nth, host, busy, unsent, outstanding, retry, tryno, results,
                 batch, iteration, cc, sent>>

\* A send error leaves scan_udp_ports with Err, without the results so far.
SendFails ==
  /\ \/ pc = "send" /\ WindowOpen /\ batch < BatchSize /\ unsent # {}
     \/ pc = "resend" /\ WindowOpen /\ retry # {}
  /\ pc' = "failed"
  /\ UNCHANGED <<nth, host, busy, unsent, outstanding, retry, tryno, results,
                 batch, iteration, cc, sent>>

\* The last wait: a late answer replaces the OpenOrFiltered of the expiry.
ReceiveFinal(p) ==
  /\ pc = "final"
  /\ \E pkt \in Arriving(p) :
       /\ Matches(pkt, p)
       /\ results' = [results EXCEPT ![p] = PortState(pkt.says)]
  /\ outstanding' = outstanding \ {p}
  /\ UNCHANGED <<nth, host, busy, pc, unsent, retry, tryno, batch, iteration,
                 cc, sent>>

EndFinal ==
  /\ pc = "final"
  /\ results' = [p \in Ports |-> IF p \in outstanding /\ results[p] = NoVerdict
                                 THEN "OpenOrFiltered" ELSE results[p]]
  /\ pc' = "expired"
  /\ UNCHANGED <<nth, host, busy, unsent, outstanding, retry, tryno, batch,
                 iteration, cc, sent>>
-----------------------------------------------------------------------------
Send == (\E p \in Ports : SendNew(p)) \/ EndSend

Check == \E T \in SUBSET outstanding : CheckTimeouts(T)

Retries == (\E p \in Ports : Resend(p) \/ GiveUp(p)) \/ EndIteration

Stopped ==
  pc \in {"done", "expired", "failed"} /\ nth = Hosts /\ UNCHANGED vars

Next ==
  \/ Finish \/ ScanTimeout \/ StartIteration
  \/ Send \/ SendFails
  \/ (\E p \in Ports : Receive(p) \/ IgnorePacket(p)) \/ EndDrain
  \/ Check \/ Retries
  \/ (\E p \in Ports : ReceiveFinal(p)) \/ EndFinal
  \/ NextHost
  \/ Stopped

Spec == Init /\ [][Next]_vars

\* The task is scheduled again, the last wait has a deadline, and a probe in
\* flight while check runs again and again is found timed out in the end.
\* EndDrain is not fair: a drain has no deadline and goes on while packets come.
Fairness ==
  /\ WF_vars(Finish \/ StartIteration \/ Send \/ Retries)
  /\ WF_vars(EndFinal)
  /\ WF_vars(NextHost)
  /\ WF_vars(Check)
  /\ \A p \in Ports :
       SF_vars(\E T \in SUBSET outstanding : p \in T /\ CheckTimeouts(T))

FairSpec == Spec /\ Fairness
-----------------------------------------------------------------------------
Running == pc \in {"head", "send", "drain", "check", "resend"}

\* A port is in exactly one place, and no retry outlives its iteration, so a
\* loop condition that ignores retry_probes never ends a scan too early.
EveryPortTracked ==
  /\ Running \/ pc = "done" =>
       /\ unsent \cup outstanding \cup retry \cup Decided = Ports
       /\ unsent \cap outstanding = {} /\ unsent \cap retry = {}
       /\ outstanding \cap retry = {}
       /\ (unsent \cup outstanding \cup retry) \cap Decided = {}
  /\ pc \in {"head", "send", "drain", "check"} => retry = {}

\* What a scan costs its host: the probes in flight and those about to be sent
\* again stay within the parallelism limit, although a loss can shrink the
\* congestion window below what is in flight, and no port is probed more often
\* than configured.
LoadBounded ==
  /\ Cardinality(outstanding \cup retry) <= MaxParallelism
  /\ \A p \in Ports : sent[p] <= MaxRetries + 1

\* Open, Closed and Filtered are only what the scanned host answered to a probe
\* of this scan, also in the last wait and with packets about other hosts in
\* between; only a port that is busy may owe them to another conversation.
VerdictEarned ==
  \A p \in Ports :
    /\ results[p] \in {"Open", "Closed", "Filtered"} => sent[p] > 0
    /\ results[p] = "Open" => host[p] = "udp" \/ p \in busy
    /\ results[p] = "Closed" => host[p] = "port_unreach" \/ p \in busy
    /\ results[p] = "Filtered" => host[p] = "prohibited" \/ p \in busy

\* However the scan ends, other than by an error, no port that was probed is
\* missing from the map.
ProbedPortsReported ==
  pc \in {"done", "expired"} => \A p \in Ports : sent[p] > 0 => p \in Decided

\* During the scan of a host a verdict is final, except that a late answer
\* improves the OpenOrFiltered that the expiry wrote.
VerdictsOnlyImprove ==
  [][nth' = nth =>
       \A p \in Ports :
         results[p] # NoVerdict =>
           \/ results'[p] = results[p]
           \/ results[p] = "OpenOrFiltered" /\ pc = "final"]_vars

\* The traffic to this machine pauses for 10 ms again and again.
DrainsEnd == []<>(pc # "drain")

\* Unless packets keep a drain going for ever: once no port is left to send,
\* every port is decided, whatever the host answers, also with a window that
\* lets one probe after the other through.
SentPortsDecided ==
  DrainsEnd => (unsent = {} ~> Decided = Ports \/ pc \in {"expired", "failed"})

\* The doc of scan_udp_ports: it returns a map of port numbers to their states,
\* and retransmits timed-out probes.  Every port is decided in the end, unless
\* packets keep a drain going for ever.
EveryPortDecided ==
  DrainsEnd =>
    \A p \in Ports :
      results[p] = NoVerdict ~>
        results[p] # NoVerdict \/ pc \in {"expired", "failed"}

=============================================================================
