----------------------------- MODULE MultiScan -----------------------------
(***************************************************************************)
(* ParallelScanEngine::scan_ports_multi of                                 *)
(* crates/rustnmap-scan/src/ultrascan.rs: the TCP SYN scan of several      *)
(* hosts in one loop.  The loop is that of scan_ports with a (host, port)  *)
(* pair where scan_ports has a port, so its actions are TcpScan's; what is *)
(* its own is stated here:                                                 *)
(*                                                                         *)
(*   the limits grow with the number of hosts, up to a fixed total         *)
(*   (chosen for a capture ring of 2048 frames, says the code, but the     *)
(*   ring it opens has 1024: the total does not keep answers from being    *)
(*   lost there, and nothing here says so);                                *)
(*   new probes go round-robin over the hosts;                             *)
(*   one capture engine serves all hosts, on the interface of the first:   *)
(*   the answers of hosts behind another interface are never seen;         *)
(*   every port is retried as often as the configuration says, whatever    *)
(*   other ports answered (max_successful_tryno is kept, never read).      *)
(*                                                                         *)
(* One host is passed on to scan_ports (TcpScan) and none returns at once, *)
(* so there are at least two.  Hosts and ports are distinct.               *)
(***************************************************************************)
EXTENDS CongestionControl, FiniteSets, Sequences

CONSTANTS
  Targets,         \* targets, in the caller's order
  PortList,        \* ports, in the caller's order
  MaxParallelism,  \* max_parallelism, of one host
  BatchSize,       \* BATCH_SIZE, of one host
  TotalCap,        \* 1500, what the limits of all hosts together are cut to
  MaxRetries,      \* config.max_retries
  HostAnswers      \* bound: how a port may answer, some of TcpScan's Answers

Hosts == {Targets[i] : i \in DOMAIN Targets}
Numbers == {PortList[i] : i \in DOMAIN PortList}

\* The keys of outstanding: a host and a port.
Keys == Hosts \X Numbers

ASSUME MultiAssumption ==
  /\ Targets \in Seq(Hosts) /\ Len(Targets) >= 2
  /\ PortList \in Seq(Numbers)
  /\ Cardinality(Hosts) = Len(Targets) /\ Cardinality(Numbers) = Len(PortList)
  /\ MaxParallelism \in Nat \ {0}
  /\ BatchSize \in Nat \ {0}
  /\ TotalCap \in Nat \ {0}
  /\ MaxRetries \in Nat

VARIABLES
  captured,     \* the hosts on the interface of the capture engine
  host, pc, unsent, outstanding, retry, tryno, results, batch, maxTryno, cc,
  syns, answered  \* as in TcpScan, by key

\* Slip: the cap is forgotten.
ParallelUncapped == MaxParallelism * Len(Targets)

\* effective_max_parallelism, also the congestion maximum.
ParallelCap == AtMost(MaxParallelism * Len(Targets), TotalCap)

\* effective_batch_size
BatchCap == AtMost(BatchSize * Len(Targets), TotalCap)

Loop == INSTANCE TcpScan WITH
  Ports <- Keys,
  MaxParallelism <- ParallelCap,
  BatchSize <- BatchCap,
  capturing <- captured # {}

vars == <<captured, host, pc, unsent, outstanding, retry, tryno, results,
          batch, maxTryno, cc, syns, answered>>

TypeOK == captured \subseteq Hosts /\ Loop!TypeOK

Init ==
  /\ \/ captured = {}
     \/ captured \in SUBSET Hosts /\ Targets[1] \in captured
  /\ Loop!Init
  /\ host \in [Keys -> HostAnswers]

\* Slip: the work list by host instead of by port.
NextHostByHost(k) ==
  \A l \in unsent \ {k} :
    \E i, j \in DOMAIN Targets, m, n \in DOMAIN PortList :
      /\ k = <<Targets[i], PortList[m]>> /\ l = <<Targets[j], PortList[n]>>
      /\ i < j \/ (i = j /\ m < n)

\* work_iter.next(): the ports in order, each on every host before the next.
NextInTurn(k) ==
  \A l \in unsent \ {k} :
    \E i, j \in DOMAIN Targets, m, n \in DOMAIN PortList :
      /\ k = <<Targets[i], PortList[m]>> /\ l = <<Targets[j], PortList[n]>>
      /\ m < n \/ (m = n /\ i < j)

\* Slip: the loop ends although probes wait for their retry.
FinishEarly ==
  /\ pc = "head"
  /\ unsent = {} /\ outstanding = {}
  /\ pc' = "done"
  /\ UNCHANGED <<captured, host, unsent, outstanding, retry, tryno, results,
                 batch, maxTryno, cc, syns, answered>>

Finish == UNCHANGED captured /\ Loop!Finish

\* The scan timeout leaves the loop with the results there are.
ScanTimeout == UNCHANGED captured /\ Loop!ScanTimeout

StartIteration == UNCHANGED captured /\ Loop!StartIteration

SendNew(k) == UNCHANGED captured /\ NextInTurn(k) /\ Loop!SendNew(k)

SendRetry(k) == UNCHANGED captured /\ Loop!SendRetry(k)

\* One failed send ends the scan of all hosts, and their results are dropped.
SendFails == UNCHANGED captured /\ Loop!SendFails

EndSend == UNCHANGED captured /\ Loop!EndSend

\* Only packets of the engine's interface arrive.
ReceiveAnswer(k, pkt) ==
  UNCHANGED captured /\ k[1] \in captured /\ Loop!ReceiveAnswer(k, pkt)

IgnorePacket(k, pkt) ==
  UNCHANGED captured /\ k[1] \in captured /\ Loop!IgnorePacket(k, pkt)

EndDrain == UNCHANGED captured /\ Loop!EndDrain

\* Slips: the adaptive retries of scan_ports, and a full batch that stays full.
CheckTimeoutsAdaptive(T) == UNCHANGED captured /\ Loop!CheckTimeouts(T)

CheckTimeoutsNoReset(T) ==
  /\ pc = "check"
  /\ T \subseteq outstanding
  /\ LET again == {k \in T : tryno[k] < MaxRetries}
     IN  /\ outstanding' = outstanding \ T
         /\ retry' = retry \cup again
         /\ results' = [k \in Keys |-> IF k \in T \ again THEN "Filtered"
                                       ELSE results[k]]
  /\ pc' = "head"
  /\ UNCHANGED <<captured, host, unsent, tryno, batch, maxTryno, cc, syns,
                 answered>>

\* check_timeouts_multi, whose verdicts are inserted whatever was there; then
\* the batch counter and the boost of the window.
CheckTimeouts(T) ==
  /\ pc = "check"
  /\ T \subseteq outstanding
  /\ LET again == {k \in T : tryno[k] < MaxRetries}
         counted == [cc EXCEPT !.expected = @ + Cardinality(T)]
     IN  /\ outstanding' = outstanding \ T
         /\ retry' = retry \cup again
         /\ results' = [k \in Keys |-> IF k \in T \ again THEN "Filtered"
                                       ELSE results[k]]
         /\ cc' = IF cc.seeded THEN MaybeBoost(counted) ELSE counted
  /\ batch' = IF batch >= BatchCap THEN 0 ELSE batch
  /\ pc' = "head"
  /\ UNCHANGED <<captured, host, unsent, tryno, maxTryno, syns, answered>>
-----------------------------------------------------------------------------
Send == (\E k \in Keys : SendNew(k) \/ SendRetry(k)) \/ EndSend

Receive == \E k \in Keys : \E pkt \in Loop!Capturable(k) :
             ReceiveAnswer(k, pkt) \/ IgnorePacket(k, pkt)

Check == \E T \in SUBSET outstanding : CheckTimeouts(T)

Stopped == pc \in {"done", "expired", "failed"} /\ UNCHANGED vars

Next ==
  \/ Finish \/ ScanTimeout \/ StartIteration
  \/ Send \/ SendFails
  \/ Receive \/ EndDrain
  \/ Check
  \/ Stopped

Spec == Init /\ [][Next]_vars

\* As in TcpScan; nothing is assumed of the network or of the hosts.
Fairness ==
  /\ WF_vars(Finish \/ StartIteration \/ Send)
  /\ WF_vars(EndDrain)
  /\ WF_vars(Check)
  /\ \A k \in Keys :
       SF_vars(\E T \in SUBSET outstanding : k \in T /\ CheckTimeouts(T))

FairSpec == Spec /\ Fairness
-----------------------------------------------------------------------------
\* Every host gets the scan that PortScan promises, as if it were scanned
\* alone, although the hosts share the window, the batch and the work lists.
\* A host that the capture does not see is one that never answers.
HostScan(h) == INSTANCE PortScan WITH
  Ports <- Numbers,
  Answers <- Loop!Answers,
  NoVerdict <- Loop!NoVerdict,
  host <- [n \in Numbers |-> IF h \in captured THEN host[<<h, n>>] ELSE "none"],
  verdict <- [n \in Numbers |-> results[<<h, n>>]],
  status <- CASE pc = "done" -> "complete"
              [] pc = "expired" -> "expired"
              [] pc = "failed" -> "failed"
              [] OTHER -> "running"

\* (The conjunction of the hosts' ScanSpecs, in the form that TLC checks.)
HostPromises ==
  /\ \A h \in Hosts : HostScan(h)!ScanInit
  /\ [][\A h \in Hosts : [HostScan(h)!ScanNext]_(HostScan(h)!pvars)]_vars

\* However many hosts there are, the probes in flight, first ones and retries,
\* stay within the total cap and the window, and neither acknowledgements nor
\* boosts let the window outgrow the cap.
LoadBounded ==
  /\ Cardinality(outstanding) <= TotalCap
  /\ Cardinality(outstanding) <= cc.cwnd
  /\ cc.cwnd <= AtLeast(TotalCap, InitialCwnd)

\* A port is Filtered only after the configured retries were all sent and all
\* of them timed out: what other hosts answered never shortens them.
FilteredEarned ==
  \A k \in Keys :
    results[k] = "Filtered" /\ pc # "expired" =>
      \/ k \in answered /\ host[k] = "odd"
      \/ k \notin answered /\ syns[k] = 1 + MaxRetries

\* No host is left behind: a host has had the first SYN of as many ports as
\* any other, but for the port whose turn it is.
FirstSyns(h) == Cardinality({k \in Keys : k[1] = h /\ syns[k] > 0})

HostsInStep == \A g, h \in Hosts : FirstSyns(g) <= FirstSyns(h) + 1

\* Every port of every host is decided unless the scan is cut short, also when
\* a host never answers or is not captured at all.
EveryPortDecided ==
  \A k \in Keys :
    <>(results[k] # Loop!NoVerdict \/ pc \in {"expired", "failed"})
=============================================================================
