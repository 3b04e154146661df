------------------------------ MODULE PortScan ------------------------------
(***************************************************************************)
(* What a scan of one host promises its caller (the orchestrator of        *)
(* crates/rustnmap-core): it either completes with a verdict for every     *)
(* port, or is cut short by the scan timeout, or fails as a whole; a       *)
(* verdict is never taken back, and a host that did not say so never makes *)
(* a port Open or Closed.  TcpScan is shown to implement it.               *)
(***************************************************************************)
EXTENDS Integers

CONSTANTS
  Ports,     \* the ports asked for
  Answers,   \* how a port of the host can answer
  NoVerdict

VARIABLES host, verdict, status

pvars == <<host, verdict, status>>

Verdicts == {"Open", "Closed", "Filtered"}

\* The verdicts that a port with answer a can be given: silence, or an answer
\* that says nothing, is Filtered, and any answer may get lost on its way.
Deserved(a) ==
  CASE a = "synack" -> {"Open", "Filtered"}
    [] a = "rst"    -> {"Closed", "Filtered"}
    [] OTHER        -> {"Filtered"}

ScanInit ==
  /\ host \in [Ports -> Answers]
  /\ verdict = [p \in Ports |-> NoVerdict]
  /\ status = "running"

\* Some ports get their first and only verdict.
Report(S) ==
  /\ verdict' \in [Ports -> Verdicts \cup {NoVerdict}]
  /\ \A p \in S : verdict[p] = NoVerdict /\ verdict'[p] \in Deserved(host[p])
  /\ \A p \in Ports \ S : verdict'[p] = verdict[p]

Decide ==
  /\ status = "running"
  /\ \E S \in SUBSET Ports : Report(S)
  /\ UNCHANGED <<host, status>>

Complete ==
  /\ status = "running"
  /\ \A p \in Ports : verdict[p] # NoVerdict
  /\ status' = "complete"
  /\ UNCHANGED <<host, verdict>>

\* The scan timeout: whatever was in flight is reported with what is known.
Expire ==
  /\ status = "running"
  /\ \E S \in SUBSET Ports : Report(S)
  /\ status' = "expired"
  /\ UNCHANGED host

Fail ==
  /\ status = "running"
  /\ status' = "failed"
  /\ UNCHANGED <<host, verdict>>

ScanNext == Decide \/ Complete \/ Expire \/ Fail

ScanSpec == ScanInit /\ [][ScanNext]_pvars
=============================================================================
