---------------------------- MODULE Orchestrator ----------------------------
(***************************************************************************)
(* ScanOrchestrator::run of crates/rustnmap-core/src/orchestrator.rs: host *)
(* discovery, then the port scan, then phases that only annotate the       *)
(* results.  Discovery finds hosts on the own network by ARP and gives one *)
(* ping for each other host to the TaskScheduler, which this module        *)
(* extends: the orchestrator is its one caller, and the pings are its      *)
(* Tasks, named for their hosts.                                           *)
(*                                                                         *)
(* The scan of a host is here one step, or one step per port, with any     *)
(* outcome that the engines allow (PortScan): verdicts for all ports, or   *)
(* for some when the scan timed out, or an error.  A verdict is Open or    *)
(* some other one, the difference the results are summarised by.           *)
(***************************************************************************)
EXTENDS TaskScheduler

CONSTANTS
  Hosts,       \* the hosts there are
  TargetSets,  \* what a scan may be asked to scan, some sets of hosts
  Segments,    \* sets of targets on an own network, by source address
  OwnAddresses,\* targets that are this machine's own addresses
  Unreal,      \* targets that end in .0 or .255
  IPv6,        \* targets with an IPv6 address
  Ports,       \* get_ports_for_scan
  FirstPorts,  \* first_phase_ports
  Orchestrated \* the orchestrator, the only caller of the scheduler

Direct == UNION Segments
Remote == Tasks \ IPv6

ASSUME OrchestratorAssumption ==
  /\ IsFiniteSet(Hosts) /\ IsFiniteSet(Ports) /\ IsFiniteSet(FirstPorts)
  /\ Hosts = Direct \union Unreal \union Tasks
  /\ Direct \intersect Unreal = {} /\ Tasks \intersect (Direct \union Unreal) = {}
  /\ IPv6 \subseteq Tasks
  /\ \A S \in TargetSets : S \subseteq Hosts /\ S \intersect Tasks \in {{}, Tasks}
  /\ OwnAddresses \subseteq Direct

AllPorts == Ports \union FirstPorts

VARIABLES
  config,   \* host_discovery, no_port_scan and two_phase_scan
  targets,  \* the target set of this scan
  phase,    \* where run is, or how it ended
  status,   \* ScanState: the status of each host
  arpLeft,  \* segments whose ARP batch is still to come
  todo,     \* targets whose scan is still to come
  asked,    \* host and port of every probe handed to an engine
  verdict,  \* the verdicts kept for the results
  reported, \* the hosts in host_results
  lost,     \* history: hosts whose scan failed or was skipped, only logged
  openCount,\* stats.open_ports
  sentCount \* stats.packets_sent

scanVars == <<config, targets, phase, status, arpLeft, todo, asked, verdict,
              reported, lost, openCount, sentCount>>
runVars == <<vars, scanVars>>

Statuses == {"Unknown", "Up", "Down"}
NoVerdict == "none"
Verdicts == {"Open", "other"}
Scanning == {"syn", "udp", "ports", "connect", "stealth", "first", "second"}

RunTypeOK ==
  /\ TypeOK
  /\ config \in [discovery : BOOLEAN, sweep : BOOLEAN, twoPhase : BOOLEAN]
  /\ targets \subseteq Hosts
  /\ phase \in {"discovery", "arp", "ping", "scan", "annotate", "ended",
                "aborted"} \union Scanning
  /\ status \in [Hosts -> Statuses]
  /\ arpLeft \subseteq Segments
  /\ todo \subseteq Hosts
  /\ asked \subseteq Hosts \X AllPorts
  /\ verdict \in [Hosts \X AllPorts -> Verdicts \union {NoVerdict}]
  /\ reported \subseteq Hosts
  /\ lost \subseteq Hosts
  /\ openCount \in Nat
  /\ sentCount \in Nat

\* The orchestrator has a scheduler of its own, which it never shuts down.
OwnScheduler ==
  /\ Callers = {Orchestrated}
  /\ \A i \in DOMAIN Program[Orchestrated] : Program[Orchestrated][i] # "shutdown"

\* Program fits each target set: it pings all of Tasks, or is not used.
RunInit ==
  /\ Init /\ OwnScheduler
  /\ config \in [discovery : BOOLEAN, sweep : BOOLEAN, twoPhase : BOOLEAN]
  /\ targets \in TargetSets
  /\ phase = "discovery"
  /\ status = [h \in Hosts |-> "Unknown"]
  /\ arpLeft = {}
  /\ todo = {}
  /\ asked = {}
  /\ verdict = [k \in Hosts \X AllPorts |-> NoVerdict]
  /\ reported = {}
  /\ lost = {}
  /\ openCount = 0
  /\ sentCount = 0

Single == Cardinality(targets) = 1
Alive == {h \in targets : status[h] # "Down"}
Marked(S, s) == [h \in Hosts |-> IF h \in S THEN s ELSE status[h]]

-----------------------------------------------------------------------------
\* A single target is taken as it is, unless only discovery was asked for.
\* Otherwise addresses that are no hosts are Down; without discovery (-Pn) the
\* hosts behind routers are Up, and those on the own network still get ARP.
StartDiscovery ==
  /\ phase = "discovery"
  /\ IF Single /\ (config.discovery => ~config.sweep)
     THEN phase' = "scan" /\ UNCHANGED <<status, arpLeft>>
     ELSE /\ phase' = "arp"
          /\ arpLeft' = {S \intersect targets : S \in Segments} \ {{}}
          /\ status' = [h \in Hosts |->
               CASE h \in targets \intersect Unreal -> "Down"
                 [] h \in targets \intersect Remote /\ ~config.discovery -> "Up"
                 [] OTHER -> status[h]]
  /\ UNCHANGED <<vars, config, targets, todo, asked, verdict, reported, lost,
                 openCount, sentCount>>

\* run_grouped_arp_batch, for one source address: those that answered are Up,
\* and so is this machine; if the batch fails, all are.
ArpBatch(S) ==
  /\ phase = "arp"
  /\ S \in arpLeft
  /\ arpLeft' = arpLeft \ {S}
  /\ \/ \E answered \in SUBSET S :
          LET up == answered \union (S \intersect OwnAddresses)
          IN  status' = [h \in Hosts |-> CASE h \in up     -> "Up"
                                           [] h \in S \ up -> "Down"
                                           [] OTHER        -> status[h]]
     \/ status' = Marked(S, "Up")
  /\ UNCHANGED <<vars, config, targets, phase, todo, asked, verdict, reported,
                 lost, openCount, sentCount>>

ArpOver ==
  /\ phase = "arp"
  /\ arpLeft = {}
  /\ phase' = IF config.discovery /\ targets \intersect Tasks # {}
              THEN "ping" ELSE "scan"
  /\ UNCHANGED <<vars, config, targets, status, arpLeft, todo, asked, verdict,
                 reported, lost, openCount, sentCount>>

\* Every ping is scheduled, then wait_for_completion runs them.
Schedule ==
  /\ phase = "ping"
  /\ CallerStep(Orchestrated)
  /\ UNCHANGED scanVars

\* A ping ends with a status, Up also if it was inconclusive; one that panics
\* leaves the status as it was.
PingEnds(t) ==
  /\ Finish(t)
  /\ \/ task'[t] = "ok" /\ \E s \in {"Up", "Down"} : status' = Marked({t}, s)
     \/ task'[t] = "failed" /\ UNCHANGED status
  /\ UNCHANGED <<config, targets, phase, arpLeft, todo, asked, verdict,
                 reported, lost, openCount, sentCount>>

PingsOver ==
  /\ phase = "ping"
  /\ Finished(Orchestrated)
  /\ phase' = "scan"
  /\ UNCHANGED <<vars, config, targets, status, arpLeft, todo, asked, verdict,
                 reported, lost, openCount, sentCount>>
-----------------------------------------------------------------------------
\* -sn: the hosts that are Up are the results.
Sweep ==
  /\ phase = "scan"
  /\ config.sweep /\ ~config.twoPhase
  /\ reported' = {h \in targets : status[h] = "Up"}
  /\ phase' = "annotate"
  /\ UNCHANGED <<vars, config, targets, status, arpLeft, todo, asked, verdict,
                 lost, openCount, sentCount>>

\* Slip: Down hosts are scanned as well.
StartScanOfAll ==
  /\ phase = "scan"
  /\ config.twoPhase \/ ~config.sweep
  /\ todo' = targets
  /\ phase' \in IF config.twoPhase THEN {"first"}
                ELSE Scanning \ {"first", "second"}
  /\ UNCHANGED <<vars, config, targets, status, arpLeft, asked, verdict,
                 reported, lost, openCount, sentCount>>

\* The targets that are not Down are scanned, in the way of the scan type: SYN
\* and UDP scans in parallel unless a target has an IPv6 address or there are
\* no raw sockets (or a target is the loopback), the stealth and connect scans
\* in batches, the others port by port.  A scan in two phases takes every
\* target, and -sn does not stop it.
StartScan ==
  /\ phase = "scan"
  /\ config.twoPhase \/ ~config.sweep
  /\ todo' = IF config.twoPhase THEN targets ELSE Alive
  /\ phase' \in IF config.twoPhase THEN {"first"}
                ELSE {"ports", "connect", "stealth"}
                     \union (IF Alive \intersect IPv6 = {} THEN {"syn", "udp"}
                             ELSE {})
  /\ UNCHANGED <<vars, config, targets, status, arpLeft, asked, verdict,
                 reported, lost, openCount, sentCount>>

Opens(f) == Cardinality({k \in DOMAIN f : f[k] = "Open"})
Given(f) == Cardinality({k \in DOMAIN f : f[k] # NoVerdict})

\* Slip: record_open_port outside of the condition.
KeepAllOpen(f) ==
  /\ verdict' = [k \in Hosts \X AllPorts |->
                   IF k \in DOMAIN f THEN f[k] ELSE verdict[k]]
  /\ openCount' = openCount + Given(f)
  /\ sentCount' = sentCount + Given(f)

\* The verdicts f become results: each is counted as a packet, the open ones
\* as open ports.
Keep(f) ==
  /\ verdict' = [k \in Hosts \X AllPorts |->
                   IF k \in DOMAIN f THEN f[k] ELSE verdict[k]]
  /\ openCount' = openCount + Opens(f)
  /\ sentCount' = sentCount + Given(f)

\* scan_ports of one host or scan_ports_multi of several: all results or none.
ScanTogether ==
  /\ phase = "syn"
  /\ asked' = todo \X Ports
  /\ \/ /\ \E f \in [todo \X Ports -> Verdicts \union {NoVerdict}] : Keep(f)
        /\ reported' = todo
        /\ UNCHANGED lost
     \/ /\ todo # {}
        /\ lost' = lost \union todo
        /\ UNCHANGED <<verdict, openCount, sentCount, reported>>
  /\ todo' = {}
  /\ phase' = "annotate"
  /\ UNCHANGED <<vars, config, targets, status, arpLeft>>

\* The loops take the targets in a fixed order.
Turn == CHOOSE h \in todo : TRUE

\* A host is scanned as a whole, by scan_udp_ports, a stealth batch (which has
\* no IPv6) or a batch of connections; if that fails, the next one follows.
ScanHost(h) ==
  /\ phase \in {"udp", "stealth", "connect"}
  /\ h = Turn
  /\ todo' = todo \ {h}
  /\ asked' = asked \union ({h} \X Ports)
  /\ \/ /\ phase = "stealth" => h \notin IPv6
        /\ \E f \in [{h} \X Ports ->
                       Verdicts \union IF phase = "udp" THEN {NoVerdict} ELSE {}] :
             Keep(f)
        /\ reported' = reported \union {h}
        /\ UNCHANGED lost
     \/ /\ phase # "connect"
        /\ lost' = lost \union {h}
        /\ UNCHANGED <<verdict, openCount, sentCount, reported>>
  /\ UNCHANGED <<vars, config, targets, phase, status, arpLeft>>

\* The ports of the loop that the phase runs.
LoopPorts ==
  CASE phase = "first"  -> FirstPorts
    [] phase = "second" -> Ports \ FirstPorts
    [] OTHER            -> Ports

PortsLeft(h) == {p \in LoopPorts : <<h, p>> \notin asked}
PortTurn(h) == CHOOSE p \in PortsLeft(h) : TRUE

\* scan_port, one port after the other and one host after the other.  It never
\* fails: an error of a scanner makes the port Filtered.  The first of two phases
\* keeps open ports only, but counts every packet.
ScanPort(h, p) ==
  /\ phase \in {"ports", "first", "second"}
  /\ h = Turn /\ PortsLeft(h) # {} /\ p = PortTurn(h)
  /\ asked' = asked \union {<<h, p>>}
  /\ sentCount' = sentCount + 1
  /\ \E v \in Verdicts :
       /\ openCount' = openCount + IF v = "Open" THEN 1 ELSE 0
       /\ verdict' = IF phase = "first" /\ v # "Open" THEN verdict
                     ELSE [verdict EXCEPT ![<<h, p>>] = v]
  /\ UNCHANGED <<vars, config, targets, phase, status, arpLeft, todo, reported,
                 lost>>

HostOver(h) ==
  /\ phase \in {"ports", "first", "second"}
  /\ h = Turn /\ PortsLeft(h) = {}
  /\ todo' = todo \ {h}
  /\ reported' = IF phase = "first" THEN reported ELSE reported \union {h}
  /\ UNCHANGED <<vars, config, targets, phase, status, arpLeft, asked, verdict,
                 lost, openCount, sentCount>>

\* Between the two phases: only hosts with an open port are scanned in depth.
SecondPhase ==
  /\ phase = "first"
  /\ todo = {}
  /\ todo' = {h \in targets : \E p \in FirstPorts : verdict[<<h, p>>] = "Open"}
  /\ phase' = "second"
  /\ UNCHANGED <<vars, config, targets, status, arpLeft, asked, verdict,
                 reported, lost, openCount, sentCount>>

\* Slip: the hosts without an open port in the first phase are left out.
ScanOverForgetful ==
  /\ phase \in Scanning \ {"syn", "first"}
  /\ todo = {}
  /\ phase' = "annotate"
  /\ UNCHANGED <<vars, config, targets, status, arpLeft, todo, asked, verdict,
                 reported, lost, openCount, sentCount>>

\* After a scan in two phases, all other targets are reported as well.
ScanOver ==
  /\ phase \in Scanning \ {"syn", "first"}
  /\ todo = {}
  /\ reported' = IF phase = "second" THEN targets ELSE reported
  /\ phase' = "annotate"
  /\ UNCHANGED <<vars, config, targets, status, arpLeft, todo, asked, verdict,
                 lost, openCount, sentCount>>

\* Service and OS detection, scripts and traceroute add to the results; a bad
\* script selector ends the run.
Annotate ==
  /\ phase = "annotate"
  /\ phase' \in {"ended", "aborted"}
  /\ UNCHANGED <<vars, config, targets, status, arpLeft, todo, asked, verdict,
                 reported, lost, openCount, sentCount>>

Stopped == phase \in {"ended", "aborted"} /\ UNCHANGED runVars
-----------------------------------------------------------------------------
Discover ==
  \/ StartDiscovery \/ ArpOver \/ PingsOver \/ Schedule
  \/ \E S \in arpLeft : ArpBatch(S)

Scan ==
  \/ Sweep \/ StartScan \/ ScanTogether \/ SecondPhase \/ ScanOver
  \/ \E h \in todo : ScanHost(h) \/ HostOver(h)
  \/ \E h \in todo, p \in AllPorts : ScanPort(h, p)

RunNext ==
  \/ Discover \/ Scan \/ Annotate
  \/ \E t \in Tasks : PingEnds(t)
  \/ Stopped

RunSpec == RunInit /\ [][RunNext]_runVars

\* The runtime polls the orchestrator, and every ping and every scan has a
\* timeout.
RunFairness ==
  /\ WF_runVars(Discover \/ Scan \/ Annotate)
  /\ \A t \in Tasks : WF_runVars(PingEnds(t))

RunFairSpec == RunSpec /\ RunFairness
-----------------------------------------------------------------------------
\* A host that discovery finds Down is not probed and not in the results: the
\* scan starts when every ping is over, whatever order they end in, and every
\* way of scanning leaves Down hosts out.  (A scan in two phases does not.)
DownLeftAlone ==
  ~config.twoPhase =>
    \A h \in targets : status[h] = "Down" =>
      h \notin reported /\ \A p \in AllPorts : <<h, p>> \notin asked

\* No target gets lost unnoticed: when the run ends, a target is missing from
\* the results exactly if it is Down, or its scan failed (with -sn: if it is
\* not Up); after two phases none is missing.
TargetsAccounted ==
  phase = "ended" =>
    targets \ reported =
      IF config.twoPhase THEN {}
      ELSE IF config.sweep THEN {h \in targets : status[h] # "Up"}
      ELSE lost \union {h \in targets : status[h] = "Down"}

\* The counters, kept by hand on six ways of scanning, agree with the results:
\* an open port is counted once, a packet for every verdict, and no more than
\* there were probes.
StatisticsAgree ==
  /\ openCount = Opens(verdict)
  /\ Given(verdict) <= sentCount /\ sentCount <= Cardinality(asked)
  /\ ~config.twoPhase => sentCount = Given(verdict)

\* The run always ends.
RunEnds == <>(phase \in {"ended", "aborted"})
=============================================================================
