# RustNmap in TLA+

RustNmap is a network scanner in Rust. This directory holds a formal model of
the parts of it whose correctness depends on order, on concurrency, on losses
and on limits: TLA+ modules translated from the code, TLC configurations that
check them on small instances, and proofs that TLAPS checks for every instance.
`PROJECT.json` lists the components, the runs, the source lines behind each
definition, the hazards of the code and the theorems. Source paths below are
relative to `src/`.

- [1. The system](#1-the-system)
- [2. The modules and the code](#2-the-modules-and-the-code)
- [3. What is checked](#3-what-is-checked)
- [4. What is proved](#4-what-is-proved)
- [5. Where the code and its documentation disagree](#5-where-the-code-and-its-documentation-disagree)
- [6. What is not modelled](#6-what-is-not-modelled)
- [7. Plan](#7-plan)

## 1. The system

A scan goes through these parts:

    REST API ──queues──> runner ──> orchestrator ──calls──> scan engine ──SYN/UDP──> hosts
    (rustnmap-api)                  (rustnmap-core)         (rustnmap-scan)            │
                                      │  task scheduler        │  rate limiter         │
                                      │  (host discovery)      │  congestion, RTT      │
                                      └────────────────────────┴── packet capture <────┘
                                                                   (rustnmap-packet)

| Component | State it keeps | Operations | Hard behaviour |
|---|---|---|---|
| **TCP scan engine** `ultrascan.rs: scan_ports` | unsent ports, probes in flight, probes to retry, results, congestion controller | send, resend, match a captured packet, check timeouts, scan timeout | answers late, lost, twice, out of order, of other connections; a window that changes while probes are in flight |
| **TCP scan of several hosts** `scan_ports_multi` | the same for (host, port) pairs | the same | one window and one work list for all hosts; hosts the capture does not see; one failed send ends all |
| **UDP scan engine** `scan_udp_ports` | the same, plus the controller the previous host left | the same, with ICMP answers and a last wait | timeouts looked at late; state carried from host to host |
| **RTT estimation** `InternalCongestionStats` | smoothed RTT, variance, minimum, first-measurement flag | update, seed, reset, recommend a timeout | integer rounding, clamps, late answers to retried probes |
| **Rate limiter** `rustnmap-common/rate.rs` | start and count of a window, as two atomics | check, record | races for the reset of a window |
| **Task scheduler** `rustnmap-core/scheduler.rs` | a bounded channel, a semaphore, counters | schedule, run, wait for completion, shutdown | a channel that nobody drains; permits; join order |
| **REST scan management** `rustnmap-api` | status and results of each scan, in concurrent maps; event streams | create, cancel, run, complete, fail, poll | decisions on state that is old by then; status and results updated apart |
| **Packet capture** `rustnmap-packet` | a ring of frames shared with the kernel, packets that point into it, a channel | read, drop, start, stop, receive | ownership of frames, wakeups, a full channel |
| **Orchestrator** `rustnmap-core/orchestrator.rs` | host states, results, statistics | discovery (ARP batches, scheduled pings), six ways of scanning, a scan in two phases | pings that run concurrently and write what the scan reads; a scan that fails for one host |
| **Adaptive delay** `adaptive_delay.rs` | delay, good answers since the last drop | on drop, on good answer | its initial value and its maximum |
| **Core congestion controller** `rustnmap-core/congestion.rs` | window, statistics in atomics | on sent, acknowledged, lost, timed out | updates that are not atomic together |
| **Single-port scanners** | one probe | send, wait, classify | batches, idle scan's order |
| **Stateless scan** | a key | send, verify an answer | which answers are believed |
| **Script engine, scan history** | scripts; a database | scheduling; transactions | timeouts, dependencies |
| parsing, packet building, fingerprints, evasion, vulnerability data, output, CLI, SDK | data | pure functions and I/O | none a model reaches |

They interact by calls (orchestrator to engine, engine to limiter), by shared
memory (the ring, the limiter's atomics, the API's maps) and by channels
(scheduler, background capture task, UDP receiver task).

What makes each component correct:

- **Scans.** No port is lost or decided twice, whatever the network does; a
  port is reported open or closed only if its host said so to this scan (a UDP
  scan: or spoke from that port to another program of this machine); one lost
  packet does not make a port filtered; the load on the host stays within
  its limits; the scan ends with every port decided.
- **RTT estimation.** The estimate stays within its samples; timeouts are
  neither useless (too short for any answer) nor unbounded.
- **Rate limiter.** One reset per window, no packet forgotten, a bound on the
  packets in any stretch of time.
- **Scheduler.** Never more tasks than permits, no permit lost, every task run
  once, waiting waits.
- **Orchestrator.** The scan starts after the last ping; hosts that are down are
  left alone; no target is lost unnoticed; the counters agree with the results;
  every run ends.
- **REST.** A scan is run once, the status says what happened, a completed scan
  has its results, scans and streams end.
- **Capture.** Bytes someone will look at are not overwritten, packets arrive
  in order and once, the reader and the kernel stay in step, no wakeup is lost.

The hazards behind these, each at the line where it bites and with the
properties that cover it, are in `PROJECT.json` under `hazards`.

## 2. The modules and the code

| Module | Models | Extended by |
|---|---|---|
| `CongestionControl` | `InternalCongestionController`, as operators on a record | `TcpScan`, `MultiScan`, `UdpScan` |
| `PortScan` | the abstract promise of a scan of one host | implemented by `TcpScan`, and by `MultiScan` once per host |
| `TcpScan` | `scan_ports` | `MCTcpScan`, `TcpScanProofs` |
| `MultiScan` | `scan_ports_multi`, an instance of `TcpScan` with what differs | `MCMultiScan`, `MultiScanProofs` |
| `UdpScan` | `scan_udp_ports`, host after host | `MCUdpScan`, `UdpScanProofs` |
| `RttEstimator` | the RTT half of `InternalCongestionStats` | `MCRttEstimator`, `RttEstimatorProofs` |
| `RateLimiter` | `RateLimiter` and its senders | `MCRateLimiter`, `RateLimiterProofs` |
| `TaskScheduler` | `TaskScheduler` and its callers | `Orchestrator`, `MCTaskScheduler`; proofs in `OrchestratorProofs` |
| `Orchestrator` | `ScanOrchestrator::run`, the caller of the scheduler | `MCOrchestrator`, `OrchestratorProofs` |
| `ScanApi` | `ScanManager`, handlers, `ScanRunner`, event stream | `MCScanApi`, `ScanApiProofs` |
| `PacketRing` | ring, zero-copy packets, async engine, scanner's adapter | `MCPacketRing`, `PacketRingProofs` |

An operator whose comment begins with *Slip* is not part of a specification: it
is what the operator after it would be with a plausible bug. Each property of a
run is violated when one of them is put in place of the operator after it, which
shows that the property looks at what the code does (`mutants` in
`PROJECT.json`).

### TcpScan

`pc` is the phase of the loop: `head` (loop condition and scan timeout), `send`,
`drain` (`Receive...`), `check` (`check_timeouts`). `unsent` is `ports_iter`,
`outstanding` the map of the same name, `retry` is `retry_probes`, `tryno` is
`retry_count`, `cc` the congestion controller. `SendNew` is `send_probe` with
its bookkeeping, `SendRetry` is `resend_probe`, `ReceiveAnswer` a packet that
`parse_packet` accepts and that matches a probe in flight, `IgnorePacket` every
other one, `CheckTimeouts(T)` the check that finds the probes `T` timed out.

`host` fixes how each port answers. Once a SYN to a port has left, its answer
can be captured in any later drain, any number of times or never; packets from
the same address and port that answer some other segment can be captured at any
time. So loss, delay, duplication, reordering and background traffic are all
there without a network being modelled. Time is abstract: any probe in flight
may be found timed out by any check. The scan timeout may strike at any head.
`syns` and `answered` are history variables.

### MultiScan

`scan_ports_multi` is the loop of `scan_ports` with a (host, port) pair where
that has a port, so the module is `Loop == INSTANCE TcpScan WITH Ports <- Keys`
and its actions are those of `Loop`, with what is its own: limits that grow with
the number of hosts up to a cap (`TotalCap`, 1500; `ParallelCap`, `BatchCap`),
new probes round-robin over the hosts (`NextInTurn`), a timeout check with a
fixed number of retries that inserts its verdicts over whatever is there
(`CheckTimeouts`), and one capture engine, on the interface of the first target:
`captured` is the set of hosts behind it, fixed by the network, and nothing
arrives from any other.

### UdpScan

The same loop as `scan_udp_ports` has it: no reset of the controller, timeouts
checked only when no port is left to send, retries that find no room given up,
a last wait after the scan timeout.

The receiver task captures every UDP and ICMP packet sent to this machine, and
the loop compares its source (of an ICMP error, the destination of the packet
inside) with the scanned host and the ports in flight; it does not compare the
local port. `Arriving(p)` is what can arrive about port `p`: the answer of the
scanned host to a probe of this scan, any packet of another conversation that
this machine has with that host and port (`busy` is the set of such ports, fixed
by the environment for each host), and packets about another host, a late answer
of the previous one among them. `Matches` is the code's comparison; `Receive` and
`ReceiveFinal` take what matches, `IgnorePacket` is everything else, which costs
a drain and changes nothing.

`nth` counts the hosts, as
`run_port_scanning` calls the engine for one after the other, also after an
error. `iteration` is `loop_iterations`, which the controller compares with the
iteration of the last drop; it stops counting at `IterationCap`.

### RttEstimator

One action per method that changes the estimate: `Prepare` (the orchestrator's
`set_adaptive_min_rtt` and `set_initial_rtt`), `StartTcp` (`reset`), `StartUdp`
(no reset), `Measure` (`update_rtt`). Times are microseconds, divisions are
those of the code. `lo` and `hi` remember the extremes of what the estimate was
made from.

### RateLimiter

Every atomic access of `check_rate`, `check_max_rate` and `record_sent` is a
step of its own, and time may pass between any two. Senders do as the scan loops
do: check, sleep as long as they are told, send without checking again, record.
Time is counted in ticks. Which senders use the limiter is chosen at the start
(`active`): one, as in the engine, or several, as the type permits.

### TaskScheduler

A caller is a program of calls (schedule a task, shutdown, wait for completion);
`run_host_discovery` schedules every ping and then waits. `schedule` counts the
task, then waits for room in the channel. The run loop exists only inside
`wait_for_completion`: it receives, takes a permit, spawns, and after a shutdown
message awaits the handles in order. A task ends well or not, whenever it likes.

### Orchestrator

The module extends `TaskScheduler`: the orchestrator is the scheduler's one
caller, the pings are its tasks, and every step of discovery that schedules, runs
or awaits a ping is a step of the scheduler (`Schedule`, `PingEnds`). `phase` is
where `run` is: `discovery`, `arp` (one `ArpBatch` for each source address),
`ping`, `scan` (which way of scanning is chosen in `StartScan`), the way itself
(`syn`: all hosts in one engine call; `udp`, `stealth`, `connect`: host by host;
`ports`, `first`, `second`: port by port), `annotate`, and the two ends. `scan_port`
and `scan_port_connect` turn every error into a verdict, so the scan of a single
port cannot fail; only a bad script selector (`Annotate`) ends a run early.
`config` holds the three options that decide about the phases (`-Pn`, `-sn`, two
phases). The engines appear as what they promise: a set of verdicts, or an
error. `lost` remembers the hosts whose scan failed, which the code only logs;
`asked` the probes that were handed to an engine.

### ScanApi

One step per access to a map. `CheckLimit` and `InsertScan` are the two halves
of creating a scan; `PickQueued` and `StartScan` the two halves of the runner's
pass, which takes one queued scan; `StoreResults`, `CompleteScan`, `FailScan`
are the scan's task; `PollStatus` and `StreamTimeout` the event stream.

### PacketRing

`owner` is `tp_status` of a frame, `content` the packet in it, `head` the
kernel's position, `rx` is `rx_frame_idx`. The background task runs through
`top` (while running), `waiting` (`readable()`), `reading`
(`try_recv_zero_copy`), `sending` (`packet_tx.send`), `clearing`
(`clear_ready_matching`). A frame goes back to the kernel when its packet is
dropped (`Release`): by the scanner after copying, by the task when the channel
is closed, by the channel when the engine is dropped. The kernel and `AsyncFd`
are modelled from how the code uses them.

`filled` is a history variable: it becomes true, for good, with the read after
which live packets hold every frame of the ring. From then on the reader can come
round to a frame that it has read already, which the code does not notice
(`packet_ring_default`); until then everything below holds, whatever the sizes.

## 3. What is checked

Each run is complete: TLC visits every reachable state of its instance.

| Run | Instance | States | Shows |
|---|---|---|---|
| `tcp_scan` | 3 ports, window 1 to 3, batches of 2, 2 retries | 233,000 | all the promises of a TCP scan, below |
| `multi_scan` | 2 hosts of 2 ports, limits doubled and cut to 3, 2 retries; both hosts captured, one or none | 394,000 | each host gets the scan it would get alone; load; round-robin; all decided |
| `udp_scan` | 2 hosts of 2 ports, window 1 to 2, 1 retry, any ports busy | 1,380,000 | those of a UDP scan, below |
| `udp_scan_stall` | 2 ports, window 1 | | **violated**: a silent host stops the scan, although every drain ends |
| `rtt_estimator` | timing T5, RTTs of 0.2, 40 and 290 ms, 4 answers per seeding | 9,500 | estimate and timeouts stay in range |
| `rate_limiter` | 2 packets in a window of 4 ticks; 1 sender for 7 ticks, or 2 that race for 5 | 978,000 | windows apart; exact count and bound for one sender |
| `orchestrator` | 4 target sets of up to 5 hosts, all options, 3 pings, 2 permits, channel of 4 | 258,000 | the scheduler's promises, Down hosts, targets, counters, end |
| `scheduler_full` | 4 tasks, channel of 3 | | **violated**: the fourth `schedule` waits for ever |
| `scan_api` | 2 scans, 2 clients, limit 1 | 3,700 | run once, results first, status true, all ends |
| `scan_api_cancel` | 1 scan | | **violated**: a cancelled scan is not |
| `packet_ring` | 3 frames, channel 3, 6 packets | 269,000 | frames kept, order, no hole, no lost wakeup |
| `packet_ring_default` | 2 frames, channel 2 | | **violated**: a frame is read twice |

### The properties

*TCP.* `EveryPortTracked`: a port is in exactly one of unsent, in flight, to be
retried, decided. `WindowRespected`: probes in flight stay within window and
parallelism; it holds because a TCP scan never shrinks its window.
`VerdictEarned`: open and closed come from an answer to this scan's SYN, which
needs the acknowledgement number to be compared. `FilteredEarned`: silence is
believed only after a second SYN. `RetriesJustified`: more retries only when
they have proved useful for some port. `ScanPromise`: the loop implements
`PortScan`, in which a port gets one verdict that its host deserves, and a scan
is complete only with a verdict for every port; the refinement maps `results`
to `verdict` and `pc` to `status`. `EveryPortDecided`: all of it happens even
against a silent host.

*TCP, several hosts.* `HostPromises`: for every host, the loop implements
`PortScan` as if that host were scanned alone; a host the capture does not see is
one that never answers. `LoadBounded`: however many hosts there are, the probes
in flight stay within the total cap and the window, and the window does not outgrow
the cap. It says nothing of the capture ring, for which that cap is too large
(section 5). `FilteredEarned`: here every retry of
the configuration must have been sent, whatever other ports answered.
`HostsInStep`: no host is more than one first probe ahead of another.
`EveryPortDecided`: also when a host is silent or behind another interface.

*UDP.* `VerdictEarned`: a verdict of an answer comes from the scanned host's
answer to a probe of this scan or from another conversation with that very port
(`busy`): the previous host's late answers and packets about other hosts decide
nothing. That busy ports are an exception is what the code does.
`EveryPortTracked` also says that no retry outlives its iteration, which is why
the loop condition may ignore `retry_probes`. `LoadBounded`: a loss can shrink
the window below what is in flight, but never does the load pass the parallelism
limit. `ProbedPortsReported`: after a scan timeout no probed port is missing.
`VerdictsOnlyImprove`: only the last wait may replace a verdict, and only
`OpenOrFiltered`. `SentPortsDecided`: if drains end (`DrainsEnd`), once
everything was sent, everything is decided; that this needs "once everything was
sent" is the finding of `udp_scan_stall`.

*RTT.* `SmoothedWithinSamples`: rounding down does not let the estimate drift.
`TimeoutReasonable`: at least what the fastest answer needs and a margin, at
most `max_rtt`, which is what the scans' fairness rests on; and the clamp of the
first timeout cannot panic.

*Rate.* `CountExact` and `TwiceTheRate` for one sender, which is how the engine
uses the limiter; `WindowsDoNotOverlap` for any number. `TwiceTheRate` is what can
be said of a stretch of time that straddles two windows: no stretch as long as a
window sees more than two windows' worth of packets and one more. A window's worth
is what fits at the limiter's own interval, which `check_rate` rounds down: it is
the configured rate where that divides the window, and somewhat more where it does
not. `sent` is the history of sends that the property counts in; it is stated for
rates of at most a packet per tick, beyond which the interval is 0.

*Orchestrator and scheduler.* `ConcurrencyBounded` is an equation: running tasks
and free permits add up to the limit, so no permit is lost either. `CountsAgree`
relates the three counters to the tasks. `WaitMeansDone`: discovery is over when
every ping is. `DownLeftAlone`: no probe and no result for a host that is Down,
although pings write the status concurrently. `TargetsAccounted`: a target is
missing from the results exactly if it is Down or its scan failed; after a scan in
two phases, none is, the Down ones included (section 5).
`StatisticsAgree`: the counters that six ways of scanning keep by hand agree with
the verdicts. `RunEnds` is liveness, with a channel that just holds the pings.

*REST.* `RunOnce`, `CompletedHasResults`, `StatusFollowsWork` hold although the
runner acts on old lists and any scan may be cancelled at any moment.
`EveryScanEnds` and `EveryStreamEnds` are liveness.

*Capture.* All four hold until live packets hold every frame (`~filled`).
`HeldFramesKept`: a live packet's frame is the program's and holds what was read.
`DeliveredInOrder`: in order and once. `NoHoles`: what waits to be read lies
between `rx` and `head`. `EveryPacketDelivered`: liveness, the lost-wakeup
property. What happens after that is not their subject but that of
`packet_ring_default`, whose `ReceivedIntact` has no condition.

Some hazards are named in `PROJECT.json` without a property, as none could tell
right from wrong there: a maximum rate of 0, the 1500 probes that share 1024
frames, the drain without a deadline, a scan in two phases that reports Down
hosts, and a panic in a scan (`runner.rs:79`), which no model has: the task of the
scan is gone, its status stays `Running` for ever and its place under the limit is
never given back, so `StatusFollowsWork` and `EveryScanEnds` are about scans that
do not panic.

### The bounds, and why they are enough

- *Scans.* Three ports are enough for one in flight, one waiting for a retry and
  one unsent; the window starts below what the ports need, grows through slow
  start and congestion avoidance, and reaches the parallelism limit; the batch
  limit bites; two retries are needed for the adaptive limit (a third SYN must
  be earned by another port). The UDP run needs two hosts, as the controller is
  carried over, and an `IterationCap` beyond the last drop of the first host.
  The ports that are busy are any set of each host's ports.
- *RTT.* The three samples lie below the variance floor, near and above the
  initial value, so that floor, ceiling and rounding are all met.
- *Several hosts.* Two hosts are enough for one to be ahead, silent or not
  captured; the cap of 3 lies below the limits of one host times two, so it
  bites. Ports answer `SYN+ACK` or not at all, as `tcp_scan` has the other
  answers.
- *Rate.* The time bound (`MaxTime`) covers two windows with a reset each, the one
  of several senders (`MaxSharedTime`) the race for a reset; `Forever` stands for
  `u64::MAX` and is never reached by arithmetic.
- *Orchestrator.* More pings than permits, a channel that the pings and their
  shutdown message fill; own network, own address, network address, remote and
  IPv6 targets, alone and together; one port in both phases and one only in the
  second.
- *REST.* Two requests that overlap, two scans, one place.
- *Capture.* Six packets go twice round a ring of three frames, with as many
  places in the channel as frames, the ratio of the defaults (1024 and 1024); so
  live packets can fill the ring, and both sides of `filled` are met. The
  counter of arrivals (`MaxPackets`) is the only bound that the code does not
  have.

### Fairness, and why the code justifies it

- *TCP scans* (`FairSpec`): the task is scheduled again (weak fairness of its own
  steps); a drain has a deadline; a probe that is in flight at check after check
  is found timed out in the end (strong fairness), as `recommended_timeout` is
  at most `max_rtt` (`TimeoutReasonable`). Nothing is assumed of the network,
  and the scan timeout need not strike.
- *Several hosts:* the same, for (host, port) pairs.
- *UDP scans:* the same, but for the drain. It ends only after 10 ms without a
  packet, and every packet, matched or not, starts the wait anew; there is no
  deadline, and the scan timeout is not looked at meanwhile. So `EndDrain` is not
  fair, and that every drain ends is written out where it is needed: `DrainsEnd`
  is the hypothesis of `SentPortsDecided` and of `EveryPortDecided`. It is an
  assumption on the traffic of this machine, which the code does not guarantee.
- *Orchestrator* (`RunFairSpec`): the runtime polls `run`; every ping and every
  scan has a timeout, so a task ends.
- *REST:* the runner polls for ever; an accepted request is handled; a scan ends;
  a stream polls. Nobody need cancel, and `SSE_TIMEOUT` need not strike.
- *Capture:* the runtime schedules the background task, and the scanner goes on
  receiving while the engine runs. Nothing is assumed of the kernel.

Deadlock is checked for the scans and the orchestrator with its scheduler, whose
ends are steps of their own (`Stopped`), and for the RTT estimator. The other
models stop where their bound on time, scans or packets is used up, and say
`CHECK_DEADLOCK FALSE`, as does `scheduler_full`, whose stop is the finding.

## 4. What is proved

TLAPS checks these for every value of the constants that the named assumptions
(`ScanAssumption`, `MultiAssumption`, `CongestionAssumption`, `UdpAssumption`,
`RttAssumption`, `RateAssumption`, `SchedulerAssumption`,
`OrchestratorAssumption`, `ApiAssumption`, `RingAssumption`) allow. Those say
that sets of hosts, ports, tasks and scans are finite, that limits are naturals
(positive where the code divides by them or starts from them), that a scan of
several hosts has at least two and that its lists repeat nothing, and that the
bounds of a configuration are in order; TLC evaluates them in the runs. One
theorem has a hypothesis of its own: `WaitingWaits` needs a scheduler with one
caller. That the orchestrator's own scheduler is such a one is part of its
initial state (`OwnScheduler`), as `ScanOrchestrator::new` makes it, so that
what is proved of the scheduler alone holds for any callers. `TwiceTheRate` and
`CountExact` are implications whose premise is one sender, `HeldFramesKept`,
`DeliveredInOrder` and `NoHoles` ones whose premise is `~filled`; they hold for
any sizes, the 1024 places and 1024 frames that the program uses included, and
without the premise they are false, as `packet_ring_default` shows.

| Module | Theorem | States |
|---|---|---|
| `TcpScanProofs` | `TypeCorrect` | `[]TypeOK` |
| | `NoProbeLost` | `[]EveryPortTracked` |
| | `VerdictsAreEarned` | `[]VerdictEarned` |
| | `SilenceIsEarned` | `[]FilteredEarned` |
| | `RetriesAreJustified` | `[]RetriesJustified` |
| | `WindowIsRespected` | `[]WindowRespected` |
| | `KeepsPromise` | `ScanPromise`: `TcpScan` implements `PortScan` |
| | `PromiseIsEnough`, `ScanIsReliable` | from the promise alone: who returns has decided every port, and as its host deserves |
| `MultiScanProofs` | `TypeCorrect` | `[]TypeOK` |
| | `NoProbeLost` | `EveryPortTracked` of `TcpScan`, of pairs of a host and a port |
| | `LoadIsBounded` | `[]LoadBounded` |
| | `SilenceIsEarned` | `[]FilteredEarned` |
| | `HostsStayInStep` | `[]HostsInStep` |
| | `KeepsPromises` | `HostPromises`: for each host, `MultiScan` implements `PortScan` |
| | `PromisesAreEnough`, `ScanIsReliable` | from the promises alone: every port of every host decided, and as it deserves |
| `UdpScanProofs` | `NoProbeLost` | `[]EveryPortTracked` |
| | `LoadIsBounded` | `[]LoadBounded` |
| | `VerdictsAreEarned` | `[]VerdictEarned` |
| | `NothingForgotten` | `[]ProbedPortsReported` |
| | `OnlyImprovements` | `VerdictsOnlyImprove`, an action property |
| `RttEstimatorProofs` | `SmoothedStaysWithin` | `[]SmoothedWithinSamples` |
| | `TimeoutsReasonable` | `[]TimeoutReasonable` |
| `RateLimiterProofs` | `TypeCorrect` | `[]TypeOK` |
| | `ResetOnce` | senders that saw the same window end never both empty the count |
| | `WindowsApart` | `WindowsDoNotOverlap`, an action property |
| | `CountIsExact` | `[]CountExact` |
| | `NoBurst` | `[]TwiceTheRate` |
| `OrchestratorProofs`, of `TaskScheduler` | `Bounded` | `[]ConcurrencyBounded` |
| | `MovesOnce` | a task is sent by one caller and queued once |
| | `CountsTrue` | `[]CountsAgree` |
| | `WaitingWaits` | `[]WaitMeansDone` |
| | `RunsOnlyWhileWaited` | a task runs only while some caller waits |
| of `Orchestrator` | `Implements` | `RunSpec => Spec`: a run is a use of the scheduler |
| | `PingsBounded`, `PingsCounted`, `PingsWaitedFor` | the scheduler's promises, of a run |
| | `DownIsLeftAlone` | `[]DownLeftAlone` |
| | `NoTargetLost` | `[]TargetsAccounted` |
| | `CountersAgree` | `[]StatisticsAgree` |
| `ScanApiProofs` | `TypeCorrect` | `[]TypeOK` |
| | `RunsOnce` | `[]RunOnce` |
| | `ResultsBeforeCompletion` | `[]CompletedHasResults` |
| | `StatusIsTrue` | `[]StatusFollowsWork` |
| `PacketRingProofs` | `FramesKept` | `[]HeldFramesKept` |
| | `SeenOnce` | `[]DeliveredInOrder` |
| | `ReaderNeverStuck` | `[]NoHoles` |

The arguments:

- **TcpScan.** `Tracked` (types and `EveryPortTracked`) is inductive by itself:
  each action moves a port between two of the four places. `VerdictInv` adds
  `Accounted`, which ties the history (SYNs sent, ports answered) to the place of
  a port and its `tryno`; without it neither verdict property is inductive, as
  whether silence was earned depends on how often the port was tried.
  `WindowInv` adds that the controller's maximum is the parallelism limit: what
  the loop does to the window keeps it (`WindowKept`), that is, leaves it at least
  as large as it was or at the maximum, and never takes it over that.
  `KeepsPromise` is step simulation: under `VerdictInv` every step either gives
  ports verdicts that their host deserves, ends the scan, or is a stutter of
  `PortScan`. `PromiseIsEnough` uses the promise and nothing of the loop.
- **MultiScan.** Every step but the check for timeouts is a step of `TcpScan`'s
  loop over (host, port) pairs (`StepIsLoopStep`, `LoopStep`). So `TcpScanProofs` is
  instantiated (`Proved`), what it proves of a step is used for those steps, and
  only the check (`CheckEffect`) is done afresh. `Placed` (types and places) and
  `LoadInv` (the window, its maximum and its reach) carry over in this way.
  `Counted` does not, as retries are not adaptive here: it ties the SYNs sent to the
  retry count. `InTurn` says that what `work_iter` has left is the end of its
  order; from it `OnePortAhead` follows, that of the ports one host has begun and
  another has not there is at most one, and `HostsInStep` by counting. For
  `KeepsPromises` the overwriting of results is the point: a probe that is in flight
  has no verdict yet (`Placed`), so nothing is taken back, and whether a host is
  captured decides what it deserves (`Seen`).
- **UdpScan.** What arrives about a port matches only if it is the scanned
  host's answer or the port is busy, so a verdict is earned as `VerdictEarned`
  says. `UInv` says where a port may be (`EveryPortTracked`), that a port with a
  verdict or a probe was probed (`Probed`), what the last wait may find
  (`LastWait`) and what `results` may hold (`VerdictEarned`); `InFlightBounded`
  counts. The load needs no bound of the window: what is sent is compared with
  both, and a shrinking window takes nothing out of flight.
- **RttEstimator.** `Estimates` says that the smoothed value lies within `lo`
  and `hi`, the variance within its box, and the adapted minimum below the
  maximum. The one arithmetic fact is `SmoothedBetween`: `(7a + b) \div 8` lies
  between `a` and `b`.
- **RateLimiter.** `Elapsed`: who is about to move the window saw it over, and
  who has just moved it left it a window later than what it saw. So two resets of
  the same window would need one start to be seen twice, with a move in between.
  `CountIsExact` needs in addition where the one active sender is between the
  reset of the start and that of the count. For `NoBurst`, `PaceInv` relates the
  history to the window. `Pace` says that the last packet of the current window was
  sent when it was due (`Due`), or is about to be, so that a window holds at most one
  more than its worth, and that all but so many of the earlier packets were sent a
  window before it began; `Spread`, that two sends with two windows' worth between
  them are a window apart. So the sends in a stretch of a window's length are few
  (`NearTogether`).
- **TaskScheduler.** `ConcurrencyBounded` needs that a task which is spawned was
  not running, hence that it comes out of the channel once: `SentOnce` and
  `QueuedOnce`. `OneStarts` and `OneStops` count. `WaitingWaits` needs that the
  tasks of a round lie in the channel before its shutdown message, which is so
  for a lone caller that does not send another one.
- **Orchestrator.** `Implements` gives it the scheduler's theorems.
  `SchedulerInv` adds that nothing of the scheduler moves outside the phase
  `ping` and that a ping which was awaited is over; so the status of a host is
  fixed when the scan starts. `ScanInv` says, per way of scanning, which targets
  are still to come, reported or lost. `TallyInv` is `StatisticsAgree` and what it
  needs: a verdict is about a probe that was made, and a way that scans whole
  hosts has asked nothing of those to come, so what it counts is new (`Merged`).
- **ScanApi.** `RunOnce` needs that whatever the runner has picked was not run
  before, although its status may have changed since (`NotRunYet`), which needs
  that no request inserts a scan that others know (`RequestFresh`).
- **PacketRing.** The frames that the kernel fills are counted without wrapping
  round: the `j`-th lies at `Slot(j)`, which is `j % FrameCount`. `RInv` says that
  there are `b`, `r` and `w` such that the live packets are those from `b` to
  `r - 1`, in the order scanner, channel, task, and the frames still to be read
  those from `r` to `w - 1`; that a frame is the program's exactly if it is one
  from `b` to `w - 1`; and that newer ones hold newer packets. As the live packets
  lie in consecutive frames, `r = b + FrameCount` would mean that they hold every
  one (`SlotsAll`); until they do, the reader meets a frame of the kernel's before
  it comes round to the oldest (`ReaderNotRound`). So `IInv`, which is `RInv`
  until `filled`, is inductive. Remainders are reduced
  to a few lemmas (`DivMod`, `UniqueMod` and what follows).

Only model-checked: all liveness, as fairness and `ENABLED` are out of the
prover's reach. These are `EveryPortDecided` (TCP, several hosts), `SentPortsDecided`,
`RunEnds`, `EveryScanEnds`, `EveryStreamEnds` and `EveryPacketDelivered`; every
invariant and every action property of the passing runs is a theorem. None of the
proofs uses an induction principle over data, which the installed provers cannot
instantiate.

## 5. Where the code and its documentation disagree

Four are runs, with the counterexample TLC finds (`findings` in `PROJECT.json`):

- **`udp_scan_stall`.** `scan_udp_ports` is documented to retransmit timed-out
  probes and to return a map of the ports to their states. It looks at timeouts
  only when no port is left to send. A window full of silent ports keeps ports
  unsent, so nothing times out and nothing is sent until the scan timeout, and
  the ports that were not sent are missing from the map.
- **`scheduler_full`.** `schedule` is documented to return an error when the
  queue is full. It waits for room, which only `wait_for_completion` makes, and
  host discovery calls that after scheduling every ping: with more remote targets
  than the channel has places (1024), `schedule` (`scheduler.rs:251`) waits for
  ever. With exactly as many, every `schedule` returns and it is the shutdown
  message of `wait_for_completion` (`scheduler.rs:330`) that finds no place.
- **`scan_api_cancel`.** Cancelling overwrites the status; the scan goes on, and
  its task or the runner overwrites the status again.
- **`packet_ring_default`.** `ZeroCopyPacket::new` asks that the frame stay valid
  as long as the packet. A frame that was read and is still held looks like one
  that was not read, and with the default channel (1024) and ring (1024 frames)
  the reader can go all the way round to it. It then delivers the packet twice,
  and the first drop gives the frame back to the kernel under the second copy.
  Until live packets hold every frame, all is well (`packet_ring`).

Others were met while modelling and have no run of their own:

- *Scan timeout* (`ultrascan.rs:1200`): `scan_ports` is documented to return an
  error on a timeout; it returns `Ok` with the unsent and the to-be-retried ports
  missing. `PortScan` has this as `Expire`. The doc of `scan_udp_ports`
  (`ultrascan.rs:2023`) promises the same error, and it returns `Ok`, too, with the
  ports that were not sent missing.
- *Cap of several hosts* (`ultrascan.rs:1520`): the comment takes 1500 probes in
  flight to leave room in a ring of 2048 frames; the engine is opened with
  `RingConfig::default()`, which has 1024. The load stays within 1500
  (`LoadBounded`), but that many answers can overflow the ring.
- *UDP answers* (`ultrascan.rs:2188`): the local port of a packet is not compared,
  so traffic of another program with the scanned host and a port in flight decides
  that port (`busy` in the model).
- *UDP drain* (`ultrascan.rs:2184`): it ends only after 10 ms without a packet, so
  steady UDP or ICMP traffic to this machine keeps the scan in it, past its timeout.
- *Duplicates* (`rustnmap-cli/src/cli.rs`, `parse_port_string`; the SDK's and the
  REST runner's targets): neither ports nor targets are made distinct, although
  `doc/modules/target-parsing.md:50` says that duplicates are removed. In
  `scan_ports_multi` a port listed twice has two probes, and the timeout of the
  second overwrites the `Open` that the first earned (`HostPromises` holds as
  hosts and ports are distinct in the model).
- *One interface* (`ultrascan.rs:1558`): the capture engine of a scan of several
  hosts listens on the first target's interface only; hosts behind another one
  are scanned to the end and all their ports are `Filtered`.
- *Two phases* (`orchestrator.rs:2749`): hosts that discovery found Down are
  scanned and reported, also with `-sn`, although the comment on the hosts without
  open ports says that they are alive.
- *Orchestrator:* an error of the engine is only logged, and its hosts are missing
  from the results (`lost` in the model); `packets_sent` counts verdicts, not
  packets; `-sn` with `-Pn` of a single target reports nothing.
- *Second host* (`ultrascan.rs:2093`): without a reset, the last drop iteration
  of one host's UDP scan makes the next host's losses count for nothing until
  its loop has run as often.
- *Scheduler* (`scheduler.rs`): the priority of a task is not used; tasks are
  accepted after a shutdown; a shutdown message left over ends a later run
  before that run's tasks, and with several callers one may receive another's;
  `active_count` is reduced only when a handle is
  awaited, so it can pass the limit; a limit of 0 makes the run loop wait for
  ever.
- *REST:* two requests can both pass the check of the limit before either inserts
  its scan; a cancelled scan no longer counts against the limit while it runs
  on; an ended scan can be cancelled; `result_retention` is not enforced.
- *Capture:* a cloned packet (`zero_copy.rs:539`) would give its frame back twice;
  nothing in the program clones one. An engine that is stopped and started again
  while its first task still waits has two tasks on one ring
  (`async_engine.rs:392`); nothing in the program does that either.
- *RTT:* comments disagree about whether `min_rtt` bounds a timeout; it bounds
  only the first, and a prepared engine counts as having measured.
- *Rate:* the sliding window is a fixed one, so a stretch across two windows can
  see nearly twice the rate; the interval between packets is rounded down, so a
  rate that does not divide the window is exceeded a little; a maximum of 0
  means an interval of `u64::MAX` and not "unlimited".

## 6. What is not modelled

- **Data.** Parsing and building packets, fingerprints, databases, payloads,
  output formats, evasion, CLI and SDK: functions of their input, for tests.
- **Generated and foreign code.** The Lua libraries, `nselib/`, `db/`, benchmarks,
  and `reference/nmap`, a copy of the C program that RustNmap is measured
  against. That copy holds all of the C code here and most of its lines; no crate
  builds or calls it, so none of it is modelled, and a count of modelled lines
  that includes it says little. The models cover the Rust crates.
- **Wall-clock time.** Scans and capture have no clock; the rate limiter counts
  ticks. That a timeout is in range is shown by `RttEstimator`, not how long a
  scan takes.
- **Within modelled components:** the set-up of socket and mapping, sending,
  filters and statistics of the capture engine; a second `start` of an engine;
  `clone` of a packet; request validation and authentication of the REST server;
  panics of a scan's task; the getters everywhere; the unused priority queue; of
  the orchestrator, what the phases after the scan add to the results, and how
  the type of the scan is derived from the options (any of the ways is taken).
- **Pieces that do nothing yet.** The priority queue, the scanner's
  `timeout.rs`, the core congestion controller and the stateless scan have no
  callers; the adaptive delay and the scanner's `congestion.rs` are held by the
  orchestrator, but the functions that change them are dead code.
- **Not yet:** see the plan.

`PROJECT.json` gives the reason for each component.

## 7. Plan

The order is that of importance: the scans first, then what they rest on.
Every module keeps its parameters as constants with named assumptions, has one
action per operation and no `RECURSIVE` operator.

Done: `CongestionControl`, `PortScan`, `TcpScan`, `MultiScan`, `UdpScan`,
`RttEstimator`, `RateLimiter`, `TaskScheduler`, `Orchestrator`, `ScanApi`,
`PacketRing`, and eight proof modules, with a theorem for every invariant, action
property and refinement that the passing runs check.

What could come next:

1. A promise like `PortScan` for `UdpScan`, whose verdicts may improve, and the
   orchestrator's ways of scanning stated over those promises.
2. `StatelessScan`: sender, network, receiver and cookie, with ports and cookies
   as model values and the time modulo its width; which answers are accepted.
3. The batch mode of the stealth scans and the three steps of the idle scan.
4. The transactions of the scan history, and the script scheduling of the script
   engine.
5. The core congestion controller, with its atomics one step at a time.
