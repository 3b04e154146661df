---------------------------- MODULE RttEstimator ----------------------------
(***************************************************************************)
(* The RTT half of InternalCongestionStats                                 *)
(* (crates/rustnmap-scan/src/ultrascan.rs): the smoothed round-trip time,  *)
(* its variance and the probe timeout they give, from the engine's         *)
(* creation over the orchestrator's preparation of a scan to the answers   *)
(* the scan measures.  Times are microseconds.                             *)
(*                                                                         *)
(* TcpScan and UdpScan abstract all of this to "any probe in flight may    *)
(* have timed out"; what they assume, that a timeout is bounded, is shown  *)
(* here.                                                                   *)
(***************************************************************************)
EXTENDS Integers

CONSTANTS
  Rtts,         \* the round-trip times that can be measured
  MinRtt,       \* config.min_rtt
  MaxRtt,       \* config.max_rtt
  InitialRtt,   \* config.initial_rtt
  AdaptFloor,   \* the absolute floor of set_min_rtt, 5 ms
  VarFloor,     \* lower bound of the variance, 5 ms
  VarCeil,      \* upper bound of the variance, 2 s
  MaxSamples    \* bound: answers measured after one seeding

ASSUME RttAssumption ==
  /\ Rtts \subseteq Nat
  /\ MinRtt \in Nat /\ MaxRtt \in Nat /\ InitialRtt \in Nat
  /\ MinRtt <= MaxRtt /\ InitialRtt <= MaxRtt
  /\ AdaptFloor \in Nat
  /\ VarFloor \in Nat \ {0} /\ VarCeil \in Nat /\ VarFloor <= VarCeil
  /\ MaxSamples \in Nat

VARIABLES
  phase,     \* idle, or a scan is running
  prepared,  \* the orchestrator prepared the engine since its creation
  minRtt,    \* min_rtt_micros
  initial,   \* initial_rtt_micros
  srtt,      \* srtt_micros
  rttvar,    \* rttvar_micros
  first,     \* first_measurement
  samples,   \* history: answers measured since the estimate was last seeded
  lo, hi     \* history: extremes of what the smoothed RTT was made from

vars == <<phase, prepared, minRtt, initial, srtt, rttvar, first, samples, lo, hi>>

AtMost(a, b) == IF a <= b THEN a ELSE b
AtLeast(a, b) == IF a >= b THEN a ELSE b
Distance(a, b) == IF a >= b THEN a - b ELSE b - a

TypeOK ==
  /\ phase \in {"idle", "scanning"}
  /\ prepared \in BOOLEAN
  /\ minRtt \in Nat /\ initial \in Nat
  /\ srtt \in Nat /\ rttvar \in Nat
  /\ first \in BOOLEAN
  /\ samples \in 0..MaxSamples
  /\ lo \in Nat /\ hi \in Nat

\* Slip: the variance is not kept away from zero.
VarBoxNoFloor(v) == AtMost(v, VarCeil)

\* clamp(5_000, 2_000_000)
VarBox(v) == AtMost(AtLeast(v, VarFloor), VarCeil)

\* recommended_timeout, with the lower bound only for an unseeded engine.
Timeout ==
  IF first THEN AtMost(AtLeast(initial, minRtt), MaxRtt)
  ELSE AtMost(srtt + 4 * rttvar, MaxRtt)

\* new
Init ==
  /\ phase = "idle"
  /\ prepared = FALSE
  /\ minRtt = MinRtt
  /\ initial = InitialRtt
  /\ srtt = InitialRtt
  /\ rttvar = VarBox(InitialRtt \div 2)
  /\ first = TRUE
  /\ samples = 0
  /\ lo = InitialRtt /\ hi = InitialRtt

\* set_min_rtt
AdaptedMin(r) == AtMost(AtLeast(10 * r, AdaptFloor), MaxRtt)

\* Before a scan the orchestrator calls set_adaptive_min_rtt, with 1 ms for a
\* host found by ARP and with min_rtt itself otherwise, and set_initial_rtt
\* with the RTT it measured, or else the template's.
Prepare ==
  /\ phase = "idle"
  /\ \E m \in {1000, MinRtt} : minRtt' = AdaptedMin(m)
  /\ \E r \in Rtts \cup {InitialRtt} : initial' = r
  /\ first' = FALSE
  /\ prepared' = TRUE
  /\ UNCHANGED <<phase, srtt, rttvar, samples, lo, hi>>

\* scan_ports and scan_ports_multi begin with reset.
StartTcp ==
  /\ phase = "idle"
  /\ phase' = "scanning"
  /\ srtt' = initial
  /\ rttvar' = VarBox(initial \div 2)
  /\ samples' = 0
  /\ lo' = initial /\ hi' = initial
  /\ UNCHANGED <<prepared, minRtt, initial, first>>

\* scan_udp_ports does not.
StartUdp ==
  /\ phase = "idle"
  /\ phase' = "scanning"
  /\ UNCHANGED <<prepared, minRtt, initial, srtt, rttvar, first, samples, lo, hi>>

\* Slip: seven eighths of the old estimate and a seventh of the new.
SmoothedSevenths(old, r) == (7 * old + r) \div 7

\* RFC 2988, in integers.
Smoothed(old, r) == (7 * old + r) \div 8

\* update_rtt: an answer took r, counted from the last SYN to its port.
Measure(r) ==
  /\ phase = "scanning" /\ samples < MaxSamples
  /\ IF first
     THEN /\ srtt' = r
          /\ rttvar' = VarBox(r)
          /\ lo' = r /\ hi' = r
     ELSE /\ srtt' = Smoothed(srtt, r)
          /\ rttvar' = VarBox((3 * rttvar + Distance(srtt', r)) \div 4)
          /\ lo' = AtMost(lo, r) /\ hi' = AtLeast(hi, r)
  /\ first' = FALSE
  /\ samples' = samples + 1
  /\ UNCHANGED <<phase, prepared, minRtt, initial>>

EndScan ==
  /\ phase = "scanning"
  /\ phase' = "idle"
  /\ UNCHANGED <<prepared, minRtt, initial, srtt, rttvar, first, samples, lo, hi>>

Next ==
  \/ Prepare \/ StartTcp \/ StartUdp \/ EndScan
  \/ \E r \in Rtts : Measure(r)

Spec == Init /\ [][Next]_vars
-----------------------------------------------------------------------------
\* However the answers vary, the smoothed RTT stays between the fastest and
\* the slowest RTT it was made from: rounding down does not let it drift.
SmoothedWithinSamples == lo <= srtt /\ srtt <= hi

\* A timeout is never so short that an answer as fast as the fastest one seen
\* would miss it, and leaves it a margin of four times the least variance; it
\* is never longer than the configured maximum, so that a probe without an
\* answer is noticed in the end; and the clamp of the first timeout never
\* panics, since the adapted minimum does not exceed the maximum.
TimeoutReasonable ==
  /\ Timeout <= MaxRtt
  /\ minRtt <= MaxRtt
  /\ ~first => Timeout >= AtMost(lo + 4 * VarFloor, MaxRtt)
=============================================================================
