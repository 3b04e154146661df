------------------------- MODULE CongestionControl -------------------------
(***************************************************************************)
(* InternalCongestionController of crates/rustnmap-scan/src/ultrascan.rs:  *)
(* the window that bounds how many probes a scan keeps in flight.  The     *)
(* controller is a record, and every method is an operator from a record   *)
(* to a record, so that the scan loops (TcpScan, UdpScan) carry one in a   *)
(* variable.                                                               *)
(*                                                                         *)
(* The RTT half of the statistics only decides when a probe times out; it  *)
(* is the subject of RttEstimator.  "seeded" is the negation of            *)
(* first_measurement: an RTT was measured or propagated from discovery.    *)
(***************************************************************************)
EXTENDS Integers

CONSTANTS
  InitialCwnd,      \* GROUP_INITIAL_CWND
  InitialSsthresh,  \* INITIAL_SSTHRESH
  CaIncr,           \* 1 for T0-T3, 2 for T4-T5
  CcScaleMax        \* the 50 of cc_scale

ASSUME CongestionAssumption ==
  /\ InitialCwnd \in Nat \ {0}
  /\ InitialSsthresh \in Nat \ {0}
  /\ CaIncr \in {1, 2}
  /\ CcScaleMax \in Nat \ {0}

Controllers ==
  [cwnd : Nat, ssthresh : Nat, caAcks : Nat, lastDrop : Nat, maxCwnd : Nat,
   expected : Nat, received : Nat, seeded : BOOLEAN]

AtMost(a, b) == IF a <= b THEN a ELSE b
AtLeast(a, b) == IF a >= b THEN a ELSE b
CeilDiv(a, b) == (a + b - 1) \div b

\* new: the same starting window whatever the maximum is.
NewController(max) ==
  [cwnd |-> InitialCwnd, ssthresh |-> InitialSsthresh, caAcks |-> 0,
   lastDrop |-> 0, maxCwnd |-> max, expected |-> 0, received |-> 0,
   seeded |-> FALSE]

\* reset: everything but the maximum and the first-measurement flag.
Reset(c) ==
  [c EXCEPT !.cwnd = InitialCwnd, !.ssthresh = InitialSsthresh, !.caAcks = 0,
            !.lastDrop = 0, !.expected = 0, !.received = 0]

SetMaxCwnd(c, max) == [c EXCEPT !.maxCwnd = max]

\* set_initial_rtt, as far as the window is concerned.
Seed(c) == [c EXCEPT !.seeded = TRUE]

RecordExpected(c) == [c EXCEPT !.expected = @ + 1]

\* cc_scale, as the fraction num / den.
CcScale(c) ==
  IF c.received = 0 THEN [num |-> 1, den |-> 1]
  ELSE IF c.expected >= CcScaleMax * c.received
       THEN [num |-> CcScaleMax, den |-> 1]
       ELSE [num |-> c.expected, den |-> c.received]

Grown(c, increment) == AtMost(c.cwnd + increment, c.maxCwnd)

\* The ACKs that buy one step of congestion avoidance.
AcksNeeded(c) ==
  LET s == CcScale(c)
  IN  IF s.num > s.den THEN CeilDiv(c.cwnd * s.den, s.num) ELSE c.cwnd

\* on_packet_acked(Some(rtt)): the statistics first, then the window.
OnAcked(before) ==
  LET c == [before EXCEPT !.received = @ + 1, !.seeded = TRUE]
      s == CcScale(c)
  IN  IF c.cwnd < c.ssthresh
      THEN [c EXCEPT !.cwnd = Grown(c, CeilDiv(s.num, s.den))]
      ELSE IF c.caAcks + 1 >= AcksNeeded(c)
           THEN [c EXCEPT !.caAcks = 0,
                          !.cwnd = Grown(c, CeilDiv(CaIncr * s.num, s.den))]
           ELSE [c EXCEPT !.caAcks = @ + 1]

\* on_packet_lost: at most one reduction in a loop iteration, and never
\* below the initial window.
OnLost(c, iteration) ==
  IF iteration <= c.lastDrop THEN c
  ELSE [c EXCEPT !.ssthresh = AtLeast(c.cwnd \div 2, 2),
                 !.cwnd = AtLeast(c.cwnd \div 2, InitialCwnd),
                 !.lastDrop = iteration]

\* maybe_boost_cwnd: double the window of a host that mostly stays silent.
MaybeBoost(c) ==
  LET silent == IF c.received > 0 THEN c.expected > 2 * c.received
                ELSE c.expected > c.cwnd
  IN  IF c.cwnd < c.maxCwnd /\ silent
      THEN [c EXCEPT !.cwnd = AtMost(2 * c.cwnd, c.maxCwnd)]
      ELSE c
=============================================================================
