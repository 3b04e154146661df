---------------------------- MODULE MCMultiScan ----------------------------
(***************************************************************************)
(* Small instances of MultiScan.                                           *)
(***************************************************************************)
EXTENDS MultiScan

CONSTANTS h1, h2, p1, p2

TwoHosts == <<h1, h2>>
TwoPorts == <<p1, p2>>
=============================================================================
