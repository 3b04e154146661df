----------------------------- MODULE MCUdpScan -----------------------------
(***************************************************************************)
(* Small instances of UdpScan.                                             *)
(***************************************************************************)
EXTENDS UdpScan
=============================================================================
