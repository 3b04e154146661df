----------------------------- MODULE MCTcpScan -----------------------------
(***************************************************************************)
(* Small instances of TcpScan.                                             *)
(***************************************************************************)
EXTENDS TcpScan
=============================================================================
