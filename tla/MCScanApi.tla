----------------------------- MODULE MCScanApi -----------------------------
(***************************************************************************)
(* Small instances of ScanApi.                                             *)
(***************************************************************************)
EXTENDS ScanApi
=============================================================================
