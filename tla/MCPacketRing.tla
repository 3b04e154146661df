---------------------------- MODULE MCPacketRing ----------------------------
(***************************************************************************)
(* Small instances of PacketRing.                                          *)
(***************************************************************************)
EXTENDS PacketRing
=============================================================================
