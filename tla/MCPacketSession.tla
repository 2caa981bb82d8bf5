-------------------------- MODULE MCPacketSession --------------------------
(* Instances of PacketSession for TLC.                                     *)
EXTENDS PacketSession

CONSTANTS t1, t2, p1, p2, p3
=============================================================================
