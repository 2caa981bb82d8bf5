--------------------------- MODULE MCPacketStream ---------------------------
(* Instances of PacketStream for TLC.                                      *)
EXTENDS PacketStream, TLC

CONSTANTS t1, t2, b1, b2, b3

MCSymmetry == Permutations({b1, b2, b3}) \cup Permutations({t1, t2})
=============================================================================
