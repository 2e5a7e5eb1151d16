---------------------------- MODULE MCPacketPath ----------------------------
(* PacketPath with the mbufs, which nothing tells apart, as a symmetry set. *)
EXTENDS PacketPath, TLC

MbufSymmetry == Permutations(Mbuf)
=============================================================================
