---------------------------- MODULE MCControlMsg ----------------------------
(* Instances of ControlMsg: the tools that leave their message behind when  *)
(* they time out, the one that does not, and as many types as fill the pool. *)
EXTENDS ControlMsg, TLC

Symmetry == Permutations(Msg)

OneType == {"sysctl"}
TwoTypes == {"sysctl", "route"}
KniType == {"knictl", "sysctl"}
FourTypes == {"sysctl", "ioctl", "top", "traffic"}
=============================================================================
