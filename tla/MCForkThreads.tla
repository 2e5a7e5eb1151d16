--------------------------- MODULE MCForkThreads ---------------------------
(* Instances of ForkThreads.  Processes, contexts and thread addresses are  *)
(* interchangeable.                                                         *)
EXTENDS ForkThreads, TLC

Symmetry == Permutations(Proc) \cup Permutations(Ctx) \cup Permutations(Thread)
=============================================================================
