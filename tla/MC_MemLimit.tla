---------------------------- MODULE MC_MemLimit ----------------------------
(* A small instance of MemLimit: two cgroups besides the root, limits of  *)
(* 1 and 2 units, charges up to 2 units, a host of 8 units.               *)
EXTENDS MemLimit, TLC

CONSTANTS cgA, cgB

MCCgroups == {cgA, cgB}
MCMemLimits == {1, 2}
MCSymmetry == Permutations(MCCgroups)

=============================================================================
