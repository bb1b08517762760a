---------------------------- MODULE MC_CpuUsage ----------------------------
(* A small instance of CpuUsage: two cgroups besides the root, counters   *)
(* up to 3 units, a host of two logical cores.                             *)
EXTENDS CpuUsage, TLC

CONSTANTS cgA, cgB

MCCgroups == {cgA, cgB}
MCSymmetry == Permutations(MCCgroups)

=============================================================================
