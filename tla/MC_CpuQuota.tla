---------------------------- MODULE MC_CpuQuota ----------------------------
(* A small instance of CpuQuota: two cgroups besides the root, quotas that *)
(* round to 0 (floored to 1), 1 and 2 cores, a host of 4 cores.           *)
EXTENDS CpuQuota, TLC

CONSTANTS cgA, cgB

MCCgroups == {cgA, cgB}
MCQuotaVals == {1, 3}
MCPeriodVals == {2, 4}
MCSymmetry == Permutations(MCCgroups)

=============================================================================
