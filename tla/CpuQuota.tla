----------------------------- MODULE CpuQuota -----------------------------
(***************************************************************************)
(* The CPU entitlement lookup GetCPUCntByPid (pkg/automaxprocs): detect    *)
(* the cgroup version, then on V2 read /proc/<pid>/cgroup for the "0::"    *)
(* path and read cpu.max in that directory, round quota/period, floor it   *)
(* at 1; an undefined quota gives runtime.NumCPU(), an error gives         *)
(* NumCPU together with the error. The V1 tier                             *)
(* (GetCPUQuotaToCPUCntByPidFroCgroups1) is not in this repository and is  *)
(* modelled from the spec as one read of cfs_quota_us / cfs_period_us.     *)
(*                                                                         *)
(* The two V2 reads happen at different instants; between them the        *)
(* environment may move the target, remove or create cgroups, rewrite      *)
(* cpu.max or end the target. The ghost variables moved and answers        *)
(* record, for the call in progress, whether the environment moved and     *)
(* which answers were correct at some instant of the call.                 *)
(***************************************************************************)
EXTENDS CGroupHost, Integers

CONSTANTS
    NumCPU,      \* runtime.NumCPU(): the host's logical cores
    QuotaVals,   \* cpu.max quota values (abstract units)
    PeriodVals,  \* cpu.max period values (same units)
    MaxCalls,    \* bound on the number of GetCPUCntByPid calls
    Max          \* the quota token "max" of cpu.max (cfs_quota_us -1 on V1)

ASSUME CpuQuotaAssumption ==
    /\ NumCPU \in Nat \ {0}
    /\ QuotaVals \subseteq Nat \ {0}
    /\ PeriodVals \subseteq Nat \ {0}
    /\ MaxCalls \in Nat
    /\ Max \notin Nat

VARIABLES
    cpuMax,   \* cpuMax[c]: the content of c/cpu.max (cfs values on V1)
    pc,       \* where the caller is in GetCPUCntByPid
    path,     \* the cgroup path FindCGroupV2Path returned
    result,   \* [cnt, err] returned by the last call
    calls,    \* number of calls started
    moved,    \* ghost: the environment stepped since the call started
    answers   \* ghost: the correct answers at the instants of the call

vars == <<hostVars, cpuMax, pc, path, result, calls, moved, answers>>
callVars == <<pc, path, result, calls>>

\* The contents "<quota> <period>" and "max <period>" of cpu.max.
CpuMaxVals == [quota : QuotaVals \cup {Max}, period : PeriodVals]

\* The quota of c is unlimited: "max", or the root cgroup, which has no
\* cpu.max on V2 and cfs_quota_us = -1 on V1.
Unlimited(c) == IF c = Root THEN TRUE ELSE cpuMax[c].quota = Max

\* The caller passes minValue = 1 (GetCPUCntByPidForCgroups2/1).
MinValue == 1

\* DefaultRoundFunc: round quota/period to the nearest integer, halves up.
DefaultRoundFunc(q, p) == (2 * q + p) \div (2 * p)

\* A mutant of QuotaToCnt: the minValue floor dropped.
QuotaToCntNoFloor(v) == DefaultRoundFunc(v.quota, v.period)

\* round(quota), then the minValue floor (MinUsed) or the value (Used).
QuotaToCnt(v) ==
    LET maxProcs == DefaultRoundFunc(v.quota, v.period)
    IN  IF MinValue > 0 /\ maxProcs < MinValue THEN MinValue ELSE maxProcs

Answer(cnt, err) == [cnt |-> cnt, err |-> err]
Answers == [cnt : Nat, err : BOOLEAN]

\* The whole number of cores nearest to quota/period, halves up (spec
\* section 4.2 and its note on rounding): n - 1/2 <= q/p < n + 1/2.
NearestCores(q, p) ==
    CHOOSE n \in 0..(q + 1) : 2 * n * p - p <= 2 * q /\ 2 * q < 2 * n * p + p

\* The spec's core count for a defined quota: the nearest whole number of
\* cores, never below the caller's minimum.
SpecCpuCount(v) ==
    LET n == NearestCores(v.quota, v.period)
    IN  IF n < MinValue THEN MinValue ELSE n

(***************************************************************************)
(* What the call should return in a given state (spec section 4.2): the   *)
(* quota of the hierarchy that carries the cpu controller (cgroup2 on a    *)
(* unified host, the v1 cpu hierarchy otherwise), NumCPU when it is        *)
(* unlimited, NumCPU with an error when every tier fails: the process is  *)
(* gone, or it sits in the v2 root cgroup, which has no cpu.max (the v1    *)
(* root has cfs_quota_us = -1, an undefined quota).                        *)
(***************************************************************************)
Entitlement ==
    CASE procCg = Exited -> Answer(NumCPU, TRUE)
      [] procCg = Root   -> Answer(NumCPU, layout = "unified")
      [] procCg \in Cgroups /\ cpuMax[procCg].quota = Max -> Answer(NumCPU, FALSE)
      [] procCg \in Cgroups /\ cpuMax[procCg].quota # Max ->
             Answer(SpecCpuCount(cpuMax[procCg]), FALSE)

\* c/cpu.max can be read: a live non-root cgroup of a unified hierarchy
\* (on hybrid the cpu controller is bound to v1, not to cgroup2).
CpuMaxReadable(c) == layout = "unified" /\ c \in live

TypeOK ==
    /\ HostTypeOK
    /\ cpuMax \in [Cgroups -> CpuMaxVals]
    /\ pc \in {"idle", "findPath", "cpuQuota", "v1"}
    /\ path \in AllCgroups
    /\ result \in Answers
    /\ calls \in 0..MaxCalls
    /\ moved \in BOOLEAN
    /\ answers \in SUBSET Answers

Init ==
    /\ HostInit
    /\ cpuMax \in [Cgroups -> CpuMaxVals]
    /\ pc = "idle"
    /\ path = Root
    /\ result = Answer(NumCPU, FALSE)
    /\ calls = 0
    /\ moved = FALSE
    /\ answers = {}

(***************************************************************************)
(* The caller.                                                             *)
(***************************************************************************)
\* Return from GetCPUCntByPidForCgroups2/1 with (cnt, err).
Return(cnt, err) ==
    /\ result' = Answer(cnt, err)
    /\ pc' = "idle"
    /\ UNCHANGED <<path, calls>>

\* GetCPUCntByPid: DetectCGroupVersion, then the V2 or the V1 tier (an
\* Unknown version also takes the V1 tier).
GetCPUCntByPid ==
    /\ pc = "idle"
    /\ calls < MaxCalls
    /\ calls' = calls + 1
    /\ pc' = IF DetectCGroupVersion = "V2" THEN "findPath" ELSE "v1"
    /\ moved' = FALSE
    /\ answers' = {Entitlement}
    /\ UNCHANGED <<hostVars, cpuMax, path, result>>

\* A mutant of FindCGroupV2Path: the caller passes on the -1 of
\* GetCPUQuotaToCPUCntByPidForCgroups2 instead of NumCPU.
FindCGroupV2PathRaw ==
    /\ pc = "findPath"
    /\ \/ /\ ~(procCg # Exited /\ HasUnifiedLine)
          /\ Return(-1, procCg = Exited)
       \/ /\ procCg # Exited /\ HasUnifiedLine
          /\ path' = procCg
          /\ pc' = "cpuQuota"
          /\ UNCHANGED <<result, calls>>
    /\ UNCHANGED <<hostVars, cpuMax, moved, answers>>

\* FindCGroupV2Path reads /proc/<pid>/cgroup: a read error is returned as
\* (-1, Undefined, err), so NumCPU with the error; no "0::" line gives ""
\* and an undefined quota, so NumCPU.
FindCGroupV2Path ==
    /\ pc = "findPath"
    /\ \/ /\ ~(procCg # Exited /\ HasUnifiedLine)
          /\ Return(NumCPU, procCg = Exited)
       \/ /\ procCg # Exited /\ HasUnifiedLine
          /\ path' = procCg
          /\ pc' = "cpuQuota"
          /\ UNCHANGED <<result, calls>>
    /\ UNCHANGED <<hostVars, cpuMax, moved, answers>>

\* CGroupV2Impl.CPUQuota reads path/cpu.max: a read error gives NumCPU with
\* the error, "max" an undefined quota (NumCPU), otherwise quota/period
\* rounded and floored at minValue.
CPUQuota ==
    /\ pc = "cpuQuota"
    /\ \/ /\ ~CpuMaxReadable(path)
          /\ Return(NumCPU, TRUE)
       \/ /\ CpuMaxReadable(path)
          /\ cpuMax[path].quota = Max
          /\ Return(NumCPU, FALSE)
       \/ /\ CpuMaxReadable(path)
          /\ cpuMax[path].quota # Max
          /\ Return(QuotaToCnt(cpuMax[path]), FALSE)
    /\ UNCHANGED <<hostVars, cpuMax, moved, answers>>

\* The V1 tier: one read of the target's cfs quota and period; -1 is an
\* undefined quota, a missing process an error.
CPUQuotaV1 ==
    /\ pc = "v1"
    /\ \/ /\ procCg = Exited
          /\ Return(NumCPU, TRUE)
       \/ /\ procCg # Exited
          /\ Unlimited(procCg)
          /\ Return(NumCPU, FALSE)
       \/ /\ procCg # Exited
          /\ ~Unlimited(procCg)
          /\ Return(QuotaToCnt(cpuMax[procCg]), FALSE)
    /\ UNCHANGED <<hostVars, cpuMax, moved, answers>>

(***************************************************************************)
(* The environment. Every step sets moved and, while a call is in          *)
(* progress, adds the answer that is correct in the new state.             *)
(***************************************************************************)
Observe ==
    /\ moved' = TRUE
    /\ answers' = IF pc = "idle" THEN answers ELSE answers \cup {Entitlement'}

\* Writing "<quota> <period>" or "max <period>" into c/cpu.max.
SetCpuMax(c, v) ==
    /\ EnvStep
    /\ c \in live
    /\ cpuMax[c] # v
    /\ cpuMax' = [cpuMax EXCEPT ![c] = v]
    /\ UNCHANGED <<layout, optFields, procCg, live>>

\* A new cgroup starts with cpu.max = "max <default period>".
EnvMkdir(c) ==
    /\ Mkdir(c)
    /\ \E p \in PeriodVals : cpuMax' = [cpuMax EXCEPT ![c] = [quota |-> Max, period |-> p]]

Environment ==
    /\ \/ \E c \in AllCgroups : Migrate(c) /\ UNCHANGED cpuMax
       \/ Exit /\ UNCHANGED cpuMax
       \/ \E c \in Cgroups : Rmdir(c) /\ UNCHANGED cpuMax
       \/ \E c \in Cgroups : EnvMkdir(c)
       \/ \E c \in Cgroups, v \in CpuMaxVals : SetCpuMax(c, v)
    /\ Observe
    /\ UNCHANGED callVars

Next ==
    \/ GetCPUCntByPid
    \/ FindCGroupV2Path
    \/ CPUQuota
    \/ CPUQuotaV1
    \/ Environment

Spec == Init /\ [][Next]_vars

(***************************************************************************)
(* Properties.                                                             *)
(***************************************************************************)

\* A call during which nothing on the host changed returns exactly the
\* entitlement the spec defines for that state: quota/period rounded to the
\* nearest core and floored at 1, NumCPU for an unlimited quota, NumCPU with
\* an error when the process is gone or sits in the v2 root (GetCPUCntByPid
\* with FindCGroupV2Path, CPUQuota and the rounding of
\* GetCPUQuotaToCPUCntByPidForCgroups2).
QuiescentCallMatchesEntitlement ==
    (pc = "idle" /\ calls > 0 /\ ~moved) => result = Entitlement

\* The answer of a call is the correct answer at some instant of the call
\* (the spec, section 5: every call re-reads the files, so no staleness).
\* FindCGroupV2Path and CPUQuota read two files at two instants.
CallResultLinearizable ==
    (pc = "idle" /\ calls > 0) => result \in answers

=============================================================================
