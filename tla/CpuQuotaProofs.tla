--------------------------- MODULE CpuQuotaProofs ---------------------------
(***************************************************************************)
(* Proofs about the CPU entitlement lookup of module CpuQuota, for every   *)
(* value of its constants: the type invariant, and that a call during      *)
(* which the host did not change returns the spec's entitlement.           *)
(***************************************************************************)
EXTENDS CpuQuota, TLAPS

USE HostAssumption, CpuQuotaAssumption

(***************************************************************************)
(* Rounding.                                                               *)
(***************************************************************************)

\* DefaultRoundFunc rounds quota/period to the nearest whole number, halves
\* up: its result r satisfies r - 1/2 <= q/p < r + 1/2, and lies in
\* 0..q+1.
LEMMA RoundBounds ==
    ASSUME NEW q \in Nat \ {0}, NEW p \in Nat \ {0}
    PROVE  /\ DefaultRoundFunc(q, p) \in 0..(q + 1)
           /\ 2 * DefaultRoundFunc(q, p) * p - p <= 2 * q
           /\ 2 * q < 2 * DefaultRoundFunc(q, p) * p + p
BY DEF DefaultRoundFunc

\* At most one whole number lies within 1/2 of q/p on the halves-up rule.
LEMMA NearestUnique ==
    ASSUME NEW q \in Nat, NEW p \in Nat \ {0}, NEW n \in Int, NEW m \in Int,
           2 * n * p - p <= 2 * q, 2 * q < 2 * n * p + p,
           2 * m * p - p <= 2 * q, 2 * q < 2 * m * p + p
    PROVE  n = m
<1>1. 2 * n * p < 2 * m * p + 2 * p /\ 2 * m * p < 2 * n * p + 2 * p
  OBVIOUS
<1>2. n < m + 1 /\ m < n + 1
  BY <1>1
<1>. QED  BY <1>2

\* DefaultRoundFunc is the spec's nearest-core rounding.
LEMMA RoundIsNearest ==
    ASSUME NEW q \in Nat \ {0}, NEW p \in Nat \ {0}
    PROVE  DefaultRoundFunc(q, p) = NearestCores(q, p)
<1>. DEFINE r == DefaultRoundFunc(q, p)
<1>1. r \in 0..(q + 1) /\ 2 * r * p - p <= 2 * q /\ 2 * q < 2 * r * p + p
  BY RoundBounds
<1>2. LET n == NearestCores(q, p)
      IN  n \in 0..(q + 1) /\ 2 * n * p - p <= 2 * q /\ 2 * q < 2 * n * p + p
  BY <1>1 DEF NearestCores
<1>. QED  BY <1>1, <1>2, NearestUnique DEF NearestCores

\* The count the code computes from a defined quota is the spec's count.
LEMMA QuotaToCntIsSpec ==
    ASSUME NEW v \in [quota : Nat \ {0}, period : Nat \ {0}]
    PROVE  /\ QuotaToCnt(v) = SpecCpuCount(v)
           /\ QuotaToCnt(v) \in Nat
<1>1. DefaultRoundFunc(v.quota, v.period) = NearestCores(v.quota, v.period)
  BY RoundIsNearest
<1>2. DefaultRoundFunc(v.quota, v.period) \in Nat
  BY RoundBounds
<1>. QED  BY <1>1, <1>2 DEF QuotaToCnt, SpecCpuCount, MinValue

(***************************************************************************)
(* Version detection.                                                      *)
(***************************************************************************)

\* DetectCGroupVersion answers V2 exactly on a unified hierarchy: field 6
\* of a mountinfo line is never "cgroup2", so only cgroup.controllers
\* leads to V2.
LEMMA DetectV2IffUnified ==
    DetectCGroupVersion = "V2" <=> layout = "unified"
<1>1. \A line : Field6(line) # "cgroup2"
  BY DEF Field6
<1>. QED  BY <1>1 DEF DetectCGroupVersion, HasControllersFile

(***************************************************************************)
(* The type invariant.                                                     *)
(***************************************************************************)

\* The spec's answer in any well-typed state is a core count with an
\* error flag.
LEMMA EntitlementType ==
    ASSUME HostTypeOK, cpuMax \in [Cgroups -> CpuMaxVals]
    PROVE  Entitlement \in Answers
<1>1. CASE procCg \in Cgroups /\ cpuMax[procCg].quota # Max
  <2>1. cpuMax[procCg] \in [quota : Nat \ {0}, period : Nat \ {0}]
    BY <1>1 DEF CpuMaxVals
  <2>2. SpecCpuCount(cpuMax[procCg]) \in Nat
    BY <2>1, QuotaToCntIsSpec
  <2>. QED  BY <1>1, <2>2 DEF Entitlement, Answer, Answers
<1>2. CASE ~(procCg \in Cgroups /\ cpuMax[procCg].quota # Max)
  BY <1>2 DEF Entitlement, Answer, Answers, HostTypeOK, AllCgroups
<1>. QED  BY <1>1, <1>2

\* The same in the state after a step.
LEMMA EntitlementTypePrimed ==
    ASSUME HostTypeOK', cpuMax' \in [Cgroups -> CpuMaxVals]
    PROVE  Entitlement' \in Answers
<1>1. CASE procCg' \in Cgroups /\ cpuMax'[procCg'].quota # Max
  <2>1. cpuMax'[procCg'] \in [quota : Nat \ {0}, period : Nat \ {0}]
    BY <1>1 DEF CpuMaxVals
  <2>2. SpecCpuCount(cpuMax'[procCg']) \in Nat
    BY <2>1, QuotaToCntIsSpec
  <2>. QED  BY <1>1, <2>2 DEF Entitlement, Answer, Answers
<1>2. CASE ~(procCg' \in Cgroups /\ cpuMax'[procCg'].quota # Max)
  BY <1>2 DEF Entitlement, Answer, Answers, HostTypeOK, AllCgroups
<1>. QED  BY <1>1, <1>2

\* A return with a core count leaves a well-typed answer.
LEMMA ReturnType ==
    ASSUME NEW cnt \in Nat, NEW err \in BOOLEAN, Return(cnt, err)
    PROVE  pc' = "idle" /\ result' \in Answers /\ UNCHANGED <<path, calls>>
BY DEF Return, Answer, Answers

\* The initial states are well typed.
LEMMA TypeInit == Init => TypeOK
<1> SUFFICES ASSUME Init PROVE TypeOK
  OBVIOUS
<1>1. HostTypeOK
  BY DEF Init, HostInit, HostTypeOK, AllCgroups
<1>2. result \in Answers
  BY DEF Init, Answer, Answers
<1>3. path \in AllCgroups /\ calls \in 0..MaxCalls /\ answers \in SUBSET Answers
  BY DEF Init, AllCgroups
<1>. QED  BY <1>1, <1>2, <1>3 DEF Init, TypeOK

\* Every step keeps the variables in their ranges.
LEMMA TypeStep == TypeOK /\ [Next]_vars => TypeOK'
<1> SUFFICES ASSUME TypeOK, [Next]_vars PROVE TypeOK'
  OBVIOUS
<1>0. UNCHANGED <<hostVars, cpuMax>>
      => HostTypeOK' /\ cpuMax' \in [Cgroups -> CpuMaxVals]
  BY DEF hostVars, HostTypeOK, TypeOK
<1>1. CASE GetCPUCntByPid
  <2>1. Entitlement \in Answers
    BY EntitlementType DEF TypeOK
  <2>2. pc' \in {"idle", "findPath", "cpuQuota", "v1"} /\ calls' \in 0..MaxCalls
    BY <1>1 DEF GetCPUCntByPid, TypeOK
  <2>3. UNCHANGED <<hostVars, cpuMax, path, result>> /\ moved' = FALSE
        /\ answers' = {Entitlement}
    BY <1>1 DEF GetCPUCntByPid
  <2>. QED  BY <1>0, <2>1, <2>2, <2>3 DEF TypeOK
<1>2. CASE FindCGroupV2Path
  <2>1. UNCHANGED <<hostVars, cpuMax, calls, moved, answers>>
    BY <1>2 DEF FindCGroupV2Path, Return
  <2>2. pc' \in {"idle", "findPath", "cpuQuota", "v1"}
        /\ path' \in AllCgroups /\ result' \in Answers
    <3>1. CASE Return(NumCPU, procCg = Exited)
      BY <3>1, ReturnType DEF TypeOK
    <3>2. CASE procCg # Exited /\ path' = procCg /\ pc' = "cpuQuota"
               /\ UNCHANGED result
      BY <3>2 DEF TypeOK, HostTypeOK, AllCgroups
    <3>. QED  BY <1>2, <3>1, <3>2 DEF FindCGroupV2Path
  <2>. QED  BY <1>0, <2>1, <2>2 DEF TypeOK
<1>3. CASE CPUQuota
  <2>1. UNCHANGED <<hostVars, cpuMax, path, calls, moved, answers>>
    BY <1>3 DEF CPUQuota, Return
  <2>2. CpuMaxReadable(path) /\ cpuMax[path].quota # Max
        => QuotaToCnt(cpuMax[path]) \in Nat
    <3> SUFFICES ASSUME CpuMaxReadable(path), cpuMax[path].quota # Max
                 PROVE  QuotaToCnt(cpuMax[path]) \in Nat
      OBVIOUS
    <3>1. cpuMax[path] \in [quota : Nat \ {0}, period : Nat \ {0}]
      BY DEF CpuMaxReadable, TypeOK, HostTypeOK, CpuMaxVals
    <3>. QED  BY <3>1, QuotaToCntIsSpec
  <2>3. pc' = "idle" /\ result' \in Answers
    <3>1. CASE Return(NumCPU, TRUE) \/ Return(NumCPU, FALSE)
      BY <3>1, ReturnType
    <3>2. CASE CpuMaxReadable(path) /\ cpuMax[path].quota # Max
               /\ Return(QuotaToCnt(cpuMax[path]), FALSE)
      BY <3>2, <2>2, ReturnType
    <3>. QED  BY <1>3, <3>1, <3>2 DEF CPUQuota
  <2>. QED  BY <1>0, <2>1, <2>3 DEF TypeOK
<1>4. CASE CPUQuotaV1
  <2>1. UNCHANGED <<hostVars, cpuMax, path, calls, moved, answers>>
    BY <1>4 DEF CPUQuotaV1, Return
  <2>2. procCg # Exited /\ ~Unlimited(procCg)
        => QuotaToCnt(cpuMax[procCg]) \in Nat
    <3> SUFFICES ASSUME procCg # Exited, ~Unlimited(procCg)
                 PROVE  QuotaToCnt(cpuMax[procCg]) \in Nat
      OBVIOUS
    <3>1. procCg \in Cgroups
      BY DEF Unlimited, TypeOK, HostTypeOK, AllCgroups
    <3>2. cpuMax[procCg] \in [quota : Nat \ {0}, period : Nat \ {0}]
      BY <3>1 DEF Unlimited, TypeOK, CpuMaxVals
    <3>. QED  BY <3>2, QuotaToCntIsSpec
  <2>3. pc' = "idle" /\ result' \in Answers
    <3>1. CASE Return(NumCPU, TRUE) \/ Return(NumCPU, FALSE)
      BY <3>1, ReturnType
    <3>2. CASE procCg # Exited /\ ~Unlimited(procCg)
               /\ Return(QuotaToCnt(cpuMax[procCg]), FALSE)
      BY <3>2, <2>2, ReturnType
    <3>. QED  BY <1>4, <3>1, <3>2 DEF CPUQuotaV1
  <2>. QED  BY <1>0, <2>1, <2>3 DEF TypeOK
<1>5. CASE Environment
  <2>1. HostTypeOK' /\ cpuMax' \in [Cgroups -> CpuMaxVals]
    <3>1. CASE \E c \in AllCgroups : Migrate(c) /\ UNCHANGED cpuMax
      BY <3>1 DEF Migrate, EnvStep, TypeOK, HostTypeOK, AllCgroups
    <3>2. CASE Exit /\ UNCHANGED cpuMax
      BY <3>2 DEF Exit, EnvStep, TypeOK, HostTypeOK, AllCgroups
    <3>3. CASE \E c \in Cgroups : Rmdir(c) /\ UNCHANGED cpuMax
      BY <3>3 DEF Rmdir, EnvStep, TypeOK, HostTypeOK
    <3>4. CASE \E c \in Cgroups : EnvMkdir(c)
      BY <3>4 DEF EnvMkdir, Mkdir, EnvStep, TypeOK, HostTypeOK, CpuMaxVals
    <3>5. CASE \E c \in Cgroups, v \in CpuMaxVals : SetCpuMax(c, v)
      BY <3>5 DEF SetCpuMax, EnvStep, TypeOK, HostTypeOK
    <3>. QED  BY <1>5, <3>1, <3>2, <3>3, <3>4, <3>5 DEF Environment
  <2>2. Entitlement' \in Answers
    BY <2>1, EntitlementTypePrimed
  <2>3. UNCHANGED callVars /\ moved' = TRUE
        /\ answers' \in {answers, answers \cup {Entitlement'}}
    BY <1>5 DEF Environment, Observe
  <2>. QED  BY <2>1, <2>2, <2>3 DEF TypeOK, callVars
<1>6. CASE UNCHANGED vars
  BY <1>0, <1>6 DEF vars, TypeOK
<1>. QED  BY <1>1, <1>2, <1>3, <1>4, <1>5, <1>6 DEF Next

\* The answers are core counts (never the -1 of
\* GetCPUQuotaToCPUCntByPidForCgroups2) and the path read from
\* /proc/<pid>/cgroup is a cgroup, in every reachable state.
THEOREM TypeCorrect == Spec => []TypeOK
BY TypeInit, TypeStep, PTL DEF Spec

(***************************************************************************)
(* A call during which the host did not change returns the entitlement.   *)
(***************************************************************************)

\* The target is in a live cgroup, the root, or gone: the kernel refuses
\* to remove a cgroup with members.
HostInv == procCg \in live \cup {Root, Exited}

\* The inductive strengthening of QuiescentCallMatchesEntitlement: the V2
\* steps run only on a unified host and the V1 step only on another; while
\* nothing has changed, the path FindCGroupV2Path read is the target's.
IInv ==
    /\ TypeOK
    /\ HostInv
    /\ pc \in {"findPath", "cpuQuota"} => layout = "unified"
    /\ pc = "v1" => layout # "unified"
    /\ (pc = "cpuQuota" /\ ~moved) => path = procCg /\ procCg # Exited
    /\ QuiescentCallMatchesEntitlement

\* The value of Entitlement in each of its four cases.
LEMMA EntitlementCases ==
    /\ procCg = Exited => Entitlement = Answer(NumCPU, TRUE)
    /\ procCg = Root => Entitlement = Answer(NumCPU, layout = "unified")
    /\ procCg \in Cgroups /\ cpuMax[procCg].quota = Max
          => Entitlement = Answer(NumCPU, FALSE)
    /\ procCg \in Cgroups /\ cpuMax[procCg].quota # Max
          => Entitlement = Answer(SpecCpuCount(cpuMax[procCg]), FALSE)
<1>1. procCg = Exited => Entitlement = Answer(NumCPU, TRUE)
  BY DEF Entitlement
<1>2. procCg = Root => Entitlement = Answer(NumCPU, layout = "unified")
  BY DEF Entitlement
<1>3. procCg \in Cgroups /\ cpuMax[procCg].quota = Max
          => Entitlement = Answer(NumCPU, FALSE)
  BY DEF Entitlement
<1>4. procCg \in Cgroups /\ cpuMax[procCg].quota # Max
          => Entitlement = Answer(SpecCpuCount(cpuMax[procCg]), FALSE)
  BY DEF Entitlement
<1>. QED  BY <1>1, <1>2, <1>3, <1>4

\* The caller's steps leave the host and cpu.max, hence the entitlement,
\* as they were.
LEMMA EntitlementStable ==
    UNCHANGED <<hostVars, cpuMax>> => Entitlement' = Entitlement
BY DEF hostVars, Entitlement, SpecCpuCount, NearestCores, MinValue, Answer

LEMMA IInvInit == Init => IInv
BY TypeInit DEF Init, HostInit, IInv, HostInv, QuiescentCallMatchesEntitlement

\* The inductive step, one case per action.
LEMMA IInvStep == IInv /\ [Next]_vars => IInv'
<1> SUFFICES ASSUME IInv, [Next]_vars PROVE IInv'
  OBVIOUS
<1>0. TypeOK'
  BY TypeStep DEF IInv
<1>1. CASE GetCPUCntByPid
  <2>1. pc' \in {"findPath", "v1"} /\ UNCHANGED <<hostVars, cpuMax>>
        /\ (pc' = "findPath" <=> layout = "unified")
    BY <1>1, DetectV2IffUnified DEF GetCPUCntByPid
  <2>. QED  BY <1>0, <2>1 DEF IInv, HostInv, hostVars,
                               QuiescentCallMatchesEntitlement
<1>2. CASE FindCGroupV2Path
  <2>1. UNCHANGED <<hostVars, cpuMax, moved, calls>> /\ pc = "findPath"
        /\ layout = "unified"
    BY <1>2 DEF FindCGroupV2Path, Return, IInv
  <2>2. Entitlement' = Entitlement
    BY <2>1, EntitlementStable
  <2>3. CASE ~(procCg # Exited /\ HasUnifiedLine) /\ Return(NumCPU, procCg = Exited)
    <3>1. procCg = Exited
      BY <2>1, <2>3 DEF HasUnifiedLine
    <3>. QED  BY <2>1, <2>2, <2>3, <3>1, <1>0, EntitlementCases
                 DEF Return, IInv, HostInv, hostVars, QuiescentCallMatchesEntitlement
  <2>4. CASE procCg # Exited /\ path' = procCg /\ pc' = "cpuQuota"
    BY <2>1, <2>4, <1>0 DEF IInv, HostInv, hostVars,
                            QuiescentCallMatchesEntitlement
  <2>. QED  BY <1>2, <2>3, <2>4 DEF FindCGroupV2Path
<1>3. CASE CPUQuota
  <2>1. UNCHANGED <<hostVars, cpuMax, moved, calls>> /\ pc = "cpuQuota"
        /\ layout = "unified" /\ pc' = "idle"
    BY <1>3 DEF CPUQuota, Return, IInv
  <2>2. Entitlement' = Entitlement
    BY <2>1, EntitlementStable
  <2>3. ~moved /\ calls > 0 => result' = Entitlement
    <3> SUFFICES ASSUME ~moved PROVE result' = Entitlement
      OBVIOUS
    <3>1. path = procCg /\ procCg \in live \cup {Root}
      BY <2>1 DEF IInv, HostInv
    <3>2. CASE ~CpuMaxReadable(path) /\ Return(NumCPU, TRUE)
      <4>1. procCg = Root
        BY <2>1, <3>1, <3>2 DEF CpuMaxReadable
      <4>. QED  BY <2>1, <3>2, <4>1, EntitlementCases DEF Return
    <3>3. CASE CpuMaxReadable(path) /\ cpuMax[path].quota = Max
               /\ Return(NumCPU, FALSE)
      <4>1. procCg \in Cgroups
        BY <3>1, <3>3 DEF CpuMaxReadable, IInv, TypeOK, HostTypeOK
      <4>. QED  BY <3>1, <3>3, <4>1, EntitlementCases DEF Return
    <3>4. CASE CpuMaxReadable(path) /\ cpuMax[path].quota # Max
               /\ Return(QuotaToCnt(cpuMax[path]), FALSE)
      <4>1. procCg \in Cgroups
        BY <3>1, <3>4 DEF CpuMaxReadable, IInv, TypeOK, HostTypeOK
      <4>2. cpuMax[procCg] \in CpuMaxVals /\ cpuMax[procCg].quota # Max
        BY <3>1, <3>4, <4>1 DEF IInv, TypeOK
      <4>3. cpuMax[procCg] \in [quota : Nat \ {0}, period : Nat \ {0}]
        BY <4>2 DEF CpuMaxVals
      <4>4. QuotaToCnt(cpuMax[procCg]) = SpecCpuCount(cpuMax[procCg])
        BY <4>3, QuotaToCntIsSpec
      <4>. QED  BY <3>1, <3>4, <4>1, <4>2, <4>4, EntitlementCases DEF Return
    <3>. QED  BY <1>3, <3>2, <3>3, <3>4 DEF CPUQuota
  <2>. QED  BY <1>0, <2>1, <2>2, <2>3 DEF IInv, HostInv, hostVars,
                                         QuiescentCallMatchesEntitlement
<1>4. CASE CPUQuotaV1
  <2>1. UNCHANGED <<hostVars, cpuMax, moved, calls>> /\ pc = "v1"
        /\ layout # "unified" /\ pc' = "idle"
    BY <1>4 DEF CPUQuotaV1, Return, IInv
  <2>2. Entitlement' = Entitlement
    BY <2>1, EntitlementStable
  <2>3. result' = Entitlement
    <3>1. procCg \in AllCgroups \cup {Exited}
      BY DEF IInv, TypeOK, HostTypeOK
    <3>2. CASE procCg = Exited /\ Return(NumCPU, TRUE)
      BY <3>2, EntitlementCases DEF Return
    <3>3. CASE procCg # Exited /\ Unlimited(procCg) /\ Return(NumCPU, FALSE)
      <4>1. CASE procCg = Root
        BY <2>1, <3>3, <4>1, EntitlementCases DEF Return
      <4>2. CASE procCg # Root
        BY <3>1, <3>3, <4>2, EntitlementCases DEF Return, Unlimited, AllCgroups
      <4>. QED  BY <4>1, <4>2
    <3>4. CASE procCg # Exited /\ ~Unlimited(procCg)
               /\ Return(QuotaToCnt(cpuMax[procCg]), FALSE)
      <4>1. procCg \in Cgroups /\ cpuMax[procCg].quota # Max
        BY <3>1, <3>4 DEF Unlimited, AllCgroups
      <4>2. cpuMax[procCg] \in CpuMaxVals
        BY <4>1 DEF IInv, TypeOK
      <4>3. cpuMax[procCg] \in [quota : Nat \ {0}, period : Nat \ {0}]
        BY <4>1, <4>2 DEF CpuMaxVals
      <4>4. QuotaToCnt(cpuMax[procCg]) = SpecCpuCount(cpuMax[procCg])
        BY <4>3, QuotaToCntIsSpec
      <4>. QED  BY <3>4, <4>1, <4>4, EntitlementCases DEF Return
    <3>. QED  BY <1>4, <3>2, <3>3, <3>4 DEF CPUQuotaV1
  <2>. QED  BY <1>0, <2>1, <2>2, <2>3 DEF IInv, HostInv, hostVars,
                                         QuiescentCallMatchesEntitlement
<1>5. CASE Environment
  <2>1. moved' = TRUE /\ UNCHANGED <<layout, callVars>>
    BY <1>5 DEF Environment, Observe, Migrate, Exit, Rmdir, EnvMkdir, Mkdir,
                SetCpuMax
  <2>2. HostInv'
    <3>1. CASE \E c \in AllCgroups : Migrate(c) /\ UNCHANGED cpuMax
      BY <3>1 DEF Migrate, HostInv, IInv, AllCgroups
    <3>2. CASE Exit /\ UNCHANGED cpuMax
      BY <3>2 DEF Exit, HostInv
    <3>3. CASE \E c \in Cgroups : Rmdir(c) /\ UNCHANGED cpuMax
      BY <3>3 DEF Rmdir, HostInv, IInv
    <3>4. CASE \E c \in Cgroups : EnvMkdir(c)
      BY <3>4 DEF EnvMkdir, Mkdir, HostInv, IInv
    <3>5. CASE \E c \in Cgroups, v \in CpuMaxVals : SetCpuMax(c, v)
      BY <3>5 DEF SetCpuMax, HostInv, IInv
    <3>. QED  BY <1>5, <3>1, <3>2, <3>3, <3>4, <3>5 DEF Environment
  <2>. QED  BY <1>0, <2>1, <2>2 DEF IInv, callVars, QuiescentCallMatchesEntitlement
<1>6. CASE UNCHANGED vars
  <2>1. Entitlement' = Entitlement
    BY <1>6, EntitlementStable DEF vars
  <2>. QED  BY <1>0, <1>6, <2>1 DEF vars, hostVars, IInv, HostInv,
                                    QuiescentCallMatchesEntitlement
<1>. QED  BY <1>1, <1>2, <1>3, <1>4, <1>5, <1>6 DEF Next

\* A call of GetCPUCntByPid during which nothing on the host changed
\* returns the spec's entitlement, for every host size, set of cgroups and
\* cpu.max values: quota/period rounded to the nearest core and floored at
\* 1, NumCPU when the quota is "max", NumCPU with an error when the
\* process is gone or sits in the v2 root cgroup.
THEOREM QuiescentCorrect == Spec => []QuiescentCallMatchesEntitlement
<1>1. IInv => QuiescentCallMatchesEntitlement
  BY DEF IInv
<1>. QED  BY IInvInit, IInvStep, <1>1, PTL DEF Spec

=============================================================================
