--------------------------- MODULE MemLimitProofs ---------------------------
(***************************************************************************)
(* Proofs about the memory entitlement lookup of module MemLimit, for      *)
(* every value of its constants: the type invariant, and that a call for  *)
(* a live target during which the host did not change returns the limit   *)
(* of the target's cgroup and the room left under it.                      *)
(***************************************************************************)
EXTENDS MemLimit, TLAPS

\* The assumption on the constants, one fact at a time: the solver works
\* with these better than with the subset and range conjuncts of
\* MemLimitAssumption.
LEMMA MemConstants ==
    /\ \A x \in MemLimits : x \in 1..MemCap
    /\ MemCap \in Nat /\ MaxCalls \in Nat
    /\ HostTotal \in Nat /\ HostFree \in Nat /\ HostCache \in Nat
    /\ HostFree + HostCache <= HostTotal
    /\ Max \notin Nat
BY MemLimitAssumption

USE HostAssumption, MemConstants

(***************************************************************************)
(* Version detection and results.                                          *)
(***************************************************************************)

\* DetectCGroupVersion answers V2 exactly on a unified hierarchy: field 6
\* of a mountinfo line is never "cgroup2", so only cgroup.controllers
\* leads to V2.
LEMMA DetectV2IffUnified ==
    DetectCGroupVersion = "V2" <=> layout = "unified"
<1>1. \A line : Field6(line) # "cgroup2"
  BY DEF Field6
<1>. QED  BY <1>1 DEF DetectCGroupVersion, HasControllersFile

\* The host figures and the cgroup figures are results.
LEMMA ResultsType ==
    /\ \A cc \in BOOLEAN : SystemMemory(cc) \in Results
    /\ \A lim, use, cache \in Int, cc \in BOOLEAN :
          CgroupMemory(lim, use, cache, cc) \in Results
BY DEF SystemMemory, CgroupMemory, Result, Results

\* A return leaves the caller idle with a result and its inputs as they
\* were.
LEMMA ReturnType ==
    ASSUME NEW r \in Results, Return(r)
    PROVE  /\ pc' = "idle" /\ result' \in Results
           /\ UNCHANGED <<cacheCounts, hasPid, path, limit, usage, calls>>
BY DEF Return

(***************************************************************************)
(* The type invariant.                                                     *)
(***************************************************************************)

LEMMA TypeInit == Init => TypeOK
<1> SUFFICES ASSUME Init PROVE TypeOK
  OBVIOUS
<1>1. HostTypeOK
  BY DEF Init, HostInit, HostTypeOK, AllCgroups
<1>2. result \in Results
  BY DEF Init, SystemMemory, Result, Results
<1>3. /\ memMax \in [Cgroups -> MemLimits \cup {Max}]
      /\ memCur \in [Cgroups -> 0..MemCap]
      /\ memFile \in [Cgroups -> 0..MemCap]
  BY DEF Init
<1>4. pc \in {"idle", "findPath", "memoryLimit", "memoryCurrent",
             "memoryStat", "v1"}
  BY DEF Init
<1>5. cacheCounts \in BOOLEAN /\ hasPid \in BOOLEAN /\ moved \in BOOLEAN
  BY DEF Init
<1>6. /\ path \in AllCgroups /\ limit \in 0..MemCap /\ usage \in 0..MemCap
      /\ calls \in 0..MaxCalls
  BY DEF Init, AllCgroups
<1>. QED  BY <1>1, <1>2, <1>3, <1>4, <1>5, <1>6 DEF TypeOK

\* The environment keeps the host, the memory files and the caller's
\* variables in their ranges.
LEMMA EnvironmentType ==
    ASSUME TypeOK, Environment
    PROVE  TypeOK'
<1>1. /\ HostTypeOK'
      /\ memMax' \in [Cgroups -> MemLimits \cup {Max}]
      /\ memCur' \in [Cgroups -> 0..MemCap]
      /\ memFile' \in [Cgroups -> 0..MemCap]
  <2>1. CASE \E c \in AllCgroups : Migrate(c) /\ UNCHANGED memVars
    BY <2>1 DEF Migrate, EnvStep, TypeOK, HostTypeOK, AllCgroups, memVars
  <2>2. CASE Exit /\ UNCHANGED memVars
    BY <2>2 DEF Exit, EnvStep, TypeOK, HostTypeOK, AllCgroups, memVars
  <2>3. CASE \E c \in Cgroups : Rmdir(c) /\ UNCHANGED memVars
    BY <2>3 DEF Rmdir, EnvStep, TypeOK, HostTypeOK, memVars
  <2>4. CASE \E c \in Cgroups : EnvMkdir(c)
    BY <2>4 DEF EnvMkdir, Mkdir, EnvStep, TypeOK, HostTypeOK
  <2>5. CASE \E c \in Cgroups, mx \in MemLimits \cup {Max} : SetMemMax(c, mx)
    BY <2>5 DEF SetMemMax, EnvStep, TypeOK, HostTypeOK
  <2>6. CASE \E c \in Cgroups, cur, file \in 0..MemCap : Charge(c, cur, file)
    BY <2>6 DEF Charge, EnvStep, TypeOK, HostTypeOK
  <2>. QED  BY <2>1, <2>2, <2>3, <2>4, <2>5, <2>6 DEF Environment
<1>2. UNCHANGED callVars /\ moved' = TRUE
  BY DEF Environment
<1>. QED  BY <1>1, <1>2 DEF TypeOK, callVars

\* Every step keeps the variables in their ranges.
LEMMA TypeStep == TypeOK /\ [Next]_vars => TypeOK'
<1> SUFFICES ASSUME TypeOK, [Next]_vars PROVE TypeOK'
  OBVIOUS
<1>0. UNCHANGED <<hostVars, memVars>>
      => /\ HostTypeOK'
         /\ memMax' \in [Cgroups -> MemLimits \cup {Max}]
         /\ memCur' \in [Cgroups -> 0..MemCap]
         /\ memFile' \in [Cgroups -> 0..MemCap]
  BY DEF hostVars, memVars, HostTypeOK, TypeOK
<1>r. \A cc \in BOOLEAN : SystemMemory(cc) \in Results
  BY ResultsType
<1>1. CASE GetAvailableAndTotal
  <2>1. PICK cc \in BOOLEAN, withPid \in BOOLEAN :
          /\ cacheCounts' = cc
          /\ hasPid' = withPid
          /\ IF withPid
               THEN /\ pc' = IF DetectCGroupVersion = "V2" THEN "findPath" ELSE "v1"
                    /\ UNCHANGED result
               ELSE /\ pc' = "idle"
                    /\ result' = SystemMemory(cc)
    BY <1>1 DEF GetAvailableAndTotal
  <2>2. pc' \in {"idle", "findPath", "v1"} /\ result' \in Results
    BY <2>1, <1>r DEF TypeOK
  <2>3. calls' \in 0..MaxCalls /\ moved' = FALSE
        /\ UNCHANGED <<hostVars, memVars, path, limit, usage>>
    BY <1>1 DEF GetAvailableAndTotal, TypeOK
  <2>. QED  BY <1>0, <2>1, <2>2, <2>3 DEF TypeOK
<1>2. CASE FindCGroupV2Path
  <2>1. UNCHANGED <<hostVars, memVars, moved, calls, limit, usage>>
    BY <1>2 DEF FindCGroupV2Path, Return
  <2>2. pc' \in {"idle", "memoryLimit"} /\ path' \in AllCgroups
        /\ result' \in Results /\ cacheCounts' \in BOOLEAN /\ hasPid' \in BOOLEAN
    <3>1. CASE Return(SystemMemory(cacheCounts))
      BY <3>1, <1>r, ReturnType DEF TypeOK
    <3>2. CASE procCg # Exited /\ path' = procCg /\ pc' = "memoryLimit"
               /\ UNCHANGED <<cacheCounts, hasPid, result>>
      BY <3>2 DEF TypeOK, HostTypeOK, AllCgroups
    <3>. QED  BY <1>2, <3>1, <3>2 DEF FindCGroupV2Path
  <2>. QED  BY <1>0, <2>1, <2>2 DEF TypeOK
<1>3. CASE MemoryLimit
  <2>1. UNCHANGED <<hostVars, memVars, moved, calls, path, usage,
                    cacheCounts, hasPid>>
    BY <1>3 DEF MemoryLimit, Return
  <2>2. pc' \in {"idle", "memoryCurrent"} /\ limit' \in 0..MemCap
        /\ result' \in Results
    <3>1. CASE Return(SystemMemory(cacheCounts))
      BY <3>1, <1>r, ReturnType DEF TypeOK
    <3>2. CASE MemFilesReadable(path) /\ memMax[path] \notin {Max, 0}
               /\ limit' = memMax[path] /\ pc' = "memoryCurrent"
               /\ UNCHANGED result
      <4>1. path \in Cgroups
        BY <3>2 DEF MemFilesReadable, TypeOK, HostTypeOK
      <4>2. memMax[path] \in MemLimits
        BY <3>2, <4>1 DEF TypeOK
      <4>3. memMax[path] \in 0..MemCap
        BY <4>2
      <4>4. limit' \in 0..MemCap
        BY <3>2, <4>3, Zenon
      <4>. QED  BY <3>2, <4>4 DEF TypeOK
    <3>. QED  BY <1>3, <3>1, <3>2 DEF MemoryLimit
  <2>. QED  BY <1>0, <2>1, <2>2 DEF TypeOK
<1>4. CASE MemoryCurrent
  <2>1. UNCHANGED <<hostVars, memVars, moved, calls, path, limit,
                    cacheCounts, hasPid>>
    BY <1>4 DEF MemoryCurrent, Return
  <2>2. pc' \in {"idle", "memoryStat"} /\ usage' \in 0..MemCap
        /\ result' \in Results
    <3>1. CASE Return(SystemMemory(cacheCounts))
      BY <3>1, <1>r, ReturnType DEF TypeOK
    <3>2. CASE MemFilesReadable(path)
               /\ Return(CgroupMemory(limit, memCur[path], 0, FALSE))
      <4>1. path \in Cgroups
        BY <3>2 DEF MemFilesReadable, TypeOK, HostTypeOK
      <4>2. CgroupMemory(limit, memCur[path], 0, FALSE) \in Results
        BY <4>1 DEF TypeOK, CgroupMemory, Result, Results
      <4>. QED  BY <3>2, <4>2, ReturnType DEF TypeOK
    <3>3. CASE MemFilesReadable(path) /\ usage' = memCur[path]
               /\ pc' = "memoryStat" /\ UNCHANGED result
      <4>1. path \in Cgroups
        BY <3>3 DEF MemFilesReadable, TypeOK, HostTypeOK
      <4>. QED  BY <3>3, <4>1 DEF TypeOK
    <3>. QED  BY <1>4, <3>1, <3>2, <3>3 DEF MemoryCurrent
  <2>. QED  BY <1>0, <2>1, <2>2 DEF TypeOK
<1>5. CASE MemoryStat
  <2>1. (IF MemFilesReadable(path) THEN memFile[path] ELSE 0) \in Int
    BY DEF MemFilesReadable, TypeOK, HostTypeOK
  <2>2. CgroupMemory(limit, usage,
                     IF MemFilesReadable(path) THEN memFile[path] ELSE 0,
                     TRUE) \in Results
    BY <2>1 DEF TypeOK, CgroupMemory, Result, Results
  <2>3. pc' = "idle" /\ result' \in Results
        /\ UNCHANGED <<cacheCounts, hasPid, path, limit, usage, calls>>
    BY <1>5, <2>2, ReturnType DEF MemoryStat
  <2>. QED  BY <1>0, <1>5, <2>3 DEF MemoryStat, TypeOK
<1>6. CASE GetAvailableAndTotalV1
  <2>1. UNCHANGED <<hostVars, memVars, moved>>
    BY <1>6 DEF GetAvailableAndTotalV1
  <2>2. pc' = "idle" /\ result' \in Results
        /\ UNCHANGED <<cacheCounts, hasPid, path, limit, usage, calls>>
    <3>1. CASE Return(Result(0, 0, TRUE))
      <4>1. Result(0, 0, TRUE) \in Results
        BY DEF Result, Results
      <4>. QED  BY <3>1, <4>1, ReturnType
    <3>2. CASE Return(SystemMemory(cacheCounts))
      BY <3>2, <1>r, ReturnType DEF TypeOK
    <3>3. CASE procCg # Exited /\ ~Unlimited(procCg)
               /\ Return(CgroupMemory(memMax[procCg], memCur[procCg],
                                      memFile[procCg], cacheCounts))
      <4>1. procCg \in Cgroups
        BY <3>3 DEF Unlimited, TypeOK, HostTypeOK, AllCgroups
      <4>2. memMax[procCg] \in MemLimits
        BY <3>3, <4>1 DEF Unlimited, TypeOK
      <4>3. /\ memMax[procCg] \in Int /\ memCur[procCg] \in Int
            /\ memFile[procCg] \in Int /\ cacheCounts \in BOOLEAN
        BY <4>1, <4>2 DEF TypeOK
      <4>4. CgroupMemory(memMax[procCg], memCur[procCg], memFile[procCg],
                         cacheCounts) \in Results
        BY <4>3, ResultsType
      <4>. QED  BY <3>3, <4>4, ReturnType
    <3>. QED  BY <1>6, <3>1, <3>2, <3>3 DEF GetAvailableAndTotalV1
  <2>. QED  BY <1>0, <2>1, <2>2 DEF TypeOK
<1>7. CASE Environment
  BY <1>7, EnvironmentType
<1>8. CASE UNCHANGED vars
  BY <1>0, <1>8 DEF vars, memVars, TypeOK
<1>. QED  BY <1>1, <1>2, <1>3, <1>4, <1>5, <1>6, <1>7, <1>8 DEF Next

\* The figures returned are integers with an error flag, the limit read
\* from memory.max is one of the limits the kernel accepts (never "max"),
\* and the path read from /proc/<pid>/cgroup is a cgroup, in every
\* reachable state.
THEOREM TypeCorrect == Spec => []TypeOK
BY TypeInit, TypeStep, PTL DEF Spec

(***************************************************************************)
(* A call during which the host did not change returns the entitlement.   *)
(***************************************************************************)

\* The target is in a live cgroup, the root, or gone: the kernel refuses
\* to remove a cgroup with members.
HostInv == procCg \in live \cup {Root, Exited}

\* The steps of getAvailableAndTotalV2.
V2Pcs == {"findPath", "memoryLimit", "memoryCurrent", "memoryStat"}

\* The inductive strengthening of QuiescentMemMatchesEntitlement: the V2
\* steps run only on a unified host and the V1 step only on another; while
\* nothing has changed, the path FindCGroupV2Path read is the target's, the
\* limit MemoryLimit read is the target's memory.max, and the usage read
\* from memory.current is the target's charge.
IInv ==
    /\ TypeOK
    /\ HostInv
    /\ pc \in V2Pcs => layout = "unified"
    /\ pc = "v1" => layout # "unified"
    /\ (pc \in V2Pcs \ {"findPath"} /\ ~moved)
          => path = procCg /\ procCg # Exited
    /\ (pc \in {"memoryCurrent", "memoryStat"} /\ ~moved)
          => procCg \in live /\ limit = memMax[procCg]
    /\ (pc = "memoryStat" /\ ~moved) => cacheCounts /\ usage = memCur[procCg]
    /\ QuiescentMemMatchesEntitlement

\* The caller's steps leave the host and the memory files, hence the
\* entitlement under either cache policy, as they were.
LEMMA EntitlementStable ==
    ASSUME UNCHANGED <<hostVars, memVars, cacheCounts>>
    PROVE  MemEntitlement(cacheCounts)' = MemEntitlement(cacheCounts)
BY DEF hostVars, memVars, MemEntitlement, Unlimited, SystemMemory, Result

\* A return keeps IInv when, had nothing changed, it returns the
\* entitlement of a target that has not exited.
LEMMA IdleStep ==
    ASSUME IInv, TypeOK', pc' = "idle",
           UNCHANGED <<hostVars, memVars, cacheCounts, moved>>,
           (~moved /\ procCg # Exited) => result' = MemEntitlement(cacheCounts)
    PROVE  IInv'
<1>1. MemEntitlement(cacheCounts)' = MemEntitlement(cacheCounts)
  BY EntitlementStable
<1>2. HostInv'
  BY DEF IInv, HostInv, hostVars
<1>3. QuiescentMemMatchesEntitlement'
  BY <1>1 DEF QuiescentMemMatchesEntitlement, hostVars
<1>. QED  BY <1>2, <1>3 DEF IInv, V2Pcs

\* On a unified host, with nothing changed since the path was read, the
\* target's memory files are readable exactly when it is in a live cgroup,
\* and otherwise it is in the root, whose limit is undefined.
LEMMA PathFacts ==
    ASSUME IInv, layout = "unified", ~moved,
           pc \in V2Pcs \ {"findPath"}
    PROVE  /\ path = procCg /\ procCg \in live \cup {Root}
           /\ MemFilesReadable(path) <=> procCg \in live
           /\ ~MemFilesReadable(path) => Unlimited(procCg)
<1>1. path = procCg /\ procCg \in live \cup {Root}
  BY DEF IInv, HostInv
<1>2. MemFilesReadable(path) <=> procCg \in live
  BY <1>1 DEF MemFilesReadable
<1>3. Root \notin live
  BY DEF IInv, TypeOK, HostTypeOK
<1>. QED  BY <1>1, <1>2, <1>3 DEF Unlimited

LEMMA IInvInit == Init => IInv
<1> SUFFICES ASSUME Init PROVE IInv
  OBVIOUS
<1>1. TypeOK
  BY TypeInit
<1>2. HostInv /\ pc = "idle" /\ hasPid = FALSE
  BY DEF Init, HostInit, HostInv
<1>. QED  BY <1>1, <1>2 DEF IInv, V2Pcs, QuiescentMemMatchesEntitlement

\* The inductive step, one case per action.
LEMMA IInvStep == IInv /\ [Next]_vars => IInv'
<1> SUFFICES ASSUME IInv, [Next]_vars PROVE IInv'
  OBVIOUS
<1>0. TypeOK'
  BY TypeStep DEF IInv
<1>1. CASE GetAvailableAndTotal
  <2>1. PICK cc \in BOOLEAN, withPid \in BOOLEAN :
          /\ cacheCounts' = cc
          /\ hasPid' = withPid
          /\ IF withPid
               THEN /\ pc' = IF DetectCGroupVersion = "V2" THEN "findPath" ELSE "v1"
                    /\ UNCHANGED result
               ELSE /\ pc' = "idle"
                    /\ result' = SystemMemory(cc)
    BY <1>1 DEF GetAvailableAndTotal
  <2>2. UNCHANGED hostVars
    BY <1>1 DEF GetAvailableAndTotal
  <2>3. pc' \in {"idle", "findPath", "v1"} /\ (pc' = "idle" => ~hasPid')
        /\ (pc' = "findPath" <=> pc' # "idle" /\ layout = "unified")
    BY <2>1, DetectV2IffUnified
  <2>. QED  BY <1>0, <2>2, <2>3 DEF IInv, HostInv, hostVars, V2Pcs,
                                   QuiescentMemMatchesEntitlement
<1>2. CASE FindCGroupV2Path
  <2>1. UNCHANGED <<hostVars, memVars, moved>> /\ pc = "findPath"
        /\ layout = "unified"
    BY <1>2 DEF FindCGroupV2Path, IInv, V2Pcs
  <2>2. CASE ~(procCg # Exited /\ HasUnifiedLine)
             /\ Return(SystemMemory(cacheCounts))
    <3>1. procCg = Exited
      BY <2>1, <2>2 DEF HasUnifiedLine
    <3>. QED  BY <1>0, <2>1, <2>2, <3>1, IdleStep DEF Return
  <2>3. CASE procCg # Exited /\ HasUnifiedLine /\ path' = procCg
             /\ pc' = "memoryLimit"
    BY <1>0, <2>1, <2>3 DEF IInv, HostInv, hostVars, V2Pcs,
                            QuiescentMemMatchesEntitlement
  <2>. QED  BY <1>2, <2>2, <2>3 DEF FindCGroupV2Path
<1>3. CASE MemoryLimit
  <2>1. UNCHANGED <<hostVars, memVars, moved>> /\ pc = "memoryLimit"
        /\ layout = "unified"
    BY <1>3 DEF MemoryLimit, IInv, V2Pcs
  <2>2. CASE ~(MemFilesReadable(path) /\ memMax[path] \notin {Max, 0})
    <3>0. Return(SystemMemory(cacheCounts))
      BY <1>3, <2>2 DEF MemoryLimit
    <3>1. (~moved /\ procCg # Exited)
            => result' = MemEntitlement(cacheCounts)
      <4> SUFFICES ASSUME ~moved PROVE result' = MemEntitlement(cacheCounts)
        OBVIOUS
      <4>1. path = procCg /\ procCg \in live \cup {Root}
            /\ (MemFilesReadable(path) <=> procCg \in live)
            /\ (~MemFilesReadable(path) => Unlimited(procCg))
        BY <2>1, PathFacts DEF V2Pcs
      <4>2. Unlimited(procCg)
        <5>1. CASE ~MemFilesReadable(path)
          BY <4>1, <5>1
        <5>2. CASE MemFilesReadable(path)
          <6>1. procCg \in Cgroups /\ memMax[procCg] \in {Max, 0}
            BY <2>2, <4>1, <5>2 DEF IInv, TypeOK, HostTypeOK
          <6>2. memMax[procCg] \in MemLimits \cup {Max}
            BY <6>1 DEF IInv, TypeOK
          <6>3. 0 \notin MemLimits
            OBVIOUS
          <6>. QED  BY <6>1, <6>2, <6>3 DEF Unlimited
        <5>. QED  BY <5>1, <5>2
      <4>. QED  BY <3>0, <4>2 DEF Return, MemEntitlement
    <3>. QED  BY <1>0, <2>1, <3>0, <3>1, IdleStep DEF Return
  <2>3. CASE MemFilesReadable(path) /\ memMax[path] \notin {Max, 0}
    <3>0. limit' = memMax[path] /\ pc' = "memoryCurrent"
          /\ UNCHANGED <<cacheCounts, hasPid, path, usage, result, calls>>
      BY <1>3, <2>3 DEF MemoryLimit, Return
    <3>1. ~moved => procCg \in live /\ limit' = memMax[procCg]
      BY <2>1, <2>3, <3>0, PathFacts DEF V2Pcs
    <3>2. ~moved => path = procCg /\ procCg # Exited
      BY <2>1 DEF IInv, V2Pcs
    <3>3. UNCHANGED <<layout, procCg, live, memMax, memCur>>
      BY <2>1 DEF hostVars, memVars
    <3>4. HostInv'
      BY <3>3 DEF IInv, HostInv
    <3>5. /\ (pc' \in V2Pcs \ {"findPath"} /\ ~moved')
                => path' = procCg' /\ procCg' # Exited
          /\ (pc' \in {"memoryCurrent", "memoryStat"} /\ ~moved')
                => procCg' \in live' /\ limit' = memMax'[procCg']
      BY <2>1, <3>0, <3>1, <3>2, <3>3
    <3>. QED  BY <1>0, <2>1, <3>0, <3>3, <3>4, <3>5
              DEF IInv, V2Pcs, QuiescentMemMatchesEntitlement
  <2>. QED  BY <2>2, <2>3
<1>4. CASE MemoryCurrent
  <2>1. UNCHANGED <<hostVars, memVars, moved>> /\ pc = "memoryCurrent"
        /\ layout = "unified"
    BY <1>4 DEF MemoryCurrent, IInv, V2Pcs
  <2>0. ~moved => /\ path = procCg /\ procCg \in live
                  /\ MemFilesReadable(path) /\ limit = memMax[procCg]
    BY <2>1, PathFacts DEF IInv, V2Pcs
  <2>2. CASE ~MemFilesReadable(path) /\ Return(SystemMemory(cacheCounts))
    BY <1>0, <2>0, <2>1, <2>2, IdleStep DEF Return
  <2>3. CASE MemFilesReadable(path) /\ ~cacheCounts
             /\ Return(CgroupMemory(limit, memCur[path], 0, FALSE))
    <3>1. (~moved /\ procCg # Exited)
            => result' = MemEntitlement(cacheCounts)
      <4> SUFFICES ASSUME ~moved PROVE result' = MemEntitlement(cacheCounts)
        OBVIOUS
      <4>1. procCg \in Cgroups /\ procCg # Root
        BY <2>0 DEF IInv, TypeOK, HostTypeOK
      <4>2. memMax[procCg] \in 0..MemCap
        BY <2>0 DEF IInv, TypeOK
      <4>3. ~Unlimited(procCg)
        BY <4>1, <4>2 DEF Unlimited
      <4>. QED  BY <2>0, <2>3, <4>3 DEF Return, MemEntitlement, CgroupMemory,
                                         Result
    <3>. QED  BY <1>0, <2>1, <2>3, <3>1, IdleStep DEF Return
  <2>4. CASE MemFilesReadable(path) /\ cacheCounts /\ usage' = memCur[path]
             /\ pc' = "memoryStat"
             /\ UNCHANGED <<cacheCounts, hasPid, path, limit, result, calls>>
    BY <1>0, <2>0, <2>1, <2>4 DEF IInv, HostInv, hostVars, memVars, V2Pcs,
                                  QuiescentMemMatchesEntitlement
  <2>. QED  BY <1>4, <2>2, <2>3, <2>4 DEF MemoryCurrent
<1>5. CASE MemoryStat
  <2>1. UNCHANGED <<hostVars, memVars, moved>> /\ pc = "memoryStat"
        /\ layout = "unified"
    BY <1>5 DEF MemoryStat, IInv, V2Pcs
  <2>2. Return(CgroupMemory(limit, usage,
                            IF MemFilesReadable(path) THEN memFile[path] ELSE 0,
                            TRUE))
    BY <1>5 DEF MemoryStat
  <2>3. (~moved /\ procCg # Exited) => result' = MemEntitlement(cacheCounts)
    <3> SUFFICES ASSUME ~moved PROVE result' = MemEntitlement(cacheCounts)
      OBVIOUS
    <3>1. /\ path = procCg /\ procCg \in live /\ MemFilesReadable(path)
          /\ limit = memMax[procCg] /\ cacheCounts /\ usage = memCur[procCg]
      BY <2>1, PathFacts DEF IInv, V2Pcs
    <3>2. procCg \in Cgroups /\ procCg # Root /\ memMax[procCg] \in 0..MemCap
      BY <3>1 DEF IInv, TypeOK, HostTypeOK
    <3>3. ~Unlimited(procCg)
      BY <3>2 DEF Unlimited
    <3>. QED  BY <2>2, <3>1, <3>3 DEF Return, MemEntitlement, CgroupMemory,
                                      Result
  <2>. QED  BY <1>0, <2>1, <2>2, <2>3, IdleStep DEF Return
<1>6. CASE GetAvailableAndTotalV1
  <2>1. UNCHANGED <<hostVars, memVars, moved>>
    BY <1>6 DEF GetAvailableAndTotalV1
  <2>2. CASE procCg = Exited /\ Return(Result(0, 0, TRUE))
    BY <1>0, <2>1, <2>2, IdleStep DEF Return
  <2>3. CASE procCg # Exited /\ Unlimited(procCg)
             /\ Return(SystemMemory(cacheCounts))
    BY <1>0, <2>1, <2>3, IdleStep DEF Return, MemEntitlement
  <2>4. CASE procCg # Exited /\ ~Unlimited(procCg)
             /\ Return(CgroupMemory(memMax[procCg], memCur[procCg],
                                    memFile[procCg], cacheCounts))
    <3>1. result' = MemEntitlement(cacheCounts)
      BY <2>4 DEF Return, MemEntitlement, CgroupMemory, Result
    <3>. QED  BY <1>0, <2>1, <2>4, <3>1, IdleStep DEF Return
  <2>. QED  BY <1>6, <2>2, <2>3, <2>4 DEF GetAvailableAndTotalV1
<1>7. CASE Environment
  <2>1. moved' = TRUE /\ UNCHANGED <<layout, callVars>>
    BY <1>7 DEF Environment, Migrate, Exit, Rmdir, EnvMkdir, Mkdir,
                SetMemMax, Charge
  <2>2. HostInv'
    <3>1. CASE \E c \in AllCgroups : Migrate(c) /\ UNCHANGED memVars
      BY <3>1 DEF Migrate, HostInv, IInv, AllCgroups
    <3>2. CASE Exit /\ UNCHANGED memVars
      BY <3>2 DEF Exit, HostInv
    <3>3. CASE \E c \in Cgroups : Rmdir(c) /\ UNCHANGED memVars
      BY <3>3 DEF Rmdir, HostInv, IInv
    <3>4. CASE \E c \in Cgroups : EnvMkdir(c)
      BY <3>4 DEF EnvMkdir, Mkdir, HostInv, IInv
    <3>5. CASE \E c \in Cgroups, mx \in MemLimits \cup {Max} : SetMemMax(c, mx)
      BY <3>5 DEF SetMemMax, HostInv, IInv
    <3>6. CASE \E c \in Cgroups, cur, file \in 0..MemCap : Charge(c, cur, file)
      BY <3>6 DEF Charge, HostInv, IInv
    <3>. QED  BY <1>7, <3>1, <3>2, <3>3, <3>4, <3>5, <3>6 DEF Environment
  <2>. QED  BY <1>0, <2>1, <2>2 DEF IInv, callVars, V2Pcs,
                                   QuiescentMemMatchesEntitlement
<1>8. CASE UNCHANGED vars
  <2>1. MemEntitlement(cacheCounts)' = MemEntitlement(cacheCounts)
    BY <1>8, EntitlementStable DEF vars, memVars
  <2>. QED  BY <1>0, <1>8, <2>1 DEF vars, hostVars, IInv, HostInv, V2Pcs,
                                    QuiescentMemMatchesEntitlement
<1>. QED  BY <1>1, <1>2, <1>3, <1>4, <1>5, <1>6, <1>7, <1>8 DEF Next

\* A call of getAvailableAndTotal for a live target during which nothing
\* on the host changed returns the limit of the target's cgroup and the
\* room left under it (plus its page cache when cache counts), or the host
\* figures when the limit is undefined, for every set of cgroups, limits,
\* charges and host figures: the V2 path, "max" and read-error fallbacks
\* and the V1 tier all agree with the spec's entitlement.
THEOREM QuiescentCorrect == Spec => []QuiescentMemMatchesEntitlement
<1>1. IInv => QuiescentMemMatchesEntitlement
  BY DEF IInv
<1>. QED  BY IInvInit, IInvStep, <1>1, PTL DEF Spec

=============================================================================
