----------------------------- MODULE MemLimit -----------------------------
(***************************************************************************)
(* The memory entitlement lookup getAvailableAndTotal (exec/mem): with no  *)
(* target pid the host figures; otherwise DetectCGroupVersion, then        *)
(* getAvailableAndTotalV2 (four reads at four instants: /proc/<pid>/cgroup,*)
(* memory.max, memory.current, memory.stat, any failure falling back to    *)
(* the host) or getAvailableAndTotalV1 (one containerd Stat, whose limit   *)
(* at or above PageCounterMax means unlimited; a Load or Stat error is     *)
(* returned to the caller).                                                *)
(*                                                                         *)
(* cacheCounts is the code's condition burnMemMode = "ram" /\             *)
(* ~includeBufferCache (the spec's includeReclaimableCache): reclaimable   *)
(* page cache counts as available memory.                                  *)
(***************************************************************************)
EXTENDS CGroupHost, Integers

CONSTANTS
    MemLimits,   \* memory.max values (v1 limits below PageCounterMax)
    MemCap,      \* the largest charge a cgroup reaches in the model
    HostTotal,   \* VirtualMemory().Total
    HostFree,    \* VirtualMemory().Free
    HostCache,   \* VirtualMemory().Buffers + Cached
    MaxCalls,    \* bound on the number of calls
    Max          \* the content "max" of memory.max (>= PageCounterMax on V1)

ASSUME MemLimitAssumption ==
    /\ MemLimits \subseteq 1..MemCap
    /\ MemCap \in Nat
    /\ {HostTotal, HostFree, HostCache} \subseteq Nat
    /\ HostFree + HostCache <= HostTotal
    /\ MaxCalls \in Nat
    /\ Max \notin Nat

VARIABLES
    memMax,      \* memMax[c]: c/memory.max (v1: limit_in_bytes)
    memCur,      \* memCur[c]: c/memory.current (v1: usage_in_bytes)
    memFile,     \* memFile[c]: the "file" line of c/memory.stat (v1: cache)
    pc,          \* where the caller is
    cacheCounts, \* the caller's burnMemMode = "ram" /\ ~includeBufferCache
    hasPid,      \* the caller's context names a target pid
    path,        \* the cgroup path FindCGroupV2Path returned
    limit,       \* the limit read from memory.max
    usage,       \* the usage read from memory.current
    result,      \* [total, available, err] returned by the last call
    calls,       \* number of calls started
    moved        \* ghost: the environment stepped since the call started

vars == <<hostVars, memMax, memCur, memFile, pc, cacheCounts, hasPid, path,
          limit, usage, result, calls, moved>>
memVars == <<memMax, memCur, memFile>>
callVars == <<pc, cacheCounts, hasPid, path, limit, usage, result, calls>>

Result(total, available, err) ==
    [total |-> total, available |-> available, err |-> err]
Results == [total : Int, available : Int, err : BOOLEAN]

\* getSystemMemory: Total, and Free plus Buffers + Cached when cache counts.
SystemMemory(cc) ==
    Result(HostTotal, HostFree + (IF cc THEN HostCache ELSE 0), FALSE)

\* A mutant of CgroupMemory: the page cache subtracted instead of added.
CgroupMemorySubCache(lim, use, cache, cc) ==
    Result(lim, lim - use - (IF cc THEN cache ELSE 0), FALSE)

\* total = limit, available = total - usage (+ cache when cache counts).
CgroupMemory(lim, use, cache, cc) ==
    Result(lim, lim - use + (IF cc THEN cache ELSE 0), FALSE)

\* The memory files of c can be read: the root cgroup has no memory.max
\* nor memory.current on V2 (and an unlimited limit on V1).
MemFilesReadable(c) == layout = "unified" /\ c \in live

\* The limit of c is unlimited ("max", or the root cgroup).
Unlimited(c) == IF c = Root THEN TRUE ELSE memMax[c] = Max

(***************************************************************************)
(* What a call with the given cache policy should return in a given state *)
(* (spec section 4.3), for a target that has not exited: the limit of the *)
(* hierarchy carrying the memory controller and the room left under it,    *)
(* or the host figures when that limit is undefined.                       *)
(***************************************************************************)
MemEntitlement(cc) ==
    IF Unlimited(procCg) THEN SystemMemory(cc)
    ELSE [total     |-> memMax[procCg],
          available |-> memMax[procCg] - memCur[procCg]
                          + (IF cc THEN memFile[procCg] ELSE 0),
          err       |-> FALSE]

TypeOK ==
    /\ HostTypeOK
    /\ memMax \in [Cgroups -> MemLimits \cup {Max}]
    /\ memCur \in [Cgroups -> 0..MemCap]
    /\ memFile \in [Cgroups -> 0..MemCap]
    /\ pc \in {"idle", "findPath", "memoryLimit", "memoryCurrent",
               "memoryStat", "v1"}
    /\ cacheCounts \in BOOLEAN
    /\ hasPid \in BOOLEAN
    /\ path \in AllCgroups
    /\ limit \in 0..MemCap
    /\ usage \in 0..MemCap
    /\ result \in Results
    /\ calls \in 0..MaxCalls
    /\ moved \in BOOLEAN

\* The kernel's accounting: cache pages are charged to the cgroup, and the
\* charge stays under a numeric limit.
Accounted(c, mx, cur, file) ==
    /\ file <= cur
    /\ mx # Max => cur <= mx

Init ==
    /\ HostInit
    /\ memMax \in [Cgroups -> MemLimits \cup {Max}]
    /\ memCur \in [Cgroups -> 0..MemCap]
    /\ memFile \in [Cgroups -> 0..MemCap]
    /\ \A c \in Cgroups : Accounted(c, memMax[c], memCur[c], memFile[c])
    /\ pc = "idle"
    /\ cacheCounts = FALSE
    /\ hasPid = FALSE
    /\ path = Root
    /\ limit = 0
    /\ usage = 0
    /\ result = SystemMemory(FALSE)
    /\ calls = 0
    /\ moved = FALSE

(***************************************************************************)
(* The caller.                                                             *)
(***************************************************************************)
Return(r) ==
    /\ result' = r
    /\ pc' = "idle"
    /\ UNCHANGED <<cacheCounts, hasPid, path, limit, usage, calls>>

\* getAvailableAndTotal: without a target pid the host figures; with one,
\* DetectCGroupVersion picks getAvailableAndTotalV2 or (V1 or unknown)
\* getAvailableAndTotalV1.
GetAvailableAndTotal ==
    /\ pc = "idle"
    /\ calls < MaxCalls
    /\ calls' = calls + 1
    /\ moved' = FALSE
    /\ \E cc \in BOOLEAN, withPid \in BOOLEAN :
          /\ cacheCounts' = cc
          /\ hasPid' = withPid
          /\ IF withPid
               THEN /\ pc' = IF DetectCGroupVersion = "V2" THEN "findPath" ELSE "v1"
                    /\ UNCHANGED result
               ELSE /\ pc' = "idle"
                    /\ result' = SystemMemory(cc)
    /\ UNCHANGED <<hostVars, memVars, path, limit, usage>>

\* FindCGroupV2Path: a read error or no "0::" line falls back to the host.
FindCGroupV2Path ==
    /\ pc = "findPath"
    /\ \/ /\ ~(procCg # Exited /\ HasUnifiedLine)
          /\ Return(SystemMemory(cacheCounts))
       \/ /\ procCg # Exited /\ HasUnifiedLine
          /\ path' = procCg
          /\ pc' = "memoryLimit"
          /\ UNCHANGED <<cacheCounts, hasPid, limit, usage, result, calls>>
    /\ UNCHANGED <<hostVars, memVars, moved>>

\* A mutant of MemoryLimit: "max" (defined = false) is not checked and the
\* limit is used as a number.
MemoryLimitNoMaxCheck ==
    /\ pc = "memoryLimit"
    /\ \/ /\ ~MemFilesReadable(path)
          /\ Return(SystemMemory(cacheCounts))
       \/ /\ MemFilesReadable(path)
          /\ limit' = memMax[path]
          /\ pc' = "memoryCurrent"
          /\ UNCHANGED <<cacheCounts, hasPid, path, usage, result, calls>>
    /\ UNCHANGED <<hostVars, memVars, moved>>

\* CGroupV2Impl.MemoryLimit: a read error, "max" or 0 falls back to the host.
MemoryLimit ==
    /\ pc = "memoryLimit"
    /\ \/ /\ \/ ~MemFilesReadable(path)
             \/ MemFilesReadable(path) /\ memMax[path] \in {Max, 0}
          /\ Return(SystemMemory(cacheCounts))
       \/ /\ MemFilesReadable(path)
          /\ memMax[path] \notin {Max, 0}
          /\ limit' = memMax[path]
          /\ pc' = "memoryCurrent"
          /\ UNCHANGED <<cacheCounts, hasPid, path, usage, result, calls>>
    /\ UNCHANGED <<hostVars, memVars, moved>>

\* getCGroupV2MemoryUsage reads memory.current; a read error falls back to
\* the host. Without the cache policy the call returns here.
MemoryCurrent ==
    /\ pc = "memoryCurrent"
    /\ \/ /\ ~MemFilesReadable(path)
          /\ Return(SystemMemory(cacheCounts))
       \/ /\ MemFilesReadable(path)
          /\ ~cacheCounts
          /\ Return(CgroupMemory(limit, memCur[path], 0, FALSE))
       \/ /\ MemFilesReadable(path)
          /\ cacheCounts
          /\ usage' = memCur[path]
          /\ pc' = "memoryStat"
          /\ UNCHANGED <<cacheCounts, hasPid, path, limit, result, calls>>
    /\ UNCHANGED <<hostVars, memVars, moved>>

\* getCGroupV2MemoryCache sums the "file" line of memory.stat; when the
\* read fails the cache is left out.
MemoryStat ==
    /\ pc = "memoryStat"
    /\ Return(CgroupMemory(limit, usage,
                           IF MemFilesReadable(path) THEN memFile[path] ELSE 0,
                           TRUE))
    /\ UNCHANGED <<hostVars, memVars, moved>>

\* getAvailableAndTotalV1: cgroups.Load fails for a process that is gone
\* and the error is returned; a limit at PageCounterMax falls back to the
\* host; otherwise limit, limit - usage (+ cache).
GetAvailableAndTotalV1 ==
    /\ pc = "v1"
    /\ \/ /\ procCg = Exited
          /\ Return(Result(0, 0, TRUE))
       \/ /\ procCg # Exited
          /\ Unlimited(procCg)
          /\ Return(SystemMemory(cacheCounts))
       \/ /\ procCg # Exited
          /\ ~Unlimited(procCg)
          /\ Return(CgroupMemory(memMax[procCg], memCur[procCg],
                                 memFile[procCg], cacheCounts))
    /\ UNCHANGED <<hostVars, memVars, moved>>

(***************************************************************************)
(* The environment: membership changes of CGroupHost, and the kernel's    *)
(* accounting of the charge and the page cache of a cgroup.                *)
(***************************************************************************)
\* Writing memory.max; the write reclaims until the charge fits under it.
SetMemMax(c, mx) ==
    /\ EnvStep
    /\ c \in live
    /\ memMax[c] # mx
    /\ Accounted(c, mx, memCur[c], memFile[c])
    /\ memMax' = [memMax EXCEPT ![c] = mx]
    /\ UNCHANGED <<layout, optFields, procCg, live, memCur, memFile>>

\* Pages charged or reclaimed: anonymous memory and page cache.
Charge(c, cur, file) ==
    /\ EnvStep
    /\ c \in live
    /\ <<cur, file>> # <<memCur[c], memFile[c]>>
    /\ Accounted(c, memMax[c], cur, file)
    /\ memCur' = [memCur EXCEPT ![c] = cur]
    /\ memFile' = [memFile EXCEPT ![c] = file]
    /\ UNCHANGED <<layout, optFields, procCg, live, memMax>>

\* A new cgroup: memory.max "max", nothing charged.
EnvMkdir(c) ==
    /\ Mkdir(c)
    /\ memMax' = [memMax EXCEPT ![c] = Max]
    /\ memCur' = [memCur EXCEPT ![c] = 0]
    /\ memFile' = [memFile EXCEPT ![c] = 0]

Environment ==
    /\ \/ \E c \in AllCgroups : Migrate(c) /\ UNCHANGED memVars
       \/ Exit /\ UNCHANGED memVars
       \/ \E c \in Cgroups : Rmdir(c) /\ UNCHANGED memVars
       \/ \E c \in Cgroups : EnvMkdir(c)
       \/ \E c \in Cgroups, mx \in MemLimits \cup {Max} : SetMemMax(c, mx)
       \/ \E c \in Cgroups, cur, file \in 0..MemCap : Charge(c, cur, file)
    /\ moved' = TRUE
    /\ UNCHANGED callVars

Next ==
    \/ GetAvailableAndTotal
    \/ FindCGroupV2Path
    \/ MemoryLimit
    \/ MemoryCurrent
    \/ MemoryStat
    \/ GetAvailableAndTotalV1
    \/ Environment

Spec == Init /\ [][Next]_vars

(***************************************************************************)
(* Properties.                                                             *)
(***************************************************************************)

\* A call for a live target during which nothing on the host changed
\* returns the limit of the target's cgroup and the room left under it
\* (plus its page cache when cache counts), or the host figures when the
\* cgroup has no limit (getAvailableAndTotalV2 / V1 and their fallbacks).
QuiescentMemMatchesEntitlement ==
    (pc = "idle" /\ calls > 0 /\ hasPid /\ ~moved /\ procCg # Exited)
        => result = MemEntitlement(cacheCounts)

\* The spec's memory invariant (section 3): a resolved pair never has more
\* available than total, fallback included. getAvailableAndTotalV2 reads
\* memory.current and memory.stat at two instants.
AvailableNotAboveTotal ==
    (pc = "idle" /\ ~result.err) => result.available <= result.total

=============================================================================
