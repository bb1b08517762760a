----------------------------- MODULE CpuUsage -----------------------------
(***************************************************************************)
(* The CPU usage sampler getUsed (exec/cpu): with a target pid, find its   *)
(* cgroup v2 path and read the cumulative usage in cpu.stat twice, one     *)
(* second apart (getCGroupV2CPUUsage); on any failure fall back to the     *)
(* containerd v1 cgroup (Load, Stat, sleep, Stat), where every error is    *)
(* log.Fatalf; without a pid, cpu.Percent over the host, for one logical   *)
(* core when percpu is set.                                                *)
(*                                                                         *)
(* Every file read is a step of its own; the one-second sleep is the gap   *)
(* between the two reads, where the environment may burn CPU in a cgroup,  *)
(* move the target, remove a cgroup or create one (with a fresh counter).  *)
(* log.Fatalf and an index out of range both end the agent's process.      *)
(***************************************************************************)
EXTENDS CGroupHost, Integers

CONSTANTS
    UsageCap,    \* bound on a cumulative usage counter
    HostCpus,    \* the number of logical cores cpu.Percent reports
    HostPercent, \* the utilization cpu.Percent reports for the host
    CpuCount,    \* ctx.Value("cpuCount"), the divisor of the cgroup samples
    MaxCalls     \* bound on the number of calls

ASSUME CpuUsageAssumption ==
    /\ UsageCap \in Nat
    /\ HostCpus \in Nat \ {0}
    /\ HostPercent \in Nat
    /\ CpuCount \in Nat \ {0}
    /\ MaxCalls \in Nat

VARIABLES
    usage,     \* usage[c]: usage_usec of c/cpu.stat (v1: cpuacct.usage)
    pc,        \* where getUsed is; "dead" once the agent's process ended
    hasPid,    \* the context names a target pid
    percpu,    \* the percpu argument
    cpuIndex,  \* the cpuIndex argument
    path,      \* the cgroup FindCGroupV2Path returned, or the one Load bound
    first,     \* the first cumulative reading
    outcome,   \* "none", "value", "fatal" (log.Fatalf) or "panic"
    result,    \* the utilization returned, num/den percent
    calls,     \* number of calls started
    disturbed, \* ghost: membership or directories changed during the call
    burnt      \* ghost: CPU the target's cgroup used since the first read

vars == <<hostVars, usage, pc, hasPid, percpu, cpuIndex, path, first,
          outcome, result, calls, disturbed, burnt>>
callVars == <<pc, hasPid, percpu, cpuIndex, path, first, outcome, result,
              calls>>

Pcs == {"idle", "findPath", "stat1", "stat2", "v1Load", "v1Stat1",
        "v1Stat2", "host", "dead"}
Outcomes == {"none", "value", "fatal", "panic"}

\* (diff / 1e6 * 100) / cpuCount, kept exact as a fraction.
Utilization(diff, cnt) == [num |-> 100 * diff, den |-> cnt]
Utilizations == [num : Int, den : Nat \ {0}]

\* c/cpu.stat can be read: a live cgroup or the root of a unified
\* hierarchy (on hybrid the cgroup2 paths are not under the cgroup root).
CpuStatReadable(c) == layout = "unified" /\ c \in live \cup {Root}

\* cgroup.Stat(IgnoreNotExist) on a v1 cgroup whose directory was
\* removed ignores the missing files and reports a zero total.
V1Total(c) == IF c \in live \cup {Root} THEN usage[c] ELSE 0

TypeOK ==
    /\ HostTypeOK
    /\ usage \in [AllCgroups -> 0..UsageCap]
    /\ pc \in Pcs
    /\ hasPid \in BOOLEAN
    /\ percpu \in BOOLEAN
    /\ cpuIndex \in 0..(HostCpus + 1)
    /\ path \in AllCgroups
    /\ first \in 0..UsageCap
    /\ outcome \in Outcomes
    /\ result \in Utilizations
    /\ calls \in 0..MaxCalls
    /\ disturbed \in BOOLEAN
    /\ burnt \in 0..UsageCap

Init ==
    /\ HostInit
    /\ usage \in [AllCgroups -> 0..UsageCap]
    /\ \A c \in Cgroups : usage[c] <= usage[Root]
    /\ pc = "idle"
    /\ hasPid = FALSE
    /\ percpu = FALSE
    /\ cpuIndex = 0
    /\ path = Root
    /\ first = 0
    /\ outcome = "none"
    /\ result = Utilization(0, CpuCount)
    /\ calls = 0
    /\ disturbed = FALSE
    /\ burnt = 0

(***************************************************************************)
(* The caller. The steps of a call leave the host and the ghosts alone.    *)
(***************************************************************************)
\* Return cpuUsage from getUsed.
ReturnValue(r) ==
    /\ pc' = "idle"
    /\ outcome' = "value"
    /\ result' = r
    /\ UNCHANGED <<hasPid, percpu, cpuIndex, path, first, calls>>

\* log.Fatalf, or a run-time panic: the agent's process ends.
Die(o) ==
    /\ pc' = "dead"
    /\ outcome' = o
    /\ UNCHANGED <<hasPid, percpu, cpuIndex, path, first, result, calls>>

\* Go to the next tier of getUsed.
Goto(next) ==
    /\ pc' = next
    /\ UNCHANGED <<hasPid, percpu, cpuIndex, path, first, outcome, result,
                   calls>>

\* getUsed with a target pid or without one; percpu and cpuIndex are the
\* caller's arguments (cpuIndex up to one past the last valid index and
\* beyond).
GetUsed ==
    /\ pc = "idle"
    /\ calls < MaxCalls
    /\ calls' = calls + 1
    /\ \E withPid, perCore \in BOOLEAN, idx \in 0..(HostCpus + 1) :
          /\ hasPid' = withPid
          /\ percpu' = perCore
          /\ cpuIndex' = idx
          /\ pc' = IF withPid THEN "findPath" ELSE "host"
    /\ outcome' = "none"
    /\ disturbed' = FALSE
    /\ burnt' = 0
    /\ UNCHANGED <<hostVars, usage, path, first, result>>

\* A mutant of FindPath: the read error of /proc/<pid>/cgroup is ignored
\* and the path of a process that is gone is used.
FindPathNoErr ==
    /\ pc = "findPath"
    /\ \/ /\ ~HasUnifiedLine
          /\ Goto("v1Load")
       \/ /\ HasUnifiedLine
          /\ path' = procCg
          /\ pc' = "stat1"
          /\ UNCHANGED <<hasPid, percpu, cpuIndex, first, outcome, result, calls>>
    /\ UNCHANGED <<hostVars, usage, disturbed, burnt>>

\* FindCGroupV2Path: an error or an empty path goes to the v1 tier.
FindPath ==
    /\ pc = "findPath"
    /\ \/ /\ ~(procCg # Exited /\ HasUnifiedLine)
          /\ Goto("v1Load")
       \/ /\ procCg # Exited /\ HasUnifiedLine
          /\ path' = procCg
          /\ pc' = "stat1"
          /\ UNCHANGED <<hasPid, percpu, cpuIndex, first, outcome, result, calls>>
    /\ UNCHANGED <<hostVars, usage, disturbed, burnt>>

\* The first read of cpu.stat in getCGroupV2CPUUsage; an error returns
\* from it and getUsed goes to the v1 tier.
ReadStat1 ==
    /\ pc = "stat1"
    /\ \/ /\ ~CpuStatReadable(path)
          /\ Goto("v1Load")
       \/ /\ CpuStatReadable(path)
          /\ first' = usage[path]
          /\ pc' = "stat2"
          /\ UNCHANGED <<hasPid, percpu, cpuIndex, path, outcome, result, calls>>
    /\ UNCHANGED <<hostVars, usage, disturbed, burnt>>

\* After time.Sleep(time.Second), the second read; an error sends getUsed
\* to the v1 tier, otherwise it returns the difference over cpuCount.
ReadStat2 ==
    /\ pc = "stat2"
    /\ \/ /\ ~CpuStatReadable(path)
          /\ Goto("v1Load")
       \/ /\ CpuStatReadable(path)
          /\ ReturnValue(Utilization(usage[path] - first, CpuCount))
    /\ UNCHANGED <<hostVars, usage, disturbed, burnt>>

\* containerdCgroups.Load(Hierarchy, PidPath(p)): it needs the v1
\* hierarchies and /proc/<pid>/cgroup; an error is log.Fatalf.
V1Load ==
    /\ pc = "v1Load"
    /\ \/ /\ ~(layout # "unified" /\ procCg # Exited)
          /\ Die("fatal")
       \/ /\ layout # "unified" /\ procCg # Exited
          /\ path' = procCg
          /\ pc' = "v1Stat1"
          /\ UNCHANGED <<hasPid, percpu, cpuIndex, first, outcome, result, calls>>
    /\ UNCHANGED <<hostVars, usage, disturbed, burnt>>

\* The first cgroup.Stat: pre = CPU.Usage.Total.
V1Stat1 ==
    /\ pc = "v1Stat1"
    /\ first' = V1Total(path)
    /\ pc' = "v1Stat2"
    /\ UNCHANGED <<hostVars, usage, hasPid, percpu, cpuIndex, path, outcome,
                   result, calls, disturbed, burnt>>

\* A mutant of V1Stat2: the two readings subtracted the wrong way round.
V1Stat2Swapped ==
    /\ pc = "v1Stat2"
    /\ ReturnValue(Utilization(first - V1Total(path), CpuCount))
    /\ UNCHANGED <<hostVars, usage, disturbed, burnt>>

\* After the sleep, the second cgroup.Stat: (next - pre) * 100 / cpuCount.
V1Stat2 ==
    /\ pc = "v1Stat2"
    /\ ReturnValue(Utilization(V1Total(path) - first, CpuCount))
    /\ UNCHANGED <<hostVars, usage, disturbed, burnt>>

\* cpu.Percent(time.Second, percpu): one value per core, or one in all;
\* cpuIndex > len is log.Fatalf, and totalCpuPercent[cpuIndex] panics
\* for cpuIndex = len.
HostSample ==
    /\ pc = "host"
    /\ \/ /\ ~percpu
          /\ ReturnValue(Utilization(HostPercent, 1))
       \/ /\ percpu
          /\ cpuIndex > HostCpus
          /\ Die("fatal")
       \/ /\ percpu
          /\ cpuIndex < HostCpus
          /\ ReturnValue(Utilization(HostPercent, 1))
       \/ /\ percpu
          /\ cpuIndex = HostCpus
          /\ Die("panic")
    /\ UNCHANGED <<hostVars, usage, disturbed, burnt>>

(***************************************************************************)
(* The environment.                                                        *)
(***************************************************************************)
\* The processes of c run for d units: the counters of c and of the root
\* (which counts every descendant) grow. While a window is open, the
\* target's share is recorded in burnt.
Burn(c, d) ==
    /\ EnvStep
    /\ c \in live \cup {Root}
    /\ usage[Root] + d <= UsageCap
    /\ usage' = [x \in AllCgroups |->
                    IF x \in {c, Root} THEN usage[x] + d ELSE usage[x]]
    /\ burnt' = IF pc \in {"stat2", "v1Stat2"} /\ procCg \in {c, Root}
                  THEN burnt + d ELSE burnt
    /\ UNCHANGED <<layout, optFields, procCg, live, disturbed>>

\* Membership and directory changes; a new cgroup's counter starts at 0.
Reorganize ==
    /\ \/ \E c \in AllCgroups : Migrate(c) /\ UNCHANGED usage
       \/ Exit /\ UNCHANGED usage
       \/ \E c \in Cgroups : Rmdir(c) /\ UNCHANGED usage
       \/ \E c \in Cgroups : Mkdir(c) /\ usage' = [usage EXCEPT ![c] = 0]
    /\ disturbed' = TRUE
    /\ UNCHANGED burnt

Environment ==
    /\ \/ \E c \in AllCgroups, d \in 1..UsageCap : Burn(c, d)
       \/ Reorganize
    /\ UNCHANGED callVars

Next ==
    \/ GetUsed
    \/ FindPath
    \/ ReadStat1
    \/ ReadStat2
    \/ V1Load
    \/ V1Stat1
    \/ V1Stat2
    \/ HostSample
    \/ Environment

Spec == Init /\ [][Next]_vars

(***************************************************************************)
(* Properties.                                                             *)
(***************************************************************************)

\* A sample of a target whose cgroup membership did not change while it
\* was taken reports exactly the CPU the target's cgroup used between the
\* two reads, over cpuCount (getCGroupV2CPUUsage and the v1 tier of
\* getUsed).
QuiescentSampleMatchesUse ==
    (pc = "idle" /\ outcome = "value" /\ hasPid /\ ~disturbed)
        => result = Utilization(burnt, CpuCount)

\* The sampler ends the agent's process only to reject an illegal per-core
\* index of the host tier ("illegal cpu index", log.Fatalf): a failing
\* cgroup tier falls through to the next one (spec section 7) and an index
\* that passes the check is in range. getUsed has log.Fatalf on the v1
\* tier, and its check cpuIndex > len lets cpuIndex = len through.
SamplerEndsOnlyOnIllegalIndex ==
    outcome \in {"fatal", "panic"} =>
        /\ outcome = "fatal"
        /\ ~hasPid /\ percpu /\ cpuIndex >= HostCpus

=============================================================================
