--------------------------- MODULE CpuUsageProofs ---------------------------
(***************************************************************************)
(* Proofs about the CPU usage sampler of module CpuUsage, for every value  *)
(* of its constants: the type invariant (the counters stay under their     *)
(* cap because the root counts every descendant), and that a sample taken  *)
(* while the target's membership did not change reports exactly the CPU    *)
(* its cgroup used between the two reads.                                  *)
(***************************************************************************)
EXTENDS CpuUsage, TLAPS

\* The assumption on the constants, one fact at a time.
LEMMA CpuConstants ==
    /\ UsageCap \in Nat
    /\ HostCpus \in Nat /\ HostCpus > 0
    /\ HostPercent \in Nat
    /\ CpuCount \in Nat /\ CpuCount > 0
    /\ MaxCalls \in Nat
BY CpuUsageAssumption

USE HostAssumption, CpuConstants

\* A sample is a utilization.
LEMMA UtilizationType ==
    ASSUME NEW diff \in Int, NEW cnt \in Nat, cnt > 0
    PROVE  Utilization(diff, cnt) \in Utilizations
BY DEF Utilization, Utilizations

(***************************************************************************)
(* The type invariant.                                                     *)
(***************************************************************************)

\* The root's counter is at least every other counter and at least the CPU
\* the target burnt in the current window: every unit burnt in a cgroup is
\* also counted at the root.
Bounds ==
    /\ \A c \in Cgroups : usage[c] <= usage[Root]
    /\ burnt <= usage[Root]

\* The target is in a live cgroup, the root, or gone: the kernel refuses
\* to remove a cgroup with members.
HostInv == procCg \in live \cup {Root, Exited}

TInv == TypeOK /\ Bounds /\ HostInv

LEMMA TInvInit == Init => TInv
<1> SUFFICES ASSUME Init PROVE TInv
  OBVIOUS
<1>1. HostTypeOK /\ HostInv
  BY DEF Init, HostInit, HostTypeOK, HostInv, AllCgroups
<1>2. result \in Utilizations
  BY UtilizationType DEF Init
<1>3. /\ usage \in [AllCgroups -> 0..UsageCap]
      /\ pc \in Pcs /\ outcome \in Outcomes
      /\ cpuIndex \in 0..(HostCpus + 1)
      /\ path \in AllCgroups /\ first \in 0..UsageCap
      /\ calls \in 0..MaxCalls /\ burnt \in 0..UsageCap
  BY DEF Init, Pcs, Outcomes, AllCgroups
<1>4. hasPid \in BOOLEAN /\ percpu \in BOOLEAN /\ disturbed \in BOOLEAN
  BY DEF Init
<1>5. Bounds
  BY <1>3 DEF Init, Bounds, AllCgroups
<1>. QED  BY <1>1, <1>2, <1>3, <1>4, <1>5 DEF TInv, TypeOK

\* A step of the caller keeps TInv when it moves to a known pc and leaves
\* the host, the counters and the ghosts alone.
LEMMA CallerTInv ==
    ASSUME TInv, UNCHANGED <<hostVars, usage, disturbed, burnt>>,
           pc' \in Pcs, outcome' \in Outcomes, result' \in Utilizations,
           path' \in AllCgroups, first' \in 0..UsageCap,
           UNCHANGED <<hasPid, percpu, cpuIndex, calls>>
    PROVE  TInv'
BY DEF TInv, TypeOK, Bounds, HostInv, hostVars, HostTypeOK

\* The same for the steps that end a call.
LEMMA ReturnValueTInv ==
    ASSUME TInv, UNCHANGED <<hostVars, usage, disturbed, burnt>>,
           NEW r \in Utilizations, ReturnValue(r)
    PROVE  TInv'
BY CallerTInv DEF ReturnValue, Pcs, Outcomes, TInv, TypeOK

LEMMA DieTInv ==
    ASSUME TInv, UNCHANGED <<hostVars, usage, disturbed, burnt>>,
           NEW o \in {"fatal", "panic"}, Die(o)
    PROVE  TInv'
BY CallerTInv DEF Die, Pcs, Outcomes, TInv, TypeOK

LEMMA GotoTInv ==
    ASSUME TInv, UNCHANGED <<hostVars, usage, disturbed, burnt>>,
           NEW n \in Pcs, Goto(n)
    PROVE  TInv'
BY CallerTInv DEF Goto, TInv, TypeOK

\* Burning CPU keeps every counter under the root's, and the root's under
\* the cap: Burn adds d to the cgroup and to the root at once.
LEMMA BurnTInv ==
    ASSUME TInv, NEW c \in AllCgroups, NEW d \in 1..UsageCap, Burn(c, d),
           UNCHANGED callVars
    PROVE  TInv'
<1>. USE DEF TInv, TypeOK
<1>1. usage[Root] + d <= UsageCap /\ c \in live \cup {Root}
  BY DEF Burn
<1>2. usage' = [x \in AllCgroups |->
                  IF x \in {c, Root} THEN usage[x] + d ELSE usage[x]]
  BY DEF Burn
<1>3. usage'[Root] = usage[Root] + d
  BY <1>2 DEF AllCgroups
<1>4. \A x \in Cgroups : usage'[x] <= usage'[Root]
  BY <1>2, <1>3 DEF Bounds, AllCgroups
<1>5. usage' \in [AllCgroups -> 0..UsageCap]
  <2> SUFFICES ASSUME NEW x \in AllCgroups PROVE usage'[x] \in 0..UsageCap
    BY <1>2
  <2>1. usage[x] <= usage[Root]
    BY DEF Bounds, AllCgroups
  <2>2. usage[x] \in 0..UsageCap /\ usage[Root] \in 0..UsageCap
    BY DEF AllCgroups
  <2>3. CASE x \in {c, Root}
    BY <1>1, <1>2, <2>1, <2>2, <2>3
  <2>4. CASE x \notin {c, Root}
    BY <1>2, <2>2, <2>4
  <2>. QED  BY <2>3, <2>4
<1>6. burnt' = burnt \/ burnt' = burnt + d
  BY DEF Burn
<1>7. burnt' <= usage'[Root] /\ burnt' \in 0..UsageCap
  <2>1. usage[Root] \in 0..UsageCap /\ burnt \in 0..UsageCap
    BY DEF AllCgroups
  <2>. QED  BY <1>1, <1>3, <1>6, <2>1 DEF Bounds
<1>8. HostTypeOK' /\ HostInv' /\ UNCHANGED disturbed
  BY DEF Burn, EnvStep, HostTypeOK, HostInv
<1>. QED  BY <1>4, <1>5, <1>7, <1>8 DEF Bounds, callVars

\* Membership and directory changes leave the counters of the live
\* cgroups and the root alone; a new cgroup's counter starts at 0.
LEMMA ReorganizeTInv ==
    ASSUME TInv, Reorganize, UNCHANGED callVars
    PROVE  TInv'
<1>. USE DEF TInv, TypeOK
<1>1. HostTypeOK' /\ HostInv'
  <2>1. CASE \E c \in AllCgroups : Migrate(c) /\ UNCHANGED usage
    BY <2>1 DEF Migrate, EnvStep, HostTypeOK, HostInv, AllCgroups
  <2>2. CASE Exit /\ UNCHANGED usage
    BY <2>2 DEF Exit, EnvStep, HostTypeOK, HostInv, AllCgroups
  <2>3. CASE \E c \in Cgroups : Rmdir(c) /\ UNCHANGED usage
    BY <2>3 DEF Rmdir, EnvStep, HostTypeOK, HostInv
  <2>4. CASE \E c \in Cgroups : Mkdir(c) /\ usage' = [usage EXCEPT ![c] = 0]
    BY <2>4 DEF Mkdir, EnvStep, HostTypeOK, HostInv
  <2>. QED  BY <2>1, <2>2, <2>3, <2>4 DEF Reorganize
<1>2. \/ usage' = usage
      \/ \E c \in Cgroups : usage' = [usage EXCEPT ![c] = 0]
  BY DEF Reorganize
<1>3. usage' \in [AllCgroups -> 0..UsageCap] /\ Bounds'
  <2>1. CASE usage' = usage
    BY <2>1 DEF Reorganize, Bounds
  <2>2. CASE \E c \in Cgroups : usage' = [usage EXCEPT ![c] = 0]
    <3>1. PICK c \in Cgroups : usage' = [usage EXCEPT ![c] = 0]
      BY <2>2
    <3>2. usage'[Root] = usage[Root]
      BY <3>1 DEF AllCgroups
    <3>. QED  BY <3>1, <3>2 DEF Reorganize, Bounds, AllCgroups
  <2>. QED  BY <1>2, <2>1, <2>2
<1>4. disturbed' = TRUE /\ UNCHANGED burnt
  BY DEF Reorganize
<1>. QED  BY <1>1, <1>3, <1>4 DEF callVars

LEMMA TInvStep == TInv /\ [Next]_vars => TInv'
<1> SUFFICES ASSUME TInv, [Next]_vars PROVE TInv'
  OBVIOUS
<1>0. path \in AllCgroups /\ first \in 0..UsageCap /\ usage \in [AllCgroups -> 0..UsageCap]
  BY DEF TInv, TypeOK
<1>u. \A diff \in Int : Utilization(diff, CpuCount) \in Utilizations
  BY UtilizationType
<1>1. CASE GetUsed
  <2>1. UNCHANGED <<hostVars, usage, path, first, result>>
        /\ disturbed' = FALSE /\ burnt' = 0 /\ outcome' = "none"
        /\ calls' \in 0..MaxCalls /\ pc' \in Pcs
        /\ hasPid' \in BOOLEAN /\ percpu' \in BOOLEAN
        /\ cpuIndex' \in 0..(HostCpus + 1)
    BY <1>1 DEF GetUsed, TInv, TypeOK, Pcs
  <2>2. usage[Root] \in 0..UsageCap
    BY DEF TInv, TypeOK, AllCgroups
  <2>3. UNCHANGED <<layout, optFields, procCg, live, envSteps>>
    BY <2>1 DEF hostVars
  <2>4. TypeOK'
    <3>1. HostTypeOK'
      BY <2>3 DEF TInv, TypeOK, HostTypeOK
    <3>2. burnt' \in 0..UsageCap /\ outcome' \in Outcomes
      BY <2>1 DEF Outcomes
    <3>3. usage' \in [AllCgroups -> 0..UsageCap] /\ path' \in AllCgroups
          /\ first' \in 0..UsageCap /\ result' \in Utilizations
      BY <2>1 DEF TInv, TypeOK
    <3>. QED  BY <2>1, <3>1, <3>2, <3>3 DEF TypeOK
  <2>5. Bounds'
    BY <2>1, <2>2 DEF TInv, Bounds
  <2>6. HostInv'
    BY <2>3 DEF TInv, HostInv
  <2>. QED  BY <2>4, <2>5, <2>6 DEF TInv
<1>2. CASE FindPath
  <2>1. UNCHANGED <<hostVars, usage, disturbed, burnt>>
    BY <1>2 DEF FindPath
  <2>2. CASE Goto("v1Load")
    BY <2>1, <2>2, GotoTInv DEF Pcs
  <2>3. CASE procCg # Exited /\ path' = procCg /\ pc' = "stat1"
             /\ UNCHANGED <<hasPid, percpu, cpuIndex, first, outcome, result, calls>>
    BY <2>1, <2>3, <1>0, CallerTInv DEF Pcs, TInv, TypeOK, HostTypeOK, AllCgroups
  <2>. QED  BY <1>2, <2>2, <2>3 DEF FindPath
<1>3. CASE ReadStat1
  <2>1. UNCHANGED <<hostVars, usage, disturbed, burnt>>
    BY <1>3 DEF ReadStat1
  <2>2. CASE Goto("v1Load")
    BY <2>1, <2>2, GotoTInv DEF Pcs
  <2>3. CASE first' = usage[path] /\ pc' = "stat2"
             /\ UNCHANGED <<hasPid, percpu, cpuIndex, path, outcome, result, calls>>
    BY <2>1, <2>3, <1>0, CallerTInv DEF Pcs, TInv, TypeOK
  <2>. QED  BY <1>3, <2>2, <2>3 DEF ReadStat1
<1>4. CASE ReadStat2
  <2>1. UNCHANGED <<hostVars, usage, disturbed, burnt>>
    BY <1>4 DEF ReadStat2, Goto, ReturnValue
  <2>2. CASE Goto("v1Load")
    BY <2>1, <2>2, GotoTInv DEF Pcs
  <2>3. CASE ReturnValue(Utilization(usage[path] - first, CpuCount))
    BY <2>1, <2>3, <1>0, <1>u, ReturnValueTInv
  <2>. QED  BY <1>4, <2>2, <2>3 DEF ReadStat2
<1>5. CASE V1Load
  <2>1. UNCHANGED <<hostVars, usage, disturbed, burnt>>
    BY <1>5 DEF V1Load, Die
  <2>2. CASE Die("fatal")
    BY <2>1, <2>2, DieTInv
  <2>3. CASE procCg # Exited /\ path' = procCg /\ pc' = "v1Stat1"
             /\ UNCHANGED <<hasPid, percpu, cpuIndex, first, outcome, result, calls>>
    BY <2>1, <2>3, <1>0, CallerTInv DEF Pcs, TInv, TypeOK, HostTypeOK, AllCgroups
  <2>. QED  BY <1>5, <2>2, <2>3 DEF V1Load
<1>6. CASE V1Stat1
  <2>1. V1Total(path) \in 0..UsageCap
    BY <1>0 DEF V1Total, AllCgroups
  <2>. QED  BY <1>6, <2>1, CallerTInv DEF V1Stat1, Pcs, TInv, TypeOK
<1>7. CASE V1Stat2
  <2>1. V1Total(path) \in 0..UsageCap
    BY <1>0 DEF V1Total, AllCgroups
  <2>2. Utilization(V1Total(path) - first, CpuCount) \in Utilizations
    BY <2>1, <1>0, <1>u
  <2>. QED  BY <1>7, <2>2, ReturnValueTInv DEF V1Stat2
<1>8. CASE HostSample
  <2>1. UNCHANGED <<hostVars, usage, disturbed, burnt>>
    BY <1>8 DEF HostSample
  <2>2. Utilization(HostPercent, 1) \in Utilizations
    BY UtilizationType
  <2>3. CASE ReturnValue(Utilization(HostPercent, 1))
    BY <2>1, <2>2, <2>3, ReturnValueTInv
  <2>4. CASE Die("fatal") \/ Die("panic")
    BY <2>1, <2>4, DieTInv
  <2>. QED  BY <1>8, <2>3, <2>4 DEF HostSample
<1>9. CASE Environment
  <2>1. CASE \E c \in AllCgroups, d \in 1..UsageCap : Burn(c, d)
    BY <1>9, <2>1, BurnTInv DEF Environment
  <2>2. CASE Reorganize
    BY <1>9, <2>2, ReorganizeTInv DEF Environment
  <2>. QED  BY <1>9, <2>1, <2>2 DEF Environment
<1>10. CASE UNCHANGED vars
  BY <1>10 DEF vars, TInv, TypeOK, Bounds, HostInv, hostVars, HostTypeOK
<1>. QED  BY <1>1, <1>2, <1>3, <1>4, <1>5, <1>6, <1>7, <1>8, <1>9, <1>10
          DEF Next

\* The counters, the sample's readings and the CPU burnt in a window stay
\* within the cap, the index stays within one past the last core, and
\* every returned sample has a positive divisor, in every reachable state.
THEOREM TypeCorrect == Spec => []TypeOK
<1>1. TInv => TypeOK
  BY DEF TInv
<1>. QED  BY TInvInit, TInvStep, <1>1, PTL DEF Spec

(***************************************************************************)
(* The quiescent sample. QuiescentSampleMatchesUse is not inductive: a     *)
(* return from stat2 or v1Stat2 needs the window's difference to be the    *)
(* CPU burnt since the first read, which needs the path to be the target's *)
(* cgroup and nothing burnt before the window opened, which in turn needs  *)
(* that a fallback from stat2 to v1 cannot happen undisturbed.            *)
(***************************************************************************)
Sampling == {"stat1", "stat2", "v1Stat1", "v1Stat2"}
Opening == {"findPath", "stat1", "v1Load", "v1Stat1"}
Window == {"stat2", "v1Stat2"}

\* The host tier is taken only without a target pid.
HostNoPid == pc = "host" => ~hasPid

\* The window between the two cpu.stat reads is open only on a unified
\* hierarchy (ReadStat1 read it).
Stat2Unified == pc = "stat2" => layout = "unified"

\* Undisturbed, the path read is the target's current cgroup.
PathIsTarget ==
    (pc \in Sampling /\ ~disturbed) => path = procCg /\ procCg # Exited

\* Undisturbed, nothing is counted as burnt before the first read.
NothingBurntYet == (pc \in Opening /\ ~disturbed) => burnt = 0

\* Undisturbed, the counter of the path read is the first reading plus
\* what the target's cgroup burnt since.
WindowAccounts ==
    (pc \in Window /\ ~disturbed) => usage[path] = first + burnt

QInv == /\ TInv /\ HostNoPid /\ Stat2Unified /\ PathIsTarget
        /\ NothingBurntYet /\ WindowAccounts /\ QuiescentSampleMatchesUse

LEMMA QInvInit == Init => QInv
<1> SUFFICES ASSUME Init PROVE QInv
  OBVIOUS
<1>1. TInv
  BY TInvInit
<1>2. pc = "idle" /\ outcome = "none"
  BY DEF Init
<1>. QED  BY <1>1, <1>2 DEF QInv, HostNoPid, Stat2Unified, PathIsTarget,
                           NothingBurntYet, WindowAccounts,
                           QuiescentSampleMatchesUse, Sampling, Opening, Window

\* A step of the environment keeps the accounts: a burn adds the same
\* amount to the path's counter and to the ghost exactly when the path is
\* the target's cgroup; a reorganisation marks the call disturbed.
LEMMA EnvironmentQInv ==
    ASSUME QInv, Environment
    PROVE  QInv'
<1>. USE DEF QInv
<1>1. TInv'
  BY TInvStep DEF Next
<1>2. UNCHANGED callVars
  BY DEF Environment
<1>3. UNCHANGED <<pc, hasPid, path, first, outcome, result>>
  BY <1>2 DEF callVars
<1>4. CASE Reorganize
  <2>1. disturbed' = TRUE /\ UNCHANGED layout
    BY <1>4 DEF Reorganize, Migrate, Exit, Rmdir, Mkdir
  <2>. QED  BY <1>1, <1>3, <2>1 DEF HostNoPid, Stat2Unified, PathIsTarget,
                 NothingBurntYet, WindowAccounts, QuiescentSampleMatchesUse
<1>5. CASE \E c \in AllCgroups, d \in 1..UsageCap : Burn(c, d)
  <2>1. PICK c \in AllCgroups, d \in 1..UsageCap : Burn(c, d)
    BY <1>5
  <2>2. UNCHANGED <<layout, procCg, disturbed>>
    BY <2>1 DEF Burn
  <2>3. pc \notin Window => burnt' = burnt
    BY <2>1 DEF Burn, Window
  <2>4. WindowAccounts'
    <3> SUFFICES ASSUME pc \in Window, ~disturbed
                 PROVE  usage'[path] = first + burnt'
      BY <1>3, <2>2 DEF WindowAccounts
    <3>1. path = procCg /\ path \in AllCgroups /\ usage \in [AllCgroups -> Nat]
      BY DEF PathIsTarget, Sampling, Window, TInv, TypeOK
    <3>2. usage[path] = first + burnt
      BY DEF WindowAccounts
    <3>3. usage'[path] = IF path \in {c, Root} THEN usage[path] + d ELSE usage[path]
      BY <2>1, <3>1 DEF Burn
    <3>4. burnt' = IF procCg \in {c, Root} THEN burnt + d ELSE burnt
      BY <2>1 DEF Burn, Window
    <3>. QED  BY <3>1, <3>2, <3>3, <3>4 DEF TInv, TypeOK
  <2>5. NothingBurntYet' /\ QuiescentSampleMatchesUse'
    BY <1>3, <2>2, <2>3 DEF NothingBurntYet, QuiescentSampleMatchesUse,
                            Opening, Window
  <2>. QED  BY <1>1, <1>3, <2>2, <2>4, <2>5 DEF HostNoPid, Stat2Unified,
                                                PathIsTarget
<1>. QED  BY <1>4, <1>5 DEF Environment

\* The undisturbed target's cgroup is live or the root, so its cpu.stat
\* can be read on a unified hierarchy and its v1 total is its counter.
LEMMA TargetReadable ==
    ASSUME QInv, pc \in Sampling, ~disturbed
    PROVE  /\ path \in live \cup {Root}
           /\ layout = "unified" => CpuStatReadable(path)
           /\ V1Total(path) = usage[path]
<1>1. path = procCg /\ procCg # Exited
  BY DEF QInv, PathIsTarget
<1>2. path \in live \cup {Root}
  BY <1>1 DEF QInv, TInv, HostInv
<1>. QED  BY <1>2 DEF CpuStatReadable, V1Total

LEMMA QInvStep == QInv /\ [Next]_vars => QInv'
<1> SUFFICES ASSUME QInv, [Next]_vars PROVE QInv'
  OBVIOUS
<1>. USE DEF QInv
<1>0. TInv'
  BY TInvStep
<1>u. \A x \in Int : Utilization(x, CpuCount) = [num |-> 100 * x, den |-> CpuCount]
  BY DEF Utilization
<1>1. CASE GetUsed
  <2>1. /\ pc' \in {"findPath", "host"} /\ (pc' = "host" => ~hasPid')
        /\ outcome' = "none" /\ disturbed' = FALSE /\ burnt' = 0
    BY <1>1 DEF GetUsed
  <2>. QED  BY <1>0, <2>1 DEF HostNoPid, Stat2Unified, PathIsTarget,
                 NothingBurntYet, WindowAccounts, QuiescentSampleMatchesUse,
                 Sampling, Opening, Window
<1>2. CASE FindPath
  <2>1. UNCHANGED <<hostVars, usage, disturbed, burnt, hasPid, outcome>>
        /\ pc = "findPath"
    BY <1>2 DEF FindPath, Goto
  <2>2. UNCHANGED <<layout, procCg>>
    BY <2>1 DEF hostVars
  <2>3. pc' \in {"v1Load", "stat1"}
    BY <1>2 DEF FindPath, Goto
  <2>4. pc' = "stat1" => path' = procCg /\ procCg # Exited
    BY <1>2 DEF FindPath, Goto
  <2>. QED  BY <1>0, <2>1, <2>2, <2>3, <2>4
            DEF HostNoPid, Stat2Unified, PathIsTarget, NothingBurntYet,
                WindowAccounts, QuiescentSampleMatchesUse, Sampling, Opening,
                Window
<1>3. CASE ReadStat1
  <2>1. UNCHANGED <<hostVars, usage, disturbed, burnt, hasPid, path, outcome>>
        /\ pc = "stat1"
    BY <1>3 DEF ReadStat1, Goto
  <2>2. UNCHANGED <<layout, procCg>>
    BY <2>1 DEF hostVars
  <2>3. \/ pc' = "v1Load"
        \/ pc' = "stat2" /\ layout = "unified" /\ first' = usage[path]
    BY <1>3 DEF ReadStat1, Goto, CpuStatReadable
  <2>. QED  BY <1>0, <2>1, <2>2, <2>3
            DEF HostNoPid, Stat2Unified, PathIsTarget, NothingBurntYet,
                WindowAccounts, QuiescentSampleMatchesUse, Sampling, Opening,
                Window, TInv, TypeOK
<1>4. CASE ReadStat2
  <2>1. UNCHANGED <<hostVars, usage, disturbed, burnt, hasPid>>
        /\ pc = "stat2"
    BY <1>4 DEF ReadStat2, Goto, ReturnValue
  <2>2. CASE ~CpuStatReadable(path) /\ Goto("v1Load")
    <3>1. disturbed
      BY <2>1, <2>2, TargetReadable DEF Stat2Unified, Sampling
    <3>. QED  BY <1>0, <2>1, <2>2, <3>1
              DEF Goto, HostNoPid, Stat2Unified, PathIsTarget,
                  NothingBurntYet, WindowAccounts, QuiescentSampleMatchesUse
  <2>3. CASE ReturnValue(Utilization(usage[path] - first, CpuCount))
    <3>1. pc' = "idle" /\ result' = Utilization(usage[path] - first, CpuCount)
      BY <2>3 DEF ReturnValue
    <3>2. ~disturbed => usage[path] - first = burnt
      BY <2>1 DEF WindowAccounts, Window, TInv, TypeOK
    <3>. QED  BY <1>0, <2>1, <3>1, <3>2
              DEF HostNoPid, Stat2Unified, PathIsTarget, NothingBurntYet,
                  WindowAccounts, QuiescentSampleMatchesUse, Sampling,
                  Opening, Window
  <2>. QED  BY <1>4, <2>2, <2>3 DEF ReadStat2
<1>5. CASE V1Load
  <2>1. UNCHANGED <<hostVars, usage, disturbed, burnt, hasPid>>
        /\ pc = "v1Load"
    BY <1>5 DEF V1Load, Die
  <2>2. UNCHANGED <<layout, procCg>>
    BY <2>1 DEF hostVars
  <2>3. \/ pc' = "dead" /\ outcome' = "fatal"
        \/ pc' = "v1Stat1" /\ path' = procCg /\ procCg # Exited
    BY <1>5 DEF V1Load, Die
  <2>. QED  BY <1>0, <2>1, <2>2, <2>3
            DEF HostNoPid, Stat2Unified, PathIsTarget, NothingBurntYet,
                WindowAccounts, QuiescentSampleMatchesUse, Sampling, Opening,
                Window
<1>6. CASE V1Stat1
  <2>1. UNCHANGED <<hostVars, usage, disturbed, burnt, hasPid, path, outcome>>
        /\ pc = "v1Stat1" /\ pc' = "v1Stat2" /\ first' = V1Total(path)
    BY <1>6 DEF V1Stat1
  <2>2. UNCHANGED <<layout, procCg>>
    BY <2>1 DEF hostVars
  <2>3. ~disturbed => first' = usage[path] /\ burnt = 0
    BY <2>1, TargetReadable DEF Sampling, NothingBurntYet, Opening
  <2>. QED  BY <1>0, <2>1, <2>2, <2>3
            DEF HostNoPid, Stat2Unified, PathIsTarget, NothingBurntYet,
                WindowAccounts, QuiescentSampleMatchesUse, Sampling, Opening,
                Window, TInv, TypeOK
<1>7. CASE V1Stat2
  <2>1. UNCHANGED <<hostVars, usage, disturbed, burnt, hasPid>>
        /\ pc = "v1Stat2" /\ pc' = "idle"
        /\ result' = Utilization(V1Total(path) - first, CpuCount)
    BY <1>7 DEF V1Stat2, ReturnValue
  <2>2. ~disturbed => V1Total(path) - first = burnt
    <3> SUFFICES ASSUME ~disturbed PROVE V1Total(path) - first = burnt
      OBVIOUS
    <3>1. V1Total(path) = usage[path]
      BY <2>1, TargetReadable DEF Sampling
    <3>2. usage[path] = first + burnt
      BY <2>1 DEF WindowAccounts, Window
    <3>. QED  BY <3>1, <3>2 DEF TInv, TypeOK
  <2>. QED  BY <1>0, <2>1, <2>2
            DEF HostNoPid, Stat2Unified, PathIsTarget, NothingBurntYet,
                WindowAccounts, QuiescentSampleMatchesUse, Sampling, Opening,
                Window
<1>8. CASE HostSample
  <2>1. UNCHANGED <<hostVars, usage, disturbed, burnt, hasPid>>
        /\ pc = "host" /\ pc' \in {"idle", "dead"}
    BY <1>8 DEF HostSample, ReturnValue, Die
  <2>2. ~hasPid
    BY <2>1 DEF HostNoPid
  <2>. QED  BY <1>0, <2>1, <2>2
            DEF HostNoPid, Stat2Unified, PathIsTarget, NothingBurntYet,
                WindowAccounts, QuiescentSampleMatchesUse, Sampling, Opening,
                Window
<1>9. CASE Environment
  BY <1>9, EnvironmentQInv
<1>10. CASE UNCHANGED vars
  BY <1>10 DEF vars, HostNoPid, Stat2Unified, PathIsTarget, NothingBurntYet,
               WindowAccounts, QuiescentSampleMatchesUse, hostVars, TInv,
               TypeOK, HostTypeOK, Bounds, HostInv
<1>. QED  BY <1>1, <1>2, <1>3, <1>4, <1>5, <1>6, <1>7, <1>8, <1>9, <1>10
          DEF Next

\* A call that returns a sample for a target pid with no reorganisation of
\* the cgroups during it returns exactly the CPU the target's cgroup used
\* between the two reads of getUsed, over the CPU count: the two cpu.stat
\* reads, or the two v1 cpuacct reads, bracket the window correctly.
THEOREM QuiescentCorrect == Spec => []QuiescentSampleMatchesUse
<1>1. QInv => QuiescentSampleMatchesUse
  BY DEF QInv
<1>. QED  BY QInvInit, QInvStep, <1>1, PTL DEF Spec

=============================================================================
