# TLA+ models of chaosblade-exec-os

This directory holds TLA+ specifications of the stateful parts of the
OS fault-injection agent in `src/`. It also holds the TLC configurations
that model-check them and TLAPS proofs of the main CPU-quota, memory-limit,
CPU-usage, file-append, DNS and network-drop results. The
same facts are in machine-readable form in `PROJECT.json`: components, runs,
mutants, the map from definitions to source lines, findings, hazards and
theorems.

## 1. The system

The spec (`spec.md`) calls the core the *resource-accounting subsystem*. It
is used by the stress actions to size their load:

| part | source | what it does |
|---|---|---|
| CGroupVersionDetector | `pkg/automaxprocs/cgroups/cgroup_v2_darwin.go` (Linux file embedded from line 45) | classifies the host as cgroup V1 or V2 from `cgroup.controllers` and `/proc/self/mountinfo` |
| CPUQuotaResolver | `cgroups/cgroup_v2.go`, `runtime/cpu_quota_linux_v2.go`, `maxprocs.go` | `GetCPUCntByPid`: the target's cgroup path, then `cpu.max`, then the rounded core count floored at 1 (or NumCPU) |
| MemoryLimitResolver | `unnamed/part_000`, `exec/mem/mem_cgroup_v2.go`, `cgroups/cgroup_v2.go` | `getAvailableAndTotal`: limit and room left from `memory.max`, `memory.current` and `memory.stat`, or the host figures |
| UsageSampler | `exec/network/network_drop.go` (the exec/cpu file embedded from line 260) | `getUsed`: two readings of a cumulative CPU counter one second apart, for the v2 cgroup, the v1 cgroup or the host |
| HostFallbackProvider | `getSystemMemory`, `cpu.Percent` | the whole-machine figures |

The repository also holds fault executors that the spec leaves out of its
core. Three of them keep state across commands and are modelled here:

| part | source | what it does |
|---|---|---|
| NetworkDropExecutor | `exec/network/network_drop.go` lines 121-255 | `blade create network drop` appends iptables DROP rules (tcp, then udp, per chain) and `destroy` deletes them |
| NetworkDnsExecutor | `exec/network/network_dns.go` lines 110-265 | copies `/etc/hosts` to `/etc/hosts-<uid>`, then appends or replaces a mapping; `destroy` copies the backup back |
| FileAppendExecutor | `exec/file/file_append.go` lines 143-392 | optionally backs the file up to `<file>.chaos-blade-backup-<uid>`, creates the directory, echoes the content `count` times, and with `--interval` keeps appending from a ticker goroutine; `destroy` kills that process, then removes the lines (`--delete`) by restoring the backup or removing the file |

How the parts interact:
- Every resolver first calls the detector and then `FindCGroupV2Path`
  (`/proc/<pid>/cgroup`).
- Each resolver then reads files of the directory that path names.
- The kernel and the container runtime change those files and the target's
  membership while a resolver is between two of its reads. The sampler
  even sleeps a second between its two reads.
- Executors run as separate `blade` invocations. Two experiments on one
  host interleave their iptables commands and their writes of the hosts
  file.

## 2. Modules

| module | models | state | actions |
|---|---|---|---|
| `CGroupHost` | the host shared by the resolvers | `layout` (unified, hybrid, legacy), `optFields` (how many optional fields the mountinfo lines have), `procCg` (the target's cgroup or `Exited`), `live` (existing cgroup directories), `envSteps` | `DetectCGroupVersion` (a function of the state); environment steps `Migrate`, `Exit`, `Rmdir` (refused while the cgroup has members), `Mkdir` |
| `CpuQuota` | CPUQuotaResolver | `cpuMax`, `pc`, `path`, `result`, `calls`; ghosts `moved` and `answers` | `GetCPUCntByPid`, `FindCGroupV2Path`, `CPUQuota`, `CPUQuotaV1`, `Environment` (the host steps and `SetCpuMax`) |
| `MemLimit` | MemoryLimitResolver | `memMax`, `memCur`, `memFile`, `pc`, the call's inputs and reads, `result`; ghost `moved` | `GetAvailableAndTotal`, `FindCGroupV2Path`, `MemoryLimit`, `MemoryCurrent`, `MemoryStat`, `GetAvailableAndTotalV1`, `Environment` (host steps, `SetMemMax`, `Charge`) |
| `CpuUsage` | UsageSampler | `usage` (cumulative counters), `pc`, the call's arguments, `first`, `outcome` (value, fatal, panic), `result`; ghosts `disturbed`, `burnt` | `GetUsed`, `FindPath`, `ReadStat1`, `ReadStat2`, `V1Load`, `V1Stat1`, `V1Stat2`, `HostSample`, `Environment` (`Burn`, `Reorganize`) |
| `NetworkDrop` | NetworkDropExecutor | `rules` (the iptables table as a multiset), per experiment `stage`, `flags`, `sIdx`, `dIdx`, `nested`, `resp`; `fails` | `Create`, `StartAppend`, `StartReturn`, `RollbackDelete`, `RollbackReturn`, `Destroy`, `StopDelete`, `StopReturn` |
| `DnsHosts` | NetworkDnsExecutor | `hosts` (set of entries), per experiment `stage`, `flags`, `backups`, `snapshot`; history `orig`; `fails` | `Create`, `Grep`, `AppendPair`, `ReadHosts`, `WriteHosts`, `Destroy` |
| `FileAppend` | FileAppendExecutor | `file` (a sequence of lines, or `NoFile`), `dirExists`, per experiment `stage`, `flags`, `backup` (the `.bak` file's content), `idx` (the echo loop), `last` (the last echo's outcome), `proc` (the ticker process alive), `resp`, history `existed`; `ticks`, `fails` | `Create`, `Backup`, `Prepare`, `Echo`, `StartReturn`, `Tick`, `Destroy`, `Restore` (using `RemoveFile`), `RemoveBackup` |
| `CpuQuotaProofs`, `FileAppendProofs`, `DnsHostsProofs` | TLAPS proofs about `CpuQuota`, `FileAppend`, `DnsHosts` | | |
| `MC_*` | instances for TLC | | |

How the modules correspond to the code:
- **Reads are steps.** Every file read or shell command of a handler is one
  step. Its guard is the code's early return, and its alternatives are the
  disjuncts of the action, in the code's order. For example, `CPUQuota` has
  three disjuncts: the read error, `max` (undefined quota) and the rounded
  count.
- **Callers.** Each resolver has a single caller that makes up to `MaxCalls`
  calls. Between the caller's steps, the environment takes up to `MaxEnv`
  steps.
- **Data abstraction.**
  - Byte and microsecond values are small integers.
  - A `cpu.max` is a record of quota and period.
  - An iptables rule is its chain, protocol and match (`RuleAt` builds
    what the `fmt.Sprintf` calls of `start`/`stop` build).
  - A hosts line is `[ip, dom, blade]`, where `blade` marks the
    `#chaosblade` comment.
  - A file line is `"orig"` (a line the file held before) or the
    experiment that appended it; the content flag is that experiment's
    line, and a file that does not exist is `NoFile`.
- **`DetectCGroupVersion` keeps the field the code reads.** Instead of the
  mount's filesystem type, it looks at `strings.Fields(line)[6]`: the first
  optional field or the `-` separator (`Field6`).
- **The ticker.** `--interval` makes `start` return while a goroutine
  keeps appending `count` lines per tick (`file_append.go:225-243`). The
  goroutine is `proc[e]`; `Tick` is one tick and `Destroy`'s
  `kill -9` ends it. The kill goes through `exec.Destroy`, which is outside
  `src/`, and stop ignores its result (`file_append.go:252-262`): the model
  takes the kill to succeed, and `CleanDestroyRemovesAppendedLines` rests
  on that. `MaxTicks` bounds the ticks of a behaviour.
- **Ghosts and history.** `moved`, `answers`, `disturbed`, `burnt`, `orig` and `existed`
  only record history for the properties; no action reads them in a guard.
- **From the spec.** `DefaultRoundFunc` and the V1 CPU tier
  (`GetCPUQuotaToCPUCntByPidFroCgroups1`) are not in `src/` and are
  modelled from the spec (`spec_modelled` in the map).
- **The reference.** `Entitlement`, `SpecCpuCount` and `NearestCores`
  (`CpuQuota`) and `MemEntitlement` (`MemLimit`) state what the spec says a
  call should return. They are written independently of the code's
  operators, so a bug in `QuotaToCnt` or `CgroupMemory` shows up as a
  difference.

## 3. Runs

Deadlock checking is off in every run (`CHECK_DEADLOCK FALSE`). The caller stops after `MaxCalls` calls, the environment after
`MaxEnv` steps, and an experiment ends in `destroyed`. There is no liveness property, and no
fairness is assumed. The code has no background task or retry loop, so its
only eventual behaviour is that a synchronous call returns; every action is
a bounded step.

### Passing runs (each property has a mutant TLC catches, listed in PROJECT.json)

| run | cfg | properties | shows |
|---|---|---|---|
| cpu_quota | `MC_CpuQuota.cfg` | TypeOK, QuiescentCallMatchesEntitlement | A call that no environment step interrupts returns the spec's entitlement: the nearest core floored at 1, NumCPU for `max`, NumCPU with an error for a gone target or one in the v2 root. This holds on every layout. |
| mem_limit | `MC_MemLimit.cfg` | TypeOK, QuiescentMemMatchesEntitlement | An uninterrupted call for a live target returns the cgroup limit and the room under it (plus the page cache in `ram` mode), or the host figures. |
| cpu_usage | `MC_CpuUsage.cfg` | TypeOK, QuiescentSampleMatchesUse | A sample whose target was not moved, and whose cgroups were not removed or created, reports exactly the CPU the target's cgroup burnt in the window, over cpuCount. This holds on the v2 and the v1 tier. |
| net_drop | `MC_NetworkDrop.cfg` (MaxFail 2) | TypeOK, RunningDropsInstalledWhileNoFailure, CleanDestroyLeavesNoRules | Two experiments with the same rules, interleaved in any order and with up to two failing iptables commands: while no command has failed each keeps its rules installed while running; once both destroys reported success no rule is left, failures included. The rollback and early-return paths keep the table and loop indices in range. |
| dns | `MC_DnsHosts.cfg` (two experiments, MaxFail 1) | TypeOK | Two interleaved experiments under both appliers, with a failing command: the hosts file only ever holds `#chaosblade` lines and plain entries with a valid ip, whichever stale snapshot or backup is written back. Whether a running experiment's mapping stays in effect is not a pass property: with two experiments it does not (the replace applier's stale write at `network_dns.go:258`, or a stale restore, the `dns_overlap` finding). |
| file_append | `MC_FileAppend.cfg` (count 2, 2 ticks, MaxFail 2) | TypeOK, CleanDestroyRemovesAppendedLines | A destroy with `--delete` that reports success leaves none of the experiment's lines in the file, whether or not the file and its directory existed, with or without `--backup`, and with the ticker still appending when destroy starts: `kill -9` comes before the restore. |

### Violation runs (each is a finding in PROJECT.json)

| run | property | what TLC shows |
|---|---|---|
| cgroup_detect | DetectFollowsSpec | `fstype := fields[6]` (`cgroup_v2_darwin.go:103`) is never the filesystem type. A hybrid host with cgroup2 under the root is classed V1, against spec section 4.1 step 2. |
| mem_avail | AvailableNotAboveTotal | Page cache charged between the `memory.current` and `memory.stat` reads (`mem_cgroup_v2.go:64`, `:74`) makes available > total, against spec sections 3 and 8. |
| cpu_usage_exit | SamplerEndsOnlyOnIllegalIndex | `cpuIndex > len` (`network_drop.go:460`) lets `cpuIndex = len` through to an out-of-range index and a panic. The same property also covers the `log.Fatalf` of the v1 tier (`:436`). |
| net_drop_running | RunningDropsInstalled | A failed append makes `start` call `stop`, and its `iptables -D` removes the identical rule of another running experiment. The udp branch (`:192-195`) also continues after its rollback. |
| dns_overlap | DestroyRestoresHosts | Two overlapping DNS experiments destroyed in creation order restore a stale backup, which brings back the destroyed experiment's line. |
| file_append_backup | NoBackupMeansNoOriginal | With `--backup --delete`, a failed `cp` of an existing file is logged and ignored (`file_append.go:204`). When the create then fails and is destroyed, `stop` finds no backup and removes the file (`:281-293`): the user's original content is lost. |

What else model checking turned up. These cfgs are not kept because runs
are limited, and each is a one-line change of a cfg above:
- `CallResultLinearizable` (still defined in `CpuQuota`) fails on the
  `cpu_quota` instance. The path (`cpu_quota_linux_v2.go:28`) and
  `cpu.max` (`:41`) are read at two instants, and a target moved between
  them gets a count that was right at no instant of the call, against spec
  section 5 ("no staleness hazard").
- With failures, the unconditioned `RunningDropsInstalled` fails for one
  more reason than `net_drop_running` shows: `stop` returns at the first
  failed delete (`network_drop.go:245`) and reports the error, leaving
  rules that a later destroy never removes (hence
  `CleanDestroyLeavesNoRules` is conditioned on the reported success).
- With `MaxFail = 1`, `DestroyRestoresHosts` fails even for a single DNS
  experiment. When the backup was never made, `cat <hosts>-<uid> >
  <hosts>` truncates the hosts file before `cat` fails, and `stop` reports
  "recovered" (`network_dns.go:148-153`).
- `getAvailableAndTotalV1` returns the `cgroups.Load` error instead of
  falling back to the host figures (`part_000:81-84`). A target that has
  exited on a v1 host reaches it.
- A cgroup removed and created anew during the sampler's sleep gives a
  negative sample (`network_drop.go:348`, `:449`).

### Bounds

| model | constants | why they are enough |
|---|---|---|
| CpuQuota | two cgroups, quotas {1, 3}, periods {2, 4}, NumCPU 4, 2 environment steps, 2 calls | Ratios 1/4, 1/2, 3/4 and 3/2 cover: rounding to 0 and the floor, a half rounded up, and a fraction above one core. Two environment steps allow a move plus a removal or a rewrite inside one call. |
| MemLimit | two cgroups, limits {1, 2}, charges up to 2, host 8/3/2, 2 environment steps, 2 calls | A limit with room, a full cgroup, and cache that tips available above total. |
| CpuUsage | two cgroups, counters up to 3, 2 host cores, indices 0..3, 3 environment steps | Enough to burn, move and recreate inside one window. Index 2 is the boundary and 3 is past it. |
| NetworkDrop | two experiments, one match, all traffic directions, MaxFail 0 or 2 | Two experiments with equal rules are the shared-rule case. Two failures reach a failure inside a rollback. |
| DnsHosts | two experiments (symmetric), domains {d1, d2}, ips {i1, i2, bad}, a base file with a plain entry and a leftover `#chaosblade` line | Both appliers, the grep hit, the bad ip that `Add` rejects, and a failure in each command. |
| FileAppend | one experiment, count up to 2, 2 ticks, MaxFail 2 (1 for the violation) | The file absent or holding an original line, the directory absent or present, every flag combination, a failure at each command, and ticks before and after destroy starts. Two experiments on one file are not checked (see the hazards): each backs up the whole file, so a later backup may hold an earlier experiment's lines. |

Symmetry over the cgroups (or the experiments) is used where the
properties do not name one of them.

## 4. Proofs (checked by `tlapm`)

### `CpuQuotaProofs.tla`

Assumptions: `HostAssumption` (Root, Exited and the cgroups are distinct;
`MaxEnv` is a natural number) and `CpuQuotaAssumption` (NumCPU > 0; quotas
and periods are positive naturals; `MaxCalls` is a natural number; `Max` is
not a number). These are what the code can rely on: the kernel never
writes a period of 0 into `cpu.max`.

- `THEOREM TypeCorrect == Spec => []TypeOK`. It rests on `TypeInit` and
  `TypeStep`, with one step per action, and on these lemmas:
  - `EntitlementType` and `ReturnType`: the answers are records of the
    right kind.
  - `RoundBounds`: the rounding stays in `0..q+1`.
- `THEOREM QuiescentCorrect == Spec => []QuiescentCallMatchesEntitlement`,
  for every number of cgroups, every quota and period set, and every bound.
  It uses the inductive invariant `IInv`, which conjoins:
  - TypeOK;
  - `HostInv`: the target is in a live cgroup, in the root, or has
    exited;
  - the V2 steps (`findPath`, `cpuQuota`) are taken only on a unified
    layout, and the V1 tier only on another layout;
  - while no environment step has happened, the path a call found is the
    target's cgroup and the target has not exited;
  - the property itself.

  `QuiescentCallMatchesEntitlement` alone is not inductive. A step of
  `CPUQuota` needs to know that `path` is still the target's cgroup and
  that `cpu.max` is readable there. `IInv` was checked with TLC on the
  `cpu_quota` instance before it was proved. The arithmetic core is
  `QuotaToCntIsSpec`: `DefaultRoundFunc` (integer halves-up rounding)
  followed by the floor equals `SpecCpuCount`, the spec's nearest whole
  core. It is derived from `RoundIsNearest` and `NearestUnique`.
  `DetectV2IffUnified` shows that the detector answers V2 exactly on a
  unified layout.

### `FileAppendProofs.tla`

Assumption `FileAppendAssumption`: the original line is not an
experiment, `NoFile` is not a sequence of lines, `MaxCount` is positive,
`MaxTicks` and `MaxFail` are naturals.

- `THEOREM TypeCorrect == Spec => []TypeOK`, for every set of experiments
  and every bound. `TypeStep` has one case per action and one per
  disjunct; `AppendedType` shows that appending `n` copies of a line keeps
  the file a sequence of lines.
- `THEOREM CleanDestroyCorrect`: with one experiment `e0`,
  `Spec => []CleanDestroyRemovesAppendedLines` for every count, tick and
  failure bound. The property alone is not inductive (a `Tick` after
  the restore would break it). The inductive invariant `IInv(e0)` adds:
  - the backup never holds one of e0's lines (it is taken before any echo);
  - the ticker runs only while the experiment is `running`, so `Destroy`,
    which kills it, comes before every restore step;
  - before the first echo, and after the backup is copied back, the file
    holds none of e0's lines.

  `IInv` was checked with TLC on the `file_append` instance first. The
  theorem needs a single experiment: with two, the second one's backup
  copy may hold the first one's lines, which is the hazard at
  `file_append.go:296`.

### `DnsHostsProofs.tla`

Assumption `DnsHostsAssumption`: the bad ips are ips, and the base hosts
file holds entries whose plain lines have an ip address.

- `THEOREM TypeCorrect == Spec => []TypeOK`, for every number of
  experiments: the hosts file only holds `#chaosblade` lines and plain
  entries with an ip address. The inductive invariant `TInv` adds that the
  replace applier's snapshot and every backup are such files too, because
  `WriteHosts` writes the snapshot back and `Destroy` the backup.
  `AddReplacingLines` shows that `Add` keeps a file well formed when the ip
  passed the check.

### `NetworkDropProofs.tla`

Assumption `NetworkDropAssumption`: the set of experiments is finite,
`NoMatch` is not a match, and `MaxFail` is a natural number. Finiteness is
needed because the argument counts experiments.

The argument is a count of owners. An experiment *holds* the `k`-th rule
of its command list (`Holds(e, k)`, `Holders(r)`) under three conditions:
- its start has attempted that append;
- its stop has not yet reached that delete;
- if it is destroyed, its destroy reported a failure.

A rule's instances in iptables are never more than its holders. This is
`Count`, `rules[r] <= Cardinality(Holders(r))`. It holds because:
- an append that succeeds adds an instance and makes the experiment a
  holder;
- a delete that succeeds removes an instance while its experiment stops
  holding the rule;
- a failed command, or a delete that removes another experiment's
  instance, only lowers the count.

`IInv` conjoins the types (`TypeRest`), the command indices (`Local`) and
`Count`. `RuleAtInjective` (an experiment's commands name distinct rules)
and the lemmas `AppendStep`/`DeleteStep` carry the counting. There is one
step lemma per action.

- `THEOREM TypeCorrect == Spec => []TypeOK`, for every finite set of
  experiments and every failure bound. TypeOK bounds each rule's count by
  the number of experiments, which is not inductive by itself: it follows
  from `Count`.
- `THEOREM CleanDestroyCorrect == Spec => []CleanDestroyLeavesNoRules`.
  When every experiment is destroyed with a successful answer, no rule has
  a holder, so by `Count` none is installed. This holds with failures too.
- `THEOREM RunningCorrect == Spec => []RunningDropsInstalledWhileNoFailure`.
  While no command has failed the count is exact (`Exact`). `NInv` adds
  `Shape` and `NoFail`:
  - `Shape`: an experiment without a match has no commands;
  - `NoFail`: without a failure no rollback is nested, and a running
    experiment has appended all its rules;
  - so every rule of a running experiment has a holder and is installed.

  With a failure the exact count is lost. A rollback then deletes an
  instance a running experiment relies on: that is the `net_drop_running`
  violation.

`IInv` and `NInv` were checked with TLC (two experiments, MaxFail 3)
before they were proved.

### `MemLimitProofs.tla`

Assumptions: `HostAssumption` and `MemLimitAssumption`:
- the limits are in `1..MemCap`;
- the host figures are naturals with free plus cache at most total;
- `Max` is not a number.

The proof cites these one fact at a time (`MemConstants`).

- `THEOREM TypeCorrect == Spec => []TypeOK`. `TypeStep` has one case per
  action. Its core is that `MemoryLimit` moves on only with a numeric
  limit, so `limit` is never `Max`.
- `THEOREM QuiescentCorrect == Spec => []QuiescentMemMatchesEntitlement`,
  for every set of cgroups, limits, charges and host figures. The
  inductive invariant `IInv` conjoins:
  - TypeOK;
  - `HostInv`: the target is in a live cgroup, in the root, or has exited;
  - the V2 steps run only on a unified layout, and the V1 step only on
    another;
  - while no environment step has happened since the call began:
    - the path read is the target's cgroup;
    - after `MemoryLimit`, the target is in a live cgroup and `limit` is
      its `memory.max`;
    - after `memory.current`, cache counts and `usage` is its charge;
  - the property itself.

  The property alone is not inductive. The step that returns from
  `memory.stat` needs what the three earlier reads saw. `PathFacts`:
  - on a unified host, the target's files are readable exactly when it
    is in a live cgroup;
  - otherwise it sits in the root, whose limit is undefined, so every
    fallback returns the host figures the spec asks for.

  `IdleStep` factors out the returns. `IInv` was checked with TLC on the
  `mem_limit` instance first (1,874,452 states).

### `CpuUsageProofs.tla`

Assumptions: `HostAssumption` and `CpuUsageAssumption`. The counters'
cap, the host's cores and percent, `cpuCount` (positive) and the call
bound are naturals. The proof cites these one fact at a time
(`CpuConstants`).

- `THEOREM TypeCorrect == Spec => []TypeOK`. `TInv` adds two facts to
  TypeOK:
  - `Bounds`: every cgroup's counter and the ghost `burnt` are at most
    the root's counter. `Burn` adds to a cgroup and to the root at once,
    and its guard caps only the root's counter, so this is what keeps
    every counter under the cap.
  - `HostInv`: the target is in a live cgroup, in the root, or has
    exited.

  `CallerTInv` covers all of the caller's steps. `BurnTInv` and
  `ReorganizeTInv` cover the environment's.
- `THEOREM QuiescentCorrect == Spec => []QuiescentSampleMatchesUse`, for
  every set of cgroups, cap and core count. The inductive invariant
  `QInv` conjoins:
  - `TInv`;
  - `HostNoPid`: the host tier runs only without a pid;
  - `Stat2Unified`: the v2 window is open only on a unified hierarchy;
  - while no reorganisation has happened since the call began:
    - `PathIsTarget`: the path read is the target's cgroup;
    - `NothingBurntYet`: the ghost is 0 before the window opens;
    - `WindowAccounts`: the path's counter is the first reading plus
      `burnt`;
  - the property itself.

  `EnvironmentQInv` covers the environment. A burn adds the same amount
  to the path's counter and to `burnt` exactly when the burning cgroup is
  the target's or the root.

  `TargetReadable` covers the two fallbacks:
  - the undisturbed target's cpu.stat is readable on a unified host, so
    the fallback from `stat2` to v1 happens only after a reorganisation;
  - its v1 total is its counter.

  `QInv` was checked with TLC on the `cpu_usage` instance first
  (4,348,084 states).

What stays with TLC:
- `CleanDestroyRemovesAppendedLines` (FileAppend) is proved for one
  experiment; TLC checks it with the ticker interleaved with destroy.
- Every violation, since a counterexample is TLC's to find.
- Liveness, of which the code has none to check.

## 5. Not modelled

- **Time travel executor** (`exec/time/time_travel.go`). It disables NTP,
  sets the clock and on destroy re-enables NTP and runs `hwclock`. Its
  hazards are listed in PROJECT.json: a failed `date` after
  `timedatectl set-ntp false` leaves NTP off (`:141`), and stop returns
  before `hwclock` when re-enabling NTP fails (`:162`). All of the
  project's runs are spent on other questions, so it is not modelled yet.
- **`cpu.max` and `memory.max` contents the kernel never writes** (a wrong
  token count, non-numeric text). They are parse errors on a path with no
  interleaving.
- **`memory.max` of 0.** The code treats it as unlimited.
- **The context values.** These are `cgroup-root`, whose absence makes
  `cgroupRoot.(string)` panic, and `cpuCount`. The caller sets them outside
  the repository.
- **Version and build metadata, the Makefile, and the Darwin/Windows
  stubs.** They keep no state that changes at run time.
