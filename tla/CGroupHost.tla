---------------------------- MODULE CGroupHost ----------------------------
(***************************************************************************)
(* The host the resource resolvers read from: how its control groups are   *)
(* mounted (fixed while the agent runs) and the cgroup membership of the   *)
(* target process, which the kernel and the container runtime change      *)
(* while a resolver is between two of its file reads.                      *)
(*                                                                         *)
(* The detection of the cgroup version (DetectCGroupVersion) is a pure     *)
(* function of the mount layout and of the text of /proc/self/mountinfo.   *)
(* A mountinfo line is abstracted to the fields the detector looks at:     *)
(* its mount point (the cgroup root itself, a directory below it, or       *)
(* elsewhere), its filesystem type, and the number of optional fields     *)
(* ("shared:N", "master:N") that precede the "-" separator, since that     *)
(* number decides what strings.Fields(line)[6] is.                         *)
(***************************************************************************)
EXTENDS Naturals, FiniteSets

CONSTANTS
    Cgroups,  \* the non-root cgroups the target may be moved between
    Root,     \* the root cgroup of the hierarchy (always exists)
    Exited,   \* marker: the target process has exited, /proc/<pid> is gone
    MaxEnv    \* bound on the number of environment steps in a behaviour

ASSUME HostAssumption ==
    /\ Root \notin Cgroups
    /\ Exited \notin Cgroups \cup {Root}
    /\ MaxEnv \in Nat

VARIABLES
    layout,    \* how cgroups are mounted: "unified", "hybrid" or "legacy"
    optFields, \* number of optional fields in the mountinfo lines (0 or 1)
    procCg,    \* the cgroup /proc/<pid>/cgroup names, or Exited
    live,      \* the non-root cgroup directories that exist
    envSteps   \* number of environment steps taken so far

hostVars == <<layout, optFields, procCg, live, envSteps>>

Layouts == {"unified", "hybrid", "legacy"}

AllCgroups == Cgroups \cup {Root}

\* The cgroup lines of /proc/self/mountinfo for each layout: unified has
\* cgroup2 at the root; hybrid has a tmpfs root with cgroup2 and the v1
\* controllers mounted below it; legacy has only v1 controllers below it.
MountTable(l) ==
    CASE l = "unified" -> {[point |-> "root", fs |-> "cgroup2"]}
      [] l = "hybrid"  -> {[point |-> "root",  fs |-> "tmpfs"],
                           [point |-> "below", fs |-> "cgroup2"],
                           [point |-> "below", fs |-> "cgroup"]}
      [] l = "legacy"  -> {[point |-> "root",  fs |-> "tmpfs"],
                           [point |-> "below", fs |-> "cgroup"]}

\* <root>/cgroup.controllers exists only on a unified hierarchy.
HasControllersFile == layout = "unified"

\* /proc/<pid>/cgroup has a "0::<path>" line when cgroup2 is mounted.
HasUnifiedLine == layout \in {"unified", "hybrid"}

\* strings.Fields(line)[6] of a mountinfo line: "36 35 98:0 / <point>
\* <opts> [optional fields...] - <fstype> <source> <superopts>". Field 6 is
\* the first optional field, or the "-" separator when there is none.
Field6(line) == IF optFields = 0 THEN "-" ELSE "shared"

\* strings.HasPrefix(mountPoint, cgroupRoot)
UnderRoot(line) == line.point \in {"root", "below"}

\* DetectCGroupVersion: cgroup.controllers, then a cgroup2 mount under the
\* root, then any cgroup v1 mount, else V1 with a warning.
DetectCGroupVersion ==
    IF HasControllersFile THEN "V2"
    ELSE IF \E line \in MountTable(layout) :
                Field6(line) = "cgroup2" /\ UnderRoot(line) THEN "V2"
    ELSE IF \E line \in MountTable(layout) : Field6(line) = "cgroup" THEN "V1"
    ELSE "V1"

\* The detection the spec (section 4.1) describes: the same order, with
\* the filesystem type of each mount entry.
SpecDetectVersion ==
    IF HasControllersFile THEN "V2"
    ELSE IF \E line \in MountTable(layout) :
                line.fs = "cgroup2" /\ UnderRoot(line) THEN "V2"
    ELSE "V1"

\* DetectCGroupVersion finds the version the spec's algorithm finds: a
\* cgroup2 mount under the root means V2 (the mountinfo scan of
\* DetectCGroupVersion).
DetectFollowsSpec == DetectCGroupVersion = SpecDetectVersion

HostTypeOK ==
    /\ layout \in Layouts
    /\ optFields \in {0, 1}
    /\ procCg \in AllCgroups \cup {Exited}
    /\ live \in SUBSET Cgroups
    /\ envSteps \in 0..MaxEnv

HostInit ==
    /\ layout \in Layouts
    /\ optFields \in {0, 1}
    /\ live \in SUBSET Cgroups
    /\ procCg \in live \cup {Root}
    /\ envSteps = 0

(***************************************************************************)
(* Environment steps on the membership and the directories. Each one is    *)
(* completed by the component module with what it does to that           *)
(* component's files.                                                      *)
(***************************************************************************)
EnvStep == envSteps < MaxEnv /\ envSteps' = envSteps + 1

\* The runtime writes the pid into c/cgroup.procs.
Migrate(c) ==
    /\ EnvStep
    /\ procCg \notin {Exited, c}
    /\ c \in live \cup {Root}
    /\ procCg' = c
    /\ UNCHANGED <<layout, optFields, live>>

\* The target process exits; /proc/<pid>/cgroup can no longer be read.
Exit ==
    /\ EnvStep
    /\ procCg # Exited
    /\ procCg' = Exited
    /\ UNCHANGED <<layout, optFields, live>>

\* rmdir of a cgroup; the kernel refuses it (EBUSY) while it has members.
Rmdir(c) ==
    /\ EnvStep
    /\ c \in live
    /\ procCg # c
    /\ live' = live \ {c}
    /\ UNCHANGED <<layout, optFields, procCg>>

\* mkdir of a cgroup at a path that does not exist.
Mkdir(c) ==
    /\ EnvStep
    /\ c \in Cgroups \ live
    /\ live' = live \cup {c}
    /\ UNCHANGED <<layout, optFields, procCg>>

=============================================================================
