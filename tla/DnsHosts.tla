----------------------------- MODULE DnsHosts ------------------------------
(***************************************************************************)
(* The dns executor (exec/network, NetworkDnsExecutor). create copies the  *)
(* hosts file to <hosts>-<uid>, then either appends the line               *)
(* "<ip> <domain> #chaosblade" unless grep finds it already (default       *)
(* applier), or reads the hosts file, drops every entry of the domain,     *)
(* adds <ip> <domain> and writes the whole file back (replace applier).    *)
(* destroy runs "cat <hosts>-<uid> > <hosts>" in a shell.                  *)
(*                                                                         *)
(* The hosts file is a set of entries; an experiment names one domain.     *)
(* Each command of an experiment is a step, and the commands of            *)
(* experiments run as separate blade invocations interleave. A command     *)
(* may fail for a reason of its own (a missing tool, a full disk), at most *)
(* MaxFail times in a behaviour.                                           *)
(***************************************************************************)
EXTENDS Naturals, FiniteSets

CONSTANTS
    Exps,       \* the experiments (one uid each)
    Domains,    \* the domains an experiment may name
    Ips,        \* the ips an experiment may give
    BadIps,     \* the ones that are not ip addresses
    Base,       \* the entries the hosts file may hold before any experiment
    NoBackup,   \* there is no file <hosts>-<uid>
    MaxFail     \* bound on the commands that fail on their own

Entries == [ip : Ips, dom : Domains, blade : BOOLEAN]

ASSUME DnsHostsAssumption ==
    /\ BadIps \subseteq Ips
    /\ \A x \in Base : x.blade \/ x.ip \notin BadIps
    /\ Base \subseteq Entries
    /\ MaxFail \in Nat

VARIABLES
    hosts,     \* the entries of the hosts file
    orig,      \* the hosts file before the first experiment (history)
    stage,     \* stage[e]: "new", "grepping", "appending", "reading",
               \*           "writing", "running", "failed" or "destroyed"
    flags,     \* flags[e]: the domain, ip and replace flags of e
    backups,   \* backups[e]: the content of <hosts>-<uid>, or NoBackup
    snapshot,  \* snapshot[e]: the hosts file the replace applier read
    fails      \* number of commands that failed on their own

vars == <<hosts, orig, stage, flags, backups, snapshot, fails>>

Flags == [dom : Domains, ip : Ips, replace : BOOLEAN]
Stages == {"new", "grepping", "appending", "reading", "writing",
           "running", "failed", "destroyed"}

\* createDnsPair: the line "<ip> <domain> #chaosblade".
DnsPair(f) == [ip |-> f.ip, dom |-> f.dom, blade |-> TRUE]

\* customHosts.Add(ip, domain) on the hosts read: the domain is removed from
\* the lines of other ips and added to the line of ip.
AddReplacing(h, f) ==
    {x \in h : x.dom # f.dom} \cup {[ip |-> f.ip, dom |-> f.dom, blade |-> FALSE]}

\* The lines a hosts file holds: a plain entry has an ip address, a
\* chaosblade line any ip flag.
Lines == [ip : Ips \ BadIps, dom : Domains, blade : {FALSE}]
           \cup [ip : Ips, dom : Domains, blade : {TRUE}]

TypeOK ==
    /\ hosts \in SUBSET Lines
    /\ orig \in SUBSET Base
    /\ stage \in [Exps -> Stages]
    /\ flags \in [Exps -> Flags]
    /\ backups \in [Exps -> (SUBSET Entries) \cup {NoBackup}]
    /\ snapshot \in [Exps -> SUBSET Entries]
    /\ fails \in 0..MaxFail

Init ==
    /\ orig \in SUBSET Base
    /\ hosts = orig
    /\ stage = [e \in Exps |-> "new"]
    /\ flags \in [Exps -> Flags]
    /\ backups = [e \in Exps |-> NoBackup]
    /\ snapshot = [e \in Exps |-> {}]
    /\ fails = 0

\* A command that fails on its own.
Spurious == fails < MaxFail /\ fails' = fails + 1

Fail(e) == stage' = [stage EXCEPT ![e] = "failed"]

(***************************************************************************)
(* blade create.                                                           *)
(***************************************************************************)
\* Exec: the tools are checked and backupHostFile copies the hosts file;
\* either failing returns. Then newDnsApplier picks the applier.
Create(e) ==
    /\ stage[e] = "new"
    /\ \/ /\ Spurious
          /\ Fail(e)
          /\ UNCHANGED backups
       \/ /\ backups' = [backups EXCEPT ![e] = hosts]
          /\ stage' = [stage EXCEPT ![e] =
                         IF flags[e].replace THEN "reading" ELSE "grepping"]
          /\ UNCHANGED fails
    /\ UNCHANGED <<hosts, orig, flags, snapshot>>

\* defaultApplier.Start: grep -q for the pair; found, the create fails.
Grep(e) ==
    /\ stage[e] = "grepping"
    /\ stage' = [stage EXCEPT ![e] =
                   IF DnsPair(flags[e]) \in hosts THEN "failed" ELSE "appending"]
    /\ UNCHANGED <<hosts, orig, flags, backups, snapshot, fails>>

\* defaultApplier.Start: echo "<pair>" >> hosts.
AppendPair(e) ==
    /\ stage[e] = "appending"
    /\ \/ Spurious /\ Fail(e) /\ UNCHANGED hosts
       \/ /\ hosts' = hosts \cup {DnsPair(flags[e])}
          /\ stage' = [stage EXCEPT ![e] = "running"]
          /\ UNCHANGED fails
    /\ UNCHANGED <<orig, flags, backups, snapshot>>

\* replaceApplier.Start: cat hosts.
ReadHosts(e) ==
    /\ stage[e] = "reading"
    /\ \/ Spurious /\ Fail(e) /\ UNCHANGED snapshot
       \/ /\ snapshot' = [snapshot EXCEPT ![e] = hosts]
          /\ stage' = [stage EXCEPT ![e] = "writing"]
          /\ UNCHANGED fails
    /\ UNCHANGED <<hosts, orig, flags, backups>>

\* (A replace applier whose Add does not check the ip.)
WriteHostsNoIpCheck(e) ==
    /\ stage[e] = "writing"
    /\ \/ Spurious /\ Fail(e) /\ UNCHANGED hosts
       \/ /\ hosts' = AddReplacing(snapshot[e], flags[e])
          /\ stage' = [stage EXCEPT ![e] = "running"]
          /\ UNCHANGED fails
    /\ UNCHANGED <<orig, flags, backups, snapshot>>

\* replaceApplier.Start: the temp file, Add (which refuses a bad ip),
\* Flush, and echo "<content>" > hosts of what was read.
WriteHosts(e) ==
    /\ stage[e] = "writing"
    /\ \/ /\ flags[e].ip \in BadIps
          /\ Fail(e)
          /\ UNCHANGED <<hosts, fails>>
       \/ /\ flags[e].ip \notin BadIps
          /\ Spurious
          /\ Fail(e)
          /\ UNCHANGED hosts
       \/ /\ flags[e].ip \notin BadIps
          /\ hosts' = AddReplacing(snapshot[e], flags[e])
          /\ stage' = [stage EXCEPT ![e] = "running"]
          /\ UNCHANGED fails
    /\ UNCHANGED <<orig, flags, backups, snapshot>>

(***************************************************************************)
(* blade destroy.                                                          *)
(***************************************************************************)
\* stop: cat <hosts>-<uid> > <hosts>. The shell truncates the hosts file
\* before cat runs; when the backup is missing cat fails with "No such file
\* or directory", which stop reports as recovered.
Destroy(e) ==
    /\ stage[e] \in {"running", "failed"}
    /\ hosts' = IF backups[e] = NoBackup THEN {} ELSE backups[e]
    /\ stage' = [stage EXCEPT ![e] = "destroyed"]
    /\ UNCHANGED <<orig, flags, backups, snapshot, fails>>

Next ==
    \E e \in Exps :
        \/ Create(e)
        \/ Grep(e)
        \/ AppendPair(e)
        \/ ReadHosts(e)
        \/ WriteHosts(e)
        \/ Destroy(e)

Spec == Init /\ [][Next]_vars

(***************************************************************************)
(* Properties.                                                             *)
(***************************************************************************)

\* Once every experiment that was created has been destroyed, the hosts
\* file is what it was before them (stop of NetworkDnsExecutor).
DestroyRestoresHosts ==
    (\A e \in Exps : stage[e] \in {"new", "destroyed"}) => hosts = orig

=============================================================================
