---------------------------- MODULE NetworkDrop ----------------------------
(***************************************************************************)
(* The network drop executor (exec/network, NetworkDropExecutor): create   *)
(* appends, for each chain of the traffic direction, a tcp then a udp      *)
(* DROP rule (iptables -A); destroy deletes them in the same order         *)
(* (iptables -D). A failed tcp append runs stop and returns; a failed udp  *)
(* append runs stop and goes on with the next chain. stop returns at the   *)
(* first failed delete.                                                    *)
(*                                                                         *)
(* The iptables table is a multiset of rules: -A adds an instance even     *)
(* when an equal rule is there, -D removes one instance and fails when     *)
(* there is none. Experiments run as separate blade invocations and their  *)
(* iptables commands interleave. An iptables command may also fail for a   *)
(* reason of its own (the xtables lock held by another process), at most   *)
(* MaxFail times in a behaviour.                                           *)
(***************************************************************************)
EXTENDS Naturals, Sequences, FiniteSets

CONSTANTS
    Exps,     \* the experiments (blade create / destroy with one uid each)
    Matches,  \* the match flags an experiment may give (-s, -d, ports ...)
    NoMatch,  \* no ip, port or string flag at all
    MaxFail   \* bound on the iptables commands that fail on their own

ASSUME NetworkDropAssumption ==
    /\ IsFiniteSet(Exps)
    /\ NoMatch \notin Matches
    /\ MaxFail \in Nat

VARIABLES
    rules,   \* rules[r]: how many instances of rule r the table holds
    stage,   \* stage[e]: "new", "creating", "running", "failed",
             \*           "destroying" or "destroyed"
    flags,   \* flags[e]: the match and network-traffic flags of e
    sIdx,    \* sIdx[e]: the next command of start's loop
    dIdx,    \* dIdx[e]: the next command of stop's loop
    nested,  \* nested[e]: start is inside the stop it calls after a failed
             \*            tcp ("tcpFail") or udp ("udpFail") append
    resp,    \* resp[e]: the success of the last response
    fails    \* number of commands that failed on their own

vars == <<rules, stage, flags, sIdx, dIdx, nested, resp, fails>>

Traffics == {"in", "out", "both"}
Flags == [match : Matches \cup {NoMatch}, traffic : Traffics]
Rules == [chain : {"INPUT", "OUTPUT"}, proto : {"tcp", "udp"},
          match : Matches \cup {NoMatch}]
Stages == {"new", "creating", "running", "failed", "destroying", "destroyed"}

\* netFlows: "in" and "out" select one chain, anything else both.
NetFlows(t) ==
    CASE t = "in"  -> <<"INPUT">>
      [] t = "out" -> <<"OUTPUT">>
      [] OTHER     -> <<"INPUT", "OUTPUT">>

\* The loops of start and stop run two commands per chain.
NumCmds(f) == 2 * Len(NetFlows(f.traffic))

\* The rule of the k-th command: tcp then udp for each chain in turn.
RuleAt(f, k) ==
    [chain |-> NetFlows(f.traffic)[(k + 1) \div 2],
     proto |-> IF k % 2 = 1 THEN "tcp" ELSE "udp",
     match |-> f.match]

\* The rules of an experiment with flags f.
RulesOf(f) == {RuleAt(f, k) : k \in 1..NumCmds(f)}

TypeOK ==
    /\ rules \in [Rules -> 0..Cardinality(Exps)]
    /\ stage \in [Exps -> Stages]
    /\ flags \in [Exps -> Flags]
    /\ sIdx \in [Exps -> 1..5]
    /\ dIdx \in [Exps -> 1..5]
    /\ nested \in [Exps -> {"none", "tcpFail", "udpFail"}]
    /\ resp \in [Exps -> BOOLEAN]
    /\ fails \in 0..MaxFail

Init ==
    /\ rules = [r \in Rules |-> 0]
    /\ stage = [e \in Exps |-> "new"]
    /\ flags \in [Exps -> Flags]
    /\ sIdx = [e \in Exps |-> 1]
    /\ dIdx = [e \in Exps |-> 1]
    /\ nested = [e \in Exps |-> "none"]
    /\ resp = [e \in Exps |-> TRUE]
    /\ fails = 0

(***************************************************************************)
(* iptables.                                                               *)
(***************************************************************************)
\* A command that fails on its own.
Spurious == fails < MaxFail /\ fails' = fails + 1

\* iptables -A: the rule is appended.
IptablesAppend(r) == rules' = [rules EXCEPT ![r] = @ + 1] /\ UNCHANGED fails

\* iptables -D: one instance of the rule is deleted.
IptablesDelete(r) == rules[r] > 0 /\ rules' = [rules EXCEPT ![r] = @ - 1] /\ UNCHANGED fails

\* iptables -D fails: no such rule, or a failure of its own.
IptablesDeleteFails(r) ==
    /\ \/ rules[r] = 0 /\ UNCHANGED fails
       \/ rules[r] > 0 /\ Spurious
    /\ UNCHANGED rules

(***************************************************************************)
(* blade create: Exec, then start.                                         *)
(***************************************************************************)
\* Exec with the flags of the experiment; start refuses an experiment
\* with no ip, port or string flag.
Create(e) ==
    /\ stage[e] = "new"
    /\ \/ /\ flags[e].match = NoMatch
          /\ stage' = [stage EXCEPT ![e] = "failed"]
          /\ resp' = [resp EXCEPT ![e] = FALSE]
       \/ /\ flags[e].match # NoMatch
          /\ stage' = [stage EXCEPT ![e] = "creating"]
          /\ UNCHANGED resp
    /\ UNCHANGED <<rules, flags, sIdx, dIdx, nested, fails>>

\* One iteration half of start's loop: iptables -A of the next rule. A
\* failure calls stop (from its first command); after a tcp failure start
\* then returns, after a udp failure it goes on with the next chain.
StartAppend(e) ==
    LET k == sIdx[e]
        r == RuleAt(flags[e], k)
    IN  /\ stage[e] = "creating"
        /\ nested[e] = "none"
        /\ k <= NumCmds(flags[e])
        /\ \/ /\ IptablesAppend(r)
              /\ sIdx' = [sIdx EXCEPT ![e] = k + 1]
              /\ resp' = [resp EXCEPT ![e] = TRUE]
              /\ UNCHANGED <<nested, dIdx>>
           \/ /\ Spurious
              /\ UNCHANGED rules
              /\ resp' = [resp EXCEPT ![e] = FALSE]
              /\ nested' = [nested EXCEPT ![e] =
                              IF r.proto = "tcp" THEN "tcpFail" ELSE "udpFail"]
              /\ dIdx' = [dIdx EXCEPT ![e] = 1]
              /\ sIdx' = [sIdx EXCEPT ![e] = k + 1]
        /\ UNCHANGED <<stage, flags>>

\* (A start whose loop ends one command early.)
StartReturnEarly(e) ==
    /\ stage[e] = "creating"
    /\ nested[e] = "none"
    /\ sIdx[e] >= NumCmds(flags[e])
    /\ stage' = [stage EXCEPT ![e] = IF resp[e] THEN "running" ELSE "failed"]
    /\ UNCHANGED <<rules, flags, sIdx, dIdx, nested, resp, fails>>

\* start returns the last response once its loop is done.
StartReturn(e) ==
    /\ stage[e] = "creating"
    /\ nested[e] = "none"
    /\ sIdx[e] > NumCmds(flags[e])
    /\ stage' = [stage EXCEPT ![e] = IF resp[e] THEN "running" ELSE "failed"]
    /\ UNCHANGED <<rules, flags, sIdx, dIdx, nested, resp, fails>>

\* The stop that start calls returns (its response is dropped): start
\* returns after a tcp failure and goes on after a udp failure.
EndRollback(e) ==
    /\ nested' = [nested EXCEPT ![e] = "none"]
    /\ stage' = [stage EXCEPT ![e] =
                   IF nested[e] = "tcpFail" THEN "failed" ELSE "creating"]

\* One command of the stop that start calls: iptables -D of the next rule.
RollbackDelete(e) ==
    LET k == dIdx[e]
        r == RuleAt(flags[e], k)
    IN  /\ stage[e] = "creating"
        /\ nested[e] # "none"
        /\ k <= NumCmds(flags[e])
        /\ \/ /\ IptablesDelete(r)
              /\ dIdx' = [dIdx EXCEPT ![e] = k + 1]
              /\ UNCHANGED <<stage, nested>>
           \/ /\ IptablesDeleteFails(r)
              /\ EndRollback(e)
              /\ UNCHANGED dIdx
        /\ UNCHANGED <<flags, sIdx, resp>>

\* The stop that start calls runs to the end of its loop.
RollbackReturn(e) ==
    /\ stage[e] = "creating"
    /\ nested[e] # "none"
    /\ dIdx[e] > NumCmds(flags[e])
    /\ EndRollback(e)
    /\ UNCHANGED <<rules, flags, sIdx, dIdx, resp, fails>>

(***************************************************************************)
(* blade destroy: Exec with the destroy flag, then stop.                   *)
(***************************************************************************)
\* (A stop whose loop counts from 0.)
DestroyFromZero(e) ==
    /\ stage[e] \in {"running", "failed"}
    /\ stage' = [stage EXCEPT ![e] = "destroying"]
    /\ dIdx' = [dIdx EXCEPT ![e] = 0]
    /\ UNCHANGED <<rules, flags, sIdx, nested, resp, fails>>

Destroy(e) ==
    /\ stage[e] \in {"running", "failed"}
    /\ stage' = [stage EXCEPT ![e] = "destroying"]
    /\ dIdx' = [dIdx EXCEPT ![e] = 1]
    /\ UNCHANGED <<rules, flags, sIdx, nested, resp, fails>>

\* (A stop that reports success after a failed delete.)
StopDeleteIgnoreError(e) ==
    LET k == dIdx[e]
        r == RuleAt(flags[e], k)
    IN  /\ stage[e] = "destroying"
        /\ k <= NumCmds(flags[e])
        /\ \/ /\ IptablesDelete(r)
              /\ dIdx' = [dIdx EXCEPT ![e] = k + 1]
              /\ resp' = [resp EXCEPT ![e] = TRUE]
              /\ UNCHANGED stage
           \/ /\ IptablesDeleteFails(r)
              /\ stage' = [stage EXCEPT ![e] = "destroyed"]
              /\ resp' = [resp EXCEPT ![e] = TRUE]
              /\ UNCHANGED dIdx
        /\ UNCHANGED <<flags, sIdx, nested>>

\* One command of stop: iptables -D; stop returns at the first failure.
StopDelete(e) ==
    LET k == dIdx[e]
        r == RuleAt(flags[e], k)
    IN  /\ stage[e] = "destroying"
        /\ k <= NumCmds(flags[e])
        /\ \/ /\ IptablesDelete(r)
              /\ dIdx' = [dIdx EXCEPT ![e] = k + 1]
              /\ resp' = [resp EXCEPT ![e] = TRUE]
              /\ UNCHANGED stage
           \/ /\ IptablesDeleteFails(r)
              /\ stage' = [stage EXCEPT ![e] = "destroyed"]
              /\ resp' = [resp EXCEPT ![e] = FALSE]
              /\ UNCHANGED dIdx
        /\ UNCHANGED <<flags, sIdx, nested>>

\* stop returns the last response once its loop is done.
StopReturn(e) ==
    /\ stage[e] = "destroying"
    /\ dIdx[e] > NumCmds(flags[e])
    /\ stage' = [stage EXCEPT ![e] = "destroyed"]
    /\ UNCHANGED <<rules, flags, sIdx, dIdx, nested, resp, fails>>

Next ==
    \E e \in Exps :
        \/ Create(e)
        \/ StartAppend(e)
        \/ StartReturn(e)
        \/ RollbackDelete(e)
        \/ RollbackReturn(e)
        \/ Destroy(e)
        \/ StopDelete(e)
        \/ StopReturn(e)

Spec == Init /\ [][Next]_vars

(***************************************************************************)
(* Properties.                                                             *)
(***************************************************************************)

\* While an experiment whose create succeeded is running, every DROP rule
\* it asked for is in the table, however the commands of the experiments
\* interleave: each running experiment holds an instance of each of its
\* rules (start and stop of NetworkDropExecutor).
RunningDropsInstalled ==
    \A r \in Rules :
        rules[r] >= Cardinality({e \in Exps : stage[e] = "running"
                                              /\ r \in RulesOf(flags[e])})

\* As long as no iptables command has failed, every running experiment
\* holds an instance of each of its rules, however the commands of the
\* experiments interleave.
RunningDropsInstalledWhileNoFailure ==
    fails = 0 => RunningDropsInstalled

\* Once every experiment has been destroyed and each destroy reported
\* success, no DROP rule is left in the table: a stop that stops early
\* (network_drop.go, the returns in stop's loop) or a rollback that took
\* another experiment's rule must show up as a failed destroy.
CleanDestroyLeavesNoRules ==
    (\A e \in Exps : stage[e] = "destroyed" /\ resp[e])
        => \A r \in Rules : rules[r] = 0

=============================================================================
