-------------------------- MODULE NetworkDropProofs --------------------------
(***************************************************************************)
(* Proofs about the network drop executor of module NetworkDrop, for every *)
(* finite set of experiments and match flags and every failure bound.      *)
(*                                                                         *)
(* The argument counts the holders of a rule: the experiments whose start  *)
(* has tried to append it and whose stop has not yet deleted it (or whose  *)
(* stop reported a failure). The table never holds more instances of a     *)
(* rule than it has holders, and exactly as many while no iptables command *)
(* has failed.                                                             *)
(***************************************************************************)
EXTENDS NetworkDrop, FiniteSetTheorems, TLAPS

USE NetworkDropAssumption

(***************************************************************************)
(* The rules of an experiment.                                             *)
(***************************************************************************)

\* start and stop run two or four commands.
LEMMA NumCmdsValue ==
    ASSUME NEW f \in Flags
    PROVE  NumCmds(f) \in {2, 4}
BY DEF NumCmds, NetFlows, Flags, Traffics

\* Each command of the loops names a rule of the table.
LEMMA RuleAtType ==
    ASSUME NEW f \in Flags, NEW k \in 1..NumCmds(f)
    PROVE  RuleAt(f, k) \in Rules
BY DEF RuleAt, NumCmds, NetFlows, Flags, Traffics, Rules

\* The commands of one experiment name distinct rules: a chain appears
\* once in netFlows, and each chain gets one tcp and one udp rule.
LEMMA RuleAtInjective ==
    ASSUME NEW f \in Flags, NEW k1 \in 1..NumCmds(f), NEW k2 \in 1..NumCmds(f),
           RuleAt(f, k1) = RuleAt(f, k2)
    PROVE  k1 = k2
<1>1. k1 % 2 = k2 % 2
  BY DEF RuleAt
<1>2. (k1 + 1) \div 2 = (k2 + 1) \div 2
  <2>1. NetFlows(f.traffic)[(k1 + 1) \div 2] = NetFlows(f.traffic)[(k2 + 1) \div 2]
    BY DEF RuleAt
  <2>2. CASE f.traffic \in {"in", "out"}
    <3>. NumCmds(f) = 2
      BY <2>2 DEF NumCmds, NetFlows
    <3>. QED  OBVIOUS
  <2>3. CASE f.traffic = "both"
    <3>1. NetFlows(f.traffic) = <<"INPUT", "OUTPUT">> /\ NumCmds(f) = 4
      BY <2>3 DEF NumCmds, NetFlows
    <3>2. (k1 + 1) \div 2 \in {1, 2} /\ (k2 + 1) \div 2 \in {1, 2}
      BY <3>1
    <3>. QED  BY <2>1, <3>1, <3>2
  <2>. QED  BY <2>2, <2>3 DEF Flags, Traffics
<1>. QED  BY <1>1, <1>2

(***************************************************************************)
(* The holders of a rule.                                                  *)
(***************************************************************************)

\* Experiment e may hold the instance of the rule of its k-th command:
\* start has tried to append it, and stop has not yet deleted it or has
\* reported a failure.
Holds(e, k) ==
    /\ k < sIdx[e]
    /\ stage[e] = "destroying" => dIdx[e] <= k
    /\ stage[e] = "destroyed" => ~resp[e]

\* The experiments that may hold an instance of rule r.
Holders(r) ==
    {e \in Exps : \E k \in 1..NumCmds(flags[e]) :
                     RuleAt(flags[e], k) = r /\ Holds(e, k)}

\* The type invariant but for the bounds of the counters.
TypeRest ==
    /\ rules \in [Rules -> Nat]
    /\ stage \in [Exps -> Stages]
    /\ flags \in [Exps -> Flags]
    /\ nested \in [Exps -> {"none", "tcpFail", "udpFail"}]
    /\ resp \in [Exps -> BOOLEAN]
    /\ fails \in 0..MaxFail

\* The loops of start and stop stay within their commands.
Local ==
    /\ sIdx \in [Exps -> Nat]
    /\ dIdx \in [Exps -> Nat]
    /\ \A e \in Exps : /\ sIdx[e] \in 1..NumCmds(flags[e]) + 1
                       /\ dIdx[e] \in 1..NumCmds(flags[e]) + 1

\* The table holds no more instances of a rule than the rule has holders.
Count == \A r \in Rules : rules[r] <= Cardinality(Holders(r))

IInv == TypeRest /\ Local /\ Count

\* A step of experiment e leaves the other experiments alone.
Frame(e) ==
    /\ flags' = flags
    /\ \A x \in Exps \ {e} : /\ sIdx'[x] = sIdx[x]
                             /\ dIdx'[x] = dIdx[x]
                             /\ stage'[x] = stage[x]
                             /\ resp'[x] = resp[x]

\* A set of experiments is finite and no larger than Exps.
LEMMA ExpsSubset ==
    ASSUME NEW S \in SUBSET Exps
    PROVE  /\ IsFiniteSet(S)
           /\ Cardinality(S) \in 0..Cardinality(Exps)
BY FS_Subset, FS_CardinalityType

\* When no holder of rule r loses its claim, the holders can only grow.
LEMMA HoldersGrow ==
    ASSUME NEW e \in Exps, NEW r, Frame(e),
           \A k \in 1..NumCmds(flags[e]) :
               RuleAt(flags[e], k) = r /\ Holds(e, k) => Holds(e, k)'
    PROVE  Holders(r) \subseteq Holders(r)'
BY DEF Frame, Holders, Holds

\* Count survives a step in which no rule gains an instance and no holder
\* loses its claim.
LEMMA GrowStep ==
    ASSUME Count, NEW e \in Exps, Frame(e),
           \A k \in 1..NumCmds(flags[e]) : Holds(e, k) => Holds(e, k)',
           rules \in [Rules -> Nat], rules' \in [Rules -> Int],
           \A r \in Rules : rules'[r] <= rules[r]
    PROVE  Count'
<1> SUFFICES ASSUME NEW r \in Rules PROVE rules'[r] <= Cardinality(Holders(r)')
  BY DEF Count
<1>1. Holders(r) \subseteq Holders(r)'
  BY HoldersGrow
<1>2. Holders(r)' \subseteq Exps
  BY DEF Holders
<1>3. Cardinality(Holders(r)) <= Cardinality(Holders(r)')
  BY <1>1, <1>2, ExpsSubset, FS_Subset
<1>4. Cardinality(Holders(r)) \in Nat /\ Cardinality(Holders(r)') \in Nat
  BY <1>2, ExpsSubset DEF Holders
<1>. QED  BY <1>3, <1>4 DEF Count

\* The other experiments hold what they held.
LEMMA HoldersOthers ==
    ASSUME NEW e \in Exps, NEW r, Frame(e), NEW x \in Exps \ {e}
    PROVE  x \in Holders(r)' <=> x \in Holders(r)
BY DEF Frame, Holders, Holds

\* Count survives iptables -A of the rule of e's K-th command, which makes
\* e a holder of that rule.
LEMMA AppendStep ==
    ASSUME Count, rules \in [Rules -> Nat], flags \in [Exps -> Flags],
           NEW e \in Exps, Frame(e), NEW K \in 1..NumCmds(flags[e]),
           \A k \in 1..NumCmds(flags[e]) : Holds(e, k)' <=> Holds(e, k) \/ k = K,
           \A k \in 1..NumCmds(flags[e]) : Holds(e, k) => k < K,
           rules' = [rules EXCEPT ![RuleAt(flags[e], K)] = @ + 1]
    PROVE  Count'
<1> DEFINE r0 == RuleAt(flags[e], K)
<1> SUFFICES ASSUME NEW r \in Rules PROVE rules'[r] <= Cardinality(Holders(r)')
  BY DEF Count
<1>0. /\ Holders(r) \subseteq Exps /\ Holders(r)' \subseteq Exps
      /\ IsFiniteSet(Holders(r)) /\ Cardinality(Holders(r)) \in Nat
  BY ExpsSubset DEF Holders
<1>1. CASE r # r0
  <2>1. Holders(r) \subseteq Holders(r)'
    BY HoldersGrow
  <2>2. Cardinality(Holders(r)) <= Cardinality(Holders(r)')
    BY <1>0, <2>1, ExpsSubset, FS_Subset
  <2>. QED  BY <1>0, <1>1, <2>2, ExpsSubset DEF Count
<1>2. CASE r = r0
  <2>1. e \notin Holders(r)
    BY <1>2, RuleAtInjective DEF Holders
  <2>2. e \in Holders(r)'
    <3>1. Holds(e, K)'
      OBVIOUS
    <3>2. flags'[e] = flags[e]
      BY DEF Frame
    <3>. QED  BY <1>2, <3>1, <3>2 DEF Holders
  <2>3. Holders(r)' = Holders(r) \cup {e}
    <3>1. \A x \in Exps \ {e} : x \in Holders(r)' <=> x \in Holders(r)
      BY HoldersOthers
    <3>. QED  BY <1>0, <2>1, <2>2, <3>1
  <2>4. Cardinality(Holders(r)') = Cardinality(Holders(r)) + 1
    BY <1>0, <2>1, <2>3, FS_AddElement
  <2>5. rules'[r] = rules[r] + 1
    BY <1>2, RuleAtType
  <2>. QED  BY <1>0, <2>4, <2>5 DEF Count
<1>. QED  BY <1>1, <1>2

\* Count survives a successful iptables -D, by e, of the rule of its K-th
\* command, after which e no longer holds it.
LEMMA DeleteStep ==
    ASSUME Count, rules \in [Rules -> Nat], flags \in [Exps -> Flags],
           NEW e \in Exps, Frame(e), NEW K \in 1..NumCmds(flags[e]),
           \A k \in 1..NumCmds(flags[e]) : Holds(e, k)' <=> Holds(e, k) /\ k # K,
           rules' = [rules EXCEPT ![RuleAt(flags[e], K)] = @ - 1]
    PROVE  Count'
<1> DEFINE r0 == RuleAt(flags[e], K)
<1> SUFFICES ASSUME NEW r \in Rules PROVE rules'[r] <= Cardinality(Holders(r)')
  BY DEF Count
<1>0. /\ Holders(r) \subseteq Exps /\ Holders(r)' \subseteq Exps
      /\ IsFiniteSet(Holders(r)) /\ Cardinality(Holders(r)) \in Nat
  BY ExpsSubset DEF Holders
<1>1. CASE r # r0
  <2>1. Holders(r) \subseteq Holders(r)'
    BY <1>1, HoldersGrow
  <2>2. Cardinality(Holders(r)) <= Cardinality(Holders(r)')
    BY <1>0, <2>1, ExpsSubset, FS_Subset
  <2>. QED  BY <1>0, <1>1, <2>2, ExpsSubset DEF Count
<1>2. CASE r = r0
  <2>1. Holders(r) \ {e} \subseteq Holders(r)'
    <3> SUFFICES ASSUME NEW x \in Holders(r) \ {e} PROVE x \in Holders(r)'
      OBVIOUS
    <3>. x \in Exps \ {e}
      BY <1>0
    <3>. QED  BY HoldersOthers
  <2>2. Cardinality(Holders(r) \ {e}) >= Cardinality(Holders(r)) - 1
    <3>1. CASE e \in Holders(r)
      <4>1. IsFiniteSet(Holders(r))
        BY <1>0
      <4>2. Cardinality(Holders(r) \ {e}) = Cardinality(Holders(r)) - 1
        BY <4>1, <3>1, FS_RemoveElement
      <4>. QED  BY <4>2, <1>0
    <3>2. CASE e \notin Holders(r)
      <4>. Holders(r) \ {e} = Holders(r)
        BY <3>2
      <4>. QED  BY <1>0
    <3>. QED  BY <3>1, <3>2
  <2>3. Cardinality(Holders(r) \ {e}) <= Cardinality(Holders(r)')
    BY <1>0, <2>1, ExpsSubset, FS_Subset
  <2>4. rules'[r] = rules[r] - 1
    BY <1>2, RuleAtType
  <2>. QED  BY <1>0, <2>2, <2>3, <2>4, ExpsSubset DEF Count
<1>. QED  BY <1>1, <1>2

(***************************************************************************)
(* The inductive invariant.                                                *)
(***************************************************************************)

\* The invariant gives the type: a rule has at most one instance per
\* experiment, and the loop indices stay below five.
LEMMA IInvTypeOK == IInv => TypeOK
<1> SUFFICES ASSUME IInv PROVE TypeOK
  OBVIOUS
<1>1. ASSUME NEW r \in Rules PROVE rules[r] \in 0..Cardinality(Exps)
  <2>1. Holders(r) \subseteq Exps
    BY DEF Holders
  <2>. QED  BY <1>1, <2>1, ExpsSubset DEF IInv, Count, TypeRest
<1>2. \A e \in Exps : sIdx[e] \in 1..5 /\ dIdx[e] \in 1..5
  BY NumCmdsValue DEF IInv, Local, TypeRest
<1>. QED  BY <1>1, <1>2 DEF IInv, TypeRest, Local, TypeOK

LEMMA IInvInit == Init => IInv
<1> SUFFICES ASSUME Init PROVE IInv
  OBVIOUS
<1>1. TypeRest
  BY DEF Init, TypeRest, Stages
<1>2. Local
  BY NumCmdsValue DEF Init, Local
<1>3. Count
  <2> SUFFICES ASSUME NEW r \in Rules PROVE 0 <= Cardinality(Holders(r))
    BY DEF Init, Count
  <2>1. Holders(r) \subseteq Exps
    BY DEF Holders
  <2>. QED  BY <2>1, ExpsSubset
<1>. QED  BY <1>1, <1>2, <1>3 DEF IInv

(* One lemma per action: the action keeps the invariant. *)

LEMMA CreateStep ==
    ASSUME IInv, NEW e \in Exps, Create(e)
    PROVE  IInv'
<1>. USE DEF IInv
<1>1. Frame(e)
  BY DEF Create, Frame, TypeRest, Local
<1>2. TypeRest' /\ Local'
  BY NumCmdsValue DEF Create, TypeRest, Local, Stages
<1>3. \A k \in 1..NumCmds(flags[e]) : Holds(e, k) => Holds(e, k)'
  BY DEF Create, Holds, TypeRest, Local
<1>4. rules' = rules
  BY DEF Create
<1>5. Count'
  BY <1>1, <1>3, <1>4, GrowStep DEF TypeRest
<1>. QED  BY <1>2, <1>5

LEMMA StartReturnStep ==
    ASSUME IInv, NEW e \in Exps, StartReturn(e)
    PROVE  IInv'
<1>. USE DEF IInv
<1>1. Frame(e)
  BY DEF StartReturn, Frame, TypeRest, Local
<1>2. TypeRest' /\ Local'
  BY NumCmdsValue DEF StartReturn, TypeRest, Local, Stages
<1>3. \A k \in 1..NumCmds(flags[e]) : Holds(e, k) => Holds(e, k)'
  BY DEF StartReturn, Holds, TypeRest, Local
<1>4. rules' = rules
  BY DEF StartReturn
<1>5. Count'
  BY <1>1, <1>3, <1>4, GrowStep DEF TypeRest
<1>. QED  BY <1>2, <1>5

LEMMA RollbackReturnStep ==
    ASSUME IInv, NEW e \in Exps, RollbackReturn(e)
    PROVE  IInv'
<1>. USE DEF IInv
<1>1. Frame(e)
  BY DEF RollbackReturn, Frame, TypeRest, Local, EndRollback
<1>2. TypeRest' /\ Local'
  BY NumCmdsValue DEF RollbackReturn, TypeRest, Local, Stages, EndRollback
<1>3. \A k \in 1..NumCmds(flags[e]) : Holds(e, k) => Holds(e, k)'
  BY DEF RollbackReturn, Holds, TypeRest, Local, EndRollback
<1>4. rules' = rules
  BY DEF RollbackReturn, EndRollback
<1>5. Count'
  BY <1>1, <1>3, <1>4, GrowStep DEF TypeRest
<1>. QED  BY <1>2, <1>5

LEMMA DestroyStep ==
    ASSUME IInv, NEW e \in Exps, Destroy(e)
    PROVE  IInv'
<1>. USE DEF IInv
<1>1. Frame(e)
  BY DEF Destroy, Frame, TypeRest, Local
<1>2. TypeRest' /\ Local'
  BY NumCmdsValue DEF Destroy, TypeRest, Local, Stages
<1>3. \A k \in 1..NumCmds(flags[e]) : Holds(e, k) => Holds(e, k)'
  BY DEF Destroy, Holds, TypeRest, Local
<1>4. rules' = rules
  BY DEF Destroy
<1>5. Count'
  BY <1>1, <1>3, <1>4, GrowStep DEF TypeRest
<1>. QED  BY <1>2, <1>5

LEMMA StopReturnStep ==
    ASSUME IInv, NEW e \in Exps, StopReturn(e)
    PROVE  IInv'
<1>. USE DEF IInv
<1>1. Frame(e)
  BY DEF StopReturn, Frame, TypeRest, Local
<1>2. TypeRest' /\ Local'
  BY NumCmdsValue DEF StopReturn, TypeRest, Local, Stages
<1>3. \A k \in 1..NumCmds(flags[e]) : ~Holds(e, k)
  BY NumCmdsValue DEF StopReturn, Holds, TypeRest, Local
<1>4. rules' = rules
  BY DEF StopReturn
<1>5. Count'
  BY <1>1, <1>3, <1>4, GrowStep DEF TypeRest
<1>. QED  BY <1>2, <1>5

LEMMA StartAppendStep ==
    ASSUME IInv, NEW e \in Exps, StartAppend(e)
    PROVE  IInv'
<1>. USE DEF IInv
<1>. DEFINE K == sIdx[e]
            r0 == RuleAt(flags[e], K)
<1>0. K \in 1..NumCmds(flags[e]) /\ flags[e] \in Flags /\ r0 \in Rules
      /\ NumCmds(flags[e]) \in {2, 4}
  BY RuleAtType, NumCmdsValue DEF StartAppend, Local, TypeRest
<1>1. Frame(e)
  BY DEF StartAppend, Frame, TypeRest, Local
<1>2. \A k \in 1..NumCmds(flags[e]) : Holds(e, k)' <=> Holds(e, k) \/ k = K
  BY DEF StartAppend, Holds, TypeRest, Local
<1>3. CASE /\ IptablesAppend(r0)
           /\ sIdx' = [sIdx EXCEPT ![e] = K + 1]
           /\ resp' = [resp EXCEPT ![e] = TRUE]
           /\ UNCHANGED <<nested, dIdx>>
  <2>1. rules' = [rules EXCEPT ![r0] = @ + 1] /\ fails' = fails
    BY <1>3 DEF IptablesAppend
  <2>2. TypeRest' /\ Local'
    BY <1>0, <1>3, <2>1 DEF StartAppend, TypeRest, Local
  <2>3. \A k \in 1..NumCmds(flags[e]) : Holds(e, k) => k < K
    BY DEF Holds
  <2>4. Count'
    BY <1>0, <1>1, <1>2, <2>1, <2>3, AppendStep DEF TypeRest
  <2>. QED  BY <2>2, <2>4
<1>4. CASE /\ Spurious
           /\ UNCHANGED rules
           /\ resp' = [resp EXCEPT ![e] = FALSE]
           /\ nested' = [nested EXCEPT ![e] =
                           IF r0.proto = "tcp" THEN "tcpFail" ELSE "udpFail"]
           /\ dIdx' = [dIdx EXCEPT ![e] = 1]
           /\ sIdx' = [sIdx EXCEPT ![e] = K + 1]
  <2>1. fails' = fails + 1 /\ fails < MaxFail
    BY <1>4 DEF Spurious
  <2>2. TypeRest' /\ Local'
    BY <1>0, <1>4, <2>1 DEF StartAppend, TypeRest, Local
  <2>3. Count'
    BY <1>1, <1>2, <1>4, GrowStep DEF TypeRest
  <2>. QED  BY <2>2, <2>3
<1>. QED  BY <1>3, <1>4 DEF StartAppend

LEMMA RollbackDeleteStep ==
    ASSUME IInv, NEW e \in Exps, RollbackDelete(e)
    PROVE  IInv'
<1>. USE DEF IInv
<1>. DEFINE r0 == RuleAt(flags[e], dIdx[e])
<1>0. dIdx[e] \in 1..NumCmds(flags[e]) /\ flags[e] \in Flags /\ r0 \in Rules
      /\ NumCmds(flags[e]) \in {2, 4}
  BY RuleAtType, NumCmdsValue DEF RollbackDelete, Local, TypeRest
<1>1. Frame(e)
  BY DEF RollbackDelete, EndRollback, Frame, TypeRest, Local
<1>2. \A k \in 1..NumCmds(flags[e]) : Holds(e, k) => Holds(e, k)'
  BY DEF RollbackDelete, EndRollback, Holds, TypeRest, Local
<1>3. CASE /\ IptablesDelete(r0)
           /\ dIdx' = [dIdx EXCEPT ![e] = dIdx[e] + 1]
           /\ UNCHANGED <<stage, nested>>
  <2>1. rules' = [rules EXCEPT ![r0] = @ - 1] /\ rules[r0] > 0 /\ fails' = fails
    BY <1>3 DEF IptablesDelete
  <2>2. TypeRest' /\ Local'
    BY <1>0, <1>3, <2>1 DEF RollbackDelete, TypeRest, Local
  <2>3. Count'
    BY <1>0, <1>1, <1>2, <2>1, GrowStep DEF TypeRest
  <2>. QED  BY <2>2, <2>3
<1>4. CASE /\ IptablesDeleteFails(r0)
           /\ EndRollback(e)
           /\ UNCHANGED dIdx
  <2>1. rules' = rules /\ fails' \in 0..MaxFail
    BY <1>4 DEF IptablesDeleteFails, Spurious, TypeRest
  <2>2. TypeRest' /\ Local'
    BY <1>0, <1>4, <2>1 DEF RollbackDelete, EndRollback, TypeRest, Local, Stages
  <2>3. Count'
    BY <1>1, <1>2, <2>1, GrowStep DEF TypeRest
  <2>. QED  BY <2>2, <2>3
<1>. QED  BY <1>3, <1>4 DEF RollbackDelete

LEMMA StopDeleteStep ==
    ASSUME IInv, NEW e \in Exps, StopDelete(e)
    PROVE  IInv'
<1>. USE DEF IInv
<1>. DEFINE K == dIdx[e]
            r0 == RuleAt(flags[e], K)
<1>0. K \in 1..NumCmds(flags[e]) /\ flags[e] \in Flags /\ r0 \in Rules
      /\ NumCmds(flags[e]) \in {2, 4}
  BY RuleAtType, NumCmdsValue DEF StopDelete, Local, TypeRest
<1>1. Frame(e)
  BY DEF StopDelete, Frame, TypeRest, Local
<1>3. CASE /\ IptablesDelete(r0)
           /\ dIdx' = [dIdx EXCEPT ![e] = K + 1]
           /\ resp' = [resp EXCEPT ![e] = TRUE]
           /\ UNCHANGED stage
  <2>1. rules' = [rules EXCEPT ![r0] = @ - 1] /\ rules[r0] > 0 /\ fails' = fails
    BY <1>3 DEF IptablesDelete
  <2>2. TypeRest' /\ Local'
    BY <1>0, <1>3, <2>1 DEF StopDelete, TypeRest, Local
  <2>3. \A k \in 1..NumCmds(flags[e]) : Holds(e, k)' <=> Holds(e, k) /\ k # K
    BY <1>3 DEF StopDelete, Holds, TypeRest, Local
  <2>4. Count'
    BY <1>0, <1>1, <2>1, <2>3, DeleteStep DEF TypeRest
  <2>. QED  BY <2>2, <2>4
<1>4. CASE /\ IptablesDeleteFails(r0)
           /\ stage' = [stage EXCEPT ![e] = "destroyed"]
           /\ resp' = [resp EXCEPT ![e] = FALSE]
           /\ UNCHANGED dIdx
  <2>1. rules' = rules /\ fails' \in 0..MaxFail
    BY <1>4 DEF IptablesDeleteFails, Spurious, TypeRest
  <2>2. TypeRest' /\ Local'
    BY <1>0, <1>4, <2>1 DEF StopDelete, TypeRest, Local, Stages
  <2>3. \A k \in 1..NumCmds(flags[e]) : Holds(e, k) => Holds(e, k)'
    BY <1>4 DEF StopDelete, Holds, TypeRest, Local
  <2>4. Count'
    BY <1>1, <2>1, <2>3, GrowStep DEF TypeRest
  <2>. QED  BY <2>2, <2>4
<1>. QED  BY <1>3, <1>4 DEF StopDelete

LEMMA IInvStep == IInv /\ [Next]_vars => IInv'
<1> SUFFICES ASSUME IInv, [Next]_vars PROVE IInv'
  OBVIOUS
<1>1. CASE UNCHANGED vars
  BY <1>1 DEF vars, IInv, TypeRest, Local, Count, Holders, Holds
<1>. QED
  BY <1>1, CreateStep, StartAppendStep, StartReturnStep, RollbackDeleteStep,
     RollbackReturnStep, DestroyStep, StopDeleteStep, StopReturnStep DEF Next

(***************************************************************************)
(* The theorems.                                                           *)
(***************************************************************************)

\* Whatever the experiments and their failures, the table holds at most
\* one instance of a rule per experiment and start's and stop's loops stay
\* within their commands: start appends each of its rules once, and every
\* delete removes an instance that some experiment appended.
THEOREM TypeCorrect == Spec => []TypeOK
<1>. QED  BY IInvInit, IInvStep, IInvTypeOK, PTL DEF Spec

\* A destroy that reports success really removed the experiment's rules:
\* once every experiment is destroyed with a successful response no rule
\* is left, for any number of experiments and of failed iptables commands.
\* A stop that returns at a failed delete (network_drop.go:245) reports
\* the failure, and a rollback that deleted another experiment's instance
\* makes that experiment's later delete fail.
LEMMA IInvClean == IInv => CleanDestroyLeavesNoRules
<1> SUFFICES ASSUME IInv, \A e \in Exps : stage[e] = "destroyed" /\ resp[e],
                    NEW r \in Rules
             PROVE  rules[r] = 0
  BY DEF CleanDestroyLeavesNoRules
<1>1. Holders(r) = {}
  BY DEF Holders, Holds
<1>2. Cardinality(Holders(r)) = 0
  BY <1>1, FS_EmptySet
<1>. QED  BY <1>2 DEF IInv, Count, TypeRest

\* Once every experiment's destroy reported success, no DROP rule is left
\* in the table, for every set of experiments and every failure bound.
THEOREM CleanDestroyCorrect == Spec => []CleanDestroyLeavesNoRules
<1>. QED  BY IInvInit, IInvStep, IInvClean, PTL DEF Spec

(***************************************************************************)
(* While no command has failed: the exact count.                           *)
(***************************************************************************)

\* The table holds exactly as many instances of a rule as it has holders.
Exact == \A r \in Rules : rules[r] = Cardinality(Holders(r))

\* When the claims of e on the rule r stay as they were, so do its holders.
LEMMA HoldersSame ==
    ASSUME NEW e \in Exps, NEW r, Frame(e),
           \A k \in 1..NumCmds(flags[e]) :
               RuleAt(flags[e], k) = r => (Holds(e, k)' <=> Holds(e, k))
    PROVE  Holders(r)' = Holders(r)
BY DEF Frame, Holders, Holds

LEMMA SameExact ==
    ASSUME Exact, NEW e \in Exps, Frame(e), rules' = rules,
           \A k \in 1..NumCmds(flags[e]) : Holds(e, k)' <=> Holds(e, k)
    PROVE  Exact'
<1> SUFFICES ASSUME NEW r \in Rules PROVE rules'[r] = Cardinality(Holders(r)')
  BY DEF Exact
<1>1. Holders(r)' = Holders(r)
  BY HoldersSame
<1>. QED  BY <1>1 DEF Exact

LEMMA AppendExact ==
    ASSUME Exact, rules \in [Rules -> Nat], flags \in [Exps -> Flags],
           NEW e \in Exps, Frame(e), NEW K \in 1..NumCmds(flags[e]),
           \A k \in 1..NumCmds(flags[e]) : Holds(e, k)' <=> Holds(e, k) \/ k = K,
           \A k \in 1..NumCmds(flags[e]) : Holds(e, k) => k < K,
           rules' = [rules EXCEPT ![RuleAt(flags[e], K)] = @ + 1]
    PROVE  Exact'
<1> DEFINE r0 == RuleAt(flags[e], K)
<1> SUFFICES ASSUME NEW r \in Rules PROVE rules'[r] = Cardinality(Holders(r)')
  BY DEF Exact
<1>0. /\ Holders(r) \subseteq Exps /\ IsFiniteSet(Holders(r))
      /\ Cardinality(Holders(r)) \in Nat
  BY ExpsSubset DEF Holders
<1>1. CASE r # r0
  <2>1. Holders(r)' = Holders(r)
    BY <1>1, HoldersSame
  <2>. QED  BY <1>1, <2>1, RuleAtType DEF Exact
<1>2. CASE r = r0
  <2>1. e \notin Holders(r)
    BY <1>2, RuleAtInjective DEF Holders
  <2>2. e \in Holders(r)'
    <3>1. Holds(e, K)'
      OBVIOUS
    <3>2. flags'[e] = flags[e]
      BY DEF Frame
    <3>. QED  BY <1>2, <3>1, <3>2 DEF Holders
  <2>3. Holders(r)' = Holders(r) \cup {e}
    <3>1. \A x \in Exps \ {e} : x \in Holders(r)' <=> x \in Holders(r)
      BY HoldersOthers
    <3>. QED  BY <1>0, <2>1, <2>2, <3>1 DEF Holders
  <2>4. Cardinality(Holders(r)') = Cardinality(Holders(r)) + 1
    BY <1>0, <2>1, <2>3, FS_AddElement
  <2>5. rules'[r] = rules[r] + 1
    BY <1>2, RuleAtType
  <2>. QED  BY <2>4, <2>5 DEF Exact
<1>. QED  BY <1>1, <1>2

LEMMA DeleteExact ==
    ASSUME Exact, rules \in [Rules -> Nat], flags \in [Exps -> Flags],
           NEW e \in Exps, Frame(e), NEW K \in 1..NumCmds(flags[e]),
           \A k \in 1..NumCmds(flags[e]) : Holds(e, k)' <=> Holds(e, k) /\ k # K,
           Holds(e, K),
           rules' = [rules EXCEPT ![RuleAt(flags[e], K)] = @ - 1]
    PROVE  Exact'
<1> DEFINE r0 == RuleAt(flags[e], K)
<1> SUFFICES ASSUME NEW r \in Rules PROVE rules'[r] = Cardinality(Holders(r)')
  BY DEF Exact
<1>0. /\ Holders(r) \subseteq Exps /\ IsFiniteSet(Holders(r))
      /\ Cardinality(Holders(r)) \in Nat
  BY ExpsSubset DEF Holders
<1>1. CASE r # r0
  <2>1. Holders(r)' = Holders(r)
    BY <1>1, HoldersSame
  <2>. QED  BY <1>1, <2>1, RuleAtType DEF Exact
<1>2. CASE r = r0
  <2>1. e \in Holders(r)
    BY <1>2 DEF Holders
  <2>2. e \notin Holders(r)'
    <3>1. flags'[e] = flags[e]
      BY DEF Frame
    <3>. QED  BY <1>2, <3>1, RuleAtInjective DEF Holders
  <2>3. Holders(r)' = Holders(r) \ {e}
    <3>1. \A x \in Exps \ {e} : x \in Holders(r)' <=> x \in Holders(r)
      BY HoldersOthers
    <3>. QED  BY <1>0, <2>2, <3>1 DEF Holders
  <2>4. Cardinality(Holders(r)') = Cardinality(Holders(r)) - 1
    BY <1>0, <2>1, <2>3, FS_RemoveElement
  <2>5. rules'[r] = rules[r] - 1
    BY <1>2, RuleAtType
  <2>. QED  BY <2>4, <2>5 DEF Exact
<1>. QED  BY <1>1, <1>2

\* An experiment without a match flag never gets past Exec.
Shape ==
    \A e \in Exps : flags[e].match = NoMatch =>
        sIdx[e] = 1 /\ stage[e] \notin {"creating", "running"}

\* While no command has failed: no rollback is under way, only an
\* experiment without a match flag fails, every other one has a successful
\* response and, once running, has appended all its rules.
NoFail ==
    \A e \in Exps :
        /\ nested[e] = "none"
        /\ stage[e] = "failed" => flags[e].match = NoMatch
        /\ flags[e].match # NoMatch =>
             /\ resp[e]
             /\ stage[e] \in {"running", "destroying", "destroyed"}
                  => sIdx[e] = NumCmds(flags[e]) + 1

NInv == IInv /\ Shape /\ (fails = 0 => Exact /\ NoFail)

\* A rule without a match flag has no holder.
LEMMA NoMatchNoHolders ==
    ASSUME Shape, flags \in [Exps -> Flags], NEW r, r.match = NoMatch
    PROVE  Holders(r) = {}
BY DEF Shape, Holders, Holds, RuleAt

LEMMA NInvInit == Init => NInv
<1> SUFFICES ASSUME Init PROVE NInv
  OBVIOUS
<1>1. IInv
  BY IInvInit
<1>2. Exact
  <2> SUFFICES ASSUME NEW r \in Rules PROVE Cardinality(Holders(r)) = 0
    BY DEF Init, Exact
  <2>1. Holders(r) = {}
    BY DEF Init, Holders, Holds
  <2>. QED  BY <2>1, FS_EmptySet
<1>. QED  BY <1>1, <1>2 DEF Init, Shape, NoFail, NInv

(* One lemma per action: the action keeps NInv. *)

LEMMA CreateNoFail ==
    ASSUME NInv, NEW e \in Exps, Create(e)
    PROVE  NInv'
<1>. USE DEF NInv
<1>1. IInv'
  BY CreateStep
<1>2. Frame(e) /\ rules' = rules /\ fails' = fails
      /\ \A k \in 1..NumCmds(flags[e]) : Holds(e, k)' <=> Holds(e, k)
  BY DEF Create, Frame, Holds, IInv, TypeRest, Local
<1>3. Shape'
  BY DEF Create, Shape, IInv, TypeRest, Local
<1>4. ASSUME fails' = 0 PROVE Exact' /\ NoFail'
  <2>1. Exact /\ NoFail
    BY <1>2, <1>4
  <2>2. Exact'
    BY <1>2, <2>1, SameExact
  <2>3. NoFail'
    BY <2>1 DEF Create, NoFail, IInv, TypeRest, Local
  <2>. QED  BY <2>2, <2>3
<1>. QED  BY <1>1, <1>3, <1>4

LEMMA StartAppendNoFail ==
    ASSUME NInv, NEW e \in Exps, StartAppend(e)
    PROVE  NInv'
<1>. USE DEF NInv
<1>. DEFINE K == sIdx[e]
            r0 == RuleAt(flags[e], K)
<1>0. K \in 1..NumCmds(flags[e]) /\ flags[e] \in Flags /\ r0 \in Rules
      /\ stage[e] = "creating" /\ flags[e].match # NoMatch
  BY RuleAtType DEF StartAppend, Shape, IInv, Local, TypeRest
<1>1. IInv'
  BY StartAppendStep
<1>2. Frame(e)
  BY DEF StartAppend, Frame, IInv, TypeRest, Local
<1>3. Shape'
  BY <1>0 DEF StartAppend, Shape, IInv, TypeRest, Local
<1>4. ASSUME fails' = 0 PROVE Exact' /\ NoFail'
  <2>1. /\ IptablesAppend(r0)
        /\ sIdx' = [sIdx EXCEPT ![e] = K + 1]
        /\ resp' = [resp EXCEPT ![e] = TRUE]
        /\ UNCHANGED <<nested, dIdx, stage>>
    BY <1>4 DEF StartAppend, Spurious, IInv, TypeRest
  <2>2. rules' = [rules EXCEPT ![r0] = @ + 1] /\ fails' = fails
    BY <2>1 DEF IptablesAppend
  <2>3. Exact /\ NoFail
    BY <1>4, <2>2
  <2>4. \A k \in 1..NumCmds(flags[e]) : Holds(e, k)' <=> Holds(e, k) \/ k = K
    BY <1>0, <2>1 DEF Holds, IInv, TypeRest, Local
  <2>5. \A k \in 1..NumCmds(flags[e]) : Holds(e, k) => k < K
    BY DEF Holds
  <2>6. Exact'
    BY <1>0, <1>2, <2>2, <2>3, <2>4, <2>5, AppendExact DEF IInv, TypeRest
  <2>7. NoFail'
    BY <1>0, <1>2, <2>1, <2>3 DEF NoFail, Frame, IInv, TypeRest, Local
  <2>. QED  BY <2>6, <2>7
<1>. QED  BY <1>1, <1>3, <1>4

LEMMA StartReturnNoFail ==
    ASSUME NInv, NEW e \in Exps, StartReturn(e)
    PROVE  NInv'
<1>. USE DEF NInv
<1>0. flags[e].match # NoMatch /\ flags[e] \in Flags
  BY DEF StartReturn, Shape, IInv, TypeRest
<1>1. IInv'
  BY StartReturnStep
<1>2. Frame(e) /\ rules' = rules /\ fails' = fails
      /\ \A k \in 1..NumCmds(flags[e]) : Holds(e, k)' <=> Holds(e, k)
  BY DEF StartReturn, Frame, Holds, IInv, TypeRest, Local
<1>3. Shape'
  BY <1>0 DEF StartReturn, Shape, IInv, TypeRest, Local
<1>4. ASSUME fails' = 0 PROVE Exact' /\ NoFail'
  <2>1. Exact /\ NoFail
    BY <1>2, <1>4
  <2>2. Exact'
    BY <1>2, <2>1, SameExact
  <2>3. sIdx[e] = NumCmds(flags[e]) + 1 /\ resp[e]
    BY <1>0, <2>1, NumCmdsValue DEF StartReturn, NoFail, IInv, Local
  <2>4. NoFail'
    BY <1>0, <2>1, <2>3 DEF StartReturn, NoFail, IInv, TypeRest, Local
  <2>. QED  BY <2>2, <2>4
<1>. QED  BY <1>1, <1>3, <1>4

\* A rollback runs only after a failed append.
LEMMA RollbackDeleteNoFail ==
    ASSUME NInv, NEW e \in Exps, RollbackDelete(e)
    PROVE  NInv'
<1>. USE DEF NInv
<1>1. IInv'
  BY RollbackDeleteStep
<1>2. fails # 0 /\ fails' \in {fails, fails + 1}
  BY DEF RollbackDelete, NoFail, IptablesDelete, IptablesDeleteFails, Spurious
<1>3. Shape'
  BY DEF RollbackDelete, EndRollback, Shape, IInv, TypeRest, Local
<1>. QED  BY <1>1, <1>2, <1>3 DEF IInv, TypeRest

LEMMA RollbackReturnNoFail ==
    ASSUME NInv, NEW e \in Exps, RollbackReturn(e)
    PROVE  NInv'
<1>. USE DEF NInv
<1>1. IInv'
  BY RollbackReturnStep
<1>2. fails # 0 /\ fails' = fails
  BY DEF RollbackReturn, NoFail
<1>3. Shape'
  BY DEF RollbackReturn, EndRollback, Shape, IInv, TypeRest, Local
<1>. QED  BY <1>1, <1>2, <1>3

LEMMA DestroyNoFail ==
    ASSUME NInv, NEW e \in Exps, Destroy(e)
    PROVE  NInv'
<1>. USE DEF NInv
<1>1. IInv'
  BY DestroyStep
<1>2. Frame(e) /\ rules' = rules /\ fails' = fails
      /\ \A k \in 1..NumCmds(flags[e]) : Holds(e, k)' <=> Holds(e, k)
  BY DEF Destroy, Frame, Holds, IInv, TypeRest, Local
<1>3. Shape'
  BY DEF Destroy, Shape, IInv, TypeRest, Local
<1>4. ASSUME fails' = 0 PROVE Exact' /\ NoFail'
  <2>1. Exact /\ NoFail
    BY <1>2, <1>4
  <2>2. Exact'
    BY <1>2, <2>1, SameExact
  <2>3. NoFail'
    BY <2>1 DEF Destroy, NoFail, IInv, TypeRest, Local
  <2>. QED  BY <2>2, <2>3
<1>. QED  BY <1>1, <1>3, <1>4

LEMMA StopDeleteNoFail ==
    ASSUME NInv, NEW e \in Exps, StopDelete(e)
    PROVE  NInv'
<1>. USE DEF NInv
<1>. DEFINE K == dIdx[e]
            r0 == RuleAt(flags[e], K)
<1>0. K \in 1..NumCmds(flags[e]) /\ flags[e] \in Flags /\ r0 \in Rules
      /\ stage[e] = "destroying" /\ r0.match = flags[e].match
      /\ NumCmds(flags[e]) \in {2, 4}
  BY RuleAtType, NumCmdsValue DEF StopDelete, IInv, Local, TypeRest, RuleAt
<1>1. IInv'
  BY StopDeleteStep
<1>2. Frame(e)
  BY DEF StopDelete, Frame, IInv, TypeRest, Local
<1>3. Shape'
  BY <1>0 DEF StopDelete, Shape, IInv, TypeRest, Local
<1>4. ASSUME fails' = 0 PROVE Exact' /\ NoFail'
  <2>0. fails = 0 /\ Exact /\ NoFail
    BY <1>4 DEF StopDelete, IptablesDelete, IptablesDeleteFails, Spurious, IInv, TypeRest
  <2>h. Holders(r0) \subseteq Exps
    BY DEF Holders
  <2>f. IsFiniteSet(Holders(r0)) /\ Cardinality(Holders(r0)) \in Nat
    BY <2>h, ExpsSubset
  <2>1. CASE /\ IptablesDelete(r0)
             /\ dIdx' = [dIdx EXCEPT ![e] = K + 1]
             /\ resp' = [resp EXCEPT ![e] = TRUE]
             /\ UNCHANGED stage
    <3>1. rules' = [rules EXCEPT ![r0] = @ - 1] /\ rules[r0] > 0
      BY <2>1 DEF IptablesDelete
    <3>2. flags[e].match # NoMatch
      <4>1. Holders(r0) # {}
        BY <1>0, <2>0, <2>f, <3>1, FS_EmptySet DEF Exact
      <4>. QED  BY <1>0, <4>1, NoMatchNoHolders DEF IInv, TypeRest
    <3>3. Holds(e, K)
      BY <1>0, <2>0, <3>2 DEF NoFail, Holds, IInv, Local
    <3>4. \A k \in 1..NumCmds(flags[e]) : Holds(e, k)' <=> Holds(e, k) /\ k # K
      BY <1>0, <2>1 DEF StopDelete, Holds, IInv, TypeRest, Local
    <3>5. Exact'
      BY <1>0, <1>2, <2>0, <3>1, <3>3, <3>4, DeleteExact DEF IInv, TypeRest
    <3>6. NoFail'
      BY <1>0, <1>2, <2>0, <2>1, <3>1 DEF StopDelete, NoFail, Frame, IInv, TypeRest, Local
    <3>. QED  BY <3>5, <3>6
  <2>2. CASE /\ IptablesDeleteFails(r0)
             /\ stage' = [stage EXCEPT ![e] = "destroyed"]
             /\ resp' = [resp EXCEPT ![e] = FALSE]
             /\ UNCHANGED dIdx
    <3>1. rules' = rules /\ rules[r0] = 0
      BY <1>4, <2>0, <2>2 DEF IptablesDeleteFails, Spurious
    <3>2. ~Holds(e, K)
      <4>1. Cardinality(Holders(r0)) = 0
        BY <1>0, <2>0, <3>1 DEF Exact
      <4>2. Holders(r0) = {}
        BY <2>f, <4>1, FS_EmptySet
      <4>. QED  BY <1>0, <4>2 DEF Holders
    <3>3. flags[e].match = NoMatch /\ sIdx[e] = 1
      BY <1>0, <2>0, <3>2 DEF NoFail, Holds, Shape, IInv, Local
    <3>4. \A k \in 1..NumCmds(flags[e]) : Holds(e, k)' <=> Holds(e, k)
      BY <2>2, <3>3 DEF StopDelete, Holds, IInv, TypeRest, Local
    <3>5. Exact'
      BY <1>2, <2>0, <3>1, <3>4, SameExact
    <3>6. NoFail'
      BY <1>0, <1>2, <2>0, <2>2, <3>3 DEF StopDelete, NoFail, Frame, IInv, TypeRest, Local
    <3>. QED  BY <3>5, <3>6
  <2>. QED  BY <2>1, <2>2 DEF StopDelete
<1>. QED  BY <1>1, <1>3, <1>4

LEMMA StopReturnNoFail ==
    ASSUME NInv, NEW e \in Exps, StopReturn(e)
    PROVE  NInv'
<1>. USE DEF NInv
<1>1. IInv'
  BY StopReturnStep
<1>2. Frame(e) /\ rules' = rules /\ fails' = fails
  BY DEF StopReturn, Frame, IInv, TypeRest, Local
<1>3. Shape'
  BY DEF StopReturn, Shape, IInv, TypeRest, Local
<1>4. ASSUME fails' = 0 PROVE Exact' /\ NoFail'
  <2>1. Exact /\ NoFail
    BY <1>2, <1>4
  <2>2. \A k \in 1..NumCmds(flags[e]) : ~Holds(e, k) /\ ~Holds(e, k)'
    BY <2>1, NumCmdsValue DEF StopReturn, Holds, NoFail, Shape, IInv, TypeRest, Local
  <2>3. Exact'
    BY <1>2, <2>1, <2>2, SameExact
  <2>4. NoFail'
    BY <2>1 DEF StopReturn, NoFail, IInv, TypeRest, Local
  <2>. QED  BY <2>3, <2>4
<1>. QED  BY <1>1, <1>3, <1>4

LEMMA NInvStep == NInv /\ [Next]_vars => NInv'
<1> SUFFICES ASSUME NInv, [Next]_vars PROVE NInv'
  OBVIOUS
<1>1. CASE UNCHANGED vars
  BY <1>1 DEF vars, NInv, IInv, TypeRest, Local, Count, Exact, Shape,
              NoFail, Holders, Holds
<1>. QED
  BY <1>1, CreateNoFail, StartAppendNoFail, StartReturnNoFail,
     RollbackDeleteNoFail, RollbackReturnNoFail, DestroyNoFail,
     StopDeleteNoFail, StopReturnNoFail DEF Next

LEMMA NInvRunning == NInv => RunningDropsInstalledWhileNoFailure
<1> SUFFICES ASSUME NInv, fails = 0, NEW r \in Rules
             PROVE  rules[r] >= Cardinality({e \in Exps : stage[e] = "running"
                                              /\ r \in RulesOf(flags[e])})
  BY DEF RunningDropsInstalledWhileNoFailure, RunningDropsInstalled
<1> DEFINE S == {e \in Exps : stage[e] = "running" /\ r \in RulesOf(flags[e])}
<1>1. S \subseteq Holders(r)
  <2> SUFFICES ASSUME NEW e \in S PROVE e \in Holders(r)
    OBVIOUS
  <2>1. flags[e].match # NoMatch /\ sIdx[e] = NumCmds(flags[e]) + 1
    BY DEF NInv, Shape, NoFail
  <2>0. r \in RulesOf(flags[e]) /\ stage[e] = "running"
    OBVIOUS
  <2>2. PICK k \in 1..NumCmds(flags[e]) : RuleAt(flags[e], k) = r
    BY <2>0 DEF RulesOf
  <2>3. flags[e] \in Flags
    BY DEF NInv, IInv, TypeRest
  <2>. QED  BY <2>0, <2>1, <2>2, <2>3, NumCmdsValue DEF Holders, Holds
<1>2. Holders(r) \subseteq Exps
  BY DEF Holders
<1>3. Cardinality(S) <= Cardinality(Holders(r))
  BY <1>1, <1>2, ExpsSubset, FS_Subset
<1>. QED  BY <1>3 DEF NInv, Exact

\* As long as no iptables command has failed, every running experiment
\* has each of its DROP rules in the table, for every number of experiments
\* that may share rules and every interleaving of their commands: the
\* deletes of one experiment's stop never take another's instance.
THEOREM RunningCorrect == Spec => []RunningDropsInstalledWhileNoFailure
<1>. QED  BY NInvInit, NInvStep, NInvRunning, PTL DEF Spec

=============================================================================
