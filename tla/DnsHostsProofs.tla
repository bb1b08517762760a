--------------------------- MODULE DnsHostsProofs ---------------------------
(***************************************************************************)
(* Proofs about the dns executor of module DnsHosts: that the hosts file   *)
(* only ever holds well-formed lines (a plain entry has an ip address),    *)
(* for every set of experiments, and that a running experiment's mapping   *)
(* is in effect when it is the only experiment on the host.                *)
(***************************************************************************)
EXTENDS DnsHosts, TLAPS

USE DnsHostsAssumption

(***************************************************************************)
(* Type correctness.                                                       *)
(***************************************************************************)

\* The entries of the hosts file before any experiment are lines.
LEMMA BaseLines == Base \subseteq Lines
<1> SUFFICES ASSUME NEW x \in Base PROVE x \in Lines
  BY DEF Lines
<1>1. x \in Entries /\ (x.blade \/ x.ip \notin BadIps)
  OBVIOUS
<1>2. x = [ip |-> x.ip, dom |-> x.dom, blade |-> x.blade]
  BY <1>1 DEF Entries
<1>. QED  BY <1>1, <1>2 DEF Entries, Lines

\* A line is an entry.
LEMMA LinesEntries == Lines \subseteq Entries
BY DEF Lines, Entries

\* Add keeps the hosts read well formed when the ip is an ip address.
LEMMA AddReplacingLines ==
    ASSUME NEW h \in SUBSET Lines, NEW f \in Flags, f.ip \notin BadIps
    PROVE  AddReplacing(h, f) \subseteq Lines
<1>1. [ip |-> f.ip, dom |-> f.dom, blade |-> FALSE]
        \in [ip : Ips \ BadIps, dom : Domains, blade : {FALSE}]
  BY DEF Flags
<1>2. {x \in h : x.dom # f.dom} \subseteq Lines
  OBVIOUS
<1>. QED  BY <1>1, <1>2 DEF AddReplacing, Lines

\* The type invariant, strengthened: what the replace applier read and
\* what the backups hold are hosts files too, so writing or restoring them
\* keeps the hosts file well formed.
TInv ==
    /\ TypeOK
    /\ snapshot \in [Exps -> SUBSET Lines]
    /\ \A e \in Exps : backups[e] = NoBackup \/ backups[e] \subseteq Lines

LEMMA TInvInit == Init => TInv
<1> SUFFICES ASSUME Init PROVE TInv
  OBVIOUS
<1>1. hosts \in SUBSET Lines
  BY BaseLines DEF Init
<1>2. stage \in [Exps -> Stages]
  BY DEF Init, Stages
<1>3. backups \in [Exps -> (SUBSET Entries) \cup {NoBackup}]
  BY DEF Init
<1>4. snapshot \in [Exps -> SUBSET Lines] /\ snapshot \in [Exps -> SUBSET Entries]
  BY DEF Init
<1>5. \A e \in Exps : backups[e] = NoBackup \/ backups[e] \subseteq Lines
  BY DEF Init
<1>. QED  BY <1>1, <1>2, <1>3, <1>4, <1>5 DEF Init, TInv, TypeOK

LEMMA TInvStep == TInv /\ [Next]_vars => TInv'
<1> SUFFICES ASSUME TInv, [Next]_vars PROVE TInv'
  OBVIOUS
<1>. USE DEF TInv, TypeOK
<1>0. hosts \subseteq Entries /\ \A e \in Exps : snapshot[e] \subseteq Entries
  BY LinesEntries
<1>1. ASSUME NEW e \in Exps, Create(e) PROVE TInv'
  BY <1>0, <1>1 DEF Create, Spurious, Fail, Stages
<1>2. ASSUME NEW e \in Exps, Grep(e) PROVE TInv'
  BY <1>2 DEF Grep, Stages
<1>3. ASSUME NEW e \in Exps, AppendPair(e) PROVE TInv'
  <2>1. DnsPair(flags[e]) \in Lines
    BY DEF DnsPair, Lines, Flags
  <2>. QED  BY <1>3, <2>1 DEF AppendPair, Spurious, Fail, Stages
<1>4. ASSUME NEW e \in Exps, ReadHosts(e) PROVE TInv'
  BY <1>0, <1>4 DEF ReadHosts, Spurious, Fail, Stages
<1>5. ASSUME NEW e \in Exps, WriteHosts(e) PROVE TInv'
  <2>1. flags[e].ip \notin BadIps => AddReplacing(snapshot[e], flags[e]) \subseteq Lines
    <3>. HAVE flags[e].ip \notin BadIps
    <3>1. snapshot[e] \in SUBSET Lines /\ flags[e] \in Flags
      OBVIOUS
    <3>. QED  BY <3>1, AddReplacingLines
  <2>0. stage' \in [Exps -> Stages] /\ fails' \in 0..MaxFail
        /\ UNCHANGED <<orig, flags, backups, snapshot>>
    BY <1>5 DEF WriteHosts, Spurious, Fail, Stages
  <2>2. CASE flags[e].ip \notin BadIps /\ hosts' = AddReplacing(snapshot[e], flags[e])
    BY <2>0, <2>1, <2>2
  <2>3. CASE ~(flags[e].ip \notin BadIps /\ hosts' = AddReplacing(snapshot[e], flags[e]))
    <3>. hosts' = hosts
      BY <1>5, <2>3 DEF WriteHosts
    <3>. QED  BY <2>0
  <2>. QED  BY <2>2, <2>3
<1>6. ASSUME NEW e \in Exps, Destroy(e) PROVE TInv'
  <2>1. hosts' \in SUBSET Lines
    BY <1>6 DEF Destroy
  <2>. QED  BY <1>6, <2>1 DEF Destroy, Stages
<1>7. CASE UNCHANGED vars
  BY <1>7 DEF vars
<1>. QED  BY <1>1, <1>2, <1>3, <1>4, <1>5, <1>6, <1>7 DEF Next

\* The hosts file only ever holds chaosblade lines and plain entries whose
\* ip is an ip address: customHosts.Add refuses a bad ip, and the copies
\* that the replace applier writes and stop restores are hosts files.
THEOREM TypeCorrect == Spec => []TypeOK
<1>1. TInv => TypeOK
  BY DEF TInv
<1>. QED  BY TInvInit, TInvStep, <1>1, PTL DEF Spec

=============================================================================
