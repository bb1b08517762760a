-------------------------- MODULE FileAppendProofs --------------------------
(***************************************************************************)
(* Proofs about the file append executor of module FileAppend: the type    *)
(* invariant for every set of experiments and every bound, and, for one    *)
(* experiment on the file, that a destroy with delete-file that reports    *)
(* success leaves none of the experiment's lines.                          *)
(***************************************************************************)
EXTENDS FileAppend, SequenceTheorems, TLAPS

\* The bounds are natural numbers.
LEMMA BoundsNat ==
    /\ MaxCount \in Nat \ {0}
    /\ MaxTicks \in Nat
    /\ MaxFail \in Nat
BY FileAppendAssumption

USE BoundsNat

(***************************************************************************)
(* The file content.                                                       *)
(***************************************************************************)

\* echo >> of lines of an experiment keeps the file a sequence of lines.
LEMMA AppendedType ==
    ASSUME NEW f \in Seq(Lines) \cup {NoFile}, NEW e \in Exps, NEW n \in Nat
    PROVE  Appended(f, e, n) \in Seq(Lines)
<1>1. [i \in 1..n |-> e] \in Seq(Lines)
  BY DEF Lines
<1>2. (IF f = NoFile THEN << >> ELSE f) \in Seq(Lines)
  BY EmptySeq
<1>. QED  BY <1>1, <1>2, ConcatProperties DEF Appended

(***************************************************************************)
(* Type correctness.                                                       *)
(***************************************************************************)

LEMMA TypeInit == Init => TypeOK
<1> SUFFICES ASSUME Init PROVE TypeOK
  OBVIOUS
<1>1. <<"orig">> \in Seq(Lines)
  BY DEF Lines
<1>2. file \in Seq(Lines) \cup {NoFile}
  BY <1>1 DEF Init
<1>. QED  BY <1>2 DEF Init, TypeOK, Stages

\* A step that ends a command with a stage and a response keeps their types.
LEMMA FinishType ==
    ASSUME TypeOK, NEW e \in Exps, NEW st \in Stages, NEW ok \in BOOLEAN,
           Finish(e, st, ok)
    PROVE  stage' \in [Exps -> Stages] /\ resp' \in [Exps -> BOOLEAN]
BY DEF Finish, TypeOK

\* A command that fails on its own stays within the bound.
LEMMA SpuriousType ==
    ASSUME TypeOK, Spurious
    PROVE  fails' \in 0..MaxFail
BY DEF Spurious, TypeOK

LEMMA TypeStep == TypeOK /\ [Next]_vars => TypeOK'
<1> SUFFICES ASSUME TypeOK, [Next]_vars PROVE TypeOK'
  OBVIOUS
<1>1. ASSUME NEW e \in Exps, Create(e) PROVE TypeOK'
  <2>1. UNCHANGED <<file, dirExists, flags, backup, idx, last, proc, existed, ticks>>
    BY <1>1 DEF Create
  <2>2. CASE Spurious /\ Finish(e, "failed", FALSE)
    BY <2>1, <2>2, FinishType, SpuriousType DEF TypeOK, Stages
  <2>3. CASE Finish(e, "failed", FALSE) /\ UNCHANGED fails
    BY <2>1, <2>3, FinishType DEF TypeOK, Stages
  <2>4. CASE flags[e].params
             /\ stage' = [stage EXCEPT ![e] =
                            IF flags[e].backup THEN "backup" ELSE "prepare"]
             /\ UNCHANGED <<resp, fails>>
    BY <2>1, <2>4 DEF TypeOK, Stages
  <2>. QED  BY <1>1, <2>2, <2>3, <2>4 DEF Create
<1>2. ASSUME NEW e \in Exps, Backup(e) PROVE TypeOK'
  <2>1. backup' \in [Exps -> Seq(Lines) \cup {NoFile}] /\ fails' \in 0..MaxFail
    BY <1>2, SpuriousType DEF Backup, TypeOK
  <2>. QED  BY <1>2, <2>1 DEF Backup, TypeOK, Stages
<1>3. ASSUME NEW e \in Exps, Prepare(e) PROVE TypeOK'
  <2>1. UNCHANGED <<file, flags, backup, last, proc, existed, ticks>>
    BY <1>3 DEF Prepare
  <2>2. CASE Spurious /\ Finish(e, "failed", FALSE) /\ UNCHANGED <<dirExists, idx>>
    BY <2>1, <2>2, FinishType, SpuriousType DEF TypeOK, Stages
  <2>3. CASE dirExists' = TRUE /\ UNCHANGED fails
             /\ stage' = [stage EXCEPT ![e] = "echo"]
             /\ idx' = [idx EXCEPT ![e] = 1] /\ UNCHANGED resp
    BY <2>1, <2>3 DEF TypeOK, Stages
  <2>4. CASE dirExists' = TRUE /\ UNCHANGED fails
             /\ Finish(e, "failed", FALSE) /\ UNCHANGED idx
    BY <2>1, <2>4, FinishType DEF TypeOK, Stages
  <2>. QED  BY <1>3, <2>2, <2>3, <2>4 DEF Prepare
<1>4. ASSUME NEW e \in Exps, Echo(e) PROVE TypeOK'
  <2>1. file' \in Seq(Lines) \cup {NoFile}
    <3>1. file' = Appended(file, e, 1) \/ file' = file
      BY <1>4 DEF Echo
    <3>2. Appended(file, e, 1) \in Seq(Lines)
      BY AppendedType DEF TypeOK
    <3>. QED  BY <3>1, <3>2 DEF TypeOK
  <2>2. fails' \in 0..MaxFail
    BY <1>4, SpuriousType DEF Echo, TypeOK
  <2>3. idx' \in [Exps -> 1..MaxCount + 1]
    BY <1>4 DEF Echo, TypeOK, Flags
  <2>. QED  BY <1>4, <2>1, <2>2, <2>3 DEF Echo, TypeOK
<1>5. ASSUME NEW e \in Exps, StartReturn(e) PROVE TypeOK'
  <2>1. stage' \in [Exps -> Stages] /\ resp' \in [Exps -> BOOLEAN]
    BY <1>5, FinishType DEF StartReturn, TypeOK, Stages
  <2>. QED  BY <1>5, <2>1 DEF StartReturn, TypeOK
<1>6. ASSUME NEW e \in Exps, Tick(e) PROVE TypeOK'
  <2>1. flags[e].count \in Nat
    BY DEF TypeOK, Flags
  <2>2. file' \in Seq(Lines) \cup {NoFile}
    <3>1. file' = Appended(file, e, flags[e].count) \/ file' = file
      BY <1>6 DEF Tick
    <3>2. Appended(file, e, flags[e].count) \in Seq(Lines)
      BY <2>1, AppendedType DEF TypeOK
    <3>. QED  BY <3>1, <3>2 DEF TypeOK
  <2>3. fails' \in 0..MaxFail
    BY <1>6, SpuriousType DEF Tick, TypeOK
  <2>. QED  BY <1>6, <2>2, <2>3 DEF Tick, TypeOK
<1>7. ASSUME NEW e \in Exps, Destroy(e) PROVE TypeOK'
  BY <1>7 DEF Destroy, TypeOK, Stages
<1>8. ASSUME NEW e \in Exps, Restore(e) PROVE TypeOK'
  <2>1. UNCHANGED <<dirExists, flags, backup, idx, last, proc, existed, ticks>>
    BY <1>8 DEF Restore
  <2>2. CASE RemoveFile(e)
    <3>1. file' \in Seq(Lines) \cup {NoFile} /\ fails' \in 0..MaxFail
      BY <2>2, SpuriousType DEF RemoveFile, TypeOK
    <3>2. stage' \in [Exps -> Stages] /\ resp' \in [Exps -> BOOLEAN]
      BY <2>2, FinishType DEF RemoveFile, Stages
    <3>. QED  BY <2>1, <3>1, <3>2 DEF TypeOK
  <2>3. CASE backup[e] # NoFile /\ file' = backup[e]
             /\ stage' = [stage EXCEPT ![e] = "rmBackup"] /\ UNCHANGED <<resp, fails>>
    BY <2>1, <2>3 DEF TypeOK, Stages
  <2>4. CASE Spurious /\ Finish(e, "destroyed", FALSE) /\ UNCHANGED file
    BY <2>1, <2>4, FinishType, SpuriousType DEF TypeOK, Stages
  <2>5. CASE Finish(e, "destroyed", TRUE) /\ UNCHANGED <<file, fails>>
    BY <2>1, <2>5, FinishType DEF TypeOK, Stages
  <2>. QED  BY <1>8, <2>2, <2>3, <2>4, <2>5 DEF Restore
<1>9. ASSUME NEW e \in Exps, RemoveBackup(e) PROVE TypeOK'
  <2>1. stage' \in [Exps -> Stages] /\ resp' \in [Exps -> BOOLEAN]
    BY <1>9, FinishType DEF RemoveBackup, Stages
  <2>2. backup' \in [Exps -> Seq(Lines) \cup {NoFile}] /\ fails' \in 0..MaxFail
    BY <1>9, SpuriousType DEF RemoveBackup, TypeOK
  <2>. QED  BY <1>9, <2>1, <2>2 DEF RemoveBackup, TypeOK
<1>10. CASE UNCHANGED vars
  BY <1>10 DEF vars, TypeOK
<1>. QED  BY <1>1, <1>2, <1>3, <1>4, <1>5, <1>6, <1>7, <1>8, <1>9, <1>10 DEF Next

\* Every reachable state of the executor is well typed.
THEOREM TypeCorrect == Spec => []TypeOK
BY TypeInit, TypeStep, PTL DEF Spec

(***************************************************************************)
(* A clean destroy removes the experiment's lines (one experiment).        *)
(***************************************************************************)

\* No line of the file f was written by experiment e.
NoLineOf(f, e) == f # NoFile => \A i \in 1..Len(f) : f[i] # e

\* CleanDestroyRemovesAppendedLines for one experiment e.
CleanFor(e) ==
    (stage[e] = "destroyed" /\ resp[e] /\ flags[e].delete) => NoLineOf(file, e)

LEMMA CleanForAll ==
    CleanDestroyRemovesAppendedLines <=> \A e \in Exps : CleanFor(e)
BY DEF CleanDestroyRemovesAppendedLines, CleanFor, NoLineOf

\* The inductive invariant: the backup never holds a line of e (it is
\* taken before e's first echo), the appender runs only while e is running
\* (destroy kills it before anything is restored), the file holds no line
\* of e before e's first echo and right after the backup was copied back.
IInv(e) ==
    /\ TypeOK
    /\ NoLineOf(backup[e], e)
    /\ proc[e] => stage[e] = "running"
    /\ stage[e] \in {"new", "backup", "prepare"} => NoLineOf(file, e)
    /\ stage[e] = "rmBackup" => NoLineOf(file, e)
    /\ CleanFor(e)

\* The experiments are not the original content.
LEMMA OrigNotExp == "orig" \notin Exps
BY FileAppendAssumption

LEMMA IInvInit ==
    ASSUME NEW e0 \in Exps
    PROVE  Init => IInv(e0)
<1> SUFFICES ASSUME Init PROVE IInv(e0)
  OBVIOUS
<1>1. NoLineOf(file, e0)
  BY OrigNotExp DEF Init, NoLineOf
<1>. QED  BY <1>1, TypeInit DEF Init, IInv, NoLineOf, CleanFor

LEMMA IInvStep ==
    ASSUME NEW e0, Exps = {e0}
    PROVE  IInv(e0) /\ [Next]_vars => IInv(e0)'
<1> SUFFICES ASSUME IInv(e0), [Next]_vars PROVE IInv(e0)'
  OBVIOUS
<1>0. TypeOK'
  BY TypeStep DEF IInv
<1>1. CASE Create(e0)
  BY <1>0, <1>1 DEF Create, Finish, IInv, CleanFor
<1>2. CASE Backup(e0)
  <2>1. NoLineOf(backup'[e0], e0)
    BY <1>2 DEF Backup, IInv, TypeOK
  <2>. QED  BY <1>0, <1>2, <2>1 DEF Backup, IInv, CleanFor
<1>3. CASE Prepare(e0)
  BY <1>0, <1>3 DEF Prepare, Finish, IInv, CleanFor
<1>4. CASE Echo(e0)
  BY <1>0, <1>4 DEF Echo, IInv, CleanFor
<1>5. CASE StartReturn(e0)
  BY <1>0, <1>5 DEF StartReturn, Finish, IInv, CleanFor, TypeOK
<1>6. CASE Tick(e0)
  BY <1>0, <1>6 DEF Tick, IInv, CleanFor, TypeOK
<1>7. CASE Destroy(e0)
  BY <1>0, <1>7 DEF Destroy, IInv, CleanFor, TypeOK
<1>8. CASE Restore(e0)
  <2>1. UNCHANGED <<dirExists, flags, backup, idx, last, proc, existed, ticks>>
    BY <1>8 DEF Restore
  <2>2. ~proc'[e0]
    BY <2>1, <1>8 DEF Restore, IInv
  <2>3. CASE RemoveFile(e0)
    <3>1. stage'[e0] = "destroyed" /\ (resp'[e0] => NoLineOf(file', e0))
      BY <2>3 DEF RemoveFile, Finish, NoLineOf, IInv, TypeOK
    <3>. QED  BY <1>0, <2>1, <2>2, <3>1 DEF IInv, CleanFor
  <2>4. CASE backup[e0] # NoFile /\ file' = backup[e0]
             /\ stage' = [stage EXCEPT ![e0] = "rmBackup"] /\ UNCHANGED <<resp, fails>>
    BY <1>0, <2>1, <2>2, <2>4 DEF IInv, CleanFor, TypeOK
  <2>5. CASE Spurious /\ Finish(e0, "destroyed", FALSE) /\ UNCHANGED file
    BY <1>0, <2>1, <2>2, <2>5 DEF Finish, IInv, CleanFor, TypeOK
  <2>6. CASE ~flags[e0].delete /\ Finish(e0, "destroyed", TRUE) /\ UNCHANGED <<file, fails>>
    BY <1>0, <2>1, <2>2, <2>6 DEF Finish, IInv, CleanFor, TypeOK
  <2>. QED  BY <1>8, <2>3, <2>4, <2>5, <2>6 DEF Restore
<1>9. CASE RemoveBackup(e0)
  <2>1. NoLineOf(backup'[e0], e0)
    BY <1>9 DEF RemoveBackup, IInv, NoLineOf, TypeOK
  <2>2. NoLineOf(file', e0) /\ stage'[e0] = "destroyed"
    BY <1>9 DEF RemoveBackup, Finish, IInv, TypeOK
  <2>. QED  BY <1>0, <1>9, <2>1, <2>2 DEF RemoveBackup, Finish, IInv, CleanFor, TypeOK
<1>10. CASE UNCHANGED vars
  BY <1>0, <1>10 DEF vars, IInv, CleanFor, NoLineOf
<1>. QED  BY <1>1, <1>2, <1>3, <1>4, <1>5, <1>6, <1>7, <1>8, <1>9, <1>10 DEF Next

\* With one experiment on the file, a destroy with delete-file that
\* reports success leaves none of the experiment's lines, for every count,
\* tick and failure bound.
THEOREM CleanDestroyCorrect ==
    ASSUME NEW e0, Exps = {e0}
    PROVE  Spec => []CleanDestroyRemovesAppendedLines
<1>1. Init => IInv(e0)
  BY IInvInit
<1>2. IInv(e0) /\ [Next]_vars => IInv(e0)'
  BY IInvStep
<1>3. IInv(e0) => CleanDestroyRemovesAppendedLines
  BY CleanForAll DEF IInv
<1>. QED  BY <1>1, <1>2, <1>3, PTL DEF Spec

=============================================================================
