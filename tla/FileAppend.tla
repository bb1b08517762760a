---------------------------- MODULE FileAppend -----------------------------
(***************************************************************************)
(* The file append executor (exec/file, FileAppendActionExecutor) on one   *)
(* target file. create optionally copies the file to                       *)
(* <file>.chaos-blade-backup-<uid> (only when the file exists and the      *)
(* backup does not; a failed cp is logged and ignored), then appends       *)
(* count lines with echo ... >> <file> (creating the directory first when  *)
(* it is missing). With an interval the chaos_os process keeps appending   *)
(* count lines per tick until it is killed. destroy kills that process     *)
(* and then, by delete-file and enable-backup: restores the backup and     *)
(* removes it, or removes the file, or leaves everything as it is.         *)
(*                                                                         *)
(* The file is a sequence of lines: "orig" for its content before any      *)
(* experiment, the experiment itself for a line it appended. Every shell   *)
(* command is a step; a command may fail for a reason of its own (a full   *)
(* disk, a missing tool), at most MaxFail times in a behaviour.            *)
(***************************************************************************)
EXTENDS Naturals, Sequences

CONSTANTS
    Exps,       \* the experiments (one uid each) on the target file
    NoFile,     \* the path does not exist
    MaxCount,   \* bound on the count flag
    MaxTicks,   \* bound on the ticks of the interval appenders
    MaxFail     \* bound on the commands that fail on their own

ASSUME FileAppendAssumption ==
    /\ "orig" \notin Exps
    /\ NoFile \notin Seq({"orig"} \cup Exps)
    /\ MaxCount \in Nat \ {0}
    /\ MaxTicks \in Nat
    /\ MaxFail \in Nat

VARIABLES
    file,       \* the content of the target file, or NoFile
    dirExists,  \* the directory of the target file exists
    stage,      \* stage[e]: see Stages
    flags,      \* flags[e]: the flags of e
    backup,     \* backup[e]: the content of <file>.chaos-blade-backup-<uid>
    idx,        \* idx[e]: the next iteration of appendFile's count loop
    last,       \* last[e]: the success of the last echo of that loop
    proc,       \* proc[e]: the interval appender of e is running
    resp,       \* resp[e]: the success of the response create / destroy gave
    existed,    \* existed[e]: the file existed when e's create looked (history)
    ticks,      \* number of ticks of the interval appenders so far
    fails       \* number of commands that failed on their own

vars == <<file, dirExists, stage, flags, backup, idx, last, proc, resp,
          existed, ticks, fails>>

Lines == {"orig"} \cup Exps
Stages == {"new", "backup", "prepare", "echo", "running", "failed",
           "restoring", "rmBackup", "destroyed"}
\* enable-backup, delete-file, interval given, count, the count and
\* interval flags parse, the content decodes and its RANDOM ranges parse.
Flags == [backup : BOOLEAN, delete : BOOLEAN, interval : BOOLEAN,
          count : 1..MaxCount, params : BOOLEAN, content : BOOLEAN]

\* echo ... >> <file> of n lines of e: the shell creates a missing file.
Appended(f, e, n) ==
    (IF f = NoFile THEN << >> ELSE f) \o [i \in 1..n |-> e]

TypeOK ==
    /\ file \in Seq(Lines) \cup {NoFile}
    /\ dirExists \in BOOLEAN
    /\ stage \in [Exps -> Stages]
    /\ flags \in [Exps -> Flags]
    /\ backup \in [Exps -> Seq(Lines) \cup {NoFile}]
    /\ idx \in [Exps -> 1..MaxCount + 1]
    /\ last \in [Exps -> BOOLEAN]
    /\ proc \in [Exps -> BOOLEAN]
    /\ resp \in [Exps -> BOOLEAN]
    /\ existed \in [Exps -> BOOLEAN]
    /\ ticks \in 0..MaxTicks
    /\ fails \in 0..MaxFail

\* Before any experiment: the file holds its own content or is missing,
\* and a missing directory has no file in it.
Init ==
    /\ file \in {<<"orig">>, NoFile}
    /\ dirExists \in BOOLEAN
    /\ file # NoFile => dirExists
    /\ stage = [e \in Exps |-> "new"]
    /\ flags \in [Exps -> Flags]
    /\ backup = [e \in Exps |-> NoFile]
    /\ idx = [e \in Exps |-> 1]
    /\ last = [e \in Exps |-> TRUE]
    /\ proc = [e \in Exps |-> FALSE]
    /\ resp = [e \in Exps |-> TRUE]
    /\ existed = [e \in Exps |-> FALSE]
    /\ ticks = 0
    /\ fails = 0

\* A command that fails on its own.
Spurious == fails < MaxFail /\ fails' = fails + 1

\* A command of e ends e's create or destroy with the response ok.
Finish(e, s, ok) ==
    /\ stage' = [stage EXCEPT ![e] = s]
    /\ resp' = [resp EXCEPT ![e] = ok]

(***************************************************************************)
(* blade create.                                                           *)
(***************************************************************************)
\* Exec: the tools echo, kill and mkdir must be there, count and interval
\* must parse to positive integers; then start.
Create(e) ==
    /\ stage[e] = "new"
    /\ \/ /\ Spurious
          /\ Finish(e, "failed", FALSE)
       \/ /\ ~flags[e].params
          /\ Finish(e, "failed", FALSE)
          /\ UNCHANGED fails
       \/ /\ flags[e].params
          /\ stage' = [stage EXCEPT ![e] =
                         IF flags[e].backup THEN "backup" ELSE "prepare"]
          /\ UNCHANGED <<resp, fails>>
    /\ UNCHANGED <<file, dirExists, flags, backup, idx, last, proc, existed, ticks>>

\* start with enable-backup: when the file exists and the backup does not,
\* cp <file> <backup>; a failed cp is logged and the append goes on.
Backup(e) ==
    /\ stage[e] = "backup"
    /\ existed' = [existed EXCEPT ![e] = file # NoFile]
    /\ \/ /\ file # NoFile
          /\ backup[e] = NoFile
          /\ \/ backup' = [backup EXCEPT ![e] = file] /\ UNCHANGED fails
             \/ Spurious /\ UNCHANGED backup
       \/ /\ file = NoFile \/ backup[e] # NoFile
          /\ UNCHANGED <<backup, fails>>
    /\ stage' = [stage EXCEPT ![e] = "prepare"]
    /\ UNCHANGED <<file, dirExists, flags, idx, last, proc, resp, ticks>>

\* appendFile before its loop: mkdir -p the missing directory, decode the
\* content and expand its DATE and RANDOM placeholders; any failure is
\* the response of start.
Prepare(e) ==
    /\ stage[e] = "prepare"
    /\ \/ /\ ~dirExists
          /\ Spurious
          /\ Finish(e, "failed", FALSE)
          /\ UNCHANGED <<dirExists, idx>>
       \/ /\ dirExists' = TRUE
          /\ \/ /\ flags[e].content
                /\ stage' = [stage EXCEPT ![e] = "echo"]
                /\ idx' = [idx EXCEPT ![e] = 1]
                /\ UNCHANGED resp
             \/ /\ ~flags[e].content
                /\ Finish(e, "failed", FALSE)
                /\ UNCHANGED idx
          /\ UNCHANGED fails
    /\ UNCHANGED <<file, flags, backup, last, proc, existed, ticks>>

\* (A count loop that runs one iteration too many.)
EchoPastCount(e) ==
    /\ stage[e] = "echo"
    /\ idx[e] <= flags[e].count + 1
    /\ file' = Appended(file, e, 1)
    /\ last' = [last EXCEPT ![e] = TRUE]
    /\ idx' = [idx EXCEPT ![e] = @ + 1]
    /\ UNCHANGED <<dirExists, stage, flags, backup, proc, resp, existed, ticks, fails>>

\* One iteration of appendFile's count loop: echo '<content>' >> <file>.
\* The loop keeps only the response of its last echo.
Echo(e) ==
    /\ stage[e] = "echo"
    /\ idx[e] <= flags[e].count
    /\ \/ /\ file' = Appended(file, e, 1)
          /\ last' = [last EXCEPT ![e] = TRUE]
          /\ UNCHANGED fails
       \/ /\ Spurious
          /\ last' = [last EXCEPT ![e] = FALSE]
          /\ UNCHANGED file
    /\ idx' = [idx EXCEPT ![e] = @ + 1]
    /\ UNCHANGED <<dirExists, stage, flags, backup, proc, resp, existed, ticks>>

\* start after the first append: a failed response is returned; without
\* an interval start returns, with one the ticker loop runs on.
StartReturn(e) ==
    /\ stage[e] = "echo"
    /\ idx[e] > flags[e].count
    /\ Finish(e, IF last[e] THEN "running" ELSE "failed", last[e])
    /\ proc' = [proc EXCEPT ![e] = last[e] /\ flags[e].interval]
    /\ UNCHANGED <<file, dirExists, flags, backup, idx, last, existed, ticks, fails>>

\* A tick of the interval loop: appendFile again; a failure is logged and
\* the loop goes on.
Tick(e) ==
    /\ proc[e]
    /\ ticks < MaxTicks
    /\ ticks' = ticks + 1
    /\ \/ file' = Appended(file, e, flags[e].count) /\ UNCHANGED fails
       \/ Spurious /\ UNCHANGED file
    /\ UNCHANGED <<dirExists, stage, flags, backup, idx, last, proc, resp, existed>>

(***************************************************************************)
(* blade destroy.                                                          *)
(***************************************************************************)
\* (A stop that does not kill the interval appender.)
DestroyNoKill(e) ==
    /\ stage[e] \in {"running", "failed"}
    /\ stage' = [stage EXCEPT ![e] = "restoring"]
    /\ UNCHANGED <<file, dirExists, flags, backup, idx, last, proc, resp, existed, ticks, fails>>

\* stop: exec.Destroy kills the chaos_os process of the experiment; found
\* or not, the file is then handled as for a one-time append.
Destroy(e) ==
    /\ stage[e] \in {"running", "failed"}
    /\ proc' = [proc EXCEPT ![e] = FALSE]
    /\ stage' = [stage EXCEPT ![e] = "restoring"]
    /\ UNCHANGED <<file, dirExists, flags, backup, idx, last, resp, existed, ticks, fails>>

\* rm <file> when it exists; a failed rm is the response.
RemoveFile(e) ==
    \/ /\ file = NoFile
       /\ Finish(e, "destroyed", TRUE)
       /\ UNCHANGED <<file, fails>>
    \/ /\ file # NoFile
       /\ file' = NoFile
       /\ Finish(e, "destroyed", TRUE)
       /\ UNCHANGED fails
    \/ /\ file # NoFile
       /\ Spurious
       /\ Finish(e, "destroyed", FALSE)
       /\ UNCHANGED file

\* handleOneTimeOperation. delete-file with enable-backup: with no backup
\* file the original "didn't exist" and the file is removed, else
\* cp <backup> <file> (a failure is the response). delete-file alone:
\* the file is removed. Without delete-file nothing is touched.
Restore(e) ==
    /\ stage[e] = "restoring"
    /\ \/ /\ flags[e].delete
          /\ ~flags[e].backup \/ backup[e] = NoFile
          /\ RemoveFile(e)
       \/ /\ flags[e].delete /\ flags[e].backup
          /\ backup[e] # NoFile
          /\ \/ /\ file' = backup[e]
                /\ stage' = [stage EXCEPT ![e] = "rmBackup"]
                /\ UNCHANGED <<resp, fails>>
             \/ /\ Spurious
                /\ Finish(e, "destroyed", FALSE)
                /\ UNCHANGED file
       \/ /\ ~flags[e].delete
          /\ Finish(e, "destroyed", TRUE)
          /\ UNCHANGED <<file, fails>>
    /\ UNCHANGED <<dirExists, flags, backup, idx, last, proc, existed, ticks>>

\* rm <backup>: its response is dropped; destroy reports success.
RemoveBackup(e) ==
    /\ stage[e] = "rmBackup"
    /\ \/ backup' = [backup EXCEPT ![e] = NoFile] /\ UNCHANGED fails
       \/ Spurious /\ UNCHANGED backup
    /\ Finish(e, "destroyed", TRUE)
    /\ UNCHANGED <<file, dirExists, flags, idx, last, proc, existed, ticks>>

Next ==
    \E e \in Exps :
        \/ Create(e)
        \/ Backup(e)
        \/ Prepare(e)
        \/ Echo(e)
        \/ StartReturn(e)
        \/ Tick(e)
        \/ Destroy(e)
        \/ Restore(e)
        \/ RemoveBackup(e)

Spec == Init /\ [][Next]_vars

(***************************************************************************)
(* Properties.                                                             *)
(***************************************************************************)

\* A destroy with delete-file that reported success leaves no line the
\* experiment appended, neither by its create nor by its interval
\* appender: the appender is killed first, and the file is either the
\* backup taken before the first append or removed (stop and
\* handleOneTimeOperation).
CleanDestroyRemovesAppendedLines ==
    \A e \in Exps :
        (stage[e] = "destroyed" /\ resp[e] /\ flags[e].delete /\ file # NoFile)
            => \A i \in 1..Len(file) : file[i] # e

\* The comment of handleOneTimeOperation: "If no backup file exists, it
\* means the original file didn't exist", so the file is removed. When
\* destroy of a delete-file, enable-backup experiment finds no backup, the
\* file did not exist when its create looked.
NoBackupMeansNoOriginal ==
    \A e \in Exps :
        (stage[e] = "restoring" /\ flags[e].delete /\ flags[e].backup
           /\ backup[e] = NoFile)
            => ~existed[e]

=============================================================================
