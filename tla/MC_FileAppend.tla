---------------------------- MODULE MC_FileAppend ----------------------------
(* A small instance of FileAppend: one experiment on a file that exists   *)
(* or not, in a directory that exists or not, with every flag combination *)
(* and up to two lines per append.                                         *)
EXTENDS FileAppend, TLC

CONSTANTS e1

MCExps == {e1}

=============================================================================
