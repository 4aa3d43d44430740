----------------------------- MODULE MCLogWriter ----------------------------
(* Small instances of LogWriter for TLC.                                   *)
EXTENDS LogWriter

(* Two severities: the first sink accepts one of them, the second (the     *)
(* file sink) both.                                                        *)
StdoutAndFile == <<{1}, {1, 2}>>

(* An entry of the second severity is longer than a chunk.                 *)
ShortAndLong == <<1, 3>>
============================================================================
