--------------------------- MODULE InstructionLog ---------------------------
(***************************************************************************)
(* What the instruction history promises: the latest records since it was  *)
(* last cleared, oldest first, up to as many as it has room for.           *)
(***************************************************************************)
EXTENDS Integers, Sequences

CONSTANTS Room, Entry

VARIABLE log

LogInit == log = <<>>

Latest(s) == IF Len(s) > Room THEN Tail(s) ELSE s

Record == \E e \in Entry : log' = Latest(Append(log, e))

LogNext == Record \/ log' = <<>>
LogSpec == LogInit /\ [][LogNext]_log
=============================================================================
