------------------------------ MODULE WordQueue ------------------------------
(***************************************************************************)
(* What the floppy controller promises a program that writes words: a      *)
(* queue of two.  The disk takes the oldest word; a word that finds the    *)
(* queue full replaces the youngest; when the queue runs dry the           *)
(* controller may put a checksum in its place; a reset or the end of       *)
(* writing empties it.  FloppyStream implements this with two registers.   *)
(***************************************************************************)
EXTENDS Sequences, Naturals

CONSTANTS
  Data,         (* words of the program                                     *)
  Checksum      (* the word the controller adds                             *)

VARIABLE queue

QueueInit == queue = <<>>

Put(w) == Len(queue) < 2 /\ queue' = Append(queue, w)

Replace(w) == Len(queue) = 2 /\ queue' = <<queue[1], w>>

Take == queue # <<>> /\ queue' = Tail(queue)

Finish == Len(queue) = 1 /\ queue' = <<Checksum>>

Clear == queue' = <<>>

QueueNext == (\E w \in Data : Put(w) \/ Replace(w)) \/ Take \/ Finish \/ Clear

QueueSpec == QueueInit /\ [][QueueNext]_queue
=============================================================================
