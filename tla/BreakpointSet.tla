---------------------------- MODULE BreakpointSet ----------------------------
(***************************************************************************)
(* What the breakpoint commands promise: a set of at most Capacity         *)
(* addresses that only "b", "bc" and "bcXXXXXX" change, and beside it at   *)
(* most one temporary breakpoint, for one run.  A temporary breakpoint at  *)
(* an address of the set is none: the set stays as it is when it goes.     *)
(***************************************************************************)
EXTENDS Naturals, FiniteSets

CONSTANTS
  Points,       (* addresses                                                *)
  Capacity      (* how many breakpoints the user can set                    *)

VARIABLES
  set,          (* the user's breakpoints                                   *)
  temporary     (* the temporary one: a set of at most one                  *)

setVars == <<set, temporary>>

SetInit == set = {} /\ temporary = {}

Insert(a) ==
  /\ temporary = {}
  /\ Cardinality(set) < Capacity
  /\ set' = set \cup {a}
  /\ UNCHANGED temporary

Delete(a) == temporary = {} /\ set' = set \ {a} /\ UNCHANGED temporary

DeleteAll == temporary = {} /\ set' = {} /\ UNCHANGED temporary

Arm(a) == temporary' = {a} \ set /\ UNCHANGED set

Disarm == temporary' = {} /\ UNCHANGED set

SetNext ==
  \/ \E a \in Points : Insert(a) \/ Delete(a) \/ Arm(a)
  \/ DeleteAll
  \/ Disarm

SetSpec == SetInit /\ [][SetNext]_setVars
=============================================================================
