------------------------------ MODULE Countdown ------------------------------
(***************************************************************************)
(* What the system timer promises: a number of ticks to go, the number the *)
(* next period will have, and a signal when a period ends.  0 ticks to go  *)
(* is a timer at rest.                                                     *)
(***************************************************************************)
EXTENDS Naturals

VARIABLES
  left,       (* ticks to the end of this period                             *)
  next,       (* ticks in the period after it; 0: none                       *)
  enabled,    (* the end of the period is signalled                          *)
  signal,     (* signals that wait for the program                           *)
  most,       (* as many as it can keep                                      *)
  due         (* the clock ticks before the program goes on                  *)

vars == <<left, next, enabled, signal, most, due>>

Init ==
  /\ left = 0
  /\ next = 0
  /\ enabled = FALSE
  /\ signal = 0
  /\ most \in {1, 2}
  /\ due = FALSE

(* A tick at rest, inside a period, and its last one: no tick is skipped or *)
(* counted twice, nothing else ends a period, and an enabled end is         *)
(* signalled, as long as a signal can be kept.                              *)
Rest ==
  /\ left = 0
  /\ UNCHANGED <<left, next, enabled, signal, most>>

Count ==
  /\ left > 1
  /\ left' = left - 1
  /\ UNCHANGED <<next, enabled, signal, most>>

Elapse ==
  /\ left = 1
  /\ left' = next
  /\ signal' = IF enabled /\ signal < most THEN signal + 1 ELSE signal
  /\ enabled' = (enabled /\ next # 0)
  /\ UNCHANGED <<next, most>>

Tick ==
  /\ due
  /\ due' = FALSE
  /\ Rest \/ Count \/ Elapse

(* The program sets another length for the next period, answers a signal,   *)
(* or starts or stops the timer: then a period begins anew.                 *)
Relength ==
  /\ next' \in Nat
  /\ UNCHANGED <<left, enabled, signal, most>>

Answer ==
  /\ signal' \in 0..signal
  /\ UNCHANGED <<left, next, enabled, most>>

Start ==
  /\ left' \in Nat
  /\ next' \in Nat
  /\ enabled' \in BOOLEAN
  /\ signal' \in 0..most
  /\ most' = most

Program ==
  /\ ~due
  /\ due' \in BOOLEAN
  /\ Relength \/ Answer \/ Start

Next == Tick \/ Program

Spec == Init /\ [][Next]_vars
=============================================================================
