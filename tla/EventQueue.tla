----------------------------- MODULE EventQueue -----------------------------
(***************************************************************************)
(* What the emulator shell promises for keyboard events: a queue of at     *)
(* most Limit events; an event that finds it full is dropped, the oldest   *)
(* one leaves first.  The board holds a key after a press and lets it go   *)
(* after a release; the silent event leaves without the board hearing of   *)
(* it.  KeyQueue implements it with a ring.                                *)
(***************************************************************************)
EXTENDS Naturals, Sequences

CONSTANTS
  Items,        (* keyboard events                                          *)
  Presses,      (* those that press a key                                   *)
  Silent,       (* the event that is lost on its way to the board           *)
  Limit         (* KEYEVENT_QUEUE_SIZE                                      *)

VARIABLES
  events,       (* those that wait, the oldest first                        *)
  held          (* the board holds a key down                               *)

EqInit == events = <<>> /\ held = FALSE

Accept(e) ==
  /\ Len(events) < Limit
  /\ events' = Append(events, e)
  /\ UNCHANGED held

Deliver ==
  /\ events # <<>>
  /\ events' = Tail(events)
  /\ held' = IF Head(events) = Silent THEN held ELSE Head(events) \in Presses

EqNext == (\E e \in Items : Accept(e)) \/ Deliver

EqSpec == EqInit /\ [][EqNext]_<<events, held>>
=============================================================================
