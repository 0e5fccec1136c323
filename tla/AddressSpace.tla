---------------------------- MODULE AddressSpace ----------------------------
(***************************************************************************)
(* What the memory promises to whoever uses it, with no word of registers: *)
(* eight blocks that each show a page.  A write changes one word of the    *)
(* page shown and nothing else; paging changes what is shown and no word,  *)
(* and only where this register may; a saved state brings back every word, *)
(* and, on the machine with page registers, every block's page as well.    *)
(***************************************************************************)
EXTENDS Integers

CONSTANTS
  Offset,       (* words of a page                                           *)
  Content,      (* what a word may hold                                      *)
  Empty,        (* what it holds at first                                    *)
  Movable       (* the sets of blocks one register can change                *)

VARIABLES
  view,         (* the page each block shows                                 *)
  cells,        (* the words of the RAM pages                                *)
  firm,         (* the ROM banks                                             *)
  paged,        (* the machine has page registers                            *)
  kept          (* the saved state: a set of one, or of none                 *)

spaceVars == <<view, cells, firm, paged, kept>>

Fresh == \A p \in DOMAIN cells : \A o \in Offset : cells[p][o] = Empty

SpaceInit == Fresh /\ kept = {}

(* The word itself may be the one that was there. *)
Write ==
  /\ \E b \in DOMAIN view, o \in Offset, c \in Content :
       /\ view[b].kind = "RAM"
       /\ cells' = [cells EXCEPT ![view[b].page][o] = c]
  /\ UNCHANGED <<view, firm, paged, kept>>

Remap ==
  /\ \E some \in Movable : \A b \in DOMAIN view \ some : view'[b] = view[b]
  /\ DOMAIN view' = DOMAIN view
  /\ UNCHANGED <<cells, firm, paged, kept>>

Saved == [view |-> view, cells |-> cells, firm |-> firm, paged |-> paged]

Keep ==
  /\ kept' \in {{}, {Saved}}
  /\ UNCHANGED <<view, cells, firm, paged>>

Restore ==
  /\ \E s \in kept :
       /\ cells' = s.cells /\ firm' = s.firm /\ paged' = s.paged
       /\ s.paged => view' = s.view
  /\ UNCHANGED kept

Renew == Fresh' /\ UNCHANGED kept

SpaceNext == Write \/ Remap \/ Keep \/ Restore \/ Renew
SpaceSpec == SpaceInit /\ [][SpaceNext]_spaceVars
=============================================================================
