----------------------------- MODULE TrackStore -----------------------------
(***************************************************************************)
(* What the floppy controller promises about the disk images: each image   *)
(* holds its tracks, and beside the images there is at most one track, in  *)
(* one place of one image, that was changed and not saved yet.  Changes    *)
(* are saved in their own place or lost as a whole; nothing else ever      *)
(* changes an image.  The module Floppy implements this.                   *)
(***************************************************************************)
CONSTANTS
  Images,       (* image files                                              *)
  Positions,    (* places for a track in an image: track number and side    *)
  Contents      (* what a track can hold                                    *)

VARIABLES
  saved,        (* the image files                                          *)
  pending       (* the unsaved track and its place: a set of at most one    *)

storeVars == <<saved, pending>>

Unsaved == [image : Images, place : Positions, content : Contents]

StoreInit ==
  /\ saved \in [Images -> [Positions -> Contents]]
  /\ pending = {}

(* A second track cannot be changed before the first is saved or lost. *)
Change(u) ==
  /\ \A p \in pending : p.image = u.image /\ p.place = u.place
  /\ pending' = {u}
  /\ UNCHANGED saved

Save ==
  /\ \E p \in pending : saved' = [saved EXCEPT ![p.image][p.place] = p.content]
  /\ pending' = {}

Lose == pending' = {} /\ UNCHANGED saved

StoreNext == (\E u \in Unsaved : Change(u)) \/ Save \/ Lose

StoreSpec == StoreInit /\ [][StoreNext]_storeVars
=============================================================================
