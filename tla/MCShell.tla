------------------------------- MODULE MCShell -------------------------------
(***************************************************************************)
(* Shell with words written into the page windows, the extra memory of the *)
(* floppy block, the ROM and the ports.                                    *)
(***************************************************************************)
EXTENDS Shell

(* A BK-0010 with FOCAL, where block 6 is denied, one with the floppy block *)
(* and a BK-0011 without it, where 177130 is no port.                       *)
MCMachines == {c \in Configurations : c.focal \/ c.fdd # c.bk11}
                \ {c \in Configurations : c.basic}

(* Odd halves of the page windows, the extra memory of the floppy block and *)
(* a port of block 7.                                                       *)
MCWrites == {<<3, 0>>, <<5, 0>>, <<7, 1>>}

(* Page 0 is chunk 1, page 6 is chunk 0, which is always at 000000. *)
MCRegisters ==
  {[window0 |-> 0, window1 |-> 0, rom |-> r] : r \in {{}, {0, 1}, {3}}}
    \cup {[window0 |-> 6, window1 |-> 6, rom |-> {}]}

=============================================================================
