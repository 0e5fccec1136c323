--------------------------- MODULE MCInstructions ---------------------------
(* A program at 01000 with its index words, data at 02000, a stack below   *)
(* 01500, ROM at 100000; everything else is nowhere.                        *)
EXTENDS Disasm

Code == {512, 514, 516}
Stack == {828, 830, 832, 834, 836, 838}
MCRAM == Code \cup Stack \cup {1024, 1026, 1028}
MCROM == {32768, 32770}

MCCell(a) ==
  CASE a = 514 -> 2
    [] a = 516 -> 65535
    [] a = 1024 -> 32769
    [] a = 1026 -> 838
    [] a \in MCROM -> 33023
    [] OTHER -> 128

MCOperands == {<<0, 0>>, <<0, 1>>, <<1, 2>>, <<2, 7>>, <<3, 2>>, <<4, 6>>, <<2, 2>>,
               <<5, 2>>, <<6, 2>>, <<6, 7>>, <<7, 4>>}
MCOffsets == {-2, 0, 1}

Numbers == {0, 1, 128, 32767, 32768, 65535}

(* R0, R1 and the pointer R2: all pairs of numbers, and pointers to odd     *)
(* addresses, to ROM and to nowhere.  One more start has lost its program.  *)
Begins ==
  Numbers \X Numbers \X {1026} \cup {1, 65408} \X {255} \X {1027, 32768, 32769, 40000}

MCStartRegisters ==
  {[n \in Registers |-> CASE n = 0 -> b[1] [] n = 1 -> b[2] [] n = 2 -> b[3]
                          [] n = 3 -> 65535 - b[1] [] n = 4 -> 1025 [] n = 5 -> 834
                          [] n = SP -> 838 [] n = PC -> 512] : b \in Begins}
    \cup {[n \in Registers |-> 40000]}

MCStartFlags ==
  {[n |-> b, z |-> b, v |-> b, c |-> b, t |-> FALSE, u |-> 1, p |-> ~b] : b \in BOOLEAN}
=============================================================================
