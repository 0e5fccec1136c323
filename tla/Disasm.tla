------------------------------- MODULE Disasm -------------------------------
(***************************************************************************)
(* How long an instruction is, and whether a branch will be taken: the     *)
(* disassembler's answers (src/emubase/Disasm.cpp), which the debugger     *)
(* steps over and lists by, beside what the processor does with the same   *)
(* word (CProcessor::Init and the handlers of Instructions).  The two know *)
(* the instruction set by tables of their own.                             *)
(***************************************************************************)
EXTENDS Instructions

Codes == 0..65535

(* GetDigit(): octal digits 0 to 3 are the destination's register and mode, *)
(* the source's register and mode.                                          *)
Digit(w, n) == CASE n = 0 -> w % 8 [] n = 1 -> (w \div 8) % 8
                 [] n = 2 -> (w \div 64) % 8 [] n = 3 -> (w \div 512) % 8

-----------------------------------------------------------------------------
(* The processor's method map.  Instructions that take no operand, one      *)
(* (digits 0 and 1) or two.                                                 *)

MarkMethods == \o6400..\o6477

PlainMethods ==
  (0..6) \cup (\o10..\o17) \cup (\o200..\o207) \cup (\o240..\o277) \cup (\o400..\o3777)
    \cup MarkMethods \cup (\o77000..\o77777) \cup (\o100000..\o104777)

OneOperandMethods ==
  (\o100..\o177) \cup (\o300..\o377) \cup (\o4000..\o6377) \cup (\o6700..\o6777)
    \cup (IF VM1G THEN \o70000..\o70777 ELSE {}) \cup (\o74000..\o74777)
    \cup (\o105000..\o106477) \cup (\o106700..\o106777)

TwoOperandMethods == (\o10000..\o67777) \cup (\o110000..\o167777)

(* Any machine will do to see how far an operand moves PC; with mode 4 or 5 *)
(* on PC the program does not go on in line.                                *)
Still == [r |-> [n \in Registers |-> 0], psw |-> {}, fault |-> FALSE,
          mem |-> [a \in RAM \cup ROM |-> Cell(a)]]

Fetches == [o \in (0..7) \X Registers |->
  IF o[1] = 0 THEN 0 ELSE Address(Still, o[1], o[2], WordHalf).m.r[PC] \div 2]

InLine(mode, n) == ~(n = PC /\ mode \in {4, 5})

(* The words the handler of w has taken when its operands are addressed.    *)
WordsTaken(w) ==
  1 + (IF w \in OneOperandMethods \cup TwoOperandMethods
         THEN Fetches[<<Digit(w, 1), Digit(w, 0)>>] ELSE 0)
    + (IF w \in TwoOperandMethods THEN Fetches[<<Digit(w, 3), Digit(w, 2)>>] ELSE 0)

Executed(w) ==
  \/ w \in PlainMethods
  \/ w \in OneOperandMethods /\ InLine(Digit(w, 1), Digit(w, 0))
  \/ /\ w \in TwoOperandMethods
     /\ InLine(Digit(w, 1), Digit(w, 0)) /\ InLine(Digit(w, 3), Digit(w, 2))

-----------------------------------------------------------------------------
(* The disassembler.  Its masks strip the fields off the word.              *)

(* Slip: an immediate or absolute operand is listed without its word. *)
OperandWordsIndexed(mode, n) == IF mode \in {6, 7} THEN 1 ELSE 0

(* ConvertSrcToString() and ConvertDstToString() *)
OperandWords(mode, n) ==
  IF mode \in {6, 7} \/ (n = 7 /\ mode \in {2, 3}) THEN 1 ELSE 0

(* MARK among them: its digits are taken for an operand.                    *)
ListedWithOne ==
  {\o1, \o3, \o64, \o67, \o1064, \o1067} \cup (\o50..\o63) \cup (\o1050..\o1063)
ListedWithRegister == {\o4, \o70, \o71, \o72, \o73, \o74}
ListedWithTwo == (1..6) \cup (\o11..\o16)

(* DisassembleInstruction(): "number of words in the instruction" *)
DisassembleInstruction(w) ==
  CASE w \div 64 \in ListedWithOne \/ w \div 512 \in ListedWithRegister ->
         1 + OperandWords(Digit(w, 1), Digit(w, 0))
    [] w \div 4096 \in ListedWithTwo ->
         1 + OperandWords(Digit(w, 3), Digit(w, 2)) + OperandWords(Digit(w, 1), Digit(w, 0))
    [] OTHER -> 1

(* Disasm_GetJumpConditionHint(), conditional branches: bit 8 negates.      *)
Condition(branch, p) ==
  CASE branch = 1 -> p.z
    [] branch = 2 -> p.n # p.v
    [] branch = 3 -> (p.n # p.v) \/ p.z
    [] branch = \o100 -> p.n
    [] branch = \o101 -> p.c \/ p.z
    [] branch = \o102 -> p.v
    [] branch = \o103 -> p.c

JumpConditionHint(w, p) ==
  IF (w \div 256) % 2 = 0 THEN ~Condition(w \div 512, p) ELSE Condition(w \div 512, p)

-----------------------------------------------------------------------------
(* Where the map has the conditional branches. *)
BranchMethods ==
  [BNE |-> \o1000, BEQ |-> \o1400, BGE |-> \o2000, BLT |-> \o2400, BGT |-> \o3000,
   BLE |-> \o3400, BPL |-> \o100000, BMI |-> \o100400, BHI |-> \o101000, BLOS |-> \o101400,
   BVC |-> \o102000, BVS |-> \o102400, BHIS |-> \o103000, BLO |-> \o103400]

(* MARK 27, 37 and 60 to 77, which the disassembler gives the operand word  *)
(* that those digits mean elsewhere (Disasm.cpp:204-210).                   *)
CountedMarks == {\o6427, \o6437} \cup (\o6460..\o6477)

(* A word that the processor executes, going on in line, is as long in a    *)
(* listing as it is when it runs, all but these eighteen.  Words that trap  *)
(* (DIV, ASH, ASHC, on the VM1 MUL) are not judged.                         *)
LengthsAgree ==
  \A w \in Codes \ CountedMarks : Executed(w) => DisassembleInstruction(w) = WordsTaken(w)

(* The condition a listing foretells is the one the processor takes.        *)
HintsAgree ==
  \A op \in DOMAIN BranchMethods, p \in [n : BOOLEAN, z : BOOLEAN, v : BOOLEAN, c : BOOLEAN] :
    JumpConditionHint(BranchMethods[op], p) = Taken(op, p)

(* The disassembler's masks and the processor's table give the words the    *)
(* processor executes in line the same length, so that a step over          *)
(* (CmdStepOver) breaks at the word that comes next, and the branches the   *)
(* same condition; the eighteen MARKs above are the exception.              *)
ListingAgrees == LengthsAgree /\ HintsAgree
=============================================================================
