---------------------------- MODULE Instructions ----------------------------
(***************************************************************************)
(* The instructions of CProcessor that compute, move, branch and call      *)
(* (src/emubase/Processor.cpp, ExecuteRTS to GetByteAddr), with operands   *)
(* in registers and memory and the bus faults that end an instruction in   *)
(* the middle.  What is computed is Arithmetic's; traps, WAIT, RESET, RTI  *)
(* and RTT are Processor's.  The program is any: a step executes some      *)
(* instruction with some operands.  Registers of the I/O page are left to  *)
(* Board; in memory the second read of CLRB or MOVB makes no difference.   *)
(***************************************************************************)
EXTENDS Arithmetic

CONSTANTS
  RAM,          (* even addresses that can be read and written              *)
  ROM,          (* even addresses that can only be read                     *)
  Cell(_),      (* what memory begins with, and the ROM array anywhere      *)
  Operands,     (* <<mode, register>> of the operands the program uses      *)
  Offsets,      (* of branches, in words                                    *)
  Counts,       (* of SOB and MARK                                          *)
  StartRegisters, StartFlags,   (* what a program may begin with            *)
  VM1G,         (* the K1801VM1G, which has MUL                             *)
  MaxSteps      (* bound on the instructions executed                       *)

SP == 6
PC == 7
Registers == 0..7

ASSUME OperandAssumption ==
  /\ Operands \subseteq (0..7) \X Registers
  /\ Offsets \subseteq (-128)..127 /\ Counts \subseteq 0..63
ASSUME MemoryAssumption ==
  /\ \A a \in RAM \cup ROM : a \in Words /\ a % 2 = 0 /\ Cell(a) \in Words
  /\ \A a \in ROM : Cell(a + 2) \in Words
  /\ RAM \cap ROM = {}
ASSUME StartAssumption ==
  StartRegisters \subseteq [Registers -> Words] /\ StartFlags \subseteq PSWs
ASSUME StepAssumption == MaxSteps \in Nat /\ VM1G \in BOOLEAN

VARIABLES
  r,            (* m_R                                                      *)
  psw,          (* m_psw, its low byte                                      *)
  mem,          (* the memory behind GetWord() and SetWord()                *)
  fault,        (* m_RPLYrq                                                 *)
  steps         (* instructions executed, at most MaxSteps                  *)

machineVars == <<r, psw, mem, fault>>

Machine == [r |-> r, psw |-> psw, mem |-> mem, fault |-> fault]

Becomes(m) == r' = m.r /\ psw' = m.psw /\ mem' = m.mem /\ fault' = m.fault

-----------------------------------------------------------------------------
(* The bus.  An access to nowhere, and a write to ROM, is a fault; what is  *)
(* read then is 0.                                                          *)
Even(a) == a - (a % 2)

Readable(a) == Even(a) \in RAM \cup ROM

Access(m, ok) == [m EXCEPT !.fault = @ \/ ~ok]

ByteOf(w, a) == IF a % 2 = 1 THEN w \div Byte ELSE w % Byte

ByteAt(m, a) == IF Readable(a) THEN ByteOf(m.mem[Even(a)], a) ELSE 0

(* RAM is read by even addresses, ROM by any: an odd one gives a word that  *)
(* lies across two.                                                         *)
WordAt(m, a) ==
  CASE Even(a) \in RAM -> m.mem[Even(a)]
    [] Even(a) \in ROM /\ a % 2 = 0 -> m.mem[a]
    [] Even(a) \in ROM /\ a % 2 = 1 -> (m.mem[a - 1] \div Byte) + Byte * (Cell(a + 1) % Byte)
    [] OTHER -> 0

SetWord(m, a, w) ==
  IF Even(a) \in RAM THEN [m EXCEPT !.mem[Even(a)] = w] ELSE Access(m, FALSE)

LowSet(w, b) == w - (w % Byte) + b

HighSet(w, b) == (w % Byte) + Byte * b

SetByte(m, a, b) ==
  IF Even(a) \notin RAM THEN Access(m, FALSE)
  ELSE [m EXCEPT !.mem[Even(a)] = IF a % 2 = 1 THEN HighSet(@, b) ELSE LowSet(@, b)]

(* Slip: the register is not cut to sixteen bits. *)
BumpWide(m, n, by) == [m EXCEPT !.r[n] = @ + by]

Bump(m, n, by) == [m EXCEPT !.r[n] = (@ + by) % Word]

(* GetWordAddr and GetByteAddr: the address and the machine after it is     *)
(* formed.                                                                  *)
AddressBy(step, m, mode, n) ==
  LET dec == Bump(m, n, -step)
      dec2 == Bump(m, n, -2)
      next == Access(Bump(m, PC, 2), Readable(m.r[PC]))
      indexed == (next.r[n] + WordAt(m, m.r[PC])) % Word
  IN  CASE mode = 1 -> [m |-> m, ea |-> m.r[n]]
        [] mode = 2 -> [m |-> Bump(m, n, step), ea |-> m.r[n]]
        [] mode = 3 -> [m |-> Access(Bump(m, n, 2), Readable(m.r[n])), ea |-> WordAt(m, m.r[n])]
        [] mode = 4 -> [m |-> dec, ea |-> dec.r[n]]
        [] mode = 5 -> [m |-> Access(dec2, Readable(dec2.r[n])), ea |-> WordAt(m, dec2.r[n])]
        [] mode = 6 -> [m |-> next, ea |-> indexed]
        [] mode = 7 -> [m |-> Access(next, next.fault \/ Readable(indexed)), ea |-> WordAt(m, indexed)]

(* Bytes step a register by one, but never SP and PC. *)
Address(m, mode, n, h) == AddressBy(IF h = ByteHalf /\ n < 6 THEN 1 ELSE 2, m, mode, n)

(* An operand: where it is and what it is. *)
Fetched(m, mode, n, h) ==
  LET a == Address(m, mode, n, h)
  IN  CASE mode = 0  -> [m |-> m, ea |-> 0, value |-> m.r[n] % (2 * h)]
        [] mode # 0 /\ a.m.fault -> [m |-> a.m, ea |-> a.ea, value |-> 0]
        [] OTHER -> [m |-> Access(a.m, Readable(a.ea)), ea |-> a.ea,
                     value |-> IF h = ByteHalf THEN ByteAt(m, a.ea) ELSE WordAt(m, a.ea)]

(* In a register a byte leaves the other one alone, except MOVB's, whose    *)
(* sign fills it.                                                           *)
Stored(m, mode, n, ea, h, value) ==
  CASE mode = 0 /\ h = ByteHalf -> [m EXCEPT !.r[n] = LowSet(@, value)]
    [] mode = 0 /\ h # ByteHalf -> [m EXCEPT !.r[n] = value]
    [] mode # 0 /\ h = ByteHalf -> SetByte(m, ea, value)
    [] mode # 0 /\ h # ByteHalf -> SetWord(m, ea, value)

Extended(b) == IF b >= ByteHalf THEN Word - Byte + b ELSE b

(* The flags are set last: a fault leaves them as they are. *)
Flagged(m, p) == IF m.fault THEN m ELSE [m EXCEPT !.psw = p]

-----------------------------------------------------------------------------
(* Instructions with one operand *)

SingleOps == {"CLR", "COM", "INC", "DEC", "NEG", "ADC", "SBC", "TST", "ROR", "ROL", "ASR", "ASL"}

Single(op, h, x, p) ==
  CASE op = "CLR" -> CLR(h, x, p)
    [] op = "COM" -> COM(h, x, p)
    [] op = "INC" -> INC(h, x, p)
    [] op = "DEC" -> DEC(h, x, p)
    [] op = "NEG" -> NEG(h, x, p)
    [] op = "ADC" -> ADC(h, x, p)
    [] op = "SBC" -> SBC(h, x, p)
    [] op = "TST" -> TST(h, x, p)
    [] op = "ROR" -> ROR(h, x, p)
    [] op = "ROL" -> ROL(h, x, p)
    [] op = "ASR" -> ASR(h, x, p)
    [] op = "ASL" -> ASL(h, x, p)

(* Slip: the flags are set before the result is stored. *)
RewrittenFlagsFirst(o, mode, n, h, res) ==
  IF o.m.fault THEN o.m
  ELSE Stored([o.m EXCEPT !.psw = res.psw], mode, n, o.ea, h, res.value)

(* Fetch, compute, store, flags: res is what the operator gives. *)
Rewritten(o, mode, n, h, res) ==
  IF o.m.fault THEN o.m ELSE Flagged(Stored(o.m, mode, n, o.ea, h, res.value), res.psw)

ExecuteSingle(m, op, h, mode, n) ==
  LET o == Fetched(m, mode, n, h)
      res == Single(op, h, o.value, m.psw)
  IN  IF op = "TST" THEN Flagged(o.m, res.psw) ELSE Rewritten(o, mode, n, h, res)

ExecuteSXT(m, mode, n) == Rewritten(Fetched(m, mode, n, WordHalf), mode, n, WordHalf, SXT(m.psw))

ExecuteSWAB(m, mode, n) ==
  LET o == Fetched(m, mode, n, WordHalf)
  IN  Rewritten(o, mode, n, WordHalf, SWAB(o.value, m.psw))

ExecuteMTPS(m, mode, n) ==
  LET o == Fetched(m, mode, n, ByteHalf) IN Flagged(o.m, MTPS(o.value, m.psw))

(* To a register the byte goes with its sign. *)
ExecuteMFPS(m, mode, n) ==
  LET res == MFPS(m.psw)
  IN  IF mode = 0
      THEN [m EXCEPT !.r[n] = Extended(res.value), !.psw = res.psw]
      ELSE Rewritten(Fetched(m, mode, n, ByteHalf), mode, n, ByteHalf, res)

-----------------------------------------------------------------------------
(* Instructions with two operands: the source is read before the            *)
(* destination's address is formed.                                         *)

DoubleOps == {"BIC", "BIS", "ADD", "SUB"}
TestOps == {"CMP", "BIT"}

Computed(op, h, x, y, p) ==
  CASE op = "BIC" -> BIC(h, x, y, p)
    [] op = "BIS" -> BIS(h, x, y, p)
    [] op = "ADD" -> ADD(h, x, y, p)
    [] op = "SUB" -> SUB(h, x, y, p)
    [] op = "CMP" -> CMP(h, x, y, p)
    [] op = "BIT" -> BIT(h, x, y, p)

(* MOV to memory forms the address and writes. *)
ExecuteMOV(m, h, smode, sn, mode, n) ==
  LET s == Fetched(m, smode, sn, h)
      o == Fetched(s.m, mode, n, h)
      res == MOV(h, o.value, s.value, m.psw)
  IN  IF s.m.fault THEN s.m
      ELSE IF mode = 0 /\ h = ByteHalf
           THEN [s.m EXCEPT !.r[n] = Extended(s.value), !.psw = res.psw]
           ELSE Rewritten(o, mode, n, h, res)

ExecuteDouble(m, op, h, smode, sn, mode, n) ==
  LET s == Fetched(m, smode, sn, h)
      o == Fetched(s.m, mode, n, h)
      res == Computed(op, h, o.value, s.value, m.psw)
  IN  IF s.m.fault THEN s.m
      ELSE IF op \in TestOps THEN Flagged(o.m, res.psw)
      ELSE Rewritten(o, mode, n, h, res)

(* The source register is read after the destination. *)
ExecuteXOR(m, sn, mode, n) ==
  LET o == Fetched(m, mode, n, WordHalf)
  IN  Rewritten(o, mode, n, WordHalf, XOR(WordHalf, o.value, o.m.r[sn], m.psw))

(* On the K1801VM1G only; an odd register keeps the low half. *)
ExecuteMUL(m, sn, mode, n) ==
  LET o == Fetched(m, mode, n, WordHalf)
      res == MUL(o.m.r[sn], o.value, m.psw)
      odd == sn + 1 - (sn % 2)
  IN  IF o.m.fault THEN o.m
      ELSE [o.m EXCEPT !.r = [@ EXCEPT ![sn] = res.high, ![odd] = res.low], !.psw = res.psw]

(* ExecuteCCC and ExecuteSCC; none of the flags is NOP. *)
ExecuteFlags(m, flags, set) ==
  [m EXCEPT !.psw = [f \in DOMAIN @ |-> IF f \in flags THEN set ELSE @[f]]]

-----------------------------------------------------------------------------
(* Branches, jumps and calls *)

ExecuteBranch(m, op, offset) == IF Taken(op, m.psw) THEN Bump(m, PC, 2 * offset) ELSE m

ExecuteSOB(m, n, offset) ==
  LET k == Bump(m, n, -1) IN IF k.r[n] # 0 THEN Bump(k, PC, -2 * offset) ELSE k

(* Register mode has no address: a fault. *)
ExecuteJMP(m, mode, n) ==
  LET a == Address(m, mode, n, WordHalf)
  IN  IF mode = 0 THEN Access(m, FALSE)
      ELSE IF a.m.fault THEN a.m ELSE [a.m EXCEPT !.r[PC] = a.ea]

Linked(m, sn, link, target) == [m EXCEPT !.r = [[@ EXCEPT ![sn] = link] EXCEPT ![PC] = target]]

Pushed(m, w) == LET down == Bump(m, SP, -2) IN SetWord(down, down.r[SP], w)

(* A push that faults is followed by the jump all the same. *)
ExecuteJSR(m, sn, mode, n) ==
  LET a == Address(m, mode, n, WordHalf)
      down == Bump(a.m, SP, -2)
  IN  IF mode = 0 THEN Access(m, FALSE)
      ELSE IF a.m.fault THEN a.m
      ELSE Linked(Pushed(a.m, down.r[sn]), sn, down.r[PC], a.ea)

(* The program counter moves before the word is popped. *)
ExecuteRTS(m, n) ==
  LET popped == Access(Bump([m EXCEPT !.r[PC] = m.r[n]], SP, 2), Readable(m.r[SP]))
  IN  IF popped.fault THEN popped ELSE [popped EXCEPT !.r[n] = WordAt(m, m.r[SP])]

(* Slip: the frame pointer is popped before it is used. *)
ExecuteMARKPopsFirst(m, k) ==
  LET sp == (m.r[PC] + 2 * k) % Word
      frame == WordAt(m, sp)
      up == [m EXCEPT !.r = [[[@ EXCEPT ![SP] = (sp + 2) % Word] EXCEPT ![PC] = frame] EXCEPT ![5] = frame]]
  IN  Access(up, Readable(sp))

(* Leaves the arguments of a call behind: the code after it on the stack    *)
(* has skipped them, R5 holds where the caller goes on.                     *)
ExecuteMARK(m, k) ==
  LET sp == (m.r[PC] + 2 * k) % Word
      up == [m EXCEPT !.r = [[[@ EXCEPT ![SP] = (sp + 2) % Word] EXCEPT ![PC] = m.r[5]]
                                EXCEPT ![5] = WordAt(m, sp)]]
  IN  Access(up, Readable(sp))

-----------------------------------------------------------------------------
(* A step of Execute(): the instruction is fetched, PC stands behind it,    *)
(* then it is executed.  What a fault leads to is Processor's.              *)
Running == steps < MaxSteps /\ ~fault /\ Readable(r[PC])

Current == Bump(Machine, PC, 2)

Step(m) == Running /\ Becomes(m) /\ steps' = steps + 1

FetchFails ==
  /\ steps < MaxSteps /\ ~fault /\ ~Readable(r[PC])
  /\ Becomes(Access(Current, FALSE))
  /\ steps' = steps + 1

Computing ==
  \/ \E d \in Operands, op \in SingleOps, h \in {ByteHalf, WordHalf} :
       Step(ExecuteSingle(Current, op, h, d[1], d[2]))
  \/ \E s \in Operands, d \in Operands, op \in DoubleOps \cup TestOps, h \in {ByteHalf, WordHalf} :
       /\ op \in {"ADD", "SUB"} => h = WordHalf
       /\ Step(ExecuteDouble(Current, op, h, s[1], s[2], d[1], d[2]))
  \/ \E d \in Operands : Step(ExecuteSXT(Current, d[1], d[2]))
  \/ \E d \in Operands : Step(ExecuteSWAB(Current, d[1], d[2]))
  \/ \E n \in Registers, d \in Operands : Step(ExecuteXOR(Current, n, d[1], d[2]))
  \/ VM1G /\ \E n \in Registers, d \in Operands : Step(ExecuteMUL(Current, n, d[1], d[2]))

Moving ==
  \/ \E s \in Operands, d \in Operands, h \in {ByteHalf, WordHalf} :
       Step(ExecuteMOV(Current, h, s[1], s[2], d[1], d[2]))
  \/ \E d \in Operands : Step(ExecuteMTPS(Current, d[1], d[2]))
  \/ \E d \in Operands : Step(ExecuteMFPS(Current, d[1], d[2]))
  \/ \E flags \in SUBSET {"n", "z", "v", "c"}, set \in BOOLEAN :
       Step(ExecuteFlags(Current, flags, set))

Jumping ==
  \/ \E op \in Branches, k \in Offsets : Step(ExecuteBranch(Current, op, k))
  \/ \E n \in Registers, k \in Counts : Step(ExecuteSOB(Current, n, k))
  \/ \E d \in Operands : Step(ExecuteJMP(Current, d[1], d[2]))
  \/ \E n \in Registers, d \in Operands : Step(ExecuteJSR(Current, n, d[1], d[2]))
  \/ \E n \in Registers : Step(ExecuteRTS(Current, n))
  \/ \E k \in Counts : Step(ExecuteMARK(Current, k))

InstructionInit ==
  /\ r \in StartRegisters
  /\ psw \in StartFlags
  /\ mem = [a \in RAM \cup ROM |-> Cell(a)]
  /\ fault = FALSE
  /\ steps = 0

InstructionNext == FetchFails \/ Computing \/ Moving \/ Jumping

InstructionSpec == InstructionInit /\ [][InstructionNext]_<<machineVars, steps>>

-----------------------------------------------------------------------------
(* Every register and every word keeps its width, whatever is computed.     *)
MachineTypeOK ==
  /\ r \in [Registers -> Words]
  /\ psw \in PSWs
  /\ mem \in [RAM \cup ROM -> Words]
  /\ fault \in BOOLEAN
  /\ steps \in 0..MaxSteps

(* After CMP and CMPB every conditional branch orders the operands as its   *)
(* name says, signed or unsigned (ExecuteCMP with ExecuteBNE to ExecuteBLO). *)
CompareOrders ==
  /\ Orders(WordHalf, r[0], r[1], psw)
  /\ Orders(ByteHalf, r[0] % Byte, r[1] % Byte, psw)

(* Results, carries and overflows are those of the integers (ADD, SUB, ADC, *)
(* SBC, NEG, INC and DEC with the Check...ForOverflow helpers).             *)
ExactSums ==
  /\ Sums(WordHalf, r[0], r[1], psw)
  /\ Sums(ByteHalf, r[0] % Byte, r[1] % Byte, psw)

(* Numbers of two words are added, subtracted and negated by ADD, SUB, NEG, *)
(* ADC and SBC alone.                                                       *)
DoublePrecision == DoubleSums(WordHalf, r[0], r[1], r[2], r[3], psw)

(* ROR and ROL undo each other, and ROR takes back what ASL moved out.      *)
RotationRestores ==
  /\ Restores(WordHalf, r[0], psw)
  /\ Restores(ByteHalf, r[1] % Byte, psw)

(* What every program with numbers relies on, at every boundary and for     *)
(* bytes and words alike.                                                   *)
ExactArithmetic == CompareOrders /\ ExactSums /\ DoublePrecision /\ RotationRestores

(* An instruction that ends in a bus fault has written nothing and has left *)
(* the flags alone: the early returns on m_RPLYrq come before both.         *)
FaultPrecise == [][fault' => mem' = mem /\ psw' = psw]_<<machineVars, steps>>

(* Below, the machine an instruction leaves is bound as the one element of  *)
(* a set, so that it is computed once.                                      *)

(* What MOV or MOVB puts down with -(R) comes back with (R)+ and leaves the *)
(* pointer where it was, and an even SP even: GetByteAddr's step of two.    *)
PushPops ==
  \A n \in 1..SP, h \in {ByteHalf, WordHalf} :
    \A down \in {ExecuteMOV(Machine, h, 0, 0, 4, n)} : \A up \in {ExecuteMOV(down, h, 2, n, 0, 0)} :
      ~fault /\ ~up.fault /\ ~down.fault =>
        /\ up.r[n] = r[n]
        /\ up.r[0] % (2 * h) = r[0] % (2 * h)
        /\ down.r[SP] % 2 = r[SP] % 2

(* A subroutine that has kept its stack returns behind the whole call, with *)
(* every register as the call's operand left it: JSR takes the return       *)
(* address after the operand's words, and its linkage register comes back.  *)
CallReturns ==
  \A n \in Registers \ {SP}, d \in Operands :
    \A call \in {ExecuteJSR(Current, n, d[1], d[2])} :
      \A back \in {ExecuteRTS(Bump(call, PC, 2), n)} :
        ~fault /\ ~call.fault /\ ~back.fault =>
          back.r = Address(Current, d[1], d[2], WordHalf).m.r /\ back.psw = psw

(* The calling convention MARK is for: R5 is saved, arguments and a MARK    *)
(* are pushed, R5 points at it, and the subroutine returns through R5.  SP  *)
(* and R5 are then the caller's and PC is behind the call.                  *)
MarkReturns ==
  \A k \in Counts \cap 0..2 :
    \A saved \in {Pushed(Machine, r[5])} :
      \A one \in {IF k >= 1 THEN Pushed(saved, r[0]) ELSE saved} :
        \A two \in {IF k = 2 THEN Pushed(one, r[1]) ELSE one} :
          \A marked \in {ExecuteMOV(Pushed(two, 0), WordHalf, 0, SP, 0, 5)} :
            \A called \in {ExecuteJSR(marked, PC, 1, 2)} :
              \A end \in {ExecuteMARK(Bump(ExecuteRTS(called, 5), PC, 2), k)} :
                ~fault /\ ~called.fault /\ ~end.fault =>
                  end.r[SP] = r[SP] /\ end.r[5] = r[5] /\ end.r[PC] = r[PC]

(* Whichever way a program uses its stack, it comes back.                   *)
StacksReturn == PushPops /\ CallReturns /\ MarkReturns
=============================================================================
