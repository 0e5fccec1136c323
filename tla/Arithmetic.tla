----------------------------- MODULE Arithmetic -----------------------------
(***************************************************************************)
(* What the instructions of the K1801VM1 compute (src/emubase/             *)
(* Processor.cpp, ExecuteCLR to ExecuteSUB): the result and the flags, for *)
(* bytes and words alike.  h is the weight of the sign bit; numbers are    *)
(* 0..2h-1, as in the code's uint8_t and uint16_t.  x is the operand or    *)
(* the destination, y the source.  Each operator returns the result and    *)
(* the PSW; TST, CMP and BIT have a result that is not stored.             *)
(***************************************************************************)
EXTENDS Integers

(* The weights of the sign bits and of the bit above them. *)
ByteHalf == 128
Byte == 2 * ByteHalf
WordHalf == ByteHalf * Byte
Word == 2 * WordHalf

Bytes == 0..(Byte - 1)
Words == 0..(Word - 1)

(* The PSW's low byte: flags, trace bit, two bits without meaning, priority. *)
PSWs == [n : BOOLEAN, z : BOOLEAN, v : BOOLEAN, c : BOOLEAN, t : BOOLEAN, u : 0..3, p : BOOLEAN]

Bit(b) == IF b THEN 1 ELSE 0

(* What a sum, a difference or a doubling keeps of its bits. *)
Wrap(h, u) == IF u < 0 THEN u + 2 * h ELSE IF u >= 2 * h THEN u - 2 * h ELSE u

Signed(h, x) == IF x >= h THEN x - 2 * h ELSE x

(* SetN and SetZ come in a pair nearly everywhere. *)
Result(h, x, v, c, psw) ==
  [value |-> x, psw |-> [psw EXCEPT !.n = x >= h, !.z = x = 0, !.v = v, !.c = c]]

-----------------------------------------------------------------------------
(* One operand *)

CLR(h, x, psw) == Result(h, 0, FALSE, FALSE, psw)

COM(h, x, psw) == Result(h, 2 * h - 1 - x, FALSE, TRUE, psw)

INC(h, x, psw) == LET u == Wrap(h, x + 1) IN Result(h, u, u = h, psw.c, psw)

DEC(h, x, psw) == LET u == Wrap(h, x - 1) IN Result(h, u, u = h - 1, psw.c, psw)

NEG(h, x, psw) == LET u == Wrap(h, 0 - x) IN Result(h, u, u = h, u # 0, psw)

(* Slip: the carry is taken from the sum's sign. *)
ADCSign(h, x, psw) ==
  LET u == Wrap(h, x + Bit(psw.c)) IN Result(h, u, psw.c /\ u = h, psw.c /\ u >= h, psw)

ADC(h, x, psw) ==
  LET u == Wrap(h, x + Bit(psw.c)) IN Result(h, u, psw.c /\ u = h, psw.c /\ u = 0, psw)

SBC(h, x, psw) ==
  LET u == Wrap(h, x - Bit(psw.c))
  IN  Result(h, u, psw.c /\ u = h - 1, psw.c /\ u = 2 * h - 1, psw)

TST(h, x, psw) == Result(h, x, FALSE, FALSE, psw)

(* V is the exclusive or of the new N and C. *)
Shifted(h, u, c, psw) == Result(h, u, (u >= h) # c, c, psw)

ROR(h, x, psw) == Shifted(h, x \div 2 + h * Bit(psw.c), x % 2 = 1, psw)

ROL(h, x, psw) == Shifted(h, Wrap(h, 2 * x) + Bit(psw.c), x >= h, psw)

ASR(h, x, psw) == Shifted(h, x \div 2 + h * Bit(x >= h), x % 2 = 1, psw)

ASL(h, x, psw) == Shifted(h, Wrap(h, 2 * x), x >= h, psw)

(* N stays. *)
SXT(psw) ==
  [value |-> IF psw.n THEN Word - 1 ELSE 0,
   psw   |-> [psw EXCEPT !.z = ~psw.n, !.v = FALSE]]

(* N and Z are those of the low byte. *)
SWAB(x, psw) ==
  LET low == x \div Byte
  IN  [value |-> low + Byte * (x % Byte),
       psw   |-> Result(ByteHalf, low, FALSE, FALSE, psw).psw]

(* ExecuteMFPS: the byte to store; N is the priority bit. *)
MFPS(psw) ==
  LET b == 128 * Bit(psw.p) + 32 * psw.u + 16 * Bit(psw.t)
             + 8 * Bit(psw.n) + 4 * Bit(psw.z) + 2 * Bit(psw.v) + Bit(psw.c)
  IN  [value |-> b, psw |-> [psw EXCEPT !.n = psw.p, !.z = b = 0, !.v = FALSE]]

(* ExecuteMTPS: T stays. *)
MTPS(x, psw) ==
  LET On(weight) == (x \div weight) % 2 = 1
  IN  [n |-> On(8), z |-> On(4), v |-> On(2), c |-> On(1), t |-> psw.t,
       u |-> (x \div 32) % 4, p |-> On(128)]

-----------------------------------------------------------------------------
(* Two operands *)

(* The & of two numbers, from those of their low and of their high parts.   *)
And1(x, y) == x * y
And2(x, y) == And1(x % 2, y % 2) + 2 * And1(x \div 2, y \div 2)
And4(x, y) == And2(x % 4, y % 4) + 4 * And2(x \div 4, y \div 4)
And8(x, y) == And4(x % 16, y % 16) + 16 * And4(x \div 16, y \div 16)
And(x, y) == And8(x % Byte, y % Byte) + Byte * And8(x \div Byte, y \div Byte)

MOV(h, x, y, psw) == Result(h, y, FALSE, psw.c, psw)

BIT(h, x, y, psw) == Result(h, And(x, y), FALSE, psw.c, psw)

BIC(h, x, y, psw) == Result(h, x - And(x, y), FALSE, psw.c, psw)

BIS(h, x, y, psw) == Result(h, x + y - And(x, y), FALSE, psw.c, psw)

XOR(h, x, y, psw) == Result(h, x + y - 2 * And(x, y), FALSE, psw.c, psw)

(* CheckAddForOverflow: ((~a ^ b) & (a ^ sum)) & sign bit.                  *)
AddOverflows(h, a, b) ==
  LET Negative(u) == Wrap(h, u) >= h
  IN  Negative(a) = Negative(b) /\ Negative(a) # Negative(a + b)

AddCarries(h, a, b) == a + b >= 2 * h

(* CheckSubForOverflow: ((a ^ b) & (~b ^ sum)) & sign bit. *)
SubOverflows(h, a, b) ==
  LET Negative(u) == Wrap(h, u) >= h
  IN  Negative(a) # Negative(b) /\ Negative(b) = Negative(a - b)

SubCarries(h, a, b) == a - b < 0

ADD(h, x, y, psw) == Result(h, Wrap(h, x + y), AddOverflows(h, x, y), AddCarries(h, x, y), psw)

SUB(h, x, y, psw) == Result(h, Wrap(h, x - y), SubOverflows(h, x, y), SubCarries(h, x, y), psw)

(* CMP subtracts the destination from the source. *)
CMP(h, x, y, psw) == SUB(h, y, x, psw)

(* MUL: the product's high word, its low word, and the flags. *)
MUL(x, y, psw) ==
  LET product == Signed(WordHalf, x) * Signed(WordHalf, y)
  IN  [high |-> (product \div Word) % Word,
       low  |-> product % Word,
       psw  |-> [psw EXCEPT !.n = product < 0, !.z = product = 0, !.v = FALSE,
                            !.c = product >= WordHalf \/ product <= -WordHalf]]

(* The conditions of the branches *)
Taken(op, psw) ==
  CASE op = "BR"   -> TRUE
    [] op = "BNE"  -> ~psw.z
    [] op = "BEQ"  -> psw.z
    [] op = "BGE"  -> psw.n = psw.v
    [] op = "BLT"  -> psw.n # psw.v
    [] op = "BGT"  -> ~(psw.n # psw.v \/ psw.z)
    [] op = "BLE"  -> psw.n # psw.v \/ psw.z
    [] op = "BPL"  -> ~psw.n
    [] op = "BMI"  -> psw.n
    [] op = "BHI"  -> ~(psw.z \/ psw.c)
    [] op = "BLOS" -> psw.z \/ psw.c
    [] op = "BVC"  -> ~psw.v
    [] op = "BVS"  -> psw.v
    [] op = "BHIS" -> ~psw.c
    [] op = "BLO"  -> psw.c

Branches == {"BR", "BNE", "BEQ", "BGE", "BLT", "BGT", "BLE", "BPL", "BMI", "BHI", "BLOS",
             "BVC", "BVS", "BHIS", "BLO"}

-----------------------------------------------------------------------------
(* After a comparison the branches order the operands: BLT and the like as  *)
(* signed numbers, BLO and the like as unsigned ones.                       *)
Orders(h, x, y, psw) ==
  LET f == CMP(h, x, y, psw).psw
      less == Signed(h, y) < Signed(h, x)
  IN  /\ Taken("BEQ", f) <=> x = y
      /\ Taken("BNE", f) <=> x # y
      /\ Taken("BLT", f) <=> less
      /\ Taken("BGE", f) <=> ~less
      /\ Taken("BLE", f) <=> less \/ x = y
      /\ Taken("BGT", f) <=> ~less /\ x # y
      /\ Taken("BLO", f) <=> y < x
      /\ Taken("BHIS", f) <=> y >= x
      /\ Taken("BLOS", f) <=> y <= x
      /\ Taken("BHI", f) <=> y > x

(* A result with its flags is the number `exact': C, the carry or borrow,   *)
(* makes up for what does not fit unsigned, V tells what does not fit signed. *)
Exact(h, res, unsigned, carry, signed) ==
  /\ res.value + carry * 2 * h * Bit(res.psw.c) = unsigned
  /\ res.psw.v <=> signed < -h \/ signed >= h
  /\ ~res.psw.v => Signed(h, res.value) = signed

Sums(h, x, y, psw) ==
  LET c == Bit(psw.c)
  IN  /\ Exact(h, ADD(h, x, y, psw), x + y, 1, Signed(h, x) + Signed(h, y))
      /\ Exact(h, SUB(h, x, y, psw), x - y, -1, Signed(h, x) - Signed(h, y))
      /\ Exact(h, ADC(h, x, psw), x + c, 1, Signed(h, x) + c)
      /\ Exact(h, SBC(h, x, psw), x - c, -1, Signed(h, x) - c)
      /\ Exact(h, NEG(h, x, psw), -x, -1, -Signed(h, x))
      /\ INC(h, x, psw).psw.v <=> Signed(h, x) + 1 = h
      /\ DEC(h, x, psw).psw.v <=> Signed(h, x) - 1 < -h

(* Numbers of two words, by the instructions meant for them: ADC and SBC    *)
(* carry from the low word to the high one.                                 *)
DoubleSums(h, x1, x0, y1, y0, psw) ==
  LET addLow == ADD(h, x0, y0, psw)
      adc == ADC(h, x1, addLow.psw)
      subLow == SUB(h, x0, y0, psw)
      sbc == SBC(h, x1, subLow.psw)
      negLow == NEG(h, x0, psw)
  IN  /\ ADD(h, adc.value, y1, adc.psw).value = Wrap(h, x1 + y1 + Bit(x0 + y0 >= 2 * h))
      /\ SUB(h, sbc.value, y1, sbc.psw).value = Wrap(h, x1 - y1 - Bit(x0 < y0))
      /\ SBC(h, NEG(h, x1, psw).value, negLow.psw).value = Wrap(h, -x1 - Bit(x0 # 0))

(* A rotation and the opposite one leave number and carry as they were; so  *)
(* does a shift with the rotation that takes back what it moved out.        *)
Restores(h, x, psw) ==
  LET Same(res) == res.value = x /\ res.psw.c = psw.c
      right == ROR(h, x, psw)
      left == ROL(h, x, psw)
      shifted == ASL(h, x, psw)
  IN  /\ Same(ROL(h, right.value, right.psw))
      /\ Same(ROR(h, left.value, left.psw))
      /\ ROR(h, shifted.value, shifted.psw).value = x
=============================================================================
