------------------------- MODULE Instructions_proofs -------------------------
(***************************************************************************)
(* Theorems about what the instructions compute, for numbers of every      *)
(* size (h is any weight of a sign bit); that the machine keeps its type   *)
(* through them, so that this holds in its registers; that its stacks come *)
(* back; and that the disassembler reads the same instruction set.         *)
(***************************************************************************)
EXTENDS Disasm, TLAPS

Numbers(h) == 0..(2 * h - 1)

(* A wrapped number is in range, and differs by a whole turn or not at all. *)
LEMMA WrapCases ==
  ASSUME NEW h \in Nat \ {0}, NEW u \in (-(2 * h))..(4 * h - 1)
  PROVE  /\ Wrap(h, u) \in Numbers(h)
         /\ u < 0 => Wrap(h, u) = u + 2 * h
         /\ u >= 2 * h => Wrap(h, u) = u - 2 * h
         /\ u >= 0 /\ u < 2 * h => Wrap(h, u) = u
BY DEF Wrap, Numbers

(* The fields of a result. *)
LEMMA ResultFields ==
  ASSUME NEW h \in Nat \ {0}, NEW x, NEW v, NEW c, NEW p \in PSWs
  PROVE  LET res == Result(h, x, v, c, p)
         IN  res.value = x /\ res.psw.n = (x >= h) /\ res.psw.z = (x = 0)
               /\ res.psw.v = v /\ res.psw.c = c
BY DEF Result, PSWs

LEMMA ResultPSW ==
  ASSUME NEW h \in Nat \ {0}, NEW x \in Int, NEW v \in BOOLEAN, NEW c \in BOOLEAN, NEW p \in PSWs
  PROVE  Result(h, x, v, c, p).psw \in PSWs
<1>1. \A n \in BOOLEAN, z \in BOOLEAN : [p EXCEPT !.n = n, !.z = z, !.v = v, !.c = c] \in PSWs
  BY DEF PSWs
<1>2. (x >= h) \in BOOLEAN /\ (x = 0) \in BOOLEAN
  OBVIOUS
<1>3. Result(h, x, v, c, p).psw = [p EXCEPT !.n = x >= h, !.z = x = 0, !.v = v, !.c = c]
  BY DEF Result
<1> QED
  BY <1>1, <1>2, <1>3, Zenon

(* The overflow of a difference, read off its sign, is that it does not fit *)
(* as a signed number.                                                      *)
LEMMA SubOverflow ==
  ASSUME NEW h \in Nat \ {0}, NEW a \in Numbers(h), NEW b \in Numbers(h)
  PROVE  /\ SubOverflows(h, a, b) <=> Signed(h, a) - Signed(h, b) < -h \/ Signed(h, a) - Signed(h, b) >= h
         /\ ~SubOverflows(h, a, b) => Signed(h, Wrap(h, a - b)) = Signed(h, a) - Signed(h, b)
<1>1. Wrap(h, a) = a /\ Wrap(h, b) = b
  BY DEF Wrap, Numbers
<1>2. SubOverflows(h, a, b) <=> (a >= h) # (b >= h) /\ (b >= h) = (Wrap(h, a - b) >= h)
  BY <1>1 DEF SubOverflows
<1>3. CASE a >= h /\ b >= h
  BY <1>2, <1>3 DEF Wrap, Signed, Numbers
<1>4. CASE a >= h /\ ~(b >= h)
  BY <1>2, <1>4 DEF Wrap, Signed, Numbers
<1>5. CASE ~(a >= h) /\ b >= h
  BY <1>2, <1>5 DEF Wrap, Signed, Numbers
<1>6. CASE ~(a >= h) /\ ~(b >= h)
  BY <1>2, <1>6 DEF Wrap, Signed, Numbers
<1> QED
  BY <1>3, <1>4, <1>5, <1>6

(* The same for a sum. *)
LEMMA AddOverflow ==
  ASSUME NEW h \in Nat \ {0}, NEW a \in Numbers(h), NEW b \in Numbers(h)
  PROVE  /\ AddOverflows(h, a, b) <=> Signed(h, a) + Signed(h, b) < -h \/ Signed(h, a) + Signed(h, b) >= h
         /\ ~AddOverflows(h, a, b) => Signed(h, Wrap(h, a + b)) = Signed(h, a) + Signed(h, b)
<1>1. Wrap(h, a) = a /\ Wrap(h, b) = b
  BY DEF Wrap, Numbers
<1>2. AddOverflows(h, a, b) <=> (a >= h) = (b >= h) /\ (a >= h) # (Wrap(h, a + b) >= h)
  BY <1>1 DEF AddOverflows
<1>3. CASE a >= h /\ b >= h
  BY <1>2, <1>3 DEF Wrap, Signed, Numbers
<1>4. CASE a >= h /\ ~(b >= h)
  BY <1>2, <1>4 DEF Wrap, Signed, Numbers
<1>5. CASE ~(a >= h) /\ b >= h
  BY <1>2, <1>5 DEF Wrap, Signed, Numbers
<1>6. CASE ~(a >= h) /\ ~(b >= h)
  BY <1>2, <1>6 DEF Wrap, Signed, Numbers
<1> QED
  BY <1>3, <1>4, <1>5, <1>6

(* After CMP every conditional branch orders the operands as its name says  *)
(* (ExecuteCMP, ExecuteCMPB and the conditions of ExecuteBNE to ExecuteBLO). *)
THEOREM BranchesOrder ==
  ASSUME NEW h \in Nat \ {0}, NEW x \in Numbers(h), NEW y \in Numbers(h), NEW p \in PSWs
  PROVE  Orders(h, x, y, p)
<1> DEFINE u == Wrap(h, y - x)
           f == CMP(h, x, y, p).psw
           less == Signed(h, y) < Signed(h, x)
<1>1. /\ f.n = (u >= h) /\ f.z = (u = 0)
      /\ f.v = SubOverflows(h, y, x) /\ f.c = SubCarries(h, y, x)
  BY ResultFields DEF CMP, SUB
<1>2. u = 0 <=> x = y
  BY DEF Wrap, Numbers
<1>3. SubCarries(h, y, x) <=> y < x
  BY DEF SubCarries, Numbers
<1>4. (u >= h) # SubOverflows(h, y, x) <=> less
  <2>1. CASE SubOverflows(h, y, x)
    <3>1. Signed(h, y) - Signed(h, x) < -h \/ Signed(h, y) - Signed(h, x) >= h
      BY <2>1, SubOverflow
    <3>2. u >= h <=> ~less
      BY <3>1 DEF Wrap, Signed, Numbers
    <3> QED
      BY <2>1, <3>2
  <2>2. CASE ~SubOverflows(h, y, x)
    <3>1. Signed(h, u) = Signed(h, y) - Signed(h, x)
      BY <2>2, SubOverflow
    <3>2. u >= h <=> Signed(h, u) < 0
      BY DEF Signed, Wrap, Numbers
    <3>3. Signed(h, x) \in Int /\ Signed(h, y) \in Int
      BY DEF Signed, Numbers
    <3>4. u >= h <=> less
      BY <3>1, <3>2, <3>3
    <3>5. CASE less
      BY <2>2, <3>4, <3>5
    <3>6. CASE ~less
      <4>1. SubOverflows(h, y, x) = FALSE /\ (u >= h) = FALSE
        BY <2>2, <3>4, <3>6 DEF SubOverflows
      <4> QED
        BY <4>1, <3>6
    <3> QED
      BY <3>5, <3>6
  <2> QED
    BY <2>1, <2>2
<1>5. f.n \in BOOLEAN /\ f.z \in BOOLEAN /\ f.v \in BOOLEAN /\ f.c \in BOOLEAN
  BY <1>1 DEF SubOverflows, SubCarries
<1>6. /\ y >= x <=> ~(y < x)
      /\ y <= x <=> (y < x \/ x = y)
      /\ y > x <=> ~(y < x \/ x = y)
  BY DEF Numbers
<1>9. /\ f.z <=> x = y
      /\ f.c <=> y < x
      /\ f.n # f.v <=> less
  <2> HIDE DEF f, less, u
  <2> QED
    BY <1>1, <1>2, <1>3, <1>4, Zenon
<1> HIDE DEF f, less, u
<1>7. /\ Taken("BEQ", f) = f.z /\ Taken("BNE", f) = ~f.z
      /\ Taken("BLT", f) = (f.n # f.v) /\ Taken("BGE", f) = (f.n = f.v)
      /\ Taken("BLE", f) = (f.n # f.v \/ f.z) /\ Taken("BGT", f) = ~(f.n # f.v \/ f.z)
      /\ Taken("BLO", f) = f.c /\ Taken("BHIS", f) = ~f.c
      /\ Taken("BLOS", f) = (f.z \/ f.c) /\ Taken("BHI", f) = ~(f.z \/ f.c)
  BY DEF Taken
<1>8. /\ Taken("BEQ", f) <=> x = y
      /\ Taken("BNE", f) <=> x # y
      /\ Taken("BLT", f) <=> less
      /\ Taken("BGE", f) <=> ~less
      /\ Taken("BLE", f) <=> less \/ x = y
      /\ Taken("BGT", f) <=> ~less /\ x # y
      /\ Taken("BLO", f) <=> y < x
      /\ Taken("BHIS", f) <=> ~(y < x)
      /\ Taken("BLOS", f) <=> (y < x \/ x = y)
      /\ Taken("BHI", f) <=> ~(y < x \/ x = y)
  BY <1>5, <1>7, <1>9
<1> QED
  BY <1>6, <1>8 DEF Orders, f, less

(* Results, carries and overflows of ADD, SUB, ADC, SBC, NEG, INC and DEC   *)
(* are those of the integers.                                               *)
THEOREM SumsExact ==
  ASSUME NEW h \in Nat \ {0}, NEW x \in Numbers(h), NEW y \in Numbers(h), NEW p \in PSWs
  PROVE  Sums(h, x, y, p)
<1> DEFINE c == Bit(p.c)
<1>1. p.c \in BOOLEAN /\ c \in 0..1 /\ (p.c <=> c = 1)
  BY DEF PSWs, Bit
<1>2. Exact(h, ADD(h, x, y, p), x + y, 1, Signed(h, x) + Signed(h, y))
  <2>1. /\ ADD(h, x, y, p).value = Wrap(h, x + y)
        /\ ADD(h, x, y, p).psw.v = AddOverflows(h, x, y)
        /\ ADD(h, x, y, p).psw.c = AddCarries(h, x, y)
    BY ResultFields DEF ADD
  <2>2. Wrap(h, x + y) + 1 * 2 * h * Bit(AddCarries(h, x, y)) = x + y
    BY DEF Wrap, Bit, AddCarries, Numbers
  <2> QED
    BY <2>1, <2>2, AddOverflow DEF Exact
<1>3. Exact(h, SUB(h, x, y, p), x - y, -1, Signed(h, x) - Signed(h, y))
  <2>1. /\ SUB(h, x, y, p).value = Wrap(h, x - y)
        /\ SUB(h, x, y, p).psw.v = SubOverflows(h, x, y)
        /\ SUB(h, x, y, p).psw.c = SubCarries(h, x, y)
    BY ResultFields DEF SUB
  <2>2. Wrap(h, x - y) + (-1) * 2 * h * Bit(SubCarries(h, x, y)) = x - y
    BY DEF Wrap, Bit, SubCarries, Numbers
  <2> QED
    BY <2>1, <2>2, SubOverflow DEF Exact
<1>4. Exact(h, ADC(h, x, p), x + c, 1, Signed(h, x) + c)
  <2> DEFINE u == Wrap(h, x + c)
             carry == p.c /\ u = 0
  <2>1. /\ ADC(h, x, p).value = u
        /\ ADC(h, x, p).psw.v = (p.c /\ u = h)
        /\ ADC(h, x, p).psw.c = carry
    BY ResultFields DEF ADC
  <2>2. u + 1 * 2 * h * Bit(carry) = x + c
    BY <1>1 DEF Wrap, Bit, Numbers
  <2>3. /\ p.c /\ u = h <=> Signed(h, x) + c < -h \/ Signed(h, x) + c >= h
        /\ ~(p.c /\ u = h) => Signed(h, u) = Signed(h, x) + c
    <3>1. CASE c = 0
      BY <1>1, <3>1 DEF Wrap, Signed, Numbers
    <3>2. CASE c = 1
      BY <1>1, <3>2 DEF Wrap, Signed, Numbers
    <3> QED
      BY <1>1, <3>1, <3>2
  <2> QED
    BY <2>1, <2>2, <2>3 DEF Exact
<1>5. Exact(h, SBC(h, x, p), x - c, -1, Signed(h, x) - c)
  <2> DEFINE u == Wrap(h, x - c)
             carry == p.c /\ u = 2 * h - 1
  <2>1. /\ SBC(h, x, p).value = u
        /\ SBC(h, x, p).psw.v = (p.c /\ u = h - 1)
        /\ SBC(h, x, p).psw.c = carry
    BY ResultFields DEF SBC
  <2>2. u + (-1) * 2 * h * Bit(carry) = x - c
    BY <1>1 DEF Wrap, Bit, Numbers
  <2>3. /\ p.c /\ u = h - 1 <=> Signed(h, x) - c < -h \/ Signed(h, x) - c >= h
        /\ ~(p.c /\ u = h - 1) => Signed(h, u) = Signed(h, x) - c
    <3>1. CASE c = 0
      BY <1>1, <3>1 DEF Wrap, Signed, Numbers
    <3>2. CASE c = 1
      BY <1>1, <3>2 DEF Wrap, Signed, Numbers
    <3> QED
      BY <1>1, <3>1, <3>2
  <2> QED
    BY <2>1, <2>2, <2>3 DEF Exact
<1>6. Exact(h, NEG(h, x, p), -x, -1, -Signed(h, x))
  <2> DEFINE u == Wrap(h, 0 - x)
             carry == u # 0
  <2>1. /\ NEG(h, x, p).value = u
        /\ NEG(h, x, p).psw.v = (u = h)
        /\ NEG(h, x, p).psw.c = carry
    BY ResultFields DEF NEG
  <2>2. u + (-1) * 2 * h * Bit(carry) = -x
    BY DEF Wrap, Bit, Numbers
  <2>3. /\ u = h <=> -Signed(h, x) < -h \/ -Signed(h, x) >= h
        /\ u # h => Signed(h, u) = -Signed(h, x)
    BY DEF Wrap, Signed, Numbers
  <2> QED
    BY <2>1, <2>2, <2>3 DEF Exact
<1>7. INC(h, x, p).psw.v <=> Signed(h, x) + 1 = h
  <2>1. INC(h, x, p).psw.v = (Wrap(h, x + 1) = h)
    BY ResultFields DEF INC
  <2>2. Wrap(h, x + 1) = h <=> Signed(h, x) + 1 = h
    BY DEF Wrap, Signed, Numbers
  <2> QED
    BY <2>1, <2>2
<1>8. DEC(h, x, p).psw.v <=> Signed(h, x) - 1 < -h
  <2>1. DEC(h, x, p).psw.v = (Wrap(h, x - 1) = h - 1)
    BY ResultFields DEF DEC
  <2>2. Wrap(h, x - 1) = h - 1 <=> Signed(h, x) - 1 < -h
    BY DEF Wrap, Signed, Numbers
  <2> QED
    BY <2>1, <2>2
<1> QED
  BY <1>2, <1>3, <1>4, <1>5, <1>6, <1>7, <1>8 DEF Sums

(* The high word with the carry or borrow of the low one, in the order the  *)
(* instructions take it in.                                                 *)
LEMMA WrapTwice ==
  ASSUME NEW h \in Nat \ {0}, NEW a \in Numbers(h), NEW b \in Numbers(h), NEW c \in 0..1
  PROVE  /\ Wrap(h, Wrap(h, a + c) + b) = Wrap(h, a + b + c)
         /\ Wrap(h, Wrap(h, a - c) - b) = Wrap(h, a - b - c)
         /\ Wrap(h, Wrap(h, 0 - a) - c) = Wrap(h, -a - c)
<1>1. CASE c = 0
  BY <1>1 DEF Wrap, Numbers
<1>2. CASE c = 1
  BY <1>2 DEF Wrap, Numbers
<1> QED
  BY <1>1, <1>2

(* ADD, ADC, SUB, SBC and NEG compute numbers of two words exactly.         *)
THEOREM DoublesExact ==
  ASSUME NEW h \in Nat \ {0}, NEW p \in PSWs,
         NEW x1 \in Numbers(h), NEW x0 \in Numbers(h), NEW y1 \in Numbers(h), NEW y0 \in Numbers(h)
  PROVE  DoubleSums(h, x1, x0, y1, y0, p)
<1> DEFINE addLow == ADD(h, x0, y0, p)
           adc == ADC(h, x1, addLow.psw)
           subLow == SUB(h, x0, y0, p)
           sbc == SBC(h, x1, subLow.psw)
           negLow == NEG(h, x0, p)
           neg == NEG(h, x1, p)
<1>1. /\ addLow.psw.c = (x0 + y0 >= 2 * h)
      /\ subLow.psw.c = (x0 - y0 < 0)
      /\ negLow.psw.c = (Wrap(h, 0 - x0) # 0)
  BY ResultFields DEF ADD, SUB, NEG, AddCarries, SubCarries
<1>2. /\ adc.value = Wrap(h, x1 + Bit(addLow.psw.c))
      /\ sbc.value = Wrap(h, x1 - Bit(subLow.psw.c))
      /\ neg.value = Wrap(h, 0 - x1)
  BY DEF ADC, SBC, NEG, Result
<1>3. /\ ADD(h, adc.value, y1, adc.psw).value = Wrap(h, adc.value + y1)
      /\ SUB(h, sbc.value, y1, sbc.psw).value = Wrap(h, sbc.value - y1)
      /\ SBC(h, neg.value, negLow.psw).value = Wrap(h, neg.value - Bit(negLow.psw.c))
  BY DEF ADD, SUB, SBC, Result
<1>4. /\ x0 - y0 < 0 <=> x0 < y0
      /\ Wrap(h, 0 - x0) # 0 <=> x0 # 0
  BY DEF Wrap, Numbers
<1>5. /\ Bit(addLow.psw.c) = Bit(x0 + y0 >= 2 * h)
      /\ Bit(subLow.psw.c) = Bit(x0 < y0)
      /\ Bit(negLow.psw.c) = Bit(x0 # 0)
  BY <1>1, <1>4 DEF Bit
<1>6. Bit(x0 + y0 >= 2 * h) \in 0..1 /\ Bit(x0 < y0) \in 0..1 /\ Bit(x0 # 0) \in 0..1
  BY DEF Bit
<1> HIDE DEF addLow, adc, subLow, sbc, negLow, neg
<1>7. /\ ADD(h, adc.value, y1, adc.psw).value = Wrap(h, x1 + y1 + Bit(x0 + y0 >= 2 * h))
      /\ SUB(h, sbc.value, y1, sbc.psw).value = Wrap(h, x1 - y1 - Bit(x0 < y0))
      /\ SBC(h, neg.value, negLow.psw).value = Wrap(h, -x1 - Bit(x0 # 0))
  BY <1>2, <1>3, <1>5, <1>6, WrapTwice
<1> QED
  BY <1>7 DEF DoubleSums, addLow, adc, subLow, sbc, negLow, neg

(* ROR and ROL undo each other and ROR takes back what ASL moved out.       *)
THEOREM RotationsRestore ==
  ASSUME NEW h \in Nat \ {0}, NEW x \in Numbers(h), NEW p \in PSWs
  PROVE  Restores(h, x, p)
<1> DEFINE right == ROR(h, x, p)
           left == ROL(h, x, p)
           shifted == ASL(h, x, p)
<1>1. /\ right.value = x \div 2 + h * Bit(p.c) /\ right.psw.c = (x % 2 = 1)
      /\ left.value = Wrap(h, 2 * x) + Bit(p.c) /\ left.psw.c = (x >= h)
      /\ shifted.value = Wrap(h, 2 * x) /\ shifted.psw.c = (x >= h)
  BY ResultFields DEF ROR, ROL, ASL, Shifted
<1>2. /\ ROL(h, right.value, right.psw).value = Wrap(h, 2 * right.value) + Bit(right.psw.c)
      /\ ROL(h, right.value, right.psw).psw.c = (right.value >= h)
      /\ ROR(h, left.value, left.psw).value = left.value \div 2 + h * Bit(left.psw.c)
      /\ ROR(h, left.value, left.psw).psw.c = (left.value % 2 = 1)
      /\ ROR(h, shifted.value, shifted.psw).value = shifted.value \div 2 + h * Bit(shifted.psw.c)
  <2>1. right.value \in Int /\ left.value \in Int /\ shifted.value \in Int
    BY <1>1 DEF Bit, Wrap, Numbers
  <2>2. right.psw \in PSWs /\ left.psw \in PSWs /\ shifted.psw \in PSWs
    <3>1. \A w \in Int, c \in BOOLEAN : Shifted(h, w, c, p).psw \in PSWs
      <4> TAKE w \in Int, c \in BOOLEAN
      <4>1. ((w >= h) # c) \in BOOLEAN
        OBVIOUS
      <4> QED
        BY <4>1, ResultPSW DEF Shifted
    <3>2. (x % 2 = 1) \in BOOLEAN /\ (x >= h) \in BOOLEAN
      OBVIOUS
    <3>3. /\ right = Shifted(h, right.value, x % 2 = 1, p)
          /\ left = Shifted(h, left.value, x >= h, p)
          /\ shifted = Shifted(h, shifted.value, x >= h, p)
      BY <1>1 DEF ROR, ROL, ASL
    <3> QED
      BY <2>1, <3>1, <3>2, <3>3, Zenon
  <2> HIDE DEF right, left, shifted
  <2> QED
    BY <2>2, ResultFields DEF ROR, ROL, Shifted
<1>3. /\ Bit(p.c) \in 0..1 /\ p.c \in BOOLEAN /\ (p.c <=> Bit(p.c) = 1)
      /\ Bit(right.psw.c) = x % 2 /\ Bit(left.psw.c) = Bit(x >= h) /\ Bit(shifted.psw.c) = Bit(x >= h)
  <2>1. Bit(p.c) \in 0..1 /\ p.c \in BOOLEAN /\ (p.c <=> Bit(p.c) = 1)
    BY DEF PSWs, Bit
  <2>2. Bit(x % 2 = 1) = x % 2
    BY DEF Bit, Numbers
  <2> HIDE DEF right, left, shifted
  <2> QED
    BY <1>1, <2>1, <2>2
<1> HIDE DEF right, left, shifted
<1>4. ROL(h, right.value, right.psw).value = x /\ ROL(h, right.value, right.psw).psw.c = p.c
  <2>1. CASE Bit(p.c) = 0
    <3>1. Wrap(h, 2 * right.value) = 2 * (x \div 2) /\ ~(right.value >= h)
      BY <1>1, <2>1 DEF Wrap, Numbers
    <3> QED
      BY <1>2, <1>3, <2>1, <3>1 DEF Numbers
  <2>2. CASE Bit(p.c) = 1
    <3>1. Wrap(h, 2 * right.value) = 2 * (x \div 2) /\ right.value >= h
      BY <1>1, <2>2 DEF Wrap, Numbers
    <3> QED
      BY <1>2, <1>3, <2>2, <3>1 DEF Numbers
  <2> QED
    BY <1>3, <2>1, <2>2
<1>5. \A c \in 0..1 : /\ (Wrap(h, 2 * x) + c) \div 2 + h * Bit(x >= h) = x
                      /\ (Wrap(h, 2 * x) + c) % 2 = c
  <2>1. CASE x >= h
    BY <2>1 DEF Wrap, Bit, Numbers
  <2>2. CASE ~(x >= h)
    BY <2>2 DEF Wrap, Bit, Numbers
  <2> QED
    BY <2>1, <2>2
<1>6. ROR(h, left.value, left.psw).value = x
  BY <1>1, <1>2, <1>3, <1>5
<1>7. ROR(h, left.value, left.psw).psw.c = p.c
  <2>1. left.value % 2 = Bit(p.c)
    BY <1>1, <1>3, <1>5
  <2> QED
    BY <1>2, <1>3, <2>1
<1>8. ROR(h, shifted.value, shifted.psw).value = x
  <2>1. Wrap(h, 2 * x) + 0 = Wrap(h, 2 * x)
    BY DEF Wrap, Numbers
  <2> QED
    BY <1>1, <1>2, <1>3, <1>5, <2>1
<1> QED
  BY <1>4, <1>6, <1>7, <1>8 DEF Restores, right, left, shifted

-----------------------------------------------------------------------------
LEMMA Widths ==
  /\ ByteHalf \in Nat \ {0} /\ Byte = 2 * ByteHalf /\ Byte \in Nat \ {0}
  /\ WordHalf \in Nat \ {0} /\ Words = Numbers(WordHalf)
BY DEF Words, Word, WordHalf, Byte, ByteHalf, Numbers

(* What a well-typed machine has in its registers. *)
LEMMA RegisterNumbers ==
  ASSUME MachineTypeOK
  PROVE  \A n \in Registers : r[n] \in Numbers(WordHalf) /\ r[n] % Byte \in Numbers(ByteHalf)
<1> TAKE n \in Registers
<1>1. r[n] \in Numbers(WordHalf)
  BY Widths DEF MachineTypeOK
<1>2. \A a \in Nat, b \in Nat \ {0} : a % b \in 0..(b - 1)
  OBVIOUS
<1>3. r[n] \in Nat
  BY <1>1, Widths DEF Numbers
<1> QED
  BY <1>1, <1>2, <1>3, Widths DEF Numbers

(* Compare and branch, in every well-typed machine (ExecuteCMP, ExecuteCMPB). *)
LEMMA TypedOrders == MachineTypeOK => CompareOrders
<1> SUFFICES ASSUME MachineTypeOK PROVE CompareOrders
  OBVIOUS
<1>1. psw \in PSWs /\ 0 \in Registers /\ 1 \in Registers
  BY DEF MachineTypeOK, Registers
<1> QED
  BY <1>1, Widths, RegisterNumbers, BranchesOrder DEF CompareOrders

(* Sums, numbers of two words and rotations, in every well-typed machine.   *)
THEOREM TypedArithmetic == MachineTypeOK => ExactArithmetic
<1> SUFFICES ASSUME MachineTypeOK PROVE ExactArithmetic
  OBVIOUS
<1>1. psw \in PSWs /\ {0, 1, 2, 3} \subseteq Registers
  BY DEF MachineTypeOK, Registers
<1>2. ExactSums
  BY <1>1, Widths, RegisterNumbers, SumsExact DEF ExactSums
<1>3. DoublePrecision
  BY <1>1, Widths, RegisterNumbers, DoublesExact DEF DoublePrecision
<1>4. RotationRestores
  BY <1>1, Widths, RegisterNumbers, RotationsRestore DEF RotationRestores
<1> QED
  BY <1>2, <1>3, <1>4, TypedOrders DEF ExactArithmetic

-----------------------------------------------------------------------------
(* Faults.  What an instruction does before it stores keeps memory and      *)
(* flags; what stores or flags either does so or faults.                    *)
Shape(m) == m = [r |-> m.r, psw |-> m.psw, mem |-> m.mem, fault |-> m.fault]

Keeps(m, to) == Shape(to) /\ to.mem = m.mem /\ to.psw = m.psw

Precise(m, to) == to.fault => to.mem = m.mem /\ to.psw = m.psw

LEMMA NoFaultPrecise ==
  ASSUME NEW m, NEW to, ~to.fault
  PROVE  Precise(m, to)
BY DEF Precise

LEMMA KeepsPrecise ==
  ASSUME NEW m, NEW to, Keeps(m, to)
  PROVE  Precise(m, to)
BY DEF Keeps, Precise

WithR(m, x) == [m EXCEPT !.r = x]
WithFault(m, x) == [m EXCEPT !.fault = x]
WithMem(m, x) == [m EXCEPT !.mem = x]
WithPSW(m, x) == [m EXCEPT !.psw = x]

LEMMA FieldsSet ==
  ASSUME NEW m, Shape(m), NEW x
  PROVE  /\ Keeps(m, WithR(m, x)) /\ WithR(m, x).fault = m.fault /\ WithR(m, x).r = x
         /\ Keeps(m, WithFault(m, x))
         /\ Shape(WithMem(m, x)) /\ WithMem(m, x).fault = m.fault /\ WithMem(m, x).psw = m.psw
         /\ Shape(WithPSW(m, x)) /\ WithPSW(m, x).fault = m.fault /\ WithPSW(m, x).mem = m.mem
BY DEF Shape, Keeps, WithR, WithFault, WithMem, WithPSW

LEMMA BumpKeeps ==
  ASSUME NEW m, Shape(m), NEW n, NEW by
  PROVE  Keeps(m, Bump(m, n, by)) /\ Bump(m, n, by).fault = m.fault
<1>1. Bump(m, n, by) = WithR(m, [m.r EXCEPT ![n] = (@ + by) % Word])
  BY DEF Bump, Shape, WithR
<1> QED
  BY <1>1, FieldsSet

LEMMA AccessKeeps ==
  ASSUME NEW m, Shape(m), NEW ok
  PROVE  Keeps(m, Access(m, ok))
<1>1. Access(m, ok) = WithFault(m, m.fault \/ ~ok)
  BY DEF Access, Shape, WithFault
<1> QED
  BY <1>1, FieldsSet

LEMMA KeepsAgain ==
  ASSUME NEW m, NEW m1, NEW m2, Keeps(m, m1), Keeps(m1, m2)
  PROVE  Keeps(m, m2)
BY DEF Keeps

LEMMA AddressKeeps ==
  ASSUME NEW m, Shape(m), NEW mode \in 1..7, NEW n, NEW h
  PROVE  Keeps(m, Address(m, mode, n, h).m)
<1> SUFFICES ASSUME NEW step PROVE Keeps(m, AddressBy(step, m, mode, n).m)
  BY DEF Address
<1> DEFINE dec == Bump(m, n, -step)
           dec2 == Bump(m, n, -2)
           inc == Bump(m, n, step)
           inc2 == Bump(m, n, 2)
           next == Access(Bump(m, PC, 2), Readable(m.r[PC]))
           indexed == (next.r[n] + WordAt(m, m.r[PC])) % Word
<1>1. /\ Keeps(m, m) /\ Keeps(m, dec) /\ Keeps(m, inc)
      /\ Keeps(m, Access(inc2, Readable(m.r[n]))) /\ Keeps(m, Access(dec2, Readable(dec2.r[n])))
      /\ Keeps(m, next) /\ Keeps(m, Access(next, next.fault \/ Readable(indexed)))
  <2>1. Keeps(m, m) /\ Keeps(m, dec) /\ Keeps(m, inc) /\ Keeps(m, inc2) /\ Keeps(m, dec2)
        /\ Keeps(m, Bump(m, PC, 2))
    BY BumpKeeps DEF Keeps
  <2>2. Keeps(m, Access(inc2, Readable(m.r[n]))) /\ Keeps(m, Access(dec2, Readable(dec2.r[n])))
        /\ Keeps(m, next)
    BY <2>1, AccessKeeps, KeepsAgain DEF Keeps
  <2>3. Keeps(m, Access(next, next.fault \/ Readable(indexed)))
    BY <2>2, AccessKeeps, KeepsAgain DEF Keeps
  <2> QED
    BY <2>1, <2>2, <2>3
<1>2. AddressBy(step, m, mode, n).m \in
        {m, dec, inc, Access(inc2, Readable(m.r[n])), Access(dec2, Readable(dec2.r[n])), next,
         Access(next, next.fault \/ Readable(indexed))}
  <2> HIDE DEF dec, dec2, inc, inc2, next, indexed
  <2> QED
    BY DEF AddressBy, dec, dec2, inc, inc2, next, indexed
<1> HIDE DEF dec, dec2, inc, inc2, next, indexed
<1> QED
  BY <1>1, <1>2

LEMMA FetchedKeeps ==
  ASSUME NEW m, Shape(m), NEW mode \in 0..7, NEW n, NEW h
  PROVE  Keeps(m, Fetched(m, mode, n, h).m)
<1> DEFINE a == Address(m, mode, n, h)
<1>1. CASE mode = 0
  BY <1>1 DEF Fetched, Keeps
<1>2. CASE mode # 0
  <2>1. Keeps(m, a.m) /\ Keeps(m, Access(a.m, Readable(a.ea)))
    BY <1>2, AddressKeeps, AccessKeeps, KeepsAgain DEF Keeps
  <2>2. Fetched(m, mode, n, h).m \in {a.m, Access(a.m, Readable(a.ea))}
    BY <1>2 DEF Fetched
  <2> QED
    BY <2>1, <2>2
<1> QED
  BY <1>1, <1>2

LEMMA WordPrecise ==
  ASSUME NEW m, Shape(m), ~m.fault, NEW a, NEW w
  PROVE  /\ Shape(SetWord(m, a, w)) /\ SetWord(m, a, w).psw = m.psw
         /\ Precise(m, SetWord(m, a, w))
<1>1. CASE Even(a) \in RAM
  <2>1. SetWord(m, a, w) = WithMem(m, [m.mem EXCEPT ![Even(a)] = w])
    BY <1>1 DEF SetWord, Shape, WithMem
  <2> QED
    BY <2>1, FieldsSet, NoFaultPrecise
<1>2. CASE Even(a) \notin RAM
  BY <1>2, AccessKeeps, KeepsPrecise DEF SetWord, Keeps
<1> QED
  BY <1>1, <1>2

LEMMA BytePrecise ==
  ASSUME NEW m, Shape(m), ~m.fault, NEW a, NEW b
  PROVE  /\ Shape(SetByte(m, a, b)) /\ SetByte(m, a, b).psw = m.psw
         /\ Precise(m, SetByte(m, a, b))
<1>1. CASE Even(a) \in RAM
  <2>1. PICK w : SetByte(m, a, b) = WithMem(m, [m.mem EXCEPT ![Even(a)] = w])
    BY <1>1 DEF SetByte, Shape, WithMem
  <2> QED
    BY <2>1, FieldsSet, NoFaultPrecise
<1>2. CASE Even(a) \notin RAM
  BY <1>2, AccessKeeps, KeepsPrecise DEF SetByte, Keeps
<1> QED
  BY <1>1, <1>2

LEMMA StoredPrecise ==
  ASSUME NEW m, Shape(m), ~m.fault,
         NEW mode, NEW n, NEW ea, NEW h, NEW value
  PROVE  /\ Shape(Stored(m, mode, n, ea, h, value))
         /\ Stored(m, mode, n, ea, h, value).psw = m.psw
         /\ Precise(m, Stored(m, mode, n, ea, h, value))
<1> DEFINE to == Stored(m, mode, n, ea, h, value)
<1>1. CASE mode = 0
  <2>1. PICK x : to = WithR(m, x)
    BY <1>1 DEF Stored, Shape, WithR
  <2> QED
    BY <2>1, FieldsSet, KeepsPrecise DEF Keeps
<1>2. CASE mode # 0
  <2>1. to = SetByte(m, ea, value) \/ to = SetWord(m, ea, value)
    BY <1>2 DEF Stored
  <2> QED
    BY <2>1, WordPrecise, BytePrecise
<1> QED
  BY <1>1, <1>2

LEMMA FlaggedPrecise ==
  ASSUME NEW m, NEW to, Keeps(m, to), NEW p
  PROVE  Precise(m, Flagged(to, p))
BY FieldsSet DEF Flagged, Keeps, Precise, WithPSW

LEMMA RewrittenPrecise ==
  ASSUME NEW m, NEW o, Keeps(m, o.m),
         NEW mode, NEW n, NEW h, NEW res
  PROVE  Precise(m, Rewritten(o, mode, n, h, res))
<1> DEFINE to == Stored(o.m, mode, n, o.ea, h, res.value)
<1>1. CASE o.m.fault
  BY <1>1 DEF Rewritten, Keeps, Precise
<1>2. CASE ~o.m.fault
  <2>1. Shape(to) /\ to.psw = o.m.psw /\ Precise(o.m, to)
    BY <1>2, StoredPrecise DEF Keeps
  <2>2. Rewritten(o, mode, n, h, res) = Flagged(to, res.psw)
    BY <1>2 DEF Rewritten
  <2> QED
    BY <2>1, <2>2, FieldsSet DEF Flagged, Keeps, Precise, WithPSW
<1> QED
  BY <1>1, <1>2

LEMMA SinglePrecise ==
  ASSUME NEW m, Shape(m), ~m.fault, NEW mode \in 0..7, NEW n, NEW h, NEW op
  PROVE  Precise(m, ExecuteSingle(m, op, h, mode, n))
BY FetchedKeeps, FlaggedPrecise, RewrittenPrecise DEF ExecuteSingle

LEMMA DoublePrecise ==
  ASSUME NEW m, Shape(m), ~m.fault, NEW op, NEW h,
         NEW smode \in 0..7, NEW sn, NEW mode \in 0..7, NEW n
  PROVE  /\ Precise(m, ExecuteDouble(m, op, h, smode, sn, mode, n))
         /\ Precise(m, ExecuteMOV(m, h, smode, sn, mode, n))
<1> DEFINE s == Fetched(m, smode, sn, h)
           o == Fetched(s.m, mode, n, h)
<1>1. Keeps(m, s.m) /\ Keeps(m, o.m)
  <2>1. Keeps(m, s.m)
    BY FetchedKeeps
  <2> HIDE DEF s
  <2>2. Keeps(s.m, o.m)
    BY <2>1, FetchedKeeps DEF Keeps
  <2> QED
    BY <2>1, <2>2, KeepsAgain
<1>2. Precise(m, s.m)
  BY <1>1, KeepsPrecise
<1> HIDE DEF s, o
<1>3. Precise(m, ExecuteDouble(m, op, h, smode, sn, mode, n))
  BY <1>1, <1>2, FlaggedPrecise, RewrittenPrecise DEF ExecuteDouble, s, o
<1>4. Precise(m, ExecuteMOV(m, h, smode, sn, mode, n))
  <2> DEFINE res == MOV(h, o.value, s.value, m.psw)
             x == [s.m.r EXCEPT ![n] = Extended(s.value)]
  <2>1. CASE ~s.m.fault /\ mode = 0 /\ h = ByteHalf
    <3>1. ExecuteMOV(m, h, smode, sn, mode, n) = WithPSW(WithR(s.m, x), res.psw)
      BY <1>1, <2>1 DEF ExecuteMOV, s, o, WithPSW, WithR, Keeps, Shape
    <3>2. Shape(WithR(s.m, x)) /\ WithR(s.m, x).fault = s.m.fault
      BY <1>1, FieldsSet DEF Keeps
    <3>3. WithPSW(WithR(s.m, x), res.psw).fault = s.m.fault
      BY <3>2, FieldsSet
    <3> QED
      BY <2>1, <3>1, <3>3, NoFaultPrecise
  <2>2. CASE ~(~s.m.fault /\ mode = 0 /\ h = ByteHalf)
    BY <1>1, <1>2, <2>2, RewrittenPrecise DEF ExecuteMOV, s, o
  <2> QED
    BY <2>1, <2>2
<1> QED
  BY <1>3, <1>4

LEMMA WordOperandPrecise ==
  ASSUME NEW m, Shape(m), ~m.fault, NEW mode \in 0..7, NEW n, NEW sn
  PROVE  /\ Precise(m, ExecuteSXT(m, mode, n))
         /\ Precise(m, ExecuteSWAB(m, mode, n))
         /\ Precise(m, ExecuteXOR(m, sn, mode, n))
         /\ Precise(m, ExecuteMTPS(m, mode, n))
<1>1. Precise(m, ExecuteSXT(m, mode, n))
  BY FetchedKeeps, RewrittenPrecise DEF ExecuteSXT
<1>2. Precise(m, ExecuteSWAB(m, mode, n))
  BY FetchedKeeps, RewrittenPrecise DEF ExecuteSWAB
<1>3. Precise(m, ExecuteXOR(m, sn, mode, n))
  BY FetchedKeeps, RewrittenPrecise DEF ExecuteXOR
<1>4. Precise(m, ExecuteMTPS(m, mode, n))
  BY FetchedKeeps, FlaggedPrecise DEF ExecuteMTPS
<1> QED
  BY <1>1, <1>2, <1>3, <1>4

LEMMA MULPrecise ==
  ASSUME NEW m, Shape(m), ~m.fault, NEW mode \in 0..7, NEW n, NEW sn
  PROVE  Precise(m, ExecuteMUL(m, sn, mode, n))
<1> DEFINE o == Fetched(m, mode, n, WordHalf)
<1>1. Keeps(m, o.m)
  BY FetchedKeeps
<1> HIDE DEF o
<1>2. CASE o.m.fault
  BY <1>1, <1>2, KeepsPrecise DEF ExecuteMUL, o
<1>3. CASE ~o.m.fault
  <2>1. PICK x, p : ExecuteMUL(m, sn, mode, n) = WithPSW(WithR(o.m, x), p)
    BY <1>1, <1>3 DEF ExecuteMUL, o, WithPSW, WithR, Keeps, Shape
  <2>2. Shape(WithR(o.m, x)) /\ WithR(o.m, x).fault = o.m.fault
    BY <1>1, FieldsSet DEF Keeps
  <2>3. WithPSW(WithR(o.m, x), p).fault = o.m.fault
    BY <2>2, FieldsSet
  <2> QED
    BY <1>3, <2>1, <2>3, NoFaultPrecise
<1> QED
  BY <1>2, <1>3

LEMMA MFPSPrecise ==
  ASSUME NEW m, Shape(m), ~m.fault, NEW mode \in 0..7, NEW n
  PROVE  Precise(m, ExecuteMFPS(m, mode, n))
<1>1. CASE mode = 0
  <2>1. PICK x, p : ExecuteMFPS(m, mode, n) = WithPSW(WithR(m, x), p)
    BY <1>1 DEF ExecuteMFPS, WithPSW, WithR, Shape
  <2>2. Shape(WithR(m, x)) /\ WithR(m, x).fault = m.fault
    BY FieldsSet DEF Keeps
  <2>3. WithPSW(WithR(m, x), p).fault = m.fault
    BY <2>2, FieldsSet
  <2> QED
    BY <2>1, <2>3, NoFaultPrecise
<1>2. CASE mode # 0
  BY <1>2, FetchedKeeps, RewrittenPrecise DEF ExecuteMFPS
<1> QED
  BY <1>1, <1>2

LEMMA FlagsPrecise ==
  ASSUME NEW m, Shape(m), ~m.fault, NEW flags, NEW set
  PROVE  Precise(m, ExecuteFlags(m, flags, set))
<1>1. PICK p : ExecuteFlags(m, flags, set) = WithPSW(m, p)
  BY DEF ExecuteFlags, WithPSW, Shape
<1> QED
  BY <1>1, FieldsSet, NoFaultPrecise

LEMMA BranchPrecise ==
  ASSUME NEW m, Shape(m), ~m.fault, NEW op, NEW n, NEW k
  PROVE  Precise(m, ExecuteBranch(m, op, k)) /\ Precise(m, ExecuteSOB(m, n, k))
<1>1. Keeps(m, m) /\ Keeps(m, Bump(m, PC, 2 * k)) /\ Keeps(m, Bump(m, n, -1))
      /\ Keeps(m, Bump(Bump(m, n, -1), PC, -2 * k))
  BY BumpKeeps, KeepsAgain DEF Keeps
<1> QED
  BY <1>1, KeepsPrecise DEF ExecuteBranch, ExecuteSOB

LEMMA JumpPrecise ==
  ASSUME NEW m, Shape(m), ~m.fault, NEW mode \in 0..7, NEW n
  PROVE  Precise(m, ExecuteJMP(m, mode, n))
<1> DEFINE a == Address(m, mode, n, WordHalf)
<1>1. CASE mode = 0
  BY <1>1, AccessKeeps, KeepsPrecise DEF ExecuteJMP
<1>2. CASE mode # 0
  <2>1. Keeps(m, a.m)
    BY <1>2, AddressKeeps
  <2>2. Keeps(m, WithR(a.m, [a.m.r EXCEPT ![PC] = a.ea]))
    BY <2>1, FieldsSet, KeepsAgain DEF Keeps
  <2>3. ExecuteJMP(m, mode, n) \in {a.m, WithR(a.m, [a.m.r EXCEPT ![PC] = a.ea])}
    BY <1>2, <2>1 DEF ExecuteJMP, WithR, Keeps, Shape
  <2> HIDE DEF a
  <2> QED
    BY <2>1, <2>2, <2>3, KeepsPrecise
<1> QED
  BY <1>1, <1>2

LEMMA CallPrecise ==
  ASSUME NEW m, Shape(m), ~m.fault, NEW mode \in 0..7, NEW n, NEW sn
  PROVE  Precise(m, ExecuteJSR(m, sn, mode, n))
<1> DEFINE a == Address(m, mode, n, WordHalf)
           down == Bump(a.m, SP, -2)
           pushed == SetWord(down, down.r[SP], down.r[sn])
<1>1. CASE mode = 0
  BY <1>1, AccessKeeps, KeepsPrecise DEF ExecuteJSR
<1>2. CASE mode # 0 /\ a.m.fault
  BY <1>2, AddressKeeps, KeepsPrecise DEF ExecuteJSR
<1>3. CASE mode # 0 /\ ~a.m.fault
  <2>1. Keeps(m, a.m) /\ Keeps(a.m, down) /\ down.fault = a.m.fault
    BY <1>3, AddressKeeps, BumpKeeps DEF Keeps
  <2>2. Shape(pushed) /\ pushed.psw = down.psw /\ Precise(down, pushed)
    BY <1>3, <2>1, WordPrecise DEF Keeps
  <2>3. PICK x : ExecuteJSR(m, sn, mode, n) = WithR(pushed, x)
    <3>1. ExecuteJSR(m, sn, mode, n) = Linked(pushed, sn, down.r[PC], a.ea)
      BY <1>3 DEF ExecuteJSR, Pushed
    <3> HIDE DEF pushed, down, a
    <3> QED
      BY <3>1 DEF Linked, WithR
  <2>4. Keeps(pushed, WithR(pushed, x)) /\ WithR(pushed, x).fault = pushed.fault
    BY <2>2, FieldsSet
  <2> HIDE DEF pushed, down, a
  <2> QED
    BY <2>1, <2>2, <2>3, <2>4 DEF Keeps, Precise
<1> QED
  BY <1>1, <1>2, <1>3

LEMMA ReturnPrecise ==
  ASSUME NEW m, Shape(m), ~m.fault, NEW n, NEW k
  PROVE  Precise(m, ExecuteRTS(m, n)) /\ Precise(m, ExecuteMARK(m, k))
<1>1. Precise(m, ExecuteRTS(m, n))
  <2> DEFINE jumped == WithR(m, [m.r EXCEPT ![PC] = m.r[n]])
             popped == Access(Bump(jumped, SP, 2), Readable(m.r[SP]))
             end == WithR(popped, [popped.r EXCEPT ![n] = WordAt(m, m.r[SP])])
  <2>1. Keeps(m, jumped)
    BY FieldsSet
  <2>2. Keeps(m, Bump(jumped, SP, 2))
    BY <2>1, BumpKeeps, KeepsAgain DEF Keeps
  <2>3. Keeps(m, popped)
    BY <2>2, AccessKeeps, KeepsAgain DEF Keeps
  <2>4. Keeps(m, end)
    BY <2>3, FieldsSet, KeepsAgain DEF Keeps
  <2>5. ExecuteRTS(m, n) \in {popped, end}
    <3>1. jumped = [m EXCEPT !.r[PC] = m.r[n]]
      BY DEF WithR, Shape
    <3>2. end = [popped EXCEPT !.r[n] = WordAt(m, m.r[SP])]
      BY <2>3 DEF WithR, Keeps, Shape
    <3> HIDE DEF end, jumped
    <3> QED
      BY <3>1, <3>2 DEF ExecuteRTS
  <2> HIDE DEF jumped, popped, end
  <2> QED
    BY <2>3, <2>4, <2>5, KeepsPrecise
<1>2. Precise(m, ExecuteMARK(m, k))
  <2>1. PICK x, ok : ExecuteMARK(m, k) = Access(WithR(m, x), ok)
    BY DEF ExecuteMARK, WithR, Shape
  <2>2. Keeps(m, WithR(m, x))
    BY FieldsSet
  <2>3. Keeps(m, Access(WithR(m, x), ok))
    BY <2>2, AccessKeeps, KeepsAgain DEF Keeps
  <2> QED
    BY <2>1, <2>3, KeepsPrecise
<1> QED
  BY <1>1, <1>2

-----------------------------------------------------------------------------
Untouched == fault' => mem' = mem /\ psw' = psw

LEMMA StepUntouched ==
  ASSUME NEW m, Step(m), Precise(Current, m)
  PROVE  Untouched
<1>1. Current.mem = mem /\ Current.psw = psw
  BY DEF Current, Bump, Machine
<1> QED
  BY <1>1 DEF Step, Becomes, Precise, Untouched

(* No instruction that ends in a bus fault has written to memory or changed *)
(* the flags, whatever its operands: the early returns on m_RPLYrq.         *)
THEOREM FaultsPrecise == InstructionSpec => FaultPrecise
<1>1. ASSUME InstructionNext PROVE Untouched
  <2>1. Shape(Current) /\ Current.mem = mem /\ Current.psw = psw /\ Current.fault = fault
    BY DEF Current, Bump, Machine, Shape
  <2>2. \A d \in Operands : d[1] \in 0..7
    BY OperandAssumption
  <2>3. CASE FetchFails
    <3>1. Keeps(Current, Access(Current, FALSE))
      BY <2>1, AccessKeeps
    <3> QED
      BY <2>1, <2>3, <3>1 DEF FetchFails, Becomes, Keeps, Untouched
  <2>4. CASE Running /\ Computing
    <3>1. ~Current.fault
      BY <2>1, <2>4 DEF Running
    <3>2. CASE \E d \in Operands, op \in SingleOps, h \in {ByteHalf, WordHalf} :
                 Step(ExecuteSingle(Current, op, h, d[1], d[2]))
      BY <2>1, <2>2, <3>1, <3>2, SinglePrecise, StepUntouched
    <3>3. CASE \E s \in Operands, d \in Operands, op \in DoubleOps \cup TestOps, h \in {ByteHalf, WordHalf} :
                 Step(ExecuteDouble(Current, op, h, s[1], s[2], d[1], d[2]))
      BY <2>1, <2>2, <3>1, <3>3, DoublePrecise, StepUntouched
    <3>4. CASE \E d \in Operands : \/ Step(ExecuteSXT(Current, d[1], d[2]))
                                   \/ Step(ExecuteSWAB(Current, d[1], d[2]))
                                   \/ \E n \in Registers : Step(ExecuteXOR(Current, n, d[1], d[2]))
                                   \/ \E n \in Registers : Step(ExecuteMUL(Current, n, d[1], d[2]))
      BY <2>1, <2>2, <3>1, <3>4, WordOperandPrecise, MULPrecise, StepUntouched
    <3> QED
      BY <2>4, <3>2, <3>3, <3>4 DEF Computing
  <2>5. CASE Running /\ Moving
    <3>1. ~Current.fault
      BY <2>1, <2>5 DEF Running
    <3>2. CASE \E s \in Operands, d \in Operands, h \in {ByteHalf, WordHalf} :
                 Step(ExecuteMOV(Current, h, s[1], s[2], d[1], d[2]))
      BY <2>1, <2>2, <3>1, <3>2, DoublePrecise, StepUntouched
    <3>3. CASE \E d \in Operands : \/ Step(ExecuteMTPS(Current, d[1], d[2]))
                                   \/ Step(ExecuteMFPS(Current, d[1], d[2]))
      BY <2>1, <2>2, <3>1, <3>3, WordOperandPrecise, MFPSPrecise, StepUntouched
    <3>4. CASE \E flags \in SUBSET {"n", "z", "v", "c"}, set \in BOOLEAN :
                 Step(ExecuteFlags(Current, flags, set))
      BY <2>1, <3>1, <3>4, FlagsPrecise, StepUntouched
    <3> QED
      BY <2>5, <3>2, <3>3, <3>4 DEF Moving
  <2>6. CASE Running /\ Jumping
    <3>1. ~Current.fault
      BY <2>1, <2>6 DEF Running
    <3>2. CASE \E op \in Branches, n \in Registers, k \in Offsets \cup Counts :
                 \/ Step(ExecuteBranch(Current, op, k))
                 \/ Step(ExecuteSOB(Current, n, k))
      BY <2>1, <3>1, <3>2, BranchPrecise, StepUntouched
    <3>3. CASE \E d \in Operands, n \in Registers :
                 \/ Step(ExecuteJMP(Current, d[1], d[2]))
                 \/ Step(ExecuteJSR(Current, n, d[1], d[2]))
      BY <2>1, <2>2, <3>1, <3>3, JumpPrecise, CallPrecise, StepUntouched
    <3>4. CASE \E n \in Registers, k \in Counts \cup {0} :
                 \/ Step(ExecuteRTS(Current, n))
                 \/ Step(ExecuteMARK(Current, k))
      BY <2>1, <3>1, <3>4, ReturnPrecise, StepUntouched
    <3>5. 0 \in Registers /\ "BR" \in Branches
      BY DEF Registers, Branches
    <3> QED
      BY <2>6, <3>2, <3>3, <3>4, <3>5 DEF Jumping
  <2>7. Computing \/ Moving \/ Jumping => Running
    BY DEF Computing, Moving, Jumping, Step
  <2> QED
    BY <1>1, <2>3, <2>4, <2>5, <2>6, <2>7 DEF InstructionNext
<1>2. [InstructionNext]_<<machineVars, steps>> => [Untouched]_<<machineVars, steps>>
  BY <1>1
<1> QED
  BY <1>2, PTL DEF InstructionSpec, FaultPrecise, Untouched

-----------------------------------------------------------------------------
(* The widths of registers, memory and flags.  A number is taken by its     *)
(* bounds (Below): the provers would otherwise enumerate its range.         *)

(* The weights of the sign bits and of the widths, as numbers.              *)
LEMMA Weights == ByteHalf = 128 /\ Byte = 256 /\ WordHalf = 32768 /\ Word = 65536
BY DEF ByteHalf, Byte, WordHalf, Word

(* The numbers below a bound. *)
Below(w) == 0..(w - 1)

(* A number is below a bound when it lies between zero and it.              *)
LEMMA BelowBound ==
  ASSUME NEW w \in Int
  PROVE  \A x : x \in Below(w) <=> x \in Int /\ 0 <= x /\ x < w
BY DEF Below

(* The words, the bytes and the numbers of either width by their bounds.    *)
LEMMA Ranges == Words = Below(65536) /\ Bytes = Below(256) /\ Numbers(WordHalf) = Words /\ Numbers(ByteHalf) = Bytes
<1>1. Words = Below(Word) /\ Bytes = Below(Byte) /\ Numbers(WordHalf) = Below(2 * WordHalf) /\ Numbers(ByteHalf) = Below(2 * ByteHalf)
  BY DEF Words, Bytes, Below, Numbers
<1>2. 2 * WordHalf = 65536 /\ 2 * ByteHalf = 256
  BY Weights
<1> QED
  BY <1>1, <1>2, Weights

(* What an & of two numbers below weight is at most. *)
Within(weight, a, x, y) == a \in Below(weight) /\ a <= x /\ a <= y /\ x + y - a \in Below(weight)

(* A weight and its square: the steps And is put together by.               *)
Twice == {<<2, 4>>, <<4, 16>>, <<16, 256>>, <<256, 65536>>}

(* The parts of a number, and an & put together from those of the parts. *)
LEMMA PartsBelow ==
  ASSUME NEW weight, NEW wide, <<weight, wide>> \in Twice, NEW x \in Below(wide)
  PROVE  x % weight \in Below(weight) /\ x \div weight \in Below(weight)
<1>1. CASE weight = 2 /\ wide = 4
  BY <1>1, BelowBound
<1>2. CASE weight = 4 /\ wide = 16
  BY <1>2, BelowBound
<1>3. CASE weight = 16 /\ wide = 256
  BY <1>3, BelowBound
<1>4. CASE weight = 256 /\ wide = 65536
  BY <1>4, BelowBound
<1> QED
  BY <1>1, <1>2, <1>3, <1>4 DEF Twice

(* The & of the low and of the high parts make the & of the numbers.        *)
LEMMA JoinedWithin ==
  ASSUME NEW weight, NEW wide, <<weight, wide>> \in Twice,
         NEW x \in Below(wide), NEW y \in Below(wide), NEW low, NEW high,
         Within(weight, low, x % weight, y % weight),
         Within(weight, high, x \div weight, y \div weight)
  PROVE  Within(wide, low + weight * high, x, y)
<1>1. CASE weight = 2 /\ wide = 4
  BY <1>1, BelowBound DEF Within
<1>2. CASE weight = 4 /\ wide = 16
  BY <1>2, BelowBound DEF Within
<1>3. CASE weight = 16 /\ wide = 256
  BY <1>3, BelowBound DEF Within
<1>4. CASE weight = 256 /\ wide = 65536
  BY <1>4, BelowBound DEF Within
<1> QED
  BY <1>1, <1>2, <1>3, <1>4 DEF Twice

(* No & is greater than its numbers, and their | is below the same weight.  *)
LEMMA AndWithin ==
  /\ \A x \in Words, y \in Words : Within(65536, And(x, y), x, y)
  /\ \A x \in Bytes, y \in Bytes : Within(256, And(x, y), x, y)
<1>1. \A x \in Below(2), y \in Below(2) : Within(2, And1(x, y), x, y)
  <2>1. \A x \in 0..1, y \in 0..1 : x * y = (IF x = 1 /\ y = 1 THEN 1 ELSE 0)
    OBVIOUS
  <2> QED
    BY <2>1, BelowBound DEF Within, And1
<1>2. ASSUME NEW x \in Below(4), NEW y \in Below(4) PROVE Within(4, And2(x, y), x, y)
  <2>1. <<2, 4>> \in Twice
    BY DEF Twice
  <2>2. /\ x % 2 \in Below(2) /\ x \div 2 \in Below(2)
        /\ y % 2 \in Below(2) /\ y \div 2 \in Below(2)
    BY <2>1, PartsBelow
  <2>3. /\ Within(2, And1(x % 2, y % 2), x % 2, y % 2)
        /\ Within(2, And1(x \div 2, y \div 2), x \div 2, y \div 2)
    BY <1>1, <2>2
  <2>4. And2(x, y) = And1(x % 2, y % 2) + 2 * And1(x \div 2, y \div 2)
    BY DEF And2
  <2> QED
    BY <2>1, <2>3, <2>4, JoinedWithin
<1>3. ASSUME NEW x \in Below(16), NEW y \in Below(16) PROVE Within(16, And4(x, y), x, y)
  <2>1. <<4, 16>> \in Twice
    BY DEF Twice
  <2>2. /\ x % 4 \in Below(4) /\ x \div 4 \in Below(4)
        /\ y % 4 \in Below(4) /\ y \div 4 \in Below(4)
    BY <2>1, PartsBelow
  <2>3. /\ Within(4, And2(x % 4, y % 4), x % 4, y % 4)
        /\ Within(4, And2(x \div 4, y \div 4), x \div 4, y \div 4)
    BY <1>2, <2>2
  <2>4. And4(x, y) = And2(x % 4, y % 4) + 4 * And2(x \div 4, y \div 4)
    BY DEF And4
  <2> QED
    BY <2>1, <2>3, <2>4, JoinedWithin
<1>4. ASSUME NEW x \in Below(256), NEW y \in Below(256) PROVE Within(256, And8(x, y), x, y)
  <2>1. <<16, 256>> \in Twice
    BY DEF Twice
  <2>2. /\ x % 16 \in Below(16) /\ x \div 16 \in Below(16)
        /\ y % 16 \in Below(16) /\ y \div 16 \in Below(16)
    BY <2>1, PartsBelow
  <2>3. /\ Within(16, And4(x % 16, y % 16), x % 16, y % 16)
        /\ Within(16, And4(x \div 16, y \div 16), x \div 16, y \div 16)
    BY <1>3, <2>2
  <2>4. And8(x, y) = And4(x % 16, y % 16) + 16 * And4(x \div 16, y \div 16)
    BY DEF And8
  <2> QED
    BY <2>1, <2>3, <2>4, JoinedWithin
<1>5. ASSUME NEW x \in Below(65536), NEW y \in Below(65536) PROVE Within(65536, And(x, y), x, y)
  <2>1. <<256, 65536>> \in Twice
    BY DEF Twice
  <2>2. /\ x % 256 \in Below(256) /\ x \div 256 \in Below(256)
        /\ y % 256 \in Below(256) /\ y \div 256 \in Below(256)
    BY <2>1, PartsBelow
  <2>3. /\ Within(256, And8(x % 256, y % 256), x % 256, y % 256)
        /\ Within(256, And8(x \div 256, y \div 256), x \div 256, y \div 256)
    BY <1>4, <2>2
  <2>4. And(x, y) = And8(x % 256, y % 256) + 256 * And8(x \div 256, y \div 256)
    BY Weights DEF And
  <2> QED
    BY <2>1, <2>3, <2>4, JoinedWithin
<1>6. ASSUME NEW x \in Below(256), NEW y \in Below(256) PROVE And(x, y) = And8(x, y)
  <2>1. And8(0, 0) = 0
    BY <1>4, BelowBound DEF Within
  <2>2. x % 256 = x /\ y % 256 = y /\ x \div 256 = 0 /\ y \div 256 = 0
    BY BelowBound
  <2>3. And8(x, y) \in Int
    BY <1>4, BelowBound DEF Within
  <2> QED
    BY <2>1, <2>2, <2>3, Weights DEF And
<1> QED
  BY <1>4, <1>5, <1>6, Ranges

(* A result has the operand's width and flags. *)
Sized(h, res) == res.value \in Numbers(h) /\ res.psw \in PSWs

(* Of a value of the width, Result makes a result of the width.             *)
LEMMA ResultSized ==
  ASSUME NEW h \in Nat \ {0}, NEW u \in Numbers(h), NEW v \in BOOLEAN, NEW c \in BOOLEAN, NEW p \in PSWs
  PROVE  Sized(h, Result(h, u, v, c, p))
<1>1. u \in Int
  BY DEF Numbers
<1> QED
  BY <1>1, ResultPSW, ResultFields DEF Sized

(* The operations of one operand keep its width (Execute(), COM to ASL).    *)
LEMMA SingleSized ==
  ASSUME NEW h \in Nat \ {0}, NEW x \in Numbers(h), NEW p \in PSWs, NEW op \in SingleOps
  PROVE  Sized(h, Single(op, h, x, p))
<1>1. p.c \in BOOLEAN /\ Bit(p.c) \in 0..1
  BY DEF PSWs, Bit
<1>2. /\ 0 \in Numbers(h) /\ 2 * h - 1 - x \in Numbers(h)
      /\ Wrap(h, x + 1) \in Numbers(h) /\ Wrap(h, x - 1) \in Numbers(h) /\ Wrap(h, 0 - x) \in Numbers(h)
      /\ Wrap(h, x + Bit(p.c)) \in Numbers(h) /\ Wrap(h, x - Bit(p.c)) \in Numbers(h)
      /\ Wrap(h, 2 * x) \in Numbers(h)
  BY <1>1 DEF Wrap, Numbers
<1>3. x \div 2 + h * Bit(p.c) \in Numbers(h)
  <2>1. CASE Bit(p.c) = 0
    BY <2>1 DEF Numbers
  <2>2. CASE Bit(p.c) = 1
    BY <2>2 DEF Numbers
  <2> QED
    BY <1>1, <2>1, <2>2
<1>4. x \div 2 + h * Bit(x >= h) \in Numbers(h)
  <2>1. CASE x >= h
    BY <2>1 DEF Numbers, Bit
  <2>2. CASE ~(x >= h)
    BY <2>2 DEF Numbers, Bit
  <2> QED
    BY <2>1, <2>2
<1>5. Wrap(h, 2 * x) + Bit(p.c) \in Numbers(h)
  BY <1>1 DEF Wrap, Numbers
<1>6. \A u \in Numbers(h), c \in BOOLEAN : Sized(h, Shifted(h, u, c, p))
  <2> TAKE u \in Numbers(h), c \in BOOLEAN
  <2>1. ((u >= h) # c) \in BOOLEAN
    OBVIOUS
  <2> QED
    BY <2>1, ResultSized DEF Shifted
<1>7. CASE op \in {"CLR", "COM", "INC", "DEC", "NEG", "TST"}
  BY <1>1, <1>2, <1>7, ResultSized DEF Single, CLR, COM, INC, DEC, NEG, TST
<1>8. CASE op \in {"ADC", "SBC"}
  <2>1. \A u \in Numbers(h), k \in Int, l \in Int : Sized(h, Result(h, u, p.c /\ u = k, p.c /\ u = l, p))
    BY <1>1, ResultSized
  <2>2. 0 \in Int /\ h \in Int /\ h - 1 \in Int /\ 2 * h - 1 \in Int
    OBVIOUS
  <2>3. Sized(h, ADC(h, x, p)) /\ Sized(h, SBC(h, x, p))
    BY <1>2, <2>1, <2>2, ZenonT(60) DEF ADC, SBC
  <2> QED
    BY <1>8, <2>3 DEF Single
<1>9. CASE op \in {"ROR", "ROL", "ASR", "ASL"}
  <2>1. (x >= h) \in BOOLEAN /\ (x % 2 = 1) \in BOOLEAN
    OBVIOUS
  <2> QED
    BY <1>2, <1>3, <1>4, <1>5, <1>6, <1>9, <2>1 DEF Single, ROR, ROL, ASR, ASL
<1> QED
  BY <1>7, <1>8, <1>9 DEF SingleOps

(* Overflow and carry are flags.                                            *)
LEMMA OverflowFlags ==
  ASSUME NEW h, NEW x, NEW y
  PROVE  /\ AddOverflows(h, x, y) \in BOOLEAN /\ AddCarries(h, x, y) \in BOOLEAN
         /\ SubOverflows(h, x, y) \in BOOLEAN /\ SubCarries(h, x, y) \in BOOLEAN
BY DEF AddOverflows, AddCarries, SubOverflows, SubCarries

(* The & of numbers of either width has that width, and so have the numbers *)
(* BIC, BIS and XOR make of it.                                             *)
LEMMA AndSized ==
  ASSUME NEW h \in {ByteHalf, WordHalf}, NEW x \in Numbers(h), NEW y \in Numbers(h)
  PROVE  /\ And(x, y) \in Numbers(h) /\ x - And(x, y) \in Numbers(h)
         /\ x + y - And(x, y) \in Numbers(h) /\ x + y - 2 * And(x, y) \in Numbers(h)
<1>1. Numbers(h) \in {Below(65536), Below(256)}
  BY Ranges
<1>2. PICK w \in {65536, 256} : Numbers(h) = Below(w) /\ Within(w, And(x, y), x, y)
  BY <1>1, Ranges, AndWithin
<1> QED
  BY <1>2, BelowBound DEF Within

(* The operations of two operands keep their width.                         *)
LEMMA DoubleSized ==
  ASSUME NEW h \in {ByteHalf, WordHalf}, NEW x \in Numbers(h), NEW y \in Numbers(h), NEW p \in PSWs
  PROVE  /\ \A op \in DoubleOps \cup TestOps : Sized(h, Computed(op, h, x, y, p))
         /\ Sized(h, MOV(h, x, y, p)) /\ Sized(h, XOR(h, x, y, p))
<1>1. p.c \in BOOLEAN /\ FALSE \in BOOLEAN
  BY DEF PSWs
<1>2. h \in Nat \ {0}
  BY Widths
<1>3. Wrap(h, x + y) \in Numbers(h) /\ Wrap(h, x - y) \in Numbers(h) /\ Wrap(h, y - x) \in Numbers(h)
  BY <1>2 DEF Wrap, Numbers
<1>4. /\ Sized(h, MOV(h, x, y, p)) /\ Sized(h, BIT(h, x, y, p)) /\ Sized(h, BIC(h, x, y, p))
      /\ Sized(h, BIS(h, x, y, p)) /\ Sized(h, XOR(h, x, y, p))
  BY <1>1, <1>2, AndSized, ResultSized DEF MOV, BIT, BIC, BIS, XOR
<1>5. Sized(h, ADD(h, x, y, p)) /\ Sized(h, SUB(h, x, y, p)) /\ Sized(h, CMP(h, x, y, p))
  BY <1>2, <1>3, OverflowFlags, ResultSized DEF ADD, SUB, CMP
<1> QED
  BY <1>4, <1>5 DEF Computed, DoubleOps, TestOps

(* SXT, SWAB and XOR make words.                                            *)
LEMMA WordSized ==
  ASSUME NEW p \in PSWs, NEW x \in Words
  PROVE  Sized(WordHalf, SXT(p)) /\ Sized(WordHalf, SWAB(x, p))
<1>1. Sized(WordHalf, SXT(p))
  <2>1. p.n \in BOOLEAN
    BY DEF PSWs
  <2>2. SXT(p).psw \in PSWs
    <3>1. \A z \in BOOLEAN, v \in BOOLEAN : [p EXCEPT !.z = z, !.v = v] \in PSWs
      BY DEF PSWs
    <3> QED
      BY <2>1, <3>1, Zenon DEF SXT
  <2>3. SXT(p).value \in {0, Word - 1}
    BY DEF SXT
  <2> QED
    BY <2>2, <2>3, Weights, Ranges, BelowBound DEF Sized
<1>2. Sized(WordHalf, SWAB(x, p))
  <2> DEFINE low == x \div Byte
             swapped == low + Byte * (x % Byte)
             f == Result(ByteHalf, low, FALSE, FALSE, p)
  <2>1. low \in Numbers(ByteHalf) /\ swapped \in Numbers(WordHalf)
    BY Weights, Ranges, BelowBound
  <2>2. SWAB(x, p) = [value |-> swapped, psw |-> f.psw]
    BY DEF SWAB
  <2> HIDE DEF low, swapped
  <2>3. f.psw \in PSWs
    BY <2>1, Widths, ResultSized DEF Sized
  <2> HIDE DEF f
  <2> QED
    BY <2>1, <2>2, <2>3 DEF Sized
<1> QED
  BY <1>1, <1>2

(* MFPS makes a byte, MTPS the flags of a status word.                      *)
LEMMA StatusSized ==
  ASSUME NEW p \in PSWs, NEW x \in Bytes
  PROVE  Sized(ByteHalf, MFPS(p)) /\ MTPS(x, p) \in PSWs
<1>1. MFPS(p).value \in Bytes
  <2>1. /\ Bit(p.p) \in 0..1 /\ Bit(p.t) \in 0..1 /\ Bit(p.n) \in 0..1 /\ Bit(p.z) \in 0..1
        /\ Bit(p.v) \in 0..1 /\ Bit(p.c) \in 0..1 /\ p.u \in 0..3
    BY DEF PSWs, Bit
  <2>2. MFPS(p).value = 128 * Bit(p.p) + 32 * p.u + 16 * Bit(p.t)
             + 8 * Bit(p.n) + 4 * Bit(p.z) + 2 * Bit(p.v) + Bit(p.c)
    BY DEF MFPS
  <2> QED
    BY <2>1, <2>2, Ranges, BelowBound
<1>2. MFPS(p).psw \in PSWs
  <2>1. p.p \in BOOLEAN
    BY DEF PSWs
  <2>2. \A n \in BOOLEAN, z \in BOOLEAN, v \in BOOLEAN : [p EXCEPT !.n = n, !.z = z, !.v = v] \in PSWs
    BY DEF PSWs
  <2> QED
    BY <2>1, <2>2, Zenon DEF MFPS
<1>3. MTPS(x, p) \in PSWs
  <2>1. p.t \in BOOLEAN /\ (x \div 32) % 4 \in 0..3
    BY Ranges, BelowBound DEF PSWs
  <2> QED
    BY <2>1 DEF MTPS, PSWs
<1> QED
  BY <1>1, <1>2, <1>3, Ranges DEF Sized

(* Both halves of a product are words.                                      *)
LEMMA MULSized ==
  ASSUME NEW x \in Words, NEW y \in Words, NEW p \in PSWs
  PROVE  MUL(x, y, p).high \in Words /\ MUL(x, y, p).low \in Words /\ MUL(x, y, p).psw \in PSWs
<1> DEFINE product == Signed(WordHalf, x) * Signed(WordHalf, y)
<1>1. product \in Int
  <2>1. Signed(WordHalf, x) \in Int /\ Signed(WordHalf, y) \in Int
    BY Weights, Ranges, BelowBound DEF Signed
  <2> QED
    BY <2>1
<1>2. product % Word \in Words /\ (product \div Word) % Word \in Words
  <2> HIDE DEF product
  <2> QED
    BY <1>1, Weights, Ranges, BelowBound
<1>3. \A n \in BOOLEAN, z \in BOOLEAN, v \in BOOLEAN, c \in BOOLEAN :
        [p EXCEPT !.n = n, !.z = z, !.v = v, !.c = c] \in PSWs
  BY DEF PSWs
<1>4. MUL(x, y, p).psw \in PSWs
  <2>1. /\ (product < 0) \in BOOLEAN /\ (product = 0) \in BOOLEAN /\ FALSE \in BOOLEAN
        /\ (product >= WordHalf \/ product <= -WordHalf) \in BOOLEAN
    OBVIOUS
  <2>2. MUL(x, y, p).psw = [p EXCEPT !.n = product < 0, !.z = product = 0, !.v = FALSE,
                                     !.c = product >= WordHalf \/ product <= -WordHalf]
    BY Zenon DEF MUL
  <2> HIDE DEF product
  <2> QED
    BY <1>3, <2>1, <2>2, ZenonT(60)
<1> QED
  BY <1>2, <1>4 DEF MUL

-----------------------------------------------------------------------------
(* Machines of these widths: what the accesses to memory and registers      *)
(* leave is one again.                                                      *)

(* The machines of these widths.                                            *)
Machines == [r : [Registers -> Words], psw : PSWs, mem : [RAM \cup ROM -> Words], fault : BOOLEAN]

(* The fields of a machine, and what replaces one of them.                  *)
LEMMA MachineFields ==
  ASSUME NEW m \in Machines
  PROVE  /\ m.r \in [Registers -> Words] /\ m.psw \in PSWs /\ m.mem \in [RAM \cup ROM -> Words]
         /\ m.fault \in BOOLEAN
         /\ \A x \in [Registers -> Words] : WithR(m, x) \in Machines
         /\ \A x \in PSWs : WithPSW(m, x) \in Machines
         /\ \A x \in [RAM \cup ROM -> Words] : WithMem(m, x) \in Machines
         /\ \A x \in BOOLEAN : WithFault(m, x) \in Machines
         /\ Shape(m)
BY DEF Machines, WithR, WithPSW, WithMem, WithFault, Shape

(* A register that gets a word leaves a machine.                            *)
LEMMA RegisterTyped ==
  ASSUME NEW m \in Machines, NEW n \in Registers, NEW w \in Words
  PROVE  m.r[n] \in Words /\ [m EXCEPT !.r[n] = w] \in Machines
<1>1. m.r[n] \in Words /\ [m.r EXCEPT ![n] = w] \in [Registers -> Words]
  BY MachineFields
<1>2. [m EXCEPT !.r[n] = w] = WithR(m, [m.r EXCEPT ![n] = w])
  BY DEF WithR
<1> QED
  BY <1>1, <1>2, MachineFields

(* What is cut to sixteen bits is a word (uint16_t).                        *)
LEMMA Truncated == \A x \in Int : x % Word \in Words
BY Weights, Ranges, BelowBound

(* A register stepped up or down is cut to a word.                          *)
LEMMA BumpTyped ==
  ASSUME NEW m \in Machines, NEW n \in Registers, NEW by \in Int
  PROVE  Bump(m, n, by) \in Machines
<1>1. m.r[n] + by \in Int
  <2>1. m.r[n] \in Words
    BY MachineFields
  <2> QED
    BY <2>1, Ranges, BelowBound
<1>2. (m.r[n] + by) % Word \in Words
  BY <1>1, Truncated
<1>3. Bump(m, n, by) = [m EXCEPT !.r[n] = (m.r[n] + by) % Word]
  BY DEF Bump
<1> QED
  BY <1>2, <1>3, RegisterTyped

(* An access leaves a machine, faulted or not.                              *)
LEMMA AccessTyped ==
  ASSUME NEW m \in Machines, NEW ok \in BOOLEAN
  PROVE  Access(m, ok) \in Machines
<1>1. Access(m, ok) = WithFault(m, m.fault \/ ~ok)
  BY DEF Access, WithFault
<1> QED
  BY <1>1, MachineFields

(* What is read and written, and where. *)
LEMMA ReadTyped ==
  ASSUME NEW m \in Machines, NEW a \in Words
  PROVE  /\ WordAt(m, a) \in Words /\ ByteAt(m, a) \in Bytes /\ Readable(a) \in BOOLEAN
         /\ \A w \in Words : ByteOf(w, a) \in Bytes
<1>0. 0 \in Words /\ 0 \in Bytes
  BY Ranges, BelowBound
<1>1. \A w \in Words : ByteOf(w, a) \in Bytes
  BY Weights, Ranges, BelowBound DEF ByteOf
<1>2. m.mem \in [RAM \cup ROM -> Words]
  BY MachineFields
<1>3. ByteAt(m, a) \in Bytes
  BY <1>0, <1>1, <1>2 DEF ByteAt, Readable
<1>4. WordAt(m, a) \in Words
  <2>1. a % 2 \in 0..1 /\ a \in Int
    BY Ranges, BelowBound
  <2>2. CASE Even(a) \in RAM
    <3>1. Even(a) \notin ROM
      BY <2>2, MemoryAssumption
    <3> QED
      BY <1>2, <2>2, <3>1 DEF WordAt
  <2>3. CASE Even(a) \notin RAM /\ Even(a) \in ROM /\ a % 2 = 0
    BY <1>2, <2>1, <2>3 DEF WordAt, Even
  <2>4. CASE Even(a) \notin RAM /\ Even(a) \in ROM /\ a % 2 = 1
    <3>1. Even(a) = a - 1 /\ a - 1 \in RAM \cup ROM /\ a + 1 = Even(a) + 2
      BY <2>1, <2>4 DEF Even
    <3>2. m.mem[a - 1] \in Words /\ Cell(a + 1) \in Words
      BY <1>2, <2>4, <3>1, MemoryAssumption
    <3>3. \A u \in Words, v \in Words : (u \div Byte) + Byte * (v % Byte) \in Words
      BY Weights, Ranges, BelowBound
    <3>4. WordAt(m, a) = (m.mem[a - 1] \div Byte) + Byte * (Cell(a + 1) % Byte)
      BY <2>4 DEF WordAt
    <3> QED
      BY <3>2, <3>3, <3>4
  <2>5. CASE Even(a) \notin RAM /\ Even(a) \notin ROM
    BY <1>0, <2>5 DEF WordAt
  <2> QED
    BY <2>1, <2>2, <2>3, <2>4, <2>5
<1> QED
  BY <1>1, <1>3, <1>4 DEF Readable

(* A byte put into a word, and a byte with its sign, make words.            *)
LEMMA PartsTyped ==
  ASSUME NEW b \in Bytes
  PROVE  Extended(b) \in Words /\ \A w \in Words : LowSet(w, b) \in Words /\ HighSet(w, b) \in Words
BY Weights, Ranges, BelowBound DEF LowSet, HighSet, Extended

(* SetWord and SetByte leave a machine.                                     *)
LEMMA WriteTyped ==
  ASSUME NEW m \in Machines, NEW a \in Words
  PROVE  /\ \A w \in Words : SetWord(m, a, w) \in Machines
         /\ \A b \in Bytes : SetByte(m, a, b) \in Machines
<1>1. CASE Even(a) \notin RAM
  BY <1>1, AccessTyped DEF SetWord, SetByte
<1>2. CASE Even(a) \in RAM
  <2>1. \A w \in Words : [m.mem EXCEPT ![Even(a)] = w] \in [RAM \cup ROM -> Words]
    BY MachineFields
  <2>2. \A w \in Words : SetWord(m, a, w) = WithMem(m, [m.mem EXCEPT ![Even(a)] = w])
    BY <1>2 DEF SetWord, WithMem
  <2>3. ASSUME NEW b \in Bytes
        PROVE  \E w \in Words : SetByte(m, a, b) = WithMem(m, [m.mem EXCEPT ![Even(a)] = w])
    <3>1. m.mem[Even(a)] \in Words
      BY <1>2, MachineFields
    <3>2. CASE a % 2 = 1
      <4>1. SetByte(m, a, b) = WithMem(m, [m.mem EXCEPT ![Even(a)] = HighSet(m.mem[Even(a)], b)])
        BY <1>2, <3>2 DEF SetByte, WithMem
      <4> QED
        BY <3>1, <4>1, PartsTyped
    <3>3. CASE a % 2 # 1
      <4>1. SetByte(m, a, b) = WithMem(m, [m.mem EXCEPT ![Even(a)] = LowSet(m.mem[Even(a)], b)])
        BY <1>2, <3>3 DEF SetByte, WithMem
      <4> QED
        BY <3>1, <4>1, PartsTyped
    <3> QED
      BY <3>2, <3>3
  <2>4. \A w \in Words : WithMem(m, [m.mem EXCEPT ![Even(a)] = w]) \in Machines
    BY <2>1, MachineFields
  <2>5. \A b \in Bytes : SetByte(m, a, b) \in Machines
    BY <2>3, <2>4
  <2> QED
    BY <2>2, <2>4, <2>5, Zenon
<1> QED
  BY <1>1, <1>2

(* Where an operand is. *)
LEMMA AddressTyped ==
  ASSUME NEW m \in Machines, NEW mode \in 1..7, NEW n \in Registers, NEW h
  PROVE  Address(m, mode, n, h).m \in Machines /\ Address(m, mode, n, h).ea \in Words
<1> SUFFICES ASSUME NEW step \in {1, 2}
             PROVE  AddressBy(step, m, mode, n).m \in Machines /\ AddressBy(step, m, mode, n).ea \in Words
  BY DEF Address
<1> DEFINE dec == Bump(m, n, -step)
           dec2 == Bump(m, n, -2)
           inc == Bump(m, n, step)
           inc2 == Bump(m, n, 2)
           next == Access(Bump(m, PC, 2), Readable(m.r[PC]))
           indexed == (next.r[n] + WordAt(m, m.r[PC])) % Word
           to == AddressBy(step, m, mode, n)
<1>1. /\ PC \in Registers /\ -step \in Int /\ step \in Int /\ -2 \in Int /\ 2 \in Int
  BY DEF Registers, PC
<1>2. m.r[n] \in Words /\ m.r[PC] \in Words
  BY <1>1, MachineFields
<1>3. dec \in Machines /\ dec2 \in Machines /\ inc \in Machines /\ inc2 \in Machines /\ Bump(m, PC, 2) \in Machines
  BY <1>1, BumpTyped
<1>4. next \in Machines /\ Readable(m.r[n]) \in BOOLEAN
  BY <1>2, <1>3, ReadTyped, AccessTyped
<1> HIDE DEF dec, dec2, inc, inc2, next
<1>5. dec.r[n] \in Words /\ dec2.r[n] \in Words /\ next.r[n] \in Words
  BY <1>3, <1>4, MachineFields
<1>6. WordAt(m, m.r[PC]) \in Words /\ WordAt(m, m.r[n]) \in Words /\ WordAt(m, dec2.r[n]) \in Words
      /\ Readable(dec2.r[n]) \in BOOLEAN
  BY <1>2, <1>5, ReadTyped
<1>7. indexed \in Words
  BY <1>5, <1>6, Weights, Ranges, BelowBound
<1> HIDE DEF indexed
<1>8. WordAt(m, indexed) \in Words /\ Readable(indexed) \in BOOLEAN
  BY <1>7, ReadTyped
<1>9. /\ Access(inc2, Readable(m.r[n])) \in Machines /\ Access(dec2, Readable(dec2.r[n])) \in Machines
      /\ Access(next, next.fault \/ Readable(indexed)) \in Machines
  BY <1>3, <1>4, <1>6, <1>8, AccessTyped
<1>10. to \in {[m |-> m, ea |-> m.r[n]], [m |-> inc, ea |-> m.r[n]],
               [m |-> Access(inc2, Readable(m.r[n])), ea |-> WordAt(m, m.r[n])],
               [m |-> dec, ea |-> dec.r[n]],
               [m |-> Access(dec2, Readable(dec2.r[n])), ea |-> WordAt(m, dec2.r[n])],
               [m |-> next, ea |-> indexed],
               [m |-> Access(next, next.fault \/ Readable(indexed)), ea |-> WordAt(m, indexed)]}
  BY DEF AddressBy, dec, dec2, inc, inc2, next, indexed
<1> HIDE DEF to
<1> QED
  <2>1. to.m \in Machines /\ to.ea \in Words
    BY <1>2, <1>3, <1>4, <1>5, <1>6, <1>7, <1>8, <1>9, <1>10
  <2> QED
    BY <2>1 DEF to

-----------------------------------------------------------------------------
(* The operands, and the instructions that compute and move.                *)

(* The two widths.                                                          *)
Halves == {ByteHalf, WordHalf}

(* An operand of this width. *)
FetchOK(h, o) == o.m \in Machines /\ o.ea \in Words /\ o.value \in Numbers(h)

(* A fetched operand has its width.                                         *)
LEMMA FetchedTyped ==
  ASSUME NEW m \in Machines, NEW mode \in 0..7, NEW n \in Registers, NEW h \in Halves
  PROVE  FetchOK(h, Fetched(m, mode, n, h))
<1> DEFINE a == Address(m, mode, n, h)
           o == Fetched(m, mode, n, h)
<1>0. 0 \in Words /\ 0 \in Numbers(h)
  BY Ranges, BelowBound DEF Halves
<1>1. CASE mode = 0
  <2>1. o.m = m /\ o.ea = 0 /\ o.value = m.r[n] % (2 * h)
    BY <1>1 DEF Fetched
  <2>2. m.r[n] \in Words
    BY MachineFields
  <2>3. \A x \in Words : x % (2 * h) \in Numbers(h)
    BY Weights, Ranges, BelowBound DEF Halves
  <2> QED
    BY <1>0, <2>1, <2>2, <2>3 DEF FetchOK
<1>2. CASE mode # 0 /\ a.m.fault
  <2>1. o.m = a.m /\ o.ea = a.ea /\ o.value = 0
    BY <1>2 DEF Fetched
  <2>2. a.m \in Machines /\ a.ea \in Words
    BY <1>2, AddressTyped
  <2> QED
    BY <1>0, <2>1, <2>2 DEF FetchOK
<1>3. CASE mode # 0 /\ ~a.m.fault
  <2>1. /\ o.m = Access(a.m, Readable(a.ea)) /\ o.ea = a.ea
        /\ o.value = IF h = ByteHalf THEN ByteAt(m, a.ea) ELSE WordAt(m, a.ea)
    BY <1>3 DEF Fetched
  <2>2. a.m \in Machines /\ a.ea \in Words
    BY <1>3, AddressTyped
  <2>3. Readable(a.ea) \in BOOLEAN /\ WordAt(m, a.ea) \in Words /\ ByteAt(m, a.ea) \in Bytes
    BY <2>2, ReadTyped
  <2>4. o.value \in Numbers(h)
    BY <2>1, <2>3, Ranges DEF Halves
  <2>5. o.m \in Machines
    BY <2>1, <2>2, <2>3, AccessTyped
  <2> QED
    BY <2>1, <2>2, <2>4, <2>5 DEF FetchOK
<1> QED
  BY <1>1, <1>2, <1>3

(* Storing a result leaves a machine.                                       *)
LEMMA StoredTyped ==
  ASSUME NEW m \in Machines, NEW mode \in 0..7, NEW n \in Registers, NEW h \in Halves,
         NEW ea \in Words, NEW value \in Numbers(h)
  PROVE  Stored(m, mode, n, ea, h, value) \in Machines
<1>1. CASE mode = 0 /\ h = ByteHalf
  <2>1. m.r[n] \in Words
    BY MachineFields
  <2>0. value \in Bytes
    BY <1>1, Ranges
  <2>2. LowSet(m.r[n], value) \in Words
    BY <2>0, <2>1, PartsTyped
  <2>3. Stored(m, mode, n, ea, h, value) = [m EXCEPT !.r[n] = LowSet(m.r[n], value)]
    BY <1>1 DEF Stored
  <2> QED
    BY <2>2, <2>3, RegisterTyped
<1>2. CASE mode = 0 /\ h # ByteHalf
  <2>1. value \in Words
    BY <1>2, Ranges DEF Halves
  <2>2. Stored(m, mode, n, ea, h, value) = [m EXCEPT !.r[n] = value]
    BY <1>2 DEF Stored
  <2> QED
    BY <2>1, <2>2, RegisterTyped
<1>3. CASE mode # 0
  <2>1. /\ h = ByteHalf => value \in Bytes /\ Stored(m, mode, n, ea, h, value) = SetByte(m, ea, value)
        /\ h # ByteHalf => value \in Words /\ Stored(m, mode, n, ea, h, value) = SetWord(m, ea, value)
    BY <1>3, Ranges DEF Stored, Halves
  <2> QED
    BY <2>1, WriteTyped
<1> QED
  BY <1>1, <1>2, <1>3

(* So do the flags of one.                                                  *)
LEMMA FlaggedTyped ==
  ASSUME NEW m \in Machines, NEW p \in PSWs
  PROVE  Flagged(m, p) \in Machines
BY MachineFields DEF Flagged, WithPSW

(* So does a result stored with its flags.                                  *)
LEMMA RewrittenTyped ==
  ASSUME NEW o, NEW h \in Halves, FetchOK(h, o), NEW mode \in 0..7, NEW n \in Registers,
         NEW res, Sized(h, res)
  PROVE  Rewritten(o, mode, n, h, res) \in Machines
<1>1. Stored(o.m, mode, n, o.ea, h, res.value) \in Machines
  BY StoredTyped DEF FetchOK, Sized
<1> QED
  BY <1>1, FlaggedTyped DEF Rewritten, FetchOK, Sized

(* The instructions of one operand leave a machine.                         *)
LEMMA SingleTyped ==
  ASSUME NEW m \in Machines, NEW op \in SingleOps, NEW h \in Halves, NEW mode \in 0..7, NEW n \in Registers
  PROVE  ExecuteSingle(m, op, h, mode, n) \in Machines
<1> DEFINE o == Fetched(m, mode, n, h)
           res == Single(op, h, o.value, m.psw)
<1>1. FetchOK(h, o)
  BY FetchedTyped
<1>2. h \in Nat \ {0} /\ m.psw \in PSWs
  BY Widths, MachineFields DEF Halves
<1> HIDE DEF o
<1>3. Sized(h, res)
  BY <1>1, <1>2, SingleSized DEF FetchOK
<1> HIDE DEF res
<1>4. Flagged(o.m, res.psw) \in Machines /\ Rewritten(o, mode, n, h, res) \in Machines
  BY <1>1, <1>3, FlaggedTyped, RewrittenTyped DEF FetchOK, Sized
<1> QED
  BY <1>4 DEF ExecuteSingle, o, res

(* SXT, SWAB and XOR leave a machine.                                       *)
LEMMA WordOperandTyped ==
  ASSUME NEW m \in Machines, NEW mode \in 0..7, NEW n \in Registers, NEW sn \in Registers
  PROVE  /\ ExecuteSXT(m, mode, n) \in Machines
         /\ ExecuteSWAB(m, mode, n) \in Machines
         /\ ExecuteXOR(m, sn, mode, n) \in Machines
         /\ ExecuteMUL(m, sn, mode, n) \in Machines
<1> DEFINE o == Fetched(m, mode, n, WordHalf)
<1>0. WordHalf \in Halves /\ Numbers(WordHalf) = Words
  BY Ranges DEF Halves
<1>1. FetchOK(WordHalf, o)
  BY <1>0, FetchedTyped
<1>2. m.psw \in PSWs
  BY MachineFields
<1> HIDE DEF o
<1>3. o.m \in Machines /\ o.value \in Words /\ o.m.r[sn] \in Words
  BY <1>0, <1>1, MachineFields DEF FetchOK
<1>4. /\ Sized(WordHalf, SXT(m.psw)) /\ Sized(WordHalf, SWAB(o.value, m.psw))
      /\ Sized(WordHalf, XOR(WordHalf, o.value, o.m.r[sn], m.psw))
  BY <1>0, <1>2, <1>3, WordSized, DoubleSized DEF Halves
<1>5. /\ Rewritten(o, mode, n, WordHalf, SXT(m.psw)) \in Machines
      /\ Rewritten(o, mode, n, WordHalf, SWAB(o.value, m.psw)) \in Machines
      /\ Rewritten(o, mode, n, WordHalf, XOR(WordHalf, o.value, o.m.r[sn], m.psw)) \in Machines
  BY <1>0, <1>1, <1>4, RewrittenTyped
<1>6. ExecuteMUL(m, sn, mode, n) \in Machines
  <2> DEFINE res == MUL(o.m.r[sn], o.value, m.psw)
             odd == sn + 1 - (sn % 2)
             x == [[o.m.r EXCEPT ![sn] = res.high] EXCEPT ![odd] = res.low]
  <2>1. res.high \in Words /\ res.low \in Words /\ res.psw \in PSWs
    BY <1>2, <1>3, MULSized
  <2>2. o.m.r \in [Registers -> Words]
    BY <1>3, MachineFields
  <2> HIDE DEF res
  <2>3. x \in [Registers -> Words]
    BY <2>1, <2>2
  <2>4. WithPSW(WithR(o.m, x), res.psw) \in Machines
    BY <1>3, <2>1, <2>3, MachineFields
  <2>5. ExecuteMUL(m, sn, mode, n) \in {o.m, WithPSW(WithR(o.m, x), res.psw)}
    <3>1. [o.m EXCEPT !.r = x, !.psw = res.psw] = WithPSW(WithR(o.m, x), res.psw)
      BY DEF WithPSW, WithR
    <3>2. ExecuteMUL(m, sn, mode, n) \in {o.m, [o.m EXCEPT !.r = x, !.psw = res.psw]}
      BY DEF ExecuteMUL, o, res
    <3> QED
      BY <3>1, <3>2
  <2> QED
    BY <1>3, <2>4, <2>5
<1> QED
  BY <1>5, <1>6 DEF ExecuteSXT, ExecuteSWAB, ExecuteXOR, o

(* MTPS and MFPS leave a machine.                                           *)
LEMMA StatusTyped ==
  ASSUME NEW m \in Machines, NEW mode \in 0..7, NEW n \in Registers
  PROVE  ExecuteMTPS(m, mode, n) \in Machines /\ ExecuteMFPS(m, mode, n) \in Machines
<1> DEFINE o == Fetched(m, mode, n, ByteHalf)
           res == MFPS(m.psw)
<1>0. ByteHalf \in Halves /\ Numbers(ByteHalf) = Bytes
  BY Ranges DEF Halves
<1>1. FetchOK(ByteHalf, o)
  BY <1>0, FetchedTyped
<1>2. m.psw \in PSWs
  BY MachineFields
<1> HIDE DEF o
<1>3. o.m \in Machines /\ o.value \in Bytes /\ o.m.psw \in PSWs
  BY <1>0, <1>1, MachineFields DEF FetchOK
<1>4. Sized(ByteHalf, res) /\ MTPS(o.value, m.psw) \in PSWs
  BY <1>0, <1>2, <1>3, StatusSized
<1> HIDE DEF res
<1>5. ExecuteMTPS(m, mode, n) \in Machines
  BY <1>3, <1>4, FlaggedTyped DEF ExecuteMTPS, o
<1>6. CASE mode = 0
  <2>1. Extended(res.value) \in Words /\ res.psw \in PSWs
    BY <1>0, <1>4, PartsTyped DEF Sized
  <2>2. WithPSW([m EXCEPT !.r[n] = Extended(res.value)], res.psw) \in Machines
    BY <2>1, RegisterTyped, MachineFields
  <2>3. ExecuteMFPS(m, mode, n) = WithPSW([m EXCEPT !.r[n] = Extended(res.value)], res.psw)
    BY <1>6 DEF ExecuteMFPS, res, WithPSW
  <2> QED
    BY <1>5, <2>2, <2>3
<1>7. CASE mode # 0
  BY <1>0, <1>1, <1>4, <1>5, <1>7, RewrittenTyped DEF ExecuteMFPS, o, res
<1> QED
  BY <1>6, <1>7

(* MOV, MUL and the instructions of two operands leave a machine.           *)
LEMMA DoubleTyped ==
  ASSUME NEW m \in Machines, NEW h \in Halves, NEW smode \in 0..7, NEW sn \in Registers,
         NEW mode \in 0..7, NEW n \in Registers
  PROVE  /\ \A op \in DoubleOps \cup TestOps : ExecuteDouble(m, op, h, smode, sn, mode, n) \in Machines
         /\ ExecuteMOV(m, h, smode, sn, mode, n) \in Machines
<1> DEFINE s == Fetched(m, smode, sn, h)
           o == Fetched(s.m, mode, n, h)
<1>1. FetchOK(h, s)
  BY FetchedTyped
<1> HIDE DEF s
<1>2. FetchOK(h, o)
  BY <1>1, FetchedTyped DEF FetchOK
<1> HIDE DEF o
<1>3. m.psw \in PSWs /\ o.value \in Numbers(h) /\ s.value \in Numbers(h) /\ s.m \in Machines /\ o.m \in Machines
  BY <1>1, <1>2, MachineFields DEF FetchOK
<1>4. ASSUME NEW op \in DoubleOps \cup TestOps
      PROVE  ExecuteDouble(m, op, h, smode, sn, mode, n) \in Machines
  <2> DEFINE res == Computed(op, h, o.value, s.value, m.psw)
  <2>1. Sized(h, res)
    BY <1>3, DoubleSized DEF Halves
  <2> HIDE DEF res
  <2>2. Flagged(o.m, res.psw) \in Machines /\ Rewritten(o, mode, n, h, res) \in Machines
    BY <1>2, <1>3, <2>1, FlaggedTyped, RewrittenTyped DEF Sized
  <2> QED
    BY <1>3, <2>2 DEF ExecuteDouble, s, o, res
<1>5. ExecuteMOV(m, h, smode, sn, mode, n) \in Machines
  <2> DEFINE res == MOV(h, o.value, s.value, m.psw)
             x == Extended(s.value)
  <2>1. Sized(h, res)
    BY <1>3, DoubleSized DEF Halves
  <2> HIDE DEF res
  <2>2. Rewritten(o, mode, n, h, res) \in Machines
    BY <1>2, <2>1, RewrittenTyped
  <2>3. ASSUME mode = 0, h = ByteHalf PROVE WithPSW([s.m EXCEPT !.r[n] = x], res.psw) \in Machines
    <3>1. x \in Words
      BY <1>3, <2>3, PartsTyped, Ranges
    <3> QED
      BY <1>3, <2>1, <3>1, RegisterTyped, MachineFields DEF Sized
  <2>4. WithPSW([s.m EXCEPT !.r[n] = x], res.psw) = [s.m EXCEPT !.r[n] = x, !.psw = res.psw]
    BY DEF WithPSW
  <2> QED
    BY <1>3, <2>2, <2>3, <2>4 DEF ExecuteMOV, s, o, res
<1> QED
  BY <1>4, <1>5

-----------------------------------------------------------------------------
(* The instructions that jump, and the theorem.                             *)

(* JMP and JSR leave a machine.                                             *)
LEMMA JumpTyped ==
  ASSUME NEW m \in Machines, NEW mode \in 0..7, NEW n \in Registers, NEW sn \in Registers
  PROVE  ExecuteJMP(m, mode, n) \in Machines /\ ExecuteJSR(m, sn, mode, n) \in Machines
<1> DEFINE a == Address(m, mode, n, WordHalf)
           down == Bump(a.m, SP, -2)
           pushed == SetWord(down, down.r[SP], down.r[sn])
<1>1. CASE mode = 0
  BY <1>1, AccessTyped DEF ExecuteJMP, ExecuteJSR
<1>2. CASE mode # 0
  <2>0. PC \in Registers /\ SP \in Registers /\ -2 \in Int
    BY DEF Registers, PC, SP
  <2>1. a.m \in Machines /\ a.ea \in Words
    BY <1>2, AddressTyped
  <2> HIDE DEF a
  <2>2. down \in Machines
    BY <2>0, <2>1, BumpTyped
  <2> HIDE DEF down
  <2>3. down.r \in [Registers -> Words]
    BY <2>2, MachineFields
  <2>4. pushed \in Machines
    BY <2>0, <2>2, <2>3, WriteTyped
  <2> HIDE DEF pushed
  <2>5. [[pushed.r EXCEPT ![sn] = down.r[PC]] EXCEPT ![PC] = a.ea] \in [Registers -> Words]
    BY <2>0, <2>1, <2>3, <2>4, MachineFields
  <2>6. Linked(pushed, sn, down.r[PC], a.ea) \in Machines
    <3>1. Linked(pushed, sn, down.r[PC], a.ea)
            = WithR(pushed, [[pushed.r EXCEPT ![sn] = down.r[PC]] EXCEPT ![PC] = a.ea])
      BY DEF Linked, WithR
    <3> QED
      BY <2>4, <2>5, <3>1, MachineFields, ZenonT(60)
  <2>7. [a.m EXCEPT !.r[PC] = a.ea] \in Machines
    BY <2>0, <2>1, RegisterTyped
  <2>8. ExecuteJMP(m, mode, n) \in {a.m, [a.m EXCEPT !.r[PC] = a.ea]}
    BY <1>2 DEF ExecuteJMP, a
  <2>9. ExecuteJSR(m, sn, mode, n) \in {a.m, Linked(pushed, sn, down.r[PC], a.ea)}
    BY <1>2 DEF ExecuteJSR, Pushed, a, down, pushed
  <2> QED
    BY <2>1, <2>6, <2>7, <2>8, <2>9
<1> QED
  BY <1>1, <1>2

(* RTS and MARK leave a machine.                                            *)
LEMMA ReturnTyped ==
  ASSUME NEW m \in Machines, NEW n \in Registers, NEW k \in 0..63
  PROVE  ExecuteRTS(m, n) \in Machines /\ ExecuteMARK(m, k) \in Machines
<1>0. /\ PC \in Registers /\ SP \in Registers /\ 5 \in Registers /\ 2 \in Int
      /\ m.r \in [Registers -> Words]
  BY MachineFields DEF Registers, PC, SP
<1>1. ExecuteRTS(m, n) \in Machines
  <2> DEFINE jumped == [m EXCEPT !.r[PC] = m.r[n]]
             popped == Access(Bump(jumped, SP, 2), Readable(m.r[SP]))
  <2>1. jumped \in Machines
    BY <1>0, RegisterTyped
  <2>2. Readable(m.r[SP]) \in BOOLEAN /\ WordAt(m, m.r[SP]) \in Words
    BY <1>0, ReadTyped
  <2> HIDE DEF jumped
  <2>3. popped \in Machines
    BY <1>0, <2>1, <2>2, BumpTyped, AccessTyped
  <2> HIDE DEF popped
  <2>4. [popped EXCEPT !.r[n] = WordAt(m, m.r[SP])] \in Machines
    BY <2>2, <2>3, RegisterTyped
  <2> QED
    BY <2>3, <2>4 DEF ExecuteRTS, popped, jumped
<1>2. ExecuteMARK(m, k) \in Machines
  <2> DEFINE sp == (m.r[PC] + 2 * k) % Word
             x == [[[m.r EXCEPT ![SP] = (sp + 2) % Word] EXCEPT ![PC] = m.r[5]] EXCEPT ![5] = WordAt(m, sp)]
  <2>1. sp \in Words /\ (sp + 2) % Word \in Words
    <3>1. m.r[PC] \in Words
      BY <1>0
    <3> QED
      BY <3>1, Weights, Ranges, BelowBound
  <2>2. WordAt(m, sp) \in Words /\ Readable(sp) \in BOOLEAN
    BY <2>1, ReadTyped
  <2>3. ExecuteMARK(m, k) = Access(WithR(m, x), Readable(sp))
    BY DEF ExecuteMARK, WithR
  <2> HIDE DEF sp
  <2>4. x \in [Registers -> Words]
    BY <1>0, <2>1, <2>2
  <2> HIDE DEF x
  <2>5. WithR(m, x) \in Machines
    BY <2>4, MachineFields
  <2> QED
    BY <2>2, <2>3, <2>5, AccessTyped
<1> QED
  BY <1>1, <1>2

(* The branches and SOB leave a machine.                                    *)
LEMMA BranchTyped ==
  ASSUME NEW m \in Machines, NEW n \in Registers, NEW k \in Int
  PROVE  (\A op \in Branches : ExecuteBranch(m, op, k) \in Machines) /\ ExecuteSOB(m, n, k) \in Machines
<1>1. PC \in Registers /\ 2 * k \in Int /\ -2 * k \in Int /\ -1 \in Int
  BY DEF Registers, PC
<1>2. Bump(m, PC, 2 * k) \in Machines /\ Bump(m, n, -1) \in Machines
  BY <1>1, BumpTyped
<1>3. Bump(Bump(m, n, -1), PC, -2 * k) \in Machines
  BY <1>1, <1>2, BumpTyped
<1> QED
  BY <1>2, <1>3 DEF ExecuteBranch, ExecuteSOB

(* The instructions that set and clear flags leave a machine.               *)
LEMMA FlagsTyped ==
  ASSUME NEW m \in Machines, NEW flags \in SUBSET {"n", "z", "v", "c"}, NEW set \in BOOLEAN
  PROVE  ExecuteFlags(m, flags, set) \in Machines
<1> DEFINE p == [f \in DOMAIN m.psw |-> IF f \in flags THEN set ELSE m.psw[f]]
<1>1. m.psw \in PSWs
  BY MachineFields
<1>2. p \in PSWs
  <2>1. /\ DOMAIN m.psw = {"n", "z", "v", "c", "t", "u", "p"}
        /\ m.psw.n \in BOOLEAN /\ m.psw.z \in BOOLEAN /\ m.psw.v \in BOOLEAN /\ m.psw.c \in BOOLEAN
        /\ m.psw.t \in BOOLEAN /\ m.psw.u \in 0..3 /\ m.psw.p \in BOOLEAN
    BY <1>1 DEF PSWs
  <2>2. p = [n |-> p.n, z |-> p.z, v |-> p.v, c |-> p.c, t |-> p.t, u |-> p.u, p |-> p.p]
    BY <2>1
  <2>3. /\ p.n \in {set, m.psw.n} /\ p.z \in {set, m.psw.z} /\ p.v \in {set, m.psw.v}
        /\ p.c \in {set, m.psw.c} /\ p.t = m.psw.t /\ p.u = m.psw.u /\ p.p = m.psw.p
    BY <2>1
  <2> HIDE DEF p
  <2>4. /\ p.n \in BOOLEAN /\ p.z \in BOOLEAN /\ p.v \in BOOLEAN /\ p.c \in BOOLEAN
        /\ p.t \in BOOLEAN /\ p.u \in 0..3 /\ p.p \in BOOLEAN
    BY <2>1, <2>3
  <2> QED
    BY <2>2, <2>4 DEF PSWs
<1>3. ExecuteFlags(m, flags, set) = WithPSW(m, p)
  BY DEF ExecuteFlags, WithPSW
<1> QED
  BY <1>2, <1>3, MachineFields

(* A well-typed machine is one, and so is it behind the fetch.              *)
LEMMA CurrentTyped == MachineTypeOK => Machine \in Machines /\ Current \in Machines
<1> SUFFICES ASSUME MachineTypeOK PROVE Machine \in Machines /\ Current \in Machines
  OBVIOUS
<1>1. Machine \in Machines
  BY DEF MachineTypeOK, Machine, Machines
<1>2. PC \in Registers /\ 2 \in Int
  BY DEF Registers, PC
<1> QED
  BY <1>1, <1>2, BumpTyped DEF Current

(* An instruction that ends in a machine leaves it well-typed.              *)
LEMMA StepTyped ==
  ASSUME MachineTypeOK, NEW m \in Machines, Step(m)
  PROVE  MachineTypeOK'
<1>1. /\ r' \in [Registers -> Words] /\ psw' \in PSWs /\ mem' \in [RAM \cup ROM -> Words]
      /\ fault' \in BOOLEAN
  BY MachineFields DEF Step, Becomes
<1>2. steps' \in 0..MaxSteps
  BY StepAssumption DEF Step, Running, MachineTypeOK
<1> QED
  BY <1>1, <1>2 DEF MachineTypeOK

(* Registers, memory, flags: every instruction leaves them in their widths. *)
THEOREM MachineTyped == InstructionSpec => []MachineTypeOK
<1>1. InstructionInit => MachineTypeOK
  <2> SUFFICES ASSUME InstructionInit PROVE MachineTypeOK
    OBVIOUS
  <2>1. r \in [Registers -> Words] /\ psw \in PSWs /\ fault \in BOOLEAN
    BY StartAssumption DEF InstructionInit
  <2>2. mem \in [RAM \cup ROM -> Words]
    BY MemoryAssumption DEF InstructionInit
  <2>3. steps \in 0..MaxSteps
    BY StepAssumption DEF InstructionInit
  <2> QED
    BY <2>1, <2>2, <2>3 DEF MachineTypeOK
<1>2. ASSUME MachineTypeOK, InstructionNext PROVE MachineTypeOK'
  <2>0. /\ Current \in Machines
        /\ \A d \in Operands : d[1] \in 0..7 /\ d[2] \in Registers
        /\ {ByteHalf, WordHalf} = Halves
        /\ \A k \in Offsets \cup Counts : k \in Int
        /\ \A k \in Counts : k \in 0..63
    BY <1>2, CurrentTyped, OperandAssumption DEF Halves
  <2>1. CASE FetchFails
    <3>1. Access(Current, FALSE) \in Machines /\ ~(~FALSE /\ FALSE)
      BY <2>0, AccessTyped
    <3>2. /\ r' \in [Registers -> Words] /\ psw' \in PSWs /\ mem' \in [RAM \cup ROM -> Words]
          /\ fault' \in BOOLEAN
      BY <2>1, <3>1, MachineFields DEF FetchFails, Becomes
    <3>3. steps' \in 0..MaxSteps
      BY <1>2, <2>1, StepAssumption DEF FetchFails, MachineTypeOK
    <3> QED
      BY <3>2, <3>3 DEF MachineTypeOK
  <2>2. CASE Computing
    BY <1>2, <2>0, <2>2, SingleTyped, DoubleTyped, WordOperandTyped, StepTyped DEF Computing
  <2>3. CASE Moving
    BY <1>2, <2>0, <2>3, DoubleTyped, StatusTyped, FlagsTyped, StepTyped DEF Moving
  <2>4. CASE Jumping
    <3>0. 0 \in Registers /\ 0 \in 0..63
      BY DEF Registers
    <3>1. /\ \A op \in Branches, k \in Offsets : ExecuteBranch(Current, op, k) \in Machines
          /\ \A n \in Registers, k \in Counts : ExecuteSOB(Current, n, k) \in Machines
      BY <2>0, <3>0, BranchTyped
    <3>2. \A n \in Registers, d \in Operands :
            ExecuteJMP(Current, d[1], d[2]) \in Machines /\ ExecuteJSR(Current, n, d[1], d[2]) \in Machines
      BY <2>0, JumpTyped
    <3>3. \A n \in Registers : ExecuteRTS(Current, n) \in Machines
      BY <2>0, <3>0, ReturnTyped
    <3>4. \A k \in Counts : ExecuteMARK(Current, k) \in Machines
      BY <2>0, <3>0, ReturnTyped
    <3>5. PICK m \in Machines : Step(m)
      BY <2>4, <3>0, <3>1, <3>2, <3>3, <3>4 DEF Jumping
    <3> QED
      BY <1>2, <3>5, StepTyped
  <2> QED
    BY <1>2, <2>1, <2>2, <2>3, <2>4 DEF InstructionNext
<1>3. MachineTypeOK /\ UNCHANGED <<machineVars, steps>> => MachineTypeOK'
  BY DEF MachineTypeOK, machineVars
<1> QED
  BY <1>1, <1>2, <1>3, PTL DEF InstructionSpec

-----------------------------------------------------------------------------
(* The stack.  What a push has put down a pop takes up: first, that a step  *)
(* of a register or a write to memory changes nothing else.                 *)

(* A register or a cell that gets a value.                                  *)
Changed(f, n, w) == [f EXCEPT ![n] = w]

(* A step of a register changes that register only.                         *)
LEMMA BumpEffect ==
  ASSUME NEW m \in Machines, NEW n, NEW by
  PROVE  /\ Bump(m, n, by).r = Changed(m.r, n, (m.r[n] + by) % Word)
         /\ Bump(m, n, by).psw = m.psw /\ Bump(m, n, by).mem = m.mem /\ Bump(m, n, by).fault = m.fault
<1>1. Bump(m, n, by) = WithR(m, Changed(m.r, n, (m.r[n] + by) % Word))
  BY DEF Bump, WithR, Changed
<1>2. Shape(m)
  BY MachineFields
<1> QED
  BY <1>1, <1>2, FieldsSet DEF Keeps

(* An access changes nothing but the fault.                                 *)
LEMMA AccessEffect ==
  ASSUME NEW m \in Machines, NEW ok
  PROVE  /\ Access(m, ok).r = m.r /\ Access(m, ok).psw = m.psw /\ Access(m, ok).mem = m.mem
         /\ Access(m, ok).fault = (m.fault \/ ~ok)
BY DEF Access, Machines

(* A write that does not fault has reached RAM, and what it wrote is what   *)
(* is read there.                                                           *)
LEMMA WordWritten ==
  ASSUME NEW m \in Machines, NEW a \in Words, NEW w \in Words, ~SetWord(m, a, w).fault
  PROVE  /\ Even(a) \in RAM /\ ~m.fault
         /\ SetWord(m, a, w).r = m.r /\ SetWord(m, a, w).psw = m.psw
         /\ SetWord(m, a, w).mem[Even(a)] = w
         /\ \A b \in RAM \cup ROM : b # Even(a) => SetWord(m, a, w).mem[b] = m.mem[b]
<1>1. Even(a) \in RAM
  BY AccessEffect DEF SetWord
<1>2. SetWord(m, a, w) = WithMem(m, [m.mem EXCEPT ![Even(a)] = w])
  BY <1>1 DEF SetWord, WithMem
<1>3. SetWord(m, a, w).r = m.r /\ SetWord(m, a, w).psw = m.psw /\ SetWord(m, a, w).fault = m.fault
      /\ SetWord(m, a, w).mem = [m.mem EXCEPT ![Even(a)] = w]
  BY <1>2 DEF WithMem, Machines
<1>4. m.mem \in [RAM \cup ROM -> Words]
  BY MachineFields
<1> QED
  BY <1>1, <1>3, <1>4

(* A byte put into a word, or extended, is read back.                       *)
LEMMA HalvesRead ==
  ASSUME NEW w \in Words, NEW b \in Bytes
  PROVE  LowSet(w, b) % Byte = b /\ HighSet(w, b) \div Byte = b /\ Extended(b) % Byte = b
BY Weights, Ranges, BelowBound DEF LowSet, HighSet, Extended

(* The same for a byte, in either half of its word.                         *)
LEMMA ByteWritten ==
  ASSUME NEW m \in Machines, NEW a \in Words, NEW b \in Bytes, ~SetByte(m, a, b).fault
  PROVE  /\ Even(a) \in RAM /\ ~m.fault
         /\ SetByte(m, a, b).r = m.r
         /\ ByteOf(SetByte(m, a, b).mem[Even(a)], a) = b
<1>1. Even(a) \in RAM
  BY AccessEffect DEF SetByte
<1> DEFINE w == m.mem[Even(a)]
           set == IF a % 2 = 1 THEN HighSet(w, b) ELSE LowSet(w, b)
<1>2. SetByte(m, a, b) = WithMem(m, [m.mem EXCEPT ![Even(a)] = set])
  BY <1>1 DEF SetByte, WithMem
<1>3. m.mem \in [RAM \cup ROM -> Words] /\ w \in Words
  BY <1>1, MachineFields
<1>4. ByteOf(set, a) = b
  <2> HIDE DEF w
  <2>1. w \in Words
    BY <1>3
  <2> QED
    BY <2>1, HalvesRead DEF ByteOf
<1> HIDE DEF set
<1>5. /\ SetByte(m, a, b).r = m.r /\ SetByte(m, a, b).fault = m.fault
      /\ SetByte(m, a, b).mem = [m.mem EXCEPT ![Even(a)] = set]
  BY <1>2 DEF WithMem, Machines
<1>6. SetByte(m, a, b).mem[Even(a)] = set
  BY <1>1, <1>3, <1>5
<1> QED
  BY <1>1, <1>4, <1>5, <1>6

(* Flags change neither registers nor memory.                               *)
LEMMA FlaggedEffect ==
  ASSUME NEW m \in Machines, NEW p
  PROVE  Flagged(m, p).r = m.r /\ Flagged(m, p).mem = m.mem /\ Flagged(m, p).fault = m.fault
BY DEF Flagged, Machines

(* Addresses are even or odd for good, and a step there and back is none.   *)
LEMMA Steps ==
  /\ \A x \in Words, step \in {1, 2} : (((x - step) % Word) + step) % Word = x
  /\ \A x \in Words : ((x - 2) % Word) % 2 = x % 2
<1>1. \A x \in Words : (((x - 1) % Word) + 1) % Word = x
  BY Weights, Ranges, BelowBound
<1>2. \A x \in Words : (((x - 2) % Word) + 2) % Word = x
  BY Weights, Ranges, BelowBound
<1>3. \A x \in Words : ((x - 2) % Word) % 2 = x % 2
  BY Weights, Ranges, BelowBound
<1> QED
  BY <1>1, <1>2, <1>3

(* How far a register steps: by one for bytes, but never SP or PC.          *)
StepOf(h, n) == IF h = ByteHalf /\ n < 6 THEN 1 ELSE 2

(* Where -(R) puts a number down.                                           *)
LEMMA PutDown ==
  ASSUME NEW m \in Machines, ~m.fault, NEW n \in 1..6, NEW h \in Halves,
         ~ExecuteMOV(m, h, 0, 0, 4, n).fault
  PROVE  LET down == ExecuteMOV(m, h, 0, 0, 4, n)
             ea == (m.r[n] - StepOf(h, n)) % Word
         IN  /\ down.r = [m.r EXCEPT ![n] = ea] /\ Even(ea) \in RAM
             /\ h = WordHalf => down.mem[Even(ea)] = m.r[0]
             /\ h = ByteHalf => ByteOf(down.mem[Even(ea)], ea) = m.r[0] % Byte
<1> DEFINE down == ExecuteMOV(m, h, 0, 0, 4, n)
           ea == (m.r[n] - StepOf(h, n)) % Word
           dec == Bump(m, n, -StepOf(h, n))
           seen == Access(dec, Readable(ea))
           value == m.r[0] % (2 * h)
           o == Fetched(m, 4, n, h)
           res == MOV(h, o.value, value, m.psw)
           put == Stored(seen, 4, n, ea, h, value)
<1>1. /\ n \in Registers /\ 0 \in Registers /\ StepOf(h, n) \in {1, 2} /\ m.r[n] \in Words /\ m.r[0] \in Words
      /\ m.r \in [Registers -> Words]
  <2>1. n \in Registers /\ 0 \in Registers /\ StepOf(h, n) \in {1, 2}
    BY DEF Registers, StepOf
  <2>2. m.r \in [Registers -> Words]
    BY MachineFields
  <2> QED
    BY <2>1, <2>2
<1>2. dec \in Machines
  BY <1>1, BumpTyped
<1>3. m.r[n] + (-StepOf(h, n)) = m.r[n] - StepOf(h, n)
  BY <1>1, Ranges, BelowBound
<1>4. dec.r = [m.r EXCEPT ![n] = ea] /\ dec.fault = m.fault /\ dec.r[n] = ea /\ ea \in Words
  <2>0. dec.r = Changed(m.r, n, (m.r[n] + (-StepOf(h, n))) % Word) /\ dec.fault = m.fault
    BY BumpEffect
  <2>1. dec.r = [m.r EXCEPT ![n] = ea] /\ dec.fault = m.fault
    BY <1>3, <2>0, Zenon DEF Changed
  <2>2. dec.r \in [Registers -> Words]
    BY <1>2, MachineFields
  <2> QED
    BY <1>1, <2>1, <2>2
<1>5. Address(m, 4, n, h) = [m |-> dec, ea |-> ea]
  <2>1. Address(m, 4, n, h) = AddressBy(StepOf(h, n), m, 4, n)
    BY DEF Address, StepOf
  <2>2. AddressBy(StepOf(h, n), m, 4, n) = [m |-> dec, ea |-> dec.r[n]]
    BY DEF AddressBy
  <2> QED
    BY <1>4, <2>1, <2>2
<1> HIDE DEF dec, ea
<1>6. o.m = seen /\ o.ea = ea
  BY <1>4, <1>5 DEF Fetched
<1>7. Readable(ea) \in BOOLEAN
  BY DEF Readable
<1>8. seen \in Machines /\ seen.r = dec.r /\ seen.fault = (m.fault \/ ~Readable(ea))
  BY <1>2, <1>4, <1>7, AccessTyped, AccessEffect
<1>9. Fetched(m, 0, 0, h).m = m /\ Fetched(m, 0, 0, h).value = value
  BY DEF Fetched
<1>10. down = Rewritten(o, 4, n, h, res)
  BY <1>9 DEF ExecuteMOV
<1>11. res.value = value
  BY DEF MOV, Result
<1> HIDE DEF o, res, seen
<1>12. ~seen.fault /\ down = Flagged(put, res.psw)
  BY <1>6, <1>10, <1>11 DEF Rewritten
<1>13. value \in Numbers(h)
  BY <1>1, Weights, Ranges, BelowBound DEF Halves
<1>14. put \in Machines
  <2>1. 4 \in 0..7 /\ n \in Registers
    BY <1>1
  <2> QED
    BY <1>4, <1>8, <1>13, <2>1, StoredTyped
<1> HIDE DEF put, down
<1>15. down.r = put.r /\ down.mem = put.mem /\ ~put.fault
  BY <1>12, <1>14, FlaggedEffect DEF down
<1>16. CASE h = WordHalf
  <2>1. value = m.r[0] /\ value \in Words /\ h # ByteHalf
    BY <1>1, <1>16, Weights, Ranges, BelowBound
  <2>2. put = SetWord(seen, ea, value)
    BY <2>1 DEF Stored, put
  <2> HIDE DEF value
  <2>3. Even(ea) \in RAM /\ put.r = seen.r /\ put.mem[Even(ea)] = value
    <3>1. ~SetWord(seen, ea, value).fault
      BY <1>15, <2>2
    <3>2. seen \in Machines /\ ea \in Words /\ value \in Words
      BY <1>4, <1>8, <2>1
    <3>3. /\ Even(ea) \in RAM /\ SetWord(seen, ea, value).r = seen.r
          /\ SetWord(seen, ea, value).mem[Even(ea)] = value
      BY <3>1, <3>2, WordWritten
    <3> QED
      BY <2>2, <3>3
  <2>4. h # ByteHalf
    BY <2>1
  <2>5. down.r = [m.r EXCEPT ![n] = ea] /\ down.mem[Even(ea)] = m.r[0]
    BY <1>4, <1>8, <1>15, <2>1, <2>3, Zenon
  <2> QED
    BY <2>3, <2>4, <2>5, Zenon DEF ea, down
<1>17. CASE h = ByteHalf
  <2>1. value = m.r[0] % Byte /\ value \in Bytes /\ h # WordHalf
    BY <1>1, <1>17, Weights, Ranges, BelowBound
  <2>2. put = SetByte(seen, ea, value)
    BY <1>17 DEF Stored, put
  <2>3. Even(ea) \in RAM /\ put.r = seen.r /\ ByteOf(put.mem[Even(ea)], ea) = value
    BY <1>4, <1>8, <1>15, <2>1, <2>2, ByteWritten
  <2>4. h # WordHalf
    BY <2>1
  <2>5. down.r = [m.r EXCEPT ![n] = ea] /\ ByteOf(down.mem[Even(ea)], ea) = m.r[0] % Byte
    BY <1>4, <1>8, <1>15, <2>1, <2>3, Zenon
  <2> QED
    BY <2>3, <2>4, <2>5, Zenon DEF ea, down
<1> QED
  BY <1>16, <1>17 DEF Halves

(* What (R)+ takes up, and where R then points.                             *)
LEMMA TakenUp ==
  ASSUME NEW m \in Machines, ~m.fault, NEW n \in 1..6, NEW h \in Halves
  PROVE  LET up == ExecuteMOV(m, h, 2, n, 0, 0)
         IN  /\ up.r[n] = (m.r[n] + StepOf(h, n)) % Word \/ up.fault
             /\ h = WordHalf => up.r[0] = WordAt(m, m.r[n]) \/ up.fault
             /\ h = ByteHalf => up.r[0] = Extended(ByteAt(m, m.r[n])) \/ up.fault
<1> DEFINE up == ExecuteMOV(m, h, 2, n, 0, 0)
           inc == Bump(m, n, StepOf(h, n))
           ea == m.r[n]
           value == IF h = ByteHalf THEN ByteAt(m, ea) ELSE WordAt(m, ea)
           s == Fetched(m, 2, n, h)
           o == Fetched(s.m, 0, 0, h)
           res == MOV(h, o.value, s.value, m.psw)
<1>1. /\ n \in Registers /\ 0 \in Registers /\ n # 0 /\ StepOf(h, n) \in Int
  BY DEF Registers, StepOf
<1>2. m.r \in [Registers -> Words] /\ ea \in Words
  BY <1>1, MachineFields
<1>3. inc \in Machines
  BY <1>1, BumpTyped
<1>4. inc.r = [m.r EXCEPT ![n] = (ea + StepOf(h, n)) % Word] /\ inc.fault = m.fault
  <2>1. inc.r = Changed(m.r, n, (m.r[n] + StepOf(h, n)) % Word) /\ inc.fault = m.fault
    BY BumpEffect
  <2> QED
    BY <2>1, Zenon DEF Changed
<1>5. Address(m, 2, n, h) = [m |-> inc, ea |-> ea]
  <2>1. Address(m, 2, n, h) = AddressBy(StepOf(h, n), m, 2, n)
    BY DEF Address, StepOf
  <2>2. AddressBy(StepOf(h, n), m, 2, n) = [m |-> inc, ea |-> ea]
    BY DEF AddressBy
  <2> QED
    BY <2>1, <2>2
<1>6. inc.r[n] = (ea + StepOf(h, n)) % Word
  BY <1>1, <1>2, <1>4
<1> HIDE DEF inc, ea
<1>7. s.m = Access(inc, Readable(ea)) /\ s.value = value
  BY <1>4, <1>5 DEF Fetched
<1>8. Readable(ea) \in BOOLEAN /\ ByteAt(m, ea) \in Bytes /\ WordAt(m, ea) \in Words
  BY <1>2, ReadTyped
<1>9. s.m \in Machines /\ s.m.r = inc.r
  BY <1>3, <1>7, <1>8, AccessTyped, AccessEffect
<1>10. value \in Numbers(h)
  BY <1>8, Ranges DEF Halves
<1>11. o.m = s.m
  BY DEF Fetched
<1>12. res.value = s.value
  BY DEF MOV, Result
<1> HIDE DEF s, o, res, value
<1>13. ~up.fault => ~s.m.fault
  BY DEF ExecuteMOV, s
<1>14. ASSUME ~s.m.fault, h = ByteHalf
       PROVE  up.r[n] = inc.r[n] /\ up.r[0] = Extended(value)
  <2>1. up = WithPSW(WithR(s.m, [s.m.r EXCEPT ![0] = Extended(value)]), res.psw)
    <3>1. up = [s.m EXCEPT !.r[0] = Extended(s.value), !.psw = res.psw]
      BY <1>14 DEF ExecuteMOV, s, o, res
    <3>2. [s.m EXCEPT !.r[0] = Extended(s.value), !.psw = res.psw]
            = WithPSW(WithR(s.m, [s.m.r EXCEPT ![0] = Extended(s.value)]), res.psw)
      BY DEF WithPSW, WithR
    <3> QED
      BY <1>7, <3>1, <3>2
  <2>2. up.r = [s.m.r EXCEPT ![0] = Extended(value)]
    <3>1. up.r = WithR(s.m, [s.m.r EXCEPT ![0] = Extended(value)]).r
      BY <1>9, <2>1 DEF WithPSW, WithR, Machines
    <3> QED
      BY <1>9, <3>1 DEF WithR, Machines
  <2>3. s.m.r \in [Registers -> Words]
    BY <1>9, MachineFields
  <2> HIDE DEF up
  <2> QED
    BY <1>1, <1>9, <2>2, <2>3
<1>15. ASSUME ~s.m.fault, h # ByteHalf
       PROVE  up.r[n] = inc.r[n] /\ up.r[0] = value
  <2> DEFINE put == [s.m EXCEPT !.r[0] = value]
  <2>1. up = Rewritten(o, 0, 0, h, res)
    BY <1>15 DEF ExecuteMOV, s, o, res
  <2>2. Rewritten(o, 0, 0, h, res) = Flagged(Stored(s.m, 0, 0, o.ea, h, s.value), res.psw)
    BY <1>11, <1>12, <1>15 DEF Rewritten
  <2>3. Stored(s.m, 0, 0, o.ea, h, s.value) = put
    BY <1>7, <1>15 DEF Stored
  <2>4. value \in Words /\ s.m.r \in [Registers -> Words]
    <3>1. h = WordHalf
      BY <1>15 DEF Halves
    <3>2. value \in Words
      BY <1>10, <3>1, Ranges
    <3> QED
      BY <1>9, <3>2, MachineFields
  <2>5. put \in Machines /\ put.r = [s.m.r EXCEPT ![0] = value]
    <3>1. put = WithR(s.m, [s.m.r EXCEPT ![0] = value])
      BY DEF WithR
    <3>2. WithR(s.m, [s.m.r EXCEPT ![0] = value]).r = [s.m.r EXCEPT ![0] = value]
      BY <1>9 DEF WithR, Machines
    <3>3. put \in Machines
      BY <1>1, <1>9, <2>4, RegisterTyped
    <3> QED
      BY <3>1, <3>2, <3>3
  <2> HIDE DEF up, put
  <2>6. up.r = put.r
    BY <2>1, <2>2, <2>3, <2>5, FlaggedEffect
  <2> QED
    BY <1>1, <1>9, <2>4, <2>5, <2>6
<1> HIDE DEF up
<1>16. ASSUME ~up.fault
       PROVE  /\ up.r[n] = (ea + StepOf(h, n)) % Word
              /\ h = WordHalf => up.r[0] = WordAt(m, ea)
              /\ h = ByteHalf => up.r[0] = Extended(ByteAt(m, ea))
  <2>1. CASE h = ByteHalf
    <3>1. h # WordHalf
      BY <2>1, Weights
    <3> QED
      BY <1>6, <1>13, <1>14, <1>16, <2>1, <3>1 DEF value
  <2>2. CASE h # ByteHalf
    BY <1>6, <1>13, <1>15, <1>16, <2>2 DEF value
  <2> QED
    BY <2>1, <2>2
<1> QED
  BY <1>16 DEF up, ea

(* Numbers pushed with MOV or MOVB R0,-(R) come back with (R)+,R0.          *)
LEMMA PushedPops ==
  ASSUME MachineTypeOK
  PROVE  PushPops
<1> SUFFICES ASSUME NEW n \in 1..SP, NEW h \in {ByteHalf, WordHalf},
                    NEW down \in {ExecuteMOV(Machine, h, 0, 0, 4, n)},
                    NEW up \in {ExecuteMOV(down, h, 2, n, 0, 0)},
                    ~fault, ~up.fault, ~down.fault
             PROVE  /\ up.r[n] = r[n]
                    /\ up.r[0] % (2 * h) = r[0] % (2 * h)
                    /\ down.r[SP] % 2 = r[SP] % 2
  BY Zenon DEF PushPops
<1>0. down = ExecuteMOV(Machine, h, 0, 0, 4, n) /\ up = ExecuteMOV(down, h, 2, n, 0, 0)
  OBVIOUS
<1> DEFINE ea == (r[n] - StepOf(h, n)) % Word
<1>1. /\ Machine \in Machines /\ ~Machine.fault /\ Machine.r = r
      /\ n \in 1..6 /\ h \in Halves /\ n \in Registers /\ SP \in Registers /\ 0 \in Registers /\ SP = 6
      /\ StepOf(h, n) \in {1, 2} /\ r \in [Registers -> Words]
  <2>1. Machine \in Machines
    BY CurrentTyped
  <2>2. n \in 1..6 /\ h \in Halves /\ n \in Registers /\ SP \in Registers /\ 0 \in Registers /\ SP = 6
    BY DEF SP, Halves, Registers
  <2>3. StepOf(h, n) \in {1, 2} /\ r \in [Registers -> Words] /\ ~Machine.fault /\ Machine.r = r
    BY DEF StepOf, MachineTypeOK, Machine
  <2> QED
    BY <2>1, <2>2, <2>3
<1>2. down \in Machines
  <2>1. 4 \in 0..7 /\ 0 \in 0..7
    OBVIOUS
  <2> QED
    BY <1>0, <1>1, <2>1, DoubleTyped
<1>3. /\ down.r = [r EXCEPT ![n] = ea] /\ Even(ea) \in RAM
      /\ h = WordHalf => down.mem[Even(ea)] = r[0]
      /\ h = ByteHalf => ByteOf(down.mem[Even(ea)], ea) = r[0] % Byte
  BY <1>0, <1>1, PutDown
<1>4. down.r[n] = ea /\ r[n] \in Words /\ r[0] \in Words /\ r[SP] \in Words
  BY <1>1, <1>3
<1>5. (ea + StepOf(h, n)) % Word = r[n]
  BY <1>1, <1>4, Steps
<1>6. down.r[SP] % 2 = r[SP] % 2
  <2>1. CASE n = SP
    <3>1. StepOf(h, n) = 2
      BY <1>1, <2>1 DEF StepOf
    <3> QED
      BY <1>4, <2>1, <3>1, Steps
  <2>2. CASE n # SP
    <3>1. down.r[SP] = r[SP]
      BY <1>1, <1>3, <2>2
    <3> QED
      BY <3>1
  <2> QED
    BY <2>1, <2>2
<1> HIDE DEF ea
<1>7. /\ up.r[n] = (ea + StepOf(h, n)) % Word
      /\ h = WordHalf => up.r[0] = WordAt(down, ea)
      /\ h = ByteHalf => up.r[0] = Extended(ByteAt(down, ea))
  BY <1>0, <1>1, <1>2, <1>4, TakenUp
<1>8. up.r[0] % (2 * h) = r[0] % (2 * h)
  <2>0. Even(ea) \notin ROM /\ Readable(ea)
    BY <1>3, MemoryAssumption DEF Readable
  <2>1. CASE h = WordHalf
    <3>1. WordAt(down, ea) = down.mem[Even(ea)]
      BY <1>3, <2>0 DEF WordAt
    <3> QED
      BY <1>3, <1>7, <2>1, <3>1
  <2>2. CASE h = ByteHalf
    <3>1. ByteAt(down, ea) = r[0] % Byte
      BY <1>3, <2>0, <2>2 DEF ByteAt
    <3>2. r[0] % Byte \in Bytes /\ 2 * h = Byte
      BY <1>4, <2>2, Weights, Ranges, BelowBound
    <3>3. Extended(r[0] % Byte) % Byte = r[0] % Byte
      <4>1. 0 \in Words
        BY Ranges, BelowBound
      <4> QED
        BY <3>2, <4>1, HalvesRead
    <3> QED
      BY <1>7, <2>2, <3>1, <3>2, <3>3, Zenon
  <2> QED
    BY <1>1, <2>1, <2>2 DEF Halves
<1> QED
  BY <1>5, <1>6, <1>7, <1>8

-----------------------------------------------------------------------------
(* Calls: what JSR has saved RTS takes back.                                *)

(* Registers replaced leave all else.                                       *)
LEMMA WithREffect ==
  ASSUME NEW m \in Machines, NEW x
  PROVE  WithR(m, x).r = x /\ WithR(m, x).psw = m.psw /\ WithR(m, x).mem = m.mem /\ WithR(m, x).fault = m.fault
BY DEF WithR, Machines

(* SP, PC and the link of the convention are different registers.           *)
LEMMA StackRegisters ==
  /\ SP \in Registers /\ PC \in Registers /\ PC # SP /\ 5 \in Registers /\ 5 # SP /\ 5 # PC /\ SP = 6
  /\ 2 \in Int /\ -2 \in Int
BY DEF Registers, PC, SP

(* Where a push goes. *)
Down(m) == (m.r[SP] - 2) % Word

(* What a push without a fault leaves: one word below the stack.            *)
LEMMA Pushes ==
  ASSUME NEW m \in Machines, NEW w \in Words, ~Pushed(m, w).fault
  PROVE  /\ Pushed(m, w) \in Machines /\ ~m.fault /\ Down(m) \in Words /\ Even(Down(m)) \in RAM
         /\ Pushed(m, w).r = Changed(m.r, SP, Down(m)) /\ Pushed(m, w).psw = m.psw
         /\ Pushed(m, w).mem[Even(Down(m))] = w
         /\ \A b \in RAM \cup ROM : b # Even(Down(m)) => Pushed(m, w).mem[b] = m.mem[b]
<1> DEFINE down == Bump(m, SP, -2)
<1>1. SP \in Registers /\ -2 \in Int /\ m.r \in [Registers -> Words]
  BY MachineFields DEF Registers, SP
<1>2. down \in Machines
  BY <1>1, BumpTyped
<1>3. m.r[SP] \in Words
  BY <1>1
<1>4. m.r[SP] + (-2) = m.r[SP] - 2
  BY <1>3, Ranges, BelowBound
<1>5. /\ down.r = Changed(m.r, SP, (m.r[SP] + (-2)) % Word)
      /\ down.psw = m.psw /\ down.mem = m.mem /\ down.fault = m.fault
  BY BumpEffect
<1>6. down.r = Changed(m.r, SP, Down(m))
  BY <1>4, <1>5, Zenon DEF Down
<1>7. Down(m) \in Words
  BY <1>3, Weights, Ranges, BelowBound DEF Down
<1>8. down.r[SP] = Down(m)
  BY <1>1, <1>6 DEF Changed
<1> HIDE DEF down
<1>9. Pushed(m, w) = SetWord(down, Down(m), w)
  BY <1>8 DEF Pushed, down
<1>10. ~SetWord(down, Down(m), w).fault
  BY <1>9
<1>11. /\ Even(Down(m)) \in RAM /\ ~down.fault
       /\ SetWord(down, Down(m), w).r = down.r /\ SetWord(down, Down(m), w).psw = down.psw
       /\ SetWord(down, Down(m), w).mem[Even(Down(m))] = w
       /\ \A b \in RAM \cup ROM : b # Even(Down(m)) => SetWord(down, Down(m), w).mem[b] = down.mem[b]
  BY <1>2, <1>7, <1>10, WordWritten
<1>12. SetWord(down, Down(m), w) \in Machines
  BY <1>2, <1>7, WriteTyped
<1> QED
  BY <1>5, <1>6, <1>7, <1>9, <1>11, <1>12

(* What JSR leaves: the link on the stack and the return address in it.     *)
LEMMA Calls ==
  ASSUME NEW m \in Machines, NEW mode \in 0..7, NEW n \in Registers, NEW sn \in Registers \ {SP},
         ~ExecuteJSR(m, sn, mode, n).fault
  PROVE  LET a == Address(m, mode, n, WordHalf)
             call == ExecuteJSR(m, sn, mode, n)
         IN  /\ mode # 0 /\ a.m \in Machines /\ ~a.m.fault /\ call \in Machines
             /\ Down(a.m) \in Words /\ Even(Down(a.m)) \in RAM
             /\ call.r = Changed(Changed(Changed(a.m.r, SP, Down(a.m)), sn, a.m.r[PC]), PC, a.ea)
             /\ call.psw = a.m.psw
             /\ call.mem[Even(Down(a.m))] = a.m.r[sn]
             /\ \A b \in RAM \cup ROM : b # Even(Down(a.m)) => call.mem[b] = a.m.mem[b]
<1> DEFINE a == Address(m, mode, n, WordHalf)
           call == ExecuteJSR(m, sn, mode, n)
           down == Bump(a.m, SP, -2)
           pushed == Pushed(a.m, a.m.r[sn])
<1>1. mode # 0
  <2>1. mode = 0 => ExecuteJSR(m, sn, mode, n).fault
    BY AccessEffect DEF ExecuteJSR
  <2> QED
    BY <2>1
<1>2. a.m \in Machines /\ a.ea \in Words
  BY <1>1, AddressTyped
<1>3. ~a.m.fault
  BY <1>1 DEF ExecuteJSR
<1>4. SP \in Registers /\ PC \in Registers /\ PC # SP /\ a.m.r \in [Registers -> Words]
  BY <1>2, StackRegisters, MachineFields
<1> HIDE DEF a
<1>5. down.r[sn] = a.m.r[sn] /\ down.r[PC] = a.m.r[PC]
  <2>1. down.r = Changed(a.m.r, SP, (a.m.r[SP] + (-2)) % Word)
    BY <1>2, BumpEffect
  <2> QED
    BY <1>4, <2>1 DEF Changed
<1>6. call = Linked(pushed, sn, a.m.r[PC], a.ea)
  BY <1>1, <1>3, <1>5 DEF ExecuteJSR, a
<1>7. a.m.r[sn] \in Words /\ a.m.r[PC] \in Words
  BY <1>4
<1>8. Linked(pushed, sn, a.m.r[PC], a.ea)
        = WithR(pushed, Changed(Changed(pushed.r, sn, a.m.r[PC]), PC, a.ea))
  BY DEF Linked, WithR, Changed
<1> HIDE DEF pushed
<1>9. WithR(pushed, Changed(Changed(pushed.r, sn, a.m.r[PC]), PC, a.ea)).fault => ~pushed.fault \/ call.fault
  BY <1>6, <1>8
<1>10. pushed \in Machines
  <2>1. pushed \in Machines
    <3>1. Bump(a.m, SP, -2) \in Machines
      BY <1>2, <1>4, BumpTyped
    <3>2. Bump(a.m, SP, -2).r \in [Registers -> Words]
      BY <3>1, MachineFields
    <3>3. Bump(a.m, SP, -2).r[SP] \in Words
      BY <1>4, <3>2
    <3> QED
      BY <1>7, <3>1, <3>3, WriteTyped DEF pushed, Pushed
  <2> QED
    BY <2>1
<1>11. /\ call.fault = pushed.fault /\ call.psw = pushed.psw /\ call.mem = pushed.mem
       /\ call.r = Changed(Changed(pushed.r, sn, a.m.r[PC]), PC, a.ea)
  <2>1. PICK x : x = Changed(Changed(pushed.r, sn, a.m.r[PC]), PC, a.ea)
    OBVIOUS
  <2>2. call = WithR(pushed, x)
    BY <1>6, <1>8, <2>1
  <2> HIDE DEF call
  <2> QED
    BY <1>10, <2>1, <2>2, WithREffect
<1>12. ~pushed.fault
  BY <1>11
<1>13. call \in Machines
  BY JumpTyped
<1>14. /\ Down(a.m) \in Words /\ Even(Down(a.m)) \in RAM
       /\ pushed.r = Changed(a.m.r, SP, Down(a.m)) /\ pushed.psw = a.m.psw
       /\ pushed.mem[Even(Down(a.m))] = a.m.r[sn]
       /\ \A b \in RAM \cup ROM : b # Even(Down(a.m)) => pushed.mem[b] = a.m.mem[b]
  BY <1>2, <1>7, <1>12, Pushes DEF pushed
<1> HIDE DEF call
<1>15. /\ call.r = Changed(Changed(Changed(a.m.r, SP, Down(a.m)), sn, a.m.r[PC]), PC, a.ea)
       /\ call.psw = a.m.psw /\ call.mem[Even(Down(a.m))] = a.m.r[sn]
       /\ \A b \in RAM \cup ROM : b # Even(Down(a.m)) => call.mem[b] = a.m.mem[b]
  BY <1>11, <1>14
<1> QED
  BY <1>1, <1>2, <1>3, <1>13, <1>14, <1>15 DEF a, call

(* What RTS leaves. *)
LEMMA Returns ==
  ASSUME NEW m \in Machines, NEW n \in Registers \ {SP}, ~ExecuteRTS(m, n).fault
  PROVE  LET back == ExecuteRTS(m, n)
         IN  /\ back.r = Changed(Changed(Changed(m.r, PC, m.r[n]), SP, (m.r[SP] + 2) % Word), n, WordAt(m, m.r[SP]))
             /\ back.psw = m.psw /\ back.mem = m.mem /\ ~m.fault
<1> DEFINE back == ExecuteRTS(m, n)
           jumped == WithR(m, Changed(m.r, PC, m.r[n]))
           popped == Access(Bump(jumped, SP, 2), Readable(m.r[SP]))
           end == WithR(popped, Changed(popped.r, n, WordAt(m, m.r[SP])))
<1>1. /\ PC \in Registers /\ SP \in Registers /\ PC # SP /\ 2 \in Int /\ m.r \in [Registers -> Words]
  BY MachineFields DEF Registers, PC, SP
<1>2. jumped \in Machines /\ jumped.r = Changed(m.r, PC, m.r[n]) /\ Keeps(m, jumped) /\ jumped.fault = m.fault
  <2>1. Changed(m.r, PC, m.r[n]) \in [Registers -> Words]
    BY <1>1 DEF Changed
  <2>2. jumped \in Machines /\ Shape(jumped)
    BY <2>1, MachineFields
  <2>3. PICK x : x = Changed(m.r, PC, m.r[n])
    OBVIOUS
  <2>4. jumped = WithR(m, x)
    BY <2>3
  <2>5. /\ jumped.r = Changed(m.r, PC, m.r[n]) /\ jumped.psw = m.psw /\ jumped.mem = m.mem
        /\ jumped.fault = m.fault
    BY <2>3, <2>4, WithREffect
  <2> HIDE DEF jumped
  <2> QED
    BY <2>2, <2>5 DEF Keeps
<1> HIDE DEF jumped
<1>3. Bump(jumped, SP, 2) \in Machines
  BY <1>1, <1>2, BumpTyped
<1>4. /\ Bump(jumped, SP, 2).r = Changed(jumped.r, SP, (jumped.r[SP] + 2) % Word)
      /\ Bump(jumped, SP, 2).psw = jumped.psw /\ Bump(jumped, SP, 2).mem = jumped.mem
      /\ Bump(jumped, SP, 2).fault = jumped.fault
  BY <1>2, BumpEffect
<1>5. jumped.r[SP] = m.r[SP]
  BY <1>1, <1>2 DEF Changed
<1>6. Readable(m.r[SP]) \in BOOLEAN
  BY DEF Readable
<1>7. /\ popped \in Machines /\ popped.r = Changed(jumped.r, SP, (m.r[SP] + 2) % Word)
      /\ popped.psw = m.psw /\ popped.mem = m.mem
      /\ popped.fault = (m.fault \/ ~Readable(m.r[SP]))
  BY <1>2, <1>3, <1>4, <1>5, <1>6, AccessTyped, AccessEffect DEF Keeps
<1>8. back = IF popped.fault THEN popped ELSE end
  <2>1. jumped = [m EXCEPT !.r[PC] = m.r[n]]
    BY DEF jumped, WithR, Changed
  <2>2. end = [popped EXCEPT !.r[n] = WordAt(m, m.r[SP])]
    BY DEF WithR, Changed
  <2> HIDE DEF end
  <2> QED
    BY <2>1, <2>2 DEF ExecuteRTS
<1> HIDE DEF popped, back
<1>9. back = end /\ ~popped.fault
  BY <1>8 DEF back
<1>10. end.r = Changed(popped.r, n, WordAt(m, m.r[SP])) /\ end.psw = popped.psw /\ end.mem = popped.mem
  BY <1>7, WithREffect
<1> HIDE DEF end
<1>11. /\ back.r = Changed(Changed(Changed(m.r, PC, m.r[n]), SP, (m.r[SP] + 2) % Word), n, WordAt(m, m.r[SP]))
       /\ back.psw = m.psw /\ back.mem = m.mem
  BY <1>2, <1>7, <1>9, <1>10
<1>12. ~m.fault
  BY <1>7, <1>9
<1> QED
  BY <1>11, <1>12 DEF back

(* JSR and the RTS of the same link: registers and flags come back.         *)
LEMMA CallComesBack ==
  ASSUME NEW m \in Machines, NEW n \in Registers \ {SP}, NEW mode \in 0..7, NEW reg \in Registers,
         NEW call, call = ExecuteJSR(m, n, mode, reg), ~call.fault,
         NEW back, back = ExecuteRTS(Bump(call, PC, 2), n), ~back.fault
  PROVE  back.r = Address(m, mode, reg, WordHalf).m.r /\ back.psw = m.psw
<1> DEFINE a == Address(m, mode, reg, WordHalf)
           q == Down(a.m)
           next == Bump(call, PC, 2)
           r1 == Changed(a.m.r, SP, q)
           r2 == Changed(Changed(r1, n, a.m.r[PC]), PC, a.ea)
           r3 == Changed(r2, PC, (r2[PC] + 2) % Word)
           r4 == Changed(Changed(Changed(r3, PC, r3[n]), SP, (q + 2) % Word), n, a.m.r[n])
<1>1. SP \in Registers /\ PC \in Registers /\ PC # SP /\ 2 \in Int
  BY StackRegisters
<1>2. ~ExecuteJSR(m, n, mode, reg).fault
  OBVIOUS
<1>4. /\ mode # 0 /\ a.m \in Machines /\ ~a.m.fault /\ call \in Machines
      /\ q \in Words /\ Even(q) \in RAM
      /\ call.r = r2 /\ call.psw = a.m.psw /\ call.mem[Even(q)] = a.m.r[n]
  BY <1>2, Calls, SMTT(40)
<1>5. a.m.psw = m.psw
  <2>1. mode \in 1..7 /\ Shape(m)
    BY <1>4, MachineFields
  <2>2. Keeps(m, a.m)
    BY <2>1, AddressKeeps
  <2> QED
    BY <2>2 DEF Keeps
<1>6. a.m.r \in [Registers -> Words] /\ a.ea \in Words
  <2>1. mode \in 1..7
    BY <1>4
  <2> QED
    BY <1>4, <2>1, MachineFields, AddressTyped
<1>7. q = (a.m.r[SP] - 2) % Word
  BY DEF Down
<1> HIDE DEF a, q
<1>8. /\ next \in Machines /\ next.r = r3 /\ next.psw = call.psw /\ next.mem = call.mem
  <2>1. next \in Machines
    BY <1>1, <1>4, BumpTyped
  <2>2. /\ next.r = Changed(call.r, PC, (call.r[PC] + 2) % Word)
        /\ next.psw = call.psw /\ next.mem = call.mem
    BY <1>4, BumpEffect
  <2> HIDE DEF next, r2
  <2> QED
    BY <1>4, <2>1, <2>2
<1> HIDE DEF next
<1>9. r3[SP] = q /\ (n # PC => r3[n] = a.m.r[PC])
  BY <1>1, <1>6 DEF Changed
<1>10. WordAt(next, q) = a.m.r[n]
  BY <1>4, <1>8, MemoryAssumption DEF WordAt
<1>11. back.r = r4 /\ back.psw = next.psw
  <2> HIDE DEF r3
  <2>1. ~ExecuteRTS(next, n).fault
    BY DEF next
  <2>2. /\ back.r = Changed(Changed(Changed(next.r, PC, next.r[n]), SP, (next.r[SP] + 2) % Word), n, WordAt(next, next.r[SP]))
        /\ back.psw = next.psw
    BY <1>8, <2>1, Returns DEF next
  <2> QED
    BY <1>8, <1>9, <1>10, <2>2
<1>12. (q + 2) % Word = a.m.r[SP]
  <2>1. a.m.r[SP] \in Words
    BY <1>1, <1>6
  <2> QED
    BY <1>7, <2>1, Steps
<1>13. r4 = a.m.r
  <2>1. r4 \in [Registers -> Words]
    BY <1>1, <1>6, <1>9, <1>12 DEF Changed
  <2>2. \A x \in Registers : r4[x] = a.m.r[x]
    BY <1>1, <1>6, <1>9, <1>12 DEF Changed
  <2> HIDE DEF r4
  <2> QED
    BY <1>6, <2>1, <2>2
<1> QED
  BY <1>4, <1>5, <1>8, <1>11, <1>13 DEF a

(* So they do in every well-typed machine.                                  *)
LEMMA CalledReturns ==
  ASSUME MachineTypeOK
  PROVE  CallReturns
<1> SUFFICES ASSUME NEW n \in Registers \ {SP}, NEW d \in Operands,
                    NEW call \in {ExecuteJSR(Current, n, d[1], d[2])},
                    NEW back \in {ExecuteRTS(Bump(call, PC, 2), n)},
                    ~fault, ~call.fault, ~back.fault
             PROVE  back.r = Address(Current, d[1], d[2], WordHalf).m.r /\ back.psw = psw
  BY Zenon DEF CallReturns
<1>1. PICK mode \in 0..7, reg \in Registers : mode = d[1] /\ reg = d[2]
  BY OperandAssumption
<1>2. call = ExecuteJSR(Current, n, mode, reg) /\ back = ExecuteRTS(Bump(call, PC, 2), n)
  BY <1>1
<1>3. Current \in Machines
  BY CurrentTyped
<1>4. back.r = Address(Current, mode, reg, WordHalf).m.r /\ back.psw = Current.psw
  BY <1>2, <1>3, CallComesBack
<1>5. Current.psw = psw
  BY DEF Current, Bump, Machine
<1> QED
  BY <1>1, <1>4, <1>5

-----------------------------------------------------------------------------
(* The calling convention of MARK.  The saved R5, the arguments and the     *)
(* MARK itself are words of one stack, each at its depth.                   *)

(* The stack pointer some words below s. *)
Depth(s, i) == (s - 2 * i) % Word

(* Depths of a stack are words, one push apart, and none covers the first.  *)
LEMMA Depths ==
  ASSUME NEW s \in Words
  PROVE  /\ \A i \in 0..5 : Depth(s, i) \in Words
         /\ Depth(s, 0) = s
         /\ \A i \in 0..4 : (Depth(s, i) - 2) % Word = Depth(s, i + 1) /\ (Depth(s, i + 1) + 2) % Word = Depth(s, i)
         /\ \A i \in 2..5 : Even(Depth(s, i)) # Even(Depth(s, 1))
         /\ \A k \in 0..2 : (Depth(s, k + 1) + 2 * k) % Word = Depth(s, 1)
<1>0. s \in Int /\ 0 <= s /\ s < 65536
  BY Ranges, BelowBound
<1>1. \A i \in 0..5 : Depth(s, i) \in Words
  BY <1>0, Weights, Ranges, BelowBound DEF Depth
<1>2. Depth(s, 0) = s
  BY <1>0, Weights DEF Depth
<1>3. ASSUME NEW i \in 0..4
      PROVE  (Depth(s, i) - 2) % Word = Depth(s, i + 1) /\ (Depth(s, i + 1) + 2) % Word = Depth(s, i)
  BY <1>0, Weights DEF Depth
<1>4. ASSUME NEW i \in 2..5 PROVE Even(Depth(s, i)) # Even(Depth(s, 1))
  BY <1>0, Weights DEF Depth, Even
<1>5. ASSUME NEW k \in 0..2 PROVE (Depth(s, k + 1) + 2 * k) % Word = Depth(s, 1)
  BY <1>0, Weights DEF Depth
<1> QED
  BY <1>1, <1>2, <1>3, <1>4, <1>5

(* A machine some words down a stack on which R5 was saved first. *)
Nested(m, i) ==
  /\ m \in Machines /\ i \in 1..5
  /\ m.r[SP] = Depth(r[SP], i) /\ m.r[PC] = r[PC]
  /\ Even(Depth(r[SP], 1)) \in RAM /\ m.mem[Even(Depth(r[SP], 1))] = r[5]

(* A push on such a stack keeps what was saved first.                       *)
LEMMA NestedDeeper ==
  ASSUME MachineTypeOK, NEW m, NEW i \in 1..4, NEW w \in Words, Nested(m, i), ~Pushed(m, w).fault
  PROVE  Nested(Pushed(m, w), i + 1) /\ ~m.fault
<1>1. r[SP] \in Words /\ m \in Machines
  BY StackRegisters DEF MachineTypeOK, Nested
<1>2. /\ Pushed(m, w) \in Machines /\ ~m.fault
      /\ Pushed(m, w).r = Changed(m.r, SP, Down(m))
      /\ \A b \in RAM \cup ROM : b # Even(Down(m)) => Pushed(m, w).mem[b] = m.mem[b]
  BY <1>1, Pushes
<1>3. Down(m) = Depth(r[SP], i + 1) /\ Even(Down(m)) # Even(Depth(r[SP], 1))
  <2>1. (Depth(r[SP], i) - 2) % Word = Depth(r[SP], i + 1)
    BY <1>1, Depths
  <2>2. i + 1 \in 2..5
    OBVIOUS
  <2>3. Even(Depth(r[SP], i + 1)) # Even(Depth(r[SP], 1))
    BY <1>1, <2>2, Depths
  <2>4. Down(m) = Depth(r[SP], i + 1)
    BY <2>1 DEF Down, Nested
  <2> QED
    BY <2>3, <2>4
<1>4. m.r \in [Registers -> Words]
  BY <1>1, MachineFields
<1>5. Pushed(m, w).r[SP] = Depth(r[SP], i + 1) /\ Pushed(m, w).r[PC] = r[PC]
  BY <1>2, <1>3, <1>4, StackRegisters DEF Changed, Nested
<1>6. Pushed(m, w).mem[Even(Depth(r[SP], 1))] = r[5]
  BY <1>2, <1>3 DEF Nested
<1>7. i + 1 \in 1..5
  OBVIOUS
<1> QED
  BY <1>2, <1>5, <1>6, <1>7 DEF Nested

(* Saving R5 makes such a stack.                                            *)
LEMMA FirstSaved ==
  ASSUME MachineTypeOK, ~Pushed(Machine, r[5]).fault
  PROVE  Nested(Pushed(Machine, r[5]), 1)
<1>1. /\ Machine \in Machines /\ Machine.r = r /\ r \in [Registers -> Words]
  BY CurrentTyped DEF MachineTypeOK, Machine
<1>2. r[5] \in Words /\ r[SP] \in Words
  BY <1>1, StackRegisters
<1>3. /\ Pushed(Machine, r[5]) \in Machines /\ Even(Down(Machine)) \in RAM
      /\ Pushed(Machine, r[5]).r = Changed(r, SP, Down(Machine))
      /\ Pushed(Machine, r[5]).mem[Even(Down(Machine))] = r[5]
  BY <1>1, <1>2, Pushes
<1>4. Down(Machine) = Depth(r[SP], 1)
  <2>1. r[SP] - 2 * 1 = r[SP] - 2
    BY <1>2, Ranges, BelowBound
  <2> QED
    BY <1>1, <2>1, Zenon DEF Down, Depth
<1>5. Pushed(Machine, r[5]).r[SP] = Depth(r[SP], 1) /\ Pushed(Machine, r[5]).r[PC] = r[PC]
  BY <1>1, <1>3, <1>4, StackRegisters DEF Changed
<1>6. 1 \in 1..5
  OBVIOUS
<1> QED
  BY <1>3, <1>4, <1>5, <1>6 DEF Nested

(* MOV SP,R5. *)
LEMMA PointerSet ==
  ASSUME NEW m \in Machines
  PROVE  LET marked == ExecuteMOV(m, WordHalf, 0, SP, 0, 5)
         IN  /\ marked \in Machines
             /\ m.fault => marked.fault
             /\ ~m.fault => marked.r = Changed(m.r, 5, m.r[SP]) /\ marked.mem = m.mem
<1> DEFINE marked == ExecuteMOV(m, WordHalf, 0, SP, 0, 5)
           s == Fetched(m, 0, SP, WordHalf)
           o == Fetched(s.m, 0, 5, WordHalf)
           res == MOV(WordHalf, o.value, s.value, m.psw)
           put == WithR(m, Changed(m.r, 5, m.r[SP]))
<1>1. marked \in Machines
  <2>1. WordHalf \in Halves /\ 0 \in 0..7
    BY DEF Halves
  <2> QED
    BY <2>1, StackRegisters, DoubleTyped
<1>2. m.r \in [Registers -> Words] /\ m.r[SP] \in Words
  <2>1. m.r \in [Registers -> Words]
    BY MachineFields
  <2> QED
    BY <2>1, StackRegisters
<1>3. s.m = m /\ s.value = m.r[SP] % (2 * WordHalf)
  BY DEF Fetched
<1>4. m.r[SP] % (2 * WordHalf) = m.r[SP] /\ WordHalf # ByteHalf
  BY <1>2, Weights, Ranges, BelowBound
<1>5. s.value = m.r[SP]
  BY <1>3, <1>4
<1>6. o.m = s.m
  BY DEF Fetched
<1>7. res.value = s.value
  BY DEF MOV, Result
<1> HIDE DEF s, o, res
<1>8. ASSUME ~m.fault PROVE marked.r = Changed(m.r, 5, m.r[SP]) /\ marked.mem = m.mem
  <2>1. marked = Rewritten(o, 0, 5, WordHalf, res)
    BY <1>3, <1>4, <1>8 DEF ExecuteMOV, s, o, res
  <2>2. Rewritten(o, 0, 5, WordHalf, res) = Flagged(Stored(m, 0, 5, o.ea, WordHalf, m.r[SP]), res.psw)
    BY <1>3, <1>5, <1>6, <1>7, <1>8 DEF Rewritten
  <2>3. Stored(m, 0, 5, o.ea, WordHalf, m.r[SP]) = put
    BY <1>4 DEF Stored, WithR, Changed
  <2>4. Changed(m.r, 5, m.r[SP]) \in [Registers -> Words]
    BY <1>2, StackRegisters DEF Changed
  <2>5. put \in Machines /\ put.mem = m.mem /\ put.r = Changed(m.r, 5, m.r[SP])
    BY <2>4, MachineFields, WithREffect
  <2> HIDE DEF put, marked
  <2> QED
    BY <2>1, <2>2, <2>3, <2>5, FlaggedEffect
<1>9. ASSUME m.fault PROVE marked.fault
  BY <1>3, <1>9 DEF ExecuteMOV, s
<1> QED
  BY <1>1, <1>8, <1>9

(* The call of a subroutine with k arguments below the saved R5, its RTS R5 *)
(* and the MARK k that is then executed.                                    *)
LEMMA MarkedReturns ==
  ASSUME MachineTypeOK, NEW k \in 0..2, NEW two, Nested(two, k + 1),
         NEW marked, marked = ExecuteMOV(Pushed(two, 0), WordHalf, 0, SP, 0, 5),
         NEW called, called = ExecuteJSR(marked, PC, 1, 2), ~called.fault,
         NEW end, end = ExecuteMARK(Bump(ExecuteRTS(called, 5), PC, 2), k), ~end.fault
  PROVE  end.r[SP] = r[SP] /\ end.r[5] = r[5] /\ end.r[PC] = r[PC]
<1> DEFINE p == Pushed(two, 0)
           back == ExecuteRTS(called, 5)
           next == Bump(back, PC, 2)
           D(i) == Depth(r[SP], i)
<1>0. r[SP] \in Words /\ r[PC] \in Words /\ 0 \in Words /\ k + 2 \in 2..4 /\ two \in Machines
  <2>1. r \in [Registers -> Words] /\ two \in Machines
    BY DEF MachineTypeOK, Nested
  <2>2. 0 \in Words
    BY Weights, Ranges, BelowBound
  <2>3. k + 2 \in 2..4
    OBVIOUS
  <2> QED
    BY <2>1, <2>2, <2>3, StackRegisters
<1>1. p \in Machines
  <2>1. Bump(two, SP, -2) \in Machines
    BY <1>0, StackRegisters, BumpTyped
  <2>2. Bump(two, SP, -2).r \in [Registers -> Words]
    BY <2>1, MachineFields
  <2>3. Bump(two, SP, -2).r[SP] \in Words
    BY <2>2, StackRegisters
  <2> QED
    BY <1>0, <2>1, <2>3, WriteTyped DEF Pushed
<1>2. marked \in Machines
  BY <1>1, PointerSet
<1>3. Address(marked, 1, 2, WordHalf) = [m |-> marked, ea |-> marked.r[2]]
  BY DEF Address, AddressBy
<1>4. /\ ~marked.fault /\ called \in Machines /\ Down(marked) \in Words /\ Even(Down(marked)) \in RAM
      /\ called.r = Changed(Changed(Changed(marked.r, SP, Down(marked)), PC, marked.r[PC]), PC, marked.r[2])
      /\ called.mem[Even(Down(marked))] = marked.r[PC]
      /\ \A b \in RAM \cup ROM : b # Even(Down(marked)) => called.mem[b] = marked.mem[b]
  <2>1. 1 \in 0..7 /\ 2 \in Registers /\ PC \in Registers \ {SP} /\ ~ExecuteJSR(marked, PC, 1, 2).fault
    BY StackRegisters DEF Registers
  <2> DEFINE a == Address(marked, 1, 2, WordHalf)
  <2>2. a.m = marked /\ a.ea = marked.r[2]
    BY <1>3
  <2>3. /\ ~a.m.fault /\ called \in Machines /\ Down(a.m) \in Words /\ Even(Down(a.m)) \in RAM
        /\ called.r = Changed(Changed(Changed(a.m.r, SP, Down(a.m)), PC, a.m.r[PC]), PC, a.ea)
        /\ called.mem[Even(Down(a.m))] = a.m.r[PC]
        /\ \A b \in RAM \cup ROM : b # Even(Down(a.m)) => called.mem[b] = a.m.mem[b]
    BY <1>2, <2>1, Calls
  <2> HIDE DEF a
  <2> QED
    BY <2>2, <2>3
<1>5. ~p.fault /\ marked.r = Changed(p.r, 5, p.r[SP]) /\ marked.mem = p.mem
  BY <1>1, <1>4, PointerSet
<1>6. Nested(p, k + 2)
  <2>1. k + 1 \in 1..4 /\ (k + 1) + 1 = k + 2
    OBVIOUS
  <2>2. Nested(Pushed(two, 0), (k + 1) + 1)
    BY <1>0, <1>5, <2>1, NestedDeeper
  <2> QED
    BY <2>1, <2>2
<1> HIDE DEF p
<1>7. /\ p.r[SP] = D(k + 2) /\ p.r[PC] = r[PC] /\ Even(D(1)) \in RAM /\ p.mem[Even(D(1))] = r[5]
      /\ p.r \in [Registers -> Words]
  BY <1>1, <1>6, MachineFields DEF Nested
<1>8. marked.r[SP] = D(k + 2) /\ marked.r[5] = D(k + 2) /\ marked.r[PC] = r[PC] /\ marked.r \in [Registers -> Words]
  BY <1>2, <1>5, <1>7, StackRegisters, MachineFields DEF Changed
<1>9. Down(marked) = D(k + 3) /\ Even(D(k + 3)) # Even(D(1)) /\ (D(k + 3) + 2) % Word = D(k + 2)
  <2>1. k + 2 \in 0..4 /\ (k + 2) + 1 = k + 3 /\ k + 3 \in 2..5
    OBVIOUS
  <2>2. (D(k + 2) - 2) % Word = D((k + 2) + 1) /\ (D((k + 2) + 1) + 2) % Word = D(k + 2)
    BY <1>0, <2>1, Depths
  <2>3. Even(D(k + 3)) # Even(D(1))
    BY <1>0, <2>1, Depths
  <2> QED
    BY <1>8, <2>1, <2>2, <2>3 DEF Down
<1>10. /\ called.r[SP] = D(k + 3) /\ called.r[5] = D(k + 2)
       /\ called.mem[Even(D(k + 3))] = r[PC] /\ called.mem[Even(D(1))] = r[5]
  <2>1. called.r[SP] = Down(marked) /\ called.r[5] = marked.r[5]
    BY <1>4, <1>8, StackRegisters DEF Changed
  <2>2. called.mem[Even(D(1))] = r[5]
    BY <1>4, <1>5, <1>7, <1>9
  <2> QED
    BY <1>4, <1>8, <1>9, <2>1, <2>2
<1>11. back \in Machines /\ next \in Machines
  <2>1. 0 \in 0..63
    OBVIOUS
  <2> QED
    BY <1>4, <2>1, StackRegisters, ReturnTyped, BumpTyped
<1>12. ~back.fault /\ next.mem = back.mem /\ next.r = Changed(back.r, PC, (back.r[PC] + 2) % Word)
  <2>1. /\ next.r = Changed(back.r, PC, (back.r[PC] + 2) % Word) /\ next.mem = back.mem
        /\ next.fault = back.fault
    BY <1>11, BumpEffect
  <2>2. next.fault => ExecuteMARK(next, k).fault
    <3>1. PICK x, ok : ExecuteMARK(next, k) = Access(WithR(next, x), ok)
      BY DEF ExecuteMARK, WithR
    <3>2. WithR(next, x).fault = next.fault
      BY <1>11, WithREffect
    <3>3. Access(WithR(next, x), ok).fault = (WithR(next, x).fault \/ ~ok)
      BY <1>11 DEF Access, WithR, Machines
    <3> QED
      BY <3>1, <3>2, <3>3
  <2> QED
    BY <2>1, <2>2
<1>13. /\ back.r = Changed(Changed(Changed(called.r, PC, called.r[5]), SP, (called.r[SP] + 2) % Word), 5,
                           WordAt(called, called.r[SP]))
       /\ back.mem = called.mem
  <2>1. 5 \in Registers \ {SP}
    BY StackRegisters
  <2> QED
    BY <1>4, <1>12, <2>1, Returns
<1>14. WordAt(called, called.r[SP]) = r[PC]
  BY <1>4, <1>9, <1>10, MemoryAssumption DEF WordAt
<1>15. back.r[PC] = D(k + 2) /\ back.r[5] = r[PC]
  <2>1. called.r \in [Registers -> Words]
    BY <1>4, MachineFields
  <2> QED
    BY <1>9, <1>10, <1>13, <1>14, <2>1, StackRegisters DEF Changed
<1>16. /\ next.r[PC] = D(k + 1) /\ next.r[5] = r[PC] /\ next.r \in [Registers -> Words]
       /\ next.mem[Even(D(1))] = r[5]
  <2>1. k + 1 \in 0..4 /\ (k + 1) + 1 = k + 2
    OBVIOUS
  <2>2. (D((k + 1) + 1) + 2) % Word = D(k + 1)
    BY <1>0, <2>1, Depths
  <2>3. next.r \in [Registers -> Words] /\ back.r \in [Registers -> Words]
    BY <1>11, MachineFields
  <2> QED
    BY <1>10, <1>12, <1>13, <1>15, <2>1, <2>2, <2>3, StackRegisters DEF Changed
<1>17. (next.r[PC] + 2 * k) % Word = D(1) /\ (D(1) + 2) % Word = r[SP]
  <2>1. 0 \in 0..4 /\ 0 + 1 = 1
    OBVIOUS
  <2>2. (D(0 + 1) + 2) % Word = D(0) /\ D(0) = r[SP]
    BY <1>0, <2>1, Depths
  <2>3. (D(k + 1) + 2 * k) % Word = D(1)
    BY <1>0, Depths
  <2> QED
    BY <1>16, <2>1, <2>2, <2>3
<1>18. end.r = Changed(Changed(Changed(next.r, SP, r[SP]), PC, next.r[5]), 5, WordAt(next, D(1)))
  <2> DEFINE x == Changed(Changed(Changed(next.r, SP, (D(1) + 2) % Word), PC, next.r[5]), 5, WordAt(next, D(1)))
  <2>1. end = ExecuteMARK(next, k)
    OBVIOUS
  <2> HIDE DEF next, D
  <2>2. ExecuteMARK(next, k) = Access(WithR(next, x), Readable(D(1)))
    BY <1>17 DEF ExecuteMARK, WithR, Changed
  <2>3. Access(WithR(next, x), Readable(D(1))).r = WithR(next, x).r /\ WithR(next, x).r = x
    BY <1>11 DEF Access, WithR, Machines
  <2> QED
    BY <1>17, <2>1, <2>2, <2>3
<1>19. WordAt(next, D(1)) = r[5]
  BY <1>7, <1>16, MemoryAssumption DEF WordAt
<1> HIDE DEF next, D
<1> QED
  BY <1>16, <1>18, <1>19, StackRegisters DEF Changed

(* A push leaves a machine, faulted or not.                                 *)
LEMMA PushedTyped ==
  ASSUME NEW m \in Machines, NEW w \in Words
  PROVE  Pushed(m, w) \in Machines
<1>1. Bump(m, SP, -2) \in Machines
  BY StackRegisters, BumpTyped
<1>2. Bump(m, SP, -2).r[SP] \in Words
  <2>1. Bump(m, SP, -2).r \in [Registers -> Words]
    BY <1>1, MachineFields
  <2> QED
    BY <2>1, StackRegisters
<1> QED
  BY <1>1, <1>2, WriteTyped DEF Pushed

(* The convention returns in every well-typed machine, with 0 to 2 arguments. *)
LEMMA MarkedComesBack ==
  ASSUME MachineTypeOK
  PROVE  MarkReturns
<1> SUFFICES ASSUME NEW k \in Counts \cap 0..2,
                    NEW saved \in {Pushed(Machine, r[5])},
                    NEW one \in {IF k >= 1 THEN Pushed(saved, r[0]) ELSE saved},
                    NEW two \in {IF k = 2 THEN Pushed(one, r[1]) ELSE one},
                    NEW marked \in {ExecuteMOV(Pushed(two, 0), WordHalf, 0, SP, 0, 5)},
                    NEW called \in {ExecuteJSR(marked, PC, 1, 2)},
                    NEW end \in {ExecuteMARK(Bump(ExecuteRTS(called, 5), PC, 2), k)},
                    ~fault, ~called.fault, ~end.fault
             PROVE  end.r[SP] = r[SP] /\ end.r[5] = r[5] /\ end.r[PC] = r[PC]
  BY ZenonT(60) DEF MarkReturns
<1>1. Machine \in Machines /\ r \in [Registers -> Words]
  BY CurrentTyped DEF MachineTypeOK
<1>2. r[0] \in Words /\ r[1] \in Words /\ r[5] \in Words /\ 0 \in Words
  <2>1. 0 \in Registers /\ 1 \in Registers /\ 5 \in Registers
    BY DEF Registers
  <2>2. 0 \in Words
    BY Weights, Ranges, BelowBound
  <2> QED
    BY <1>1, <2>1, <2>2
<1>3. /\ saved \in Machines /\ one \in Machines /\ two \in Machines /\ Pushed(two, 0) \in Machines
  BY <1>1, <1>2, PushedTyped
<1>4. marked = ExecuteMOV(Pushed(two, 0), WordHalf, 0, SP, 0, 5) /\ marked \in Machines
  BY <1>3, PointerSet
<1>5. ~marked.fault
  <2>1. 1 \in 0..7 /\ 2 \in Registers /\ PC \in Registers \ {SP} /\ ~ExecuteJSR(marked, PC, 1, 2).fault
    BY StackRegisters DEF Registers
  <2> DEFINE a == Address(marked, 1, 2, WordHalf)
  <2>2. a.m = marked
    BY DEF Address, AddressBy
  <2>3. ~a.m.fault
    BY <1>4, <2>1, Calls
  <2> HIDE DEF a
  <2> QED
    BY <2>2, <2>3
<1>6. ~Pushed(two, 0).fault
  BY <1>3, <1>4, <1>5, PointerSet
<1>7. ~two.fault
  BY <1>2, <1>3, <1>6, Pushes
<1>8. ~one.fault
  BY <1>2, <1>3, <1>7, Pushes
<1>9. ~saved.fault
  BY <1>2, <1>3, <1>8, Pushes
<1>10. Nested(saved, 1)
  BY <1>9, FirstSaved
<1>11. k \in 0..2
  OBVIOUS
<1>12. Nested(two, k + 1)
  <2>1. CASE k = 0
    BY <1>10, <2>1
  <2>2. CASE k = 1
    <3>1. two = Pushed(saved, r[0]) /\ 1 \in 1..4
      BY <2>2
    <3>2. Nested(Pushed(saved, r[0]), 1 + 1)
      BY <1>2, <1>7, <1>10, <3>1, NestedDeeper
    <3> QED
      BY <2>2, <3>1, <3>2
  <2>3. CASE k = 2
    <3>1. one = Pushed(saved, r[0]) /\ two = Pushed(one, r[1]) /\ 1 \in 1..4 /\ 1 + 1 \in 1..4
      BY <2>3
    <3>2. Nested(one, 1 + 1)
      BY <1>2, <1>8, <1>10, <3>1, NestedDeeper
    <3>3. Nested(two, (1 + 1) + 1)
      BY <1>2, <1>7, <3>1, <3>2, NestedDeeper
    <3>4. (1 + 1) + 1 = k + 1
      BY <2>3
    <3> QED
      BY <3>3, <3>4
  <2> QED
    BY <1>11, <2>1, <2>2, <2>3
<1>13. called = ExecuteJSR(marked, PC, 1, 2) /\ end = ExecuteMARK(Bump(ExecuteRTS(called, 5), PC, 2), k)
  OBVIOUS
<1> QED
  BY <1>4, <1>11, <1>12, <1>13, MarkedReturns

(* Whichever of the three ways a program uses its stack, it comes back      *)
(* (ExecuteMOV, ExecuteJSR, ExecuteRTS, ExecuteMARK).                       *)
THEOREM StacksComeBack ==
  InstructionSpec => []StacksReturn
<1>1. MachineTypeOK => StacksReturn
  BY PushedPops, CalledReturns, MarkedComesBack DEF StacksReturn
<1>2. InstructionSpec => []MachineTypeOK
  BY MachineTyped
<1> QED
  BY <1>1, <1>2, PTL

(* Sums, differences, comparisons and rotations are exact in every state    *)
(* the instructions lead to (ExecuteADD to ExecuteROL).                      *)
THEOREM ArithmeticExact ==
  InstructionSpec => []ExactArithmetic
BY MachineTyped, TypedArithmetic, PTL

-----------------------------------------------------------------------------
(* The disassembler beside the processor. *)

Between(a, b) == a..b

Lies(w, a, b) == a <= w /\ w <= b

(* A range, without its elements. *)
LEMMA BetweenBounds ==
  ASSUME NEW a \in Int, NEW b \in Int
  PROVE  \A x : x \in Between(a, b) <=> x \in Int /\ Lies(x, a, b)
BY DEF Between, Lies

(* The processor's map in bounds: the words of two operands ... *)
LEMMA TwoOperands ==
  ASSUME NEW w \in Int
  PROVE  w \in TwoOperandMethods <=> Lies(w, 4096, 28671) \/ Lies(w, 36864, 61439)
<1>1. TwoOperandMethods = Between(4096, 28671) \cup Between(36864, 61439)
  BY DEF TwoOperandMethods, Between
<1> QED
  BY <1>1, BetweenBounds

(* ... of one ... *)
LEMMA OneOperand ==
  ASSUME NEW w \in Int
  PROVE  w \in OneOperandMethods <=>
           \/ Lies(w, 64, 127) \/ Lies(w, 192, 255) \/ Lies(w, 2048, 3327) \/ Lies(w, 3520, 3583)
           \/ (VM1G /\ Lies(w, 28672, 29183)) \/ Lies(w, 30720, 31231)
           \/ Lies(w, 35328, 36159) \/ Lies(w, 36288, 36351)
<1>1. OneOperandMethods = Between(64, 127) \cup Between(192, 255) \cup Between(2048, 3327)
                            \cup Between(3520, 3583) \cup (IF VM1G THEN Between(28672, 29183) ELSE {})
                            \cup Between(30720, 31231)
                            \cup Between(35328, 36159) \cup Between(36288, 36351)
  BY DEF OneOperandMethods, Between
<1> QED
  BY <1>1, BetweenBounds

(* ... and of none. *)
LEMMA Plain ==
  ASSUME NEW w \in Int
  PROVE  w \in PlainMethods <=>
           \/ Lies(w, 0, 6) \/ Lies(w, 8, 15) \/ Lies(w, 128, 135) \/ Lies(w, 160, 191)
           \/ Lies(w, 256, 2047) \/ Lies(w, 3328, 3391) \/ Lies(w, 32256, 32767)
           \/ Lies(w, 32768, 35327)
<1>1. PlainMethods = Between(0, 6) \cup Between(8, 15) \cup Between(128, 135) \cup Between(160, 191)
                       \cup Between(256, 2047) \cup Between(3328, 3391) \cup Between(32256, 32767)
                       \cup Between(32768, 35327)
  BY DEF PlainMethods, MarkMethods, Between
<1> QED
  BY <1>1, BetweenBounds

(* The disassembler's masks in bounds. *)
LEMMA Masks ==
  ASSUME NEW x \in Int
  PROVE  /\ x \in ListedWithOne <=> x \in {1, 3, 52, 55, 564, 567} \/ Lies(x, 40, 51) \/ Lies(x, 552, 563)
         /\ x \in ListedWithRegister <=> x \in {4, 56, 57, 58, 59, 60}
         /\ x \in ListedWithTwo <=> Lies(x, 1, 6) \/ Lies(x, 9, 14)
<1>1. ListedWithOne = {1, 3, 52, 55, 564, 567} \cup Between(40, 51) \cup Between(552, 563)
  BY DEF ListedWithOne, Between
<1>2. ListedWithTwo = Between(1, 6) \cup Between(9, 14)
  BY DEF ListedWithTwo, Between
<1>3. ListedWithRegister = {4, 56, 57, 58, 59, 60}
  BY DEF ListedWithRegister
<1> QED
  BY <1>1, <1>2, <1>3, BetweenBounds

(* The machine the operands are measured on, and what moving a register     *)
(* does to it.                                                              *)
LEMMA StillMoves ==
  /\ Shape(Still) /\ Still.r = [n \in Registers |-> 0]
  /\ \A n, by : Bump(Still, n, by).r = Changed(Still.r, n, (Still.r[n] + by) % Word) /\ Shape(Bump(Still, n, by))
<1>1. Shape(Still) /\ Still.r = [n \in Registers |-> 0]
  BY DEF Still, Shape
<1> HIDE DEF Still
<1>2. ASSUME NEW n, NEW by
      PROVE  Bump(Still, n, by).r = Changed(Still.r, n, (Still.r[n] + by) % Word) /\ Shape(Bump(Still, n, by))
  <2>1. Bump(Still, n, by) = WithR(Still, Changed(Still.r, n, (Still.r[n] + by) % Word))
    BY <1>1 DEF Bump, Shape, WithR, Changed
  <2> QED
    BY <1>1, <2>1, FieldsSet DEF Keeps
<1> QED
  BY <1>1, <1>2

(* An access moves no register. *)
LEMMA AccessR ==
  ASSUME NEW m, Shape(m)
  PROVE  \A ok : Access(m, ok).r = m.r /\ Shape(Access(m, ok))
<1> TAKE ok
<1>1. Access(m, ok) = WithFault(m, m.fault \/ ~ok)
  BY DEF Access, Shape, WithFault
<1> QED
  BY <1>1 DEF WithFault, Shape

(* Each addressing mode moves PC over the words the listing counts for it   *)
(* (ConvertSrcToString against GetAddr of the handlers): mode 2 and 3 by    *)
(* the register being PC, mode 6 and 7 always.                              *)
LEMMA FetchedWords ==
  ASSUME NEW mode \in 0..7, NEW n \in Registers, InLine(mode, n)
  PROVE  Fetches[<<mode, n>>] = OperandWords(mode, n)
<1> DEFINE a == Address(Still, mode, n, WordHalf)
           inc == Bump(Still, n, 2)
           dec == Bump(Still, n, -2)
           bump == Bump(Still, PC, 2)
           next == Access(bump, Readable(Still.r[PC]))
<1>0. n \in Registers /\ PC \in Registers /\ PC = 7 /\ mode \in 0..7 /\ 2 \in Int /\ -2 \in Int
  BY DEF Registers, PC
<1>1. Fetches[<<mode, n>>] = IF mode = 0 THEN 0 ELSE a.m.r[PC] \div 2
  BY DEF Fetches
<1>2. a = AddressBy(2, Still, mode, n)
  BY Weights DEF Address
<1>3. Shape(Still) /\ Shape(inc) /\ Shape(dec) /\ Shape(bump)
  BY StillMoves
<1>4. Still.r \in [Registers -> {0}]
  BY StillMoves
<1>5. inc.r[PC] = IF n = 7 THEN 2 ELSE 0
  <2>1. inc.r = Changed(Still.r, n, (Still.r[n] + 2) % Word)
    BY StillMoves
  <2> QED
    BY <1>0, <1>4, <2>1, Weights DEF Changed
<1>6. n # 7 => dec.r[PC] = 0
  <2>1. dec.r = Changed(Still.r, n, (Still.r[n] + (-2)) % Word)
    BY StillMoves
  <2> QED
    BY <1>0, <1>4, <2>1, Weights DEF Changed
<1>7. bump.r[PC] = 2
  <2>1. bump.r = Changed(Still.r, PC, (Still.r[PC] + 2) % Word)
    BY StillMoves
  <2> QED
    BY <1>0, <1>4, <2>1, Weights DEF Changed
<1>8. next.r = bump.r /\ Shape(next)
  BY <1>3, AccessR
<1>9. \A m, ok : Shape(m) => Access(m, ok).r = m.r
  BY AccessR
<1>10. CASE mode = 0
  BY <1>1, <1>10 DEF OperandWords
<1>11. CASE mode = 1
  <2>1. a.m = Still
    BY <1>2, <1>11 DEF AddressBy
  <2> HIDE DEF a
  <2> QED
    BY <1>0, <1>1, <1>4, <1>11, <2>1 DEF OperandWords
<1>12. CASE mode = 2
  <2>1. a.m = inc
    BY <1>2, <1>12 DEF AddressBy
  <2> HIDE DEF a, inc
  <2> QED
    BY <1>0, <1>1, <1>5, <1>12, <2>1 DEF OperandWords
<1>13. CASE mode = 3
  <2>1. a.m = Access(inc, Readable(Still.r[n]))
    BY <1>2, <1>13 DEF AddressBy
  <2>2. a.m.r = inc.r
    BY <1>3, <1>9, <2>1, Zenon
  <2> HIDE DEF a, inc
  <2> QED
    BY <1>0, <1>1, <1>5, <1>13, <2>2 DEF OperandWords
<1>14. CASE mode = 4
  <2>1. a.m = dec /\ n # 7
    BY <1>2, <1>14 DEF AddressBy, InLine, PC
  <2> HIDE DEF a, dec
  <2> QED
    BY <1>0, <1>1, <1>6, <1>14, <2>1 DEF OperandWords
<1>15. CASE mode = 5
  <2>1. a.m = Access(dec, Readable(dec.r[n])) /\ n # 7
    BY <1>2, <1>15 DEF AddressBy, InLine, PC
  <2>2. a.m.r = dec.r
    BY <1>3, <1>9, <2>1, Zenon
  <2> HIDE DEF a, dec
  <2> QED
    BY <1>0, <1>1, <1>6, <1>15, <2>1, <2>2 DEF OperandWords
<1>16. CASE mode = 6
  <2>1. a.m = next
    BY <1>2, <1>16 DEF AddressBy
  <2> HIDE DEF a, next, bump
  <2> QED
    BY <1>0, <1>1, <1>7, <1>8, <1>16, <2>1 DEF OperandWords
<1>17. CASE mode = 7
  <2> DEFINE x == (next.r[n] + WordAt(Still, Still.r[PC])) % Word
  <2>1. a.m = Access(next, next.fault \/ Readable(x))
    BY <1>2, <1>17 DEF AddressBy
  <2>2. a.m.r = next.r
    BY <1>8, <1>9, <2>1, ZenonT(60)
  <2> HIDE DEF a, next, bump
  <2> QED
    BY <1>0, <1>1, <1>7, <1>8, <1>17, <2>2 DEF OperandWords
<1> QED
  BY <1>0, <1>10, <1>11, <1>12, <1>13, <1>14, <1>15, <1>16, <1>17

(* The octal digits of a word and its upper parts are small numbers. *)
LEMMA Fields ==
  ASSUME NEW w \in Int, Lies(w, 0, 65535)
  PROVE  /\ \A n \in 0..3 : Digit(w, n) \in 0..7
         /\ w \div 64 \in Int /\ w \div 512 \in Int /\ w \div 4096 \in Int
<1>1. w \in Int /\ 0 <= w
  BY DEF Lies
<1>2. ASSUME NEW n \in 0..3 PROVE Digit(w, n) \in 0..7
  <2>1. \A x \in Int : x % 8 \in 0..7
    OBVIOUS
  <2>2. w \div 8 \in Int /\ w \div 64 \in Int /\ w \div 512 \in Int
    BY <1>1
  <2> QED
    BY <1>1, <2>1, <2>2 DEF Digit
<1> QED
  BY <1>1, <1>2

(* The words in bounds. *)
LEMMA CodesLie == \A w : w \in Codes <=> w \in Int /\ Lies(w, 0, 65535)
<1>1. Codes = Between(0, 65535)
  BY DEF Codes, Between
<1> QED
  BY <1>1, BetweenBounds

(* The two decoders agree on which words have no operand, one or two. *)
LEMMA PlainListed ==
  ASSUME NEW w \in Int, w \in PlainMethods, ~Lies(w, 3328, 3391)
  PROVE  /\ w \notin OneOperandMethods /\ w \notin TwoOperandMethods
         /\ w \div 64 \notin ListedWithOne /\ w \div 512 \notin ListedWithRegister
         /\ w \div 4096 \notin ListedWithTwo
<1>1. \/ Lies(w, 0, 6) \/ Lies(w, 8, 15) \/ Lies(w, 128, 135) \/ Lies(w, 160, 191)
      \/ Lies(w, 256, 2047) \/ Lies(w, 32256, 32767) \/ Lies(w, 32768, 35327)
  BY Plain
<1>2. w \notin OneOperandMethods
  BY <1>1, OneOperand DEF Lies
<1>3. w \notin TwoOperandMethods
  BY <1>1, TwoOperands DEF Lies
<1>4. w \div 64 \in Int /\ w \div 512 \in Int /\ w \div 4096 \in Int
  OBVIOUS
<1>5. /\ w \div 64 \notin {1, 3, 52, 55, 564, 567} /\ ~Lies(w \div 64, 40, 51) /\ ~Lies(w \div 64, 552, 563)
  BY <1>1 DEF Lies
<1>6. w \div 512 \notin {4, 56, 57, 58, 59, 60}
  BY <1>1 DEF Lies
<1>7. ~Lies(w \div 4096, 1, 6) /\ ~Lies(w \div 4096, 9, 14)
  BY <1>1 DEF Lies
<1> QED
  BY <1>2, <1>3, <1>4, <1>5, <1>6, <1>7, Masks

(* A MARK below 60, other than 27 and 37, is listed without an operand word *)
(* (ConvertDstToString of a mode that has none).                            *)
LEMMA MarkListed ==
  ASSUME NEW w \in Int, Lies(w, 3328, 3391), w \notin CountedMarks
  PROVE  /\ w \notin OneOperandMethods /\ w \notin TwoOperandMethods
         /\ DisassembleInstruction(w) = 1 + 0
<1>1. w \notin OneOperandMethods
  BY OneOperand DEF Lies
<1>2. w \notin TwoOperandMethods
  BY TwoOperands DEF Lies
<1>3. w # 3351 /\ w # 3359 /\ w < 3376
  <2>1. CountedMarks = {3351, 3359} \cup Between(3376, 3391)
    BY DEF CountedMarks, Between
  <2> QED
    BY <2>1, BetweenBounds DEF Lies
<1>4. w \div 64 \in ListedWithOne
  <2>1. w \div 64 = 52
    BY DEF Lies
  <2> QED
    BY <2>1, Masks
<1>5. OperandWords(Digit(w, 1), Digit(w, 0)) = 0
  <2> DEFINE mode == (w \div 8) % 8
             n == w % 8
  <2>1. w = 3328 + 8 * mode + n /\ mode \in 0..7 /\ n \in 0..7
    BY DEF Lies
  <2>2. Digit(w, 1) = mode /\ Digit(w, 0) = n
    BY DEF Digit
  <2> HIDE DEF mode, n
  <2>3. mode < 6 /\ ~(n = 7 /\ mode \in {2, 3})
    BY <1>3, <2>1
  <2> QED
    BY <2>2, <2>3, <2>1 DEF OperandWords
<1>6. w \div 4096 \notin ListedWithTwo
  <2>1. w \div 4096 = 0
    BY DEF Lies
  <2> QED
    BY <2>1, Masks DEF Lies
<1>7. DisassembleInstruction(w) = 1 + OperandWords(Digit(w, 1), Digit(w, 0))
  BY <1>4, <1>6 DEF DisassembleInstruction
<1> QED
  BY <1>1, <1>2, <1>5, <1>7

LEMMA OneListed ==
  ASSUME NEW w \in Int, w \in OneOperandMethods
  PROVE  /\ w \notin TwoOperandMethods
         /\ w \div 64 \in ListedWithOne \/ w \div 512 \in ListedWithRegister
         /\ w \div 4096 \notin ListedWithTwo
<1>1. \/ Lies(w, 64, 127) \/ Lies(w, 192, 255) \/ Lies(w, 2048, 3327) \/ Lies(w, 3520, 3583)
      \/ Lies(w, 28672, 29183) \/ Lies(w, 30720, 31231)
      \/ Lies(w, 35328, 36159) \/ Lies(w, 36288, 36351)
  BY OneOperand
<1>2. w \notin TwoOperandMethods
  BY <1>1, TwoOperands DEF Lies
<1>3. w \div 64 \in Int /\ w \div 512 \in Int /\ w \div 4096 \in Int
  OBVIOUS
<1>4. \/ w \div 64 \in {1, 3, 52, 55, 564, 567} \/ Lies(w \div 64, 40, 51) \/ Lies(w \div 64, 552, 563)
      \/ w \div 512 \in {4, 56, 57, 58, 59, 60}
  BY <1>1 DEF Lies
<1>5. ~Lies(w \div 4096, 1, 6) /\ ~Lies(w \div 4096, 9, 14)
  BY <1>1 DEF Lies
<1> QED
  BY <1>2, <1>3, <1>4, <1>5, Masks

LEMMA TwoListed ==
  ASSUME NEW w \in Int, w \in TwoOperandMethods
  PROVE  /\ w \notin OneOperandMethods
         /\ w \div 64 \notin ListedWithOne /\ w \div 512 \notin ListedWithRegister
         /\ w \div 4096 \in ListedWithTwo
<1>1. Lies(w, 4096, 28671) \/ Lies(w, 36864, 61439)
  BY TwoOperands
<1>2. w \notin OneOperandMethods
  BY <1>1, OneOperand DEF Lies
<1>3. w \div 64 \in Int /\ w \div 512 \in Int /\ w \div 4096 \in Int
  OBVIOUS
<1>4. /\ w \div 64 \notin {1, 3, 52, 55, 564, 567} /\ ~Lies(w \div 64, 40, 51) /\ ~Lies(w \div 64, 552, 563)
  BY <1>1 DEF Lies
<1>5. w \div 512 \notin {4, 56, 57, 58, 59, 60}
  BY <1>1 DEF Lies
<1>6. Lies(w \div 4096, 1, 6) \/ Lies(w \div 4096, 9, 14)
  BY <1>1 DEF Lies
<1> QED
  BY <1>2, <1>3, <1>4, <1>5, <1>6, Masks

(* The listing is as long as what the handler takes                         *)
(* (DisassembleInstruction, CProcessor::Init).                              *)
LEMMA AllLengthsAgree == LengthsAgree
<1> SUFFICES ASSUME NEW w \in Codes \ CountedMarks, Executed(w)
             PROVE  DisassembleInstruction(w) = WordsTaken(w)
  BY Zenon DEF LengthsAgree
<1>1. w \in Int /\ Lies(w, 0, 65535) /\ w \notin CountedMarks
  BY CodesLie
<1>2. /\ Digit(w, 0) \in 0..7 /\ Digit(w, 1) \in 0..7 /\ Digit(w, 2) \in 0..7 /\ Digit(w, 3) \in 0..7
      /\ 0..7 = Registers
  <2>1. 0 \in 0..3 /\ 1 \in 0..3 /\ 2 \in 0..3 /\ 3 \in 0..3 /\ 0..7 = Registers
    BY DEF Registers
  <2> QED
    BY <1>1, <2>1, Fields
<1>3. \A mode, n \in 0..7 : OperandWords(mode, n) \in 0..1
  BY DEF OperandWords
<1>4. CASE w \in PlainMethods
  <2>1. CASE Lies(w, 3328, 3391)
    <3>1. DisassembleInstruction(w) = 1
      BY <1>1, <2>1, MarkListed
    <3>2. WordsTaken(w) = 1
      BY <1>1, <2>1, MarkListed DEF WordsTaken
    <3> QED
      BY <3>1, <3>2
  <2>2. CASE ~Lies(w, 3328, 3391)
    <3>1. DisassembleInstruction(w) = 1
      BY <1>1, <1>4, <2>2, PlainListed DEF DisassembleInstruction
    <3>2. WordsTaken(w) = 1
      BY <1>1, <1>4, <2>2, PlainListed DEF WordsTaken
    <3> QED
      BY <3>1, <3>2
  <2> QED
    BY <2>1, <2>2
<1>5. CASE w \in OneOperandMethods /\ InLine(Digit(w, 1), Digit(w, 0))
  <2>0. /\ w \in OneOperandMethods /\ w \notin TwoOperandMethods
        /\ w \div 64 \in ListedWithOne \/ w \div 512 \in ListedWithRegister
        /\ w \div 4096 \notin ListedWithTwo
    BY <1>1, <1>5, OneListed
  <2>1. DisassembleInstruction(w) = 1 + OperandWords(Digit(w, 1), Digit(w, 0))
    <3>1. CASE w \div 64 \in ListedWithOne
      BY <2>0, <3>1 DEF DisassembleInstruction
    <3>2. CASE w \div 512 \in ListedWithRegister
      BY <2>0, <3>2 DEF DisassembleInstruction
    <3> QED
      BY <2>0, <3>1, <3>2
  <2>2. Fetches[<<Digit(w, 1), Digit(w, 0)>>] = OperandWords(Digit(w, 1), Digit(w, 0))
    BY <1>2, <1>5, FetchedWords
  <2>3. WordsTaken(w) = 1 + OperandWords(Digit(w, 1), Digit(w, 0)) + 0
    BY <2>0, <2>2 DEF WordsTaken
  <2> QED
    BY <1>2, <1>3, <2>1, <2>3
<1>6. CASE /\ w \in TwoOperandMethods
           /\ InLine(Digit(w, 1), Digit(w, 0)) /\ InLine(Digit(w, 3), Digit(w, 2))
  <2> DEFINE dst == OperandWords(Digit(w, 1), Digit(w, 0))
             src == OperandWords(Digit(w, 3), Digit(w, 2))
  <2>0. w \in TwoOperandMethods /\ w \notin OneOperandMethods
    BY <1>1, <1>6, TwoListed
  <2>1. DisassembleInstruction(w) = 1 + src + dst
    BY <1>1, <1>6, TwoListed DEF DisassembleInstruction
  <2>2. Fetches[<<Digit(w, 1), Digit(w, 0)>>] = dst /\ Fetches[<<Digit(w, 3), Digit(w, 2)>>] = src
    BY <1>2, <1>6, FetchedWords
  <2>3. WordsTaken(w) = 1 + dst + src
    BY <2>0, <2>2 DEF WordsTaken
  <2>4. dst \in 0..1 /\ src \in 0..1
    BY <1>2, <1>3
  <2> HIDE DEF dst, src
  <2> QED
    BY <2>1, <2>3, <2>4
<1> QED
  BY <1>4, <1>5, <1>6 DEF Executed

-----------------------------------------------------------------------------
(* The conditions of the hints by the upper bits of a branch. *)
LEMMA Conditions ==
  ASSUME NEW p \in [n : BOOLEAN, z : BOOLEAN, v : BOOLEAN, c : BOOLEAN]
  PROVE  /\ Condition(1, p) = p.z
         /\ Condition(2, p) = (p.n # p.v)
         /\ Condition(3, p) = ((p.n # p.v) \/ p.z)
         /\ Condition(64, p) = p.n
         /\ Condition(65, p) = (p.c \/ p.z)
         /\ Condition(66, p) = p.v
         /\ Condition(67, p) = p.c
BY DEF Condition

(* Where the map has the branches. *)
LEMMA BranchTable ==
  /\ BranchMethods["BNE"] = 512
  /\ BranchMethods["BEQ"] = 768
  /\ BranchMethods["BGE"] = 1024
  /\ BranchMethods["BLT"] = 1280
  /\ BranchMethods["BGT"] = 1536
  /\ BranchMethods["BLE"] = 1792
  /\ BranchMethods["BPL"] = 32768
  /\ BranchMethods["BMI"] = 33024
  /\ BranchMethods["BHI"] = 33280
  /\ BranchMethods["BLOS"] = 33536
  /\ BranchMethods["BVC"] = 33792
  /\ BranchMethods["BVS"] = 34048
  /\ BranchMethods["BHIS"] = 34304
  /\ BranchMethods["BLO"] = 34560
BY DEF BranchMethods

(* The upper bits of each branch choose the condition, bit 8 negates it. *)
LEMMA BranchBits ==
  ASSUME NEW p
  PROVE  /\ JumpConditionHint(512, p) = ~Condition(1, p)
         /\ JumpConditionHint(768, p) = Condition(1, p)
         /\ JumpConditionHint(1024, p) = ~Condition(2, p)
         /\ JumpConditionHint(1280, p) = Condition(2, p)
         /\ JumpConditionHint(1536, p) = ~Condition(3, p)
         /\ JumpConditionHint(1792, p) = Condition(3, p)
         /\ JumpConditionHint(32768, p) = ~Condition(64, p)
         /\ JumpConditionHint(33024, p) = Condition(64, p)
         /\ JumpConditionHint(33280, p) = ~Condition(65, p)
         /\ JumpConditionHint(33536, p) = Condition(65, p)
         /\ JumpConditionHint(33792, p) = ~Condition(66, p)
         /\ JumpConditionHint(34048, p) = Condition(66, p)
         /\ JumpConditionHint(34304, p) = ~Condition(67, p)
         /\ JumpConditionHint(34560, p) = Condition(67, p)
BY DEF JumpConditionHint

(* Each branch is foretold as it is taken (Disasm_GetJumpConditionHint,     *)
(* ExecuteBNE to ExecuteBLO).                                               *)
LEMMA AllHintsAgree == HintsAgree
<1> SUFFICES ASSUME NEW p \in [n : BOOLEAN, z : BOOLEAN, v : BOOLEAN, c : BOOLEAN]
             PROVE  \A op \in DOMAIN BranchMethods : JumpConditionHint(BranchMethods[op], p) = Taken(op, p)
  BY Zenon DEF HintsAgree
<1>1. p.n \in BOOLEAN /\ p.z \in BOOLEAN /\ p.v \in BOOLEAN /\ p.c \in BOOLEAN
  OBVIOUS
<1>2. JumpConditionHint(BranchMethods["BNE"], p) = Taken("BNE", p)
  <2>1. JumpConditionHint(512, p) = ~Condition(1, p)
    BY BranchBits
  <2>2. Taken("BNE", p) = ~p.z
    BY <1>1 DEF Taken
  <2>3. Condition(1, p) = p.z
    BY Conditions, Zenon
  <2> QED
    BY <1>1, <2>1, <2>2, <2>3, BranchTable
<1>3. JumpConditionHint(BranchMethods["BEQ"], p) = Taken("BEQ", p)
  <2>1. JumpConditionHint(768, p) = Condition(1, p)
    BY BranchBits
  <2>2. Taken("BEQ", p) = p.z
    BY <1>1 DEF Taken
  <2>3. Condition(1, p) = p.z
    BY Conditions, Zenon
  <2> QED
    BY <1>1, <2>1, <2>2, <2>3, BranchTable
<1>4. JumpConditionHint(BranchMethods["BGE"], p) = Taken("BGE", p)
  <2> DEFINE hint == JumpConditionHint(1024, p)
  <2>1. hint = ~Condition(2, p)
    BY BranchBits
  <2>2. Taken("BGE", p) = (p.n = p.v)
    BY <1>1 DEF Taken
  <2>3. Condition(2, p) = (p.n # p.v)
    BY Conditions, Zenon
  <2> HIDE DEF hint
  <2>4. hint = (p.n = p.v)
    BY <2>1, <2>3, Zenon
  <2> QED
    BY <2>2, <2>4, BranchTable DEF hint
<1>5. JumpConditionHint(BranchMethods["BLT"], p) = Taken("BLT", p)
  <2>1. JumpConditionHint(1280, p) = Condition(2, p)
    BY BranchBits
  <2>2. Taken("BLT", p) = (p.n # p.v)
    BY <1>1 DEF Taken
  <2>3. Condition(2, p) = (p.n # p.v)
    BY Conditions, Zenon
  <2> QED
    BY <1>1, <2>1, <2>2, <2>3, BranchTable
<1>6. JumpConditionHint(BranchMethods["BGT"], p) = Taken("BGT", p)
  <2>1. JumpConditionHint(1536, p) = ~Condition(3, p)
    BY BranchBits
  <2>2. Taken("BGT", p) = ~((p.n # p.v) \/ p.z)
    BY <1>1 DEF Taken
  <2>3. Condition(3, p) = ((p.n # p.v) \/ p.z)
    BY Conditions, Zenon
  <2> QED
    BY <1>1, <2>1, <2>2, <2>3, BranchTable
<1>7. JumpConditionHint(BranchMethods["BLE"], p) = Taken("BLE", p)
  <2>1. JumpConditionHint(1792, p) = Condition(3, p)
    BY BranchBits
  <2>2. Taken("BLE", p) = ((p.n # p.v) \/ p.z)
    BY <1>1 DEF Taken
  <2>3. Condition(3, p) = ((p.n # p.v) \/ p.z)
    BY Conditions, Zenon
  <2> QED
    BY <1>1, <2>1, <2>2, <2>3, BranchTable
<1>8. JumpConditionHint(BranchMethods["BPL"], p) = Taken("BPL", p)
  <2>1. JumpConditionHint(32768, p) = ~Condition(64, p)
    BY BranchBits
  <2>2. Taken("BPL", p) = ~p.n
    BY <1>1 DEF Taken
  <2>3. Condition(64, p) = p.n
    BY Conditions, Zenon
  <2> QED
    BY <1>1, <2>1, <2>2, <2>3, BranchTable
<1>9. JumpConditionHint(BranchMethods["BMI"], p) = Taken("BMI", p)
  <2>1. JumpConditionHint(33024, p) = Condition(64, p)
    BY BranchBits
  <2>2. Taken("BMI", p) = p.n
    BY <1>1 DEF Taken
  <2>3. Condition(64, p) = p.n
    BY Conditions, Zenon
  <2> QED
    BY <1>1, <2>1, <2>2, <2>3, BranchTable
<1>10. JumpConditionHint(BranchMethods["BHI"], p) = Taken("BHI", p)
  <2>1. JumpConditionHint(33280, p) = ~Condition(65, p)
    BY BranchBits
  <2>2. Taken("BHI", p) = ~(p.c \/ p.z)
    BY <1>1 DEF Taken
  <2>3. Condition(65, p) = (p.c \/ p.z)
    BY Conditions, Zenon
  <2> QED
    BY <1>1, <2>1, <2>2, <2>3, BranchTable
<1>11. JumpConditionHint(BranchMethods["BLOS"], p) = Taken("BLOS", p)
  <2>1. JumpConditionHint(33536, p) = Condition(65, p)
    BY BranchBits
  <2>2. Taken("BLOS", p) = (p.c \/ p.z)
    BY <1>1 DEF Taken
  <2>3. Condition(65, p) = (p.c \/ p.z)
    BY Conditions, Zenon
  <2> QED
    BY <1>1, <2>1, <2>2, <2>3, BranchTable
<1>12. JumpConditionHint(BranchMethods["BVC"], p) = Taken("BVC", p)
  <2>1. JumpConditionHint(33792, p) = ~Condition(66, p)
    BY BranchBits
  <2>2. Taken("BVC", p) = ~p.v
    BY <1>1 DEF Taken
  <2>3. Condition(66, p) = p.v
    BY Conditions, Zenon
  <2> QED
    BY <1>1, <2>1, <2>2, <2>3, BranchTable
<1>13. JumpConditionHint(BranchMethods["BVS"], p) = Taken("BVS", p)
  <2>1. JumpConditionHint(34048, p) = Condition(66, p)
    BY BranchBits
  <2>2. Taken("BVS", p) = p.v
    BY <1>1 DEF Taken
  <2>3. Condition(66, p) = p.v
    BY Conditions, Zenon
  <2> QED
    BY <1>1, <2>1, <2>2, <2>3, BranchTable
<1>14. JumpConditionHint(BranchMethods["BHIS"], p) = Taken("BHIS", p)
  <2>1. JumpConditionHint(34304, p) = ~Condition(67, p)
    BY BranchBits
  <2>2. Taken("BHIS", p) = ~p.c
    BY <1>1 DEF Taken
  <2>3. Condition(67, p) = p.c
    BY Conditions, Zenon
  <2> QED
    BY <1>1, <2>1, <2>2, <2>3, BranchTable
<1>15. JumpConditionHint(BranchMethods["BLO"], p) = Taken("BLO", p)
  <2>1. JumpConditionHint(34560, p) = Condition(67, p)
    BY BranchBits
  <2>2. Taken("BLO", p) = p.c
    BY <1>1 DEF Taken
  <2>3. Condition(67, p) = p.c
    BY Conditions, Zenon
  <2> QED
    BY <1>1, <2>1, <2>2, <2>3, BranchTable
<1>16. DOMAIN BranchMethods = {"BNE", "BEQ", "BGE", "BLT", "BGT", "BLE", "BPL", "BMI", "BHI", "BLOS", "BVC", "BVS", "BHIS", "BLO"}
  BY DEF BranchMethods
<1> QED
  BY <1>2, <1>3, <1>4, <1>5, <1>6, <1>7, <1>8, <1>9, <1>10, <1>11, <1>12, <1>13, <1>14, <1>15, <1>16, Zenon

(* For every memory map and both processors, the words that are executed in *)
(* line, all but the eighteen MARKs the disassembler gives an operand word, *)
(* are listed as long as they run, and the branches foretold as they go     *)
(* (src/emubase/Disasm.cpp, CProcessor::Init).                              *)
THEOREM ListingsAgree == ListingAgrees
BY AllLengthsAgree, AllHintsAgree DEF ListingAgrees
=============================================================================
