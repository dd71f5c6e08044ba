------------------------------- MODULE AluProofs -------------------------------
(***************************************************************************)
(* AluContract for every width: the results, the flags and the shifts of   *)
(* Alu are those of the architecture, on every operand.                    *)
(***************************************************************************)
EXTENDS AluContract, WordsProofs

--------------------------------------------------------------------------------
(* The flags.                                                              *)

\* Each flag is the outcome computed for it, whatever the CPSR held.
LEMMA FlagsAreOutcomes ==
    ASSUME NEW op, NEW cpsr \in Int, NEW out, NEW rd, NEW rn, NEW so, NEW c, NEW sco
    PROVE  LET flags == Flags(op, cpsr, out, rd, rn, so, c, sco)
           IN  /\ flags \in Int
               /\ Flag(flags, "Z") = IF out = 0 THEN 1 ELSE 0
               /\ Flag(flags, "C") = IF CarryOut(op, rn, so, c, sco) THEN 1 ELSE 0
               /\ op \notin Logical =>
                    Flag(flags, "V") = IF OverflowOut(op, rd, rn, so, c) THEN 1 ELSE 0
<1> DEFINE carry == CarryOut(op, rn, so, c, sco)
           overflow == OverflowOut(op, rd, rn, so, c)
           n == WriteFlag(cpsr, W - 1, get_bit(out, Top) = 1)
           nz == WriteFlag(n, W - 2, out = 0)
           nzc == WriteFlag(nz, W - 3, carry)
           nzcv == WriteFlag(nzc, W - 4, overflow)
<1>1. /\ W - 1 \in Nat /\ W - 2 \in Nat /\ W - 3 \in Nat /\ W - 4 \in Nat
      /\ W - 2 \in Nat \ {W - 3} /\ W - 2 \in Nat \ {W - 4} /\ W - 3 \in Nat \ {W - 4}
  BY WordSizes
<1>2. Flags(op, cpsr, out, rd, rn, so, c, sco) = IF op \in Logical THEN nzc ELSE nzcv
  BY DEF Flags
<1> HIDE DEF carry, overflow
<1>3. n \in Int
  BY <1>1, SetBit DEF WriteFlag
<1> HIDE DEF n
<1>4. nz \in Int /\ get_bit(nz, W - 2) = IF out = 0 THEN 1 ELSE 0
  BY <1>1, <1>3, SetBit DEF WriteFlag
<1> HIDE DEF nz
<1>5. /\ nzc \in Int
      /\ get_bit(nzc, W - 2) = get_bit(nz, W - 2)
      /\ get_bit(nzc, W - 3) = IF carry THEN 1 ELSE 0
  BY <1>1, <1>4, SetBit DEF WriteFlag
<1> HIDE DEF nzc
<1>6. /\ nzcv \in Int
      /\ get_bit(nzcv, W - 2) = get_bit(nzc, W - 2)
      /\ get_bit(nzcv, W - 3) = get_bit(nzc, W - 3)
      /\ get_bit(nzcv, W - 4) = IF overflow THEN 1 ELSE 0
  <2>1. nzcv \in Int /\ get_bit(nzcv, W - 4) = IF overflow THEN 1 ELSE 0
    BY <1>1, <1>5, SetBit DEF WriteFlag
  <2>2. \A j \in Nat \ {W - 4} : get_bit(nzcv, j) = get_bit(nzc, j)
    BY <1>1, <1>5, SetBit DEF WriteFlag
  <2> QED
    BY <1>1, <2>1, <2>2
<1> HIDE DEF nzcv
<1> DEFINE flags == Flags(op, cpsr, out, rd, rn, so, c, sco)
<1>7. /\ Flag(flags, "Z") = get_bit(flags, W - 2)
      /\ Flag(flags, "C") = get_bit(flags, W - 3)
      /\ Flag(flags, "V") = get_bit(flags, W - 4)
  BY DEF Flag
<1>8. flags = nzc \/ (op \notin Logical /\ flags = nzcv)
  BY <1>2
<1>9. op \notin Logical => flags = nzcv
  BY <1>2
<1> HIDE DEF flags
<1>10. /\ flags \in Int
       /\ get_bit(flags, W - 2) = IF out = 0 THEN 1 ELSE 0
       /\ get_bit(flags, W - 3) = IF carry THEN 1 ELSE 0
       /\ op \notin Logical => get_bit(flags, W - 4) = IF overflow THEN 1 ELSE 0
  BY <1>4, <1>5, <1>6, <1>8, <1>9
<1> QED
  BY <1>7, <1>10 DEF flags, carry, overflow

LEMMA OperatedFlags ==
    ASSUME NEW op, NEW rn, NEW so, NEW c \in Bit
    PROVE  LET d == Operated(op, rn, so, c)
               out == AluOut(op, rn, so, c)
           IN  /\ d.kind = "operation" /\ d.out = out
               /\ Flag(d.cpsr, "Z") = IF out = 0 THEN 1 ELSE 0
               /\ Flag(d.cpsr, "C") = IF CarryOut(op, rn, so, c, c) THEN 1 ELSE 0
               /\ op \notin Logical =>
                    Flag(d.cpsr, "V") = IF OverflowOut(op, out, rn, so, c) THEN 1 ELSE 0
<1> DEFINE cpsr == c * 2^(W - 3)
           out == AluOut(op, rn, so, c)
<1>1. cpsr \in Int
  <2> DEFINE L == 2^(W - 3)
  <2>1. L \in Nat
    BY WordSizes, PowerIsPositive
  <2> HIDE DEF L
  <2>2. c * L \in Int
    BY <2>1 DEF Bit
  <2> QED
    BY <2>2 DEF L
<1> HIDE DEF cpsr, out
<1>2. Operated(op, rn, so, c) =
        [kind |-> "operation", out |-> out, cpsr |-> Flags(op, cpsr, out, out, rn, so, c, c)]
  BY DEF Operated, cpsr, out
<1> QED
  BY <1>1, <1>2, FlagsAreOutcomes DEF out

--------------------------------------------------------------------------------
(* Every job is done as Operate, DoShift and SubtractWide do it.           *)

Shifted(type, rm, by, c) ==
    [kind |-> "shift", imm |-> ShiftByImm(type, rm, by % W, c), reg |-> ShiftByReg(type, rm, by, c)]

Subtracted(a, b) ==
    LET low == Operated(SUB, a % 2^W, b % 2^W, 0)
        high == Operated(SBC, a \div 2^W, b \div 2^W, Flag(low.cpsr, "C"))
    IN  [kind |-> "wide", out |-> high.out * 2^W + low.out]

Inv ==
    \/ job \in Operation /\ done \in {Nothing, Operated(job.op, job.rn, job.so, job.c)}
    \/ job \in Shift /\ done \in {Nothing, Shifted(job.type, job.rm, job.by, job.c)}
    \/ job \in Wide /\ done \in {Nothing, Subtracted(job.a, job.b)}

LEMMA Kinds ==
    /\ \A j \in Operation : j.kind = "operation"
    /\ \A j \in Shift : j.kind = "shift"
    /\ \A j \in Wide : j.kind = "wide"
BY DEF Operation, Shift, Wide

\* What has been done is the outcome of the job.
LEMMA Outcomes == AluSpec => []Inv
<1>1. AluInit => Inv
  BY DEF AluInit, Inv
<1>2. Inv /\ [AluNext]_alu_vars => Inv'
  <2> SUFFICES ASSUME Inv, [AluNext]_alu_vars PROVE Inv'
    OBVIOUS
  <2>1. CASE Operate
    BY <2>1, Kinds DEF Operate, Inv
  <2>2. CASE DoShift
    BY <2>2, Kinds DEF DoShift, Inv, Shifted
  <2>3. CASE SubtractWide
    BY <2>3, Kinds DEF SubtractWide, Inv, Subtracted
  <2>4. CASE UNCHANGED alu_vars
    BY <2>4 DEF alu_vars, Inv
  <2> QED
    BY <2>1, <2>2, <2>3, <2>4 DEF AluNext
<1> QED
  BY <1>1, <1>2, PTL DEF AluSpec

LEMMA InvOfOperation ==
    ASSUME Inv, Is("operation")
    PROVE  job \in Operation /\ done = Operated(job.op, job.rn, job.so, job.c)
<1>1. Nothing.kind = "nothing" /\ done.kind = "operation"
  BY DEF Nothing, Is
<1>2. \A type, rm, by, c : Shifted(type, rm, by, c).kind = "shift"
  BY DEF Shifted
<1>3. \A a, b : Subtracted(a, b).kind = "wide"
  BY DEF Subtracted
<1> QED
  BY <1>1, <1>2, <1>3 DEF Inv

LEMMA InvOfShift ==
    ASSUME Inv, Is("shift")
    PROVE  job \in Shift /\ done = Shifted(job.type, job.rm, job.by, job.c)
<1>1. Nothing.kind = "nothing" /\ done.kind = "shift"
  BY DEF Nothing, Is
<1>2. \A op, rn, so, c : Operated(op, rn, so, c).kind = "operation"
  BY DEF Operated
<1>3. \A a, b : Subtracted(a, b).kind = "wide"
  BY DEF Subtracted
<1> QED
  BY <1>1, <1>2, <1>3 DEF Inv

LEMMA InvOfWide ==
    ASSUME Inv, Is("wide")
    PROVE  job \in Wide /\ done = Subtracted(job.a, job.b)
<1>1. Nothing.kind = "nothing" /\ done.kind = "wide"
  BY DEF Nothing, Is
<1>2. \A op, rn, so, c : Operated(op, rn, so, c).kind = "operation"
  BY DEF Operated
<1>3. \A type, rm, by, c : Shifted(type, rm, by, c).kind = "shift"
  BY DEF Shifted
<1> QED
  BY <1>1, <1>2, <1>3 DEF Inv

--------------------------------------------------------------------------------
(* Results and flags.                                                      *)

\* SUB, RSB, SBC and RSC add the complement, with the carry as the borrow's inverse.
LEMMA ComplementAddition ==
    ASSUME NEW x \in Word, NEW y \in Word, NEW n \in Int
    PROVE  Wrap(x - y - (1 - n)) = Wrap(x + Not(y) + n)
<1> DEFINE B == 2^W
           s == x - y - (1 - n)
           t == x + Not(y) + n
<1>1. B \in Int /\ x \in Int /\ y \in Int
  BY WordSizes, WordsAreIntegers
<1>2. Not(y) = B - 1 - y
  BY DEF Not
<1>3. s \in Int /\ t = s + B
  BY <1>1, <1>2
<1> HIDE DEF B, s, t
<1>4. t = s + B * 1
  BY <1>1, <1>3
<1>5. Wrap(t) = Wrap(s)
  BY <1>3, <1>4, WrapOfMultiple DEF B
<1> QED
  BY <1>5 DEF s, t

\* The results of the subtractions are additions of the complement: the adder of
\* the architecture computes what arm_data_processing.c writes with -.
THEOREM SubtractionsAddComplements == AluSpec => []SubtractionIsComplementAddition
<1>1. ASSUME Inv PROVE SubtractionIsComplementAddition
  <2> SUFFICES ASSUME Is("operation") PROVE SubtractionIsComplementAddition
    BY DEF SubtractionIsComplementAddition
  <2> DEFINE rn == job.rn
             so == job.so
             c == job.c
  <2>1. job \in Operation /\ done.out = AluOut(job.op, rn, so, c)
    BY <1>1, InvOfOperation, OperatedFlags DEF Operation
  <2>2. rn \in Word /\ so \in Word /\ c \in Int
    BY <2>1 DEF Operation, Bit
  <2> HIDE DEF rn, so, c
  <2>3. CASE job.op \in {SUB, CMP}
    <3>1. done.out = Wrap(rn - so - (1 - 1))
      BY <2>1, <2>2, <2>3, WordsAreIntegers
         DEF AluOut, ArithmeticOut, Logical, AND, EOR, SUB, RSB, ADD, ADC, SBC, RSC,
             TST, TEQ, CMP, CMN, ORR, MOV, BIC, MVN
    <3>2. done.out = Wrap(rn + Not(so) + 1)
      BY <2>2, <3>1, ComplementAddition
    <3> QED
      BY <2>3, <3>2 DEF SubtractionIsComplementAddition, SUB, CMP, RSB, SBC, RSC, rn, so
  <2>4. CASE job.op = RSB
    <3>1. done.out = Wrap(so - rn - (1 - 1))
      BY <2>1, <2>2, <2>4, WordsAreIntegers
         DEF AluOut, ArithmeticOut, Logical, AND, EOR, SUB, RSB, ADD, ADC, SBC, RSC,
             TST, TEQ, CMP, CMN, ORR, MOV, BIC, MVN
    <3>2. done.out = Wrap(so + Not(rn) + 1)
      BY <2>2, <3>1, ComplementAddition
    <3> QED
      BY <2>4, <3>2 DEF SubtractionIsComplementAddition, SUB, CMP, RSB, SBC, RSC, rn, so
  <2>5. CASE job.op = SBC
    <3>1. done.out = Wrap(rn - so - (1 - c))
      BY <2>1, <2>5
         DEF AluOut, ArithmeticOut, Logical, AND, EOR, SUB, RSB, ADD, ADC, SBC, RSC,
             TST, TEQ, CMP, CMN, ORR, MOV, BIC, MVN
    <3>2. done.out = Wrap(rn + Not(so) + c)
      BY <2>2, <3>1, ComplementAddition
    <3> QED
      BY <2>5, <3>2 DEF SubtractionIsComplementAddition, SUB, CMP, RSB, SBC, RSC, rn, so, c
  <2>6. CASE job.op = RSC
    <3>1. done.out = Wrap(so - rn - (1 - c))
      BY <2>1, <2>6
         DEF AluOut, ArithmeticOut, Logical, AND, EOR, SUB, RSB, ADD, ADC, SBC, RSC,
             TST, TEQ, CMP, CMN, ORR, MOV, BIC, MVN
    <3>2. done.out = Wrap(so + Not(rn) + c)
      BY <2>2, <3>1, ComplementAddition
    <3> QED
      BY <2>6, <3>2 DEF SubtractionIsComplementAddition, SUB, CMP, RSB, SBC, RSC, rn, so, c
  <2> QED
    BY <2>3, <2>4, <2>5, <2>6 DEF SubtractionIsComplementAddition
<1> QED
  BY <1>1, Outcomes, PTL

\* A difference of words wraps to 0 only when they are equal.
LEMMA DifferenceIsZero ==
    ASSUME NEW x \in Word, NEW y \in Word
    PROVE  Wrap(x - y) = 0 <=> x = y
<1> DEFINE B == 2^W
           n == x - y
<1>1. B \in Nat \ {0} /\ x \in 0..(B - 1) /\ y \in 0..(B - 1) /\ Word = 0..(B - 1)
  BY WordSizes DEF Word
<1> HIDE DEF B
<1>2. n \in Int /\ (n \in 0..(B - 1) \/ n + B \in 1..(B - 1)) /\ (n = 0 <=> x = y)
  BY <1>1
<1> HIDE DEF n
<1>3. CASE n \in 0..(B - 1)
  <2>1. Wrap(n) = n
    BY <1>1, <1>3, WrapOfWord
  <2> QED
    BY <1>2, <2>1 DEF n
<1>4. CASE n + B \in 1..(B - 1)
  <2>1. Wrap(n) = n + B
    BY <1>1, <1>2, <1>4, WrapOfSum DEF B
  <2>2. n + B # 0 /\ n # 0
    BY <1>1, <1>2, <1>4
  <2> QED
    BY <1>2, <2>1, <2>2 DEF n
<1> QED
  BY <1>2, <1>3, <1>4

\* After SUBS and CMP, C is set iff rn >= so as unsigned numbers and Z iff they
\* are equal: the conditions HS, LO, HI, LS, EQ and NE decide what they say.
THEOREM UnsignedConditionsAreRight == AluSpec => []UnsignedComparison
<1>1. ASSUME Inv PROVE UnsignedComparison
  <2> SUFFICES ASSUME Is("operation"), job.op \in {SUB, CMP} PROVE UnsignedComparison
    BY DEF UnsignedComparison
  <2> DEFINE rn == job.rn
             so == job.so
             c == job.c
             out == AluOut(job.op, rn, so, c)
  <2>1. job \in Operation /\ done = Operated(job.op, rn, so, c)
    BY <1>1, InvOfOperation
  <2>2. rn \in Word /\ so \in Word /\ c \in Bit
    BY <2>1 DEF Operation
  <2> HIDE DEF rn, so, c
  <2>3. out = Wrap(rn - so) /\ CarryOut(job.op, rn, so, c, c) = ~ (rn < so)
    BY DEF AluOut, ArithmeticOut, CarryOut, BorrowFrom, Logical, AND, EOR, SUB, RSB, ADD, ADC,
           SBC, RSC, TST, TEQ, CMP, CMN, ORR, MOV, BIC, MVN
  <2>4. /\ Flag(done.cpsr, "Z") = IF out = 0 THEN 1 ELSE 0
        /\ Flag(done.cpsr, "C") = IF CarryOut(job.op, rn, so, c, c) THEN 1 ELSE 0
    BY <2>1, <2>2, OperatedFlags
  <2>5. Wrap(rn - so) = 0 <=> rn = so
    BY <2>2, DifferenceIsZero
  <2>6. ~ (rn < so) <=> rn >= so
    BY <2>2, WordsAreIntegers
  <2>7. Flag(done.cpsr, "C") = 1 <=> rn >= so
    <3>1. Flag(done.cpsr, "C") = IF ~ (rn < so) THEN 1 ELSE 0
      BY <2>3, <2>4, Zenon
    <3> QED
      BY <2>6, <3>1
  <2>8. Flag(done.cpsr, "Z") = 1 <=> rn = so
    BY <2>3, <2>4, <2>5
  <2> QED
    BY <2>7, <2>8 DEF UnsignedComparison, rn, so
<1> QED
  BY <1>1, Outcomes, PTL

\* The overflow flag of x + y + c, over the value H of the sign bit.
LEMMA SignedSum ==
    ASSUME NEW x \in Word, NEW y \in Word, NEW c \in Bit
    PROVE  LET out == Wrap(x + y + c)
           IN  OverflowFrom(out, x, y) <=> Signed(x) + Signed(y) + c # Signed(out)
<1> DEFINE H == 2^Top
           B == 2^W
           n == x + y + c
           out == Wrap(n)
           sign(u) == IF u >= H THEN 1 ELSE 0
           value(u) == IF u >= H THEN u - B ELSE u
<1>1. /\ H \in Nat \ {0} /\ B = 2 * H /\ Word = 0..(B - 1) /\ c \in {0, 1}
      /\ x \in 0..(B - 1) /\ y \in 0..(B - 1)
  BY WordSizes DEF Word, Bit
<1>2. \A u \in Word : get_bit(u, Top) = sign(u) /\ Signed(u) = value(u)
  BY TopBit DEF Signed
<1> HIDE DEF H, B
<1>3. n \in Int /\ (n \in 0..(B - 1) \/ n - B \in 0..(B - 1))
  BY <1>1
<1>4. out = IF n \in 0..(B - 1) THEN n ELSE n - B
  <2> HIDE DEF n
  <2> QED
    BY <1>1, <1>3, WrapOfSum DEF B
<1>5. out \in Word
  BY <1>1, <1>3, <1>4
<1>6. OverflowFrom(out, x, y) <=> sign(x) = sign(y) /\ sign(out) # sign(x)
  BY <1>2, <1>5 DEF OverflowFrom
<1>7. sign(x) = sign(y) /\ sign(out) # sign(x) <=> value(x) + value(y) + c # value(out)
  <2> HIDE DEF out
  <2> QED
    BY <1>1, <1>3, <1>4
<1> QED
  BY <1>2, <1>5, <1>6, <1>7

\* After ADDS and ADCS, V is set iff the signed sum does not fit in a word.
THEOREM SignedOverflowIsRight == AluSpec => []OverflowOfAdditions
<1>1. ASSUME Inv PROVE OverflowOfAdditions
  <2> SUFFICES ASSUME Is("operation"), job.op \in {ADD, ADC} PROVE OverflowOfAdditions
    BY DEF OverflowOfAdditions
  <2> DEFINE rn == job.rn
             so == job.so
             c == job.c
             n == IF job.op = ADC THEN c ELSE 0
             out == AluOut(job.op, rn, so, c)
             overflow == OverflowOut(job.op, out, rn, so, c)
  <2>1. job \in Operation /\ done = Operated(job.op, rn, so, c)
    BY <1>1, InvOfOperation
  <2>2. rn \in Word /\ so \in Word /\ c \in Bit /\ n \in Bit
    BY <2>1 DEF Operation, Bit
  <2> HIDE DEF rn, so, c
  <2>3. out = Wrap(rn + so + n)
    <3>1. CASE job.op = ADC
      BY <3>1 DEF AluOut, ArithmeticOut, Logical, AND, EOR, SUB, RSB, ADD, ADC, SBC, RSC,
                  TST, TEQ, CMP, CMN, ORR, MOV, BIC, MVN
    <3>2. CASE job.op = ADD
      <4>1. out = Wrap(rn + so) /\ n = 0
        BY <3>2 DEF AluOut, ArithmeticOut, Logical, AND, EOR, SUB, RSB, ADD, ADC, SBC, RSC,
                    TST, TEQ, CMP, CMN, ORR, MOV, BIC, MVN
      <4>2. rn + so + 0 = rn + so
        BY <2>2, WordsAreIntegers
      <4> QED
        BY <4>1, <4>2
    <3> QED
      BY <3>1, <3>2
  <2>4. overflow = OverflowFrom(out, rn, so)
    <3>1. job.op \in {SUB, ADD, ADC, CMP, CMN} /\ job.op \notin {RSB, SBC, RSC}
      BY DEF SUB, RSB, ADD, ADC, SBC, RSC, CMP, CMN
    <3> HIDE DEF n, out
    <3> QED
      BY <3>1, Zenon DEF OverflowOut
  <2>5. /\ done.out = out
        /\ Flag(done.cpsr, "V") = IF overflow THEN 1 ELSE 0
    <3>1. job.op \notin Logical
      BY DEF Logical, AND, EOR, ADD, ADC, TST, TEQ, ORR, MOV, BIC, MVN
    <3> QED
      BY <2>1, <2>2, <3>1, OperatedFlags
  <2> HIDE DEF n, out, overflow
  <2>6. OverflowFrom(out, rn, so) <=> Signed(rn) + Signed(so) + n # Signed(out)
    BY <2>2, <2>3, SignedSum
  <2>7. Flag(done.cpsr, "V") = 1 <=> Signed(rn) + Signed(so) + n # Signed(out)
    <3>1. Flag(done.cpsr, "V") = IF OverflowFrom(out, rn, so) THEN 1 ELSE 0
      BY <2>4, <2>5, Zenon
    <3> QED
      BY <2>6, <3>1
  <2> QED
    BY <2>5, <2>7 DEF OverflowOfAdditions, n, rn, so, c
<1> QED
  BY <1>1, Outcomes, PTL

--------------------------------------------------------------------------------
(* Two-word subtraction.                                                   *)

\* SUBS on the low halves, SBC with the C flag it left on the high ones.
LEMMA SubtractedIsDifference ==
    ASSUME NEW a \in Int, NEW b \in Int,
           a \div 2^W \in Word, b \div 2^W \in Word
    PROVE  Subtracted(a, b).out = (a - b) % 2^(2 * W)
<1> DEFINE B == 2^W
           D == 2^(2 * W)
           al == a % B
           ah == a \div B
           bl == b % B
           bh == b \div B
           low == Operated(SUB, al, bl, 0)
           carry == Flag(low.cpsr, "C")
           high == Operated(SBC, ah, bh, carry)
           d == a - b
           q == d \div B
           r == d % B
<1>1. B \in Nat \ {0} /\ W \in Nat
  BY WordSizes
<1>2. IsProduct(D, B, B)
  <2>1. 2 * W = W + W
    BY <1>1
  <2> QED
    BY <1>1, <2>1, PowerOfSum DEF IsProduct
<1>3. Subtracted(a, b).out = high.out * B + low.out
  BY DEF Subtracted
<1>4. Word = 0..(B - 1)
  BY DEF Word
<1>5. \A n \in Int : Wrap(n) = n % B
  BY DEF Wrap
<1> HIDE DEF B, D
<1>6. /\ al \in Word /\ bl \in Word /\ ah \in Word /\ bh \in Word
      /\ a = B * ah + al /\ b = B * bh + bl
  BY <1>1, <1>4, Division DEF B
<1> HIDE DEF al, ah, bl, bh
<1>7. /\ low.out = Wrap(al - bl)
      /\ carry = IF ~ (al < bl) THEN 1 ELSE 0
  <2>1. /\ AluOut(SUB, al, bl, 0) = Wrap(al - bl)
        /\ CarryOut(SUB, al, bl, 0, 0) = ~ (al < bl)
    BY DEF AluOut, ArithmeticOut, CarryOut, BorrowFrom, Logical, AND, EOR, SUB, RSB, ADD, ADC,
           SBC, RSC, TST, TEQ, CMP, CMN, ORR, MOV, BIC, MVN
  <2>2. low.out = AluOut(SUB, al, bl, 0) /\ carry = IF CarryOut(SUB, al, bl, 0, 0) THEN 1 ELSE 0
    <3>1. 0 \in Bit
      BY DEF Bit
    <3> QED
      BY <3>1, OperatedFlags
  <2> QED
    BY <2>1, <2>2, Zenon
<1> HIDE DEF carry
<1>8. high.out = Wrap(ah - bh - (1 - carry))
  <2>1. high.out = AluOut(SBC, ah, bh, carry)
    BY DEF Operated
  <2> QED
    BY <2>1 DEF AluOut, ArithmeticOut, Logical, AND, EOR, SUB, RSB, ADD, ADC,
                SBC, RSC, TST, TEQ, CMP, CMN, ORR, MOV, BIC, MVN
<1>9. q = ah - bh - (1 - carry) /\ r = low.out
  <2> DEFINE p == ah - bh - (1 - carry)
             s == IF al < bl THEN al - bl + B ELSE al - bl
  <2>1. /\ al \in 0..(B - 1) /\ bl \in 0..(B - 1) /\ ah \in Int /\ bh \in Int
        /\ al - bl \in Int
    BY <1>4, <1>6
  <2>2. carry \in {0, 1} /\ (carry = 1 <=> ~ (al < bl))
    BY <1>7
  <2>3. s \in 0..(B - 1) /\ p \in Int
    BY <1>1, <2>1, <2>2
  <2>4. low.out = s
    BY <1>4, <1>7, <2>1, <2>3, WrapOfSum DEF B
  <2>5. d = B * p + s
    <3>1. CASE al < bl
      <4>1. B * (ah - bh - 1) = B * ah - B * bh - B
        BY <1>1, <2>1
      <4>2. p = ah - bh - 1
        BY <2>1, <2>2, <3>1
      <4> QED
        BY <1>1, <1>6, <2>1, <3>1, <4>1, <4>2
    <3>2. CASE ~ (al < bl)
      <4>1. B * (ah - bh) = B * ah - B * bh
        BY <1>1, <2>1
      <4>2. p = ah - bh
        BY <2>1, <2>2, <3>2
      <4> QED
        BY <1>1, <1>6, <2>1, <3>2, <4>1, <4>2
    <3> QED
      BY <3>1, <3>2
  <2> HIDE DEF d, p, s
  <2>6. q = p /\ r = s
    BY <1>1, <2>3, <2>5, DivisionOf
  <2> QED
    BY <2>4, <2>6 DEF p
<1>10. d \in Int
  OBVIOUS
<1> HIDE DEF d, low, high
<1>11. d % D = B * (q % B) + r
  BY <1>1, <1>2, <1>10, DivisionByProduct
<1>12. q \in Int /\ q % B \in Int /\ r \in Int
  BY <1>1, <1>10, Division
<1>13. high.out = q % B
  BY <1>5, <1>8, <1>9, <1>12
<1>14. high.out * B + low.out = B * (q % B) + r
  <2> HIDE DEF q, r
  <2> DEFINE h == q % B
  <2>1. h \in Int
    BY <1>12
  <2> HIDE DEF h
  <2>2. h * B + r = B * h + r
    BY <1>1, <2>1, <1>12
  <2> QED
    BY <1>9, <1>13, <2>2 DEF h
<1> QED
  BY <1>3, <1>11, <1>14 DEF d, low, high, D

\* The C flag of SUBS carries the borrow into SBC, and nothing is lost: the
\* subtraction of two-word numbers as compilers emit it is exact.
THEOREM WideSubtractionIsExact == AluSpec => []WideSubtraction
<1>1. ASSUME Inv PROVE WideSubtraction
  <2> SUFFICES ASSUME Is("wide") PROVE done.out = (job.a - job.b) % 2^(2 * W)
    BY DEF WideSubtraction
  <2>1. job \in Wide /\ done = Subtracted(job.a, job.b)
    BY <1>1, InvOfWide
  <2>2. \A n \in 0..(2^(2 * W) - 1) : n \in Int /\ n \div 2^W \in Word
    <3> TAKE n \in 0..(2^(2 * W) - 1)
    <3> DEFINE B == 2^W
               D == 2^(2 * W)
               q == n \div B
    <3>1. B \in Nat \ {0} /\ D \in Nat \ {0} /\ D = B * B /\ Word = 0..(B - 1)
      <4>1. W \in Nat /\ 2 * W \in Nat /\ 2 * W = W + W
        BY WordSizes
      <4> QED
        BY <4>1, PowerOfSum, PowerIsPositive DEF Word
    <3>2. n \in 0..(D - 1)
      OBVIOUS
    <3> HIDE DEF B, D
    <3>3. n \in Int /\ n < B * B
      BY <3>1, <3>2
    <3>4. q < B
      BY <3>1, <3>3, DivisionIsMonotonic
    <3>5. q \in Int /\ q >= 0
      BY <3>1, <3>2
    <3> QED
      BY <3>1, <3>3, <3>4, <3>5 DEF B
  <2>3. /\ job.a \in Int /\ job.a \div 2^W \in Word
        /\ job.b \in Int /\ job.b \div 2^W \in Word
    BY <2>1, <2>2 DEF Wide
  <2> QED
    BY <2>1, <2>3, SubtractedIsDifference
<1> QED
  BY <1>1, Outcomes, PTL

--------------------------------------------------------------------------------
(* Shifts.                                                                 *)

\* One more place of LSL: the bit that leaves is the top bit of what is there.
LEMMA LslNext ==
    ASSUME NEW x \in Word, NEW n \in 0..Top
    PROVE  /\ (2 * Lsl(x, n)) % 2^W = Lsl(x, n + 1)
           /\ Lsl(x, n) \div 2^Top = get_bit(x, W - (n + 1))
<1> DEFINE k == W - (n + 1)
           K == 2^k
           P == 2^(W - n)
           N == 2^n
           M == 2^(n + 1)
           B == 2^W
           H == 2^Top
           b == get_bit(x, k)
           r == x % K
<1>1. /\ k \in Nat /\ W - n \in Nat /\ n \in Nat /\ n + 1 \in Nat /\ x \in Int
      /\ W - n = k + 1 /\ W = k + (n + 1) /\ Top = k + n
  BY WordSizes, WordsAreIntegers
<1>2. Lsl(x, n) = (x % P) * N /\ Lsl(x, n + 1) = r * M
  BY DEF Lsl
<1>3. P = 2 * K /\ M = 2 * N
  BY <1>1, PowerOfNext
<1>4. B = K * M /\ H = K * N
  <2> HIDE DEF k
  <2> QED
    BY <1>1, PowerOfSum
<1>5. K \in Nat \ {0} /\ N \in Nat \ {0} /\ B \in Nat \ {0} /\ H \in Nat \ {0}
  BY <1>1, WordSizes, PowerIsPositive
<1>6. b \in {0, 1}
  BY <1>1, BitType
<1>7. r \in 0..(K - 1) /\ x % P = K * b + r
  <2> HIDE DEF k
  <2> QED
    BY <1>1, RemainderSplits
<1> HIDE DEF k, K, P, N, M, B, H, b
<1> HIDE DEF r
<1> DEFINE s == r * N
<1>8. s \in 0..(H - 1)
  <2>1. K - 1 - r \in Nat
    BY <1>5, <1>7
  <2>2. N * (K - 1 - r) \in Nat /\ r * N \in Nat
    BY <1>5, <1>7, <2>1
  <2>3. N * (K - 1 - r) = K * N - N - r * N
    BY <1>5, <1>7
  <2> QED
    BY <1>4, <1>5, <2>2, <2>3
<1>9. Lsl(x, n) = H * b + s
  <2>1. (K * b + r) * N = (K * N) * b + r * N
    BY <1>5, <1>6, <1>7
  <2> QED
    BY <1>2, <1>4, <1>7, <2>1
<1>10. r * M = 2 * s /\ B = 2 * H
  <2>1. r * (2 * N) = 2 * (r * N) /\ K * (2 * N) = 2 * (K * N)
    BY <1>5, <1>7
  <2> QED
    BY <1>3, <1>4, <2>1
<1> HIDE DEF s
<1> DEFINE y == Lsl(x, n)
           z == 2 * y
           t == 2 * s
<1>11. t \in 0..(B - 1) /\ z = B * b + t
  BY <1>5, <1>6, <1>8, <1>9, <1>10
<1> HIDE DEF y, z, t
<1>12. z % B = t
  <2>1. B \in Nat \ {0} /\ b \in Int
    BY <1>5, <1>6
  <2> QED
    BY <1>11, <2>1, DivisionOf
<1>13. y \div H = b
  <2>1. H \in Nat \ {0} /\ b \in Int /\ y = H * b + s
    BY <1>5, <1>6, <1>9 DEF y
  <2> QED
    BY <1>8, <2>1, DivisionOf
<1> QED
  BY <1>2, <1>10, <1>12, <1>13 DEF y, z, t, B, H, b, k

\* One more place of LSR and of ASR.
LEMMA LsrNext ==
    ASSUME NEW x \in Word, NEW n \in Nat
    PROVE  Lsr(x, n) \div 2 = Lsr(x, n + 1) /\ Lsr(x, n) % 2 = get_bit(x, n)
<1> DEFINE N == 2^n
           M == 2^(n + 1)
           two == 2
<1>1. N \in Nat \ {0} /\ IsProduct(M, N, two) /\ two \in Nat \ {0} /\ x \in Int
  BY PowerIsPositive, PowerOfNext, WordsAreIntegers DEF IsProduct
<1> HIDE DEF N, M, two
<1>2. (x \div N) \div two = x \div M
  BY <1>1, DivisionByProduct
<1> QED
  BY <1>2 DEF Lsr, get_bit, N, M, two

\* One more place of ROR: the bit that leaves comes back at the top.
LEMMA RorNext ==
    ASSUME NEW x \in Word, NEW n \in 0..Top
    PROVE  /\ (ror(x, n) \div 2) + (ror(x, n) % 2) * 2^Top = ror(x, n + 1)
           /\ ror(x, n) % 2 = get_bit(x, n)
<1> DEFINE k == W - (n + 1)
           K == 2^k
           P == 2^(W - n)
           N == 2^n
           M == 2^(n + 1)
           H == 2^Top
           b == get_bit(x, n)
           r == x % N
           q == x \div N
           p == x \div M
<1>1. /\ k \in Nat /\ W - n \in Nat /\ n \in Nat /\ n + 1 \in Nat /\ x \in Int
      /\ W - n = k + 1 /\ W = k + (n + 1) /\ Top = n + k /\ n + 1 # 0
      /\ W - (W - n) = n /\ W - k = n + 1
  BY WordSizes, WordsAreIntegers
<1>2. P = 2 * K /\ H = N * K
  <2> HIDE DEF k
  <2> QED
    BY <1>1, PowerOfNext, PowerOfSum
<1>3. K \in Nat \ {0} /\ N \in Nat \ {0} /\ M \in Nat \ {0} /\ H \in Nat \ {0}
  BY <1>1, WordSizes, PowerIsPositive
<1>4. q \div 2 = p /\ q % 2 = b
  BY <1>1, LsrNext DEF Lsr
<1>5. b \in {0, 1}
  BY <1>1, BitType
<1>6. ror(x, n + 1) = p + (x % M) * K
  BY <1>1 DEF ror, Lsr, Lsl
<1>7. ror(x, n) = q + r * P
  <2>1. CASE n # 0
    BY <1>1, <2>1 DEF ror, Lsr, Lsl
  <2>2. CASE n = 0
    <3>1. N = 1 /\ ror(x, n) = x
      BY <2>2, PowerOfZero DEF ror
    <3> HIDE DEF N, K, P
    <3>2. q = x /\ r = 0
      <4>1. x = 1 * x + 0 /\ 0 \in 0..(1 - 1)
        BY <1>1
      <4>2. x \div 1 = x /\ x % 1 = 0
        BY <1>1, <4>1, DivisionOf
      <4> QED
        BY <3>1, <4>2
    <3>3. 0 * P = 0
      BY <1>2, <1>3
    <3> QED
      BY <1>1, <3>1, <3>2, <3>3
  <2> QED
    BY <2>1, <2>2
<1>8. x % M = N * b + r
  BY <1>1, RemainderSplits
<1> HIDE DEF k, K, P, N, M, H, b
<1>9. q \in Int /\ r \in Int
  BY <1>1, <1>3, Division
<1> HIDE DEF r, q, p
<1> DEFINE s == r * K
           y == ror(x, n)
<1>10. s \in Int /\ y = q + 2 * s
  <2>1. r * (2 * K) = 2 * (r * K) /\ r * K \in Int
    BY <1>3, <1>9
  <2> QED
    BY <1>2, <1>7, <2>1
<1>11. (N * b + r) * K = b * H + s
  <2>1. (N * b + r) * K = b * (N * K) + r * K
    BY <1>3, <1>5, <1>9
  <2> QED
    BY <1>2, <2>1
<1> HIDE DEF s, y
<1>12. y \div 2 = (q \div 2) + s /\ y % 2 = q % 2
  BY <1>9, <1>10
<1>13. p \in Int /\ b * H \in Int
  BY <1>3, <1>4, <1>5, <1>9
<1>14. (y \div 2) + (y % 2) * H = ror(x, n + 1)
  <2>1. (y \div 2) + (y % 2) * H = (p + s) + b * H
    BY <1>4, <1>12
  <2>2. ror(x, n + 1) = p + (b * H + s)
    BY <1>6, <1>8, <1>11
  <2> DEFINE u == b * H
  <2>3. u \in Int
    BY <1>13
  <2> HIDE DEF u
  <2>4. (p + s) + u = p + (u + s)
    BY <1>10, <1>13, <2>3
  <2> QED
    BY <2>1, <2>2, <2>4 DEF u
<1> QED
  BY <1>4, <1>12, <1>14 DEF y, H, b

\* Shifted out of the word, or all the way round.
LEMMA WholeShifts ==
    ASSUME NEW x \in Word
    PROVE  /\ Lsl(x, 0) = x /\ Lsr(x, 0) = x /\ ror(x, 0) = x
           /\ Lsl(x, W) = 0 /\ Lsr(x, W) = 0 /\ ror(x, W) = x
<1> DEFINE B == 2^W
<1>1. W \in Nat /\ W - 0 = W /\ W - W = 0 /\ W # 0 /\ x \in Int /\ 2^0 = 1
  BY WordSizes, WordsAreIntegers, PowerOfZero
<1>2. B \in Nat \ {0} /\ x \in 0..(B - 1)
  BY WordSizes DEF Word
<1> HIDE DEF B
<1>3. x \div B = 0 /\ x % B = x
  BY <1>2, DivisionOfSmall
<1>4. x = 1 * x + 0 /\ 0 \in 0..(1 - 1) /\ 1 \in Nat \ {0}
  BY <1>1
<1>5. x \div 1 = x /\ x % 1 = 0
  BY <1>1, <1>4, DivisionOf
<1>6. Lsl(x, 0) = x /\ Lsr(x, 0) = x /\ ror(x, 0) = x
  BY <1>1, <1>3, <1>5 DEF Lsl, Lsr, ror, B
<1>7. Lsl(x, W) = 0 * B
  BY <1>1, <1>5 DEF Lsl, B
<1>8. Lsr(x, W) = 0
  BY <1>3 DEF Lsr, B
<1>9. ror(x, W) = 0 + x
  BY <1>1, <1>6, <1>8 DEF ror
<1> QED
  BY <1>1, <1>2, <1>6, <1>7, <1>8, <1>9

\* A right shift of a positive word is positive.
LEMMA PositiveShift ==
    ASSUME NEW x \in Word, get_bit(x, Top) = 0, NEW n \in Nat
    PROVE  get_bit(Lsr(x, n), Top) = 0 /\ Lsr(x, n) \in Int
<1> DEFINE H == 2^Top
           N == 2^n
<1>1. H \in Nat \ {0} /\ N \in Nat \ {0} /\ x \in Nat
  BY WordSizes, WordsAreIntegers, PowerIsPositive
<1>2. x < H
  BY <1>1, TopBit
<1>3. Lsr(x, n) \in Word
  BY ShiftsOfWords
<1> HIDE DEF H, N
<1>4. N * H >= H
  BY <1>1
<1>5. x \div N < H
  BY <1>1, <1>2, <1>4, DivisionIsMonotonic
<1>6. Lsr(x, n) < H
  BY <1>5 DEF Lsr, N
<1>7. Lsr(x, n) \in Nat
  BY <1>3, WordsAreIntegers, Zenon
<1>8. get_bit(Lsr(x, n), Top) = IF Lsr(x, n) >= H THEN 1 ELSE 0
  BY <1>3, TopBit DEF H
<1> QED
  BY <1>1, <1>6, <1>7, <1>8

\* n places of ASR of a negative word: as many ones at the top.
AsrNegative(x, n) == Lsr(x, n) + (2^W - 2^(W - n))

LEMMA AsrNext ==
    ASSUME NEW x \in Word, get_bit(x, Top) = 1, NEW n \in 0..Top
    PROVE  LET v == AsrNegative(x, n)
           IN  /\ v \div 2 + get_bit(v, Top) * 2^Top = AsrNegative(x, n + 1)
               /\ v % 2 = get_bit(x, n)
<1> DEFINE q == Lsr(x, n)
           k == W - (n + 1)
           K == 2^k
           P == 2^(W - n)
           N == 2^n
           B == 2^W
           H == 2^Top
           v == AsrNegative(x, n)
<1>1. /\ k \in Nat /\ W - n \in Nat /\ n \in Nat /\ x \in Int
      /\ W - n = k + 1 /\ W = n + (W - n) /\ (n # 0 => W - n <= Top) /\ Top \in Nat
  BY WordSizes, WordsAreIntegers
<1>2. P = 2 * K
  <2> HIDE DEF k
  <2> QED
    BY <1>1, PowerOfNext
<1>3. B = N * P /\ B = 2 * H
  BY <1>1, PowerOfSum, WordSizes
<1>4. K \in Nat \ {0} /\ P \in Nat \ {0} /\ N \in Nat \ {0} /\ H \in Nat \ {0} /\ B \in Nat \ {0}
  BY <1>1, WordSizes, PowerIsPositive
<1>5. n # 0 => P <= H
  BY <1>1, PowerIsMonotonic
<1>6. x >= H /\ x < B
  BY <1>4, TopBit DEF Word
<1>7. q \in Nat
  BY <1>1, ShiftsOfWords, WordsAreIntegers
<1>8. q \div 2 = Lsr(x, n + 1) /\ q % 2 = get_bit(x, n)
  BY <1>1, LsrNext
<1>9. n = 0 => q = x /\ P = B
  BY WholeShifts, <1>1
<1>10. q < P
  <2> HIDE DEF N, P, B
  <2>1. x \div N < P
    BY <1>1, <1>3, <1>4, <1>6, DivisionIsMonotonic
  <2> QED
    BY <2>1 DEF Lsr, N
<1>11. v = q + (B - P) /\ AsrNegative(x, n + 1) = Lsr(x, n + 1) + (B - K)
  BY DEF AsrNegative
<1> HIDE DEF q, k, K, P, N, v
<1>12. v \in 0..(B - 1) /\ v >= H
  <2> HIDE DEF B, H
  <2>1. CASE n = 0
    BY <1>3, <1>4, <1>6, <1>7, <1>9, <1>10, <1>11, <2>1
  <2>2. CASE n # 0
    BY <1>3, <1>4, <1>5, <1>7, <1>10, <1>11, <2>2
  <2> QED
    BY <2>1, <2>2
<1>13. get_bit(v, Top) = 1
  BY <1>12, TopBit DEF Word
<1> HIDE DEF B, H
<1>14. v = q + 2 * (H - K) /\ H - K \in Int
  BY <1>2, <1>3, <1>4, <1>7, <1>11
<1>15. v \div 2 = q \div 2 + (H - K) /\ v % 2 = q % 2
  BY <1>7, <1>14
<1>16. v \div 2 + 1 * H = AsrNegative(x, n + 1)
  <2> DEFINE p == q \div 2
  <2>1. p \in Int
    BY <1>7
  <2>2. v \div 2 = p + (H - K) /\ AsrNegative(x, n + 1) = p + (B - K)
    BY <1>8, <1>11, <1>15
  <2> HIDE DEF p
  <2> QED
    BY <1>3, <1>4, <2>1, <2>2
<1> QED
  BY <1>8, <1>13, <1>15, <1>16 DEF v, H

\* The word of ones, which ASR leaves alone.
LEMMA AllOnes ==
    LET v == 2^W - 1
    IN  v \div 2 + get_bit(v, Top) * 2^Top = v /\ v % 2 = 1
<1> DEFINE H == 2^Top
           v == 2^W - 1
<1>1. H \in Nat \ {0} /\ 2^W = 2 * H
  BY WordSizes
<1>2. v \in Word /\ v >= H
  BY <1>1 DEF Word
<1>3. get_bit(v, Top) = 1
  BY <1>2, TopBit
<1>4. v = 2 * (H - 1) + 1 /\ H - 1 \in Int
  BY <1>1
<1> HIDE DEF H, v
<1>5. v \div 2 = H - 1 /\ v % 2 = 1
  BY <1>4
<1>6. v \div 2 + 1 * H = v
  BY <1>1, <1>4, <1>5
<1> QED
  BY <1>3, <1>5, <1>6 DEF H, v

\* The place after n, counted round the word.
LEMMA NextRound ==
    ASSUME NEW n \in Nat
    PROVE  /\ n % W \in 0..Top
           /\ (n + 1) % W = IF n % W = Top THEN 0 ELSE (n % W) + 1
<1> DEFINE r == n % W
           q == n \div W
<1>1. W \in Nat \ {0} /\ W = Top + 1 /\ Top \in Nat /\ W - 1 = Top /\ n \in Int
  BY WordSizes
<1> HIDE DEF W, Top
<1>2. q \in Int /\ r \in 0..Top /\ n = W * q + r
  <2>1. q \in Int /\ r \in 0..(W - 1) /\ n = W * q + r
    BY <1>1, Division, Zenon
  <2> QED
    BY <1>1, <2>1
<1> HIDE DEF r, q
<1> DEFINE next == n + 1
<1>3. CASE r = Top
  <2> DEFINE p == q + 1
             z == 0
  <2>1. W \in Nat \ {0} /\ p \in Int /\ z \in 0..(W - 1) /\ next = W * p + z
    BY <1>1, <1>2, <1>3
  <2> HIDE DEF next, p, z
  <2>2. next % W = z
    BY <2>1, DivisionOf
  <2> QED
    BY <1>2, <1>3, <2>2 DEF r, next, z
<1>4. CASE r # Top
  <2> DEFINE s == r + 1
  <2>1. W \in Nat \ {0} /\ q \in Int /\ s \in 0..(W - 1) /\ next = W * q + s
    BY <1>1, <1>2, <1>4
  <2> HIDE DEF next, s
  <2>2. next % W = s
    BY <2>1, DivisionOf
  <2> QED
    BY <1>2, <1>4, <2>2 DEF r, next, s
<1> QED
  BY <1>3, <1>4

\* n places of each shift in closed form.
Places(type, rm, n, c) ==
    IF n = 0 THEN <<rm, c>>
    ELSE CASE type = "LSL" -> IF n <= W THEN <<Lsl(rm, n), get_bit(rm, W - n)>> ELSE <<0, 0>>
           [] type = "LSR" -> <<Lsr(rm, n), get_bit(rm, n - 1)>>
           [] type = "ASR" -> IF get_bit(rm, Top) = 0 THEN <<Lsr(rm, n), get_bit(rm, n - 1)>>
                              ELSE IF n <= Top
                              THEN <<AsrNegative(rm, n), get_bit(rm, n - 1)>>
                              ELSE <<2^W - 1, 1>>
           [] type = "ROR" -> <<ror(rm, n % W), get_bit(rm, (n - 1) % W)>>

LEMMA NextPlaceLsl ==
    ASSUME NEW x \in Word, NEW c, NEW n \in Nat
    PROVE  Places("LSL", x, n + 1, c) = OnePlace("LSL", Places("LSL", x, n, c)[1])
<1>1. n + 1 # 0 /\ W \in Nat /\ W = Top + 1 /\ Top \in Nat /\ W # 0
  BY WordSizes
<1>2. CASE n \in 0..Top
  <2>1. Places("LSL", x, n, c)[1] = Lsl(x, n)
    BY <1>1, <1>2, WholeShifts DEF Places
  <2>2. Places("LSL", x, n + 1, c) = <<Lsl(x, n + 1), get_bit(x, W - (n + 1))>>
    BY <1>1, <1>2 DEF Places
  <2> QED
    BY <1>2, <2>1, <2>2, LslNext DEF OnePlace
<1>3. CASE n \notin 0..Top
  <2>1. Places("LSL", x, n, c)[1] = 0
    <3>1. CASE n = W
      BY <1>1, <3>1, WholeShifts DEF Places
    <3>2. CASE n # W
      BY <1>1, <1>3, <3>2 DEF Places
    <3> QED
      BY <3>1, <3>2
  <2>2. Places("LSL", x, n + 1, c) = <<0, 0>>
    BY <1>1, <1>3 DEF Places
  <2>3. 0 % 2^W = 0 /\ 0 \div 2^Top = 0 /\ 2 * 0 = 0
    <3>1. 2^W \in Nat \ {0} /\ 2^Top \in Nat \ {0}
      BY WordSizes
    <3> QED
      BY <3>1, DivisionOfSmall
  <2> QED
    BY <2>1, <2>2, <2>3 DEF OnePlace
<1> QED
  BY <1>2, <1>3

LEMMA NextPlaceLsr ==
    ASSUME NEW x \in Word, NEW c, NEW n \in Nat
    PROVE  Places("LSR", x, n + 1, c) = OnePlace("LSR", Places("LSR", x, n, c)[1])
<1>1. n + 1 # 0 /\ (n + 1) - 1 = n
  OBVIOUS
<1>2. Places("LSR", x, n, c)[1] = Lsr(x, n)
  BY WholeShifts DEF Places
<1>3. Places("LSR", x, n + 1, c) = <<Lsr(x, n + 1), get_bit(x, n)>>
  BY <1>1 DEF Places
<1> QED
  BY <1>2, <1>3, LsrNext DEF OnePlace

LEMMA NextPlaceAsr ==
    ASSUME NEW x \in Word, NEW c, NEW n \in Nat
    PROVE  Places("ASR", x, n + 1, c) = OnePlace("ASR", Places("ASR", x, n, c)[1])
<1>1. n + 1 # 0 /\ (n + 1) - 1 = n /\ W = Top + 1 /\ Top \in Nat
  BY WordSizes
<1>2. CASE get_bit(x, Top) = 0
  <2>1. Places("ASR", x, n, c)[1] = Lsr(x, n)
    BY <1>2, WholeShifts DEF Places
  <2>2. Places("ASR", x, n + 1, c) = <<Lsr(x, n + 1), get_bit(x, n)>>
    BY <1>1, <1>2 DEF Places
  <2>3. Lsr(x, n) \div 2 = Lsr(x, n + 1) /\ Lsr(x, n) % 2 = get_bit(x, n)
    BY LsrNext
  <2>4. get_bit(Lsr(x, n), Top) * 2^Top = 0
    BY <1>2, PositiveShift, WordSizes
  <2>5. Lsr(x, n) \div 2 + 0 = Lsr(x, n) \div 2
    BY <1>2, PositiveShift
  <2> QED
    BY <2>1, <2>2, <2>3, <2>4, <2>5 DEF OnePlace
<1>3. CASE get_bit(x, Top) # 0
  <2>1. get_bit(x, Top) = 1
    BY <1>1, <1>3, BitType, WordsAreIntegers
  <2>2. CASE n \in 0..Top
    <3> DEFINE v == AsrNegative(x, n)
    <3>1. Places("ASR", x, n, c)[1] = v
      <4>1. CASE n = 0
        <5>1. W - 0 = W /\ 2^W - 2^W = 0 /\ x + 0 = x
          BY WordSizes, WordsAreIntegers
        <5>2. v = x + (2^W - 2^W)
          BY <4>1, <5>1, WholeShifts DEF AsrNegative
        <5>3. v = x
          BY <5>1, <5>2
        <5> QED
          BY <4>1, <5>3 DEF Places
      <4>2. CASE n # 0
        BY <1>3, <2>2, <4>2 DEF Places
      <4> QED
        BY <4>1, <4>2
    <3>2. Places("ASR", x, n + 1, c) = <<AsrNegative(x, n + 1), get_bit(x, n)>>
      <4>1. CASE n = Top
        <5>1. AsrNegative(x, n + 1) = 2^W - 1
          <6>1. n + 1 = W /\ W - W = 0
            BY <1>1, <4>1
          <6>2. AsrNegative(x, W) = 0 + (2^W - 1)
            BY <6>1, WholeShifts, PowerOfZero DEF AsrNegative
          <6> QED
            BY <6>1, <6>2, WordSizes
        <5> QED
          BY <1>1, <1>3, <2>1, <4>1, <5>1 DEF Places
      <4>2. CASE n # Top
        BY <1>1, <1>3, <2>2, <4>2 DEF Places
      <4> QED
        BY <4>1, <4>2
    <3>3. v \div 2 + get_bit(v, Top) * 2^Top = AsrNegative(x, n + 1) /\ v % 2 = get_bit(x, n)
      BY <2>1, <2>2, AsrNext
    <3> QED
      BY <3>1, <3>2, <3>3 DEF OnePlace
  <2>3. CASE n \notin 0..Top
    <3>1. Places("ASR", x, n, c)[1] = 2^W - 1
      BY <1>1, <1>3, <2>3 DEF Places
    <3>2. Places("ASR", x, n + 1, c) = <<2^W - 1, 1>>
      BY <1>1, <1>3, <2>3 DEF Places
    <3> QED
      BY <3>1, <3>2, AllOnes DEF OnePlace
  <2> QED
    BY <2>2, <2>3
<1> QED
  BY <1>2, <1>3

LEMMA NextPlaceRor ==
    ASSUME NEW x \in Word, NEW c, NEW n \in Nat
    PROVE  Places("ROR", x, n + 1, c) = OnePlace("ROR", Places("ROR", x, n, c)[1])
<1> DEFINE k == n % W
<1>1. n + 1 # 0 /\ (n + 1) - 1 = n /\ W = Top + 1 /\ W \in Nat \ {0}
  BY WordSizes
<1>2. k \in 0..Top /\ (n + 1) % W = IF k = Top THEN 0 ELSE k + 1
  BY NextRound
<1>3. ror(x, (n + 1) % W) = ror(x, k + 1)
  BY <1>1, <1>2, WholeShifts
<1>4. Places("ROR", x, n, c)[1] = ror(x, k)
  <2>1. n = 0 => k = 0
    BY <1>1, DivisionOfSmall
  <2> QED
    BY <2>1, WholeShifts DEF Places
<1>5. Places("ROR", x, n + 1, c) = <<ror(x, k + 1), get_bit(x, k)>>
  BY <1>1, <1>3 DEF Places
<1> QED
  BY <1>2, <1>4, <1>5, RorNext DEF OnePlace

\* The closed form is what shifting n times by one yields.
LEMMA RepeatedIsPlaces ==
    ASSUME NEW type \in ShiftTypes, NEW x \in Word, NEW c, NEW N \in Nat
    PROVE  Repeated(type, x, N, c) = Places(type, x, N, c)
<1> DEFINE place[n \in 0..N] == IF n = 0 THEN <<x, c>> ELSE OnePlace(type, place[n - 1][1])
           g == [n \in 0..N |-> Places(type, x, n, c)]
           Step(f) == f = [n \in 0..N |-> IF n = 0 THEN <<x, c>> ELSE OnePlace(type, f[n - 1][1])]
           S == {n \in Nat : n <= N => place[n] = g[n]}
<1>1. place = CHOOSE f : Step(f)
  OBVIOUS
<1>2. Step(g)
  <2>1. ASSUME NEW n \in 0..N
        PROVE  g[n] = IF n = 0 THEN <<x, c>> ELSE OnePlace(type, g[n - 1][1])
    <3>1. CASE n = 0
      BY <3>1 DEF Places
    <3>2. CASE n # 0
      <4>1. n - 1 \in Nat /\ n - 1 \in 0..N /\ (n - 1) + 1 = n
        BY <3>2
      <4>2. Places(type, x, (n - 1) + 1, c) = OnePlace(type, Places(type, x, n - 1, c)[1])
        BY <4>1, NextPlaceLsl, NextPlaceLsr, NextPlaceAsr, NextPlaceRor DEF ShiftTypes
      <4> QED
        BY <3>2, <4>1, <4>2
    <3> QED
      BY <3>1, <3>2
  <2> QED
    BY <2>1
<1>3. Step(place)
  <2> HIDE DEF place, g, Step
  <2> QED
    BY <1>1, <1>2
<1>4. g[N] = Places(type, x, N, c)
  OBVIOUS
<1>5. Repeated(type, x, N, c) = place[N]
  BY DEF Repeated
<1> HIDE DEF place, g
<1>6. \A n \in 0..N : place[n] = IF n = 0 THEN <<x, c>> ELSE OnePlace(type, place[n - 1][1])
  BY <1>3
<1>7. \A n \in 0..N : g[n] = IF n = 0 THEN <<x, c>> ELSE OnePlace(type, g[n - 1][1])
  BY <1>2
<1>8. 0 \in S
  BY <1>6, <1>7
<1>9. ASSUME NEW n \in Nat, n \in S PROVE n + 1 \in S
  BY <1>6, <1>7, <1>9
<1> HIDE DEF S
<1>10. N \in S
  BY <1>8, <1>9, Induction
<1> QED
  BY <1>4, <1>5, <1>10 DEF S

\* The register form against the closed form, for each type.
LEMMA RegIsPlaces ==
    ASSUME NEW type \in ShiftTypes, NEW x \in Word, NEW c, NEW n \in Nat, n % 256 = n
    PROVE  LET code == ShiftByReg(type, x, n, c)
               reg == Places(type, x, n, c)
           IN  /\ code[2] = reg[2]
               /\ \/ code[1] = reg[1]
                  \/ type = "ASR" /\ get_bit(x, Top) = 1 /\ n \in 1..Top
                  \/ type = "LSL" /\ n = W
<1>1. /\ n \in Nat /\ W \in Nat \ {0} /\ Top \in Nat /\ W = Top + 1 /\ W - 1 = Top
      /\ x \in Nat /\ get_bit(x, Top) \in {0, 1}
  BY WordSizes, BitType, WordsAreIntegers
<1>2. n % 256 = n
  OBVIOUS
<1>3. CASE n = 0
  BY <1>1, <1>2, <1>3
     DEF ShiftByReg, ShiftLslReg, ShiftLsrReg, ShiftAsrReg, ShiftRorReg, ShiftTypes, Places
<1>4. CASE n # 0 /\ type = "LSL"
  BY <1>1, <1>2, <1>4 DEF ShiftByReg, ShiftLslReg, Places
<1>5. n >= W => Lsr(x, n) = 0
  <2> SUFFICES ASSUME n >= W PROVE Lsr(x, n) = 0
    OBVIOUS
  <2>1. 2^W <= 2^n /\ 2^n \in Nat \ {0} /\ 2^W \in Nat
    BY <1>1, PowerIsMonotonic, PowerIsPositive, WordSizes
  <2>2. x \in 0..(2^n - 1)
    BY <2>1 DEF Word
  <2> QED
    BY <2>1, <2>2, DivisionOfSmall DEF Lsr
<1>6. n > W => get_bit(x, n - 1) = 0
  <2> SUFFICES ASSUME n > W PROVE get_bit(x, n - 1) = 0
    OBVIOUS
  <2>1. n - 1 \in Nat /\ W <= n - 1
    BY <1>1
  <2>2. 2^W <= 2^(n - 1) /\ 2^(n - 1) \in Nat \ {0} /\ 2^W \in Nat
    BY <1>1, <2>1, PowerIsMonotonic, PowerIsPositive, WordSizes
  <2>3. x \in 0..(2^(n - 1) - 1)
    BY <2>2 DEF Word
  <2>4. x \div 2^(n - 1) = 0
    BY <2>2, <2>3, DivisionOfSmall
  <2> QED
    BY <2>4 DEF get_bit
<1>7. CASE n # 0 /\ type = "LSR"
  BY <1>1, <1>2, <1>5, <1>6, <1>7 DEF ShiftByReg, ShiftLsrReg, Places
<1>8. CASE n # 0 /\ type = "ASR"
  <2>1. CASE n \in 1..Top
    BY <1>1, <1>2, <1>8, <2>1 DEF ShiftByReg, ShiftAsrReg, Places
  <2>2. CASE n \notin 1..Top
    <3>1. n >= W
      BY <1>1, <1>8, <2>2
    <3>2. CASE get_bit(x, Top) = 0
      <4>1. get_bit(x, n - 1) = 0
        BY <1>1, <1>6, <3>1, <3>2
      <4> QED
        BY <1>1, <1>2, <1>5, <1>8, <2>2, <3>1, <3>2, <4>1 DEF ShiftByReg, ShiftAsrReg, Places
    <3>3. CASE get_bit(x, Top) = 1
      <4>1. ShiftByReg(type, x, n, c) = <<2^W - 1, 1>>
        BY <1>1, <1>2, <1>8, <2>2, <3>3 DEF ShiftByReg, ShiftAsrReg
      <4>2. Places(type, x, n, c) = <<2^W - 1, 1>>
        BY <1>1, <1>8, <3>1, <3>3 DEF Places
      <4> QED
        BY <4>1, <4>2
    <3> QED
      BY <1>1, <3>2, <3>3
  <2> QED
    BY <2>1, <2>2
<1>9. CASE n # 0 /\ type = "ROR"
  <2>1. n - 1 \in Nat /\ (n - 1) + 1 = n
    BY <1>1, <1>9
  <2>2. (n - 1) % W = IF n % W = 0 THEN Top ELSE (n % W) - 1
    <3>1. /\ (n - 1) % W \in 0..Top
          /\ n % W = IF (n - 1) % W = Top THEN 0 ELSE ((n - 1) % W) + 1
      BY <2>1, NextRound
    <3> HIDE DEF Top, W
    <3> QED
      BY <1>1, <3>1
  <2>3. ShiftByReg(type, x, n, c) = ShiftRorReg(x, n, c)
    BY <1>2, <1>9 DEF ShiftByReg
  <2>4. Places(type, x, n, c) = <<ror(x, n % W), get_bit(x, (n - 1) % W)>>
    BY <1>9 DEF Places
  <2>5. CASE n % W = 0
    BY <1>9, <2>2, <2>3, <2>4, <2>5, WholeShifts DEF ShiftRorReg
  <2>6. CASE n % W # 0
    BY <1>9, <2>2, <2>3, <2>4, <2>6 DEF ShiftRorReg
  <2> QED
    BY <2>5, <2>6
<1> QED
  BY <1>3, <1>4, <1>7, <1>8, <1>9 DEF ShiftTypes

\* The immediate form: a field of 0 shifts right by the width, or is RRX.
LEMMA ImmIsRepeated ==
    ASSUME NEW type \in ShiftTypes, NEW x \in Word, NEW c, NEW n \in 0..Top
    PROVE  LET code == ShiftByImm(type, x, n, c)
               imm == RepeatedImm(type, x, n, c)
           IN  /\ code[2] = imm[2]
               /\ ~ (type = "ASR" /\ get_bit(x, Top) = 1) => code[1] = imm[1]
<1>1. /\ n \in Nat /\ W \in Nat \ {0} /\ Top \in Nat /\ W = Top + 1 /\ W - 1 = Top
      /\ x \in Int /\ get_bit(x, Top) \in {0, 1}
  BY WordSizes, BitType, WordsAreIntegers
<1>2. CASE n = 0
  <2>1. CASE type = "LSL"
    <3>1. RepeatedImm(type, x, n, c) = Places(type, x, 0, c)
      BY <1>2, <2>1, RepeatedIsPlaces DEF RepeatedImm
    <3> QED
      BY <1>2, <2>1, <3>1 DEF ShiftByImm, ShiftLslImm, Places
  <2>2. CASE type \in {"LSR", "ASR"}
    <3>1. RepeatedImm(type, x, n, c) = Places(type, x, W, c)
      BY <1>1, <1>2, <2>2, RepeatedIsPlaces DEF RepeatedImm
    <3>2. CASE type = "LSR"
      BY <1>1, <1>2, <3>1, <3>2, WholeShifts DEF ShiftByImm, ShiftLsrImm, Places
    <3>3. CASE type = "ASR"
      BY <1>1, <1>2, <3>1, <3>3, WholeShifts DEF ShiftByImm, ShiftAsrImm, Places
    <3> QED
      BY <2>2, <3>2, <3>3
  <2>3. CASE type = "ROR"
    <3>1. 2^1 = 2 /\ 2^0 = 1 /\ x \div 1 = x
      <4>1. 2^0 = 1 /\ 2^(0 + 1) = 2 * 2^0
        BY PowerOfZero, PowerOfNext
      <4>2. 2^0 = 1 => x \div 2^0 = x
        BY WholeShifts DEF Lsr
      <4> QED
        BY <4>1, <4>2
    <3>2. Lsr(x, 1) = x \div 2 /\ get_bit(x, 0) = x % 2
      BY <3>1 DEF Lsr, get_bit
    <3>3. ShiftByImm(type, x, n, c) = <<c * 2^Top + Lsr(x, 1), get_bit(x, 0)>>
      BY <1>2, <2>3 DEF ShiftByImm, ShiftRorImm
    <3>4. RepeatedImm(type, x, n, c) = <<c * 2^Top + x \div 2, x % 2>>
      BY <1>2, <2>3 DEF RepeatedImm
    <3> QED
      BY <3>2, <3>3, <3>4
  <2> QED
    BY <2>1, <2>2, <2>3 DEF ShiftTypes
<1>3. CASE n # 0
  <2>1. RepeatedImm(type, x, n, c) = Places(type, x, n, c)
    BY <1>1, <1>3, RepeatedIsPlaces DEF RepeatedImm
  <2>2. CASE type = "LSL"
    BY <1>1, <1>3, <2>1, <2>2 DEF ShiftByImm, ShiftLslImm, Places
  <2>3. CASE type = "LSR"
    BY <1>1, <1>3, <2>1, <2>3 DEF ShiftByImm, ShiftLsrImm, Places
  <2>4. CASE type = "ASR"
    BY <1>1, <1>3, <2>1, <2>4 DEF ShiftByImm, ShiftAsrImm, Places
  <2>5. CASE type = "ROR"
    <3>1. n % W = n /\ (n - 1) % W = n - 1
      <4>1. n \in 0..(W - 1) /\ n - 1 \in 0..(W - 1)
        BY <1>1, <1>3
      <4> QED
        BY <1>1, <4>1, DivisionOfSmall
    <3>2. Places(type, x, n, c) = <<ror(x, n), get_bit(x, n - 1)>>
      BY <1>3, <2>5, <3>1 DEF Places
    <3>3. ShiftByImm(type, x, n, c) = <<ror(x, n), get_bit(x, n - 1)>>
      BY <1>3, <2>5 DEF ShiftByImm, ShiftRorImm
    <3> QED
      BY <2>1, <3>2, <3>3
  <2> QED
    BY <2>2, <2>3, <2>4, <2>5 DEF ShiftTypes
<1> QED
  BY <1>2, <1>3

\* In both forms, for every width and every amount from 0 to 255, the carry is
\* the last bit shifted out and the word is the repeated shift, with the two
\* exceptions ShiftsCompose names: ASR of a negative word and LSL by the width.
THEOREM ShiftsAreRepeated == AluSpec => []ShiftsCompose
<1>1. ASSUME Inv PROVE ShiftsCompose
  <2> SUFFICES ASSUME Is("shift") PROVE ShiftsCompose
    BY Zenon DEF ShiftsCompose
  <2> DEFINE type == job.type
             x == job.rm
             c == job.c
             n == job.by
  <2>1. job \in Shift /\ done = Shifted(type, x, n, c)
    BY <1>1, InvOfShift
  <2>2. type \in ShiftTypes /\ x \in Word /\ n \in 0..255
    BY <2>1, AmountsAssumption DEF Shift
  <2>3. done.reg = ShiftByReg(type, x, n, c) /\ done.imm = ShiftByImm(type, x, n % W, c)
    BY <2>1 DEF Shifted
  <2> HIDE DEF type, x, c, n
  <2>4. n % W \in 0..Top
    BY <2>2, NextRound
  <2>5. Repeated(type, x, n, c) = Places(type, x, n, c)
    BY <2>2, RepeatedIsPlaces
  <2>6. LET reg == Repeated(type, x, n, c)
        IN  /\ done.reg[2] = reg[2]
            /\ \/ done.reg[1] = reg[1]
               \/ type = "ASR" /\ get_bit(x, Top) = 1 /\ n \in 1..Top
               \/ type = "LSL" /\ n = W
    <3>1. LET code == ShiftByReg(type, x, n, c)
              reg == Places(type, x, n, c)
          IN  /\ code[2] = reg[2]
              /\ \/ code[1] = reg[1]
                 \/ type = "ASR" /\ get_bit(x, Top) = 1 /\ n \in 1..Top
                 \/ type = "LSL" /\ n = W
      <4>1. n \in Nat /\ n % 256 = n
        BY <2>2
      <4> QED
        BY <2>2, <4>1, RegIsPlaces
    <3> QED
      BY <2>3, <2>5, <3>1, Zenon
  <2>7. LET imm == RepeatedImm(type, x, n % W, c)
        IN  /\ done.imm[2] = imm[2]
            /\ ~ (type = "ASR" /\ get_bit(x, Top) = 1) => done.imm[1] = imm[1]
    BY <2>2, <2>3, <2>4, ImmIsRepeated
  <2> QED
    BY <2>6, <2>7 DEF ShiftsCompose, NegativeAsr, type, x, c, n
<1> QED
  BY <1>1, Outcomes, PTL
================================================================================
