----------------------------- MODULE I386Proofs -----------------------------
(***************************************************************************)
(* What holds of the CPU core for every program, every size of byte and    *)
(* memory and every answer of the host: the machine stays one (registers,  *)
(* flags, memory and segments keep their types), segments have the bases   *)
(* of real mode, no override outlives its instruction, and repetitions     *)
(* count down; and what the flags of CMP say of any two numbers compared,  *)
(* what products and quotients are, and what the stack gives back.         *)
(***************************************************************************)
EXTENDS I386, I386TableProofs, FiniteSetTheorems, TLAPS

\* What is overridden is what a call of i386_step that has not returned overrides.
Nested ==
    /\ frames \subseteq PrefixOps
    /\ op_override = IF "OP_SZ_OVERRIDE" \in frames THEN 1 ELSE 0
    /\ addr_override = IF "ADDR_SZ_OVERRIDE" \in frames THEN 1 ELSE 0
    /\ overriding_sgmt = IF "SEGMENT_OVERRIDE" \in frames THEN 1 ELSE 0
    /\ "SEGMENT_OVERRIDE" \notin frames => sgmt_override = DS

\* An instruction either ends and its calls return, or stops the program or
\* goes on repeating: nothing but a prefix sets an override.
LEMMA FinishReturns ==
    ASSUME NEW s, Finish(s) PROVE Return \/ UNCHANGED <<over, frames>>
BY DEF Finish

LEMMA ExecuteReturns ==
    ASSUME NEW d,
           \/ Arithmetic(d) \/ Moves(d) \/ Stack(d) \/ FlagOps(d) \/ Control(d)
           \/ Host(d) \/ StringOnce(d) \/ Repeat(d) \/ Undefined(d)
    PROVE  Return \/ UNCHANGED <<over, frames>>
<1>1. CASE Arithmetic(d)
  BY <1>1, FinishReturns DEF Arithmetic
<1>2. CASE Moves(d)
  BY <1>2, FinishReturns DEF Moves
<1>3. CASE Stack(d)
  BY <1>3, FinishReturns DEF Stack
<1>4. CASE FlagOps(d)
  BY <1>4, FinishReturns DEF FlagOps
<1>5. CASE Control(d)
  BY <1>5, FinishReturns DEF Control
<1>6. CASE Host(d)
  BY <1>6, FinishReturns DEF Host
<1>7. CASE StringOnce(d)
  BY <1>7, FinishReturns DEF StringOnce
<1>8. CASE Repeat(d)
  BY <1>8 DEF Repeat
<1>9. CASE Undefined(d)
  BY <1>9, FinishReturns DEF Undefined
<1> QED
  BY <1>1, <1>2, <1>3, <1>4, <1>5, <1>6, <1>7, <1>8, <1>9

LEMMA RoundReturns ==
    ASSUME RepeatRound \/ RepeatEnd PROVE Return \/ UNCHANGED <<over, frames>>
<1>1. CASE RepeatEnd
  BY <1>1, FinishReturns DEF RepeatEnd
<1>2. CASE RepeatRound
  BY <1>2, FinishReturns DEF RepeatRound
<1> QED
  BY <1>1, <1>2

LEMMA StepReturns ==
    ASSUME Execute \/ RepeatRound \/ RepeatEnd PROVE Return \/ UNCHANGED <<over, frames>>
<1>1. CASE Execute
  BY <1>1, ExecuteReturns DEF Execute
<1> QED
  BY <1>1, RoundReturns

LEMMA NestedStep == Nested /\ [Next]_vars => Nested'
<1> SUFFICES ASSUME Nested, [Next]_vars PROVE Nested'
  OBVIOUS
<1>1. CASE Prefix
  BY <1>1 DEF Prefix, Nested, PrefixOps
<1>2. CASE Return
  BY <1>2 DEF Return, Nested
<1>3. CASE UNCHANGED <<over, frames>>
  BY <1>3 DEF over, Nested
<1> QED
  BY <1>1, <1>2, <1>3, StepReturns DEF Next, vars

\* Between instructions there is no override left, whatever prefixes stood
\* before the last one and whatever it did (i386_step, run386.c:1451-1475).
THEOREM OverridesEndAlways == Spec => []OverridesEnd
<1>1. Init => Nested
  BY DEF Init, NoOverride, Nested
<1>2. Nested => OverridesEnd
  BY DEF Nested, OverridesEnd
<1> QED
  BY <1>1, <1>2, NestedStep, PTL DEF Spec

----------------------------------------------------------------------------
(* Division *)

LEMMA Small ==
    ASSUME NEW d \in Nat, NEW x \in 0 .. d - 1
    PROVE  x % d = x /\ x \div d = 0
BY SMT

LEMMA Below ==
    ASSUME NEW d \in Nat, NEW x \in Int, -d <= x, x < 0
    PROVE  x % d = x + d
BY SMT

LEMMA Whole ==
    ASSUME NEW d \in Nat \ {0}, NEW k \in Int, NEW r \in 0 .. d - 1
    PROVE  (k * d + r) \div d = k /\ (k * d + r) % d = r
BY SMT

----------------------------------------------------------------------------
(* Widths *)

\* A dword holds an even number of bytes' or words' worth of values.
LEMMA Widths ==
    ASSUME NEW n \in {1, 2, 4}
    PROVE  /\ W(n) \in Nat \ {0}
           /\ W(n) % 2 = 0
           /\ \E k \in Nat \ {0} : W(4) = k * W(n) /\ (n # 4 => k % 2 = 0)
<1> DEFINE B == Byte
<1>b. B \in Nat /\ B >= 2 /\ B % 2 = 0
  BY ByteAssumption
<1>h. PICK h \in Nat : B = 2 * h /\ h >= 1
  <2>1. B \div 2 \in Nat /\ B = 2 * (B \div 2) /\ B \div 2 >= 1
    BY <1>b
  <2> QED
    BY <2>1
<1>1. CASE n = 1
  <2>1. W(4) = (B * B * B) * B /\ W(1) = B
    BY DEF W
  <2>2. B * B * B \in Nat \ {0} /\ B * B * B = 2 * (h * B * B)
    BY <1>b, <1>h
  <2>3. (B * B * B) % 2 = 0
    BY <2>2, <1>h, <1>b, h * B * B \in Nat
  <2> QED
    BY <1>1, <1>b, <2>1, <2>2, <2>3
<1>2. CASE n = 2
  <2>1. W(4) = (B * B) * (B * B) /\ W(2) = B * B
    BY <1>b DEF W
  <2>2. B * B \in Nat \ {0} /\ B * B = 2 * (h * B) /\ h * B \in Nat
    BY <1>b, <1>h
  <2>3. (B * B) % 2 = 0
    BY <2>2
  <2> QED
    BY <1>2, <1>b, <2>1, <2>2, <2>3
<1>3. CASE n = 4
  <2>1. W(4) = B * B * B * B
    BY DEF W
  <2>2. W(4) = 2 * (h * B * B * B) /\ h * B * B * B \in Nat \ {0}
    BY <2>1, <1>h, <1>b
  <2>3. W(4) % 2 = 0 /\ W(4) \in Nat \ {0} /\ W(4) = 1 * W(4)
    BY <2>2
  <2> QED
    BY <1>3, <2>3
<1> QED
  BY <1>1, <1>2, <1>3

----------------------------------------------------------------------------
(* Sums and differences, as the core computes them in 32 bits *)

\* Bytes and words have room above them for the carry and the borrow.
LEMMA Carried ==
    ASSUME NEW n \in {1, 2}, NEW x \in Int, -W(n) <= x, x < 2 * W(n)
    PROVE  LET r == U32(x)
           IN /\ r \in Int
              /\ CarryOut(n, r) <=> x \notin 0 .. W(n) - 1
              /\ r % W(n) = IF x < 0 THEN x + W(n) ELSE IF x >= W(n) THEN x - W(n) ELSE x
<1>1. PICK w \in Nat \ {0} : w = W(n)
  BY Widths
<1>2. PICK d \in Nat \ {0} : d = W(4)
  BY Widths
<1>3. PICK k \in Nat \ {0} : d = k * w /\ k % 2 = 0
  BY <1>1, <1>2, Widths
<1>4. -w <= x /\ x < 2 * w
  BY <1>1
<1>5. d \in Nat
  BY <1>2
<1>8. /\ x % d \in 0 .. d - 1
      /\ ((x % d) \div w) % 2 = 1 <=> x \notin 0 .. w - 1
      /\ (x % d) % w = IF x < 0 THEN x + w ELSE IF x >= w THEN x - w ELSE x
  <2>3. k >= 2 /\ k - 1 \in Int /\ (k - 1) % 2 = 1
    BY <1>3
  <2>4. d \in Nat \ {0} /\ 2 * w <= d /\ (k - 1) * w = d - w /\ 1 * w = w
    BY <1>3, <2>3
  <2>5. CASE x < 0
    <3>0. -d <= x /\ d \in Nat
      BY <1>4, <2>4, <2>5
    <3>1. x % d = x + d
      BY <2>5, <3>0, Below
    <3>2. x + w \in 0 .. w - 1 /\ x % d = (k - 1) * w + (x + w)
      BY <1>4, <2>4, <2>5, <3>1
    <3>3. (x % d) \div w = k - 1 /\ (x % d) % w = x + w
      BY <2>3, <3>2, Whole
    <3>4. x + d \in 0 .. d - 1
      BY <1>4, <2>4, <2>5
    <3> QED
      BY <2>3, <2>5, <3>1, <3>3, <3>4
  <2>6. CASE x >= w
    <3>1. x \in 0 .. d - 1 /\ x % d = x
      BY <1>4, <2>4, <2>6, Small
    <3>2. x - w \in 0 .. w - 1 /\ x = 1 * w + (x - w)
      BY <1>4, <2>4, <2>6
    <3>3. x \div w = 1 /\ x % w = x - w
      BY <1>4, <3>2, Whole
    <3> QED
      BY <1>4, <2>4, <2>6, <3>1, <3>3
  <2>7. CASE x \in 0 .. w - 1
    <3>1. x \in 0 .. d - 1 /\ x % d = x
      BY <1>4, <2>4, <2>7, Small
    <3>2. x \div w = 0 /\ x % w = x
      BY <1>4, <2>4, <2>7, Small
    <3> QED
      BY <1>4, <2>7, <3>1, <3>2
  <2> QED
    BY <1>4, <2>5, <2>6, <2>7
<1>9. U32(x) = x % d /\ U32(U32(x)) = U32(x)
  BY <1>2, <1>5, <1>8, Small DEF U32
<1>10. U32(x) \in Int
  BY <1>8, <1>9
<1>11. CarryOut(n, U32(x)) <=> x \notin 0 .. w - 1
  BY <1>1, <1>8, <1>9 DEF CarryOut
<1> QED
  BY <1>1, <1>8, <1>9, <1>10, <1>11

\* A dword has none: SetCF32 tests bit 32 of a uint32_t.
LEMMA NoRoom == ASSUME NEW x \in Int PROVE ~CarryOut(4, U32(x))
<1>1. W(4) \in Nat \ {0}
  BY Widths
<1>2. U32(x) \in 0 .. W(4) - 1
  BY <1>1 DEF U32
<1>3. U32(U32(x)) \div W(4) = 0
  BY <1>1, <1>2, Small DEF U32
<1> QED
  BY <1>3 DEF CarryOut

LEMMA Difference ==
    ASSUME NEW n \in {1, 2, 4}, NEW a \in 0 .. W(n) - 1, NEW b \in 0 .. W(n) - 1
    PROVE  LET r == U32(a - b)
           IN /\ r \in Int
              /\ r % W(n) = IF a < b THEN a - b + W(n) ELSE a - b
              /\ n # 4 => (CarryOut(n, r) <=> a < b)
              /\ n = 4 => ~CarryOut(n, r)
<1>1. W(n) \in Nat \ {0}
  BY Widths
<1>2. a - b \in Int /\ -W(n) <= a - b /\ a - b < W(n)
  BY <1>1
<1>3. CASE n # 4
  BY <1>1, <1>2, <1>3, Carried
<1>4. CASE n = 4
  <2>1. U32(a - b) = (IF a < b THEN a - b + W(4) ELSE a - b) /\ U32(a - b) \in 0 .. W(4) - 1
    BY <1>1, <1>2, <1>4, Below, Small DEF U32
  <2>2. U32(a - b) % W(4) = U32(a - b)
    BY <1>1, <1>4, <2>1, Small
  <2> QED
    BY <1>2, <1>4, <2>1, <2>2, NoRoom
<1> QED
  BY <1>3, <1>4

----------------------------------------------------------------------------
(* The flags *)

LEMMA ArithmeticFlags ==
    ASSUME NEW op \in {"ADC", "SBB", "CMP"},
           NEW n, NEW a, NEW b, NEW r, NEW flags
    PROVE  LET f == AluFlags(op, n, a, b, r, flags)
           IN /\ "CF" \in f <=> CarryOut(n, r)
              /\ "ZF" \in f <=> r % W(n) = 0
              /\ "SF" \in f <=> Sign(n, r)
              /\ "OF" \in f <=> AluOverflow(op, n, a, b, r)
BY SMTT(30) DEF AluFlags, ResultFlags, SetTo

\* The sign of a difference is wrong exactly when it overflows.
LEMMA SignedLess ==
    ASSUME NEW n \in {1, 2, 4}, NEW a \in 0 .. W(n) - 1, NEW b \in 0 .. W(n) - 1,
           NEW r \in Int, r % W(n) = IF a < b THEN a - b + W(n) ELSE a - b
    PROVE  ~(Sign(n, r) <=> SubOverflow(n, a, b, r)) <=> SX(n, a) < SX(n, b)
<1> DEFINE w == W(n)
<1>1. w \in Nat \ {0} /\ w % 2 = 0
  BY Widths
<1>2. a % w = a /\ b % w = b
  BY <1>1, Small
<1>3. /\ Sign(n, a) <=> 2 * a >= w
      /\ Sign(n, b) <=> 2 * b >= w
      /\ Sign(n, r) <=> 2 * (r % w) >= w
  BY <1>2 DEF Sign
<1>4. /\ SX(n, a) = IF 2 * a < w THEN a ELSE a - w
      /\ SX(n, b) = IF 2 * b < w THEN b ELSE b - w
  BY <1>2 DEF SX
<1>5. SubOverflow(n, a, b, r) <=> (Sign(n, r) <=> Sign(n, b)) /\ ~(Sign(n, a) <=> Sign(n, r))
  BY DEF SubOverflow
<1> HIDE DEF w
<1>7. r % w = IF a < b THEN a - b + w ELSE a - b
  BY DEF w
<1> DEFINE sa == 2 * a >= w
           sb == 2 * b >= w
           sr == 2 * (r % w) >= w
<1>8. ~(sr <=> ((sr <=> sb) /\ ~(sa <=> sr))) <=> SX(n, a) < SX(n, b)
  BY <1>1, <1>4, <1>7, a \in Int, b \in Int, a >= 0, b >= 0, a < w, b < w DEF w
<1> QED
  BY <1>3, <1>5, <1>8 DEF w

----------------------------------------------------------------------------
(* The conditions of jumps after CMP *)

\* After CMP of two numbers of n bytes, JE is taken for equal numbers, JL and
\* JLE for signed and JB and JBE for unsigned relations, for every number and
\* every width, but that a comparison of dwords never sets the carry that JB
\* and JBE look at: SetCF32 (i386.h:1111) tests bit 32 of a uint32_t.
THEOREM ComparisonsTell ==
    ASSUME NEW n \in {1, 2, 4}, NEW a \in 0 .. W(n) - 1, NEW b \in 0 .. W(n) - 1,
           NEW carry, NEW flags, NEW countZero
    PROVE  LET f == AluFlags("CMP", n, a, b, AluResult("CMP", a, b, carry), flags)
           IN /\ Holds(4, f, countZero) <=> a = b
              /\ Holds(12, f, countZero) <=> SX(n, a) < SX(n, b)
              /\ Holds(14, f, countZero) <=> SX(n, a) <= SX(n, b)
              /\ n # 4 => /\ Holds(2, f, countZero) <=> a < b
                          /\ Holds(6, f, countZero) <=> a <= b
              /\ n = 4 => "CF" \notin f
<1> DEFINE r == U32(a - b)
           f == AluFlags("CMP", n, a, b, r, flags)
<1>1. AluResult("CMP", a, b, carry) = r
  BY DEF AluResult
<1>2. /\ "CF" \in f <=> CarryOut(n, r)
      /\ "ZF" \in f <=> r % W(n) = 0
      /\ "SF" \in f <=> Sign(n, r)
      /\ "OF" \in f <=> SubOverflow(n, a, b, r)
  BY ArithmeticFlags DEF AluOverflow
<1>3. /\ r \in Int
      /\ r % W(n) = IF a < b THEN a - b + W(n) ELSE a - b
      /\ n # 4 => (CarryOut(n, r) <=> a < b)
      /\ n = 4 => ~CarryOut(n, r)
  BY Difference
<1>4. W(n) \in Nat \ {0} /\ W(n) % 2 = 0
  BY Widths
<1> HIDE DEF r, f
<1>5. r % W(n) = 0 <=> a = b
  BY <1>3, <1>4
<1>6. ~(Sign(n, r) <=> SubOverflow(n, a, b, r)) <=> SX(n, a) < SX(n, b)
  BY <1>3, SignedLess
<1>7. a = b \/ SX(n, a) < SX(n, b) <=> SX(n, a) <= SX(n, b)
  <2>1. a % W(n) = a /\ b % W(n) = b
    BY <1>4, Small
  <2> QED
    BY <1>4, <2>1 DEF SX
<1>8. /\ Holds(4, f, countZero) <=> "ZF" \in f
      /\ Holds(12, f, countZero) <=> ~("SF" \in f <=> "OF" \in f)
      /\ Holds(14, f, countZero) <=> "ZF" \in f \/ ~("SF" \in f <=> "OF" \in f)
      /\ Holds(2, f, countZero) <=> "CF" \in f
      /\ Holds(6, f, countZero) <=> "CF" \in f \/ "ZF" \in f
  BY DEF Holds
<1> QED
  BY <1>1, <1>2, <1>3, <1>4, <1>5, <1>6, <1>7, <1>8 DEF f

----------------------------------------------------------------------------
(* Numbers longer than the CPU's *)

\* ADC and SBB of bytes and words keep the whole sum or difference: what does
\* not go into the result is in the carry, for every carry they begin with.
\* The rounds of a sum of any length so add up (do_alu_op, run386.c:348-367).
THEOREM CarryIsExact ==
    ASSUME NEW n \in {1, 2}, NEW a \in 0 .. W(n) - 1, NEW b \in 0 .. W(n) - 1,
           NEW carry \in {0, 1}, NEW flags
    PROVE  LET sum == AluResult("ADC", a, b, carry)
               difference == AluResult("SBB", a, b, carry)
               Left(op, r) == IF "CF" \in AluFlags(op, n, a, b, r, flags) THEN W(n) ELSE 0
           IN /\ (sum % W(n)) + Left("ADC", sum) = a + b + carry
              /\ (difference % W(n)) - Left("SBB", difference) = a - b - carry
<1> DEFINE sum == U32(carry + a + b)
           difference == U32(a - b - carry)
<1>1. AluResult("ADC", a, b, carry) = sum /\ AluResult("SBB", a, b, carry) = difference
  BY DEF AluResult
<1>2. W(n) \in Nat \ {0}
  BY Widths
<1>3. /\ "CF" \in AluFlags("ADC", n, a, b, sum, flags) <=> CarryOut(n, sum)
      /\ "CF" \in AluFlags("SBB", n, a, b, difference, flags) <=> CarryOut(n, difference)
  BY ArithmeticFlags
<1>4. /\ carry + a + b \in Int /\ -W(n) <= carry + a + b /\ carry + a + b < 2 * W(n)
      /\ a - b - carry \in Int /\ -W(n) <= a - b - carry /\ a - b - carry < 2 * W(n)
  BY <1>2
<1>5. /\ CarryOut(n, sum) <=> carry + a + b >= W(n)
      /\ sum % W(n) = IF carry + a + b >= W(n) THEN carry + a + b - W(n) ELSE carry + a + b
  BY <1>2, <1>4, Carried
<1>6. /\ CarryOut(n, difference) <=> a - b - carry < 0
      /\ difference % W(n) = IF a - b - carry < 0 THEN a - b - carry + W(n) ELSE a - b - carry
  BY <1>2, <1>4, Carried
<1> HIDE DEF sum, difference
<1> QED
  BY <1>1, <1>2, <1>3, <1>5, <1>6

----------------------------------------------------------------------------
(* Sums of functions *)

\* The least number without a property has it fail where all before have it.
LEMMA LeastOne ==
    ASSUME NEW P, \A k \in Nat : (\A i \in 0 .. k - 1 : i \in P) => k \in P
    PROVE  Nat \subseteq P
<1>. DEFINE Q == Nat \ P
<1>. SUFFICES ASSUME Q # {} PROVE FALSE
    OBVIOUS
<1>1. Min(Q) \in Q /\ \A y \in Q : Min(Q) <= y
    BY MinElement, Zenon
<1>. DEFINE k == Min(Q)
<1>2. k \in Nat /\ k \notin P
    BY <1>1
<1>. HIDE DEF k
<1>3. \A i \in 0 .. k - 1 : i \in P
    <2>. SUFFICES ASSUME NEW i \in 0 .. k - 1, i \notin P PROVE FALSE
        OBVIOUS
    <2>1. i \in Q /\ i < k
        BY <1>2
    <2>. QED BY <1>1, <1>2, <2>1 DEF k
<1>. QED BY <1>2, <1>3

\* A sum of natural numbers is one, by induction over the sets summed up to a size.
LEMMA SumIsNat ==
    ASSUME NEW S, IsFiniteSet(S), NEW t \in [S -> Nat]
    PROVE  SumFunction(t) \in Nat
<1>. DEFINE pick(s) == CHOOSE x \in s : TRUE
            Sum(g, s) == IF s = {} THEN 0 ELSE t[pick(s)] + g[s \ {pick(s)}]
            UpTo(k) == {s \in SUBSET S : Cardinality(s) <= k}
            G == {k \in Nat : \E g \in [UpTo(k) -> Nat] : \A s \in UpTo(k) : g[s] = Sum(g, s)}
<1>1. \A s \in SUBSET S : IsFiniteSet(s) /\ Cardinality(s) \in Nat
    BY FS_Subset, FS_CardinalityType
<1>2. ASSUME NEW s \in SUBSET S, s # {}
      PROVE  /\ pick(s) \in s /\ s \ {pick(s)} \in SUBSET S
             /\ Cardinality(s \ {pick(s)}) = Cardinality(s) - 1
    <2>1. pick(s) \in s
        BY <1>2
    <2>2. Cardinality(s \ {pick(s)}) = Cardinality(s) - 1
        BY <1>1, <2>1, FS_RemoveElement
    <2>. QED BY <2>1, <2>2
<1>3. Nat \subseteq G
    <2>1. ASSUME NEW k \in Nat, \A i \in 0 .. k - 1 : i \in G
          PROVE  k \in G
        <3>1. CASE k = 0
            <4>1. \A s \in UpTo(0) : s = {}
                <5>. SUFFICES ASSUME NEW s \in SUBSET S, Cardinality(s) <= 0 PROVE s = {}
                    OBVIOUS
                <5>1. Cardinality(s) = 0 /\ IsFiniteSet(s)
                    BY <1>1
                <5>. QED BY <5>1, FS_EmptySet
            <4>. DEFINE g == [s \in UpTo(0) |-> 0]
            <4>2. g \in [UpTo(0) -> Nat]
                OBVIOUS
            <4>3. \A s \in UpTo(0) : g[s] = Sum(g, s)
                BY <4>1
            <4>. HIDE DEF g
            <4>. QED BY <3>1, <4>2, <4>3
        <3>2. CASE k > 0
            <4>1. k - 1 \in G /\ k - 1 \in Nat
                <5>1. k - 1 \in 0 .. k - 1 /\ k - 1 \in Nat
                    BY <3>2
                <5>. HIDE DEF G
                <5>. QED BY <2>1, <5>1
            <4>2. PICK g \in [UpTo(k - 1) -> Nat] : \A s \in UpTo(k - 1) : g[s] = Sum(g, s)
                BY <4>1
            <4>. DEFINE h == [s \in UpTo(k) |-> Sum(g, s)]
            <4>3. ASSUME NEW s \in UpTo(k), s # {}
                  PROVE  s \ {pick(s)} \in UpTo(k - 1) /\ s \ {pick(s)} \in UpTo(k) /\ pick(s) \in S
                <5>1. s \in SUBSET S /\ Cardinality(s) <= k /\ Cardinality(s) \in Nat
                    BY <1>1
                <5>2. /\ pick(s) \in s /\ s \ {pick(s)} \in SUBSET S
                      /\ Cardinality(s \ {pick(s)}) = Cardinality(s) - 1
                    BY <1>2, <4>3, <5>1
                <5>. HIDE DEF pick
                <5>. QED BY <5>1, <5>2
            <4>4. \A s \in UpTo(k) : Sum(g, s) \in Nat
                <5>. SUFFICES ASSUME NEW s \in UpTo(k), s # {} PROVE Sum(g, s) \in Nat
                    OBVIOUS
                <5>1. s \ {pick(s)} \in UpTo(k - 1) /\ pick(s) \in S
                    BY <4>3
                <5>2. g[s \ {pick(s)}] \in Nat /\ t[pick(s)] \in Nat
                    <6>. HIDE DEF pick, UpTo
                    <6>. QED BY <5>1
                <5>. HIDE DEF pick
                <5>. QED BY <5>2
            <4>5. h \in [UpTo(k) -> Nat]
                <5>. HIDE DEF Sum, UpTo
                <5>. QED BY <4>4
            <4>6. \A s \in UpTo(k - 1) : s \in UpTo(k) /\ h[s] = g[s]
                <5>1. \A s \in UpTo(k - 1) : s \in UpTo(k)
                    BY <1>1
                <5>. HIDE DEF Sum, UpTo
                <5>. QED BY <4>2, <5>1
            <4>7. \A s \in UpTo(k) : h[s] = Sum(h, s)
                <5>. SUFFICES ASSUME NEW s \in UpTo(k) PROVE h[s] = Sum(h, s)
                    OBVIOUS
                <5>1. h[s] = Sum(g, s)
                    <6>. HIDE DEF Sum, UpTo
                    <6>. QED OBVIOUS
                <5>2. s # {} => h[s \ {pick(s)}] = g[s \ {pick(s)}]
                    <6>. HIDE DEF h, pick, UpTo
                    <6>. QED BY <4>3, <4>6
                <5>. HIDE DEF h, pick
                <5>. QED BY <5>1, <5>2
            <4>. HIDE DEF h, Sum, UpTo
            <4>. QED BY <4>5, <4>7
        <3>. HIDE DEF G
        <3>. QED BY <3>1, <3>2
    <2>. HIDE DEF G
    <2>. QED BY <2>1, LeastOne
<1>4. UpTo(Cardinality(S)) = SUBSET S
    <2>1. \A s \in SUBSET S : Cardinality(s) <= Cardinality(S)
        BY FS_Subset
    <2>. QED BY <2>1
<1>5. PICK g \in [SUBSET S -> Nat] : \A s \in SUBSET S : g[s] = Sum(g, s)
    <2>1. Cardinality(S) \in G
        BY <1>1, <1>3
    <2>. HIDE DEF UpTo, Sum
    <2>. QED BY <1>4, <2>1
<1>. DEFINE iter == CHOOSE f : f = [s \in SUBSET S |-> Sum(f, s)]
<1>6. iter = [s \in SUBSET S |-> Sum(iter, s)]
    <2>1. g = [s \in SUBSET S |-> Sum(g, s)]
        <3>. HIDE DEF Sum
        <3>. QED BY <1>5
    <2>. HIDE DEF Sum
    <2>. QED BY <2>1, Zenon
<1>7. SumFunction(t) = iter[S]
    <2>1. DOMAIN t = S
        OBVIOUS
    <2>. QED BY <2>1, Zenon DEF SumFunction, SumFunctionOnSet, FoldFunctionOnSet, MapThenFoldSet
<1>. DEFINE H == {k \in Nat : \A s \in SUBSET S : Cardinality(s) = k => iter[s] = g[s]}
<1>8. Nat \subseteq H
    <2>. HIDE DEF iter
    <2>1. ASSUME NEW k \in Nat, \A i \in 0 .. k - 1 : i \in H
          PROVE  k \in H
        <3>. SUFFICES ASSUME NEW s \in SUBSET S, Cardinality(s) = k PROVE iter[s] = g[s]
            OBVIOUS
        <3>1. iter[s] = Sum(iter, s) /\ g[s] = Sum(g, s)
            <4>. HIDE DEF Sum
            <4>. QED BY <1>5, <1>6
        <3>2. CASE s = {}
            BY <3>1, <3>2
        <3>3. CASE s # {}
            <4>1. s \ {pick(s)} \in SUBSET S /\ Cardinality(s \ {pick(s)}) = k - 1
                BY <1>2, <3>3
            <4>2. k - 1 \in 0 .. k - 1
                <5>1. Cardinality(s \ {pick(s)}) \in Nat
                    BY <1>1, <4>1
                <5>. HIDE DEF pick
                <5>. QED BY <4>1, <5>1
            <4>3. iter[s \ {pick(s)}] = g[s \ {pick(s)}]
                <5>1. k - 1 \in H
                    BY <2>1, <4>2
                <5>. HIDE DEF pick
                <5>. QED BY <4>1, <5>1
            <4>. HIDE DEF pick
            <4>. QED BY <3>1, <3>3, <4>3
        <3>. QED BY <3>2, <3>3
    <2>. HIDE DEF H
    <2>. QED BY <2>1, LeastOne
<1>9. iter[S] = g[S]
    <2>1. Cardinality(S) \in Nat /\ S \in SUBSET S
        BY <1>1
    <2>. HIDE DEF iter
    <2>. QED BY <1>8, <2>1
<1>. HIDE DEF iter
<1>. QED BY <1>5, <1>7, <1>9

----------------------------------------------------------------------------
(* Bytes *)

\* The numbers of one to eight bytes.
LEMMA Positive == ASSUME NEW n \in {0, 1, 2, 3, 4, 8} PROVE W(n) \in Nat \ {0}
<1>. DEFINE B == Byte
<1>1. B \in Nat /\ B >= 2
    BY ByteAssumption
<1>. HIDE DEF B
<1>2. B * B \in Nat \ {0}
    BY <1>1
<1>3. B * B * B \in Nat \ {0}
    BY <1>1, <1>2
<1>4. B * B * B * B \in Nat \ {0}
    BY <1>1, <1>3
<1>5. \A x \in Nat \ {0} : x * x \in Nat \ {0}
    OBVIOUS
<1>6. W(8) = (B * B * B * B) * (B * B * B * B) /\ W(8) \in Nat \ {0}
    BY <1>4, <1>5 DEF W, B
<1>. QED BY <1>1, <1>2, <1>3, <1>4, <1>6 DEF W, B

\* A number in two parts.
LEMMA Pair ==
    ASSUME NEW a \in Nat \ {0}, NEW c \in Nat \ {0}, NEW x \in 0 .. a - 1, NEW y \in 0 .. c - 1
    PROVE  x + y * a \in 0 .. c * a - 1
<1>1. y * a \in Nat /\ y * a <= (c - 1) * a
    OBVIOUS
<1>2. (c - 1) * a = c * a - a /\ c * a \in Nat
    OBVIOUS
<1>. QED BY <1>1, <1>2

\* The lower part of a number is replaced.
LEMMA Replaced ==
    ASSUME NEW a \in Nat \ {0}, NEW c \in Nat \ {0}, NEW x \in 0 .. c * a - 1, NEW v \in 0 .. a - 1
    PROVE  x - (x % a) + v \in 0 .. c * a - 1
<1>. DEFINE q == x \div a
<1>1. q \in Nat /\ x = q * a + (x % a) /\ x % a \in 0 .. a - 1
    OBVIOUS
<1>. HIDE DEF q
<1>2. q <= c - 1
    <2>. SUFFICES ASSUME q >= c PROVE FALSE
        BY <1>1
    <2>1. q * a >= c * a
        BY <1>1
    <2>. QED BY <1>1, <2>1
<1>3. v + q * a \in 0 .. c * a - 1
    BY <1>1, <1>2, Pair
<1>. QED BY <1>1, <1>3

\* A wide number is its bytes.
LEMMA Split ==
    ASSUME NEW a \in Nat \ {0}, NEW x \in Nat
    PROVE  x \div a \in Nat /\ x = (x \div a) * a + (x % a) /\ x % a \in 0 .. a - 1
OBVIOUS

\* A number cut to n bytes.
LEMMA CutBelow == ASSUME NEW n \in {1, 2, 4}, NEW v \in Int PROVE v % W(n) \in 0 .. W(n) - 1
BY Positive

\* A register holds what is written to one of its bytes, its half or the whole.
LEMMA BytesOfWide ==
    /\ W(0) = 1 /\ W(1) = Byte /\ W(2) = Byte * W(1) /\ W(3) = Byte * W(2) /\ W(4) = Byte * W(3)
    /\ W(2) = W(1) * W(1) /\ W(4) = W(2) * W(2) /\ W(3) = W(2) * W(1)
<1>1. Byte \in Nat
    BY ByteAssumption
<1>. QED BY <1>1 DEF W

\* No width is more than four bytes.
LEMMA BelowWide == ASSUME NEW n \in {1, 2, 4} PROVE W(n) <= W(4)
<1>1. \E k \in Nat \ {0} : W(4) = k * W(n) /\ W(n) \in Nat \ {0}
    BY Widths
<1>. QED BY <1>1

\* A register with some of its bytes written is a register.
LEMMA Written ==
    ASSUME NEW n \in {1, 2, 4}, NEW low \in {1, Byte}, n # 1 => low = 1,
           NEW old \in 0 .. W(4) - 1, NEW v \in Int
    PROVE  old + ((v % W(n)) - ((old \div low) % W(n))) * low \in 0 .. W(4) - 1
<1>1. v % W(n) \in 0 .. W(n) - 1 /\ W(n) \in Nat \ {0} /\ W(4) \in Nat \ {0}
    BY CutBelow, Positive
<1>2. CASE low = 1
    <2>1. PICK k \in Nat \ {0} : W(4) = k * W(n)
        BY Widths
    <2>2. old - (old % W(n)) + (v % W(n)) \in 0 .. W(4) - 1
        BY <1>1, <2>1, Replaced
    <2>3. old \div low = old
        BY <1>2
    <2>4. old % W(n) \in Int
        BY <1>1
    <2>. QED BY <1>1, <1>2, <2>2, <2>3, <2>4
<1>3. CASE low = Byte /\ n = 1
    <2>. DEFINE a == W(1)
                d == W(3)
                q == old \div a
                x == v % a
    <2>1. a = Byte /\ a \in Nat \ {0} /\ d \in Nat \ {0} /\ W(2) \in Nat \ {0} /\ W(4) = d * a /\ d = W(2) * a
        BY Positive, BytesOfWide
    <2>2. q \in Nat /\ old = q * a + (old % a) /\ old % a \in 0 .. a - 1
        BY <2>1, Split, old \in Nat
    <2>3. x \in 0 .. a - 1
        BY <1>1, <1>3
    <2>. HIDE DEF a, d, q, x
    <2>4. q \in 0 .. d - 1
        <3>. SUFFICES ASSUME q >= d PROVE FALSE
            BY <2>1, <2>2
        <3>1. q * a >= d * a
            BY <2>1, <2>2
        <3>. QED BY <2>1, <2>2, <3>1
    <2>. DEFINE p == q - (q % a) + x
    <2>5. p \in 0 .. d - 1
        BY <2>1, <2>3, <2>4, Replaced
    <2>6. (old % a) + p * a \in 0 .. d * a - 1
        BY <2>1, <2>2, <2>5, Pair
    <2>7. q % a \in Int
        BY <2>1, <2>2
    <2>8. old + (x - (q % a)) * a = (old % a) + p * a
        BY <2>1, <2>2, <2>3, <2>7
    <2>. QED BY <1>3, <2>1, <2>6, <2>8 DEF q, x, a
<1>. QED BY <1>2, <1>3

----------------------------------------------------------------------------
(* Machines *)

\* The numbers of n bytes.
Number(n) == 0 .. W(n) - 1

\* A machine in real mode.
Machine ==
    [regs : [0 .. 7 -> Number(4)], flags : SUBSET Flags, eip : Number(4), old_eip : Number(4),
     segs : [0 .. 7 -> [selector : Number(2), base : Nat]],
     mem : [0 .. MemSize - 1 -> 0 .. Byte - 1], screen : Seq(0 .. Byte - 1),
     status : {"runs", "hangs", "faults", "exits"}]

\* The bases that load_seg_reg gives segments.
RealMode(s) == \A sr \in 0 .. 7 : s.segs[sr].base = 16 * s.segs[sr].selector

\* What every handler is given, and what it gives back.
Good(s) == s \in Machine /\ RealMode(s)

\* Changes to one part of the machine.
LEMMA RegGood ==
    ASSUME NEW s, Good(s), NEW r \in 0 .. 7, NEW v \in Number(4)
    PROVE  Good([s EXCEPT !.regs[r] = v])
BY DEF Good, Machine, RealMode

LEMMA FlagsGood ==
    ASSUME NEW s, Good(s), NEW f \in SUBSET Flags
    PROVE  Good([s EXCEPT !.flags = f])
BY DEF Good, Machine, RealMode

LEMMA EipGood ==
    ASSUME NEW s, Good(s), NEW e \in Number(4)
    PROVE  Good([s EXCEPT !.eip = e])
BY DEF Good, Machine, RealMode

LEMMA NextGood ==
    ASSUME NEW s, Good(s), NEW e \in Number(4)
    PROVE  Good([s EXCEPT !.eip = e, !.old_eip = e])
BY DEF Good, Machine, RealMode

LEMMA StatusGood ==
    ASSUME NEW s, Good(s), NEW x \in {"runs", "hangs", "faults", "exits"}
    PROVE  Good([s EXCEPT !.status = x])
BY DEF Good, Machine, RealMode

LEMMA HangGood == ASSUME NEW s, Good(s) PROVE Good(Hang(s))
BY StatusGood DEF Hang

LEMMA ScreenGood ==
    ASSUME NEW s, Good(s), NEW x \in Seq(0 .. Byte - 1)
    PROVE  Good([s EXCEPT !.screen = x])
BY DEF Good, Machine, RealMode

LEMMA MemGood ==
    ASSUME NEW s, Good(s), NEW x \in [0 .. MemSize - 1 -> 0 .. Byte - 1]
    PROVE  Good([s EXCEPT !.mem = x])
BY DEF Good, Machine, RealMode

LEMMA SegmentGood ==
    ASSUME NEW s, Good(s), NEW r \in 0 .. 7, NEW x \in Number(2)
    PROVE  Good([[s EXCEPT !.segs[r].selector = x] EXCEPT !.segs[r].base = x * 16])
<1>1. x \in Nat /\ x * 16 = 16 * x /\ x * 16 \in Nat
    BY Positive DEF Number
<1>. DEFINE y == x * 16
            t == [s EXCEPT !.segs[r].selector = x]
            u == [t EXCEPT !.segs[r].base = y]
<1>2. y \in Nat /\ y = 16 * x
    BY <1>1
<1>. HIDE DEF y
<1>3. /\ t \in Machine
      /\ t.segs[r].selector = x
      /\ \A sr \in 0 .. 7 \ {r} : t.segs[sr] = s.segs[sr]
    BY DEF Good, Machine
<1>. HIDE DEF t
<1>4. /\ u \in Machine
      /\ u.segs[r].selector = t.segs[r].selector /\ u.segs[r].base = y
      /\ \A sr \in 0 .. 7 \ {r} : u.segs[sr] = t.segs[sr]
    BY <1>2, <1>3 DEF Machine
<1>. HIDE DEF u
<1>5. RealMode(u)
    BY <1>2, <1>3, <1>4 DEF Good, RealMode
<1>. QED BY <1>4, <1>5 DEF Good, t, u, y

\* The parts of the machine.
LEMMA GoodTypes ==
    ASSUME NEW s, Good(s)
    PROVE  /\ s.regs \in [0 .. 7 -> Number(4)] /\ s.flags \subseteq Flags
           /\ s.eip \in Number(4) /\ s.old_eip \in Number(4)
           /\ \A sr \in 0 .. 7 : s.segs[sr].selector \in Number(2) /\ s.segs[sr].base \in Nat
           /\ s.mem \in [0 .. MemSize - 1 -> 0 .. Byte - 1]
           /\ s.screen \in Seq(0 .. Byte - 1)
           /\ s.status \in {"runs", "hangs", "faults", "exits"}
BY DEF Good, Machine

\* Numbers of n bytes.
LEMMA NumberType ==
    /\ \A n \in {0, 1, 2, 3, 4, 8} : Number(n) \subseteq Nat /\ 0 \in Number(n)
    /\ Number(1) = 0 .. Byte - 1
    /\ \A n \in {1, 2, 4} : Number(n) \subseteq Number(4)
<1>1. \A n \in {0, 1, 2, 3, 4, 8} : W(n) \in Nat \ {0}
    BY Positive
<1>2. W(1) = Byte
    BY DEF W
<1>3. ASSUME NEW n \in {1, 2, 4} PROVE W(n) <= W(4)
    BY BelowWide
<1>4. \A n \in {1, 2, 4} : W(n) \in Nat /\ W(4) \in Nat
    BY <1>1
<1>5. \A n \in {1, 2, 4} : Number(n) \subseteq Number(4)
    BY <1>3, <1>4 DEF Number
<1>. QED BY <1>1, <1>2, <1>5 DEF Number

LEMMA Cut == ASSUME NEW n \in {1, 2, 4}, NEW v \in Int PROVE v % W(n) \in Number(n)
BY CutBelow DEF Number

LEMMA U32Type == ASSUME NEW v \in Int PROVE U32(v) \in Number(4)
BY Cut DEF U32

LEMMA SXType == ASSUME NEW n \in {1, 2, 4, 8}, NEW v \in Int PROVE SX(n, v) \in Int
BY Positive DEF SX

\* Registers and their bytes.
LEMMA GetRegType ==
    ASSUME NEW s, Good(s), NEW n \in {1, 2, 4}, NEW r \in 0 .. 7
    PROVE  GetReg(s, n, r) \in Number(n)
<1>1. \A i \in 0 .. 7 : s.regs[i] \in Nat
    BY GoodTypes, NumberType
<1>2. CASE n = 1
    <2>1. r % 4 \in 0 .. 7 /\ r \div 4 \in {0, 1}
        OBVIOUS
    <2>2. s.regs[r % 4] \div W(r \div 4) \in Int
        <3>1. s.regs[r % 4] \in Nat /\ W(r \div 4) \in Nat \ {0}
            BY <1>1, <2>1, Positive
        <3>. QED BY <3>1, Split
    <2>3. (s.regs[r % 4] \div W(r \div 4)) % W(1) \in Number(1)
        BY <2>2, Cut
    <2>. QED BY <1>2, <2>3 DEF GetReg, W
<1>3. CASE n # 1
    BY <1>1, <1>3, Cut DEF GetReg
<1>. QED BY <1>2, <1>3

LEMMA SetRegGood ==
    ASSUME NEW s, Good(s), NEW n \in {1, 2, 4}, NEW r \in 0 .. 7, NEW v \in Int
    PROVE  Good(SetReg(s, n, r, v))
<1>. DEFINE x == IF n = 1 THEN r % 4 ELSE r
            low == IF n = 1 THEN W(r \div 4) ELSE 1
            old == s.regs[x]
            new == old + ((v % W(n)) - ((old \div low) % W(n))) * low
<1>1. x \in 0 .. 7
    OBVIOUS
<1>2. low \in {1, Byte} /\ (n # 1 => low = 1)
    <2>1. r \div 4 \in {0, 1}
        OBVIOUS
    <2>. QED BY <2>1 DEF W
<1>3. old \in 0 .. W(4) - 1
    BY <1>1, GoodTypes DEF Number
<1>4. SetReg(s, n, r, v) = [s EXCEPT !.regs[x] = new]
    BY Zenon DEF SetReg
<1>. HIDE DEF x, low, old
<1>5. new \in Number(4)
    BY <1>2, <1>3, Written DEF Number
<1>. HIDE DEF new
<1>. QED BY <1>1, <1>4, <1>5, RegGood

LEMMA AddRegGood ==
    ASSUME NEW s, Good(s), NEW r \in 0 .. 7, NEW k \in Int
    PROVE  Good(AddReg(s, r, k))
<1>1. s.regs[r] \in Nat
    BY GoodTypes, NumberType
<1>2. U32(s.regs[r] + k) \in Number(4)
    BY <1>1, U32Type
<1>. QED BY <1>2, RegGood DEF AddReg

\* Memory.
LEMMA LoadType ==
    ASSUME NEW s, Good(s), NEW n \in {1, 2, 4}, NEW a \in Int
    PROVE  Load(s, n, a) \in Number(n)
<1>. DEFINE at(i) == s.mem[(a + i) % MemSize]
<1>1. ASSUME NEW i \in 0 .. 3 PROVE at(i) \in 0 .. W(1) - 1
    <2>1. MemSize \in Nat \ {0}
        BY ProgramAssumption
    <2>2. a + i \in Int
        OBVIOUS
    <2>3. (a + i) % MemSize \in 0 .. MemSize - 1
        BY <2>1, <2>2
    <2>4. s.mem \in [0 .. MemSize - 1 -> 0 .. Byte - 1] /\ W(1) = Byte
        BY GoodTypes, BytesOfWide
    <2>. QED BY <2>3, <2>4
<1>. HIDE DEF at
<1>2. CASE n = 1
    BY <1>1, <1>2 DEF Load, at, Number
<1>3. at(0) + at(1) * W(1) \in 0 .. W(2) - 1
    BY <1>1, Pair, Positive, BytesOfWide
<1>4. CASE n = 2
    BY <1>3, <1>4 DEF Load, at, Number
<1>5. CASE n = 4
    <2>1. at(0) + at(1) * W(1) + at(2) * W(2) \in 0 .. W(1) * W(2) - 1
        BY <1>1, <1>3, Pair, Positive
    <2>2. W(1) * W(2) = W(3) /\ W(1) * W(3) = W(4)
        BY BytesOfWide, Positive
    <2>. DEFINE low == at(0) + at(1) * W(1) + at(2) * W(2)
    <2>4. low \in 0 .. W(3) - 1 /\ at(3) \in 0 .. W(1) - 1
        BY <1>1, <2>1, <2>2
    <2>. HIDE DEF low
    <2>5. low + at(3) * W(3) \in 0 .. W(1) * W(3) - 1
        BY <2>4, Pair, Positive
    <2>3. at(0) + at(1) * W(1) + at(2) * W(2) + at(3) * W(3) \in 0 .. W(1) * W(3) - 1
        BY <2>5 DEF low
    <2>. QED BY <1>5, <2>2, <2>3 DEF Load, at, Number
<1>. QED BY <1>2, <1>4, <1>5

LEMMA StoreGood ==
    ASSUME NEW s, Good(s), NEW n \in {1, 2, 4}, NEW a \in Int, NEW v \in Int
    PROVE  Good(Store(s, n, a, v))
<1>. DEFINE at(x) == (x - a) % MemSize
            cell(x) == IF at(x) < n THEN (v \div W(at(x))) % Byte ELSE s.mem[x]
<1>1. DOMAIN s.mem = 0 .. MemSize - 1
    BY GoodTypes
<1>2. ASSUME NEW x \in 0 .. MemSize - 1 PROVE cell(x) \in 0 .. Byte - 1
    <2>1. MemSize \in Nat \ {0}
        BY ProgramAssumption
    <2>2. at(x) \in Nat
        BY <2>1
    <2>. HIDE DEF at
    <2>3. CASE at(x) < n
        <3>1. at(x) \in {0, 1, 2, 3}
            BY <2>2, <2>3
        <3>2. W(at(x)) \in Nat \ {0}
            BY <3>1, Positive
        <3>3. v \div W(at(x)) \in Int
            BY <3>2
        <3>4. (v \div W(at(x))) % W(1) \in Number(1)
            BY <3>3, Cut
        <3>5. (v \div W(at(x))) % Byte \in 0 .. Byte - 1
            BY <3>4, NumberType, BytesOfWide
        <3>. QED BY <2>3, <3>5
    <2>4. CASE ~(at(x) < n)
        BY <2>4, GoodTypes
    <2>. QED BY <2>3, <2>4
<1>3. Store(s, n, a, v) = [s EXCEPT !.mem = [x \in 0 .. MemSize - 1 |-> cell(x)]]
    BY <1>1, Zenon DEF Store
<1>. HIDE DEF cell
<1>. DEFINE mem == [x \in 0 .. MemSize - 1 |-> cell(x)]
<1>4. mem \in [0 .. MemSize - 1 -> 0 .. Byte - 1]
    BY <1>2
<1>. HIDE DEF mem
<1>5. Good([s EXCEPT !.mem = mem])
    BY <1>4, MemGood
<1>. QED BY <1>3, <1>5, Zenon DEF mem

\* Segments and the stack.
LEMMA BaseType == ASSUME NEW s, Good(s), NEW sr \in 0 .. 7 PROVE Base(s, sr) \in Nat
BY GoodTypes DEF Base

LEMMA StackSizes == StackSize \in {1, 2, 4} /\ StackSize \in Int /\ -StackSize \in Int
BY DEF StackSize

LEMMA PushGood == ASSUME NEW s, Good(s), NEW v \in Int PROVE Good(Push(s, v))
<1>. DEFINE t == AddReg(s, ESP, -StackSize)
<1>1. Good(t)
    BY AddRegGood, StackSizes DEF ESP
<1>2. Push(s, v) = Store(t, StackSize, Base(t, SS) + t.regs[ESP], v)
    BY DEF Push
<1>. HIDE DEF t
<1>3. Base(t, SS) \in Nat
    BY <1>1, BaseType DEF SS
<1>4. t.regs[ESP] \in Nat
    BY <1>1, GoodTypes, NumberType DEF ESP
<1>. QED BY <1>1, <1>2, <1>3, <1>4, StoreGood, StackSizes

LEMMA TopType == ASSUME NEW s, Good(s) PROVE Top(s) \in Number(4)
<1>1. Base(s, SS) \in Nat /\ s.regs[ESP] \in Nat
    BY BaseType, GoodTypes, NumberType DEF SS, ESP
<1>2. Load(s, StackSize, Base(s, SS) + s.regs[ESP]) \in Number(StackSize)
    BY <1>1, LoadType, StackSizes
<1>. QED BY <1>2, NumberType, StackSizes DEF Top

LEMMA PoppedGood == ASSUME NEW s, Good(s) PROVE Good(Popped(s))
BY AddRegGood, StackSizes DEF Popped, ESP

----------------------------------------------------------------------------
(* Operands, results and flags *)

\* A decoded operand that lies in memory, and one that is a register.
Memory(o) == o.type = "MEM" /\ o.size \in {1, 2, 4} /\ o.id \in Nat /\ o.sr \in 0 .. 7

InRegister(o) == o.type = "REGISTER" /\ o.size \in {1, 2, 4} /\ o.id \in 0 .. 7

\* A decoded operand.
OperandOK(o) ==
    \/ o.type = "NONE"
    \/ o.type = "IMM" /\ o.id \in Number(4)
    \/ InRegister(o)
    \/ Memory(o)
    \/ o.type = "SEG_REG" /\ o.id \in 0 .. 7
    \/ o.type = "EDX_EAX" /\ o.size \in {4, 8}

\* read_source and write_dest
LEMMA ReadType ==
    ASSUME NEW s, Good(s), NEW o, OperandOK(o)
    PROVE  /\ Read(s, o) \in Nat
           /\ o.type # "EDX_EAX" => Read(s, o) \in Number(4)
           /\ InRegister(o) \/ Memory(o) => Read(s, o) \in Number(o.size)
<1>0. Number(4) \subseteq Nat /\ 0 \in Number(4)
    BY NumberType
<1>1. CASE o.type = "NONE"
    BY <1>0, <1>1 DEF Read, InRegister, Memory
<1>2. CASE o.type = "IMM" /\ o.id \in Number(4)
    BY <1>0, <1>2 DEF Read, InRegister, Memory
<1>3. CASE InRegister(o)
    <2>1. o.type = "REGISTER" /\ o.size \in {1, 2, 4} /\ o.id \in 0 .. 7
        BY <1>3 DEF InRegister
    <2>2. Read(s, o) = GetReg(s, o.size, o.id)
        BY <2>1 DEF Read
    <2>3. Read(s, o) \in Number(o.size)
        BY <2>1, <2>2, GetRegType
    <2>4. Number(o.size) \subseteq Number(4)
        BY <2>1, NumberType
    <2>. QED BY <1>0, <2>3, <2>4
<1>4. CASE Memory(o)
    <2>1. o.type = "MEM" /\ o.size \in {1, 2, 4} /\ o.id \in Nat /\ o.sr \in 0 .. 7
        BY <1>4 DEF Memory
    <2>2. Read(s, o) = Load(s, o.size, Base(s, o.sr) + o.id)
        BY <2>1 DEF Read
    <2>3. Base(s, o.sr) + o.id \in Int
        BY <2>1, BaseType
    <2>4. Read(s, o) \in Number(o.size)
        BY <2>1, <2>2, <2>3, LoadType
    <2>5. Number(o.size) \subseteq Number(4)
        BY <2>1, NumberType
    <2>. QED BY <1>0, <2>4, <2>5
<1>5. CASE o.type = "SEG_REG" /\ o.id \in 0 .. 7
    <2>1. s.segs[o.id].selector \in Number(2)
        BY <1>5, GoodTypes
    <2>2. Number(2) \subseteq Number(4)
        BY NumberType
    <2>. QED BY <1>0, <1>5, <2>1, <2>2 DEF Read, InRegister, Memory
<1>6. CASE o.type = "EDX_EAX" /\ o.size \in {4, 8}
    <2>. DEFINE n == o.size \div 2
    <2>1. n \in {1, 2, 4}
        BY <1>6
    <2>2. Read(s, o) = GetReg(s, n, EDX) * W(n) + GetReg(s, n, EAX)
        BY <1>6 DEF Read
    <2>. HIDE DEF n
    <2>3. GetReg(s, n, EDX) \in Nat /\ GetReg(s, n, EAX) \in Nat /\ W(n) \in Nat
        <3>1. GetReg(s, n, EDX) \in Number(n) /\ GetReg(s, n, EAX) \in Number(n)
            BY <2>1, GetRegType DEF EDX, EAX
        <3>. QED BY <2>1, <3>1, NumberType, Positive
    <2>4. Read(s, o) \in Nat
        BY <2>2, <2>3
    <2>. QED BY <1>6, <2>4 DEF InRegister, Memory
<1>. QED BY <1>1, <1>2, <1>3, <1>4, <1>5, <1>6 DEF OperandOK

LEMMA WriteGood ==
    ASSUME NEW s, Good(s), NEW o, OperandOK(o), o.type # "SEG_REG", NEW v \in Int
    PROVE  Good(Write(s, o, v))
<1>1. CASE o.type = "NONE"
    BY <1>1 DEF Write
<1>2. CASE o.type = "IMM"
    BY <1>2, HangGood DEF Write
<1>3. CASE InRegister(o)
    <2>1. o.type = "REGISTER" /\ o.size \in {1, 2, 4} /\ o.id \in 0 .. 7
        BY <1>3 DEF InRegister
    <2>2. Write(s, o, v) = SetReg(s, o.size, o.id, v)
        BY <2>1 DEF Write
    <2>. QED BY <2>1, <2>2, SetRegGood
<1>4. CASE Memory(o)
    <2>1. o.type = "MEM" /\ o.size \in {1, 2, 4} /\ o.id \in Nat /\ o.sr \in 0 .. 7
        BY <1>4 DEF Memory
    <2>2. Write(s, o, v) = Store(s, o.size, Base(s, o.sr) + o.id, v)
        BY <2>1 DEF Write
    <2>3. Base(s, o.sr) + o.id \in Int
        BY <2>1, BaseType
    <2>. QED BY <2>1, <2>2, <2>3, StoreGood
<1>6. CASE o.type = "EDX_EAX" /\ o.size \in {4, 8}
    <2>. DEFINE n == o.size \div 2
    <2>1. n \in {1, 2, 4}
        BY <1>6
    <2>2. Write(s, o, v) = SetReg(SetReg(s, n, EDX, v \div W(n)), n, EAX, v)
        BY <1>6 DEF Write
    <2>. HIDE DEF n
    <2>3. v \div W(n) \in Int
        BY <2>1, Positive
    <2>. DEFINE high == v \div W(n)
                t == SetReg(s, n, EDX, high)
    <2>4. EDX \in 0 .. 7 /\ EAX \in 0 .. 7
        BY DEF EDX, EAX
    <2>5. high \in Int
        BY <2>3
    <2>. HIDE DEF high
    <2>6. Good(t)
        BY <2>1, <2>4, <2>5, SetRegGood
    <2>. HIDE DEF t
    <2>7. Good(SetReg(t, n, EAX, v))
        BY <2>1, <2>4, <2>6, SetRegGood
    <2>. QED BY <2>2, <2>7 DEF t, high
<1>. QED BY <1>1, <1>2, <1>3, <1>4, <1>6 DEF OperandOK

LEMMA LoadSegmentGood ==
    ASSUME NEW s, Good(s), NEW o, o.type = "SEG_REG", o.id \in 0 .. 7, NEW v \in Int
    PROVE  Good(LoadSegment(s, o, v))
<1>1. v % W(2) \in Number(2)
    BY Cut
<1>2. LoadSegment(s, o, v) =
        [[s EXCEPT !.segs[o.id].selector = v % W(2)] EXCEPT !.segs[o.id].base = (v % W(2)) * 16]
    BY DEF LoadSegment, Write
<1>. DEFINE x == v % W(2)
            r == o.id
<1>3. x \in Number(2) /\ r \in 0 .. 7
    BY <1>1
<1>. HIDE DEF x, r
<1>4. Good([[s EXCEPT !.segs[r].selector = x] EXCEPT !.segs[r].base = x * 16])
    BY <1>3, SegmentGood
<1>. QED BY <1>2, <1>4, Zenon DEF x, r

----------------------------------------------------------------------------
(* The results and the flags of the arithmetic *)

\* Bits, and the operations on them.
LEMMA BitType == ASSUME NEW v \in Int, NEW i \in Nat, 2 ^ i \in Nat \ {0} PROVE Bit(v, i) \in {0, 1}
<1>. DEFINE p == 2 ^ i
<1>1. p \in Nat \ {0} /\ Bit(v, i) = (v \div p) % 2
    BY DEF Bit
<1>. HIDE DEF p
<1>2. v \div p \in Int
    BY <1>1
<1>. QED BY <1>1, <1>2

LEMMA CombineType ==
    ASSUME NEW a \in Int, NEW b \in Int, NEW table \in [{0, 1} -> [{0, 1} -> {0, 1}]]
    PROVE  Combine(table, a, b) \in Nat
<1>. DEFINE S == 0 .. 4 * ByteBits - 1
            t == [i \in S |-> table[Bit(a, i)][Bit(b, i)] * 2 ^ i]
<1>1. IsFiniteSet(S)
    BY ByteAssumption, FS_Interval
<1>2. ASSUME NEW i \in S PROVE table[Bit(a, i)][Bit(b, i)] * 2 ^ i \in Nat
    <2>1. i \in Nat /\ i \in 0 .. 4 * ByteBits
        BY ByteAssumption
    <2>2. 2 ^ i \in Nat \ {0}
        BY <2>1, ByteAssumption
    <2>3. table[Bit(a, i)][Bit(b, i)] \in {0, 1}
        <3>1. Bit(a, i) \in {0, 1} /\ Bit(b, i) \in {0, 1}
            BY <2>1, <2>2, BitType
        <3>. QED BY <3>1
    <2>. DEFINE x == table[Bit(a, i)][Bit(b, i)]
                p == 2 ^ i
    <2>. HIDE DEF x, p
    <2>4. x * p \in Nat
        BY <2>2, <2>3 DEF x, p
    <2>. QED BY <2>4 DEF x, p
<1>3. t \in [S -> Nat]
    BY <1>2
<1>. HIDE DEF t, S
<1>4. SumFunction(t) \in Nat
    BY <1>1, <1>3, SumIsNat
<1>. QED BY <1>4 DEF t, S, Combine

LEMMA BitwiseType ==
    ASSUME NEW a \in Int, NEW b \in Int
    PROVE  And(a, b) \in Nat /\ Or(a, b) \in Nat /\ Xor(a, b) \in Nat
<1>1. ASSUME NEW x \in {0, 1}, NEW y \in {0, 1}
      PROVE  x * y \in {0, 1} /\ x + y - x * y \in {0, 1} /\ (x + y) % 2 \in {0, 1}
    OBVIOUS
<1>2. [x \in {0, 1} |-> [y \in {0, 1} |-> x * y]] \in [{0, 1} -> [{0, 1} -> {0, 1}]]
    BY <1>1
<1>3. [x \in {0, 1} |-> [y \in {0, 1} |-> x + y - x * y]] \in [{0, 1} -> [{0, 1} -> {0, 1}]]
    BY <1>1
<1>4. [x \in {0, 1} |-> [y \in {0, 1} |-> (x + y) % 2]] \in [{0, 1} -> [{0, 1} -> {0, 1}]]
    BY <1>1
<1>5. And(a, b) \in Nat
    BY <1>2, CombineType DEF And
<1>6. Or(a, b) \in Nat
    BY <1>3, CombineType DEF Or
<1>7. Xor(a, b) \in Nat
    BY <1>4, CombineType DEF Xor
<1>. QED BY <1>5, <1>6, <1>7

\* Results and flags.
LEMMA AluResultType ==
    ASSUME NEW i \in 0 .. 7, NEW a \in Int, NEW b \in Int, NEW carry \in Int
    PROVE  AluResult(AluOps[i + 1], a, b, carry) \in Int
<1>. DEFINE op == AluOps[i + 1]
<1>1. op \in {"ADD", "OR", "ADC", "SBB", "AND", "SUB", "XOR", "CMP"}
    BY DEF AluOps
<1>2. /\ U32(a + b) \in Int /\ U32(carry + a + b) \in Int
      /\ U32(a - b - carry) \in Int /\ U32(a - b) \in Int
    <2>1. Number(4) \subseteq Int
        BY NumberType
    <2>. QED BY <2>1, U32Type
<1>3. And(a, b) \in Int /\ Or(a, b) \in Int /\ Xor(a, b) \in Int
    BY BitwiseType
<1>. HIDE DEF op
<1>4. AluResult(op, a, b, carry) \in Int
    BY <1>1, <1>2, <1>3 DEF AluResult
<1>. QED BY <1>4 DEF op

LEMMA SetToType ==
    ASSUME NEW flags \in SUBSET Flags, NEW f \in Flags, NEW on
    PROVE  SetTo(flags, f, on) \in SUBSET Flags
BY DEF SetTo

LEMMA ResultFlagsType ==
    ASSUME NEW flags \in SUBSET Flags, NEW n, NEW r
    PROVE  ResultFlags(flags, n, r) \in SUBSET Flags
<1>1. {"ZF", "SF", "PF"} \subseteq Flags
    BY DEF Flags
<1>. QED BY <1>1, SetToType DEF ResultFlags

LEMMA AluFlagsType ==
    ASSUME NEW flags \in SUBSET Flags, NEW op, NEW n, NEW a, NEW b, NEW r
    PROVE  AluFlags(op, n, a, b, r, flags) \in SUBSET Flags
<1>. DEFINE carry == IF op \in {"AND", "OR", "XOR"}
                       THEN flags \ {"CF"}
                       ELSE SetTo(SetTo(flags, "CF", CarryOut(n, r)), "AF", HalfCarry(a, b, r))
<1>1. {"CF", "AF", "OF"} \subseteq Flags
    BY DEF Flags
<1>2. carry \in SUBSET Flags
    <2>1. SetTo(SetTo(flags, "CF", CarryOut(n, r)), "AF", HalfCarry(a, b, r)) \in SUBSET Flags
        BY <1>1, SetToType
    <2>. QED BY <2>1
<1>3. AluFlags(op, n, a, b, r, flags) =
        ResultFlags(SetTo(carry, "OF", AluOverflow(op, n, a, b, r)), n, r)
    BY Zenon DEF AluFlags
<1>. HIDE DEF carry
<1>. QED BY <1>1, <1>2, <1>3, SetToType, ResultFlagsType

LEMMA IncDecFlagsType ==
    ASSUME NEW flags \in SUBSET Flags, NEW inc, NEW n, NEW a, NEW r
    PROVE  IncDecFlags(inc, n, a, r, flags) \in SUBSET Flags
<1>1. {"AF", "OF"} \subseteq Flags
    BY DEF Flags
<1>. DEFINE over1 == IF inc THEN AddOverflow(n, a, 1, r) ELSE SubOverflow(n, a, 1, r)
<1>2. IncDecFlags(inc, n, a, r, flags) =
        SetTo(ResultFlags(SetTo(flags, "OF", over1), n, r), "AF", HalfCarry(a, 1, r))
    BY Zenon DEF IncDecFlags
<1>. HIDE DEF over1
<1>. QED BY <1>1, <1>2, SetToType, ResultFlagsType

LEMMA SpecialFlagsType ==
    ASSUME NEW flags \in SUBSET Flags, NEW op, NEW n, NEW a, NEW r
    PROVE  SpecialFlags(op, n, a, r, flags) \in SUBSET Flags
<1>1. "CF" \in Flags
    BY DEF Flags
<1>2. SetTo(flags, "CF", a = 0) \in SUBSET Flags
    BY <1>1, SetToType
<1>3. flags \ {"CF", "OF"} \in SUBSET Flags
    OBVIOUS
<1>4. ResultFlags(flags \ {"CF", "OF"}, n, r) \in SUBSET Flags
    BY <1>3, ResultFlagsType
<1>5. ResultFlags(SetTo(flags, "CF", a = 0), n, r) \in SUBSET Flags
    BY <1>2, ResultFlagsType
<1>. QED BY <1>4, <1>5 DEF SpecialFlags

\* The flags as a word.
LEMMA FlagWordType == ASSUME NEW flags \in SUBSET Flags PROVE FlagWord(flags) \in Nat
<1>1. IsFiniteSet(flags)
    <2>1. IsFiniteSet(Flags)
        <3>1. ASSUME NEW x, NEW y, NEW z PROVE IsFiniteSet({x, y, z})
            <4>1. IsFiniteSet({x})
                BY FS_Singleton
            <4>2. IsFiniteSet({x} \cup {y})
                BY <4>1, FS_AddElement
            <4>3. IsFiniteSet(({x} \cup {y}) \cup {z})
                BY <4>2, FS_AddElement
            <4>4. {x, y, z} = ({x} \cup {y}) \cup {z}
                OBVIOUS
            <4>. QED BY <4>3, <4>4
        <3>2. IsFiniteSet({"CF", "PF", "AF"} \cup {"ZF", "SF", "TF"} \cup {"IF", "DF", "OF"})
            BY <3>1, FS_Union
        <3>. QED BY <3>2, Zenon DEF Flags
    <2>. QED BY <2>1, FS_Subset
<1>. DEFINE t == [f \in flags |-> 2 ^ FlagBit[f]]
<1>2. t \in [flags -> Nat]
    BY FlagAssumption
<1>. HIDE DEF t
<1>3. SumFunction(t) \in Nat
    BY <1>1, <1>2, SumIsNat
<1>. QED BY <1>3 DEF FlagWord, t

LEMMA FlagsInType == ASSUME NEW v PROVE FlagsIn(v) \in SUBSET Flags
BY DEF FlagsIn

\* The parts a multiplication or division leaves, unless the host faults.
LEMMA SpecialResultType ==
    ASSUME NEW i \in 0 .. 7, NEW n \in {1, 2, 4}, NEW a \in Int, NEW b \in Int,
           ~DivideFaults(SpecialOps[i + 1], n, a, b), i # 1,
           i \in {6, 7} => b \in Number(n)
    PROVE  LET out == SpecialResult(SpecialOps[i + 1], n, a, b)
           IN out.res \in Int /\ out.rem \in Int
<1>. DEFINE op == SpecialOps[i + 1]
            out == SpecialResult(op, n, a, b)
<1>0. W(n) \in Nat \ {0} /\ W(2 * n) \in Nat \ {0}
    BY Positive
<1>1. CASE i \in {0, 2, 3}
    <2>1. op = "TEST" \/ op = "NOT" \/ op = "NEG"
        BY <1>1 DEF SpecialOps
    <2>. HIDE DEF op
    <2>2. And(a, b) \in Int /\ -a - 1 \in Int /\ -a \in Int
        BY BitwiseType
    <2>3. out.res \in Int /\ out.rem \in Int
        BY <2>1, <2>2 DEF SpecialResult
    <2>. QED BY <2>3 DEF op
<1>2. CASE i = 4
    <2>1. op = "MUL"
        BY <1>2 DEF SpecialOps
    <2>2. a * b \in Int
        OBVIOUS
    <2>3. (a * b) \div W(n) \in Int
        BY <1>0, <2>2
    <2>. HIDE DEF op
    <2>4. out = [res |-> a * b, rem |-> (a * b) \div W(n)]
        BY <2>1 DEF SpecialResult
    <2>5. out.res \in Int /\ out.rem \in Int
        BY <2>2, <2>3, <2>4
    <2>. QED BY <2>5 DEF op
<1>3. CASE i = 5
    <2>1. op = "IMUL"
        BY <1>3 DEF SpecialOps
    <2>. DEFINE p == SX(n, a) * SX(n, b)
    <2>2. p \in Int
        BY SXType
    <2>. HIDE DEF op
    <2>4. out = [res |-> p, rem |-> p \div W(n)]
        BY <2>1 DEF SpecialResult
    <2>. HIDE DEF p
    <2>3. p \div W(n) \in Int
        BY <1>0, <2>2
    <2>5. out.res \in Int /\ out.rem \in Int
        BY <2>2, <2>3, <2>4
    <2>. QED BY <2>5 DEF op
<1>4. CASE i = 6
    <2>1. op = "DIV"
        BY <1>4 DEF SpecialOps
    <2>2. b # 0
        BY <2>1 DEF DivideFaults
    <2>3. b \in Nat \ {0}
        BY <1>4, <2>2, NumberType
    <2>4. a \div b \in Int /\ a % b \in Int
        BY <2>3
    <2>. HIDE DEF op
    <2>5. out = [res |-> a \div b, rem |-> a % b]
        BY <2>1 DEF SpecialResult
    <2>6. out.res \in Int /\ out.rem \in Int
        BY <2>4, <2>5
    <2>. QED BY <2>6 DEF op
<1>5. CASE i = 7
    <2>1. op = "IDIV"
        BY <1>5 DEF SpecialOps
    <2>2. b # 0 /\ b \in Number(n)
        BY <1>5, <2>1 DEF DivideFaults
    <2>. DEFINE x == SX(2 * n, a)
                d == SX(n, b)
    <2>3. x \in Int /\ d \in Int
        <3>1. 2 * n \in {1, 2, 4, 8}
            OBVIOUS
        <3>. QED BY <3>1, SXType
    <2>4. d # 0
        <3>1. b \in 0 .. W(n) - 1 /\ b % W(n) = b
            BY <1>0, <2>2, Small DEF Number
        <3>. QED BY <1>0, <2>2, <3>1 DEF SX
    <2>. HIDE DEF op
    <2>5. out = [res |-> Quotient(x, d), rem |-> Remainder(x, d)]
        BY <2>1 DEF SpecialResult
    <2>. HIDE DEF x, d
    <2>6. Quotient(x, d) \in Int
        <3>. DEFINE abs(y) == IF y < 0 THEN -y ELSE y
                    q == abs(x) \div abs(d)
        <3>1. abs(x) \in Nat /\ abs(d) \in Nat \ {0}
            BY <2>3, <2>4
        <3>2. Quotient(x, d) = IF (x < 0) = (d < 0) THEN q ELSE -q
            BY DEF Quotient
        <3>. HIDE DEF abs
        <3>3. q \in Int
            BY <3>1
        <3>. HIDE DEF q
        <3>. QED BY <3>2, <3>3
    <2>7. Remainder(x, d) \in Int
        <3>1. d * Quotient(x, d) \in Int
            BY <2>3, <2>6
        <3>. QED BY <2>3, <3>1 DEF Remainder
    <2>8. out.res \in Int /\ out.rem \in Int
        BY <2>5, <2>6, <2>7
    <2>. QED BY <2>8 DEF op
<1>. QED BY <1>1, <1>2, <1>3, <1>4, <1>5

\* Shifts.
LEMMA ShiftedType ==
    ASSUME NEW v \in Nat, NEW count \in Nat, NEW left
    PROVE  Shifted(left, v, count) \in Int
<1>. DEFINE c == count % (4 * ByteBits)
            k == 2 ^ c
<1>1. c \in 0 .. 4 * ByteBits
    <2>1. 4 * ByteBits \in Nat \ {0}
        BY ByteAssumption
    <2>. QED BY <2>1
<1>. HIDE DEF c
<1>2. k \in Nat \ {0}
    BY <1>1, ByteAssumption
<1>. HIDE DEF k
<1>3. v * k \in Int /\ v \div k \in Int
    BY <1>2
<1>4. U32(v * k) \in Int
    <2>1. U32(v * k) \in Number(4)
        BY <1>3, U32Type
    <2>. QED BY <2>1, NumberType
<1>5. Shifted(left, v, count) = IF left THEN U32(v * k) ELSE v \div k
    BY DEF Shifted, k, c
<1>. QED BY <1>3, <1>4, <1>5

----------------------------------------------------------------------------
(* Handlers *)

\* The operands of an instruction that loads no segment register.
Ready(d) ==
    /\ OperandOK(d.dst) /\ OperandOK(d.src1) /\ OperandOK(d.src2)
    /\ d.dst.type # "SEG_REG"

\* The names of registers are their numbers.
LEMMA Registers == {EAX, ECX, EDX, EBX, ESP, EBP, ESI, EDI} \subseteq 0 .. 7 /\ {ES, SS, DS} \subseteq 0 .. 7
BY DEF EAX, ECX, EDX, EBX, ESP, EBP, ESI, EDI, ES, SS, DS

LEMMA RegType == ASSUME NEW s, Good(s), NEW r \in 0 .. 7 PROVE s.regs[r] \in Number(4) /\ s.regs[r] \in Nat
BY GoodTypes, NumberType

\* The handlers keep the machine good: arithmetic.
LEMMA AluGood ==
    ASSUME NEW s, Good(s), NEW d, Ready(d), d.inst.sub \in 0 .. 8, d.reg \in 0 .. 7
    PROVE  Good(do_alu_op(s, d))
<1>. DEFINE i == IF d.inst.sub = ALU_MULTI THEN d.reg ELSE d.inst.sub
            op == AluOps[i + 1]
            a == Read(s, d.src1)
            b == Read(s, d.src2)
            carry == Flag(s.flags, "CF")
            r == AluResult(op, a, b, carry)
            f == AluFlags(op, d.src1.size, a, b, r, s.flags)
            t == [s EXCEPT !.flags = f]
<1>1. i \in 0 .. 7
    BY DEF ALU_MULTI
<1>2. a \in Int /\ b \in Int /\ carry \in Int
    BY ReadType DEF Ready, Flag
<1>3. do_alu_op(s, d) = IF op = "CMP" THEN t ELSE Write(t, d.dst, r)
    BY Zenon DEF do_alu_op
<1>. HIDE DEF i, a, b, carry
<1>4. r \in Int
    BY <1>1, <1>2, AluResultType, Zenon
<1>. HIDE DEF op, r
<1>5. f \in SUBSET Flags
    BY GoodTypes, AluFlagsType
<1>. HIDE DEF f
<1>6. Good(t)
    BY <1>5, FlagsGood
<1>. HIDE DEF t
<1>7. Good(Write(t, d.dst, r))
    BY <1>4, <1>6, WriteGood DEF Ready
<1>. QED BY <1>3, <1>6, <1>7

LEMMA SpecialGood ==
    ASSUME NEW s, Good(s), NEW d, Ready(d), d.inst.sub \in 0 .. 7,
           "WRITE_DX" \in d.inst.flags => d.dst.size \in {1, 2, 4},
           d.inst.sub \in {6, 7} => /\ InRegister(d.src2) \/ Memory(d.src2)
                                    /\ d.src2.size = d.dst.size
    PROVE  Good(do_alu_special(s, d))
<1>. DEFINE i == d.inst.sub
            op == SpecialOps[i + 1]
            n == IF d.dst.size \in {1, 4} THEN d.dst.size ELSE 2
            a == Read(s, d.src1)
            b == Read(s, d.src2)
            out == SpecialResult(op, n, a, b)
            f == SpecialFlags(op, d.src1.size, a, out.res, s.flags)
            u == [s EXCEPT !.flags = f]
            t == Write(u, d.dst, out.res)
            high == IF d.dst.size = 1 THEN 4 ELSE EDX
<1>1. a \in Int /\ b \in Int
    BY ReadType DEF Ready
<1>2. n \in {1, 2, 4} /\ high \in 0 .. 7
    BY DEF EDX
<1>3. i \in {6, 7} => b \in Number(n)
    <2>1. CASE i \in {6, 7}
        <3>1. b \in Number(d.src2.size)
            BY <2>1, ReadType DEF Ready
        <3>2. d.src2.size = d.dst.size /\ d.src2.size \in {1, 2, 4}
            BY <2>1 DEF InRegister, Memory
        <3>. QED BY <3>1, <3>2
    <2>. QED BY <2>1
<1>4. op = "UNK" <=> i = 1
    BY DEF SpecialOps
<1>5. do_alu_special(s, d) =
        CASE op = "UNK" -> Hang(s)
          [] DivideFaults(op, n, a, b) -> [s EXCEPT !.status = "faults"]
          [] OTHER -> IF "WRITE_DX" \in d.inst.flags THEN SetReg(t, d.dst.size, high, out.rem) ELSE t
    BY DEF do_alu_special
<1>6. CASE op = "UNK"
    <2>. HIDE DEF op
    <2>1. do_alu_special(s, d) = Hang(s)
        BY <1>5, <1>6 DEF DivideFaults
    <2>. QED BY <2>1, HangGood
<1>. HIDE DEF n, a, b, high, i
<1>7. CASE op # "UNK" /\ DivideFaults(op, n, a, b)
    <2>. HIDE DEF op
    <2>1. do_alu_special(s, d) = [s EXCEPT !.status = "faults"]
        BY <1>5, <1>7
    <2>. QED BY <2>1, StatusGood
<1>8. CASE op # "UNK" /\ ~DivideFaults(op, n, a, b)
    <2>0. i \in 0 .. 7 /\ i # 1 /\ ~DivideFaults(SpecialOps[i + 1], n, a, b)
        BY <1>4, <1>8 DEF i
    <2>1. out.res \in Int /\ out.rem \in Int
        BY <1>1, <1>2, <1>3, <2>0, SpecialResultType, Zenon
    <2>. HIDE DEF op, out
    <2>2. f \in SUBSET Flags
        BY GoodTypes, SpecialFlagsType
    <2>. HIDE DEF f
    <2>3. Good(u)
        BY <2>2, FlagsGood
    <2>. HIDE DEF u
    <2>4. Good(t)
        BY <2>1, <2>3, WriteGood DEF Ready
    <2>. HIDE DEF t
    <2>5. d.dst.size \in {1, 2, 4} => Good(SetReg(t, d.dst.size, high, out.rem))
        BY <1>2, <2>1, <2>4, SetRegGood
    <2>6. do_alu_special(s, d) = IF "WRITE_DX" \in d.inst.flags THEN SetReg(t, d.dst.size, high, out.rem) ELSE t
        BY <1>5, <1>8
    <2>. QED BY <2>4, <2>5, <2>6
<1>. HIDE DEF op, i
<1>. QED BY <1>6, <1>7, <1>8

LEMMA ShiftGood == ASSUME NEW s, Good(s), NEW d, Ready(d) PROVE Good(do_shift(s, d))
<1>. DEFINE a == Read(s, d.src1)
            c == Read(s, d.src2) % Byte
            r == Shifted(d.reg = 4, a, c)
            f == SetTo(s.flags, "CF", CarryOut(1, r))
            u == [s EXCEPT !.flags = f]
            t == IF d.reg = 4 /\ d.dst.size = 1 THEN u ELSE s
<1>1. a \in Nat /\ c \in Nat
    <2>1. Read(s, d.src2) \in Nat /\ Byte \in Nat \ {0}
        BY ReadType, ByteAssumption DEF Ready
    <2>. QED BY <2>1, ReadType DEF Ready
<1>2. do_shift(s, d) = IF d.reg \in {4, 5} THEN Write(t, d.dst, r) ELSE Hang(s)
    BY Zenon DEF do_shift
<1>. HIDE DEF a, c
<1>3. r \in Int
    BY <1>1, ShiftedType
<1>. HIDE DEF r
<1>4. f \in SUBSET Flags
    <2>1. "CF" \in Flags
        BY DEF Flags
    <2>. QED BY <2>1, GoodTypes, SetToType
<1>. HIDE DEF f
<1>5. Good(u)
    BY <1>4, FlagsGood
<1>. HIDE DEF u
<1>6. Good(t)
    BY <1>5
<1>. HIDE DEF t
<1>7. Good(Write(t, d.dst, r))
    BY <1>3, <1>6, WriteGood DEF Ready
<1>. QED BY <1>2, <1>7, HangGood

LEMMA IncDecGood == ASSUME NEW s, Good(s), NEW d, Ready(d) PROVE Good(do_incdec(s, d))
<1>. DEFINE a == Read(s, d.src1)
            inc == d.inst.sub = 0
            r == U32(IF inc THEN a + 1 ELSE a - 1)
            f == IncDecFlags(inc, d.src1.size, a, r, s.flags)
            t == [s EXCEPT !.flags = f]
<1>1. a \in Nat
    BY ReadType DEF Ready
<1>2. do_incdec(s, d) = Write(t, d.dst, r)
    BY Zenon DEF do_incdec
<1>. HIDE DEF a
<1>3. r \in Int
    <2>1. (IF inc THEN a + 1 ELSE a - 1) \in Int
        BY <1>1
    <2>2. r \in Number(4)
        BY <2>1, U32Type
    <2>. QED BY <2>2, NumberType
<1>. HIDE DEF r, inc
<1>4. f \in SUBSET Flags
    BY GoodTypes, IncDecFlagsType
<1>. HIDE DEF f
<1>5. Good(t)
    BY <1>4, FlagsGood
<1>. HIDE DEF t
<1>. QED BY <1>2, <1>3, <1>5, WriteGood DEF Ready

\* CBW, CWDE, CWD and CDQ write a sign extension.
LEMMA ExtendGood ==
    ASSUME NEW s, Good(s), NEW d, Ready(d)
    PROVE  Good(do_cbw_cwde(s, d)) /\ Good(do_cwd_cdq(s, d))
<1>. DEFINE a == Read(s, d.src1)
            x == SX(IF d.src1.size = 1 THEN 1 ELSE 2, a)
            y == SX(IF d.src1.size = 2 THEN 2 ELSE 4, a)
<1>1. a \in Int
    BY ReadType DEF Ready
<1>2. do_cbw_cwde(s, d) = Write(s, d.dst, x) /\ do_cwd_cdq(s, d) = Write(s, d.dst, y)
    BY Zenon DEF do_cbw_cwde, do_cwd_cdq
<1>. HIDE DEF a
<1>3. x \in Int /\ y \in Int
    BY <1>1, SXType
<1>. HIDE DEF x, y
<1>. QED BY <1>2, <1>3, WriteGood DEF Ready

\* Moves.
LEMMA MovGood == ASSUME NEW s, Good(s), NEW d, Ready(d) PROVE Good(do_mov(s, d))
<1>1. Read(s, d.src1) \in Int
    BY ReadType DEF Ready
<1>. QED BY <1>1, WriteGood DEF Ready, do_mov

LEMMA LeaGood ==
    ASSUME NEW s, Good(s), NEW d, Ready(d), d.src1.id \in Int
    PROVE  Good(do_lea(s, d))
BY WriteGood DEF Ready, do_lea

LEMMA XchgGood ==
    ASSUME NEW s, Good(s), NEW d, Ready(d), d.src1.type # "SEG_REG", d.src2.type # "SEG_REG"
    PROVE  Good(do_xchg(s, d))
<1>. DEFINE a == Read(s, d.src1)
            b == Read(s, d.src2)
            t == Write(s, d.src1, b)
<1>1. a \in Int /\ b \in Int
    BY ReadType DEF Ready
<1>2. do_xchg(s, d) = Write(t, d.src2, a)
    BY DEF do_xchg
<1>. HIDE DEF a, b
<1>3. Good(t)
    BY <1>1, WriteGood DEF Ready
<1>. HIDE DEF t
<1>. QED BY <1>1, <1>2, <1>3, WriteGood DEF Ready

\* The stack and the segment registers.
LEMMA StackGood ==
    ASSUME NEW s, Good(s), NEW d, Ready(d)
    PROVE  Good(do_push(s, d)) /\ Good(do_pop(s, d))
<1>1. Read(s, d.src1) \in Int
    BY ReadType DEF Ready
<1>2. Good(Popped(s)) /\ Top(s) \in Int
    BY PoppedGood, TopType, NumberType
<1>. QED BY <1>1, <1>2, PushGood, WriteGood DEF Ready, do_push, do_pop

LEMMA SegmentsGood ==
    ASSUME NEW s, Good(s), NEW d, d.dst.type = "SEG_REG", d.dst.id \in 0 .. 7, OperandOK(d.src1)
    PROVE  Good(do_mov_to_sr(s, d)) /\ Good(do_pop_sr(s, d))
<1>1. Read(s, d.src1) \in Int
    BY ReadType
<1>2. Good(Popped(s)) /\ Top(s) \in Int
    BY PoppedGood, TopType, NumberType
<1>3. Good(LoadSegment(s, d.dst, Read(s, d.src1)))
    BY <1>1, LoadSegmentGood
<1>4. Good(LoadSegment(Popped(s), d.dst, Top(s)))
    BY <1>2, LoadSegmentGood
<1>. QED BY <1>3, <1>4 DEF do_mov_to_sr, do_pop_sr

\* What the prefixes have set.
Overrides ==
    /\ op_override \in {0, 1} /\ addr_override \in {0, 1} /\ overriding_sgmt \in {0, 1}
    /\ sgmt_override \in 0 .. 5

LEMMA EnterLeaveGood ==
    ASSUME NEW s, Good(s), NEW d, Ready(d)
    PROVE  Good(do_enter(s, d)) /\ Good(do_leave(s, d))
<1>1. ESP \in 0 .. 7 /\ EBP \in 0 .. 7
    BY Registers
<1>2. Good(do_enter(s, d))
    <2>. DEFINE x == s.regs[EBP]
                t == Push(s, x)
                y == t.regs[ESP]
                u == Push(t, y)
                v == [u EXCEPT !.regs[EBP] = y]
                k == -Read(u, d.src1)
    <2>1. do_enter(s, d) = AddReg(v, ESP, k)
        BY Zenon DEF do_enter
    <2>0. x \in Int
        BY <1>1, RegType
    <2>. HIDE DEF x
    <2>2. Good(t)
        BY <2>0, PushGood
    <2>. HIDE DEF t
    <2>3. y \in Number(4) /\ y \in Int
        BY <1>1, <2>2, RegType
    <2>. HIDE DEF y
    <2>4. Good(u)
        BY <2>2, <2>3, PushGood
    <2>. HIDE DEF u
    <2>5. Good(v)
        BY <1>1, <2>3, <2>4, RegGood
    <2>6. k \in Int
        <3>1. Read(u, d.src1) \in Nat
            BY <2>4, ReadType DEF Ready
        <3>. QED BY <3>1
    <2>. HIDE DEF v, k
    <2>. QED BY <1>1, <2>1, <2>5, <2>6, AddRegGood
<1>3. Good(do_leave(s, d))
    <2>. DEFINE x == s.regs[EBP]
                t == SetReg(s, StackSize, ESP, x)
                p == Popped(t)
                y == Top(t)
    <2>1. do_leave(s, d) = [p EXCEPT !.regs[EBP] = y]
        BY Zenon DEF do_leave
    <2>2. x \in Int
        BY <1>1, RegType
    <2>. HIDE DEF x
    <2>3. Good(t)
        BY <1>1, <2>2, SetRegGood, StackSizes
    <2>. HIDE DEF t
    <2>4. Good(p) /\ y \in Number(4)
        BY <2>3, PoppedGood, TopType
    <2>. HIDE DEF p, y
    <2>. QED BY <1>1, <2>1, <2>4, RegGood
<1>. QED BY <1>2, <1>3

LEMMA FlagStackGood == ASSUME NEW s, Good(s), NEW d PROVE Good(do_pushf(s, d)) /\ Good(do_popf(s, d))
<1>1. FlagWord(s.flags) \in Int
    BY GoodTypes, FlagWordType
<1>2. Good(do_pushf(s, d))
    BY <1>1, PushGood DEF do_pushf
<1>3. Good(Popped(s)) /\ FlagsIn(Top(s)) \in SUBSET Flags
    BY PoppedGood, FlagsInType
<1>. QED BY <1>2, <1>3, FlagsGood DEF do_popf

LEMMA PopIntoGood ==
    ASSUME NEW s, Good(s), NEW n \in {1, 2, 4}, NEW r \in 0 .. 7
    PROVE  Good(PopInto(s, n, r))
<1>1. Good(Popped(s)) /\ Top(s) \in Int
    BY PoppedGood, TopType, NumberType
<1>. QED BY <1>1, SetRegGood DEF PopInto

LEMMA PushAllGood == ASSUME NEW s, Good(s), NEW d PROVE Good(do_pusha(s, d))
<1>1. ASSUME NEW t, Good(t), NEW r \in {EAX, ECX, EDX, EBX, ESP, EBP, ESI, EDI}
      PROVE  Good(Push(t, s.regs[r]))
    <2>1. s.regs[r] \in Int
        BY Registers, RegType
    <2>. QED BY <1>1, <2>1, PushGood
<1>. DEFINE a == Push(s, s.regs[EAX])
            b == Push(a, s.regs[ECX])
            c == Push(b, s.regs[EDX])
            e == Push(c, s.regs[EBX])
            f == Push(e, s.regs[ESP])
            g == Push(f, s.regs[EBP])
            h == Push(g, s.regs[ESI])
            i == Push(h, s.regs[EDI])
<1>2. do_pusha(s, d) = i
    BY Zenon DEF do_pusha
<1>3. Good(a)
    BY <1>1
<1>. HIDE DEF a
<1>4. Good(b)
    BY <1>1, <1>3
<1>. HIDE DEF b
<1>5. Good(c)
    BY <1>1, <1>4
<1>. HIDE DEF c
<1>6. Good(e)
    BY <1>1, <1>5
<1>. HIDE DEF e
<1>7. Good(f)
    BY <1>1, <1>6
<1>. HIDE DEF f
<1>8. Good(g)
    BY <1>1, <1>7
<1>. HIDE DEF g
<1>9. Good(h)
    BY <1>1, <1>8
<1>. HIDE DEF h
<1>10. Good(i)
    BY <1>1, <1>9
<1>. HIDE DEF i
<1>. QED BY <1>2, <1>10

LEMMA PopAllGood == ASSUME NEW s, Good(s), NEW d PROVE Good(do_popa(s, d))
<1>. DEFINE n == IF Ops32 THEN 4 ELSE 2
            a == PopInto(s, n, EDI)
            b == PopInto(a, n, ESI)
            c == PopInto(b, n, EBP)
            k == GetReg(c, n, ESP) + n
            e == SetReg(c, n, ESP, k)
            f == PopInto(e, n, EBX)
            g == PopInto(f, n, EDX)
            h == PopInto(g, n, ECX)
            i == PopInto(h, n, EAX)
<1>1. do_popa(s, d) = i
    BY Zenon DEF do_popa
<1>2. n \in {1, 2, 4} /\ n \in Nat
    OBVIOUS
<1>. HIDE DEF n
<1>3. ASSUME NEW t, Good(t), NEW r \in {EAX, ECX, EDX, EBX, ESP, EBP, ESI, EDI}
      PROVE  Good(PopInto(t, n, r))
    BY <1>2, <1>3, Registers, PopIntoGood
<1>4. Good(a)
    BY <1>3
<1>. HIDE DEF a
<1>5. Good(b)
    BY <1>3, <1>4
<1>. HIDE DEF b
<1>6. Good(c)
    BY <1>3, <1>5
<1>. HIDE DEF c
<1>7. k \in Int
    <2>1. GetReg(c, n, ESP) \in Number(n)
        BY <1>2, <1>6, GetRegType, Registers
    <2>2. Number(n) \subseteq Nat
        BY <1>2, NumberType
    <2>. QED BY <1>2, <2>1, <2>2
<1>. HIDE DEF k
<1>8. Good(e)
    BY <1>2, <1>6, <1>7, SetRegGood, Registers
<1>. HIDE DEF e
<1>9. Good(f)
    BY <1>3, <1>8
<1>. HIDE DEF f
<1>10. Good(g)
    BY <1>3, <1>9
<1>. HIDE DEF g
<1>11. Good(h)
    BY <1>3, <1>10
<1>. HIDE DEF h
<1>12. Good(i)
    BY <1>3, <1>11
<1>. HIDE DEF i
<1>. QED BY <1>1, <1>12

\* Flags.
LEMMA FlagOpsGood ==
    ASSUME NEW s, Good(s), NEW d
    PROVE  /\ Good(do_clear_flag(s, d)) /\ Good(do_cmc(s, d))
           /\ d.inst.sub \in {CARRY, INTERRUPT, DIRECTION} => Good(do_set_flag(s, d))
<1>1. s.flags \in SUBSET Flags
    BY GoodTypes
<1>2. s.flags \ {FlagOf(d.inst.sub)} \in SUBSET Flags
    BY <1>1
<1>3. SetTo(s.flags, "CF", "CF" \notin s.flags) \in SUBSET Flags
    <2>1. "CF" \in Flags
        BY DEF Flags
    <2>. QED BY <1>1, <2>1, SetToType
<1>4. d.inst.sub \in {CARRY, INTERRUPT, DIRECTION} => s.flags \cup {FlagOf(d.inst.sub)} \in SUBSET Flags
    BY <1>1 DEF FlagOf, CARRY, INTERRUPT, DIRECTION, Flags
<1>5. Good(do_clear_flag(s, d))
    BY <1>2, FlagsGood DEF do_clear_flag
<1>6. Good(do_cmc(s, d))
    BY <1>3, FlagsGood DEF do_cmc
<1>7. d.inst.sub \in {CARRY, INTERRUPT, DIRECTION} => Good(do_set_flag(s, d))
    BY <1>4, FlagsGood DEF do_set_flag
<1>. QED BY <1>5, <1>6, <1>7

LEMMA FlagBytesGood == ASSUME NEW s, Good(s), NEW d PROVE Good(do_sahf(s, d)) /\ Good(do_lahf(s, d))
<1>1. s.flags \in SUBSET Flags /\ FlagsIn(GetReg(s, 1, 4)) \in SUBSET Flags
    BY GoodTypes, FlagsInType
<1>. DEFINE low == {"CF", "PF", "AF", "ZF", "SF"}
            f == (s.flags \ low) \cup (FlagsIn(GetReg(s, 1, 4)) \cap low)
<1>2. f \in SUBSET Flags
    BY <1>1
<1>3. do_sahf(s, d) = [s EXCEPT !.flags = f]
    BY DEF do_sahf
<1>. HIDE DEF f
<1>4. Good(do_sahf(s, d))
    BY <1>2, <1>3, FlagsGood
<1>5. FlagWord(s.flags) \in Int
    BY <1>1, FlagWordType
<1>6. Good(do_lahf(s, d))
    BY <1>5, SetRegGood DEF do_lahf
<1>. QED BY <1>4, <1>6

LEMMA XlatGood == ASSUME NEW s, Good(s), NEW d, Overrides PROVE Good(do_xlat(s, d))
<1>1. Base(s, sgmt_override) \in Nat
    BY BaseType DEF Overrides
<1>2. s.regs[EBX] \in Nat
    BY RegType, Registers
<1>3. GetReg(s, 1, EAX) \in Nat
    BY GetRegType, Registers, NumberType
<1>. DEFINE x == Base(s, sgmt_override) + s.regs[EBX] + GetReg(s, 1, EAX)
<1>4. x \in Int
    BY <1>1, <1>2, <1>3
<1>5. do_xlat(s, d) = SetReg(s, 1, EAX, Load(s, 1, x))
    BY DEF do_xlat
<1>. HIDE DEF x
<1>6. Load(s, 1, x) \in Int
    BY <1>4, LoadType, NumberType
<1>. QED BY <1>5, <1>6, SetRegGood, Registers

----------------------------------------------------------------------------
(* Control *)

\* Control.
LEMMA ControlGood ==
    ASSUME NEW s, Good(s), NEW d, Ready(d), d.src1.type # "EDX_EAX"
    PROVE  /\ Good(do_call_near(s, d)) /\ Good(i386_ret_near(s, d))
           /\ Good(do_near_jump(s, d)) /\ Good(do_loop(s, d))
<1>1. ASSUME NEW t, Good(t) PROVE Read(t, d.src1) \in Number(4) /\ Read(t, d.src1) \in Int
    BY <1>1, ReadType DEF Ready
<1>2. Good(do_call_near(s, d))
    <2>. DEFINE t == Push(s, s.eip)
    <2>1. s.eip \in Int
        BY GoodTypes, NumberType
    <2>2. Good(t)
        BY <2>1, PushGood
    <2>. DEFINE e == Read(t, d.src1)
    <2>3. do_call_near(s, d) = [t EXCEPT !.eip = e]
        BY DEF do_call_near
    <2>. HIDE DEF t
    <2>4. e \in Number(4)
        BY <1>1, <2>2
    <2>. HIDE DEF e
    <2>5. Good([t EXCEPT !.eip = e])
        BY <2>2, <2>4, EipGood
    <2>. QED BY <2>3, <2>5
<1>3. Good(i386_ret_near(s, d))
    <2>. DEFINE t == [Popped(s) EXCEPT !.eip = Top(s)]
    <2>1. Good(t)
        BY PoppedGood, TopType, EipGood
    <2>2. i386_ret_near(s, d) = AddReg(t, ESP, Read(s, d.src1))
        BY DEF i386_ret_near
    <2>. HIDE DEF t
    <2>. QED BY <1>1, <2>1, <2>2, AddRegGood, Registers
<1>4. Good([s EXCEPT !.eip = Read(s, d.src1)])
    BY <1>1, EipGood
<1>5. Good(do_near_jump(s, d))
    <2>1. do_near_jump(s, d) = [s EXCEPT !.eip = Read(s, d.src1)] \/ do_near_jump(s, d) = s
        BY DEF do_near_jump
    <2>. QED BY <1>4, <2>1
<1>6. Good(do_loop(s, d))
    <2>. DEFINE t == AddReg(s, ECX, -1)
    <2>. DEFINE e == Read(s, d.src1)
    <2>0. ECX \in 0 .. 7 /\ -1 \in Int
        BY Registers
    <2>1. Good(t)
        BY <2>0, AddRegGood
    <2>2. do_loop(s, d) = [t EXCEPT !.eip = e] \/ do_loop(s, d) = t
        BY DEF do_loop
    <2>. HIDE DEF t
    <2>3. e \in Number(4)
        BY <1>1
    <2>. HIDE DEF e
    <2>4. Good([t EXCEPT !.eip = e])
        BY <2>1, <2>3, EipGood
    <2>. QED BY <2>1, <2>2, <2>4
<1>. QED BY <1>2, <1>3, <1>5, <1>6

(* String instructions *)

LEMMA StringSizes == ASSUME NEW flags PROVE StringSize(flags) \in {1, 2, 4}
BY DEF StringSize

LEMMA AdvanceGood ==
    ASSUME NEW s, Good(s), NEW r \in 0 .. 7, NEW n \in {1, 2, 4}
    PROVE  Good(Advance(s, r, n))
<1>1. n \in Int /\ -n \in Int
    OBVIOUS
<1>2. Good(AddReg(s, r, n))
    BY <1>1, AddRegGood
<1>3. Good(AddReg(s, r, -n))
    BY <1>1, AddRegGood
<1>. QED BY <1>2, <1>3 DEF Advance

LEMMA SetZFGood == ASSUME NEW s, Good(s), NEW n, NEW v PROVE Good(SetZF(s, n, v))
<1>1. "ZF" \in Flags /\ s.flags \in SUBSET Flags
    BY GoodTypes DEF Flags
<1>2. SetTo(s.flags, "ZF", v % W(n) = 0) \in SUBSET Flags
    BY <1>1, SetToType
<1>. QED BY <1>2, FlagsGood DEF SetZF

LEMMA StringPlaces == ASSUME NEW s, Good(s), Overrides PROVE SourceAt(s) \in Int /\ DestAt(s) \in Int
<1>1. sgmt_override \in 0 .. 7 /\ ES \in 0 .. 7 /\ ESI \in 0 .. 7 /\ EDI \in 0 .. 7
    BY Registers DEF Overrides
<1>2. Base(s, sgmt_override) \in Int /\ Base(s, ES) \in Int
    BY <1>1, BaseType
<1>3. s.regs[ESI] \in Int /\ s.regs[EDI] \in Int
    BY <1>1, RegType
<1>. QED BY <1>2, <1>3 DEF SourceAt, DestAt

LEMMA StringGood ==
    ASSUME NEW s, Good(s), Overrides, NEW sub \in Nat, NEW flags
    PROVE  Good(do_string(s, sub, flags))
<1>. DEFINE n == StringSize(flags)
            name == IF sub < Len(StringOps) THEN StringOps[sub + 1] ELSE "NONE"
            from == Load(s, n, SourceAt(s))
            to == Load(s, n, DestAt(s))
            scanned == Scanned(s, flags, to)
            at == DestAt(s)
            stored == Store(s, n, at, s.regs[EAX])
            loaded == SetReg(s, n, EAX, from)
            compared == SetZF(s, 1, from - to)
            moved == Store(s, n, at, from)
<1>1. n \in {1, 2, 4}
    BY StringSizes
<1>2. name \in {"MOVS", "SCAS", "STOS", "INS", "OUTS", "LODS", "CMPS", "NONE"}
    BY DEF StringOps
<1>3. do_string(s, sub, flags) =
        CASE name = "STOS" -> Advance(stored, EDI, n)
          [] name = "LODS" -> Advance(loaded, ESI, n)
          [] name = "CMPS" -> Advance(Advance(compared, ESI, n), EDI, n)
          [] name = "MOVS" -> Advance(Advance(moved, ESI, n), EDI, n)
          [] name = "SCAS" -> Advance(scanned, EDI, n)
          [] name \in {"INS", "OUTS", "NONE"} -> Hang(s)
    BY Zenon DEF do_string
<1>. HIDE DEF n, name
<1>4. from \in Int /\ at \in Int
    <2>1. from \in Number(n)
        BY <1>1, StringPlaces, LoadType
    <2>2. Number(n) \subseteq Nat
        BY <1>1, NumberType
    <2>. QED BY <2>1, <2>2, StringPlaces
<1>5. EAX \in 0 .. 7 /\ ESI \in 0 .. 7 /\ EDI \in 0 .. 7 /\ s.regs[EAX] \in Int
    BY Registers, RegType
<1>. HIDE DEF from, to, at
<1>6. Good(stored) /\ Good(moved)
    BY <1>1, <1>4, <1>5, StoreGood
<1>7. Good(loaded)
    BY <1>1, <1>4, <1>5, SetRegGood
<1>8. Good(compared) /\ Good(scanned)
    BY SetZFGood DEF Scanned
<1>. HIDE DEF stored, moved, loaded, compared, scanned
<1>9. Good(Advance(stored, EDI, n)) /\ Good(Advance(loaded, ESI, n)) /\ Good(Advance(scanned, EDI, n))
    BY <1>1, <1>5, <1>6, <1>7, <1>8, AdvanceGood
<1>10. Good(Advance(compared, ESI, n)) /\ Good(Advance(moved, ESI, n))
    BY <1>1, <1>5, <1>6, <1>8, AdvanceGood
<1>11. Good(Advance(Advance(compared, ESI, n), EDI, n)) /\ Good(Advance(Advance(moved, ESI, n), EDI, n))
    BY <1>1, <1>5, <1>10, AdvanceGood
<1>12. Good(Hang(s))
    BY HangGood
<1>. QED BY <1>2, <1>3, <1>9, <1>11, <1>12

----------------------------------------------------------------------------
(* The services *)

LEMMA PrintedGood == ASSUME NEW s, Good(s) PROVE Good(Printed(s))
<1>. DEFINE at(k) == Load(s, 1, Base(s, DS) + ((GetReg(s, 2, EDX) + k) % W(2)))
            ends == {k \in 0 .. W(2) - 1 : at(k) = Dollar}
            text == [k \in 1 .. Min(ends) |-> at(k - 1)]
<1>1. Printed(s) = IF ends = {} THEN Hang(s) ELSE [s EXCEPT !.screen = @ \o text]
    BY Zenon DEF Printed
<1>2. ASSUME NEW k \in Int PROVE at(k) \in 0 .. Byte - 1
    <2>0. EDX \in 0 .. 7 /\ DS \in 0 .. 7
        BY Registers
    <2>1. GetReg(s, 2, EDX) \in Int
        <3>1. GetReg(s, 2, EDX) \in Number(2)
            BY <2>0, GetRegType
        <3>. QED BY <3>1, NumberType
    <2>2. (GetReg(s, 2, EDX) + k) % W(2) \in Int
        BY <2>1, Cut, NumberType
    <2>3. Base(s, DS) \in Int
        BY <2>0, BaseType
    <2>. DEFINE x == Base(s, DS) + ((GetReg(s, 2, EDX) + k) % W(2))
    <2>4. x \in Int
        BY <2>2, <2>3
    <2>. HIDE DEF x
    <2>5. Load(s, 1, x) \in 0 .. Byte - 1
        BY <2>4, LoadType, NumberType
    <2>. QED BY <2>5 DEF x
<1>. HIDE DEF at
<1>3. CASE ends # {}
    <2>1. ends \subseteq Nat
        BY Positive
    <2>2. Min(ends) \in Nat
        BY <1>3, <2>1, MinElement
    <2>. HIDE DEF ends
    <2>. DEFINE n == Min(ends)
    <2>. HIDE DEF n
    <2>3. text \in Seq(0 .. Byte - 1)
        <3>1. n \in Nat
            BY <2>2 DEF n
        <3>2. [k \in 1 .. n |-> at(k - 1)] \in [1 .. n -> 0 .. Byte - 1]
            BY <1>2, <3>1
        <3>3. [k \in 1 .. n |-> at(k - 1)] \in Seq(0 .. Byte - 1)
            BY <3>1, <3>2
        <3>. QED BY <3>3 DEF n
    <2>4. s.screen \o text \in Seq(0 .. Byte - 1)
        <3>. HIDE DEF text
        <3>. QED BY <2>3, GoodTypes
    <2>. HIDE DEF text
    <2>5. Good([s EXCEPT !.screen = s.screen \o text])
        BY <2>4, ScreenGood
    <2>. QED BY <1>1, <1>3, <2>5
<1>. HIDE DEF ends, text
<1>. QED BY <1>1, <1>3, HangGood

LEMMA VideoGood == ASSUME NEW s, Good(s), NEW fn PROVE Good(Video(s, fn))
<1>1. GetReg(s, 1, EAX) \in 0 .. Byte - 1
    BY GetRegType, Registers, NumberType
<1>2. Append(s.screen, GetReg(s, 1, EAX)) \in Seq(0 .. Byte - 1)
    BY <1>1, GoodTypes
<1>3. Good([s EXCEPT !.screen = Append(s.screen, GetReg(s, 1, EAX))])
    BY <1>2, ScreenGood
<1>. QED BY <1>3, HangGood DEF Video

LEMMA KeyboardGood == ASSUME NEW s, Good(s), NEW fn, NEW answer \in Nat PROVE Good(Keyboard(s, fn, answer))
<1>. DEFINE t == SetReg(s, 1, EAX, answer)
            u == SetReg(t, 1, 4, answer)
<1>1. Good(t)
    <2>1. EAX \in 0 .. 7 /\ answer \in Int
        BY Registers
    <2>. QED BY <2>1, SetRegGood
<1>2. Keyboard(s, fn, answer) = CASE fn = \h00 -> u [] fn = \h02 -> t [] OTHER -> Hang(s)
    BY DEF Keyboard
<1>. HIDE DEF t
<1>3. Good(u)
    BY <1>1, SetRegGood
<1>. HIDE DEF u
<1>. QED BY <1>1, <1>2, <1>3, HangGood

LEMMA IntGood ==
    ASSUME NEW s, Good(s), NEW d, NEW answer \in Nat
    PROVE  Good(do_int(s, d, answer))
<1>1. Good(SetReg(s, 4, EAX, answer)) /\ Good(SetReg(s, 2, EDX, answer))
    <2>1. EAX \in 0 .. 7 /\ EDX \in 0 .. 7 /\ answer \in Int
        BY Registers
    <2>. QED BY <2>1, SetRegGood
<1>2. Good([s EXCEPT !.status = "exits"])
    BY StatusGood
<1>. DEFINE vector == Read(s, d.src1)
            fn == GetReg(s, 1, 4)
<1>. HIDE DEF vector, fn
<1>3. do_int(s, d, answer) =
        CASE vector = \h80 -> SetReg(s, 4, EAX, answer)
         [] vector = \h21 -> IF fn = \h09 THEN Printed(s) ELSE Hang(s)
         [] vector = \h10 -> Video(s, fn)
         [] vector = \h16 -> Keyboard(s, fn, answer)
         [] vector = \h1A -> IF fn = \h00 THEN SetReg(s, 2, EDX, answer) ELSE Hang(s)
         [] vector = \h20 -> [s EXCEPT !.status = "exits"]
         [] OTHER -> Hang(s)
    BY DEF do_int, vector, fn
<1>. QED BY <1>1, <1>2, <1>3, PrintedGood, VideoGood, KeyboardGood, HangGood

----------------------------------------------------------------------------
(* Decoding *)

\* What the program memory holds.
LEMMA CodeType ==
    ASSUME task \in Tasks, NEW e \in Int
    PROVE  Code(e) \in Number(4) /\ Code(e) \in Nat /\ CodeByte(e) \in 0 .. 255
<1>1. Code(e) \in Number(4)
    <2>1. task.code \in Seq(0 .. W(4) - 1)
        BY ProgramAssumption
    <2>2. CASE e + 1 \in DOMAIN task.code
        <3>. DEFINE N == Number(4)
                    code == task.code
        <3>1. code \in Seq(N)
            BY <2>1 DEF Number
        <3>2. Code(e) = code[e + 1] /\ e + 1 \in DOMAIN code
            BY <2>2 DEF Code
        <3>. HIDE DEF N, code
        <3>3. code[e + 1] \in N
            BY <3>1, <3>2
        <3>. QED BY <3>2, <3>3 DEF N
    <2>3. CASE e + 1 \notin DOMAIN task.code
        BY <2>3, NumberType DEF Code
    <2>. QED BY <2>2, <2>3
<1>2. Code(e) \in Nat
    BY <1>1, NumberType
<1>. QED BY <1>1, <1>2 DEF CodeByte

\* A place in memory with the segment that its register stands for.
PlaceOK(p) == p.offset \in Int /\ p.sr \in {0, SS} /\ p.bytes \in Nat

LEMMA PlaceType ==
    ASSUME NEW offset \in Int, NEW sr \in {0, SS}, NEW bytes \in Nat
    PROVE  PlaceOK(Place(offset, sr, bytes))
BY DEF Place, PlaceOK

\* Places by base, index and scale.
LEMMA SibOK ==
    ASSUME task \in Tasks, NEW s, Good(s), NEW e \in Int, NEW mod
    PROVE  PlaceOK(Sib(s, e, mod))
<1>. DEFINE sib == CodeByte(e)
            b == sib % 8
            x == (sib \div 8) % 8
            scale == Scale(sib)
            index == IF x = 4 THEN 0 ELSE s.regs[x] * scale
<1>1. sib \in 0 .. 255
    BY CodeType
<1>2. scale \in Int
    <2>1. W(4) \in Nat
        BY Positive
    <2>2. W(4) \div 4 \in Int /\ W(4) \div 2 \in Int
        BY <2>1
    <2>. HIDE DEF sib
    <2>. QED BY <1>1, <2>2 DEF Scale
<1>3. b \in 0 .. 7 /\ x \in 0 .. 7
    <2>. HIDE DEF sib
    <2>. QED BY <1>1
<1>4. s.regs[x] \in Int /\ s.regs[b] \in Int
    <2>. HIDE DEF x, b
    <2>. QED BY <1>3, RegType
<1>5. index \in Int
    <2>. DEFINE v == s.regs[x]
    <2>1. v \in Int
        BY <1>4
    <2>. HIDE DEF v, scale
    <2>2. v * scale \in Int
        BY <1>2, <2>1
    <2>. QED BY <2>2 DEF v
<1>6. Code(e + 1) \in Int
    BY CodeType
<1>. HIDE DEF b, index
<1>7. PlaceOK(Place(Code(e + 1) + index, 0, 5))
    BY <1>5, <1>6, PlaceType
<1>8. PlaceOK(Place(s.regs[b] + index, IF b \in {4, 5} THEN SS ELSE 0, 1))
    BY <1>4, <1>5, PlaceType
<1>9. Sib(s, e, mod) = IF b = 5 /\ mod = 0 THEN Place(Code(e + 1) + index, 0, 5)
                       ELSE Place(s.regs[b] + index, IF b \in {4, 5} THEN SS ELSE 0, 1)
    BY Zenon DEF Sib, b, index, x, sib, scale
<1>. QED BY <1>7, <1>8, <1>9

\* Places in 32 and in 16 bits.
LEMMA PlacesOK ==
    ASSUME task \in Tasks, NEW s, Good(s), NEW e \in Int, NEW mod, NEW r \in 0 .. 7
    PROVE  PlaceOK(Place32(s, e, mod, r)) /\ PlaceOK(Place16(s, e, mod, r))
<1>1. Code(e) \in Int /\ PlaceOK(Sib(s, e, mod))
    BY CodeType, SibOK
<1>2. PlaceOK(Place32(s, e, mod, r))
    <2>1. s.regs[r] \in Int /\ s.regs[EBP] \in Int
        BY RegType, Registers
    <2>2. /\ PlaceOK(Place(s.regs[r], 0, 0)) /\ PlaceOK(Place(Code(e), 0, 4))
          /\ PlaceOK(Place(s.regs[EBP], SS, 0))
        BY <1>1, <2>1, PlaceType
    <2>. QED BY <1>1, <2>2 DEF Place32
<1>3. PlaceOK(Place16(s, e, mod, r))
    <2>. DEFINE index == GetReg(s, 2, IF r % 2 = 0 THEN ESI ELSE EDI)
                bx == GetReg(s, 2, EBX)
                bp == GetReg(s, 2, EBP)
    <2>1. index \in Int /\ bx \in Int /\ bp \in Int
        <3>1. ASSUME NEW q \in 0 .. 7 PROVE GetReg(s, 2, q) \in Int
            <4>1. GetReg(s, 2, q) \in Number(2)
                BY GetRegType
            <4>. QED BY <4>1, NumberType
        <3>. QED BY <3>1, Registers
    <2>. HIDE DEF index, bx, bp
    <2>2. /\ PlaceOK(Place(bx + index, 0, 0)) /\ PlaceOK(Place(bp + index, SS, 0))
          /\ PlaceOK(Place(index, 0, 0)) /\ PlaceOK(Place(Code(e), 0, 2))
          /\ PlaceOK(Place(bp, SS, 0)) /\ PlaceOK(Place(bx, 0, 0))
        BY <1>1, <2>1, PlaceType
    <2>. QED BY <2>2 DEF Place16, index, bx, bp
<1>. QED BY <1>2, <1>3

\* What the Mod R/M byte stands for.
RMOK(rm) ==
    /\ rm.eip \in Nat /\ rm.sr \in {0, SS}
    /\ \/ rm.type = "REGISTER" /\ rm.id \in 0 .. 7
       \/ rm.type = "MEM" /\ rm.id \in Nat

\* The r/m operand.
LEMMA DecodeRMOK ==
    ASSUME task \in Tasks, NEW s, Good(s), NEW e \in Nat
    PROVE  RMOK(DecodeRM(s, e))
<1>. DEFINE mod == CodeByte(e) \div 64
            r == CodeByte(e) % 8
            size == IF Addr32 THEN 4 ELSE 2
            p == IF Addr32 THEN Place32(s, e + 1, mod, r) ELSE Place16(s, e + 1, mod, r)
            d == e + 1 + p.bytes
            disp == CASE mod = 0 -> 0
                      [] mod = 1 -> SX(1, Code(d))
                      [] mod = 2 -> Code(d)
            next == d + (CASE mod = 0 -> 0 [] mod = 1 -> 1 [] mod = 2 -> size)
<1>1. DecodeRM(s, e) =
        IF mod = 3 THEN [type |-> "REGISTER", id |-> r, sr |-> 0, eip |-> e + 1]
        ELSE [type |-> "MEM", id |-> (p.offset + disp) % W(size), sr |-> p.sr, eip |-> next]
    BY Zenon DEF DecodeRM
<1>2. mod \in 0 .. 3 /\ r \in 0 .. 7
    <2>. DEFINE c == CodeByte(e)
    <2>1. c \in 0 .. 255
        BY CodeType
    <2>. HIDE DEF c
    <2>. QED BY <2>1 DEF c
<1>. HIDE DEF mod, r
<1>3. PlaceOK(p)
    <2>1. e + 1 \in Int
        OBVIOUS
    <2>. QED BY <1>2, <2>1, PlacesOK
<1>4. size \in {2, 4}
    OBVIOUS
<1>. HIDE DEF size, p
<1>5. d \in Nat /\ p.offset \in Int /\ p.sr \in {0, SS}
    BY <1>3 DEF PlaceOK
<1>. HIDE DEF d
<1>6. Code(d) \in Int /\ SX(1, Code(d)) \in Int
    BY <1>5, CodeType, SXType
<1>7. mod # 3 => disp \in Int /\ next \in Nat
    BY <1>2, <1>4, <1>5, <1>6
<1>. HIDE DEF disp, next
<1>8. CASE mod = 3
    BY <1>1, <1>2, <1>8 DEF RMOK
<1>9. CASE mod # 3
    <2>1. p.offset + disp \in Int
        BY <1>5, <1>7, <1>9
    <2>2. (p.offset + disp) % W(size) \in Nat
        <3>. DEFINE v == p.offset + disp
        <3>1. v % W(size) \in Number(size) /\ Number(size) \subseteq Nat
            <4>1. v \in Int
                BY <2>1
            <4>. HIDE DEF v
            <4>. QED BY <1>4, <4>1, Cut, NumberType
        <3>. QED BY <3>1
    <2>. QED BY <1>1, <1>5, <1>7, <1>9, <2>2 DEF RMOK
<1>. QED BY <1>8, <1>9

\* Sizes, and what operands take of the code.
LEMMA RealSizeType ==
    ASSUME NEW n \in {1, 2, SZ_1632, SZ_816, SZ_3248, SZ_3264}
    PROVE  /\ RealSize(n) \in {1, 2, 4, 6, 8}
           /\ n \in {1, 2, SZ_1632, SZ_816} => RealSize(n) \in {1, 2, 4}
           /\ n = SZ_3264 => RealSize(n) \in {4, 8}
           /\ \A type : OperandBytes(type, RealSize(n)) \in Nat
<1>1. /\ RealSize(n) \in {1, 2, 4, 6, 8}
      /\ n \in {1, 2, SZ_1632, SZ_816} => RealSize(n) \in {1, 2, 4}
      /\ n = SZ_3264 => RealSize(n) \in {4, 8}
    BY DEF RealSize, SZ_1632, SZ_816, SZ_3248, SZ_3264
<1>2. \A type : OperandBytes(type, RealSize(n)) \in Nat
    BY <1>1 DEF OperandBytes
<1>. QED BY <1>1, <1>2

\* What DecodeOperand makes of an operand of a row.
DecodedAs(x, o, rm) ==
    /\ OperandOK(x) /\ x.id \in Int
    /\ x.type = "SEG_REG" <=> o.type \in SegmentTypes
    /\ x.type = "EDX_EAX" => o.type = "EDX_EAX"
    /\ o.type \in {"CONST_REG", "RM_MODRM"} => x.size = RealSize(o.size)
    /\ RMOK(rm) /\ o.type = "RM_MODRM" => InRegister(x) \/ Memory(x)

\* decode_operand
LEMMA OperandDecoded ==
    ASSUME task \in Tasks, Overrides, NEW e \in Nat, NEW reg \in 0 .. 7, NEW o, RowOperand(o),
           NEW rm, RMOK(rm) \/ (rm.type = "NONE" /\ rm.id = 0)
    PROVE  DecodedAs(DecodeOperand(e, rm, reg, o), o, rm)
<1>. DEFINE n == RealSize(o.size)
<1>1. /\ o.type # "EDX_EAX" => n \in {1, 2, 4}
      /\ o.type = "EDX_EAX" => n \in {4, 8}
      /\ OperandBytes(o.type, n) \in Nat
    <2>1. CASE o.type = "EDX_EAX"
        BY <2>1, RealSizeType DEF RowOperand, SZ_3264, SZ_1632, SZ_816
    <2>2. CASE o.type # "EDX_EAX"
        BY <2>2, RealSizeType DEF RowOperand
    <2>. QED BY <2>1, <2>2
<1>2. Code(e) \in Number(4) /\ Code(e) \in Nat
    BY CodeType
<1>3. o.type # "EDX_EAX" =>
        /\ U32(SX(n, Code(e))) \in Number(4)
        /\ U32(e + OperandBytes(o.type, n) + SX(n, Code(e))) \in Number(4)
    <2>1. SUFFICES ASSUME o.type # "EDX_EAX"
                   PROVE  /\ U32(SX(n, Code(e))) \in Number(4)
                          /\ U32(e + OperandBytes(o.type, n) + SX(n, Code(e))) \in Number(4)
        OBVIOUS
    <2>. DEFINE v == SX(n, Code(e))
    <2>2. v \in Int
        BY <1>1, <1>2, <2>1, SXType
    <2>. HIDE DEF v
    <2>3. e + OperandBytes(o.type, n) + v \in Int
        BY <1>1, <2>2
    <2>4. U32(v) \in Number(4) /\ U32(e + OperandBytes(o.type, n) + v) \in Number(4)
        BY <2>2, <2>3, U32Type
    <2>. QED BY <2>4 DEF v
<1>4. Number(4) \subseteq Nat
    BY NumberType
<1>. HIDE DEF n
<1>5. o.value \in 0 .. 7 /\ (o.type = "CONSTANT" => o.value \in Number(4))
    <2>1. W(4) \in Nat /\ W(4) >= 2
        BY Positive, ByteAssumption DEF W
    <2>2. 0 \in Number(4) /\ 1 \in Number(4)
        BY <2>1 DEF Number
    <2>. QED BY <2>2 DEF RowOperand
<1>6. sgmt_override \in 0 .. 7 /\ (RMOK(rm) => Segment(rm) \in 0 .. 7)
    BY DEF Overrides, Segment, RMOK, SS
<1>7. CASE o.type = "NONE"
    <2>. DEFINE x == Decoded("NONE", o.size, 0, 0)
    <2>1. DecodeOperand(e, rm, reg, o) = x
        BY <1>1, <1>7 DEF DecodeOperand, n
    <2>2. DecodedAs(x, o, rm)
        BY <1>1, <1>2, <1>3, <1>4, <1>5, <1>6, <1>7
        DEF Decoded, DecodedAs, OperandOK, InRegister, Memory, SegmentTypes, RMOK, n
    <2>. QED BY <2>1, <2>2
<1>8. CASE o.type = "OFFSET"
    <2>. DEFINE x == Decoded("MEM", n, Code(e), sgmt_override)
    <2>1. DecodeOperand(e, rm, reg, o) = x
        BY <1>1, <1>8 DEF DecodeOperand, n
    <2>2. DecodedAs(x, o, rm)
        BY <1>1, <1>2, <1>3, <1>4, <1>5, <1>6, <1>8
        DEF Decoded, DecodedAs, OperandOK, InRegister, Memory, SegmentTypes, RMOK, n
    <2>. QED BY <2>1, <2>2
<1>9. CASE o.type \in {"RM_MODRM", "MEM_MODRM"}
    <2>. DEFINE x == Decoded(rm.type, n, rm.id, Segment(rm))
    <2>1. DecodeOperand(e, rm, reg, o) = x
        BY <1>1, <1>9 DEF DecodeOperand, n
    <2>2. DecodedAs(x, o, rm)
        BY <1>1, <1>2, <1>3, <1>4, <1>5, <1>6, <1>9
        DEF Decoded, DecodedAs, OperandOK, InRegister, Memory, SegmentTypes, RMOK, n
    <2>. QED BY <2>1, <2>2
<1>10. CASE o.type = "REG_MODRM"
    <2>. DEFINE x == Decoded("REGISTER", n, reg, 0)
    <2>1. DecodeOperand(e, rm, reg, o) = x
        BY <1>1, <1>10 DEF DecodeOperand, n
    <2>2. DecodedAs(x, o, rm)
        BY <1>1, <1>2, <1>3, <1>4, <1>5, <1>6, <1>10
        DEF Decoded, DecodedAs, OperandOK, InRegister, Memory, SegmentTypes, RMOK, n
    <2>. QED BY <2>1, <2>2
<1>11. CASE o.type = "SEG_REG_MODRM"
    <2>. DEFINE x == Decoded("SEG_REG", n, reg, 0)
    <2>1. DecodeOperand(e, rm, reg, o) = x
        BY <1>1, <1>11 DEF DecodeOperand, n
    <2>2. DecodedAs(x, o, rm)
        BY <1>1, <1>2, <1>3, <1>4, <1>5, <1>6, <1>11
        DEF Decoded, DecodedAs, OperandOK, InRegister, Memory, SegmentTypes, RMOK, n
    <2>. QED BY <2>1, <2>2
<1>12. CASE o.type = "CONST_REG"
    <2>. DEFINE x == Decoded("REGISTER", n, o.value, 0)
    <2>1. DecodeOperand(e, rm, reg, o) = x
        BY <1>1, <1>12 DEF DecodeOperand, n
    <2>2. DecodedAs(x, o, rm)
        BY <1>1, <1>2, <1>3, <1>4, <1>5, <1>6, <1>12
        DEF Decoded, DecodedAs, OperandOK, InRegister, Memory, SegmentTypes, RMOK, n
    <2>. QED BY <2>1, <2>2
<1>13. CASE o.type = "CONST_SEG_REG"
    <2>. DEFINE x == Decoded("SEG_REG", n, o.value, 0)
    <2>1. DecodeOperand(e, rm, reg, o) = x
        BY <1>1, <1>13 DEF DecodeOperand, n
    <2>2. DecodedAs(x, o, rm)
        BY <1>1, <1>2, <1>3, <1>4, <1>5, <1>6, <1>13
        DEF Decoded, DecodedAs, OperandOK, InRegister, Memory, SegmentTypes, RMOK, n
    <2>. QED BY <2>1, <2>2
<1>14. CASE o.type = "SIMM"
    <2>. DEFINE x == Decoded("IMM", n, U32(SX(n, Code(e))), 0)
    <2>1. DecodeOperand(e, rm, reg, o) = x
        BY <1>1, <1>14 DEF DecodeOperand, n
    <2>2. DecodedAs(x, o, rm)
        BY <1>1, <1>2, <1>3, <1>4, <1>5, <1>6, <1>14
        DEF Decoded, DecodedAs, OperandOK, InRegister, Memory, SegmentTypes, RMOK, n
    <2>. QED BY <2>1, <2>2
<1>15. CASE o.type = "IMM"
    <2>. DEFINE x == Decoded("IMM", n, Code(e), 0)
    <2>1. DecodeOperand(e, rm, reg, o) = x
        BY <1>1, <1>15 DEF DecodeOperand, n
    <2>2. DecodedAs(x, o, rm)
        BY <1>1, <1>2, <1>3, <1>4, <1>5, <1>6, <1>15
        DEF Decoded, DecodedAs, OperandOK, InRegister, Memory, SegmentTypes, RMOK, n
    <2>. QED BY <2>1, <2>2
<1>16. CASE o.type = "CONSTANT"
    <2>. DEFINE x == Decoded("IMM", n, o.value, 0)
    <2>1. DecodeOperand(e, rm, reg, o) = x
        BY <1>1, <1>16 DEF DecodeOperand, n
    <2>2. DecodedAs(x, o, rm)
        BY <1>1, <1>2, <1>3, <1>4, <1>5, <1>6, <1>16
        DEF Decoded, DecodedAs, OperandOK, InRegister, Memory, SegmentTypes, RMOK, n
    <2>. QED BY <2>1, <2>2
<1>17. CASE o.type = "EDX_EAX"
    <2>. DEFINE x == Decoded("EDX_EAX", n, 0, 0)
    <2>1. DecodeOperand(e, rm, reg, o) = x
        BY <1>1, <1>17 DEF DecodeOperand, n
    <2>2. DecodedAs(x, o, rm)
        BY <1>1, <1>2, <1>3, <1>4, <1>5, <1>6, <1>17
        DEF Decoded, DecodedAs, OperandOK, InRegister, Memory, SegmentTypes, RMOK, n
    <2>. QED BY <2>1, <2>2
<1>18. CASE o.type = "IP_REL"
    <2>. DEFINE x == Decoded("IMM", n, U32(e + OperandBytes(o.type, n) + SX(n, Code(e))), 0)
    <2>1. DecodeOperand(e, rm, reg, o) = x
        BY <1>1, <1>18 DEF DecodeOperand, n
    <2>2. DecodedAs(x, o, rm)
        BY <1>1, <1>2, <1>3, <1>4, <1>5, <1>6, <1>18
        DEF Decoded, DecodedAs, OperandOK, InRegister, Memory, SegmentTypes, RMOK, n
    <2>. QED BY <2>1, <2>2
<1>. QED BY <1>7, <1>8, <1>9, <1>10, <1>11, <1>12, <1>13, <1>14, <1>15, <1>16, <1>17, <1>18 DEF RowOperand

\* What the handlers may count on.
DecodedOK(d) ==
    /\ Good(d.next) /\ d.reg \in 0 .. 7 /\ d.inst.sub \in 0 .. 17
    /\ d.inst.op \in Handled =>
         /\ OperandOK(d.dst) /\ OperandOK(d.src1) /\ OperandOK(d.src2) /\ d.src1.id \in Int
         /\ d.dst.type = "SEG_REG" <=> d.inst.op \in {"MOV_TO_SR", "POP_SR"}
    /\ d.inst.op = "XCHG" => d.src1.type # "SEG_REG" /\ d.src2.type # "SEG_REG"
    /\ d.inst.op \in {"CALL_NEAR", "RETN", "JUMP", "LOOP"} => d.src1.type # "EDX_EAX"
    /\ d.inst.op = "ST_FLAG" => d.inst.sub \in {CARRY, INTERRUPT, DIRECTION}
    /\ d.inst.op = "ALU" => d.inst.sub \in 0 .. 8
    /\ d.inst.op = "ALU_SPECIAL" =>
         /\ d.inst.sub \in 0 .. 7
         /\ "WRITE_DX" \in d.inst.flags => d.dst.size \in {1, 2, 4}
         /\ d.inst.sub \in {6, 7} => /\ InRegister(d.src2) \/ Memory(d.src2)
                                     /\ d.src2.size = d.dst.size

\* All three operands.
LEMMA OperandsOK ==
    ASSUME task \in Tasks, Overrides, NEW s, Good(s), NEW reg \in 0 .. 7, NEW i, FixedOK(i),
           NEW rm, rm.eip \in Nat, RMOK(rm) \/ (rm.type = "NONE" /\ rm.id = 0),
           i.op = "ALU_SPECIAL" /\ i.sub \in {6, 7} => RMOK(rm)
    PROVE  DecodedOK(Operands(s, rm, reg, i))
<1>. DEFINE d == Operands(s, rm, reg, i)
            x == OperandBytes(i.dest.type, RealSize(i.dest.size))
            y == OperandBytes(i.src1.type, RealSize(i.src1.size))
            z == OperandBytes(i.src2.type, RealSize(i.src2.size))
            e1 == rm.eip + x
            e2 == e1 + y
            e3 == U32(e2 + z)
            a == DecodeOperand(rm.eip, rm, reg, i.dest)
            b == DecodeOperand(e1, rm, reg, i.src1)
            c == DecodeOperand(e2, rm, reg, i.src2)
<1>1. /\ d.inst = i /\ d.reg = reg /\ d.dst = a /\ d.src1 = b /\ d.src2 = c
      /\ d.next = [s EXCEPT !.eip = e3, !.old_eip = e3]
    BY DEF Operands
<1>. HIDE DEF d
<1>2. e1 \in Nat /\ e2 \in Nat /\ e3 \in Number(4)
    <2>1. x \in Nat /\ y \in Nat /\ z \in Nat
        BY RealSizeType DEF FixedOK, RowShape
    <2>. HIDE DEF x, y, z
    <2>2. e1 \in Nat /\ e2 \in Nat /\ e2 + z \in Int
        BY <2>1
    <2>. HIDE DEF e1, e2
    <2>3. U32(e2 + z) \in Number(4)
        BY <2>2, U32Type
    <2>. QED BY <2>2, <2>3
<1>. HIDE DEF e1, e2, e3, a, b, c
<1>3. Good(d.next)
    <2>1. Good([s EXCEPT !.eip = e3, !.old_eip = e3])
        BY <1>2, NextGood
    <2>. QED BY <1>1, <2>1
<1>4. i.op \in Handled => DecodedAs(a, i.dest, rm) /\ DecodedAs(b, i.src1, rm) /\ DecodedAs(c, i.src2, rm)
    <2>1. SUFFICES ASSUME i.op \in Handled
                   PROVE  DecodedAs(a, i.dest, rm) /\ DecodedAs(b, i.src1, rm) /\ DecodedAs(c, i.src2, rm)
        OBVIOUS
    <2>2. RowOperand(i.dest) /\ RowOperand(i.src1) /\ RowOperand(i.src2)
        BY <2>1 DEF FixedOK, RowShape
    <2>. QED BY <1>2, <2>2, OperandDecoded DEF a, b, c
<1>5. d.inst.op \in Handled =>
        /\ OperandOK(d.dst) /\ OperandOK(d.src1) /\ OperandOK(d.src2) /\ d.src1.id \in Int
        /\ d.dst.type = "SEG_REG" <=> d.inst.op \in {"MOV_TO_SR", "POP_SR"}
    BY <1>1, <1>4 DEF DecodedAs, FixedOK, RowShape
<1>6. /\ d.inst.op = "XCHG" => d.src1.type # "SEG_REG" /\ d.src2.type # "SEG_REG"
      /\ d.inst.op \in {"CALL_NEAR", "RETN", "JUMP", "LOOP"} => d.src1.type # "EDX_EAX"
    BY <1>1, <1>4 DEF DecodedAs, FixedOK, RowShape, Handled
<1>7. /\ d.inst.sub \in 0 .. 17
      /\ d.inst.op = "ST_FLAG" => d.inst.sub \in {CARRY, INTERRUPT, DIRECTION}
      /\ d.inst.op = "ALU" => d.inst.sub \in 0 .. 8
    BY <1>1 DEF FixedOK, RowShape
<1>8. d.inst.op = "ALU_SPECIAL" =>
        /\ d.inst.sub \in 0 .. 7
        /\ "WRITE_DX" \in d.inst.flags => d.dst.size \in {1, 2, 4}
        /\ d.inst.sub \in {6, 7} => /\ InRegister(d.src2) \/ Memory(d.src2)
                                    /\ d.src2.size = d.dst.size
    <2>1. SUFFICES ASSUME i.op = "ALU_SPECIAL"
                   PROVE  /\ i.sub \in 0 .. 7
                          /\ "WRITE_DX" \in i.flags => a.size \in {1, 2, 4}
                          /\ i.sub \in {6, 7} => /\ InRegister(c) \/ Memory(c)
                                                 /\ c.size = a.size
        BY <1>1
    <2>2. DecodedAs(a, i.dest, rm) /\ DecodedAs(c, i.src2, rm)
        BY <1>4, <2>1 DEF Handled
    <2>3. i.sub \in 0 .. 7
        BY <2>1 DEF FixedOK
    <2>4. ASSUME "WRITE_DX" \in i.flags PROVE a.size \in {1, 2, 4}
        <3>1. i.dest.type = "CONST_REG" /\ i.dest.size \in {1, SZ_1632}
            BY <2>1, <2>4 DEF FixedOK
        <3>2. RealSize(i.dest.size) \in {1, 2, 4}
            BY <3>1, RealSizeType
        <3>. QED BY <2>2, <3>1, <3>2 DEF DecodedAs
    <2>5. ASSUME i.sub \in {6, 7} PROVE (InRegister(c) \/ Memory(c)) /\ c.size = a.size
        <3>1. i.src2.type = "RM_MODRM" /\ i.src2.size = i.dest.size /\ i.dest.type = "CONST_REG"
            BY <2>1, <2>5 DEF FixedOK
        <3>. QED BY <2>1, <2>2, <2>5, <3>1 DEF DecodedAs
    <2>. QED BY <2>3, <2>4, <2>5
<1>9. DecodedOK(d)
    BY <1>1, <1>3, <1>5, <1>6, <1>7, <1>8 DEF DecodedOK
<1>. QED BY <1>9 DEF d

\* Opcodes behind 0x0F and behind a repeat prefix.
LEMMA OpcodeOK ==
    ASSUME task \in Tasks, NEW e \in Nat
    PROVE  LET o == Opcode(InstructionTable(CodeByte(e)), e)
           IN RowOK(o.inst) /\ o.eip \in Nat
<1>. DEFINE first == InstructionTable(CodeByte(e))
            second == InstructionTable(CodeByte(e + 1))
            o == Opcode(first, e)
<1>1. RowOK(first) /\ RowOK(second) /\ RowOK(ExtendedInstructionTable(CodeByte(e + 1)))
    <2>1. CodeByte(e) \in 0 .. 255 /\ CodeByte(e + 1) \in 0 .. 255
        BY CodeType
    <2>. QED BY <2>1, TableOK, ExtendedOK
<1>. HIDE DEF first, second
<1>2. U32(e + 1) \in Nat /\ U32(e + 2) \in Nat
    <2>1. U32(e + 1) \in Number(4) /\ U32(e + 2) \in Number(4)
        BY U32Type
    <2>. QED BY <2>1, NumberType
<1>3. CASE first.op = "EXTENDED"
    BY <1>1, <1>2, <1>3 DEF Opcode, first
<1>4. CASE first.op \in {"REPEZ", "REPNE"}
    <2>1. RowOK([second EXCEPT !.op = first.op])
        <3>1. PICK p, k, f, a, b, c : second = Inst(p, k, f, a, b, c)
            BY <1>1 DEF RowOK, RowShape
        <3>. DEFINE i == Inst(first.op, k, f, a, b, c)
        <3>2. [second EXCEPT !.op = first.op] = i
            BY <3>1 DEF Inst
        <3>3. /\ i = Inst(i.op, i.sub, i.flags, i.dest, i.src1, i.src2)
              /\ i.op = first.op /\ i.sub = k /\ i.dest = a /\ i.src1 = b /\ i.src2 = c
            BY DEF Inst
        <3>. HIDE DEF i
        <3>4. k \in 0 .. 17 /\ {a.size, b.size, c.size} \subseteq {1, 2, SZ_1632, SZ_816, SZ_3248, SZ_3264}
            BY <1>1, <3>1 DEF RowOK, RowShape, Inst
        <3>5. RowShape(i)
            BY <1>4, <3>3, <3>4 DEF RowShape, Handled
        <3>6. RowOK(i)
            BY <1>4, <3>3, <3>5 DEF RowOK
        <3>. QED BY <3>2, <3>6
    <2>. QED BY <1>2, <1>4, <2>1 DEF Opcode, first, second
<1>5. CASE first.op \notin {"EXTENDED", "REPEZ", "REPNE"}
    BY <1>1, <1>2, <1>5 DEF Opcode, first
<1>. QED BY <1>3, <1>4, <1>5

\* Every instruction of every program is decoded into what the handlers count on.
LEMMA DecodeOK ==
    ASSUME task \in Tasks, Overrides, NEW s, Good(s)
    PROVE  DecodedOK(Decode(s))
<1>. DEFINE o == Opcode(InstructionTable(CodeByte(s.eip)), s.eip)
            reg == (CodeByte(o.eip) \div 8) % 8
            rm == DecodeRM(s, o.eip)
            none == [type |-> "NONE", id |-> 0, sr |-> 0, eip |-> o.eip]
<1>1. s.eip \in Nat
    BY GoodTypes, NumberType
<1>2. RowOK(o.inst) /\ o.eip \in Nat
    BY <1>1, OpcodeOK
<1>3. Decode(s) = IF "MODRM" \in o.inst.flags THEN Operands(s, rm, reg, Fixup(o.inst, reg))
                  ELSE Operands(s, none, 0, Fixup(o.inst, 0))
    BY Zenon DEF Decode, DecodeAt
<1>. HIDE DEF o
<1>4. reg \in 0 .. 7
    <2>. DEFINE x == CodeByte(o.eip)
    <2>1. x \in 0 .. 255
        BY <1>2, CodeType
    <2>. HIDE DEF x
    <2>2. (x \div 8) % 8 \in 0 .. 7
        BY <2>1
    <2>. QED BY <2>2 DEF x
<1>5. RMOK(rm)
    BY <1>2, DecodeRMOK
<1>6. none.type = "NONE" /\ none.id = 0 /\ none.eip \in Nat
    BY <1>2
<1>. HIDE DEF reg, rm, none
<1>7. CASE "MODRM" \in o.inst.flags
    <2>1. FixedOK(Fixup(o.inst, reg))
        BY <1>2, <1>4, FixupOK
    <2>2. DecodedOK(Operands(s, rm, reg, Fixup(o.inst, reg)))
        BY <1>4, <1>5, <2>1, OperandsOK DEF RMOK
    <2>. QED BY <1>3, <1>7, <2>2
<1>8. CASE "MODRM" \notin o.inst.flags
    <2>. DEFINE i == Fixup(o.inst, 0)
    <2>1. FixedOK(i) /\ ~(i.op = "ALU_SPECIAL" /\ i.sub \in {6, 7})
        BY <1>2, <1>8, FixupOK
    <2>. HIDE DEF i
    <2>2. DecodedOK(Operands(s, none, 0, i))
        BY <1>6, <2>1, OperandsOK
    <2>. QED BY <1>3, <1>8, <2>2 DEF i
<1>. QED BY <1>7, <1>8

----------------------------------------------------------------------------
(* Steps *)

\* What every step keeps: the machine, and what the prefixes and repetitions set.
CoreInv ==
    /\ task \in Tasks /\ Good(m) /\ Overrides
    /\ frames \subseteq PrefixOps /\ rep.on \in BOOLEAN /\ rep.sub \in Nat

\* Where an instruction ends.
LEMMA FinishKeeps ==
    ASSUME CoreInv, NEW s, Good(s), Finish(s)
    PROVE  CoreInv'
<1>1. task' = task /\ m' = s
    BY DEF Finish
<1>2. Good(m')
    BY <1>1
<1>3. CASE s.status = "runs"
    <2>1. Return
        BY <1>3 DEF Finish
    <2>. QED BY <1>1, <1>2, <2>1 DEF CoreInv, Overrides, Return, NoRep, DS
<1>4. CASE s.status # "runs"
    <2>1. UNCHANGED <<over, frames, rep>>
        BY <1>4 DEF Finish
    <2>. QED BY <1>1, <1>2, <2>1 DEF CoreInv, Overrides, over
<1>. QED BY <1>3, <1>4

LEMMA PrefixKeeps == ASSUME CoreInv, Prefix PROVE CoreInv'
<1>. DEFINE p == InstructionTable(CodeByte(m.eip))
<1>1. m.eip \in Nat
    BY GoodTypes, NumberType DEF CoreInv
<1>2. RowOK(p)
    <2>1. CodeByte(m.eip) \in 0 .. 255
        BY <1>1, CodeType DEF CoreInv
    <2>. QED BY <2>1, TableOK
<1>3. /\ p.op \in PrefixOps
      /\ op_override' = IF p.op = "OP_SZ_OVERRIDE" THEN 1 ELSE op_override
      /\ addr_override' = IF p.op = "ADDR_SZ_OVERRIDE" THEN 1 ELSE addr_override
      /\ sgmt_override' = IF p.op = "SEGMENT_OVERRIDE" THEN p.sub ELSE sgmt_override
      /\ overriding_sgmt' = IF p.op = "SEGMENT_OVERRIDE" THEN 1 ELSE overriding_sgmt
      /\ frames' = frames \cup {p.op}
      /\ m' = [m EXCEPT !.eip = U32(@ + 1)]
      /\ task' = task /\ rep' = rep
    BY DEF Prefix
<1>. HIDE DEF p
<1>4. Good(m')
    <2>1. U32(m.eip + 1) \in Number(4)
        BY <1>1, U32Type
    <2>2. Good([m EXCEPT !.eip = U32(m.eip + 1)])
        BY <2>1, EipGood DEF CoreInv
    <2>. QED BY <1>3, <2>2
<1>5. p.op = "SEGMENT_OVERRIDE" => p.sub \in 0 .. 5
    BY <1>2 DEF RowOK, RowShape
<1>. QED BY <1>3, <1>4, <1>5 DEF CoreInv, Overrides

LEMMA ReadyOps ==
    ASSUME NEW d, DecodedOK(d), d.inst.op \in Handled \ {"MOV_TO_SR", "POP_SR"}
    PROVE  Ready(d)
BY DEF DecodedOK, Ready

\* The steps, a group of operations each.
LEMMA ArithmeticKeeps == ASSUME CoreInv, NEW d, DecodedOK(d), Arithmetic(d) PROVE CoreInv'
<1>1. d.inst.op \in {"ALU", "ALU_SPECIAL", "SHIFT", "INCDEC", "CBW_CWDE", "CWD_CDQ"}
    BY DEF Arithmetic, Is
<1>2. Good(d.next) /\ Ready(d)
    BY <1>1, ReadyOps DEF DecodedOK, Handled
<1>3. CASE Is("ALU", d) /\ Finish(do_alu_op(d.next, d))
    <2>1. Good(do_alu_op(d.next, d))
        BY <1>2, <1>3, AluGood DEF Is, DecodedOK
    <2>. QED BY <1>3, <2>1, FinishKeeps
<1>4. CASE Is("ALU_SPECIAL", d) /\ Finish(do_alu_special(d.next, d))
    <2>1. Good(do_alu_special(d.next, d))
        BY <1>2, <1>4, SpecialGood DEF Is, DecodedOK
    <2>. QED BY <1>4, <2>1, FinishKeeps
<1>5. CASE Is("SHIFT", d) /\ Finish(do_shift(d.next, d))
    <2>1. Good(do_shift(d.next, d))
        BY <1>2, ShiftGood
    <2>. QED BY <1>5, <2>1, FinishKeeps
<1>6. CASE Is("INCDEC", d) /\ Finish(do_incdec(d.next, d))
    <2>1. Good(do_incdec(d.next, d))
        BY <1>2, IncDecGood
    <2>. QED BY <1>6, <2>1, FinishKeeps
<1>7. CASE \/ Is("CBW_CWDE", d) /\ Finish(do_cbw_cwde(d.next, d))
           \/ Is("CWD_CDQ", d) /\ Finish(do_cwd_cdq(d.next, d))
    <2>1. Good(do_cbw_cwde(d.next, d)) /\ Good(do_cwd_cdq(d.next, d))
        BY <1>2, ExtendGood
    <2>. QED BY <1>7, <2>1, FinishKeeps
<1>. QED BY <1>3, <1>4, <1>5, <1>6, <1>7 DEF Arithmetic

LEMMA MovesKeep == ASSUME CoreInv, NEW d, DecodedOK(d), Moves(d) PROVE CoreInv'
<1>1. Good(d.next) /\ Overrides
    BY DEF DecodedOK, CoreInv
<1>2. CASE Is("MOV", d) /\ Finish(do_mov(d.next, d))
    <2>1. Ready(d)
        BY <1>2, ReadyOps DEF Is, Handled
    <2>2. Good(do_mov(d.next, d))
        BY <1>1, <2>1, MovGood
    <2>. QED BY <1>2, <2>2, FinishKeeps
<1>3. CASE Is("LEA", d) /\ Finish(do_lea(d.next, d))
    <2>1. Ready(d) /\ d.src1.id \in Int
        BY <1>3, ReadyOps DEF Is, Handled, DecodedOK
    <2>2. Good(do_lea(d.next, d))
        BY <1>1, <2>1, LeaGood
    <2>. QED BY <1>3, <2>2, FinishKeeps
<1>4. CASE Is("XCHG", d) /\ Finish(do_xchg(d.next, d))
    <2>1. Ready(d) /\ d.src1.type # "SEG_REG" /\ d.src2.type # "SEG_REG"
        BY <1>4, ReadyOps DEF Is, Handled, DecodedOK
    <2>2. Good(do_xchg(d.next, d))
        BY <1>1, <2>1, XchgGood
    <2>. QED BY <1>4, <2>2, FinishKeeps
<1>5. CASE \/ Is("MOV_TO_SR", d) /\ Finish(do_mov_to_sr(d.next, d))
           \/ Is("POP_SR", d) /\ Finish(do_pop_sr(d.next, d))
    <2>1. OperandOK(d.dst) /\ OperandOK(d.src1) /\ d.dst.type = "SEG_REG"
        BY <1>5 DEF Is, Handled, DecodedOK
    <2>2. d.dst.id \in 0 .. 7
        BY <2>1 DEF OperandOK, InRegister, Memory
    <2>3. Good(do_mov_to_sr(d.next, d)) /\ Good(do_pop_sr(d.next, d))
        BY <1>1, <2>1, <2>2, SegmentsGood
    <2>. QED BY <1>5, <2>3, FinishKeeps
<1>6. CASE Is("XLAT", d) /\ Finish(do_xlat(d.next, d))
    <2>1. Good(do_xlat(d.next, d))
        BY <1>1, XlatGood
    <2>. QED BY <1>6, <2>1, FinishKeeps
<1>. QED BY <1>2, <1>3, <1>4, <1>5, <1>6 DEF Moves

LEMMA StackKeeps == ASSUME CoreInv, NEW d, DecodedOK(d), Stack(d) PROVE CoreInv'
<1>1. Good(d.next)
    BY DEF DecodedOK
<1>2. CASE \/ Is("PUSH", d) /\ Finish(do_push(d.next, d))
           \/ Is("POP", d) /\ Finish(do_pop(d.next, d))
           \/ Is("ENTER", d) /\ Finish(do_enter(d.next, d))
           \/ Is("LEAVE", d) /\ Finish(do_leave(d.next, d))
    <2>1. Ready(d)
        BY <1>2, ReadyOps DEF Is, Handled
    <2>2. /\ Good(do_push(d.next, d)) /\ Good(do_pop(d.next, d))
          /\ Good(do_enter(d.next, d)) /\ Good(do_leave(d.next, d))
        BY <1>1, <2>1, StackGood, EnterLeaveGood
    <2>. QED BY <1>2, <2>2, FinishKeeps
<1>3. CASE \/ Is("PUSHA", d) /\ Finish(do_pusha(d.next, d))
           \/ Is("POPA", d) /\ Finish(do_popa(d.next, d))
           \/ Is("PUSHF", d) /\ Finish(do_pushf(d.next, d))
           \/ Is("POPF", d) /\ Finish(do_popf(d.next, d))
    <2>1. /\ Good(do_pusha(d.next, d)) /\ Good(do_popa(d.next, d))
          /\ Good(do_pushf(d.next, d)) /\ Good(do_popf(d.next, d))
        BY <1>1, PushAllGood, PopAllGood, FlagStackGood
    <2>. QED BY <1>3, <2>1, FinishKeeps
<1>. QED BY <1>2, <1>3 DEF Stack

LEMMA FlagOpsKeep == ASSUME CoreInv, NEW d, DecodedOK(d), FlagOps(d) PROVE CoreInv'
<1>1. Good(d.next)
    BY DEF DecodedOK
<1>2. CASE \/ Is("CLR_FLAG", d) /\ Finish(do_clear_flag(d.next, d))
           \/ Is("CMC", d) /\ Finish(do_cmc(d.next, d))
           \/ Is("SAHF", d) /\ Finish(do_sahf(d.next, d))
           \/ Is("LAHF", d) /\ Finish(do_lahf(d.next, d))
    <2>1. /\ Good(do_clear_flag(d.next, d)) /\ Good(do_cmc(d.next, d))
          /\ Good(do_sahf(d.next, d)) /\ Good(do_lahf(d.next, d))
        BY <1>1, FlagOpsGood, FlagBytesGood
    <2>. QED BY <1>2, <2>1, FinishKeeps
<1>3. CASE Is("ST_FLAG", d) /\ Finish(do_set_flag(d.next, d))
    <2>1. Good(do_set_flag(d.next, d))
        BY <1>1, <1>3, FlagOpsGood DEF Is, DecodedOK
    <2>. QED BY <1>3, <2>1, FinishKeeps
<1>. QED BY <1>2, <1>3 DEF FlagOps

LEMMA ControlKeeps == ASSUME CoreInv, NEW d, DecodedOK(d), Control(d) PROVE CoreInv'
<1>1. d.inst.op \in {"CALL_NEAR", "RETN", "JUMP", "LOOP"}
    BY DEF Control, Is
<1>2. Good(d.next) /\ Ready(d) /\ d.src1.type # "EDX_EAX"
    BY <1>1, ReadyOps DEF DecodedOK, Handled
<1>3. /\ Good(do_call_near(d.next, d)) /\ Good(i386_ret_near(d.next, d))
      /\ Good(do_near_jump(d.next, d)) /\ Good(do_loop(d.next, d))
    BY <1>2, ControlGood
<1>. QED BY <1>3, FinishKeeps DEF Control

LEMMA HostKeeps == ASSUME CoreInv, NEW d, DecodedOK(d), Host(d) PROVE CoreInv'
<1>1. PICK answer \in HostValues :
        \/ Is("INT_OP", d) /\ Finish(do_int(d.next, d, answer))
        \/ Is("IO_IN", d) /\ Finish(Write(d.next, d.dst, IF task.use32 THEN answer ELSE \hFC))
    BY DEF Host
<1>2. Good(d.next) /\ answer \in Nat
    BY ProgramAssumption DEF DecodedOK
<1>3. CASE Is("INT_OP", d) /\ Finish(do_int(d.next, d, answer))
    <2>1. Good(do_int(d.next, d, answer))
        BY <1>2, IntGood
    <2>. QED BY <1>3, <2>1, FinishKeeps
<1>4. CASE Is("IO_IN", d) /\ Finish(Write(d.next, d.dst, IF task.use32 THEN answer ELSE \hFC))
    <2>. DEFINE v == IF task.use32 THEN answer ELSE \hFC
    <2>1. v \in Int
        BY <1>2
    <2>. HIDE DEF v
    <2>2. Ready(d)
        BY <1>4, ReadyOps DEF Is, Handled
    <2>3. Good(Write(d.next, d.dst, v))
        BY <1>2, <2>1, <2>2, WriteGood DEF Ready
    <2>. QED BY <1>4, <2>3, FinishKeeps DEF v
<1>. QED BY <1>1, <1>3, <1>4

LEMMA StringsKeep ==
    ASSUME CoreInv, NEW d, DecodedOK(d), StringOnce(d) \/ Repeat(d)
    PROVE  CoreInv'
<1>1. Good(d.next) /\ d.inst.sub \in Nat
    BY DEF DecodedOK
<1>2. CASE StringOnce(d)
    <2>1. Good(do_string(d.next, d.inst.sub, d.inst.flags))
        BY <1>1, StringGood DEF CoreInv
    <2>. QED BY <1>2, <2>1, FinishKeeps DEF StringOnce
<1>3. CASE Repeat(d)
    <2>1. Good(m')
        BY <1>1, <1>3 DEF Repeat
    <2>. QED BY <1>1, <1>3, <2>1 DEF Repeat, CoreInv, Overrides, over
<1>. QED BY <1>2, <1>3

LEMMA RoundKeeps == ASSUME CoreInv, RepeatRound PROVE CoreInv'
<1>. DEFINE s == do_string(m, rep.sub, rep.flags)
            t == IF s.status = "runs" THEN AddReg(s, ECX, -1) ELSE s
<1>1. Good(s)
    BY StringGood DEF CoreInv
<1>2. \/ m' = t /\ UNCHANGED <<task, over, frames, rep>>
      \/ Finish(t)
    BY DEF RepeatRound
<1>. HIDE DEF s
<1>3. Good(t)
    <2>1. Good(AddReg(s, ECX, -1))
        <3>1. -1 \in Int /\ ECX \in 0 .. 7
            BY Registers
        <3>. QED BY <1>1, <3>1, AddRegGood
    <2>. QED BY <1>1, <2>1
<1>. HIDE DEF t
<1>4. CASE m' = t /\ UNCHANGED <<task, over, frames, rep>>
    <2>1. Good(m')
        BY <1>3, <1>4
    <2>. QED BY <1>4, <2>1 DEF CoreInv, Overrides, over
<1>5. CASE Finish(t)
    BY <1>3, <1>5, FinishKeeps
<1>. QED BY <1>2, <1>4, <1>5

LEMMA ExecuteKeeps == ASSUME CoreInv, Execute PROVE CoreInv'
<1>. DEFINE d == Decode(m)
<1>1. DecodedOK(d)
    BY DecodeOK DEF CoreInv
<1>2. \/ Arithmetic(d) \/ Moves(d) \/ Stack(d) \/ FlagOps(d) \/ Control(d)
      \/ Host(d) \/ StringOnce(d) \/ Repeat(d) \/ Undefined(d)
    BY DEF Execute
<1>. HIDE DEF d
<1>3. CASE Undefined(d)
    <2>1. Good(Hang(d.next))
        BY <1>1, HangGood DEF DecodedOK
    <2>. QED BY <1>3, <2>1, FinishKeeps DEF Undefined
<1>. QED BY <1>1, <1>2, <1>3, ArithmeticKeeps, MovesKeep, StackKeeps, FlagOpsKeep,
            ControlKeeps, HostKeeps, StringsKeep

\* Where programs start.
LEMMA CoreStarts == ASSUME Init PROVE CoreInv
<1>. DEFINE segs == [sr \in 0 .. 7 |-> LET x == IF sr < 6 THEN task.segs[sr] ELSE 0
                                       IN [selector |-> x, base |-> 16 * x]]
<1>1. /\ task \in Tasks
      /\ m = [regs |-> task.regs, flags |-> task.flags, eip |-> 0, old_eip |-> 0, segs |-> segs,
              mem |-> task.mem, screen |-> <<>>, status |-> "runs"]
      /\ NoOverride /\ rep = NoRep
    BY Zenon DEF Init
<1>2. /\ task.regs \in [0 .. 7 -> Number(4)] /\ task.flags \subseteq Flags
      /\ task.segs \in [0 .. 5 -> Number(2)]
      /\ task.mem \in [0 .. MemSize - 1 -> 0 .. Byte - 1]
    BY <1>1, ProgramAssumption DEF Number
<1>3. segs \in [0 .. 7 -> [selector : Number(2), base : Nat]]
    <2>1. ASSUME NEW sr \in 0 .. 7
          PROVE  LET x == IF sr < 6 THEN task.segs[sr] ELSE 0 IN x \in Number(2) /\ 16 * x \in Nat
        <3>. DEFINE x == IF sr < 6 THEN task.segs[sr] ELSE 0
        <3>1. x \in Number(2)
            <4>1. 0 \in Number(2)
                BY NumberType
            <4>2. ASSUME sr < 6 PROVE task.segs[sr] \in Number(2)
                <5>1. sr \in 0 .. 5
                    BY <4>2
                <5>. QED BY <1>2, <5>1
            <4>. QED BY <4>1, <4>2
        <3>2. x \in Nat
            BY <3>1, NumberType
        <3>. HIDE DEF x
        <3>3. 16 * x \in Nat
            BY <3>2
        <3>. QED BY <3>1, <3>3 DEF x
    <2>. QED BY <2>1
<1>4. \A sr \in 0 .. 7 : segs[sr].base = 16 * segs[sr].selector
    OBVIOUS
<1>. HIDE DEF segs
<1>5. Good(m)
    <2>1. 0 \in Number(4) /\ <<>> \in Seq(0 .. Byte - 1)
        BY NumberType
    <2>2. m \in Machine
        BY <1>1, <1>2, <1>3, <2>1 DEF Machine
    <2>3. RealMode(m)
        BY <1>1, <1>4 DEF RealMode
    <2>. QED BY <2>2, <2>3 DEF Good
<1>. QED BY <1>1, <1>5 DEF CoreInv, Overrides, NoOverride, NoRep, DS

\* The invariant of the core.
LEMMA CoreKept == Spec => []CoreInv
<1>1. Init => CoreInv
    BY CoreStarts
<1>2. CoreInv /\ [Next]_vars => CoreInv'
    <2>. SUFFICES ASSUME CoreInv, [Next]_vars PROVE CoreInv'
        OBVIOUS
    <2>1. CASE Prefix
        BY <2>1, PrefixKeeps
    <2>2. CASE Execute
        BY <2>2, ExecuteKeeps
    <2>3. CASE RepeatRound
        BY <2>3, RoundKeeps
    <2>4. CASE RepeatEnd
        <3>1. Good(m) /\ Finish(m)
            BY <2>4 DEF RepeatEnd, CoreInv
        <3>. QED BY <3>1, FinishKeeps
    <2>5. CASE UNCHANGED vars
        <3>1. m' = m
            BY <2>5 DEF vars
        <3>2. Good(m')
            BY <3>1 DEF CoreInv
        <3>. QED BY <2>5, <3>2 DEF vars, over, CoreInv, Overrides
    <2>. QED BY <2>1, <2>2, <2>3, <2>4, <2>5 DEF Next
<1>. QED BY <1>1, <1>2, PTL DEF Spec

\* No program, whatever its bytes, makes the core leave the machine it models: every
\* register, segment and byte of memory stays a number of its width, and no opcode
\* has an operand that read_source or write_dest do not know (run386.c:1440-1614).
THEOREM MachineTyped == Spec => []TypeOK
<1>1. CoreInv => TypeOK
    <2>. SUFFICES ASSUME CoreInv PROVE TypeOK
        OBVIOUS
    <2>1. Good(m)
        BY DEF CoreInv
    <2>2. m.regs \in [0 .. 7 -> 0 .. W(4) - 1] /\ m.flags \subseteq Flags
          /\ m.eip \in 0 .. W(4) - 1 /\ m.old_eip \in 0 .. W(4) - 1
          /\ (\A sr \in 0 .. 7 : m.segs[sr].selector \in 0 .. W(2) - 1 /\ m.segs[sr].base \in Nat)
          /\ m.mem \in [0 .. MemSize - 1 -> 0 .. Byte - 1]
          /\ m.screen \in Seq(0 .. Byte - 1)
          /\ m.status \in {"runs", "hangs", "faults", "exits"}
        BY <2>1, GoodTypes DEF Number
    <2>. QED BY <2>2 DEF TypeOK, CoreInv, Overrides
<1>. QED BY <1>1, CoreKept, PTL

\* The hidden part of a segment register is never stale: every instruction that writes
\* a selector computes the base from it (load_seg_reg, run386.c:661), and write_dest,
\* which writes a selector alone, is never given a segment register otherwise.
THEOREM BasesFollowSelectors == Spec => []RealModeBases
<1>1. CoreInv => RealModeBases
    BY DEF CoreInv, Good, RealMode, RealModeBases
<1>. QED BY <1>1, CoreKept, PTL

----------------------------------------------------------------------------
(* The stack *)

\* A number is its quotient and remainder.
LEMMA Divided ==
    ASSUME NEW a \in Nat \ {0}, NEW v \in Int
    PROVE  v \div a \in Int /\ v % a \in 0 .. a - 1 /\ v = (v \div a) * a + (v % a)
OBVIOUS

\* A number cut to two parts is the parts it is cut to.
LEMMA Parts ==
    ASSUME NEW a \in Nat \ {0}, NEW c \in Nat \ {0}, NEW v \in Int
    PROVE  v % (c * a) = (v % a) + ((v \div a) % c) * a
<1>. DEFINE q == v \div a
            r == v % a
            p == q \div c
            s == q % c
<1>1. q \in Int /\ r \in 0 .. a - 1 /\ v = q * a + r
    BY Divided
<1>. HIDE DEF q, r
<1>2. p \in Int /\ s \in 0 .. c - 1 /\ q = p * c + s
    BY <1>1, Divided
<1>. HIDE DEF p, s
<1>. DEFINE d == c * a
            low == r + s * a
<1>3. d \in Nat \ {0} /\ low \in 0 .. d - 1
    <2>1. low \in 0 .. c * a - 1
        BY <1>1, <1>2, Pair
    <2>. QED BY <2>1
<1>4. v = p * d + low
    BY <1>1, <1>2
<1>. HIDE DEF d, low
<1>5. v % d = low
    BY <1>2, <1>3, <1>4, Whole
<1>. QED BY <1>5 DEF d, low, q, r, s

\* Places behind one another, where the addresses wrap.
LEMMA Wrapped ==
    ASSUME NEW M \in Nat \ {0}, NEW a \in Int, NEW i \in 0 .. M - 1
    PROVE  (a + i) % M \in 0 .. M - 1 /\ (((a + i) % M) - a) % M = i
<1>. DEFINE q == (a + i) \div M
            x == (a + i) % M
<1>1. q \in Int /\ x \in 0 .. M - 1 /\ a + i = q * M + x
    BY Divided
<1>. HIDE DEF q, x
<1>2. x - a = (-q) * M + i /\ -q \in Int
    BY <1>1
<1>3. (x - a) % M = i
    BY <1>2, Whole
<1>. QED BY <1>1, <1>3 DEF x

\* What is stored is what is loaded from the same place.
LEMMA LoadsWhatWasStored ==
    ASSUME NEW s, Good(s), NEW n \in {1, 2, 4}, n <= MemSize, NEW a \in Int, NEW v \in Int
    PROVE  Load(Store(s, n, a, v), n, a) = v % W(n)
<1>. DEFINE t == Store(s, n, a, v)
            at(i) == t.mem[(a + i) % MemSize]
            digit(i) == (v \div W(i)) % Byte
<1>1. MemSize \in Nat \ {0}
    BY ProgramAssumption
<1>2. DOMAIN s.mem = 0 .. MemSize - 1 /\ "mem" \in DOMAIN s
    BY GoodTypes DEF Good, Machine
<1>3. ASSUME NEW i \in 0 .. n - 1 PROVE at(i) = digit(i)
    <2>1. (a + i) % MemSize \in 0 .. MemSize - 1 /\ (((a + i) % MemSize) - a) % MemSize = i
        <3>1. a \in Int /\ i \in 0 .. MemSize - 1
            BY <1>1
        <3>. QED BY <1>1, <3>1, Wrapped
    <2>. DEFINE x == (a + i) % MemSize
    <2>2. t.mem = [y \in DOMAIN s.mem |->
                    IF (y - a) % MemSize < n THEN (v \div W((y - a) % MemSize)) % Byte ELSE s.mem[y]]
        BY <1>2 DEF Store
    <2>3. x \in DOMAIN s.mem /\ (x - a) % MemSize = i /\ i < n
        BY <1>2, <2>1
    <2>. HIDE DEF x, t
    <2>4. t.mem[x] = digit(i)
        BY <2>2, <2>3
    <2>. QED BY <2>4 DEF x
<1>4. /\ W(0) = 1 /\ Byte = W(1) /\ W(2) = W(1) * W(1) /\ W(3) = W(1) * W(2) /\ W(4) = W(1) * W(3)
      /\ W(1) \in Nat \ {0} /\ W(2) \in Nat \ {0} /\ W(3) \in Nat \ {0}
    BY BytesOfWide, Positive
<1>5. Load(t, n, a) = CASE n = 1 -> at(0)
                        [] n = 2 -> at(0) + at(1) * W(1)
                        [] n = 4 -> at(0) + at(1) * W(1) + at(2) * W(2) + at(3) * W(3)
    BY Zenon DEF Load
<1>6. digit(0) = v % W(1)
    BY <1>4
<1>7. v % W(2) = (v % W(1)) + digit(1) * W(1)
    BY <1>4, Parts
<1>8. v % W(3) = (v % W(2)) + digit(2) * W(2)
    BY <1>4, Parts
<1>9. v % W(4) = (v % W(3)) + digit(3) * W(3)
    BY <1>4, Parts
<1>. HIDE DEF t, at, digit
<1>10. CASE n = 1
    BY <1>10, <1>3, <1>5, <1>6 DEF t
<1>11. CASE n = 2
    <2>1. at(0) = digit(0) /\ at(1) = digit(1)
        BY <1>3, <1>11
    <2>. QED BY <1>11, <2>1, <1>5, <1>6, <1>7 DEF t
<1>12. CASE n = 4
    <2>1. at(0) = digit(0) /\ at(1) = digit(1) /\ at(2) = digit(2) /\ at(3) = digit(3)
        BY <1>3, <1>12
    <2>. QED BY <1>12, <2>1, <1>5, <1>6, <1>7, <1>8, <1>9 DEF t
<1>. QED BY <1>10, <1>11, <1>12

\* The stack pointer and the memory are all that a push changes.
LEMMA PushChanges ==
    ASSUME NEW s, Good(s), NEW v \in Int, StackSize <= MemSize
    PROVE  LET n == StackSize
               t == Push(s, v)
               top == U32(s.regs[ESP] - n)
           IN /\ Good(t) /\ t.eip = s.eip /\ t.flags = s.flags /\ t.segs = s.segs
              /\ t.regs = [s.regs EXCEPT ![ESP] = top]
              /\ Load(t, n, Base(s, SS) + top) = v % W(n)
<1>. DEFINE n == StackSize
            top == U32(s.regs[ESP] - n)
            t == AddReg(s, ESP, -n)
            a == Base(t, SS) + t.regs[ESP]
<1>1. s.regs[ESP] \in Nat /\ n \in {1, 2, 4} /\ -n \in Int /\ s.regs[ESP] + (-n) = s.regs[ESP] - n
    <2>1. s.regs[ESP] \in Nat /\ n \in {1, 2, 4} /\ n \in Int /\ -n \in Int
        BY RegType, Registers, StackSizes
    <2>. HIDE DEF n
    <2>. QED BY <2>1
<1>2. Good(t)
    BY <1>1, AddRegGood DEF ESP
<1>3. /\ t.regs = [s.regs EXCEPT ![ESP] = top]
      /\ t.eip = s.eip /\ t.flags = s.flags /\ t.segs = s.segs
    BY <1>1 DEF AddReg, Good, Machine
<1>4. t.regs[ESP] = top
    BY <1>3, GoodTypes DEF ESP
<1>5. a \in Int /\ a = Base(s, SS) + top
    <2>1. Base(t, SS) \in Nat /\ t.regs[ESP] \in Nat
        <3>. HIDE DEF t
        <3>. QED BY <1>2, BaseType, RegType, Registers
    <2>2. Base(t, SS) = Base(s, SS)
        BY <1>3 DEF Base
    <2>. QED BY <2>1, <2>2, <1>4
<1>6. Push(s, v) = Store(t, n, a, v)
    BY Zenon DEF Push
<1>. HIDE DEF n, t, a, top
<1>. DEFINE u == Store(t, n, a, v)
<1>7. u.regs = t.regs /\ u.eip = t.eip /\ u.flags = t.flags /\ u.segs = t.segs
    BY <1>2 DEF Store, Good, Machine
<1>8. Load(u, n, a) = v % W(n)
    BY <1>1, <1>2, <1>5, LoadsWhatWasStored DEF n
<1>9. Good(u)
    BY <1>1, <1>2, <1>5, StoreGood
<1>. HIDE DEF u
<1>10. Push(s, v) = u
    BY <1>6 DEF u
<1>. QED BY <1>3, <1>5, <1>7, <1>8, <1>9, <1>10 DEF n, top

\* A register counted down and up again is what it was.
LEMMA UpAgain ==
    ASSUME NEW x \in Number(4), NEW k \in Int
    PROVE  U32(U32(x - k) + k) = x
<1>. DEFINE d == W(4)
            q == (x - k) \div d
            r == (x - k) % d
<1>1. d \in Nat \ {0} /\ x \in 0 .. d - 1
    BY Positive DEF Number
<1>2. q \in Int /\ r \in 0 .. d - 1 /\ x - k = q * d + r
    <2>1. x - k \in Int
        BY <1>1
    <2>. HIDE DEF d
    <2>. QED BY <1>1, <2>1, Divided
<1>. HIDE DEF d, q, r
<1>3. r + k = (-q) * d + x /\ -q \in Int
    BY <1>1, <1>2
<1>4. (r + k) % d = x
    BY <1>1, <1>3, Whole
<1>. QED BY <1>4 DEF U32, r, d

\* What is pushed is what is popped, cut to the size of the stack, and the
\* stack pointer is back; wherever the stack is, also where the stack pointer
\* or the address wraps (i386_push, i386_pop, run386.c:30, 41).
THEOREM PopsWhatWasPushed ==
    ASSUME NEW s, Good(s), NEW v \in Int, StackSize <= MemSize
    PROVE  LET t == Push(s, v)
           IN /\ Top(t) = v % W(StackSize)
              /\ Popped(t).regs = s.regs
<1>. DEFINE n == StackSize
            t == Push(s, v)
            top == U32(s.regs[ESP] - n)
<1>1. /\ Good(t) /\ t.segs = s.segs
      /\ t.regs = [s.regs EXCEPT ![ESP] = top]
      /\ Load(t, n, Base(s, SS) + top) = v % W(n)
    BY PushChanges
<1>2. s.regs \in [0 .. 7 -> Number(4)] /\ ESP \in 0 .. 7 /\ n \in Int
    BY GoodTypes, StackSizes DEF ESP
<1>. HIDE DEF t, n
<1>3. t.regs[ESP] = top /\ Base(t, SS) = Base(s, SS)
    BY <1>1, <1>2 DEF Base
<1>4. Top(t) = v % W(n)
    BY <1>1, <1>3 DEF Top, n
<1>5. U32(top + n) = s.regs[ESP]
    BY <1>2, UpAgain
<1>6. Popped(t).regs = [t.regs EXCEPT ![ESP] = U32(t.regs[ESP] + n)]
    BY <1>1 DEF Popped, AddReg, Good, Machine, n
<1>. HIDE DEF top
<1>7. Popped(t).regs = s.regs
    BY <1>1, <1>2, <1>3, <1>5, <1>6
<1>. QED BY <1>4, <1>7 DEF t, n

\* A function that returns by RETN goes on behind its call, whatever it did, if
\* it left the stack pointer and the return address as it found them; RETN takes
\* its operand off the stack as well.  The place behind the call is cut to the
\* size of the stack: code above that is not returned to
\* (do_call_near, i386_ret_near, run386.c:683, 1341).
THEOREM ReturnsBehindCall ==
    ASSUME NEW s, Good(s), NEW call, Ready(call), NEW u, Good(u), NEW ret, Ready(ret),
           call.src1.type # "EDX_EAX", ret.src1.type # "EDX_EAX", StackSize <= MemSize,
           u.regs[ESP] = do_call_near(s, call).regs[ESP],
           Top(u) = Top(do_call_near(s, call))
    PROVE  LET v == i386_ret_near(u, ret)
           IN /\ v.eip = s.eip % W(StackSize)
              /\ v.regs = [u.regs EXCEPT ![ESP] = U32(s.regs[ESP] + Read(u, ret.src1))]
<1>. DEFINE n == StackSize
            t == Push(s, s.eip)
            c == do_call_near(s, call)
            top == U32(s.regs[ESP] - n)
            k == Read(u, ret.src1)
<1>1. s.eip \in Int /\ s.regs \in [0 .. 7 -> Number(4)] /\ u.regs \in [0 .. 7 -> Number(4)]
    <2>1. s.eip \in Number(4) /\ Number(4) \subseteq Nat
        BY GoodTypes, NumberType
    <2>. QED BY <2>1, GoodTypes
<1>2. Good(t) /\ t.regs = [s.regs EXCEPT ![ESP] = top] /\ Top(t) = s.eip % W(n)
    BY <1>1, PushChanges, PopsWhatWasPushed
<1>. HIDE DEF t
<1>3. c.regs = t.regs /\ c.segs = t.segs /\ c.mem = t.mem
    <2>1. c = [t EXCEPT !.eip = Read(t, call.src1)]
        BY DEF do_call_near, t
    <2>. HIDE DEF c
    <2>. QED BY <1>2, <2>1 DEF Good, Machine
<1>4. Top(c) = Top(t)
    BY <1>3, Zenon DEF Top, Load, Base
<1>. HIDE DEF c
<1>5. ESP \in 0 .. 7 /\ n \in {1, 2, 4} /\ n \in Int
    BY Registers, StackSizes
<1>. HIDE DEF n
<1>6. u.regs[ESP] = top /\ Top(u) = s.eip % W(n)
    BY <1>1, <1>2, <1>3, <1>4, <1>5 DEF c
<1>7. U32(top + n) = s.regs[ESP]
    BY <1>1, <1>5, UpAgain
<1>. DEFINE p == [Popped(u) EXCEPT !.eip = Top(u)]
<1>8. p.eip = Top(u) /\ p.regs = [u.regs EXCEPT ![ESP] = U32(top + n)]
    BY <1>6, GoodTypes DEF Popped, AddReg, Good, Machine, n
<1>9. Good(p)
    BY PoppedGood, TopType, EipGood
<1>10. i386_ret_near(u, ret) = AddReg(p, ESP, k)
    BY Zenon DEF i386_ret_near
<1>. HIDE DEF p, k
<1>11. /\ AddReg(p, ESP, k).eip = p.eip
       /\ AddReg(p, ESP, k).regs = [p.regs EXCEPT ![ESP] = U32(p.regs[ESP] + k)]
    BY <1>9 DEF AddReg, Good, Machine
<1>. HIDE DEF top
<1>12. p.regs[ESP] = s.regs[ESP]
    BY <1>1, <1>5, <1>7, <1>8
<1>13. AddReg(p, ESP, k).regs = [u.regs EXCEPT ![ESP] = U32(s.regs[ESP] + k)]
    BY <1>1, <1>5, <1>8, <1>11, <1>12
<1>. QED BY <1>6, <1>8, <1>10, <1>11, <1>13 DEF n, k

\* A store leaves alone what lies beside it, all around the memory.
LEMMA LoadsWhatWasBeside ==
    ASSUME NEW s, Good(s), NEW n \in {1, 2, 4}, NEW a \in Int, NEW v \in Int,
           NEW d \in n .. MemSize - n
    PROVE  Load(Store(s, n, a, v), n, a + d) = Load(s, n, a + d)
<1>. DEFINE t == Store(s, n, a, v)
            b == a + d
<1>1. MemSize \in Nat \ {0} /\ b \in Int
    BY ProgramAssumption
<1>2. DOMAIN s.mem = 0 .. MemSize - 1 /\ "mem" \in DOMAIN s
    BY GoodTypes DEF Good, Machine
<1>3. ASSUME NEW i \in 0 .. n - 1 PROVE t.mem[(b + i) % MemSize] = s.mem[(b + i) % MemSize]
    <2>. DEFINE k == d + i
                x == (a + k) % MemSize
    <2>1. k \in 0 .. MemSize - 1 /\ k \in Int /\ ~(k < n) /\ b + i = a + k
        BY <1>1
    <2>. HIDE DEF k
    <2>2. x \in 0 .. MemSize - 1 /\ (x - a) % MemSize = k
        BY <1>1, <2>1, Wrapped
    <2>3. t.mem = [y \in DOMAIN s.mem |->
                    IF (y - a) % MemSize < n THEN (v \div W((y - a) % MemSize)) % Byte ELSE s.mem[y]]
        BY <1>2 DEF Store
    <2>. HIDE DEF x, t, b
    <2>4. t.mem[x] = s.mem[x]
        BY <1>2, <2>1, <2>2, <2>3
    <2>. QED BY <2>1, <2>4 DEF x
<1>4. /\ Load(t, n, b) =
            CASE n = 1 -> t.mem[(b + 0) % MemSize]
              [] n = 2 -> t.mem[(b + 0) % MemSize] + t.mem[(b + 1) % MemSize] * W(1)
              [] n = 4 -> t.mem[(b + 0) % MemSize] + t.mem[(b + 1) % MemSize] * W(1)
                          + t.mem[(b + 2) % MemSize] * W(2) + t.mem[(b + 3) % MemSize] * W(3)
      /\ Load(s, n, b) =
            CASE n = 1 -> s.mem[(b + 0) % MemSize]
              [] n = 2 -> s.mem[(b + 0) % MemSize] + s.mem[(b + 1) % MemSize] * W(1)
              [] n = 4 -> s.mem[(b + 0) % MemSize] + s.mem[(b + 1) % MemSize] * W(1)
                          + s.mem[(b + 2) % MemSize] * W(2) + s.mem[(b + 3) % MemSize] * W(3)
    BY Zenon DEF Load
<1>. HIDE DEF t, b
<1>5. Load(t, n, b) = Load(s, n, b)
    <2>1. CASE n = 1
        BY <1>3, <1>4, <2>1
    <2>2. CASE n = 2
        <3>1. /\ t.mem[(b + 0) % MemSize] = s.mem[(b + 0) % MemSize]
              /\ t.mem[(b + 1) % MemSize] = s.mem[(b + 1) % MemSize]
            BY <1>3, <2>2
        <3>. QED BY <1>4, <2>2, <3>1
    <2>3. CASE n = 4
        <3>1. /\ t.mem[(b + 0) % MemSize] = s.mem[(b + 0) % MemSize]
              /\ t.mem[(b + 1) % MemSize] = s.mem[(b + 1) % MemSize]
              /\ t.mem[(b + 2) % MemSize] = s.mem[(b + 2) % MemSize]
              /\ t.mem[(b + 3) % MemSize] = s.mem[(b + 3) % MemSize]
            BY <1>3, <2>3
        <3>. QED BY <1>4, <2>3, <3>1
    <2>. QED BY <2>1, <2>2, <2>3
<1>. QED BY <1>5 DEF t, b

\* A push leaves alone what was on the stack.
LEMMA PushKeepsStack ==
    ASSUME NEW s, Good(s), NEW v \in Int, s.regs[ESP] >= StackSize,
           NEW d \in 0 .. MemSize - 2 * StackSize
    PROVE  LET at == Base(s, SS) + s.regs[ESP] + d
           IN Load(Push(s, v), StackSize, at) = Load(s, StackSize, at)
<1>. DEFINE n == StackSize
            x == s.regs[ESP]
            b == Base(s, SS)
            t == AddReg(s, ESP, -n)
            a == Base(t, SS) + t.regs[ESP]
<1>1. x \in Number(4) /\ x \in Nat /\ b \in Nat /\ ESP \in 0 .. 7
    BY RegType, Registers, BaseType
<1>2. n \in {1, 2, 4} /\ -n \in Int
    BY StackSizes
<1>3. Good(t)
    BY <1>2, AddRegGood, Registers
<1>4. t.regs = [s.regs EXCEPT ![ESP] = U32(x + (-n))] /\ t.segs = s.segs /\ t.mem = s.mem
    BY DEF AddReg, Good, Machine
<1>5. Push(s, v) = Store(t, n, a, v)
    BY Zenon DEF Push
<1>6. d \in Int /\ MemSize \in Nat
    BY ProgramAssumption
<1>7. Load(t, n, b + x + d) = Load(s, n, b + x + d)
    BY <1>4, Zenon DEF Load
<1>8. Base(t, SS) = b
    BY <1>4 DEF Base
<1>. HIDE DEF n, b, t
<1>9. U32(x + (-n)) = x - n /\ x - n \in Nat
    <2>1. W(4) \in Nat \ {0} /\ x + (-n) = x - n /\ x - n \in 0 .. W(4) - 1
        BY <1>1, <1>2, Positive DEF Number, n
    <2>. HIDE DEF x
    <2>. QED BY <2>1, Small DEF U32
<1>10. a = b + (x - n)
    <2>1. s.regs \in [0 .. 7 -> Number(4)]
        BY GoodTypes
    <2>2. t.regs[ESP] = U32(x + (-n))
        BY <1>1, <1>4, <2>1
    <2>. QED BY <1>8, <1>9, <2>2
<1>. HIDE DEF a, x
<1>11. a \in Int /\ a + (n + d) = b + x + d /\ n + d \in n .. MemSize - n
    BY <1>1, <1>2, <1>6, <1>9, <1>10 DEF n
<1>12. Load(Store(t, n, a, v), n, a + (n + d)) = Load(t, n, a + (n + d))
    <2>. DEFINE k == n + d
    <2>1. k \in n .. MemSize - n
        BY <1>11
    <2>. HIDE DEF k
    <2>2. Load(Store(t, n, a, v), n, a + k) = Load(t, n, a + k)
        BY <1>2, <1>3, <1>11, <2>1, LoadsWhatWasBeside
    <2>. QED BY <2>2 DEF k
<1>13. Load(Store(t, n, a, v), n, b + x + d) = Load(t, n, b + x + d)
    BY <1>11, <1>12
<1>. QED BY <1>5, <1>7, <1>13 DEF n, b, x

\* A procedure that begins with ENTER and ends with LEAVE leaves the stack
\* pointer as it was, whatever it did with it in between, and the frame pointer
\* cut to the size of the stack, if its own frame pointer and the one saved are
\* left alone.  Without a stack that stays in its segment it does not: LEAVE
\* of a 16-bit stack takes over only half of the pointer
\* (do_enter, do_leave, run386.c:562, 571).
THEOREM LeaveUndoesEnter ==
    ASSUME NEW s, Good(s), NEW enter, Ready(enter), NEW u, Good(u), NEW leave,
           2 * StackSize <= MemSize,
           s.regs[ESP] \in 2 * StackSize .. W(StackSize) - 1,
           u.regs[ESP] \in Number(StackSize),
           u.regs[EBP] = do_enter(s, enter).regs[EBP],
           Base(u, SS) = Base(s, SS),
           LET at == Base(u, SS) + u.regs[EBP]
           IN Load(u, StackSize, at) = Load(do_enter(s, enter), StackSize, at)
    PROVE  do_leave(u, leave).regs =
               [u.regs EXCEPT ![ESP] = s.regs[ESP], ![EBP] = s.regs[EBP] % W(StackSize)]
<1>. DEFINE n == StackSize
            esp == s.regs[ESP]
            ebp == s.regs[EBP]
            b == Base(s, SS)
            t == Push(s, ebp)
            y == t.regs[ESP]
            w == Push(t, y)
            v == [w EXCEPT !.regs[EBP] = y]
            k == -Read(w, enter.src1)
            e == do_enter(s, enter)
            top == esp - n
<1>1. ESP \in 0 .. 7 /\ EBP \in 0 .. 7 /\ ESP # EBP
    BY DEF ESP, EBP
<1>2. n \in {2, 4} /\ n \in Int /\ W(n) \in Nat \ {0} /\ W(n) <= W(4) /\ W(4) \in Nat \ {0}
    <2>1. StackSize \in {2, 4}
        BY DEF StackSize
    <2>. HIDE DEF n
    <2>. QED BY <2>1, Positive, BelowWide DEF n
<1>3. ebp \in Int /\ s.regs \in [0 .. 7 -> Number(4)] /\ u.regs \in [0 .. 7 -> Number(4)] /\ esp \in Nat
    <2>1. ebp \in Nat /\ esp \in Nat
        BY <1>1, RegType
    <2>. HIDE DEF ebp, esp
    <2>. QED BY <2>1, GoodTypes
<1>4. top \in n .. W(n) - 1 /\ top \in Number(4) /\ top \in Nat /\ U32(top) = top /\ U32(top + n) = esp
    <2>1. esp \in 2 * n .. W(n) - 1
        OBVIOUS
    <2>. HIDE DEF n, esp
    <2>2. top \in n .. W(n) - 1 /\ top \in 0 .. W(4) - 1 /\ top + n = esp /\ esp \in 0 .. W(4) - 1
        BY <1>2, <2>1
    <2>. HIDE DEF top
    <2>. QED BY <1>2, <2>2, Small DEF U32, Number
<1>5. e = AddReg(v, ESP, k)
    BY Zenon DEF do_enter
<1>. HIDE DEF e, k, b
<1>6. Good(t) /\ t.segs = s.segs /\ y = top /\ Top(t) = ebp % W(n)
    <2>1. n <= MemSize
        BY <1>2, ProgramAssumption
    <2>2. Good(t) /\ t.segs = s.segs /\ t.regs = [s.regs EXCEPT ![ESP] = U32(esp - n)]
        BY <1>3, <2>1, PushChanges
    <2>3. Top(t) = ebp % W(n)
        BY <1>3, <2>1, PopsWhatWasPushed
    <2>. HIDE DEF t
    <2>. QED BY <1>1, <1>3, <1>4, <2>2, <2>3
<1>. HIDE DEF t
<1>7. Load(w, n, b + top) = ebp % W(n) /\ Good(w)
    <2>1. Base(t, SS) = b
        BY <1>6 DEF Base, b
    <2>. HIDE DEF top
    <2>2. y \in Int /\ y >= n
        BY <1>2, <1>4, <1>6
    <2>3. Load(Push(t, y), n, Base(t, SS) + y + 0) = Load(t, n, Base(t, SS) + y + 0)
        <3>1. 0 \in 0 .. MemSize - 2 * StackSize
            BY <1>2, ProgramAssumption
        <3>. QED BY <1>6, <2>2, <3>1, PushKeepsStack
    <2>4. Base(t, SS) + y + 0 = Base(t, SS) + y
        BY <1>6, <2>2, BaseType, Registers
    <2>5. Load(w, n, Base(t, SS) + y) = Top(t)
        BY <2>3, <2>4 DEF Top
    <2>6. Good(w)
        BY <1>6, <2>2, PushGood
    <2>. QED BY <1>6, <2>1, <2>5, <2>6
<1>. HIDE DEF w, y, top
<1>8. v.regs = [w.regs EXCEPT ![EBP] = top] /\ v.mem = w.mem /\ v.regs \in [0 .. 7 -> Number(4)] /\ Good(v)
    <2>1. Good(v)
        BY <1>1, <1>4, <1>6, <1>7, RegGood
    <2>. QED BY <1>4, <1>6, <1>7, <2>1 DEF Good, Machine
<1>. HIDE DEF v
<1>9. e.regs = [v.regs EXCEPT ![ESP] = U32(v.regs[ESP] + k)] /\ e.mem = v.mem
    BY <1>5, <1>8 DEF AddReg, Good, Machine
<1>10. e.regs[EBP] = top
    <2>1. w.regs \in [0 .. 7 -> Number(4)]
        BY <1>7, GoodTypes
    <2>. QED BY <1>1, <1>8, <1>9, <2>1
<1>11. Load(e, n, b + top) = ebp % W(n)
    <2>1. Load(e, n, b + top) = Load(w, n, b + top)
        BY <1>8, <1>9, Zenon DEF Load
    <2>. QED BY <1>7, <2>1
<1>12. u.regs[EBP] = top /\ Base(u, SS) = b /\ Load(u, n, b + top) = ebp % W(n)
    BY <1>10, <1>11 DEF e, b
<1>. DEFINE f == SetReg(u, n, ESP, top)
            old == u.regs[ESP]
            new == old + ((top % W(n)) - ((old \div 1) % W(n))) * 1
<1>13. f = [u EXCEPT !.regs[ESP] = new]
    <2>. DEFINE x == IF n = 1 THEN ESP % 4 ELSE ESP
                low == IF n = 1 THEN W(ESP \div 4) ELSE 1
    <2>1. f = [u EXCEPT !.regs[x] =
                    u.regs[x] + ((top % W(n)) - ((u.regs[x] \div low) % W(n))) * low]
        BY Zenon DEF SetReg
    <2>2. x = ESP /\ low = 1
        BY <1>2
    <2>. HIDE DEF f, x, low
    <2>. QED BY <2>1, <2>2
<1>14. new = top
    <2>1. old \in 0 .. W(n) - 1
        BY DEF Number
    <2>. HIDE DEF old
    <2>2. old \div 1 = old /\ old % W(n) = old /\ top % W(n) = top
        BY <1>2, <1>4, <2>1, Small
    <2>. QED BY <1>4, <2>1, <2>2
<1>15. f.regs = [u.regs EXCEPT ![ESP] = top] /\ f.segs = u.segs /\ f.mem = u.mem
    BY <1>13, <1>14 DEF Good, Machine
<1>16. Good(f)
    <2>1. top \in Int /\ n \in {1, 2, 4}
        BY <1>2, <1>4
    <2>. HIDE DEF n
    <2>. QED BY <1>1, <2>1, SetRegGood
<1>. HIDE DEF f
<1>17. Top(f) = ebp % W(n)
    <2>1. Top(f) = Load(f, n, Base(f, SS) + f.regs[ESP])
        BY DEF Top
    <2>2. f.regs[ESP] = top /\ Base(f, SS) = b
        BY <1>1, <1>3, <1>12, <1>15 DEF Base
    <2>3. Load(f, n, b + top) = Load(u, n, b + top)
        BY <1>15, Zenon DEF Load
    <2>. QED BY <1>12, <2>1, <2>2, <2>3
<1>18. Popped(f).regs = [f.regs EXCEPT ![ESP] = U32(f.regs[ESP] + n)] /\ Good(Popped(f))
    BY <1>16, PoppedGood DEF Popped, AddReg, Good, Machine
<1>19. Popped(f).regs = [u.regs EXCEPT ![ESP] = esp]
    <2>. HIDE DEF n, esp
    <2>. QED BY <1>1, <1>3, <1>4, <1>15, <1>18
<1>20. do_leave(u, leave) = [Popped(f) EXCEPT !.regs[EBP] = Top(f)]
    BY <1>12, Zenon DEF do_leave, f
<1>21. do_leave(u, leave).regs = [Popped(f).regs EXCEPT ![EBP] = Top(f)]
    BY <1>18, <1>20 DEF Good, Machine
<1>. HIDE DEF n, esp, ebp
<1>22. do_leave(u, leave).regs = [[u.regs EXCEPT ![ESP] = esp] EXCEPT ![EBP] = ebp % W(n)]
    BY <1>17, <1>19, <1>21
<1>. QED BY <1>22 DEF n, esp, ebp

\* Where PUSHA leaves register r: they lie one below the other in their order.
Spot(s, r) == Base(s, SS) + s.regs[ESP] - (r + 1) * StackSize

\* PUSHA in machine s has come to machine t with the first k registers.
Saved(s, t, k) ==
    /\ Good(t) /\ t.segs = s.segs
    /\ t.regs[ESP] = s.regs[ESP] - k * StackSize
    /\ \A r \in 0 .. k - 1 : Load(t, StackSize, Spot(s, r)) = s.regs[r] % W(StackSize)

LEMMA OneMoreSaved ==
    ASSUME NEW s, Good(s), NEW t, NEW k \in 0 .. 7, Saved(s, t, k),
           8 * StackSize <= MemSize, s.regs[ESP] \in 8 * StackSize .. W(StackSize) - 1
    PROVE  Saved(s, Push(t, s.regs[k]), k + 1)
<1>. DEFINE n == StackSize
            b == Base(s, SS)
            x == s.regs[ESP]
            y == t.regs[ESP]
            v == s.regs[k]
            u == Push(t, v)
<1>1. n \in {2, 4} /\ MemSize \in Nat /\ 8 * n <= MemSize
    BY ProgramAssumption DEF StackSize
<1>2. x \in Nat /\ b \in Nat /\ v \in Int /\ ESP \in 0 .. 7 /\ x >= 8 * n /\ x < W(4)
    <2>1. x \in Nat /\ v \in Nat /\ b \in Nat /\ ESP \in 0 .. 7 /\ x \in Number(4)
        BY RegType, BaseType, Registers
    <2>2. W(4) \in Nat
        BY Positive
    <2>. QED BY <2>1, <2>2 DEF Number
<1>3. Good(t) /\ t.segs = s.segs /\ y = x - k * n /\ Base(t, SS) = b
    BY DEF Saved, Base
<1>. HIDE DEF n, b, x, y, v
<1>4. y \in Nat /\ y >= n /\ y - n = x - (k + 1) * n /\ y - n \in 0 .. W(4) - 1
    <2>1. W(4) \in Nat
        BY Positive
    <2>2. CASE n = 2
        BY <1>2, <1>3, <2>1, <2>2
    <2>3. CASE n = 4
        BY <1>2, <1>3, <2>1, <2>3
    <2>. QED BY <1>1, <2>2, <2>3
<1>5. U32(y - n) = y - n
    BY <1>4, Small, Positive DEF U32
<1>6. /\ Good(u) /\ u.segs = t.segs /\ u.regs = [t.regs EXCEPT ![ESP] = y - n]
      /\ Load(u, n, b + (y - n)) = v % W(n)
    <2>1. StackSize <= MemSize
        BY <1>1 DEF n
    <2>. QED BY <1>2, <1>3, <1>5, <2>1, PushChanges DEF n, y
<1>7. u.regs[ESP] = x - (k + 1) * n
    BY <1>2, <1>3, <1>4, <1>6, GoodTypes
<1>8. Load(u, n, Spot(s, k)) = v % W(n)
    <2>1. Spot(s, k) = b + x - (k + 1) * n
        BY DEF Spot, b, x, n
    <2>2. b + x - (k + 1) * n = b + (y - n)
        <3>1. (k + 1) * n \in Int
            BY <1>1
        <3>. QED BY <1>2, <1>4, <3>1
    <2>. QED BY <1>6, <2>1, <2>2
<1>9. ASSUME NEW r \in 0 .. k - 1 PROVE Load(u, n, Spot(s, r)) = s.regs[r] % W(n)
    <2>. DEFINE d == (k - (r + 1)) * n
    <2>1. d \in 0 .. MemSize - 2 * n /\ Spot(s, r) = b + y + d
        <3>1. Spot(s, r) = b + x - (r + 1) * n
            BY DEF Spot, b, x, n
        <3>2. CASE n = 2
            BY <1>1, <1>2, <1>3, <3>1, <3>2
        <3>3. CASE n = 4
            BY <1>1, <1>2, <1>3, <3>1, <3>3
        <3>. QED BY <1>1, <3>2, <3>3
    <2>. HIDE DEF d
    <2>2. Load(u, n, b + y + d) = Load(t, n, b + y + d)
        BY <1>2, <1>3, <1>4, <2>1, PushKeepsStack DEF n, y
    <2>3. Load(t, n, Spot(s, r)) = s.regs[r] % W(n)
        BY DEF Saved, n
    <2>. QED BY <2>1, <2>2, <2>3
<1>. HIDE DEF u
<1>10. \A r \in 0 .. (k + 1) - 1 : Load(u, n, Spot(s, r)) = s.regs[r] % W(n)
    <2>. TAKE r \in 0 .. (k + 1) - 1
    <2>1. CASE r = k
        BY <1>8, <2>1 DEF v
    <2>2. CASE r # k
        BY <1>9, <2>2
    <2>. QED BY <2>1, <2>2
<1>11. Saved(s, u, k + 1)
    BY <1>3, <1>6, <1>7, <1>10 DEF Saved, n, x
<1>. QED BY <1>11 DEF u, v

LEMMA PushAllSaves ==
    ASSUME NEW s, Good(s), NEW d,
           8 * StackSize <= MemSize, s.regs[ESP] \in 8 * StackSize .. W(StackSize) - 1
    PROVE  Saved(s, do_pusha(s, d), 8)
<1>. DEFINE a == Push(s, s.regs[0])
            b == Push(a, s.regs[1])
            c == Push(b, s.regs[2])
            e == Push(c, s.regs[3])
            f == Push(e, s.regs[4])
            g == Push(f, s.regs[5])
            h == Push(g, s.regs[6])
            i == Push(h, s.regs[7])
<1>1. do_pusha(s, d) = i
    BY Zenon DEF do_pusha, EAX, ECX, EDX, EBX, ESP, EBP, ESI, EDI
<1>2. Saved(s, s, 0)
    <2>1. s.regs[ESP] \in Nat /\ StackSize \in Int
        BY RegType, Registers, StackSizes
    <2>. QED BY <2>1 DEF Saved
<1>3. Saved(s, a, 1)
    BY <1>2, OneMoreSaved
<1>. HIDE DEF a
<1>4. Saved(s, b, 2)
    BY <1>3, OneMoreSaved
<1>. HIDE DEF b
<1>5. Saved(s, c, 3)
    BY <1>4, OneMoreSaved
<1>. HIDE DEF c
<1>6. Saved(s, e, 4)
    BY <1>5, OneMoreSaved
<1>. HIDE DEF e
<1>7. Saved(s, f, 5)
    BY <1>6, OneMoreSaved
<1>. HIDE DEF f
<1>8. Saved(s, g, 6)
    BY <1>7, OneMoreSaved
<1>. HIDE DEF g
<1>9. Saved(s, h, 7)
    BY <1>8, OneMoreSaved
<1>. HIDE DEF h
<1>10. Saved(s, i, 8)
    BY <1>9, OneMoreSaved
<1>. HIDE DEF i
<1>. QED BY <1>1, <1>10

\* A register whose part of the size of the stack has been written: all of it or
\* its lower half.
Lower(old, new) == old - (old % W(StackSize)) + (new % W(StackSize))

\* POPA in machine u has come to machine t with all but the first k registers
\* of those PUSHA saved in machine s.
Restored(s, u, t, k) ==
    /\ Good(t) /\ t.segs = u.segs /\ t.mem = u.mem
    /\ t.regs[ESP] = s.regs[ESP] - k * StackSize
    /\ \A r \in (0 .. 7) \ {ESP} :
            t.regs[r] = IF r < k THEN u.regs[r] ELSE Lower(u.regs[r], s.regs[r])

\* A register written in the size of the stack.
LEMMA WritesLower ==
    ASSUME NEW t, Good(t), NEW r \in 0 .. 7, NEW v \in Int
    PROVE  /\ Good(SetReg(t, StackSize, r, v))
           /\ SetReg(t, StackSize, r, v).segs = t.segs /\ SetReg(t, StackSize, r, v).mem = t.mem
           /\ SetReg(t, StackSize, r, v).regs[r] = Lower(t.regs[r], v)
           /\ \A i \in (0 .. 7) \ {r} : SetReg(t, StackSize, r, v).regs[i] = t.regs[i]
<1>. DEFINE n == StackSize
            old == t.regs[r]
            new == old + ((v % W(n)) - ((old \div 1) % W(n))) * 1
            u == SetReg(t, n, r, v)
<1>1. n \in {2, 4} /\ n \in {1, 2, 4}
    BY DEF StackSize
<1>2. u = [t EXCEPT !.regs[r] = new]
    <2>. DEFINE x == IF n = 1 THEN r % 4 ELSE r
                low == IF n = 1 THEN W(r \div 4) ELSE 1
    <2>1. u = [t EXCEPT !.regs[x] =
                    t.regs[x] + ((v % W(n)) - ((t.regs[x] \div low) % W(n))) * low]
        BY Zenon DEF SetReg
    <2>2. x = r /\ low = 1
        BY <1>1
    <2>. HIDE DEF u, x, low
    <2>. QED BY <2>1, <2>2
<1>3. new = Lower(old, v)
    <2>1. old \in Nat /\ W(n) \in Nat \ {0}
        BY <1>1, RegType, Positive
    <2>2. Lower(old, v) = old - (old % W(n)) + (v % W(n))
        BY DEF Lower
    <2>. HIDE DEF n, old
    <2>3. old \div 1 = old /\ old % W(n) \in Int /\ v % W(n) \in Int
        BY <2>1
    <2>. QED BY <2>1, <2>2, <2>3
<1>4. Good(u)
    BY <1>1, SetRegGood
<1>5. u.regs = [t.regs EXCEPT ![r] = new] /\ u.segs = t.segs /\ u.mem = t.mem
    BY <1>2 DEF Good, Machine
<1>. HIDE DEF u, new
<1>6. u.regs[r] = new /\ \A i \in (0 .. 7) \ {r} : u.regs[i] = t.regs[i]
    BY <1>5, GoodTypes
<1>. QED BY <1>3, <1>4, <1>5, <1>6 DEF u

LEMMA OneMoreRestored ==
    ASSUME NEW s, Good(s), NEW u, Good(u), NEW t, NEW k \in 0 .. 7, k # ESP,
           Restored(s, u, t, k + 1), Base(u, SS) = Base(s, SS),
           s.regs[ESP] \in 8 * StackSize .. W(StackSize) - 1,
           Load(u, StackSize, Spot(s, k)) = s.regs[k] % W(StackSize)
    PROVE  Restored(s, u, PopInto(t, StackSize, k), k)
<1>. DEFINE n == StackSize
            x == s.regs[ESP]
            y == t.regs[ESP]
            p == Popped(t)
            v == Top(t)
            q == SetReg(p, n, k, v)
<1>1. n \in {2, 4} /\ x \in Nat /\ x >= 8 * n /\ x < W(4) /\ ESP \in 0 .. 7
    <2>1. x \in Nat /\ ESP \in 0 .. 7 /\ x \in Number(4)
        BY RegType, Registers
    <2>2. W(4) \in Nat /\ n \in {2, 4}
        BY Positive DEF StackSize
    <2>. QED BY <2>1, <2>2 DEF Number
<1>2. Good(t) /\ t.segs = u.segs /\ t.mem = u.mem /\ y = x - (k + 1) * n
    BY DEF Restored
<1>3. v = s.regs[k] % W(n) /\ v \in Int
    <2>. DEFINE b == Base(s, SS)
    <2>1. Base(t, SS) = b
        BY <1>2 DEF Base
    <2>2. v = Load(t, n, b + y)
        BY <2>1 DEF Top
    <2>3. Load(t, n, b + y) = Load(u, n, b + y)
        BY <1>2, Zenon DEF Load
    <2>4. Spot(s, k) = b + x - (k + 1) * n
        BY DEF Spot
    <2>5. b \in Nat
        BY BaseType, Registers
    <2>6. v \in Int
        BY <1>2, TopType, NumberType
    <2>7. Load(u, n, Spot(s, k)) = s.regs[k] % W(n)
        OBVIOUS
    <2>. HIDE DEF b, n, x, y, v
    <2>8. b + y = b + x - (k + 1) * n
        <3>1. (k + 1) * n \in Int
            BY <1>1
        <3>. QED BY <1>1, <1>2, <2>5, <3>1
    <2>. QED BY <2>2, <2>3, <2>4, <2>6, <2>7, <2>8
<1>4. /\ Good(p) /\ p.segs = u.segs /\ p.mem = u.mem
      /\ p.regs = [t.regs EXCEPT ![ESP] = U32(y + n)]
    BY <1>2, PoppedGood DEF Popped, AddReg, Good, Machine
<1>. HIDE DEF p, v, x, y
<1>5. U32(y + n) = x - k * n
    <2>1. W(4) \in Nat \ {0}
        BY Positive
    <2>. HIDE DEF n
    <2>2. y + n = x - k * n /\ x - k * n \in 0 .. W(4) - 1
        <3>1. CASE n = 2
            BY <1>1, <1>2, <2>1, <3>1
        <3>2. CASE n = 4
            BY <1>1, <1>2, <2>1, <3>2
        <3>. QED BY <1>1, <3>1, <3>2
    <2>. QED BY <2>1, <2>2, Small DEF U32
<1>6. /\ Good(q) /\ q.segs = u.segs /\ q.mem = u.mem
      /\ q.regs[k] = Lower(p.regs[k], v)
      /\ \A i \in (0 .. 7) \ {k} : q.regs[i] = p.regs[i]
    <2>1. Good(p) /\ v \in Int
        BY <1>3, <1>4
    <2>2. /\ Good(q) /\ q.segs = p.segs /\ q.mem = p.mem
          /\ q.regs[k] = Lower(p.regs[k], v)
          /\ \A i \in (0 .. 7) \ {k} : q.regs[i] = p.regs[i]
        BY <2>1, WritesLower
    <2>. HIDE DEF q
    <2>. QED BY <1>4, <2>2
<1>7. PopInto(t, n, k) = q
    BY Zenon DEF PopInto, p, v
<1>. HIDE DEF q
<1>8. t.regs \in [0 .. 7 -> Number(4)] /\ u.regs \in [0 .. 7 -> Number(4)]
    BY <1>2, GoodTypes
<1>9. q.regs[ESP] = x - k * n /\ q.regs[k] = Lower(t.regs[k], v)
    BY <1>1, <1>4, <1>5, <1>6, <1>8
<1>10. Lower(t.regs[k], v) = Lower(u.regs[k], s.regs[k])
    <2>1. t.regs[k] = u.regs[k]
        BY DEF Restored
    <2>2. v % W(n) = s.regs[k] % W(n)
        <3>1. s.regs[k] \in Nat /\ W(n) \in Nat \ {0}
            BY <1>1, RegType, Positive
        <3>. HIDE DEF n
        <3>2. s.regs[k] % W(n) \in 0 .. W(n) - 1
            BY <3>1
        <3>3. v \in 0 .. W(n) - 1
            BY <1>3, <3>2
        <3>. QED BY <1>3, <3>1, <3>3, Small
    <2>. QED BY <2>1, <2>2 DEF Lower
<1>11. ASSUME NEW r \in (0 .. 7) \ {ESP}
       PROVE  q.regs[r] = IF r < k THEN u.regs[r] ELSE Lower(u.regs[r], s.regs[r])
    <2>1. CASE r = k
        BY <1>9, <1>10, <2>1
    <2>2. CASE r # k
        <3>1. q.regs[r] = t.regs[r]
            BY <1>1, <1>4, <1>6, <1>8, <2>2
        <3>2. t.regs[r] = IF r < k + 1 THEN u.regs[r] ELSE Lower(u.regs[r], s.regs[r])
            BY DEF Restored
        <3>3. r < k + 1 <=> r < k
            BY <2>2
        <3>. QED BY <3>1, <3>2, <3>3
    <2>. QED BY <2>1, <2>2
<1>. QED BY <1>6, <1>7, <1>9, <1>11 DEF Restored, n, x

\* The stack pointer is passed over.
LEMMA PassedOver ==
    ASSUME NEW s, Good(s), NEW u, Good(u), NEW t, Restored(s, u, t, 5),
           s.regs[ESP] \in 8 * StackSize .. W(StackSize) - 1
    PROVE  Restored(s, u, SetReg(t, StackSize, ESP, GetReg(t, StackSize, ESP) + StackSize), 4)
<1>. DEFINE n == StackSize
            x == s.regs[ESP]
            y == t.regs[ESP]
            v == GetReg(t, n, ESP) + n
            q == SetReg(t, n, ESP, v)
<1>1. n \in {2, 4} /\ x \in Nat /\ x >= 8 * n /\ x < W(n) /\ ESP \in 0 .. 7 /\ W(n) \in Nat \ {0}
    <2>1. x \in Nat /\ ESP \in 0 .. 7 /\ n \in {2, 4}
        BY RegType, Registers DEF StackSize
    <2>2. W(n) \in Nat \ {0}
        BY <2>1, Positive
    <2>. QED BY <2>1, <2>2
<1>2. Good(t) /\ t.segs = u.segs /\ t.mem = u.mem /\ y = x - 5 * n
    BY DEF Restored
<1>3. v = (y % W(n)) + n
    BY <1>1 DEF GetReg
<1>. HIDE DEF n, x, y, v
<1>4. y \in 0 .. W(n) - 1 /\ y + n \in 0 .. W(n) - 1 /\ y + n = x - 4 * n
    BY <1>1, <1>2
<1>5. v = x - 4 * n /\ v \in Int /\ Lower(y, v) = x - 4 * n
    <2>1. y % W(n) = y
        BY <1>1, <1>4, Small
    <2>2. v = y + n
        BY <1>3, <2>1
    <2>3. v % W(n) = v
        BY <1>1, <1>4, <2>2, Small
    <2>4. Lower(y, v) = y - (y % W(n)) + (v % W(n))
        BY DEF Lower, n
    <2>. QED BY <1>1, <1>4, <2>1, <2>2, <2>3, <2>4
<1>6. /\ Good(q) /\ q.segs = u.segs /\ q.mem = u.mem
      /\ q.regs[ESP] = x - 4 * n
      /\ \A i \in (0 .. 7) \ {ESP} : q.regs[i] = t.regs[i]
    <2>1. Good(t) /\ v \in Int /\ ESP \in 0 .. 7
        BY <1>1, <1>2, <1>5
    <2>2. /\ Good(q) /\ q.segs = t.segs /\ q.mem = t.mem
          /\ q.regs[ESP] = Lower(t.regs[ESP], v)
          /\ \A i \in (0 .. 7) \ {ESP} : q.regs[i] = t.regs[i]
        BY <2>1, WritesLower DEF n
    <2>. HIDE DEF q
    <2>. QED BY <1>2, <1>5, <2>2 DEF y
<1>. HIDE DEF q
<1>7. ASSUME NEW r \in (0 .. 7) \ {ESP}
      PROVE  q.regs[r] = IF r < 4 THEN u.regs[r] ELSE Lower(u.regs[r], s.regs[r])
    <2>1. q.regs[r] = t.regs[r]
        BY <1>6
    <2>2. t.regs[r] = IF r < 5 THEN u.regs[r] ELSE Lower(u.regs[r], s.regs[r])
        BY DEF Restored
    <2>3. r < 5 <=> r < 4
        BY DEF ESP
    <2>. QED BY <2>1, <2>2, <2>3
<1>8. Restored(s, u, q, 4)
    BY <1>6, <1>7 DEF Restored, n, x
<1>. QED BY <1>8 DEF q, v, n

\* POPA gives back what PUSHA saved: the stack pointer, which it does not take
\* from the stack but counts up, is what it was, and so is every register, or
\* its lower half where the stack is of 16 bits; the upper one stays as POPA
\* finds it.  It is so whatever happened in between, if the stack pointer, the
\* stack segment and the registers on the stack are as PUSHA left them, if the
\* stack stays in its segment, and if POPA has no operand size prefix: PUSHA
\* goes by the size of the stack, POPA counts the pointer by that of the operands (do_pusha, do_popa, run386.c:586, 601).
THEOREM PopAllUndoesPushAll ==
    ASSUME NEW s, Good(s), NEW push, NEW u, Good(u), NEW pop,
           8 * StackSize <= MemSize, Ops32 <=> task.use32,
           s.regs[ESP] \in 8 * StackSize .. W(StackSize) - 1,
           u.regs[ESP] = do_pusha(s, push).regs[ESP], Base(u, SS) = Base(s, SS),
           \A r \in (0 .. 7) \ {ESP} :
                Load(u, StackSize, Spot(s, r)) = Load(do_pusha(s, push), StackSize, Spot(s, r))
    PROVE  /\ do_popa(u, pop).regs[ESP] = s.regs[ESP]
           /\ \A r \in (0 .. 7) \ {ESP} :
                    do_popa(u, pop).regs[r] = Lower(u.regs[r], s.regs[r])
<1>. DEFINE n == StackSize
            a == PopInto(u, n, 7)
            b == PopInto(a, n, 6)
            c == PopInto(b, n, 5)
            e == SetReg(c, n, ESP, GetReg(c, n, ESP) + n)
            f == PopInto(e, n, 3)
            g == PopInto(f, n, 2)
            h == PopInto(g, n, 1)
            i == PopInto(h, n, 0)
<1>1. do_popa(u, pop) = i
    <2>. DEFINE z == IF Ops32 THEN 4 ELSE 2
    <2>1. z = n
        BY DEF StackSize
    <2>2. do_popa(u, pop) =
            PopInto(PopInto(PopInto(PopInto(
                SetReg(PopInto(PopInto(PopInto(u, z, 7), z, 6), z, 5), z, ESP,
                    GetReg(PopInto(PopInto(PopInto(u, z, 7), z, 6), z, 5), z, ESP) + z),
                z, 3), z, 2), z, 1), z, 0)
        BY Zenon DEF do_popa, EAX, ECX, EDX, EBX, EBP, ESI, EDI
    <2>. HIDE DEF z, n
    <2>. QED BY <2>1, <2>2, Zenon
<1>2. Saved(s, do_pusha(s, push), 8)
    BY PushAllSaves
<1>3. u.regs[ESP] = s.regs[ESP] - 8 * n
    BY <1>2 DEF Saved
<1>4. \A r \in (0 .. 7) \ {ESP} : Load(u, n, Spot(s, r)) = s.regs[r] % W(n)
    BY <1>2 DEF Saved
<1>5. Restored(s, u, u, 8)
    BY <1>3 DEF Restored
<1>6. ASSUME NEW t, NEW k \in (0 .. 7) \ {ESP}, Restored(s, u, t, k + 1)
      PROVE  Restored(s, u, PopInto(t, n, k), k)
    BY <1>4, <1>6, OneMoreRestored
<1>7. ESP = 4
    BY DEF ESP
<1>8. Restored(s, u, a, 7)
    BY <1>5, <1>6, <1>7
<1>. HIDE DEF a
<1>9. Restored(s, u, b, 6)
    BY <1>6, <1>7, <1>8
<1>. HIDE DEF b
<1>10. Restored(s, u, c, 5)
    BY <1>6, <1>7, <1>9
<1>. HIDE DEF c
<1>11. Restored(s, u, e, 4)
    BY <1>10, PassedOver
<1>. HIDE DEF e
<1>12. Restored(s, u, f, 3)
    BY <1>6, <1>7, <1>11
<1>. HIDE DEF f
<1>13. Restored(s, u, g, 2)
    BY <1>6, <1>7, <1>12
<1>. HIDE DEF g
<1>14. Restored(s, u, h, 1)
    BY <1>6, <1>7, <1>13
<1>. HIDE DEF h
<1>15. Restored(s, u, i, 0)
    BY <1>6, <1>7, <1>14
<1>. HIDE DEF i
<1>16. i.regs[ESP] = s.regs[ESP]
    <2>1. s.regs[ESP] \in Nat /\ n \in Int
        BY RegType, Registers, StackSizes
    <2>2. i.regs[ESP] = s.regs[ESP] - 0 * n
        BY <1>15 DEF Restored
    <2>. QED BY <2>1, <2>2
<1>17. \A r \in (0 .. 7) \ {ESP} : i.regs[r] = Lower(u.regs[r], s.regs[r])
    BY <1>15 DEF Restored
<1>. QED BY <1>1, <1>16, <1>17

----------------------------------------------------------------------------
(* Repetitions *)

\* What no string instruction has to do with.
Spared(s, t) ==
    /\ t.segs = s.segs /\ t.eip = s.eip
    /\ \A r \in {ECX, EDX, EBX, ESP, EBP} : t.regs[r] = s.regs[r]

\* The changes a string instruction is made of.
LEMMA ChangesSpare ==
    ASSUME NEW s, Good(s), NEW n \in {1, 2, 4}
    PROVE  /\ \A a, v : Spared(s, Store(s, n, a, v))
           /\ \A v : Spared(s, SetReg(s, n, EAX, v))
           /\ \A v, k : Spared(s, SetZF(s, k, v))
           /\ \A r \in {ESI, EDI} : Spared(s, Advance(s, r, n))
           /\ Spared(s, Hang(s))
<1>1. s.regs \in [0 .. 7 -> Number(4)]
    BY GoodTypes
<1>2. \A a, v : Spared(s, Store(s, n, a, v))
    BY DEF Spared, Store, Good, Machine
<1>3. \A v, k : Spared(s, SetZF(s, k, v))
    BY DEF Spared, SetZF, Good, Machine
<1>4. Spared(s, Hang(s))
    BY DEF Spared, Hang, Good, Machine
<1>5. ASSUME NEW r \in {EAX, ESI, EDI}, NEW x PROVE Spared(s, [s EXCEPT !.regs[r] = x])
    <2>1. r \notin {ECX, EDX, EBX, ESP, EBP} /\ {ECX, EDX, EBX, ESP, EBP} \subseteq 0 .. 7
        BY DEF EAX, ECX, EDX, EBX, ESP, EBP, ESI, EDI
    <2>2. [s EXCEPT !.regs[r] = x].regs = [s.regs EXCEPT ![r] = x]
        BY DEF Good, Machine
    <2>3. ASSUME NEW q \in {ECX, EDX, EBX, ESP, EBP} PROVE [s.regs EXCEPT ![r] = x][q] = s.regs[q]
        BY <1>1, <2>1
    <2>. QED BY <2>2, <2>3 DEF Spared, Good, Machine
<1>6. ASSUME NEW v PROVE Spared(s, SetReg(s, n, EAX, v))
    <2>. DEFINE x == IF n = 1 THEN EAX % 4 ELSE EAX
                low == IF n = 1 THEN W(EAX \div 4) ELSE 1
                new == s.regs[x] + ((v % W(n)) - ((s.regs[x] \div low) % W(n))) * low
    <2>1. SetReg(s, n, EAX, v) = [s EXCEPT !.regs[x] = new]
        BY Zenon DEF SetReg
    <2>2. x = EAX
        BY DEF EAX
    <2>. HIDE DEF x, low, new
    <2>3. Spared(s, [s EXCEPT !.regs[EAX] = new])
        BY <1>5
    <2>. QED BY <2>1, <2>2, <2>3
<1>7. ASSUME NEW r \in {ESI, EDI} PROVE Spared(s, Advance(s, r, n))
    <2>1. ASSUME NEW k PROVE Spared(s, AddReg(s, r, k))
        <3>1. AddReg(s, r, k) = [s EXCEPT !.regs[r] = U32(s.regs[r] + k)]
            BY DEF AddReg
        <3>. QED BY <1>5, <3>1
    <2>. QED BY <2>1 DEF Advance
<1>. QED BY <1>2, <1>3, <1>4, <1>6, <1>7

LEMMA SparedTwice ==
    ASSUME NEW s, NEW t, NEW u, Spared(s, t), Spared(t, u)
    PROVE  Spared(s, u)
BY DEF Spared

\* All string instructions.
LEMMA StringSpares ==
    ASSUME NEW s, Good(s), Overrides, NEW sub \in Nat, NEW flags
    PROVE  Spared(s, do_string(s, sub, flags))
<1>. DEFINE n == StringSize(flags)
            name == IF sub < Len(StringOps) THEN StringOps[sub + 1] ELSE "NONE"
            from == Load(s, n, SourceAt(s))
            to == Load(s, n, DestAt(s))
            scanned == Scanned(s, flags, to)
            at == DestAt(s)
            stored == Store(s, n, at, s.regs[EAX])
            loaded == SetReg(s, n, EAX, from)
            compared == SetZF(s, 1, from - to)
            moved == Store(s, n, at, from)
<1>1. n \in {1, 2, 4}
    BY StringSizes
<1>2. name \in {"MOVS", "SCAS", "STOS", "INS", "OUTS", "LODS", "CMPS", "NONE"}
    BY DEF StringOps
<1>3. do_string(s, sub, flags) =
        CASE name = "STOS" -> Advance(stored, EDI, n)
          [] name = "LODS" -> Advance(loaded, ESI, n)
          [] name = "CMPS" -> Advance(Advance(compared, ESI, n), EDI, n)
          [] name = "MOVS" -> Advance(Advance(moved, ESI, n), EDI, n)
          [] name = "SCAS" -> Advance(scanned, EDI, n)
          [] name \in {"INS", "OUTS", "NONE"} -> Hang(s)
    BY Zenon DEF do_string
<1>. HIDE DEF n, name
<1>4. from \in Int /\ at \in Int
    <2>1. from \in Number(n)
        BY <1>1, StringPlaces, LoadType
    <2>2. Number(n) \subseteq Nat
        BY <1>1, NumberType
    <2>. QED BY <2>1, <2>2, StringPlaces
<1>5. EAX \in 0 .. 7 /\ ESI \in 0 .. 7 /\ s.regs[EAX] \in Int
    BY Registers, RegType
<1>. HIDE DEF from, to, at
<1>6. Good(stored) /\ Good(moved) /\ Good(loaded) /\ Good(compared) /\ Good(scanned)
    <2>1. Good(stored) /\ Good(moved)
        BY <1>1, <1>4, <1>5, StoreGood
    <2>2. Good(loaded)
        BY <1>1, <1>4, <1>5, SetRegGood
    <2>3. Good(compared) /\ Good(scanned)
        BY SetZFGood DEF Scanned
    <2>. QED BY <2>1, <2>2, <2>3
<1>7. Spared(s, stored) /\ Spared(s, moved) /\ Spared(s, loaded) /\ Spared(s, compared) /\ Spared(s, scanned)
    <2>1. Spared(s, s)
        BY DEF Spared
    <2>. QED BY <1>1, <2>1, ChangesSpare DEF Scanned
<1>. HIDE DEF stored, moved, loaded, compared, scanned
<1>8. ASSUME NEW t, Good(t), Spared(s, t), NEW r \in {ESI, EDI}
      PROVE  Spared(s, Advance(t, r, n)) /\ Good(Advance(t, r, n))
    <2>1. Spared(t, Advance(t, r, n))
        BY <1>1, <1>8, ChangesSpare
    <2>2. Good(Advance(t, r, n))
        BY <1>1, <1>8, AdvanceGood, Registers
    <2>. QED BY <1>8, <2>1, <2>2, SparedTwice
<1>9. /\ Spared(s, Advance(stored, EDI, n)) /\ Spared(s, Advance(loaded, ESI, n))
      /\ Spared(s, Advance(scanned, EDI, n))
    BY <1>6, <1>7, <1>8
<1>10. /\ Spared(s, Advance(Advance(compared, ESI, n), EDI, n))
       /\ Spared(s, Advance(Advance(moved, ESI, n), EDI, n))
    BY <1>6, <1>7, <1>8
<1>11. Spared(s, Hang(s))
    BY <1>1, ChangesSpare
<1>. QED BY <1>2, <1>3, <1>9, <1>10, <1>11

\* Each round of a repetition, whatever is repeated in whatever size and
\* direction, counts ECX down by one and leaves the program counter, the
\* segments, the stack and the other registers a string instruction has nothing
\* to do with as they are: none runs longer than its count said when it began,
\* unless the instruction is one that the core does not have
\* (do_rep_string, run386.c:891).
THEOREM RoundsCountDown ==
    Spec => [][RepeatRound /\ m'.status = "runs" =>
                  /\ m'.regs[ECX] = m.regs[ECX] - 1
                  /\ m'.eip = m.eip /\ m'.segs = m.segs
                  /\ \A r \in {EDX, EBX, ESP, EBP} : m'.regs[r] = m.regs[r]]_vars
<1>1. ASSUME CoreInv, RepeatRound, m'.status = "runs"
      PROVE  /\ m'.regs[ECX] = m.regs[ECX] - 1
             /\ m'.eip = m.eip /\ m'.segs = m.segs
             /\ \A r \in {EDX, EBX, ESP, EBP} : m'.regs[r] = m.regs[r]
    <2>. DEFINE s == do_string(m, rep.sub, rep.flags)
                t == IF s.status = "runs" THEN AddReg(s, ECX, -1) ELSE s
    <2>1. Good(m) /\ Overrides /\ rep.sub \in Nat
        BY <1>1 DEF CoreInv
    <2>2. Good(s) /\ Spared(m, s)
        BY <2>1, StringGood, StringSpares
    <2>3. m' = t /\ m.regs[ECX] # 0
        BY <1>1, Zenon DEF RepeatRound, Finish
    <2>. HIDE DEF s
    <2>4. s.status = "runs"
        BY <1>1, <2>3
    <2>5. m' = AddReg(s, ECX, -1)
        BY <2>3, <2>4
    <2>6. m'.regs = [s.regs EXCEPT ![ECX] = U32(s.regs[ECX] + (-1))] /\ m'.eip = s.eip /\ m'.segs = s.segs
        BY <2>2, <2>5 DEF AddReg, Good, Machine
    <2>7. s.regs \in [0 .. 7 -> Number(4)] /\ s.regs[ECX] = m.regs[ECX] /\ ECX \in 0 .. 7
        BY <2>2, GoodTypes, Registers DEF Spared
    <2>8. U32(s.regs[ECX] + (-1)) = m.regs[ECX] - 1
        <3>. DEFINE c == m.regs[ECX]
        <3>1. c \in Number(4) /\ c # 0 /\ W(4) \in Nat \ {0}
            BY <2>1, <2>3, RegType, Registers, Positive
        <3>. HIDE DEF c
        <3>2. c + (-1) = c - 1 /\ c - 1 \in 0 .. W(4) - 1
            BY <3>1 DEF Number
        <3>3. U32(c + (-1)) = c - 1
            BY <3>1, <3>2, Small DEF U32
        <3>. QED BY <2>7, <3>3 DEF c
    <2>9. ASSUME NEW r \in {EDX, EBX, ESP, EBP} PROVE m'.regs[r] = m.regs[r]
        <3>1. r # ECX /\ r \in 0 .. 7
            BY DEF ECX, EDX, EBX, ESP, EBP
        <3>2. m'.regs[r] = s.regs[r]
            BY <2>6, <2>7, <3>1
        <3>. QED BY <2>2, <3>2 DEF Spared
    <2>10. m'.regs[ECX] = m.regs[ECX] - 1
        BY <2>6, <2>7, <2>8
    <2>. QED BY <2>2, <2>6, <2>9, <2>10 DEF Spared
<1>. QED BY <1>1, CoreKept, PTL DEF Spec

----------------------------------------------------------------------------
(* Products and quotients *)

\* Numbers of twice the width, and halves of the range.
LEMMA Doubled ==
    ASSUME NEW n \in {1, 2, 4}
    PROVE  /\ W(n) \in Nat \ {0} /\ W(2 * n) = W(n) * W(n) /\ W(2 * n) \in Nat \ {0}
           /\ \E h \in Nat \ {0} : W(n) = 2 * h /\ W(n) \div 2 = h /\ W(2 * n) = 4 * (h * h)
<1>1. W(n) \in Nat \ {0} /\ W(n) % 2 = 0
    BY Widths
<1>2. W(2 * n) = W(n) * W(n)
    <2>1. Byte \in Nat
        BY ByteAssumption
    <2>2. CASE n = 1
        BY <2>1, <2>2 DEF W
    <2>3. CASE n = 2
        <3>1. W(4) = W(2) * W(2)
            BY BytesOfWide
        <3>. QED BY <2>3, <3>1
    <2>4. CASE n = 4
        <3>1. W(8) = W(4) * W(4)
            BY <2>1 DEF W
        <3>. QED BY <2>4, <3>1
    <2>. QED BY <2>2, <2>3, <2>4
<1>. DEFINE w == W(n)
            h == w \div 2
<1>. HIDE DEF w
<1>3. h \in Nat \ {0} /\ w = 2 * h
    BY <1>1 DEF w
<1>4. w * w \in Nat \ {0} /\ w * w = 4 * (h * h)
    <2>. HIDE DEF h
    <2>. QED BY <1>3
<1>. QED BY <1>1, <1>2, <1>3, <1>4 DEF w

\* A signed number that fits is what its bytes say.
LEMMA Fitting ==
    ASSUME NEW w \in Nat \ {0}, NEW h \in Nat \ {0}, w = 2 * h, NEW x \in Int, -h <= x, x < h
    PROVE  (IF 2 * (x % w) < w THEN x % w ELSE (x % w) - w) = x
<1>1. CASE x >= 0
    <2>1. x \in 0 .. w - 1 /\ 2 * x < w
        BY <1>1
    <2>2. x % w = x
        BY <2>1, Small
    <2>. QED BY <2>1, <2>2
<1>2. CASE x < 0
    <2>1. x % w = x + w
        BY <1>2, Below
    <2>. QED BY <1>2, <2>1
<1>. QED BY <1>1, <1>2

LEMMA SignedFits ==
    ASSUME NEW n \in {1, 2, 4, 8}, NEW h \in Nat \ {0}, W(n) = 2 * h, NEW x \in Int, -h <= x, x < h
    PROVE  SX(n, x) = x
<1>. DEFINE w == W(n)
<1>1. w \in Nat \ {0} /\ w = 2 * h
    BY Positive
<1>. HIDE DEF w
<1>2. (IF 2 * (x % w) < w THEN x % w ELSE (x % w) - w) = x
    BY <1>1, Fitting
<1>. QED BY <1>2 DEF SX, w

\* The signed value of n bytes.
LEMMA SignedRange ==
    ASSUME NEW n \in {1, 2, 4, 8}, NEW h \in Nat \ {0}, W(n) = 2 * h, NEW v \in Int
    PROVE  SX(n, v) \in Int /\ -h <= SX(n, v) /\ SX(n, v) < h
<1>. DEFINE w == W(n)
            u == v % w
<1>1. w \in Nat \ {0} /\ w = 2 * h
    BY Positive
<1>. HIDE DEF w
<1>2. u \in 0 .. w - 1
    BY <1>1
<1>. HIDE DEF u
<1>3. LET y == IF 2 * u < w THEN u ELSE u - w IN y \in Int /\ -h <= y /\ y < h
    BY <1>1, <1>2
<1>. QED BY <1>3, Zenon DEF SX, u, w

\* The division of C: the remainder is smaller than the divisor and has the
\* sign of the dividend.
LEMMA Remains ==
    ASSUME NEW a \in Int, NEW b \in Int, b # 0
    PROVE  LET q == Quotient(a, b)
               r == Remainder(a, b)
           IN /\ q \in Int /\ r \in Int /\ q * b + r = a
              /\ (IF r < 0 THEN -r ELSE r) < (IF b < 0 THEN -b ELSE b)
              /\ r # 0 => (r < 0) = (a < 0)
<1>. DEFINE x == IF a < 0 THEN -a ELSE a
            y == IF b < 0 THEN -b ELSE b
            p == x \div y
            s == x % y
            q == IF (a < 0) = (b < 0) THEN p ELSE -p
            r == a - b * q
<1>1. x \in Nat /\ y \in Nat \ {0}
    OBVIOUS
<1>2. p \in Int /\ s \in 0 .. y - 1 /\ x = p * y + s
    <2>. HIDE DEF x, y
    <2>. QED BY <1>1, Divided
<1>3. Quotient(a, b) = q /\ Remainder(a, b) = r
    BY DEF Quotient, Remainder
<1>. HIDE DEF p, s
<1>4. q \in Int /\ b * q \in Int /\ r \in Int /\ q * b + r = a
    BY <1>2
<1>5. CASE a >= 0
    <2>1. b * q = p * y
        BY <1>2, <1>5
    <2>2. r = s
        BY <1>2, <1>5, <2>1
    <2>. QED BY <1>2, <1>3, <1>4, <1>5, <2>2
<1>6. CASE a < 0
    <2>1. b * q = -(p * y)
        BY <1>2, <1>6
    <2>2. r = -s
        BY <1>2, <1>6, <2>1
    <2>. QED BY <1>2, <1>3, <1>4, <1>6, <2>2
<1>. QED BY <1>5, <1>6

\* DIV and IDIV, of every width: quotient and remainder, cut to the width they
\* are written in, give back the dividend whenever the quotient has a place; the
\* remainder is smaller than the divisor, with the dividend's sign
\* (do_alu_special, run386.c:419-433, 453-456).
THEOREM DivisionIsExact ==
    ASSUME NEW n \in {1, 2, 4}, NEW a \in 0 .. W(2 * n) - 1, NEW b \in 0 .. W(n) - 1, b # 0
    PROVE  /\ LET out == SpecialResult("DIV", n, a, b)
                  q == out.res % W(n)
                  r == out.rem % W(n)
              IN a \div b < W(n) => q * b + r = a /\ r < b
           /\ LET out == SpecialResult("IDIV", n, a, b)
                  x == SX(2 * n, a)
                  d == SX(n, b)
                  q == SX(n, out.res)
                  r == SX(n, out.rem)
              IN Quotient(x, d) \in -(W(n) \div 2) .. W(n) \div 2 - 1 =>
                    /\ q * d + r = x
                    /\ (IF r < 0 THEN -r ELSE r) < (IF d < 0 THEN -d ELSE d)
                    /\ r # 0 => (r < 0) = (x < 0)
<1>. DEFINE w == W(n)
<1>1. PICK h \in Nat \ {0} : w = 2 * h /\ w \div 2 = h /\ W(2 * n) = 4 * (h * h)
    BY Doubled
<1>2. w \in Nat \ {0} /\ a \in Nat /\ b \in 1 .. w - 1
    BY Doubled
<1>3. SpecialResult("DIV", n, a, b) = [res |-> a \div b, rem |-> a % b]
    BY DEF SpecialResult
<1>4. ASSUME a \div b < w
      PROVE  ((a \div b) % w) * b + ((a % b) % w) = a /\ (a % b) % w < b
    <2>. DEFINE q == a \div b
                r == a % b
    <2>. HIDE DEF w
    <2>1. q \in Nat /\ r \in 0 .. b - 1 /\ a = q * b + r
        <3>1. b \in Nat \ {0} /\ a \in Nat
            BY <1>2
        <3>. QED BY <3>1, Split
    <2>2. q < w
        BY <1>4
    <2>. HIDE DEF q, r
    <2>3. q % w = q /\ r % w = r
        BY <1>2, <2>1, <2>2, Small
    <2>. QED BY <2>1, <2>3 DEF q, r
<1>. DEFINE x == SX(2 * n, a)
            d == SX(n, b)
<1>5. SpecialResult("IDIV", n, a, b) = [res |-> Quotient(x, d), rem |-> Remainder(x, d)]
    BY Zenon DEF SpecialResult
<1>6. x \in Int
    BY <1>2, SXType
<1>7. d \in Int /\ -h <= d /\ d < h /\ d # 0
    <2>1. d \in Int /\ -h <= d /\ d < h
        BY <1>1, <1>2, SignedRange
    <2>2. d # 0
        <3>1. b % w = b
            BY <1>2, Small
        <3>2. d = IF 2 * b < w THEN b ELSE b - w
            BY <3>1 DEF SX
        <3>. HIDE DEF w, d
        <3>. QED BY <1>2, <3>2
    <2>. QED BY <2>1, <2>2
<1>. HIDE DEF x, d
<1>8. ASSUME Quotient(x, d) \in -h .. h - 1
      PROVE  LET q == SX(n, Quotient(x, d))
                 r == SX(n, Remainder(x, d))
             IN /\ q * d + r = x
                /\ (IF r < 0 THEN -r ELSE r) < (IF d < 0 THEN -d ELSE d)
                /\ r # 0 => (r < 0) = (x < 0)
    <2>. DEFINE q == Quotient(x, d)
                r == Remainder(x, d)
    <2>1. /\ q \in Int /\ r \in Int /\ q * d + r = x
          /\ (IF r < 0 THEN -r ELSE r) < (IF d < 0 THEN -d ELSE d)
          /\ r # 0 => (r < 0) = (x < 0)
        BY <1>6, <1>7, Remains
    <2>2. -h <= q /\ q < h
        BY <1>8
    <2>. HIDE DEF q, r
    <2>3. -h <= r /\ r < h
        BY <1>7, <2>1
    <2>4. SX(n, q) = q /\ SX(n, r) = r
        BY <1>1, <2>1, <2>2, <2>3, SignedFits
    <2>. QED BY <2>1, <2>4 DEF q, r
<1>. QED BY <1>1, <1>3, <1>4, <1>5, <1>8 DEF x, d

\* MUL and IMUL, of every width: the two halves, cut to the width they are
\* written in, are the whole product (do_alu_special, run386.c:409-418, 448-451).
THEOREM ProductIsWhole ==
    ASSUME NEW n \in {1, 2, 4}, NEW a \in 0 .. W(n) - 1, NEW b \in 0 .. W(n) - 1
    PROVE  LET Whole2(op) == (SpecialResult(op, n, a, b).res % W(n))
                             + (SpecialResult(op, n, a, b).rem % W(n)) * W(n)
           IN /\ Whole2("MUL") = a * b
              /\ SX(2 * n, Whole2("IMUL")) = SX(n, a) * SX(n, b)
<1>. DEFINE w == W(n)
            p == SX(n, a) * SX(n, b)
<1>1. PICK h \in Nat \ {0} : w = 2 * h /\ W(2 * n) = 4 * (h * h)
    BY Doubled
<1>2. w \in Nat \ {0} /\ a \in 0 .. w - 1 /\ b \in 0 .. w - 1 /\ W(2 * n) = w * w /\ W(2 * n) \in Nat \ {0}
    BY Doubled
<1>3. SpecialResult("MUL", n, a, b) = [res |-> a * b, rem |-> (a * b) \div w]
    BY DEF SpecialResult
<1>4. SpecialResult("IMUL", n, a, b) = [res |-> p, rem |-> p \div w]
    BY Zenon DEF SpecialResult
<1>5. p \in Int /\ -(h * h) <= p /\ p <= h * h /\ h * h \in Nat
    <2>. DEFINE x == SX(n, a)
                y == SX(n, b)
    <2>1. x \in Int /\ y \in Int /\ -h <= x /\ x < h /\ -h <= y /\ y < h
        BY <1>1, <1>2, SignedRange
    <2>. HIDE DEF x, y
    <2>2. x * y \in Int /\ x * y <= h * h /\ -(h * h) <= x * y /\ h * h \in Nat
        BY <2>1
    <2>. QED BY <2>2 DEF x, y
<1>. HIDE DEF w, p
<1>6. ASSUME NEW v \in Int PROVE (v % w) + ((v \div w) % w) * w = v % (w * w)
    BY <1>2, Parts
<1>7. a * b \in 0 .. w * w - 1
    <2>1. a * b <= (w - 1) * (w - 1) /\ (w - 1) * (w - 1) < w * w /\ a * b \in Nat
        BY <1>2
    <2>. QED BY <1>2, <2>1
<1>8. (a * b) % (w * w) = a * b
    BY <1>2, <1>7, Small
<1>9. SX(2 * n, p % W(2 * n)) = p
    <2>. DEFINE d == W(2 * n)
                k == 2 * (h * h)
    <2>1. d \in Nat \ {0} /\ k \in Nat \ {0} /\ d = 2 * k /\ -k <= p /\ p < k
        BY <1>1, <1>2, <1>5
    <2>2. SX(2 * n, p) = p
        BY <1>5, <2>1, SignedFits
    <2>3. (p % d) % d = p % d
        <3>. HIDE DEF d
        <3>1. p % d \in 0 .. d - 1
            BY <1>5, <2>1
        <3>. QED BY <2>1, <3>1, Small
    <2>4. SX(2 * n, p % d) = SX(2 * n, p)
        BY <2>3 DEF SX
    <2>. QED BY <2>2, <2>4
<1>10. ((a * b) % w) + (((a * b) \div w) % w) * w = a * b
    BY <1>6, <1>7, <1>8
<1>11. SX(2 * n, (p % w) + ((p \div w) % w) * w) = p
    BY <1>2, <1>5, <1>6, <1>9
<1>12. (SpecialResult("MUL", n, a, b).res % w) + (SpecialResult("MUL", n, a, b).rem % w) * w = a * b
    BY <1>3, <1>10
<1>13. SX(2 * n, (SpecialResult("IMUL", n, a, b).res % w) + (SpecialResult("IMUL", n, a, b).rem % w) * w) = p
    BY <1>4, <1>11
<1>. QED BY <1>12, <1>13, Zenon DEF w, p

\* The lower part of a number is replaced, and the upper part kept.
LEMMA ReplacedLow ==
    ASSUME NEW a \in Nat \ {0}, NEW x \in Int, NEW v \in 0 .. a - 1
    PROVE  (x + (v - (x % a))) % a = v
<1>. DEFINE q == x \div a
            r == x % a
<1>1. q \in Int /\ r \in 0 .. a - 1 /\ x = q * a + r
    BY Divided
<1>. HIDE DEF q, r
<1>2. x + (v - r) = q * a + v
    BY <1>1
<1>3. (q * a + v) % a = v
    BY <1>1, Whole
<1>. QED BY <1>2, <1>3 DEF r

LEMMA ReplacedHigh ==
    ASSUME NEW a \in Nat \ {0}, NEW x \in Int, NEW v \in 0 .. a - 1
    PROVE  LET y == x + (v - ((x \div a) % a)) * a
           IN (y \div a) % a = v /\ y % a = x % a
<1>. DEFINE q == x \div a
            r == x % a
            p == q + (v - (q % a))
            y == x + (v - (q % a)) * a
<1>1. q \in Int /\ r \in 0 .. a - 1 /\ x = q * a + r
    BY Divided
<1>. HIDE DEF q, r
<1>2. p % a = v /\ q % a \in Int
    <2>1. q % a \in Int
        BY <1>1
    <2>. QED BY <1>1, <2>1, ReplacedLow
<1>3. p \in Int /\ y = p * a + r
    BY <1>1, <1>2
<1>. HIDE DEF p, y
<1>4. y \div a = p /\ y % a = r
    BY <1>1, <1>3, Whole
<1>. QED BY <1>2, <1>4 DEF p, q, r, y

\* What is written to a register is what is read from it.
LEMMA ReadsWhatWasSet ==
    ASSUME NEW s, Good(s), NEW n \in {1, 2, 4}, NEW r \in 0 .. 7, NEW v \in Int
    PROVE  GetReg(SetReg(s, n, r, v), n, r) = v % W(n)
<1>. DEFINE x == IF n = 1 THEN r % 4 ELSE r
            low == IF n = 1 THEN W(r \div 4) ELSE 1
            old == s.regs[x]
            new == old + ((v % W(n)) - ((old \div low) % W(n))) * low
<1>1. SetReg(s, n, r, v) = [s EXCEPT !.regs[x] = new]
    BY Zenon DEF SetReg
<1>2. x \in 0 .. 7
    OBVIOUS
<1>3. SetReg(s, n, r, v).regs[x] = new
    BY <1>1, <1>2 DEF Good, Machine
<1>4. old \in Int /\ W(n) \in Nat \ {0} /\ v % W(n) \in 0 .. W(n) - 1 /\ W(1) = Byte /\ W(0) = 1
    BY <1>2, RegType, Positive, BytesOfWide
<1>. HIDE DEF old
<1>5. CASE n = 1
    <2>1. GetReg(SetReg(s, n, r, v), n, r) = (new \div low) % W(1) /\ W(n) = W(1)
        BY <1>3, <1>4, <1>5 DEF GetReg
    <2>2. low \in {1, W(1)}
        <3>1. r \div 4 \in {0, 1}
            OBVIOUS
        <3>. QED BY <1>4, <1>5, <3>1
    <2>. HIDE DEF low
    <2>3. CASE low = 1
        <3>1. old \div low = old
            BY <1>4, <2>3
        <3>2. (old % W(1)) \in Int
            BY <1>4, <1>5
        <3>3. new = old + ((v % W(1)) - (old % W(1))) /\ new \in Int
            BY <1>4, <1>5, <2>3, <3>1, <3>2
        <3>4. new \div low = new
            BY <2>3, <3>3
        <3>5. (old + ((v % W(1)) - (old % W(1)))) % W(1) = v % W(1)
            BY <1>4, <1>5, ReplacedLow
        <3>. HIDE DEF new
        <3>. QED BY <1>5, <2>1, <3>3, <3>4, <3>5
    <2>4. CASE low = W(1)
        <3>. DEFINE a == W(1)
                    u == v % a
        <3>1. a \in Nat \ {0} /\ u \in 0 .. a - 1
            BY <1>4, <1>5
        <3>2. new = old + (u - ((old \div a) % a)) * a
            BY <1>5, <2>4
        <3>. HIDE DEF new, a, u
        <3>3. (new \div a) % a = u
            BY <1>4, <3>1, <3>2, ReplacedHigh
        <3>. QED BY <1>5, <2>1, <2>4, <3>3 DEF a, u
    <2>. QED BY <2>2, <2>3, <2>4
<1>6. CASE n # 1
    <2>1. GetReg(SetReg(s, n, r, v), n, r) = new % W(n)
        BY <1>3, <1>6 DEF GetReg
    <2>2. low = 1
        BY <1>6
    <2>. HIDE DEF low
    <2>3. old \div low = old /\ old % W(n) \in Int
        BY <1>4, <2>2
    <2>4. new = old + ((v % W(n)) - (old % W(n)))
        BY <1>4, <2>2, <2>3
    <2>5. (old + ((v % W(n)) - (old % W(n)))) % W(n) = v % W(n)
        BY <1>4, ReplacedLow
    <2>. QED BY <2>1, <2>4, <2>5
<1>. QED BY <1>5, <1>6

\* AX stays below AH, and EAX beside EDX.
LEMMA KeepsLowPart ==
    ASSUME NEW s, Good(s), NEW n \in {1, 2, 4}, NEW v \in Int
    PROVE  GetReg(SetReg(s, n, IF n = 1 THEN 4 ELSE EDX, v), n, EAX) = GetReg(s, n, EAX)
<1>1. s.regs[0] \in Int /\ W(1) \in Nat \ {0} /\ W(1) = Byte /\ W(0) = 1 /\ s.regs \in [0 .. 7 -> Number(4)]
    <2>1. s.regs[0] \in Nat
        <3>1. 0 \in 0 .. 7
            OBVIOUS
        <3>. QED BY <3>1, RegType
    <2>2. W(1) \in Nat \ {0} /\ W(1) = Byte /\ W(0) = 1
        BY Positive, NumberType, BytesOfWide DEF W
    <2>. QED BY <2>1, <2>2, GoodTypes
<1>2. CASE n = 1
    <2>. DEFINE a == W(1)
                x == s.regs[0]
                u == v % a
                new == x + (u - ((x \div a) % a)) * a
    <2>1. SetReg(s, 1, 4, v) = [s EXCEPT !.regs[0] = new]
        BY <1>1 DEF SetReg
    <2>2. a \in Nat \ {0} /\ u \in 0 .. a - 1 /\ x \in Int
        BY <1>1
    <2>3. SetReg(s, 1, 4, v).regs[0] = new
        BY <2>1 DEF Good, Machine
    <2>. HIDE DEF a, x, u
    <2>4. new % a = x % a /\ new \in Int
        <3>1. (x \div a) % a \in Int
            <4>. DEFINE q == x \div a
            <4>1. q \in Int
                BY <2>2
            <4>. HIDE DEF q
            <4>2. q % a \in Int
                BY <2>2, <4>1
            <4>. QED BY <4>2 DEF q
        <3>2. new % a = x % a
            BY <2>2, ReplacedHigh
        <3>. DEFINE k == (x \div a) % a
        <3>. HIDE DEF k
        <3>3. x + (u - k) * a \in Int
            BY <2>2, <3>1 DEF k
        <3>. QED BY <3>2, <3>3 DEF k
    <2>. HIDE DEF new
    <2>5. GetReg(SetReg(s, 1, 4, v), 1, EAX) = (new \div 1) % a /\ GetReg(s, 1, EAX) = (x \div 1) % a
        BY <1>1, <2>3 DEF GetReg, EAX, a, x
    <2>6. new \div 1 = new /\ x \div 1 = x
        BY <2>2, <2>4
    <2>. QED BY <1>2, <2>4, <2>5, <2>6
<1>3. CASE n # 1
    <2>1. PICK y : SetReg(s, n, EDX, v) = [s EXCEPT !.regs[EDX] = y]
        BY <1>3 DEF SetReg
    <2>2. EDX # EAX /\ EAX \in 0 .. 7
        BY DEF EAX, EDX
    <2>3. SetReg(s, n, EDX, v).regs[EAX] = s.regs[EAX]
        BY <1>1, <2>1, <2>2 DEF Good, Machine
    <2>. QED BY <1>3, <2>3 DEF GetReg
<1>. QED BY <1>2, <1>3

\* Products, quotients and remainders are where programs look for them: the
\* part WRITE_DX writes goes to AH, DX or EDX and leaves what is below it in AL,
\* AX or EAX as it is (do_alu_special, run386.c:473-493).
THEOREM BothHalvesWritten ==
    ASSUME NEW s, Good(s), NEW n \in {1, 2, 4}, NEW d, Ready(d),
           d.inst.sub \in 4 .. 7, "WRITE_DX" \in d.inst.flags,
           d.dst.type = "REGISTER", d.dst.size = n, d.dst.id = EAX,
           InRegister(d.src2) \/ Memory(d.src2), d.src2.size = n,
           ~DivideFaults(SpecialOps[d.inst.sub + 1], n, Read(s, d.src1), Read(s, d.src2))
    PROVE  LET out == SpecialResult(SpecialOps[d.inst.sub + 1], n, Read(s, d.src1), Read(s, d.src2))
               t == do_alu_special(s, d)
           IN /\ GetReg(t, n, EAX) = out.res % W(n)
              /\ GetReg(t, n, IF n = 1 THEN 4 ELSE EDX) = out.rem % W(n)
<1>. DEFINE i == d.inst.sub
            op == SpecialOps[i + 1]
            a == Read(s, d.src1)
            b == Read(s, d.src2)
            out == SpecialResult(op, n, a, b)
            f == SpecialFlags(op, d.src1.size, a, out.res, s.flags)
            u == [s EXCEPT !.flags = f]
            t == Write(u, d.dst, out.res)
            high == IF n = 1 THEN 4 ELSE EDX
<1>1. do_alu_special(s, d) = SetReg(t, n, high, out.rem)
    <2>. DEFINE k == IF d.dst.size \in {1, 4} THEN d.dst.size ELSE 2
                above == IF d.dst.size = 1 THEN 4 ELSE EDX
                w == SpecialResult(op, k, a, b)
                v == Write([s EXCEPT !.flags = SpecialFlags(op, d.src1.size, a, w.res, @)], d.dst, w.res)
    <2>1. do_alu_special(s, d) =
            CASE op = "UNK" -> Hang(s)
              [] DivideFaults(op, k, a, b) -> [s EXCEPT !.status = "faults"]
              [] OTHER -> IF "WRITE_DX" \in d.inst.flags THEN SetReg(v, d.dst.size, above, w.rem) ELSE v
        BY Zenon DEF do_alu_special
    <2>2. k = n /\ above = high /\ op # "UNK"
        BY DEF SpecialOps
    <2>3. v = Write(u, d.dst, w.res) /\ w = out
        BY <2>2
    <2>. HIDE DEF k, above, v, w, op, a, b, u, out, high
    <2>4. ~DivideFaults(op, k, a, b)
        BY <2>2 DEF op, a, b, i
    <2>. QED BY <2>1, <2>2, <2>3, <2>4
<1>2. Good(u)
    <2>1. f \in SUBSET Flags
        BY SpecialFlagsType, GoodTypes
    <2>. HIDE DEF f
    <2>. QED BY <2>1, FlagsGood
<1>3. out.res \in Int /\ out.rem \in Int
    <2>1. a \in Int /\ b \in Int
        BY ReadType DEF Ready
    <2>2. b \in Number(n)
        BY ReadType DEF Ready
    <2>3. i \in 0 .. 7 /\ i # 1 /\ ~DivideFaults(SpecialOps[i + 1], n, a, b)
        OBVIOUS
    <2>. HIDE DEF i, a, b
    <2>. QED BY <2>1, <2>2, <2>3, SpecialResultType
<1>. HIDE DEF u, out, f, op
<1>4. t = SetReg(u, n, EAX, out.res)
    BY DEF Write
<1>. HIDE DEF t
<1>5. Good(t) /\ high \in 0 .. 7
    <2>1. EAX \in 0 .. 7 /\ EDX \in 0 .. 7
        BY Registers
    <2>2. high \in 0 .. 7
        BY <2>1
    <2>. HIDE DEF high
    <2>3. Good(SetReg(u, n, EAX, out.res))
        BY <1>2, <1>3, <2>1, SetRegGood
    <2>. QED BY <1>4, <2>2, <2>3
<1>6. GetReg(t, n, EAX) = out.res % W(n)
    BY <1>2, <1>3, <1>4, ReadsWhatWasSet, Registers
<1>. HIDE DEF high
<1>7. GetReg(SetReg(t, n, high, out.rem), n, high) = out.rem % W(n)
    BY <1>3, <1>5, ReadsWhatWasSet
<1>8. GetReg(SetReg(t, n, high, out.rem), n, EAX) = GetReg(t, n, EAX)
    BY <1>3, <1>5, KeepsLowPart DEF high
<1>. QED BY <1>1, <1>6, <1>7, <1>8 DEF out, high, a, b, op, i
=============================================================================
