----------------------------- MODULE PixelProofs -----------------------------
(***************************************************************************)
(* The two computations on a pixel: mod_exp of the Nios, which decrypts    *)
(* it, and filter_pixel, which every thread calls.  Both are proved for    *)
(* all inputs: mod_exp computes the power and no product overflows with    *)
(* moduli of at most half the bits of a word; the stencil of filter.c is   *)
(* what the README of filtro says for images of every size.                *)
(***************************************************************************)
EXTENDS ModExp, ApplyFilter, WellFoundedInduction, TLAPS

(* Induction over the naturals for a set instead of a predicate: the least *)
(* number left out would have a predecessor in the set.                    *)
LEMMA LeastElement ==
  ASSUME NEW S, S \subseteq Nat, S # {}
  PROVE  \E n \in S : \A m \in S : n <= m
<1>1. \E n \in S : \A m \in S : ~(<< m, n >> \in OpToRel(<, Nat))
  BY WFMin, NatLessThanWellFounded, Zenon
<1>2. PICK n \in S : \A m \in S : ~(<< m, n >> \in OpToRel(<, Nat))
  BY <1>1
<1>3. \A m \in S : n <= m
  <2> TAKE m \in S
  <2>1. ~ (m < n)
    BY <1>2 DEF OpToRel
  <2> QED
    BY <2>1
<1> QED
  BY <1>3

LEMMA Induction ==
  ASSUME NEW S, 0 \in S, \A n \in S \cap Nat : n + 1 \in S
  PROVE  Nat \subseteq S
<1> DEFINE M == Nat \ S
<1> SUFFICES ASSUME M # {} PROVE FALSE
  OBVIOUS
<1>1. PICK n \in M : \A m \in M : n <= m
  BY LeastElement, Zenon
<1>2. n # 0
  OBVIOUS
<1>3. n - 1 \in Nat /\ n - 1 \notin M
  BY <1>1, <1>2
<1> QED
  BY <1>3
-----------------------------------------------------------------------------
(* Remainders are what is left below the modulus, and may be taken before  *)
(* a product as well as after it.                                          *)
LEMMA RemainderUnique ==
  ASSUME NEW m \in Nat \ {0}, NEW q \in Nat, NEW r \in 0 .. m - 1
  PROVE  (q * m + r) % m = r
<1> DEFINE a == q * m + r
           d == a \div m
           s == a % m
<1>1. a \in Nat
  OBVIOUS
<1>2. d \in Nat /\ s \in 0 .. m - 1 /\ a = m * d + s
  BY <1>1
<1>3. q * m + r = d * m + s
  BY <1>2
<1> HIDE DEF d, s
<1>4. q = d
  <2>1. CASE q < d
    <3>1. (q + 1) * m <= d * m
      BY <2>1, <1>2
    <3> QED
      BY <3>1, <1>2, <1>3
  <2>2. CASE d < q
    <3>1. (d + 1) * m <= q * m
      BY <2>2, <1>2
    <3> QED
      BY <3>1, <1>2, <1>3
  <2> QED
    BY <2>1, <2>2, <1>2
<1>5. s = r
  BY <1>2, <1>3, <1>4
<1> QED
  BY <1>5 DEF s

LEMMA RemainderOfProduct ==
  ASSUME NEW a \in Nat, NEW c \in Nat, NEW m \in Nat \ {0}
  PROVE  /\ ((a % m) * c) % m = (a * c) % m
         /\ (c * (a % m)) % m = (c * a) % m
<1> DEFINE d == a \div m
           r == a % m
           e == (r * c) \div m
           s == (r * c) % m
<1>1. d \in Nat /\ r \in 0 .. m - 1 /\ a = d * m + r
  OBVIOUS
<1>2. r * c \in Nat
  BY <1>1
<1>3. e \in Nat /\ s \in 0 .. m - 1 /\ r * c = e * m + s
  <2> HIDE DEF r
  <2> QED
    BY <1>2
<1> HIDE DEF d, r, e, s
<1>4. a * c = (d * c + e) * m + s
  BY <1>1, <1>3
<1>5. d * c + e \in Nat
  BY <1>1, <1>3
<1>6. (a * c) % m = s
  BY <1>3, <1>4, <1>5, RemainderUnique
<1>7. (r * c) % m = (a * c) % m
  BY <1>6 DEF s
<1>8. r * c = c * r /\ a * c = c * a
  BY <1>1
<1> QED
  BY <1>7, <1>8 DEF r

(* What the local function of Power is named for.                          *)
IsPower(f, b, k, m) ==
  f = [j \in 0 .. k |-> IF j = 0 THEN 1 % m ELSE (b * f[j - 1]) % m]

(* power of Power exists: it is built up one exponent at a time.           *)
LEMMA PowerExists ==
  ASSUME NEW b \in Nat, NEW m \in Nat \ {0}
  PROVE  \A k \in Nat : \E f : IsPower(f, b, k, m)
<1> DEFINE S == {k \in Nat : \E f : IsPower(f, b, k, m)}
<1>1. 0 \in S
  <2>1. IsPower([j \in 0 .. 0 |-> 1 % m], b, 0, m)
    BY DEF IsPower
  <2> QED
    BY <2>1
<1>2. ASSUME NEW k \in S \cap Nat PROVE k + 1 \in S
  <2>1. PICK f : IsPower(f, b, k, m)
    OBVIOUS
  <2> DEFINE g == [j \in 0 .. k + 1 |-> IF j = k + 1 THEN (b * f[k]) % m ELSE f[j]]
  <2>2. IsPower(g, b, k + 1, m)
    <3>1. \A j \in 0 .. k : f[j] = IF j = 0 THEN 1 % m ELSE (b * f[j - 1]) % m
      BY <2>1, Zenon DEF IsPower
    <3>2. \A j \in 0 .. k + 1 :
            g[j] = IF j = 0 THEN 1 % m ELSE (b * g[j - 1]) % m
      BY <3>1
    <3> HIDE DEF g
    <3>3. DOMAIN g = 0 .. k + 1 /\ g = [j \in DOMAIN g |-> g[j]]
      BY DEF g
    <3> QED
      BY <3>2, <3>3, Zenon DEF IsPower
  <2> QED
    BY <2>2
<1> HIDE DEF S
<1>3. Nat \subseteq S
  BY <1>1, <1>2, Induction
<1> QED
  BY <1>3 DEF S

(* Its values do not depend on how far it is built.                        *)
LEMMA PowerUnique ==
  ASSUME NEW b \in Nat, NEW m \in Nat \ {0}, NEW k \in Nat, NEW l \in Nat,
         NEW f, IsPower(f, b, k, m), NEW g, IsPower(g, b, l, m)
  PROVE  \A j \in Nat : j <= k /\ j <= l => f[j] = g[j]
<1> DEFINE S == {j \in Nat : j <= k /\ j <= l => f[j] = g[j]}
<1>1. /\ \A j \in 0 .. k : f[j] = IF j = 0 THEN 1 % m ELSE (b * f[j - 1]) % m
      /\ \A j \in 0 .. l : g[j] = IF j = 0 THEN 1 % m ELSE (b * g[j - 1]) % m
  BY Zenon DEF IsPower
<1>2. 0 \in S
  BY <1>1
<1>3. ASSUME NEW j \in S \cap Nat PROVE j + 1 \in S
  BY <1>1
<1> HIDE DEF S
<1>4. Nat \subseteq S
  BY <1>2, <1>3, Induction
<1> QED
  BY <1>4 DEF S

(* So Power obeys its recursion.                                           *)
LEMMA PowerIs ==
  ASSUME NEW b \in Nat, NEW m \in Nat \ {0}, NEW k \in Nat
  PROVE  /\ Power(b, 0, m) = 1 % m
         /\ Power(b, k + 1, m) = (b * Power(b, k, m)) % m
<1>1. \A j \in Nat : \E f : IsPower(f, b, j, m) /\ Power(b, j, m) = f[j]
  <2> TAKE j \in Nat
  <2> DEFINE p == CHOOSE f : IsPower(f, b, j, m)
  <2>1. IsPower(p, b, j, m)
    BY PowerExists
  <2>2. Power(b, j, m) = p[j]
    BY DEF Power, IsPower
  <2> QED
    BY <2>1, <2>2
<1>2. PICK f : IsPower(f, b, k + 1, m) /\ Power(b, k + 1, m) = f[k + 1]
  BY <1>1
<1>3. PICK g : IsPower(g, b, k, m) /\ Power(b, k, m) = g[k]
  BY <1>1
<1>4. PICK h : IsPower(h, b, 0, m) /\ Power(b, 0, m) = h[0]
  BY <1>1
<1>5. f[k] = g[k]
  BY <1>2, <1>3, PowerUnique
<1>6. f[k + 1] = (b * f[k]) % m
  BY <1>2 DEF IsPower
<1>7. h[0] = 1 % m
  BY <1>4 DEF IsPower
<1> QED
  BY <1>2, <1>3, <1>4, <1>5, <1>6, <1>7

LEMMA PowerType ==
  ASSUME NEW b \in Nat, NEW m \in Nat \ {0}, NEW k \in Nat
  PROVE  Power(b, k, m) \in 0 .. m - 1
<1> DEFINE S == {j \in Nat : Power(b, j, m) \in 0 .. m - 1}
<1>1. 0 \in S
  <2>1. Power(b, 0, m) = 1 % m
    BY PowerIs
  <2>2. 1 % m \in 0 .. m - 1
    OBVIOUS
  <2> QED
    BY <2>1, <2>2
<1>2. ASSUME NEW j \in S \cap Nat PROVE j + 1 \in S
  <2>1. b * Power(b, j, m) \in Nat
    OBVIOUS
  <2>2. (b * Power(b, j, m)) % m \in 0 .. m - 1
    BY <2>1
  <2> QED
    BY <2>2, PowerIs
<1> HIDE DEF S
<1>3. Nat \subseteq S
  BY <1>1, <1>2, Induction
<1> QED
  BY <1>3 DEF S

(* Reducing the base does not change the power.                            *)
LEMMA PowerOfReduced ==
  ASSUME NEW b \in Nat, NEW m \in Nat \ {0}, NEW k \in Nat
  PROVE  Power(b % m, k, m) = Power(b, k, m)
<1> DEFINE r == b % m
           S == {j \in Nat : Power(r, j, m) = Power(b, j, m)}
<1>0. r \in Nat
  OBVIOUS
<1>1. 0 \in S
  BY <1>0, PowerIs
<1>2. ASSUME NEW j \in S \cap Nat PROVE j + 1 \in S
  <2>1. Power(b, j, m) \in Nat
    BY PowerType
  <2>2. (r * Power(b, j, m)) % m = (b * Power(b, j, m)) % m
    BY <2>1, RemainderOfProduct
  <2>3. Power(r, j + 1, m) = (r * Power(r, j, m)) % m
    BY <1>0, PowerIs
  <2>4. Power(b, j + 1, m) = (b * Power(b, j, m)) % m
    BY PowerIs
  <2> QED
    BY <2>2, <2>3, <2>4
<1> HIDE DEF S
<1>3. Nat \subseteq S
  BY <1>1, <1>2, Induction
<1> QED
  BY <1>3 DEF S

(* Squaring the base halves the exponent.                                  *)
LEMMA PowerOfSquare ==
  ASSUME NEW b \in Nat, NEW m \in Nat \ {0}, NEW k \in Nat
  PROVE  Power((b * b) % m, k, m) = Power(b, 2 * k, m)
<1> DEFINE r == (b * b) % m
           S == {j \in Nat : Power(r, j, m) = Power(b, 2 * j, m)}
<1>0. b * b \in Nat /\ r \in Nat
  <2>1. b * b \in Nat
    OBVIOUS
  <2> QED
    BY <2>1
<1>1. 0 \in S
  BY <1>0, PowerIs
<1>2. ASSUME NEW j \in S \cap Nat PROVE j + 1 \in S
  <2> DEFINE p == Power(b, 2 * j, m)
  <2>1. p \in Nat
    BY PowerType
  <2>2. Power(r, j + 1, m) = (r * p) % m
    BY <1>0, PowerIs
  <2>3. (r * p) % m = ((b * b) * p) % m
    BY <1>0, <2>1, RemainderOfProduct
  <2>4. Power(b, 2 * j + 1, m) = (b * p) % m
    BY PowerIs
  <2>5. Power(b, (2 * j + 1) + 1, m) = (b * ((b * p) % m)) % m
    BY <2>4, PowerIs
  <2> HIDE DEF p, r
  <2>6. b * p \in Nat /\ b * (b * p) = (b * b) * p
    BY <2>1
  <2>7. (b * ((b * p) % m)) % m = (b * (b * p)) % m
    BY <2>6, RemainderOfProduct
  <2>8. (2 * j + 1) + 1 = 2 * (j + 1)
    OBVIOUS
  <2> QED
    BY <2>2, <2>3, <2>5, <2>6, <2>7, <2>8
<1> HIDE DEF S
<1>3. Nat \subseteq S
  BY <1>1, <1>2, Induction
<1> QED
  BY <1>3 DEF S
-----------------------------------------------------------------------------
(* mod_exp.                                                                *)

(* The base is reduced once and stays so; the result is 1 until the first  *)
(* odd exponent and reduced from then on.                                  *)
Reduced ==
  /\ pc = "reduce" => result = 1
  /\ pc # "reduce" /\ args.modulus > 0 =>
       base < args.modulus /\ (result < args.modulus \/ result = 1)

IInv == ModExpTypeOK /\ Reduced

LEMMA WordIsSquare == Word \in Nat /\ Half <= Word /\ 1 < Word
<1>1. Half \in Nat /\ Half > 1
  BY ModExpAssumption
<1>2. Half * Half \in Nat /\ Half * Half >= Half
  BY <1>1
<1> QED
  BY <1>1, <1>2 DEF Word

(* The product of two values below a modulus fits in a word.               *)
LEMMA ProductFits ==
  ASSUME MaxModulus <= Half, NEW m \in 0 .. MaxModulus,
         NEW a \in Nat, NEW b \in Nat, a < m, b < m
  PROVE  a * b < Word
<1>1. Half \in Nat /\ Half >= 1 /\ MaxModulus \in Nat
  BY ModExpAssumption, WordIsSquare
<1>2. a <= Half - 1 /\ b <= Half - 1
  BY <1>1
<1>3. a * b <= (Half - 1) * b
  BY <1>1, <1>2
<1>4. (Half - 1) * b <= (Half - 1) * Half
  BY <1>1, <1>2
<1>5. (Half - 1) * Half < Half * Half
  BY <1>1
<1> QED
  BY <1>1, <1>3, <1>4, <1>5 DEF Word

(* A remainder is a word, and below the modulus unless that is 0.          *)
LEMMA RemainderBound ==
  ASSUME args \in Calls, NEW a \in U32, NEW r \in Remainder(a)
  PROVE  /\ r \in U32
         /\ args.modulus > 0 => r < args.modulus
<1>1. Word \in Nat /\ args.modulus \in Nat /\ args.modulus < Word /\ MaxModulus \in Nat
  BY WordIsSquare, ModExpAssumption DEF Calls
<1>2. a \in Nat /\ a < Word
  BY <1>1 DEF U32
<1>3. CASE args.modulus = 0
  BY <1>3, ModExpAssumption DEF Remainder, U32
<1>4. CASE args.modulus > 0
  <2>1. r = a % args.modulus
    BY <1>1, <1>4 DEF Remainder
  <2>2. a % args.modulus \in 0 .. args.modulus - 1
    BY <1>1, <1>2, <1>4
  <2> QED
    BY <1>1, <2>1, <2>2 DEF U32
<1> QED
  BY <1>1, <1>3, <1>4

LEMMA WrapIsWord ==
  ASSUME NEW a \in Nat
  PROVE  a % Word \in U32
BY WordIsSquare DEF U32

LEMMA StepIInv == IInv /\ [ModExpNext]_modExpVars => IInv'
<1> SUFFICES ASSUME IInv, [ModExpNext]_modExpVars PROVE IInv'
  OBVIOUS
<1>w. Word \in Nat /\ 1 <= Word /\ MaxModulus \in Nat /\ MaxExponent \in Nat
  BY WordIsSquare, ModExpAssumption
<1>t. /\ args \in Calls
      /\ base \in Nat /\ result \in Nat /\ exponent \in 0 .. MaxExponent
      /\ base \in U32 /\ result \in U32
      /\ args.modulus \in Nat
  BY <1>w DEF IInv, ModExpTypeOK, U32, Calls
<1>1. CASE Reduce
  <2>1. base' \in U32 /\ (args.modulus > 0 => base' < args.modulus)
    BY <1>1, <1>t, RemainderBound DEF Reduce
  <2>2. result' = result /\ args' = args /\ exponent' = exponent /\ pc' = "loop"
    BY <1>1 DEF Reduce
  <2>3. ModExpTypeOK'
    BY <1>t, <2>1, <2>2 DEF ModExpTypeOK
  <2> QED
    BY <1>1, <2>1, <2>2, <2>3 DEF IInv, Reduced, Reduce
<1>2. CASE Iterate
  <2>1. args' = args /\ pc' = "loop" /\ pc = "loop"
    BY <1>2 DEF Iterate
  <2>2. (base * base) % Word \in U32 /\ (result * base) % Word \in U32
    BY <1>t, WrapIsWord
  <2>3. base' \in U32 /\ (args.modulus > 0 => base' < args.modulus)
    BY <1>2, <1>t, <2>2, RemainderBound DEF Iterate
  <2>4. \/ result' = result
        \/ result' \in U32 /\ (args.modulus > 0 => result' < args.modulus)
    <3>1. result' \in Remainder((result * base) % Word) \/ result' = result
      BY <1>2 DEF Iterate, Multiply
    <3> QED
      BY <1>t, <2>2, <3>1, RemainderBound
  <2>5. exponent' \in 0 .. MaxExponent
    BY <1>2, <1>t, <1>w DEF Iterate
  <2>6. ModExpTypeOK'
    BY <1>t, <2>1, <2>3, <2>4, <2>5 DEF ModExpTypeOK
  <2>7. Reduced'
    BY <2>1, <2>3, <2>4 DEF IInv, Reduced
  <2> QED
    BY <2>6, <2>7 DEF IInv
<1>3. CASE Return
  BY <1>3 DEF Return, IInv, ModExpTypeOK, Reduced
<1>4. CASE UNCHANGED modExpVars
  BY <1>4 DEF modExpVars, IInv, ModExpTypeOK, Reduced
<1> QED
  BY <1>1, <1>2, <1>3, <1>4 DEF ModExpNext

LEMMA InitIInv == ModExpInit => IInv
<1>1. 1 \in U32 /\ U32 \subseteq Nat
  BY WordIsSquare DEF U32
<1> QED
  BY <1>1 DEF ModExpInit, IInv, ModExpTypeOK, Reduced, Calls

THEOREM ModExpInvariance == ModExpSpec => []IInv
<1> QED
  BY InitIInv, StepIInv, PTL DEF ModExpSpec

(* The types of ModExp: the variables stay unsigned 32-bit numbers.        *)
THEOREM ModExpTypeCorrect == ModExpSpec => []ModExpTypeOK
<1>1. IInv => ModExpTypeOK
  BY DEF IInv
<1> QED
  BY <1>1, ModExpInvariance, PTL

(* With moduli up to Half no product leaves the word, whatever the base    *)
(* and the exponent are.                                                   *)
THEOREM NoOverflowBelowHalf == MaxModulus <= Half /\ ModExpSpec => []NoOverflow
<1>1. MaxModulus <= Half /\ IInv => NoOverflow
  <2> SUFFICES ASSUME MaxModulus <= Half, IInv, pc = "loop", args.modulus > 0
               PROVE  base * base < Word /\ result * base < Word
    BY DEF NoOverflow
  <2>1. /\ args.modulus \in 0 .. MaxModulus
        /\ base \in Nat /\ result \in Nat /\ base \in U32
        /\ base < args.modulus
        /\ result < args.modulus \/ result = 1
    BY WordIsSquare DEF IInv, ModExpTypeOK, Calls, U32, Reduced
  <2>2. base * base < Word
    BY <2>1, ProductFits
  <2>3. CASE result < args.modulus
    BY <2>1, <2>2, <2>3, ProductFits
  <2>4. CASE result = 1
    BY <2>1, <2>2, <2>4, WordIsSquare DEF U32
  <2> QED
    BY <2>1, <2>2, <2>3, <2>4
<1>2. MaxModulus <= Half => [](MaxModulus <= Half)
  OBVIOUS
<1> QED
  BY <1>1, <1>2, ModExpInvariance, PTL

(* With the exponent 0 the loop is never entered: mod_exp returns 1 for    *)
(* every modulus, 0 too, which is what decrypt_wh gets as long as no key   *)
(* was entered (main.c:61-75 of the Nios).                                 *)
THEOREM OneForExponentZero == ModExpSpec => []ZeroExponent
<1> DEFINE ZeroKept == args.exponent = 0 => exponent = 0 /\ result = 1
<1>1. ModExpInit => ZeroKept
  BY DEF ModExpInit
<1>2. ZeroKept /\ [ModExpNext]_modExpVars => ZeroKept'
  BY DEF ModExpNext, Reduce, Iterate, Return, modExpVars
<1>3. ZeroKept => ZeroExponent
  BY DEF ZeroExponent
<1> QED
  BY <1>1, <1>2, <1>3, PTL DEF ModExpSpec

(* What the loop keeps: the power still to be multiplied on, times the      *)
(* result so far, is the power that was asked for.                         *)
PowerLeft ==
  args.modulus > 1 =>
    (result * Power(base, exponent, args.modulus)) % args.modulus
      = Power(args.base, args.exponent, args.modulus)

LEMMA IterationsKeepPower ==
  ASSUME MaxModulus <= Half, IInv, PowerLeft, Iterate, args.modulus > 1
  PROVE  PowerLeft'
<1> DEFINE m == args.modulus
           h == exponent \div 2
           square == (base * base) % m
           rest == Power(base, 2 * h, m)
<1>1. /\ m \in Nat \ {0} /\ m \in 0 .. MaxModulus
      /\ base \in Nat /\ result \in Nat /\ base < m /\ result < m
      /\ exponent \in Nat /\ h \in Nat
  <2>1. MaxExponent \in Nat
    BY ModExpAssumption, WordIsSquare
  <2> QED
    BY <2>1, WordIsSquare DEF IInv, ModExpTypeOK, Calls, U32, Reduced, Iterate
<1>2. args' = args /\ exponent' = h
  BY DEF Iterate
<1>3. base' = square
  <2>1. base * base < Word /\ base * base \in Nat
    BY <1>1, ProductFits
  <2>2. (base * base) % Word = base * base
    BY <2>1, WordIsSquare
  <2> QED
    BY <1>1, <2>2 DEF Iterate, Remainder
<1> HIDE DEF m, h
<1>4. rest \in Nat /\ Power(square, h, m) = rest
  <2>1. 2 * h \in Nat
    BY <1>1
  <2>2. Power(base, 2 * h, m) \in 0 .. m - 1
    BY <1>1, <2>1, PowerType, Zenon
  <2>3. Power((base * base) % m, h, m) = Power(base, 2 * h, m)
    BY <1>1, PowerOfSquare, Zenon
  <2> QED
    BY <2>2, <2>3, <1>1
<1> USE DEF m
<1> HIDE DEF rest, square
<1>5. CASE exponent = 2 * h
  <2>1. exponent % 2 # 1
    BY <1>1, <1>5
  <2>2. result' = result
    BY <2>1 DEF Iterate, Multiply
  <2>3. Power(base, exponent, m) = rest
    BY <1>5 DEF rest
  <2> QED
    BY <1>2, <1>3, <1>4, <2>2, <2>3 DEF PowerLeft
<1>6. CASE exponent = 2 * h + 1
  <2>1. exponent % 2 = 1
    BY <1>1, <1>6
  <2>2. result' = (result * base) % m
    <3>1. result * base < Word /\ result * base \in Nat
      BY <1>1, ProductFits
    <3>2. (result * base) % Word = result * base
      BY <3>1, WordIsSquare
    <3> QED
      BY <1>1, <2>1, <3>2 DEF Iterate, Multiply, Remainder
  <2>3. Power(base, exponent, m) = (base * rest) % m
    <3>1. 2 * h \in Nat
      BY <1>1
    <3>2. Power(base, 2 * h + 1, m) = (base * rest) % m
      BY <1>1, <3>1, PowerIs DEF rest
    <3> QED
      BY <1>6, <3>2
  <2>4. /\ base * rest \in Nat /\ result * base \in Nat
        /\ (result * base) * rest = result * (base * rest)
    BY <1>1, <1>4
  <2>5. (((result * base) % m) * rest) % m = ((result * base) * rest) % m
    BY <1>1, <1>4, <2>4, RemainderOfProduct
  <2>6. (result * ((base * rest) % m)) % m = (result * (base * rest)) % m
    BY <1>1, <2>4, RemainderOfProduct
  <2>7. (result' * Power(base', exponent', m)) % m
          = (result * Power(base, exponent, m)) % m
    BY <1>2, <1>3, <1>4, <2>2, <2>3, <2>4, <2>5, <2>6
  <2> QED
    BY <1>2, <2>7 DEF PowerLeft
<1>7. exponent = 2 * h \/ exponent = 2 * h + 1
  BY <1>1 DEF h
<1> QED
  BY <1>5, <1>6, <1>7

LEMMA StepPowerLeft ==
  MaxModulus <= Half /\ IInv /\ PowerLeft /\ [ModExpNext]_modExpVars => PowerLeft'
<1> SUFFICES ASSUME MaxModulus <= Half, IInv, PowerLeft, [ModExpNext]_modExpVars,
                    args'.modulus > 1
             PROVE  PowerLeft'
  BY DEF PowerLeft
<1> DEFINE m == args.modulus
<1>1. args' = args /\ m \in Nat \ {0} /\ base \in Nat /\ exponent \in Nat
  <2>1. MaxExponent \in Nat
    BY ModExpAssumption, WordIsSquare
  <2>2. args' = args
    BY DEF ModExpNext, Reduce, Iterate, Return, modExpVars
  <2> QED
    BY <2>1, <2>2, WordIsSquare DEF IInv, ModExpTypeOK, Calls, U32
<1>2. CASE Reduce
  <2>1. base' = base % m /\ result' = result /\ exponent' = exponent
    BY <1>1, <1>2 DEF Reduce, Remainder
  <2>2. Power(base % m, exponent, m) = Power(base, exponent, m)
    BY <1>1, PowerOfReduced
  <2> QED
    BY <1>1, <2>1, <2>2 DEF PowerLeft
<1>3. CASE Iterate
  BY <1>1, <1>3, IterationsKeepPower
<1>4. CASE Return \/ UNCHANGED modExpVars
  BY <1>4 DEF Return, modExpVars, PowerLeft
<1> QED
  BY <1>2, <1>3, <1>4 DEF ModExpNext

(* mod_exp returns the power modulo n, for every base, exponent and word,  *)
(* as long as the modulus has at most half the bits of a word.             *)
THEOREM PowerIsComputed == MaxModulus <= Half /\ ModExpSpec => []ComputesPower
<1>1. ModExpInit => PowerLeft
  <2> SUFFICES ASSUME ModExpInit, args.modulus > 1 PROVE PowerLeft
    BY DEF PowerLeft
  <2> DEFINE p == Power(args.base, args.exponent, args.modulus)
  <2>1. args.modulus \in Nat \ {0} /\ args.base \in Nat /\ args.exponent \in Nat
    BY WordIsSquare, ModExpAssumption DEF ModExpInit, Calls, U32
  <2>2. p \in 0 .. args.modulus - 1
    BY <2>1, PowerType
  <2>3. base = args.base /\ exponent = args.exponent /\ result = 1
    BY DEF ModExpInit
  <2> HIDE DEF p
  <2>4. (1 * p) % args.modulus = p
    BY <2>1, <2>2
  <2> QED
    BY <2>3, <2>4 DEF PowerLeft, p
<1> DEFINE Ended == pc = "done" => exponent = 0
<1>2. ModExpInit => Ended
  BY DEF ModExpInit
<1>3. Ended /\ [ModExpNext]_modExpVars => Ended'
  BY DEF ModExpNext, Reduce, Iterate, Return, modExpVars
<1>4. IInv /\ PowerLeft /\ Ended => ComputesPower
  <2> SUFFICES ASSUME IInv, PowerLeft, Ended, pc = "done", args.modulus > 1
               PROVE  result = Power(args.base, args.exponent, args.modulus)
    BY DEF ComputesPower
  <2>1. /\ args.modulus \in Nat \ {0} /\ base \in Nat
        /\ result \in 0 .. args.modulus - 1
    BY WordIsSquare DEF IInv, ModExpTypeOK, Calls, U32, Reduced
  <2>2. Power(base, exponent, args.modulus) = 1 % args.modulus
    BY <2>1, PowerIs
  <2>3. 1 % args.modulus = 1 /\ result % args.modulus = result
    BY <2>1
  <2> QED
    BY <2>1, <2>2, <2>3 DEF PowerLeft
<1>5. MaxModulus <= Half => [](MaxModulus <= Half)
  OBVIOUS
<1> QED
  BY <1>1, <1>2, <1>3, <1>4, <1>5, StepPowerLeft, ModExpInvariance, PTL DEF ModExpSpec
-----------------------------------------------------------------------------
(* The stencil.                                                            *)

(* The coordinates filter_pixel computes are those of a pixel of the image.*)
LEMMA Coordinates ==
  ASSUME NEW w \in Nat \ {0}, NEW h \in Nat \ {0},
         NEW idx \in PixelIndices(w, h)
  PROVE  /\ idx \in Nat
         /\ RowOf(idx, w) \in 0 .. h - 1
         /\ ColumnOf(idx, w) \in 0 .. w - 1
         /\ idx = RowOf(idx, w) * w + ColumnOf(idx, w)
         /\ ColumnOf(idx, w) = idx % w
<1> DEFINE y == idx \div w
<1>1. idx \in Nat /\ idx < w * h
  BY DEF PixelIndices, NumPixels
<1>2. y \in Nat /\ y * w <= idx /\ idx < y * w + w
  BY <1>1
<1>3. idx % w = idx - y * w
  BY <1>1
<1>4. y < h
  BY <1>1, <1>2
<1> QED
  BY <1>1, <1>2, <1>3, <1>4 DEF RowOf, ColumnOf

(* The index of a pixel of the image from its coordinates.                 *)
LEMMA IndexInImage ==
  ASSUME NEW w \in Nat \ {0}, NEW h \in Nat \ {0},
         NEW y \in 0 .. h - 1, NEW x \in 0 .. w - 1
  PROVE  y * w + x \in PixelIndices(w, h)
<1>1. y * w + w <= w * h
  OBVIOUS
<1>2. y * w \in Nat /\ w * h \in Nat
  OBVIOUS
<1> QED
  BY <1>1, <1>2 DEF PixelIndices, NumPixels

LEMMA ClampInRange ==
  ASSUME NEW n \in Nat \ {0}, NEW a \in Int
  PROVE  Clamp(a, 0, n - 1) \in 0 .. n - 1
BY DEF Clamp

(* The branches of filter_pixel extend the border.                         *)
LEMMA WindowIsExtended ==
  ASSUME NEW w \in Nat \ {0}, NEW h \in Nat \ {0},
         NEW idx \in PixelIndices(w, h)
  PROVE  FilterWindow(idx, w, h) = ExtendedWindow(idx, w, h)
<1> DEFINE y == RowOf(idx, w)
           x == ColumnOf(idx, w)
           yw == y * w
<1>1. /\ idx \in Nat /\ y \in 0 .. h - 1 /\ x \in 0 .. w - 1
      /\ yw \in Int /\ idx = yw + x
      /\ x = idx % w /\ y = idx \div w
  BY Coordinates DEF RowOf
<1>2. /\ Clamp(y + -1, 0, h - 1) * w = IF y = 0 THEN yw ELSE yw - w
      /\ Clamp(y + 0, 0, h - 1) * w = yw
      /\ Clamp(y + 1, 0, h - 1) * w = IF y = h - 1 THEN yw ELSE yw + w
  BY <1>1 DEF Clamp
<1>3. /\ Clamp(x + -1, 0, w - 1) = IF x = 0 THEN x ELSE x - 1
      /\ Clamp(x + 0, 0, w - 1) = x
      /\ Clamp(x + 1, 0, w - 1) = IF x = w - 1 THEN x ELSE x + 1
  BY <1>1 DEF Clamp
<1> DEFINE above == IF y = 0 THEN idx ELSE idx - w
           below == IF y = h - 1 THEN idx ELSE idx + w
           Left(c) == IF x = 0 THEN c ELSE c - 1
           Right(c) == IF x = w - 1 THEN c ELSE c + 1
           At(dx, dy) == Clamp(y + dy, 0, h - 1) * w + Clamp(x + dx, 0, w - 1)
<1>4. /\ At(-1, -1) = Left(above) /\ At(0, -1) = above /\ At(1, -1) = Right(above)
      /\ At(-1, 0) = Left(idx) /\ At(0, 0) = idx /\ At(1, 0) = Right(idx)
      /\ At(-1, 1) = Left(below) /\ At(0, 1) = below /\ At(1, 1) = Right(below)
  BY <1>1, <1>2, <1>3
<1>5. ExtendedWindow(idx, w, h) = << At(-1, -1), At(0, -1), At(1, -1),
                                     At(-1,  0), At(0,  0), At(1,  0),
                                     At(-1,  1), At(0,  1), At(1,  1) >>
  BY <1>1 DEF ExtendedWindow
<1>6. FilterWindow(idx, w, h) = << Left(above), above, Right(above),
                                   Left(idx),   idx,   Right(idx),
                                   Left(below), below, Right(below) >>
  BY DEF FilterWindow
<1> HIDE DEF above, below, Left, Right, At
<1> QED
  BY <1>4, <1>5, <1>6

LEMMA WindowInImage ==
  ASSUME NEW w \in Nat \ {0}, NEW h \in Nat \ {0},
         NEW idx \in PixelIndices(w, h)
  PROVE  Neighbourhood(idx, w, h) \subseteq PixelIndices(w, h)
<1>1. idx % w \in Int /\ idx \div w \in Int
  BY DEF PixelIndices, NumPixels
<1>2. \A a, b \in Int : Clamp(a, 0, h - 1) * w + Clamp(b, 0, w - 1)
                          \in PixelIndices(w, h)
  BY ClampInRange, IndexInImage
<1>3. \A k \in 1 .. 9 : ExtendedWindow(idx, w, h)[k] \in PixelIndices(w, h)
  BY <1>1, <1>2 DEF ExtendedWindow
<1> QED
  BY <1>3, WindowIsExtended DEF Neighbourhood
----------------------------------------------------------------------------
(* Type correctness of a call of apply_filter, for every image size.       *)
THEOREM CallTypeCorrect == CallSpec => []CallTypeOK
<1>1. CallInit => CallTypeOK
  <2> SUFFICES ASSUME CallInit PROVE CallTypeOK
    OBVIOUS
  <2>1. image_w \in Nat \ {0} /\ image_h \in Nat \ {0}
    BY BoundsAssumption DEF CallInit
  <2>2. NumPixels(image_w, image_h) \in Nat
    BY <2>1 DEF NumPixels
  <2> QED
    BY <2>2 DEF CallInit, CallTypeOK
<1>2. CallTypeOK /\ [CallNext]_callVars => CallTypeOK'
  <2> SUFFICES ASSUME CallTypeOK, [CallNext]_callVars PROVE CallTypeOK'
    OBVIOUS
  <2>1. CASE FilterOne
    <3>1. UNCHANGED callArgs /\ i' = i + 1 /\ i < start_idx + num_pixels
      BY <2>1 DEF FilterOne
    <3>2. DOMAIN out_buf' = DOMAIN out_buf
      BY <2>1 DEF FilterOne
    <3> QED
      BY <3>1, <3>2 DEF CallTypeOK, callArgs
  <2>2. CASE UNCHANGED callVars
    BY <2>2 DEF CallTypeOK, callVars, callArgs
  <2> QED
    BY <2>1, <2>2 DEF CallNext
<1> QED
  BY <1>1, <1>2, PTL DEF CallSpec

LEMMA SizePositive ==
  ASSUME CallTypeOK
  PROVE  image_w \in Nat \ {0} /\ image_h \in Nat \ {0}
BY BoundsAssumption DEF CallTypeOK

(* filter_pixel reads inside the image, whatever its size and its batch.   *)
THEOREM ReadsStayInside == CallSpec => []ReadsInsideImage
<1>1. CallTypeOK => ReadsInsideImage
  BY SizePositive, WindowInImage DEF ReadsInsideImage
<1> QED
  BY <1>1, CallTypeCorrect, PTL

(* Every stored value comes from the window of its pixel with the border   *)
(* extended, whatever the image size and the batch.                        *)
THEOREM BorderIsExtended == CallSpec => []BorderExtended
<1>1. CallInit => BorderExtended
  BY DEF CallInit, BorderExtended
<1>2. CallTypeOK /\ BorderExtended /\ [CallNext]_callVars => BorderExtended'
  <2> SUFFICES ASSUME CallTypeOK, BorderExtended, [CallNext]_callVars
               PROVE  BorderExtended'
    OBVIOUS
  <2>1. CASE FilterOne
    <3>1. /\ image_w' = image_w /\ image_h' = image_h
          /\ out_buf' = [out_buf EXCEPT ![i] =
                                        FilterWindow(i, image_w, image_h)]
      BY <2>1 DEF FilterOne, callArgs
    <3>2. \A p \in PixelIndices(image_w, image_h) :
            FilterWindow(p, image_w, image_h) =
              ExtendedWindow(p, image_w, image_h)
      BY SizePositive, WindowIsExtended
    <3> QED
      BY <3>1, <3>2 DEF BorderExtended, CallTypeOK
  <2>2. CASE UNCHANGED callVars
    BY <2>2 DEF BorderExtended, callVars, callArgs
  <2> QED
    BY <2>1, <2>2 DEF CallNext
<1> QED
  BY <1>1, <1>2, CallTypeCorrect, PTL DEF CallSpec

(* The local function of FilterValues: nine products, summed in order.     *)
LEMMA NineProducts ==
  ASSUME NEW window, NEW image, \A k \in 1 .. 9 : image[window[k]] \in Int,
         NEW total, total = image[window[1]] + 2 * image[window[2]]
                            + image[window[3]] + 2 * image[window[4]]
                            - 12 * image[window[5]] + 2 * image[window[6]]
                            + image[window[7]] + 2 * image[window[8]]
                            + image[window[9]]
  PROVE  FilterValues(window, image) =
           IF Rounded(total) \in Bytes THEN { Rounded(total) } ELSE Bytes
<1> DEFINE Term(k) == image[window[k]] * Weights[k]
           IsSum(f) == f = [k \in 0 .. 9 |-> IF k = 0 THEN 0 ELSE f[k - 1] + Term(k)]
           s0 == 0
           s1 == s0 + Term(1)
           s2 == s1 + Term(2)
           s3 == s2 + Term(3)
           s4 == s3 + Term(4)
           s5 == s4 + Term(5)
           s6 == s5 + Term(6)
           s7 == s6 + Term(7)
           s8 == s7 + Term(8)
           s9 == s8 + Term(9)
           upTo == << s1, s2, s3, s4, s5, s6, s7, s8, s9 >>
           good == [k \in 0 .. 9 |-> IF k = 0 THEN 0 ELSE upTo[k]]
           sum == CHOOSE f : IsSum(f)
<1>1. \A f : IsSum(f) => f[9] = s9
  <2> SUFFICES ASSUME NEW f, IsSum(f) PROVE f[9] = s9
    OBVIOUS
  <2>0. f[0] = 0 /\ \A k \in 1 .. 9 : f[k] = f[k - 1] + Term(k)
    <3> HIDE DEF Term
    <3> QED
      OBVIOUS
  <2> HIDE DEF Term
  <2>1. f[1] = s1
    BY <2>0, <2>0
  <2>2. f[2] = s2
    BY <2>0, <2>1
  <2>3. f[3] = s3
    BY <2>0, <2>2
  <2>4. f[4] = s4
    BY <2>0, <2>3
  <2>5. f[5] = s5
    BY <2>0, <2>4
  <2>6. f[6] = s6
    BY <2>0, <2>5
  <2>7. f[7] = s7
    BY <2>0, <2>6
  <2>8. f[8] = s8
    BY <2>0, <2>7
  <2>9. f[9] = s9
    BY <2>0, <2>8
  <2> QED
    BY <2>9
<1>2. IsSum(good)
  <2> HIDE DEF Term
  <2>1. good[0] = 0 /\ \A k \in 1 .. 9 : good[k] = good[k - 1] + Term(k)
    OBVIOUS
  <2> HIDE DEF good
  <2>2. good = [k \in 0 .. 9 |-> good[k]]
    BY DEF good
  <2> QED
    BY <2>1, <2>2
<1>3. sum[9] = s9
  <2> HIDE DEF IsSum, good, s9
  <2> QED
    BY <1>1, <1>2
<1>4. FilterValues(window, image) =
        IF Rounded(sum[9]) \in Bytes THEN { Rounded(sum[9]) } ELSE Bytes
  BY DEF FilterValues
<1>5. s9 = total
  BY DEF Weights
<1> HIDE DEF s9, sum
<1> QED
  BY <1>3, <1>4, <1>5

(* The coordinates of an index given by its coordinates.                   *)
LEMMA CoordinatesOfIndex ==
  ASSUME NEW w \in Nat \ {0}, NEW y \in Nat, NEW x \in 0 .. w - 1
  PROVE  (y * w + x) % w = x /\ (y * w + x) \div w = y
<1> DEFINE idx == y * w + x
           d == idx \div w
<1>1. idx % w = x
  BY RemainderUnique
<1>2. idx \in Nat
  OBVIOUS
<1>3. d \in Nat /\ idx = w * d + (idx % w)
  BY <1>2
<1>4. w * d = w * y
  BY <1>1, <1>3
<1> HIDE DEF d
<1>5. d = y
  BY <1>3, <1>4
<1> QED
  BY <1>1, <1>5 DEF d

(* A quadratic image as a function of the coordinates.                     *)
QuadraticAt(c, cx, cy, xx, yy, xy, a, b) ==
  c + cx * a + cy * b + xx * a * a + yy * b * b + xy * a * b

(* Such an image some steps to the side.                                   *)
ShiftIs(c, cx, cy, xx, yy, xy, x, y, dx, dy) ==
  QuadraticAt(c, cx, cy, xx, yy, xy, x + dx, y + dy) =
    QuadraticAt(c, cx, cy, xx, yy, xy, x, y)
    + dx * (cx + 2 * (xx * x) + xy * y) + dy * (cy + 2 * (yy * y) + xy * x)
    + xx * (dx * dx) + yy * (dy * dy) + xy * (dx * dy)

LEMMA QuadraticShift ==
  ASSUME NEW c \in Int, NEW cx \in Int, NEW cy \in Int,
         NEW xx \in Int, NEW yy \in Int, NEW xy \in Int,
         NEW x \in Int, NEW y \in Int, NEW dx \in Int, NEW dy \in Int
  PROVE  ShiftIs(c, cx, cy, xx, yy, xy, x, y, dx, dy)
<1>1. xx * (x + dx) * (x + dx) = xx * x * x + dx * (2 * (xx * x)) + xx * (dx * dx)
  OBVIOUS
<1>2. yy * (y + dy) * (y + dy) = yy * y * y + dy * (2 * (yy * y)) + yy * (dy * dy)
  OBVIOUS
<1>3. xy * (x + dx) * (y + dy)
        = xy * x * y + dx * (xy * y) + dy * (xy * x) + xy * (dx * dy)
  OBVIOUS
<1>4. cx * (x + dx) = cx * x + dx * cx
  OBVIOUS
<1>5. cy * (y + dy) = cy * y + dy * cy
  OBVIOUS
<1> QED
  BY <1>1, <1>2, <1>3, <1>4, <1>5 DEF QuadraticAt, ShiftIs

(* filter_pixel gives a quadratic image its Laplacian at every inner pixel.*)
GivesLaplacian(w, h, c, cx, cy, xx, yy, xy, p) ==
  FilterValues(FilterWindow(p, w, h), ImageOf(<< c, cx, cy, xx, yy, xy >>, w, h))
    = { 2 * xx + 2 * yy }

LEMMA LaplacianInside ==
  ASSUME NEW w \in Nat \ {0}, NEW h \in Nat \ {0},
         NEW c \in Int, NEW cx \in Int, NEW cy \in Int,
         NEW xx \in Int, NEW yy \in Int, NEW xy \in Int,
         NEW p \in PixelIndices(w, h), Inside(p, w, h),
         2 * xx + 2 * yy \in Bytes
  PROVE  GivesLaplacian(w, h, c, cx, cy, xx, yy, xy, p)
<1> DEFINE image == ImageOf(<< c, cx, cy, xx, yy, xy >>, w, h)
           x == ColumnOf(p, w)
           y == RowOf(p, w)
           yw == y * w
           window == FilterWindow(p, w, h)
           here  == QuadraticAt(c, cx, cy, xx, yy, xy, x, y)
           east  == cx + 2 * (xx * x) + xy * y
           south == cy + 2 * (yy * y) + xy * x
           total == 8 * xx + 8 * yy
<1>1. /\ p \in Nat /\ yw \in Int /\ p = yw + x /\ x \in 1 .. w - 2 /\ y \in 1 .. h - 2
  BY Coordinates DEF Inside, RowOf
<1>2. window = << p - w - 1, p - w, p - w + 1, p - 1, p, p + 1,
                  p + w - 1, p + w, p + w + 1 >>
  BY <1>1 DEF FilterWindow
<1>3. \A dx, dy \in {-1, 0, 1} : (y + dy) * w + (x + dx) = p + dy * w + dx
  BY <1>1
<1> HIDE DEF yw, x, y
<1>4. here \in Int /\ east \in Int /\ south \in Int
  BY <1>1 DEF QuadraticAt
<1>5. ASSUME NEW dx \in {-1, 0, 1}, NEW dy \in {-1, 0, 1}
      PROVE  image[p + dy * w + dx] = here + dx * east + dy * south
               + xx * (dx * dx) + yy * (dy * dy) + xy * (dx * dy)
  <2> DEFINE a == x + dx
             b == y + dy
  <2>1. a \in 0 .. w - 1 /\ b \in 0 .. h - 1 /\ b \in Nat /\ x \in Int /\ y \in Int
        /\ dx \in Int /\ dy \in Int
    BY <1>1
  <2>2. b * w + a = p + dy * w + dx
    BY <1>3
  <2>3. ShiftIs(c, cx, cy, xx, yy, xy, x, y, dx, dy)
    BY <2>1, QuadraticShift
  <2>4. QuadraticAt(c, cx, cy, xx, yy, xy, a, b) = here + dx * east + dy * south
               + xx * (dx * dx) + yy * (dy * dy) + xy * (dx * dy)
    BY <2>3, Zenon DEF ShiftIs
  <2> HIDE DEF a, b, here, east, south
  <2>5. b * w + a \in PixelIndices(w, h)
    BY <2>1, IndexInImage
  <2>6. (b * w + a) % w = a /\ (b * w + a) \div w = b
    BY <2>1, CoordinatesOfIndex, Zenon
  <2>7. image[b * w + a] = QuadraticAt(c, cx, cy, xx, yy, xy, a, b)
    BY <2>5, <2>6, Zenon DEF ImageOf, QuadraticAt
  <2> QED
    BY <2>2, <2>4, <2>7, Zenon
<1> HIDE DEF image, here, east, south
<1>6. /\ image[p - w - 1] = here - east - south + xx + yy + xy
      /\ image[p - w] = here - south + yy
      /\ image[p - w + 1] = here + east - south + xx + yy - xy
      /\ image[p - 1] = here - east + xx
      /\ image[p] = here
      /\ image[p + 1] = here + east + xx
      /\ image[p + w - 1] = here - east + south + xx + yy - xy
      /\ image[p + w] = here + south + yy
      /\ image[p + w + 1] = here + east + south + xx + yy + xy
  <2> DEFINE At(dx, dy) == image[p + dy * w + dx]
  <2>1. /\ p - w - 1 = p + (-1) * w + (-1) /\ p - w = p + (-1) * w + 0
        /\ p - w + 1 = p + (-1) * w + 1
        /\ p - 1 = p + 0 * w + (-1) /\ p = p + 0 * w + 0 /\ p + 1 = p + 0 * w + 1
        /\ p + w - 1 = p + 1 * w + (-1) /\ p + w = p + 1 * w + 0
        /\ p + w + 1 = p + 1 * w + 1
    BY <1>1
  <2> QED
    BY <1>4, <1>5, <2>1
<1>7. \A k \in 1 .. 9 : image[window[k]] \in Int
  BY <1>2, <1>4, <1>6
<1>8. total = image[window[1]] + 2 * image[window[2]]
              + image[window[3]] + 2 * image[window[4]]
              - 12 * image[window[5]] + 2 * image[window[6]]
              + image[window[7]] + 2 * image[window[8]] + image[window[9]]
  BY <1>2, <1>4, <1>6
<1>9. FilterValues(window, image) =
        IF Rounded(total) \in Bytes THEN { Rounded(total) } ELSE Bytes
  <2> HIDE DEF window, total
  <2> QED
    BY <1>7, <1>8, NineProducts
<1>10. Rounded(total) = 2 * xx + 2 * yy
  BY DEF Rounded, Bytes
<1> QED
  BY <1>9, <1>10 DEF image, GivesLaplacian

(* A flat image becomes 0, at the border as well.                          *)
GivesZero(w, h, p, v) ==
  FilterValues(FilterWindow(p, w, h), [k \in PixelIndices(w, h) |-> v]) = {0}

LEMMA FlatIsZero ==
  ASSUME NEW w \in Nat \ {0}, NEW h \in Nat \ {0},
         NEW p \in PixelIndices(w, h), NEW v \in Int
  PROVE  GivesZero(w, h, p, v)
<1> DEFINE image == [k \in PixelIndices(w, h) |-> v]
           window == FilterWindow(p, w, h)
<1>1. \A k \in 1 .. 9 : window[k] \in PixelIndices(w, h)
  BY WindowInImage, Zenon DEF Neighbourhood
<1>2. \A k \in 1 .. 9 : image[window[k]] = v
  BY <1>1
<1> HIDE DEF window, image
<1>3. FilterValues(window, image) =
        IF Rounded(0) \in Bytes THEN { Rounded(0) } ELSE Bytes
  BY <1>2, NineProducts
<1>4. Rounded(0) = 0 /\ 0 \in Bytes
  BY DEF Rounded, Bytes
<1> QED
  BY <1>3, <1>4 DEF window, image, GivesZero

(* filter_pixel is the nine-point Laplace operator, for every image size,  *)
(* every batch and every set of coefficients: inside, a quadratic image    *)
(* whose Laplacian is a byte becomes that Laplacian, and a flat image      *)
(* becomes 0 everywhere.                                                   *)
THEOREM FilterIsLaplaceOperator == CallSpec => []IsLaplaceOperator
<1>1. CallTypeOK /\ BorderExtended => IsLaplaceOperator
  <2> SUFFICES ASSUME CallTypeOK, BorderExtended,
                      NEW p \in PixelIndices(image_w, image_h),
                      out_buf[p] # Untouched
               PROVE  /\ Inside(p, image_w, image_h) =>
                           \A q \in Quadratics : Laplacian(q) \in Bytes =>
                             FilterValues(out_buf[p], ImageOf(q, image_w, image_h))
                               = { Laplacian(q) }
                      /\ \A v \in Coefficients :
                           FilterValues(out_buf[p],
                             [k \in PixelIndices(image_w, image_h) |-> v]) = {0}
    BY DEF IsLaplaceOperator
  <2>1. image_w \in Nat \ {0} /\ image_h \in Nat \ {0}
    BY SizePositive
  <2>2. out_buf[p] = FilterWindow(p, image_w, image_h)
    BY <2>1, WindowIsExtended DEF BorderExtended
  <2>3. ASSUME Inside(p, image_w, image_h), NEW q \in Quadratics,
               Laplacian(q) \in Bytes
        PROVE  FilterValues(out_buf[p], ImageOf(q, image_w, image_h))
                 = { Laplacian(q) }
    <3>1. PICK c, cx, cy, xx, yy, xy \in Coefficients :
            q = << c, cx, cy, xx, yy, xy >>
      <4>1. q = << q[1], q[2], q[3], q[4], q[5], q[6] >>
        BY DEF Quadratics
      <4>2. \A k \in 1 .. 6 : q[k] \in Coefficients
        BY DEF Quadratics
      <4> QED
        BY <4>1, <4>2
    <3>2. /\ c \in Int /\ cx \in Int /\ cy \in Int
          /\ xx \in Int /\ yy \in Int /\ xy \in Int
      BY CoefficientAssumption
    <3>3. Laplacian(q) = 2 * xx + 2 * yy
      BY <3>1 DEF Laplacian
    <3>4. GivesLaplacian(image_w, image_h, c, cx, cy, xx, yy, xy, p)
      BY <2>1, <2>3, <3>2, <3>3, LaplacianInside
    <3> QED
      BY <2>2, <3>1, <3>3, <3>4 DEF GivesLaplacian
  <2>4. ASSUME NEW v \in Coefficients
        PROVE  FilterValues(out_buf[p],
                 [k \in PixelIndices(image_w, image_h) |-> v]) = {0}
    <3>1. v \in Int
      BY CoefficientAssumption
    <3>2. GivesZero(image_w, image_h, p, v)
      BY <2>1, <3>1, FlatIsZero
    <3> QED
      BY <2>2, <3>2 DEF GivesZero
  <2> QED
    BY <2>3, <2>4
<1> QED
  BY <1>1, CallTypeCorrect, BorderIsExtended, PTL
=============================================================================
