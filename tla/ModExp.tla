------------------------------- MODULE ModExp -------------------------------
(***************************************************************************)
(* mod_exp of the Nios (Proyecto1/main.c:59-75): a pixel, the width or the *)
(* height to the power d modulo n, by squaring, in unsigned 32-bit         *)
(* arithmetic.  One step reduces the base, one step is an iteration.       *)
(***************************************************************************)
EXTENDS Integers

CONSTANTS
  Half,        \* a u32 is below Half * Half (Half is 2^16 in the code)
  MaxExponent, \* bound: the exponents d the run tries
  MaxModulus,  \* bound: the moduli n the run tries
  ByZero       \* what a division by 0 may return

Word == Half * Half

ASSUME ModExpAssumption ==
  /\ Half \in Nat \ {0, 1}
  /\ MaxExponent \in 0 .. Word - 1
  /\ MaxModulus \in 0 .. Word - 1
  /\ ByZero \subseteq 0 .. Word - 1 /\ ByZero # {}

U32 == 0 .. Word - 1
Calls == [base : U32, exponent : 0 .. MaxExponent, modulus : 0 .. MaxModulus]

VARIABLES
  args,                   \* what mod_exp was called with
  base, exponent, result, \* its variables
  pc                      \* "reduce", "loop" or "done"

modExpVars == << args, base, exponent, result, pc >>

ModExpInit ==
  /\ args \in Calls
  /\ base = args.base
  /\ exponent = args.exponent
  /\ result = 1
  /\ pc = "reduce"

(* a % modulus, where the Nios has no divider: the library's division by 0 *)
(* does not trap, and what it returns is left open.                        *)
Remainder(a) ==
  IF args.modulus = 0 THEN ByZero ELSE {a % args.modulus}

(* Mutant of Reduce: the base is not reduced.                              *)
ReduceNot ==
  /\ pc = "reduce"
  /\ base' = base
  /\ pc' = "loop"
  /\ UNCHANGED << args, exponent, result >>

Reduce ==
  /\ pc = "reduce"
  /\ base' \in Remainder(base)
  /\ pc' = "loop"
  /\ UNCHANGED << args, exponent, result >>

Multiply ==
  result' \in IF exponent % 2 = 1 THEN Remainder((result * base) % Word) ELSE {result}

(* Mutants of Iterate: it squares before it multiplies; it halves upwards. *)
IterateSquaresFirst ==
  /\ pc = "loop"
  /\ exponent > 0
  /\ base' \in Remainder((base * base) % Word)
  /\ result' \in IF exponent % 2 = 1 THEN Remainder((result * base') % Word) ELSE {result}
  /\ exponent' = exponent \div 2
  /\ UNCHANGED << args, pc >>

IterateHalvesUp ==
  /\ pc = "loop"
  /\ exponent > 0
  /\ Multiply
  /\ base' \in Remainder((base * base) % Word)
  /\ exponent' = (exponent + 1) \div 2
  /\ UNCHANGED << args, pc >>

Iterate ==
  /\ pc = "loop"
  /\ exponent > 0
  /\ Multiply
  /\ base' \in Remainder((base * base) % Word)
  /\ exponent' = exponent \div 2
  /\ UNCHANGED << args, pc >>

Return ==
  /\ pc = "loop"
  /\ exponent = 0
  /\ pc' = "done"
  /\ UNCHANGED << args, base, exponent, result >>

ModExpNext == Reduce \/ Iterate \/ Return

ModExpSpec == ModExpInit /\ [][ModExpNext]_modExpVars

(* The processor runs.                                                     *)
ModExpFairSpec == ModExpSpec /\ WF_modExpVars(ModExpNext)
----------------------------------------------------------------------------
(* The power by its definition, the reference of the properties.           *)
Power(b, k, m) ==
  LET power[i \in 0 .. k] == IF i = 0 THEN 1 % m ELSE (b * power[i - 1]) % m
  IN  power[k]

ModExpTypeOK ==
  /\ args \in Calls
  /\ base \in U32
  /\ exponent \in 0 .. MaxExponent
  /\ result \in U32
  /\ pc \in {"reduce", "loop", "done"}

(* main.c:59 says mod_exp is the right-to-left binary method: it returns   *)
(* the power modulo n.                                                     *)
ComputesPower ==
  pc = "done" /\ args.modulus > 1 =>
    result = Power(args.base, args.exponent, args.modulus)

(* No product leaves 32 bits, as long as the modulus has no more than 16.  *)
NoOverflow ==
  pc = "loop" /\ exponent > 0 /\ args.modulus > 0 =>
    base * base < Word /\ result * base < Word

(* With the exponent 0 mod_exp returns 1 for every modulus, 0 and 1 too:   *)
(* what decrypt_wh gets, which runs before a key was entered.              *)
ZeroExponent == pc = "done" /\ args.exponent = 0 => result = 1

(* Every call returns, with modulus 0 too.                                 *)
Terminates == <>(pc = "done")
=============================================================================
