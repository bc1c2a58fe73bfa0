------------------------------ MODULE UnitData ------------------------------
(***************************************************************************)
(* detail::unit_data (units/units_decl.hpp): the exponents of the base     *)
(* units, each a signed bit field of its own width, and four one-bit       *)
(* flags.  Every operation computes the exponents in `int` and stores them *)
(* in the fields, where they keep their low bits only.                     *)
(*                                                                         *)
(* The overflow predicates are those of units/units_util.hpp.              *)
(***************************************************************************)
EXTENDS Integers

CONSTANTS
  Base,      \* the base units that have an exponent field
  Half,      \* Half[b] = 2^(width of b's field - 1)
  Second     \* the base unit that the root-hertz rule adjusts

ASSUME HalfAssumption == Half \in [Base -> {2, 4, 8, 32, 128}]
ASSUME SecondAssumption == Second \in Base

Flag == {"per_unit", "i_flag", "e_flag", "equation"}

MinVal(b) == -Half[b]
MaxVal(b) == Half[b] - 1

UnitDataType == [exp : [Base -> Int], flags : SUBSET Flag]

InFields(u) == \A b \in Base : MinVal(b) <= u.exp[b] /\ u.exp[b] <= MaxVal(b)

(***************************************************************************)
(* Storing x in b's two's-complement field.                                *)
(***************************************************************************)
Wrap(b, x) == ((x + Half[b]) % (2 * Half[b])) - Half[b]

\* Mutants of unit_data: fields that keep every bit, and that saturate.
unit_data_wide(exps, flags) == [exp |-> [b \in Base |-> exps[b]], flags |-> flags]

Saturate(b, x) == IF x > MaxVal(b) THEN MaxVal(b)
                  ELSE IF x < MinVal(b) THEN MinVal(b) ELSE x
unit_data_saturating(exps, flags) ==
  [exp |-> [b \in Base |-> Saturate(b, exps[b])], flags |-> flags]

unit_data(exps, flags) ==
  [exp |-> [b \in Base |-> Wrap(b, exps[b])], flags |-> flags]

Dimensionless == [exp |-> [b \in Base |-> 0], flags |-> {}]

\* unit_data(nullptr): every exponent the most negative one, every flag set.
ErrorData == [exp |-> [b \in Base |-> MinVal(b)], flags |-> Flag]

Xor(S, T) == (S \ T) \cup (T \ S)

(***************************************************************************)
(* Multiplication ORs per_unit, e_flag and equation and XORs i_flag;       *)
(* division XORs e_flag too.                                               *)
(***************************************************************************)
XorOn(F, S, T) == ((S \cup T) \ F) \cup (Xor(S, T) \cap F)

Times(u, v) ==
  unit_data([b \in Base |-> u.exp[b] + v.exp[b]],
            XorOn({"i_flag"}, u.flags, v.flags))

\* Mutant: division ORs the e_flag.
DividesOred(u, v) ==
  unit_data([b \in Base |-> u.exp[b] - v.exp[b]],
            XorOn({"i_flag"}, u.flags, v.flags))

Divides(u, v) ==
  unit_data([b \in Base |-> u.exp[b] - v.exp[b]],
            XorOn({"i_flag", "e_flag"}, u.flags, v.flags))

\* Mutant: inv() drops the i_flag.
InvUnflagged(u) == unit_data([b \in Base |-> -u.exp[b]], u.flags \ {"i_flag"})

Inv(u) == unit_data([b \in Base |-> -u.exp[b]], u.flags)

(***************************************************************************)
(* A unit with both i_flag and e_flag is taken for a square root of hertz  *)
(* (its second exponent is then -5): an even power corrects the exponent   *)
(* of the second by 9 for every square, and drops both flags.              *)
(***************************************************************************)
RootHertzFlags == {"i_flag", "e_flag"}
IsRootHertzLike(u) == RootHertzFlags \subseteq u.flags
IsEven(n) == n % 2 = 0

rootHertzModifier(u, power) ==
  IF \/ u.exp[Second] * power = 0
     \/ ~IsRootHertzLike(u)
     \/ ~IsEven(power)
  THEN 0
  ELSE (power \div 2) * (IF u.exp[Second] < 0 \/ power < 0 THEN 9 ELSE -9)

\* Mutant: an even power always drops both flags.
PowFlagsDropped(flags, power) == IF IsEven(power) THEN flags \ RootHertzFlags ELSE flags

PowFlags(flags, power) ==
  IF ~IsEven(power) THEN flags
  ELSE IF RootHertzFlags \subseteq flags THEN flags \ RootHertzFlags
  ELSE flags \ {"i_flag"}

PowExponents(u, power) ==
  [b \in Base |-> u.exp[b] * power
                   + (IF b = Second THEN rootHertzModifier(u, power) ELSE 0)]

Pow(u, power) == unit_data(PowExponents(u, power), PowFlags(u.flags, power))

(***************************************************************************)
(* Roots.  C's % and / are used on exact multiples only, so the sign of    *)
(* the power is all that distinguishes them from TLA+'s.                   *)
(***************************************************************************)
Abs(n) == IF n < 0 THEN -n ELSE n
UnsignedQuotient(x, n) == x \div Abs(n)   \* mutant: the sign of n is lost
ExactQuotient(x, n) == IF n > 0 THEN x \div n ELSE -(x \div (-n))

\* Mutant: hasValidRoot without its test of the equation flag.
hasRootOfExponents(u, power) == \A b \in Base : u.exp[b] % Abs(power) = 0

hasValidRoot(u, power) ==
  /\ \A b \in Base : u.exp[b] % Abs(power) = 0
  /\ "equation" \notin u.flags

Root(u, power) ==
  IF hasValidRoot(u, power)
  THEN unit_data([b \in Base |-> ExactQuotient(u.exp[b], power)],
                 u.flags \ (IF IsEven(power) THEN {"i_flag", "equation"}
                                             ELSE {"equation"}))
  ELSE ErrorData

(***************************************************************************)
(* units_util.hpp: bitfield<Bits>::plus_overflows and its siblings, and    *)
(* the predicates that fold them over the base units.                      *)
(***************************************************************************)
plus_overflows(b, x, y) ==
  \/ y > 0 /\ x > MaxVal(b) - y
  \/ y < 0 /\ x < MinVal(b) - y

minus_overflows(b, x, y) ==
  \/ y < 0 /\ x > MaxVal(b) + y
  \/ y > 0 /\ x < MinVal(b) + y

bits_times_overflows(b, x, n) == x * n < MinVal(b) \/ x * n > MaxVal(b)

times_overflows(u, v) == \E b \in Base : plus_overflows(b, u.exp[b], v.exp[b])
divides_overflows(u, v) == \E b \in Base : minus_overflows(b, u.exp[b], v.exp[b])
inv_overflows_swapped(u) == divides_overflows(u, Dimensionless)   \* mutant
inv_overflows(u) == divides_overflows(Dimensionless, u)
pow_overflows(u, power) ==
  \E b \in Base : bits_times_overflows(b, u.exp[b], power)
=============================================================================
