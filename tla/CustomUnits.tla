----------------------------- MODULE CustomUnits -----------------------------
(***************************************************************************)
(* Unit data by the powers of the base units, and the units that are       *)
(* numbers in disguise (namespace precise::custom of                       *)
(* units/unit_definitions.hpp): a custom unit spreads ten bits over the    *)
(* exponents and the flags, a custom counting unit four, and the number of *)
(* an equation takes three flags, the count and the radian.                *)
(***************************************************************************)
EXTENDS UnitData

ASSUME BaseAssumption ==
         Base = {"meter", "second", "kilogram", "ampere", "candela", "kelvin",
                 "mole", "radian", "currency", "count"}

\* dim([meter |-> 1, second |-> -1], {}) is the unit data of a velocity.
dim(powers, flags) ==
  [exp |-> [b \in Base |-> IF b \in DOMAIN powers THEN powers[b] ELSE 0],
   flags |-> flags]

bShift(n, bit) == (n \div 2^bit) % 2

LowFlag == [e_flag |-> 0, i_flag |-> 1, per_unit |-> 2]   \* the bit of each
FlagsOf(n) == {f \in DOMAIN LowFlag : bShift(n, LowFlag[f]) = 1}
FlagBits(u) ==
  (IF "e_flag" \in u.flags THEN 1 ELSE 0)
  + (IF "i_flag" \in u.flags THEN 2 ELSE 0)
  + (IF "per_unit" \in u.flags THEN 4 ELSE 0)

If(condition, n) == IF condition THEN n ELSE 0

(***************************************************************************)
(* Custom units.  The mole is at its most negative value, which is its own *)
(* inverse in its field, and the ampere at one of the two most negative.   *)
(***************************************************************************)
custom_unit(n) ==
  LET exps == [meter |-> 7 - 4 * bShift(n, 8), kilogram |-> -2 + 3 * bShift(n, 7),
               second |-> 7 * bShift(n, 9),
               ampere |-> MinVal("ampere") + 1 - bShift(n, 6),
               kelvin |-> 3 * bShift(n, 4), mole |-> MinVal("mole"),
               candela |-> -2 + 2 * bShift(n, 5), currency |-> -2 * bShift(n, 3)]
  IN unit_data(dim(exps, {}).exp, FlagsOf(n))

\* Mutant: the other of the two values of the ampere is forgotten.
is_custom_unit_lowest(u) ==
  u.exp["mole"] = MinVal("mole") /\ u.exp["ampere"] = MinVal("ampere")

is_custom_unit(u) ==
  u.exp["mole"] = MinVal("mole") /\ Abs(u.exp["ampere"]) >= 2

custom_unit_number(u) ==
  FlagBits(u)
  + If(Abs(u.exp["meter"]) < 4, 256) + If(Abs(u.exp["second"]) >= 6, 512)
  + If(Abs(u.exp["kilogram"]) <= 1, 128) + If(Abs(u.exp["kelvin"]) = 3, 16)
  + If(u.exp["ampere"] = MinVal("ampere"), 64)
  + If(Abs(u.exp["candela"]) < 2, 32) + If(Abs(u.exp["currency"]) >= 2, 8)

\* Mutant: the mass is not looked at when the division took the length away.
is_custom_unit_inverted_by_length(u) ==
  u.exp["meter"] < 0 \/ (u.exp["meter"] = 0 /\ u.exp["ampere"] = 3)

\* The first of these exponents that tells decides.
is_custom_unit_inverted(u) ==
  LET meter == u.exp["meter"]
      kg == u.exp["kilogram"]
      second == u.exp["second"]
  IN IF meter # 0 THEN meter < 0
     ELSE IF kg \in {1, -2, -3, -1, 2, 3} THEN kg \in {-1, 2, 3}
     ELSE IF second \in {1, -7, -6, -1, 7, 6} THEN second \in {1, -7, -6}
     ELSE u.exp["ampere"] = 3

(***************************************************************************)
(* Custom counting units: an ampere of 3 and a kelvin of -3 tell them.     *)
(***************************************************************************)
custom_count_unit(n) ==
  unit_data(dim([ampere |-> 3, kelvin |-> -3, candela |-> -bShift(n, 3)], {}).exp,
            FlagsOf(n))

is_custom_count_unit(u) ==
  /\ <<u.exp["kelvin"], u.exp["ampere"]>> \in {<<-3, 3>>, <<3, -3>>}
  /\ u.exp["mole"] # MinVal("mole")

custom_count_unit_number(u) == FlagBits(u) + If(u.exp["candela"] # 0, 8)

is_custom_count_unit_inverted(u) == u.exp["kelvin"] = 3 /\ u.exp["ampere"] = -3

(***************************************************************************)
(* Equation units.                                                         *)
(***************************************************************************)
equation_unit(n) ==
  unit_data(dim([count |-> bShift(n, 3), radian |-> bShift(n, 4)], {}).exp,
            FlagsOf(n) \cup {"equation"})

eq_type(u) ==
  FlagBits(u) + If(u.exp["count"] # 0, 8) + If(u.exp["radian"] # 0, 16)
=============================================================================
