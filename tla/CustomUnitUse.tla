---------------------------- MODULE CustomUnitUse ----------------------------
(***************************************************************************)
(* A custom unit and what a client makes of it: a unit per length, mass,   *)
(* time or money, and the inverse of such a unit.  The library recognises  *)
(* the unit by its exponents, which the client's divisions change and      *)
(* which wrap in their fields.                                             *)
(***************************************************************************)
EXTENDS CustomUnits

CONSTANTS
  CustomPowers,   \* the powers by which custom units are divided
  CountPowers     \* and counting units

ASSUME CustomPowersAssumption ==
         CustomPowers \cup CountPowers \subseteq [{"meter", "kilogram", "second", "currency"} -> Int]

VARIABLES
  kind,       \* "custom" or "count"
  code,       \* the number of the unit
  base,       \* its unit data
  powers,     \* what it has been divided by
  inverted    \* whether the client holds its inverse

customVars == <<kind, code, base, powers, inverted>>

Kind == {"custom", "count"}
Codes(k) == IF k = "custom" THEN 0..1023 ELSE 0..15
Powers(k) == IF k = "custom" THEN CustomPowers ELSE CountPowers
generate(k, n) == IF k = "custom" THEN custom_unit(n) ELSE custom_count_unit(n)

CustomInit ==
  /\ kind \in Kind
  /\ code \in Codes(kind)
  /\ base = generate(kind, code)
  /\ powers = [b \in {"meter", "kilogram", "second", "currency"} |-> 0]
  /\ inverted = FALSE

axis(b) == dim([c \in {b} |-> 1], {})   \* the base unit

\* operator/ and operator* by a power of a base unit.  An inverse divided is
\* the inverse of the unit multiplied.
DivideBy(b, n) ==
  /\ powers' = [powers EXCEPT ![b] = IF inverted THEN @ - n ELSE @ + n]
  /\ powers' \in Powers(kind)
  /\ base' = IF n > 0 THEN Divides(base, Pow(axis(b), n)) ELSE Times(base, Pow(axis(b), -n))
  /\ UNCHANGED <<kind, code, inverted>>

TurnOver ==
  /\ base' = Inv(base)
  /\ inverted' = ~inverted
  /\ UNCHANGED <<kind, code, powers>>

CustomNext ==
  \/ \E b \in DOMAIN powers, n \in {-1, 1, 2, 3} : DivideBy(b, n)
  \/ TurnOver

CustomSpec == CustomInit /\ [][CustomNext]_customVars

(***************************************************************************)
(* The divisions after which the checks can tell number and inverse: those *)
(* that the comment on custom_unit allows, by s, m, m^2, m^3 and kg, most  *)
(* combinations of them, kg^2, and products with s, s^2 and s^3.  A volume *)
(* and a mass together take away all that tells an inverse.                *)
(***************************************************************************)
ToldPowers ==
  {p \in [{"meter", "kilogram", "second", "currency"} -> Int] :
     /\ p["meter"] \in 0..3 /\ p["kilogram"] \in 0..2
     /\ p["second"] \in -3..1 /\ p["currency"] = 0
     /\ p["meter"] = 3 => p["kilogram"] = 0}

\* The fields are no narrower than those of the 4-byte unit_data.
FieldsHold ==
  /\ Half["meter"] >= 8 /\ Half["second"] >= 8
  /\ \A b \in {"kilogram", "ampere", "kelvin"} : Half[b] >= 4

(***************************************************************************)
(* Properties.                                                             *)
(***************************************************************************)
\* The unit data stay in their fields, under the flags of the number.
TypeOK == /\ base \in UnitDataType
          /\ base.flags = FlagsOf(code)
          /\ code \in Codes(kind)
          /\ inverted \in BOOLEAN

is_inverted(u) == IF kind = "custom" THEN is_custom_unit_inverted(u)
                                     ELSE is_custom_count_unit_inverted(u)
number(u) == IF kind = "custom" THEN custom_unit_number(u)
                                ELSE custom_count_unit_number(u)

\* The checks tell the kind and the number of the unit whatever it was
\* divided by and whether or not it was inverted: the number is what
\* to_string writes.
NumberIsKept ==
  /\ is_custom_unit(base) <=> kind = "custom"
  /\ is_custom_count_unit(base) <=> kind = "count"
  /\ number(base) = code

\* The check of the inverse tells a unit from its inverse: to_string writes
\* the inverse as a power of -1 and divides by the unit or multiplies by it
\* to find what is left.
InverseIsTold == is_inverted(base) <=> inverted
=============================================================================
