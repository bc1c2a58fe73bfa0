------------------------------ MODULE UnitText -------------------------------
(***************************************************************************)
(* The texts that stand for units, and the units they stand for.  A text   *)
(* is a number and a sequence of terms read from the left: a term          *)
(* multiplies or, after a '/', divides; it has a name, in front of it an   *)
(* SI prefix and after it a power, and the power applies to the prefix as  *)
(* well.  "1/(a*b)" is a text of two terms that divide.                    *)
(*                                                                         *)
(* The multipliers are exact: a sign, a power of ten and a power of sixty  *)
(* (hours and minutes).  The floating point rounding of the code, which    *)
(* compares units after rounding, is left out.                             *)
(***************************************************************************)
EXTENDS CustomUnits, Sequences

CONSTANTS
  Means,   \* Means[name] is the unit that the reader knows by the name
  Clash    \* prefixed names with a meaning of their own: <<prefix, name, power>>

(***************************************************************************)
(* Multipliers; INF, NaN and 0 are kept as they are.                       *)
(***************************************************************************)
number(ten, sixty) == [class |-> "normal", neg |-> FALSE, ten |-> ten, sixty |-> sixty]
One == number(0, 0)
special(class, neg) == [class |-> class, neg |-> neg, ten |-> 0, sixty |-> 0]
IsNormal(m) == m.class = "normal"

MultTimes(m, n) ==
  IF IsNormal(m) /\ IsNormal(n)
  THEN [number(m.ten + n.ten, m.sixty + n.sixty) EXCEPT !.neg = m.neg # n.neg]
  ELSE special(IF IsNormal(m) THEN n.class ELSE m.class, m.neg # n.neg)
MultPow(m, n) == [number(m.ten * n, m.sixty * n) EXCEPT !.neg = m.neg /\ ~IsEven(n)]
MultInv(m) == MultPow(m, -1)

HasMultRoot(m, n) == m.ten % n = 0 /\ m.sixty % n = 0 /\ (m.neg => ~IsEven(n))
MultRoot(m, n) == [number(m.ten \div n, m.sixty \div n) EXCEPT !.neg = m.neg]

\* A thousand times the logarithm.
Log(m) == 1000 * m.ten + 1778 * m.sixty
AtMostTenth(m) == m.neg \/ Log(m) <= -1000
MoreThanHundred(m) == ~m.neg /\ Log(m) > 2000
\* The multiplier is a normal single precision number too.
IsFloat(m) == -37930 <= Log(m) /\ Log(m) <= 38531

(***************************************************************************)
(* Units.                                                                  *)
(***************************************************************************)
precise_unit(mult, base) == [mult |-> mult, base |-> base]
Plain(base) == precise_unit(One, base)
one == Plain(Dimensionless)
UnitTimes(u, v) == precise_unit(MultTimes(u.mult, v.mult), Times(u.base, v.base))
UnitDivides(u, v) ==
  precise_unit(MultTimes(u.mult, MultInv(v.mult)), Divides(u.base, v.base))
UnitInv(u) == precise_unit(MultInv(u.mult), Inv(u.base))
UnitPow(u, n) == precise_unit(MultPow(u.mult, n), Pow(u.base, n))
clear_flags_no(u) == u   \* mutant: the flags stay
clear_flags(u) == [u EXCEPT !.base.flags = {}]

unit_type_count(u) ==
  LET Used(b) == If(u.base.exp[b] # 0, 1)
  IN Used("meter") + Used("second") + Used("kilogram") + Used("ampere")
     + Used("candela") + Used("kelvin") + Used("mole") + Used("radian")
     + Used("currency") + Used("count")

empty(u) == unit_type_count(u) = 0 /\ "equation" \notin u.base.flags

\* The units without flags, and with an ordinary number.
NormalMult == [class : {"normal"}, neg : BOOLEAN, ten : Int, sixty : Int]
FlagFreeBase == {base \in UnitDataType : InFields(base) /\ base.flags = {}}
FlagFree == [mult : NormalMult, base : FlagFreeBase]

\* All units: with flags, and INF, NaN or 0 for the number.
SpecialMult == [class : {"INF", "NaN", "0"}, neg : BOOLEAN, ten : {0}, sixty : {0}]
AnyMult == NormalMult \cup SpecialMult
AnyBase == {base \in UnitDataType : InFields(base)}
AnyUnit == [mult : AnyMult, base : AnyBase]

(***************************************************************************)
(* Texts.  The code of a term is the number in CXUN[n] and its like.       *)
(***************************************************************************)
Term(name, power) ==
  [divides |-> FALSE, prefix |-> 0, name |-> name, code |-> 0, power |-> power]
Coded(name, code, power) == [Term(name, power) EXCEPT !.code = code]
Dividing(term) == [term EXCEPT !.divides = ~@]
SignedPower(term) == IF term.divides THEN -term.power ELSE term.power

Text(num, terms) == [number |-> num, terms |-> terms]
Bare(terms) == Text(One, terms)
DividingAll(terms) == [i \in DOMAIN terms |-> Dividing(terms[i])]

\* The prefixes of si_prefixes, as powers of ten.
SIPrefix == {-2} \cup {3 * k : k \in -10..-1} \cup {3 * k : k \in 1..10}

(***************************************************************************)
(* What the reader makes of a text (unit_from_string): a name is looked up *)
(* with its prefix first, and then the prefix is split off.                *)
(***************************************************************************)
Vocabulary == DOMAIN Means \cup {"CXUN", "CXCUN", "EQXUN"}

Known(term) ==
  CASE term.name = "CXUN"  -> Plain(custom_unit(term.code))
    [] term.name = "CXCUN" -> Plain(custom_count_unit(term.code))
    [] term.name = "EQXUN" -> Plain(equation_unit(term.code))
    [] OTHER               -> Means[term.name]

ReadTerm(term) ==
  IF <<term.prefix, term.name, term.power>> \in Clash THEN Plain(ErrorData)
  ELSE UnitPow(UnitTimes(precise_unit(number(term.prefix, 0), Dimensionless), Known(term)),
               term.power)

ReadNext(read, term) == IF term.divides THEN UnitDivides(read, ReadTerm(term))
                                        ELSE UnitTimes(read, ReadTerm(term))

ReadTerms(terms) ==
  LET upTo[n \in 0..Len(terms)] ==
        IF n = 0 THEN one ELSE ReadNext(upTo[n - 1], terms[n])
  IN upTo[Len(terms)]

Read(text) == [ReadTerms(text.terms) EXCEPT !.mult = MultTimes(text.number, @)]
=============================================================================
