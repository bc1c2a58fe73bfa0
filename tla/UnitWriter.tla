----------------------------- MODULE UnitWriter ------------------------------
(***************************************************************************)
(* to_string for units (units/units.cpp).  The writer takes a unit apart   *)
(* by the first of a list of rules that applies; some rules write all of   *)
(* it, others write a part and call the writer again on the rest.          *)
(*                                                                         *)
(* Of a text of several candidates the code takes the shortest if all      *)
(* start with a number: any of them here.                                  *)
(*                                                                         *)
(* Left out: the branches for numbers that do not compare equal after      *)
(* rounding, powers beyond 9 (the wide build), the names of commodities,   *)
(* and of the rewriting of the finished text all but what changes its      *)
(* meaning.  Maps of names are iterated in the order of UserName.          *)
(***************************************************************************)
EXTENDS UnitText, FiniteSets

CONSTANTS
  Input,          \* sets of units to write
  BaseName,       \* base_unit_names: the term that names a unit
  UserName,       \* user_defined_unit_names, in the order of iteration
  KgTail,         \* the names that begin with "kg", and the name without the k
  TestUnits, PowerUnits, SITestUnits    \* [unit, term], in the tables' order

ASSUME InputAssumption == \A units \in Input : units \subseteq AnyUnit
ASSUME KgAssumption == KgTail["kg"] = "g"

VARIABLES
  input,          \* the unit given to to_string
  un,             \* what is left to write
  rule,           \* the rule that applies to it
  num,            \* the number in the text,
  before, after,  \* and its terms before and after what is left
  phase           \* "choosing", "writing", "cleaning" or "done"

vars == <<input, un, rule, num, before, after, phase>>

(***************************************************************************)
(* find_unit: the names the user gave come first.                          *)
(***************************************************************************)
Given(u) == {i \in DOMAIN UserName : UserName[i].unit = u}
BaseNamed == DOMAIN BaseName
HasName(u) == Given(u) # {} \/ u \in BaseNamed
NameOf(u) == IF Given(u) # {} THEN UserName[CHOOSE i \in Given(u) : TRUE].term
                              ELSE BaseName[u]

Raised(term, power) == [term EXCEPT !.power = @ * power]

(***************************************************************************)
(* getMultiplierString: an SI prefix where the root of the number is one.  *)
(* A prefix is raised with the name that it is put on.                     *)
(***************************************************************************)
IsSIPrefixBeyond(mult) ==   \* mutant: prefixes beyond the quecto and the quetta
  IsNormal(mult) /\ ~mult.neg /\ mult.sixty = 0 /\ mult.ten % 3 = 0
IsSIPrefix(mult) == IsNormal(mult) /\ ~mult.neg /\ mult.sixty = 0 /\ mult.ten \in SIPrefix

\* Mutant: the prefix is the root of the number where it divides, too.
PrefixRootUpright(mult, power) == MultRoot(mult, Abs(power))
PrefixRoot(mult, power) ==
  MultRoot(IF power < 0 THEN MultInv(mult) ELSE mult, Abs(power))

TakesPrefix(mult, power) ==
  /\ Abs(power) <= 3
  /\ HasMultRoot(mult, Abs(power))
  /\ IsSIPrefix(PrefixRoot(mult, power))

PutFirst(term, terms) == [terms EXCEPT ![1] = term]

Prefixed(mult, terms, noPrefix) ==
  LET power == SignedPower(terms[1])
  IN IF ~noPrefix /\ TakesPrefix(mult, power)
     THEN Bare(PutFirst([terms[1] EXCEPT !.prefix = PrefixRoot(mult, power).ten], terms))
     ELSE Text(mult, terms)

(***************************************************************************)
(* generateUnitSequence: the cubic meter and the kilogram are changed to a *)
(* smaller unit where that leaves a handier number.                        *)
(***************************************************************************)
Thousand == number(3, 0)
Larger(mult) == MultTimes(mult, Thousand)
Smaller(mult) == MultTimes(mult, MultInv(Thousand))

generateUnitSequence(mult, terms) ==
  LET first == terms[1]
      Is(name, power) == ~first.divides /\ first.name = name /\ first.power = power
      Changed(name, power) == PutFirst(Term(name, power), terms)
      Kg == ~first.divides /\ first.name \in DOMAIN KgTail
  IN CASE Is("m", 3) /\ AtMostTenth(mult) ->
            Prefixed(Larger(mult), Changed("L", 1), FALSE)
       [] Is("m", -3) /\ MoreThanHundred(mult) ->
            Prefixed(Smaller(mult), Changed("L", -1), FALSE)
       [] Is("kg", -1) /\ MoreThanHundred(mult) ->
            Prefixed(Smaller(mult), Changed("g", -1), FALSE)
       [] Kg /\ ~Is("kg", -1) /\ AtMostTenth(mult)
             /\ (first.name = "kg" => first.power = 1) ->
            Prefixed(Larger(mult), Changed(KgTail[first.name], first.power), FALSE)
       [] OTHER -> Prefixed(mult, terms, Kg)

(***************************************************************************)
(* generateRawUnitString: the base units one by one.  A single negative    *)
(* power is written with a '/', several are written as powers.             *)
(***************************************************************************)
RawNames == <<<<"meter", "m">>, <<"kilogram", "kg">>, <<"second", "s">>,
              <<"ampere", "A">>, <<"kelvin", "K">>, <<"mole", "mol">>,
              <<"candela", "cd">>, <<"count", "item">>, <<"currency", "$">>,
              <<"radian", "rad">>>>

RawTerms(u, positive) ==
  LET Raw(i) == LET power == u.base.exp[RawNames[i][1]]
                IN IF power # 0 /\ (power > 0) = positive
                   THEN <<Term(RawNames[i][2], power)>> ELSE <<>>
  IN Raw(1) \o Raw(2) \o Raw(3) \o Raw(4) \o Raw(5)
     \o Raw(6) \o Raw(7) \o Raw(8) \o Raw(9) \o Raw(10)

Flagged(u, flag, name) == IF flag \in u.base.flags THEN <<Term(name, 1)>> ELSE <<>>
addUnitFlagStrings(u, terms) ==
  Flagged(u, "per_unit", "pu") \o Flagged(u, "e_flag", "eflag")
  \o terms \o Flagged(u, "i_flag", "flag")

generateRawUnitString(u) ==
  LET top == addUnitFlagStrings(u, RawTerms(u, TRUE))
      bottom == RawTerms(u, FALSE)
  IN IF Len(bottom) # 1 THEN top \o bottom
     ELSE IF top = <<>> /\ bottom[1] = Term("s", -1) THEN <<Term("Hz", 1)>>
     ELSE Append(top, Dividing(Raised(bottom[1], -1)))

(***************************************************************************)
(* Known powers: a root of the unit, or of its inverse, has a name.        *)
(***************************************************************************)
UnitRoot(u, n) == precise_unit(MultRoot(u.mult, n), Root(u.base, n))
HasUnitRoot(u, n) ==
  /\ hasValidRoot(u.base, n) /\ HasMultRoot(u.mult, n)
  /\ u.base.flags \cap {"e_flag", "i_flag"} = {}

IsNamedPower(u, n) ==
  HasUnitRoot(u, n) /\ (HasName(UnitRoot(u, n)) \/ HasName(UnitInv(UnitRoot(u, n))))

NamedPower(u, n) ==
  LET root == UnitRoot(u, n)
  IN IF HasName(root) THEN Raised(NameOf(root), n)
     ELSE Dividing(Raised(NameOf(UnitInv(root)), n))

(***************************************************************************)
(* siTestUnits: a unit that takes a prefix, times one base unit at most.   *)
(* A part is what is written before and after the rest.                    *)
(***************************************************************************)
Part(terms, rest, terms_after) ==
  [before |-> terms, rest |-> rest, after |-> terms_after]

OneOrPrefix(mult) == mult = One \/ IsSIPrefix(mult)

SIParts(u, si) ==
  LET by == UnitDivides(u, si.unit)
      over == UnitTimes(u, si.unit)
      factor == [si.term EXCEPT !.prefix = by.mult.ten]
      divisor == Dividing([si.term EXCEPT !.prefix = -over.mult.ten])
      Parts(mult, nu, alone, beside) ==
        IF OneOrPrefix(mult) /\ unit_type_count(nu) <= 1
        THEN {IF unit_type_count(nu) = 0 THEN alone ELSE beside} ELSE {}
  IN <<Parts(by.mult, by, Part(addUnitFlagStrings(by, <<factor>>), one, <<>>),
                          Part(<<factor>>, Plain(by.base), <<>>)),
       Parts(MultInv(over.mult), over,
             Part(Append(addUnitFlagStrings(over, <<>>), divisor), one, <<>>),
             Part(<<>>, Plain(over.base), <<divisor>>))>>

\* The first set that has a member.
FirstOf(sets) ==
  IF \A i \in DOMAIN sets : sets[i] = {} THEN {}
  ELSE sets[CHOOSE i \in DOMAIN sets :
              sets[i] # {} /\ \A j \in 1..(i - 1) : sets[j] = {}]

AllSIParts(u) ==
  FirstOf([i \in DOMAIN SITestUnits |-> FirstOf(SIParts(u, SITestUnits[i]))])

(***************************************************************************)
(* probeUnit and probeUnitBase: the unit over or times a common unit has a *)
(* name, as it is or but for its multiplier.                               *)
(***************************************************************************)
When(condition, text) == IF condition THEN {text} ELSE {}
Beside(text, term) == [text EXCEPT !.terms = Append(@, term)]
Inverted(text) == Text(MultInv(text.number), DividingAll(text.terms))

probeUnit(u, p) ==
  LET over == UnitTimes(u, p.unit)
      by == UnitDivides(u, p.unit)
  IN <<When(HasName(over), Bare(<<NameOf(over), Dividing(p.term)>>)),
       When(HasName(UnitInv(over)),
            Bare(<<Dividing(NameOf(UnitInv(over))), Dividing(p.term)>>)),
       When(HasName(by), Bare(<<NameOf(by), p.term>>)),
       When(HasName(UnitInv(by)), Bare(<<p.term, Dividing(NameOf(UnitInv(by)))>>))>>

\* A prefix would be raised with a name that ends in a digit.
WithPrefix(mult, term) ==
  IF IsSIPrefix(mult) /\ term.power = 1
  THEN Bare(<<[term EXCEPT !.prefix = mult.ten]>>) ELSE Text(mult, <<term>>)

probeUnitBase(u, p) ==
  LET over == UnitTimes(u, p.unit)
      by == UnitDivides(u, p.unit)
      base(v) == Plain(v.base)
      inverse(v) == Plain(Inv(v.base))
  IN <<When(HasName(base(over)),
            Beside(generateUnitSequence(over.mult, <<NameOf(base(over))>>), Dividing(p.term))),
       When(HasName(inverse(over)),
            Inverted(Beside(WithPrefix(MultInv(over.mult), NameOf(inverse(over))), p.term))),
       When(HasName(base(by)),
            Beside(generateUnitSequence(by.mult, <<NameOf(base(by))>>), p.term)),
       When(HasName(inverse(by)),
            LET text == Inverted(generateUnitSequence(MultInv(by.mult), <<NameOf(inverse(by))>>))
            IN Text(text.number, <<p.term>> \o text.terms))>>

Attempt(p, n, exact) ==
  [unit |-> UnitPow(p.unit, n), term |-> Raised(p.term, n), exact |-> exact]

\* Every unit of a table, to every power from `first` to 3.
Powers(table, first, exact) ==
  LET each == 4 - first
  IN [k \in 1..(each * Len(table)) |->
        Attempt(table[((k - 1) \div each) + 1], first + ((k - 1) % each), exact)]

Attempts ==
  [k \in 1..(2 * Len(TestUnits)) |-> Attempt(TestUnits[(k + 1) \div 2], 1, k % 2 = 1)]
  \o Powers(UserName, 1, TRUE) \o Powers(PowerUnits, 2, TRUE)
  \o Powers(UserName, 1, FALSE) \o Powers(PowerUnits, 2, FALSE)

\* The first text without a number, or any text.
StartsWithNumber(text) == text.number # One
FirstBare(texts) ==
  FirstOf(<<FirstOf([i \in DOMAIN texts |-> {t \in texts[i] : ~StartsWithNumber(t)}]),
            UNION {texts[i] : i \in DOMAIN texts}>>)

Probed(u) ==
  LET Found(p) == FirstBare(IF p.exact THEN probeUnit(u, p) ELSE probeUnitBase(u, p))
  IN FirstBare([i \in DOMAIN Attempts |-> Found(Attempts[i])])

(***************************************************************************)
(* creduceUnits: the volt and the watt bring down the order of a unit.     *)
(***************************************************************************)
AbsOf(u, base) == Abs(u.base.exp[base])
order(u) ==
  AbsOf(u, "meter") + AbsOf(u, "kelvin") + AbsOf(u, "kilogram") + AbsOf(u, "count")
  + AbsOf(u, "ampere") + AbsOf(u, "second") + AbsOf(u, "currency")
  + AbsOf(u, "radian") + AbsOf(u, "candela") + AbsOf(u, "mole")

volt == Means["V"]
watt == Means["W"]
creduceUnits == <<[by |-> UnitInv(volt), term |-> Term("V", 1)],
                  [by |-> volt, term |-> Term("V", -1)],
                  [by |-> watt, term |-> Term("W", -1)],
                  [by |-> UnitInv(watt), term |-> Term("W", 1)]>>

Reduced(u) ==
  LET left(i) == UnitTimes(u, creduceUnits[i].by)
      Better(i) == /\ 1 + order(left(i)) < order(u)
                   /\ \A j \in DOMAIN creduceUnits :
                        IF j < i THEN order(left(i)) < order(left(j))
                                 ELSE order(left(i)) <= order(left(j))
  IN IF order(u) > 3 /\ \E i \in DOMAIN creduceUnits : Better(i)
     THEN LET i == CHOOSE i \in DOMAIN creduceUnits : Better(i)
          IN generateUnitSequence(u.mult, <<creduceUnits[i].term>>
                                          \o generateRawUnitString(left(i)))
     ELSE generateUnitSequence(u.mult, generateRawUnitString(u))

(***************************************************************************)
(* The rules of to_string_internal, in their order.                        *)
(***************************************************************************)
Rules == <<"special", "magnitude", "name", "inverse name", "number", "square",
           "cube", "equation", "custom", "custom count", "base units", "SI test",
           "pure base", "inverse pure base", "probe">>

Applies(r, u) ==
  CASE r = "special" -> ~IsNormal(u.mult)
    [] r = "magnitude" -> ~IsFloat(u.mult)
    [] r = "name" -> HasName(u)
    [] r = "inverse name" -> HasName(UnitInv(u))
    [] r = "number" -> empty(u)
    [] r = "square" -> ~u.mult.neg /\ IsNamedPower(u, 2)
    [] r = "cube" -> IsNamedPower(u, 3)
    [] r = "equation" -> "equation" \in u.base.flags
    [] r = "custom" -> is_custom_unit(u.base)
    [] r = "custom count" -> is_custom_count_unit(u.base)
    [] r = "base units" -> unit_type_count(u) = 1 \/ (unit_type_count(u) = 2 /\ u.mult = One)
    [] r = "SI test" -> AllSIParts(u) # {}
    [] r = "pure base" -> HasName(Plain(u.base))
    [] r = "inverse pure base" -> HasName(Plain(Inv(u.base)))
    [] OTHER -> TRUE

Rule(u) == Rules[CHOOSE i \in DOMAIN Rules :
                   Applies(Rules[i], u) /\ \A j \in 1..(i - 1) : ~Applies(Rules[j], u)]

Chosen(r) == phase = "writing" /\ rule = r

(***************************************************************************)
(* Steps: writing all that is left, or a part of it.                       *)
(***************************************************************************)
Finish(text) ==
  /\ num' = MultTimes(num, text.number)
  /\ before' = before \o text.terms \o after
  /\ after' = <<>>
  /\ phase' = "cleaning"
  /\ UNCHANGED <<input, un, rule>>

WriteAround(number_, terms, rest, terms_after) ==
  /\ num' = MultTimes(num, number_)
  /\ before' = before \o terms
  /\ after' = terms_after \o after
  /\ un' = rest
  /\ phase' = "choosing"
  /\ UNCHANGED <<input, rule>>

(***************************************************************************)
(* The actions.                                                            *)
(***************************************************************************)
Init ==
  /\ \E units \in Input : input \in units
  /\ un = input /\ rule = "none"
  /\ num = One /\ before = <<>> /\ after = <<>>
  /\ phase = "choosing"

Choose ==
  /\ phase = "choosing"
  /\ rule' = Rule(un)
  /\ phase' = "writing"
  /\ UNCHANGED <<input, un, num, before, after>>

\* A number and what it multiplies: INF, NaN and 0, and numbers too large or
\* too small for the float of the cast unit.
NumberFirst ==
  /\ Chosen("special") \/ Chosen("magnitude")
  /\ WriteAround(un.mult, <<>>, Plain(un.base), <<>>)

Name == Chosen("name") /\ Finish(Bare(<<NameOf(un)>>))

InverseName == Chosen("inverse name") /\ Finish(Bare(<<Dividing(NameOf(UnitInv(un)))>>))

Number ==
  /\ Chosen("number")
  /\ LET base == Plain(un.base)
     IN Finish(Text(un.mult, IF HasName(base) THEN <<NameOf(base)>>
                                              ELSE addUnitFlagStrings(un, <<>>)))

Square == Chosen("square") /\ Finish(Bare(<<NamedPower(un, 2)>>))
Cube == Chosen("cube") /\ Finish(Bare(<<NamedPower(un, 3)>>))

\* What is left of an equation unit: a name, a number that is long, or else
\* whatever the writer makes of it.
Equation ==
  /\ Chosen("equation")
  /\ LET n == eq_type(un.base)
         urem == clear_flags(UnitDivides(un, Plain(equation_unit(n))))
         cx == Coded("EQXUN", n, 1)
     IN \/ urem = one /\ Finish(Bare(<<cx>>))
        \/ urem.mult # One /\ HasName(urem) /\ Finish(Bare(<<NameOf(urem), cx>>))
        \/ /\ ~OneOrPrefix(urem.mult) /\ ~HasName(urem)
           /\ WriteAround(urem.mult, <<>>, Plain(urem.base), <<cx>>)
        \/ /\ urem # one
           /\ urem.mult = One \/ ~HasName(urem)
           /\ WriteAround(One, <<>>, urem, <<cx>>)

\* A custom unit of some kind: cx is its name, inverted or not.
WriteCustom(cx) ==
  LET urem == clear_flags(UnitDivides(un, ReadTerm(cx)))
  IN IF urem = one THEN Finish(Bare(<<cx>>)) ELSE WriteAround(One, <<>>, urem, <<cx>>)

Custom ==
  /\ Chosen("custom")
  /\ WriteCustom(Coded("CXUN", custom_unit_number(un.base),
                       IF is_custom_unit_inverted(un.base) THEN -1 ELSE 1))

CustomCount ==
  /\ Chosen("custom count")
  /\ WriteCustom(Coded("CXCUN", custom_count_unit_number(un.base),
                       IF is_custom_count_unit_inverted(un.base) THEN -1 ELSE 1))

BaseUnits ==
  /\ Chosen("base units")
  /\ Finish(generateUnitSequence(un.mult, generateRawUnitString(un)))

SITest ==
  /\ Chosen("SI test")
  /\ \E part \in AllSIParts(un) :
       IF part.rest = one THEN Finish(Bare(part.before \o part.after))
       ELSE WriteAround(One, part.before, part.rest, part.after)

PureBase ==
  /\ Chosen("pure base")
  /\ Finish(generateUnitSequence(un.mult, <<NameOf(Plain(un.base))>>))

InversePureBase ==
  /\ Chosen("inverse pure base")
  /\ Finish(Inverted(generateUnitSequence(MultInv(un.mult),
                                          <<NameOf(Plain(Inv(un.base)))>>)))

ProbeOrReduce ==
  /\ Chosen("probe")
  /\ \E text \in FirstOf(<<Probed(un), {Reduced(un)}>>) : Finish(text)

(***************************************************************************)
(* clean_unit_string: two prefixed names that would be read as something   *)
(* else, Gs (gauss) and Mm^3.                                              *)
(***************************************************************************)
IsMm3(term) == <<term.prefix, term.name, term.power>> = <<6, "m", 3>>
Clean(term) ==
  IF term.prefix = 9 /\ term.name = "s" THEN Term("Bs", term.power)
  ELSE IF IsMm3(term) THEN [term EXCEPT !.prefix = 3] ELSE term

clean_unit_string ==
  /\ phase = "cleaning"
  /\ LET Milliards(divides) ==
           Cardinality({i \in DOMAIN before : /\ IsMm3(before[i])
                                              /\ before[i].divides = divides})
     IN num' = MultTimes(num, number(9 * (Milliards(FALSE) - Milliards(TRUE)), 0))
  /\ before' = [i \in DOMAIN before |->
                  [Clean(before[i]) EXCEPT !.divides = before[i].divides]]
  /\ phase' = "done"
  /\ UNCHANGED <<input, un, rule, after>>

to_string_internal ==
  \/ Choose \/ NumberFirst \/ Name \/ InverseName \/ Number \/ Square \/ Cube
  \/ Equation \/ Custom \/ CustomCount \/ BaseUnits \/ SITest
  \/ PureBase \/ InversePureBase \/ ProbeOrReduce

\* Only a text that is done has no next step.
Done == phase = "done" /\ UNCHANGED vars

Next == to_string_internal \/ clean_unit_string \/ Done

Spec == Init /\ [][Next]_vars

(***************************************************************************)
(* Properties.                                                             *)
(***************************************************************************)
\* The text is a number and terms that the reader has names for.
TypeOK ==
  /\ num \in [class : {"normal", "INF", "NaN", "0"}, neg : BOOLEAN, ten : Int, sixty : Int]
  /\ \A i \in DOMAIN before : /\ before[i].prefix \in SIPrefix \cup {0}
                              /\ before[i].power # 0
                              /\ Known(before[i]).base \in UnitDataType
  /\ phase \in {"choosing", "writing", "cleaning", "done"}

\* The reader converts the text back to the unit
\* (docs/user-guide/to_string.rst).
ReadsBack == phase = "done" => Read(Text(num, before)) = input

\* The recursion ends: the writer calls itself for a unit with fewer base
\* units, or of a simpler kind, than the one that it was called for.
Kind(u) == IF ~IsNormal(u.mult) \/ ~IsFloat(u.mult) THEN 3
           ELSE IF "equation" \in u.base.flags THEN 2
           ELSE IF is_custom_unit(u.base) \/ is_custom_count_unit(u.base) THEN 1
           ELSE 0
CallsAreSmaller ==
  [][un' # un => \/ Kind(un') < Kind(un)
                 \/ Kind(un') = Kind(un) /\ unit_type_count(un') < unit_type_count(un)]_vars

(***************************************************************************)
(* What ReadsBack takes for granted of the tables, for units without       *)
(* flags: a name is read as the unit that it is the name of, and what the  *)
(* rewriting puts for another name is the same unit.                       *)
(***************************************************************************)
NameTerm == [divides : {FALSE}, prefix : {0}, name : Vocabulary, code : Int, power : Int \ {0}]
Names(term, u) ==
  term \in NameTerm /\ Known(term) \in FlagFree /\ UnitPow(Known(term), term.power) = u
NamedUnit == {p \in [unit : FlagFree, term : NameTerm] : Names(p.term, p.unit)}

Axis(b) == Plain([Dimensionless EXCEPT !.exp[b] = 1])
TenTo(n, u) == UnitTimes(precise_unit(number(n, 0), Dimensionless), u)

TablesReadBack ==
  /\ {UserName, TestUnits, PowerUnits} \subseteq Seq(NamedUnit)
  /\ SITestUnits \in Seq({p \in NamedUnit : p.term.power = 1})
  /\ \A u \in BaseNamed : u \in FlagFree => Names(BaseName[u], u)
  /\ \A i \in DOMAIN RawNames : Names(Term(RawNames[i][2], 1), Axis(RawNames[i][1]))
  /\ Names(Term("Hz", 1), UnitInv(Axis("second")))
  /\ Names(Term("Bs", 1), TenTo(9, Axis("second")))
  /\ Names(Term("L", 1), TenTo(-3, UnitPow(Axis("meter"), 3)))
  /\ Names(Term("g", 1), TenTo(-3, Axis("kilogram")))
  /\ Names(Term("V", 1), volt) /\ volt.mult = One
  /\ Names(Term("W", 1), watt) /\ watt.mult = One
  /\ DOMAIN KgTail = {"kg"}
  /\ \A clash \in Clash : clash[1] # 0
=============================================================================
