---------------------------- MODULE MCUnitWriter -----------------------------
(***************************************************************************)
(* UnitWriter for TLC: the widths of the 4-byte unit_data, the part of the *)
(* tables whose multipliers are powers of ten and sixty, two user defined  *)
(* names, and units that between them reach every rule.                    *)
(***************************************************************************)
EXTENDS UnitWriter, TLC

MCHalf ==
  [meter |-> 8, second |-> 8, kilogram |-> 4, ampere |-> 4, kelvin |-> 4, radian |-> 4,
   mole |-> 2, candela |-> 2, currency |-> 2, count |-> 2]

U(ten, sixty, m, kg, s, A) ==
  precise_unit(number(ten, sixty),
    dim([meter |-> m, kilogram |-> kg, second |-> s, ampere |-> A], {}))
Of(base, flags) == Plain(dim(base, flags))

BaseMeans ==
  "m" :> U(0, 0, 1, 0, 0, 0) @@ "kg" :> U(0, 0, 0, 1, 0, 0)
  @@ "s" :> U(0, 0, 0, 0, 1, 0) @@ "A" :> U(0, 0, 0, 0, 0, 1)
  @@ "K" :> Of([kelvin |-> 1], {}) @@ "mol" :> Of([mole |-> 1], {})
  @@ "cd" :> Of([candela |-> 1], {}) @@ "item" :> Of([count |-> 1], {})
  @@ "$" :> Of([currency |-> 1], {}) @@ "rad" :> Of([radian |-> 1], {})
  @@ "pu" :> Of(<<>>, {"per_unit"}) @@ "flag" :> Of(<<>>, {"i_flag"})
  @@ "eflag" :> Of(<<>>, {"e_flag"}) @@ "degC" :> Of([kelvin |-> 1], {"e_flag"})
  @@ "defunit" :> Of(<<>>, {"per_unit", "i_flag"})
  @@ "ERROR" :> Plain(ErrorData)

NamedMeans ==
  "Hz" :> U(0, 0, 0, 0, -1, 0) @@ "N" :> U(0, 0, 1, 1, -2, 0)
  @@ "Pa" :> U(0, 0, -1, 1, -2, 0) @@ "J" :> U(0, 0, 2, 1, -2, 0)
  @@ "W" :> U(0, 0, 2, 1, -3, 0) @@ "V" :> U(0, 0, 2, 1, -3, -1)
  @@ "C" :> U(0, 0, 0, 0, 1, 1) @@ "F" :> U(0, 0, -2, -1, 4, 2)
  @@ "S" :> U(0, 0, -2, -1, 3, 2) @@ "Wb" :> U(0, 0, 2, 1, -2, -1)
  @@ "T" :> U(0, 0, 0, 1, -2, -1) @@ "H" :> U(0, 0, 2, 1, -2, -2)
  @@ "Sv" :> U(0, 0, 2, 0, -2, 0) @@ "kat" :> Of([mole |-> 1, second |-> -1], {})
  @@ "strain" :> Of([meter |-> 1], {"per_unit"})
  @@ "puV" :> Of([meter |-> 2, kilogram |-> 1, second |-> -3, ampere |-> -1], {"per_unit"})
  @@ "puHz" :> Of([second |-> -1], {"per_unit"})

ScaledMeans ==
  "cm" :> U(-2, 0, 1, 0, 0, 0) @@ "dm" :> U(-1, 0, 1, 0, 0, 0)
  @@ "mm" :> U(-3, 0, 1, 0, 0, 0) @@ "nm" :> U(-9, 0, 1, 0, 0, 0)
  @@ "km" :> U(3, 0, 1, 0, 0, 0) @@ "ms" :> U(-3, 0, 0, 0, 1, 0)
  @@ "min" :> U(0, 1, 0, 0, 1, 0) @@ "hr" :> U(0, 2, 0, 0, 1, 0)
  @@ "Bs" :> U(9, 0, 0, 0, 1, 0) @@ "Ah" :> U(0, 2, 0, 0, 1, 1)
  @@ "Wh" :> U(0, 2, 2, 1, -2, 0) @@ "kWh" :> U(3, 2, 2, 1, -2, 0)
  @@ "MWh" :> U(6, 2, 2, 1, -2, 0) @@ "kHz" :> U(3, 0, 0, 0, -1, 0)
  @@ "kW" :> U(3, 0, 2, 1, -3, 0) @@ "mW" :> U(-3, 0, 2, 1, -3, 0)
  @@ "MW" :> U(6, 0, 2, 1, -3, 0) @@ "GW" :> U(9, 0, 2, 1, -3, 0)
  @@ "kV" :> U(3, 0, 2, 1, -3, -1) @@ "mA" :> U(-3, 0, 0, 0, 0, 1)
  @@ "bar" :> U(5, 0, -1, 1, -2, 0) @@ "L" :> U(-3, 0, 3, 0, 0, 0)
  @@ "mL" :> U(-6, 0, 3, 0, 0, 0) @@ "dL" :> U(-4, 0, 3, 0, 0, 0)
  @@ "ZL" :> U(18, 0, 3, 0, 0, 0) @@ "g" :> U(-3, 0, 0, 1, 0, 0)
  @@ "mg" :> U(-6, 0, 0, 1, 0, 0) @@ "t" :> U(3, 0, 0, 1, 0, 0)
  @@ "are" :> U(2, 0, 2, 0, 0, 0) @@ "hectare" :> U(4, 0, 2, 0, 0, 0)
  @@ "(1000MF)" :> U(9, 0, -2, -1, 4, 2) @@ "(1000YT)" :> U(27, 0, 0, 1, -2, -1)
  @@ "(1000000YT)" :> U(30, 0, 0, 1, -2, -1) @@ "(A^-2*pJ)" :> U(-12, 0, 2, 1, -2, -2)
  @@ "%" :> U(-2, 0, 0, 0, 0, 0) @@ "ppm" :> U(-6, 0, 0, 0, 0, 0)
  @@ "M$" :> precise_unit(number(6, 0), dim([currency |-> 1], {}))

\* A speed, and a container of 60 liters; "gx" is not a unit.
UserMeans == "knurl" :> U(1, 1, 1, 0, -1, 0) @@ "keg" :> U(-3, 1, 3, 0, 0, 0)
KgUserMeans == "kgx" :> U(0, 0, 0, 1, 0, 1) @@ "gx" :> Plain(ErrorData)
MCMeans == BaseMeans @@ NamedMeans @@ ScaledMeans @@ UserMeans @@ KgUserMeans

UserTerm(name) == [unit |-> MCMeans[name], term |-> Term(name, 1)]
MCUserName == <<UserTerm("knurl"), UserTerm("keg")>>
MCKgUserName == <<UserTerm("knurl"), UserTerm("kgx")>>
MCKgTail == "kg" :> "g"
MCKgxTail == "kg" :> "g" @@ "kgx" :> "gx"

\* Wh, GW and the item are read, and written by other tables.
Tabled == DOMAIN (BaseMeans @@ NamedMeans @@ ScaledMeans) \ {"Wh", "GW", "item"}
TabledPowers == {Term("m", 2), Term("m", 3), Term("km", 2), Term("degC", 2)}
                \cup {Term(name, 1) : name \in Tabled}
RECURSIVE Naming(_)
Naming(terms) ==
  IF terms = {} THEN <<>>
  ELSE LET term == CHOOSE t \in terms : TRUE
       IN (UnitPow(MCMeans[term.name], term.power) :> term) @@ Naming(terms \ {term})
MCBaseName == Naming(TabledPowers)

Entry(term) == [unit |-> UnitPow(MCMeans[term.name], term.power), term |-> term]
Entries(names) == [i \in DOMAIN names |-> Entry(Term(names[i], 1))]
MCTestUnits ==
  <<Entry(Term("s", 1)), Entry(Term("s", 2))>>
  \o Entries(<<"m", "kg", "mol", "$", "rad", "A", "K", "min", "hr", "L", "km", "V", "W", "MW">>)
MCPowerUnits == Entries(<<"s", "m", "rad", "km">>)
MCSITestUnits == Entries(<<"Ah", "Wh">>)

\* gauss, gram-force, Rydberg..., quart, acidity, and what Mm^3 is read as.
MCClash ==
  {<<6, "m", 3>>}
  \cup {<<pair[1], pair[2], n>> :
          pair \in {<<9, "s">>, <<9, "F">>, <<27, "T">>, <<30, "T">>, <<-12, "H">>},
          n \in {-3, -2, -1, 1, 2, 3}}

(***************************************************************************)
(* The units that are written.                                             *)
(***************************************************************************)
Tens == {3 * k : k \in -10..10} \cup {-5, -4, -2, -1, 1, 2, 4, 5, 36, 45, -42}
Mults == {number(ten, 0) : ten \in Tens}
         \cup {number(ten, sixty) : ten \in {-2, 0, 3}, sixty \in {-2, 1, 2}}
         \cup {[number(ten, 0) EXCEPT !.neg = TRUE] : ten \in {0, 3, 6}}
FewMults == {number(ten, 0) : ten \in {-12, 0, 9}} \cup {number(0, 1)}
Scaled(mults, units) == {[u EXCEPT !.mult = MultTimes(@, m)] : u \in units, m \in mults}
Flagging(units, flags) == {[u EXCEPT !.base.flags = @ \cup f] : u \in units, f \in flags}

PowersOf(names, powers) == {UnitPow(MCMeans[name], n) : name \in names, n \in powers}
Products(us, vs) == {UnitTimes(u, v) : u \in us, v \in vs}

SinglePowers == {Plain(dim(b :> n, {})) : b \in Base, n \in -4..4}
Singles == {u \in SinglePowers : InFields(u.base)}
Named == PowersOf({"F", "T", "H", "V", "W", "Pa", "Wh", "Ah", "C", "knurl", "keg"}, {1, -1})
Simple == PowersOf({"s", "m", "kg", "A", "K", "min"}, {1, -1})
          \cup PowersOf({"m", "s", "knurl"}, {-2, 3})
Triples == {UnitTimes(u, UnitTimes(v, w)) :
              u \in PowersOf({"s", "m", "kg"}, {1, 2, 3, -3}),
              v \in PowersOf({"A", "K"}, {1, -2}),
              w \in PowersOf({"mol", "$"}, {1, -1})}
AllFlags == {{"per_unit"}, {"i_flag"}, {"e_flag"}, {"per_unit", "i_flag"},
             {"i_flag", "e_flag"}, {"per_unit", "e_flag"}}
CustomOnes == {Plain(custom_unit(n)) : n \in {0, 37, 448, 511, 762, 1023}}
              \cup {Plain(custom_count_unit(n)) : n \in {0, 2, 7, 12, 15}}
CustomBy == {one} \cup PowersOf({"m"}, {-1, -3}) \cup PowersOf({"s", "kg", "hr"}, {-1})
Customs == LET made == Products(CustomOnes, CustomBy)
           IN made \cup {UnitInv(u) : u \in made}
Equations == {Plain(equation_unit(n)) : n \in {0, 2, 3, 10, 16, 22, 31}}
EquationBy == {one} \cup PowersOf({"V", "W", "mW", "kg", "K", "keg"}, {1}) \cup PowersOf({"m", "s"}, {-1, 2})

MCInput ==
  {Scaled(Mults, Singles \cup {one}),
   Scaled(FewMults, Products(Named, Simple \cup {one})),
   Scaled({number(-12, 0), One}, Triples),
   Scaled(FewMults, Flagging(PowersOf({"m", "s", "V", "Wh", "K"}, {1, -1, 2})
                            \cup {one}, AllFlags)),
   Scaled({number(0, 0), number(3, 0), number(-2, 0), number(1, 1)}, Customs),
   Scaled(FewMults, Products(Equations, EquationBy)),
   {[u EXCEPT !.mult = special(class, FALSE)] :
      u \in Singles \cup Named \cup {one, Plain(ErrorData)}, class \in {"INF", "NaN", "0"}},
   {[MCMeans["m"] EXCEPT !.mult = special("INF", TRUE)]}}

\* A user defined unit whose name begins with "kg".
MCKgInput == {Scaled(Mults, PowersOf({"kgx", "m", "kg", "s"}, {1, -1, 2}))}

\* The tables read back, but for a user's name that begins with "kg".
ASSUME MCTablesReadBack == TablesReadBack <=> KgTail = MCKgTail
=============================================================================
