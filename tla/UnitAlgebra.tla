----------------------------- MODULE UnitAlgebra -----------------------------
(***************************************************************************)
(* A calculation on units: a register holding a precise_unit, to which a   *)
(* client applies the operations of the library in any order.              *)
(*                                                                         *)
(* Beside the register, two history variables record the calculation over  *)
(* unbounded integers: the exponents it should give, and whether the       *)
(* predicates of units_util.hpp, asked before every step, have all said    *)
(* that the step does not overflow.  A step that has no unbounded          *)
(* counterpart (an invalid root, a power of a square root of hertz, a root *)
(* of exponents that already wrapped) restarts the record from what the    *)
(* register then holds, unchecked.                                         *)
(***************************************************************************)
EXTENDS PreciseUnit

CONSTANTS
  Operand,     \* the units a calculation may name
  Power,       \* the powers and roots it may take
  ExactBound   \* bound on the recorded exponents, for model checking

ASSUME OperandAssumption ==
         \A u \in Operand : u \in PreciseUnitType /\ InFields(u.base)
ASSUME PowerAssumption == Power \subseteq Int
ASSUME ExactBoundAssumption == ExactBound \in Nat

SettableFlag == Flag \ {"equation"}

VARIABLES
  reg,      \* the unit the calculation has reached
  exact,    \* its exponents over the unbounded integers
  checked   \* no predicate has reported an overflow so far

vars == <<reg, exact, checked>>

Within(e) == \A b \in Base : -ExactBound <= e[b] /\ e[b] <= ExactBound

Init == /\ reg = one
        /\ exact = one.base.exp
        /\ checked = TRUE

Restart(u) == /\ reg' = u
              /\ exact' = u.base.exp
              /\ checked' = FALSE

Compute(u, e, overflows) == /\ Within(e)
                            /\ reg' = u
                            /\ exact' = e
                            /\ checked' = (checked /\ ~overflows)

Load(u) == /\ reg' = u
           /\ exact' = u.base.exp
           /\ checked' = TRUE

DoTimes(u) ==
  Compute(UnitTimes(reg, u), [b \in Base |-> exact[b] + u.base.exp[b]],
          times_overflows(reg.base, u.base))

DoDivides(u) ==
  Compute(UnitDivides(reg, u), [b \in Base |-> exact[b] - u.base.exp[b]],
          divides_overflows(reg.base, u.base))

DoInv ==
  Compute(UnitInv(reg), [b \in Base |-> -exact[b]], inv_overflows(reg.base))

DoPow(n) ==
  IF rootHertzModifier(reg.base, n) # 0
  THEN Restart(UnitPow(reg, n))
  ELSE Compute(UnitPow(reg, n), [b \in Base |-> exact[b] * n],
               pow_overflows(reg.base, n))

DoRoot(n) ==
  IF /\ checked /\ n # 0 /\ ~(reg.mult = "neg" /\ IsEven(n))
     /\ hasValidRoot(reg.base, n)
  THEN Compute(UnitRoot(reg, n),
               [b \in Base |-> ExactQuotient(exact[b], n)],
               n = -1 /\ inv_overflows(reg.base))
  ELSE Restart(UnitRoot(reg, n))

\* The setters and the add_ and clear_ functions leave the exponents alone.
Reflag(flags) == /\ reg' = UnitWithFlags(reg, flags)
                 /\ UNCHANGED <<exact, checked>>

set_flags(flags) == Reflag(flags \cup (reg.base.flags \cap {"equation"}))
clear_flags == Reflag({})
add_flag(f) == Reflag(reg.base.flags \cup {f})
clear_flag(f) == Reflag(reg.base.flags \ {f})

SetCommodity(c) == /\ reg' = [reg EXCEPT !.commodity = c]
                   /\ UNCHANGED <<exact, checked>>

Next == \/ \E u \in Operand : Load(u) \/ DoTimes(u) \/ DoDivides(u)
        \/ DoInv
        \/ \E n \in Power : DoPow(n) \/ DoRoot(n)
        \/ \E flags \in SUBSET SettableFlag : set_flags(flags)
        \/ clear_flags
        \/ \E f \in SettableFlag : add_flag(f) \/ clear_flag(f)
        \/ \E c \in SUBSET CommodityBits : SetCommodity(c)

Spec == Init /\ [][Next]_vars

-----------------------------------------------------------------------------
(***************************************************************************)
(* Properties                                                              *)
(***************************************************************************)

\* The register is a precise_unit whose exponents fit their fields.
TypeOK == /\ reg \in PreciseUnitType
          /\ InFields(reg.base)
          /\ exact \in [Base -> Int]
          /\ checked \in BOOLEAN

\* However many steps overflow, the fields hold the wrapped image of the
\* exact exponents: unit_data is the integers modulo the field size, so an
\* overflow in the middle of a calculation does no harm if the end fits.
WrapsToExact == \A b \in Base : reg.base.exp[b] = Wrap(b, exact[b])

\* A calculation every step of which the predicates of units_util.hpp let
\* through has the exponents of the same calculation over the integers.
CheckedIsExact == checked => reg.base.exp = exact

\* (a*b)/b has a's exponents even when a*b overflows; it has a's commodity
\* unless the two commodities share a bit, and a's i_flag and e_flag unless
\* both have the e_flag.
TimesThenDividesCancels ==
  \A u \in Operand :
    LET back == UnitDivides(UnitTimes(reg, u), u)
    IN  /\ back.base.exp = reg.base.exp
        /\ reg.commodity \cap u.commodity = {} => back.commodity = reg.commodity
        /\ "e_flag" \notin reg.base.flags \cap u.base.flags =>
              back.base.flags \cap RootHertzFlags
                = reg.base.flags \cap RootHertzFlags

\* reg * reg * ... * reg, with n factors.
Repeated[n \in Nat] ==
  IF n <= 1 THEN reg ELSE UnitTimes(Repeated[n - 1], reg)

\* A power of one or more is the repeated product, flags and commodity
\* included; the base units of a negative power are those of the inverse of
\* the product, on fields that wrap.  Even powers of what looks like a square
\* root of hertz are excepted, and pow(0) is no product.
PowIsRepeatedTimes ==
  \A n \in Power \ {0} :
    ~(IsEven(n) /\ IsRootHertzLike(reg.base)) =>
      IF n > 0 THEN UnitPow(reg, n) = Repeated[n]
               ELSE UnitPow(reg, n).base = Inv(Repeated[-n].base)

\* root(n) recovers what pow(n) was applied to when the predicate said that
\* the power fits, up to the flags an even power drops.
RootUndoesPow ==
  \A n \in Power \ {0} :
    /\ ~pow_overflows(reg.base, n)
    /\ rootHertzModifier(reg.base, n) = 0
    /\ "equation" \notin reg.base.flags
    => Root(Pow(reg.base, n), n)
         = [reg.base EXCEPT !.flags = PowFlags(reg.base.flags, n)]

\* inv() is pow(-1) on the base units, and is its own inverse; only the
\* commodity code with every bit set does not come back.
InvLaws ==
  /\ Inv(reg.base) = Pow(reg.base, -1)
  /\ LET back == UnitInv(UnitInv(reg))
     IN  /\ back.base = reg.base
         /\ reg.commodity # CommodityBits => back = reg

\* A NaN multiplier marks a failed conversion: no arithmetic loses it but a
\* power or root of zero.
NaNStays ==
  [][IsNaN(reg) => \/ IsNaN(reg')
                   \/ \E u \in Operand : Load(u)
                   \/ (0 \in Power /\ (DoPow(0) \/ DoRoot(0)))]_vars

\* The error unit_data is a fixed point of inv, of the odd powers (its
\* exponents wrap back to themselves) and of every root.
ErrorStays ==
  [][/\ reg.base = ErrorData
     /\ \/ DoInv
        \/ \E n \in Power : \/ ~IsEven(n) /\ DoPow(n)
                            \/ n # 0 /\ DoRoot(n)
     => reg'.base = ErrorData]_vars

=============================================================================
