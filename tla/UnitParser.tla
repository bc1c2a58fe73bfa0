------------------------------ MODULE UnitParser ------------------------------
(***************************************************************************)
(* The recursion of the string reader (units/units.cpp): the functions     *)
(* that unit_from_string_internal reaches call it again on pieces of the   *)
(* string, or on the string rewritten, and the conversion flags, which are *)
(* passed down by value, carry the counters that bound this.               *)
(*                                                                         *)
(* A behaviour follows one chain of nested calls from the client's call    *)
(* down.  Every function tries one reading after another until one gives a *)
(* unit, so which call is its last depends on the string alone, and any of *)
(* the calls the flags allow can be it.                                    *)
(*                                                                         *)
(* A string is its size: its characters after cleaning, except what        *)
(* cleaning itself inserts: '^', a '*' between two others and the 1 of a   *)
(* leading "1/"; before the reader, in measurement_from_string, no '*' is  *)
(* counted.  Cleaning makes its code replacements once; after that it does *)
(* not make a string larger.  Calls on the empty string and on "1" return  *)
(* one at once and are left out.                                           *)
(***************************************************************************)
EXTENDS Naturals

CONSTANTS
  MaxSize,     \* the longest string; code accepts 1024 characters
  Given        \* the flags that clients pass

VARIABLES
  fn,        \* the function called last
  size,      \* the size of its string
  flags,     \* its match_flags
  splits,    \* calls of tryUnitPartitioning in progress, made since the
             \* flags were last set afresh
  outer      \* those in progress below the call of default_unit that set
             \* them afresh

vars == <<fn, size, flags, splits, outer>>
layers == <<splits, outer>>

Function == {"measurement_from_string", "default_unit", "unit_from_string_internal"}

(***************************************************************************)
(* The part of match_flags that recursion depends on.  A counter of three  *)
(* bits limits by its highest bit.  Above the counter `partition` is       *)
(* skip_si_prefix_check, which is kept with it as its fourth bit.  What    *)
(* carries out of that clears skip_code_replacements, which each call sets *)
(* again after its own cleaning, and adds one to minimum_partition_size,   *)
(* the smallest piece that is split.  Neither is kept here: pieces of any  *)
(* size can be split, and a string that cleaning makes larger once more,   *)
(* after sixteen nested leading numbers, is left out.                      *)
(***************************************************************************)
Counter == 0..7
FlagsType == [recursion : Counter, not_first_pass : BOOLEAN,
              per_operator : Counter, no_locality_modifiers : BOOLEAN,
              no_of_operator : BOOLEAN, commodity_check : Counter,
              no_default_units : BOOLEAN, no_addition : BOOLEAN,
              partition : 0..15]

\* "Nothing at" the middle bit of a counter: clients set the other two.
ASSUME SizeAssumption == MaxSize \in Nat
ASSUME GivenAssumption ==
         /\ Given \subseteq FlagsType
         /\ \A f \in Given : /\ f.recursion \in {0, 1, 4, 5}
                             /\ f.per_operator \in {0, 1, 4, 5}
                             /\ f.commodity_check \in {0, 1, 4, 5}

no_recursion(f) == f.recursion >= 4
no_per_operators(f) == f.per_operator >= 4
no_commodities(f) == f.commodity_check >= 4
skip_partition_check(f) == (f.partition \div 4) % 2 = 1

AddPartitionCheck(f) == [f EXCEPT !.partition = (@ + 1) % 16]
SkipPartition(f) == IF skip_partition_check(f) THEN f
                    ELSE [f EXCEPT !.partition = @ + 4]
RecursionLess(f, n) == [f EXCEPT !.recursion = @ - n]

recursion_modifier(f) == IF no_recursion(f) THEN 0 ELSE 1

\* Mutant: the recursion budget is not spent.
EnteredUnspent(f) ==
  IF f.not_first_pass THEN f
  ELSE AddPartitionCheck([f EXCEPT !.not_first_pass = TRUE])

\* match_flags once unit_from_string_internal has made its own changes.
Entered(f) ==
  LET g == [f EXCEPT !.recursion = @ + recursion_modifier(f)]
  IN  IF f.not_first_pass THEN g
      ELSE AddPartitionCheck([g EXCEPT !.not_first_pass = TRUE])

\* A '+' in the string, which did not separate two units, forbids addition
\* in what is tried later.
AfterAddition(f) == LET g == Entered(f) IN {g, [g EXCEPT !.no_addition = TRUE]}

(***************************************************************************)
(* default_unit starts afresh with no flag but no_default_units: its       *)
(* caller's are lost.                                                      *)
(***************************************************************************)
NoFlags ==
  [recursion |-> 0, not_first_pass |-> FALSE, per_operator |-> 0,
   no_locality_modifiers |-> FALSE, no_of_operator |-> FALSE,
   commodity_check |-> 0, no_default_units |-> FALSE, no_addition |-> FALSE,
   partition |-> 0]

AfreshUnmarked == NoFlags   \* mutant: no_default_units is not set
Afresh == [NoFlags EXCEPT !.no_default_units = TRUE]

-----------------------------------------------------------------------------
Init == /\ fn \in Function
        /\ size \in 1..MaxSize
        /\ flags \in IF fn = "default_unit" THEN {Afresh} ELSE Given
        /\ splits = 0 /\ outer = 0

Shorter == 1..(size - 1)
Rewritten == 1..MaxSize

Reading == fn = "unit_from_string_internal"
Read(sizes, f) == /\ fn' = "unit_from_string_internal"
                  /\ size' \in sizes
                  /\ flags' = f

Return == /\ fn # "returned"
          /\ fn' = "returned"
          /\ UNCHANGED <<size, flags, layers>>

(***************************************************************************)
(* measurement_from_string reads what follows a leading number, or calls   *)
(* itself on what follows a currency sign.                                 *)
(***************************************************************************)
Measure == /\ fn = "measurement_from_string"
           /\ Read(Rewritten, flags)
           /\ UNCHANGED layers

Currency == /\ fn = "measurement_from_string"
            /\ size' \in Shorter
            /\ UNCHANGED <<fn, flags, layers>>

\* The caller's splits are still in progress, but no longer in the flags.
CallDefault == /\ fn' = "default_unit"
               /\ size' \in Shorter
               /\ flags' = Afresh
               /\ splits' = 0 /\ outer' = outer + splits

DefaultOfPart == /\ fn = "default_unit"
                 /\ size' \in Shorter
                 /\ UNCHANGED <<fn, flags, layers>>

DefaultUnit == /\ fn = "default_unit"
               /\ Read(Rewritten, Afresh)
               /\ UNCHANGED layers

(***************************************************************************)
(* What unit_from_string_internal tries whatever the recursion budget.     *)
(***************************************************************************)
LeadingNumber ==
  /\ Reading
  /\ LET g == Entered(flags)
     IN  Read(Shorter, AddPartitionCheck(g)) \/ Read(Shorter, g)
  /\ UNCHANGED layers

checkUnitAddition == /\ Reading
                     /\ ~flags.no_addition
                     /\ Read(Shorter, Entered(flags))
                     /\ UNCHANGED layers

\* The operands of '*' and '/' do not spend any recursion.
Operands ==
  /\ Reading
  /\ \E g \in AfterAddition(flags) :
       Read(Shorter, RecursionLess(g, recursion_modifier(flags)))
  /\ UNCHANGED layers

\* "pu*" or "%*" and the name of a quantity.
PerUnitOf == /\ Reading
             /\ ~flags.no_default_units
             /\ CallDefault

\* As for operands, but the modifier is computed again from the new flags.
unit_to_the_power_of ==
  /\ Reading
  /\ \E g \in AfterAddition(flags) :
       Read(Shorter, RecursionLess(g, recursion_modifier(g)))
  /\ UNCHANGED layers

Commoditized(f) == [f EXCEPT !.commodity_check = @ + 4]

commoditizedUnit ==
  /\ Reading
  /\ \E g \in AfterAddition(flags) :
       ~no_commodities(g) /\ Read(Shorter, Commoditized(g))
  /\ UNCHANGED layers

(***************************************************************************)
(* What it tries while there is some budget.                               *)
(***************************************************************************)
Unlimited(f) == AfterAddition(f)   \* mutant: no_recursion is not tested
WithinBudget(f) == {g \in AfterAddition(f) : ~no_recursion(g)}

\* "m2" is read as "m^2".
TwoCharacters == /\ Reading
                 /\ size <= 2
                 /\ \E g \in WithinBudget(flags) : Read({size}, g)
                 /\ UNCHANGED layers

LowerCaseFirst ==
  /\ Reading
  /\ \E g \in WithinBudget(flags) : Read({size}, SkipPartition(g))
  /\ UNCHANGED layers

\* '-' and '_' are taken for multiplications.
checkMultiplierCharacter ==
  /\ Reading
  /\ \E g \in WithinBudget(flags) : Read(1..size, SkipPartition(g))
  /\ UNCHANGED layers

\* A number appears when brackets and dashes, or underscores, are removed.
UncoveredNumber ==
  /\ Reading
  /\ \E g \in WithinBudget(flags) :
       Read(Rewritten, g) \/ Read(Shorter, SkipPartition(g))
  /\ UNCHANGED layers

checkPerModifications ==
  /\ Reading
  /\ \E g \in WithinBudget(flags) :
       /\ ~no_per_operators(g)
       /\ Read(Shorter, [g EXCEPT !.per_operator = @ + 1])
  /\ UNCHANGED layers

wordModifiers ==
  /\ Reading
  /\ \E g \in WithinBudget(flags) : Read(Rewritten, g)
  /\ UNCHANGED layers

\* Mutant: no_commodities is not tested before "of".
OfCommodityUntested ==
  /\ Reading
  /\ \E g \in WithinBudget(flags) :
       /\ ~g.no_of_operator
       /\ Read(Shorter, Commoditized([g EXCEPT !.commodity_check = @ + 1]))
  /\ UNCHANGED layers

OfCommodity ==
  /\ Reading
  /\ \E g \in WithinBudget(flags) :
       /\ ~no_commodities(g) /\ ~g.no_of_operator
       /\ Read(Shorter, Commoditized([g EXCEPT !.commodity_check = @ + 1]))
  /\ UNCHANGED layers

\* Its second try, on the rest of the string, passes the same flags.
localityModifiers ==
  /\ Reading
  /\ \E g \in WithinBudget(flags) :
       /\ ~g.no_locality_modifiers
       /\ Read(Rewritten, [SkipPartition(g) EXCEPT !.no_locality_modifiers = TRUE,
                                                   !.no_of_operator = TRUE])
  /\ UNCHANGED layers

checkSpecialUnits ==
  /\ Reading
  /\ \E g \in WithinBudget(flags) :
       /\ ~skip_partition_check(g)
       /\ \/ Read(Shorter, g) /\ UNCHANGED layers
          \/ ~g.no_default_units /\ CallDefault

tryUnitPartitioning ==
  /\ Reading
  /\ \E g \in WithinBudget(flags) :
       /\ ~skip_partition_check(g)
       /\ LET p == AddPartitionCheck(g)
          IN  Read(Shorter, p) \/ Read(Shorter, SkipPartition(p))
  /\ splits' = splits + 1
  /\ UNCHANGED outer

-----------------------------------------------------------------------------
Next == \/ Return
        \/ Measure \/ Currency \/ DefaultOfPart \/ DefaultUnit
        \/ LeadingNumber \/ checkUnitAddition \/ Operands \/ PerUnitOf
        \/ unit_to_the_power_of \/ commoditizedUnit
        \/ TwoCharacters \/ LowerCaseFirst \/ checkMultiplierCharacter
        \/ UncoveredNumber \/ checkPerModifications \/ wordModifiers
        \/ OfCommodity \/ localityModifiers \/ checkSpecialUnits
        \/ tryUnitPartitioning

\* The thread that reads a string goes on until the call returns.
Spec == Init /\ [][Next]_vars /\ WF_vars(Next)

-----------------------------------------------------------------------------
\* The call is one the code makes, and the counters for recursion, "per" and
\* commodities never carry into the flags above them (not_first_pass,
\* no_locality_modifiers and no_default_units), which are in the same word.
TypeOK == /\ fn \in Function \cup {"returned"}
          /\ size \in 1..MaxSize
          /\ flags \in FlagsType
          /\ splits \in Nat /\ outer \in Nat

\* Each call that reading a string makes has spent more of the recursion
\* budget, or has a shorter string; only a default unit starts afresh, and it
\* does once.  So no string makes the functions call each other for ever.
Rank == IF Reading THEN 1 ELSE 0

CallsDescend ==
  [][fn' # "returned" =>
       \/ ~flags.no_default_units /\ flags'.no_default_units
       \/ /\ flags'.no_default_units = flags.no_default_units
          /\ \/ Rank = 0 /\ Rank' = 1
             \/ Rank' = Rank /\ flags'.recursion > flags.recursion
             \/ Rank' = Rank /\ flags'.recursion = flags.recursion /\ size' < size
    ]_vars

\* "maybe some things got merged together so lets try splitting them up in
\* various ways but only allow 3 layers deep" (unit_from_string_internal).
\* The layers in progress are at most three with the flags that the client
\* passed, and three more once default_unit has set them afresh, to read the
\* unit of a quantity that the string names; that happens at most once.
\* The partition counter alone does not see to it: leading numbers increment
\* it without a test until it is zero again.
ThreeLayersOfSplits == splits <= 3 /\ outer <= 3

\* Reading any string ends.
ReadingEnds == <>(fn = "returned")

=============================================================================
