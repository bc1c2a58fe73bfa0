-------------------------- MODULE UnitParser_proof --------------------------
(***************************************************************************)
(* For any bound on the length of strings and any flags clients may pass:  *)
(* the counters stay in their bits, every call descends, and strings are   *)
(* split three layers deep for each time the flags are set.                *)
(*                                                                         *)
(* TypeOK is not inductive: the commodity counter stays below eight only   *)
(* because it never is two or three when "of" adds five to it.  Splits are *)
(* bounded by the recursion budget, of which each layer spends one, and    *)
(* those below a call of default_unit by the mark it leaves in the flags.  *)
(***************************************************************************)
EXTENDS UnitParser, TLAPS

Legal(f) == f \in FlagsType /\ f.commodity_check \in {0, 1, 4, 5, 6}

IInv == /\ TypeOK
        /\ Legal(flags)
        /\ fn = "default_unit" => flags = Afresh /\ splits = 0
        /\ splits <= flags.recursion
        /\ splits <= 3
        /\ outer <= 3
        /\ outer > 0 => flags.no_default_units

-----------------------------------------------------------------------------
\* Adding to the partition counter gives legal flags, the same otherwise.
LEMMA AddPartitionLegal ==
  ASSUME NEW f, Legal(f)
  PROVE  /\ Legal(AddPartitionCheck(f))
         /\ AddPartitionCheck(f).recursion = f.recursion
         /\ AddPartitionCheck(f).no_default_units = f.no_default_units
  <1>1. f.partition \in 0..15
    BY DEF Legal, FlagsType
  <1>2. (f.partition + 1) % 16 \in 0..15
    BY <1>1
  <1> QED
    BY <1>2 DEF Legal, FlagsType, AddPartitionCheck

\* So does setting its highest bit.
LEMMA SkipPartitionLegal ==
  ASSUME NEW f, Legal(f)
  PROVE  /\ Legal(SkipPartition(f))
         /\ SkipPartition(f).recursion = f.recursion
         /\ SkipPartition(f).no_default_units = f.no_default_units
  <1>1. f.partition \in 0..15
    BY DEF Legal, FlagsType
  <1>2. ~skip_partition_check(f) => f.partition + 4 \in 0..15
    BY <1>1 DEF skip_partition_check
  <1> QED
    BY <1>2 DEF Legal, FlagsType, SkipPartition

\* The flags of default_unit are legal.
LEMMA AfreshLegal ==
  Legal(Afresh) /\ Afresh.no_default_units /\ Afresh.recursion = 0
  <1>1. /\ NoFlags \in FlagsType
        /\ NoFlags.recursion = 0 /\ NoFlags.commodity_check = 0
    BY DEF NoFlags, FlagsType, Counter
  <1> QED
    BY <1>1 DEF Afresh, Legal, FlagsType

\* What a call makes of its flags on entry: legal flags, with one more level
\* of recursion unless the budget is spent.
LEMMA EnteredLegal ==
  ASSUME NEW f, Legal(f)
  PROVE  /\ Legal(Entered(f))
         /\ Entered(f).recursion = f.recursion + recursion_modifier(f)
         /\ Entered(f).no_default_units = f.no_default_units
  <1> DEFINE g == [f EXCEPT !.recursion = @ + recursion_modifier(f)]
             h == [g EXCEPT !.not_first_pass = TRUE]
  <1>1. f.recursion + recursion_modifier(f) \in 0..7
    BY DEF Legal, FlagsType, Counter, recursion_modifier, no_recursion
  <1>2. /\ Legal(g) /\ g.recursion = f.recursion + recursion_modifier(f)
        /\ g.no_default_units = f.no_default_units
    BY <1>1 DEF Legal, FlagsType, Counter
  <1>3. /\ Legal(h) /\ h.recursion = g.recursion
        /\ h.no_default_units = g.no_default_units
    BY <1>2 DEF Legal, FlagsType
  <1> HIDE DEF g, h
  <1>4. Entered(f) = IF f.not_first_pass THEN g ELSE AddPartitionCheck(h)
    BY DEF Entered, g, h
  <1> QED
    BY <1>2, <1>3, <1>4, AddPartitionLegal

\* The same of the flags with which later readings are tried.
LEMMA AfterAdditionLegal ==
  ASSUME NEW f, Legal(f), NEW g \in AfterAddition(f)
  PROVE  /\ Legal(g)
         /\ g.recursion = f.recursion + recursion_modifier(f)
         /\ g.no_default_units = f.no_default_units
  <1> DEFINE e == Entered(f)
  <1>1. /\ Legal(e) /\ e.recursion = f.recursion + recursion_modifier(f)
        /\ e.no_default_units = f.no_default_units
    BY EnteredLegal
  <1>2. g = e \/ g = [e EXCEPT !.no_addition = TRUE]
    BY DEF AfterAddition
  <1> HIDE DEF e
  <1> QED
    BY <1>1, <1>2 DEF Legal, FlagsType

\* Within the budget a call has spent one more level than its caller.
LEMMA WithinBudgetLegal ==
  ASSUME NEW f, Legal(f), NEW g \in WithinBudget(f)
  PROVE  /\ Legal(g) /\ g.recursion = f.recursion + 1 /\ g.recursion <= 3
         /\ g.no_default_units = f.no_default_units
         /\ g \in AfterAddition(f)
  <1>1. g \in AfterAddition(f) /\ ~no_recursion(g)
    BY DEF WithinBudget
  <1>2. /\ Legal(g) /\ g.recursion = f.recursion + recursion_modifier(f)
        /\ g.no_default_units = f.no_default_units
    BY <1>1, AfterAdditionLegal
  <1>3. f.recursion \in 0..7 /\ g.recursion \in 0..7
    BY <1>2 DEF Legal, FlagsType, Counter
  <1> QED
    BY <1>1, <1>2, <1>3 DEF no_recursion, recursion_modifier

-----------------------------------------------------------------------------
(***************************************************************************)
(* One step of reading: what a call needs to keep IInv and to descend.     *)
(***************************************************************************)
Descends ==
  \/ ~flags.no_default_units /\ flags'.no_default_units
  \/ /\ flags'.no_default_units = flags.no_default_units
     /\ \/ Rank = 0 /\ Rank' = 1
        \/ Rank' = Rank /\ flags'.recursion > flags.recursion
        \/ Rank' = Rank /\ flags'.recursion = flags.recursion /\ size' < size

\* A call that spends a level of recursion and splits nothing.
SpendingCall ==
  /\ Reading /\ fn' = "unit_from_string_internal"
  /\ size' \in 1..MaxSize
  /\ Legal(flags') /\ flags'.recursion > flags.recursion
  /\ flags'.no_default_units = flags.no_default_units
  /\ UNCHANGED layers

\* A call on a shorter string that has spent as much, and splits nothing.
ShorterCall ==
  /\ Reading /\ fn' = "unit_from_string_internal"
  /\ size' \in Shorter
  /\ Legal(flags') /\ flags'.recursion >= flags.recursion
  /\ flags'.no_default_units = flags.no_default_units
  /\ UNCHANGED layers

\* Such a call keeps the invariant and descends.
LEMMA SpendingCallGood == IInv /\ SpendingCall => IInv' /\ Descends
  BY SizeAssumption
  DEF layers, IInv, TypeOK, SpendingCall, Descends, Rank, Reading, Legal, FlagsType,
      Counter, Function

\* So does this one.
LEMMA ShorterCallGood == IInv /\ ShorterCall => IInv' /\ Descends
  BY SizeAssumption
  DEF layers, IInv, TypeOK, ShorterCall, Shorter, Descends, Rank, Reading, Legal,
      FlagsType, Counter, Function

\* A default unit is looked for only by a caller that may, and marks that.
LEMMA CallDefaultGood ==
  ASSUME IInv, Reading, ~flags.no_default_units, CallDefault
  PROVE  IInv' /\ Descends
  <1>1. Legal(Afresh) /\ Afresh.no_default_units /\ Afresh.recursion = 0
    BY AfreshLegal
  <1>2. /\ fn' = "default_unit" /\ size' \in 1..MaxSize /\ flags' = Afresh
        /\ splits' = 0
    BY SizeAssumption DEF IInv, TypeOK, CallDefault, Shorter
  <1>a. outer' \in Nat /\ outer' <= 3
    <2>1. outer = 0
      BY DEF IInv, TypeOK
    <2> QED
      BY <2>1 DEF IInv, TypeOK, CallDefault
  <1>3. IInv'
    <2>1. TypeOK'
      BY <1>1, <1>2, <1>a DEF TypeOK, Function, Legal
    <2>2. Legal(flags') /\ splits' <= flags'.recursion /\ splits' <= 3
      BY <1>1, <1>2
    <2>3. flags'.no_default_units
      BY <1>1, <1>2
    <2> QED
      BY <1>2, <1>a, <2>1, <2>2, <2>3 DEF IInv
  <1>4. Descends
    BY <1>1, <1>2 DEF Descends
  <1> QED
    BY <1>3, <1>4

\* The calls made whatever the budget.
LEMMA UnbudgetedGood ==
  ASSUME IInv,
         LeadingNumber \/ checkUnitAddition \/ Operands
           \/ unit_to_the_power_of \/ commoditizedUnit
  PROVE  ShorterCall
  <1>1. Legal(flags) /\ flags.recursion \in 0..7
    BY DEF IInv, Legal, FlagsType, Counter
  <1>2. recursion_modifier(flags) \in {0, 1}
    BY DEF recursion_modifier
  <1>3. ASSUME NEW g, Legal(g), flags' = g,
               g.recursion >= flags.recursion,
               g.no_default_units = flags.no_default_units,
               Reading, fn' = "unit_from_string_internal", size' \in Shorter,
               UNCHANGED layers
        PROVE  ShorterCall
    BY <1>3 DEF ShorterCall
  <1>4. CASE LeadingNumber
    <2> DEFINE g == Entered(flags)
    <2>1. /\ Legal(g) /\ g.recursion = flags.recursion + recursion_modifier(flags)
          /\ g.no_default_units = flags.no_default_units
      BY <1>1, EnteredLegal
    <2>2. /\ Legal(AddPartitionCheck(g)) /\ AddPartitionCheck(g).recursion = g.recursion
          /\ AddPartitionCheck(g).no_default_units = g.no_default_units
      BY <2>1, AddPartitionLegal
    <2>3. flags' = AddPartitionCheck(g) \/ flags' = g
      BY <1>4 DEF LeadingNumber, Read
    <2>4. /\ Reading /\ fn' = "unit_from_string_internal" /\ size' \in Shorter
          /\ UNCHANGED layers
      BY <1>4 DEF LeadingNumber, Read
    <2> HIDE DEF g
    <2> QED
      BY <1>1, <1>2, <2>1, <2>2, <2>3, <2>4 DEF ShorterCall
  <1>5. CASE checkUnitAddition
    <2> DEFINE g == Entered(flags)
    <2>1. /\ Legal(g) /\ g.recursion = flags.recursion + recursion_modifier(flags)
          /\ g.no_default_units = flags.no_default_units
      BY <1>1, EnteredLegal
    <2>2. /\ Reading /\ fn' = "unit_from_string_internal" /\ size' \in Shorter
          /\ UNCHANGED layers /\ flags' = g
      BY <1>5 DEF checkUnitAddition, Read
    <2> HIDE DEF g
    <2> QED
      BY <1>1, <1>2, <2>1, <2>2 DEF ShorterCall
  <1>6. CASE Operands
    <2>1. PICK g \in AfterAddition(flags) :
            Read(Shorter, RecursionLess(g, recursion_modifier(flags)))
      BY <1>6 DEF Operands
    <2>2. /\ Legal(g) /\ g.recursion = flags.recursion + recursion_modifier(flags)
          /\ g.no_default_units = flags.no_default_units
      BY <1>1, AfterAdditionLegal
    <2>3. /\ Legal(flags') /\ flags'.recursion = flags.recursion
          /\ flags'.no_default_units = flags.no_default_units
      BY <1>1, <1>2, <2>1, <2>2 DEF Read, RecursionLess, Legal, FlagsType, Counter
    <2> QED
      BY <1>1, <1>6, <2>1, <2>3 DEF Operands, Read, ShorterCall
  <1>7. CASE unit_to_the_power_of
    <2>1. PICK g \in AfterAddition(flags) :
            Read(Shorter, RecursionLess(g, recursion_modifier(g)))
      BY <1>7 DEF unit_to_the_power_of
    <2>2. /\ Legal(g) /\ g.recursion = flags.recursion + recursion_modifier(flags)
          /\ g.no_default_units = flags.no_default_units
      BY <1>1, AfterAdditionLegal
    <2>3. /\ g.recursion - recursion_modifier(g) \in 0..7
          /\ g.recursion - recursion_modifier(g) >= flags.recursion
      BY <1>1, <2>2 DEF recursion_modifier, no_recursion, Legal, FlagsType, Counter
    <2>4. /\ Legal(flags') /\ flags'.recursion >= flags.recursion
          /\ flags'.no_default_units = flags.no_default_units
      BY <2>1, <2>2, <2>3 DEF Read, RecursionLess, Legal, FlagsType, Counter
    <2> QED
      BY <1>7, <2>1, <2>4 DEF unit_to_the_power_of, Read, ShorterCall
  <1>8. CASE commoditizedUnit
    <2>1. PICK g \in AfterAddition(flags) :
            ~no_commodities(g) /\ Read(Shorter, Commoditized(g))
      BY <1>8 DEF commoditizedUnit
    <2>2. /\ Legal(g) /\ g.recursion = flags.recursion + recursion_modifier(flags)
          /\ g.no_default_units = flags.no_default_units
      BY <1>1, AfterAdditionLegal
    <2>3. /\ Legal(flags') /\ flags'.recursion >= flags.recursion
          /\ flags'.no_default_units = flags.no_default_units
      BY <1>1, <1>2, <2>1, <2>2
      DEF Read, Commoditized, no_commodities, Legal, FlagsType, Counter
    <2> QED
      BY <1>8, <2>1, <2>3 DEF commoditizedUnit, Read, ShorterCall
  <1> QED
    BY <1>4, <1>5, <1>6, <1>7, <1>8

\* The calls made within the budget that split nothing.
LEMMA BudgetedGood ==
  ASSUME IInv,
         TwoCharacters \/ LowerCaseFirst \/ checkMultiplierCharacter
           \/ UncoveredNumber \/ checkPerModifications \/ wordModifiers
           \/ OfCommodity \/ localityModifiers
  PROVE  SpendingCall
  <1>1. Legal(flags) /\ flags.recursion \in 0..7 /\ size \in 1..MaxSize
    BY DEF IInv, TypeOK, Legal, FlagsType, Counter
  <1>2. ASSUME NEW g \in WithinBudget(flags)
        PROVE  /\ Legal(g) /\ g.recursion > flags.recursion
               /\ g.no_default_units = flags.no_default_units
               /\ Legal(SkipPartition(g))
               /\ SkipPartition(g).recursion = g.recursion
               /\ SkipPartition(g).no_default_units = g.no_default_units
    BY <1>1, WithinBudgetLegal, SkipPartitionLegal
  <1>3. /\ Shorter \subseteq 1..MaxSize /\ Rewritten \subseteq 1..MaxSize
        /\ {size} \subseteq 1..MaxSize /\ 1..size \subseteq 1..MaxSize
    BY <1>1, SizeAssumption DEF Shorter, Rewritten
  <1>4. CASE TwoCharacters
    BY <1>2, <1>3, <1>4 DEF TwoCharacters, Read, SpendingCall
  <1>5. CASE LowerCaseFirst
    BY <1>2, <1>3, <1>5 DEF LowerCaseFirst, Read, SpendingCall
  <1>6. CASE checkMultiplierCharacter
    BY <1>2, <1>3, <1>6 DEF checkMultiplierCharacter, Read, SpendingCall
  <1>7. CASE UncoveredNumber
    <2>1. PICK g \in WithinBudget(flags) :
            Read(Rewritten, g) \/ Read(Shorter, SkipPartition(g))
      BY <1>7 DEF UncoveredNumber
    <2>2. Reading /\ UNCHANGED layers
      BY <1>7 DEF UncoveredNumber
    <2>3. CASE Read(Rewritten, g)
      BY <1>2, <1>3, <2>2, <2>3 DEF Read, SpendingCall
    <2>4. CASE Read(Shorter, SkipPartition(g))
      BY <1>2, <1>3, <2>2, <2>4 DEF Read, SpendingCall
    <2> QED
      BY <2>1, <2>3, <2>4
  <1>8. CASE checkPerModifications
    <2>1. PICK g \in WithinBudget(flags) :
            /\ ~no_per_operators(g)
            /\ Read(Shorter, [g EXCEPT !.per_operator = @ + 1])
      BY <1>8 DEF checkPerModifications
    <2>2. /\ Legal(flags') /\ flags'.recursion = g.recursion
          /\ flags'.no_default_units = g.no_default_units
      BY <1>2, <2>1 DEF Read, no_per_operators, Legal, FlagsType, Counter
    <2> QED
      BY <1>2, <1>3, <1>8, <2>1, <2>2 DEF checkPerModifications, Read, SpendingCall
  <1>9. CASE wordModifiers
    BY <1>2, <1>3, <1>9 DEF wordModifiers, Read, SpendingCall
  <1>10. CASE OfCommodity
    <2>1. PICK g \in WithinBudget(flags) :
            /\ ~no_commodities(g)
            /\ Read(Shorter, Commoditized([g EXCEPT !.commodity_check = @ + 1]))
      BY <1>10 DEF OfCommodity
    <2> DEFINE h == [g EXCEPT !.commodity_check = @ + 1]
    <2>a. g \in FlagsType /\ g.commodity_check \in {0, 1}
      BY <1>2, <2>1 DEF no_commodities, Legal
    <2>b. /\ h \in FlagsType /\ h.commodity_check \in {1, 2}
          /\ h.recursion = g.recursion /\ h.no_default_units = g.no_default_units
      BY <2>a DEF FlagsType, Counter
    <2>c. flags' = Commoditized(h)
      BY <2>1 DEF Read
    <2> HIDE DEF h
    <2>2. /\ Legal(flags') /\ flags'.recursion = g.recursion
          /\ flags'.no_default_units = g.no_default_units
      BY <2>b, <2>c DEF Commoditized, Legal, FlagsType, Counter
    <2> QED
      BY <1>2, <1>3, <1>10, <2>1, <2>2 DEF OfCommodity, Read, SpendingCall
  <1>11. CASE localityModifiers
    <2>1. PICK g \in WithinBudget(flags) :
            Read(Rewritten, [SkipPartition(g) EXCEPT !.no_locality_modifiers = TRUE,
                                                     !.no_of_operator = TRUE])
      BY <1>11 DEF localityModifiers
    <2>2. /\ Legal(flags') /\ flags'.recursion = g.recursion
          /\ flags'.no_default_units = g.no_default_units
      BY <1>2, <2>1 DEF Read, Legal, FlagsType
    <2> QED
      BY <1>2, <1>3, <1>11, <2>1, <2>2 DEF localityModifiers, Read, SpendingCall
  <1> QED
    BY <1>4, <1>5, <1>6, <1>7, <1>8, <1>9, <1>10, <1>11

\* A split is a layer, and spends a level of recursion.
LEMMA SplitGood ==
  ASSUME IInv, tryUnitPartitioning
  PROVE  IInv' /\ Descends
  <1>1. PICK g \in WithinBudget(flags) :
          LET p == AddPartitionCheck(g)
          IN  Read(Shorter, p) \/ Read(Shorter, SkipPartition(p))
    BY DEF tryUnitPartitioning
  <1> DEFINE p == AddPartitionCheck(g)
  <1>2. /\ Legal(g) /\ g.recursion = flags.recursion + 1 /\ g.recursion <= 3
        /\ g.no_default_units = flags.no_default_units
    BY WithinBudgetLegal DEF IInv
  <1>3. /\ Legal(p) /\ p.recursion = g.recursion
        /\ p.no_default_units = g.no_default_units
    BY <1>2, AddPartitionLegal
  <1>4. /\ Legal(SkipPartition(p)) /\ SkipPartition(p).recursion = p.recursion
        /\ SkipPartition(p).no_default_units = p.no_default_units
    BY <1>3, SkipPartitionLegal
  <1>5. /\ fn' = "unit_from_string_internal" /\ size' \in Shorter
        /\ flags' = p \/ flags' = SkipPartition(p)
    BY <1>1 DEF Read
  <1> HIDE DEF p
  <1>6. /\ Legal(flags') /\ flags'.recursion = flags.recursion + 1
        /\ flags'.recursion <= 3
        /\ flags'.no_default_units = flags.no_default_units
    BY <1>2, <1>3, <1>4, <1>5
  <1>7. Reading /\ splits' = splits + 1 /\ outer' = outer
    BY DEF tryUnitPartitioning
  <1> QED
    BY <1>5, <1>6, <1>7, SizeAssumption
    DEF IInv, TypeOK, Shorter, Descends, Rank, Reading, Legal, FlagsType,
        Counter, Function

-----------------------------------------------------------------------------
\* Every flag set a client may pass, and the one default_unit uses, is legal.
LEMMA InitInv == Init => IInv
  <1>1. Legal(Afresh)
    BY AfreshLegal
  <1>2. ASSUME NEW f \in Given PROVE Legal(f)
    BY GivenAssumption DEF Legal
  <1>3. ASSUME Init PROVE Legal(flags)
    BY <1>1, <1>2, <1>3 DEF Init
  <1> QED
    BY <1>3 DEF Init, IInv, TypeOK, Function, Legal, FlagsType, Counter

\* Every step keeps the invariant, and every call descends.
LEMMA StepGood ==
  ASSUME IInv, Next
  PROVE  IInv' /\ (fn' # "returned" => Descends)
  <1>1. CASE Return
    BY <1>1 DEF layers, Return, IInv, TypeOK, Legal, Function
  <1>2. CASE Measure
    BY <1>2, SizeAssumption
    DEF layers, Measure, Read, Rewritten, IInv, TypeOK, Legal, Function, Descends, Rank, Reading
  <1>3. CASE Currency
    BY <1>3, SizeAssumption
    DEF layers, Currency, Shorter, IInv, TypeOK, Legal, FlagsType, Counter, Descends, Rank,
        Reading
  <1>4. CASE DefaultOfPart
    BY <1>4, SizeAssumption
    DEF layers, DefaultOfPart, Shorter, IInv, TypeOK, Legal, FlagsType, Counter, Descends,
        Rank, Reading
  <1>5. CASE DefaultUnit
    BY <1>5, SizeAssumption
    DEF layers, DefaultUnit, Read, Rewritten, IInv, TypeOK, Function, Descends, Rank,
        Reading
  <1>6. CASE LeadingNumber \/ checkUnitAddition \/ Operands
               \/ unit_to_the_power_of \/ commoditizedUnit
    BY <1>6, UnbudgetedGood, ShorterCallGood
  <1>7. CASE PerUnitOf
    BY <1>7, CallDefaultGood DEF PerUnitOf
  <1>8. CASE TwoCharacters \/ LowerCaseFirst \/ checkMultiplierCharacter
               \/ UncoveredNumber \/ checkPerModifications \/ wordModifiers
               \/ OfCommodity \/ localityModifiers
    BY <1>8, BudgetedGood, SpendingCallGood
  <1>9. CASE checkSpecialUnits
    <2>1. PICK g \in WithinBudget(flags) :
            \/ Read(Shorter, g) /\ UNCHANGED layers
            \/ ~g.no_default_units /\ CallDefault
      BY <1>9 DEF checkSpecialUnits
    <2>2. /\ Legal(g) /\ g.recursion = flags.recursion + 1
          /\ g.no_default_units = flags.no_default_units
          /\ flags.recursion \in 0..7
      BY WithinBudgetLegal DEF IInv, Legal, FlagsType, Counter
    <2>3. Reading
      BY <1>9 DEF checkSpecialUnits
    <2>4. CASE Read(Shorter, g) /\ UNCHANGED layers
      <3>1. ShorterCall
        BY <2>2, <2>3, <2>4 DEF Read, ShorterCall
      <3> QED
        BY <3>1, ShorterCallGood
    <2>5. CASE ~g.no_default_units /\ CallDefault
      BY <2>2, <2>3, <2>5, CallDefaultGood
    <2> QED
      BY <2>1, <2>4, <2>5
  <1>10. CASE tryUnitPartitioning
    BY <1>10, SplitGood
  <1> QED
    BY <1>1, <1>2, <1>3, <1>4, <1>5, <1>6, <1>7, <1>8, <1>9, <1>10 DEF Next

\* The invariant holds in every state of every behaviour.
THEOREM Invariance == Spec => []IInv
  <1>1. Init => IInv
    BY InitInv
  <1>2. IInv /\ [Next]_vars => IInv'
    <2>1. CASE Next
      BY <2>1, StepGood
    <2>2. CASE UNCHANGED vars
      BY <2>2 DEF vars, layers, IInv, TypeOK, Legal
    <2> QED
      BY <2>1, <2>2
  <1> QED
    BY <1>1, <1>2, PTL DEF Spec

\* Calls are well formed and the counters of the flags never carry, whatever
\* the strings and the flags clients pass.
THEOREM TypeCorrect == Spec => []TypeOK
  <1>1. IInv => TypeOK
    BY DEF IInv
  <1> QED
    BY <1>1, Invariance, PTL

\* At most three layers of splits are in progress with the flags as they are,
\* and three below the call of default_unit that set them afresh.
THEOREM ThreeLayers == Spec => []ThreeLayersOfSplits
  <1>1. IInv => ThreeLayersOfSplits
    BY DEF IInv, ThreeLayersOfSplits
  <1> QED
    BY <1>1, Invariance, PTL

\* Every call descends, so that no chain of calls goes on for ever.
THEOREM Descent == Spec => CallsDescend
  <1>1. IInv /\ [Next]_vars
          => [fn' # "returned" =>
                \/ ~flags.no_default_units /\ flags'.no_default_units
                \/ /\ flags'.no_default_units = flags.no_default_units
                   /\ \/ Rank = 0 /\ Rank' = 1
                      \/ Rank' = Rank /\ flags'.recursion > flags.recursion
                      \/ /\ Rank' = Rank /\ flags'.recursion = flags.recursion
                         /\ size' < size]_vars
    BY StepGood DEF Descends
  <1> QED
    BY <1>1, Invariance, PTL DEF Spec, CallsDescend
=============================================================================
