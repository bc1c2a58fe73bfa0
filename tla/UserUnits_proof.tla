--------------------------- MODULE UserUnits_proof ---------------------------
(***************************************************************************)
(* The flag and the round trip of names, for any sets of names and units,  *)
(* any built-in tables that read back what they write, and any file.       *)
(***************************************************************************)
EXTENDS UserUnitsHistory, SequenceTheorems, TLAPS

USE NoUnitAssumption, NoNameAssumption, CastAssumption, BuiltinAssumption

LineType == [name : Name \cup {NoName}, kind : Kind, uses : Name \cup {NoName},
             unit : UnitValue \cup {NoUnit}]

\* The step an add function has reached is one of its kind's, and a call of
\* definedUnitsFromFile is never past the last line.
CallShape == /\ call.step = "names" => call.kind # "in"
             /\ call.step = "units" => call.kind # "out"
             /\ call # Idle => line <= Len(File)

\* What is about to be stored in the flag is what the flag holds, unless a
\* request came in between.
LoadedIsCurrent == call.step = "store" /\ ~torn => call.loaded = allowUserDefinedUnits

\* Orderly clients leave no name written for a unit but read as something
\* else; the add function that is between its two insertions is about to
\* make the name it wrote readable.
AboutToDefine(n, u) == /\ call.step = "units" /\ call.kind = "both"
                       /\ call.name = n /\ unit_cast[call.unit] = u

ReadsAs(n, u) == /\ user_defined_units[n] # NoUnit
                 /\ unit_cast[user_defined_units[n]] = u

NamesReadBack ==
  orderly => \A u \in Unit :
    /\ user_defined_unit_names[u] # NoName =>
         \/ ReadsAs(user_defined_unit_names[u], u)
         \/ AboutToDefine(user_defined_unit_names[u], u)
    /\ BuiltinName[u] # NoName =>
         \/ user_defined_units[BuiltinName[u]] = NoUnit
         \/ ReadsAs(BuiltinName[u], u)

IInv == TypeOK /\ CallShape /\ LoadedIsCurrent /\ FlagFollowsRequests /\ NamesReadBack

-----------------------------------------------------------------------------
(***************************************************************************)
(* Types                                                                   *)
(***************************************************************************)

\* What a string reads as.
LEMMA LookupTyped ==
  ASSUME TypeOK, NEW n \in Name
  PROVE  get_unit(n) \in UnitValue \cup {NoUnit}
BY DEF get_unit, TypeOK

\* A call in progress has the fields of an add function.
LEMMA CallTyped ==
  ASSUME TypeOK, call # Idle
  PROVE  /\ call \in CallType
         /\ call.kind \in Kind /\ call.name \in Name /\ call.unit \in UnitValue
         /\ call.step \in Step /\ call.loaded \in BOOLEAN
         /\ unit_cast[call.unit] \in Unit
BY DEF TypeOK, CallType

\* Only a call in progress has one of the steps of an add function.
LEMMA IdleStep == \A s \in Step : Idle.step # s
BY DEF Idle, Step

\* The lines of the file.
LEMMA LineTyped ==
  ASSUME TypeOK, line \in 1..Len(File)
  PROVE  /\ File[line] \in LineType
         /\ measurement_from_string(File[line]) \in UnitValue \cup {NoUnit}
<1>1. File[line] \in LineType
  BY FileAssumption, ElementOfSeq DEF LineType
<1>2. /\ File[line].uses \in Name \cup {NoName}
      /\ File[line].unit \in UnitValue \cup {NoUnit}
  BY <1>1 DEF LineType
<1> QED  BY <1>1, <1>2, LookupTyped DEF measurement_from_string

\* Len(File) is a number.
LEMMA FileLength == Len(File) \in Nat
BY FileAssumption, LenProperties

-----------------------------------------------------------------------------
(***************************************************************************)
(* The initial state, then one lemma for each action.                      *)
(***************************************************************************)

\* The invariant holds when the program starts: nothing is defined.
LEMMA InitInv == HInit => IInv
<1> SUFFICES ASSUME HInit PROVE IInv
  OBVIOUS
<1>1. call = Idle /\ call.step = "idle"
  BY DEF HInit, Init, Idle
<1>2. TypeOK
  <2>1. /\ user_defined_units \in [Name -> UnitValue \cup {NoUnit}]
        /\ user_defined_unit_names \in [Unit -> Name \cup {NoName}]
    BY DEF HInit, Init
  <2>2. /\ call \in CallType \cup {Idle}
        /\ line \in 0..(Len(File) + 1)
        /\ output \subseteq 0..Len(File)
    BY <1>1, FileLength DEF HInit, Init
  <2>3. read \in Seq(UnitValue \cup {NoUnit})
    BY EmptySeq DEF HInit
  <2>4. /\ allowUserDefinedUnits \in BOOLEAN /\ asked \in BOOLEAN
        /\ torn \in BOOLEAN /\ orderly \in BOOLEAN /\ steady \in BOOLEAN
    BY DEF HInit, Init
  <2> QED  BY <2>1, <2>2, <2>3, <2>4 DEF TypeOK
<1>3. CallShape /\ LoadedIsCurrent /\ FlagFollowsRequests
  BY <1>1 DEF HInit, Init, CallShape, LoadedIsCurrent, FlagFollowsRequests
<1>4. NamesReadBack
  BY DEF HInit, Init, NamesReadBack
<1> QED  BY <1>2, <1>3, <1>4 DEF IInv

\* A request to the flag: it does what was asked, and if an add function is
\* about to store what it loaded before, the request is torn.
LEMMA ToggleInv == ASSUME IInv, NEW on \in BOOLEAN, HToggle(on) PROVE IInv'
<1>1. /\ allowUserDefinedUnits' = on /\ asked' = on
      /\ torn' = (call.step = "store") /\ steady' = (steady /\ on)
      /\ UNCHANGED <<user_defined_units, user_defined_unit_names, call, line, output>>
      /\ UNCHANGED <<orderly, read>>
  BY DEF HToggle, enableUserDefinedUnits, disableUserDefinedUnits, maps
<1>2. TypeOK'
  BY <1>1 DEF IInv, TypeOK
<1>3. CallShape' /\ LoadedIsCurrent' /\ FlagFollowsRequests'
  BY <1>1 DEF IInv, CallShape, LoadedIsCurrent, FlagFollowsRequests
<1>4. NamesReadBack'
  BY <1>1 DEF IInv, NamesReadBack, ReadsAs, AboutToDefine
<1> QED  BY <1>2, <1>3, <1>4 DEF IInv

\* addUserDefinedUnit and addUserDefinedOutputUnit write the name of the
\* unit.  An orderly client only defines names so that can read back.
LEMMA NameInv == ASSUME IInv, AddName, HInsert PROVE IInv'
<1> DEFINE n == call.name
           v == unit_cast[call.unit]
<1>1. call.step = "names" /\ call # Idle
  BY IdleStep DEF AddName, Step
<1>2. /\ call \in CallType /\ call.kind \in Kind /\ n \in Name /\ v \in Unit
      /\ call.kind # "in"
  BY <1>1, CallTyped DEF IInv, CallShape
<1>3. /\ user_defined_unit_names' = [user_defined_unit_names EXCEPT ![v] = n]
      /\ call' = [call EXCEPT !.step = IF call.kind = "out" THEN "load" ELSE "units"]
      /\ UNCHANGED <<user_defined_units, allowUserDefinedUnits, line, output>>
      /\ UNCHANGED <<asked, torn, steady, read>>
      /\ orderly' = (orderly /\ call.kind # "out" /\ OrderlyDefinition(n, call.unit))
  BY DEF AddName, HInsert, Goto
<1>4. /\ call' \in CallType
      /\ call'.kind = call.kind /\ call'.name = n /\ call'.unit = call.unit
      /\ call'.step = IF call.kind = "out" THEN "load" ELSE "units"
  BY <1>2, <1>3 DEF CallType, Step
<1>5. TypeOK'
  <2>1. orderly' \in BOOLEAN
    BY <1>3
  <2>2. user_defined_unit_names' \in [Unit -> Name \cup {NoName}]
    BY <1>2, <1>3 DEF IInv, TypeOK
  <2> QED  BY <1>3, <1>4, <2>1, <2>2 DEF IInv, TypeOK
<1>6. CallShape' /\ LoadedIsCurrent' /\ FlagFollowsRequests'
  BY <1>1, <1>2, <1>3, <1>4
  DEF IInv, CallShape, LoadedIsCurrent, FlagFollowsRequests
<1>7. NamesReadBack'
  <2> SUFFICES ASSUME orderly', NEW u \in Unit
               PROVE  /\ user_defined_unit_names'[u] # NoName =>
                           \/ ReadsAs(user_defined_unit_names[u], u)'
                           \/ AboutToDefine(user_defined_unit_names[u], u)'
                      /\ BuiltinName[u] # NoName =>
                           \/ user_defined_units'[BuiltinName[u]] = NoUnit
                           \/ ReadsAs(BuiltinName[u], u)'
    BY DEF NamesReadBack
  <2>1. orderly /\ call.kind = "both"
    BY <1>2, <1>3 DEF Kind
  <2>2. CASE u = v
    <3>1. user_defined_unit_names'[u] = n
      BY <1>3, <2>2 DEF IInv, TypeOK
    <3>2. AboutToDefine(user_defined_unit_names[u], u)'
      BY <1>4, <2>1, <2>2, <3>1 DEF AboutToDefine
    <3> QED  BY <1>3, <2>1, <3>2 DEF IInv, NamesReadBack, ReadsAs
  <2>3. CASE u # v
    <3>1. user_defined_unit_names'[u] = user_defined_unit_names[u]
      BY <1>3, <2>3 DEF IInv, TypeOK
    <3>2. ~AboutToDefine(user_defined_unit_names[u], u)
      BY <1>1 DEF AboutToDefine
    <3> QED  BY <1>3, <2>1, <3>1, <3>2 DEF IInv, NamesReadBack, ReadsAs
  <2> QED  BY <2>2, <2>3
<1> QED  BY <1>5, <1>6, <1>7 DEF IInv

\* addUserDefinedUnit and addUserDefinedInputUnit write what the name means.
\* What an orderly client redefines was not the name of another unit.
LEMMA UnitInv == ASSUME IInv, AddUnit, HInsert PROVE IInv'
<1> DEFINE n == call.name
           v == unit_cast[call.unit]
<1>1. call.step = "units" /\ call # Idle
  BY IdleStep DEF AddUnit, Step
<1>2. /\ call \in CallType /\ n \in Name /\ v \in Unit
      /\ call.unit \in UnitValue /\ call.unit # NoUnit
  BY <1>1, CallTyped DEF IInv
<1>3. /\ user_defined_units' = [user_defined_units EXCEPT ![n] = call.unit]
      /\ call' = [call EXCEPT !.step = "load"]
      /\ UNCHANGED <<user_defined_unit_names, allowUserDefinedUnits, line, output>>
      /\ UNCHANGED <<asked, torn, steady, read>>
      /\ orderly' = (orderly /\ call.kind # "out" /\ OrderlyDefinition(n, call.unit))
  BY DEF AddUnit, HInsert, Goto
<1>4. call' \in CallType /\ call'.step = "load"
  BY <1>2, <1>3 DEF CallType, Step
<1>5. TypeOK'
  <2>1. orderly' \in BOOLEAN
    BY <1>3
  <2>2. user_defined_units' \in [Name -> UnitValue \cup {NoUnit}]
    BY <1>2, <1>3 DEF IInv, TypeOK
  <2> QED  BY <1>3, <1>4, <2>1, <2>2 DEF IInv, TypeOK
<1>6. CallShape' /\ LoadedIsCurrent' /\ FlagFollowsRequests'
  BY <1>1, <1>3, <1>4 DEF IInv, CallShape, LoadedIsCurrent, FlagFollowsRequests
<1>7. NamesReadBack'
  <2> SUFFICES ASSUME orderly', NEW u \in Unit
               PROVE  /\ user_defined_unit_names'[u] # NoName =>
                           ReadsAs(user_defined_unit_names[u], u)'
                      /\ BuiltinName[u] # NoName =>
                           \/ user_defined_units'[BuiltinName[u]] = NoUnit
                           \/ ReadsAs(BuiltinName[u], u)'
    BY DEF NamesReadBack
  <2>1. /\ orderly
        /\ n \in {user_defined_unit_names[u], BuiltinName[u]} => u = v
    BY <1>3 DEF OrderlyDefinition
  <2>2. ASSUME NEW k \in Name, k = n => u = v,
               k # n => user_defined_units[k] = NoUnit \/ ReadsAs(k, u)
        PROVE  user_defined_units'[k] = NoUnit \/ ReadsAs(k, u)'
    BY <1>2, <1>3, <2>2 DEF IInv, TypeOK, ReadsAs
  <2>3. ASSUME NEW k \in Name, k = n => u = v, k # n => ReadsAs(k, u)
        PROVE  ReadsAs(k, u)'
    BY <1>2, <1>3, <2>3 DEF IInv, TypeOK, ReadsAs
  <2>4. ASSUME user_defined_unit_names'[u] # NoName
        PROVE  ReadsAs(user_defined_unit_names[u], u)'
    <3> DEFINE k == user_defined_unit_names[u]
    <3>1. k \in Name /\ k # NoName
      BY <1>3, <2>4 DEF IInv, TypeOK
    <3>2. k # n => ReadsAs(k, u)
      BY <2>1, <3>1 DEF IInv, NamesReadBack, AboutToDefine
    <3>3. ReadsAs(k, u)'
      BY <1>3, <2>1, <2>3, <3>1, <3>2 DEF ReadsAs
    <3> QED  BY <3>3
  <2>5. ASSUME BuiltinName[u] # NoName
        PROVE  \/ user_defined_units'[BuiltinName[u]] = NoUnit
               \/ ReadsAs(BuiltinName[u], u)'
    <3>1. BuiltinName[u] \in Name
      BY <2>5
    <3> QED  BY <2>1, <2>2, <2>5, <3>1 DEF IInv, NamesReadBack
  <2> QED  BY <2>4, <2>5
<1> QED  BY <1>5, <1>6, <1>7 DEF IInv

\* An add function stores what it loaded, which is what the flag holds unless
\* a request was torn, and returns.
LEMMA StoreInv == ASSUME IInv, HStore PROVE IInv'
<1>1. call.step = "store" /\ call # Idle
  BY IdleStep DEF HStore, AddStore, Step
<1>2. call.loaded \in BOOLEAN /\ line <= Len(File)
  BY <1>1, CallTyped DEF IInv, CallShape
<1>3. /\ allowUserDefinedUnits' = call.loaded /\ call' = Idle
      /\ line' = IF line = 0 THEN 0 ELSE line + 1
      /\ steady' = (steady /\ call.loaded)
      /\ UNCHANGED <<user_defined_units, user_defined_unit_names, output>>
      /\ UNCHANGED <<asked, torn, orderly, read>>
  BY DEF HStore, AddStore, Return, maps
<1>4. call'.step = "idle"
  BY <1>3 DEF Idle
<1>5. TypeOK'
  <2>1. line' \in 0..(Len(File) + 1)
    BY <1>2, <1>3, FileLength DEF IInv, TypeOK
  <2>2. steady' \in BOOLEAN /\ allowUserDefinedUnits' \in BOOLEAN
    BY <1>2, <1>3
  <2> QED  BY <1>3, <2>1, <2>2 DEF IInv, TypeOK
<1>6. CallShape' /\ LoadedIsCurrent'
  BY <1>3, <1>4 DEF CallShape, LoadedIsCurrent
<1>7. FlagFollowsRequests'
  BY <1>1, <1>3 DEF IInv, LoadedIsCurrent, FlagFollowsRequests
<1>8. NamesReadBack'
  BY <1>1, <1>3, <1>4 DEF IInv, NamesReadBack, ReadsAs, AboutToDefine
<1> QED  BY <1>5, <1>6, <1>7, <1>8 DEF IInv

\* removeUserDefinedUnit: an orderly client's string reads as the unit it was
\* defined as, so the name erased is that unit's.
LEMMA RemoveInv == ASSUME IInv, NEW n \in Name, HRemove(n) PROVE IInv'
<1> DEFINE p == get_unit(n)
<1>1. /\ call = Idle
      /\ UNCHANGED <<allowUserDefinedUnits, call, line, output>>
      /\ UNCHANGED <<asked, torn, steady, read>>
      /\ orderly' = (orderly /\ OrderlyRemoval(n))
  BY DEF HRemove, removeUserDefinedUnit, MutexFree
<1>2. p \in UnitValue \cup {NoUnit}
  BY LookupTyped DEF IInv
<1>3. call.step # "units"
  BY <1>1, IdleStep DEF Step
<1>4. orderly' \in BOOLEAN
  BY <1>1
<1>5. CallShape' /\ LoadedIsCurrent' /\ FlagFollowsRequests'
  BY <1>1 DEF IInv, CallShape, LoadedIsCurrent, FlagFollowsRequests
<1>6. CASE /\ p # NoUnit
           /\ user_defined_units' = [user_defined_units EXCEPT ![n] = NoUnit]
           /\ user_defined_unit_names' =
                [user_defined_unit_names EXCEPT ![unit_cast[p]] = NoName]
  <2>1. unit_cast[p] \in Unit
    BY <1>2, <1>6
  <2>2. TypeOK'
    BY <1>1, <1>4, <1>6, <2>1 DEF IInv, TypeOK
  <2>3. NamesReadBack'
    <3> SUFFICES ASSUME orderly', NEW u \in Unit
                 PROVE  /\ user_defined_unit_names'[u] # NoName =>
                             ReadsAs(user_defined_unit_names[u], u)'
                        /\ BuiltinName[u] # NoName =>
                             \/ user_defined_units'[BuiltinName[u]] = NoUnit
                             \/ ReadsAs(BuiltinName[u], u)'
      BY DEF NamesReadBack
    <3>1. orderly /\ (allowUserDefinedUnits \/ Builtin[n] = NoUnit)
      BY <1>1 DEF OrderlyRemoval
    <3>2. ASSUME NEW k \in Name, k # n, ReadsAs(k, u)
          PROVE  ReadsAs(k, u)'
      BY <1>6, <3>2 DEF ReadsAs, IInv, TypeOK
    <3>3. ASSUME user_defined_unit_names'[u] # NoName
          PROVE  ReadsAs(user_defined_unit_names[u], u)'
      <4> DEFINE k == user_defined_unit_names[u]
      <4>1. /\ user_defined_unit_names'[u] = k /\ u # unit_cast[p]
            /\ k \in Name /\ k # NoName
        BY <1>6, <2>1, <3>3 DEF IInv, TypeOK
      <4>2. ReadsAs(k, u)
        BY <1>3, <3>1, <4>1 DEF IInv, NamesReadBack, AboutToDefine
      <4>3. k # n
        BY <1>6, <3>1, <4>1, <4>2 DEF ReadsAs, get_unit
      <4>4. ReadsAs(k, u)'
        BY <3>2, <4>1, <4>2, <4>3
      <4> QED  BY <4>1, <4>4 DEF ReadsAs
    <3>4. ASSUME BuiltinName[u] # NoName
          PROVE  \/ user_defined_units'[BuiltinName[u]] = NoUnit
                 \/ ReadsAs(BuiltinName[u], u)'
      <4>1. BuiltinName[u] \in Name
        BY <3>4
      <4>2. CASE BuiltinName[u] = n
        BY <1>6, <4>2 DEF IInv, TypeOK
      <4>3. CASE BuiltinName[u] # n
        BY <1>6, <3>1, <3>2, <3>4, <4>1, <4>3 DEF IInv, NamesReadBack, TypeOK
      <4> QED  BY <4>2, <4>3
    <3> QED  BY <3>3, <3>4
  <2> QED  BY <1>5, <2>2, <2>3 DEF IInv
<1>7. CASE /\ UNCHANGED user_defined_units
           /\ \E v \in Unit : user_defined_unit_names' =
                                [user_defined_unit_names EXCEPT ![v] = NoName]
  <2>1. PICK v \in Unit : user_defined_unit_names' =
                            [user_defined_unit_names EXCEPT ![v] = NoName]
    BY <1>7
  <2>2. TypeOK'
    BY <1>1, <1>4, <1>7, <2>1 DEF IInv, TypeOK
  <2>3. NamesReadBack'
    <3> SUFFICES ASSUME orderly', NEW u \in Unit
                 PROVE  /\ user_defined_unit_names'[u] # NoName =>
                             \/ ReadsAs(user_defined_unit_names[u], u)'
                             \/ AboutToDefine(user_defined_unit_names[u], u)'
                        /\ BuiltinName[u] # NoName =>
                             \/ user_defined_units'[BuiltinName[u]] = NoUnit
                             \/ ReadsAs(BuiltinName[u], u)'
      BY DEF NamesReadBack
    <3>1. user_defined_unit_names'[u] # NoName =>
            user_defined_unit_names'[u] = user_defined_unit_names[u]
      BY <2>1 DEF IInv, TypeOK
    <3>2. /\ ReadsAs(user_defined_unit_names[u], u)' <=> ReadsAs(user_defined_unit_names'[u], u)
          /\ AboutToDefine(user_defined_unit_names[u], u)'
               <=> AboutToDefine(user_defined_unit_names'[u], u)
          /\ ReadsAs(BuiltinName[u], u)' <=> ReadsAs(BuiltinName[u], u)
      BY <1>1, <1>7 DEF ReadsAs, AboutToDefine
    <3>3. orderly /\ user_defined_units' = user_defined_units
      BY <1>1, <1>7
    <3> QED  BY <3>1, <3>2, <3>3 DEF IInv, NamesReadBack
  <2> QED  BY <1>5, <2>2, <2>3 DEF IInv
<1>8. CASE UNCHANGED maps
  <2>1. TypeOK'
    BY <1>1, <1>4, <1>8 DEF IInv, TypeOK, maps
  <2>2. NamesReadBack'
    BY <1>1, <1>8 DEF IInv, NamesReadBack, ReadsAs, AboutToDefine, maps
  <2> QED  BY <1>5, <2>1, <2>2 DEF IInv
<1> QED  BY <1>6, <1>7, <1>8 DEF HRemove, removeUserDefinedUnit

\* definedUnitsFromFile opens the file, or cannot.
LEMMA OpenInv == ASSUME IInv, HOpen PROVE IInv'
<1>1. /\ call = Idle
      /\ \/ line' = 1 /\ output' = {}
         \/ line' = 0 /\ output' = {0}
      /\ steady' = allowUserDefinedUnits /\ read' = <<>>
      /\ UNCHANGED <<user_defined_units, user_defined_unit_names,
                     allowUserDefinedUnits, call>>
      /\ UNCHANGED <<asked, torn, orderly>>
  BY DEF HOpen, definedUnitsFromFile, MutexFree, maps
<1>2. TypeOK'
  <2>1. read' \in Seq(UnitValue \cup {NoUnit})
    BY <1>1, EmptySeq
  <2>2. line' \in 0..(Len(File) + 1) /\ output' \subseteq 0..Len(File)
    BY <1>1, FileLength
  <2> QED  BY <1>1, <2>1, <2>2 DEF IInv, TypeOK
<1>3. CallShape' /\ LoadedIsCurrent' /\ FlagFollowsRequests'
  BY <1>1 DEF IInv, CallShape, LoadedIsCurrent, FlagFollowsRequests
<1>4. NamesReadBack'
  BY <1>1 DEF IInv, NamesReadBack, ReadsAs, AboutToDefine
<1> QED  BY <1>2, <1>3, <1>4 DEF IInv

\* A line is complained of, or calls an add function.
LEMMA ReadLineInv == ASSUME IInv, HReadLine PROVE IInv'
<1> DEFINE l == File[line]
           p == measurement_from_string(l)
           entered == [kind |-> l.kind, name |-> l.name, unit |-> p,
                       step |-> "check", loaded |-> FALSE]
<1>1. /\ line \in 1..Len(File) /\ call = Idle
      /\ read' = Append(read, p)
      /\ UNCHANGED <<user_defined_units, user_defined_unit_names,
                     allowUserDefinedUnits>>
      /\ UNCHANGED <<asked, torn, orderly, steady>>
      /\ \/ output' = output \cup {line} /\ line' = line + 1 /\ call' = call
         \/ /\ l.name # NoName /\ p # NoUnit /\ call' = entered
            /\ line' = line /\ output' = output
  BY DEF HReadLine, ReadLine, Enter, maps
<1>2. /\ l.name \in Name \cup {NoName} /\ l.kind \in Kind
      /\ p \in UnitValue \cup {NoUnit}
  BY <1>1, LineTyped DEF IInv, LineType
<1>3. call.step = "idle"
  BY <1>1 DEF Idle
<1>4. \/ call' = call
      \/ call' \in CallType /\ call'.step = "check"
  <2>1. CASE l.name # NoName /\ p # NoUnit /\ call' = entered
    <3>1. l.name \in Name /\ p \in UnitValue
      BY <1>2, <2>1
    <3>2. entered \in CallType /\ entered.step = "check"
      <4> HIDE DEF l, p
      <4> QED  BY <1>2, <3>1 DEF CallType, Step
    <3> QED  BY <2>1, <3>2
  <2> QED  BY <1>1, <2>1
<1>5. TypeOK'
  <2>1. read' \in Seq(UnitValue \cup {NoUnit})
    <3>1. read \in Seq(UnitValue \cup {NoUnit})
      BY DEF IInv, TypeOK
    <3> HIDE DEF p
    <3> QED  BY <1>1, <1>2, <3>1, AppendProperties
  <2>2. /\ line \in 0..Len(File) /\ line \in Nat
        /\ line' \in {line, line + 1} /\ output' \in {output, output \cup {line}}
    BY <1>1, FileLength
  <2>3. line' \in 0..(Len(File) + 1)
    BY <2>2, FileLength
  <2>4. output' \subseteq 0..Len(File)
    BY <2>2 DEF IInv, TypeOK
  <2> QED  BY <1>1, <1>4, <2>1, <2>3, <2>4 DEF IInv, TypeOK
<1>6. CallShape'
  BY <1>1, <1>3, <1>4, FileLength DEF CallShape
<1>7. LoadedIsCurrent' /\ FlagFollowsRequests'
  BY <1>1, <1>3, <1>4 DEF IInv, LoadedIsCurrent, FlagFollowsRequests
<1>8. NamesReadBack'
  BY <1>1, <1>3, <1>4 DEF IInv, NamesReadBack, ReadsAs, AboutToDefine
<1> QED  BY <1>5, <1>6, <1>7, <1>8 DEF IInv

\* A call enters an add function, which checks the flag.
LEMMA CallInv ==
  ASSUME IInv, NEW kind \in Kind, NEW n \in Name, NEW p \in UnitValue,
         CallAdd(kind, n, p), UNCHANGED history
  PROVE  IInv'
<1> DEFINE entered == [kind |-> kind, name |-> n, unit |-> p, step |-> "check",
                       loaded |-> FALSE]
<1>1. /\ call = Idle /\ line = 0 /\ call' = entered
      /\ UNCHANGED <<user_defined_units, user_defined_unit_names,
                     allowUserDefinedUnits, line, output>>
      /\ UNCHANGED <<asked, torn, orderly, steady, read>>
  BY DEF CallAdd, Enter, MutexFree, maps, history
<1>2. call.step = "idle" /\ call' \in CallType /\ call'.step = "check"
  BY <1>1 DEF CallType, Step, Idle
<1>3. TypeOK'
  BY <1>1, <1>2 DEF IInv, TypeOK
<1>4. CallShape' /\ LoadedIsCurrent' /\ FlagFollowsRequests'
  BY <1>1, <1>2, FileLength
  DEF IInv, CallShape, LoadedIsCurrent, FlagFollowsRequests
<1>5. NamesReadBack'
  BY <1>1, <1>2 DEF IInv, NamesReadBack, ReadsAs, AboutToDefine
<1> QED  BY <1>3, <1>4, <1>5 DEF IInv

\* An add function that finds the flag off returns.
LEMMA CheckInv == ASSUME IInv, AddCheck, UNCHANGED history PROVE IInv'
<1>1. call.step = "check" /\ call # Idle
  BY IdleStep DEF AddCheck, Step
<1>2. /\ call \in CallType /\ call.kind \in Kind /\ line <= Len(File)
  BY <1>1, CallTyped DEF IInv, CallShape
<1>3. /\ UNCHANGED <<user_defined_units, user_defined_unit_names,
                     allowUserDefinedUnits, output>>
      /\ UNCHANGED <<asked, torn, orderly, steady, read>>
      /\ line' \in {line, IF line = 0 THEN 0 ELSE line + 1}
      /\ call' = Idle \/ line' = line
  BY DEF AddCheck, Return, Goto, maps, history
<1>4. \/ call' = Idle
      \/ call' = [call EXCEPT !.step = "units"] /\ call.kind = "in"
      \/ call' = [call EXCEPT !.step = "names"] /\ call.kind # "in"
  BY DEF AddCheck, Return, Goto
<1>5. /\ call' \in CallType \cup {Idle}
      /\ call'.step \in {"idle", "units", "names"}
      /\ call'.step = "units" => call'.kind = "in"
      /\ call'.step = "names" => call'.kind # "in"
  <2>1. CASE call' = Idle
    BY <2>1 DEF Idle
  <2>2. CASE call' = [call EXCEPT !.step = "units"] /\ call.kind = "in"
    BY <1>2, <2>2 DEF CallType, Step
  <2>3. CASE call' = [call EXCEPT !.step = "names"] /\ call.kind # "in"
    BY <1>2, <2>3 DEF CallType, Step
  <2> QED  BY <1>4, <2>1, <2>2, <2>3
<1>6. TypeOK'
  <2>1. line' \in 0..(Len(File) + 1)
    BY <1>2, <1>3, FileLength DEF IInv, TypeOK
  <2> QED  BY <1>3, <1>5, <2>1 DEF IInv, TypeOK
<1>7. CallShape' /\ LoadedIsCurrent' /\ FlagFollowsRequests'
  BY <1>2, <1>3, <1>5
  DEF IInv, CallShape, LoadedIsCurrent, FlagFollowsRequests
<1>8. NamesReadBack'
  BY <1>1, <1>3 DEF IInv, NamesReadBack, ReadsAs, AboutToDefine
<1> QED  BY <1>6, <1>7, <1>8 DEF IInv

\* An add function loads the flag: what it will store is current.
LEMMA LoadInv == ASSUME IInv, AddLoad, UNCHANGED history PROVE IInv'
<1>1. call.step = "load" /\ call # Idle
  BY IdleStep DEF AddLoad, Step
<1>2. call \in CallType /\ line <= Len(File)
  BY <1>1, CallTyped DEF IInv, CallShape
<1>3. /\ call' = [call EXCEPT !.step = "store", !.loaded = allowUserDefinedUnits]
      /\ UNCHANGED <<user_defined_units, user_defined_unit_names,
                     allowUserDefinedUnits, line, output>>
      /\ UNCHANGED <<asked, torn, orderly, steady, read>>
  BY DEF AddLoad, maps, history
<1>4. allowUserDefinedUnits \in BOOLEAN
  BY DEF IInv, TypeOK
<1>5. /\ call' \in CallType /\ call'.step = "store"
      /\ call'.loaded = allowUserDefinedUnits
  BY <1>2, <1>3, <1>4 DEF CallType, Step
<1>6. TypeOK'
  BY <1>3, <1>5 DEF IInv, TypeOK
<1>7. CallShape' /\ LoadedIsCurrent' /\ FlagFollowsRequests'
  BY <1>2, <1>3, <1>5
  DEF IInv, CallShape, LoadedIsCurrent, FlagFollowsRequests
<1>8. NamesReadBack'
  BY <1>1, <1>3 DEF IInv, NamesReadBack, ReadsAs, AboutToDefine
<1> QED  BY <1>6, <1>7, <1>8 DEF IInv

\* With the maps cleared nothing is written that does not read back.
LEMMA ClearInv ==
  ASSUME IInv, clearUserDefinedUnits, UNCHANGED history PROVE IInv'
<1>1. /\ user_defined_units' = [n \in Name |-> NoUnit]
      /\ user_defined_unit_names' = [u \in Unit |-> NoName]
      /\ UNCHANGED <<allowUserDefinedUnits, call, line, output>>
      /\ UNCHANGED <<asked, torn, orderly, steady, read>>
  BY DEF clearUserDefinedUnits, history
<1>2. TypeOK'
  BY <1>1 DEF IInv, TypeOK
<1>3. CallShape' /\ LoadedIsCurrent' /\ FlagFollowsRequests'
  BY <1>1 DEF IInv, CallShape, LoadedIsCurrent, FlagFollowsRequests
<1>4. NamesReadBack'
  BY <1>1 DEF NamesReadBack
<1> QED  BY <1>2, <1>3, <1>4 DEF IInv

\* An exception is a complaint about the line, and the end of the file.
LEMMA CatchInv == ASSUME IInv, CatchException, UNCHANGED history PROVE IInv'
<1>1. /\ line \in 1..Len(File) /\ line' = 0 /\ output' = output \cup {line}
      /\ UNCHANGED <<user_defined_units, user_defined_unit_names,
                     allowUserDefinedUnits, call>>
      /\ UNCHANGED <<asked, torn, orderly, steady, read>>
  BY DEF CatchException, maps, history
<1>2. TypeOK'
  BY <1>1, FileLength DEF IInv, TypeOK
<1>3. CallShape' /\ LoadedIsCurrent' /\ FlagFollowsRequests'
  BY <1>1, FileLength DEF IInv, CallShape, LoadedIsCurrent, FlagFollowsRequests
<1>4. NamesReadBack'
  BY <1>1 DEF IInv, NamesReadBack, ReadsAs, AboutToDefine
<1> QED  BY <1>2, <1>3, <1>4 DEF IInv

\* definedUnitsFromFile returns, when no add function it called is running.
LEMMA EndInv == ASSUME IInv, EndOfFile, UNCHANGED history PROVE IInv'
<1>1. /\ line = Len(File) + 1 /\ line' = 0
      /\ UNCHANGED <<user_defined_units, user_defined_unit_names,
                     allowUserDefinedUnits, call, output>>
      /\ UNCHANGED <<asked, torn, orderly, steady, read>>
  BY DEF EndOfFile, maps, history
<1>2. TypeOK'
  BY <1>1, FileLength DEF IInv, TypeOK
<1>3. CallShape' /\ LoadedIsCurrent' /\ FlagFollowsRequests'
  BY <1>1, FileLength DEF IInv, CallShape, LoadedIsCurrent, FlagFollowsRequests
<1>4. NamesReadBack'
  BY <1>1 DEF IInv, NamesReadBack, ReadsAs, AboutToDefine
<1> QED  BY <1>2, <1>3, <1>4 DEF IInv

\* Every step of the registry, and a stutter, preserves the invariant.
LEMMA NextInv == IInv /\ [HNext]_allvars => IInv'
<1> SUFFICES ASSUME IInv, [HNext]_allvars PROVE IInv'
  OBVIOUS
<1>1. ASSUME NEW on \in BOOLEAN, HToggle(on) PROVE IInv'
  BY <1>1, ToggleInv
<1>2. CASE HInsert
  BY <1>2, NameInv, UnitInv DEF HInsert
<1>3. CASE HStore
  BY <1>3, StoreInv
<1>4. ASSUME NEW n \in Name, HRemove(n) PROVE IInv'
  BY <1>4, RemoveInv
<1>5. CASE HOpen
  BY <1>5, OpenInv
<1>6. CASE HReadLine
  BY <1>6, ReadLineInv
<1>7. CASE HOther
  <2>1. ASSUME NEW kind \in Kind, NEW n \in Name, NEW p \in UnitValue,
               CallAdd(kind, n, p)
        PROVE  IInv'
    BY <1>7, <2>1, CallInv DEF HOther
  <2> QED  BY <1>7, <2>1, CheckInv, LoadInv, ClearInv, CatchInv, EndInv DEF HOther
<1>8. CASE UNCHANGED allvars
  <2>1. /\ UNCHANGED <<user_defined_units, user_defined_unit_names,
                       allowUserDefinedUnits, call, line, output>>
        /\ UNCHANGED <<asked, torn, orderly, steady, read>>
    BY <1>8 DEF allvars, vars, history
  <2>2. TypeOK' /\ CallShape' /\ LoadedIsCurrent' /\ FlagFollowsRequests'
    BY <2>1 DEF IInv, TypeOK, CallShape, LoadedIsCurrent, FlagFollowsRequests
  <2>3. NamesReadBack'
    BY <2>1 DEF IInv, NamesReadBack, ReadsAs, AboutToDefine
  <2> QED  BY <2>2, <2>3 DEF IInv
<1> QED  BY <1>1, <1>2, <1>3, <1>4, <1>5, <1>6, <1>7, <1>8 DEF HNext

-----------------------------------------------------------------------------
(***************************************************************************)
(* The theorems                                                            *)
(***************************************************************************)

\* Every behaviour keeps the inductive invariant.
THEOREM Invariance == HSpec => []IInv
<1>1. IInv /\ [HNext]_allvars => IInv'
  BY NextInv
<1> QED  BY InitInv, <1>1, PTL DEF HSpec

\* The registry, the running call and the file position stay well formed.
THEOREM TypeCorrect == HSpec => []TypeOK
<1>1. IInv => TypeOK
  BY DEF IInv
<1> QED  BY <1>1, Invariance, PTL

\* The only request to the flag that can be lost is one that falls between
\* the load and the store at the end of an add function.
THEOREM FlagFollows == HSpec => []FlagFollowsRequests
<1>1. IInv => FlagFollowsRequests
  BY DEF IInv
<1> QED  BY <1>1, Invariance, PTL

\* Whatever the registry writes for a unit it reads back as that unit, while
\* its clients are orderly, whether the flag is on or off.
THEOREM RoundTrip == HSpec => []WrittenNamesReadBack
<1>1. IInv => WrittenNamesReadBack
  <2> SUFFICES ASSUME IInv, orderly, call.step # "units", NEW u \in Unit,
                      find_unit(u) # NoName
               PROVE  /\ get_unit(find_unit(u)) # NoUnit
                      /\ unit_cast[get_unit(find_unit(u))] = u
    BY DEF WrittenNamesReadBack
  <2> DEFINE k == user_defined_unit_names[u]
             b == BuiltinName[u]
  <2>1. CASE allowUserDefinedUnits /\ k # NoName
    <3>1. find_unit(u) = k /\ ReadsAs(k, u)
      BY <2>1 DEF find_unit, IInv, NamesReadBack, AboutToDefine
    <3> QED  BY <2>1, <3>1 DEF get_unit, ReadsAs
  <2>2. CASE ~(allowUserDefinedUnits /\ k # NoName)
    <3>1. find_unit(u) = b /\ b # NoName
      BY <2>2 DEF find_unit
    <3>2. user_defined_units[b] = NoUnit \/ ReadsAs(b, u)
      BY <3>1 DEF IInv, NamesReadBack
    <3>3. Builtin[b] # NoUnit /\ unit_cast[Builtin[b]] = u
      BY <3>1, TablesAssumption
    <3> QED  BY <3>1, <3>2, <3>3 DEF get_unit, ReadsAs
  <2> QED  BY <2>1, <2>2
<1> QED  BY <1>1, Invariance, PTL

-----------------------------------------------------------------------------
(***************************************************************************)
(* What a file defines.  The invariant for it follows the file line by     *)
(* line: what holds at its end has to hold of the lines before this one,   *)
(* and, once the add function that this line called has written a map, of  *)
(* this one.                                                               *)
(***************************************************************************)

\* The lines whose definition the map for reading ("in"), or the map for
\* writing ("out"), has already been given.
Past(kind) ==
  {i \in 1..Len(File) :
     \/ i < line
     \/ /\ i = line
        /\ call.step \in IF kind = "in" THEN {"load", "store"}
                         ELSE {"units", "load", "store"}}

\* While a file is read, the call in progress is that of its line, and the
\* lines before it were read: those not complained of mean a unit.
FileCall ==
  line # 0 =>
    /\ output \subseteq 1..(line - 1)
    /\ Len(read) = IF call = Idle THEN line - 1 ELSE line
    /\ call # Idle => /\ call.kind = File[line].kind
                      /\ call.name = File[line].name
                      /\ call.unit = read[line]
    /\ \A i \in 1..Len(read) :
         i \notin output => File[i].name \in Name /\ read[i] \in UnitValue

\* While the flag is steady it is on, and so is what is about to be stored.
FlagSteady == steady => /\ allowUserDefinedUnits
                        /\ call.step = "store" => call.loaded

\* The lines past are defined for reading, or a later one replaced them.
UnitsDefined ==
  steady /\ line # 0 =>
    \A i \in Past("in") : Defines(i, "in") =>
      \/ user_defined_units[File[i].name] = read[i]
      \/ \E j \in Past("in") :
           i < j /\ Defines(j, "in") /\ File[j].name = File[i].name

\* The lines past are defined for writing, or a later one replaced them.
NamesDefined ==
  steady /\ line # 0 =>
    \A i \in Past("out") : Defines(i, "out") =>
      \/ user_defined_unit_names[unit_cast[read[i]]] = File[i].name
      \/ \E j \in Past("out") :
           i < j /\ Defines(j, "out") /\ unit_cast[read[j]] = unit_cast[read[i]]

FInv == FileCall /\ FlagSteady /\ UnitsDefined /\ NamesDefined

\* A step that leaves the map for reading alone, and gets past no line that
\* defines anything for reading, keeps the definitions.
LEMMA UnitsKept ==
  ASSUME UnitsDefined, line # 0, steady' => steady,
         UNCHANGED user_defined_units,
         Past("in") \subseteq Past("in")',
         \A i \in Past("in")' : Defines(i, "in")' => i \in Past("in"),
         \A i \in Past("in") : /\ read'[i] = read[i]
                               /\ Defines(i, "in")' <=> Defines(i, "in")
  PROVE  UnitsDefined'
<1> SUFFICES ASSUME steady', NEW i \in Past("in")', Defines(i, "in")'
             PROVE  \/ user_defined_units'[File[i].name] = read'[i]
                    \/ \E j \in Past("in")' :
                         i < j /\ Defines(j, "in")' /\ File[j].name = File[i].name
  BY DEF UnitsDefined
<1>1. i \in Past("in") /\ Defines(i, "in") /\ steady
  OBVIOUS
<1>2. CASE user_defined_units[File[i].name] = read[i]
  BY <1>1, <1>2
<1>3. ASSUME NEW j \in Past("in"), i < j, Defines(j, "in"),
             File[j].name = File[i].name
      PROVE  \E k \in Past("in")' :
               i < k /\ Defines(k, "in")' /\ File[k].name = File[i].name
  BY <1>3
<1> QED  BY <1>1, <1>2, <1>3 DEF UnitsDefined

\* The same of the map for writing.
LEMMA NamesKept ==
  ASSUME NamesDefined, line # 0, steady' => steady,
         UNCHANGED user_defined_unit_names,
         Past("out") \subseteq Past("out")',
         \A i \in Past("out")' : Defines(i, "out")' => i \in Past("out"),
         \A i \in Past("out") : /\ read'[i] = read[i]
                                /\ Defines(i, "out")' <=> Defines(i, "out")
  PROVE  NamesDefined'
<1> SUFFICES ASSUME steady', NEW i \in Past("out")', Defines(i, "out")'
             PROVE  \/ user_defined_unit_names'[unit_cast[read'[i]]] = File[i].name
                    \/ \E j \in Past("out")' :
                         /\ i < j /\ Defines(j, "out")'
                         /\ unit_cast[read'[j]] = unit_cast[read'[i]]
  BY DEF NamesDefined
<1>1. i \in Past("out") /\ Defines(i, "out") /\ steady /\ read'[i] = read[i]
  OBVIOUS
<1>2. CASE user_defined_unit_names[unit_cast[read[i]]] = File[i].name
  BY <1>1, <1>2
<1>3. ASSUME NEW j \in Past("out"), i < j, Defines(j, "out"),
             unit_cast[read[j]] = unit_cast[read[i]]
      PROVE  \E k \in Past("out")' :
               /\ i < k /\ Defines(k, "out")'
               /\ unit_cast[read'[k]] = unit_cast[read'[i]]
  BY <1>1, <1>3
<1> QED  BY <1>1, <1>2, <1>3 DEF NamesDefined

\* Every step keeps the flag steady or says that it is not: an add function
\* that stores what it loaded before the flag was turned off is such a step.
LEMMA FlagSteadyNext == ASSUME IInv, FlagSteady, HNext PROVE FlagSteady'
<1> USE DEF FlagSteady
<1>1. ASSUME NEW on \in BOOLEAN, HToggle(on) PROVE FlagSteady'
  BY <1>1 DEF HToggle, enableUserDefinedUnits, disableUserDefinedUnits
<1>2. CASE HInsert
  <2>1. /\ call.step \in {"names", "units"} /\ call # Idle
        /\ UNCHANGED <<allowUserDefinedUnits, steady>>
        /\ call' \in {[call EXCEPT !.step = "load"], [call EXCEPT !.step = "units"]}
    BY <1>2, IdleStep DEF HInsert, AddName, AddUnit, Goto, Step
  <2>2. call'.step # "store"
    BY <2>1, CallTyped DEF IInv, CallType
  <2> QED  BY <2>1, <2>2
<1>3. CASE HStore
  <2>1. call'.step # "store"
    BY <1>3, IdleStep DEF HStore, AddStore, Return, Step
  <2> QED  BY <1>3, <2>1 DEF HStore, AddStore
<1>4. ASSUME NEW n \in Name, HRemove(n) PROVE FlagSteady'
  BY <1>4 DEF HRemove, removeUserDefinedUnit
<1>5. CASE HOpen
  <2>1. call.step # "store"
    BY <1>5, IdleStep DEF HOpen, definedUnitsFromFile, MutexFree, Step
  <2> QED  BY <1>5, <2>1 DEF HOpen, definedUnitsFromFile
<1>6. CASE HReadLine
  <2>1. /\ call = Idle /\ UNCHANGED <<allowUserDefinedUnits, steady>>
        /\ \/ call' = call
           \/ \E k, n, p : Enter(k, n, p)
    BY <1>6 DEF HReadLine, ReadLine
  <2>2. call'.step # "store"
    BY <2>1, IdleStep DEF Enter, Step
  <2> QED  BY <2>1, <2>2
<1>7. CASE HOther
  <2>1. ASSUME NEW k, NEW n, NEW p, CallAdd(k, n, p) PROVE FlagSteady'
    <3>1. call'.step # "store" /\ UNCHANGED allowUserDefinedUnits
      BY <2>1 DEF CallAdd, Enter
    <3> QED  BY <1>7, <3>1 DEF HOther, history
  <2>2. CASE AddCheck
    <3>1. /\ call.step = "check" /\ call # Idle /\ UNCHANGED allowUserDefinedUnits
          /\ call' \in {Idle, [call EXCEPT !.step = "names"],
                        [call EXCEPT !.step = "units"]}
      BY <2>2, IdleStep DEF AddCheck, Return, Goto, Step
    <3>2. call'.step # "store"
      BY <3>1, CallTyped, IdleStep DEF IInv, CallType, Step
    <3> QED  BY <1>7, <3>1, <3>2 DEF HOther, history
  <2>3. CASE AddLoad
    <3>1. /\ call # Idle /\ UNCHANGED allowUserDefinedUnits
          /\ call' = [call EXCEPT !.step = "store", !.loaded = allowUserDefinedUnits]
      BY <2>3, IdleStep DEF AddLoad, Step
    <3>2. call'.loaded = allowUserDefinedUnits
      BY <3>1, CallTyped DEF IInv, CallType
    <3> QED  BY <1>7, <3>1, <3>2 DEF HOther, history
  <2>4. CASE clearUserDefinedUnits \/ CatchException \/ EndOfFile
    BY <1>7, <2>4
    DEF HOther, history, clearUserDefinedUnits, CatchException, EndOfFile
  <2> QED  BY <1>7, <2>1, <2>2, <2>3, <2>4 DEF HOther
<1> QED  BY <1>1, <1>2, <1>3, <1>4, <1>5, <1>6, <1>7 DEF HNext

\* A request to the flag writes no map.
LEMMA ToggleFile ==
  ASSUME FInv, NEW on \in BOOLEAN, HToggle(on), line # 0
  PROVE  FileCall' /\ UnitsDefined' /\ NamesDefined'
<1>1. /\ UNCHANGED <<user_defined_units, user_defined_unit_names, call, line, output>>
      /\ UNCHANGED read /\ steady' = (steady /\ on)
  BY DEF HToggle, enableUserDefinedUnits, disableUserDefinedUnits, maps
<1>2. FileCall'
  BY <1>1 DEF FInv, FileCall
<1>3. \A kind, i : /\ Past(kind)' = Past(kind)
                   /\ Defines(i, kind)' <=> Defines(i, kind)
  BY <1>1 DEF Past, Defines
<1> QED  BY <1>1, <1>2, <1>3, UnitsKept, NamesKept DEF FInv

\* addUserDefinedUnit and addUserDefinedOutputUnit give this line its name;
\* where a line before it named the same unit, this one replaces it.
LEMMA NameFile ==
  ASSUME IInv, FInv, AddName, HInsert, line # 0
  PROVE  FileCall' /\ UnitsDefined' /\ NamesDefined'
<1> DEFINE v == unit_cast[call.unit]
<1>1. call.step = "names" /\ call # Idle
  BY IdleStep DEF AddName, Step
<1>2. /\ call \in CallType /\ v \in Unit /\ call.kind # "in"
      /\ call.kind \in Kind
  BY <1>1, CallTyped DEF IInv, CallShape
<1>3. /\ user_defined_unit_names' = [user_defined_unit_names EXCEPT ![v] = call.name]
      /\ call' = [call EXCEPT !.step = IF call.kind = "out" THEN "load" ELSE "units"]
      /\ UNCHANGED <<user_defined_units, line, output, steady, read>>
  BY DEF AddName, HInsert, Goto
<1>4. /\ call'.kind = call.kind /\ call'.name = call.name /\ call'.unit = call.unit
      /\ call'.step = IF call.kind = "out" THEN "load" ELSE "units"
      /\ call' # Idle
  BY <1>2, <1>3, IdleStep DEF CallType, Step
<1>5. /\ line \in 1..Len(File) /\ line \notin output
      /\ call.kind = File[line].kind /\ call.name = File[line].name
      /\ call.unit = read[line]
  BY <1>1, FileLength DEF IInv, TypeOK, CallShape, FInv, FileCall
<1>6. FileCall'
  BY <1>1, <1>3, <1>4 DEF FInv, FileCall
<1>7. \A kind, i : Defines(i, kind)' <=> Defines(i, kind)
  BY <1>3 DEF Defines
<1>8. UnitsDefined'
  <2>1. /\ Past("in") \subseteq Past("in")'
        /\ \A i \in Past("in")' : i # line => i \in Past("in")
    BY <1>1, <1>3, <1>4 DEF Past
  <2>2. line \in Past("in")' => ~Defines(line, "in")
    BY <1>2, <1>3, <1>4, <1>5, FileLength DEF Past, Defines
  <2> QED  BY <1>3, <1>7, <2>1, <2>2, UnitsKept DEF FInv
<1>9. NamesDefined'
  <2>1. Past("out")' = Past("out") \cup {line} /\ line \notin Past("out")
    BY <1>1, <1>3, <1>4, <1>5 DEF Past
  <2>2. Defines(line, "out")'
    BY <1>2, <1>3, <1>5 DEF Defines, Kind
  <2>3. \A i \in Past("out") : i < line
    BY <1>1 DEF Past
  <2> SUFFICES ASSUME steady', NEW i \in Past("out")', Defines(i, "out")',
                      unit_cast[read[i]] # v
               PROVE  \/ user_defined_unit_names'[unit_cast[read[i]]] = File[i].name
                      \/ \E j \in Past("out")' :
                           /\ i < j /\ Defines(j, "out")'
                           /\ unit_cast[read[j]] = unit_cast[read[i]]
    <3>1. user_defined_unit_names'[v] = call.name
      BY <1>2, <1>3 DEF IInv, TypeOK
    <3>2. unit_cast[read[line]] = v
      BY <1>5
    <3>3. ASSUME NEW i \in Past("out")', unit_cast[read[i]] = v
          PROVE  \/ user_defined_unit_names'[unit_cast[read[i]]] = File[i].name
                 \/ \E j \in Past("out")' :
                      /\ i < j /\ Defines(j, "out")'
                      /\ unit_cast[read[j]] = unit_cast[read[i]]
      <4>1. CASE i = line
        BY <1>5, <3>1, <3>3, <4>1
      <4>2. CASE i # line
        <5>1. i \in Past("out") /\ i < line
          BY <2>1, <2>3, <4>2
        <5>2. line \in Past("out")' /\ Defines(line, "out")'
          BY <2>1, <2>2
        <5> QED  BY <1>3, <3>2, <3>3, <5>1, <5>2
      <4> QED  BY <4>1, <4>2
    <3> QED  BY <1>3, <3>3 DEF NamesDefined
  <2>4. i \in Past("out") /\ Defines(i, "out") /\ steady
    BY <1>3, <1>5, <1>7, <2>1
  <2>5. CASE user_defined_unit_names[unit_cast[read[i]]] = File[i].name
    <3>1. user_defined_unit_names'[unit_cast[read[i]]]
            = user_defined_unit_names[unit_cast[read[i]]]
      BY <1>3, <1>5 DEF IInv, TypeOK
    <3> QED  BY <2>5, <3>1
  <2>6. ASSUME NEW j \in Past("out"), i < j, Defines(j, "out"),
               unit_cast[read[j]] = unit_cast[read[i]]
        PROVE  \E k \in Past("out")' : /\ i < k /\ Defines(k, "out")'
                                       /\ unit_cast[read[k]] = unit_cast[read[i]]
    BY <1>7, <2>1, <2>6
  <2> QED  BY <2>4, <2>5, <2>6 DEF FInv, NamesDefined
<1> QED  BY <1>6, <1>8, <1>9

\* addUserDefinedUnit and addUserDefinedInputUnit give the name of this line
\* its meaning; this line replaces one before it that has the same name.
LEMMA UnitFile ==
  ASSUME IInv, FInv, AddUnit, HInsert, line # 0
  PROVE  FileCall' /\ UnitsDefined' /\ NamesDefined'
<1>1. call.step = "units" /\ call # Idle
  BY IdleStep DEF AddUnit, Step
<1>2. /\ call \in CallType /\ call.name \in Name /\ call.kind # "out"
      /\ call.kind \in Kind
  BY <1>1, CallTyped DEF IInv, CallShape
<1>3. /\ user_defined_units' = [user_defined_units EXCEPT ![call.name] = call.unit]
      /\ call' = [call EXCEPT !.step = "load"]
      /\ UNCHANGED <<user_defined_unit_names, line, output, steady, read>>
  BY DEF AddUnit, HInsert, Goto
<1>4. /\ call'.kind = call.kind /\ call'.name = call.name /\ call'.unit = call.unit
      /\ call'.step = "load" /\ call' # Idle
  BY <1>2, <1>3, IdleStep DEF CallType, Step
<1>5. /\ line \in 1..Len(File) /\ line \notin output
      /\ call.kind = File[line].kind /\ call.name = File[line].name
      /\ call.unit = read[line]
  BY <1>1, FileLength DEF IInv, TypeOK, CallShape, FInv, FileCall
<1>6. FileCall'
  BY <1>1, <1>3, <1>4 DEF FInv, FileCall
<1>7. \A kind, i : Defines(i, kind)' <=> Defines(i, kind)
  BY <1>3 DEF Defines
<1>8. NamesDefined'
  <2>1. Past("out")' = Past("out")
    BY <1>1, <1>3, <1>4 DEF Past
  <2> QED  BY <1>3, <1>7, <2>1, NamesKept DEF FInv
<1>9. UnitsDefined'
  <2>1. Past("in")' = Past("in") \cup {line} /\ line \notin Past("in")
    BY <1>1, <1>3, <1>4, <1>5 DEF Past
  <2>2. Defines(line, "in")'
    BY <1>2, <1>3, <1>5 DEF Defines, Kind
  <2>3. \A i \in Past("in") : i < line
    BY <1>1 DEF Past
  <2> SUFFICES ASSUME steady', NEW i \in Past("in")', Defines(i, "in")',
                      File[i].name # call.name
               PROVE  \/ user_defined_units'[File[i].name] = read[i]
                      \/ \E j \in Past("in")' :
                           i < j /\ Defines(j, "in")' /\ File[j].name = File[i].name
    <3>1. user_defined_units'[call.name] = call.unit
      BY <1>2, <1>3 DEF IInv, TypeOK
    <3>2. ASSUME NEW i \in Past("in")', File[i].name = call.name
          PROVE  \/ user_defined_units'[File[i].name] = read[i]
                 \/ \E j \in Past("in")' :
                      i < j /\ Defines(j, "in")' /\ File[j].name = File[i].name
      <4>1. CASE i = line
        BY <1>5, <3>1, <3>2, <4>1
      <4>2. CASE i # line
        <5>1. i \in Past("in") /\ i < line
          BY <2>1, <2>3, <4>2
        <5>2. line \in Past("in")' /\ Defines(line, "in")'
          BY <2>1, <2>2
        <5> QED  BY <1>3, <1>5, <3>2, <5>1, <5>2
      <4> QED  BY <4>1, <4>2
    <3> QED  BY <1>3, <3>2 DEF UnitsDefined
  <2>4. i \in Past("in") /\ Defines(i, "in") /\ steady
    BY <1>3, <1>5, <1>7, <2>1
  <2>5. CASE user_defined_units[File[i].name] = read[i]
    <3>1. user_defined_units'[File[i].name] = user_defined_units[File[i].name]
      BY <1>3 DEF IInv, TypeOK
    <3> QED  BY <2>5, <3>1
  <2>6. ASSUME NEW j \in Past("in"), i < j, Defines(j, "in"),
               File[j].name = File[i].name
        PROVE  \E k \in Past("in")' :
                 i < k /\ Defines(k, "in")' /\ File[k].name = File[i].name
    BY <1>7, <2>1, <2>6
  <2> QED  BY <2>4, <2>5, <2>6 DEF FInv, UnitsDefined
<1> QED  BY <1>6, <1>8, <1>9

\* The add function returns: definedUnitsFromFile is past the line.
LEMMA StoreFile ==
  ASSUME IInv, FInv, HStore, line # 0
  PROVE  FileCall' /\ UnitsDefined' /\ NamesDefined'
<1>1. call.step = "store" /\ call # Idle /\ line <= Len(File)
  BY IdleStep DEF HStore, AddStore, Step, IInv, CallShape
<1>2. /\ call' = Idle /\ line' = line + 1
      /\ steady' = (steady /\ call.loaded)
      /\ UNCHANGED <<user_defined_units, user_defined_unit_names, output, read>>
  BY DEF HStore, AddStore, Return, maps
<1>3. line \in 1..Len(File) /\ line \in Nat
  BY <1>1, FileLength DEF IInv, TypeOK
<1>4. FileCall'
  BY <1>1, <1>2, <1>3 DEF FInv, FileCall
<1>5. \A kind, i : Defines(i, kind)' <=> Defines(i, kind)
  BY <1>2 DEF Defines
<1>6. Past("in")' = Past("in") /\ Past("out")' = Past("out")
  BY <1>1, <1>2, <1>3, IdleStep DEF Past, Step
<1> QED  BY <1>2, <1>4, <1>5, <1>6, UnitsKept, NamesKept DEF FInv

\* A call that finds the flag off defines nothing, and then the flag has not
\* been steady; one that finds it on has nothing to write yet but what its
\* kind writes.
LEMMA CheckFile ==
  ASSUME IInv, FInv, AddCheck, UNCHANGED history, line # 0
  PROVE  FileCall' /\ UnitsDefined' /\ NamesDefined'
<1>1. call.step = "check" /\ call # Idle /\ line <= Len(File)
  BY IdleStep DEF AddCheck, Step, IInv, CallShape
<1>2. /\ UNCHANGED <<user_defined_units, user_defined_unit_names, output>>
      /\ UNCHANGED <<steady, read>>
  BY DEF AddCheck, Return, maps, history
<1>3. line \in 1..Len(File) /\ line \in Nat
  BY <1>1, FileLength DEF IInv, TypeOK
<1>4. CASE ~allowUserDefinedUnits
  <2>1. call' = Idle /\ line' = line + 1
    BY <1>4 DEF AddCheck, Return
  <2>2. FileCall'
    BY <1>1, <1>2, <1>3, <2>1 DEF FInv, FileCall
  <2> QED  BY <1>2, <1>4, <2>2 DEF FInv, FlagSteady, UnitsDefined, NamesDefined
<1>5. CASE allowUserDefinedUnits
  <2>1. /\ call' = [call EXCEPT !.step = IF call.kind = "in" THEN "units" ELSE "names"]
        /\ line' = line
    BY <1>5 DEF AddCheck, Goto
  <2>2. /\ call'.kind = call.kind /\ call'.name = call.name /\ call'.unit = call.unit
        /\ call'.step = IF call.kind = "in" THEN "units" ELSE "names"
        /\ call' # Idle
    BY <1>1, <2>1, CallTyped, IdleStep DEF IInv, CallType, Step
  <2>3. FileCall'
    BY <1>1, <1>2, <2>1, <2>2 DEF FInv, FileCall
  <2>4. \A kind, i : Defines(i, kind)' <=> Defines(i, kind)
    BY <1>2 DEF Defines
  <2>5. Past("in")' = Past("in")
    BY <1>1, <2>1, <2>2 DEF Past
  <2>6. /\ Past("out") \subseteq Past("out")'
        /\ \A i \in Past("out")' : i \in Past("out") \/ (i = line /\ call.kind = "in")
    BY <1>1, <2>1, <2>2 DEF Past
  <2>7. \A i \in Past("out")' : Defines(i, "out")' => i \in Past("out")
    BY <1>1, <2>4, <2>6 DEF Defines, FInv, FileCall
  <2> QED  BY <1>2, <2>3, <2>4, <2>5, <2>6, <2>7, UnitsKept, NamesKept DEF FInv
<1> QED  BY <1>4, <1>5

\* Loading the flag writes no map.
LEMMA LoadFile ==
  ASSUME IInv, FInv, AddLoad, UNCHANGED history, line # 0
  PROVE  FileCall' /\ UnitsDefined' /\ NamesDefined'
<1>1. call.step = "load" /\ call # Idle
  BY IdleStep DEF AddLoad, Step
<1>2. /\ call' = [call EXCEPT !.step = "store", !.loaded = allowUserDefinedUnits]
      /\ UNCHANGED <<user_defined_units, user_defined_unit_names, line, output>>
      /\ UNCHANGED <<steady, read>>
  BY DEF AddLoad, maps, history
<1>3. /\ call'.kind = call.kind /\ call'.name = call.name /\ call'.unit = call.unit
      /\ call'.step = "store" /\ call' # Idle
  BY <1>1, <1>2, CallTyped, IdleStep DEF IInv, CallType, Step
<1>4. FileCall'
  BY <1>1, <1>2, <1>3 DEF FInv, FileCall
<1>5. \A kind, i : Defines(i, kind)' <=> Defines(i, kind)
  BY <1>2 DEF Defines
<1>6. Past("in")' = Past("in") /\ Past("out")' = Past("out")
  BY <1>1, <1>2, <1>3 DEF Past
<1> QED  BY <1>2, <1>4, <1>5, <1>6, UnitsKept, NamesKept DEF FInv

\* A line that is complained of defines nothing, and one that is not has its
\* definition read and its add function called.
LEMMA ReadLineFile ==
  ASSUME IInv, FInv, HReadLine
  PROVE  FileCall' /\ UnitsDefined' /\ NamesDefined'
<1> DEFINE l == File[line]
           p == measurement_from_string(l)
<1>1. /\ line \in 1..Len(File) /\ line \in Nat /\ line # 0 /\ call = Idle
      /\ \/ /\ l.name = NoName \/ p = NoUnit
            /\ output' = output \cup {line} /\ line' = line + 1 /\ call' = call
         \/ /\ l.name # NoName /\ p # NoUnit
            /\ call' = [kind |-> l.kind, name |-> l.name, unit |-> p,
                        step |-> "check", loaded |-> FALSE]
            /\ line' = line /\ output' = output
      /\ UNCHANGED <<user_defined_units, user_defined_unit_names, steady>>
      /\ read' = Append(read, p)
  BY FileLength DEF HReadLine, ReadLine, Enter, maps
<1>2. /\ l \in LineType /\ l.name \in Name \cup {NoName}
      /\ p \in UnitValue \cup {NoUnit}
  BY <1>1, LineTyped DEF IInv, LineType
<1> HIDE DEF l, p
<1>3. /\ Len(read) = line - 1 /\ output \subseteq 1..(line - 1)
      /\ \A i \in 1..(line - 1) :
           i \notin output => File[i].name \in Name /\ read[i] \in UnitValue
  BY <1>1 DEF FInv, FileCall
<1>4. /\ Len(read') = line /\ read'[line] = p
      /\ \A i \in 1..(line - 1) : read'[i] = read[i]
  BY <1>1, <1>2, <1>3, AppendProperties DEF IInv, TypeOK
<1>5. Idle.step \notin {"units", "load", "store"} /\ call.step = Idle.step
  BY <1>1, IdleStep DEF Step
<1>6. \/ line' = line + 1 /\ call' = Idle
      \/ line' = line /\ call'.step = "check" /\ call' # Idle
  <2>1. CASE call' = call /\ line' = line + 1
    BY <1>1, <2>1
  <2>2. CASE /\ call' = [kind |-> l.kind, name |-> l.name, unit |-> p,
                         step |-> "check", loaded |-> FALSE]
             /\ line' = line
    <3>1. call'.step = "check"
      BY <2>2
    <3> QED  BY <2>2, <3>1, IdleStep DEF Step
  <2> QED  BY <1>1, <2>1, <2>2
<1>7. FileCall'
  <2>1. CASE line' = line + 1
    <3>1. call' = Idle /\ output' = output \cup {line}
      BY <1>1, <2>1
    <3> QED  BY <1>1, <1>3, <1>4, <2>1, <3>1 DEF FileCall
  <2>2. CASE line' = line
    <3>1. /\ call' # Idle /\ call'.kind = l.kind /\ call'.name = l.name
          /\ call'.unit = p /\ output' = output
          /\ l.name \in Name /\ p \in UnitValue
      BY <1>1, <1>2, <1>6, <2>2, IdleStep DEF Step
    <3> QED  BY <1>1, <1>3, <1>4, <2>2, <3>1 DEF FileCall, l
  <2> QED  BY <1>1, <2>1, <2>2
<1>8. ASSUME NEW kind \in {"in", "out"}
      PROVE  /\ Past(kind) = 1..(line - 1)
             /\ Past(kind)' = 1..(line' - 1)
  <2>1. Past(kind) = 1..(line - 1)
    BY <1>1, <1>5, FileLength DEF Past
  <2>2. /\ call'.step \notin {"units", "load", "store"}
        /\ line' \in {line, line + 1}
    BY <1>5, <1>6
  <2>3. Past(kind)' = 1..(line' - 1)
    BY <1>1, <2>2, FileLength DEF Past
  <2> QED  BY <2>1, <2>3
<1>9. ASSUME NEW kind \in {"in", "out"}
      PROVE  /\ Past(kind) \subseteq Past(kind)'
             /\ \A i \in Past(kind)' : Defines(i, kind)' => i \in Past(kind)
             /\ \A i \in Past(kind) : Defines(i, kind)' <=> Defines(i, kind)
  <2>1. \A i \in 1..(line - 1) : Defines(i, kind)' <=> Defines(i, kind)
    BY <1>1 DEF Defines
  <2>2. \A i : line' = line + 1 /\ i = line => ~Defines(i, kind)'
    BY <1>1 DEF Defines
  <2>3. \/ line' = line /\ Past(kind)' = Past(kind)
        \/ line' = line + 1 /\ Past(kind)' = Past(kind) \cup {line}
    BY <1>1, <1>6, <1>8
  <2>4. Past(kind) \subseteq Past(kind)'
    BY <2>3
  <2>5. \A i \in Past(kind)' : Defines(i, kind)' => i \in Past(kind)
    BY <2>2, <2>3
  <2>6. \A i \in Past(kind) : Defines(i, kind)' <=> Defines(i, kind)
    BY <1>8, <2>1
  <2> QED  BY <2>4, <2>5, <2>6
<1>10. UnitsDefined'
  BY <1>1, <1>4, <1>8, <1>9, UnitsKept DEF FInv
<1>11. NamesDefined'
  BY <1>1, <1>4, <1>8, <1>9, NamesKept DEF FInv
<1> QED  BY <1>7, <1>10, <1>11

\* When the file opens no line is past; when it does not there is no file.
LEMMA OpenFile ==
  ASSUME IInv, HOpen
  PROVE  FileCall' /\ UnitsDefined' /\ NamesDefined'
<1>1. /\ call = Idle /\ call' = Idle /\ read' = <<>>
      /\ (line' = 1 /\ output' = {}) \/ line' = 0
  BY DEF HOpen, definedUnitsFromFile, MutexFree
<1>2. FileCall'
  BY <1>1 DEF FileCall
<1>3. line' # 0 => Past("in")' = {} /\ Past("out")' = {}
  BY <1>1, IdleStep DEF Past, Step
<1> QED  BY <1>2, <1>3 DEF UnitsDefined, NamesDefined

\* Every step of the registry, and a stutter, preserves what the file defines.
LEMMA FileNextInv == IInv /\ FInv /\ [HNext]_allvars => FInv'
<1> SUFFICES ASSUME IInv, FInv, [HNext]_allvars PROVE FInv'
  OBVIOUS
<1>1. CASE UNCHANGED allvars
  BY <1>1 DEF allvars, vars, history, FInv, FileCall, FlagSteady, UnitsDefined,
              NamesDefined, Past, Defines
<1>2. CASE HNext
  <2>1. FlagSteady'
    BY <1>2, FlagSteadyNext DEF FInv
  <2>2. line' = 0 => FInv'
    BY <2>1 DEF FInv, FileCall, UnitsDefined, NamesDefined
  <2>3. ASSUME NEW on \in BOOLEAN, HToggle(on) PROVE line = line'
    BY <2>3 DEF HToggle, enableUserDefinedUnits, disableUserDefinedUnits
  <2>4. ASSUME NEW on \in BOOLEAN, HToggle(on) PROVE FInv'
    BY <2>1, <2>2, <2>3, <2>4, ToggleFile DEF FInv
  <2>5. CASE HInsert
    <3>1. line' = line
      BY <2>5 DEF HInsert, AddName, AddUnit
    <3> QED  BY <2>1, <2>2, <2>5, <3>1, NameFile, UnitFile DEF FInv, HInsert
  <2>6. CASE HStore
    <3>1. line = 0 => line' = 0
      BY <2>6 DEF HStore, AddStore, Return
    <3> QED  BY <2>1, <2>2, <2>6, <3>1, StoreFile DEF FInv
  <2>7. ASSUME NEW n \in Name, HRemove(n) PROVE FInv'
    <3>1. line' = 0
      BY <2>7 DEF HRemove, removeUserDefinedUnit, MutexFree
    <3> QED  BY <2>2, <3>1
  <2>8. CASE HOpen
    BY <2>1, <2>8, OpenFile DEF FInv
  <2>9. CASE HReadLine
    BY <2>1, <2>9, ReadLineFile DEF FInv
  <2>10. CASE HOther
    <3>1. UNCHANGED history
      BY <2>10 DEF HOther
    <3>2. ASSUME NEW kind, NEW n, NEW p, CallAdd(kind, n, p) PROVE line' = 0
      BY <3>2 DEF CallAdd, MutexFree
    <3>3. CASE AddCheck
      <4>1. line = 0 => line' = 0
        BY <3>3 DEF AddCheck, Return
      <4> QED  BY <2>1, <2>2, <3>1, <3>3, <4>1, CheckFile DEF FInv
    <3>4. CASE AddLoad
      <4>1. line = 0 => line' = 0
        BY <3>4 DEF AddLoad
      <4> QED  BY <2>1, <2>2, <3>1, <3>4, <4>1, LoadFile DEF FInv
    <3>5. CASE clearUserDefinedUnits \/ CatchException \/ EndOfFile
      <4>1. line' = 0
        BY <3>5 DEF clearUserDefinedUnits, CatchException, EndOfFile, MutexFree
      <4> QED  BY <2>2, <4>1
    <3> QED  BY <2>2, <2>10, <3>2, <3>3, <3>4, <3>5 DEF HOther
  <2> QED  BY <1>2, <2>4, <2>5, <2>6, <2>7, <2>8, <2>9, <2>10 DEF HNext
<1> QED  BY <1>1, <1>2

\* At the end of the file every line it did not complain of is defined as it
\* read, for reading and for writing, or replaced by a later line, if no one
\* turned the flag off since definedUnitsFromFile was called: no other
\* interleaving with the requests to the flag loses a definition.
THEOREM FileDefines == HSpec => []FileDefinesWhatItAccepts
<1>1. HInit => FInv
  BY DEF HInit, Init, FInv, FileCall, FlagSteady, UnitsDefined, NamesDefined
<1>2. IInv /\ FInv /\ [HNext]_allvars => FInv'
  BY FileNextInv
<1>3. IInv /\ FInv => FileDefinesWhatItAccepts
  <2> SUFFICES ASSUME IInv, FInv, line = Len(File) + 1, steady, NEW i \in 1..Len(File)
               PROVE  /\ \/ ~Defines(i, "in")
                         \/ user_defined_units[File[i].name] = read[i]
                         \/ \E j \in (i + 1)..Len(File) :
                              Defines(j, "in") /\ File[j].name = File[i].name
                      /\ \/ ~Defines(i, "out")
                         \/ user_defined_unit_names[unit_cast[read[i]]] = File[i].name
                         \/ \E j \in (i + 1)..Len(File) :
                              /\ Defines(j, "out")
                              /\ unit_cast[read[j]] = unit_cast[read[i]]
    BY DEF FileDefinesWhatItAccepts
  <2>1. line # 0 /\ i \in Past("in") /\ i \in Past("out")
    BY FileLength DEF Past
  <2>2. \A kind : \A j \in Past(kind) : i < j => j \in (i + 1)..Len(File)
    BY FileLength DEF Past
  <2>3. \/ ~Defines(i, "in")
        \/ user_defined_units[File[i].name] = read[i]
        \/ \E j \in (i + 1)..Len(File) :
             Defines(j, "in") /\ File[j].name = File[i].name
    BY <2>1, <2>2 DEF FInv, UnitsDefined
  <2>4. \/ ~Defines(i, "out")
        \/ user_defined_unit_names[unit_cast[read[i]]] = File[i].name
        \/ \E j \in (i + 1)..Len(File) :
             Defines(j, "out") /\ unit_cast[read[j]] = unit_cast[read[i]]
    BY <2>1, <2>2 DEF FInv, NamesDefined
  <2> QED  BY <2>3, <2>4
<1> QED  BY <1>1, <1>2, <1>3, Invariance, PTL DEF HSpec
=============================================================================
