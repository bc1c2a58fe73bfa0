------------------------------ MODULE UserUnits ------------------------------
(***************************************************************************)
(* The registry of user defined units (units/units.cpp): the map from      *)
(* strings to units that the string reader consults, the map from units to *)
(* strings that the string writer consults, and the atomic flag that turns *)
(* both, and the functions that add to them, off.                          *)
(*                                                                         *)
(* As the documentation asks, the functions that touch the maps are called *)
(* under one mutex: one of them runs at a time, and to_string and          *)
(* unit_from_string run between them.  The flag is not under that mutex:   *)
(* another thread disables and enables it between any two accesses.        *)
(*                                                                         *)
(* A string is a member of Name.  What the reader makes of it when no user *)
(* definition applies (tables, prefixes, partitioning) is Builtin, and the *)
(* name the writer finds for a unit in its own table is BuiltinName.       *)
(***************************************************************************)
EXTENDS Integers, Sequences

CONSTANTS
  Name,          \* strings used as unit names
  UnitValue,     \* precise_units: the values of user_defined_units
  Unit,          \* units: the keys of user_defined_unit_names
  unit_cast,     \* [UnitValue -> Unit], loses precision and commodity
  NoUnit,        \* precise::invalid, or no entry
  NoName,        \* the empty string, or no entry
  Builtin,       \* what a string means without user definitions
  BuiltinName,   \* base_unit_names
  File           \* the lines of the file that definedUnitsFromFile reads

ASSUME NoUnitAssumption == NoUnit \notin UnitValue
ASSUME NoNameAssumption == NoName \notin Name
ASSUME CastAssumption == unit_cast \in [UnitValue -> Unit]
ASSUME BuiltinAssumption == /\ Builtin \in [Name -> UnitValue \cup {NoUnit}]
                            /\ BuiltinName \in [Unit -> Name \cup {NoName}]
\* The built-in tables read back what they write.
ASSUME TablesAssumption ==
         \A u \in Unit : BuiltinName[u] # NoName =>
           /\ Builtin[BuiltinName[u]] # NoUnit
           /\ unit_cast[Builtin[BuiltinName[u]]] = u

Kind == {"both", "in", "out"}

\* A line is malformed, or defines `name` as the unit that a string means:
\* one of Name when the string uses one, else always the unit `unit`.
ASSUME FileAssumption ==
         File \in Seq([name : Name \cup {NoName}, kind : Kind,
                       uses : Name \cup {NoName},
                       unit : UnitValue \cup {NoUnit}])

VARIABLES
  user_defined_units,        \* [Name -> UnitValue \cup {NoUnit}]
  user_defined_unit_names,   \* [Unit -> Name \cup {NoName}]
  allowUserDefinedUnits,
  call,       \* the add function that holds the mutex
  line,       \* the line definedUnitsFromFile is at, 0 when it is not running
  output      \* the lines its result string complains of, 0 for no file

maps == <<user_defined_units, user_defined_unit_names>>
vars == <<user_defined_units, user_defined_unit_names, allowUserDefinedUnits,
          call, line, output>>

Step == {"check", "names", "units", "load", "store"}
CallType == [kind : Kind, name : Name, unit : UnitValue, step : Step,
             loaded : BOOLEAN]
Idle == [step |-> "idle"]

(***************************************************************************)
(* The lookups: get_unit for reading, find_unit for writing.               *)
(***************************************************************************)
get_unit(n) ==
  IF allowUserDefinedUnits /\ user_defined_units[n] # NoUnit
  THEN user_defined_units[n] ELSE Builtin[n]

find_unit(u) ==
  IF allowUserDefinedUnits /\ user_defined_unit_names[u] # NoName
  THEN user_defined_unit_names[u] ELSE BuiltinName[u]

-----------------------------------------------------------------------------
Init == /\ user_defined_units = [n \in Name |-> NoUnit]
        /\ user_defined_unit_names = [u \in Unit |-> NoName]
        /\ allowUserDefinedUnits = TRUE
        /\ call = Idle
        /\ line = 0
        /\ output = {}

MutexFree == call = Idle /\ line = 0

disableUserDefinedUnits ==
  /\ allowUserDefinedUnits' = FALSE
  /\ UNCHANGED <<maps, call, line, output>>

enableUserDefinedUnits ==
  /\ allowUserDefinedUnits' = TRUE
  /\ UNCHANGED <<maps, call, line, output>>

(***************************************************************************)
(* addUserDefinedUnit ("both"), addUserDefinedInputUnit ("in") and         *)
(* addUserDefinedOutputUnit ("out").  Each ends by loading the flag and    *)
(* storing what it loaded, to publish the maps.                            *)
(***************************************************************************)
\* Mutant: the forms for reading and for writing only are swapped.
EnterSwapped(kind, n, p) ==
  call' = [kind |-> CASE kind = "in" -> "out" [] kind = "out" -> "in" [] OTHER -> kind,
           name |-> n, unit |-> p, step |-> "check", loaded |-> FALSE]

Enter(kind, n, p) ==
  call' = [kind |-> kind, name |-> n, unit |-> p, step |-> "check",
           loaded |-> FALSE]

CallAdd(kind, n, p) == /\ MutexFree
                       /\ Enter(kind, n, p)
                       /\ UNCHANGED <<maps, allowUserDefinedUnits, line, output>>

Goto(step) == call' = [call EXCEPT !.step = step]

\* Mutant: definedUnitsFromFile skips the line after a definition.
ReturnSkipping == /\ call' = Idle
                  /\ line' = IF line = 0 THEN 0 ELSE line + 2
                  /\ UNCHANGED output

\* A return: definedUnitsFromFile goes on to its next line.
Return == /\ call' = Idle
          /\ line' = IF line = 0 THEN 0 ELSE line + 1
          /\ UNCHANGED output

AddCheck == /\ call.step = "check"
            /\ IF allowUserDefinedUnits
               THEN /\ Goto(IF call.kind = "in" THEN "units" ELSE "names")
                    /\ UNCHANGED <<line, output>>
               ELSE Return
            /\ UNCHANGED <<maps, allowUserDefinedUnits>>

AddName == /\ call.step = "names"
           /\ user_defined_unit_names' =
                [user_defined_unit_names EXCEPT ![unit_cast[call.unit]] = call.name]
           /\ Goto(IF call.kind = "out" THEN "load" ELSE "units")
           /\ UNCHANGED <<user_defined_units, allowUserDefinedUnits, line, output>>

AddUnit == /\ call.step = "units"
           /\ user_defined_units' =
                [user_defined_units EXCEPT ![call.name] = call.unit]
           /\ Goto("load")
           /\ UNCHANGED <<user_defined_unit_names, allowUserDefinedUnits, line,
                          output>>

AddLoad == /\ call.step = "load"
           /\ call' = [call EXCEPT !.step = "store",
                                   !.loaded = allowUserDefinedUnits]
           /\ UNCHANGED <<maps, allowUserDefinedUnits, line, output>>

\* Mutant: the add functions turn the flag on.
AddStoreOn == /\ call.step = "store"
              /\ allowUserDefinedUnits' = TRUE
              /\ Return
              /\ UNCHANGED maps

AddStore == /\ call.step = "store"
            /\ allowUserDefinedUnits' = call.loaded
            /\ Return
            /\ UNCHANGED maps

\* Mutant: what the unit is written as is not erased.
removeInputOnly(n) ==
  /\ MutexFree
  /\ user_defined_units' = [user_defined_units EXCEPT ![n] = NoUnit]
  /\ UNCHANGED <<user_defined_unit_names, allowUserDefinedUnits, call, line, output>>

(***************************************************************************)
(* removeUserDefinedUnit reads the string as a unit, and erases that       *)
(* unit's name, whichever it is; when the string does not read, it erases  *)
(* one of the entries that write it.                                       *)
(***************************************************************************)
removeUserDefinedUnit(n) ==
  LET p == get_unit(n)
  IN  /\ MutexFree
      /\ \/ /\ p # NoUnit
            /\ user_defined_units' = [user_defined_units EXCEPT ![n] = NoUnit]
            /\ user_defined_unit_names' =
                 [user_defined_unit_names EXCEPT ![unit_cast[p]] = NoName]
         \/ /\ p = NoUnit
            /\ \E u \in Unit :
                 /\ user_defined_unit_names[u] = n
                 /\ user_defined_unit_names' =
                      [user_defined_unit_names EXCEPT ![u] = NoName]
            /\ UNCHANGED user_defined_units
         \/ /\ p = NoUnit
            /\ \A u \in Unit : user_defined_unit_names[u] # n
            /\ UNCHANGED maps
      /\ UNCHANGED <<allowUserDefinedUnits, call, line, output>>

clearUserDefinedUnits ==
  /\ MutexFree
  /\ user_defined_units' = [n \in Name |-> NoUnit]
  /\ user_defined_unit_names' = [u \in Unit |-> NoName]
  /\ UNCHANGED <<allowUserDefinedUnits, call, line, output>>

(***************************************************************************)
(* definedUnitsFromFile: if the file opens, a malformed line, and a        *)
(* definition that does not read as a unit, is added to the result; every  *)
(* other line calls an add function.  Lines after a bad one are read all   *)
(* the same.                                                               *)
(***************************************************************************)
definedUnitsFromFile ==
  /\ MutexFree
  /\ \/ line' = 1 /\ output' = {}
     \/ line' = 0 /\ output' = {0}
  /\ UNCHANGED <<maps, allowUserDefinedUnits, call>>

measurement_from_string(l) == IF l.uses = NoName THEN l.unit ELSE get_unit(l.uses)

ReadLine ==
  /\ line \in 1..Len(File) /\ call = Idle
  /\ LET l == File[line]
         p == measurement_from_string(l)
     IN  IF l.name = NoName \/ p = NoUnit
         THEN /\ output' = output \cup {line}
              /\ line' = line + 1
              /\ UNCHANGED call
         ELSE /\ Enter(l.kind, l.name, p)
              /\ UNCHANGED <<line, output>>
  /\ UNCHANGED <<maps, allowUserDefinedUnits>>

\* An exception while a line is read ends the file.  (One of an insertion into
\* the maps, when there is no memory for it, is left out.)
CatchException == /\ line \in 1..Len(File) /\ call = Idle
                  /\ line' = 0
                  /\ output' = output \cup {line}
                  /\ UNCHANGED <<maps, allowUserDefinedUnits, call>>

EndOfFile == /\ line = Len(File) + 1
             /\ line' = 0
             /\ UNCHANGED <<maps, allowUserDefinedUnits, call, output>>

-----------------------------------------------------------------------------
Next == \/ disableUserDefinedUnits \/ enableUserDefinedUnits
        \/ \E kind \in Kind, n \in Name, p \in UnitValue : CallAdd(kind, n, p)
        \/ AddCheck \/ AddName \/ AddUnit \/ AddLoad \/ AddStore
        \/ \E n \in Name : removeUserDefinedUnit(n)
        \/ clearUserDefinedUnits
        \/ definedUnitsFromFile \/ ReadLine \/ CatchException \/ EndOfFile

Spec == Init /\ [][Next]_vars
=============================================================================
