--------------------------- MODULE UserUnitsHistory ---------------------------
(***************************************************************************)
(* UserUnits with the history its properties speak of: the last request to *)
(* the flag, the discipline its clients kept, and what the file meant.     *)
(***************************************************************************)
EXTENDS UserUnits

VARIABLES
  asked,    \* what the last disable or enable asked for
  torn,     \* that request fell between an add function's load and store
  orderly,  \* no definition or removal so far was disorderly (below)
  steady,   \* the flag has been on since definedUnitsFromFile was called
  read      \* what the definitions of the lines read so far meant

history == <<asked, torn, orderly, steady, read>>
allvars == <<vars, history>>

(***************************************************************************)
(* A definition of n as p is disorderly when n is already what the writer  *)
(* writes for another unit, or when it is only for writing.  A removal is  *)
(* disorderly when n shadows a built-in string and the flag is off, so     *)
(* that n reads as something else than what it was defined as.             *)
(***************************************************************************)
OrderlyDefinition(n, p) ==
  \A u \in Unit : n \in {user_defined_unit_names[u], BuiltinName[u]} =>
                    u = unit_cast[p]

OrderlyRemoval(n) == allowUserDefinedUnits \/ Builtin[n] = NoUnit

HInit == /\ Init
         /\ asked = TRUE
         /\ torn = FALSE
         /\ orderly = TRUE
         /\ steady = FALSE
         /\ read = <<>>

HToggle(on) == /\ IF on THEN enableUserDefinedUnits ELSE disableUserDefinedUnits
               /\ asked' = on
               /\ torn' = (call.step = "store")
               /\ steady' = (steady /\ on)
               /\ UNCHANGED <<orderly, read>>

HInsert == /\ AddName \/ AddUnit
           /\ orderly' = /\ orderly
                         /\ call.kind # "out"
                         /\ OrderlyDefinition(call.name, call.unit)
           /\ UNCHANGED <<asked, torn, steady, read>>

HStore == /\ AddStore
          /\ steady' = (steady /\ call.loaded)
          /\ UNCHANGED <<asked, torn, orderly, read>>

HRemove(n) == /\ removeUserDefinedUnit(n)
              /\ orderly' = (orderly /\ OrderlyRemoval(n))
              /\ UNCHANGED <<asked, torn, steady, read>>

HOpen == /\ definedUnitsFromFile
         /\ steady' = allowUserDefinedUnits
         /\ read' = <<>>
         /\ UNCHANGED <<asked, torn, orderly>>

HReadLine == /\ ReadLine
             /\ read' = Append(read, measurement_from_string(File[line]))
             /\ UNCHANGED <<asked, torn, orderly, steady>>

HOther == /\ \/ \E kind \in Kind, n \in Name, p \in UnitValue : CallAdd(kind, n, p)
             \/ AddCheck \/ AddLoad \/ clearUserDefinedUnits
             \/ CatchException \/ EndOfFile
          /\ UNCHANGED history

HNext == \/ \E on \in BOOLEAN : HToggle(on)
         \/ HInsert \/ HStore
         \/ \E n \in Name : HRemove(n)
         \/ HOpen \/ HReadLine \/ HOther

HSpec == HInit /\ [][HNext]_allvars

-----------------------------------------------------------------------------
\* The registry, the call that holds the mutex and the file are well formed.
TypeOK ==
  /\ user_defined_units \in [Name -> UnitValue \cup {NoUnit}]
  /\ user_defined_unit_names \in [Unit -> Name \cup {NoName}]
  /\ allowUserDefinedUnits \in BOOLEAN
  /\ call \in CallType \cup {Idle}
  /\ line \in 0..(Len(File) + 1)
  /\ output \subseteq 0..Len(File)
  /\ asked \in BOOLEAN /\ torn \in BOOLEAN /\ orderly \in BOOLEAN
  /\ steady \in BOOLEAN
  /\ read \in Seq(UnitValue \cup {NoUnit})

\* The flag is what the last disable or enable asked for, unless that request
\* came between the load and the store at the end of an add function: no
\* other interleaving of the two loses it.
FlagFollowsRequests == ~torn => allowUserDefinedUnits = asked

\* While clients are orderly, whatever to_string writes for a unit, from the
\* user's names or the library's, with the flag on or off, unit_from_string
\* reads back as that unit; only addUserDefinedUnit between its two
\* insertions, which no one else sees, is excepted.
WrittenNamesReadBack ==
  orderly /\ call.step # "units" =>
    \A u \in Unit :
      LET n == find_unit(u)
      IN  n # NoName => /\ get_unit(n) # NoUnit
                        /\ unit_cast[get_unit(n)] = u

\* The lines definedUnitsFromFile did not complain of, and whose definition
\* no later line replaces, are defined as they read when it gets to the end
\* of the file, if no one turned the flag off meanwhile.
Defines(i, kind) == i \notin output /\ File[i].kind \in {"both", kind}

FileDefinesWhatItAccepts ==
  line = Len(File) + 1 /\ steady =>
    \A i \in 1..Len(File) :
      /\ \/ ~Defines(i, "in")
         \/ user_defined_units[File[i].name] = read[i]
         \/ \E j \in (i + 1)..Len(File) :
              Defines(j, "in") /\ File[j].name = File[i].name
      /\ \/ ~Defines(i, "out")
         \/ user_defined_unit_names[unit_cast[read[i]]] = File[i].name
         \/ \E j \in (i + 1)..Len(File) :
              Defines(j, "out") /\ unit_cast[read[j]] = unit_cast[read[i]]

=============================================================================
