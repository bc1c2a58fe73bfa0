----------------------------- MODULE Commodities -----------------------------
(***************************************************************************)
(* The registry of custom commodities (units/commodities.cpp): two maps,   *)
(* from strings to codes and from codes to strings, an atomic flag that    *)
(* turns them off, and the functions that read and extend them.  Every     *)
(* string that nothing else gives a code for is added by getCommodity      *)
(* itself, under a hash code, so that reading units writes the maps.       *)
(*                                                                         *)
(* Clients call the functions from threads.  When Locked they serialise    *)
(* the calls under one mutex; the flag is atomic and not under it.         *)
(*                                                                         *)
(* A string is a member of Str.  The conversions of strings and the stages *)
(* of the lookups that the registry does not change are constants.         *)
(***************************************************************************)
EXTENDS Naturals, FiniteSets

CONSTANTS
  Client, Locked,
  Str, Code, NoStr, NoCode,
  CustomCode,                       \* the codes that clients add
  tolower, removeEscapeSequences,   \* [Str -> Str]
  commodity_codes,                  \* [Str -> Code \cup {NoCode}]
  cxcomm_code,                      \* what "cxcomm[<code>]" holds
  short_code,                       \* the letters of a short string
  stringHash,                       \* [Str -> Code], masked and tagged
  commodity_names,                  \* [Code -> Str \cup {NoStr}]
  short_name,                       \* the letters in a short string's code
  cxcomm_name                       \* [Code -> Str], "CXCOMM[<code>]"

ASSUME LockedAssumption == Locked \in BOOLEAN
ASSUME NoneAssumption == NoStr \notin Str /\ NoCode \notin Code
ASSUME CustomCodeAssumption == CustomCode \subseteq Code
ASSUME StringAssumption == /\ tolower \in [Str -> Str]
                           /\ removeEscapeSequences \in [Str -> Str]
ASSUME CodesAssumption ==
         /\ commodity_codes \in [Str -> Code \cup {NoCode}]
         /\ cxcomm_code \in [Str -> Code \cup {NoCode}]
         /\ short_code \in [Str -> Code \cup {NoCode}]
         /\ stringHash \in [Str -> Code]
ASSUME NamesAssumption ==
         /\ commodity_names \in [Code -> Str \cup {NoStr}]
         /\ short_name \in [Code -> Str \cup {NoStr}]
         /\ cxcomm_name \in [Code -> Str]

VARIABLES
  customCommodityCodes,     \* [Str -> Code \cup {NoCode}]
  customCommodityNames,     \* [Code -> Str \cup {NoStr}]
  allowCustomCommodities,
  call                      \* what each client is executing

maps == <<customCommodityCodes, customCommodityNames>>
vars == <<customCommodityCodes, customCommodityNames, allowCustomCommodities,
          call>>

Function == {"getCommodity", "getCommodityName", "addCustomCommodity",
             "clearCustomCommodities"}
Step == {"check", "find", "tables", "allow", "names", "codes", "return"}
CallType == [fn : Function, at : Step, comm : Str \cup {NoStr},
             code : Code \cup {NoCode}]
Idle == [fn |-> "idle"]

(***************************************************************************)
(* The stages after the custom maps: what a string that getCommodity has   *)
(* prepared means, and how getCommodityName writes a code.                 *)
(***************************************************************************)
Prepared(s) == tolower[removeEscapeSequences[s]]

FixedCode(n) == IF commodity_codes[n] # NoCode THEN commodity_codes[n]
                ELSE IF cxcomm_code[n] # NoCode THEN cxcomm_code[n]
                ELSE short_code[n]

DefaultCode(n) == IF FixedCode(n) # NoCode THEN FixedCode(n) ELSE stringHash[n]

DefaultName(c) == IF commodity_names[c] # NoStr THEN commodity_names[c]
                  ELSE IF short_name[c] # NoStr THEN short_name[c]
                  ELSE cxcomm_name[c]

-----------------------------------------------------------------------------
Init == /\ customCommodityCodes = [n \in Str |-> NoCode]
        /\ customCommodityNames = [c \in Code |-> NoStr]
        /\ allowCustomCommodities = TRUE
        /\ call = [t \in Client |-> Idle]

disableCustomCommodities == /\ allowCustomCommodities' = FALSE
                            /\ UNCHANGED <<maps, call>>
enableCustomCommodities == /\ allowCustomCommodities' = TRUE
                           /\ UNCHANGED <<maps, call>>

Enter(t, fn, at, n, c) ==
  /\ call[t] = Idle
  /\ Locked => \A u \in Client : call[u] = Idle
  /\ call' = [call EXCEPT ![t] = [fn |-> fn, at |-> at, comm |-> n, code |-> c]]
  /\ UNCHANGED <<maps, allowCustomCommodities>>

getCommodity(t, s) == Enter(t, "getCommodity", "check", Prepared(s), NoCode)
getCommodityName(t, c) == Enter(t, "getCommodityName", "check", NoStr, c)
addCustomCommodity(t, s, c) == Enter(t, "addCustomCommodity", "allow", tolower[s], c)
clearCustomCommodities(t) ==
  Enter(t, "clearCustomCommodities", "names", NoStr, NoCode)

At(t, fn, at) == call[t] # Idle /\ call[t].fn = fn /\ call[t].at = at
Goto(t, at) == call' = [call EXCEPT ![t].at = at]
Answer(t, n, c) ==
  call' = [call EXCEPT ![t].at = "return", ![t].comm = n, ![t].code = c]

\* Both lookups consult the custom map only if the flag is on.
CheckFlag(t) ==
  /\ At(t, "getCommodity", "check") \/ At(t, "getCommodityName", "check")
  /\ Goto(t, IF allowCustomCommodities THEN "find" ELSE "tables")
  /\ UNCHANGED <<maps, allowCustomCommodities>>

FindCode(t) ==
  /\ At(t, "getCommodity", "find")
  /\ LET n == call[t].comm
         c == customCommodityCodes[n]
     IN  IF c # NoCode THEN Answer(t, n, c) ELSE Goto(t, "tables")
  /\ UNCHANGED <<maps, allowCustomCommodities>>

FindName(t) ==
  /\ At(t, "getCommodityName", "find")
  /\ LET c == call[t].code
         n == customCommodityNames[c]
     IN  IF n # NoStr THEN Answer(t, n, c) ELSE Goto(t, "tables")
  /\ UNCHANGED <<maps, allowCustomCommodities>>

\* A string with no fixed code goes on to addCustomCommodity.
TableCode(t) ==
  /\ At(t, "getCommodity", "tables")
  /\ LET n == call[t].comm
     IN  IF FixedCode(n) # NoCode THEN Answer(t, n, FixedCode(n))
         ELSE call' = [call EXCEPT ![t].at = "allow", ![t].code = stringHash[n]]
  /\ UNCHANGED <<maps, allowCustomCommodities>>

\* Mutant: no name of the last resort.
TableNameLibrary(t) ==
  /\ At(t, "getCommodityName", "tables")
  /\ Answer(t, commodity_names[call[t].code], call[t].code)
  /\ UNCHANGED <<maps, allowCustomCommodities>>

TableName(t) ==
  /\ At(t, "getCommodityName", "tables")
  /\ Answer(t, DefaultName(call[t].code), call[t].code)
  /\ UNCHANGED <<maps, allowCustomCommodities>>

(***************************************************************************)
(* addCustomCommodity, called by a client or by getCommodity.  emplace     *)
(* does nothing when the key is in the map.                                *)
(***************************************************************************)
Adding(t, at) == At(t, "addCustomCommodity", at) \/ At(t, "getCommodity", at)

AddCheck(t) == /\ Adding(t, "allow")
               /\ Goto(t, IF allowCustomCommodities THEN "names" ELSE "return")
               /\ UNCHANGED <<maps, allowCustomCommodities>>

emplace(map, key, value, None) ==
  IF map[key] = None THEN [map EXCEPT ![key] = value] ELSE map

\* Mutants: getCommodity's hash goes into one map only; the code stored is
\* always the hash.
AddGivenName(t) ==
  /\ Adding(t, "names")
  /\ customCommodityNames' =
       IF call[t].fn = "getCommodity" THEN customCommodityNames
       ELSE emplace(customCommodityNames, call[t].code, call[t].comm, NoStr)
  /\ Goto(t, "codes")
  /\ UNCHANGED <<customCommodityCodes, allowCustomCommodities>>

AddHash(t) ==
  /\ Adding(t, "codes")
  /\ customCommodityCodes' =
       emplace(customCommodityCodes, call[t].comm, stringHash[call[t].comm], NoCode)
  /\ Goto(t, "return")
  /\ UNCHANGED <<customCommodityNames, allowCustomCommodities>>

AddName(t) ==
  /\ Adding(t, "names")
  /\ customCommodityNames' =
       emplace(customCommodityNames, call[t].code, call[t].comm, NoStr)
  /\ Goto(t, "codes")
  /\ UNCHANGED <<customCommodityCodes, allowCustomCommodities>>

AddCode(t) ==
  /\ Adding(t, "codes")
  /\ customCommodityCodes' =
       emplace(customCommodityCodes, call[t].comm, call[t].code, NoCode)
  /\ Goto(t, "return")
  /\ UNCHANGED <<customCommodityNames, allowCustomCommodities>>

ClearNames(t) == /\ At(t, "clearCustomCommodities", "names")
                 /\ customCommodityNames' = [c \in Code |-> NoStr]
                 /\ Goto(t, "codes")
                 /\ UNCHANGED <<customCommodityCodes, allowCustomCommodities>>

\* Mutant: clearCustomCommodities clears one map.
ClearNothing(t) == /\ At(t, "clearCustomCommodities", "codes")
                   /\ Goto(t, "return")
                   /\ UNCHANGED <<maps, allowCustomCommodities>>

ClearCodes(t) == /\ At(t, "clearCustomCommodities", "codes")
                 /\ customCommodityCodes' = [n \in Str |-> NoCode]
                 /\ Goto(t, "return")
                 /\ UNCHANGED <<customCommodityNames, allowCustomCommodities>>

Return(t) == /\ call[t] # Idle /\ call[t].at = "return"
             /\ call' = [call EXCEPT ![t] = Idle]
             /\ UNCHANGED <<maps, allowCustomCommodities>>

-----------------------------------------------------------------------------
Begin(t) == \/ \E s \in Str : getCommodity(t, s)
            \/ \E c \in Code : getCommodityName(t, c)
            \/ \E s \in Str, c \in CustomCode : addCustomCommodity(t, s, c)
            \/ clearCustomCommodities(t)

Continue(t) == \/ CheckFlag(t) \/ FindCode(t) \/ FindName(t)
               \/ TableCode(t) \/ TableName(t) \/ AddCheck(t)
               \/ AddName(t) \/ AddCode(t) \/ ClearNames(t) \/ ClearCodes(t)
               \/ Return(t)

Next == \/ disableCustomCommodities \/ enableCustomCommodities
        \/ \E t \in Client : Begin(t) \/ Continue(t)

Spec == Init /\ [][Next]_vars

=============================================================================
