-------------------------- MODULE Commodities_proof --------------------------
(***************************************************************************)
(* For any strings, codes and ways to write the one as the other: the      *)
(* registry is well formed; and while clients serialise their calls, a     *)
(* string that no client defined keeps its code, and each map undoes the   *)
(* other and reads back what it writes, but for strings with two codes and *)
(* codes with two strings, as the properties say.                          *)
(*                                                                         *)
(* Between its two updates an addition leaves the maps so but for the one  *)
(* pair it adds (HalfAdded): the name may be there without the code, never *)
(* the code without the name, unless the code has another one.             *)
(***************************************************************************)
EXTENDS CommoditiesHistory, TLAPS

\* What a call works on.
CallShape(t) ==
  call[t] # Idle =>
    /\ call[t].fn = "getCommodity" =>
         /\ call[t].comm \in Str
         /\ call[t].at \in {"allow", "names", "codes"} =>
              FixedCode(call[t].comm) = NoCode /\ call[t].code = stringHash[call[t].comm]
         /\ call[t].at = "return" => call[t].code \in Code
    /\ call[t].fn = "getCommodityName" =>
         call[t].code \in Code /\ (call[t].at = "return" => call[t].comm \in Str)
    /\ call[t].fn = "addCustomCommodity" => call[t].comm \in Str /\ call[t].code \in Code

Shaped == /\ customCommodityCodes \in [Str -> Code \cup {NoCode}]
          /\ customCommodityNames \in [Code -> Str \cup {NoStr}]
          /\ allowCustomCommodities \in BOOLEAN
          /\ call \in [Client -> CallType \cup {Idle}]
          /\ added \subseteq Str /\ recoded \subseteq Str /\ renamed \subseteq Code
          /\ \A t \in Client : CallShape(t)

\* A mutex lets one call in at a time.
OneCall == \A t, u \in Client : call[t] # Idle /\ call[u] # Idle => t = u

Defaults == \A n \in Str : n \notin added /\ customCommodityCodes[n] # NoCode =>
              customCommodityCodes[n] = DefaultCode(n)

\* The map of names leads to the map of codes, and back.
Forth(n, c) ==
  customCommodityNames[c] = n /\ n \notin recoded => customCommodityCodes[n] = c
Back(n, c) ==
  customCommodityCodes[n] = c /\ c \notin renamed => customCommodityNames[c] = n

HalfAdded(t) ==
  /\ call[t].code \in renamed \/ customCommodityNames[call[t].code] = call[t].comm
  /\ \A n \in Str, c \in Code :
       Back(n, c) /\ (n # call[t].comm \/ c # call[t].code => Forth(n, c))

MapsMatch == /\ Quiet => \A n \in Str, c \in Code : Forth(n, c) /\ Back(n, c)
             /\ \A t \in Client : Adding(t, "codes") => HalfAdded(t)

HalfCleared == \A t \in Client : At(t, "clearCustomCommodities", "codes") =>
                                   \A c \in Code : customCommodityNames[c] = NoStr

IInv == /\ Shaped /\ OneCall
        /\ Defaults /\ StringsKeepTheirCode
        /\ MapsMatch /\ HalfCleared

-----------------------------------------------------------------------------
\* The tables give strings and codes.
LEMMA TableTypes ==
  /\ \A s \in Str : /\ Prepared(s) \in Str /\ tolower[s] \in Str
                    /\ FixedCode(s) \in Code \cup {NoCode}
                    /\ DefaultCode(s) \in Code /\ stringHash[s] \in Code
  /\ \A c \in Code : DefaultName(c) \in Str
  BY StringAssumption, CodesAssumption, NamesAssumption
     DEF Prepared, FixedCode, DefaultCode, DefaultName

\* The value that stands for no commodity.
LEMMA NoneIsNone == NoStr \notin Str /\ NoCode \notin Code
  BY NoneAssumption

\* Every step keeps the shape of the maps and of the calls.
LEMMA ShapeStep == ASSUME Shaped, [HNext]_allvars PROVE Shaped'
  <1> USE TableTypes DEF At
  <1>1. CASE UNCHANGED allvars
    BY <1>1 DEF allvars, vars, history, Shaped, CallShape
  <1>2. CASE HFlag
    BY <1>2 DEF HFlag, disableCustomCommodities, enableCustomCommodities, maps,
                history, Shaped, CallShape
  <1>3. ASSUME NEW t \in Client, Begin(t), UNCHANGED history PROVE Shaped'
    BY <1>3, CustomCodeAssumption
       DEF Begin, getCommodity, getCommodityName, addCustomCommodity,
           clearCustomCommodities, Enter, maps, history, Shaped, CallShape, CallType,
           Function, Step
  <1>4. ASSUME NEW t \in Client, CheckFlag(t) \/ AddCheck(t), UNCHANGED history
        PROVE  Shaped'
    BY <1>4 DEF CheckFlag, AddCheck, Adding, Goto, maps, history, Shaped, CallShape,
                CallType, Step
  <1>11. ASSUME NEW t \in Client, Return(t), UNCHANGED history PROVE Shaped'
    BY <1>11 DEF Return, maps, history, Shaped, CallShape
  <1>5. ASSUME NEW t \in Client, FindCode(t), UNCHANGED history PROVE Shaped'
    BY <1>5, NoneIsNone DEF FindCode, Answer, Goto, maps, history, Shaped, CallShape,
                CallType, Step
  <1>12. ASSUME NEW t \in Client, FindName(t), UNCHANGED history PROVE Shaped'
    BY <1>12, NoneIsNone DEF FindName, Answer, Goto, maps, history, Shaped, CallShape,
                CallType, Step
  <1>6. ASSUME NEW t \in Client, TableCode(t) \/ TableName(t), UNCHANGED history PROVE Shaped'
    BY <1>6 DEF TableCode, TableName, Answer, maps, history, Shaped, CallShape, CallType, Step
  <1>7. ASSUME NEW t \in Client, HAddName(t) PROVE Shaped'
    <2>1. /\ call[t] # Idle /\ call[t].fn \in {"getCommodity", "addCustomCommodity"}
          /\ call[t].comm \in Str /\ call[t].code \in Code
          /\ call' = [call EXCEPT ![t].at = "codes"]
          /\ customCommodityNames' =
               emplace(customCommodityNames, call[t].code, call[t].comm, NoStr)
      BY <1>7 DEF HAddName, AddName, Adding, Goto, Shaped, CallShape
    <2>2. customCommodityNames' \in [Code -> Str \cup {NoStr}]
      BY <2>1 DEF emplace, Shaped
    <2>3. /\ added' \subseteq Str /\ recoded' \subseteq Str /\ renamed' \subseteq Code
          /\ UNCHANGED <<customCommodityCodes, allowCustomCommodities>>
      BY <1>7, <2>1 DEF HAddName, AddName, Shaped
    <2>4. call' \in [Client -> CallType \cup {Idle}]
      BY <2>1 DEF Shaped, CallType, Step
    <2>5. ASSUME NEW u \in Client PROVE CallShape(u)'
      BY <1>7, <2>1 DEF HAddName, AddName, Adding, Shaped, CallShape, CallType
    <2> QED
      BY <2>2, <2>3, <2>4, <2>5 DEF Shaped
  <1>8. ASSUME NEW t \in Client, HAddCode(t) PROVE Shaped'
    BY <1>8 DEF HAddCode, AddCode, Adding, emplace, Goto, Shaped, CallShape, CallType, Step
  <1>9. ASSUME NEW t \in Client, HClearCodes(t) PROVE Shaped'
    <2>1. /\ customCommodityCodes' \in [Str -> Code \cup {NoCode}]
          /\ added' \subseteq Str /\ recoded' \subseteq Str /\ renamed' \subseteq Code
          /\ UNCHANGED <<customCommodityNames, allowCustomCommodities>>
      BY <1>9 DEF HClearCodes, ClearCodes
    <2>2. /\ call[t] # Idle /\ call[t].fn = "clearCustomCommodities"
          /\ call' = [call EXCEPT ![t].at = "return"]
      BY <1>9 DEF HClearCodes, ClearCodes, Goto
    <2>3. call' \in [Client -> CallType \cup {Idle}]
      BY <2>2 DEF Shaped, CallType, Step
    <2>4. ASSUME NEW u \in Client PROVE CallShape(u)'
      BY <2>2 DEF Shaped, CallShape, CallType
    <2> QED
      BY <2>1, <2>3, <2>4 DEF Shaped
  <1>10. ASSUME NEW t \in Client, ClearNames(t), UNCHANGED history PROVE Shaped'
    BY <1>10 DEF ClearNames, Goto, history, Shaped, CallShape, CallType, Step
  <1> QED
    BY <1>1, <1>2, <1>3, <1>4, <1>5, <1>6, <1>7, <1>8, <1>9, <1>10, <1>11, <1>12
       DEF HNext, HOther

\* The shape of the maps at first.
LEMMA ShapeInit == HInit => Shaped
  BY DEF HInit, Init, Shaped, CallShape

\* Maps and calls are well formed and every lookup has an answer, however
\* clients interleave their calls.
THEOREM TypeCorrect == HSpec => []TypeOK
  <1>1. Shaped => TypeOK
    BY DEF Shaped, TypeOK, CallShape, At
  <1> QED
    BY <1>1, ShapeInit, ShapeStep, PTL DEF HSpec

-----------------------------------------------------------------------------
\* From here on clients serialise their calls.
LEMMA OneCallStep == ASSUME Locked, Shaped, OneCall, [HNext]_allvars PROVE OneCall'
  <1> USE DEF Shaped, OneCall, At
  <1>1. CASE UNCHANGED allvars
    BY <1>1 DEF allvars, vars
  <1>2. CASE HFlag
    BY <1>2 DEF HFlag, disableCustomCommodities, enableCustomCommodities
  <1>3. ASSUME NEW t \in Client, Begin(t) PROVE OneCall'
    BY <1>3 DEF Begin, getCommodity, getCommodityName, addCustomCommodity,
                clearCustomCommodities, Enter
  <1>4. ASSUME NEW t \in Client, call[t] # Idle,
               \A u \in Client \ {t} : call'[u] = call[u]
        PROVE  OneCall'
    BY <1>4
  <1>5. ASSUME NEW t \in Client,
               \/ CheckFlag(t) \/ FindCode(t) \/ FindName(t) \/ TableCode(t) \/ TableName(t)
               \/ AddCheck(t) \/ AddName(t) \/ AddCode(t) \/ ClearNames(t) \/ ClearCodes(t)
               \/ Return(t)
        PROVE  OneCall'
    <2>1. call[t] # Idle
      BY <1>5 DEF CheckFlag, FindCode, FindName, TableCode, TableName, AddCheck, AddName,
                  AddCode, ClearNames, ClearCodes, Return, Adding
    <2>2. \A u \in Client \ {t} : call'[u] = call[u]
      BY <1>5 DEF CheckFlag, FindCode, FindName, TableCode, TableName, AddCheck, AddName,
                  AddCode, ClearNames, ClearCodes, Return, Goto, Answer
    <2> QED
      BY <1>4, <2>1, <2>2
  <1> QED
    BY <1>1, <1>2, <1>3, <1>5 DEF HNext, HOther, HAddName, HAddCode, HClearCodes

\* A step that touches neither the maps nor the flag, on the way to or from
\* the steps that do.
LEMMA MapsStill ==
  ASSUME Shaped, Shaped', IInv, NEW t \in Client, OneCall', UNCHANGED <<maps, history>>,
         UNCHANGED allowCustomCommodities,
         call[t] # Idle => call[t].at # "codes",
         call'[t] # Idle => call'[t].at # "codes",
         \A u \in Client \ {t} : call'[u] = call[u] /\ call[u] = Idle,
         At(t, "getCommodity", "return")' /\ call'[t].comm \notin added =>
           call'[t].code = DefaultCode(call'[t].comm)
  PROVE  IInv'
  <1>1. Defaults' /\ StringsKeepTheirCode'
    BY DEF IInv, Defaults, StringsKeepTheirCode, At, maps, history
  <1>2. Quiet /\ Quiet'
    BY DEF Quiet
  <1>3. MapsMatch'
    BY <1>2 DEF IInv, MapsMatch, Forth, Back, Adding, At, maps, history
  <1>4. HalfCleared'
    BY DEF HalfCleared, At
  <1> QED
    BY <1>1, <1>3, <1>4 DEF IInv

\* When one call is in progress the others are not.
LEMMA Others ==
  ASSUME Shaped, OneCall, NEW t \in Client, call[t] # Idle
  PROVE  \A u \in Client \ {t} : call[u] = Idle
  BY DEF OneCall

\* The beginning of a call, the lookups and the return.
LEMMA LookupInv ==
  ASSUME Locked, IInv, Shaped', OneCall', NEW t \in Client, UNCHANGED history,
         \/ Begin(t) \/ CheckFlag(t) \/ FindCode(t) \/ FindName(t)
         \/ TableCode(t) \/ TableName(t) \/ AddCheck(t) \/ Return(t)
  PROVE  IInv'
  <1> USE DEF At
  <1>1. Shaped /\ OneCall /\ call \in [Client -> CallType \cup {Idle}] /\ CallShape(t)
    BY DEF IInv, Shaped
  <1>2. CASE Begin(t)
    <2>1. /\ call[t] = Idle /\ \A u \in Client : call[u] = Idle
          /\ UNCHANGED <<maps, allowCustomCommodities>>
      BY <1>2 DEF Begin, getCommodity, getCommodityName, addCustomCommodity,
                  clearCustomCommodities, Enter
    <2>2. PICK fn \in Function, at \in {"check", "allow", "names"},
               n \in Str \cup {NoStr}, c \in Code \cup {NoCode} :
            /\ call' = [call EXCEPT ![t] = [fn |-> fn, at |-> at, comm |-> n, code |-> c]]
            /\ fn = "getCommodity" => at = "check"
      BY <1>2, TableTypes, CustomCodeAssumption
         DEF Begin, getCommodity, getCommodityName, addCustomCommodity,
             clearCustomCommodities, Enter, Function
    <2>3. ~At(t, "getCommodity", "return")' /\ (call'[t] # Idle => call'[t].at # "codes")
      BY <1>1, <2>2
    <2>4. \A u \in Client \ {t} : call'[u] = call[u] /\ call[u] = Idle
      BY <1>1, <2>1, <2>2
    <2> QED
      BY <1>1, <2>1, <2>3, <2>4, MapsStill
  <1>3. CASE \/ CheckFlag(t) \/ FindCode(t) \/ FindName(t) \/ TableCode(t)
             \/ TableName(t) \/ AddCheck(t) \/ Return(t)
    <2>1. call[t] # Idle /\ call[t].at # "codes"
      BY <1>3 DEF CheckFlag, FindCode, FindName, TableCode, TableName, AddCheck, Return, Adding
    <2>2. UNCHANGED <<maps, allowCustomCommodities>>
      BY <1>3 DEF CheckFlag, FindCode, FindName, TableCode, TableName, AddCheck, Return
    <2>6. \A u \in Client \ {t} : call'[u] = call[u]
      BY <1>1, <1>3 DEF CheckFlag, FindCode, FindName, TableCode, TableName, AddCheck, Return,
                        Goto, Answer
    <2>3. \A u \in Client \ {t} : call'[u] = call[u] /\ call[u] = Idle
      BY <1>1, <2>1, <2>6, Others
    <2>4. call'[t] # Idle => call'[t].at # "codes"
      <3>1. call[t] \in CallType
        BY <1>1, <2>1
      <3>2. CASE CheckFlag(t) \/ AddCheck(t)
        BY <1>1, <3>1, <3>2 DEF CheckFlag, AddCheck, Goto, CallType
      <3>3. CASE FindCode(t) \/ FindName(t)
        BY <1>1, <3>1, <3>3 DEF FindCode, FindName, Goto, Answer, CallType
      <3>4. CASE TableCode(t) \/ TableName(t)
        BY <1>1, <3>1, <3>4 DEF TableCode, TableName, Answer, CallType
      <3>5. CASE Return(t)
        BY <1>1, <3>5 DEF Return
      <3> QED
        BY <1>3, <3>2, <3>3, <3>4, <3>5
    <2>5. At(t, "getCommodity", "return")' /\ call'[t].comm \notin added =>
            call'[t].code = DefaultCode(call'[t].comm)
      <3>1. CASE CheckFlag(t)
        BY <1>1, <2>2, <3>1 DEF CheckFlag, Goto, CallType
      <3>2. CASE FindCode(t)
        BY <1>1, <2>2, <3>2 DEF FindCode, Goto, Answer, CallType, CallShape, IInv,
                                Defaults, maps
      <3>3. CASE FindName(t) \/ TableName(t) \/ Return(t)
        BY <1>1, <3>3 DEF FindName, TableName, Return, Goto, Answer, CallType
      <3>4. CASE TableCode(t)
        BY <1>1, <2>2, <3>4 DEF TableCode, Answer, CallType, CallShape, IInv,
                                DefaultCode, maps
      <3>5. CASE AddCheck(t)
        BY <1>1, <2>2, <3>5 DEF AddCheck, Adding, Goto, CallType, CallShape, IInv,
                                DefaultCode, maps
      <3> QED
        BY <1>3, <3>1, <3>2, <3>3, <3>4, <3>5
    <2> QED
      BY <1>1, <2>1, <2>2, <2>3, <2>4, <2>5, MapsStill
  <1> QED
    BY <1>2, <1>3

\* The flag goes off or on at any time.
LEMMA FlagInv ==
  ASSUME IInv, Shaped', OneCall', HFlag
  PROVE  IInv'
  <1>1. UNCHANGED <<maps, call, history>>
    BY DEF HFlag, disableCustomCommodities, enableCustomCommodities
  <1>2. Defaults' /\ StringsKeepTheirCode' /\ HalfCleared'
    BY <1>1 DEF IInv, Defaults, StringsKeepTheirCode, HalfCleared, At, maps, history
  <1>3. MapsMatch'
    BY <1>1 DEF IInv, MapsMatch, HalfAdded, Forth, Back, Adding, At, Quiet, maps, history
  <1> QED
    BY <1>2, <1>3 DEF IInv

\* The first half of an addition.
LEMMA AddNameInv ==
  ASSUME Locked, IInv, Shaped', OneCall', NEW t \in Client, HAddName(t)
  PROVE  IInv'
  <1> DEFINE n == call[t].comm
             c == call[t].code
  <1>1. /\ Shaped /\ OneCall /\ call \in [Client -> CallType \cup {Idle}] /\ CallShape(t)
        /\ customCommodityNames \in [Code -> Str \cup {NoStr}]
    BY DEF IInv, Shaped
  <1>2. call[t] # Idle /\ call[t].at = "names" /\ Adding(t, "names")
    BY DEF HAddName, AddName, Adding, At
  <1>3. n \in Str /\ c \in Code /\ c # NoCode /\ n # NoStr
    BY <1>1, <1>2, TableTypes, NoneIsNone DEF CallShape, Adding, At
  <1>4. /\ customCommodityNames' = [customCommodityNames EXCEPT ![c] =
                                      IF @ = NoStr THEN n ELSE @]
        /\ call' = [call EXCEPT ![t].at = "codes"]
        /\ UNCHANGED <<customCommodityCodes, allowCustomCommodities, added, recoded>>
        /\ renamed' = IF customCommodityNames[c] \in {NoStr, n}
                      THEN renamed ELSE renamed \cup {c}
    BY <1>1, <1>3 DEF HAddName, AddName, Goto, emplace
  <1>5. \A u \in Client \ {t} : call'[u] = call[u] /\ call[u] = Idle
    BY <1>1, <1>2, <1>4, Others
  <1>6. Defaults' /\ StringsKeepTheirCode' /\ HalfCleared'
    BY <1>1, <1>2, <1>4, <1>5 DEF IInv, Defaults, StringsKeepTheirCode, HalfCleared, At, CallType,
                                  Adding
  <1>7. call'[t].comm = n /\ call'[t].code = c /\ ~Quiet'
    <2>1. /\ call'[t].at = "codes" /\ call'[t].comm = n /\ call'[t].code = c
          /\ call'[t].fn = call[t].fn /\ call[t].fn \in Function
      BY <1>1, <1>2, <1>4 DEF CallType
    <2>2. call'[t] # Idle
      BY <2>1 DEF Idle, Function
    <2> QED
      BY <2>1, <2>2 DEF Quiet
  <1>8. \A m \in Str, d \in Code : Forth(m, d) /\ Back(m, d)
    <2>1. Quiet
      BY <1>2, <1>5 DEF Quiet
    <2> QED
      BY <2>1 DEF IInv, MapsMatch
  <1>9. HalfAdded(t)'
    <2>1. c \in renamed' \/ customCommodityNames'[c] = n
      BY <1>1, <1>3, <1>4
    <2>2. ASSUME NEW m \in Str, NEW d \in Code PROVE Back(m, d)'
      <3>1. CASE d # c \/ customCommodityNames[c] # NoStr
        BY <1>1, <1>4, <1>8, <3>1 DEF Back
      <3>2. CASE d = c /\ customCommodityNames[c] = NoStr
        BY <1>4, <1>8, <3>2, NoneIsNone DEF Back
      <3> QED
        BY <3>1, <3>2
    <2>3. ASSUME NEW m \in Str, NEW d \in Code, m # n \/ d # c PROVE Forth(m, d)'
      BY <1>1, <1>3, <1>4, <1>8, <2>3 DEF Forth
    <2> QED
      BY <1>7, <2>1, <2>2, <2>3 DEF HalfAdded
  <1>10. \A u \in Client : Adding(u, "codes")' => u = t
    BY <1>5 DEF Adding, At
  <1> QED
    BY <1>6, <1>7, <1>9, <1>10 DEF IInv, MapsMatch

\* The second half.
LEMMA AddCodeInv ==
  ASSUME Locked, IInv, Shaped', OneCall', NEW t \in Client, HAddCode(t)
  PROVE  IInv'
  <1> DEFINE n == call[t].comm
             c == call[t].code
  <1>1. /\ Shaped /\ OneCall /\ call \in [Client -> CallType \cup {Idle}] /\ CallShape(t)
        /\ customCommodityCodes \in [Str -> Code \cup {NoCode}]
    BY DEF IInv, Shaped
  <1>2. call[t] # Idle /\ call[t].at = "codes" /\ Adding(t, "codes")
    BY DEF HAddCode, AddCode, Adding, At
  <1>3. n \in Str /\ c \in Code /\ c # NoCode /\ n # NoStr
    BY <1>1, <1>2, TableTypes, NoneIsNone DEF CallShape, Adding, At
  <1>4. /\ customCommodityCodes' = [customCommodityCodes EXCEPT ![n] =
                                      IF @ = NoCode THEN c ELSE @]
        /\ call' = [call EXCEPT ![t].at = "return"]
        /\ UNCHANGED <<customCommodityNames, allowCustomCommodities, renamed>>
        /\ recoded' = IF customCommodityCodes[n] \in {NoCode, c}
                      THEN recoded ELSE recoded \cup {n}
        /\ added' = IF call[t].fn = "addCustomCommodity" THEN added \cup {n} ELSE added
    BY <1>1, <1>3 DEF HAddCode, AddCode, Goto, emplace
  <1>5. \A u \in Client \ {t} : call'[u] = call[u] /\ call[u] = Idle
    BY <1>1, <1>2, <1>4, Others
  <1>6. call[t].fn = "getCommodity" => c = DefaultCode(n)
    BY <1>1, <1>2 DEF CallShape, DefaultCode
  <1>7. call[t].fn \in {"getCommodity", "addCustomCommodity"}
    BY <1>2 DEF Adding, At
  <1>8. Defaults'
    BY <1>1, <1>3, <1>4, <1>6, <1>7 DEF IInv, Defaults
  <1>9. call'[t].comm = n /\ call'[t].code = c /\ call'[t].at = "return"
        /\ call'[t].fn = call[t].fn
    BY <1>1, <1>2, <1>4 DEF CallType
  <1>10. StringsKeepTheirCode'
    BY <1>4, <1>5, <1>6, <1>9 DEF StringsKeepTheirCode, At
  <1>11. HalfCleared' /\ \A u \in Client : ~Adding(u, "codes")'
    BY <1>5, <1>9 DEF HalfCleared, Adding, At
  <1>12. HalfAdded(t)
    BY <1>2 DEF IInv, MapsMatch
  <1>13. ASSUME NEW m \in Str, NEW d \in Code PROVE Forth(m, d)'
    <2>1. CASE m # n
      BY <1>1, <1>4, <1>12, <2>1 DEF HalfAdded, Forth
    <2>2. CASE m = n /\ d # c
      BY <1>3, <1>4, <1>12, <2>2, NoneIsNone DEF HalfAdded, Forth
    <2>3. CASE m = n /\ d = c
      BY <1>1, <1>3, <1>4, <2>3 DEF Forth
    <2> QED
      BY <2>1, <2>2, <2>3
  <1>14. ASSUME NEW m \in Str, NEW d \in Code PROVE Back(m, d)'
    <2>1. CASE m # n \/ customCommodityCodes[n] # NoCode
      BY <1>1, <1>4, <1>12, <2>1 DEF HalfAdded, Back
    <2>2. CASE m = n /\ customCommodityCodes[n] = NoCode
      BY <1>1, <1>3, <1>4, <1>12, <2>2 DEF HalfAdded, Back
    <2> QED
      BY <2>1, <2>2
  <1> QED
    BY <1>8, <1>10, <1>11, <1>13, <1>14 DEF IInv, MapsMatch

\* Clearing takes two steps as well.
LEMMA ClearInv ==
  ASSUME Locked, IInv, Shaped', OneCall', NEW t \in Client,
         HClearCodes(t) \/ (ClearNames(t) /\ UNCHANGED history)
  PROVE  IInv'
  <1>1. /\ Shaped /\ OneCall /\ call \in [Client -> CallType \cup {Idle}]
        /\ call[t] # Idle /\ call[t].fn = "clearCustomCommodities"
    BY DEF IInv, Shaped, HClearCodes, ClearCodes, ClearNames, At
  <1>2. \A u \in Client \ {t} : call'[u] = call[u] /\ call[u] = Idle
    <2>1. \A u \in Client \ {t} : call'[u] = call[u]
      BY <1>1 DEF HClearCodes, ClearCodes, ClearNames, Goto
    <2> QED
      BY <1>1, <2>1, Others
  <1>3. call'[t].fn = "clearCustomCommodities" /\ call'[t] # Idle
    <2>1. call[t] \in CallType
      BY <1>1
    <2>2. call'[t].fn = call[t].fn
      BY <1>1, <2>1 DEF HClearCodes, ClearCodes, ClearNames, Goto, CallType
    <2> QED
      BY <1>1, <2>2 DEF Idle
  <1>4. StringsKeepTheirCode' /\ \A u \in Client : ~Adding(u, "codes")'
    BY <1>2, <1>3 DEF StringsKeepTheirCode, Adding, At
  <1>5. CASE HClearCodes(t)
    <2>1. /\ \A n \in Str : customCommodityCodes'[n] = NoCode
          /\ UNCHANGED customCommodityNames
      BY <1>5 DEF HClearCodes, ClearCodes
    <2>2. \A c \in Code : customCommodityNames[c] = NoStr
      BY <1>5 DEF HClearCodes, ClearCodes, IInv, HalfCleared
    <2>3. Defaults' /\ MapsMatch'
      BY <1>4, <2>1, <2>2, NoneIsNone DEF Defaults, MapsMatch, Forth, Back
    <2>4. HalfCleared'
      BY <2>1, <2>2 DEF HalfCleared
    <2> QED
      BY <1>4, <2>3, <2>4 DEF IInv
  <1>6. CASE ClearNames(t) /\ UNCHANGED history
    <2>1. /\ \A c \in Code : customCommodityNames'[c] = NoStr
          /\ UNCHANGED <<customCommodityCodes, added>>
      BY <1>6 DEF ClearNames, history
    <2>2. ~Quiet'
      <3>1. call'[t].at = "codes"
        BY <1>1, <1>6 DEF ClearNames, Goto, CallType
      <3> QED
        BY <1>3, <3>1 DEF Quiet
    <2>3. Defaults' /\ MapsMatch' /\ HalfCleared'
      BY <1>4, <2>1, <2>2 DEF IInv, Defaults, MapsMatch, HalfCleared
    <2> QED
      BY <1>4, <2>3 DEF IInv
  <1> QED
    BY <1>5, <1>6

\* The invariant holds at first.
LEMMA InitInv == HInit => IInv
  <1> SUFFICES ASSUME HInit PROVE IInv
    OBVIOUS
  <1>1. /\ Shaped
        /\ \A t \in Client : call[t] = Idle
        /\ \A n \in Str : customCommodityCodes[n] = NoCode
        /\ \A c \in Code : customCommodityNames[c] = NoStr
    BY ShapeInit DEF HInit, Init
  <1>2. OneCall /\ Defaults /\ StringsKeepTheirCode /\ HalfCleared
    BY <1>1 DEF OneCall, Defaults, StringsKeepTheirCode, HalfCleared, At
  <1>3. MapsMatch
    BY <1>1, NoneIsNone DEF MapsMatch, Forth, Back, Adding, At
  <1> QED
    BY <1>1, <1>2, <1>3 DEF IInv

\* No step breaks it.
LEMMA StepInv == ASSUME Locked, IInv, [HNext]_allvars PROVE IInv'
  <1>1. Shaped' /\ OneCall'
    BY ShapeStep, OneCallStep DEF IInv
  <1>2. CASE UNCHANGED allvars
    BY <1>1, <1>2 DEF allvars, vars, history, IInv, Defaults, StringsKeepTheirCode,
                      MapsMatch, Forth, Back, HalfAdded, Quiet, Adding, HalfCleared, At
  <1>3. ASSUME NEW t \in Client, HOther(t) PROVE IInv'
    BY <1>1, <1>3, LookupInv, ClearInv DEF HOther
  <1> QED
    BY <1>1, <1>2, <1>3, FlagInv, AddNameInv, AddCodeInv, ClearInv DEF HNext

\* While clients hold a mutex around their calls, the invariant holds.
LEMMA Invariance == ASSUME Locked PROVE HSpec => []IInv
  <1>1. IInv /\ [HNext]_allvars => IInv'
    BY StepInv
  <1> QED
    BY <1>1, InitInv, PTL DEF HSpec

\* Then a string has one code for ever unless clients define it, for any
\* strings, tables and hash.
THEOREM OneCode == ASSUME Locked PROVE HSpec => []StringsKeepTheirCode
  <1>1. IInv => StringsKeepTheirCode
    BY DEF IInv
  <1> QED
    BY <1>1, Invariance, PTL

\* And each map undoes the other but for strings with two codes and codes
\* with two strings.
THEOREM Inverse == ASSUME Locked PROVE HSpec => []MapsAreInverse
  <1>1. IInv => MapsAreInverse
    BY DEF IInv, MapsMatch, MapsAreInverse, Forth, Back
  <1> QED
    BY <1>1, Invariance, PTL

\* What is written for a code reads back as it, unless the string has two
\* codes, is not found as it is spelled, or is given to another code by a client.
THEOREM ReadBack == ASSUME Locked PROVE HSpec => []CodesReadBack
  <1>1. IInv => CodesReadBack
    <2> SUFFICES ASSUME IInv, Quiet, NEW c \in Code
                 PROVE  LET custom == allowCustomCommodities /\ customCommodityNames[c] # NoStr
                            name == IF custom THEN customCommodityNames[c] ELSE DefaultName(c)
                            n == Prepared(name)
                        IN  \/ custom /\ n = name /\ n \notin recoded
                            \/ ~custom /\ Readable(c) /\ (allowCustomCommodities => n \notin added)
                            => c = IF allowCustomCommodities /\ customCommodityCodes[n] # NoCode
                                   THEN customCommodityCodes[n] ELSE DefaultCode(n)
      BY DEF CodesReadBack
    <2>1. Forth(customCommodityNames[c], c) \/ customCommodityNames[c] = NoStr
      BY DEF IInv, Shaped, MapsMatch
    <2>2. Prepared(DefaultName(c)) \in Str
      BY TableTypes
    <2>3. CASE allowCustomCommodities /\ customCommodityNames[c] # NoStr
      BY <2>1, <2>3, NoneIsNone DEF Forth
    <2>4. CASE ~(allowCustomCommodities /\ customCommodityNames[c] # NoStr)
      BY <2>2, <2>4 DEF IInv, Defaults, Readable
    <2> QED
      BY <2>3, <2>4
  <1> QED
    BY <1>1, Invariance, PTL
=============================================================================
