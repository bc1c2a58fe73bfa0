------------------------- MODULE CommoditiesHistory -------------------------
(***************************************************************************)
(* Commodities with the history its properties speak of, since the maps    *)
(* were last cleared: what clients added, and which additions emplace      *)
(* dropped by half, because the string had another code already or the     *)
(* code another string.                                                    *)
(***************************************************************************)
EXTENDS Commodities

VARIABLES
  added,     \* the strings that clients gave to addCustomCommodity
  recoded,   \* the strings that were added with a code and had another one
  renamed    \* the codes that were added for a string and had another one

history == <<added, recoded, renamed>>
allvars == <<vars, history>>

\* A default name that getCommodity reads as the code it was written for.
Readable(c) == DefaultCode(Prepared(DefaultName(c))) = c

HInit == Init /\ added = {} /\ recoded = {} /\ renamed = {}

HFlag == /\ disableCustomCommodities \/ enableCustomCommodities
         /\ UNCHANGED history

HAddName(t) ==
  /\ AddName(t)
  /\ renamed' = IF customCommodityNames[call[t].code] \in {NoStr, call[t].comm}
                THEN renamed ELSE renamed \cup {call[t].code}
  /\ UNCHANGED <<added, recoded>>

HAddCode(t) ==
  /\ AddCode(t)
  /\ added' = IF call[t].fn = "addCustomCommodity"
              THEN added \cup {call[t].comm} ELSE added
  /\ recoded' = IF customCommodityCodes[call[t].comm] \in {NoCode, call[t].code}
                THEN recoded ELSE recoded \cup {call[t].comm}
  /\ UNCHANGED renamed

HClearCodes(t) == /\ ClearCodes(t)
                  /\ added' = {} /\ recoded' = {} /\ renamed' = {}

HOther(t) == /\ \/ Begin(t) \/ CheckFlag(t) \/ FindCode(t) \/ FindName(t)
                \/ TableCode(t) \/ TableName(t) \/ AddCheck(t)
                \/ ClearNames(t) \/ Return(t)
             /\ UNCHANGED history

HNext == \/ HFlag
         \/ \E t \in Client : HAddName(t) \/ HAddCode(t) \/ HClearCodes(t) \/ HOther(t)

HSpec == HInit /\ [][HNext]_allvars

-----------------------------------------------------------------------------
\* The maps and the calls in progress are well formed, and every lookup has
\* an answer.
TypeOK ==
  /\ customCommodityCodes \in [Str -> Code \cup {NoCode}]
  /\ customCommodityNames \in [Code -> Str \cup {NoStr}]
  /\ allowCustomCommodities \in BOOLEAN
  /\ call \in [Client -> CallType \cup {Idle}]
  /\ \A t \in Client : \/ At(t, "getCommodity", "return")
                       \/ At(t, "getCommodityName", "return")
                       => call[t].comm \in Str /\ call[t].code \in Code
  /\ added \subseteq Str /\ recoded \subseteq Str /\ renamed \subseteq Code

\* A string that no client defined has one code for ever: whatever is looked
\* up, defined, disabled, enabled or cleared between two calls of getCommodity
\* or during one, it answers the same.
StringsKeepTheirCode ==
  \A t \in Client :
    At(t, "getCommodity", "return") /\ call[t].comm \notin added =>
      call[t].code = DefaultCode(call[t].comm)

\* No call is between its two updates of the maps.
Quiet == \A t \in Client : call[t] # Idle => call[t].at # "codes"

\* Each map undoes the other, although emplace drops either half of an
\* addition whose key is taken: what strings with two codes and codes with two
\* strings lose stays with them, however additions, lookups that add a hash,
\* the flag and clearing follow each other.
MapsAreInverse ==
  Quiet => \A n \in Str, c \in Code :
    /\ customCommodityNames[c] = n /\ n \notin recoded => customCommodityCodes[n] = c
    /\ customCommodityCodes[n] = c /\ c \notin renamed => customCommodityNames[c] = n

\* What getCommodityName writes for a code, getCommodity reads as that code,
\* also when strings share it: a name from the map unless the string has two
\* codes or an escape sequence in it, and another name, if it is readable,
\* unless a client added a code for it.
CodesReadBack ==
  Quiet => \A c \in Code :
    LET custom == allowCustomCommodities /\ customCommodityNames[c] # NoStr
        name == IF custom THEN customCommodityNames[c] ELSE DefaultName(c)
        n == Prepared(name)
    IN  \/ custom /\ n = name /\ n \notin recoded
        \/ ~custom /\ Readable(c) /\ (allowCustomCommodities => n \notin added)
        => c = IF allowCustomCommodities /\ customCommodityCodes[n] # NoCode
               THEN customCommodityCodes[n] ELSE DefaultCode(n)

=============================================================================
