# units: a verification project

TLA+ models of the LLNL units library, model-checked with TLC and proved with
TLAPS. The reference is the C++ source; paths below are relative to the
repository, and `PROJECT.json` gives the lines each definition translates.

## The system and its parts

| Part | Source | State | Operations | Hard part |
| --- | --- | --- | --- | --- |
| Unit arithmetic | `units/units_decl.hpp`, `units_util.hpp`, `units.cpp` (`root`) | none: values. A unit is a multiplier, ten signed bit fields, four flags, a commodity code | `*`, `/`, `inv`, `pow`, `root`, flag setters, overflow predicates | truncation to the fields; error values that must survive arithmetic; the special case of the square root of hertz |
| User defined units | `units/units.cpp` 671-891 | two maps and an atomic flag | three add functions, remove, clear, load a file, disable, enable | the maps are kept in step by hand; the flag changes from other threads |
| Custom commodities | `units/commodities.cpp` | two maps and an atomic flag | lookups both ways, add, clear, disable, enable | looking up writes; `emplace` may drop half an addition; no lock |
| Conversion engine | `units/units.hpp`, `unit_definitions.hpp` | none | `convert` (three forms), equation units, per-unit bases | order of the fallback rules |
| String parser | `units/units.cpp` | the user defined units and commodities; a budget in the match flags | `unit_from_string`, `measurement_from_string` | mutual recursion bounded by counters packed in bit fields; time exponential in the layers of splitting |
| Custom units | `units/unit_definitions.hpp`, namespace `precise::custom` | none: values | custom, counting and equation units, the checks that recognise them | numbers hidden in exponents and flags, which dividing and inverting change |
| String writer | `units/units.cpp` | the user defined units | `to_string` | a list of rules, some of which call the writer again; must read back |
| Measurements | `units/units.hpp`, `units_math.hpp` | values | arithmetic and comparison of values with units, with and without an uncertainty | each operator is written several times; conversion by a factor or by the value |
| Domains and flags | `units/units.cpp` 682-719 | two plain globals | `setUnitsDomain`, `setDefaultFlags` | read by conversions on other threads |
| Code tables | `units/r20_conv.cpp`, `x12_conv.cpp`, conversion maps | none | binary search | data |
| Web server | `webserver/unit_web_server.cpp` | listener, sessions, three counters of outcomes and one of requests | accept, read, answer, write, time out, close | asynchronous operations: begun by one handler, completed by another; a session lives as long as its pending operation |
| Converter, Python bindings, fuzz targets | `converter/`, `python/`, `FuzzTargets/` | none | wrap the library | none |

How they interact: the parser reads the maps of user defined units (`get_unit`)
and of commodities (`getCommodity`, which may write them); the writer reads them
the other way (`find_unit`, `getCommodityName`); both build units with the
arithmetic. The web server, the converter and the bindings call parser, writer
and `convert`. Parser, writer and `convert` tell custom, counting and equation units by
their exponents and flags. The flags are shared between threads; the maps are meant to be
used under a mutex of the client.

What makes each part correct:

- *Unit arithmetic*: fields hold the exact exponents modulo their size; a
  calculation whose steps pass the overflow predicates is exact; `*`, `/`,
  `inv`, `pow` and `root` agree with each other; NaN and error units stay.
- *User defined units*: what is written for a unit reads back as it; requests to
  the flag are not lost; a file defines the lines it accepts.
- *Custom commodities*: a string keeps its code; each map undoes the other and codes
  read back, but for what a half of an addition that was dropped concerns.
- *Conversion engine*: a conversion and its reverse cancel; what converts one way
  converts the other; the result does not depend on the way; a base value that is
  not needed changes nothing.
- *String parser*: reading ends for every string; the budgets are respected;
  counters never carry into other flags.
- *Custom units*: number and kind are told after every division the comments allow
  and after an inversion, and the inverse is told from the unit.
- *String writer*: the string written reads back as the unit; the recursion ends.
- *Measurements*: uncertain measurements calculate what plain ones do; operators
  written twice agree; units and order of the operands do not matter.
- *Web server*: requests of a connection are answered in order, once each; every
  connection is accepted in the end and every session ends; the listener goes on
  after errors; the counters add up.

## Modules

| Module | Role |
| --- | --- |
| `UnitData` | `unit_data`: wrapping exponents, flags, operations, overflow predicates (operators only) |
| `PreciseUnit` | `precise_unit`: multiplier (its sign, or NaN), base units, commodity code (operators only) |
| `UnitAlgebra` | a calculation in one register; its properties |
| `UserUnits` | the registry of user defined units |
| `UserUnitsHistory` | the same with the history variables its properties need, and the properties |
| `Commodities` | the registry of custom commodities, one access to a map or the flag a step |
| `CommoditiesHistory` | the same with history, and its properties |
| `UnitParser` | one chain of nested calls of the string reader; its properties |
| `Numbers` | doubles without rounding: arithmetic modulo a prime, and NaN (operators only) |
| `Conversion` | the three forms of `convert` and every rule they try (operators only) |
| `Measurement` | a measurement converted from unit to unit; its properties |
| `CustomUnits` | numbers in exponents and flags, and the checks (operators only) |
| `CustomUnitUse` | a custom unit divided and inverted by a client; its properties |
| `UnitText` | texts of units and what the reader makes of them (operators only) |
| `UnitWriter` | `to_string`, a rule a step; its properties |
| `Rationals` | exact fractions (operators only) |
| `UncertainMeasurement` | a calculation with uncertain measurements beside one with plain ones; its properties |
| `WebRequest` | `handle_request` (operators only) |
| `HttpService` | the abstract specification: what the server promises |
| `WebServer` | listener and sessions with their asynchronous operations; implements `HttpService` |
| `MC*` | instances for TLC |
| `UserUnits_proof`, `UnitParser_proof`, `Commodities_proof`, `UnitWriter_proof`, `WebServer_proof` | theorems |
| `UnitsAndMeasurements_proof` | theorems about `UnitAlgebra` and `Measurement` |
| `ClientCalculations_proof` | theorems about `UncertainMeasurement` and `CustomUnitUse` |
| `UnitData_proof` | laws of `UnitData` that the theorems rest on |

`CustomUnits` extends `UnitData`; `Conversion`, `UnitText` and `UncertainMeasurement`
extend `CustomUnits`; `WebServer` extends `WebRequest`. So one translation of the
bit fields serves them all.

### UnitData, PreciseUnit, UnitAlgebra

The fields of `unit_data` are `exp`, a function from `Base` (the ten bit fields,
or any set of them with `Second`) to integers wrapped to the width of the field,
`[-Half[b], Half[b])`, and `flags`, the set of those of the four that are on. The
multiplier of a `precise_unit` is one of `pos`, `neg`, `nan`: its magnitude
never decides what happens to the rest, while NaN and the sign under a root do.
A commodity code is a set of bits: `*` is union (`|`), `/` is `& ~`, `inv` is
`~`. The operators have the names and the structure of the C++ functions.

`UnitAlgebra` is what client code does: `reg` holds a unit, and each action is
one operation on it with an operand or a power (`Load`, `DoTimes`, `DoDivides`,
`DoInv`, `DoPow`, `DoRoot`, the flag setters, `SetCommodity`). `exact` holds the
exponents the calculation would have over the integers and `checked` that every
step so far passed its predicate of `units_util.hpp`; neither influences `reg`.

### UserUnits, UserUnitsHistory

`user_defined_units` and `user_defined_unit_names` are functions with `NoUnit`
and `NoName` for absent keys. The add functions are sequences of steps (`AddCheck`,
`AddName`, `AddUnit`, `AddLoad`, `AddStore`), since the atomic flag may change
between any two; they end with `store(load())`, two atomic accesses. Functions that
touch the maps run one at a time, as `docs/user-guide/user_defined_units.rst`
asks of clients ("a separate mutex"). `removeUserDefinedUnit` reads the string
through `get_unit`, so it depends on the flag and on earlier definitions.
`definedUnitsFromFile` goes through `File` line by line and calls the add
functions, whose steps are interleaved with the flag like any other call; a line
may use a name an earlier line defines, and an exception while a line is read ends the
file (`CatchException`; one of an insertion, for want of memory, is left out). The syntax of lines is left out: a line
is malformed or a name, a kind and what its right side means.
`Builtin` and `BuiltinName` stand for the tables and the rest of the reader
and of the writer; they are assumed to read back what they write.

`UserUnitsHistory` adds the last request to the flag, whether it fell in
the window between `load` and `store`, whether clients have been *orderly* and
what the lines of the file meant when they were read.

### Commodities, CommoditiesHistory

Every step is one access to the flag or to one map. `Locked` says whether clients
keep the calls under a mutex; the flag is outside of it. `getCommodity`
goes through the custom map, the library's codes, `CXCOMM[...]`, the packed short
strings, and at last registers a hash by the same steps as `addCustomCommodity`.
How strings are prepared, packed and hashed is given by constants: functions on
`Str` and `Code` of which nothing is assumed but their types. An addition is two
`emplace`s, each of which does nothing if its key is taken. `CommoditiesHistory` records
where that happened: `recoded` are the strings that were added with a second code (by a
client after a lookup gave them a hash, or by a lookup in which the flag went on),
`renamed` the codes that were added for a second string (two equal hashes, or a client's
choice), `added` the strings that clients added. The properties say that nothing else is
lost, in whatever order all this happens.

### UnitParser

`unit_from_string_internal` calls itself through some fifteen helpers, on parts
of the string, on the string rewritten, or through `default_unit`. The match
flags go down by value with four counters packed into them, each of which limits
something by its highest bit: recursion, "per", commodities and partitioning. A
behaviour is one chain of nested calls from the client down: `fn` is the function
called last, `size` the size of its string, `flags` its flags as passed, and
`splits` and `outer` how many calls of `tryUnitPartitioning` are on the stack: those made
since the flags were last set afresh, and those before. `default_unit` sets them afresh
(`units.cpp:6185`) to read the unit of a quantity that the string names, with
`no_default_units`, so that this happens once on a chain: three layers and then three
more, not three altogether as the comment at `units.cpp:5915` might be read.
The partition counter is kept with the flag above it, `skip_si_prefix_check`, as a number of
four bits. What carries out of these (sixteen nested leading numbers) clears
`skip_code_replacements`, which each call sets again, and adds one to the minimum size of
the pieces that a string is cut into: neither is modelled, as pieces of any size are
tried; that the string is cleaned once more is left out.
Each action is one call site, with the conditions on the flags and the size under
which it is reached and the flags it passes; whether the text of the string leads
there is left open, so that every string is covered. `Return` says that no
further call is made. What comes back is not modelled: after a call returns, the
caller tries the sites after it, and these are alternatives in the same state.

`size` counts characters after cleaning except the ones that cleaning inserts
(`^`, a `*` between two others, the 1 of a leading `1/`), because with these
counted `m2`, read as `m^2`, would grow. That no call site violates this measure
was read from the code, and observed in an instrumented build on some hundred
thousand strings mutated from the names of units. Calls on the empty string
and on `1` return one in their first lines and are left out.

### Numbers, Conversion, Measurement

`Conversion` translates `convert` function by function, under the names of the code;
`UnitData` supplies the products and inverses of units with their wrapping. The
rules are a chain of IF and ELSE in the order in which the code tries them, and a
function that gives NaN passes on to the next rule, as in the code. `kilo` makes
`convert` call itself with another first unit; the results of this one level of
recursion are parameters, so that the operators are not RECURSIVE.

Values and multipliers are residues modulo a prime, so that `+ - * /` are exact and two
formulas are told apart by what they compute and not by a tolerance. Literals of the
code are their residues (`Rational(5, 9)`); pi and the Avogadro number are arbitrary
residues. The curves of equation units, `pow(10, x)` and the others, are permutations of
the residues, a different one each, with their inverses: nothing in the code uses more
of them than that (the wind scales have two fitted polynomials each that undo one
another but roughly; these are separate curves). What the proofs use of all this are
named assumptions: the prime is above 10000, so that the small integers of the code are
their own residues, the table of inverses holds inverses (Fermat), a curve and its
inverse undo one another, and no literal that is divided by is zero. Order does not survive. It matters in
two places: the logarithm of a value that is not positive, which is kept for zero only,
and the range of multipliers that have an offset of their own (`biasTable`), which is
kept for the multipliers in use. Rounding, and so the choice of a tolerance in `==`, is
left out. The operators were compared with the compiled library for all pairs of 65 of
the units of `MCMeasurement` in the three forms of `convert`: the same pairs convert, and
the same ones do not convert back to the value there was.

A behaviour of `Measurement` begins with a value and a unit, and converts it with
`convert_to` or `convert_to_base`. `bases` says how many base values the client
gives: none, as `convert_to` does, or one or two, by calling `convert` itself.
`origin`, `visited` and `based` remember the chain for the properties.

The exceptions in the properties are what the rules do by different conventions, each
found by TLC and confirmed in the code:

- `OneSided`, `Rescales` (two bases): the multiplier of the unit that is not per unit
  counts in one direction only, when the quantities differ or one of them is the
  generic `pu` (with a base of 100, 300 MW are 3,000,000 pu, and 3 pu are 300 MW), and a
  per-unit quantity without a known base is rescaled from the first base to the second
  both there and back.
- `AtOdds` (paths): inverses are taken of values as they stand, so offsets and
  counting factors stay in; equations take moles, turns and things for the same, and
  a per-unit value for the plain one; an e_flag wins over an equation; known
  conversions between per-unit quantities drop the multipliers.
- `WeighsTwice` (paths): the rule for weights asks for no mass, so a number is the weight
  of s^2/m and m/s^2 that of a number. From 7 s^2/m over a number to m/s^2 the library
  multiplies by gravity twice, where the direct conversion takes the inverse. TLC does
  not find this unless the accelerations are units of the instance; an attempt at the
  proof did.
- `kilo` converts to masses and lengths, and these do not convert to `kilo`.

### CustomUnits, CustomUnitUse

A custom unit is a number of ten bits, of which three flags hold three and the
exponents of seven base units the rest, most of them at the ends of their fields; counting
units and equation units hold four and five bits in the same flags and in one and two
exponents. The checks (`is_custom_unit`, `is_custom_unit_inverted`,
`custom_unit_number` and those of counting units) are translated condition by
condition. `CustomUnitUse` starts from a unit of any number, and a client divides it
by powers of base units (`CustomPowers`, `CountPowers`), before or after inverting it. Inverting negates
exponents at the end of their fields, which wrap; so do the exponents of a unit that a
product with a time takes out of its field. `ToldPowers` has the divisions after which
number and inverse are told: those that the comments of `unit_definitions.hpp` allow
(by s, m, m^2, m^3 and kg), nearly all combinations of them and of kg^2, and products
with s, s^2 and s^3. Per cubic meter and kilogram together the inverse is lost.

### UnitText, UnitWriter

A text is a number and a sequence of terms, each with a prefix, a name and a power,
and either multiplying or dividing; the characters are left out. `Read` is what the
reader makes of it. Numbers are exact: a sign, a power of ten and one of sixty.

`UnitWriter` follows `to_string_internal`. `Choose` takes the first rule that applies to
what is left of the unit (`un`), and the action of that rule writes terms before or
after it and either finishes or leaves a rest, for which the writer calls itself;
`clean_unit_string` then changes the two prefixed names that would be misread. The phases
are choosing, writing, cleaning and done. Of several candidates the code takes the
shortest; lengths are not modelled, so any candidate may be taken and each must read
back. Names given by users are found before those of the library, and a map of names is
iterated in the order of `UserName`.

Left out: branches for multipliers that differ after rounding, powers beyond nine (the
wide build has them), names of commodities, the shortening of long numbers, and the
rewriting of a kelvin with an e_flag to degC. What names mean (`Means`), and which
prefixed names the reader has another meaning for (`Clash`), are constants.
`TablesReadBack` says when the tables of the writer and those of the reader agree: each
name the writer finds for a unit is read as that unit. It is what the theorems assume,
and `MCTablesReadBack` evaluates it on the instances: it holds of the table in which
`kg` means a kilogram, and not of the other one, where `ReadsBack` fails.

### Rationals, UncertainMeasurement

`um` is an uncertain measurement, and `plain` what the class `measurement` makes of the
same call. Values are fractions. The operators combine uncertainties by the root of the
sum of squares, the `simple_` functions by the sum; `method` says which of the two a
client uses. With the first, an uncertainty is held as its square with its sign
(`x * |x|`): products and comparisons of these are those of the numbers, and no root is
needed. Each operator with an uncertain, and with a plain measurement on either side, is
translated by itself, as in the code.

`convert` is exact where it multiplies by a factor: between units of the same base that
are no equations, not per unit and without an e_flag (`Proportional`, `Plain`). What it
does between others (offsets, inverses, equations, bases, weights, all in `Conversion`)
is the constant `OtherConversion`, of which nothing is assumed; in the instance it adds
and takes off the zero of a temperature scale, and inverts. `straight` remembers whether the
conversion of the last call was by a factor. So the theorems hold whatever the other
rules do, and say of them that `uncertain_measurement` may differ from `measurement`.

The comparisons are those with an uncertain measurement, with the simple difference as
the code has them, and with a measurement on either side. On the left of `<`, `>`, `<=`
and `>=` the code compares the bare numbers, whatever the units
(`units.hpp:1124-1143`), so `ComparesAsCertainOnTheLeft` is about equal units, and for `<=` and
`>=` about uncertainties that are not negative. The invariants apply one or two
further operations to each state, so that they compare whole expressions.
`OperandAssumption` says only that operands are numbers and multipliers positive.

### WebRequest, HttpService, WebServer

`handle_request` takes a request by its method, its path and its parameters, of query
and body; what is known of a text is whether it reads as a measurement or a unit. Some
of its ways are easily overlooked, and are kept: an error for a HEAD request has a body;
a request counts as a success when both texts were understood, although they may not
convert; and everything whose target begins with `/convert` gets an answer. It is
assumed that no text holds a placeholder of the pages, because `string_substitution`
would not end on one.

In `WebServer` an asynchronous operation is begun by a handler and completed by the
system, successfully or not; in between, and until the one thread of the `io_context`
runs the handler of the completion, anything else may happen. A session is in one state
for each operation pending (`reading`, `writing`) and one for each completion that waits
for its handler (`read`, `read_end`, `read_failed`, `written`, `write_failed`). Nothing
holds a session but its pending operation: a handler that begins none destroys it, and
frees its socket. Requests may be pipelined: `buffered` of those that were `sent` are in
the buffer of the session, and `consumed` of them are parsed. Clients connect, send,
close their side and reset at any time, and send what does not parse. The timer starts
with a read and goes on over the write. Out of sockets, or on a listener whose
constructor failed, accepting fails and is begun again; the second goes on for ever, as
it does in the code.

`HttpService` has none of that: a connection is new, waiting, open or over, its requests
get their answers in order, and it ends for one of the reasons of `MayEnd`.
`Service == INSTANCE HttpService WITH status <- ..., late <- ...` maps a session to its
status and an expired timer of a session that lives to `late`; the other variables have
the same names.

## What each run checks

| Run | Property | What it shows |
| --- | --- | --- |
| `unit_algebra` | `TypeOK` | exponents always fit their fields, and NaN and commodities are well formed |
| | `WrapsToExact` | however many steps overflow, the fields are the exact exponents modulo the field |
| | `CheckedIsExact` | the predicates are sufficient: a calculation they let through is exact |
| | `TimesThenDividesCancels` | and where it does not: shared commodity bits, two e_flags |
| | `PowIsRepeatedTimes` | for powers of one and more; the base units also for negative ones; except even powers of the square root of hertz |
| | `RootUndoesPow` | for powers that fit, with the flags that even powers drop |
| | `InvLaws` | `inv` is `pow(-1)` and its own inverse |
| | `NaNStays`, `ErrorStays` | failed calculations are not taken for good ones later |
| `user_units` | `FlagFollowsRequests` | a request is lost in the window between load and store only |
| | `WrittenNamesReadBack` | with orderly clients, in every state another thread sees |
| | `FileDefinesWhatItAccepts` | with redefinitions, bad lines and uses of earlier lines |
| `commodities` | `StringsKeepTheirCode` | a string clients never defined has one code, for ever |
| | `MapsAreInverse`, `CodesReadBack` | where an `emplace` was dropped, only the string with two codes and the code with two strings lose anything |
| `unit_parser` | `TypeOK` | no counter carries into the flag above it |
| | `CallsDescend` | no chain of calls is infinite |
| | `ReadingEnds` | so every chain ends (liveness) |
| | `ThreeLayersOfSplits` | three layers of splitting with the client's flags, three more inside `default_unit`; the recursion budget, not the partition counter, limits them |
| `conversions` | `TypeOK` | results are residues or NaN, in the unit asked for |
| | `RoundTrip` | each rule is undone by the one that applies to the way back |
| | `Reversible` | what converts converts back, `kilo` excepted |
| | `PathIndependent` | a chain leads where the direct conversion does, or one of the listed conventions is on the way |
| `custom_units` | `TypeOK` | the flags of a number survive, and exponents stay in their fields |
| | `NumberIsKept` | divided and inverted, a custom unit keeps its kind and number, and is not taken for the other kind |
| | `InverseIsTold` | and is told from its inverse |
| `unit_writer` | `TypeOK` | every prefix exists, every name is known and no power is zero |
| | `ReadsBack` | whichever rules apply, the text reads back as the unit |
| | `CallsAreSmaller` | the writer calls itself on something smaller |
| `web_server` | `TypeOK` | every completion has its handler, and no more is parsed than was sent |
| | `CountersTell` | each request is counted once, and once more by its outcome |
| | `ImplementsService` | the server refines `HttpService` |
| | `ConnectionsAreAccepted` | also one that waits while the server is out of sockets (liveness) |
| | `SessionsEnd` | also with a client that sends nothing, or does not take its response (liveness) |
| `uncertain_measurements` | `CalculatesAsMeasurement` | the value is the one the class `measurement` calculates, if a factor converts |
| | `MeasurementIsCertain` | an operator with a plain measurement is the one with an uncertainty of zero, where units or zeros do not prevent it |
| | `UnitsDoNotMatter` | an operand may be given in any unit, in calculations and comparisons |
| | `OrderDoesNotMatter` | products, quotients and sums associate, uncertainties included, for quotients by units without an e_flag |

Each property is broken by a mutant of the model listed in `PROJECT.json`.

The runs that end in a violation show where code and documents disagree; each
has its finding in `PROJECT.json`:

| Run | What the code does |
| --- | --- |
| `conversions_equation` | a level in decibels of pressure converts to pascals as a gauge pressure, since its e_flag is looked at first |
| `unit_writer_kg` | the name of a user's unit that begins with `kg` is written without its k where the number is small |
| `uncertain_convert` | `convert_to` of an uncertain temperature (4 K to degC) multiplies by the conversion of one kelvin |

Further disagreements between code and documents, on which no run is spent. Those the
models show:

- division XORs the e_flag where multiplication ORs it (`docs/details/unit_base.rst:64`
  says they are the same), hence the exception in `TimesThenDividesCancels`;
- `pow_overflows` does not know the adjustment for the square root of hertz, so that
  such a power restarts the count of checked steps in `UnitAlgebra`;
- `removeUserDefinedUnit` finds what to erase by reading the string as it reads now, and
  can leave the name in one of the maps (`units.cpp:745`; `units.hpp:2079-2080` says
  "for both input and output"), hence *orderly* in `WrittenNamesReadBack`;
- a disable that falls between `load` and `store` of an add is undone (`units.cpp:736`;
  `docs/user-guide/user_defined_units.rst:142` calls the flag atomic), hence *torn* in
  `FlagFollowsRequests`;
- a file read while the flag is off defines nothing and reports nothing, hence `steady`
  in `FileDefinesWhatItAccepts`;
- a string that was looked up has a code, and one added for it later is dropped
  (`commodities.cpp:326`; `README.md:374`), hence `recoded` in `MapsAreInverse`;
- the maps of commodities have no lock, and looking up writes them (`commodities.cpp:325`;
  `README.md:377` claims thread safety), hence `Locked`;
- eight nested leading numbers carry out of the partition counter and clear
  `skip_partition_check`, hence `ThreeLayersOfSplits` rests on the recursion counter;
- with a base value they do not need, temperatures and levels are merely scaled
  (`units.hpp:166-170`), and `convert_to_base` scales them too (`units.hpp:357-360`;
  `README.md:286`): `Measurement` follows the code;
- the checks of custom units "will operate regardless of any m/kg/s unit combination or
  inverted units" (`docs/user-guide/custom_units.rst:22`), but custom unit 448 per cubic
  meter and kilogram is its own inverse, hence `ToldPowers`; `unit_definitions.hpp`
  lists fewer;
- a negative factor gives a negative uncertainty, with which
  `(-2 +/- 0.2) * (2 +/- 0.2)` is not equal to itself (comment at
  `units.hpp:1045-1047`), hence the absolute values in `MeasurementIsCertain`; the
  simple product of factors of opposite sign subtracts their uncertainties; a product
  with the value zero has NaN for its uncertainty;
- `uncertainty_as(K)` of degrees Celsius adds the offset to the uncertainty;
- `measurement > uncertain_measurement` compares raw values in whatever unit
  (`units.hpp:1124-1143`), where the other comparisons convert, hence
  `ComparesAsCertainOnTheLeft`.

Those that the models leave out: user's names like `in2` after a number, names of
commodities with spaces, and `10000m{water}` do not read back as written.

### Bounds, and why they are enough

- `UnitAlgebra`: the second (four bits) and the count (two bits), the field with a
  special rule and the narrowest one; fields do not influence each other
  otherwise. Operands reach both ends of both fields, every combination of flags,
  the NaN, error, default and invalid units. Powers -3..4 have both
  parities and zero. `exact` is cut at `ExactBound` = 12 by the guards of the
  operations, half as far again as the widest field, so that overflows, and
  wrapping back, happen.
- `UserUnits`: a string the library knows and one it does not, three precise units
  two of which are one `unit` after the cast, and a file of four lines with a
  definition, a use of it that shadows a built-in, a bad line, and a name for
  writing only. Definitions, shadowing, redefinition and removal in every order
  need no more names, since each property relates two strings at most.
- `Commodities`: five strings and three codes: known, short, hashed, escaped,
  `CXCOMM` in both cases; every string has the same hash, the worst case. Clients add
  two of the codes (`CustomCode`), one that the library gives to another string and
  the hash, so that strings come to two codes and codes to two strings
  (526,076 states).
  With `Locked` a single client is every client, as calls do not overlap; the
  theorems hold of any number.
- `UnitParser`: strings up to nine characters. A chain that spends the budget of
  three levels and gives none back needs less; the theorems have no bound. Each of
  the flag sets clients pass sets another limit.
- `Measurement`: the 67 units between them reach every rule of `convert`, with and
  without flags and multipliers. A wrong formula agrees with the right one on a few
  residues of 10007 only, and there are two start values. The properties relate
  two steps at most (there and back) or a chain with its direct conversion; chains
  have two steps, and once, with one value, three, which found nothing new.
- `CustomUnitUse`: all 1024 custom and 16 counting units in the fields of the four-byte
  build, divided by every told combination of the powers the comments allow and of
  kg^2, and multiplied by s and s^2 (91,136 states). The theorems hold of both builds.
- `UnitWriter`: units of up to four base units with powers at the ends of their fields,
  the part of the tables with exact multipliers, two user's names, and multipliers that
  do and do not have a prefix, INF, NaN and zero. Each action, and each branch of the
  rules, is reached (27,582 states); what a rule does depends on the unit that is left
  only.
- `UncertainMeasurement`: lengths in two units, temperatures with and without offset
  (their conversion is the instance's `OtherConversion`), and a mass that does not
  convert to either; a negative value, a zero value and a zero
  uncertainty. Operators keep nothing from call to call, so one call
  (`MaxCalls` = 1) and the two the invariants add are expressions of three operations.
- `WebServer`: two connections, one socket, so that one waits for the other; two
  requests in all, on either connection, of four kinds (a conversion, one that closes, a
  HEAD, a too long text in a body that replaces the query's) or malformed. Two are
  enough for pipelining, for an answer before and one after a reset, and for an
  interleaving of the sessions, which share nothing but the listener, the sockets and
  the counters (254,759 states). The theorems have no bound.

### Fairness

`UnitParser`: `WF_vars(Next)` says that the thread that reads a string goes on
executing; `Next` is enabled until the call returns, and weak fairness of the whole
relation favours no alternative: `ReadingEnds` holds whichever call site is taken each
time, which is what "for every string" means.

`WebServer`: weak fairness of each handler (`on_accept`, `on_read(c)`, `on_write(c)`),
as the thread in `ioc.run()` runs what is ready, in the order it became so; of the
system's completions of accepts and reads, and of a write that failed; and of
`Expire(c)`, as time passes. Each handler and each session has its own condition, since
the queue of the `io_context` starves none. `WriteCompletes` and all actions of clients
are not fair: a client need not take a response, send or close, and `SessionsEnd` then
rests on the timer alone.

The other modules are registries and values: nothing in them must happen.

`CHECK_DEADLOCK FALSE` stands where the system may stop: in `UnitParser`, as a call that
has returned is the end of a behaviour; in `Measurement`, as NaN is the end of a chain,
as is its bound; in `UncertainMeasurement` for the same reasons; in `WebServer`, as
clients may all be gone. The others check deadlock.

## What is proved

All theorems hold for every value of the constants that satisfies the named
assumptions, which TLC evaluates on the instances.

- `UnitsAndMeasurements_proof`, of units: for any set of base units with a second, the widths of fields
  that either build has, any operands, powers and commodity bits: `TypeCorrect`,
  `Wrapping`, `CheckedCalculation`, `Cancellation`, `NaNPropagates`, `ErrorPropagates`,
  and `PredicatesAreExact` of the predicates by themselves; also `InverseLaws` and
  `RootAfterPow`, which rest on lemmas of `Wrap` and of division. So they also hold of
  the wide build of the library. The inductive invariant is the typing of the register
  with `WrapsToExact` and `CheckedIsExact`; wrapping is handled by lemmas that `Wrap` is
  in the field, is congruent to its argument and depends on it modulo the field only,
  from which every operation's case follows. `CheckedIsExact` needs nothing more than
  that a predicate that is false means no wrap. `PowMultiplies` shows that the power is
  the repeated product for powers of one and above, and that the base units of a negative
  power are the inverse of the product (its commodity is not: `inv` complements it and
  `pow` keeps it); even powers of what looks like a square root of hertz are excepted
  (`PowIsRepeatedTimes`). `UnitData_proof` has the laws of the fields that it uses.
- `UnitsAndMeasurements_proof`, of measurements: for any units, values, base values and
  constants of physics, any field of numbers that satisfies the assumptions, and chains
  of any length: `ChainTypeCorrect`, `RoundTripCorrect` and, with one base value or none,
  `ReversibleCorrect`. `RoundTripExact` says more than the property: the conversion back
  gives the value itself, and not NaN, but for a kilo and a logarithm of zero. The
  inductive invariant is the typing (`ChainTypeOK`); the rest is about one step and goes
  up from the numbers. Residues are a field in which nothing but zero lacks an inverse;
  literals are numbers and not zero. The curve of each equation is undone by its inverse
  (`EquationLaws`). Then each rule of `convert` applies both ways or neither, and where it
  does, undoes itself: offsets (`FlaggedUndone`), counting units (`CountingUndone`),
  inverses (`InversionUndone`), gas (`GasUndone`), weights (`WeightUndone`), per-unit
  quantities (`KnownUndone`, `PerUnitUndone`). That is not enough, as each direction
  looks for its rule by itself: `DistinctUndone` and `ViaUndone` show that the rule found
  first is the same both ways, but for `kilo`, whose rule comes last. The forms with base
  values follow (`WithBaseUndone`, `WithBasesUndone`), where a unit multiplied by `pu`
  keeps its other fields though these wrap (`PerUnitOfBased`).
- `UnitsAndMeasurements_proof`, of paths: `PathCorrect`, that a chain of any length through
  units without flags (`Bare`) leads where the direct conversion does, whatever the other units
  are. A value has a worth, itself times the
  multiplier and what its moles and turns count (`Worth`), and a unit a dimension
  apart from things counted (`Kind`). A conversion keeps both, or inverts both, or
  multiplies the worth by gravity and the dimension by an acceleration or divides both,
  or takes a kilo for something else (`Classified`, `StepLeads`). The invariant
  (`ChainReaches`) says that the worth is the first one times a power of
  gravity (`OnPower`), or the inverse of that (`OnInverse`), with the same power of an
  acceleration in the dimension. That alone is too little: fields wrap, and a dimension may be a
  power of an acceleration, so that one dimension is reached in several ways
  (`Meeting`), with another worth. So the invariant also says which units were visited: two weights in a row
  are `WeighsTwice`, and an inverse is taken between units that count nothing, which are
  each other's weights if they can be. What is left is small powers, which fields
  tell apart (`DistinctPowers`), an even distance where the two meet, and a few cases
  (`DirectOnWay`). After a kilo was taken for a kilogram or a kilometer the way begins
  anew (`ThroughKilo`), and no number is ever reached again (`PureWays`).
- `UserUnits_proof`: for any names, units, casts and files, and any built-in tables
  that read back: `TypeCorrect`, `FlagFollows`, `RoundTrip`, `FileDefines`. The flag property needs
  that a call at its store has loaded the last request unless torn
  (`LoadedIsCurrent`); the read-back property needs that every name in the writing
  map reads back even while the flag is off (`NamesReadBack`), and the
  shape of the running call (`CallShape`), since an add is caught half done. For a file
  (`FInv`), the call in progress is the one of the last line read (`FileCall`), the flag
  is on unless a request disturbed the reading (`FlagSteady`), and what each accepted
  line wrote is in its map or was replaced by a later one (`UnitsDefined`,
  `NamesDefined`); the two maps differ by one line between the halves of an add.
- `UnitParser_proof`: for strings of any length and any flags that respect the reserved
  bits: `TypeCorrect`, `ThreeLayers`, `Descent`. The invariant `IInv` adds that the
  commodity counter is never two or three when a commodity is read (then adding five
  stays below eight), and that `splits` is at most the recursion counter, because each
  layer of splitting spends a level that no call below it gives back (an operand or a
  power gives back only what its own caller spent); `outer` is fixed once
  `no_default_units` is set, which no call clears. The order that `Descent` states is
  well founded for sizes in Nat, which gives `ReadingEnds` by an argument outside of
  TLAPS's reach.
- `Commodities_proof`: for any strings, codes, tables and hash: `TypeCorrect` under any
  interleaving of any number of threads, and `OneCode`, `Inverse` and `ReadBack` when
  `Locked`. The two maps do not agree in the middle of a call, so that `MapsAreInverse`
  is not inductive. `IInv` says, of a call in progress, how far it has come: `OneCall`
  (calls do not overlap), `HalfAdded` (the code has the name, or had another one; each
  other name leads to its code, and each code to its name), `HalfCleared`. `Defaults`
  ties the entries that clients did not make to the tables of the library, which
  `OneCode` and `ReadBack` need.
- `WebServer_proof`: for any connections, requests, number of sockets and bound on
  requests: `TypeCorrect`, `CountersAddUp` and `Refinement`, that the server implements
  `HttpService`. `IInv` adds to the types what each state of a session says of its
  requests: with no answer under way as many are answered as parsed, else one less,
  which is the request in hand; the response being written is the one to that request;
  no session that may read has sent a closing answer; and the backlog holds each waiting
  connection once. For the counters, a step of `on_read` adds one pair to `Counted`, and
  `FS_AddElement` of the library counts it. For the refinement, every action is mapped:
  `Connect` to `Connect`, the steps of clients to `Client`, `on_accept` of a connection
  to `Accept`, `WriteCompletes` to `Answer`, a failed or ended read, a failed write and
  a closing `on_write` to `End`, `Expire` to `RunLate`; all others stutter.

- `UnitWriter_proof`: units without flags are a commutative group
  under `*` and `inv`, also when the fields wrap and for a number with a sign, a power
  of ten and one of sixty; so a text none of whose names clashes is read as the product
  of its terms in any order (`ReadIsProduct`, for texts of any length). On this rest
  `TextIsTyped` and `TextReadsBack`: for every unit without flags, any number, NaN and
  the infinities included, any tables that read back and any names of users, the
  finished text reads as the unit. `IInv` says that the text so far together with what
  is left (`un`) is always worth the unit that was to be written (`Left`), and that the
  names in it are names the reader knows (`TextTyped`). Each rule of
  `to_string_internal` has a lemma that it keeps this; in the cleaning, each rewritten
  `Mm^3` moves a power of ten into the number, so that `CleanedProduct` counts them
  (`FS_AddElement` of the library). `RecursionEnds` holds of every unit, with or without
  flags: its invariant `Descends` says only that what is left is a unit, and that the rule
  being applied is the first that applies. The kinds of units (an infinite number, a
  custom unit, an equation, the others) are then gone through: what is left of a custom
  unit is never one again although its exponents wrap (`CustomLeft`, `CountLeft`), and
  the SI test leaves one base unit of several.

- `ClientCalculations_proof`, of uncertain measurements: for any operands and units
  (`OperandAssumption`), whatever `convert` makes of units that it does not convert by a
  factor (`OtherConversion`), any widths of fields and both ways to combine
  uncertainties: `ClassesAgree`, `MeasurementsAreCertain`, `AnyUnit` and
  `AnyOrder`. The inductive invariant `UncertainInv` says that the client holds numbers or
  NaN in a unit with a positive multiplier, and a value that is the one of `measurement`
  unless the last call converted otherwise than by a factor; the other properties are consequences of it in each
  state, since operators keep nothing from call to call. The argument goes up from the
  integers: Euclid's algorithm returns the greatest common divisor (`GcdEquation`,
  `GcdDivides`), so a fraction in lowest terms does not depend on how it was written
  (`RationalScales`, `SameFraction`), and operations on fractions are those on numerators
  and denominators (`OnFractions`). Fractions are then a field, and with NaN, which
  absorbs, the laws of products and sums and of reciprocals (`NumLaws`, `NumQuotient`,
  `ReciprocalTimes`) hold without exception, so that nothing need be said of zero divisors.
  `Spread`, signed squares or the numbers themselves, goes through products and
  reciprocals; uncertainties combine in any order (`CombinedFacts`); a proportional
  conversion multiplies by the ratio of the multipliers (`Conversion`). An e_flag is lost when two cancel in a product
  (`UnitDividesTwice`), which is why `OrderDoesNotMatter` divides by units without one.

- `ClientCalculations_proof`, of custom units: for any number, any powers for counting units and `ToldPowers`
  for custom ones, and for fields no narrower than those of the four-byte build
  (`FieldsHold`): `TypeCorrect`, `NumberKept`, `InverseTold`; the types need neither
  hypothesis. A division wraps exponents, so no property follows from the exponents of
  the step before. `CustomInv` says that each field holds the wrapped image of the exponent
  of exact arithmetic, the generated one less the power divided by, negated if the unit
  is inverted (`Held`); `FieldSums` makes that inductive. A lemma for each field then
  tells its bit from that image (`MeterTells`, `SecondTells` ...): the mole and, for its
  bit, the ampere rest on the least value of a field being its own negation. The run
  checks both hypotheses of its instance (`MCTold`).

Assumptions that are more than typing: `TablesAssumption` (built-in names read
back) in `UserUnits`; in `UnitParser`, that clients leave the middle bit of each
counter alone, as the comments in `units.hpp` ask; in `Commodities`, `Locked` where a
theorem names it; in `UnitWriter`, `TablesReadBack`, which is a fact about the names in
the tables, and in `TextReadsBack` also that the unit has no flags (`Writable`) and that
no name in the text has, with its prefix, a meaning of its own that the cleaning does not
know of (`NoClash`); in `CustomUnitUse`, `FieldsHold` and `CustomPowers` being told. In `Measurement`, RoundTripCorrect and
ReversibleCorrect suppose of every unit that its multiplier is not zero and that it is
no wind scale (`Undone`; the instance checks it, `MCUnitsUndone`). ReversibleCorrect supposes
also that no unit is logarithmic, since order is not modelled and zero, of which there is no
logarithm, is a residue that an offset or a reading in decibels may give; and that the client
gives one base value at most, since with two the multiplier on one side may bring an
equation to a value it is not defined for. PathCorrect
is about chains in which no unit is per unit, has an e_flag or is an equation, which leaves five
of the rules of `convert`, and no multiplier is zero. The table of the run `unit_writer_kg` shows that `TablesReadBack` cannot be
dropped. A unit with flags may be written with a name that says
nothing of the flag; the instance has the ones that read back.

Only model-checked: `PathIndependent` of chains through units with flags, and `Reversible` with two base values or
logarithmic units; `TypeOK` and `ReadsBack` of `UnitWriter` for units with flags; and the liveness of
`ReadingEnds`, `ConnectionsAreAccepted` and `SessionsEnd`, which is out of the prover's
reach, as is ENABLED. Induction needs care: the induction theorems of the library take
an operator as a parameter, which the installed provers cannot instantiate. Where a
theorem needs induction (`PowMultiplies`, `ReadIsProduct`), its definition is a recursive
function, the induction is done over the set of naturals at which the statement holds
(`InductionOnSet`, from the least element of its complement), and the existence of the
recursive function is proved the same way. No module with a theorem has a RECURSIVE
operator.

## Not modelled

- Rounding and the order of numbers; the magnitude of multipliers in `UnitAlgebra` (in
  `Conversion` and `UnitText` they are exact); `quick_convert`, which is the scaling
  alone.
- The fixed and precise variants of measurements, which repeat the operators of
  `measurement` with another type of number, and `units_math.hpp`, each function of
  which calls one of the standard library.
- The characters of strings: cleaning, the tables of words, the writing of numbers, and
  the encoding of URIs and pages in the web server. These are some thousand lines of
  `units.cpp`, and functions from characters to characters.
- Readers that race with an add to the user defined units, and with a swap of the
  domain or the default flags: the globals are plain, so that a race is undefined
  behaviour of which every property fails. The documentation asks for a mutex.
- The tables of codes and of names, the converter, the bindings and the fuzz targets:
  data, or pure input and output.
- `ThirdParty/` (JSON, command lines, XML): vendored code for the converter and for
  generators. It is 41,000 of the 64,000 lines of the sources, and the tables
  are another 10,000. The definitions of this project stand for a large part of the rest.

## Plan

1. `PathIndependent` for units with flags: offsets and per-unit values first.
2. `ReadsBack` for units with flags.
3. `CommodityCodes`: packing short strings into codes as a pure algorithm against its
   reference definition; that codes of different origin never meet.
4. An abstract registry (one map from names to units, one lock) that `UserUnits` and
   `Commodities` refine while clients are orderly.
5. A reader and a writer on the same registry: `to_string` of one thread between the
   adds of another that holds the mutex.
