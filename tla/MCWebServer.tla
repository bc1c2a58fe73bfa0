----------------------------- MODULE MCWebServer ------------------------------
(***************************************************************************)
(* Two connections, one socket for them, so that the second one is refused *)
(* until the first session ends; and requests that reach the outcomes.     *)
(***************************************************************************)
EXTENDS WebServer

MCText == {"", "10 tons", "lb", "tons", "two", "<base>", "long", "kg"}
MCBaseUnitsOf == [t \in MCText |-> IF t = "10 tons" THEN "kg" ELSE "two"]

Param(k, v) == [key |-> k, value |-> v]
Get(path, query, keep) ==
  [method |-> "get", path |-> path, query |-> query, body |-> <<>>, keep_alive |-> keep]

MCRequest ==
  { \* a conversion, one to base units that closes, and the main page
    Get("convert", <<Param("measurement", "10 tons"), Param("units", "lb")>>, TRUE),
    Get("convert_json", <<Param("measurement", "two"), Param("units", "<base>")>>, FALSE),
    [method |-> "head", path |-> "", query |-> <<>>, body |-> <<>>, keep_alive |-> TRUE],
    \* the body's parameters replace the query's, and one is too long
    [method |-> "post", path |-> "convert_trivial",
     query |-> <<Param("measurement", "10 tons"), Param("units", "lb")>>,
     body |-> <<Param("measurement", "long")>>, keep_alive |-> TRUE] }

=============================================================================
