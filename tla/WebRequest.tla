------------------------------ MODULE WebRequest ------------------------------
(***************************************************************************)
(* What the web server answers to one request: handle_request              *)
(* (webserver/unit_web_server.cpp).  A request has a method, a path, the   *)
(* parameters of its query and of its body, and asks to keep the           *)
(* connection or not.  Texts are values of which is known only how they    *)
(* read: the characters, their URI encoding and the pages are left out.    *)
(* It is assumed that no text holds a placeholder such as $M1$, which      *)
(* string_substitution would go on replacing.                              *)
(***************************************************************************)
EXTENDS Naturals, Sequences

CONSTANTS
  Text,               \* the texts in requests
  Empty,              \* the empty text
  TooLong,            \* those of more than 256 characters
  NormalMeasurement,  \* those that read as a measurement that isnormal
  NormalBase,         \* those of them whose base unit isnormal too
  NormalUnit,         \* those that read as a unit that isnormal
  BaseMark,           \* "*" and "<base>"
  BaseUnitsOf         \* how the base units of a measurement are written

ASSUME TextAssumption ==
         /\ Empty \in Text
         /\ TooLong \subseteq Text \ {Empty}
         /\ NormalBase \subseteq NormalMeasurement
         /\ NormalMeasurement \subseteq Text
         /\ NormalUnit \subseteq Text
         /\ BaseMark \subseteq Text
         /\ BaseUnitsOf \in [Text -> Text]

Method == {"head", "post", "get", "put"}
Path == {"", "index.html", "convert", "convert_json", "convert_trivial", "favicon.ico"}
ConversionPath == {"convert", "convert_json", "convert_trivial"}
Parameter == [key : {"measurement", "units", "caction"},
              value : Text \cup {"to_string", "reset"}]
RequestType == [method : Method, path : Path, query : Seq(Parameter),
                body : Seq(Parameter), keep_alive : BOOLEAN]

\* The counters of the server, and the main pages, which none counts.
Outcome == {"success", "fail", "bad_request", "main_page"}

(***************************************************************************)
(* The parameters of the query, then those of the body: of two with the    *)
(* same name the last counts.  One that is missing reads as empty.         *)
(***************************************************************************)
process_request_parameters(req) ==
  LET params == req.query \o req.body
      Named(key) == {i \in DOMAIN params : params[i].key = key}
      Last(is) == CHOOSE i \in is : \A j \in is : j <= i
  IN  [key \in {"measurement", "units", "caction"} |->
         IF Named(key) = {} THEN Empty ELSE params[Last(Named(key))].value]

(***************************************************************************)
(* Responses.  length is the text whose length the header announces, body  *)
(* what is sent after it; close is need_eof, as every response has a       *)
(* length.                                                                 *)
(***************************************************************************)
NoBody == [kind |-> "none"]

Response(req, status, type, body) ==
  [status |-> status, type |-> type, length |-> body, body |-> body,
   close |-> ~req.keep_alive]

\* The answers to a HEAD announce the length of the body and do not send it.
WithoutBody(req, res) ==
  IF req.method = "head" THEN [res EXCEPT !.body = NoBody] ELSE res

bad_request(req, why) ==
  [outcome |-> "bad_request",
   response |-> Response(req, "bad_request", "html", [kind |-> why])]

not_found(req) ==
  [outcome |-> "bad_request",
   response |-> Response(req, "not_found", "html",
                         [kind |-> "not found", target |-> req.path])]

main_page(req) ==
  [outcome |-> "main_page",
   response |-> WithoutBody(req, Response(req, "ok", "html", [kind |-> "index"]))]

(***************************************************************************)
(* The three conversion responses: the page and the JSON text with the     *)
(* same substitutions, or the value alone.  With to_string the measurement *)
(* and the units are written by the library, else as they came.            *)
(***************************************************************************)
Value(measurement, units) == <<measurement, "as", units>>
Written(text, tstring) == IF tstring THEN <<"to_string", text>> ELSE text

html_response(req, template, measurement, units, tstring) ==
  [kind |-> template, M1 |-> measurement, U1 |-> units,
   VALUE |-> Value(measurement, units),
   M2 |-> Written(measurement, tstring), U2 |-> Written(units, tstring)]

conversion_response(req, measurement, units, tstring) ==
  WithoutBody(req,
    CASE req.path = "convert" ->
           Response(req, "ok", "html",
                    html_response(req, "convert.html", measurement, units, tstring))
      [] req.path = "convert_json" ->
           Response(req, "ok", "json",
                    html_response(req, "response_json", measurement, units, tstring))
      [] OTHER ->
           Response(req, "ok", "plain",
                    [kind |-> "value", VALUE |-> Value(measurement, units)]))

\* A conversion counts as a success when both of its texts were understood,
\* whether or not one converts to the other.
Understood(measurement, units) ==
  IF units \in BaseMark THEN measurement \in NormalBase
  ELSE measurement \in NormalMeasurement /\ units \in NormalUnit

convert_request(req, measurement, units, tstring) ==
  [outcome |-> IF Understood(measurement, units) THEN "success" ELSE "fail",
   response |->
     conversion_response(req, measurement,
       IF units \in BaseMark THEN BaseUnitsOf[measurement] ELSE units, tstring)]

handle_request(req) ==
  LET fields == process_request_parameters(req)
  IN IF req.method \notin {"head", "post", "get"}
     THEN bad_request(req, "Unknown HTTP-method")
     ELSE IF req.path \in {"", "index.html"} /\ req.query = <<>> THEN main_page(req)
     ELSE IF req.path \notin ConversionPath THEN not_found(req)
     ELSE IF fields["measurement"] \in TooLong
     THEN bad_request(req, "measurement too long")
     ELSE IF fields["units"] \in TooLong THEN bad_request(req, "units too long")
     ELSE IF fields["caction"] = "reset" THEN main_page(req)
     ELSE convert_request(req, fields["measurement"], fields["units"],
                          fields["caction"] = "to_string")
=============================================================================
