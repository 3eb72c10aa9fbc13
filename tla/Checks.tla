--------------------------------- MODULE Checks ---------------------------------
(***************************************************************************)
(* What a response is held against: the assertions and extractors of the   *)
(* legacy format (forge-core/src/assert/), the builtins of request-v1      *)
(* (reqv1/catalog.rs, pipeline.rs), the migration of the first to the      *)
(* second (migrate.rs), the checks generated from a response               *)
(* (assert/generate.rs) and the form that configures a builtin             *)
(* (forge-gui/src/dialogs/v1_editor.rs).                                   *)
(*                                                                         *)
(* A text is a sequence of characters, a JSON value a record with a type t;*)
(* a number is [n, float], an object has fields.  A JSONPath is the text   *)
(* of "$" and its steps: a key, "0" or "1", or "*"; a regular expression   *)
(* is a literal text, one with "(" does not compile; a schema              *)
(* is the type it asks for.  A response is [status, headers, body, text,   *)
(* time], headers a sequence of <<lower-case name, text>>, body a value or *)
(* None when it is no JSON.                                                *)
(***************************************************************************)
EXTENDS Integers, Sequences, FiniteSets, SequencesExt

CONSTANTS
  None,
  MaxU16,       (* u16::MAX *)
  MaxAssertions (* GenerateOptions.max_assertions *)

Null == [t |-> "null"]
Num(n, float) == [t |-> "number", n |-> n, float |-> float]
Str(text) == [t |-> "string", v |-> text]
Arr(items) == [t |-> "array", items |-> items]
Obj(fields) == [t |-> "object", fields |-> fields]

Occurs(part, text) == \E i \in 1..(Len(text) - Len(part) + 1) : SubSeq(text, i, i + Len(part) - 1) = part
Lower(text) == [i \in DOMAIN text |-> IF text[i] = "A" THEN "a" ELSE text[i]]
Trim(text) ==
  LET solid == {i \in DOMAIN text : text[i] # " "}
  IN IF solid = {} THEN <<>>
     ELSE SubSeq(text, CHOOSE i \in solid : \A j \in solid : i <= j, CHOOSE i \in solid : \A j \in solid : j <= i)
Compiles(pattern) == "(" \notin ToSet(pattern)

-----------------------------------------------------------------------------
(* exec/types.rs *)

HeaderValues(res, name) == {h[2] : h \in {x \in ToSet(res.headers) : x[1] = name}}
Header(res, name) ==
  LET rows == SelectSeq(res.headers, LAMBDA h : h[1] = name) IN IF rows = <<>> THEN None ELSE rows[1][2]
Mime(text) == LET cut == SelectInSeq(text, LAMBDA c : c = ";")
              IN Trim(IF cut = 0 THEN text ELSE SubSeq(text, 1, cut - 1))

(* JSONPath: the nodes in document order. *)
Parses(path) == path # <<>> /\ path[1] = "$"
Index == [s \in {"0", "1"} |-> IF s = "0" THEN 1 ELSE 2]
RECURSIVE Select(_, _)
Select(value, steps) ==
  IF steps = <<>> THEN <<value>>
  ELSE LET s == Head(steps) IN
       CASE value.t = "object" /\ s \in DOMAIN value.fields -> Select(value.fields[s], Tail(steps))
         [] value.t = "array" /\ s \in DOMAIN Index /\ Index[s] \in DOMAIN value.items ->
              Select(value.items[Index[s]], Tail(steps))
         [] value.t = "array" /\ s = "*" ->
              FlattenSeq([i \in DOMAIN value.items |-> Select(value.items[i], Tail(steps))])
         [] OTHER -> <<>>
Nodes(body, path) == Select(body, Tail(path))

(* The compact JSON text of a value. *)
RECURSIVE Json(_)
Json(value) ==
  CASE value.t = "null" -> <<"null">>
    [] value.t = "number" -> IF value.float THEN <<ToString(value.n), ".", "0">> ELSE <<ToString(value.n)>>
    [] value.t = "string" -> <<"'">> \o value.v \o <<"'">>
    [] value.t = "array" -> <<"[">> \o FlattenSeq([i \in DOMAIN value.items |-> Json(value.items[i]) \o <<",">>]) \o <<"]">>
    [] value.t = "object" ->
         LET keys == SetToSeq(DOMAIN value.fields)
         IN <<"{">> \o FlattenSeq([i \in DOMAIN keys |-> <<keys[i], ":">> \o Json(value.fields[keys[i]])]) \o <<"}">>
NodeToString(value) == IF value.t = "string" THEN value.v ELSE Json(value)
JsonEq(a, b) == IF a.t = "number" /\ b.t = "number" THEN a.n = b.n ELSE a = b
NodeContains(node, expected) ==
  CASE node.t = "array" -> \E i \in DOMAIN node.items : JsonEq(node.items[i], expected)
    [] node.t = "object" -> \E k \in DOMAIN node.fields : <<k>> = NodeToString(expected)
    [] OTHER -> Occurs(NodeToString(expected), NodeToString(node))
Valid(schema, body) == schema = body.t

-----------------------------------------------------------------------------
(* assert/eval.rs: a check passes or fails. *)

CompareNumbers(a, op, b) ==
  CASE op = "eq" -> a = b [] op = "ne" -> a # b [] op = "lt" -> a < b
    [] op = "lte" -> a <= b [] op = "gt" -> a > b [] op = "gte" -> a >= b
EvalHeader(c, res) ==
  LET values == HeaderValues(res, c.name)
  IN CASE c.op = "exists" -> values # {}
       [] c.op = "notExists" -> values = {}
       [] c.op = "equals" -> c.value \in values
       [] c.op = "notEquals" -> c.value \notin values
       [] c.op = "contains" -> \E v \in values : Occurs(c.value, v)
       [] c.op = "notContains" -> ~\E v \in values : Occurs(c.value, v)
       [] c.op = "matches" -> Compiles(c.value) /\ \E v \in values : Occurs(c.value, v)
EvalContentType(value, res) ==
  /\ Header(res, "content-type") # None
  /\ IsPrefix(Lower(value), Lower(Mime(Header(res, "content-type"))))
EvalJsonPath(c, res) ==
  LET nodes == ToSet(Nodes(res.body, c.path))
  IN /\ res.body # None /\ Parses(c.path)
     /\ CASE c.op = "exists" -> nodes # {}
          [] c.op = "notExists" -> nodes = {}
          [] c.op = "equals" -> \E n \in nodes : JsonEq(n, c.value)
          [] c.op = "notEquals" -> ~\E n \in nodes : JsonEq(n, c.value)
          [] c.op = "contains" -> \E n \in nodes : NodeContains(n, c.value)
          [] c.op = "matches" -> Compiles(NodeToString(c.value))
                                   /\ \E n \in nodes : Occurs(NodeToString(c.value), NodeToString(n))
          [] OTHER -> c.value.t = "number"
                        /\ \E n \in nodes : n.t = "number" /\ CompareNumbers(n.n, c.op, c.value.n)
Evaluate(c, res) ==
  CASE c.type = "statusCode" -> CompareNumbers(res.status, c.op, c.value)
    [] c.type = "statusClass" -> res.status \div 100 = c.class
    [] c.type = "header" -> EvalHeader(c, res)
    [] c.type = "contentType" -> EvalContentType(c.value, res)
    [] c.type = "jsonPath" -> EvalJsonPath(c, res)
    [] c.type = "bodyContains" -> Occurs(c.value, res.text)
    [] c.type = "bodyMatches" -> Compiles(c.value) /\ Occurs(c.value, res.text)
    [] c.type = "responseTimeBelow" -> res.time < c.maxMs
    [] c.type = "jsonSchema" -> res.body # None /\ Valid(c.schema, res.body)
(* evaluate_all: the outcome of a definition, None for a disabled one. *)
Outcome(def, res) == IF def.enabled THEN Evaluate(def.check, res) ELSE None

(* assert/extract.rs: a text, or None for an error. *)
ExtractOne(x, res) ==
  CASE x.from = "jsonPath" ->
         IF res.body = None \/ ~Parses(x.path) \/ Nodes(res.body, x.path) = <<>> THEN None
         ELSE NodeToString(Nodes(res.body, x.path)[1])
    [] x.from = "header" -> Header(res, x.name)
    [] x.from = "regex" ->
         IF Compiles(x.pattern) /\ Occurs(x.pattern, res.text) /\ x.group = 0 THEN x.pattern ELSE None

-----------------------------------------------------------------------------
(* assert/generate.rs *)

Exhausted(checks) == Len(checks) >= MaxAssertions - 1
ExistsCheck(path) == [type |-> "jsonPath", path |-> path, op |-> "exists", value |-> Null]
RECURSIVE Walk(_, _, _, _, _)
Walk(value, path, depth, opts, checks) ==
  IF Exhausted(checks) THEN checks
  ELSE CASE value.t = "object" ->
              IF DOMAIN value.fields = {} \/ depth >= opts.depth
              THEN Append(checks, ExistsCheck(path))
              ELSE FoldLeft(LAMBDA acc, k : Walk(value.fields[k], Append(path, k), depth + 1, opts, acc),
                            checks, SetToSeq(DOMAIN value.fields))
         [] value.t = "array" ->
              LET seen == Append(checks, ExistsCheck(path))
                  child == Append(path, "0")
              IN CASE value.items = <<>> \/ Exhausted(seen) -> seen
                   [] value.items # <<>> /\ ~Exhausted(seen) /\ depth >= opts.depth -> Append(seen, ExistsCheck(child))
                   [] OTHER -> Walk(value.items[1], child, depth + 1, opts, seen)
         [] OTHER -> Append(checks, IF opts.values THEN [ExistsCheck(path) EXCEPT !.op = "equals", !.value = value]
                                    ELSE ExistsCheck(path))
SuggestedMaxMs(time) == LET up == ((3 * time + 99) \div 100) * 100 IN IF up > 500 THEN up ELSE 500
GenerateFromResponse(res, opts) ==
  LET status == <<[type |-> "statusCode", op |-> "eq", value |-> res.status]>>
      ct == Header(res, "content-type")
      typed == IF ct = None \/ Mime(ct) = <<>> THEN status
               ELSE Append(status, [type |-> "contentType", value |-> Mime(ct)])
      walked == IF res.body = None THEN typed ELSE Walk(res.body, <<"$">>, 0, opts, typed)
  IN Append(walked, [type |-> "responseTimeBelow", maxMs |-> SuggestedMaxMs(res.time)])

-----------------------------------------------------------------------------
(* reqv1/catalog.rs: what a builtin is for and what it takes. *)

Param(name, kind, required) == [name |-> name, kind |-> kind, required |-> required, options |-> {}]
OneOf(param, options) == [param EXCEPT !.options = options]
Parameters ==
  LET path == Param("path", "string", TRUE)
      name == Param("name", "string", TRUE)
      value == Param("value", "string", FALSE)
      target == Param("target", "string", TRUE)
  IN [bearer |-> <<Param("token", "string", TRUE), Param("prefix", "string", FALSE)>>,
      basic |-> <<Param("username", "string", TRUE), Param("password", "string", TRUE)>>,
      header |-> <<name, Param("value", "string", TRUE)>>,
      status |-> <<Param("expected", "integer", TRUE)>>,
      jsonPath |-> <<path, OneOf(Param("operator", "string", FALSE), {<<"exists">>, <<"notExists">>, <<"equals">>, <<"contains">>}),
                     Param("value", "json", FALSE)>>,
      schema |-> <<Param("schema", "json", TRUE)>>,
      assertHeader |-> <<name, value>>,
      responseTime |-> <<Param("maxMs", "integer", TRUE)>>,
      bodyText |-> <<Param("text", "string", TRUE)>>,
      bodyRegex |-> <<Param("pattern", "string", TRUE)>>,
      pathType |-> <<path, OneOf(Param("expected", "string", TRUE),
                       {<<"null">>, <<"bool">>, <<"number">>, <<"string">>, <<"array">>, <<"object">>})>>,
      pathLength |-> <<path, OneOf(Param("operator", "string", FALSE), {<<"equals">>, <<"lt">>, <<"lte">>, <<"gt">>, <<"gte">>}),
                       Param("expected", "integer", TRUE)>>,
      cookie |-> <<name, value>>,
      openapi |-> <<Param("spec", "json", FALSE), Param("specRef", "string", FALSE), Param("url", "string", FALSE)>>,
      extractPath |-> <<path, target>>,
      extractHeader |-> <<name, target>>]
Target(builtin) == IF builtin \in {"bearer", "basic", "header"} THEN "beforeRequest" ELSE "afterResponse"

ValidType(kind, value) ==
  CASE kind = "string" -> value.t = "string"
    [] kind = "integer" -> value.t = "number" /\ ~value.float
    [] kind = "json" -> TRUE
ValidParameter(p, with) ==
  IF p.name \notin DOMAIN with THEN ~p.required
  ELSE LET value == with[p.name]
       IN /\ ValidType(p.kind, value)
          /\ p.required => value # Str(<<>>)
          /\ p.options # {} => value.t = "string" /\ value.v \in p.options
Text(with, name) == IF name \in DOMAIN with /\ with[name].t = "string" THEN with[name].v ELSE <<>>
Operator(with, default) == IF "operator" \in DOMAIN with THEN with.operator.v[1] ELSE default
ValidateBuiltin(builtin, phase, with) ==
  /\ builtin \in DOMAIN Parameters
  /\ phase = Target(builtin)
  /\ DOMAIN with \subseteq {p.name : p \in ToSet(Parameters[builtin])}
  /\ \A p \in ToSet(Parameters[builtin]) : ValidParameter(p, with)
  /\ "path" \in DOMAIN with => Parses(Text(with, "path"))
  /\ "pattern" \in DOMAIN with => Compiles(Text(with, "pattern"))
  /\ builtin = "jsonPath" =>
       /\ Operator(with, "exists") \in {"equals", "contains"} => "value" \in DOMAIN with
       /\ Operator(with, "exists") = "contains" => with.value.t = "string"
  /\ builtin = "responseTime" => with.maxMs.n # 0
  /\ builtin = "openapi" => ("spec" \in DOMAIN with <=> "specRef" \notin DOMAIN with)
  /\ builtin = "status" => with.expected.n <= MaxU16

-----------------------------------------------------------------------------
(* reqv1/pipeline.rs: what a builtin of afterResponse says of a response,
   [passed, runtime], or None for a diagnostic. *)

QueryOne(res, path) ==
  IF res.body = None \/ ~Parses(path) \/ Nodes(res.body, path) = <<>> THEN None
  ELSE LET nodes == Nodes(res.body, path) IN IF Len(nodes) = 1 THEN nodes[1] ELSE Arr(nodes)
AssertJsonPath(res, with) ==
  LET found == QueryOne(res, Text(with, "path"))
      op == Operator(with, "exists")
  IN \/ op = "exists" /\ found # None
     \/ op = "notExists" /\ found = None
     \/ op = "equals" /\ found # None /\ found = with.value
     \/ op = "contains" /\ found # None /\ found.t = "string" /\ Occurs(with.value.v, found.v)
JsonLen(value) ==
  CASE value.t = "string" -> Len(value.v) [] value.t = "array" -> Len(value.items)
    [] value.t = "object" -> Cardinality(DOMAIN value.fields) [] OTHER -> None
AssertLength(res, with) ==
  LET found == QueryOne(res, Text(with, "path"))
      op == Operator(with, "equals")
  IN /\ found # None /\ JsonLen(found) # None
     /\ CompareNumbers(JsonLen(found), IF op = "equals" THEN "eq" ELSE op, with.expected.n)
(* The cookies of the response: header rows "set-cookie" of a name and "=" and a value. *)
ResponseCookie(res, name) ==
  LET rows == SelectSeq(res.headers, LAMBDA h : h[1] = "set-cookie" /\ Mime(h[2])[1] = name[1])
  IN IF rows = <<>> THEN None ELSE SubSeq(Mime(rows[1][2]), 3, Len(Mime(rows[1][2])))
AssertHeader(res, with) ==
  LET actual == Header(res, with.name.v[1])
  IN actual # None /\ ("value" \in DOMAIN with => Lower(actual) = Lower(with.value.v))
AssertCookie(res, with) ==
  LET actual == ResponseCookie(res, with.name.v)
  IN actual # None /\ ("value" \in DOMAIN with => actual = with.value.v)
AssertPathType(res, with) ==
  LET found == QueryOne(res, with.path.v) IN found # None /\ <<found.t>> = with.expected.v
Passes(builtin, with, res) ==
  CASE builtin = "status" -> res.status = with.expected.n
    [] builtin = "jsonPath" -> AssertJsonPath(res, with)
    [] builtin = "schema" -> res.body # None /\ Valid(with.schema.v[1], res.body)
    [] builtin = "assertHeader" -> AssertHeader(res, with)
    [] builtin = "responseTime" -> res.time < with.maxMs.n
    [] builtin = "bodyText" -> Occurs(with.text.v, res.text)
    [] builtin = "bodyRegex" -> Occurs(with.pattern.v, res.text)
    [] builtin = "pathType" -> AssertPathType(res, with)
    [] builtin = "pathLength" -> AssertLength(res, with)
    [] builtin = "cookie" -> AssertCookie(res, with)
RunAssertion(builtin, with, res) == ValidateBuiltin(builtin, "afterResponse", with) /\ Passes(builtin, with, res)
RunExtractor(builtin, with, res) ==
  CASE ~ValidateBuiltin(builtin, "afterResponse", with) -> None
    [] ValidateBuiltin(builtin, "afterResponse", with) /\ builtin = "extractPath" -> QueryOne(res, with.path.v)
    [] ValidateBuiltin(builtin, "afterResponse", with) /\ builtin = "extractHeader" ->
         LET value == Header(res, with.name.v[1]) IN IF value = None THEN None ELSE Str(value)
(* assert_openapi_response on the contract checks of the response's status. *)
AssertOpenApiResponse(checks, res) ==
  /\ checks # <<>>
  /\ \A c \in ToSet(checks) :
       CASE c.type = "contentType" ->
              /\ Header(res, "content-type") # None
              /\ Lower(Mime(Header(res, "content-type"))) = Lower(c.value)
         [] c.type = "jsonSchema" -> res.body # None /\ Valid(c.schema, res.body)
         [] OTHER -> TRUE

-----------------------------------------------------------------------------
(* migrate.rs: the builtin of a check or an extractor, None if reported as
   unsupported. *)

Builtin(name, with) == [name |-> name, with |-> with]
JsonPathOperators == {"equals", "contains", "exists", "notExists"}
MigrateCheck(c) ==
  CASE c.type = "statusCode" /\ c.op = "eq" -> Builtin("status", [expected |-> Num(c.value, FALSE)])
    [] c.type = "header" /\ c.op = "equals" -> Builtin("assertHeader", [name |-> Str(<<c.name>>), value |-> Str(c.value)])
    [] c.type = "header" /\ c.op = "exists" -> Builtin("assertHeader", [name |-> Str(<<c.name>>)])
    [] c.type = "contentType" -> Builtin("assertHeader", [name |-> Str(<<"content-type">>), value |-> Str(c.value)])
    [] c.type = "jsonPath" /\ c.op \in JsonPathOperators ->
         LET with == [path |-> Str(c.path), operator |-> Str(<<c.op>>)]
         IN Builtin("jsonPath", IF c.op \in {"exists", "notExists"} THEN with
                                ELSE [path |-> with.path, operator |-> with.operator, value |-> c.value])
    [] c.type = "bodyContains" -> Builtin("bodyText", [text |-> Str(c.value)])
    [] c.type = "bodyMatches" -> Builtin("bodyRegex", [pattern |-> Str(c.value)])
    [] c.type = "responseTimeBelow" -> Builtin("responseTime", [maxMs |-> Num(c.maxMs, FALSE)])
    [] c.type = "jsonSchema" -> Builtin("schema", [schema |-> Str(<<c.schema>>)])
    [] OTHER -> None
MigrateAssertion(def) ==
  LET mapped == MigrateCheck(def.check)
  IN IF def.note # "" \/ mapped = None THEN None ELSE [name |-> mapped.name, with |-> mapped.with, enabled |-> def.enabled]
MigrateExtractor(x) ==
  CASE x.scope = "runtime" /\ x.from = "jsonPath" -> Builtin("extractPath", [path |-> Str(x.path), target |-> Str(x.var)])
    [] x.scope = "runtime" /\ x.from = "header" ->
         Builtin("extractHeader", [name |-> Str(<<x.name>>), target |-> Str(x.var)])
    [] OTHER -> None

-----------------------------------------------------------------------------
(* dialogs/v1_editor.rs: an entry's values in the form and back.  A text
   ${ns.path} is <<"${", ns, ".">> \o path \o <<"}">>. *)

Sources == {"bindings", "env", "runtime", "matrix", "secret"}
Display(kind, value) == IF kind = "string" THEN (IF value.t = "string" THEN value.v ELSE <<>>) ELSE Json(value)
ParameterInput(kind, value) ==
  LET v == IF value.t = "string" THEN value.v ELSE <<>>
      sourced == Len(v) >= 5 /\ v[1] = "${" /\ v[Len(v)] = "}" /\ v[3] = "." /\ v[2] \in Sources
  IN IF sourced THEN [source |-> v[2], text |-> SubSeq(v, 4, Len(v) - 1), json |-> None]
     ELSE [source |-> "literal", text |-> Display(kind, value), json |-> value]
NoInput == [source |-> "literal", text |-> <<>>, json |-> None]
LoadCatalogInputs(builtin, with) ==
  [p \in ToSet(Parameters[builtin]) |-> IF p.name \in DOMAIN with THEN ParameterInput(p.kind, with[p.name]) ELSE NoInput]
(* None: nothing typed; "refused": not of the parameter's type.  The JSON text
   shown for a value parses to that value. *)
LiteralValue(p, input) ==
  LET text == Trim(input.text)
  IN CASE text = <<>> -> [got |-> "none", value |-> Null]
       [] text # <<>> /\ p.options # {} /\ text \notin p.options -> [got |-> "refused", value |-> Null]
       [] text # <<>> /\ p.kind = "string" -> [got |-> "value", value |-> Str(text)]
       [] text # <<>> /\ p.kind = "integer" ->
            IF input.json.t = "number" /\ ~input.json.float THEN [got |-> "value", value |-> input.json]
            ELSE [got |-> "refused", value |-> Null]
       [] OTHER -> [got |-> "value", value |-> input.json]
SourcedValue(input) ==
  IF Trim(input.text) = <<>> THEN [got |-> "none", value |-> Null]
  ELSE [got |-> "value", value |-> Str(<<"${", input.source, ".">> \o Trim(input.text) \o <<"}">>)]
ConfiguredWith(builtin, inputs) ==
  LET params == ToSet(Parameters[builtin])
      made == [p \in params |-> IF inputs[p].source = "literal" THEN LiteralValue(p, inputs[p]) ELSE SourcedValue(inputs[p])]
      given == {p \in params : made[p].got = "value"}
  IN IF \E p \in params : made[p].got = "refused" \/ (made[p].got = "none" /\ p.required) THEN None
     ELSE [n \in {p.name : p \in given} |-> made[CHOOSE p \in given : p.name = n].value]

-----------------------------------------------------------------------------
(* Where the two formats judge a response differently. *)
ChangedVerdict(c, res) ==
  LET nodes == IF res.body = None \/ c.type # "jsonPath" \/ ~Parses(c.path) THEN <<>> ELSE Nodes(res.body, c.path)
  IN \/ c.type = "header" /\ c.op = "equals" /\ c.value # Header(res, c.name)
        /\ (c.value \in HeaderValues(res, c.name) \/ (Header(res, c.name) # None /\ Lower(c.value) = Lower(Header(res, c.name))))
     \/ c.type = "contentType" /\ EvalContentType(c.value, res) /\ Lower(c.value) # Lower(Header(res, "content-type"))
     \/ c.type = "bodyContains" /\ c.value = <<>>
     \/ c.type = "bodyMatches" /\ c.value = <<>>
     \/ c.type = "jsonPath" /\ Len(nodes) > 1
     \/ c.type = "jsonPath" /\ c.op = "equals" /\ c.value.t = "number"
     \/ c.type = "jsonPath" /\ c.op = "contains" /\ (c.value.t # "string" \/ \E n \in ToSet(nodes) : n.t # "string")
     \/ c.type = "jsonPath" /\ c.op = "notExists" /\ res.body = None

(* A legacy check and the builtin migration makes of it accept the same
   responses, but for header values of another case or beyond the first, media
   types with parameters, empty texts, paths with several nodes, numbers written
   differently, "contains" on what is no text, and "notExists" without JSON;
   what is not migrated is reported, and what was off stays off. *)
MigratedCheckAgrees(def, res) ==
  LET b == MigrateAssertion(def)
      new == IF b.enabled THEN RunAssertion(b.name, b.with, res) ELSE None
  IN b = None \/ new = Outcome(def, res) \/ ChangedVerdict(def.check, res)

(* A migrated extractor stores what the legacy one did, as a value in place of
   its text; only a path with several nodes, or a variable without a name,
   changes. *)
MigratedExtractorAgrees(x, res) ==
  LET b == MigrateExtractor(x)
      old == ExtractOne(x, res)
      new == RunExtractor(b.name, b.with, res)
      several == x.from = "jsonPath" /\ res.body # None /\ Parses(x.path) /\ Len(Nodes(res.body, x.path)) > 1
  IN b = None \/ several \/ x.var = <<>> \/ (IF old = None THEN new = None ELSE new # None /\ NodeToString(new) = old)

(* The checks generated from a response accept that response, whatever the
   depth and the limit, and beyond the status, the type and the time they are
   no more than the limit. *)
GeneratedChecksHold(res, opts) ==
  LET checks == GenerateFromResponse(res, opts)
  IN /\ \A c \in ToSet(checks) : Evaluate(c, res)
     /\ Len(checks) <= IF MaxAssertions > 3 THEN MaxAssertions ELSE 3

(* A response that passes the checks generated with values from another one,
   when the limit left none out, has its status, its media type and every
   number, text, flag and null down to the depth, first items of arrays only. *)
GeneratedChecksPin(res, other, opts) ==
  LET checks == GenerateFromResponse(res, opts)
      paths == {<<"$">> \o p : p \in UNION {[1..n -> {"x", "y", "0"}] : n \in 0..opts.depth}}
      leaf(p) == LET n == Nodes(res.body, p) IN Len(n) = 1 /\ n[1].t \notin {"object", "array"}
  IN opts.values /\ Len(checks) < MaxAssertions /\ (\A c \in ToSet(checks) : Evaluate(c, other)) =>
       /\ other.status = res.status
       /\ res.body # None => \A p \in paths : leaf(p) =>
            other.body # None /\ Len(Nodes(other.body, p)) = 1 /\ JsonEq(Nodes(other.body, p)[1], Nodes(res.body, p)[1])

(* assert-openapi-response and the contract checks of the legacy runner accept
   the same responses, but for a media type that only begins with the declared
   one. *)
ContractAgrees(checks, res) ==
  checks # <<>> =>
    \/ AssertOpenApiResponse(checks, res) = \A c \in ToSet(checks) : Evaluate(c, res)
    \/ \E c \in ToSet(checks) : c.type = "contentType" /\ EvalContentType(c.value, res)
                                  /\ Lower(Mime(Header(res, "content-type"))) # Lower(c.value)

(* Opening a valid entry in the form and saving it as it is shown leaves it as
   it was, but for blanks around a text and texts of blanks only: an optional
   one is lost, which turns an expected empty value into a test of presence. *)
FormKeepsEntry(builtin, with) ==
  LET saved == ConfiguredWith(builtin, LoadCatalogInputs(builtin, with))
      blank == \E n \in DOMAIN with : with[n].t = "string" /\ (Trim(with[n].v) # with[n].v \/ with[n].v = <<>>)
  IN ValidateBuiltin(builtin, Target(builtin), with) => saved = with \/ blank
===============================================================================
