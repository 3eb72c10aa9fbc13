------------------------------- MODULE OpenApi -------------------------------
(***************************************************************************)
(* The OpenAPI document as editor tooling (forge-core/src/openapi,          *)
(* reqv1/openapi_generate.rs, openapi_scope.rs and the assist of           *)
(* forge-gui/src/dialogs/v1_editor.rs): operations taken from a parsed     *)
(* document, matched with a request, applied to it, turned into checks and *)
(* into suites on disk.                                                    *)
(*                                                                         *)
(* A path is a sequence of segments: literal, parameter of a template or   *)
(* variable of a request.  JSON trees are [k : kind, ...] records.         *)
(***************************************************************************)
EXTENDS Integers, Sequences, FiniteSets, SequencesExt

CONSTANTS
  MaxHops,   (* bound on $ref hops: 16 in the code *)
  MaxDepth,  (* bound on the nesting of generated examples: 6 in the code *)
  None

Lit(n) == [kind |-> "lit", name |-> n]
Par(n) == [kind |-> "par", name |-> n]
Var(n) == [kind |-> "var", name |-> n]

OpMin(S) == CHOOSE x \in S : \A y \in S : x <= y
FirstOf(seq, Test(_)) ==
  IF \E i \in DOMAIN seq : Test(seq[i])
  THEN seq[OpMin({i \in DOMAIN seq : Test(seq[i])})] ELSE None

-----------------------------------------------------------------------------
(* Parsing: parameters, ids, references. *)

(* merge_params: an operation's parameter replaces the path's of the same name
   and place. *)
MergeParams(pathLevel, opLevel) ==
  LET key(p) == <<p.name, p.in>>
  IN SelectSeq(pathLevel, LAMBDA p : key(p) \notin {key(q) : q \in ToSet(opLevel)})
       \o opLevel

(* unique_id: the base, or the first free numbered form of it. *)
UniqueId(base, used) ==
  IF <<base, 1>> \notin used THEN <<base, 1>>
  ELSE <<base, CHOOSE n \in 2..(Cardinality(used) + 2) :
                 /\ <<base, n>> \notin used
                 /\ \A m \in 2..(n - 1) : <<base, m>> \in used>>

RECURSIVE UniqueIds(_)
UniqueIds(bases) ==
  IF bases = <<>> THEN <<>>
  ELSE LET before == UniqueIds(Front(bases))
       IN Append(before, UniqueId(Last(bases), ToSet(before)))

(* resolve_refs along one chain of local references: doc maps a pointer to the
   node there; a node is a reference, external or not, or a value. *)
Empty == [k |-> "empty"]
RECURSIVE ResolveRefs(_, _, _)
ResolveRefs(doc, node, hops) ==
  CASE node.k # "ref" -> node
    [] node.external -> node
    [] hops >= MaxHops -> Empty
    [] node.to \notin DOMAIN doc -> Empty
    [] OTHER -> ResolveRefs(doc, doc[node.to], hops + 1)

(* parse_spec: JSON, else YAML; an object of version 3. *)
ParseSpec(doc) ==
  IF doc.syntax \in {"json", "yaml"} /\ doc.version = 3
  THEN [ok |-> TRUE, servers |-> IF doc.servers = <<>> THEN <<"/">> ELSE doc.servers]
  ELSE [ok |-> FALSE, servers |-> <<>>]

(* extract_operations: paths in document order, methods in a fixed one. *)
ExtractOperations(paths) ==
  LET places(merged, in) == SelectSeq(merged, LAMBDA p : p.in = in)
      one(p, o) == LET merged == MergeParams(p.params, o.params)
                   IN [base |-> o.base, path |-> places(merged, "path"),
                       query |-> places(merged, "query"),
                       headers |-> places(merged, "header")]
      flat == FlattenSeq([i \in DOMAIN paths |->
                [j \in DOMAIN paths[i].ops |-> one(paths[i], paths[i].ops[j])]])
      ids == UniqueIds([i \in DOMAIN flat |-> flat[i].base])
  IN [i \in DOMAIN flat |-> [flat[i] EXCEPT !.base = ids[i]]]

(* pick_content_type. *)
PickContentType(types) ==
  IF types = <<>> THEN None
  ELSE IF "json" \in ToSet(types) THEN "json" ELSE types[1]

(* extract_request_body: the example of the picked type, from its example,
   its first named one or its schema. *)
RequestBody(content) ==
  LET type == PickContentType([i \in DOMAIN content |-> content[i].type])
      media == FirstOf(content, LAMBDA m : m.type = type)
  IN IF type = None THEN [type |-> None, example |-> None]
     ELSE [type |-> type,
           example |-> FirstOf(<<media.example, media.named, media.inSchema>>,
                               LAMBDA e : e # None)]

(* discover_spec, discover_openapi: candidates in path order, the first that
   parses; a candidate is [name, ok]. *)
Discover(sorted) == FirstOf(sorted, LAMBDA c : c.ok)

(* effective_openapi: the nearest of the node's own selections upwards; a
   selection file that cannot be read is an error. *)
Effective(own, chain) ==
  FirstOf([i \in DOMAIN chain |-> own[chain[i]]], LAMBDA v : v # None)

-----------------------------------------------------------------------------
(* Matching a request with an operation. *)

PathMatchesTemplate(template, path) ==
  /\ Len(template) = Len(path)
  /\ \A i \in DOMAIN path :
       template[i].kind = "par" \/ template[i] = path[i] \/ path[i].kind = "var"

FindOperation(spec, method, path) ==
  FirstOf(spec, LAMBDA op : op.method = method
                            /\ PathMatchesTemplate(op.path, path))

CoversOperation(doc, op) ==
  doc.method = op.method /\ PathMatchesTemplate(op.path, doc.path)

(* scan_covered_operations: of each request, the first match alone. *)
CoveredOperations(spec, docs) ==
  {FindOperation(spec, d.method, d.path) : d \in docs} \ {None}

AllowedMethods(spec, path) ==
  {op.method : op \in {o \in ToSet(spec) : PathMatchesTemplate(o.path, path)}}

(* OpenApiFilter::matches. *)
Filters(f, op) ==
  CASE f = "all" -> TRUE
    [] f = "headers" -> op.headers # <<>>
    [] f = "query" -> op.query # <<>>
    [] f = "path" -> \E s \in ToSet(op.path) : s.kind = "par"
    [] f = "body" -> op.ctype # None \/ op.schema # None
    [] OTHER -> op.method = f

OperationRule(op) ==
  CASE op.schema # None -> "sch"
    [] (\E s \in ToSet(op.path) : s.kind = "par")
         \/ (\E p \in ToSet(op.query \o op.headers) : p.required) -> "req"
    [] OTHER -> "opt"

-----------------------------------------------------------------------------
(* Schemas: an integer with bounds, a string with a length, an object, an
   array, a composition; and the value of one. *)

WithNull(s) == [k |-> "nullable", of |-> s]

(* scrub_schema: nullable becomes a union with null, all the way down. *)
RECURSIVE ScrubSchema(_)
ScrubSchema(s) ==
  LET inner == CASE s.k = "object" ->
                      [s EXCEPT !.props = [n \in DOMAIN @ |-> ScrubSchema(@[n])]]
                 [] s.k = "array" -> [s EXCEPT !.items = ScrubSchema(@)]
                 [] s.k \in {"allOf", "anyOf"} ->
                      [s EXCEPT !.parts = [i \in DOMAIN @ |-> ScrubSchema(@[i])]]
                 [] OTHER -> s
  IN IF "nullable" \in DOMAIN s /\ s.nullable THEN WithNull(inner) ELSE inner

Least(a, b) == IF a = None THEN b ELSE IF b = None THEN a
               ELSE IF a < b THEN a ELSE b

IntegerExample(s) ==
  Least(s.max, IF s.xmin # None THEN s.xmin + 1
               ELSE IF s.min # None THEN s.min ELSE 0)

(* "string" is six long; padded, then cut. *)
StringExample(s) ==
  [k |-> "string", len |-> Least(s.max, IF s.min > 6 THEN s.min ELSE 6)]

(* example_from_schema, build_object_example. *)
RECURSIVE ExampleFromSchema(_, _), ObjectExample(_, _)
ExampleFromSchema(s, depth) ==
  CASE depth > MaxDepth -> [k |-> "null"]
    [] s.k = "integer" -> [k |-> "integer", v |-> IntegerExample(s)]
    [] s.k = "string" -> StringExample(s)
    [] s.k = "anyOf" -> ExampleFromSchema(s.parts[1], depth + 1)
    [] s.k = "allOf" ->
         LET ms == SelectSeq([i \in DOMAIN s.parts |->
                                ExampleFromSchema(s.parts[i], depth + 1)],
                             LAMBDA v : v.k = "object")
             names == UNION {DOMAIN m.props : m \in ToSet(ms)}
             lastOf(n) == CHOOSE i \in DOMAIN ms :
                            /\ n \in DOMAIN ms[i].props
                            /\ \A j \in DOMAIN ms : j > i => n \notin DOMAIN ms[j].props
         IN IF names = {} THEN [k |-> "null"]
            ELSE [k |-> "object",
                  props |-> [n \in names |-> ms[lastOf(n)].props[n]]]
    [] s.k = "array" ->
         [k |-> "array", n |-> IF s.min = 0 THEN 1 ELSE s.min,
          of |-> ExampleFromSchema(s.items, depth + 1)]
    [] s.k = "object" -> ObjectExample(s, depth)

ObjectExample(s, depth) ==
  [k |-> "object",
   props |-> IF depth >= MaxDepth THEN [n \in {} |-> None]
             ELSE [n \in DOMAIN s.props |-> ExampleFromSchema(s.props[n], depth + 1)]]

(* The jsonschema crate, as assert/schema.rs asks it. *)
RECURSIVE Validates(_, _)
Validates(s, v) ==
  CASE s.k = "nullable" -> v.k = "null" \/ Validates(s.of, v)
    [] s.k = "integer" ->
         /\ v.k = "integer"
         /\ s.min # None => v.v >= s.min
         /\ s.xmin # None => v.v > s.xmin
         /\ s.max # None => v.v <= s.max
    [] s.k = "string" ->
         v.k = "string" /\ v.len >= s.min /\ (s.max # None => v.len <= s.max)
    [] s.k = "anyOf" -> \E i \in DOMAIN s.parts : Validates(s.parts[i], v)
    [] s.k = "allOf" -> \A i \in DOMAIN s.parts : Validates(s.parts[i], v)
    [] s.k = "array" ->
         v.k = "array" /\ v.n >= s.min /\ (v.n = 0 \/ Validates(s.items, v.of))
    [] s.k = "object" ->
         /\ v.k = "object" /\ s.required \subseteq DOMAIN v.props
         /\ \A n \in DOMAIN v.props \cap DOMAIN s.props :
              Validates(s.props[n], v.props[n])

(* How many levels of the example lie below a schema. *)
RECURSIVE Height(_)
Height(s) ==
  LET highest(S) == IF S = {} THEN 0 ELSE CHOOSE h \in S : \A g \in S : g <= h
  IN CASE s.k = "object" -> 1 + highest({Height(s.props[n]) : n \in DOMAIN s.props})
       [] s.k = "array" -> 1 + Height(s.items)
       [] s.k \in {"allOf", "anyOf"} ->
            1 + highest({Height(s.parts[i]) : i \in DOMAIN s.parts})
       [] OTHER -> 0

-----------------------------------------------------------------------------
(* The assist: what a request lacks, and what applying an operation adds.  A
   parameter row is [name, on, value]. *)

Named(rows, n) == {i \in DOMAIN rows : rows[i].name = n}
ContentTypeRow == "content-type"

OpenApiRequestIssues(doc, op) ==
  {<<"binding", s.name>> : s \in {t \in ToSet(op.path) :
      t.kind = "par" /\ Var(t.name) \in ToSet(doc.path)
                     /\ t.name \notin DOMAIN doc.bindings}}
  \cup {<<"query", p.name>> : p \in {q \in ToSet(op.query) :
      q.required /\ ~\E i \in Named(doc.query, q.name) : doc.query[i].on}}
  \cup {<<"header", p.name>> : p \in {q \in ToSet(op.headers) :
      q.required /\ ~\E i \in Named(doc.headers, q.name) : doc.headers[i].on}}
  \cup (IF op.ctype # None
           /\ ~\E i \in Named(doc.headers, ContentTypeRow) :
                doc.headers[i].on /\ doc.headers[i].value = op.ctype
        THEN {<<"type", op.ctype>>} ELSE {})
  \cup (IF op.schema # None /\ doc.body # None
           /\ ~Validates(ScrubSchema(op.schema), doc.body)
        THEN {<<"body", None>>} ELSE {})

Row(n, v) == [name |-> n, on |-> TRUE, value |-> v]

(* operation_to_request: a skeleton in the old request format, its optional
   query rows and all its header rows disabled. *)
OperationToRequest(op) ==
  [path |-> op.path,
   query |-> [i \in DOMAIN op.query |->
                [name |-> op.query[i].name, on |-> op.query[i].required, value |-> ""]],
   headers |-> [i \in DOMAIN op.headers |->
                  [name |-> op.headers[i].name, on |-> FALSE, value |-> ""]],
   body |-> IF op.schema = None THEN None ELSE ExampleFromSchema(op.schema, 0)]

(* A required parameter is added unless a row, even a disabled one, has its
   name. *)
AddMissing(rows, params) ==
  LET missing == SelectSeq(params, LAMBDA p : p.required /\ Named(rows, p.name) = {})
  IN rows \o [i \in DOMAIN missing |-> Row(missing[i].name, "")]

Sampled(op) == IF op.schema = None THEN None ELSE ExampleFromSchema(op.schema, 0)

(* apply_openapi_operation; the base of the url stays (request_url_prefix). *)
ApplyOpenApiOperation(doc, op) ==
  LET pars == {s.name : s \in {t \in ToSet(op.path) : t.kind = "par"}}
      headers == AddMissing(doc.headers, op.headers)
  IN [doc EXCEPT
        !.method = op.method,
        !.path = [i \in DOMAIN op.path |-> IF op.path[i].kind = "par"
                                           THEN Var(op.path[i].name)
                                           ELSE op.path[i]],
        !.bindings = [n \in DOMAIN @ \cup pars |->
                        IF n \in DOMAIN @ THEN @[n] ELSE ""],
        !.query = AddMissing(@, op.query),
        !.headers = IF op.ctype # None /\ Named(headers, ContentTypeRow) = {}
                    THEN Append(headers, Row(ContentTypeRow, op.ctype))
                    ELSE headers,
        !.body = IF @ = None THEN Sampled(op) ELSE @]

(* apply_generated_openapi_values: the first row of each required name. *)
ApplyGeneratedValues(doc, op) ==
  LET sample(rows, params) ==
        [i \in DOMAIN rows |->
           IF \E p \in ToSet(params) : p.required /\ p.name = rows[i].name
                /\ \A j \in Named(rows, p.name) : i <= j
           THEN [rows[i] EXCEPT !.value = "sample"] ELSE rows[i]]
      pars == {s.name : s \in {t \in ToSet(op.path) : t.kind = "par"}}
  IN [doc EXCEPT
        !.bindings = [n \in DOMAIN @ \cup pars |->
                        IF n \in pars THEN "sample" ELSE @[n]],
        !.query = sample(@, op.query),
        !.headers = sample(@, op.headers),
        !.body = IF op.schema # None THEN Sampled(op) ELSE @]

-----------------------------------------------------------------------------
(* Contract checks.  A declared status is [k |-> "code", code], [k |->
   "class", class] or [k |-> "default"]. *)

Lowest2xx(op) ==
  LET success(r) == (r.k = "code" /\ r.code \div 100 = 2)
                      \/ (r.k = "class" /\ r.class = 2)
      key(r) == IF r.k = "code" THEN r.code ELSE 200
      some == {i \in DOMAIN op.responses : success(op.responses[i])}
  IN IF some = {} THEN None
     ELSE op.responses[CHOOSE i \in some : \A j \in some :
            \/ key(op.responses[i]) < key(op.responses[j])
            \/ key(op.responses[i]) = key(op.responses[j]) /\ i <= j]

ResponseForStatus(op, code) ==
  LET exact == FirstOf(op.responses, LAMBDA r : r.k = "code" /\ r.code = code)
      class == FirstOf(op.responses,
                       LAMBDA r : r.k = "class" /\ r.class = code \div 100)
  IN IF exact # None THEN exact
     ELSE IF class # None THEN class
     ELSE FirstOf(op.responses, LAMBDA r : r.k = "default")

(* contract_checks for a given code, or for the lowest success when None. *)
ContractChecks(op, code) ==
  LET r == IF code = None THEN Lowest2xx(op) ELSE ResponseForStatus(op, code)
      status == CASE r = None -> {}
                  [] code # None -> {[check |-> "code", value |-> code]}
                  [] r.k = "class" -> {[check |-> "class", value |-> r.class]}
                  [] r.k = "code" -> {[check |-> "code", value |-> r.code]}
                  [] OTHER -> {}
  IN status
     \cup (IF r # None /\ r.schema # None
           THEN {[check |-> "schema", schema |-> ScrubSchema(r.schema)]} ELSE {})

Accepts(check, code, body) ==
  CASE check.check = "code" -> code = check.value
    [] check.check = "class" -> code \div 100 = check.value
    [] OTHER -> Validates(check.schema, body)

-----------------------------------------------------------------------------
(* Generated suites.  An operation's id is a word and a spelling, of which
   slug keeps the word; a folder is absent, foreign or generated. *)

Slug(id) == id[1]
Stem(op) == <<op.method, Slug(op.id)>>
Foreign == [kind |-> "foreign", files |-> {}, sequence |-> <<>>]
Absent == [kind |-> "absent", files |-> {}, sequence |-> <<>>]

SuiteChecks(op, kind) ==
  {c \in ContractChecks(op, None) : c.check # "class"}
    \cup (IF kind = "api" THEN {[check |-> "time", value |-> 2000]} ELSE {})

(* generate_openapi_suite: [ok, folder].  A failure once the folder was
   prepared removes it, the previous suite with it. *)
GenerateSuite(folder, spec, kind, fails) ==
  IF spec = <<>> \/ folder.kind \notin {"absent", kind}
  THEN [ok |-> FALSE, folder |-> folder]
  ELSE IF fails THEN [ok |-> FALSE, folder |-> Absent]
  ELSE [ok |-> TRUE,
        folder |-> [kind |-> kind,
                    files |-> {Stem(op) : op \in ToSet(spec)},
                    sequence |-> [i \in DOMAIN spec |-> Stem(spec[i])]]]

(* generate_forge_suite's request: every row of the skeleton gets a value and
   is enabled. *)
SuiteRequest(op) ==
  LET r == OperationToRequest(op)
      filled(rows, v) == [i \in DOMAIN rows |-> Row(rows[i].name, v)]
      headers == filled(r.headers, "value")
  IN [r EXCEPT !.query = filled(@, "1"),
               !.headers = IF op.ctype # None /\ Named(headers, ContentTypeRow) = {}
                           THEN Append(headers, Row(ContentTypeRow, op.ctype))
                           ELSE headers]

(* generate_k6_suite: the lowest exact success, 200 when there is none; only
   reading methods are safe. *)
K6Operation(op) ==
  LET codes == {r.code : r \in {q \in ToSet(op.responses) :
                                  q.k = "code" /\ q.code \in 200..299}}
  IN [expected |-> IF codes = {} THEN 200 ELSE OpMin(codes),
      safe |-> op.method \in {"get", "head", "options"}]

(* do_import of dialogs/openapi_import.rs: a new collection, a copy of the
   document over any of the same name, one request per selected operation and
   the binding at the end; at names the step that fails. *)
ImportSteps == {"collection", "copy", "request", "meta", "none"}
DoImport(ws, spec, selected, copy, at) ==
  LET name == IF spec.file \in DOMAIN ws.specs THEN ws.specs ELSE
                [f \in DOMAIN ws.specs \cup {spec.file} |->
                   IF f = spec.file THEN None ELSE ws.specs[f]]
      copied == IF copy THEN [name EXCEPT ![spec.file] = spec.title] ELSE ws.specs
      wanted == SelectSeq([i \in DOMAIN spec.ops |-> <<i, spec.ops[i]>>],
                          LAMBDA x : x[1] \in selected)
  IN CASE at = "collection" -> ws
       [] at = "copy" -> [ws EXCEPT !.collections = @ + 1]
       [] OTHER ->
            [specs |-> copied, collections |-> ws.collections + 1,
             requests |-> IF at = "request" THEN <<>>
                          ELSE [i \in DOMAIN wanted |-> wanted[i][2]],
             bound |-> IF at = "none" THEN [i \in DOMAIN wanted |-> wanted[i][2]]
                       ELSE <<>>]

-----------------------------------------------------------------------------
(* What the pieces owe each other. *)

(* Applying an operation makes the request match it, asks for nothing again
   when repeated, and leaves only what it never touches: rows the user
   disabled, another content type, a body of the user's. *)
ApplySettles(doc, op) ==
  LET after == ApplyOpenApiOperation(doc, op)
  IN /\ CoversOperation(after, op)
     /\ ApplyOpenApiOperation(after, op) = after
     /\ \A issue \in OpenApiRequestIssues(after, op) :
          \/ issue[1] = "query" /\ Named(doc.query, issue[2]) # {}
          \/ issue[1] = "header" /\ Named(doc.headers, issue[2]) # {}
          \/ issue[1] = "type" /\ Named(doc.headers, ContentTypeRow) # {}
          \/ issue[1] = "body" /\ doc.body # None

(* Generated values answer every remaining issue of rows that are enabled. *)
GeneratedValuesFill(doc, op) ==
  LET after == ApplyGeneratedValues(ApplyOpenApiOperation(doc, op), op)
  IN /\ \A n \in {s.name : s \in {t \in ToSet(op.path) : t.kind = "par"}} :
          after.bindings[n] = "sample"
     /\ <<"body", None>> \notin OpenApiRequestIssues(after, op)

(* A generated example satisfies the schema it was generated from, within the
   depth of the generator, unless both lower bounds are given or a
   composition has a part that is not an object. *)
RECURSIVE Regular(_)
Regular(s) ==
  CASE s.k = "integer" -> s.min = None \/ s.xmin = None
    [] s.k = "string" -> TRUE
    [] s.k = "object" -> \A n \in DOMAIN s.props : Regular(s.props[n])
    [] s.k = "array" -> Regular(s.items)
    [] OTHER -> \A i \in DOMAIN s.parts :
         /\ Regular(s.parts[i])
         /\ s.k = "allOf" => s.parts[i].k = "object" /\ DOMAIN s.parts[i].props # {}

ExampleValid(s) ==
  Regular(s) /\ Height(s) <= MaxDepth => Validates(ScrubSchema(s), ExampleFromSchema(s, 0))

(* The checks of the lowest success accept a response that follows the
   declaration, and those of a given code the declaration that code falls
   under. *)
ChecksAccept(op, code, body) ==
  LET r == ResponseForStatus(op, code)
      follows == r # None /\ (r.schema # None => Validates(ScrubSchema(r.schema), body))
  IN /\ r # None => (follows <=> \A c \in ContractChecks(op, code) : Accepts(c, code, body))
     /\ follows /\ r = Lowest2xx(op) =>
          \A c \in ContractChecks(op, None) : Accepts(c, code, body)

(* A suite lists every operation in order, has one file for each unless two
   ids have one slug, and a folder that is not such a suite is left alone. *)
SuiteFaithful(folder, spec, kind, fails) ==
  LET g == GenerateSuite(folder, spec, kind, fails)
  IN /\ folder.kind \notin {"absent", kind} => g.folder = folder
     /\ g.ok => /\ Len(g.folder.sequence) = Len(spec)
                /\ ToSet(g.folder.sequence) = g.folder.files
                /\ (\A i, j \in DOMAIN spec : i # j => Stem(spec[i]) # Stem(spec[j]))
                     => Cardinality(g.folder.files) = Len(spec)
     /\ ~g.ok => g.folder \in {folder, Absent}

(* Each operation keeps an id of its own. *)
IdsDistinct(bases) == IsInjective(UniqueIds(bases))

(* Inlining ends: a chain within the bound ends at its target, a longer one,
   a cycle or a dangling one in an empty object. *)
RefsEnd(doc, start) ==
  LET local(node) == node.k = "ref" /\ ~node.external
      ref == [k |-> "ref", external |-> FALSE, to |-> start]
      after[i \in 0..MaxHops] ==
        IF i = 0 THEN ref
        ELSE IF ~local(after[i - 1]) THEN after[i - 1]
        ELSE IF after[i - 1].to \in DOMAIN doc THEN doc[after[i - 1].to] ELSE Empty
  IN ResolveRefs(doc, ref, 0) =
       IF local(after[MaxHops]) THEN Empty ELSE after[MaxHops]
(* A parameter of the operation replaces the path's, no other is lost, and
   each lands in the list of its place. *)
ParametersKept(path, op) ==
  LET x == ExtractOperations(<<[params |-> path, ops |-> <<[base |-> "w", params |-> op]>>]>>)[1]
      all == ToSet(x.path) \cup ToSet(x.query) \cup ToSet(x.headers)
      keys(ps) == {<<p.name, p.in>> : p \in ps}
  IN /\ ToSet(op) \subseteq all
     /\ keys(all) = keys(ToSet(path) \cup ToSet(op))
     /\ \A p \in all \ ToSet(op) : <<p.name, p.in>> \notin keys(ToSet(op))

(* The generated request lacks nothing of its operation, and the status the
   load test expects is one the contract accepts. *)
SuiteRequestComplete(op) ==
  LET r == SuiteRequest(op)
      doc == [path |-> op.path, bindings |-> [n \in {} |-> ""],
              query |-> r.query, headers |-> r.headers, body |-> r.body]
      body == IF Lowest2xx(op) = None \/ Lowest2xx(op).schema = None THEN None
              ELSE ExampleFromSchema(Lowest2xx(op).schema, 0)
  IN /\ OpenApiRequestIssues(doc, op) = {}
     /\ Lowest2xx(op) # None =>
          \A c \in ContractChecks(op, None) : Accepts(c, K6Operation(op).expected, body)

(* An import that ends well binds every request it made. *)
ImportBound(ws, spec, selected, copy) ==
  LET w == DoImport(ws, spec, selected, copy, "none")
  IN /\ w.bound = w.requests /\ Len(w.bound) = Cardinality(selected)
     /\ \A f \in DOMAIN ws.specs \ {spec.file} : w.specs[f] = ws.specs[f]
===============================================================================
