------------------------------ MODULE RequestBuild ------------------------------
(***************************************************************************)
(* From a stored request to the exchange on the wire, three times:          *)
(*   - request-v1: bindings, interpolation, masking                         *)
(*     (forge-core/src/reqv1/vars.rs, build.rs, runner.rs send);            *)
(*   - the legacy format (vars/, runner/resolve.rs);                        *)
(*   - the curl line of an exported bundle (reqv1/bundle.rs);               *)
(* and the migration from the legacy format to request-v1 (migrate.rs).     *)
(*                                                                         *)
(* A text is a sequence of atoms <<kind, name>>:                            *)
(*   <<"lit", c>>        c itself                                           *)
(*   <<"param", x>>      a segment ":x" of a url, <<"inner", x>> ":x" in one *)
(*   <<ns, x>>           ${ns.x}, ns one of Namespaces or unknown           *)
(*   <<"spaced", x>>     ${ bindings.x }                                    *)
(*   <<"escaped", x>>    $${bindings.x}                                     *)
(*   <<"cut", x>>        ${x without an end                                 *)
(*   <<"old", x>>        {{x}}                                              *)
(* A JSON value is [t, v] with a text v, or [t |-> "object", fields].       *)
(***************************************************************************)
EXTENDS Integers, Sequences, FiniteSets, SequencesExt

CONSTANTS
  Names,  (* the names of bindings, in their order *)
  None

Lit(c) == <<"lit", c>>
Blank == Lit(" ")
Str(text) == [t |-> "string", v |-> text]
Null == [t |-> "null", v |-> <<>>]
Obj(fields) == [t |-> "object", fields |-> fields]
Namespaces == {"env", "secret", "bindings", "runtime", "matrix"}
Good(value, sink) == [err |-> None, value |-> value, sink |-> sink]
Bad(code, sink) == [err |-> code, value |-> Null, sink |-> sink]
Max2(S) == CHOOSE i \in S : \A j \in S : j <= i

-----------------------------------------------------------------------------
(* reqv1/vars.rs: scopes map the names of a namespace to values; sink is the
   list of the secret texts met. *)

Record(sink, text) == IF text = <<>> \/ text \in ToSet(sink) THEN sink ELSE Append(sink, text)
ResolveVar(atom, sc, sink) ==
  LET ns == IF atom[1] = "spaced" THEN "bindings" ELSE atom[1]
  IN CASE ns \notin Namespaces -> Bad("UNKNOWN_NAMESPACE", sink)
       [] ns \in Namespaces /\ atom[2] \notin DOMAIN sc[ns] -> Bad("MISSING_VARIABLE", sink)
       [] OTHER -> Good(sc[ns][atom[2]],
                        IF ns = "secret" THEN Record(sink, sc[ns][atom[2]].v) ELSE sink)
Refers(atom) == atom[1] \notin {"lit", "param", "inner", "old", "escaped", "cut"}
Trim(text) ==
  LET solid == {i \in DOMAIN text : text[i] # Blank}
  IN IF solid = {} THEN <<>>
     ELSE SubSeq(text, CHOOSE i \in solid : \A j \in solid : i <= j, Max2(solid))

(* coerce_to_string and one step of the scan of interpolate_string. *)
Embed(acc, atom, sc) ==
  LET got == ResolveVar(atom, sc, acc.sink)
  IN CASE acc.err # None -> acc
       [] acc.err = None /\ atom[1] \in {"lit", "param", "inner", "old"} ->
            Good(Str(Append(acc.value.v, atom)), acc.sink)
       [] acc.err = None /\ atom[1] = "escaped" ->
            Good(Str(Append(acc.value.v, <<"bindings", atom[2]>>)), acc.sink)
       [] acc.err = None /\ atom[1] = "cut" -> Bad("MISSING_VARIABLE", acc.sink)
       [] acc.err = None /\ Refers(atom) ->
            CASE got.err # None -> got
              [] got.err = None /\ got.value.t = "null" -> Bad("NULL_IN_STRING", got.sink)
              [] got.err = None /\ got.value.t \in {"object", "array"} ->
                   Bad("STRUCTURED_IN_STRING", got.sink)
              [] OTHER -> Good(Str(acc.value.v \o got.value.v), got.sink)
InterpolateString(text, sc, sink) ==
  LET t == Trim(text)
  IN IF Len(t) = 1 /\ Refers(t[1]) THEN ResolveVar(t[1], sc, sink)
     ELSE FoldLeft(LAMBDA acc, atom : Embed(acc, atom, sc), Good(Str(<<>>), sink), text)

(* interpolate: every string of a value, the fields of an object in turn. *)
Interpolate(value, sc, sink) ==
  CASE value.t = "string" -> InterpolateString(value.v, sc, sink)
    [] value.t = "object" ->
         FoldLeft(LAMBDA acc, f :
                    LET got == InterpolateString(value.fields[f].v, sc, acc.sink)
                    IN IF acc.err # None \/ value.fields[f].t # "string" THEN acc
                       ELSE IF got.err # None THEN got
                       ELSE Good(Obj([acc.value.fields EXCEPT ![f] = got.value]), got.sink),
                  Good(value, sink), SetToSeq(DOMAIN value.fields))
    [] OTHER -> Good(value, sink)

(* mask: the recorded texts one after the other. *)
Stars == Lit("***")
Occurs(part, text) == \E i \in 1..(Len(text) - Len(part) + 1) : SubSeq(text, i, i + Len(part) - 1) = part
RECURSIVE Replaced(_, _)
Replaced(text, part) ==
  IF Len(text) < Len(part) THEN text
  ELSE IF SubSeq(text, 1, Len(part)) = part
  THEN <<Stars>> \o Replaced(SubSeq(text, Len(part) + 1, Len(text)), part)
  ELSE <<text[1]>> \o Replaced(Tail(text), part)
Mask(text, sink) == FoldLeft(LAMBDA masked, s : IF s = <<>> THEN masked ELSE Replaced(masked, s), text, sink)

-----------------------------------------------------------------------------
(* build.rs, bindings: [kind |-> "value", value], [kind |-> "ref", ref] or
   [kind |-> "use", use, with]; data is what the references read. *)

Texts(value) ==
  CASE value.t = "string" -> {value.v}
    [] value.t = "object" -> {value.fields[f].v : f \in DOMAIN value.fields}
    [] OTHER -> {}
BindingDeps(b) ==
  LET texts == CASE b.kind = "value" -> Texts(b.value) [] b.kind = "use" -> Texts(b.with) [] OTHER -> {}
  IN {a[2] : a \in {x \in UNION {ToSet(t) : t \in texts} : x[1] \in {"bindings", "escaped"}}}

(* topo_order: the last ready name, again and again. *)
TopoOrder(bindings) ==
  LET deps(n) == BindingDeps(bindings[n]) \cap DOMAIN bindings
      step(order, i) ==
        LET ready == {j \in DOMAIN Names : Names[j] \in DOMAIN bindings \ ToSet(order)
                                             /\ deps(Names[j]) \subseteq ToSet(order)}
        IN IF ready = {} THEN order ELSE Append(order, Names[Max2(ready)])
  IN FoldLeft(step, <<>>, [i \in 1..Cardinality(DOMAIN bindings) |-> i])

ResolveOneBinding(b, sc, data, sink) ==
  CASE b.kind = "value" -> Interpolate(b.value, sc, sink)
    [] b.kind = "ref" -> IF b.ref \in DOMAIN data THEN Good(data[b.ref], sink)
                         ELSE Bad("ASSET_NOT_FOUND", sink)
    [] b.kind = "use" ->
         LET with == Interpolate(b.with, sc, sink)
         IN IF with.err # None \/ b.use # "uuid" THEN Bad("ASSET_NOT_FOUND", with.sink)
            ELSE Good(Str(<<Lit("uuid")>>), with.sink)
ResolveBindings(bindings, sc, data) ==
  LET order == TopoOrder(bindings)
      step(acc, n) ==
        LET got == ResolveOneBinding(bindings[n], [sc EXCEPT !.bindings = acc.done], data, acc.sink)
        IN IF got.err = None
           THEN [acc EXCEPT !.done = [m \in DOMAIN acc.done \cup {n} |->
                                        IF m = n THEN got.value ELSE acc.done[m]],
                            !.sink = got.sink]
           ELSE [acc EXCEPT !.errors = @ \cup {<<"bindings", n, got.err>>}, !.sink = got.sink]
      none == [m \in {} |-> Null]
      end == FoldLeft(step, [done |-> none, errors |-> {}, sink |-> <<>>], order)
  IN IF Len(order) < Cardinality(DOMAIN bindings)
     THEN [done |-> none, errors |-> {<<"bindings", "", "BINDING_CYCLE">>}, sink |-> <<>>]
     ELSE [end EXCEPT !.done = IF end.errors = {} THEN @ ELSE none]

(* resolve_cases, one name of the matrix: its own sink is dropped. *)
MatrixCases(b, sc, data) ==
  LET got == ResolveOneBinding(b, [sc EXCEPT !.bindings = [m \in {} |-> Null]], data, <<>>)
  IN IF got.err # None \/ got.value.t # "array" THEN {} ELSE ToSet(got.value.items)

-----------------------------------------------------------------------------
(* build.rs, the request: rows are [name, value, enabled], a body is
   [type, value] or [type |-> "ref", ref]. *)

(* interp_string: what is no string is written as JSON. *)
TextOf(value) ==
  CASE value.t = "object" -> FoldLeft(LAMBDA out, f : out \o <<Lit(f)>> \o value.fields[f].v, <<Lit("{")>>,
                                      SetToSeq(DOMAIN value.fields)) \o <<Lit("}")>>
    [] value.t = "null" -> <<Lit("null")>>
    [] OTHER -> value.v
(* resolve_headers: the enabled rows that resolve; the others are errors. *)
ResolveRows(acc, rows, field, sc) ==
  FoldLeft(LAMBDA a, i :
             LET got == InterpolateString(rows[i].value, sc, a.sink)
             IN IF ~rows[i].enabled THEN a
                ELSE IF got.err # None
                THEN [a EXCEPT !.errors = @ \cup {<<field, rows[i].name, got.err>>}, !.sink = got.sink]
                ELSE [a EXCEPT ![field] = Append(@, <<rows[i].name, TextOf(got.value)>>), !.sink = got.sink],
           acc, [i \in DOMAIN rows |-> i])
ValueToForm(value) ==
  IF value.t # "object" THEN <<>>
  ELSE [i \in 1..Cardinality(DOMAIN value.fields) |->
          LET f == SetToSeq(DOMAIN value.fields)[i] IN <<f, value.fields[f].v>>]
NoBody == [k |-> "none", data |-> Null, form |-> <<>>]
BuildBody(acc, body, data, sc) ==
  LET got == Interpolate(body.value, sc, acc.sink)
      put(b) == [acc EXCEPT !.body = b, !.sink = got.sink]
      fail(code) == [acc EXCEPT !.errors = @ \cup {<<"body", "", code>>}, !.sink = got.sink]
  IN CASE body.type = "ref" -> IF body.ref \in DOMAIN data
                               THEN [acc EXCEPT !.body = [k |-> "json", data |-> data[body.ref], form |-> <<>>]]
                               ELSE [acc EXCEPT !.errors = @ \cup {<<"body", "", "ASSET_NOT_FOUND">>}]
       [] body.type # "ref" /\ body.value = None -> acc
       [] body.type # "ref" /\ body.value # None /\ got.err # None -> fail(got.err)
       [] OTHER ->
            CASE body.type = "json" -> put([k |-> "json", data |-> got.value, form |-> <<>>])
              [] body.type = "text" -> put([k |-> "text", form |-> <<>>,
                   data |-> IF got.value.t = "string" THEN got.value ELSE Str(<<>>)])
              [] body.type = "form" -> put([k |-> "form", data |-> Null, form |-> ValueToForm(got.value)])
              [] body.type \in {"multipart", "binary"} -> fail("INVALID_ASSET_INPUT")
              [] body.type = "none" -> put(NoBody)

(* build_pipeline: the enabled before-request entries, in order. *)
BuildPipeline(acc, entries, sc) ==
  FoldLeft(LAMBDA a, e :
             LET got == Interpolate(Obj(e.with), sc, a.sink)
             IN IF ~e.enabled THEN a
                ELSE IF got.err # None
                THEN [a EXCEPT !.errors = @ \cup {<<"pipeline", e.uses, got.err>>}, !.sink = got.sink]
                ELSE [a EXCEPT !.pipeline = Append(@, [uses |-> e.uses, with |-> got.value.fields]),
                               !.sink = got.sink],
           acc, entries)

(* build_ir: a url that does not resolve hides what is wrong with the rest of
   the request, never with the pipeline. *)
BuildIr(doc, scopes, data) ==
  LET b == ResolveBindings(doc.bindings, scopes, data)
      sc == [scopes EXCEPT !.bindings = b.done]
      start == [errors |-> b.errors, sink |-> b.sink, url |-> <<>>, headers |-> <<>>, query |-> <<>>,
                body |-> NoBody, pipeline |-> <<>>, method |-> doc.method]
      url == InterpolateString(doc.url, sc, start.sink)
      placed == [start EXCEPT !.url = TextOf(url.value), !.sink = url.sink]
      request == IF url.err # None
                 THEN [start EXCEPT !.errors = @ \cup {<<"url", "", url.err>>}, !.sink = url.sink]
                 ELSE BuildBody(ResolveRows(ResolveRows(placed, doc.headers, "headers", sc),
                                            doc.query, "query", sc), doc.body, data, sc)
  IN BuildPipeline(request, doc.pipeline, sc)

(* bearer, basic and header hooks, upserted by name (apply_patch). *)
Auth(prefix, text) == <<"authorization", prefix \o <<Blank>> \o text>>
HookHeader(e) ==
  CASE e.uses = "bearer" -> Auth(IF "prefix" \in DOMAIN e.with THEN e.with.prefix.v ELSE <<Lit("Bearer")>>,
                                 e.with.token.v)
    [] e.uses = "basic" -> Auth(<<Lit("Basic")>>, e.with.username.v \o <<Lit(":")>> \o e.with.password.v)
Named(rows, name) == {i \in DOMAIN rows : rows[i][1] = name}
Upsert(rows, row) ==
  LET at == Named(rows, row[1])
  IN IF at = {} THEN Append(rows, row) ELSE [rows EXCEPT ![CHOOSE i \in at : \A j \in at : i <= j] = row]
Typed(headers, type) == IF Named(headers, "content-type") # {} \/ type = None THEN headers
                        ELSE Append(headers, <<"content-type", <<Lit(type)>>>>)
BodyType(body) ==
  CASE body.k = "json" -> "application/json" [] body.k = "text" -> "text/plain"
    [] body.k = "form" -> "application/x-www-form-urlencoded" [] OTHER -> None
(* urlencoding_encode: everything but letters, digits, "-", "_", "." and "~". *)
Percent == [c \in {"&", "#", "/", " ", "{", "}", "quote"} |->
              CASE c = "&" -> "%26" [] c = "#" -> "%23" [] c = "/" -> "%2F" [] c = " " -> "%20"
                [] c = "{" -> "%7B" [] c = "}" -> "%7D" [] c = "quote" -> "%22"]
Coded == [param |-> "%param", inner |-> "%inner", old |-> "%old"]
Encoded(text) ==
  [i \in DOMAIN text |->
     CASE text[i][1] = "lit" /\ text[i][2] \in DOMAIN Percent -> Lit(Percent[text[i][2]])
       [] text[i][1] \in DOMAIN Coded -> <<Coded[text[i][1]], text[i][2]>>
       [] OTHER -> text[i]]
OnWire(rows) == [i \in DOMAIN rows |-> <<rows[i][1], Encoded(rows[i][2])>>]
(* send, body_to_exec: the query is percent-encoded and appended; a form is
   kept as its fields. *)
Sent(ir) ==
  LET headers == FoldLeft(LAMBDA h, e : Upsert(h, HookHeader(e)), ir.headers, ir.pipeline)
  IN [method |-> ir.method, url |-> ir.url, query |-> OnWire(ir.query),
      headers |-> Typed(headers, BodyType(ir.body)),
      body |-> [data |-> ir.body.data, form |-> ir.body.form]]

-----------------------------------------------------------------------------
(* The legacy format: vars is the chain of VarScopes, nearest scope first. *)

(* with_environment: a secret variable without its value is no variable. *)
Environment(variables, secrets) ==
  [n \in {m \in DOMAIN variables : variables[m] = "secret" => m \in DOMAIN secrets} |->
     IF variables[n] = "secret" THEN secrets[n] ELSE <<Lit(variables[n])>>]
Lookup(vars, name) ==
  LET fit == SelectSeq(vars, LAMBDA scope : name \in DOMAIN scope)
  IN IF name = "$uuid" THEN <<Lit("uuid")>> ELSE IF fit = <<>> THEN None ELSE fit[1][name]
Unresolved(text, vars) == {a \in ToSet(text) : a[1] = "old" /\ Lookup(vars, a[2]) = None}
Legacy(text, vars) ==
  FoldLeft(LAMBDA out, a : IF a[1] = "old" /\ Lookup(vars, a[2]) # None
                           THEN out \o Lookup(vars, a[2]) ELSE Append(out, a), <<>>, text)
(* A value put into JSON text verbatim breaks it when it holds a quote. *)
LegacyJson(value, vars) ==
  LET out(v) == Legacy(v.v, vars)
      breaks(v) == \E a \in ToSet(v.v) : a[1] = "old" /\ Lookup(vars, a[2]) # None
                                           /\ Lit("quote") \in ToSet(Lookup(vars, a[2]))
  IN IF value.t = "object"
     THEN IF \E f \in DOMAIN value.fields : breaks(value.fields[f]) THEN [t |-> "broken", v |-> <<>>]
          ELSE Obj([f \in DOMAIN value.fields |-> [value.fields[f] EXCEPT !.v = out(value.fields[f])]])
     ELSE IF breaks(value) THEN [t |-> "broken", v |-> <<>>] ELSE [value EXCEPT !.v = out(value)]

IsActive(row) == row.enabled /\ row.name # ""
ActiveRows(rows, vars) ==
  LET live == SelectSeq(rows, LAMBDA r : IsActive(r))
  IN [i \in DOMAIN live |-> <<live[i].name, Legacy(live[i].value, vars)>>]
EffectiveAuth(auth, chain) ==
  LET fit == SelectSeq(<<auth>> \o chain, LAMBDA a : a.kind # "inherit")
  IN IF fit = <<>> THEN [kind |-> "none"] ELSE fit[1]
AuthHeaders(auth, vars) ==
  CASE auth.kind = "basic" -> <<Auth(<<Lit("Basic")>>, Legacy(auth.username, vars) \o <<Lit(":")>>
                                                        \o Legacy(auth.password, vars))>>
    [] auth.kind = "bearer" -> <<Auth(IF auth.prefix = None THEN <<Lit("Bearer")>>
                                      ELSE Legacy(auth.prefix, vars), Legacy(auth.token, vars))>>
    [] auth.kind = "apikey" /\ auth.placement = "header" -> <<<<auth.key, Legacy(auth.value, vars)>>>>
    [] OTHER -> <<>>
AuthQuery(auth, vars) ==
  IF auth.kind = "apikey" /\ auth.placement = "query" THEN <<<<auth.key, Legacy(auth.value, vars)>>>> ELSE <<>>
Missing(old, new) == SelectSeq(new, LAMBDA r : Named(old, r[1]) = {})

(* append_pair: as Encoded, but a blank is a plus. *)
AppendPairs(rows) ==
  LET plus(text) == [i \in DOMAIN text |-> IF text[i] = Blank THEN Lit("+") ELSE Encoded(text)[i]]
  IN [i \in DOMAIN rows |-> <<rows[i][1], plus(rows[i][2])>>]
(* substitute_path_params: whole segments, percent-encoded. *)
PathParam(def, x) == SelectSeq(def.params, LAMBDA p : p.enabled /\ p.name = x)
SubstitutePathParams(url, def, vars) ==
  FoldLeft(LAMBDA out, a : IF a[1] = "param" /\ PathParam(def, a[2]) # <<>>
                           THEN out \o Encoded(Legacy(PathParam(def, a[2])[1].value, vars))
                           ELSE Append(out, a), <<>>, url)
EnsureScheme(url) == IF url # <<>> /\ url[1] = Lit("http://") THEN url ELSE <<Lit("https://")>> \o url

RawContentType(language) ==
  CASE language = "text" -> "text/plain" [] language = "json" -> "application/json" [] language = "xml" -> "application/xml"
LegacyBody(body, vars) ==
  LET text(v) == [data |-> Str(Legacy(v, vars)), form |-> <<>>]
  IN CASE body.type = "raw" -> <<RawContentType(body.language), text(body.text)>>
       [] body.type = "xml" -> <<"application/xml", text(body.text)>>
       [] body.type = "json" -> <<"application/json", [data |-> LegacyJson(body.json, vars), form |-> <<>>]>>
       [] body.type = "form" -> <<"application/x-www-form-urlencoded",
                                  [data |-> Null, form |-> ActiveRows(body.fields, vars)]>>
       [] body.type = "graphql" -> <<"application/json",
            [data |-> LegacyJson(Obj([query |-> Str(body.query), operationName |-> Str(body.operation)]), vars),
             form |-> <<>>]>>
       [] OTHER -> <<None, [data |-> Null, form |-> <<>>]>>
(* resolve_request; every text must resolve. *)
LegacyTexts(def) ==
  LET live(rows) == {r.value : r \in {x \in ToSet(rows) : IsActive(x)}}
      used == {p \in ToSet(def.params) : p.enabled /\ <<"param", p.name>> \in ToSet(def.url)}
  IN {def.url} \cup live(def.headers) \cup live(def.query) \cup {p.value : p \in used}
     \cup (CASE def.auth.kind = "basic" -> {def.auth.username, def.auth.password}
             [] def.auth.kind = "bearer" -> {def.auth.token} \cup
                                              (IF def.auth.prefix = None THEN {} ELSE {def.auth.prefix})
             [] def.auth.kind = "apikey" -> {def.auth.value} [] OTHER -> {})
     \cup (CASE def.body.type \in {"raw", "xml"} -> {def.body.text} [] def.body.type = "json" -> Texts(def.body.json)
             [] def.body.type = "form" -> live(def.body.fields)
             [] def.body.type = "graphql" -> {def.body.query, def.body.operation} [] OTHER -> {})
ResolveRequest(def, chain, vars) ==
  LET auth == EffectiveAuth(def.auth, chain)
      own == ActiveRows(def.headers, vars)
      query == ActiveRows(def.query, vars)
      body == LegacyBody(def.body, vars)
  IN IF \E t \in LegacyTexts(def) : Unresolved(t, vars) # {} THEN None
     ELSE [method |-> def.method, url |-> EnsureScheme(SubstitutePathParams(Legacy(def.url, vars), def, vars)),
           query |-> AppendPairs(query \o Missing(query, AuthQuery(auth, vars))),
           headers |-> Typed(own \o Missing(own, AuthHeaders(auth, vars)), body[1]), body |-> body[2]]

-----------------------------------------------------------------------------
(* migrate.rs. *)

ConvertVars(text) == [i \in DOMAIN text |-> IF text[i][1] = "old" THEN <<"env", text[i][2]>> ELSE text[i]]
ConvertRows(rows) == [i \in DOMAIN rows |-> [rows[i] EXCEPT !.value = ConvertVars(@)]]
ConvertJson(value) ==
  IF value.t = "object" THEN Obj([f \in DOMAIN value.fields |-> [value.fields[f] EXCEPT !.v = ConvertVars(@)]])
  ELSE [value EXCEPT !.v = ConvertVars(@)]
MigrateUrl(def) ==
  FoldLeft(LAMBDA out, a : IF a[1] \in {"param", "inner"} /\ PathParam(def, a[2]) # <<>>
                           THEN out \o ConvertVars(PathParam(def, a[2])[1].value)
                           ELSE Append(out, a), <<>>, ConvertVars(def.url))
MigrateAuth(auth) ==
  CASE auth.kind = "basic" -> [uses |-> "basic", enabled |-> TRUE,
         with |-> [username |-> Str(ConvertVars(auth.username)), password |-> Str(ConvertVars(auth.password))]]
    [] auth.kind = "bearer" -> [uses |-> "bearer", enabled |-> TRUE,
         with |-> IF auth.prefix = None THEN [token |-> Str(ConvertVars(auth.token))]
                  ELSE [token |-> Str(ConvertVars(auth.token)), prefix |-> Str(auth.prefix)]]
MigrateBody(body) ==
  LET live == SelectSeq(body.fields, LAMBDA f : f.enabled)
      keys == {live[i].name : i \in DOMAIN live}
      last(k) == live[Max2({i \in DOMAIN live : live[i].name = k})]
  IN CASE body.type \in {"raw", "xml"} -> [type |-> "text", value |-> Str(ConvertVars(body.text))]
       [] body.type = "json" -> [type |-> "json", value |-> ConvertJson(body.json)]
       [] body.type = "form" -> [type |-> "form", value |-> Obj([k \in keys |-> Str(ConvertVars(last(k).value))])]
       [] body.type = "graphql" -> [type |-> "json", value |->
            Obj([query |-> Str(ConvertVars(body.query)), operationName |-> Str(body.operation)])]
       [] OTHER -> [type |-> "none", value |-> None]
AddContentType(rows, value) ==
  IF \E i \in DOMAIN rows : rows[i].name = "content-type" THEN rows
  ELSE Append(rows, [name |-> "content-type", value |-> <<Lit(value)>>, enabled |-> TRUE])
Unsupported(def) ==
  (IF def.auth.kind \in {"none", "basic", "bearer", "apikey"} THEN {} ELSE {"auth"})
  \cup (IF def.body.type \in {"multipart", "binary"} THEN {"body"} ELSE {})
  \cup (IF def.body.type = "form"
             /\ \E i, j \in DOMAIN def.body.fields : i < j /\ def.body.fields[i].enabled
                  /\ def.body.fields[j].enabled /\ def.body.fields[i].name = def.body.fields[j].name
        THEN {"duplicate keys"} ELSE {})
  \cup def.extras
(* migrate_request. *)
MigrateRequest(def) ==
  LET row == [name |-> def.auth.key, value |-> ConvertVars(def.auth.value), enabled |-> TRUE]
      key(place) == IF def.auth.kind = "apikey" /\ def.auth.placement = place THEN <<row>> ELSE <<>>
      headers == ConvertRows(def.headers) \o key("header")
  IN [method |-> def.method, url |-> MigrateUrl(def), bindings |-> [n \in {} |-> None],
      headers |-> IF def.body.type = "graphql" THEN AddContentType(headers, "application/json") ELSE headers,
      query |-> ConvertRows(def.query) \o key("query"), body |-> MigrateBody(def.body),
      pipeline |-> IF def.auth.kind \in {"basic", "bearer"} THEN <<MigrateAuth(def.auth)>> ELSE <<>>]

-----------------------------------------------------------------------------
(* bundle.rs request_curl, and what curl makes of its words: the query as it
   stands; the body types and hooks of the document that it leaves out are left
   out here too. *)

CurlData(doc) ==
  CASE doc.body.type \in {"json", "text"} /\ doc.body.value # None -> [data |-> doc.body.value, form |-> <<>>]
    [] doc.body.type = "form" /\ doc.body.value # None ->
         [data |-> Null, form |-> ValueToForm(doc.body.value)]
    [] doc.body.type = "ref" -> [data |-> Str(<<Lit("@file")>>), form |-> <<>>]
    [] OTHER -> [data |-> Null, form |-> <<>>]
RequestCurl(doc) ==
  LET plain(rows) == LET on == SelectSeq(rows, LAMBDA r : r.enabled)
                     IN [i \in DOMAIN on |-> <<on[i].name, on[i].value>>]
      typed == IF doc.body.type = "json" THEN Typed(plain(doc.headers), "application/json") ELSE plain(doc.headers)
      data == CurlData(doc)
  IN [method |-> doc.method, url |-> doc.url, query |-> plain(doc.query), body |-> data,
      headers |-> IF data = [data |-> Null, form |-> <<>>] THEN typed
                  ELSE Typed(typed, "application/x-www-form-urlencoded")]
-----------------------------------------------------------------------------
(* Bindings that refer to each other resolve in an order that serves each of
   them: all resolve when their references have values, the values are those
   each gets with all the others at hand, and only a circle is a cycle
   (build.rs:135, resolve_bindings). References written with blanks or
   escaped are misread by the dependency scan and excepted. *)
BindingsResolve(bindings, sc, data) ==
  LET got == ResolveBindings(bindings, sc, data)
      atoms(n) == UNION {ToSet(t) : t \in
                    CASE bindings[n].kind = "value" -> Texts(bindings[n].value)
                      [] bindings[n].kind = "use" -> Texts(bindings[n].with) [] OTHER -> {}}
      all == UNION {atoms(n) : n \in DOMAIN bindings}
      refs(n) == {a[2] : a \in {x \in atoms(n) : x[1] = "bindings"}}
      step(done, i) == done \cup {n \in DOMAIN bindings : refs(n) \cap DOMAIN bindings \subseteq done}
      ordered == FoldLeft(step, {}, [i \in 1..Cardinality(DOMAIN bindings) |-> i]) = DOMAIN bindings
      simple == ~\E a \in all : a[1] \in {"spaced", "escaped"}
      has(a) == a[1] # "cut" /\ (Refers(a) => a[1] \in Namespaces /\ a[2] \in (IF a[1] = "bindings" THEN DOMAIN bindings
                                                             ELSE DOMAIN sc[a[1]]))
      whole == \A n \in DOMAIN bindings : \A t \in (IF bindings[n].kind = "value" THEN Texts(bindings[n].value) ELSE {}) :
                 Len(t) = 1
      final == [sc EXCEPT !.bindings = got.done]
  IN simple =>
       /\ (\E e \in got.errors : e[3] = "BINDING_CYCLE") <=> ~ordered
       /\ ordered /\ whole /\ (\A a \in all : has(a))
            /\ (\A n \in DOMAIN bindings : bindings[n].kind = "value")
          => got.errors = {}
       /\ got.errors = {} => \A n \in DOMAIN bindings :
            got.done[n] = ResolveOneBinding(bindings[n], final, data, <<>>).value

(* Whatever secret a request names, in its own fields or through a binding,
   no masked text of the built request shows it (build.rs:97, ir.rs:71).
   Excepted: secrets that hold a piece of another, and secrets that came
   through the matrix, whose sink is dropped. *)
MaskedRequest(doc, scopes, data) ==
  LET ir == BuildIr(doc, scopes, data)
      secrets == {scopes.secret[n].v : n \in DOMAIN scopes.secret} \ {<<>>}
      apart == \A s, t \in secrets : s # t => ~Occurs(s, t)
      shown == {ir.url} \cup {ir.headers[i][2] : i \in DOMAIN ir.headers}
                 \cup {ir.query[i][2] : i \in DOMAIN ir.query} \cup Texts(ir.body.data)
      matrix == UNION {Texts(scopes.matrix[n]) : n \in DOMAIN scopes.matrix}
      leaked(s) == \E t \in matrix : Occurs(s, t)
  IN ir.errors = {} /\ apart =>
       \A s \in secrets : leaked(s) \/ \A t \in shown : ~Occurs(s, Mask(t, ir.sink))

(* What is not said of a legacy request that migrates without a word, and yet
   makes the migrated one send something else (migrate.rs:1, :148). *)
Altered(def, vars) ==
  LET texts == LegacyTexts(def) \cup {p.value : p \in ToSet(def.params)}
      atoms == UNION {ToSet(t) : t \in texts}
      rows == ToSet(def.headers) \cup ToSet(def.query)
                \cup (IF def.body.type = "form" THEN ToSet(def.body.fields) ELSE {})
      typed == \E r \in ToSet(def.headers) : IsActive(r) /\ r.name = "content-type"
      named(set, name) == \E r \in set : r.enabled /\ r.name = name
      used == {p \in ToSet(def.params) : p.enabled}
  IN \/ \E r \in rows : r.enabled /\ r.name = ""                          (* sent without a name *)
     \/ def.body.type = "raw" /\ def.body.language # "text" /\ ~typed     (* text/plain instead *)
     \/ def.body.type = "xml" /\ ~typed
     \/ def.body.type = "graphql" /\ def.body.operation # ConvertVars(def.body.operation)
     \/ def.url = <<>> \/ def.url[1] # Lit("http://")                     (* https:// is not added *)
     \/ \E p \in used : <<"inner", p.name>> \in ToSet(def.url)            (* replaced in a word *)
     \/ \E p \in used : <<"param", p.name>> \in ToSet(def.url)            (* no percent-encoding *)
          /\ Encoded(Legacy(p.value, vars)) # Legacy(p.value, vars)
     \/ \E r \in ToSet(def.query) : IsActive(r) /\ Blank \in ToSet(Legacy(r.value, vars))  (* %20 for + *)
     \/ def.auth.kind \in {"basic", "bearer"} /\ named(ToSet(def.headers), "authorization")
     \/ def.auth.kind = "bearer" /\ def.auth.prefix # None /\ def.auth.prefix # ConvertVars(def.auth.prefix)
     \/ def.auth.kind = "apikey" /\ named(IF def.auth.placement = "header" THEN ToSet(def.headers)
                                         ELSE ToSet(def.query), def.auth.key)
     \/ \E a \in atoms : a[1] \notin {"lit", "param", "inner", "old"}  (* ${x} was text *)
     \/ \E a \in atoms : a = <<"old", "$uuid">>                           (* no variable of an environment *)
     \/ \E t \in texts : Len(Trim(t)) = 1 /\ Trim(t) # t /\ Refers(ConvertVars(Trim(t))[1])
     \/ def.body.type \in {"json", "graphql"} /\ LegacyBody(def.body, vars)[2].data.t = "broken"
MigrationSendsTheSame(def, vars) ==
  LET doc == MigrateRequest(def)
      empty == [n \in {} |-> Null]
      env == [n \in {m \in UNION {DOMAIN vars[i] : i \in DOMAIN vars} : Lookup(vars, m) # None} |->
                Str(Lookup(vars, n))]
      ir == BuildIr(doc, [env |-> env, secret |-> empty, bindings |-> empty, runtime |-> empty,
                          matrix |-> empty], empty)
      old == ResolveRequest(def, <<>>, vars)
      set(x) == [x EXCEPT !.headers = ToSet(@), !.body.form = ToSet(@)]
  IN Unsupported(def) = {} /\ ~Altered(def, vars) =>
       IF old = None THEN ir.errors # {} ELSE ir.errors = {} /\ set(Sent(ir)) = set(old)

(* The curl line of an exported request sends what a run sends (bundle.rs:393),
   for a request without variables, hooks, references and query values that
   need encoding, which the line has as they stand.  A text has another type
   unless a header names it, and so has a form without fields. *)
CurlSendsTheSame(doc) ==
  LET empty == [n \in {} |-> Null]
      ir == BuildIr(doc, [env |-> empty, secret |-> empty, bindings |-> empty, runtime |-> empty,
                          matrix |-> empty], empty)
      value == doc.body.value
      rows == {r \in ToSet(doc.headers) \cup ToSet(doc.query) : r.enabled}
      texts == {doc.url} \cup {r.value : r \in rows} \cup (IF value = None THEN {} ELSE Texts(value))
      plain == \A t \in texts : \A a \in ToSet(t) : ~Refers(a) /\ a[1] \notin {"escaped", "cut"}
      typed == \E r \in ToSet(doc.headers) : r.enabled /\ r.name = "content-type"
  IN /\ plain /\ doc.pipeline = <<>> /\ doc.body.type \notin {"ref", "multipart", "binary"}
     /\ \A r \in ToSet(doc.query) : r.enabled => Encoded(r.value) = r.value
     /\ doc.body.type = "text" => typed /\ value # None /\ value.t = "string"
     /\ doc.body.type = "json" => value # None
     /\ doc.body.type = "form" => typed \/ (value # None /\ ValueToForm(value) # <<>>)
     => LET sent == Sent(ir) curl == RequestCurl(doc)
        IN /\ ir.errors = {}
           /\ curl.url = sent.url /\ curl.query = sent.query
           /\ ToSet(curl.headers) = ToSet(sent.headers) /\ curl.body = sent.body
===============================================================================
