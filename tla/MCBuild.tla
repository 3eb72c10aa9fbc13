--------------------------------- MODULE MCBuild ---------------------------------
(***************************************************************************)
(* Inputs of RequestBuild, and what holds of each.                         *)
(***************************************************************************)
EXTENDS RequestBuild

A == Lit("a")
Q == Lit("quote")
Old(n) == <<"old", n>>
Var(ns, n) == <<ns, n>>
Row(n, v, on) == [name |-> n, value |-> v, enabled |-> on]
Empty == [n \in {} |-> Null]

Values == {Str(<<A>>), Str(<<Var("bindings", "b")>>), Str(<<A, Var("bindings", "a")>>), Str(<<Var("bindings", "c")>>),
           Str(<<Var("env", "u")>>), Str(<<Var("env", "gone")>>), Str(<<A, Var("env", "o")>>), Str(<<Var("secret", "s")>>),
           Obj([x |-> Str(<<Var("bindings", "a")>>), y |-> Str(<<Var("secret", "s")>>)]),
           Str(<<<<"spaced", "a">>>>), Str(<<<<"escaped", "b">>, A>>), Str(<<<<"cut", "x">>>>), Str(<<Var("else", "x")>>)}
Bindings == {[kind |-> "value", value |-> v] : v \in Values}
  \cup {[kind |-> "ref", ref |-> "f"], [kind |-> "ref", ref |-> "gone"],
        [kind |-> "use", use |-> "uuid", with |-> Obj([x |-> Str(<<Var("bindings", "b")>>)])]}
BindingSets == UNION {[d -> Bindings] : d \in {{}, {"a"}, {"a", "b"}}}
  \cup [{"a", "b", "c"} -> {[kind |-> "value", value |-> v] : v \in
          {Str(<<A>>), Str(<<Var("bindings", "b")>>), Str(<<Var("bindings", "c")>>), Str(<<A, Var("bindings", "a")>>)}}]
Data == [f \in {"f"} |-> Str(<<Var("env", "u")>>)]
Scopes(secrets, matrix) ==
  [env |-> [n \in {"u", "o", "z"} |-> CASE n = "u" -> Str(<<A>>) [] n = "o" -> Obj([x |-> Str(<<A>>)]) [] n = "z" -> Null],
   secret |-> secrets, bindings |-> Empty, runtime |-> Empty, matrix |-> matrix]
Secrets == {[s |-> Str(<<Lit("k")>>)], [s |-> Str(<<Lit("k"), A>>), t |-> Str(<<Lit("k")>>)],
            [s |-> Str(<<Lit("k")>>), t |-> Str(<<Lit("l"), A>>)]}
Matrices(secrets) ==
  {Empty, [m |-> Str(<<A>>)]} \cup {[m |-> v] : v \in MatrixCases([kind |-> "value", value |-> Str(<<Var("secret", "s")>>)],
     Scopes([s |-> [t |-> "array", items |-> <<secrets.s>>, v |-> <<>>]], Empty), Data)}
Texts1 == {<<A>>, <<Var("secret", "s")>>, <<A, Var("bindings", "a")>>, <<Var("matrix", "m"), A>>, <<Var("secret", "t"), Var("secret", "s")>>,
           <<Blank, Var("env", "o")>>, <<A, Var("env", "z")>>}
Bodies == {[type |-> "none", value |-> None], [type |-> "text", value |-> Str(<<Var("secret", "s"), A>>)],
           [type |-> "json", value |-> Obj([x |-> Str(<<Var("bindings", "a")>>)])], [type |-> "ref", ref |-> "f", value |-> None],
           [type |-> "binary", value |-> Str(<<A>>)]}
Document(url, headers, query, body, bindings, pipeline) ==
  [method |-> "POST", url |-> url, headers |-> headers, query |-> query, body |-> body, bindings |-> bindings,
   pipeline |-> pipeline]
Masking ==
  {[doc |-> Document(u, <<Row("x", h, TRUE), Row("y", <<Var("env", "gone")>>, FALSE)>>, <<>>, b,
      [a |-> [kind |-> "value", value |-> Str(<<Var("secret", "s")>>)]],
      <<[uses |-> "bearer", enabled |-> TRUE, with |-> [token |-> Str(<<Var("secret", "s")>>)]]>>),
    scopes |-> Scopes(s, m)] :
     u \in Texts1, h \in Texts1, b \in Bodies, s \in Secrets, m \in Matrices([s |-> Str(<<Lit("k")>>)])}

(* Legacy requests. *)
Auths == {[kind |-> k, key |-> "k", value |-> <<A>>, placement |-> "header"] : k \in {"none", "inherit", "digest"}}
  \cup {[kind |-> "basic", username |-> <<Old("u")>>, password |-> <<A>>, key |-> "k", value |-> <<A>>, placement |-> "header"]}
  \cup {[kind |-> "bearer", token |-> <<Old("u")>>, prefix |-> p, key |-> "k", value |-> <<A>>, placement |-> "header"] :
          p \in {None, <<A>>, <<Old("u")>>}}
  \cup {[kind |-> "apikey", key |-> "k", value |-> <<Old("u")>>, placement |-> p] : p \in {"header", "query"}}
NoFields == <<>>
LegacyBodies ==
  {[type |-> "none", fields |-> NoFields], [type |-> "multipart", fields |-> NoFields]}
  \cup {[type |-> "raw", language |-> l, text |-> t, fields |-> NoFields] :
          l \in {"text", "xml"}, t \in {<<A, Old("u")>>, <<Old("u"), Blank>>, <<Old("$uuid")>>, <<Var("env", "u")>>, <<Old("gone")>>}}
  \cup {[type |-> "xml", text |-> <<A>>, fields |-> NoFields]}
  \cup {[type |-> "json", json |-> j, fields |-> NoFields] :
          j \in {Obj([x |-> Str(<<Old("u")>>)]), Obj([x |-> Str(<<Old("q")>>), y |-> [t |-> "number", v |-> <<A>>]])}}
  \cup {[type |-> "form", fields |-> f] :
          f \in {<<Row("f", <<Old("u")>>, TRUE), Row("g", <<A>>, FALSE)>>, <<Row("f", <<A>>, TRUE), Row("f", <<A>>, TRUE)>>,
                 <<Row("", <<A>>, TRUE)>>}}
  \cup {[type |-> "graphql", query |-> <<Old("u")>>, operation |-> o, fields |-> NoFields] : o \in {<<A>>, <<Old("u")>>}}
Urls == {<<Lit("http://"), A>>, <<Lit("http://"), Old("u"), <<"param", "id">>, A>>, <<Lit("http://"), <<"inner", "id">>>>, <<A>>,
         <<Lit("http://"), Old("gone")>>, <<Lit("http://"), Var("env", "u")>>}
Params == {<<>>, <<Row("id", <<Old("u"), A>>, TRUE)>>, <<Row("id", <<A>>, FALSE)>>, <<Row("id", <<A, Lit("/")>>, TRUE)>>}
Headers == {<<>>, <<Row("x", <<Old("u")>>, TRUE), Row("y", <<A>>, FALSE)>>, <<Row("", <<A>>, TRUE)>>, <<Row("authorization", <<A>>, TRUE)>>,
            <<Row("content-type", <<A>>, TRUE)>>, <<Row("content-type", <<A>>, FALSE)>>, <<Row("k", <<A>>, TRUE)>>,
            <<Row("x", <<Blank, Old("u")>>, TRUE)>>}
Queries == {<<>>, <<Row("q", <<Old("u")>>, TRUE), Row("k", <<A>>, FALSE)>>, <<Row("k", <<A>>, TRUE)>>,
            <<Row("q", <<A, Lit("&"), Old("q")>>, TRUE)>>, <<Row("q", <<Blank, A>>, TRUE)>>}
Chain == <<[u |-> <<A, A>>], Environment([u |-> "z", q |-> "secret", gone |-> "secret"], [q |-> <<Q>>])>>
Plain == [kind |-> "none", key |-> "k", value |-> <<A>>, placement |-> "header"]
Def(u, p, h, q, a, b, e) ==
  [method |-> "POST", url |-> u, params |-> p, headers |-> h, query |-> q, auth |-> a, body |-> b, extras |-> e]
Legacies ==
  {Def(u, p, h, <<>>, Plain, b, {}) : u \in Urls, p \in Params, h \in {<<>>}, b \in LegacyBodies}
  \cup {Def(<<Lit("http://"), A>>, <<>>, h, q, a, b, e) :
          h \in Headers, q \in Queries, a \in Auths, b \in LegacyBodies, e \in {{}, {"scripts"}}}
Exports ==
  {Document(<<A>>, h, <<Row("q", q, TRUE), Row("r", <<Lit("&")>>, FALSE)>>, b, Empty, <<>>) :
     h \in Headers, q \in {<<A>>, <<A, Lit("&"), A>>, <<Lit("#")>>, <<<<"escaped", "a">>>>},
     b \in {[type |-> "none", value |-> None], [type |-> "text", value |-> Str(<<A>>)],
            [type |-> "text", value |-> Obj([x |-> Str(<<A>>)])], [type |-> "text", value |-> None],
            [type |-> "json", value |-> Str(<<A>>)], [type |-> "json", value |-> None],
            [type |-> "form", value |-> Obj([x |-> Str(<<A>>), y |-> Str(<<A>>)])],
            [type |-> "form", value |-> Obj(Empty)], [type |-> "form", value |-> None]}}

Inputs ==
  {<<"bindings", [bindings |-> b]>> : b \in BindingSets}
  \cup {<<"masking", x>> : x \in Masking}
  \cup {<<"migration", d>> : d \in Legacies}
  \cup {<<"curl", d>> : d \in Exports}
Holds(topic, input) ==
  CASE topic = "bindings" -> BindingsResolve(input.bindings, Scopes([s |-> Str(<<Lit("k")>>)], Empty), Data)
    [] topic = "masking" -> MaskedRequest(input.doc, input.scopes, Data)
    [] topic = "migration" -> MigrationSendsTheSame(input, Chain)
    [] topic = "curl" -> CurlSendsTheSame(input)
===============================================================================
