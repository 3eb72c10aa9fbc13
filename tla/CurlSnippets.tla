----------------------------- MODULE CurlSnippets -----------------------------
(***************************************************************************)
(* Requests written as a curl command or as a snippet, and read back from  *)
(* curl (forge-core/src/convert: common.rs, curl_out.rs, curl_in.rs,       *)
(* snippets.rs).                                                           *)
(*                                                                         *)
(* A word of a command line, a url, a header line or a body is a sequence  *)
(* of atoms; an option is <<"-", "X">> or <<"--", "X">>, under the short   *)
(* name of the two spellings where it has both.                            *)
(***************************************************************************)
EXTENDS Integers, Sequences, FiniteSets, SequencesExt

CONSTANTS None

Active(rows) == SelectSeq(rows, LAMBDA r : r.on /\ r.name # "")
Pairs(rows) == [i \in DOMAIN rows |-> <<rows[i].name, rows[i].value>>]
HasName(pairs, n) == \E i \in DOMAIN pairs : pairs[i][1] = n
Join(parts, sep) ==
  IF parts = <<>> THEN <<>>
  ELSE FoldLeft(LAMBDA acc, p : acc \o sep \o p, Head(parts), Tail(parts))
IndexIn(seq, a) == IF a \in ToSet(seq) THEN CHOOSE i \in DOMAIN seq :
                      seq[i] = a /\ \A j \in 1..(i - 1) : seq[j] # a
                   ELSE 0
Before(seq, i) == SubSeq(seq, 1, i - 1)
After(seq, i) == SubSeq(seq, i + 1, Len(seq))

(* percent_encode_form: everything but the unreserved characters. *)
EncodeForm(text) ==
  [i \in DOMAIN text |-> CASE text[i] = "&" -> "%26" [] text[i] = "=" -> "%3D"
                           [] text[i] = "@" -> "%40" [] text[i] = "/" -> "%2F"
                           [] text[i] = "#" -> "%23" [] text[i] = " " -> "%20"
                           [] OTHER -> text[i]]

EnabledHeaders(def) == Pairs(Active(def.headers))
QueryPairs(def) == Pairs(SelectSeq(Active(def.params), LAMBDA p : p.kind = "query"))

AppendQuery(url, pairs) ==
  IF pairs = <<>> THEN url
  ELSE url \o (IF "?" \in ToSet(url) THEN <<"&">> ELSE <<"?">>)
           \o Join([i \in DOMAIN pairs |-> <<pairs[i][1], "=">> \o pairs[i][2]], <<"&">>)

GraphQlJson(body) ==
  <<"{", body.query, IF body.variables \in {"", "bad"} THEN "{}" ELSE body.variables>>
    \o (IF body.operation = None THEN <<>> ELSE <<body.operation>>) \o <<"}">>

(* The part build_view and to_curl share: headers, query and user of a
   request under its auth; only curl can say how to answer a challenge. *)
Carried(def) ==
  LET a == def.auth
      hs == EnabledHeaders(def)
      qs == QueryPairs(def)
  IN [headers |->
        CASE a.k = "bearer" ->
               Append(hs, <<"authorization", <<IF a.prefix = None THEN "Bearer" ELSE a.prefix, " ", a.token>>>>)
          [] a.k = "apikey" /\ a.in = "header" -> Append(hs, <<a.key, <<a.value>>>>)
          [] OTHER -> hs,
      query |-> IF a.k = "apikey" /\ a.in = "query" THEN Append(qs, <<a.key, <<a.value>>>>) ELSE qs,
      user |-> IF a.k \in {"basic", "digest", "ntlm"}
               THEN [scheme |-> a.k, name |-> a.user, pass |-> a.pass] ELSE None]

GraphQlHeaders(def, headers) ==
  IF def.body.k = "graphql" /\ ~HasName(headers, "content-type")
  THEN Append(headers, <<"content-type", <<"application/json">>>>) ELSE headers

-----------------------------------------------------------------------------
(* to_curl. *)

Opt(n) == <<"-", n>>
Long(n) == <<"--", n>>
FormWord(p) ==
  <<p.name, "=">> \o (IF p.file THEN <<"@">> ELSE <<>>) \o p.value
    \o (IF p.type = None THEN <<>> ELSE <<";type=", p.type>>)
BodyWords(b) ==
  CASE b.k = "none" -> <<>>
    [] b.k \in {"raw", "json", "xml"} -> <<Long("data-raw"), b.text>>
    [] b.k = "form" ->
         FlattenSeq([i \in DOMAIN Active(b.fields) |->
            <<Long("data-urlencode"), <<Active(b.fields)[i].name, "=">> \o Active(b.fields)[i].value>>])
    [] b.k = "multipart" ->
         LET ps == SelectSeq(b.parts, LAMBDA p : p.on)
         IN FlattenSeq([i \in DOMAIN ps |-> <<Opt("F"), FormWord(ps[i])>>])
    [] b.k = "graphql" -> <<Long("data-raw"), GraphQlJson(b)>>
    [] b.k = "binary" -> <<Long("data-binary"), <<"@", b.path>>>>
ToCurl(def) ==
  LET c == Carried(def)
      hs == GraphQlHeaders(def, c.headers)
  IN <<<<"curl">>, Opt("X"), <<def.method>>, AppendQuery(def.url, c.query)>>
     \o FlattenSeq([i \in DOMAIN hs |-> <<Opt("H"), <<hs[i][1], ":">> \o hs[i][2]>>])
     \o (IF c.user = None THEN <<>>
         ELSE (IF c.user.scheme = "basic" THEN <<>> ELSE <<Long(c.user.scheme)>>)
                \o <<Opt("u"), <<c.user.name, ":">> \o c.user.pass>>)
     \o BodyWords(def.body)
     \o (IF def.follow = TRUE THEN <<Opt("L")>> ELSE <<>>)
     \o (IF def.verify = FALSE THEN <<Opt("k")>> ELSE <<>>)

-----------------------------------------------------------------------------
(* parse_curl. *)

Taking == {"X", "H", "d", "data-raw", "data-urlencode", "data-binary", "F", "u", "b",
           "x", "A", "e", "url"}
ValueShortFlags == {"A", "b", "c", "d", "e", "F", "H", "m", "o", "u", "w", "x", "X", "T"}
ValueLongFlags == {"max-time", "retry", "w", "o", "cacert", "resolve", "http1.0"}
Methods == {"get", "head", "post", "put", "delete"}

(* Variant: a value attached to its short option is lost. *)
NormalizeTokenDetached(tok) ==
  IF tok # <<>> /\ tok[1] = "-" THEN [i \in 1..(Len(tok) - 1) |-> <<"-", tok[i + 1]>>]
  ELSE <<tok>>

(* normalize_tokens: whatever starts with a dash is taken apart. *)
NormalizeToken(tok) ==
  CASE tok # <<>> /\ tok[1] = "--" ->
         IF "=" \in ToSet(tok)
         THEN <<Before(tok, IndexIn(tok, "=")), After(tok, IndexIn(tok, "="))>>
         ELSE <<tok>>
    [] tok # <<>> /\ tok[1] = "-" /\ Len(tok) > 2 ->
         LET valued == {i \in 2..Len(tok) : tok[i] \in ValueShortFlags}
             last == IF valued = {} THEN Len(tok)
                     ELSE CHOOSE i \in valued : \A j \in valued : i <= j
         IN [i \in 1..(last - 1) |-> <<"-", tok[i + 1]>>]
              \o (IF last < Len(tok) THEN <<After(tok, last)>> ELSE <<>>)
    [] OTHER -> <<tok>>
NormalizeTokens(tokens) == FlattenSeq([i \in DOMAIN tokens |-> NormalizeToken(tokens[i])])

ParseHeader(raw) ==
  LET colon == IndexIn(raw, ":")
  IN IF colon > 0 THEN <<raw[1], After(raw, colon)>>
     ELSE <<IF raw = <<>> THEN "" ELSE raw[1], <<>>>>

ParseFormPart(raw) ==
  LET eq == IndexIn(raw, "=")
      rest == After(raw, eq)
      ty == IndexIn(rest, ";type=")
      value == IF ty = 0 THEN rest ELSE Before(rest, ty)
      file == value # <<>> /\ value[1] = "@"
  IN [name |-> raw[1], file |-> file, on |-> TRUE,
      value |-> IF file THEN Tail(value) ELSE value,
      type |-> IF ty = 0 THEN None ELSE rest[ty + 1]]

UrlencodeDirective(raw) ==
  LET eq == IndexIn(raw, "=")
      value == After(raw, eq)
  IN CASE eq = 1 -> EncodeForm(value)
       [] eq > 1 -> Before(raw, eq) \o <<"=">>
                      \o (IF value # <<>> /\ value[1] = "@" THEN value ELSE EncodeForm(value))
       [] raw # <<>> /\ raw[1] = "@" -> raw
       [] OTHER -> EncodeForm(raw)

NamesFile(raw) ==
  LET eq == IndexIn(raw, "=")
  IN \/ raw # <<>> /\ raw[1] = "@"
     \/ eq > 0 /\ Len(raw) > eq /\ raw[eq + 1] = "@"

Start == [want |-> None, ok |-> TRUE, method |-> None, head |-> FALSE, get |-> FALSE,
          urls |-> <<>>, headers |-> <<>>, data |-> <<>>, form |-> <<>>, user |-> None,
          cookie |-> None, follow |-> FALSE, insecure |-> FALSE, compressed |-> FALSE,
          agent |-> None, referer |-> None, notes |-> 0]

(* take_value, and what each option makes of its value. *)
Note(st, cond) == IF cond THEN [st EXCEPT !.notes = @ + 1] ELSE st
WithValue(st0, v) ==
  LET st == [st0 EXCEPT !.want = None]
      w == st0.want
  IN CASE w = "X" -> IF Len(v) = 1 /\ v[1] \in Methods THEN [st EXCEPT !.method = v[1]]
                     ELSE [st EXCEPT !.ok = FALSE]
       [] w = "H" -> [st EXCEPT !.headers = Append(@, ParseHeader(v))]
       [] w \in {"d", "data-binary"} -> [Note(st, NamesFile(v)) EXCEPT !.data = Append(@, v)]
       [] w = "data-raw" -> [st EXCEPT !.data = Append(@, v)]
       [] w = "data-urlencode" ->
            [Note(st, NamesFile(v)) EXCEPT !.data = Append(@, UrlencodeDirective(v))]
       [] w = "F" -> IF "=" \in ToSet(v) THEN [st EXCEPT !.form = Append(@, ParseFormPart(v))]
                     ELSE [st EXCEPT !.ok = FALSE]
       [] w = "u" ->
            LET c == IndexIn(v, ":")
            IN [st EXCEPT !.user = IF c > 0 THEN <<v[1], After(v, c)>> ELSE <<v[1], <<>>>>]
       [] w = "b" -> [st EXCEPT !.cookie = v]
       [] w = "x" -> Note(st, TRUE)
       [] w = "A" -> [st EXCEPT !.agent = v]
       [] w = "e" -> [st EXCEPT !.referer = v]
       [] w = "url" -> [st EXCEPT !.urls = Append(@, v)]
       [] OTHER -> st
Token(st, tok) ==
  LET dashed == tok # <<>> /\ tok[1] \in {"-", "--"}
      n == IF Len(tok) > 1 THEN tok[2] ELSE ""
  IN CASE ~st.ok -> st
       [] st.want # None -> WithValue(st, tok)
       [] ~dashed -> [st EXCEPT !.urls = Append(@, tok)]
       [] n \in Taking -> [st EXCEPT !.want = n]
       [] n = "L" -> [st EXCEPT !.follow = TRUE]
       [] n = "k" -> [st EXCEPT !.insecure = TRUE]
       [] n = "compressed" -> [st EXCEPT !.compressed = TRUE]
       [] n = "I" -> [st EXCEPT !.head = TRUE]
       [] n = "G" -> [st EXCEPT !.get = TRUE]
       [] \/ tok[1] = "-" /\ n \in ValueShortFlags
          \/ tok[1] = "--" /\ n \in ValueLongFlags -> [st EXCEPT !.want = "skip"]
       [] OTHER -> st

Absolute(url) == "://" \in ToSet(url)
(* What serde_json reads: here an object, a number, and a GraphQL payload. *)
ValidJson(text) == text # <<>> /\ (text[1] = "{" \/ text \in {<<"{}">>, <<"1">>, <<"-", "1", "2">>})
(* A continued line is joined before the words are told apart, in a quoted
   text as well. *)
Cleaned(word) == [i \in DOMAIN word |-> IF word[i] = "continued" THEN " " ELSE word[i]]
ParseCurl(command) ==
  LET words == [i \in DOMAIN command |-> Cleaned(command[i])]
      toks == NormalizeTokens(IF words # <<>> /\ words[1] = <<"curl">> THEN Tail(words) ELSE words)
      st == FoldLeft(Token, Start, toks)
      absolute == SelectSeq(st.urls, Absolute)
      found == IF absolute # <<>> THEN absolute[1] ELSE st.urls[1]
      url == IF Absolute(found) THEN found ELSE <<"https", "://">> \o found
      joined == Join(st.data, <<"&">>)
      moved == st.get /\ st.data # <<>>
      extra(name, v) == IF v = None THEN <<>> ELSE <<<<name, v>>>>
      headers == st.headers \o extra("cookie", st.cookie)
                   \o (IF st.compressed THEN <<<<"accept-encoding", <<"gzip">>>>>> ELSE <<>>)
                   \o extra("user-agent", st.agent) \o extra("referer", st.referer)
      typed == SelectSeq(headers, LAMBDA h : h[1] = "content-type")
      json == typed # <<>> /\ typed[1][2] = <<"application/json">>
  IN IF ~st.ok \/ st.want \notin {None, "skip"} \/ st.urls = <<>> THEN [ok |-> FALSE]
     ELSE [ok |-> TRUE, notes |-> st.notes,
           method |-> CASE st.method # None -> st.method
                        [] st.get -> "get"
                        [] st.head -> "head"
                        [] st.data # <<>> \/ st.form # <<>> -> "post"
                        [] OTHER -> "get",
           url |-> IF moved THEN url \o (IF "?" \in ToSet(url) THEN <<"&">> ELSE <<"?">>) \o joined
                   ELSE url,
           params |-> <<>>,
           headers |-> [i \in DOMAIN headers |->
                          [name |-> headers[i][1], value |-> headers[i][2], on |-> TRUE]],
           body |-> CASE st.form # <<>> -> [k |-> "multipart", parts |-> st.form]
                      [] st.data # <<>> /\ ~moved /\ json -> [k |-> "json", text |-> joined]
                      [] st.data # <<>> /\ ~moved /\ ~json ->
                           [k |-> "raw", text |-> joined,
                            language |-> IF ValidJson(joined) THEN "json" ELSE "text"]
                      [] OTHER -> [k |-> "none"],
           auth |-> IF st.user = None THEN [k |-> "inherit"]
                    ELSE [k |-> "basic", user |-> st.user[1], pass |-> st.user[2]],
           follow |-> IF st.follow THEN TRUE ELSE None,
           verify |-> IF st.insecure THEN FALSE ELSE None]

-----------------------------------------------------------------------------
(* build_view and the generators of snippets.  A snippet stands for the call
   it spells out; what its HTTP library adds by itself is left out. *)

ViewBody(b) ==
  CASE b.k = "none" -> [k |-> "none"]
    [] b.k = "json" \/ (b.k = "raw" /\ b.language = "json") ->
         IF ValidJson(b.text) THEN [k |-> "json", value |-> b.text]
         ELSE [k |-> "text", text |-> b.text]
    [] b.k \in {"raw", "xml"} -> [k |-> "text", text |-> b.text]
    [] b.k = "form" -> [k |-> "form", fields |-> Pairs(Active(b.fields))]
    [] b.k = "multipart" -> [k |-> "multipart", parts |-> SelectSeq(b.parts, LAMBDA p : p.on)]
    [] b.k = "graphql" -> [k |-> "json", value |-> GraphQlJson(b)]
    [] b.k = "binary" -> [k |-> "text", text |-> <<"@", b.path>>]
BuildView(def) ==
  LET c == Carried(def)
  IN [method |-> def.method, url |-> AppendQuery(def.url, c.query),
      headers |-> GraphQlHeaders(def, c.headers),
      user |-> IF c.user # None /\ c.user.scheme = "basic" THEN c.user ELSE None,
      body |-> ViewBody(def.body)]

(* An object literal, a dict and Header.Set keep one value of a name. *)
LastWins(pairs) ==
  {pairs[i] : i \in {j \in DOMAIN pairs : \A k \in DOMAIN pairs :
                      k > j => pairs[k][1] # pairs[j][1]}}
Untyped(parts) == [i \in DOMAIN parts |-> [parts[i] EXCEPT !.type = None]]
Call(v, headers, body) ==
  [method |-> v.method, url |-> v.url, headers |-> headers, user |-> v.user, body |-> body]

(* js_fetch, axios: the fields of a form are the keys of an object, the parts
   of a multipart body are appended. *)
Script(v) ==
  Call(v, LastWins(v.headers),
       CASE v.body.k = "form" -> [k |-> "form", fields |-> LastWins(v.body.fields)]
         [] v.body.k = "multipart" -> [k |-> "multipart", parts |-> ToSet(Untyped(v.body.parts))]
         [] OTHER -> v.body)
JsFetch(v) == Script(v)
Axios(v) == Script(v)

(* python_requests: a multipart body is a dict as well. *)
PythonRequests(v) ==
  LET parts == Untyped(v.body.parts)
  IN IF v.body.k # "multipart" THEN Script(v)
     ELSE Call(v, LastWins(v.headers),
               [k |-> "multipart",
                parts |-> {parts[i] : i \in {j \in DOMAIN parts : \A n \in DOMAIN parts :
                                             n > j => parts[n].name # parts[j].name}}])

(* httpie: every header and field is an argument of its own; without --form
   the fields of a form are those of a JSON object. *)
HttPie(v) ==
  Call(v, ToSet(v.headers),
       CASE v.body.k = "form" -> [k |-> "object", fields |-> ToSet(v.body.fields)]
         [] v.body.k = "multipart" -> [k |-> "multipart", parts |-> ToSet(Untyped(v.body.parts))]
         [] OTHER -> v.body)

(* go_net_http: Header.Set and Values.Set replace. *)
GoNetHttp(v) == Script(v)

(* java_http_client: rows as they are; a multipart body sets its own content
   type and keeps the types of its parts. *)
JavaHttpClient(v) ==
  Call(v, IF v.body.k = "multipart" THEN {h \in ToSet(v.headers) : h[1] # "content-type"}
          ELSE ToSet(v.headers),
       CASE v.body.k = "form" -> [k |-> "form", fields |-> ToSet(v.body.fields)]
         [] v.body.k = "multipart" -> [k |-> "multipart", parts |-> ToSet(v.body.parts)]
         [] OTHER -> v.body)

Generate(v) == [fetch |-> JsFetch(v), axios |-> Axios(v), python |-> PythonRequests(v),
                httpie |-> HttPie(v), go |-> GoNetHttp(v), java |-> JavaHttpClient(v)]

-----------------------------------------------------------------------------
(* runner/resolve.rs and exec/engine.rs: what leaves the program when a
   request without variables is sent and nothing is inherited.  The user agent
   and the accepted types a request gets when it names none, and the type a
   multipart body gives itself, are left out. *)

(* append_pair, form_encode_component: a blank is a plus. *)
EncodeComponent(text) == [i \in DOMAIN text |-> IF text[i] = " " THEN "+" ELSE EncodeForm(text)[i]]
PathRow(def, name) ==
  SelectSeq(Active(def.params), LAMBDA p : p.kind = "path" /\ p.name = name)
(* substitute_path_params: the segment "/:" name, before the query. *)
Substituted(def) ==
  LET u == def.url
      q == IndexIn(u, "?")
      takes(i) == i \in DOMAIN u /\ u[i] = "/:" /\ (q = 0 \/ i < q) /\ PathRow(def, u[i + 1]) # <<>>
  IN FlattenSeq([i \in DOMAIN u |->
       CASE takes(i) -> <<"/">>
         [] takes(i - 1) -> EncodeForm(PathRow(def, u[i])[1].value)
         [] OTHER -> <<u[i]>>])
EnsureScheme(url) == IF Len(url) > 1 /\ url[2] = "://" THEN url ELSE <<"https", "://">> \o url

AuthHeaders(a) ==
  CASE a.k = "basic" -> <<<<"authorization", <<"Basic", " ", a.user, ":">> \o a.pass>>>>
    [] a.k = "bearer" -> <<<<"authorization", <<IF a.prefix = None THEN "Bearer" ELSE a.prefix, " ", a.token>>>>>>
    [] a.k = "apikey" /\ a.in = "header" -> <<<<a.key, <<a.value>>>>>>
    [] OTHER -> <<>>
OwnNames(url) ==
  LET q == IndexIn(url, "?")
  IN {url[i] : i \in {n \in DOMAIN url : n > 1 /\ q > 0 /\ (n - 1 = q \/ (n > q /\ url[n - 1] = "&"))}}
AuthQuery(def, pairs) ==
  IF def.auth.k = "apikey" /\ def.auth.in = "query" /\ ~HasName(pairs, def.auth.key)
       /\ def.auth.key \notin OwnNames(def.url)
  THEN <<<<def.auth.key, <<def.auth.value>>>>>> ELSE <<>>

(* Url::parse and query_pairs_mut; a fragment is not sent. *)
WireUrl(url, pairs) ==
  LET hash == IndexIn(url, "#")
      plain == IF hash = 0 THEN url ELSE Before(url, hash)
      q == IndexIn(plain, "?")
      parsed == [i \in DOMAIN plain |-> IF plain[i] = " " THEN "%20" ELSE plain[i]]
      rows == [i \in DOMAIN pairs |-> <<pairs[i][1], "=">> \o EncodeComponent(pairs[i][2])]
  IN IF pairs = <<>> THEN parsed
     ELSE parsed \o (CASE q = 0 -> <<"?">> [] q > 0 /\ q = Len(plain) -> <<>> [] OTHER -> <<"&">>)
                 \o Join(rows, <<"&">>)

RawContentType == [text |-> "text/plain", json |-> "application/json", xml |-> "application/xml",
                   html |-> "text/html", yaml |-> "application/yaml"]
(* The type apply_body gives a body whose request names none. *)
ContentType(b) ==
  CASE b.k = "raw" -> RawContentType[b.language]
    [] b.k \in {"json", "graphql"} -> "application/json"
    [] b.k = "xml" -> "application/xml"
    [] b.k = "form" -> "application/x-www-form-urlencoded"
    [] OTHER -> None
WireBody(b) ==
  LET fs == Active(b.fields)
  IN CASE b.k \in {"raw", "json", "xml"} -> b.text
       [] b.k = "form" ->
            Join([i \in DOMAIN fs |-> <<fs[i].name, "=">> \o EncodeComponent(fs[i].value)], <<"&">>)
       [] b.k = "graphql" -> <<"{", b.query, IF b.variables = "" THEN "{}" ELSE b.variables,
                               IF b.operation = None THEN "null" ELSE b.operation, "}">>
       [] OTHER -> <<>>
Exchange(def) ==
  LET own == EnabledHeaders(def)
      auth == SelectSeq(AuthHeaders(def.auth), LAMBDA h : ~HasName(own, h[1]))
      type == ContentType(def.body)
      all == own \o auth \o (IF type = None \/ HasName(own, "content-type") THEN <<>>
                             ELSE <<<<"content-type", <<type>>>>>>)
      rows == QueryPairs(def)
  IN [ok |-> ~(def.body.k = "graphql" /\ def.body.variables = "bad"),
      method |-> def.method,
      url |-> WireUrl(EnsureScheme(Substituted(def)), rows \o AuthQuery(def, rows)),
      headers |-> [n \in {all[i][1] : i \in DOMAIN all} |-> SelectSeq(all, LAMBDA h : h[1] = n)],
      multipart |-> def.body.k = "multipart",
      parts |-> IF def.body.k = "multipart" THEN SelectSeq(def.body.parts, LAMBDA p : p.on) ELSE <<>>,
      body |-> WireBody(def.body),
      file |-> IF def.body.k = "binary" THEN def.body.path ELSE None,
      token |-> def.auth.k = "oauth2",
      answer |-> IF def.auth.k \in {"digest", "ntlm"}
                 THEN <<def.auth.k, def.auth.user, def.auth.pass>> ELSE None]

-----------------------------------------------------------------------------
(* The requests whose curl command, read back, sends what they send.  What a
   command does not carry whole: *)
Portable(def) ==
  LET own == EnabledHeaders(def)
      a == def.auth
      b == def.body
      rows == QueryPairs(def)
      adds == rows # <<>> \/ (a.k = "apikey" /\ a.in = "query")
      inferred == IF ValidJson(b.text) THEN "application/json" ELSE "text/plain"
      apart(w) == w # <<>> /\ (\/ w[1] = "-" /\ Len(w) > 2
                               \/ w[1] = "--" /\ "=" \in ToSet(w))
  IN (* a token to fetch, a challenge to answer, a body in a file; *)
     /\ a.k \in {"none", "inherit", "basic", "bearer", "apikey"} /\ b.k # "binary"
     (* a word that starts like an option, a text with a continued line; *)
     /\ \A i \in DOMAIN ToCurl(def) : ~apart(ToCurl(def)[i]) /\ "continued" \notin ToSet(ToCurl(def)[i])
     (* the type of a body, unless a header names it or it can be inferred; *)
     /\ b.k \in {"raw", "json", "xml", "form"} /\ ~HasName(own, "content-type") =>
          b.k # "form" /\ ContentType(b) = inferred
     (* an absent operation name, sent as null; variables that do not parse; *)
     /\ b.k = "graphql" => b.operation # None /\ b.variables # "bad"
     (* a value with a blank, a plus on the wire, or one that names a file; *)
     /\ b.k = "form" => \A i \in DOMAIN Active(b.fields) :
          LET v == Active(b.fields)[i].value IN " " \notin ToSet(v) /\ (v # <<>> => v[1] # "@")
     /\ b.k = "multipart" => /\ \E i \in DOMAIN b.parts : b.parts[i].on
                             /\ \A i \in DOMAIN b.parts : b.parts[i].on /\ ~b.parts[i].file
                                  => b.parts[i].value = <<>> \/ b.parts[i].value[1] # "@"
     (* a query value that is percent-encoded when sent, a query put after a
        fragment or a bare "?", a path parameter; *)
     /\ \A i \in DOMAIN rows : EncodeComponent(rows[i][2]) = rows[i][2]
     /\ adds => "#" \notin ToSet(def.url) /\ def.url[Len(def.url)] # "?"
     /\ EnsureScheme(Substituted(def)) = EnsureScheme(def.url)
     (* credentials the request gives itself, which a run lets win. *)
     /\ a.k = "bearer" => ~HasName(own, "authorization")
     /\ a.k = "apikey" => ~HasName(IF a.in = "header" THEN own ELSE rows, a.key)
                            /\ (a.in = "query" => a.key \notin OwnNames(def.url))

(* A request copied as curl and pasted back makes the same exchange: method,
   address, headers, credentials and body with its type (curl_out.rs against
   curl_in.rs), for exactly the requests a command can carry. *)
RoundTrip(def) ==
  LET back == ParseCurl(ToCurl(def))
  IN Portable(def) <=> /\ back.ok /\ back.notes = 0
                       /\ Exchange(back) = Exchange(def)
                       /\ (back.follow = TRUE) <=> (def.follow = TRUE)
                       /\ (back.verify = FALSE) <=> (def.verify = FALSE)

(* Wherever the address stands in a command, the request is the same: no
   option takes it for its value and no value is taken for it (curl_in.rs:321,
   "guards against a value we failed to recognize"). *)
AddressAnywhere(address, one, two) ==
  LET first == ParseCurl(address \o one \o two)
  IN \A other \in {ParseCurl(one \o address \o two), ParseCurl(one \o two \o address)} :
       first.ok /\ other.ok /\ other = first

(* The six snippets of a request spell out the same call, unless a name occurs
   twice or a part is typed; httpie makes an object of a form
   (snippets.rs:430). *)
SnippetsAgree(def) ==
  LET v == BuildView(def)
      calls == Generate(v)
      distinct(ps) == \A i, j \in DOMAIN ps : ps[i][1] = ps[j][1] => i = j
      names == [i \in DOMAIN v.body.parts |-> <<v.body.parts[i].name>>]
      plain == distinct(names) /\ \A i \in DOMAIN v.body.parts : v.body.parts[i].type = None
  IN /\ distinct(v.headers)
     /\ v.body.k = "form" => distinct(v.body.fields)
     /\ v.body.k = "multipart" => plain /\ ~HasName(v.headers, "content-type")
     => \A l \in DOMAIN calls \ (IF v.body.k = "form" THEN {"httpie"} ELSE {}) :
          calls[l] = calls["fetch"]
===============================================================================
