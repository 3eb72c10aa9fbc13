--------------------------- MODULE CollectionImports ---------------------------
(***************************************************************************)
(* Collections of other programs read as ImportedCollection                *)
(* (forge-core/src/convert/postman.rs, bruno.rs): items in order, each     *)
(* with the notes on what has no equivalent.                               *)
(*                                                                         *)
(* Credentials, texts and values are opaque; None stands for a JSON member *)
(* or a block that is absent.                                              *)
(***************************************************************************)
EXTENDS Integers, Sequences, FiniteSets, SequencesExt

CONSTANTS None

Inherit == [k |-> "inherit"]
NoAuth == [k |-> "none"]
Plain == {"basic", "bearer", "digest", "ntlm", "awsv4"}

-----------------------------------------------------------------------------
(* Postman. *)

(* parse_auth: an auth node is its type with the credentials under it. *)
PostmanAuth(a) ==
  CASE a = None -> [auth |-> Inherit, notes |-> {}]
    [] a.type = "noauth" -> [auth |-> NoAuth, notes |-> {}]
    [] a.type \in Plain -> [auth |-> [k |-> a.type, cred |-> a.cred], notes |-> {}]
    [] a.type = "apikey" ->
         [auth |-> [k |-> "apikey", cred |-> a.cred,
                    in |-> IF a.in = "query" THEN "query" ELSE "header"], notes |-> {}]
    [] a.type = "oauth2" /\ a.grant = "client_credentials" ->
         [auth |-> [k |-> "oauth2_client", cred |-> a.cred], notes |-> {}]
    [] a.type = "oauth2" /\ a.grant \in {"authorization_code", "authorization_code_with_pkce"} ->
         [auth |-> [k |-> "oauth2_code", cred |-> a.cred,
                    pkce |-> a.grant = "authorization_code_with_pkce"], notes |-> {}]
    [] OTHER -> [auth |-> NoAuth, notes |-> {"auth"}]

(* kv_rows: rows without a key are left out, a disabled one stays disabled. *)
KvRows(rows) ==
  LET keyed == SelectSeq(rows, LAMBDA r : r.key # None)
  IN [i \in DOMAIN keyed |-> [name |-> keyed[i].key, value |-> keyed[i].value,
                              on |-> ~keyed[i].disabled]]

(* parse_url: a url is a text or an object; the query of the text itself is
   cut off, the rows of the object become parameters. *)
PostmanUrl(u) ==
  CASE u.k = "text" -> [base |-> u.base, params |-> <<>>]
    [] OTHER ->
         [base |-> IF u.raw # None THEN u.raw.base ELSE u.host \o u.path,
          params |-> [i \in DOMAIN KvRows(u.query) |-> KvRows(u.query)[i] @@ [kind |-> "query"]]
                     \o [i \in DOMAIN KvRows(u.variable) |->
                           [KvRows(u.variable)[i] EXCEPT !.on = TRUE] @@ [kind |-> "path"]]]

(* parse_body. *)
RawLanguages == {"html", "yaml", "text"}
FormPart(r) ==
  [name |-> r.key, on |-> ~r.disabled,
   content |-> IF r.type = "file" THEN (IF r.src = <<>> THEN "" ELSE r.src[1]) ELSE r.value]
PostmanBody(b) ==
  LET got(x) == [body |-> x, notes |-> {}]
  IN CASE b = None -> got([k |-> "none"])
       [] b.disabled -> got([k |-> "none"])
       [] b.mode = "raw" ->
            got(CASE b.language \in {"json", "xml"} -> [k |-> b.language, text |-> b.text]
                  [] OTHER -> [k |-> "raw", text |-> b.text,
                               language |-> IF b.language \in RawLanguages THEN b.language
                                            ELSE "text"])
       [] b.mode = "urlencoded" -> got([k |-> "form", fields |-> KvRows(b.rows)])
       [] b.mode = "formdata" ->
            LET keyed == SelectSeq(b.rows, LAMBDA r : r.key # None)
            IN got([k |-> "multipart", parts |-> [i \in DOMAIN keyed |-> FormPart(keyed[i])]])
       [] b.mode = "graphql" -> got([k |-> "graphql", query |-> b.text])
       [] b.mode = "file" -> got([k |-> "binary", path |-> b.text])
       [] OTHER -> [body |-> [k |-> "none"], notes |-> {"body"}]

(* event_script: the first script of the kind that is enabled and not empty. *)
EventScript(events, listen) ==
  LET fit == SelectSeq(events, LAMBDA e : e.listen = listen /\ ~e.disabled /\ e.code # "")
  IN IF fit = <<>> THEN None ELSE fit[1].code
HooksFromEvents(events) ==
  [before_each |-> EventScript(events, "prerequest"), after_each |-> EventScript(events, "test")]

Methods == {"get", "post"}
PostmanRequest(item) ==
  LET r == item.request
      url == PostmanUrl(r.url)
      auth == PostmanAuth(r.auth)
      body == PostmanBody(r.body)
  IN IF r.k = "text"
     THEN [def |-> [name |-> item.name, method |-> "get", url |-> r.url.base, params |-> <<>>,
                    headers |-> <<>>, auth |-> Inherit, body |-> [k |-> "none"],
                    pre |-> None, post |-> None],
           notes |-> {}]
     ELSE [def |-> [name |-> item.name,
                    method |-> IF r.method \in Methods THEN r.method ELSE "get",
                    url |-> url.base, params |-> url.params, headers |-> KvRows(r.headers),
                    auth |-> auth.auth, body |-> body.body,
                    pre |-> EventScript(item.events, "prerequest"),
                    post |-> EventScript(item.events, "test")],
           notes |-> (IF r.method \in Methods THEN {} ELSE {"method"})
                       \cup auth.notes \cup body.notes
                       \cup (IF item.saved THEN {"responses"} ELSE {})]

(* parse_items: the tree as the flat sequence of what is read of it, in order:
   one entry per item, with its depth. *)
RECURSIVE ParseItems(_, _)
ParseItems(items, path) ==
  FlattenSeq([i \in DOMAIN items |->
    LET it == items[i]
        at == Append(path, it.name)
        auth == PostmanAuth(it.auth)
    IN CASE it.k = "folder" ->
              <<[k |-> "folder", path |-> at, auth |-> auth.auth,
                 hooks |-> HooksFromEvents(it.events), notes |-> auth.notes]>>
                \o ParseItems(it.items, at)
         [] it.k = "request" ->
              LET r == PostmanRequest(it)
              IN <<[k |-> "request", path |-> at, def |-> r.def, notes |-> r.notes]>>
         [] OTHER -> <<[k |-> "nothing", path |-> at, notes |-> {"item"}]>>])

(* parse_postman. *)
ParsePostman(root) ==
  IF root.name = "" \/ ~root.listed THEN [ok |-> FALSE]
  ELSE [ok |-> TRUE, hooks |-> HooksFromEvents(root.events),
        auth |-> PostmanAuth(root.auth).auth, items |-> ParseItems(root.items, <<>>),
        variables |-> {v \in root.variables : v.key # None}]

(* parse_postman_environment: secrets are declared in the environment, their
   values kept apart. *)
ParseEnvironment(root) ==
  IF root.values = None \/ root.name = "" THEN [ok |-> FALSE]
  ELSE LET keyed == SelectSeq(root.values, LAMBDA v : v.key # None)
           last(n) == CHOOSE i \in DOMAIN keyed :
                        keyed[i].key = n /\ \A j \in DOMAIN keyed : keyed[j].key = n => j <= i
           names == {keyed[i].key : i \in DOMAIN keyed}
           secretOnes == {i \in DOMAIN keyed : keyed[i].secret /\ keyed[i].value # ""}
       IN [ok |-> TRUE,
           variables |-> [n \in names |-> IF keyed[last(n)].secret THEN "secret"
                                          ELSE keyed[last(n)].value],
           secrets |-> [n \in {keyed[i].key : i \in secretOnes} |->
                          keyed[CHOOSE i \in secretOnes : keyed[i].key = n /\
                                  \A j \in secretOnes : keyed[j].key = n => j <= i].value]]

-----------------------------------------------------------------------------
(* Bruno. *)

(* parse_blocks: a block opens with its name in column 0 and ends with the
   first line that is its closing bracket alone. *)
ParseBlocks(lines) ==
  LET step(st, l) ==
        IF st.open = None
        THEN IF l.k = "open" /\ ~l.indented /\ l.name # ""
             THEN [st EXCEPT !.open = [name |-> l.name, bracket |-> l.bracket, lines |-> <<>>]]
             ELSE st
        ELSE IF l.k = "close" /\ ~l.indented /\ l.bracket = st.open.bracket
             THEN [open |-> None, blocks |-> Append(st.blocks, st.open)]
             ELSE [st EXCEPT !.open.lines = Append(@, l)]
      end == FoldLeft(step, [open |-> None, blocks |-> <<>>], lines)
  IN IF end.open = None THEN end.blocks ELSE Append(end.blocks, end.open)

(* as_dict: a tilde before the key disables the row. *)
AsDict(block) ==
  IF block.bracket = "[" THEN <<>>
  ELSE LET rows == SelectSeq(block.lines, LAMBDA l : l.k = "pair")
       IN [i \in DOMAIN rows |-> [name |-> rows[i].name, value |-> rows[i].value, on |-> ~rows[i].tilde]]
Named(blocks, name) == SelectSeq(blocks, LAMBDA b : b.name = name)
DictBlock(blocks, name) ==
  IF Named(blocks, name) = <<>> THEN <<>> ELSE AsDict(Named(blocks, name)[1])
TextBlock(blocks, name) ==
  IF Named(blocks, name) = <<>> THEN None ELSE Named(blocks, name)[1].lines
Field(rows, name) ==
  LET fit == SelectSeq(rows, LAMBDA r : r.name = name)
  IN IF fit = <<>> THEN None ELSE Last(fit).value

(* auth_from_blocks: the first auth block there is. *)
AuthKinds == [basic |-> "auth:basic", bearer |-> "auth:bearer", digest |-> "auth:digest",
              ntlm |-> "auth:ntlm", awsv4 |-> "auth:awsv4"]
AuthBlocks == {AuthKinds[k] : k \in Plain} \cup {"auth:apikey", "auth:oauth2", "auth:wsse"}
AuthFromBlocks(blocks) ==
  LET fit == SelectSeq(blocks, LAMBDA b : b.name \in AuthBlocks)
      rows == AsDict(fit[1])
      name == fit[1].name
      plain == {k \in Plain : AuthKinds[k] = name}
      grant == Field(rows, "grant_type")
      got(x) == [auth |-> x, notes |-> {}]
  IN CASE fit = <<>> -> got(Inherit)
       [] plain # {} -> got([k |-> CHOOSE k \in plain : TRUE, cred |-> rows])
       [] name = "auth:apikey" ->
            got([k |-> "apikey", cred |-> rows,
                 in |-> IF Field(rows, "placement") = "queryparams" THEN "query" ELSE "header"])
       [] name = "auth:oauth2" /\ grant = "client_credentials" ->
            got([k |-> "oauth2_client", cred |-> rows])
       [] name = "auth:oauth2" /\ grant = "authorization_code" ->
            got([k |-> "oauth2_code", cred |-> rows, pkce |-> Field(rows, "pkce") = "true"])
       [] OTHER -> [auth |-> NoAuth, notes |-> {"auth"}]

(* body_from_blocks: the block the verb names, else the first of all. *)
BodyBlocks == [json |-> "body:json", text |-> "body:text", sparql |-> "body:sparql",
               xml |-> "body:xml", form |-> "body:form-urlencoded",
               multipart |-> "body:multipart-form", graphql |-> "body:graphql", file |-> "body:file",
               vars |-> "body:graphql:vars", other |-> "body:other"]
BodyFromBlocks(blocks, selector) ==
  LET fits(b) == IF selector = None
                 THEN b.name = "body" \/ b.name \in {BodyBlocks[k] : k \in DOMAIN BodyBlocks \ {"vars"}}
                 ELSE \/ selector \in DOMAIN BodyBlocks /\ b.name = BodyBlocks[selector]
                      \/ selector = "json" /\ b.name = "body"
      fit == SelectSeq(blocks, fits)
      b == fit[1]
      got(x) == [body |-> x, notes |-> {}]
  IN CASE selector = "none" \/ fit = <<>> -> got([k |-> "none"])
       [] b.name \in {"body", "body:json"} -> got([k |-> "json", text |-> b.lines])
       [] b.name \in {"body:text", "body:sparql"} -> got([k |-> "raw", text |-> b.lines])
       [] b.name = "body:xml" -> got([k |-> "xml", text |-> b.lines])
       [] b.name = "body:form-urlencoded" -> got([k |-> "form", fields |-> AsDict(b)])
       [] b.name = "body:multipart-form" -> got([k |-> "multipart", parts |-> AsDict(b)])
       [] b.name = "body:graphql" ->
            got([k |-> "graphql", query |-> b.lines,
                 variables |-> TextBlock(blocks, "body:graphql:vars")])
       [] b.name = "body:file" ->
            LET files == SelectSeq(AsDict(b), LAMBDA r : r.value = "@file")
            IN got(IF files = <<>> THEN [k |-> "none"] ELSE [k |-> "binary", path |-> files[1].value])
       [] OTHER -> [body |-> [k |-> "none"], notes |-> {"body"}]

(* assertions_from_blocks, split_op: a comparison of the status, the time or
   the body; anything else is noted. *)
SplitOp(v) ==
  CASE v.op # None -> v
    [] v.rest \in {"isNull", "isDefined"} -> [op |-> v.rest, rest |-> ""]
    [] OTHER -> [op |-> "eq", rest |-> v.rest]
Numbers == {"200", "404"}
NumberOps == {"eq", "neq", "gt", "gte", "lt", "lte"}
ValueOps == NumberOps \cup {"contains", "matches"}
Assertion(r) ==
  LET v == SplitOp(r.value)
  IN CASE r.name = "res.status" /\ v.op \in NumberOps /\ v.rest \in Numbers ->
            [k |-> "status", op |-> v.op, value |-> v.rest]
       [] r.name = "res.responseTime" /\ v.op \in {"lt", "lte"} /\ v.rest \in Numbers ->
            [k |-> "time", max |-> v.rest]
       [] r.name = "res.body" /\ v.op \in ValueOps -> [k |-> "body", op |-> v.op, value |-> v.rest]
       [] OTHER -> None
AssertionsFromBlocks(blocks) ==
  LET rows == DictBlock(blocks, "assert")
      good == SelectSeq(rows, LAMBDA r : Assertion(r) # None)
  IN [checks |-> [i \in DOMAIN good |-> [check |-> Assertion(good[i]), on |-> good[i].on]],
      notes |-> {<<"assert", i>> : i \in {j \in DOMAIN rows : Assertion(rows[j]) = None}}]

(* extractors_from_blocks. *)
ExtractorsFromBlocks(blocks) ==
  LET rows == DictBlock(blocks, "vars:post-response")
      pre == DictBlock(blocks, "vars:pre-request")
  IN [vars |-> SelectSeq(rows, LAMBDA r : r.value = "res.body"),
      notes |-> {<<"var", i>> : i \in {j \in DOMAIN rows : rows[j].value # "res.body"}}
                  \cup {<<"pre", i>> : i \in DOMAIN pre}]

NoteScripts(blocks) ==
  {b.name : b \in {c \in ToSet(blocks) :
     c.name \in {"script:pre-request", "script:post-response", "tests"}
       /\ c = Named(blocks, c.name)[1] /\ c.lines # <<>>}}

(* parse_bru_request: the first verb, in the order of METHOD_BLOCKS. *)
MethodBlocks == <<"get", "post", "trace">>
NoSeq == 1000000
Position(meta) == IF Field(meta, "seq") = None THEN NoSeq ELSE Field(meta, "seq")
BruRequest(file) ==
  LET blocks == ParseBlocks(file.lines)
      meta == DictBlock(blocks, "meta")
      verbs == SelectSeq(MethodBlocks, LAMBDA v : Named(blocks, v) # <<>>)
      verb == DictBlock(blocks, verbs[1])
      fields == IF verbs = <<>> THEN <<>> ELSE verb
      auth == IF Field(fields, "auth") = "none" THEN [auth |-> NoAuth, notes |-> {}]
              ELSE AuthFromBlocks(blocks)
      body == BodyFromBlocks(blocks, Field(fields, "body"))
      checks == AssertionsFromBlocks(blocks)
      vars == ExtractorsFromBlocks(blocks)
  IN [k |-> "request", seq |-> Position(meta),
      name |-> IF Field(meta, "name") = None THEN file.name ELSE Field(meta, "name"),
      method |-> IF verbs # <<>> /\ verbs[1] \in Methods THEN verbs[1] ELSE "get",
      headers |-> DictBlock(blocks, "headers"),
      params |-> DictBlock(blocks, "params:query") \o DictBlock(blocks, "query")
                   \o DictBlock(blocks, "params:path"),
      auth |-> auth.auth, body |-> body.body, checks |-> checks.checks, vars |-> vars.vars,
      notes |-> (IF verbs # <<>> /\ verbs[1] \in Methods THEN {} ELSE {"method"})
                  \cup auth.notes \cup body.notes \cup checks.notes \cup vars.notes
                  \cup NoteScripts(blocks)]

(* read_dir_items: the entries as the file system lists them, then sorted by
   sequence number and name; a directory without any request and without
   folder.bru is not part of the collection. *)
(* is_ignored_dir; ".git" stands for every name that starts with a dot. *)
Ignored == {".git", "node_modules", "target", "dist", "build", "vendor", "venv", "coverage",
            "__pycache__", "tmp"}
Rank == [a |-> 1, b |-> 2, c |-> 3]   (* the order of the names in use *)
Sorted(entries) ==
  SortSeq(entries, LAMBDA x, y : x.seq < y.seq \/ (x.seq = y.seq /\ Rank[x.name] < Rank[y.name]))
RECURSIVE ReadDirItems(_, _)
ReadDirItems(dir, isRoot) ==
  LET folder(d) ==
        LET blocks == ParseBlocks(d.meta)
            meta == DictBlock(blocks, "meta")
            items == ReadDirItems(d.entries, FALSE)
            auth == AuthFromBlocks(blocks)
            entry == [k |-> "folder", seq |-> Position(meta),
                      name |-> IF Field(meta, "name") = None THEN d.name ELSE Field(meta, "name"),
                      auth |-> auth.auth, notes |-> auth.notes \cup NoteScripts(blocks),
                      items |-> items]
        IN IF d.meta # None THEN <<entry>>
           ELSE IF items = <<>> THEN <<>>
           ELSE <<[k |-> "folder", seq |-> NoSeq, name |-> d.name, auth |-> Inherit,
                   notes |-> {}, items |-> items]>>
      one(e) == CASE e.k = "dir" /\ ((isRoot /\ e.name = "environments") \/ e.name \in Ignored) -> <<>>
                  [] e.k = "dir" -> folder(e)
                  [] e.k = "bru" -> <<BruRequest(e)>>
                  [] OTHER -> <<>>
  IN Sorted(FlattenSeq([i \in DOMAIN dir |-> one(dir[i])]))

(* parse_bruno_environment, and import_bruno. *)
BrunoEnvironment(lines) ==
  LET blocks == ParseBlocks(lines)
      vars == DictBlock(blocks, "vars")
      declared == Named(blocks, "vars:secret")
      hidden == IF declared = <<>> \/ declared[1].bracket # "[" THEN {}
                ELSE {l.name : l \in ToSet(declared[1].lines)}
      names == {vars[i].name : i \in DOMAIN vars}
  IN [n \in names \cup hidden |-> IF n \in hidden THEN "secret" ELSE Field(vars, n)]
ImportBruno(root) ==
  IF ~root.marker THEN [ok |-> FALSE]
  ELSE LET blocks == ParseBlocks(root.collection)
       IN [ok |-> TRUE, auth |-> AuthFromBlocks(blocks).auth,
           notes |-> AuthFromBlocks(blocks).notes \cup NoteScripts(blocks),
           items |-> ReadDirItems(root.entries, TRUE),
           environments |-> [i \in DOMAIN root.environments |->
                               BrunoEnvironment(root.environments[i])]]

-----------------------------------------------------------------------------
(* The losses postman.rs does not report: a query inside the text of a url and
   scripts after the first of their kind. *)
SilentLoss(item) ==
  \/ item.request.k = "text" \/ item.request.url.k = "text"
  \/ \E l \in {"prerequest", "test"} :
       Len(SelectSeq(item.events, LAMBDA e : e.listen = l /\ ~e.disabled /\ e.code # "")) > 1

(* What a request loses on its way in is on the list of what was skipped
   (postman.rs:9, "What can't be mapped ... is reported"): its method, auth,
   body, or a row of a table. *)
LossesReported(item) ==
  LET got == PostmanRequest(item)
      d == got.def
      r == item.request
      keyed(rows) == Len(SelectSeq(rows, LAMBDA x : x.key # None))
  IN ~SilentLoss(item) =>
       /\ d.method # r.method => "method" \in got.notes
       /\ r.auth # None /\ r.auth.type # "noauth" /\ d.auth.k = "none" => "auth" \in got.notes
       /\ r.body # None /\ ~r.body.disabled /\ d.body.k = "none" => "body" \in got.notes
       /\ item.saved => "responses" \in got.notes
       /\ Len(d.headers) = keyed(r.headers)
       /\ Len(d.params) = keyed(r.url.query) + keyed(r.url.variable)

(* Every item of a collection becomes one item or one note, in the order of
   the file and under the folders it was in. *)
RECURSIVE Paths(_, _)
Paths(items, path) ==
  FlattenSeq([i \in DOMAIN items |->
    <<Append(path, items[i].name)>>
      \o (IF items[i].k = "folder" THEN Paths(items[i].items, Append(path, items[i].name)) ELSE <<>>)])
ItemsKept(root) ==
  LET got == ParsePostman(root)
  IN got.ok => /\ [i \in DOMAIN got.items |-> got.items[i].path] = Paths(root.items, <<>>)
               /\ \A i \in DOMAIN got.items : got.items[i].k = "nothing" => got.items[i].notes # {}

(* A secret of an imported environment leaves no value in the file that is
   committed, and none of its values is lost. *)
SecretsApart(root) ==
  LET got == ParseEnvironment(root)
  IN got.ok => \A i \in DOMAIN root.values :
       LET v == root.values[i]
       IN v.key # None /\ (\A j \in DOMAIN root.values : root.values[j].key = v.key => j = i) =>
            IF v.secret
            THEN /\ got.variables[v.key] = "secret"
                 /\ v.value # "" => got.secrets[v.key] = v.value
            ELSE got.variables[v.key] = v.value /\ v.key \notin DOMAIN got.secrets

(* The order in which the file system lists a Bruno directory is not the order
   of the collection, nor does it decide what is part of it. *)
ListingIrrelevant(root) ==
  \A s \in SetToSeqs(ToSet(root.entries)) :
    ImportBruno([root EXCEPT !.entries = s]) = ImportBruno(root)

(* What Bruno's writer puts into blocks comes back block by block, however the
   lines of a body look as long as they are indented; and the body a request
   sends is the one its verb names. *)
BlocksKept(written) ==
  LET lines == FlattenSeq([i \in DOMAIN written |->
                 <<[k |-> "open", name |-> written[i].name, bracket |-> written[i].bracket,
                    indented |-> FALSE]>> \o written[i].lines
                   \o <<[k |-> "close", bracket |-> written[i].bracket, indented |-> FALSE]>>])
      read == ParseBlocks(lines)
  IN /\ read = written
     /\ \A s \in {w.name : w \in ToSet(written)} \cap {"body:json", "body:xml"} :
          LET kind == IF s = "body:json" THEN "json" ELSE "xml"
          IN BodyFromBlocks(read, kind).body = [k |-> kind, text |-> Named(written, s)[1].lines]
===============================================================================
