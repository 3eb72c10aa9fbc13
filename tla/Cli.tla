---------------------------------- MODULE Cli ----------------------------------
(***************************************************************************)
(* The command line (forge-cli/src/main.rs) and the mock server it hosts    *)
(* (reqv1/mock.rs).  A command is a function of the files it finds and of   *)
(* its arguments; what it does is its exit code and what it executed.       *)
(*                                                                         *)
(* A path is a sequence of names, absolute if it begins with "/".  A disk   *)
(* maps the absolute paths of files, without the "/", to nodes              *)
(* [type, to, doc]: a "file" with the document it holds, or a symbolic      *)
(* "link" to the path to.  A world is                                       *)
(*   [disk, cwd, envs, lock, locals, process].                              *)
(***************************************************************************)
EXTENDS Naturals, Sequences, FiniteSets, SequencesExt

CONSTANTS
  Names,          (* the names of files and directories, in their order *)
  RequestNames,   (* the names that end in .request.json *)
  IgnoredNames,   (* hidden directories, and those of dependencies or builds *)
  None

-----------------------------------------------------------------------------
(* std::path and std::fs *)

IsAbsolute(path) == path # <<>> /\ path[1] = "/"
Join(base, path) == IF IsAbsolute(path) THEN path ELSE base \o path
Real(world, path) ==
  LET Down(at, name) ==
        LET next == Append(at, name)
        IN CASE name = ".." -> IF at = <<>> THEN at ELSE Front(at)
             [] next \in DOMAIN world.disk /\ world.disk[next].type = "link" ->
                  world.disk[next].to
             [] OTHER -> next
  IN FoldLeft(Down, <<>>, Tail(Join(world.cwd, path)))
IsFile(world, path) == Real(world, path) \in DOMAIN world.disk
IsDir(world, path) ==
  \E f \in DOMAIN world.disk : IsStrictPrefix(Real(world, path), f)
Exists(world, path) == IsFile(world, path) \/ IsDir(world, path)
DocAt(world, path) == world.disk[Real(world, path)].doc
Under(world, path, root) == IsPrefix(Real(world, root), Real(world, path))
Rank(name) == CHOOSE i \in 1..Len(Names) : Names[i] = name
Precedes(p, q) ==
  \/ IsStrictPrefix(p, q)
  \/ \E i \in 1..Len(p) : /\ i <= Len(q) /\ SubSeq(p, 1, i - 1) = SubSeq(q, 1, i - 1)
                          /\ Rank(p[i]) < Rank(q[i])

-----------------------------------------------------------------------------
(* The selection of request documents *)

IsV1RequestFile(path) == Last(path) \in RequestNames
V1RootFor(world, request, override) ==
  LET top == IF IsAbsolute(request) THEN 1 ELSE 0
      above == {d \in top..Len(request) :
                  /\ d < Len(request) \/ IsDir(world, request)
                  /\ Exists(world, Append(SubSeq(request, 1, d), "project.json"))}
      parent == IF request = <<>> THEN <<>> ELSE Front(request)
  IN CASE override # None -> override
       [] override = None /\ above # {} ->
            SubSeq(request, 1, CHOOSE d \in above : \A e \in above : e <= d)
       [] OTHER -> parent

(* collect_v1_requests: a folder is scanned without following links and
   without entering the directories that are never a project's own. *)
CollectV1Requests(world, target) ==
  LET real == Real(world, target)
      Inside(f) ==
        /\ IsStrictPrefix(real, f) /\ world.disk[f].type = "file" /\ IsV1RequestFile(f)
        /\ \A i \in (Len(real) + 1)..(Len(f) - 1) : f[i] \notin IgnoredNames
  IN IF IsFile(world, target)
     THEN [ok |-> IsV1RequestFile(target), found |-> {target}]
     ELSE [ok |-> IsDir(world, target),
           found |-> {target \o SubSeq(f, Len(real) + 1, Len(f)) :
                        f \in {g \in DOMAIN world.disk : Inside(g)}}]

Nothing == [ok |-> FALSE, root |-> <<>>, requests |-> <<>>, batch |-> FALSE]
IsRegression(world, f) == DocAt(world, f).parses /\ DocAt(world, f).regression
ResolveV1Targets(world, targets, override, regression) ==
  LET seed == CASE targets # <<>> -> Join(world.cwd, targets[1])
                [] targets = <<>> /\ override # None -> Join(world.cwd, override)
                [] OTHER -> world.cwd
      root == V1RootFor(world, seed, override)
      effective == IF targets = <<>> THEN <<Append(root, "requests")>>
                   ELSE [i \in DOMAIN targets |-> Join(root, targets[i])]
      each == {CollectV1Requests(world, t) : t \in ToSet(effective)}
      found == UNION {e.found : e \in each}
      kept == {f \in found : regression => IsRegression(world, f)}
      ok == /\ targets # <<>> \/ regression
            /\ IsFile(world, Append(root, "project.json"))
            /\ \A e \in each : e.ok
            /\ \A f \in found : Under(world, f, root)
            /\ regression => \A f \in found : DocAt(world, f).parses
            /\ kept # {}
  IN IF ok THEN [ok |-> TRUE, root |-> root,
                 requests |-> SetToSortSeq(kept, Precedes),
                 batch |-> regression \/ \E t \in ToSet(effective) : IsDir(world, t)]
     ELSE Nothing

-----------------------------------------------------------------------------
(* Commands whose exit code is that of the first step that fails *)

Step(name, ok, code) == [name |-> name, ok |-> ok, code |-> code]
Failing(steps) == {i \in DOMAIN steps : ~steps[i].ok}
FirstFailure(steps) == CHOOSE i \in Failing(steps) : \A j \in Failing(steps) : i <= j
ExitCode(steps) == IF Failing(steps) = {} THEN 0 ELSE steps[FirstFailure(steps)].code

EnvironmentLoads(world, doc, env) ==
  IF env # None THEN env \in world.envs ELSE doc.env = None \/ doc.env \in world.envs
CmdValidate(world, args) ==
  LET doc == DocAt(world, args.request) IN
  <<Step("read", IsFile(world, args.request) /\ doc.parses, 2),
    Step("environment", EnvironmentLoads(world, doc, args.env), 2),
    Step("valid", doc.valid, 1)>>
CmdLock(x) ==
  IF x.check
  THEN <<Step("read", x.lock # "none", 2), Step("scan", x.scans, 2),
         Step("drift", x.lock = "clean", 1)>>
  ELSE <<Step("scan", x.scans, 2), Step("write", x.writes, 2)>>
CmdMock(x) ==
  <<Step("scan", x.allow \/ x.scans, 2), Step("consent", x.allow \/ ~x.code, 2),
    Step("environment", x.env, 2), Step("routes", x.scans /\ x.routes, 2),
    Step("bind", x.binds, 2)>>
CmdMigrate(x) ==
  <<Step("read", x.reads, 2), Step("converts", x.converts, 1)>>
  \o IF x.output = None THEN <<>>
     ELSE <<Step("exists", x.output # "exists", 2), Step("write", x.writes, 2)>>
CmdMigrateAll(x) ==
  <<Step("scan", x.scans, 2), Step("blocked", ~x.blocked, 1)>>
CmdExport(x) == <<Step("export", x.writes, 2)>>
CmdImport(x) == <<Step("import", x.writes, 2)>>
CmdReport(x) ==
  <<Step("scan", x.scans, 2), Step("history", x.reads, 2),
    Step("write", x.output = None \/ x.writes, 2)>>
CmdAssets(x) == <<Step("scan", x.scans, 2), Step("broken", ~x.broken, 1)>>
CmdGrpcList(x) == <<Step("protos", x.reads, 2)>>
CmdGrpcCall(x) ==
  <<Step("protos", x.reads, 2), Step("data", x.converts, 2),
    Step("metadata", x.metadata, 2), Step("call", x.tests = "passed", 1)>>
ParseScope(rel) ==
  CASE rel = None -> "workspace"
    [] rel # None /\ Last(rel) \in RequestNames -> "request"
    [] rel # None /\ Last(rel) \notin RequestNames /\ Len(rel) = 2 /\ rel[1] = "collections" ->
         "collection"
    [] OTHER -> "folder"
ParseDataSource(extension) == extension \in {"csv", "json"}
CmdRun(x) ==
  <<Step("load", x.reads, 2), Step("data", x.data = None \/ ParseDataSource(x.data), 2),
    Step("run", x.tests # "aborted", 2),
    Step("report", x.output = None \/ x.writes, 2), Step("tests", x.tests = "passed", 1)>>
CmdList(x) == <<Step("load", x.reads, 2)>>
CmdEnvs(x) == <<Step("load", x.reads, 2)>>

-----------------------------------------------------------------------------
(* cmd_run_v1: a document is [parses, valid, code, regression, env, matrix,
   resolves, statuses], statuses those of its cases (of its one run without
   a matrix); the project file is [parses, auth]. *)

Project(world, root) == DocAt(world, Append(root, "project.json"))
AuthConsent(world, root) ==
  LET auth == Join(root, Project(world, root).auth) IN
  /\ Project(world, root).parses
  /\ Project(world, root).auth # <<>> =>
       /\ IsFile(world, auth) /\ Under(world, auth, root)
       /\ DocAt(world, auth).parses /\ ~DocAt(world, auth).code
Gates(world, sel, batch, args) ==
  LET docs == [i \in DOMAIN sel.requests |-> DocAt(world, sel.requests[i])] IN
  /\ \A i \in DOMAIN docs : docs[i].parses /\ (args.allow \/ ~docs[i].code)
  /\ args.allow \/ AuthConsent(world, sel.root)
  /\ ~batch /\ Len(docs) > 1 => \A i \in DOMAIN docs : ~docs[i].matrix
  /\ args.frozen => world.lock = "clean"
  /\ \A i \in DOMAIN docs : EnvironmentLoads(world, docs[i], args.env)

(* resolve_cases: a matrix whose bindings do not resolve refuses the run. *)
Cases(doc) == IF doc.matrix THEN doc.statuses ELSE <<doc.statuses[1]>>
Refuses(world, root, doc) == ~Project(world, root).parses \/ (doc.matrix /\ ~doc.resolves)
Sequenced(world, sel, doc) == IF Project(world, sel.root).parses THEN Cases(doc) ELSE <<"error">>
(* Variant: a blocked request counts as a failed check. *)
WorstFailed(statuses) == IF statuses \subseteq {"passed"} THEN 0 ELSE 1
Worst(statuses) ==
  CASE "error" \in statuses -> 2
    [] "error" \notin statuses /\ "failed" \in statuses -> 1
    [] OTHER -> 0
Exit(code, ran) == [code |-> code, ran |-> ran]
Execute(world, sel, batch) ==
  LET Of(i) == DocAt(world, sel.requests[i])
      refusing == {i \in DOMAIN sel.requests :
                     (batch \/ Len(sel.requests) = 1) /\ Refuses(world, sel.root, Of(i))}
      last == IF refusing = {} THEN Len(sel.requests)
              ELSE (CHOOSE i \in refusing : \A j \in refusing : i <= j) - 1
      ran == FlattenSeq([i \in 1..last |->
               LET cases == IF batch \/ Len(sel.requests) = 1 THEN Cases(Of(i))
                            ELSE Sequenced(world, sel, Of(i))
               IN [k \in DOMAIN cases |-> [file |-> sel.requests[i], status |-> cases[k]]]])
  IN Exit(IF refusing # {} THEN 2 ELSE Worst({ran[i].status : i \in DOMAIN ran}), ran)
CmdRunV1(world, args, forceBatch) ==
  LET sel == ResolveV1Targets(world, args.targets, args.root, args.regression)
      batch == sel.batch \/ forceBatch
  IN IF sel.ok /\ Gates(world, sel, batch, args) THEN Execute(world, sel, batch)
     ELSE Exit(2, <<>>)
(* cmd_run_sequence; resolve_files puts the root before each entry. *)
CmdRunSequence(world, args) ==
  LET root == V1RootFor(world, args.sequence, args.root)
      seq == DocAt(world, args.sequence)
      files == [i \in DOMAIN seq.requests |-> root \o seq.requests[i]]
      ok == /\ IsFile(world, args.sequence) /\ seq.parses
            /\ seq.requests # <<>>
            /\ \A i \in DOMAIN files :
                 /\ ~IsAbsolute(seq.requests[i]) /\ ".." \notin ToSet(seq.requests[i])
                 /\ IsV1RequestFile(files[i]) /\ IsFile(world, files[i])
  IN IF ok THEN CmdRunV1(world, [args EXCEPT !.targets = files, !.root = root, !.regression = FALSE], FALSE)
     ELSE Exit(2, <<>>)

(* .env.local is a sequence of lines [key, value], a value [text, quotes]; a
   pair of quotes is dropped, a single one kept; the last line of a key
   counts. *)
Unquoted(value) == IF value.quotes = "opened" THEN <<"'">> \o value.text ELSE value.text
LoadFileSecrets(lines) ==
  LET at == {i \in DOMAIN lines : lines[i].key \notin {None, ""}}
      Line(k) == CHOOSE i \in at : lines[i].key = k /\ \A j \in at : lines[j].key = k => j <= i
  IN [k \in {lines[i].key : i \in at} |-> Unquoted(lines[Line(k)].value)]
MakeSecretProvider(world, name) ==
  LET file == LoadFileSecrets(world.locals)
  IN CASE name \in DOMAIN file -> file[name]
       [] name \notin DOMAIN file /\ name \in DOMAIN world.process -> world.process[name]
       [] OTHER -> None

-----------------------------------------------------------------------------
(* mock.rs: a url, a template and a path are sequences of tokens, "/", "?",
   "://", ":", "${" or words.  A document is [id, method, url, needs, mock],
   needs the names of the environment it reads; a mock is None,
   [form |-> "static", status] or [form |-> "dynamic", status], the status
   None if the asset fails. *)

Cut(tokens, at) ==
  LET found == {i \in DOMAIN tokens : tokens[i] = at}
  IN IF found = {} THEN tokens
     ELSE SubSeq(tokens, 1, (CHOOSE i \in found : \A j \in found : i <= j) - 1)
From(tokens, at) == SubSeq(tokens, Len(Cut(tokens, at)) + 1, Len(tokens))
UrlPath(url) ==
  LET rest == IF "://" \in ToSet(url) THEN Cut(Tail(From(url, "://")), "://") ELSE url
      path == IF "/" \in ToSet(rest) THEN From(rest, "/") ELSE <<"/">>
  IN Cut(path, "?")
(* The segments between slashes, the empty ones dropped. *)
Segments(path) ==
  LET Put(parts, token) ==
        IF token = "/" THEN Append(parts, <<>>)
        ELSE [parts EXCEPT ![Len(parts)] = Append(@, token)]
  IN SelectSeq(FoldLeft(Put, << <<>> >>, path), LAMBDA part : part # <<>>)
Wild == <<":", "*">>
ParsePattern(path) ==
  LET parts == Segments(path)
  IN [i \in DOMAIN parts |->
        IF parts[i][1] = ":" \/ "${" \in ToSet(parts[i]) THEN Wild ELSE parts[i]]
PathHasWildcard(pattern) == Wild \in ToSet(pattern)
PatternMatches(pattern, incoming) ==
  /\ Len(pattern) = Len(incoming)
  /\ \A i \in DOMAIN pattern : pattern[i] \in {Wild, incoming[i]}
SegStr(pattern) ==
  IF pattern = <<>> THEN <<"/">>
  ELSE FlattenSeq([i \in DOMAIN pattern |-> <<"/">> \o pattern[i]])

Route(method, path, doc) == [method |-> method, pattern |-> ParsePattern(path), doc |-> doc]
ById(docs, id) ==
  LET at == {i \in DOMAIN docs : docs[i].id = id}
  IN docs[CHOOSE i \in at : \A j \in at : j <= i]
Valid(doc, env) == doc.needs \subseteq env \cup {"baseUrl"}
MockScan(docs, overrides, env) ==
  LET mocking == SelectSeq(docs, LAMBDA d : d.mock # None)
      derived == [i \in DOMAIN mocking |->
                    Route(mocking[i].method, UrlPath(mocking[i].url), mocking[i])]
      Over(routes, o) ==
        Append(SelectSeq(routes, LAMBDA r : ~(r.method = o.method /\ SegStr(r.pattern) = o.path)),
               Route(o.method, o.path, ById(docs, o.request)))
      ok == /\ \A i \in DOMAIN mocking : Valid(mocking[i], env)
            /\ \A i \in DOMAIN overrides :
                 \E k \in DOMAIN docs : docs[k].id = overrides[i].request
  IN [ok |-> ok, routes |-> IF ok THEN FoldLeft(Over, derived, overrides) ELSE <<>>]

Answer(status, by) == [status |-> status, by |-> by]
(* render_mock: the status of a script is cut to 16 bits. *)
RenderMock(doc) ==
  CASE doc.mock = None -> None
    [] doc.mock # None /\ doc.mock.form = "static" -> doc.mock.status
    [] doc.mock # None /\ doc.mock.form = "dynamic" ->
         IF doc.mock.status = None THEN None ELSE doc.mock.status % 65536
Handle(routes, method, url, env) ==
  LET incoming == Segments(Cut(url, "?"))
      Fits(wildcard) ==
        SelectSeq(routes, LAMBDA r : /\ PathHasWildcard(r.pattern) = wildcard /\ r.method = method
                                     /\ PatternMatches(r.pattern, incoming))
      matched == Fits(FALSE) \o Fits(TRUE)
  IN CASE matched = <<>> -> Answer(404, None)
       [] matched # <<>> /\ (~Valid(matched[1].doc, env) \/ RenderMock(matched[1].doc) = None) ->
            Answer(500, matched[1].doc.id)
       [] OTHER -> Answer(RenderMock(matched[1].doc), matched[1].doc.id)

-----------------------------------------------------------------------------
(* Properties *)

(* What a run of documents selects, executes and tells fit together
   (cli.md:25-49, 155-165): every document executed is a request document of
   the project, none of them is project code that was not consented to, none
   runs when the lock is asked for and has drifted, with --regression only
   regression documents run, and each document at most once, in the order of
   their paths.  The exit code is 0 only if every document was executed and
   every case passed, 1 only if all were executed and one failed. *)
Executed(o) == {o.ran[i].file : i \in DOMAIN o.ran}
RunIsHonest(world, args, force) ==
  LET o == CmdRunV1(world, args, force)
      root == ResolveV1Targets(world, args.targets, args.root, args.regression)
      statuses == {o.ran[i].status : i \in DOMAIN o.ran}
      asked == {f \in ToSet(root.requests) : Cases(DocAt(world, f)) # <<>>}
  IN /\ \A f \in Executed(o) :
          /\ IsFile(world, f) /\ Last(f) \in RequestNames /\ Under(world, f, root.root)
          /\ DocAt(world, f).code => args.allow
          /\ args.regression => DocAt(world, f).regression
     /\ args.frozen /\ Executed(o) # {} => world.lock = "clean"
     /\ \A i \in 2..Len(o.ran) :
          o.ran[i - 1].file = o.ran[i].file \/ Precedes(o.ran[i - 1].file, o.ran[i].file)
     /\ o.code \in {0, 1} => Executed(o) = asked /\ "error" \notin statuses
     /\ o.code = 0 <=> o.code # 2 /\ "failed" \notin statuses

(* A folder stands for the request documents below it: naming a folder, or
   naming it along with documents of it, selects the same documents as naming
   each of them (cli.md:25-31). *)
FolderIsItsDocuments(world, folder, root) ==
  LET whole == ResolveV1Targets(world, <<folder>>, root, FALSE)
      Sel(targets) == ResolveV1Targets(world, targets, root, FALSE)
  IN whole.ok /\ IsAbsolute(whole.root) =>
       /\ Sel(whole.requests).requests = whole.requests
       /\ \A i \in DOMAIN whole.requests :
            Sel(<<folder, whole.requests[i]>>).requests = whole.requests

(* A persisted sequence executes the documents it declares, when the root is
   given as an absolute path; declared order and repetitions are not kept. *)
SequenceRunsItsOwn(world, args) ==
  LET o == CmdRunSequence(world, args)
      root == V1RootFor(world, args.sequence, args.root)
      declared == {root \o e : e \in ToSet(DocAt(world, args.sequence).requests)}
  IN IsFile(world, args.sequence) /\ IsAbsolute(root) =>
       /\ Executed(o) \subseteq declared
       /\ o.code # 2 => Executed(o) = declared

(* The exit status contract (cli.md:155-161): 1 tells that the command
   completed and a check failed, 2 that it could not be completed. *)
CompletedChecks == {"valid", "drift", "converts", "blocked", "broken", "call", "tests"}
ExitContract(steps) ==
  Failing(steps) # {} =>
    (ExitCode(steps) = 1 <=> steps[FirstFailure(steps)].name \in CompletedChecks)

(* The server answers a request with the mock of a route that matches it, one
   without wildcards before one with; a path that an override names literally
   is answered by the last such override (mock.rs:115-116, 182); and a server
   that started does not fail on a static mock. *)
MocksAnswer(docs, overrides, env, method, url) ==
  LET scan == MockScan(docs, overrides, env)
      got == Handle(scan.routes, method, url, env)
      incoming == Segments(Cut(url, "?"))
      Path(d) == UrlPath(d.url)
      literal == {i \in DOMAIN docs : /\ docs[i].mock # None /\ docs[i].method = method
                                      /\ ~PathHasWildcard(ParsePattern(Path(docs[i])))
                                      /\ Segments(Path(docs[i])) = incoming}
      over == {i \in DOMAIN overrides : /\ overrides[i].method = method
                                         /\ overrides[i].path = SegStr(incoming)}
      Mocked(i) == ById(docs, overrides[i].request).mock # None
  IN scan.ok =>
       /\ over # {} =>
            LET o == overrides[CHOOSE i \in over : \A j \in over : j <= i]
            IN got.by = o.request
       /\ over = {} /\ literal # {} => \E i \in literal : got.by = docs[i].id
       /\ got.status = 500 =>
            LET d == ById(docs, got.by)
            IN ~Valid(d, env) \/ d.mock = None \/ d.mock.form = "dynamic"

(* A secret read from .env.local is the one of the last line that names it,
   and it wins over the environment of the process (main.rs:735-741). *)
FileSecretWins(world, name) ==
  \A i \in DOMAIN world.locals :
    LET line == world.locals[i] IN
    /\ line.key = name /\ name # ""
    /\ \A j \in (i + 1)..Len(world.locals) : world.locals[j].key # name
    => MakeSecretProvider(world, name) \in {line.value.text, <<"'">> \o line.value.text}
================================================================================
