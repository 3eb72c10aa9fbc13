--------------------------------- MODULE MCCli ---------------------------------
(* Inputs of Cli: projects of a few documents, command lines, step outcomes,
   and mock routes. *)
EXTENDS Cli

Doc(parses, code, regression, matrix, statuses) ==
  [parses |-> parses, code |-> code, regression |-> regression, matrix |-> matrix,
   resolves |-> TRUE, statuses |-> statuses, env |-> None, valid |-> parses]
Plain == Doc(TRUE, FALSE, FALSE, FALSE, <<"passed">>)
Docs == {Plain, Doc(TRUE, FALSE, TRUE, FALSE, <<"failed">>), Doc(TRUE, TRUE, TRUE, FALSE, <<"passed">>),
         Doc(FALSE, FALSE, FALSE, FALSE, <<"error">>), Doc(TRUE, FALSE, TRUE, TRUE, <<"passed", "error">>),
         Doc(TRUE, FALSE, TRUE, TRUE, <<>>), [Doc(TRUE, FALSE, FALSE, TRUE, <<"passed">>) EXCEPT !.resolves = FALSE],
         [Plain EXCEPT !.env = "dev"]}
File(doc) == [type |-> "file", to |-> <<>>, doc |-> doc]
Link(to) == [type |-> "link", to |-> to, doc |-> None]
Project1(parses, auth) == File([parses |-> parses, auth |-> auth])
Sequence1(requests) == File([parses |-> TRUE, requests |-> requests])
P == <<"p">>
Rq == <<"p", "requests">>
Base(a, b, project, seq) ==
  (Append(P, "project.json") :> project @@ Append(Rq, "a.r") :> File(a) @@ Rq \o <<"d", "b.r">> :> File(b)
   @@ Rq \o <<"target", "b.r">> :> File(Plain) @@ Append(Rq, "link") :> Link(<<"out">>)
   @@ Append(Rq, "link.r") :> Link(<<"out", "a.r">>) @@ Append(Rq, "other") :> File(Plain)
   @@ <<"out", "a.r">> :> File(Plain) @@ Append(P, "s") :> seq)
Seqs == {Sequence1(q) : q \in {<<<<"requests", "a.r">>>>, <<<<"requests", "d", "b.r">>, <<"requests", "a.r">>>>,
                               <<<<"..", "out", "a.r">>>>, <<>>}}
World(disk, cwd, lock) ==
  [disk |-> disk, cwd |-> cwd, envs |-> {"prod"}, lock |-> lock, locals |-> <<>>, process |-> << >>]
Abs(path) == <<"/">> \o path
Worlds == {World(Base(a, b, project, CHOOSE s \in Seqs : TRUE), Abs(P), "drift") : a \in Docs, b \in Docs,
             project \in {Project1(TRUE, <<>>), Project1(TRUE, <<"requests", "a.r">>)}}
Places(seqs) == {World(Base(a, Plain, project, s), cwd, lock) : a \in {Plain, Doc(TRUE, FALSE, TRUE, TRUE, <<"failed">>)},
             project \in {Project1(TRUE, <<>>), Project1(FALSE, <<>>), Project1(TRUE, <<"..", "out", "a.r">>)},
             s \in seqs, cwd \in {Abs(<<>>), Abs(P), Abs(Rq)}, lock \in {"clean", "drift"}}
Targets == {<<>>, <<<<"requests">>>>, <<<<"requests", "a.r">>>>, <<<<"requests", "d", "b.r">>, <<"requests", "a.r">>>>,
            <<<<"requests", "d">>, <<"requests", "d", "b.r">>>>, <<<<"requests", "link.r">>>>, <<<<"requests", "other">>>>,
            <<Abs(Append(Rq, "a.r"))>>, <<Abs(<<"out">>)>>, <<<<"requests", "link">>>>, <<<<"..", "out", "a.r">>>>}
Args(targets, root, regression, env, frozen, allow) ==
  [targets |-> targets, root |-> root, regression |-> regression, env |-> env, frozen |-> frozen,
   allow |-> allow, sequence |-> <<"s">>, request |-> <<"requests", "a.r">>]
Roots == {None, <<>>, P, Abs(P), Abs(<<"out">>)}

Flags == [check |-> BOOLEAN, lock |-> {"clean", "drift", "none"}, scans |-> BOOLEAN, writes |-> BOOLEAN, allow |-> BOOLEAN,
          code |-> BOOLEAN, env |-> BOOLEAN, routes |-> BOOLEAN, binds |-> BOOLEAN, reads |-> BOOLEAN, converts |-> BOOLEAN,
          blocked |-> BOOLEAN, broken |-> BOOLEAN, metadata |-> BOOLEAN, output |-> {None, "new", "exists"},
          data |-> {None, "csv", "txt"}, tests |-> {"passed", "failed", "aborted"}]
AllHold == [check |-> TRUE, lock |-> "clean", scans |-> TRUE, writes |-> TRUE, allow |-> FALSE, code |-> FALSE, env |-> TRUE,
            routes |-> TRUE, binds |-> TRUE, reads |-> TRUE, converts |-> TRUE, blocked |-> FALSE, broken |-> FALSE,
            metadata |-> TRUE, output |-> "new", data |-> "csv", tests |-> "passed"]
Situations == UNION {{[AllHold EXCEPT ![f] = v, ![g] = w] : v \in Flags[f], w \in Flags[g]} : f, g \in DOMAIN Flags}
Steps(command, x) ==
  CASE command = "lock" -> CmdLock(x) [] command = "mock" -> CmdMock(x) [] command = "migrate" -> CmdMigrate(x)
    [] command = "migrate-all" -> CmdMigrateAll(x) [] command = "export" -> CmdExport(x) [] command = "import" -> CmdImport(x)
    [] command = "report" -> CmdReport(x) [] command = "assets" -> CmdAssets(x) [] command = "grpc-list" -> CmdGrpcList(x)
    [] command = "grpc-call" -> CmdGrpcCall(x) [] command = "run" -> CmdRun(x) [] command = "list" -> CmdList(x)
    [] command = "envs" -> CmdEnvs(x)
Commands == {"lock", "mock", "migrate", "migrate-all", "export", "import", "report", "assets", "grpc-list", "grpc-call", "run", "list", "envs"}

Mocks == {None, [form |-> "static", status |-> 200], [form |-> "dynamic", status |-> 65736], [form |-> "dynamic", status |-> None]}
Urls == {<<"://", "h", "/", "u">>, <<"://", "h", "/", "u", "?", "x">>, <<"://", "h", "/", ":", "id">>, <<"://", "h">>,
         <<"://", "h", "/", "u", "/", "u">>, <<"h", "/", "u">>}
MockDocs == {[id |-> "r1", method |-> "GET", url |-> u, needs |-> n, mock |-> m] :
               u \in Urls, n \in {{"baseUrl"}, {"token"}}, m \in Mocks}
Simple == {d \in MockDocs : d.needs = {"baseUrl"} /\ d.mock \in {None, [form |-> "static", status |-> 200]}}
Overrides == {[method |-> m, path |-> p, request |-> "r1"] : m \in {"GET", "POST"},
                p \in {<<"/", "u">>, <<"/", ":", "id">>, <<"/", "u", "/">>}}
Asked == {<<"/", "u">>, <<"/", "v", "?", "x">>, <<"/">>, <<"/", "u", "/", "u">>}
Lists(of, n) == UNION {[1..k -> of] : k \in 0..n}
Values == [text : {<<"t">>, <<>>}, quotes : {"none", "double", "opened"}]
Lines == [key : {None, "", "TOKEN"}, value : Values]

Inputs == <<
  {<<"run", [world |-> w, args |-> Args(t, None, r, e, FALSE, l), force |-> b]>> : w \in Worlds, t \in Targets,
     r \in BOOLEAN, e \in {None, "prod"}, l \in BOOLEAN, b \in BOOLEAN},
  {<<"run", [world |-> w, args |-> Args(t, o, r, None, z, FALSE), force |-> FALSE]>> : w \in Places({Sequence1(<<>>)}), t \in Targets, o \in Roots,
     r \in BOOLEAN, z \in BOOLEAN},
  {<<"folder", [world |-> w, folder |-> f, root |-> o]>> : w \in Places({Sequence1(<<>>)}), f \in {<<"requests">>, <<"requests", "d">>, Abs(Rq)}, o \in {P, Abs(P), None}},
  {<<"sequence", [world |-> w, args |-> Args(<<>>, o, FALSE, None, FALSE, FALSE)]>> : w \in Places(Seqs), o \in Roots},
  {<<"validate", [world |-> w, args |-> Args(<<>>, None, FALSE, e, FALSE, FALSE)]>> : w \in Worlds, e \in {None, "prod", "dev"}},
  {<<"command", [command |-> c, x |-> x]>> : c \in Commands, x \in Situations},
  {<<"mock", [docs |-> <<d, [e EXCEPT !.id = "r2"]>>, over |-> o, url |-> u]>> :
     d \in Simple, e \in Simple, o \in Lists(Overrides, 1), u \in Asked},
  {<<"mock", [docs |-> <<d>>, over |-> o, url |-> u]>> : d \in MockDocs, o \in Lists(Overrides, 2), u \in Asked},
  {<<"secret", [World(<< >>, Abs(P), "none") EXCEPT !.locals = l, !.process = p]>> : l \in Lists(Lines, 2),
     p \in {<< >>, [n \in {"TOKEN"} |-> <<"process">>]}}>>

Holds(topic, in) ==
  CASE topic = "run" -> RunIsHonest(in.world, in.args, in.force)
    [] topic = "folder" -> FolderIsItsDocuments(in.world, in.folder, in.root)
    [] topic = "sequence" -> SequenceRunsItsOwn(in.world, in.args)
    [] topic = "validate" -> ExitContract(CmdValidate(in.world, in.args))
    [] topic = "command" -> ExitContract(Steps(in.command, in.x))
    [] topic = "mock" -> MocksAnswer(in.docs, in.over, {"x"}, "GET", in.url)
    [] topic = "secret" -> FileSecretWins(in, "TOKEN")
================================================================================
