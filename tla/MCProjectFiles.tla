----------------------------- MODULE MCProjectFiles -----------------------------
(***************************************************************************)
(* Inputs of ProjectFiles: two small projects with every kind of name, and *)
(* what holds of each operation on them.                                   *)
(***************************************************************************)
EXTENDS ProjectFiles

Root == <<Bare("p")>>
Dir == Append(Root, Bare("d"))
R == Append(Dir, Name(<<"r">>, "request"))
S == Append(Root, Name(<<"s">>, "request"))
In(dir, stem, kind) == Append(dir, Name(stem, kind))
Forge == Append(Dir, Dot("forge"))
Git == Append(Dir, Dot("git"))
Dist == Append(Dir, Bare("coverage"))
Dest == <<Bare("q")>>
Tidy == Content("v1", "one", "pretty")
Untidy == Content("v1", "two", "compact")
Env(v) == Content("text", v, "plain")

(* Files a project may hold, each with its contents. *)
Options == <<
  <<R, {Tidy, Untidy, Content("legacy", "l", "compact"), Content("text", "junk", "plain")}>>,
  <<S, {Untidy, Content("legacy", "l", "pretty"), Content("unsupported", "u", "pretty")}>>,
  <<In(Dir, <<"r">>, "assertions"), {Content("json", "a", "compact")}>>,
  <<In(Dir, <<"r">>, "environment"), {Env("dev"), Env("")}>>,
  <<In(Dir, <<>>, "environment"), {Env("prod")}>>,
  <<In(Root, <<>>, "environment"), {Env("base")}>>,
  <<In(Dir, <<"x">>, "secrets"), {Content("json", "s", "pretty")}>>,
  <<In(Forge, <<"h">>, "json"), {Content("json", "h", "pretty")}>>,
  <<In(Git, <<"g">>, "request"), {Content("legacy", "g", "compact")}>>,
  <<In(Dist, <<"b">>, "request"), {Content("legacy", "b", "pretty")}>>,
  <<In(Dir, <<"pic">>, "bin"), {Content("bytes", "pic", "plain")}>>,
  <<In(Root, <<"local">>, "env.local"), {Env("secret")}>> >>
Adding(ds, i) == {With(d, Options[i][1], c) : d \in ds, c \in Options[i][2]}
Chosen == {{1} \cup c : c \in {c \in SUBSET (2..12) : Cardinality(c) <= 3}}
Disks == UNION {FoldLeft(Adding, {[f \in {} |-> Tidy]}, SetToSeq(c)) : c \in Chosen}
Faults == {[at |-> 0, how |-> "none"]} \cup [at : 1..3, how : {"create", "write"}]
SomeFaults == {[at |-> 0, how |-> "none"], [at |-> 2, how |-> "write"]}
Editor(disk, dirty) == [file |-> R, dirty |-> dirty, text |-> IF dirty THEN Content("v1", "edited", "pretty") ELSE disk[R]]
Small == {d \in Disks : Cardinality(DOMAIN d) <= 3}

Paths == {<<Bare("a")>>, <<Bare("a"), Bare("b")>>, <<Bare("d")>>, <<Up, Bare("p"), Bare("a")>>, <<>>}
Entries == {[path |-> p, encoding |-> e, data |-> Tidy] : p \in Paths, e \in {"utf8", "damaged"}}
           \cup {[path |-> <<Bare("c")>>, encoding |-> "base64", data |-> Content("bytes", "c", "plain")]}
Bundles == {[format |-> "bundle", version |-> v, files |-> fs] :
              v \in {1, 2}, fs \in UNION {[1..n -> Entries] : n \in 0..3}}
Texts == {[script |-> s, holds |-> b] : s \in {"json"}, b \in Bundles} \cup {[script |-> "other", holds |-> None]}
DestDisks == {[f \in {R} |-> Tidy], [f \in {R, Append(Dest, Bare("a"))} |-> Tidy],
              [f \in {Dest \o <<Bare("d"), Bare("z")>>} |-> Untidy]}

Step(phase, uses, enabled) == [phase |-> phase, uses |-> uses, with |-> None, enabled |-> enabled]
Steps == {Step("beforeRequest", "hook", TRUE), Step("afterResponse", "status", TRUE), Step("afterResponse", "status", FALSE),
          Step("afterResponse", "extract", TRUE), Step("afterResponse", "assertions/", TRUE),
          Step("beforeRequest", "assertions/", TRUE)}
Lists(of, n) == UNION {[1..k -> of] : k \in 0..n}
Distinct(lists) == {l \in lists : IsInjective(l)}
Hooks == {e \in Steps : ~IsAssertion(e)}

Inputs == <<
  {<<"restore", [disk |-> d, source |-> s, format |-> f]>> : d \in Disks, s \in {Root, Dir, R}, f \in {"json", "curl"}},
  {<<"import", [disk |-> d, text |-> t, fault |-> f]>> : d \in DestDisks, t \in Texts, f \in SomeFaults},
  {<<"import", [disk |-> [g \in {R} |-> Tidy], text |-> t, fault |-> f]>> : t \in {x \in Texts : x.script = "json" /\ Len(x.holds.files) = 2}, f \in Faults},
  {<<"export", [disk |-> d, dirty |-> e, source |-> s, format |-> "curl", output |-> o, fault |-> f]>> :
     d \in Small, e \in BOOLEAN, s \in {Root, Dir, R, S, Forge}, o \in {In(Root, <<"out">>, "json"), In(Dir, <<"r">>, "assertions")}, f \in Faults},
  {<<"add", [disk |-> d, sources |-> s, fault |-> f]>> : d \in {x \in Disks : S \in DOMAIN x /\ In(Dir, <<"x">>, "secrets") \in DOMAIN x},
     s \in {<<S>>, <<S, In(Dir, <<"x">>, "secrets")>>, <<R>>, <<S, S>>}, f \in Faults},
  {<<"create", [disk |-> d, picked |-> k, name |-> n, fault |-> f]>> : d \in {[g \in x \cup {R} |-> Tidy] : x \in SUBSET
        {In(Root \o <<Bare("assets"), Bare("hook")>>, <<"n">>, "js"), In(Root \o <<Bare("assets"), Bare("hook")>>, <<"n">>, "meta"),
         In(Append(Root, Bare("sequences")), <<"sequence">>, "sequence"), In(Append(Root, Bare("sequences")), <<"sequence", "-2">>, "sequence"), S}},
     k \in {<<R>>, <<R, S>>, <<S, R, R>>, <<In(Dir, <<"x">>, "secrets")>>, <<In(Dest, <<"r">>, "request")>>, <<>>}, n \in {"n", "m", "", "a b"}, f \in Faults},
  {<<"migrate", [disk |-> d, from |-> x, to |-> y, fault |-> f]>> : d \in Disks, x \in {Root, Dir}, y \in {Dest, Root, Append(Dir, Bare("new"))}, f \in SomeFaults},
  {<<"beautify", [disk |-> d, dirty |-> e, dir |-> x, fault |-> f]>> : d \in Disks, e \in BOOLEAN, x \in {Root, Dir}, f \in Faults},
  {<<"scope", [disk |-> d, node |-> n, value |-> v]>> : d \in Disks, n \in {Root, Dir, R}, v \in {"new", "dev", "a/b"}},
  {<<"split", [pipeline |-> p, hooks |-> h, assertions |-> a]>> :
     p \in Lists(Steps, 3), h \in Distinct(Lists(Hooks, 2)), a \in Distinct(Lists(Steps \ Hooks, 2))}>>

Holds(topic, in) ==
  CASE topic = "restore" -> BundleRestores(in.disk, Root, in.source, in.format, Dest)
    [] topic = "import" -> ImportContained(in.disk, in.text, Dest, in.fault)
    [] topic = "export" -> ExportContained(in.disk, Editor(in.disk, in.dirty), Root, in.source, in.format, in.output, in.fault)
    [] topic = "add" -> AddContained(in.disk, in.sources, Dir, in.fault)
    [] topic = "create" -> CreateContained(in.disk, Root, in.picked, "hook", in.name, in.fault)
    [] topic = "migrate" -> MigrationForetold(in.disk, in.from, in.to, in.fault)
    [] topic = "beautify" -> BeautifyKeepsValues(in.disk, Editor(in.disk, in.dirty), in.dir, in.fault)
    [] topic = "scope" -> ScopeHolds(in.disk, Root, in.node, "environment", in.value)
    [] topic = "split" -> SplitKeepsSteps(in)
================================================================================
