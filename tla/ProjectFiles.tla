------------------------------ MODULE ProjectFiles ------------------------------
(***************************************************************************)
(* What the program does to the files of a project besides editing one     *)
(* request: export and import of bundles (reqv1/bundle.rs), migration of a  *)
(* tree (migrate.rs), scaffolds and sequences (scaffold.rs, sequence.rs),   *)
(* the project tree and its folder actions (panels/assets.rs), the scopes  *)
(* of folders and requests (environment_scope.rs, openapi_scope.rs,         *)
(* tickets.rs), and the sidecars (assertions.rs, hooks.rs).                 *)
(*                                                                         *)
(* A disk is a function from paths to contents; a directory is what is     *)
(* above a file.  A name is its stem, a sequence of words, and its ending.  *)
(* Writing can fail: before anything is written, or with a torn file left. *)
(***************************************************************************)
EXTENDS Naturals, Sequences, FiniteSets, SequencesExt, Functions

CONSTANTS
  Validating,   (* the builtins whose intent is to validate *)
  None

Name(stem, kind) == [stem |-> stem, kind |-> kind]
Bare(word) == Name(<<word>>, "bare")
Dot(word) == Name(<<".", word>>, "bare")   (* a name that starts with a dot *)
Up == Bare("..")

(* How a content parses: "v1", "legacy" (a request that migrates),
   "unsupported" (a legacy request that does not), "json", "text", "bytes". *)
Content(format, text, layout) ==
  [format |-> format, text |-> text, layout |-> layout, mark |-> FALSE]
Torn == Content("text", None, "torn")
IsJson(c) == c.format \in {"v1", "legacy", "unsupported", "json"}
IsUtf8(c) == c.format # "bytes"

Exists(disk, path) == \E f \in DOMAIN disk : IsPrefix(path, f)
IsFile(disk, path) == path \in DOMAIN disk
IsDir(disk, path) == Exists(disk, path) /\ ~IsFile(disk, path)
Without(disk, paths) == Restrict(disk, DOMAIN disk \ paths)
With(disk, path, content) ==
  [f \in DOMAIN disk \cup {path} |-> IF f = path THEN content ELSE disk[f]]

(* The fate of the write numbered n: "none", "create" or "write". *)
Fate(fault, n) == IF fault.at = n THEN fault.how ELSE "none"
Write(disk, path, content, fate) ==
  LET inTheWay == \/ \E f \in DOMAIN disk : IsStrictPrefix(f, path)
                  \/ IsDir(disk, path)
  IN CASE fate = "create" \/ inTheWay -> [disk |-> disk, ok |-> FALSE]
       [] fate = "write" /\ ~inTheWay ->
            [disk |-> With(disk, path, Torn), ok |-> FALSE]
       [] OTHER -> [disk |-> With(disk, path, content), ok |-> TRUE]
CreateNew(disk, path, content, fate) ==
  IF Exists(disk, path) THEN [disk |-> disk, ok |-> FALSE]
  ELSE Write(disk, path, content, fate)
Refused(disk) == [disk |-> disk, ok |-> FALSE]

-----------------------------------------------------------------------------
(* bundle.rs *)

IncludeDir(name) ==
  name \notin {Dot("git"), Dot("forge"), Dot("forge-local"), Bare("node_modules"), Bare("target")}
IncludeFile(name) == name.kind \notin {"env.local", "secrets"}
CollectFolder(disk, source) ==
  {f \in DOMAIN disk :
     /\ IsStrictPrefix(source, f)
     /\ \A i \in (Len(source) + 1)..(Len(f) - 1) : IncludeDir(f[i])
     /\ IncludeFile(Last(f))}
Sidecars(request) ==
  {Append(Front(request), Name(Last(request).stem, k)) :
     k \in {"assertions", "hooks", "ticket", "environment", "openapi"}}
CollectRequest(disk, request) ==
  {f \in {request} \cup Sidecars(request) : IsFile(disk, f) /\ IncludeFile(Last(f))}

(* The bytes of a file as the bundle carries them. *)
Encode(c) == [encoding |-> IF IsUtf8(c) THEN "utf8" ELSE "base64", data |-> c]

(* build_bundle: a folder keeps its own name in the bundle, the root does
   not. *)
Build(disk, root, source) ==
  LET folder == IsDir(disk, source)
      base == IF folder /\ source = root THEN source ELSE Front(source)
      paths == IF folder THEN CollectFolder(disk, source)
               ELSE CollectRequest(disk, source)
      entry(f) == [path |-> SubSeq(f, Len(base) + 1, Len(f))] @@ Encode(disk[f])
      all == SetToSeq(paths)
  IN IF \/ ~IsPrefix(root, source) \/ paths = {}
        \/ ~folder /\ Last(source).kind # "request"
     THEN None
     ELSE [format |-> "bundle", version |-> 1,
           files |-> [i \in DOMAIN all |-> entry(all[i])]]

(* A cURL script names every request it holds. *)
Rendered(bundle, format) ==
  LET requests == {i \in DOMAIN bundle.files :
                     Last(bundle.files[i].path).kind = "request"}
      ok == \/ format = "json"
            \/ /\ requests # {}
               /\ \A i \in requests : bundle.files[i].data.format = "v1"
  IN IF ok THEN [script |-> format, holds |-> bundle] ELSE None
ParseBundle(text) ==
  IF text.script \in {"json", "curl"} THEN text.holds ELSE None

ExportBundle(disk, root, source, format, output, fault) ==
  LET bundle == Build(disk, root, source)
      text == IF bundle = None THEN None ELSE Rendered(bundle, format)
  IN IF Exists(disk, output) \/ text = None THEN Refused(disk)
     ELSE CreateNew(disk, output, Content("json", text, format), Fate(fault, 1))

Safe(path) == path # <<>> /\ Up \notin ToSet(path)
(* Variant: what was written before the error stays. *)
RollBackNothing(disk, written) == disk
RollBack(disk, written) == Without(disk, written)
ImportBundle(disk, text, dest, fault) ==
  LET bundle == ParseBundle(text)
      files == bundle.files
      paths == [i \in DOMAIN files |-> files[i].path]
      step(acc, i) ==
        LET w == CreateNew(acc.disk, dest \o paths[i], files[i].data, Fate(fault, i))
        IN IF ~acc.ok THEN acc
           ELSE IF w.ok THEN [disk |-> w.disk, ok |-> TRUE,
                              written |-> acc.written \cup {dest \o paths[i]}]
           ELSE [disk |-> RollBack(w.disk, acc.written), ok |-> FALSE,
                 written |-> {}]
  IN IF \/ bundle = None
        \/ bundle.format # "bundle" \/ bundle.version # 1 \/ files = <<>>
        \/ \E i \in DOMAIN files : ~Safe(paths[i]) \/ files[i].encoding = "damaged"
        \/ ~IsInjective(paths)
        \/ \E i \in DOMAIN files : Exists(disk, dest \o paths[i])
     THEN Refused(disk)
     ELSE FoldLeft(step, [disk |-> disk, ok |-> TRUE, written |-> {}],
                   [i \in DOMAIN files |-> i])

-----------------------------------------------------------------------------
(* migrate.rs: every request below a tree, path by path. *)

(* is_ignored_dir. *)
MigrateDir(name) ==
  /\ name.stem = <<>> \/ name.stem[1] # "."
  /\ name \notin {Bare(w) : w \in {"node_modules", "target", "dist", "build", "vendor", "venv",
                                   "coverage", "__pycache__", "tmp"}}
MigrateSources(disk, from) ==
  {f \in DOMAIN disk :
     /\ IsStrictPrefix(from, f) /\ Last(f).kind = "request"
     /\ \A i \in (Len(from) + 1)..(Len(f) - 1) : MigrateDir(f[i])}
Migrated(c) == Content("v1", c.text, "pretty")
MigrateTree(disk, from, to, dry, fault) ==
  LET sources == SetToSeq(MigrateSources(disk, from))
      target(f) == to \o SubSeq(f, Len(from) + 1, Len(f))
      noted(acc, f, status) == [acc EXCEPT !.report = [@ EXCEPT ![f] = status]]
      step(acc, i) ==
        LET f == sources[i]
            w == Write(acc.disk, target(f), Migrated(acc.disk[f]), Fate(fault, i))
        IN CASE Exists(acc.disk, target(f)) -> noted(acc, f, "exists")
             [] ~Exists(acc.disk, target(f)) /\ acc.disk[f].format # "legacy" ->
                  noted(acc, f, "blocked")
             [] ~Exists(acc.disk, target(f)) /\ acc.disk[f].format = "legacy" /\ dry ->
                  noted(acc, f, "ready")
             [] OTHER -> noted([acc EXCEPT !.disk = w.disk], f,
                               IF w.ok THEN "migrated" ELSE "blocked")
  IN FoldLeft(step, [disk |-> disk, report |-> [f \in ToSet(sources) |-> "blocked"]],
              [i \in DOMAIN sources |-> i])

(* migrate_legacy_request: one picked file, into requests/. *)
MigrateRequest(disk, root, source, fault) ==
  LET target == root \o <<Bare("requests"), Name(Last(source).stem, "request")>>
  IN IF disk[source].format # "legacy" \/ Exists(disk, target) THEN Refused(disk)
     ELSE Write(disk, target, Migrated(disk[source]), Fate(fault, 1))

-----------------------------------------------------------------------------
(* scaffold.rs, create_sequence, sequence.rs *)

Taken(disk, dir, name) ==
  \E k \in {"js", "meta"} : Exists(disk, Append(dir, Name(<<name>>, k)))
Scaffold(disk, root, kind, name, fault) ==
  LET dir == root \o <<Bare("assets"), Bare(kind)>>
      at(k) == Append(dir, Name(<<name>>, k))
      code == Write(disk, at("js"), Content("text", kind, "plain"), Fate(fault, 1))
      meta == Write(code.disk, at("meta"), Content("json", kind, "pretty"), Fate(fault, 2))
  IN CASE name \in {"", "a b"} \/ Taken(disk, dir, name) -> Refused(disk)
       [] name \notin {"", "a b"} /\ ~Taken(disk, dir, name) /\ ~code.ok -> code
       [] OTHER -> IF meta.ok THEN meta
                   ELSE [disk |-> Without(meta.disk, {at("js")}), ok |-> FALSE]

Numbers == <<"-2", "-3", "-4">>
AvailablePath(disk, dir, word, kind) ==
  LET names == <<Name(<<word>>, kind)>>
               \o [i \in DOMAIN Numbers |-> Name(<<word, Numbers[i]>>, kind)]
      free == SelectSeq(names, LAMBDA n : ~Exists(disk, Append(dir, n)))
  IN Append(dir, free[1])

RelativeTo(root, path) ==
  IF IsPrefix(root, path) THEN SubSeq(path, Len(root) + 1, Len(path)) ELSE <<Up>> \o path
CreateSequence(disk, root, picked, fault) ==
  LET requests == [i \in DOMAIN picked |-> RelativeTo(root, picked[i])]
      target == AvailablePath(disk, Append(root, Bare("sequences")), "sequence", "sequence")
      ok == picked # <<>> /\ \A i \in DOMAIN picked :
              requests[i][1] # Up /\ Last(requests[i]).kind = "request"
  IN IF ~ok THEN Refused(disk) @@ [made |-> None]
     ELSE Write(disk, target, Content("json", requests, "pretty"), Fate(fault, 1))
            @@ [made |-> target]
ResolveSequence(disk, root, requests) ==
  IF \/ requests = <<>>
     \/ \E i \in DOMAIN requests :
          \/ Up \in ToSet(requests[i]) \/ Last(requests[i]).kind # "request"
          \/ ~IsFile(disk, root \o requests[i])
  THEN None ELSE [i \in DOMAIN requests |-> root \o requests[i]]

-----------------------------------------------------------------------------
(* panels/assets.rs: the tree and the actions on its folders. *)

Unlisted == {Dot("git"), Dot("forge-local"), Bare("node_modules"), Bare("target")}
Hidden(name) ==
  name \in Unlisted \/ name.kind \in {"assertions", "hooks", "ticket", "environment", "openapi"}
ProjectTree(disk, root) ==
  {f \in DOMAIN disk : /\ IsStrictPrefix(root, f)
                       /\ \A i \in (Len(root) + 1)..Len(f) : ~Hidden(f[i])}

AddFiles(disk, sources, dir, fault) ==
  LET target(i) == Append(dir, Last(sources[i]))
      targets == [i \in DOMAIN sources |-> target(i)]
      step(acc, i) == IF acc.ok THEN Write(acc.disk, target(i), disk[sources[i]], Fate(fault, i))
                      ELSE acc
  IN IF \/ \E i \in DOMAIN sources : sources[i] = target(i) \/ Exists(disk, target(i))
        \/ ~IsInjective(targets)
     THEN Refused(disk)
     ELSE FoldLeft(step, [disk |-> disk, ok |-> TRUE], [i \in DOMAIN sources |-> i])

CollectJson(disk, dir) ==
  {f \in DOMAIN disk :
     /\ IsStrictPrefix(dir, f)
     /\ \A i \in (Len(dir) + 1)..(Len(f) - 1) : f[i] \notin Unlisted
     /\ Last(f).kind \in {"request", "assertions", "hooks", "secrets", "json", "meta",
                          "sequence"}}
Readable(disk, files) == \A f \in files : IsJson(disk[f])
Pretty(c) == IF IsJson(c) THEN [c EXCEPT !.layout = "pretty"] ELSE c
BeautifyTree(disk, dir, fault) ==
  LET files == CollectJson(disk, dir)
      todo == SetToSeq({f \in files : disk[f].layout # "pretty"})
      step(acc, i) == IF acc.ok THEN Write(acc.disk, todo[i], Pretty(disk[todo[i]]), Fate(fault, i))
                      ELSE acc
  IN IF ~Readable(disk, files) THEN Refused(disk)
     ELSE FoldLeft(step, [disk |-> disk, ok |-> TRUE], [i \in DOMAIN todo |-> i])

(* beautify_folder and export_path refuse while the open request is unsaved
   below the folder; the editor reads its file again afterwards. *)
Unsaved(editor, dir) == editor.dirty /\ IsPrefix(dir, editor.file)
BeautifyFolder(disk, editor, dir, fault) ==
  LET b == BeautifyTree(disk, dir, fault)
      reload == b.ok /\ IsPrefix(dir, editor.file) /\ IsFile(b.disk, editor.file)
  IN IF Unsaved(editor, dir) THEN Refused(disk) @@ [editor |-> editor]
     ELSE b @@ [editor |-> IF reload THEN [editor EXCEPT !.text = b.disk[editor.file]]
                           ELSE editor]
ExportPath(disk, editor, root, source, format, output, fault) ==
  IF Unsaved(editor, source) THEN Refused(disk)
  ELSE ExportBundle(disk, root, source, format, output, fault)

(* set_request_regression. *)
SetRequestRegression(disk, file, mark) ==
  IF disk[file].format # "v1" THEN Refused(disk)
  ELSE Write(disk, file, [disk[file] EXCEPT !.mark = mark, !.layout = "pretty"], "none")

-----------------------------------------------------------------------------
(* The three scopes; a folder's file has no stem. *)

ScopeKinds == {"environment", "openapi", "ticket"}
ScopeFile(disk, node, kind) ==
  IF IsDir(disk, node) THEN Append(node, Name(<<>>, kind))
  ELSE Append(Front(node), Name(Last(node).stem, kind))
OwnScope(disk, node, kind) ==
  LET f == ScopeFile(disk, node, kind)
  IN IF IsFile(disk, f) /\ disk[f].text \notin {None, ""} THEN disk[f].text ELSE None
EffectiveScope(disk, root, node, kind) ==
  LET ancestor(n) == SubSeq(node, 1, n)
      set == {n \in Len(root)..Len(node) : OwnScope(disk, ancestor(n), kind) # None}
      nearest == CHOOSE n \in set : \A m \in set : m <= n
  IN IF set = {} THEN None
     ELSE [value |-> OwnScope(disk, ancestor(nearest), kind), source |-> ancestor(nearest)]
(* An environment is a single name; the others are any text. *)
Acceptable(kind, value) ==
  value # "" /\ (kind = "environment" => value \notin {"../x", "a/b"})
SetScope(disk, node, kind, value) ==
  IF ~Acceptable(kind, value) THEN Refused(disk)
  ELSE Write(disk, ScopeFile(disk, node, kind), Content("text", value, "plain"), "none")
RemoveScope(disk, node, kind) == Without(disk, {ScopeFile(disk, node, kind)})

-----------------------------------------------------------------------------
(* assertions.rs, hooks.rs: a request with the lists of its sidecars. *)

(* is_assertion: of the builtins those that validate, of the assets those in
   a directory named assertions. *)
IsAssertion(entry) ==
  entry.phase = "afterResponse" /\ (entry.uses \in Validating \/ entry.uses = "assertions/")
Push(list, entry) == IF entry \in ToSet(list) THEN list ELSE Append(list, entry)
Extend(list, more) == FoldLeft(Push, list, more)
TakeAssertions(pipeline) == Extend(<<>>, SelectSeq(pipeline, IsAssertion))
TakeHooks(pipeline) == Extend(<<>>, SelectSeq(pipeline, LAMBDA e : ~IsAssertion(e)))
ApplyTo(pipeline, list) == FoldLeft(Push, pipeline, list)

(* load_request_document, for the command line. *)
Loaded(request) == ApplyTo(ApplyTo(request.pipeline, request.hooks), request.assertions)
(* What opening and saving in the editor make of it. *)
Split(request) ==
  [pipeline |-> <<>>, hooks |-> Extend(request.hooks, TakeHooks(request.pipeline)),
   assertions |-> Extend(request.assertions, TakeAssertions(request.pipeline))]

-----------------------------------------------------------------------------
(* Properties, of every input. *)

Fresh(disk, after) == DOMAIN after \ DOMAIN disk
Untouched(disk, after) ==
  DOMAIN disk \subseteq DOMAIN after /\ \A f \in DOMAIN disk : after[f] = disk[f]
TornIn(disk, after) == {f \in Fresh(disk, after) : after[f] = Torn}

(* What is exported and imported elsewhere is what the project tree showed
   there with its hidden sidecars, secrets left behind, and what each restored
   node inherits from a node of the scope it inherits again (build_bundle,
   import_bundle, project_tree). *)
BundleRestores(disk, root, source, format, dest) ==
  LET bundle == Build(disk, root, source)
      text == IF bundle = None THEN None ELSE Rendered(bundle, format)
      r == ImportBundle(disk, text, dest, [at |-> 0, how |-> "none"])
      base == IF source = root THEN root ELSE Front(source)
      moved(f) == dest \o SubSeq(f, Len(base) + 1, Len(f))
      shown == {f \in ProjectTree(disk, root) :
                  IsPrefix(source, f) /\ Dot("forge") \notin ToSet(f)}
      owed == shown \cup {f \in UNION {Sidecars(g) : g \in shown} : IsFile(disk, f)}
      secret(f) == Last(f).kind \in {"env.local", "secrets"}
  IN text # None /\ ~Exists(disk, dest) =>
       /\ r.ok /\ Untouched(disk, r.disk)
       /\ \A f \in owed : moved(f) \in DOMAIN r.disk <=> ~secret(f)
       /\ \A g \in r.written : ~secret(g) /\ \E f \in DOMAIN disk :
            g = moved(f) /\ r.disk[g] = disk[f]
       /\ \A f \in shown, k \in ScopeKinds :
            LET was == EffectiveScope(disk, root, f, k)
                is == EffectiveScope(r.disk, dest, moved(f), k)
            IN (~secret(f) /\ was # None /\ IsPrefix(source, was.source)) =>
                 is # None /\ is.value = was.value

(* No bundle, however it was made and wherever a write fails, changes a file
   that was there or leaves the destination; a failed import leaves at most
   the torn file it was writing, a successful one all of its files. *)
ImportContained(disk, text, dest, fault) ==
  LET r == ImportBundle(disk, text, dest, fault)
  IN /\ Untouched(disk, r.disk)
     /\ \A f \in Fresh(disk, r.disk) : IsStrictPrefix(dest, f) /\ Up \notin ToSet(f)
     /\ ~r.ok => /\ Cardinality(Fresh(disk, r.disk)) <= 1
                 /\ TornIn(disk, r.disk) = Fresh(disk, r.disk)
     /\ r.ok => /\ TornIn(disk, r.disk) = {}
                /\ Cardinality(Fresh(disk, r.disk)) = Len(text.holds.files)

(* Exporting, adding files, a sequence or an asset never touches what is
   there, and fails with at most one torn file; files copied before the
   failing one stay.  A created sequence runs what was picked, in order. *)
ExportContained(disk, editor, root, source, format, output, fault) ==
  LET r == ExportPath(disk, editor, root, source, format, output, fault)
  IN /\ Untouched(disk, r.disk) /\ Fresh(disk, r.disk) \subseteq {output}
     /\ r.ok => /\ TornIn(disk, r.disk) = {}
                /\ IsPrefix(source, editor.file) => editor.text = disk[editor.file]
AddContained(disk, sources, dir, fault) ==
  LET r == AddFiles(disk, sources, dir, fault)
  IN /\ Untouched(disk, r.disk)
     /\ Cardinality(TornIn(disk, r.disk)) <= (IF r.ok THEN 0 ELSE 1)
     /\ \A f \in Fresh(disk, r.disk) \ TornIn(disk, r.disk) :
          \E i \in DOMAIN sources : f = Append(dir, Last(sources[i])) /\ r.disk[f] = disk[sources[i]]
     /\ r.ok => \A i \in DOMAIN sources : Append(dir, Last(sources[i])) \in DOMAIN r.disk
CreateContained(disk, root, picked, kind, name, fault) ==
  LET s == CreateSequence(disk, root, picked, fault)
      a == Scaffold(disk, root, kind, name, fault)
  IN /\ Untouched(disk, s.disk) /\ Untouched(disk, a.disk)
     /\ s.ok => (ResolveSequence(s.disk, root, s.disk[s.made].text) = picked
                   <=> \A i \in DOMAIN picked : IsFile(disk, picked[i]))
     /\ ~a.ok => Fresh(disk, a.disk) = TornIn(disk, a.disk)
     /\ a.ok => Cardinality(Fresh(disk, a.disk)) = 2

(* The preview of a migration tells what migrating does; migrating again does
   nothing; nothing that was there changes (migrate_tree). *)
MigrationForetold(disk, from, to, fault) ==
  LET none == [at |-> 0, how |-> "none"]
      preview == MigrateTree(disk, from, to, TRUE, none)
      run == MigrateTree(disk, from, to, FALSE, fault)
      again == MigrateTree(run.disk, from, to, FALSE, none)
      target(f) == to \o SubSeq(f, Len(from) + 1, Len(f))
  IN /\ preview.disk = disk /\ Untouched(disk, run.disk)
     /\ \A f \in DOMAIN preview.report :
          /\ run.report[f] = "migrated" => preview.report[f] = "ready"
          /\ preview.report[f] = "ready" /\ run.report[f] # "migrated" => fault.how # "none"
          /\ run.report[f] = "migrated" =>
               run.disk[target(f)].format = "v1" /\ again.report[f] = "exists"
     /\ fault.how = "none" => again.disk = run.disk

(* Beautifying changes no value and reads every file before it writes one;
   only the file being written when it fails is damaged; the clean open
   request shows what the disk holds (beautify_folder). *)
BeautifyKeepsValues(disk, editor, dir, fault) ==
  LET r == BeautifyFolder(disk, editor, dir, fault)
      damaged == {f \in DOMAIN disk : r.disk[f] # disk[f] /\ r.disk[f].text # disk[f].text}
  IN /\ DOMAIN r.disk = DOMAIN disk
     /\ Cardinality(damaged) <= (IF fault.how = "write" THEN 1 ELSE 0)
     /\ \A f \in damaged : r.disk[f] = Torn /\ ~r.ok
     /\ \A f \in DOMAIN disk \ damaged :
          r.disk[f] \in {disk[f], [disk[f] EXCEPT !.layout = "pretty"]}
     /\ (\E f \in CollectJson(disk, dir) : ~IsJson(disk[f])) => r.disk = disk
     /\ ~editor.dirty /\ r.ok => r.editor.text = r.disk[editor.file]
     /\ editor.dirty => r.editor = editor

(* A scope that is set holds for every node below that has no nearer one and
   for no other; removing it restores what held before (the three scopes). *)
ScopeHolds(disk, root, node, kind, value) ==
  LET before == RemoveScope(disk, node, kind)
      set == SetScope(before, node, kind, value)
      nodes == UNION {{SubSeq(f, 1, n) : n \in Len(root)..Len(f)} :
                        f \in ProjectTree(before, root)}
      eff(d, n) == EffectiveScope(d, root, n, kind)
  IN (IsPrefix(root, node) /\ set.ok) =>
       /\ \A n \in nodes :
            LET nearer == /\ eff(before, n) # None
                          /\ Len(eff(before, n).source) > Len(node)
            IN eff(set.disk, n) =
                 IF IsPrefix(node, n) /\ ~nearer THEN [value |-> value, source |-> node]
                 ELSE eff(before, n)
       /\ RemoveScope(set.disk, node, kind) = before

(* Splitting a request keeps each of its steps once, in the order of its hooks
   and of its assertions, and splitting again changes nothing; what the
   command line runs has the same steps, in the same order when nothing is
   left inline. *)
SplitKeepsSteps(request) ==
  LET s == Split(request)
      mine(list, a) == SelectSeq(list, LAMBDA e : IsAssertion(e) = a)
      once(list) == Extend(<<>>, list)
      all == request.pipeline \o request.hooks \o request.assertions
  IN /\ Split(s) = s
     /\ ToSet(Loaded(s)) = ToSet(all)
     /\ Len(Loaded(s)) = Cardinality(ToSet(all))
     /\ ToSet(Loaded(request)) = ToSet(Loaded(s))
     /\ request.hooks = <<>> /\ request.assertions = <<>> =>
          \A a \in BOOLEAN : mine(Loaded(s), a) = once(mine(request.pipeline, a))
     /\ request.pipeline = <<>> => Loaded(s) = Loaded(request)
===============================================================================
