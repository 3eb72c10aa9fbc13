------------------------------- MODULE References -------------------------------
(***************************************************************************)
(* References of a request-v1 project and what they lead to                *)
(* (forge-core/src/reqv1/refs.rs, resolve.rs, index.rs, lock.rs): aliases,  *)
(* paths, data assets with a pointer and a patch, the index of the assets  *)
(* with their users, and the lockfile.                                     *)
(*                                                                         *)
(* A text is a sequence of atoms, "/", ".", "#" and "@" among them, so an  *)
(* alias may end in the middle of a word; a path is a sequence of such     *)
(* texts, from the root of the file system.                                *)
(***************************************************************************)
EXTENDS Integers, Sequences, FiniteSets, SequencesExt

CONSTANTS
  Root,   (* the path of the project *)
  None

Fail(code) == [err |-> code]
Ok(x) == "err" \notin DOMAIN x
At(text, a) == {i \in DOMAIN text : text[i] = a}
LastOf(S) == CHOOSE i \in S : \A j \in S : j <= i
FirstIn(S) == CHOOSE i \in S : \A j \in S : i <= j
Cut(text, i) == SubSeq(text, 1, i - 1)
Rest(text, i) == SubSeq(text, i + 1, Len(text))

Split(text) ==
  FoldLeft(LAMBDA acc, a : IF a = "/" THEN Append(acc, <<>>)
                           ELSE Append(Front(acc), Append(Last(acc), a)), <<<<>>>>, text)
(* normalize_rel: empty and dot segments are dropped, parents kept. *)
Up == <<"..">>
NormalizeRel(text) == SelectSeq(Split(text), LAMBDA s : s \notin {<<>>, <<".">>})

Extension(name) == IF At(name, ".") = {} THEN None ELSE name[LastOf(At(name, ".")) + 1]
WithExtension(path, e) == Append(Front(path), Last(path) \o <<".", e>>)
Suffix(name, end) == Len(name) >= Len(end) /\ SubSeq(name, Len(name) - Len(end) + 1, Len(name)) = end

(* canonicalize_lenient: what exists is followed through its link, anything
   else is shortened by its parents. *)
Lexical(path) ==
  FoldLeft(LAMBDA acc, s : IF s = Up THEN (IF acc = <<>> THEN <<>> ELSE Front(acc))
                           ELSE Append(acc, s), <<>>, path)
Canonical(fs, path) ==
  LET p == Lexical(path) IN IF p \in DOMAIN fs.links THEN fs.links[p] ELSE p
Under(path, dir) == IsPrefix(dir, path)
Exists(fs, path) == Canonical(fs, path) \in fs.files \cup fs.dirs

-----------------------------------------------------------------------------
(* RefResolver::new: the aliases of project.json, in their order; a directory
   makes a prefix alias, the longer ones first. *)
IsDirTarget(fs, t) ==
  LET abs == Canonical(fs, Root \o NormalizeRel(t))
  IN \/ t # <<>> /\ Last(t) = "/"
     \/ abs \in fs.dirs
     \/ ~Exists(fs, abs) /\ Extension(Last(abs)) = None
Resolver(fs, aliases) ==
  LET placed == [i \in DOMAIN aliases |->
                   [alias |-> aliases[i].alias, dir |-> IsDirTarget(fs, aliases[i].target),
                    path |-> Canonical(fs, Root \o NormalizeRel(aliases[i].target))]]
  IN IF \E i \in DOMAIN placed : ~Under(placed[i].path, Root) THEN Fail("PATH_ESCAPE")
     ELSE [exact |-> SelectSeq(placed, LAMBDA a : ~a.dir),
           prefix |-> SortSeq(SelectSeq(placed, LAMBDA a : a.dir),
                              LAMBDA a, b : Len(a.alias) > Len(b.alias))]

(* split_version, in the last segment alone. *)
SplitVersion(addr) ==
  LET start == IF At(addr, "/") = {} THEN 0 ELSE LastOf(At(addr, "/"))
      marks == {i \in At(addr, "@") : i > start}
      m == LastOf(marks)
  IN IF marks # {} /\ Len(addr) = m + 1 /\ addr[m + 1] \in {"1", "2"}
     THEN [addr |-> Cut(addr, m), version |-> addr[m + 1]]
     ELSE [addr |-> addr, version |-> None]

ResolveAddress(r, fs, addr, base) ==
  LET exact == SelectSeq(r.exact, LAMBDA a : a.alias = addr)
      prefix == SelectSeq(r.prefix, LAMBDA a : IsPrefix(a.alias, addr))
      rest == NormalizeRel(Rest(addr, Len(prefix[1].alias)))
      path == prefix[1].path \o rest
      scripts == SelectSeq(<<"js", "ts">>, LAMBDA e : Exists(fs, WithExtension(path, e)))
  IN CASE exact # <<>> -> [path |-> exact[1].path]
       [] exact = <<>> /\ prefix # <<>> ->
            IF rest = <<>> THEN Fail("INVALID_ALIAS")
            ELSE IF Extension(Last(path)) = None /\ ~Exists(fs, path) /\ scripts # <<>>
            THEN [path |-> WithExtension(path, scripts[1])]
            ELSE [path |-> path]
       [] exact = <<>> /\ prefix = <<>> /\ At(addr, ":") # {} /\ At(addr, "/") = {} ->
            Fail("INVALID_ALIAS")
       [] OTHER -> [path |-> IF addr # <<>> /\ addr[1] = "/" THEN NormalizeRel(addr)
                             ELSE base \o NormalizeRel(addr)]

(* RefResolver::resolve. *)
Resolve(r, fs, raw, base) ==
  LET hash == At(raw, "#")
      cut == IF hash = {} THEN raw ELSE Cut(raw, FirstIn(hash))
      pointer == IF hash = {} THEN None
                 ELSE SelectSeq(Rest(raw, FirstIn(hash)), LAMBDA a : a # "/")
      v == SplitVersion(cut)
      builtin == v.addr # <<>> /\ v.addr[1] = "builtin:"
      got == ResolveAddress(r, fs, v.addr, base)
      desc(scheme, address) == [scheme |-> scheme, address |-> address, pointer |-> pointer,
                                version |-> v.version]
  IN CASE At(raw, "\\") # {} -> Fail("INVALID_ALIAS")
       [] At(raw, "\\") = {} /\ builtin -> desc("builtin", <<Tail(v.addr)>>)
       [] At(raw, "\\") = {} /\ ~builtin /\ ~Ok(got) -> got
       [] OTHER -> IF Under(Canonical(fs, got.path), Root)
                   THEN desc("file", Canonical(fs, got.path)) ELSE Fail("PATH_ESCAPE")

-----------------------------------------------------------------------------
(* DataStore: a document is a function from the pointers of its leaves to
   values; fs.text gives each file's content, [doc] or something else. *)

Select(doc, pointer) ==
  LET p == IF pointer = None THEN <<>> ELSE pointer
      below == {l \in DOMAIN doc : IsPrefix(p, l)}
  IN IF below = {} THEN Fail("INVALID_POINTER")
     ELSE [json |-> [q \in {SubSeq(l, Len(p) + 1, Len(l)) : l \in below} |-> doc[p \o q]]]
PatchOp(v, op) ==
  IF op.op = "replace" /\ op.path \notin DOMAIN v.json THEN Fail("JSON_PATCH_FAILED")
  ELSE [json |-> [q \in DOMAIN v.json \cup {op.path} |->
                    IF q = op.path THEN op.value ELSE v.json[q]]]
Patched(value, patch) ==
  FoldLeft(LAMBDA v, op : IF Ok(v) THEN PatchOp(v, op) ELSE v, value, patch)
SchemaOf(path) ==
  IF Suffix(Last(path), <<".", "json">>)
  THEN Append(Front(path), SubSeq(Last(path), 1, Len(Last(path)) - 2) \o <<".", "schema", ".", "json">>)
  ELSE None

(* resolve: what a reference to data yields, and the cache it leaves. *)
LoadData(cache, fs, address) ==
  CASE address \in DOMAIN cache -> [cache |-> cache]
    [] address \notin fs.files -> Fail("ASSET_NOT_FOUND")
    [] fs.text[address].doc = None -> Fail("INVALID_ASSET_INPUT")
    [] SchemaOf(address) # None /\ SchemaOf(address) \in fs.files
         /\ fs.text[SchemaOf(address)].rejects # {}
         /\ (fs.text[SchemaOf(address)].rejects = {"all"}
               \/ \E l \in DOMAIN fs.text[address].doc :
                    fs.text[address].doc[l] \in fs.text[SchemaOf(address)].rejects) ->
         Fail("INVALID_ASSET_INPUT")
    [] OTHER -> [cache |-> [a \in DOMAIN cache \cup {address} |->
                              IF a = address THEN fs.text[address].doc ELSE cache[a]]]
ResolveData(cache, fs, desc, patch) ==
  LET load == LoadData(cache, fs, desc.address)
  IN CASE desc.scheme # "file" -> [cache |-> cache, value |-> Fail("INCOMPATIBLE_ASSET_TYPE")]
       [] desc.scheme = "file" /\ ~Ok(load) -> [cache |-> cache, value |-> load]
       [] OTHER -> [cache |-> load.cache,
                    value |-> Patched(Select(load.cache[desc.address], desc.pointer), patch)]

-----------------------------------------------------------------------------
(* ProjectIndex::scan. *)

MetadataPath(path) ==
  LET n == Last(path)
      stem == IF At(n, ".") = {} THEN n ELSE Cut(n, LastOf(At(n, ".")))
  IN Append(Front(path), stem \o <<".", "meta", ".", "json">>)
(* walk_files goes into no directory is_ignored_dir names. *)
IsIgnoredDir(name) ==
  \/ name # <<>> /\ name[1] = "."
  \/ name \in {<<w>> : w \in {"node_modules", "target", "dist", "build", "vendor", "venv", "coverage",
                             "__pycache__", "tmp"}}
IsAsset(path) ==
  /\ Under(path, Append(Root, <<"assets">>))
  /\ \A i \in (Len(Root) + 2)..(Len(path) - 1) : ~IsIgnoredDir(path[i])
  /\ Extension(Last(path)) \in {"json", "js", "ts"}
  /\ ~Suffix(Last(path), <<".", "schema", ".", "json">>)
  /\ ~Suffix(Last(path), <<".", "meta", ".", "json">>)
Kinds == <<"hooks", "assertions", "extractors", "generators", "mocks">>
Classify(path) ==
  LET fit == SelectSeq(Kinds, LAMBDA k : <<k>> \in ToSet(Front(path)))
  IN IF Extension(Last(path)) = "json" THEN "data" ELSE IF fit = <<>> THEN "executable" ELSE fit[1]
(* load_metadata: absent, or titled with distinct parameter names. *)
Metadata(fs, path) ==
  LET m == MetadataPath(path)
  IN IF m \notin fs.files THEN None
     ELSE LET t == fs.text[m].meta
          IN IF t = None THEN Fail("metadata")
             ELSE IF t.title = "" \/ "" \in ToSet(t.names) \/ ~IsInjective(t.names)
             THEN Fail("metadata") ELSE t

(* relative_path: up to the common ancestor and down again. *)
RelativePath(base, target) ==
  LET common == LastOf({n \in 0..(IF Len(base) < Len(target) THEN Len(base) ELSE Len(target)) :
                          SubSeq(base, 1, n) = SubSeq(target, 1, n)})
      parts == [i \in 1..(Len(base) - common) |-> Up] \o SubSeq(target, common + 1, Len(target))
  IN IF parts = <<>> THEN <<".">>
     ELSE FoldLeft(LAMBDA acc, p : acc \o <<"/">> \o p, Head(parts), Tail(parts))

(* collect_assets: a prefix reference is under the first alias, in name order,
   whose directory holds the asset, without its .js. *)
AliasDir(fs, a) ==
  \/ a.target # <<>> /\ Last(a.target) = "/"
  \/ Canonical(fs, Root \o NormalizeRel(a.target)) \in fs.dirs
PrefixRef(fs, aliases, path) ==
  LET dirOf(a) == Canonical(fs, Root \o NormalizeRel(a.target))
      fit == SelectSeq(aliases, LAMBDA a : AliasDir(fs, a) /\ Under(path, dirOf(a)))
      rest == RelativePath(dirOf(fit[1]), path)
  IN IF fit = <<>> THEN None
     ELSE fit[1].alias \o <<"/">> \o (IF Suffix(rest, <<".", "js">>)
                                      THEN SubSeq(rest, 1, Len(rest) - 2) ELSE rest)
ExactAlias(fs, aliases, path) ==
  LET fit == SelectSeq(aliases, LAMBDA a : ~AliasDir(fs, a)
                         /\ Canonical(fs, Root \o NormalizeRel(a.target)) = path)
  IN IF fit = <<>> THEN None ELSE Last(fit).alias
SuggestRef(fs, aliases, path, base) ==
  CASE ExactAlias(fs, aliases, path) # None -> ExactAlias(fs, aliases, path)
    [] ExactAlias(fs, aliases, path) = None /\ PrefixRef(fs, aliases, path) # None ->
         PrefixRef(fs, aliases, path)
    [] OTHER -> RelativePath(base, path)

(* collect_refs, collect_requests: documents are [path, refs], a reference
   being [at, raw]; each is a use of an asset, a builtin or broken. *)
ScanRequests(fs, aliases, docs) ==
  LET r == Resolver(fs, aliases)
      refs == UNION {{[doc |-> d.path, at |-> u.at, raw |-> u.raw,
                       got |-> Resolve(r, fs, u.raw, Front(d.path))] : u \in ToSet(d.refs)} : d \in docs}
      missing(u) == ~Ok(u.got) \/ (u.got.scheme = "file" /\ ~Exists(fs, u.got.address))
  IN [broken |-> {[doc |-> u.doc, at |-> u.at] : u \in {x \in refs : missing(x)}},
      usedBy |-> [a \in {f \in fs.files : IsAsset(f)} |->
                    {[doc |-> u.doc, at |-> u.at] : u \in {x \in refs :
                       ~missing(x) /\ x.got.scheme = "file" /\ x.got.address = a}}]]
Scan(fs, aliases, docs) ==
  LET r == Resolver(fs, aliases)
      assets == {f \in fs.files : IsAsset(f)}
      uses == ScanRequests(fs, aliases, docs)
  IN IF ~Ok(r) THEN r
     ELSE [assets |-> {[path |-> a, kind |-> Classify(a), alias |-> ExactAlias(fs, aliases, a),
                        prefix_ref |-> PrefixRef(fs, aliases, a), used_by |-> uses.usedBy[a]] : a \in assets},
           broken |-> uses.broken \cup {[doc |-> a, at |-> "metadata"] : a \in
                        {b \in assets : Metadata(fs, b) # None /\ ~Ok(Metadata(fs, b))}}]

-----------------------------------------------------------------------------
(* Lockfile. *)

LockBuild(fs) ==
  LET assets == {f \in fs.files : IsAsset(f)}
      metas == {MetadataPath(a) : a \in assets} \cap fs.files
  IN [f \in assets \cup metas |-> fs.text[f]]
LockVerify(lock, fs) ==
  LET now == LockBuild(fs)
  IN {<<"missing", f>> : f \in DOMAIN lock \ DOMAIN now}
     \cup {<<"changed", f>> : f \in {g \in DOMAIN lock \cap DOMAIN now : lock[g] # now[g]}}
     \cup {<<"unlocked", f>> : f \in DOMAIN now \ DOMAIN lock}

-----------------------------------------------------------------------------
(* The reference the asset browser offers for an asset leads back to it, from
   wherever it is used, unless a longer alias covers it, another dot in its
   name hides the cut extension, or a directory or file has the cut name
   (index.rs:142 suggest_ref against refs.rs:147 resolve_address). *)
SuggestionResolves(fs, aliases, base) ==
  LET r == Resolver(fs, aliases)
      bare(a) == Cut(Last(a), LastOf(At(Last(a), ".")))
      plain(a) == /\ Cardinality(At(Last(a), ".")) = 1
                  /\ ~Exists(fs, Append(Front(a), bare(a)))
      covered(s) == \E x, y \in ToSet(aliases) :
                      x # y /\ IsPrefix(x.alias, s) /\ IsPrefix(y.alias, s)
  IN Ok(r) => \A a \in {f \in fs.files : IsAsset(f) /\ f \notin DOMAIN fs.links} :
       LET s == SuggestRef(fs, aliases, a, base)
           got == Resolve(r, fs, s, base)
       IN plain(a) /\ ~covered(s) => Ok(got) /\ got.scheme = "file" /\ got.address = a

(* No reference leads out of the project, through parents, an alias or a link
   (refs.rs:120). *)
StaysInside(fs, aliases, raw, base) ==
  LET r == Resolver(fs, aliases)
      got == Resolve(r, fs, raw, base)
  IN Ok(r) /\ Ok(got) /\ got.scheme = "file" => Under(got.address, Root)

(* A reference the index calls broken is one a run cannot load, and the other
   way round, for files. *)
BrokenMeansUnloadable(fs, aliases, docs) ==
  LET r == Resolver(fs, aliases)
      scan == ScanRequests(fs, aliases, docs)
  IN Ok(r) => \A d \in docs : \A u \in ToSet(d.refs) :
       LET got == Resolve(r, fs, u.raw, Front(d.path))
       IN ([doc |-> d.path, at |-> u.at] \in scan.broken)
            <=> ~(Ok(got) /\ (got.scheme = "builtin" \/ Exists(fs, got.address)))

(* Reading data with a patch changes nothing for the next reader of the file
   (resolve.rs:67, clone on read). *)
PatchIsLocal(fs, one, two) ==
  LET none == [a \in {} |-> None]
      first == ResolveData(none, fs, one.desc, one.patch)
  IN ResolveData(first.cache, fs, two.desc, two.patch).value
       = ResolveData(none, fs, two.desc, two.patch).value

(* What a lock leaves open: a schema, and data a reference reaches where the
   index does not look, outside assets/ or in a directory it ignores. *)
Unlocked(before, after, address) ==
  LET schema == SchemaOf(address)
      at(fs, f) == IF f \in fs.files THEN fs.text[f] ELSE None
  IN \/ schema # None /\ at(before, schema) # at(after, schema)
     \/ ~IsAsset(address) /\ at(before, address) # at(after, address)

(* A project that still verifies against its lockfile reads the same data by
   every reference, or what it reads was left open by the lock (lock.rs:1,
   index.rs:446). *)
LockedReadsTheSame(before, after, desc) ==
  LET none == [a \in {} |-> None]
      same == ResolveData(none, before, desc, <<>>).value = ResolveData(none, after, desc, <<>>).value
  IN LockVerify(LockBuild(before), after) = {} => same \/ Unlocked(before, after, desc.address)
===============================================================================
