------------------------------- MODULE Workspace -------------------------------
(***************************************************************************)
(* A workspace of collections in the desktop app: the files (forge-core/    *)
(* src/store), the tree the app loaded from them, and the tabs that hold    *)
(* working copies of requests (forge-gui: panels/collections.rs, panels/    *)
(* variables.rs, dialogs/env_editor.rs, dialogs/hooks_editor.rs, state.rs, *)
(* app.rs, local.rs).  The tree is reloaded after what the panels do, but  *)
(* not after a tab is saved.                                               *)
(***************************************************************************)
EXTENDS Naturals, Sequences, FiniteSets, SequencesExt, TLC

CONSTANTS
  Scenes,  (* what the runs explore: see scene *)
  Vars,    (* names of variables *)
  None

VARIABLES
  scene,     (* the store at the start, the names and texts the user gives, and
                bounds on the environments, the tabs opened from the tree, what
                the panels and dialogs change, the edits of tabs, and the failed
                writes and files other programs spoil *)
  disk,      (* folders, requests, environments and secrets on disk *)
  tree,      (* AppState::workspace, None when no workspace is open *)
  head,      (* what git has committed *)
  bar,       (* AppState::tabs and active_tab, counted from 1; 0 is None *)
  snapshot,  (* ui-state.json *)
  hooking,   (* the hooks editor: the folder and the draft, or None *)
  autosave,  (* AppState::auto_save *)
  kept,      (* history: what each file must hold for the user (see Owed) *)
  stale,     (* history: requests saved since the tree was loaded *)
  pulled,    (* history: requests whose file was changed beside their tab, folders
                git gave back an order that lists what was never committed *)
  behind,    (* history: the last reload failed, or a refactoring half way *)
  changes, edits, slips

vars == <<scene, disk, tree, head, hooking, kept, bar, snapshot, autosave, stale,
          pulled, behind, changes, edits, slips>>

-----------------------------------------------------------------------------
(* Paths are sequences of file names; the name of a request's file carries
   the number create_request appends, that of a folder 0.  A name is a base
   and how often it was copied. *)
DirName(n) == <<n[1], n[2], 0>>
FileName(n, i) == <<n[1], n[2], i>>
Parent(p) == Front(p)
Under(p, d) == Len(d) <= Len(p) /\ SubSeq(p, 1, Len(d)) = d
Above(p) == {SubSeq(p, 1, i) : i \in 1..(Len(p) - 1)}
Moved(p, old, new) ==
  IF Under(p, old) THEN new \o SubSeq(p, Len(old) + 1, Len(p)) ELSE p
MovedAll(f, old, new) ==
  [p \in {Moved(q, old, new) : q \in DOMAIN f} |->
     f[CHOOSE q \in DOMAIN f : Moved(q, old, new) = p]]
Without(f, ps) == [p \in DOMAIN f \ ps |-> f[p]]
Below(f, d) == {p \in DOMAIN f : Under(p, d)}

Spoiled == [name |-> None, text |-> "spoiled", uses |-> None]
NoMeta == [name |-> None, order |-> <<>>, hooks |-> None]
Readable(s, p) == p \in DOMAIN s.reqs /\ s.reqs[p] # Spoiled

(* A directory without folder.json is no file of git's.  What is told of a folder
   is the name and the hooks its file gives it. *)
Tracked(dirs) == [d \in {e \in DOMAIN dirs : dirs[e] # NoMeta} |-> dirs[d]]
Told(name, hooks) == [name |-> name, hooks |-> hooks]
Owed(s) == s.reqs @@ [d \in DOMAIN Tracked(s.dirs) |-> Told(s.dirs[d].name, s.dirs[d].hooks)]

(* save_json creates the directories above the file; such a directory has no
   folder.json. *)
WithDirs(dirs, ps) == dirs @@ [d \in UNION {Above(p) : p \in ps} |-> NoMeta]
SaveRequest(s, p, def) ==
  [s EXCEPT !.reqs = p :> def @@ @, !.dirs = WithDirs(@, {p})]
SaveMeta(s, d, meta) ==
  [s EXCEPT !.dirs = WithDirs(d :> meta @@ @, {d})]

(* A collection is a directory with a collection.json, a missing file of secrets
   an empty one; one file that does not parse fails the whole load. *)
NoVars == [v \in {} |-> None]
Loaded(s) ==
  LET cols == {d \in DOMAIN s.dirs : Len(d) = 1 /\ s.dirs[d] # NoMeta}
      In(f) == {p \in DOMAIN f : <<p[1]>> \in cols}
  IN [s EXCEPT !.dirs = [d \in In(s.dirs) |-> s.dirs[d]],
               !.reqs = [p \in In(s.reqs) |-> s.reqs[p]],
               !.secrets = [n \in DOMAIN s.envs |-> (@ @@ n :> NoVars)[n]]]
Loads(s) == \A p \in DOMAIN Loaded(s).reqs : Readable(s, p)

Reloaded ==
  IF Loads(disk')
  THEN tree' = Loaded(disk') /\ stale' = {} /\ behind' = FALSE
  ELSE behind' = TRUE /\ UNCHANGED <<tree, stale>>

NoTabs == [tabs |-> <<>>, front |-> 0]

Init ==
  /\ scene \in Scenes /\ disk = scene.stored
  /\ tree = Loaded(disk)
  /\ head = [dirs |-> Tracked(disk.dirs), reqs |-> disk.reqs]
  /\ bar = NoTabs
  /\ snapshot = None
  /\ hooking = None
  /\ autosave \in BOOLEAN
  /\ kept = Owed(disk)
  /\ stale = {} /\ pulled = {} /\ behind = FALSE
  /\ changes = 0 /\ edits = 0 /\ slips = 0

-----------------------------------------------------------------------------
(* store/ops.rs: each operation gives the store it leaves behind, the one it
   got where it is refused. *)

PatchOrder(s, child, order) ==
  IF Parent(child) \in DOMAIN s.dirs
  THEN [s EXCEPT !.dirs[Parent(child)].order = order] ELSE s
Order(s, child) ==
  IF Parent(child) \in DOMAIN s.dirs THEN s.dirs[Parent(child)].order ELSE <<>>
(* Variant: the order of the parent keeps what was deleted. *)
RemoveFromParentOrderNot(s, child) == s
RemoveFromParentOrder(s, child) ==
  PatchOrder(s, child, SelectSeq(Order(s, child), LAMBDA e : e # Last(child)))
RenameInParentOrder(s, old, new) ==
  PatchOrder(s, old, [i \in DOMAIN Order(s, old) |->
    IF Order(s, old)[i] = Last(old) THEN Last(new) ELSE Order(s, old)[i]])

CreateDir(s, d, name) ==
  IF d \in DOMAIN s.dirs THEN s
  ELSE SaveMeta(s, d, [NoMeta EXCEPT !.name = name])
CreateCollection(s, name) == CreateDir(s, <<DirName(name)>>, name)
CreateFolder(s, parent, name) ==
  CreateDir(s, Append(parent, DirName(name)), name)

FreePath(s, dir, name) ==
  LET At(i) == Append(dir, FileName(name, i))
      free == {i \in 1..(Cardinality(DOMAIN s.reqs) + 1) :
                 At(i) \notin DOMAIN s.reqs}
  IN At(CHOOSE i \in free : \A j \in free : i <= j)
CreateRequest(s, dir, def) == SaveRequest(s, FreePath(s, dir, def.name), def)
Copy(def) == [def EXCEPT !.name[2] = @ + 1]

Renamed(p, name) == Append(Parent(p), FileName(name, 1))
MayRename(s, p, name) ==
  Readable(s, p) /\ (Renamed(p, name) = p \/ Renamed(p, name) \notin DOMAIN s.reqs)
RenameRequest(s, p, name) ==
  LET named == [s EXCEPT !.reqs[p].name = name]
      new == Renamed(p, name)
  IN IF new = p THEN named
     ELSE RenameInParentOrder(
            [named EXCEPT !.reqs = MovedAll(@, p, new)], p, new)

(* The display name is saved before the directory is found to be taken; order and
   hooks stay. *)
MetaOf(s, d) == (s.dirs @@ d :> NoMeta)[d]
Placed(d, name) == Append(Parent(d), DirName(name))
RenameFolder(s, d, name) ==
  LET new == Placed(d, name)
      named == SaveMeta(s, d, [MetaOf(s, d) EXCEPT !.name = name])
  IN IF new \in DOMAIN s.dirs THEN named
     ELSE RenameInParentOrder(
            [named EXCEPT !.dirs = MovedAll(@, d, new),
                          !.reqs = MovedAll(@, d, new)], d, new)

DeleteRequest(s, p) ==
  RemoveFromParentOrder([s EXCEPT !.reqs = Without(@, {p})], p)
DeleteDir(s, d) ==
  RemoveFromParentOrder(
    [s EXCEPT !.dirs = Without(@, Below(@, d)),
              !.reqs = Without(@, Below(@, d))], d)

(* git restore brings back what is tracked under the path; git add and commit
   take all that is there. *)
Restored(now, was, p) ==
  [q \in Below(was, p) |-> was[q]] @@ now
Restore(s, p) ==
  [s EXCEPT !.dirs = WithDirs(Restored(@, head.dirs, p),
                              Below(head.dirs, p) \cup Below(head.reqs, p)),
            !.reqs = Restored(@, head.reqs, p)]
Committed(was, now, p) ==
  [q \in (DOMAIN was \ Below(was, p)) \cup Below(now, p) |->
     IF Under(q, p) THEN now[q] ELSE was[q]]
ListsWhatIs(s, d) ==
  \A i \in DOMAIN s.dirs[d].order :
    Append(d, s.dirs[d].order[i]) \in DOMAIN s.dirs \cup DOMAIN s.reqs
Modified(f, was, p) ==
  ~(\A q \in Below(was, p) : q \in DOMAIN f /\ f[q] = was[q])

-----------------------------------------------------------------------------
(* The tab bar; typed is history: the tab was edited since it was saved. *)

Tabs == DOMAIN bar.tabs
OpenTab(b, p, def) ==
  LET at == {i \in DOMAIN b.tabs : b.tabs[i].rel = p}
  IN IF at # {} THEN [b EXCEPT !.front = CHOOSE i \in at : \A j \in at : i <= j]
     ELSE [tabs |-> Append(b.tabs, [rel |-> p, def |-> def, dirty |-> FALSE,
                                   typed |-> FALSE]),
           front |-> Len(b.tabs) + 1]
CloseTab(b, i) ==
  LET left == Len(b.tabs) - 1
  IN [tabs |-> RemoveAt(b.tabs, i),
      front |-> IF left = 0 THEN 0
                ELSE IF b.front > i \/ b.front > left THEN b.front - 1
                ELSE b.front]
CloseTabsMatching(b, ps) ==
  FoldLeft(CloseTab, b,
           SetToSortSeq({i \in DOMAIN b.tabs : b.tabs[i].rel \in ps}, >))
Rels == {bar.tabs[i].rel : i \in Tabs}
Open(ps) == Rels \cap ps
Shared(p) == Cardinality({i \in Tabs : bar.tabs[i].rel = p}) > 1

InTree(t) == t.rel \in DOMAIN tree.reqs /\ tree.reqs[t.rel] = t.def
(* save_tab writes the tab's copy where it came from and leaves the tree. *)
SaveTabs(is) ==
  LET saved == {bar.tabs[i].rel : i \in is}
      Put(s, t) == SaveRequest(s, t.rel, t.def)
      ts == [k \in 1..Cardinality(is) |-> bar.tabs[SetToSortSeq(is, <)[k]]]
  IN /\ disk' = FoldLeft(Put, disk, ts)
     /\ kept' = FoldLeft(LAMBDA f, t : t.rel :> t.def @@ f, kept, ts)
     /\ stale' = stale \cup {ts[k].rel : k \in {i \in DOMAIN ts : ~InTree(ts[i])}}
     /\ pulled' = (pulled \ saved) \cup {p \in saved : Shared(p)}
Saved(b, is) ==
  [b EXCEPT !.tabs = [i \in DOMAIN @ |->
    IF i \in is THEN [@[i] EXCEPT !.dirty = FALSE, !.typed = FALSE] ELSE @[i]]]
Dirty(i) == {j \in {i} \cap Tabs : autosave /\ bar.tabs[j].dirty}

Still == UNCHANGED <<tree, head, hooking, snapshot, autosave, behind, changes,
                     edits, slips>>
Edit ==
  \E t \in scene.texts :
    /\ bar.front # 0 /\ edits < scene.edits
    /\ bar' = [bar EXCEPT !.tabs[bar.front] =
         [@ EXCEPT !.def.text = t.text, !.def.uses = t.uses, !.dirty = TRUE,
               !.typed = TRUE]]
    /\ edits' = edits + 1
    /\ UNCHANGED <<disk, kept, stale, pulled, tree, head, hooking, snapshot,
                   autosave, behind, changes, slips>>
Save ==
  /\ bar.front # 0
  /\ SaveTabs({bar.front}) /\ bar' = Saved(bar, {bar.front})
  /\ Still
SaveAll == SaveTabs(Tabs) /\ bar' = Saved(bar, Tabs) /\ Still
Select ==
  \E i \in Tabs \ {bar.front} :
    /\ SaveTabs(Dirty(bar.front))
    /\ bar' = [Saved(bar, Dirty(bar.front)) EXCEPT !.front = i]
    /\ Still
Turn(step) ==
  /\ bar.tabs # <<>>
  /\ SaveTabs(Dirty(bar.front))
  /\ bar' = [Saved(bar, Dirty(bar.front)) EXCEPT
               !.front = ((bar.front - 1 + step) % Len(bar.tabs)) + 1]
  /\ Still
NextTab == Turn(1)
PrevTab == Turn(Len(bar.tabs) - 1)
Close ==
  \E i \in Tabs :
    /\ SaveTabs(Dirty(i))
    /\ bar' = CloseTab(Saved(bar, Dirty(i)), i)
    /\ Still
(* A row of the tree opens the tree's copy. *)
OpenRequest ==
  \E p \in DOMAIN tree.reqs :
    /\ bar' = OpenTab(bar, p, tree.reqs[p])
    /\ Len(bar'.tabs) <= scene.tabs
    /\ pulled' = IF Open({p}) = {} /\ (behind \/ p \in stale)
                 THEN pulled \cup {p} ELSE pulled
    /\ UNCHANGED <<disk, kept, stale>> /\ Still

-----------------------------------------------------------------------------
(* The collections panel (apply_pending) and the dialogs: the operation, the
   tabs it touches, and the reload that always follows. *)

ToldOf(d) == (kept @@ d :> Told(None, None))[d]
KeptWith(d, name) ==
  IF d \in DOMAIN disk.dirs THEN kept ELSE d :> Told(name, None) @@ kept

Act == changes' = changes + 1 /\ UNCHANGED <<snapshot, autosave, edits>>
Panel == Act /\ Reloaded /\ UNCHANGED <<head, hooking, slips>>

NewCollection ==
  \E n \in scene.names :
    /\ disk' = CreateCollection(disk, n)
    /\ kept' = KeptWith(<<DirName(n)>>, n)
    /\ Panel /\ UNCHANGED <<bar, pulled>>
NewFolder ==
  \E d \in DOMAIN tree.dirs, n \in scene.names :
    /\ disk' = CreateFolder(disk, d, n)
    /\ kept' = KeptWith(Append(d, DirName(n)), n)
    /\ Panel /\ UNCHANGED <<bar, pulled>>
Blank(n) == [name |-> n, text |-> "blank", uses |-> None]
NewRequest ==
  \E d \in DOMAIN tree.dirs, n \in scene.names :
    /\ disk' = CreateRequest(disk, d, Blank(n))
    /\ kept' = FreePath(disk, d, n) :> Blank(n) @@ kept
    /\ Panel /\ UNCHANGED <<bar, pulled>>
Duplicate ==
  \E p \in DOMAIN tree.reqs :
    /\ IF Readable(disk, p)
       THEN LET def == Copy(disk.reqs[p]) IN
            /\ disk' = CreateRequest(disk, Parent(p), def)
            /\ kept' = FreePath(disk, Parent(p), def.name) :> def @@ kept
       ELSE UNCHANGED <<disk, kept>>
    /\ Panel /\ UNCHANGED <<bar, pulled>>

(* The first tab of the request follows it. *)
Retitled(b, p, new, name) ==
  LET at == {i \in DOMAIN b.tabs : b.tabs[i].rel = p}
  IN IF at = {} THEN b
     ELSE [b EXCEPT !.tabs[CHOOSE i \in at : \A j \in at : i <= j] =
            [@ EXCEPT !.rel = new, !.def.name = name]]
Retold(f, p, n) == IF p \in DOMAIN f THEN [f EXCEPT ![p].name = n] ELSE f
RenameRequestTo ==
  \E p \in DOMAIN tree.reqs, n \in scene.names :
    /\ IF MayRename(disk, p, n)
       THEN /\ disk' = RenameRequest(disk, p, n)
            /\ bar' = Retitled(bar, p, Renamed(p, n), n)
            /\ kept' = MovedAll(Retold(kept, p, n), p, Renamed(p, n))
            /\ pulled' = {Moved(q, p, Renamed(p, n)) : q \in pulled} \cup
                         {q \in {p} : Shared(p)}
       ELSE UNCHANGED <<disk, bar, kept, pulled>>
    /\ Panel
(* Tabs below the folder keep the old path. *)
RenameFolderTo ==
  \E d \in DOMAIN tree.dirs, n \in scene.names :
    LET named == d :> [ToldOf(d) EXCEPT !.name = n] @@ kept IN
    /\ Len(d) > 1
    /\ disk' = RenameFolder(disk, d, n)
    /\ IF Placed(d, n) \in DOMAIN disk.dirs
       THEN kept' = named /\ UNCHANGED pulled
       ELSE /\ kept' = MovedAll(named, d, Placed(d, n))
            /\ pulled' = pulled \cup Open(Below(kept, d)) \cup
                         {Moved(q, d, Placed(d, n)) : q \in pulled \cap DOMAIN disk.dirs}
    /\ Panel /\ UNCHANGED bar
DeleteRequestAt ==
  \E p \in DOMAIN tree.reqs :
    /\ IF p \in DOMAIN disk.reqs
       THEN /\ disk' = DeleteRequest(disk, p)
            /\ bar' = CloseTabsMatching(bar, {p})
            /\ kept' = Without(kept, {p})
       ELSE UNCHANGED <<disk, bar, kept>>
    /\ Panel /\ UNCHANGED pulled
DeleteDirAt ==
  \E d \in DOMAIN tree.dirs :
    /\ IF d \in DOMAIN disk.dirs
       THEN /\ disk' = DeleteDir(disk, d)
            /\ bar' = CloseTabsMatching(bar, {p \in Rels : Under(p, d)})
            /\ kept' = Without(kept, Below(kept, d))
       ELSE UNCHANGED <<disk, bar, kept>>
    /\ Panel /\ UNCHANGED pulled
Rows == DOMAIN tree.dirs \cup DOMAIN tree.reqs
GitRevert ==
  \E p \in Rows :
    /\ TRUE \in {Modified(disk.dirs, head.dirs, p), Modified(disk.reqs, head.reqs, p)}
    /\ disk' = Restore(disk, p)
    /\ kept' = Restored(kept, Owed(head), p)
    /\ pulled' = pulled \cup Open(Below(head.reqs, p)) \cup
                 {d \in Below(head.dirs, p) : ~ListsWhatIs(head, d)}
    /\ Panel /\ UNCHANGED bar
GitCommit ==
  \E p \in Rows :
    LET now == [dirs |-> Committed(head.dirs, Tracked(disk.dirs), p),
                reqs |-> Committed(head.reqs, disk.reqs, p)]
    IN /\ now # head /\ head' = now
       /\ Act /\ UNCHANGED <<disk, kept, pulled, bar, hooking, slips>> /\ Reloaded
(* The imported request opens with the definition just parsed. *)
CurlImport ==
  \E d \in DOMAIN tree.dirs, n \in scene.names :
    LET p == FreePath(disk, d, n) IN
    /\ disk' = CreateRequest(disk, d, Blank(n))
    /\ kept' = p :> Blank(n) @@ kept
    /\ bar' = OpenTab(bar, p, Blank(n))
    /\ Panel /\ UNCHANGED pulled

(* The hooks editor stays open beside the rest and works on the file; opening
   it counts as a change, saving does not. *)
EditHooks ==
  \E d \in DOMAIN tree.dirs :
    /\ hooking' = d
    /\ Act /\ UNCHANGED <<disk, kept, stale, pulled, bar, tree, head, behind,
                          slips>>
Persists(s, d) == Len(d) > 1 \/ MetaOf(s, d) # NoMeta
Hooked(s, d) == SaveMeta(s, d, [MetaOf(s, d) EXCEPT !.hooks = "hook"])
SaveHooks ==
  /\ hooking # None /\ hooking' = None
  /\ IF Persists(disk, hooking)
     THEN /\ disk' = Hooked(disk, hooking)
          /\ kept' = hooking :> [ToldOf(hooking) EXCEPT !.hooks = "hook"] @@ kept
          /\ IF tree # None THEN Reloaded ELSE UNCHANGED <<tree, stale, behind>>
     ELSE UNCHANGED <<disk, kept, tree, stale, behind>>
  /\ UNCHANGED <<bar, pulled, head, snapshot, autosave, changes, edits,
                 slips>>
CancelHooks ==
  /\ hooking # None /\ hooking' = None
  /\ UNCHANGED <<disk, bar, kept, pulled, stale>>
  /\ UNCHANGED <<tree, head, snapshot, autosave, behind, changes, edits, slips>>

-----------------------------------------------------------------------------
(* The environment editor: every change goes to both files at once. *)

Hush == "hush"  (* what the user types into the field of a secret *)
NewVar == [secret |-> FALSE, plain |-> None]
NewEnv ==
  LET n == Cardinality(DOMAIN tree.envs) + 1 IN
  /\ n <= scene.envs
  /\ n \notin DOMAIN disk.envs
  /\ disk' = [disk EXCEPT !.envs = n :> NoVars @@ @]
  /\ Panel /\ UNCHANGED <<bar, kept, pulled>>
Typed(e, x, v) ==
  IF e[v].secret THEN <<e, v :> Hush @@ x>>
  ELSE <<[e EXCEPT ![v].plain = "open"], x>>
Flagged(e, x, v) ==
  IF e[v].secret THEN <<[e EXCEPT ![v].secret = FALSE], Without(x, {v})>>
  ELSE <<[e EXCEPT ![v] = [secret |-> TRUE, plain |-> None]], x>>
Changed(e, x) ==
  {<<v :> NewVar @@ e, x>> : v \in Vars} \cup
  UNION {{Typed(e, x, v), Flagged(e, x, v), <<Without(e, {v}), Without(x, {v})>>}
           : v \in DOMAIN e}
EditEnv ==
  \E n \in DOMAIN tree.envs : \E c \in Changed(tree.envs[n], tree.secrets[n]),
     slip \in {0, 1} :
    /\ slips + slip <= scene.slips /\ slips' = slips + slip
    /\ disk' = [disk EXCEPT !.envs = n :> c[1] @@ @,
                  !.secrets = IF slip = 0 THEN n :> c[2] @@ @ ELSE @]
    /\ Act /\ Reloaded /\ UNCHANGED <<bar, kept, pulled, head, hooking>>
DeleteEnv ==
  \E n \in DOMAIN tree.envs \cap DOMAIN disk.envs :
    /\ disk' = [disk EXCEPT !.envs = Without(@, {n}), !.secrets = Without(@, {n})]
    /\ Panel /\ UNCHANGED <<bar, kept, pulled>>

-----------------------------------------------------------------------------
(* Renaming a variable throughout the tree (store/variables.rs).  What changed
   is written file by file; only after the last one the tree and the tabs take
   the new definitions over. *)

Key(f, old, new) ==
  IF old \in DOMAIN f THEN new :> f[old] @@ Without(f, {old}) ELSE f
Ref(def, old, new) == IF def.uses = old THEN [def EXCEPT !.uses = new] ELSE def
Refactored(s, old, new) ==
  [s EXCEPT !.envs = [n \in DOMAIN @ |-> Key(@[n], old, new)],
            !.secrets = [n \in DOMAIN @ |-> Key(@[n], old, new)],
            !.reqs = [p \in DOMAIN @ |-> Ref(@[p], old, new)]]
Taken(s, new) ==
  \/ \E n \in DOMAIN s.envs : new \in DOMAIN s.envs[n] \cup DOMAIN s.secrets[n]
  \/ \E p \in DOMAIN s.reqs : s.reqs[p].uses = new
Differ(f, g) == {k \in DOMAIN f : f[k] # g[k]}
Overlay(f, g, ks) == [k \in ks |-> g[k]] @@ f
Persisted(s, next, es, xs, ps) ==
  [s EXCEPT !.envs = Overlay(@, next.envs, es),
            !.secrets = Overlay(@, next.secrets, xs),
            !.dirs = WithDirs(@, ps),
            !.reqs = Overlay(@, next.reqs, ps)]
MayRefactor(old, new) ==
  /\ bar.front # 0 /\ old = bar.tabs[bar.front].def.uses /\ old # None
  /\ \A i \in Tabs : ~bar.tabs[i].dirty
  /\ old # new /\ ~Taken(tree, new) /\ Refactored(tree, old, new) # tree

RenameVariable ==
  \E old, new \in Vars :
    LET next == Refactored(tree, old, new)
        ps == Differ(tree.reqs, next.reqs)
    IN /\ MayRefactor(old, new)
       /\ disk' = Persisted(disk, next, Differ(tree.envs, next.envs),
                            Differ(tree.secrets, next.secrets), ps)
       /\ tree' = next
       /\ bar' = [bar EXCEPT !.tabs = [i \in DOMAIN @ |->
            IF @[i].rel \in DOMAIN next.reqs
            THEN [@[i] EXCEPT !.def = next.reqs[bar.tabs[i].rel], !.dirty = FALSE]
            ELSE @[i]]]
       /\ kept' = [p \in DOMAIN kept |->
            IF p \in ps /\ (behind \/ p \in stale) THEN next.reqs[p]
            ELSE IF p \in ps THEN Ref(kept[p], old, new)
            ELSE kept[p]]
       /\ pulled' = pulled \cup Open(IF behind THEN DOMAIN tree.reqs ELSE stale)
       /\ stale' = stale \ ps
       /\ Act /\ UNCHANGED <<head, hooking, behind, slips>>
RenameVariableFails ==
  \E old, new \in Vars :
    LET next == Refactored(tree, old, new)
        es == Differ(tree.envs, next.envs)
        xs == Differ(tree.secrets, next.secrets)
        ps == Differ(tree.reqs, next.reqs)
    IN /\ MayRefactor(old, new) /\ slips < scene.slips /\ slips' = slips + 1
       /\ \E written \in SUBSET ps, done \in BOOLEAN :
            /\ written # {} => done
            /\ written # ps
            /\ disk' = IF done THEN Persisted(disk, next, es, xs, written)
                       ELSE Persisted(disk, next, es, {}, {})
            /\ kept' = Overlay(kept, next.reqs, written)
            /\ pulled' = pulled \cup Open(written)
       /\ behind' = TRUE
       /\ Act /\ UNCHANGED <<tree, bar, stale, head, hooking>>

-----------------------------------------------------------------------------
(* The app goes to another project or ends; coming back restores the tabs of
   the requests that are still there. *)
Leave ==
  /\ snapshot' = [open |-> [i \in Tabs |-> bar.tabs[i].rel],
                  at |-> IF bar.front = 0 THEN 1 ELSE bar.front]
  /\ bar' = NoTabs /\ tree' = None
  /\ hooking' \in {hooking, None}
  /\ stale' = {} /\ pulled' = pulled \cap DOMAIN disk.dirs /\ behind' = FALSE
  /\ UNCHANGED <<autosave, changes, edits>>
  /\ UNCHANGED <<disk, kept, head, slips>>
Apply(b, snap) ==
  LET again == FoldLeft(LAMBDA c, p : IF p \in DOMAIN disk.reqs /\ p \in DOMAIN Loaded(disk).reqs
                                      THEN OpenTab(c, p, disk.reqs[p]) ELSE c,
                        b, snap.open)
      meant == {i \in DOMAIN again.tabs :
                  snap.at \in DOMAIN snap.open /\ again.tabs[i].rel = snap.open[snap.at]}
  IN [again EXCEPT !.front =
        IF meant = {} THEN Len(again.tabs) ELSE CHOOSE i \in meant : \A j \in meant : i <= j]
Return ==
  /\ tree = None /\ Loads(disk)
  /\ tree' = Loaded(disk)
  /\ bar' = IF snapshot = None THEN NoTabs ELSE Apply(NoTabs, snapshot)
  /\ snapshot' = None  (* it is written anew before it is read again *)
  /\ UNCHANGED <<disk, kept, head, hooking, stale, pulled, behind, autosave,
                 changes, edits, slips>>

(* Another program leaves a file that does not parse. *)
Spoil ==
  \E p \in DOMAIN disk.reqs :
    /\ disk.reqs[p] # Spoiled /\ slips < scene.slips /\ slips' = slips + 1
    /\ disk' = [disk EXCEPT !.reqs[p] = Spoiled]
    /\ kept' = Without(kept, {p})
    /\ pulled' = pulled \cup {p}
    /\ behind' = TRUE
    /\ UNCHANGED <<tree, bar, stale, head, hooking, snapshot, autosave, changes,
                   edits>>

AtHome ==
  OpenRequest \/ Edit \/ Save \/ SaveAll \/ Select \/ NextTab \/ PrevTab \/ Close
  \/ Leave
Acting ==
  /\ changes < scene.changes
  /\ \/ NewCollection \/ NewFolder \/ NewRequest \/ Duplicate \/ RenameRequestTo
     \/ RenameFolderTo \/ DeleteRequestAt \/ DeleteDirAt \/ GitRevert \/ GitCommit
     \/ CurlImport \/ EditHooks \/ NewEnv \/ EditEnv \/ DeleteEnv
     \/ RenameVariable \/ RenameVariableFails
Next ==
  /\ UNCHANGED scene
  /\ (tree # None /\ (AtHome \/ Acting)) \/ SaveHooks \/ CancelHooks \/ Return \/ Spoil
Spec == Init /\ [][Next]_vars

-----------------------------------------------------------------------------
TypeOK ==
  /\ \A p \in DOMAIN disk.reqs : Above(p) \subseteq DOMAIN disk.dirs
  /\ \A d \in DOMAIN disk.dirs : Above(d) \subseteq DOMAIN disk.dirs
  /\ bar.front \in 0..Len(bar.tabs)
  /\ autosave \in BOOLEAN /\ behind \in BOOLEAN
  /\ tree # None => DOMAIN tree.envs = DOMAIN tree.secrets

(* A tab without the mark of unsaved changes holds none, and shows what its file
   holds unless the file was changed beside it (pulled) (Tab::dirty). *)
CleanMeansSaved ==
  /\ \A i \in Tabs : bar.tabs[i].typed => bar.tabs[i].dirty
  /\ \A i \in Tabs : ~bar.tabs[i].dirty /\ bar.tabs[i].rel \notin pulled =>
       /\ bar.tabs[i].rel \in DOMAIN disk.reqs
       /\ disk.reqs[bar.tabs[i].rel] = bar.tabs[i].def

(* What was saved, imported or created stays in its file, wherever renaming
   moves that, until the user deletes or reverts it: the requests, and the names
   and hooks of the folders (store/ops.rs, hooks_editor.rs). *)
SavedStays ==
  \A p \in DOMAIN kept : p \in DOMAIN Owed(disk) /\ Owed(disk)[p] = kept[p]

(* What the panel shows, runs and refactors is what the disk holds, but for
   requests saved from their tab since the last reload (reload_workspace). *)
PanelFollowsDisk ==
  tree # None /\ ~behind =>
    LET now == Loaded(disk)
    IN /\ tree.envs = now.envs /\ tree.secrets = now.secrets
       /\ Without(now.dirs, UNION {Above(p) : p \in stale} \ DOMAIN tree.dirs) = tree.dirs
       /\ DOMAIN now.reqs \ DOMAIN tree.reqs \subseteq stale
       /\ \A p \in DOMAIN tree.reqs \ stale :
            p \in DOMAIN now.reqs /\ now.reqs[p] = tree.reqs[p]

(* Two tabs never edit the same request, unless one of them had its file moved
   or reverted away (AppState::open_tab). *)
OneTabPerRequest ==
  \A i, j \in Tabs : i # j /\ bar.tabs[i].rel = bar.tabs[j].rel =>
    bar.tabs[i].rel \in pulled

(* Some tab is in front whenever there is one (close_tab, local::apply). *)
FrontFits == bar.front = 0 <=> bar.tabs = <<>>

(* The order of a folder lists only what is in it (patch_parent_order), unless
   git brought back an order that lists what was never committed. *)
OrderListsWhatIs ==
  \A d \in DOMAIN disk.dirs \ pulled : ListsWhatIs(disk, d)

(* What was typed as a secret never gets into the file that is committed
   (env_editor.rs, rename_key). *)
SecretsStayOut ==
  \A n \in DOMAIN disk.envs : \A v \in DOMAIN disk.envs[n] :
    disk.envs[n][v].plain # Hush
================================================================================
