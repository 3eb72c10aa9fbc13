------------------------------- MODULE V1Editor -------------------------------
(***************************************************************************)
(* The request editor of the desktop app (forge-gui/src/dialogs/            *)
(* v1_editor.rs, and what panels/assets.rs does to the files under it).  A *)
(* request is three files: the document and its assertion and hook         *)
(* sidecars; documents of older projects carry their checks inline and are *)
(* taken apart when they are opened or saved.  Runs, previews and advice   *)
(* come back through the bridge whenever they are ready, possibly after    *)
(* another request was opened.                                             *)
(***************************************************************************)
EXTENDS Naturals, Sequences, SequencesExt

CONSTANTS
  Projects,   (* project roots *)
  Requests,   (* request paths *)
  RootOf,     (* the project each path belongs to *)
  Stored,     (* what the disk may hold at the start: a set of disks *)
  Typed,      (* the documents the user may leave in the text pane *)
  Checks,     (* catalog entries *)
  Unreadable, (* projects whose project.json does not load *)
  MaxList,    (* bound on the entries of a sidecar *)
  MaxSteps,   (* bound on the user's actions *)
  MaxFaults,  (* bound on the writes that fail *)
  None

Kinds == {"assertion", "hook"}

(* A document: a body that parses or not, the regression mark of its meta,
   and the checks written inline. *)
Broken == "broken"
Inline == UNION {[Kinds -> {<<>>, <<c>>}] : c \in Checks}
Absent == [body |-> None, mark |-> FALSE, inline |-> [k \in Kinds |-> <<>>]]
Parses(doc) == doc.body \notin {Broken, None}
NoChecks == [k \in Kinds |-> <<>>]
Taken(doc) == [doc EXCEPT !.inline = NoChecks]
Bodies == {d.body : d \in Typed} \cup
          {disk[r].doc.body : disk \in Stored, r \in Requests}
Doc == [body : Bodies \cup {None}, mark : BOOLEAN, inline : Inline]
Lists == [Kinds -> Seq(Checks)]

VARIABLES
  disk,     (* each request's document and sidecars *)
  authOn,   (* project.json: the request that provides the token, per project *)
  ed,       (* V1EditorState *)
  asked,    (* runs, previews and advice the bridge has not answered *)
  setting,  (* AppState::auto_save *)
  owed,     (* history: the checks the user configured for the open request *)
  lost,     (* history: how edits went away that autosave never saved *)
  touched,  (* history: requests another program wrote since the editor did *)
  steps, faults

vars == <<disk, authOn, ed, asked, setting, owed, lost, touched, steps,
          faults>>
history == <<owed, lost, touched>>

NoPreview == [body |-> None, resp |-> None]

Closed ==
  [open |-> FALSE, file |-> None, root |-> None, isNew |-> FALSE,
   text |-> Absent, valid |-> Absent, lists |-> NoChecks, dirty |-> FALSE,
   auto |-> FALSE, index |-> None, auth |-> None, authDirty |-> FALSE,
   editing |-> [k \in Kinds |-> 0], form |-> None,
   run |-> 0, nextRun |-> 1, results |-> None, resp |-> None,
   prev |-> 0, nextPrev |-> 1, preview |-> NoPreview,
   advice |-> 0, nextAdvice |-> 1, answer |-> None]

Init ==
  /\ disk \in Stored
  /\ authOn = [p \in Projects |-> None]
  /\ ed = Closed
  /\ asked = {}
  /\ setting \in BOOLEAN
  /\ owed = NoChecks
  /\ lost = {} /\ touched = {}
  /\ steps = 0 /\ faults = 0

-----------------------------------------------------------------------------
(* Parts of the handlers, as functions of the editor. *)

ClearPreview(e) == [e EXCEPT !.prev = 0, !.preview = NoPreview]
Validate(e) == [e EXCEPT !.valid = e.text]

(* load_index: nothing is replaced when the project does not load. *)
LoadIndex(e) ==
  IF e.root \in Unreadable THEN e
  ELSE [e EXCEPT !.index = e.root,
                 !.auth = IF e.authDirty THEN @ ELSE authOn[e.root]]

(* Changing the text in the pane, by typing, formatting, inserting or taking
   an operation from the OpenAPI document. *)
Edited(e, doc) == [ClearPreview(e) EXCEPT !.text = doc, !.dirty = TRUE]

(* AssertionDocument::push, HookDocument::push: an entry that is there stays
   where it is. *)
Pushed(list, c) == IF c \in ToSet(list) THEN list ELSE Append(list, c)

(* One after the other. *)
PushedAll(list, more) ==
  LET f[i \in 0 .. Len(more)] ==
        IF i = 0 THEN list ELSE Pushed(f[i - 1], more[i])
  IN f[Len(more)]

AllChecks(doc, lists) ==
  [k \in Kinds |-> PushedAll(lists[k], IF Parses(doc) THEN doc.inline[k] ELSE <<>>)]

(* take_from_request: inline checks move behind those of the sidecars. *)
Extract(e) ==
  IF Parses(e.text)
  THEN [e EXCEPT !.text = Taken(@), !.lists = AllChecks(e.text, @)]
  ELSE e

(* Where a write fails, if it does: the document, a sidecar, or nowhere. *)
Failure == {"none", "document", "assertion", "hook"}

(* save_now: [ed, disk, ok]. *)
SaveNow(e, w) ==
  LET x == Extract(e)
      clash == x.isNew /\ disk[x.file].doc # Absent
      old == disk[x.file]
      written == [doc |-> x.text,
                  lists |-> CASE w = "none" -> x.lists
                              [] w = "hook" -> [old.lists EXCEPT
                                   !["assertion"] = x.lists["assertion"]]
                              [] OTHER -> old.lists]
  IN IF w = "document" \/ clash
     THEN [ed |-> x, disk |-> disk, ok |-> FALSE]
     ELSE [ed |-> IF w = "none"
                  THEN LoadIndex(Validate([x EXCEPT !.isNew = FALSE,
                                                    !.dirty = FALSE]))
                  ELSE [x EXCEPT !.isNew = FALSE],
           disk |-> [disk EXCEPT ![x.file] = written],
           ok |-> w = "none"]

(* No save: the result of a step that need not save first. *)
NoSave == [ed |-> ed, disk |-> disk, ok |-> TRUE]

(* What opening a document of either sort resets. *)
Fresh(e, f) ==
  LET o == [ClearPreview(e) EXCEPT
              !.open = TRUE, !.file = f, !.root = RootOf[f],
              !.run = 0, !.results = None, !.resp = None,
              !.editing = [k \in Kinds |-> 0], !.authDirty = FALSE,
              !.advice = 0, !.answer = None]
  IN LoadIndex(o)

Loaded(e, f, d) ==
  LET doc == d[f].doc
      moved == Parses(doc) /\ doc.inline # NoChecks
      text == IF moved THEN Taken(doc) ELSE doc
  IN [Validate([Fresh(e, f) EXCEPT !.text = text])
        EXCEPT !.lists = IF moved THEN AllChecks(doc, d[f].lists)
                         ELSE d[f].lists,
               !.isNew = FALSE, !.dirty = moved]

(* available_path: a path of the project that is free now. *)
FreePath(p, d) == {f \in Requests : RootOf[f] = p /\ d[f].doc = Absent}
Skeleton == CHOOSE d \in Typed : Parses(d) /\ d.inline = NoChecks
Started(e, f) ==
  [Validate([Fresh(e, f) EXCEPT !.text = Skeleton])
     EXCEPT !.lists = NoChecks, !.isNew = TRUE, !.dirty = TRUE]

-----------------------------------------------------------------------------
(* Bookkeeping shared by the actions. *)
User ==
  /\ steps < MaxSteps
  /\ steps' = steps + 1

Unfaulted == UNCHANGED faults
Faulting(w) ==
  /\ w # "none" => faults < MaxFaults
  /\ faults' = faults + (IF w = "none" THEN 0 ELSE 1)

(* The edits of the open request are in d. *)
Kept(d) == /\ d[ed.file].doc.body = ed.text.body
           /\ AllChecks(d[ed.file].doc, d[ed.file].lists)
                = AllChecks(ed.text, ed.lists)

(* The open request goes away; what d does not hold of it is lost. *)
Leaving(d, how) ==
  lost' = IF ed.auto /\ ed.dirty /\ ~Kept(d) THEN lost \cup {how} ELSE lost

Owing(e) == owed' = AllChecks(e.text, e.lists)

(* The next frame copies the setting into the editor that is shown. *)
Synced(e) == [e EXCEPT !.auto = IF e.open THEN setting ELSE @]

-----------------------------------------------------------------------------
(* Actions. *)

(* open_file, from the project tree. *)
OpenFile(f, w) ==
  /\ User /\ Faulting(w)
  /\ disk[f].doc # Absent
  /\ LET first == ed.auto /\ ed.dirty /\ ed.file # f
         s == IF first THEN SaveNow(ed, w) ELSE NoSave
     IN /\ first \/ w = "none"
        /\ disk' = s.disk
        /\ IF s.ok
           THEN /\ ed' = Synced(Loaded(s.ed, f, s.disk))
                /\ Leaving(s.disk, IF ed.file = f THEN "reload" ELSE "open")
                /\ owed' = AllChecks(s.disk[f].doc, s.disk[f].lists)
                /\ touched' = touched \ {f}
           ELSE ed' = s.ed /\ UNCHANGED history
  /\ UNCHANGED <<authOn, asked, setting>>

(* Variant: a new request replaces the edited one without saving it. *)
NewInUnsaved(p, w) ==
  [NoSave EXCEPT !.ed = Started(@, CHOOSE f \in FreePath(p, disk) : TRUE)]

(* open_new_in's outcome for project p: [ed, disk, ok]. *)
NewIn(p, w) ==
  LET s == IF ed.auto /\ ed.dirty THEN SaveNow(ed, w) ELSE NoSave
  IN IF s.ok
     THEN [s EXCEPT !.ed = Started(@, CHOOSE f \in FreePath(p, s.disk) : TRUE)]
     ELSE s

(* Bound: a project has a free path left even when one is saved first. *)
Room(p) == FreePath(p, disk) \ {ed.file} # {}

OpenNew(p, w) ==
  /\ User /\ Faulting(w)
  /\ Room(p)
  /\ (ed.auto /\ ed.dirty) \/ w = "none"
  /\ LET s == NewIn(p, w)
     IN /\ ed' = Synced(s.ed) /\ disk' = s.disk
        /\ IF s.ok THEN Leaving(s.disk, "new") /\ Owing(s.ed)
           ELSE UNCHANGED <<lost, owed>>
  /\ UNCHANGED <<authOn, asked, setting, touched>>

(* The close button: with autosave, only once the request is saved. *)
Close(w) ==
  /\ User /\ Faulting(w)
  /\ ed.open
  /\ LET first == ed.auto /\ ed.dirty
         s == IF first THEN SaveNow(ed, w) ELSE NoSave
     IN /\ first \/ w = "none"
        /\ disk' = s.disk
        /\ ed' = [s.ed EXCEPT !.open = ~s.ok]
  /\ UNCHANGED <<authOn, asked, setting, history>>

(* The text pane changed, format_request, apply_openapi_to_editor and the
   catalog's binding and mock inserts: a new text. *)
Edit(doc) ==
  /\ User /\ Unfaulted
  /\ ed.open /\ doc # ed.text
  /\ ed' = Edited(ed, doc)
  /\ Owing(Edited(ed, doc))
  /\ UNCHANGED <<disk, authOn, asked, setting, lost, touched>>

(* refresh_editor_validation, once the typing has paused. *)
Revalidate ==
  /\ ed.open /\ ed.valid # ed.text
  /\ ed' = Validate(ed)
  /\ UNCHANGED <<disk, authOn, asked, setting, history, steps, faults>>

(* The toolbar's Save. *)
Save(w) ==
  /\ User /\ Faulting(w)
  /\ ed.open
  /\ ed' = SaveNow(ed, w).ed
  /\ disk' = SaveNow(ed, w).disk
  /\ touched' = IF SaveNow(ed, w).ok THEN touched \ {ed.file} ELSE touched
  /\ UNCHANGED <<authOn, asked, setting, owed, lost>>

(* properties_dialog's regression mark, on the open request or another. *)
SetRegression(f, w) ==
  /\ User /\ Faulting(w)
  /\ disk[f].doc # Absent
  /\ IF ed.file = f
     THEN /\ Parses(ed.text)
          /\ LET m == [ed EXCEPT !.text.mark = ~@, !.dirty = TRUE]
             IN ed' = SaveNow(m, w).ed /\ disk' = SaveNow(m, w).disk
     ELSE /\ Parses(disk[f].doc) /\ w = "none"
          /\ disk' = [disk EXCEPT ![f].doc.mark = ~@]
          /\ UNCHANGED ed
  /\ UNCHANGED <<authOn, asked, setting, history>>

ToggleAutoSave ==
  /\ User /\ Unfaulted
  /\ setting' = ~setting
  /\ ed' = [ed EXCEPT !.auto = IF ed.open THEN ~setting ELSE @]
  /\ UNCHANGED <<disk, authOn, asked, history>>

-----------------------------------------------------------------------------
(* The assertion and hook panes and the catalog form behind them. *)

Select(e) == [ClearPreview(e) EXCEPT !.editing = [k \in Kinds |-> 0]]

(* begin_assertion_edit, begin_hook_edit. *)
Begin(e, k, i) ==
  [Select(e) EXCEPT !.editing[k] = i, !.form = e.lists[k][i]]

BeginEdit(k, i) ==
  /\ User /\ Unfaulted
  /\ ed.open /\ i \in DOMAIN ed.lists[k]
  /\ ed' = Begin(ed, k, i)
  /\ UNCHANGED <<disk, authOn, asked, setting, history>>

(* "+ Add": the entry is pushed and the first equal one is edited. *)
AddEntry(k, c) ==
  /\ User /\ Unfaulted
  /\ ed.open /\ Len(AllChecks(ed.text, ed.lists)[k]) < MaxList
  /\ LET longer == Pushed(ed.lists[k], c)
         first == CHOOSE i \in DOMAIN longer :
                    longer[i] = c /\ \A j \in 1..(i - 1) : longer[j] # c
         e == [ed EXCEPT !.lists[k] = longer, !.dirty = TRUE]
     IN ed' = Begin(e, k, first) /\ Owing(e)
  /\ UNCHANGED <<disk, authOn, asked, setting, lost, touched>>

(* Removing shifts the entry being edited with the list. *)
Shift(at, i) == CASE at = i -> 0
                  [] at > i -> at - 1
                  [] OTHER -> at

RemoveEntry(k, i) ==
  /\ User /\ Unfaulted
  /\ ed.open /\ i \in DOMAIN ed.lists[k]
  /\ LET e == [ed EXCEPT !.lists[k] = RemoveAt(@, i), !.dirty = TRUE,
                         !.editing[k] = Shift(@, i)]
     IN ed' = e /\ Owing(e)
  /\ UNCHANGED <<disk, authOn, asked, setting, lost, touched>>

(* apply_insert of an assertion or a hook: the one being edited, if any, is
   replaced, whether the insert comes from its form or from a palette row. *)
ApplyInsert(e, k, c) ==
  LET i == e.editing[k]
      lists == [e.lists EXCEPT ![k] = IF i = 0 THEN Pushed(@, c)
                                      ELSE ReplaceAt(@, i, c)]
  IN ClearPreview([e EXCEPT !.lists = lists, !.editing[k] = 0,
                            !.dirty = TRUE])

Insert(k, c) ==
  /\ User /\ Unfaulted
  /\ ed.open
  /\ \/ ed.editing[k] # 0
     \/ Len(AllChecks(ed.text, ed.lists)[k]) < MaxList
  /\ ed' = ApplyInsert(ed, k, c)
  /\ Owing(ed')
  /\ UNCHANGED <<disk, authOn, asked, setting, lost, touched>>

(* Another asset or built-in is selected in the catalog. *)
SelectAsset ==
  /\ User /\ Unfaulted
  /\ ed.open /\ ed.editing # [k \in Kinds |-> 0]
  /\ ed' = Select(ed)
  /\ UNCHANGED <<disk, authOn, asked, setting, history>>

-----------------------------------------------------------------------------
(* Runs, previews, advice. *)

(* What a question was asked about. *)
Question(kind, id) ==
  [kind |-> kind, id |-> id, file |-> ed.file, body |-> ed.text.body,
   resp |-> ed.resp]

Asking(kind, id) == asked' = asked \cup {Question(kind, id)}

Running(e) ==
  [e EXCEPT !.open = TRUE, !.run = e.nextRun, !.nextRun = @ + 1,
            !.results = None, !.resp = None]

(* run_now: the button is off while a run is in flight. *)
Run ==
  /\ User /\ Unfaulted
  /\ ed.open /\ ed.run = 0 /\ Parses(ed.text)
  /\ ed' = Running(ed)
  /\ Asking("run", ed.nextRun)
  /\ UNCHANGED <<disk, authOn, setting, history>>

(* run_affected and run_sequence, from the project tree: a project that is not
   the editor's gets a new request first, saved or not. *)
RunBatch(p, w) ==
  /\ User /\ Faulting(w)
  /\ p = ed.root \/ Room(p)
  /\ (p # ed.root /\ ed.auto /\ ed.dirty) \/ w = "none"
  /\ LET s == IF p = ed.root THEN NoSave ELSE NewIn(p, w)
     IN /\ ed' = Synced(Running(s.ed)) /\ disk' = s.disk
        /\ asked' = asked \cup
             {[Question("run", ed.nextRun) EXCEPT !.file = s.ed.file]}
        /\ IF s.ok /\ p # ed.root
           THEN Leaving(s.disk, "batch") /\ Owing(s.ed)
           ELSE UNCHANGED <<lost, owed>>
  /\ UNCHANGED <<authOn, setting, touched>>

(* preview_now: an entry that runs after the response needs one. *)
Preview(after) ==
  /\ User /\ Unfaulted
  /\ ed.open /\ ed.prev = 0
  /\ after => ed.resp # None
  /\ ed' = [ed EXCEPT !.prev = ed.nextPrev, !.nextPrev = @ + 1,
                      !.preview = NoPreview]
  /\ Asking("preview", ed.nextPrev)
  /\ UNCHANGED <<disk, authOn, setting, history>>

(* results_pane: another item of a matrix or batch is looked at. *)
SelectResult(b) ==
  /\ User /\ Unfaulted
  /\ ed.open /\ ed.results # None
  /\ ed' = [ClearPreview(ed) EXCEPT !.resp = b]
  /\ UNCHANGED <<disk, authOn, asked, setting, history>>

(* start_advisor. *)
Advise ==
  /\ User /\ Unfaulted
  /\ ed.open /\ ed.advice = 0 /\ Parses(ed.text)
  /\ ed' = [ed EXCEPT !.advice = ed.nextAdvice, !.nextAdvice = @ + 1,
                      !.answer = None]
  /\ Asking("advice", ed.nextAdvice)
  /\ UNCHANGED <<disk, authOn, setting, history>>

(* handle_result, handle_preview, handle_advisor: an answer counts only while
   its id is the active one. *)
Answered(q) == asked' = asked \ {q}

HandleResult(q, ok) ==
  /\ q \in asked /\ q.kind = "run" /\ Answered(q)
  /\ ed' = IF ed.run # q.id THEN ed
           ELSE LET e == [ClearPreview(ed) EXCEPT !.run = 0]
                IN IF ok THEN [e EXCEPT !.results = q.file, !.resp = q.body]
                   ELSE e
  /\ UNCHANGED <<disk, authOn, setting, history, steps, faults>>

HandlePreview(q) ==
  /\ q \in asked /\ q.kind = "preview" /\ Answered(q)
  /\ ed' = IF ed.prev # q.id THEN ed
           ELSE [ed EXCEPT !.prev = 0,
                           !.preview = [body |-> q.body, resp |-> q.resp]]
  /\ UNCHANGED <<disk, authOn, setting, history, steps, faults>>

HandleAdvice(q) ==
  /\ q \in asked /\ q.kind = "advice" /\ Answered(q)
  /\ ed' = IF ed.advice # q.id THEN ed
           ELSE [ed EXCEPT !.advice = 0, !.answer = q.file]
  /\ UNCHANGED <<disk, authOn, setting, history, steps, faults>>

-----------------------------------------------------------------------------
(* The authentication pane. *)

(* activate_auth_request and save_project_auth: load project.json, replace
   its auth, write it. *)
ActivateAuth(w) ==
  /\ User /\ Faulting(w) /\ w \in {"none", "document"}
  /\ ed.open /\ ~ed.isNew /\ ed.file # None
  /\ LET ok == w = "none" /\ ed.root \notin Unreadable
     IN /\ ed' = [ed EXCEPT !.auth = ed.file, !.authDirty = ~ok]
        /\ authOn' = IF ok THEN [authOn EXCEPT ![ed.root] = ed.file] ELSE authOn
  /\ UNCHANGED <<disk, asked, setting, history>>

(* create_provider_auth_request: the document is written first, and removed
   again when the secret or project.json cannot be written. *)
CreateAuth(f, w) ==
  /\ User /\ Faulting(w)
  /\ ed.open /\ f \in FreePath(ed.root, disk) \ {ed.file}
  /\ LET ok == w = "none" /\ ed.root \notin Unreadable
         made == [doc |-> Skeleton, lists |-> NoChecks]
     IN /\ disk' = IF ok THEN [disk EXCEPT ![f] = made] ELSE disk
        /\ authOn' = IF ok THEN [authOn EXCEPT ![ed.root] = f] ELSE authOn
        /\ ed' = IF ok THEN [ed EXCEPT !.auth = f, !.authDirty = FALSE,
                                      !.index = ed.root]
                 ELSE ed
  /\ UNCHANGED <<asked, setting, history>>

(* Another program, such as git, writes the file of the open request.  Bound:
   only that one, since another request is read when it is opened. *)
External(doc) ==
  /\ faults < MaxFaults /\ faults' = faults + 1
  /\ ed.file # None
  /\ disk' = [disk EXCEPT ![ed.file].doc = doc]
  /\ touched' = touched \cup {ed.file}
  /\ UNCHANGED <<authOn, ed, asked, setting, owed, lost, steps>>

UserNext ==
  \/ \E f \in Requests, w \in Failure :
       OpenFile(f, w) \/ CreateAuth(f, w) \/ SetRegression(f, w)
  \/ \E p \in Projects, w \in Failure : OpenNew(p, w) \/ RunBatch(p, w)
  \/ \E w \in Failure : Close(w) \/ Save(w) \/ ActivateAuth(w)
  \/ \E doc \in Typed : Edit(doc)
  \/ \E b \in Bodies : SelectResult(b)
  \/ ToggleAutoSave \/ SelectAsset \/ Run \/ Advise
  \/ \E after \in BOOLEAN : Preview(after)
  \/ \E k \in Kinds, i \in 1..MaxList : BeginEdit(k, i) \/ RemoveEntry(k, i)
  \/ \E k \in Kinds, c \in Checks : AddEntry(k, c) \/ Insert(k, c)

Handle ==
  \/ Revalidate
  \/ \E q \in asked : \/ \E ok \in BOOLEAN : HandleResult(q, ok)
                      \/ HandlePreview(q) \/ HandleAdvice(q)

Next == UserNext \/ Handle \/ \E doc \in Typed : External(doc)
Spec == Init /\ [][Next]_vars

-----------------------------------------------------------------------------
(* Properties. *)

TypeOK ==
  /\ disk \in [Requests -> [doc : Doc, lists : Lists]]
  /\ authOn \in [Projects -> Requests \cup {None}]
  /\ ed.file \in Requests \cup {None} /\ ed.root \in Projects \cup {None}
  /\ ed.text \in Doc /\ ed.valid \in Doc /\ ed.lists \in Lists
  /\ {ed.run, ed.prev, ed.advice} \subseteq 0..MaxSteps
  /\ \A q \in asked : q.kind \in {"run", "preview", "advice"}
  /\ lost \subseteq {"open", "reload", "new", "batch"}

(* An editor without the dirty mark shows what the three files hold, however
   saves, failed writes and migrations were mixed (save_now, open_file). *)
CleanMeansSaved ==
  ed.file # None /\ ~ed.dirty /\ ed.file \notin touched =>
    disk[ed.file] = [doc |-> ed.text, lists |-> ed.lists]

(* Moving inline checks to the sidecars loses none and repeats none, even
   when a write fails half way and the save is tried again. *)
ChecksConserved == AllChecks(ed.text, ed.lists) = owed

(* The entry a catalog form was filled from is the one its Save replaces,
   however the list changed in between. *)
FormEditsItsEntry ==
  \A k \in Kinds : ed.editing[k] # 0 =>
    ed.editing[k] \in DOMAIN ed.lists[k] /\ ed.lists[k][ed.editing[k]] = ed.form

(* Results and advice shown were asked for the request that is open, and a
   preview for the text and the response that are shown with it. *)
AnswersBelong ==
  /\ ed.results \in {None, ed.file}
  /\ ed.answer \in {None, ed.file}
  /\ ed.preview # NoPreview /\ ed.run = 0 =>
       ed.preview = [body |-> ed.text.body, resp |-> ed.resp]

(* With autosave on, opening another request, a new one or a batch of another
   project never drops edits; choosing the open request again does. *)
AutoSaveKeepsWork == lost \subseteq {"reload"}

(* The project's auth request exists and is one of the project; a failed
   creation leaves none behind. *)
AuthBacked ==
  /\ \A p \in Projects : authOn[p] # None =>
       RootOf[authOn[p]] = p /\ disk[authOn[p]].doc # Absent
  /\ ed.index = ed.root /\ ed.root # None /\ ~ed.authDirty =>
       ed.auth = authOn[ed.root]
===============================================================================
