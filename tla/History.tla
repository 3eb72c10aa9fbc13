--------------------------------- MODULE History ---------------------------------
(***************************************************************************)
(* Execution history: the store of each workspace                          *)
(* (forge-core/src/history/store.rs), its tool window                      *)
(* (forge-gui/src/panels/history.rs), and what the app records when a run   *)
(* ends (app.rs).  Runs last; meanwhile the request may be edited, another  *)
(* environment chosen and another workspace opened.                         *)
(***************************************************************************)
EXTENDS Naturals, Sequences, FiniteSets

CONSTANTS
  Workspaces, Envs, Methods,
  Statuses,          (* of the responses *)
  Filters,           (* the settings of the list: see NoFilter *)
  Sizes, MaxBody,    (* response sizes, and MAX_STORED_BODY_BYTES *)
  Limit,             (* HistoryFilter.limit *)
  MaxRuns, MaxAtOnce, (* bounds on runs, and on those under way at a time *)
  MaxTurns,           (* bound on edits, choices and switches *)
  None

VARIABLES
  ws, env, defs,  (* the open workspace, active_env, the method of each definition *)
  snaps,          (* the environment in each workspace's ui-state.json, None where
                     there is no such file or it does not parse *)
  stores,         (* of each workspace: rows in order of insertion, and the next id *)
  ui,             (* HistoryUiState *)
  running,        (* runs under way *)
  made, turns     (* runs made so far; bound *)

vars == <<ws, env, defs, snaps, stores, ui, running, made, turns>>

(* A run, as history: what it was started with and whether that changed.  A
   legacy run is recorded from the definition, a v1 run from its own report. *)
Run(legacy) ==
  [uid |-> made + 1, legacy |-> legacy, ws |-> ws, env |-> env, method |-> defs[ws],
   moved |-> FALSE, rechosen |-> FALSE, edited |-> FALSE]

NoFilter == [method |-> None, class |-> None]
Init ==
  /\ ws \in Workspaces /\ env \in Envs
  /\ defs \in [Workspaces -> Methods]
  /\ snaps \in [Workspaces -> Envs \cup {None}]
  /\ stores = [w \in Workspaces |-> [rows |-> << >>, next |-> 1]]
  /\ ui = [filter |-> NoFilter, rows |-> << >>, loaded |-> FALSE, selected |-> << >>,
           ticked |-> << >>]
  /\ running = {} /\ made = 0 /\ turns = 0

-----------------------------------------------------------------------------
(* HistoryStore. *)

(* cap_body, for a body of this size: what is stored of it. *)
Capped(size) == [size |-> IF size > MaxBody THEN MaxBody ELSE size, truncated |-> size > MaxBody]

(* AUTOINCREMENT: the id of a deleted row is not given again. *)
(* Variant: the id after the last one. *)
NextIdReused(store) == IF store.rows = << >> THEN 1 ELSE store.rows[Len(store.rows)].id + 1
NextId(store) == store.next
RecordRaw(store, entry) ==
  LET id == NextId(store)
  IN [rows |-> Append(store.rows, [entry EXCEPT !.id = id]), next |-> id + 1]

(* StatusFilter::range. *)
RangeOf(class) ==
  CASE class = "2xx" -> <<200, 299>> [] class = "5xx" -> <<500, 599>> [] OTHER -> <<None, None>>

(* list: the WHERE clauses and the values bound to their placeholders. *)
Clause(column, value) == IF value = None THEN << >> ELSE <<[column |-> column, value |-> value]>>
Given(filter) ==
  Clause("method", filter.method) \o Clause("min", RangeOf(filter.class)[1])
    \o Clause("max", RangeOf(filter.class)[2])
(* Each clause takes the place after the values pushed so far. *)
Placeholder(given, k) == k

Passes(row, column, value) ==
  CASE column = "method" -> row.method = value
    [] column = "min" -> row.status # None /\ row.status >= value
    [] column = "max" -> row.status # None /\ row.status <= value
Selects(given, row) ==
  \A k \in DOMAIN given :
    Passes(row, given[k].column, given[Placeholder(given, k)].value)
NewestFirst(rows) == [k \in DOMAIN rows |-> rows[Len(rows) + 1 - k]]

(* What stands at these places, in its order. *)
Picked(q, places) ==
  LET f[k \in 0 .. Len(q)] ==
        IF k = 0 THEN << >> ELSE IF k \in places THEN Append(f[k - 1], q[k]) ELSE f[k - 1]
  IN f[Len(q)]
List(store, filter) ==
  LET found == NewestFirst(Picked(store.rows,
                 {k \in DOMAIN store.rows : Selects(Given(filter), store.rows[k])}))
  IN [k \in 1 .. IF Len(found) < Limit THEN Len(found) ELSE Limit |-> found[k]]

Has(store, id) == \E k \in DOMAIN store.rows : store.rows[k].id = id
Get(store, id) == store.rows[CHOOSE k \in DOMAIN store.rows : store.rows[k].id = id]
Without(store, id) ==
  [store EXCEPT !.rows = Picked(@, {k \in DOMAIN store.rows : store.rows[k].id # id})]

-----------------------------------------------------------------------------
(* The app. *)

Turn == turns < MaxTurns /\ turns' = turns + 1
(* A run under way remembers what changed since it started. *)

Start(legacy) ==
  /\ made < MaxRuns /\ Cardinality(running) < MaxAtOnce /\ made' = made + 1 /\ running' = running \cup {Run(legacy)}
  /\ UNCHANGED <<ws, env, defs, snaps, stores, ui, turns>>

ChooseEnv(e) ==
  /\ Turn /\ e # env /\ env' = e
  /\ running' = {[r EXCEPT !.rechosen = TRUE] : r \in running}
  /\ UNCHANGED <<ws, defs, snaps, stores, ui, made>>

EditDefinition(m) ==
  /\ Turn /\ m # defs[ws] /\ defs' = [defs EXCEPT ![ws] = m]
  /\ running' = {[r EXCEPT !.edited = @ \/ r.ws = ws] : r \in running}
  /\ UNCHANGED <<ws, env, snaps, stores, ui, made>>

(* switch_workspace leaves the environment in the ui-state.json of the old
   workspace, which may fail and leave what was there or a torn file;
   on_workspace_opened takes over that of the new one (local.rs: save, load,
   apply).  The list is to be loaded again; what is ticked, viewed and compared
   stays. *)
Reopened(u) == [u EXCEPT !.loaded = FALSE]
EnvIn(w) == IF snaps[w] = None THEN env ELSE snaps[w]
Switch(w, left) ==
  /\ Turn /\ w # ws /\ ws' = w /\ ui' = Reopened(ui)
  /\ left \in {env, snaps[ws], None} /\ snaps' = [snaps EXCEPT ![ws] = left]
  /\ env' = EnvIn(w)
  /\ running' = {[r EXCEPT !.moved = TRUE, !.rechosen = @ \/ EnvIn(w) # env] : r \in running}
  /\ UNCHANGED <<defs, stores, made>>

(* new_entry_from_outcome, record_from_v1.  The environment is the active one,
   the method of a legacy run is the one its definition has now. *)
Entry(run, status, size) ==
  [id |-> 0, uid |-> run.uid, run |-> run, env |-> env, status |-> status,
   body |-> Capped(IF status = None THEN 0 ELSE size),
   method |-> IF run.legacy THEN defs[ws] ELSE run.method]

(* record_history, record_v1_history: only the latter has the list loaded
   again. *)
Finish(run, status, size, saved) ==
  /\ run \in running /\ running' = running \ {run}
  /\ stores' = IF saved THEN [stores EXCEPT ![ws] = RecordRaw(@, Entry(run, status, size))]
               ELSE stores
  /\ ui' = IF run.legacy THEN ui ELSE Reopened(ui)
  /\ UNCHANGED <<ws, env, defs, snaps, made, turns>>

-----------------------------------------------------------------------------
(* The tool window, show.  Every click is on a list that is loaded; viewing a
   row and comparing two only read them. *)

Refreshed(u, store, filter) ==
  [u EXCEPT !.rows = List(store, filter), !.filter = filter, !.loaded = TRUE]
Shown == ui.loaded
Only(u) == ui' = u /\ UNCHANGED <<ws, env, defs, snaps, stores, running, made, turns>>

Load == ~ui.loaded /\ Only(Refreshed(ui, stores[ws], ui.filter))
ChooseFilter(filter) == Shown /\ filter # ui.filter /\ Only([ui EXCEPT !.filter = filter])
Search == Shown /\ Only(Refreshed(ui, stores[ws], ui.filter))

(* toggle_diff_selection: two at most, the oldest goes. *)
Toggled(selected, id) ==
  IF \E k \in DOMAIN selected : selected[k] = id
    THEN Picked(selected, DOMAIN selected \ {CHOOSE k \in DOMAIN selected : selected[k] = id})
  ELSE Append(IF Len(selected) >= 2 THEN Tail(selected) ELSE selected, id)
Toggle(row) ==
  /\ Shown
  /\ LET kept == Toggled(ui.selected, row.id)
     IN Only([ui EXCEPT !.selected = kept,
                        !.ticked = [k \in DOMAIN kept |->
                          IF kept[k] = row.id THEN [uid |-> row.uid, ws |-> ws]
                          ELSE ui.ticked[CHOOSE j \in DOMAIN ui.selected :
                                           ui.selected[j] = kept[k]]]])

(* "Diff selected": the rows of the ticked ids, when both are still there. *)
Compared == [k \in DOMAIN ui.selected |->
  IF Has(stores[ws], ui.selected[k]) THEN Get(stores[ws], ui.selected[k]).uid ELSE None]

(* The list is loaded again in the same frame. *)
Deleted(u, store) == Refreshed(u, store, u.filter)
Delete(row) ==
  /\ Shown
  /\ LET left == Without(stores[ws], row.id)
     IN stores' = [stores EXCEPT ![ws] = left] /\ ui' = Deleted(ui, left)
  /\ UNCHANGED <<ws, env, defs, snaps, running, made, turns>>
ClearAll ==
  /\ Shown
  /\ LET left == [stores[ws] EXCEPT !.rows = << >>]
     IN /\ stores' = [stores EXCEPT ![ws] = left]
        /\ ui' = [Deleted(ui, left) EXCEPT !.selected = << >>, !.ticked = << >>]
  /\ UNCHANGED <<ws, env, defs, snaps, running, made, turns>>

Next ==
  \/ \E b \in BOOLEAN : Start(b)
  \/ \E e \in Envs : ChooseEnv(e)
  \/ \E m \in Methods : EditDefinition(m)
  \/ \E w \in Workspaces, left \in Envs \cup {None} : Switch(w, left)
  \/ \E r \in running, s \in Statuses \cup {None}, z \in Sizes, saved \in BOOLEAN :
       Finish(r, s, z, saved)
  \/ Load \/ Search \/ ClearAll
  \/ \E f \in Filters : ChooseFilter(f)
  \/ \E k \in DOMAIN ui.rows : Toggle(ui.rows[k]) \/ Delete(ui.rows[k])

-----------------------------------------------------------------------------
(* Properties. *)

TypeOK ==
  /\ ws \in Workspaces /\ env \in Envs /\ defs \in [Workspaces -> Methods]
  /\ snaps \in [Workspaces -> Envs \cup {None}]
  /\ ui.filter \in Filters /\ ui.loaded \in BOOLEAN /\ Len(ui.selected) <= 2
  /\ DOMAIN ui.ticked = DOMAIN ui.selected
  /\ \A w \in Workspaces : \A k \in DOMAIN stores[w].rows : stores[w].rows[k].body.size <= MaxBody

(* A row is about the run it was made for: its workspace, environment and
   method.  The exceptions are in the code, which looks these up when the run
   ends: another workspace was opened, another environment chosen or brought by
   the workspace that was opened, or a legacy request edited meanwhile. *)
RowTellsItsRun ==
  \A w \in Workspaces : \A k \in DOMAIN stores[w].rows :
    LET row == stores[w].rows[k]
        run == row.run
    IN /\ row.run.ws = w \/ run.moved
       /\ row.env = run.env \/ run.rechosen
       /\ row.method = run.method \/ (run.legacy /\ (run.moved \/ run.edited))

(* The query of every filter finds the newest rows that fit it, each bound
   value compared with its own column. *)
Fits(row, filter) ==
  /\ filter.method \in {None, row.method}
  /\ CASE filter.class = "2xx" -> row.status # None /\ row.status \in 200 .. 299
       [] filter.class = "5xx" -> row.status # None /\ row.status \in 500 .. 599
       [] OTHER -> TRUE
ListFits ==
  \A filter \in Filters :
    LET rows == List(stores[ws], filter)
        ids == {rows[k].id : k \in DOMAIN rows}
    IN /\ \A k \in DOMAIN rows : Fits(rows[k], filter) /\ (k > 1 => rows[k - 1].id > rows[k].id)
       /\ \A j \in DOMAIN stores[ws].rows :
            LET row == stores[ws].rows[j]
            IN Fits(row, filter) /\ row.id \notin ids =>
                 Len(rows) = Limit /\ \A id \in ids : row.id < id

(* The window lists rows of the open workspace's store only, so View and the
   delete button act on the row they stand at. *)
RowsAreStored ==
  ui.loaded => \A k \in DOMAIN ui.rows :
                 Has(stores[ws], ui.rows[k].id)
                   /\ Get(stores[ws], ui.rows[k].id) = ui.rows[k]

(* Two responses are compared that were ticked, however many rows were deleted
   and added in between.  The exception is in the code: what was ticked in a
   workspace stays ticked in the next one. *)
DiffComparesTicked ==
  Shown => \A k \in DOMAIN ui.selected :
             ui.ticked[k].ws = ws => Compared[k] \in {None, ui.ticked[k].uid}
================================================================================
