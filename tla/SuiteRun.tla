------------------------------ MODULE SuiteRun ------------------------------
(***************************************************************************)
(* runner::run (forge-core/src/runner/run.rs): the requests of a scope are *)
(* run one after the other, once per row of iteration data, with the       *)
(* beforeAll, beforeEach, afterEach and afterAll hooks of the collection   *)
(* and folders around them, bailing out or cancelled on the way.           *)
(***************************************************************************)
EXTENDS Integers, Sequences, FiniteSets

CONSTANTS
  Suites,      (* the planned request lists a behaviour may run *)
  Scopes,      (* collections and folders *)
  MaxRows,     (* bound on the rows of iteration data *)
  NoSummary

(* chain: enclosing scopes, the collection first; extracts: the request has
   an enabled extractor. *)
Planned == [chain : Seq(Scopes), skip : BOOLEAN, extracts : BOOLEAN]

ASSUME SuiteAssumption ==
  /\ Suites \subseteq Seq(Planned)
  /\ \A plan \in Suites : \A k \in DOMAIN plan :  (* a path has no cycles *)
       \A i, j \in DOMAIN plan[k].chain : plan[k].chain[i] = plan[k].chain[j] => i = j
  /\ MaxRows \in Nat

VARIABLES
  suite,      (* plan_requests *)
  rows,       (* iteration_count *)
  bail,       (* RunOptions::bail *)
  pc,         (* "start" | "row" | "next" | "exec" | "done" | "refused" *)
  iter, idx,  (* iter_idx, planned_idx, from 1 *)
  passed, failed, skipped,
  stop,       (* stop_remaining *)
  cancelled,  (* the CancellationToken *)
  runtime,    (* runtime_vars: for each name the row that wrote it, 0 if none *)
  summary,
  events,     (* history: the RunEvents sent *)
  hookLog     (* history: the hooks run *)

vars == <<suite, rows, bail, pc, iter, idx, passed, failed, skipped, stop,
          cancelled, runtime, summary, events, hookLog>>

counts == <<passed, failed, skipped>>

(* What hooks and scripts set or unset, and what extractors set. *)
RuntimeVars == {"scripted", "extracted"}
Cleared == [v \in RuntimeVars |-> 0]

(* planned.len() * iteration_count.  Variant: the rows are forgotten. *)
TotalOfRow == Len(suite)
Total == Len(suite) * rows

-----------------------------------------------------------------------------
(* hook_scope_bounds: the first and last request that is not skipped. *)
Under(s, k) == ~suite[k].skip /\ \E i \in DOMAIN suite[k].chain : suite[k].chain[i] = s

IsFirst(s, k) == Under(s, k) /\ \A j \in 1..(k - 1) : ~Under(s, j)
IsLast(s, k) == Under(s, k) /\ \A j \in (k + 1)..Len(suite) : ~Under(s, j)

Call(hook, s) == [hook |-> hook, scope |-> s, iter |-> iter, idx |-> idx]

Reversed(q) == [i \in DOMAIN q |-> q[Len(q) + 1 - i]]

Concat(q, Op(_)) ==
  LET f[i \in 0..Len(q)] == IF i = 0 THEN <<>> ELSE f[i - 1] \o Op(q[i])
  IN f[Len(q)]

BeforeHooks ==
  LET Of(s) == (IF iter = 1 /\ IsFirst(s, idx) THEN <<Call("beforeAll", s)>>
                                               ELSE <<>>)
               \o <<Call("beforeEach", s)>>
  IN Concat(suite[idx].chain, Of)

(* Variant: the after hooks in the order of the before hooks. *)
AfterHooksOutermostFirst ==
  LET Of(s) == <<Call("afterEach", s)>>
               \o (IF iter = rows /\ IsLast(s, idx) THEN <<Call("afterAll", s)>>
                                                    ELSE <<>>)
  IN Concat(suite[idx].chain, Of)

AfterHooks ==
  LET Of(s) == <<Call("afterEach", s)>>
               \o (IF iter = rows /\ IsLast(s, idx) THEN <<Call("afterAll", s)>>
                                                    ELSE <<>>)
  IN Concat(Reversed(suite[idx].chain), Of)

(* apply_var_mutations: vars.set and vars.unset, also by a script that then
   fails. *)
Mutated(rt) == {rt} \cup {[rt EXCEPT !["scripted"] = row] : row \in {0, iter}}

-----------------------------------------------------------------------------
Init ==
  /\ suite \in Suites
  /\ rows \in 0..MaxRows
  /\ bail \in BOOLEAN
  /\ pc = "start"
  /\ iter = 1 /\ idx = 1
  /\ passed = 0 /\ failed = 0 /\ skipped = 0
  /\ stop = FALSE
  /\ cancelled = FALSE
  /\ runtime = Cleared
  /\ summary = NoSummary
  /\ events = <<>>
  /\ hookLog = <<>>

RunStarted == [type |-> "runStarted", iter |-> 0, idx |-> 0, ok |-> TRUE]
Event(type, ok) == [type |-> type, iter |-> iter, idx |-> idx, ok |-> ok]

(* The scope, the environment or the data file is not there. *)
Refuse ==
  /\ pc = "start"
  /\ pc' = "refused"
  /\ UNCHANGED <<suite, rows, bail, iter, idx, counts, stop, cancelled,
                 runtime, summary, events, hookLog>>

Start ==
  /\ pc = "start"
  /\ pc' = "row"
  /\ events' = <<RunStarted>>
  /\ UNCHANGED <<suite, rows, bail, iter, idx, counts, stop, cancelled,
                 runtime, summary, hookLog>>

(* Variant: the token is not consulted between requests. *)
HaltedByBail == stop
Halted == stop \/ cancelled

(* Variant: runtime_vars live as long as the run. *)
BeginRowKeeping ==
  /\ pc = "row" /\ iter <= rows
  /\ pc' = "next"
  /\ idx' = 1
  /\ events' = IF Halted THEN events
               ELSE Append(events, [Event("iterationStarted", TRUE)
                                      EXCEPT !.idx = 0])
  /\ UNCHANGED <<suite, rows, bail, iter, counts, stop, cancelled, runtime,
                 summary, hookLog>>

BeginRow ==
  /\ pc = "row" /\ iter <= rows
  /\ pc' = "next"
  /\ idx' = 1
  /\ runtime' = Cleared
  /\ events' = IF Halted THEN events
               ELSE Append(events, [Event("iterationStarted", TRUE)
                                      EXCEPT !.idx = 0])
  /\ UNCHANGED <<suite, rows, bail, iter, counts, stop, cancelled, summary,
                 hookLog>>

(* After a bail or a cancellation, or a request with skip_in_runs. *)
Skip ==
  /\ pc = "next" /\ idx <= Len(suite)
  /\ Halted \/ suite[idx].skip
  /\ stop' = Halted
  /\ skipped' = skipped + 1
  /\ idx' = idx + 1
  /\ UNCHANGED <<suite, rows, bail, pc, iter, passed, failed, cancelled,
                 runtime, summary, events, hookLog>>

Due == pc = "next" /\ idx <= Len(suite) /\ ~Halted /\ ~suite[idx].skip

(* The outcome is counted and, with bail, the first failure stops the run. *)
Conclude(ok, log) ==
  /\ events' = log \o <<Event("requestFinished", ok)>>
  /\ passed' = passed + (IF ok THEN 1 ELSE 0)
  /\ failed' = failed + (IF ok THEN 0 ELSE 1)
  /\ stop' = (stop \/ (~ok /\ bail))
  /\ idx' = idx + 1
  /\ pc' = "next"

(* RequestStarted, then the hooks, without an await in between. *)
BeginRequest ==
  /\ Due
  /\ pc' = "exec"
  /\ events' = Append(events, Event("requestStarted", TRUE))
  /\ hookLog' = hookLog \o BeforeHooks
  /\ runtime' \in Mutated(runtime)
  /\ UNCHANGED <<suite, rows, bail, iter, idx, counts, stop, cancelled,
                 summary>>

(* The n-th of the hooks fails: the others do not run, nor does the request,
   nor do any after hooks. *)
BeginFails(n) ==
  /\ Due
  /\ n \in DOMAIN BeforeHooks
  /\ hookLog' = hookLog \o SubSeq(BeforeHooks, 1, n)
  /\ runtime' \in Mutated(runtime)
  /\ Conclude(FALSE, Append(events, Event("requestStarted", TRUE)))
  /\ UNCHANGED <<suite, rows, bail, iter, skipped, cancelled, summary>>

(* Variant: a request in flight does not notice the token. *)
ExecFailsUncancelled ==
  /\ pc = "exec" /\ ~cancelled
  /\ Conclude(FALSE, events)
  /\ runtime' \in Mutated(runtime)
  /\ UNCHANGED <<suite, rows, bail, iter, skipped, cancelled, summary, hookLog>>

(* Resolving, the pre-request script or the engine ends in an error - always
   so once the run is cancelled: no assertions, no extractors, no hooks. *)
ExecFails ==
  /\ pc = "exec"
  /\ Conclude(FALSE, events)
  /\ runtime' \in Mutated(runtime)
  /\ UNCHANGED <<suite, rows, bail, iter, skipped, cancelled, summary, hookLog>>

Extracted(found) ==
  IF suite[idx].extracts
    THEN [runtime EXCEPT !["extracted"] = IF found THEN iter ELSE 0] ELSE runtime

(* A response: extractors set or drop their variable, afterEach and afterAll
   run innermost first; ok is FALSE when an assertion, one of a hook's
   included, or the post-response script failed. *)
ExecResponds(ok, extracted) ==
  /\ pc = "exec"
  /\ ~cancelled
  /\ runtime' \in Mutated(Extracted(extracted))
  /\ hookLog' = hookLog \o AfterHooks
  /\ Conclude(ok, events)
  /\ UNCHANGED <<suite, rows, bail, iter, skipped, cancelled, summary>>

(* Variant: a bail ends the row only. *)
EndRowResumes ==
  /\ pc = "next" /\ idx > Len(suite)
  /\ iter' = iter + 1
  /\ idx' = 1
  /\ pc' = "row"
  /\ stop' = FALSE
  /\ UNCHANGED <<suite, rows, bail, counts, cancelled, runtime, summary,
                 events, hookLog>>

EndRow ==
  /\ pc = "next" /\ idx > Len(suite)
  /\ iter' = iter + 1
  /\ idx' = 1
  /\ pc' = "row"
  /\ UNCHANGED <<suite, rows, bail, counts, stop, cancelled, runtime, summary,
                 events, hookLog>>

(* Variant: the total is what was run. *)
SummaryOfRun ==
  [total |-> passed + failed, passed |-> passed, failed |-> failed,
   skipped |-> skipped]

Summary ==
  [total |-> Total, passed |-> passed, failed |-> failed, skipped |-> skipped]

Finish ==
  /\ pc = "row" /\ iter > rows
  /\ pc' = "done"
  /\ summary' = Summary
  /\ events' = Append(events, [RunStarted EXCEPT !.type = "runFinished"])
  /\ UNCHANGED <<suite, rows, bail, iter, idx, counts, stop, cancelled,
                 runtime, hookLog>>

Cancel ==
  /\ pc \notin {"done", "refused"}
  /\ ~cancelled
  /\ cancelled' = TRUE
  /\ UNCHANGED <<suite, rows, bail, pc, iter, idx, counts, stop, runtime,
                 summary, events, hookLog>>

Step ==
  \/ Refuse \/ Start \/ BeginRow \/ Skip
  \/ BeginRequest
  \/ \E n \in 1..(2 * Cardinality(Scopes)) : BeginFails(n)
  \/ ExecFails
  \/ \E ok, extracted \in BOOLEAN : ExecResponds(ok, extracted)
  \/ EndRow \/ Finish

Next == Step \/ Cancel

(* The engine's timeout ends every request, so the loop goes on. *)
Spec == Init /\ [][Next]_vars /\ WF_vars(Step)

-----------------------------------------------------------------------------
(* The shape of the state of a run. *)
TypeOK ==
  /\ suite \in Suites /\ rows \in 0..MaxRows /\ bail \in BOOLEAN
  /\ pc \in {"start", "row", "next", "exec", "done", "refused"}
  /\ iter \in 1..(MaxRows + 1) /\ idx \in 1..(Len(suite) + 1)
  /\ {passed, failed, skipped} \subseteq 0..Total
  /\ stop \in BOOLEAN /\ cancelled \in BOOLEAN
  /\ runtime \in [RuntimeVars -> 0..MaxRows]
  /\ summary = NoSummary \/ summary.total = Total

Finished == {i \in DOMAIN events : events[i].type = "requestFinished"}

(* The stream a consumer of the events sees: the running totals are those of
   the RequestFinished events received, one request is open at a time. *)
Stream == INSTANCE RunStream WITH
  phase <- CASE pc = "start" -> "fresh"
             [] pc \in {"done", "refused"} -> IF pc = "done" THEN "closed" ELSE pc
             [] OTHER -> "running",
  open <- events # <<>> /\ events[Len(events)].type = "requestStarted",
  passed <- Cardinality({i \in Finished : events[i].ok}),
  failed <- Cardinality({i \in Finished : ~events[i].ok}),
  total <- IF events = <<>> THEN 0 ELSE Total

(* run() keeps what the stream of RunEvents promises its consumers. *)
ImplementsStream == Stream!Spec

(* Where the hooks stand that the k-th request ran in the i-th row. *)
HooksOf(hook, i, k) ==
  {n \in DOMAIN hookLog : /\ hookLog[n].hook = hook
                          /\ hookLog[n].iter = i /\ hookLog[n].idx = k}

(* beforeAll and afterAll run at most once per scope and run, never once per
   row of data. *)
AllHooksOnce ==
  \A i, j \in DOMAIN hookLog :
    /\ hookLog[i].hook \in {"beforeAll", "afterAll"}
    /\ hookLog[i].hook = hookLog[j].hook
    /\ hookLog[i].scope = hookLog[j].scope
    => i = j

(* A beforeAll is the first hook of its scope to run; once its afterAll has
   run, no hook of the scope runs and no request under it starts. *)
AllHooksEnclose ==
  \A i, j \in DOMAIN hookLog :
    hookLog[i].scope = hookLog[j].scope =>
      /\ hookLog[i].hook = "beforeAll" => i <= j
      /\ hookLog[i].hook = "afterAll" =>
           j <= i /\ (pc = "exec" => ~Under(hookLog[i].scope, idx))

(* Whatever the beforeEach hooks of a request set up from the outside in, its
   afterEach hooks take down from the inside out, unless none of them runs. *)
EachHooksNest ==
  \A i \in 1..iter, k \in 1..Len(suite) :
    LET up == HooksOf("beforeEach", i, k)
        down == HooksOf("afterEach", i, k)
    IN down # {} =>
         /\ {hookLog[n].scope : n \in up} = {hookLog[n].scope : n \in down}
         /\ \A m, n \in up, p, q \in down :
              hookLog[m].scope = hookLog[p].scope /\ hookLog[n].scope = hookLog[q].scope
                => (m < n <=> q < p)

(* The hooks of collections and folders bracket the requests under them. *)
HooksBracket == AllHooksOnce /\ AllHooksEnclose /\ EachHooksNest

(* A variable a request is resolved with was set in the same row of data:
   nothing chained in one row leaks into the next. *)
RowsIsolated == pc = "exec" => \A v \in RuntimeVars : runtime[v] \in {0, iter}

(* With bail, no request starts after the first that failed, in this row or
   in a later one. *)
BailStops ==
  bail => \A i, j \in DOMAIN events :
    i \in Finished /\ ~events[i].ok /\ j > i => events[j].type = "runFinished"

(* After a cancellation no request starts, no hook runs, and the request in
   flight does not pass. *)
QuietAfterCancel ==
  [][cancelled => /\ hookLog' = hookLog
                  /\ passed' = passed
                  /\ Len(events') > Len(events) =>
                       events'[Len(events')].type
                         \in {"runStarted", "requestFinished", "runFinished"}]_vars

(* Whatever fails on the way, run() returns. *)
RunEnds == <>(pc \in {"done", "refused"})

-----------------------------------------------------------------------------
(* What a comment says of the hooks. *)

(* "Runs once, after the last request under this collection/folder executes"
   (model/hooks.rs): the step that concludes an executed last request is
   the one that runs afterAll, however the request went. *)
AfterAllRuns ==
  [][\A s \in Scopes :
       pc = "exec" /\ pc' = "next" /\ iter = rows /\ IsLast(s, idx)
         => \E i \in DOMAIN hookLog' :
              hookLog'[i].hook = "afterAll" /\ hookLog'[i].scope = s]_vars
=============================================================================
