--------------------------- MODULE RequestPipeline ---------------------------
(***************************************************************************)
(* A sequence of request-v1 documents run by reqv1/runner.rs: for each     *)
(* document project auth, validation, then the lifecycle beforeRequest,    *)
(* send or mock, afterResponse, onError, finally; the values its           *)
(* extractors produce are carried to the next document.  A single run is a *)
(* sequence of one.                                                        *)
(***************************************************************************)
EXTENDS Integers, Sequences

CONSTANTS
  Plans,     (* the sequences of documents a behaviour may run *)
  Vars,      (* names written to ${runtime.*} *)
  Values,    (* what hooks write to a header or the url, extractors to a var *)
  Unset

Phase == {"beforeRequest", "afterResponse", "onError", "finally"}

(* loads: the file parses; valid: build_ir succeeds; auth: project auth
   applies; mock: what mode Mock would render, or "http" in mode Http. *)
Doc == [loads : BOOLEAN, valid : BOOLEAN, auth : BOOLEAN,
        mock : {"http", "none", "static", "dynamic"},
        entries : [Phase -> Seq({"builtin", "js"})]]

ASSUME PipelineAssumption ==
  /\ \A p \in Plans : p \in Seq(Doc)
  /\ Unset \notin Values

VARIABLES
  plan,       (* the documents *)
  pos,        (* the document being run, Len(plan) + 1 at the end *)
  stage,      (* "load" or the Phase being run *)
  at,         (* next entry of the current phase *)
  header,     (* the one header the hooks touch (case-insensitive name) *)
  url,
  response,   (* is there a response? *)
  error,      (* the first error, as a flag: drives onError *)
  diags,      (* what the diagnostics contain *)
  failed,     (* some assertion returned passed: false *)
  runtime,    (* written by this document *)
  carried,    (* written by earlier documents: this one's ${runtime.*} *)
  cancelled,
  results,    (* one per document run *)
  trace       (* history: the entries of this document that ran *)

vars == <<plan, pos, stage, at, header, url, response, error, diags, failed,
          runtime, carried, cancelled, results, trace>>

doc == plan[pos]
Entries(p) == doc.entries[p]
NoWrites == [v \in Vars |-> Unset]

(* Kinds of diagnostics: errors, PIPELINE_CONFLICT, AUTH_REFRESH, and the
   info note about a builtin that had no response. *)
DiagKind == {"error", "conflict", "refresh", "skipped"}

-----------------------------------------------------------------------------
Init ==
  /\ plan \in Plans
  /\ pos = 1
  /\ stage = "load"
  /\ at = 1
  /\ header = Unset
  /\ url = Unset
  /\ response = FALSE
  /\ error = FALSE
  /\ diags = {}
  /\ failed = FALSE
  /\ runtime = NoWrites
  /\ carried = NoWrites
  /\ cancelled = FALSE
  /\ results = <<>>
  /\ trace = <<>>

ir == <<header, url, response, error, diags, failed, runtime, trace>>

(* extend: later documents override earlier ones.  Variant: they replace
   them. *)
MergedLast(writes) == writes
Merged(writes) ==
  [v \in Vars |-> IF writes[v] # Unset THEN writes[v] ELSE carried[v]]

(* The next document starts from a fresh IR. *)
NextDoc(status, writes) ==
  /\ results' = Append(results, [status |-> status, runtime |-> writes,
                                 tornDown |-> stage = "finally"])
  /\ pos' = pos + 1
  /\ stage' = "load"
  /\ at' = 1
  /\ header' = Unset /\ url' = Unset
  /\ response' = FALSE /\ error' = FALSE /\ failed' = FALSE
  /\ diags' = {} /\ runtime' = NoWrites /\ trace' = <<>>
  /\ carried' = Merged(writes)
  /\ UNCHANGED <<plan, cancelled>>

(* Variant: the error ends the whole sequence. *)
LoadFailsHard ==
  /\ stage = "load" /\ pos <= Len(plan) /\ ~doc.loads
  /\ pos' = Len(plan) + 1
  /\ UNCHANGED <<plan, stage, at, ir, carried, cancelled, results>>

(* load_request_document fails: an error result, the sequence goes on. *)
LoadFails ==
  /\ stage = "load" /\ pos <= Len(plan)
  /\ ~doc.loads
  /\ NextDoc("Error", NoWrites)

(* The provider request failed: failed_execution, before any phase. *)
AuthFails ==
  /\ stage = "load" /\ pos <= Len(plan)
  /\ doc.loads /\ doc.auth
  /\ NextDoc("Error", NoWrites)

ValidateFails ==
  /\ stage = "load" /\ pos <= Len(plan)
  /\ doc.loads /\ ~doc.valid
  /\ NextDoc("Error", NoWrites)

(* The bearer token becomes the Authorization header of the IR. *)
Begin ==
  /\ stage = "load" /\ pos <= Len(plan)
  /\ doc.loads /\ doc.valid
  /\ stage' = "beforeRequest"
  /\ \/ ~doc.auth /\ UNCHANGED <<header, diags>>
     \/ /\ doc.auth
        /\ header' \in Values
        /\ diags' \in {{}, {"refresh"}}
  /\ UNCHANGED <<plan, pos, at, url, response, error, failed, runtime,
                 carried, cancelled, results, trace>>

-----------------------------------------------------------------------------
RanWith(outcome, h, u) ==
  trace' = Append(trace, [phase |-> stage, at |-> at, outcome |-> outcome,
                          header |-> h, url |-> u])

Ran(outcome) == RanWith(outcome, Unset, Unset)

EntryDue(p) == stage = p /\ at <= Len(Entries(p))

Throws ==
  /\ error' = TRUE
  /\ diags' = diags \cup {"error"}
  /\ Ran("throws")

(* A beforeRequest hook: its error is kept and the next hook runs. *)
HookThrows ==
  /\ EntryDue("beforeRequest")
  /\ Throws
  /\ at' = at + 1
  /\ UNCHANGED <<plan, pos, stage, header, url, response, failed, runtime,
                 carried, cancelled, results>>

(* A written header differs from what an earlier hook or the document wrote.
   Variant: the comparison the wrong way round. *)
ClobbersSame(h) == h # Unset /\ header # Unset /\ header = h
Clobbers(h) == h # Unset /\ header # Unset /\ header # h

(* apply_patch: headers are upserted, and a header whose value changes is
   reported; a url is simply replaced. *)
HookPatches(h, u) ==
  /\ EntryDue("beforeRequest")
  /\ header' = IF h # Unset THEN h ELSE header
  /\ diags' = IF Clobbers(h) THEN diags \cup {"conflict"} ELSE diags
  /\ url' = IF u # Unset THEN u ELSE url
  /\ RanWith("passes", h, u)
  /\ at' = at + 1
  /\ UNCHANGED <<plan, pos, stage, response, error, failed, runtime, carried,
                 cancelled, results>>

HooksOver == stage = "beforeRequest" /\ at > Len(Entries("beforeRequest"))

(* Variant: entries counted from zero. *)
EnterAtZero(s) == stage' = s /\ at' = 0
Enter(s) == stage' = s /\ at' = 1

(* Variant: only a failed send reaches onError. *)
SkipSendAndOnError ==
  /\ HooksOver /\ error
  /\ Enter("finally")
  /\ UNCHANGED <<plan, pos, ir, carried, cancelled, results>>

(* Skipped after a hook error.  The engine returns Cancelled for a cancelled
   token; a mock is rendered regardless. *)
SkipSend ==
  /\ HooksOver /\ error
  /\ Enter("onError")
  /\ UNCHANGED <<plan, pos, ir, carried, cancelled, results>>

Responds ==
  /\ HooksOver /\ ~error
  /\ doc.mock = "http" => ~cancelled
  /\ doc.mock # "none"
  /\ response' = TRUE
  /\ Enter("afterResponse")
  /\ UNCHANGED <<plan, pos, header, url, error, diags, failed, runtime,
                 carried, cancelled, results, trace>>

(* A failing mock asset is reported, but is not recorded as the error. *)
SendFails ==
  /\ HooksOver /\ ~error
  /\ doc.mock # "static"
  /\ error' = (doc.mock # "dynamic")
  /\ diags' = diags \cup {"error"}
  /\ Enter(IF doc.mock # "dynamic" THEN "onError" ELSE "finally")
  /\ UNCHANGED <<plan, pos, header, url, response, failed, runtime, carried,
                 cancelled, results, trace>>

-----------------------------------------------------------------------------
(* afterResponse, onError and finally run their entries the same way. *)
ReactionDue == \E p \in Phase \ {"beforeRequest"} : EntryDue(p)

ReactionRuns ==
  /\ ReactionDue
  /\ at' = at + 1
  /\ UNCHANGED <<plan, pos, stage, header, url, response, carried, cancelled,
                 results>>

NeedsResponse == Entries(stage)[at] = "builtin" /\ ~response

(* A builtin without a response leaves an info note. *)
ReactionSkipped ==
  /\ ReactionRuns
  /\ NeedsResponse
  /\ diags' = diags \cup {"skipped"}
  /\ Ran("skipped")
  /\ UNCHANGED <<error, failed, runtime>>

ReactionThrows ==
  /\ ReactionRuns
  /\ ~NeedsResponse
  /\ Throws
  /\ UNCHANGED <<failed, runtime>>

ReactionAsserts(passed) ==
  /\ ReactionRuns
  /\ ~NeedsResponse
  /\ failed' = (failed \/ ~passed)
  /\ Ran(IF passed THEN "passes" ELSE "fails")
  /\ UNCHANGED <<error, diags, runtime>>

ReactionExtracts(v, x) ==
  /\ ReactionRuns
  /\ ~NeedsResponse
  /\ runtime' = [runtime EXCEPT ![v] = x]
  /\ diags' = IF runtime[v] # Unset THEN diags \cup {"conflict"}
                                    ELSE diags
  /\ Ran("extracts")
  /\ UNCHANGED <<error, failed>>

PhaseOver(p) == stage = p /\ at > Len(Entries(p))

EndPhase ==
  /\ \/ /\ PhaseOver("afterResponse")
        /\ Enter(IF error THEN "onError" ELSE "finally")
     \/ PhaseOver("onError") /\ Enter("finally")
  /\ UNCHANGED <<plan, pos, ir, carried, cancelled, results>>

(* Variant: a response is taken for success whatever was reported. *)
StatusOfResponse ==
  IF ~response THEN "Error" ELSE IF failed THEN "Failed" ELSE "Passed"

Status ==
  IF "error" \in diags \/ error \/ ~response THEN "Error"
  ELSE IF failed THEN "Failed" ELSE "Passed"

(* After finally: the result is masked and pushed, the unmasked runtime is
   merged into what the next document sees. *)
Finish == PhaseOver("finally") /\ NextDoc(Status, runtime)

Cancel ==
  /\ pos <= Len(plan)
  /\ ~cancelled
  /\ cancelled' = TRUE
  /\ UNCHANGED <<plan, pos, stage, at, ir, carried, results>>

Step ==
  \/ LoadFails \/ AuthFails \/ ValidateFails \/ Begin
  \/ HookThrows
  \/ \E h, u \in Values \cup {Unset} : HookPatches(h, u)
  \/ SkipSend \/ Responds \/ SendFails
  \/ ReactionSkipped \/ ReactionThrows
  \/ \E passed \in BOOLEAN : ReactionAsserts(passed)
  \/ \E v \in Vars, x \in Values : ReactionExtracts(v, x)
  \/ EndPhase
  \/ Finish

Next == Step \/ Cancel

Spec == Init /\ [][Next]_vars /\ WF_vars(Step)

-----------------------------------------------------------------------------
Outcome == {"passes", "fails", "throws", "skipped", "extracts"}
Written == Values \cup {Unset}

TypeOK ==
  /\ plan \in Plans
  /\ pos \in 1..(Len(plan) + 1)
  /\ stage \in Phase \cup {"load"}
  /\ at \in Nat \ {0}
  /\ header \in Written /\ url \in Written
  /\ response \in BOOLEAN /\ error \in BOOLEAN /\ failed \in BOOLEAN
  /\ diags \subseteq DiagKind
  /\ runtime \in [Vars -> Written] /\ carried \in [Vars -> Written]
  /\ cancelled \in BOOLEAN
  /\ results \in Seq([status : {"Passed", "Failed", "Error"},
                       runtime : [Vars -> Written], tornDown : BOOLEAN])
  /\ trace \in Seq([phase : Phase, at : Nat, outcome : Outcome,
                     header : Written, url : Written])

(* The document's last entry has run and its result is about to be made. *)
Complete == PhaseOver("finally")

RanAll(p) ==
  \A i \in DOMAIN Entries(p) :
    \E k \in DOMAIN trace : trace[k].phase = p /\ trace[k].at = i

RanNone(p) == \A k \in DOMAIN trace : trace[k].phase # p

Threw(p) == \E k \in DOMAIN trace :
              trace[k].phase = p /\ trace[k].outcome = "throws"

Rank == [beforeRequest |-> 1, afterResponse |-> 2, onError |-> 3, finally |-> 4]

(* "Within a phase, entries run in array order", each once, and the phases in
   lifecycle order. *)
InOrder ==
  \A k \in 1..(Len(trace) - 1) :
    \/ Rank[trace[k].phase] < Rank[trace[k + 1].phase]
    \/ /\ trace[k].phase = trace[k + 1].phase
       /\ trace[k].at + 1 = trace[k + 1].at

RanThrough(p) == RanAll(p) \/ Threw(p)

(* The lifecycle, where docs/architecture/request-format-v1.md and the runner
   agree.  Entries run in order.  Every phase that runs is gone through to its
   end, or at least to an entry that throws (the document aborts the phase there,
   see ThrowAbortsPhase; the runner goes on).  afterResponse runs exactly when
   there is a response, which a throwing beforeRequest hook prevents; onError
   runs when a hook or reaction threw or the send failed, and not when there was
   neither (left open is a mock asset that fails: the document calls that a send,
   the runner sets no error).  A document that loads, resolves and gets its auth
   is always torn down, whatever its hooks, the server or the user do. *)
Lifecycle ==
  /\ InOrder
  /\ Complete =>
       /\ RanThrough("beforeRequest") /\ RanThrough("finally")
       /\ IF response THEN RanThrough("afterResponse") /\ ~Threw("beforeRequest")
                      ELSE RanNone("afterResponse")
       /\ (\/ Threw("beforeRequest") \/ Threw("afterResponse")
           \/ ~response /\ doc.mock # "dynamic") => RanThrough("onError")
       /\ response /\ ~Threw("afterResponse") => RanNone("onError")
  /\ \A i \in DOMAIN results :
       plan[i].loads /\ plan[i].valid /\ ~plan[i].auth => results[i].tornDown

(* The status tells what happened anywhere in the run, teardown included. *)
StatusTellsAll ==
  Complete =>
    /\ Status = "Error" <=> ~response \/ \E p \in Phase : Threw(p)
    /\ Status = "Failed" =>
         \E k \in DOMAIN trace : trace[k].outcome = "fails"
    /\ Status = "Passed" =>
         \A k \in DOMAIN trace : trace[k].outcome # "fails"

(* Two hooks that disagree on a header leave a
   PIPELINE_CONFLICT, however many hooks run in between. *)
HeaderClobberReported ==
  \A i, j \in DOMAIN trace :
    /\ trace[i].header # Unset /\ trace[j].header # Unset
    /\ trace[i].header # trace[j].header
    => "conflict" \in diags

(* A document sees the last value any earlier document of the sequence wrote,
   also when that document failed, when one in between did not load, or when
   another wrote something else first. *)
RuntimeThreaded ==
  \A v \in Vars :
    \/ /\ carried[v] = Unset
       /\ \A i \in DOMAIN results : results[i].runtime[v] = Unset
    \/ \E i \in DOMAIN results :
         /\ results[i].runtime[v] = carried[v] /\ carried[v] # Unset
         /\ \A j \in (i + 1)..Len(results) : results[j].runtime[v] = Unset

(* A failing document does not stop the sequence: every document gets its one
   result. *)
SequenceEnds == <>(pos > Len(plan) /\ Len(results) = Len(plan))

-----------------------------------------------------------------------------
(* What docs/architecture/request-format-v1.md says and the code does not. *)

(* "A hook or extractor that throws aborts the remaining entries in its
   phase": no hook runs after one that threw. *)
ThrowAbortsPhase ==
  \A i, j \in DOMAIN trace :
    i < j /\ trace[i].outcome = "throws" /\ trace[i].phase = "beforeRequest"
      => trace[j].phase # "beforeRequest"
=============================================================================
