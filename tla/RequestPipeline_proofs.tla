------------------------ MODULE RequestPipeline_proofs ------------------------
(***************************************************************************)
(* Proofs about RequestPipeline for every sequence of documents, every set *)
(* of runtime names and of values: type correctness, the documented        *)
(* lifecycle, a status that tells what happened, reported header clobbers  *)
(* and runtime values threaded through the sequence.                       *)
(***************************************************************************)
EXTENDS RequestPipeline, TLAPS

TraceEntry == [phase : Phase, at : Nat, outcome : Outcome,
               header : Written, url : Written]

HasRun(p, i) == \E k \in DOMAIN trace : trace[k].phase = p /\ trace[k].at = i
HasFailed == \E k \in DOMAIN trace : trace[k].outcome = "fails"

(* One result per document behind the current one; a document that loads,
   resolves and needs no auth got its result from "finally". *)
Placed ==
  /\ Len(results) = pos - 1
  /\ stage # "load" => pos <= Len(plan) /\ at <= Len(Entries(stage)) + 1
  /\ \A i \in DOMAIN results :
       plan[i].loads /\ plan[i].valid /\ ~plan[i].auth => results[i].tornDown

(* Nothing of the document before is left when the next one is loaded. *)
Fresh ==
  stage = "load" =>
    /\ at = 1 /\ trace = <<>> /\ diags = {} /\ runtime = NoWrites
    /\ header = Unset /\ ~response /\ ~error /\ ~failed

(* The trace ends where the walk over the entries stands. *)
TraceFits ==
  /\ \A k \in DOMAIN trace :
       stage # "load" /\ Rank[trace[k].phase] <= Rank[stage]
  /\ \A k \in DOMAIN trace :
       k = Len(trace) /\ trace[k].phase = stage => trace[k].at + 1 = at
  /\ at > 1 => trace # <<>> /\ trace[Len(trace)].phase = stage
  /\ \A i \in 1..(at - 1) : HasRun(stage, i)

(* onError is due: what the error flag stands for once it is consulted. *)
OnErrorDue ==
  \/ Threw("beforeRequest") \/ Threw("afterResponse")
  \/ ~response /\ doc.mock # "dynamic"

(* What the phases behind the current one did. *)
Behind ==
  /\ stage = "beforeRequest" => ~response /\ (error <=> Threw("beforeRequest"))
  /\ stage \in {"afterResponse", "onError", "finally"} =>
       /\ RanAll("beforeRequest")
       /\ response => ~Threw("beforeRequest")
       /\ ~response => RanNone("afterResponse")
  /\ stage = "afterResponse" => response /\ (error <=> Threw("afterResponse"))
  /\ stage \in {"onError", "finally"} /\ response => RanAll("afterResponse")
  /\ stage = "onError" => OnErrorDue
  /\ stage = "finally" => IF OnErrorDue THEN RanAll("onError") ELSE RanNone("onError")

(* The diagnostics hold an error exactly when an entry threw or the send
   failed; the error flag never says more than they do. *)
ErrorsTold ==
  /\ error => "error" \in diags
  /\ stage = "beforeRequest" => ("error" \in diags <=> error)
  /\ (\E p \in Phase : Threw(p)) => "error" \in diags
  /\ "error" \in diags => ~response \/ \E p \in Phase : Threw(p)
  /\ failed <=> HasFailed

(* Until a conflict is reported, every header written is the current one. *)
HeadersTold ==
  \A k \in DOMAIN trace :
    trace[k].header # Unset =>
      header # Unset /\ (trace[k].header = header \/ "conflict" \in diags)

PipelineInv ==
  /\ TypeOK /\ Placed /\ Fresh /\ InOrder /\ TraceFits
  /\ Behind /\ ErrorsTold /\ HeadersTold /\ RuntimeThreaded

-----------------------------------------------------------------------------
LEMMA Appended ==
  ASSUME NEW S, NEW s \in Seq(S), NEW e \in S
  PROVE  /\ Append(s, e) \in Seq(S)
         /\ Len(Append(s, e)) = Len(s) + 1
         /\ DOMAIN s = 1..Len(s)
         /\ DOMAIN Append(s, e) = 1..(Len(s) + 1)
         /\ \A i \in 1..Len(s) : Append(s, e)[i] = s[i]
         /\ Append(s, e)[Len(s) + 1] = e
  OBVIOUS

(* The current document and its entries, while there is one. *)
LEMMA DocTyped ==
  ASSUME TypeOK, pos <= Len(plan)
  PROVE  /\ pos \in DOMAIN plan /\ plan \in Seq(Doc) /\ doc \in Doc
         /\ \A p \in Phase : Entries(p) \in Seq({"builtin", "js"})
         /\ \A p \in Phase : Len(Entries(p)) \in Nat
                             /\ DOMAIN Entries(p) = 1..Len(Entries(p))
<1>1. plan \in Seq(Doc)
  BY PipelineAssumption DEF TypeOK
<1>2. pos \in DOMAIN plan /\ doc \in Doc
  BY <1>1 DEF TypeOK, doc
<1>3. \A p \in Phase : Entries(p) \in Seq({"builtin", "js"})
  BY <1>2 DEF Entries, Doc
<1>. QED
  BY <1>1, <1>2, <1>3

LEMMA NoWritesTyped == NoWrites \in [Vars -> Written]
  BY DEF NoWrites, Written

(* What one more entry adds to what the trace says. *)
LEMMA TraceGrows ==
  ASSUME TypeOK, NEW e \in TraceEntry, trace' = Append(trace, e),
         UNCHANGED <<plan, pos>>
  PROVE  /\ trace' \in Seq(TraceEntry)
         /\ \A p \in Phase :
              /\ Threw(p)' <=> Threw(p) \/ (e.phase = p /\ e.outcome = "throws")
              /\ RanNone(p)' <=> RanNone(p) /\ e.phase # p
              /\ RanAll(p) => RanAll(p)'
              /\ \A i : HasRun(p, i)' <=> HasRun(p, i) \/ (e.phase = p /\ e.at = i)
         /\ HasFailed' <=> HasFailed \/ e.outcome = "fails"
<1>1. trace \in Seq(TraceEntry)
  BY DEF TypeOK, TraceEntry
<1>2. /\ trace' \in Seq(TraceEntry)
      /\ DOMAIN trace = 1..Len(trace) /\ Len(trace) \in Nat
      /\ DOMAIN trace' = 1..(Len(trace) + 1)
      /\ \A k \in 1..Len(trace) : trace'[k] = trace[k]
      /\ trace'[Len(trace) + 1] = e
  BY <1>1, Appended
<1>3. \A p \in Phase :
        /\ Threw(p)' <=> Threw(p) \/ (e.phase = p /\ e.outcome = "throws")
        /\ RanNone(p)' <=> RanNone(p) /\ e.phase # p
        /\ \A i : HasRun(p, i)' <=> HasRun(p, i) \/ (e.phase = p /\ e.at = i)
  BY <1>2 DEF Threw, RanNone, HasRun
<1>4. \A p \in Phase : RanAll(p) => RanAll(p)'
  BY <1>2 DEF RanAll, Entries, doc
<1>5. HasFailed' <=> HasFailed \/ e.outcome = "fails"
  BY <1>2 DEF HasFailed
<1>. QED
  BY <1>2, <1>3, <1>4, <1>5

(* Without a new entry the trace says the same. *)
LEMMA TraceStays ==
  ASSUME UNCHANGED <<plan, pos, trace>>
  PROVE  /\ \A p : /\ Threw(p)' <=> Threw(p)
                   /\ RanNone(p)' <=> RanNone(p)
                   /\ RanAll(p)' <=> RanAll(p)
                   /\ \A i : HasRun(p, i)' <=> HasRun(p, i)
         /\ HasFailed' <=> HasFailed
  BY DEF Threw, RanNone, RanAll, HasRun, HasFailed, Entries, doc

-----------------------------------------------------------------------------
LEMMA InitInv == Init => PipelineInv
<1> SUFFICES ASSUME Init PROVE PipelineInv
  OBVIOUS
<1> USE PipelineAssumption
<1>1. TypeOK
  <2>1. plan \in Seq(Doc) /\ pos \in 1..(Len(plan) + 1)
    BY DEF Init
  <2>2. stage \in Phase \cup {"load"} /\ at \in Nat \ {0}
        /\ header \in Written /\ url \in Written /\ diags \subseteq DiagKind
    BY DEF Init, Written
  <2>3. response \in BOOLEAN /\ error \in BOOLEAN /\ failed \in BOOLEAN
        /\ cancelled \in BOOLEAN
    BY DEF Init
  <2>4. results = <<>> /\ trace = <<>>
    BY DEF Init
  <2>. QED
    BY <2>1, <2>2, <2>3, <2>4, NoWritesTyped DEF Init, TypeOK
<1>2. trace = <<>> /\ results = <<>> /\ stage = "load" /\ pos = 1
  BY DEF Init
<1>3. Placed /\ Fresh /\ InOrder /\ TraceFits
  BY <1>2 DEF Init, Placed, Fresh, InOrder, TraceFits
<1>4. Behind /\ ErrorsTold /\ HeadersTold
  BY <1>2 DEF Init, Behind, ErrorsTold, HeadersTold, Threw, HasFailed
<1>5. RuntimeThreaded
  BY <1>2 DEF Init, RuntimeThreaded, NoWrites
<1>. QED
  BY <1>1, <1>3, <1>4, <1>5 DEF PipelineInv

(* The step to the next document: one more result, and a clean slate. *)
LEMMA NextDocKeeps ==
  ASSUME PipelineInv, pos <= Len(plan),
         NEW status \in {"Passed", "Failed", "Error"},
         NEW writes \in [Vars -> Written], NextDoc(status, writes),
         doc.loads /\ doc.valid /\ ~doc.auth => stage = "finally"
  PROVE  PipelineInv'
<1> DEFINE res == [status |-> status, runtime |-> writes,
                   tornDown |-> stage = "finally"]
           Res == [status : {"Passed", "Failed", "Error"},
                   runtime : [Vars -> Written], tornDown : BOOLEAN]
<1>0. TypeOK /\ pos \in 1..Len(plan) /\ pos \in Nat
  BY DocTyped DEF PipelineInv, TypeOK
<1>1. res \in Res /\ results \in Seq(Res) /\ results' = Append(results, res)
  BY DEF PipelineInv, TypeOK, NextDoc
<1>1a. res.runtime = writes /\ (res.tornDown <=> stage = "finally")
  OBVIOUS
<1> HIDE DEF res, Res
<1>2. /\ results' \in Seq(Res) /\ Len(results) \in Nat
      /\ Len(results') = Len(results) + 1
      /\ DOMAIN results = 1..Len(results)
      /\ DOMAIN results' = 1..(Len(results) + 1)
      /\ \A i \in 1..Len(results) : results'[i] = results[i]
      /\ results'[Len(results) + 1] = res
  BY <1>1, Appended
<1>3. carried \in [Vars -> Written] /\ Merged(writes) \in [Vars -> Written]
  BY <1>0 DEF TypeOK, Merged
<1>4. TypeOK'
  <2>1. plan' \in Plans /\ pos' \in 1..(Len(plan') + 1)
    BY <1>0 DEF NextDoc, TypeOK
  <2>2. stage' \in Phase \cup {"load"} /\ at' \in Nat \ {0}
        /\ header' \in Written /\ url' \in Written /\ diags' \subseteq DiagKind
    BY DEF NextDoc, Written
  <2>2a. response' \in BOOLEAN /\ error' \in BOOLEAN /\ failed' \in BOOLEAN
         /\ cancelled' \in BOOLEAN
    BY <1>0, Zenon DEF NextDoc, TypeOK
  <2>3. runtime' \in [Vars -> Written] /\ carried' \in [Vars -> Written]
    BY <1>3, NoWritesTyped DEF NextDoc
  <2>4. trace' \in Seq([phase : Phase, at : Nat, outcome : Outcome,
                        header : Written, url : Written])
    BY DEF NextDoc
  <2>. QED
    BY <2>1, <2>2, <2>2a, <2>3, <2>4, <1>2 DEF TypeOK, Res
<1>5. Len(results) = pos - 1
  BY DEF PipelineInv, Placed
<1>6. Placed'
  <2>1. Len(results') = pos' - 1 /\ stage' = "load"
    BY <1>2, <1>5, <1>0 DEF NextDoc
  <2>2. \A i \in DOMAIN results' :
          plan'[i].loads /\ plan'[i].valid /\ ~plan'[i].auth => results'[i].tornDown
    <3> TAKE i \in DOMAIN results'
    <3>1. plan' = plan
      BY DEF NextDoc
    <3>2. CASE i \in 1..Len(results)
      BY <3>1, <3>2, <1>2 DEF PipelineInv, Placed
    <3>3. CASE i = pos
      BY <3>1, <3>3, <1>2, <1>5, <1>0, <1>1a DEF doc
    <3>. QED
      BY <3>2, <3>3, <1>2, <1>5, <1>0
  <2>. QED
    BY <2>1, <2>2 DEF Placed
<1>7. Fresh' /\ InOrder' /\ TraceFits' /\ Behind' /\ ErrorsTold' /\ HeadersTold'
  BY DEF NextDoc, Fresh, InOrder, TraceFits, Behind, ErrorsTold, HeadersTold,
         Threw, HasFailed
<1>8. RuntimeThreaded'
  <2> SUFFICES ASSUME NEW v \in Vars
      PROVE  \/ /\ carried'[v] = Unset
                /\ \A i \in DOMAIN results' : results'[i].runtime[v] = Unset
             \/ \E i \in DOMAIN results' :
                  /\ results'[i].runtime[v] = carried'[v] /\ carried'[v] # Unset
                  /\ \A j \in (i + 1)..Len(results') : results'[j].runtime[v] = Unset
    BY DEF RuntimeThreaded
  <2>0. carried'[v] = IF writes[v] # Unset THEN writes[v] ELSE carried[v]
    BY DEF NextDoc, Merged
  <2>1. CASE writes[v] # Unset
    <3>1. /\ Len(results) + 1 \in DOMAIN results'
          /\ results'[Len(results) + 1].runtime[v] = carried'[v]
          /\ carried'[v] # Unset
          /\ (Len(results) + 1 + 1)..Len(results') = {}
      BY <2>0, <2>1, <1>1a, <1>2
    <3>. QED
      BY <3>1
  <2>2. CASE writes[v] = Unset
    <3>1. carried'[v] = carried[v] /\ results'[Len(results) + 1].runtime[v] = Unset
      BY <2>0, <2>2, <1>1a, <1>2
    <3>2. CASE /\ carried[v] = Unset
               /\ \A i \in DOMAIN results : results[i].runtime[v] = Unset
      BY <3>1, <3>2, <1>2
    <3>3. CASE \E i \in DOMAIN results :
                 /\ results[i].runtime[v] = carried[v] /\ carried[v] # Unset
                 /\ \A j \in (i + 1)..Len(results) : results[j].runtime[v] = Unset
      <4>1. PICK i \in DOMAIN results :
              /\ results[i].runtime[v] = carried[v] /\ carried[v] # Unset
              /\ \A j \in (i + 1)..Len(results) : results[j].runtime[v] = Unset
        BY <3>3
      <4>2. \A j \in (i + 1)..Len(results') : results'[j].runtime[v] = Unset
        BY <4>1, <3>1, <1>2
      <4>. QED
        BY <4>1, <4>2, <3>1, <1>2
    <3>. QED
      BY <3>2, <3>3 DEF PipelineInv, RuntimeThreaded
  <2>. QED
    BY <2>1, <2>2
<1>. QED
  BY <1>4, <1>6, <1>7, <1>8 DEF PipelineInv

LEMMA EntryTyped ==
  ASSUME TypeOK, stage \in Phase, NEW o \in Outcome,
         NEW h \in Written, NEW u \in Written, RanWith(o, h, u)
  PROVE  \E e \in TraceEntry :
           /\ trace' = Append(trace, e)
           /\ e.phase = stage /\ e.at = at /\ e.outcome = o
           /\ e.header = h /\ e.url = u
<1> DEFINE e == [phase |-> stage, at |-> at, outcome |-> o, header |-> h, url |-> u]
<1>1. at \in Nat
  BY DEF TypeOK
<1>2. e \in TraceEntry /\ e.phase = stage /\ e.at = at /\ e.outcome = o
      /\ e.header = h /\ e.url = u
  BY <1>1 DEF TraceEntry
<1>3. trace' = Append(trace, e)
  BY DEF RanWith
<1>. QED
  BY <1>2, <1>3

(* One more entry of the current phase keeps the walk in order. *)
LEMMA WalkKeeps ==
  ASSUME PipelineInv, stage \in Phase, EntryDue(stage),
         NEW e \in TraceEntry, e.phase = stage, e.at = at,
         trace' = Append(trace, e), at' = at + 1,
         UNCHANGED <<plan, pos, stage, results>>
  PROVE  Placed' /\ Fresh' /\ InOrder' /\ TraceFits'
<1>0. TypeOK /\ at \in Nat /\ at >= 1 /\ stage # "load" /\ pos <= Len(plan)
  BY DEF PipelineInv, TypeOK, Placed, Phase
<1>1. trace \in Seq(TraceEntry)
  BY <1>0 DEF TypeOK, TraceEntry
<1>2. /\ trace' \in Seq(TraceEntry) /\ Len(trace) \in Nat
      /\ DOMAIN trace = 1..Len(trace) /\ Len(trace') = Len(trace) + 1
      /\ DOMAIN trace' = 1..(Len(trace) + 1)
      /\ \A k \in 1..Len(trace) : trace'[k] = trace[k]
      /\ trace'[Len(trace) + 1] = e
  BY <1>1, Appended
<1>3. Placed'
  <2>1. Len(Entries(stage)) \in Nat
    BY <1>0, DocTyped
  <2>2. Len(Entries(stage))' = Len(Entries(stage))
    BY DEF Entries, doc
  <2>3. at' <= Len(Entries(stage))' + 1
    BY <2>1, <2>2, <1>0 DEF EntryDue
  <2>. QED
    BY <2>3, <1>0 DEF PipelineInv, Placed
<1>4. Fresh'
  BY <1>0 DEF Fresh
<1>5. TraceFits'
  <2>1. \A k \in DOMAIN trace' : stage' # "load" /\ Rank[trace'[k].phase] <= Rank[stage']
    <3>1. Rank[stage] <= Rank[stage]
      BY DEF Phase, Rank
    <3>. QED
      BY <3>1, <1>0, <1>2 DEF PipelineInv, TraceFits
  <2>2. \A k \in DOMAIN trace' :
          k = Len(trace') /\ trace'[k].phase = stage' => trace'[k].at + 1 = at'
    BY <1>0, <1>2
  <2>3. trace' # <<>> /\ trace'[Len(trace')].phase = stage'
    BY <1>2
  <2>4. \A i \in 1..(at' - 1) : HasRun(stage, i)'
    BY <1>0, TraceGrows DEF PipelineInv, TraceFits
  <2>. QED
    BY <2>1, <2>2, <2>3, <2>4 DEF TraceFits, HasRun
<1>6. InOrder'
  <2> SUFFICES ASSUME NEW k \in 1..Len(trace)
               PROVE  \/ Rank[trace'[k].phase] < Rank[trace'[k + 1].phase]
                      \/ /\ trace'[k].phase = trace'[k + 1].phase
                         /\ trace'[k].at + 1 = trace'[k + 1].at
    BY <1>2 DEF InOrder
  <2>0. k < Len(trace) \/ k = Len(trace)
    <3>1. Len(trace) \in Nat
      BY <1>2
    <3>. QED
      BY <3>1
  <2>1. CASE k < Len(trace)
    <3>1. k \in 1..(Len(trace) - 1) /\ k + 1 \in 1..Len(trace)
      BY <2>1, <1>2
    <3>. QED
      BY <3>1, <1>2 DEF PipelineInv, InOrder
  <2>2. CASE k = Len(trace)
    <3>0. trace[k] \in TraceEntry
      BY <1>1
    <3>1. trace'[k] = trace[k] /\ trace'[k + 1] = e /\ trace[k].phase \in Phase
      BY <3>0, <2>2, <1>2 DEF TraceEntry
    <3>2. Rank[trace[k].phase] <= Rank[stage]
          /\ (trace[k].phase = stage => trace[k].at + 1 = at)
      BY <2>2, <1>2 DEF PipelineInv, TraceFits
    <3>3. trace[k].phase # stage => Rank[trace[k].phase] < Rank[stage]
      BY <3>1, <3>2 DEF Phase, Rank
    <3>. QED
      BY <3>1, <3>2, <3>3
  <2>. QED
    BY <2>0, <2>1, <2>2
<1>. QED
  BY <1>3, <1>4, <1>5, <1>6

(* An entry that says what it did: the error flag, the diagnostics, the
   failed assertions and the header follow it. *)
LEMMA EntryKeeps ==
  ASSUME PipelineInv, TypeOK', stage \in Phase, EntryDue(stage),
         NEW e \in TraceEntry, e.phase = stage, e.at = at,
         trace' = Append(trace, e), at' = at + 1,
         UNCHANGED <<plan, pos, stage, results, carried, response>>,
         error' <=> error \/ e.outcome = "throws",
         "error" \in diags' <=> "error" \in diags \/ e.outcome = "throws",
         failed' <=> failed \/ e.outcome = "fails",
         "conflict" \in diags => "conflict" \in diags',
         e.header # Unset => header' = e.header,
         header # Unset => header' # Unset,
         header # Unset /\ header' # header => "conflict" \in diags'
  PROVE  PipelineInv'
<1>0. TypeOK /\ pos <= Len(plan) /\ stage # "load"
  BY DEF PipelineInv, Placed, Phase
<1>1. Placed' /\ Fresh' /\ InOrder' /\ TraceFits'
  BY WalkKeeps
<1>2. \A p \in Phase :
        /\ Threw(p)' <=> Threw(p) \/ (e.phase = p /\ e.outcome = "throws")
        /\ RanNone(p)' <=> RanNone(p) /\ e.phase # p
        /\ RanAll(p) => RanAll(p)'
  BY <1>0, TraceGrows
<1>3. HasFailed' <=> HasFailed \/ e.outcome = "fails"
  BY <1>0, TraceGrows
<1>4. Behind'
  <2>1. doc' = doc
    BY DEF doc
  <2>2. stage \in {"onError", "finally"} => (OnErrorDue' <=> OnErrorDue)
    BY <1>2, <2>1 DEF OnErrorDue, Phase
  <2>3. Behind
    BY DEF PipelineInv
  <2>4. CASE stage = "beforeRequest"
    BY <2>3, <2>4, <1>2 DEF Behind, Phase
  <2>5. CASE stage = "afterResponse"
    BY <2>3, <2>5, <1>2 DEF Behind, Phase
  <2>6. CASE stage = "onError"
    BY <2>2, <2>3, <2>6, <1>2 DEF Behind, Phase
  <2>7. CASE stage = "finally"
    BY <2>2, <2>3, <2>7, <1>2 DEF Behind, Phase
  <2>. QED
    BY <2>4, <2>5, <2>6, <2>7 DEF Phase
<1>5. ErrorsTold'
  <2>1. ErrorsTold
    BY DEF PipelineInv
  <2>2. (\E p \in Phase : Threw(p)') <=>
          (\E p \in Phase : Threw(p)) \/ e.outcome = "throws"
    BY <1>2
  <2>. QED
    BY <2>1, <2>2, <1>3 DEF ErrorsTold
<1>6. HeadersTold'
  <2>1. trace \in Seq(TraceEntry)
    BY <1>0 DEF TypeOK, TraceEntry
  <2>2. /\ DOMAIN trace = 1..Len(trace) /\ DOMAIN trace' = 1..(Len(trace) + 1)
        /\ \A k \in 1..Len(trace) : trace'[k] = trace[k]
        /\ trace'[Len(trace) + 1] = e /\ Len(trace) \in Nat
    BY <2>1, Appended
  <2> SUFFICES ASSUME NEW k \in DOMAIN trace', trace'[k].header # Unset
               PROVE  /\ header' # Unset
                      /\ trace'[k].header = header' \/ "conflict" \in diags'
    BY DEF HeadersTold
  <2>3. CASE k \in DOMAIN trace
    BY <2>2, <2>3 DEF PipelineInv, HeadersTold
  <2>4. CASE k = Len(trace) + 1
    BY <2>2, <2>4
  <2>. QED
    BY <2>2, <2>3, <2>4
<1>7. RuntimeThreaded'
  BY DEF PipelineInv, RuntimeThreaded
<1>. QED
  BY <1>1, <1>4, <1>5, <1>6, <1>7 DEF PipelineInv

-----------------------------------------------------------------------------
LEMMA HookThrowsKeeps ==
  ASSUME PipelineInv, HookThrows
  PROVE  PipelineInv'
<1>0. TypeOK /\ stage = "beforeRequest" /\ stage \in Phase /\ EntryDue(stage)
      /\ at \in Nat
  BY DEF PipelineInv, TypeOK, HookThrows, EntryDue, Phase
<1>1. PICK e \in TraceEntry :
        /\ trace' = Append(trace, e) /\ e.phase = stage /\ e.at = at
        /\ e.outcome = "throws" /\ e.header = Unset
  BY <1>0, EntryTyped DEF HookThrows, Throws, Ran, Outcome, Written
<1>2. error' /\ diags' = diags \cup {"error"} /\ at' = at + 1
      /\ UNCHANGED <<plan, pos, stage, header, url, response, failed, runtime,
                     carried, cancelled, results>>
  BY DEF HookThrows, Throws
<1>3. TypeOK'
  <2>1. error' \in BOOLEAN /\ response' \in BOOLEAN /\ failed' \in BOOLEAN
        /\ cancelled' \in BOOLEAN
    BY <1>0, Zenon DEF TypeOK, HookThrows, Throws
  <2>2. diags' \subseteq DiagKind
    BY <1>0, <1>2 DEF TypeOK, DiagKind
  <2>3. trace' \in Seq(TraceEntry)
    BY <1>0, <1>1, TraceGrows, <1>2
  <2>. QED
    BY <1>0, <1>2, <2>1, <2>2, <2>3 DEF TypeOK, TraceEntry
<1>. QED
  BY <1>0, <1>1, <1>2, <1>3, EntryKeeps

LEMMA HookPatchesKeeps ==
  ASSUME PipelineInv, NEW h \in Written, NEW u \in Written, HookPatches(h, u)
  PROVE  PipelineInv'
<1>0. TypeOK /\ stage = "beforeRequest" /\ stage \in Phase /\ EntryDue(stage)
      /\ at \in Nat
  BY DEF PipelineInv, TypeOK, HookPatches, EntryDue, Phase
<1>1. PICK e \in TraceEntry :
        /\ trace' = Append(trace, e) /\ e.phase = stage /\ e.at = at
        /\ e.outcome = "passes" /\ e.header = h
  BY <1>0, EntryTyped DEF HookPatches, Outcome
<1>2. at' = at + 1
      /\ UNCHANGED <<plan, pos, stage, response, error, failed, runtime,
                     carried, cancelled, results>>
  BY DEF HookPatches
<1>3. /\ header' = IF h # Unset THEN h ELSE header
      /\ url' = IF u # Unset THEN u ELSE url
      /\ diags' = IF Clobbers(h) THEN diags \cup {"conflict"} ELSE diags
  BY DEF HookPatches
<1>4. TypeOK'
  <2>1. error' \in BOOLEAN /\ response' \in BOOLEAN /\ failed' \in BOOLEAN
        /\ cancelled' \in BOOLEAN
    BY <1>0, Zenon DEF TypeOK, HookPatches
  <2>2. diags' \subseteq DiagKind /\ header' \in Written /\ url' \in Written
    BY <1>0, <1>3 DEF TypeOK, DiagKind
  <2>3. trace' \in Seq(TraceEntry)
    BY <1>0, <1>1, TraceGrows, <1>2
  <2>. QED
    BY <1>0, <1>2, <2>1, <2>2, <2>3 DEF TypeOK, TraceEntry
<1>5. /\ "error" \in diags' <=> "error" \in diags
      /\ "conflict" \in diags => "conflict" \in diags'
      /\ h # Unset => header' = h
      /\ header # Unset => header' # Unset
      /\ header # Unset /\ header' # header => "conflict" \in diags'
  BY <1>3 DEF Clobbers
<1>. QED
  BY <1>0, <1>1, <1>2, <1>4, <1>5, EntryKeeps

(* The entries of the other phases: the header is left alone. *)
LEMMA ReactionKeeps ==
  ASSUME PipelineInv, ReactionRuns, NEW o \in Outcome, Ran(o),
         error' \in BOOLEAN, failed' \in BOOLEAN, diags' \subseteq DiagKind,
         runtime' \in [Vars -> Written],
         error' <=> error \/ o = "throws",
         "error" \in diags' <=> "error" \in diags \/ o = "throws",
         failed' <=> failed \/ o = "fails",
         "conflict" \in diags => "conflict" \in diags'
  PROVE  PipelineInv'
<1>0. TypeOK /\ stage \in Phase /\ EntryDue(stage) /\ at \in Nat
  BY DEF PipelineInv, TypeOK, ReactionRuns, ReactionDue, EntryDue
<1>1. PICK e \in TraceEntry :
        /\ trace' = Append(trace, e) /\ e.phase = stage /\ e.at = at
        /\ e.outcome = o /\ e.header = Unset
  BY <1>0, EntryTyped DEF Ran, Written
<1>2. at' = at + 1
      /\ UNCHANGED <<plan, pos, stage, header, url, response, carried,
                     cancelled, results>>
  BY DEF ReactionRuns
<1>3. TypeOK'
  <2>1. response' \in BOOLEAN /\ cancelled' \in BOOLEAN
    BY <1>0, Zenon DEF TypeOK, ReactionRuns
  <2>2. trace' \in Seq(TraceEntry)
    BY <1>0, <1>1, TraceGrows, <1>2
  <2>. QED
    BY <1>0, <1>2, <2>1, <2>2 DEF TypeOK, TraceEntry
<1>. QED
  BY <1>0, <1>1, <1>2, <1>3, EntryKeeps

LEMMA ReactionsKeep ==
  ASSUME PipelineInv,
         \/ ReactionSkipped \/ ReactionThrows
         \/ \E passed \in BOOLEAN : ReactionAsserts(passed)
         \/ \E v \in Vars, x \in Values : ReactionExtracts(v, x)
  PROVE  PipelineInv'
<1>0. TypeOK /\ error \in BOOLEAN /\ failed \in BOOLEAN /\ diags \subseteq DiagKind
      /\ runtime \in [Vars -> Written]
  BY DEF PipelineInv, TypeOK
<1>1. CASE ReactionSkipped
  <2>1. ReactionRuns /\ Ran("skipped") /\ diags' = diags \cup {"skipped"}
        /\ UNCHANGED <<error, failed, runtime>>
    BY <1>1 DEF ReactionSkipped
  <2>. QED
    BY <2>1, <1>0, ReactionKeeps DEF Outcome, DiagKind
<1>2. CASE ReactionThrows
  <2>1. ReactionRuns /\ Ran("throws") /\ diags' = diags \cup {"error"}
        /\ error' = TRUE /\ UNCHANGED <<failed, runtime>>
    BY <1>2 DEF ReactionThrows, Throws
  <2>. QED
    BY <2>1, <1>0, ReactionKeeps DEF Outcome, DiagKind
<1>3. ASSUME NEW passed \in BOOLEAN, ReactionAsserts(passed) PROVE PipelineInv'
  <2>1. ReactionRuns /\ Ran(IF passed THEN "passes" ELSE "fails")
        /\ failed' = (failed \/ ~passed) /\ UNCHANGED <<error, diags, runtime>>
    BY <1>3 DEF ReactionAsserts
  <2>2. CASE passed
    BY <2>1, <2>2, <1>0, ReactionKeeps DEF Outcome
  <2>3. CASE ~passed
    BY <2>1, <2>3, <1>0, ReactionKeeps DEF Outcome
  <2>. QED
    BY <2>2, <2>3
<1>4. ASSUME NEW v \in Vars, NEW x \in Values, ReactionExtracts(v, x)
      PROVE  PipelineInv'
  <2>1. ReactionRuns /\ Ran("extracts") /\ UNCHANGED <<error, failed>>
        /\ runtime' = [runtime EXCEPT ![v] = x]
        /\ diags' = IF runtime[v] # Unset THEN diags \cup {"conflict"} ELSE diags
    BY <1>4 DEF ReactionExtracts
  <2>2. runtime' \in [Vars -> Written]
    BY <2>1, <1>0 DEF Written
  <2>. QED
    BY <2>1, <2>2, <1>0, ReactionKeeps DEF Outcome, DiagKind
<1>. QED
  BY <1>1, <1>2, <1>3, <1>4

-----------------------------------------------------------------------------
(* At the end of a phase all its entries have run, and none of a later one. *)
LEMMA PhaseDone ==
  ASSUME PipelineInv, NEW p \in Phase, PhaseOver(p)
  PROVE  /\ RanAll(p) /\ pos <= Len(plan) /\ stage = p
         /\ \A q \in Phase : Rank[p] < Rank[q] => RanNone(q)
<1>0. TypeOK /\ stage = p /\ stage # "load" /\ pos <= Len(plan) /\ at \in Nat
  BY DEF PipelineInv, PhaseOver, Placed, Phase, TypeOK
<1>1. Len(Entries(p)) \in Nat /\ DOMAIN Entries(p) = 1..Len(Entries(p))
  BY <1>0, DocTyped
<1>2. \A i \in 1..Len(Entries(p)) : HasRun(p, i)
  <2>1. at - 1 >= Len(Entries(p))
    BY <1>0, <1>1 DEF PhaseOver
  <2>. QED
    BY <2>1, <1>0, <1>1 DEF PipelineInv, TraceFits
<1>3. RanAll(p)
  BY <1>1, <1>2 DEF RanAll, HasRun
<1>4. \A q \in Phase : Rank[p] < Rank[q] => RanNone(q)
  <2>1. \A k \in DOMAIN trace : Rank[trace[k].phase] <= Rank[p]
    BY <1>0 DEF PipelineInv, TraceFits
  <2>2. \A q \in Phase : Rank[q] \in Nat
    BY DEF Phase, Rank
  <2>. QED
    BY <2>1, <2>2 DEF RanNone
<1>. QED
  BY <1>0, <1>3, <1>4

(* The step to a later phase of the same document. *)
LEMMA EnterKeeps ==
  ASSUME PipelineInv, TypeOK', stage \in Phase, NEW s \in Phase, Enter(s),
         Rank[stage] < Rank[s], UNCHANGED <<plan, pos, trace, results, header, carried>>,
         "conflict" \in diags => "conflict" \in diags',
         Behind', ErrorsTold'
  PROVE  PipelineInv'
<1>0. TypeOK /\ pos <= Len(plan) /\ stage # "load" /\ s # "load" /\ s # stage
      /\ stage' = s /\ at' = 1
  BY DEF PipelineInv, Placed, Phase, Enter, Rank
<1>1. Placed'
  <2>1. Len(Entries(s)) \in Nat
    BY <1>0, DocTyped
  <2>2. Len(Entries(stage)') \in Nat
    BY <2>1, <1>0 DEF Entries, doc
  <2>. QED
    BY <2>2, <1>0 DEF PipelineInv, Placed
<1>2. Fresh' /\ InOrder'
  BY <1>0 DEF PipelineInv, Fresh, InOrder
<1>3. TraceFits'
  <2>1. trace \in Seq(TraceEntry)
    BY <1>0 DEF TypeOK, TraceEntry
  <2>1a. \A k \in DOMAIN trace : trace[k] \in TraceEntry
    BY <2>1
  <2>2. \A k \in DOMAIN trace : trace[k].phase \in Phase
                                /\ Rank[trace[k].phase] <= Rank[stage]
    BY <2>1a DEF PipelineInv, TraceFits, TraceEntry
  <2>3. \A p \in Phase : Rank[p] \in Nat
    BY DEF Phase, Rank
  <2>4. \A k \in DOMAIN trace : Rank[trace[k].phase] < Rank[s]
    BY <2>2, <2>3
  <2>5. \A k \in DOMAIN trace : trace[k].phase # s /\ Rank[trace[k].phase] <= Rank[s]
    BY <2>2, <2>3, <2>4
  <2>6. ~(at' > 1) /\ 1..(at' - 1) = {}
    BY <1>0
  <2>. QED
    BY <2>5, <2>6, <1>0 DEF TraceFits
<1>4. HeadersTold'
  BY DEF PipelineInv, HeadersTold
<1>5. RuntimeThreaded'
  BY DEF PipelineInv, RuntimeThreaded
<1>. QED
  BY <1>1, <1>2, <1>3, <1>4, <1>5 DEF PipelineInv

LEMMA BeginKeeps ==
  ASSUME PipelineInv, Begin
  PROVE  PipelineInv'
<1>0. TypeOK /\ stage = "load" /\ pos <= Len(plan) /\ doc.loads /\ doc.valid
      /\ stage' = "beforeRequest"
      /\ UNCHANGED <<plan, pos, at, url, response, error, failed, runtime,
                     carried, cancelled, results, trace>>
  BY DEF PipelineInv, Begin
<1>1. header' \in Written /\ (diags' = {} \/ diags' = {"refresh"})
  <2>1. header \in Written /\ diags = {}
    BY <1>0 DEF PipelineInv, TypeOK, Fresh
  <2>. QED
    BY <2>1 DEF Begin, Written
<1>2. at = 1 /\ trace = <<>> /\ ~response /\ ~error /\ ~failed
  BY <1>0 DEF PipelineInv, Fresh
<1>3. TypeOK'
  <2>1. response' \in BOOLEAN /\ error' \in BOOLEAN /\ failed' \in BOOLEAN
        /\ cancelled' \in BOOLEAN
    BY <1>0, Zenon DEF TypeOK
  <2>. QED
    BY <2>1, <1>0, <1>1 DEF TypeOK, Phase, DiagKind
<1>4. Placed'
  <2>1. Len(Entries("beforeRequest")) \in Nat
    BY <1>0, DocTyped DEF Phase
  <2>2. Len(Entries("beforeRequest")') \in Nat
    BY <2>1, <1>0 DEF Entries, doc
  <2>. QED
    BY <2>2, <1>0, <1>2 DEF PipelineInv, Placed
<1>5. Fresh' /\ InOrder' /\ TraceFits' /\ HeadersTold'
  BY <1>0, <1>2 DEF PipelineInv, Fresh, InOrder, TraceFits, HeadersTold
<1>6. Behind'
  BY <1>0, <1>2 DEF Behind, Threw
<1>7. ErrorsTold'
  BY <1>0, <1>1, <1>2 DEF ErrorsTold, Threw, HasFailed
<1>8. RuntimeThreaded'
  BY <1>0 DEF PipelineInv, RuntimeThreaded
<1>. QED
  BY <1>3, <1>4, <1>5, <1>6, <1>7, <1>8 DEF PipelineInv

LEMMA SkipSendKeeps ==
  ASSUME PipelineInv, SkipSend
  PROVE  PipelineInv'
<1>0. TypeOK /\ PhaseOver("beforeRequest") /\ error /\ Enter("onError")
      /\ UNCHANGED <<plan, pos, ir, carried, cancelled, results>>
  BY DEF PipelineInv, SkipSend, HooksOver, PhaseOver
<1>1. stage = "beforeRequest" /\ RanAll("beforeRequest") /\ RanNone("afterResponse")
  BY <1>0, PhaseDone DEF Phase, Rank
<1>2. ~response /\ Threw("beforeRequest")
  BY <1>0, <1>1 DEF PipelineInv, Behind
<1>3. TypeOK'
  <2>1. response' \in BOOLEAN /\ error' \in BOOLEAN /\ failed' \in BOOLEAN
        /\ cancelled' \in BOOLEAN
    BY <1>0, Zenon DEF TypeOK, ir
  <2>. QED
    BY <2>1, <1>0 DEF TypeOK, Enter, Phase, ir
<1>4. /\ \A p : /\ Threw(p)' <=> Threw(p)
                /\ RanNone(p)' <=> RanNone(p)
                /\ RanAll(p)' <=> RanAll(p)
      /\ HasFailed' <=> HasFailed
  BY <1>0, TraceStays DEF ir
<1>5. Behind'
  BY <1>0, <1>1, <1>2, <1>4 DEF Behind, OnErrorDue, Enter, ir
<1>6. ErrorsTold'
  BY <1>0, <1>4 DEF PipelineInv, ErrorsTold, Enter, ir
<1>. QED
  BY <1>0, <1>1, <1>3, <1>5, <1>6, EnterKeeps DEF Phase, Rank, ir

LEMMA RespondsKeeps ==
  ASSUME PipelineInv, Responds
  PROVE  PipelineInv'
<1>0. TypeOK /\ PhaseOver("beforeRequest") /\ ~error /\ Enter("afterResponse")
      /\ response' = TRUE
      /\ UNCHANGED <<plan, pos, header, url, error, diags, failed, runtime,
                     carried, cancelled, results, trace>>
  BY DEF PipelineInv, Responds, HooksOver, PhaseOver
<1>1. stage = "beforeRequest" /\ RanAll("beforeRequest") /\ RanNone("afterResponse")
      /\ RanNone("onError") /\ RanNone("finally")
  BY <1>0, PhaseDone DEF Phase, Rank
<1>2. ~Threw("beforeRequest") /\ "error" \notin diags
  BY <1>0, <1>1 DEF PipelineInv, Behind, ErrorsTold
<1>3. TypeOK'
  <2>1. response' \in BOOLEAN /\ error' \in BOOLEAN /\ failed' \in BOOLEAN
        /\ cancelled' \in BOOLEAN
    BY <1>0, Zenon DEF TypeOK
  <2>. QED
    BY <2>1, <1>0 DEF TypeOK, Enter, Phase
<1>4. /\ \A p : /\ Threw(p)' <=> Threw(p)
                /\ RanAll(p)' <=> RanAll(p)
      /\ HasFailed' <=> HasFailed
  BY <1>0, TraceStays
<1>5. ~Threw("afterResponse")
  BY <1>1 DEF Threw, RanNone
<1>6. Behind'
  BY <1>0, <1>1, <1>2, <1>4, <1>5 DEF Behind, Enter
<1>7. ErrorsTold'
  BY <1>0, <1>2, <1>4 DEF PipelineInv, ErrorsTold, Enter
<1>. QED
  BY <1>0, <1>1, <1>3, <1>6, <1>7, EnterKeeps DEF Phase, Rank

LEMMA SendFailsKeeps ==
  ASSUME PipelineInv, SendFails
  PROVE  PipelineInv'
<1> DEFINE s == IF doc.mock # "dynamic" THEN "onError" ELSE "finally"
<1>0. TypeOK /\ PhaseOver("beforeRequest") /\ ~error /\ Enter(s)
      /\ error' = (doc.mock # "dynamic") /\ diags' = diags \cup {"error"}
      /\ UNCHANGED <<plan, pos, header, url, response, failed, runtime, carried,
                     cancelled, results, trace>>
  BY DEF PipelineInv, SendFails, HooksOver, PhaseOver
<1>1. stage = "beforeRequest" /\ RanAll("beforeRequest") /\ RanNone("afterResponse")
      /\ RanNone("onError") /\ RanNone("finally")
  BY <1>0, PhaseDone DEF Phase, Rank
<1>2. ~response /\ ~Threw("beforeRequest") /\ ~Threw("afterResponse")
  BY <1>0, <1>1 DEF PipelineInv, Behind, Threw, RanNone
<1>3. TypeOK'
  <2>1. response' \in BOOLEAN /\ error' \in BOOLEAN /\ failed' \in BOOLEAN
        /\ cancelled' \in BOOLEAN
    BY <1>0, Zenon DEF TypeOK
  <2>. QED
    BY <2>1, <1>0 DEF TypeOK, Enter, Phase, DiagKind
<1>4. /\ \A p : /\ Threw(p)' <=> Threw(p)
                /\ RanNone(p)' <=> RanNone(p)
                /\ RanAll(p)' <=> RanAll(p)
      /\ HasFailed' <=> HasFailed
  BY <1>0, TraceStays
<1>5. doc' = doc /\ stage' = s
  BY <1>0 DEF doc, Enter
<1>6. Behind'
  BY <1>0, <1>1, <1>2, <1>4, <1>5 DEF Behind, OnErrorDue
<1>7. ErrorsTold'
  BY <1>0, <1>2, <1>4, <1>5 DEF PipelineInv, ErrorsTold
<1>8. s \in Phase /\ Rank[stage] < Rank[s]
  BY <1>1 DEF Phase, Rank
<1>. QED
  BY <1>0, <1>1, <1>3, <1>6, <1>7, <1>8, EnterKeeps DEF Phase

LEMMA EndPhaseKeeps ==
  ASSUME PipelineInv, EndPhase
  PROVE  PipelineInv'
<1>0. TypeOK /\ UNCHANGED <<plan, pos, ir, carried, cancelled, results>>
  BY DEF PipelineInv, EndPhase
<1>1. /\ \A p : /\ Threw(p)' <=> Threw(p)
                /\ RanNone(p)' <=> RanNone(p)
                /\ RanAll(p)' <=> RanAll(p)
      /\ HasFailed' <=> HasFailed
  BY <1>0, TraceStays DEF ir
<1>2. doc' = doc /\ (OnErrorDue' <=> OnErrorDue)
  BY <1>0, <1>1 DEF doc, OnErrorDue, ir
<1>3. ASSUME NEW s \in {"onError", "finally"}, Enter(s)
      PROVE  TypeOK' /\ ErrorsTold'
  <2>1. response' \in BOOLEAN /\ error' \in BOOLEAN /\ failed' \in BOOLEAN
        /\ cancelled' \in BOOLEAN
    BY <1>0, Zenon DEF TypeOK, ir
  <2>2. TypeOK'
    BY <2>1, <1>0, <1>3 DEF TypeOK, Enter, Phase, ir
  <2>3. ErrorsTold'
    BY <1>0, <1>1, <1>3 DEF PipelineInv, ErrorsTold, Enter, ir
  <2>. QED
    BY <2>2, <2>3
<1>4. CASE PhaseOver("afterResponse") /\ Enter(IF error THEN "onError" ELSE "finally")
  <2> DEFINE s == IF error THEN "onError" ELSE "finally"
  <2>1. RanAll("afterResponse") /\ RanNone("onError") /\ stage = "afterResponse"
    BY <1>4, PhaseDone DEF Phase, Rank
  <2>2. RanAll("beforeRequest") /\ response /\ ~Threw("beforeRequest")
        /\ (error <=> Threw("afterResponse"))
    BY <2>1 DEF PipelineInv, Behind
  <2>3. Behind'
    BY <1>0, <1>1, <1>2, <1>4, <2>1, <2>2 DEF Behind, OnErrorDue, Enter, ir
  <2>4. s \in Phase /\ Rank[stage] < Rank[s] /\ Enter(s) /\ s \in {"onError", "finally"}
    BY <2>1, <1>4 DEF Phase, Rank
  <2>. QED
    BY <1>0, <1>3, <2>1, <2>3, <2>4, EnterKeeps DEF Phase, ir
<1>5. CASE PhaseOver("onError") /\ Enter("finally")
  <2>1. RanAll("onError") /\ stage = "onError"
    BY <1>5, PhaseDone DEF Phase
  <2>2. Behind'
    BY <1>0, <1>1, <1>2, <1>5, <2>1 DEF PipelineInv, Behind, Enter, ir
  <2>3. Rank[stage] < Rank["finally"]
    BY <2>1 DEF Rank
  <2>. QED
    BY <1>0, <1>3, <1>5, <2>1, <2>2, <2>3, EnterKeeps DEF Phase, ir
<1>. QED
  BY <1>4, <1>5 DEF EndPhase

LEMMA ResultsKeep ==
  ASSUME PipelineInv, LoadFails \/ AuthFails \/ ValidateFails \/ Finish
  PROVE  PipelineInv'
<1>1. CASE LoadFails
  BY <1>1, NoWritesTyped, NextDocKeeps DEF LoadFails
<1>2. CASE AuthFails
  BY <1>2, NoWritesTyped, NextDocKeeps DEF AuthFails
<1>3. CASE ValidateFails
  BY <1>3, NoWritesTyped, NextDocKeeps DEF ValidateFails
<1>4. CASE Finish
  <2>1. stage = "finally" /\ pos <= Len(plan)
    BY <1>4, PhaseDone DEF Finish, Phase
  <2>2. Status \in {"Passed", "Failed", "Error"} /\ runtime \in [Vars -> Written]
    BY DEF Status, PipelineInv, TypeOK
  <2>3. NextDoc(Status, runtime)
    BY <1>4 DEF Finish
  <2>. QED
    BY <2>1, <2>2, <2>3, NextDocKeeps
<1>. QED
  BY <1>1, <1>2, <1>3, <1>4

LEMMA CancelKeeps ==
  ASSUME PipelineInv, Cancel \/ UNCHANGED vars
  PROVE  PipelineInv'
<1>1. UNCHANGED <<plan, pos, stage, at, ir, carried, results>>
  BY DEF Cancel, vars, ir
<1>2. cancelled' \in BOOLEAN
  BY Zenon DEF PipelineInv, TypeOK, Cancel, vars
<1>3. TypeOK'
  <2>1. response' \in BOOLEAN /\ error' \in BOOLEAN /\ failed' \in BOOLEAN
    BY <1>1, Zenon DEF PipelineInv, TypeOK, ir
  <2>. QED
    BY <2>1, <1>1, <1>2 DEF PipelineInv, TypeOK, ir
<1>4. /\ \A p : /\ Threw(p)' <=> Threw(p)
                /\ RanNone(p)' <=> RanNone(p)
                /\ RanAll(p)' <=> RanAll(p)
                /\ \A i : HasRun(p, i)' <=> HasRun(p, i)
      /\ HasFailed' <=> HasFailed
  BY <1>1, TraceStays DEF ir
<1>5. Placed' /\ Fresh' /\ InOrder'
  BY <1>1 DEF PipelineInv, Placed, Fresh, InOrder, Entries, doc, ir
<1>6. TraceFits' /\ HeadersTold' /\ RuntimeThreaded'
  BY <1>1, <1>4 DEF PipelineInv, TraceFits, HeadersTold, RuntimeThreaded, HasRun, ir
<1>7. Behind' /\ ErrorsTold'
  BY <1>1, <1>4 DEF PipelineInv, Behind, OnErrorDue, ErrorsTold, doc, ir
<1>. QED
  BY <1>3, <1>5, <1>6, <1>7 DEF PipelineInv

LEMMA InvariantHolds == Spec => []PipelineInv
<1>1. PipelineInv /\ [Next]_vars => PipelineInv'
  <2> SUFFICES ASSUME PipelineInv, [Next]_vars PROVE PipelineInv'
    OBVIOUS
  <2>1. CASE LoadFails \/ AuthFails \/ ValidateFails \/ Finish
    BY <2>1, ResultsKeep
  <2>2. CASE Begin
    BY <2>2, BeginKeeps
  <2>3. CASE HookThrows
    BY <2>3, HookThrowsKeeps
  <2>4. CASE \E h, u \in Values \cup {Unset} : HookPatches(h, u)
    BY <2>4, HookPatchesKeeps DEF Written
  <2>5. CASE SkipSend
    BY <2>5, SkipSendKeeps
  <2>6. CASE Responds
    BY <2>6, RespondsKeeps
  <2>7. CASE SendFails
    BY <2>7, SendFailsKeeps
  <2>8. CASE \/ ReactionSkipped \/ ReactionThrows
             \/ \E passed \in BOOLEAN : ReactionAsserts(passed)
             \/ \E v \in Vars, x \in Values : ReactionExtracts(v, x)
    BY <2>8, ReactionsKeep
  <2>9. CASE EndPhase
    BY <2>9, EndPhaseKeeps
  <2>10. CASE Cancel \/ UNCHANGED vars
    BY <2>10, CancelKeeps
  <2>. QED
    BY <2>1, <2>2, <2>3, <2>4, <2>5, <2>6, <2>7, <2>8, <2>9, <2>10 DEF Next, Step
<1>. QED
  BY InitInv, <1>1, PTL DEF Spec

-----------------------------------------------------------------------------
(* Every variable of the runner keeps its type in every reachable state. *)
THEOREM TypeCorrect == Spec => []TypeOK
<1>1. PipelineInv => TypeOK
  BY DEF PipelineInv
<1>. QED
  BY InvariantHolds, <1>1, PTL

(* The lifecycle holds for every sequence of documents: entries in order,
   afterResponse exactly with a response, onError after an error and never
   without one, and every document that gets as far as its phases is torn down. *)
THEOREM LifecycleHolds == Spec => []Lifecycle
<1>1. PipelineInv => Lifecycle
  <2> SUFFICES ASSUME PipelineInv PROVE Lifecycle
    OBVIOUS
  <2>1. ASSUME Complete
        PROVE  /\ RanThrough("beforeRequest") /\ RanThrough("finally")
               /\ IF response THEN RanThrough("afterResponse") /\ ~Threw("beforeRequest")
                              ELSE RanNone("afterResponse")
               /\ (\/ Threw("beforeRequest") \/ Threw("afterResponse")
                   \/ ~response /\ doc.mock # "dynamic") => RanThrough("onError")
               /\ response /\ ~Threw("afterResponse") => RanNone("onError")
    <3>1. RanAll("finally") /\ stage = "finally"
      BY <2>1, PhaseDone DEF Complete, Phase
    <3>2. /\ RanAll("beforeRequest")
          /\ IF response THEN RanAll("afterResponse") /\ ~Threw("beforeRequest")
                         ELSE RanNone("afterResponse")
          /\ IF \/ Threw("beforeRequest") \/ Threw("afterResponse")
                \/ ~response /\ doc.mock # "dynamic"
               THEN RanAll("onError") ELSE RanNone("onError")
      BY <3>1 DEF PipelineInv, Behind, OnErrorDue
    <3>. QED
      BY <3>1, <3>2 DEF RanThrough
  <2>2. \A i \in DOMAIN results :
          plan[i].loads /\ plan[i].valid /\ ~plan[i].auth => results[i].tornDown
    BY DEF PipelineInv, Placed
  <2>3. InOrder
    BY DEF PipelineInv
  <2>. QED
    BY <2>1, <2>2, <2>3 DEF Lifecycle
<1>. QED
  BY InvariantHolds, <1>1, PTL

(* The status of a document is an error exactly when something threw anywhere
   or there is no response, and passed only if no assertion failed. *)
THEOREM StatusIsTruthful == Spec => []StatusTellsAll
<1>1. PipelineInv => StatusTellsAll
  <2> SUFFICES ASSUME PipelineInv
               PROVE  /\ Status = "Error" <=> ~response \/ \E p \in Phase : Threw(p)
                      /\ Status = "Failed" => HasFailed
                      /\ Status = "Passed" => ~HasFailed
    BY DEF StatusTellsAll, HasFailed
  <2>. QED
    BY DEF PipelineInv, ErrorsTold, Status
<1>. QED
  BY InvariantHolds, <1>1, PTL

(* Whatever the hooks in between do, two that wrote different values to the
   header leave a PIPELINE_CONFLICT. *)
THEOREM ClobbersReported == Spec => []HeaderClobberReported
<1>1. PipelineInv => HeaderClobberReported
  BY DEF PipelineInv, HeadersTold, HeaderClobberReported
<1>. QED
  BY InvariantHolds, <1>1, PTL

(* Every document sees the last value written before it, past documents that
   failed or did not load. *)
THEOREM RuntimeIsThreaded == Spec => []RuntimeThreaded
<1>1. PipelineInv => RuntimeThreaded
  BY DEF PipelineInv
<1>. QED
  BY InvariantHolds, <1>1, PTL
=============================================================================
