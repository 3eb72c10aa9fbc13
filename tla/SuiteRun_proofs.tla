--------------------------- MODULE SuiteRun_proofs ---------------------------
(***************************************************************************)
(* Proofs about SuiteRun for every plan, any number of rows and every way  *)
(* a run can fail or be cancelled: type correctness, that rows do not leak *)
(* into each other, that a bail and a cancellation hold to the end of the  *)
(* run, that the loop is a step-by-step implementation of RunStream, and   *)
(* that hooks bracket the requests of their scopes.                        *)
(***************************************************************************)
EXTENDS SuiteRun, WellFoundedInduction, FiniteSetTheorems, TLAPS

EventTypes == {"runStarted", "iterationStarted", "requestStarted",
               "requestFinished", "runFinished"}
RunEvent == [type : EventTypes, iter : Nat, idx : Nat, ok : BOOLEAN]

(* Where the requests of outcome ok stand in a stream of events. *)
Outcomes(ev, ok) == {i \in DOMAIN ev : ev[i].type = "requestFinished" /\ ev[i].ok = ok}

Typed ==
  /\ suite \in Suites /\ rows \in 0..MaxRows /\ bail \in BOOLEAN
  /\ pc \in {"start", "row", "next", "exec", "done", "refused"}
  /\ stop \in BOOLEAN /\ cancelled \in BOOLEAN
  /\ runtime \in [RuntimeVars -> 0..MaxRows]
  /\ events \in Seq(RunEvent)

(* How many requests of the plan, over all rows, are behind. *)
Behind == (iter - 1) * Len(suite) + (idx - 1)

(* Every request behind is counted once, and there is room for those ahead. *)
Placed ==
  /\ iter \in 1..(rows + 1) /\ idx \in 1..(Len(suite) + 1)
  /\ pc \in {"start", "row", "done", "refused"} => idx = 1
  /\ pc \in {"next", "exec"} => iter <= rows
  /\ pc = "exec" => idx <= Len(suite)
  /\ pc = "done" => iter = rows + 1
  /\ passed \in Nat /\ failed \in Nat /\ skipped \in Nat
  /\ passed + failed + skipped = Behind

(* The stream of events says what the loop's variables say. *)
Told ==
  /\ events = <<>> <=> pc \in {"start", "refused"}
  /\ (events # <<>> /\ events[Len(events)].type = "requestStarted") <=> pc = "exec"
  /\ passed = Cardinality(Outcomes(events, TRUE))
  /\ failed = Cardinality(Outcomes(events, FALSE))
  /\ summary = IF pc = "done" THEN Summary ELSE NoSummary

OwnRow == pc \in {"next", "exec"} => \A v \in RuntimeVars : runtime[v] \in {0, iter}

(* stop is what keeps a bailed run from going on, in later rows too. *)
Bailed ==
  /\ BailStops
  /\ bail /\ Outcomes(events, FALSE) # {} => stop /\ pc # "exec"

SuiteInv == Typed /\ Placed /\ Told /\ OwnRow /\ Bailed

-----------------------------------------------------------------------------

(* The arithmetic of rows and requests. *)
LEMMA RowsAdd ==
  ASSUME NEW n \in Nat, NEW i \in Nat \ {0}
  PROVE  /\ (i - 1) * n \in Nat /\ i * n \in Nat
         /\ (i - 1) * n + n = i * n
  OBVIOUS

LEMMA RowsFit ==
  ASSUME NEW n \in Nat, NEW i \in Nat, NEW r \in Nat, i <= r
  PROVE  i * n <= r * n /\ i * n \in Nat /\ r * n \in Nat
<1>1. (r - i) \in Nat /\ r = i + (r - i)
  OBVIOUS
<1>2. \A d \in Nat : d * n \in Nat /\ (i + d) * n = i * n + d * n
  OBVIOUS
<1>3. r * n = i * n + (r - i) * n /\ (r - i) * n \in Nat
  BY <1>1, <1>2
<1>. QED
  BY <1>2, <1>3

LEMMA OutcomesFinite ==
  ASSUME NEW ev \in Seq(RunEvent), NEW ok \in BOOLEAN
  PROVE  /\ IsFiniteSet(Outcomes(ev, ok)) /\ Cardinality(Outcomes(ev, ok)) \in Nat
         /\ Outcomes(ev, ok) # {} => Cardinality(Outcomes(ev, ok)) > 0
<1>1. IsFiniteSet(1..Len(ev))
  BY FS_Interval
<1>2. Outcomes(ev, ok) \subseteq 1..Len(ev)
  BY DEF Outcomes
<1>. QED
  BY <1>1, <1>2, FS_Subset, FS_CardinalityType, FS_EmptySet

(* Only a RequestFinished is counted, under its outcome. *)
Ends(e, ok) == e.type = "requestFinished" /\ e.ok = ok

LEMMA OutcomesAppend ==
  ASSUME NEW ev \in Seq(RunEvent), NEW e \in RunEvent, NEW ok \in BOOLEAN
  PROVE  /\ Append(ev, e) \in Seq(RunEvent) /\ Append(ev, e) # <<>>
         /\ Len(ev) \in Nat /\ Len(Append(ev, e)) = Len(ev) + 1
         /\ Append(ev, e)[Len(ev) + 1] = e
         /\ \A i \in 1..Len(ev) : Append(ev, e)[i] = ev[i]
         /\ Outcomes(ev, ok) \subseteq 1..Len(ev)
         /\ Ends(e, ok) =>
              /\ Outcomes(Append(ev, e), ok) = Outcomes(ev, ok) \cup {Len(ev) + 1}
              /\ Cardinality(Outcomes(Append(ev, e), ok)) = Cardinality(Outcomes(ev, ok)) + 1
         /\ ~Ends(e, ok) => Outcomes(Append(ev, e), ok) = Outcomes(ev, ok)
<1> DEFINE p == Append(ev, e)
<1>1. /\ p \in Seq(RunEvent) /\ p # <<>> /\ Len(p) = Len(ev) + 1 /\ Len(ev) \in Nat
      /\ DOMAIN p = 1..(Len(ev) + 1) /\ DOMAIN ev = 1..Len(ev)
      /\ p[Len(ev) + 1] = e /\ \A i \in 1..Len(ev) : p[i] = ev[i]
  OBVIOUS
<1> HIDE DEF p
<1>2. Outcomes(ev, ok) \subseteq 1..Len(ev) /\ Len(ev) + 1 \notin Outcomes(ev, ok)
  BY <1>1 DEF Outcomes
<1>3. /\ Ends(e, ok) => Outcomes(p, ok) = Outcomes(ev, ok) \cup {Len(ev) + 1}
      /\ ~Ends(e, ok) => Outcomes(p, ok) = Outcomes(ev, ok)
  BY <1>1 DEF Outcomes, Ends
<1>4. Cardinality(Outcomes(ev, ok) \cup {Len(ev) + 1}) = Cardinality(Outcomes(ev, ok)) + 1
  BY <1>2, OutcomesFinite, FS_AddElement
<1>. QED
  BY <1>1, <1>2, <1>3, <1>4 DEF p

(* BailStops speaks of the failed outcomes. *)
BailHolds(ev) ==
  bail => \A i \in Outcomes(ev, FALSE), j \in DOMAIN ev :
            j > i => ev[j].type = "runFinished"

LEMMA BailStopsIs ==
  ASSUME events \in Seq(RunEvent)
  PROVE  BailStops <=> BailHolds(events)
<1>1. \A i \in DOMAIN events : events[i] \in RunEvent
  OBVIOUS
<1>2. \A e \in RunEvent : e.ok \in BOOLEAN
  BY DEF RunEvent
<1>. QED
  BY <1>1, <1>2 DEF BailStops, BailHolds, Outcomes, Finished

LEMMA EventTyped ==
  ASSUME iter \in Nat, idx \in Nat
  PROVE  /\ RunStarted \in RunEvent /\ RunStarted.type = "runStarted"
         /\ [RunStarted EXCEPT !.type = "runFinished"] \in RunEvent
         /\ [RunStarted EXCEPT !.type = "runFinished"].type = "runFinished"
         /\ \A t \in EventTypes, ok \in BOOLEAN :
              /\ Event(t, ok) \in RunEvent
              /\ Event(t, ok).type = t /\ Event(t, ok).ok = ok
         /\ [Event("iterationStarted", TRUE) EXCEPT !.idx = 0] \in RunEvent
         /\ [Event("iterationStarted", TRUE) EXCEPT !.idx = 0].type = "iterationStarted"
  BY DEF RunStarted, Event, RunEvent, EventTypes

(* Scripts and hooks set a variable to the row they run in, or drop it. *)
LEMMA MutatedTyped ==
  ASSUME NEW rt \in [RuntimeVars -> 0..MaxRows], NEW new \in Mutated(rt),
         iter \in 1..MaxRows, MaxRows \in Nat
  PROVE  /\ new \in [RuntimeVars -> 0..MaxRows]
         /\ (\A v \in RuntimeVars : rt[v] \in {0, iter}) =>
              \A v \in RuntimeVars : new[v] \in {0, iter}
  BY DEF Mutated, RuntimeVars

-----------------------------------------------------------------------------
LEMMA Basics ==
  ASSUME Typed, Placed
  PROVE  /\ suite \in Seq(Planned) /\ Len(suite) \in Nat
         /\ rows \in Nat /\ rows <= MaxRows /\ MaxRows \in Nat
         /\ iter \in Nat \ {0} /\ idx \in Nat \ {0} /\ iter <= rows + 1
         /\ (iter - 1) * Len(suite) \in Nat /\ Behind \in Nat /\ Total \in Nat
<1>1. suite \in Seq(Planned) /\ Len(suite) \in Nat /\ MaxRows \in Nat
  BY SuiteAssumption DEF Typed
<1>2. /\ rows \in Nat /\ rows <= MaxRows
      /\ iter \in Nat \ {0} /\ idx \in Nat \ {0} /\ iter <= rows + 1
  BY <1>1 DEF Typed, Placed
<1>3. (iter - 1) * Len(suite) \in Nat
  BY <1>1, <1>2, RowsAdd
<1>4. Len(suite) * rows \in Nat
  BY <1>1, <1>2, RowsFit
<1>5. Behind \in Nat
  BY <1>2, <1>3 DEF Behind
<1>. QED
  BY <1>1, <1>2, <1>3, <1>4, <1>5 DEF Total

(* The plan has room for every request that is still to come. *)
LEMMA Room ==
  ASSUME Typed, Placed
  PROVE  /\ Behind <= Total
         /\ iter <= rows /\ idx <= Len(suite) => Behind < Total
         /\ iter = rows + 1 => Behind = Total
<1> DEFINE n == Len(suite)
<1>1. /\ n \in Nat /\ rows \in Nat /\ iter \in Nat \ {0} /\ idx \in Nat \ {0}
      /\ (iter - 1) * n \in Nat /\ iter <= rows + 1 /\ idx <= n + 1
  BY Basics DEF Placed
<1>2. Total = rows * n
  BY <1>1 DEF Total
<1>3. Behind = (iter - 1) * n + (idx - 1)
  BY DEF Behind
<1> HIDE DEF n
<1>4. (iter - 1) * n + n = iter * n /\ iter * n \in Nat
  BY <1>1, RowsAdd
<1>5. iter <= rows => iter * n <= rows * n /\ rows * n \in Nat
  BY <1>1, RowsFit
<1>6. ASSUME iter <= rows PROVE Behind <= Total /\ (idx <= n => Behind < Total)
  BY <1>1, <1>2, <1>3, <1>4, <1>5, <1>6
<1>7. ASSUME iter = rows + 1 PROVE Behind = Total /\ Total \in Nat
  <2>1. idx = 1
    BY <1>7, <1>1 DEF Placed, Typed
  <2>2. iter - 1 = rows
    BY <1>7, <1>1
  <2>. QED
    BY <1>1, <1>2, <1>3, <2>1, <2>2
<1>. QED
  BY <1>1, <1>6, <1>7 DEF n

LEMMA InitInv == Init => SuiteInv
<1> SUFFICES ASSUME Init PROVE SuiteInv
  OBVIOUS
<1>1. /\ suite \in Seq(Planned) /\ Len(suite) \in Nat /\ rows \in Nat /\ MaxRows \in Nat
  BY SuiteAssumption DEF Init
<1>2. Typed
  <2>1. stop \in BOOLEAN /\ cancelled \in BOOLEAN
    BY DEF Init
  <2>2. runtime \in [RuntimeVars -> 0..MaxRows]
    BY <1>1 DEF Init, Cleared
  <2>. QED
    BY <2>1, <2>2 DEF Init, Typed
<1>3. Placed
  <2>1. Behind = 0
    BY <1>1 DEF Init, Behind
  <2>. QED
    BY <1>1, <2>1 DEF Init, Placed
<1>4. \A ok \in BOOLEAN : Outcomes(events, ok) = {}
  BY DEF Init, Outcomes
<1>5. Told
  BY <1>4, FS_EmptySet DEF Init, Told
<1>6. OwnRow /\ Bailed
  <2>1. DOMAIN events = {} /\ pc = "start"
    BY DEF Init
  <2>. QED
    BY <1>4, <2>1 DEF OwnRow, Bailed, BailStops
<1>. QED
  BY <1>2, <1>3, <1>5, <1>6 DEF SuiteInv

(* What only moves the loop: nothing is told, nothing is counted. *)
LEMMA SilentKeeps ==
  ASSUME SuiteInv, UNCHANGED <<suite, rows, bail, events, passed, failed, summary>>,
         Typed', Placed', OwnRow', stop => stop',
         pc' \in {"start", "refused"} <=> pc \in {"start", "refused"},
         pc' = "exec" <=> pc = "exec", pc # "done", pc' # "done"
  PROVE  SuiteInv'
<1>1. Told'
  BY DEF SuiteInv, Told
<1>2. Bailed'
  BY DEF SuiteInv, Bailed, BailStops, Finished
<1>. QED
  BY <1>1, <1>2 DEF SuiteInv

(* An event that ends no request; after a bail only RunFinished is one. *)
LEMMA TellKeeps ==
  ASSUME SuiteInv, NEW e \in RunEvent, e.type # "requestFinished",
         events' = Append(events, e), stop => e.type = "runFinished",
         UNCHANGED <<suite, rows, bail, stop, passed, failed>>,
         Typed', Placed', OwnRow', pc' \notin {"start", "refused"},
         e.type = "requestStarted" <=> pc' = "exec",
         summary' = IF pc' = "done" THEN Summary' ELSE NoSummary
  PROVE  SuiteInv'
<1>1. events \in Seq(RunEvent) /\ events' \in Seq(RunEvent)
  BY DEF SuiteInv, Typed
<1>2. \A ok \in BOOLEAN :
        /\ events' # <<>> /\ Len(events) \in Nat /\ Len(events') = Len(events) + 1
        /\ events'[Len(events) + 1] = e
        /\ \A i \in 1..Len(events) : events'[i] = events[i]
        /\ Outcomes(events, ok) \subseteq 1..Len(events)
        /\ Outcomes(events', ok) = Outcomes(events, ok)
  BY <1>1, OutcomesAppend DEF Ends
<1>3. Told'
  BY <1>2 DEF SuiteInv, Told
<1>4. Bailed'
  <2>1. bail /\ Outcomes(events', FALSE) # {} => stop' /\ pc' # "exec"
    BY <1>2 DEF SuiteInv, Bailed
  <2>2. BailHolds(events)
    BY <1>1, BailStopsIs DEF SuiteInv, Bailed
  <2>3. bail' => \A i \in Outcomes(events', FALSE), j \in DOMAIN events' :
                   j > i => events'[j].type = "runFinished"
    <3> SUFFICES ASSUME bail, NEW i \in Outcomes(events', FALSE), NEW j \in DOMAIN events',
                        j > i
                 PROVE  events'[j].type = "runFinished"
      OBVIOUS
    <3>0. i \in Outcomes(events, FALSE)
      BY <1>2
    <3>1. i \in Outcomes(events, FALSE) /\ j \in 1..(Len(events) + 1) /\ Len(events) \in Nat
      <4>1. DOMAIN events' = 1..Len(events')
        BY <1>1
      <4>. QED
        BY <3>0, <4>1, <1>2
    <3>2. CASE j \in 1..Len(events)
      <4>1. DOMAIN events = 1..Len(events) /\ events'[j] = events[j]
        BY <3>2, <1>1, <1>2
      <4>. QED
        BY <3>0, <3>2, <4>1, <2>2 DEF BailHolds
    <3>3. CASE j = Len(events) + 1
      <4>1. stop
        BY <3>1, <2>1, <1>2
      <4>. QED
        BY <4>1, <3>3, <1>2
    <3>. QED
      BY <3>1, <3>2, <3>3
  <2>4. BailStops'
    <3>1. \A i \in DOMAIN events' : events'[i] \in RunEvent
      BY <1>1
    <3>2. \A x \in RunEvent : x.ok \in BOOLEAN
      BY DEF RunEvent
    <3>. QED
      BY <2>3, <3>1, <3>2 DEF BailStops, Outcomes, Finished
  <2>. QED
    BY <2>1, <2>4 DEF Bailed
<1>. QED
  BY <1>3, <1>4 DEF SuiteInv

(* A request is over: one event more, one outcome more.  No request had failed
   before it if the run bails. *)
LEMMA ConcludeKeeps ==
  ASSUME SuiteInv, NEW ok \in BOOLEAN, NEW log, Conclude(ok, log),
         \/ pc = "exec" /\ log = events
         \/ Due /\ log = Append(events, Event("requestStarted", TRUE)),
         runtime' \in [RuntimeVars -> 0..MaxRows],
         \A v \in RuntimeVars : runtime'[v] \in {0, iter},
         UNCHANGED <<suite, rows, bail, iter, skipped, cancelled, summary>>
  PROVE  SuiteInv'
<1> DEFINE e == Event("requestFinished", ok)
<1>0. Typed /\ Placed /\ events \in Seq(RunEvent) /\ pc \in {"next", "exec"}
      /\ iter <= rows /\ idx <= Len(suite)
  BY DEF SuiteInv, Due, Placed, Typed
<1>1. e \in RunEvent /\ e.type = "requestFinished" /\ e.ok = ok
  BY <1>0, Basics, EventTyped DEF EventTypes
<1> HIDE DEF e
<1>2. /\ log \in Seq(RunEvent)
      /\ \A b \in BOOLEAN : Outcomes(log, b) = Outcomes(events, b)
  <2>1. Event("requestStarted", TRUE) \in RunEvent
        /\ Event("requestStarted", TRUE).type = "requestStarted"
    BY <1>0, Basics, EventTyped DEF EventTypes
  <2>2. CASE log = events
    BY <2>2, <1>0
  <2>3. CASE log = Append(events, Event("requestStarted", TRUE))
    <3> DEFINE x == Event("requestStarted", TRUE)
    <3>1. x \in RunEvent /\ \A b \in BOOLEAN : ~Ends(x, b)
      BY <2>1 DEF Ends
    <3> HIDE DEF x
    <3>. QED
      BY <3>1, <2>3, <1>0, OutcomesAppend DEF x
  <2>. QED
    BY <2>2, <2>3
<1>3. bail => Outcomes(log, FALSE) = {}
  BY <1>2 DEF SuiteInv, Bailed, Due, Halted
<1>4. /\ events' = Append(log, e) /\ idx' = idx + 1 /\ pc' = "next"
      /\ stop' = (stop \/ (~ok /\ bail))
  BY <1>2, <1>1 DEF Conclude, e
<1>4a. /\ ok => passed' = passed + 1 /\ failed' = failed
       /\ ~ok => failed' = failed + 1 /\ passed' = passed
       /\ passed \in Nat /\ failed \in Nat
  <2>1. /\ passed' = passed + (IF ok THEN 1 ELSE 0)
        /\ failed' = failed + (IF ok THEN 0 ELSE 1)
    BY DEF Conclude
  <2>2. passed \in Nat /\ failed \in Nat
    BY <1>0 DEF Placed
  <2>3. CASE ok
    BY <2>1, <2>2, <2>3
  <2>4. CASE ~ok
    BY <2>1, <2>2, <2>4
  <2>. QED
    BY <2>2, <2>3, <2>4
<1>5. /\ events' \in Seq(RunEvent) /\ events' # <<>> /\ Len(log) \in Nat
      /\ Len(events') = Len(log) + 1 /\ events'[Len(log) + 1] = e
      /\ \A b \in BOOLEAN :
           /\ Outcomes(log, b) \subseteq 1..Len(log)
           /\ b = ok => Outcomes(events', b) = Outcomes(log, b) \cup {Len(log) + 1}
                        /\ Cardinality(Outcomes(events', b)) = Cardinality(Outcomes(log, b)) + 1
           /\ b # ok => Outcomes(events', b) = Outcomes(log, b)
  BY <1>1, <1>2, <1>4, OutcomesAppend DEF Ends
<1>6. Typed'
  <2>1. stop' \in BOOLEAN /\ cancelled' \in BOOLEAN /\ bail' \in BOOLEAN
    BY <1>0, <1>4 DEF Typed
  <2>. QED
    BY <1>0, <1>4, <1>5, <2>1 DEF Typed
<1>7. Placed'
  <2>1. /\ (iter - 1) * Len(suite) \in Nat /\ idx \in Nat /\ Len(suite) \in Nat
        /\ iter \in Nat
    BY <1>0, Basics
  <2>2. Behind' = Behind + 1 /\ Behind \in Nat
    BY <2>1, <1>0, <1>4, Basics DEF Behind
  <2>3. passed' \in Nat /\ failed' \in Nat /\ passed' + failed' = passed + failed + 1
    BY <1>4a
  <2>4. passed' + failed' + skipped' = Behind' /\ skipped' \in Nat
    <3>1. /\ passed + failed + skipped = Behind /\ skipped' = skipped
          /\ passed \in Nat /\ failed \in Nat /\ skipped \in Nat
      BY <1>0 DEF Placed
    <3>2. passed' + failed' + skipped' = passed + failed + 1 + skipped
      BY <3>1, <2>3
    <3>3. passed + failed + 1 + skipped = passed + failed + skipped + 1
      BY <3>1
    <3>. QED
      BY <3>1, <3>2, <3>3, <2>2
  <2>5. iter' \in 1..(rows' + 1) /\ idx' \in 1..(Len(suite') + 1)
    BY <1>0, <1>4, <2>1, Basics DEF Placed
  <2>. QED
    BY <1>0, <1>4, <2>3, <2>4, <2>5 DEF Placed
<1>8. Told'
  <2>1. passed' = Cardinality(Outcomes(events', TRUE))
        /\ failed' = Cardinality(Outcomes(events', FALSE))
    <3>0. /\ passed = Cardinality(Outcomes(log, TRUE))
          /\ failed = Cardinality(Outcomes(log, FALSE))
          /\ passed \in Nat /\ failed \in Nat
      BY <1>2 DEF SuiteInv, Told, Placed
    <3>1. CASE ok = TRUE
      <4>1. /\ Cardinality(Outcomes(events', TRUE)) = Cardinality(Outcomes(log, TRUE)) + 1
            /\ Outcomes(events', FALSE) = Outcomes(log, FALSE)
        BY <3>1, <1>5
      <4>2. passed' = passed + 1 /\ failed' = failed
        BY <3>1, <1>4a
      <4>. QED
        BY <3>0, <4>1, <4>2
    <3>2. CASE ok = FALSE
      <4>1. /\ Cardinality(Outcomes(events', FALSE)) = Cardinality(Outcomes(log, FALSE)) + 1
            /\ Outcomes(events', TRUE) = Outcomes(log, TRUE)
        BY <3>2, <1>5
      <4>2. failed' = failed + 1 /\ passed' = passed
        BY <3>2, <1>4a
      <4>. QED
        BY <3>0, <4>1, <4>2
    <3>. QED
      BY <3>1, <3>2
  <2>. QED
    BY <2>1, <1>0, <1>1, <1>4, <1>5 DEF SuiteInv, Told
<1>9. OwnRow'
  BY DEF OwnRow
<1>10. Bailed'
  <2>1. bail /\ Outcomes(events', FALSE) # {} => ~ok
    BY <1>3, <1>5
  <2>2. bail => \A i \in Outcomes(events', FALSE) : i = Len(events')
    BY <1>3, <1>5
  <2>3. DOMAIN events' = 1..Len(events') /\ Len(events') \in Nat
    BY <1>5
  <2>4. BailStops'
    BY <2>2, <2>3, <1>5 DEF BailStops, Finished, Outcomes
  <2>. QED
    BY <2>1, <2>4, <1>4 DEF Bailed
<1>. QED
  BY <1>6, <1>7, <1>8, <1>9, <1>10 DEF SuiteInv

-----------------------------------------------------------------------------
(* The loop between two requests. *)
LEMMA RefuseKeeps ==
  ASSUME SuiteInv, Refuse
  PROVE  SuiteInv'
<1>0. /\ pc = "start" /\ pc' = "refused"
      /\ UNCHANGED <<suite, rows, bail, iter, idx, counts, stop, cancelled,
                     runtime, summary, events>>
  BY DEF Refuse
<1>1. Typed' /\ OwnRow'
  <2>1. stop' \in BOOLEAN /\ cancelled' \in BOOLEAN /\ bail' \in BOOLEAN
    BY <1>0, Zenon DEF SuiteInv, Typed
  <2>. QED
    BY <1>0, <2>1 DEF SuiteInv, Typed, OwnRow
<1>2. Placed'
  BY <1>0 DEF SuiteInv, Placed, Behind, counts
<1>. QED
  BY <1>0, <1>1, <1>2, SilentKeeps DEF counts

LEMMA StartKeeps ==
  ASSUME SuiteInv, Start
  PROVE  SuiteInv'
<1>0. /\ pc = "start" /\ pc' = "row" /\ events' = <<RunStarted>>
      /\ UNCHANGED <<suite, rows, bail, iter, idx, counts, stop, cancelled,
                     runtime, summary>>
  BY DEF Start
<1>1. RunStarted \in RunEvent /\ RunStarted.type = "runStarted"
  BY Basics, EventTyped DEF SuiteInv
<1>2. events = <<>> /\ events' = Append(events, RunStarted)
  BY <1>0 DEF SuiteInv, Told
<1>3. Typed' /\ OwnRow'
  <2>1. stop' \in BOOLEAN /\ cancelled' \in BOOLEAN /\ bail' \in BOOLEAN
    BY <1>0, Zenon DEF SuiteInv, Typed
  <2>2. events' \in Seq(RunEvent)
    BY <1>0, <1>1
  <2>. QED
    BY <1>0, <2>1, <2>2 DEF SuiteInv, Typed, OwnRow
<1>4. Placed'
  BY <1>0 DEF SuiteInv, Placed, Behind, counts
<1>5. Told'
  <2>1. \A ok \in BOOLEAN : Outcomes(events', ok) = {}
    BY <1>0, <1>1 DEF Outcomes
  <2>2. \A ok \in BOOLEAN : Outcomes(events, ok) = {}
    BY <1>2 DEF Outcomes
  <2>3. events' # <<>> /\ Len(events') = 1 /\ events'[1] = RunStarted
    BY <1>0
  <2>4. summary' = NoSummary /\ passed' = passed /\ failed' = failed
    BY <1>0 DEF SuiteInv, Told, counts
  <2>. QED
    BY <1>0, <1>1, <2>1, <2>2, <2>3, <2>4 DEF SuiteInv, Told
<1>6. Bailed'
  <2>1. Outcomes(events', FALSE) = {} /\ \A j \in DOMAIN events' : events'[j] = RunStarted
    BY <1>0, <1>1 DEF Outcomes
  <2>. QED
    BY <1>1, <2>1 DEF Bailed, BailStops, Finished
<1>. QED
  BY <1>3, <1>4, <1>5, <1>6 DEF SuiteInv

LEMMA BeginRowKeeps ==
  ASSUME SuiteInv, BeginRow
  PROVE  SuiteInv'
<1> DEFINE e == [Event("iterationStarted", TRUE) EXCEPT !.idx = 0]
<1>0. /\ pc = "row" /\ iter <= rows /\ pc' = "next" /\ idx' = 1 /\ runtime' = Cleared
      /\ events' = IF Halted THEN events ELSE Append(events, e)
      /\ UNCHANGED <<suite, rows, bail, iter, counts, stop, cancelled, summary>>
  BY DEF BeginRow
<1>1. e \in RunEvent /\ e.type = "iterationStarted"
  BY Basics, EventTyped DEF SuiteInv
<1> HIDE DEF e
<1>2. runtime' \in [RuntimeVars -> 0..MaxRows] /\ OwnRow'
  <2>1. MaxRows \in Nat
    BY Basics DEF SuiteInv
  <2>. QED
    BY <1>0, <2>1 DEF Cleared, OwnRow
<1>3. Typed'
  <2>1. stop' \in BOOLEAN /\ cancelled' \in BOOLEAN /\ bail' \in BOOLEAN
    BY <1>0, Zenon DEF SuiteInv, Typed
  <2>2. events' \in Seq(RunEvent)
    BY <1>0, <1>1 DEF SuiteInv, Typed
  <2>. QED
    BY <1>0, <1>2, <2>1, <2>2 DEF SuiteInv, Typed
<1>4. Placed'
  BY <1>0, Basics DEF SuiteInv, Placed, Behind, counts
<1>5. CASE Halted
  BY <1>0, <1>2, <1>3, <1>4, <1>5, SilentKeeps DEF counts
<1>6. CASE ~Halted
  <2>1. ~stop /\ summary' = NoSummary
    BY <1>0, <1>6 DEF Halted, SuiteInv, Told
  <2>. QED
    BY <1>0, <1>1, <1>2, <1>3, <1>4, <1>6, <2>1, TellKeeps DEF counts
<1>. QED
  BY <1>5, <1>6

LEMMA SkipKeeps ==
  ASSUME SuiteInv, Skip
  PROVE  SuiteInv'
<1>0. /\ pc = "next" /\ idx <= Len(suite) /\ stop' = Halted
      /\ skipped' = skipped + 1 /\ idx' = idx + 1
      /\ UNCHANGED <<suite, rows, bail, pc, iter, passed, failed, cancelled,
                     runtime, summary, events>>
  BY DEF Skip
<1>1. Typed' /\ OwnRow'
  <2>1. cancelled' \in BOOLEAN /\ bail' \in BOOLEAN
    BY <1>0, Zenon DEF SuiteInv, Typed
  <2>2. stop' \in BOOLEAN
    BY <1>0 DEF SuiteInv, Typed, Halted
  <2>. QED
    BY <1>0, <2>1, <2>2 DEF SuiteInv, Typed, OwnRow
<1>2. Placed'
  <2>1. /\ (iter - 1) * Len(suite) \in Nat /\ idx \in Nat \ {0} /\ Len(suite) \in Nat
        /\ iter \in Nat
    BY Basics DEF SuiteInv
  <2>2. Behind' = Behind + 1 /\ Behind \in Nat
    BY <2>1, <1>0, Basics DEF Behind, SuiteInv
  <2>3. /\ passed + failed + skipped = Behind
        /\ passed \in Nat /\ failed \in Nat /\ skipped \in Nat
    BY DEF SuiteInv, Placed
  <2>4. passed' + failed' + skipped' = passed + failed + skipped + 1
        /\ passed' \in Nat /\ failed' \in Nat /\ skipped' \in Nat
    BY <1>0, <2>3
  <2>5. passed' + failed' + skipped' = Behind'
    BY <2>2, <2>3, <2>4
  <2>6. idx' \in 1..(Len(suite') + 1) /\ iter' \in 1..(rows' + 1)
    BY <1>0, <2>1 DEF SuiteInv, Placed
  <2>. QED
    BY <1>0, <2>4, <2>5, <2>6 DEF SuiteInv, Placed
<1>3. stop => stop'
  BY <1>0 DEF Halted
<1>. QED
  BY <1>0, <1>1, <1>2, <1>3, SilentKeeps

LEMMA EndRowKeeps ==
  ASSUME SuiteInv, EndRow
  PROVE  SuiteInv'
<1>0. /\ pc = "next" /\ idx > Len(suite) /\ iter' = iter + 1 /\ idx' = 1 /\ pc' = "row"
      /\ UNCHANGED <<suite, rows, bail, counts, stop, cancelled, runtime, summary, events>>
  BY DEF EndRow
<1>1. Typed' /\ OwnRow'
  <2>1. stop' \in BOOLEAN /\ cancelled' \in BOOLEAN /\ bail' \in BOOLEAN
    BY <1>0, Zenon DEF SuiteInv, Typed
  <2>. QED
    BY <1>0, <2>1 DEF SuiteInv, Typed, OwnRow
<1>2. Placed'
  <2> DEFINE n == Len(suite)
  <2>1. /\ n \in Nat /\ iter \in Nat \ {0} /\ rows \in Nat /\ idx = n + 1 /\ iter <= rows
    BY <1>0, Basics DEF SuiteInv, Placed
  <2>2. Behind = (iter - 1) * n + n
    BY <2>1, RowsAdd DEF Behind
  <2>3. Behind' = iter * n
    <3>1. iter' - 1 = iter /\ idx' - 1 = 0 /\ Len(suite') = n
      BY <1>0, <2>1
    <3>2. Behind' = iter * n + 0
      BY <3>1 DEF Behind
    <3>. QED
      BY <3>2, <2>1, RowsAdd
  <2>4. Behind' = Behind
    BY <2>1, <2>2, <2>3, RowsAdd
  <2>. QED
    BY <1>0, <2>1, <2>4 DEF SuiteInv, Placed, counts
<1>. QED
  BY <1>0, <1>1, <1>2, SilentKeeps DEF counts

LEMMA FinishKeeps ==
  ASSUME SuiteInv, Finish
  PROVE  SuiteInv'
<1> DEFINE e == [RunStarted EXCEPT !.type = "runFinished"]
<1>0. /\ pc = "row" /\ iter > rows /\ pc' = "done" /\ summary' = Summary
      /\ events' = Append(events, e)
      /\ UNCHANGED <<suite, rows, bail, iter, idx, counts, stop, cancelled, runtime>>
  BY DEF Finish
<1>1. e \in RunEvent /\ e.type = "runFinished"
  BY Basics, EventTyped DEF SuiteInv
<1> HIDE DEF e
<1>2. Typed' /\ OwnRow'
  <2>1. stop' \in BOOLEAN /\ cancelled' \in BOOLEAN /\ bail' \in BOOLEAN
    BY <1>0, Zenon DEF SuiteInv, Typed
  <2>2. events' \in Seq(RunEvent)
    BY <1>0, <1>1 DEF SuiteInv, Typed
  <2>. QED
    BY <1>0, <2>1, <2>2 DEF SuiteInv, Typed, OwnRow
<1>3. Placed'
  <2>1. iter = rows + 1
    BY <1>0, Basics DEF SuiteInv
  <2>. QED
    BY <1>0, <2>1 DEF SuiteInv, Placed, Behind, counts
<1>4. Summary' = Summary
  BY <1>0 DEF Summary, Total, counts
<1>. QED
  BY <1>0, <1>1, <1>2, <1>3, <1>4, TellKeeps DEF counts

LEMMA CancelKeeps ==
  ASSUME SuiteInv, Cancel
  PROVE  SuiteInv'
<1>0. /\ pc \notin {"done", "refused"} /\ cancelled' = TRUE
      /\ UNCHANGED <<suite, rows, bail, pc, iter, idx, counts, stop, runtime,
                     summary, events>>
  BY DEF Cancel
<1>1. Typed' /\ OwnRow'
  <2>1. stop' \in BOOLEAN /\ cancelled' \in BOOLEAN /\ bail' \in BOOLEAN
    BY <1>0, Zenon DEF SuiteInv, Typed
  <2>. QED
    BY <1>0, <2>1 DEF SuiteInv, Typed, OwnRow
<1>2. Placed'
  BY <1>0 DEF SuiteInv, Placed, Behind, counts
<1>. QED
  BY <1>0, <1>1, <1>2, SilentKeeps DEF counts

-----------------------------------------------------------------------------
(* One request. *)
LEMMA BeginRequestKeeps ==
  ASSUME SuiteInv, BeginRequest
  PROVE  SuiteInv'
<1> DEFINE e == Event("requestStarted", TRUE)
<1>0. /\ Due /\ pc = "next" /\ idx <= Len(suite) /\ ~stop
      /\ pc' = "exec" /\ events' = Append(events, e) /\ runtime' \in Mutated(runtime)
      /\ UNCHANGED <<suite, rows, bail, iter, idx, counts, stop, cancelled, summary>>
  BY DEF BeginRequest, Due, Halted
<1>1. e \in RunEvent /\ e.type = "requestStarted"
  BY Basics, EventTyped DEF SuiteInv, EventTypes
<1> HIDE DEF e
<1>2. runtime' \in [RuntimeVars -> 0..MaxRows] /\ OwnRow'
  <2>1. iter \in 1..MaxRows /\ MaxRows \in Nat
    BY <1>0, Basics DEF SuiteInv, Placed
  <2>2. runtime \in [RuntimeVars -> 0..MaxRows]
        /\ \A v \in RuntimeVars : runtime[v] \in {0, iter}
    BY <1>0 DEF SuiteInv, Typed, OwnRow
  <2>. QED
    BY <1>0, <2>1, <2>2, MutatedTyped DEF OwnRow
<1>3. Typed'
  <2>1. stop' \in BOOLEAN /\ cancelled' \in BOOLEAN /\ bail' \in BOOLEAN
    BY <1>0, Zenon DEF SuiteInv, Typed
  <2>2. events' \in Seq(RunEvent)
    BY <1>0, <1>1 DEF SuiteInv, Typed
  <2>. QED
    BY <1>0, <1>2, <2>1, <2>2 DEF SuiteInv, Typed
<1>4. Placed'
  BY <1>0 DEF SuiteInv, Placed, Behind, counts
<1>5. summary' = NoSummary
  BY <1>0 DEF SuiteInv, Told
<1>. QED
  BY <1>0, <1>1, <1>2, <1>3, <1>4, <1>5, TellKeeps DEF counts

(* The variables a request in progress leaves are of its row. *)
LEMMA RowKept ==
  ASSUME SuiteInv, pc \in {"next", "exec"},
         runtime' \in Mutated(runtime) \/ \E found \in BOOLEAN : runtime' \in Mutated(Extracted(found))
  PROVE  /\ runtime' \in [RuntimeVars -> 0..MaxRows]
         /\ \A v \in RuntimeVars : runtime'[v] \in {0, iter}
<1>1. iter \in 1..MaxRows /\ MaxRows \in Nat
  BY Basics DEF SuiteInv, Placed
<1>2. runtime \in [RuntimeVars -> 0..MaxRows]
      /\ \A v \in RuntimeVars : runtime[v] \in {0, iter}
  BY DEF SuiteInv, Typed, OwnRow
<1>3. \A found \in BOOLEAN :
        /\ Extracted(found) \in [RuntimeVars -> 0..MaxRows]
        /\ \A v \in RuntimeVars : Extracted(found)[v] \in {0, iter}
  BY <1>1, <1>2 DEF Extracted, RuntimeVars
<1>. QED
  BY <1>1, <1>2, <1>3, MutatedTyped

LEMMA BeginFailsKeeps ==
  ASSUME SuiteInv, NEW n, BeginFails(n)
  PROVE  SuiteInv'
<1> DEFINE log == Append(events, Event("requestStarted", TRUE))
<1>0. /\ Due /\ runtime' \in Mutated(runtime) /\ Conclude(FALSE, log)
      /\ UNCHANGED <<suite, rows, bail, iter, skipped, cancelled, summary>>
  BY DEF BeginFails
<1>1. /\ runtime' \in [RuntimeVars -> 0..MaxRows]
      /\ \A v \in RuntimeVars : runtime'[v] \in {0, iter}
  BY <1>0, RowKept DEF Due
<1>2. FALSE \in BOOLEAN /\ log = Append(events, Event("requestStarted", TRUE))
  OBVIOUS
<1> HIDE DEF log
<1>. QED
  BY <1>0, <1>1, <1>2, ConcludeKeeps

LEMMA ExecFailsKeeps ==
  ASSUME SuiteInv, ExecFails
  PROVE  SuiteInv'
<1>0. /\ pc = "exec" /\ runtime' \in Mutated(runtime) /\ Conclude(FALSE, events)
      /\ UNCHANGED <<suite, rows, bail, iter, skipped, cancelled, summary>>
  BY DEF ExecFails
<1>1. /\ runtime' \in [RuntimeVars -> 0..MaxRows]
      /\ \A v \in RuntimeVars : runtime'[v] \in {0, iter}
  BY <1>0, RowKept
<1>. QED
  BY <1>0, <1>1, ConcludeKeeps

LEMMA ExecRespondsKeeps ==
  ASSUME SuiteInv, NEW ok \in BOOLEAN, NEW extracted \in BOOLEAN,
         ExecResponds(ok, extracted)
  PROVE  SuiteInv'
<1>0. /\ pc = "exec" /\ runtime' \in Mutated(Extracted(extracted)) /\ Conclude(ok, events)
      /\ UNCHANGED <<suite, rows, bail, iter, skipped, cancelled, summary>>
  BY DEF ExecResponds
<1>1. /\ runtime' \in [RuntimeVars -> 0..MaxRows]
      /\ \A v \in RuntimeVars : runtime'[v] \in {0, iter}
  BY <1>0, RowKept
<1>. QED
  BY <1>0, <1>1, ConcludeKeeps

LEMMA StutterKeeps ==
  ASSUME SuiteInv, UNCHANGED vars
  PROVE  SuiteInv'
<1>0. UNCHANGED <<suite, rows, bail, pc, iter, idx, passed, failed, skipped, stop,
                  cancelled, runtime, summary, events>>
  BY DEF vars, counts
<1>1. Typed'
  <2>1. stop' \in BOOLEAN /\ cancelled' \in BOOLEAN /\ bail' \in BOOLEAN
    BY <1>0, Zenon DEF SuiteInv, Typed
  <2>. QED
    BY <1>0, <2>1 DEF SuiteInv, Typed
<1>2. Placed' /\ Told' /\ OwnRow' /\ Bailed'
  BY <1>0 DEF SuiteInv, Placed, Behind, Told, Summary, Total, OwnRow, Bailed,
              BailStops, Finished
<1>. QED
  BY <1>1, <1>2 DEF SuiteInv

(* SuiteInv is an invariant of the loop. *)
LEMMA StepKeeps ==
  ASSUME SuiteInv, [Next]_vars
  PROVE  SuiteInv'
<1>1. ASSUME NEW n, BeginFails(n) PROVE SuiteInv'
  BY <1>1, BeginFailsKeeps
<1>2. ASSUME NEW ok \in BOOLEAN, NEW extracted \in BOOLEAN, ExecResponds(ok, extracted)
      PROVE  SuiteInv'
  BY <1>2, ExecRespondsKeeps
<1>3. CASE Refuse \/ Start \/ BeginRow \/ Skip
  BY <1>3, RefuseKeeps, StartKeeps, BeginRowKeeps, SkipKeeps
<1>4. CASE BeginRequest \/ ExecFails
  BY <1>4, BeginRequestKeeps, ExecFailsKeeps
<1>5. CASE EndRow \/ Finish \/ Cancel
  BY <1>5, EndRowKeeps, FinishKeeps, CancelKeeps
<1>6. CASE UNCHANGED vars
  BY <1>6, StutterKeeps
<1>. QED
  BY <1>1, <1>2, <1>3, <1>4, <1>5, <1>6 DEF Next, Step

LEMMA InvariantHolds == Spec => []SuiteInv
  BY InitInv, StepKeeps, PTL DEF Spec

-----------------------------------------------------------------------------
(* The state of the loop keeps its shape: the counts never exceed the plan
   times the rows, and a summary reports that total. *)
THEOREM TypeCorrect == Spec => []TypeOK
<1>1. SuiteInv => TypeOK
  <2> SUFFICES ASSUME SuiteInv PROVE TypeOK
    OBVIOUS
  <2>1. Typed /\ Placed /\ Told
    BY DEF SuiteInv
  <2>2. {passed, failed, skipped} \subseteq 0..Total
    <3>1. /\ passed \in Nat /\ failed \in Nat /\ skipped \in Nat
          /\ passed + failed + skipped <= Total /\ Total \in Nat
      BY <2>1, Room, Basics DEF Placed
    <3>. QED
      BY <3>1
  <2>3. summary = NoSummary \/ summary.total = Total
    BY <2>1 DEF Told, Summary
  <2>4. iter \in 1..(MaxRows + 1) /\ idx \in 1..(Len(suite) + 1)
    BY <2>1, Basics DEF Placed
  <2>. QED
    BY <2>1, <2>2, <2>3, <2>4 DEF Typed, TypeOK
<1>. QED
  BY <1>1, InvariantHolds, PTL

(* A request is resolved with variables of its own row only: runtime_vars are
   emptied when a row begins. *)
THEOREM RowsAreIsolated == Spec => []RowsIsolated
<1>1. SuiteInv => RowsIsolated
  BY DEF SuiteInv, OwnRow, RowsIsolated
<1>. QED
  BY <1>1, InvariantHolds, PTL

(* With bail, after the first failure - of a hook, an assertion or the engine -
   no request starts and no row is announced; only RunFinished follows. *)
THEOREM BailIsFinal == Spec => []BailStops
<1>1. SuiteInv => BailStops
  BY DEF SuiteInv, Bailed
<1>. QED
  BY <1>1, InvariantHolds, PTL

(* A cancelled run starts no request, runs no hook and passes none; at most the
   request in flight fails and the run finishes. *)
THEOREM CancelIsQuiet == Spec => QuietAfterCancel
<1> DEFINE QuietStep ==
      cancelled => /\ hookLog' = hookLog
                   /\ passed' = passed
                   /\ Len(events') > Len(events) =>
                        events'[Len(events')].type
                          \in {"runStarted", "requestFinished", "runFinished"}
<1>1. SuiteInv /\ [Next]_vars => [QuietStep]_vars
  <2> SUFFICES ASSUME SuiteInv, Next, cancelled
               PROVE  /\ hookLog' = hookLog /\ passed' = passed
                      /\ Len(events') > Len(events) =>
                           events'[Len(events')].type
                             \in {"runStarted", "requestFinished", "runFinished"}
    OBVIOUS
  <2>0. /\ events \in Seq(RunEvent) /\ Len(events) \in Nat /\ passed \in Nat
        /\ iter \in Nat /\ idx \in Nat
    BY Basics DEF SuiteInv, Typed, Placed
  <2>1. ~Due
    BY DEF Due, Halted
  <2>2. CASE Refuse \/ Skip \/ EndRow \/ Cancel
    <3>1. hookLog' = hookLog /\ passed' = passed /\ events' = events
      BY <2>2 DEF Refuse, Skip, EndRow, Cancel, counts
    <3>. QED
      BY <3>1, <2>0
  <2>3. CASE BeginRow
    <3>1. hookLog' = hookLog /\ passed' = passed /\ events' = events
      BY <2>3 DEF BeginRow, Halted, counts
    <3>. QED
      BY <3>1, <2>0
  <2>4. CASE Start
    <3>1. hookLog' = hookLog /\ passed' = passed /\ events' = <<RunStarted>>
      BY <2>4 DEF Start, counts
    <3>2. events'[Len(events')].type = "runStarted"
      BY <3>1, <2>0, EventTyped
    <3>. QED
      BY <3>1, <3>2
  <2>5. CASE ExecFails
    <3> DEFINE e == Event("requestFinished", FALSE)
    <3>1. hookLog' = hookLog /\ passed' = passed + 0 /\ events' = events \o <<e>>
      BY <2>5 DEF ExecFails, Conclude
    <3>2. e \in RunEvent /\ e.type = "requestFinished"
      BY <2>0, EventTyped DEF EventTypes
    <3> HIDE DEF e
    <3>3. events'[Len(events')] = e
      BY <3>1, <3>2, <2>0
    <3>. QED
      BY <3>1, <3>2, <3>3, <2>0
  <2>6. CASE Finish
    <3> DEFINE e == [RunStarted EXCEPT !.type = "runFinished"]
    <3>1. hookLog' = hookLog /\ passed' = passed /\ events' = Append(events, e)
      BY <2>6 DEF Finish, counts
    <3>2. e \in RunEvent /\ e.type = "runFinished"
      BY <2>0, EventTyped
    <3> HIDE DEF e
    <3>3. events'[Len(events')] = e
      BY <3>1, <3>2, <2>0
    <3>. QED
      BY <3>1, <3>2, <3>3
  <2>7. ~BeginRequest /\ (\A n : ~BeginFails(n))
        /\ (\A ok, extracted : ~ExecResponds(ok, extracted))
    BY <2>1 DEF BeginRequest, BeginFails, ExecResponds
  <2>. QED
    BY <2>2, <2>3, <2>4, <2>5, <2>6, <2>7 DEF Next, Step
<1>. QED
  BY <1>1, InvariantHolds, PTL DEF Spec, QuietAfterCancel

-----------------------------------------------------------------------------
(* What the stream's variables are mapped to. *)
StreamPhase == CASE pc = "start" -> "fresh"
                 [] pc \in {"done", "refused"} -> IF pc = "done" THEN "closed" ELSE pc
                 [] OTHER -> "running"
StreamOpen == events # <<>> /\ events[Len(events)].type = "requestStarted"
StreamPassed == Cardinality({i \in Finished : events[i].ok})
StreamFailed == Cardinality({i \in Finished : ~events[i].ok})
StreamTotal == IF events = <<>> THEN 0 ELSE Total

(* What a consumer can work out from the events is what the loop counted. *)
View ==
  /\ StreamPhase = CASE pc = "start" -> "fresh" [] pc = "done" -> "closed"
                     [] pc = "refused" -> "refused" [] OTHER -> "running"
  /\ StreamOpen = (pc = "exec")
  /\ StreamPassed = passed /\ StreamFailed = failed
  /\ StreamTotal = IF pc \in {"start", "refused"} THEN 0 ELSE Total

LEMMA ViewHolds == SuiteInv => View
<1> SUFFICES ASSUME SuiteInv PROVE View
  OBVIOUS
<1>1. Told /\ events \in Seq(RunEvent)
      /\ pc \in {"start", "row", "next", "exec", "done", "refused"}
  BY DEF SuiteInv, Typed
<1>2. /\ {i \in Finished : events[i].ok} = Outcomes(events, TRUE)
      /\ {i \in Finished : ~events[i].ok} = Outcomes(events, FALSE)
  <2>1. \A i \in DOMAIN events : events[i] \in RunEvent
    BY <1>1
  <2>2. \A e \in RunEvent : e.ok \in BOOLEAN
    BY DEF RunEvent
  <2>. QED
    BY <2>1, <2>2 DEF Finished, Outcomes
<1>3. StreamPassed = passed /\ StreamFailed = failed
  BY <1>1, <1>2 DEF StreamPassed, StreamFailed, Told
<1>4. StreamOpen = (pc = "exec")
  BY <1>1 DEF StreamOpen, Told
<1>5. StreamTotal = IF pc \in {"start", "refused"} THEN 0 ELSE Total
  BY <1>1 DEF StreamTotal, Told
<1>6. StreamPhase = CASE pc = "start" -> "fresh" [] pc = "done" -> "closed"
                     [] pc = "refused" -> "refused" [] OTHER -> "running"
  BY <1>1 DEF StreamPhase
<1>. QED
  BY <1>3, <1>4, <1>5, <1>6 DEF View

LEMMA ViewHoldsNext == SuiteInv' => View'
  BY ViewHolds, PTL

LEMMA StreamInit == Init => Stream!Init
<1> SUFFICES ASSUME Init PROVE Stream!Init
  OBVIOUS
<1>1. View
  BY InitInv, ViewHolds
<1>2. /\ StreamPhase = "fresh" /\ StreamOpen = FALSE /\ StreamPassed = 0 /\ StreamFailed = 0
      /\ StreamTotal = 0 /\ skipped = 0 /\ summary = NoSummary
  BY <1>1 DEF Init, View
<1>. QED
  BY <1>2 DEF Stream!Init, StreamPhase, StreamOpen, StreamPassed, StreamFailed, StreamTotal

(* A step the stream does not show. *)
LEMMA StreamStutters ==
  ASSUME View, View', UNCHANGED <<passed, failed, skipped, summary, suite, rows>>,
         StreamPhase' = StreamPhase, pc' = "exec" <=> pc = "exec",
         pc' \in {"start", "refused"} <=> pc \in {"start", "refused"}
  PROVE  UNCHANGED Stream!vars
<1>1. StreamPassed' = StreamPassed /\ StreamFailed' = StreamFailed
      /\ StreamTotal' = StreamTotal
  BY DEF View, Total
<1>2. StreamOpen' = StreamOpen
  BY DEF View
<1>. QED
  BY <1>1, <1>2 DEF Stream!vars, StreamPhase, StreamOpen, StreamPassed, StreamFailed,
                    StreamTotal

(* There is room in the stream for what the plan has left. *)
LEMMA StreamRoom ==
  ASSUME SuiteInv, View, pc \in {"row", "next", "exec"}
  PROVE  /\ pc \in {"next", "exec"} /\ idx <= Len(suite) => Stream!Room
         /\ iter > rows => ~Stream!Room
<1>1. /\ passed + failed + skipped = Behind /\ Behind \in Nat /\ Total \in Nat
      /\ pc \in {"next", "exec"} => iter <= rows
  BY Basics DEF SuiteInv, Placed
<1>2. /\ iter <= rows /\ idx <= Len(suite) => Behind < Total
      /\ iter > rows => Behind = Total
  BY Room, Basics DEF SuiteInv
<1>3. StreamPassed + StreamFailed + skipped = Behind /\ StreamTotal = Total
  BY <1>1 DEF View
<1>4. Stream!Room <=> StreamPassed + StreamFailed + skipped < StreamTotal
  BY DEF Stream!Room, StreamPassed, StreamFailed, StreamTotal
<1>. QED
  BY <1>1, <1>2, <1>3, <1>4

(* The stream's step when a request ends, by where it was. *)
LEMMA StreamConcludes ==
  ASSUME SuiteInv, View, View', NEW ok \in BOOLEAN, NEW log, Conclude(ok, log),
         pc = "exec" \/ Due, ~ok \/ pc = "exec",
         UNCHANGED <<suite, rows, skipped, summary>>
  PROVE  Stream!Finish \/ Stream!FailAtOnce
<1>0. pc' = "next" /\ passed \in Nat /\ failed \in Nat
  BY DEF Conclude, SuiteInv, Placed
<1>1. /\ ok => passed' = passed + 1 /\ failed' = failed
      /\ ~ok => failed' = failed + 1 /\ passed' = passed
  <2>1. /\ passed' = passed + (IF ok THEN 1 ELSE 0)
        /\ failed' = failed + (IF ok THEN 0 ELSE 1)
    BY DEF Conclude
  <2>2. CASE ok
    BY <1>0, <2>1, <2>2
  <2>3. CASE ~ok
    BY <1>0, <2>1, <2>3
  <2>. QED
    BY <2>2, <2>3
<1>2. /\ StreamPhase = "running" /\ StreamPhase' = "running" /\ StreamTotal' = StreamTotal
      /\ StreamPassed = passed /\ StreamPassed' = passed'
      /\ StreamFailed = failed /\ StreamFailed' = failed'
  BY <1>0 DEF View, Due, Total
<1>3. StreamOpen = (pc = "exec") /\ StreamOpen' = FALSE
  BY <1>0 DEF View
<1>4. CASE pc = "exec"
  <2>1. \/ StreamPassed' = StreamPassed + 1 /\ StreamFailed' = StreamFailed
        \/ StreamFailed' = StreamFailed + 1 /\ StreamPassed' = StreamPassed
    BY <1>1, <1>2
  <2>2. StreamOpen = TRUE
    BY <1>3, <1>4
  <2>. QED
    BY <1>2, <1>3, <2>1, <2>2
       DEF Stream!Finish, StreamPhase, StreamOpen, StreamPassed, StreamFailed, StreamTotal
<1>5. CASE pc # "exec"
  <2>1. StreamFailed' = StreamFailed + 1 /\ StreamPassed' = StreamPassed
    BY <1>1, <1>2, <1>5
  <2>2. Stream!Room
    BY <1>5, StreamRoom DEF Due
  <2>3. StreamOpen = FALSE
    BY <1>3, <1>5
  <2>. QED
    BY <1>2, <1>3, <2>1, <2>2, <2>3
       DEF Stream!FailAtOnce, StreamPhase, StreamOpen, StreamPassed, StreamFailed, StreamTotal
<1>. QED
  BY <1>4, <1>5

LEMMA StreamStep ==
  ASSUME SuiteInv, View, View', Next
  PROVE  Stream!Next \/ UNCHANGED Stream!vars
<1>0. passed \in Nat /\ failed \in Nat /\ skipped \in Nat /\ Total \in Nat
      /\ pc \in {"start", "row", "next", "exec", "done", "refused"}
  BY Basics DEF SuiteInv, Placed, Typed
<1>1. CASE Refuse
  <2>1. /\ pc = "start" /\ pc' = "refused"
        /\ UNCHANGED <<passed, failed, skipped, summary>>
    BY <1>1 DEF Refuse, counts
  <2>2. /\ StreamPhase = "fresh" /\ StreamPhase' = "refused"
        /\ StreamPassed' = StreamPassed /\ StreamFailed' = StreamFailed
        /\ StreamTotal' = StreamTotal
    BY <2>1 DEF View
  <2>3. StreamOpen' = StreamOpen
    BY <2>1 DEF View
  <2>4. Stream!Refuse
    BY <2>1, <2>2, <2>3
       DEF Stream!Refuse, StreamPhase, StreamOpen, StreamPassed, StreamFailed, StreamTotal
  <2>. QED
    BY <2>4 DEF Stream!Next
<1>2. CASE Start
  <2>1. /\ pc = "start" /\ pc' = "row"
        /\ UNCHANGED <<passed, failed, skipped, summary, suite, rows>>
    BY <1>2 DEF Start, counts
  <2>2. /\ StreamPhase = "fresh" /\ StreamPhase' = "running"
        /\ StreamPassed' = StreamPassed /\ StreamFailed' = StreamFailed
        /\ StreamTotal' \in Nat
    BY <1>0, <2>1 DEF View, Total
  <2>3. StreamOpen' = StreamOpen
    BY <2>1 DEF View
  <2>4. Stream!Start
    BY <2>1, <2>2, <2>3
       DEF Stream!Start, StreamPhase, StreamOpen, StreamPassed, StreamFailed, StreamTotal
  <2>. QED
    BY <2>4 DEF Stream!Next
<1>3. CASE BeginRow \/ EndRow \/ Cancel
  <2>1. /\ UNCHANGED <<passed, failed, skipped, summary, suite, rows>>
        /\ \/ pc' = pc
           \/ pc \in {"row", "next"} /\ pc' \in {"row", "next"}
    BY <1>3 DEF BeginRow, EndRow, Cancel, counts
  <2>2. StreamPhase' = StreamPhase
    BY <2>1 DEF View
  <2>. QED
    BY <2>1, <2>2, StreamStutters
<1>4. CASE Skip
  <2>1. /\ pc = "next" /\ pc' = "next" /\ idx <= Len(suite) /\ skipped' = skipped + 1
        /\ UNCHANGED <<passed, failed, summary, suite, rows>>
    BY <1>4 DEF Skip
  <2>2. /\ StreamPhase = "running" /\ StreamPhase' = "running"
        /\ StreamPassed' = StreamPassed /\ StreamFailed' = StreamFailed
        /\ StreamTotal' = StreamTotal
    BY <2>1 DEF View, Total
  <2>3. StreamOpen = FALSE /\ StreamOpen' = FALSE
    BY <2>1 DEF View
  <2>4. Stream!Room
    BY <2>1, StreamRoom
  <2>5. Stream!Skip
    BY <2>1, <2>2, <2>3, <2>4
       DEF Stream!Skip, StreamPhase, StreamOpen, StreamPassed, StreamFailed, StreamTotal
  <2>. QED
    BY <2>5 DEF Stream!Next
<1>5. CASE BeginRequest
  <2>1. /\ pc = "next" /\ pc' = "exec" /\ idx <= Len(suite)
        /\ UNCHANGED <<passed, failed, skipped, summary, suite, rows>>
    BY <1>5 DEF BeginRequest, Due, counts
  <2>2. /\ StreamPhase = "running" /\ StreamPhase' = "running"
        /\ StreamPassed' = StreamPassed /\ StreamFailed' = StreamFailed
        /\ StreamTotal' = StreamTotal
    BY <2>1 DEF View, Total
  <2>3. StreamOpen = FALSE /\ StreamOpen' = TRUE
    BY <2>1 DEF View
  <2>4. Stream!Room
    BY <2>1, StreamRoom
  <2>5. Stream!Open
    BY <2>1, <2>2, <2>3, <2>4
       DEF Stream!Open, StreamPhase, StreamOpen, StreamPassed, StreamFailed, StreamTotal
  <2>. QED
    BY <2>5 DEF Stream!Next
<1>6. ASSUME NEW n, BeginFails(n) PROVE Stream!Next
  <2> DEFINE log == Append(events, Event("requestStarted", TRUE))
  <2>1. Due /\ Conclude(FALSE, log) /\ UNCHANGED <<suite, rows, skipped, summary>>
    BY <1>6 DEF BeginFails
  <2> HIDE DEF log
  <2>2. FALSE \in BOOLEAN
    OBVIOUS
  <2>. QED
    BY <2>1, <2>2, StreamConcludes DEF Stream!Next
<1>7. CASE ExecFails
  <2>1. pc = "exec" /\ Conclude(FALSE, events) /\ UNCHANGED <<suite, rows, skipped, summary>>
    BY <1>7 DEF ExecFails
  <2>. QED
    BY <2>1, StreamConcludes DEF Stream!Next
<1>8. ASSUME NEW ok \in BOOLEAN, NEW extracted \in BOOLEAN, ExecResponds(ok, extracted)
      PROVE  Stream!Next
  <2>1. pc = "exec" /\ Conclude(ok, events) /\ UNCHANGED <<suite, rows, skipped, summary>>
    BY <1>8 DEF ExecResponds
  <2>. QED
    BY <2>1, StreamConcludes DEF Stream!Next
<1>9. CASE Finish
  <2>1. /\ pc = "row" /\ pc' = "done" /\ iter > rows /\ summary' = Summary
        /\ UNCHANGED <<passed, failed, skipped, suite, rows>>
    BY <1>9 DEF Finish, counts
  <2>2. /\ StreamPhase = "running" /\ StreamPhase' = "closed"
        /\ StreamPassed' = StreamPassed /\ StreamFailed' = StreamFailed
        /\ StreamTotal' = StreamTotal
        /\ StreamPassed = passed /\ StreamFailed = failed /\ StreamTotal = Total
    BY <2>1 DEF View, Total
  <2>3. StreamOpen = FALSE /\ StreamOpen' = FALSE
    BY <2>1 DEF View
  <2>4. ~Stream!Room
    BY <2>1, StreamRoom
  <2>5. summary' = [total |-> StreamTotal, passed |-> StreamPassed, failed |-> StreamFailed,
                    skipped |-> skipped]
    BY <2>1, <2>2 DEF Summary
  <2>6. Stream!Close
    BY <2>1, <2>2, <2>3, <2>4, <2>5
       DEF Stream!Close, StreamPhase, StreamOpen, StreamPassed, StreamFailed, StreamTotal
  <2>. QED
    BY <2>6 DEF Stream!Next
<1>. QED
  BY <1>1, <1>2, <1>3, <1>4, <1>5, <1>6, <1>7, <1>8, <1>9 DEF Next, Step

(* The run loop implements the stream its consumers rely on (events.rs): one
   RunStarted, requests that open and close one at a time, and a RunFinished
   whose counts are those of the events and add up to the plan. *)
THEOREM StreamImplemented == Spec => ImplementsStream
<1>1. ASSUME SuiteInv, View, View', UNCHANGED vars PROVE UNCHANGED Stream!vars
  <2>1. UNCHANGED <<pc, passed, failed, skipped, summary, suite, rows>>
    BY <1>1 DEF vars, counts
  <2>2. StreamPhase' = StreamPhase
    BY <2>1 DEF StreamPhase
  <2>. QED
    BY <1>1, <2>1, <2>2, StreamStutters
<1>2. SuiteInv /\ View /\ View' /\ [Next]_vars => [Stream!Next]_(Stream!vars)
  BY <1>1, StreamStep
<1>. QED
  BY <1>2, StreamInit, InvariantHolds, ViewHolds, ViewHoldsNext, PTL
     DEF Spec, ImplementsStream, Stream!Spec

-----------------------------------------------------------------------------
(* Hooks.  What a request runs is laid end to end from one or two calls per
   scope; that this keeps their order for chains of every length needs an
   induction on the number of scopes, from the least counterexample. *)
LEMMA Least ==
  ASSUME NEW T \in SUBSET Nat, T # {}
  PROVE  \E x \in T : \A y \in T : x <= y
<1> DEFINE R == OpToRel(<, Nat)
<1>1. IsWellFoundedOn(R, Nat)
  BY NatLessThanWellFounded
<1>2. \A x, y \in Nat : y < x => <<y, x>> \in R
  BY DEF OpToRel
<1> HIDE DEF R
<1>3. PICK x \in T : \A y \in T : ~(<<y, x>> \in R)
  BY <1>1, WFMin
<1>4. \A y \in T : ~(y < x)
  BY <1>2, <1>3
<1>5. \A y \in T : y \in Nat /\ x \in Nat
  OBVIOUS
<1>. QED
  BY <1>4, <1>5

LEMMA Inductive ==
  ASSUME NEW T \in SUBSET Nat, 0 \in T, \A n \in T : n + 1 \in T
  PROVE  T = Nat
<1>1. SUFFICES ASSUME Nat \ T # {} PROVE FALSE
  OBVIOUS
<1>2. PICK x \in Nat \ T : \A y \in Nat \ T : x <= y
  BY <1>1, Least
<1>3. x # 0 /\ x - 1 \in Nat
  BY <1>2
<1>4. x - 1 \in T
  BY <1>2, <1>3
<1>. QED
  BY <1>2, <1>3, <1>4

-----------------------------------------------------------------------------
(* The pieces w[1] .. w[n] laid end to end, as Concat does it. *)
Laid(f, w, n) ==
  /\ DOMAIN f = 0..n /\ f[0] = <<>>
  /\ \A i \in 1..n : f[i] = f[i - 1] \o w[i]

LEMMA LaidExists ==
  ASSUME NEW n \in Nat, NEW w
  PROVE  \E f : Laid(f, w, n) /\ f = [i \in 0..n |-> f[i]]
<1> DEFINE T == {m \in Nat : \E f : Laid(f, w, m)}
<1>1. 0 \in T
  <2>1. Laid([i \in 0..0 |-> <<>>], w, 0)
    BY DEF Laid
  <2>. QED
    BY <2>1
<1>2. ASSUME NEW m \in T PROVE m + 1 \in T
  <2>1. PICK f : Laid(f, w, m)
    OBVIOUS
  <2> DEFINE g == [i \in 0..(m + 1) |-> IF i = m + 1 THEN f[m] \o w[m + 1] ELSE f[i]]
  <2>2. g[m + 1] = f[m] \o w[m + 1] /\ \A i \in 0..m : g[i] = f[i]
    OBVIOUS
  <2>3. ASSUME NEW i \in 1..(m + 1) PROVE g[i] = g[i - 1] \o w[i]
    <3>1. CASE i = m + 1
      <4>1. i - 1 = m /\ m \in 0..m
        BY <3>1
      <4>. QED
        BY <2>2, <3>1, <4>1
    <3>2. CASE i \in 1..m
      <4>1. i \in 0..m /\ i - 1 \in 0..m
        BY <3>2
      <4>. QED
        BY <2>1, <2>2, <3>2, <4>1 DEF Laid
    <3>3. i = m + 1 \/ i \in 1..m
      OBVIOUS
    <3> HIDE DEF g
    <3>. QED
      BY <3>1, <3>2, <3>3
  <2>4. DOMAIN g = 0..(m + 1) /\ g[0] = <<>>
    BY <2>1, <2>2 DEF Laid
  <2> HIDE DEF g
  <2>5. Laid(g, w, m + 1)
    BY <2>3, <2>4 DEF Laid
  <2>. QED
    BY <2>5
<1>3. T = Nat
  <2>1. T \in SUBSET Nat
    OBVIOUS
  <2> HIDE DEF T
  <2>. QED
    BY <1>1, <1>2, <2>1, Inductive
<1>4. PICK f : Laid(f, w, n)
  BY <1>3
<1>5. Laid([i \in 0..n |-> f[i]], w, n)
  BY <1>4 DEF Laid
<1>. QED
  BY <1>5

LEMMA Joined ==
  ASSUME NEW X, NEW a \in Seq(X), NEW b \in Seq(X), NEW c, c = a \o b
  PROVE  /\ c \in Seq(X) /\ DOMAIN c = 1..(Len(a) + Len(b)) /\ Len(a) \in Nat /\ Len(b) \in Nat
         /\ DOMAIN a = 1..Len(a) /\ DOMAIN b = 1..Len(b)
         /\ \A p \in DOMAIN a : p \in DOMAIN c /\ c[p] = a[p]
         /\ \A p \in DOMAIN b : Len(a) + p \in DOMAIN c /\ c[Len(a) + p] = b[p]
         /\ \A p \in DOMAIN c : \/ p \in DOMAIN a
                                \/ p > Len(a) /\ p - Len(a) \in DOMAIN b /\ c[p] = b[p - Len(a)]
<1>1. /\ c \in Seq(X) /\ DOMAIN c = 1..(Len(a) + Len(b)) /\ Len(a) \in Nat /\ Len(b) \in Nat
      /\ DOMAIN a = 1..Len(a) /\ DOMAIN b = 1..Len(b)
  OBVIOUS
<1>2. \A p \in 1..(Len(a) + Len(b)) : c[p] = IF p <= Len(a) THEN a[p] ELSE b[p - Len(a)]
  OBVIOUS
<1>3. \A p \in DOMAIN b : /\ Len(a) + p \in 1..(Len(a) + Len(b)) /\ ~(Len(a) + p <= Len(a))
                          /\ (Len(a) + p) - Len(a) = p
  BY <1>1
<1>4. ASSUME NEW p \in DOMAIN c, p \notin DOMAIN a
      PROVE  p > Len(a) /\ p - Len(a) \in DOMAIN b /\ ~(p <= Len(a))
  BY <1>1, <1>4
<1>. QED
  BY <1>1, <1>2, <1>3, <1>4

(* Pieces that are sorted and follow each other by rank make a sorted whole that
   has what the pieces have. *)
LEMMA LaidSorted ==
  ASSUME NEW X, NEW rank \in [X -> Int], NEW n \in Nat, NEW w \in [1..n -> Seq(X)],
         \A i \in 1..n : \A p \in DOMAIN w[i] : rank[w[i][p]] \in {2 * i - 1, 2 * i},
         \A i \in 1..n : \A p, q \in DOMAIN w[i] : p < q => rank[w[i][p]] < rank[w[i][q]],
         NEW f, Laid(f, w, n)
  PROVE  /\ f[n] \in Seq(X)
         /\ \A p \in DOMAIN f[n] : \E i \in 1..n : \E q \in DOMAIN w[i] : f[n][p] = w[i][q]
         /\ \A i \in 1..n : \A q \in DOMAIN w[i] : \E p \in DOMAIN f[n] : f[n][p] = w[i][q]
         /\ \A p, q \in DOMAIN f[n] : p < q => rank[f[n][p]] < rank[f[n][q]]
<1> DEFINE Sound(j) ==
             /\ f[j] \in Seq(X)
             /\ \A p \in DOMAIN f[j] : \E i \in 1..j : \E q \in DOMAIN w[i] : f[j][p] = w[i][q]
             /\ \A i \in 1..j : \A q \in DOMAIN w[i] : \E p \in DOMAIN f[j] : f[j][p] = w[i][q]
             /\ \A p, q \in DOMAIN f[j] : p < q => rank[f[j][p]] < rank[f[j][q]]
             /\ \A p \in DOMAIN f[j] : rank[f[j][p]] <= 2 * j
           T == {j \in Nat : j <= n => Sound(j)}
<1>1. 0 \in T
  <2>1. f[0] = <<>>
    BY DEF Laid
  <2>2. f[0] \in Seq(X) /\ DOMAIN f[0] = {}
    BY <2>1
  <2>. QED
    BY <2>2
<1>2. ASSUME NEW j \in T PROVE j + 1 \in T
  <2>1. SUFFICES ASSUME j + 1 <= n PROVE Sound(j + 1)
    OBVIOUS
  <2> DEFINE k == j + 1
             a == f[j]
             b == w[k]
             c == f[k]
  <2>2. j \in Nat /\ k \in 1..n /\ Sound(j)
    BY <2>1
  <2>3. c = a \o b /\ a \in Seq(X) /\ b \in Seq(X) /\ k - 1 = j
    <3>0. k - 1 = j /\ k \in 1..n
      BY <2>1
    <3>1. f[k] = f[k - 1] \o w[k]
      BY <3>0 DEF Laid
    <3>2. w[k] \in Seq(X)
      BY <2>2
    <3>. QED
      BY <2>2, <3>0, <3>1, <3>2
  <2>4. /\ c \in Seq(X) /\ DOMAIN c = 1..(Len(a) + Len(b)) /\ Len(a) \in Nat /\ Len(b) \in Nat
        /\ DOMAIN a = 1..Len(a) /\ DOMAIN b = 1..Len(b)
        /\ \A p \in DOMAIN a : p \in DOMAIN c /\ c[p] = a[p]
        /\ \A p \in DOMAIN b : Len(a) + p \in DOMAIN c /\ c[Len(a) + p] = b[p]
        /\ \A p \in DOMAIN c : \/ p \in DOMAIN a
                               \/ p > Len(a) /\ p - Len(a) \in DOMAIN b /\ c[p] = b[p - Len(a)]
    <3> HIDE DEF a, b, c
    <3>. QED
      BY <2>3, Joined
  <2>5. \A p \in DOMAIN c : \E i \in 1..k : \E q \in DOMAIN w[i] : c[p] = w[i][q]
    <3> SUFFICES ASSUME NEW p \in DOMAIN c
                 PROVE  \E i \in 1..k : \E q \in DOMAIN w[i] : c[p] = w[i][q]
      OBVIOUS
    <3>1. CASE p \in DOMAIN a
      <4>1. PICK i \in 1..j : \E q \in DOMAIN w[i] : a[p] = w[i][q]
        BY <2>2, <3>1
      <4>2. i \in 1..k
        BY <2>1
      <4>3. c[p] = a[p]
        BY <2>4, <3>1
      <4>. QED
        BY <4>1, <4>2, <4>3
    <3>2. CASE p - Len(a) \in DOMAIN b /\ c[p] = b[p - Len(a)]
      <4>1. k \in 1..k
        BY <2>2
      <4>. QED
        BY <3>2, <4>1
    <3>. QED
      BY <2>4, <3>1, <3>2
  <2>6. \A i \in 1..k : \A q \in DOMAIN w[i] : \E p \in DOMAIN c : c[p] = w[i][q]
    <3> SUFFICES ASSUME NEW i \in 1..k, NEW q \in DOMAIN w[i]
                 PROVE  \E p \in DOMAIN c : c[p] = w[i][q]
      OBVIOUS
    <3>1. CASE i \in 1..j
      <4>1. PICK p \in DOMAIN a : a[p] = w[i][q]
        BY <2>2, <3>1
      <4>2. p \in DOMAIN c /\ c[p] = a[p]
        <5> HIDE DEF a, b, c
        <5>. QED
          BY <2>4
      <4>. QED
        BY <4>1, <4>2
    <3>2. CASE i = k
      <4>1. Len(a) + q \in DOMAIN c /\ c[Len(a) + q] = b[q]
        BY <2>4, <3>2
      <4>. QED
        BY <3>2, <4>1
    <3>. QED
      BY <2>2, <3>1, <3>2
  <2>7. \A p \in DOMAIN a : rank[a[p]] \in Int /\ rank[a[p]] <= 2 * j
    <3>1. \A p \in DOMAIN a : a[p] \in X
      BY <2>3
    <3>. QED
      BY <2>2, <3>1
  <2>8. \A p \in DOMAIN b : rank[b[p]] \in {2 * k - 1, 2 * k}
    BY <2>2
  <2>9. \A p \in DOMAIN c : rank[c[p]] <= 2 * k
    <3> SUFFICES ASSUME NEW p \in DOMAIN c PROVE rank[c[p]] <= 2 * k
      OBVIOUS
    <3> HIDE DEF a, b, c
    <3>1. CASE p \in DOMAIN a
      <4>1. c[p] = a[p] /\ rank[a[p]] \in Int /\ rank[a[p]] <= 2 * j
        BY <3>1, <2>4, <2>7
      <4>. QED
        BY <4>1, <2>2
    <3>2. CASE p - Len(a) \in DOMAIN b /\ c[p] = b[p - Len(a)]
      <4>1. rank[c[p]] \in {2 * k - 1, 2 * k}
        BY <3>2, <2>8
      <4>. QED
        BY <4>1, <2>2
    <3>. QED
      BY <2>4, <3>1, <3>2
  <2>10. \A p, q \in DOMAIN c : p < q => rank[c[p]] < rank[c[q]]
    <3> SUFFICES ASSUME NEW p \in DOMAIN c, NEW q \in DOMAIN c, p < q
                 PROVE  rank[c[p]] < rank[c[q]]
      OBVIOUS
    <3>0. /\ \A x, y \in DOMAIN a : x < y => rank[a[x]] < rank[a[y]]
          /\ \A x, y \in DOMAIN b : x < y => rank[b[x]] < rank[b[y]]
      BY <2>2
    <3> HIDE DEF a, b, c
    <3>1. CASE p \in DOMAIN a /\ q \in DOMAIN a
      BY <3>0, <3>1, <2>4
    <3>2. CASE p \in DOMAIN a /\ q - Len(a) \in DOMAIN b /\ c[q] = b[q - Len(a)]
      <4>1. c[p] = a[p] /\ rank[a[p]] \in Int /\ rank[a[p]] <= 2 * j
        BY <3>2, <2>4, <2>7
      <4>2. rank[c[q]] \in {2 * k - 1, 2 * k}
        BY <3>2, <2>8
      <4>. QED
        BY <4>1, <4>2, <2>2
    <3>3. CASE /\ p - Len(a) \in DOMAIN b /\ c[p] = b[p - Len(a)]
               /\ q - Len(a) \in DOMAIN b /\ c[q] = b[q - Len(a)]
      <4>1. p - Len(a) < q - Len(a)
        BY <2>4
      <4>. QED
        BY <3>0, <3>3, <4>1
    <3>4. CASE p - Len(a) \in DOMAIN b /\ q \in DOMAIN a
      BY <3>4, <2>4
    <3>. QED
      BY <2>4, <3>1, <3>2, <3>3, <3>4
  <2>. QED
    BY <2>4, <2>5, <2>6, <2>9, <2>10
<1>3. T = Nat
  <2>1. T \in SUBSET Nat
    OBVIOUS
  <2> HIDE DEF T
  <2>. QED
    BY <1>1, <1>2, <2>1, Inductive
<1>4. Sound(n)
  <2>1. n \in T
    BY <1>3
  <2>. QED
    BY <2>1
<1>. QED
  BY <1>4

-----------------------------------------------------------------------------
(* The hooks that were run: in the order of the requests, and for each request
   in the order their scopes are entered and left. *)
RunHook ==
  [hook : {"beforeAll", "beforeEach", "afterEach", "afterAll"}, scope : Scopes,
   iter : Nat, idx : Nat]

Place(k, s) == CHOOSE t \in DOMAIN suite[k].chain : suite[k].chain[t] = s
Depth(k) == Len(suite[k].chain)

(* Where a call stands among those of its request. *)
Rank(c) ==
  CASE c.hook = "beforeAll" -> 2 * Place(c.idx, c.scope) - 1
    [] c.hook = "beforeEach" -> 2 * Place(c.idx, c.scope)
    [] c.hook = "afterEach" -> 4 * Depth(c.idx) - 2 * Place(c.idx, c.scope) + 1
    [] c.hook = "afterAll" -> 4 * Depth(c.idx) - 2 * Place(c.idx, c.scope) + 2
SameRequest(c, d) == c.iter = d.iter /\ c.idx = d.idx
Precedes(c, d) ==
  \/ c.iter < d.iter
  \/ c.iter = d.iter /\ c.idx < d.idx
  \/ SameRequest(c, d) /\ Rank(c) < Rank(d)

(* Each call is due where it was made. *)
CallFits(c) ==
  /\ c.iter \in 1..rows /\ c.idx \in 1..Len(suite) /\ Under(c.scope, c.idx)
  /\ c.hook = "beforeAll" => c.iter = 1 /\ IsFirst(c.scope, c.idx)
  /\ c.hook = "afterAll" => c.iter = rows /\ IsLast(c.scope, c.idx)

(* It was made for a request before the next one, or for the one in flight. *)
PastAt(c, at, i, k) ==
  \/ c.iter < i
  \/ c.iter = i /\ c.idx < k
  \/ at = "exec" /\ c.iter = i /\ c.idx = k /\ c.hook \in {"beforeAll", "beforeEach"}

HookOrder(log) ==
  /\ log \in Seq(RunHook)
  /\ \A n \in DOMAIN log : CallFits(log[n])
  /\ \A m, n \in DOMAIN log : m < n => Precedes(log[m], log[n])

(* The hook was run for every scope around the k-th request. *)
EachRan(log, hook, i, k) ==
  \A t \in DOMAIN suite[k].chain :
    \E n \in DOMAIN log :
      log[n] = [hook |-> hook, scope |-> suite[k].chain[t], iter |-> i, idx |-> k]

(* One afterEach of a request comes with all of them, and all its beforeEach. *)
Paired(log) ==
  \A n \in DOMAIN log : log[n].hook = "afterEach" =>
    \A each \in {"beforeEach", "afterEach"} : EachRan(log, each, log[n].iter, log[n].idx)

HooksInv ==
  /\ HookOrder(hookLog)
  /\ Paired(hookLog)
  /\ \A n \in DOMAIN hookLog : PastAt(hookLog[n], pc, iter, idx)
  /\ pc = "exec" => ~suite[idx].skip /\ EachRan(hookLog, "beforeEach", iter, idx)

-----------------------------------------------------------------------------
LEMMA ChainFacts ==
  ASSUME suite \in Suites, NEW k \in 1..Len(suite)
  PROVE  /\ suite[k].chain \in Seq(Scopes) /\ Depth(k) \in Nat
         /\ DOMAIN suite[k].chain = 1..Depth(k)
         /\ suite[k].skip \in BOOLEAN
         /\ \A t \in 1..Depth(k) :
              suite[k].chain[t] \in Scopes /\ Place(k, suite[k].chain[t]) = t
         /\ \A s : Under(s, k) <=> ~suite[k].skip /\ \E t \in 1..Depth(k) : suite[k].chain[t] = s
<1>1. suite \in Seq(Planned) /\ k \in DOMAIN suite
  BY SuiteAssumption
<1>2. suite[k] \in Planned
  BY <1>1
<1>3. suite[k].chain \in Seq(Scopes) /\ suite[k].skip \in BOOLEAN
  BY <1>2 DEF Planned
<1>4. Depth(k) \in Nat /\ DOMAIN suite[k].chain = 1..Depth(k)
      /\ \A t \in 1..Depth(k) : suite[k].chain[t] \in Scopes
  BY <1>3 DEF Depth
<1>5. \A i, j \in DOMAIN suite[k].chain : suite[k].chain[i] = suite[k].chain[j] => i = j
  BY <1>1, SuiteAssumption
<1>6. ASSUME NEW t \in 1..Depth(k) PROVE Place(k, suite[k].chain[t]) = t
  BY <1>4, <1>5 DEF Place
<1>. QED
  BY <1>3, <1>4, <1>6 DEF Under

(* What a request calls: only hooks of its own scopes, in order. *)
Mine ==
  {c \in RunHook : /\ c.iter = iter /\ c.idx = idx
                   /\ \E t \in 1..Depth(idx) : c.scope = suite[idx].chain[t]}

LEMMA CallIs ==
  ASSUME suite \in Suites, idx \in 1..Len(suite), iter \in Nat, ~suite[idx].skip,
         NEW t \in 1..Depth(idx), NEW hook \in {"beforeAll", "beforeEach", "afterEach", "afterAll"}
  PROVE  LET c == Call(hook, suite[idx].chain[t])
         IN /\ c \in Mine /\ c.hook = hook /\ c.scope = suite[idx].chain[t]
            /\ c.iter = iter /\ c.idx = idx /\ Under(c.scope, c.idx)
            /\ hook = "beforeAll" => Rank(c) = 2 * t - 1
            /\ hook = "beforeEach" => Rank(c) = 2 * t
            /\ hook = "afterEach" => Rank(c) = 4 * Depth(idx) - 2 * t + 1
            /\ hook = "afterAll" => Rank(c) = 4 * Depth(idx) - 2 * t + 2
<1> DEFINE s == suite[idx].chain[t]
           c == Call(hook, s)
<1>1. s \in Scopes /\ Place(idx, s) = t /\ Under(s, idx) /\ Depth(idx) \in Nat /\ idx \in Nat
  <2>1. idx \in Nat /\ Len(suite) \in Nat
    BY SuiteAssumption
  <2>. QED
    BY <2>1, ChainFacts
<1>2. c \in RunHook /\ c.hook = hook /\ c.scope = s /\ c.iter = iter /\ c.idx = idx
  BY <1>1 DEF Call, RunHook
<1> HIDE DEF c
<1>3. c \in Mine
  BY <1>2 DEF Mine
<1>4. /\ hook = "beforeAll" => Rank(c) = 2 * t - 1
      /\ hook = "beforeEach" => Rank(c) = 2 * t
      /\ hook = "afterEach" => Rank(c) = 4 * Depth(idx) - 2 * t + 1
      /\ hook = "afterAll" => Rank(c) = 4 * Depth(idx) - 2 * t + 2
  BY <1>1, <1>2 DEF Rank
<1>. QED
  BY <1>1, <1>2, <1>3, <1>4 DEF c

LEMMA MineRanked ==
  ASSUME suite \in Suites, idx \in 1..Len(suite), NEW c \in Mine
  PROVE  Rank(c) \in Int
<1>1. PICK t \in 1..Depth(idx) : c.scope = suite[idx].chain[t]
  BY DEF Mine
<1>2. Place(c.idx, c.scope) = t /\ c.idx = idx /\ Depth(idx) \in Nat /\ t \in Int
  BY <1>1, ChainFacts DEF Mine
<1>3. c.hook \in {"beforeAll", "beforeEach", "afterEach", "afterAll"}
  BY DEF Mine, RunHook
<1>4. /\ 2 * t - 1 \in Int /\ 2 * t \in Int
      /\ 4 * Depth(idx) - 2 * t + 1 \in Int /\ 4 * Depth(idx) - 2 * t + 2 \in Int
  BY <1>2
<1>. QED
  BY <1>2, <1>3, <1>4 DEF Rank

(* A piece of one or two calls, as each scope contributes it. *)
LEMMA Glue ==
  ASSUME NEW X, NEW x \in X, NEW y \in X
  PROVE  /\ <<>> \o <<y>> = <<y>> /\ <<x>> \o <<>> = <<x>> /\ <<x>> \o <<y>> = <<x, y>>
<1>1. <<>> \o <<y>> = <<y>>
  OBVIOUS
<1>2. <<x>> \o <<>> = <<x>>
  OBVIOUS
<1>3. <<x>> \o <<y>> = <<x, y>>
  <2>1. \A c, d \in Seq(X) : Len(c) = 2 /\ Len(d) = 2 /\ c[1] = d[1] /\ c[2] = d[2] => c = d
    <3> SUFFICES ASSUME NEW c \in Seq(X), NEW d \in Seq(X), Len(c) = 2, Len(d) = 2,
                        c[1] = d[1], c[2] = d[2]
                 PROVE  c = d
      OBVIOUS
    <3>1. \A i \in 1..2 : i = 1 \/ i = 2
      OBVIOUS
    <3>. QED
      BY <3>1
  <2>2. <<x>> \o <<y>> \in Seq(X) /\ <<x, y>> \in Seq(X)
    OBVIOUS
  <2>3. Len(<<x>> \o <<y>>) = 2 /\ (<<x>> \o <<y>>)[1] = x /\ (<<x>> \o <<y>>)[2] = y
    OBVIOUS
  <2>. QED
    BY <2>1, <2>2, <2>3
<1>. QED
  BY <1>1, <1>2, <1>3

LEMMA PieceBefore ==
  ASSUME NEW X, NEW x \in X, NEW y \in X, NEW r \in [X -> Int], r[x] < r[y],
         NEW w, w \in {<<x, y>>, <<y>>}
  PROVE  /\ w \in Seq(X)
         /\ \A p, q \in DOMAIN w : p < q => r[w[p]] < r[w[q]]
         /\ \A p \in DOMAIN w : w[p] = y \/ (w # <<y>> /\ w[p] = x)
         /\ \E p \in DOMAIN w : w[p] = y
<1>1. CASE w = <<x, y>>
  <2>1. w \in Seq(X) /\ DOMAIN w = 1..2 /\ w[1] = x /\ w[2] = y /\ w # <<y>>
    BY <1>1
  <2>2. \A p, q \in 1..2 : (p < q => p = 1 /\ q = 2) /\ (p = 1 \/ p = 2) /\ 1 \in 1..2 /\ 2 \in 1..2
    OBVIOUS
  <2>. QED
    BY <2>1, <2>2
<1>2. CASE w = <<y>>
  <2>1. w \in Seq(X) /\ DOMAIN w = 1..1 /\ w[1] = y
    BY <1>2
  <2>2. \A p, q \in 1..1 : ~(p < q) /\ p = 1 /\ 1 \in 1..1
    OBVIOUS
  <2>. QED
    BY <2>1, <2>2
<1>. QED
  BY <1>1, <1>2

LEMMA PieceAfter ==
  ASSUME NEW X, NEW x \in X, NEW y \in X, NEW r \in [X -> Int], r[x] < r[y],
         NEW w, w \in {<<x, y>>, <<x>>}
  PROVE  /\ w \in Seq(X)
         /\ \A p, q \in DOMAIN w : p < q => r[w[p]] < r[w[q]]
         /\ \A p \in DOMAIN w : w[p] = x \/ (w # <<x>> /\ w[p] = y)
         /\ \E p \in DOMAIN w : w[p] = x
<1>1. CASE w = <<x, y>>
  <2>1. w \in Seq(X) /\ DOMAIN w = 1..2 /\ w[1] = x /\ w[2] = y /\ w # <<x>>
    BY <1>1
  <2>2. \A p, q \in 1..2 : (p < q => p = 1 /\ q = 2) /\ (p = 1 \/ p = 2) /\ 1 \in 1..2 /\ 2 \in 1..2
    OBVIOUS
  <2>. QED
    BY <2>1, <2>2
<1>2. CASE w = <<x>>
  <2>1. w \in Seq(X) /\ DOMAIN w = 1..1 /\ w[1] = x
    BY <1>2
  <2>2. \A p, q \in 1..1 : ~(p < q) /\ p = 1 /\ 1 \in 1..1
    OBVIOUS
  <2>. QED
    BY <2>1, <2>2
<1>. QED
  BY <1>1, <1>2

LEMMA BeforeRun ==
  ASSUME suite \in Suites, idx \in 1..Len(suite), iter \in Nat, ~suite[idx].skip
  PROVE  /\ BeforeHooks \in Seq(Mine)
         /\ \A p \in DOMAIN BeforeHooks :
              LET c == BeforeHooks[p]
              IN /\ Under(c.scope, c.idx)
                 /\ \/ c.hook = "beforeEach"
                    \/ c.hook = "beforeAll" /\ iter = 1 /\ IsFirst(c.scope, idx)
                 /\ Rank(c) <= 2 * Depth(idx)
         /\ \A t \in 1..Depth(idx) : \E p \in DOMAIN BeforeHooks :
              BeforeHooks[p] = Call("beforeEach", suite[idx].chain[t])
         /\ \A p, q \in DOMAIN BeforeHooks : p < q => Rank(BeforeHooks[p]) < Rank(BeforeHooks[q])
<1> DEFINE n == Depth(idx)
           s(t) == suite[idx].chain[t]
           all(t) == Call("beforeAll", s(t))
           each(t) == Call("beforeEach", s(t))
           first(t) == iter = 1 /\ IsFirst(s(t), idx)
           r == [c \in Mine |-> Rank(c)]
           w == [t \in 1..n |-> (IF first(t) THEN <<all(t)>> ELSE <<>>) \o <<each(t)>>]
           Is(f) == f = [i \in 0..Len(suite[idx].chain) |->
                           IF i = 0 THEN <<>>
                           ELSE f[i - 1] \o ((IF iter = 1 /\ IsFirst(suite[idx].chain[i], idx)
                                                THEN <<Call("beforeAll", suite[idx].chain[i])>>
                                                ELSE <<>>)
                                             \o <<Call("beforeEach", suite[idx].chain[i])>>)]
<1>0. n \in Nat /\ Len(suite[idx].chain) = n
  BY ChainFacts DEF Depth
<1>1. ASSUME NEW t \in 1..n
      PROVE  /\ all(t) \in Mine /\ each(t) \in Mine /\ r[all(t)] = 2 * t - 1 /\ r[each(t)] = 2 * t
             /\ all(t).hook = "beforeAll" /\ each(t).hook = "beforeEach"
             /\ all(t).scope = s(t) /\ each(t).scope = s(t)
             /\ all(t).idx = idx /\ each(t).idx = idx /\ Under(s(t), idx)
  BY CallIs
<1>2. r \in [Mine -> Int]
  BY MineRanked
<1>3. ASSUME NEW t \in 1..n
      PROVE  /\ w[t] \in Seq(Mine)
             /\ \A p \in DOMAIN w[t] : w[t][p] = each(t) \/ (first(t) /\ w[t][p] = all(t))
             /\ \E p \in DOMAIN w[t] : w[t][p] = each(t)
             /\ \A p, q \in DOMAIN w[t] : p < q => r[w[t][p]] < r[w[t][q]]
  <2>1. w[t] = (IF first(t) THEN <<all(t)>> ELSE <<>>) \o <<each(t)>>
    OBVIOUS
  <2>2. /\ all(t) \in Mine /\ each(t) \in Mine /\ r[all(t)] = 2 * t - 1 /\ r[each(t)] = 2 * t
        /\ t \in Int
    BY <1>1
  <2> HIDE DEF all, each, first, w, r
  <2>3. r[all(t)] < r[each(t)]
    BY <2>2
  <2>4. CASE first(t)
    <3>1. w[t] = <<all(t)>> \o <<each(t)>>
      BY <2>1, <2>4
    <3>2. w[t] \in {<<all(t), each(t)>>, <<each(t)>>}
      BY <2>2, <3>1, Glue
    <3>. QED
      BY <1>2, <2>2, <2>3, <2>4, <3>2, PieceBefore
  <2>5. CASE ~first(t)
    <3>1. w[t] = <<>> \o <<each(t)>>
      BY <2>1, <2>5
    <3>2. w[t] = <<each(t)>>
      BY <2>2, <3>1, Glue
    <3>. QED
      BY <1>2, <2>2, <2>3, <3>2, PieceBefore
  <2>. QED
    BY <2>4, <2>5
<1>4. PICK g : Laid(g, w, n) /\ g = [i \in 0..n |-> g[i]]
  BY <1>0, LaidExists
<1>5. Is(g)
  <2>1. ASSUME NEW i \in 0..n PROVE g[i] = IF i = 0 THEN <<>> ELSE g[i - 1] \o w[i]
    <3> HIDE DEF w
    <3>1. CASE i = 0
      BY <1>4, <3>1 DEF Laid
    <3>2. CASE i # 0
      <4>1. i \in 1..n
        BY <1>0, <3>2
      <4>2. g[i] = g[i - 1] \o w[i]
        BY <1>4, <4>1 DEF Laid
      <4>. QED
        BY <3>2, <4>2
    <3>. QED
      BY <3>1, <3>2
  <2>2. \A i \in 1..n : w[i] = (IF iter = 1 /\ IsFirst(suite[idx].chain[i], idx)
                                  THEN <<Call("beforeAll", suite[idx].chain[i])>> ELSE <<>>)
                               \o <<Call("beforeEach", suite[idx].chain[i])>>
    OBVIOUS
  <2>3. \A i \in 0..n : i = 0 \/ i \in 1..n
    BY <1>0
  <2> HIDE DEF w
  <2>. QED
    BY <1>0, <1>4, <2>1, <2>2, <2>3
<1>6. PICK f : Is(f) /\ BeforeHooks = f[n]
  <2>1. Is(CHOOSE f : Is(f))
    BY <1>5
  <2>. QED
    BY <2>1, <1>0 DEF BeforeHooks, Concat
<1>7. Laid(f, w, n)
  <2>1. DOMAIN f = 0..n /\ f[0] = <<>>
    <3>1. 0 \in 0..n
      BY <1>0
    <3>. QED
      BY <1>6, <1>0, <3>1
  <2>2. \A i \in 1..n : f[i] = f[i - 1] \o w[i]
    <3> SUFFICES ASSUME NEW i \in 1..n PROVE f[i] = f[i - 1] \o w[i]
      OBVIOUS
    <3>1. i \in 0..n /\ i # 0
      BY <1>0
    <3>. QED
      BY <1>6, <1>0, <3>1
  <2> HIDE DEF w
  <2>. QED
    BY <2>1, <2>2 DEF Laid
<1>8. \A t \in 1..n : \A p \in DOMAIN w[t] : r[w[t][p]] \in {2 * t - 1, 2 * t}
  <2> SUFFICES ASSUME NEW t \in 1..n, NEW p \in DOMAIN w[t]
               PROVE  r[w[t][p]] \in {2 * t - 1, 2 * t}
    OBVIOUS
  <2>1. w[t][p] = each(t) \/ w[t][p] = all(t)
    BY <1>3
  <2>2. r[all(t)] \in {2 * t - 1, 2 * t} /\ r[each(t)] \in {2 * t - 1, 2 * t}
    BY <1>1
  <2> HIDE DEF w, r, all, each
  <2>. QED
    BY <2>1, <2>2
<1>9. w \in [1..n -> Seq(Mine)]
  BY <1>3
<1> HIDE DEF w, r, Is
<1>10. /\ f[n] \in Seq(Mine)
       /\ \A p \in DOMAIN f[n] : \E i \in 1..n : \E q \in DOMAIN w[i] : f[n][p] = w[i][q]
       /\ \A i \in 1..n : \A q \in DOMAIN w[i] : \E p \in DOMAIN f[n] : f[n][p] = w[i][q]
       /\ \A p, q \in DOMAIN f[n] : p < q => r[f[n][p]] < r[f[n][q]]
  BY <1>0, <1>2, <1>3, <1>7, <1>8, <1>9, LaidSorted
<1>11. \A p \in DOMAIN f[n] : f[n][p] \in Mine /\ r[f[n][p]] = Rank(f[n][p])
  <2>1. \A c \in Mine : r[c] = Rank(c)
    BY DEF r
  <2>. QED
    BY <1>10, <2>1
<1>12. \A p, q \in DOMAIN BeforeHooks : p < q => Rank(BeforeHooks[p]) < Rank(BeforeHooks[q])
  BY <1>6, <1>10, <1>11
<1>13. \A t \in 1..n : \E p \in DOMAIN BeforeHooks : BeforeHooks[p] = each(t)
  BY <1>3, <1>6, <1>10
<1>14. ASSUME NEW p \in DOMAIN f[n]
       PROVE  LET c == f[n][p]
              IN /\ Under(c.scope, c.idx)
                 /\ \/ c.hook = "beforeEach"
                    \/ c.hook = "beforeAll" /\ iter = 1 /\ IsFirst(c.scope, idx)
                 /\ Rank(c) <= 2 * Depth(idx)
  <2>1. PICK t \in 1..n : f[n][p] = each(t) \/ (first(t) /\ f[n][p] = all(t))
    BY <1>3, <1>10
  <2>2. r[f[n][p]] <= 2 * n
    BY <2>1, <1>1, <1>0
  <2>3. Rank(f[n][p]) <= 2 * n
    BY <2>2, <1>11
  <2>. QED
    BY <2>1, <2>3, <1>1
<1>. QED
  BY <1>6, <1>10, <1>12, <1>13, <1>14

LEMMA AfterRun ==
  ASSUME suite \in Suites, idx \in 1..Len(suite), iter \in Nat, ~suite[idx].skip
  PROVE  /\ AfterHooks \in Seq(Mine)
         /\ \A p \in DOMAIN AfterHooks :
              LET c == AfterHooks[p]
              IN /\ Under(c.scope, c.idx)
                 /\ \/ c.hook = "afterEach"
                    \/ c.hook = "afterAll" /\ iter = rows /\ IsLast(c.scope, idx)
                 /\ Rank(c) > 2 * Depth(idx)
         /\ \A t \in 1..Depth(idx) : \E p \in DOMAIN AfterHooks :
              AfterHooks[p] = Call("afterEach", suite[idx].chain[t])
         /\ \A p, q \in DOMAIN AfterHooks : p < q => Rank(AfterHooks[p]) < Rank(AfterHooks[q])
<1> DEFINE n == Depth(idx)
           inwards == Reversed(suite[idx].chain)
           s(t) == inwards[t]
           all(t) == Call("afterAll", s(t))
           each(t) == Call("afterEach", s(t))
           last(t) == iter = rows /\ IsLast(s(t), idx)
           r == [c \in Mine |-> Rank(c) - 2 * n]
           w == [t \in 1..n |-> <<each(t)>> \o (IF last(t) THEN <<all(t)>> ELSE <<>>)]
           Is(f) == f = [i \in 0..Len(inwards) |->
                           IF i = 0 THEN <<>>
                           ELSE f[i - 1] \o (<<Call("afterEach", inwards[i])>>
                                             \o (IF iter = rows /\ IsLast(inwards[i], idx)
                                                    THEN <<Call("afterAll", inwards[i])>>
                                                    ELSE <<>>))]
<1>0. n \in Nat /\ Len(inwards) = n /\ \A t \in 1..n : n + 1 - t \in 1..n /\ inwards[t] = suite[idx].chain[n + 1 - t]
  <2>1. n \in Nat /\ Len(suite[idx].chain) = n /\ suite[idx].chain \in Seq(Scopes)
        /\ DOMAIN suite[idx].chain = 1..n
    BY ChainFacts DEF Depth
  <2>2. \A t \in 1..n : n + 1 - t \in 1..n
    BY <2>1
  <2>3. inwards = [t \in 1..n |-> suite[idx].chain[n + 1 - t]]
    BY <2>1 DEF Reversed
  <2>4. \A t \in 1..n : suite[idx].chain[n + 1 - t] \in Scopes
    BY <2>1, <2>2
  <2>5. inwards \in [1..n -> Scopes]
    BY <2>3, <2>4
  <2>6. inwards \in Seq(Scopes) /\ Len(inwards) = n
    <3> HIDE DEF inwards
    <3>. QED
      BY <2>1, <2>5
  <2>. QED
    BY <2>1, <2>2, <2>3, <2>6
<1>00. n \in Nat /\ Len(inwards) = n
  BY <1>0
<1> HIDE DEF inwards
<1>1. ASSUME NEW t \in 1..n
      PROVE  /\ all(t) \in Mine /\ each(t) \in Mine /\ r[all(t)] = 2 * t /\ r[each(t)] = 2 * t - 1
             /\ all(t).hook = "afterAll" /\ each(t).hook = "afterEach"
             /\ all(t).scope = s(t) /\ each(t).scope = s(t)
             /\ all(t).idx = idx /\ each(t).idx = idx /\ Under(s(t), idx)
  <2> DEFINE u == n + 1 - t
  <2>1. u \in 1..n /\ s(t) = suite[idx].chain[u]
    BY <1>0
  <2>2. /\ all(t) \in Mine /\ each(t) \in Mine
        /\ Rank(all(t)) = 4 * n - 2 * u + 2 /\ Rank(each(t)) = 4 * n - 2 * u + 1
        /\ all(t).hook = "afterAll" /\ each(t).hook = "afterEach"
        /\ all(t).scope = s(t) /\ each(t).scope = s(t)
        /\ all(t).idx = idx /\ each(t).idx = idx /\ Under(s(t), idx)
    <3> HIDE DEF u
    <3>. QED
      BY <2>1, CallIs
  <2>3. \A c \in Mine : r[c] = Rank(c) - 2 * n
    OBVIOUS
  <2> HIDE DEF all, each, r, s
  <2>4. r[all(t)] = (4 * n - 2 * u + 2) - 2 * n /\ r[each(t)] = (4 * n - 2 * u + 1) - 2 * n
    BY <2>2, <2>3
  <2>5. (4 * n - 2 * u + 2) - 2 * n = 2 * t /\ (4 * n - 2 * u + 1) - 2 * n = 2 * t - 1
    <3>1. n \in Nat /\ t \in Nat
      BY <1>00
    <3>. QED
      BY <3>1
  <2>. QED
    BY <2>2, <2>4, <2>5
<1>2. r \in [Mine -> Int]
  BY <1>0, MineRanked
<1>3. ASSUME NEW t \in 1..n
      PROVE  /\ w[t] \in Seq(Mine)
             /\ \A p \in DOMAIN w[t] : w[t][p] = each(t) \/ (last(t) /\ w[t][p] = all(t))
             /\ \E p \in DOMAIN w[t] : w[t][p] = each(t)
             /\ \A p, q \in DOMAIN w[t] : p < q => r[w[t][p]] < r[w[t][q]]
  <2>1. w[t] = <<each(t)>> \o (IF last(t) THEN <<all(t)>> ELSE <<>>)
    OBVIOUS
  <2>2. /\ all(t) \in Mine /\ each(t) \in Mine /\ r[all(t)] = 2 * t /\ r[each(t)] = 2 * t - 1
        /\ t \in Int
    BY <1>1
  <2> HIDE DEF all, each, last, w, r
  <2>3. r[each(t)] < r[all(t)]
    BY <2>2
  <2>4. CASE last(t)
    <3>1. w[t] = <<each(t)>> \o <<all(t)>>
      BY <2>1, <2>4
    <3>2. w[t] \in {<<each(t), all(t)>>, <<each(t)>>}
      BY <2>2, <3>1, Glue
    <3>. QED
      BY <1>2, <2>2, <2>3, <2>4, <3>2, PieceAfter
  <2>5. CASE ~last(t)
    <3>1. w[t] = <<each(t)>> \o <<>>
      BY <2>1, <2>5
    <3>2. w[t] = <<each(t)>>
      BY <2>2, <3>1, Glue
    <3>. QED
      BY <1>2, <2>2, <2>3, <3>2, PieceAfter
  <2>. QED
    BY <2>4, <2>5
<1>4. PICK g : Laid(g, w, n) /\ g = [i \in 0..n |-> g[i]]
  BY <1>00, LaidExists
<1>5. Is(g)
  <2>1. ASSUME NEW i \in 0..n PROVE g[i] = IF i = 0 THEN <<>> ELSE g[i - 1] \o w[i]
    <3> HIDE DEF w
    <3>1. CASE i = 0
      BY <1>4, <3>1 DEF Laid
    <3>2. CASE i # 0
      <4>1. i \in 1..n
        BY <1>00, <3>2
      <4>2. g[i] = g[i - 1] \o w[i]
        BY <1>4, <4>1 DEF Laid
      <4>. QED
        BY <3>2, <4>2
    <3>. QED
      BY <3>1, <3>2
  <2>2. \A i \in 1..n : w[i] = <<Call("afterEach", inwards[i])>>
                               \o (IF iter = rows /\ IsLast(inwards[i], idx)
                                     THEN <<Call("afterAll", inwards[i])>> ELSE <<>>)
    OBVIOUS
  <2>3. \A i \in 0..n : i = 0 \/ i \in 1..n
    BY <1>00
  <2> HIDE DEF w
  <2>. QED
    BY <1>00, <1>4, <2>1, <2>2, <2>3
<1>6. PICK f : Is(f) /\ AfterHooks = f[n]
  <2>1. Is(CHOOSE f : Is(f))
    BY <1>5
  <2>. QED
    BY <2>1, <1>00 DEF AfterHooks, Concat, inwards
<1>7. Laid(f, w, n)
  <2>1. DOMAIN f = 0..n /\ f[0] = <<>>
    <3>1. 0 \in 0..n
      BY <1>00
    <3>. QED
      BY <1>6, <1>00, <3>1
  <2>2. \A i \in 1..n : f[i] = f[i - 1] \o w[i]
    <3> SUFFICES ASSUME NEW i \in 1..n PROVE f[i] = f[i - 1] \o w[i]
      OBVIOUS
    <3>1. i \in 0..n /\ i # 0
      BY <1>00
    <3>. QED
      BY <1>6, <1>00, <3>1
  <2> HIDE DEF w
  <2>. QED
    BY <2>1, <2>2 DEF Laid
<1>8. \A t \in 1..n : \A p \in DOMAIN w[t] : r[w[t][p]] \in {2 * t - 1, 2 * t}
  <2> SUFFICES ASSUME NEW t \in 1..n, NEW p \in DOMAIN w[t]
               PROVE  r[w[t][p]] \in {2 * t - 1, 2 * t}
    OBVIOUS
  <2>1. w[t][p] = each(t) \/ w[t][p] = all(t)
    BY <1>3
  <2>2. r[all(t)] \in {2 * t - 1, 2 * t} /\ r[each(t)] \in {2 * t - 1, 2 * t}
    BY <1>1
  <2> HIDE DEF w, r, all, each
  <2>. QED
    BY <2>1, <2>2
<1>9. w \in [1..n -> Seq(Mine)]
  BY <1>3
<1> HIDE DEF w, r, Is
<1>10. /\ f[n] \in Seq(Mine)
       /\ \A p \in DOMAIN f[n] : \E i \in 1..n : \E q \in DOMAIN w[i] : f[n][p] = w[i][q]
       /\ \A i \in 1..n : \A q \in DOMAIN w[i] : \E p \in DOMAIN f[n] : f[n][p] = w[i][q]
       /\ \A p, q \in DOMAIN f[n] : p < q => r[f[n][p]] < r[f[n][q]]
  BY <1>00, <1>2, <1>3, <1>7, <1>8, <1>9, LaidSorted
<1>11. \A p \in DOMAIN f[n] : f[n][p] \in Mine /\ r[f[n][p]] = Rank(f[n][p]) - 2 * n
  <2>1. \A c \in Mine : r[c] = Rank(c) - 2 * n
    BY DEF r
  <2>. QED
    BY <1>10, <2>1
<1>12. \A p, q \in DOMAIN AfterHooks : p < q => Rank(AfterHooks[p]) < Rank(AfterHooks[q])
  <2>1. \A p \in DOMAIN f[n] : Rank(f[n][p]) \in Int
    BY <1>10, MineRanked
  <2>. QED
    BY <1>00, <1>6, <1>10, <1>11, <2>1
<1>13. \A t \in 1..n : \E p \in DOMAIN AfterHooks :
         AfterHooks[p] = Call("afterEach", suite[idx].chain[t])
  <2> SUFFICES ASSUME NEW t \in 1..n
               PROVE  \E p \in DOMAIN AfterHooks :
                        AfterHooks[p] = Call("afterEach", suite[idx].chain[t])
    OBVIOUS
  <2>1. n + 1 - t \in 1..n /\ n + 1 - (n + 1 - t) = t
    BY <1>0
  <2>2. each(n + 1 - t) = Call("afterEach", suite[idx].chain[t])
    BY <1>0, <2>1
  <2>3. \E p \in DOMAIN AfterHooks : AfterHooks[p] = each(n + 1 - t)
    <3> HIDE DEF each
    <3>. QED
      BY <1>3, <1>6, <1>10, <2>1
  <2>. QED
    BY <2>2, <2>3
<1>14. ASSUME NEW p \in DOMAIN f[n]
       PROVE  LET c == f[n][p]
              IN /\ Under(c.scope, c.idx)
                 /\ \/ c.hook = "afterEach"
                    \/ c.hook = "afterAll" /\ iter = rows /\ IsLast(c.scope, idx)
                 /\ Rank(c) > 2 * Depth(idx)
  <2>1. PICK t \in 1..n : f[n][p] = each(t) \/ (last(t) /\ f[n][p] = all(t))
    BY <1>3, <1>10
  <2>2. r[f[n][p]] > 0
    BY <2>1, <1>1, <1>0
  <2>3. Rank(f[n][p]) > 2 * n
    <3>1. Rank(f[n][p]) \in Int
      BY <1>10, MineRanked
    <3>. QED
      BY <1>00, <2>2, <1>11, <3>1
  <2>. QED
    BY <2>1, <2>3, <1>1
<1>. QED
  BY <1>6, <1>10, <1>12, <1>13, <1>14

-----------------------------------------------------------------------------
(* The hooks of one more request, or some of them, at the end of the log. *)
Follows(more, log) ==
  /\ more \in Seq(RunHook)
  /\ \A n \in DOMAIN more : CallFits(more[n])
  /\ \A m, n \in DOMAIN more : m < n => Precedes(more[m], more[n])
  /\ \A m \in DOMAIN log, n \in DOMAIN more : Precedes(log[m], more[n])

Continues(log2, log, more) ==
  log2 = log \o more

(* A log that says as much as another. *)
Keeps(log2, log) ==
  \A m \in DOMAIN log : \E n \in DOMAIN log2 : log2[n] = log[m]

LEMMA HooksAppend ==
  ASSUME NEW log, HookOrder(log), NEW more, Follows(more, log), NEW log2, Continues(log2, log, more)
  PROVE  /\ HookOrder(log2)
         /\ \A n \in DOMAIN log2 : (\E m \in DOMAIN log : log2[n] = log[m])
                                   \/ (\E m \in DOMAIN more : log2[n] = more[m])
         /\ Keeps(log2, log) /\ Keeps(log2, more)
<1>1. /\ log \in Seq(RunHook) /\ more \in Seq(RunHook)
      /\ \A n \in DOMAIN more : CallFits(more[n])
      /\ \A m, n \in DOMAIN more : m < n => Precedes(more[m], more[n])
      /\ \A m \in DOMAIN log, n \in DOMAIN more : Precedes(log[m], more[n])
  BY DEF HookOrder, Follows
<1>2. /\ log2 \in Seq(RunHook) /\ DOMAIN log2 = 1..(Len(log) + Len(more))
      /\ Len(log) \in Nat /\ Len(more) \in Nat
      /\ DOMAIN log = 1..Len(log) /\ DOMAIN more = 1..Len(more)
      /\ \A p \in DOMAIN log : p \in DOMAIN log2 /\ log2[p] = log[p]
      /\ \A p \in DOMAIN more : Len(log) + p \in DOMAIN log2 /\ log2[Len(log) + p] = more[p]
      /\ \A p \in DOMAIN log2 :
           \/ p \in DOMAIN log
           \/ p > Len(log) /\ p - Len(log) \in DOMAIN more /\ log2[p] = more[p - Len(log)]
  <2>1. log2 = log \o more
    BY DEF Continues
  <2>. QED
    BY <1>1, <2>1, Joined
<1>3. \A n \in DOMAIN log2 : CallFits(log2[n])
  BY <1>1, <1>2 DEF HookOrder
<1>4. ASSUME NEW m \in DOMAIN log2, NEW n \in DOMAIN log2, m < n
      PROVE  Precedes(log2[m], log2[n])
  <2>1. CASE m \in DOMAIN log /\ n \in DOMAIN log
    BY <1>2, <1>4, <2>1 DEF HookOrder
  <2>2. CASE m \in DOMAIN log /\ n - Len(log) \in DOMAIN more /\ log2[n] = more[n - Len(log)]
    BY <1>1, <1>2, <2>2
  <2>3. CASE /\ m - Len(log) \in DOMAIN more /\ log2[m] = more[m - Len(log)]
             /\ n - Len(log) \in DOMAIN more /\ log2[n] = more[n - Len(log)]
    <3>1. m - Len(log) < n - Len(log)
      BY <1>2, <1>4
    <3>. QED
      BY <1>1, <2>3, <3>1
  <2>4. CASE m > Len(log) /\ n \in DOMAIN log
    BY <1>2, <1>4, <2>4
  <2>. QED
    BY <1>2, <2>1, <2>2, <2>3, <2>4
<1>5. Keeps(log2, log) /\ Keeps(log2, more)
  BY <1>2 DEF Keeps
<1>. QED
  BY <1>2, <1>3, <1>4, <1>5 DEF HookOrder

LEMMA HooksKept ==
  ASSUME NEW log, NEW log2, Keeps(log2, log),
         NEW hook, NEW i, NEW k, EachRan(log, hook, i, k)
  PROVE  EachRan(log2, hook, i, k)
<1> SUFFICES ASSUME NEW t \in DOMAIN suite[k].chain
             PROVE  \E n \in DOMAIN log2 :
                      log2[n] = [hook |-> hook, scope |-> suite[k].chain[t], iter |-> i, idx |-> k]
  BY DEF EachRan
<1>1. PICK m \in DOMAIN log :
        log[m] = [hook |-> hook, scope |-> suite[k].chain[t], iter |-> i, idx |-> k]
  BY DEF EachRan
<1>2. PICK n \in DOMAIN log2 : log2[n] = log[m]
  BY DEF Keeps
<1>. QED
  BY <1>1, <1>2

(* The calls of the request in flight come after all those before it. *)
LEMMA MineComesAfter ==
  ASSUME NEW c, PastAt(c, pc, iter, idx), NEW d \in Mine,
         SameRequest(c, d) => Rank(c) < Rank(d)
  PROVE  Precedes(c, d)
<1>1. d.iter = iter /\ d.idx = idx
  BY DEF Mine
<1>. QED
  BY <1>1 DEF PastAt, Precedes, SameRequest

(* What is to be shown of a step that leaves the log as log. *)
LEMMA HooksStep ==
  ASSUME suite' = suite, rows' = rows, NEW log, hookLog' = log, HookOrder(log), Paired(log),
         \A n \in DOMAIN log : PastAt(log[n], pc', iter', idx'),
         pc' = "exec" => ~suite[idx'].skip /\ EachRan(log, "beforeEach", iter', idx')
  PROVE  HooksInv'
<1>1. HookOrder(hookLog)'
  <2>1. \A c : CallFits(c) <=>
              /\ c.iter \in 1..rows' /\ c.idx \in 1..Len(suite') /\ Under(c.scope, c.idx)'
              /\ c.hook = "beforeAll" => c.iter = 1 /\ IsFirst(c.scope, c.idx)'
              /\ c.hook = "afterAll" => c.iter = rows' /\ IsLast(c.scope, c.idx)'
    BY DEF CallFits, Under, IsFirst, IsLast
  <2>2. \A c, d : Precedes(c, d) <=> Precedes(c, d)'
    BY DEF Precedes, SameRequest, Rank, Place, Depth
  <2>. QED
    BY <2>1, <2>2 DEF HookOrder, CallFits
<1>2. Paired(hookLog)'
  BY DEF Paired, EachRan
<1>3. \A n \in DOMAIN hookLog' : PastAt(hookLog'[n], pc', iter', idx')
  OBVIOUS
<1>4. pc' = "exec" => ~suite[idx].skip' /\ EachRan(hookLog, "beforeEach", iter, idx)'
  BY DEF EachRan
<1>. QED
  BY <1>1, <1>2, <1>3, <1>4 DEF HooksInv, PastAt

(* Steps that run no hook leave the requests behind behind. *)
LEMMA HooksQuiet ==
  ASSUME HooksInv, suite' = suite, rows' = rows, hookLog' = hookLog, iter \in Nat, idx \in Nat,
         iter' \in Nat, idx' \in Nat,
         \/ iter' = iter /\ idx' = idx /\ pc' = pc
         \/ iter' = iter /\ idx' = idx /\ pc # "exec" /\ pc' # "exec"
         \/ iter' = iter /\ idx' = idx + 1 /\ pc' # "exec"
         \/ iter' = iter + 1 /\ pc # "exec" /\ pc' # "exec" /\ idx' = 1
            /\ \A n \in DOMAIN hookLog : hookLog[n].iter <= iter
  PROVE  HooksInv'
<1>1. \A n \in DOMAIN hookLog : hookLog[n].iter \in Nat /\ hookLog[n].idx \in Nat
  <2>1. \A n \in DOMAIN hookLog : hookLog[n] \in RunHook
    BY DEF HooksInv, HookOrder
  <2>. QED
    BY <2>1 DEF RunHook
<1>2. \A n \in DOMAIN hookLog : PastAt(hookLog[n], pc, iter, idx)
  BY DEF HooksInv
<1>3. \A n \in DOMAIN hookLog : PastAt(hookLog[n], pc', iter', idx')
  BY <1>1, <1>2 DEF PastAt
<1>4. pc' = "exec" => ~suite[idx'].skip /\ EachRan(hookLog, "beforeEach", iter', idx')
  BY DEF HooksInv
<1>. QED
  BY <1>3, <1>4, HooksStep DEF HooksInv

LEMMA BeforeFits ==
  ASSUME Typed, Placed, HooksInv, Due
  PROVE  /\ BeforeHooks \in Seq(RunHook) /\ BeforeHooks \in Seq(Mine)
         /\ \A n \in DOMAIN BeforeHooks :
              /\ CallFits(BeforeHooks[n]) /\ BeforeHooks[n].iter = iter /\ BeforeHooks[n].idx = idx
              /\ BeforeHooks[n].hook \in {"beforeAll", "beforeEach"}
         /\ \A m, n \in DOMAIN BeforeHooks : m < n => Precedes(BeforeHooks[m], BeforeHooks[n])
         /\ \A m \in DOMAIN hookLog, n \in DOMAIN BeforeHooks :
              Precedes(hookLog[m], BeforeHooks[n])
         /\ EachRan(BeforeHooks, "beforeEach", iter, idx)
<1>1. /\ suite \in Suites /\ idx \in 1..Len(suite) /\ iter \in 1..rows /\ iter \in Nat
      /\ ~suite[idx].skip /\ pc = "next" /\ Len(suite) \in Nat
  BY SuiteAssumption DEF Typed, Placed, Due
<1>2. /\ BeforeHooks \in Seq(Mine)
      /\ \A p \in DOMAIN BeforeHooks :
           /\ Under(BeforeHooks[p].scope, BeforeHooks[p].idx)
           /\ \/ BeforeHooks[p].hook = "beforeEach"
              \/ BeforeHooks[p].hook = "beforeAll" /\ iter = 1 /\ IsFirst(BeforeHooks[p].scope, idx)
      /\ \A t \in 1..Depth(idx) : \E p \in DOMAIN BeforeHooks :
           BeforeHooks[p] = Call("beforeEach", suite[idx].chain[t])
      /\ \A p, q \in DOMAIN BeforeHooks : p < q => Rank(BeforeHooks[p]) < Rank(BeforeHooks[q])
  BY <1>1, BeforeRun
<1>3. \A p \in DOMAIN BeforeHooks : /\ BeforeHooks[p] \in Mine /\ BeforeHooks[p] \in RunHook
                                    /\ BeforeHooks[p].iter = iter /\ BeforeHooks[p].idx = idx
  <2>1. \A p \in DOMAIN BeforeHooks : BeforeHooks[p] \in Mine
    BY <1>2
  <2>. QED
    BY <2>1 DEF Mine
<1>4. BeforeHooks \in Seq(RunHook)
  BY <1>2, <1>3
<1>5. \A p \in DOMAIN BeforeHooks : CallFits(BeforeHooks[p])
  BY <1>1, <1>2, <1>3 DEF CallFits
<1>6. \A m, n \in DOMAIN BeforeHooks : m < n => Precedes(BeforeHooks[m], BeforeHooks[n])
  BY <1>2, <1>3 DEF Precedes, SameRequest
<1>7. ASSUME NEW m \in DOMAIN hookLog, NEW n \in DOMAIN BeforeHooks
      PROVE  Precedes(hookLog[m], BeforeHooks[n])
  <2>1. PastAt(hookLog[m], pc, iter, idx)
    BY DEF HooksInv
  <2>2. hookLog[m] \in RunHook
    BY DEF HooksInv, HookOrder
  <2>3. hookLog[m].iter \in Nat /\ hookLog[m].idx \in Nat
    BY <2>2 DEF RunHook
  <2>4. ~SameRequest(hookLog[m], BeforeHooks[n])
    BY <1>1, <1>3, <2>1, <2>3 DEF PastAt, SameRequest
  <2>. QED
    BY <1>3, <2>1, <2>4, MineComesAfter
<1>8. EachRan(BeforeHooks, "beforeEach", iter, idx)
  <2>1. DOMAIN suite[idx].chain = 1..Depth(idx)
    BY <1>1, ChainFacts
  <2>. QED
    BY <1>2, <2>1 DEF EachRan, Call
<1>. QED
  BY <1>2, <1>3, <1>4, <1>5, <1>6, <1>7, <1>8

LEMMA BeginHooks ==
  ASSUME Typed, Placed, HooksInv, BeginRequest
  PROVE  HooksInv'
<1> DEFINE more == BeforeHooks
           log == hookLog \o more
<1>1. Due /\ hookLog' = log /\ suite' = suite /\ rows' = rows /\ iter' = iter /\ idx' = idx
      /\ pc' = "exec" /\ ~suite[idx].skip
  BY DEF BeginRequest, Due
<1>2. /\ more \in Seq(RunHook)
      /\ \A n \in DOMAIN more : CallFits(more[n]) /\ more[n].iter = iter /\ more[n].idx = idx
                                /\ more[n].hook \in {"beforeAll", "beforeEach"}
      /\ \A m, n \in DOMAIN more : m < n => Precedes(more[m], more[n])
      /\ \A m \in DOMAIN hookLog, n \in DOMAIN more : Precedes(hookLog[m], more[n])
      /\ EachRan(more, "beforeEach", iter, idx)
  BY <1>1, BeforeFits
<1>3. HookOrder(hookLog) /\ Paired(hookLog)
      /\ \A n \in DOMAIN hookLog : PastAt(hookLog[n], pc, iter, idx)
  BY DEF HooksInv
<1>0. Continues(log, hookLog, more)
  BY DEF Continues
<1> HIDE DEF more, log
<1>4. /\ HookOrder(log)
      /\ \A n \in DOMAIN log : (\E m \in DOMAIN hookLog : log[n] = hookLog[m])
                               \/ (\E m \in DOMAIN more : log[n] = more[m])
      /\ Keeps(log, hookLog) /\ Keeps(log, more)
  <2>1. Follows(more, hookLog)
    BY <1>2 DEF Follows
  <2>. QED
    BY <1>0, <1>3, <2>1, HooksAppend
<1>5. Paired(log)
  <2> SUFFICES ASSUME NEW n \in DOMAIN log, log[n].hook = "afterEach",
                      NEW each \in {"beforeEach", "afterEach"}
               PROVE  EachRan(log, each, log[n].iter, log[n].idx)
    BY DEF Paired
  <2>1. PICK m \in DOMAIN hookLog : log[n] = hookLog[m]
    BY <1>2, <1>4
  <2>2. EachRan(hookLog, each, log[n].iter, log[n].idx)
    BY <1>3, <2>1 DEF Paired
  <2>. QED
    BY <1>4, <2>2, HooksKept
<1>6. EachRan(log, "beforeEach", iter, idx)
  BY <1>2, <1>4, HooksKept
<1>7. ASSUME NEW n \in DOMAIN log PROVE PastAt(log[n], "exec", iter, idx)
  <2>1. CASE \E m \in DOMAIN hookLog : log[n] = hookLog[m]
    BY <1>3, <2>1 DEF PastAt
  <2>2. CASE \E m \in DOMAIN more : log[n] = more[m]
    BY <1>2, <2>2 DEF PastAt
  <2>. QED
    BY <1>4, <2>1, <2>2
<1>. QED
  BY <1>1, <1>4, <1>5, <1>6, <1>7, HooksStep

LEMMA Prefix ==
  ASSUME NEW X, NEW all \in Seq(X), NEW n \in DOMAIN all, NEW some, some = SubSeq(all, 1, n)
  PROVE  /\ some \in Seq(X) /\ DOMAIN some \subseteq DOMAIN all
         /\ \A p \in DOMAIN some : some[p] = all[p]
<1>1. n \in 1..Len(all) /\ Len(all) \in Nat
  OBVIOUS
<1>2. some \in Seq(X) /\ Len(some) = n /\ \A p \in 1..n : some[p] = all[p]
  BY <1>1
<1>3. DOMAIN some = 1..n /\ DOMAIN all = 1..Len(all)
  BY <1>2
<1>. QED
  BY <1>1, <1>2, <1>3

LEMMA BeginFailsHooks ==
  ASSUME Typed, Placed, HooksInv, NEW n \in Nat, BeginFails(n)
  PROVE  HooksInv'
<1> DEFINE all == BeforeHooks
           more == SubSeq(all, 1, n)
           log == hookLog \o more
<1>1. /\ Due /\ hookLog' = log /\ suite' = suite /\ rows' = rows /\ iter' = iter /\ idx' = idx + 1
      /\ pc' = "next" /\ n \in DOMAIN all
  BY DEF BeginFails, Conclude
<1>2. /\ all \in Seq(RunHook)
      /\ \A p \in DOMAIN all : CallFits(all[p]) /\ all[p].iter = iter /\ all[p].idx = idx
                               /\ all[p].hook \in {"beforeAll", "beforeEach"}
      /\ \A p, q \in DOMAIN all : p < q => Precedes(all[p], all[q])
      /\ \A p \in DOMAIN hookLog, q \in DOMAIN all : Precedes(hookLog[p], all[q])
  BY <1>1, BeforeFits
<1>3. HookOrder(hookLog) /\ Paired(hookLog)
      /\ \A p \in DOMAIN hookLog : PastAt(hookLog[p], pc, iter, idx)
  BY DEF HooksInv
<1> HIDE DEF all
<1>4. /\ more \in Seq(RunHook) /\ DOMAIN more \subseteq DOMAIN all
      /\ \A p \in DOMAIN more : more[p] = all[p]
  BY <1>1, <1>2, Prefix
<1>0. Continues(log, hookLog, more)
  BY DEF Continues
<1> HIDE DEF more, log
<1>5. /\ \A p \in DOMAIN more : CallFits(more[p]) /\ more[p].iter = iter /\ more[p].idx = idx
                                /\ more[p].hook \in {"beforeAll", "beforeEach"}
      /\ \A p, q \in DOMAIN more : p < q => Precedes(more[p], more[q])
      /\ \A p \in DOMAIN hookLog, q \in DOMAIN more : Precedes(hookLog[p], more[q])
  BY <1>2, <1>4
<1>6. /\ HookOrder(log)
      /\ \A p \in DOMAIN log : (\E m \in DOMAIN hookLog : log[p] = hookLog[m])
                               \/ (\E m \in DOMAIN more : log[p] = more[m])
      /\ Keeps(log, hookLog)
  <2>1. Follows(more, hookLog)
    BY <1>4, <1>5 DEF Follows
  <2>. QED
    BY <1>0, <1>3, <2>1, HooksAppend
<1>7. Paired(log)
  <2> SUFFICES ASSUME NEW p \in DOMAIN log, log[p].hook = "afterEach",
                      NEW each \in {"beforeEach", "afterEach"}
               PROVE  EachRan(log, each, log[p].iter, log[p].idx)
    BY DEF Paired
  <2>1. PICK m \in DOMAIN hookLog : log[p] = hookLog[m]
    BY <1>5, <1>6
  <2>2. EachRan(hookLog, each, log[p].iter, log[p].idx)
    BY <1>3, <2>1 DEF Paired
  <2>. QED
    BY <1>6, <2>2, HooksKept
<1>8. ASSUME NEW p \in DOMAIN log PROVE PastAt(log[p], pc', iter', idx')
  <2>0. idx \in Nat
    BY SuiteAssumption DEF Placed, Typed
  <2>1. CASE \E m \in DOMAIN hookLog : log[p] = hookLog[m]
    <3>1. PICK m \in DOMAIN hookLog : log[p] = hookLog[m]
      BY <2>1
    <3>2. hookLog[m] \in RunHook
      BY <1>3 DEF HookOrder
    <3>3. log[p].idx \in Nat
      BY <3>1, <3>2 DEF RunHook
    <3>. QED
      BY <1>1, <1>3, <2>0, <3>1, <3>3 DEF PastAt
  <2>2. CASE \E m \in DOMAIN more : log[p] = more[m]
    BY <1>1, <1>5, <2>0, <2>2 DEF PastAt
  <2>. QED
    BY <1>6, <2>1, <2>2
<1>. QED
  BY <1>1, <1>6, <1>7, <1>8, HooksStep

LEMMA AfterFits ==
  ASSUME Typed, Placed, HooksInv, pc = "exec", ~suite[idx].skip
  PROVE  /\ Follows(AfterHooks, hookLog)
         /\ \A n \in DOMAIN AfterHooks :
              /\ AfterHooks[n].iter = iter /\ AfterHooks[n].idx = idx
              /\ AfterHooks[n].hook \in {"afterEach", "afterAll"}
         /\ EachRan(AfterHooks, "afterEach", iter, idx)
<1>1. /\ suite \in Suites /\ idx \in 1..Len(suite) /\ iter \in 1..rows /\ iter \in Nat
      /\ ~suite[idx].skip /\ Len(suite) \in Nat
  BY SuiteAssumption DEF Typed, Placed
<1>2. /\ AfterHooks \in Seq(Mine)
      /\ \A p \in DOMAIN AfterHooks :
           /\ Under(AfterHooks[p].scope, AfterHooks[p].idx)
           /\ \/ AfterHooks[p].hook = "afterEach"
              \/ AfterHooks[p].hook = "afterAll" /\ iter = rows /\ IsLast(AfterHooks[p].scope, idx)
           /\ Rank(AfterHooks[p]) > 2 * Depth(idx)
      /\ \A t \in 1..Depth(idx) : \E p \in DOMAIN AfterHooks :
           AfterHooks[p] = Call("afterEach", suite[idx].chain[t])
      /\ \A p, q \in DOMAIN AfterHooks : p < q => Rank(AfterHooks[p]) < Rank(AfterHooks[q])
  BY <1>1, AfterRun
<1>3. \A p \in DOMAIN AfterHooks : /\ AfterHooks[p] \in Mine /\ AfterHooks[p] \in RunHook
                                   /\ AfterHooks[p].iter = iter /\ AfterHooks[p].idx = idx
  <2>1. \A p \in DOMAIN AfterHooks : AfterHooks[p] \in Mine
    BY <1>2
  <2>. QED
    BY <2>1 DEF Mine
<1>4. AfterHooks \in Seq(RunHook)
  BY <1>2, <1>3
<1>5. \A p \in DOMAIN AfterHooks : CallFits(AfterHooks[p])
  BY <1>1, <1>2, <1>3 DEF CallFits
<1>6. \A m, n \in DOMAIN AfterHooks : m < n => Precedes(AfterHooks[m], AfterHooks[n])
  BY <1>2, <1>3 DEF Precedes, SameRequest
<1>7. ASSUME NEW m \in DOMAIN hookLog, NEW n \in DOMAIN AfterHooks
      PROVE  Precedes(hookLog[m], AfterHooks[n])
  <2>1. PastAt(hookLog[m], pc, iter, idx) /\ CallFits(hookLog[m])
    BY DEF HooksInv, HookOrder
  <2>2. hookLog[m] \in RunHook
    BY DEF HooksInv, HookOrder
  <2>3. hookLog[m].iter \in Nat /\ hookLog[m].idx \in Nat
    BY <2>2 DEF RunHook
  <2>4. ASSUME SameRequest(hookLog[m], AfterHooks[n])
        PROVE  Rank(hookLog[m]) < Rank(AfterHooks[n])
    <3>1. hookLog[m].iter = iter /\ hookLog[m].idx = idx
          /\ hookLog[m].hook \in {"beforeAll", "beforeEach"}
      BY <1>1, <1>3, <2>1, <2>3, <2>4 DEF PastAt, SameRequest
    <3>2. PICK t \in 1..Depth(idx) : suite[idx].chain[t] = hookLog[m].scope
      BY <1>1, <2>1, <3>1, ChainFacts DEF CallFits
    <3>3. Place(idx, hookLog[m].scope) = t /\ Depth(idx) \in Nat
      BY <1>1, <3>2, ChainFacts
    <3>4. Rank(hookLog[m]) = 2 * t - 1 \/ Rank(hookLog[m]) = 2 * t
      BY <3>1, <3>3 DEF Rank
    <3>5. Rank(AfterHooks[n]) > 2 * Depth(idx) /\ Rank(AfterHooks[n]) \in Int
      BY <1>1, <1>2, <1>3, MineRanked
    <3>. QED
      BY <3>3, <3>4, <3>5
  <2>. QED
    BY <1>3, <2>1, <2>4, MineComesAfter
<1>8. EachRan(AfterHooks, "afterEach", iter, idx)
  <2>1. DOMAIN suite[idx].chain = 1..Depth(idx)
    BY <1>1, ChainFacts
  <2>. QED
    BY <1>2, <2>1 DEF EachRan, Call
<1>9. \A n \in DOMAIN AfterHooks : AfterHooks[n].hook \in {"afterEach", "afterAll"}
  BY <1>2
<1>. QED
  BY <1>3, <1>4, <1>5, <1>6, <1>7, <1>8, <1>9 DEF Follows

LEMMA RespondsHooks ==
  ASSUME Typed, Placed, HooksInv, NEW ok \in BOOLEAN, NEW extracted \in BOOLEAN,
         ExecResponds(ok, extracted)
  PROVE  HooksInv'
<1> DEFINE more == AfterHooks
           log == hookLog \o more
<1>1. /\ pc = "exec" /\ hookLog' = log /\ suite' = suite /\ rows' = rows /\ iter' = iter
      /\ idx' = idx + 1 /\ pc' = "next"
  BY DEF ExecResponds, Conclude
<1>2. /\ Follows(more, hookLog)
      /\ \A n \in DOMAIN more : more[n].iter = iter /\ more[n].idx = idx
      /\ EachRan(more, "afterEach", iter, idx)
  BY <1>1, AfterFits DEF HooksInv
<1>3. /\ HookOrder(hookLog) /\ Paired(hookLog)
      /\ \A p \in DOMAIN hookLog : PastAt(hookLog[p], pc, iter, idx)
      /\ EachRan(hookLog, "beforeEach", iter, idx)
  BY <1>1 DEF HooksInv
<1>4. Continues(log, hookLog, more)
  BY DEF Continues
<1> HIDE DEF more, log
<1>5. /\ HookOrder(log)
      /\ \A p \in DOMAIN log : (\E m \in DOMAIN hookLog : log[p] = hookLog[m])
                               \/ (\E m \in DOMAIN more : log[p] = more[m])
      /\ Keeps(log, hookLog) /\ Keeps(log, more)
  BY <1>2, <1>3, <1>4, HooksAppend
<1>6. Paired(log)
  <2> SUFFICES ASSUME NEW p \in DOMAIN log, log[p].hook = "afterEach",
                      NEW each \in {"beforeEach", "afterEach"}
               PROVE  EachRan(log, each, log[p].iter, log[p].idx)
    BY DEF Paired
  <2>1. CASE \E m \in DOMAIN hookLog : log[p] = hookLog[m]
    <3>1. EachRan(hookLog, each, log[p].iter, log[p].idx)
      BY <1>3, <2>1 DEF Paired
    <3>. QED
      BY <1>5, <3>1, HooksKept
  <2>2. CASE \E m \in DOMAIN more : log[p] = more[m]
    <3>1. log[p].iter = iter /\ log[p].idx = idx
      BY <1>2, <2>2
    <3>2. EachRan(log, "beforeEach", iter, idx)
      BY <1>3, <1>5, HooksKept
    <3>3. EachRan(log, "afterEach", iter, idx)
      BY <1>2, <1>5, HooksKept
    <3>. QED
      BY <3>1, <3>2, <3>3
  <2>. QED
    BY <1>5, <2>1, <2>2
<1>7. ASSUME NEW p \in DOMAIN log PROVE PastAt(log[p], pc', iter', idx')
  <2>0. idx \in Nat
    BY SuiteAssumption DEF Placed, Typed
  <2>1. CASE \E m \in DOMAIN hookLog : log[p] = hookLog[m]
    <3>1. PICK m \in DOMAIN hookLog : log[p] = hookLog[m]
      BY <2>1
    <3>2. hookLog[m] \in RunHook
      BY <1>3 DEF HookOrder
    <3>3. log[p].idx \in Nat
      BY <3>1, <3>2 DEF RunHook
    <3>. QED
      BY <1>1, <1>3, <2>0, <3>1, <3>3 DEF PastAt
  <2>2. CASE \E m \in DOMAIN more : log[p] = more[m]
    BY <1>1, <1>2, <2>0, <2>2 DEF PastAt
  <2>. QED
    BY <1>5, <2>1, <2>2
<1>. QED
  BY <1>1, <1>5, <1>6, <1>7, HooksStep

LEMMA HooksInit ==
  ASSUME Init
  PROVE  HooksInv
<1>1. hookLog = <<>> /\ pc = "start"
  BY DEF Init
<1>2. hookLog \in Seq(RunHook) /\ DOMAIN hookLog = {}
  BY <1>1
<1>. QED
  BY <1>1, <1>2 DEF HooksInv, HookOrder, Paired

LEMMA HooksNext ==
  ASSUME SuiteInv, HooksInv, [Next]_vars
  PROVE  HooksInv'
<1>0. Typed /\ Placed /\ iter \in Nat /\ idx \in Nat /\ rows \in Nat /\ Len(suite) \in Nat
  BY SuiteAssumption DEF SuiteInv, Typed, Placed
<1>1. \A n \in DOMAIN hookLog : hookLog[n].iter \in Nat /\ hookLog[n].idx \in Nat
                                /\ hookLog[n].idx <= Len(suite)
                                /\ PastAt(hookLog[n], pc, iter, idx)
  <2>1. \A n \in DOMAIN hookLog : hookLog[n] \in RunHook /\ CallFits(hookLog[n])
    BY DEF HooksInv, HookOrder
  <2>. QED
    BY <1>0, <2>1 DEF RunHook, CallFits, HooksInv
<1>2. ASSUME Refuse \/ Start PROVE HooksInv'
  BY <1>0, <1>2, HooksQuiet DEF Refuse, Start
<1>3. ASSUME BeginRow PROVE HooksInv'
  <2>1. idx = 1 /\ idx' = idx /\ iter' = iter /\ pc = "row" /\ pc' = "next"
    BY <1>0, <1>3 DEF BeginRow, Placed
  <2>. QED
    BY <1>0, <1>3, <2>1, HooksQuiet DEF BeginRow
<1>4. ASSUME Skip PROVE HooksInv'
  BY <1>0, <1>4, HooksQuiet DEF Skip
<1>5. ASSUME BeginRequest PROVE HooksInv'
  BY <1>0, <1>5, BeginHooks
<1>6. ASSUME NEW n \in 1..(2 * Cardinality(Scopes)), BeginFails(n) PROVE HooksInv'
  <2>1. n \in Nat
    BY <1>6 DEF BeginFails
  <2>. QED
    BY <1>0, <1>6, <2>1, BeginFailsHooks
<1>7. ASSUME ExecFails PROVE HooksInv'
  BY <1>0, <1>7, HooksQuiet DEF ExecFails, Conclude
<1>8. ASSUME NEW ok \in BOOLEAN, NEW extracted \in BOOLEAN, ExecResponds(ok, extracted)
      PROVE  HooksInv'
  BY <1>0, <1>8, RespondsHooks
<1>9. ASSUME EndRow PROVE HooksInv'
  <2>1. \A n \in DOMAIN hookLog : hookLog[n].iter <= iter
    BY <1>0, <1>1, <1>9 DEF PastAt, EndRow
  <2>. QED
    BY <1>0, <1>9, <2>1, HooksQuiet DEF EndRow
<1>10. ASSUME Finish PROVE HooksInv'
  BY <1>0, <1>10, HooksQuiet DEF Finish
<1>11. ASSUME Cancel \/ UNCHANGED vars PROVE HooksInv'
  BY <1>0, <1>11, HooksQuiet DEF Cancel, vars
<1>. QED
  BY <1>2, <1>3, <1>4, <1>5, <1>6, <1>7, <1>8, <1>9, <1>10, <1>11 DEF Next, Step

-----------------------------------------------------------------------------
(* Where a call of the log stands. *)
LEMMA LogFacts ==
  ASSUME Typed, Placed, HooksInv, NEW m \in DOMAIN hookLog
  PROVE  /\ m \in Nat /\ CallFits(hookLog[m]) /\ hookLog[m].scope \in Scopes
         /\ hookLog[m].iter \in 1..rows /\ hookLog[m].idx \in 1..Len(suite)
         /\ hookLog[m].iter \in Nat /\ hookLog[m].idx \in Nat /\ Rank(hookLog[m]) \in Int
         /\ hookLog[m].hook \in {"beforeAll", "beforeEach", "afterEach", "afterAll"}
         /\ \E t \in 1..Depth(hookLog[m].idx) :
              /\ Depth(hookLog[m].idx) \in Nat /\ t \in Nat
              /\ suite[hookLog[m].idx].chain[t] = hookLog[m].scope
              /\ Place(hookLog[m].idx, hookLog[m].scope) = t
<1> DEFINE c == hookLog[m]
<1>1. c \in RunHook /\ CallFits(c) /\ m \in Nat
  BY DEF HooksInv, HookOrder
<1> HIDE DEF c
<1>2. /\ c.iter \in 1..rows /\ c.idx \in 1..Len(suite) /\ c.iter \in Nat /\ c.idx \in Nat
      /\ c.hook \in {"beforeAll", "beforeEach", "afterEach", "afterAll"} /\ c.scope \in Scopes
  BY <1>1 DEF CallFits, RunHook
<1>3. suite \in Suites /\ Under(c.scope, c.idx)
  BY <1>1 DEF Typed, CallFits
<1>4. PICK t \in 1..Depth(c.idx) : suite[c.idx].chain[t] = c.scope
  BY <1>2, <1>3, ChainFacts
<1>5. Depth(c.idx) \in Nat /\ t \in Nat /\ Place(c.idx, c.scope) = t
  BY <1>2, <1>3, <1>4, ChainFacts
<1>6. Rank(c) \in Int
  BY <1>2, <1>5 DEF Rank
<1>. QED
  BY <1>1, <1>2, <1>4, <1>5, <1>6 DEF c

LEMMA LogOrder ==
  ASSUME Typed, Placed, HooksInv, NEW m \in DOMAIN hookLog, NEW n \in DOMAIN hookLog,
         SameRequest(hookLog[m], hookLog[n])
  PROVE  m < n <=> Rank(hookLog[m]) < Rank(hookLog[n])
<1>1. /\ m \in Nat /\ n \in Nat
      /\ Rank(hookLog[m]) \in Int /\ Rank(hookLog[n]) \in Int
      /\ hookLog[m].iter \in Nat /\ hookLog[m].idx \in Nat
      /\ hookLog[n].iter \in Nat /\ hookLog[n].idx \in Nat
  BY LogFacts
<1>2. /\ m < n => Precedes(hookLog[m], hookLog[n])
      /\ n < m => Precedes(hookLog[n], hookLog[m])
  BY DEF HooksInv, HookOrder
<1>3. /\ m < n => Rank(hookLog[m]) < Rank(hookLog[n])
      /\ n < m => Rank(hookLog[n]) < Rank(hookLog[m])
  BY <1>1, <1>2 DEF Precedes, SameRequest
<1>4. m = n => Rank(hookLog[m]) = Rank(hookLog[n])
  OBVIOUS
<1>. QED
  BY <1>1, <1>3, <1>4

LEMMA OneFirst ==
  ASSUME suite \in Suites, NEW s, NEW j \in 1..Len(suite), NEW k \in 1..Len(suite)
  PROVE  /\ IsFirst(s, j) /\ Under(s, k) => j <= k
         /\ IsLast(s, j) /\ Under(s, k) => k <= j
<1>1. Len(suite) \in Nat
  BY SuiteAssumption
<1>2. k < j => k \in 1..(j - 1)
  BY <1>1
<1>3. j < k => k \in (j + 1)..Len(suite)
  BY <1>1
<1>. QED
  BY <1>1, <1>2, <1>3 DEF IsFirst, IsLast

(* A beforeAll comes first, an afterAll last, among the calls of its scope. *)
LEMMA AllFirstLast ==
  ASSUME Typed, Placed, HooksInv, NEW m \in DOMAIN hookLog, NEW n \in DOMAIN hookLog,
         hookLog[m].scope = hookLog[n].scope
  PROVE  /\ hookLog[m].hook = "beforeAll" => ~(n < m)
         /\ hookLog[m].hook = "afterAll" => ~(m < n)
<1> DEFINE c == hookLog[m]
           d == hookLog[n]
<1>1. /\ m \in Nat /\ n \in Nat /\ CallFits(c) /\ CallFits(d)
      /\ c.iter \in 1..rows /\ c.idx \in 1..Len(suite)
      /\ d.iter \in 1..rows /\ d.idx \in 1..Len(suite)
      /\ c.iter \in Nat /\ c.idx \in Nat /\ d.iter \in Nat /\ d.idx \in Nat
      /\ d.hook \in {"beforeAll", "beforeEach", "afterEach", "afterAll"}
  BY LogFacts
<1>2. n < m => Precedes(d, c)
  BY DEF HooksInv, HookOrder
<1>3. m < n => Precedes(c, d)
  BY DEF HooksInv, HookOrder
<1>4. PICK t \in 1..Depth(d.idx) :
        Depth(d.idx) \in Nat /\ t \in Nat /\ Place(d.idx, d.scope) = t
  BY LogFacts
<1>5. suite \in Suites /\ Under(d.scope, d.idx)
  BY <1>1 DEF Typed, CallFits
<1>6. c.scope = d.scope
  OBVIOUS
<1> HIDE DEF c, d
<1>7. ASSUME c.hook = "beforeAll", n < m PROVE FALSE
  <2>1. c.iter = 1 /\ c.idx <= d.idx
    BY <1>1, <1>5, <1>6, <1>7, OneFirst DEF CallFits
  <2>2. SameRequest(d, c) /\ Rank(d) < Rank(c)
    BY <1>1, <1>2, <1>7, <2>1 DEF Precedes, SameRequest
  <2>3. c.idx = d.idx
    BY <2>2 DEF SameRequest
  <2>4. Rank(c) = 2 * t - 1
    BY <1>4, <1>6, <1>7, <2>3 DEF Rank
  <2>5. /\ d.hook = "beforeAll" => Rank(d) = 2 * t - 1
        /\ d.hook = "beforeEach" => Rank(d) = 2 * t
        /\ d.hook = "afterEach" => Rank(d) = 4 * Depth(d.idx) - 2 * t + 1
        /\ d.hook = "afterAll" => Rank(d) = 4 * Depth(d.idx) - 2 * t + 2
    BY <1>1, <1>4 DEF Rank
  <2>. QED
    BY <1>1, <1>4, <2>2, <2>4, <2>5
<1>8. ASSUME c.hook = "afterAll", m < n PROVE FALSE
  <2>1. c.iter = rows /\ d.idx <= c.idx
    BY <1>1, <1>5, <1>6, <1>8, OneFirst DEF CallFits
  <2>2. SameRequest(c, d) /\ Rank(c) < Rank(d)
    BY <1>1, <1>3, <1>8, <2>1 DEF Precedes, SameRequest
  <2>3. c.idx = d.idx
    BY <2>2 DEF SameRequest
  <2>4. Rank(c) = 4 * Depth(d.idx) - 2 * t + 2
    BY <1>4, <1>6, <1>8, <2>3 DEF Rank
  <2>5. /\ d.hook = "beforeAll" => Rank(d) = 2 * t - 1
        /\ d.hook = "beforeEach" => Rank(d) = 2 * t
        /\ d.hook = "afterEach" => Rank(d) = 4 * Depth(d.idx) - 2 * t + 1
        /\ d.hook = "afterAll" => Rank(d) = 4 * Depth(d.idx) - 2 * t + 2
    BY <1>1, <1>4 DEF Rank
  <2>. QED
    BY <1>1, <1>4, <2>2, <2>4, <2>5
<1>. QED
  BY <1>7, <1>8 DEF c

LEMMA HooksEnclose ==
  ASSUME Typed, Placed, HooksInv
  PROVE  AllHooksOnce /\ AllHooksEnclose
<1>1. AllHooksOnce
  <2> SUFFICES ASSUME NEW i \in DOMAIN hookLog, NEW j \in DOMAIN hookLog,
                      hookLog[i].hook \in {"beforeAll", "afterAll"},
                      hookLog[i].hook = hookLog[j].hook, hookLog[i].scope = hookLog[j].scope
               PROVE  i = j
    BY DEF AllHooksOnce
  <2>1. i \in Nat /\ j \in Nat
    BY LogFacts
  <2>2. ~(i < j) /\ ~(j < i)
    BY AllFirstLast
  <2>. QED
    BY <2>1, <2>2
<1>2. AllHooksEnclose
  <2> SUFFICES ASSUME NEW i \in DOMAIN hookLog, NEW j \in DOMAIN hookLog,
                      hookLog[i].scope = hookLog[j].scope
               PROVE  /\ hookLog[i].hook = "beforeAll" => i <= j
                      /\ hookLog[i].hook = "afterAll" =>
                           j <= i /\ (pc = "exec" => ~Under(hookLog[i].scope, idx))
    BY DEF AllHooksEnclose
  <2>1. i \in Nat /\ j \in Nat
    BY LogFacts
  <2>2. /\ hookLog[i].hook = "beforeAll" => ~(j < i)
        /\ hookLog[i].hook = "afterAll" => ~(i < j)
    BY AllFirstLast
  <2>3. ASSUME hookLog[i].hook = "afterAll", pc = "exec", Under(hookLog[i].scope, idx)
        PROVE  FALSE
    <3>1. /\ PastAt(hookLog[i], pc, iter, idx) /\ CallFits(hookLog[i])
          /\ hookLog[i].iter \in 1..rows /\ hookLog[i].idx \in 1..Len(suite)
          /\ hookLog[i].iter \in Nat /\ hookLog[i].idx \in Nat
      BY LogFacts DEF HooksInv
    <3>2. /\ suite \in Suites /\ idx \in 1..Len(suite) /\ iter <= rows
          /\ iter \in Nat /\ rows \in Nat /\ idx \in Nat
      BY <2>3, SuiteAssumption DEF Typed, Placed
    <3>3. idx <= hookLog[i].idx /\ hookLog[i].iter = rows
      BY <2>3, <3>1, <3>2, OneFirst DEF CallFits
    <3>. QED
      BY <2>3, <3>1, <3>2, <3>3 DEF PastAt
  <2>. QED
    BY <2>1, <2>2, <2>3
<1>. QED
  BY <1>1, <1>2

LEMMA HooksNest ==
  ASSUME Typed, Placed, HooksInv
  PROVE  EachHooksNest
<1> SUFFICES ASSUME NEW i \in 1..iter, NEW k \in 1..Len(suite),
                    HooksOf("afterEach", i, k) # {}
             PROVE  LET up == HooksOf("beforeEach", i, k)
                        down == HooksOf("afterEach", i, k)
                    IN /\ {hookLog[n].scope : n \in up} = {hookLog[n].scope : n \in down}
                       /\ \A m, n \in up, p, q \in down :
                            hookLog[m].scope = hookLog[p].scope
                            /\ hookLog[n].scope = hookLog[q].scope
                              => (m < n <=> q < p)
  BY DEF EachHooksNest
<1> DEFINE up == HooksOf("beforeEach", i, k)
           down == HooksOf("afterEach", i, k)
<1>1. EachRan(hookLog, "beforeEach", i, k) /\ EachRan(hookLog, "afterEach", i, k)
  <2>1. PICK n \in DOMAIN hookLog :
          hookLog[n].hook = "afterEach" /\ hookLog[n].iter = i /\ hookLog[n].idx = k
    BY DEF HooksOf
  <2>. QED
    BY <2>1 DEF HooksInv, Paired
<1>2. ASSUME NEW hook \in {"beforeEach", "afterEach"}
      PROVE  {hookLog[n].scope : n \in HooksOf(hook, i, k)}
               = {suite[k].chain[t] : t \in 1..Depth(k)}
  <2>0. suite \in Suites /\ DOMAIN suite[k].chain = 1..Depth(k)
    BY ChainFacts DEF Typed
  <2>1. ASSUME NEW n \in HooksOf(hook, i, k)
        PROVE  \E t \in 1..Depth(k) : hookLog[n].scope = suite[k].chain[t]
    <3>1. n \in DOMAIN hookLog /\ hookLog[n].idx = k
      BY DEF HooksOf
    <3>. QED
      BY <3>1, LogFacts
  <2>2. ASSUME NEW t \in 1..Depth(k)
        PROVE  \E n \in HooksOf(hook, i, k) : hookLog[n].scope = suite[k].chain[t]
    <3>1. PICK n \in DOMAIN hookLog :
            hookLog[n] = [hook |-> hook, scope |-> suite[k].chain[t], iter |-> i, idx |-> k]
      BY <1>1, <2>0 DEF EachRan
    <3>2. n \in HooksOf(hook, i, k)
      BY <3>1 DEF HooksOf
    <3>. QED
      BY <3>1, <3>2
  <2>. QED
    <3> DEFINE A == {hookLog[n].scope : n \in HooksOf(hook, i, k)}
               B == {suite[k].chain[t] : t \in 1..Depth(k)}
    <3>1. \A x \in A : x \in B
      BY <2>1
    <3>2. \A x \in B : x \in A
      BY <2>2
    <3>3. A = B
      <4> HIDE DEF A, B
      <4>. QED
        BY <3>1, <3>2
    <3>. QED
      BY <3>3
<1>3. ASSUME NEW m \in up, NEW n \in up, NEW p \in down, NEW q \in down,
             hookLog[m].scope = hookLog[p].scope, hookLog[n].scope = hookLog[q].scope
      PROVE  m < n <=> q < p
  <2>1. /\ m \in DOMAIN hookLog /\ n \in DOMAIN hookLog /\ p \in DOMAIN hookLog /\ q \in DOMAIN hookLog
        /\ hookLog[m].hook = "beforeEach" /\ hookLog[n].hook = "beforeEach"
        /\ hookLog[p].hook = "afterEach" /\ hookLog[q].hook = "afterEach"
        /\ hookLog[m].idx = k /\ hookLog[n].idx = k /\ hookLog[p].idx = k /\ hookLog[q].idx = k
        /\ SameRequest(hookLog[m], hookLog[n]) /\ SameRequest(hookLog[q], hookLog[p])
    BY DEF HooksOf, SameRequest
  <2>2. PICK t \in Nat : Place(k, hookLog[m].scope) = t /\ Depth(k) \in Nat
    BY <2>1, LogFacts
  <2>3. PICK u \in Nat : Place(k, hookLog[n].scope) = u
    BY <2>1, LogFacts
  <2>4. /\ Rank(hookLog[m]) = 2 * t /\ Rank(hookLog[n]) = 2 * u
        /\ Rank(hookLog[p]) = 4 * Depth(k) - 2 * t + 1
        /\ Rank(hookLog[q]) = 4 * Depth(k) - 2 * u + 1
    <3>1. Rank(hookLog[m]) = 2 * t
      BY <2>1, <2>2 DEF Rank
    <3>2. Rank(hookLog[n]) = 2 * u
      BY <2>1, <2>3 DEF Rank
    <3>3. Rank(hookLog[p]) = 4 * Depth(k) - 2 * t + 1
      BY <1>3, <2>1, <2>2 DEF Rank
    <3>4. Rank(hookLog[q]) = 4 * Depth(k) - 2 * u + 1
      BY <1>3, <2>1, <2>3 DEF Rank
    <3>. QED
      BY <3>1, <3>2, <3>3, <3>4
  <2>5. (m < n <=> 2 * t < 2 * u)
    BY <2>1, <2>4, LogOrder
  <2>6. (q < p <=> 4 * Depth(k) - 2 * u + 1 < 4 * Depth(k) - 2 * t + 1)
    BY <2>1, <2>4, LogOrder
  <2>. QED
    BY <2>2, <2>5, <2>6
<1>. QED
  BY <1>2, <1>3

(* The hooks of collections and folders bracket the requests under them, for
   every plan, any nesting of folders and any number of rows: a beforeAll and an
   afterAll run once, first and last of their scope (run.rs, hook_scope_bounds),
   and a request's afterEach hooks undo its beforeEach hooks in reverse
   (after_hooks iterates the chain reversed), all of them or none. *)
THEOREM HooksHold == Spec => []HooksBracket
<1>1. Init => HooksInv
  BY HooksInit
<1>2. SuiteInv /\ HooksInv /\ [Next]_vars => HooksInv'
  BY HooksNext
<1>3. SuiteInv /\ HooksInv => HooksBracket
  BY HooksEnclose, HooksNest DEF SuiteInv, HooksBracket
<1>. QED
  BY <1>1, <1>2, <1>3, InvariantHolds, PTL DEF Spec
=============================================================================
