--------------------------- MODULE RunView_proofs ---------------------------
(***************************************************************************)
(* Proofs about RunView for any workspace and any number of runs: type     *)
(* correctness, that the progress and the log shown are those of the run   *)
(* they name however the runs' events interleave, and that a Stop reaches  *)
(* its run.                                                                *)
(***************************************************************************)
EXTENDS RunView, FiniteSetTheorems, TLAPS

(* How far a run is, as told by its events up to some point of the stream. *)
Progress == [at : {"idle", "between", "inside", "ended"}, req : SUBSET Reqs,
             started : Nat, finished : Nat, total : Nat]

Sound(p) ==
  /\ p.finished <= p.started /\ p.started <= Cardinality(Reqs \ Off)
  /\ p.started <= p.total /\ p.total <= Len(Plan)
  /\ p.at = "inside" => Cardinality(p.req) = 1 /\ p.started = p.finished + 1
  /\ p.at # "inside" => p.req = {} /\ p.started = p.finished
  /\ p.at = "idle" => p.started = 0

At(at, req, started, finished, total) ==
  [at |-> at, req |-> req, started |-> started, finished |-> finished, total |-> total]

(* Event e takes a run from p to n. *)
Advances(p, e, n) ==
  \/ /\ e.type = "runStarted" /\ p.at = "idle"
     /\ n = At("between", {}, p.started, p.finished, e.total)
  \/ /\ e.type = "runFailed" /\ p.at = "idle"
     /\ n = At("ended", {}, p.started, p.finished, p.total)
  \/ /\ e.type = "requestStarted" /\ p.at = "between"
     /\ n = At("inside", e.req, p.started + 1, p.finished, p.total)
  \/ /\ e.type = "requestFinished" /\ p.at = "inside" /\ e.req = p.req
     /\ n = At("between", {}, p.started, p.finished + 1, p.total)
  \/ /\ e.type = "runFinished" /\ p.at = "between"
     /\ n = At("ended", {}, p.started, p.finished, p.total)

Moves(P, e, N) ==
  /\ Advances(P[e.run], e, N[e.run])
  /\ \A r \in Runs : r # e.run => N[r] = P[r]

(* What is shown, and was handled, of run r amounts to p. *)
Shown(r, p) ==
  /\ drained[r]["requestStarted"] = p.started
  /\ drained[r]["requestFinished"] = p.finished
  /\ Ended(r) <=> p.at = "ended"
  /\ p.at = "idle" => drained[r]["runStarted"] = 0
  /\ p.at \in {"between", "inside"} => drained[r]["runStarted"] # 0
  /\ runState.run = r => /\ p.at # "ended" /\ runState.completed = p.finished
                         /\ p.at # "idle" => runState.total = p.total
  /\ runLog.run = r => /\ p.at # "ended" /\ runLog.completed = p.finished
                       /\ runLog.running = p.req

(* The requests of q that are not skipped in runs. *)
Left(q) == {i \in DOMAIN q : q[i] \notin Off}

(* Task t has got to p, and has no more to do than was announced. *)
Reached(t, p) ==
  /\ t.at \in {"none", "spawned"} => p.at = "idle" /\ t.current = {}
  /\ t.at = "running" /\ t.current = {} => p.at = "between"
  /\ t.current # {} => t.at = "running" /\ p.at = "inside" /\ p.req = t.current
  /\ t.at \in {"ended", "over"} => p.at = "ended"
  /\ t.at = "running" => /\ p.started + Cardinality(Left(t.todo)) <= Cardinality(Reqs \ Off)
                         /\ p.started + Len(t.todo) <= p.total

Plans == {Plan} \cup {<<q>> : q \in Reqs}

(* The events under way lead every run from what is shown of it to where its
   task is: ph is the progress before each of them. *)
Traces(ph) ==
  /\ \A i \in 1..(Len(evts) + 1), r \in Runs : Sound(ph[i][r])
  /\ \A r \in Runs : Shown(r, ph[1][r]) /\ Reached(task[r], ph[Len(evts) + 1][r])
  /\ \A i \in 1..Len(evts) : Moves(ph[i], evts[i], ph[i + 1])

Traced == \E ph \in [1..(Len(evts) + 1) -> [Runs -> Progress]] : Traces(ph)

Sent(r) == \E i \in DOMAIN cmds : cmds[i].cmd = "run" /\ cmds[i].run = r

(* A run's commands: sent once, before any cancel; its token is there from
   the moment it is spawned until it is over. *)
Queued ==
  /\ \A i \in DOMAIN cmds :
       /\ cmds[i].run < nextRun
       /\ cmds[i].cmd = "run" =>
            /\ cmds[i].reqs \in Plans /\ task[cmds[i].run].at = "none"
            /\ \A j \in DOMAIN cmds :
                 cmds[j].cmd = "run" /\ cmds[j].run = cmds[i].run => i = j
       /\ cmds[i].cmd = "cancel" =>
            \/ task[cmds[i].run].at # "none"
            \/ \E j \in 1..(i - 1) : cmds[j].cmd = "run" /\ cmds[j].run = cmds[i].run
  /\ \A r \in Runs :
       /\ r < nextRun => task[r].at # "none" \/ Sent(r)
       /\ cancels[r] = "absent" <=> task[r].at \in {"none", "over"}
       /\ task[r].at = "spawned" => task[r].todo \in Plans

(* A run that was not started yet is nowhere. *)
Fresh ==
  \A r \in Runs : r >= nextRun =>
    /\ task[r].at = "none" /\ drained[r] = [t \in EventType |-> 0]
    /\ r \notin stopped /\ runState.run # r /\ runLog.run # r
    /\ \A q \in Reqs : tabs[q] # r
    /\ \A i \in DOMAIN evts : evts[i].run # r

LogEmpty == runLog.run = NoRun => runLog.running = {}

ViewInv == TypeOK /\ Traced /\ Queued /\ Fresh /\ LogEmpty /\ StopReaches

-----------------------------------------------------------------------------

(* How many requests a plan has left. *)
LEMMA ReqsFinite ==
  /\ IsFiniteSet(Reqs \ Off) /\ Cardinality(Reqs \ Off) \in Nat /\ Len(Plan) \in Nat
<1>1. Plan \in [1..Len(Plan) -> Reqs] /\ Len(Plan) \in Nat
  BY ViewAssumption
<1>2. Plan \in Surjection(1..Len(Plan), Reqs)
  BY <1>1, ViewAssumption DEF Surjection
<1>3. IsFiniteSet(1..Len(Plan))
  BY <1>1, FS_Interval
<1>4. IsFiniteSet(Reqs)
  BY <1>2, <1>3, FS_Surjection
<1>5. IsFiniteSet(Reqs \ Off)
  BY <1>4, FS_Difference
<1>. QED
  BY <1>1, <1>5, FS_CardinalityType

LEMMA LeftFinite ==
  ASSUME NEW q \in Seq(Reqs)
  PROVE  /\ IsFiniteSet(Left(q)) /\ Cardinality(Left(q)) \in Nat /\ Len(q) \in Nat
<1>1. IsFiniteSet(1..Len(q)) /\ Left(q) \subseteq 1..Len(q) /\ Len(q) \in Nat
  BY FS_Interval DEF Left
<1>. QED
  BY <1>1, FS_Subset, FS_CardinalityType

LEMMA LeftFits ==
  ASSUME NEW q \in Plans
  PROVE  /\ q \in Seq(Reqs) /\ Len(q) <= Len(Plan)
         /\ Cardinality(Left(q)) <= Cardinality(Reqs \ Off)
<1>1. CASE q = Plan
  <2> DEFINE f == [i \in Left(Plan) |-> Plan[i]]
  <2>1. Plan \in Seq(Reqs) /\ DOMAIN Plan = 1..Len(Plan)
    BY ViewAssumption
  <2>2. f \in [Left(Plan) -> Reqs \ Off]
    BY <2>1 DEF Left
  <2>3. \A i, j \in Left(Plan) : f[i] = f[j] => i = j
    BY ViewAssumption DEF Left
  <2> HIDE DEF f
  <2>4. f \in Injection(Left(Plan), Reqs \ Off)
    BY <2>2, <2>3 DEF Injection, IsInjective
  <2>5. Cardinality(Left(Plan)) <= Cardinality(Reqs \ Off)
    BY <2>4, ReqsFinite, FS_Injection
  <2>. QED
    BY <1>1, <2>1, <2>5
<1>2. ASSUME NEW a \in Reqs, q = <<a>> PROVE
        /\ q \in Seq(Reqs) /\ Len(q) <= Len(Plan)
        /\ Cardinality(Left(q)) <= Cardinality(Reqs \ Off)
  <2>1. q \in Seq(Reqs) /\ Len(q) = 1 /\ DOMAIN q = {1} /\ q[1] = a
    BY <1>2
  <2>2. Len(Plan) >= 1
    <3>1. PICK i \in DOMAIN Plan : Plan[i] = a
      BY ViewAssumption
    <3>. QED
      BY <3>1, ViewAssumption
  <2>3. CASE a \in Off
    <3>1. Left(q) = {}
      BY <2>1, <2>3 DEF Left
    <3>. QED
      BY <3>1, <2>1, <2>2, FS_EmptySet, ReqsFinite
  <2>4. CASE a \notin Off
    <3>1. Left(q) = {1}
      BY <2>1, <2>4 DEF Left
    <3>2. Cardinality({1}) = 1 /\ Cardinality({a}) = 1
      BY FS_Singleton
    <3>3. {a} \in SUBSET (Reqs \ Off)
      BY <2>4
    <3>4. Cardinality({a}) <= Cardinality(Reqs \ Off)
      BY <3>3, ReqsFinite, FS_Subset
    <3>. QED
      BY <3>1, <3>2, <3>4, <2>1, <2>2
  <2>. QED
    BY <2>3, <2>4
<1>. QED
  BY <1>1, <1>2 DEF Plans

(* Taking the first request of a plan. *)
LEMMA LeftTail ==
  ASSUME NEW q \in Seq(Reqs), q # <<>>
  PROVE  /\ Head(q) \in Reqs /\ Tail(q) \in Seq(Reqs) /\ Len(Tail(q)) = Len(q) - 1
         /\ Len(q) >= 1
         /\ Head(q) \in Off => Cardinality(Left(q)) = Cardinality(Left(Tail(q)))
         /\ Head(q) \notin Off => Cardinality(Left(q)) = Cardinality(Left(Tail(q))) + 1
         /\ Cardinality(Left(Tail(q))) <= Cardinality(Left(q))
<1> DEFINE p == Tail(q)
           S == Left(q) \ {1}
           f == [i \in Left(p) |-> i + 1]
<1>1. /\ Head(q) \in Reqs /\ p \in Seq(Reqs) /\ Len(p) = Len(q) - 1 /\ Len(q) >= 1
      /\ Len(q) \in Nat /\ Head(q) = q[1]
      /\ DOMAIN q = 1..Len(q) /\ DOMAIN p = 1..(Len(q) - 1)
      /\ \A i \in 1..(Len(q) - 1) : p[i] = q[i + 1]
  OBVIOUS
<1> HIDE DEF p
<1>2. \A i : i \in Left(p) <=> i \in 1..(Len(q) - 1) /\ q[i + 1] \notin Off
  BY <1>1 DEF Left
<1>3. \A i : i \in S <=> i \in 2..Len(q) /\ q[i] \notin Off
  BY <1>1 DEF Left
<1> HIDE DEF S
<1>4. f \in [Left(p) -> S]
  BY <1>1, <1>2, <1>3
<1>5. \A i, j \in Left(p) : f[i] = f[j] => i = j
  BY <1>1, <1>2
<1>6. \A j \in S : \E i \in Left(p) : f[i] = j
  <2> SUFFICES ASSUME NEW j \in S PROVE \E i \in Left(p) : f[i] = j
    OBVIOUS
  <2>1. j \in 2..Len(q) /\ q[j] \notin Off
    BY <1>3
  <2>2. j - 1 \in 1..(Len(q) - 1) /\ j - 1 + 1 = j
    BY <1>1, <2>1
  <2>3. j - 1 \in Left(p)
    BY <1>2, <2>1, <2>2
  <2>. QED
    BY <2>2, <2>3
<1> HIDE DEF f
<1>7. f \in Bijection(Left(p), S)
  BY <1>4, <1>5, <1>6 DEF Bijection, Injection, Surjection, IsInjective
<1>8. IsFiniteSet(Left(p)) /\ Cardinality(Left(p)) \in Nat
  BY <1>1, LeftFinite
<1>9. Cardinality(S) = Cardinality(Left(p))
  BY <1>7, <1>8, FS_Bijection DEF ExistsBijection
<1>10. Cardinality(S) = IF 1 \in Left(q) THEN Cardinality(Left(q)) - 1
                        ELSE Cardinality(Left(q))
  BY LeftFinite, FS_RemoveElement DEF S
<1>11. 1 \in Left(q) <=> Head(q) \notin Off
  BY <1>1 DEF Left
<1>12. Cardinality(Left(q)) \in Nat
  BY LeftFinite
<1>. QED
  BY <1>1, <1>8, <1>9, <1>10, <1>11, <1>12 DEF p

-----------------------------------------------------------------------------
LEMMA NoRunIsNone == NoRun \notin Runs /\ Runs \subseteq Nat \ {0}
  BY ViewAssumption DEF Runs

(* The progress an event leads to. *)
LEMMA Advanced ==
  ASSUME NEW p \in Progress, Sound(p), NEW e \in Event, NEW n, Advances(p, e, n),
         e.type = "runStarted" => e.total <= Len(Plan),
         e.type = "requestStarted" => /\ Cardinality(e.req) = 1
                                      /\ p.started + 1 <= Cardinality(Reqs \ Off)
                                      /\ p.started + 1 <= p.total
  PROVE  n \in Progress /\ Sound(n)
<1>0. /\ p.req \in SUBSET Reqs /\ p.started \in Nat /\ p.finished \in Nat /\ p.total \in Nat
      /\ p.at \in {"idle", "between", "inside", "ended"}
      /\ e.req \in SUBSET Reqs /\ e.total \in Nat
      /\ Cardinality(Reqs \ Off) \in Nat /\ Len(Plan) \in Nat
  BY ReqsFinite DEF Progress, Event
<1>1. CASE e.type = "runStarted" /\ p.at = "idle"
           /\ n = At("between", {}, p.started, p.finished, e.total)
  <2>1. p.started = 0
    BY <1>1 DEF Sound
  <2>. QED
    BY <1>0, <1>1, <2>1 DEF Sound, At, Progress
<1>2. CASE n = At("ended", {}, p.started, p.finished, p.total) /\ p.at \in {"idle", "between"}
  BY <1>0, <1>2 DEF Sound, At, Progress
<1>3. CASE e.type = "requestStarted" /\ p.at = "between"
           /\ n = At("inside", e.req, p.started + 1, p.finished, p.total)
  BY <1>0, <1>3 DEF Sound, At, Progress
<1>4. CASE e.type = "requestFinished" /\ p.at = "inside"
           /\ n = At("between", {}, p.started, p.finished + 1, p.total)
  BY <1>0, <1>4 DEF Sound, At, Progress
<1>. QED
  BY <1>1, <1>2, <1>3, <1>4 DEF Advances

(* The stream is as long as before: what is shown and where the tasks are may
   change as long as the progress between them still fits. *)
LEMMA TraceStays ==
  ASSUME Traced, evts' = evts,
         \A r \in Runs, p \in Progress : Sound(p) /\ Shown(r, p) => Shown(r, p)',
         \A r \in Runs, p \in Progress : Sound(p) /\ Reached(task[r], p) => Reached(task'[r], p)
  PROVE  Traced'
<1>1. PICK ph \in [1..(Len(evts) + 1) -> [Runs -> Progress]] : Traces(ph)
  BY DEF Traced
<1>2. \A i \in 1..(Len(evts) + 1), r \in Runs : Sound(ph[i][r]) /\ ph[i][r] \in Progress
  BY <1>1 DEF Traces
<1>3. Len(evts) \in Nat => 1 \in 1..(Len(evts) + 1) /\ Len(evts) + 1 \in 1..(Len(evts) + 1)
  OBVIOUS
<1>. QED
  BY <1>1, <1>2, <1>3 DEF Traced, Traces

(* A task sends an event: the progress it reaches is appended. *)
LEMMA TraceGrows ==
  ASSUME Traced, evts \in Seq(Event), NEW r \in Runs, NEW e \in Event, e.run = r,
         evts' = Append(evts, e), UNCHANGED <<runState, runLog, drained>>,
         \A q \in Runs : q # r => task'[q] = task[q],
         \A p \in Progress : Sound(p) /\ Reached(task[r], p) =>
           \E n \in Progress : Sound(n) /\ Advances(p, e, n) /\ Reached(task'[r], n)
  PROVE  Traced'
<1>1. PICK ph \in [1..(Len(evts) + 1) -> [Runs -> Progress]] : Traces(ph)
  BY DEF Traced
<1>0. PICK m \in Nat : m = Len(evts)
  OBVIOUS
<1>2. /\ Len(evts') = m + 1 /\ evts'[m + 1] = e
      /\ \A i \in 1..m : evts'[i] = evts[i]
      /\ m + 1 \in 1..(m + 1) /\ 1 \in 1..(m + 1)
  BY <1>0
<1>3. /\ ph[m + 1] \in [Runs -> Progress]
      /\ \A q \in Runs : /\ ph[m + 1][q] \in Progress /\ Sound(ph[m + 1][q])
                         /\ Shown(q, ph[1][q]) /\ Reached(task[q], ph[m + 1][q])
  BY <1>0, <1>1, <1>2 DEF Traces
<1>4. PICK n \in Progress : /\ Sound(n) /\ Advances(ph[m + 1][r], e, n)
                            /\ Reached(task'[r], n)
  BY <1>3
<1>5. PICK N \in [Runs -> Progress] : N[r] = n /\ \A q \in Runs : q # r => N[q] = ph[m + 1][q]
  <2>1. /\ [ph[m + 1] EXCEPT ![r] = n] \in [Runs -> Progress]
        /\ [ph[m + 1] EXCEPT ![r] = n][r] = n
        /\ \A q \in Runs : q # r => [ph[m + 1] EXCEPT ![r] = n][q] = ph[m + 1][q]
    BY <1>3
  <2>. QED
    BY <2>1
<1>6. PICK fh \in [1..(m + 2) -> [Runs -> Progress]] :
        fh[m + 2] = N /\ \A i \in 1..(m + 1) : fh[i] = ph[i]
  <2> DEFINE gh == [i \in 1..(m + 2) |-> IF i = m + 2 THEN N ELSE ph[i]]
  <2>1. /\ gh \in [1..(m + 2) -> [Runs -> Progress]] /\ gh[m + 2] = N
        /\ \A i \in 1..(m + 1) : gh[i] = ph[i]
    BY <1>0, <1>1
  <2> HIDE DEF gh
  <2>. QED
    BY <2>1
<1>7. \A i \in 1..(m + 2), q \in Runs : Sound(fh[i][q])
  <2> SUFFICES ASSUME NEW i \in 1..(m + 2), NEW q \in Runs PROVE Sound(fh[i][q])
    OBVIOUS
  <2>1. CASE i = m + 2
    <3>1. Sound(N[q])
      BY <1>3, <1>4, <1>5
    <3>. QED
      BY <2>1, <3>1, <1>6
  <2>2. CASE i \in 1..(m + 1)
    BY <2>2, <1>0, <1>1, <1>6 DEF Traces
  <2>. QED
    BY <2>1, <2>2
<1>8. \A q \in Runs : Shown(q, fh[1][q])' /\ Reached(task'[q], fh[m + 2][q])
  <2> SUFFICES ASSUME NEW q \in Runs
               PROVE  Shown(q, fh[1][q])' /\ Reached(task'[q], fh[m + 2][q])
    OBVIOUS
  <2>1. Shown(q, fh[1][q])
    BY <1>2, <1>3, <1>6
  <2>2. Shown(q, fh[1][q])'
    BY <2>1 DEF Shown, Ended
  <2>3. Reached(task'[q], fh[m + 2][q])
    BY <1>3, <1>4, <1>5, <1>6
  <2>. QED
    BY <2>2, <2>3
<1>9. \A i \in 1..(m + 1) : Moves(fh[i], evts'[i], fh[i + 1])
  <2> SUFFICES ASSUME NEW i \in 1..(m + 1) PROVE Moves(fh[i], evts'[i], fh[i + 1])
    OBVIOUS
  <2>1. CASE i = m + 1
    <3>1. fh[i] = ph[m + 1] /\ fh[i + 1] = N /\ evts'[i] = e
      BY <2>1, <1>2, <1>6
    <3>2. Moves(ph[m + 1], e, N)
      BY <1>4, <1>5 DEF Moves
    <3>. QED
      BY <3>1, <3>2
  <2>2. CASE i \in 1..m
    <3>1. i \in 1..(m + 1) /\ i + 1 \in 1..(m + 1)
      BY <2>2
    <3>2. fh[i] = ph[i] /\ fh[i + 1] = ph[i + 1] /\ evts'[i] = evts[i]
      BY <2>2, <3>1, <1>2, <1>6
    <3>3. Moves(ph[i], evts[i], ph[i + 1])
      BY <2>2, <1>0, <1>1 DEF Traces
    <3>. QED
      BY <3>2, <3>3
  <2>3. i = m + 1 \/ i \in 1..m
    OBVIOUS
  <2>. QED
    BY <2>1, <2>2, <2>3
<1>10. Len(evts') + 1 = m + 2 /\ Len(evts') = m + 1
  BY <1>2
<1>11. Traces(fh)'
  <2>1. \A i \in 1..(Len(evts') + 1), q \in Runs : Sound(fh[i][q])
    BY <1>7, <1>10
  <2>2. \A q \in Runs : Shown(q, fh[1][q])' /\ Reached(task'[q], fh[Len(evts') + 1][q])
    BY <1>8, <1>10
  <2>3. \A i \in 1..Len(evts') : Moves(fh[i], evts'[i], fh[i + 1])
    BY <1>9, <1>10
  <2>. QED
    BY <2>1, <2>2, <2>3 DEF Traces
<1>12. fh \in [1..(Len(evts') + 1) -> [Runs -> Progress]]
  BY <1>10
<1>. QED
  BY <1>11, <1>12 DEF Traced

(* The window handles the first event. *)
LEMMA HeadAdvances ==
  ASSUME Traced, evts \in Seq(Event), evts # <<>>
  PROVE  /\ Head(evts) \in Event /\ Head(evts) = evts[1] /\ Head(evts).run \in Runs
         /\ Tail(evts) \in Seq(Event)
         /\ \E p, n \in Progress : /\ Sound(p) /\ Sound(n) /\ Shown(Head(evts).run, p)
                                   /\ Advances(p, Head(evts), n)
<1>1. PICK ph \in [1..(Len(evts) + 1) -> [Runs -> Progress]] : Traces(ph)
  BY DEF Traced
<1>2. /\ Len(evts) \in Nat /\ Len(evts) >= 1 /\ Head(evts) = evts[1] /\ Head(evts) \in Event
      /\ Tail(evts) \in Seq(Event)
  OBVIOUS
<1>3. Head(evts).run \in Runs
  BY <1>2 DEF Event
<1>4. 1 \in 1..(Len(evts) + 1) /\ 2 \in 1..(Len(evts) + 1) /\ 1 \in 1..Len(evts) /\ 1 + 1 = 2
  BY <1>2
<1>5. LET r == Head(evts).run IN
        /\ ph[1][r] \in Progress /\ ph[2][r] \in Progress
        /\ Sound(ph[1][r]) /\ Sound(ph[2][r]) /\ Shown(r, ph[1][r])
        /\ Advances(ph[1][r], Head(evts), ph[2][r])
  BY <1>1, <1>2, <1>3, <1>4 DEF Traces, Moves
<1>. QED
  BY <1>2, <1>3, <1>5

LEMMA TraceShrinks ==
  ASSUME Traced, evts \in Seq(Event), evts # <<>>, evts' = Tail(evts), task' = task,
         \A p, n \in Progress :
           Sound(p) /\ Sound(n) /\ Shown(Head(evts).run, p) /\ Advances(p, Head(evts), n)
             => \A r \in Runs : r = Head(evts).run => Shown(r, n)',
         \A r \in Runs, p \in Progress : r # Head(evts).run /\ Shown(r, p) => Shown(r, p)'
  PROVE  Traced'
<1>1. PICK ph \in [1..(Len(evts) + 1) -> [Runs -> Progress]] : Traces(ph)
  BY DEF Traced
<1>0. PICK m \in Nat, e \in Event : m = Len(evts) /\ e = Head(evts)
  OBVIOUS
<1>2. /\ m >= 1 /\ Len(evts') = m - 1 /\ e = evts[1]
      /\ \A i \in 1..(m - 1) : evts'[i] = evts[i + 1]
  BY <1>0
<1>3. e.run \in Runs
  BY <1>2 DEF Event
<1>4. /\ 1 \in 1..(m + 1) /\ 2 \in 1..(m + 1) /\ 1 \in 1..m /\ m \in 1..m /\ 1 + 1 = 2
      /\ \A i \in 1..m : i + 1 \in 1..(m + 1)
      /\ \A i \in 1..(m - 1) : i \in 1..m /\ i + 1 \in 1..m
  BY <1>2
<1>5. PICK fh \in [1..m -> [Runs -> Progress]] : \A i \in 1..m : fh[i] = ph[i + 1]
  <2>1. [i \in 1..m |-> ph[i + 1]] \in [1..m -> [Runs -> Progress]]
    BY <1>0, <1>1, <1>4
  <2>. QED
    BY <2>1
<1>6. /\ fh[1] = ph[2] /\ fh[m] = ph[m + 1]
  BY <1>4, <1>5
<1>7. \A i \in 1..m, q \in Runs : Sound(fh[i][q])
  BY <1>0, <1>1, <1>4, <1>5 DEF Traces
<1>8. \A q \in Runs : Reached(task'[q], fh[m][q])
  BY <1>0, <1>1, <1>6 DEF Traces
<1>9. Moves(ph[1], e, ph[2])
  BY <1>0, <1>1, <1>2, <1>4 DEF Traces
<1>10. ASSUME NEW q \in Runs PROVE Shown(q, fh[1][q])'
  <2>1. /\ ph[1][q] \in Progress /\ ph[2][q] \in Progress
        /\ Sound(ph[1][q]) /\ Sound(ph[2][q]) /\ Shown(q, ph[1][q])
    BY <1>0, <1>1, <1>4 DEF Traces
  <2>2. CASE q = e.run
    <3>1. Advances(ph[1][q], e, ph[2][q])
      BY <2>2, <1>9 DEF Moves
    <3>2. Shown(q, ph[2][q])'
      BY <1>0, <2>1, <2>2, <3>1
    <3>. QED
      BY <3>2, <1>6
  <2>3. CASE q # e.run
    <3>1. ph[2][q] = ph[1][q]
      BY <2>3, <1>9 DEF Moves
    <3>2. Shown(q, ph[2][q])'
      BY <1>0, <2>1, <2>3, <3>1
    <3>. QED
      BY <3>2, <1>6
  <2>. QED
    BY <2>2, <2>3
<1>11. \A i \in 1..(m - 1) : Moves(fh[i], evts'[i], fh[i + 1])
  <2> SUFFICES ASSUME NEW i \in 1..(m - 1) PROVE Moves(fh[i], evts'[i], fh[i + 1])
    OBVIOUS
  <2>1. fh[i] = ph[i + 1] /\ fh[i + 1] = ph[i + 1 + 1] /\ evts'[i] = evts[i + 1]
        /\ i + 1 \in 1..m
    BY <1>2, <1>4, <1>5
  <2>2. Moves(ph[i + 1], evts[i + 1], ph[i + 1 + 1])
    BY <2>1, <1>0, <1>1 DEF Traces
  <2>. QED
    BY <2>1, <2>2
<1>12. Len(evts') + 1 = m
  BY <1>2
<1>13. Traces(fh)'
  <2>1. \A i \in 1..(Len(evts') + 1), r \in Runs : Sound(fh[i][r])
    BY <1>7, <1>12
  <2>2. \A r \in Runs : Shown(r, fh[1][r])' /\ Reached(task'[r], fh[Len(evts') + 1][r])
    BY <1>8, <1>10, <1>12
  <2>3. \A i \in 1..Len(evts') : Moves(fh[i], evts'[i], fh[i + 1])
    BY <1>2, <1>11
  <2>. QED
    BY <2>1, <2>2, <2>3 DEF Traces
<1>. QED
  BY <1>5, <1>12, <1>13 DEF Traced

-----------------------------------------------------------------------------
LEMMA InitInv ==
  ASSUME Init
  PROVE  ViewInv
<1>1. Cardinality(Reqs \ Off) \in Nat /\ Len(Plan) \in Nat /\ MaxRuns \in Nat
  BY ReqsFinite, ViewAssumption
<1>2. TypeOK
  <2>1. runState = [run |-> NoRun, total |-> 0, completed |-> 0] /\ 0 \in Count /\ 0 \in 0..Len(Plan)
    BY <1>1 DEF Init, NoProgress, Count
  <2>2. /\ runState \in [run : Runs \cup {NoRun}, total : 0..Len(Plan), completed : Count]
        /\ runLog \in [run : Runs \cup {NoRun}, completed : Count, running : SUBSET Reqs]
    BY <2>1 DEF Init, NoLog
  <2>3. /\ cmds \in Seq([cmd : {"run", "cancel"}, run : Runs, reqs : Seq(Reqs)])
        /\ evts \in Seq(Event)
    BY DEF Init
  <2>4. /\ task \in [Runs -> [at : {"none", "spawned", "running", "ended", "over"},
                              todo : Seq(Reqs), current : SUBSET Reqs]]
        /\ drained \in [Runs -> [EventType -> Nat]]
        /\ cancels \in [Runs -> {"absent", "live", "cancelled"}]
        /\ tabs \in [Reqs -> Runs \cup {NoRun}] /\ stopped \subseteq Runs
    BY DEF Init, NoTask
  <2>5. nextRun \in 1..(MaxRuns + 1)
    BY <1>1 DEF Init
  <2>. QED
    BY <2>2, <2>3, <2>4, <2>5 DEF TypeOK
<1>3. Traced
  <2> DEFINE p == At("idle", {}, 0, 0, 0)
  <2>1. p \in Progress /\ Sound(p) /\ p.at = "idle" /\ p.started = 0 /\ p.finished = 0
    BY <1>1 DEF At, Progress, Sound
  <2>2. \A r \in Runs : Shown(r, p) /\ Reached(task[r], p)
    <3> SUFFICES ASSUME NEW r \in Runs PROVE Shown(r, p) /\ Reached(task[r], p)
      OBVIOUS
    <3>1. /\ \A t \in EventType : drained[r][t] = 0
          /\ task[r].at = "none" /\ task[r].current = {}
          /\ runState.run # r /\ runLog.run # r
      BY NoRunIsNone DEF Init, NoTask, NoLog, NoProgress
    <3>. QED
      BY <2>1, <3>1 DEF Shown, Reached, Ended, EventType
  <2> HIDE DEF p
  <2>3. PICK ph \in [1..1 -> [Runs -> Progress]] : \A r \in Runs : ph[1][r] = p
    <3>1. /\ [i \in 1..1 |-> [r \in Runs |-> p]] \in [1..1 -> [Runs -> Progress]]
          /\ \A r \in Runs : [i \in 1..1 |-> [s \in Runs |-> p]][1][r] = p
      BY <2>1
    <3>. QED
      BY <3>1
  <2>4. evts = <<>> /\ Len(evts) = 0 /\ Len(evts) + 1 = 1
    BY DEF Init
  <2>5. Traces(ph)
    BY <2>1, <2>2, <2>3, <2>4 DEF Traces
  <2>. QED
    BY <2>3, <2>4, <2>5 DEF Traced
<1>4. Queued
  BY NoRunIsNone DEF Init, Queued, NoTask
<1>5. Fresh
  BY NoRunIsNone DEF Init, Fresh, NoTask, NoLog, NoProgress
<1>6. LogEmpty /\ StopReaches
  BY DEF Init, LogEmpty, StopReaches, NoLog
<1>. QED
  BY <1>2, <1>3, <1>4, <1>5, <1>6 DEF ViewInv

LEMMA CmdsTyped ==
  ASSUME TypeOK
  PROVE  /\ \A i \in DOMAIN cmds : /\ cmds[i].run \in Runs /\ cmds[i].cmd \in {"run", "cancel"}
                                  /\ cmds[i].reqs \in Seq(Reqs)
         /\ DOMAIN cmds = 1..Len(cmds) /\ Len(cmds) \in Nat
<1> DEFINE C == [cmd : {"run", "cancel"}, run : Runs, reqs : Seq(Reqs)]
<1>1. cmds \in Seq(C)
  BY DEF TypeOK
<1>2. \A c \in C : c.run \in Runs /\ c.cmd \in {"run", "cancel"} /\ c.reqs \in Seq(Reqs)
  OBVIOUS
<1> HIDE DEF C
<1>3. \A i \in DOMAIN cmds : cmds[i] \in C
  BY <1>1
<1>4. DOMAIN cmds = 1..Len(cmds) /\ Len(cmds) \in Nat
  BY <1>1
<1>. QED
  BY <1>2, <1>3, <1>4

(* A command is queued behind the others. *)
LEMMA CmdsGrow ==
  ASSUME TypeOK, Queued, NEW c \in [cmd : {"run", "cancel"}, run : Runs, reqs : Seq(Reqs)],
         cmds' = Append(cmds, c)
  PROVE  /\ cmds' \in Seq([cmd : {"run", "cancel"}, run : Runs, reqs : Seq(Reqs)])
         /\ Len(cmds) \in Nat /\ DOMAIN cmds = 1..Len(cmds)
         /\ DOMAIN cmds' = 1..(Len(cmds) + 1) /\ cmds'[Len(cmds) + 1] = c
         /\ \A i \in 1..Len(cmds) : i \in DOMAIN cmds' /\ cmds'[i] = cmds[i]
         /\ \A i \in DOMAIN cmds' : i \in 1..Len(cmds) \/ i = Len(cmds) + 1
         /\ \A r : Sent(r) => Sent(r)'
         /\ \A r : Pending("cancel", r) => Pending("cancel", r)'
<1>1. /\ cmds' \in Seq([cmd : {"run", "cancel"}, run : Runs, reqs : Seq(Reqs)])
      /\ Len(cmds) \in Nat /\ DOMAIN cmds = 1..Len(cmds)
      /\ DOMAIN cmds' = 1..(Len(cmds) + 1) /\ cmds'[Len(cmds) + 1] = c
      /\ \A i \in 1..Len(cmds) : i \in DOMAIN cmds' /\ cmds'[i] = cmds[i]
      /\ \A i \in DOMAIN cmds' : i \in 1..Len(cmds) \/ i = Len(cmds) + 1
  BY DEF TypeOK
<1>. QED
  BY <1>1 DEF Sent, Pending

LEMMA SendInv ==
  ASSUME ViewInv, NEW reqs \in Plans, NEW total \in 0..Len(Plan), Send(reqs, total),
         tabs' \in [Reqs -> Runs \cup {NoRun}],
         \A q \in Reqs : tabs'[q] = tabs[q] \/ tabs'[q] = nextRun
  PROVE  ViewInv'
<1>0. PICK s \in Runs : s = nextRun
  BY DEF Send
<1>1. /\ reqs \in Seq(Reqs) /\ s \in Nat /\ 1 <= s /\ s <= MaxRuns /\ MaxRuns \in Nat
      /\ Cardinality(Reqs \ Off) \in Nat /\ NoRun \notin Runs /\ Runs \subseteq Nat
  BY LeftFits, ReqsFinite, NoRunIsNone, ViewAssumption DEF Runs
<1>2. /\ nextRun' = s + 1
      /\ runState' = [run |-> s, total |-> total, completed |-> 0]
      /\ runLog' = [run |-> s, completed |-> 0, running |-> {}]
      /\ cmds' = Append(cmds, [cmd |-> "run", run |-> s, reqs |-> reqs])
      /\ stopped' = stopped /\ cancels' = cancels /\ task' = task /\ evts' = evts
      /\ drained' = drained
  BY <1>0 DEF Send, NoLog, bridge
<1> DEFINE c == [cmd |-> "run", run |-> s, reqs |-> reqs]
<1>3. c \in [cmd : {"run", "cancel"}, run : Runs, reqs : Seq(Reqs)]
  BY <1>1
<1>4. c.cmd = "run" /\ c.run = s /\ c.reqs = reqs
  OBVIOUS
<1>5. TypeOK /\ Traced /\ Queued /\ Fresh /\ LogEmpty /\ StopReaches /\ cmds' = Append(cmds, c)
  BY <1>2 DEF ViewInv
<1> HIDE DEF c
<1>6. /\ cmds' \in Seq([cmd : {"run", "cancel"}, run : Runs, reqs : Seq(Reqs)])
      /\ Len(cmds) \in Nat /\ DOMAIN cmds = 1..Len(cmds)
      /\ DOMAIN cmds' = 1..(Len(cmds) + 1) /\ cmds'[Len(cmds) + 1] = c
      /\ \A i \in 1..Len(cmds) : i \in DOMAIN cmds' /\ cmds'[i] = cmds[i]
      /\ \A i \in DOMAIN cmds' : i \in 1..Len(cmds) \/ i = Len(cmds) + 1
      /\ \A r : Sent(r) => Sent(r)'
      /\ \A r : Pending("cancel", r) => Pending("cancel", r)'
  BY <1>3, <1>5, CmdsGrow
<1>7. /\ task[s].at = "none" /\ drained[s] = [t \in EventType |-> 0] /\ s \notin stopped
      /\ \A i \in DOMAIN evts : evts[i].run # s
  BY <1>0, <1>1, <1>5 DEF Fresh
<1>8. TypeOK'
  <2>1. 0 \in Count /\ nextRun' \in 1..(MaxRuns + 1)
    BY <1>1, <1>2 DEF Count
  <2>2. /\ runState' \in [run : Runs \cup {NoRun}, total : 0..Len(Plan), completed : Count]
        /\ runLog' \in [run : Runs \cup {NoRun}, completed : Count, running : SUBSET Reqs]
    BY <1>2, <2>1
  <2>. QED
    BY <1>2, <1>5, <1>6, <2>1, <2>2 DEF TypeOK
<1>9. Traced'
  <2>1. ASSUME NEW r \in Runs, NEW p \in Progress, Sound(p), Shown(r, p) PROVE Shown(r, p)'
    <3>1. CASE r = s
      <4>1. /\ drained[r]["runStarted"] = 0 /\ drained[r]["runFinished"] = 0
            /\ drained[r]["runFailed"] = 0 /\ drained[r]["requestFinished"] = 0
        BY <1>7, <3>1 DEF EventType
      <4>2. p.at = "idle"
        BY <4>1, <2>1 DEF Shown, Ended, Progress
      <4>3. p.req = {} /\ p.finished = 0
        BY <4>1, <4>2, <2>1 DEF Shown, Sound
      <4>. QED
        BY <1>2, <2>1, <3>1, <4>1, <4>2, <4>3 DEF Shown, Ended
    <3>2. CASE r # s
      <4>1. runState'.run # r /\ runLog'.run # r
        BY <1>2, <3>2
      <4>. QED
        BY <1>2, <2>1, <4>1 DEF Shown, Ended
    <3>. QED
      BY <3>1, <3>2
  <2>. QED
    BY <1>2, <1>5, <2>1, TraceStays
<1>10. Queued'
  <2>1. \A i \in 1..Len(cmds) : cmds[i].run < s /\ cmds[i].run \in Nat
    <3>1. \A i \in DOMAIN cmds : cmds[i].run \in Runs
      BY <1>5, CmdsTyped
    <3>. QED
      BY <3>1, <1>0, <1>1, <1>5, <1>6 DEF Queued
  <2>2. ASSUME NEW i \in DOMAIN cmds' PROVE
          /\ cmds'[i].run < nextRun'
          /\ cmds'[i].cmd = "run" =>
               /\ cmds'[i].reqs \in Plans /\ task'[cmds'[i].run].at = "none"
               /\ \A j \in DOMAIN cmds' :
                    cmds'[j].cmd = "run" /\ cmds'[j].run = cmds'[i].run => i = j
          /\ cmds'[i].cmd = "cancel" =>
               \/ task'[cmds'[i].run].at # "none"
               \/ \E j \in 1..(i - 1) : cmds'[j].cmd = "run" /\ cmds'[j].run = cmds'[i].run
    <3>1. CASE i = Len(cmds) + 1
      <4>1. cmds'[i].run = s /\ cmds'[i].cmd = "run" /\ cmds'[i].reqs = reqs
        BY <3>1, <1>4, <1>6
      <4>2. \A j \in DOMAIN cmds' : cmds'[j].run = s => j = i
        BY <3>1, <2>1, <1>6, <1>1
      <4>. QED
        BY <4>1, <4>2, <1>1, <1>2, <1>7
    <3>2. CASE i \in 1..Len(cmds)
      <4>1. cmds'[i] = cmds[i] /\ i \in DOMAIN cmds /\ cmds[i].run # s
        BY <3>2, <1>1, <1>6, <2>1
      <4>2. cmds'[i].run < nextRun'
        BY <3>2, <4>1, <2>1, <1>1, <1>2
      <4>3. ASSUME cmds[i].cmd = "run" PROVE
              /\ cmds[i].reqs \in Plans /\ task'[cmds[i].run].at = "none"
              /\ \A j \in DOMAIN cmds' :
                   cmds'[j].cmd = "run" /\ cmds'[j].run = cmds[i].run => i = j
        <5>1. \A j \in DOMAIN cmds' : cmds'[j].run = cmds[i].run => j \in 1..Len(cmds)
          BY <4>1, <1>4, <1>6
        <5>. QED
          BY <5>1, <4>1, <4>3, <1>2, <1>5, <1>6 DEF Queued
      <4>4. ASSUME cmds[i].cmd = "cancel", task[cmds[i].run].at = "none" PROVE
              \E j \in 1..(i - 1) : cmds'[j].cmd = "run" /\ cmds'[j].run = cmds[i].run
        <5>1. PICK j \in 1..(i - 1) : cmds[j].cmd = "run" /\ cmds[j].run = cmds[i].run
          BY <4>1, <4>4, <1>5 DEF Queued
        <5>2. j \in 1..Len(cmds)
          BY <3>2, <1>6
        <5>. QED
          BY <5>1, <5>2, <1>6
      <4>. QED
        BY <4>1, <4>2, <4>3, <4>4, <1>2
    <3>. QED
      BY <3>1, <3>2, <1>6
  <2>3. ASSUME NEW r \in Runs PROVE
          /\ r < nextRun' => task'[r].at # "none" \/ Sent(r)'
          /\ (cancels'[r] = "absent" <=> task'[r].at \in {"none", "over"})
          /\ task'[r].at = "spawned" => task'[r].todo \in Plans
    <3>1. CASE r = s
      <4>1. Sent(r)'
        BY <3>1, <1>1, <1>4, <1>6 DEF Sent
      <4>. QED
        BY <4>1, <1>2, <1>5 DEF Queued
    <3>2. CASE r # s
      <4>1. r < nextRun' => r < nextRun
        BY <3>2, <1>0, <1>1, <1>2
      <4>. QED
        BY <4>1, <1>2, <1>5, <1>6 DEF Queued
    <3>. QED
      BY <3>1, <3>2
  <2>. QED
    BY <2>2, <2>3 DEF Queued
<1>11. Fresh'
  <2>1. ASSUME NEW r \in Runs, r >= nextRun' PROVE
          /\ r >= nextRun /\ runState'.run # r /\ runLog'.run # r
          /\ \A q \in Reqs : tabs'[q] # r
    <3>1. r >= nextRun /\ r # s
      BY <2>1, <1>0, <1>1, <1>2
    <3>. QED
      BY <3>1, <1>0, <1>2, <1>5 DEF Fresh
  <2>. QED
    BY <2>1, <1>2, <1>5 DEF Fresh
<1>12. LogEmpty' /\ StopReaches'
  BY <1>1, <1>2, <1>5, <1>6 DEF LogEmpty, StopReaches
<1>. QED
  BY <1>8, <1>9, <1>10, <1>11, <1>12 DEF ViewInv

LEMMA StopInv ==
  ASSUME ViewInv, NEW r \in Runs, Stop(r), r < nextRun
  PROVE  ViewInv'
<1> DEFINE c == [cmd |-> "cancel", run |-> r, reqs |-> <<>>]
<1>1. /\ c \in [cmd : {"run", "cancel"}, run : Runs, reqs : Seq(Reqs)]
      /\ c.cmd = "cancel" /\ c.run = r
  OBVIOUS
<1>2. /\ cmds' = Append(cmds, c) /\ stopped' = stopped \cup {r}
      /\ nextRun' = nextRun /\ runState' = runState /\ runLog' = runLog /\ tabs' = tabs
      /\ cancels' = cancels /\ task' = task /\ evts' = evts /\ drained' = drained
  BY DEF Stop, view, bridge
<1> HIDE DEF c
<1>3. TypeOK /\ Traced /\ Queued /\ Fresh /\ LogEmpty /\ StopReaches
  BY DEF ViewInv
<1>4. /\ cmds' \in Seq([cmd : {"run", "cancel"}, run : Runs, reqs : Seq(Reqs)])
      /\ Len(cmds) \in Nat /\ DOMAIN cmds = 1..Len(cmds)
      /\ DOMAIN cmds' = 1..(Len(cmds) + 1) /\ cmds'[Len(cmds) + 1] = c
      /\ \A i \in 1..Len(cmds) : i \in DOMAIN cmds' /\ cmds'[i] = cmds[i]
      /\ \A i \in DOMAIN cmds' : i \in 1..Len(cmds) \/ i = Len(cmds) + 1
      /\ \A q : Sent(q) => Sent(q)'
      /\ \A q : Pending("cancel", q) => Pending("cancel", q)'
  BY <1>1, <1>2, <1>3, CmdsGrow
<1>5. TypeOK'
  BY <1>2, <1>3, <1>4 DEF TypeOK
<1>6. Traced'
  <2>1. \A q \in Runs, p \in Progress : Sound(p) /\ Shown(q, p) => Shown(q, p)'
    BY <1>2 DEF Shown, Ended
  <2>. QED
    BY <1>2, <1>3, <2>1, TraceStays
<1>7. Queued'
  <2>1. ASSUME NEW i \in DOMAIN cmds' PROVE
          /\ cmds'[i].run < nextRun'
          /\ cmds'[i].cmd = "run" =>
               /\ cmds'[i].reqs \in Plans /\ task'[cmds'[i].run].at = "none"
               /\ \A j \in DOMAIN cmds' :
                    cmds'[j].cmd = "run" /\ cmds'[j].run = cmds'[i].run => i = j
          /\ cmds'[i].cmd = "cancel" =>
               \/ task'[cmds'[i].run].at # "none"
               \/ \E j \in 1..(i - 1) : cmds'[j].cmd = "run" /\ cmds'[j].run = cmds'[i].run
    <3>1. CASE i = Len(cmds) + 1
      <4>1. cmds'[i].run = r /\ cmds'[i].cmd = "cancel"
        BY <3>1, <1>1, <1>4
      <4>2. ASSUME task[r].at = "none" PROVE
              \E j \in 1..(i - 1) : cmds'[j].cmd = "run" /\ cmds'[j].run = r
        <5>1. PICK j \in DOMAIN cmds : cmds[j].cmd = "run" /\ cmds[j].run = r
          BY <4>2, <1>3 DEF Queued, Sent
        <5>2. j \in 1..(i - 1) /\ cmds'[j] = cmds[j]
          BY <5>1, <3>1, <1>4
        <5>. QED
          BY <5>1, <5>2
      <4>. QED
        BY <4>1, <4>2, <1>2
    <3>2. CASE i \in 1..Len(cmds)
      <4>1. cmds'[i] = cmds[i] /\ i \in DOMAIN cmds
        BY <3>2, <1>4
      <4>3. ASSUME cmds[i].cmd = "run" PROVE
              \A j \in DOMAIN cmds' :
                   cmds'[j].cmd = "run" /\ cmds'[j].run = cmds[i].run => i = j
        <5>1. \A j \in DOMAIN cmds' : cmds'[j].cmd = "run" => j \in 1..Len(cmds)
          BY <1>1, <1>4
        <5>. QED
          BY <5>1, <4>1, <4>3, <1>3, <1>4 DEF Queued
      <4>4. ASSUME cmds[i].cmd = "cancel", task[cmds[i].run].at = "none" PROVE
              \E j \in 1..(i - 1) : cmds'[j].cmd = "run" /\ cmds'[j].run = cmds[i].run
        <5>1. PICK j \in 1..(i - 1) : cmds[j].cmd = "run" /\ cmds[j].run = cmds[i].run
          BY <4>1, <4>4, <1>3 DEF Queued
        <5>2. j \in 1..Len(cmds)
          BY <3>2, <1>4
        <5>. QED
          BY <5>1, <5>2, <1>4
      <4>. QED
        BY <4>1, <4>3, <4>4, <1>2, <1>3 DEF Queued
    <3>. QED
      BY <3>1, <3>2, <1>4
  <2>. QED
    BY <2>1, <1>2, <1>3, <1>4 DEF Queued
<1>8. Fresh'
  <2>1. \A q \in Runs : q >= nextRun => q # r
    BY NoRunIsNone, <1>3 DEF TypeOK
  <2>. QED
    BY <2>1, <1>2, <1>3 DEF Fresh
<1>9. LogEmpty'
  BY <1>2, <1>3 DEF LogEmpty
<1>10. StopReaches'
  <2>1. Len(cmds) + 1 \in DOMAIN cmds'
    BY <1>4
  <2>2. Pending("cancel", r)'
    BY <2>1, <1>1, <1>4 DEF Pending
  <2>. QED
    BY <2>2, <1>2, <1>3, <1>4 DEF StopReaches
<1>. QED
  BY <1>5, <1>6, <1>7, <1>8, <1>9, <1>10 DEF ViewInv

LEMMA ClearInv ==
  ASSUME ViewInv, ClearLog
  PROVE  ViewInv'
<1>1. /\ runLog' = [run |-> NoRun, completed |-> 0, running |-> {}]
      /\ nextRun' = nextRun /\ runState' = runState /\ tabs' = tabs /\ stopped' = stopped
      /\ cmds' = cmds /\ cancels' = cancels /\ task' = task /\ evts' = evts
      /\ drained' = drained
  BY DEF ClearLog, NoLog, bridge
<1>2. TypeOK /\ Traced /\ Queued /\ Fresh /\ LogEmpty /\ StopReaches
  BY DEF ViewInv
<1>3. TypeOK'
  <2>1. 0 \in Count
    BY ReqsFinite DEF Count
  <2>2. runLog' \in [run : Runs \cup {NoRun}, completed : Count, running : SUBSET Reqs]
    BY <2>1, <1>1
  <2>. QED
    BY <2>2, <1>1, <1>2 DEF TypeOK
<1>4. Traced'
  <2>1. \A q \in Runs, p \in Progress : Sound(p) /\ Shown(q, p) => Shown(q, p)'
    BY <1>1, NoRunIsNone DEF Shown, Ended
  <2>. QED
    BY <1>1, <1>2, <2>1, TraceStays
<1>5. Queued' /\ StopReaches'
  BY <1>1, <1>2 DEF Queued, Sent, StopReaches, Pending
<1>6. Fresh' /\ LogEmpty'
  BY <1>1, <1>2, NoRunIsNone DEF Fresh, LogEmpty
<1>. QED
  BY <1>3, <1>4, <1>5, <1>6 DEF ViewInv

-----------------------------------------------------------------------------
(* The bridge takes the first command. *)
LEMMA CmdsShrink ==
  ASSUME TypeOK, cmds # <<>>, cmds' = Tail(cmds)
  PROVE  /\ cmds' \in Seq([cmd : {"run", "cancel"}, run : Runs, reqs : Seq(Reqs)])
         /\ Len(cmds) \in Nat /\ Len(cmds) >= 1 /\ 1 \in DOMAIN cmds
         /\ DOMAIN cmds = 1..Len(cmds) /\ DOMAIN cmds' = 1..(Len(cmds) - 1)
         /\ Head(cmds) = cmds[1]
         /\ \A i \in DOMAIN cmds' : i + 1 \in DOMAIN cmds /\ cmds'[i] = cmds[i + 1]
         /\ \A i \in DOMAIN cmds : i = 1 \/ (i - 1 \in DOMAIN cmds' /\ cmds'[i - 1] = cmds[i])
<1> DEFINE C == [cmd : {"run", "cancel"}, run : Runs, reqs : Seq(Reqs)]
<1>1. cmds \in Seq(C)
  BY DEF TypeOK
<1> HIDE DEF C
<1>2. /\ cmds' \in Seq(C) /\ Len(cmds) \in Nat /\ Len(cmds) >= 1
      /\ DOMAIN cmds = 1..Len(cmds) /\ DOMAIN cmds' = 1..(Len(cmds) - 1)
      /\ Head(cmds) = cmds[1]
      /\ \A i \in 1..(Len(cmds) - 1) : cmds'[i] = cmds[i + 1]
  BY <1>1
<1>3. \A i \in DOMAIN cmds' : i + 1 \in DOMAIN cmds /\ cmds'[i] = cmds[i + 1]
  BY <1>2
<1>4. ASSUME NEW i \in DOMAIN cmds, i # 1
      PROVE  i - 1 \in DOMAIN cmds' /\ cmds'[i - 1] = cmds[i]
  <2>1. i \in 2..Len(cmds) /\ i - 1 \in 1..(Len(cmds) - 1) /\ i - 1 + 1 = i
    BY <1>2, <1>4
  <2>. QED
    BY <2>1, <1>2
<1>. QED
  BY <1>2, <1>3, <1>4 DEF C

(* What is queued keeps its order. *)
LEMMA QueueShrinks ==
  ASSUME TypeOK, Queued, cmds # <<>>, cmds' = Tail(cmds), nextRun' = nextRun,
         \A q \in Runs : q # Head(cmds).run \/ Head(cmds).cmd = "cancel" => task'[q] = task[q],
         Head(cmds).cmd = "run" => task'[Head(cmds).run].at # "none",
         \A q \in Runs : /\ cancels'[q] = "absent" <=> task'[q].at \in {"none", "over"}
                         /\ task'[q].at = "spawned" => task'[q].todo \in Plans
  PROVE  Queued'
<1>1. /\ Len(cmds) \in Nat /\ Len(cmds) >= 1 /\ 1 \in DOMAIN cmds
      /\ DOMAIN cmds = 1..Len(cmds) /\ DOMAIN cmds' = 1..(Len(cmds) - 1)
      /\ Head(cmds) = cmds[1]
      /\ \A i \in DOMAIN cmds' : i + 1 \in DOMAIN cmds /\ cmds'[i] = cmds[i + 1]
      /\ \A i \in DOMAIN cmds : i = 1 \/ (i - 1 \in DOMAIN cmds' /\ cmds'[i - 1] = cmds[i])
  BY CmdsShrink
<1>2. \A i \in DOMAIN cmds : cmds[i].run \in Runs /\ cmds[i].cmd \in {"run", "cancel"}
  BY CmdsTyped
<1>3. ASSUME NEW i \in DOMAIN cmds' PROVE
        /\ cmds'[i].run < nextRun'
        /\ cmds'[i].cmd = "run" =>
             /\ cmds'[i].reqs \in Plans /\ task'[cmds'[i].run].at = "none"
             /\ \A j \in DOMAIN cmds' :
                  cmds'[j].cmd = "run" /\ cmds'[j].run = cmds'[i].run => i = j
        /\ cmds'[i].cmd = "cancel" =>
             \/ task'[cmds'[i].run].at # "none"
             \/ \E j \in 1..(i - 1) : cmds'[j].cmd = "run" /\ cmds'[j].run = cmds'[i].run
  <2>1. i + 1 \in DOMAIN cmds /\ cmds'[i] = cmds[i + 1] /\ i \in Nat /\ i >= 1
        /\ i + 1 # 1 /\ (i + 1) - 1 = i
    BY <1>1
  <2>2. cmds'[i].run < nextRun'
    BY <2>1 DEF Queued
  <2>3. ASSUME cmds'[i].cmd = "run" PROVE
          /\ cmds'[i].reqs \in Plans /\ task'[cmds'[i].run].at = "none"
          /\ \A j \in DOMAIN cmds' :
               cmds'[j].cmd = "run" /\ cmds'[j].run = cmds'[i].run => i = j
    <3>1. /\ cmds[i + 1].reqs \in Plans /\ task[cmds[i + 1].run].at = "none"
          /\ \A j \in DOMAIN cmds :
               cmds[j].cmd = "run" /\ cmds[j].run = cmds[i + 1].run => i + 1 = j
      BY <2>1, <2>3 DEF Queued
    <3>2. cmds[1].cmd = "run" => cmds[1].run # cmds[i + 1].run
      BY <3>1, <2>1, <1>1
    <3>3. task'[cmds[i + 1].run] = task[cmds[i + 1].run]
      BY <3>2, <1>1, <1>2, <2>1
    <3>4. ASSUME NEW j \in DOMAIN cmds', cmds'[j].cmd = "run", cmds'[j].run = cmds'[i].run
          PROVE  i = j
      <4>1. j + 1 \in DOMAIN cmds /\ cmds'[j] = cmds[j + 1] /\ j \in Nat
        BY <1>1
      <4>2. i + 1 = j + 1
        BY <4>1, <3>1, <3>4, <2>1
      <4>. QED
        BY <4>1, <4>2, <2>1
    <3>. QED
      BY <3>1, <3>3, <3>4, <2>1
  <2>4. ASSUME cmds'[i].cmd = "cancel", task'[cmds'[i].run].at = "none" PROVE
          \E j \in 1..(i - 1) : cmds'[j].cmd = "run" /\ cmds'[j].run = cmds'[i].run
    <3>1. cmds[1].cmd = "run" => cmds[i + 1].run # cmds[1].run
      BY <2>1, <2>4, <1>1
    <3>2. task'[cmds[i + 1].run] = task[cmds[i + 1].run]
      BY <3>1, <1>1, <1>2, <2>1
    <3>3. PICK j \in 1..i : cmds[j].cmd = "run" /\ cmds[j].run = cmds[i + 1].run
      BY <3>2, <2>1, <2>4 DEF Queued
    <3>4. j # 1
      BY <3>1, <3>3
    <3>5. j \in DOMAIN cmds /\ j - 1 \in 1..(i - 1)
      BY <3>4, <2>1, <1>1
    <3>6. cmds'[j - 1] = cmds[j]
      BY <3>4, <3>5, <1>1
    <3>. QED
      BY <3>3, <3>5, <3>6, <2>1
  <2>. QED
    BY <2>2, <2>3, <2>4
<1>4. ASSUME NEW q \in Runs, q < nextRun' PROVE task'[q].at # "none" \/ Sent(q)'
  <2>1. task[q].at # "none" \/ Sent(q)
    BY <1>4 DEF Queued
  <2>2. CASE Head(cmds).cmd = "run" /\ q = Head(cmds).run
    BY <2>2
  <2>3. CASE ~(Head(cmds).cmd = "run" /\ q = Head(cmds).run)
    <3>1. task'[q] = task[q]
      BY <2>3, <1>1, <1>2
    <3>2. ASSUME Sent(q) PROVE Sent(q)'
      <4>1. PICK j \in DOMAIN cmds : cmds[j].cmd = "run" /\ cmds[j].run = q
        BY <3>2 DEF Sent
      <4>2. j - 1 \in DOMAIN cmds' /\ cmds'[j - 1] = cmds[j]
        BY <4>1, <2>3, <1>1
      <4>. QED
        BY <4>1, <4>2 DEF Sent
    <3>. QED
      BY <2>1, <3>1, <3>2
  <2>. QED
    BY <2>2, <2>3
<1>. QED
  BY <1>3, <1>4 DEF Queued

LEMMA RecvRunInv ==
  ASSUME ViewInv, RecvRun
  PROVE  ViewInv'
<1>0. TypeOK /\ Traced /\ Queued /\ Fresh /\ LogEmpty /\ StopReaches
  BY DEF ViewInv
<1>1. /\ cmds # <<>> /\ Head(cmds).cmd = "run" /\ cmds' = Tail(cmds)
      /\ nextRun' = nextRun /\ runState' = runState /\ runLog' = runLog /\ tabs' = tabs
      /\ stopped' = stopped /\ evts' = evts /\ drained' = drained
  BY DEF RecvRun, Recv, view
<1>2. /\ cmds' \in Seq([cmd : {"run", "cancel"}, run : Runs, reqs : Seq(Reqs)])
      /\ 1 \in DOMAIN cmds /\ Head(cmds) = cmds[1]
      /\ \A i \in DOMAIN cmds : i = 1 \/ (i - 1 \in DOMAIN cmds' /\ cmds'[i - 1] = cmds[i])
  BY <1>0, <1>1, CmdsShrink
<1>3. PICK r \in Runs : r = cmds[1].run /\ r = Head(cmds).run
  BY <1>0, <1>2, CmdsTyped
<1>4. /\ task[r].at = "none" /\ cmds[1].reqs \in Plans /\ r < nextRun
      /\ cmds[1].reqs \in Seq(Reqs)
  <2>1. task[r].at = "none" /\ cmds[1].reqs \in Plans /\ r < nextRun
    BY <1>0, <1>1, <1>2, <1>3 DEF Queued
  <2>. QED
    BY <2>1, LeftFits
<1> DEFINE t == [at |-> "spawned", todo |-> cmds[1].reqs, current |-> {}]
<1>5. /\ cancels' = [cancels EXCEPT ![r] = "live"] /\ task' = [task EXCEPT ![r] = t]
  BY <1>2, <1>3 DEF RecvRun, Spawned
<1>6. /\ t.at = "spawned" /\ t.todo = cmds[1].reqs /\ t.current = {}
      /\ t \in [at : {"none", "spawned", "running", "ended", "over"},
                todo : Seq(Reqs), current : SUBSET Reqs]
  BY <1>4
<1> HIDE DEF t
<1>7. /\ task'[r] = t /\ cancels'[r] = "live"
      /\ \A q \in Runs : q # r => task'[q] = task[q] /\ cancels'[q] = cancels[q]
  BY <1>0, <1>5 DEF TypeOK
<1>8. TypeOK'
  BY <1>0, <1>1, <1>2, <1>5, <1>6 DEF TypeOK
<1>9. Traced'
  <2>1. \A q \in Runs, p \in Progress : Sound(p) /\ Shown(q, p) => Shown(q, p)'
    BY <1>1 DEF Shown, Ended
  <2>2. \A q \in Runs, p \in Progress : Sound(p) /\ Reached(task[q], p) => Reached(task'[q], p)
    <3> SUFFICES ASSUME NEW q \in Runs, NEW p \in Progress, Reached(task[q], p)
                 PROVE  Reached(task'[q], p)
      OBVIOUS
    <3>1. CASE q = r
      BY <3>1, <1>4, <1>6, <1>7 DEF Reached
    <3>2. CASE q # r
      BY <3>2, <1>7
    <3>. QED
      BY <3>1, <3>2
  <2>. QED
    BY <1>0, <1>1, <2>1, <2>2, TraceStays
<1>10. Queued'
  <2>1. ASSUME NEW q \in Runs PROVE
          /\ (cancels'[q] = "absent" <=> task'[q].at \in {"none", "over"})
          /\ task'[q].at = "spawned" => task'[q].todo \in Plans
    <3>1. CASE q = r
      BY <3>1, <1>4, <1>6, <1>7
    <3>2. CASE q # r
      BY <3>2, <1>0, <1>7 DEF Queued
    <3>. QED
      BY <3>1, <3>2
  <2>2. /\ \A q \in Runs : q # Head(cmds).run \/ Head(cmds).cmd = "cancel" => task'[q] = task[q]
        /\ Head(cmds).cmd = "run" => task'[Head(cmds).run].at # "none"
    BY <1>1, <1>3, <1>6, <1>7
  <2>. QED
    BY <1>0, <1>1, <2>1, <2>2, QueueShrinks
<1>11. Fresh'
  <2>1. \A q \in Runs : q >= nextRun => q # r
    BY NoRunIsNone, <1>0, <1>4 DEF TypeOK
  <2>. QED
    BY <2>1, <1>0, <1>1, <1>7 DEF Fresh
<1>12. LogEmpty'
  BY <1>0, <1>1 DEF LogEmpty
<1>13. StopReaches'
  <2> SUFFICES ASSUME NEW q \in stopped'
               PROVE  Pending("cancel", q)' \/ cancels'[q] = "cancelled" \/ task'[q].at = "over"
    BY DEF StopReaches
  <2>1. q \in Runs /\ q \in stopped
    BY <1>0, <1>1 DEF TypeOK
  <2>2. CASE Pending("cancel", q)
    <3>1. PICK i \in DOMAIN cmds : cmds[i].cmd = "cancel" /\ cmds[i].run = q
      BY <2>2 DEF Pending
    <3>2. i - 1 \in DOMAIN cmds' /\ cmds'[i - 1] = cmds[i]
      BY <3>1, <1>1, <1>2
    <3>. QED
      BY <3>1, <3>2 DEF Pending
  <2>3. CASE cancels[q] = "cancelled"
    <3>1. q # r
      BY <2>3, <1>0, <1>4 DEF Queued
    <3>. QED
      BY <2>1, <2>3, <3>1, <1>7
  <2>4. CASE task[q].at = "over"
    <3>1. q # r
      BY <2>4, <1>4
    <3>. QED
      BY <2>1, <2>4, <3>1, <1>7
  <2>. QED
    BY <2>1, <2>2, <2>3, <2>4, <1>0 DEF StopReaches
<1>. QED
  BY <1>8, <1>9, <1>10, <1>11, <1>12, <1>13 DEF ViewInv

LEMMA RecvCancelInv ==
  ASSUME ViewInv, RecvCancel
  PROVE  ViewInv'
<1>0. TypeOK /\ Traced /\ Queued /\ Fresh /\ LogEmpty /\ StopReaches
  BY DEF ViewInv
<1>1. /\ cmds # <<>> /\ Head(cmds).cmd = "cancel" /\ cmds' = Tail(cmds)
      /\ nextRun' = nextRun /\ runState' = runState /\ runLog' = runLog /\ tabs' = tabs
      /\ stopped' = stopped /\ evts' = evts /\ drained' = drained /\ task' = task
  BY DEF RecvCancel, Recv, view
<1>2. /\ cmds' \in Seq([cmd : {"run", "cancel"}, run : Runs, reqs : Seq(Reqs)])
      /\ 1 \in DOMAIN cmds /\ Head(cmds) = cmds[1]
      /\ \A i \in DOMAIN cmds : i = 1 \/ (i - 1 \in DOMAIN cmds' /\ cmds'[i - 1] = cmds[i])
  BY <1>0, <1>1, CmdsShrink
<1>3. PICK r \in Runs : r = cmds[1].run /\ r = Head(cmds).run
  BY <1>0, <1>2, CmdsTyped
<1>4. task[r].at # "none"
  <2>1. task[r].at # "none" \/ \E j \in 1..(1 - 1) : cmds[j].cmd = "run" /\ cmds[j].run = r
    BY <1>0, <1>1, <1>2, <1>3 DEF Queued
  <2>. QED
    BY <2>1
<1>5. /\ cancels' \in [Runs -> {"absent", "live", "cancelled"}]
      /\ cancels'[r] = IF cancels[r] = "live" THEN "cancelled" ELSE cancels[r]
      /\ \A q \in Runs : q # r => cancels'[q] = cancels[q]
  BY <1>0, <1>3 DEF RecvCancel, TypeOK
<1>6. TypeOK'
  BY <1>0, <1>1, <1>2, <1>5 DEF TypeOK
<1>7. Traced'
  <2>1. \A q \in Runs, p \in Progress : Sound(p) /\ Shown(q, p) => Shown(q, p)'
    BY <1>1 DEF Shown, Ended
  <2>. QED
    BY <1>0, <1>1, <2>1, TraceStays
<1>8. Queued'
  <2>1. ASSUME NEW q \in Runs PROVE
          /\ (cancels'[q] = "absent" <=> task'[q].at \in {"none", "over"})
          /\ task'[q].at = "spawned" => task'[q].todo \in Plans
    <3>1. cancels'[q] = "absent" <=> cancels[q] = "absent"
      BY <1>5
    <3>. QED
      BY <3>1, <1>0, <1>1 DEF Queued
  <2>. QED
    BY <1>0, <1>1, <2>1, QueueShrinks
<1>9. Fresh' /\ LogEmpty'
  BY <1>0, <1>1 DEF Fresh, LogEmpty
<1>10. StopReaches'
  <2> SUFFICES ASSUME NEW q \in stopped'
               PROVE  Pending("cancel", q)' \/ cancels'[q] = "cancelled" \/ task'[q].at = "over"
    BY DEF StopReaches
  <2>1. q \in Runs /\ q \in stopped
    BY <1>0, <1>1 DEF TypeOK
  <2>2. CASE Pending("cancel", q)
    <3>1. PICK i \in DOMAIN cmds : cmds[i].cmd = "cancel" /\ cmds[i].run = q
      BY <2>2 DEF Pending
    <3>2. CASE i = 1
      <4>1. q = r
        BY <3>1, <3>2, <1>3
      <4>2. cancels[r] = "absent" => task[r].at = "over"
        BY <1>0, <1>4 DEF Queued
      <4>3. cancels[r] \in {"absent", "live", "cancelled"}
        BY <1>0 DEF TypeOK
      <4>. QED
        BY <4>1, <4>2, <4>3, <1>1, <1>5
    <3>3. CASE i # 1
      BY <3>1, <3>3, <1>2 DEF Pending
    <3>. QED
      BY <3>2, <3>3
  <2>3. CASE cancels[q] = "cancelled"
    BY <2>1, <2>3, <1>5
  <2>4. CASE task[q].at = "over"
    BY <2>4, <1>1
  <2>. QED
    BY <2>1, <2>2, <2>3, <2>4, <1>0 DEF StopReaches
<1>. QED
  BY <1>6, <1>7, <1>8, <1>9, <1>10 DEF ViewInv

-----------------------------------------------------------------------------
(* The queue is as it was, and no task leaves or enters it. *)
LEMMA QueueStays ==
  ASSUME TypeOK, Queued, cmds' = cmds, nextRun' = nextRun,
         \A q \in Runs : /\ task'[q].at = "none" <=> task[q].at = "none"
                         /\ cancels'[q] = "absent" <=> task'[q].at \in {"none", "over"}
                         /\ task'[q].at = "spawned" => task'[q].todo \in Plans
  PROVE  Queued'
<1>1. ASSUME NEW i \in DOMAIN cmds PROVE
        /\ cmds[i].run < nextRun
        /\ cmds[i].cmd = "run" =>
             /\ cmds[i].reqs \in Plans /\ task'[cmds[i].run].at = "none"
             /\ \A j \in DOMAIN cmds :
                  cmds[j].cmd = "run" /\ cmds[j].run = cmds[i].run => i = j
        /\ cmds[i].cmd = "cancel" =>
             \/ task'[cmds[i].run].at # "none"
             \/ \E j \in 1..(i - 1) : cmds[j].cmd = "run" /\ cmds[j].run = cmds[i].run
  <2>1. cmds[i].run \in Runs
    BY CmdsTyped
  <2>2. task'[cmds[i].run].at = "none" <=> task[cmds[i].run].at = "none"
    BY <2>1
  <2>. QED
    BY <2>2 DEF Queued
<1>2. ASSUME NEW q \in Runs PROVE q < nextRun => task'[q].at # "none" \/ Sent(q)
  BY DEF Queued
<1>. QED
  BY <1>1, <1>2 DEF Queued, Sent

(* A task sends event e and is at t from then on. *)
Sends(r, e, t) ==
  /\ e.run = r /\ evts' = Append(evts, e)
  /\ task' = [task EXCEPT ![r] = t]
  /\ task[r].at \in {"spawned", "running"} /\ t.at \in {"running", "ended"}
  /\ UNCHANGED <<nextRun, runState, runLog, tabs, stopped, cmds, cancels, drained>>

Leads(r, e, t) ==
  \A p \in Progress : Sound(p) /\ Reached(task[r], p) =>
    \E n \in Progress : Sound(n) /\ Advances(p, e, n) /\ Reached(t, n)

TaskRecord == [at : {"none", "spawned", "running", "ended", "over"},
               todo : Seq(Reqs), current : SUBSET Reqs]

LEMMA EmitInv ==
  ASSUME ViewInv, NEW r \in Runs, NEW e \in Event, NEW t \in TaskRecord,
         Sends(r, e, t), Leads(r, e, t)
  PROVE  ViewInv'
<1>0. TypeOK /\ Traced /\ Queued /\ Fresh /\ LogEmpty /\ StopReaches
  BY DEF ViewInv
<1>1. /\ nextRun' = nextRun /\ runState' = runState /\ runLog' = runLog /\ tabs' = tabs
      /\ stopped' = stopped /\ drained' = drained /\ cmds' = cmds /\ cancels' = cancels
      /\ e.run = r /\ evts' = Append(evts, e) /\ task' = [task EXCEPT ![r] = t]
      /\ task[r].at \in {"spawned", "running"} /\ t.at \in {"running", "ended"}
  BY DEF Sends
<1>2. /\ task'[r] = t /\ \A q \in Runs : q # r => task'[q] = task[q]
  BY <1>0, <1>1 DEF TypeOK
<1>3. evts \in Seq(Event) /\ evts' \in Seq(Event)
  BY <1>0, <1>1 DEF TypeOK
<1>4. TypeOK'
  BY <1>0, <1>1, <1>3 DEF TypeOK, TaskRecord
<1>5. Traced'
  BY <1>0, <1>1, <1>2, <1>3, TraceGrows DEF Leads
<1>6. r < nextRun
  BY <1>0, <1>1, NoRunIsNone DEF Fresh, TypeOK
<1>7. \A q \in Runs : /\ task'[q].at = "none" <=> task[q].at = "none"
                      /\ task'[q].at = "over" <=> task[q].at = "over"
                      /\ task'[q].at = "spawned" => task'[q] = task[q]
  BY <1>1, <1>2
<1>8. Queued'
  <2>1. \A q \in Runs : /\ cancels'[q] = "absent" <=> task'[q].at \in {"none", "over"}
                        /\ task'[q].at = "spawned" => task'[q].todo \in Plans
    BY <1>0, <1>1, <1>7 DEF Queued
  <2>. QED
    BY <2>1, <1>0, <1>1, <1>7, QueueStays
<1>9. Fresh'
  <2> SUFFICES ASSUME NEW q \in Runs, q >= nextRun
               PROVE  /\ task'[q].at = "none"
                      /\ \A i \in DOMAIN evts' : evts'[i].run # q
    BY <1>0, <1>1 DEF Fresh
  <2>1. q # r /\ task'[q].at = "none" /\ \A i \in DOMAIN evts : evts[i].run # q
    BY <1>0, <1>6, <1>7, NoRunIsNone DEF Fresh, TypeOK
  <2>2. \A i \in DOMAIN evts' : evts'[i] = e \/ (i \in DOMAIN evts /\ evts'[i] = evts[i])
    BY <1>1, <1>3
  <2>. QED
    BY <2>1, <2>2, <1>1
<1>10. LogEmpty'
  BY <1>0, <1>1 DEF LogEmpty
<1>11. StopReaches'
  <2>1. \A q \in stopped : q \in Runs
    BY <1>0 DEF TypeOK
  <2>. QED
    BY <2>1, <1>0, <1>1, <1>7 DEF StopReaches, Pending
<1>. QED
  BY <1>4, <1>5, <1>8, <1>9, <1>10, <1>11 DEF ViewInv

(* What Emits appends. *)
LEMMA Emitted ==
  ASSUME TypeOK, NEW r \in Runs, NEW type \in EventType, NEW req \in SUBSET Reqs,
         Emits(r, type, req)
  PROVE  \E e \in Event : /\ e.run = r /\ e.type = type /\ e.req = req
                          /\ e.total = Len(task[r].todo) /\ evts' = Append(evts, e)
<1>1. Len(task[r].todo) \in Nat
  BY DEF TypeOK
<1>2. [run |-> r, type |-> type, req |-> req, total |-> Len(task[r].todo)] \in Event
  BY <1>1 DEF Event
<1>. QED
  BY <1>2 DEF Emits

LEMMA TaskTyped ==
  ASSUME TypeOK, NEW r \in Runs
  PROVE  /\ task[r] \in TaskRecord /\ task[r].todo \in Seq(Reqs)
         /\ task[r].current \in SUBSET Reqs
         /\ task[r].at \in {"none", "spawned", "running", "ended", "over"}
<1>1. task[r] \in TaskRecord
  BY DEF TypeOK, TaskRecord
<1>. QED
  BY <1>1 DEF TaskRecord

Task(at, todo, current) == [at |-> at, todo |-> todo, current |-> current]

Took(x, v, w) == [x EXCEPT !.current = v, !.todo = w]

LEMMA TaskSet ==
  ASSUME NEW x \in TaskRecord, NEW v
  PROVE  /\ [x EXCEPT !.at = v] = Task(v, x.todo, x.current)
         /\ [x EXCEPT !.current = v] = Task(x.at, x.todo, v)
         /\ [x EXCEPT !.todo = v] = Task(x.at, v, x.current)
<1>1. PICK a, q, c : x = [at |-> a, todo |-> q, current |-> c]
  BY DEF TaskRecord
<1>2. x.at = a /\ x.todo = q /\ x.current = c
  BY <1>1
<1>3. [[at |-> a, todo |-> q, current |-> c] EXCEPT !.at = v] = Task(v, q, c)
  BY DEF Task
<1>4. [[at |-> a, todo |-> q, current |-> c] EXCEPT !.current = v] = Task(a, q, v)
  BY DEF Task
<1>5. [[at |-> a, todo |-> q, current |-> c] EXCEPT !.todo = v] = Task(a, v, c)
  BY DEF Task
<1>. QED
  BY <1>1, <1>2, <1>3, <1>4, <1>5

LEMMA TookSet ==
  ASSUME NEW x \in TaskRecord, NEW v, NEW w
  PROVE  Took(x, v, w) = Task(x.at, w, v)
<1>1. PICK a, q, c : x = [at |-> a, todo |-> q, current |-> c]
  BY DEF TaskRecord
<1>2. x.at = a /\ x.todo = q /\ x.current = c
  BY <1>1
<1> DEFINE y == [at |-> a, todo |-> q, current |-> c]
           z == [y EXCEPT !.current = v, !.todo = w]
<1>3. z = [i \in {"at", "todo", "current"} |->
             IF i = "todo" THEN w ELSE IF i = "current" THEN v ELSE y[i]]
  OBVIOUS
<1>4. z = Task(a, w, v)
  BY <1>3 DEF Task
<1>. QED
  BY <1>1, <1>2, <1>4 DEF Took

LEMMA OneMore ==
  ASSUME NEW a \in Nat, NEW b \in Nat, NEW c \in Nat, a + (b + 1) <= c
  PROVE  a + 1 + b <= c
OBVIOUS

LEMMA FewerLeft ==
  ASSUME NEW a \in Nat, NEW b \in Nat, NEW c \in Nat, NEW d \in Nat, a + b <= c, d <= b
  PROVE  a + d <= c
OBVIOUS

LEMMA TaskRefusesInv ==
  ASSUME ViewInv, NEW r \in Runs, TaskRefuses(r)
  PROVE  ViewInv'
<1>0. TypeOK
  BY DEF ViewInv
<1>1. /\ task[r].at = "spawned" /\ Emits(r, "runFailed", {})
      /\ UNCHANGED <<nextRun, runState, runLog, tabs, stopped, cmds, cancels, drained>>
  BY DEF TaskRefuses, Emits, view
<1>2. PICK e \in Event : /\ e.run = r /\ e.type = "runFailed" /\ evts' = Append(evts, e)
  BY <1>0, <1>1, Emitted DEF EventType
<1>3. PICK t \in TaskRecord :
        t = Task("ended", task[r].todo, task[r].current) /\ task' = [task EXCEPT ![r] = t]
  <2>1. task' = [task EXCEPT ![r] = Task("ended", task[r].todo, task[r].current)]
    <3>1. task' = [task EXCEPT ![r] = [task[r] EXCEPT !.at = "ended"]]
      BY DEF TaskRefuses
    <3>. QED
      BY <3>1, <1>0, TaskTyped, TaskSet
  <2>2. Task("ended", task[r].todo, task[r].current) \in TaskRecord
    BY <1>0, TaskTyped DEF Task, TaskRecord
  <2>. QED
    BY <2>1, <2>2
<1>4. ASSUME NEW p \in Progress, Sound(p), Reached(task[r], p)
      PROVE  \E n \in Progress : Sound(n) /\ Advances(p, e, n) /\ Reached(t, n)
  <2>1. p.at = "idle" /\ task[r].current = {}
    BY <1>1, <1>4 DEF Reached
  <2> DEFINE n == At("ended", {}, p.started, p.finished, p.total)
  <2>2. Advances(p, e, n)
    BY <1>2, <2>1 DEF Advances
  <2>3. n \in Progress /\ Sound(n)
    BY <1>2, <1>4, <2>2, Advanced
  <2>4. Reached(t, n)
    BY <1>3, <2>1 DEF Reached, Task, At
  <2>. QED
    BY <2>2, <2>3, <2>4
<1>5. Sends(r, e, t)
  BY <1>1, <1>2, <1>3, <1>4 DEF Task, Sends
<1>6. Leads(r, e, t)
  BY <1>4 DEF Leads
<1>. QED
  BY <1>5, <1>6, EmitInv

LEMMA TaskStartsInv ==
  ASSUME ViewInv, NEW r \in Runs, TaskStarts(r)
  PROVE  ViewInv'
<1>0. TypeOK /\ Queued
  BY DEF ViewInv
<1>1. /\ task[r].at = "spawned" /\ Emits(r, "runStarted", {})
      /\ UNCHANGED <<nextRun, runState, runLog, tabs, stopped, cmds, cancels, drained>>
  BY DEF TaskStarts, Emits, view
<1>2. PICK e \in Event : /\ e.run = r /\ e.type = "runStarted" /\ evts' = Append(evts, e)
                         /\ e.total = Len(task[r].todo)
  BY <1>0, <1>1, Emitted DEF EventType
<1>3. PICK t \in TaskRecord :
        t = Task("running", task[r].todo, task[r].current) /\ task' = [task EXCEPT ![r] = t]
  <2>1. task' = [task EXCEPT ![r] = Task("running", task[r].todo, task[r].current)]
    <3>1. task' = [task EXCEPT ![r] = [task[r] EXCEPT !.at = "running"]]
      BY DEF TaskStarts
    <3>. QED
      BY <3>1, <1>0, TaskTyped, TaskSet
  <2>2. Task("running", task[r].todo, task[r].current) \in TaskRecord
    BY <1>0, TaskTyped DEF Task, TaskRecord
  <2>. QED
    BY <2>1, <2>2
<1>4. /\ Len(task[r].todo) <= Len(Plan)
      /\ Cardinality(Left(task[r].todo)) <= Cardinality(Reqs \ Off)
      /\ Cardinality(Left(task[r].todo)) \in Nat /\ Len(task[r].todo) \in Nat
  <2>1. task[r].todo \in Plans
    BY <1>0, <1>1 DEF Queued
  <2>. QED
    BY <2>1, LeftFits, LeftFinite
<1>5. ASSUME NEW p \in Progress, Sound(p), Reached(task[r], p)
      PROVE  \E n \in Progress : Sound(n) /\ Advances(p, e, n) /\ Reached(t, n)
  <2>1. p.at = "idle" /\ task[r].current = {} /\ p.started = 0
    BY <1>1, <1>5 DEF Reached, Sound
  <2> DEFINE n == At("between", {}, p.started, p.finished, e.total)
  <2>2. Advances(p, e, n)
    BY <1>2, <2>1 DEF Advances
  <2>3. n \in Progress /\ Sound(n)
    BY <1>2, <1>4, <1>5, <2>2, Advanced
  <2>4. Reached(t, n)
    <3>1. /\ t.at = "running" /\ t.current = {} /\ t.todo = task[r].todo
          /\ n.at = "between" /\ n.started = 0 /\ n.total = Len(task[r].todo)
      BY <1>2, <1>3, <2>1 DEF Task, At
    <3> HIDE DEF n
    <3>. QED
      BY <3>1, <1>4 DEF Reached
  <2>. QED
    BY <2>2, <2>3, <2>4
<1>6. Sends(r, e, t)
  BY <1>1, <1>2, <1>3, <1>5 DEF Task, Sends
<1>7. Leads(r, e, t)
  BY <1>5 DEF Leads
<1>. QED
  BY <1>6, <1>7, EmitInv

LEMMA TaskBeginsInv ==
  ASSUME ViewInv, NEW r \in Runs, TaskBegins(r)
  PROVE  ViewInv'
<1>0. TypeOK
  BY DEF ViewInv
<1>1. /\ task[r].at = "running" /\ task[r].current = {} /\ task[r].todo # <<>>
      /\ Head(task[r].todo) \notin Off /\ Emits(r, "requestStarted", {Head(task[r].todo)})
      /\ UNCHANGED <<nextRun, runState, runLog, tabs, stopped, cmds, cancels, drained>>
  BY DEF TaskBegins, Due, Passes, Emits, view
<1>2. PICK h \in Reqs, d \in Seq(Reqs) : h = Head(task[r].todo) /\ d = Tail(task[r].todo)
  BY <1>0, <1>1, TaskTyped, LeftTail
<1>3. PICK e \in Event : /\ e.run = r /\ e.type = "requestStarted" /\ evts' = Append(evts, e)
                         /\ e.req = {h}
  BY <1>0, <1>1, <1>2, Emitted DEF EventType
<1>4. PICK t \in TaskRecord :
        t = Task("running", d, {h}) /\ task' = [task EXCEPT ![r] = t]
  <2>1. task' = [task EXCEPT ![r] = Task("running", d, {h})]
    <3>1. task' = [task EXCEPT ![r] = Took(task[r], {h}, d)]
      BY <1>2 DEF TaskBegins, Took
    <3>. QED
      <4>1. Took(task[r], {h}, d) = Task(task[r].at, d, {h})
        BY <1>0, TaskTyped, TookSet
      <4>. QED
        BY <3>1, <4>1, <1>1
  <2>2. Task("running", d, {h}) \in TaskRecord
    BY DEF Task, TaskRecord
  <2>. QED
    BY <2>1, <2>2
<1>5. /\ Cardinality(Left(task[r].todo)) = Cardinality(Left(d)) + 1
      /\ Len(d) = Len(task[r].todo) - 1 /\ Len(task[r].todo) \in Nat
      /\ Cardinality(Left(task[r].todo)) \in Nat /\ Len(d) \in Nat
      /\ Cardinality(Left(d)) \in Nat /\ Cardinality(Reqs \ Off) \in Nat
  BY <1>0, <1>1, <1>2, TaskTyped, LeftTail, LeftFinite, ReqsFinite
<1>6. ASSUME NEW p \in Progress, Sound(p), Reached(task[r], p)
      PROVE  \E n \in Progress : Sound(n) /\ Advances(p, e, n) /\ Reached(t, n)
  <2>1. /\ p.at = "between" /\ p.started \in Nat /\ p.total \in Nat
        /\ p.started + Cardinality(Left(task[r].todo)) <= Cardinality(Reqs \ Off)
        /\ p.started + Len(task[r].todo) <= p.total
    BY <1>1, <1>6 DEF Reached, Progress
  <2> DEFINE n == At("inside", e.req, p.started + 1, p.finished, p.total)
  <2>2. Advances(p, e, n)
    BY <1>3, <2>1 DEF Advances
  <2>3. /\ p.started + 1 + Cardinality(Left(d)) <= Cardinality(Reqs \ Off)
        /\ p.started + 1 + Len(d) <= p.total
    <3>1. Len(task[r].todo) = Len(d) + 1
      BY <1>5
    <3>2. p.started + (Len(d) + 1) <= p.total
      BY <3>1, <2>1
    <3>3. p.started + (Cardinality(Left(d)) + 1) <= Cardinality(Reqs \ Off)
      BY <1>5, <2>1
    <3> HIDE DEF n
    <3>. QED
      BY <3>2, <3>3, <2>1, <1>5, OneMore
  <2>4. Cardinality(e.req) = 1
    BY <1>3, FS_Singleton
  <2>5. p.started + 1 <= Cardinality(Reqs \ Off) /\ p.started + 1 <= p.total
    BY <1>5, <2>1, <2>3
  <2>6. n \in Progress /\ Sound(n)
    BY <1>3, <1>6, <2>2, <2>4, <2>5, Advanced
  <2>7. Reached(t, n)
    <3>1. /\ t.at = "running" /\ t.current = {h} /\ t.todo = d /\ n.req = {h}
          /\ n.at = "inside" /\ n.started = p.started + 1 /\ n.total = p.total
      BY <1>3, <1>4 DEF Task, At
    <3> HIDE DEF n
    <3>. QED
      BY <3>1, <2>3 DEF Reached
  <2>. QED
    BY <2>2, <2>6, <2>7
<1>7. Sends(r, e, t)
  BY <1>1, <1>3, <1>4, <1>6 DEF Task, Sends
<1>8. Leads(r, e, t)
  BY <1>6 DEF Leads
<1>. QED
  BY <1>7, <1>8, EmitInv

LEMMA TaskConcludesInv ==
  ASSUME ViewInv, NEW r \in Runs, TaskConcludes(r)
  PROVE  ViewInv'
<1>0. TypeOK /\ Traced
  BY DEF ViewInv
<1>1. /\ task[r].current # {} /\ Emits(r, "requestFinished", task[r].current)
      /\ UNCHANGED <<nextRun, runState, runLog, tabs, stopped, cmds, cancels, drained>>
  BY DEF TaskConcludes, Emits, view
<1>2. PICK e \in Event : /\ e.run = r /\ e.type = "requestFinished" /\ evts' = Append(evts, e)
                         /\ e.req = task[r].current
  BY <1>0, <1>1, TaskTyped, Emitted DEF EventType
<1>3. task[r].at = "running"
  <2>1. PICK ph \in [1..(Len(evts) + 1) -> [Runs -> Progress]] : Traces(ph)
    BY <1>0 DEF Traced
  <2>. QED
    BY <1>1, <2>1 DEF Traces, Reached
<1>4. PICK t \in TaskRecord :
        t = Task("running", task[r].todo, {}) /\ task' = [task EXCEPT ![r] = t]
  <2>1. task' = [task EXCEPT ![r] = Task("running", task[r].todo, {})]
    <3>1. task' = [task EXCEPT ![r] = [task[r] EXCEPT !.current = {}]]
      BY DEF TaskConcludes
    <3>. QED
      <4>1. [task[r] EXCEPT !.current = {}] = Task(task[r].at, task[r].todo, {})
        BY <1>0, TaskTyped, TaskSet
      <4>. QED
        BY <3>1, <4>1, <1>3
  <2>2. Task("running", task[r].todo, {}) \in TaskRecord
    BY <1>0, TaskTyped DEF Task, TaskRecord
  <2>. QED
    BY <2>1, <2>2
<1>5. ASSUME NEW p \in Progress, Sound(p), Reached(task[r], p)
      PROVE  \E n \in Progress : Sound(n) /\ Advances(p, e, n) /\ Reached(t, n)
  <2>1. /\ p.at = "inside" /\ p.req = task[r].current
        /\ p.started + Cardinality(Left(task[r].todo)) <= Cardinality(Reqs \ Off)
        /\ p.started + Len(task[r].todo) <= p.total
    BY <1>1, <1>3, <1>5 DEF Reached
  <2> DEFINE n == At("between", {}, p.started, p.finished + 1, p.total)
  <2>2. Advances(p, e, n)
    BY <1>2, <2>1 DEF Advances
  <2>3. n \in Progress /\ Sound(n)
    BY <1>2, <1>5, <2>2, Advanced
  <2>4. Reached(t, n)
    <3>1. /\ t.at = "running" /\ t.current = {} /\ t.todo = task[r].todo
          /\ n.at = "between" /\ n.started = p.started /\ n.total = p.total
      BY <1>4 DEF Task, At
    <3> HIDE DEF n
    <3>. QED
      BY <3>1, <2>1 DEF Reached
  <2>. QED
    BY <2>2, <2>3, <2>4
<1>6. Sends(r, e, t)
  BY <1>1, <1>2, <1>3, <1>4, <1>5 DEF Task, Sends
<1>7. Leads(r, e, t)
  BY <1>5 DEF Leads
<1>. QED
  BY <1>6, <1>7, EmitInv

LEMMA TaskFinishesInv ==
  ASSUME ViewInv, NEW r \in Runs, TaskFinishes(r)
  PROVE  ViewInv'
<1>0. TypeOK
  BY DEF ViewInv
<1>1. /\ task[r].at = "running" /\ task[r].current = {} /\ Emits(r, "runFinished", {})
      /\ UNCHANGED <<nextRun, runState, runLog, tabs, stopped, cmds, cancels, drained>>
  BY DEF TaskFinishes, Emits, view
<1>2. PICK e \in Event : /\ e.run = r /\ e.type = "runFinished" /\ evts' = Append(evts, e)
  BY <1>0, <1>1, Emitted DEF EventType
<1>3. PICK t \in TaskRecord :
        t = Task("ended", task[r].todo, task[r].current) /\ task' = [task EXCEPT ![r] = t]
  <2>1. task' = [task EXCEPT ![r] = Task("ended", task[r].todo, task[r].current)]
    <3>1. task' = [task EXCEPT ![r] = [task[r] EXCEPT !.at = "ended"]]
      BY DEF TaskFinishes
    <3>. QED
      BY <3>1, <1>0, TaskTyped, TaskSet
  <2>2. Task("ended", task[r].todo, task[r].current) \in TaskRecord
    BY <1>0, TaskTyped DEF Task, TaskRecord
  <2>. QED
    BY <2>1, <2>2
<1>4. ASSUME NEW p \in Progress, Sound(p), Reached(task[r], p)
      PROVE  \E n \in Progress : Sound(n) /\ Advances(p, e, n) /\ Reached(t, n)
  <2>1. p.at = "between"
    BY <1>1, <1>4 DEF Reached
  <2> DEFINE n == At("ended", {}, p.started, p.finished, p.total)
  <2>2. Advances(p, e, n)
    BY <1>2, <2>1 DEF Advances
  <2>3. n \in Progress /\ Sound(n)
    BY <1>2, <1>4, <2>2, Advanced
  <2>4. Reached(t, n)
    BY <1>1, <1>3 DEF Reached, Task, At
  <2>. QED
    BY <2>2, <2>3, <2>4
<1>5. Sends(r, e, t)
  BY <1>1, <1>2, <1>3, <1>4 DEF Task, Sends
<1>6. Leads(r, e, t)
  BY <1>4 DEF Leads
<1>. QED
  BY <1>5, <1>6, EmitInv

LEMMA TaskSkipsInv ==
  ASSUME ViewInv, NEW r \in Runs, TaskSkips(r)
  PROVE  ViewInv'
<1>0. TypeOK /\ Traced /\ Queued /\ Fresh /\ LogEmpty /\ StopReaches
  BY DEF ViewInv
<1>1. /\ task[r].at = "running" /\ task[r].current = {} /\ task[r].todo # <<>>
      /\ task' = [task EXCEPT ![r].todo = Tail(task[r].todo)]
      /\ nextRun' = nextRun /\ runState' = runState /\ runLog' = runLog /\ tabs' = tabs
      /\ stopped' = stopped /\ drained' = drained /\ cmds' = cmds /\ cancels' = cancels
      /\ evts' = evts
  BY DEF TaskSkips, Due, view
<1>2. PICK d \in Seq(Reqs) : d = Tail(task[r].todo)
  BY <1>0, <1>1, TaskTyped, LeftTail
<1>3. /\ Cardinality(Left(d)) <= Cardinality(Left(task[r].todo))
      /\ Len(d) <= Len(task[r].todo) /\ Len(task[r].todo) \in Nat
      /\ Cardinality(Left(task[r].todo)) \in Nat /\ Len(d) \in Nat
      /\ Cardinality(Left(d)) \in Nat /\ Cardinality(Reqs \ Off) \in Nat
  <2>1. task[r].todo \in Seq(Reqs)
    BY <1>0, TaskTyped
  <2>2. /\ Cardinality(Left(d)) <= Cardinality(Left(task[r].todo))
        /\ Len(d) = Len(task[r].todo) - 1 /\ Len(task[r].todo) \in Nat
    BY <2>1, <1>1, <1>2, LeftTail, LeftFinite
  <2>3. /\ Cardinality(Left(task[r].todo)) \in Nat /\ Len(d) \in Nat
        /\ Cardinality(Left(d)) \in Nat /\ Cardinality(Reqs \ Off) \in Nat
    BY <2>1, LeftFinite, ReqsFinite
  <2>. QED
    BY <2>2, <2>3
<1>4. PICK t \in TaskRecord : t = Task("running", d, {}) /\ task' = [task EXCEPT ![r] = t]
  <2>1. Task("running", d, {}) \in TaskRecord
    BY DEF Task, TaskRecord
  <2>2. [task[r] EXCEPT !.todo = d] = Task(task[r].at, d, task[r].current)
    BY <1>0, TaskTyped, TaskSet
  <2>3. [task[r] EXCEPT !.todo = d] = Task("running", d, {})
    BY <2>2, <1>1
  <2>4. task' = [task EXCEPT ![r] = [task[r] EXCEPT !.todo = d]]
    BY <1>1, <1>2
  <2>. QED
    BY <2>1, <2>3, <2>4
<1>5. /\ task'[r] = t /\ \A q \in Runs : q # r => task'[q] = task[q]
      /\ t.at = "running" /\ t.todo = d /\ t.current = {}
  BY <1>0, <1>4 DEF TypeOK, Task
<1>6. TypeOK'
  <2>1. task \in [Runs -> TaskRecord]
    BY <1>0 DEF TypeOK, TaskRecord
  <2>2. task' \in [Runs -> TaskRecord]
    BY <2>1, <1>4
  <2>. QED
    BY <2>2, <1>0, <1>1 DEF TypeOK, TaskRecord
<1>7. Traced'
  <2>1. \A q \in Runs, p \in Progress : Sound(p) /\ Shown(q, p) => Shown(q, p)'
    BY <1>1 DEF Shown, Ended
  <2>2. ASSUME NEW q \in Runs, NEW p \in Progress, Reached(task[q], p)
        PROVE  Reached(task'[q], p)
    <3>1. CASE q = r
      <4>1. /\ p.at = "between" /\ p.started \in Nat /\ p.total \in Nat
            /\ p.started + Cardinality(Left(task[r].todo)) <= Cardinality(Reqs \ Off)
            /\ p.started + Len(task[r].todo) <= p.total
        BY <3>1, <2>2, <1>1 DEF Reached, Progress
      <4>2. /\ p.started + Cardinality(Left(d)) <= Cardinality(Reqs \ Off)
            /\ p.started + Len(d) <= p.total
        BY <4>1, <1>3, FewerLeft
      <4>. QED
        BY <3>1, <4>1, <4>2, <1>5 DEF Reached
    <3>2. CASE q # r
      BY <3>2, <2>2, <1>5
    <3>. QED
      BY <3>1, <3>2
  <2>. QED
    BY <1>0, <1>1, <2>1, <2>2, TraceStays
<1>8. \A q \in Runs : task'[q].at = task[q].at
  BY <1>1, <1>5
<1>9. Queued'
  <2>1. \A q \in Runs : /\ cancels'[q] = "absent" <=> task'[q].at \in {"none", "over"}
                        /\ task'[q].at = "spawned" => task'[q].todo \in Plans
    BY <1>0, <1>1, <1>5, <1>8 DEF Queued
  <2>. QED
    BY <2>1, <1>0, <1>1, <1>8, QueueStays
<1>10. Fresh' /\ LogEmpty'
  BY <1>0, <1>1, <1>8 DEF Fresh, LogEmpty
<1>11. StopReaches'
  <2>1. \A q \in stopped : q \in Runs
    BY <1>0 DEF TypeOK
  <2>. QED
    BY <2>1, <1>0, <1>1, <1>8 DEF StopReaches, Pending
<1>. QED
  BY <1>6, <1>7, <1>9, <1>10, <1>11 DEF ViewInv

LEMMA TaskUnregistersInv ==
  ASSUME ViewInv, NEW r \in Runs, TaskUnregisters(r)
  PROVE  ViewInv'
<1>0. TypeOK /\ Traced /\ Queued /\ Fresh /\ LogEmpty /\ StopReaches
  BY DEF ViewInv
<1>1. /\ task[r].at = "ended" /\ task' = [task EXCEPT ![r].at = "over"]
      /\ cancels' = [cancels EXCEPT ![r] = "absent"]
      /\ nextRun' = nextRun /\ runState' = runState /\ runLog' = runLog /\ tabs' = tabs
      /\ stopped' = stopped /\ drained' = drained /\ cmds' = cmds /\ evts' = evts
  BY DEF TaskUnregisters, view
<1>2. PICK t \in TaskRecord : /\ t = Task("over", task[r].todo, task[r].current)
                              /\ task' = [task EXCEPT ![r] = t]
  <2>1. Task("over", task[r].todo, task[r].current) \in TaskRecord
    BY <1>0, TaskTyped DEF Task, TaskRecord
  <2>2. task' = [task EXCEPT ![r] = [task[r] EXCEPT !.at = "over"]]
    BY <1>1
  <2>. QED
    <3>1. [task[r] EXCEPT !.at = "over"] = Task("over", task[r].todo, task[r].current)
      BY <1>0, TaskTyped, TaskSet
    <3>. QED
      BY <2>1, <2>2, <3>1
<1>3. /\ task'[r] = t /\ \A q \in Runs : q # r => task'[q] = task[q]
      /\ t.at = "over" /\ t.todo = task[r].todo /\ t.current = task[r].current
  BY <1>0, <1>2 DEF TypeOK, Task
<1>4. cancels'[r] = "absent" /\ \A q \in Runs : q # r => cancels'[q] = cancels[q]
  BY <1>0, <1>1 DEF TypeOK
<1>5. TypeOK'
  <2>1. task \in [Runs -> TaskRecord]
    BY <1>0 DEF TypeOK, TaskRecord
  <2>2. task' \in [Runs -> TaskRecord]
    BY <2>1, <1>2
  <2>3. cancels' \in [Runs -> {"absent", "live", "cancelled"}]
    BY <1>0, <1>1 DEF TypeOK
  <2>. QED
    BY <2>2, <2>3, <1>0, <1>1 DEF TypeOK, TaskRecord
<1>6. Traced'
  <2>1. \A q \in Runs, p \in Progress : Sound(p) /\ Shown(q, p) => Shown(q, p)'
    BY <1>1 DEF Shown, Ended
  <2>2. ASSUME NEW q \in Runs, NEW p \in Progress, Reached(task[q], p)
        PROVE  Reached(task'[q], p)
    <3>1. CASE q = r
      BY <3>1, <2>2, <1>1, <1>3 DEF Reached
    <3>2. CASE q # r
      BY <3>2, <2>2, <1>3
    <3>. QED
      BY <3>1, <3>2
  <2>. QED
    BY <1>0, <1>1, <2>1, <2>2, TraceStays
<1>7. \A q \in Runs : /\ task'[q].at = "none" <=> task[q].at = "none"
                      /\ task'[q].at = "spawned" => task'[q] = task[q]
                      /\ cancels'[q] = "absent" <=> task'[q].at \in {"none", "over"}
  <2> SUFFICES ASSUME NEW q \in Runs
               PROVE  /\ task'[q].at = "none" <=> task[q].at = "none"
                      /\ task'[q].at = "spawned" => task'[q] = task[q]
                      /\ cancels'[q] = "absent" <=> task'[q].at \in {"none", "over"}
    OBVIOUS
  <2>1. CASE q = r
    BY <2>1, <1>1, <1>3, <1>4
  <2>2. CASE q # r
    BY <2>2, <1>0, <1>3, <1>4 DEF Queued
  <2>. QED
    BY <2>1, <2>2
<1>8. Queued'
  <2>1. \A q \in Runs : task'[q].at = "spawned" => task'[q].todo \in Plans
    BY <1>0, <1>7 DEF Queued
  <2>. QED
    BY <2>1, <1>0, <1>1, <1>7, QueueStays
<1>9. Fresh' /\ LogEmpty'
  BY <1>0, <1>1, <1>7 DEF Fresh, LogEmpty
<1>10. StopReaches'
  <2> SUFFICES ASSUME NEW q \in stopped
               PROVE  Pending("cancel", q) \/ cancels'[q] = "cancelled" \/ task'[q].at = "over"
    BY <1>1 DEF StopReaches, Pending
  <2>1. q \in Runs
    BY <1>0 DEF TypeOK
  <2>2. CASE q = r
    BY <2>2, <1>3
  <2>3. CASE q # r
    BY <2>1, <2>3, <1>0, <1>3, <1>4 DEF StopReaches
  <2>. QED
    BY <2>2, <2>3
<1>. QED
  BY <1>5, <1>6, <1>8, <1>9, <1>10 DEF ViewInv

-----------------------------------------------------------------------------
(* What the progress and the log become of an event, by its type. *)
LEMMA ProgressStep ==
  ASSUME TypeOK, NEW e \in Event
  PROVE  /\ runState.run # e.run => ProgressAfter(e) = runState
         /\ runState.run = e.run /\ e.type = "runStarted" =>
              ProgressAfter(e) = [run |-> e.run, total |-> e.total,
                                  completed |-> runState.completed]
         /\ runState.run = e.run /\ e.type = "requestStarted" => ProgressAfter(e) = runState
         /\ runState.run = e.run /\ e.type = "requestFinished" =>
              ProgressAfter(e) = [run |-> e.run, total |-> runState.total,
                                  completed |-> runState.completed + 1]
         /\ runState.run = e.run /\ e.type \in {"runFinished", "runFailed"} =>
              ProgressAfter(e) = [run |-> NoRun, total |-> runState.total,
                                  completed |-> runState.completed]
<1>1. PICK x, y, z : runState = [run |-> x, total |-> y, completed |-> z]
  BY DEF TypeOK
<1>2. runState.run = x /\ runState.total = y /\ runState.completed = z
  BY <1>1
<1>3. /\ [runState EXCEPT !.total = e.total] = [run |-> x, total |-> e.total, completed |-> z]
      /\ [runState EXCEPT !.completed = @ + 1] = [run |-> x, total |-> y, completed |-> z + 1]
      /\ [runState EXCEPT !.run = NoRun] = [run |-> NoRun, total |-> y, completed |-> z]
  BY <1>1
<1>4. CASE runState.run # e.run
  BY <1>4 DEF ProgressAfter
<1>5. CASE runState.run = e.run /\ e.type = "runStarted"
  BY <1>2, <1>3, <1>5 DEF ProgressAfter
<1>6. CASE runState.run = e.run /\ e.type = "requestStarted"
  BY <1>6 DEF ProgressAfter
<1>7. CASE runState.run = e.run /\ e.type = "requestFinished"
  BY <1>2, <1>3, <1>7 DEF ProgressAfter
<1>8. CASE runState.run = e.run /\ e.type \in {"runFinished", "runFailed"}
  BY <1>2, <1>3, <1>8 DEF ProgressAfter
<1>9. e.type \in EventType
  BY DEF Event
<1>10. \/ runState.run # e.run
       \/ runState.run = e.run /\ e.type = "runStarted"
       \/ runState.run = e.run /\ e.type = "requestStarted"
       \/ runState.run = e.run /\ e.type = "requestFinished"
       \/ runState.run = e.run /\ e.type \in {"runFinished", "runFailed"}
  BY <1>9 DEF EventType
<1>. QED
  BY <1>4, <1>5, <1>6, <1>7, <1>8, <1>10

LEMMA LogStep ==
  ASSUME TypeOK, NEW e \in Event
  PROVE  /\ e.type = "runStarted" =>
              LogAfter(e) = [run |-> e.run, completed |-> 0, running |-> {}]
         /\ runLog.run # e.run /\ e.type # "runStarted" => LogAfter(e) = runLog
         /\ runLog.run = e.run /\ e.type = "requestStarted" =>
              LogAfter(e) = [run |-> e.run, completed |-> runLog.completed,
                             running |-> runLog.running \cup e.req]
         /\ runLog.run = e.run /\ e.type = "requestFinished" =>
              LogAfter(e) = [run |-> e.run, completed |-> runLog.completed + 1,
                             running |-> runLog.running \ e.req]
         /\ runLog.run = e.run /\ e.type \in {"runFinished", "runFailed"} =>
              LogAfter(e) = [run |-> NoRun, completed |-> runLog.completed, running |-> {}]
<1>1. PICK x, y, z : runLog = [run |-> x, completed |-> y, running |-> z]
  BY DEF TypeOK
<1>2. runLog.run = x /\ runLog.completed = y /\ runLog.running = z
  BY <1>1
<1>3. /\ [runLog EXCEPT !.running = @ \cup e.req]
           = [run |-> x, completed |-> y, running |-> z \cup e.req]
      /\ [runLog EXCEPT !.running = @ \ e.req, !.completed = @ + 1]
           = [run |-> x, completed |-> y + 1, running |-> z \ e.req]
      /\ [runLog EXCEPT !.run = NoRun, !.running = {}]
           = [run |-> NoRun, completed |-> y, running |-> {}]
  <2> DEFINE L == [run |-> x, completed |-> y, running |-> z]
  <2>1. [L EXCEPT !.running = z \cup e.req]
           = [run |-> x, completed |-> y, running |-> z \cup e.req]
    <3>1. [L EXCEPT !.running = z \cup e.req]
            = [i \in {"run", "completed", "running"} |->
                 IF i = "running" THEN z \cup e.req ELSE L[i]]
      OBVIOUS
    <3>. QED
      BY <3>1
  <2>2. [L EXCEPT !.running = z \ e.req, !.completed = y + 1]
           = [i \in {"run", "completed", "running"} |->
                IF i = "completed" THEN y + 1 ELSE IF i = "running" THEN z \ e.req ELSE L[i]]
    OBVIOUS
  <2>3. [L EXCEPT !.running = z \ e.req, !.completed = y + 1]
           = [run |-> x, completed |-> y + 1, running |-> z \ e.req]
    BY <2>2
  <2>4. [L EXCEPT !.run = NoRun, !.running = {}]
           = [i \in {"run", "completed", "running"} |->
                IF i = "running" THEN {} ELSE IF i = "run" THEN NoRun ELSE L[i]]
    OBVIOUS
  <2>5. [L EXCEPT !.run = NoRun, !.running = {}]
           = [run |-> NoRun, completed |-> y, running |-> {}]
    BY <2>4
  <2>. QED
    BY <1>1, <1>2, <2>1, <2>3, <2>5
<1>4. [NoLog EXCEPT !.run = e.run] = [run |-> e.run, completed |-> 0, running |-> {}]
  BY DEF NoLog
<1>5. CASE e.type = "runStarted"
  <2>1. [NoLog EXCEPT !.run = e.run].run = e.run
    BY <1>4
  <2>. QED
    BY <1>4, <1>5, <2>1 DEF LogAfter, Applied
<1>6. CASE e.type # "runStarted" /\ runLog.run # e.run
  BY <1>6 DEF LogAfter, Applied
<1>7. CASE e.type = "requestStarted" /\ runLog.run = e.run
  BY <1>2, <1>3, <1>7 DEF LogAfter, Applied
<1>8. CASE e.type = "requestFinished" /\ runLog.run = e.run
  BY <1>2, <1>3, <1>8 DEF LogAfter, Applied
<1>9. CASE e.type \in {"runFinished", "runFailed"} /\ runLog.run = e.run
  BY <1>2, <1>3, <1>9 DEF LogAfter, Applied
<1>10. e.type \in EventType
  BY DEF Event
<1>11. \/ e.type = "runStarted"
       \/ e.type # "runStarted" /\ runLog.run # e.run
       \/ e.type = "requestStarted" /\ runLog.run = e.run
       \/ e.type = "requestFinished" /\ runLog.run = e.run
       \/ e.type \in {"runFinished", "runFailed"} /\ runLog.run = e.run
  BY <1>10 DEF EventType
<1>. QED
  BY <1>5, <1>6, <1>7, <1>8, <1>9, <1>11

(* Handling the first event, the rest of the state. *)
LEMMA Drains ==
  ASSUME TypeOK, Drain, NEW e \in Event, e = Head(evts)
  PROVE  /\ runLog' = LogAfter(e) /\ runState' = ProgressAfter(e)
         /\ tabs' \in [Reqs -> Runs \cup {NoRun}]
         /\ \A q \in Reqs : tabs'[q] = tabs[q] \/ tabs'[q] = NoRun
         /\ drained' \in [Runs -> [EventType -> Nat]]
         /\ \A r \in Runs : r # e.run => drained'[r] = drained[r]
         /\ drained'[e.run][e.type] = drained[e.run][e.type] + 1
         /\ \A t \in EventType : t # e.type => drained'[e.run][t] = drained[e.run][t]
         /\ \A t \in EventType : drained[e.run][t] \in Nat
         /\ nextRun' = nextRun /\ stopped' = stopped /\ cmds' = cmds /\ cancels' = cancels
         /\ task' = task /\ evts' = Tail(evts) /\ evts # <<>>
<1>1. /\ runLog' = LogAfter(e) /\ runState' = ProgressAfter(e)
      /\ tabs' = [q \in Reqs |-> TabAfter(q, e)]
      /\ drained' = [drained EXCEPT ![e.run] = [drained[e.run] EXCEPT ![e.type] = @ + 1]]
      /\ nextRun' = nextRun /\ stopped' = stopped /\ cmds' = cmds /\ cancels' = cancels
      /\ task' = task /\ evts' = Tail(evts) /\ evts # <<>>
  BY DEF Drain
<1>2. e.run \in Runs /\ e.type \in EventType
  BY DEF Event, EventType
<1>3. drained \in [Runs -> [EventType -> Nat]] /\ drained[e.run] \in [EventType -> Nat]
  BY <1>2 DEF TypeOK
<1>4. PICK d \in [EventType -> Nat] :
        /\ d = [drained[e.run] EXCEPT ![e.type] = @ + 1]
        /\ d[e.type] = drained[e.run][e.type] + 1
        /\ \A t \in EventType : t # e.type => d[t] = drained[e.run][t]
  <2>1. drained[e.run][e.type] + 1 \in Nat
    BY <1>2, <1>3
  <2> DEFINE d == [drained[e.run] EXCEPT ![e.type] = drained[e.run][e.type] + 1]
  <2>2. /\ d \in [EventType -> Nat] /\ d[e.type] = drained[e.run][e.type] + 1
        /\ \A t \in EventType : t # e.type => d[t] = drained[e.run][t]
    BY <1>2, <1>3, <2>1
  <2>. QED
    BY <2>2
<1>5. /\ drained' \in [Runs -> [EventType -> Nat]] /\ drained'[e.run] = d
      /\ \A r \in Runs : r # e.run => drained'[r] = drained[r]
  BY <1>1, <1>2, <1>3, <1>4
<1>6. \A q \in Reqs : TabAfter(q, e) = tabs[q] \/ TabAfter(q, e) = NoRun
  BY DEF TabAfter
<1>7. tabs' \in [Reqs -> Runs \cup {NoRun}]
  BY <1>1, <1>6 DEF TypeOK
<1>. QED
  BY <1>1, <1>3, <1>4, <1>5, <1>6, <1>7

(* What is shown of the run whose event is handled is what the event led to. *)
LEMMA ShownAdvances ==
  ASSUME TypeOK, Drain, NEW e \in Event, e = Head(evts),
         NEW p \in Progress, NEW n \in Progress, Sound(p), Sound(n), Shown(e.run, p),
         Advances(p, e, n)
  PROVE  Shown(e.run, n)'
<1>0. NoRun \notin Runs /\ e.run \in Runs /\ e.run # NoRun
  BY NoRunIsNone DEF Event
<1>1. /\ runLog' = LogAfter(e) /\ runState' = ProgressAfter(e)
      /\ drained'[e.run][e.type] = drained[e.run][e.type] + 1
      /\ \A t \in EventType : t # e.type => drained'[e.run][t] = drained[e.run][t]
      /\ \A t \in EventType : drained[e.run][t] \in Nat
  BY Drains
<1>2. /\ drained[e.run]["requestStarted"] = p.started
      /\ drained[e.run]["requestFinished"] = p.finished
      /\ drained[e.run]["runFinished"] + drained[e.run]["runFailed"] > 0 <=> p.at = "ended"
      /\ p.at = "idle" => drained[e.run]["runStarted"] = 0
      /\ p.at \in {"between", "inside"} => drained[e.run]["runStarted"] # 0
      /\ runState.run = e.run => /\ p.at # "ended" /\ runState.completed = p.finished
                                 /\ p.at # "idle" => runState.total = p.total
      /\ runLog.run = e.run => /\ p.at # "ended" /\ runLog.completed = p.finished
                               /\ runLog.running = p.req
  BY DEF Shown, Ended
<1>3. /\ p.started \in Nat /\ p.finished \in Nat
      /\ p.at # "inside" => p.req = {} /\ p.started = p.finished
      /\ p.at = "idle" => p.started = 0
  BY DEF Sound, Progress
<1>4. /\ "requestStarted" \in EventType /\ "requestFinished" \in EventType
      /\ "runStarted" \in EventType /\ "runFinished" \in EventType /\ "runFailed" \in EventType
  BY DEF EventType
<1> DEFINE Fit ==
      /\ drained'[e.run]["requestStarted"] = n.started
      /\ drained'[e.run]["requestFinished"] = n.finished
      /\ drained'[e.run]["runFinished"] + drained'[e.run]["runFailed"] > 0 <=> n.at = "ended"
      /\ n.at = "idle" => drained'[e.run]["runStarted"] = 0
      /\ n.at \in {"between", "inside"} => drained'[e.run]["runStarted"] # 0
      /\ runState'.run = e.run => /\ n.at # "ended" /\ runState'.completed = n.finished
                                  /\ n.at # "idle" => runState'.total = n.total
      /\ runLog'.run = e.run => /\ n.at # "ended" /\ runLog'.completed = n.finished
                                /\ runLog'.running = n.req
<1> SUFFICES Fit
  BY DEF Shown, Ended
<1>5. CASE /\ e.type = "runStarted" /\ p.at = "idle"
           /\ n = At("between", {}, p.started, p.finished, e.total)
  <2>1. /\ n.at = "between" /\ n.req = {} /\ n.started = 0 /\ n.finished = 0
        /\ n.total = e.total
    BY <1>3, <1>5 DEF At
  <2>2. /\ drained'[e.run]["runStarted"] = 1
        /\ drained'[e.run]["requestStarted"] = 0 /\ drained'[e.run]["requestFinished"] = 0
        /\ drained'[e.run]["runFinished"] = drained[e.run]["runFinished"]
        /\ drained'[e.run]["runFailed"] = drained[e.run]["runFailed"]
    BY <1>1, <1>2, <1>3, <1>4, <1>5
  <2>3. runState'.run = e.run => runState'.completed = 0 /\ runState'.total = e.total
    BY <1>1, <1>2, <1>3, <1>5, ProgressStep
  <2>4. runLog'.completed = 0 /\ runLog'.running = {}
    BY <1>1, <1>5, LogStep
  <2>. QED
    BY <1>2, <1>5, <2>1, <2>2, <2>3, <2>4
<1>6. CASE /\ e.type \in {"runFailed", "runFinished"} /\ p.at \in {"idle", "between"}
           /\ n = At("ended", {}, p.started, p.finished, p.total)
  <2>1. n.at = "ended" /\ n.started = p.started /\ n.finished = p.finished
    BY <1>6 DEF At
  <2>2. /\ drained'[e.run]["requestStarted"] = p.started
        /\ drained'[e.run]["requestFinished"] = p.finished
    BY <1>1, <1>2, <1>4, <1>6
  <2>3. drained'[e.run]["runFinished"] + drained'[e.run]["runFailed"] > 0
    BY <1>1, <1>4, <1>6
  <2>4. runState'.run # e.run
    BY <1>0, <1>1, <1>6, ProgressStep
  <2>5. runLog'.run # e.run
    BY <1>0, <1>1, <1>6, LogStep
  <2>. QED
    BY <2>1, <2>2, <2>3, <2>4, <2>5
<1>7. CASE /\ e.type = "requestStarted" /\ p.at = "between"
           /\ n = At("inside", e.req, p.started + 1, p.finished, p.total)
  <2>1. /\ n.at = "inside" /\ n.req = e.req /\ n.started = p.started + 1
        /\ n.finished = p.finished /\ n.total = p.total
    BY <1>7 DEF At
  <2>2. /\ drained'[e.run]["runStarted"] = drained[e.run]["runStarted"]
        /\ drained'[e.run]["requestStarted"] = p.started + 1
        /\ drained'[e.run]["requestFinished"] = p.finished
        /\ drained'[e.run]["runFinished"] = drained[e.run]["runFinished"]
        /\ drained'[e.run]["runFailed"] = drained[e.run]["runFailed"]
    BY <1>1, <1>2, <1>4, <1>7
  <2>3. runState' = runState
    BY <1>1, <1>7, ProgressStep
  <2>4. runLog'.run = e.run => runLog'.completed = p.finished /\ runLog'.running = e.req
    <3>1. CASE runLog.run = e.run
      <4>1. runLog' = [run |-> e.run, completed |-> runLog.completed,
                       running |-> runLog.running \cup e.req]
        BY <3>1, <1>1, <1>7, LogStep
      <4>2. runLog.completed = p.finished /\ runLog.running = {}
        BY <3>1, <1>2, <1>3, <1>7
      <4>. QED
        BY <4>1, <4>2
    <3>2. CASE runLog.run # e.run
      BY <3>2, <1>1, <1>7, LogStep
    <3>. QED
      BY <3>1, <3>2
  <2>. QED
    BY <1>2, <1>7, <2>1, <2>2, <2>3, <2>4
<1>8. CASE /\ e.type = "requestFinished" /\ p.at = "inside" /\ e.req = p.req
           /\ n = At("between", {}, p.started, p.finished + 1, p.total)
  <2>1. /\ n.at = "between" /\ n.req = {} /\ n.started = p.started
        /\ n.finished = p.finished + 1 /\ n.total = p.total
    BY <1>8 DEF At
  <2>2. /\ drained'[e.run]["runStarted"] = drained[e.run]["runStarted"]
        /\ drained'[e.run]["requestStarted"] = p.started
        /\ drained'[e.run]["requestFinished"] = p.finished + 1
        /\ drained'[e.run]["runFinished"] = drained[e.run]["runFinished"]
        /\ drained'[e.run]["runFailed"] = drained[e.run]["runFailed"]
    BY <1>1, <1>2, <1>4, <1>8
  <2>3. runState'.run = e.run => /\ runState'.completed = p.finished + 1
                                 /\ runState'.total = p.total
    <3>1. CASE runState.run = e.run
      BY <3>1, <1>1, <1>2, <1>8, ProgressStep
    <3>2. CASE runState.run # e.run
      BY <3>2, <1>1, ProgressStep
    <3>. QED
      BY <3>1, <3>2
  <2>4. runLog'.run = e.run => runLog'.completed = p.finished + 1 /\ runLog'.running = {}
    <3>1. CASE runLog.run = e.run
      BY <3>1, <1>1, <1>2, <1>8, LogStep
    <3>2. CASE runLog.run # e.run
      BY <3>2, <1>1, <1>8, LogStep
    <3>. QED
      BY <3>1, <3>2
  <2>. QED
    BY <1>2, <1>8, <2>1, <2>2, <2>3, <2>4
<1> HIDE DEF Fit
<1>. QED
  BY <1>5, <1>6, <1>7, <1>8 DEF Advances

(* What is shown of the other runs stays. *)
LEMMA OthersStay ==
  ASSUME TypeOK, Drain, NEW e \in Event, e = Head(evts), NEW r \in Runs, r # e.run,
         NEW p \in Progress, Shown(r, p)
  PROVE  Shown(r, p)'
<1>0. NoRun \notin Runs /\ r # NoRun /\ e.type \in EventType
  BY NoRunIsNone DEF Event
<1>1. runLog' = LogAfter(e) /\ runState' = ProgressAfter(e) /\ drained'[r] = drained[r]
  BY Drains
<1>2. runState'.run = r => runState' = runState
  BY <1>0, <1>1, ProgressStep DEF EventType
<1>3. runLog'.run = r => runLog' = runLog
  BY <1>0, <1>1, LogStep DEF EventType
<1>. QED
  BY <1>1, <1>2, <1>3 DEF Shown, Ended

LEMMA DrainInv ==
  ASSUME ViewInv, Drain
  PROVE  ViewInv'
<1>0. TypeOK /\ Traced /\ Queued /\ Fresh /\ LogEmpty /\ StopReaches
  BY DEF ViewInv
<1>1. evts \in Seq(Event) /\ evts # <<>>
  BY <1>0 DEF TypeOK, Drain
<1>2. PICK e \in Event : e = Head(evts) /\ e = evts[1] /\ e.run \in Runs
  BY <1>0, <1>1, HeadAdvances
<1>3. PICK p \in Progress, n \in Progress :
        Sound(p) /\ Sound(n) /\ Shown(e.run, p) /\ Advances(p, e, n)
  BY <1>0, <1>1, <1>2, HeadAdvances
<1>4. /\ runLog' = LogAfter(e) /\ runState' = ProgressAfter(e)
      /\ tabs' \in [Reqs -> Runs \cup {NoRun}]
      /\ \A q \in Reqs : tabs'[q] = tabs[q] \/ tabs'[q] = NoRun
      /\ drained' \in [Runs -> [EventType -> Nat]]
      /\ \A r \in Runs : r # e.run => drained'[r] = drained[r]
      /\ nextRun' = nextRun /\ stopped' = stopped /\ cmds' = cmds /\ cancels' = cancels
      /\ task' = task /\ evts' = Tail(evts)
  BY <1>0, <1>2, Drains
<1>5. Shown(e.run, n)'
  BY <1>0, <1>2, <1>3, ShownAdvances
<1>6. NoRun \notin Runs /\ e.run # NoRun /\ e.type \in EventType
  BY <1>2, NoRunIsNone DEF Event
<1>7. /\ n.finished \in Count /\ n.total \in 0..Len(Plan) /\ n.req \in SUBSET Reqs
      /\ p.finished \in Count
  BY <1>3, ReqsFinite DEF Progress, Sound, Count
<1>8. runState' \in [run : Runs \cup {NoRun}, total : 0..Len(Plan), completed : Count]
  <2>1. CASE runState.run # e.run
    BY <2>1, <1>0, <1>4, ProgressStep DEF TypeOK
  <2>2. CASE runState.run = e.run
    <3>1. /\ runState.total \in 0..Len(Plan) /\ runState.completed \in Count
          /\ runState \in [run : Runs \cup {NoRun}, total : 0..Len(Plan), completed : Count]
      BY <1>0 DEF TypeOK
    <3>2. CASE e.type = "runStarted"
      <4>1. runState' = [run |-> e.run, total |-> e.total, completed |-> runState.completed]
        BY <2>2, <3>2, <1>0, <1>4, ProgressStep
      <4>2. n.total = e.total
        BY <3>2, <1>3 DEF Advances, At
      <4>. QED
        BY <4>1, <4>2, <3>1, <1>2, <1>7
    <3>3. CASE e.type = "requestStarted"
      BY <2>2, <3>1, <3>3, <1>0, <1>4, ProgressStep
    <3>4. CASE e.type = "requestFinished"
      <4>1. runState' = [run |-> e.run, total |-> runState.total,
                         completed |-> runState.completed + 1]
        BY <2>2, <3>4, <1>0, <1>4, ProgressStep
      <4>2. runState'.completed = n.finished
        BY <4>1, <1>5 DEF Shown
      <4>. QED
        BY <4>1, <4>2, <3>1, <1>2, <1>7
    <3>5. CASE e.type \in {"runFinished", "runFailed"}
      BY <2>2, <3>1, <3>5, <1>0, <1>4, ProgressStep
    <3>. QED
      BY <3>2, <3>3, <3>4, <3>5, <1>6 DEF EventType
  <2>. QED
    BY <2>1, <2>2
<1>9. /\ runLog' \in [run : Runs \cup {NoRun}, completed : Count, running : SUBSET Reqs]
      /\ LogEmpty'
  <2>0. /\ runLog \in [run : Runs \cup {NoRun}, completed : Count, running : SUBSET Reqs]
        /\ runLog.completed \in Count /\ runLog.running \in SUBSET Reqs /\ 0 \in Count
        /\ e.req \in SUBSET Reqs
    <3>1. runLog \in [run : Runs \cup {NoRun}, completed : Count, running : SUBSET Reqs]
      BY <1>0 DEF TypeOK
    <3>2. 0 \in Count
      BY ReqsFinite DEF Count
    <3>3. e.req \in SUBSET Reqs
      BY DEF Event
    <3>. QED
      BY <3>1, <3>2, <3>3
  <2>1. CASE e.type = "runStarted"
    <3>1. runLog' = [run |-> e.run, completed |-> 0, running |-> {}]
      BY <2>1, <1>0, <1>4, LogStep
    <3>. QED
      BY <3>1, <2>0, <1>2, <1>6 DEF LogEmpty
  <2>2. CASE runLog.run # e.run /\ e.type # "runStarted"
    <3>1. runLog' = runLog
      BY <2>2, <1>0, <1>4, LogStep
    <3>. QED
      BY <3>1, <2>0, <1>0 DEF LogEmpty
  <2>3. CASE runLog.run = e.run /\ e.type = "requestStarted"
    <3>1. runLog' = [run |-> e.run, completed |-> runLog.completed,
                     running |-> runLog.running \cup e.req]
      BY <2>3, <1>0, <1>4, LogStep
    <3>2. runLog.running \cup e.req \in SUBSET Reqs
      BY <2>0
    <3>. QED
      BY <3>1, <3>2, <2>0, <1>2, <1>6 DEF LogEmpty
  <2>4. CASE runLog.run = e.run /\ e.type = "requestFinished"
    <3>1. runLog' = [run |-> e.run, completed |-> runLog.completed + 1,
                     running |-> runLog.running \ e.req]
      BY <2>4, <1>0, <1>4, LogStep
    <3>2. runLog'.completed = n.finished
      BY <3>1, <1>5 DEF Shown
    <3>3. runLog.running \ e.req \in SUBSET Reqs /\ runLog.completed + 1 \in Count
      BY <3>1, <3>2, <2>0, <1>7
    <3>. QED
      BY <3>1, <3>3, <1>2, <1>6 DEF LogEmpty
  <2>5. CASE runLog.run = e.run /\ e.type \in {"runFinished", "runFailed"}
    <3>1. runLog' = [run |-> NoRun, completed |-> runLog.completed, running |-> {}]
      BY <2>5, <1>0, <1>4, LogStep
    <3>. QED
      BY <3>1, <2>0 DEF LogEmpty
  <2>. QED
    BY <2>1, <2>2, <2>3, <2>4, <2>5, <1>6 DEF EventType
<1>10. TypeOK'
  <2>1. evts' \in Seq(Event)
    BY <1>1, <1>4
  <2>. QED
    BY <2>1, <1>0, <1>4, <1>8, <1>9 DEF TypeOK
<1>11. Traced'
  <2>1. ASSUME NEW a \in Progress, NEW b \in Progress, Sound(a), Sound(b),
               Shown(Head(evts).run, a), Advances(a, Head(evts), b), NEW r \in Runs,
               r = Head(evts).run
        PROVE  Shown(r, b)'
    BY <2>1, <1>0, <1>2, ShownAdvances
  <2>2. ASSUME NEW r \in Runs, NEW a \in Progress, r # Head(evts).run, Shown(r, a)
        PROVE  Shown(r, a)'
    BY <2>2, <1>0, <1>2, OthersStay
  <2>. QED
    BY <2>1, <2>2, <1>0, <1>1, <1>4, TraceShrinks
<1>12. Queued'
  BY <1>0, <1>4 DEF Queued, Sent
<1>13. Fresh'
  <2> SUFFICES ASSUME NEW r \in Runs, r >= nextRun
               PROVE  /\ drained'[r] = [t \in EventType |-> 0]
                      /\ runState'.run # r /\ runLog'.run # r
                      /\ \A q \in Reqs : tabs'[q] # r
                      /\ \A i \in DOMAIN evts' : evts'[i].run # r
    BY <1>0, <1>4 DEF Fresh
  <2>1. /\ drained[r] = [t \in EventType |-> 0] /\ runState.run # r /\ runLog.run # r
        /\ \A q \in Reqs : tabs[q] # r
        /\ \A i \in DOMAIN evts : evts[i].run # r
    BY <1>0 DEF Fresh
  <2>2. 1 \in DOMAIN evts /\ \A i \in DOMAIN evts' : i + 1 \in DOMAIN evts /\ evts'[i] = evts[i + 1]
    BY <1>1, <1>4
  <2>3. r # e.run
    BY <2>1, <2>2, <1>2
  <2>4. runState'.run # r
    BY <2>1, <2>3, <1>0, <1>4, <1>6, ProgressStep DEF EventType
  <2>5. runLog'.run # r
    BY <2>1, <2>3, <1>0, <1>4, <1>6, LogStep DEF EventType
  <2>6. \A q \in Reqs : tabs'[q] # r
    BY <2>1, <1>4, <1>6
  <2>. QED
    BY <2>1, <2>2, <2>3, <2>4, <2>5, <2>6, <1>4
<1>14. StopReaches'
  BY <1>0, <1>4 DEF StopReaches, Pending
<1>. QED
  BY <1>9, <1>10, <1>11, <1>12, <1>13, <1>14 DEF ViewInv

-----------------------------------------------------------------------------
LEMMA UserInv ==
  ASSUME ViewInv, User
  PROVE  ViewInv'
<1>0. TypeOK /\ Fresh
  BY DEF ViewInv
<1>1. ASSUME NEW q \in Reqs, SendTab(q) PROVE ViewInv'
  <2>1. <<q>> \in Plans /\ 1 \in 0..Len(Plan)
    <3>1. <<q>> \in Plans /\ Len(<<q>>) = 1
      BY DEF Plans
    <3>. QED
      BY <3>1, LeftFits, ReqsFinite
  <2>2. Send(<<q>>, 1) /\ tabs' = [tabs EXCEPT ![q] = nextRun] /\ nextRun \in Runs
    BY <1>1 DEF SendTab, Send
  <2>3. /\ tabs' \in [Reqs -> Runs \cup {NoRun}]
        /\ \A a \in Reqs : tabs'[a] = tabs[a] \/ tabs'[a] = nextRun
    BY <2>2, <1>0 DEF TypeOK
  <2>. QED
    BY <2>1, <2>2, <2>3, SendInv
<1>2. ASSUME RunWorkspace PROVE ViewInv'
  <2>1. Plan \in Plans /\ 0 \in 0..Len(Plan)
    BY ReqsFinite DEF Plans
  <2>2. Send(Plan, 0) /\ tabs' = tabs
    BY <1>2 DEF RunWorkspace
  <2>3. /\ tabs' \in [Reqs -> Runs \cup {NoRun}]
        /\ \A a \in Reqs : tabs'[a] = tabs[a] \/ tabs'[a] = nextRun
    BY <2>2, <1>0 DEF TypeOK
  <2>. QED
    BY <2>1, <2>2, <2>3, SendInv
<1>3. ASSUME NEW r \in Runs, Stop(r), r = runLog.run \/ \E q \in Reqs : tabs[q] = r
      PROVE  ViewInv'
  <2>1. r < nextRun
    BY <1>0, <1>3, NoRunIsNone DEF Fresh, TypeOK
  <2>. QED
    BY <2>1, <1>3, StopInv
<1>4. ASSUME NEW q \in Reqs, StopTab(q) PROVE ViewInv'
  BY <1>3, <1>4 DEF StopTab, Stop
<1>5. ASSUME StopLog PROVE ViewInv'
  BY <1>3, <1>5 DEF StopLog, Stop
<1>. QED
  BY <1>1, <1>2, <1>4, <1>5, ClearInv DEF User

LEMMA StepInv ==
  ASSUME ViewInv, NEW r \in Runs, Step(r)
  PROVE  ViewInv'
BY TaskRefusesInv, TaskStartsInv, TaskBeginsInv, TaskSkipsInv, TaskConcludesInv,
   TaskFinishesInv, TaskUnregistersInv DEF Step

LEMMA StutterInv ==
  ASSUME ViewInv, UNCHANGED vars
  PROVE  ViewInv'
<1>1. /\ nextRun' = nextRun /\ runState' = runState /\ runLog' = runLog /\ tabs' = tabs
      /\ stopped' = stopped /\ cmds' = cmds /\ cancels' = cancels /\ task' = task
      /\ evts' = evts /\ drained' = drained
  BY DEF vars
<1>2. TypeOK /\ Traced /\ Queued /\ Fresh /\ LogEmpty /\ StopReaches
  BY DEF ViewInv
<1>3. TypeOK'
  BY <1>1, <1>2 DEF TypeOK
<1>4. Traced'
  <2>1. \A q \in Runs, p \in Progress : Sound(p) /\ Shown(q, p) => Shown(q, p)'
    BY <1>1 DEF Shown, Ended
  <2>. QED
    BY <1>1, <1>2, <2>1, TraceStays
<1>5. Queued' /\ StopReaches'
  BY <1>1, <1>2 DEF Queued, Sent, StopReaches, Pending
<1>6. Fresh' /\ LogEmpty'
  BY <1>1, <1>2 DEF Fresh, LogEmpty
<1>. QED
  BY <1>3, <1>4, <1>5, <1>6 DEF ViewInv

(* The events on their way always lead each run from what is shown of it to
   where its task is; the queue holds a run's start before its cancel. *)
THEOREM InvariantHolds == Spec => []ViewInv
<1>1. Init => ViewInv
  BY InitInv
<1>2. ViewInv /\ [Next]_vars => ViewInv'
  <2> SUFFICES ASSUME ViewInv, [Next]_vars PROVE ViewInv'
    OBVIOUS
  <2>1. CASE Receive
    BY <2>1, RecvRunInv, RecvCancelInv DEF Receive
  <2>. QED
    BY <2>1, UserInv, DrainInv, StepInv, StutterInv DEF Next
<1>. QED
  BY <1>1, <1>2, PTL DEF Spec

(* The bounds of the state: nothing shown counts more requests than the
   workspace runs, however often it is told of them (app.rs). *)
THEOREM TypeCorrect == Spec => []TypeOK
<1>1. ViewInv => TypeOK
  BY DEF ViewInv
<1>. QED
  BY <1>1, InvariantHolds, PTL

(* The progress and the log shown are those of the run they name, and that
   run is not over, however many runs interleave and however late their
   events are drained (RunState and RunLog, state.rs). *)
THEOREM ViewHolds == Spec => []ViewIsOwn
<1>1. ViewInv => ViewIsOwn
  <2> SUFFICES ASSUME ViewInv PROVE ViewIsOwn
    OBVIOUS
  <2>1. TypeOK /\ Traced /\ LogEmpty
    BY DEF ViewInv
  <2>2. PICK ph \in [1..(Len(evts) + 1) -> [Runs -> Progress]] : Traces(ph)
    BY <2>1 DEF Traced
  <2>3. Len(evts) \in Nat /\ 1 \in 1..(Len(evts) + 1)
    BY <2>1 DEF TypeOK
  <2>4. \A r \in Runs : ph[1][r] \in Progress /\ Sound(ph[1][r]) /\ Shown(r, ph[1][r])
    BY <2>2, <2>3 DEF Traces
  <2>5. ProgressIsOwn
    <3> SUFFICES ASSUME NEW r, r = runState.run, r # NoRun
                 PROVE  /\ runState.completed = drained[r]["requestFinished"]
                        /\ runState.completed <= runState.total \/ drained[r]["runStarted"] = 0
                        /\ ~Ended(r)
      BY DEF ProgressIsOwn
    <3>1. r \in Runs
      BY <2>1 DEF TypeOK
    <3>2. PICK p \in Progress : Sound(p) /\ Shown(r, p)
      BY <2>4, <3>1
    <3>3. /\ runState.completed = p.finished /\ p.at # "ended"
          /\ p.at # "idle" => runState.total = p.total
          /\ drained[r]["requestFinished"] = p.finished
          /\ Ended(r) <=> p.at = "ended"
          /\ p.at = "idle" => drained[r]["runStarted"] = 0
      BY <3>2 DEF Shown
    <3>4. p.finished <= p.total
      BY <3>2, ReqsFinite DEF Sound, Progress
    <3>. QED
      BY <3>3, <3>4
  <2>6. LogIsOwn
    <3>1. ASSUME NEW r, r = runLog.run, r # NoRun
          PROVE  /\ runLog.completed = drained[r]["requestFinished"]
                 /\ runLog.completed + Cardinality(runLog.running)
                      = drained[r]["requestStarted"]
                 /\ ~Ended(r)
      <4>1. r \in Runs
        BY <2>1, <3>1 DEF TypeOK
      <4>2. PICK p \in Progress : Sound(p) /\ Shown(r, p)
        BY <2>4, <4>1
      <4>3. /\ runLog.completed = p.finished /\ p.at # "ended" /\ runLog.running = p.req
            /\ drained[r]["requestFinished"] = p.finished
            /\ drained[r]["requestStarted"] = p.started
            /\ Ended(r) <=> p.at = "ended"
        BY <3>1, <4>2 DEF Shown
      <4>4. p.finished + Cardinality(p.req) = p.started
        <5>1. CASE p.at = "inside"
          BY <4>2, <5>1 DEF Sound, Progress
        <5>2. CASE p.at # "inside"
          <6>1. p.req = {} /\ p.started = p.finished /\ p.finished \in Nat
            BY <4>2, <5>2 DEF Sound, Progress
          <6>2. Cardinality({}) = 0
            BY FS_EmptySet
          <6>. QED
            BY <6>1, <6>2
        <5>. QED
          BY <5>1, <5>2
      <4>. QED
        BY <4>3, <4>4
    <3>2. runLog.run = NoRun => runLog.running = {}
      BY <2>1 DEF LogEmpty
    <3>. QED
      BY <3>1, <3>2 DEF LogIsOwn
  <2>. QED
    BY <2>5, <2>6 DEF ViewIsOwn
<1>. QED
  BY <1>1, InvariantHolds, PTL

(* A Stop is never too early for its run: once taken by the bridge, the run
   is cancelled or already over (bridge_main, the map of tokens). *)
THEOREM StopIsNeverLost == Spec => []StopReaches
<1>1. ViewInv => StopReaches
  BY DEF ViewInv
<1>. QED
  BY <1>1, InvariantHolds, PTL
=============================================================================
