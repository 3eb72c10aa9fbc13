------------------------------ MODULE RunView ------------------------------
(***************************************************************************)
(* What the desktop app shows of its runs (forge-gui/src/app.rs, state.rs, *)
(* panels/test_results.rs, request_editor.rs): runs are started from tabs  *)
(* and for the whole workspace, execute in parallel on the bridge, and     *)
(* their events reach the run log, the progress state and the tabs late    *)
(* and interleaved.                                                        *)
(***************************************************************************)
EXTENDS Integers, Sequences, FiniteSets

CONSTANTS
  Reqs,     (* requests of the workspace, each with an open tab *)
  Plan,     (* the order the workspace runs them in *)
  Off,      (* those with skip_in_runs *)
  MaxRuns,  (* bound on the runs started *)
  NoRun

(* plan_requests walks the tree, so the plan has each request once. *)
ASSUME ViewAssumption ==
  /\ Off \subseteq Reqs /\ Plan \in Seq(Reqs)
  /\ \A q \in Reqs : \E i \in DOMAIN Plan : Plan[i] = q
  /\ \A i, j \in DOMAIN Plan : Plan[i] = Plan[j] => i = j
  /\ MaxRuns \in Nat
  /\ NoRun \notin Nat

VARIABLES
  nextRun,   (* next_run_id *)
  runState,  (* RunState: the run whose progress is shown *)
  runLog,    (* RunLog: the run whose tree is shown *)
  tabs,      (* Tab::run_id of each request's tab *)
  stopped,   (* the runs the user pressed Stop for *)
  cmds,      (* cmd_rx *)
  cancels,   (* the map of cancellation tokens *)
  task,      (* the spawned runs *)
  evts,      (* evt_rx *)
  drained    (* history: per run, how many events of a type were handled *)

vars == <<nextRun, runState, runLog, tabs, stopped, cmds, cancels, task, evts,
          drained>>

view == <<nextRun, runState, runLog, tabs>>
bridge == <<cancels, task, evts>>

Runs == 1..MaxRuns

EventType == {"runStarted", "requestStarted", "requestFinished",
              "runFinished", "runFailed"}
Event == [run : Runs, type : EventType, req : SUBSET Reqs, total : Nat]

NoLog == [run |-> NoRun, completed |-> 0, running |-> {}]
NoProgress == [run |-> NoRun, total |-> 0, completed |-> 0]
NoTask == [at |-> "none", todo |-> <<>>, current |-> {}]

-----------------------------------------------------------------------------
Init ==
  /\ nextRun = 1
  /\ runState = NoProgress
  /\ runLog = NoLog
  /\ tabs = [q \in Reqs |-> NoRun]
  /\ stopped = {}
  /\ cmds = <<>>
  /\ cancels = [r \in Runs |-> "absent"]
  /\ task = [r \in Runs |-> NoTask]
  /\ evts = <<>>
  /\ drained = [r \in Runs |-> [t \in EventType |-> 0]]

Send(reqs, total) ==
  /\ nextRun \in Runs
  /\ nextRun' = nextRun + 1
  /\ runState' = [run |-> nextRun, total |-> total, completed |-> 0]
  /\ runLog' = [NoLog EXCEPT !.run = nextRun]
  /\ cmds' = Append(cmds, [cmd |-> "run", run |-> nextRun, reqs |-> reqs])
  /\ UNCHANGED <<stopped, bridge, drained>>

(* send_active: the button turns into Stop meanwhile, the shortcut stays. *)
SendTab(q) ==
  /\ Send(<<q>>, 1)
  /\ tabs' = [tabs EXCEPT ![q] = nextRun]

(* run_workspace; rerun_last and the tree's Run do the same for a scope. *)
RunWorkspace ==
  /\ Send(Plan, 0)
  /\ UNCHANGED tabs

Stop(r) ==
  /\ r \in Runs \ stopped  (* pressing again changes nothing *)
  /\ stopped' = stopped \cup {r}
  /\ cmds' = Append(cmds, [cmd |-> "cancel", run |-> r, reqs |-> <<>>])
  /\ UNCHANGED <<view, bridge, drained>>

StopTab(q) == tabs[q] # NoRun /\ Stop(tabs[q])
StopLog == runLog.run # NoRun /\ Stop(runLog.run)

ClearLog ==
  /\ runLog # NoLog
  /\ runLog' = NoLog
  /\ UNCHANGED <<nextRun, runState, tabs, stopped, cmds, bridge, drained>>

-----------------------------------------------------------------------------
(* bridge_main: commands in order; a run's token is registered before it is
   spawned. *)
Recv(c) ==
  /\ cmds # <<>> /\ Head(cmds).cmd = c
  /\ cmds' = Tail(cmds)
  /\ UNCHANGED <<view, stopped, evts, drained>>

Spawned(reqs) == [at |-> "spawned", todo |-> reqs, current |-> {}]

(* Variant: the token is made, but not registered. *)
RecvRunUnregistered ==
  /\ Recv("run")
  /\ task' = [task EXCEPT ![Head(cmds).run] = Spawned(Head(cmds).reqs)]
  /\ UNCHANGED cancels

RecvRun ==
  /\ Recv("run")
  /\ cancels' = [cancels EXCEPT ![Head(cmds).run] = "live"]
  /\ task' = [task EXCEPT ![Head(cmds).run] = Spawned(Head(cmds).reqs)]

RecvCancel ==
  /\ Recv("cancel")
  /\ cancels' = [cancels EXCEPT ![Head(cmds).run] =
                   IF @ = "live" THEN "cancelled" ELSE @]
  /\ UNCHANGED task

(* The spawned run: runner::run and the forwarding of its events. *)
Emits(r, type, req) ==
  /\ evts' = Append(evts, [run |-> r, type |-> type, req |-> req,
                           total |-> Len(task[r].todo)])
  /\ UNCHANGED <<view, stopped, cmds, cancels, drained>>

TaskRefuses(r) ==
  /\ task[r].at = "spawned"
  /\ task' = [task EXCEPT ![r].at = "ended"]
  /\ Emits(r, "runFailed", {})

TaskStarts(r) ==
  /\ task[r].at = "spawned"
  /\ task' = [task EXCEPT ![r].at = "running"]
  /\ Emits(r, "runStarted", {})

Due(r) == task[r].at = "running" /\ task[r].current = {} /\ task[r].todo # <<>>
Passes(r) == cancels[r] = "cancelled" \/ Head(task[r].todo) \in Off

TaskBegins(r) ==
  /\ Due(r) /\ ~Passes(r)
  /\ task' = [task EXCEPT ![r].current = {Head(task[r].todo)}, ![r].todo = Tail(@)]
  /\ Emits(r, "requestStarted", {Head(task[r].todo)})

TaskSkips(r) ==
  /\ Due(r) /\ Passes(r)
  /\ task' = [task EXCEPT ![r].todo = Tail(@)]
  /\ UNCHANGED <<view, stopped, cmds, cancels, evts, drained>>

TaskConcludes(r) ==
  /\ task[r].current # {}
  /\ task' = [task EXCEPT ![r].current = {}]
  /\ Emits(r, "requestFinished", task[r].current)

TaskFinishes(r) ==
  /\ task[r].at = "running" /\ task[r].todo = <<>> /\ task[r].current = {}
  /\ task' = [task EXCEPT ![r].at = "ended"]
  /\ Emits(r, "runFinished", {})

TaskUnregisters(r) ==
  /\ task[r].at = "ended"
  /\ task' = [task EXCEPT ![r].at = "over"]
  /\ cancels' = [cancels EXCEPT ![r] = "absent"]
  /\ UNCHANGED <<view, stopped, cmds, evts, drained>>

-----------------------------------------------------------------------------
(* Variant: a request counts when it starts, and again when it ends. *)
AppliedTwice(log, e) ==
  IF log.run # e.run THEN log
  ELSE CASE e.type = "requestStarted" ->
              [log EXCEPT !.running = @ \cup e.req, !.completed = @ + 1]
         [] e.type = "requestFinished" ->
              [log EXCEPT !.running = @ \ e.req, !.completed = @ + 1]
         [] e.type \in {"runFinished", "runFailed"} ->
              [log EXCEPT !.run = NoRun, !.running = {}]
         [] OTHER -> log

Applied(log, e) ==
  IF log.run # e.run THEN log
  ELSE CASE e.type = "requestStarted" -> [log EXCEPT !.running = @ \cup e.req]
         [] e.type = "requestFinished" ->
              [log EXCEPT !.running = @ \ e.req, !.completed = @ + 1]
         [] e.type \in {"runFinished", "runFailed"} ->
              [log EXCEPT !.run = NoRun, !.running = {}]
         [] OTHER -> log

(* A log that is not tracking the run starts over when it starts. *)
LogAfter(e) ==
  Applied(IF e.type = "runStarted" THEN [NoLog EXCEPT !.run = e.run]
                                   ELSE runLog, e)

(* Variant: the end of any run is taken for the end of this one. *)
ProgressAfterAny(e) ==
  CASE e.type \in {"runFinished", "runFailed"} -> [runState EXCEPT !.run = NoRun]
    [] e.type = "requestFinished" -> [runState EXCEPT !.completed = @ + 1]
    [] OTHER -> runState

(* Variant: a run that fails outright does not end the progress. *)
ProgressAfterNoFailure(e) ==
  IF runState.run # e.run THEN runState
  ELSE CASE e.type = "runStarted" -> [runState EXCEPT !.total = e.total]
         [] e.type = "requestFinished" -> [runState EXCEPT !.completed = @ + 1]
         [] e.type = "runFinished" -> [runState EXCEPT !.run = NoRun]
         [] OTHER -> runState

ProgressAfter(e) ==
  IF runState.run # e.run THEN runState
  ELSE CASE e.type = "runStarted" -> [runState EXCEPT !.total = e.total]
         [] e.type = "requestFinished" -> [runState EXCEPT !.completed = @ + 1]
         [] e.type \in {"runFinished", "runFailed"} -> [runState EXCEPT !.run = NoRun]
         [] OTHER -> runState

(* A finished request releases the tab it was sent from, a failed run all. *)
TabAfter(q, e) ==
  IF tabs[q] = e.run
       /\ (e.type = "runFailed" \/ (e.type = "requestFinished" /\ q \in e.req))
    THEN NoRun ELSE tabs[q]

(* drain_bridge_events, one event at a time. *)
Drain ==
  /\ evts # <<>>
  /\ LET e == Head(evts) IN
       /\ runLog' = LogAfter(e)
       /\ runState' = ProgressAfter(e)
       /\ tabs' = [q \in Reqs |-> TabAfter(q, e)]
       /\ drained' = [drained EXCEPT ![e.run][e.type] = @ + 1]
  /\ evts' = Tail(evts)
  /\ UNCHANGED <<nextRun, stopped, cmds, cancels, task>>

User ==
  \/ \E q \in Reqs : SendTab(q) \/ StopTab(q)
  \/ RunWorkspace \/ StopLog \/ ClearLog

Step(r) ==
  \/ TaskRefuses(r) \/ TaskStarts(r) \/ TaskBegins(r) \/ TaskSkips(r)
  \/ TaskConcludes(r) \/ TaskFinishes(r) \/ TaskUnregisters(r)

Receive == RecvRun \/ RecvCancel

Next == User \/ Receive \/ Drain \/ \E r \in Runs : Step(r)

(* The bridge thread and its tasks are scheduled, every request ends (its
   timeout), and each frame drains the events; the user is free. *)
Spec ==
  /\ Init /\ [][Next]_vars
  /\ WF_vars(Receive) /\ WF_vars(Drain)
  /\ \A r \in Runs : WF_vars(Step(r))

-----------------------------------------------------------------------------
Ended(r) == drained[r]["runFinished"] + drained[r]["runFailed"] > 0

Count == 0..Cardinality(Reqs \ Off)

(* The types of the state; no request is counted twice. *)
TypeOK ==
  /\ nextRun \in 1..(MaxRuns + 1)
  /\ runState \in [run : Runs \cup {NoRun}, total : 0..Len(Plan), completed : Count]
  /\ runLog \in [run : Runs \cup {NoRun}, completed : Count, running : SUBSET Reqs]
  /\ tabs \in [Reqs -> Runs \cup {NoRun}]
  /\ stopped \subseteq Runs
  /\ cmds \in Seq([cmd : {"run", "cancel"}, run : Runs, reqs : Seq(Reqs)])
  /\ cancels \in [Runs -> {"absent", "live", "cancelled"}]
  /\ task \in [Runs -> [at : {"none", "spawned", "running", "ended", "over"},
                        todo : Seq(Reqs), current : SUBSET Reqs]]
  /\ evts \in Seq(Event)
  /\ drained \in [Runs -> [EventType -> Nat]]

(* The progress shown is that of the run it names, whatever older runs still
   report: "A late RequestFinished/RunFinished from an older run must not
   corrupt the progress ... of the current run" (app.rs tests).  It is never
   left showing a run that is over. *)
ProgressIsOwn ==
  LET r == runState.run IN
    r # NoRun =>
      /\ runState.completed = drained[r]["requestFinished"]
      /\ runState.completed <= runState.total \/ drained[r]["runStarted"] = 0
      /\ ~Ended(r)

(* The same of the run log, although it switches back to an older run when
   that one's RunStarted arrives late: every node of a run in progress is
   either counted or shown running, and no node of another run is. *)
LogIsOwn ==
  LET r == runLog.run IN
    /\ r # NoRun =>
         /\ runLog.completed = drained[r]["requestFinished"]
         /\ runLog.completed + Cardinality(runLog.running)
              = drained[r]["requestStarted"]
         /\ ~Ended(r)
    /\ r = NoRun => runLog.running = {}

(* What the window shows of the runs is true of the run it names. *)
ViewIsOwn == ProgressIsOwn /\ LogIsOwn

Pending(cmd, r) == \E i \in DOMAIN cmds : cmds[i].cmd = cmd /\ cmds[i].run = r

(* Pressing Stop is never too early: once the bridge has taken the command,
   the run is cancelled or already over. *)
StopReaches ==
  \A r \in stopped :
    \/ Pending("cancel", r)
    \/ cancels[r] = "cancelled"
    \/ task[r].at = "over"

(* Neither the progress nor the log shows a run in progress for ever - which
   would keep Re-run disabled. *)
RunsLeaveView ==
  \A r \in Runs : (runState.run = r \/ runLog.run = r)
                    ~> (runState.run # r /\ runLog.run # r)

(* "Set to the bridge run id while a Send initiated from this specific tab is
   in flight" (state.rs, Tab::run_id): a tab shows no run that is over. *)
TabShowsRunInFlight == \A q \in Reqs : tabs[q] # NoRun => ~Ended(tabs[q])
=============================================================================
