------------------------------ MODULE RunStream ------------------------------
(***************************************************************************)
(* What a consumer of RunEvent (forge-core/src/runner/events.rs: the GUI's *)
(* run log, the CLI printer) may rely on: one RunStarted, then requests    *)
(* that open and close one at a time, then one RunFinished whose counts    *)
(* are those of the stream - or nothing at all when the run is refused.    *)
(***************************************************************************)
EXTENDS Integers

CONSTANT NoSummary

VARIABLES
  phase,    (* "fresh" | "running" | "closed" | "refused" *)
  open,     (* between RequestStarted and its RequestFinished *)
  passed, failed,  (* RequestFinished events by outcome *)
  skipped,  (* requests of the plan that got no event *)
  total,    (* as announced by RunStarted *)
  summary   (* as reported by RunFinished *)

vars == <<phase, open, passed, failed, skipped, total, summary>>

Init ==
  /\ phase = "fresh" /\ open = FALSE
  /\ passed = 0 /\ failed = 0 /\ skipped = 0
  /\ total = 0
  /\ summary = NoSummary

Start ==
  /\ phase = "fresh"
  /\ phase' = "running"
  /\ total' \in Nat
  /\ UNCHANGED <<open, passed, failed, skipped, summary>>

Refuse ==
  /\ phase = "fresh"
  /\ phase' = "refused"
  /\ UNCHANGED <<open, passed, failed, skipped, total, summary>>

Room == passed + failed + skipped < total

Open ==
  /\ phase = "running" /\ ~open /\ Room
  /\ open' = TRUE
  /\ UNCHANGED <<phase, passed, failed, skipped, total, summary>>

Finish ==
  /\ phase = "running" /\ open
  /\ open' = FALSE
  /\ \/ passed' = passed + 1 /\ failed' = failed
     \/ failed' = failed + 1 /\ passed' = passed
  /\ UNCHANGED <<phase, skipped, total, summary>>

(* RequestStarted and a failed RequestFinished without a pause between. *)
FailAtOnce ==
  /\ phase = "running" /\ ~open /\ Room
  /\ failed' = failed + 1
  /\ UNCHANGED <<phase, open, passed, skipped, total, summary>>

Skip ==
  /\ phase = "running" /\ ~open /\ Room
  /\ skipped' = skipped + 1
  /\ UNCHANGED <<phase, open, passed, failed, total, summary>>

Close ==
  /\ phase = "running" /\ ~open /\ ~Room
  /\ phase' = "closed"
  /\ summary' = [total |-> total, passed |-> passed, failed |-> failed,
                 skipped |-> skipped]
  /\ UNCHANGED <<open, passed, failed, skipped, total>>

Next == Start \/ Refuse \/ Open \/ Finish \/ FailAtOnce \/ Skip \/ Close

Spec == Init /\ [][Next]_vars
=============================================================================
