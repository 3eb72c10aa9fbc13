-------------------------- MODULE AuthSession_proofs --------------------------
(***************************************************************************)
(* Proofs about AuthSession for any number of runs, keys and targets and   *)
(* any lifetime, reserve and latency: type correctness, one refresh at a   *)
(* time and only when it is needed, the token of the run's own key, and a  *)
(* cached token that outlives the call it was chosen for.                  *)
(***************************************************************************)
EXTENDS AuthSession, TLAPS

(* A token in the cache is filed under its own key, and the cache credits it
   with no more than its lifetime plus the time its answer travelled. *)
Sound(tok) ==
  tok # NoToken => tok.expires <= tok.issued + Lifetime + MaxLatency

TokensFiled ==
  \A k \in Keys : /\ tokens[k] # NoToken => tokens[k].key = k
                  /\ Sound(tokens[k])

(* What a run's locals are in each phase. *)
Locals(s) ==
  /\ s.phase \in {"idle", "auth", "fetch", "reply"} =>
       s.token = NoToken /\ s.fresh = FALSE
  /\ s.phase \in {"reply", "call"} => s.since <= now
  /\ s.phase = "reply" => now - s.since <= MaxLatency
  /\ s.phase = "call" /\ s.token # NoToken =>
       /\ Sound(s.token)
       /\ s.fresh = FALSE => s.token.expires - s.since > Reserve + s.estimate

LocalsFit == \A r \in Runs : Locals(run[r])

(* The inductive invariant: the mutex is held exactly across a refresh, so
   neither the cache nor the durations move under it; tokens are filed under
   their keys; and a run's clock, token and estimate fit its phase. *)
SessionInv ==
  TypeOK /\ SerializedRefresh /\ TokenOfOwnKey /\ TokensFiled /\ LocalsFit

LEMMA IdleTyped == IdleRun \in RunState /\ IdleRun.phase = "idle"
                   /\ IdleRun.token = NoToken /\ IdleRun.fresh = FALSE
<1>1. (CHOOSE k \in Keys : TRUE) \in Keys
  BY SessionAssumption
<1>2. (CHOOSE t \in Targets : TRUE) \in Targets
  BY SessionAssumption
<1>3. 0 \in Time
  BY SessionAssumption DEF Time
<1>. QED
  BY <1>1, <1>2, <1>3 DEF IdleRun, RunState, Phase

LEMMA InitInv == Init => SessionInv
<1> SUFFICES ASSUME Init PROVE SessionInv
  OBVIOUS
<1> USE SessionAssumption
<1>1. TypeOK
  BY IdleTyped DEF Init, TypeOK, Time
<1>2. \A r \in Runs : run[r].phase = "idle" /\ run[r].token = NoToken
                      /\ run[r].fresh = FALSE
  BY IdleTyped DEF Init
<1>3. \A k \in Keys : tokens[k] = NoToken
  BY DEF Init
<1>4. SerializedRefresh
  BY <1>2 DEF SerializedRefresh, Init
<1>5. TokenOfOwnKey
  BY <1>2 DEF TokenOfOwnKey
<1>6. TokensFiled
  BY <1>3 DEF TokensFiled, Sound
<1>7. LocalsFit
  BY <1>2 DEF LocalsFit, Locals
<1>. QED
  BY <1>1, <1>4, <1>5, <1>6, <1>7 DEF SessionInv

(* Queueing and taking keep the mutex's queue a sequence of runs. *)
LEMMA QueueTyped ==
  ASSUME TypeOK
  PROVE  /\ \A r \in Runs : Append(waiters, r) \in Seq(Runs)
         /\ waiters # <<>> => Tail(waiters) \in Seq(Runs)
  BY DEF TypeOK

(* A step of r that leaves the cache, the durations and the clock alone keeps
   what other runs rely on: only r's own locals have to be looked at. *)
LEMMA OwnStep ==
  ASSUME SessionInv, NEW r \in Runs,
         now' = now, tokens' = tokens, longest' = longest,
         waiters' \in Seq(Runs), holder' \in Runs \cup {NoRun},
         run' \in [Runs -> RunState],
         \A q \in Runs : q # r => run'[q] = run[q],
         \A q \in Runs : q # r => (holder' = q <=> holder = q),
         run'[r].phase \in {"fetch", "reply"} <=> holder' = r,
         run'[r].phase = "fetch" =>
           ~Outlives(tokens[run'[r].key], run'[r].target),
         run'[r].phase = "call" /\ run'[r].target \in Protected =>
           run'[r].token # NoToken /\ run'[r].token.key = run'[r].key,
         Locals(run'[r])
  PROVE  SessionInv'
<1>1. TypeOK'
  BY DEF SessionInv, TypeOK
<1>2. \A tok, t : Outlives(tok, t)' <=> Outlives(tok, t)
  BY DEF Outlives, Required
<1>3. SerializedRefresh'
  BY <1>2 DEF SessionInv, SerializedRefresh, Outlives, Required
<1>4. TokenOfOwnKey'
  BY DEF SessionInv, TokenOfOwnKey
<1>5. TokensFiled'
  BY DEF SessionInv, TokensFiled, Sound
<1>6. LocalsFit'
  BY DEF SessionInv, LocalsFit, Locals, Sound
<1>. QED
  BY <1>1, <1>3, <1>4, <1>5, <1>6 DEF SessionInv

LEMMA StartKeeps ==
  ASSUME SessionInv, NEW r \in Runs, NEW k \in Keys, NEW t \in Targets,
         Start(r, k, t)
  PROVE  SessionInv'
<1> USE SessionAssumption
<1>0. TypeOK /\ run \in [Runs -> RunState] /\ run[r] \in RunState
      /\ run[r].phase = "idle" /\ holder # r /\ now \in Time
  BY DEF SessionInv, TypeOK, Start, SerializedRefresh
<1>1. run[r].token = NoToken /\ run[r].fresh = FALSE
  BY <1>0 DEF SessionInv, LocalsFit, Locals
<1>2. CASE t \in Protected
  <2>1. run' = [run EXCEPT ![r] = [@ EXCEPT !.key = k, !.target = t, !.phase = "auth"]]
    BY <1>2, <1>0 DEF Start
  <2>2. run'[r] \in RunState /\ run'[r].phase = "auth"
        /\ run'[r].token = NoToken /\ run'[r].fresh = FALSE
    BY <2>1, <1>0, <1>1 DEF RunState, Phase
  <2>3. run' \in [Runs -> RunState] /\ \A q \in Runs : q # r => run'[q] = run[q]
    BY <2>1, <2>2, <1>0
  <2>4. waiters' \in Seq(Runs)
    BY <1>2, <1>0, QueueTyped DEF Start
  <2>5. Locals(run'[r])
    BY <2>2 DEF Locals
  <2>. QED
    BY <2>2, <2>3, <2>4, <2>5, <1>0, OwnStep DEF Start, TypeOK
<1>3. CASE t \notin Protected
  <2>1. run' = [run EXCEPT ![r] = [@ EXCEPT !.target = t, !.phase = "call", !.since = now]]
    BY <1>3, <1>0 DEF Start
  <2>2. run'[r] \in RunState /\ run'[r].phase = "call" /\ run'[r].target = t
        /\ run'[r].since = now /\ run'[r].token = NoToken
    BY <2>1, <1>0, <1>1 DEF RunState, Phase
  <2>3. run' \in [Runs -> RunState] /\ \A q \in Runs : q # r => run'[q] = run[q]
    BY <2>1, <2>2, <1>0
  <2>4. waiters' \in Seq(Runs)
    BY <1>3, <1>0 DEF Start, TypeOK
  <2>5. Locals(run'[r])
    BY <2>2, <1>0 DEF Locals, Time
  <2>. QED
    BY <2>2, <2>3, <2>4, <2>5, <1>0, <1>3, OwnStep DEF Start, TypeOK
<1>. QED
  BY <1>2, <1>3

LEMMA UseCachedKeeps ==
  ASSUME SessionInv, NEW r \in Runs, UseCached(r)
  PROVE  SessionInv'
<1> USE SessionAssumption
<1> DEFINE s == run[r]
<1>0. TypeOK /\ run \in [Runs -> RunState] /\ s \in RunState
      /\ s.phase = "auth" /\ holder = NoRun /\ holder # r /\ now \in Time
      /\ s.key \in Keys /\ s.target \in Targets
      /\ longest[s.target] \in Time
  BY DEF SessionInv, TypeOK, UseCached, Takes, RunState
<1>1. s.fresh = FALSE
  BY <1>0 DEF SessionInv, LocalsFit, Locals
<1>2. /\ tokens[s.key] \in Token /\ tokens[s.key] # NoToken
      /\ tokens[s.key].key = s.key /\ Sound(tokens[s.key])
      /\ tokens[s.key].expires - now > Reserve + longest[s.target]
  BY <1>0 DEF SessionInv, TypeOK, TokensFiled, UseCached, Outlives, Cached, Required
<1>3. run' = [run EXCEPT ![r] =
                [@ EXCEPT !.phase = "call", !.since = now,
                          !.token = tokens[s.key], !.estimate = longest[s.target]]]
  BY <1>0 DEF UseCached, Cached
<1>4. run'[r] \in RunState /\ run'[r].phase = "call" /\ run'[r].since = now
      /\ run'[r].token = tokens[s.key] /\ run'[r].key = s.key
      /\ run'[r].estimate = longest[s.target]
  BY <1>3, <1>2, <1>0 DEF RunState, Phase
<1>5. run' \in [Runs -> RunState] /\ \A q \in Runs : q # r => run'[q] = run[q]
  BY <1>3, <1>4, <1>0
<1>6. waiters' \in Seq(Runs)
  BY <1>0, QueueTyped DEF UseCached, Takes
<1>7. Locals(run'[r])
  BY <1>4, <1>2, <1>0 DEF Locals, Time
<1>. QED
  BY <1>4, <1>5, <1>6, <1>7, <1>2, <1>0, OwnStep DEF UseCached, TypeOK

LEMMA BeginFetchKeeps ==
  ASSUME SessionInv, NEW r \in Runs, BeginFetch(r)
  PROVE  SessionInv'
<1> USE SessionAssumption
<1> DEFINE s == run[r]
<1>0. TypeOK /\ run \in [Runs -> RunState] /\ s \in RunState
      /\ s.phase = "auth" /\ holder = NoRun
  BY DEF SessionInv, TypeOK, BeginFetch, Takes
<1>1. s.token = NoToken /\ s.fresh = FALSE
  BY <1>0 DEF SessionInv, LocalsFit, Locals
<1>3. run' = [run EXCEPT ![r] = [@ EXCEPT !.phase = "fetch"]]
  BY <1>0 DEF BeginFetch
<1>4. run'[r] \in RunState /\ run'[r].phase = "fetch"
      /\ run'[r].token = NoToken /\ run'[r].fresh = FALSE
      /\ run'[r].key = s.key /\ run'[r].target = s.target
  BY <1>3, <1>1, <1>0 DEF RunState, Phase
<1>5. run' \in [Runs -> RunState] /\ \A q \in Runs : q # r => run'[q] = run[q]
  BY <1>3, <1>4, <1>0
<1>6. waiters' \in Seq(Runs) /\ holder' = r
  BY <1>0, QueueTyped DEF BeginFetch, Takes
<1>7. Locals(run'[r])
  BY <1>4 DEF Locals
<1>8. ~Outlives(tokens[s.key], s.target)
  BY DEF BeginFetch, Cached
<1>. QED
  BY <1>4, <1>5, <1>6, <1>7, <1>8, <1>0, OwnStep DEF BeginFetch

LEMMA ProviderAnswersKeeps ==
  ASSUME SessionInv, NEW r \in Runs, ProviderAnswers(r)
  PROVE  SessionInv'
<1> USE SessionAssumption
<1> DEFINE s == run[r]
<1>0. TypeOK /\ run \in [Runs -> RunState] /\ s \in RunState
      /\ s.phase = "fetch" /\ holder = r /\ now \in Time
  BY DEF SessionInv, TypeOK, ProviderAnswers, SerializedRefresh
<1>1. s.token = NoToken /\ s.fresh = FALSE
  BY <1>0 DEF SessionInv, LocalsFit, Locals
<1>3. run' = [run EXCEPT ![r] = [@ EXCEPT !.phase = "reply", !.since = now]]
  BY <1>0 DEF ProviderAnswers
<1>4. run'[r] \in RunState /\ run'[r].phase = "reply"
      /\ run'[r].token = NoToken /\ run'[r].fresh = FALSE /\ run'[r].since = now
  BY <1>3, <1>1, <1>0 DEF RunState, Phase
<1>5. run' \in [Runs -> RunState] /\ \A q \in Runs : q # r => run'[q] = run[q]
  BY <1>3, <1>4, <1>0
<1>7. Locals(run'[r])
  BY <1>4, <1>0 DEF Locals, Time
<1>. QED
  BY <1>4, <1>5, <1>7, <1>0, OwnStep DEF ProviderAnswers, TypeOK

LEMMA FailFetchKeeps ==
  ASSUME SessionInv, NEW r \in Runs, FailFetch(r)
  PROVE  SessionInv'
<1> USE SessionAssumption
<1>0. TypeOK /\ run \in [Runs -> RunState] /\ holder = r /\ holder' = NoRun
  BY DEF SessionInv, TypeOK, FailFetch, SerializedRefresh
<1>1. run' = [run EXCEPT ![r] = IdleRun]
  BY DEF FailFetch
<1>2. run'[r] = IdleRun
  BY <1>1, <1>0
<1>3. run' \in [Runs -> RunState] /\ \A q \in Runs : q # r => run'[q] = run[q]
  BY <1>1, <1>0, IdleTyped
<1>4. Locals(run'[r])
  BY <1>2, IdleTyped DEF Locals
<1>. QED
  BY <1>2, <1>3, <1>4, <1>0, IdleTyped, OwnStep DEF FailFetch, TypeOK

LEMMA EndCallKeeps ==
  ASSUME SessionInv, NEW r \in Runs, EndCall(r)
  PROVE  SessionInv'
<1> USE SessionAssumption
<1> DEFINE s == run[r]
<1>0. TypeOK /\ run \in [Runs -> RunState] /\ s \in RunState
      /\ s.phase = "call" /\ holder # r /\ now \in Time /\ s.since \in Time
  BY DEF SessionInv, TypeOK, EndCall, SerializedRefresh, RunState
<1>1. now - s.since \in Time
  BY <1>0 DEF SessionInv, LocalsFit, Locals, Time
<1>3. run' = [run EXCEPT ![r] = [@ EXCEPT !.phase = "record", !.since = now - s.since]]
  BY <1>0 DEF EndCall
<1>4. run'[r] \in RunState /\ run'[r].phase = "record"
  BY <1>3, <1>1, <1>0 DEF RunState, Phase
<1>5. run' \in [Runs -> RunState] /\ \A q \in Runs : q # r => run'[q] = run[q]
  BY <1>3, <1>4, <1>0
<1>6. waiters' \in Seq(Runs)
  BY <1>0, QueueTyped DEF EndCall
<1>7. Locals(run'[r])
  BY <1>4 DEF Locals
<1>. QED
  BY <1>4, <1>5, <1>6, <1>7, <1>0, OwnStep DEF EndCall, TypeOK

(* The answer may come when the run's own margin is gone already, but the
   cache credits it with no more than its lifetime and its travel. *)
LEMMA FinishFetchKeeps ==
  ASSUME SessionInv, NEW r \in Runs, FinishFetch(r)
  PROVE  SessionInv'
<1> USE SessionAssumption, TokenAssumption
<1> DEFINE s == run[r]
           tok == [key |-> s.key, issued |-> s.since, expires |-> now + Lifetime]
<1>0. TypeOK /\ run \in [Runs -> RunState] /\ s \in RunState
      /\ s.phase = "reply" /\ holder = r /\ now \in Time /\ s.since \in Time
      /\ s.key \in Keys /\ s.target \in Targets /\ longest[s.target] \in Time
      /\ tokens \in [Keys -> Token \cup {NoToken}]
  BY DEF SessionInv, TypeOK, FinishFetch, SerializedRefresh, RunState
<1>1. tok \in Token /\ tok.key = s.key /\ tok # NoToken /\ Sound(tok)
  <2>1. now - s.since <= MaxLatency
    BY <1>0 DEF SessionInv, LocalsFit, Locals
  <2>. QED
    BY <2>1, <1>0 DEF Token, Sound, Time
<1>2. tokens' = [tokens EXCEPT ![s.key] = tok]
  BY DEF FinishFetch
<1>3. run' = [run EXCEPT ![r] =
                [@ EXCEPT !.phase = "call", !.since = now, !.token = tok,
                          !.fresh = TRUE, !.estimate = longest[s.target]]]
  BY <1>0 DEF FinishFetch
<1> HIDE DEF tok
<1>4. run'[r] \in RunState /\ run'[r].phase = "call" /\ run'[r].since = now
      /\ run'[r].token = tok /\ run'[r].key = s.key /\ run'[r].fresh = TRUE
  BY <1>3, <1>1, <1>0 DEF RunState, Phase
<1>5. run' \in [Runs -> RunState] /\ \A q \in Runs : q # r => run'[q] = run[q]
  BY <1>3, <1>4, <1>0
<1>6. holder' = NoRun /\ now' = now /\ longest' = longest /\ waiters' = waiters
  BY DEF FinishFetch
<1>7. tokens' \in [Keys -> Token \cup {NoToken}]
  BY <1>2, <1>1, <1>0
<1>8. TypeOK'
  BY <1>0, <1>5, <1>6, <1>7 DEF TypeOK
<1>9. SerializedRefresh'
  <2>1. \A q \in Runs : q # r => run[q].phase \notin {"fetch", "reply"}
    BY <1>0 DEF SessionInv, SerializedRefresh
  <2>2. \A q \in Runs : run'[q].phase \notin {"fetch", "reply"}
    BY <2>1, <1>4, <1>5
  <2>. QED
    BY <2>2, <1>6 DEF SerializedRefresh
<1>10. TokenOfOwnKey'
  BY <1>1, <1>4, <1>5 DEF SessionInv, TokenOfOwnKey
<1>11. TokensFiled'
  <2>1. \A k \in Keys : tokens'[k] = IF k = s.key THEN tok ELSE tokens[k]
    BY <1>2, <1>0
  <2>. QED
    BY <2>1, <1>1 DEF SessionInv, TokensFiled, Sound
<1>12. LocalsFit'
  <2>1. Locals(run[r])' /\ \A q \in Runs : q # r => Locals(run[q])'
    <3>1. Locals(run[r])'
      BY <1>4, <1>1, <1>0, <1>6 DEF Locals, Sound, Time
    <3>2. \A q \in Runs : q # r => Locals(run[q])'
      BY <1>5, <1>6 DEF SessionInv, LocalsFit, Locals, Sound
    <3>. QED
      BY <3>1, <3>2
  <2>. QED
    BY <2>1 DEF LocalsFit
<1>. QED
  BY <1>8, <1>9, <1>10, <1>11, <1>12 DEF SessionInv

(* The durations grow only while no refresh is under way. *)
LEMMA RecordDurationKeeps ==
  ASSUME SessionInv, NEW r \in Runs, RecordDuration(r)
  PROVE  SessionInv'
<1> USE SessionAssumption
<1>0. TypeOK /\ run \in [Runs -> RunState] /\ holder = NoRun
      /\ run[r].since \in Time /\ run[r].target \in Targets
      /\ longest \in [Targets -> Time]
  BY DEF SessionInv, TypeOK, RecordDuration, Takes, RunState
<1>1. run' = [run EXCEPT ![r] = IdleRun] /\ now' = now /\ tokens' = tokens
      /\ holder' = holder
  BY DEF RecordDuration
<1>2. run'[r] = IdleRun
  BY <1>1, <1>0
<1>3. run' \in [Runs -> RunState] /\ \A q \in Runs : q # r => run'[q] = run[q]
  BY <1>1, <1>0, IdleTyped
<1>4. longest' \in [Targets -> Time]
  BY <1>0 DEF RecordDuration, KeptDuration
<1>5. waiters' \in Seq(Runs)
  BY <1>0, QueueTyped DEF RecordDuration, Takes
<1>6. TypeOK'
  BY <1>0, <1>1, <1>3, <1>4, <1>5 DEF TypeOK
<1>7. SerializedRefresh'
  <2>1. \A q \in Runs : run[q].phase \notin {"fetch", "reply"}
    BY <1>0 DEF SessionInv, SerializedRefresh
  <2>2. \A q \in Runs : run'[q].phase \notin {"fetch", "reply"}
    BY <2>1, <1>2, <1>3, IdleTyped
  <2>. QED
    BY <2>2, <1>0, <1>1 DEF SerializedRefresh
<1>8. TokenOfOwnKey'
  BY <1>2, <1>3, IdleTyped DEF SessionInv, TokenOfOwnKey
<1>9. TokensFiled'
  BY <1>1 DEF SessionInv, TokensFiled, Sound
<1>10. LocalsFit'
  BY <1>1, <1>2, <1>3, IdleTyped DEF SessionInv, LocalsFit, Locals, Sound
<1>. QED
  BY <1>6, <1>7, <1>8, <1>9, <1>10 DEF SessionInv

(* Time only makes a token worse, and an answer arrives in time. *)
LEMMA TickKeeps ==
  ASSUME SessionInv, Tick
  PROVE  SessionInv'
<1> USE SessionAssumption
<1>0. now \in Time /\ now' \in Time /\ now' = now + 1
      /\ run' = run /\ tokens' = tokens /\ longest' = longest
      /\ holder' = holder /\ waiters' = waiters
  BY DEF SessionInv, TypeOK, Tick, Time
<1>1. TypeOK'
  BY <1>0 DEF SessionInv, TypeOK
<1>2. SerializedRefresh'
  <2> SUFFICES ASSUME NEW r \in Runs, run[r].phase = "fetch",
                      ~Outlives(tokens[run[r].key], run[r].target)
               PROVE  ~Outlives(tokens[run[r].key], run[r].target)'
    BY <1>0 DEF SessionInv, SerializedRefresh
  <2>1. tokens[run[r].key] \in Token \cup {NoToken}
        /\ longest[run[r].target] \in Time
    BY DEF SessionInv, TypeOK, RunState
  <2>. QED
    BY <2>1, <1>0 DEF Outlives, Required, Token, Time
<1>3. TokenOfOwnKey' /\ TokensFiled'
  BY <1>0 DEF SessionInv, TokenOfOwnKey, TokensFiled, Sound
<1>4. LocalsFit'
  <2> SUFFICES ASSUME NEW r \in Runs PROVE Locals(run[r])'
    BY DEF LocalsFit
  <2>1. Locals(run[r]) /\ run[r].since \in Time
    BY DEF SessionInv, LocalsFit, TypeOK, RunState
  <2>2. run[r].phase = "reply" => now - run[r].since < MaxLatency
    BY DEF Tick
  <2>. QED
    BY <2>1, <2>2, <1>0 DEF Locals, Sound, Time
<1>. QED
  BY <1>1, <1>2, <1>3, <1>4 DEF SessionInv

LEMMA InvariantHolds == Spec => []SessionInv
<1>1. SessionInv /\ [Next]_vars => SessionInv'
  <2> SUFFICES ASSUME SessionInv, [Next]_vars PROVE SessionInv'
    OBVIOUS
  <2>1. CASE \E r \in Runs : \E k \in Keys, t \in Targets : Start(r, k, t)
    BY <2>1, StartKeeps
  <2>2. ASSUME NEW r \in Runs, Step(r) PROVE SessionInv'
    <3>1. CASE UseCached(r)
      BY <3>1, UseCachedKeeps
    <3>2. CASE BeginFetch(r)
      BY <3>2, BeginFetchKeeps
    <3>3. CASE ProviderAnswers(r)
      BY <3>3, ProviderAnswersKeeps
    <3>4. CASE FinishFetch(r)
      BY <3>4, FinishFetchKeeps
    <3>5. CASE FailFetch(r)
      BY <3>5, FailFetchKeeps
    <3>6. CASE EndCall(r)
      BY <3>6, EndCallKeeps
    <3>7. CASE RecordDuration(r)
      BY <3>7, RecordDurationKeeps
    <3>. QED
      BY <2>2, <3>1, <3>2, <3>3, <3>4, <3>5, <3>6, <3>7 DEF Step
  <2>3. CASE Tick
    BY <2>3, TickKeeps
  <2>4. CASE UNCHANGED vars
    BY <2>4 DEF vars, SessionInv, TypeOK, SerializedRefresh, TokenOfOwnKey,
                TokensFiled, LocalsFit, Locals, Sound, Outlives, Required
  <2>. QED
    BY <2>1, <2>2, <2>3, <2>4 DEF Next
<1>. QED
  BY InitInv, <1>1, PTL DEF Spec

-----------------------------------------------------------------------------
(* Every variable of the session keeps its type in every reachable state. *)
THEOREM TypeCorrect == Spec => []TypeOK
<1>1. SessionInv => TypeOK
  BY DEF SessionInv
<1>. QED
  BY InvariantHolds, <1>1, PTL

(* AuthSession::state is locked across the whole provider request: refreshes
   never overlap, and what a waiting run could have used is used. *)
THEOREM RefreshesSerialized == Spec => []SerializedRefresh
<1>1. SessionInv => SerializedRefresh
  BY DEF SessionInv
<1>. QED
  BY InvariantHolds, <1>1, PTL

(* A protected request always carries a token, filed under the key of the
   run's own project, provider, environment and mode. *)
THEOREM OwnToken == Spec => []TokenOfOwnKey
<1>1. SessionInv => TokenOfOwnKey
  BY DEF SessionInv
<1>. QED
  BY InvariantHolds, <1>1, PTL

(* The margin is enough: a cached token lasts for a call no longer than any
   before it, by the cache's clock and, if the reserve covers the travel time
   of the provider's answer, by the provider's. *)
THEOREM MarginSuffices == Spec => []TokenOutlivesCall
<1> USE SessionAssumption
<1>1. SessionInv => TokenOutlivesCall
  <2> SUFFICES ASSUME SessionInv, NEW r \in Runs,
                      run[r].phase = "call", run[r].token # NoToken,
                      ~run[r].fresh, now - run[r].since <= run[r].estimate
               PROVE  /\ now + Reserve < run[r].token.expires
                      /\ MaxLatency <= Reserve =>
                           now < run[r].token.issued + Lifetime
    BY DEF TokenOutlivesCall
  <2>1. run[r] \in RunState /\ run[r].token \in Token /\ now \in Time
    BY DEF SessionInv, TypeOK, RunState
  <2>2. run[r].since \in Time /\ run[r].estimate \in Time
        /\ run[r].fresh \in BOOLEAN
        /\ run[r].token.expires \in Nat /\ run[r].token.issued \in Time
    BY <2>1 DEF RunState, Token
  <2>3. run[r].token.expires - run[r].since > Reserve + run[r].estimate
        /\ Sound(run[r].token)
    BY <2>2 DEF SessionInv, LocalsFit, Locals
  <2>. QED
    BY <2>1, <2>2, <2>3 DEF Sound, Time
<1>. QED
  BY InvariantHolds, <1>1, PTL
=============================================================================
