----------------------------- MODULE AuthSession -----------------------------
(***************************************************************************)
(* The project-auth session of reqv1/runner.rs: concurrent runs share one  *)
(* cache of bearer tokens and of observed request durations, behind one    *)
(* tokio mutex that is held across the provider request.                   *)
(***************************************************************************)
EXTENDS Integers, Sequences

CONSTANTS
  Runs,        (* concurrently spawned runs sharing the session *)
  Keys,        (* AuthCacheKey: project, provider, environment, settings, mode *)
  Targets,     (* request files *)
  Protected,   (* the targets project auth applies to *)
  Lifetime,    (* lifetime_seconds *)
  Reserve,     (* refresh_before_seconds *)
  MaxLatency,  (* how long a provider's answer travels, at most *)
  MaxTime,     (* bound on the model's clock *)
  NoRun,
  NoToken

ASSUME SessionAssumption ==
  /\ Protected \subseteq Targets
  /\ Lifetime \in Nat /\ Reserve \in Nat /\ Reserve < Lifetime
  /\ MaxLatency \in Nat /\ MaxTime \in Nat
  /\ NoRun \notin Runs
  /\ Keys # {} /\ Targets # {}

VARIABLES
  now,      (* Instant::now() *)
  holder,   (* who holds AuthSession::state *)
  waiters,  (* the mutex's FIFO queue *)
  tokens,   (* AuthSessionState::tokens *)
  longest,  (* AuthSessionState::durations_ms, 0 when absent *)
  run       (* each run's progress and locals *)

vars == <<now, holder, waiters, tokens, longest, run>>

Time == 0..MaxTime

(* issued: when the provider made the token; expires: what the cache says *)
Token == [key : Keys, issued : Time, expires : Nat]

ASSUME TokenAssumption == NoToken \notin Token

(* "idle"; "auth" and "record" wait for the mutex; "fetch" and "reply" hold it
   across the provider request, before and after the provider answered. *)
Phase == {"idle", "auth", "fetch", "reply", "call", "record"}

RunState == [phase : Phase, key : Keys, target : Targets,
             token : Token \cup {NoToken}, fresh : BOOLEAN,
             since : Time,        (* when this phase's clock started *)
             estimate : Time]     (* duration the margin was computed for *)

IdleRun == [phase |-> "idle", key |-> CHOOSE k \in Keys : TRUE,
            target |-> CHOOSE t \in Targets : TRUE, token |-> NoToken,
            fresh |-> FALSE, since |-> 0, estimate |-> 0]

-----------------------------------------------------------------------------
Init ==
  /\ now = 0
  /\ holder = NoRun
  /\ waiters = <<>>
  /\ tokens = [k \in Keys |-> NoToken]
  /\ longest = [t \in Targets |-> 0]
  /\ run = [r \in Runs |-> IdleRun]

(* refresh_before_seconds plus the longest run of the target.  Variant: the
   duration is not added. *)
RequiredReserve(t) == Reserve
Required(t) == Reserve + longest[t]

(* The lookup by AuthCacheKey.  Variant: any token of the session. *)
AnyCached(k) ==
  IF \E j \in Keys : tokens[j] # NoToken
    THEN tokens[CHOOSE j \in Keys : tokens[j] # NoToken] ELSE NoToken
Cached(k) == tokens[k]

(* The maximum is kept. *)
KeptDuration(old, new) == IF old < new THEN new ELSE old

(* CachedAuth reused: it outlives the reserve plus the longest run seen. *)
Outlives(tok, t) ==
  /\ tok # NoToken
  /\ tok.expires - now > Required(t)

Takes(r, phase) ==
  /\ run[r].phase = phase
  /\ holder = NoRun
  /\ waiters # <<>> /\ Head(waiters) = r
  /\ waiters' = Tail(waiters)

(* execute: a run of a target outside applyTo, or with explicit auth, goes
   straight to the request. *)
Start(r, k, t) ==
  /\ run[r].phase = "idle"
  /\ \/ /\ t \in Protected
        /\ run' = [run EXCEPT ![r].key = k, ![r].target = t, ![r].phase = "auth"]
        /\ waiters' = Append(waiters, r)
     \/ /\ t \notin Protected
        /\ run' = [run EXCEPT ![r].target = t, ![r].phase = "call",
                              ![r].since = now]
        /\ UNCHANGED waiters
  /\ UNCHANGED <<now, holder, tokens, longest>>

(* Lock, look up, unlock without an await in between. *)
UseCached(r) ==
  /\ Takes(r, "auth")
  /\ Outlives(Cached(run[r].key), run[r].target)
  /\ run' = [run EXCEPT ![r].phase = "call", ![r].since = now,
                        ![r].token = Cached(run[r].key),
                        ![r].estimate = longest[run[r].target]]
  /\ UNCHANGED <<now, holder, tokens, longest>>

(* Variant: the mutex is given back before the provider request. *)
BeginFetchUnlocked(r) ==
  /\ Takes(r, "auth")
  /\ ~Outlives(Cached(run[r].key), run[r].target)
  /\ holder' = NoRun
  /\ run' = [run EXCEPT ![r].phase = "fetch"]
  /\ UNCHANGED <<now, tokens, longest>>

(* Variant: the provider request is itself run with project auth, and so
   waits for the mutex it is made under. *)
BeginFetchAuthorized(r) ==
  /\ run[r].phase = "auth" /\ holder = NoRun
  /\ waiters # <<>> /\ Head(waiters) = r
  /\ ~Outlives(Cached(run[r].key), run[r].target)
  /\ holder' = r
  /\ waiters' = Append(Tail(waiters), r)
  /\ UNCHANGED <<now, tokens, longest, run>>

BeginFetch(r) ==
  /\ Takes(r, "auth")
  /\ ~Outlives(Cached(run[r].key), run[r].target)
  /\ holder' = r
  /\ run' = [run EXCEPT ![r].phase = "fetch"]
  /\ UNCHANGED <<now, tokens, longest>>

(* execute_without_project_auth runs the provider's request; the provider
   makes a token, whose lifetime starts here. *)
ProviderAnswers(r) ==
  /\ run[r].phase = "fetch"
  /\ run' = [run EXCEPT ![r].phase = "reply", ![r].since = now]
  /\ UNCHANGED <<now, holder, waiters, tokens, longest>>

(* The answer arrives: the cache counts the lifetime from here, and this run
   uses the token whether or not it outlives the call. *)
FinishFetch(r) ==
  /\ run[r].phase = "reply"
  /\ LET tok == [key |-> run[r].key, issued |-> run[r].since,
                 expires |-> now + Lifetime] IN
       /\ tokens' = [tokens EXCEPT ![run[r].key] = tok]
       /\ run' = [run EXCEPT ![r].phase = "call", ![r].since = now,
                             ![r].token = tok, ![r].fresh = TRUE,
                             ![r].estimate = longest[run[r].target]]
  /\ holder' = NoRun
  /\ UNCHANGED <<now, waiters, longest>>

(* The provider run did not pass, answered without 2xx, or its token is not
   a non-empty string: the run fails, the cache keeps its old entry. *)
FailFetch(r) ==
  /\ run[r].phase \in {"fetch", "reply"}
  /\ holder' = NoRun
  /\ run' = [run EXCEPT ![r] = IdleRun]
  /\ UNCHANGED <<now, waiters, tokens, longest>>

(* Variant: the elapsed time the wrong way round. *)
EndCallBackwards(r) ==
  /\ run[r].phase = "call"
  /\ run' = [run EXCEPT ![r].phase = "record", ![r].since = run[r].since - now]
  /\ waiters' = Append(waiters, r)
  /\ UNCHANGED <<now, holder, tokens, longest>>

(* The request ends; record_duration queues for the same mutex. *)
EndCall(r) ==
  /\ run[r].phase = "call"
  /\ run' = [run EXCEPT ![r].phase = "record", ![r].since = now - run[r].since]
  /\ waiters' = Append(waiters, r)
  /\ UNCHANGED <<now, holder, tokens, longest>>

RecordDuration(r) ==
  /\ Takes(r, "record")
  /\ longest' = [longest EXCEPT ![run[r].target] =
                   KeptDuration(@, run[r].since)]
  /\ run' = [run EXCEPT ![r] = IdleRun]
  /\ UNCHANGED <<now, holder, tokens>>

Tick ==
  /\ now < MaxTime
  /\ \A r \in Runs : run[r].phase = "reply" => now - run[r].since < MaxLatency
  /\ now' = now + 1
  /\ UNCHANGED <<holder, waiters, tokens, longest, run>>

Step(r) ==
  \/ UseCached(r) \/ BeginFetch(r)
  \/ ProviderAnswers(r) \/ FinishFetch(r) \/ FailFetch(r)
  \/ EndCall(r) \/ RecordDuration(r)

Next ==
  \/ \E r \in Runs : Step(r) \/ \E k \in Keys, t \in Targets : Start(r, k, t)
  \/ Tick

(* Every spawned task is scheduled, the engine's timeout ends every request,
   and tokio's mutex is fair; the user starts runs at will. *)
Spec == Init /\ [][Next]_vars /\ \A r \in Runs : WF_vars(Step(r))

-----------------------------------------------------------------------------
TypeOK ==
  /\ now \in Time
  /\ holder \in Runs \cup {NoRun}
  /\ waiters \in Seq(Runs)
  /\ tokens \in [Keys -> Token \cup {NoToken}]
  /\ longest \in [Targets -> Time]
  /\ run \in [Runs -> RunState]

(* "Refreshes are serialized within the session to avoid duplicate concurrent
   fetches" (docs/wiki/authentication.md): there are never two provider
   requests at once, and one is only made when the session holds no token for
   the run's key that would do - who waited during a refresh uses its result. *)
SerializedRefresh ==
  \A r \in Runs :
    /\ run[r].phase \in {"fetch", "reply"} <=> holder = r
    /\ run[r].phase = "fetch" =>
         ~Outlives(tokens[run[r].key], run[r].target)

(* A protected request never goes out without a token, nor with the token of
   another environment, mode, provider or project. *)
TokenOfOwnKey ==
  \A r \in Runs :
    run[r].phase = "call" /\ run[r].target \in Protected =>
      run[r].token # NoToken /\ run[r].token.key = run[r].key

(* A run given a cached token, and taking no longer than any earlier run of
   its target, ends before the refresh reserve begins - although other runs
   refreshed, failed and recorded longer durations meanwhile; and if the
   reserve covers the travel time by which the cache's expiry lags the
   provider's, the server never sees an expired token from it. *)
TokenOutlivesCall ==
  \A r \in Runs :
    LET s == run[r] IN
      s.phase = "call" /\ s.token # NoToken /\ ~s.fresh
        /\ now - s.since <= s.estimate
      => /\ now + Reserve < s.token.expires
         /\ MaxLatency <= Reserve => now < s.token.issued + Lifetime

(* Nobody waits forever: the provider request does not need the mutex it is
   made under, and every path gives the mutex back. *)
EveryRunReturns == \A r \in Runs : run[r].phase # "idle" ~> run[r].phase = "idle"
=============================================================================
