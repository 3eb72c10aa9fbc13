# ApiWright, modelled and checked

TLA+ models of the core of ApiWright (the crates `forge-core`, `forge-gui` and
`forge-cli` under `src/crates/`), the TLC configurations that check them and
proofs checked by TLAPS. Paths below are relative to `src/crates/` unless they
start with `docs/`.

## 1. The system

ApiWright is a desktop API client with a command line. The GUI thread draws
`AppState` every frame and talks to one background thread, the *bridge*, over a
channel of commands (`Cmd`) and a channel of events (`Evt`). The bridge owns one
HTTP engine with one cookie jar and one project-auth session, takes commands
strictly in order, and spawns a task for anything that waits on the network. The
CLI calls the same runners without the bridge. There are two kinds of request:
*workspace requests*, run as suites with hooks (`runner/run.rs`), and *request-v1
documents*, run through a pipeline of assets (`reqv1/runner.rs`).

| component | state | operations | talks to | hard part | correct when |
|---|---|---|---|---|---|
| HTTP engine, `forge-core/src/exec/engine.rs` | per call: url, method, headers, body, hop count, handshake states; shared: clients, cookie jar | `execute` | server, jar, cancellation token, timer | retries by `continue` without a counter; credentials across redirects; cancellation at every await | legs are bounded, credentials stay with their origin, cookies follow the host, a cancelled call is silent and ends |
| Cookie jar, `exec/cookies.rs`, and its file, `forge-gui/src/bridge.rs` | jar, `cookie_path`, each workspace's `cookies.json` | store, clear, load, save | every run, workspace switch, shutdown | parallel saves without a lock, switching under a run | cookies stay in their workspace; the file holds the jar once all is quiet |
| Suite runner, `runner/run.rs` | plan, row, position, counters, `runtime_vars` | `run` | engine, scripts, event channel | hooks at static positions, skips, bail, cancellation, rows | each request counted once, hooks bracket their scope, rows are isolated, events and summary agree |
| Request-v1 pipeline, `reqv1/runner.rs` | per document: IR, error flag, diagnostics, assertions, runtime; per sequence: carried runtime | `run*`, `run_sequence*` | engine or mock, JS host, auth session | one error flag set in six places decides what still runs | documented life cycle, truthful status, values carried past failures |
| Project auth session, `reqv1/runner.rs` | tokens, longest durations, one async mutex | `project_auth_header`, `record_duration` | all concurrent v1 runs, the provider | refresh under contention, staleness of a token judged before the call | one refresh at a time and only when needed, own key's token, it outlives the call |
| Run view, `forge-gui/src/app.rs`, `state.rs`, `panels/test_results.rs`, `panels/request_editor.rs` | `RunState`, `RunLog`, `Tab::run_id` | send, run, stop, clear, `drain_bridge_events` | bridge | late and interleaved events of several runs | each view shows its own run, and none for ever |
| Request-v1 editor, `dialogs/v1_editor.rs` | the open document and its two sidecars, the mark of unsaved changes, ids of the run, preview and advice asked for | open, edit, save, autosave, run, preview, `handle_result`, project auth | bridge, file system, the project tree | three files for one request, writes that fail half way, late answers | no edit and no check lost, answers belong to the open request |
| Workspace, `forge-core/src/store`, `panels/collections.rs`, `panels/variables.rs`, `dialogs/env_editor.rs`, `hooks_editor.rs`, `curl_import.rs`, `state.rs`, `local.rs`, `git.rs` | files, the tree loaded from them, tabs with working copies, `ui-state.json` | create, rename, duplicate, delete, save, refactor, revert, commit, leave, return | file system, git | three copies of a request that change separately | what was saved stays, tree and tabs follow the files |
| Console, `panels/console.rs`, `protocols/{websocket,sse}.rs` | connections and their logs; bridge maps of senders and tokens | connect, send, close | bridge, server | close racing connect | what is shown and done is what the connection is |
| License, `license.rs` | license, trial, pending check, two files | activate, re-validate, start a trial, remove | licence servers, clock | a late silent answer after a manual one | Pro is earned, a refusal hits its own key |
| Updater, `updater.rs` | phase, release, staged packages | check, download, verify, skip, install | release host | failing and stopping between steps | only the published build that is shown gets installed |
| History, `forge-core/src/history`, `panels/history.rs`, `app.rs` | one store per workspace, the list, what is ticked | record, prune, filter, compare, delete, clear | run view, workspace switch | recorded into what is open when the run ends | rows tell their run, lists fit the filter |
| Project model: references, index, lock, build, matrix, migration, catalog, bundles, scopes (`reqv1`, `panels/assets.rs`) | files only | pure functions and file operations | file system | reference cycles, aliases, failing writes | see section 2 |
| Variables, assertions, extractors, generated checks (`vars`, `assert`) | none | pure functions | | two formats with one meaning | a migrated check decides as the old one did |
| Import, export, snippets, OpenAPI (`convert`, `openapi`, `reqv1/openapi_generate.rs`) | none | pure functions | | other programs' formats | nothing is lost silently |
| Command line, `forge-cli/src/main.rs`, with the mock server, `reqv1/mock.rs` | none | one command per call | runners, files | selection of documents, exit codes | ran what was asked, told how it ended |

`PROJECT.json` lists the same components with what is and is not modelled, and
the hazards of this code at their lines with the properties that cover them.

## 2. Modules

| module | models | run by | proofs |
|---|---|---|---|
| `HttpEngine` | one `HttpEngine::execute` against an arbitrary server | `MCHttpEngine` | `HttpEngine_proofs` |
| `AuthSession` | concurrent runs over one `AuthSession` | itself (`MCAuthSession.cfg`) | `AuthSession_proofs` |
| `RequestPipeline` | a sequence of request-v1 documents | `MCRequestPipeline` | `RequestPipeline_proofs` |
| `RunStream` | abstract: what a consumer of `RunEvent` may rely on | through `SuiteRun` | |
| `SuiteRun` | `runner::run`; implements `RunStream` | `MCSuiteRun` | `SuiteRun_proofs` |
| `CookieBridge` | the jar, its file, the bridge loop and the runs around them | itself (`MCCookieBridge.cfg`) | `CookieBridge_proofs` |
| `RunView` | the GUI's views of runs, the bridge and the spawned tasks | `MCRunView` | `RunView_proofs` |
| `Desktop` | the windows below side by side, and what they promise together | `MCDesktop` | `Desktop_proofs`, `DesktopWork_proofs` |
| `V1Editor` | the request editor and the three files of a request | through `Desktop` | `DesktopWork_proofs` |
| `Workspace` | a workspace of collections: files, tree, tabs, panels and dialogs | through `Desktop` | |
| `Console` | WebSocket and SSE connections through window, bridge and session | through `Desktop` | `Desktop_proofs` |
| `Licensing`, `Updater` | plan and trial; updates | through `Desktop` | `Desktop_proofs` |
| `History` | execution history | through `Desktop` | `DesktopWork_proofs` |
| `OpenApi`, `CurlSnippets`, `CollectionImports` | conversions | `MCOpenApi`, `MCCurl`, `MCImports`, composed by `MCWorkbench` | |
| `References`, `RequestBuild`, `ProjectFiles` | from references and files to the request on the wire | `MCReferences`, `MCBuild`, `MCProjectFiles`, composed by `MCWorkbench` | |
| `Checks`, `Cli` | what a response is held against; the commands and the mock server | `MCChecks`, `MCCli`, composed by `MCWorkbench` | |

A definition whose comment begins with "Variant" is a plausible mistake in the
definition after it. Nothing uses it; it is there so that each property can be
shown to notice that mistake (`mutants` in `PROJECT.json`).

### HttpEngine

The loop of `run` is cut at its awaits: `pc` is `"leg"` at the top of the loop,
`"sent"` while `builder.send()` is awaited, `"body"` while the body of the final
response is read. `url`, `method`, `body`, `auth`, `userCookie`, `hops`, `chain`,
`digestAnswered`, `ntlm` are the loop's locals; of the headers only
`Authorization` (with the url it was computed for) and the user's `Cookie` are
kept. The jar is the set of hosts it holds a cookie for. The server may give any
response of `Response` to any leg; one action per branch of the loop decides what
happens with it (`AnswerNtlm`, `AnswerDigest`, `FollowRedirect`, `TakeFinal`, and
`RejectResponse` for a challenge or location that does not parse). Not modelled: the client
cache, TLS, proxies, encodings, timings. `wire` is a history of the legs sent.

### AuthSession

`holder` and `waiters` are tokio's FIFO mutex. A run goes `auth` (waiting),
`fetch` and `reply` (holding the mutex across the provider request, before and
after the provider made the token), `call` (the request itself), `record` (waiting
to record its duration). A lookup that finds a usable token has no await between
lock and unlock and is one step. The provider's request is
`execute_without_project_auth`, which does not touch the session. `Tick` moves
the clock; only the answer's travel time is bounded, by `MaxLatency`.

### RequestPipeline

`stage` and `at` walk the entries of the four phases of `execute_without_project_auth`.
Each entry may return any result the code distinguishes: a patch, a throw, an
assertion, an extraction, or a builtin skipped for lack of a response. Headers are
one name, values two; diagnostics are kept as the set of their kinds. `carried` is
the sequence's runtime object. A single run is a sequence of one; the matrix,
previews and the masking of secrets are left out.

`Lifecycle` claims the lifecycle where the format document and the runner agree. They
disagree in two places, and there it claims neither side's rule (both are under `findings`): a throw
ends its phase in the document (line 642) and not in the runner, so a phase need only be gone
through to its end or to an entry that throws; a dynamic mock whose asset
fails is a failed send in the document (lines 621, 712) and no error to the runner, so
`onError` may run or not. A url two hooks rewrite, which line 630 counts among the conflicts,
is reported by neither `apply_patch` nor, therefore, `HeaderClobberReported`.

### SuiteRun and RunStream

`iter` and `idx` are the two loops of `run`. Hooks are computed from the plan as
`hook_scope_bounds`, `run_before_hooks` and `run_after_hooks` do and appended to
`hookLog`; hooks run without an await, so they are part of the step before or after
the request. Of `runtime_vars` the row that wrote a name is kept. Every scope has
all four hooks: a missing one only removes entries from `hookLog`. `RunStream` is
what the run log and the CLI printer rely on: one `RunStarted`, requests that open
and close one at a time, one `RunFinished` whose counts are those of the stream.
`ImplementsStream` is the refinement: its counters are mapped to the events
actually sent, not to the runner's own counters.

### CookieBridge

Cookies are identified with the workspace they were received in. `save_cookies`
is three steps because that is how many locks it takes: the path, the jar, and the
file under none. `LoadCookies` is three as well: clear, restore, set the path. The
initial states are an app with or without a workspace. Quitting is `Shutdown`,
the save, and the drop of the runtime, which waits for what runs do between two
awaits. The command arriving on the channel and the user's next command interleave
freely. Cookie contents, domains and expiry are left out, as are paths that cannot be
created.

### RunView

Runs are numbered by `next_run_id`. `SendTab` and `RunWorkspace` set the progress,
the log and (for a tab) `Tab::run_id`, and send `Cmd::Run`; the bridge registers a
token, spawns the task, and the task's events are forwarded in order. `Drain`
handles one event (`handle_run_event`, `clear_run`). `drained` is a history of the
events handled. The bridge thread is assumed to live, so sends do not fail.

### V1Editor

`ed` is the editor's state as far as edits and answers touch it: the file and
project, the text, the two lists of entries, the dirty mark, the form and the entry it
was filled from, the ids of the last run, preview and advice, and what is shown of
them. A document is a body, a mark and the checks written inline; opening, previewing
and saving move inline checks to the sidecars (`load_request_document`, `save_now`). A
save is up to three writes, and each action that saves takes the write that fails as
its input `w`. `External` is any other program, and the explorer, changing the file
below the editor. History variables: `owed`, the checks the request has for its user;
`lost`, how edits were dropped; `touched`, files changed from outside. Left out: the reload of
the open file after its folder was beautified (`v1_editor.rs:449`), and the deletion from outside of
the request the project's auth names.

### Workspace

`disk` holds folders with their metadata (name, order, hooks), requests, environments
and secrets, `tree` what the app loaded of them, `bar` the tabs. A path is the sequence of its file names, so
renaming a folder moves what is below. The operators of the first part are
the functions of `store/ops.rs` from store to store; an operation that is
refused gives the store as the code leaves it (`RenameFolder` has saved the new display
name by then). Actions of the panels end with `Reloaded`, because their handlers do;
`SaveTabs` does not, because `save_tab` does not. The history variables make
the exceptions of the properties exact: `kept` is what each file owes the user (a request its
definition, a folder the name and the hooks it was given), `stale`
the requests saved since the tree was loaded, `pulled` those whose file was changed
beside an open tab and the folders to which git gave back an order listing what was
never committed, `behind` says that a reload failed or that a refactoring stopped half way.
Left out: format versions, creating a workspace, moving and reordering (no caller), git
branches and worktrees, variables of collections and folders, the response of a tab.

### Console, Licensing, Updater, History

`Console`: a connection is a record of the session task, its queues to the peer, the
bridge and the window, its registration in the bridge and what the window shows;
`cmds` is the bridge's channel. The peer answers, stays mute or goes away.
`Licensing`: a blob is what a server may answer, honest or not; `stored` is the two
files, which anybody may edit or delete (`EditLicense`, `EditTrial`, counted in `faults`). A license
that is not genuine opens nothing; a trial file is not signed, so `begun` holds every day a trial
began, a date written into `trial.json` included, and `ProIsEarned` promises that Pro ends with the
last of them. `Updater`: `cache` holds the staged
and partial packages by version; stopping the app, and failures of each file operation,
may come between any two steps. `History`: a run is recorded when it ends, while the request, the environment
and the workspace may have changed; rows carry the run they were made for as a history. `snaps` is
the environment in each workspace's `ui-state.json`: `Switch` leaves the current one behind, whole,
torn or not at all, and takes over that of the workspace it opens.

### OpenApi, CurlSnippets, CollectionImports, References, RequestBuild, ProjectFiles, Checks, Cli

These parts have no state between calls. Each module translates the functions, then
states what they owe each other as predicates on one input; the MC module of that name
defines the inputs and the predicate `Holds`; `MCWorkbench` picks one input at a time.
Texts are short sequences of the atoms the code tells apart, JSON values small records,
a disk a function from paths to contents; the only failures are those of writing, before
or in the middle of a file. What holds:

- OpenAPI: applying an operation makes a request match it, once and for all
  (`ApplySettles`); generated examples satisfy their schemas; contract checks accept a
  response that follows the schema; a suite has a file for every operation; a parameter
  of the operation replaces the path's and no other is lost; ids stay distinct;
  inlining of references ends.
- curl and snippets: a request copied as curl and pasted back makes the same exchange
  (`RoundTrip`): method, address as it is encoded on the wire, headers with the content type the engine
  derives from the body, credentials and body. `Portable` lists what a command does not carry
  whole, and `RoundTrip` is an equivalence, so that list is exact: no request on it
  survives and every other does. The snippets spell out the same call, and the place of the address in a command does
  not matter.
- Imports: what a request loses on its way in is reported, every item becomes one item or one
  note, secrets are kept apart, the order in which the file system lists a folder does not matter.
- References: what the asset browser offers resolves to its asset; no reference leads
  out of the project; what the index calls broken cannot be loaded; a patch is local to its
  reference; a project that verifies against its lock reads the same data, but for what the lock leaves open
  (`Unlocked`): schemas, and data outside `assets/` or in a directory the scan ignores.
- Build: bindings resolve in an order that serves each of them; every secret a request
  names is masked in what is shown; a migrated request sends what the original sends, unless
  `Altered` says why not; so does the curl line of an exported one, if no value of
  its query needs the percent-encoding a run gives it.
- Files: a bundle restores what was exported; import, export, adding and creating touch
  nothing else, also when a write fails; the preview of a migration foretells it;
  beautifying keeps values; a scope holds below its node; splitting keeps each step once.
- Checks: a migrated check or extractor decides as the legacy one; checks generated
  from a response accept it, and pin it; both contract evaluators agree; a form saved as shown keeps
  its entry.
- Command line: a run executes, and its exit code tells, what was selected
  (`RunIsHonest`); a folder stands for its documents; sequences run their own documents;
  the exit contract of `docs/wiki/cli.md` holds; the server answers with a route that matches; the last
  line of `.env.local` wins. A document selected twice runs once if it is spelled the same way both times
  (`main.rs:1134` compares paths as they are written).

Where the code makes an exception the predicate names it, in a definition of its own with the reason; the
findings of section 3 are those a document or a comment of the repository contradicts.

## 3. Runs

| run | bounds | distinct states | checks |
|---|---|---|---|
| `http_engine` | 3 origins on 2 hosts, 2 redirects, 4 requests | 590 000 | `LegBudget`, `CredentialsStayWithOrigin`, `RedirectsFaithful`, `CookiesFollowHost`, `SilentAfterCancel`, `Terminates` |
| `auth_session` | 2 runs, 2 keys, 2 targets, clock to 2, lifetime 3, reserve 1 | 150 000 | `SerializedRefresh`, `TokenOfOwnKey`, `TokenOutlivesCall`, `EveryRunReturns` |
| `request_pipeline` | 4 plans of up to 4 documents, 1 variable, 2 values | 70 000 | `Lifecycle`, `StatusTellsAll`, `HeaderClobberReported`, `RuntimeThreaded`, `SequenceEnds` |
| `suite_run` | 4 suites of up to 3 requests, 2 scopes, 0 to 2 rows | 140 000 | `HooksBracket`, `RowsIsolated`, `BailStops`, `ImplementsStream`, `QuietAfterCancel`, `RunEnds` |
| `cookie_bridge` | 2 workspaces, 2 runs, 4 commands | 680 000 | `OwnCookiesUnlessStraddled`, `SettledJarIsSaved` |
| `run_view` | 2 requests (one skipped in runs), 2 runs | 300 000 | `ViewIsOwn`, `StopReaches`, `RunsLeaveView` |
| `desktop` | per window, see below | 960 000 | `EditorSound`, `FilesSound`, `ServicesSound`, `ConsoleSound`, `HistorySound` |
| `workbench` | the enumerated inputs | 486 000 | `ConversionsSound`, `ProjectSound`, `RuntimeSound` |

`desktop` composes the six windows that share no state (`Desktop`; `MCDesktop` gives its
constants values). One of them, `focus`, moves in a
behaviour, the others hold nothing, so the run covers each one's state space instead of
their product; workspaces of the history that look alike are told apart once; its five invariants are conjunctions of the windows' named ones:
`EditorSound` of `V1Editor`, `FilesSound` of `Workspace`, `ServicesSound` of
`Licensing` and `Updater`. Bounds: the editor has 3 requests in 2 projects (one unreadable), 4 user
actions and one failing write, enough to migrate, fail, edit and save again. The plan has 2 keys,
4 answers, 4 days, one question and one edit of the files at a time. The updater sees 5 releases, 2 checks and 2
failures. The console has 2 connections, one of each protocol at least, with one
message each way. The history has 2 workspaces, 3 runs and a limit of 2 rows,
so that pruning happens. The workspace is explored from four scenes: 2 changes and an edit
with one tab; 1 change and an edit with 2 tabs and colliding names; 2 changes of
environments and variables; 1 change with a failed write or a spoiled file.

`workbench` takes one step per input; a property of that step compares what the
functions make of it. The inputs combine every value the code branches on (row
on or off, absent or present, text with or without the special atom) with one or two
neighbours; longer ones repeat these cases.

Each passing run but `workbench` also checks its modules' `TypeOK`. Why the bounds of the first six are enough:
three origins give a redirect to another port of the same host, to another host,
and back, and two redirects plus both handshakes give every order of challenge and
redirect; two runs are what it takes to contend for the mutex, to overlap in the
view, or to straddle a workspace switch, and the code treats a third alike; a clock of 2 with
lifetime 3 lets a token go from usable to too short for the recorded duration;
two rows give a first and a last; three requests give a first, a last and one
skipped at either end. `CHECK_DEADLOCK FALSE` is set throughout because every one
of these systems may really stop: calls return, runs end, the user does nothing
more.

Four runs check one statement of the repository each, and find it violated:

- `pipeline_throw`: `docs/architecture/request-format-v1.md:642` says a hook that
  throws aborts the rest of its phase; the code runs the remaining hooks.
- `suite_after_all`: `model/hooks.rs:27` says afterAll runs once after the last
  request executes; it does not when that request has no response.
- `cookie_foreign`: `bridge.rs:778` clears the jar on load so that cookies do not
  reach another workspace's file; a run under way puts them there, in either
  direction (the path is set after the jar was restored).
- `run_view_tab`: `state.rs:77` says a tab's run id means that a send is in flight;
  a send whose request is skipped leaves it set for ever.

Twenty-five more disagreements were met while translating and are listed under `findings`
without a run of their own. The models follow the code there, and the properties name the
exception. Those with the widest reach: `run-sequence` loses the declared order and joins a
relative root twice (`main.rs:1134`, `:1129`); an empty matrix ends in exit code 0; a mock
override with a wildcard never replaces its route; `query_one` accepts several matches;
migration drops the content type of raw bodies; choosing the open request again drops its edits
(`v1_editor.rs:466`); a failed import leaves a torn file; `save_tab` leaves the tree as it was
loaded, so reopening or refactoring brings old definitions back (`app.rs:1675`); a copied curl
command drops the content type of its body (`curl_out.rs:106`); a lock misses data in ignored
directories (`index.rs:446`); renaming a folder and reverting with git leave open tabs behind;
switching workspaces drops unsaved tabs with autosave on.

Fairness. Safety needs none. The liveness properties assume weak fairness of
the program's own steps and none of the user's or of time: an engine call ends because
`tokio::time::timeout` wraps all of it; runs and documents go on because their engine calls
end; tasks and the bridge loop are scheduled by tokio; the mutex is FIFO; the GUI
drains its events every frame and the bridge asks for a repaint with every event.

## 4. Proofs

Each theorem has the form `Spec => []Inv` (or `[][A]_vars`, or the abstract
specification) and holds for every value of the constants that satisfies the
assumptions of its module, which TLC evaluates in the module's run. In each proof
module one inductive invariant carries all theorems; it was checked by TLC over the
run's states before it was proved, and each action has a lemma that says it is kept.

| proofs | theorem | states | over |
|---|---|---|---|
| `HttpEngine_proofs` | `TypeCorrect`, `LegBudgetHolds`, `CredentialsHold`, `RedirectsHold`, `CookiesHold`, `CancelHolds` | every safety property of `http_engine` | origins, hosts, paths, requests, jars, `MaxRedirects` |
| `AuthSession_proofs` | `TypeCorrect`, `RefreshesSerialized`, `OwnToken`, `MarginSuffices` | every safety property of `auth_session` | runs, keys, targets, clock, lifetime, reserve, latency |
| `RequestPipeline_proofs` | `TypeCorrect`, `LifecycleHolds`, `StatusIsTruthful`, `ClobbersReported`, `RuntimeIsThreaded` | every safety property of `request_pipeline` | plans, documents, variables, values |
| `CookieBridge_proofs` | `TypeCorrect`, `CookiesStayHome`, `JarIsSaved` | every property of `cookie_bridge` | workspaces, runs, commands |
| `SuiteRun_proofs` | `TypeCorrect`, `HooksHold`, `RowsAreIsolated`, `BailIsFinal`, `CancelIsQuiet`, `StreamImplemented` | every safety property of `suite_run` and the refinement of `RunStream` | suites, chains of scopes, rows, variables |
| `RunView_proofs` | `TypeCorrect`, `ViewHolds`, `StopIsNeverLost` | every safety property of `run_view` | requests, plans, runs |
| `Desktop_proofs` | `ServicesHold`, `ConsoleHolds` | `ServicesSound` and `ConsoleSound` of `desktop` | keys, servers, days, releases, builds, connections, messages |
| `DesktopWork_proofs` | `HistoryHolds`, `EditorHolds` | `HistorySound` and `EditorSound` of `desktop` | workspaces, environments, filters, limit, runs; projects, requests, documents, checks, steps, failing writes |

**HttpEngine** (`EngineAssumption`). The legs on the wire are not bounded by any
counter of the code, so `LegBudget` needs an invariant that ties them to the loop's
state: their number is the retries taken so far (`hops`, the digest flag, the NTLM
state) plus one once the current leg is out, and the flags only move when the request
has the credentials for them. For `CredentialsStayWithOrigin` the user's headers are still in
`current_headers` only while every leg so far went to the first origin and the
current url is there too, and the current `Authorization` was computed for the
current origin. `LoopInv` adds what redirects and cookies need: the legs of the
current hop were sent with what the loop holds now (`HopInv`), and the jar remembers
each host the history says set a cookie (`JarInv`).

**AuthSession** (`SessionAssumption`, `TokenAssumption`). `SessionInv`: the mutex is
held exactly in the phases `fetch` and `reply`, so neither the cache nor the
durations move under a refresh, and time only makes an unusable token worse; that is
why a fetch stays needed until its answer. `TokensFiled` says that a cached token is
filed under its own key and is credited with at most its lifetime plus the time its
answer travelled. `LocalsFit` fixes, phase by phase, what a run's clock, token and
estimate are: without it a token kept from an earlier phase could reach a call.

**RequestPipeline** (`PipelineAssumption`). One flag, `error`, is set in six places
and decides what still runs, so `PipelineInv` has to say what it stands for in each
stage: `Behind` relates it, the response and the trace for the phases that are over,
`ErrorsTold` the diagnostics, and `TraceFits` says that the trace ends where the walk
over the entries stands. `HeadersTold` keeps every header that was ever
written equal to the current one until a conflict was reported.

**CookieBridge** (`CookieAssumption`). The user is ahead of the bridge by whatever is
in the channel. `QueueFits` says in which workspace each waiting command will be
taken: that of the last load before it, or the current one. With it a run
starts in the workspace it was sent from, unless it straddles a switch, and `OwnWorld` keeps
jar, files and the copies between them apart. `SaveDue` is the other half: the jar is
in the file, on its way there, or a run is going that will save it; `OneSave` is
why, without a race, the copy on its way is the jar.

**SuiteRun** (`SuiteAssumption`: a request's scopes are the folders on its path, so
none comes twice). `SuiteInv` relates the loop's counters to the
events sent: `Placed` counts the requests behind (rows times requests, plus the
position), `Told` says that the counters are the numbers of events of their kind, and
`Bailed` that a failure under bail is remembered by `stop` across rows. For
`StreamImplemented` each action is shown to be a step of `RunStream` under the mapping, or to
leave what the stream shows unchanged. For `HooksHold`, which speaks of what ran before
what in a log of any length, `HooksInv` gives each call a place: its row, its
request, and its rank among the hooks of that request, which grows from the outermost
beforeAll in to the innermost beforeEach and back out. The log is in strictly that order
(`HookOrder`), so no call is there twice; each was due where it stands (`CallFits`);
nothing in it is ahead of the loop (`PastAt`); and afterEach hooks come all together or
not at all (`Paired`). That one step's hooks are themselves in order is proved from
`Concat`, piece by piece (`Laid`).

**RunView** (`ViewAssumption`: the plan lists each request once, since `plan_requests` walks the tree).
What a view shows and where the run's task is are apart by whatever events are under
way. `Traced` therefore asks for a witness: a progress of every run before each event
in the channel, the first as shown, the last as the task stands, with each event
leading from one to the next. Emitting appends to the witness, draining drops its
head. `Queued` and `Fresh` say that a run is sent once, cancelled only after that, and
is nowhere before; that is what `StopReaches` rests on.

**Desktop** (`BlobsAssumption`, `DaysAssumption`, `UpdaterAssumption`,
`ConsoleAssumption`: the absent value is no value, protocols are those there are).
Only the window in focus takes steps, so `WindowsInv` has an invariant for each.
`PlanInv`: whatever license is in use, stored or being answered is genuine and within
what was granted, a trial in use or stored began on a day of `begun`, and a silent check under way is about the license in use.
`UpdaterInv`: what a download holds has passed the comparison with its checksum from
`fetched` on, and is the partial file from `written` on; nothing is staged while a
download runs. `ConsoleInv` has a part for each connection on its own (`ConnInv`:
who knows of it, which news of its end is on the way, what became of the wish to end
it), a part that relates it to the channel (`Arrived`: what was sent is on its way, queued or
arrived), and one for the channel (`EachFits`, `ConnectsCome`: a connection's connect
comes first and once). A step of one connection is then a lemma about one record,
and `ConnChanges` lifts it to the console.

**History** (`HistoryAssumption`: `None` is no number, and no filter is a filter). A row has
three ages: when its run began, when it was recorded, and when it is looked at.
`HistoryInv` says for each run under way what still agrees with the app (`RunFits`), with
marks for what the user, or a workspace that was opened, changed since, and for each row that it agrees with its run up to
those marks (`RowFits`). `StoreOk` keeps the ids of a store increasing
and below `next`; since `next` is never reused, an id that was listed or ticked
names that row or none (`Listed`, `Ticks`), whatever was pruned,
deleted or added meanwhile. The query is shown to give exactly the newest rows that pass,
newest first: `PicksTo` describes the list built so far by the places it was taken from.

**Request editor** (`V1Editor`; `EditorAssumption`: `None` is no request or project, requests belong to
projects, documents have a body, and a document without inline checks exists). Three parts
of `EditorInv` go beyond the properties. `Held`: a clean document has no inline checks left to
move, without which opening and saving would not end in what the files hold. `AskedOk`: a
question whose id is still the active one was asked about what is open; ids only grow, so a late
answer either belongs or is dropped, and every action that opens, edits or selects has to
restore it. `FormOk`: at most one entry of all the lists is edited, so that inserting or
removing cannot move another list's entry under the form. That `owed` is kept by every
save, whichever of its writes fails, rests on lemmas about `Extract` and `SaveNow`: taking checks out puts them
behind those that are there, and nothing is left to take out a second time (`ExtractIs`,
`SaveOutcome`). The bounds of this theorem are those of the model, not of an instance: at most one
inline check of a kind in a document, writes that fail whole.

Proving `ViewInv` found a fault of the model: two alternatives of a `CASE` in `RunView`
overlapped. TLC takes the first that applies, as the code does, but TLA+ leaves the choice open, and the proof
failed on it; it is now an `IF`. The modules without proofs have such a `CASE` in some places still;
there it is to be read in order, as TLC does.

Some of these facts are about recursive functions: the pieces of a log laid end to
end, a list of rows built one by one. The library's
induction theorems cannot be instantiated by the installed provers, so
`SuiteRun_proofs` and `DesktopWork_proofs` prove induction over a *set* of numbers first:
`Least` finds a least element of any non-empty set of naturals, from the well-foundedness
of `<` on `Nat`, and `Inductive` concludes that a set with 0 and with every successor of its members is all of `Nat`. A
recursive function is described by a relation between neighbouring values; the set in
question is that of the lengths for which the claim holds.

Only model-checked are:

- the liveness properties (`Terminates`, `EveryRunReturns`, `SequenceEnds`,
  `RunEnds`, `RunsLeaveView`): TLAPS does not prove liveness under fairness here;
- `FilesSound` of `desktop`: the workspace's operations rebuild whole trees, rename every path
  below a folder and every variable in every request, with folds and sorts of the
  library whose results the provers cannot see; each operation would need a
  theory of paths of its own before the first invariant could be stated;
- the properties of `workbench`: they compare what functions on texts, JSON values and
  file trees compute, much of it with RECURSIVE operators, which tlapm does not take.

## 5. Plan

Done, in this order: the engine, the auth session, the pipeline, the suite runner with
its abstract stream, the cookie bridge, the run view; then the request editor, the
console, the licence, the updater, the history and the workspace, composed in
`Desktop`; the pure parts, composed in `MCWorkbench`; the proofs of section 4.

What is left:

1. `Workspace`: `CleanMeansSaved` and `SavedStays` as theorems, from an invariant that
   relates tree, tabs and files and from lemmas about what moving a folder does to a path.
2. A model of cookie matching (domain, path, expiry) below `CookieBridge`.

## 6. Not modelled

- Rendering, theme, keymap, settings, search, the tour and the terminal: no state that
  outlives a frame and that another part relies on, or files read once.
- The advisor and Jira: external programs and services, each asked by one call. What
  the editor does with a late piece of advice is in `V1Editor`.
- Script engines (`forge-core/src/script`): foreign interpreters. The runner and the
  pipeline take any outcome of a script.
- gRPC and GraphQL: one call each, with the state of the call only; protobuf and
  schema handling is data.
- Of the engine: the client cache, TLS, proxies, encodings and timings. Of the jar:
  which cookie matches which url, and a write of `cookies.json` torn half way.
- Of the workspace: format versions, creating one, moving and reordering (the app
  has no caller for them), git branches and worktrees, variables of collections and folders.
- Of the command line: printing.

What else a modelled module leaves out is said with it in section 2.
