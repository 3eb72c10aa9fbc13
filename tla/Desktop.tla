--------------------------------- MODULE Desktop ---------------------------------
(***************************************************************************)
(* The desktop app's windows that keep state of their own: the plan, the    *)
(* updater, the console, the history, the request editor and the workspace  *)
(* of collections.  They share no state, so one of them, the focus, is      *)
(* explored at a time.                                                      *)
(***************************************************************************)
EXTENDS Licensing, Sequences

CONSTANTS
  Projects, Requests, RootOf, Stored, TypedDocs, Checks, Unreadable,
  MaxList, MaxSteps, MaxMisses,                    (* V1Editor *)
  Releases, Builds, Platforms, MaxChecks, MaxBreaks,  (* Updater *)
  Protocols, MaxConnections, MaxOut, MaxIn, MaxClicks, (* Console *)
  Workspaces, Envs, Methods, Statuses, Filters, Sizes, MaxBody, Limit,
  MaxRuns, MaxAtOnce, MaxTurns,                    (* History *)
  Scenes, Vars                                     (* Workspace *)

VARIABLES
  focus,
  disk, authOn, ed, questions, setting, owed, lost, touched, steps, misses,
  upd, call, cache, skipped, installed, nagged, checks, breaks,
  conns, active, cmds, bridge, clicks,
  ws, env, defs, snaps, stores, ui, running, made, turns,
  scene, files, tree, head, bar, snapshot, hooking, autosave, kept, stale, pulled, behind, changes, edits, slips

Edit1 == INSTANCE V1Editor WITH Typed <- TypedDocs, asked <- questions, faults <- misses, MaxFaults <- MaxMisses
ASSUME EditorAssumption ==
  /\ None \notin Requests \cup Projects /\ RootOf \in [Requests -> Projects] /\ Checks # {} /\ MaxSteps \in Nat
  /\ TypedDocs \subseteq Edit1!Doc /\ \A doc \in TypedDocs : doc.body # None
  /\ \E doc \in TypedDocs : Edit1!Parses(doc) /\ doc.inline = Edit1!NoChecks
  /\ \A d \in Stored : /\ d \in [Requests -> [doc : Edit1!Doc, lists : Edit1!Lists]]
                       /\ \A r \in Requests : d[r].doc = Edit1!Absent \/ d[r].doc.body # None
editing == <<disk, authOn, ed, questions, setting, owed, lost, touched, steps, misses>>

Update1 == INSTANCE Updater WITH faults <- breaks, MaxFaults <- MaxBreaks
ASSUME UpdaterAssumption ==
  /\ None \notin Releases /\ Update1!Torn \notin Builds
  /\ None \notin [op : {"check"}, manual : BOOLEAN] \cup
       [op : {"download"}, release : Releases, stage : {"asked", "fetched", "written", "removed"},
        bytes : Builds \cup {None}]
updating == <<upd, call, cache, skipped, installed, nagged, checks, breaks>>

Console1 == INSTANCE Console
ASSUME ConsoleAssumption == Protocols \subseteq {"ws", "sse"} /\ MaxConnections \in Nat
talking == <<conns, active, cmds, bridge, clicks>>

History1 == INSTANCE History
ASSUME HistoryAssumption ==
  /\ None \notin Nat /\ Statuses \subseteq Nat /\ Sizes \subseteq Nat /\ MaxBody \in Nat /\ Limit \in Nat
  /\ History1!NoFilter \in Filters
recording == <<ws, env, defs, snaps, stores, ui, running, made, turns>>

Work1 == INSTANCE Workspace WITH disk <- files
filing == <<scene, files, tree, head, bar, snapshot, hooking, autosave, kept, stale, pulled, behind, changes,
            edits, slips>>

(* The windows out of focus hold nothing. *)
PlanIdle ==
  /\ lic = None /\ stored = None /\ asked = None /\ today = None /\ granted = None /\ begun = None
  /\ dropped = None /\ asks = None /\ faults = None
EditorIdle ==
  /\ disk = None /\ authOn = None /\ ed = None /\ questions = None /\ setting = None /\ owed = None
  /\ lost = None /\ touched = None /\ steps = None /\ misses = None
UpdaterIdle ==
  /\ upd = None /\ call = None /\ cache = None /\ skipped = None /\ installed = None /\ nagged = None
  /\ checks = None /\ breaks = None
ConsoleIdle ==
  /\ conns = None /\ active = None /\ cmds = None /\ bridge = None /\ clicks = None
HistoryIdle ==
  /\ ws = None /\ env = None /\ defs = None /\ snaps = None /\ stores = None /\ ui = None
  /\ running = None /\ made = None /\ turns = None
FilesIdle ==
  /\ scene = None /\ files = None /\ tree = None /\ head = None /\ bar = None /\ snapshot = None
  /\ hooking = None /\ autosave = None /\ kept = None /\ stale = None /\ pulled = None /\ behind = None
  /\ changes = None /\ edits = None /\ slips = None
DesktopInit ==
  \/ focus = "plan" /\ Init /\ EditorIdle /\ UpdaterIdle /\ ConsoleIdle /\ HistoryIdle /\ FilesIdle
  \/ focus = "updater" /\ Update1!Init /\ PlanIdle /\ EditorIdle /\ ConsoleIdle /\ HistoryIdle /\ FilesIdle
  \/ focus = "console" /\ Console1!Init /\ PlanIdle /\ EditorIdle /\ UpdaterIdle /\ HistoryIdle /\ FilesIdle
  \/ focus = "history" /\ History1!Init /\ PlanIdle /\ EditorIdle /\ UpdaterIdle /\ ConsoleIdle /\ FilesIdle
  \/ focus = "editor" /\ Edit1!Init /\ PlanIdle /\ UpdaterIdle /\ ConsoleIdle /\ HistoryIdle /\ FilesIdle
  \/ focus = "files" /\ Work1!Init /\ PlanIdle /\ EditorIdle /\ UpdaterIdle /\ ConsoleIdle /\ HistoryIdle

PlanNext == focus = "plan" /\ Next /\ UNCHANGED <<editing, updating, talking, recording, filing>>
UpdaterNext == focus = "updater" /\ Update1!Next /\ UNCHANGED <<vars, editing, talking, recording, filing>>
ConsoleNext == focus = "console" /\ Console1!Next /\ UNCHANGED <<vars, editing, updating, recording, filing>>
HistoryNext == focus = "history" /\ History1!Next /\ UNCHANGED <<vars, editing, updating, talking, filing>>
EditorNext == focus = "editor" /\ Edit1!Next /\ UNCHANGED <<vars, updating, talking, recording, filing>>
FilesNext == focus = "files" /\ Work1!Next /\ UNCHANGED <<vars, editing, updating, talking, recording>>
DesktopNext ==
  UNCHANGED focus /\ (PlanNext \/ UpdaterNext \/ ConsoleNext \/ HistoryNext \/ EditorNext \/ FilesNext)
allVars == <<focus, vars, editing, updating, talking, recording, filing>>
DesktopSpec == DesktopInit /\ [][DesktopNext]_allVars

(* The request editor loses nothing that was configured or typed, and what it
   shows belongs to the request, the list entry and the project that are open;
   see V1Editor. *)
EditorSound ==
  focus = "editor" =>
    /\ Edit1!TypeOK /\ Edit1!CleanMeansSaved /\ Edit1!ChecksConserved /\ Edit1!AutoSaveKeepsWork
    /\ Edit1!AnswersBelong /\ Edit1!FormEditsItsEntry /\ Edit1!AuthBacked

(* What the workspace holds of collections stays as it was saved, and the panel
   and the tabs show the files there are; see Workspace. *)
FilesSound ==
  focus = "files" =>
    /\ Work1!TypeOK /\ Work1!CleanMeansSaved /\ Work1!SavedStays /\ Work1!SecretsStayOut
    /\ Work1!PanelFollowsDisk /\ Work1!OneTabPerRequest /\ Work1!FrontFits /\ Work1!OrderListsWhatIs

(* A plan is earned and survives what it should, and the updater installs what
   was published and shown; see Licensing and Updater. *)
ServicesSound ==
  /\ focus = "plan" =>
       TypeOK /\ ProIsEarned /\ OneAtATime /\ RefusalHitsItsKey /\ FileFollows
  /\ focus = "updater" =>
       /\ Update1!TypeOK /\ Update1!OneCall /\ Update1!InstallsWhatIsShown
       /\ Update1!StagedIsWhole /\ Update1!RunsPublishedBuild /\ Update1!SkippedStaysQuiet

(* The console shows and does what its connections are; see Console. *)
ConsoleSound ==
  focus = "console" =>
    /\ Console1!TypeOK /\ Console1!OpenIsKnown /\ Console1!SentArrives
    /\ Console1!NothingLeftBehind /\ Console1!EndIsShown /\ Console1!DisconnectActs

(* The history tells the runs as they were; see History. *)
HistorySound ==
  focus = "history" =>
    /\ History1!TypeOK /\ History1!RowTellsItsRun /\ History1!ListFits
    /\ History1!RowsAreStored /\ History1!DiffComparesTicked
================================================================================
