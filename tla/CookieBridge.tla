---------------------------- MODULE CookieBridge ----------------------------
(***************************************************************************)
(* The cookie jar shared by every run of the desktop app and its file in   *)
(* the open workspace (forge-gui/src/bridge.rs): one thread takes commands *)
(* in order, the runs it spawns respond, end and save the jar in parallel, *)
(* and the user switches workspaces meanwhile.                             *)
(***************************************************************************)
EXTENDS Integers, Sequences

CONSTANTS
  Workspaces,
  Runs,
  MaxCommands,  (* bound on the commands the user issues *)
  NoPath

(* The bridge thread saves too, after ClearCookies and on Shutdown. *)
Main == 0

ASSUME CookieAssumption ==
  /\ Runs \subseteq Nat \ {Main}
  /\ MaxCommands \in Nat
  /\ NoPath \notin Workspaces

VARIABLES
  open,     (* the GUI's workspace, if one is open *)
  cmds,     (* cmd_rx *)
  issued,   (* commands issued so far, for the bound *)
  bridge,   (* "recv" | "restore" | "setpath" | "stopping" | "stopped" *)
  loading,  (* the workspace of the LoadCookies under way *)
  path,     (* cookie_path, by workspace *)
  jar,      (* the cookies, each by the workspace it was received in *)
  files,    (* each workspace's cookies.json *)
  task,     (* the spawned runs: "none" | "running" | "over" *)
  owner,    (* the workspace a run was started in *)
  kind,     (* "run" | "v1" *)
  saver,    (* who is in save_cookies, and how far *)
  straddled,(* history: a run was under way when another workspace loaded *)
  raced,    (* history: a save overlapped another save or a load *)
  unsaved   (* history: only a v1 run touched the jar since it was saved *)

vars == <<open, cmds, issued, bridge, loading, path, jar, files, task, owner,
          kind, saver, straddled, raced, unsaved>>

history == <<straddled, raced, unsaved>>

Agents == Runs \cup {Main}

Command ==
  [cmd : {"load", "remove"}, arg : Workspaces] \cup [cmd : {"run", "v1"}, arg : Runs]
    \cup [cmd : {"clear", "shutdown"}, arg : {Main}]

Idle == [at |-> "idle", path |-> NoPath, json |-> {}]

Saving(a) == saver[a].at # "idle"

-----------------------------------------------------------------------------
Init ==
  /\ \/ open = NoPath /\ cmds = <<>>
     \/ open \in Workspaces /\ cmds = <<[cmd |-> "load", arg |-> open]>>
  /\ issued = 0
  /\ bridge = "recv"
  /\ loading = NoPath
  /\ path = NoPath
  /\ jar = {}
  /\ files \in [Workspaces -> SUBSET Workspaces]
  /\ \A w \in Workspaces : files[w] \subseteq {w}
  /\ task = [r \in Runs |-> "none"]
  /\ owner = [r \in Runs |-> NoPath]
  /\ kind = [r \in Runs |-> "run"]
  /\ saver = [a \in Agents |-> Idle]
  /\ straddled = FALSE /\ raced = FALSE /\ unsaved = FALSE

(* Cmd sent by the UI thread; Shutdown is the last (Drop for Bridge). *)
Issue(c) ==
  /\ issued < MaxCommands
  /\ \A i \in DOMAIN cmds : cmds[i].cmd # "shutdown"
  /\ bridge \notin {"stopping", "stopped"}
  /\ issued' = issued + 1
  /\ cmds' = Append(cmds, c)
  /\ UNCHANGED <<bridge, loading, path, jar, files, task, saver, history>>

SwitchWorkspace(w) ==
  /\ w # open
  /\ Issue([cmd |-> "load", arg |-> w])
  /\ open' = w
  /\ UNCHANGED <<owner, kind>>

SendRun(r, k) ==
  /\ open # NoPath /\ owner[r] = NoPath
  /\ Issue([cmd |-> k, arg |-> r])
  /\ owner' = [owner EXCEPT ![r] = open]
  /\ kind' = [kind EXCEPT ![r] = k]
  /\ UNCHANGED open

ClearAll ==
  /\ Issue([cmd |-> "clear", arg |-> Main])
  /\ UNCHANGED <<open, owner, kind>>

Remove(w) ==
  /\ Issue([cmd |-> "remove", arg |-> w])
  /\ UNCHANGED <<open, owner, kind>>

Quit ==
  /\ Issue([cmd |-> "shutdown", arg |-> Main])
  /\ UNCHANGED <<open, owner, kind>>

-----------------------------------------------------------------------------
Recv(c) ==
  /\ bridge = "recv" /\ ~Saving(Main)
  /\ cmds # <<>> /\ Head(cmds).cmd = c
  /\ cmds' = Tail(cmds)
  /\ UNCHANGED <<open, issued, owner, kind>>

RecvRun ==
  /\ Recv("run") \/ Recv("v1")
  /\ task' = [task EXCEPT ![Head(cmds).arg] = "running"]
  /\ UNCHANGED <<bridge, loading, path, jar, files, saver, history>>

UnderWay(r) == task[r] = "running" \/ Saving(r)

(* "Always clear first".  Variant: only what the file holds is replaced. *)
RecvLoadKeeping ==
  /\ Recv("load")
  /\ loading' = Head(cmds).arg
  /\ bridge' = "restore"
  /\ straddled' = (straddled \/ \E r \in Runs : UnderWay(r) /\ owner[r] # loading')
  /\ raced' = (raced \/ \E a \in Agents : Saving(a))
  /\ unsaved' = FALSE
  /\ UNCHANGED <<path, jar, files, task, saver>>

RecvLoad ==
  /\ Recv("load")
  /\ loading' = Head(cmds).arg
  /\ bridge' = "restore"
  /\ jar' = {}
  /\ straddled' = (straddled \/ \E r \in Runs : UnderWay(r) /\ owner[r] # loading')
  /\ raced' = (raced \/ \E a \in Agents : Saving(a))
  /\ unsaved' = FALSE
  /\ UNCHANGED <<path, files, task, saver>>

(* read_to_string and restore_cookies. *)
Restore ==
  /\ bridge = "restore"
  /\ bridge' = "setpath"
  /\ jar' = jar \cup files[loading]
  /\ UNCHANGED <<open, cmds, issued, loading, path, files, task, owner, kind,
                 saver, history>>

SetPath ==
  /\ bridge = "setpath"
  /\ bridge' = "recv"
  /\ path' = loading
  /\ UNCHANGED <<open, cmds, issued, loading, jar, files, task, owner, kind,
                 saver, history>>

BeginSave(a) ==
  /\ saver' = [saver EXCEPT ![a].at = "path"]
  /\ raced' = (raced \/ bridge \in {"restore", "setpath"}
                     \/ \E b \in Agents \ {a} : Saving(b))

RecvClear ==
  /\ \/ Recv("clear") /\ jar' = {}
     \/ Recv("remove") /\ jar' = jar \ {Head(cmds).arg}
  /\ BeginSave(Main)
  /\ UNCHANGED <<bridge, loading, path, files, task, straddled, unsaved>>

RecvShutdown ==
  /\ Recv("shutdown")
  /\ bridge' = "stopping"
  /\ BeginSave(Main)
  /\ UNCHANGED <<loading, path, jar, files, task, straddled, unsaved>>

(* The loop is left and the runtime dropped: that waits for what a run does
   between two awaits, such as its save, and the runs go no further. *)
Stop ==
  /\ bridge = "stopping" /\ \A a \in Agents : ~Saving(a)
  /\ bridge' = "stopped"
  /\ UNCHANGED <<open, cmds, issued, loading, path, jar, files, task, owner,
                 kind, saver, history>>

-----------------------------------------------------------------------------
Live == bridge # "stopped"

(* A response with Set-Cookie. *)
Respond(r) ==
  /\ Live
  /\ task[r] = "running"
  /\ jar' = jar \cup {owner[r]}
  /\ unsaved' = (unsaved \/ kind[r] = "v1")
  /\ UNCHANGED <<open, cmds, issued, bridge, loading, path, files, task,
                 owner, kind, saver, straddled, raced>>

(* run_v1_* ends without save_cookies. *)
EndV1(r) ==
  /\ Live
  /\ task[r] = "running" /\ kind[r] = "v1"
  /\ task' = [task EXCEPT ![r] = "over"]
  /\ UNCHANGED <<open, cmds, issued, bridge, loading, path, jar, files, owner,
                 kind, saver, history>>

(* Variant: only a run that passed saves. *)
EndRunUnsaved(r) ==
  /\ Live
  /\ task[r] = "running" /\ kind[r] = "run"
  /\ task' = [task EXCEPT ![r] = "over"]
  /\ UNCHANGED <<open, cmds, issued, bridge, loading, path, jar, files, owner,
                 kind, saver, history>>

EndRun(r) ==
  /\ Live
  /\ task[r] = "running" /\ kind[r] = "run"
  /\ task' = [task EXCEPT ![r] = "over"]
  /\ BeginSave(r)
  /\ UNCHANGED <<open, cmds, issued, bridge, loading, path, jar, files, owner,
                 kind, straddled, unsaved>>

-----------------------------------------------------------------------------
(* Variant: no check that there is a path. *)
SaveReadsPathUnchecked(a) ==
  /\ Live
  /\ saver[a].at = "path"
  /\ saver' = [saver EXCEPT ![a] = [at |-> "json", path |-> path, json |-> {}]]
  /\ UNCHANGED <<open, cmds, issued, bridge, loading, path, jar, files, task,
                 owner, kind, history>>

(* save_cookies: the path is read under its lock, the jar serialized under
   its own, the file written under none. *)
SaveReadsPath(a) ==
  /\ Live
  /\ saver[a].at = "path"
  /\ saver' = [saver EXCEPT ![a] = IF path = NoPath THEN Idle
                                   ELSE [at |-> "json", path |-> path, json |-> {}]]
  /\ UNCHANGED <<open, cmds, issued, bridge, loading, path, jar, files, task,
                 owner, kind, history>>

SaveReadsJar(a) ==
  /\ Live
  /\ saver[a].at = "json"
  /\ saver' = [saver EXCEPT ![a].at = "write", ![a].json = jar]
  /\ unsaved' = (unsaved /\ saver[a].path # path)
  /\ UNCHANGED <<open, cmds, issued, bridge, loading, path, jar, files, task,
                 owner, kind, straddled, raced>>

SaveWrites(a) ==
  /\ Live
  /\ saver[a].at = "write"
  /\ files' = [files EXCEPT ![saver[a].path] = saver[a].json]
  /\ saver' = [saver EXCEPT ![a] = Idle]
  /\ UNCHANGED <<open, cmds, issued, bridge, loading, path, jar, task, owner,
                 kind, history>>

-----------------------------------------------------------------------------
Next ==
  \/ \E w \in Workspaces : SwitchWorkspace(w) \/ Remove(w)
  \/ \E r \in Runs, k \in {"run", "v1"} : SendRun(r, k)
  \/ ClearAll \/ Quit
  \/ RecvRun \/ RecvLoad \/ Restore \/ SetPath \/ RecvClear \/ RecvShutdown
  \/ Stop
  \/ \E r \in Runs : Respond(r) \/ EndV1(r) \/ EndRun(r)
  \/ \E a \in Agents : SaveReadsPath(a) \/ SaveReadsJar(a) \/ SaveWrites(a)

Spec == Init /\ [][Next]_vars

-----------------------------------------------------------------------------
(* The types of the app's and the bridge's state; only a save that found a
   path goes on. *)
TypeOK ==
  /\ open \in Workspaces \cup {NoPath}
  /\ cmds \in Seq(Command) /\ issued \in 0..MaxCommands
  /\ bridge \in {"recv", "restore", "setpath", "stopping", "stopped"}
  /\ loading \in Workspaces \cup {NoPath} /\ path \in Workspaces \cup {NoPath}
  /\ jar \subseteq Workspaces
  /\ files \in [Workspaces -> SUBSET Workspaces]
  /\ task \in [Runs -> {"none", "running", "over"}]
  /\ owner \in [Runs -> Workspaces \cup {NoPath}]
  /\ kind \in [Runs -> {"run", "v1"}]
  /\ saver \in [Agents -> [at : {"idle", "path", "json", "write"},
                           path : Workspaces \cup {NoPath},
                           json : SUBSET Workspaces]]
  /\ \A a \in Agents :
       saver[a].at \in {"json", "write"} => saver[a].path \in Workspaces
  /\ straddled \in BOOLEAN /\ raced \in BOOLEAN /\ unsaved \in BOOLEAN

(* As long as no run is under way when the workspace is switched, a cookie
   received in one workspace reaches neither the file of another nor, once it
   is loaded, the jar its requests are sent with. *)
OwnCookiesUnlessStraddled ==
  ~straddled =>
    /\ \A w \in Workspaces : files[w] \subseteq {w}
    /\ \A r \in Runs : task[r] = "running" => jar \subseteq {owner[r]}

Settled ==
  /\ path # NoPath /\ bridge \in {"recv", "stopped"}
  /\ ~Saving(Main) /\ \A r \in Runs : ~UnderWay(r)

(* Whenever nothing is under way - after a run, a clear, a switch, the
   shutdown - the file of the open workspace holds the jar, unless two saves
   or a save and a load overlapped, or only v1 runs, which do not save,
   changed it since the last save. *)
SettledJarIsSaved ==
  Settled /\ ~raced /\ ~unsaved => files[path] = jar

(* "Always clear first ...: otherwise cookies from a previously open workspace
   leak into this one and get persisted into its cookies.json on the next
   save" (bridge.rs, LoadCookies): no cookie reaches another workspace's file,
   whatever is under way when the workspace is switched. *)
NoForeignCookies == \A w \in Workspaces : files[w] \subseteq {w}
=============================================================================
