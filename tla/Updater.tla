--------------------------------- MODULE Updater ---------------------------------
(***************************************************************************)
(* The desktop updater (forge-gui/src/updater.rs): the newest release is    *)
(* asked for at start, every four hours and from the menu; its package is  *)
(* downloaded, compared with the published checksum, staged in the cache   *)
(* and installed on request.  What the release host serves, and when the   *)
(* app or a file operation stops, is left open.                             *)
(***************************************************************************)
EXTENDS Naturals

CONSTANTS
  Releases,   (* what the host may announce: see Release *)
  Builds,     (* what the host may serve as a package *)
  Platforms,  (* "restart": replaces the running program, "opens": only opens it *)
  MaxChecks,  (* bound on the checks of one sitting *)
  MaxFaults,  (* bound on failed file operations and stops *)
  None

(* A release: the tag, its version, the build its checksum is for, whether it
   has a package for this platform, and where the checksum is: at the package,
   in SHA256SUMS.txt or nowhere. *)
Release(tag, version, build, package, sum) ==
  [tag |-> tag, version |-> version, build |-> build, package |-> package, sum |-> sum]

VARIABLES
  upd,        (* UpdateState *)
  call,       (* the bridge's work: a check, a download, or None *)
  cache,      (* staged and partial file of each version *)
  skipped,    (* updates.json *)
  installed,  (* version and build of the running program *)
  nagged,     (* history: a silent check offered the skipped release *)
  checks, faults

vars == <<upd, call, cache, skipped, installed, nagged, checks, faults>>

Versions == {r.version : r \in Releases}
Idle == [checking |-> FALSE, open |-> FALSE, downloading |-> FALSE, release |-> None,
         downloaded |-> None, notice |-> FALSE]
NoFile == "none"
Torn == "torn"

(* UpdateState::check: not while a check or a download runs. *)
CheckCall(manual) == [op |-> "check", manual |-> manual]
Checking(state, manual) ==
  [state EXCEPT !.checking = TRUE, !.notice = FALSE, !.open = @ \/ manual]

Init ==
  /\ upd = Checking(Idle, FALSE) /\ call = CheckCall(FALSE)
  /\ cache = [v \in Versions |-> [staged |-> NoFile, partial |-> NoFile]]
  /\ skipped = None /\ installed = [version |-> 0, build |-> None]
  /\ nagged = FALSE /\ checks = 0 /\ faults = 0

(* The menu entry is off while a check runs; the timer goes off regardless. *)
Check(manual) ==
  /\ ~upd.checking /\ ~upd.downloading /\ checks < MaxChecks
  /\ upd' = Checking(upd, manual) /\ call' = CheckCall(manual) /\ checks' = checks + 1
  /\ UNCHANGED <<cache, skipped, installed, nagged, faults>>

(* release_from_api: only a newer version is a release to offer. *)
Offers(release) == release.version > installed.version

(* handle_check.  A found release replaces the one shown and its download. *)
Found(state, release) == [state EXCEPT !.release = release, !.downloaded = None, !.open = TRUE]

HandleCheck(answer) ==
  LET done == [upd EXCEPT !.checking = FALSE]
      silent == ~call.manual
      found == answer # None /\ Offers(answer)
      hidden == found /\ silent /\ skipped = answer.tag
  IN /\ call # None /\ call.op = "check" /\ call' = None
     /\ upd' = IF found /\ ~hidden THEN Found(done, answer)
               ELSE [done EXCEPT !.open = @ \/ ~silent, !.notice = @ \/ (~silent /\ ~found)]
     /\ nagged' = (nagged \/ (silent /\ found /\ answer.tag = skipped /\ upd'.release = answer
                                /\ upd'.open /\ ~upd.open))
     /\ UNCHANGED <<cache, skipped, installed, checks, faults>>

(* The check failed: only a manual one says so. *)
CheckFails ==
  /\ call # None /\ call.op = "check" /\ call' = None
  /\ upd' = [upd EXCEPT !.checking = FALSE, !.open = @ \/ call.manual]
  /\ UNCHANGED <<cache, skipped, installed, nagged, checks, faults>>

-----------------------------------------------------------------------------
(* show: the dialog, whose buttons are there between two calls. *)
Shown == upd.open /\ ~upd.checking /\ ~upd.notice /\ upd.release # None
Offered == Shown /\ ~upd.downloading /\ upd.downloaded = None

CloseDialog ==
  /\ upd.open /\ upd' = [upd EXCEPT !.open = FALSE]
  /\ UNCHANGED <<call, cache, skipped, installed, nagged, checks, faults>>

Skip ==
  /\ Offered /\ upd' = [upd EXCEPT !.open = FALSE] /\ skipped' = upd.release.tag
  /\ UNCHANGED <<call, cache, installed, nagged, checks, faults>>

Download ==
  /\ Offered /\ upd.release.package
  /\ upd' = [upd EXCEPT !.downloading = TRUE]
  /\ call' = [op |-> "download", release |-> upd.release, stage |-> "asked", bytes |-> None]
  /\ UNCHANGED <<cache, skipped, installed, nagged, checks, faults>>

(* handle_download. *)
Downloaded(ready) ==
  /\ call' = None
  /\ upd' = [upd EXCEPT !.downloading = FALSE, !.open = TRUE,
                        !.downloaded = IF ready THEN call.release ELSE @]

(* download_update_to, step by step. *)
At(stage) == call # None /\ call.op = "download" /\ call.stage = stage
File == cache[call.release.version]
Stage(next, file) ==
  /\ call' = [call EXCEPT !.stage = next] /\ cache' = [cache EXCEPT ![call.release.version] = file]
  /\ UNCHANGED upd

(* expected_digest, checksum_for, sha256_hex: no checksum, no update. *)
Verified(release, bytes) == release.sum # "nowhere" /\ bytes = release.build

Fetch(bytes) ==
  /\ At("asked")
  /\ IF Verified(call.release, bytes)
     THEN call' = [call EXCEPT !.stage = "fetched", !.bytes = bytes] /\ UNCHANGED upd
     ELSE Downloaded(FALSE)
  /\ UNCHANGED <<cache, skipped, installed, nagged, checks, faults>>

(* The package is written next to its place and moved there when complete. *)
Written(file, bytes) == [file EXCEPT !.partial = bytes]

WritePartial ==
  /\ At("fetched") /\ Stage("written", Written(File, call.bytes))
  /\ UNCHANGED <<skipped, installed, nagged, checks, faults>>
RemoveOld ==
  /\ At("written") /\ Stage("removed", [File EXCEPT !.staged = NoFile])
  /\ UNCHANGED <<skipped, installed, nagged, checks, faults>>
Rename ==
  /\ At("removed") /\ Downloaded(TRUE)
  /\ cache' = [cache EXCEPT ![call.release.version] = [staged |-> File.partial, partial |-> NoFile]]
  /\ UNCHANGED <<skipped, installed, nagged, checks, faults>>

(* A step of the download fails, the write half way. *)
Cut == IF At("fetched") THEN Written(File, Torn) ELSE File
DownloadFails ==
  /\ \E stage \in {"fetched", "written", "removed"} : At(stage)
  /\ faults < MaxFaults /\ faults' = faults + 1
  /\ cache' = [cache EXCEPT ![call.release.version] = Cut] /\ Downloaded(FALSE)
  /\ UNCHANGED <<skipped, installed, nagged, checks>>

(* The app stops at any point and is started again; the start asks silently. *)
Restarted == upd' = Checking(Idle, FALSE) /\ call' = CheckCall(FALSE) /\ checks' = 0
Restart ==
  /\ faults < MaxFaults /\ faults' = faults + 1 /\ Restarted
  /\ cache' = IF At("fetched") THEN [cache EXCEPT ![call.release.version] = Cut] ELSE cache
  /\ UNCHANGED <<skipped, installed, nagged>>

(* install_downloaded: the running program is replaced by the staged file once
   it has stopped, or the file is opened and the system installs it. *)
Install(platform) ==
  LET release == upd.downloaded
      build == cache[release.version].staged
  IN /\ Shown /\ ~upd.downloading /\ release # None
     /\ IF platform = "restart"
        THEN /\ Restarted /\ installed' = [version |-> release.version, build |-> build]
             /\ cache' = [cache EXCEPT ![release.version].staged = NoFile]
        ELSE /\ upd' = [upd EXCEPT !.notice = TRUE, !.release = None, !.downloaded = None]
             /\ UNCHANGED <<call, checks, cache, installed>>
     /\ UNCHANGED <<skipped, nagged, faults>>

Next ==
  \/ \E manual \in BOOLEAN : Check(manual)
  \/ \E answer \in Releases \cup {None} : HandleCheck(answer)
  \/ CheckFails \/ CloseDialog \/ Skip \/ Download
  \/ \E bytes \in Builds : Fetch(bytes)
  \/ WritePartial \/ RemoveOld \/ Rename \/ DownloadFails \/ Restart
  \/ \E platform \in Platforms : Install(platform)

-----------------------------------------------------------------------------
(* Properties. *)

Files == Builds \cup {NoFile, Torn}
TypeOK ==
  /\ upd \in [checking : BOOLEAN, open : BOOLEAN, downloading : BOOLEAN, notice : BOOLEAN,
              release : Releases \cup {None}, downloaded : Releases \cup {None}]
  /\ cache \in [Versions -> [staged : Files, partial : Files]]

(* One call at a time: no answer of a check meets a download under way, so
   none can take its release away (check, show). *)
OneCall ==
  /\ upd.checking <=> call # None /\ call.op = "check"
  /\ upd.downloading <=> call # None /\ call.op = "download"
  /\ upd.downloading => call.release = upd.release

(* "Restart and update" installs the release the dialog shows: it is newer
   than the program, and the staged file is the one its checksum was compared
   with, whatever failed or stopped before (download_update_to). *)
InstallsWhatIsShown ==
  upd.downloaded # None =>
    /\ upd.downloaded = upd.release /\ upd.release.version > installed.version
    /\ upd.release.sum # "nowhere" /\ cache[upd.release.version].staged = upd.release.build

(* No half-written package is ever at the place packages are installed from. *)
StagedIsWhole == \A v \in Versions : cache[v].staged # Torn

(* The program that runs after an update is a build a checksum was published
   for. *)
RunsPublishedBuild ==
  installed.build # None =>
    \E r \in Releases :
      r.version = installed.version /\ r.build = installed.build /\ r.sum # "nowhere"

(* A release that was skipped is not offered by itself again (skip_release). *)
SkippedStaysQuiet == ~nagged
================================================================================
