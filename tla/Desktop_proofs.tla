----------------------------- MODULE Desktop_proofs -----------------------------
(***************************************************************************)
(* Proofs about the desktop app's windows, for any keys, days, releases,    *)
(* builds and bounds: the plan and its trial (Licensing), the updater       *)
(* (Updater) and the console (Console).  Each window has an inductive       *)
(* invariant of its own, since only the one in focus takes steps.           *)
(***************************************************************************)
EXTENDS Desktop, FiniteSetTheorems, TLAPS

(* The plan.  The files hold nothing genuine that was not granted, and the
   only a day at which a trial began; the license in use is genuine; the check under
   way, if silent, is about the license in use, and answers its own key. *)
Genuine(l) == Verifies(l.blob) /\ l.blob.until <= granted
CheckOk ==
  [manual : BOOLEAN, key : Keys, server : Servers,
   result : [kind : {"waiting", "valid", "rejected", "error"}, license : LicenseOk]]
Answered(c) ==
  /\ c.result.kind = "valid" =>
       c.result.license = None \/ Genuine(c.result.license)
  /\ c.result.kind = "valid" => c.result.license.blob.key = c.key
  /\ c.result.kind # "valid" => c.result.license = None
  /\ ~c.manual => lic.license # None /\ lic.license.blob.key = c.key
PlanInv ==
  /\ TypeOK /\ today \in Days /\ begun \subseteq Days /\ faults \in Nat
  /\ stored.license # None /\ Verifies(stored.license.blob) => Genuine(stored.license)
  /\ lic.license # None => Genuine(lic.license)
  /\ stored.trial \in begun \cup {None} /\ lic.trial \in begun \cup {None}
  /\ \/ asked = {} /\ ~lic.checking
     \/ \E c \in CheckOk : asked = {c} /\ lic.checking
  /\ \A c \in asked : Answered(c)
  /\ dropped = {}
  /\ FileFollows

(* The updater.  What is downloaded has passed the comparison with its checksum,
   and once written it is the partial file until it is moved to its place; no
   download is staged while another is made. *)
CheckCalls == [op : {"check"}, manual : BOOLEAN]
Downloads ==
  [op : {"download"}, release : Releases, stage : {"asked", "fetched", "written", "removed"},
   bytes : Builds \cup {None}]
Fetched == call # None /\ call.op = "download" /\ call.stage # "asked"
UpdaterInv ==
  /\ Update1!TypeOK /\ Update1!OneCall /\ Update1!InstallsWhatIsShown
  /\ Update1!StagedIsWhole /\ Update1!RunsPublishedBuild /\ Update1!SkippedStaysQuiet
  /\ call \in {None} \cup CheckCalls \cup Downloads
  /\ upd.release # None => upd.release.version > installed.version
  /\ upd.downloading => upd.downloaded = None
  /\ Fetched => call.bytes \in Builds /\ Update1!Verified(call.release, call.bytes)
  /\ Fetched /\ call.stage # "fetched" => cache[call.release.version].partial = call.bytes

(* The console.  A connection on its own: who knows of it, which news of its end
   is on the way, and what became of the user's wish to end it. *)
Terminal == {"closed", "error"}
Conn ==
  [protocol : Protocols, status : {"connecting", "open", "closed", "error"},
   task : {"none", "connecting", "session", "gone"}, known : BOOLEAN,
   cancelled : BOOLEAN, shut : BOOLEAN, out : Seq({"text", "close"}),
   events : Seq(Console1!Events), ui : Seq(Console1!Events),
   heard : Nat, sent : Nat, arrived : Nat, ended : BOOLEAN, asked : {"no", "early", "late"}]
Told(c) == IF c.ui = << >> THEN ~Console1!Live(c) ELSE c.ui[Len(c.ui)] \in Terminal
Registered(c) ==
  /\ c.protocol = "ws" /\ c.task = "session" => c.known
  /\ c.task = "gone" => ~c.known
  /\ c.protocol = "sse" /\ c.task \in {"connecting", "session"} => c.known \/ c.cancelled
Started(c) ==
  c.status = "open" \/ c.ui # << >> \/ c.events # << >> \/ c.ended =>
    c.task \in {"session", "gone"}
NewsOfEnd(c) ==
  /\ c.cancelled => c.protocol = "sse" /\ c.asked # "no"
  /\ c.task = "session" /\ c.ended =>
       IF c.events = << >> THEN Told(c) ELSE c.events[Len(c.events)] \in Terminal
  /\ c.task = "gone" /\ (c.protocol = "ws" \/ c.asked = "no") => Told(c)
EndActs(c) ==
  c.asked # "no" =>
    Console1!Shutting(c) \/ Console1!Ending(c) \/ (c.protocol = "ws" /\ c.asked = "early")
ConnInv(c) == c \in Conn /\ Registered(c) /\ Started(c) /\ NewsOfEnd(c) /\ EndActs(c)

(* The commands on their way: a connection's connect comes first and only once,
   and whatever else is asked of it comes behind it. *)
Command == [op : {"connect", "send", "close"}, id : Nat]
Connects(q, k, i) == k \in DOMAIN q /\ q[k].op = "connect" /\ q[k].id = i
EachFits(q, cs) ==
  /\ q \in Seq(Command)
  /\ \A k \in DOMAIN q :
       /\ q[k].id \in DOMAIN cs
       /\ q[k].op = "connect" =>
            /\ cs[q[k].id].task = "none"
            /\ \A j \in DOMAIN q : j # k /\ q[j].id = q[k].id => j > k /\ q[j].op # "connect"
       /\ q[k].op = "send" =>
            cs[q[k].id].protocol = "ws" /\ cs[q[k].id].task \in {"session", "gone"}
       /\ q[k].op = "close" =>
            cs[q[k].id].task # "none" \/ \E j \in 1 .. (k - 1) : Connects(q, j, q[k].id)
ConnectsCome(q, cs) ==
  \A i \in DOMAIN cs :
    cs[i].task = "none" /\ cs[i].status = "connecting" => \E k \in DOMAIN q : Connects(q, k, i)
Arrived(c, waiting) ==
  c.sent = waiting + Console1!Queued(c) + c.arrived \/ c.shut \/ Console1!Ending(c)
ConsoleInv ==
  /\ conns \in Seq(Conn) /\ Len(conns) <= MaxConnections /\ active \in 0 .. Len(conns)
  /\ \A i \in DOMAIN conns : ConnInv(conns[i]) /\ Arrived(conns[i], Console1!Waiting(i))
  /\ EachFits(cmds, conns) /\ ConnectsCome(cmds, conns)

WindowsInv ==
  /\ focus = "plan" => PlanInv
  /\ focus = "updater" => UpdaterInv
  /\ focus = "console" => ConsoleInv

-----------------------------------------------------------------------------

(* A first start has no license, no trial and no check under way. *)
LEMMA PlanStarts == Init => PlanInv
<1> SUFFICES ASSUME Init PROVE PlanInv
  OBVIOUS
<1>1. TypeOK
  BY DaysAssumption DEF Init, TypeOK, LicenseOk
<1>2. FileFollows
  BY DEF Init, FileFollows, LoadLicense
<1>. QED
  BY <1>1, <1>2, DaysAssumption DEF Init, PlanInv

(* A license file that was loaded is genuine. *)
LEMMA LoadedIsGenuine ==
  ASSUME PlanInv
  PROVE  /\ LoadLicense(stored) \in LicenseOk
         /\ LoadLicense(stored) # None => Genuine(LoadLicense(stored))
         /\ LoadTrial(stored) = stored.trial
BY DaysAssumption DEF PlanInv, TypeOK, LoadLicense, LoadTrial, Genuine, LicenseOk

(* The app is started again. *)
LEMMA PlanRestarts ==
  ASSUME PlanInv, Restart
  PROVE  PlanInv'
<1> DEFINE l == LoadLicense(stored)
           c == Check(FALSE, l.blob.key, l.server)
<1>1. /\ l \in LicenseOk /\ (l # None => Genuine(l)) /\ LoadTrial(stored) = stored.trial
  BY LoadedIsGenuine
<1>2. /\ lic' = [license |-> l, trial |-> stored.trial, checking |-> Due(l), open |-> FALSE]
      /\ asked' = IF Due(l) THEN {c} ELSE {}
      /\ UNCHANGED <<stored, today, granted, begun, dropped, faults>>
  BY <1>1 DEF Restart
<1>3. Due(l) \in BOOLEAN /\ (Due(l) => l # None)
  BY DEF Due
<1>4. l # None => c \in CheckOk /\ c.key = l.blob.key /\ c.result.kind = "waiting"
                  /\ c.result.license = None /\ c.manual = FALSE
  BY <1>1, BlobsAssumption DEF Check, CheckOk, LicenseOk
<1> HIDE DEF l, c
<1>5. TypeOK'
  BY <1>1, <1>2, <1>3 DEF PlanInv, TypeOK, LicenseOk
<1>6. (lic'.license # None => Genuine(lic'.license)) /\ lic'.trial = stored.trial
  BY <1>1, <1>2
<1>7. \A d \in asked' : Answered(d)'
  BY <1>2, <1>3, <1>4 DEF Answered
<1>8. \/ asked' = {} /\ ~lic'.checking
      \/ \E d \in CheckOk : asked' = {d} /\ lic'.checking
  BY <1>2, <1>3, <1>4
<1>9. FileFollows'
  BY <1>2 DEF FileFollows, LoadLicense, l
<1>. QED
  BY <1>2, <1>5, <1>6, <1>7, <1>8, <1>9 DEF PlanInv, Genuine

(* The dialog opens and closes, the days pass: no license changes. *)
LEMMA PlanRests ==
  ASSUME PlanInv, OpenDialog \/ CloseDialog \/ Tick
  PROVE  PlanInv'
<1>1. /\ UNCHANGED <<stored, asked, granted, begun, dropped, faults>>
      /\ today' \in Days
      /\ lic' \in [license : LicenseOk, trial : Days \cup {None}, checking : BOOLEAN, open : BOOLEAN]
      /\ lic'.license = lic.license /\ lic'.trial = lic.trial /\ lic'.checking = lic.checking
  BY DEF OpenDialog, CloseDialog, Tick, PlanInv, TypeOK
<1>2. TypeOK' /\ FileFollows'
  BY <1>1 DEF PlanInv, TypeOK, FileFollows, LoadLicense
<1>3. \A c \in asked' : Answered(c)'
  BY <1>1 DEF PlanInv, Answered, Genuine
<1>. QED
  BY <1>1, <1>2, <1>3 DEF PlanInv, Genuine

(* Someone else writes the files. *)
LEMMA PlanEdited ==
  ASSUME PlanInv,
         \/ OtherInstance
         \/ \E l \in LicenseOk : EditLicense(l)
         \/ \E d \in Days \cup {None} : EditTrial(d)
  PROVE  PlanInv'
<1>1. /\ UNCHANGED <<lic, asked, today, granted, dropped>>
      /\ faults \in Nat /\ faults' = faults + 1
      /\ today \in Days
  BY DEF OtherInstance, EditLicense, EditTrial, Faulting, PlanInv
<1> DEFINE Kept ==
  /\ stored' \in [license : LicenseOk, trial : Days \cup {None}]
  /\ stored'.license # None /\ Verifies(stored'.license.blob) => Genuine(stored'.license)
  /\ begun \subseteq begun' /\ begun' \subseteq Days
  /\ stored'.trial \in begun' \cup {None}
<1>2. Kept
  <2>1. CASE OtherInstance
    BY <2>1, <1>1 DEF OtherInstance, BegunNow, PlanInv, TypeOK
  <2>2. ASSUME NEW l \in LicenseOk, EditLicense(l) PROVE Kept
    <3>1. stored' = [stored EXCEPT !.license = l] /\ begun' = begun
      BY <2>2 DEF EditLicense
    <3>2. /\ stored' \in [license : LicenseOk, trial : Days \cup {None}]
          /\ stored'.license = l /\ stored'.trial = stored.trial
      BY <3>1, <2>2 DEF PlanInv, TypeOK
    <3>3. l # None /\ Verifies(l.blob) => Genuine(l)
      BY <2>2 DEF EditLicense, Verifies, Genuine, PlanInv
    <3>. QED
      BY <3>1, <3>2, <3>3 DEF PlanInv
  <2>3. ASSUME NEW d \in Days \cup {None}, EditTrial(d) PROVE Kept
    BY <2>3 DEF EditTrial, PlanInv, TypeOK
  <2>. QED
    BY <2>1, <2>2, <2>3
<1>3. lic'.trial \in begun' \cup {None}
  BY <1>1, <1>2 DEF PlanInv
<1>4. \A c \in asked' : Answered(c)'
  BY <1>1 DEF PlanInv, Answered, Genuine
<1>5. FileFollows' /\ faults' \in Nat
  BY <1>1 DEF FileFollows
<1>. QED
  BY <1>1, <1>2, <1>3, <1>4, <1>5 DEF PlanInv, Genuine, TypeOK

(* The dialog's buttons: a check is asked for, the license removed, the trial
   begun. *)
LEMMA PlanAsks ==
  ASSUME PlanInv, Revalidate \/ \E k \in Keys, s \in Servers : Activate(k, s)
  PROVE  PlanInv'
<1>1. PICK c \in CheckOk :
        /\ asked' = asked \cup {c} /\ c.manual = TRUE
        /\ c.result.kind = "waiting" /\ c.result.license = None
  <2>1. ASSUME NEW k \in Keys, NEW s \in Servers
        PROVE  /\ Check(TRUE, k, s) \in CheckOk /\ Check(TRUE, k, s).manual = TRUE
               /\ Check(TRUE, k, s).result.kind = "waiting" /\ Check(TRUE, k, s).result.license = None
    BY DEF Check, CheckOk, LicenseOk
  <2>2. lic.license # None => lic.license.blob.key \in Keys /\ lic.license.server \in Servers
    BY BlobsAssumption DEF PlanInv, TypeOK, LicenseOk
  <2>3. PICK k \in Keys, s \in Servers : asked' = asked \cup {Check(TRUE, k, s)}
    BY <2>2 DEF Revalidate, Activate, Ask
  <2>. QED
    BY <2>1, <2>3
<1>2. /\ UNCHANGED <<stored, today, granted, begun, dropped, faults>>
      /\ lic' = [lic EXCEPT !.checking = TRUE] /\ ~lic.checking
  BY DEF Revalidate, Activate, Ask, Enabled
<1>3. asked' = {c}
  BY <1>1, <1>2 DEF PlanInv
<1>4. TypeOK' /\ FileFollows'
  BY <1>2 DEF PlanInv, TypeOK, FileFollows, LoadLicense
<1>5. lic'.license = lic.license /\ lic'.trial = lic.trial /\ lic'.checking
  BY <1>2 DEF PlanInv, TypeOK
<1>6. \A d \in asked' : Answered(d)'
  BY <1>1, <1>3 DEF Answered
<1>. QED
  BY <1>1, <1>2, <1>3, <1>4, <1>5, <1>6 DEF PlanInv, Genuine

(* The license is removed. *)
LEMMA PlanRemoved ==
  ASSUME PlanInv, NEW bad \in BOOLEAN, Deactivate(bad)
  PROVE  PlanInv'
<1>1. /\ UNCHANGED <<asked, today, granted, begun, dropped>> /\ faults' \in Nat
      /\ ~lic.checking /\ asked = {}
      /\ bad => faults' # 0
  BY DEF Deactivate, Enabled, Faulting, PlanInv
<1>2. CASE bad
  BY <1>1, <1>2 DEF Deactivate, PlanInv, TypeOK, FileFollows, Genuine
<1>3. CASE ~bad
  <2>1. /\ lic' = [lic EXCEPT !.license = None] /\ stored' = [stored EXCEPT !.license = None]
    BY <1>3 DEF Deactivate
  <2>2. TypeOK'
    BY <1>1, <2>1 DEF PlanInv, TypeOK, LicenseOk
  <2>3. /\ lic'.license = None /\ lic'.trial = lic.trial /\ lic'.checking = lic.checking
        /\ stored'.license = None /\ stored'.trial = stored.trial
    BY <2>1 DEF PlanInv, TypeOK
  <2>4. FileFollows'
    BY <2>3 DEF FileFollows, LoadLicense
  <2>. QED
    BY <1>1, <2>2, <2>3, <2>4 DEF PlanInv
<1>. QED
  BY <1>2, <1>3

(* The trial is begun. *)
LEMMA PlanTried ==
  ASSUME PlanInv, NEW bad \in BOOLEAN, StartTrial(bad)
  PROVE  PlanInv'
<1>1. /\ UNCHANGED <<asked, today, granted, dropped>> /\ faults' \in Nat
      /\ bad => faults' # 0
      /\ faults' = 0 => faults = 0
      /\ LoadTrial(stored) = stored.trial /\ today \in Days
  BY LoadedIsGenuine DEF StartTrial, Faulting, PlanInv
<1>2. CASE bad
  <2>1. UNCHANGED <<lic, stored, begun>>
    BY <1>2 DEF StartTrial
  <2>2. \A c \in asked' : Answered(c)'
    BY <1>1, <2>1 DEF PlanInv, Answered, Genuine
  <2>. QED
    BY <1>1, <1>2, <2>1, <2>2 DEF PlanInv, TypeOK, FileFollows, Genuine
<1>3. CASE ~bad
  <2>1. PICK start \in Days :
          /\ start = TrialStart(stored)
          /\ start \in BegunNow
    BY <1>1 DEF TrialStart, BegunNow, PlanInv
  <2>2. /\ lic' = [lic EXCEPT !.trial = start] /\ stored' = [stored EXCEPT !.trial = start]
        /\ begun' = BegunNow
    BY <1>3, <2>1 DEF StartTrial
  <2>3. TypeOK'
    BY <1>1, <2>2 DEF PlanInv, TypeOK
  <2>4. /\ lic'.license = lic.license /\ lic'.trial = start /\ lic'.checking = lic.checking
        /\ stored'.license = stored.license /\ stored'.trial = start
    BY <2>2 DEF PlanInv, TypeOK
  <2>5. FileFollows'
    BY <1>1, <2>4 DEF PlanInv, FileFollows, LoadLicense
  <2>6. \A c \in asked' : Answered(c)'
    BY <1>1, <2>4 DEF PlanInv, Answered, Genuine
  <2>. QED
    BY <1>1, <2>1, <2>2, <2>3, <2>4, <2>5, <2>6 DEF PlanInv, Genuine, BegunNow
<1>. QED
  BY <1>2, <1>3

(* A licence server answers: only a genuine license for the key asked about is
   a valid answer, and with it the product key has signed its period. *)
LEMMA PlanAnswered ==
  ASSUME PlanInv, NEW check \in asked, NEW reply \in Replies, Respond(check, reply)
  PROVE  PlanInv'
<1>1. /\ check \in CheckOk /\ asked = {check} /\ lic.checking /\ Answered(check)
      /\ granted \in Nat /\ granted \in Days /\ today \in Days
  BY DaysAssumption DEF PlanInv, TypeOK
<1>2. /\ UNCHANGED <<lic, stored, today, begun, dropped, faults>>
      /\ asked' = {[check EXCEPT !.result = Outcome(check, reply)]}
      /\ check.result.kind = "waiting"
  BY <1>1 DEF Respond
<1>3. /\ granted' \in Days /\ granted' \in Nat /\ granted' >= granted
      /\ reply.kind = "license" /\ Verifies(reply.blob) => granted' >= reply.blob.until
  <2>1. ASSUME reply.kind = "license" PROVE reply.blob.until \in Nat /\ reply.blob.until \in Days
    <3>1. PICK b \in Blobs : reply.blob = b
      BY <2>1 DEF Replies
    <3>. QED
      BY <3>1, BlobsAssumption, DaysAssumption
  <2>. QED
    BY <1>1, <2>1 DEF Respond
<1>4. \A x : Genuine(x) /\ x.blob.until \in Nat => Verifies(x.blob) /\ x.blob.until <= granted'
  BY <1>1, <1>3 DEF Genuine
<1>5. ASSUME NEW x \in LicenseOk, x # None, Genuine(x)
      PROVE  Verifies(x.blob) /\ x.blob.until <= granted'
  <2>1. x.blob.until \in Nat
    BY <1>5, BlobsAssumption, DaysAssumption DEF LicenseOk
  <2>. QED
    BY <1>5, <2>1, <1>4 DEF Genuine
<1>6. stored.license \in LicenseOk /\ lic.license \in LicenseOk
  BY DEF PlanInv, TypeOK
<1>7. PICK o : o = Outcome(check, reply)
  OBVIOUS
<1>8. /\ o \in [kind : {"valid", "rejected", "error"}, license : LicenseOk]
      /\ o.kind # "valid" => o.license = None
      /\ o.kind = "valid" => /\ o.license.blob.key = check.key
                             /\ Verifies(o.license.blob) /\ o.license.blob.until <= granted'
  <2>1. CASE Grants(check, reply)
    <3>1. /\ reply.kind = "license" /\ Verifies(reply.blob) /\ reply.blob.key = check.key
          /\ reply.blob \in Blobs
      BY <2>1 DEF Grants, Replies
    <3>2. License(reply.blob, check.server, today) \in LicenseOk
          /\ License(reply.blob, check.server, today).blob = reply.blob
      BY <3>1, <1>1 DEF License, LicenseOk, CheckOk
    <3>3. o = [kind |-> "valid", license |-> License(reply.blob, check.server, today)]
      BY <1>7, <2>1 DEF Outcome, Answer
    <3>4. reply.blob.until \in Nat
      BY <3>1, BlobsAssumption, DaysAssumption
    <3>. QED
      BY <3>1, <3>2, <3>3, <3>4, <1>3
  <2>2. CASE ~Grants(check, reply)
    BY <2>2, <1>7 DEF Outcome, Answer, LicenseOk
  <2>. QED
    BY <2>1, <2>2
<1>9. PICK d \in CheckOk : /\ asked' = {d} /\ d.manual = check.manual /\ d.key = check.key
                           /\ d.result = o
  <2>1. [check EXCEPT !.result = o] \in CheckOk
    BY <1>1, <1>8 DEF CheckOk
  <2>2. /\ [check EXCEPT !.result = o].manual = check.manual
        /\ [check EXCEPT !.result = o].key = check.key
        /\ [check EXCEPT !.result = o].result = o
    BY <1>1 DEF CheckOk
  <2>. QED
    BY <2>1, <2>2, <1>2, <1>7
<1>10. \A x \in asked' : Answered(x)'
  BY <1>1, <1>2, <1>8, <1>9 DEF Answered, Genuine
<1>11. TypeOK' /\ FileFollows'
  BY <1>2, <1>3 DEF PlanInv, TypeOK, FileFollows, LoadLicense
<1>12. /\ lic'.license # None =>
            Verifies(lic'.license.blob) /\ lic'.license.blob.until <= granted'
       /\ stored'.license # None /\ Verifies(stored'.license.blob) =>
            stored'.license.blob.until <= granted'
  <2>1. ASSUME lic.license # None PROVE Verifies(lic.license.blob) /\ lic.license.blob.until <= granted'
    BY <2>1, <1>5, <1>6 DEF PlanInv
  <2>2. ASSUME stored.license # None, Verifies(stored.license.blob)
        PROVE  stored.license.blob.until <= granted'
    BY <2>2, <1>5, <1>6 DEF PlanInv
  <2>. QED
    BY <2>1, <2>2, <1>2
<1>13. /\ asked' = {d} /\ lic'.checking
       /\ today' \in Days /\ begun' \subseteq Days /\ faults' \in Nat
       /\ stored'.trial \in begun' \cup {None} /\ lic'.trial \in begun' \cup {None}
       /\ dropped' = {}
  BY <1>1, <1>2, <1>9 DEF PlanInv
<1>. QED
  BY <1>9, <1>10, <1>11, <1>12, <1>13 DEF PlanInv, Genuine

(* The window handles the answer. *)
LEMMA PlanHandles ==
  ASSUME PlanInv, NEW check \in asked, NEW bad \in BOOLEAN, HandleValidated(check, bad)
  PROVE  PlanInv'
<1>1. /\ check \in CheckOk /\ asked = {check} /\ lic.checking /\ Answered(check)
      /\ asked' = {} /\ UNCHANGED <<today, granted, begun>>
      /\ check.result.kind # "waiting" /\ check.result.license \in LicenseOk
  BY DEF PlanInv, HandleValidated, CheckOk
<1> DEFINE refused == check.result.kind = "rejected" /\ ~check.manual
           changed == refused \/ check.result.kind = "valid"
<1>2. refused \in BOOLEAN /\ changed \in BOOLEAN
  OBVIOUS
<1>3. dropped' = {}
  BY <1>1 DEF HandleValidated, PlanInv, Answered
<1>4. /\ lic' = [lic EXCEPT !.checking = FALSE, !.open = @ \/ refused,
                           !.license = IF changed THEN check.result.license ELSE @]
      /\ stored' = IF changed /\ ~bad THEN [stored EXCEPT !.license = check.result.license]
                   ELSE stored
      /\ bad => faults' # 0
      /\ faults' \in Nat /\ (faults' = 0 => faults = 0)
  <2>1. bad => faults' # 0
    BY DEF HandleValidated, Faulting, PlanInv
  <2>2. faults' \in Nat /\ (faults' = 0 => faults = 0)
    BY DEF HandleValidated, Faulting, PlanInv
  <2>. QED
    BY <2>1, <2>2 DEF HandleValidated
<1>5. changed /\ check.result.license # None => Genuine(check.result.license)
  BY <1>1 DEF Answered
<1> HIDE DEF refused, changed
<1>6. /\ lic' \in [license : LicenseOk, trial : Days \cup {None}, checking : BOOLEAN, open : BOOLEAN]
      /\ lic'.license = IF changed THEN check.result.license ELSE lic.license
      /\ lic'.trial = lic.trial /\ lic'.checking = FALSE
  BY <1>1, <1>2, <1>4 DEF PlanInv, TypeOK
<1>7. /\ stored' \in [license : LicenseOk, trial : Days \cup {None}]
      /\ stored'.license = IF changed /\ ~bad THEN check.result.license ELSE stored.license
      /\ stored'.trial = stored.trial
  BY <1>1, <1>4 DEF PlanInv, TypeOK
<1>8. /\ lic'.license # None => Genuine(lic'.license)
      /\ stored'.license # None /\ Verifies(stored'.license.blob) => Genuine(stored'.license)
  BY <1>5, <1>6, <1>7 DEF PlanInv
<1>9. FileFollows'
  <2>1. ASSUME changed, ~bad PROVE LoadLicense(stored') = lic'.license
    BY <2>1, <1>5, <1>6, <1>7 DEF LoadLicense, Genuine
  <2>2. ASSUME ~changed, faults = 0 PROVE LoadLicense(stored') = lic'.license
    BY <2>2, <1>4, <1>6 DEF PlanInv, FileFollows
  <2>. QED
    BY <2>1, <2>2, <1>4 DEF FileFollows, LoadLicense
<1>. QED
  BY <1>1, <1>3, <1>4, <1>6, <1>7, <1>8, <1>9 DEF PlanInv, TypeOK, Genuine

(* Every step of the plan keeps its invariant. *)
LEMMA PlanSteps == PlanInv /\ [Next]_vars => PlanInv'
<1>1. ASSUME PlanInv, Next PROVE PlanInv'
  BY <1>1, PlanRestarts, PlanRests, PlanEdited, PlanAsks, PlanRemoved, PlanTried, PlanAnswered,
     PlanHandles DEF Next
<1>2. ASSUME PlanInv, UNCHANGED vars PROVE PlanInv'
  <2>1. UNCHANGED <<lic, stored, asked, today, granted, begun, dropped, faults>>
    BY <1>2 DEF vars
  <2>2. \A c \in asked' : Answered(c)'
    BY <1>2, <2>1 DEF PlanInv, Answered, Genuine
  <2>. QED
    BY <1>2, <2>1, <2>2 DEF PlanInv, TypeOK, FileFollows, LoadLicense, Genuine
<1>. QED
  BY <1>1, <1>2

(* What the plan promises follows: no check is doubled, and Pro is on by a
   license the product key signed or by a trial that has begun. *)
LEMMA PlanPromises ==
  ASSUME PlanInv
  PROVE  TypeOK /\ ProIsEarned /\ OneAtATime /\ RefusalHitsItsKey /\ FileFollows
<1>1. TypeOK /\ RefusalHitsItsKey /\ FileFollows
  BY DEF PlanInv, RefusalHitsItsKey
<1>2. OneAtATime
  <2>1. CASE asked = {}
    <3>1. Cardinality(asked) = 0
      BY <2>1, FS_EmptySet
    <3>. QED
      BY <3>1, <2>1 DEF PlanInv, OneAtATime, Answered
  <2>2. ASSUME NEW c \in CheckOk, asked = {c}, lic.checking PROVE OneAtATime
    <3>1. Cardinality(asked) = 1
      BY <2>2, FS_Singleton
    <3>. QED
      BY <3>1, <2>2 DEF PlanInv, OneAtATime, Answered
  <2>. QED
    BY <2>1, <2>2 DEF PlanInv
<1>3. ProIsEarned
  <2>1. ASSUME Active(lic.license) PROVE today < granted
    <3>1. lic.license \in LicenseOk /\ lic.license # None /\ Genuine(lic.license)
      BY <2>1 DEF Active, PlanInv, TypeOK
    <3>2. lic.license.blob.until \in Nat /\ today \in Nat /\ granted \in Nat
      BY <3>1, BlobsAssumption, DaysAssumption DEF LicenseOk, PlanInv, TypeOK
    <3>. QED
      BY <2>1, <3>1, <3>2 DEF Active, Genuine
  <2>2. ASSUME TrialLeft(lic.trial) PROVE \E start \in begun : today < start + TrialDays
    BY <2>2 DEF TrialLeft, PlanInv
  <2>. QED
    BY <2>1, <2>2 DEF ProIsEarned, ProFeatures
<1>. QED
  BY <1>1, <1>2, <1>3

-----------------------------------------------------------------------------
(* The updater's state is typed, and a call is a check or a download. *)
UpdTyped ==
  [checking : BOOLEAN, open : BOOLEAN, downloading : BOOLEAN, notice : BOOLEAN,
   release : Releases \cup {None}, downloaded : Releases \cup {None}]

(* A call is told from no call, a check from a download. *)
LEMMA CallsAreKnown ==
  /\ \A c \in CheckCalls : c # None /\ c.op = "check"
  /\ \A r \in Releases :
       LET c == [op |-> "download", release |-> r, stage |-> "asked", bytes |-> None]
       IN c # None /\ c \in Downloads
BY UpdaterAssumption DEF CheckCalls, Downloads

(* The app starts with an empty cache and asks silently. *)
LEMMA UpdaterStarts == Update1!Init => UpdaterInv
<1> SUFFICES ASSUME Update1!Init PROVE UpdaterInv
  OBVIOUS
<1>1. /\ upd \in UpdTyped /\ upd.checking = TRUE /\ upd.downloading = FALSE
      /\ upd.release = None /\ upd.downloaded = None
  BY DEF Update1!Init, Update1!Checking, Update1!Idle, UpdTyped
<1>2. call \in CheckCalls /\ call # None /\ call.op = "check"
  BY CallsAreKnown DEF Update1!Init, Update1!CheckCall, CheckCalls
<1>3. /\ cache \in [Update1!Versions -> [staged : Update1!Files, partial : Update1!Files]]
      /\ \A v \in Update1!Versions : cache[v].staged # Update1!Torn
  BY DEF Update1!Init, Update1!Files, Update1!NoFile, Update1!Torn
<1>4. installed.build = None /\ nagged = FALSE
  BY DEF Update1!Init
<1>. QED
  BY <1>1, <1>2, <1>3, <1>4
     DEF UpdaterInv, UpdTyped, Update1!TypeOK, Update1!OneCall, Update1!InstallsWhatIsShown,
         Update1!StagedIsWhole, Update1!RunsPublishedBuild, Update1!SkippedStaysQuiet, Fetched

(* The steps of the window and of a check, which leave the cache and the
   program as they are and hold no download: what is left to show of them. *)
LEMMA UpdaterAsksOrRests ==
  ASSUME UpdaterInv, upd' \in UpdTyped, UNCHANGED <<cache, installed>>, ~nagged',
         upd'.downloading = FALSE,
         call' \in {None} \cup CheckCalls,
         upd'.checking <=> call' # None,
         upd'.downloaded # None =>
           upd'.downloaded = upd.downloaded /\ upd'.release = upd.release,
         upd'.release # None => upd'.release.version > installed.version
  PROVE  UpdaterInv'
<1>1. call' # None => call'.op = "check"
  BY CallsAreKnown
<1>2. Update1!OneCall'
  BY <1>1 DEF Update1!OneCall
<1>3. Update1!InstallsWhatIsShown'
  BY DEF Update1!InstallsWhatIsShown, UpdaterInv
<1>4. ~Fetched'
  BY <1>1 DEF Fetched
<1>. QED
  BY <1>2, <1>3, <1>4
     DEF UpdaterInv, UpdTyped, Update1!TypeOK, Update1!StagedIsWhole,
         Update1!RunsPublishedBuild, Update1!SkippedStaysQuiet

(* The fields of the updater have their types. *)
LEMMA UpdaterTyped ==
  ASSUME UpdaterInv
  PROVE  /\ upd \in UpdTyped
         /\ cache \in [Update1!Versions -> [staged : Update1!Files, partial : Update1!Files]]
BY DEF UpdaterInv, UpdTyped, Update1!TypeOK

(* A check is asked for: at start, daily or by hand. *)
LEMMA UpdaterChecks ==
  ASSUME UpdaterInv, NEW manual \in BOOLEAN, Update1!Check(manual)
  PROVE  UpdaterInv'
<1>1. /\ upd' = [upd EXCEPT !.checking = TRUE, !.notice = FALSE, !.open = @ \/ manual]
      /\ call' = [op |-> "check", manual |-> manual] /\ UNCHANGED <<cache, installed, nagged>>
      /\ upd.downloading = FALSE /\ upd \in UpdTyped
  BY UpdaterTyped DEF Update1!Check, Update1!Checking, Update1!CheckCall, UpdTyped
<1>2. /\ upd' \in UpdTyped /\ upd'.checking = TRUE /\ upd'.downloading = FALSE
      /\ upd'.release = upd.release /\ upd'.downloaded = upd.downloaded
  BY <1>1 DEF UpdTyped
<1>3. call' \in CheckCalls /\ call' # None
  BY <1>1, CallsAreKnown DEF CheckCalls
<1>. QED
  BY <1>1, <1>2, <1>3, UpdaterAsksOrRests DEF UpdaterInv, Update1!SkippedStaysQuiet

(* A check is answered: only a newer version is offered. *)
LEMMA UpdaterAnswered ==
  ASSUME UpdaterInv, NEW answer \in Releases \cup {None}, Update1!HandleCheck(answer)
  PROVE  UpdaterInv'
<1> DEFINE done == [upd EXCEPT !.checking = FALSE]
           found == answer # None /\ Update1!Offers(answer)
           hidden == found /\ ~call.manual /\ skipped = answer.tag
<1>1. /\ call # None /\ call.op = "check" /\ call' = None
      /\ UNCHANGED <<cache, skipped, installed>>
      /\ upd' = IF found /\ ~hidden THEN Update1!Found(done, answer)
                ELSE [done EXCEPT !.open = @ \/ call.manual, !.notice = @ \/ (call.manual /\ ~found)]
  BY DEF Update1!HandleCheck
<1>2. call \in CheckCalls /\ call.manual \in BOOLEAN
  BY <1>1 DEF UpdaterInv, CheckCalls, Downloads
<1>3. upd \in UpdTyped /\ upd.downloading = FALSE
  BY <1>1, UpdaterTyped DEF UpdaterInv, Update1!OneCall, UpdTyped
<1>4. done \in UpdTyped /\ done.checking = FALSE /\ done.downloading = FALSE
      /\ done.release = upd.release /\ done.downloaded = upd.downloaded /\ done.open = upd.open
  BY <1>3 DEF UpdTyped
<1>5. found \in BOOLEAN /\ hidden \in BOOLEAN
  OBVIOUS
<1>6. nagged' = FALSE
  BY <1>1, <1>2, <1>3
     DEF Update1!HandleCheck, UpdaterInv, Update1!SkippedStaysQuiet, UpdTyped
<1>7. CASE found /\ ~hidden
  <2>1. upd' = [done EXCEPT !.release = answer, !.downloaded = None, !.open = TRUE]
    BY <1>1, <1>7 DEF Update1!Found
  <2>. HIDE DEF done
  <2>2. /\ upd' \in UpdTyped /\ upd'.checking = FALSE /\ upd'.downloading = FALSE
        /\ upd'.release = answer /\ upd'.downloaded = None
    BY <2>1, <1>4 DEF UpdTyped
  <2>3. answer.version > installed.version
    BY <1>7 DEF Update1!Offers
  <2>. QED
    BY <1>1, <1>6, <2>2, <2>3, UpdaterAsksOrRests DEF UpdaterInv, Update1!SkippedStaysQuiet
<1>8. CASE ~(found /\ ~hidden)
  <2>1. upd' = [done EXCEPT !.open = @ \/ call.manual, !.notice = @ \/ (call.manual /\ ~found)]
    BY <1>1, <1>8
  <2>. HIDE DEF done, found
  <2>2. /\ upd' \in UpdTyped /\ upd'.checking = FALSE /\ upd'.downloading = FALSE
        /\ upd'.release = upd.release /\ upd'.downloaded = upd.downloaded
    BY <2>1, <1>2, <1>4, <1>5 DEF UpdTyped
  <2>. QED
    BY <1>1, <1>6, <2>2, UpdaterAsksOrRests DEF UpdaterInv, Update1!SkippedStaysQuiet
<1>. QED
  BY <1>7, <1>8

(* A check fails. *)
LEMMA UpdaterGivesUp ==
  ASSUME UpdaterInv, Update1!CheckFails
  PROVE  UpdaterInv'
<1>1. /\ call # None /\ call.op = "check" /\ call' = None
      /\ UNCHANGED <<cache, installed, nagged>>
      /\ upd' = [upd EXCEPT !.checking = FALSE, !.open = @ \/ call.manual]
  BY DEF Update1!CheckFails
<1>2. call \in CheckCalls /\ call.manual \in BOOLEAN
  BY <1>1 DEF UpdaterInv, CheckCalls, Downloads
<1>3. upd \in UpdTyped /\ upd.downloading = FALSE
  BY <1>1, UpdaterTyped DEF UpdaterInv, Update1!OneCall, UpdTyped
<1>4. /\ upd' \in UpdTyped /\ upd'.checking = FALSE /\ upd'.downloading = FALSE
      /\ upd'.release = upd.release /\ upd'.downloaded = upd.downloaded
  BY <1>1, <1>2, <1>3 DEF UpdTyped
<1>. QED
  BY <1>1, <1>4, UpdaterAsksOrRests DEF UpdaterInv, Update1!SkippedStaysQuiet

(* The notice is closed, or its version skipped. *)
LEMMA UpdaterCloses ==
  ASSUME UpdaterInv, Update1!CloseDialog \/ Update1!Skip
  PROVE  UpdaterInv'
<1>1. /\ upd' = [upd EXCEPT !.open = FALSE] /\ UNCHANGED <<call, cache, installed, nagged>>
  BY DEF Update1!CloseDialog, Update1!Skip
<1>2. /\ upd' \in UpdTyped /\ upd'.checking = upd.checking /\ upd'.downloading = upd.downloading
      /\ upd'.release = upd.release /\ upd'.downloaded = upd.downloaded
  BY <1>1, UpdaterTyped DEF UpdTyped
<1>. QED
  BY <1>1, <1>2
     DEF UpdaterInv, UpdTyped, Update1!TypeOK, Update1!OneCall, Update1!InstallsWhatIsShown,
         Update1!StagedIsWhole, Update1!RunsPublishedBuild, Update1!SkippedStaysQuiet, Fetched

(* The download of the release shown begins. *)
LEMMA UpdaterDownloads ==
  ASSUME UpdaterInv, Update1!Download
  PROVE  UpdaterInv'
<1>1. /\ upd' = [upd EXCEPT !.downloading = TRUE]
      /\ call' = [op |-> "download", release |-> upd.release, stage |-> "asked", bytes |-> None]
      /\ UNCHANGED <<cache, installed, nagged>>
      /\ upd.release \in Releases /\ upd.checking = FALSE /\ upd.downloaded = None
      /\ upd \in UpdTyped
  BY UpdaterTyped DEF Update1!Download, Update1!Offered, Update1!Shown, UpdTyped
<1>2. /\ upd' \in UpdTyped /\ upd'.checking = FALSE /\ upd'.downloading = TRUE
      /\ upd'.release = upd.release /\ upd'.downloaded = None
  BY <1>1 DEF UpdTyped
<1>3. /\ call' # None /\ call' \in Downloads /\ call'.op = "download" /\ call'.stage = "asked"
      /\ call'.release = upd.release
  BY <1>1, CallsAreKnown
<1>. QED
  BY <1>1, <1>2, <1>3
     DEF UpdaterInv, UpdTyped, Update1!TypeOK, Update1!OneCall, Update1!InstallsWhatIsShown,
         Update1!StagedIsWhole, Update1!RunsPublishedBuild, Update1!SkippedStaysQuiet, Fetched

(* What is known while a download is under way. *)
LEMMA UpdaterDownloading ==
  ASSUME UpdaterInv, NEW stage, Update1!At(stage)
  PROVE  /\ call \in Downloads /\ call # None /\ call.op = "download" /\ call.stage = stage
         /\ upd \in UpdTyped /\ upd.downloading = TRUE /\ upd.checking = FALSE
         /\ upd.downloaded = None /\ upd.release = call.release /\ call.release \in Releases
         /\ call.release.version \in Update1!Versions
         /\ cache[call.release.version] \in [staged : Update1!Files, partial : Update1!Files]
         /\ cache[call.release.version].staged # Update1!Torn
<1>1. /\ call # None /\ call.op = "download" /\ call.stage = stage
  BY DEF Update1!At
<1>2. call \in Downloads
  BY <1>1 DEF UpdaterInv, CheckCalls
<1>3. upd \in UpdTyped /\ upd.downloading = TRUE /\ upd.checking = FALSE
  BY <1>1, UpdaterTyped DEF UpdaterInv, Update1!OneCall, UpdTyped
<1>4. upd.downloaded = None /\ upd.release = call.release /\ call.release \in Releases
  BY <1>2, <1>3 DEF UpdaterInv, Update1!OneCall, Downloads
<1>5. call.release.version \in Update1!Versions
  BY <1>4 DEF Update1!Versions
<1>. QED
  BY <1>1, <1>2, <1>3, <1>4, <1>5, UpdaterTyped DEF UpdaterInv, Update1!StagedIsWhole

(* A step of the download, up to the removal of the old package: what is at the
   place to install from is the old package or nothing. *)
LEMMA UpdaterStages ==
  ASSUME UpdaterInv, NEW stage, Update1!At(stage), UNCHANGED <<upd, installed, nagged>>,
         NEW next \in {"fetched", "written", "removed"},
         NEW bytes \in Builds,
         call' = [call EXCEPT !.stage = next, !.bytes = bytes],
         Update1!Verified(call.release, bytes),
         cache' \in [Update1!Versions -> [staged : Update1!Files, partial : Update1!Files]],
         \A v \in Update1!Versions : cache'[v].staged # Update1!Torn,
         next # "fetched" => cache'[call.release.version].partial = bytes
  PROVE  UpdaterInv'
<1>1. /\ call \in Downloads /\ upd \in UpdTyped /\ upd.downloading = TRUE /\ upd.checking = FALSE
      /\ upd.downloaded = None /\ upd.release = call.release
  BY UpdaterDownloading
<1>2. /\ call' \in Downloads /\ call'.op = "download" /\ call'.stage = next
      /\ call'.release = call.release /\ call'.bytes = bytes
  BY <1>1 DEF Downloads
<1>3. call' # None
  BY <1>2, UpdaterAssumption DEF Downloads
<1>. QED
  BY <1>1, <1>2, <1>3
     DEF UpdaterInv, UpdTyped, Update1!TypeOK, Update1!OneCall, Update1!InstallsWhatIsShown,
         Update1!StagedIsWhole, Update1!RunsPublishedBuild, Update1!SkippedStaysQuiet, Fetched,
         Update1!Verified

(* A download ends, with the package in its place or not. *)
LEMMA UpdaterEndsDownload ==
  ASSUME UpdaterInv, NEW stage, Update1!At(stage), NEW ready \in BOOLEAN,
         Update1!Downloaded(ready), UNCHANGED <<installed, nagged>>,
         cache' \in [Update1!Versions -> [staged : Update1!Files, partial : Update1!Files]],
         \A v \in Update1!Versions : cache'[v].staged # Update1!Torn,
         ready => /\ call.release.sum # "nowhere"
                  /\ cache'[call.release.version].staged = call.release.build
  PROVE  UpdaterInv'
<1>1. /\ upd \in UpdTyped /\ upd.downloading = TRUE /\ upd.checking = FALSE
      /\ upd.downloaded = None /\ upd.release = call.release /\ call.release \in Releases
  BY UpdaterDownloading
<1>2. /\ call' = None
      /\ upd' = [upd EXCEPT !.downloading = FALSE, !.open = TRUE,
                            !.downloaded = IF ready THEN call.release ELSE @]
  BY DEF Update1!Downloaded
<1>3. /\ upd' \in UpdTyped /\ upd'.checking = FALSE /\ upd'.downloading = FALSE
      /\ upd'.release = call.release
      /\ upd'.downloaded = IF ready THEN call.release ELSE None
  BY <1>1, <1>2 DEF UpdTyped
<1>4. call.release # None /\ upd.release.version > installed.version
  BY <1>1, UpdaterAssumption DEF UpdaterInv
<1>. QED
  BY <1>1, <1>2, <1>3, <1>4
     DEF UpdaterInv, UpdTyped, Update1!TypeOK, Update1!OneCall, Update1!InstallsWhatIsShown,
         Update1!StagedIsWhole, Update1!RunsPublishedBuild, Update1!SkippedStaysQuiet, Fetched

(* The package arrives and is compared with its checksum. *)
LEMMA UpdaterFetches ==
  ASSUME UpdaterInv, NEW bytes \in Builds, Update1!Fetch(bytes)
  PROVE  UpdaterInv'
<1>1. Update1!At("asked") /\ UNCHANGED <<cache, installed, nagged>>
  BY DEF Update1!Fetch
<1>2. CASE Update1!Verified(call.release, bytes)
  <2>1. call' = [call EXCEPT !.stage = "fetched", !.bytes = bytes] /\ UNCHANGED upd
    BY <1>2 DEF Update1!Fetch
  <2>. QED
    BY <1>1, <1>2, <2>1, UpdaterStages, UpdaterTyped DEF UpdaterInv, Update1!StagedIsWhole
<1>3. CASE ~Update1!Verified(call.release, bytes)
  <2>1. Update1!Downloaded(FALSE)
    BY <1>3 DEF Update1!Fetch
  <2>. QED
    BY <1>1, <2>1, UpdaterEndsDownload, UpdaterTyped DEF UpdaterInv, Update1!StagedIsWhole
<1>. QED
  BY <1>2, <1>3

(* The file of a version is replaced. *)
LEMMA CacheChanged ==
  ASSUME UpdaterInv, NEW v \in Update1!Versions,
         NEW file \in [staged : Update1!Files, partial : Update1!Files],
         file.staged # Update1!Torn, cache' = [cache EXCEPT ![v] = file]
  PROVE  /\ cache' \in [Update1!Versions -> [staged : Update1!Files, partial : Update1!Files]]
         /\ \A w \in Update1!Versions : cache'[w].staged # Update1!Torn
         /\ cache'[v] = file
BY UpdaterTyped DEF UpdaterInv, Update1!StagedIsWhole

(* A download that passed its checksum is written to the partial file. *)
LEMMA UpdaterWrites ==
  ASSUME UpdaterInv, Update1!WritePartial
  PROVE  UpdaterInv'
<1> DEFINE v == call.release.version
           file == [cache[v] EXCEPT !.partial = call.bytes]
<1>1. /\ Update1!At("fetched") /\ cache' = [cache EXCEPT ![v] = file]
      /\ call' = [call EXCEPT !.stage = "written"] /\ UNCHANGED <<upd, installed, nagged>>
  BY DEF Update1!WritePartial, Update1!Stage, Update1!Written, Update1!File
<1>2. /\ call.bytes \in Builds /\ Update1!Verified(call.release, call.bytes) /\ call \in Downloads
  BY <1>1, UpdaterDownloading DEF UpdaterInv, Fetched, Update1!At
<1>3. /\ file \in [staged : Update1!Files, partial : Update1!Files] /\ file.partial = call.bytes
      /\ file.staged # Update1!Torn
  BY <1>1, <1>2, UpdaterDownloading DEF Update1!Files
<1>4. call' = [call EXCEPT !.stage = "written", !.bytes = call.bytes]
  BY <1>1, <1>2 DEF Downloads
<1> HIDE DEF file
<1>5. v \in Update1!Versions
  BY <1>1, UpdaterDownloading
<1>6. /\ cache' \in [Update1!Versions -> [staged : Update1!Files, partial : Update1!Files]]
      /\ \A w \in Update1!Versions : cache'[w].staged # Update1!Torn
      /\ cache'[v] = file
  BY <1>1, <1>3, <1>5, CacheChanged
<1>. QED
  BY <1>1, <1>2, <1>3, <1>4, <1>6, UpdaterStages

(* The file it replaces is removed. *)
LEMMA UpdaterRemoves ==
  ASSUME UpdaterInv, Update1!RemoveOld
  PROVE  UpdaterInv'
<1> DEFINE v == call.release.version
           file == [cache[v] EXCEPT !.staged = Update1!NoFile]
<1>1. /\ Update1!At("written") /\ cache' = [cache EXCEPT ![v] = file]
      /\ call' = [call EXCEPT !.stage = "removed"] /\ UNCHANGED <<upd, installed, nagged>>
  BY DEF Update1!RemoveOld, Update1!Stage, Update1!File
<1>2. /\ call.bytes \in Builds /\ Update1!Verified(call.release, call.bytes) /\ call \in Downloads
      /\ cache[v].partial = call.bytes
  BY <1>1, UpdaterDownloading DEF UpdaterInv, Fetched, Update1!At
<1>3. /\ file \in [staged : Update1!Files, partial : Update1!Files] /\ file.partial = call.bytes
      /\ file.staged # Update1!Torn
  BY <1>1, <1>2, UpdaterDownloading DEF Update1!Files, Update1!NoFile, Update1!Torn
<1>4. call' = [call EXCEPT !.stage = "removed", !.bytes = call.bytes]
  BY <1>1, <1>2 DEF Downloads
<1> HIDE DEF file
<1>5. v \in Update1!Versions
  BY <1>1, UpdaterDownloading
<1>6. /\ cache' \in [Update1!Versions -> [staged : Update1!Files, partial : Update1!Files]]
      /\ \A w \in Update1!Versions : cache'[w].staged # Update1!Torn
      /\ cache'[v] = file
  BY <1>1, <1>3, <1>5, CacheChanged
<1>. QED
  BY <1>1, <1>2, <1>3, <1>4, <1>6, UpdaterStages

(* The partial file is moved to the place to install from: it is the package
   that was compared. *)
LEMMA UpdaterRenames ==
  ASSUME UpdaterInv, Update1!Rename
  PROVE  UpdaterInv'
<1> DEFINE v == call.release.version
           file == [staged |-> cache[v].partial, partial |-> Update1!NoFile]
<1>1. /\ Update1!At("removed") /\ cache' = [cache EXCEPT ![v] = file]
      /\ Update1!Downloaded(TRUE) /\ UNCHANGED <<installed, nagged>>
  BY DEF Update1!Rename, Update1!File
<1>2. /\ call.bytes \in Builds /\ Update1!Verified(call.release, call.bytes)
      /\ cache[v].partial = call.bytes
  BY <1>1, UpdaterDownloading DEF UpdaterInv, Fetched, Update1!At
<1>3. /\ file \in [staged : Update1!Files, partial : Update1!Files]
      /\ file.staged = call.release.build /\ file.staged # Update1!Torn
      /\ call.release.sum # "nowhere"
  BY <1>2, UpdaterAssumption DEF Update1!Files, Update1!Verified
<1> HIDE DEF file
<1>5. v \in Update1!Versions
  BY <1>1, UpdaterDownloading
<1>6. /\ cache' \in [Update1!Versions -> [staged : Update1!Files, partial : Update1!Files]]
      /\ \A w \in Update1!Versions : cache'[w].staged # Update1!Torn
      /\ cache'[v] = file
  BY <1>1, <1>3, <1>5, CacheChanged
<1>. QED
  BY <1>1, <1>3, <1>6, UpdaterEndsDownload

(* A write cut short leaves the place to install from alone. *)
LEMMA CutKeepsStaged ==
  ASSUME UpdaterInv, NEW stage, Update1!At(stage)
  PROVE  /\ Update1!Cut \in [staged : Update1!Files, partial : Update1!Files]
         /\ Update1!Cut.staged # Update1!Torn
         /\ Update1!Cut.staged = cache[call.release.version].staged
BY UpdaterDownloading DEF Update1!Cut, Update1!Written, Update1!File, Update1!Files

(* A download fails, at whichever step. *)
LEMMA UpdaterFailsDownload ==
  ASSUME UpdaterInv, Update1!DownloadFails
  PROVE  UpdaterInv'
<1>1. PICK stage \in {"fetched", "written", "removed"} : Update1!At(stage)
  BY DEF Update1!DownloadFails
<1>2. /\ cache' = [cache EXCEPT ![call.release.version] = Update1!Cut]
      /\ Update1!Downloaded(FALSE) /\ UNCHANGED <<installed, nagged>>
  BY DEF Update1!DownloadFails
<1>3. call.release.version \in Update1!Versions
  BY <1>1, UpdaterDownloading
<1>4. PICK file : file = Update1!Cut
  OBVIOUS
<1>5. /\ file \in [staged : Update1!Files, partial : Update1!Files] /\ file.staged # Update1!Torn
  BY <1>1, <1>4, CutKeepsStaged
<1>6. /\ cache' \in [Update1!Versions -> [staged : Update1!Files, partial : Update1!Files]]
      /\ \A w \in Update1!Versions : cache'[w].staged # Update1!Torn
  BY <1>2, <1>3, <1>4, <1>5, CacheChanged
<1>. QED
  BY <1>1, <1>2, <1>6, UpdaterEndsDownload

(* The app starts again: it checks, shows nothing and downloads nothing. *)
LEMMA UpdaterStartsAgain ==
  ASSUME Update1!Restarted
  PROVE  /\ upd' \in UpdTyped /\ upd'.checking = TRUE /\ upd'.downloading = FALSE
         /\ upd'.release = None /\ upd'.downloaded = None
         /\ call' \in CheckCalls /\ call' # None /\ call'.op = "check"
BY CallsAreKnown
   DEF Update1!Restarted, Update1!Checking, Update1!Idle, UpdTyped, Update1!CheckCall, CheckCalls

(* The app is started again, whatever was under way. *)
LEMMA UpdaterRestarts ==
  ASSUME UpdaterInv, Update1!Restart
  PROVE  UpdaterInv'
<1>1. Update1!Restarted /\ UNCHANGED <<installed, nagged>>
  BY DEF Update1!Restart
<1>2. /\ cache' \in [Update1!Versions -> [staged : Update1!Files, partial : Update1!Files]]
      /\ \A w \in Update1!Versions : cache'[w].staged # Update1!Torn
  <2>1. CASE Update1!At("fetched")
    <3>1. PICK file : file = Update1!Cut
      OBVIOUS
    <3>2. cache' = [cache EXCEPT ![call.release.version] = file]
      BY <2>1, <3>1 DEF Update1!Restart
    <3>3. file \in [staged : Update1!Files, partial : Update1!Files] /\ file.staged # Update1!Torn
      BY <2>1, <3>1, CutKeepsStaged
    <3>4. call.release.version \in Update1!Versions
      BY <2>1, UpdaterDownloading
    <3>. QED
      BY <3>2, <3>3, <3>4, CacheChanged
  <2>2. CASE ~Update1!At("fetched")
    BY <2>2, UpdaterTyped DEF Update1!Restart, UpdaterInv, Update1!StagedIsWhole
  <2>. QED
    BY <2>1, <2>2
<1>. QED
  BY <1>1, <1>2, UpdaterStartsAgain
     DEF UpdaterInv, UpdTyped, Update1!TypeOK, Update1!OneCall, Update1!InstallsWhatIsShown,
         Update1!StagedIsWhole, Update1!RunsPublishedBuild, Update1!SkippedStaysQuiet, Fetched

(* The staged package is installed: by the invariant it is the build the
   release's checksum is for. *)
LEMMA UpdaterInstalls ==
  ASSUME UpdaterInv, NEW platform \in Platforms, Update1!Install(platform)
  PROVE  UpdaterInv'
<1> DEFINE r == upd.downloaded
<1>1. /\ r # None /\ r \in Releases /\ r.version \in Update1!Versions
      /\ r.sum # "nowhere" /\ cache[r.version].staged = r.build
      /\ upd.downloading = FALSE /\ upd.checking = FALSE /\ ~nagged' /\ upd \in UpdTyped
  BY UpdaterTyped
     DEF Update1!Install, UpdaterInv, Update1!InstallsWhatIsShown, Update1!Versions, UpdTyped,
         Update1!Shown, Update1!SkippedStaysQuiet
<1>2. CASE platform = "restart"
  <2>1. /\ Update1!Restarted
        /\ installed' = [version |-> r.version, build |-> cache[r.version].staged]
        /\ cache' = [cache EXCEPT ![r.version].staged = Update1!NoFile]
    BY <1>2 DEF Update1!Install
  <2>2. PICK file : /\ file = [cache[r.version] EXCEPT !.staged = Update1!NoFile]
    OBVIOUS
  <2>3. /\ file \in [staged : Update1!Files, partial : Update1!Files] /\ file.staged # Update1!Torn
        /\ cache' = [cache EXCEPT ![r.version] = file]
    BY <2>1, <2>2, <1>1, UpdaterTyped DEF Update1!Files, Update1!NoFile, Update1!Torn
  <2>4. /\ cache' \in [Update1!Versions -> [staged : Update1!Files, partial : Update1!Files]]
        /\ \A w \in Update1!Versions : cache'[w].staged # Update1!Torn
    BY <1>1, <2>3, CacheChanged
  <2>5. Update1!RunsPublishedBuild'
    BY <1>1, <2>1 DEF Update1!RunsPublishedBuild
  <2>. QED
    BY <1>1, <2>1, <2>4, <2>5, UpdaterStartsAgain
       DEF UpdaterInv, UpdTyped, Update1!TypeOK, Update1!OneCall, Update1!InstallsWhatIsShown,
           Update1!StagedIsWhole, Update1!SkippedStaysQuiet, Fetched
<1>3. CASE platform # "restart"
  <2>1. /\ upd' = [upd EXCEPT !.notice = TRUE, !.release = None, !.downloaded = None]
        /\ UNCHANGED <<call, cache, installed>>
    BY <1>3 DEF Update1!Install
  <2>2. /\ upd' \in UpdTyped /\ upd'.checking = FALSE /\ upd'.downloading = FALSE
        /\ upd'.release = None /\ upd'.downloaded = None
    BY <2>1, <1>1 DEF UpdTyped
  <2>3. call = None
    BY <1>1 DEF UpdaterInv, Update1!OneCall, CheckCalls, Downloads
  <2>. QED
    BY <1>1, <2>1, <2>2, <2>3, UpdaterAsksOrRests
<1>. QED
  BY <1>2, <1>3

(* Every step of the updater keeps its invariant. *)
LEMMA UpdaterSteps == UpdaterInv /\ [Update1!Next]_updating => UpdaterInv'
<1>1. ASSUME UpdaterInv, Update1!Next PROVE UpdaterInv'
  BY <1>1, UpdaterChecks, UpdaterAnswered, UpdaterGivesUp, UpdaterCloses, UpdaterDownloads,
     UpdaterFetches, UpdaterWrites, UpdaterRemoves, UpdaterRenames, UpdaterFailsDownload,
     UpdaterRestarts, UpdaterInstalls DEF Update1!Next
<1>2. ASSUME UpdaterInv, UNCHANGED updating PROVE UpdaterInv'
  BY <1>2
     DEF updating, UpdaterInv, Update1!TypeOK, Update1!OneCall, Update1!InstallsWhatIsShown,
         Update1!StagedIsWhole, Update1!RunsPublishedBuild, Update1!SkippedStaysQuiet, Fetched
<1>. QED
  BY <1>1, <1>2

-----------------------------------------------------------------------------
(* Sequences, and how many of their entries are of a kind. *)
LEMMA EmptyOf ==
  ASSUME NEW S, NEW s \in Seq(S)
  PROVE  /\ Len(s) \in Nat
         /\ s = << >> <=> Len(s) = 0
<1>1. Len(<< >>) = 0
  OBVIOUS
<1>2. ASSUME Len(s) = 0 PROVE s = << >>
  BY <1>2
<1>. QED
  BY <1>1, <1>2

(* What is left of a queue when its first entry is taken. *)
LEMMA TailOf ==
  ASSUME NEW S, NEW q \in Seq(S), q # << >>
  PROVE  /\ Head(q) = q[1] /\ Head(q) \in S /\ Tail(q) \in Seq(S)
         /\ Len(q) \in Nat /\ Len(q) >= 1 /\ Len(Tail(q)) = Len(q) - 1
         /\ \A k \in 1 .. (Len(q) - 1) : Tail(q)[k] = q[k + 1]
         /\ Tail(q) = << >> => Len(q) = 1
         /\ Tail(q) # << >> => Tail(q)[Len(Tail(q))] = q[Len(q)]
<1>1. Len(q) \in Nat /\ Len(q) >= 1
  OBVIOUS
<1>2. Head(q) = q[1] /\ Head(q) \in S /\ Tail(q) \in Seq(S)
  BY <1>1
<1>3. Len(Tail(q)) = Len(q) - 1
  BY <1>1
<1>4. \A k \in 1 .. (Len(q) - 1) : Tail(q)[k] = q[k + 1]
  BY <1>1
<1>5. Tail(q) = << >> => Len(q) = 1
  <2>0. Len(<< >>) = 0
    OBVIOUS
  <2>1. ASSUME Tail(q) = << >> PROVE Len(Tail(q)) = 0
    BY <2>0, <2>1, Zenon
  <2>. QED
    BY <2>1, <1>1, <1>3
<1>6. Tail(q) # << >> => Tail(q)[Len(Tail(q))] = q[Len(q)]
  <2> SUFFICES ASSUME Tail(q) # << >> PROVE Tail(q)[Len(q) - 1] = q[Len(q)]
    BY <1>3
  <2>1. Len(Tail(q)) # 0
    BY <1>2, EmptyOf
  <2>2. Len(q) - 1 \in 1 .. (Len(q) - 1) /\ (Len(q) - 1) + 1 = Len(q)
    BY <1>1, <1>3, <2>1
  <2>3. Tail(q)[Len(q) - 1] = q[(Len(q) - 1) + 1]
    BY <1>4, <2>2
  <2>. QED
    BY <2>2, <2>3
<1>. QED
  BY <1>1, <1>2, <1>3, <1>4, <1>5, <1>6

(* A queue to which an entry is added. *)
LEMMA AppendOf ==
  ASSUME NEW S, NEW q \in Seq(S), NEW e \in S
  PROVE  /\ Append(q, e) \in Seq(S) /\ Append(q, e) # << >>
         /\ Len(Append(q, e)) = Len(q) + 1 /\ Len(q) \in Nat
         /\ Append(q, e)[Len(Append(q, e))] = e
         /\ \A k \in 1 .. Len(q) : Append(q, e)[k] = q[k]
         /\ Append(q, e)[Len(q) + 1] = e
         /\ DOMAIN Append(q, e) = 1 .. (Len(q) + 1) /\ DOMAIN q = 1 .. Len(q)
OBVIOUS

(* Sets of indices are finite, and one more index counts for one. *)
LEMMA CountOf ==
  ASSUME NEW n \in Nat, NEW S \in SUBSET (1 .. n)
  PROVE  /\ IsFiniteSet(S) /\ Cardinality(S) \in Nat
         /\ Cardinality(S \cup {n + 1}) = Cardinality(S) + 1
<1>1. IsFiniteSet(1 .. n)
  BY FS_Interval
<1>2. IsFiniteSet(S)
  BY <1>1, FS_Subset
<1>3. Cardinality(S) \in Nat
  BY <1>2, FS_CardinalityType
<1>4. n + 1 \notin S
  OBVIOUS
<1>. QED
  BY <1>2, <1>3, <1>4, FS_AddElement

(* Indices moved down by one count the same, but for the first. *)
LEMMA CountOfTail ==
  ASSUME NEW n \in Nat, NEW S \in SUBSET (1 .. (n + 1))
  PROVE  Cardinality({k \in 1 .. n : k + 1 \in S})
           = IF 1 \in S THEN Cardinality(S) - 1 ELSE Cardinality(S)
<1> DEFINE T == {k \in 1 .. n : k + 1 \in S}
           U == S \ {1}
           f == [k \in U |-> k - 1]
<1>1. IsFiniteSet(S) /\ Cardinality(S) \in Nat
  <2>1. PICK m \in Nat : m = n + 1
    OBVIOUS
  <2>. QED
    BY <2>1, CountOf
<1>2. IsFiniteSet(U) /\ Cardinality(U) = IF 1 \in S THEN Cardinality(S) - 1 ELSE Cardinality(S)
  BY <1>1, FS_RemoveElement
<1>3. \A k \in U : k - 1 \in T /\ k \in Nat
  OBVIOUS
<1>4. f \in [U -> T]
  BY <1>3
<1>5. \A j, k \in U : f[j] = f[k] => j = k
  BY <1>3
<1>6. \A t \in T : \E k \in U : f[k] = t
  <2> SUFFICES ASSUME NEW t \in T PROVE \E k \in U : f[k] = t
    OBVIOUS
  <2>1. t + 1 \in U /\ (t + 1) - 1 = t
    OBVIOUS
  <2>. QED
    BY <2>1
<1> HIDE DEF T, U, f
<1>7. f \in Bijection(U, T)
  BY <1>4, <1>5, <1>6 DEF Bijection, Injection, Surjection, IsInjective
<1>8. Cardinality(T) = Cardinality(U)
  BY <1>2, <1>7, FS_Bijection DEF ExistsBijection
<1>. QED
  BY <1>2, <1>8 DEF T

(* How many of the entries of q are in K. *)
CountIn(q, K) == Cardinality({k \in DOMAIN q : q[k] \in K})

(* An entry added to a queue counts if it is in K. *)
LEMMA CountAppended ==
  ASSUME NEW E, NEW K \in SUBSET E, NEW q \in Seq(E), NEW e \in E
  PROVE  /\ CountIn(q, K) \in Nat
         /\ e \in K => CountIn(Append(q, e), K) = CountIn(q, K) + 1
         /\ e \notin K => CountIn(Append(q, e), K) = CountIn(q, K)
<1> DEFINE P == {k \in DOMAIN q : q[k] \in K}
           R == {k \in DOMAIN Append(q, e) : Append(q, e)[k] \in K}
<1>1. PICK n \in Nat : n = Len(q) /\ DOMAIN q = 1 .. n
  OBVIOUS
<1>2. P \in SUBSET (1 .. n)
  BY <1>1
<1>3. Cardinality(P) \in Nat /\ Cardinality(P \cup {n + 1}) = Cardinality(P) + 1
  BY <1>2, CountOf
<1>4. /\ DOMAIN Append(q, e) = 1 .. (n + 1) /\ Append(q, e)[n + 1] = e
      /\ \A k \in 1 .. n : Append(q, e)[k] = q[k]
  BY <1>1, AppendOf
<1>5. \A k : k \in R <=> k \in P \/ (k = n + 1 /\ e \in K)
  BY <1>1, <1>4
<1>6. CountIn(q, K) = Cardinality(P) /\ CountIn(Append(q, e), K) = Cardinality(R)
  BY Zenon DEF CountIn
<1> HIDE DEF P, R
<1>7. ASSUME e \in K PROVE R = P \cup {n + 1}
  BY <1>5, <1>7
<1>8. ASSUME e \notin K PROVE R = P
  BY <1>5, <1>8
<1>. QED
  BY <1>3, <1>6, <1>7, <1>8

(* The first entry taken from a queue no longer counts. *)
LEMMA CountTaken ==
  ASSUME NEW E, NEW K \in SUBSET E, NEW q \in Seq(E), q # << >>
  PROVE  /\ CountIn(q, K) \in Nat /\ CountIn(Tail(q), K) \in Nat
         /\ Head(q) \in K => CountIn(q, K) = CountIn(Tail(q), K) + 1
         /\ Head(q) \notin K => CountIn(q, K) = CountIn(Tail(q), K)
<1> DEFINE P == {k \in DOMAIN q : q[k] \in K}
           R == {k \in DOMAIN Tail(q) : Tail(q)[k] \in K}
<1>0. Len(q) \in Nat /\ Len(q) >= 1
  OBVIOUS
<1>1. PICK n \in Nat : Len(q) = n + 1 /\ DOMAIN q = 1 .. (n + 1)
  <2>1. Len(q) - 1 \in Nat /\ Len(q) = (Len(q) - 1) + 1 /\ DOMAIN q = 1 .. Len(q)
    BY <1>0
  <2>. QED
    BY <2>1
<1>2. P \in SUBSET (1 .. (n + 1)) /\ (1 \in P <=> Head(q) \in K)
  BY <1>1, TailOf
<1>3. PICK m \in Nat : m = n + 1
  OBVIOUS
<1>4. Cardinality(P) \in Nat
  BY <1>2, <1>3, CountOf
<1>5. Tail(q) \in Seq(E) /\ Len(Tail(q)) = n /\ \A k \in 1 .. n : Tail(q)[k] = q[k + 1]
  BY <1>1, TailOf
<1>6. DOMAIN Tail(q) = 1 .. n
  BY <1>5
<1>7. \A k : k \in R <=> k \in 1 .. n /\ k + 1 \in P
  BY <1>1, <1>5, <1>6
<1>8. R = {k \in 1 .. n : k + 1 \in P}
  BY <1>7
<1>9. R \in SUBSET (1 .. n)
  BY <1>6
<1>10. Cardinality(R) \in Nat
  BY <1>9, CountOf
<1>11. CountIn(q, K) = Cardinality(P) /\ CountIn(Tail(q), K) = Cardinality(R)
  BY Zenon DEF CountIn
<1> HIDE DEF P, R
<1>12. Cardinality({k \in 1 .. n : k + 1 \in P}) = IF 1 \in P THEN Cardinality(P) - 1 ELSE Cardinality(P)
  BY <1>2, CountOfTail
<1>13. Cardinality(R) = IF 1 \in P THEN Cardinality(P) - 1 ELSE Cardinality(P)
  BY <1>8, <1>12, Zenon
<1>. QED
  BY <1>2, <1>4, <1>10, <1>11, <1>13

(* The instance's Cardinality is Cardinality. *)
LEMMA SameCardinality == \A S : Console1!Cardinality(S) = Cardinality(S)
BY Zenon DEF Console1!Cardinality, Cardinality

(* The texts that wait for the session. *)
LEMMA QueuedOf ==
  ASSUME NEW c
  PROVE  Console1!Queued(c) = CountIn(c.out, {"text"})
<1> DEFINE P == {k \in DOMAIN c.out : c.out[k] = "text"}
           R == {k \in DOMAIN c.out : c.out[k] \in {"text"}}
<1>1. P = R
  OBVIOUS
<1>2. Console1!Queued(c) = Cardinality(P)
  BY SameCardinality, Zenon DEF Console1!Queued
<1>3. CountIn(c.out, {"text"}) = Cardinality(R)
  BY Zenon DEF CountIn
<1> HIDE DEF P, R
<1>. QED
  BY <1>1, <1>2, <1>3

(* A message is queued for the session. *)
LEMMA QueuedAppended ==
  ASSUME NEW c, NEW d, c.out \in Seq({"text", "close"}), NEW e \in {"text", "close"},
         d.out = Append(c.out, e)
  PROVE  /\ Console1!Queued(c) \in Nat
         /\ e = "text" => Console1!Queued(d) = Console1!Queued(c) + 1
         /\ e = "close" => Console1!Queued(d) = Console1!Queued(c)
<1> DEFINE q == c.out
           E == {"text", "close"}
           K == {"text"}
<1>1. Console1!Queued(c) = CountIn(q, K) /\ Console1!Queued(d) = CountIn(Append(q, e), K)
  BY QueuedOf, Zenon
<1>2. K \in SUBSET E /\ q \in Seq(E) /\ e \in E
  OBVIOUS
<1>3. (e = "text" => e \in K) /\ (e = "close" => e \notin K)
  OBVIOUS
<1> HIDE DEF q, K, E
<1>4. /\ CountIn(q, K) \in Nat
      /\ e \in K => CountIn(Append(q, e), K) = CountIn(q, K) + 1
      /\ e \notin K => CountIn(Append(q, e), K) = CountIn(q, K)
  BY <1>2, CountAppended, Zenon
<1>. QED
  BY <1>1, <1>3, <1>4

(* The session takes a message. *)
LEMMA QueuedTaken ==
  ASSUME NEW c, NEW d, c.out \in Seq({"text", "close"}), c.out # << >>, d.out = Tail(c.out)
  PROVE  /\ Console1!Queued(c) \in Nat /\ Console1!Queued(d) \in Nat
         /\ Head(c.out) = "text" => Console1!Queued(c) = Console1!Queued(d) + 1
         /\ Head(c.out) = "close" => Console1!Queued(c) = Console1!Queued(d)
<1> DEFINE q == c.out
           E == {"text", "close"}
           K == {"text"}
<1>1. Console1!Queued(c) = CountIn(q, K) /\ Console1!Queued(d) = CountIn(Tail(q), K)
  BY QueuedOf, Zenon
<1>2. K \in SUBSET E /\ q \in Seq(E) /\ q # << >>
  OBVIOUS
<1>3. (Head(q) = "text" => Head(q) \in K) /\ (Head(q) = "close" => Head(q) \notin K)
  OBVIOUS
<1> HIDE DEF q, K, E
<1>4. /\ CountIn(q, K) \in Nat /\ CountIn(Tail(q), K) \in Nat
      /\ Head(q) \in K => CountIn(q, K) = CountIn(Tail(q), K) + 1
      /\ Head(q) \notin K => CountIn(q, K) = CountIn(Tail(q), K)
  BY <1>2, CountTaken, Zenon
<1>5. q = c.out
  BY DEF q
<1>. QED
  BY <1>1, <1>3, <1>4, <1>5

(* The queue is left alone. *)
LEMMA QueuedSame ==
  ASSUME NEW c, NEW d, d.out = c.out
  PROVE  Console1!Queued(d) = Console1!Queued(c)
<1>1. Console1!Queued(c) = CountIn(c.out, {"text"}) /\ Console1!Queued(d) = CountIn(d.out, {"text"})
  BY QueuedOf, Zenon
<1>. QED
  BY <1>1, Zenon

(* A connection on its own.  What the rest of the console reads of c is in d. *)
Follows(c, d) ==
  /\ d.protocol = c.protocol
  /\ d.task = "none" <=> c.task = "none"
  /\ c.task \in {"session", "gone"} => d.task \in {"session", "gone"}
  /\ c.task = "none" => d.status = c.status

(* The fields of a connection have their types. *)
LEMMA ConnTyped ==
  ASSUME NEW c \in Conn
  PROVE  /\ c.protocol \in Protocols /\ c.status \in {"connecting", "open", "closed", "error"}
         /\ c.task \in {"none", "connecting", "session", "gone"}
         /\ c.known \in BOOLEAN /\ c.cancelled \in BOOLEAN /\ c.shut \in BOOLEAN
         /\ c.out \in Seq({"text", "close"})
         /\ c.events \in Seq(Console1!Events) /\ c.ui \in Seq(Console1!Events)
         /\ c.heard \in Nat /\ c.sent \in Nat /\ c.arrived \in Nat
         /\ c.ended \in BOOLEAN /\ c.asked \in {"no", "early", "late"}
BY DEF Conn

(* handle_ws_event, handle_sse_event: the last event decides what is shown. *)
LEMMA EventHandled ==
  ASSUME NEW c, ConnInv(c), c.ui # << >>
  PROVE  LET d == [c EXCEPT !.status = Console1!StatusAfter(@, Head(c.ui)), !.ui = Tail(@)]
         IN  ConnInv(d) /\ Follows(c, d) /\ \A w \in Nat : Arrived(c, w) => Arrived(d, w)
<1> DEFINE st == Console1!StatusAfter(c.status, Head(c.ui))
           d == [c EXCEPT !.status = Console1!StatusAfter(@, Head(c.ui)), !.ui = Tail(@)]
<1>1. c \in Conn /\ Registered(c) /\ Started(c) /\ NewsOfEnd(c) /\ EndActs(c)
  BY DEF ConnInv
<1>2. /\ Head(c.ui) \in Console1!Events /\ Head(c.ui) = c.ui[1] /\ Tail(c.ui) \in Seq(Console1!Events)
      /\ Tail(c.ui) = << >> => Len(c.ui) = 1
      /\ Tail(c.ui) # << >> => Tail(c.ui)[Len(Tail(c.ui))] = c.ui[Len(c.ui)]
  BY <1>1, ConnTyped, TailOf
<1>3. /\ st \in {"connecting", "open", "closed", "error"}
      /\ Head(c.ui) \in Terminal => st \in {"closed", "error"}
  BY <1>1, <1>2, ConnTyped DEF Console1!StatusAfter, Console1!Events, Terminal
<1> HIDE DEF st
<1>4. d = [c EXCEPT !.status = st, !.ui = Tail(c.ui)]
  BY <1>1 DEF st, Conn
<1>5. /\ d \in Conn /\ d.status = st /\ d.ui = Tail(c.ui)
      /\ d.protocol = c.protocol /\ d.task = c.task /\ d.known = c.known
      /\ d.cancelled = c.cancelled /\ d.shut = c.shut /\ d.out = c.out
      /\ d.events = c.events /\ d.sent = c.sent
      /\ d.arrived = c.arrived /\ d.ended = c.ended /\ d.asked = c.asked
  BY <1>1, <1>2, <1>3, <1>4 DEF Conn
<1> HIDE DEF d
<1>6. Told(c) => Told(d)
  BY <1>2, <1>3, <1>5 DEF Told, Console1!Live
<1>7. Registered(d) /\ Follows(c, d)
  BY <1>1, <1>5 DEF Registered, Follows, Started
<1>8. Started(d)
  BY <1>1, <1>5 DEF Started
<1>9. NewsOfEnd(d)
  BY <1>1, <1>5, <1>6 DEF NewsOfEnd
<1>10. EndActs(d)
  BY <1>1, <1>5 DEF EndActs, Console1!Shutting, Console1!Ending
<1>11. ASSUME NEW w \in Nat, Arrived(c, w) PROVE Arrived(d, w)
  BY <1>5, <1>11, QueuedSame DEF Arrived, Console1!Ending
<1>12. ConnInv(d)
  BY <1>5, <1>7, <1>8, <1>9, <1>10 DEF ConnInv
<1>. QED
  BY <1>7, <1>11, <1>12 DEF d

(* A new connection; the bridge registers an SSE subscription at once. *)
LEMMA ConnOpens ==
  ASSUME NEW p \in Protocols, NEW st \in {"connecting", "error"}
  PROVE  LET d == Console1!Opened(p, st)
         IN  ConnInv(d) /\ Arrived(d, 0) /\ d.task = "none" /\ d.status = st
<1> DEFINE d == Console1!Opened(p, st)
<1>1. /\ d \in Conn /\ d.status = st /\ d.task = "none" /\ d.ui = << >> /\ d.events = << >>
      /\ d.out = << >> /\ d.sent = 0 /\ d.arrived = 0 /\ d.ended = FALSE /\ d.cancelled = FALSE
      /\ d.asked = "no"
  BY DEF Console1!Opened, Conn
<1>2. Console1!Queued(d) = 0
  <2>1. Console1!Queued(d) = CountIn(d.out, {"text"})
    BY QueuedOf, Zenon
  <2>2. {k \in DOMAIN d.out : d.out[k] \in {"text"}} = {}
    BY <1>1
  <2>. QED
    BY <2>1, <2>2, FS_EmptySet DEF CountIn
<1> HIDE DEF d
<1>3. Registered(d) /\ Started(d) /\ NewsOfEnd(d) /\ EndActs(d)
  BY <1>1 DEF Registered, Started, NewsOfEnd, EndActs
<1>4. ConnInv(d) /\ Arrived(d, 0)
  BY <1>1, <1>2, <1>3 DEF ConnInv, Arrived
<1>. QED
  BY <1>1, <1>4 DEF d

(* The bridge starts the connection's task. *)
LEMMA ConnConnects ==
  ASSUME NEW c, ConnInv(c), c.task = "none"
  PROVE  LET d == Console1!OnConnect(c)
         IN  /\ ConnInv(d) /\ d.protocol = c.protocol /\ d.task = "connecting"
             /\ \A w \in Nat : Arrived(c, w) => Arrived(d, w)
<1> DEFINE d == Console1!OnConnect(c)
<1>1. c \in Conn /\ Registered(c) /\ Started(c) /\ NewsOfEnd(c) /\ EndActs(c)
  BY DEF ConnInv
<1>2. /\ d \in Conn /\ d.status = c.status /\ d.ui = c.ui
      /\ d.protocol = c.protocol /\ d.task = "connecting" /\ d.known = (c.protocol = "sse")
      /\ d.cancelled = c.cancelled /\ d.shut = c.shut /\ d.out = c.out
      /\ d.events = c.events /\ d.sent = c.sent
      /\ d.arrived = c.arrived /\ d.ended = c.ended /\ d.asked = c.asked
  BY <1>1 DEF Conn, Console1!OnConnect
<1> HIDE DEF d
<1>3. Registered(d) /\ Started(d) /\ NewsOfEnd(d)
  BY <1>1, <1>2 DEF Registered, Started, NewsOfEnd
<1>4. EndActs(d)
  BY <1>1, <1>2 DEF EndActs, Console1!Shutting, Console1!Ending
<1>5. ASSUME NEW w \in Nat, Arrived(c, w) PROVE Arrived(d, w)
  BY <1>2, <1>5, QueuedSame DEF Arrived, Console1!Ending
<1>6. ConnInv(d)
  BY <1>2, <1>3, <1>4 DEF ConnInv
<1>. QED
  BY <1>2, <1>5, <1>6 DEF d

(* The bridge hands a text to the session of a connection it knows. *)
LEMMA ConnSends ==
  ASSUME NEW c, ConnInv(c), c.protocol = "ws", c.task \in {"session", "gone"}
  PROVE  LET d == Console1!OnSend(c)
         IN  /\ ConnInv(d) /\ Follows(c, d)
             /\ \A w \in Nat : Arrived(c, w + 1) => Arrived(d, w)
<1> DEFINE d == Console1!OnSend(c)
<1>1. c \in Conn /\ Registered(c) /\ Started(c) /\ NewsOfEnd(c) /\ EndActs(c)
  BY DEF ConnInv
<1>2. CASE ~c.known
  <2>1. d = c /\ c.task = "gone"
    BY <1>1, <1>2 DEF Console1!OnSend, Registered
  <2>. QED
    BY <2>1, <1>1 DEF ConnInv, Follows, Arrived, Console1!Ending
<1>3. CASE c.known
  <2>1. c.out \in Seq({"text", "close"})
    BY <1>1, ConnTyped
  <2>2. /\ Append(c.out, "text") \in Seq({"text", "close"})
        /\ DOMAIN c.out = 1 .. Len(c.out) /\ Len(c.out) \in Nat
        /\ DOMAIN Append(c.out, "text") = 1 .. (Len(c.out) + 1)
        /\ \A k \in 1 .. Len(c.out) : Append(c.out, "text")[k] = c.out[k]
    BY <2>1, AppendOf
  <2>3. /\ d \in Conn /\ d.status = c.status /\ d.ui = c.ui
        /\ d.protocol = c.protocol /\ d.task = c.task /\ d.known = c.known
        /\ d.cancelled = c.cancelled /\ d.shut = c.shut /\ d.out = Append(c.out, "text")
        /\ d.events = c.events /\ d.sent = c.sent
        /\ d.arrived = c.arrived /\ d.ended = c.ended /\ d.asked = c.asked
    BY <1>1, <1>3, <2>2 DEF Conn, Console1!OnSend
  <2> HIDE DEF d
  <2>4. Registered(d) /\ Started(d) /\ NewsOfEnd(d)
    BY <1>1, <2>3 DEF Registered, Started, NewsOfEnd, Told, Console1!Live
  <2>5. EndActs(d)
    <3>1. Console1!Shutting(c) => Console1!Shutting(d)
      BY <2>2, <2>3 DEF Console1!Shutting
    <3>. QED
      BY <1>1, <2>3, <3>1 DEF EndActs, Console1!Ending
  <2>6. Console1!Queued(c) \in Nat /\ Console1!Queued(d) = Console1!Queued(c) + 1
    BY <2>1, <2>3, QueuedAppended
  <2>7. ASSUME NEW w \in Nat, Arrived(c, w + 1) PROVE Arrived(d, w)
    BY <1>1, <2>3, <2>6, <2>7, ConnTyped DEF Arrived, Console1!Ending
  <2>8. ConnInv(d) /\ Follows(c, d)
    BY <2>3, <2>4, <2>5 DEF ConnInv, Follows
  <2>. QED
    BY <2>7, <2>8 DEF d
<1>. QED
  BY <1>2, <1>3

(* WsClose and SseCancel: the session is told, or the subscription's token is
   cancelled; only a WebSocket that still connects is not known. *)
LEMMA ConnCloses ==
  ASSUME NEW c, ConnInv(c), c.task # "none", Protocols \subseteq {"ws", "sse"}
  PROVE  LET d == Console1!OnClose(c)
         IN  /\ ConnInv(d) /\ Follows(c, d)
             /\ \A w \in Nat : Arrived(c, w) => Arrived(d, w)
<1> DEFINE d == Console1!OnClose(c)
           wish == IF c.asked # "no" THEN c.asked ELSE IF c.task = "connecting" THEN "early" ELSE "late"
<1>1. c \in Conn /\ Registered(c) /\ Started(c) /\ NewsOfEnd(c) /\ EndActs(c)
  BY DEF ConnInv
<1>2. /\ wish \in {"early", "late"} /\ (c.task = "connecting" /\ c.asked = "no" => wish = "early")
      /\ c.asked # "no" => wish = c.asked
  BY <1>1, ConnTyped
<1> HIDE DEF wish
<1>3. c.protocol \in {"ws", "sse"} /\ c.out \in Seq({"text", "close"})
  BY <1>1, ConnTyped
<1>4. CASE c.protocol = "ws" /\ c.known
  <2>1. /\ Append(c.out, "close") \in Seq({"text", "close"})
        /\ DOMAIN Append(c.out, "close") = 1 .. (Len(c.out) + 1) /\ Len(c.out) \in Nat
        /\ Append(c.out, "close")[Len(c.out) + 1] = "close"
    BY <1>3, AppendOf
  <2>2. /\ d \in Conn /\ d.status = c.status /\ d.ui = c.ui
        /\ d.protocol = c.protocol /\ d.task = c.task /\ d.known = c.known
        /\ d.cancelled = c.cancelled /\ d.shut = c.shut /\ d.out = Append(c.out, "close")
        /\ d.events = c.events /\ d.sent = c.sent
        /\ d.arrived = c.arrived /\ d.ended = c.ended /\ d.asked = wish
    BY <1>1, <1>2, <1>4, <2>1 DEF Conn, Console1!OnClose, Console1!OnWsClose, wish
  <2> HIDE DEF d
  <2>3. Registered(d) /\ Started(d)
    BY <1>1, <2>2 DEF Registered, Started
  <2>4. NewsOfEnd(d)
    BY <1>1, <1>2, <2>2 DEF NewsOfEnd, Told, Console1!Live
  <2>5. EndActs(d)
    BY <2>1, <2>2 DEF EndActs, Console1!Shutting
  <2>6. Console1!Queued(d) = Console1!Queued(c)
    BY <1>3, <2>2, QueuedAppended
  <2>7. ASSUME NEW w \in Nat, Arrived(c, w) PROVE Arrived(d, w)
    BY <2>2, <2>6, <2>7 DEF Arrived, Console1!Ending
  <2>8. ConnInv(d) /\ Follows(c, d)
    BY <2>2, <2>3, <2>4, <2>5 DEF ConnInv, Follows
  <2>. QED
    BY <2>7, <2>8 DEF d
<1>5. CASE c.protocol = "sse" /\ c.known
  <2>2. /\ d \in Conn /\ d.status = c.status /\ d.ui = c.ui
        /\ d.protocol = c.protocol /\ d.task = c.task /\ d.known = FALSE
        /\ d.cancelled = TRUE /\ d.shut = c.shut /\ d.out = c.out
        /\ d.events = c.events /\ d.sent = c.sent
        /\ d.arrived = c.arrived /\ d.ended = c.ended /\ d.asked = wish
    BY <1>1, <1>2, <1>5 DEF Conn, Console1!OnClose, Console1!OnSseClose, wish
  <2> HIDE DEF d
  <2>3. Registered(d) /\ Started(d)
    BY <1>1, <1>5, <2>2 DEF Registered, Started
  <2>4. NewsOfEnd(d)
    BY <1>1, <1>2, <1>5, <2>2 DEF NewsOfEnd, Told, Console1!Live
  <2>5. EndActs(d)
    BY <2>2 DEF EndActs, Console1!Shutting
  <2>7. ASSUME NEW w \in Nat, Arrived(c, w) PROVE Arrived(d, w)
    BY <2>2, <2>7, QueuedSame DEF Arrived, Console1!Ending
  <2>8. ConnInv(d) /\ Follows(c, d)
    BY <2>2, <2>3, <2>4, <2>5 DEF ConnInv, Follows
  <2>. QED
    BY <2>7, <2>8 DEF d
<1>6. CASE ~c.known
  <2>2. /\ d \in Conn /\ d.status = c.status /\ d.ui = c.ui
        /\ d.protocol = c.protocol /\ d.task = c.task /\ d.known = c.known
        /\ d.cancelled = c.cancelled /\ d.shut = c.shut /\ d.out = c.out
        /\ d.events = c.events /\ d.sent = c.sent
        /\ d.arrived = c.arrived /\ d.ended = c.ended /\ d.asked = wish
    BY <1>1, <1>2, <1>6 DEF Conn, Console1!OnClose, Console1!OnSseClose, Console1!OnWsClose, wish
  <2> HIDE DEF d
  <2>3. Registered(d) /\ Started(d)
    BY <1>1, <2>2 DEF Registered, Started
  <2>4. NewsOfEnd(d)
    BY <1>1, <1>2, <2>2 DEF NewsOfEnd, Told, Console1!Live
  <2>5. EndActs(d)
    <3>1. c.task \in {"connecting", "session", "gone"}
      BY <1>1, ConnTyped
    <3>2. Console1!Shutting(c) <=> Console1!Shutting(d)
      BY <2>2 DEF Console1!Shutting
    <3>3. CASE c.asked # "no"
      BY <1>1, <1>2, <2>2, <3>2, <3>3 DEF EndActs, Console1!Ending
    <3>4. CASE c.asked = "no"
      <4>1. c.task = "gone" => Console1!Ending(d)
        BY <2>2 DEF Console1!Ending
      <4>2. c.protocol = "sse" /\ c.task # "gone" => Console1!Shutting(d)
        BY <1>1, <1>6, <2>2, <3>1 DEF Registered, Console1!Shutting
      <4>3. c.protocol = "ws" /\ c.task # "gone" => d.asked = "early" /\ d.protocol = "ws"
        BY <1>1, <1>2, <1>6, <2>2, <3>1, <3>4 DEF Registered
      <4>. QED
        BY <1>3, <4>1, <4>2, <4>3 DEF EndActs
    <3>. QED
      BY <3>3, <3>4
  <2>7. ASSUME NEW w \in Nat, Arrived(c, w) PROVE Arrived(d, w)
    BY <2>2, <2>7, QueuedSame DEF Arrived, Console1!Ending
  <2>8. ConnInv(d) /\ Follows(c, d)
    BY <2>2, <2>3, <2>4, <2>5 DEF ConnInv, Follows
  <2>. QED
    BY <2>7, <2>8 DEF d
<1>. QED
  BY <1>3, <1>4, <1>5, <1>6

(* run_ws, run_sse: the handshake fails, and its news is on the way. *)
LEMMA ConnRefused ==
  ASSUME NEW c, ConnInv(c), c.task = "connecting"
  PROVE  LET d == Console1!Refused(c)
         IN  ConnInv(d) /\ Follows(c, d) /\ \A w \in Nat : Arrived(c, w) => Arrived(d, w)
<1> DEFINE d == Console1!Refused(c)
<1>1. c \in Conn /\ Registered(c) /\ Started(c) /\ NewsOfEnd(c) /\ EndActs(c)
  BY DEF ConnInv
<1>2. "error" \in Console1!Events /\ "error" \in Terminal
  BY DEF Console1!Events, Terminal
<1>3. /\ Append(c.ui, "error") \in Seq(Console1!Events) /\ Append(c.ui, "error") # << >>
      /\ Append(c.ui, "error")[Len(Append(c.ui, "error"))] = "error"
  BY <1>1, <1>2, ConnTyped, AppendOf
<1>4. /\ d \in Conn /\ d.status = c.status /\ d.ui = Append(c.ui, "error")
      /\ d.protocol = c.protocol /\ d.task = "gone" /\ d.known = FALSE
      /\ d.cancelled = c.cancelled /\ d.asked = c.asked
  BY <1>1, <1>3 DEF Conn, Console1!Refused
<1> HIDE DEF d
<1>5. Told(d) /\ Console1!Ending(d)
  BY <1>2, <1>3, <1>4 DEF Told, Console1!Ending
<1>6. ConnInv(d)
  BY <1>1, <1>4, <1>5 DEF ConnInv, Registered, Started, NewsOfEnd, EndActs
<1>. QED
  BY <1>4, <1>5, <1>6 DEF Follows, Arrived, d

(* The handshake succeeds: the session's first event is waiting, and a
   WebSocket's sender is registered. *)
LEMMA ConnAccepted ==
  ASSUME NEW c, ConnInv(c), c.task = "connecting"
  PROVE  LET d == Console1!Accepted(c)
         IN  ConnInv(d) /\ Follows(c, d) /\ \A w \in Nat : Arrived(c, w) => Arrived(d, w)
<1> DEFINE d == Console1!Accepted(c)
           first == <<IF c.protocol = "ws" THEN "connected" ELSE "open">>
<1>1. c \in Conn /\ Registered(c) /\ Started(c) /\ NewsOfEnd(c) /\ EndActs(c)
  BY DEF ConnInv
<1>2. first \in Seq(Console1!Events)
  BY DEF Console1!Events
<1> HIDE DEF first
<1>3. c.known \in BOOLEAN /\ (c.known \/ c.protocol = "ws") \in BOOLEAN
  BY <1>1, ConnTyped
<1>4. /\ d \in Conn /\ d.status = c.status /\ d.ui = c.ui
      /\ d.protocol = c.protocol /\ d.task = "session" /\ (d.known <=> c.known \/ c.protocol = "ws")
      /\ d.cancelled = c.cancelled /\ d.shut = c.shut /\ d.out = c.out
      /\ d.sent = c.sent
      /\ d.arrived = c.arrived /\ d.ended = c.ended /\ d.asked = c.asked
  BY <1>1, <1>2, <1>3 DEF Conn, Console1!Accepted, first
<1> HIDE DEF d
<1>5. ~c.ended
  BY <1>1 DEF Started
<1>6. Registered(d) /\ Started(d) /\ NewsOfEnd(d)
  BY <1>1, <1>4, <1>5 DEF Registered, Started, NewsOfEnd
<1>7. EndActs(d)
  BY <1>1, <1>4, <1>5 DEF EndActs, Console1!Shutting, Console1!Ending
<1>8. ASSUME NEW w \in Nat, Arrived(c, w) PROVE Arrived(d, w)
  BY <1>4, <1>5, <1>8, QueuedSame DEF Arrived, Console1!Ending
<1>9. ConnInv(d) /\ Follows(c, d)
  BY <1>4, <1>6, <1>7 DEF ConnInv, Follows
<1>. QED
  BY <1>8, <1>9 DEF d

(* The forwarder is done: with the news of the end passed on, unless the user
   cancelled the subscription. *)
LEMMA ConnGone ==
  ASSUME NEW c \in Conn, c.task = "session",
         c.cancelled => c.protocol = "sse" /\ c.asked # "no",
         c.protocol = "ws" \/ c.asked = "no" => Told(c)
  PROVE  LET d == Console1!Gone(c)
         IN  /\ ConnInv(d) /\ Follows(c, d) /\ Console1!Ending(d)
             /\ d.protocol = c.protocol /\ d.task = "gone"
<1> DEFINE d == Console1!Gone(c)
<1>0. << >> \in Seq(Console1!Events) /\ << >> \in Seq({"text", "close"})
  OBVIOUS
<1>1. /\ d \in Conn /\ d.status = c.status /\ d.ui = c.ui
      /\ d.protocol = c.protocol /\ d.task = "gone" /\ d.known = FALSE
      /\ d.cancelled = c.cancelled /\ d.asked = c.asked
  BY <1>0 DEF Conn, Console1!Gone
<1> HIDE DEF d
<1>2. Told(c) <=> Told(d)
  BY <1>1 DEF Told, Console1!Live
<1>3. ConnInv(d) /\ Console1!Ending(d)
  BY <1>1, <1>2 DEF ConnInv, Registered, Started, NewsOfEnd, EndActs, Console1!Ending
<1>. QED
  BY <1>1, <1>3 DEF Follows, d

(* The forwarder passes an event on, the last one of a session with the end. *)
LEMMA ConnPasses ==
  ASSUME NEW c, ConnInv(c), c.task = "session", c.events # << >>
  PROVE  LET b == [c EXCEPT !.ui = Append(@, Head(c.events)), !.events = Tail(@)]
             d == IF Head(c.events) = "closed" THEN Console1!Gone(b) ELSE b
         IN  ConnInv(d) /\ Follows(c, d) /\ \A w \in Nat : Arrived(c, w) => Arrived(d, w)
<1> DEFINE b == [c EXCEPT !.ui = Append(@, Head(c.events)), !.events = Tail(@)]
           e == Head(c.events)
<1>1. c \in Conn /\ Registered(c) /\ Started(c) /\ NewsOfEnd(c) /\ EndActs(c)
  BY DEF ConnInv
<1>2. /\ e \in Console1!Events /\ e = c.events[1] /\ Tail(c.events) \in Seq(Console1!Events)
      /\ Tail(c.events) = << >> => Len(c.events) = 1
      /\ Tail(c.events) # << >> => Tail(c.events)[Len(Tail(c.events))] = c.events[Len(c.events)]
  BY <1>1, ConnTyped, TailOf
<1> HIDE DEF e
<1>3. /\ Append(c.ui, e) \in Seq(Console1!Events) /\ Append(c.ui, e) # << >>
      /\ Append(c.ui, e)[Len(Append(c.ui, e))] = e
  BY <1>1, <1>2, ConnTyped, AppendOf
<1>4. b = [c EXCEPT !.ui = Append(c.ui, e), !.events = Tail(c.events)]
  BY <1>1 DEF Conn, e
<1>5. /\ b \in Conn /\ b.status = c.status /\ b.ui = Append(c.ui, e)
      /\ b.protocol = c.protocol /\ b.task = c.task /\ b.known = c.known
      /\ b.cancelled = c.cancelled /\ b.shut = c.shut /\ b.out = c.out
      /\ b.events = Tail(c.events) /\ b.sent = c.sent
      /\ b.arrived = c.arrived /\ b.ended = c.ended /\ b.asked = c.asked
  BY <1>1, <1>2, <1>3, <1>4 DEF Conn
<1> HIDE DEF b
<1>6. e \in Terminal => Told(b)
  BY <1>3, <1>5 DEF Told
<1>7. CASE e = "closed"
  <2>1. Told(b) /\ (b.cancelled => b.protocol = "sse" /\ b.asked # "no")
    BY <1>1, <1>5, <1>6, <1>7 DEF Terminal, NewsOfEnd
  <2>2. /\ ConnInv(Console1!Gone(b)) /\ Follows(b, Console1!Gone(b)) /\ Console1!Ending(Console1!Gone(b))
    BY <1>5, <2>1, ConnGone
  <2>3. Follows(c, Console1!Gone(b))
    BY <1>5, <2>2 DEF Follows
  <2>. QED
    BY <1>7, <2>2, <2>3 DEF Arrived, b, e
<1>8. CASE e # "closed"
  <2>1. Registered(b) /\ Started(b)
    BY <1>1, <1>5 DEF Registered, Started
  <2>2. b.ended => IF b.events = << >> THEN Told(b) ELSE b.events[Len(b.events)] \in Terminal
    BY <1>1, <1>2, <1>5, <1>6 DEF NewsOfEnd
  <2>3. NewsOfEnd(b)
    BY <1>1, <1>5, <2>2 DEF NewsOfEnd
  <2>4. EndActs(b)
    BY <1>1, <1>5 DEF EndActs, Console1!Shutting, Console1!Ending
  <2>5. ASSUME NEW w \in Nat, Arrived(c, w) PROVE Arrived(b, w)
    BY <1>5, <2>5, QueuedSame DEF Arrived, Console1!Ending
  <2>6. ConnInv(b) /\ Follows(c, b)
    BY <1>5, <2>1, <2>3, <2>4 DEF ConnInv, Follows
  <2>. QED
    BY <1>8, <2>5, <2>6 DEF b, e
<1>. QED
  BY <1>7, <1>8

(* The session writes what is queued; after a close frame nothing arrives. *)
LEMMA ConnWrites ==
  ASSUME NEW c, ConnInv(c), Console1!Running(c), c.out # << >>
  PROVE  LET d == IF Head(c.out) = "close" THEN [c EXCEPT !.shut = TRUE, !.out = Tail(@)]
                  ELSE [c EXCEPT !.arrived = @ + (IF c.shut THEN 0 ELSE 1), !.out = Tail(@)]
         IN  ConnInv(d) /\ Follows(c, d) /\ \A w \in Nat : Arrived(c, w) => Arrived(d, w)
<1> DEFINE d == IF Head(c.out) = "close" THEN [c EXCEPT !.shut = TRUE, !.out = Tail(@)]
                ELSE [c EXCEPT !.arrived = @ + (IF c.shut THEN 0 ELSE 1), !.out = Tail(@)]
<1>1. c \in Conn /\ Registered(c) /\ Started(c) /\ NewsOfEnd(c) /\ EndActs(c)
  BY DEF ConnInv
<1>2. /\ c.task = "session" /\ ~c.ended /\ c.out \in Seq({"text", "close"})
      /\ c.shut \in BOOLEAN /\ c.arrived \in Nat /\ c.sent \in Nat
  BY <1>1, ConnTyped DEF Console1!Running
<1>3. /\ Head(c.out) \in {"text", "close"} /\ Head(c.out) = c.out[1]
      /\ Tail(c.out) \in Seq({"text", "close"})
      /\ Len(c.out) \in Nat /\ Len(c.out) >= 1 /\ Len(Tail(c.out)) = Len(c.out) - 1
      /\ \A k \in 1 .. (Len(c.out) - 1) : Tail(c.out)[k] = c.out[k + 1]
  BY <1>2, TailOf
<1>4. DOMAIN c.out = 1 .. Len(c.out) /\ DOMAIN Tail(c.out) = 1 .. (Len(c.out) - 1)
  BY <1>2, <1>3
<1>5. /\ d \in Conn /\ d.status = c.status /\ d.ui = c.ui
      /\ d.protocol = c.protocol /\ d.task = c.task /\ d.known = c.known
      /\ d.cancelled = c.cancelled /\ d.out = Tail(c.out)
      /\ d.events = c.events /\ d.sent = c.sent
      /\ d.ended = c.ended /\ d.asked = c.asked
      /\ Head(c.out) = "close" => d.shut = TRUE /\ d.arrived = c.arrived
      /\ Head(c.out) = "text" => (d.shut <=> c.shut) /\ (~c.shut => d.arrived = c.arrived + 1)
  <2>1. CASE Head(c.out) = "close"
    <3>1. d = [c EXCEPT !.shut = TRUE, !.out = Tail(c.out)]
      BY <1>1, <2>1 DEF Conn
    <3> HIDE DEF d
    <3>. QED
      BY <1>1, <1>2, <1>3, <2>1, <3>1 DEF Conn
  <2>2. CASE Head(c.out) = "text"
    <3> DEFINE a == c.arrived + (IF c.shut THEN 0 ELSE 1)
    <3>1. d = [c EXCEPT !.arrived = a, !.out = Tail(c.out)]
      BY <1>1, <2>2 DEF Conn
    <3>2. a \in Nat /\ (~c.shut => a = c.arrived + 1)
      BY <1>2
    <3> HIDE DEF d, a
    <3>. QED
      BY <1>1, <1>2, <1>3, <2>2, <3>1, <3>2 DEF Conn
  <2>. QED
    BY <1>3, <2>1, <2>2
<1> HIDE DEF d
<1>6. Registered(d) /\ Started(d) /\ NewsOfEnd(d)
  BY <1>1, <1>5 DEF Registered, Started, NewsOfEnd, Told, Console1!Live
<1>7. Console1!Shutting(c) => Console1!Shutting(d)
  <2>1. c.shut => d.shut
    BY <1>3, <1>5
  <2>2. ASSUME NEW k \in DOMAIN c.out, c.out[k] = "close" PROVE Console1!Shutting(d)
    <3>1. CASE k = 1
      BY <1>3, <1>5, <2>2, <3>1 DEF Console1!Shutting
    <3>2. CASE k # 1
      <4>1. k - 1 \in DOMAIN d.out /\ d.out[k - 1] = "close"
        BY <1>3, <1>4, <1>5, <2>2, <3>2
      <4>. QED
        BY <4>1 DEF Console1!Shutting
    <3>. QED
      BY <3>1, <3>2
  <2>. QED
    BY <1>5, <2>1, <2>2 DEF Console1!Shutting
<1>8. EndActs(d)
  BY <1>1, <1>5, <1>7 DEF EndActs, Console1!Ending
<1>9. /\ Console1!Queued(c) \in Nat /\ Console1!Queued(d) \in Nat
      /\ Head(c.out) = "text" => Console1!Queued(c) = Console1!Queued(d) + 1
      /\ Head(c.out) = "close" => Console1!Queued(c) = Console1!Queued(d)
  BY <1>2, <1>5, QueuedTaken
<1>10. ASSUME NEW w \in Nat, Arrived(c, w) PROVE Arrived(d, w)
  <2>1. CASE c.shut \/ Console1!Ending(c) \/ Head(c.out) = "close"
    BY <1>3, <1>5, <2>1 DEF Arrived, Console1!Ending
  <2>2. CASE ~(c.shut \/ Console1!Ending(c)) /\ Head(c.out) = "text"
    <3>1. c.sent = w + Console1!Queued(c) + c.arrived
      BY <1>10, <2>2 DEF Arrived
    <3>2. d.sent = w + Console1!Queued(d) + d.arrived
      BY <1>2, <1>5, <1>9, <2>2, <3>1
    <3>. QED
      BY <3>2 DEF Arrived
  <2>. QED
    BY <1>3, <2>1, <2>2
<1>11. ConnInv(d) /\ Follows(c, d)
  BY <1>5, <1>6, <1>8 DEF ConnInv, Follows
<1>. QED
  BY <1>10, <1>11 DEF d

(* A message of the peer. *)
LEMMA ConnReads ==
  ASSUME NEW c, ConnInv(c), Console1!Running(c)
  PROVE  LET d == [c EXCEPT !.heard = @ + 1, !.events = Append(@, "message")]
         IN  ConnInv(d) /\ Follows(c, d) /\ \A w \in Nat : Arrived(c, w) => Arrived(d, w)
<1> DEFINE d == [c EXCEPT !.heard = @ + 1, !.events = Append(@, "message")]
<1>1. c \in Conn /\ Registered(c) /\ Started(c) /\ NewsOfEnd(c) /\ EndActs(c)
  BY DEF ConnInv
<1>2. c.task = "session" /\ ~c.ended /\ c.heard + 1 \in Nat
  BY <1>1, ConnTyped DEF Console1!Running
<1>3. "message" \in Console1!Events
  BY DEF Console1!Events
<1>4. Append(c.events, "message") \in Seq(Console1!Events)
  BY <1>1, <1>3, ConnTyped, AppendOf
<1>5. /\ d \in Conn /\ d.status = c.status /\ d.ui = c.ui
      /\ d.protocol = c.protocol /\ d.task = c.task /\ d.known = c.known
      /\ d.cancelled = c.cancelled /\ d.shut = c.shut /\ d.out = c.out
      /\ d.sent = c.sent
      /\ d.arrived = c.arrived /\ d.ended = c.ended /\ d.asked = c.asked
  BY <1>1, <1>2, <1>4 DEF Conn
<1> HIDE DEF d
<1>6. Registered(d) /\ Started(d) /\ NewsOfEnd(d)
  BY <1>1, <1>2, <1>5 DEF Registered, Started, NewsOfEnd
<1>7. EndActs(d)
  BY <1>1, <1>5 DEF EndActs, Console1!Shutting, Console1!Ending
<1>8. ASSUME NEW w \in Nat, Arrived(c, w) PROVE Arrived(d, w)
  BY <1>5, <1>8, QueuedSame DEF Arrived, Console1!Ending
<1>9. ConnInv(d) /\ Follows(c, d)
  BY <1>5, <1>6, <1>7 DEF ConnInv, Follows
<1>. QED
  BY <1>8, <1>9 DEF d

(* The peer ends the stream or it breaks: the session's last words tell it. *)
LEMMA LastWordsTell ==
  ASSUME NEW c, NEW b \in BOOLEAN, NEW s \in Seq(Console1!Events)
  PROVE  LET t == s \o Console1!LastWords(c, b)
         IN  t \in Seq(Console1!Events) /\ t # << >> /\ t[Len(t)] \in Terminal
<1> DEFINE l == Console1!LastWords(c, b)
           t == s \o l
<1>1. l \in Seq(Console1!Events) /\ Len(l) \in {1, 2} /\ l[Len(l)] \in Terminal
  <2>1. l \in {<<"closed">>, <<"error">>, <<"error", "closed">>}
    BY DEF Console1!LastWords
  <2> HIDE DEF l
  <2>2. CASE l = <<"closed">>
    BY <2>2 DEF Console1!Events, Terminal
  <2>3. CASE l = <<"error">>
    BY <2>3 DEF Console1!Events, Terminal
  <2>4. CASE l = <<"error", "closed">>
    BY <2>4 DEF Console1!Events, Terminal
  <2>. QED
    BY <2>1, <2>2, <2>3, <2>4
<1> HIDE DEF l
<1>2. t \in Seq(Console1!Events) /\ Len(t) = Len(s) + Len(l) /\ Len(s) \in Nat
  BY <1>1
<1>3. t[Len(t)] = l[Len(l)]
  BY <1>1, <1>2
<1>4. Len(<< >>) = 0
  OBVIOUS
<1>5. t # << >>
  BY <1>1, <1>2, <1>4
<1>. QED
  BY <1>1, <1>2, <1>3, <1>5 DEF l

(* The session ends, and says so. *)
LEMMA ConnEnds ==
  ASSUME NEW c, ConnInv(c), Console1!Running(c), NEW b \in BOOLEAN
  PROVE  LET d == [c EXCEPT !.ended = TRUE, !.events = @ \o Console1!LastWords(c, b)]
         IN  ConnInv(d) /\ Follows(c, d) /\ \A w \in Nat : Arrived(c, w) => Arrived(d, w)
<1> DEFINE d == [c EXCEPT !.ended = TRUE, !.events = @ \o Console1!LastWords(c, b)]
           t == c.events \o Console1!LastWords(c, b)
<1>1. c \in Conn /\ Registered(c) /\ Started(c) /\ NewsOfEnd(c) /\ EndActs(c)
  BY DEF ConnInv
<1>2. t \in Seq(Console1!Events) /\ t # << >> /\ t[Len(t)] \in Terminal
  BY <1>1, ConnTyped, LastWordsTell
<1>3. d = [c EXCEPT !.ended = TRUE, !.events = t] /\ c.task = "session"
  BY <1>1 DEF Conn, Console1!Running
<1> HIDE DEF t
<1>4. /\ d \in Conn /\ d.status = c.status /\ d.ui = c.ui
      /\ d.protocol = c.protocol /\ d.task = c.task /\ d.known = c.known
      /\ d.cancelled = c.cancelled /\ d.shut = c.shut /\ d.out = c.out
      /\ d.events = t /\ d.ended = TRUE /\ d.asked = c.asked
  BY <1>1, <1>2, <1>3 DEF Conn
<1> HIDE DEF d
<1>5. Registered(d) /\ Started(d) /\ NewsOfEnd(d)
  BY <1>1, <1>2, <1>3, <1>4 DEF Registered, Started, NewsOfEnd
<1>6. Console1!Ending(d)
  BY <1>4 DEF Console1!Ending
<1>7. ConnInv(d) /\ Follows(c, d)
  BY <1>4, <1>5, <1>6 DEF ConnInv, Follows, EndActs
<1>. QED
  BY <1>6, <1>7 DEF Arrived, d

-----------------------------------------------------------------------------
(* The commands on their way, when connections change and when commands are
   added and taken. *)
LEMMA FitFollows ==
  ASSUME NEW q, NEW cs, NEW ds, EachFits(q, cs), DOMAIN cs \subseteq DOMAIN ds,
         \A i \in DOMAIN cs : Follows(cs[i], ds[i])
  PROVE  EachFits(q, ds)
BY DEF EachFits, Follows

(* A command is added that fits those before it. *)
LEMMA FitAppended ==
  ASSUME NEW q, NEW cs, NEW e, EachFits(q, cs), e \in Command, e.id \in DOMAIN cs,
         e.op = "connect" =>
           cs[e.id].task = "none" /\ \A k \in DOMAIN q : q[k].id # e.id,
         e.op = "send" => cs[e.id].protocol = "ws" /\ cs[e.id].task \in {"session", "gone"},
         e.op = "close" => cs[e.id].task # "none" \/ \E k \in DOMAIN q : Connects(q, k, e.id)
  PROVE  EachFits(Append(q, e), cs)
<1> DEFINE r == Append(q, e)
           n == Len(q)
<1>1. q \in Seq(Command)
  BY DEF EachFits
<1>2. /\ r \in Seq(Command) /\ n \in Nat /\ DOMAIN q = 1 .. n /\ DOMAIN r = 1 .. (n + 1)
      /\ r[n + 1] = e /\ \A k \in 1 .. n : r[k] = q[k]
  BY <1>1, AppendOf
<1> HIDE DEF r, n
<1>3. ASSUME NEW k \in DOMAIN r PROVE r[k].id \in DOMAIN cs
  BY <1>2, <1>3 DEF EachFits
<1>4. ASSUME NEW k \in DOMAIN r, r[k].op = "connect"
      PROVE  /\ cs[r[k].id].task = "none"
             /\ \A j \in DOMAIN r : j # k /\ r[j].id = r[k].id => j > k /\ r[j].op # "connect"
  <2>1. CASE k \in 1 .. n
    <3>1. /\ q[k].op = "connect" /\ cs[q[k].id].task = "none"
          /\ \A j \in 1 .. n : j # k /\ q[j].id = q[k].id => j > k /\ q[j].op # "connect"
      BY <1>2, <1>4, <2>1 DEF EachFits
    <3>2. e.id = q[k].id => e.op # "connect"
      BY <1>2, <2>1
    <3>3. n + 1 > k
      BY <1>2, <2>1
    <3>. QED
      BY <1>2, <2>1, <3>1, <3>2, <3>3
  <2>2. CASE k = n + 1
    BY <1>2, <1>4, <2>2
  <2>. QED
    BY <1>2, <2>1, <2>2
<1>5. ASSUME NEW k \in DOMAIN r, r[k].op = "send"
      PROVE  cs[r[k].id].protocol = "ws" /\ cs[r[k].id].task \in {"session", "gone"}
  BY <1>2, <1>5 DEF EachFits
<1>6. ASSUME NEW k \in DOMAIN r, r[k].op = "close"
      PROVE  cs[r[k].id].task # "none" \/ \E j \in 1 .. (k - 1) : Connects(r, j, r[k].id)
  <2>1. \A j \in 1 .. n : \A i : Connects(q, j, i) => Connects(r, j, i)
    BY <1>2 DEF Connects
  <2>2. CASE k \in 1 .. n
    <3>1. cs[q[k].id].task # "none" \/ \E j \in 1 .. (k - 1) : Connects(q, j, q[k].id)
      BY <1>2, <1>6, <2>2 DEF EachFits
    <3>2. \A j \in 1 .. (k - 1) : j \in 1 .. n
      BY <1>2, <2>2
    <3>. QED
      BY <1>2, <2>1, <2>2, <3>1, <3>2
  <2>3. CASE k = n + 1
    <3>1. cs[e.id].task # "none" \/ \E j \in 1 .. n : Connects(q, j, e.id)
      BY <1>2, <1>6, <2>3
    <3>2. k - 1 = n
      BY <1>2, <2>3
    <3>. QED
      BY <1>2, <2>1, <2>3, <3>1, <3>2
  <2>. QED
    BY <1>2, <2>2, <2>3
<1>7. EachFits(r, cs)
  BY <1>2, <1>3, <1>4, <1>5, <1>6 DEF EachFits
<1>. QED
  BY <1>7 DEF r

(* The bridge takes the first command: a connect starts the connection's task,
   anything else leaves it to those behind it. *)
LEMMA FitTaken ==
  ASSUME NEW q, NEW cs, NEW ds, EachFits(q, cs), q # << >>, DOMAIN ds = DOMAIN cs,
         \A i \in DOMAIN cs :
           \/ Follows(cs[i], ds[i])
           \/ Connects(q, 1, i) /\ ds[i].protocol = cs[i].protocol /\ ds[i].task # "none",
         \A i \in DOMAIN cs : Connects(q, 1, i) => ds[i].task # "none"
  PROVE  /\ EachFits(Tail(q), ds)
         /\ ConnectsCome(q, cs) => ConnectsCome(Tail(q), ds)
<1> DEFINE r == Tail(q)
           n == Len(q) - 1
<1>1. q \in Seq(Command)
  BY DEF EachFits
<1>2. /\ r \in Seq(Command) /\ n \in Nat /\ DOMAIN q = 1 .. (n + 1) /\ DOMAIN r = 1 .. n
      /\ \A k \in 1 .. n : r[k] = q[k + 1] /\ k + 1 \in DOMAIN q
  <2>1. /\ Tail(q) \in Seq(Command) /\ Len(q) \in Nat /\ Len(q) >= 1 /\ Len(Tail(q)) = Len(q) - 1
        /\ \A k \in 1 .. (Len(q) - 1) : Tail(q)[k] = q[k + 1]
    BY <1>1, TailOf
  <2>2. DOMAIN q = 1 .. Len(q) /\ DOMAIN Tail(q) = 1 .. Len(Tail(q)) /\ (Len(q) - 1) + 1 = Len(q)
    BY <1>1, <2>1
  <2>. QED
    BY <2>1, <2>2
<1> HIDE DEF r, n
<1>3. 1 \in DOMAIN q
  BY <1>2
<1>4. \A k \in 1 .. n : \A i : Connects(r, k, i) <=> Connects(q, k + 1, i)
  BY <1>2 DEF Connects
<1>5. ASSUME NEW k \in DOMAIN r PROVE r[k].id \in DOMAIN ds
  BY <1>2, <1>5 DEF EachFits
<1>6. ASSUME NEW k \in DOMAIN r, r[k].op = "connect"
      PROVE  /\ ds[r[k].id].task = "none"
             /\ \A j \in DOMAIN r : j # k /\ r[j].id = r[k].id => j > k /\ r[j].op # "connect"
  <2>1. /\ cs[r[k].id].task = "none" /\ r[k].id \in DOMAIN cs
        /\ \A j \in DOMAIN q : j # k + 1 /\ q[j].id = r[k].id => j > k + 1 /\ q[j].op # "connect"
    <3>1. k + 1 \in DOMAIN q /\ q[k + 1] = r[k]
      BY <1>2, <1>6
    <3>. QED
      BY <1>6, <3>1 DEF EachFits
  <2>2. ~Connects(q, 1, r[k].id)
    <3>1. 1 # k + 1 /\ ~(1 > k + 1)
      BY <1>2
    <3>. QED
      BY <1>3, <2>1, <3>1 DEF Connects
  <2>3. ds[r[k].id].task = "none"
    BY <2>1, <2>2 DEF Follows
  <2>4. ASSUME NEW j \in DOMAIN r, j # k, r[j].id = r[k].id PROVE j > k /\ r[j].op # "connect"
    <3>1. j + 1 # k + 1 /\ j + 1 \in DOMAIN q /\ q[j + 1] = r[j]
      BY <1>2, <2>4
    <3>2. j + 1 > k + 1 /\ q[j + 1].op # "connect"
      BY <2>1, <2>4, <3>1
    <3>. QED
      BY <1>2, <3>1, <3>2
  <2>. QED
    BY <2>3, <2>4
<1>7. ASSUME NEW k \in DOMAIN r, r[k].op = "send"
      PROVE  ds[r[k].id].protocol = "ws" /\ ds[r[k].id].task \in {"session", "gone"}
  <2>1. /\ cs[r[k].id].protocol = "ws" /\ cs[r[k].id].task \in {"session", "gone"}
        /\ r[k].id \in DOMAIN cs
    <3>1. k + 1 \in DOMAIN q /\ q[k + 1] = r[k]
      BY <1>2, <1>7
    <3>. QED
      BY <1>7, <3>1 DEF EachFits
  <2>2. ~Connects(q, 1, r[k].id)
    BY <1>3, <2>1 DEF Connects, EachFits
  <2>. QED
    BY <2>1, <2>2 DEF Follows
<1>8. ASSUME NEW k \in DOMAIN r, r[k].op = "close"
      PROVE  ds[r[k].id].task # "none" \/ \E j \in 1 .. (k - 1) : Connects(r, j, r[k].id)
  <2>1. /\ cs[r[k].id].task # "none" \/ \E j \in 1 .. ((k + 1) - 1) : Connects(q, j, r[k].id)
        /\ r[k].id \in DOMAIN cs
    <3>1. k + 1 \in DOMAIN q /\ q[k + 1] = r[k]
      BY <1>2, <1>8
    <3>. QED
      BY <1>8, <3>1 DEF EachFits
  <2>2. CASE cs[r[k].id].task # "none"
    BY <2>1, <2>2 DEF Follows
  <2>3. ASSUME NEW j \in 1 .. ((k + 1) - 1), Connects(q, j, r[k].id)
        PROVE  ds[r[k].id].task # "none" \/ \E i \in 1 .. (k - 1) : Connects(r, i, r[k].id)
    <3>1. CASE j = 1
      BY <2>1, <2>3, <3>1
    <3>2. CASE j # 1
      <4>1. j - 1 \in 1 .. (k - 1) /\ j - 1 \in 1 .. n /\ (j - 1) + 1 = j
        BY <1>2, <2>3, <3>2
      <4>. QED
        BY <1>4, <2>3, <4>1
    <3>. QED
      BY <3>1, <3>2
  <2>. QED
    BY <2>1, <2>2, <2>3
<1>9. EachFits(r, ds)
  BY <1>2, <1>5, <1>6, <1>7, <1>8 DEF EachFits
<1>10. ASSUME ConnectsCome(q, cs) PROVE ConnectsCome(r, ds)
  <2> SUFFICES ASSUME NEW i \in DOMAIN ds, ds[i].task = "none", ds[i].status = "connecting"
               PROVE  \E k \in DOMAIN r : Connects(r, k, i)
    BY DEF ConnectsCome
  <2>1. ~Connects(q, 1, i) /\ cs[i].task = "none" /\ cs[i].status = "connecting"
    BY DEF Follows
  <2>2. PICK k \in DOMAIN q : Connects(q, k, i)
    BY <1>10, <2>1 DEF ConnectsCome
  <2>3. k # 1
    BY <2>1, <2>2
  <2>4. k - 1 \in 1 .. n /\ (k - 1) + 1 = k
    BY <1>2, <2>3
  <2>. QED
    BY <1>2, <1>4, <2>2, <2>4
<1>. QED
  BY <1>9, <1>10 DEF r

(* The texts on their way to the bridge. *)
SendTo(i) == {x \in Command : x.op = "send" /\ x.id = i}

(* The window's count of the texts that wait for the bridge. *)
LEMMA WaitingOf ==
  ASSUME NEW i
  PROVE  /\ cmds \in Seq(Command) => Console1!Waiting(i) = CountIn(cmds, SendTo(i))
         /\ cmds' \in Seq(Command) => Console1!Waiting(i)' = CountIn(cmds', SendTo(i))
<1> DEFINE P == {k \in DOMAIN cmds : cmds[k].op = "send" /\ cmds[k].id = i}
           R == {k \in DOMAIN cmds : cmds[k] \in SendTo(i)}
           PP == {k \in DOMAIN cmds' : cmds'[k].op = "send" /\ cmds'[k].id = i}
           RR == {k \in DOMAIN cmds' : cmds'[k] \in SendTo(i)}
<1>1. Console1!Waiting(i) = Cardinality(P) /\ Console1!Waiting(i)' = Cardinality(PP)
  BY SameCardinality, Zenon DEF Console1!Waiting
<1>2. CountIn(cmds, SendTo(i)) = Cardinality(R) /\ CountIn(cmds', SendTo(i)) = Cardinality(RR)
  BY Zenon DEF CountIn
<1>3. ASSUME cmds \in Seq(Command) PROVE P = R
  <2>1. \A k \in DOMAIN cmds : cmds[k] \in Command
    BY <1>3
  <2>. QED
    BY <2>1 DEF SendTo
<1>4. ASSUME cmds' \in Seq(Command) PROVE PP = RR
  <2>1. \A k \in DOMAIN cmds' : cmds'[k] \in Command
    BY <1>4
  <2>. QED
    BY <2>1 DEF SendTo
<1> HIDE DEF P, R, PP, RR
<1>. QED
  BY <1>1, <1>2, <1>3, <1>4

(* A command is added. *)
LEMMA WaitingAppended ==
  ASSUME NEW i, NEW e \in Command, cmds \in Seq(Command), cmds' = Append(cmds, e)
  PROVE  /\ Console1!Waiting(i) \in Nat
         /\ e.op = "send" /\ e.id = i => Console1!Waiting(i)' = Console1!Waiting(i) + 1
         /\ ~(e.op = "send" /\ e.id = i) => Console1!Waiting(i)' = Console1!Waiting(i)
<1> DEFINE K == SendTo(i)
<1>1. cmds' \in Seq(Command)
  BY AppendOf
<1>2. Console1!Waiting(i) = CountIn(cmds, K) /\ Console1!Waiting(i)' = CountIn(cmds', K)
  BY <1>1, WaitingOf
<1>3. K \in SUBSET Command /\ (e \in K <=> e.op = "send" /\ e.id = i)
  BY DEF SendTo
<1> HIDE DEF K
<1>4. /\ CountIn(cmds, K) \in Nat
      /\ e \in K => CountIn(Append(cmds, e), K) = CountIn(cmds, K) + 1
      /\ e \notin K => CountIn(Append(cmds, e), K) = CountIn(cmds, K)
  BY <1>3, CountAppended, Zenon
<1>. QED
  BY <1>2, <1>3, <1>4

(* The first command is taken. *)
LEMMA WaitingTaken ==
  ASSUME NEW i, cmds \in Seq(Command), cmds # << >>, cmds' = Tail(cmds)
  PROVE  /\ Console1!Waiting(i) \in Nat /\ Console1!Waiting(i)' \in Nat
         /\ Head(cmds).op = "send" /\ Head(cmds).id = i =>
              Console1!Waiting(i) = Console1!Waiting(i)' + 1
         /\ ~(Head(cmds).op = "send" /\ Head(cmds).id = i) =>
              Console1!Waiting(i) = Console1!Waiting(i)'
<1> DEFINE K == SendTo(i)
           e == Head(cmds)
<1>1. cmds' \in Seq(Command) /\ e \in Command
  BY TailOf
<1>2. Console1!Waiting(i) = CountIn(cmds, K) /\ Console1!Waiting(i)' = CountIn(cmds', K)
  BY <1>1, WaitingOf
<1>3. K \in SUBSET Command /\ (e \in K <=> e.op = "send" /\ e.id = i)
  BY <1>1 DEF SendTo
<1> HIDE DEF K
<1>4. /\ CountIn(cmds, K) \in Nat /\ CountIn(Tail(cmds), K) \in Nat
      /\ Head(cmds) \in K => CountIn(cmds, K) = CountIn(Tail(cmds), K) + 1
      /\ Head(cmds) \notin K => CountIn(cmds, K) = CountIn(Tail(cmds), K)
  BY <1>3, CountTaken, Zenon
<1>. QED
  BY <1>2, <1>3, <1>4

(* The count is a number. *)
LEMMA WaitingTyped ==
  ASSUME NEW i, cmds \in Seq(Command)
  PROVE  Console1!Waiting(i) \in Nat
<1>1. \A k \in DOMAIN cmds : cmds[k] \in Command
  OBVIOUS
<1>2. PICK n \in Nat : DOMAIN cmds = 1 .. n
  OBVIOUS
<1>3. {k \in DOMAIN cmds : cmds[k] \in SendTo(i)} \in SUBSET (1 .. n)
  BY <1>2
<1>4. CountIn(cmds, SendTo(i)) \in Nat
  BY <1>3, CountOf DEF CountIn
<1>. QED
  BY <1>4, WaitingOf

-----------------------------------------------------------------------------
(* The console.  No connection, no command. *)
LEMMA ConsoleStarts == Console1!Init => ConsoleInv
<1> SUFFICES ASSUME Console1!Init PROVE ConsoleInv
  OBVIOUS
<1>1. conns = << >> /\ active = 0 /\ cmds = << >>
  BY DEF Console1!Init
<1>2. conns \in Seq(Conn) /\ cmds \in Seq(Command) /\ Len(conns) = 0
      /\ DOMAIN conns = {} /\ DOMAIN cmds = {}
  BY <1>1
<1>. QED
  BY <1>1, <1>2, ConsoleAssumption DEF ConsoleInv, EachFits, ConnectsCome

(* A step of one connection, of which the rest of the console notices nothing. *)
LEMMA ConnChanges ==
  ASSUME ConsoleInv, NEW i \in DOMAIN conns, NEW d, Console1!Change(i, d),
         UNCHANGED <<active, cmds>>, ConnInv(d), Follows(conns[i], d),
         \A w \in Nat : Arrived(conns[i], w) => Arrived(d, w)
  PROVE  ConsoleInv'
<1>1. /\ conns \in Seq(Conn) /\ Len(conns) <= MaxConnections /\ active \in 0 .. Len(conns)
      /\ \A j \in DOMAIN conns : ConnInv(conns[j]) /\ Arrived(conns[j], Console1!Waiting(j))
      /\ EachFits(cmds, conns) /\ ConnectsCome(cmds, conns)
  BY DEF ConsoleInv
<1>2. conns' = [conns EXCEPT ![i] = d] /\ d \in Conn /\ active' = active /\ cmds' = cmds
  BY DEF Console1!Change, ConnInv
<1>3. /\ conns' \in Seq(Conn) /\ Len(conns') = Len(conns) /\ DOMAIN conns' = DOMAIN conns
      /\ conns'[i] = d /\ \A j \in DOMAIN conns : j # i => conns'[j] = conns[j]
  BY <1>1, <1>2
<1>4. cmds \in Seq(Command)
  BY <1>1 DEF EachFits
<1>5. ASSUME NEW j \in DOMAIN conns' PROVE ConnInv(conns'[j]) /\ Arrived(conns'[j], Console1!Waiting(j)')
  <2>1. Console1!Waiting(j)' = Console1!Waiting(j)
    BY <1>2 DEF Console1!Waiting
  <2>2. Console1!Waiting(j) \in Nat
    BY <1>4, WaitingTyped
  <2>3. ConnInv(conns[j]) /\ Arrived(conns[j], Console1!Waiting(j))
    BY <1>1, <1>3, <1>5
  <2>. QED
    BY <1>3, <1>5, <2>1, <2>2, <2>3
<1>6. \A j \in DOMAIN conns : Follows(conns[j], conns'[j])
  BY <1>3 DEF Follows
<1>7. EachFits(cmds, conns')
  BY <1>1, <1>3, <1>6, FitFollows
<1>8. ConnectsCome(cmds, conns')
  BY <1>1, <1>3, <1>6 DEF ConnectsCome, Follows
<1>. QED
  BY <1>1, <1>2, <1>3, <1>5, <1>7, <1>8 DEF ConsoleInv

(* Connect: its command is the first one for the new connection. *)
LEMMA ConsoleConnects ==
  ASSUME ConsoleInv, NEW p \in Protocols, Console1!Connect(p)
  PROVE  ConsoleInv'
<1> DEFINE st == IF bridge THEN "connecting" ELSE "error"
           d == Console1!Opened(p, st)
           n == Len(conns) + 1
           e == [op |-> "connect", id |-> n]
<1>1. /\ conns \in Seq(Conn) /\ Len(conns) <= MaxConnections /\ active \in 0 .. Len(conns)
      /\ \A j \in DOMAIN conns : ConnInv(conns[j]) /\ Arrived(conns[j], Console1!Waiting(j))
      /\ EachFits(cmds, conns) /\ ConnectsCome(cmds, conns)
  BY DEF ConsoleInv
<1>2. /\ conns' = Append(conns, d) /\ active' = n /\ Len(conns) < MaxConnections
      /\ cmds' = IF bridge THEN Append(cmds, e) ELSE cmds
  BY DEF Console1!Connect
<1>3. ConnInv(d) /\ Arrived(d, 0) /\ d.task = "none" /\ d.status = st
  BY ConnOpens
<1> HIDE DEF d
<1>4. d \in Conn
  BY <1>3 DEF ConnInv
<1>5. /\ conns' \in Seq(Conn) /\ Len(conns') = n /\ Len(conns) \in Nat /\ n \in Nat
      /\ DOMAIN conns = 1 .. Len(conns) /\ DOMAIN conns' = 1 .. n /\ n \notin DOMAIN conns
      /\ conns'[n] = d /\ \A j \in DOMAIN conns : conns'[j] = conns[j]
  BY <1>1, <1>2, <1>4, AppendOf
<1>6. cmds \in Seq(Command) /\ \A k \in DOMAIN cmds : cmds[k].id \in DOMAIN conns
  BY <1>1 DEF EachFits
<1>7. e \in Command /\ e.op = "connect" /\ e.id = n
  BY <1>5 DEF Command
<1> HIDE DEF e, n
<1>8. Console1!Waiting(n) = 0
  <2> DEFINE P == {k \in DOMAIN cmds : cmds[k].op = "send" /\ cmds[k].id = n}
  <2>1. P = {}
    BY <1>5, <1>6
  <2>2. Console1!Waiting(n) = Cardinality(P)
    BY SameCardinality, Zenon DEF Console1!Waiting
  <2> HIDE DEF P
  <2>. QED
    BY <2>1, <2>2, FS_EmptySet
<1>9. ASSUME NEW j \in DOMAIN conns' PROVE Console1!Waiting(j)' = Console1!Waiting(j)
  <2>1. CASE bridge
    <3>1. cmds' = Append(cmds, e)
      BY <1>2, <2>1
    <3>. QED
      BY <1>6, <1>7, <3>1, WaitingAppended
  <2>2. CASE ~bridge
    BY <1>2, <2>2 DEF Console1!Waiting
  <2>. QED
    BY <2>1, <2>2
<1>10. ASSUME NEW j \in DOMAIN conns' PROVE ConnInv(conns'[j]) /\ Arrived(conns'[j], Console1!Waiting(j)')
  <2>1. CASE j = n
    BY <1>3, <1>5, <1>8, <1>9, <1>10, <2>1
  <2>2. CASE j # n
    <3>1. j \in DOMAIN conns
      BY <1>5, <2>2 DEF n
    <3>. QED
      BY <1>1, <1>5, <1>9, <1>10, <3>1
  <2>. QED
    BY <2>1, <2>2
<1>11. \A j \in DOMAIN conns : Follows(conns[j], conns'[j])
  BY <1>5 DEF Follows
<1>12. DOMAIN conns \subseteq DOMAIN conns'
  BY <1>5 DEF n
<1>13. EachFits(cmds, conns')
  BY <1>1, <1>11, <1>12, FitFollows
<1>14. EachFits(cmds', conns')
  <2>1. CASE bridge
    <3>1. /\ e.id \in DOMAIN conns' /\ conns'[e.id].task = "none"
          /\ \A k \in DOMAIN cmds : cmds[k].id # e.id
      <4>1. n \in DOMAIN conns'
        BY <1>5 DEF n
      <4>. QED
        BY <1>3, <1>5, <1>6, <1>7, <4>1
    <3>2. EachFits(Append(cmds, e), conns')
      BY <1>7, <1>13, <3>1, FitAppended
    <3>. QED
      BY <1>2, <2>1, <3>2
  <2>2. CASE ~bridge
    BY <1>2, <1>13, <2>2
  <2>. QED
    BY <2>1, <2>2
<1>15. ConnectsCome(cmds', conns')
  <2> SUFFICES ASSUME NEW j \in DOMAIN conns', conns'[j].task = "none", conns'[j].status = "connecting"
               PROVE  \E k \in DOMAIN cmds' : Connects(cmds', k, j)
    BY DEF ConnectsCome
  <2>1. CASE j = n
    <3>1. bridge /\ cmds' = Append(cmds, e)
      BY <1>2, <1>3, <1>5, <2>1
    <3>2. Len(cmds) + 1 \in DOMAIN cmds' /\ cmds'[Len(cmds) + 1] = e
      BY <1>6, <1>7, <3>1, AppendOf
    <3>. QED
      BY <1>7, <2>1, <3>2 DEF Connects
  <2>2. CASE j # n
    <3>1. j \in DOMAIN conns
      BY <1>5, <2>2 DEF n
    <3>2. PICK k \in DOMAIN cmds : Connects(cmds, k, j)
      BY <1>1, <1>5, <3>1 DEF ConnectsCome
    <3>3. k \in DOMAIN cmds' /\ cmds'[k] = cmds[k]
      BY <1>2, <1>6, <1>7, AppendOf
    <3>. QED
      BY <3>2, <3>3 DEF Connects
  <2>. QED
    BY <2>1, <2>2
<1>16. Len(conns') <= MaxConnections /\ active' \in 0 .. Len(conns')
  BY <1>2, <1>5, ConsoleAssumption DEF n
<1>. QED
  BY <1>5, <1>10, <1>14, <1>15, <1>16 DEF ConsoleInv

(* SendMessage: to a connection that is shown open, so one with a session. *)
LEMMA ConsoleSends ==
  ASSUME ConsoleInv, Console1!SendMessage
  PROVE  ConsoleInv'
<1> DEFINE c == conns[active]
           d == [c EXCEPT !.sent = @ + 1]
           e == [op |-> "send", id |-> active]
<1>1. /\ conns \in Seq(Conn) /\ Len(conns) <= MaxConnections /\ active \in 0 .. Len(conns)
      /\ \A j \in DOMAIN conns : ConnInv(conns[j]) /\ Arrived(conns[j], Console1!Waiting(j))
      /\ EachFits(cmds, conns) /\ ConnectsCome(cmds, conns)
  BY DEF ConsoleInv
<1>2. /\ active # 0 /\ c.protocol = "ws" /\ c.status = "open" /\ active' = active
      /\ cmds' = Append(cmds, e) /\ conns' = [conns EXCEPT ![active] = d]
  BY DEF Console1!SendMessage, Console1!Change
<1>3. active \in DOMAIN conns /\ active \in Nat /\ DOMAIN conns = 1 .. Len(conns)
  BY <1>1, <1>2
<1>4. ConnInv(c) /\ c \in Conn /\ Registered(c) /\ Started(c) /\ NewsOfEnd(c) /\ EndActs(c)
  BY <1>1, <1>3 DEF ConnInv
<1> HIDE DEF c
<1>5. c.sent + 1 \in Nat /\ c.sent \in Nat /\ c.arrived \in Nat /\ c.out \in Seq({"text", "close"})
  BY <1>4, ConnTyped
<1>6. /\ d \in Conn /\ d.status = c.status /\ d.ui = c.ui
      /\ d.protocol = c.protocol /\ d.task = c.task /\ d.known = c.known
      /\ d.cancelled = c.cancelled /\ d.shut = c.shut /\ d.out = c.out
      /\ d.events = c.events /\ d.sent = c.sent + 1
      /\ d.arrived = c.arrived /\ d.ended = c.ended /\ d.asked = c.asked
  BY <1>4, <1>5 DEF Conn
<1> HIDE DEF d
<1>7. Registered(d) /\ Started(d) /\ NewsOfEnd(d)
  BY <1>4, <1>6 DEF Registered, Started, NewsOfEnd, Told, Console1!Live
<1>8. EndActs(d)
  BY <1>4, <1>6 DEF EndActs, Console1!Shutting, Console1!Ending
<1>9. ConnInv(d) /\ Follows(c, d)
  BY <1>6, <1>7, <1>8 DEF ConnInv, Follows
<1>10. Console1!Queued(d) = Console1!Queued(c) /\ Console1!Queued(c) \in Nat
  <2> DEFINE b == [out |-> Append(c.out, "text")]
  <2>1. b.out = Append(c.out, "text")
    OBVIOUS
  <2> HIDE DEF b
  <2>. QED
    BY <1>5, <1>6, <2>1, QueuedSame, QueuedAppended
<1>11. e \in Command /\ e.op = "send" /\ e.id = active
  BY <1>3 DEF Command
<1> HIDE DEF e
<1>12. cmds \in Seq(Command)
  BY <1>1 DEF EachFits
<1>13. /\ conns' \in Seq(Conn) /\ Len(conns') = Len(conns) /\ DOMAIN conns' = DOMAIN conns
       /\ conns'[active] = d /\ \A j \in DOMAIN conns : j # active => conns'[j] = conns[j]
  BY <1>1, <1>2, <1>3, <1>6
<1>14. ASSUME NEW j \in DOMAIN conns' PROVE ConnInv(conns'[j]) /\ Arrived(conns'[j], Console1!Waiting(j)')
  <2>1. /\ Console1!Waiting(j) \in Nat
        /\ j = active => Console1!Waiting(j)' = Console1!Waiting(j) + 1
        /\ j # active => Console1!Waiting(j)' = Console1!Waiting(j)
    BY <1>2, <1>11, <1>12, WaitingAppended
  <2>2. ConnInv(conns[j]) /\ Arrived(conns[j], Console1!Waiting(j))
    BY <1>1, <1>13, <1>14
  <2>3. CASE j # active
    BY <1>13, <1>14, <2>1, <2>2, <2>3
  <2>4. CASE j = active
    <3>1. Arrived(c, Console1!Waiting(j))
      BY <2>2, <2>4 DEF c
    <3>2. Arrived(d, Console1!Waiting(j) + 1)
      BY <1>5, <1>6, <1>10, <2>1, <3>1 DEF Arrived, Console1!Ending
    <3>. QED
      BY <1>9, <1>13, <2>1, <2>4, <3>2
  <2>. QED
    BY <2>3, <2>4
<1>15. \A j \in DOMAIN conns : Follows(conns[j], conns'[j])
  BY <1>9, <1>13 DEF Follows, c
<1>16. EachFits(cmds, conns')
  BY <1>1, <1>13, <1>15, FitFollows
<1>17. EachFits(cmds', conns')
  <2>1. d.protocol = "ws" /\ d.task \in {"session", "gone"}
    BY <1>2, <1>4, <1>6 DEF Started
  <2>2. e.id \in DOMAIN conns' /\ conns'[e.id] = d
    BY <1>3, <1>11, <1>13
  <2>. QED
    BY <1>2, <1>11, <1>16, <2>1, <2>2, FitAppended
<1>18. ConnectsCome(cmds', conns')
  <2>1. ConnectsCome(cmds, conns')
    BY <1>1, <1>13, <1>15 DEF ConnectsCome, Follows
  <2>2. \A k \in DOMAIN cmds : k \in DOMAIN cmds' /\ cmds'[k] = cmds[k]
    BY <1>2, <1>11, <1>12, AppendOf
  <2>. QED
    BY <2>1, <2>2 DEF ConnectsCome, Connects
<1>. QED
  BY <1>1, <1>2, <1>13, <1>14, <1>17, <1>18 DEF ConsoleInv

(* Disconnect: of a connection that is shown live, so one that was connected or
   whose connect is on its way. *)
LEMMA ConsoleDisconnects ==
  ASSUME ConsoleInv, Console1!Disconnect
  PROVE  ConsoleInv'
<1> DEFINE e == [op |-> "close", id |-> active]
<1>1. /\ conns \in Seq(Conn) /\ Len(conns) <= MaxConnections /\ active \in 0 .. Len(conns)
      /\ \A j \in DOMAIN conns : ConnInv(conns[j]) /\ Arrived(conns[j], Console1!Waiting(j))
      /\ EachFits(cmds, conns) /\ ConnectsCome(cmds, conns)
  BY DEF ConsoleInv
<1>2. /\ active # 0 /\ Console1!Live(conns[active]) /\ active' = active
      /\ cmds' = Append(cmds, e) /\ conns' = conns
  BY DEF Console1!Disconnect
<1>3. active \in DOMAIN conns /\ active \in Nat
  BY <1>1, <1>2
<1>4. e \in Command /\ e.op = "close" /\ e.id = active
  BY <1>3 DEF Command
<1> HIDE DEF e
<1>5. cmds \in Seq(Command)
  BY <1>1 DEF EachFits
<1>6. conns[active].task # "none" \/ \E k \in DOMAIN cmds : Connects(cmds, k, active)
  <2>1. CASE conns[active].status = "open"
    BY <1>1, <1>3, <2>1 DEF ConnInv, Started
  <2>2. CASE conns[active].status = "connecting"
    BY <1>1, <1>3, <2>2 DEF ConnectsCome
  <2>. QED
    BY <1>2, <2>1, <2>2 DEF Console1!Live
<1>7. EachFits(cmds', conns')
  BY <1>1, <1>2, <1>3, <1>4, <1>6, FitAppended
<1>8. ConnectsCome(cmds', conns')
  <2>1. \A k \in DOMAIN cmds : k \in DOMAIN cmds' /\ cmds'[k] = cmds[k]
    BY <1>2, <1>4, <1>5, AppendOf
  <2>. QED
    BY <1>1, <1>2, <2>1 DEF ConnectsCome, Connects
<1>9. ASSUME NEW j \in DOMAIN conns' PROVE ConnInv(conns'[j]) /\ Arrived(conns'[j], Console1!Waiting(j)')
  <2>1. Console1!Waiting(j)' = Console1!Waiting(j)
    BY <1>2, <1>4, <1>5, WaitingAppended
  <2>. QED
    BY <1>1, <1>2, <1>9, <2>1
<1>. QED
  BY <1>1, <1>2, <1>7, <1>8, <1>9 DEF ConsoleInv

(* The bridge's loop takes the first command. *)
LEMMA ConsoleBridges ==
  ASSUME ConsoleInv, Console1!BridgeStep
  PROVE  ConsoleInv'
<1> DEFINE e == Head(cmds)
<1>1. /\ conns \in Seq(Conn) /\ Len(conns) <= MaxConnections /\ active \in 0 .. Len(conns)
      /\ \A j \in DOMAIN conns : ConnInv(conns[j]) /\ Arrived(conns[j], Console1!Waiting(j))
      /\ EachFits(cmds, conns) /\ ConnectsCome(cmds, conns)
  BY DEF ConsoleInv
<1>2. /\ cmds # << >> /\ cmds' = Tail(cmds) /\ active' = active
  BY DEF Console1!BridgeStep
<1>3. cmds \in Seq(Command)
  BY <1>1 DEF EachFits
<1>4. /\ e \in Command /\ e = cmds[1] /\ 1 \in DOMAIN cmds
      /\ e.op \in {"connect", "send", "close"}
  <2>1. e \in Command /\ e = cmds[1] /\ Len(cmds) \in Nat /\ Len(cmds) >= 1
    BY <1>2, <1>3, TailOf
  <2>. QED
    BY <1>3, <2>1 DEF Command
<1>5. PICK i \in DOMAIN conns : i = e.id
  BY <1>1, <1>4 DEF EachFits
<1> DEFINE c == conns[i]
           d == CASE e.op = "connect" -> Console1!OnConnect(c)
                  [] e.op = "send" -> Console1!OnSend(c)
                  [] e.op = "close" -> Console1!OnClose(c)
<1>6. conns' = [conns EXCEPT ![i] = d]
  BY <1>5 DEF Console1!BridgeStep, Console1!Change
<1> HIDE DEF e
<1>7. /\ i \in DOMAIN conns
      /\ e.op = "connect" => c.task = "none"
      /\ e.op = "send" => c.protocol = "ws" /\ c.task \in {"session", "gone"}
      /\ e.op = "close" => c.task # "none"
  <2>1. e.op = "close" => cmds[1].op = "close" /\ \A j \in 1 .. (1 - 1) : FALSE
    BY <1>4
  <2>. QED
    BY <1>5, <1>1, <1>4, <2>1 DEF EachFits
<1>8. ConnInv(c)
  BY <1>1, <1>7
<1>9. \A j : Connects(cmds, 1, j) <=> e.op = "connect" /\ j = i
  BY <1>5, <1>4 DEF Connects
<1>10. ASSUME NEW j PROVE
        /\ Console1!Waiting(j) \in Nat /\ Console1!Waiting(j)' \in Nat
        /\ e.op = "send" /\ j = i => Console1!Waiting(j) = Console1!Waiting(j)' + 1
        /\ ~(e.op = "send" /\ j = i) => Console1!Waiting(j) = Console1!Waiting(j)'
  BY <1>5, <1>2, <1>3, WaitingTaken DEF e
<1>11. Arrived(c, Console1!Waiting(i))
  BY <1>1, <1>7
<1> HIDE DEF c
<1>12. /\ ConnInv(d) /\ Arrived(d, Console1!Waiting(i)')
       /\ e.op = "connect" => d.protocol = c.protocol /\ d.task # "none"
       /\ e.op # "connect" => Follows(c, d)
  <2> DEFINE w == Console1!Waiting(i)
             v == Console1!Waiting(i)'
  <2>1. /\ w \in Nat /\ v \in Nat /\ Arrived(c, w)
        /\ e.op = "send" => w = v + 1
        /\ e.op # "send" => w = v
    BY <1>10, <1>11
  <2> HIDE DEF w, v
  <2>2. CASE e.op = "connect"
    <3>1. d = Console1!OnConnect(c)
      BY <2>2
    <3> HIDE DEF d
    <3>2. ConnInv(d) /\ d.protocol = c.protocol /\ d.task = "connecting" /\ Arrived(d, w)
      BY <1>7, <1>8, <2>1, <2>2, <3>1, ConnConnects
    <3>. QED
      BY <2>1, <2>2, <3>2 DEF v
  <2>3. CASE e.op = "send"
    <3>1. d = Console1!OnSend(c)
      BY <2>3
    <3> HIDE DEF d
    <3>2. ConnInv(d) /\ Follows(c, d) /\ Arrived(d, v)
      BY <1>7, <1>8, <2>1, <2>3, <3>1, ConnSends
    <3>. QED
      BY <2>3, <3>2 DEF v
  <2>4. CASE e.op = "close"
    <3>1. d = Console1!OnClose(c)
      BY <2>4
    <3> HIDE DEF d
    <3>2. ConnInv(d) /\ Follows(c, d) /\ Arrived(d, w)
      BY <1>7, <1>8, <2>1, <2>4, <3>1, ConnCloses, ConsoleAssumption
    <3>. QED
      BY <2>1, <2>4, <3>2 DEF v
  <2>. QED
    BY <1>4, <2>2, <2>3, <2>4
<1> HIDE DEF d
<1>13. d \in Conn
  BY <1>12 DEF ConnInv
<1>14. /\ conns' \in Seq(Conn) /\ Len(conns') = Len(conns) /\ DOMAIN conns' = DOMAIN conns
       /\ conns'[i] = d /\ \A j \in DOMAIN conns : j # i => conns'[j] = conns[j]
  BY <1>1, <1>7, <1>13, <1>6
<1>15. ASSUME NEW j \in DOMAIN conns' PROVE ConnInv(conns'[j]) /\ Arrived(conns'[j], Console1!Waiting(j)')
  <2>1. CASE j = i
    BY <1>12, <1>14, <2>1
  <2>2. CASE j # i
    <3>1. Console1!Waiting(j)' = Console1!Waiting(j)
      BY <1>10, <2>2
    <3>2. ConnInv(conns[j]) /\ Arrived(conns[j], Console1!Waiting(j)) /\ conns'[j] = conns[j]
      BY <1>1, <1>14, <1>15, <2>2
    <3>. QED
      BY <3>1, <3>2
  <2>. QED
    BY <2>1, <2>2
<1>16. ASSUME NEW j \in DOMAIN conns
       PROVE  /\ \/ Follows(conns[j], conns'[j])
                 \/ /\ Connects(cmds, 1, j) /\ conns'[j].protocol = conns[j].protocol
                    /\ conns'[j].task # "none"
              /\ Connects(cmds, 1, j) => conns'[j].task # "none"
  <2>1. CASE j = i
    BY <1>9, <1>12, <1>14, <2>1 DEF c
  <2>2. CASE j # i
    BY <1>9, <1>14, <1>16, <2>2 DEF Follows
  <2>. QED
    BY <2>1, <2>2
<1>17. EachFits(cmds', conns') /\ ConnectsCome(cmds', conns')
  BY <1>1, <1>2, <1>14, <1>16, FitTaken
<1>. QED
  BY <1>1, <1>2, <1>14, <1>15, <1>17 DEF ConsoleInv

(* Every step of the console keeps its invariant. *)
LEMMA ConsoleSteps == ConsoleInv /\ [Console1!Next]_talking => ConsoleInv'
<1>1. ASSUME ConsoleInv, NEW i \in Console1!Ids PROVE conns[i] \in Conn /\ ConnInv(conns[i])
  BY <1>1 DEF ConsoleInv, Console1!Ids
<1>2. ASSUME ConsoleInv, NEW i \in Console1!Ids, Console1!HandleEvent(i) PROVE ConsoleInv'
  <2> DEFINE c == conns[i]
             d == [c EXCEPT !.status = Console1!StatusAfter(@, Head(c.ui)), !.ui = Tail(@)]
  <2>1. c.ui # << >> /\ Console1!Change(i, d) /\ UNCHANGED <<active, cmds>>
    BY <1>2 DEF Console1!HandleEvent
  <2>2. ConnInv(d) /\ Follows(c, d) /\ \A w \in Nat : Arrived(c, w) => Arrived(d, w)
    BY <1>1, <1>2, <2>1, EventHandled
  <2> HIDE DEF d
  <2>. QED
    BY <1>2, <2>1, <2>2, ConnChanges DEF Console1!Ids
<1>3. ASSUME ConsoleInv, NEW i \in Console1!Ids, Console1!Forward(i) PROVE ConsoleInv'
  <2> DEFINE c == conns[i]
             b == [c EXCEPT !.ui = Append(@, Head(c.events)), !.events = Tail(@)]
             d == IF Head(c.events) = "closed" THEN Console1!Gone(b) ELSE b
             g == Console1!Gone(c)
  <2>1. /\ c.task = "session" /\ UNCHANGED <<active, cmds>>
        /\ \/ c.events # << >> /\ Console1!Change(i, d)
           \/ c.events = << >> /\ c.ended /\ Console1!Change(i, g)
    BY <1>3 DEF Console1!Forward
  <2>2. CASE c.events # << >> /\ Console1!Change(i, d)
    <3>1. ConnInv(d) /\ Follows(c, d) /\ \A w \in Nat : Arrived(c, w) => Arrived(d, w)
      BY <1>1, <1>3, <2>1, <2>2, ConnPasses
    <3> HIDE DEF d
    <3>. QED
      BY <1>3, <2>1, <2>2, <3>1, ConnChanges DEF Console1!Ids
  <2>3. CASE c.events = << >> /\ c.ended /\ Console1!Change(i, g)
    <3>1. Told(c) /\ (c.cancelled => c.protocol = "sse" /\ c.asked # "no")
      BY <1>1, <1>3, <2>1, <2>3 DEF ConnInv, NewsOfEnd
    <3>2. ConnInv(g) /\ Follows(c, g) /\ Console1!Ending(g)
      BY <1>1, <1>3, <2>1, <3>1, ConnGone
    <3> HIDE DEF g
    <3>3. \A w \in Nat : Arrived(c, w) => Arrived(g, w)
      BY <3>2 DEF Arrived
    <3>. QED
      BY <1>3, <2>1, <2>3, <3>2, <3>3, ConnChanges DEF Console1!Ids
  <2>. QED
    BY <2>1, <2>2, <2>3
<1>4. ASSUME ConsoleInv, NEW i \in Console1!Ids, Console1!ForwarderStops(i) PROVE ConsoleInv'
  <2> DEFINE c == conns[i]
             g == Console1!Gone(c)
  <2>1. /\ c.task = "session" /\ c.cancelled /\ UNCHANGED <<active, cmds>> /\ Console1!Change(i, g)
    BY <1>4 DEF Console1!ForwarderStops
  <2>2. c.protocol = "sse" /\ c.asked # "no"
    BY <1>1, <1>4, <2>1 DEF ConnInv, NewsOfEnd
  <2>3. ConnInv(g) /\ Follows(c, g) /\ Console1!Ending(g)
    BY <1>1, <1>4, <2>1, <2>2, ConnGone
  <2> HIDE DEF g
  <2>4. \A w \in Nat : Arrived(c, w) => Arrived(g, w)
    BY <2>3 DEF Arrived
  <2>. QED
    BY <1>4, <2>1, <2>3, <2>4, ConnChanges DEF Console1!Ids
<1>5. ASSUME ConsoleInv, NEW i \in Console1!Ids, Console1!Write(i) PROVE ConsoleInv'
  <2> DEFINE c == conns[i]
             d == IF Head(c.out) = "close" THEN [c EXCEPT !.shut = TRUE, !.out = Tail(@)]
                  ELSE [c EXCEPT !.arrived = @ + (IF c.shut THEN 0 ELSE 1), !.out = Tail(@)]
  <2>1. Console1!Running(c) /\ c.out # << >> /\ Console1!Change(i, d) /\ UNCHANGED <<active, cmds>>
    BY <1>5 DEF Console1!Write
  <2>2. ConnInv(d) /\ Follows(c, d) /\ \A w \in Nat : Arrived(c, w) => Arrived(d, w)
    BY <1>1, <1>5, <2>1, ConnWrites
  <2> HIDE DEF d
  <2>. QED
    BY <1>5, <2>1, <2>2, ConnChanges DEF Console1!Ids
<1>6. ASSUME ConsoleInv, NEW i \in Console1!Ids, Console1!Read(i) PROVE ConsoleInv'
  <2> DEFINE c == conns[i]
             d == [c EXCEPT !.heard = @ + 1, !.events = Append(@, "message")]
  <2>1. Console1!Running(c) /\ Console1!Change(i, d) /\ UNCHANGED <<active, cmds>>
    BY <1>6 DEF Console1!Read
  <2>2. ConnInv(d) /\ Follows(c, d) /\ \A w \in Nat : Arrived(c, w) => Arrived(d, w)
    BY <1>1, <1>6, <2>1, ConnReads
  <2> HIDE DEF d
  <2>. QED
    BY <1>6, <2>1, <2>2, ConnChanges DEF Console1!Ids
<1>7. ASSUME ConsoleInv, NEW i \in Console1!Ids, NEW b \in BOOLEAN, Console1!Handshake(i, b)
      PROVE  ConsoleInv'
  <2> DEFINE c == conns[i]
             d == IF b THEN Console1!Accepted(c) ELSE Console1!Refused(c)
  <2>1. c.task = "connecting" /\ Console1!Change(i, d) /\ UNCHANGED <<active, cmds>>
    BY <1>7 DEF Console1!Handshake
  <2>2. ConnInv(d) /\ Follows(c, d) /\ \A w \in Nat : Arrived(c, w) => Arrived(d, w)
    <3>1. CASE b
      BY <1>1, <1>7, <2>1, <3>1, ConnAccepted
    <3>2. CASE ~b
      BY <1>1, <1>7, <2>1, <3>2, ConnRefused
    <3>. QED
      BY <3>1, <3>2
  <2> HIDE DEF d
  <2>. QED
    BY <1>7, <2>1, <2>2, ConnChanges DEF Console1!Ids
<1>8. ASSUME ConsoleInv, NEW i \in Console1!Ids, NEW b \in BOOLEAN, Console1!End(i, b)
      PROVE  ConsoleInv'
  <2> DEFINE c == conns[i]
             d == [c EXCEPT !.ended = TRUE, !.events = @ \o Console1!LastWords(c, b)]
  <2>1. Console1!Running(c) /\ Console1!Change(i, d) /\ UNCHANGED <<active, cmds>>
    BY <1>8 DEF Console1!End
  <2>2. ConnInv(d) /\ Follows(c, d) /\ \A w \in Nat : Arrived(c, w) => Arrived(d, w)
    BY <1>1, <1>8, <2>1, ConnEnds
  <2> HIDE DEF d
  <2>. QED
    BY <1>8, <2>1, <2>2, ConnChanges DEF Console1!Ids
<1>9. ASSUME ConsoleInv, NEW i \in Console1!Ids, Console1!Select(i) PROVE ConsoleInv'
  <2>1. UNCHANGED <<conns, cmds>> /\ active' = i /\ i \in DOMAIN conns
    BY <1>9 DEF Console1!Select, Console1!Ids
  <2>2. active' \in 0 .. Len(conns)
    BY <1>9, <2>1 DEF ConsoleInv
  <2>. QED
    BY <1>9, <2>1, <2>2 DEF ConsoleInv, Console1!Waiting
<1>10. ASSUME ConsoleInv, UNCHANGED talking PROVE ConsoleInv'
  BY <1>10 DEF talking, ConsoleInv, Console1!Waiting
<1>. QED
  BY <1>2, <1>3, <1>4, <1>5, <1>6, <1>7, <1>8, <1>9, <1>10,
     ConsoleConnects, ConsoleSends, ConsoleDisconnects, ConsoleBridges DEF Console1!Next

(* What the console promises follows from the invariant. *)
LEMMA ConsolePromises ==
  ASSUME ConsoleInv
  PROVE  /\ Console1!TypeOK /\ Console1!OpenIsKnown /\ Console1!SentArrives
         /\ Console1!NothingLeftBehind /\ Console1!EndIsShown /\ Console1!DisconnectActs
<1>1. /\ conns \in Seq(Conn) /\ Len(conns) <= MaxConnections /\ active \in 0 .. Len(conns)
      /\ \A j \in DOMAIN conns : ConnInv(conns[j]) /\ Arrived(conns[j], Console1!Waiting(j))
  BY DEF ConsoleInv
<1>2. \A j \in DOMAIN conns :
        /\ conns[j] \in Conn /\ Registered(conns[j]) /\ Started(conns[j])
        /\ NewsOfEnd(conns[j]) /\ EndActs(conns[j])
  BY <1>1 DEF ConnInv
<1>3. Console1!TypeOK
  BY <1>1, <1>2, ConnTyped DEF Console1!TypeOK, Console1!Ids
<1>4. Console1!OpenIsKnown
  BY <1>2 DEF Console1!OpenIsKnown, Console1!Ids, Console1!Ending, Registered, Started
<1>5. Console1!SentArrives
  BY <1>1 DEF Console1!SentArrives, Console1!Ids, Arrived
<1>6. Console1!NothingLeftBehind
  BY <1>2 DEF Console1!NothingLeftBehind, Console1!Ids, Registered
<1>7. Console1!EndIsShown
  BY <1>2, ConnTyped, ConsoleAssumption
     DEF Console1!EndIsShown, Console1!Ids, Console1!Settled, NewsOfEnd, Told
<1>8. Console1!DisconnectActs
  BY <1>2 DEF Console1!DisconnectActs, Console1!Ids, EndActs
<1>. QED
  BY <1>3, <1>4, <1>5, <1>6, <1>7, <1>8

-----------------------------------------------------------------------------
(* The windows together: only the one in focus takes steps, and the invariant
   of each holds while it is in focus. *)
THEOREM InvariantHolds == DesktopSpec => []WindowsInv
<1>1. DesktopInit => WindowsInv
  BY PlanStarts, UpdaterStarts, ConsoleStarts DEF DesktopInit, WindowsInv
<1>2. WindowsInv /\ [DesktopNext]_allVars => WindowsInv'
  <2> SUFFICES ASSUME WindowsInv, [DesktopNext]_allVars PROVE WindowsInv'
    OBVIOUS
  <2>1. focus' = focus
    BY DEF DesktopNext, allVars
  <2>2. focus = "plan" => [Next]_vars
    BY DEF DesktopNext, allVars, PlanNext, UpdaterNext, ConsoleNext, HistoryNext, EditorNext, FilesNext
  <2>3. focus = "updater" => [Update1!Next]_updating
    BY DEF DesktopNext, allVars, PlanNext, UpdaterNext, ConsoleNext, HistoryNext, EditorNext, FilesNext
  <2>4. focus = "console" => [Console1!Next]_talking
    BY DEF DesktopNext, allVars, PlanNext, UpdaterNext, ConsoleNext, HistoryNext, EditorNext, FilesNext
  <2>. QED
    BY <2>1, <2>2, <2>3, <2>4, PlanSteps, UpdaterSteps, ConsoleSteps DEF WindowsInv
<1>. QED
  BY <1>1, <1>2, PTL DEF DesktopSpec

(* Pro is earned, a check answers for its own key and removes only the license
   it was about, and the updater installs the whole, newer, published build it
   shows (license.rs, updater.rs): for any keys, days, releases and builds. *)
THEOREM ServicesHold == DesktopSpec => []ServicesSound
<1>1. WindowsInv => ServicesSound
  BY PlanPromises DEF WindowsInv, ServicesSound, UpdaterInv
<1>. QED
  BY <1>1, InvariantHolds, PTL

(* The console (console.rs, bridge.rs, protocols): what is offered to send to is
   known, what was sent arrives, the end is shown and the user's wish to end it
   acts: for any number of connections, messages and clicks. *)
THEOREM ConsoleHolds == DesktopSpec => []ConsoleSound
<1>1. WindowsInv => ConsoleSound
  BY ConsolePromises DEF WindowsInv, ConsoleSound
<1>. QED
  BY <1>1, InvariantHolds, PTL
=============================================================================
