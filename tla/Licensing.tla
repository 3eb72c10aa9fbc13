-------------------------------- MODULE Licensing --------------------------------
(***************************************************************************)
(* Plan and trial of the desktop app (forge-gui/src/license.rs).  A license *)
(* is kept in memory and, signed, in license.json; it is checked again when *)
(* the app starts and when the user asks.  Licence servers may be down, may *)
(* refuse a key and need not be honest; the two files may be edited.        *)
(***************************************************************************)
EXTENDS Naturals, FiniteSets

CONSTANTS
  Keys,          (* license keys *)
  Servers,       (* None, the hosted server, and the enterprise ones *)
  Blobs,         (* the license blobs there are: see Blob *)
  Days,          (* the days, 0 .. its maximum *)
  TrialDays,     (* TRIAL_DAYS *)
  RecheckAfter,  (* RECHECK_AFTER_HOURS, in days *)
  MaxAsks,       (* bound on the checks of one sitting *)
  MaxFaults,     (* bound on failed writes, edits and other instances *)
  None

VARIABLES
  lic,      (* LicenseState: license, trial, checking, open *)
  stored,   (* license.json and trial.json *)
  asked,    (* the check the bridge works on: at most one is meant to be *)
  today,
  granted,  (* history: the last day of the licenses the product key has signed *)
  begun,    (* history: the days a trial began, those written by hand among them *)
  dropped,  (* history: licenses a silent check removed that it had not asked about *)
  asks, faults

vars == <<lic, stored, asked, today, granted, begun, dropped, asks, faults>>

(* A signed blob; "signed" is whether the product key signed it. *)
Blob(key, until, product, signed) ==
  [key |-> key, until |-> until, product |-> product, signed |-> signed]
ASSUME BlobsAssumption ==
  Blobs \subseteq [key : Keys, until : Days, product : {"forge", "other"}, signed : BOOLEAN]
ASSUME DaysAssumption ==
  /\ Days \subseteq Nat /\ 0 \in Days /\ None \notin Days /\ TrialDays \in Nat
  /\ None \in Servers

(* verify_and_parse. *)
Verifies(blob) == blob.signed /\ blob.product = "forge"
License(blob, server, day) == [blob |-> blob, server |-> server, checked |-> day]

(* load_license, load_trial: what does not verify is not there. *)
LoadLicense(s) == IF s.license # None /\ Verifies(s.license.blob) THEN s.license ELSE None
LoadTrial(s) == IF s.trial \in Days THEN s.trial ELSE None

Init ==
  /\ stored = [license |-> None, trial |-> None]
  /\ lic = [license |-> None, trial |-> None, checking |-> FALSE, open |-> FALSE]
  /\ asked = {} /\ today = 0 /\ granted = 0 /\ begun = {} /\ dropped = {}
  /\ asks = 0 /\ faults = 0

(* effective_tier, pro_features. *)
Active(l) == l # None /\ today < l.blob.until
TrialLeft(start) == start # None /\ today < start + TrialDays
ProFeatures == Active(lic.license) \/ TrialLeft(lic.trial)

Faulting(bad) == (bad => faults < MaxFaults) /\ faults' = faults + (IF bad THEN 1 ELSE 0)
Check(manual, key, server) ==
  [manual |-> manual, key |-> key, server |-> server,
   result |-> [kind |-> "waiting", license |-> None]]

(* revalidate_on_start, on the state just loaded. *)
Due(l) == l # None /\ today >= l.checked + RecheckAfter

(* The app is started again: what was asked before is never answered. *)
Restart ==
  LET l == LoadLicense(stored)
  IN /\ lic' = [license |-> l, trial |-> LoadTrial(stored), checking |-> Due(l), open |-> FALSE]
     /\ asked' = IF Due(l) THEN {Check(FALSE, l.blob.key, l.server)} ELSE {}
     /\ asks' = 0
     /\ UNCHANGED <<stored, today, granted, begun, dropped, faults>>

OpenDialog ==
  /\ ~lic.open /\ lic' = [lic EXCEPT !.open = TRUE]
  /\ UNCHANGED <<stored, asked, today, granted, begun, dropped, asks, faults>>

CloseDialog ==
  /\ lic.open /\ lic' = [lic EXCEPT !.open = FALSE]
  /\ UNCHANGED <<stored, asked, today, granted, begun, dropped, asks, faults>>

(* The dialog's buttons are off while a check is made. *)
Enabled == lic.open /\ ~lic.checking

Ask(check) ==
  /\ Enabled /\ asks < MaxAsks /\ asks' = asks + 1
  /\ lic' = [lic EXCEPT !.checking = TRUE]
  /\ asked' = asked \cup {check}
  /\ UNCHANGED <<stored, today, granted, begun, dropped, faults>>
Activate(key, server) == Ask(Check(TRUE, key, server))
Revalidate ==
  /\ lic.license # None
  /\ Ask(Check(TRUE, lic.license.blob.key, lic.license.server))

Deactivate(bad) ==
  /\ Enabled /\ lic.license # None /\ Faulting(bad)
  /\ IF bad THEN UNCHANGED <<lic, stored>>
     ELSE lic' = [lic EXCEPT !.license = None] /\ stored' = [stored EXCEPT !.license = None]
  /\ UNCHANGED <<asked, today, granted, begun, dropped, asks>>

(* start_trial: the date that is stored wins. *)
TrialStart(s) == IF LoadTrial(s) # None THEN LoadTrial(s) ELSE today
BegunNow == IF LoadTrial(stored) = None THEN begun \cup {today} ELSE begun
StartTrial(bad) ==
  /\ lic.open /\ lic.license = None /\ lic.trial = None
  /\ Faulting(bad) /\ (bad => LoadTrial(stored) = None)
  /\ IF bad THEN UNCHANGED <<lic, stored, begun>>
     ELSE /\ lic' = [lic EXCEPT !.trial = TrialStart(stored)]
          /\ stored' = [stored EXCEPT !.trial = TrialStart(stored)]
          /\ begun' = BegunNow
  /\ UNCHANGED <<asked, today, granted, dropped, asks>>

-----------------------------------------------------------------------------
(* validate_at: what a reply comes to.  The server is unreachable, refuses the
   key, accepts it without a license, or sends one. *)
Replies ==
  {[kind |-> k, blob |-> None] : k \in {"down", "rejected", "bare"}}
    \cup {[kind |-> "license", blob |-> b] : b \in Blobs}
Answer(kind, license) == [kind |-> kind, license |-> license]

(* Variant: any signed license will do. *)
GrantsAnyKey(check, reply) == reply.kind = "license" /\ Verifies(reply.blob)
Grants(check, reply) ==
  reply.kind = "license" /\ Verifies(reply.blob) /\ reply.blob.key = check.key
Outcome(check, reply) ==
  IF Grants(check, reply) THEN Answer("valid", License(reply.blob, check.server, today))
  ELSE Answer(IF reply.kind = "rejected" THEN "rejected" ELSE "error", None)

Respond(check, reply) ==
  /\ check \in asked /\ check.result.kind = "waiting"
  /\ asked' = (asked \ {check}) \cup {[check EXCEPT !.result = Outcome(check, reply)]}
  /\ granted' = IF reply.kind = "license" /\ Verifies(reply.blob) /\ reply.blob.until > granted
                THEN reply.blob.until ELSE granted
  /\ UNCHANGED <<lic, stored, today, begun, dropped, asks, faults>>

(* handle_validated: only a silent check that is refused drops the license. *)
HandleValidated(check, bad) ==
  LET r == check.result
      refused == r.kind = "rejected" /\ ~check.manual
      mine == lic.license # None /\ lic.license.blob.key = check.key
      changed == refused \/ r.kind = "valid"
  IN /\ check \in asked /\ r.kind # "waiting" /\ Faulting(bad) /\ (bad => changed)
     /\ asked' = asked \ {check}
     /\ lic' = [lic EXCEPT !.checking = FALSE, !.open = @ \/ refused,
                           !.license = IF changed THEN r.license ELSE @]
     /\ stored' = IF changed /\ ~bad THEN [stored EXCEPT !.license = r.license] ELSE stored
     /\ dropped' = IF refused /\ ~mine THEN dropped \cup {lic.license} ELSE dropped
     /\ UNCHANGED <<today, granted, begun, asks>>

Tick ==
  /\ today + 1 \in Days /\ today' = today + 1
  /\ UNCHANGED <<lic, stored, asked, granted, begun, dropped, asks, faults>>

(* Someone edits the files, or deletes them: any day, and any blob that the
   product key has not signed (one that does not parse is such a blob) or the one
   that is there, which alone is signed.  Another running instance starts the
   trial. *)
EditLicense(license) ==
  /\ Faulting(TRUE)
  /\ license # None => \/ ~license.blob.signed
                       \/ stored.license # None /\ license.blob = stored.license.blob
  /\ stored' = [stored EXCEPT !.license = license]
  /\ UNCHANGED <<lic, asked, today, granted, begun, dropped, asks>>
EditTrial(day) ==
  /\ Faulting(TRUE)
  /\ stored' = [stored EXCEPT !.trial = day]
  /\ begun' = begun \cup ({day} \ {None})
  /\ UNCHANGED <<lic, asked, today, granted, dropped, asks>>
OtherInstance ==
  /\ Faulting(TRUE) /\ LoadTrial(stored) = None
  /\ stored' = [stored EXCEPT !.trial = today]
  /\ begun' = BegunNow
  /\ UNCHANGED <<lic, asked, today, granted, dropped, asks>>

LicenseOk == {None} \cup [blob : Blobs, server : Servers, checked : Days]
Next ==
  \/ Restart \/ OpenDialog \/ CloseDialog \/ Revalidate \/ Tick \/ OtherInstance
  \/ \E k \in Keys, s \in Servers : Activate(k, s)
  \/ \E bad \in BOOLEAN : Deactivate(bad) \/ StartTrial(bad)
  \/ \E c \in asked, r \in Replies : Respond(c, r)
  \/ \E c \in asked, bad \in BOOLEAN : HandleValidated(c, bad)
  \/ \E l \in LicenseOk : EditLicense(l)
  \/ \E d \in Days \cup {None} : EditTrial(d)

-----------------------------------------------------------------------------
(* Properties. *)

TypeOK ==
  /\ lic \in [license : LicenseOk, trial : Days \cup {None}, checking : BOOLEAN, open : BOOLEAN]
  /\ stored \in [license : LicenseOk, trial : Days \cup {None}]
  /\ granted \in Days

(* No dishonest server and no edited license file opens the Pro features: there
   is a license the product key signed and whose period lasts, or a trial that is
   not over (verify_and_parse, load_license).  Asking again does not prolong a
   trial (start_trial).  trial.json is not signed, so whoever deletes it may begin
   another, and a date somebody writes into it counts as the day a trial began
   (struct Trial: "unenforced"). *)
ProIsEarned ==
  ProFeatures => today < granted \/ \E start \in begun : today < start + TrialDays

(* The license in use is for the key that was asked about, so no answer for
   one key activates another (validate_at). *)
OneAtATime ==
  /\ Cardinality(asked) <= 1
  /\ lic.checking <=> asked # {}
  /\ \A c \in asked : c.result.kind = "valid" => c.result.license.blob.key = c.key

(* A refused check that nobody asked for removes the license it was about,
   never one that was activated meanwhile (revalidate_on_start). *)
RefusalHitsItsKey == dropped = {}

(* Unless a write failed or somebody edited it, license.json is what a new
   start should find. *)
FileFollows == faults = 0 => LoadLicense(stored) = lic.license
================================================================================
