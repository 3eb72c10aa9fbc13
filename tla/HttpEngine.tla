----------------------------- MODULE HttpEngine -----------------------------
(***************************************************************************)
(* One call of HttpEngine::execute (forge-core/src/exec/engine.rs): the    *)
(* loop that sends a leg, answers NTLM and Digest challenges, follows      *)
(* redirects by hand, and races every await against the user's             *)
(* cancellation token and the overall timeout.  The server is the          *)
(* environment: it may answer every leg with any response of Response.     *)
(***************************************************************************)
EXTENDS Integers, Sequences

CONSTANTS
  Origins,        (* (scheme, host, port) triples *)
  Hosts,          (* host names: several origins may share one *)
  HostOf,         (* [Origins -> Hosts] *)
  Paths,
  MaxRedirects,   (* ResolvedRequest::max_redirects *)
  Requests,       (* the requests a behaviour may start with *)
  InitialJars,    (* what earlier calls may have left in the shared jar *)
  NoLocation      (* a redirect status without a Location header *)

Url == [origin : Origins, path : Paths]

Method == {"GET", "HEAD", "POST", "PUT"}

Request == [start : Url, method : Method, body : BOOLEAN,
            userAuth : BOOLEAN, userCookie : BOOLEAN, follow : BOOLEAN,
            digest : BOOLEAN, ntlm : BOOLEAN, sigv4 : BOOLEAN]

ASSUME EngineAssumption ==
  /\ MaxRedirects \in Nat
  /\ HostOf \in [Origins -> Hosts]
  /\ Requests \subseteq Request
  /\ InitialJars \subseteq SUBSET Hosts
  /\ NoLocation \notin Url

VARIABLES
  req,        (* the ResolvedRequest being executed *)
  pc,         (* "leg" | "sent" | "body" | "done" *)
  url,        (* current_url *)
  method,     (* current_method *)
  body,       (* is current_body other than ResolvedBody::None? *)
  auth,       (* the Authorization entry of current_headers *)
  userCookie, (* does current_headers still hold the user's Cookie header? *)
  hops,       (* hop_count *)
  chain,      (* the urls recorded in redirect_chain *)
  digestAnswered,
  ntlm,       (* NtlmState *)
  jar,        (* the hosts for which the cookie jar holds a cookie *)
  cancelled,  (* the CancellationToken *)
  status,     (* status of the response being returned *)
  result,     (* what execute returned *)
  wire        (* history: every leg put on the wire *)

vars == <<req, pc, url, method, body, auth, userCookie, hops, chain,
          digestAnswered, ntlm, jar, cancelled, status, result, wire>>

current == <<url, method, body, auth, userCookie, hops, chain,
             digestAnswered, ntlm>>

-----------------------------------------------------------------------------
(* An Authorization value, with the url and method it was made for. *)
AuthKind == {"none", "user", "ntlm1", "ntlm3", "digest", "sigv4"}
Auth == [kind : AuthKind, for : Url, method : Method]

AuthFor(k) == [kind |-> k, for |-> url, method |-> method]

Leg == [url : Url, method : Method, body : BOOLEAN, auth : Auth,
        userCookie : BOOLEAN, jarCookie : BOOLEAN, hop : Nat,
        setCookie : BOOLEAN]

RedirectStatus == {"302", "303", "307"}  (* 301 acts as 302, 308 as 307 *)

Response ==
  [status : {"final"}, digest : {FALSE}, ntlm : {"none"},
   location : {NoLocation}]
  \cup [status : {"401"}, digest : BOOLEAN, ntlm : {"none", "empty", "blob"},
        location : {NoLocation}]
  \cup [status : RedirectStatus, digest : {FALSE}, ntlm : {"none"},
        location : Url \cup {NoLocation}]

-----------------------------------------------------------------------------
Init ==
  /\ req \in Requests
  /\ pc = "leg"
  /\ url = req.start
  /\ method = req.method
  /\ body = req.body
  /\ auth = [kind |-> IF req.userAuth THEN "user" ELSE "none",
             for |-> req.start, method |-> req.method]
  /\ userCookie = req.userCookie
  /\ hops = 0
  /\ chain = <<>>
  /\ digestAnswered = FALSE
  /\ ntlm = "Fresh"
  /\ jar \in InitialJars
  /\ cancelled = FALSE
  /\ status = "none"
  /\ result = "pending"
  /\ wire = <<>>

(* The headers of this leg: the jar's cookies are merged into the user's,
   and SigV4 signs the leg it is part of. *)
SendLeg ==
  /\ pc = "leg"
  /\ ~cancelled
  /\ pc' = "sent"
  /\ wire' = Append(wire,
       [url |-> url, method |-> method, body |-> body,
        auth |-> IF req.sigv4 THEN AuthFor("sigv4") ELSE auth,
        userCookie |-> userCookie,
        jarCookie |-> HostOf[url.origin] \in jar, hop |-> hops,
        setCookie |-> FALSE])
  /\ UNCHANGED <<req, current, jar, cancelled, status, result>>

-----------------------------------------------------------------------------
(* What the loop does with response r. *)
DrivesNtlm(r) ==
  /\ r.status = "401"
  /\ req.ntlm
  /\ \/ ntlm = "Fresh" /\ r.ntlm = "empty"
     \/ ntlm = "Negotiated" /\ r.ntlm = "blob"

(* Variant: the flag that one answer was given is not consulted. *)
AnswersDigestAgain(r) ==
  r.status = "401" /\ ~DrivesNtlm(r) /\ req.digest /\ r.digest

AnswersDigest(r) ==
  /\ r.status = "401"
  /\ ~DrivesNtlm(r)
  /\ req.digest /\ r.digest /\ ~digestAnswered

(* Variant: max_redirects is one off. *)
FollowsOneMore(r) ==
  /\ r.status \in RedirectStatus /\ req.follow
  /\ hops <= MaxRedirects /\ r.location # NoLocation

Follows(r) ==
  /\ r.status \in RedirectStatus
  /\ req.follow
  /\ hops < MaxRedirects
  /\ r.location # NoLocation

(* Variants: Set-Cookie is only looked at in the response returned; the read
   of the response does not race the token. *)
ArrivesUnstored(setCookie) ==
  /\ pc = "sent" /\ ~cancelled
  /\ jar' = jar
  /\ wire' = [wire EXCEPT ![Len(wire)].setCookie = setCookie]

ArrivesUncancelled(setCookie) ==
  /\ pc = "sent"
  /\ jar' = IF setCookie THEN jar \cup {HostOf[url.origin]} ELSE jar
  /\ wire' = [wire EXCEPT ![Len(wire)].setCookie = setCookie]

(* Set-Cookie is stored before the response is looked at; the history notes
   which leg's response carried one. *)
Arrives(setCookie) ==
  /\ pc = "sent"
  /\ ~cancelled
  /\ jar' = IF setCookie THEN jar \cup {HostOf[url.origin]} ELSE jar
  /\ wire' = [wire EXCEPT ![Len(wire)].setCookie = setCookie]

AnswerNtlm(r, setCookie) ==
  /\ Arrives(setCookie)
  /\ DrivesNtlm(r)
  /\ auth' = AuthFor(IF ntlm = "Fresh" THEN "ntlm1" ELSE "ntlm3")
  /\ ntlm' = IF ntlm = "Fresh" THEN "Negotiated" ELSE "Done"
  /\ pc' = "leg"
  /\ UNCHANGED <<req, url, method, body, userCookie, hops, chain,
                 digestAnswered, cancelled, status, result>>

AnswerDigest(r, setCookie) ==
  /\ Arrives(setCookie)
  /\ AnswersDigest(r)
  /\ auth' = AuthFor("digest")
  /\ digestAnswered' = TRUE
  /\ pc' = "leg"
  /\ UNCHANGED <<req, url, method, body, userCookie, hops, chain, ntlm,
                 cancelled, status, result>>

SwitchesToGet(s) == s = "303" \/ (s = "302" /\ method = "POST")

(* origin_of: scheme, host and port.  Variant: the host alone. *)
LeavesHost(target) == HostOf[target.origin] # HostOf[url.origin]
Leaves(target) == target.origin # url.origin

(* RedirectHop::url is where the redirect came from.  Variant: where to. *)
VisitedNext(target) == Append(chain, target)
Visited(target) == Append(chain, url)

FollowRedirect(r, setCookie) ==
  /\ Arrives(setCookie)
  /\ Follows(r)
  /\ chain' = Visited(r.location)
  /\ url' = r.location
  /\ method' = IF SwitchesToGet(r.status) THEN "GET" ELSE method
  /\ body' = (body /\ ~SwitchesToGet(r.status))
  /\ auth' = IF Leaves(r.location) THEN AuthFor("none") ELSE auth
  /\ userCookie' = (userCookie /\ ~Leaves(r.location))
  /\ hops' = hops + 1
  /\ pc' = "leg"
  /\ UNCHANGED <<req, digestAnswered, ntlm, cancelled, status, result>>

(* Neither answered nor followed: this response is the one returned, once
   its body is read. *)
TakeFinal(r, setCookie) ==
  /\ Arrives(setCookie)
  /\ ~DrivesNtlm(r) /\ ~AnswersDigest(r) /\ ~Follows(r)
  /\ status' = r.status
  /\ pc' = "body"
  /\ UNCHANGED <<req, current, cancelled, result>>

(* A challenge or a Location that does not parse ends the call. *)
RejectResponse(r, setCookie) ==
  /\ Arrives(setCookie)
  /\ DrivesNtlm(r) \/ AnswersDigest(r) \/ Follows(r)
  /\ chain' = IF Follows(r) THEN Visited(r.location) ELSE chain
  /\ pc' = "done"
  /\ result' = "error"
  /\ UNCHANGED <<req, url, method, body, auth, userCookie, hops,
                 digestAnswered, ntlm, cancelled, status>>

-----------------------------------------------------------------------------
Return(outcome) ==
  /\ pc' = "done"
  /\ result' = outcome
  /\ UNCHANGED <<req, current, jar, cancelled, status, wire>>

ReadBody == pc = "body" /\ ~cancelled /\ Return("ok")

(* An unsignable or unencodable leg, a body file that cannot be read, a
   connection error, a broken body stream. *)
Fail == pc \in {"leg", "sent", "body"} /\ ~cancelled /\ Return("error")

(* tokio::time::timeout polls the loop before its timer, and the loop's
   selects are biased to the token: a cancelled call reports Cancelled. *)
Timeout == pc # "done" /\ ~cancelled /\ Return("timeout")

(* Variant: only the send races the token, not the reading of the body. *)
NoticeCancelInSend == pc = "sent" /\ cancelled /\ Return("cancelled")

NoticeCancel == pc # "done" /\ cancelled /\ Return("cancelled")

Cancel ==
  /\ pc # "done"
  /\ ~cancelled
  /\ cancelled' = TRUE
  /\ UNCHANGED <<req, pc, current, jar, status, result, wire>>

Step ==
  \/ SendLeg
  \/ \E r \in Response, c \in BOOLEAN :
       /\ c => HostOf[url.origin] \notin jar  (* again would change nothing *)
       /\ \/ AnswerNtlm(r, c)
          \/ AnswerDigest(r, c)
          \/ FollowRedirect(r, c)
          \/ TakeFinal(r, c)
          \/ RejectResponse(r, c)
  \/ ReadBody
  \/ Fail
  \/ Timeout
  \/ NoticeCancel

Next == Step \/ Cancel

(* The overall timer always fires, so the call itself is weakly fair; the
   user is not. *)
Spec == Init /\ [][Next]_vars /\ WF_vars(Step)

-----------------------------------------------------------------------------
TypeOK ==
  /\ req \in Requests
  /\ pc \in {"leg", "sent", "body", "done"}
  /\ url \in Url
  /\ method \in Method
  /\ body \in BOOLEAN
  /\ auth \in Auth
  /\ userCookie \in BOOLEAN
  /\ hops \in 0..MaxRedirects
  /\ chain \in Seq(Url)
  /\ digestAnswered \in BOOLEAN
  /\ ntlm \in {"Fresh", "Negotiated", "Done"}
  /\ jar \in SUBSET Hosts
  /\ cancelled \in BOOLEAN
  /\ status \in {"none", "final", "401"} \cup RedirectStatus
  /\ result \in {"pending", "ok", "error", "timeout", "cancelled"}
  /\ wire \in Seq(Leg)

(* The retries the loop has taken so far: each redirect, the one Digest
   answer and the two NTLM messages. *)
Retries ==
  hops + (IF digestAnswered THEN 1 ELSE 0)
       + (CASE ntlm = "Fresh" -> 0 [] ntlm = "Negotiated" -> 1 [] OTHER -> 2)

LegLimit ==
  1 + MaxRedirects + (IF req.digest THEN 1 ELSE 0) + (IF req.ntlm THEN 2 ELSE 0)

(* However a server mixes 401 challenges and redirects, one call of execute
   puts at most 1 + max_redirects + 1 (Digest) + 2 (NTLM) requests on the
   wire: the handshakes have no counter of their own, only their states. *)
LegBudget == Len(wire) <= LegLimit

(* The user's Authorization and Cookie headers are only ever sent while the
   call has not left the origin the user addressed - also not when a later
   redirect leads back - and an answer to a challenge or a signature is only
   sent to the origin it was computed for. *)
CredentialsStayWithOrigin ==
  \A i \in DOMAIN wire :
    LET leg == wire[i] IN
      /\ leg.auth.kind = "user" \/ leg.userCookie =>
           \A j \in 1..i : wire[j].url.origin = req.start.origin
      /\ leg.auth.kind \notin {"none", "user"} =>
           leg.auth.for.origin = leg.url.origin

(* Answering a challenge resends the same request: the legs of one hop agree
   on url, method and body; the chain reported to the user is the sequence of
   urls the legs really went to; a leg without the request's body is a GET -
   307 and 308 may not lose it - and a body once dropped never comes back. *)
RedirectsFaithful ==
  /\ \A i, j \in DOMAIN wire :
       wire[i].hop = wire[j].hop =>
         /\ wire[i].url = wire[j].url
         /\ wire[i].method = wire[j].method
         /\ wire[i].body = wire[j].body
  /\ \A i \in DOMAIN wire : wire[i].url = Append(chain, url)[wire[i].hop + 1]
  /\ pc # "done" => Len(chain) = hops
  /\ \A i \in DOMAIN wire :
       /\ req.body /\ ~wire[i].body => wire[i].method = "GET"
       /\ \A j \in 1..i : wire[i].body => wire[j].body

(* A cookie set by one leg's response - be it a 401 or a redirect - is sent
   with every later leg to the same host, across method rewrites and origins
   that share the host. *)
CookiesFollowHost ==
  \A i \in DOMAIN wire :
    wire[i].setCookie =>
      \A j \in (i + 1)..Len(wire) :
        HostOf[wire[j].url.origin] = HostOf[wire[i].url.origin] =>
          wire[j].jarCookie

(* Once the user cancels, no further leg is sent and nothing the server says
   changes the outcome any more. *)
SilentAfterCancel ==
  [][cancelled => wire' = wire /\ jar' = jar /\ result' \in {result, "cancelled"}]_vars

(* Every call ends, a cancelled one at whichever await it is in. *)
Terminates == <>(pc = "done")
=============================================================================
