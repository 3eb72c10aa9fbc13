---------------------------- MODULE MCHttpEngine ----------------------------
(***************************************************************************)
(* A small instance of HttpEngine for TLC: origins on one host (they share *)
(* the cookie jar, not the credentials) and one on another host.           *)
(***************************************************************************)
EXTENDS HttpEngine

MCHostOf == [o \in Origins |-> IF o = "other:443" THEN "other" ELSE "api"]

Home(p) == [origin |-> "api:443", path |-> p]

Base == [start |-> Home("a"), method |-> "POST", body |-> TRUE,
         userAuth |-> TRUE, userCookie |-> TRUE, follow |-> TRUE,
         digest |-> FALSE, ntlm |-> FALSE, sigv4 |-> FALSE]

(* Both handshakes in one call; a signed call; PUT keeps its body on 302,
   HEAD does not stay HEAD on 303; and a call that follows nothing. *)
MCRequests ==
  { [Base EXCEPT !.ntlm = TRUE, !.digest = TRUE],
    [Base EXCEPT !.sigv4 = TRUE],
    [Base EXCEPT !.method = "PUT", !.userAuth = FALSE],
    [Base EXCEPT !.method = "HEAD", !.body = FALSE, !.follow = FALSE] }
=============================================================================
