-------------------------- MODULE HttpEngine_proofs --------------------------
(***************************************************************************)
(* Proofs about HttpEngine for every set of origins, every redirect limit  *)
(* and every request: type correctness, the bound on the number of legs,   *)
(* and that credentials do not leave the origin they were meant for.       *)
(***************************************************************************)
EXTENDS HttpEngine, TLAPS

(* Marking a leg's response in the history keeps it a sequence of legs, of
   the same length, equal in every other field. *)
LEMMA MarkedWire ==
  ASSUME NEW w \in Seq(Leg), NEW c \in BOOLEAN, NEW n \in Nat
  PROVE  LET m == [w EXCEPT ![n].setCookie = c] IN
           /\ m \in Seq(Leg)
           /\ Len(m) = Len(w)
           /\ DOMAIN m = DOMAIN w
           /\ \A i \in DOMAIN w :
                /\ m[i].url = w[i].url
                /\ m[i].auth = w[i].auth
                /\ m[i].userCookie = w[i].userCookie
                /\ m[i].method = w[i].method /\ m[i].body = w[i].body
                /\ m[i].hop = w[i].hop /\ m[i].jarCookie = w[i].jarCookie
                /\ m[i].setCookie = IF i = n THEN c ELSE w[i].setCookie
<1> DEFINE m == [w EXCEPT ![n].setCookie = c]
<1>1. \A i \in 1..Len(w) : m[i] = IF i = n THEN [w[i] EXCEPT !.setCookie = c]
                                            ELSE w[i]
  OBVIOUS
<1>2. \A i \in 1..Len(w) : w[i] \in Leg
  OBVIOUS
<1>2a. \A r \in Leg : LET q == [r EXCEPT !.setCookie = c] IN
          /\ q \in Leg
          /\ q.url = r.url /\ q.auth = r.auth /\ q.userCookie = r.userCookie
          /\ q.method = r.method /\ q.body = r.body
          /\ q.hop = r.hop /\ q.jarCookie = r.jarCookie /\ q.setCookie = c
  BY DEF Leg
<1>4. DOMAIN m = 1..Len(w) /\ DOMAIN w = 1..Len(w)
  OBVIOUS
<1> HIDE DEF m
<1>3. \A i \in 1..Len(w) : m[i] \in Leg
  BY <1>1, <1>2, <1>2a
<1>5. m \in [1..Len(w) -> Leg]
  <2>1. m = [i \in 1..Len(w) |-> m[i]]
    BY <1>4 DEF m
  <2>. QED
    BY <1>3, <2>1
<1>6. m \in Seq(Leg) /\ Len(m) = Len(w)
  BY <1>5, <1>4
<1>7. \A i \in 1..Len(w) : /\ m[i].url = w[i].url
                           /\ m[i].auth = w[i].auth
                           /\ m[i].userCookie = w[i].userCookie
                           /\ m[i].method = w[i].method /\ m[i].body = w[i].body
                           /\ m[i].hop = w[i].hop /\ m[i].jarCookie = w[i].jarCookie
                           /\ m[i].setCookie = IF i = n THEN c ELSE w[i].setCookie
  <2> TAKE i \in 1..Len(w)
  <2>1. CASE i = n
    <3>1. m[i] = [w[i] EXCEPT !.setCookie = c] /\ w[i] \in Leg
      BY <2>1, <1>1, <1>2
    <3>. QED
      BY <3>1, <2>1, <1>2a
  <2>2. CASE i # n
    BY <2>2, <1>1
  <2>. QED
    BY <2>1, <2>2
<1>. QED
  BY <1>4, <1>6, <1>7 DEF m

-----------------------------------------------------------------------------
(* Every variable keeps its type in every reachable state of the engine loop:
   in particular hop_count never exceeds max_redirects. *)
THEOREM TypeCorrect == Spec => []TypeOK
<1> USE EngineAssumption
<1>1. Init => TypeOK
  <2> SUFFICES ASSUME Init PROVE TypeOK
    OBVIOUS
  <2>1. req \in Request
    BY DEF Init
  <2>2. auth \in Auth /\ url \in Url /\ method \in Method /\ body \in BOOLEAN
        /\ userCookie \in BOOLEAN
    BY <2>1 DEF Init, Request, Auth, AuthKind
  <2>3. hops \in 0..MaxRedirects /\ jar \in SUBSET Hosts
    BY DEF Init
  <2>4. chain \in Seq(Url) /\ wire \in Seq(Leg)
    BY DEF Init
  <2>. QED
    BY <2>2, <2>3, <2>4 DEF Init, TypeOK
<1>2. TypeOK /\ [Next]_vars => TypeOK'
  <2> SUFFICES ASSUME TypeOK, [Next]_vars PROVE TypeOK'
    OBVIOUS
  <2>a. req \in Request
    BY DEF TypeOK
  <2>b. \A k \in AuthKind : AuthFor(k) \in Auth
    BY DEF TypeOK, AuthFor, Auth
  <2>1. CASE SendLeg
    <3>1. [url |-> url, method |-> method, body |-> body,
           auth |-> IF req.sigv4 THEN AuthFor("sigv4") ELSE auth,
           userCookie |-> userCookie,
           jarCookie |-> HostOf[url.origin] \in jar, hop |-> hops,
           setCookie |-> FALSE] \in Leg
      <4>1. AuthFor("sigv4") \in Auth
        BY <2>b DEF AuthKind
      <4>. QED
        BY <4>1 DEF TypeOK, Leg
    <3>2. wire' \in Seq(Leg)
      BY <2>1, <3>1 DEF SendLeg, TypeOK
    <3>. QED
      BY <2>1, <3>2 DEF SendLeg, TypeOK, current
  <2>2. ASSUME NEW c \in BOOLEAN, Arrives(c)
        PROVE  wire' \in Seq(Leg) /\ jar' \in SUBSET Hosts
    <3>1. HostOf[url.origin] \in Hosts
      BY DEF TypeOK, Url
    <3>2. Len(wire) \in Nat /\ wire \in Seq(Leg)
      BY DEF TypeOK
    <3>. QED
      BY <2>2, <3>1, <3>2, MarkedWire DEF Arrives, TypeOK
  <2>3. ASSUME NEW r \in Response, NEW c \in BOOLEAN, AnswerNtlm(r, c)
        PROVE  TypeOK'
    <3>1. auth' \in Auth
      BY <2>3, <2>b DEF AnswerNtlm, AuthKind
    <3>. QED
      BY <2>3, <2>2, <3>1 DEF AnswerNtlm, TypeOK
  <2>4. ASSUME NEW r \in Response, NEW c \in BOOLEAN, AnswerDigest(r, c)
        PROVE  TypeOK'
    <3>1. auth' \in Auth
      BY <2>4, <2>b DEF AnswerDigest, AuthKind
    <3>. QED
      BY <2>4, <2>2, <3>1 DEF AnswerDigest, TypeOK
  <2>5. ASSUME NEW r \in Response, NEW c \in BOOLEAN, FollowRedirect(r, c)
        PROVE  TypeOK'
    <3>1. r.location \in Url
      BY <2>5 DEF FollowRedirect, Leaves, Visited, Follows, Response, RedirectStatus
    <3>2. auth' \in Auth
      BY <2>5, <2>b DEF FollowRedirect, Leaves, Visited, AuthKind, TypeOK
    <3>3. hops' \in 0..MaxRedirects
      BY <2>5 DEF FollowRedirect, Leaves, Visited, Follows, TypeOK
    <3>4. chain' \in Seq(Url)
      BY <2>5 DEF FollowRedirect, Leaves, Visited, TypeOK
    <3>5. method' \in Method /\ body' \in BOOLEAN /\ userCookie' \in BOOLEAN
      BY <2>5 DEF FollowRedirect, Leaves, Visited, TypeOK, Method
    <3>. QED
      BY <2>5, <2>2, <3>1, <3>2, <3>3, <3>4, <3>5 DEF FollowRedirect, Leaves, Visited, TypeOK
  <2>6. ASSUME NEW r \in Response, NEW c \in BOOLEAN, TakeFinal(r, c)
        PROVE  TypeOK'
    <3>1. status' \in {"none", "final", "401"} \cup RedirectStatus
      BY <2>6 DEF TakeFinal, Response
    <3>. QED
      BY <2>6, <2>2, <3>1 DEF TakeFinal, TypeOK, current
  <2>7. ASSUME NEW r \in Response, NEW c \in BOOLEAN, RejectResponse(r, c)
        PROVE  TypeOK'
    <3>1. chain' \in Seq(Url)
      BY <2>7 DEF RejectResponse, Visited, TypeOK
    <3>. QED
      BY <2>7, <2>2, <3>1 DEF RejectResponse, Visited, TypeOK
  <2>8. CASE ReadBody \/ Fail \/ Timeout \/ NoticeCancel
    BY <2>8 DEF ReadBody, Fail, Timeout, NoticeCancel, Return, TypeOK, current
  <2>9. CASE Cancel
    BY <2>9 DEF Cancel, TypeOK, current
  <2>10. CASE UNCHANGED vars
    BY <2>10 DEF vars, TypeOK
  <2>. QED
    BY <2>1, <2>3, <2>4, <2>5, <2>6, <2>7, <2>8, <2>9, <2>10 DEF Next, Step
<1>. QED
  BY <1>1, <1>2, PTL DEF Spec

-----------------------------------------------------------------------------
(* The loop sends a leg only after paying for it with a redirect, the Digest
   answer or an NTLM message, each of which the code takes a bounded number
   of times; the one leg in flight is the first. *)
BudgetInv ==
  /\ Len(wire) <= Retries + (IF pc = "leg" THEN 0 ELSE 1)
  /\ digestAnswered => req.digest
  /\ ntlm # "Fresh" => req.ntlm

(* One call of execute never puts more than 1 + max_redirects + 1 + 2 legs on
   the wire, whatever the server answers. *)
THEOREM LegBudgetHolds == Spec => []LegBudget
<1> USE EngineAssumption
<1>1. Init => BudgetInv
  BY DEF Init, BudgetInv, Retries
<1>2. TypeOK /\ BudgetInv /\ [Next]_vars => BudgetInv'
  <2> SUFFICES ASSUME TypeOK, BudgetInv, [Next]_vars PROVE BudgetInv'
    OBVIOUS
  <2>a. Len(wire) \in Nat /\ hops \in Nat /\ Retries \in Nat
    BY DEF TypeOK, Retries
  <2>1. CASE SendLeg
    <3>1. Len(wire') = Len(wire) + 1
      BY <2>1 DEF SendLeg, TypeOK
    <3>2. Retries' = Retries
      BY <2>1 DEF SendLeg, current, Retries
    <3>. QED
      BY <2>1, <2>a, <3>1, <3>2 DEF SendLeg, BudgetInv, current
  <2>2. ASSUME NEW c \in BOOLEAN, Arrives(c)
        PROVE  Len(wire') = Len(wire)
    BY <2>2, <2>a, MarkedWire DEF Arrives, TypeOK
  <2>3. ASSUME NEW r \in Response, NEW c \in BOOLEAN, AnswerNtlm(r, c)
        PROVE  BudgetInv'
    <3>1. Retries' = Retries + 1
      BY <2>3, <2>a DEF AnswerNtlm, DrivesNtlm, Retries, TypeOK
    <3>. QED
      BY <2>3, <2>2, <2>a, <3>1 DEF AnswerNtlm, Arrives, DrivesNtlm, BudgetInv
  <2>4. ASSUME NEW r \in Response, NEW c \in BOOLEAN, AnswerDigest(r, c)
        PROVE  BudgetInv'
    <3>1. Retries' = Retries + 1
      BY <2>4, <2>a DEF AnswerDigest, AnswersDigest, Retries, TypeOK
    <3>. QED
      BY <2>4, <2>2, <2>a, <3>1
         DEF AnswerDigest, Arrives, AnswersDigest, BudgetInv
  <2>5. ASSUME NEW r \in Response, NEW c \in BOOLEAN, FollowRedirect(r, c)
        PROVE  BudgetInv'
    <3>1. Retries' = Retries + 1
      BY <2>5, <2>a DEF FollowRedirect, Leaves, Visited, Retries, TypeOK
    <3>. QED
      BY <2>5, <2>2, <2>a, <3>1 DEF FollowRedirect, Leaves, Visited, Arrives, BudgetInv
  <2>6. ASSUME NEW r \in Response, NEW c \in BOOLEAN,
               TakeFinal(r, c) \/ RejectResponse(r, c)
        PROVE  BudgetInv'
    <3>1. Retries' = Retries
      BY <2>6 DEF TakeFinal, RejectResponse, Visited, current, Retries
    <3>2. Arrives(c) /\ pc = "sent" /\ pc' \in {"body", "done"}
      BY <2>6 DEF TakeFinal, RejectResponse, Visited, Arrives
    <3>3. UNCHANGED <<req, digestAnswered, ntlm>>
      BY <2>6 DEF TakeFinal, RejectResponse, Visited, current
    <3>. QED
      BY <2>2, <2>a, <3>1, <3>2, <3>3 DEF BudgetInv
  <2>7. CASE ReadBody \/ Fail \/ Timeout \/ NoticeCancel \/ Cancel
             \/ UNCHANGED vars
    <3>1. /\ UNCHANGED <<req, wire, hops, digestAnswered, ntlm>>
          /\ pc' \in {pc, "done"}
      BY <2>7 DEF ReadBody, Fail, Timeout, NoticeCancel, Cancel, Return, vars,
                  current
    <3>2. Retries' = Retries
      BY <3>1 DEF Retries
    <3>. QED
      BY <2>a, <3>1, <3>2 DEF BudgetInv
  <2>. QED
    BY <2>1, <2>3, <2>4, <2>5, <2>6, <2>7 DEF Next, Step
<1>3. TypeOK /\ BudgetInv => LegBudget
  <2> SUFFICES ASSUME TypeOK, BudgetInv PROVE LegBudget
    OBVIOUS
  <2>1. Retries <= MaxRedirects + (IF req.digest THEN 1 ELSE 0)
                                + (IF req.ntlm THEN 2 ELSE 0)
    BY DEF TypeOK, BudgetInv, Retries
  <2>2. Len(wire) \in Nat /\ Retries \in Nat
    BY DEF TypeOK, Retries
  <2>. QED
    BY <2>1, <2>2 DEF BudgetInv, LegBudget, LegLimit
<1>. QED
  BY <1>1, <1>2, <1>3, TypeCorrect, PTL DEF Spec

-----------------------------------------------------------------------------
(* What current_headers holds: the user's own credentials only while no leg
   has left the first origin, a computed answer only for the current one.
   The second conjunct is why a redirect back to the first origin is safe:
   once dropped, the user's headers cannot reappear. *)
HeaderInv ==
  /\ auth.kind # "sigv4"
  /\ auth.kind = "user" \/ userCookie =>
       /\ url.origin = req.start.origin
       /\ \A j \in DOMAIN wire : wire[j].url.origin = req.start.origin
  /\ auth.kind \notin {"none", "user"} => auth.for.origin = url.origin

(* The user's Authorization and Cookie headers, Digest and NTLM answers and
   SigV4 signatures are only ever sent to the origin they belong to, however
   redirects and challenges are interleaved. *)
THEOREM CredentialsHold == Spec => []CredentialsStayWithOrigin
<1> USE EngineAssumption
<1> DEFINE Inv == HeaderInv /\ CredentialsStayWithOrigin
<1>1. Init => Inv
  BY DEF Init, HeaderInv, CredentialsStayWithOrigin
<1>2. TypeOK /\ Inv /\ [Next]_vars => Inv'
  <2> SUFFICES ASSUME TypeOK, HeaderInv, CredentialsStayWithOrigin, [Next]_vars
               PROVE  HeaderInv' /\ CredentialsStayWithOrigin'
    OBVIOUS
  <2>a. wire \in Seq(Leg) /\ Len(wire) \in Nat /\ DOMAIN wire = 1..Len(wire)
    BY DEF TypeOK
  <2>1. CASE SendLeg
    <3> DEFINE sent == IF req.sigv4 THEN AuthFor("sigv4") ELSE auth
               leg == [url |-> url, method |-> method, body |-> body,
                       auth |-> sent, userCookie |-> userCookie,
                       jarCookie |-> HostOf[url.origin] \in jar,
                       hop |-> hops, setCookie |-> FALSE]
               n == Len(wire) + 1
    <3>1. wire' = Append(wire, leg) /\ UNCHANGED <<req, url, auth, userCookie>>
      BY <2>1 DEF SendLeg, current
    <3>2. /\ DOMAIN wire' = 1..n
          /\ wire'[n] = leg
          /\ \A i \in 1..Len(wire) : wire'[i] = wire[i]
      BY <2>a, <3>1
    <3>3. leg.url = url /\ leg.auth = sent /\ leg.userCookie = userCookie
      OBVIOUS
    <3>4. sent.kind = "user" => auth.kind = "user"
      BY DEF AuthFor
    <3>5. sent.kind \notin {"none", "user"} => sent.for.origin = url.origin
      BY DEF AuthFor, HeaderInv
    <3> HIDE DEF leg, sent
    <3>6. HeaderInv'
      <4>1. ASSUME auth.kind = "user" \/ userCookie, NEW j \in 1..n
            PROVE  wire'[j].url.origin = req.start.origin
        <5>1. CASE j = n
          BY <4>1, <5>1, <3>2, <3>3 DEF HeaderInv
        <5>2. CASE j # n
          BY <4>1, <5>2, <2>a, <3>2 DEF HeaderInv
        <5>. QED
          BY <5>1, <5>2
      <4>. QED
        BY <3>1, <3>2, <4>1 DEF HeaderInv
    <3>7. ASSUME NEW i \in 1..n
          PROVE  /\ wire'[i].auth.kind = "user" \/ wire'[i].userCookie =>
                      \A j \in 1..i : wire'[j].url.origin = req.start.origin
                 /\ wire'[i].auth.kind \notin {"none", "user"} =>
                      wire'[i].auth.for.origin = wire'[i].url.origin
      <4>1. CASE i = n
        BY <4>1, <3>1, <3>2, <3>3, <3>4, <3>5, <3>6 DEF HeaderInv
      <4>2. CASE i # n
        BY <4>2, <2>a, <3>2 DEF CredentialsStayWithOrigin
      <4>. QED
        BY <4>1, <4>2
    <3>. QED
      BY <3>1, <3>2, <3>6, <3>7 DEF CredentialsStayWithOrigin
  <2>2. ASSUME NEW c \in BOOLEAN, Arrives(c)
        PROVE  /\ DOMAIN wire' = DOMAIN wire
               /\ \A i \in DOMAIN wire :
                    /\ wire'[i].url = wire[i].url
                    /\ wire'[i].auth = wire[i].auth
                    /\ wire'[i].userCookie = wire[i].userCookie
    BY <2>2, <2>a, MarkedWire DEF Arrives
  <2>3. ASSUME NEW c \in BOOLEAN, Arrives(c), UNCHANGED req
        PROVE  CredentialsStayWithOrigin'
    BY <2>2, <2>3, <2>a DEF CredentialsStayWithOrigin
  <2>4. ASSUME NEW r \in Response, NEW c \in BOOLEAN,
               AnswerNtlm(r, c) \/ AnswerDigest(r, c)
        PROVE  HeaderInv' /\ CredentialsStayWithOrigin'
    <3>1. /\ Arrives(c) /\ UNCHANGED <<req, url, userCookie>>
          /\ auth'.kind \notin {"none", "user", "sigv4"}
          /\ auth'.for = url
      BY <2>4 DEF AnswerNtlm, AnswerDigest, AuthFor
    <3>. QED
      BY <2>2, <2>3, <3>1 DEF HeaderInv
  <2>5. ASSUME NEW r \in Response, NEW c \in BOOLEAN, FollowRedirect(r, c)
        PROVE  HeaderInv' /\ CredentialsStayWithOrigin'
    <3>1. Arrives(c) /\ UNCHANGED req /\ url' = r.location
      BY <2>5 DEF FollowRedirect, Leaves, Visited
    <3>2. CASE r.location.origin = url.origin
      <4>1. auth' = auth /\ userCookie' = userCookie
        BY <2>5, <3>2 DEF FollowRedirect, Leaves, Visited, TypeOK
      <4>. QED
        BY <2>2, <2>3, <3>1, <3>2, <4>1 DEF HeaderInv
    <3>3. CASE r.location.origin # url.origin
      <4>1. auth'.kind = "none" /\ userCookie' = FALSE
        BY <2>5, <3>3 DEF FollowRedirect, Leaves, Visited, AuthFor
      <4>. QED
        BY <2>3, <3>1, <4>1 DEF HeaderInv
    <3>. QED
      BY <3>2, <3>3
  <2>6. ASSUME NEW r \in Response, NEW c \in BOOLEAN,
               TakeFinal(r, c) \/ RejectResponse(r, c)
        PROVE  HeaderInv' /\ CredentialsStayWithOrigin'
    <3>1. Arrives(c) /\ UNCHANGED <<req, url, auth, userCookie>>
      BY <2>6 DEF TakeFinal, RejectResponse, Visited, current
    <3>. QED
      BY <2>2, <2>3, <3>1 DEF HeaderInv
  <2>7. CASE ReadBody \/ Fail \/ Timeout \/ NoticeCancel \/ Cancel
             \/ UNCHANGED vars
    <3>1. UNCHANGED <<req, url, auth, userCookie, wire>>
      BY <2>7 DEF ReadBody, Fail, Timeout, NoticeCancel, Cancel, Return, vars,
                  current
    <3>. QED
      BY <3>1 DEF HeaderInv, CredentialsStayWithOrigin
  <2>. QED
    BY <2>1, <2>4, <2>5, <2>6, <2>7 DEF Next, Step
<1>. QED
  BY <1>1, <1>2, TypeCorrect, PTL DEF Spec

-----------------------------------------------------------------------------
(* The legs of the current hop are sent with what the loop holds now, no leg
   is of a later hop, and what was dropped - the body - stays dropped. *)
HopInv ==
  /\ \A i \in DOMAIN wire :
       /\ wire[i].hop <= hops
       /\ wire[i].hop = hops => /\ wire[i].url = url
                                /\ pc # "done" => wire[i].method = method /\ wire[i].body = body
       /\ body => wire[i].body
  /\ pc = "sent" => Len(wire) > 0 /\ wire[Len(wire)].url = url
  /\ Len(chain) >= hops
  /\ req.body /\ ~body => method = "GET"

(* Which hosts the history says set a cookie, the jar holds one of. *)
JarInv == \A i \in DOMAIN wire : wire[i].setCookie => HostOf[wire[i].url.origin] \in jar

(* What is inductive: the properties with what the loop holds for the current
   hop and what the jar must remember of the legs before. *)
LoopInv == TypeOK /\ HopInv /\ RedirectsFaithful /\ JarInv /\ CookiesFollowHost

(* Nothing is on the wire before the first leg. *)
LEMMA LoopInit ==
  ASSUME Init
  PROVE  HopInv /\ RedirectsFaithful /\ JarInv /\ CookiesFollowHost
BY DEF Init, HopInv, RedirectsFaithful, JarInv, CookiesFollowHost

(* A leg is put on the wire. *)
LEMMA LegSent ==
  ASSUME LoopInv, SendLeg
  PROVE  HopInv' /\ RedirectsFaithful' /\ JarInv' /\ CookiesFollowHost'
<1>0. /\ HopInv /\ RedirectsFaithful /\ JarInv /\ CookiesFollowHost
      /\ wire \in Seq(Leg) /\ hops \in Nat /\ chain \in Seq(Url) /\ url \in Url
      /\ \A i \in DOMAIN wire : wire[i] \in Leg
  BY EngineAssumption DEF LoopInv, TypeOK
<1>1. PICK leg : /\ wire' = Append(wire, leg)
                 /\ leg.url = url /\ leg.method = method /\ leg.body = body
                 /\ leg.hop = hops /\ leg.setCookie = FALSE
                 /\ leg.jarCookie = (HostOf[url.origin] \in jar)
  BY DEF SendLeg
<1>2. /\ pc = "leg" /\ pc' = "sent" /\ req' = req /\ url' = url /\ method' = method
      /\ body' = body /\ hops' = hops /\ chain' = chain /\ jar' = jar
  BY DEF SendLeg, current
<1>3. PICK n \in Nat : n = Len(wire)
  BY <1>0
<1>4. /\ DOMAIN wire = 1..n /\ DOMAIN wire' = 1..(n + 1) /\ Len(wire') = n + 1
      /\ wire'[n + 1] = leg /\ \A i \in 1..n : wire'[i] = wire[i]
      /\ \A i \in 1..(n + 1) : i \in 1..n \/ i = n + 1
  BY <1>0, <1>1, <1>3
<1>5. \A i \in 1..n : wire[i].hop \in Nat /\ wire[i].hop <= hops
  BY <1>0, <1>4 DEF HopInv, Leg
<1>6. HopInv'
  <2>1. ASSUME NEW i \in 1..(n + 1) PROVE
          /\ wire'[i].hop <= hops
          /\ wire'[i].hop = hops => /\ wire'[i].url = url
                                    /\ wire'[i].method = method /\ wire'[i].body = body
          /\ body => wire'[i].body
    <3>1. CASE i = n + 1
      BY <3>1, <1>0, <1>1, <1>4
    <3>2. CASE i \in 1..n
      BY <3>2, <1>0, <1>2, <1>4 DEF HopInv
    <3>. QED
      BY <3>1, <3>2, <1>4
  <2>2. Len(wire') > 0 /\ wire'[Len(wire')].url = url
    BY <1>1, <1>4
  <2>. QED
    BY <2>1, <2>2, <1>0, <1>2, <1>4 DEF HopInv
<1>7. RedirectsFaithful'
  <2>1. ASSUME NEW i \in 1..(n + 1), NEW j \in 1..(n + 1), wire'[i].hop = wire'[j].hop
        PROVE  /\ wire'[i].url = wire'[j].url /\ wire'[i].method = wire'[j].method
               /\ wire'[i].body = wire'[j].body
    <3>1. CASE i \in 1..n /\ j \in 1..n
      BY <2>1, <3>1, <1>0, <1>4 DEF RedirectsFaithful
    <3>2. ASSUME NEW k \in 1..n, wire[k].hop = hops
          PROVE  wire[k].url = url /\ wire[k].method = method /\ wire[k].body = body
      BY <3>2, <1>0, <1>2, <1>4 DEF HopInv
    <3>3. CASE i = n + 1 /\ j \in 1..n
      BY <2>1, <3>2, <3>3, <1>1, <1>4
    <3>4. CASE j = n + 1 /\ i \in 1..n
      BY <2>1, <3>2, <3>4, <1>1, <1>4
    <3>5. CASE i = n + 1 /\ j = n + 1
      BY <3>5
    <3>. QED
      BY <3>1, <3>3, <3>4, <3>5, <1>4
  <2>2. Len(chain) = hops
    BY <1>0, <1>2 DEF RedirectsFaithful
  <2>3. ASSUME NEW i \in 1..(n + 1) PROVE wire'[i].url = Append(chain, url)[wire'[i].hop + 1]
    <3>1. CASE i \in 1..n
      BY <3>1, <1>0, <1>4 DEF RedirectsFaithful
    <3>2. CASE i = n + 1
      BY <3>2, <2>2, <1>0, <1>1, <1>4
    <3>. QED
      BY <3>1, <3>2, <1>4
  <2>4. ASSUME NEW i \in 1..(n + 1) PROVE
          /\ req.body /\ ~wire'[i].body => wire'[i].method = "GET"
          /\ \A j \in 1..i : wire'[i].body => wire'[j].body
    <3>1. CASE i \in 1..n
      <4>1. \A j \in 1..i : j \in 1..n
        BY <3>1
      <4>. QED
        BY <3>1, <4>1, <1>0, <1>4 DEF RedirectsFaithful
    <3>2. CASE i = n + 1
      <4>1. \A j \in 1..n : body => wire[j].body
        BY <1>0, <1>4 DEF HopInv
      <4>2. req.body /\ ~body => method = "GET"
        BY <1>0 DEF HopInv
      <4>. QED
        BY <3>2, <4>1, <4>2, <1>1, <1>4
    <3>. QED
      BY <3>1, <3>2, <1>4
  <2>. QED
    <3>1. Len(chain') = hops'
      BY <1>2, <2>2
    <3>2. \A i \in DOMAIN wire' : wire'[i].url = Append(chain', url')[wire'[i].hop + 1]
      BY <1>2, <1>4, <2>3
    <3>3. \A i \in DOMAIN wire' :
            /\ req'.body /\ ~wire'[i].body => wire'[i].method = "GET"
            /\ \A j \in 1..i : wire'[i].body => wire'[j].body
      BY <1>2, <1>4, <2>4
    <3>4. \A i, j \in DOMAIN wire' :
            wire'[i].hop = wire'[j].hop =>
              /\ wire'[i].url = wire'[j].url /\ wire'[i].method = wire'[j].method
              /\ wire'[i].body = wire'[j].body
      BY <1>4, <2>1
    <3>. QED
      BY <3>1, <3>2, <3>3, <3>4 DEF RedirectsFaithful
<1>8. JarInv'
  <2>1. ASSUME NEW i \in 1..(n + 1), wire'[i].setCookie
        PROVE  HostOf[wire'[i].url.origin] \in jar
    BY <2>1, <1>0, <1>1, <1>4 DEF JarInv
  <2>. QED
    BY <2>1, <1>2, <1>4 DEF JarInv
<1>9. CookiesFollowHost'
  <2>1. ASSUME NEW i \in 1..(n + 1), wire'[i].setCookie, NEW j \in (i + 1)..(n + 1),
               HostOf[wire'[j].url.origin] = HostOf[wire'[i].url.origin]
        PROVE  wire'[j].jarCookie
    <3>1. i \in 1..n /\ (j \in (i + 1)..n \/ j = n + 1)
      BY <2>1, <1>1, <1>4
    <3>2. CASE j \in (i + 1)..n
      BY <2>1, <3>1, <3>2, <1>0, <1>3, <1>4 DEF CookiesFollowHost
    <3>3. CASE j = n + 1
      <4>1. HostOf[wire[i].url.origin] \in jar
        BY <2>1, <3>1, <1>0, <1>4 DEF JarInv
      <4>. QED
        BY <2>1, <3>1, <3>3, <4>1, <1>1, <1>4
    <3>. QED
      BY <3>1, <3>2, <3>3
  <2>. QED
    BY <2>1, <1>4 DEF CookiesFollowHost
<1>. QED
  BY <1>6, <1>7, <1>8, <1>9

(* A response arrives: the wire is as it was but for the mark, the jar knows
   of the cookie. *)
LEMMA CookiesArrive ==
  ASSUME LoopInv, NEW c \in BOOLEAN, Arrives(c)
  PROVE  /\ DOMAIN wire' = DOMAIN wire /\ Len(wire') = Len(wire)
         /\ \A i \in DOMAIN wire :
              /\ wire'[i].url = wire[i].url /\ wire'[i].method = wire[i].method
              /\ wire'[i].body = wire[i].body /\ wire'[i].hop = wire[i].hop
         /\ JarInv' /\ CookiesFollowHost'
<1>0. wire \in Seq(Leg) /\ HopInv /\ JarInv /\ CookiesFollowHost
  BY DEF LoopInv, TypeOK
<1>1. PICK n \in Nat : n = Len(wire) /\ DOMAIN wire = 1..n
  BY <1>0
<1>2. /\ DOMAIN wire' = 1..n /\ Len(wire') = n
      /\ \A i \in 1..n :
           /\ wire'[i].url = wire[i].url /\ wire'[i].method = wire[i].method
           /\ wire'[i].body = wire[i].body /\ wire'[i].hop = wire[i].hop
           /\ wire'[i].jarCookie = wire[i].jarCookie
           /\ wire'[i].setCookie = IF i = n THEN c ELSE wire[i].setCookie
  BY <1>0, <1>1, MarkedWire DEF Arrives
<1>3. /\ jar \subseteq jar'
      /\ c => HostOf[url.origin] \in jar'
      /\ n > 0 /\ wire[n].url = url
  BY <1>0, <1>1 DEF Arrives, HopInv
<1>4. JarInv'
  <2>1. ASSUME NEW i \in 1..n, wire'[i].setCookie PROVE HostOf[wire'[i].url.origin] \in jar'
    <3>0. HostOf[wire'[i].url.origin] = HostOf[wire[i].url.origin]
      <4>1. wire'[i].url = wire[i].url
        BY <1>2
      <4>. QED
        BY <4>1, Zenon
    <3>1. CASE i = n
      <4>1. c
        BY <2>1, <3>1, <1>2
      <4>2. HostOf[wire[i].url.origin] = HostOf[url.origin]
        BY <3>1, <1>3, Zenon
      <4>. QED
        BY <4>1, <4>2, <3>0, <1>3
    <3>2. CASE i # n
      <4>1. wire[i].setCookie
        BY <2>1, <3>2, <1>2
      <4>2. HostOf[wire[i].url.origin] \in jar
        BY <4>1, <1>0, <1>1 DEF JarInv
      <4>. QED
        BY <4>2, <3>0, <1>3
    <3>. QED
      BY <3>1, <3>2
  <2>. QED
    BY <2>1, <1>2 DEF JarInv
<1>5. CookiesFollowHost'
  <2>1. ASSUME NEW i \in 1..n, wire'[i].setCookie, NEW j \in (i + 1)..n,
               HostOf[wire'[j].url.origin] = HostOf[wire'[i].url.origin]
        PROVE  wire'[j].jarCookie
    <3>1. i # n /\ j \in 1..n
      BY <2>1
    <3>. QED
      BY <2>1, <3>1, <1>0, <1>1, <1>2 DEF CookiesFollowHost
  <2>. QED
    BY <2>1, <1>2 DEF CookiesFollowHost
<1>. QED
  BY <1>1, <1>2, <1>4, <1>5

(* The legs sent stay faithful as long as the chain keeps the urls they are
   looked up at. *)
LEMMA StaysFaithful ==
  ASSUME RedirectsFaithful, wire \in Seq(Leg), req' = req,
         DOMAIN wire' = DOMAIN wire,
         \A i \in DOMAIN wire :
            /\ wire'[i].url = wire[i].url /\ wire'[i].method = wire[i].method
            /\ wire'[i].body = wire[i].body /\ wire'[i].hop = wire[i].hop,
         \A i \in DOMAIN wire :
            Append(chain', url')[wire[i].hop + 1] = Append(chain, url)[wire[i].hop + 1],
         pc' # "done" => Len(chain') = hops'
  PROVE  RedirectsFaithful'
<1>1. ASSUME NEW i \in DOMAIN wire, NEW j \in DOMAIN wire, wire'[i].hop = wire'[j].hop
      PROVE  /\ wire'[i].url = wire'[j].url /\ wire'[i].method = wire'[j].method
             /\ wire'[i].body = wire'[j].body
  BY <1>1 DEF RedirectsFaithful
<1>2. ASSUME NEW i \in DOMAIN wire
      PROVE  wire'[i].url = Append(chain', url')[wire'[i].hop + 1]
  <2>1. wire[i].url = Append(chain, url)[wire[i].hop + 1]
    BY DEF RedirectsFaithful
  <2>. QED
    BY <2>1
<1>3. ASSUME NEW i \in DOMAIN wire PROVE
        /\ req'.body /\ ~wire'[i].body => wire'[i].method = "GET"
        /\ \A j \in 1..i : wire'[i].body => wire'[j].body
  <2>1. \A j \in 1..i : j \in DOMAIN wire
    OBVIOUS
  <2>2. /\ req.body /\ ~wire[i].body => wire[i].method = "GET"
        /\ \A j \in 1..i : wire[i].body => wire[j].body
    BY DEF RedirectsFaithful
  <2>. QED
    BY <2>1, <2>2
<1>4. \A i, j \in DOMAIN wire' :
        wire'[i].hop = wire'[j].hop =>
          /\ wire'[i].url = wire'[j].url /\ wire'[i].method = wire'[j].method
          /\ wire'[i].body = wire'[j].body
  BY <1>1, Zenon
<1>5. \A i \in DOMAIN wire' : wire'[i].url = Append(chain', url')[wire'[i].hop + 1]
  BY <1>2, Zenon
<1>6. \A i \in DOMAIN wire' :
        /\ req'.body /\ ~wire'[i].body => wire'[i].method = "GET"
        /\ \A j \in 1..i : wire'[i].body => wire'[j].body
  BY <1>3, Zenon
<1>. QED
  <2>1. (\A i, j \in DOMAIN wire :
          wire[i].hop = wire[j].hop =>
            /\ wire[i].url = wire[j].url
            /\ wire[i].method = wire[j].method
            /\ wire[i].body = wire[j].body)'
    BY <1>4, Zenon
  <2>2. (\A i \in DOMAIN wire : wire[i].url = Append(chain, url)[wire[i].hop + 1])'
    BY <1>5, Zenon
  <2>3. (\A i \in DOMAIN wire :
          /\ req.body /\ ~wire[i].body => wire[i].method = "GET"
          /\ \A j \in 1..i : wire[i].body => wire[j].body)'
    BY <1>6, Zenon
  <2>4. (pc # "done" => Len(chain) = hops)'
    OBVIOUS
  <2>. QED
    BY <2>1, <2>2, <2>3, <2>4, Zenon DEF RedirectsFaithful

(* What is read of the response decides how the loop goes on. *)
LEMMA LoopContinues ==
  ASSUME LoopInv, NEW r \in Response, NEW c \in BOOLEAN,
         AnswerNtlm(r, c) \/ AnswerDigest(r, c) \/ TakeFinal(r, c)
  PROVE  HopInv' /\ RedirectsFaithful' /\ JarInv' /\ CookiesFollowHost'
<1>0. HopInv /\ RedirectsFaithful
  BY DEF LoopInv
<1>1. /\ Arrives(c) /\ pc = "sent" /\ pc' \in {"leg", "body"}
      /\ req' = req /\ url' = url /\ method' = method /\ body' = body
      /\ hops' = hops /\ chain' = chain
  BY DEF AnswerNtlm, AnswerDigest, TakeFinal, Arrives, current
<1>2. /\ DOMAIN wire' = DOMAIN wire /\ Len(wire') = Len(wire)
      /\ \A i \in DOMAIN wire :
           /\ wire'[i].url = wire[i].url /\ wire'[i].method = wire[i].method
           /\ wire'[i].body = wire[i].body /\ wire'[i].hop = wire[i].hop
      /\ JarInv' /\ CookiesFollowHost'
  BY <1>1, CookiesArrive
<1>3. HopInv'
  BY <1>0, <1>1, <1>2 DEF HopInv
<1>4. wire \in Seq(Leg) /\ Len(chain') = hops'
  BY <1>0, <1>1 DEF LoopInv, TypeOK, RedirectsFaithful
<1>5. RedirectsFaithful'
  BY <1>0, <1>1, <1>2, <1>4, StaysFaithful
<1>. QED
  BY <1>2, <1>3, <1>5

(* A redirect closes the hop: the url goes to the chain, the next hop has no
   leg yet. *)
LEMMA LoopFollows ==
  ASSUME LoopInv, NEW r \in Response, NEW c \in BOOLEAN, FollowRedirect(r, c)
  PROVE  HopInv' /\ RedirectsFaithful' /\ JarInv' /\ CookiesFollowHost'
<1>0. /\ HopInv /\ RedirectsFaithful /\ hops \in Nat /\ chain \in Seq(Url) /\ url \in Url
      /\ wire \in Seq(Leg) /\ body \in BOOLEAN
      /\ \A i \in DOMAIN wire : wire[i].hop \in Nat
  <2>1. \A i \in DOMAIN wire : wire[i] \in Leg
    BY DEF LoopInv, TypeOK
  <2>. QED
    BY <2>1, EngineAssumption DEF LoopInv, TypeOK, Leg
<1>1. /\ Arrives(c) /\ pc = "sent" /\ pc' = "leg" /\ req' = req
      /\ chain' = Append(chain, url) /\ url' = r.location
      /\ method' = (IF SwitchesToGet(r.status) THEN "GET" ELSE method)
      /\ body' = (body /\ ~SwitchesToGet(r.status)) /\ hops' = hops + 1
  BY DEF FollowRedirect, Arrives, Visited
<1>2. /\ DOMAIN wire' = DOMAIN wire /\ Len(wire') = Len(wire)
      /\ \A i \in DOMAIN wire :
           /\ wire'[i].url = wire[i].url /\ wire'[i].method = wire[i].method
           /\ wire'[i].body = wire[i].body /\ wire'[i].hop = wire[i].hop
      /\ JarInv' /\ CookiesFollowHost'
  BY <1>1, CookiesArrive
<1>3. r.location \in Url
  BY DEF FollowRedirect, Follows, Response, RedirectStatus
<1>4. Len(chain) = hops
  BY <1>0, <1>1 DEF RedirectsFaithful
<1>5. /\ Len(chain') = hops + 1 /\ chain'[hops + 1] = url
      /\ \A k \in 0..hops : Append(chain', url')[k + 1] = Append(chain, url)[k + 1]
  BY <1>0, <1>1, <1>3, <1>4
<1>6. \A i \in DOMAIN wire : wire[i].hop \in 0..hops /\ wire[i].hop # hops + 1
  BY <1>0 DEF HopInv
<1>7. HopInv'
  <2>1. req'.body /\ ~body' => method' = "GET"
    BY <1>0, <1>1 DEF HopInv
  <2>2. ASSUME NEW i \in DOMAIN wire' PROVE
          /\ wire'[i].hop <= hops' /\ wire'[i].hop # hops' /\ (body' => wire'[i].body)
    BY <1>0, <1>1, <1>2, <1>6 DEF HopInv
  <2>. QED
    BY <2>1, <2>2, <1>0, <1>1, <1>5 DEF HopInv
<1>8. RedirectsFaithful'
  <2>1. \A i \in DOMAIN wire :
          Append(chain', url')[wire[i].hop + 1] = Append(chain, url)[wire[i].hop + 1]
    BY <1>5, <1>6
  <2>2. Len(chain') = hops'
    BY <1>1, <1>5
  <2>. QED
    BY <2>1, <2>2, <1>0, <1>1, <1>2, StaysFaithful
<1>. QED
  BY <1>2, <1>7, <1>8

(* The call ends at a response it cannot act on; a redirect that does not
   parse is in the chain already. *)
LEMMA LoopRejects ==
  ASSUME LoopInv, NEW r \in Response, NEW c \in BOOLEAN, RejectResponse(r, c)
  PROVE  HopInv' /\ RedirectsFaithful' /\ JarInv' /\ CookiesFollowHost'
<1>0. /\ HopInv /\ RedirectsFaithful /\ hops \in Nat /\ chain \in Seq(Url) /\ url \in Url
      /\ wire \in Seq(Leg)
      /\ \A i \in DOMAIN wire : wire[i].hop \in Nat
  <2>1. \A i \in DOMAIN wire : wire[i] \in Leg
    BY DEF LoopInv, TypeOK
  <2>. QED
    BY <2>1, EngineAssumption DEF LoopInv, TypeOK, Leg
<1>1. /\ Arrives(c) /\ pc = "sent" /\ pc' = "done" /\ req' = req
      /\ chain' = Append(chain, url) \/ chain' = chain
      /\ url' = url /\ method' = method /\ body' = body /\ hops' = hops
  BY DEF RejectResponse, Arrives, Visited
<1>2. /\ DOMAIN wire' = DOMAIN wire /\ Len(wire') = Len(wire)
      /\ \A i \in DOMAIN wire :
           /\ wire'[i].url = wire[i].url /\ wire'[i].method = wire[i].method
           /\ wire'[i].body = wire[i].body /\ wire'[i].hop = wire[i].hop
      /\ JarInv' /\ CookiesFollowHost'
  BY <1>1, CookiesArrive
<1>4. Len(chain) = hops
  BY <1>0, <1>1 DEF RedirectsFaithful
<1>5. /\ Len(chain') >= hops
      /\ \A k \in 0..hops : Append(chain', url)[k + 1] = Append(chain, url)[k + 1]
  <2>1. CASE chain' = chain
    BY <2>1, <1>0, <1>4
  <2>2. CASE chain' = Append(chain, url)
    BY <2>2, <1>0, <1>4
  <2>. QED
    BY <2>1, <2>2, <1>1
<1>6. \A i \in DOMAIN wire : wire[i].hop \in 0..hops
  BY <1>0 DEF HopInv
<1>7. HopInv'
  BY <1>0, <1>1, <1>2, <1>5 DEF HopInv
<1>8. RedirectsFaithful'
  <2>1. \A i \in DOMAIN wire :
          Append(chain', url')[wire[i].hop + 1] = Append(chain, url)[wire[i].hop + 1]
    BY <1>1, <1>5, <1>6
  <2>. QED
    BY <2>1, <1>0, <1>1, <1>2, StaysFaithful
<1>. QED
  BY <1>2, <1>7, <1>8

(* The steps that neither send nor receive. *)
LEMMA LoopRests ==
  ASSUME LoopInv,
         ReadBody \/ Fail \/ Timeout \/ NoticeCancel \/ Cancel \/ UNCHANGED vars
  PROVE  HopInv' /\ RedirectsFaithful' /\ JarInv' /\ CookiesFollowHost'
<1>1. /\ UNCHANGED <<req, url, method, body, hops, chain, jar, wire>>
      /\ pc' \in {pc, "done"}
  BY DEF ReadBody, Fail, Timeout, NoticeCancel, Cancel, Return, vars, current
<1>2. HopInv /\ RedirectsFaithful /\ JarInv /\ CookiesFollowHost /\ wire \in Seq(Leg)
  BY DEF LoopInv, TypeOK
<1>3. HopInv'
  BY <1>1, <1>2 DEF HopInv
<1>4. RedirectsFaithful'
  <2>1. pc' # "done" => Len(chain') = hops'
    BY <1>1, <1>2 DEF RedirectsFaithful
  <2>. QED
    BY <2>1, <1>1, <1>2, StaysFaithful
<1>5. JarInv' /\ CookiesFollowHost'
  BY <1>1, <1>2 DEF JarInv, CookiesFollowHost
<1>. QED
  BY <1>3, <1>4, <1>5

(* The invariant both properties rest on, in every reachable state. *)
THEOREM LoopInvariant == Spec => []LoopInv
<1> DEFINE Inv == HopInv /\ RedirectsFaithful /\ JarInv /\ CookiesFollowHost
<1>1. Init => Inv
  BY LoopInit
<1>2. TypeOK /\ Inv /\ [Next]_vars => Inv'
  <2> SUFFICES ASSUME LoopInv, [Next]_vars
               PROVE  HopInv' /\ RedirectsFaithful' /\ JarInv' /\ CookiesFollowHost'
    BY DEF LoopInv
  <2>. QED
    BY LegSent, LoopContinues, LoopFollows, LoopRejects, LoopRests DEF Next, Step
<1>3. TypeOK /\ Inv => LoopInv
  BY DEF LoopInv
<1>. QED
  BY <1>1, <1>2, <1>3, TypeCorrect, PTL DEF Spec

(* A challenge is answered with the same request, the chain reported is where
   the legs went, and a body is lost to a GET only and for good - whatever the
   server answers, for every redirect limit (execute's loop, engine.rs). *)
THEOREM RedirectsHold == Spec => []RedirectsFaithful
<1>1. LoopInv => RedirectsFaithful
  BY DEF LoopInv
<1>. QED
  BY <1>1, LoopInvariant, PTL

(* A cookie one leg's response set goes with every later leg to the host: the
   jar is updated before the response is looked at (engine.rs). *)
THEOREM CookiesHold == Spec => []CookiesFollowHost
<1>1. LoopInv => CookiesFollowHost
  BY DEF LoopInv
<1>. QED
  BY <1>1, LoopInvariant, PTL

(* Once the token is cancelled nothing is sent, stored or returned but the
   cancellation, at whichever await the call was in. *)
THEOREM CancelHolds == Spec => SilentAfterCancel
<1>1. [Next]_vars
        => [cancelled => wire' = wire /\ jar' = jar /\ result' \in {result, "cancelled"}]_vars
  <2> SUFFICES ASSUME Next, cancelled
               PROVE  wire' = wire /\ jar' = jar /\ result' \in {result, "cancelled"}
    OBVIOUS
  <2>1. NoticeCancel
    BY DEF Next, Step, SendLeg, AnswerNtlm, AnswerDigest, FollowRedirect, TakeFinal,
           RejectResponse, Arrives, ReadBody, Fail, Timeout, Cancel
  <2>. QED
    BY <2>1 DEF NoticeCancel, Return
<1>. QED
  BY <1>1, PTL DEF Spec, SilentAfterCancel
=============================================================================
