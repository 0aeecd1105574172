--------------------------- MODULE GameAuthProofs ---------------------------
(***************************************************************************)
(* Proofs about GameAuth for any number of games, of calls in flight, of   *)
(* sign-ins and codes, and any lifetimes.                                  *)
(***************************************************************************)
EXTENDS GameAuth, TLAPS

-----------------------------------------------------------------------------
(* Requests. *)

LEMMA NoRequestTyped ==
  /\ NoRequest \in Request
  /\ NoRequest.op = "none"
  /\ NoRequest.time = 0
  /\ NoRequest.session = 0
<1>1. (CHOOSE c \in Clients : TRUE) \in Clients
  BY ClientsAssumption
<1>2. QED  BY <1>1 DEF NoRequest, Request

(* An action moves one request and leaves the others alone. *)
LEMMA RequestMoves ==
  ASSUME requests \in [Requests -> Request], NEW r \in Requests,
         NEW q \in Request, requests' = [requests EXCEPT ![r] = q]
  PROVE  /\ requests' \in [Requests -> Request]
         /\ requests'[r] = q
         /\ \A x \in Requests \ {r} : requests'[x] = requests[x]
OBVIOUS

(* Neither the clock nor the number of sessions goes back. *)
LEMMA RequestsTyped ==
  ASSUME TypeOK, NEW r \in Requests, NEW q \in Request,
         requests' = [requests EXCEPT ![r] = q],
         now' = now, sessions' \in 0..MaxSessions, sessions <= sessions',
         q.time <= now, q.session <= sessions
  PROVE  /\ requests' \in [Requests -> Request]
         /\ \A x \in Requests : /\ requests'[x].time <= now'
                                /\ requests'[x].session <= sessions'
<1>1. /\ requests' \in [Requests -> Request]
      /\ requests'[r] = q
      /\ \A x \in Requests \ {r} : requests'[x] = requests[x]
  BY RequestMoves DEF TypeOK
<1>2. /\ sessions \in Nat /\ sessions' \in Nat
      /\ \A x \in Requests : /\ requests[x].session \in Nat
                             /\ requests[x].session <= sessions
                             /\ requests[x].time <= now
  BY BoundsAssumption DEF TypeOK, Request
<1>3. QED  BY <1>1, <1>2 DEF Request

LEMMA EndTyped ==
  ASSUME TypeOK, NEW r \in Requests, End(r),
         now' = now, sessions' \in 0..MaxSessions, sessions <= sessions'
  PROVE  /\ requests' \in [Requests -> Request]
         /\ requests'[r] = NoRequest
         /\ \A x \in Requests \ {r} : requests'[x] = requests[x]
         /\ \A x \in Requests : /\ requests'[x].time <= now'
                                /\ requests'[x].session <= sessions'
<1>1. NoRequest.time <= now /\ NoRequest.session <= sessions
  BY BoundsAssumption DEF NoRequest, TypeOK
<1>2. requests' = [requests EXCEPT ![r] = NoRequest]  BY DEF End
<1>3. /\ requests' \in [Requests -> Request]
      /\ requests'[r] = NoRequest
      /\ \A x \in Requests \ {r} : requests'[x] = requests[x]
  BY <1>2, RequestMoves, NoRequestTyped DEF TypeOK
<1>4. QED  BY <1>1, <1>2, <1>3, RequestsTyped, NoRequestTyped

LEMMA BeginTyped ==
  ASSUME TypeOK, NEW r \in Requests, NEW q \in Request, Begin(r, q),
         q.time <= now, q.session <= sessions
  PROVE  TypeOK'
<1>1. /\ requests' = [requests EXCEPT ![r] = q]
      /\ UNCHANGED <<now, membership_status, access_status,
           membership_checked_at, session, enabled, code, token, sessions,
           codes, rejected>>
  BY DEF Begin, account
<1>2. sessions' \in 0..MaxSessions /\ sessions <= sessions'
  BY <1>1, BoundsAssumption DEF TypeOK
<1>3. /\ requests' \in [Requests -> Request]
      /\ \A x \in Requests : /\ requests'[x].time <= now'
                             /\ requests'[x].session <= sessions'
  BY <1>1, <1>2, RequestsTyped
<1>4. QED  BY <1>1, <1>3 DEF TypeOK

-----------------------------------------------------------------------------
(* Type correctness. *)

LEMMA TypeInit == ASSUME Init PROVE TypeOK
<1>1. /\ requests \in [Requests -> Request]
      /\ \A r \in Requests : requests[r].time = 0 /\ requests[r].session = 0
  BY NoRequestTyped DEF Init, NoRequest
<1>2. /\ now \in 0..MaxTime /\ sessions \in 0..MaxSessions
      /\ codes \in [Clients -> 0..MaxCodes] /\ 0 \in 0..(0 + Day)
      /\ 0 \in 0..(0 + Minute) /\ 0 \in 0..0
  BY BoundsAssumption, TimesAssumption DEF Init
<1>3. session \in [hash : 0..sessions, expires : 0..(now + Day),
                   row : 0..sessions]
  BY <1>2 DEF Init, NoSession
<1>4. code \in [Clients -> [hash : Nat, source : 0..sessions,
                            expires : 0..(now + Minute), consumed : BOOLEAN]]
  BY <1>2 DEF Init, NoCode
<1>5. token \in [Clients -> [code : Nat, source : 0..sessions,
                             expires : 0..(now + Day), row : Nat]]
  BY <1>2 DEF Init, NoToken
<1>6. /\ membership_status \in {"none", "eligible", "ineligible"}
      /\ access_status \in {"active", "suspended"}
      /\ membership_checked_at \in 0..now
      /\ enabled \in [Clients -> BOOLEAN]
      /\ rejected \in BOOLEAN
  BY <1>2 DEF Init
<1>7. \A r \in Requests : requests[r].time <= now /\ requests[r].session <= sessions
  BY <1>1 DEF Init
<1>8. QED  BY <1>1, <1>2, <1>3, <1>4, <1>5, <1>6, <1>7 DEF TypeOK

LEMMA Empty ==
  ASSUME TypeOK
  PROVE  /\ NoSession \in [hash : 0..sessions, expires : 0..(now + Day),
                           row : 0..sessions]
         /\ NoToken \in [code : Nat, source : 0..sessions,
                         expires : 0..(now + Day), row : Nat]
BY BoundsAssumption, TimesAssumption DEF TypeOK, NoSession, NoToken

LEMMA TypeStutter == ASSUME TypeOK, UNCHANGED vars PROVE TypeOK'
BY DEF TypeOK, vars, account

(* What is bounded by the number of sessions stays so when it grows. *)
LEMMA TypeLogin ==
  ASSUME TypeOK, NEW r \in Requests, FinishLogin(r)
  PROVE  TypeOK'
<1>0. /\ requests[r].time \in Nat /\ requests[r].time <= now
      /\ now \in Nat /\ sessions \in Nat
      /\ now' = now /\ UNCHANGED <<access_status, enabled, code, token, codes>>
      /\ End(r)
  BY BoundsAssumption DEF TypeOK, Request, FinishLogin
<1>1. CASE access_status = "suspended"
  <2>1. UNCHANGED <<membership_status, membership_checked_at, sessions,
                    session, rejected>>
    BY <1>1 DEF FinishLogin
  <2>2. sessions' \in 0..MaxSessions /\ sessions <= sessions'
    BY <2>1, <1>0 DEF TypeOK
  <2>3. QED  BY <1>0, <2>1, <2>2, EndTyped DEF TypeOK
<1>2. CASE access_status = "active"
  <2>1. /\ sessions < MaxSessions /\ sessions' = sessions + 1
        /\ membership_status' = "eligible"
        /\ membership_checked_at' = requests[r].time
        /\ session' = SessionAfterLogin(sessions + 1, requests[r].time)
        /\ rejected' = FALSE
    BY <1>2 DEF FinishLogin
  <2>2. sessions' \in 0..MaxSessions /\ sessions <= sessions'
    BY <2>1, <1>0, BoundsAssumption DEF TypeOK
  <2>3. session' \in [hash : 0..sessions', expires : 0..(now' + Day),
                      row : 0..sessions']
    <3>1. session.row \in 0..sessions /\ session.hash \in Nat
      BY <1>0 DEF TypeOK
    <3>2. /\ sessions + 1 \in 0..sessions'
          /\ requests[r].time + Day \in 0..(now' + Day)
          /\ session.row \in 0..sessions'
      BY <1>0, <2>1, <3>1, TimesAssumption
    <3>3. QED  BY <2>1, <3>2 DEF SessionAfterLogin
  <2>4. 0..sessions \subseteq 0..sessions'
    BY <1>0, <2>1
  <2>5. /\ code' \in [Clients -> [hash : Nat, source : 0..sessions',
                          expires : 0..(now' + Minute), consumed : BOOLEAN]]
        /\ token' \in [Clients -> [code : Nat, source : 0..sessions',
                          expires : 0..(now' + Day), row : Nat]]
    <3>1. /\ code \in [Clients -> [hash : Nat, source : 0..sessions',
                          expires : 0..(now + Minute), consumed : BOOLEAN]]
      BY <2>4 DEF TypeOK
    <3>2. token \in [Clients -> [code : Nat, source : 0..sessions',
                          expires : 0..(now + Day), row : Nat]]
      BY <2>4 DEF TypeOK
    <3>3. QED  BY <1>0, <3>1, <3>2
  <2>6. membership_checked_at' \in 0..now'
    BY <1>0, <2>1
  <2>7. /\ requests' \in [Requests -> Request]
        /\ \A x \in Requests : /\ requests'[x].time <= now'
                               /\ requests'[x].session <= sessions'
    BY <1>0, <2>2, EndTyped
  <2>8. /\ now' \in 0..MaxTime /\ access_status' \in {"active", "suspended"}
        /\ membership_status' \in {"none", "eligible", "ineligible"}
        /\ enabled' \in [Clients -> BOOLEAN]
        /\ codes' \in [Clients -> 0..MaxCodes] /\ rejected' \in BOOLEAN
    BY <1>0, <2>1 DEF TypeOK
  <2>9. QED  BY <2>2, <2>3, <2>5, <2>6, <2>7, <2>8 DEF TypeOK
<1>3. QED  BY <1>1, <1>2 DEF FinishLogin

LEMMA TypeReject ==
  ASSUME TypeOK, NEW r \in Requests, FinishReject(r)
  PROVE  TypeOK'
<1>1. /\ requests[r].time \in 0..now /\ End(r)
      /\ UNCHANGED <<now, access_status, enabled, code, token, sessions, codes>>
      /\ rejected' = TRUE
  BY BoundsAssumption DEF TypeOK, Request, FinishReject
<1>2. /\ membership_status' \in {"none", "eligible", "ineligible"}
      /\ membership_checked_at' \in 0..now
  BY <1>1 DEF FinishReject, StatusAfterReject, TypeOK
<1>3. session' \in [hash : 0..sessions, expires : 0..(now + Day),
                    row : 0..sessions]
  BY Empty DEF FinishReject, TypeOK
<1>4. sessions' \in 0..MaxSessions /\ sessions <= sessions'
  BY <1>1, BoundsAssumption DEF TypeOK
<1>5. /\ requests' \in [Requests -> Request]
      /\ \A x \in Requests : /\ requests'[x].time <= now'
                             /\ requests'[x].session <= sessions'
  BY <1>1, <1>4, EndTyped
<1>6. QED  BY <1>1, <1>2, <1>3, <1>5 DEF TypeOK

LEMMA TypeFinishIssue ==
  ASSUME TypeOK, NEW r \in Requests, FinishIssue(r)
  PROVE  TypeOK'
<1> DEFINE q == requests[r]
           c == q.client
<1>1. /\ c \in Clients /\ q.time \in Nat /\ q.time <= now /\ q.session \in Nat
      /\ q.session <= sessions /\ now \in Nat /\ sessions \in Nat
      /\ codes[c] \in Nat /\ codes[c] < MaxCodes
  BY BoundsAssumption DEF TypeOK, Request, FinishIssue
<1>2. /\ End(r)
      /\ UNCHANGED <<now, membership_status, access_status,
           membership_checked_at, session, enabled, token, sessions, rejected>>
      /\ codes' = [codes EXCEPT ![c] = codes[c] + 1]
      /\ code' = [code EXCEPT ![c] =
           [hash |-> codes[c] + 1, source |-> q.session,
            expires |-> q.time + Minute, consumed |-> FALSE]]
  BY DEF FinishIssue, account
<1>3. [hash |-> codes[c] + 1, source |-> q.session,
       expires |-> q.time + Minute, consumed |-> FALSE]
        \in [hash : Nat, source : 0..sessions, expires : 0..(now + Minute),
             consumed : BOOLEAN]
  BY <1>1, TimesAssumption
<1>4. code' \in [Clients -> [hash : Nat, source : 0..sessions,
                    expires : 0..(now + Minute), consumed : BOOLEAN]]
  BY <1>2, <1>3 DEF TypeOK
<1>5. codes' \in [Clients -> 0..MaxCodes]
  BY <1>1, <1>2, BoundsAssumption DEF TypeOK
<1>6. sessions' \in 0..MaxSessions /\ sessions <= sessions'
  BY <1>1, <1>2 DEF TypeOK
<1>7. /\ requests' \in [Requests -> Request]
      /\ \A x \in Requests : /\ requests'[x].time <= now'
                             /\ requests'[x].session <= sessions'
  BY <1>2, <1>6, EndTyped
<1>8. QED  BY <1>2, <1>4, <1>5, <1>7 DEF TypeOK

LEMMA TypeBeginExchange ==
  ASSUME TypeOK, NEW r \in Requests, NEW c \in Clients, BeginExchange(r, c)
  PROVE  TypeOK'
<1>1. PICK h \in 1..codes[c] : Begin(r, [NoRequest EXCEPT
        !.op = "exchange", !.client = c, !.time = now, !.code = h,
        !.known = enabled[c],
        !.session = IF SignedIn(now) THEN session.hash ELSE 0,
        !.expires = IF SignedIn(now) THEN session.expires ELSE 0])
  BY DEF BeginExchange
<1> DEFINE q == [NoRequest EXCEPT
        !.op = "exchange", !.client = c, !.time = now, !.code = h,
        !.known = enabled[c],
        !.session = IF SignedIn(now) THEN session.hash ELSE 0,
        !.expires = IF SignedIn(now) THEN session.expires ELSE 0]
<1>2. /\ now \in Nat /\ h \in Nat /\ enabled[c] \in BOOLEAN /\ sessions \in Nat
      /\ session.hash \in 0..sessions /\ session.expires \in Nat
  BY BoundsAssumption, TimesAssumption DEF TypeOK
<1>3. q \in Request /\ q.time <= now /\ q.session <= sessions
  <2>2. (IF SignedIn(now) THEN session.hash ELSE 0) \in 0..sessions
    BY <1>2
  <2>3. (IF SignedIn(now) THEN session.expires ELSE 0) \in Nat
    BY <1>2
  <2> DEFINE p(hash, expires) == [NoRequest EXCEPT
        !.op = "exchange", !.client = c, !.time = now, !.code = h,
        !.known = enabled[c], !.session = hash, !.expires = expires]
  <2>4. ASSUME NEW hash \in 0..sessions, NEW expires \in Nat
        PROVE  /\ p(hash, expires) \in Request
               /\ p(hash, expires).time <= now
               /\ p(hash, expires).session <= sessions
    <3>0. hash \in Nat  BY <1>2
    <3>1. p(hash, expires) \in Request
      BY <1>2, <3>0, NoRequestTyped DEF Request
    <3>2. p(hash, expires).time <= now
      BY <1>2, NoRequestTyped DEF Request
    <3>3. p(hash, expires).session = hash
      BY NoRequestTyped DEF Request
    <3>4. hash <= sessions  BY <1>2
    <3>5. QED  BY <3>1, <3>2, <3>3, <3>4
  <2>5. QED  BY <2>2, <2>3, <2>4
<1>4. QED  BY <1>1, <1>3, BeginTyped

LEMMA TypeBegin ==
  ASSUME TypeOK, NEW r \in Requests,
         \/ BeginLogin(r) \/ BeginReject(r)
         \/ \E c \in Clients : BeginIssue(r, c) \/ BeginExchange(r, c)
  PROVE  TypeOK'
<1>0. /\ now \in Nat /\ sessions \in Nat /\ session.hash \in 0..sessions
      /\ session.hash \in Nat /\ session.row \in Nat
  BY BoundsAssumption DEF TypeOK
<1>1. CASE BeginLogin(r)
  <2> DEFINE q == [NoRequest EXCEPT !.op = "login", !.time = now]
  <2>1. q \in Request  BY <1>0, NoRequestTyped DEF Request
  <2>2. q.time <= now  BY <1>0, NoRequestTyped DEF Request
  <2>3. q.session <= sessions  BY <1>0, NoRequestTyped DEF Request
  <2>4. QED  BY <1>1, <2>1, <2>2, <2>3, BeginTyped DEF BeginLogin
<1>2. CASE BeginReject(r)
  <2> DEFINE q == [NoRequest EXCEPT !.op = "reject", !.time = now,
                                    !.row = session.row]
  <2>1. q \in Request  BY <1>0, NoRequestTyped DEF Request
  <2>2. q.time <= now  BY <1>0, NoRequestTyped DEF Request
  <2>3. q.session <= sessions  BY <1>0, NoRequestTyped DEF Request
  <2>4. QED  BY <1>2, <2>1, <2>2, <2>3, BeginTyped DEF BeginReject
<1>3. CASE \E c \in Clients : BeginIssue(r, c)
  <2>1. PICK c \in Clients : BeginIssue(r, c)  BY <1>3
  <2> DEFINE q == [NoRequest EXCEPT !.op = "issue", !.client = c, !.time = now,
                                    !.session = session.hash]
  <2>2. q \in Request  BY <1>0, NoRequestTyped DEF Request
  <2>3. q.time <= now  BY <1>0, NoRequestTyped DEF Request
  <2>4. q.session = session.hash /\ session.hash <= sessions
    <3>1. q.session = session.hash  BY NoRequestTyped DEF Request
    <3>2. QED  BY <1>0, <3>1
  <2>5. QED  BY <2>1, <2>2, <2>3, <2>4, BeginTyped DEF BeginIssue
<1>4. QED  BY <1>1, <1>2, <1>3, TypeBeginExchange

LEMMA TypeConsumed ==
  ASSUME TypeOK, NEW c \in Clients
  PROVE  Consumed(c) \in [Clients -> [hash : Nat, source : 0..sessions,
                            expires : 0..(now + Minute), consumed : BOOLEAN]]
BY DEF TypeOK, Consumed

LEMMA TypeRedeem ==
  ASSUME TypeOK, NEW r \in Requests, Redeem(r)
  PROVE  TypeOK'
<1> DEFINE q == requests[r]
           c == q.client
           new == [code |-> q.code, source |-> code[c].source,
                   expires |-> TokenExpiry(q),
                   row |-> IF token[c].code = 0 THEN q.code ELSE token[c].row]
<1>1. /\ c \in Clients /\ q.time \in Nat /\ q.time <= now /\ q.expires \in Nat
      /\ q.code \in Nat /\ now \in Nat /\ sessions \in Nat
      /\ token[c].row \in Nat /\ code[c].source \in 0..sessions
  BY BoundsAssumption DEF TypeOK, Request
<1>2. /\ End(r)
      /\ UNCHANGED <<now, membership_status, access_status,
           membership_checked_at, session, enabled, sessions, codes, rejected>>
      /\ code' = Consumed(c)
      /\ token' = [token EXCEPT ![c] = new]
  BY DEF Redeem, account
<1>3. TokenExpiry(q) \in 0..(now + Day)
  BY <1>1, TimesAssumption DEF TokenExpiry
<1>4. new \in [code : Nat, source : 0..sessions, expires : 0..(now + Day),
               row : Nat]
  BY <1>1, <1>3
<1>5. token' \in [Clients -> [code : Nat, source : 0..sessions,
                              expires : 0..(now + Day), row : Nat]]
  BY <1>2, <1>4 DEF TypeOK
<1>6. sessions' \in 0..MaxSessions /\ sessions <= sessions'
  BY <1>1, <1>2 DEF TypeOK
<1>7. /\ requests' \in [Requests -> Request]
      /\ \A x \in Requests : /\ requests'[x].time <= now'
                             /\ requests'[x].session <= sessions'
  BY <1>2, <1>6, EndTyped
<1>8. QED  BY <1>1, <1>2, <1>5, <1>7, TypeConsumed DEF TypeOK

(* The three steps of a refused exchange; each keeps the request's client. *)
LEMMA TypeRefused ==
  ASSUME TypeOK, NEW r \in Requests,
         Refuse(r) \/ BeginRevocation(r) \/ FinishRevocation(r)
  PROVE  TypeOK'
<1> DEFINE q == requests[r]
           c == q.client
<1>1. /\ q \in Request /\ c \in Clients /\ q.time <= now /\ q.session <= sessions
      /\ now \in Nat /\ sessions \in Nat /\ token[c].row \in Nat
      /\ token[c].code \in Nat
  BY BoundsAssumption DEF TypeOK, Request
<1>2. /\ UNCHANGED <<now, membership_status, access_status,
           membership_checked_at, session, enabled, sessions, codes, rejected>>
      /\ sessions' \in 0..MaxSessions /\ sessions <= sessions'
  BY <1>1 DEF Refuse, BeginRevocation, FinishRevocation, account, TypeOK
<1>3. code' \in [Clients -> [hash : Nat, source : 0..sessions,
                    expires : 0..(now + Minute), consumed : BOOLEAN]]
  BY <1>1, TypeConsumed DEF Refuse, BeginRevocation, FinishRevocation, TypeOK
<1>4. token' \in [Clients -> [code : Nat, source : 0..sessions,
                              expires : 0..(now + Day), row : Nat]]
  BY <1>1, Empty DEF Refuse, BeginRevocation, FinishRevocation, TypeOK
<1>5. Answered(q) \in Request /\ Answered(q).time <= now
      /\ Answered(q).session <= sessions
  BY <1>1 DEF Answered, Request
<1>6. \E p \in Request : /\ requests' = [requests EXCEPT ![r] = p]
                         /\ p.time <= now /\ p.session <= sessions
  <2>1. CASE Refuse(r)
    <3> DEFINE p == [NoRequest EXCEPT !.op = "refused", !.client = c,
                       !.code = q.code, !.replay = token[c].code = q.code]
    <3>1. p \in Request /\ p.time <= now /\ p.session <= sessions
      <4>1. ASSUME NEW b \in BOOLEAN
            PROVE  [NoRequest EXCEPT !.op = "refused", !.client = c,
                      !.code = q.code, !.replay = b] \in Request
        BY <1>1, NoRequestTyped DEF Request
      <4>2. (token[c].code = q.code) \in BOOLEAN  OBVIOUS
      <4>3. p \in Request  BY <4>1, <4>2
      <4>4. p.time <= now  BY <1>1, NoRequestTyped DEF Request
      <4>5. p.session <= sessions  BY <1>1, NoRequestTyped DEF Request
      <4>6. QED  BY <4>3, <4>4, <4>5
    <3>2. requests' = [requests EXCEPT ![r] = p]  BY <2>1 DEF Refuse
    <3>3. QED  BY <3>1, <3>2
  <2>2. CASE BeginRevocation(r)
    <3> DEFINE p == IF SeenConsumed(q)
                    THEN [q EXCEPT !.op = "revoking", !.row = token[c].row]
                    ELSE Answered(q)
    <3>1. p \in Request /\ p.time <= now /\ p.session <= sessions
      BY <1>1, <1>5 DEF Request
    <3>2. requests' = [requests EXCEPT ![r] = p]  BY <2>2 DEF BeginRevocation
    <3>3. QED  BY <3>1, <3>2
  <2>3. CASE FinishRevocation(r)
    BY <1>5, <2>3 DEF FinishRevocation
  <2>4. QED  BY <2>1, <2>2, <2>3
<1>7. /\ requests' \in [Requests -> Request]
      /\ \A x \in Requests : /\ requests'[x].time <= now'
                             /\ requests'[x].session <= sessions'
  BY <1>2, <1>6, RequestsTyped
<1>8. QED  BY <1>2, <1>3, <1>4, <1>7 DEF TypeOK

(* Steps of the maintainers, the browser and the clock. *)
LEMMA TypeOthers ==
  ASSUME TypeOK,
         \/ \E c \in Clients : Revoke(c) \/ SetEnabled(c)
         \/ RejectNothing \/ Logout
         \/ Suspend \/ EndSuspendedSession \/ Reinstate
  PROVE  TypeOK'
<1>1. CASE \E c \in Clients : Revoke(c)
  BY <1>1, Empty DEF Revoke, TypeOK, account
<1>2. CASE \E c \in Clients : SetEnabled(c)
  BY <1>2 DEF SetEnabled, TypeOK, account
<1>3. CASE Logout \/ EndSuspendedSession
  BY <1>3, Empty DEF Logout, EndSuspendedSession, TypeOK, account
<1>4. CASE RejectNothing \/ Suspend \/ Reinstate
  BY <1>4 DEF RejectNothing, Suspend, Reinstate, TypeOK, account
<1>5. QED  BY <1>1, <1>2, <1>3, <1>4

LEMMA TypeTick == ASSUME TypeOK, Tick PROVE TypeOK'
<1>1. /\ now \in Nat /\ now' = now + 1 /\ now' \in 0..MaxTime
      /\ 0..(now + Day) \subseteq 0..(now' + Day)
      /\ 0..(now + Minute) \subseteq 0..(now' + Minute)
      /\ 0..now \subseteq 0..now'
  BY BoundsAssumption, TimesAssumption DEF TypeOK, Tick
<1>2. UNCHANGED <<membership_status, access_status, membership_checked_at,
        session, enabled, code, token, sessions, codes, requests, rejected>>
  BY DEF Tick, account
<1>3. session \in [hash : 0..sessions, expires : 0..(now' + Day),
                   row : 0..sessions]
  BY <1>1 DEF TypeOK
<1>4. code \in [Clients -> [hash : Nat, source : 0..sessions,
                            expires : 0..(now' + Minute), consumed : BOOLEAN]]
  BY <1>1 DEF TypeOK
<1>5. token \in [Clients -> [code : Nat, source : 0..sessions,
                             expires : 0..(now' + Day), row : Nat]]
  BY <1>1 DEF TypeOK
<1>6. \A r \in Requests : requests[r].time <= now'
  <2>1. SUFFICES ASSUME NEW r \in Requests PROVE requests[r].time <= now'
    OBVIOUS
  <2>2. requests[r].time \in Nat /\ requests[r].time <= now
    BY DEF TypeOK, Request
  <2>3. QED  BY <1>1, <2>2
<1>7. QED  BY <1>1, <1>2, <1>3, <1>4, <1>5, <1>6 DEF TypeOK

LEMMA TypeEnd ==
  ASSUME TypeOK, NEW r \in Requests, Abort(r) \/ Receive(r)
  PROVE  TypeOK'
<1>1. /\ End(r)
      /\ UNCHANGED <<now, membership_status, access_status,
           membership_checked_at, session, enabled, code, token, sessions,
           codes, rejected>>
  BY DEF Abort, Receive, account
<1>2. sessions' \in 0..MaxSessions /\ sessions <= sessions'
  BY <1>1, BoundsAssumption DEF TypeOK
<1>3. QED  BY <1>1, <1>2, EndTyped DEF TypeOK

LEMMA TypeStep == ASSUME TypeOK, [Next]_vars PROVE TypeOK'
BY TypeStutter, TypeLogin, TypeReject, TypeFinishIssue, TypeBegin, TypeRedeem,
   TypeRefused, TypeOthers, TypeTick, TypeEnd DEF Next

(* Types, and the lifetimes the CHECK constraints of the tables allow. *)
THEOREM TypeCorrect == Spec => []TypeOK
BY TypeInit, TypeStep, PTL DEF Spec

-----------------------------------------------------------------------------
(* What a step can do to a session, a token, a request. *)

LEMMA SessionMoves ==
  ASSUME TypeOK, [Next]_vars
  PROVE  \/ session' = session
         \/ session' = NoSession
         \/ \E r \in Requests :
              /\ FinishLogin(r) /\ access_status = "active"
              /\ session' = SessionAfterLogin(sessions + 1, requests[r].time)
<1>1. ASSUME NEW r \in Requests, FinishLogin(r)
      PROVE  \/ session' = session
             \/ /\ access_status = "active"
                /\ session' = SessionAfterLogin(sessions + 1, requests[r].time)
  BY <1>1 DEF FinishLogin
<1>2. ASSUME NEW r \in Requests, FinishReject(r)
      PROVE  session' = session \/ session' = NoSession
  BY <1>2 DEF FinishReject
<1>3. ASSUME Logout \/ EndSuspendedSession PROVE session' = NoSession
  BY <1>3 DEF Logout, EndSuspendedSession
<1>4. ASSUME NEW r \in Requests,
             \/ Abort(r) \/ BeginLogin(r) \/ BeginReject(r) \/ FinishIssue(r)
             \/ \E c \in Clients : BeginIssue(r, c) \/ BeginExchange(r, c)
             \/ Redeem(r) \/ Refuse(r) \/ Receive(r)
             \/ BeginRevocation(r) \/ FinishRevocation(r)
      PROVE  session' = session
  BY <1>4 DEF Abort, BeginLogin, BeginReject, FinishIssue, BeginIssue,
       BeginExchange, Redeem, Refuse, Receive, BeginRevocation,
       FinishRevocation, Begin
<1>5. ASSUME \/ \E c \in Clients : Revoke(c) \/ SetEnabled(c)
             \/ RejectNothing \/ Suspend \/ Reinstate \/ Tick \/ UNCHANGED vars
      PROVE  session' = session
  BY <1>5 DEF Revoke, SetEnabled, RejectNothing, Suspend, Reinstate, Tick, vars
<1>6. QED  BY <1>1, <1>2, <1>3, <1>4, <1>5 DEF Next

LEMMA TokenMoves ==
  ASSUME TypeOK, [Next]_vars, NEW c \in Clients
  PROVE  \/ token'[c] = token[c]
         \/ token'[c] = NoToken
         \/ \E r \in Requests : Redeem(r) /\ requests[r].client = c
<1>0. /\ DOMAIN token = Clients
      /\ \A r \in Requests : requests[r].client \in Clients
  BY DEF TypeOK, Request
<1>1. ASSUME NEW r \in Requests, Redeem(r), requests[r].client # c
      PROVE  token'[c] = token[c]
  BY <1>0, <1>1 DEF Redeem
<1>2. ASSUME NEW r \in Requests, FinishRevocation(r)
      PROVE  token'[c] = token[c] \/ token'[c] = NoToken
  BY <1>0, <1>2 DEF FinishRevocation
<1>3. ASSUME NEW d \in Clients, Revoke(d)
      PROVE  token'[c] = token[c] \/ token'[c] = NoToken
  BY <1>0, <1>3 DEF Revoke
<1>4. ASSUME NEW r \in Requests,
             \/ Abort(r) \/ BeginLogin(r) \/ BeginReject(r) \/ FinishIssue(r)
             \/ \E d \in Clients : BeginIssue(r, d) \/ BeginExchange(r, d)
             \/ Refuse(r) \/ Receive(r) \/ BeginRevocation(r)
             \/ FinishLogin(r) \/ FinishReject(r)
      PROVE  token' = token
  BY <1>4 DEF Abort, BeginLogin, BeginReject, FinishIssue, BeginIssue,
       BeginExchange, Refuse, Receive, BeginRevocation, Begin, FinishLogin,
       FinishReject
<1>5. ASSUME \/ \E d \in Clients : SetEnabled(d)
             \/ RejectNothing \/ Logout \/ Suspend \/ EndSuspendedSession
             \/ Reinstate \/ Tick \/ UNCHANGED vars
      PROVE  token' = token
  BY <1>5 DEF SetEnabled, RejectNothing, Logout, Suspend, EndSuspendedSession,
       Reinstate, Tick, vars
<1>6. QED  BY <1>1, <1>2, <1>3, <1>4, <1>5 DEF Next

(* The token a purchase makes. *)
LEMMA TokenBought ==
  ASSUME TypeOK, NEW r \in Requests, Redeem(r)
  PROVE  LET q == requests[r]  c == q.client IN
         /\ q.op = "exchange" /\ c \in Clients
         /\ q.session # 0 /\ Redeemable(q)
         /\ token'[c].code = q.code
         /\ token'[c].source = q.session
         /\ token'[c].expires = TokenExpiry(q)
         /\ code'[c].hash = code[c].hash /\ code'[c].consumed
         /\ UNCHANGED session
<1>1. requests[r].client \in Clients  BY DEF TypeOK, Request
<1>2. QED  BY <1>1 DEF Redeem, SourceVerified, Consumed, TypeOK

LEMMA OneRequestMoves ==
  ASSUME TypeOK, [Next]_vars, NEW x \in Requests
  PROVE  \/ requests'[x] = requests[x]
         \/ requests'[x].op \in {"none", "login", "reject", "issue"}
         \/ \E c \in Clients : BeginExchange(x, c)
         \/ Refuse(x) \/ BeginRevocation(x) \/ FinishRevocation(x)
<1>0. DOMAIN requests = Requests /\ NoRequest \in Request
      /\ NoRequest.op = "none"
  BY NoRequestTyped DEF TypeOK
<1>1. ASSUME NEW r \in Requests,
             \/ Abort(r) \/ FinishLogin(r) \/ FinishReject(r)
             \/ FinishIssue(r) \/ Redeem(r) \/ Receive(r)
      PROVE  requests'[x] = requests[x] \/ requests'[x].op = "none"
  BY <1>0, <1>1 DEF Abort, FinishLogin, FinishReject, FinishIssue, Redeem,
       Receive, End
<1>2. ASSUME NEW r \in Requests, NEW q, Begin(r, q)
      PROVE  requests'[x] = requests[x] \/ (x = r /\ requests'[x] = q)
  BY <1>0, <1>2 DEF Begin
<1>3. ASSUME NEW r \in Requests,
             \/ BeginLogin(r) \/ BeginReject(r)
             \/ \E c \in Clients : BeginIssue(r, c)
      PROVE  \/ requests'[x] = requests[x]
             \/ requests'[x].op \in {"login", "reject", "issue"}
  <2>1. CASE BeginLogin(r)
    <3> DEFINE q == [NoRequest EXCEPT !.op = "login", !.time = now]
    <3>1. Begin(r, q)  BY <2>1 DEF BeginLogin
    <3>2. q.op = "login"  BY <1>0 DEF Request
    <3>3. QED  BY <1>2, <3>1, <3>2
  <2>2. CASE BeginReject(r)
    <3> DEFINE q == [NoRequest EXCEPT !.op = "reject", !.time = now,
                                      !.row = session.row]
    <3>0. Begin(r, q)  BY <2>2 DEF BeginReject
    <3>1. requests'[x] = requests[x] \/ requests'[x] = q
      BY <1>2, <3>0
    <3>2. q.op = "reject"  BY <1>0 DEF Request
    <3>3. QED  BY <3>1, <3>2
  <2>3. CASE \E c \in Clients : BeginIssue(r, c)
    <3>1. PICK c \in Clients : BeginIssue(r, c)  BY <2>3
    <3> DEFINE q == [NoRequest EXCEPT !.op = "issue", !.client = c,
                                !.time = now, !.session = session.hash]
    <3>2. requests'[x] = requests[x] \/ requests'[x] = q
      BY <1>2, <3>1 DEF BeginIssue
    <3>3. q.op = "issue"  BY <1>0 DEF Request
    <3>4. QED  BY <3>2, <3>3
  <2>4. QED  BY <1>3, <2>1, <2>2, <2>3
<1>4. ASSUME NEW r \in Requests, NEW c \in Clients, BeginExchange(r, c)
      PROVE  requests'[x] = requests[x] \/ x = r
  BY <1>2, <1>4 DEF BeginExchange
<1>5. ASSUME NEW r \in Requests,
             Refuse(r) \/ BeginRevocation(r) \/ FinishRevocation(r)
      PROVE  requests'[x] = requests[x] \/ x = r
  BY <1>0, <1>5 DEF Refuse, BeginRevocation, FinishRevocation
<1>6. ASSUME \/ \E c \in Clients : Revoke(c) \/ SetEnabled(c)
             \/ RejectNothing \/ Logout \/ Suspend \/ EndSuspendedSession
             \/ Reinstate \/ Tick \/ UNCHANGED vars
      PROVE  requests' = requests
  BY <1>6 DEF Revoke, SetEnabled, RejectNothing, Logout, Suspend,
       EndSuspendedSession, Reinstate, Tick, vars
<1>7. QED  BY <1>1, <1>3, <1>4, <1>5, <1>6 DEF Next

(* A request begun as an exchange holds the session its snapshot verified. *)
LEMMA ExchangeBegun ==
  ASSUME TypeOK, NEW r \in Requests, NEW c \in Clients, BeginExchange(r, c)
  PROVE  /\ requests'[r].op = "exchange" /\ requests'[r].client = c
         /\ requests'[r].code \in 1..codes[c]
         /\ requests'[r].session = IF SignedIn(now) THEN session.hash ELSE 0
         /\ requests'[r].expires = IF SignedIn(now) THEN session.expires ELSE 0
         /\ UNCHANGED <<session, code, token, codes>>
<1>0. DOMAIN requests = Requests  BY DEF TypeOK
<1> DEFINE q(h) == [NoRequest EXCEPT
        !.op = "exchange", !.client = c, !.time = now, !.code = h,
        !.known = enabled[c],
        !.session = IF SignedIn(now) THEN session.hash ELSE 0,
        !.expires = IF SignedIn(now) THEN session.expires ELSE 0]
<1>1. PICK h \in 1..codes[c] : Begin(r, q(h))
  BY DEF BeginExchange
<1>2. requests'[r] = q(h) /\ UNCHANGED <<session, code, token, codes>>
  BY <1>0, <1>1 DEF Begin
<1>3. /\ q(h).op = "exchange" /\ q(h).client = c /\ q(h).code = h
      /\ q(h).session = IF SignedIn(now) THEN session.hash ELSE 0
      /\ q(h).expires = IF SignedIn(now) THEN session.expires ELSE 0
  BY NoRequestTyped DEF Request
<1>4. QED  BY <1>1, <1>2, <1>3

-----------------------------------------------------------------------------
(* Sessions: the inductive invariant beside the types. *)

SourcedTokens == \A c \in Clients : token[c].code # 0 => token[c].source # 0

(* An exchange that verified the present session knows when it expires. *)
SnapshotExpiry == \A r \in Requests :
  LET q == requests[r] IN
  q.op = "exchange" /\ q.session # 0 /\ q.session = session.hash
    => q.expires = session.expires

(* What makes a rejection last: an account that is not eligible, or is      *)
(* suspended, or has no session.                                            *)
RejectionHolds ==
  rejected => \/ membership_status # "eligible"
              \/ access_status = "suspended"
              \/ session.hash = 0

SessionInv ==
  /\ TypeOK
  /\ SourcedTokens
  /\ SnapshotExpiry
  /\ TokenWithinSession
  /\ MembershipWindowIsSession
  /\ RejectionHolds

LEMMA SessionInit == ASSUME Init PROVE SessionInv
<1>1. TypeOK  BY TypeInit
<1>2. SourcedTokens /\ TokenWithinSession
  BY DEF Init, NoToken, SourcedTokens, TokenWithinSession
<1>3. SnapshotExpiry  BY NoRequestTyped DEF Init, SnapshotExpiry
<1>4. MembershipWindowIsSession /\ RejectionHolds
  BY DEF Init, MembershipWindowIsSession, RejectionHolds
<1>5. QED  BY <1>1, <1>2, <1>3, <1>4 DEF SessionInv

(* A sign-in writes a hash no token and no request has seen. *)
LEMMA LoginIsFresh ==
  ASSUME TypeOK, NEW r \in Requests, FinishLogin(r),
         session' = SessionAfterLogin(sessions + 1, requests[r].time)
  PROVE  /\ session'.hash # 0
         /\ session'.expires = requests[r].time + Day
         /\ \A c \in Clients : token[c].source # session'.hash
         /\ \A x \in Requests : requests[x].session # session'.hash
<1>1. sessions \in Nat  BY BoundsAssumption DEF TypeOK
<1>2. session'.hash = sessions + 1 /\ session'.expires = requests[r].time + Day
  BY DEF SessionAfterLogin
<1>3. \A c \in Clients : token[c].source \in 0..sessions  BY DEF TypeOK
<1>4. \A x \in Requests : requests[x].session \in Nat
                          /\ requests[x].session <= sessions
  BY DEF TypeOK, Request
<1>5. QED  BY <1>1, <1>2, <1>3, <1>4

LEMMA SourcedTokensStep ==
  ASSUME TypeOK, SourcedTokens, [Next]_vars
  PROVE  SourcedTokens'
<1> SUFFICES ASSUME NEW c \in Clients, token'[c].code # 0
             PROVE  token'[c].source # 0
  BY DEF SourcedTokens
<1>1. CASE token'[c] = token[c]  BY <1>1 DEF SourcedTokens
<1>2. CASE token'[c] = NoToken  BY <1>2 DEF NoToken
<1>3. CASE \E r \in Requests : Redeem(r) /\ requests[r].client = c
  BY <1>3, TokenBought
<1>4. QED  BY <1>1, <1>2, <1>3, TokenMoves

LEMMA SnapshotExpiryStep ==
  ASSUME TypeOK, SnapshotExpiry, [Next]_vars
  PROVE  SnapshotExpiry'
<1> SUFFICES ASSUME NEW x \in Requests, requests'[x].op = "exchange",
                    requests'[x].session # 0,
                    requests'[x].session = session'.hash
             PROVE  requests'[x].expires = session'.expires
  BY DEF SnapshotExpiry
<1>1. CASE requests'[x] = requests[x]
  <2>1. CASE session' = session  BY <1>1, <2>1 DEF SnapshotExpiry
  <2>2. CASE session' = NoSession  BY <2>2 DEF NoSession
  <2>3. CASE \E r \in Requests :
               /\ FinishLogin(r)
               /\ session' = SessionAfterLogin(sessions + 1, requests[r].time)
    BY <1>1, <2>3, LoginIsFresh
  <2>4. QED  BY <2>1, <2>2, <2>3, SessionMoves
<1>2. CASE \E c \in Clients : BeginExchange(x, c)
  BY <1>2, ExchangeBegun
<1>3. CASE Refuse(x) \/ BeginRevocation(x) \/ FinishRevocation(x)
  <2>1. requests'[x].op \in {"refused", "revoking", "answered"}
    <3>1. DOMAIN requests = Requests /\ requests[x] \in Request
          /\ NoRequest \in Request
      BY NoRequestTyped DEF TypeOK
    <3>2. QED  BY <1>3, <3>1 DEF Refuse, BeginRevocation, FinishRevocation,
                                 Answered, Request
  <2>2. QED  BY <2>1
<1>4. QED  BY <1>1, <1>2, <1>3, OneRequestMoves

LEMMA TokenWithinSessionStep ==
  ASSUME SessionInv, [Next]_vars
  PROVE  TokenWithinSession'
<1>0. TypeOK /\ SourcedTokens /\ SnapshotExpiry /\ TokenWithinSession
  BY DEF SessionInv
<1> SUFFICES ASSUME NEW c \in Clients, token'[c].code # 0,
                    token'[c].source = session'.hash
             PROVE  token'[c].expires <= session'.expires
  BY DEF TokenWithinSession
<1>1. CASE token'[c] = token[c]
  <2>1. CASE session' = session
    BY <1>0, <1>1, <2>1 DEF TokenWithinSession
  <2>2. CASE session' = NoSession
    BY <1>0, <1>1, <2>2 DEF NoSession, SourcedTokens
  <2>3. CASE \E r \in Requests :
               /\ FinishLogin(r)
               /\ session' = SessionAfterLogin(sessions + 1, requests[r].time)
    BY <1>0, <1>1, <2>3, LoginIsFresh
  <2>4. QED  BY <1>0, <2>1, <2>2, <2>3, SessionMoves
<1>2. CASE token'[c] = NoToken  BY <1>2 DEF NoToken
<1>3. CASE \E r \in Requests : Redeem(r) /\ requests[r].client = c
  <2>1. PICK r \in Requests : Redeem(r) /\ requests[r].client = c  BY <1>3
  <2>2. /\ requests[r].op = "exchange" /\ requests[r].session # 0
        /\ requests[r].session = session.hash
        /\ token'[c].expires = TokenExpiry(requests[r])
        /\ session' = session
    BY <1>0, <2>1, TokenBought
  <2>3. requests[r].expires = session.expires
    BY <1>0, <2>2 DEF SnapshotExpiry
  <2>4. /\ requests[r].expires \in Nat /\ requests[r].time \in Nat
        /\ Day \in Nat
    BY <1>0, TimesAssumption DEF TypeOK, Request
  <2>5. QED  BY <2>2, <2>3, <2>4 DEF TokenExpiry
<1>4. QED  BY <1>0, <1>1, <1>2, <1>3, TokenMoves

(* Only a sign-in makes an account eligible, and it dates the session too. *)
LEMMA MembershipMoves ==
  ASSUME TypeOK, [Next]_vars
  PROVE  \/ UNCHANGED <<membership_status, membership_checked_at>>
         \/ membership_status' = "ineligible"
         \/ \E r \in Requests :
              /\ FinishLogin(r) /\ access_status = "active"
              /\ membership_status' = "eligible"
              /\ membership_checked_at' = requests[r].time
              /\ session' = SessionAfterLogin(sessions + 1, requests[r].time)
<1>1. ASSUME NEW r \in Requests, FinishLogin(r)
      PROVE  \/ UNCHANGED <<membership_status, membership_checked_at>>
             \/ /\ access_status = "active"
                /\ membership_status' = "eligible"
                /\ membership_checked_at' = requests[r].time
                /\ session' = SessionAfterLogin(sessions + 1, requests[r].time)
  BY <1>1 DEF FinishLogin
<1>2. ASSUME NEW r \in Requests, FinishReject(r)
      PROVE  \/ UNCHANGED <<membership_status, membership_checked_at>>
             \/ membership_status' = "ineligible"
  BY <1>2 DEF FinishReject, StatusAfterReject
<1>3. ASSUME NEW r \in Requests,
             \/ Abort(r) \/ BeginLogin(r) \/ BeginReject(r) \/ FinishIssue(r)
             \/ \E c \in Clients : BeginIssue(r, c) \/ BeginExchange(r, c)
             \/ Redeem(r) \/ Refuse(r) \/ Receive(r)
             \/ BeginRevocation(r) \/ FinishRevocation(r)
      PROVE  UNCHANGED <<membership_status, membership_checked_at>>
  BY <1>3 DEF Abort, BeginLogin, BeginReject, FinishIssue, BeginIssue,
       BeginExchange, Redeem, Refuse, Receive, BeginRevocation,
       FinishRevocation, Begin, account
<1>4. ASSUME \/ \E c \in Clients : Revoke(c) \/ SetEnabled(c)
             \/ RejectNothing \/ Logout \/ Suspend \/ EndSuspendedSession
             \/ Reinstate \/ Tick \/ UNCHANGED vars
      PROVE  UNCHANGED <<membership_status, membership_checked_at>>
  BY <1>4 DEF Revoke, SetEnabled, RejectNothing, Logout, Suspend,
       EndSuspendedSession, Reinstate, Tick, vars, account
<1>5. QED  BY <1>1, <1>2, <1>3, <1>4 DEF Next

LEMMA MembershipWindowStep ==
  ASSUME TypeOK, MembershipWindowIsSession, [Next]_vars
  PROVE  MembershipWindowIsSession'
<1>1. CASE membership_status' = "ineligible"
  BY <1>1 DEF MembershipWindowIsSession
<1>2. CASE \E r \in Requests :
             /\ FinishLogin(r)
             /\ membership_checked_at' = requests[r].time
             /\ session' = SessionAfterLogin(sessions + 1, requests[r].time)
  BY <1>2, LoginIsFresh DEF MembershipWindowIsSession
<1>3. CASE UNCHANGED <<membership_status, membership_checked_at>>
  <2>1. CASE session' = session
    BY <1>3, <2>1 DEF MembershipWindowIsSession
  <2>2. CASE session' = NoSession
    BY <2>2 DEF NoSession, MembershipWindowIsSession
  <2>3. CASE \E r \in Requests :
               /\ FinishLogin(r) /\ access_status = "active"
               /\ session' = SessionAfterLogin(sessions + 1, requests[r].time)
    <3>1. PICK r \in Requests : FinishLogin(r) /\ access_status = "active"
                /\ session' = SessionAfterLogin(sessions + 1, requests[r].time)
      BY <2>3
    <3>2. membership_checked_at' = requests[r].time  BY <3>1 DEF FinishLogin
    <3>3. QED  BY <3>1, <3>2, LoginIsFresh DEF MembershipWindowIsSession
  <2>4. QED  BY <2>1, <2>2, <2>3, SessionMoves
<1>4. QED  BY <1>1, <1>2, <1>3, MembershipMoves

LEMMA RejectionHoldsStep ==
  ASSUME TypeOK, RejectionHolds, [Next]_vars
  PROVE  RejectionHolds'
<1>1. ASSUME NEW r \in Requests, FinishLogin(r)
      PROVE  RejectionHolds'
  BY <1>1 DEF FinishLogin, RejectionHolds
<1>2. ASSUME NEW r \in Requests, FinishReject(r)
      PROVE  RejectionHolds'
  BY <1>2 DEF FinishReject, StatusAfterReject, RejectionHolds
<1>3. ASSUME NEW r \in Requests,
             \/ Abort(r) \/ BeginLogin(r) \/ BeginReject(r) \/ FinishIssue(r)
             \/ \E c \in Clients : BeginIssue(r, c) \/ BeginExchange(r, c)
             \/ Redeem(r) \/ Refuse(r) \/ Receive(r)
             \/ BeginRevocation(r) \/ FinishRevocation(r)
      PROVE  RejectionHolds'
  BY <1>3 DEF Abort, BeginLogin, BeginReject, FinishIssue, BeginIssue,
       BeginExchange, Redeem, Refuse, Receive, BeginRevocation,
       FinishRevocation, Begin, account, RejectionHolds
<1>4. ASSUME \/ \E c \in Clients : Revoke(c) \/ SetEnabled(c)
             \/ Suspend \/ Tick \/ UNCHANGED vars
      PROVE  RejectionHolds'
  BY <1>4 DEF Revoke, SetEnabled, Suspend, Tick, vars, account, RejectionHolds
<1>5. ASSUME RejectNothing PROVE RejectionHolds'
  BY <1>5 DEF RejectNothing, account, RejectionHolds
<1>6. ASSUME Logout \/ EndSuspendedSession \/ Reinstate PROVE RejectionHolds'
  BY <1>6 DEF Logout, EndSuspendedSession, Reinstate, NoSession, account,
       RejectionHolds
<1>7. QED  BY <1>1, <1>2, <1>3, <1>4, <1>5, <1>6 DEF Next

LEMMA SessionStep == ASSUME SessionInv, [Next]_vars PROVE SessionInv'
<1>1. /\ TypeOK /\ SourcedTokens /\ SnapshotExpiry
      /\ MembershipWindowIsSession /\ RejectionHolds
  BY DEF SessionInv
<1>2. TypeOK'  BY <1>1, TypeStep
<1>3. SourcedTokens'  BY <1>1, SourcedTokensStep
<1>4. SnapshotExpiry'  BY <1>1, SnapshotExpiryStep
<1>5. TokenWithinSession'  BY TokenWithinSessionStep
<1>6. MembershipWindowIsSession'  BY <1>1, MembershipWindowStep
<1>7. RejectionHolds'  BY <1>1, RejectionHoldsStep
<1>8. QED  BY <1>2, <1>3, <1>4, <1>5, <1>6, <1>7 DEF SessionInv

\* What is known of sessions and tokens holds after any statements, in any order.
THEOREM SessionInvariant == Spec => []SessionInv
BY SessionInit, SessionStep, PTL DEF Spec

(* No token of the present sign-in outlives its session. *)
THEOREM TokensWithinSession == Spec => []TokenWithinSession
BY SessionInvariant, PTL DEF SessionInv

(* Session and membership check run out together. *)
THEOREM MembershipWindow == Spec => []MembershipWindowIsSession
BY SessionInvariant, PTL DEF SessionInv

(* After a confirmed rejection no token is active until a sign-in. *)
THEOREM RejectionIsFinal == Spec => []RejectionEndsAccess
<1>1. SessionInv => RejectionEndsAccess
  BY DEF SessionInv, RejectionHolds, RejectionEndsAccess, Active, SignedIn
<1>2. QED  BY <1>1, SessionInvariant, PTL

-----------------------------------------------------------------------------
(* Access that ended stays ended. *)

LEMMA AccessMoves ==
  ASSUME [Next]_vars
  PROVE  \/ access_status' = access_status
         \/ access_status' = "suspended"
         \/ session.hash = 0 /\ session' = session
<1>1. ASSUME NEW r \in Requests,
             \/ Abort(r) \/ BeginLogin(r) \/ BeginReject(r) \/ FinishIssue(r)
             \/ \E c \in Clients : BeginIssue(r, c) \/ BeginExchange(r, c)
             \/ Redeem(r) \/ Refuse(r) \/ Receive(r)
             \/ BeginRevocation(r) \/ FinishRevocation(r)
             \/ FinishLogin(r) \/ FinishReject(r)
      PROVE  access_status' = access_status
  BY <1>1 DEF Abort, BeginLogin, BeginReject, FinishIssue, BeginIssue,
       BeginExchange, Redeem, Refuse, Receive, BeginRevocation,
       FinishRevocation, Begin, FinishLogin, FinishReject, account
<1>2. ASSUME \/ \E c \in Clients : Revoke(c) \/ SetEnabled(c)
             \/ RejectNothing \/ Logout \/ EndSuspendedSession
             \/ Tick \/ UNCHANGED vars
      PROVE  access_status' = access_status
  BY <1>2 DEF Revoke, SetEnabled, RejectNothing, Logout, EndSuspendedSession,
       Tick, vars, account
<1>3. QED  BY <1>1, <1>2 DEF Next, Suspend, Reinstate

LEMMA ClockMoves ==
  ASSUME [Next]_vars
  PROVE  now' = now \/ now' = now + 1
<1>1. ASSUME NEW r \in Requests,
             \/ Abort(r) \/ BeginLogin(r) \/ BeginReject(r) \/ FinishIssue(r)
             \/ \E c \in Clients : BeginIssue(r, c) \/ BeginExchange(r, c)
             \/ Redeem(r) \/ Refuse(r) \/ Receive(r)
             \/ BeginRevocation(r) \/ FinishRevocation(r)
             \/ FinishLogin(r) \/ FinishReject(r)
      PROVE  now' = now
  BY <1>1 DEF Abort, BeginLogin, BeginReject, FinishIssue, BeginIssue,
       BeginExchange, Redeem, Refuse, Receive, BeginRevocation,
       FinishRevocation, Begin, FinishLogin, FinishReject
<1>2. ASSUME \/ \E c \in Clients : Revoke(c) \/ SetEnabled(c)
             \/ RejectNothing \/ Logout \/ EndSuspendedSession
             \/ Suspend \/ Reinstate \/ UNCHANGED vars
      PROVE  now' = now
  BY <1>2 DEF Revoke, SetEnabled, RejectNothing, Logout, EndSuspendedSession,
       Suspend, Reinstate, vars
<1>3. QED  BY <1>1, <1>2 DEF Next, Tick

LEMMA InactiveStep ==
  ASSUME SessionInv, [Next]_vars, NEW c \in Clients,
         enabled[c], token[c].code # 0, token'[c] = token[c], Active(c)'
  PROVE  Active(c)
<1>0. TypeOK /\ token[c].source # 0
  BY DEF SessionInv, SourcedTokens
<1>1. /\ token[c].expires > now'
      /\ session'.hash = token[c].source /\ session'.expires > now'
      /\ access_status' = "active" /\ membership_status' = "eligible"
      /\ membership_checked_at' + Day > now'
  BY DEF Active, SignedIn
<1>2. session' = session
  BY <1>0, <1>1, SessionMoves, LoginIsFresh DEF NoSession
<1>3. UNCHANGED <<membership_status, membership_checked_at>>
  BY <1>0, <1>1, MembershipMoves, LoginIsFresh
<1>4. access_status = "active"
  BY <1>0, <1>1, <1>2, AccessMoves
<1>5. /\ now \in Nat /\ token[c].expires \in Nat /\ session.expires \in Nat
      /\ membership_checked_at \in Nat /\ Day \in Nat
  BY <1>0, BoundsAssumption, TimesAssumption DEF TypeOK
<1>6. /\ token[c].expires > now /\ session.expires > now
      /\ membership_checked_at + Day > now
  BY <1>1, <1>2, <1>3, <1>5, ClockMoves
<1>7. QED  BY <1>0, <1>1, <1>2, <1>3, <1>4, <1>6 DEF Active, SignedIn

(* No sign-in, reinstatement or late statement revives a token. *)
THEOREM InactiveForGood == Spec => InactiveStaysInactive
<1>1. SessionInv /\ [Next]_vars =>
        [\A c \in Clients :
           enabled[c] /\ ~Active(c) /\ token[c].code # 0 /\ token'[c] = token[c]
             => ~Active(c)']_vars
  BY InactiveStep
<1>2. QED  BY <1>1, SessionInvariant, PTL DEF Spec, InactiveStaysInactive

-----------------------------------------------------------------------------
(* Codes and the tokens they buy. *)

(* Codes are numbered as they are issued; the row holds the newest, and a   *)
(* code that has a token is spent.                                          *)
NumberedCodes == \A c \in Clients :
  /\ code[c].hash = codes[c]
  /\ token[c].code <= codes[c]
  /\ token[c].code # 0 /\ token[c].code = codes[c] => code[c].consumed

NumberedRequests == \A r \in Requests :
  requests[r].op \in {"exchange", "refused", "revoking", "answered"}
    => requests[r].code \in 1..codes[requests[r].client]

(* A code that was seen with its token is never bought again. *)
ReplayedSpent == \A r \in Requests :
  LET q == requests[r] IN
  (/\ q.op \in {"refused", "revoking", "answered"}
   /\ q.replay
   /\ q.code = codes[q.client]) => code[q.client].consumed

(* The revocation's snapshot holds the token it is to delete. *)
RevocationSeesToken == \A r \in Requests :
  LET q == requests[r] IN
  q.op = "revoking" /\ q.replay /\ token[q.client].code = q.code
    => token[q.client].row = q.row

GrantInv ==
  /\ TypeOK
  /\ NumberedCodes
  /\ NumberedRequests
  /\ ReplayedSpent
  /\ RevocationSeesToken
  /\ ReplayVoidsToken

LEMMA GrantInit == ASSUME Init PROVE GrantInv
<1>1. TypeOK  BY TypeInit
<1>2. \A c \in Clients : code[c].hash = 0 /\ codes[c] = 0 /\ token[c].code = 0
  BY DEF Init, NoCode, NoToken
<1>3. NumberedCodes
  <2>1. SUFFICES ASSUME NEW c \in Clients
                 PROVE  code[c].hash = codes[c] /\ token[c].code <= codes[c]
                        /\ token[c].code = 0
    BY DEF NumberedCodes
  <2>2. QED  BY <1>2
<1>4. \A r \in Requests :
        /\ requests[r].op \notin {"exchange", "refused", "revoking", "answered"}
        /\ requests[r].op \notin {"refused", "revoking", "answered"}
        /\ requests[r].op # "revoking" /\ requests[r].op # "answered"
  BY NoRequestTyped DEF Init
<1>5. NumberedRequests
  BY <1>4 DEF NumberedRequests
<1>7. ReplayedSpent
  <2>1. SUFFICES ASSUME NEW r \in Requests,
                        requests[r].op \in {"refused", "revoking", "answered"}
                 PROVE  FALSE
    BY Zenon DEF ReplayedSpent
  <2>2. QED  BY <1>4, <2>1
<1>6. RevocationSeesToken /\ ReplayVoidsToken
  BY <1>4, Zenon DEF RevocationSeesToken, ReplayVoidsToken
<1>8. QED  BY <1>1, <1>3, <1>5, <1>6, <1>7 DEF GrantInv

LEMMA CodeMoves ==
  ASSUME TypeOK, [Next]_vars, NEW c \in Clients
  PROVE  \/ code'[c] = code[c] /\ codes'[c] = codes[c]
         \/ /\ code'[c] = [code[c] EXCEPT !.consumed = TRUE]
            /\ codes'[c] = codes[c]
         \/ /\ codes'[c] = codes[c] + 1 /\ code'[c].hash = codes[c] + 1
            /\ token' = token
<1>0. /\ DOMAIN code = Clients /\ DOMAIN codes = Clients
      /\ \A r \in Requests : requests[r].client \in Clients
  BY DEF TypeOK, Request
<1>1. ASSUME NEW r \in Requests, FinishIssue(r)
      PROVE  \/ code'[c] = code[c] /\ codes'[c] = codes[c]
             \/ /\ codes'[c] = codes[c] + 1 /\ code'[c].hash = codes[c] + 1
                /\ token' = token
  BY <1>0, <1>1 DEF FinishIssue
<1>2. ASSUME NEW r \in Requests, Redeem(r) \/ Refuse(r)
      PROVE  /\ codes' = codes
             /\ \/ code'[c] = code[c]
                \/ code'[c] = [code[c] EXCEPT !.consumed = TRUE]
  BY <1>0, <1>2 DEF Redeem, Refuse, Consumed
<1>3. ASSUME NEW r \in Requests,
             \/ Abort(r) \/ BeginLogin(r) \/ BeginReject(r)
             \/ \E d \in Clients : BeginIssue(r, d) \/ BeginExchange(r, d)
             \/ Receive(r) \/ BeginRevocation(r) \/ FinishRevocation(r)
             \/ FinishLogin(r) \/ FinishReject(r)
      PROVE  code' = code /\ codes' = codes
  BY <1>3 DEF Abort, BeginLogin, BeginReject, BeginIssue, BeginExchange,
       Receive, BeginRevocation, FinishRevocation, Begin, FinishLogin,
       FinishReject
<1>4. ASSUME \/ \E d \in Clients : Revoke(d) \/ SetEnabled(d)
             \/ RejectNothing \/ Logout \/ EndSuspendedSession
             \/ Suspend \/ Reinstate \/ Tick \/ UNCHANGED vars
      PROVE  code' = code /\ codes' = codes
  BY <1>4 DEF Revoke, SetEnabled, RejectNothing, Logout, EndSuspendedSession,
       Suspend, Reinstate, Tick, vars
<1>5. QED  BY <1>1, <1>2, <1>3, <1>4 DEF Next

(* A refused exchange keeps its client, code and replay to the end. *)
LEMMA RefusedMoves ==
  ASSUME TypeOK, NEW x \in Requests,
         Refuse(x) \/ BeginRevocation(x) \/ FinishRevocation(x)
  PROVE  /\ requests[x].op \in {"exchange", "refused", "revoking"}
         /\ requests'[x].op \in {"refused", "revoking", "answered"}
         /\ requests'[x].client = requests[x].client
         /\ requests'[x].code = requests[x].code
         /\ codes' = codes
<1>1. /\ DOMAIN requests = Requests /\ requests[x] \in Request
      /\ NoRequest \in Request
  BY NoRequestTyped DEF TypeOK
<1>2. CASE Refuse(x)
  <2> DEFINE q == [NoRequest EXCEPT !.op = "refused",
                     !.client = requests[x].client, !.code = requests[x].code,
                     !.replay = token[requests[x].client].code
                                  = requests[x].code]
  <2>1. /\ requests'[x] = q /\ codes' = codes
        /\ requests[x].op = "exchange"
    BY <1>1, <1>2 DEF Refuse
  <2>2. /\ q.op = "refused" /\ q.client = requests[x].client
        /\ q.code = requests[x].code
    BY <1>1 DEF Request
  <2>3. QED  BY <2>1, <2>2
<1>3. CASE BeginRevocation(x)
  BY <1>1, <1>3 DEF BeginRevocation, Answered, Request
<1>4. CASE FinishRevocation(x)
  BY <1>1, <1>4 DEF FinishRevocation, Answered, Request
<1>5. QED  BY <1>2, <1>3, <1>4

LEMMA NumberedCodesStep ==
  ASSUME GrantInv, [Next]_vars
  PROVE  NumberedCodes'
<1>0. TypeOK /\ NumberedCodes  BY DEF GrantInv
<1> SUFFICES ASSUME NEW c \in Clients
             PROVE  /\ code'[c].hash = codes'[c]
                    /\ token'[c].code <= codes'[c]
                    /\ token'[c].code # 0 /\ token'[c].code = codes'[c]
                         => code'[c].consumed
  BY DEF NumberedCodes
<1>1. /\ codes[c] \in Nat /\ token[c].code \in Nat
      /\ code[c] \in [hash : Nat, source : 0..sessions,
                      expires : 0..(now + Minute), consumed : BOOLEAN]
      /\ code[c].hash = codes[c] /\ token[c].code <= codes[c]
      /\ token[c].code # 0 /\ token[c].code = codes[c] => code[c].consumed
  BY <1>0, BoundsAssumption DEF TypeOK, NumberedCodes
<1>2. CASE \E r \in Requests : Redeem(r) /\ requests[r].client = c
  <2>1. PICK r \in Requests : Redeem(r) /\ requests[r].client = c  BY <1>2
  <2>2. /\ token'[c].code = requests[r].code
        /\ code[c].hash = requests[r].code
        /\ code'[c].hash = code[c].hash
    BY <1>0, <2>1, TokenBought DEF Redeemable
  <2>3. codes' = codes  BY <2>1 DEF Redeem
  <2>4. code'[c].hash = codes'[c] /\ token'[c].code <= codes'[c]
    <3>1. codes[c] \in Nat /\ code[c].hash = codes[c]
      BY <1>1, Zenon
    <3>2. QED  BY <2>2, <2>3, <3>1
  <2>5. code'[c].consumed  BY <1>0, <2>1, TokenBought
  <2>6. QED  BY <2>4, <2>5
<1>3. CASE token'[c] = token[c] \/ token'[c] = NoToken
  <2>1. token'[c].code \in {token[c].code, 0}  BY <1>3 DEF NoToken
  <2>2. CASE code'[c] = code[c] /\ codes'[c] = codes[c]
    BY <1>1, <2>1, <2>2
  <2>3. CASE /\ code'[c] = [code[c] EXCEPT !.consumed = TRUE]
             /\ codes'[c] = codes[c]
    BY <1>1, <2>1, <2>3
  <2>4. CASE codes'[c] = codes[c] + 1 /\ code'[c].hash = codes[c] + 1
    BY <1>1, <2>1, <2>4
  <2>5. QED  BY <1>0, <2>2, <2>3, <2>4, CodeMoves
<1>4. QED  BY <1>0, <1>2, <1>3, TokenMoves

LEMMA NumberedRequestsStep ==
  ASSUME GrantInv, [Next]_vars
  PROVE  NumberedRequests'
<1>0. TypeOK /\ NumberedRequests  BY DEF GrantInv
<1> SUFFICES ASSUME NEW x \in Requests,
                    requests'[x].op \in
                      {"exchange", "refused", "revoking", "answered"}
             PROVE  requests'[x].code \in 1..codes'[requests'[x].client]
  BY DEF NumberedRequests
<1>1. requests[x].client \in Clients /\ \A c \in Clients : codes[c] \in Nat
  BY <1>0, BoundsAssumption DEF TypeOK, Request
<1>2. \A c \in Clients : codes'[c] = codes[c] \/ codes'[c] = codes[c] + 1
  BY <1>0, CodeMoves
<1>3. CASE requests'[x] = requests[x]
  <2>1. requests[x].code \in 1..codes[requests[x].client]
    BY <1>0, <1>3 DEF NumberedRequests
  <2>2. QED  BY <1>1, <1>2, <1>3, <2>1
<1>4. CASE \E c \in Clients : BeginExchange(x, c)
  BY <1>0, <1>4, ExchangeBegun
<1>5. CASE Refuse(x) \/ BeginRevocation(x) \/ FinishRevocation(x)
  <2>1. requests[x].code \in 1..codes[requests[x].client]
    BY <1>0, <1>5, RefusedMoves DEF NumberedRequests
  <2>2. QED  BY <1>0, <1>5, <2>1, RefusedMoves
<1>6. QED  BY <1>0, <1>3, <1>4, <1>5, OneRequestMoves

(* A purchase spends the newest code, so never one already spent. *)
LEMMA NothingSpentIsBought ==
  ASSUME GrantInv, NEW r \in Requests, Redeem(r), NEW x \in Requests,
         requests[x].client = requests[r].client,
         requests[x].op \in {"refused", "revoking", "answered"},
         requests[x].replay
  PROVE  requests[x].code # requests[r].code
<1>0. TypeOK /\ NumberedCodes /\ ReplayedSpent  BY DEF GrantInv
<1> DEFINE c == requests[r].client
<1>1. c \in Clients /\ Redeemable(requests[r])
  BY <1>0, TokenBought
<1>2. code[c].hash = requests[r].code /\ code[c].hash = codes[c]
  BY <1>0, <1>1 DEF Redeemable, NumberedCodes
<1>3. ~code[c].consumed  BY <1>1 DEF Redeemable
<1>4. requests[x].code = codes[c] => code[c].consumed
  BY <1>0, Zenon DEF ReplayedSpent
<1>5. QED  BY <1>2, <1>3, <1>4, Zenon

LEMMA ReplayedSpentStep ==
  ASSUME GrantInv, [Next]_vars
  PROVE  ReplayedSpent'
<1>0. /\ TypeOK /\ NumberedCodes /\ NumberedRequests /\ ReplayedSpent
  BY DEF GrantInv
<1> SUFFICES ASSUME NEW x \in Requests,
                    requests'[x].op \in {"refused", "revoking", "answered"},
                    requests'[x].replay,
                    requests'[x].code = codes'[requests'[x].client]
             PROVE  code'[requests'[x].client].consumed
  BY Zenon DEF ReplayedSpent
<1> DEFINE c == requests[x].client
<1>1. c \in Clients /\ codes[c] \in Nat /\ DOMAIN code = Clients
      /\ requests[x] \in Request
      /\ code[c] \in [hash : Nat, source : 0..sessions,
                      expires : 0..(now + Minute), consumed : BOOLEAN]
  BY <1>0, BoundsAssumption DEF TypeOK, Request
<1>2. code[c].consumed /\ codes'[c] = codes[c] => code'[c].consumed
  <2>1. CASE code'[c] = code[c]  BY <2>1
  <2>2. CASE code'[c] = [code[c] EXCEPT !.consumed = TRUE]
    BY <1>1, <2>2
  <2>3. CASE codes'[c] = codes[c] + 1  BY <1>1, <2>3
  <2>4. QED  BY <1>0, <1>1, <2>1, <2>2, <2>3, CodeMoves
<1>3. CASE requests'[x] = requests[x]
  <2>1. requests[x].code \in 1..codes[c]
    BY <1>0, <1>3 DEF NumberedRequests
  <2>2. codes'[c] = codes[c]
    <3>1. codes'[c] = codes[c] \/ codes'[c] = codes[c] + 1
      BY <1>0, <1>1, CodeMoves
    <3>2. requests[x].code = codes'[c]  BY <1>3
    <3>3. QED  BY <1>1, <2>1, <3>1, <3>2
  <2>3. code[c].consumed
    BY <1>0, <1>3, <2>2, Zenon DEF ReplayedSpent
  <2>4. QED  BY <1>2, <1>3, <2>2, <2>3
<1>4. CASE Refuse(x)
  <2>1. /\ requests'[x].client = c /\ codes' = codes
        /\ requests'[x].code = requests[x].code
        /\ requests[x].op = "exchange"
    BY <1>0, <1>4, RefusedMoves DEF Refuse
  <2>2. requests[x].code \in 1..codes[c]
    BY <1>0, <2>1 DEF NumberedRequests
  <2>3. token[c].code = requests[x].code
    <3> DEFINE q(b) == [NoRequest EXCEPT !.op = "refused", !.client = c,
                          !.code = requests[x].code, !.replay = b]
    <3>1. requests'[x] = q(token[c].code = requests[x].code)
      BY <1>0, <1>4 DEF Refuse, TypeOK
    <3>2. \A b \in BOOLEAN : q(b).replay = b
      BY NoRequestTyped DEF Request
    <3>3. requests'[x].replay = (token[c].code = requests[x].code)
      BY <3>1, <3>2
    <3>4. QED  BY <3>3
  <2>4. token[c].code # 0 /\ token[c].code = codes[c]
    BY <1>1, <2>1, <2>2, <2>3
  <2>5. code[c].consumed
    BY <1>0, <1>1, <2>4, Zenon DEF NumberedCodes
  <2>6. QED  BY <1>2, <2>1, <2>5
<1>5. CASE BeginRevocation(x) \/ FinishRevocation(x)
  <2>1. /\ requests'[x].client = c /\ codes' = codes
        /\ requests'[x].code = requests[x].code
        /\ requests[x].op \in {"refused", "revoking"}
    BY <1>0, <1>5, RefusedMoves DEF BeginRevocation, FinishRevocation
  <2>2. requests'[x].replay = requests[x].replay
    <3>1. requests[x] \in Request /\ DOMAIN requests = Requests
      BY <1>0 DEF TypeOK
    <3>2. Answered(requests[x]).replay = requests[x].replay
      BY <3>1 DEF Answered, Request
    <3>3. CASE BeginRevocation(x)
      BY <3>1, <3>2, <3>3 DEF BeginRevocation, Request
    <3>4. CASE FinishRevocation(x)
      BY <3>1, <3>2, <3>4 DEF FinishRevocation
    <3>5. QED  BY <1>5, <3>3, <3>4
  <2>3. requests[x].op \in {"refused", "revoking", "answered"}
        /\ requests[x].code = codes[c]
    BY <2>1
  <2>4. code[c].consumed
    BY <1>0, <2>2, <2>3, Zenon DEF ReplayedSpent
  <2>5. QED  BY <1>2, <2>1, <2>4
<1>6. CASE \E d \in Clients : BeginExchange(x, d)
  <2>1. requests'[x].op = "exchange"  BY <1>0, <1>6, ExchangeBegun
  <2>2. QED  BY <2>1
<1>7. QED  BY <1>0, <1>3, <1>4, <1>5, <1>6, OneRequestMoves

(* What the two steps of a revocation do to the token and the request. *)
LEMMA RevocationMoves ==
  ASSUME TypeOK, NEW x \in Requests, BeginRevocation(x) \/ FinishRevocation(x)
  PROVE  LET q == requests[x]  c == q.client IN
         /\ c \in Clients /\ UNCHANGED <<code, codes>>
         /\ requests'[x].client = c /\ requests'[x].code = q.code
         /\ requests'[x].replay = q.replay
         /\ \/ /\ q.op = "refused" /\ requests'[x].op = "revoking"
               /\ SeenConsumed(q)
               /\ requests'[x].row = token[c].row /\ token' = token
            \/ /\ q.op = "refused" /\ requests'[x].op = "answered"
               /\ ~SeenConsumed(q) /\ token' = token
            \/ /\ q.op = "revoking" /\ requests'[x].op = "answered"
               /\ token'[c] = IF token[c].row = q.row THEN NoToken ELSE token[c]
<1>1. /\ requests[x] \in Request /\ DOMAIN requests = Requests
      /\ requests[x].client \in Clients /\ DOMAIN token = Clients
  BY DEF TypeOK, Request
<1> DEFINE a == Answered(requests[x])
           b == [requests[x] EXCEPT !.op = "revoking",
                                    !.row = token[requests[x].client].row]
<1>2. /\ a.op = "answered" /\ a.client = requests[x].client
      /\ a.code = requests[x].code /\ a.replay = requests[x].replay
  BY <1>1 DEF Answered, Request
<1>3. /\ b.op = "revoking" /\ b.client = requests[x].client
      /\ b.code = requests[x].code /\ b.replay = requests[x].replay
      /\ b.row = token[requests[x].client].row
  BY <1>1 DEF Request
<1>4. CASE BeginRevocation(x)
  <2>1. /\ requests[x].op = "refused" /\ UNCHANGED <<token, code, codes>>
        /\ requests'[x] = IF SeenConsumed(requests[x]) THEN b ELSE a
    BY <1>1, <1>4 DEF BeginRevocation
  <2>2. CASE SeenConsumed(requests[x])  BY <1>1, <1>3, <2>1, <2>2
  <2>3. CASE ~SeenConsumed(requests[x])  BY <1>1, <1>2, <2>1, <2>3
  <2>4. QED  BY <2>2, <2>3
<1>5. CASE FinishRevocation(x)
  <2>1. /\ requests[x].op = "revoking" /\ UNCHANGED <<code, codes>>
        /\ requests'[x] = a
        /\ token'[requests[x].client] =
             IF token[requests[x].client].row = requests[x].row
             THEN NoToken ELSE token[requests[x].client]
    BY <1>1, <1>5 DEF FinishRevocation
  <2>2. QED  BY <1>1, <1>2, <2>1
<1>6. QED  BY <1>4, <1>5

LEMMA RevocationSeesTokenStep ==
  ASSUME GrantInv, [Next]_vars
  PROVE  RevocationSeesToken'
<1>0. TypeOK /\ NumberedRequests /\ RevocationSeesToken  BY DEF GrantInv
<1> SUFFICES ASSUME NEW x \in Requests, requests'[x].op = "revoking",
                    requests'[x].replay,
                    token'[requests'[x].client].code = requests'[x].code
             PROVE  token'[requests'[x].client].row = requests'[x].row
  BY Zenon DEF RevocationSeesToken
<1> DEFINE c == requests[x].client
<1>1. CASE requests'[x] = requests[x]
  <2>0. c \in Clients /\ requests[x].code # 0 /\ requests[x].op = "revoking"
        /\ token'[c].code = requests[x].code
    BY <1>0, <1>1, BoundsAssumption DEF TypeOK, Request, NumberedRequests
  <2>1. CASE token'[c] = token[c]
    <3>1. requests[x].replay  BY <1>1
    <3>2. token[c].code = requests[x].code  BY <2>0, <2>1
    <3>3. token[c].row = requests[x].row
      BY <1>0, <2>0, <3>1, <3>2, Zenon DEF RevocationSeesToken
    <3>4. QED  BY <1>1, <2>1, <3>3
  <2>2. CASE token'[c] = NoToken  BY <2>0, <2>2 DEF NoToken
  <2>3. CASE \E r \in Requests : Redeem(r) /\ requests[r].client = c
    <3>1. PICK r \in Requests : Redeem(r) /\ requests[r].client = c  BY <2>3
    <3>2. token'[c].code = requests[r].code  BY <1>0, <3>1, TokenBought
    <3>3. requests[x].replay  BY <1>1
    <3>4. requests[x].op \in {"refused", "revoking", "answered"}  BY <2>0
    <3>5. requests[x].code # requests[r].code
      BY <3>1, <3>3, <3>4, NothingSpentIsBought
    <3>6. QED  BY <2>0, <3>2, <3>5
  <2>4. QED  BY <1>0, <2>0, <2>1, <2>2, <2>3, TokenMoves
<1>2. CASE BeginRevocation(x) \/ FinishRevocation(x)
  BY <1>0, <1>2, RevocationMoves
<1>3. CASE Refuse(x)
  <2>1. requests'[x].op = "refused"
    BY <1>0, <1>3, NoRequestTyped DEF Refuse, TypeOK, Request
  <2>2. QED  BY <2>1
<1>4. CASE \E d \in Clients : BeginExchange(x, d)
  <2>1. requests'[x].op = "exchange"  BY <1>0, <1>4, ExchangeBegun
  <2>2. QED  BY <2>1
<1>5. QED  BY <1>0, <1>1, <1>2, <1>3, <1>4, OneRequestMoves

LEMMA ReplayVoidsTokenStep ==
  ASSUME GrantInv, [Next]_vars
  PROVE  ReplayVoidsToken'
<1>0. /\ TypeOK /\ NumberedCodes /\ NumberedRequests /\ ReplayedSpent
      /\ RevocationSeesToken /\ ReplayVoidsToken
  BY DEF GrantInv
<1> SUFFICES ASSUME NEW x \in Requests, requests'[x].op = "answered",
                    requests'[x].replay,
                    code'[requests'[x].client].hash = requests'[x].code
             PROVE  token'[requests'[x].client].code # requests'[x].code
  BY Zenon DEF ReplayVoidsToken
<1> DEFINE c == requests[x].client
<1>1. CASE requests'[x] = requests[x]
  <2>0. /\ c \in Clients /\ requests[x].code \in 1..codes[c]
        /\ codes[c] \in Nat /\ requests[x].op = "answered"
        /\ code'[c].hash = requests[x].code
    BY <1>0, <1>1, BoundsAssumption DEF TypeOK, Request, NumberedRequests
  <2>1. requests[x].replay  BY <1>1
  <2>2. code[c].hash = requests[x].code
    <3>1. /\ code[c] \in [hash : Nat, source : 0..sessions,
                          expires : 0..(now + Minute), consumed : BOOLEAN]
      BY <1>0, <2>0 DEF TypeOK
    <3>2. code'[c].hash = code[c].hash \/ code'[c].hash = codes[c] + 1
      BY <1>0, <2>0, <3>1, CodeMoves
    <3>3. QED  BY <2>0, <3>2
  <2>3. token[c].code # requests[x].code
    BY <1>0, <2>0, <2>1, <2>2, Zenon DEF ReplayVoidsToken
  <2>4. CASE token'[c] = token[c]  BY <1>1, <2>3, <2>4
  <2>5. CASE token'[c] = NoToken  BY <1>1, <2>0, <2>5 DEF NoToken
  <2>6. CASE \E r \in Requests : Redeem(r) /\ requests[r].client = c
    <3>1. PICK r \in Requests : Redeem(r) /\ requests[r].client = c  BY <2>6
    <3>2. token'[c].code = requests[r].code  BY <1>0, <3>1, TokenBought
    <3>3. requests[x].op \in {"refused", "revoking", "answered"}  BY <2>0
    <3>4. requests[x].code # requests[r].code
      BY <2>1, <3>1, <3>3, NothingSpentIsBought
    <3>5. QED  BY <1>1, <3>2, <3>4
  <2>7. QED  BY <1>0, <2>0, <2>4, <2>5, <2>6, TokenMoves
<1>2. CASE BeginRevocation(x) \/ FinishRevocation(x)
  <2>1. /\ c \in Clients /\ requests[x].op \in {"refused", "revoking"}
        /\ requests'[x].client = c /\ requests'[x].code = requests[x].code
        /\ requests'[x].replay = requests[x].replay
        /\ code' = code
    BY <1>0, <1>2, RevocationMoves
  <2>2. /\ requests[x].code # 0 /\ code[c].hash = requests[x].code
        /\ requests[x].code = codes[c]
    BY <1>0, <2>1, BoundsAssumption DEF NumberedRequests, NumberedCodes, TypeOK
  <2>3. requests[x].replay  BY <2>1
  <2>4. code[c].consumed
    <3>1. requests[x].op \in {"refused", "revoking", "answered"}  BY <2>1
    <3>2. QED  BY <1>0, <2>2, <2>3, <3>1, Zenon DEF ReplayedSpent
  <2>5. SeenConsumed(requests[x])  BY <2>2, <2>4 DEF SeenConsumed
  <2>6. /\ requests[x].op = "revoking"
        /\ token'[c] = IF token[c].row = requests[x].row THEN NoToken
                                                         ELSE token[c]
    BY <1>0, <1>2, <2>5, RevocationMoves
  <2>7. token[c].code = requests[x].code => token[c].row = requests[x].row
    BY <1>0, <2>3, <2>6, Zenon DEF RevocationSeesToken
  <2>8. QED  BY <2>1, <2>2, <2>6, <2>7 DEF NoToken
<1>3. CASE Refuse(x)
  <2>1. requests'[x].op = "refused"
    BY <1>0, <1>3, NoRequestTyped DEF Refuse, TypeOK, Request
  <2>2. QED  BY <2>1
<1>4. CASE \E d \in Clients : BeginExchange(x, d)
  <2>1. requests'[x].op = "exchange"  BY <1>0, <1>4, ExchangeBegun
  <2>2. QED  BY <2>1
<1>5. QED  BY <1>0, <1>1, <1>2, <1>3, <1>4, OneRequestMoves

LEMMA GrantStep == ASSUME GrantInv, [Next]_vars PROVE GrantInv'
<1>1. TypeOK'  BY TypeStep DEF GrantInv
<1>2. QED  BY <1>1, NumberedCodesStep, NumberedRequestsStep, ReplayedSpentStep,
             RevocationSeesTokenStep, ReplayVoidsTokenStep DEF GrantInv

\* What a grant was bought with, and by whom, holds after any statements.
THEOREM GrantInvariant == Spec => []GrantInv
BY GrantInit, GrantStep, PTL DEF Spec

(* A replay answered while its code is the newest has voided its token. *)
THEOREM ReplayIsVoid == Spec => []ReplayVoidsToken
BY GrantInvariant, PTL DEF GrantInv

-----------------------------------------------------------------------------
(* The tables implement the abstract grant. *)

LEMMA GrantRefinementInit == ASSUME Init PROVE Grant!Init
BY DEF Init, Grant!Init, NoCode, NoToken

LEMMA GrantRefinementStep ==
  ASSUME GrantInv, [Next]_vars
  PROVE  [Grant!Next]_Grant!vars
<1> DEFINE Open == [c \in Clients |-> code[c].hash # 0 /\ ~code[c].consumed]
           Held == [c \in Clients |-> token[c].code]
<1>0. /\ TypeOK /\ NumberedCodes
      /\ DOMAIN code = Clients /\ DOMAIN token = Clients
      /\ \A r \in Requests : requests[r].client \in Clients
  BY DEF GrantInv, TypeOK, Request
<1>a. ASSUME NEW c \in Clients,
             Grant!Issue(c) \/ Grant!Buy(c) \/ Grant!Waste(c) \/ Grant!Drop(c)
      PROVE  Grant!Next
  BY <1>a DEF Grant!Next
<1>1. ASSUME NEW r \in Requests, FinishIssue(r) PROVE Grant!Next
  <2>0. PICK c \in Clients : c = requests[r].client  BY <1>0
  <2>1. /\ c \in Clients /\ codes' = [codes EXCEPT ![c] = @ + 1]
        /\ token' = token
        /\ \A d \in Clients \ {c} : code'[d] = code[d]
        /\ code'[c].hash = codes[c] + 1 /\ ~code'[c].consumed
    BY <1>0, <1>1, <2>0 DEF FinishIssue
  <2>2. codes[c] + 1 # 0  BY <1>0, <2>1, BoundsAssumption DEF TypeOK
  <2>3. Open' = [Open EXCEPT ![c] = TRUE]  BY <2>1, <2>2
  <2>4. Held' = Held  BY <2>1
  <2>5. Grant!Issue(c)  BY <2>1, <2>3, <2>4 DEF Grant!Issue
  <2>6. QED  BY <1>a, <2>1, <2>5
<1>2. ASSUME NEW r \in Requests, Redeemable(requests[r]),
             requests[r].op = "exchange", code' = Consumed(requests[r].client)
      PROVE  LET c == requests[r].client IN
             /\ Open[c] /\ Open' = [Open EXCEPT ![c] = FALSE]
             /\ requests[r].code = codes[c]
  <2> DEFINE c == requests[r].client
  <2>1. /\ c \in Clients /\ code[c].hash = requests[r].code
        /\ ~code[c].consumed /\ code[c].hash = codes[c]
    BY <1>0, <1>2 DEF Redeemable, NumberedCodes
  <2>2. requests[r].code # 0
    BY <1>0, <1>2, <2>1, BoundsAssumption DEF GrantInv, NumberedRequests, TypeOK
  <2>3. Open[c]  BY <2>1, <2>2
  <2>4. /\ \A d \in Clients \ {c} : code'[d] = code[d]
        /\ code'[c].consumed
    BY <1>0, <1>2, <2>1 DEF Consumed, TypeOK
  <2>5. Open' = [Open EXCEPT ![c] = FALSE]  BY <2>1, <2>4
  <2>6. QED  BY <2>1, <2>3, <2>5
<1>3. ASSUME NEW r \in Requests, Redeem(r) PROVE Grant!Next
  <2>0. PICK c \in Clients : c = requests[r].client  BY <1>0
  <2>1. /\ Open[c] /\ Open' = [Open EXCEPT ![c] = FALSE]
        /\ requests[r].code = codes[c] /\ c \in Clients
    BY <1>0, <1>2, <1>3, <2>0 DEF Redeem
  <2>2. /\ codes' = codes /\ token'[c].code = requests[r].code
        /\ \A d \in Clients \ {c} : token'[d] = token[d]
    BY <1>0, <1>3, <2>0 DEF Redeem
  <2>3. Held' = [Held EXCEPT ![c] = codes[c]]  BY <2>1, <2>2
  <2>4. Grant!Buy(c)  BY <2>1, <2>2, <2>3 DEF Grant!Buy
  <2>5. QED  BY <1>a, <2>1, <2>4
<1>4. ASSUME NEW r \in Requests, Refuse(r) PROVE [Grant!Next]_Grant!vars
  <2>0. PICK c \in Clients : c = requests[r].client  BY <1>0
  <2>1. codes' = codes /\ token' = token /\ c \in Clients
    BY <1>0, <1>4 DEF Refuse
  <2>2. CASE Redeemable(requests[r])
    <3>1. Open[c] /\ Open' = [Open EXCEPT ![c] = FALSE]
      BY <1>2, <1>4, <2>0, <2>2 DEF Refuse
    <3>2. Grant!Waste(c)  BY <2>1, <3>1 DEF Grant!Waste
    <3>3. QED  BY <1>a, <2>1, <3>2
  <2>3. CASE ~Redeemable(requests[r])
    <3>1. code' = code  BY <1>4, <2>3 DEF Refuse
    <3>2. QED  BY <2>1, <3>1 DEF Grant!vars
  <2>4. QED  BY <2>2, <2>3
<1>5. ASSUME NEW c \in Clients, token'[c] = token[c] \/ token'[c] = NoToken,
             \A d \in Clients \ {c} : token'[d] = token[d],
             code' = code, codes' = codes
      PROVE  [Grant!Next]_Grant!vars
  <2>1. CASE token'[c] = NoToken
    <3>0. token'[c].code = 0  BY <2>1 DEF NoToken
    <3>1. Held' = [Held EXCEPT ![c] = 0]  BY <1>5, <3>0
    <3>2. Grant!Drop(c)  BY <1>5, <3>1 DEF Grant!Drop
    <3>3. QED  BY <1>a, <3>2
  <2>2. CASE token'[c] = token[c]
    <3>1. Held' = Held  BY <1>5, <2>2
    <3>2. QED  BY <1>5, <3>1 DEF Grant!vars
  <2>3. QED  BY <1>5, <2>1, <2>2
<1>6. ASSUME NEW r \in Requests, FinishRevocation(r)
      PROVE  [Grant!Next]_Grant!vars
  BY <1>0, <1>5, <1>6 DEF FinishRevocation
<1>7. ASSUME NEW c \in Clients, Revoke(c) PROVE [Grant!Next]_Grant!vars
  BY <1>0, <1>5, <1>7 DEF Revoke
<1>8. ASSUME \/ \E r \in Requests :
                  \/ Abort(r) \/ BeginLogin(r) \/ BeginReject(r)
                  \/ \E d \in Clients : BeginIssue(r, d) \/ BeginExchange(r, d)
                  \/ Receive(r) \/ BeginRevocation(r)
                  \/ FinishLogin(r) \/ FinishReject(r)
             \/ \E d \in Clients : SetEnabled(d)
             \/ RejectNothing \/ Logout \/ EndSuspendedSession
             \/ Suspend \/ Reinstate \/ Tick \/ UNCHANGED vars
      PROVE  UNCHANGED <<code, token, codes>>
  BY <1>8 DEF Abort, BeginLogin, BeginReject, BeginIssue, BeginExchange,
       Receive, BeginRevocation, Begin, FinishLogin, FinishReject, SetEnabled,
       RejectNothing, Logout, EndSuspendedSession, Suspend, Reinstate, Tick,
       vars
<1>9. UNCHANGED <<code, token, codes>> => UNCHANGED Grant!vars
  BY DEF Grant!vars
<1>10. QED  BY <1>1, <1>3, <1>4, <1>6, <1>7, <1>8, <1>9 DEF Next

(* Each code buys at most one token, and only while it is the newest. *)
THEOREM GrantsImplemented == Spec => ImplementsGrants
<1>1. Init => Grant!Init  BY GrantRefinementInit
<1>2. GrantInv /\ [Next]_vars => [Grant!Next]_Grant!vars
  BY GrantRefinementStep
<1>3. QED  BY <1>1, <1>2, GrantInvariant, PTL
             DEF Spec, ImplementsGrants, Grant!Spec
=============================================================================
