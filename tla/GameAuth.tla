------------------------------ MODULE GameAuth ------------------------------
(***************************************************************************)
(* Sign-in and game authorization for one account (every table is keyed by *)
(* account): accounts and sessions (src/lib/auth/db.ts), authorization     *)
(* codes and game tokens (src/lib/auth/game-db.ts), and the routes that    *)
(* call them.                                                              *)
(*                                                                         *)
(* Each database call is one SQL statement at READ COMMITTED. Begin takes  *)
(* NOW() and what the statement reads from its snapshot without locking;   *)
(* Finish locks the rows it writes, checks their conditions again on the   *)
(* rows as they now are, and commits. Other statements commit in between.  *)
(* A statement that finds no row to write in its snapshot writes nothing.  *)
(* Hashes of sessions and codes are numbered in the order of their rows.   *)
(***************************************************************************)
EXTENDS Naturals

CONSTANTS
  Clients,      \* the registered games
  Requests,     \* the server calls that may be in flight
  Day,          \* the 24 hours of a session, a token and a membership check
  Minute,       \* the 60 seconds of an authorization code
  MaxTime,      \* bound: the clock
  MaxSessions,  \* bound: sign-ins
  MaxCodes      \* bound: codes issued to one client

ASSUME ClientsAssumption == Clients # {}
ASSUME TimesAssumption == Day \in Nat \ {0} /\ Minute \in Nat \ {0}
ASSUME BoundsAssumption ==
  MaxTime \in Nat /\ MaxSessions \in Nat /\ MaxCodes \in Nat

VARIABLES
  now,                    \* the database clock
  membership_status,      \* "none" before the account's row exists
  access_status,
  membership_checked_at,
  session,                \* the account's row in sessions
  enabled,                \* game_oauth_clients.enabled
  code,                   \* each client's row in game_authorization_codes
  token,                  \* each client's row in game_access_tokens
  sessions,               \* how many session hashes were written
  codes,                  \* how many code hashes were written, per client
  requests,               \* the statements in flight
  rejected                \* observer: a rejection was the last membership
                          \* decision answered; only a property reads it

account == <<membership_status, access_status, membership_checked_at>>
vars == <<now, account, session, enabled, code, token, sessions, codes,
          requests, rejected>>

(* A row's "row" is the hash it was inserted with: an upsert keeps the row. *)
NoSession == [hash |-> 0, expires |-> 0, row |-> 0]
NoCode == [hash |-> 0, source |-> 0, expires |-> 0, consumed |-> FALSE]
NoToken == [code |-> 0, source |-> 0, expires |-> 0, row |-> 0]

(* session, expires: the session the snapshot verified, 0 when none.       *)
(* row: the row a DELETE saw. replay: observer, the code had been bought.  *)
Request ==
  [op : {"none", "login", "reject", "issue", "exchange", "refused",
         "revoking", "answered"},
   client : Clients, time : Nat, code : Nat, known : BOOLEAN,
   session : Nat, expires : Nat, row : Nat, replay : BOOLEAN]

NoRequest ==
  [op |-> "none", client |-> CHOOSE c \in Clients : TRUE, time |-> 0,
   code |-> 0, known |-> FALSE, session |-> 0, expires |-> 0, row |-> 0,
   replay |-> FALSE]

(* The types, with the lifetimes the tables' CHECK constraints allow. *)
TypeOK ==
  /\ now \in 0..MaxTime
  /\ membership_status \in {"none", "eligible", "ineligible"}
  /\ access_status \in {"active", "suspended"}
  /\ membership_checked_at \in 0..now
  /\ sessions \in 0..MaxSessions
  /\ session \in [hash : 0..sessions, expires : 0..(now + Day),
                  row : 0..sessions]
  /\ enabled \in [Clients -> BOOLEAN]
  /\ codes \in [Clients -> 0..MaxCodes]
  /\ code \in [Clients -> [hash : Nat, source : 0..sessions,
                           expires : 0..(now + Minute), consumed : BOOLEAN]]
  /\ token \in [Clients -> [code : Nat, source : 0..sessions,
                            expires : 0..(now + Day), row : Nat]]
  /\ requests \in [Requests -> Request]
  /\ \A r \in Requests : /\ requests[r].time <= now
                         /\ requests[r].session <= sessions
  /\ rejected \in BOOLEAN

Init ==
  /\ now = 0
  /\ membership_status = "none"
  /\ access_status = "active"
  /\ membership_checked_at = 0
  /\ session = NoSession
  /\ enabled \in [Clients -> BOOLEAN]
  /\ code = [c \in Clients |-> NoCode]
  /\ token = [c \in Clients |-> NoToken]
  /\ sessions = 0
  /\ codes = [c \in Clients |-> 0]
  /\ requests = [r \in Requests |-> NoRequest]
  /\ rejected = FALSE

-----------------------------------------------------------------------------
(* What the statements test. *)

(* verifySession, and the same conditions inside the game statements. *)
SignedIn(t) ==
  /\ session.hash # 0
  /\ session.expires > t
  /\ access_status = "active"
  /\ membership_status = "eligible"
  /\ membership_checked_at + Day > t

(* Mistakes these statements could have made; each breaks a property. *)
ActiveWithoutItsSession(c) ==
  token[c].code # 0 /\ enabled[c] /\ token[c].expires > now /\ SignedIn(now)
KeepExpiry(h, t) ==
  IF session.hash # 0 THEN [session EXCEPT !.hash = h]
  ELSE [hash |-> h, expires |-> t + Day, row |-> h]
SessionOfTwoDays(h, t) ==
  [hash |-> h, expires |-> t + Day + Day,
   row |-> IF session.hash = 0 THEN h ELSE session.row]
StatusLeftAlone == membership_status
FullDay(q) == q.time + Day
BuysAgain(q) ==
  q.known /\ code[q.client].hash = q.code /\ code[q.client].expires > q.time
OnlyWhileValid(q) ==
  /\ code[q.client].hash = q.code
  /\ code[q.client].consumed
  /\ code[q.client].expires > now

(* introspectGameAccessToken answers active for the token c holds. *)
Active(c) ==
  /\ token[c].code # 0
  /\ enabled[c]
  /\ token[c].expires > now
  /\ session.hash = token[c].source
  /\ SignedIn(now)

-----------------------------------------------------------------------------
(* What the statements write. *)

SessionAfterLogin(h, t) ==
  [hash |-> h, expires |-> t + Day,
   row |-> IF session.hash = 0 THEN h ELSE session.row]

StatusAfterReject == "ineligible"

(* A token ends with the session that bought it, if that is sooner. *)
TokenExpiry(q) == IF q.expires < q.time + Day THEN q.expires ELSE q.time + Day

(* consume_code: the presented code is this client's, unspent and unexpired. *)
Redeemable(q) ==
  /\ q.known
  /\ code[q.client].hash = q.code
  /\ ~code[q.client].consumed
  /\ code[q.client].expires > q.time

(* verify_source_session: the sign-in that was issued the code still holds. *)
SourceVerified(q) == q.session # 0 /\ q.session = code[q.client].source

(* consumed_code of the second statement. *)
SeenConsumed(q) == code[q.client].hash = q.code /\ code[q.client].consumed

Consumed(c) == [code EXCEPT ![c].consumed = TRUE]

-----------------------------------------------------------------------------
(* Statements in flight. *)

Begin(r, q) ==
  /\ requests[r].op = "none"
  /\ requests' = [requests EXCEPT ![r] = q]
  /\ UNCHANGED <<now, account, session, enabled, code, token, sessions, codes,
                 rejected>>

End(r) == requests' = [requests EXCEPT ![r] = NoRequest]

(* The statement failed, or the function that ran it died: the routes       *)
(* answer 503 or nothing at all, and the remaining statements do not run.   *)
Abort(r) ==
  /\ requests[r].op # "none"
  /\ End(r)
  /\ UNCHANGED <<now, account, session, enabled, code, token, sessions, codes,
                 rejected>>

-----------------------------------------------------------------------------
(* The Discord callback: the gate found the visitor eligible, or not. *)

BeginLogin(r) == Begin(r, [NoRequest EXCEPT !.op = "login", !.time = now])

(* issueLoginSession; a suspended account is left alone. *)
FinishLogin(r) ==
  /\ requests[r].op = "login"
  /\ End(r)
  /\ \/ /\ access_status = "active"
        /\ sessions < MaxSessions
        /\ membership_status' = "eligible"
        /\ membership_checked_at' = requests[r].time
        /\ sessions' = sessions + 1
        /\ session' = SessionAfterLogin(sessions + 1, requests[r].time)
        /\ rejected' = FALSE
     \/ /\ access_status = "suspended"
        /\ UNCHANGED <<membership_status, membership_checked_at, sessions,
                       session, rejected>>
  /\ UNCHANGED <<now, access_status, enabled, code, token, codes>>

(* recordIneligibleAccount, when its snapshot shows the account and active. *)
BeginReject(r) ==
  /\ membership_status # "none"
  /\ access_status = "active"
  /\ Begin(r, [NoRequest EXCEPT !.op = "reject", !.time = now,
                                !.row = session.row])

(* No such account, or a suspended one: the statement writes nothing. *)
RejectNothing ==
  /\ membership_status = "none" \/ access_status = "suspended"
  /\ rejected' = TRUE
  /\ UNCHANGED <<now, account, session, enabled, code, token, sessions, codes,
                 requests>>

FinishReject(r) ==
  /\ requests[r].op = "reject"
  /\ End(r)
  /\ rejected' = TRUE
  /\ \/ /\ access_status = "active"
        /\ membership_status' = StatusAfterReject
        /\ membership_checked_at' = requests[r].time
        /\ session' = IF session.row = requests[r].row THEN NoSession ELSE session
     \/ /\ access_status = "suspended"
        /\ UNCHANGED <<membership_status, membership_checked_at, session>>
  /\ UNCHANGED <<now, access_status, enabled, code, token, sessions, codes>>

(* deleteSessionByTokenHash, for the browser that holds the session.        *)
(* Another cookie's hash deletes nothing.                                   *)
Logout ==
  /\ session.hash # 0
  /\ session' = NoSession
  /\ UNCHANGED <<now, account, enabled, code, token, sessions, codes, requests,
                 rejected>>

-----------------------------------------------------------------------------
(* The authorize routes: issueGameAuthorizationCode. *)

(* verified_session and verified_client are read from the snapshot; without *)
(* either the statement writes nothing.                                     *)
BeginIssue(r, c) ==
  /\ SignedIn(now)
  /\ enabled[c]
  /\ Begin(r, [NoRequest EXCEPT !.op = "issue", !.client = c, !.time = now,
                                !.session = session.hash])

FinishIssue(r) ==
  LET c == requests[r].client IN
  /\ requests[r].op = "issue"
  /\ codes[c] < MaxCodes
  /\ End(r)
  /\ codes' = [codes EXCEPT ![c] = @ + 1]
  /\ code' = [code EXCEPT ![c] =
       [hash |-> codes[c] + 1, source |-> requests[r].session,
        expires |-> requests[r].time + Minute, consumed |-> FALSE]]
  /\ UNCHANGED <<now, account, session, enabled, token, sessions, rejected>>

-----------------------------------------------------------------------------
(* The token route: exchangeGameAuthorizationCode, with a code issued to the *)
(* client before and its callback and verifier; with others no row matches   *)
(* in either statement.                                                      *)

BeginExchange(r, c) == \E h \in 1..codes[c] :
  Begin(r, [NoRequest EXCEPT
    !.op = "exchange", !.client = c, !.time = now, !.code = h,
    !.known = enabled[c],
    !.session = IF SignedIn(now) THEN session.hash ELSE 0,
    !.expires = IF SignedIn(now) THEN session.expires ELSE 0])

Redeem(r) ==
  LET q == requests[r]  c == q.client IN
  /\ q.op = "exchange"
  /\ Redeemable(q)
  /\ SourceVerified(q)
  /\ End(r)
  /\ code' = Consumed(c)
  /\ token' = [token EXCEPT ![c] =
       [code |-> q.code, source |-> code[c].source, expires |-> TokenExpiry(q),
        row |-> IF token[c].code = 0 THEN q.code ELSE token[c].row]]
  /\ UNCHANGED <<now, account, session, enabled, sessions, codes, rejected>>

(* No row returned: the code is spent all the same when only the session    *)
(* failed. The second statement is yet to run.                              *)
Refuse(r) ==
  LET q == requests[r]  c == q.client IN
  /\ q.op = "exchange"
  /\ ~(Redeemable(q) /\ SourceVerified(q))
  /\ code' = IF Redeemable(q) THEN Consumed(c) ELSE code
  /\ requests' = [requests EXCEPT ![r] =
       [NoRequest EXCEPT !.op = "refused", !.client = c, !.code = q.code,
                         !.replay = token[c].code = q.code]]
  /\ UNCHANGED <<now, account, session, enabled, token, sessions, codes,
                 rejected>>

Answered(q) == [q EXCEPT !.op = "answered", !.row = 0]

(* The second statement reads whether the code row names this code, spent. *)
BeginRevocation(r) ==
  LET q == requests[r] IN
  /\ q.op = "refused"
  /\ requests' = [requests EXCEPT ![r] =
       IF SeenConsumed(q)
       THEN [q EXCEPT !.op = "revoking", !.row = token[q.client].row]
       ELSE Answered(q)]
  /\ UNCHANGED <<now, account, session, enabled, code, token, sessions, codes,
                 rejected>>

(* It deletes the client's token row, whatever that row holds by then; a    *)
(* row inserted meanwhile is not in its snapshot.                           *)
FinishRevocation(r) ==
  LET q == requests[r]  c == q.client IN
  /\ q.op = "revoking"
  /\ requests' = [requests EXCEPT ![r] = Answered(q)]
  /\ token' = IF token[c].row = q.row THEN [token EXCEPT ![c] = NoToken] ELSE token
  /\ UNCHANGED <<now, account, session, enabled, code, sessions, codes,
                 rejected>>

(* The answer, invalid_grant, reaches the client. *)
Receive(r) ==
  /\ requests[r].op = "answered"
  /\ End(r)
  /\ UNCHANGED <<now, account, session, enabled, code, token, sessions, codes,
                 rejected>>

(* revokeGameAccessToken with the token c holds; another deletes nothing. *)
Revoke(c) ==
  /\ token[c].code # 0
  /\ token' = [token EXCEPT ![c] = NoToken]
  /\ UNCHANGED <<now, account, session, enabled, code, sessions, codes,
                 requests, rejected>>

-----------------------------------------------------------------------------
(* The maintainers, by SQL: a suspension deletes the session before it is  *)
(* lifted, and clients are enabled and disabled.                           *)

Suspend ==
  /\ membership_status # "none"
  /\ access_status = "active"
  /\ access_status' = "suspended"
  /\ UNCHANGED <<now, membership_status, membership_checked_at, session,
                 enabled, code, token, sessions, codes, requests, rejected>>

EndSuspendedSession ==
  /\ access_status = "suspended"
  /\ session.hash # 0
  /\ session' = NoSession
  /\ UNCHANGED <<now, account, enabled, code, token, sessions, codes, requests,
                 rejected>>

Reinstate ==
  /\ access_status = "suspended"
  /\ session.hash = 0
  /\ access_status' = "active"
  /\ UNCHANGED <<now, membership_status, membership_checked_at, session,
                 enabled, code, token, sessions, codes, requests, rejected>>

SetEnabled(c) ==
  /\ enabled' = [enabled EXCEPT ![c] = ~@]
  /\ UNCHANGED <<now, account, session, code, token, sessions, codes, requests,
                 rejected>>

Tick ==
  /\ now < MaxTime
  /\ now' = now + 1
  /\ UNCHANGED <<account, session, enabled, code, token, sessions, codes,
                 requests, rejected>>

-----------------------------------------------------------------------------
Next ==
  \/ \E r \in Requests :
       \/ Abort(r)
       \/ BeginLogin(r) \/ FinishLogin(r)
       \/ BeginReject(r) \/ FinishReject(r)
       \/ \E c \in Clients : BeginIssue(r, c) \/ BeginExchange(r, c)
       \/ FinishIssue(r)
       \/ Redeem(r) \/ Refuse(r)
       \/ BeginRevocation(r) \/ FinishRevocation(r) \/ Receive(r)
  \/ \E c \in Clients : Revoke(c) \/ SetEnabled(c)
  \/ RejectNothing \/ Logout
  \/ Suspend \/ EndSuspendedSession \/ Reinstate
  \/ Tick

Spec == Init /\ [][Next]_vars
-----------------------------------------------------------------------------
(* A token of the present sign-in does not outlive its session, whatever    *)
(* exchange and sign-in statements were in flight together.                 *)
TokenWithinSession == \A c \in Clients :
  token[c].code # 0 /\ token[c].source = session.hash
    => token[c].expires <= session.expires

(* The session of an eligible account and its membership check run out      *)
(* together: a sign-in writes both or neither, and no interleaving with     *)
(* other sign-ins, rejections and sign-outs pairs one with another's.       *)
MembershipWindowIsSession ==
  membership_status = "eligible" /\ session.hash # 0
    => session.expires = membership_checked_at + Day

(* After a confirmed rejection no game is told the member is signed in      *)
(* until a sign-in commits, though a session may have been inserted while   *)
(* the rejection ran, and a suspension may have been lifted since.          *)
RejectionEndsAccess == rejected => \A c \in Clients : ~Active(c)

(* Access that ended stays ended: of the tokens that are not active, only   *)
(* those of a disabled client can become active again, by enabling it. No   *)
(* sign-in, reinstatement or late statement revives a token.                *)
InactiveStaysInactive == [][\A c \in Clients :
  enabled[c] /\ ~Active(c) /\ token[c].code # 0 /\ token'[c] = token[c]
    => ~Active(c)']_vars

(* When a refused exchange of a code that had already bought the token is   *)
(* answered, that token is gone, provided no newer code has been issued.    *)
ReplayVoidsToken == \A r \in Requests :
  LET q == requests[r] IN
  q.op = "answered" /\ q.replay /\ code[q.client].hash = q.code
    => token[q.client].code # q.code

(* docs/GAME_OAUTH.md:71-72, "Do not retry a consumed code: replay revokes  *)
(* the corresponding active game token", without that provision.            *)
ReplayRevokes == \A r \in Requests :
  LET q == requests[r] IN
  q.op = "answered" /\ q.replay => token[q.client].code # q.code

(* The codes and tokens of the tables are those the abstract grant allows:  *)
(* each code buys at most one token, and only while it is the newest.       *)
Grant == INSTANCE GameGrant WITH
  newest <- codes,
  open <- [c \in Clients |-> code[c].hash # 0 /\ ~code[c].consumed],
  held <- [c \in Clients |-> token[c].code]
ImplementsGrants == Grant!Spec
=============================================================================
