--------------------------------- MODULE SignIn ---------------------------------
(***************************************************************************)
(* Signing in from a browser with several tabs and one cookie jar: the     *)
(* routes src/src/app/api/auth/discord/{login,callback}, auth/logout and   *)
(* auth/game/authorize and its resume, and the three cookies they set and  *)
(* clear (src/src/lib/auth/http.ts).                                       *)
(*                                                                         *)
(* A request carries the cookies of the moment it was sent, and its answer *)
(* changes those of the moment it arrives; the other tab may act in        *)
(* between.  The rows behind the cookies are GameAuth's: here an account   *)
(* has its session token and a statement may fail.  Signatures are taken   *)
(* to hold, so a cookie is the attempt, game request or session it names;  *)
(* its 600 seconds may pass at any moment.                                 *)
(***************************************************************************)
EXTENDS Naturals, Sequences

CONSTANTS
  Members,       \* Discord accounts the owner of the browser can consent with
  BrowserTabs,
  Denied,        \* what Discord answers when consent is withheld
  NoAnswer,
  MaxAttempts,   \* bound: logins begun, hence session tokens
  MaxGames       \* bound: requests a game brings to authorize

CookieNames == {"oauth", "game", "session"}
CookieSets == UNION {[names -> Nat] : names \in SUBSET CookieNames}

Routes == {"authorize", "login", "loginReturning", "callback", "resume", "logout"}
Places == Routes \cup {"page", "discord"}
Whys == {"failed", "code", "wait", "begun", "expired", "mismatch", "denied", "outage",
         "rejected", "suspended", "continue", "account", "refused", "signed out"}

ASSUME SignInAssumption ==
  NoAnswer \notin [why : Whys, cookies : CookieSets, next : Places]

VARIABLES
  jar,       \* __Host-oauth_state, __Host-game_authz, __Host-session; 0 is none
  tabs,      \* what each tab is at
  bound,     \* the game request each attempt was begun for, 0 for none
  spent,     \* attempts whose Discord code was redeemed: Discord takes it once
  games,     \* game requests so far
  owner,     \* the account of each session token
  row,       \* the token in the account's row of sessions, 0 for none
  ended,     \* observer: game requests the member saw end without a code
  crossed    \* observer: a session ended elsewhere, or two answers that change
             \* the session were on their way at once

signInVars == <<jar, tabs, bound, spent, games, owner, row, ended, crossed>>

\* A tab at a page, at Discord or waiting for an answer.  attempt and grant are
\* those in the address of a callback; game is the request brought to authorize.
EmptyJar == [oauth |-> 0, game |-> 0, session |-> 0]
Tab == [at |-> "page", attempt |-> 0, grant |-> Denied, game |-> 0,
        sent |-> EmptyJar, answer |-> NoAnswer]

SignInInit ==
  /\ jar = EmptyJar
  /\ tabs = [t \in BrowserTabs |-> Tab]
  /\ bound = <<>> /\ owner = <<>>
  /\ spent = {} /\ games = 0
  /\ row = [m \in Members |-> 0]
  /\ ended = {} /\ crossed = FALSE

-----------------------------------------------------------------------------
(* What an answer says: the cookies it sets, where it leads, and why. *)

Says(why, cookies, next) == [why |-> why, cookies |-> cookies, next |-> next]
Shows(why, cookies) == Says(why, cookies, "page")
None == [c \in {} |-> 0]
Clear(names) == [c \in names |-> 0]
Put(name, value) == [c \in {name} |-> value]
With(cookies, more) ==
  [c \in DOMAIN cookies \cup DOMAIN more |->
     IF c \in DOMAIN cookies THEN cookies[c] ELSE more[c]]

ChangesSession(answer) == "session" \in DOMAIN answer.cookies
SessionAnswersUnderWay ==
  {t \in BrowserTabs : tabs[t].answer # NoAnswer /\ ChangesSession(tabs[t].answer)}

SignedIn(session) == session # 0 /\ row[owner[session]] = session

\* The server answers tab t; nothing of the browser changes yet.
Answer(t, answer) ==
  /\ tabs' = [tabs EXCEPT ![t].answer = answer]
  /\ crossed' = (crossed \/ (ChangesSession(answer) /\ SessionAnswersUnderWay # {}))
  /\ UNCHANGED <<jar, ended>>
Only(t, answer) == Answer(t, answer) /\ UNCHANGED <<bound, spent, games, owner, row>>

Asked(t, route) == tabs[t].at = route /\ tabs[t].answer = NoAnswer

-----------------------------------------------------------------------------
(* The routes. *)

\* authorize: silent with a session; otherwise the request waits in a cookie.
\* An outage or a disabled client ends it with a page, and so it may always.
Authorize(t) ==
  /\ Asked(t, "authorize")
  /\ \/ Only(t, Shows("failed", None))
     \/ /\ SignedIn(tabs[t].sent.session)
        /\ Only(t, Shows("code", None))
     \/ /\ ~SignedIn(tabs[t].sent.session)
        /\ Only(t, Says("wait", Put("game", tabs[t].game), "loginReturning"))

BeginAttempt(t, game) ==
  /\ Len(bound) < MaxAttempts
  /\ bound' = Append(bound, game)
  /\ Answer(t, Says("begun", Put("oauth", Len(bound) + 1), "discord"))
  /\ UNCHANGED <<spent, games, owner, row>>

Login(t) == Asked(t, "login") /\ BeginAttempt(t, 0)

\* With return_to the attempt is bound to the game request in the cookie; the
\* cookie may be missing or may have grown old on the way.
LoginReturning(t) ==
  /\ Asked(t, "loginReturning")
  /\ \/ tabs[t].sent.game # 0 /\ BeginAttempt(t, tabs[t].sent.game)
     \/ Only(t, Shows("expired", Clear({"game"})))

\* terminalError and retryableError of the callback, and what a rejection and a sign-out clear.
KeepsTheRequest == Clear({"oauth"})
TerminalError == Clear({"oauth", "game"})
RetryableError == Clear({"oauth"})
ClearAll == Clear({"oauth", "game", "session"})
MatchesState(t) == tabs[t].sent.oauth = tabs[t].attempt

CallbackIgnored(t) ==
  /\ Asked(t, "callback")
  /\ Only(t, Shows("mismatch", None))      \* another attempt's, or too old

CallbackRefused(t) ==
  /\ Asked(t, "callback") /\ MatchesState(t)
  /\ \/ tabs[t].grant = Denied /\ Only(t, Shows("denied", TerminalError))
     \/ tabs[t].grant # Denied /\ Only(t, Shows("outage", RetryableError))

\* exchangeCodeAndCheckGuildRole: the code is redeemed with the verifier of the
\* state cookie, and Discord tells whether the member has the role today.
Exchanges(t) ==
  /\ Asked(t, "callback") /\ MatchesState(t)
  /\ tabs[t].grant # Denied /\ tabs[t].attempt \notin spent
  /\ spent' = spent \cup {tabs[t].attempt}

CallbackRejected(t) ==
  /\ Exchanges(t)
  /\ row' = [row EXCEPT ![tabs[t].grant] = 0]
  /\ Answer(t, Shows("rejected", ClearAll))
  /\ UNCHANGED <<bound, games, owner>>

\* Suspended, or the statement failed after the code was redeemed.
CallbackWithoutSession(t) ==
  /\ Exchanges(t)
  /\ \/ Answer(t, Shows("suspended", TerminalError))
     \/ Answer(t, Shows("outage", RetryableError))
  /\ UNCHANGED <<bound, games, owner, row>>

\* The sign-in continues to the game only if it was begun for the request in
\* the cookie, and that is not too old.
Continues(t) ==
  bound[tabs[t].attempt] # 0 /\ tabs[t].sent.game = bound[tabs[t].attempt]
CallbackSignsIn(t) ==
  LET token == Len(owner) + 1
      cookies == With(Put("session", token), RetryableError)
  IN /\ Exchanges(t)
     /\ owner' = Append(owner, tabs[t].grant)
     /\ row' = [row EXCEPT ![tabs[t].grant] = token]
     /\ \/ Continues(t) /\ Answer(t, Says("continue", cookies, "resume"))
        \/ Answer(t, Shows("account", With(cookies, Clear({"game"}))))
     /\ UNCHANGED <<bound, games>>

\* resume: the cookie may be old or missing, the session gone, the client
\* disabled; only an outage leaves the request for another try.
ResumeGame(t) ==
  /\ Asked(t, "resume")
  /\ \/ Only(t, Shows("refused", Clear({"game"})))
     \/ tabs[t].sent.game # 0 /\ tabs[t].sent.session # 0 /\ Only(t, Shows("outage", None))
     \/ /\ tabs[t].sent.game # 0 /\ SignedIn(tabs[t].sent.session)
        /\ Only(t, Shows("code", Clear({"game"})))

\* A cookie without a row behind it is cleared all the same; a statement that
\* failed leaves the cookies, so that sign-out is never reported in vain.
Logout(t) ==
  /\ Asked(t, "logout")
  /\ \/ tabs[t].sent.session # 0 /\ Only(t, Shows("outage", None))
     \/ /\ row' = [m \in Members |-> IF row[m] = tabs[t].sent.session THEN 0 ELSE row[m]]
        /\ Answer(t, Shows("signed out", ClearAll))
        /\ UNCHANGED <<bound, spent, games, owner>>

-----------------------------------------------------------------------------
(* The browser. *)

\* A tab at an address carries the cookies there.
Go(t, tab) ==
  tabs' = [tabs EXCEPT ![t] =
             IF tab.at \in {"page", "discord"} THEN tab ELSE [tab EXCEPT !.sent = jar']]

\* A link, an address or the back button.
Visit(t) ==
  /\ tabs[t].at \in {"page", "discord"} /\ jar' = jar
  /\ \/ /\ games < MaxGames /\ games' = games + 1
        /\ Go(t, [Tab EXCEPT !.at = "authorize", !.game = games + 1])
     \/ /\ \E route \in {"login", "resume", "logout"} : Go(t, [Tab EXCEPT !.at = route])
        /\ UNCHANGED games
  /\ UNCHANGED <<bound, spent, owner, row, ended, crossed>>

Consent(t) ==
  /\ tabs[t].at = "discord" /\ jar' = jar
  /\ \E grant \in Members \cup {Denied} :
       Go(t, [Tab EXCEPT !.at = "callback", !.attempt = tabs[t].attempt, !.grant = grant])
  /\ UNCHANGED <<bound, spent, games, owner, row, ended, crossed>>

\* The page of a callback still has the callback's address.
ReloadCallback(t) ==
  /\ tabs[t].at = "page" /\ tabs[t].attempt # 0 /\ jar' = jar
  /\ Go(t, [Tab EXCEPT !.at = "callback", !.attempt = tabs[t].attempt, !.grant = tabs[t].grant])
  /\ UNCHANGED <<bound, spent, games, owner, row, ended, crossed>>

\* The request that an answer tells the member is over.
Ends(tab) ==
  CASE tab.answer.why \in {"denied", "rejected", "suspended"} -> {bound[tab.attempt]}
    [] tab.answer.why \in {"account", "signed out"}           -> {tab.sent.game}
    [] OTHER                                                  -> {}

\* Cookies first, then the redirect with the cookies as they now are.
Arrive(t) ==
  LET tab == tabs[t]
      next == tab.answer.next
  IN /\ tab.answer # NoAnswer
     /\ jar' = With(tab.answer.cookies, jar)
     /\ Go(t, [Tab EXCEPT !.at = next,
                 !.attempt = CASE next = "discord" -> tab.answer.cookies.oauth
                               [] next = "page" /\ tab.answer.why # "account" -> tab.attempt
                               [] OTHER -> 0,
                 !.grant = IF next = "page" /\ tab.answer.why # "account"
                           THEN tab.grant ELSE Denied])
     /\ ended' = (ended \cup Ends(tab)) \ {0}
     /\ UNCHANGED <<bound, spent, games, owner, row, crossed>>

\* Max-Age of the browser.
Expire(c) ==
  /\ jar[c] # 0
  /\ jar' = [jar EXCEPT ![c] = 0]
  /\ UNCHANGED <<tabs, bound, spent, games, owner, row, ended, crossed>>

\* Another device signs in or out, a moderator or the clock ends the session.
EndElsewhere(m) ==
  /\ row[m] # 0 /\ row' = [row EXCEPT ![m] = 0]
  /\ crossed' = TRUE
  /\ UNCHANGED <<jar, tabs, bound, spent, games, owner, ended>>

SignInNext ==
  \/ \E t \in BrowserTabs :
       \/ Authorize(t) \/ Login(t) \/ LoginReturning(t)
       \/ CallbackIgnored(t) \/ CallbackRefused(t) \/ CallbackRejected(t)
       \/ CallbackWithoutSession(t) \/ CallbackSignsIn(t)
       \/ ResumeGame(t) \/ Logout(t)
       \/ Visit(t) \/ Consent(t) \/ ReloadCallback(t) \/ Arrive(t)
  \/ \E c \in {"oauth", "game"} : Expire(c)
  \/ \E m \in Members : EndElsewhere(m)

SignInSpec == SignInInit /\ [][SignInNext]_signInVars

-----------------------------------------------------------------------------
(* A game request that the member denied, that was refused with the sign-in  *)
(* begun for it, or that a plain sign-in or a sign-out left behind, waits in *)
(* the browser no longer, so no later visit resumes it.                      *)
EndedStaysEnded == jar.game \notin ended

(* The session cookie is the account's session: after a rejection, a         *)
(* sign-out or another sign-in no dead session stays in the browser, unless  *)
(* it was ended elsewhere or two answers crossed.                            *)
BrowserSessionLives ==
  ~crossed /\ SessionAnswersUnderWay = {} /\ jar.session # 0 => SignedIn(jar.session)

(* No tab resumes a game request that ended, and no dead session stays       *)
(* behind: the cookies of sign-in hold what the routes meant them to.        *)
SignInsBound == EndedStaysEnded /\ BrowserSessionLives
=============================================================================
