------------------------------ MODULE SignInProofs ------------------------------
(***************************************************************************)
(* SignInsBound for any number of tabs, members, sign-ins and game         *)
(* requests.  Neither half is inductive.  That a game request which ended  *)
(* stays ended needs that the one a tab brings to authorize was never seen *)
(* before (RequestsFresh), and what an answer under way may hold           *)
(* (TabsSound).  That the browser's session lives needs what the one       *)
(* answer under way that changes it says (SessionsAgree).                  *)
(***************************************************************************)
EXTENDS SignIn, TLAPS

Answers == [why : Whys, cookies : CookieSets, next : Places]
TabRecords ==
  [at : Places, attempt : Nat, grant : Members \cup {Denied}, game : Nat,
   sent : [CookieNames -> Nat], answer : Answers \cup {NoAnswer}]

SignInTypeOK ==
  /\ jar \in [CookieNames -> Nat]
  /\ tabs \in [BrowserTabs -> TabRecords]
  /\ bound \in Seq(Nat)
  /\ games \in Nat
  /\ owner \in Seq(Members)
  /\ row \in [Members -> Nat]
  /\ crossed \in BOOLEAN

\* An answer that ends a request, for the callback's attempt or for the cookie's.
EndsOfAttempts == {"denied", "rejected", "suspended"}
EndsOfCookies == {"account", "signed out"}

\* What an answer may say to a tab.
AnswerSound(tab, answer, attempts, tokens) ==
  LET cookies == answer.cookies
  IN /\ answer.next \notin {"authorize", "callback"}
     /\ answer.next = "discord" => "oauth" \in DOMAIN cookies /\ cookies["oauth"] \in 1..attempts
     /\ "game" \in DOMAIN cookies =>
          cookies["game"] = 0 \/ (tab.at = "authorize" /\ cookies["game"] = tab.game)
     /\ answer.why \in EndsOfAttempts \cup EndsOfCookies =>
          "game" \in DOMAIN cookies /\ cookies["game"] = 0
     /\ answer.why \in EndsOfAttempts => tab.attempt \in 1..attempts
     /\ "session" \in DOMAIN cookies => cookies["session"] \in 0..tokens

\* A tab at Discord or at its callback has an attempt that was begun.
TabSound(tab, attempts, tokens) ==
  /\ tab.attempt \in 0..attempts
  /\ tab.at \in {"discord", "callback"} => tab.attempt # 0
  /\ tab.answer # NoAnswer => AnswerSound(tab, tab.answer, attempts, tokens)

TabsSound == \A t \in BrowserTabs : TabSound(tabs[t], Len(bound), Len(owner))

\* A game request nobody has seen: no cookie, no attempt and no end of it.
Unseen(g) ==
  /\ jar["game"] # g /\ g \notin ended
  /\ \A i \in DOMAIN bound : bound[i] # g
  /\ \A t \in BrowserTabs : tabs[t].sent["game"] # g

RequestsKnown ==
  /\ jar["game"] \in 0..games
  /\ \A i \in DOMAIN bound : bound[i] \in 0..games
  /\ \A t \in BrowserTabs : tabs[t].game \in 0..games /\ tabs[t].sent["game"] \in 0..games
  /\ ended \subseteq 1..games

\* The request a tab brings to authorize is its own and unseen until the answer.
RequestsFresh ==
  \A t \in BrowserTabs : tabs[t].at = "authorize" =>
    /\ tabs[t].game # 0 /\ Unseen(tabs[t].game)
    /\ \A u \in BrowserTabs : u # t /\ tabs[u].at = "authorize" => tabs[u].game # tabs[t].game

SignInInv == SignInTypeOK /\ TabsSound /\ RequestsKnown /\ RequestsFresh /\ EndedStaysEnded
-----------------------------------------------------------------------------
(* What the routes write into an answer. *)

\* A function on some of the names is a set of cookies, and no other.
LEMMA CookieSetsAre ==
  ASSUME NEW names \in SUBSET CookieNames, NEW cookies \in [names -> Nat]
  PROVE  cookies \in CookieSets
  BY DEF CookieSets

LEMMA CookieSetsOnly ==
  ASSUME NEW cookies \in CookieSets
  PROVE  DOMAIN cookies \subseteq CookieNames /\ cookies \in [DOMAIN cookies -> Nat]
  <1>1. PICK names \in SUBSET CookieNames : cookies \in [names -> Nat]
    BY DEF CookieSets
  <1> QED BY <1>1

\* Clearing, putting and both.
LEMMA ClearsCookies ==
  ASSUME NEW names \in SUBSET CookieNames
  PROVE  /\ Clear(names) \in CookieSets /\ DOMAIN Clear(names) = names
         /\ \A c \in names : Clear(names)[c] = 0
  BY CookieSetsAre DEF Clear

LEMMA PutsCookie ==
  ASSUME NEW name \in CookieNames, NEW value \in Nat
  PROVE  /\ Put(name, value) \in CookieSets /\ DOMAIN Put(name, value) = {name}
         /\ Put(name, value)[name] = value
  <1>1. Put(name, value) \in [{name} -> Nat] /\ {name} \in SUBSET CookieNames
    BY DEF Put
  <1> QED BY <1>1, CookieSetsAre DEF Put

LEMMA WithCookies ==
  ASSUME NEW some \in CookieSets, NEW more \in CookieSets
  PROVE  /\ With(some, more) \in CookieSets
         /\ DOMAIN With(some, more) = DOMAIN some \cup DOMAIN more
         /\ \A c \in DOMAIN some : With(some, more)[c] = some[c]
         /\ \A c \in DOMAIN more \ DOMAIN some : With(some, more)[c] = more[c]
  <1>1. /\ DOMAIN some \subseteq CookieNames /\ some \in [DOMAIN some -> Nat]
        /\ DOMAIN more \subseteq CookieNames /\ more \in [DOMAIN more -> Nat]
    BY CookieSetsOnly
  <1>2. With(some, more) \in [DOMAIN some \cup DOMAIN more -> Nat]
    BY <1>1 DEF With
  <1> QED BY <1>1, <1>2, CookieSetsAre DEF With

LEMMA NoCookies == None \in CookieSets /\ DOMAIN None = {}
  <1>1. {} \in SUBSET CookieNames /\ None \in [{} -> Nat]
    BY DEF None
  <1> QED BY <1>1, CookieSetsAre

\* The jar after an answer.
LEMMA JarTakes ==
  ASSUME NEW some \in CookieSets, NEW j \in [CookieNames -> Nat]
  PROVE  /\ With(some, j) \in [CookieNames -> Nat]
         /\ \A c \in DOMAIN some : With(some, j)[c] = some[c]
         /\ \A c \in CookieNames \ DOMAIN some : With(some, j)[c] = j[c]
  <1>1. DOMAIN some \subseteq CookieNames /\ some \in [DOMAIN some -> Nat]
    BY CookieSetsOnly
  <1> QED BY <1>1 DEF With
-----------------------------------------------------------------------------
(* The server.  Every route ends in an answer; a sign-in may begin an attempt *)
(* or a session on the way.                                                    *)

BeginsAtMostOne(t) == bound' = bound \/ bound' = Append(bound, 0)
                      \/ bound' = Append(bound, tabs[t].sent["game"])
SignsInAtMostOne == owner' = owner \/ \E m \in Members : owner' = Append(owner, m)

\* A list with one more entry.
LEMMA OneMore ==
  ASSUME NEW S, NEW list \in Seq(S), NEW e \in S
  PROVE  /\ Append(list, e) \in Seq(S) /\ Len(Append(list, e)) = Len(list) + 1
         /\ Len(list) \in Nat
         /\ Append(list, e)[Len(list) + 1] = e
         /\ \A i \in DOMAIN Append(list, e) :
              \/ i \in DOMAIN list /\ Append(list, e)[i] = list[i]
              \/ i = Len(list) + 1 /\ Append(list, e)[i] = e
  OBVIOUS

\* What such an answer leaves as it was.
LEMMA ServerAnswers ==
  ASSUME SignInInv, NEW t \in BrowserTabs, NEW a \in Answers, Answer(t, a),
         BeginsAtMostOne(t), SignsInAtMostOne, games' = games, row' \in [Members -> Nat],
         AnswerSound(tabs[t], a, Len(bound'), Len(owner'))
  PROVE  SignInInv'
  <1>1. /\ tabs' = [tabs EXCEPT ![t].answer = a] /\ jar' = jar /\ ended' = ended
        /\ crossed' \in BOOLEAN
    BY DEF Answer, SignInInv, SignInTypeOK
  <1>2. tabs[t] \in TabRecords /\ tabs[t].sent["game"] \in Nat
    BY DEF SignInInv, SignInTypeOK, TabRecords, CookieNames
  <1>3. /\ bound' \in Seq(Nat) /\ Len(bound) <= Len(bound')
        /\ \A i \in DOMAIN bound' : (i \in DOMAIN bound /\ bound'[i] = bound[i])
                                   \/ bound'[i] = 0 \/ bound'[i] = tabs[t].sent["game"]
    <2>1. bound \in Seq(Nat) /\ Len(bound) \in Nat
      BY DEF SignInInv, SignInTypeOK
    <2>2. CASE bound' = bound
      BY <2>1, <2>2
    <2>3. CASE bound' = Append(bound, 0)
      BY <2>1, <2>3, OneMore
    <2>4. CASE bound' = Append(bound, tabs[t].sent["game"])
      BY <1>2, <2>1, <2>4, OneMore
    <2> QED BY <2>2, <2>3, <2>4 DEF BeginsAtMostOne
  <1>4. owner' \in Seq(Members) /\ Len(owner) <= Len(owner')
    <2>1. owner \in Seq(Members) /\ Len(owner) \in Nat
      BY DEF SignInInv, SignInTypeOK
    <2> QED BY <2>1, OneMore DEF SignsInAtMostOne
  <1>5. /\ Len(bound) \in Nat /\ Len(bound') \in Nat
        /\ Len(owner) \in Nat /\ Len(owner') \in Nat
    BY <1>3, <1>4 DEF SignInInv, SignInTypeOK
  <1>6. tabs' \in [BrowserTabs -> TabRecords]
    BY <1>1, <1>2 DEF SignInInv, SignInTypeOK, TabRecords
  <1>7. \A u \in BrowserTabs :
          /\ tabs'[u].at = tabs[u].at /\ tabs'[u].attempt = tabs[u].attempt
          /\ tabs'[u].game = tabs[u].game /\ tabs'[u].sent = tabs[u].sent
          /\ tabs'[u].answer = IF u = t THEN a ELSE tabs[u].answer
    BY <1>1 DEF SignInInv, SignInTypeOK, TabRecords
  <1>8. SignInTypeOK'
    BY <1>1, <1>3, <1>4, <1>6 DEF SignInInv, SignInTypeOK
  <1>9. TabsSound'
    <2> SUFFICES ASSUME NEW u \in BrowserTabs
                 PROVE  TabSound(tabs'[u], Len(bound'), Len(owner'))
      BY DEF TabsSound
    <2>1. TabSound(tabs[u], Len(bound), Len(owner)) /\ tabs[u].attempt \in Nat
      BY DEF SignInInv, TabsSound, SignInTypeOK, TabRecords
    <2>2. tabs'[u].attempt \in 0..Len(bound')
      BY <2>1, <1>3, <1>5, <1>7 DEF TabSound
    <2>3. tabs'[u].at \in {"discord", "callback"} => tabs'[u].attempt # 0
      BY <2>1, <1>7 DEF TabSound
    <2>4. CASE u = t
      <3>1. AnswerSound(tabs'[t], a, Len(bound'), Len(owner'))
        BY <1>7 DEF AnswerSound
      <3> QED BY <2>2, <2>3, <2>4, <3>1, <1>7 DEF TabSound
    <2>5. CASE u # t /\ tabs[u].answer = NoAnswer
      BY <2>2, <2>3, <2>5, <1>7 DEF TabSound
    <2>6. CASE u # t /\ tabs[u].answer # NoAnswer
      <3>1. AnswerSound(tabs[u], tabs[u].answer, Len(bound), Len(owner))
        BY <2>1, <2>6 DEF TabSound
      <3>2. AnswerSound(tabs[u], tabs[u].answer, Len(bound'), Len(owner'))
        BY <3>1, <1>3, <1>4, <1>5 DEF AnswerSound
      <3>3. AnswerSound(tabs'[u], tabs'[u].answer, Len(bound'), Len(owner'))
        BY <3>2, <2>6, <1>7 DEF AnswerSound
      <3> QED BY <2>2, <2>3, <3>3 DEF TabSound
    <2> QED BY <2>4, <2>5, <2>6
  <1>10. RequestsKnown'
    <2>1. RequestsKnown /\ games \in Nat
      BY DEF SignInInv, SignInTypeOK
    <2>2. \A i \in DOMAIN bound' : bound'[i] \in 0..games
      BY <1>3, <2>1 DEF RequestsKnown
    <2> QED BY <1>1, <1>7, <2>1, <2>2 DEF RequestsKnown
  <1>11. RequestsFresh'
    BY <1>1, <1>3, <1>7 DEF SignInInv, RequestsFresh, Unseen
  <1>12. EndedStaysEnded'
    BY <1>1 DEF SignInInv, EndedStaysEnded
  <1> QED BY <1>8, <1>9, <1>10, <1>11, <1>12 DEF SignInInv

LEMMA OnlyAnswers ==
  ASSUME SignInInv, NEW t \in BrowserTabs, NEW a \in Answers, Only(t, a),
         AnswerSound(tabs[t], a, Len(bound), Len(owner))
  PROVE  SignInInv'
  <1>1. /\ Answer(t, a) /\ games' = games /\ bound' = bound /\ owner' = owner
        /\ row' \in [Members -> Nat]
    BY DEF Only, SignInInv, SignInTypeOK
  <1> QED BY <1>1, ServerAnswers DEF BeginsAtMostOne, SignsInAtMostOne

\* What an answer says.
LEMMA SaysIsAnswer ==
  ASSUME NEW why \in Whys, NEW cookies \in CookieSets, NEW next \in Places,
         NEW a, a = Says(why, cookies, next)
  PROVE  a \in Answers /\ a.why = why /\ a.next = next /\ a.cookies = cookies
  BY DEF Says, Answers, Whys, Places, Routes

\* An answer without cookies, and one that clears some.
LEMMA ShowsNothing ==
  ASSUME NEW tab, NEW why \in Whys \ (EndsOfAttempts \cup EndsOfCookies),
         NEW attempts, NEW tokens, NEW a, a = Shows(why, None)
  PROVE  a \in Answers /\ AnswerSound(tab, a, attempts, tokens)
  <1>1. a \in Answers /\ a.why = why /\ a.next = "page" /\ a.cookies = None
    BY NoCookies DEF Shows, Says, Answers, Places
  <1> QED BY <1>1, NoCookies DEF AnswerSound

LEMMA ShowsClearing ==
  ASSUME NEW names \in SUBSET CookieNames, NEW why \in Whys, NEW tab,
         NEW attempts \in Nat, NEW tokens \in Nat,
         why \in EndsOfAttempts \cup EndsOfCookies => "game" \in names,
         why \in EndsOfAttempts => tab.attempt \in 1..attempts,
         NEW a, a = Shows(why, Clear(names))
  PROVE  a \in Answers /\ AnswerSound(tab, a, attempts, tokens)
  <1>1. Clear(names) \in CookieSets /\ DOMAIN Clear(names) = names
        /\ \A c \in names : Clear(names)[c] = 0
    BY ClearsCookies
  <1>2. a \in Answers /\ a.why = why /\ a.next = "page" /\ a.cookies = Clear(names)
    BY <1>1 DEF Shows, Says, Answers, Places
  <1> QED BY <1>1, <1>2 DEF AnswerSound

\* The lengths are numbers, a tab's cookies and game request too.
LEMMA Counts ==
  ASSUME SignInInv, NEW t \in BrowserTabs
  PROVE  /\ Len(bound) \in Nat /\ Len(owner) \in Nat
         /\ tabs[t] \in TabRecords /\ tabs[t].game \in Nat /\ tabs[t].attempt \in Nat
         /\ tabs[t].sent \in [CookieNames -> Nat]
         /\ tabs[t].sent["game"] \in Nat
  BY DEF SignInInv, SignInTypeOK, TabRecords, CookieNames

\* A page that changes no cookie, and one that clears some, when nothing else moves.
LEMMA OnlyShows ==
  ASSUME SignInInv, NEW t \in BrowserTabs,
         NEW why \in Whys \ (EndsOfAttempts \cup EndsOfCookies), Only(t, Shows(why, None))
  PROVE  SignInInv'
  <1>1. PICK a : a = Shows(why, None)
    OBVIOUS
  <1>2. a \in Answers /\ AnswerSound(tabs[t], a, Len(bound), Len(owner))
    BY <1>1, ShowsNothing
  <1> QED BY <1>1, <1>2, OnlyAnswers

LEMMA AnswerClears ==
  ASSUME SignInInv, NEW t \in BrowserTabs, NEW names \in SUBSET CookieNames, NEW why \in Whys,
         why \in EndsOfAttempts \cup EndsOfCookies => "game" \in names,
         why \in EndsOfAttempts => tabs[t].attempt \in 1..Len(bound),
         Answer(t, Shows(why, Clear(names))),
         bound' = bound, games' = games, owner' = owner, row' \in [Members -> Nat]
  PROVE  SignInInv'
  <1>1. PICK a : a = Shows(why, Clear(names))
    OBVIOUS
  <1>2. a \in Answers /\ AnswerSound(tabs[t], a, Len(bound), Len(owner))
    BY <1>1, Counts, ShowsClearing
  <1>3. Answer(t, a) /\ BeginsAtMostOne(t) /\ SignsInAtMostOne
    BY <1>1 DEF BeginsAtMostOne, SignsInAtMostOne
  <1> QED BY <1>2, <1>3, ServerAnswers

LEMMA OnlyClears ==
  ASSUME SignInInv, NEW t \in BrowserTabs, NEW names \in SUBSET CookieNames, NEW why \in Whys,
         why \in EndsOfAttempts \cup EndsOfCookies => "game" \in names,
         why \in EndsOfAttempts => tabs[t].attempt \in 1..Len(bound),
         Only(t, Shows(why, Clear(names)))
  PROVE  SignInInv'
  <1>1. /\ Answer(t, Shows(why, Clear(names))) /\ row' \in [Members -> Nat]
        /\ bound' = bound /\ games' = games /\ owner' = owner
    BY DEF Only, SignInInv, SignInTypeOK
  <1> QED BY <1>1, AnswerClears
-----------------------------------------------------------------------------
(* Route by route. *)

LEMMA AuthorizeKeeps ==
  ASSUME SignInInv, NEW t \in BrowserTabs, Authorize(t)
  PROVE  SignInInv'
  <1>1. CASE Only(t, Shows("failed", None))
    BY <1>1, OnlyShows DEF Whys, EndsOfAttempts, EndsOfCookies
  <1>2. CASE Only(t, Shows("code", None))
    BY <1>2, OnlyShows DEF Whys, EndsOfAttempts, EndsOfCookies
  <1>3. CASE Only(t, Says("wait", Put("game", tabs[t].game), "loginReturning"))
    <2>1. PICK cookies : cookies = Put("game", tabs[t].game)
      OBVIOUS
    <2>2. PICK a : a = Says("wait", cookies, "loginReturning")
      OBVIOUS
    <2>3. cookies \in CookieSets /\ DOMAIN cookies = {"game"} /\ cookies["game"] = tabs[t].game
      BY <2>1, Counts, PutsCookie DEF CookieNames
    <2>4. a \in Answers /\ a.why = "wait" /\ a.next = "loginReturning" /\ a.cookies = cookies
      BY <2>2, <2>3 DEF Says, Answers, Whys, Places, Routes
    <2>5. tabs[t].at = "authorize"
      BY DEF Authorize, Asked
    <2>6. AnswerSound(tabs[t], a, Len(bound), Len(owner))
      BY <2>3, <2>4, <2>5 DEF AnswerSound, EndsOfAttempts, EndsOfCookies
    <2>7. Only(t, a)
      BY <1>3, <2>1, <2>2
    <2> QED BY <2>4, <2>6, <2>7, OnlyAnswers
  <1> QED BY <1>1, <1>2, <1>3 DEF Authorize

LEMMA BeginAttemptKeeps ==
  ASSUME SignInInv, NEW t \in BrowserTabs, NEW game,
         game = 0 \/ game = tabs[t].sent["game"], BeginAttempt(t, game)
  PROVE  SignInInv'
  <1>1. PICK n : n = Len(bound) + 1
    OBVIOUS
  <1>2. PICK cookies : cookies = Put("oauth", n)
    OBVIOUS
  <1>3. PICK a : a = Says("begun", cookies, "discord")
    OBVIOUS
  <1>4. Len(bound) \in Nat /\ n \in Nat /\ game \in Nat
    BY <1>1, Counts
  <1>5. cookies \in CookieSets /\ DOMAIN cookies = {"oauth"} /\ cookies["oauth"] = n
    BY <1>2, <1>4, PutsCookie DEF CookieNames
  <1>6. a \in Answers /\ a.why = "begun" /\ a.next = "discord" /\ a.cookies = cookies
    BY <1>3, <1>5 DEF Says, Answers, Whys, Places, Routes
  <1>7. /\ Answer(t, a) /\ bound' = Append(bound, game) /\ owner' = owner /\ games' = games
        /\ row' = row
    BY <1>1, <1>2, <1>3 DEF BeginAttempt
  <1>8. Len(bound') = n
    BY <1>1, <1>4, <1>7, OneMore DEF SignInInv, SignInTypeOK
  <1>9. AnswerSound(tabs[t], a, Len(bound'), Len(owner'))
    BY <1>1, <1>4, <1>5, <1>6, <1>8 DEF AnswerSound, EndsOfAttempts, EndsOfCookies
  <1>10. row' \in [Members -> Nat]
    BY <1>7 DEF SignInInv, SignInTypeOK
  <1>11. BeginsAtMostOne(t) /\ SignsInAtMostOne
    BY <1>7 DEF BeginsAtMostOne, SignsInAtMostOne
  <1> QED BY <1>6, <1>7, <1>9, <1>10, <1>11, ServerAnswers

LEMMA LoginKeeps ==
  ASSUME SignInInv, NEW t \in BrowserTabs, Login(t) \/ LoginReturning(t)
  PROVE  SignInInv'
  <1>1. CASE BeginAttempt(t, 0)
    BY <1>1, BeginAttemptKeeps
  <1>2. CASE BeginAttempt(t, tabs[t].sent["game"])
    BY <1>2, BeginAttemptKeeps
  <1>3. CASE Only(t, Shows("expired", Clear({"game"})))
    BY <1>3, OnlyClears DEF Whys, CookieNames, EndsOfAttempts, EndsOfCookies
  <1> QED BY <1>1, <1>2, <1>3 DEF Login, LoginReturning

LEMMA CallbackAnswersKeep ==
  ASSUME SignInInv, NEW t \in BrowserTabs, CallbackIgnored(t) \/ CallbackRefused(t)
  PROVE  SignInInv'
  <1>1. tabs[t].attempt \in 1..Len(bound)
    BY Counts DEF SignInInv, TabsSound, TabSound, CallbackIgnored, CallbackRefused, Asked
  <1>2. CASE Only(t, Shows("mismatch", None))
    BY <1>2, OnlyShows DEF Whys, EndsOfAttempts, EndsOfCookies
  <1>3. CASE Only(t, Shows("denied", TerminalError))
    BY <1>1, <1>3, OnlyClears DEF Whys, CookieNames, TerminalError
  <1>4. CASE Only(t, Shows("outage", RetryableError))
    BY <1>4, OnlyClears DEF Whys, CookieNames, RetryableError, EndsOfAttempts, EndsOfCookies
  <1> QED BY <1>2, <1>3, <1>4 DEF CallbackIgnored, CallbackRefused

\* The callback that redeemed the code was begun, by a member who consented.
LEMMA ExchangeBegun ==
  ASSUME SignInInv, NEW t \in BrowserTabs, Exchanges(t)
  PROVE  /\ tabs[t].attempt \in 1..Len(bound) /\ tabs[t].grant \in Members
         /\ tabs[t].answer = NoAnswer
  BY Counts DEF SignInInv, TabsSound, TabSound, Exchanges, Asked, SignInTypeOK, TabRecords

LEMMA CallbackEndsKeep ==
  ASSUME SignInInv, NEW t \in BrowserTabs, CallbackRejected(t) \/ CallbackWithoutSession(t)
  PROVE  SignInInv'
  <1>1. /\ tabs[t].attempt \in 1..Len(bound) /\ row' \in [Members -> Nat]
        /\ bound' = bound /\ games' = games /\ owner' = owner
    <2>1. Exchanges(t) /\ bound' = bound /\ games' = games /\ owner' = owner
      BY DEF CallbackRejected, CallbackWithoutSession
    <2>2. row' = [row EXCEPT ![tabs[t].grant] = 0] \/ row' = row
      BY DEF CallbackRejected, CallbackWithoutSession
    <2>3. row' \in [Members -> Nat]
      BY <2>2 DEF SignInInv, SignInTypeOK
    <2> QED BY <2>1, <2>3, ExchangeBegun
  <1>2. CASE Answer(t, Shows("rejected", ClearAll))
    BY <1>1, <1>2, AnswerClears DEF Whys, CookieNames, ClearAll
  <1>3. CASE Answer(t, Shows("suspended", TerminalError))
    BY <1>1, <1>3, AnswerClears DEF Whys, CookieNames, TerminalError
  <1>4. CASE Answer(t, Shows("outage", RetryableError))
    BY <1>1, <1>4, AnswerClears DEF Whys, CookieNames, RetryableError, EndsOfAttempts, EndsOfCookies
  <1> QED BY <1>2, <1>3, <1>4 DEF CallbackRejected, CallbackWithoutSession

\* The cookies of a sign-in: a session, the attempt's cookie cleared, and
\* unless it continues to the game, its request's too.
LEMMA SignInCookies ==
  ASSUME NEW token \in Nat, NEW cookies, NEW all,
         cookies = With(Put("session", token), RetryableError),
         all = With(cookies, Clear({"game"}))
  PROVE  /\ cookies \in CookieSets /\ DOMAIN cookies = {"session", "oauth"}
         /\ cookies["session"] = token
         /\ all \in CookieSets /\ DOMAIN all = {"session", "oauth", "game"}
         /\ all["session"] = token /\ all["game"] = 0
  <1>1. PICK put : put = Put("session", token)
    OBVIOUS
  <1>2. PICK done : done = Clear({"oauth"})
    OBVIOUS
  <1>3. PICK over : over = Clear({"game"})
    OBVIOUS
  <1>4. put \in CookieSets /\ DOMAIN put = {"session"} /\ put["session"] = token
    BY <1>1, PutsCookie DEF CookieNames
  <1>5. done \in CookieSets /\ DOMAIN done = {"oauth"}
    BY <1>2, ClearsCookies DEF CookieNames
  <1>6. over \in CookieSets /\ DOMAIN over = {"game"} /\ over["game"] = 0
    BY <1>3, ClearsCookies DEF CookieNames
  <1>7. cookies = With(put, done) /\ all = With(cookies, over)
    BY <1>1, <1>2, <1>3 DEF RetryableError
  <1>8. /\ cookies \in CookieSets /\ DOMAIN cookies = {"session", "oauth"}
        /\ cookies["session"] = token
    <2>1. /\ cookies \in CookieSets /\ DOMAIN cookies = DOMAIN put \cup DOMAIN done
          /\ \A c \in DOMAIN put : cookies[c] = put[c]
      <3>1. put \in CookieSets /\ done \in CookieSets
        BY <1>4, <1>5
      <3>2. cookies = With(put, done)
        BY <1>7
      <3>3. /\ With(put, done) \in CookieSets
            /\ DOMAIN With(put, done) = DOMAIN put \cup DOMAIN done
            /\ \A c \in DOMAIN put : With(put, done)[c] = put[c]
        BY <3>1, WithCookies
      <3> QED BY <3>2, <3>3
    <2> QED BY <1>4, <1>5, <2>1
  <1>9. /\ all \in CookieSets /\ DOMAIN all = {"session", "oauth", "game"}
        /\ all["session"] = token /\ all["game"] = 0
    <2>1. /\ all \in CookieSets /\ DOMAIN all = DOMAIN cookies \cup DOMAIN over
          /\ \A c \in DOMAIN cookies : all[c] = cookies[c]
          /\ \A c \in DOMAIN over \ DOMAIN cookies : all[c] = over[c]
      BY <1>6, <1>7, <1>8, WithCookies
    <2> QED BY <1>6, <1>8, <2>1
  <1> QED BY <1>8, <1>9

LEMMA CallbackSignsInKeeps ==
  ASSUME SignInInv, NEW t \in BrowserTabs, CallbackSignsIn(t)
  PROVE  SignInInv'
  <1>1. PICK token : token = Len(owner) + 1
    OBVIOUS
  <1>2. PICK cookies : cookies = With(Put("session", token), RetryableError)
    OBVIOUS
  <1>3. PICK all : all = With(cookies, Clear({"game"}))
    OBVIOUS
  <1>4. /\ owner' = Append(owner, tabs[t].grant) /\ row' = [row EXCEPT ![tabs[t].grant] = token]
        /\ bound' = bound /\ games' = games
        /\ \/ Answer(t, Says("continue", cookies, "resume"))
           \/ Answer(t, Shows("account", all))
    BY <1>1, <1>2, <1>3 DEF CallbackSignsIn, Exchanges
  <1>5. token \in Nat /\ tabs[t].grant \in Members /\ Len(owner) \in Nat /\ owner \in Seq(Members)
    <2>1. Exchanges(t)
      BY DEF CallbackSignsIn
    <2>2. tabs[t].grant \in Members
      BY <2>1, ExchangeBegun
    <2>3. Len(owner) \in Nat /\ owner \in Seq(Members)
      BY Counts DEF SignInInv, SignInTypeOK
    <2> QED BY <1>1, <2>2, <2>3
  <1>6. Len(owner') = token
    BY <1>1, <1>4, <1>5, OneMore
  <1>7. /\ cookies \in CookieSets /\ DOMAIN cookies = {"session", "oauth"}
        /\ cookies["session"] = token
        /\ all \in CookieSets /\ DOMAIN all = {"session", "oauth", "game"}
        /\ all["session"] = token /\ all["game"] = 0
    BY <1>2, <1>3, <1>5, SignInCookies
  <1>8. row' \in [Members -> Nat] /\ BeginsAtMostOne(t) /\ SignsInAtMostOne
    BY <1>4, <1>5 DEF SignInInv, SignInTypeOK, BeginsAtMostOne, SignsInAtMostOne
  <1>9. CASE Answer(t, Says("continue", cookies, "resume"))
    <2>1. PICK a : a = Says("continue", cookies, "resume")
      OBVIOUS
    <2>2. a \in Answers /\ a.why = "continue" /\ a.next = "resume" /\ a.cookies = cookies
      BY <1>7, <2>1 DEF Says, Answers, Whys, Places, Routes
    <2>3. AnswerSound(tabs[t], a, Len(bound'), Len(owner'))
      BY <1>5, <1>6, <1>7, <2>2 DEF AnswerSound, EndsOfAttempts, EndsOfCookies
    <2> QED BY <1>4, <1>8, <1>9, <2>1, <2>2, <2>3, ServerAnswers
  <1>10. CASE Answer(t, Shows("account", all))
    <2>1. PICK a : a = Shows("account", all)
      OBVIOUS
    <2>2. a \in Answers /\ a.why = "account" /\ a.next = "page" /\ a.cookies = all
      BY <1>7, <2>1 DEF Shows, Says, Answers, Whys, Places
    <2>3. AnswerSound(tabs[t], a, Len(bound'), Len(owner'))
      BY <1>5, <1>6, <1>7, <2>2 DEF AnswerSound, EndsOfAttempts, EndsOfCookies
    <2> QED BY <1>4, <1>8, <1>10, <2>1, <2>2, <2>3, ServerAnswers
  <1> QED BY <1>4, <1>9, <1>10

LEMMA ResumeAndLogoutKeep ==
  ASSUME SignInInv, NEW t \in BrowserTabs, ResumeGame(t) \/ Logout(t)
  PROVE  SignInInv'
  <1>1. CASE \/ Only(t, Shows("refused", Clear({"game"})))
             \/ Only(t, Shows("code", Clear({"game"})))
    BY <1>1, OnlyClears DEF Whys, CookieNames, EndsOfAttempts, EndsOfCookies
  <1>2. CASE Only(t, Shows("outage", None))
    BY <1>2, OnlyShows DEF Whys, EndsOfAttempts, EndsOfCookies
  <1>3. CASE /\ row' = [m \in Members |-> IF row[m] = tabs[t].sent.session THEN 0 ELSE row[m]]
             /\ Answer(t, Shows("signed out", ClearAll))
             /\ UNCHANGED <<bound, spent, games, owner>>
    <2>1. row' \in [Members -> Nat]
      BY <1>3 DEF SignInInv, SignInTypeOK
    <2> QED BY <1>3, <2>1, AnswerClears DEF Whys, CookieNames, ClearAll, EndsOfAttempts
  <1> QED BY <1>1, <1>2, <1>3 DEF ResumeGame, Logout
-----------------------------------------------------------------------------
(* The browser.  A tab goes to a new address; an answer that arrives may      *)
(* change the cookies first, and a request may be over with it.               *)

LEMMA EmptyJarIs == EmptyJar \in [CookieNames -> Nat] /\ \A c \in CookieNames : EmptyJar[c] = 0
  <1>1. EmptyJar = [c \in CookieNames |-> 0]
    BY DEF EmptyJar, CookieNames
  <1> QED BY <1>1

LEMMA TabIs ==
  /\ Tab.at = "page" /\ Tab.attempt = 0 /\ Tab.grant = Denied /\ Tab.game = 0
  /\ Tab.sent = EmptyJar /\ Tab.answer = NoAnswer
  /\ Tab \in TabRecords
  BY EmptyJarIs DEF Tab, TabRecords, Places

LEMMA TabGoes ==
  ASSUME SignInInv, NEW t \in BrowserTabs, NEW tab \in TabRecords, Go(t, tab),
         tab.answer = NoAnswer, tab.sent = EmptyJar,
         tab.attempt \in 0..Len(bound), tab.at \in {"discord", "callback"} => tab.attempt # 0,
         bound' = bound, owner' = owner, row' = row, crossed' = crossed,
         games' \in {games, games + 1}, tab.game \in 0..games',
         jar' \in [CookieNames -> Nat], jar'["game"] \in 0..games,
         ended' \subseteq 1..games, jar'["game"] \notin ended',
         tab.at = "authorize" => tab.game = games + 1,
         \A u \in BrowserTabs : u # t /\ tabs[u].at = "authorize" =>
           jar'["game"] # tabs[u].game /\ tabs[u].game \notin ended'
  PROVE  SignInInv'
  <1>1. PICK new : new = IF tab.at \in {"page", "discord"} THEN tab ELSE [tab EXCEPT !.sent = jar']
    OBVIOUS
  <1>2. new \in TabRecords
    BY <1>1 DEF TabRecords
  <1>3. /\ new.at = tab.at /\ new.attempt = tab.attempt /\ new.game = tab.game
        /\ new.answer = NoAnswer /\ new.sent \in {EmptyJar, jar'}
    BY <1>1 DEF TabRecords
  <1>4. tabs' = [tabs EXCEPT ![t] = new]
    BY <1>1 DEF Go
  <1>5. tabs' \in [BrowserTabs -> TabRecords] /\ tabs'[t] = new
        /\ \A u \in BrowserTabs : u # t => tabs'[u] = tabs[u]
    BY <1>2, <1>4 DEF SignInInv, SignInTypeOK
  <1>6. games \in Nat /\ games' \in Nat /\ Len(bound) \in Nat
    BY DEF SignInInv, SignInTypeOK
  <1>7. SignInTypeOK'
    BY <1>5, <1>6 DEF SignInInv, SignInTypeOK
  <1>8. TabsSound'
    <2> SUFFICES ASSUME NEW u \in BrowserTabs
                 PROVE  TabSound(tabs'[u], Len(bound), Len(owner))
      BY DEF TabsSound
    <2>1. CASE u = t
      BY <1>3, <1>5, <2>1 DEF TabSound
    <2>2. CASE u # t
      BY <1>5, <2>2 DEF SignInInv, TabsSound
    <2> QED BY <2>1, <2>2
  <1>9. new.sent["game"] \in 0..games /\ (new.sent["game"] = 0 \/ new.sent["game"] = jar'["game"])
    BY <1>3, <1>6, EmptyJarIs DEF CookieNames
  <1>10. RequestsKnown'
    <2>1. /\ \A i \in DOMAIN bound : bound[i] \in 0..games
          /\ \A u \in BrowserTabs : tabs[u].game \in 0..games /\ tabs[u].sent["game"] \in 0..games
      BY DEF SignInInv, RequestsKnown
    <2>2. 0..games \subseteq 0..games' /\ 1..games \subseteq 1..games'
      BY <1>6
    <2>3. \A u \in BrowserTabs :
            tabs'[u].game \in 0..games' /\ tabs'[u].sent["game"] \in 0..games'
      BY <1>3, <1>5, <1>9, <2>1, <2>2
    <2> QED BY <2>1, <2>2, <2>3 DEF RequestsKnown
  <1>11. RequestsFresh'
    <2> SUFFICES ASSUME NEW v \in BrowserTabs, tabs'[v].at = "authorize"
                 PROVE  /\ tabs'[v].game # 0 /\ Unseen(tabs[v].game)'
                        /\ \A u \in BrowserTabs : u # v /\ tabs'[u].at = "authorize" =>
                             tabs'[u].game # tabs'[v].game
      BY DEF RequestsFresh
    <2>1. CASE v = t
      <3>1. tabs'[v].game = games + 1
        BY <1>3, <1>5, <2>1
      <3>2. /\ \A i \in DOMAIN bound : bound[i] \in 0..games
            /\ \A u \in BrowserTabs : tabs[u].game \in 0..games /\ tabs[u].sent["game"] \in 0..games
        BY DEF SignInInv, RequestsKnown
      <3>3. games + 1 # 0 /\ games + 1 \notin 0..games /\ games + 1 \notin 1..games
        BY <1>6
      <3>4. \A u \in BrowserTabs : tabs'[u].sent["game"] \in 0..games
        BY <1>5, <1>9, <3>2
      <3>5. \A u \in BrowserTabs : u # v => tabs'[u].game \in 0..games
        BY <1>5, <2>1, <3>2
      <3> QED BY <3>1, <3>2, <3>3, <3>4, <3>5 DEF Unseen
    <2>2. CASE v # t
      <3>1. tabs'[v] = tabs[v] /\ tabs[v].at = "authorize"
        BY <1>5, <2>2
      <3>2. /\ tabs[v].game # 0 /\ Unseen(tabs[v].game)
            /\ \A u \in BrowserTabs : u # v /\ tabs[u].at = "authorize" =>
                 tabs[u].game # tabs[v].game
            /\ tabs[v].game \in 0..games
        BY <3>1 DEF SignInInv, RequestsFresh, RequestsKnown
      <3>3. jar'["game"] # tabs[v].game /\ tabs[v].game \notin ended'
        BY <2>2, <3>1
      <3>4. \A u \in BrowserTabs : tabs'[u].sent["game"] # tabs[v].game
        BY <1>5, <1>9, <3>2, <3>3 DEF Unseen
      <3>5. Unseen(tabs[v].game)'
        BY <3>1, <3>2, <3>3, <3>4 DEF Unseen
      <3>6. games + 1 # tabs[v].game
        BY <1>6, <3>2
      <3> QED BY <1>3, <1>5, <3>1, <3>2, <3>5, <3>6
    <2> QED BY <2>1, <2>2
  <1>12. EndedStaysEnded'
    BY DEF EndedStaysEnded
  <1> QED BY <1>7, <1>8, <1>10, <1>11, <1>12 DEF SignInInv

\* The cookies stay: only the tab's own address is new.
LEMMA TabGoesOn ==
  ASSUME SignInInv, NEW t \in BrowserTabs, NEW tab \in TabRecords, Go(t, tab),
         tab.answer = NoAnswer, tab.sent = EmptyJar, tab.game = 0, tab.at # "authorize",
         tab.attempt \in 0..Len(bound), tab.at \in {"discord", "callback"} => tab.attempt # 0,
         UNCHANGED <<jar, bound, games, owner, row, ended, crossed>>
  PROVE  SignInInv'
  <1>1. /\ jar' \in [CookieNames -> Nat] /\ jar'["game"] \in 0..games /\ games \in Nat
        /\ ended' \subseteq 1..games /\ jar'["game"] \notin ended'
    BY DEF SignInInv, SignInTypeOK, RequestsKnown, EndedStaysEnded
  <1>2. \A u \in BrowserTabs : u # t /\ tabs[u].at = "authorize" =>
           jar'["game"] # tabs[u].game /\ tabs[u].game \notin ended'
    BY DEF SignInInv, RequestsFresh, Unseen
  <1>3. tab.game \in 0..games'
    BY <1>1
  <1> QED BY <1>1, <1>2, <1>3, TabGoes

LEMMA VisitKeeps ==
  ASSUME SignInInv, NEW t \in BrowserTabs, Visit(t)
  PROVE  SignInInv'
  <1>1. UNCHANGED <<jar, bound, owner, row, ended, crossed>> /\ games \in Nat
    BY DEF Visit, SignInInv, SignInTypeOK
  <1>2. CASE games' = games + 1 /\ Go(t, [Tab EXCEPT !.at = "authorize", !.game = games + 1])
    <2>1. PICK tab : tab = [Tab EXCEPT !.at = "authorize", !.game = games + 1]
      OBVIOUS
    <2>2. tab \in TabRecords
      <3>1. games + 1 \in Nat /\ "authorize" \in Places
        BY <1>1 DEF Places, Routes
      <3> QED BY <2>1, <3>1, TabIs DEF TabRecords
    <2>3. /\ tab.at = "authorize" /\ tab.game = games + 1 /\ tab.attempt = 0
          /\ tab.sent = EmptyJar /\ tab.answer = NoAnswer
      BY <2>1, TabIs DEF TabRecords
    <2>4. /\ jar' \in [CookieNames -> Nat] /\ jar'["game"] \in 0..games
          /\ ended' \subseteq 1..games /\ jar'["game"] \notin ended'
      BY <1>1 DEF SignInInv, SignInTypeOK, RequestsKnown, EndedStaysEnded
    <2>5. \A u \in BrowserTabs : u # t /\ tabs[u].at = "authorize" =>
             jar'["game"] # tabs[u].game /\ tabs[u].game \notin ended'
      BY <1>1 DEF SignInInv, RequestsFresh, Unseen
    <2>6. tab.game \in 0..games' /\ tab.attempt \in 0..Len(bound) /\ games' \in {games, games + 1}
      BY <1>1, <1>2, <2>3, Counts
    <2>7. Go(t, tab) /\ bound' = bound /\ owner' = owner /\ row' = row /\ crossed' = crossed
      BY <1>1, <1>2, <2>1
    <2> QED BY <2>2, <2>3, <2>4, <2>5, <2>6, <2>7, TabGoes
  <1>3. ASSUME NEW route \in {"login", "resume", "logout"}, Go(t, [Tab EXCEPT !.at = route]),
               games' = games
        PROVE  SignInInv'
    <2>1. PICK tab : tab = [Tab EXCEPT !.at = route]
      OBVIOUS
    <2>2. tab \in TabRecords
      BY <2>1, TabIs DEF TabRecords, Places, Routes
    <2>3. /\ tab.at \notin {"authorize", "discord", "callback"} /\ tab.game = 0 /\ tab.attempt = 0
          /\ tab.sent = EmptyJar /\ tab.answer = NoAnswer
      BY <2>1, TabIs DEF TabRecords
    <2>4. tab.attempt \in 0..Len(bound)
      BY <2>3, Counts
    <2> QED BY <1>1, <1>3, <2>1, <2>2, <2>3, <2>4, TabGoesOn
  <1> QED BY <1>2, <1>3 DEF Visit

LEMMA ToCallbackKeeps ==
  ASSUME SignInInv, NEW t \in BrowserTabs, NEW grant \in Members \cup {Denied},
         tabs[t].attempt # 0,
         Go(t, [Tab EXCEPT !.at = "callback", !.attempt = tabs[t].attempt, !.grant = grant]),
         UNCHANGED <<jar, bound, games, owner, row, ended, crossed>>
  PROVE  SignInInv'
  <1>1. PICK tab : tab = [Tab EXCEPT !.at = "callback", !.attempt = tabs[t].attempt, !.grant = grant]
    OBVIOUS
  <1>2. tabs[t].attempt \in 0..Len(bound) /\ tabs[t].attempt \in Nat
    BY Counts DEF SignInInv, TabsSound, TabSound
  <1>3. tab \in TabRecords
    BY <1>1, <1>2, TabIs DEF TabRecords, Places, Routes
  <1>4. /\ tab.at = "callback" /\ tab.game = 0 /\ tab.attempt = tabs[t].attempt
        /\ tab.sent = EmptyJar /\ tab.answer = NoAnswer
    BY <1>1, TabIs DEF TabRecords
  <1> QED BY <1>1, <1>2, <1>3, <1>4, TabGoesOn

LEMMA CallbackVisitsKeep ==
  ASSUME SignInInv, NEW t \in BrowserTabs, Consent(t) \/ ReloadCallback(t)
  PROVE  SignInInv'
  <1>1. tabs[t].attempt # 0 /\ UNCHANGED <<jar, bound, games, owner, row, ended, crossed>>
    BY DEF Consent, ReloadCallback, SignInInv, TabsSound, TabSound
  <1>2. tabs[t].grant \in Members \cup {Denied}
    BY Counts DEF TabRecords
  <1>3. PICK grant \in Members \cup {Denied} :
          Go(t, [Tab EXCEPT !.at = "callback", !.attempt = tabs[t].attempt, !.grant = grant])
    BY <1>2 DEF Consent, ReloadCallback
  <1> QED BY <1>1, <1>3, ToCallbackKeeps

LEMMA ArriveKeeps ==
  ASSUME SignInInv, NEW t \in BrowserTabs, Arrive(t)
  PROVE  SignInInv'
  <1>1. PICK old : old = tabs[t]
    OBVIOUS
  <1>2. PICK a : a = old.answer
    OBVIOUS
  <1>3. PICK cookies : cookies = a.cookies
    OBVIOUS
  <1>4. PICK tab : tab =
          [Tab EXCEPT !.at = a.next,
             !.attempt = CASE a.next = "discord" -> cookies["oauth"]
                           [] a.next = "page" /\ a.why # "account" -> old.attempt
                           [] OTHER -> 0,
             !.grant = IF a.next = "page" /\ a.why # "account" THEN old.grant ELSE Denied]
    OBVIOUS
  <1>5. /\ a # NoAnswer /\ jar' = With(cookies, jar) /\ Go(t, tab)
        /\ ended' = (ended \cup Ends(old)) \ {0}
        /\ UNCHANGED <<bound, games, owner, row, crossed>>
    BY <1>1, <1>2, <1>3, <1>4 DEF Arrive
  <1>6. old \in TabRecords /\ a \in Answers /\ cookies \in CookieSets
    BY <1>1, <1>2, <1>3, <1>5, Counts DEF TabRecords, Answers
  <1>7. AnswerSound(old, a, Len(bound), Len(owner)) /\ old.attempt \in 0..Len(bound)
    BY <1>1, <1>2, <1>5 DEF SignInInv, TabsSound, TabSound
  <1>8. DOMAIN cookies \subseteq CookieNames /\ cookies \in [DOMAIN cookies -> Nat]
    BY <1>6, CookieSetsOnly
  <1>9. /\ jar' \in [CookieNames -> Nat]
        /\ \A c \in DOMAIN cookies : jar'[c] = cookies[c]
        /\ \A c \in CookieNames \ DOMAIN cookies : jar'[c] = jar[c]
    <2>1. jar \in [CookieNames -> Nat]
      BY DEF SignInInv, SignInTypeOK
    <2>2. /\ With(cookies, jar) \in [CookieNames -> Nat]
          /\ \A c \in DOMAIN cookies : With(cookies, jar)[c] = cookies[c]
          /\ \A c \in CookieNames \ DOMAIN cookies : With(cookies, jar)[c] = jar[c]
      BY <1>6, <2>1, JarTakes
    <2> QED BY <1>5, <2>2
  <1>10. /\ Len(bound) \in Nat /\ games \in Nat /\ jar["game"] \in 0..games
         /\ jar["game"] \notin ended /\ ended \subseteq 1..games
         /\ old.game \in 0..games /\ old.sent["game"] \in 0..games
         /\ \A i \in DOMAIN bound : bound[i] \in 0..games
         /\ DOMAIN bound = 1..Len(bound)
    BY <1>1, Counts DEF SignInInv, SignInTypeOK, RequestsKnown, EndedStaysEnded
  <1>11. \/ jar'["game"] = 0 /\ "game" \in DOMAIN cookies
         \/ jar'["game"] = jar["game"] /\ "game" \notin DOMAIN cookies
         \/ jar'["game"] = old.game /\ old.at = "authorize" /\ a.why \notin EndsOfAttempts \cup EndsOfCookies
    <2>1. CASE "game" \in DOMAIN cookies
      BY <1>3, <1>7, <1>9, <2>1 DEF AnswerSound
    <2>2. CASE "game" \notin DOMAIN cookies
      BY <1>9, <2>2 DEF CookieNames
    <2> QED BY <2>1, <2>2
  <1>12. \/ Ends(old) = {} /\ a.why \notin EndsOfAttempts \cup EndsOfCookies
         \/ /\ a.why \in EndsOfAttempts \cup EndsOfCookies
            /\ Ends(old) = {bound[old.attempt]} /\ old.attempt \in DOMAIN bound
         \/ /\ a.why \in EndsOfAttempts \cup EndsOfCookies
            /\ Ends(old) = {old.sent["game"]}
    <2>1. CASE a.why \in EndsOfAttempts
      <3>1. old.attempt \in DOMAIN bound
        BY <1>7, <1>10, <2>1 DEF AnswerSound
      <3> QED BY <1>2, <2>1, <3>1 DEF Ends, EndsOfAttempts
    <2>2. CASE a.why \in EndsOfCookies
      BY <1>2, <2>2 DEF Ends, EndsOfCookies
    <2>3. CASE a.why \notin EndsOfAttempts \cup EndsOfCookies
      BY <1>2, <2>3 DEF Ends, EndsOfAttempts, EndsOfCookies
    <2> QED BY <2>1, <2>2, <2>3
  <1>13. Ends(old) \subseteq 0..games /\ ended' \subseteq 1..games
    <2>1. old.attempt \in DOMAIN bound => bound[old.attempt] \in 0..games
      BY <1>10
    <2>2. Ends(old) \subseteq 0..games
      BY <1>10, <1>12, <2>1
    <2>3. \A g \in 0..games : g # 0 => g \in 1..games
      BY <1>10
    <2>4. \A g \in ended' : g \in 1..games
      BY <1>5, <1>10, <2>2, <2>3
    <2> QED BY <2>2, <2>4
  <1>14. a.why \in EndsOfAttempts \cup EndsOfCookies => jar'["game"] = 0
    BY <1>3, <1>7, <1>9 DEF AnswerSound
  <1>15. old.at = "authorize" => old.game # 0 /\ old.game \notin ended
    BY <1>1 DEF SignInInv, RequestsFresh, Unseen
  <1>16. jar'["game"] \in 0..games /\ jar'["game"] \notin ended'
    BY <1>5, <1>10, <1>11, <1>12, <1>14, <1>15
  <1>17. ASSUME NEW u \in BrowserTabs, u # t, tabs[u].at = "authorize"
         PROVE  jar'["game"] # tabs[u].game /\ tabs[u].game \notin ended'
    <2>1. /\ tabs[u].game # 0 /\ tabs[u].game # jar["game"] /\ tabs[u].game \notin ended
          /\ \A i \in DOMAIN bound : bound[i] # tabs[u].game
          /\ old.sent["game"] # tabs[u].game
          /\ old.at = "authorize" => old.game # tabs[u].game
      BY <1>1, <1>17 DEF SignInInv, RequestsFresh, Unseen
    <2> QED BY <1>5, <1>11, <1>12, <2>1
  <1>18. /\ tab \in TabRecords /\ tab.at = a.next /\ tab.game = 0
         /\ tab.sent = EmptyJar /\ tab.answer = NoAnswer
         /\ tab.attempt \in 0..Len(bound) /\ (a.next = "discord" => tab.attempt # 0)
    <2>1. a.next \in Places /\ old.grant \in Members \cup {Denied} /\ old.attempt \in Nat
      BY <1>6 DEF Answers, TabRecords
    <2>2. a.next = "discord" => cookies["oauth"] \in 1..Len(bound)
      BY <1>3, <1>7 DEF AnswerSound
    <2>3. PICK attempt : attempt = CASE a.next = "discord" -> cookies["oauth"]
                           [] a.next = "page" /\ a.why # "account" -> old.attempt
                           [] OTHER -> 0
      OBVIOUS
    <2>4. attempt \in 0..Len(bound) /\ (a.next = "discord" => attempt # 0)
      <3>1. CASE a.next = "discord"
        BY <1>10, <2>2, <2>3, <3>1
      <3>2. CASE a.next = "page" /\ a.why # "account"
        BY <1>7, <2>3, <3>2
      <3>3. CASE a.next # "discord" /\ ~(a.next = "page" /\ a.why # "account")
        BY <1>10, <2>3, <3>3
      <3> QED BY <3>1, <3>2, <3>3
    <2>5. PICK grant : grant = IF a.next = "page" /\ a.why # "account" THEN old.grant ELSE Denied
      OBVIOUS
    <2>6. grant \in Members \cup {Denied} /\ attempt \in Nat
      BY <1>10, <2>1, <2>4, <2>5
    <2>7. tab = [Tab EXCEPT !.at = a.next, !.attempt = attempt, !.grant = grant]
      BY <1>4, <2>3, <2>5
    <2>8. tab \in TabRecords
      BY <2>1, <2>6, <2>7, TabIs DEF TabRecords
    <2>9. /\ tab.at = a.next /\ tab.game = 0 /\ tab.attempt = attempt
          /\ tab.sent = EmptyJar /\ tab.answer = NoAnswer
      BY <2>7, TabIs DEF TabRecords
    <2> QED BY <2>4, <2>8, <2>9
  <1>19. a.next \notin {"authorize", "callback"}
    BY <1>7 DEF AnswerSound
  <1>20. tab.game \in 0..games' /\ games' \in {games, games + 1}
    BY <1>5, <1>10, <1>18
  <1> QED BY <1>5, <1>9, <1>13, <1>16, <1>17, <1>18, <1>19, <1>20, TabGoes
-----------------------------------------------------------------------------
(* The session.  Unless something crossed, one answer at most is on its way    *)
(* that changes the session, what it sets is nothing or the account's token,   *)
(* and with none on its way the browser's is the account's.                    *)

SessionAnswer(t) == tabs[t].answer # NoAnswer /\ "session" \in DOMAIN tabs[t].answer.cookies
Alive(token) == token \in 1..Len(owner) /\ row[owner[token]] = token

SessionsAgree ==
  /\ \A t, u \in BrowserTabs : SessionAnswer(t) /\ SessionAnswer(u) => t = u
  /\ \A t \in BrowserTabs : SessionAnswer(t) =>
       tabs[t].answer.cookies["session"] = 0 \/ Alive(tabs[t].answer.cookies["session"])
  /\ (\A t \in BrowserTabs : ~SessionAnswer(t)) => jar["session"] = 0 \/ Alive(jar["session"])

RoutesAnswer == \A t \in BrowserTabs : tabs[t].answer # NoAnswer => tabs[t].at \in Routes

SessionsInv == RoutesAnswer /\ (~crossed => SessionsAgree)

LEMMA AnswerAgrees ==
  ASSUME SignInInv, SessionsInv, NEW t \in BrowserTabs, NEW a \in Answers, Answer(t, a),
         tabs[t].answer = NoAnswer, tabs[t].at \in Routes,
         \/ owner' = owner /\ row' = row /\ "session" \notin DOMAIN a.cookies
         \/ "session" \in DOMAIN a.cookies
            /\ (a.cookies["session"] = 0 \/ Alive(a.cookies["session"])')
  PROVE  SessionsInv'
  <1>1. /\ tabs' = [tabs EXCEPT ![t].answer = a] /\ jar' = jar
        /\ crossed' = (crossed \/ (ChangesSession(a) /\ SessionAnswersUnderWay # {}))
    BY DEF Answer
  <1>2. \A u \in BrowserTabs :
          /\ tabs'[u].at = tabs[u].at
          /\ tabs'[u].answer = IF u = t THEN a ELSE tabs[u].answer
    BY <1>1 DEF SignInInv, SignInTypeOK, TabRecords
  <1>3. RoutesAnswer'
    BY <1>2 DEF SessionsInv, RoutesAnswer
  <1>4. a # NoAnswer
    BY SignInAssumption DEF Answers
  <1>5. ~SessionAnswer(t) /\ (SessionAnswer(t)' <=> "session" \in DOMAIN a.cookies)
        /\ \A u \in BrowserTabs : u # t => (SessionAnswer(u)' <=> SessionAnswer(u))
    BY <1>2, <1>4 DEF SessionAnswer
  <1>6. ASSUME ~crossed' PROVE SessionsAgree'
    <2>1. SessionsAgree
      BY <1>1, <1>6 DEF SessionsInv
    <2>2. CASE owner' = owner /\ row' = row /\ "session" \notin DOMAIN a.cookies
      <3>1. \A u \in BrowserTabs : (SessionAnswer(u)' <=> SessionAnswer(u))
        BY <1>5, <2>2
      <3>2. \A u \in BrowserTabs : SessionAnswer(u)' => tabs'[u].answer = tabs[u].answer
        BY <1>2, <1>5, <2>2
      <3>3. \A k : Alive(k)' <=> Alive(k)
        BY <2>2 DEF Alive
      <3> QED BY <1>1, <2>1, <3>1, <3>2, <3>3 DEF SessionsAgree
    <2>3. CASE "session" \in DOMAIN a.cookies
               /\ (a.cookies["session"] = 0 \/ Alive(a.cookies["session"])')
      <3>1. \A u \in BrowserTabs : ~SessionAnswer(u)
        BY <1>1, <1>6, <2>3 DEF ChangesSession, SessionAnswersUnderWay, SessionAnswer
      <3>2. \A u \in BrowserTabs : SessionAnswer(u)' <=> u = t
        BY <1>5, <2>3, <3>1
      <3>3. tabs'[t].answer = a
        BY <1>2
      <3> QED BY <2>3, <3>2, <3>3 DEF SessionsAgree
    <2> QED BY <2>2, <2>3
  <1> QED BY <1>3, <1>6 DEF SessionsInv

\* An answer that leaves the session alone.
LEMMA PlainAnswer ==
  ASSUME SignInInv, SessionsInv, NEW t \in BrowserTabs,
         NEW why \in Whys, NEW cookies \in CookieSets, NEW next \in Places,
         "session" \notin DOMAIN cookies, Answer(t, Says(why, cookies, next)),
         tabs[t].answer = NoAnswer, tabs[t].at \in Routes, owner' = owner, row' = row
  PROVE  SessionsInv'
  <1>1. PICK a : a = Says(why, cookies, next)
    OBVIOUS
  <1>2. a \in Answers /\ a.cookies = cookies
    BY <1>1, SaysIsAnswer
  <1> QED BY <1>1, <1>2, AnswerAgrees

\* An answer that clears every cookie.
LEMMA FullAnswer ==
  ASSUME SignInInv, SessionsInv, NEW t \in BrowserTabs, NEW why \in Whys,
         Answer(t, Shows(why, ClearAll)), tabs[t].answer = NoAnswer, tabs[t].at \in Routes
  PROVE  SessionsInv'
  <1>1. PICK names : names = {"oauth", "game", "session"}
    OBVIOUS
  <1>2. PICK cookies : cookies = Clear(names)
    OBVIOUS
  <1>3. names \in SUBSET CookieNames
    BY <1>1 DEF CookieNames
  <1>4. cookies \in CookieSets /\ "session" \in DOMAIN cookies /\ cookies["session"] = 0
    <2>1. /\ Clear(names) \in CookieSets /\ DOMAIN Clear(names) = names
          /\ \A c \in names : Clear(names)[c] = 0
      BY <1>3, ClearsCookies
    <2> QED BY <1>1, <1>2, <2>1
  <1>5. PICK a : a = Says(why, cookies, "page")
    OBVIOUS
  <1>6. a \in Answers /\ a.cookies = cookies
    BY <1>4, <1>5 DEF Says, Answers, Places
  <1>7. Answer(t, a)
    BY <1>1, <1>2, <1>5 DEF ClearAll, Shows
  <1> QED BY <1>4, <1>6, <1>7, AnswerAgrees

LEMMA PlainCookies ==
  /\ None \in CookieSets /\ "session" \notin DOMAIN None
  /\ Clear({"game"}) \in CookieSets /\ "session" \notin DOMAIN Clear({"game"})
  /\ TerminalError \in CookieSets /\ "session" \notin DOMAIN TerminalError
  /\ RetryableError \in CookieSets /\ "session" \notin DOMAIN RetryableError
  <1>1. {"game"} \in SUBSET CookieNames /\ {"oauth", "game"} \in SUBSET CookieNames
        /\ {"oauth"} \in SUBSET CookieNames
    BY DEF CookieNames
  <1>2. Clear({"game"}) \in CookieSets /\ "session" \notin DOMAIN Clear({"game"})
    BY <1>1, ClearsCookies
  <1>3. TerminalError \in CookieSets /\ "session" \notin DOMAIN TerminalError
    BY <1>1, ClearsCookies DEF TerminalError
  <1>4. RetryableError \in CookieSets /\ "session" \notin DOMAIN RetryableError
    BY <1>1, ClearsCookies DEF RetryableError
  <1> QED BY <1>2, <1>3, <1>4, NoCookies

LEMMA PutLeavesSession ==
  ASSUME NEW name \in {"oauth", "game"}, NEW value \in Nat
  PROVE  Put(name, value) \in CookieSets /\ "session" \notin DOMAIN Put(name, value)
  <1>1. name \in CookieNames /\ "session" \notin {name}
    BY DEF CookieNames
  <1>2. Put(name, value) \in CookieSets /\ DOMAIN Put(name, value) = {name}
    BY <1>1, PutsCookie
  <1> QED BY <1>1, <1>2

\* A route's answer that leaves the session alone, or clears every cookie.
LEMMA RoutesAgree ==
  ASSUME SignInInv, SessionsInv, NEW t \in BrowserTabs,
         \/ Authorize(t) \/ Login(t) \/ LoginReturning(t)
         \/ CallbackIgnored(t) \/ CallbackRefused(t) \/ CallbackRejected(t)
         \/ CallbackWithoutSession(t) \/ ResumeGame(t) \/ Logout(t)
  PROVE  SessionsInv'
  <1>1. tabs[t].answer = NoAnswer /\ tabs[t].at \in Routes
    BY DEF Authorize, Login, LoginReturning, CallbackIgnored, CallbackRefused, CallbackRejected,
           CallbackWithoutSession, ResumeGame, Logout, Exchanges, Asked, Routes
  <1>2. ASSUME NEW why \in Whys, NEW cookies \in {None, Clear({"game"}), TerminalError, RetryableError},
               Answer(t, Shows(why, cookies)), owner' = owner, row' = row
        PROVE  SessionsInv'
    <2>1. cookies \in CookieSets /\ "session" \notin DOMAIN cookies /\ "page" \in Places
      BY PlainCookies DEF Places
    <2> QED BY <1>1, <1>2, <2>1, PlainAnswer DEF Shows
  <1>3. CASE Authorize(t)
    <2>1. CASE Only(t, Shows("failed", None)) \/ Only(t, Shows("code", None))
      BY <1>2, <2>1 DEF Only, Whys
    <2>2. CASE Only(t, Says("wait", Put("game", tabs[t].game), "loginReturning"))
      <3>1. PICK cookies : cookies = Put("game", tabs[t].game)
        OBVIOUS
      <3>2. cookies \in CookieSets /\ "session" \notin DOMAIN cookies
        BY <3>1, Counts, PutLeavesSession
      <3>3. "wait" \in Whys /\ "loginReturning" \in Places
        BY DEF Whys, Places, Routes
      <3>4. Answer(t, Says("wait", cookies, "loginReturning")) /\ owner' = owner /\ row' = row
        BY <2>2, <3>1 DEF Only
      <3> QED BY <1>1, <3>2, <3>3, <3>4, PlainAnswer
    <2> QED BY <1>3, <2>1, <2>2 DEF Authorize
  <1>4. ASSUME NEW game, BeginAttempt(t, game)
        PROVE  SessionsInv'
    <2>1. PICK n : n = Len(bound) + 1
      OBVIOUS
    <2>2. PICK cookies : cookies = Put("oauth", n)
      OBVIOUS
    <2>3. n \in Nat
      BY <2>1, Counts
    <2>4. cookies \in CookieSets /\ "session" \notin DOMAIN cookies
      BY <2>2, <2>3, PutLeavesSession
    <2>5. "begun" \in Whys /\ "discord" \in Places
      BY DEF Whys, Places
    <2>6. Answer(t, Says("begun", cookies, "discord")) /\ owner' = owner /\ row' = row
      BY <1>4, <2>1, <2>2 DEF BeginAttempt
    <2> QED BY <1>1, <2>4, <2>5, <2>6, PlainAnswer
  <1>5. CASE Login(t) \/ LoginReturning(t)
    BY <1>2, <1>4, <1>5 DEF Login, LoginReturning, Only, Whys
  <1>6. CASE CallbackIgnored(t) \/ CallbackRefused(t)
    BY <1>2, <1>6 DEF CallbackIgnored, CallbackRefused, Only, Whys
  <1>7. CASE CallbackRejected(t)
    BY <1>1, <1>7, FullAnswer DEF CallbackRejected, Whys
  <1>8. CASE CallbackWithoutSession(t)
    BY <1>2, <1>8 DEF CallbackWithoutSession, Whys
  <1>9. CASE ResumeGame(t)
    BY <1>2, <1>9 DEF ResumeGame, Only, Whys
  <1>10. CASE Logout(t)
    <2>1. CASE Only(t, Shows("outage", None))
      BY <1>2, <2>1 DEF Only, Whys
    <2>2. CASE Answer(t, Shows("signed out", ClearAll))
      BY <1>1, <2>2, FullAnswer DEF Whys
    <2> QED BY <1>10, <2>1, <2>2 DEF Logout
  <1> QED BY <1>3, <1>5, <1>6, <1>7, <1>8, <1>9, <1>10

\* A sign-in gives the browser the token it gave the account.
LEMMA SignInAgrees ==
  ASSUME SignInInv, SessionsInv, NEW t \in BrowserTabs, CallbackSignsIn(t)
  PROVE  SessionsInv'
  <1>1. PICK token : token = Len(owner) + 1
    OBVIOUS
  <1>2. PICK cookies : cookies = With(Put("session", token), RetryableError)
    OBVIOUS
  <1>3. PICK all : all = With(cookies, Clear({"game"}))
    OBVIOUS
  <1>4. /\ Exchanges(t)
        /\ owner' = Append(owner, tabs[t].grant) /\ row' = [row EXCEPT ![tabs[t].grant] = token]
        /\ \/ Answer(t, Says("continue", cookies, "resume"))
           \/ Answer(t, Says("account", all, "page"))
    BY <1>1, <1>2, <1>3 DEF CallbackSignsIn, Shows
  <1>5. tabs[t].grant \in Members /\ tabs[t].answer = NoAnswer /\ tabs[t].at \in Routes
    BY <1>4, ExchangeBegun DEF Exchanges, Asked, Routes
  <1>6. token \in Nat /\ Len(owner) \in Nat /\ owner \in Seq(Members)
    BY <1>1, Counts DEF SignInInv, SignInTypeOK
  <1>7. Alive(token)'
    <2>1. Len(owner') = token /\ owner'[token] = tabs[t].grant /\ token \in 1..token
      BY <1>1, <1>4, <1>5, <1>6, OneMore
    <2>2. row'[tabs[t].grant] = token
      BY <1>4, <1>5 DEF SignInInv, SignInTypeOK
    <2> QED BY <2>1, <2>2 DEF Alive
  <1>8. /\ cookies \in CookieSets /\ DOMAIN cookies = {"session", "oauth"}
        /\ cookies["session"] = token
        /\ all \in CookieSets /\ DOMAIN all = {"session", "oauth", "game"}
        /\ all["session"] = token
    BY <1>2, <1>3, <1>6, SignInCookies
  <1>9. ASSUME NEW why \in Whys, NEW next \in Places, NEW set \in {cookies, all},
               Answer(t, Says(why, set, next))
        PROVE  SessionsInv'
    <2>1. PICK a : a = Says(why, set, next)
      OBVIOUS
    <2>2. set \in CookieSets /\ "session" \in DOMAIN set /\ set["session"] = token
      BY <1>8
    <2>3. a \in Answers /\ a.cookies = set
      BY <2>1, <2>2, SaysIsAnswer
    <2>4. Answer(t, a)
      BY <1>9, <2>1
    <2> QED BY <1>5, <1>7, <2>2, <2>3, <2>4, AnswerAgrees
  <1> QED BY <1>4, <1>9 DEF Whys, Places, Routes
-----------------------------------------------------------------------------
(* The browser again. *)

\* A tab that goes elsewhere had no answer to wait for.
LEMMA TabGoesAgree ==
  ASSUME SignInInv, SessionsInv, NEW t \in BrowserTabs, tabs[t].answer = NoAnswer,
         Visit(t) \/ Consent(t) \/ ReloadCallback(t)
  PROVE  SessionsInv'
  <1>1. UNCHANGED <<jar, owner, row, crossed>>
    BY DEF Visit, Consent, ReloadCallback
  <1>2. PICK new : new.answer = NoAnswer /\ tabs' = [tabs EXCEPT ![t] = new]
    <2>1. ASSUME NEW tab \in TabRecords, tab.answer = NoAnswer, Go(t, tab)
          PROVE  \E new : new.answer = NoAnswer /\ tabs' = [tabs EXCEPT ![t] = new]
      <3>1. PICK new : new = IF tab.at \in {"page", "discord"} THEN tab ELSE [tab EXCEPT !.sent = jar']
        OBVIOUS
      <3>2. new.answer = NoAnswer
        BY <2>1, <3>1 DEF TabRecords
      <3> QED BY <2>1, <3>1, <3>2 DEF Go
    <2>2. CASE Visit(t)
      <3>1. /\ games \in Nat /\ games + 1 \in Nat
        BY DEF SignInInv, SignInTypeOK
      <3>2. CASE Go(t, [Tab EXCEPT !.at = "authorize", !.game = games + 1])
        <4>1. PICK tab : tab = [Tab EXCEPT !.at = "authorize", !.game = games + 1]
          OBVIOUS
        <4>2. tab \in TabRecords /\ tab.answer = NoAnswer
          BY <3>1, <4>1, TabIs DEF TabRecords, Places, Routes
        <4> QED BY <2>1, <3>2, <4>1, <4>2
      <3>3. ASSUME NEW route \in {"login", "resume", "logout"}, Go(t, [Tab EXCEPT !.at = route])
            PROVE  \E new : new.answer = NoAnswer /\ tabs' = [tabs EXCEPT ![t] = new]
        <4>1. PICK tab : tab = [Tab EXCEPT !.at = route]
          OBVIOUS
        <4>2. tab \in TabRecords /\ tab.answer = NoAnswer
          BY <4>1, TabIs DEF TabRecords, Places, Routes
        <4> QED BY <2>1, <3>3, <4>1, <4>2
      <3> QED BY <2>2, <3>2, <3>3 DEF Visit
    <2>3. CASE Consent(t) \/ ReloadCallback(t)
      <3>1. tabs[t].attempt \in Nat /\ tabs[t].grant \in Members \cup {Denied}
        BY Counts DEF TabRecords
      <3>2. PICK grant \in Members \cup {Denied} :
              Go(t, [Tab EXCEPT !.at = "callback", !.attempt = tabs[t].attempt, !.grant = grant])
        BY <2>3, <3>1 DEF Consent, ReloadCallback
      <3>3. PICK tab : tab =
              [Tab EXCEPT !.at = "callback", !.attempt = tabs[t].attempt, !.grant = grant]
        OBVIOUS
      <3>4. tab \in TabRecords /\ tab.answer = NoAnswer
        BY <3>1, <3>3, TabIs DEF TabRecords, Places, Routes
      <3> QED BY <2>1, <3>2, <3>3, <3>4
    <2> QED BY <2>2, <2>3
  <1>3. /\ tabs'[t].answer = NoAnswer /\ \A u \in BrowserTabs : u # t => tabs'[u] = tabs[u]
    BY <1>2 DEF SignInInv, SignInTypeOK
  <1>4. \A u \in BrowserTabs : tabs'[u].answer = tabs[u].answer
    BY <1>3
  <1>5. \A u \in BrowserTabs : SessionAnswer(u)' <=> SessionAnswer(u)
    BY <1>4 DEF SessionAnswer
  <1>6. \A k : Alive(k)' <=> Alive(k)
    BY <1>1 DEF Alive
  <1>7. RoutesAnswer'
    BY <1>3 DEF SessionsInv, RoutesAnswer
  <1>8. SessionsAgree => SessionsAgree'
    BY <1>1, <1>4, <1>5, <1>6 DEF SessionsAgree
  <1> QED BY <1>1, <1>7, <1>8 DEF SessionsInv

LEMMA ArriveAgrees ==
  ASSUME SignInInv, SessionsInv, NEW t \in BrowserTabs, Arrive(t)
  PROVE  SessionsInv'
  <1>1. PICK a : a = tabs[t].answer
    OBVIOUS
  <1>2. PICK cookies : cookies = a.cookies
    OBVIOUS
  <1>3. /\ a # NoAnswer /\ jar' = With(cookies, jar)
        /\ UNCHANGED <<owner, row, crossed>>
    BY <1>1, <1>2 DEF Arrive
  <1>4. a \in Answers /\ cookies \in CookieSets /\ jar \in [CookieNames -> Nat]
    BY <1>1, <1>2, <1>3, Counts DEF TabRecords, Answers, SignInInv, SignInTypeOK
  <1>5. /\ "session" \in DOMAIN cookies => jar'["session"] = cookies["session"]
        /\ "session" \notin DOMAIN cookies => jar'["session"] = jar["session"]
    <2>1. /\ \A c \in DOMAIN cookies : With(cookies, jar)[c] = cookies[c]
          /\ \A c \in CookieNames \ DOMAIN cookies : With(cookies, jar)[c] = jar[c]
      BY <1>4, JarTakes
    <2> QED BY <1>3, <2>1 DEF CookieNames
  <1>6. PICK new : new.answer = NoAnswer /\ tabs' = [tabs EXCEPT ![t] = new]
    <2>1. PICK at, attempt, grant :
            Go(t, [Tab EXCEPT !.at = at, !.attempt = attempt, !.grant = grant])
      BY DEF Arrive
    <2>2. PICK tab : tab = [Tab EXCEPT !.at = at, !.attempt = attempt, !.grant = grant]
      OBVIOUS
    <2>3. tab.answer = NoAnswer /\ [tab EXCEPT !.sent = jar'].answer = NoAnswer
      BY <2>2 DEF Tab
    <2>4. PICK new : new = IF tab.at \in {"page", "discord"} THEN tab ELSE [tab EXCEPT !.sent = jar']
      OBVIOUS
    <2>5. new.answer = NoAnswer
      BY <2>3, <2>4
    <2> QED BY <2>1, <2>2, <2>4, <2>5 DEF Go
  <1>7. /\ tabs'[t].answer = NoAnswer /\ \A u \in BrowserTabs : u # t => tabs'[u] = tabs[u]
    BY <1>6 DEF SignInInv, SignInTypeOK
  <1>8. /\ ~SessionAnswer(t)' /\ \A u \in BrowserTabs : u # t => (SessionAnswer(u)' <=> SessionAnswer(u))
        /\ SessionAnswer(t) <=> "session" \in DOMAIN cookies
    BY <1>1, <1>2, <1>3, <1>7 DEF SessionAnswer
  <1>9. \A k : Alive(k)' <=> Alive(k)
    BY <1>3 DEF Alive
  <1>10. RoutesAnswer'
    BY <1>7 DEF SessionsInv, RoutesAnswer
  <1>11. ASSUME SessionsAgree PROVE SessionsAgree'
    <2>1. CASE "session" \in DOMAIN cookies
      <3>1. SessionAnswer(t) /\ \A u \in BrowserTabs : ~SessionAnswer(u)'
        BY <1>8, <1>11, <2>1 DEF SessionsAgree
      <3>2. cookies["session"] = 0 \/ Alive(cookies["session"])
        BY <1>1, <1>2, <1>11, <3>1 DEF SessionsAgree
      <3> QED BY <1>5, <1>9, <2>1, <3>1, <3>2 DEF SessionsAgree
    <2>2. CASE "session" \notin DOMAIN cookies
      <3>1. \A u \in BrowserTabs : SessionAnswer(u)' <=> SessionAnswer(u)
        BY <1>8, <2>2
      <3>2. \A u \in BrowserTabs : SessionAnswer(u)' => tabs'[u] = tabs[u]
        BY <1>7, <1>8
      <3> QED BY <1>5, <1>9, <1>11, <2>2, <3>1, <3>2 DEF SessionsAgree
    <2> QED BY <2>1, <2>2
  <1> QED BY <1>3, <1>10, <1>11 DEF SessionsInv

\* Visit, Consent and ReloadCallback leave a page or Discord, where no answer is due.
LEMMA VisitsAgree ==
  ASSUME SignInInv, SessionsInv, NEW t \in BrowserTabs,
         Visit(t) \/ Consent(t) \/ ReloadCallback(t)
  PROVE  SessionsInv'
  <1>1. tabs[t].at \in {"page", "discord"}
    BY DEF Visit, Consent, ReloadCallback
  <1>2. tabs[t].answer = NoAnswer
    BY <1>1 DEF SessionsInv, RoutesAnswer, Routes
  <1> QED BY <1>2, TabGoesAgree

\* A cookie of sign-in grows old, and a session ends elsewhere.
LEMMA ExpireKeeps ==
  ASSUME SignInInv, SessionsInv, NEW c \in {"oauth", "game"}, Expire(c)
  PROVE  SignInInv' /\ SessionsInv'
  <1>1. /\ jar \in [CookieNames -> Nat] /\ jar' = [jar EXCEPT ![c] = 0]
        /\ UNCHANGED <<tabs, bound, spent, games, owner, row, ended, crossed>>
    BY DEF Expire, SignInInv, SignInTypeOK
  <1>2. /\ jar' \in [CookieNames -> Nat] /\ jar'["session"] = jar["session"]
        /\ (jar'["game"] = jar["game"] \/ jar'["game"] = 0)
    BY <1>1 DEF CookieNames
  <1>3. SignInTypeOK' /\ TabsSound'
    BY <1>1, <1>2 DEF SignInInv, SignInTypeOK, TabsSound
  <1>4. RequestsKnown'
    <2>1. jar'["game"] \in 0..games
      BY <1>2 DEF SignInInv, SignInTypeOK, RequestsKnown
    <2> QED BY <1>1, <2>1 DEF SignInInv, RequestsKnown
  <1>5. RequestsFresh'
    BY <1>1, <1>2 DEF SignInInv, RequestsFresh, Unseen
  <1>6. EndedStaysEnded'
    <2>1. 0 \notin ended
      BY DEF SignInInv, RequestsKnown
    <2> QED BY <1>1, <1>2, <2>1 DEF SignInInv, EndedStaysEnded
  <1>7. SessionsInv'
    BY <1>1, <1>2 DEF SessionsInv, RoutesAnswer, SessionsAgree, SessionAnswer, Alive
  <1> QED BY <1>3, <1>4, <1>5, <1>6, <1>7 DEF SignInInv

LEMMA EndElsewhereKeeps ==
  ASSUME SignInInv, SessionsInv, NEW m \in Members, EndElsewhere(m)
  PROVE  SignInInv' /\ SessionsInv'
  <1>1. /\ crossed' = TRUE /\ row' = [row EXCEPT ![m] = 0]
        /\ UNCHANGED <<jar, tabs, bound, spent, games, owner, ended>>
    BY DEF EndElsewhere
  <1>2. SignInTypeOK'
    BY <1>1 DEF SignInInv, SignInTypeOK
  <1>3. TabsSound' /\ RequestsKnown' /\ RequestsFresh' /\ EndedStaysEnded'
    BY <1>1 DEF SignInInv, TabsSound, RequestsKnown, RequestsFresh, Unseen, EndedStaysEnded
  <1>4. SessionsInv'
    BY <1>1 DEF SessionsInv, RoutesAnswer
  <1> QED BY <1>2, <1>3, <1>4 DEF SignInInv
-----------------------------------------------------------------------------
(* The two invariants together, and what follows from them. *)

LEMMA SignInStarts == SignInInit => SignInInv /\ SessionsInv
  <1> SUFFICES ASSUME SignInInit PROVE SignInInv /\ SessionsInv
    OBVIOUS
  <1>1. jar \in [CookieNames -> Nat] /\ jar["game"] = 0 /\ jar["session"] = 0
    BY EmptyJarIs DEF SignInInit, CookieNames
  <1>2. /\ bound = <<>> /\ owner = <<>> /\ games = 0 /\ ended = {} /\ crossed = FALSE
        /\ \A t \in BrowserTabs : tabs[t] = Tab
    BY DEF SignInInit
  <1>3. SignInTypeOK
    <2>1. tabs \in [BrowserTabs -> TabRecords] /\ row \in [Members -> Nat]
      BY TabIs DEF SignInInit
    <2>2. crossed \in BOOLEAN
      BY <1>2
    <2>3. bound \in Seq(Nat) /\ owner \in Seq(Members) /\ games \in Nat
      BY <1>2
    <2> QED BY <1>1, <2>1, <2>2, <2>3 DEF SignInTypeOK
  <1>4. TabsSound
    BY <1>2, TabIs DEF TabsSound, TabSound
  <1>5. RequestsKnown
    BY <1>1, <1>2, TabIs, EmptyJarIs DEF RequestsKnown, CookieNames
  <1>6. RequestsFresh
    BY <1>2, TabIs DEF RequestsFresh
  <1>7. EndedStaysEnded
    BY <1>2 DEF EndedStaysEnded
  <1>8. SessionsInv
    BY <1>1, <1>2, TabIs DEF SessionsInv, RoutesAnswer, SessionsAgree, SessionAnswer
  <1> QED BY <1>3, <1>4, <1>5, <1>6, <1>7, <1>8 DEF SignInInv

LEMMA SignInSteps ==
  ASSUME SignInInv, SessionsInv, [SignInNext]_signInVars
  PROVE  SignInInv' /\ SessionsInv'
  <1>1. ASSUME NEW t \in BrowserTabs,
               \/ Authorize(t) \/ Login(t) \/ LoginReturning(t)
               \/ CallbackIgnored(t) \/ CallbackRefused(t) \/ CallbackRejected(t)
               \/ CallbackWithoutSession(t) \/ ResumeGame(t) \/ Logout(t)
        PROVE  SignInInv' /\ SessionsInv'
    BY <1>1, RoutesAgree, AuthorizeKeeps, LoginKeeps, CallbackAnswersKeep, CallbackEndsKeep,
       ResumeAndLogoutKeep
  <1>2. ASSUME NEW t \in BrowserTabs, CallbackSignsIn(t)
        PROVE  SignInInv' /\ SessionsInv'
    BY <1>2, CallbackSignsInKeeps, SignInAgrees
  <1>3. ASSUME NEW t \in BrowserTabs, Visit(t) \/ Consent(t) \/ ReloadCallback(t)
        PROVE  SignInInv' /\ SessionsInv'
    BY <1>3, VisitKeeps, CallbackVisitsKeep, VisitsAgree
  <1>4. ASSUME NEW t \in BrowserTabs, Arrive(t)
        PROVE  SignInInv' /\ SessionsInv'
    BY <1>4, ArriveKeeps, ArriveAgrees
  <1>5. ASSUME NEW c \in {"oauth", "game"}, Expire(c)
        PROVE  SignInInv' /\ SessionsInv'
    BY <1>5, ExpireKeeps
  <1>6. ASSUME NEW m \in Members, EndElsewhere(m)
        PROVE  SignInInv' /\ SessionsInv'
    BY <1>6, EndElsewhereKeeps
  <1>7. CASE UNCHANGED signInVars
    <2>1. SignInInv'
      BY <1>7 DEF signInVars, SignInInv, SignInTypeOK, TabsSound, RequestsKnown, RequestsFresh,
                  Unseen, EndedStaysEnded
    <2>2. SessionsInv'
      BY <1>7 DEF signInVars, SessionsInv, RoutesAnswer, SessionsAgree, SessionAnswer, Alive
    <2> QED BY <2>1, <2>2
  <1> QED BY <1>1, <1>2, <1>3, <1>4, <1>5, <1>6, <1>7 DEF SignInNext

LEMMA SessionLives ==
  ASSUME SignInInv, SessionsInv
  PROVE  BrowserSessionLives
  <1> SUFFICES ASSUME ~crossed, SessionAnswersUnderWay = {}, jar.session # 0
               PROVE  SignedIn(jar.session)
    BY DEF BrowserSessionLives
  <1>1. \A t \in BrowserTabs : ~SessionAnswer(t)
    BY DEF SessionAnswersUnderWay, ChangesSession, SessionAnswer
  <1>2. Alive(jar["session"])
    BY <1>1 DEF SessionsInv, SessionsAgree
  <1> QED BY <1>2 DEF Alive, SignedIn

(* However many tabs sign in, deny, reload and sign out, and whatever expires *)
(* or fails on the way: a game request the member saw end waits in the        *)
(* browser no longer, and no dead session stays behind.                       *)
THEOREM BrowserSignInsBound == SignInSpec => []SignInsBound
  <1>1. SignInInit => SignInInv /\ SessionsInv
    BY SignInStarts
  <1>2. (SignInInv /\ SessionsInv) /\ [SignInNext]_signInVars => (SignInInv /\ SessionsInv)'
    BY SignInSteps
  <1>3. SignInInv /\ SessionsInv => SignInsBound
    BY SessionLives DEF SignInsBound, SignInInv
  <1> QED BY <1>1, <1>2, <1>3, PTL DEF SignInSpec
=============================================================================
