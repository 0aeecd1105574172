----------------------------- MODULE DailyPuffdle -----------------------------
(***************************************************************************)
(* The daily Puffdle: one game per account and UTC day, kept in the        *)
(* database (src/src/lib/puffdle/daily.ts), played from several browser    *)
(* tabs over a network that loses answers                                  *)
(* (src/src/components/puffdle/use-puffdle-daily.ts).                      *)
(*                                                                         *)
(* A tab has one request in flight.  When its answer is lost, or the 12    *)
(* seconds are over, the tab gives up on it; a guess that was on its way   *)
(* may still be counted later ("stray").  The handler runs in steps, one   *)
(* per statement it sends: the clock and the game's insertion, the guarded *)
(* UPDATE, the game's row, the history.  Midnight, other tabs and a sign-  *)
(* out may come between any two.                                           *)
(***************************************************************************)
EXTENDS PuffdleGame, PuffdleScores

CONSTANTS Accounts, Tabs,
          TargetOf,     \* getDailyWord: the word of each day
          NoAccount, NoGuess, NoSnapshot, SignedOutAnswer,
          MaxDay,       \* bound: days of the run
          MaxGiveUps,   \* bound: requests whose answer is lost
          Elsewhere,    \* bound: the accounts that also play outside the tabs
          MaxSignIns,   \* bound: changes of the session cookie
          Totals,       \* what an Unlimited page may hand in
          MaxPosts      \* bound: Unlimited totals handed in for an account

Days == 1..MaxDay

ASSUME DailyPuffdleAssumption ==
  /\ MaxDay \in Nat \ {0} /\ MaxDay <= StatCap
  /\ MaxGiveUps \in Nat /\ MaxSignIns \in Nat
  /\ TargetOf \in [Days -> Words]
  /\ NoAccount \notin Accounts
  /\ Elsewhere \subseteq Accounts
  /\ Totals \subseteq [score : Nat, played : Nat, won : Nat, streak : Nat, best : Nat]
  /\ \A totals \in Totals : ValidStats(totals)
  /\ MaxPosts \in Nat

VARIABLES
  dbDay,       \* the database's UTC date
  dailyGames,  \* puff_puffdle_daily_games: per account and day
  scores,      \* puff_puffdle_scores: per account
  member,      \* the account of the browser's session cookie
  tabs,        \* the hook's refs and status, per tab
  calls,       \* the request each tab waits for, as far as the server got
  strays,      \* guesses of given-up requests that may still arrive
  giveUps,     \* how many requests lost their answer
  signIns,     \* how often the cookie changed
  handedIn     \* history, per account: the Unlimited totals saved, each with
               \* the daily games finished by then, and the last that counted
               \* more games than the row and so replaced its streak

dailyVars ==
  <<dbDay, dailyGames, scores, member, tabs, calls, strays, giveUps, signIns, handedIn>>

NoGame == [status |-> "NONE", guesses |-> <<>>]
Finished(g) == g.status \in {"WON", "LOST"}
FinishedDays(a) == {d \in Days : Finished(dailyGames[a][d])}

\* Before anything is handed in: an account that starts from zero.
NothingSaved ==
  [totals |-> [score |-> 0, played |-> 0, won |-> 0, streak |-> 0, best |-> 0], done |-> {}]
NothingHandedIn == [saves |-> {NothingSaved}, streakFrom |-> NothingSaved]

Guess == [acct : Accounts, day : Days, revision : 0..(MaxAttempts - 1), word : Words]

\* No request: the tab waits for nothing.
Idle == [step |-> "none", cookie |-> NoAccount, input |-> NoGuess, conflict |-> FALSE,
         day |-> 0, game |-> NoGame, answer |-> NoSnapshot]
Sent(input) == [Idle EXCEPT !.step = "sent", !.cookie = member, !.input = input]

ClosedTab == [status |-> "closed", current |-> NoSnapshot, pending |-> NoGuess]
Waiting(t) == calls[t].step # "none"

DailyInit ==
  /\ dbDay = 1
  /\ dailyGames = [a \in Accounts |-> [d \in Days |-> NoGame]]
  /\ scores = [a \in Accounts |-> NoRow]
  /\ member \in Accounts \cup {NoAccount}
  /\ tabs = [t \in Tabs |-> ClosedTab]
  /\ calls = [t \in Tabs |-> Idle]
  /\ strays = {}
  /\ giveUps = 0
  /\ signIns = 0
  /\ handedIn = [a \in Accounts |-> NothingHandedIn]

-----------------------------------------------------------------------------
(***************************************************************************)
(* The world around the game.                                              *)
(***************************************************************************)
Midnight ==
  /\ dbDay < MaxDay
  /\ dbDay' = dbDay + 1
  /\ UNCHANGED <<dailyGames, scores, member, tabs, calls, strays, giveUps, signIns, handedIn>>

\* Signing in and out, in any tab of the browser.
SignIn(a) ==
  /\ member # a /\ signIns < MaxSignIns
  /\ member' = a
  /\ signIns' = signIns + 1
  /\ UNCHANGED <<dbDay, dailyGames, scores, tabs, calls, strays, giveUps, handedIn>>

-----------------------------------------------------------------------------
(***************************************************************************)
(* A tab.                                                                  *)
(***************************************************************************)
\* The effect of mounting the hook: the first refresh.
OpenTab(t) ==
  /\ tabs[t].status = "closed"
  /\ tabs' = [tabs EXCEPT ![t] = [ClosedTab EXCEPT !.status = "loading"]]
  /\ calls' = [calls EXCEPT ![t] = Sent(NoGuess)]
  /\ UNCHANGED <<dbDay, dailyGames, scores, member, strays, giveUps, signIns, handedIn>>

\* The guess of a request the tab no longer waits for, while the UPDATE is
\* still ahead of it.
LeftBehind(c) ==
  IF c.input # NoGuess /\ c.step \in {"sent", "dated"}
    THEN {[cookie |-> c.cookie, input |-> c.input, admitted |-> c.step = "dated"]} ELSE {}

CloseTab(t) ==
  /\ tabs[t].status # "closed"
  /\ LeftBehind(calls[t]) = {} \/ giveUps < MaxGiveUps
  /\ giveUps' = IF LeftBehind(calls[t]) = {} THEN giveUps ELSE giveUps + 1
  /\ tabs' = [tabs EXCEPT ![t] = ClosedTab]
  /\ calls' = [calls EXCEPT ![t] = Idle]
  /\ strays' = strays \cup LeftBehind(calls[t])
  /\ UNCHANGED <<dbDay, dailyGames, scores, member, signIns, handedIn>>

\* refresh(): focus, visibility, the 30 second timer, the Retry button and a
\* change to the daily mode.  An unsettled guess is sent again, else a GET.
Refresh(t) ==
  /\ tabs[t].status # "closed" /\ ~Waiting(t)
  /\ calls' = [calls EXCEPT ![t] = Sent(tabs[t].pending)]
  /\ UNCHANGED <<dbDay, dailyGames, scores, member, tabs, strays, giveUps, signIns, handedIn>>

\* submit(): Enter on a word of the dictionary.
SubmitDraft(t, word) ==
  LET saved == tabs[t].current
      input == [acct |-> saved.acct, day |-> saved.day,
                revision |-> Len(saved.guesses), word |-> word]
  IN /\ saved # NoSnapshot
     /\ ~Waiting(t)
     /\ tabs[t].pending = NoGuess
     /\ tabs[t].status = "ready"
     /\ saved.status = "IN_PROGRESS"
     /\ tabs' = [tabs EXCEPT ![t].pending = input]
     /\ calls' = [calls EXCEPT ![t] = Sent(input)]
     /\ UNCHANGED <<dbDay, dailyGames, scores, member, strays, giveUps, signIns, handedIn>>

-----------------------------------------------------------------------------
(***************************************************************************)
(* The handler of /api/puffdle/daily.                                      *)
(***************************************************************************)
\* ensureGame: the clock's date, and the game of that date exists.
WithGame(a, day) ==
  [dailyGames EXCEPT ![a][day] =
     IF @.status = "NONE" THEN [status |-> "IN_PROGRESS", guesses |-> <<>>] ELSE @]

\* Authentication, then the first statements.  A GET goes straight to its
\* snapshot, a guess remembers the date it was handled on.
Accept(t) ==
  LET c == calls[t]
  IN /\ c.step = "sent"
     /\ IF c.cookie = NoAccount \/ c.cookie # member
          THEN /\ calls' = [calls EXCEPT ![t].step = "done", ![t].answer = SignedOutAnswer]
               /\ UNCHANGED dailyGames
          ELSE /\ dailyGames' = WithGame(c.cookie, dbDay)
               /\ calls' = [calls EXCEPT ![t].step = IF c.input = NoGuess THEN "written" ELSE "dated",
                                         ![t].day = dbDay]
     /\ UNCHANGED <<dbDay, scores, member, tabs, strays, giveUps, signIns, handedIn>>

\* The WHERE clause of the UPDATE.
CanAdvanceFinished(a, input) ==
  input.day = dbDay /\ Len(dailyGames[a][input.day].guesses) = input.revision
CanAdvance(a, input) ==
  LET g == dailyGames[a][input.day]
  IN /\ input.day = dbDay
     /\ g.status = "IN_PROGRESS"
     /\ Len(g.guesses) = input.revision

\* The UPDATE and, in the same statement, the score of a finished game.
Advance(a, input) ==
  LET g == dailyGames[a][input.day]
      status == IF input.word = TargetOf[input.day] THEN "WON"
                ELSE IF Len(g.guesses) = MaxAttempts - 1 THEN "LOST" ELSE "IN_PROGRESS"
      guesses == Append(g.guesses, input.word)
  IN /\ dailyGames' = [dailyGames EXCEPT ![a][input.day] =
                         [status |-> status, guesses |-> guesses]]
     /\ scores' = IF status = "IN_PROGRESS" THEN scores
                  ELSE [scores EXCEPT ![a] =
                          DailyScored(@, status = "WON", Points(Len(guesses)), dbDay)]

\* submitDailyGuess up to its snapshot.  "conflict" is not final: the snapshot
\* may show that the guess is already there.
Guessed(t) ==
  LET c == calls[t]
      other == c.input.acct # c.cookie \/ c.input.day # c.day
  IN /\ c.step = "dated"
     /\ IF ~other /\ CanAdvance(c.cookie, c.input)
          THEN Advance(c.cookie, c.input)
          ELSE UNCHANGED <<dailyGames, scores>>
     /\ calls' = [calls EXCEPT ![t].step = "written",
                               ![t].conflict = other \/ ~CanAdvance(c.cookie, c.input)]
     /\ UNCHANGED <<dbDay, member, tabs, strays, giveUps, signIns, handedIn>>

\* getDailyGame: the clock again, then the game of that date.
ReadGame(t) ==
  LET c == calls[t]
      games == WithGame(c.cookie, dbDay)
  IN /\ c.step = "written"
     /\ dailyGames' = games
     /\ calls' = [calls EXCEPT ![t].step = "read", ![t].day = dbDay,
                               ![t].game = games[c.cookie][dbDay]]
     /\ UNCHANGED <<dbDay, scores, member, tabs, strays, giveUps, signIns, handedIn>>

\* The fold of getDailyGame over the finished games, oldest first.  previousWin
\* is 0 when the last finished game was not won.
History(games, today) ==
  LET start == [played |-> 0, won |-> 0, streak |-> 0, best |-> 0, previousWin |-> 0]
      upTo[d \in 0..MaxDay] ==
        IF d = 0 THEN start
        ELSE LET h == upTo[d - 1]
                 streak == IF d - h.previousWin = 1 /\ h.previousWin > 0 THEN h.streak + 1 ELSE 1
             IN CASE games[d].status = "WON" ->
                       [played |-> h.played + 1, won |-> h.won + 1, streak |-> streak,
                        best |-> Larger(h.best, streak), previousWin |-> d]
                  [] games[d].status = "LOST" ->
                       [h EXCEPT !.played = @ + 1, !.streak = 0, !.previousWin = 0]
                  [] OTHER -> h
      all == upTo[MaxDay]
      recent == all.previousWin > 0 /\ today - all.previousWin <= 1
  IN [played |-> all.played, won |-> all.won, best |-> all.best,
      streak |-> IF recent THEN all.streak ELSE 0]

\* The tiles and keys the snapshot carries, a function of its day and guesses.
Evaluations(a) == [n \in DOMAIN a.guesses |-> EvaluateGuess(TargetOf[a.day], a.guesses[n])]
Keys(a) == KeyboardAfter(a.guesses, Evaluations(a))

\* A guess that is already there, at its place, was sent before.
RetryWithoutItsWord(c) ==
  c.input # NoGuess /\ c.day = c.input.day /\ c.input.revision < Len(c.game.guesses)
Retry(c) ==
  /\ c.input # NoGuess
  /\ c.day = c.input.day
  /\ c.input.revision < Len(c.game.guesses)
  /\ c.game.guesses[c.input.revision + 1] = c.input.word

\* The rest of getDailyGame and of submitDailyGuess: the statistics, and whether
\* the guess counts as a retry.
Answer(t) ==
  LET c == calls[t]
      rejected == c.conflict /\ (~Retry(c) \/ c.input.acct # c.cookie)
  IN /\ c.step = "read"
     /\ calls' = [calls EXCEPT
                    ![t].step = "done",
                    ![t].conflict = rejected,
                    ![t].game = NoGame,
                    ![t].answer =
                      [acct |-> c.cookie, day |-> c.day, guesses |-> c.game.guesses,
                       status |-> c.game.status, stats |-> History(dailyGames[c.cookie], c.day)]]
     /\ UNCHANGED <<dbDay, dailyGames, scores, member, tabs, strays, giveUps, signIns, handedIn>>

\* A guess that another browser of the member sends, from what the game is.
OtherDevice(a, word) ==
  LET input == [acct |-> a, day |-> dbDay, revision |-> Len(dailyGames[a][dbDay].guesses),
                word |-> word]
  IN /\ CanAdvance(a, input)
     /\ Advance(a, input)
     /\ UNCHANGED <<dbDay, member, tabs, calls, strays, giveUps, signIns, handedIn>>

\* savePuffdleScore: the totals of an Unlimited page, in this browser or in
\* another one, merged into the row the daily games add to.
SaveUnlimited(a, totals) ==
  LET row == scores[a]
      save == [totals |-> totals, done |-> FinishedDays(a)]
  IN /\ Cardinality(handedIn[a].saves) <= MaxPosts
     /\ scores' = [scores EXCEPT ![a] = UnlimitedScored(row, totals, dbDay)]
     /\ handedIn' = [handedIn EXCEPT
          ![a].saves = @ \cup {save},
          ![a].streakFrom = IF row = NoRow \/ totals.played > row.played THEN save ELSE @]
     /\ UNCHANGED <<dbDay, dailyGames, member, tabs, calls, strays, giveUps, signIns>>

-----------------------------------------------------------------------------
(***************************************************************************)
(* How a request ends in its tab.                                          *)
(***************************************************************************)
\* What the tab decides by; the tiles, keys and statistics are only shown.
Progress(a) == [acct |-> a.acct, day |-> a.day, guesses |-> a.guesses, status |-> a.status]

\* An answer that shows less of the same account's progress than the tab
\* already has is dropped, and an unsettled guess stays unsettled.
Older(next, prev) ==
  /\ prev # NoSnapshot
  /\ prev.acct = next.acct
  /\ \/ next.day < prev.day
     \/ next.day = prev.day /\ Len(next.guesses) < Len(prev.guesses)

ReceiveConflictAsFailure(t) ==
  /\ calls[t].step = "done"
  /\ tabs' = [tabs EXCEPT ![t] =
       IF calls[t].answer = SignedOutAnswer THEN [ClosedTab EXCEPT !.status = "signed-out"]
       ELSE IF calls[t].conflict THEN [@ EXCEPT !.status = "error"]
       ELSE [status |-> "ready", current |-> Progress(calls[t].answer), pending |-> NoGuess]]
  /\ calls' = [calls EXCEPT ![t] = Idle]
  /\ UNCHANGED <<dbDay, dailyGames, scores, member, strays, giveUps, signIns, handedIn>>
Receive(t) ==
  LET next == calls[t].answer
  IN /\ calls[t].step = "done"
     /\ tabs' = [tabs EXCEPT ![t] =
          IF next = SignedOutAnswer THEN [ClosedTab EXCEPT !.status = "signed-out"]
          ELSE IF Older(next, @.current) THEN @
          ELSE [status |-> "ready", current |-> Progress(next), pending |-> NoGuess]]
     /\ calls' = [calls EXCEPT ![t] = Idle]
     /\ UNCHANGED <<dbDay, dailyGames, scores, member, strays, giveUps, signIns, handedIn>>

\* The answer is lost, is a 503 (the handler stopped where it was), or takes
\* more than 12 seconds (the guess may still be counted).
GiveUp(t, arrives) ==
  /\ Waiting(t) /\ giveUps < MaxGiveUps
  /\ tabs' = [tabs EXCEPT ![t].status = "error"]
  /\ calls' = [calls EXCEPT ![t] = Idle]
  /\ strays' = IF arrives THEN strays \cup LeftBehind(calls[t]) ELSE strays
  /\ giveUps' = giveUps + 1
  /\ UNCHANGED <<dbDay, dailyGames, scores, member, signIns, handedIn>>

\* A guess nobody waits for reaches the server.
StrayGuess(s) ==
  /\ s \in strays
  /\ strays' = strays \ {s}
  /\ IF /\ s.admitted \/ s.cookie = member
        /\ s.input.acct = s.cookie
        /\ CanAdvance(s.cookie, s.input)
       THEN Advance(s.cookie, s.input)
       ELSE UNCHANGED <<dailyGames, scores>>
  /\ UNCHANGED <<dbDay, member, tabs, calls, giveUps, signIns, handedIn>>

Serve(t) == Accept(t) \/ Guessed(t) \/ ReadGame(t) \/ Answer(t) \/ Receive(t)

DailyNext ==
  \/ Midnight
  \/ \E a \in Accounts \cup {NoAccount} : SignIn(a)
  \/ \E a \in Elsewhere, w \in Words : OtherDevice(a, w)
  \/ \E a \in Elsewhere, totals \in Totals : SaveUnlimited(a, totals)
  \/ \E t \in Tabs :
       \/ OpenTab(t) \/ CloseTab(t) \/ Refresh(t)
       \/ \E w \in Words : SubmitDraft(t, w)
       \/ Accept(t) \/ Guessed(t) \/ ReadGame(t) \/ Answer(t) \/ Receive(t)
       \/ \E arrives \in BOOLEAN : GiveUp(t, arrives)
  \/ \E s \in strays : StrayGuess(s)

\* The tab's timer asks again every 30 seconds, and a server that is asked
\* answers.
DailyFairness ==
  \A t \in Tabs : WF_dailyVars(Serve(t) \/ (tabs[t].pending # NoGuess /\ Refresh(t)))

DailySpec == DailyInit /\ [][DailyNext]_dailyVars /\ DailyFairness

-----------------------------------------------------------------------------
(***************************************************************************)
(* Properties.                                                             *)
(***************************************************************************)
\* Where a guess would be if it was counted.
Recorded(input) ==
  LET guesses == dailyGames[input.acct][input.day].guesses
  IN input.revision < Len(guesses) /\ guesses[input.revision + 1] = input.word

\* The number of days won in a row that end with day d.
WinsEndingWith(games, d) ==
  Cardinality({s \in 1..d : \A e \in s..d : games[e].status = "WON"})

\* An accepted guess (200) is in the game of the account and day it was typed
\* for, also when only a retry or a stray copy of it got there, and whatever
\* was played, signed out or begun anew meanwhile.
AcceptedIsRecorded ==
  \A t \in Tabs :
    LET c == calls[t]
    IN c.step = "done" /\ c.answer # SignedOutAnswer /\ c.input # NoGuess /\ ~c.conflict =>
         c.input.acct = c.answer.acct /\ Recorded(c.input)

\* What a tab is told is so: an accepted guess is recorded, and a refused one
\* (409) is not in the game the tab is shown.  The tiles, keys and streak of the
\* answer are those of the account's games.
AnswersTruthful ==
  /\ AcceptedIsRecorded
  /\ \A t \in Tabs :
       LET c == calls[t]
           a == c.answer
       IN c.step = "done" /\ a # SignedOutAnswer =>
            /\ c.input # NoGuess /\ c.conflict /\ c.input.acct = a.acct /\ c.input.day = a.day =>
                 ~Recorded(c.input)
            /\ a.guesses = SubSeq(dailyGames[a.acct][a.day].guesses, 1, Len(a.guesses))
            /\ \A n \in DOMAIN a.guesses :
                 TilesTellTheTruth(TargetOf[a.day], a.guesses[n], Evaluations(a)[n])
            /\ KeysTellTheTruth(a.guesses, Evaluations(a), Keys(a))
            /\ a.day = dbDay =>
                 a.stats.streak \in {WinsEndingWith(dailyGames[a.acct], a.day),
                                     WinsEndingWith(dailyGames[a.acct], a.day - 1)}

IsLargest(n, values) == n \in values /\ \A v \in values : n >= v

\* The row of the shared board accounts for both its writers.  Every finished
\* daily game is counted exactly once, whatever was retried, raced or cut off:
\* the games played and won are the most that follow from totals handed in (or
\* from none) and the daily games finished since.  The best score is the best
\* solve of the daily games and of what was handed in.  The streak is the games
\* won since the last one lost, which a missed day does not end, on top of the
\* streak of the last totals that counted more games than the row.
ScoresAccounted ==
  \A a \in Accounts :
    LET done == FinishedDays(a)
        won == {d \in done : dailyGames[a][d].status = "WON"}
        saves == handedIn[a].saves
        from == handedIn[a].streakFrom
        since == done \ from.done
        inARow == {d \in since : \A e \in since : e >= d => e \in won}
        row == scores[a]
    IN IF row = NoRow THEN done = {} /\ saves = {NothingSaved}
       ELSE /\ IsLargest(row.played,
                         {Capped(s.totals.played + Cardinality(done \ s.done)) : s \in saves})
            /\ IsLargest(row.won,
                         {Capped(s.totals.won + Cardinality(won \ s.done)) : s \in saves})
            /\ IsLargest(row.high,
                         {s.totals.score : s \in saves}
                           \cup {Points(Len(dailyGames[a][d].guesses)) : d \in won})
            /\ row.streak = Capped(Cardinality(inARow)
                                    + (IF since \subseteq won THEN from.totals.streak ELSE 0))

\* A guess whose answer was lost does not hang: the tab sends it again until
\* the server tells what became of it.
PendingSettles ==
  \A t \in Tabs : tabs[t].pending # NoGuess ~> tabs[t].pending = NoGuess
=============================================================================
