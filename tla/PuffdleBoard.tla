----------------------------- MODULE PuffdleBoard -----------------------------
(***************************************************************************)
(* Unlimited Puffdle and the shared board: the game a visitor plays in the *)
(* page (src/src/components/puffdle/puffdle-game.tsx), the hook that posts *)
(* its results (use-puffdle-leaderboard.ts) and the row they end in, which *)
(* the member's daily games write as well.                                 *)
(*                                                                         *)
(* The hook numbers its requests and looks only at the answer of the last  *)
(* one, so "request" is that one; the others are strays: a POST the server *)
(* may still handle.                                                       *)
(***************************************************************************)
EXTENDS PuffdleGame, PuffdleScores

CONSTANTS NoSave,      \* nothing to post
          MaxGames,    \* bound: Unlimited games and daily games of a run
          MaxTime,     \* bound: times at which a statement can have begun
          MaxCuts      \* bound: requests cut off or sessions ended

\* What a POST carries: the best score and the statistics that go with it.
Saves == [score : Nat, played : Nat, won : Nat, streak : Nat, best : Nat]

\* A browser does not come to play StatCap games, which is 1,000,000.
ASSUME PuffdleBoardAssumption ==
  /\ Words # {} /\ NoSave \notin Saves
  /\ MaxGames \in 0..StatCap /\ MaxTime \in Nat /\ MaxCuts \in Nat

VARIABLES
  round,       \* the Unlimited game on the screen
  localStats,  \* the statistics in localStorage
  signedIn,    \* whether the browser's session is valid
  board,       \* the hook's refs: authenticated, pending, status, saveStatus
  request,     \* the hook's last request while it is in flight
  strayPosts,  \* snapshots of requests the hook gave up
  boardRow,    \* the member's row
  dailies,     \* how many daily games the member finished
  cuts,
  owed         \* history: best score handed in since a save was last dropped

boardVars == <<round, localStats, signedIn, board, request, strayPosts, boardRow,
               dailies, cuts, owed>>

NoRequest == [kind |-> "none", save |-> NoSave, step |-> "none"]
Posted(save) == [kind |-> "POST", save |-> save, step |-> "sent"]
Get == [kind |-> "GET", save |-> NoSave, step |-> "sent"]

PuffdleBoardInit ==
  /\ round = NewGame(CHOOSE w \in Words : TRUE)
  /\ localStats = DefaultStats
  /\ signedIn = TRUE
  /\ board = [auth |-> "unknown", pending |-> NoSave, status |-> "loading", save |-> "idle"]
  /\ request = Get
  /\ strayPosts = {}
  /\ boardRow = NoRow
  /\ dailies = 0
  /\ cuts = 0
  /\ owed = 0

Saving == request.kind = "POST"

\* What is left of the request in flight when another one replaces it: the hook
\* aborts it, but a POST that is out may be handled all the same.
Abandoned == IF request.step = "sent" /\ Saving THEN {request.save} ELSE {}

-----------------------------------------------------------------------------
(***************************************************************************)
(* The hook.                                                               *)
(***************************************************************************)
\* flushPending: at once a POST of what is pending, or nothing.
Flush(b) ==
  IF b.auth = "yes" /\ b.pending # NoSave
    THEN board' = [b EXCEPT !.save = "saving"] /\ request' = Posted(b.pending)
    ELSE board' = b /\ request' = NoRequest

\* loadLeaderboard: on mount, when the board or a finished daily game is shown,
\* and on "Retry".  It does not disturb a save.
LoadLeaderboard ==
  /\ ~Saving
  /\ request' = Get
  /\ UNCHANGED <<round, localStats, signedIn, board, strayPosts, boardRow, dailies, cuts, owed>>

\* retrySave, shown after a failed save.
RetrySave ==
  /\ board.save = "error" /\ ~Saving
  /\ IF board.auth = "yes" THEN Flush(board)
     ELSE request' = Get /\ UNCHANGED board
  /\ UNCHANGED <<round, localStats, signedIn, strayPosts, boardRow, dailies, cuts, owed>>

\* submitMemberScore: what is pending keeps its best score and takes the newest
\* statistics; a save in flight is not disturbed.
HandIn(score, stats) ==
  IF board.auth = "no" THEN UNCHANGED <<board, request, owed>>
  ELSE LET waiting == IF board.pending = NoSave THEN 0 ELSE board.pending.score
           pending == [score |-> Larger(score, waiting), played |-> stats.played,
                       won |-> stats.won, streak |-> stats.streak, best |-> stats.best]
       IN /\ owed' = Larger(owed, score)
          /\ IF Saving \/ board.auth = "unknown"
               THEN board' = [board EXCEPT !.pending = pending] /\ UNCHANGED request
               ELSE Flush([board EXCEPT !.pending = pending])

-----------------------------------------------------------------------------
(***************************************************************************)
(* The page.                                                               *)
(***************************************************************************)
\* Enter on a word of the dictionary.  The last guess of a game records it in
\* localStorage and hands it in.
PlayUnlimited(word) ==
  LET next == SubmitGuess(round, word)
      won == next.status = "WON"
      stats == RecordGameResult(localStats, won, Len(next.guesses))
  IN /\ round.status = "IN_PROGRESS" /\ localStats.played < MaxGames
     /\ round' = next
     /\ IF next.status = "IN_PROGRESS"
          THEN UNCHANGED <<localStats, board, request, owed>>
          ELSE localStats' = stats /\ HandIn(next.points, stats)
     /\ UNCHANGED <<signedIn, strayPosts, boardRow, dailies, cuts>>

\* "Play again" after a game, and the change to Unlimited at any time.
NewUnlimitedGame(word) ==
  /\ round' = NewGame(word)
  /\ UNCHANGED <<localStats, signedIn, board, request, strayPosts, boardRow, dailies, cuts, owed>>

\* The page is loaded again: localStorage is what remains.
Reload(word) ==
  /\ cuts < MaxCuts
  /\ cuts' = cuts + 1
  /\ round' = NewGame(word)
  /\ board' = [auth |-> "unknown", pending |-> NoSave, status |-> "loading", save |-> "idle"]
  /\ request' = Get
  /\ strayPosts' = strayPosts \cup Abandoned
  /\ owed' = 0
  /\ UNCHANGED <<localStats, signedIn, boardRow, dailies>>

-----------------------------------------------------------------------------
(***************************************************************************)
(* The server.                                                             *)
(***************************************************************************)
\* Another tab signs the member out or in again.
ChangeSession ==
  /\ cuts < MaxCuts
  /\ cuts' = cuts + 1
  /\ signedIn' = ~signedIn
  /\ UNCHANGED <<round, localStats, board, request, strayPosts, boardRow, dailies, owed>>

\* POST: the save.  The statement may have begun before others that were
\* committed first.
SaveScore(now) ==
  /\ request.kind = "POST" /\ request.step = "sent"
  /\ IF signedIn
       THEN /\ boardRow' = UnlimitedScored(boardRow, request.save, now)
            /\ request' = [request EXCEPT !.step = "ok"]
       ELSE request' = [request EXCEPT !.step = "401"] /\ UNCHANGED boardRow
  /\ UNCHANGED <<round, localStats, signedIn, board, strayPosts, dailies, cuts, owed>>

SaveStray(save, now) ==
  /\ save \in strayPosts
  /\ strayPosts' = strayPosts \ {save}
  /\ boardRow' = IF signedIn THEN UnlimitedScored(boardRow, save, now) ELSE boardRow
  /\ UNCHANGED <<round, localStats, signedIn, board, request, dailies, cuts, owed>>

\* The member finishes a daily game, here or on another device.
DailyFinished(win, points, now) ==
  /\ dailies < MaxGames
  /\ dailies' = dailies + 1
  /\ boardRow' = DailyScored(boardRow, win, points, now)
  /\ UNCHANGED <<round, localStats, signedIn, board, request, strayPosts, cuts, owed>>

\* GET: the members' board, or that nobody is signed in.
ReadBoard ==
  /\ request.kind = "GET" /\ request.step = "sent"
  /\ request' = [request EXCEPT !.step = IF signedIn THEN "ok" ELSE "signed-out"]
  /\ UNCHANGED <<round, localStats, signedIn, board, strayPosts, boardRow, dailies, cuts, owed>>

-----------------------------------------------------------------------------
(***************************************************************************)
(* How the hook takes an answer.                                           *)
(***************************************************************************)
Forget(b) == [b EXCEPT !.auth = "no", !.pending = NoSave, !.status = "signed-out", !.save = "idle"]

BoardLoaded ==
  /\ request.kind = "GET" /\ request.step \in {"ok", "signed-out"}
  /\ IF request.step = "ok"
       THEN Flush([board EXCEPT !.auth = "yes", !.status = "ready"]) /\ UNCHANGED owed
       ELSE board' = Forget(board) /\ request' = NoRequest /\ owed' = 0
  /\ UNCHANGED <<round, localStats, signedIn, strayPosts, boardRow, dailies, cuts>>

\* What was handed in while the save was out is posted next.
ScoreSaved ==
  LET rest == IF board.pending = request.save THEN NoSave ELSE board.pending
  IN /\ request.kind = "POST" /\ request.step = "ok"
     /\ Flush([board EXCEPT !.status = "ready", !.pending = rest, !.save = "saved"])
     /\ UNCHANGED <<round, localStats, signedIn, strayPosts, boardRow, dailies, cuts, owed>>

SaveRefused ==
  /\ request.kind = "POST" /\ request.step = "401"
  /\ board' = Forget(board)
  /\ request' = NoRequest
  /\ owed' = 0
  /\ UNCHANGED <<round, localStats, signedIn, strayPosts, boardRow, dailies, cuts>>

\* No answer, a 503, or 10 seconds: a failed save stays pending, a failed load
\* makes the session unknown.
RequestFails(arrives) ==
  /\ request.kind # "none" /\ cuts < MaxCuts
  /\ cuts' = cuts + 1
  /\ board' = IF Saving THEN [board EXCEPT !.save = "error"]
              ELSE [board EXCEPT !.auth = "unknown", !.status = "error"]
  /\ request' = NoRequest
  /\ strayPosts' = IF arrives THEN strayPosts \cup Abandoned ELSE strayPosts
  /\ UNCHANGED <<round, localStats, signedIn, boardRow, dailies, owed>>

PuffdleBoardNext ==
  \/ LoadLeaderboard \/ RetrySave \/ ChangeSession
  \/ \E w \in Words : PlayUnlimited(w) \/ NewUnlimitedGame(w) \/ Reload(w)
  \/ \E now \in 0..MaxTime :
       \/ SaveScore(now)
       \/ \E s \in strayPosts : SaveStray(s, now)
       \/ \E n \in 1..MaxAttempts : DailyFinished(TRUE, Points(n), now)
       \/ DailyFinished(FALSE, 0, now)
  \/ ReadBoard \/ BoardLoaded \/ ScoreSaved \/ SaveRefused
  \/ \E arrives \in BOOLEAN : RequestFails(arrives)

PuffdleBoardSpec == PuffdleBoardInit /\ [][PuffdleBoardNext]_boardVars

-----------------------------------------------------------------------------
(***************************************************************************)
(* Properties.                                                             *)
(***************************************************************************)
\* "Result saved to the member board" is so: when the page says it and nothing
\* is pending, the row holds the best score handed in and the games counted.
PuffdleSavedMeansSaved ==
  board.save = "saved" /\ board.pending = NoSave =>
    /\ boardRow # NoRow
    /\ boardRow.high >= owed

\* Whatever arrives, late, twice or out of order, the row's best score, totals
\* and longest streak never shrink, a best score keeps the time it was first
\* reached, and no write breaks a CHECK of the table (it would be refused).
PuffdleRowOnlyGrows ==
  [][boardRow' # boardRow =>
       /\ ChecksHold(boardRow')
       /\ boardRow # NoRow =>
            /\ \A f \in {"high", "played", "won", "best", "updated"} : boardRow'[f] >= boardRow[f]
            /\ boardRow'.high = boardRow.high => boardRow'.achieved = boardRow.achieved]_boardVars
=============================================================================
