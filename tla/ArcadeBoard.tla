------------------------------- MODULE ArcadeBoard -------------------------------
(***************************************************************************)
(* The pages of the three arcade games and the member board behind each:   *)
(* puff-print-run-game.tsx, suipuff-game.tsx and flappy-puff-game.tsx, the *)
(* routes under src/src/app/api/puff and the rows of the score tables.     *)
(* Puff Print Run and Suipuff are the same but for the engine: they queue  *)
(* their scores ("queued").  Flappy Puff posts each at once ("direct").    *)
(* A run here is only its score; the engines have modules of their own.    *)
(***************************************************************************)
EXTENDS Integers, FiniteSets

CONSTANTS Kinds,        \* of {"queued", "direct"}
          RunScores,    \* scores a run may end with
          NoScoreRow,   \* the member has no row
          MaxRuns,      \* bound: runs finished
          MaxInstant,   \* bound: times at which a statement can have begun
          MaxFaults     \* bound: answers lost, sessions ended, scores elsewhere

ArcadeRow == [high : Nat, achieved : Nat, updated : Nat]

ASSUME ArcadeBoardAssumption ==
  /\ NoScoreRow \notin ArcadeRow
  /\ Kinds \subseteq {"queued", "direct"} /\ RunScores \subseteq Nat
  /\ MaxRuns \in Nat /\ MaxInstant \in Nat /\ MaxFaults \in Nat

VARIABLES
  kind,       \* which game is open
  cabinet,    \* the page: phase, leaderboard state, queue, local best
  loading,    \* its GET: "none", "sent", "signed-out", or the best it read
  posts,      \* POSTs under way, numbered by the run
  scoreRow,   \* the member's row
  session,    \* whether the browser's session is valid
  finished,   \* runs finished so far
  faults,
  due         \* history: best score handed in that is not known to be lost

arcadeVars == <<kind, cabinet, loading, posts, scoreRow, session, finished, faults, due>>

NoLoad == [step |-> "none", best |-> 0]
\* A page as it is mounted; localStorage remembers the local best.
Mounted(localBest) ==
  [open |-> TRUE, phase |-> "ready", auth |-> FALSE, status |-> "loading", best |-> 0,
   pending |-> 0, localBest |-> localBest]

ArcadeInit ==
  /\ kind \in Kinds
  /\ cabinet = Mounted(0)
  /\ loading = [step |-> "sent", best |-> 0]
  /\ posts = {}
  /\ scoreRow = NoScoreRow
  /\ session = TRUE
  /\ finished = 0
  /\ faults = 0
  /\ due = 0

Maximum(S) == CHOOSE n \in S : \A m \in S : m <= n
Mine == {p \in posts : p.mine}
Post(number, score) == [run |-> number, score |-> score, step |-> "sent", best |-> 0, mine |-> TRUE]

-----------------------------------------------------------------------------
(***************************************************************************)
(* Playing: pressStart or flap, Escape and a hidden tab, Resume.           *)
(***************************************************************************)
Enter(from, to) ==
  /\ cabinet.open /\ cabinet.phase \in from
  /\ cabinet' = [cabinet EXCEPT !.phase = to]
  /\ UNCHANGED <<kind, loading, posts, scoreRow, session, finished, faults, due>>

StartRun == Enter({"ready", "dead"}, "playing")
PauseRun == Enter({"playing"}, "paused")
ResumeRun == Enter({"paused"}, "playing")

\* pumpScoreSubmissions: one POST at a time, of everything that is pending.
PumpAtOnce(page, number, others) ==
  IF page.auth /\ page.pending > 0
    THEN /\ cabinet' = [page EXCEPT !.pending = 0, !.status = "saving"]
         /\ posts' = others \cup {Post(number, page.pending)}
    ELSE cabinet' = page /\ posts' = others
Pump(page, number, others) ==
  IF page.auth /\ page.pending > 0 /\ others \cap Mine = {}
    THEN /\ cabinet' = [page EXCEPT !.pending = 0, !.status = "saving"]
         /\ posts' = others \cup {Post(number, page.pending)}
    ELSE cabinet' = page /\ posts' = others

\* queueMemberScore: what waits is the best of the runs.
QueueMemberScore(page, score) ==
  Pump([page EXCEPT !.pending = IF score > @ THEN score ELSE @], finished', posts)

\* submitMemberScore of Flappy Puff: at once, beside others that are out.
SubmitMemberScore(page, score) ==
  IF page.auth /\ score > 0
    THEN cabinet' = [page EXCEPT !.status = "saving"] /\ posts' = posts \cup {Post(finished', score)}
    ELSE cabinet' = page /\ UNCHANGED posts

\* finishRun
FinishRun(score) ==
  LET over == [cabinet EXCEPT !.phase = "dead",
                              !.localBest = IF score > @ THEN score ELSE @]
  IN /\ cabinet.open /\ cabinet.phase = "playing" /\ finished < MaxRuns
     /\ finished' = finished + 1
     /\ IF kind = "queued" THEN QueueMemberScore(over, score) ELSE SubmitMemberScore(over, score)
     /\ due' = IF cabinet.auth THEN Maximum({due, score}) ELSE due
     /\ UNCHANGED <<kind, loading, scoreRow, session, faults>>

\* exitGame, or the tab is closed, in any phase: what is pending is dropped and
\* the POST that is out is nobody's any more.
LeaveGame ==
  /\ cabinet.open
  /\ cabinet' = [cabinet EXCEPT !.open = FALSE, !.pending = 0]
  /\ loading' = NoLoad
  /\ posts' = {[p EXCEPT !.mine = FALSE] : p \in posts}
  /\ due' = 0
  /\ UNCHANGED <<kind, scoreRow, session, finished, faults>>

OpenGame ==
  /\ ~cabinet.open /\ faults < MaxFaults
  /\ faults' = faults + 1
  /\ cabinet' = Mounted(cabinet.localBest)
  /\ loading' = [step |-> "sent", best |-> 0]
  /\ UNCHANGED <<kind, posts, scoreRow, session, finished, due>>

-----------------------------------------------------------------------------
(***************************************************************************)
(* The server.                                                             *)
(***************************************************************************)
\* The upsert.  "now" is when its statement began, which may be before another
\* one that was committed first.
Upserted(row, score, now) ==
  IF row = NoScoreRow THEN [high |-> score, achieved |-> now, updated |-> now]
  ELSE [high |-> Maximum({row.high, score}),
        achieved |-> IF score > row.high THEN now ELSE row.achieved,
        updated |-> now]

\* ck_puff_print_run_scores_timestamps and ck_puff_suipuff_scores_timestamps
RefusedByCheck(row) == kind = "queued" /\ row.updated < row.achieved

\* POST, first statement.
SaveRun(p, now) ==
  LET row == Upserted(scoreRow, p.score, now)
      step == IF ~session THEN "401" ELSE IF RefusedByCheck(row) THEN "503" ELSE "saved"
  IN /\ p \in posts /\ p.step = "sent"
     /\ scoreRow' = IF step = "saved" THEN row ELSE scoreRow
     /\ posts' = (posts \ {p}) \cup {[p EXCEPT !.step = step]}
     /\ UNCHANGED <<kind, cabinet, loading, session, finished, faults, due>>

\* POST, second statement: the board as it is by now, which the routes of the
\* queued games refuse to one who is no member any more, though the score is saved.
ReadAfterSave(p) ==
  /\ p \in posts /\ p.step = "saved"
  /\ \/ posts' = (posts \ {p}) \cup {[p EXCEPT !.step = "ok", !.best = scoreRow.high]}
     \/ /\ kind = "queued" /\ ~session
        /\ posts' = (posts \ {p}) \cup {[p EXCEPT !.step = "401"]}
  /\ UNCHANGED <<kind, cabinet, loading, scoreRow, session, finished, faults, due>>

ReadMemberBoard ==
  /\ loading.step = "sent"
  /\ loading' = IF session
                  THEN [step |-> "ok", best |-> IF scoreRow = NoScoreRow THEN 0 ELSE scoreRow.high]
                  ELSE [step |-> "signed-out", best |-> 0]
  /\ UNCHANGED <<kind, cabinet, posts, scoreRow, session, finished, faults, due>>

\* The member plays on another device, or the session ends or begins.
PlayElsewhere(score, now) ==
  LET row == Upserted(scoreRow, score, now)
  IN /\ faults < MaxFaults /\ ~RefusedByCheck(row)
     /\ faults' = faults + 1
     /\ scoreRow' = row
     /\ UNCHANGED <<kind, cabinet, loading, posts, session, finished, due>>

ToggleSession ==
  /\ faults < MaxFaults
  /\ faults' = faults + 1
  /\ session' = ~session
  /\ UNCHANGED <<kind, cabinet, loading, posts, scoreRow, finished, due>>

-----------------------------------------------------------------------------
(***************************************************************************)
(* How the page takes an answer.                                           *)
(***************************************************************************)
SignedOut(page) ==
  [page EXCEPT !.auth = FALSE, !.status = "signed-out", !.best = 0, !.pending = 0]

\* loadLeaderboard
TakeBoard ==
  /\ loading.step \in {"ok", "signed-out"}
  /\ loading' = NoLoad
  /\ IF loading.step = "ok"
       THEN /\ Pump([cabinet EXCEPT !.auth = TRUE, !.status = "ready", !.best = loading.best], finished,
                    posts)
            /\ due' = Maximum({due, cabinet.pending})
       ELSE cabinet' = SignedOut(cabinet) /\ UNCHANGED <<posts, due>>
  /\ UNCHANGED <<kind, scoreRow, session, finished, faults>>

LoadFails ==
  /\ loading.step # "none" /\ faults < MaxFaults
  /\ faults' = faults + 1
  /\ loading' = NoLoad
  /\ cabinet' = [cabinet EXCEPT !.auth = FALSE, !.status = "error", !.best = 0]
  /\ UNCHANGED <<kind, posts, scoreRow, session, finished, due>>

\* A score was saved: the answer is the board from now on, and what finished
\* meanwhile is posted.
TakeSavedForgetsTheRest(p) ==
  /\ p \in Mine /\ p.step = "ok"
  /\ Pump([cabinet EXCEPT !.auth = TRUE, !.status = "ready", !.best = p.best, !.pending = 0],
          finished, posts \ {p})
  /\ UNCHANGED <<kind, loading, scoreRow, session, finished, faults, due>>
TakeSaved(p) ==
  /\ p \in Mine /\ p.step = "ok"
  /\ Pump([cabinet EXCEPT !.auth = TRUE, !.status = "ready", !.best = p.best], finished,
          posts \ {p})
  /\ UNCHANGED <<kind, loading, scoreRow, session, finished, faults, due>>

\* "authentication_required": a queued game locks its board.
TakeSignedOut(p) ==
  /\ kind = "queued" /\ p \in Mine /\ p.step = "401"
  /\ cabinet' = SignedOut(cabinet)
  /\ posts' = posts \ {p}
  /\ due' = 0
  /\ UNCHANGED <<kind, loading, scoreRow, session, finished, faults>>

\* Any other failure is announced, and the score is not tried again.
AfterFailedSave(page) ==
  IF kind = "direct" THEN [page EXCEPT !.status = IF page.auth THEN "ready" ELSE "error"]
  ELSE [page EXCEPT !.status = IF page.auth /\ @ = "saving" THEN "ready" ELSE @]
SaveNotConfirmed(others) ==
  /\ Pump(AfterFailedSave(cabinet), finished, others)
  /\ due' = Maximum({0, cabinet.pending} \cup {p.score : p \in others \cap Mine})

TakeFailure(p) ==
  /\ p \in Mine /\ p.step \in (IF kind = "direct" THEN {"401", "503"} ELSE {"503"})
  /\ SaveNotConfirmed(posts \ {p})
  /\ UNCHANGED <<kind, loading, scoreRow, session, finished, faults>>

\* No answer comes; the POST may or may not have arrived, or still arrive.
AnswerLost(p, arrives) ==
  /\ p \in Mine /\ faults < MaxFaults
  /\ faults' = faults + 1
  /\ SaveNotConfirmed((posts \ {p}) \cup
       (IF arrives /\ p.step = "sent" THEN {[p EXCEPT !.mine = FALSE]} ELSE {}))
  /\ UNCHANGED <<kind, loading, scoreRow, session, finished>>

ArcadeNext ==
  \/ StartRun \/ PauseRun \/ ResumeRun \/ LeaveGame \/ OpenGame
  \/ \E score \in RunScores : FinishRun(score)
  \/ \E p \in posts, now \in 0..MaxInstant : SaveRun(p, now)
  \/ \E score \in RunScores, now \in 0..MaxInstant : PlayElsewhere(score, now)
  \/ ReadMemberBoard \/ ToggleSession \/ TakeBoard \/ LoadFails
  \/ \E p \in posts :
       \/ ReadAfterSave(p) \/ TakeSaved(p) \/ TakeSignedOut(p) \/ TakeFailure(p)
       \/ \E arrives \in BOOLEAN : AnswerLost(p, arrives)

ArcadeSpec == ArcadeInit /\ [][ArcadeNext]_arcadeVars

-----------------------------------------------------------------------------
(***************************************************************************)
(* Properties.                                                             *)
(***************************************************************************)
\* The page never shows a member best the table does not hold; a queued score
\* waits only for a POST, for the first load, or on a board that has no member;
\* and at rest every score handed in to an authenticated board is in the row,
\* or its loss was announced.
ArcadeScoreKept ==
  cabinet.open =>
    /\ cabinet.best > 0 => scoreRow # NoScoreRow /\ cabinet.best <= scoreRow.high
    /\ cabinet.pending > 0 => Mine # {} \/ ~cabinet.auth
    /\ cabinet.auth /\ Mine = {} /\ due > 0 => scoreRow # NoScoreRow /\ scoreRow.high >= due

\* A row never loses its best score or the time it was first reached, whatever
\* arrives late or twice; and the best that a queued game shows never drops
\* while the member stays signed in, however the answers cross.
ArcadeNeverStepsBack ==
  [][/\ scoreRow # NoScoreRow =>
          /\ scoreRow'.high >= scoreRow.high
          /\ scoreRow'.high = scoreRow.high => scoreRow'.achieved = scoreRow.achieved
     /\ kind = "queued" /\ cabinet.open /\ cabinet'.open /\ cabinet.auth /\ cabinet'.auth =>
          cabinet'.best >= cabinet.best]_arcadeVars
=============================================================================
