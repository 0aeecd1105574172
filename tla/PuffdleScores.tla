---------------------------- MODULE PuffdleScores ----------------------------
(***************************************************************************)
(* The row of puff_puffdle_scores: the two statements that write it and    *)
(* the CHECK constraints of migration 0010.  A finished daily game adds to *)
(* the row inside the statement that accepts the guess; an Unlimited save  *)
(* merges totals the browser counted.  Timestamps are numbers: "now" is    *)
(* the time at which the writing statement began.                          *)
(***************************************************************************)
EXTENDS Integers

CONSTANTS NoRow, StatCap

ScoreRow == [high : Nat, played : Nat, won : Nat, streak : Nat, best : Nat,
             achieved : Nat, updated : Nat]

ASSUME PuffdleScoresAssumption == StatCap \in Nat \ {0} /\ NoRow \notin ScoreRow

Greatest(a, b) == IF a >= b THEN a ELSE b
Capped(n) == IF n <= StatCap THEN n ELSE StatCap

\* The upsert of submitDailyGuess, for a game that ended at time "now".
DailyScored(row, win, points, now) ==
  LET one == IF win THEN 1 ELSE 0
      high == IF win THEN points ELSE 0
  IN IF row = NoRow
       THEN [high |-> high, played |-> 1, won |-> one, streak |-> one, best |-> one,
             achieved |-> now, updated |-> now]
       ELSE LET streak == IF win THEN Capped(row.streak + 1) ELSE 0
            IN [high     |-> Greatest(row.high, high),
                played   |-> Capped(row.played + 1),
                won      |-> Capped(row.won + one),
                streak   |-> streak,
                best     |-> Greatest(row.best, streak),
                achieved |-> IF high > row.high THEN Greatest(now, row.updated) ELSE row.achieved,
                updated  |-> Greatest(now, row.updated)]

\* savePuffdleScore: every total is merged with the larger one.
UnlimitedScored(row, input, now) ==
  IF row = NoRow
    THEN [high |-> input.score, played |-> input.played, won |-> input.won,
          streak |-> input.streak, best |-> input.best, achieved |-> now, updated |-> now]
    ELSE [high     |-> Greatest(row.high, input.score),
          played   |-> Greatest(row.played, input.played),
          won      |-> Greatest(row.won, input.won),
          streak   |-> IF input.played > row.played THEN input.streak ELSE row.streak,
          best     |-> Greatest(row.best, input.best),
          achieved |-> IF input.score > row.high THEN Greatest(now, row.updated) ELSE row.achieved,
          updated  |-> Greatest(now, row.updated)]

\* isValidPuffdleStats, which the route applies to a posted snapshot.
ValidStats(s) ==
  /\ {s.played, s.won, s.streak, s.best} \subseteq 0..StatCap
  /\ s.won <= s.played /\ s.streak <= s.best /\ s.best <= s.won

\* The CHECK constraints of the table: a row that breaks one makes the writing
\* statement fail.
ChecksHold(row) == ValidStats(row) /\ row.updated >= row.achieved
=============================================================================
