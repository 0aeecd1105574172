----------------------------- MODULE PuffcadeProofs -----------------------------
(***************************************************************************)
(* Proofs about the arcade, for any number of results, faults and          *)
(* reloads: a result that a page says it saved is in the row, no row and   *)
(* no shown best steps back, and the three engines keep their rules on any *)
(* grid, with any tiers and on any canvas.                                 *)
(***************************************************************************)
EXTENDS Puffcade, SequenceTheorems, FiniteSetTheorems, WellFoundedInduction, TLAPS

(***************************************************************************)
(* Numbers: induction over the set of those that have been reached,        *)
(* division, and functions defined by recursion.                           *)
(***************************************************************************)

\* A set of numbers has a least one.
LEMMA LeastNumber ==
  ASSUME NEW T \in SUBSET Nat, T # {}
  PROVE  \E x \in T : \A y \in T : x <= y
<1>1. IsWellFoundedOn(OpToRel(<, Nat), Nat)
  BY NatLessThanWellFounded
<1>2. \E x \in T : \A y \in T : ~(<<y, x>> \in OpToRel(<, Nat))
  BY <1>1, WFMin
<1>3. \A x \in T, y \in T : ~(<<y, x>> \in OpToRel(<, Nat)) => x <= y
  BY DEF OpToRel
<1>4. QED  BY <1>2, <1>3

\* Induction along all numbers, over the set of those that have been reached.
LEMMA AllNumbers ==
  ASSUME NEW T, 0 \in T, \A n \in Nat : n \in T => n + 1 \in T
  PROVE  \A n \in Nat : n \in T
<1> SUFFICES ASSUME NEW k \in Nat, k \notin T PROVE FALSE
  OBVIOUS
<1> DEFINE B == {n \in Nat : n \notin T}
<1>1. PICK x \in B : \A y \in B : x <= y
  BY LeastNumber
<1>2. x # 0 /\ x \in Nat
  OBVIOUS
<1>3. x - 1 \in Nat /\ x - 1 < x
  BY <1>2
<1>4. x - 1 \in T
  BY <1>1, <1>3
<1>5. (x - 1) + 1 \in T
  BY <1>3, <1>4
<1>6. QED  BY <1>5, <1>1, <1>2

\* The quotient is what the rounding of a division leaves.
LEMMA Quotient ==
  ASSUME NEW a \in Int, NEW v \in Nat \ {0}
  PROVE  /\ a \div v \in Int
         /\ (a \div v) * v <= a /\ a < (a \div v) * v + v
  OBVIOUS

\* A division keeps the order of a multiple of the divisor.
LEMMA QuotientOrder ==
  ASSUME NEW a \in Int, NEW v \in Nat \ {0}, NEW c \in Int
  PROVE  /\ a >= c * v => a \div v >= c
         /\ a < c * v => a \div v < c
<1>1. PICK q \in Int : q = a \div v /\ q * v <= a /\ a < q * v + v  BY Quotient
<1>2. ASSUME a >= c * v, q < c PROVE FALSE
  <2>1. q + 1 <= c  BY <1>2
  <2>2. (q + 1) * v <= c * v
    <3>1. PICK d \in Nat : c = q + 1 + d  BY <2>1
    <3>2. c * v = (q + 1) * v + d * v  BY <3>1
    <3>3. d * v \in Nat  OBVIOUS
    <3>4. QED  BY <3>2, <3>3
  <2>3. (q + 1) * v = q * v + v  OBVIOUS
  <2>4. QED  BY <1>1, <1>2, <2>2, <2>3
<1>3. ASSUME a < c * v, q >= c PROVE FALSE
  <2>1. PICK d \in Nat : q = c + d  BY <1>3
  <2>2. q * v = c * v + d * v  BY <2>1
  <2>3. d * v \in Nat  OBVIOUS
  <2>4. QED  BY <1>1, <1>3, <2>2, <2>3
<1>4. QED  BY <1>1, <1>2, <1>3

\* A finite set of integers has a greatest one.
LEMMA GreatestInteger ==
  ASSUME NEW S \in SUBSET Int, IsFiniteSet(S), S # {}
  PROVE  \E n \in S : \A m \in S : m <= n
<1> DEFINE HasOne(Q) == \E n \in Q : \A m \in Q : m <= n
           T == {k \in Nat : \A Q \in SUBSET Int :
                   IsFiniteSet(Q) /\ Cardinality(Q) = k /\ Q # {} => HasOne(Q)}
<1>1. 0 \in T
  BY FS_EmptySet
<1>2. ASSUME NEW k \in Nat, k \in T  PROVE k + 1 \in T
  <2> SUFFICES ASSUME NEW Q \in SUBSET Int, IsFiniteSet(Q), Cardinality(Q) = k + 1, Q # {}
               PROVE  HasOne(Q)
    OBVIOUS
  <2>1. PICK x \in Q : TRUE  OBVIOUS
  <2>2. IsFiniteSet(Q \ {x}) /\ Cardinality(Q \ {x}) = Cardinality(Q) - 1
    BY <2>1, FS_RemoveElement
  <2>3. Cardinality(Q \ {x}) = k  BY <2>2
  <2>4. CASE Q \ {x} = {}
    <3>1. \A m \in Q : m <= x  BY <2>1, <2>4
    <3>2. QED  BY <2>1, <3>1
  <2>5. CASE Q \ {x} # {}
    <3>1. HasOne(Q \ {x})
      <4>1. Q \ {x} \in SUBSET Int  OBVIOUS
      <4>2. QED  BY <1>2, <2>2, <2>3, <2>5, <4>1
    <3>2. PICK n \in Q \ {x} : \A m \in Q \ {x} : m <= n  BY <3>1
    <3>3. CASE n >= x
      <4>1. \A m \in Q : m <= n  BY <3>2, <3>3
      <4>2. QED  BY <4>1
    <3>4. CASE ~(n >= x)
      <4>1. \A m \in Q : m <= x  BY <3>2, <3>4, <2>1
      <4>2. QED  BY <2>1, <4>1
    <3>5. QED  BY <3>3, <3>4
  <2>6. QED  BY <2>4, <2>5
<1>3. \A k \in Nat : k \in T
  <2> HIDE DEF T
  <2>1. QED  BY <1>1, <1>2, AllNumbers
<1>4. Cardinality(S) \in Nat  BY FS_CardinalityType
<1>5. Cardinality(S) \in T  BY <1>3, <1>4
<1>6. QED  BY <1>5

\* Induction along the numbers up to n, over the set of those that have been reached.
LEMMA UpToNumber ==
  ASSUME NEW n \in Nat, NEW T, 0 \in T, \A i \in 1..n : i - 1 \in T => i \in T
  PROVE  \A i \in 0..n : i \in T
<1> SUFFICES ASSUME NEW k \in 0..n, k \notin T PROVE FALSE
  OBVIOUS
<1> DEFINE B == {i \in 0..n : i \notin T}
<1>1. PICK x \in B : \A y \in B : x <= y
  <2>1. B \in SUBSET Nat /\ k \in B  OBVIOUS
  <2>2. QED  BY <2>1, LeastNumber
<1>2. x # 0 /\ x \in 0..n /\ x \notin T
  OBVIOUS
<1>3. x \in 1..n /\ x - 1 \in 0..n /\ x - 1 < x
  BY <1>2
<1>4. x - 1 \in T
  BY <1>1, <1>3
<1>5. QED  BY <1>2, <1>3, <1>4

(* A function that is defined by recursion along 0..n exists.                *)
Recursive(n, S, base, step) ==
  \E f \in [0..n -> S] : f[0] = base /\ \A i \in 1..n : f[i] = step[i][f[i - 1]]

\* A recursive function on the numbers up to n has values, and obeys its equation.
LEMMA RecursionExists ==
  ASSUME NEW n \in Nat, NEW S, NEW base \in S, NEW step \in [1..n -> [S -> S]]
  PROVE  Recursive(n, S, base, step)
<1> DEFINE Follows(f, k) == f[0] = base /\ \A i \in 1..k : f[i] = step[i][f[i - 1]]
           T == {k \in 0..n : \E f \in [0..n -> S] : Follows(f, k)}
<1>1. 0 \in T
  <2>1. [i \in 0..n |-> base] \in [0..n -> S]  OBVIOUS
  <2>2. Follows([i \in 0..n |-> base], 0)  OBVIOUS
  <2>3. 0 \in 0..n  OBVIOUS
  <2>4. QED  BY <2>1, <2>2, <2>3
<1>2. ASSUME NEW k \in 1..n, k - 1 \in T  PROVE k \in T
  <2>1. PICK f \in [0..n -> S] : Follows(f, k - 1)
    BY <1>2
  <2>2. k - 1 \in 0..n /\ k \in 0..n  OBVIOUS
  <2>3. step[k][f[k - 1]] \in S  BY <2>2
  <2>4. PICK g : g = [f EXCEPT ![k] = step[k][f[k - 1]]]  OBVIOUS
  <2>5. g \in [0..n -> S]  BY <2>3, <2>4
  <2>6. g[k] = step[k][f[k - 1]] /\ \A i \in 0..n : i # k => g[i] = f[i]
    BY <2>2, <2>4
  <2>7. g[0] = base  BY <2>1, <2>6
  <2>8. ASSUME NEW i \in 1..k PROVE g[i] = step[i][g[i - 1]]
    <3>1. i \in 0..n /\ i - 1 \in 0..n /\ i - 1 # k  OBVIOUS
    <3>2. g[i - 1] = f[i - 1]  BY <3>1, <2>6
    <3>3. CASE i = k  BY <3>2, <3>3, <2>6
    <3>4. CASE i # k
      <4>1. i \in 1..(k - 1)  BY <3>4
      <4>2. f[i] = step[i][f[i - 1]]  BY <2>1, <4>1
      <4>3. g[i] = f[i]  BY <3>1, <3>4, <2>6
      <4>4. QED  BY <3>2, <4>2, <4>3
    <3>5. QED  BY <3>3, <3>4
  <2>9. Follows(g, k)  BY <2>7, <2>8
  <2>10. QED  BY <2>2, <2>5, <2>9
<1>3. \A k \in 0..n : k \in T
  <2> HIDE DEF T
  <2>1. QED  BY <1>1, <1>2, UpToNumber
<1>4. n \in T  BY <1>3
<1>5. QED  BY <1>4 DEF Recursive

-----------------------------------------------------------------------------
(***************************************************************************)
(* The board of Unlimited Puffdle (PuffdleBoard).                          *)
(***************************************************************************)
(* A save the route takes, and a row that keeps the CHECKs of its table.     *)
SoundSaves == {s \in Saves : ValidStats(s)}
SoundRows == {r \in ScoreRow : ChecksHold(r)}

(* What no write may do to the row that was there.                           *)
NeverLess(row, next) ==
  row # NoRow =>
    /\ \A f \in {"high", "played", "won", "best", "updated"} : next[f] >= row[f]
    /\ next.high = row.high => next.achieved = row.achieved

(* The checks of a snapshot, one by one.                                     *)
LEMMA StatsInOrder ==
  ASSUME NEW s, s.played \in Nat, s.won \in Nat, s.streak \in Nat, s.best \in Nat
  PROVE  ValidStats(s) <=>
           s.played <= StatCap /\ s.won <= s.played /\ s.streak <= s.best /\ s.best <= s.won
BY PuffdleScoresAssumption DEF ValidStats

\* A save of the route leaves a row that keeps the CHECKs and takes nothing back.
LEMMA SaveIsMerged ==
  ASSUME NEW row \in SoundRows \cup {NoRow}, NEW save \in SoundSaves, NEW now \in Nat
  PROVE  LET next == UnlimitedScored(row, save, now)
         IN next \in SoundRows /\ next.high >= save.score /\ NeverLess(row, next)
<1> DEFINE next == UnlimitedScored(row, save, now)
<1>1. /\ save.score \in Nat /\ save.played \in Nat /\ save.won \in Nat
      /\ save.streak \in Nat /\ save.best \in Nat /\ ValidStats(save)
  BY DEF SoundSaves, Saves
<1>2. /\ save.played <= StatCap /\ save.won <= save.played
      /\ save.streak <= save.best /\ save.best <= save.won
  BY <1>1, StatsInOrder
<1>3. CASE row = NoRow
  <2>1. next = [high |-> save.score, played |-> save.played, won |-> save.won,
                streak |-> save.streak, best |-> save.best, achieved |-> now, updated |-> now]
    BY <1>3 DEF UnlimitedScored
  <2>2. next \in ScoreRow /\ next.high = save.score  BY <1>1, <2>1 DEF ScoreRow
  <2>3. ValidStats(next)  BY <1>1, <1>2, <2>1, StatsInOrder
  <2>4. next.updated >= next.achieved  BY <2>1
  <2>5. QED  BY <1>1, <1>3, <2>2, <2>3, <2>4 DEF SoundRows, ChecksHold, NeverLess
<1>4. CASE row # NoRow
  <2>1. /\ row.high \in Nat /\ row.played \in Nat /\ row.won \in Nat /\ row.streak \in Nat
        /\ row.best \in Nat /\ row.achieved \in Nat /\ row.updated \in Nat
        /\ ValidStats(row) /\ row.updated >= row.achieved
    BY <1>4 DEF SoundRows, ScoreRow, ChecksHold
  <2>2. /\ row.played <= StatCap /\ row.won <= row.played
        /\ row.streak <= row.best /\ row.best <= row.won
    BY <2>1, StatsInOrder
  <2>3. PICK high, played, won, streak, best, achieved, updated \in Nat :
          /\ high = Greatest(row.high, save.score)
          /\ played = Greatest(row.played, save.played)
          /\ won = Greatest(row.won, save.won)
          /\ streak = (IF save.played > row.played THEN save.streak ELSE row.streak)
          /\ best = Greatest(row.best, save.best)
          /\ achieved = (IF save.score > row.high THEN Greatest(now, row.updated) ELSE row.achieved)
          /\ updated = Greatest(now, row.updated)
    <3>1. /\ Greatest(row.high, save.score) \in Nat /\ Greatest(row.played, save.played) \in Nat
          /\ Greatest(row.won, save.won) \in Nat /\ Greatest(row.best, save.best) \in Nat
          /\ Greatest(now, row.updated) \in Nat
      BY <1>1, <2>1 DEF Greatest
    <3>2. (IF save.played > row.played THEN save.streak ELSE row.streak) \in Nat  BY <1>1, <2>1
    <3>3. (IF save.score > row.high THEN Greatest(now, row.updated) ELSE row.achieved) \in Nat
      BY <2>1, <3>1
    <3>4. QED  BY <3>1, <3>2, <3>3
  <2>4. next = [high |-> high, played |-> played, won |-> won, streak |-> streak, best |-> best,
                achieved |-> achieved, updated |-> updated]
    BY <1>4, <2>3 DEF UnlimitedScored
  <2>5. played <= StatCap /\ played >= row.played
    BY <1>1, <1>2, <2>1, <2>2, <2>3, PuffdleScoresAssumption DEF Greatest
  <2>6. won <= played /\ won >= row.won  BY <1>1, <1>2, <2>1, <2>2, <2>3 DEF Greatest
  <2>7. streak <= best /\ best >= row.best  BY <1>1, <1>2, <2>1, <2>2, <2>3 DEF Greatest
  <2>8. best <= won  BY <1>1, <1>2, <2>1, <2>2, <2>3 DEF Greatest
  <2>9. updated >= achieved /\ updated >= row.updated  BY <2>1, <2>3 DEF Greatest
  <2>10. /\ high >= row.high /\ high >= save.score
         /\ high = row.high => achieved = row.achieved
    BY <1>1, <2>1, <2>3 DEF Greatest
  <2>11. next \in ScoreRow  BY <2>4 DEF ScoreRow
  <2>12. ValidStats(next)  BY <2>4, <2>5, <2>6, <2>7, <2>8, StatsInOrder
  <2>13. ChecksHold(next)  BY <2>4, <2>9, <2>12 DEF ChecksHold
  <2>14. NeverLess(row, next)  BY <2>4, <2>5, <2>6, <2>7, <2>9, <2>10 DEF NeverLess
  <2>15. QED  BY <2>4, <2>10, <2>11, <2>13, <2>14 DEF SoundRows
<1>5. QED  BY <1>3, <1>4

\* So does the row that a finished daily game leaves.
LEMMA DailyIsCounted ==
  ASSUME NEW row \in SoundRows \cup {NoRow}, NEW win \in BOOLEAN, NEW points \in Nat,
         NEW now \in Nat
  PROVE  LET next == DailyScored(row, win, points, now)
         IN next \in SoundRows /\ NeverLess(row, next)
<1> DEFINE next == DailyScored(row, win, points, now)
<1> USE PuffdleScoresAssumption
<1>1. PICK one, high \in Nat : /\ one = (IF win THEN 1 ELSE 0) /\ one <= 1
                               /\ high = (IF win THEN points ELSE 0)
  OBVIOUS
<1>2. CASE row = NoRow
  <2>1. next = [high |-> high, played |-> 1, won |-> one, streak |-> one, best |-> one,
                achieved |-> now, updated |-> now]
    BY <1>1, <1>2 DEF DailyScored
  <2>2. next \in ScoreRow  BY <1>1, <2>1 DEF ScoreRow
  <2>3. ValidStats(next)  BY <1>1, <2>1, StatsInOrder
  <2>4. next.updated >= next.achieved  BY <2>1
  <2>5. QED  BY <1>2, <2>2, <2>3, <2>4 DEF SoundRows, ChecksHold, NeverLess
<1>3. CASE row # NoRow
  <2>1. /\ row.high \in Nat /\ row.played \in Nat /\ row.won \in Nat /\ row.streak \in Nat
        /\ row.best \in Nat /\ row.achieved \in Nat /\ row.updated \in Nat
        /\ ValidStats(row) /\ row.updated >= row.achieved
    BY <1>3 DEF SoundRows, ScoreRow, ChecksHold
  <2>2. /\ row.played <= StatCap /\ row.won <= row.played
        /\ row.streak <= row.best /\ row.best <= row.won
    BY <2>1, StatsInOrder
  <2>3. PICK streak \in Nat : /\ streak = (IF win THEN Capped(row.streak + 1) ELSE 0)
                              /\ streak <= Capped(row.won + one)
    <3>1. (IF win THEN Capped(row.streak + 1) ELSE 0) \in Nat  BY <2>1 DEF Capped
    <3>2. (IF win THEN Capped(row.streak + 1) ELSE 0) <= Capped(row.won + one)
      BY <1>1, <2>1, <2>2 DEF Capped
    <3>3. QED  BY <3>1, <3>2
  <2>4. next = [high     |-> Greatest(row.high, high),
                played   |-> Capped(row.played + 1),
                won      |-> Capped(row.won + one),
                streak   |-> streak,
                best     |-> Greatest(row.best, streak),
                achieved |-> IF high > row.high THEN Greatest(now, row.updated) ELSE row.achieved,
                updated  |-> Greatest(now, row.updated)]
    BY <1>1, <1>3, <2>1, <2>3 DEF DailyScored
  <2>5. PICK played, won, best, updated \in Nat :
          /\ played = Capped(row.played + 1) /\ won = Capped(row.won + one)
          /\ best = Greatest(row.best, streak) /\ updated = Greatest(now, row.updated)
    <3>1. Capped(row.played + 1) \in Nat /\ Capped(row.won + one) \in Nat
      BY <1>1, <2>1 DEF Capped
    <3>2. Greatest(row.best, streak) \in Nat /\ Greatest(now, row.updated) \in Nat
      BY <2>1, <2>3 DEF Greatest
    <3>3. QED  BY <3>1, <3>2
  <2>6. played <= StatCap /\ won <= played /\ row.played <= played /\ row.won <= won
    BY <1>1, <2>1, <2>2, <2>5 DEF Capped
  <2>7. streak <= best /\ row.best <= best /\ best <= won /\ row.updated <= updated
    <3>1. streak <= won  BY <2>3, <2>5
    <3>2. row.best <= won  BY <2>1, <2>2, <2>5, <2>6
    <3>3. QED  BY <2>1, <2>3, <2>5, <3>1, <3>2 DEF Greatest
  <2>8. PICK top, achieved \in Nat :
          /\ top = Greatest(row.high, high)
          /\ achieved = (IF high > row.high THEN Greatest(now, row.updated) ELSE row.achieved)
          /\ achieved <= updated /\ row.high <= top /\ (top = row.high => achieved = row.achieved)
    BY <1>1, <2>1, <2>5 DEF Greatest
  <2>9. next = [high |-> top, played |-> played, won |-> won, streak |-> streak, best |-> best,
                achieved |-> achieved, updated |-> updated]
    BY <2>4, <2>5, <2>8
  <2>10. next \in ScoreRow  BY <2>9 DEF ScoreRow
  <2>11. ValidStats(next)  BY <2>6, <2>7, <2>9, StatsInOrder
  <2>12. ChecksHold(next)  BY <2>8, <2>9, <2>11 DEF ChecksHold
  <2>13. NeverLess(row, next)  BY <2>1, <2>6, <2>7, <2>8, <2>9 DEF NeverLess
  <2>14. QED  BY <2>10, <2>12, <2>13 DEF SoundRows
<1>4. QED  BY <1>2, <1>3

-----------------------------------------------------------------------------
(* The end of an Unlimited game. *)

\* A guess leaves a game with a number of points.
LEMMA GuessScores ==
  ASSUME NEW game, "points" \in DOMAIN game, game.points \in Nat, NEW word
  PROVE  LET next == SubmitGuess(game, word)
         IN "points" \in DOMAIN next /\ next.points \in Nat
<1> DEFINE next == SubmitGuess(game, word)
<1>1. CASE next = game  BY <1>1
<1>2. CASE next # game
  <2>1. PICK guesses, rows, status, keys, points :
          /\ next = [game EXCEPT !.guesses = guesses, !.evaluations = rows, !.status = status,
                                 !.keys = keys, !.points = points]
          /\ points \in Nat
    <3>1. \A n : Points(n) \in Nat  BY PuffdleGameAssumption DEF Points
    <3>2. \A won \in BOOLEAN : \A n : (IF won THEN Points(n) ELSE 0) \in Nat  BY <3>1
    <3>3. QED  BY <1>2, <3>2 DEF SubmitGuess
  <2>2. QED  BY <2>1
<1>3. QED  BY <1>1, <1>2

\* The local statistics after a game are valid and their high score is at least the new score.
LEMMA ResultIsRecorded ==
  ASSUME NEW stats, stats.played \in Nat, stats.won \in Nat, stats.streak \in Nat,
         stats.best \in Nat, stats.won <= stats.played, stats.streak <= stats.best,
         stats.best <= stats.won, NEW won \in BOOLEAN, NEW attempts
  PROVE  LET next == RecordGameResult(stats, won, attempts)
         IN /\ next.played = stats.played + 1
            /\ next.won \in Nat /\ next.streak \in Nat /\ next.best \in Nat
            /\ next.won <= next.played /\ next.streak <= next.best /\ next.best <= next.won
BY DEF RecordGameResult, Larger

-----------------------------------------------------------------------------
(* What the hook, the requests and the row hold.  What was handed in is      *)
(* pending until a save that carried at least as much is answered.           *)
BoardRefs ==
  [auth : {"unknown", "yes", "no"}, pending : SoundSaves \cup {NoSave},
   status : {"loading", "ready", "error", "signed-out"},
   save : {"idle", "saving", "saved", "error"}]
Requests ==
  [kind : {"none", "GET", "POST"}, save : SoundSaves \cup {NoSave},
   step : {"none", "sent", "ok", "signed-out", "401"}]

AtLeast(row, score) == row # NoRow /\ row.high >= score

(* b, q, row and d are the refs, the request, the row and what is owed.      *)
Covered(b, q, row, d) ==
  /\ q.kind = "POST" => q.save # NoSave /\ b.pending # NoSave
  /\ q.kind = "POST" /\ q.step = "ok" => AtLeast(row, q.save.score)
  /\ d = 0 \/ (b.pending # NoSave /\ b.pending.score >= d) \/ AtLeast(row, d)
  /\ b.save = "saved" => row # NoRow

StatsSound ==
  /\ localStats.played \in 0..MaxGames /\ localStats.won \in Nat /\ localStats.streak \in Nat
  /\ localStats.best \in Nat /\ localStats.won <= localStats.played
  /\ localStats.streak <= localStats.best /\ localStats.best <= localStats.won

BoardInv ==
  /\ "points" \in DOMAIN round /\ round.points \in Nat
  /\ StatsSound
  /\ board \in BoardRefs
  /\ request \in Requests
  /\ strayPosts \subseteq SoundSaves
  /\ boardRow \in SoundRows \cup {NoRow}
  /\ owed \in Nat
  /\ Covered(board, request, boardRow, owed)

\* Nothing to post is no save.
LEMMA NoSaveIsNone == NoSave \notin SoundSaves
BY PuffdleBoardAssumption DEF SoundSaves

\* The score of a save is a number.
LEMMA SavesHaveScores == \A s \in SoundSaves : s.score \in Nat
BY DEF SoundSaves, Saves

\* The high score of a row is a number.
LEMMA RowsHaveHighs == \A r \in SoundRows : r.high \in Nat /\ r # NoRow
BY PuffdleScoresAssumption DEF SoundRows, ScoreRow

\* The page begins with nothing pending.
LEMMA InitBoard == PuffdleBoardInit => BoardInv
<1> SUFFICES ASSUME PuffdleBoardInit PROVE BoardInv
  OBVIOUS
<1>1. "points" \in DOMAIN round /\ round.points \in Nat
  BY DEF PuffdleBoardInit, NewGame
<1>2. StatsSound
  BY PuffdleBoardAssumption DEF PuffdleBoardInit, DefaultStats, StatsSound
<1>3. board \in BoardRefs /\ request \in Requests
  BY DEF PuffdleBoardInit, BoardRefs, Requests, Get
<1>4. Covered(board, request, boardRow, owed)
  BY DEF PuffdleBoardInit, Covered, Get
<1>5. QED  BY <1>1, <1>2, <1>3, <1>4 DEF PuffdleBoardInit, BoardInv

(* flushPending leaves what is pending pending, and the request it makes     *)
(* carries it.                                                               *)
LEMMA FlushKeeps ==
  ASSUME NEW b \in BoardRefs, NEW row, NEW d \in Nat, Flush(b),
         d = 0 \/ (b.pending # NoSave /\ b.pending.score >= d) \/ AtLeast(row, d),
         b.save = "saved" => row # NoRow
  PROVE  board' \in BoardRefs /\ request' \in Requests /\ Covered(board', request', row, d)
<1>1. CASE b.auth = "yes" /\ b.pending # NoSave
  <2>1. board' = [b EXCEPT !.save = "saving"] /\ request' = Posted(b.pending)
    BY <1>1 DEF Flush
  <2>2. board' \in BoardRefs /\ board'.pending = b.pending /\ board'.save = "saving"
    BY <2>1 DEF BoardRefs
  <2>3. request' \in Requests /\ request'.step = "sent" /\ request'.save = b.pending
    BY <2>1, <1>1 DEF Requests, Posted, BoardRefs
  <2>4. QED  BY <1>1, <2>2, <2>3 DEF Covered
<1>2. CASE ~(b.auth = "yes" /\ b.pending # NoSave)
  <2>1. board' = b /\ request' = NoRequest  BY <1>2 DEF Flush
  <2>2. request' \in Requests /\ request'.kind = "none"
    BY <2>1 DEF Requests, NoRequest
  <2>3. QED  BY <2>1, <2>2 DEF Covered
<1>3. QED  BY <1>1, <1>2

(* A save that is merged leaves nothing owed that was not.                   *)
LEMMA RowGrowsCovered ==
  ASSUME NEW b \in BoardRefs, NEW q \in Requests, NEW row \in SoundRows \cup {NoRow},
         NEW next \in SoundRows, NeverLess(row, next), NEW d \in Nat, Covered(b, q, row, d)
  PROVE  Covered(b, q, next, d)
<1>1. next # NoRow /\ next.high \in Nat  BY RowsHaveHighs
<1>2. row # NoRow => row.high \in Nat /\ next.high >= row.high
  BY RowsHaveHighs DEF NeverLess
<1>3. \A n \in Nat : AtLeast(row, n) => AtLeast(next, n)
  BY <1>1, <1>2 DEF AtLeast
<1>4. q.kind = "POST" => q.save # NoSave /\ q.save.score \in Nat
  BY SavesHaveScores DEF Requests, Covered
<1>5. QED  BY <1>1, <1>3, <1>4 DEF Covered

(* A step of the hook alone: the page and the row stay as they are.          *)
HookStep == UNCHANGED <<round, localStats, boardRow>>

\* A step of the hook that leaves game, statistics and row alone keeps the invariant.
LEMMA HookKeeps ==
  ASSUME BoardInv, HookStep, board' \in BoardRefs, request' \in Requests,
         strayPosts' \subseteq SoundSaves, owed' \in Nat,
         Covered(board', request', boardRow, owed')
  PROVE  BoardInv'
BY DEF BoardInv, HookStep, StatsSound

\* Asking for the board.
LEMMA LoadKeeps == BoardInv /\ LoadLeaderboard => BoardInv'
<1> SUFFICES ASSUME BoardInv, LoadLeaderboard PROVE BoardInv'
  OBVIOUS
<1>1. request' \in Requests /\ request'.kind = "GET"
  BY DEF LoadLeaderboard, Get, Requests
<1>2. Covered(board, request', boardRow, owed)
  BY <1>1 DEF BoardInv, Covered
<1>3. QED  BY <1>1, <1>2, HookKeeps DEF LoadLeaderboard, BoardInv, HookStep

\* Posting the pending result again.
LEMMA RetryKeeps == BoardInv /\ RetrySave => BoardInv'
<1> SUFFICES ASSUME BoardInv, RetrySave PROVE BoardInv'
  OBVIOUS
<1>1. CASE board.auth = "yes"
  <2>1. Flush(board)  BY <1>1 DEF RetrySave
  <2>2. /\ board' \in BoardRefs /\ request' \in Requests
        /\ Covered(board', request', boardRow, owed)
    BY <2>1, FlushKeeps DEF BoardInv, Covered
  <2>3. QED  BY <2>2, HookKeeps DEF RetrySave, BoardInv, HookStep
<1>2. CASE board.auth # "yes"
  <2>1. request' = Get /\ board' = board  BY <1>2 DEF RetrySave
  <2>2. request' \in Requests /\ request'.kind = "GET"  BY <2>1 DEF Get, Requests
  <2>3. Covered(board, request', boardRow, owed)  BY <2>2 DEF BoardInv, Covered
  <2>4. QED  BY <2>1, <2>2, <2>3, HookKeeps DEF RetrySave, BoardInv, HookStep
<1>3. QED  BY <1>1, <1>2

\* A result becomes the pending one and is posted if the hook may.
LEMMA HandInKeeps ==
  ASSUME BoardInv, NEW score \in Nat, NEW stats, HandIn(score, stats),
         stats.played \in 0..StatCap, stats.won \in Nat, stats.streak \in Nat,
         stats.best \in Nat, ValidStats(stats)
  PROVE  /\ board' \in BoardRefs /\ request' \in Requests /\ owed' \in Nat
         /\ Covered(board', request', boardRow, owed')
<1>1. CASE board.auth = "no"
  BY <1>1 DEF HandIn, BoardInv
<1>2. CASE board.auth # "no"
  <2> DEFINE waiting == IF board.pending = NoSave THEN 0 ELSE board.pending.score
             pending == [score |-> Larger(score, waiting), played |-> stats.played,
                         won |-> stats.won, streak |-> stats.streak, best |-> stats.best]
             next == [board EXCEPT !.pending = pending]
  <2>1. board \in BoardRefs /\ request \in Requests /\ owed \in Nat
    BY DEF BoardInv
  <2>2. waiting \in Nat  BY <2>1, SavesHaveScores DEF BoardRefs
  <2>3. PICK top \in Nat : top = Larger(score, waiting) /\ top >= score /\ top >= waiting
    BY <2>2 DEF Larger
  <2>4. pending \in SoundSaves
    <3>1. pending \in Saves  BY <2>3 DEF Saves
    <3>2. ValidStats(pending)  BY DEF ValidStats
    <3>3. QED  BY <3>1, <3>2 DEF SoundSaves
  <2>5. pending # NoSave /\ pending.score = top  BY <2>3, <2>4, NoSaveIsNone
  <2>6. next \in BoardRefs /\ next.pending = pending /\ next.save = board.save
    BY <2>1, <2>4 DEF BoardRefs
  <2>7. owed' = Larger(owed, score) /\ owed' \in Nat  BY <1>2, <2>1 DEF HandIn, Larger
  <2>8. owed' = 0 \/ top >= owed' \/ AtLeast(boardRow, owed')
    <3>1. CASE owed' = score  BY <2>3, <3>1
    <3>2. CASE owed' = owed
      <4>1. owed = 0 \/ (board.pending # NoSave /\ board.pending.score >= owed)
                     \/ AtLeast(boardRow, owed)
        BY DEF BoardInv, Covered
      <4>2. CASE board.pending # NoSave /\ board.pending.score >= owed
        BY <2>1, <2>2, <2>3, <3>2, <4>2
      <4>3. QED  BY <3>2, <4>1, <4>2
    <3>3. QED  BY <2>7, <3>1, <3>2 DEF Larger
  <2>9. board.save = "saved" => boardRow # NoRow  BY DEF BoardInv, Covered
  <2>10. CASE Saving \/ board.auth = "unknown"
    <3>1. board' = next /\ request' = request  BY <1>2, <2>10 DEF HandIn
    <3>2. request'.kind = "POST" => request'.save # NoSave  BY <3>1 DEF BoardInv, Covered
    <3>3. request'.kind = "POST" /\ request'.step = "ok" => AtLeast(boardRow, request'.save.score)
      BY <3>1 DEF BoardInv, Covered
    <3>4. Covered(board', request', boardRow, owed')
      BY <2>5, <2>6, <2>8, <2>9, <3>1, <3>2, <3>3 DEF Covered
    <3>5. QED  BY <2>1, <2>6, <2>7, <3>1, <3>4
  <2>11. CASE ~(Saving \/ board.auth = "unknown")
    <3>1. Flush(next)  BY <1>2, <2>11 DEF HandIn
    <3>2. PICK d, b : d = owed' /\ b = next  OBVIOUS
    <3>3. d = 0 \/ (b.pending # NoSave /\ b.pending.score >= d) \/ AtLeast(boardRow, d)
      BY <2>5, <2>6, <2>8, <3>2
    <3>4. b \in BoardRefs /\ Flush(b) /\ (b.save = "saved" => boardRow # NoRow) /\ d \in Nat
      BY <2>6, <2>7, <2>9, <3>1, <3>2
    <3>. HIDE DEF next
    <3>5. /\ board' \in BoardRefs /\ request' \in Requests
          /\ Covered(board', request', boardRow, d)
      BY <3>3, <3>4, FlushKeeps
    <3>6. QED  BY <2>7, <3>2, <3>5
  <2>12. QED  BY <2>10, <2>11
<1>3. QED  BY <1>1, <1>2

\* A guess, and the end of the game if it is the last one.
LEMMA PlayKeeps == ASSUME BoardInv, NEW word \in Words, PlayUnlimited(word) PROVE BoardInv'
<1> DEFINE next == SubmitGuess(round, word)
           won == next.status = "WON"
           stats == RecordGameResult(localStats, won, Len(next.guesses))
<1>1. "points" \in DOMAIN next /\ next.points \in Nat
  BY GuessScores DEF BoardInv
<1>2. round' = next /\ UNCHANGED <<signedIn, strayPosts, boardRow, dailies, cuts>>
  BY DEF PlayUnlimited
<1>3. CASE next.status = "IN_PROGRESS"
  <2>1. UNCHANGED <<localStats, board, request, owed>>  BY <1>3 DEF PlayUnlimited
  <2>2. QED  BY <1>1, <1>2, <2>1 DEF BoardInv, StatsSound
<1>4. CASE next.status # "IN_PROGRESS"
  <2>1. localStats' = stats /\ HandIn(next.points, stats) /\ localStats.played < MaxGames
    BY <1>4 DEF PlayUnlimited
  <2>2. /\ localStats.played \in Nat /\ localStats.won \in Nat /\ localStats.streak \in Nat
        /\ localStats.best \in Nat /\ localStats.won <= localStats.played
        /\ localStats.streak <= localStats.best /\ localStats.best <= localStats.won
        /\ localStats.played \in 0..MaxGames
    BY PuffdleBoardAssumption DEF BoardInv, StatsSound
  <2>3. won \in BOOLEAN  OBVIOUS
  <2>4. PICK old : old = localStats  OBVIOUS
  <2>5. PICK new, w : new = stats /\ w = won  OBVIOUS
  <2>6. /\ new.played = old.played + 1
        /\ new.won \in Nat /\ new.streak \in Nat /\ new.best \in Nat
        /\ new.won <= new.played /\ new.streak <= new.best /\ new.best <= new.won
    <3>1. PICK n : n = Len(next.guesses)  OBVIOUS
    <3>2. new = RecordGameResult(old, w, n) /\ w \in BOOLEAN  BY <2>3, <2>4, <2>5, <3>1
    <3>3. QED  BY <2>2, <2>4, <3>2, ResultIsRecorded
  <2>7. new.played \in 0..MaxGames /\ new.played \in 0..StatCap
    BY <2>1, <2>2, <2>4, <2>6, PuffdleBoardAssumption, PuffdleScoresAssumption
  <2>8. ValidStats(new)
    BY <2>6, <2>7, StatsInOrder, PuffdleScoresAssumption
  <2>9. PICK points \in Nat : points = next.points  BY <1>1
  <2>10. /\ board' \in BoardRefs /\ request' \in Requests /\ owed' \in Nat
         /\ Covered(board', request', boardRow, owed')
    <3>1. HandIn(points, new)  BY <2>1, <2>5, <2>9
    <3>2. QED  BY <2>6, <2>7, <2>8, <3>1, HandInKeeps
  <2>11. StatsSound'  BY <2>1, <2>5, <2>6, <2>7 DEF StatsSound
  <2>12. QED  BY <1>1, <1>2, <2>10, <2>11 DEF BoardInv
<1>5. QED  BY <1>3, <1>4

\* A new game.
LEMMA NewGameKeeps ==
  ASSUME BoardInv, NEW word \in Words, NewUnlimitedGame(word) PROVE BoardInv'
<1>1. "points" \in DOMAIN round' /\ round'.points \in Nat
  BY DEF NewUnlimitedGame, NewGame
<1>2. QED  BY <1>1 DEF NewUnlimitedGame, BoardInv, StatsSound

\* What a reload gives up may have been posted.
LEMMA AbandonedIsSound == BoardInv => Abandoned \subseteq SoundSaves
<1> SUFFICES ASSUME BoardInv, Saving PROVE request.save \in SoundSaves
  BY DEF Abandoned
<1>1. QED  BY DEF BoardInv, Covered, Saving, Requests

\* A reload of the page.
LEMMA ReloadKeeps == ASSUME BoardInv, NEW word \in Words, Reload(word) PROVE BoardInv'
<1>1. "points" \in DOMAIN round' /\ round'.points \in Nat
  BY DEF Reload, NewGame
<1>2. board' \in BoardRefs /\ board'.save = "idle"  BY DEF Reload, BoardRefs
<1>3. request' \in Requests /\ request'.kind = "GET"  BY DEF Reload, Get, Requests
<1>4. strayPosts' \subseteq SoundSaves  BY AbandonedIsSound DEF Reload, BoardInv
<1>5. owed' = 0 /\ boardRow' = boardRow /\ localStats' = localStats  BY DEF Reload
<1>6. Covered(board', request', boardRow', owed')  BY <1>2, <1>3, <1>5 DEF Covered
<1>7. QED  BY <1>1, <1>2, <1>3, <1>4, <1>5, <1>6 DEF BoardInv, StatsSound

(* What a write does to the row, and what of it the member may count on.     *)
Write(next) == boardRow' = next /\ next \in SoundRows /\ NeverLess(boardRow, next)

\* Any write that takes nothing back keeps the invariant.
LEMMA WriteKeeps ==
  ASSUME BoardInv, NEW next, Write(next), request' \in Requests,
         Covered(board, request', next, owed), UNCHANGED <<round, localStats, board, owed>>,
         strayPosts' \subseteq strayPosts
  PROVE  BoardInv'
<1>1. boardRow' \in SoundRows \cup {NoRow}  BY DEF Write
<1>2. Covered(board', request', boardRow', owed')  BY DEF Write
<1>3. QED  BY <1>1, <1>2 DEF BoardInv, StatsSound

\* The route writes the hook's post.
LEMMA SaveKeeps ==
  ASSUME BoardInv, NEW now \in 0..MaxTime, SaveScore(now)
  PROVE  BoardInv' /\ (boardRow' # boardRow => Write(boardRow'))
<1>1. now \in Nat  BY PuffdleBoardAssumption
<1>2. /\ request \in Requests /\ request.save \in SoundSaves /\ request.kind = "POST"
      /\ boardRow \in SoundRows \cup {NoRow} /\ Covered(board, request, boardRow, owed)
      /\ board \in BoardRefs /\ owed \in Nat
  BY DEF SaveScore, BoardInv, Covered, Requests
<1>3. CASE signedIn
  <2>1. PICK next : next = UnlimitedScored(boardRow, request.save, now)  OBVIOUS
  <2>2. next \in SoundRows /\ next.high >= request.save.score /\ NeverLess(boardRow, next)
    BY <1>1, <1>2, <2>1, SaveIsMerged
  <2>3. boardRow' = next /\ request' = [request EXCEPT !.step = "ok"]
    BY <1>3, <2>1 DEF SaveScore
  <2>4. /\ request' \in Requests /\ request'.save = request.save /\ request'.kind = "POST"
        /\ request'.step = "ok"
    BY <1>2, <2>3 DEF Requests
  <2>5. Covered(board, request, next, owed)  BY <1>2, <2>2, RowGrowsCovered
  <2>6. AtLeast(next, request.save.score)  BY <2>2, RowsHaveHighs DEF AtLeast
  <2>7. Covered(board, request', next, owed)  BY <1>2, <2>4, <2>5, <2>6 DEF Covered
  <2>8. Write(next)  BY <2>2, <2>3 DEF Write
  <2>9. QED  BY <2>3, <2>4, <2>7, <2>8, WriteKeeps DEF SaveScore
<1>4. CASE ~signedIn
  <2>1. request' = [request EXCEPT !.step = "401"] /\ boardRow' = boardRow
    BY <1>4 DEF SaveScore
  <2>2. /\ request' \in Requests /\ request'.save = request.save /\ request'.kind = "POST"
        /\ request'.step = "401"
    BY <1>2, <2>1 DEF Requests
  <2>3. Covered(board, request', boardRow, owed)  BY <1>2, <2>2 DEF Covered
  <2>4. QED  BY <2>1, <2>2, <2>3, HookKeeps DEF SaveScore, BoardInv, HookStep
<1>5. QED  BY <1>3, <1>4

\* The route writes a post that the hook gave up.
LEMMA StrayKeeps ==
  ASSUME BoardInv, NEW save, NEW now \in 0..MaxTime, SaveStray(save, now)
  PROVE  BoardInv' /\ (boardRow' # boardRow => Write(boardRow'))
<1>1. now \in Nat  BY PuffdleBoardAssumption
<1>2. /\ request \in Requests /\ save \in SoundSaves
      /\ boardRow \in SoundRows \cup {NoRow} /\ Covered(board, request, boardRow, owed)
      /\ board \in BoardRefs /\ owed \in Nat
  BY DEF SaveStray, BoardInv
<1>3. CASE signedIn
  <2>1. PICK next : next = UnlimitedScored(boardRow, save, now)  OBVIOUS
  <2>2. next \in SoundRows /\ NeverLess(boardRow, next)  BY <1>1, <1>2, <2>1, SaveIsMerged
  <2>3. Covered(board, request, next, owed)  BY <1>2, <2>2, RowGrowsCovered
  <2>4. Write(next)  BY <1>3, <2>1, <2>2 DEF Write, SaveStray
  <2>5. QED  BY <1>2, <2>3, <2>4, WriteKeeps DEF SaveStray, Write
<1>4. CASE ~signedIn
  <2>1. boardRow' = boardRow /\ strayPosts' \subseteq strayPosts  BY <1>4 DEF SaveStray
  <2>2. QED  BY <1>2, <2>1, HookKeeps DEF SaveStray, BoardInv, HookStep
<1>5. QED  BY <1>3, <1>4

\* A daily game is counted in the same row.
LEMMA DailyKeeps ==
  ASSUME BoardInv, NEW win \in BOOLEAN, NEW points \in Nat, NEW now \in 0..MaxTime,
         DailyFinished(win, points, now)
  PROVE  BoardInv' /\ Write(boardRow')
<1>1. now \in Nat  BY PuffdleBoardAssumption
<1>2. PICK next : next = DailyScored(boardRow, win, points, now)  OBVIOUS
<1>3. /\ request \in Requests /\ boardRow \in SoundRows \cup {NoRow} /\ board \in BoardRefs
      /\ owed \in Nat /\ Covered(board, request, boardRow, owed)
  BY DEF BoardInv
<1>4. next \in SoundRows /\ NeverLess(boardRow, next)  BY <1>1, <1>2, <1>3, DailyIsCounted
<1>5. Covered(board, request, next, owed)  BY <1>3, <1>4, RowGrowsCovered
<1>6. Write(next)  BY <1>2, <1>4 DEF Write, DailyFinished
<1>7. QED  BY <1>3, <1>5, <1>6, WriteKeeps DEF DailyFinished, Write

\* The route reads the row.
LEMMA ReadKeeps == BoardInv /\ ReadBoard => BoardInv'
<1> SUFFICES ASSUME BoardInv, ReadBoard PROVE BoardInv'
  OBVIOUS
<1>1. request' \in Requests /\ request'.kind = "GET"
  BY DEF ReadBoard, BoardInv, Requests
<1>2. Covered(board, request', boardRow, owed)  BY <1>1 DEF BoardInv, Covered
<1>3. QED  BY <1>1, <1>2, HookKeeps DEF ReadBoard, BoardInv, HookStep

(* The session is over: what was pending is given up, and nothing is owed.   *)
LEMMA ForgetKeeps ==
  ASSUME BoardInv, board' = Forget(board), request' = NoRequest, owed' = 0,
         UNCHANGED <<round, localStats, signedIn, strayPosts, boardRow, dailies, cuts>>
  PROVE  BoardInv'
<1>1. board' \in BoardRefs /\ board'.save = "idle"  BY DEF BoardInv, BoardRefs, Forget
<1>2. request' \in Requests /\ request'.kind = "none"  BY DEF NoRequest, Requests
<1>3. Covered(board', request', boardRow, owed')  BY <1>1, <1>2 DEF Covered
<1>4. QED  BY <1>1, <1>2, <1>3, HookKeeps DEF BoardInv, HookStep

\* The board arrives.
LEMMA LoadedKeeps == BoardInv /\ BoardLoaded => BoardInv'
<1> SUFFICES ASSUME BoardInv, BoardLoaded PROVE BoardInv'
  OBVIOUS
<1>1. CASE request.step = "ok"
  <2>1. PICK b : b = [board EXCEPT !.auth = "yes", !.status = "ready"]  OBVIOUS
  <2>2. b \in BoardRefs /\ b.pending = board.pending /\ b.save = board.save
    BY <2>1 DEF BoardInv, BoardRefs
  <2>3. Flush(b) /\ owed' = owed  BY <1>1, <2>1 DEF BoardLoaded
  <2>4. /\ board' \in BoardRefs /\ request' \in Requests
        /\ Covered(board', request', boardRow, owed)
    BY <2>2, <2>3, FlushKeeps DEF BoardInv, Covered
  <2>5. QED  BY <2>3, <2>4, HookKeeps DEF BoardLoaded, BoardInv, HookStep
<1>2. CASE request.step # "ok"
  BY <1>2, ForgetKeeps DEF BoardLoaded
<1>3. QED  BY <1>1, <1>2

\* The confirmation arrives.
LEMMA SavedKeeps == BoardInv /\ ScoreSaved => BoardInv'
<1> SUFFICES ASSUME BoardInv, ScoreSaved PROVE BoardInv'
  OBVIOUS
<1>1. /\ request \in Requests /\ request.save \in SoundSaves /\ board \in BoardRefs
      /\ owed \in Nat /\ AtLeast(boardRow, request.save.score)
      /\ boardRow \in SoundRows \cup {NoRow} /\ Covered(board, request, boardRow, owed)
  BY DEF ScoreSaved, BoardInv, Covered, Requests
<1>2. PICK rest : rest = IF board.pending = request.save THEN NoSave ELSE board.pending
  OBVIOUS
<1>3. PICK b : b = [board EXCEPT !.status = "ready", !.pending = rest, !.save = "saved"]
  OBVIOUS
<1>4. b \in BoardRefs /\ b.pending = rest /\ b.save = "saved"
  <2>1. rest \in SoundSaves \cup {NoSave}  BY <1>1, <1>2 DEF BoardRefs
  <2>2. QED  BY <1>1, <1>3, <2>1 DEF BoardRefs
<1>5. Flush(b)  BY <1>2, <1>3 DEF ScoreSaved
<1>6. owed = 0 \/ (b.pending # NoSave /\ b.pending.score >= owed) \/ AtLeast(boardRow, owed)
  <2>1. CASE board.pending = request.save
    <3>1. request.save.score >= owed => AtLeast(boardRow, owed)
      BY <1>1, SavesHaveScores, RowsHaveHighs DEF AtLeast
    <3>2. QED  BY <1>1, <2>1, <3>1 DEF Covered
  <2>2. CASE board.pending # request.save
    BY <1>1, <1>2, <1>4, <2>2 DEF Covered
  <2>3. QED  BY <2>1, <2>2
<1>7. boardRow # NoRow  BY <1>1 DEF AtLeast
<1>8. /\ board' \in BoardRefs /\ request' \in Requests
      /\ Covered(board', request', boardRow, owed)
  BY <1>1, <1>4, <1>5, <1>6, <1>7, FlushKeeps
<1>9. QED  BY <1>1, <1>8, HookKeeps DEF ScoreSaved, BoardInv, HookStep

\* The session has ended.
LEMMA RefusedKeeps == BoardInv /\ SaveRefused => BoardInv'
BY ForgetKeeps DEF SaveRefused

\* A request is cut off, whether it was written or not.
LEMMA FailsKeeps == ASSUME BoardInv, NEW arrives \in BOOLEAN, RequestFails(arrives) PROVE BoardInv'
<1>1. board \in BoardRefs /\ Covered(board, request, boardRow, owed)  BY DEF BoardInv
<1>2. request' \in Requests /\ request'.kind = "none"
  BY DEF RequestFails, NoRequest, Requests
<1>3. /\ board' \in BoardRefs /\ board'.pending = board.pending
      /\ board'.save \in {board.save, "error"}
  <2>1. CASE Saving
    <3>1. board' = [board EXCEPT !.save = "error"]  BY <2>1 DEF RequestFails
    <3>2. QED  BY <1>1, <3>1 DEF BoardRefs
  <2>2. CASE ~Saving
    <3>1. board' = [board EXCEPT !.auth = "unknown", !.status = "error"]
      BY <2>2 DEF RequestFails
    <3>2. QED  BY <1>1, <3>1 DEF BoardRefs
  <2>3. QED  BY <2>1, <2>2
<1>4. strayPosts' \subseteq SoundSaves
  BY AbandonedIsSound DEF RequestFails, BoardInv
<1>5. Covered(board', request', boardRow, owed)  BY <1>1, <1>2, <1>3 DEF Covered
<1>6. QED  BY <1>2, <1>3, <1>4, <1>5, HookKeeps DEF RequestFails, BoardInv, HookStep

(* Every step keeps the invariant, and one that changes the row writes it.   *)
LEMMA BoardNext ==
  BoardInv /\ [PuffdleBoardNext]_boardVars =>
    BoardInv' /\ (boardRow' # boardRow => Write(boardRow'))
<1> SUFFICES ASSUME BoardInv, [PuffdleBoardNext]_boardVars
             PROVE  BoardInv' /\ (boardRow' # boardRow => Write(boardRow'))
  OBVIOUS
<1>1. CASE LoadLeaderboard  BY <1>1, LoadKeeps DEF LoadLeaderboard
<1>2. CASE RetrySave  BY <1>2, RetryKeeps DEF RetrySave
<1>3. CASE ChangeSession  BY <1>3 DEF ChangeSession, BoardInv, StatsSound
<1>4. ASSUME NEW w \in Words, PlayUnlimited(w)
      PROVE  BoardInv' /\ (boardRow' # boardRow => Write(boardRow'))
  BY <1>4, PlayKeeps DEF PlayUnlimited
<1>5. ASSUME NEW w \in Words, NewUnlimitedGame(w)
      PROVE  BoardInv' /\ (boardRow' # boardRow => Write(boardRow'))
  BY <1>5, NewGameKeeps DEF NewUnlimitedGame
<1>6. ASSUME NEW w \in Words, Reload(w)
      PROVE  BoardInv' /\ (boardRow' # boardRow => Write(boardRow'))
  BY <1>6, ReloadKeeps DEF Reload
<1>7. ASSUME NEW now \in 0..MaxTime, SaveScore(now)
      PROVE  BoardInv' /\ (boardRow' # boardRow => Write(boardRow'))
  BY <1>7, SaveKeeps
<1>8. ASSUME NEW now \in 0..MaxTime, NEW s \in strayPosts, SaveStray(s, now)
      PROVE  BoardInv' /\ (boardRow' # boardRow => Write(boardRow'))
  BY <1>8, StrayKeeps
<1>9. ASSUME NEW now \in 0..MaxTime, NEW n \in 1..MaxAttempts, DailyFinished(TRUE, Points(n), now)
      PROVE  BoardInv' /\ (boardRow' # boardRow => Write(boardRow'))
  <2>1. PICK points \in Nat : points = Points(n)
    BY PuffdleGameAssumption DEF Points
  <2>2. DailyFinished(TRUE, points, now) /\ TRUE \in BOOLEAN  BY <1>9, <2>1
  <2>3. QED  BY <2>2, DailyKeeps
<1>10. ASSUME NEW now \in 0..MaxTime, DailyFinished(FALSE, 0, now)
       PROVE  BoardInv' /\ (boardRow' # boardRow => Write(boardRow'))
  <2>1. 0 \in Nat /\ FALSE \in BOOLEAN  OBVIOUS
  <2>2. QED  BY <1>10, <2>1, DailyKeeps
<1>11. CASE ReadBoard  BY <1>11, ReadKeeps DEF ReadBoard
<1>12. CASE BoardLoaded  BY <1>12, LoadedKeeps DEF BoardLoaded
<1>13. CASE ScoreSaved  BY <1>13, SavedKeeps DEF ScoreSaved
<1>14. CASE SaveRefused  BY <1>14, RefusedKeeps DEF SaveRefused
<1>15. ASSUME NEW arrives \in BOOLEAN, RequestFails(arrives)
       PROVE  BoardInv' /\ (boardRow' # boardRow => Write(boardRow'))
  BY <1>15, FailsKeeps DEF RequestFails
<1>16. CASE UNCHANGED boardVars  BY <1>16 DEF boardVars, BoardInv, StatsSound
<1>17. QED
  BY <1>1, <1>2, <1>3, <1>4, <1>5, <1>6, <1>7, <1>8, <1>9, <1>10, <1>11, <1>12, <1>13, <1>14,
     <1>15, <1>16 DEF PuffdleBoardNext

\* The invariant of the Unlimited board holds.
LEMMA BoardHolds == PuffdleBoardSpec => []BoardInv
<1>1. BoardInv /\ [PuffdleBoardNext]_boardVars => BoardInv'  BY BoardNext
<1>2. QED  BY InitBoard, <1>1, PTL DEF PuffdleBoardSpec

\* A result that the page says it saved is in the member's row, and one it could not
\* save is pending (persistSnapshot of use-puffdle-leaderboard.ts and the POST
\* route of the Unlimited board).
THEOREM UnlimitedScoresAreKept == PuffdleBoardSpec => []PuffdleSavedMeansSaved
<1>1. BoardInv => PuffdleSavedMeansSaved
  BY RowsHaveHighs DEF BoardInv, Covered, AtLeast, PuffdleSavedMeansSaved
<1>2. QED  BY <1>1, BoardHolds, PTL

\* No write of the Unlimited board takes anything back, and each row it leaves
\* passes the CHECKs of the table (upsertScore of the route).
THEOREM PuffdleRowGrows == PuffdleBoardSpec => PuffdleRowOnlyGrows
<1>1. BoardInv /\ [PuffdleBoardNext]_boardVars =>
        [boardRow' # boardRow =>
           /\ ChecksHold(boardRow')
           /\ boardRow # NoRow =>
                /\ \A f \in {"high", "played", "won", "best", "updated"} : boardRow'[f] >= boardRow[f]
                /\ boardRow'.high = boardRow.high => boardRow'.achieved = boardRow.achieved]_boardVars
  BY BoardNext DEF Write, NeverLess, SoundRows
<1>2. QED  BY <1>1, BoardHolds, PTL DEF PuffdleBoardSpec, PuffdleRowOnlyGrows

-----------------------------------------------------------------------------
(***************************************************************************)
(* The boards of the other games (ArcadeBoard).                            *)
(***************************************************************************)

\* Maximum is the greatest element.
LEMMA MaximumIsGreatest ==
  ASSUME NEW S \in SUBSET Nat, IsFiniteSet(S), S # {}
  PROVE  Maximum(S) \in S /\ \A m \in S : m <= Maximum(S)
<1> DEFINE HasOne(Q) == \E n \in Q : \A m \in Q : m <= n
           T == {k \in Nat : \A Q \in SUBSET Nat :
                   IsFiniteSet(Q) /\ Cardinality(Q) = k /\ Q # {} => HasOne(Q)}
<1>1. 0 \in T
  BY FS_EmptySet
<1>2. ASSUME NEW k \in Nat, k \in T  PROVE k + 1 \in T
  <2> SUFFICES ASSUME NEW Q \in SUBSET Nat, IsFiniteSet(Q), Cardinality(Q) = k + 1, Q # {}
               PROVE  HasOne(Q)
    OBVIOUS
  <2>1. PICK x \in Q : TRUE  OBVIOUS
  <2>2. IsFiniteSet(Q \ {x}) /\ Cardinality(Q \ {x}) = Cardinality(Q) - 1
    BY <2>1, FS_RemoveElement
  <2>3. Cardinality(Q \ {x}) = k  BY <2>2
  <2>4. CASE Q \ {x} = {}
    <3>1. \A m \in Q : m <= x  BY <2>1, <2>4
    <3>2. QED  BY <2>1, <3>1
  <2>5. CASE Q \ {x} # {}
    <3>1. HasOne(Q \ {x})
      <4>1. Q \ {x} \in SUBSET Nat  OBVIOUS
      <4>2. QED  BY <1>2, <2>2, <2>3, <2>5, <4>1
    <3>2. PICK n \in Q \ {x} : \A m \in Q \ {x} : m <= n  BY <3>1
    <3>3. CASE n >= x
      <4>1. \A m \in Q : m <= n  BY <3>2, <3>3
      <4>2. QED  BY <4>1
    <3>4. CASE ~(n >= x)
      <4>1. \A m \in Q : m <= x  BY <3>2, <3>4, <2>1
      <4>2. QED  BY <2>1, <4>1
    <3>5. QED  BY <3>3, <3>4
  <2>6. QED  BY <2>4, <2>5
<1>3. \A k \in Nat : k \in T
  <2> HIDE DEF T
  <2>1. QED  BY <1>1, <1>2, AllNumbers
<1>4. Cardinality(S) \in Nat  BY FS_CardinalityType
<1>5. Cardinality(S) \in T  BY <1>3, <1>4
<1>6. HasOne(S)  BY <1>5
<1>7. QED  BY <1>6 DEF Maximum

\* And of two numbers, the larger one.
LEMMA LargerOfTwo ==
  ASSUME NEW a \in Nat, NEW b \in Nat
  PROVE  /\ Maximum({a, b}) \in {a, b}
         /\ a <= Maximum({a, b}) /\ b <= Maximum({a, b})
<1>1. IsFiniteSet({a}) /\ IsFiniteSet({a} \cup {b})
  BY FS_Singleton, FS_AddElement
<1>2. {a} \cup {b} = {a, b} /\ {a, b} \in SUBSET Nat /\ {a, b} # {}
  OBVIOUS
<1>3. QED  BY <1>1, <1>2, MaximumIsGreatest

-----------------------------------------------------------------------------
(* What the page, its requests and the row are made of.                      *)
Cabinets ==
  [open : BOOLEAN, phase : {"ready", "playing", "paused", "dead"}, auth : BOOLEAN,
   status : {"loading", "ready", "saving", "error", "signed-out"}, best : Nat,
   pending : Nat, localBest : Nat]
Loads == [step : {"none", "sent", "ok", "signed-out"}, best : Nat]
Posts ==
  [run : Nat, score : Nat, step : {"sent", "saved", "ok", "401", "503"}, best : Nat,
   mine : BOOLEAN]

MineOf(P) == {p \in P : p.mine}

(* The row holds at least n.                                                 *)
Backed(row, n) == n = 0 \/ (row # NoScoreRow /\ row.high >= n)

(* What an answer says of the row was so, and the row only improves.         *)
PostSound(p, row) ==
  /\ p.step \in {"saved", "ok"} => row # NoScoreRow /\ row.high >= p.score
  /\ p.step = "ok" => row.high >= p.best

(* c, P, row and d are the page, the POSTs, the row and what is due: what    *)
(* was handed in is in the row, pending, or on its way.                      *)
PageSound(c, P, row, d) ==
  /\ Backed(row, c.best)
  /\ c.pending > 0 => MineOf(P) # {} \/ ~c.auth
  /\ Backed(row, d) \/ d <= c.pending \/ \E p \in MineOf(P) : d <= p.score

(* A queued game has one POST out, and what it reads is not older than what  *)
(* the page shows.                                                           *)
QueueSound(c, P) ==
  /\ \A p, q \in MineOf(P) : p = q
  /\ \A p \in MineOf(P) : p.step = "ok" => p.best >= c.best

ArcadeInv ==
  /\ kind \in {"queued", "direct"}
  /\ cabinet \in Cabinets
  /\ loading \in Loads
  /\ posts \subseteq Posts /\ IsFiniteSet(posts)
  /\ scoreRow \in ArcadeRow \cup {NoScoreRow}
  /\ finished \in Nat
  /\ due \in Nat
  /\ \A p \in posts : PostSound(p, scoreRow)
  /\ loading.step = "ok" => Backed(scoreRow, loading.best)
  /\ loading.step # "none" => cabinet.open /\ ~cabinet.auth /\ MineOf(posts) = {} /\ due = 0
  /\ ~cabinet.open => MineOf(posts) = {} /\ due = 0
  /\ PageSound(cabinet, posts, scoreRow, due)
  /\ kind = "queued" => QueueSound(cabinet, posts)

\* A row is no missing row.
LEMMA RowIsNotNone == \A r \in ArcadeRow : r # NoScoreRow /\ r.high \in Nat
BY ArcadeBoardAssumption DEF ArcadeRow

\* The page begins with nothing posted.
LEMMA InitArcade == ArcadeInit => ArcadeInv
<1> SUFFICES ASSUME ArcadeInit PROVE ArcadeInv
  OBVIOUS
<1>1. kind \in {"queued", "direct"}  BY ArcadeBoardAssumption DEF ArcadeInit
<1>2. cabinet \in Cabinets /\ loading \in Loads  BY DEF ArcadeInit, Mounted, Cabinets, Loads
<1>3. posts = {} /\ IsFiniteSet(posts)  BY FS_EmptySet DEF ArcadeInit
<1>4. PageSound(cabinet, posts, scoreRow, due)
  BY DEF ArcadeInit, Mounted, PageSound, Backed
<1>5. QED  BY <1>1, <1>2, <1>3, <1>4 DEF ArcadeInit, Mounted, ArcadeInv, MineOf, QueueSound

-----------------------------------------------------------------------------
(* The row. *)

RowBetter(row, next) ==
  /\ next \in ArcadeRow
  /\ row # NoScoreRow =>
       next.high >= row.high /\ (next.high = row.high => next.achieved = row.achieved)

\* A save leaves a row with the best of both.
LEMMA RowImproves ==
  ASSUME NEW row \in ArcadeRow \cup {NoScoreRow}, NEW score \in Nat, NEW now \in Nat
  PROVE  LET next == Upserted(row, score, now)
         IN RowBetter(row, next) /\ next.high >= score
<1> DEFINE next == Upserted(row, score, now)
<1>1. CASE row = NoScoreRow
  <2>1. next = [high |-> score, achieved |-> now, updated |-> now]  BY <1>1 DEF Upserted
  <2>2. QED  BY <1>1, <2>1 DEF ArcadeRow, RowBetter
<1>2. CASE row # NoScoreRow
  <2>1. row.high \in Nat /\ row.achieved \in Nat  BY <1>2 DEF ArcadeRow
  <2>2. PICK high : high = Maximum({row.high, score})  OBVIOUS
  <2>3. high \in Nat /\ high >= row.high /\ high >= score
        /\ (score > row.high => high # row.high)
    BY <2>1, <2>2, LargerOfTwo
  <2>4. PICK achieved \in Nat : achieved = IF score > row.high THEN now ELSE row.achieved
    BY <2>1
  <2>5. next = [high |-> high, achieved |-> achieved, updated |-> now]
    BY <1>2, <2>2, <2>4 DEF Upserted
  <2>6. QED  BY <2>3, <2>4, <2>5 DEF ArcadeRow, RowBetter
<1>3. QED  BY <1>1, <1>2

\* What a row holds, a better row holds.
LEMMA BackedStays ==
  ASSUME NEW row \in ArcadeRow \cup {NoScoreRow}, NEW next, RowBetter(row, next),
         NEW n \in Nat, Backed(row, n)
  PROVE  Backed(next, n)
<1>1. next.high \in Nat /\ next # NoScoreRow  BY RowIsNotNone DEF RowBetter
<1>2. row # NoScoreRow => row.high \in Nat  BY RowIsNotNone
<1>3. QED  BY <1>1, <1>2 DEF Backed, RowBetter

\* A post stays sound when the row improves.
LEMMA PostStays ==
  ASSUME NEW row \in ArcadeRow \cup {NoScoreRow}, NEW next, RowBetter(row, next),
         NEW p \in Posts, PostSound(p, row)
  PROVE  PostSound(p, next)
<1>1. next.high \in Nat /\ next # NoScoreRow  BY RowIsNotNone DEF RowBetter
<1>2. row # NoScoreRow => row.high \in Nat /\ next.high >= row.high
  BY RowIsNotNone DEF RowBetter
<1>3. p.score \in Nat /\ p.best \in Nat  BY DEF Posts
<1>4. p.step \in {"saved", "ok"} => row # NoScoreRow /\ next.high >= p.score
  BY <1>1, <1>2, <1>3 DEF PostSound
<1>5. p.step = "ok" => next.high >= p.best
  BY <1>1, <1>2, <1>3 DEF PostSound
<1>6. QED  BY <1>1, <1>4, <1>5 DEF PostSound

(* What the page and its POSTs say stays so over a better row.               *)
LEMMA BetterRowFits ==
  ASSUME ArcadeInv, NEW next, RowBetter(scoreRow, next)
  PROVE  /\ \A p \in posts : PostSound(p, next)
         /\ loading.step = "ok" => Backed(next, loading.best)
         /\ PageSound(cabinet, posts, next, due)
<1>1. scoreRow \in ArcadeRow \cup {NoScoreRow} /\ next \in ArcadeRow
  BY DEF ArcadeInv, RowBetter
<1>2. \A p \in posts : PostSound(p, next)
  BY <1>1, PostStays DEF ArcadeInv
<1>3. loading.step = "ok" => Backed(next, loading.best)
  BY <1>1, BackedStays DEF ArcadeInv, Loads
<1>4. PageSound(cabinet, posts, next, due)
  <2>1. cabinet.best \in Nat /\ due \in Nat  BY DEF ArcadeInv, Cabinets
  <2>2. PageSound(cabinet, posts, scoreRow, due)  BY DEF ArcadeInv
  <2>3. Backed(next, cabinet.best)  BY <1>1, <2>1, <2>2, BackedStays DEF PageSound
  <2>4. Backed(scoreRow, due) => Backed(next, due)  BY <1>1, <2>1, BackedStays
  <2>5. QED  BY <2>2, <2>3, <2>4 DEF PageSound
<1>5. QED  BY <1>2, <1>3, <1>4

-----------------------------------------------------------------------------
(* The page and its POSTs.  A step of theirs leaves the row alone.           *)

PageStep ==
  /\ cabinet' \in Cabinets /\ loading' \in Loads
  /\ posts' \subseteq Posts /\ IsFiniteSet(posts')
  /\ due' \in Nat /\ finished' \in Nat
  /\ \A p \in posts' : PostSound(p, scoreRow)
  /\ loading'.step = "ok" => Backed(scoreRow, loading'.best)
  /\ loading'.step # "none" => cabinet'.open /\ ~cabinet'.auth /\ MineOf(posts') = {} /\ due' = 0
  /\ ~cabinet'.open => MineOf(posts') = {} /\ due' = 0
  /\ PageSound(cabinet', posts', scoreRow, due')
  /\ kind = "queued" => QueueSound(cabinet', posts')

\* A step of the page alone keeps the invariant.
LEMMA PageKeeps == ASSUME ArcadeInv, PageStep, UNCHANGED <<kind, scoreRow>> PROVE ArcadeInv'
BY DEF ArcadeInv, PageStep

(* pumpScoreSubmissions, by its outcome.                                     *)
LEMMA PumpKeeps ==
  ASSUME NEW page \in Cabinets, NEW number \in Nat, NEW others \in SUBSET Posts,
         IsFiniteSet(others), others \cap Mine = MineOf(others), NEW d \in Nat,
         \A p \in others : PostSound(p, scoreRow), Backed(scoreRow, page.best),
         Backed(scoreRow, d) \/ d <= page.pending \/ \E p \in MineOf(others) : d <= p.score,
         kind = "queued" => QueueSound(page, others), Pump(page, number, others)
  PROVE  /\ cabinet' \in Cabinets /\ posts' \in SUBSET Posts /\ IsFiniteSet(posts')
         /\ \A p \in posts' : PostSound(p, scoreRow)
         /\ PageSound(cabinet', posts', scoreRow, d)
         /\ kind = "queued" => QueueSound(cabinet', posts')
         /\ cabinet'.open = page.open /\ cabinet'.auth = page.auth /\ cabinet'.best = page.best
         /\ ~page.auth => posts' = others
<1>1. page.pending \in Nat  BY DEF Cabinets
<1>2. CASE page.auth /\ page.pending > 0 /\ others \cap Mine = {}
  <2>1. PICK new : new = Post(number, page.pending)  OBVIOUS
  <2>2. new \in Posts /\ new.score = page.pending /\ new.mine = TRUE /\ new.step = "sent"
    BY <1>1, <2>1 DEF Post, Posts
  <2>3. cabinet' = [page EXCEPT !.pending = 0, !.status = "saving"] /\ posts' = others \cup {new}
    BY <1>2, <2>1 DEF Pump
  <2>4. /\ cabinet' \in Cabinets /\ cabinet'.pending = 0 /\ cabinet'.open = page.open
        /\ cabinet'.auth = page.auth /\ cabinet'.best = page.best
    BY <2>3 DEF Cabinets
  <2>5. posts' \in SUBSET Posts /\ IsFiniteSet(posts')  BY <2>2, <2>3, FS_AddElement
  <2>6. MineOf(others) = {} /\ MineOf(posts') = {new}  BY <1>2, <2>2, <2>3 DEF MineOf
  <2>7. \A p \in posts' : PostSound(p, scoreRow)  BY <2>2, <2>3 DEF PostSound
  <2>8. PageSound(cabinet', posts', scoreRow, d)
    BY <2>2, <2>4, <2>6 DEF PageSound
  <2>9. QueueSound(cabinet', posts')  BY <2>2, <2>6 DEF QueueSound
  <2>10. QED  BY <1>2, <2>4, <2>5, <2>7, <2>8, <2>9
<1>3. CASE ~(page.auth /\ page.pending > 0 /\ others \cap Mine = {})
  <2>1. cabinet' = page /\ posts' = others  BY <1>3 DEF Pump
  <2>2. page.pending > 0 => MineOf(others) # {} \/ ~page.auth  BY <1>3
  <2>3. PageSound(page, others, scoreRow, d)  BY <2>2 DEF PageSound
  <2>4. QED  BY <2>1, <2>3
<1>4. QED  BY <1>2, <1>3

\* The posts of the page on the screen.
LEMMA MineIsMineOf == Mine = MineOf(posts) /\ \A S \in SUBSET posts : S \cap Mine = MineOf(S)
BY DEF Mine, MineOf

\* A new run is entered.
LEMMA EnterKeeps ==
  ASSUME ArcadeInv, NEW from, NEW to \in {"ready", "playing", "paused", "dead"}, Enter(from, to)
  PROVE  ArcadeInv' /\ cabinet'.best = cabinet.best
<1>1. cabinet \in Cabinets /\ cabinet' = [cabinet EXCEPT !.phase = to]  BY DEF Enter, ArcadeInv
<1>2. /\ cabinet' \in Cabinets /\ cabinet'.open = cabinet.open /\ cabinet'.auth = cabinet.auth
      /\ cabinet'.best = cabinet.best /\ cabinet'.pending = cabinet.pending
  BY <1>1 DEF Cabinets
<1>3. PageSound(cabinet', posts, scoreRow, due)  BY <1>2 DEF ArcadeInv, PageSound
<1>4. kind = "queued" => QueueSound(cabinet', posts)  BY <1>2 DEF ArcadeInv, QueueSound
<1>5. PageStep  BY <1>2, <1>3, <1>4 DEF Enter, ArcadeInv, PageStep
<1>6. QED  BY <1>2, <1>5, PageKeeps DEF Enter

\* A run ends: it is queued or posted at once.
LEMMA FinishKeeps ==
  ASSUME ArcadeInv, NEW score \in Nat, FinishRun(score)
  PROVE  ArcadeInv' /\ cabinet'.best = cabinet.best
<1> DEFINE over == [cabinet EXCEPT !.phase = "dead", !.localBest = IF score > @ THEN score ELSE @]
<1>1. /\ cabinet \in Cabinets /\ finished \in Nat /\ finished' = finished + 1 /\ due \in Nat
      /\ cabinet.open /\ UNCHANGED <<kind, loading, scoreRow>>
      /\ posts \in SUBSET Posts /\ IsFiniteSet(posts)
      /\ \A p \in posts : PostSound(p, scoreRow)
      /\ PageSound(cabinet, posts, scoreRow, due)
      /\ kind = "queued" => QueueSound(cabinet, posts)
      /\ loading.step # "none" => cabinet.open /\ ~cabinet.auth /\ MineOf(posts) = {} /\ due = 0
  BY DEF FinishRun, ArcadeInv
<1>2. /\ over \in Cabinets /\ over.open = cabinet.open /\ over.auth = cabinet.auth
      /\ over.best = cabinet.best /\ over.pending = cabinet.pending
  BY <1>1 DEF Cabinets
<1>3. PICK page : page = over  OBVIOUS
<1>4. finished' \in Nat /\ page.pending \in Nat /\ page.open  BY <1>1, <1>2, <1>3 DEF Cabinets
<1>5. PICK d \in Nat : /\ d = due' /\ d \in {due, score} /\ (~cabinet.auth => d = due)
                       /\ d >= due
  <2>1. due' = IF cabinet.auth THEN Maximum({due, score}) ELSE due  BY DEF FinishRun
  <2>2. QED  BY <1>1, <2>1, LargerOfTwo
<1>6. CASE kind = "queued"
  <2>1. PICK waits \in Nat : waits = (IF score > page.pending THEN score ELSE page.pending)
    BY <1>4
  <2>2. PICK next : next = [page EXCEPT !.pending = waits]  OBVIOUS
  <2>3. /\ next \in Cabinets /\ next.pending = waits /\ next.best = cabinet.best
        /\ next.open /\ next.auth = cabinet.auth
    BY <1>1, <1>2, <1>3, <2>1, <2>2 DEF Cabinets
  <2>4. Pump(next, finished', posts)
    <3>1. QueueMemberScore(page, score)  BY <1>3, <1>6 DEF FinishRun
    <3>2. next = [page EXCEPT !.pending = IF score > @ THEN score ELSE @]
      BY <1>2, <1>3, <2>1, <2>2 DEF Cabinets
    <3>3. QED  BY <3>1, <3>2 DEF QueueMemberScore
  <2>5. Backed(scoreRow, d) \/ d <= next.pending \/ \E p \in MineOf(posts) : d <= p.score
    <3>1. waits >= score /\ waits >= cabinet.pending  BY <1>2, <1>3, <1>4, <2>1
    <3>2. CASE d = score  BY <2>3, <3>1, <3>2
    <3>3. CASE d = due
      <4>1. Backed(scoreRow, due) \/ due <= cabinet.pending
              \/ \E p \in MineOf(posts) : due <= p.score
        BY <1>1 DEF PageSound
      <4>2. due <= cabinet.pending => due <= waits
        BY <1>1, <1>2, <1>3, <1>4, <2>1, <3>1
      <4>3. QED  BY <2>3, <3>3, <4>1, <4>2
    <3>4. QED  BY <1>5, <3>2, <3>3
  <2>6. Backed(scoreRow, next.best) /\ QueueSound(next, posts)
    BY <1>1, <1>6, <2>3 DEF PageSound, QueueSound
  <2>7. posts \cap Mine = MineOf(posts)  BY MineIsMineOf
  <2>8. PICK number \in Nat : number = finished'  BY <1>4
  <2>9. Pump(next, number, posts)  BY <2>4, <2>8
  <2>10. /\ cabinet' \in Cabinets /\ posts' \in SUBSET Posts /\ IsFiniteSet(posts')
         /\ \A p \in posts' : PostSound(p, scoreRow)
         /\ PageSound(cabinet', posts', scoreRow, d)
         /\ kind = "queued" => QueueSound(cabinet', posts')
         /\ cabinet'.open = next.open /\ cabinet'.auth = next.auth /\ cabinet'.best = next.best
         /\ ~next.auth => posts' = posts
    BY <1>1, <2>3, <2>5, <2>6, <2>7, <2>9, PumpKeeps
  <2>11. loading'.step # "none" => cabinet'.open /\ ~cabinet'.auth /\ MineOf(posts') = {} /\ due' = 0
    BY <1>1, <1>5, <2>3, <2>10
  <2>12. PageStep
    BY <1>1, <1>4, <1>5, <2>3, <2>10, <2>11 DEF PageStep, ArcadeInv
  <2>13. QED  BY <1>1, <2>3, <2>10, <2>12, PageKeeps
<1>7. CASE kind # "queued"
  <2>1. SubmitMemberScore(page, score)  BY <1>3, <1>7 DEF FinishRun
  <2>2. CASE page.auth /\ score > 0
    <3>1. PICK number \in Nat : number = finished'  BY <1>4
    <3>2. PICK new : new = Post(number, score)  OBVIOUS
    <3>3. new \in Posts /\ new.score = score /\ new.mine = TRUE /\ new.step = "sent"
      BY <3>1, <3>2 DEF Post, Posts
    <3>4. cabinet' = [page EXCEPT !.status = "saving"] /\ posts' = posts \cup {new}
      BY <2>1, <2>2, <3>1, <3>2 DEF SubmitMemberScore
    <3>5. /\ cabinet' \in Cabinets /\ cabinet'.pending = cabinet.pending
          /\ cabinet'.open = cabinet.open
          /\ cabinet'.auth = cabinet.auth /\ cabinet'.best = cabinet.best
      BY <1>2, <1>3, <3>4 DEF Cabinets
    <3>6. posts' \in SUBSET Posts /\ IsFiniteSet(posts')  BY <1>1, <3>3, <3>4, FS_AddElement
    <3>7. MineOf(posts') = MineOf(posts) \cup {new}  BY <3>3, <3>4 DEF MineOf
    <3>8. \A p \in posts' : PostSound(p, scoreRow)  BY <1>1, <3>3, <3>4 DEF PostSound
    <3>9. PageSound(cabinet', posts', scoreRow, d)
      BY <1>1, <1>5, <3>3, <3>5, <3>7 DEF PageSound
    <3>10. cabinet.auth  BY <1>2, <1>3, <2>2
    <3>11. PageStep
      BY <1>1, <1>4, <1>5, <1>7, <3>5, <3>6, <3>8, <3>9, <3>10 DEF PageStep, ArcadeInv
    <3>12. QED  BY <1>1, <3>5, <3>11, PageKeeps
  <2>3. CASE ~(page.auth /\ score > 0)
    <3>1. cabinet' = page /\ posts' = posts  BY <2>1, <2>3 DEF SubmitMemberScore
    <3>2. d = due  BY <1>1, <1>2, <1>3, <1>5, <2>3
    <3>3. PageSound(cabinet', posts', scoreRow, d)
      BY <1>1, <1>2, <1>3, <3>1, <3>2 DEF PageSound
    <3>4. PageStep
      BY <1>1, <1>2, <1>3, <1>4, <1>5, <1>7, <3>1, <3>2, <3>3 DEF PageStep, ArcadeInv
    <3>5. QED  BY <1>1, <1>2, <1>3, <3>1, <3>4, PageKeeps
  <2>4. QED  BY <2>2, <2>3
<1>8. QED  BY <1>6, <1>7

\* The player leaves the page.
LEMMA LeaveKeeps == ArcadeInv /\ LeaveGame => ArcadeInv' /\ ~cabinet'.open
<1> SUFFICES ASSUME ArcadeInv, LeaveGame PROVE ArcadeInv' /\ ~cabinet'.open
  OBVIOUS
<1>1. /\ cabinet \in Cabinets /\ posts \in SUBSET Posts /\ IsFiniteSet(posts)
      /\ Backed(scoreRow, cabinet.best) /\ \A p \in posts : PostSound(p, scoreRow)
  BY DEF ArcadeInv, PageSound
<1>2. /\ cabinet' \in Cabinets /\ cabinet'.pending = 0 /\ cabinet'.open = FALSE
      /\ cabinet'.best = cabinet.best
  BY <1>1 DEF LeaveGame, Cabinets
<1>3. loading' \in Loads /\ loading'.step = "none"  BY DEF LeaveGame, NoLoad, Loads
<1>4. posts' = {[p EXCEPT !.mine = FALSE] : p \in posts}  BY DEF LeaveGame
<1>5. \A p \in Posts : /\ [p EXCEPT !.mine = FALSE] \in Posts
                       /\ [p EXCEPT !.mine = FALSE].mine = FALSE
                       /\ \A row : PostSound(p, row) => PostSound([p EXCEPT !.mine = FALSE], row)
  BY DEF Posts, PostSound
<1>6. posts' \in SUBSET Posts /\ MineOf(posts') = {} /\ \A p \in posts' : PostSound(p, scoreRow)
  BY <1>1, <1>4, <1>5 DEF MineOf
<1>7. IsFiniteSet(posts')
  <2>1. PICK f : f = [p \in posts |-> [p EXCEPT !.mine = FALSE]]  OBVIOUS
  <2>2. f \in Surjection(posts, posts')  BY <1>4, <2>1 DEF Surjection
  <2>3. QED  BY <1>1, <2>2, FS_Surjection
<1>8. due' = 0 /\ UNCHANGED <<kind, scoreRow, finished>>  BY DEF LeaveGame
<1>9. PageSound(cabinet', posts', scoreRow, due')
  <2>1. Backed(scoreRow, due')  BY <1>8 DEF Backed
  <2>2. ~(cabinet'.pending > 0) /\ Backed(scoreRow, cabinet'.best)  BY <1>1, <1>2
  <2>3. QED  BY <2>1, <2>2 DEF PageSound
<1>10. QueueSound(cabinet', posts')  BY <1>6 DEF QueueSound
<1>11. PageStep
  BY <1>2, <1>3, <1>6, <1>7, <1>8, <1>9, <1>10 DEF PageStep, ArcadeInv
<1>12. QED  BY <1>2, <1>8, <1>11, PageKeeps

\* The player opens the game.
LEMMA OpenKeeps == ArcadeInv /\ OpenGame => ArcadeInv'
<1> SUFFICES ASSUME ArcadeInv, OpenGame PROVE ArcadeInv'
  OBVIOUS
<1>1. cabinet \in Cabinets /\ MineOf(posts) = {} /\ due = 0
  BY DEF ArcadeInv, OpenGame
<1>2. /\ cabinet' \in Cabinets /\ cabinet'.pending = 0 /\ cabinet'.open = TRUE
      /\ cabinet'.best = 0 /\ cabinet'.auth = FALSE
  BY <1>1 DEF OpenGame, Mounted, Cabinets
<1>3. loading' \in Loads /\ loading'.step = "sent"  BY DEF OpenGame, Loads
<1>4. PageSound(cabinet', posts, scoreRow, due) /\ QueueSound(cabinet', posts)
  BY <1>1, <1>2 DEF PageSound, QueueSound, Backed
<1>5. PageStep
  BY <1>1, <1>2, <1>3, <1>4 DEF PageStep, ArcadeInv, OpenGame
<1>6. QED  BY <1>5, PageKeeps DEF OpenGame

-----------------------------------------------------------------------------
(* The server's steps. *)

(* A POST moves on with its number, score and owner, the row with it or not. *)
LEMMA PostMoves ==
  ASSUME ArcadeInv, NEW row \in ArcadeRow \cup {NoScoreRow}, scoreRow' = row,
         \A o \in posts : PostSound(o, row), loading.step = "ok" => Backed(row, loading.best),
         PageSound(cabinet, posts, row, due),
         NEW p \in posts, NEW q \in Posts, q.mine = p.mine, q.score = p.score,
         PostSound(q, row), kind = "queued" /\ q.mine /\ q.step = "ok" => q.best >= cabinet.best,
         posts' = (posts \ {p}) \cup {q}, UNCHANGED <<kind, cabinet, loading, finished, due>>
  PROVE  ArcadeInv'
<1>1. /\ posts \subseteq Posts /\ IsFiniteSet(posts)
      /\ kind = "queued" => QueueSound(cabinet, posts)
  BY DEF ArcadeInv
<1>2. posts' \subseteq Posts /\ IsFiniteSet(posts')
  <2>1. IsFiniteSet(posts \ {p})  BY <1>1, FS_RemoveElement
  <2>2. QED  BY <1>1, <2>1, FS_AddElement
<1>3. MineOf(posts') = IF p.mine THEN (MineOf(posts) \ {p}) \cup {q} ELSE MineOf(posts)
  <2>1. p.mine \in BOOLEAN  BY <1>1 DEF Posts
  <2>2. CASE p.mine  BY <2>2 DEF MineOf
  <2>3. CASE ~p.mine  BY <2>3 DEF MineOf
  <2>4. QED  BY <2>1, <2>2, <2>3
<1>4. p.mine => p \in MineOf(posts)  BY DEF MineOf
<1>5. MineOf(posts) = {} <=> MineOf(posts') = {}
  BY <1>3, <1>4
<1>6. PageSound(cabinet, posts', row, due)
  <2>1. (\E o \in MineOf(posts) : due <= o.score) => \E o \in MineOf(posts') : due <= o.score
    BY <1>3
  <2>2. QED  BY <1>5, <2>1 DEF PageSound
<1>7. kind = "queued" => QueueSound(cabinet, posts')
  <2> SUFFICES ASSUME kind = "queued" PROVE QueueSound(cabinet, posts')
    OBVIOUS
  <2>1. QueueSound(cabinet, posts)  BY <1>1
  <2>2. CASE p.mine
    <3>1. MineOf(posts) = {p}  BY <1>4, <2>1, <2>2 DEF QueueSound
    <3>2. MineOf(posts') = {q}  BY <1>3, <2>2, <3>1
    <3>3. q.mine  BY <2>2
    <3>4. QED  BY <3>2, <3>3 DEF QueueSound
  <2>3. CASE ~p.mine  BY <1>3, <2>1, <2>3 DEF QueueSound
  <2>4. QED  BY <2>2, <2>3
<1>8. \A o \in posts' : PostSound(o, row)  OBVIOUS
<1>9. QED  BY <1>2, <1>5, <1>6, <1>7, <1>8 DEF ArcadeInv

\* The route writes a run.
LEMMA SaveRunKeeps ==
  ASSUME ArcadeInv, NEW p \in posts, NEW now \in Nat, SaveRun(p, now)
  PROVE  ArcadeInv' /\ (scoreRow' # scoreRow => RowBetter(scoreRow, scoreRow'))
<1> DEFINE row == Upserted(scoreRow, p.score, now)
           step == IF ~session THEN "401" ELSE IF RefusedByCheck(row) THEN "503" ELSE "saved"
<1>1. p \in Posts /\ p.score \in Nat /\ p.step = "sent"  BY DEF ArcadeInv, Posts, SaveRun
<1>2. scoreRow \in ArcadeRow \cup {NoScoreRow}  BY DEF ArcadeInv
<1>3. RowBetter(scoreRow, row) /\ row.high >= p.score  BY <1>1, <1>2, RowImproves
<1>4. PICK q : q = [p EXCEPT !.step = step]  OBVIOUS
<1>5. /\ q \in Posts /\ q.mine = p.mine /\ q.score = p.score /\ q.step = step
      /\ step \in {"saved", "401", "503"}
  BY <1>1, <1>4 DEF Posts
<1>6. /\ posts' = (posts \ {p}) \cup {q}
      /\ scoreRow' = (IF step = "saved" THEN row ELSE scoreRow)
      /\ UNCHANGED <<kind, cabinet, loading, finished, due>>
  BY <1>4 DEF SaveRun
<1>7. CASE step = "saved"
  <2>1. PICK next : next = row  OBVIOUS
  <2>2. RowBetter(scoreRow, next) /\ next # NoScoreRow /\ next.high >= p.score
    BY <1>3, <2>1, RowIsNotNone DEF RowBetter
  <2>3. PostSound(q, next)  BY <1>5, <1>7, <2>2 DEF PostSound
  <2>4. next \in ArcadeRow /\ scoreRow' = next  BY <1>6, <1>7, <2>1, <2>2 DEF RowBetter
  <2>5. /\ \A o \in posts : PostSound(o, next)
        /\ loading.step = "ok" => Backed(next, loading.best)
        /\ PageSound(cabinet, posts, next, due)
    BY <2>2, BetterRowFits
  <2>6. ~(q.step = "ok")  BY <1>5
  <2>7. ArcadeInv'  BY <1>5, <1>6, <2>3, <2>4, <2>5, <2>6, PostMoves
  <2>8. QED  BY <2>2, <2>4, <2>7
<1>8. CASE step # "saved"
  <2>1. scoreRow' = scoreRow  BY <1>6, <1>8
  <2>2. PostSound(q, scoreRow)  BY <1>5, <1>8 DEF PostSound
  <2>3. ~(q.step = "ok")  BY <1>5
  <2>4. /\ \A o \in posts : PostSound(o, scoreRow)
        /\ loading.step = "ok" => Backed(scoreRow, loading.best)
        /\ PageSound(cabinet, posts, scoreRow, due)
    BY DEF ArcadeInv
  <2>5. QED  BY <1>2, <1>5, <1>6, <2>1, <2>2, <2>3, <2>4, PostMoves
<1>9. QED  BY <1>7, <1>8

\* The route reads the board after the write.
LEMMA ReadAfterKeeps == ASSUME ArcadeInv, NEW p \in posts, ReadAfterSave(p) PROVE ArcadeInv'
<1>1. /\ p \in Posts /\ p.step = "saved" /\ PostSound(p, scoreRow)
      /\ scoreRow \in ArcadeRow \cup {NoScoreRow} /\ Backed(scoreRow, cabinet.best)
      /\ cabinet.best \in Nat
  BY DEF ArcadeInv, ReadAfterSave, PageSound, Cabinets
<1>2. scoreRow \in ArcadeRow /\ scoreRow.high \in Nat /\ scoreRow.high >= p.score
  BY <1>1, RowIsNotNone DEF PostSound
<1>3. PICK q : q = [p EXCEPT !.step = "ok", !.best = scoreRow.high]  OBVIOUS
<1>4. /\ q \in Posts /\ q.mine = p.mine /\ q.score = p.score /\ q.step = "ok"
      /\ q.best = scoreRow.high
  <2>1. PICK o : o = [p EXCEPT !.step = "ok"]  OBVIOUS
  <2>2. o \in Posts /\ o.mine = p.mine /\ o.score = p.score /\ o.step = "ok"
    BY <1>1, <2>1 DEF Posts
  <2>3. q = [o EXCEPT !.best = scoreRow.high]  BY <1>3, <2>1
  <2>4. QED  BY <1>2, <2>2, <2>3 DEF Posts
<1>5. PostSound(q, scoreRow)  BY <1>1, <1>2, <1>4, RowIsNotNone DEF PostSound
<1>6. q.best >= cabinet.best  BY <1>1, <1>2, <1>4 DEF Backed
<1>7. UNCHANGED <<kind, cabinet, loading, scoreRow, finished, due>>  BY DEF ReadAfterSave
<1>8. /\ \A o \in posts : PostSound(o, scoreRow)
      /\ loading.step = "ok" => Backed(scoreRow, loading.best)
      /\ PageSound(cabinet, posts, scoreRow, due)
  BY DEF ArcadeInv
<1>9. CASE posts' = (posts \ {p}) \cup {q}
  BY <1>1, <1>4, <1>5, <1>6, <1>7, <1>8, <1>9, PostMoves
<1>10. CASE posts' = (posts \ {p}) \cup {[p EXCEPT !.step = "401"]}
  <2>1. PICK r : r = [p EXCEPT !.step = "401"]  OBVIOUS
  <2>2. r \in Posts /\ r.mine = p.mine /\ r.score = p.score /\ r.step = "401"
    BY <1>1, <2>1 DEF Posts
  <2>3. PostSound(r, scoreRow)  BY <2>2 DEF PostSound
  <2>4. QED  BY <1>1, <1>7, <1>8, <1>10, <2>1, <2>2, <2>3, PostMoves
<1>11. QED  BY <1>3, <1>9, <1>10 DEF ReadAfterSave

\* The route reads the board for a page.
LEMMA ReadBoardKeeps == ArcadeInv /\ ReadMemberBoard => ArcadeInv'
<1> SUFFICES ASSUME ArcadeInv, ReadMemberBoard PROVE ArcadeInv'
  OBVIOUS
<1>1. scoreRow # NoScoreRow => scoreRow.high \in Nat  BY RowIsNotNone DEF ArcadeInv
<1>2. PICK best \in Nat : best = IF scoreRow = NoScoreRow THEN 0 ELSE scoreRow.high
  BY <1>1
<1>3. loading' = IF session THEN [step |-> "ok", best |-> best]
                 ELSE [step |-> "signed-out", best |-> 0]
  BY <1>2 DEF ReadMemberBoard
<1>4. loading' \in Loads  BY <1>3 DEF Loads
<1>5. Backed(scoreRow, best)  BY <1>1, <1>2 DEF Backed
<1>6. loading'.step = "ok" => Backed(scoreRow, loading'.best)
  BY <1>3, <1>5
<1>7. loading.step # "none"  BY DEF ReadMemberBoard
<1>8. PageStep  BY <1>4, <1>6, <1>7 DEF ArcadeInv, PageStep, ReadMemberBoard
<1>9. QED  BY <1>8, PageKeeps DEF ReadMemberBoard

\* The member scores in another browser.
LEMMA ElsewhereKeeps ==
  ASSUME ArcadeInv, NEW score \in Nat, NEW now \in Nat, PlayElsewhere(score, now)
  PROVE  ArcadeInv' /\ RowBetter(scoreRow, scoreRow')
<1>1. PICK next : next = Upserted(scoreRow, score, now)  OBVIOUS
<1>2. RowBetter(scoreRow, next)  BY <1>1, RowImproves DEF ArcadeInv
<1>3. scoreRow' = next /\ UNCHANGED <<kind, cabinet, loading, posts, finished, due>>
  BY <1>1 DEF PlayElsewhere
<1>4. /\ \A p \in posts : PostSound(p, next)
      /\ loading.step = "ok" => Backed(next, loading.best)
      /\ PageSound(cabinet, posts, next, due)
  BY <1>2, BetterRowFits
<1>5. next \in ArcadeRow  BY <1>2 DEF RowBetter
<1>6. ArcadeInv'  BY <1>3, <1>4, <1>5 DEF ArcadeInv
<1>7. QED  BY <1>2, <1>3, <1>6

-----------------------------------------------------------------------------
(* How the page takes an answer. *)

\* A page that learns it is signed out drops what waits.
LEMMA SignedOutPage ==
  ASSUME NEW page \in Cabinets
  PROVE  /\ SignedOut(page) \in Cabinets /\ SignedOut(page).auth = FALSE
         /\ SignedOut(page).best = 0 /\ SignedOut(page).pending = 0
         /\ SignedOut(page).open = page.open
<1>1. PICK a : a = [page EXCEPT !.auth = FALSE, !.status = "signed-out"]  OBVIOUS
<1>2. a \in Cabinets /\ a.auth = FALSE /\ a.open = page.open  BY <1>1 DEF Cabinets
<1>3. PICK b : b = [a EXCEPT !.best = 0]  OBVIOUS
<1>4. b \in Cabinets /\ b.auth = FALSE /\ b.open = page.open /\ b.best = 0
  BY <1>2, <1>3 DEF Cabinets
<1>5. SignedOut(page) = [b EXCEPT !.pending = 0]  BY <1>1, <1>3 DEF SignedOut
<1>6. QED  BY <1>4, <1>5 DEF Cabinets

\* The page takes the board it asked for.
LEMMA TakeBoardKeeps ==
  ASSUME ArcadeInv, TakeBoard
  PROVE  ArcadeInv' /\ ~cabinet.auth
<1>1. /\ cabinet \in Cabinets /\ posts \in SUBSET Posts /\ IsFiniteSet(posts) /\ finished \in Nat
      /\ loading \in Loads /\ ~cabinet.auth /\ MineOf(posts) = {} /\ due = 0
      /\ UNCHANGED <<kind, scoreRow, session, finished>>
  BY DEF ArcadeInv, TakeBoard
<1>2. loading' \in Loads /\ loading'.step = "none"  BY DEF TakeBoard, NoLoad, Loads
<1>3. \A p \in posts : PostSound(p, scoreRow)  BY DEF ArcadeInv
<1>4. cabinet.open
  BY DEF TakeBoard, ArcadeInv
<1>5. CASE loading.step = "ok"
  <2>1. PICK a : a = [cabinet EXCEPT !.auth = TRUE, !.status = "ready"]  OBVIOUS
  <2>2. a \in Cabinets /\ a.auth = TRUE /\ a.open = cabinet.open /\ a.pending = cabinet.pending
    BY <1>1, <2>1 DEF Cabinets
  <2>3. PICK page : page = [a EXCEPT !.best = loading.best]  OBVIOUS
  <2>4. /\ page \in Cabinets /\ page.auth = TRUE /\ page.open = cabinet.open
        /\ page.pending = cabinet.pending /\ page.best = loading.best /\ page.pending \in Nat
    BY <1>1, <2>2, <2>3 DEF Cabinets, Loads
  <2>5. Pump(page, finished, posts)
    <3>1. page = [cabinet EXCEPT !.auth = TRUE, !.status = "ready", !.best = loading.best]
      BY <2>1, <2>3
    <3>2. QED  BY <1>5, <3>1 DEF TakeBoard
  <2>6. PICK d \in Nat : d = due' /\ d \in {0, page.pending}
    <3>1. due' = Maximum({due, cabinet.pending})  BY <1>5 DEF TakeBoard
    <3>2. QED  BY <1>1, <2>4, <3>1, LargerOfTwo
  <2>7. Backed(scoreRow, d) \/ d <= page.pending \/ \E p \in MineOf(posts) : d <= p.score
    <3>1. Backed(scoreRow, 0)  BY DEF Backed
    <3>2. QED  BY <2>4, <2>6, <3>1
  <2>8. QueueSound(page, posts)  BY <1>1 DEF QueueSound
  <2>9. Backed(scoreRow, page.best)  BY <1>5, <2>4 DEF ArcadeInv
  <2>10. posts \cap Mine = MineOf(posts)  BY MineIsMineOf
  <2>11. /\ cabinet' \in Cabinets /\ posts' \in SUBSET Posts /\ IsFiniteSet(posts')
         /\ \A p \in posts' : PostSound(p, scoreRow)
         /\ PageSound(cabinet', posts', scoreRow, d)
         /\ kind = "queued" => QueueSound(cabinet', posts')
         /\ cabinet'.open = page.open
    BY <1>1, <1>3, <2>4, <2>5, <2>7, <2>8, <2>9, <2>10, PumpKeeps
  <2>12. PageStep
    BY <1>1, <1>2, <1>4, <2>4, <2>6, <2>11 DEF PageStep, ArcadeInv
  <2>13. QED  BY <1>1, <2>12, PageKeeps
<1>6. CASE loading.step # "ok"
  <2>1. cabinet' = SignedOut(cabinet) /\ posts' = posts /\ due' = due  BY <1>6 DEF TakeBoard
  <2>2. /\ cabinet' \in Cabinets /\ cabinet'.auth = FALSE /\ cabinet'.best = 0
        /\ cabinet'.pending = 0
    BY <1>1, <2>1, SignedOutPage
  <2>3. PageSound(cabinet', posts', scoreRow, due')
    BY <1>1, <2>1, <2>2 DEF PageSound, Backed
  <2>4. QueueSound(cabinet', posts')  BY <1>1, <2>1 DEF QueueSound
  <2>5. PageStep
    BY <1>1, <1>2, <1>3, <2>1, <2>2, <2>3, <2>4 DEF PageStep
  <2>6. QED  BY <1>1, <2>5, PageKeeps
<1>7. QED  BY <1>5, <1>6

\* The page does not get the board.
LEMMA LoadFailsKeeps == ASSUME ArcadeInv, LoadFails PROVE ArcadeInv' /\ ~cabinet'.auth
<1>1. /\ cabinet \in Cabinets /\ MineOf(posts) = {} /\ due = 0 /\ cabinet.open
      /\ UNCHANGED <<kind, posts, scoreRow, session, finished, due>>
  BY DEF ArcadeInv, LoadFails
<1>2. PICK a : a = [cabinet EXCEPT !.auth = FALSE, !.status = "error"]  OBVIOUS
<1>3. a \in Cabinets /\ a.auth = FALSE /\ a.open = cabinet.open  BY <1>1, <1>2 DEF Cabinets
<1>4. cabinet' = [a EXCEPT !.best = 0]  BY <1>2 DEF LoadFails
<1>5. cabinet' \in Cabinets /\ cabinet'.auth = FALSE /\ cabinet'.open /\ cabinet'.best = 0
  BY <1>1, <1>3, <1>4 DEF Cabinets
<1>6. loading' \in Loads /\ loading'.step = "none"  BY DEF LoadFails, NoLoad, Loads
<1>7. Backed(scoreRow, 0)  BY DEF Backed
<1>8. PageSound(cabinet', posts, scoreRow, due)  BY <1>1, <1>5, <1>7 DEF PageSound
<1>9. QueueSound(cabinet', posts)  BY <1>1 DEF QueueSound
<1>10. PageStep  BY <1>1, <1>5, <1>6, <1>8, <1>9 DEF PageStep, ArcadeInv
<1>11. QED  BY <1>1, <1>5, <1>10, PageKeeps

(* A POST that is the page's, and what it means that there is one.           *)
LEMMA MineIsOut ==
  ASSUME ArcadeInv, NEW p \in Mine
  PROVE  /\ p \in posts /\ p \in Posts /\ p.mine /\ p \in MineOf(posts)
         /\ cabinet.open /\ loading.step = "none"
         /\ posts \ {p} \in SUBSET posts /\ posts \ {p} \in SUBSET Posts
         /\ IsFiniteSet(posts \ {p}) /\ (posts \ {p}) \cap Mine = MineOf(posts \ {p})
         /\ MineOf(posts \ {p}) = MineOf(posts) \ {p}
<1>1. p \in posts /\ p.mine /\ p \in MineOf(posts)  BY DEF Mine, MineOf
<1>2. posts \subseteq Posts /\ IsFiniteSet(posts) /\ loading \in Loads  BY DEF ArcadeInv
<1>3. cabinet.open /\ loading.step = "none"  BY <1>1 DEF ArcadeInv
<1>4. IsFiniteSet(posts \ {p})  BY <1>2, FS_RemoveElement
<1>5. posts \ {p} \in SUBSET posts  OBVIOUS
<1>6. MineOf(posts \ {p}) = MineOf(posts) \ {p}  BY DEF MineOf
<1>7. QED  BY <1>1, <1>2, <1>3, <1>4, <1>5, <1>6, MineIsMineOf

\* The page takes a confirmation.
LEMMA TakeSavedKeeps ==
  ASSUME ArcadeInv, NEW p \in posts, TakeSaved(p)
  PROVE  ArcadeInv' /\ (kind = "queued" => cabinet'.best >= cabinet.best)
<1>1. p \in Mine /\ p.step = "ok" /\ UNCHANGED <<kind, loading, scoreRow, session, finished, faults, due>>
  BY DEF TakeSaved
<1>2. PICK others : others = posts \ {p}  OBVIOUS
<1>3. /\ p \in Posts /\ p \in MineOf(posts) /\ cabinet.open /\ loading.step = "none"
      /\ others \in SUBSET posts /\ others \in SUBSET Posts /\ IsFiniteSet(others)
      /\ others \cap Mine = MineOf(others) /\ MineOf(others) = MineOf(posts) \ {p}
  BY <1>1, <1>2, MineIsOut
<1>4. /\ cabinet \in Cabinets /\ finished \in Nat /\ due \in Nat /\ p.best \in Nat
      /\ p.score \in Nat
      /\ \A o \in posts : PostSound(o, scoreRow) /\ PageSound(cabinet, posts, scoreRow, due)
      /\ kind = "queued" => QueueSound(cabinet, posts)
  BY <1>3 DEF ArcadeInv, Posts
<1>5. scoreRow # NoScoreRow /\ scoreRow.high >= p.score /\ scoreRow.high >= p.best
      /\ scoreRow.high \in Nat
  BY <1>1, <1>4, RowIsNotNone DEF PostSound, ArcadeInv
<1>6. PICK a : a = [cabinet EXCEPT !.auth = TRUE, !.status = "ready"]  OBVIOUS
<1>7. a \in Cabinets /\ a.auth = TRUE /\ a.open = cabinet.open /\ a.pending = cabinet.pending
  BY <1>4, <1>6 DEF Cabinets
<1>8. PICK page : page = [a EXCEPT !.best = p.best]  OBVIOUS
<1>9. /\ page \in Cabinets /\ page.auth = TRUE /\ page.open = cabinet.open
      /\ page.pending = cabinet.pending /\ page.best = p.best
  BY <1>4, <1>7, <1>8 DEF Cabinets
<1>10. Pump(page, finished, others)
  <2>1. page = [cabinet EXCEPT !.auth = TRUE, !.status = "ready", !.best = p.best]
    BY <1>6, <1>8
  <2>2. QED  BY <1>2, <2>1 DEF TakeSaved
<1>11. Backed(scoreRow, due) \/ due <= page.pending \/ \E o \in MineOf(others) : due <= o.score
  <2>1. due <= p.score => Backed(scoreRow, due)
    BY <1>4, <1>5 DEF Backed
  <2>2. QED  BY <1>3, <1>4, <1>9, <2>1 DEF PageSound
<1>12. kind = "queued" => MineOf(others) = {} /\ p.best >= cabinet.best
  BY <1>1, <1>3, <1>4 DEF QueueSound
<1>13. kind = "queued" => QueueSound(page, others)  BY <1>12 DEF QueueSound
<1>14. Backed(scoreRow, page.best)  BY <1>5, <1>9 DEF Backed
<1>15. \A o \in others : PostSound(o, scoreRow)  BY <1>3, <1>4
<1>16. /\ cabinet' \in Cabinets /\ posts' \in SUBSET Posts /\ IsFiniteSet(posts')
       /\ \A o \in posts' : PostSound(o, scoreRow)
       /\ PageSound(cabinet', posts', scoreRow, due)
       /\ kind = "queued" => QueueSound(cabinet', posts')
       /\ cabinet'.open = page.open /\ cabinet'.best = page.best
  BY <1>3, <1>4, <1>9, <1>10, <1>11, <1>13, <1>14, <1>15, PumpKeeps
<1>17. PageStep
  BY <1>1, <1>3, <1>4, <1>9, <1>16 DEF PageStep, ArcadeInv
<1>18. QED  BY <1>1, <1>9, <1>12, <1>16, <1>17, PageKeeps

\* The page takes the refusal of a post.
LEMMA TakeSignedOutKeeps ==
  ASSUME ArcadeInv, NEW p \in posts, TakeSignedOut(p)
  PROVE  ArcadeInv' /\ ~cabinet'.auth
<1>1. /\ kind = "queued" /\ p \in Mine /\ cabinet' = SignedOut(cabinet) /\ posts' = posts \ {p}
      /\ due' = 0 /\ UNCHANGED <<kind, loading, scoreRow, session, finished, faults>>
  BY DEF TakeSignedOut
<1>2. /\ p \in MineOf(posts) /\ loading.step = "none" /\ posts' \in SUBSET posts
      /\ posts' \in SUBSET Posts /\ IsFiniteSet(posts') /\ MineOf(posts') = MineOf(posts) \ {p}
  BY <1>1, MineIsOut
<1>3. MineOf(posts') = {}  BY <1>1, <1>2 DEF ArcadeInv, QueueSound
<1>4. /\ cabinet' \in Cabinets /\ cabinet'.auth = FALSE /\ cabinet'.best = 0
      /\ cabinet'.pending = 0
  BY <1>1, SignedOutPage DEF ArcadeInv
<1>5. \A o \in posts' : PostSound(o, scoreRow)  BY <1>2 DEF ArcadeInv
<1>6. Backed(scoreRow, 0)  BY DEF Backed
<1>7. PageSound(cabinet', posts', scoreRow, due')  BY <1>1, <1>4, <1>6 DEF PageSound
<1>8. QueueSound(cabinet', posts')  BY <1>3 DEF QueueSound
<1>9. PageStep
  BY <1>1, <1>2, <1>3, <1>4, <1>5, <1>7, <1>8 DEF PageStep, ArcadeInv
<1>10. QED  BY <1>1, <1>4, <1>9, PageKeeps

\* What a page keeps of a post that failed.
LEMMA AfterFailure ==
  ASSUME NEW page \in Cabinets
  PROVE  /\ AfterFailedSave(page) \in Cabinets
         /\ AfterFailedSave(page).pending = page.pending
         /\ AfterFailedSave(page).open = page.open /\ AfterFailedSave(page).auth = page.auth
         /\ AfterFailedSave(page).best = page.best
<1>1. CASE kind = "direct"
  <2>1. PICK s : s = (IF page.auth THEN "ready" ELSE "error") /\ s \in {"ready", "error"}
    OBVIOUS
  <2>2. AfterFailedSave(page) = [page EXCEPT !.status = s]  BY <1>1, <2>1 DEF AfterFailedSave
  <2>3. QED  BY <2>1, <2>2 DEF Cabinets
<1>2. CASE kind # "direct"
  <2>1. PICK s : /\ s = (IF page.auth /\ page.status = "saving" THEN "ready" ELSE page.status)
                 /\ s \in {"loading", "ready", "saving", "error", "signed-out"}
    BY DEF Cabinets
  <2>2. AfterFailedSave(page) = [page EXCEPT !.status = s]
    BY <1>2, <2>1 DEF AfterFailedSave, Cabinets
  <2>3. QED  BY <2>1, <2>2 DEF Cabinets
<1>3. QED  BY <1>1, <1>2

(* A save that failed is no longer due, what else is out or pending is.      *)
LEMMA NotConfirmedKeeps ==
  ASSUME ArcadeInv, NEW p \in Mine, NEW others \in SUBSET Posts, IsFiniteSet(others),
         others \cap Mine = MineOf(others), MineOf(others) = MineOf(posts) \ {p},
         \A o \in others : PostSound(o, scoreRow), SaveNotConfirmed(others),
         UNCHANGED <<kind, loading, scoreRow, finished>>
  PROVE  ArcadeInv' /\ cabinet'.best = cabinet.best
<1>1. cabinet.open /\ loading.step = "none"  BY MineIsOut
<1>2. /\ cabinet \in Cabinets /\ finished \in Nat /\ Backed(scoreRow, cabinet.best)
      /\ kind = "queued" => QueueSound(cabinet, posts)
  BY DEF ArcadeInv, PageSound
<1>3. PICK page : page = AfterFailedSave(cabinet)  OBVIOUS
<1>4. /\ page \in Cabinets /\ page.pending = cabinet.pending /\ page.open = cabinet.open
      /\ page.best = cabinet.best /\ page.pending \in Nat
  BY <1>2, <1>3, AfterFailure DEF Cabinets
<1>5. PICK d \in Nat : d = due' /\ d \in {0, cabinet.pending} \cup {o.score : o \in MineOf(others)}
  <2>1. PICK S : S = {0, cabinet.pending} \cup {o.score : o \in MineOf(others)}  OBVIOUS
  <2>2. due' = Maximum(S)  BY <2>1 DEF SaveNotConfirmed
  <2>3. S \in SUBSET Nat /\ S # {}  BY <1>4, <2>1 DEF MineOf, Posts
  <2>4. IsFiniteSet(S)
    <3>1. PICK Q : Q = {o.score : o \in MineOf(others)}  OBVIOUS
    <3>2. PICK f : f = [o \in MineOf(others) |-> o.score]  OBVIOUS
    <3>3. f \in Surjection(MineOf(others), Q)  BY <3>1, <3>2 DEF Surjection
    <3>4. IsFiniteSet(MineOf(others))
      <4>1. MineOf(others) \in SUBSET others  BY DEF MineOf
      <4>2. QED  BY <4>1, FS_Subset
    <3>5. IsFiniteSet(Q)  BY <3>3, <3>4, FS_Surjection
    <3>6. IsFiniteSet(Q \cup {0})  BY <3>5, FS_AddElement
    <3>7. IsFiniteSet((Q \cup {0}) \cup {cabinet.pending})  BY <3>6, FS_AddElement
    <3>8. S = (Q \cup {0}) \cup {cabinet.pending}  BY <2>1, <3>1
    <3>9. QED  BY <3>7, <3>8
  <2>5. Maximum(S) \in S  BY <2>3, <2>4, MaximumIsGreatest
  <2>6. QED  BY <2>1, <2>2, <2>3, <2>5
<1>6. Backed(scoreRow, d) \/ d <= page.pending \/ \E o \in MineOf(others) : d <= o.score
  <2>1. Backed(scoreRow, 0)  BY DEF Backed
  <2>2. QED  BY <1>4, <1>5, <2>1
<1>7. kind = "queued" => QueueSound(page, others)
  <2>1. p \in MineOf(posts)  BY MineIsOut
  <2>2. kind = "queued" => MineOf(others) = {}  BY <1>2, <2>1 DEF QueueSound
  <2>3. QED  BY <2>2 DEF QueueSound
<1>8. Pump(page, finished, others)  BY <1>3 DEF SaveNotConfirmed
<1>9. /\ cabinet' \in Cabinets /\ posts' \in SUBSET Posts /\ IsFiniteSet(posts')
      /\ \A o \in posts' : PostSound(o, scoreRow)
      /\ PageSound(cabinet', posts', scoreRow, d)
      /\ kind = "queued" => QueueSound(cabinet', posts')
      /\ cabinet'.open = page.open /\ cabinet'.best = page.best
  BY <1>2, <1>4, <1>6, <1>7, <1>8, PumpKeeps
<1>10. PageStep
  BY <1>1, <1>2, <1>4, <1>5, <1>9 DEF PageStep, ArcadeInv
<1>11. QED  BY <1>4, <1>9, <1>10, PageKeeps

\* The page takes the failure of a post.
LEMMA TakeFailureKeeps ==
  ASSUME ArcadeInv, NEW p \in posts, TakeFailure(p)
  PROVE  ArcadeInv' /\ cabinet'.best = cabinet.best
<1>1. /\ p \in Mine /\ SaveNotConfirmed(posts \ {p})
      /\ UNCHANGED <<kind, loading, scoreRow, session, finished, faults>>
  BY DEF TakeFailure
<1>2. PICK others : others = posts \ {p}  OBVIOUS
<1>3. /\ others \in SUBSET posts /\ others \in SUBSET Posts /\ IsFiniteSet(others)
      /\ others \cap Mine = MineOf(others) /\ MineOf(others) = MineOf(posts) \ {p}
  BY <1>1, <1>2, MineIsOut
<1>4. \A o \in others : PostSound(o, scoreRow)  BY <1>3 DEF ArcadeInv
<1>5. QED  BY <1>1, <1>2, <1>3, <1>4, NotConfirmedKeeps

\* A request is lost.
LEMMA LostKeeps ==
  ASSUME ArcadeInv, NEW p \in posts, NEW arrives \in BOOLEAN, AnswerLost(p, arrives)
  PROVE  ArcadeInv' /\ cabinet'.best = cabinet.best
<1>1. p \in Mine /\ UNCHANGED <<kind, loading, scoreRow, session, finished>>
  BY DEF AnswerLost
<1>2. PICK rest : rest = posts \ {p}  OBVIOUS
<1>3. /\ rest \in SUBSET posts /\ rest \in SUBSET Posts /\ IsFiniteSet(rest) /\ p \in Posts
      /\ rest \cap Mine = MineOf(rest) /\ MineOf(rest) = MineOf(posts) \ {p}
  BY <1>1, <1>2, MineIsOut
<1>4. \A o \in posts : PostSound(o, scoreRow)  BY DEF ArcadeInv
<1>5. CASE arrives /\ p.step = "sent"
  <2>1. PICK q : q = [p EXCEPT !.mine = FALSE]  OBVIOUS
  <2>2. q \in Posts /\ q.mine = FALSE /\ q.step = "sent"  BY <1>3, <1>5, <2>1 DEF Posts
  <2>3. PICK others : others = rest \cup {q}  OBVIOUS
  <2>4. SaveNotConfirmed(others)  BY <1>2, <1>5, <2>1, <2>3 DEF AnswerLost
  <2>5. others \in SUBSET Posts /\ IsFiniteSet(others)  BY <1>3, <2>2, <2>3, FS_AddElement
  <2>6. MineOf(others) = MineOf(rest)  BY <2>2, <2>3 DEF MineOf
  <2>7. others \cap Mine = MineOf(others)
    <3>1. q \notin Mine  BY <2>2 DEF Mine
    <3>2. QED  BY <1>3, <2>3, <2>6, <3>1
  <2>8. \A o \in others : PostSound(o, scoreRow)
    BY <1>3, <1>4, <2>2, <2>3 DEF PostSound
  <2>9. QED  BY <1>1, <1>3, <2>4, <2>5, <2>6, <2>7, <2>8, NotConfirmedKeeps
<1>6. CASE ~(arrives /\ p.step = "sent")
  <2>1. rest \cup {} = rest  OBVIOUS
  <2>2. SaveNotConfirmed(rest)  BY <1>2, <1>6, <2>1 DEF AnswerLost
  <2>3. QED  BY <1>1, <1>3, <1>4, <2>2, NotConfirmedKeeps
<1>7. QED  BY <1>5, <1>6

-----------------------------------------------------------------------------
(* Every step: the invariant, the row, and the best that the page shows.     *)
Onward ==
  /\ scoreRow' # scoreRow => RowBetter(scoreRow, scoreRow')
  /\ kind = "queued" /\ cabinet.open /\ cabinet'.open /\ cabinet.auth /\ cabinet'.auth =>
       cabinet'.best >= cabinet.best

\* A step that leaves the shown best alone does not step back.
LEMMA SameBest ==
  ASSUME ArcadeInv, cabinet'.best = cabinet.best, scoreRow' = scoreRow
  PROVE  Onward
<1>1. cabinet.best \in Nat  BY DEF ArcadeInv, Cabinets
<1>2. QED  BY <1>1 DEF Onward

\* Every step keeps the invariant, and none steps back.
LEMMA ArcadeSteps == ArcadeInv /\ [ArcadeNext]_arcadeVars => ArcadeInv' /\ Onward
<1> SUFFICES ASSUME ArcadeInv, [ArcadeNext]_arcadeVars PROVE ArcadeInv' /\ Onward
  OBVIOUS
<1>0. RunScores \subseteq Nat /\ 0..MaxInstant \subseteq Nat
  BY ArcadeBoardAssumption
<1>1. CASE StartRun \/ PauseRun \/ ResumeRun
  <2>1. ASSUME NEW from, NEW to \in {"ready", "playing", "paused", "dead"}, Enter(from, to)
        PROVE  ArcadeInv' /\ Onward
    BY <2>1, EnterKeeps, SameBest DEF Enter
  <2>2. QED  BY <1>1, <2>1 DEF StartRun, PauseRun, ResumeRun
<1>2. CASE LeaveGame  BY <1>2, LeaveKeeps DEF LeaveGame, Onward
<1>3. CASE OpenGame  BY <1>3, OpenKeeps DEF OpenGame, Onward
<1>4. ASSUME NEW score \in RunScores, FinishRun(score)  PROVE ArcadeInv' /\ Onward
  <2>1. score \in Nat  BY <1>0
  <2>2. QED  BY <1>4, <2>1, FinishKeeps, SameBest DEF FinishRun
<1>5. ASSUME NEW p \in posts, NEW now \in 0..MaxInstant, SaveRun(p, now)
      PROVE  ArcadeInv' /\ Onward
  <2>1. now \in Nat  BY <1>0
  <2>2. ArcadeInv' /\ (scoreRow' # scoreRow => RowBetter(scoreRow, scoreRow'))
    BY <1>5, <2>1, SaveRunKeeps
  <2>3. cabinet' = cabinet /\ cabinet.best \in Nat  BY <1>5 DEF SaveRun, ArcadeInv, Cabinets
  <2>4. cabinet'.best >= cabinet.best  BY <2>3
  <2>5. QED  BY <2>2, <2>4 DEF Onward
<1>6. ASSUME NEW score \in RunScores, NEW now \in 0..MaxInstant, PlayElsewhere(score, now)
      PROVE  ArcadeInv' /\ Onward
  <2>1. now \in Nat /\ score \in Nat  BY <1>0
  <2>2. ArcadeInv' /\ RowBetter(scoreRow, scoreRow')  BY <1>6, <2>1, ElsewhereKeeps
  <2>3. cabinet' = cabinet /\ cabinet.best \in Nat
    BY <1>6 DEF PlayElsewhere, ArcadeInv, Cabinets
  <2>4. cabinet'.best >= cabinet.best  BY <2>3
  <2>5. QED  BY <2>2, <2>4 DEF Onward
<1>7. CASE ReadMemberBoard  BY <1>7, ReadBoardKeeps, SameBest DEF ReadMemberBoard
<1>8. CASE ToggleSession
  <2>1. ArcadeInv'  BY <1>8 DEF ToggleSession, ArcadeInv
  <2>2. QED  BY <1>8, <2>1, SameBest DEF ToggleSession
<1>9. CASE TakeBoard  BY <1>9, TakeBoardKeeps DEF TakeBoard, Onward
<1>10. CASE LoadFails  BY <1>10, LoadFailsKeeps DEF LoadFails, Onward
<1>11. ASSUME NEW p \in posts, ReadAfterSave(p)  PROVE ArcadeInv' /\ Onward
  BY <1>11, ReadAfterKeeps, SameBest DEF ReadAfterSave
<1>12. ASSUME NEW p \in posts, TakeSaved(p)  PROVE ArcadeInv' /\ Onward
  BY <1>12, TakeSavedKeeps DEF TakeSaved, Onward
<1>13. ASSUME NEW p \in posts, TakeSignedOut(p)  PROVE ArcadeInv' /\ Onward
  BY <1>13, TakeSignedOutKeeps DEF TakeSignedOut, Onward
<1>14. ASSUME NEW p \in posts, TakeFailure(p)  PROVE ArcadeInv' /\ Onward
  BY <1>14, TakeFailureKeeps, SameBest DEF TakeFailure
<1>15. ASSUME NEW p \in posts, NEW arrives \in BOOLEAN, AnswerLost(p, arrives)
       PROVE  ArcadeInv' /\ Onward
  BY <1>15, LostKeeps, SameBest DEF AnswerLost
<1>16. CASE UNCHANGED arcadeVars
  <2>1. ArcadeInv'  BY <1>16 DEF arcadeVars, ArcadeInv
  <2>2. QED  BY <1>16, <2>1, SameBest DEF arcadeVars
<1>17. QED
  BY <1>1, <1>2, <1>3, <1>4, <1>5, <1>6, <1>7, <1>8, <1>9, <1>10, <1>11, <1>12, <1>13, <1>14,
     <1>15, <1>16 DEF ArcadeNext

\* The invariant of the arcade boards holds.
LEMMA ArcadeHolds == ArcadeSpec => []ArcadeInv
<1>1. ArcadeInv /\ [ArcadeNext]_arcadeVars => ArcadeInv'  BY ArcadeSteps
<1>2. QED  BY InitArcade, <1>1, PTL DEF ArcadeSpec

\* A best that a game page shows as saved is in the row, for any number of runs,
\* reloads, lost and late answers (the queue of Puff Print Run and Suipuff, the
\* direct posts of Flappy Puff).
THEOREM ArcadeScoresAreKept == ArcadeSpec => []ArcadeScoreKept
<1>1. ArcadeInv => ArcadeScoreKept
  <2> SUFFICES ASSUME ArcadeInv, cabinet.open
               PROVE  /\ cabinet.best > 0 => scoreRow # NoScoreRow /\ cabinet.best <= scoreRow.high
                      /\ cabinet.pending > 0 => Mine # {} \/ ~cabinet.auth
                      /\ cabinet.auth /\ Mine = {} /\ due > 0 =>
                           scoreRow # NoScoreRow /\ scoreRow.high >= due
    BY DEF ArcadeScoreKept
  <2>1. /\ PageSound(cabinet, posts, scoreRow, due) /\ cabinet.best \in Nat
        /\ cabinet.pending \in Nat /\ due \in Nat
        /\ scoreRow # NoScoreRow => scoreRow.high \in Nat
    BY RowIsNotNone DEF ArcadeInv, Cabinets
  <2>2. cabinet.best > 0 => scoreRow # NoScoreRow /\ cabinet.best <= scoreRow.high
    BY <2>1 DEF PageSound, Backed
  <2>3. cabinet.pending > 0 => Mine # {} \/ ~cabinet.auth
    BY <2>1, MineIsMineOf DEF PageSound
  <2>4. ASSUME cabinet.auth, Mine = {}, due > 0
        PROVE  scoreRow # NoScoreRow /\ scoreRow.high >= due
    <3>1. MineOf(posts) = {} /\ ~(cabinet.pending > 0)  BY <2>3, <2>4, MineIsMineOf
    <3>2. ~(due <= cabinet.pending)  BY <2>1, <2>4, <3>1
    <3>3. Backed(scoreRow, due)  BY <2>1, <3>1, <3>2 DEF PageSound
    <3>4. QED  BY <2>1, <2>4, <3>3 DEF Backed
  <2>5. QED  BY <2>2, <2>3, <2>4
<1>2. QED  BY <1>1, ArcadeHolds, PTL

\* Neither the row nor the best that a page shows steps back, whatever answer
\* comes late or crosses another one.
THEOREM ArcadeOnlyGrows == ArcadeSpec => ArcadeNeverStepsBack
<1>1. ArcadeInv /\ [ArcadeNext]_arcadeVars =>
        [/\ scoreRow # NoScoreRow =>
              /\ scoreRow'.high >= scoreRow.high
              /\ scoreRow'.high = scoreRow.high => scoreRow'.achieved = scoreRow.achieved
         /\ kind = "queued" /\ cabinet.open /\ cabinet'.open /\ cabinet.auth /\ cabinet'.auth =>
              cabinet'.best >= cabinet.best]_arcadeVars
  <2> SUFFICES ASSUME ArcadeInv, [ArcadeNext]_arcadeVars
               PROVE  /\ scoreRow # NoScoreRow =>
                           /\ scoreRow'.high >= scoreRow.high
                           /\ scoreRow'.high = scoreRow.high =>
                                scoreRow'.achieved = scoreRow.achieved
                      /\ kind = "queued" /\ cabinet.open /\ cabinet'.open /\ cabinet.auth
                           /\ cabinet'.auth => cabinet'.best >= cabinet.best
    OBVIOUS
  <2>1. Onward  BY ArcadeSteps
  <2>2. scoreRow # NoScoreRow => scoreRow.high \in Nat  BY RowIsNotNone DEF ArcadeInv
  <2>3. QED  BY <2>1, <2>2 DEF Onward, RowBetter
<1>2. QED  BY <1>1, ArcadeHolds, PTL DEF ArcadeSpec, ArcadeNeverStepsBack

-----------------------------------------------------------------------------
(***************************************************************************)
(* The engine of Puff Print Run (PuffSnake).                               *)
(***************************************************************************)
WordRuns == [kind : {"word"}, length : WordLengths, progress : Nat, completedWords : Nat]
EndlessRuns == [kind : {"endless"}]

\* A snake s of distinct neighbouring cells of the grid.
Whole(s) ==
  /\ s \in Seq(Cells) /\ Len(s) >= 1
  /\ \A i \in 1..Len(s) : \A j \in 1..Len(s) : s[i] = s[j] => i = j
  /\ \A i \in 1..Len(s)-1 : Adjacent(s[i], s[i + 1])

Offered(pickup, s) == pickup \in Cells /\ (Cells \subseteq On(s) \/ pickup \notin On(s))

\* What a snake of length n carries of an objective o.
Carried(o, n) ==
  /\ o \in WordRuns \cup EndlessRuns
  /\ o.kind = "word" => o.progress < o.length /\ n = StartingLength + o.progress

\* The cell behind the head is the one the snake came from.
Heading(s, direction, pending) ==
  /\ pending # Opposite[direction]
  /\ Len(s) > 1 => s[2] = NextHead(s[1], Opposite[direction])

SnakeInv ==
  /\ run \in [status : {"ready", "running", "dead"}, score : Nat, snake : Seq(Cells),
              direction : Directions, pendingDirection : Directions, pickup : Cells,
              objective : WordRuns \cup EndlessRuns]
  /\ Whole(run.snake)
  /\ Offered(run.pickup, run.snake)
  /\ Carried(run.objective, Len(run.snake))
  /\ run.score % 5 = 0
  /\ run.status # "dead" => Heading(run.snake, run.direction, run.pendingDirection)
  /\ Len(run.snake) > 1 => NextHead(run.snake[1], run.direction) # run.snake[2]

\* The invariant gives the property.
LEMMA SnakeCases ==
  ASSUME SnakeInv
  PROVE  SnakeStaysWhole
<1>1. Whole(run.snake) /\ Offered(run.pickup, run.snake)
      /\ Carried(run.objective, Len(run.snake))  BY DEF SnakeInv
<1>2. On(run.snake) \subseteq Cells  BY <1>1 DEF On, Whole
<1> QED  BY <1>1, <1>2 DEF SnakeInv, SnakeStaysWhole, Whole, Offered, Carried

\* The grid has a cell.
LEMMA Corner == <<0, 0>> \in Cells
<1>1. Cols \in Nat /\ Rows \in Nat /\ Rows > 0  BY PuffSnakeAssumption
<1>2. Cols > 0  BY PuffSnakeAssumption
<1> QED  BY <1>1, <1>2 DEF Cells

\* A pickup is offered where the code spawns it.
LEMMA SpawnIsOffered ==
  ASSUME NEW s, Whole(s), NEW pickup \in Pickups(s)
  PROVE  Offered(pickup, s)
BY Corner DEF Pickups, Offered

\* The snake that has made a move to the cell a and keeps m of its cells.
LEMMA Advanced ==
  ASSUME NEW s \in Seq(Cells), NEW a \in Cells, NEW m \in 1..Len(s)+1,
         NEW t, t = SubSeq(<<a>> \o s, 1, m)
  PROVE  /\ t \in Seq(Cells) /\ Len(t) = m /\ t[1] = a
         /\ \A i \in 2..m : t[i] = s[i - 1]
<1>1. PICK g : g = <<a>> \o s  OBVIOUS
<1>2. <<a>> \in Seq(Cells) /\ Len(<<a>>) = 1 /\ <<a>>[1] = a  OBVIOUS
<1>3. g \in Seq(Cells) /\ Len(g) = 1 + Len(s)  BY <1>1, <1>2, ConcatProperties
<1>4. g[1] = a  BY <1>1, <1>2
<1>5. \A i \in 2..Len(s)+1 : g[i] = s[i - 1]  BY <1>1, <1>2
<1>6. m \in Nat /\ 1 <= m /\ m <= Len(g)  BY <1>3
<1>7. t \in Seq(Cells)  BY <1>1, <1>3, <1>6
<1>8. Len(t) = m  BY <1>1, <1>3, <1>6
<1>9. \A i \in 1..m : t[i] = g[i]  BY <1>1, <1>3, <1>6
<1> QED  BY <1>4, <1>5, <1>6, <1>7, <1>8, <1>9

\* The cell ahead leads back the opposite way, and no other way leads to it.
LEMMA Compass ==
  ASSUME NEW a \in Cells, NEW d \in Directions, NEW b, b = NextHead(a, d)
  PROVE  /\ Opposite[d] \in Directions
         /\ a = NextHead(b, Opposite[d])
         /\ NextHead(b, d) # a
         /\ d # Opposite[d]
         /\ \A e \in Directions : e # d => NextHead(a, e) # b
BY DEF Directions, Opposite, NextHead, Cells

\* A move into a free cell leaves a path.
LEMMA AdvancedWhole ==
  ASSUME NEW s, Whole(s), NEW a \in Cells, NEW m \in 1..Len(s)+1,
         NEW direction \in Directions, a = NextHead(s[1], direction),
         \A i \in 1..m-1 : s[i] # a,
         NEW t \in Seq(Cells), Len(t) = m, t[1] = a, \A i \in 2..m : t[i] = s[i - 1]
  PROVE  Whole(t)
<1> USE DEF Whole
<1>1. /\ t \in Seq(Cells) /\ Len(t) = m /\ t[1] = a
      /\ \A i \in 2..m : t[i] = s[i - 1]  OBVIOUS
<1>2. ASSUME NEW i \in 1..m, NEW j \in 1..m, t[i] = t[j]  PROVE i = j
  <2>1. CASE i = 1 /\ j # 1  BY <2>1, <1>1, <1>2
  <2>2. CASE j = 1 /\ i # 1  BY <2>2, <1>1, <1>2
  <2>3. CASE i # 1 /\ j # 1
    <3>1. i - 1 \in 1..Len(s) /\ j - 1 \in 1..Len(s)  BY <2>3
    <3>2. s[i - 1] = s[j - 1]  BY <2>3, <1>1, <1>2
    <3>3. i - 1 = j - 1  BY <3>1, <3>2
    <3> QED  BY <3>3
  <2> QED  BY <2>1, <2>2, <2>3
<1>3. ASSUME NEW i \in 1..m-1  PROVE Adjacent(t[i], t[i + 1])
  <2>1. CASE i = 1
    <3>1. t[1] = NextHead(t[2], direction)  BY <2>1, <1>1
    <3>2. t[2] \in Cells /\ t[1] \in Cells  BY <2>1, <1>1
    <3>3. t[2] = NextHead(t[1], Opposite[direction]) /\ Opposite[direction] \in Directions
      BY <3>1, <3>2, Compass
    <3> QED  BY <3>3, <2>1 DEF Adjacent
  <2>2. CASE i # 1
    <3>1. i - 1 \in 1..Len(s)-1  BY <2>2
    <3>2. Adjacent(s[i - 1], s[(i - 1) + 1])  BY <3>1
    <3>3. t[i] = s[i - 1] /\ t[i + 1] = s[(i - 1) + 1]  BY <2>2, <1>1
    <3> QED  BY <3>2, <3>3
  <2> QED  BY <2>1, <2>2
<1> QED  BY <1>1, <1>2, <1>3

\* What the snake keeps when it runs into a wall or into itself, waits or turns.
LEMMA InitialSnake ==
  ASSUME PuffSnakeInit
  PROVE  SnakeInv
<1>1. PICK length \in WordLengths, pickup \in Pickups(NewSnake(1, <<0, 0>>).snake) :
        run = NewSnake(length, pickup)
  BY DEF PuffSnakeInit, NewSnakes
<1>2. PICK s : s = [i \in 1..StartingLength |-> <<Cols \div 2 - (i - 1), Rows \div 2>>]
  OBVIOUS
<1>3. run = [status |-> "ready", score |-> 0, snake |-> s, direction |-> "right",
             pendingDirection |-> "right", pickup |-> pickup,
             objective |-> WordObjective(length, 0, 0)]
  BY <1>1, <1>2 DEF NewSnake
<1>4. pickup \in Pickups(s)  BY <1>1, <1>2 DEF NewSnake
<1>5. /\ StartingLength \in Nat /\ StartingLength >= 1
      /\ Cols \in Nat /\ Rows \in Nat /\ Rows >= 1
      /\ Cols \div 2 >= StartingLength - 1 /\ Cols \div 2 < Cols
  BY PuffSnakeAssumption
<1>6. Rows \div 2 \in 0..Rows-1 /\ Cols \div 2 \in 0..Cols-1  BY <1>5
<1>7. PICK x, y : x = Cols \div 2 /\ y = Rows \div 2  OBVIOUS
<1>8. ASSUME NEW i \in 1..StartingLength  PROVE s[i] = <<x - (i - 1), y>> /\ s[i] \in Cells
  <2>1. s[i] = <<x - (i - 1), y>>  BY <1>2, <1>7
  <2>2. x - (i - 1) \in 0..Cols-1 /\ y \in 0..Rows-1  BY <1>5, <1>6, <1>7
  <2> QED  BY <2>1, <2>2 DEF Cells
<1>9. s \in Seq(Cells) /\ Len(s) = StartingLength
  <2>1. s = [i \in 1..StartingLength |-> s[i]]  BY <1>2
  <2>2. s \in Seq(Cells)  BY <2>1, <1>5, <1>8, IsASeq
  <2>3. DOMAIN s = 1..StartingLength  BY <1>2
  <2> QED  BY <2>2, <2>3, <1>5, LenProperties
<1>10. Whole(s)
  <2>1. \A i \in 1..Len(s) : \A j \in 1..Len(s) : s[i] = s[j] => i = j
    BY <1>6, <1>7, <1>8, <1>9
  <2>2. ASSUME NEW i \in 1..Len(s)-1  PROVE Adjacent(s[i], s[i + 1])
    <3>1. s[i] = <<x - (i - 1), y>> /\ s[i + 1] = <<x - i, y>>  BY <1>5, <1>8, <1>9
    <3>2. NextHead(s[i], "left") = s[i + 1]  BY <3>1, <1>6, <1>7 DEF NextHead
    <3> QED  BY <3>2 DEF Adjacent, Directions
  <2> QED  BY <2>1, <2>2, <1>5, <1>9 DEF Whole
<1>11. Offered(pickup, s)  BY <1>4, <1>10, SpawnIsOffered
<1>12. WordObjective(length, 0, 0) \in WordRuns
       /\ Carried(WordObjective(length, 0, 0), Len(s))
  <2>1. length \in Nat /\ length > 0  BY PuffSnakeAssumption
  <2> QED  BY <2>1, <1>5, <1>9 DEF Carried, WordRuns, WordObjective
<1>13. Len(s) > 1 => s[2] = <<x - 1, y>> /\ s[1] = <<x, y>>  BY <1>5, <1>6, <1>7, <1>8, <1>9
<1>14. Heading(s, "right", "right")
       /\ (Len(s) > 1 => NextHead(s[1], "right") # s[2])
  BY <1>13, <1>6, <1>7 DEF Heading, NextHead, Opposite
<1>15. pickup \in Cells  BY <1>11 DEF Offered
<1>16. run \in [status : {"ready", "running", "dead"}, score : Nat, snake : Seq(Cells),
                direction : Directions, pendingDirection : Directions, pickup : Cells,
                objective : WordRuns \cup EndlessRuns]
  BY <1>3, <1>9, <1>12, <1>15 DEF Directions
<1> QED  BY <1>3, <1>10, <1>11, <1>12, <1>14, <1>16 DEF SnakeInv

\* A step that leaves the snake, the pickup, the objective and the score alone.
LEMMA SnakeStart ==
  ASSUME SnakeInv, StartSnake
  PROVE  SnakeInv'
<1>1. /\ run'.status = "running" /\ run.status # "dead"
      /\ run' = [run EXCEPT !.status = "running"]
  BY DEF StartSnake
<1> QED  BY <1>1 DEF SnakeInv

\* A key is remembered for the next step.
LEMMA SnakeTurn ==
  ASSUME SnakeInv, NEW direction \in Directions, Turn(direction)
  PROVE  SnakeInv'
<1>1. /\ run.status # "dead" /\ direction # Opposite[run.direction]
      /\ run' = [run EXCEPT !.pendingDirection = direction]
  BY DEF Turn
<1>2. Heading(run.snake, run.direction, run.pendingDirection)  BY <1>1 DEF SnakeInv
<1>3. Heading(run.snake, run.direction, direction)  BY <1>1, <1>2 DEF Heading
<1> QED  BY <1>1, <1>3 DEF SnakeInv

\* Where the head of a running snake goes.
LEMMA SnakeAhead ==
  ASSUME SnakeInv, run.status = "running"
  PROVE  /\ Len(run.snake) > 1 => Ahead # run.snake[2]
         /\ Ahead = NextHead(run.snake[1], run.pendingDirection)
         /\ run.snake[1] \in Cells
<1>1. /\ Whole(run.snake) /\ Heading(run.snake, run.direction, run.pendingDirection)
      /\ run.direction \in Directions /\ run.pendingDirection \in Directions
  BY DEF SnakeInv
<1>2. run.snake[1] \in Cells  BY <1>1 DEF Whole
<1>3. ASSUME Len(run.snake) > 1  PROVE Ahead # run.snake[2]
  <2>1. run.snake[2] = NextHead(run.snake[1], Opposite[run.direction])
    BY <1>1, <1>3 DEF Heading
  <2>2. run.pendingDirection # Opposite[run.direction]  BY <1>1 DEF Heading
  <2>3. Opposite[run.direction] \in Directions  BY <1>1 DEF Directions, Opposite
  <2> QED  BY <1>1, <1>2, <2>1, <2>2, <2>3, Compass DEF Ahead
<1> QED  BY <1>2, <1>3 DEF Ahead

\* A crash ends the run with the snake as it was.
LEMMA SnakeCrash ==
  ASSUME SnakeInv, Crash
  PROVE  SnakeInv'
<1>1. /\ run.status = "running"
      /\ run' = [[run EXCEPT !.direction = run.pendingDirection] EXCEPT !.status = "dead"]
  BY DEF Crash, Turned
<1>2. Len(run.snake) > 1 => NextHead(run.snake[1], run.pendingDirection) # run.snake[2]
  BY <1>1, SnakeAhead
<1> QED  BY <1>1, <1>2 DEF SnakeInv

\* The cells before the tail.
LEMMA WithoutTail ==
  ASSUME NEW s \in Seq(Cells), Len(s) >= 1, NEW a, a \notin On(SubSeq(s, 1, Len(s) - 1)),
         NEW m \in Nat, m <= Len(s)
  PROVE  \A i \in 1..m-1 : s[i] # a
<1>1. PICK u : u = SubSeq(s, 1, Len(s) - 1)  OBVIOUS
<1>2. PICK n \in Nat : n = Len(s)  OBVIOUS
<1>3. Len(u) = n - 1 /\ \A i \in 1..n-1 : u[i] = s[i]
  <2>1. CASE n = 1
    <3>1. u = << >>  BY <2>1, <1>1, <1>2
    <3> QED  BY <3>1, <2>1
  <2>2. CASE n # 1
    <3>1. n - 1 \in Int /\ 1 <= n - 1 /\ 1 \in Int  BY <2>2, <1>2
    <3>2. \A i \in 1..n-1 : s[i] \in Cells  BY <1>2
    <3> QED  BY <3>1, <3>2, <1>1, <1>2, SubSeqProperties
  <2> QED  BY <2>1, <2>2
<1> QED  BY <1>1, <1>2, <1>3 DEF On

\* The head of the snake that has moved on by one cell.
LEMMA SnakeMoves ==
  ASSUME SnakeInv, run.status = "running", ~Crashes,
         NEW m \in 1..Len(run.snake)+1, Ate \/ m <= Len(run.snake),
         NEW t, t = SubSeq(Grown, 1, m)
  PROVE  /\ Ahead \in Cells
         /\ Whole(t) /\ Len(t) = m /\ t[1] = Ahead /\ \A i \in 2..m : t[i] = run.snake[i - 1]
         /\ Heading(t, run.pendingDirection, run.pendingDirection)
         /\ Len(t) > 1 => NextHead(t[1], run.pendingDirection) # t[2]
<1>1. PICK s, a, d : s = run.snake /\ a = Ahead /\ d = run.pendingDirection  OBVIOUS
<1>2. /\ Whole(s) /\ d \in Directions  BY <1>1 DEF SnakeInv
<1>3. a \in Cells  BY <1>1 DEF Crashes
<1>4. a = NextHead(s[1], d) /\ s[1] \in Cells  BY <1>1, SnakeAhead
<1>5. Len(s) \in Nat /\ Len(s) >= 1 /\ m \in 1..Len(s)+1  BY <1>1, <1>2 DEF Whole
<1>6. \A i \in 1..m-1 : s[i] # a
  <2>1. ~HitSelf  BY DEF Crashes
  <2>2. CASE Ate
    <3>1. a \notin On(s)  BY <1>1, <2>1, <2>2 DEF HitSelf
    <3> QED  BY <3>1, <1>5 DEF On
  <2>3. CASE ~Ate
    <3>1. a \notin On(SubSeq(s, 1, Len(s) - 1))  BY <1>1, <2>1, <2>3 DEF HitSelf
    <3>2. m <= Len(s)  BY <1>1, <2>3
    <3> QED  BY <1>2, <1>5, <3>1, <3>2, WithoutTail DEF Whole
  <2> QED  BY <2>2, <2>3
<1>7. t = SubSeq(<<a>> \o s, 1, m)  BY <1>1 DEF Grown
<1>8. /\ Whole(t) /\ Len(t) = m /\ t[1] = a
      /\ \A i \in 2..m : t[i] = s[i - 1]
  <2>1. /\ t \in Seq(Cells) /\ Len(t) = m /\ t[1] = a
        /\ \A i \in 2..m : t[i] = s[i - 1]
    <3>1. s \in Seq(Cells)  BY <1>2 DEF Whole
    <3>2. m \in 1..Len(s)+1  BY <1>5
    <3> QED  BY <3>1, <3>2, <1>3, <1>7, Advanced
  <2>2. Whole(t)  BY <1>2, <1>3, <1>4, <1>5, <1>6, <2>1, AdvancedWhole
  <2> QED  BY <2>1, <2>2
<1>9. Len(t) > 1 => t[2] = s[1]
  <2>1. m > 1 => t[2] = s[2 - 1]  BY <1>5, <1>8
  <2> QED  BY <2>1, <1>8
<1>10. /\ d # Opposite[d] /\ s[1] = NextHead(a, Opposite[d]) /\ NextHead(a, d) # s[1]
  BY <1>2, <1>4, Compass
<1>11. Heading(t, d, d)  BY <1>8, <1>9, <1>10 DEF Heading
<1>12. Len(t) > 1 => NextHead(t[1], d) # t[2]  BY <1>8, <1>9, <1>10
<1> QED  BY <1>1, <1>3, <1>8, <1>11, <1>12

\* The length after a letter.
LEMMA GrownLength ==
  ASSUME SnakeInv, run.status = "running", ~Crashes
  PROVE  /\ Len(run.snake) \in Nat /\ Len(run.snake) >= 1
         /\ Len(Grown) = Len(run.snake) + 1
         /\ Grown = SubSeq(Grown, 1, Len(run.snake) + 1)
<1>1. run.snake \in Seq(Cells) /\ Len(run.snake) >= 1  BY DEF SnakeInv, Whole
<1>2. Ahead \in Cells  BY DEF Crashes
<1>3. PICK s, a, g : s = run.snake /\ a = Ahead /\ g = Grown  OBVIOUS
<1>4. g = <<a>> \o s  BY <1>3 DEF Grown
<1>5. <<a>> \in Seq(Cells) /\ Len(<<a>>) = 1  BY <1>2, <1>3
<1>6. g \in Seq(Cells) /\ Len(g) = 1 + Len(s)  BY <1>1, <1>3, <1>4, <1>5, ConcatProperties
<1>7. g = SubSeq(g, 1, Len(g))  BY <1>6, SubSeqFull
<1>8. Len(s) \in Nat  BY <1>1, <1>3
<1>9. Len(g) = Len(s) + 1  BY <1>6, <1>8
<1> QED  BY <1>1, <1>3, <1>7, <1>8, <1>9

\* A move.
LEMMA SnakeMove ==
  ASSUME SnakeInv, Move
  PROVE  SnakeInv'
<1>1. PICK t : t = SubSeq(Grown, 1, Len(Grown) - 1)  OBVIOUS
<1>2. /\ run.status = "running" /\ ~Crashes /\ ~Ate
      /\ run' = [[run EXCEPT !.direction = run.pendingDirection] EXCEPT !.snake = t]
  BY <1>1 DEF Move, Turned
<1>3. PICK n \in Nat : n = Len(run.snake) /\ n >= 1 /\ Len(Grown) = n + 1
  BY <1>2, GrownLength
<1>4. t = SubSeq(Grown, 1, n)  BY <1>1, <1>3
<1>5. /\ Ahead \in Cells
      /\ Whole(t) /\ Len(t) = n /\ t[1] = Ahead /\ (\A i \in 2..n : t[i] = run.snake[i - 1])
      /\ Heading(t, run.pendingDirection, run.pendingDirection)
      /\ Len(t) > 1 => NextHead(t[1], run.pendingDirection) # t[2]
  <2>1. n \in 1..Len(run.snake)+1 /\ n <= Len(run.snake)  BY <1>3
  <2> QED  BY <1>2, <1>4, <2>1, SnakeMoves
<1>6. Offered(run.pickup, t)
  <2>1. Offered(run.pickup, run.snake) /\ Whole(run.snake)  BY DEF SnakeInv
  <2>2. PICK s, a : s = run.snake /\ a = Ahead  OBVIOUS
  <2>3. t[1] = a /\ \A i \in 2..n : t[i] = s[i - 1]  BY <1>5, <2>2
  <2>4. CASE Cells \subseteq On(s)
    <3>1. \A i \in 1..n-1 : s[i] # a
      <4>1. a \notin On(SubSeq(s, 1, Len(s) - 1))
        BY <1>2, <2>2 DEF Crashes, HitSelf
      <4>2. s \in Seq(Cells) /\ Len(s) >= 1 /\ n <= Len(s)  BY <2>1, <2>2, <1>3 DEF Whole
      <4> QED  BY <4>1, <4>2, WithoutTail
    <3>2. a \in On(s)  BY <1>5, <2>2, <2>4
    <3>3. PICK k \in 1..n : a = s[k]  BY <3>2, <2>2, <1>3 DEF On
    <3>4. a = s[n]  BY <3>1, <3>3
    <3>5. ASSUME NEW c \in Cells  PROVE c \in On(t)
      <4>1. PICK i \in 1..n : c = s[i]  BY <2>4, <2>2, <1>3 DEF On
      <4>2. CASE i = n  BY <4>1, <4>2, <3>4, <2>3, <1>3, <1>5 DEF On
      <4>3. CASE i # n
        <5>1. i + 1 \in 2..n /\ i + 1 \in 1..n  BY <4>3
        <5>2. t[i + 1] = s[(i + 1) - 1]  BY <5>1, <2>3
        <5>3. t[i + 1] = c  BY <5>2, <4>1
        <5> QED  BY <5>1, <5>3, <1>5 DEF On
      <4> QED  BY <4>2, <4>3
    <3> QED  BY <3>5, <2>1 DEF Offered
  <2>5. CASE ~(Cells \subseteq On(s))
    <3>1. run.pickup \notin On(s)  BY <2>1, <2>2, <2>5 DEF Offered
    <3>2. run.pickup # a  BY <1>2, <2>2 DEF Ate
    <3>3. \A i \in 1..n : t[i] # run.pickup
      <4> SUFFICES ASSUME NEW i \in 1..n  PROVE t[i] # run.pickup  OBVIOUS
      <4>1. CASE i = 1  BY <4>1, <2>3, <3>2
      <4>2. CASE i # 1
        <5>1. i - 1 \in 1..n /\ i \in 2..n  BY <4>2
        <5>2. t[i] = s[i - 1]  BY <5>1, <2>3
        <5>3. s[i - 1] # run.pickup  BY <3>1, <5>1, <2>2, <1>3 DEF On
        <5> QED  BY <5>2, <5>3
      <4> QED  BY <4>1, <4>2
    <3> QED  BY <3>3, <2>1, <1>5 DEF Offered, On
  <2> QED  BY <2>4, <2>5
<1>7. Carried(run.objective, Len(t))  BY <1>3, <1>5 DEF SnakeInv
<1>8. t \in Seq(Cells)  BY <1>5 DEF Whole
<1> QED  BY <1>2, <1>5, <1>6, <1>7, <1>8 DEF SnakeInv

\* A letter that does not end the word.
LEMMA SnakeEats ==
  ASSUME SnakeInv, NEW pickup, EatLetter(pickup)
  PROVE  SnakeInv'
<1>1. PICK t : t = Grown  OBVIOUS
<1>2. PICK o : o = IF run.objective.kind = "word"
                     THEN [run.objective EXCEPT !.progress = run.objective.progress + 1]
                     ELSE run.objective
  OBVIOUS
<1>3. /\ run.status = "running" /\ ~Crashes /\ Ate /\ pickup \in Pickups(t)
      /\ run.objective.kind = "word" => run.objective.progress + 1 < run.objective.length
      /\ run' = [[run EXCEPT !.direction = run.pendingDirection]
                   EXCEPT !.snake = t, !.score = @ + 10, !.pickup = pickup, !.objective = o]
  BY <1>1, <1>2 DEF EatLetter, Turned
<1>4. PICK n \in Nat : n = Len(run.snake) /\ n >= 1 /\ t = SubSeq(Grown, 1, n + 1)
  BY <1>1, <1>3, GrownLength
<1>5. /\ Whole(t) /\ Len(t) = n + 1
      /\ Heading(t, run.pendingDirection, run.pendingDirection)
      /\ Len(t) > 1 => NextHead(t[1], run.pendingDirection) # t[2]
  <2>1. n + 1 \in 1..Len(run.snake)+1  BY <1>4
  <2> QED  BY <1>3, <1>4, <2>1, SnakeMoves
<1>6. Offered(pickup, t)  BY <1>3, <1>5, SpawnIsOffered
<1>7. Carried(o, Len(t))
  <2>1. Carried(run.objective, n)  BY <1>4 DEF SnakeInv
  <2>2. PICK r : r = run.objective  OBVIOUS
  <2>3. CASE r \in WordRuns
    <3>1. o = [r EXCEPT !.progress = r.progress + 1] /\ r.progress + 1 < r.length
      BY <1>2, <1>3, <2>2, <2>3 DEF WordRuns
    <3>2. o \in WordRuns /\ o.progress = r.progress + 1 /\ o.length = r.length
      BY <2>3, <3>1 DEF WordRuns
    <3>3. n = StartingLength + r.progress  BY <2>1, <2>2, <2>3 DEF Carried, WordRuns
    <3>4. n + 1 = StartingLength + (r.progress + 1)
      BY <3>3, <2>3, PuffSnakeAssumption DEF WordRuns
    <3> QED  BY <3>1, <3>2, <3>4, <1>5 DEF Carried
  <2>4. CASE r \in EndlessRuns
    <3>1. o = r /\ o.kind # "word"  BY <1>2, <2>2, <2>4 DEF EndlessRuns
    <3> QED  BY <3>1, <2>4 DEF Carried
  <2> QED  BY <2>1, <2>2, <2>3, <2>4 DEF Carried
<1>8. run.score + 10 \in Nat /\ (run.score + 10) % 5 = 0
  <2>1. run.score \in Nat /\ run.score % 5 = 0  BY DEF SnakeInv
  <2> QED  BY <2>1
<1>9. t \in Seq(Cells) /\ pickup \in Cells /\ o \in WordRuns \cup EndlessRuns
  BY <1>5, <1>6, <1>7 DEF Whole, Offered, Carried
<1> QED  BY <1>3, <1>5, <1>6, <1>7, <1>8, <1>9 DEF SnakeInv

\* A letter that ends the word: the snake shrinks to its starting length.
LEMMA SnakeCompletes ==
  ASSUME SnakeInv, NEW pickup, NEW next \in WordLengths, CompleteWord(next, pickup)
  PROVE  SnakeInv'
<1>1. PICK r : r = run.objective  OBVIOUS
<1>2. PICK removable : removable = IF Len(Grown) > StartingLength
                                     THEN Len(Grown) - StartingLength ELSE 0
  OBVIOUS
<1>3. PICK t : t = SubSeq(Grown, 1, Len(Grown) - Least(r.length, removable))  OBVIOUS
<1>4. PICK done : done = r.completedWords + 1  OBVIOUS
<1>5. PICK o : o = IF done >= WordsToEndless THEN Endless ELSE WordObjective(next, 0, done)
  OBVIOUS
<1>6. /\ run.status = "running" /\ ~Crashes /\ Ate /\ pickup \in Pickups(t)
      /\ r.kind = "word" /\ r.progress + 1 >= r.length
      /\ run' = [[run EXCEPT !.direction = run.pendingDirection]
                   EXCEPT !.snake = t, !.score = @ + 10 + r.length * 5, !.pickup = pickup,
                          !.objective = o]
  BY <1>1, <1>2, <1>3, <1>4, <1>5 DEF CompleteWord, Turned
<1>7. PICK n \in Nat : n = Len(run.snake) /\ n >= 1 /\ Len(Grown) = n + 1
  BY <1>6, GrownLength
<1>8. /\ r \in WordRuns /\ r.length \in Nat /\ r.progress \in Nat /\ r.completedWords \in Nat
      /\ r.progress < r.length /\ n = StartingLength + r.progress
  <2>1. Carried(r, n)  BY <1>1, <1>7 DEF SnakeInv
  <2>2. r \in WordRuns  BY <2>1, <1>6 DEF Carried, WordRuns, EndlessRuns
  <2> QED  BY <2>1, <2>2, <1>6, PuffSnakeAssumption DEF Carried, WordRuns
<1>9. StartingLength \in Nat /\ StartingLength >= 1  BY PuffSnakeAssumption
<1>10. t = SubSeq(Grown, 1, StartingLength)
  <2>1. r.length = r.progress + 1  BY <1>6, <1>8
  <2>2. removable = r.length  BY <2>1, <1>2, <1>7, <1>8, <1>9
  <2>3. Least(r.length, removable) = r.length  BY <2>2, <1>8 DEF Least
  <2>4. Len(Grown) - r.length = StartingLength  BY <2>1, <1>7, <1>8, <1>9
  <2> QED  BY <2>3, <2>4, <1>3
<1>11. /\ Whole(t) /\ Len(t) = StartingLength
       /\ Heading(t, run.pendingDirection, run.pendingDirection)
       /\ Len(t) > 1 => NextHead(t[1], run.pendingDirection) # t[2]
  <2>1. StartingLength \in 1..Len(run.snake)+1  BY <1>7, <1>8, <1>9
  <2> QED  BY <1>6, <1>10, <2>1, SnakeMoves
<1>12. Offered(pickup, t)  BY <1>6, <1>11, SpawnIsOffered
<1>13. Carried(o, Len(t))
  <2>1. CASE o = Endless  BY <2>1 DEF Endless, Carried, EndlessRuns
  <2>2. CASE o = WordObjective(next, 0, done)
    <3>1. done \in Nat /\ next \in Nat /\ next > 0  BY <1>4, <1>8, PuffSnakeAssumption
    <3> QED  BY <2>2, <3>1, <1>9, <1>11 DEF WordObjective, Carried, WordRuns
  <2> QED  BY <2>1, <2>2, <1>5
<1>14. run.score + 10 + r.length * 5 \in Nat /\ (run.score + 10 + r.length * 5) % 5 = 0
  <2>1. run.score \in Nat /\ run.score % 5 = 0  BY DEF SnakeInv
  <2>2. PICK x \in Nat, y \in Nat : x = run.score /\ y = r.length  BY <2>1, <1>8
  <2>3. x + 10 + y * 5 \in Nat /\ (x + 10 + y * 5) % 5 = 0  BY <2>1, <2>2
  <2> QED  BY <2>2, <2>3
<1>15. t \in Seq(Cells) /\ pickup \in Cells /\ o \in WordRuns \cup EndlessRuns
  BY <1>11, <1>12, <1>13 DEF Whole, Offered, Carried
<1> QED  BY <1>6, <1>11, <1>12, <1>13, <1>14, <1>15 DEF SnakeInv

\* The snake of Puff Print Run is a path of distinct cells of the grid, its pickup
\* lies beside it and its length fits the objective, on any grid and for any keys
\* (stepSnake of src/src/lib/puff/puff-print-run.ts).
THEOREM SnakeIsWhole == PuffSnakeSpec => []SnakeStaysWhole
<1>1. PuffSnakeInit => SnakeInv  BY InitialSnake
<1>2. SnakeInv /\ [PuffSnakeNext]_run => SnakeInv'
  <2> SUFFICES ASSUME SnakeInv, [PuffSnakeNext]_run  PROVE SnakeInv'  OBVIOUS
  <2>1. CASE StartSnake  BY <2>1, SnakeStart
  <2>2. ASSUME NEW direction \in Directions, Turn(direction)  PROVE SnakeInv'
    BY <2>2, SnakeTurn
  <2>3. CASE Crash  BY <2>3, SnakeCrash
  <2>4. CASE Move  BY <2>4, SnakeMove
  <2>5. ASSUME NEW pickup \in Cells, EatLetter(pickup)  PROVE SnakeInv'
    BY <2>5, SnakeEats
  <2>6. ASSUME NEW pickup \in Cells, NEW next \in WordLengths, CompleteWord(next, pickup)
        PROVE SnakeInv'
    BY <2>6, SnakeCompletes
  <2>7. CASE UNCHANGED run  BY <2>7 DEF SnakeInv
  <2> QED  BY <2>1, <2>2, <2>3, <2>4, <2>5, <2>6, <2>7 DEF PuffSnakeNext
<1>3. SnakeInv => SnakeStaysWhole  BY SnakeCases
<1> QED  BY <1>1, <1>2, <1>3, PTL DEF PuffSnakeSpec

-----------------------------------------------------------------------------
(***************************************************************************)
(* Flappy Puff.  A gate comes back a spacing behind all others, so no two  *)
(* are ever nearer than a gap that grows with the width; the gates between *)
(* the tail and the lead of the bird are then fewer than all, and one is   *)
(* always to come.  A gate is gone only after it counted, so the score is  *)
(* what is counted on the gates and what came back.                        *)
(***************************************************************************)
Gate == [x : Int, scored : BOOLEAN]
Spots == 1..GateCount
Scored(gates) == {i \in Spots : gates[i].scored}

Room == CHOOSE room \in [gap : Shares, lead : Shares, tail : Shares] :
          RoomFor(room.gap, room.lead, room.tail)
Gap == Room.gap
Lead == Room.lead
Rear == Room.tail

(* No two gates are nearer than the gap; those that counted are on this side *)
(* of the lead, and none is behind the tail.                                 *)
InPlace(gates, w) ==
  /\ \A i \in Spots, j \in Spots :
       i # j => gates[i].x - gates[j].x >= Gap[w] \/ gates[j].x - gates[i].x >= Gap[w]
  /\ \A i \in Spots : gates[i].scored => gates[i].x < Lead[w]
  /\ \A i \in Spots : gates[i].x >= -Rear[w]

FlightInv ==
  /\ flight \in [status : {"ready", "playing", "dead"}, score : Nat, width : Widths,
                 gates : [Spots -> Gate]]
  /\ recycled \in Nat
  /\ flight.score = recycled + Cardinality(Scored(flight.gates))
  /\ flight.status # "dead" => InPlace(flight.gates, flight.width)

\* What the assumption on the widths gives: a gap, a lead and a tail that grow with the width.
LEMMA RoomIs ==
  /\ \A w \in Widths :
       /\ w \in Nat /\ w # 0 /\ Gap[w] \in Nat /\ Lead[w] \in Nat /\ Rear[w] \in Nat
       /\ BirdX[w] \in Nat /\ FirstX[w] \in Nat /\ Spacing[w] \in Nat
       /\ BirdX[w] >= Radius
  /\ \A v \in Widths, w \in Widths :
       Gap[v] * w = Gap[w] * v /\ Lead[v] * w = Lead[w] * v /\ Rear[v] * w = Rear[w] * v
  /\ RoomFor(Gap, Lead, Rear)
  /\ GateCount \in Nat /\ GateCount > 1 /\ GateWidth \in Nat /\ Radius \in Nat /\ Margin \in Nat
<1>1. PICK gap \in Shares, lead \in Shares, tail \in Shares : RoomFor(gap, lead, tail)
  BY RoomAssumption
<1>2. \E room \in [gap : Shares, lead : Shares, tail : Shares] :
         RoomFor(room.gap, room.lead, room.tail)
  <2>1. [gap |-> gap, lead |-> lead, tail |-> tail] \in [gap : Shares, lead : Shares, tail : Shares]
    OBVIOUS
  <2>2. QED  BY <1>1, <2>1
<1>3. Room \in [gap : Shares, lead : Shares, tail : Shares] /\ RoomFor(Room.gap, Room.lead, Room.tail)
  BY <1>2 DEF Room
<1>4. Gap \in Shares /\ Lead \in Shares /\ Rear \in Shares /\ RoomFor(Gap, Lead, Rear)
  BY <1>3 DEF Gap, Lead, Rear
<1>5. \A w \in Widths : w \in Nat /\ w # 0
  BY FlappyPuffAssumption
<1>6. \A f \in Shares, w \in Widths : f[w] \in Nat
  <2>1. SUFFICES ASSUME NEW f \in Shares, NEW w \in Widths PROVE f[w] \in Nat  OBVIOUS
  <2>2. f[w] \in UNION {0..v : v \in Widths}  BY <2>1 DEF Shares
  <2>3. PICK v \in Widths : f[w] \in 0..v  BY <2>2
  <2>4. QED  BY <2>3
<1>7. \A f \in Shares, v \in Widths, w \in Widths : f[v] * w = f[w] * v  BY DEF Shares
<1>8. QED  BY <1>4, <1>5, <1>6, <1>7, FlappyPuffAssumption

\* The gates can be counted.
LEMMA SpotsFinite ==
  /\ IsFiniteSet(Spots)
  /\ \A S \in SUBSET Spots : IsFiniteSet(S) /\ Cardinality(S) \in Nat
<1>1. IsFiniteSet(Spots)  BY RoomIs, FS_Interval DEF Spots
<1>2. QED  BY <1>1, FS_Subset, FS_CardinalityType

\* Points a gap apart take their room: there is a pair as far from each other.
LEMMA Spread ==
  ASSUME NEW gap \in Nat, NEW S \in SUBSET Int, IsFiniteSet(S), S # {},
         \A a \in S, b \in S : a # b => a - b >= gap \/ b - a >= gap
  PROVE  \E a \in S, b \in S : b - a >= (Cardinality(S) - 1) * gap
<1> DEFINE Apart(Q) == \A a \in Q, b \in Q : a # b => a - b >= gap \/ b - a >= gap
           Wide(Q, k) == \E a \in Q, b \in Q : b - a >= k * gap /\ \A c \in Q : c <= b
           T == {k \in Nat : \A Q \in SUBSET Int :
                   IsFiniteSet(Q) /\ Cardinality(Q) = k + 1 /\ Apart(Q) => Wide(Q, k)}
<1>1. 0 \in T
  <2>1. SUFFICES ASSUME NEW Q \in SUBSET Int, IsFiniteSet(Q), Cardinality(Q) = 0 + 1 PROVE Wide(Q, 0)
    OBVIOUS
  <2>2. PICK x : Q = {x}
    <3>1. Cardinality(Q) = 1  BY <2>1
    <3>2. QED  BY <2>1, <3>1, FS_Singleton
  <2>3. x \in Int /\ x - x >= 0 * gap /\ \A c \in Q : c <= x  BY <2>2
  <2>4. QED  BY <2>2, <2>3
<1>2. ASSUME NEW k \in Nat, k \in T PROVE k + 1 \in T
  <2>1. SUFFICES ASSUME NEW Q \in SUBSET Int, IsFiniteSet(Q), Cardinality(Q) = (k + 1) + 1, Apart(Q)
                 PROVE  Wide(Q, k + 1)
    OBVIOUS
  <2>2. PICK x \in Q : TRUE
    <3>1. Cardinality(Q) # 0  BY <2>1
    <3>2. QED  BY <2>1, <3>1, FS_EmptySet
  <2>3. \E m \in Q : \A c \in Q : c <= m
    BY <2>1, <2>2, GreatestInteger
  <2>4. PICK m \in Q : \A c \in Q : c <= m  BY <2>3
  <2>5. PICK P : P = Q \ {m}  OBVIOUS
  <2>6. P \in SUBSET Int /\ P \subseteq Q  BY <2>5
  <2>7. IsFiniteSet(P) /\ Cardinality(P) = k + 1
    <3>1. IsFiniteSet(P) /\ Cardinality(P) = Cardinality(Q) - 1  BY <2>1, <2>4, <2>5, FS_RemoveElement
    <3>2. QED  BY <2>1, <3>1
  <2>8. Apart(P)  BY <2>1, <2>6
  <2>9. PICK a \in P, b \in P : b - a >= k * gap /\ \A c \in P : c <= b
    BY <1>2, <2>6, <2>7, <2>8
  <2>10. b # m /\ b <= m /\ a \in Q /\ a \in Int /\ b \in Int /\ m \in Int  BY <2>4, <2>5, <2>9
  <2>11. m - b >= gap
    <3>1. m - b >= gap \/ b - m >= gap  BY <2>1, <2>4, <2>6, <2>9, <2>10
    <3>2. QED  BY <2>10, <3>1
  <2>12. (k + 1) * gap = k * gap + gap  OBVIOUS
  <2>13. k * gap \in Nat  OBVIOUS
  <2>14. m - a >= (k + 1) * gap  BY <2>9, <2>10, <2>11, <2>12, <2>13
  <2>15. QED  BY <2>4, <2>10, <2>14
<1>3. \A k \in Nat : k \in T
  <2> HIDE DEF T
  <2>1. QED  BY <1>1, <1>2, AllNumbers
<1>4. PICK n \in Nat : n = Cardinality(S)  BY FS_CardinalityType
<1>5. n # 0  BY <1>4, FS_EmptySet
<1>6. PICK k \in Nat : n = k + 1  BY <1>5
<1>7. Wide(S, k)
  <2>1. k \in T /\ Cardinality(S) = k + 1  BY <1>3, <1>4, <1>6
  <2>2. Apart(S)  OBVIOUS
  <2>3. QED  BY <2>1, <2>2
<1>8. Cardinality(S) - 1 = k  BY <1>4, <1>6
<1>9. QED  BY <1>7, <1>8

Apart(gates, w) ==
  \A i \in Spots, j \in Spots :
    i # j => gates[i].x - gates[j].x >= Gap[w] \/ gates[j].x - gates[i].x >= Gap[w]

\* Not all gates are behind the bird.
LEMMA OneToCome ==
  ASSUME NEW gates \in [Spots -> Gate], NEW w \in Widths, InPlace(gates, w)
  PROVE  Scored(gates) # Spots
<1>1. SUFFICES ASSUME \A i \in Spots : gates[i].scored PROVE FALSE  BY DEF Scored
<1>2. /\ Gap[w] \in Nat /\ Lead[w] \in Nat /\ Rear[w] \in Nat /\ Gap[w] > 0
      /\ Lead[w] + Rear[w] <= (GateCount - 1) * Gap[w]
  BY RoomIs DEF RoomFor
<1>3. PICK S : S = {gates[i].x : i \in Spots}  OBVIOUS
<1>4. \A i \in Spots : gates[i].x \in Int  BY DEF Gate
<1>5. S \in SUBSET Int  BY <1>3, <1>4
<1>6. PICK f : f = [i \in Spots |-> gates[i].x]  OBVIOUS
<1>7. f \in Bijection(Spots, S)
  <2>1. f \in [Spots -> S]  BY <1>3, <1>6
  <2>2. \A a \in Spots, b \in Spots : f[a] = f[b] => a = b
    <3>1. SUFFICES ASSUME NEW a \in Spots, NEW b \in Spots, a # b, f[a] = f[b] PROVE FALSE
      OBVIOUS
    <3>2. gates[a].x = gates[b].x  BY <1>6, <3>1
    <3>3. gates[a].x - gates[b].x >= Gap[w] \/ gates[b].x - gates[a].x >= Gap[w]
      BY <3>1 DEF InPlace
    <3>4. QED  BY <1>2, <1>4, <3>2, <3>3
  <2>3. \A x \in S : \E a \in Spots : f[a] = x  BY <1>3, <1>6
  <2>4. QED  BY <2>1, <2>2, <2>3 DEF Bijection, Injection, Surjection, IsInjective
<1>8. IsFiniteSet(S) /\ Cardinality(S) = GateCount
  <2>1. ExistsBijection(Spots, S)  BY <1>7 DEF ExistsBijection
  <2>2. IsFiniteSet(S) /\ Cardinality(S) = Cardinality(Spots)  BY <2>1, SpotsFinite, FS_Bijection
  <2>3. Cardinality(Spots) = GateCount
    <3>1. GateCount \in Int /\ 1 \in Int /\ ~(1 > GateCount) /\ GateCount - 1 + 1 = GateCount  BY RoomIs
    <3>2. QED  BY <3>1, FS_Interval DEF Spots
  <2>4. QED  BY <2>2, <2>3
<1>9. S # {}
  <2>1. 1 \in Spots  BY RoomIs DEF Spots
  <2>2. QED  BY <1>3, <2>1
<1>10. \A a \in S, b \in S : a # b => a - b >= Gap[w] \/ b - a >= Gap[w]
  BY <1>3 DEF InPlace
<1>11. PICK a \in S, b \in S : b - a >= (Cardinality(S) - 1) * Gap[w]
  BY <1>2, <1>5, <1>8, <1>9, <1>10, Spread
<1>12. \A x \in S : x < Lead[w] /\ x >= -Rear[w]
  BY <1>1, <1>3 DEF InPlace
<1>13. b - a < Lead[w] + Rear[w]  BY <1>2, <1>5, <1>12
<1>14. b - a >= (GateCount - 1) * Gap[w]  BY <1>8, <1>11
<1>15. (GateCount - 1) * Gap[w] \in Int  BY <1>2, RoomIs
<1>16. QED  BY <1>2, <1>5, <1>13, <1>14, <1>15

(* The place a gate comes back to.                                           *)
Back(gates, i, w, new) ==
  /\ new \in Gate /\ ~new.scored /\ new.x >= 0
  /\ \A j \in Spots : j # i => new.x >= gates[j].x + Gap[w]

\* A gate that is gone comes back in front of all others; no other gate changes.
LEMMA RecycleOne ==
  ASSUME NEW gates \in [Spots -> Gate], NEW i \in Spots, NEW w \in Widths, flight.width = w
  PROVE  /\ RecycleGate(gates, i) \in [Spots -> Gate]
         /\ \A j \in Spots : j # i => RecycleGate(gates, i)[j] = gates[j]
         /\ Gone(gates[i]) => Back(gates, i, w, RecycleGate(gates, i)[i])
         /\ ~Gone(gates[i]) => RecycleGate(gates, i) = gates
<1>1. CASE ~Gone(gates[i])  BY <1>1 DEF RecycleGate
<1>2. CASE Gone(gates[i])
  <2>1. PICK others : others = {gates[j].x : j \in DOMAIN gates \ {i}}  OBVIOUS
  <2>2. \A j \in Spots : gates[j].x \in Int  BY DEF Gate
  <2>3. others \in SUBSET Int /\ others # {}
    <3>1. \E j \in Spots : j # i
      <4>1. 1 \in Spots /\ 2 \in Spots  BY RoomIs DEF Spots
      <4>2. QED  BY <4>1
    <3>2. QED  BY <2>1, <2>2, <3>1
  <2>4. IsFiniteSet(others)
    <3>1. PICK f : f = [j \in Spots \ {i} |-> gates[j].x]  OBVIOUS
    <3>2. f \in Surjection(Spots \ {i}, others)  BY <2>1, <3>1 DEF Surjection
    <3>3. IsFiniteSet(Spots \ {i})  BY SpotsFinite
    <3>4. QED  BY <3>2, <3>3, FS_Surjection
  <2>5. \E x \in others : \A y \in others : y <= x  BY <2>3, <2>4, GreatestInteger
  <2>6. PICK furthest : furthest = CHOOSE x \in others : \A y \in others : y <= x  OBVIOUS
  <2>7. furthest \in others /\ \A y \in others : y <= furthest  BY <2>5, <2>6
  <2>8. furthest \in Int  BY <2>3, <2>7
  <2>9. PICK entry, behind : entry = w + GateWidth /\ behind = furthest + Spacing[w]  OBVIOUS
  <2>10. /\ entry \in Int /\ behind \in Int /\ entry >= 0 /\ behind >= furthest + Gap[w]
         /\ Gap[w] \in Nat
    <3>1. w \in Nat /\ GateWidth \in Nat /\ Spacing[w] \in Nat /\ Gap[w] \in Nat /\ Gap[w] <= Spacing[w]
      BY RoomIs DEF RoomFor
    <3>2. QED  BY <2>8, <2>9, <3>1
  <2>11. PICK far : far = IF entry > behind THEN entry ELSE behind  OBVIOUS
  <2>12. far \in Int /\ far >= 0 /\ far >= behind
    BY <2>10, <2>11
  <2>13. PICK new : new = [x |-> far, scored |-> FALSE]  OBVIOUS
  <2>14. RecycleGate(gates, i) = [gates EXCEPT ![i] = new]
    BY <1>2, <2>1, <2>6, <2>9, <2>11, <2>13 DEF RecycleGate
  <2>15. new \in Gate /\ ~new.scored /\ new.x = far  BY <2>12, <2>13 DEF Gate
  <2>16. \A j \in Spots : j # i => far >= gates[j].x + Gap[w]
    <3>1. SUFFICES ASSUME NEW j \in Spots, j # i PROVE far >= gates[j].x + Gap[w]  OBVIOUS
    <3>2. gates[j].x \in others  BY <2>1, <3>1
    <3>3. gates[j].x <= furthest /\ gates[j].x \in Int  BY <2>2, <2>7, <3>2
    <3>4. QED  BY <2>8, <2>10, <2>12, <3>3
  <2>17. Back(gates, i, w, new)  BY <2>12, <2>15, <2>16 DEF Back
  <2>18. RecycleGate(gates, i)[i] = new /\ RecycleGate(gates, i) \in [Spots -> Gate]
         /\ \A j \in Spots : j # i => RecycleGate(gates, i)[j] = gates[j]
    BY <2>14, <2>15
  <2>19. QED  BY <1>2, <2>17, <2>18
<1>3. QED  BY <1>1, <1>2

(* The gates after those up to k have been looked at.                        *)
Looked(gates, w, k, new) ==
  /\ new \in [Spots -> Gate] /\ Apart(new, w)
  /\ \A j \in Spots : j > k => new[j] = gates[j]
  /\ \A j \in Spots : j <= k =>
       /\ Gone(gates[j]) => ~new[j].scored /\ new[j].x >= 0
       /\ ~Gone(gates[j]) => new[j] = gates[j]

\* Looking at the next gate of the list keeps what was done for those before it.
LEMMA LooksAtOne ==
  ASSUME NEW gates \in [Spots -> Gate], NEW i \in Spots, NEW w \in Widths, flight.width = w,
         NEW g, Looked(gates, w, i - 1, g)
  PROVE  Looked(gates, w, i, RecycleGate(g, i))
<1>1. i \in Nat /\ i > i - 1 /\ \A j \in Spots : j \in Nat /\ (j > i => j > i - 1 /\ j # i)
      /\ (j <= i => j = i \/ (j # i /\ j <= i - 1))
  BY RoomIs DEF Spots
<1>2. g \in [Spots -> Gate] /\ Apart(g, w) /\ g[i] = gates[i]  BY <1>1 DEF Looked
<1>3. PICK r : r = RecycleGate(g, i)  OBVIOUS
<1>4. /\ r \in [Spots -> Gate] /\ \A j \in Spots : j # i => r[j] = g[j]
      /\ Gone(gates[i]) => Back(g, i, w, r[i])
      /\ ~Gone(gates[i]) => r = g
  BY <1>2, <1>3, RecycleOne
<1>5. Apart(r, w)
  <2>1. CASE ~Gone(gates[i])  BY <1>2, <1>4, <2>1
  <2>2. CASE Gone(gates[i])
    <3>1. \A j \in Spots : g[j].x \in Int /\ r[j].x \in Int  BY <1>2, <1>4 DEF Gate
    <3>2. Gap[w] \in Nat  BY RoomIs
    <3>3. \A j \in Spots : j # i => r[i].x - g[j].x >= Gap[w]
      <4>1. \A j \in Spots : j # i => r[i].x >= g[j].x + Gap[w]  BY <1>4, <2>2 DEF Back
      <4>2. QED  BY <3>1, <3>2, <4>1
    <3>4. SUFFICES ASSUME NEW a \in Spots, NEW b \in Spots, a # b
                   PROVE  r[a].x - r[b].x >= Gap[w] \/ r[b].x - r[a].x >= Gap[w]
      BY DEF Apart
    <3>5. CASE a = i  BY <1>4, <3>3, <3>4, <3>5
    <3>6. CASE b = i  BY <1>4, <3>3, <3>4, <3>6
    <3>7. CASE a # i /\ b # i  BY <1>2, <1>4, <3>4, <3>7 DEF Apart
    <3>8. QED  BY <3>5, <3>6, <3>7
  <2>3. QED  BY <2>1, <2>2
<1>6. \A j \in Spots : j > i => r[j] = gates[j]  BY <1>1, <1>4 DEF Looked
<1>7. \A j \in Spots : j <= i =>
        /\ Gone(gates[j]) => ~r[j].scored /\ r[j].x >= 0
        /\ ~Gone(gates[j]) => r[j] = gates[j]
  <2>1. SUFFICES ASSUME NEW j \in Spots, j <= i
                 PROVE  /\ Gone(gates[j]) => ~r[j].scored /\ r[j].x >= 0
                        /\ ~Gone(gates[j]) => r[j] = gates[j]
    OBVIOUS
  <2>2. CASE j = i  BY <1>2, <1>4, <2>2 DEF Back
  <2>3. CASE j # i
    <3>1. j <= i - 1 /\ r[j] = g[j]  BY <1>1, <1>4, <2>1, <2>3
    <3>2. QED  BY <3>1 DEF Looked
  <2>4. QED  BY <2>2, <2>3
<1>8. QED  BY <1>3, <1>4, <1>5, <1>6, <1>7 DEF Looked

\* The recycling of a step brings back the gates that were gone and no others.
LEMMA RecycledIs ==
  ASSUME NEW gates \in [Spots -> Gate], NEW w \in Widths, flight.width = w, Apart(gates, w)
  PROVE  Looked(gates, w, GateCount, Recycled(gates))
<1> DEFINE n == GateCount
           Chain(f) == [i \in 0..GateCount |-> IF i = 0 THEN gates ELSE RecycleGate(f[i - 1], i)]
           found == CHOOSE f : f = Chain(f)
           All == [Spots -> Gate]
<1>1. GateCount \in Nat /\ Spots = 1..GateCount  BY RoomIs DEF Spots
<1>2. \A g \in All, i \in 1..GateCount : RecycleGate(g, i) \in All
  BY <1>1, RecycleOne
<1>3. PICK step : step = [i \in 1..GateCount |-> [g \in All |-> RecycleGate(g, i)]]  OBVIOUS
<1>4. step \in [1..GateCount -> [All -> All]]  BY <1>2, <1>3
<1>5. PICK f \in [0..GateCount -> All] :
        f[0] = gates /\ \A i \in 1..GateCount : f[i] = step[i][f[i - 1]]
  <2>1. Recursive(GateCount, All, gates, step)  BY <1>1, <1>4, RecursionExists
  <2>2. QED  BY <2>1 DEF Recursive
<1>6. \A i \in 1..GateCount : f[i] = RecycleGate(f[i - 1], i)
  <2>1. \A i \in 1..GateCount : f[i - 1] \in All  BY <1>1
  <2>2. QED  BY <1>3, <1>5, <2>1
<1>7. f = Chain(f)
  <2>1. \A i \in 0..GateCount : f[i] = IF i = 0 THEN gates ELSE RecycleGate(f[i - 1], i)
    BY <1>5, <1>6
  <2>2. QED  BY <2>1
<1>8. found = Chain(found)
  <2> HIDE DEF Chain
  <2>1. QED  BY <1>7
<1>9. found[0] = gates /\ \A i \in 1..GateCount : found[i] = RecycleGate(found[i - 1], i)
  <2> HIDE DEF found
  <2>1. 0 \in 0..GateCount /\ \A i \in 1..GateCount : i \in 0..GateCount /\ i # 0
    BY <1>1
  <2>2. QED  BY <1>8, <2>1
<1>10. Recycled(gates) = found[GateCount]  BY DEF Recycled
<1>11. PICK T : T = {i \in 0..GateCount : Looked(gates, w, i, found[i])}  OBVIOUS
<1>12. 0 \in T
  <2> HIDE DEF found
  <2>1. \A j \in Spots : j > 0 /\ ~(j <= 0)  BY <1>1
  <2>2. Looked(gates, w, 0, gates)  BY <2>1 DEF Looked
  <2>3. 0 \in 0..GateCount  BY <1>1
  <2>4. QED  BY <1>9, <1>11, <2>2, <2>3
<1>13. \A i \in 1..GateCount : i - 1 \in T => i \in T
  <2> HIDE DEF found
  <2>1. SUFFICES ASSUME NEW i \in 1..GateCount, i - 1 \in T PROVE i \in T  OBVIOUS
  <2>2. Looked(gates, w, i - 1, found[i - 1])  BY <1>11, <2>1
  <2>3. Looked(gates, w, i, RecycleGate(found[i - 1], i))  BY <1>1, <2>2, LooksAtOne
  <2>4. i \in 0..GateCount  BY <1>1
  <2>5. QED  BY <1>9, <1>11, <2>3, <2>4
<1>14. \A i \in 0..GateCount : i \in T  BY <1>1, <1>12, <1>13, UpToNumber
<1>15. GateCount \in 0..GateCount  BY <1>1
<1>16. QED  BY <1>10, <1>11, <1>14, <1>15

\* What is left of a set of gates without some of them.
LEMMA Without ==
  ASSUME NEW S \in SUBSET Spots, NEW T \in SUBSET S
  PROVE  /\ Cardinality(S) \in Nat /\ Cardinality(T) \in Nat
         /\ Cardinality(S \ T) = Cardinality(S) - Cardinality(T)
<1>1. IsFiniteSet(S) /\ IsFiniteSet(T) /\ IsFiniteSet(S \ T)
      /\ Cardinality(S) \in Nat /\ Cardinality(T) \in Nat /\ Cardinality(S \ T) \in Nat
  BY SpotsFinite
<1>2. S \cap T = T  OBVIOUS
<1>3. Cardinality(S \ T) = Cardinality(S) - Cardinality(S \cap T)  BY <1>1, FS_Difference
<1>4. QED  BY <1>1, <1>2, <1>3

\* What has counted stays counted, so the score grows by what is new.
LEMMA CountedIs ==
  ASSUME FlightInv, NEW gates \in [Spots -> Gate],
         \A i \in Spots : flight.gates[i].scored => gates[i].scored
  PROVE  /\ Counted(gates) \in Nat
         /\ flight.score + Counted(gates) = recycled + Cardinality(Scored(gates))
<1>1. PICK S, T : S = Scored(gates) /\ T = Scored(flight.gates)  OBVIOUS
<1>2. S \in SUBSET Spots /\ T \in SUBSET S  BY <1>1 DEF Scored
<1>3. Counted(gates) = Cardinality(S \ T)
  <2>1. {i \in DOMAIN gates : gates[i].scored /\ ~flight.gates[i].scored} = S \ T
    BY <1>1 DEF Scored
  <2>2. QED  BY <2>1 DEF Counted
<1>4. PICK s \in Nat, t \in Nat, d \in Int : /\ s = Cardinality(S) /\ t = Cardinality(T)
                                             /\ d = Cardinality(S \ T) /\ d = s - t
  BY <1>2, Without
<1>5. d \in Nat
  <2>1. S \ T \in SUBSET Spots  BY <1>2
  <2>2. QED  BY <1>4, <2>1, SpotsFinite
<1>6. flight.score \in Nat /\ recycled \in Nat /\ flight.score = recycled + t
  BY <1>1, <1>4 DEF FlightInv
<1>7. flight.score + d = recycled + s  BY <1>4, <1>5, <1>6
<1>8. QED  BY <1>1, <1>3, <1>4, <1>5, <1>7

\* A gate that moves counts when it is behind the bird, and is gone only after it counted.
LEMMA MovedIs ==
  ASSUME FlightInv, NEW by \in Moves, NEW i \in Spots
  PROVE  /\ Moved(flight.gates[i], by) \in Gate
         /\ Moved(flight.gates[i], by).x = flight.gates[i].x - by
         /\ flight.gates[i].scored => Moved(flight.gates[i], by).scored
         /\ Gone(Moved(flight.gates[i], by)) => Moved(flight.gates[i], by).scored
         /\ InPlace(flight.gates, flight.width) /\ Moved(flight.gates[i], by).scored =>
              Moved(flight.gates[i], by).x < Lead[flight.width]
<1>1. PICK w \in Widths : w = flight.width  BY DEF FlightInv
<1>2. PICK gate \in Gate : gate = flight.gates[i]  BY DEF FlightInv
<1>3. /\ by \in Nat /\ by > 0 /\ BirdX[w] \in Nat /\ Radius \in Nat /\ GateWidth \in Nat /\ Margin \in Nat
      /\ BirdX[w] >= Radius /\ Lead[w] \in Nat /\ BirdX[w] - Radius - GateWidth <= Lead[w]
  BY RoomIs, FlappyPuffAssumption DEF RoomFor
<1>4. gate.x \in Int /\ gate.scored \in BOOLEAN  BY DEF Gate
<1>5. PICK x, m : x = gate.x - by /\ m = Moved(gate, by)  OBVIOUS
<1>6. PICK p \in BOOLEAN : p <=> Passed(x)  OBVIOUS
<1>7. m = [x |-> x, scored |-> gate.scored \/ p]  BY <1>5, <1>6 DEF Moved
<1>8. x \in Int  BY <1>3, <1>4, <1>5
<1>9. (gate.scored \/ p) \in BOOLEAN  BY <1>4
<1>10. m \in Gate /\ m.x = x /\ (m.scored <=> gate.scored \/ p)  BY <1>7, <1>8, <1>9 DEF Gate
<1>11. Gone(m) => p
  <2>1. SUFFICES ASSUME x + GateWidth < -Margin PROVE x + GateWidth < BirdX[w] - Radius
    BY <1>1, <1>6, <1>10 DEF Gone, Passed
  <2>2. QED  BY <1>3, <1>8, <2>1
<1>12. p => x < Lead[w]
  <2>1. SUFFICES ASSUME x + GateWidth < BirdX[w] - Radius PROVE x < Lead[w]
    BY <1>1, <1>6 DEF Passed
  <2>2. QED  BY <1>3, <1>8, <2>1
<1>13. InPlace(flight.gates, w) /\ gate.scored => x < Lead[w]
  <2>1. SUFFICES ASSUME gate.x < Lead[w] PROVE x < Lead[w]  BY <1>2 DEF InPlace
  <2>2. QED  BY <1>3, <1>4, <1>5, <2>1
<1>14. QED  BY <1>1, <1>2, <1>5, <1>10, <1>11, <1>12, <1>13

\* Hitting a gate ends the run with the score of the gates moved so far.
LEMMA HitKeeps ==
  ASSUME FlightInv, NEW by \in Moves, NEW k \in Spots, HitGate(by, k)
  PROVE  FlightInv'
<1>1. PICK gates : gates = [j \in DOMAIN flight.gates |->
                              IF j <= k THEN Moved(flight.gates[j], by) ELSE flight.gates[j]]
  OBVIOUS
<1>2. flight.gates \in [Spots -> Gate] /\ flight.width \in Widths  BY DEF FlightInv
<1>3. gates \in [Spots -> Gate] /\ \A i \in Spots : flight.gates[i].scored => gates[i].scored
  BY <1>1, <1>2, MovedIs
<1>4. Counted(gates) \in Nat /\ flight.score + Counted(gates) = recycled + Cardinality(Scored(gates))
  BY <1>3, CountedIs
<1>5. PICK score : score = flight.score + Counted(gates)  OBVIOUS
<1>6. score \in Nat
  <2>1. flight.score \in Nat  BY DEF FlightInv
  <2>2. QED  BY <1>4, <1>5, <2>1
<1>7. /\ flight' = [flight EXCEPT !.status = "dead", !.gates = gates, !.score = score]
      /\ recycled' = recycled
  BY <1>1, <1>5 DEF HitGate
<1>8. flight' = [status |-> "dead", score |-> score, width |-> flight.width, gates |-> gates]
  BY <1>7 DEF FlightInv
<1>9. QED  BY <1>2, <1>3, <1>4, <1>5, <1>6, <1>7, <1>8 DEF FlightInv

\* A step that hits nothing moves, counts and recycles.
LEMMA StepKeeps ==
  ASSUME FlightInv, NEW by \in Moves, NEW falls \in BOOLEAN, FlappyStep(by, falls)
  PROVE  FlightInv'
<1>1. PICK moved : moved = [i \in DOMAIN flight.gates |-> Moved(flight.gates[i], by)]  OBVIOUS
<1>2. PICK w \in Widths : w = flight.width  BY DEF FlightInv
<1>3. flight.gates \in [Spots -> Gate] /\ flight.status = "playing" /\ flight.score \in Nat
      /\ recycled \in Nat
  BY DEF FlightInv, FlappyStep
<1>4. InPlace(flight.gates, w)  BY <1>2, <1>3 DEF FlightInv
<1>5. /\ moved \in [Spots -> Gate]
      /\ \A i \in Spots : /\ moved[i].x = flight.gates[i].x - by
                          /\ flight.gates[i].scored => moved[i].scored
                          /\ Gone(moved[i]) => moved[i].scored
                          /\ moved[i].scored => moved[i].x < Lead[w]
  BY <1>1, <1>2, <1>3, <1>4, MovedIs
<1>6. \A i \in Spots : flight.gates[i].x \in Int /\ moved[i].x \in Int  BY <1>3, <1>5 DEF Gate
<1>7. by \in Nat /\ Gap[w] \in Nat /\ Rear[w] \in Nat /\ GateWidth \in Nat /\ Margin \in Nat
      /\ GateWidth + Margin <= Rear[w]
  BY RoomIs, FlappyPuffAssumption DEF RoomFor
<1>8. Apart(moved, w)
  <2>1. SUFFICES ASSUME NEW i \in Spots, NEW j \in Spots, i # j
                 PROVE  moved[i].x - moved[j].x >= Gap[w] \/ moved[j].x - moved[i].x >= Gap[w]
    BY DEF Apart
  <2>2. flight.gates[i].x - flight.gates[j].x >= Gap[w] \/ flight.gates[j].x - flight.gates[i].x >= Gap[w]
    BY <1>4, <2>1 DEF InPlace
  <2>3. QED  BY <1>5, <1>6, <1>7, <2>2
<1>9. PICK gates : gates = Recycled(moved)  OBVIOUS
<1>10. Looked(moved, w, GateCount, gates)  BY <1>2, <1>5, <1>8, <1>9, RecycledIs
<1>11. /\ gates \in [Spots -> Gate] /\ Apart(gates, w)
       /\ \A i \in Spots : /\ Gone(moved[i]) => ~gates[i].scored /\ gates[i].x >= 0
                           /\ ~Gone(moved[i]) => gates[i] = moved[i]
  <2>1. \A i \in Spots : i <= GateCount  BY RoomIs DEF Spots
  <2>2. QED  BY <1>10, <2>1 DEF Looked
<1>12. InPlace(gates, w)
  <2>1. \A i \in Spots : gates[i].scored => gates[i].x < Lead[w]  BY <1>5, <1>11
  <2>2. ASSUME NEW i \in Spots PROVE gates[i].x >= -Rear[w]
    <3>1. CASE Gone(moved[i])
      <4>1. gates[i].x \in Int /\ gates[i].x >= 0  BY <1>11, <3>1 DEF Gate
      <4>2. QED  BY <1>7, <4>1
    <3>2. CASE ~Gone(moved[i])
      <4>1. gates[i] = moved[i] /\ ~(moved[i].x + GateWidth < -Margin)  BY <1>11, <3>2 DEF Gone
      <4>2. QED  BY <1>6, <1>7, <4>1
    <3>3. QED  BY <3>1, <3>2
  <2>3. QED  BY <1>11, <2>1, <2>2 DEF InPlace, Apart
<1>13. PICK G : G = {i \in DOMAIN moved : Gone(moved[i])}  OBVIOUS
<1>14. PICK S : S = Scored(moved)  OBVIOUS
<1>15. S \in SUBSET Spots /\ G \in SUBSET S  BY <1>5, <1>13, <1>14 DEF Scored
<1>16. Scored(gates) = S \ G  BY <1>5, <1>11, <1>13, <1>14 DEF Scored
<1>17. PICK score : score = flight.score + Counted(moved)  OBVIOUS
<1>18. Counted(moved) \in Nat /\ score = recycled + Cardinality(S)
  BY <1>5, <1>14, <1>17, CountedIs
<1>19. PICK s \in Nat, g \in Nat : s = Cardinality(S) /\ g = Cardinality(G) /\ Cardinality(S \ G) = s - g
  BY <1>15, Without
<1>20. score \in Nat /\ score = (recycled + g) + Cardinality(Scored(gates))
  <2>1. score \in Nat  BY <1>3, <1>17, <1>18
  <2>2. score = recycled + s  BY <1>18, <1>19
  <2>3. Cardinality(Scored(gates)) = s - g  BY <1>16, <1>19
  <2>4. QED  BY <1>3, <2>1, <2>2, <2>3
<1>21. PICK status \in {"playing", "dead"} : status = IF falls THEN "dead" ELSE "playing"  OBVIOUS
<1>22. /\ flight' = [flight EXCEPT !.gates = gates, !.score = score, !.status = status]
       /\ recycled' = recycled + g
  BY <1>1, <1>3, <1>9, <1>13, <1>17, <1>19, <1>21 DEF FlappyStep
<1>23. flight' = [status |-> status, score |-> score, width |-> w, gates |-> gates]
  BY <1>2, <1>22 DEF FlightInv
<1>24. recycled' \in Nat  BY <1>3, <1>22
<1>25. flight' \in [status : {"ready", "playing", "dead"}, score : Nat, width : Widths,
                    gates : [Spots -> Gate]]
  BY <1>11, <1>20, <1>23
<1>26. flight'.score = recycled' + Cardinality(Scored(flight'.gates))  BY <1>20, <1>22, <1>23
<1>27. InPlace(flight'.gates, flight'.width)  BY <1>12, <1>23
<1>28. QED  BY <1>24, <1>25, <1>26, <1>27 DEF FlightInv

\* A resize stretches the gates with the canvas: rounding down keeps them in place.
LEMMA ResizeKeeps ==
  ASSUME FlightInv, NEW w \in Widths, Resize(w)
  PROVE  FlightInv'
<1>1. PICK v \in Widths : v = flight.width  BY DEF FlightInv
<1>2. /\ v \in Nat \ {0} /\ w \in Nat \ {0}
      /\ Gap[v] \in Nat /\ Lead[v] \in Nat /\ Rear[v] \in Nat
      /\ Gap[w] \in Nat /\ Lead[w] \in Nat /\ Rear[w] \in Nat
      /\ Gap[v] * w = Gap[w] * v /\ Lead[v] * w = Lead[w] * v /\ Rear[v] * w = Rear[w] * v
  BY RoomIs
<1>3. PICK old \in [Spots -> Gate] : old = flight.gates  BY DEF FlightInv
<1>4. PICK gates : gates = [i \in Spots |-> Stretched(old[i], w)]  OBVIOUS
<1>5. \A i \in Spots : old[i].x \in Int /\ old[i].scored \in BOOLEAN /\ old[i].x * w \in Int
  BY <1>2 DEF Gate
<1>6. \A i \in Spots : gates[i].x = (old[i].x * w) \div v /\ gates[i].scored = old[i].scored
  BY <1>1, <1>4 DEF Stretched
<1>7. \A i \in Spots : (old[i].x * w) \div v \in Int  BY <1>2, <1>5, Quotient
<1>8. gates \in [Spots -> Gate]
  <2>1. \A i \in Spots : Stretched(old[i], w) \in Gate  BY <1>1, <1>5, <1>7 DEF Stretched, Gate
  <2>2. QED  BY <1>4, <2>1
<1>9. InPlace(old, v) => InPlace(gates, w)
  <2>1. SUFFICES ASSUME InPlace(old, v) PROVE InPlace(gates, w)  OBVIOUS
  <2>2. ASSUME NEW i \in Spots, NEW j \in Spots, old[i].x - old[j].x >= Gap[v]
        PROVE  gates[i].x - gates[j].x >= Gap[w]
    <3>1. PICK a \in Int, b \in Int : a = old[i].x /\ b = old[j].x  BY <1>5
    <3>2. PICK d \in Nat : a = b + Gap[v] + d
      <4>1. PICK d : d = a - b - Gap[v]  OBVIOUS
      <4>2. d \in Nat /\ a = b + Gap[v] + d  BY <1>2, <2>2, <3>1, <4>1
      <4>3. QED  BY <4>2
    <3>3. a * w = b * w + Gap[v] * w + d * w  BY <1>2, <3>2
    <3>4. PICK q \in Int : q = (b * w) \div v /\ q * v <= b * w
      <4>1. b * w \in Int  BY <1>2
      <4>2. QED  BY <1>2, <4>1, Quotient
    <3>5. PICK g \in Nat : g = Gap[w]  BY <1>2
    <3>6. (q + g) * v = q * v + g * v  BY <1>2
    <3>7. d * w \in Nat /\ a * w \in Int /\ b * w \in Int /\ q * v \in Int /\ g * v \in Int  BY <1>2
    <3>8. a * w >= (q + g) * v
      <4>1. a * w = b * w + g * v + d * w  BY <1>2, <3>3, <3>5
      <4>2. QED  BY <3>4, <3>6, <3>7, <4>1
    <3>9. (a * w) \div v >= q + g /\ (a * w) \div v \in Int
      <4>1. q + g \in Int /\ a * w \in Int  BY <3>7
      <4>2. QED  BY <1>2, <3>8, <4>1, QuotientOrder, Quotient
    <3>10. QED  BY <1>6, <3>1, <3>4, <3>5, <3>9
  <2>3. ASSUME NEW i \in Spots, old[i].x < Lead[v] PROVE gates[i].x < Lead[w]
    <3>1. PICK a \in Int, l \in Nat, m \in Nat : a = old[i].x /\ l = Lead[v] /\ m = Lead[w]
      BY <1>2, <1>5
    <3>2. PICK d \in Nat : l = a + 1 + d
      <4>1. PICK d : d = l - a - 1  OBVIOUS
      <4>2. d \in Nat /\ l = a + 1 + d  BY <2>3, <3>1, <4>1
      <4>3. QED  BY <4>2
    <3>3. l * w = a * w + w + d * w  BY <1>2, <3>2
    <3>4. d * w \in Nat /\ a * w \in Int /\ m * v \in Nat /\ l * w = m * v  BY <1>2, <3>1
    <3>5. a * w < m * v  BY <1>2, <3>3, <3>4
    <3>6. (a * w) \div v < m
      <4>1. PICK p \in Int, c \in Int : p = a * w /\ c = m  BY <3>4
      <4>2. p < c * v  BY <3>5, <4>1
      <4>3. p \div v < c  BY <1>2, <4>2, QuotientOrder
      <4>4. QED  BY <4>1, <4>3
    <3>7. QED  BY <1>6, <3>1, <3>6
  <2>4. ASSUME NEW i \in Spots, old[i].x >= -Rear[v] PROVE gates[i].x >= -Rear[w]
    <3>1. PICK a \in Int, l \in Nat, m \in Nat : a = old[i].x /\ l = Rear[v] /\ m = Rear[w]
      BY <1>2, <1>5
    <3>2. PICK d \in Nat : a = d - l
      <4>1. PICK d : d = a + l  OBVIOUS
      <4>2. d \in Nat /\ a = d - l  BY <2>4, <3>1, <4>1
      <4>3. QED  BY <4>2
    <3>3. a * w = d * w - l * w  BY <1>2, <3>2
    <3>4. (-m) * v = -(m * v)  BY <1>2
    <3>5. d * w \in Nat /\ a * w \in Int /\ m * v \in Nat /\ l * w = m * v  BY <1>2, <3>1
    <3>6. a * w >= (-m) * v  BY <3>3, <3>4, <3>5
    <3>7. (a * w) \div v >= -m
      <4>1. PICK p \in Int, c \in Int : p = a * w /\ c = -m  BY <3>5
      <4>2. p >= c * v  BY <3>6, <4>1
      <4>3. p \div v >= c  BY <1>2, <4>2, QuotientOrder
      <4>4. QED  BY <4>1, <4>3
    <3>8. QED  BY <1>6, <3>1, <3>7
  <2>5. QED  BY <1>6, <2>1, <2>2, <2>3, <2>4 DEF InPlace
<1>10. Scored(gates) = Scored(old)  BY <1>6 DEF Scored
<1>11. flight' = [flight EXCEPT !.width = w, !.gates = gates] /\ recycled' = recycled
  BY <1>3, <1>4 DEF Resize
<1>12. flight' = [status |-> flight.status, score |-> flight.score, width |-> w, gates |-> gates]
  BY <1>11 DEF FlightInv
<1>13. flight'.status # "dead" => InPlace(flight'.gates, flight'.width)
  BY <1>1, <1>3, <1>9, <1>12 DEF FlightInv
<1>14. flight'.score = recycled' + Cardinality(Scored(flight'.gates))
  BY <1>3, <1>10, <1>11, <1>12 DEF FlightInv
<1>15. flight' \in [status : {"ready", "playing", "dead"}, score : Nat, width : Widths,
                    gates : [Spots -> Gate]] /\ recycled' \in Nat
  BY <1>8, <1>11, <1>12 DEF FlightInv
<1>16. QED  BY <1>13, <1>14, <1>15 DEF FlightInv

\* The first gates are in place.
LEMMA FlappyBegins == FlappyInit => FlightInv
<1>1. SUFFICES ASSUME FlappyInit PROVE FlightInv  OBVIOUS
<1>2. PICK w \in Widths :
        flight = [status |-> "ready", score |-> 0, width |-> w,
                  gates |-> [i \in 1..GateCount |->
                               [x |-> FirstX[w] + (i - 1) * Spacing[w], scored |-> FALSE]]]
  BY <1>1 DEF FlappyInit
<1>3. PICK gates : gates = [i \in Spots |-> [x |-> FirstX[w] + (i - 1) * Spacing[w], scored |-> FALSE]]
  OBVIOUS
<1>4. PICK first \in Nat, space \in Nat, gap \in Nat, tail \in Nat :
        /\ first = FirstX[w] /\ space = Spacing[w] /\ gap = Gap[w] /\ tail = Rear[w]
        /\ gap <= space
  BY RoomIs DEF RoomFor
<1>5. \A i \in Spots : i \in Nat /\ i - 1 \in Nat /\ (i - 1) * space \in Nat
  <2>1. SUFFICES ASSUME NEW i \in Spots PROVE i \in Nat /\ i - 1 \in Nat /\ (i - 1) * space \in Nat
    OBVIOUS
  <2>2. PICK k \in Nat : k = i - 1 /\ i \in Nat  BY RoomIs DEF Spots
  <2>3. k * space \in Nat  OBVIOUS
  <2>4. QED  BY <2>2, <2>3
<1>6. \A i \in Spots : gates[i].x = first + (i - 1) * space /\ gates[i].scored = FALSE
  BY <1>3, <1>4
<1>7. gates \in [Spots -> Gate]
  <2>1. \A i \in Spots : [x |-> FirstX[w] + (i - 1) * Spacing[w], scored |-> FALSE] \in Gate
    BY <1>4, <1>5 DEF Gate
  <2>2. QED  BY <1>3, <2>1
<1>8. ASSUME NEW i \in Spots, NEW j \in Spots, i < j
      PROVE  gates[j].x - gates[i].x >= gap
  <2>1. PICK a \in Nat, d \in Nat : a = i - 1 /\ j - 1 = a + 1 + d
    <3>1. i \in Nat /\ i - 1 \in Nat /\ j \in Nat  BY <1>5
    <3>2. PICK d : d = j - 1 - i  OBVIOUS
    <3>3. d \in Nat /\ j - 1 = (i - 1) + 1 + d  BY <1>8, <3>1, <3>2
    <3>4. QED  BY <3>1, <3>3
  <2>2. (a + 1 + d) * space = a * space + space + d * space  OBVIOUS
  <2>3. a * space \in Nat /\ d * space \in Nat  OBVIOUS
  <2>4. gates[j].x = first + (a * space + space + d * space) /\ gates[i].x = first + a * space
    BY <1>6, <2>1, <2>2
  <2>5. QED  BY <1>4, <2>3, <2>4
<1>9. InPlace(gates, w)
  <2>1. \A i \in Spots, j \in Spots :
          i # j => gates[i].x - gates[j].x >= Gap[w] \/ gates[j].x - gates[i].x >= Gap[w]
    <3>1. \A i \in Spots, j \in Spots : i # j => i < j \/ j < i  BY <1>5
    <3>2. QED  BY <1>4, <1>8, <3>1
  <2>2. \A i \in Spots : gates[i].x >= -Rear[w]
    <3>1. SUFFICES ASSUME NEW i \in Spots PROVE gates[i].x >= -tail  BY <1>4
    <3>2. PICK y \in Nat : y = (i - 1) * space  BY <1>5
    <3>3. QED  BY <1>4, <1>6, <3>2
  <2>3. QED  BY <1>6, <2>1, <2>2 DEF InPlace
<1>10. Scored(gates) = {} /\ Cardinality({}) = 0  BY <1>6, FS_EmptySet DEF Scored
<1>11. flight = [status |-> "ready", score |-> 0, width |-> w, gates |-> gates] /\ recycled = 0
  BY <1>1, <1>2, <1>3 DEF Spots, FlappyInit
<1>12. flight.score = recycled + Cardinality(Scored(flight.gates))  BY <1>10, <1>11
<1>13. QED  BY <1>7, <1>9, <1>11, <1>12 DEF FlightInv

\* The invariant gives the property: in a run not all gates are behind the bird.
LEMMA FlightsAreSound == FlightInv => FlappyCountsEveryGate
<1>1. SUFFICES ASSUME FlightInv PROVE FlappyCountsEveryGate  OBVIOUS
<1>2. PICK gates \in [Spots -> Gate], w \in Widths : gates = flight.gates /\ w = flight.width
  BY <1>1 DEF FlightInv
<1>3. DOMAIN gates = Spots /\ \A i \in Spots : gates[i].x \in Int  BY DEF Gate
<1>4. {i \in DOMAIN gates : gates[i].scored} = Scored(gates)  BY <1>3 DEF Scored
<1>5. flight.score = recycled + Cardinality(Scored(gates))  BY <1>1, <1>2 DEF FlightInv
<1>6. Gap[w] \in Nat /\ GateWidth \in Nat /\ GateWidth < Gap[w]  BY RoomIs DEF RoomFor
<1>7. ASSUME flight.status # "dead"
      PROVE  /\ \A i, j \in Spots : i # j => gates[i].x - gates[j].x \notin -GateWidth..GateWidth
             /\ Scored(gates) # Spots
  <2>1. InPlace(gates, w)  BY <1>1, <1>2, <1>7 DEF FlightInv
  <2>2. ASSUME NEW i \in Spots, NEW j \in Spots, i # j
        PROVE  gates[i].x - gates[j].x \notin -GateWidth..GateWidth
    <3>1. gates[i].x - gates[j].x >= Gap[w] \/ gates[j].x - gates[i].x >= Gap[w]
      BY <2>1, <2>2 DEF InPlace
    <3>2. PICK a \in Int, b \in Int : a = gates[i].x /\ b = gates[j].x  BY <1>3
    <3>3. a - b \notin -GateWidth..GateWidth  BY <1>6, <3>1, <3>2
    <3>4. QED  BY <3>2, <3>3
  <2>3. Scored(gates) # Spots  BY <2>1, OneToCome
  <2>4. QED  BY <2>2, <2>3
<1>8. QED  BY <1>2, <1>3, <1>4, <1>5, <1>7 DEF FlappyCountsEveryGate

\* The score of Flappy Puff is the number of gates passed, whatever moves and
\* resizes came in whatever order, and the run always has a gate to come, for all
\* canvases and speeds (stepPuffGame, resizePuffGame, src/src/lib/puff/game.ts).
THEOREM EveryGateCounts == FlappySpec => []FlappyCountsEveryGate
<1>1. FlappyInit => FlightInv  BY FlappyBegins
<1>2. FlightInv /\ [FlappyNext]_flappyVars => FlightInv'
  <2>1. SUFFICES ASSUME FlightInv, [FlappyNext]_flappyVars PROVE FlightInv'  OBVIOUS
  <2>2. CASE Flap
    <3>1. /\ flight' = [flight EXCEPT !.status = "playing"]
          /\ recycled' = recycled /\ flight.status # "dead"
      BY <2>2 DEF Flap
    <3>2. flight' = [status |-> "playing", score |-> flight.score, width |-> flight.width,
                     gates |-> flight.gates]
      BY <2>1, <3>1 DEF FlightInv
    <3>3. QED  BY <2>1, <3>1, <3>2 DEF FlightInv
  <2>3. CASE \E by \in Moves : \E i \in 1..GateCount : HitGate(by, i)
    BY <2>1, <2>3, HitKeeps DEF Spots
  <2>4. CASE \E by \in Moves : \E falls \in BOOLEAN : FlappyStep(by, falls)
    BY <2>1, <2>4, StepKeeps
  <2>5. CASE \E w \in Widths : Resize(w)  BY <2>1, <2>5, ResizeKeeps
  <2>6. CASE UNCHANGED flappyVars
    <3>1. flight' = flight /\ recycled' = recycled  BY <2>6 DEF flappyVars
    <3>2. QED  BY <2>1, <3>1 DEF FlightInv
  <2>7. QED  BY <2>1, <2>2, <2>3, <2>4, <2>5, <2>6 DEF FlappyNext
<1>3. FlightInv => FlappyCountsEveryGate  BY FlightsAreSound
<1>4. QED  BY <1>1, <1>2, <1>3, PTL DEF FlappySpec

-----------------------------------------------------------------------------
(***************************************************************************)
(* Suipuff.  The score is earned tier by tier: what a step takes from a    *)
(* tier and adds to the next one is worth its merge score (Conserved), so  *)
(* what lies in the tray accounts for every point.  The ids that merges    *)
(* give out are new, so no piece is lost under another.                    *)
(***************************************************************************)
LEMMA TiersAre ==
  /\ TierCount \in Nat /\ TierCount > 0 /\ TierCount - 1 \in Tiers /\ 0 \in Tiers
  /\ \A t \in Tiers : t \in Nat /\ t <= TierCount - 1 /\ t < TierCount
  /\ DropTiers \subseteq Tiers /\ DropTierCount \in Nat
  /\ \A i \in 1..TierCount : i - 1 \in Tiers /\ i \in 0..TierCount /\ i - 1 \in 0..TierCount
  /\ Jackpot \in Nat /\ RefillSteps \in Nat /\ RefillSteps > 0 /\ GraceSteps \in Nat /\ GraceSteps > 0
  /\ OverflowSteps \in Nat /\ OverflowSteps > 0
BY SuipuffAssumption DEF Tiers, DropTiers

\* The sum over the tiers is the last of the partial sums.
LEMMA OverTiersIs ==
  ASSUME NEW f \in [Tiers -> Int]
  PROVE  \E sum \in [0..TierCount -> Int] :
           /\ sum[0] = 0 /\ \A i \in 1..TierCount : sum[i] = sum[i - 1] + f[i - 1]
           /\ OverTiers(f) = sum[TierCount]
<1> DEFINE Adds(g) == [n \in 0..TierCount |-> IF n = 0 THEN 0 ELSE g[n - 1] + f[n - 1]]
           found == CHOOSE g : g = Adds(g)
<1>1. TierCount \in Nat /\ \A i \in 1..TierCount : f[i - 1] \in Int  BY TiersAre
<1>2. PICK step : step = [i \in 1..TierCount |-> [s \in Int |-> s + f[i - 1]]]  OBVIOUS
<1>3. step \in [1..TierCount -> [Int -> Int]]  BY <1>1, <1>2
<1>4. PICK g \in [0..TierCount -> Int] : g[0] = 0 /\ \A i \in 1..TierCount : g[i] = step[i][g[i - 1]]
  <2>1. PICK m \in Nat, b \in Int : m = TierCount /\ b = 0  BY <1>1
  <2>2. step \in [1..m -> [Int -> Int]]  BY <1>3, <2>1
  <2>3. Recursive(m, Int, b, step)  BY <2>2, RecursionExists
  <2>4. QED  BY <2>1, <2>3 DEF Recursive
<1>5. \A i \in 1..TierCount : g[i] = g[i - 1] + f[i - 1]
  <2>1. \A i \in 1..TierCount : g[i - 1] \in Int  BY <1>1
  <2>2. QED  BY <1>2, <1>4, <2>1
<1>6. g = Adds(g)
  <2>1. \A i \in 0..TierCount : g[i] = IF i = 0 THEN 0 ELSE g[i - 1] + f[i - 1]
    BY <1>4, <1>5
  <2>2. QED  BY <2>1
<1>7. found = Adds(found)
  <2> HIDE DEF Adds
  <2>1. QED  BY <1>6
<1>8. found[0] = 0 /\ \A i \in 1..TierCount : found[i] = found[i - 1] + f[i - 1]
  <2> HIDE DEF found
  <2>1. 0 \in 0..TierCount /\ \A i \in 1..TierCount : i \in 0..TierCount /\ i # 0  BY <1>1
  <2>2. QED  BY <1>7, <2>1
<1>9. found \in [0..TierCount -> Int]
  <2> HIDE DEF found
  <2>1. PICK T : T = {i \in 0..TierCount : found[i] \in Int}  OBVIOUS
  <2>2. ASSUME NEW i \in 1..TierCount, i - 1 \in T PROVE i \in T
    <3>1. i \in 0..TierCount /\ i - 1 \in 0..TierCount /\ f[i - 1] \in Int  BY <1>1
    <3>2. found[i - 1] \in Int  BY <2>1, <2>2
    <3>3. found[i] = found[i - 1] + f[i - 1]  BY <1>8
    <3>4. QED  BY <2>1, <3>1, <3>2, <3>3
  <2>3. 0 \in T  BY <1>1, <1>8, <2>1
  <2>4. \A i \in 0..TierCount : i \in T  BY <1>1, <2>2, <2>3, UpToNumber
  <2>5. found = [i \in 0..TierCount |-> found[i]]  BY <1>7
  <2>6. QED  BY <2>1, <2>4, <2>5
<1>10. OverTiers(f) = found[TierCount]  BY DEF OverTiers
<1>11. QED  BY <1>8, <1>9, <1>10

\* A merge scores a number.
LEMMA MergeScoreIs == \A t \in Nat : MergeScore(t) \in Nat
<1>1. SUFFICES ASSUME NEW t \in Nat PROVE MergeScore(t) \in Nat  OBVIOUS
<1>2. PICK p \in Nat : p = t * (t + 1)  OBVIOUS
<1>3. p \div 2 \in Int /\ p < (p \div 2) * 2 + 2  BY Quotient
<1>4. QED  BY <1>2, <1>3 DEF MergeScore

\* The worth of a tier obeys its equation.
LEMMA WorthIs ==
  /\ Worth \in [Tiers -> Nat] /\ Worth[0] = 0
  /\ \A t \in 1..(TierCount - 1) : Worth[t] = 2 * Worth[t - 1] + MergeScore(t)
<1> DEFINE Made(w) == [t \in Tiers |-> IF t = 0 THEN 0 ELSE 2 * w[t - 1] + MergeScore(t)]
<1>1. PICK n \in Nat : n = TierCount - 1 /\ Tiers = 0..n  BY TiersAre DEF Tiers
<1>2. PICK step : step = [i \in 1..n |-> [s \in Nat |-> 2 * s + MergeScore(i)]]  OBVIOUS
<1>3. \A i \in 1..n : MergeScore(i) \in Nat  BY MergeScoreIs
<1>4. step \in [1..n -> [Nat -> Nat]]  BY <1>2, <1>3
<1>5. PICK g \in [0..n -> Nat] : g[0] = 0 /\ \A i \in 1..n : g[i] = step[i][g[i - 1]]
  <2>1. Recursive(n, Nat, 0, step)  BY <1>4, RecursionExists
  <2>2. QED  BY <2>1 DEF Recursive
<1>6. \A i \in 1..n : g[i] = 2 * g[i - 1] + MergeScore(i)
  <2>1. \A i \in 1..n : g[i - 1] \in Nat  OBVIOUS
  <2>2. QED  BY <1>2, <1>5, <2>1
<1>7. g = Made(g)
  <2>1. \A i \in 0..n : g[i] = IF i = 0 THEN 0 ELSE 2 * g[i - 1] + MergeScore(i)  BY <1>5, <1>6
  <2>2. QED  BY <1>1, <2>1
<1>8. Worth = Made(Worth)
  <2>1. Worth = CHOOSE w : w = Made(w)  BY DEF Worth
  <2> HIDE DEF Made
  <2>2. QED  BY <1>7, <2>1
<1>9. Worth[0] = 0 /\ \A t \in 1..n : Worth[t] = 2 * Worth[t - 1] + MergeScore(t)
  <2>1. 0 \in Tiers /\ \A t \in 1..n : t \in Tiers /\ t # 0  BY <1>1
  <2>2. QED  BY <1>8, <2>1
<1>10. PICK T : T = {i \in 0..n : Worth[i] \in Nat}  OBVIOUS
<1>11. \A i \in 1..n : i - 1 \in T => i \in T  BY <1>3, <1>9, <1>10
<1>12. 0 \in T  BY <1>9, <1>10
<1>13. \A i \in 0..n : i \in T  BY <1>11, <1>12, UpToNumber
<1>14. Worth = [t \in Tiers |-> Worth[t]]  BY <1>8
<1>15. QED  BY <1>1, <1>9, <1>10, <1>13, <1>14

(* What is added up along the tiers may be compared tier by tier: a carry that *)
(* starts at 0 and accounts for every difference ends at the whole difference. *)
CarriesOver(f, g, h, carry) ==
  /\ carry[0] = 0
  /\ \A i \in 1..TierCount : f[i - 1] - g[i - 1] - h[i - 1] = carry[i] - carry[i - 1]
LEMMA Telescope ==
  ASSUME NEW f \in [Tiers -> Int], NEW g \in [Tiers -> Int], NEW h \in [Tiers -> Int],
         NEW carry \in [0..TierCount -> Int], CarriesOver(f, g, h, carry)
  PROVE  /\ OverTiers(f) \in Int /\ OverTiers(g) \in Int /\ OverTiers(h) \in Int
         /\ OverTiers(f) - OverTiers(g) - OverTiers(h) = carry[TierCount]
<1>1. TierCount \in Nat /\ TierCount \in 0..TierCount /\ 0 \in 0..TierCount
      /\ \A i \in 1..TierCount : i - 1 \in Tiers /\ i \in 0..TierCount /\ i - 1 \in 0..TierCount
  BY TiersAre
<1>2. PICK a \in [0..TierCount -> Int] :
        /\ a[0] = 0 /\ \A i \in 1..TierCount : a[i] = a[i - 1] + f[i - 1]
        /\ OverTiers(f) = a[TierCount]
  BY OverTiersIs
<1>3. PICK b \in [0..TierCount -> Int] :
        /\ b[0] = 0 /\ \A i \in 1..TierCount : b[i] = b[i - 1] + g[i - 1]
        /\ OverTiers(g) = b[TierCount]
  BY OverTiersIs
<1>4. PICK c \in [0..TierCount -> Int] :
        /\ c[0] = 0 /\ \A i \in 1..TierCount : c[i] = c[i - 1] + h[i - 1]
        /\ OverTiers(h) = c[TierCount]
  BY OverTiersIs
<1>5. PICK T : T = {i \in 0..TierCount : a[i] - b[i] - c[i] = carry[i]}  OBVIOUS
<1>6. 0 \in T  BY <1>1, <1>2, <1>3, <1>4, <1>5 DEF CarriesOver
<1>7. ASSUME NEW i \in 1..TierCount, i - 1 \in T PROVE i \in T
  <2>1. a[i - 1] - b[i - 1] - c[i - 1] = carry[i - 1]  BY <1>5, <1>7
  <2>2. f[i - 1] \in Int /\ g[i - 1] \in Int /\ h[i - 1] \in Int /\ carry[i] \in Int
        /\ carry[i - 1] \in Int /\ a[i - 1] \in Int /\ b[i - 1] \in Int /\ c[i - 1] \in Int
    BY <1>1
  <2>3. f[i - 1] - g[i - 1] - h[i - 1] = carry[i] - carry[i - 1]  BY DEF CarriesOver
  <2>4. a[i] = a[i - 1] + f[i - 1] /\ b[i] = b[i - 1] + g[i - 1] /\ c[i] = c[i - 1] + h[i - 1]
    BY <1>2, <1>3, <1>4
  <2>5. PICK x \in Int, y \in Int, z \in Int, u \in Int :
          x = a[i - 1] /\ y = b[i - 1] /\ z = c[i - 1] /\ u = carry[i - 1]
    BY <2>2
  <2>6. PICK p \in Int, q \in Int, r \in Int, v \in Int :
          p = f[i - 1] /\ q = g[i - 1] /\ r = h[i - 1] /\ v = carry[i]
    BY <2>2
  <2>7. x - y - z = u /\ p - q - r = v - u  BY <2>1, <2>3, <2>5, <2>6
  <2>8. a[i] = x + p /\ b[i] = y + q /\ c[i] = z + r  BY <2>4, <2>5, <2>6
  <2>9. (x + p) - (y + q) - (z + r) = v  BY <2>7
  <2>10. a[i] - b[i] - c[i] = carry[i]  BY <2>6, <2>8, <2>9
  <2>11. QED  BY <1>1, <1>5, <2>10
<1>8. \A i \in 0..TierCount : i \in T  BY <1>1, <1>6, <1>7, UpToNumber
<1>9. QED  BY <1>1, <1>2, <1>3, <1>4, <1>5, <1>8

NoWorth == [t \in Tiers |-> 0]
\* A sum of zeros is zero.
LEMMA NothingAdds == NoWorth \in [Tiers -> Int] /\ OverTiers(NoWorth) = 0
<1>1. PICK n : n = NoWorth /\ n \in [Tiers -> Int]
  <2>1. [t \in Tiers |-> 0] \in [Tiers -> Int]  OBVIOUS
  <2>2. QED  BY <2>1 DEF NoWorth
<1>2. PICK c : c = [i \in 0..TierCount |-> 0] /\ c \in [0..TierCount -> Int]
  <2>1. [i \in 0..TierCount |-> 0] \in [0..TierCount -> Int]  OBVIOUS
  <2>2. QED  BY <2>1
<1>3. \A i \in 1..TierCount : i - 1 \in Tiers /\ i \in 0..TierCount /\ i - 1 \in 0..TierCount
  BY TiersAre
<1>4. c[0] = 0 /\ c[TierCount] = 0  BY <1>2, TiersAre
<1>5. \A i \in 1..TierCount : n[i - 1] - n[i - 1] - n[i - 1] = c[i] - c[i - 1]
  <2>1. SUFFICES ASSUME NEW i \in 1..TierCount PROVE n[i - 1] - n[i - 1] - n[i - 1] = c[i] - c[i - 1]
    OBVIOUS
  <2>2. n[i - 1] = 0 /\ c[i] = 0 /\ c[i - 1] = 0  BY <1>1, <1>2, <1>3 DEF NoWorth
  <2>3. QED  BY <2>2
<1>6. OverTiers(n) \in Int /\ OverTiers(n) - OverTiers(n) - OverTiers(n) = 0
  <2>1. CarriesOver(n, n, n, c)  BY <1>4, <1>5 DEF CarriesOver
  <2>2. OverTiers(n) \in Int /\ OverTiers(n) - OverTiers(n) - OverTiers(n) = c[TierCount]
    BY <1>1, <1>2, <2>1, Telescope
  <2>3. QED  BY <1>4, <2>2
<1>7. QED  BY <1>1, <1>6

\* What the pieces of each tier are worth is a number.
LEMMA InAll == \A n \in [Tiers -> Nat] : [t \in Tiers |-> n[t] * Worth[t]] \in [Tiers -> Int]
<1>1. SUFFICES ASSUME NEW n \in [Tiers -> Nat]
               PROVE \A t \in Tiers : n[t] * Worth[t] \in Int
  OBVIOUS
<1>2. SUFFICES ASSUME NEW t \in Tiers PROVE n[t] * Worth[t] \in Int  OBVIOUS
<1>3. n[t] \in Nat /\ Worth[t] \in Nat  BY WorthIs
<1>4. QED  BY <1>3

(* One piece more of a tier is worth what a piece of the tier is. *)
LEMMA OneMore ==
  ASSUME NEW n \in [Tiers -> Nat], NEW m \in [Tiers -> Nat], NEW held \in Tiers,
         \A t \in Tiers : m[t] = IF t = held THEN n[t] + 1 ELSE n[t]
  PROVE  /\ OverTiers([t \in Tiers |-> n[t] * Worth[t]]) \in Int
         /\ OverTiers([t \in Tiers |-> m[t] * Worth[t]])
              = OverTiers([t \in Tiers |-> n[t] * Worth[t]]) + Worth[held]
<1>1. PICK g : g = [t \in Tiers |-> n[t] * Worth[t]] /\ g \in [Tiers -> Int]  BY InAll
<1>2. PICK f : f = [t \in Tiers |-> m[t] * Worth[t]] /\ f \in [Tiers -> Int]  BY InAll
<1>3. PICK h \in [Tiers -> Int] : h = NoWorth  BY NothingAdds
<1>4. PICK w \in Nat : w = Worth[held]  BY WorthIs
<1>5. PICK c : /\ c = [i \in 0..TierCount |-> IF held < i THEN w ELSE 0]
               /\ c \in [0..TierCount -> Int]
  <2>1. [i \in 0..TierCount |-> IF held < i THEN w ELSE 0] \in [0..TierCount -> Int]  OBVIOUS
  <2>2. QED  BY <2>1
<1>6. held \in Nat /\ held < TierCount /\ TierCount \in Nat  BY TiersAre
<1>7. c[0] = 0 /\ c[TierCount] = w  BY <1>5, <1>6
<1>8. ASSUME NEW i \in 1..TierCount PROVE f[i - 1] - g[i - 1] - h[i - 1] = c[i] - c[i - 1]
  <2>1. i - 1 \in Tiers /\ i \in 0..TierCount /\ i - 1 \in 0..TierCount  BY TiersAre
  <2>2. h[i - 1] = 0  BY <1>3, <2>1 DEF NoWorth
  <2>3. f[i - 1] = m[i - 1] * Worth[i - 1] /\ g[i - 1] = n[i - 1] * Worth[i - 1]  BY <1>1, <1>2, <2>1
  <2>4. Worth[i - 1] \in Nat  BY <2>1, WorthIs
  <2>5. CASE i - 1 = held
    <3>1. c[i] = w /\ c[i - 1] = 0  BY <1>5, <1>6, <2>1, <2>5
    <3>2. m[i - 1] = n[i - 1] + 1 /\ n[i - 1] \in Nat /\ Worth[i - 1] = w  BY <1>4, <2>1, <2>5
    <3>3. PICK x \in Nat : x = n[i - 1]  BY <3>2
    <3>4. PICK y \in Nat : y = x * w  OBVIOUS
    <3>5. (x + 1) * w = y + w  BY <3>4
    <3>6. f[i - 1] = y + w /\ g[i - 1] = y  BY <2>3, <3>2, <3>3, <3>4, <3>5
    <3>7. QED  BY <2>2, <3>1, <3>6
  <2>6. CASE i - 1 # held
    <3>1. c[i] = c[i - 1] /\ c[i] \in Int  BY <1>5, <1>6, <2>1, <2>6
    <3>2. m[i - 1] = n[i - 1]  BY <2>1, <2>6
    <3>3. n[i - 1] * Worth[i - 1] \in Int  BY <2>1, <2>4
    <3>4. QED  BY <2>2, <2>3, <3>1, <3>2, <3>3
  <2>7. QED  BY <2>5, <2>6
<1>9. OverTiers(f) \in Int /\ OverTiers(g) \in Int /\ OverTiers(f) - OverTiers(g) - 0 = w
  <2>1. /\ OverTiers(f) \in Int /\ OverTiers(g) \in Int /\ OverTiers(h) \in Int
        /\ OverTiers(f) - OverTiers(g) - OverTiers(h) = c[TierCount]
    <3>1. CarriesOver(f, g, h, c)  BY <1>7, <1>8 DEF CarriesOver
    <3>2. f \in [Tiers -> Int] /\ g \in [Tiers -> Int] /\ h \in [Tiers -> Int]
          /\ c \in [0..TierCount -> Int]
      BY <1>1, <1>2, <1>3, <1>5
    <3>3. QED  BY <3>1, <3>2, Telescope
  <2>2. OverTiers(h) = 0  BY <1>3, NothingAdds
  <2>3. QED  BY <1>7, <2>1, <2>2
<1>10. OverTiers(f) = OverTiers(g) + w  BY <1>9
<1>11. QED  BY <1>1, <1>2, <1>4, <1>9, <1>10

ScoreOfTier(made, tier) == IF tier = TierCount - 1 THEN 0 ELSE made[tier] * MergeScore(tier + 1)
\* What merges make: made[t] pairs of tier t are taken away, and a piece of the
\* next tier stands for each.
Makes(n, m, made) ==
  \A t \in Tiers : m[t] = n[t] - 2 * made[t] + (IF t = 0 THEN 0 ELSE made[t - 1])
LEMMA Conserved ==
  ASSUME NEW n \in [Tiers -> Nat], NEW m \in [Tiers -> Nat], NEW made \in [Tiers -> Nat],
         Makes(n, m, made)
  PROVE  /\ OverTiers([t \in Tiers |-> n[t] * Worth[t]]) \in Int
         /\ OverTiers([t \in Tiers |-> ScoreOfTier(made, t)]) \in Int
         /\ OverTiers([t \in Tiers |-> m[t] * Worth[t]])
               = OverTiers([t \in Tiers |-> n[t] * Worth[t]])
                 + OverTiers([t \in Tiers |-> ScoreOfTier(made, t)])
                 - 2 * (made[TierCount - 1] * Worth[TierCount - 1])
<1>0. TierCount \in Nat /\ TierCount > 0 /\ TierCount - 1 \in Tiers
      /\ \A t \in Tiers : t \in Nat /\ t <= TierCount - 1
  BY TiersAre
<1>1. PICK g : g = [t \in Tiers |-> n[t] * Worth[t]] /\ g \in [Tiers -> Int]  BY InAll
<1>2. PICK f : f = [t \in Tiers |-> m[t] * Worth[t]] /\ f \in [Tiers -> Int]  BY InAll
<1>3. PICK h \in [Tiers -> Int] : h = [t \in Tiers |-> ScoreOfTier(made, t)]
  <2>1. \A t \in Tiers : ScoreOfTier(made, t) \in Int
    <3>1. SUFFICES ASSUME NEW t \in Tiers PROVE ScoreOfTier(made, t) \in Int  OBVIOUS
    <3>2. MergeScore(t + 1) \in Nat  BY <1>0, MergeScoreIs
    <3>3. QED  BY <3>2 DEF ScoreOfTier
  <2>2. QED  BY <2>1
<1>4. PICK last \in Nat : last = made[TierCount - 1] * Worth[TierCount - 1]  BY <1>0, WorthIs
<1>5. PICK up \in [Tiers -> Nat] :
        \A t \in Tiers : t # 0 => up[t] = made[t - 1] * Worth[t]
  <2>1. PICK u : u = [t \in Tiers |-> IF t = 0 THEN 0 ELSE made[t - 1] * Worth[t]]  OBVIOUS
  <2>2. \A t \in Tiers : t # 0 => t - 1 \in Tiers  BY SuipuffAssumption DEF Tiers
  <2>3. \A t \in Tiers : u[t] \in Nat  BY <2>1, <2>2, WorthIs
  <2>4. u \in [Tiers -> Nat]  BY <2>1, <2>3
  <2>5. QED  BY <2>1, <2>4
<1>6. PICK c \in [0..TierCount -> Int] :
        /\ c[0] = 0 /\ c[TierCount] = 0 - 2 * last
        /\ \A i \in 1..(TierCount - 1) : c[i] = 0 - up[i]
  <2>1. \A i \in 1..(TierCount - 1) : i \in Tiers  BY <1>0 DEF Tiers
  <2>2. PICK c : c = [i \in 0..TierCount |-> IF i = 0 THEN 0
                                           ELSE IF i = TierCount THEN 0 - 2 * last ELSE 0 - up[i]]
    OBVIOUS
  <2>3. \A i \in 0..TierCount : c[i] \in Int
    <3>1. SUFFICES ASSUME NEW i \in 0..TierCount PROVE c[i] \in Int  OBVIOUS
    <3>2. CASE i = 0  BY <2>2, <3>2
    <3>3. CASE i = TierCount  BY <1>0, <2>2, <3>3
    <3>4. CASE i # 0 /\ i # TierCount
      <4>1. i \in 1..(TierCount - 1)  BY <1>0, <3>4
      <4>2. up[i] \in Nat  BY <2>1, <4>1
      <4>3. c[i] = 0 - up[i]  BY <2>2, <3>4
      <4>4. QED  BY <4>2, <4>3
    <3>5. QED  BY <3>2, <3>3, <3>4
  <2>4. c \in [0..TierCount -> Int]  BY <2>2, <2>3
  <2>5. c[0] = 0 /\ c[TierCount] = 0 - 2 * last /\ \A i \in 1..(TierCount - 1) : c[i] = 0 - up[i]
    BY <1>0, <2>2
  <2>6. QED  BY <2>4, <2>5
<1>7. ASSUME NEW i \in 1..TierCount PROVE f[i - 1] - g[i - 1] - h[i - 1] = c[i] - c[i - 1]
  <2>1. PICK t \in Tiers : t = i - 1 /\ i = t + 1  BY TiersAre
  <2>2. PICK w \in Nat, N \in Nat, M \in Nat, D \in Nat :
           w = Worth[t] /\ N = n[t] /\ M = m[t] /\ D = made[t]
    BY WorthIs
  <2>3. PICK P \in Nat : P = IF t = 0 THEN 0 ELSE made[t - 1]
    <3>1. t # 0 => t - 1 \in Tiers  BY SuipuffAssumption DEF Tiers
    <3>2. QED  BY <3>1
  <2>4. M = N - 2 * D + P  BY <2>2, <2>3 DEF Makes
  <2>5. f[t] = M * w /\ g[t] = N * w  BY <1>1, <1>2, <2>2
  <2>6. M * w = N * w - 2 * (D * w) + P * w
    <3>1. M * w = (N - 2 * D + P) * w  BY <2>4
    <3>2. (N - 2 * D + P) * w = N * w - 2 * (D * w) + P * w  OBVIOUS
    <3>3. QED  BY <3>1, <3>2
  <2>7. c[t] = 0 - P * w
    <3>1. CASE t = 0
      <4>1. P = 0 /\ P * w = 0  BY <2>3, <3>1
      <4>2. QED  BY <1>6, <3>1, <4>1
    <3>2. CASE t # 0
      <4>1. t \in 1..(TierCount - 1)  BY <1>0, <3>2
      <4>2. up[t] = P * w  BY <1>5, <2>2, <2>3, <3>2
      <4>3. QED  BY <1>6, <4>1, <4>2
    <3>3. QED  BY <3>1, <3>2
  <2>8. CASE t = TierCount - 1
    <3>1. h[t] = 0  BY <1>3, <2>8 DEF ScoreOfTier
    <3>2. last = D * w  BY <1>4, <2>2, <2>8
    <3>3. c[t + 1] = 0 - 2 * last  BY <1>0, <1>6, <2>8
    <3>4. PICK x \in Int, y \in Int, z \in Int : x = N * w /\ y = D * w /\ z = P * w  OBVIOUS
    <3>5. f[t] - g[t] - h[t] = c[t + 1] - c[t]
      BY <2>5, <2>6, <2>7, <3>1, <3>2, <3>3, <3>4
    <3>6. QED  BY <2>1, <3>5
  <2>9. CASE t # TierCount - 1
    <3>1. PICK s \in Nat : s = MergeScore(t + 1)
      <4>1. t + 1 \in Nat  BY <1>0
      <4>2. MergeScore(t + 1) \in Nat  BY <4>1, MergeScoreIs
      <4>3. QED  BY <4>2
    <3>2. h[t] = D * s  BY <1>3, <2>2, <2>9, <3>1 DEF ScoreOfTier
    <3>3. t + 1 \in 1..(TierCount - 1) /\ (t + 1) - 1 = t /\ t + 1 \in Tiers
      BY <1>0, <2>9 DEF Tiers
    <3>4. Worth[t + 1] = 2 * w + s  BY <2>2, <3>1, <3>3, WorthIs
    <3>5. up[t + 1] = D * (2 * w + s)
      <4>1. t + 1 # 0  BY <1>0
      <4>2. up[t + 1] = made[(t + 1) - 1] * Worth[t + 1]  BY <1>5, <3>3, <4>1
      <4>3. QED  BY <2>2, <3>3, <3>4, <4>2
    <3>6. c[t + 1] = 0 - up[t + 1]  BY <1>6, <3>3
    <3>7. D * (2 * w + s) = 2 * (D * w) + D * s  OBVIOUS
    <3>8. PICK x \in Int, y \in Int, z \in Int, v \in Int : x = N * w /\ y = D * w /\ z = P * w /\ v = D * s
      OBVIOUS
    <3>9. f[t] - g[t] - h[t] = c[t + 1] - c[t]
      BY <2>5, <2>6, <2>7, <3>2, <3>5, <3>6, <3>7, <3>8
    <3>10. QED  BY <2>1, <3>9
  <2>10. QED  BY <2>8, <2>9
<1>8. /\ OverTiers(f) \in Int /\ OverTiers(g) \in Int /\ OverTiers(h) \in Int
      /\ OverTiers(f) - OverTiers(g) - OverTiers(h) = c[TierCount]
  <2>1. CarriesOver(f, g, h, c)  BY <1>6, <1>7 DEF CarriesOver
  <2>2. QED  BY <1>1, <1>2, <1>3, <1>6, <2>1, Telescope
<1>9. OverTiers(f) = OverTiers(g) + OverTiers(h) - 2 * last  BY <1>6, <1>8
<1>10. QED  BY <1>1, <1>2, <1>3, <1>4, <1>8, <1>9

\* A set that a function sends into another without ever meeting has as many
\* images as elements.
LEMMA Numbered ==
  ASSUME NEW S, IsFiniteSet(S), NEW f, \A x \in S, y \in S : x # y => f[x] # f[y]
  PROVE  /\ IsFiniteSet({f[x] : x \in S})
         /\ Cardinality({f[x] : x \in S}) = Cardinality(S)
<1>1. PICK T : T = {f[x] : x \in S}  OBVIOUS
<1>2. PICK g : g = [x \in S |-> f[x]]  OBVIOUS
<1>3. g \in [S -> T]  BY <1>1, <1>2
<1>4. \A x \in S, y \in S : g[x] = g[y] => x = y  BY <1>2
<1>5. \A y \in T : \E x \in S : g[x] = y  BY <1>1, <1>2
<1>6. g \in Bijection(S, T)  BY <1>3, <1>4, <1>5 DEF Bijection, Injection, Surjection, IsInjective
<1>7. ExistsBijection(S, T)  BY <1>6 DEF ExistsBijection
<1>8. QED  BY <1>1, <1>7, FS_Bijection

\* The sizes of two sets with nothing in common add up.
LEMMA TwoParts ==
  ASSUME NEW S, IsFiniteSet(S), NEW T, IsFiniteSet(T), S \cap T = {}
  PROVE  /\ IsFiniteSet(S \cup T) /\ Cardinality(S) \in Nat /\ Cardinality(T) \in Nat
         /\ Cardinality(S \cup T) = Cardinality(S) + Cardinality(T)
<1>1. Cardinality(S) \in Nat /\ Cardinality(T) \in Nat  BY FS_CardinalityType
<1>2. Cardinality(S \cap T) = 0  BY FS_EmptySet
<1>3. /\ IsFiniteSet(S \cup T)
      /\ Cardinality(S \cup T) = Cardinality(S) + Cardinality(T) - Cardinality(S \cap T)
  BY FS_Union
<1>4. PICK x \in Nat, y \in Nat : x = Cardinality(S) /\ y = Cardinality(T)  BY <1>1
<1>5. Cardinality(S \cup T) = x + y - 0  BY <1>2, <1>3, <1>4
<1>6. QED  BY <1>3, <1>4, <1>5

BodySet == [tier : Tiers, age : Nat, over : Nat]
\* What lies in the tray when the next id is n.
Lying(b, n) ==
  /\ b = [i \in DOMAIN b |-> b[i]] /\ IsFiniteSet(DOMAIN b)
  /\ \A i \in DOMAIN b : i \in Nat /\ i < n /\ b[i] \in BodySet
PairsOf(b, merges) ==
  /\ \A p \in merges : /\ p[1] \in DOMAIN b /\ p[2] \in DOMAIN b /\ p[1] # p[2]
                       /\ b[p[1]].tier = b[p[2]].tier
  /\ \A p \in merges, q \in merges :
       p # q => /\ p[1] # q[1] /\ p[1] # q[2] /\ p[2] # q[1] /\ p[2] # q[2]

\* There are finitely many merges: each has a first piece of its own.
LEMMA PairsFinite ==
  ASSUME NEW b, NEW n, Lying(b, n), NEW merges, PairsOf(b, merges)
  PROVE  IsFiniteSet(merges)
<1>1. PICK g : g = [p \in merges |-> p[1]]  OBVIOUS
<1>2. g \in [merges -> DOMAIN b]  BY <1>1 DEF PairsOf
<1>3. \A p \in merges, q \in merges : g[p] = g[q] => p = q  BY <1>1 DEF PairsOf
<1>4. g \in Injection(merges, DOMAIN b)  BY <1>2, <1>3 DEF Injection, IsInjective
<1>5. QED  BY <1>4, FS_Injection DEF Lying

Firsts(merges, b, t) == {p[1] : p \in OfTier(merges, b, t)}
Seconds(merges, b, t) == {p[2] : p \in OfTier(merges, b, t)}
Consumed(merges) == {p[1] : p \in merges} \cup {p[2] : p \in merges}
Kept(merges, b, t) == {i \in DOMAIN b \ Consumed(merges) : b[i].tier = t}

\* What a tier loses: two pieces for each merge of the tier.
LEMMA TierLoses ==
  ASSUME NEW b, NEW n, Lying(b, n), NEW merges, PairsOf(b, merges), NEW t
  PROVE  /\ Cardinality(OfTier(merges, b, t)) \in Nat /\ Cardinality(Kept(merges, b, t)) \in Nat
         /\ IsFiniteSet(Kept(merges, b, t)) /\ IsFiniteSet(OfTier(merges, b, t))
         /\ Cardinality(Pieces(b, t)) \in Nat
         /\ Cardinality(Pieces(b, t))
              = Cardinality(Kept(merges, b, t)) + 2 * Cardinality(OfTier(merges, b, t))
<1>1. PICK O : O = OfTier(merges, b, t)  OBVIOUS
<1>2. \A p \in O : p \in merges /\ b[p[1]].tier = t  BY <1>1 DEF OfTier
<1>3. IsFiniteSet(O)
  <2>1. IsFiniteSet(merges) /\ O \in SUBSET merges  BY <1>2, PairsFinite
  <2>2. QED  BY <2>1, FS_Subset
<1>4. PICK F, G, K : F = {p[1] : p \in O} /\ G = {p[2] : p \in O} /\ K = Kept(merges, b, t)  OBVIOUS
<1>5. IsFiniteSet(F) /\ Cardinality(F) = Cardinality(O)
  <2>1. PICK f : f = [p \in O |-> p[1]]  OBVIOUS
  <2>2. \A x \in O, y \in O : x # y => f[x] # f[y]  BY <1>2, <2>1 DEF PairsOf
  <2>3. F = {f[x] : x \in O}  BY <1>4, <2>1
  <2>4. QED  BY <1>3, <2>2, <2>3, Numbered
<1>6. IsFiniteSet(G) /\ Cardinality(G) = Cardinality(O)
  <2>1. PICK f : f = [p \in O |-> p[2]]  OBVIOUS
  <2>2. \A x \in O, y \in O : x # y => f[x] # f[y]  BY <1>2, <2>1 DEF PairsOf
  <2>3. G = {f[x] : x \in O}  BY <1>4, <2>1
  <2>4. QED  BY <1>3, <2>2, <2>3, Numbered
<1>7. F \cap G = {}
  <2>1. \A p \in O, q \in O : p[1] # q[2]  BY <1>2 DEF PairsOf
  <2>2. QED  BY <1>4, <2>1
<1>8. (F \cup G) \cap K = {}
  <2>1. \A i \in F \cup G : i \in Consumed(merges)  BY <1>2, <1>4 DEF Consumed
  <2>2. \A i \in K : i \notin Consumed(merges)  BY <1>4 DEF Kept
  <2>3. QED  BY <2>1, <2>2
<1>9. Pieces(b, t) = (F \cup G) \cup K
  <2>1. ASSUME NEW i \in Pieces(b, t) PROVE i \in (F \cup G) \cup K
    <3>1. i \in DOMAIN b /\ b[i].tier = t  BY <2>1 DEF Pieces
    <3>2. CASE i \in Consumed(merges)
      <4>1. PICK p \in merges : i = p[1] \/ i = p[2]  BY <3>2 DEF Consumed
      <4>2. b[p[1]].tier = t  BY <3>1, <4>1 DEF PairsOf
      <4>3. p \in O  BY <1>1, <4>2 DEF OfTier
      <4>4. QED  BY <1>4, <4>1, <4>3
    <3>3. CASE i \notin Consumed(merges)  BY <1>4, <3>1, <3>3 DEF Kept
    <3>4. QED  BY <3>2, <3>3
  <2>2. ASSUME NEW i \in F \cup G PROVE i \in Pieces(b, t)
    <3>1. PICK p \in O : i = p[1] \/ i = p[2]  BY <1>4, <2>2
    <3>2. i \in DOMAIN b /\ b[i].tier = t  BY <1>2, <3>1 DEF PairsOf
    <3>3. QED  BY <3>2 DEF Pieces
  <2>3. \A i \in K : i \in Pieces(b, t)  BY <1>4 DEF Kept, Pieces
  <2>4. QED  BY <2>1, <2>2, <2>3
<1>10. IsFiniteSet(K)
  <2>1. K \in SUBSET DOMAIN b  BY <1>4 DEF Kept
  <2>2. IsFiniteSet(DOMAIN b)  BY DEF Lying
  <2>3. QED  BY <2>1, <2>2, FS_Subset
<1>11. /\ IsFiniteSet(F \cup G) /\ Cardinality(F) \in Nat
       /\ Cardinality(F \cup G) = Cardinality(F) + Cardinality(G)
  BY <1>5, <1>6, <1>7, TwoParts
<1>12. /\ Cardinality(F \cup G) \in Nat /\ Cardinality(K) \in Nat
       /\ Cardinality((F \cup G) \cup K) = Cardinality(F \cup G) + Cardinality(K)
  BY <1>8, <1>10, <1>11, TwoParts
<1>13. PICK m \in Nat, k \in Nat : m = Cardinality(O) /\ k = Cardinality(K)  BY <1>5, <1>11, <1>12
<1>14. Cardinality(Pieces(b, t)) = (m + m) + k  BY <1>5, <1>6, <1>9, <1>11, <1>12, <1>13
<1>15. QED  BY <1>1, <1>3, <1>4, <1>10, <1>13, <1>14

\* The merges below the top are some of the merges.
LEMMA RaisedIs ==
  ASSUME NEW b, NEW n, Lying(b, n), NEW merges, PairsOf(b, merges)
  PROVE  /\ IsFiniteSet(Raised(merges, b)) /\ Raised(merges, b) \subseteq merges
         /\ Cardinality(Raised(merges, b)) \in Nat
<1>1. Raised(merges, b) \in SUBSET merges  BY DEF Raised
<1>2. IsFiniteSet(merges)  BY PairsFinite
<1>3. IsFiniteSet(Raised(merges, b))  BY <1>1, <1>2, FS_Subset
<1>4. QED  BY <1>1, <1>3, FS_CardinalityType

\* The ids of the pieces that merges leave are new, and no two have the same.
LEMMA SpawnIds ==
  ASSUME tray.nextBodyId \in Nat, NEW b, NEW n, Lying(b, n), NEW merges, PairsOf(b, merges)
  PROVE  /\ \A p \in Raised(merges, b) :
              /\ SpawnId(Raised(merges, b), p) \in Nat
              /\ SpawnId(Raised(merges, b), p) >= tray.nextBodyId
              /\ SpawnId(Raised(merges, b), p) < tray.nextBodyId + Cardinality(Raised(merges, b))
         /\ \A p \in Raised(merges, b), q \in Raised(merges, b) :
              p # q => SpawnId(Raised(merges, b), p) # SpawnId(Raised(merges, b), q)
<1>1. PICK R : R = Raised(merges, b)  OBVIOUS
<1>2. IsFiniteSet(R) /\ R \subseteq merges /\ Cardinality(R) \in Nat  BY <1>1, RaisedIs
<1>3. \A p \in R : p[1] \in Nat  BY <1>2 DEF PairsOf, Lying
<1>4. PICK Before : Before = [p \in R |-> {q \in R : q[1] < p[1]}]  OBVIOUS
<1>5. \A p \in R : IsFiniteSet(Before[p]) /\ Cardinality(Before[p]) \in Nat
  <2>1. \A p \in R : Before[p] \in SUBSET R  BY <1>4
  <2>2. \A p \in R : IsFiniteSet(Before[p])  BY <1>2, <2>1, FS_Subset
  <2>3. QED  BY <2>2, FS_CardinalityType
<1>6. \A p \in R : SpawnId(R, p) = tray.nextBodyId + Cardinality(Before[p])  BY <1>4 DEF SpawnId
<1>7. ASSUME NEW p \in R PROVE Cardinality(Before[p]) < Cardinality(R)
  <2>1. p \notin Before[p] /\ Before[p] \in SUBSET R  BY <1>3, <1>4
  <2>2. Before[p] # R  BY <2>1
  <2>3. Cardinality(Before[p]) <= Cardinality(R) /\ Cardinality(Before[p]) # Cardinality(R)
    BY <1>2, <2>1, <2>2, FS_Subset
  <2>4. QED  BY <1>2, <1>5, <2>3
<1>8. ASSUME NEW p \in R, NEW q \in R, p[1] < q[1] PROVE SpawnId(R, p) # SpawnId(R, q)
  <2>1. p \in Before[q] /\ p \notin Before[p]  BY <1>3, <1>4, <1>8
  <2>2. Before[p] \in SUBSET Before[q]
    <3>1. \A r \in R : r[1] < p[1] => r[1] < q[1]  BY <1>3, <1>8
    <3>2. QED  BY <1>4, <3>1
  <2>3. Before[p] # Before[q]  BY <2>1
  <2>4. Cardinality(Before[p]) # Cardinality(Before[q])
    BY <1>5, <2>2, <2>3, FS_Subset
  <2>5. PICK x \in Nat, y \in Nat : x = Cardinality(Before[p]) /\ y = Cardinality(Before[q])  BY <1>5
  <2>6. tray.nextBodyId + x # tray.nextBodyId + y  BY <2>4, <2>5
  <2>7. QED  BY <1>6, <2>5, <2>6
<1>9. ASSUME NEW p \in R, NEW q \in R, p # q PROVE SpawnId(R, p) # SpawnId(R, q)
  <2>1. p[1] # q[1]  BY <1>2, <1>9 DEF PairsOf
  <2>2. p[1] < q[1] \/ q[1] < p[1]  BY <1>3, <2>1
  <2>3. QED  BY <1>8, <2>2
<1>10. ASSUME NEW p \in R
       PROVE  /\ SpawnId(R, p) \in Nat /\ SpawnId(R, p) >= tray.nextBodyId
              /\ SpawnId(R, p) < tray.nextBodyId + Cardinality(R)
  <2>1. PICK x \in Nat, y \in Nat : x = Cardinality(Before[p]) /\ y = Cardinality(R) /\ x < y
    BY <1>2, <1>5, <1>7
  <2>2. QED  BY <1>6, <2>1
<1>11. QED  BY <1>1, <1>9, <1>10

\* What a merge leaves: the pieces it did not touch, as they were, and one new
\* piece of the next tier for each pair below the top.
Leaves(b, merges, R, m) ==
  /\ m = [i \in DOMAIN m |-> m[i]]
  /\ DOMAIN m = (DOMAIN b \ Consumed(merges)) \cup {SpawnId(R, p) : p \in R}
  /\ \A i \in DOMAIN b \ Consumed(merges) : m[i] = b[i]
  /\ \A p \in R : m[SpawnId(R, p)] = Body(b[p[1]].tier + 1)
LEMMA MergedIs ==
  ASSUME tray.nextBodyId \in Nat, NEW b, Lying(b, tray.nextBodyId), NEW merges, PairsOf(b, merges)
  PROVE  Leaves(b, merges, Raised(merges, b), Merged(b, merges))
<1>1. PICK R, S, K :
        /\ R = Raised(merges, b) /\ S = {SpawnId(R, p) : p \in R}
        /\ K = DOMAIN b \ Consumed(merges)
  OBVIOUS
<1> DEFINE From(id) == CHOOSE p \in R : SpawnId(R, p) = id
<1>2. PICK m : m = Merged(b, merges)  OBVIOUS
<1>3. m = [id \in K \cup S |-> IF id \in S THEN Body(b[From(id)[1]].tier + 1) ELSE b[id]]
  BY <1>1, <1>2 DEF Merged, Consumed
<1>4. DOMAIN m = K \cup S /\ m = [i \in DOMAIN m |-> m[i]]
  <2> HIDE DEF From
  <2>1. QED  BY <1>3
<1>5. ASSUME NEW i \in K PROVE m[i] = b[i]
  <2>1. i < tray.nextBodyId /\ i \in Nat  BY <1>1 DEF Lying
  <2>2. \A p \in R : SpawnId(R, p) \in Nat /\ SpawnId(R, p) >= tray.nextBodyId
    BY <1>1, SpawnIds
  <2>3. i \notin S  BY <1>1, <2>1, <2>2
  <2> HIDE DEF From
  <2>4. QED  BY <1>3, <2>3
<1>6. ASSUME NEW p \in R PROVE m[SpawnId(R, p)] = Body(b[p[1]].tier + 1)
  <2>1. PICK id : id = SpawnId(R, p)  OBVIOUS
  <2>2. id \in S  BY <1>1, <2>1
  <2>3. From(id) \in R /\ SpawnId(R, From(id)) = id  BY <2>1
  <2>4. From(id) = p
    <3>1. PICK q \in R : q = From(id) /\ SpawnId(R, q) = SpawnId(R, p)  BY <2>1, <2>3
    <3>2. q = p  BY <1>1, <3>1, SpawnIds
    <3> HIDE DEF From
    <3>3. QED  BY <3>1, <3>2
  <2> HIDE DEF From
  <2>5. m[id] = Body(b[From(id)[1]].tier + 1)  BY <1>3, <2>2
  <2>6. QED  BY <2>1, <2>4, <2>5
<1>7. Leaves(b, merges, R, m)  BY <1>1, <1>4, <1>5, <1>6 DEF Leaves
<1>8. QED  BY <1>1, <1>2, <1>7

\* A new piece of a tier.
LEMMA BodyIs == \A t \in Tiers : Body(t) \in BodySet /\ Body(t).tier = t
BY DEF Body, BodySet

\* A pair below the top has a next tier.
LEMMA RaisedTier ==
  ASSUME NEW b, NEW n, Lying(b, n), NEW merges, PairsOf(b, merges), NEW p \in Raised(merges, b)
  PROVE  /\ b[p[1]].tier \in Tiers /\ b[p[1]].tier < TierCount - 1
         /\ b[p[1]].tier + 1 \in Tiers /\ b[p[1]].tier \in Nat
         /\ p \in OfTier(merges, b, b[p[1]].tier)
<1>1. p \in merges /\ b[p[1]].tier < TierCount - 1  BY DEF Raised
<1>2. b[p[1]] \in BodySet  BY <1>1 DEF PairsOf, Lying
<1>3. PICK t \in Tiers : t = b[p[1]].tier  BY <1>2 DEF BodySet
<1>4. t \in Nat /\ t + 1 \in Tiers  BY <1>1, <1>3, TiersAre DEF Tiers
<1>5. QED  BY <1>1, <1>3, <1>4 DEF OfTier

\* After the merges every piece has an id of its own below the next one.
LEMMA MergedLies ==
  ASSUME tray.nextBodyId \in Nat, NEW b, Lying(b, tray.nextBodyId), NEW merges, PairsOf(b, merges)
  PROVE  /\ Lying(Merged(b, merges), tray.nextBodyId + Cardinality(Raised(merges, b)))
         /\ tray.nextBodyId + Cardinality(Raised(merges, b)) \in Nat
<1>1. PICK R, S, K, m :
        /\ R = Raised(merges, b) /\ S = {SpawnId(R, p) : p \in R}
        /\ K = DOMAIN b \ Consumed(merges) /\ m = Merged(b, merges)
  OBVIOUS
<1>0. Leaves(b, merges, R, m)  BY <1>1, MergedIs
<1>2. DOMAIN m = K \cup S /\ m = [i \in DOMAIN m |-> m[i]]  BY <1>0, <1>1 DEF Leaves
<1>3. PICK c \in Nat : c = Cardinality(R)  BY <1>1, RaisedIs
<1>4. IsFiniteSet(K)
  <2>1. K \in SUBSET DOMAIN b /\ IsFiniteSet(DOMAIN b)  BY <1>1 DEF Lying
  <2>2. QED  BY <2>1, FS_Subset
<1>5. IsFiniteSet(S)
  <2>1. PICK f : f = [p \in R |-> SpawnId(R, p)]  OBVIOUS
  <2>2. \A x \in R, y \in R : x # y => f[x] # f[y]  BY <1>1, <2>1, SpawnIds
  <2>3. S = {f[x] : x \in R} /\ IsFiniteSet(R)  BY <1>1, <2>1, RaisedIs
  <2>4. QED  BY <2>2, <2>3, Numbered
<1>6. IsFiniteSet(K \cup S)  BY <1>4, <1>5, FS_Union
<1>7. ASSUME NEW i \in K
      PROVE  i \in Nat /\ i < tray.nextBodyId + c /\ m[i] \in BodySet
  <2>1. i \in Nat /\ i < tray.nextBodyId /\ b[i] \in BodySet  BY <1>1 DEF Lying
  <2>2. m[i] = b[i]  BY <1>0, <1>1 DEF Leaves
  <2>3. QED  BY <1>3, <2>1, <2>2
<1>8. ASSUME NEW i \in S
      PROVE  i \in Nat /\ i < tray.nextBodyId + c /\ m[i] \in BodySet
  <2>1. PICK p \in R : i = SpawnId(R, p)  BY <1>1
  <2>2. i \in Nat /\ i < tray.nextBodyId + c  BY <1>1, <1>3, <2>1, SpawnIds
  <2>3. m[i] = Body(b[p[1]].tier + 1)  BY <1>0, <1>1, <2>1 DEF Leaves
  <2>4. b[p[1]].tier + 1 \in Tiers  BY <1>1, RaisedTier
  <2>5. QED  BY <2>2, <2>3, <2>4, BodyIs
<1>9. QED  BY <1>1, <1>2, <1>3, <1>6, <1>7, <1>8 DEF Lying

\* Of a tier there are, after the merges, the pieces kept and one for each pair
\* of the tier below.
LEMMA TierGains ==
  ASSUME tray.nextBodyId \in Nat, NEW b, Lying(b, tray.nextBodyId), NEW merges, PairsOf(b, merges),
         NEW t \in Tiers
  PROVE  /\ Cardinality(Pieces(Merged(b, merges), t)) \in Nat
         /\ Cardinality(Pieces(Merged(b, merges), t))
              = Cardinality(Kept(merges, b, t))
                + (IF t = 0 THEN 0 ELSE Cardinality(OfTier(merges, b, t - 1)))
<1>1. PICK R, K, m, P :
        /\ R = Raised(merges, b) /\ K = Kept(merges, b, t) /\ m = Merged(b, merges)
        /\ P = {p \in R : b[p[1]].tier = t - 1}
  OBVIOUS
<1>2. PICK S : S = {SpawnId(R, p) : p \in P}  OBVIOUS
<1>3. t \in Nat /\ t <= TierCount - 1 /\ TierCount \in Nat  BY TiersAre
<1>4. IsFiniteSet(P) /\ P \subseteq R
  <2>1. P \in SUBSET R /\ IsFiniteSet(R)  BY <1>1, RaisedIs
  <2>2. QED  BY <2>1, FS_Subset
<1>5. IsFiniteSet(S) /\ Cardinality(S) = Cardinality(P)
  <2>1. PICK f : f = [p \in P |-> SpawnId(R, p)]  OBVIOUS
  <2>2. \A x \in P, y \in P : x # y => f[x] # f[y]
    <3>1. SUFFICES ASSUME NEW x \in P, NEW y \in P, x # y PROVE f[x] # f[y]  OBVIOUS
    <3>2. x \in R /\ y \in R  BY <1>4
    <3>3. SpawnId(R, x) # SpawnId(R, y)  BY <1>1, <3>1, <3>2, SpawnIds
    <3>4. QED  BY <2>1, <3>3
  <2>3. S = {f[x] : x \in P}  BY <1>2, <2>1
  <2>4. QED  BY <1>4, <2>2, <2>3, Numbered
<1>6. IsFiniteSet(K) /\ Cardinality(K) \in Nat  BY <1>1, TierLoses
<1>7. Pieces(m, t) = K \cup S
  <2>0. Leaves(b, merges, R, m)  BY <1>1, MergedIs
  <2>1. DOMAIN m = (DOMAIN b \ Consumed(merges)) \cup {SpawnId(R, p) : p \in R}
    BY <2>0 DEF Leaves
  <2>2. \A i \in DOMAIN b \ Consumed(merges) : m[i] = b[i]  BY <2>0 DEF Leaves
  <2>3. ASSUME NEW p \in R
        PROVE  m[SpawnId(R, p)].tier = b[p[1]].tier + 1 /\ b[p[1]].tier \in Nat
    <3>1. m[SpawnId(R, p)] = Body(b[p[1]].tier + 1)  BY <2>0 DEF Leaves
    <3>2. b[p[1]].tier + 1 \in Tiers /\ b[p[1]].tier \in Nat  BY <1>1, RaisedTier
    <3>3. QED  BY <3>1, <3>2, BodyIs
  <2>4. ASSUME NEW i \in Pieces(m, t) PROVE i \in K \cup S
    <3>1. i \in DOMAIN m /\ m[i].tier = t  BY <2>4 DEF Pieces
    <3>2. CASE i \in DOMAIN b \ Consumed(merges)  BY <1>1, <2>2, <3>1, <3>2 DEF Kept
    <3>3. CASE i \in {SpawnId(R, p) : p \in R}
      <4>1. PICK p \in R : i = SpawnId(R, p)  BY <3>3
      <4>2. t = b[p[1]].tier + 1 /\ b[p[1]].tier \in Nat  BY <2>3, <3>1, <4>1
      <4>3. b[p[1]].tier = t - 1  BY <1>3, <4>2
      <4>4. QED  BY <1>1, <1>2, <4>1, <4>3
    <3>4. QED  BY <2>1, <3>1, <3>2, <3>3
  <2>5. ASSUME NEW i \in S PROVE i \in Pieces(m, t)
    <3>1. PICK p \in P : i = SpawnId(R, p)  BY <1>2, <2>5
    <3>2. p \in R /\ b[p[1]].tier = t - 1  BY <1>1, <3>1
    <3>3. m[i].tier = (t - 1) + 1  BY <2>3, <3>1, <3>2
    <3>4. i \in DOMAIN m  BY <2>1, <3>1, <3>2
    <3>5. QED  BY <1>3, <3>3, <3>4 DEF Pieces
  <2>6. ASSUME NEW i \in K PROVE i \in Pieces(m, t)
    <3>1. i \in DOMAIN b \ Consumed(merges) /\ b[i].tier = t  BY <1>1, <2>6 DEF Kept
    <3>2. QED  BY <2>1, <2>2, <3>1 DEF Pieces
  <2>7. QED  BY <2>4, <2>5, <2>6
<1>8. K \cap S = {}
  <2>1. \A i \in K : i \in Nat /\ i < tray.nextBodyId  BY <1>1 DEF Kept, Lying
  <2>2. \A p \in R : SpawnId(R, p) \in Nat /\ SpawnId(R, p) >= tray.nextBodyId  BY <1>1, SpawnIds
  <2>3. QED  BY <1>2, <1>4, <2>1, <2>2
<1>9. /\ Cardinality(K) \in Nat /\ Cardinality(S) \in Nat
      /\ Cardinality(K \cup S) = Cardinality(K) + Cardinality(S)
  BY <1>5, <1>6, <1>8, TwoParts
<1>10. Cardinality(P) = IF t = 0 THEN 0 ELSE Cardinality(OfTier(merges, b, t - 1))
  <2>1. CASE t = 0
    <3>1. \A p \in R : b[p[1]].tier \in Nat  BY <1>1, RaisedTier
    <3>2. P = {}  BY <1>1, <2>1, <3>1
    <3>3. QED  BY <2>1, <3>2, FS_EmptySet
  <2>2. CASE t # 0
    <3>1. P = OfTier(merges, b, t - 1)  BY <1>1, <1>3 DEF OfTier, Raised
    <3>2. QED  BY <2>2, <3>1
  <2>3. QED  BY <2>1, <2>2
<1>11. PICK x \in Nat, y \in Nat : x = Cardinality(K) /\ y = Cardinality(S)  BY <1>9
<1>12. Cardinality(Pieces(m, t)) = x + y  BY <1>7, <1>9, <1>11
<1>13. QED  BY <1>1, <1>5, <1>10, <1>11, <1>12

\* The score of a step is what its merges add to what lies in the tray, but for
\* the pairs of the top, which leave it.
LEMMA MergesEarn ==
  ASSUME tray.nextBodyId \in Nat, NEW b, Lying(b, tray.nextBodyId), NEW merges, PairsOf(b, merges)
  PROVE  /\ Total(b) \in Int /\ ScoreOf(b, merges) \in Int /\ JackpotsIn(b, merges) \in Nat
         /\ Total(Merged(b, merges)) + JackpotsIn(b, merges) * (Jackpot + 2 * Worth[TierCount - 1])
              = Total(b) + ScoreOf(b, merges)
<1>1. PICK n : n = [t \in Tiers |-> Cardinality(Pieces(b, t))] /\ n \in [Tiers -> Nat]
  <2>1. \A t : Cardinality(Pieces(b, t)) \in Nat  BY TierLoses
  <2>2. [t \in Tiers |-> Cardinality(Pieces(b, t))] \in [Tiers -> Nat]  BY <2>1
  <2>3. QED  BY <2>2
<1>2. PICK made : made = [t \in Tiers |-> Cardinality(OfTier(merges, b, t))] /\ made \in [Tiers -> Nat]
  <2>1. \A t : Cardinality(OfTier(merges, b, t)) \in Nat  BY TierLoses
  <2>2. [t \in Tiers |-> Cardinality(OfTier(merges, b, t))] \in [Tiers -> Nat]  BY <2>1
  <2>3. QED  BY <2>2
<1>3. PICK m : /\ m = [t \in Tiers |-> Cardinality(Pieces(Merged(b, merges), t))]
               /\ m \in [Tiers -> Nat]
  <2>1. \A t \in Tiers : Cardinality(Pieces(Merged(b, merges), t)) \in Nat  BY TierGains
  <2>2. [t \in Tiers |-> Cardinality(Pieces(Merged(b, merges), t))] \in [Tiers -> Nat]  BY <2>1
  <2>3. QED  BY <2>2
<1>4. Makes(n, m, made)
  <2>1. SUFFICES ASSUME NEW t \in Tiers
                 PROVE  m[t] = n[t] - 2 * made[t] + (IF t = 0 THEN 0 ELSE made[t - 1])
    BY DEF Makes
  <2>2. PICK k \in Nat : k = Cardinality(Kept(merges, b, t))  BY TierLoses
  <2>3. n[t] = k + 2 * made[t] /\ made[t] \in Nat  BY <1>1, <1>2, <2>2, TierLoses
  <2>4. PICK u \in Nat : u = (IF t = 0 THEN 0 ELSE made[t - 1])
                         /\ u = (IF t = 0 THEN 0 ELSE Cardinality(OfTier(merges, b, t - 1)))
    <3>1. t # 0 => t - 1 \in Tiers  BY TiersAre DEF Tiers
    <3>2. CASE t = 0  BY <3>2
    <3>3. CASE t # 0  BY <1>2, <3>1, <3>3
    <3>4. QED  BY <3>2, <3>3
  <2>5. m[t] = k + u  BY <1>3, <2>2, <2>4, TierGains
  <2>6. PICK d \in Nat : d = made[t]  BY <2>3
  <2>7. k + u = (k + 2 * d) - 2 * d + u  OBVIOUS
  <2>8. QED  BY <2>3, <2>4, <2>5, <2>6, <2>7
<1>5. PICK f, g, h :
        /\ f = OverTiers([t \in Tiers |-> m[t] * Worth[t]])
        /\ g = OverTiers([t \in Tiers |-> n[t] * Worth[t]])
        /\ h = OverTiers([t \in Tiers |-> ScoreOfTier(made, t)])
  OBVIOUS
<1>6. g \in Int /\ h \in Int /\ f = g + h - 2 * (made[TierCount - 1] * Worth[TierCount - 1])
  <2>1. n \in [Tiers -> Nat] /\ m \in [Tiers -> Nat] /\ made \in [Tiers -> Nat]
    BY <1>1, <1>2, <1>3
  <2>2. /\ OverTiers([t \in Tiers |-> n[t] * Worth[t]]) \in Int
        /\ OverTiers([t \in Tiers |-> ScoreOfTier(made, t)]) \in Int
        /\ OverTiers([t \in Tiers |-> m[t] * Worth[t]])
              = OverTiers([t \in Tiers |-> n[t] * Worth[t]])
                + OverTiers([t \in Tiers |-> ScoreOfTier(made, t)])
                - 2 * (made[TierCount - 1] * Worth[TierCount - 1])
    BY <1>4, <2>1, Conserved
  <2>3. QED  BY <1>5, <2>2
<1>7. Total(b) = g
  <2>1. [t \in Tiers |-> n[t] * Worth[t]] = [t \in Tiers |-> Cardinality(Pieces(b, t)) * Worth[t]]
    BY <1>1
  <2>2. QED  BY <1>5, <2>1 DEF Total
<1>8. Total(Merged(b, merges)) = f
  <2>1. [t \in Tiers |-> m[t] * Worth[t]]
          = [t \in Tiers |-> Cardinality(Pieces(Merged(b, merges), t)) * Worth[t]]
    BY <1>3
  <2>2. QED  BY <1>5, <2>1 DEF Total
<1>9. TierCount - 1 \in Tiers  BY TiersAre
<1>10. PICK j \in Nat, w \in Nat : j = made[TierCount - 1] /\ w = Worth[TierCount - 1]
  BY <1>2, <1>9, WorthIs
<1>11. JackpotsIn(b, merges) = j  BY <1>2, <1>9, <1>10 DEF JackpotsIn
<1>12. ScoreOf(b, merges) = Jackpot * j + h
  <2>1. [t \in Tiers |-> ScoreOfTier(made, t)]
          = [t \in Tiers |-> IF t = TierCount - 1 THEN 0
                             ELSE Cardinality(OfTier(merges, b, t)) * MergeScore(t + 1)]
    BY <1>2 DEF ScoreOfTier
  <2>2. h = OverTiers([t \in Tiers |-> IF t = TierCount - 1 THEN 0
                             ELSE Cardinality(OfTier(merges, b, t)) * MergeScore(t + 1)])
    BY <1>5, <2>1
  <2>3. QED  BY <1>11, <2>2 DEF ScoreOf
<1>13. PICK J \in Nat : J = Jackpot  BY TiersAre
<1>14. PICK x \in Nat, y \in Nat : x = J * j /\ y = j * w  OBVIOUS
<1>15. j * (J + 2 * w) = x + 2 * y  BY <1>14
<1>16. f + (x + 2 * y) = g + (x + h)  BY <1>6, <1>10, <1>14
<1>17. QED  BY <1>6, <1>7, <1>8, <1>10, <1>11, <1>12, <1>13, <1>14, <1>15, <1>16

\* The same pieces at the same ids, whatever their ages and times over the line.
SamePieces(b, o) ==
  DOMAIN o = DOMAIN b /\ \A i \in DOMAIN b : o[i].tier = b[i].tier
\* Pieces that only age are worth what they were.
LEMMA SameTotal ==
  ASSUME NEW b, NEW o, SamePieces(b, o)
  PROVE  Total(o) = Total(b)
<1>1. \A t : Pieces(o, t) = Pieces(b, t)  BY DEF SamePieces, Pieces
<1>2. [t \in Tiers |-> Cardinality(Pieces(o, t)) * Worth[t]]
        = [t \in Tiers |-> Cardinality(Pieces(b, t)) * Worth[t]]
  BY <1>1
<1>3. QED  BY <1>2 DEF Total

\* A choice of the scan is a set of pairs with no piece in common.
LEMMA MergersArePairs ==
  ASSUME NEW b, NEW n, Lying(b, n), NEW o, SamePieces(b, o), NEW merges \in Mergers(b)
  PROVE  PairsOf(o, merges)
<1>0. PICK pairs : pairs = {p \in (DOMAIN b) \X (DOMAIN b) :
                              p[1] < p[2] /\ b[p[1]].tier = b[p[2]].tier}
  OBVIOUS
<1>1. /\ merges \in SUBSET pairs
      /\ \A p, q \in merges : p # q => {p[1], p[2]} \cap {q[1], q[2]} = {}
  BY <1>0 DEF Mergers
<1>2. ASSUME NEW p \in merges
      PROVE  /\ p[1] \in DOMAIN o /\ p[2] \in DOMAIN o /\ p[1] # p[2]
             /\ o[p[1]].tier = o[p[2]].tier
  <2>1. p[1] \in DOMAIN b /\ p[2] \in DOMAIN b /\ p[1] < p[2] /\ b[p[1]].tier = b[p[2]].tier
    <3>1. p \in pairs  BY <1>1
    <3>2. QED  BY <1>0, <3>1
  <2>2. p[1] \in Nat /\ p[2] \in Nat  BY <2>1 DEF Lying
  <2>3. p[1] # p[2]  BY <2>1, <2>2
  <2>4. QED  BY <2>1, <2>3 DEF SamePieces
<1>3. ASSUME NEW p \in merges, NEW q \in merges, p # q
      PROVE  p[1] # q[1] /\ p[1] # q[2] /\ p[2] # q[1] /\ p[2] # q[2]
  <2>1. {p[1], p[2]} \cap {q[1], q[2]} = {}  BY <1>1, <1>3
  <2>2. QED  BY <2>1
<1>4. QED  BY <1>2, <1>3 DEF PairsOf

\* All pieces grow older, and none changes else.
LEMMA AgedIs ==
  ASSUME NEW b, NEW n, Lying(b, n), NEW o, o = [i \in DOMAIN b |-> Aged(b[i])]
  PROVE  Lying(o, n) /\ SamePieces(b, o)
<1>1. DOMAIN o = DOMAIN b /\ o = [i \in DOMAIN o |-> o[i]]  OBVIOUS
<1>2. ASSUME NEW i \in DOMAIN b PROVE o[i] \in BodySet /\ o[i].tier = b[i].tier
  <2>1. b[i] \in BodySet  BY DEF Lying
  <2>2. PICK x \in BodySet : x = b[i]  BY <2>1
  <2>3. PICK a \in Nat : a = IF x.age < GraceSteps THEN x.age + 1 ELSE x.age  BY DEF BodySet
  <2>4. Aged(x) = [x EXCEPT !.age = a]  BY <2>3 DEF Aged
  <2>5. [x EXCEPT !.age = a] \in BodySet /\ [x EXCEPT !.age = a].tier = x.tier  BY DEF BodySet
  <2>6. QED  BY <2>2, <2>4, <2>5
<1>3. QED  BY <1>1, <1>2 DEF Lying, SamePieces

\* A piece that was over the line for longer than the limit after its grace time.
RunsOver(x) == x.age >= GraceSteps /\ x.over > OverflowSteps

\* The scan for overflow ends the run exactly when it leaves a piece over the limit.
LEMMA OverflowedIs ==
  ASSUME NEW b, NEW n, Lying(b, n), NEW over
  PROVE  /\ Lying(Overflowed(b, over).bodies, n) /\ SamePieces(b, Overflowed(b, over).bodies)
         /\ Overflowed(b, over).ends \in BOOLEAN
         /\ Overflowed(b, over).ends <=>
              \E i \in DOMAIN b : RunsOver(Overflowed(b, over).bodies[i])
<1>1. PICK c : c = [i \in DOMAIN b |->
                 IF i \in over /\ b[i].age >= GraceSteps
                   THEN [b[i] EXCEPT !.over = @ + 1] ELSE [b[i] EXCEPT !.over = 0]]
  OBVIOUS
<1>2. PICK E : E = {i \in DOMAIN b : c[i].over > OverflowSteps}  OBVIOUS
<1>3. PICK o : o = [i \in DOMAIN b |-> IF \E j \in E : j < i THEN b[i] ELSE c[i]]  OBVIOUS
<1>4. Overflowed(b, over).bodies = o /\ Overflowed(b, over).ends = (E # {})
  BY <1>1, <1>2, <1>3 DEF Overflowed
<1>5. OverflowSteps \in Nat /\ OverflowSteps > 0  BY TiersAre
<1>6. ASSUME NEW i \in DOMAIN b
      PROVE  /\ c[i] \in BodySet /\ c[i].tier = b[i].tier
             /\ c[i].over > OverflowSteps => c[i].age >= GraceSteps
  <2>1. PICK x \in BodySet : x = b[i]  BY DEF Lying
  <2>2. CASE i \in over /\ x.age >= GraceSteps
    <3>1. c[i] = [x EXCEPT !.over = x.over + 1]  BY <1>1, <2>1, <2>2
    <3>2. [x EXCEPT !.over = x.over + 1] \in BodySet  BY DEF BodySet
    <3>3. [x EXCEPT !.over = x.over + 1].tier = x.tier /\ [x EXCEPT !.over = x.over + 1].age = x.age
      BY DEF BodySet
    <3>4. QED  BY <2>1, <2>2, <3>1, <3>2, <3>3
  <2>3. CASE ~(i \in over /\ x.age >= GraceSteps)
    <3>1. c[i] = [x EXCEPT !.over = 0]  BY <1>1, <2>1, <2>3
    <3>2. [x EXCEPT !.over = 0] \in BodySet  BY DEF BodySet
    <3>3. [x EXCEPT !.over = 0].tier = x.tier /\ [x EXCEPT !.over = 0].over = 0
      BY DEF BodySet
    <3>4. QED  BY <1>5, <2>1, <3>1, <3>2, <3>3
  <2>4. QED  BY <2>2, <2>3
<1>7. DOMAIN o = DOMAIN b /\ o = [i \in DOMAIN o |-> o[i]]  BY <1>3
<1>8. \A i \in DOMAIN b : o[i] \in BodySet /\ o[i].tier = b[i].tier
  <2>1. \A i \in DOMAIN b : b[i] \in BodySet  BY DEF Lying
  <2>2. QED  BY <1>3, <1>6, <2>1
<1>9. Lying(o, n) /\ SamePieces(b, o)  BY <1>7, <1>8 DEF Lying, SamePieces
<1>10. ASSUME E # {} PROVE \E i \in DOMAIN b : RunsOver(o[i])
  <2>1. E \in SUBSET Nat  BY <1>2 DEF Lying
  <2>2. PICK i \in E : \A j \in E : i <= j  BY <1>10, <2>1, LeastNumber
  <2>3. ~ \E j \in E : j < i  BY <2>1, <2>2
  <2>4. i \in DOMAIN b /\ c[i].over > OverflowSteps  BY <1>2
  <2>5. o[i] = c[i]  BY <1>3, <2>3, <2>4
  <2>6. QED  BY <1>6, <2>4, <2>5 DEF RunsOver
<1>11. ASSUME E = {}, NEW i \in DOMAIN b PROVE ~RunsOver(o[i])
  <2>1. o[i] = c[i]  BY <1>3, <1>11
  <2>2. ~(c[i].over > OverflowSteps)  BY <1>2, <1>11
  <2>3. QED  BY <2>1, <2>2 DEF RunsOver
<1>12. QED  BY <1>4, <1>9, <1>10, <1>11

SomeBodies == UNION {[S -> BodySet] : S \in SUBSET Nat}
Trays == [status : {"ready", "playing", "dead"}, score : Int, bodies : SomeBodies,
          nextBodyId : Nat, held : DropTiers \cup {NoPiece}, next : DropTiers, cooldown : Nat]
Earned(score, bodies, worth, jack) ==
  score + worth = Total(bodies) + jack * (Jackpot + 2 * Worth[TierCount - 1])
\* The status of a run and what ends it.
EndsWell(status, bodies) ==
  status = "dead" <=> \E id \in DOMAIN bodies : RunsOver(bodies[id])
SuipuffInv ==
  /\ tray \in Trays /\ Lying(tray.bodies, tray.nextBodyId)
  /\ given \in Int /\ jackpots \in Int
  /\ Earned(tray.score, tray.bodies, given, jackpots)
  /\ tray.held = NoPiece => tray.cooldown > 0
  /\ EndsWell(tray.status, tray.bodies)

\* The pieces in the tray are a function on ids.
LEMMA LyingAreBodies == \A b, n : Lying(b, n) => b \in SomeBodies
<1>1. SUFFICES ASSUME NEW b, NEW n, Lying(b, n) PROVE b \in SomeBodies  OBVIOUS
<1>2. PICK S : S = DOMAIN b  OBVIOUS
<1>3. S \in SUBSET Nat /\ b \in [S -> BodySet]  BY <1>1, <1>2 DEF Lying
<1>4. QED  BY <1>3 DEF SomeBodies

\* An empty tray is worth nothing.
LEMMA NothingLies ==
  ASSUME NEW b, DOMAIN b = {}
  PROVE  Total(b) = 0
<1>1. \A t : Pieces(b, t) = {}  BY DEF Pieces
<1>2. \A t : Cardinality(Pieces(b, t)) = 0  BY <1>1, FS_EmptySet
<1>3. \A t \in Tiers : Worth[t] \in Nat  BY WorthIs
<1>4. \A t \in Tiers : Cardinality(Pieces(b, t)) * Worth[t] = 0  BY <1>2, <1>3
<1>5. [t \in Tiers |-> Cardinality(Pieces(b, t)) * Worth[t]] = NoWorth  BY <1>4 DEF NoWorth
<1>6. QED  BY <1>5, NothingAdds DEF Total

\* The first tray is empty.
LEMMA SuipuffBegins == SuipuffInit => SuipuffInv
<1>1. SUFFICES ASSUME SuipuffInit PROVE SuipuffInv  OBVIOUS
<1>2. PICK h \in DropTiers, x \in DropTiers :
        tray = [status |-> "ready", score |-> 0, bodies |-> [id \in {} |-> Body(0)],
                nextBodyId |-> 1, held |-> h, next |-> x, cooldown |-> 0]
  BY <1>1 DEF SuipuffInit
<1>3. given = 0 /\ jackpots = 0  BY <1>1 DEF SuipuffInit
<1>4. PICK b : b = [id \in {} |-> Body(0)]  OBVIOUS
<1>5. DOMAIN b = {} /\ b = [i \in DOMAIN b |-> b[i]]  BY <1>4
<1>6. IsFiniteSet(DOMAIN b)  BY <1>5, FS_EmptySet
<1>7. Lying(b, 1)  BY <1>5, <1>6 DEF Lying
<1>8. b \in SomeBodies  BY <1>7, LyingAreBodies
<1>9. tray \in Trays  BY <1>2, <1>4, <1>8 DEF Trays
<1>10. tray.bodies = b /\ tray.nextBodyId = 1 /\ tray.score = 0 /\ tray.held = h
       /\ tray.status = "ready"
  BY <1>2, <1>4
<1>11. h # NoPiece  BY SuipuffAssumption DEF DropTiers, NoPiece
<1>12. Earned(0, b, 0, 0)
  <2>1. Total(b) = 0  BY <1>5, NothingLies
  <2>2. TierCount - 1 \in Tiers  BY TiersAre
  <2>3. PICK w \in Nat : w = Worth[TierCount - 1]  BY <2>2, WorthIs
  <2>4. PICK j \in Nat : j = Jackpot  BY TiersAre
  <2>5. 0 * (j + 2 * w) = 0  OBVIOUS
  <2>6. QED  BY <2>1, <2>3, <2>4, <2>5 DEF Earned
<1>13. EndsWell("ready", b)  BY <1>5 DEF EndsWell
<1>14. QED  BY <1>3, <1>7, <1>9, <1>10, <1>11, <1>12, <1>13 DEF SuipuffInv

\* What can be read off the invariant.
LEMMA TrayIs ==
  ASSUME tray \in Trays
  PROVE  /\ tray.status \in {"ready", "playing", "dead"} /\ tray.score \in Int
         /\ tray.nextBodyId \in Nat /\ tray.held \in DropTiers \cup {NoPiece}
         /\ tray.next \in DropTiers /\ tray.cooldown \in Nat
         /\ tray = [status |-> tray.status, score |-> tray.score, bodies |-> tray.bodies,
                    nextBodyId |-> tray.nextBodyId, held |-> tray.held, next |-> tray.next,
                    cooldown |-> tray.cooldown]
BY DEF Trays

\* The button only starts the run.
LEMMA StartKeeps ==
  ASSUME SuipuffInv, StartSuipuff
  PROVE  SuipuffInv'
<1>1. tray' = [tray EXCEPT !.status = "playing"] /\ given' = given /\ jackpots' = jackpots
      /\ tray.status = "ready" /\ tray \in Trays
  BY DEF StartSuipuff, SuipuffInv
<1>2. /\ tray'.status = "playing" /\ tray'.score = tray.score /\ tray'.bodies = tray.bodies
      /\ tray'.nextBodyId = tray.nextBodyId /\ tray'.held = tray.held
      /\ tray'.cooldown = tray.cooldown /\ tray' \in Trays
  BY <1>1 DEF Trays
<1>3. EndsWell("playing", tray.bodies)  BY <1>1 DEF SuipuffInv, EndsWell
<1>4. QED  BY <1>1, <1>2, <1>3 DEF SuipuffInv

\* A drop adds one piece and empties the hand until the cooldown ends.
LEMMA DropKeeps ==
  ASSUME SuipuffInv, Drop
  PROVE  SuipuffInv'
<1>1. tray \in Trays /\ Lying(tray.bodies, tray.nextBodyId)  BY DEF SuipuffInv
<1>2. PICK h \in DropTiers : h = tray.held  BY <1>1, TrayIs DEF Drop
<1>3. h \in Tiers  BY TiersAre
<1>4. PICK b, n : b = tray.bodies /\ n = tray.nextBodyId  OBVIOUS
<1>5. n \in Nat /\ Lying(b, n) /\ n \notin DOMAIN b  BY <1>1, <1>4, TrayIs DEF Lying
<1>6. PICK o : o = [id \in DOMAIN b \cup {n} |-> IF id = n THEN Body(h) ELSE b[id]]  OBVIOUS
<1>7. DOMAIN o = DOMAIN b \cup {n} /\ o[n] = Body(h) /\ \A i \in DOMAIN b : o[i] = b[i]
  BY <1>5, <1>6
<1>8. Lying(o, n + 1)
  <2>1. IsFiniteSet(DOMAIN o)  BY <1>5, <1>7, FS_AddElement DEF Lying
  <2>2. o = [i \in DOMAIN o |-> o[i]]  BY <1>6
  <2>3. ASSUME NEW i \in DOMAIN o PROVE i \in Nat /\ i < n + 1 /\ o[i] \in BodySet
    <3>1. CASE i = n  BY <1>3, <1>5, <1>7, <3>1, BodyIs
    <3>2. CASE i # n
      <4>1. i \in DOMAIN b  BY <1>7, <3>2
      <4>2. i \in Nat /\ i < n /\ b[i] \in BodySet  BY <1>5, <4>1 DEF Lying
      <4>3. QED  BY <1>5, <1>7, <4>1, <4>2
    <3>3. QED  BY <3>1, <3>2
  <2>4. QED  BY <2>1, <2>2, <2>3 DEF Lying
<1>9. tray' = [tray EXCEPT !.status = "playing", !.bodies = o, !.nextBodyId = n + 1,
                           !.held = NoPiece, !.cooldown = RefillSteps]
  BY <1>2, <1>4, <1>6 DEF Drop
<1>10. o \in SomeBodies  BY <1>8, LyingAreBodies
<1>11. /\ tray'.status = "playing" /\ tray'.score = tray.score /\ tray'.bodies = o
       /\ tray'.nextBodyId = n + 1 /\ tray'.held = NoPiece /\ tray'.cooldown = RefillSteps
  BY <1>1, <1>9 DEF Trays
<1>12. tray' \in Trays
  <2>1. n + 1 \in Nat /\ RefillSteps \in Nat /\ NoPiece \in DropTiers \cup {NoPiece}
    BY <1>5, TiersAre
  <2>2. QED  BY <1>1, <1>9, <1>10, <2>1 DEF Trays
<1>13. given' = given + Worth[h] /\ jackpots' = jackpots  BY <1>2 DEF Drop
<1>14. Total(b) \in Int /\ Total(o) = Total(b) + Worth[h]
  <2>1. PairsOf(b, {})  BY DEF PairsOf
  <2>2. \A t : Cardinality(Pieces(b, t)) \in Nat
    BY <1>5, <2>1, TierLoses
  <2>3. PICK f : f = [t \in Tiers |-> Cardinality(Pieces(b, t))] /\ f \in [Tiers -> Nat]
    <3>1. [t \in Tiers |-> Cardinality(Pieces(b, t))] \in [Tiers -> Nat]  BY <2>2
    <3>2. QED  BY <3>1
  <2>4. ASSUME NEW t \in Tiers
        PROVE Cardinality(Pieces(o, t)) = IF t = h THEN f[t] + 1 ELSE f[t]
    <3>1. CASE t = h
      <4>1. Pieces(o, t) = Pieces(b, t) \cup {n}
        BY <1>3, <1>5, <1>7, <3>1, BodyIs DEF Pieces
      <4>2. n \notin Pieces(b, t)  BY <1>5 DEF Pieces
      <4>3. IsFiniteSet(Pieces(b, t))
        <5>1. Pieces(b, t) \in SUBSET DOMAIN b  BY DEF Pieces
        <5>2. QED  BY <1>5, <5>1, FS_Subset DEF Lying
      <4>4. Cardinality(Pieces(o, t)) = Cardinality(Pieces(b, t)) + 1
        BY <4>1, <4>2, <4>3, FS_AddElement
      <4>5. QED  BY <2>3, <3>1, <4>4
    <3>2. CASE t # h
      <4>1. Pieces(o, t) = Pieces(b, t)
        BY <1>3, <1>5, <1>7, <3>2, BodyIs DEF Pieces
      <4>2. QED  BY <2>3, <3>2, <4>1
    <3>3. QED  BY <3>1, <3>2
  <2>5. PICK g : g = [t \in Tiers |-> Cardinality(Pieces(o, t))] /\ g \in [Tiers -> Nat]
    <3>1. \A t \in Tiers : f[t] \in Nat  BY <2>3
    <3>2. \A t \in Tiers : Cardinality(Pieces(o, t)) \in Nat  BY <2>4, <3>1
    <3>3. [t \in Tiers |-> Cardinality(Pieces(o, t))] \in [Tiers -> Nat]  BY <3>2
    <3>4. QED  BY <3>3
  <2>6. \A t \in Tiers : g[t] = IF t = h THEN f[t] + 1 ELSE f[t]  BY <2>4, <2>5
  <2>7. /\ OverTiers([t \in Tiers |-> f[t] * Worth[t]]) \in Int
        /\ OverTiers([t \in Tiers |-> g[t] * Worth[t]])
             = OverTiers([t \in Tiers |-> f[t] * Worth[t]]) + Worth[h]
    <3>1. f \in [Tiers -> Nat] /\ g \in [Tiers -> Nat]  BY <2>3, <2>5
    <3>2. QED  BY <1>3, <2>6, <3>1, OneMore
  <2>8. [t \in Tiers |-> f[t] * Worth[t]] = [t \in Tiers |-> Cardinality(Pieces(b, t)) * Worth[t]]
    BY <2>3
  <2>9. [t \in Tiers |-> g[t] * Worth[t]] = [t \in Tiers |-> Cardinality(Pieces(o, t)) * Worth[t]]
    BY <2>5
  <2>10. QED  BY <2>7, <2>8, <2>9 DEF Total
<1>15. Earned(tray.score, o, given', jackpots)
  <2>1. PICK u : u = jackpots * (Jackpot + 2 * Worth[TierCount - 1]) /\ u \in Int
    <3>1. PICK w \in Nat, j \in Nat, k \in Int :
             w = Worth[TierCount - 1] /\ j = Jackpot /\ k = jackpots
      BY TiersAre, WorthIs DEF SuipuffInv
    <3>2. k * (j + 2 * w) \in Int  OBVIOUS
    <3>3. QED  BY <3>1, <3>2
  <2>2. tray.score + given = Total(b) + u /\ given \in Int  BY <1>4, <2>1 DEF SuipuffInv, Earned
  <2>3. PICK w \in Nat : w = Worth[h]  BY <1>3, WorthIs
  <2>4. PICK s \in Int : s = tray.score  BY <1>1, TrayIs
  <2>5. s + (given + w) = (Total(b) + w) + u  BY <1>14, <2>1, <2>2, <2>4
  <2>6. QED  BY <1>13, <1>14, <2>1, <2>3, <2>4, <2>5 DEF Earned
<1>16. EndsWell("playing", o)
  <2>1. tray.status # "dead"  BY DEF Drop
  <2>2. \A i \in DOMAIN b : ~RunsOver(b[i])  BY <1>4, <2>1 DEF SuipuffInv, EndsWell
  <2>3. ~RunsOver(Body(h))
    <3>1. Body(h).over = 0  BY DEF Body
    <3>2. QED  BY <3>1, TiersAre DEF RunsOver
  <2>4. \A i \in DOMAIN o : ~RunsOver(o[i])  BY <1>7, <2>2, <2>3
  <2>5. QED  BY <2>4 DEF EndsWell
<1>17. given' \in Int
  <2>1. Worth[h] \in Nat /\ given \in Int  BY <1>3, WorthIs DEF SuipuffInv
  <2>2. QED  BY <1>13, <2>1
<1>18. RefillSteps > 0 /\ jackpots \in Int  BY TiersAre DEF SuipuffInv
<1>19. QED
  BY <1>8, <1>11, <1>12, <1>13, <1>15, <1>16, <1>17, <1>18 DEF SuipuffInv

\* What the refill of the hand does: nothing to the pieces and the score, and a
\* hand is empty only while the cooldown runs.
LEMMA RefilledIs ==
  ASSUME SuipuffInv, NEW roll \in DropTiers
  PROVE  /\ Refilled(roll) \in Trays
         /\ Refilled(roll).held = NoPiece => Refilled(roll).cooldown > 0
<1>1. tray \in Trays /\ (tray.held = NoPiece => tray.cooldown > 0)  BY DEF SuipuffInv
<1>2. tray.cooldown \in Nat /\ tray.next \in DropTiers /\ tray.held \in DropTiers \cup {NoPiece}
  BY <1>1, TrayIs
<1>3. \A x \in DropTiers : x # NoPiece  BY SuipuffAssumption DEF DropTiers, NoPiece
<1>4. CASE tray.cooldown = 1 /\ tray.held = NoPiece
  <2>1. PICK x \in DropTiers : x = tray.next  BY <1>2
  <2>2. Refilled(roll) = [tray EXCEPT !.cooldown = 0, !.held = x, !.next = roll]
    BY <1>4, <2>1 DEF Refilled
  <2>3. /\ [tray EXCEPT !.cooldown = 0, !.held = x, !.next = roll] \in Trays
        /\ [tray EXCEPT !.cooldown = 0, !.held = x, !.next = roll].held = x
    BY <1>1 DEF Trays
  <2>4. QED  BY <1>3, <2>2, <2>3
<1>5. CASE ~(tray.cooldown = 1 /\ tray.held = NoPiece)
  <2>1. PICK c \in Nat : c = IF tray.cooldown > 0 THEN tray.cooldown - 1 ELSE 0  BY <1>2
  <2>2. Refilled(roll) = [tray EXCEPT !.cooldown = c]  BY <1>5, <2>1 DEF Refilled
  <2>3. Refilled(roll) \in Trays /\ Refilled(roll).held = tray.held /\ Refilled(roll).cooldown = c
    BY <1>1, <2>2 DEF Trays
  <2>4. tray.held = NoPiece => c > 0  BY <1>1, <1>2, <1>5, <2>1
  <2>5. QED  BY <2>3, <2>4
<1>6. QED  BY <1>4, <1>5

\* A fixed step: refill, ages, merges, overflow, in this order.
LEMMA StepKeepsTray ==
  ASSUME SuipuffInv, NEW roll \in DropTiers, NEW merges \in Mergers(tray.bodies), NEW over,
         SuipuffStep(roll, merges, over)
  PROVE  SuipuffInv'
<1>1. tray \in Trays /\ Lying(tray.bodies, tray.nextBodyId) /\ tray.nextBodyId \in Nat
  BY TrayIs DEF SuipuffInv
<1>2. PICK a : a = [i \in DOMAIN tray.bodies |-> Aged(tray.bodies[i])]  OBVIOUS
<1>3. Lying(a, tray.nextBodyId) /\ SamePieces(tray.bodies, a)  BY <1>1, <1>2, AgedIs
<1>4. PairsOf(a, merges)  BY <1>1, <1>3, MergersArePairs
<1>5. PICK m, n : m = Merged(a, merges) /\ n = tray.nextBodyId + Cardinality(Raised(merges, a))
  OBVIOUS
<1>6. Lying(m, n) /\ n \in Nat  BY <1>1, <1>3, <1>4, <1>5, MergedLies
<1>7. PICK o, e : o = Overflowed(m, over).bodies /\ e = Overflowed(m, over).ends  OBVIOUS
<1>8. Lying(o, n) /\ SamePieces(m, o) /\ e \in BOOLEAN  BY <1>6, <1>7, OverflowedIs
<1>9. e <=> \E i \in DOMAIN m : RunsOver(o[i])  BY <1>6, <1>7, OverflowedIs
<1>10. PICK q : q = Refilled(roll)  OBVIOUS
<1>11. q \in Trays /\ (q.held = NoPiece => q.cooldown > 0)  BY <1>10, RefilledIs
<1>12. PICK s : s = tray.score + ScoreOf(a, merges)  OBVIOUS
<1>13. PICK z : z = IF e THEN "dead" ELSE "playing"  OBVIOUS
<1>14. tray' = [q EXCEPT !.bodies = o, !.nextBodyId = n, !.score = s, !.status = z]
  BY <1>2, <1>5, <1>7, <1>10, <1>12, <1>13 DEF SuipuffStep
<1>15. jackpots' = jackpots + JackpotsIn(a, merges) /\ given' = given
  BY <1>2 DEF SuipuffStep
<1>16. /\ Total(a) \in Int /\ ScoreOf(a, merges) \in Int /\ JackpotsIn(a, merges) \in Nat
       /\ Total(m) + JackpotsIn(a, merges) * (Jackpot + 2 * Worth[TierCount - 1])
            = Total(a) + ScoreOf(a, merges)
  BY <1>1, <1>3, <1>4, <1>5, MergesEarn
<1>17. Total(a) = Total(tray.bodies) /\ Total(o) = Total(m)  BY <1>3, <1>8, SameTotal
<1>18. PICK t \in Int, d \in Int, j \in Nat, sc \in Int, g \in Int, k \in Int :
         /\ t = Total(a) /\ d = ScoreOf(a, merges) /\ j = JackpotsIn(a, merges)
         /\ sc = tray.score /\ g = given /\ k = jackpots
  BY <1>1, <1>16, TrayIs DEF SuipuffInv
<1>19. PICK J \in Int : J = Jackpot + 2 * Worth[TierCount - 1]
  <2>1. PICK w \in Nat, y \in Nat : w = Worth[TierCount - 1] /\ y = Jackpot  BY TiersAre, WorthIs
  <2>2. y + 2 * w \in Int  OBVIOUS
  <2>3. QED  BY <2>1, <2>2
<1>20. s \in Int /\ given' \in Int /\ jackpots' \in Int  BY <1>12, <1>15, <1>18
<1>21. Earned(s, o, given', jackpots')
  <2>1. sc + g = t + k * J  BY <1>17, <1>18, <1>19 DEF SuipuffInv, Earned
  <2>2. Total(o) + j * J = t + d  BY <1>16, <1>17, <1>18, <1>19
  <2>3. PICK x \in Int, y \in Int : x = k * J /\ y = j * J  OBVIOUS
  <2>4. (k + j) * J = x + y  BY <2>3
  <2>5. Total(o) = t + d - y
    <3>1. Total(o) \in Int
      <4>1. Total(m) \in Int
        <5>1. \A tt : Cardinality(Pieces(m, tt)) \in Nat
          <6>1. PairsOf(m, {})  BY DEF PairsOf
          <6>2. QED  BY <1>6, <6>1, TierLoses
        <5>2. PICK f : f = [tt \in Tiers |-> Cardinality(Pieces(m, tt))] /\ f \in [Tiers -> Nat]
          <6>1. [tt \in Tiers |-> Cardinality(Pieces(m, tt))] \in [Tiers -> Nat]  BY <5>1
          <6>2. QED  BY <6>1
        <5>3. PICK h : h = [tt \in Tiers |-> f[tt] * Worth[tt]] /\ h \in [Tiers -> Int]
          BY <5>2, InAll
        <5>4. h = [tt \in Tiers |-> Cardinality(Pieces(m, tt)) * Worth[tt]]  BY <5>2, <5>3
        <5>5. TierCount \in 0..TierCount /\ TierCount \in Nat  BY TiersAre
        <5>6. OverTiers(h) \in Int  BY <5>3, <5>5, OverTiersIs
        <5>7. QED  BY <5>4, <5>6 DEF Total
      <4>2. QED  BY <1>17, <4>1
    <3>2. QED  BY <2>2, <2>3, <3>1
  <2>6. (sc + d) + g = (t + d - y) + (x + y)  BY <2>1, <2>3
  <2>7. QED  BY <1>12, <1>15, <1>18, <1>19, <2>4, <2>5, <2>6 DEF Earned
<1>22. o \in SomeBodies /\ z \in {"ready", "playing", "dead"}  BY <1>8, <1>13, LyingAreBodies
<1>23. /\ tray' \in Trays /\ tray'.status = z /\ tray'.score = s /\ tray'.bodies = o
       /\ tray'.nextBodyId = n /\ tray'.held = q.held /\ tray'.cooldown = q.cooldown
  BY <1>6, <1>11, <1>14, <1>20, <1>22 DEF Trays
<1>24. EndsWell(z, o)
  <2>1. DOMAIN o = DOMAIN m  BY <1>8 DEF SamePieces
  <2>2. z = "dead" <=> e  BY <1>8, <1>13
  <2>3. QED  BY <1>9, <2>1, <2>2 DEF EndsWell
<1>25. QED  BY <1>8, <1>11, <1>20, <1>21, <1>23, <1>24 DEF SuipuffInv

\* The score of Suipuff is what was merged and no more, for any number of drops and
\* any pieces touching: nothing is merged twice in a step, lost or made up; the
\* hand is empty only while the cooldown runs, and the run is dead exactly when a
\* piece was over the line for too long (advanceSuipuff, mergePass and
\* checkOverflow of src/src/lib/puff/suipuff.ts).
THEOREM EveryPointIsEarned == SuipuffSpec => []SuipuffScoreIsEarned
<1>1. SuipuffInit => SuipuffInv  BY SuipuffBegins
<1>2. SuipuffInv /\ [SuipuffNext]_suipuffVars => SuipuffInv'
  <2>1. SUFFICES ASSUME SuipuffInv, [SuipuffNext]_suipuffVars PROVE SuipuffInv'  OBVIOUS
  <2>2. CASE StartSuipuff  BY <2>1, <2>2, StartKeeps
  <2>3. CASE Drop  BY <2>1, <2>3, DropKeeps
  <2>4. CASE \E roll \in DropTiers, merges \in Mergers(tray.bodies),
               over \in SUBSET (DOMAIN tray.bodies) : SuipuffStep(roll, merges, over)
    BY <2>1, <2>4, StepKeepsTray
  <2>5. CASE UNCHANGED suipuffVars
    <3>1. tray' = tray /\ given' = given /\ jackpots' = jackpots  BY <2>5 DEF suipuffVars
    <3>2. QED  BY <2>1, <3>1 DEF SuipuffInv
  <2>6. QED  BY <2>1, <2>2, <2>3, <2>4, <2>5 DEF SuipuffNext
<1>3. SuipuffInv => SuipuffScoreIsEarned
  BY DEF SuipuffInv, SuipuffScoreIsEarned, Earned, EndsWell, RunsOver
<1>4. QED  BY <1>1, <1>2, <1>3, PTL DEF SuipuffSpec

-----------------------------------------------------------------------------
\* The engines keep their rules whatever the player does and however long: the
\* snake stays whole (puff-print-run.ts), every point of Suipuff is earned
\* (suipuff.ts) and Flappy Puff counts every gate (game.ts, all of src/src/lib/puff).
THEOREM EnginesStaySound == PuffSnakeSpec /\ SuipuffSpec /\ FlappySpec => []EnginesSound
BY SnakeIsWhole, EveryPointIsEarned, EveryGateCounts, PTL DEF EnginesSound

-----------------------------------------------------------------------------
\* The boards side by side: a page never claims a save that did not happen.
THEOREM BoardScoresAreKept == PuffdleBoardSpec /\ ArcadeSpec => []BoardsKeepScores
BY UnlimitedScoresAreKept, ArcadeScoresAreKept, PTL DEF BoardsKeepScores

\* And no row steps back, whatever arrives late, twice or crosses another answer.
THEOREM BoardsGrow == PuffdleBoardSpec /\ ArcadeSpec => BoardsOnlyGrow
BY PuffdleRowGrows, ArcadeOnlyGrows DEF BoardsOnlyGrow
=============================================================================
