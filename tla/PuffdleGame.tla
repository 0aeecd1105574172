----------------------------- MODULE PuffdleGame -----------------------------
(***************************************************************************)
(* The pure part of Puffdle, src/src/lib/puffdle/game.ts: the tiles of a   *)
(* guess, the colours of the keyboard, the outcome of a guess and the      *)
(* statistics of a player.  A word is a sequence of WordLength letters.    *)
(***************************************************************************)
EXTENDS Integers, Sequences, FiniteSets

CONSTANTS WordLength, MaxAttempts, Letters,
          Words   \* the dictionary, with the target words

Positions == 1..WordLength
Word == [Positions -> Letters]

ASSUME PuffdleGameAssumption ==
  WordLength \in Nat \ {0} /\ MaxAttempts \in Nat \ {0} /\ Words \subseteq Word

Tile == {"correct", "present", "absent"}
GameStatus == {"IN_PROGRESS", "WON", "LOST"}

\* evaluateGuess: a first pass marks the exact matches and takes their letters
\* out of the target's counts, a second one from the left marks a letter
\* present while the target has that letter left.
EvaluateGuess(target, guess) ==
  LET Exact(i) == guess[i] = target[i]
      unmatched == [c \in Letters |->
                      Cardinality({i \in Positions : target[i] = c /\ ~Exact(i)})]
      first == [i \in Positions |-> IF Exact(i) THEN "correct" ELSE "absent"]
      pass[i \in 0..WordLength] ==
        IF i = 0 THEN [left |-> unmatched, row |-> first]
        ELSE LET p == pass[i - 1]
             IN IF p.row[i] # "correct" /\ p.left[guess[i]] > 0
                  THEN [left |-> [p.left EXCEPT ![guess[i]] = @ - 1],
                        row  |-> [p.row EXCEPT ![i] = "present"]]
                  ELSE p
  IN pass[WordLength].row

\* updateKeyboardStatus: a key only ever improves, letter after letter.
\* "unused" is the missing key of the code's record.
Improves(old, new) ==
  \/ old = "unused"
  \/ old = "present" /\ new = "correct"
  \/ old = "absent" /\ new \in {"correct", "present"}

NewKeyboard == [c \in Letters |-> "unused"]

UpdateKeyboard(keys, guess, row) ==
  LET after[i \in 0..WordLength] ==
        IF i = 0 THEN keys
        ELSE IF Improves(after[i - 1][guess[i]], row[i])
               THEN [after[i - 1] EXCEPT ![guess[i]] = row[i]]
               ELSE after[i - 1]
  IN after[WordLength]

\* The keyboard after a list of guesses, as both the daily snapshot and the
\* Unlimited game build it.
KeyboardAfter(guesses, evaluations) ==
  LET keys[n \in 0..Len(guesses)] ==
        IF n = 0 THEN NewKeyboard
        ELSE UpdateKeyboard(keys[n - 1], guesses[n], evaluations[n])
  IN keys[Len(guesses)]

Points(attempts) ==
  IF attempts \in 1..MaxAttempts THEN (MaxAttempts + 1 - attempts) * 100 ELSE 0

NewGame(target) ==
  [target |-> target, guesses |-> <<>>, evaluations |-> <<>>, status |-> "IN_PROGRESS",
   keys |-> NewKeyboard, points |-> 0]

\* submitGuess of the Unlimited game; a finished game refuses the guess.
SubmitGuess(game, guess) ==
  LET guesses == Append(game.guesses, guess)
      row == EvaluateGuess(game.target, guess)
      won == guess = game.target
      lost == ~won /\ Len(guesses) >= MaxAttempts
  IN IF game.status # "IN_PROGRESS" \/ Len(game.guesses) >= MaxAttempts THEN game
     ELSE [game EXCEPT !.guesses = guesses,
                       !.evaluations = Append(@, row),
                       !.status = IF won THEN "WON" ELSE IF lost THEN "LOST" ELSE "IN_PROGRESS",
                       !.keys = UpdateKeyboard(@, guess, row),
                       !.points = IF won THEN Points(Len(guesses)) ELSE 0]

\* recordGameResult and createDefaultStats.  dist[n] counts the games won in
\* n attempts.
DefaultStats == [played |-> 0, won |-> 0, streak |-> 0, best |-> 0,
                 dist |-> [n \in 1..MaxAttempts |-> 0]]

Larger(a, b) == IF a >= b THEN a ELSE b

RecordGameResult(stats, won, attempts) ==
  LET streak == IF won THEN stats.streak + 1 ELSE 0
  IN [played |-> stats.played + 1,
      won    |-> IF won THEN stats.won + 1 ELSE stats.won,
      streak |-> streak,
      best   |-> Larger(stats.best, streak),
      dist   |-> IF won /\ attempts \in 1..MaxAttempts
                   THEN [stats.dist EXCEPT ![attempts] = @ + 1] ELSE stats.dist]

-----------------------------------------------------------------------------
(***************************************************************************)
(* What the tiles and the keyboard are supposed to say, written without    *)
(* the passes of the code.                                                 *)
(***************************************************************************)
\* The tiles of a guess: exact matches are correct; of every letter exactly as
\* many tiles are coloured as both words have it; and the present ones come
\* before the absent ones.
TilesTellTheTruth(target, guess, row) ==
  LET Count(w, c) == Cardinality({i \in Positions : w[i] = c})
      Of(c, t) == {i \in Positions : guess[i] = c /\ row[i] = t}
      Least(a, b) == IF a <= b THEN a ELSE b
  IN /\ \A i \in Positions : row[i] = "correct" <=> guess[i] = target[i]
     /\ \A c \in Letters :
          /\ Cardinality(Of(c, "correct")) + Cardinality(Of(c, "present"))
               = Least(Count(target, c), Count(guess, c))
          /\ \A i \in Of(c, "present"), j \in Of(c, "absent") : i < j

\* A key shows the best tile its letter ever got.
KeysTellTheTruth(guesses, evaluations, keys) ==
  \A c \in Letters :
    LET got == {evaluations[p[1]][p[2]] : p \in
                  {p \in (1..Len(guesses)) \X Positions : guesses[p[1]][p[2]] = c}}
    IN /\ keys[c] = "correct" <=> "correct" \in got
       /\ keys[c] = "present" <=> "present" \in got /\ "correct" \notin got
       /\ keys[c] = "absent"  <=> got = {"absent"}
       /\ keys[c] = "unused"  <=> got = {}
=============================================================================
