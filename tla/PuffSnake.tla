------------------------------- MODULE PuffSnake -------------------------------
(***************************************************************************)
(* The engine of Puff Print Run (src/src/lib/puff/snake.ts): a snake that  *)
(* eats the letters of words.  Words are their lengths, and the random     *)
(* number generator may give anything.                                     *)
(*                                                                         *)
(* stepPuffSnake runs up to five ticks a frame.  A tick is an action here: *)
(* frames of one tick reach every state, and the keys come between frames. *)
(***************************************************************************)
EXTENDS Integers, Sequences

CONSTANTS Cols, Rows,        \* the grid: 22 by 16
          StartingLength,    \* 4
          WordLengths,       \* the lengths of the words
          WordsToEndless     \* words before the endless objective: 6

ASSUME PuffSnakeAssumption ==
  /\ Cols \in Nat /\ Rows \in Nat \ {0} /\ StartingLength \in Nat \ {0}
  /\ Cols \div 2 >= StartingLength - 1 /\ Cols \div 2 < Cols
  /\ WordLengths \subseteq Nat \ {0} /\ WordLengths # {}
  /\ WordsToEndless \in Nat \ {0}

VARIABLE run   \* PuffSnakeState

Cells == (0..Cols-1) \X (0..Rows-1)
Directions == {"up", "down", "left", "right"}
Opposite == [up |-> "down", down |-> "up", left |-> "right", right |-> "left"]
Endless == [kind |-> "endless"]
WordObjective(length, progress, done) ==
  [kind |-> "word", length |-> length, progress |-> progress, completedWords |-> done]

NextHead(head, direction) ==
  CASE direction = "up"    -> <<head[1], head[2] - 1>>
    [] direction = "down"  -> <<head[1], head[2] + 1>>
    [] direction = "left"  -> <<head[1] - 1, head[2]>>
    [] direction = "right" -> <<head[1] + 1, head[2]>>

On(snake) == {snake[i] : i \in 1..Len(snake)}

\* spawnPickup: any free cell; the corner when there is none.
Pickups(snake) == IF Cells \subseteq On(snake) THEN {<<0, 0>>} ELSE Cells \ On(snake)

\* createPuffSnake
NewSnake(length, pickup) ==
  [status |-> "ready", score |-> 0,
   snake |-> [i \in 1..StartingLength |-> <<Cols \div 2 - (i - 1), Rows \div 2>>],
   direction |-> "right", pendingDirection |-> "right", pickup |-> pickup,
   objective |-> WordObjective(length, 0, 0)]
NewSnakes ==
  {NewSnake(length, pickup) : length \in WordLengths,
                              pickup \in Pickups(NewSnake(1, <<0, 0>>).snake)}

PuffSnakeInit == run \in NewSnakes

\* startPuffSnake
StartSnake ==
  /\ run.status = "ready"
  /\ run' = [run EXCEPT !.status = "running"]

\* turnPuffSnake, before the start too
TurnFromPending(direction) ==
  /\ run.status # "dead" /\ direction # Opposite[run.pendingDirection]
  /\ run' = [run EXCEPT !.pendingDirection = direction]
Turn(direction) ==
  /\ run.status # "dead" /\ direction # Opposite[run.direction]
  /\ run' = [run EXCEPT !.pendingDirection = direction]

-----------------------------------------------------------------------------
(***************************************************************************)
(* advanceSnake: one disjunct for each way a tick ends.                    *)
(***************************************************************************)
Ahead == NextHead(run.snake[1], run.pendingDirection)
Ate == Ahead = run.pickup
\* The tail's cell is free again when the snake moves on without eating.
HitSelf == Ahead \in On(IF Ate THEN run.snake ELSE SubSeq(run.snake, 1, Len(run.snake) - 1))
Crashes == Ahead \notin Cells \/ HitSelf
Turned == [run EXCEPT !.direction = run.pendingDirection]
Grown == <<Ahead>> \o run.snake

Crash ==
  /\ run.status = "running" /\ Crashes
  /\ run' = [Turned EXCEPT !.status = "dead"]

Move ==
  /\ run.status = "running" /\ ~Crashes /\ ~Ate
  /\ run' = [Turned EXCEPT !.snake = SubSeq(Grown, 1, Len(Grown) - 1)]

\* A letter of the word but not its last one, or any letter of the endless run.
EatLetter(pickup) ==
  /\ run.status = "running" /\ ~Crashes /\ Ate
  /\ run.objective.kind = "word" => run.objective.progress + 1 < run.objective.length
  /\ pickup \in Pickups(Grown)
  /\ run' = [Turned EXCEPT !.snake = Grown, !.score = @ + 10, !.pickup = pickup,
                           !.objective =
                             IF @.kind = "word"
                               THEN [@ EXCEPT !.progress = run.objective.progress + 1] ELSE @]

\* The last letter: a bonus, and the snake sheds what the word made it grow.
Least(a, b) == IF a < b THEN a ELSE b
CompleteWord(next, pickup) ==
  LET objective == run.objective
      removable == IF Len(Grown) > StartingLength THEN Len(Grown) - StartingLength ELSE 0
      trimmed == SubSeq(Grown, 1, Len(Grown) - Least(objective.length, removable))
      done == objective.completedWords + 1
  IN /\ run.status = "running" /\ ~Crashes /\ Ate
     /\ objective.kind = "word" /\ objective.progress + 1 >= objective.length
     /\ pickup \in Pickups(trimmed)
     /\ run' = [Turned EXCEPT
                  !.snake = trimmed, !.score = @ + 10 + objective.length * 5, !.pickup = pickup,
                  !.objective = IF done >= WordsToEndless THEN Endless
                                ELSE WordObjective(next, 0, done)]

PuffSnakeNext ==
  \/ StartSnake
  \/ \E direction \in Directions : Turn(direction)
  \/ Crash \/ Move
  \/ \E pickup \in Cells :
       EatLetter(pickup) \/ \E next \in WordLengths : CompleteWord(next, pickup)

PuffSnakeSpec == PuffSnakeInit /\ [][PuffSnakeNext]_run

-----------------------------------------------------------------------------
Adjacent(a, b) == \E direction \in Directions : NextHead(a, direction) = b

\* The snake is one piece of distinct cells of the grid, whatever it ate, shed
\* or followed; it carries exactly the letters of the unfinished word; its
\* pickup is free as long as the grid has a free cell; its score is one that the
\* table takes (a multiple of 5); and however fast the keys are pressed, it never
\* turns on its neck.
SnakeStaysWhole ==
  LET n == Len(run.snake)
  IN /\ On(run.snake) \subseteq Cells
     /\ \A i, j \in 1..n : run.snake[i] = run.snake[j] => i = j
     /\ \A i \in 1..n-1 : Adjacent(run.snake[i], run.snake[i + 1])
     /\ run.objective.kind = "word" => n = StartingLength + run.objective.progress
     /\ Cells \subseteq On(run.snake) \/ run.pickup \in Cells \ On(run.snake)
     /\ run.score % 5 = 0
     /\ n > 1 => NextHead(run.snake[1], run.direction) # run.snake[2]
=============================================================================
