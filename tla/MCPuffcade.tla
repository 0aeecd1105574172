------------------------------- MODULE MCPuffcade -------------------------------
(***************************************************************************)
(* Puffcade on a small instance.  The games share no state, so one run     *)
(* checks them side by side: the first step of a behaviour is the choice   *)
(* of a game (src/src/components/puffcade-game-picker.tsx), and the        *)
(* variables of the other games keep one initial value.                    *)
(***************************************************************************)
EXTENDS DailyPuffdle, Puffcade, TLC

CONSTANT u1   \* the account the browser is signed in to

VARIABLE picked

MCWords == {<<"A", "A", "B">>, <<"B", "A", "C">>}
MCTargetOf == [d \in Days |-> IF d % 2 = 1 THEN <<"A", "A", "B">> ELSE <<"B", "A", "C">>]
MCBirdX == (8 :> 3) @@ (16 :> 5)
MCFirstX == (8 :> 7) @@ (16 :> 12)
MCSpacing == (8 :> 6) @@ (16 :> 8)

\* A solve handed in after another game, and a longer past without a score.
MCTotals == {[score |-> 500, played |-> 2, won |-> 1, streak |-> 1, best |-> 1],
             [score |-> 0, played |-> 3, won |-> 1, streak |-> 0, best |-> 1]}

Games == {"daily", "days", "unlimited", "snake", "suipuff", "flappy", "boards"}
One(game, value, values) == picked # game => value = CHOOSE v \in values : TRUE

MCInit ==
  /\ picked \in Games
  /\ DailyInit /\ member = u1
  /\ PuffdleBoardInit
  /\ PuffSnakeInit /\ One("snake", run, NewSnakes)
  /\ SuipuffInit /\ (picked # "suipuff" => tray.held = 0 /\ tray.next = 0)
  /\ FlappyInit /\ One("flappy", flight.width, Widths)
  /\ ArcadeInit /\ One("boards", kind, Kinds)

others(game) ==
  /\ UNCHANGED picked
  /\ game \notin {"daily", "days"} => UNCHANGED dailyVars
  /\ game # "unlimited" => UNCHANGED boardVars
  /\ game # "snake" => UNCHANGED run
  /\ game # "suipuff" => UNCHANGED suipuffVars
  /\ game # "flappy" => UNCHANGED flappyVars
  /\ game # "boards" => UNCHANGED arcadeVars

\* The daily game twice: two days with every fault, and three days, so that one
\* between two games can be missed, with the member's Unlimited totals, played
\* elsewhere and watched in a tab.
TwoDays == dbDay' <= 2 /\ UNCHANGED handedIn
ThreeDays ==
  /\ UNCHANGED <<giveUps, signIns>>
  /\ \A t \in Tabs : tabs'[t].pending = NoGuess /\ (tabs'[t].status = "closed" => UNCHANGED tabs)

MCNext ==
  \/ picked = "daily" /\ DailyNext /\ TwoDays /\ others("daily")
  \/ picked = "days" /\ DailyNext /\ ThreeDays /\ others("days")
  \/ picked = "unlimited" /\ PuffdleBoardNext /\ others("unlimited")
  \/ picked = "snake" /\ PuffSnakeNext /\ others("snake")
  \/ picked = "suipuff" /\ SuipuffNext /\ others("suipuff")
  \/ picked = "flappy" /\ FlappyNext /\ others("flappy")
  \/ picked = "boards" /\ ArcadeNext /\ others("boards")

MCSpec ==
  MCInit /\ [][MCNext]_<<picked, dailyVars, boardVars, run, suipuffVars, flappyVars, arcadeVars>>
  /\ DailyFairness
=============================================================================
