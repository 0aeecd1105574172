-------------------------------- MODULE Puffcade --------------------------------
(***************************************************************************)
(* The arcade of the site: the engines that run a game and the boards that *)
(* keep what a member scored.  They share no state: a page shows one game, *)
(* and an engine hands a board nothing but a score.                        *)
(***************************************************************************)
EXTENDS PuffdleBoard, PuffSnake, Suipuff, FlappyPuff, ArcadeBoard

\* The engines keep their rules: what a run is made of and what it scores.
EnginesSound == SnakeStaysWhole /\ SuipuffScoreIsEarned /\ FlappyCountsEveryGate

\* A result a page says it saved is in the member's row; one it could not save
\* is still pending or its loss was announced.
BoardsKeepScores == PuffdleSavedMeansSaved /\ ArcadeScoreKept

\* No row and no board on a page steps back, whatever crosses or comes late.
BoardsOnlyGrow == PuffdleRowOnlyGrows /\ ArcadeNeverStepsBack
=============================================================================
