-------------------------------- MODULE Suipuff --------------------------------
(***************************************************************************)
(* The engine of Suipuff (src/src/lib/puff/suipuff.ts): pieces dropped     *)
(* into a tray merge in equal pairs, and two of the top tier vanish for a  *)
(* jackpot.  Where the pieces lie is left out: any two may touch, any may  *)
(* reach over the line.  Time is counted in fixed steps; a frame is a few  *)
(* of them with no key between.                                            *)
(***************************************************************************)
EXTENDS Integers, FiniteSets

CONSTANTS TierCount,      \* tiers of pieces: 8
          DropTierCount,  \* tiers that are dropped: 5
          Jackpot,        \* for two of the top tier: 100
          RefillSteps, GraceSteps, OverflowSteps,  \* 0.35, 0.6 and 1 second
          MaxDrops        \* bound: pieces dropped in a run

ASSUME SuipuffAssumption ==
  /\ TierCount \in Nat \ {0} /\ DropTierCount \in 1..TierCount
  /\ {Jackpot, RefillSteps, GraceSteps, OverflowSteps, MaxDrops} \subseteq Nat \ {0}

VARIABLES
  tray,     \* SuipuffGameState: status, score, bodies by id, held, next, cooldown
  drops,    \* history: pieces dropped in the run
  given,    \* history: what they are worth
  jackpots  \* history: jackpots of the run

suipuffVars == <<tray, drops, given, jackpots>>

NoPiece == -1
Tiers == 0..TierCount-1
DropTiers == 0..DropTierCount-1     \* rollDropTier
MergeScore(tier) == (tier * (tier + 1)) \div 2

\* What a piece of a tier has scored if it was merged from pieces of tier 0.
Worth[tier \in Tiers] == IF tier = 0 THEN 0 ELSE 2 * Worth[tier - 1] + MergeScore(tier)

\* The sum of f.
OverTiers(f) == LET upTo[n \in 0..TierCount] == IF n = 0 THEN 0 ELSE upTo[n - 1] + f[n - 1]
                IN  upTo[TierCount]

\* addSuipuffBody, and the piece a merge leaves.  The ids are given in the order
\* of the list.
Body(tier) == [tier |-> tier, age |-> 0, over |-> 0]

SuipuffInit ==
  /\ \E held, next \in DropTiers :
       tray = [status |-> "ready", score |-> 0, bodies |-> [id \in {} |-> Body(0)],
               nextBodyId |-> 1, held |-> held, next |-> next, cooldown |-> 0]
  /\ drops = 0 /\ given = 0 /\ jackpots = 0

\* The button; the first drop of a run starts it as well.
StartSuipuff ==
  /\ tray.status = "ready"
  /\ tray' = [tray EXCEPT !.status = "playing"]
  /\ UNCHANGED <<drops, given, jackpots>>

Drop ==
  /\ tray.status # "dead" /\ tray.held # NoPiece /\ tray.cooldown = 0
  /\ drops < MaxDrops
  /\ tray' = [tray EXCEPT !.status = "playing",
                          !.bodies = [id \in DOMAIN tray.bodies \cup {tray.nextBodyId} |->
                                        IF id = tray.nextBodyId THEN Body(tray.held)
                                        ELSE tray.bodies[id]],
                          !.nextBodyId = tray.nextBodyId + 1,
                          !.held = NoPiece, !.cooldown = RefillSteps]
  /\ drops' = drops + 1 /\ given' = given + Worth[tray.held]
  /\ UNCHANGED jackpots

-----------------------------------------------------------------------------
(***************************************************************************)
(* One fixed step (advanceSuipuff).                                        *)
(***************************************************************************)
\* The cooldown runs out: the next piece is held and another one is rolled.
Refilled(roll) ==
  IF tray.cooldown = 1 /\ tray.held = NoPiece
    THEN [tray EXCEPT !.cooldown = 0, !.held = tray.next, !.next = roll]
    ELSE [tray EXCEPT !.cooldown = IF @ > 0 THEN @ - 1 ELSE 0]

\* mergePass: whatever touches, the scan merges pairs of equal tier that have no
\* piece in common; what a merge leaves is not merged in the same step.
Mergers(bodies) ==
  LET pairs == {p \in (DOMAIN bodies) \X (DOMAIN bodies) :
                  p[1] < p[2] /\ bodies[p[1]].tier = bodies[p[2]].tier}
  IN {m \in SUBSET pairs : \A p, q \in m : p # q => {p[1], p[2]} \cap {q[1], q[2]} = {}}

OfTier(merges, bodies, tier) == {p \in merges : bodies[p[1]].tier = tier}
Raised(merges, bodies) == {p \in merges : bodies[p[1]].tier < TierCount - 1}
SpawnId(raised, p) == tray.nextBodyId + Cardinality({q \in raised : q[1] < p[1]})
Merged(bodies, merges) ==
  LET consumed == {p[1] : p \in merges} \cup {p[2] : p \in merges}
      raised == Raised(merges, bodies)
      spawned == {SpawnId(raised, p) : p \in raised}
      from(id) == CHOOSE p \in raised : SpawnId(raised, p) = id
  IN [id \in (DOMAIN bodies \ consumed) \cup spawned |->
        IF id \in spawned THEN Body(bodies[from(id)[1]].tier + 1) ELSE bodies[id]]

JackpotsIn(bodies, merges) == Cardinality(OfTier(merges, bodies, TierCount - 1))
ScoreOf(bodies, merges) ==
  Jackpot * JackpotsIn(bodies, merges)
  + OverTiers([tier \in Tiers |->
      IF tier = TierCount - 1 THEN 0
      ELSE Cardinality(OfTier(merges, bodies, tier)) * MergeScore(tier + 1)])

\* Pieces older than the grace time count the steps they are over the line; the
\* first one to pass the limit ends the run, and the rest is not looked at.
\* Ages beyond the grace time are alike.
Aged(body) == [body EXCEPT !.age = IF body.age < GraceSteps THEN body.age + 1 ELSE body.age]
Overflowed(bodies, over) ==
  LET counted == [i \in DOMAIN bodies |->
                    IF i \in over /\ bodies[i].age >= GraceSteps
                      THEN [bodies[i] EXCEPT !.over = @ + 1] ELSE [bodies[i] EXCEPT !.over = 0]]
      ends == {i \in DOMAIN bodies : counted[i].over > OverflowSteps}
  IN [bodies |-> [i \in DOMAIN bodies |-> IF \E j \in ends : j < i THEN bodies[i] ELSE counted[i]],
      ends |-> ends # {}]

SuipuffStep(roll, merges, over) ==
  LET aged == [i \in DOMAIN tray.bodies |-> Aged(tray.bodies[i])]
      after == Overflowed(Merged(aged, merges), over)
  IN /\ tray.status = "playing"
     /\ tray' = [Refilled(roll) EXCEPT !.bodies = after.bodies,
                   !.nextBodyId = tray.nextBodyId + Cardinality(Raised(merges, aged)),
                   !.score = tray.score + ScoreOf(aged, merges),
                   !.status = IF after.ends THEN "dead" ELSE "playing"]
     /\ jackpots' = jackpots + JackpotsIn(aged, merges)
     /\ UNCHANGED <<drops, given>>

SuipuffNext ==
  \/ StartSuipuff \/ Drop
  \/ \E roll \in DropTiers, merges \in Mergers(tray.bodies),
        over \in SUBSET (DOMAIN tray.bodies) : SuipuffStep(roll, merges, over)

SuipuffSpec == SuipuffInit /\ [][SuipuffNext]_suipuffVars

-----------------------------------------------------------------------------
Pieces(bodies, tier) == {id \in DOMAIN bodies : bodies[id].tier = tier}
Total(bodies) == OverTiers([tier \in Tiers |-> Cardinality(Pieces(bodies, tier)) * Worth[tier]])

\* The score is what the pieces in the tray and the jackpots are worth beyond
\* what was dropped: nothing is merged twice in a step, lost or made up.  While
\* a run lasts it can go on: a piece is held or on its way.  It ends only by a
\* piece that was over the line for longer than the limit after its grace time.
SuipuffScoreIsEarned ==
  /\ tray.score + given = Total(tray.bodies) + jackpots * (Jackpot + 2 * Worth[TierCount - 1])
  /\ tray.held = NoPiece => tray.cooldown > 0
  /\ tray.status = "dead" <=>
       \E id \in DOMAIN tray.bodies :
         tray.bodies[id].age >= GraceSteps /\ tray.bodies[id].over > OverflowSteps
=============================================================================
