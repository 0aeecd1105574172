------------------------------- MODULE FlappyPuff -------------------------------
(***************************************************************************)
(* The engine of Flappy Puff (src/src/lib/puff/game.ts), as far as its     *)
(* gates go: they move towards the bird, count when they have passed it,   *)
(* and come back on the right.  How high the bird flies and where a gate   *)
(* has its gap is left out: the bird may hit any gate it is level with,    *)
(* and the ceiling or the ground at any time.                              *)
(***************************************************************************)
EXTENDS Integers, FiniteSets

CONSTANTS Widths,      \* widths of the canvas
          BirdX,       \* where the bird is, for each width
          FirstX,      \* where the first gate is, for each width
          Spacing,     \* the distance of new gates, for each width
          GateCount, GateWidth, Radius,
          Margin,      \* how far a gate is out of sight when it comes back
          Moves,       \* how far the gates move in a step, by speed and delta
          MaxScore,    \* bound: score of a run
          MaxResizes   \* bound: changes of the width

ASSUME FlappyPuffAssumption ==
  /\ Widths \subseteq Nat \ {0} /\ Widths # {}
  /\ {BirdX, FirstX, Spacing} \subseteq [Widths -> Nat]
  /\ {GateCount, GateWidth, MaxScore, MaxResizes} \subseteq Nat /\ GateCount > 1
  /\ Moves \subseteq Nat \ {0} /\ {Radius, Margin} \subseteq Nat
  /\ \A w \in Widths : BirdX[w] >= Radius

\* Resizing stretches the way: what is this share of one width is the same share
\* of another.  The widths differ so little (game.ts: the spacing is 320 to 400, a
\* gate 68 wide) that gates keep a gap, and that the bird is never so far in
\* that all of them are behind it.
Shares ==
  {f \in [Widths -> UNION {0..w : w \in Widths}] : \A v, w \in Widths : f[v] * w = f[w] * v}
RoomFor(gap, lead, tail) ==
  \A w \in Widths :
    /\ GateWidth < gap[w] /\ gap[w] <= Spacing[w]
    /\ BirdX[w] - Radius - GateWidth <= lead[w]
    /\ GateWidth + Margin <= tail[w]
    /\ lead[w] + tail[w] <= (GateCount - 1) * gap[w]
ASSUME RoomAssumption == \E gap, lead, tail \in Shares : RoomFor(gap, lead, tail)

VARIABLES
  flight,    \* PuffGameState: status, score, width and gates
  recycled,  \* history: gates that came back
  resizes

flappyVars == <<flight, recycled, resizes>>

\* createPuffGame
FlappyInit ==
  /\ \E w \in Widths :
       flight = [status |-> "ready", score |-> 0, width |-> w,
                 gates |-> [i \in 1..GateCount |->
                              [x |-> FirstX[w] + (i - 1) * Spacing[w], scored |-> FALSE]]]
  /\ recycled = 0
  /\ resizes = 0

\* flapPuff: the one key, and the start of the run.
Flap ==
  /\ flight.status # "dead"
  /\ flight' = [flight EXCEPT !.status = "playing"]
  /\ UNCHANGED <<recycled, resizes>>

-----------------------------------------------------------------------------
\* A gate has moved; it counts once, when it is behind the bird.
Passed(x) == x + GateWidth < BirdX[flight.width] - Radius
Moved(gate, by) ==
  [x |-> gate.x - by, scored |-> gate.scored \/ Passed(gate.x - by)]
Counted(gates) == Cardinality({i \in DOMAIN gates : gates[i].scored /\ ~flight.gates[i].scored})

\* hitsGate, as far as the bird's place along the way allows.
Level(x) == x <= BirdX[flight.width] + Radius /\ x + GateWidth >= BirdX[flight.width] - Radius

\* The gates are looked at in their order: the one that is hit ends the run, and
\* those after it have not moved.
HitGate(by, i) ==
  LET gates == [j \in DOMAIN flight.gates |->
                  IF j <= i THEN Moved(flight.gates[j], by) ELSE flight.gates[j]]
  IN /\ flight.status = "playing" /\ Level(gates[i].x)
     /\ flight' = [flight EXCEPT !.status = "dead", !.gates = gates, !.score = @ + Counted(gates)]
     /\ UNCHANGED <<recycled, resizes>>

\* recycleGate: one after the other, each behind the furthest of the others and
\* out of sight.
Gone(gate) == gate.x + GateWidth < -Margin
RecycleGate(gates, i) ==
  LET others == {gates[j].x : j \in DOMAIN gates \ {i}}
      furthest == CHOOSE x \in others : \A y \in others : y <= x
      entry == flight.width + GateWidth
      behind == furthest + Spacing[flight.width]
  IN IF Gone(gates[i])
       THEN [gates EXCEPT ![i] = [x |-> IF entry > behind THEN entry ELSE behind, scored |-> FALSE]]
       ELSE gates
Recycled(gates) ==
  LET after[i \in 0..GateCount] == IF i = 0 THEN gates ELSE RecycleGate(after[i - 1], i)
  IN after[GateCount]

\* stepPuffGame without a hit gate; the ground or the ceiling may still end it.
FlappyStep(by, falls) ==
  LET moved == [i \in DOMAIN flight.gates |-> Moved(flight.gates[i], by)]
  IN /\ flight.status = "playing" /\ flight.score < MaxScore
     /\ flight' = [flight EXCEPT !.gates = Recycled(moved),
                                 !.score = @ + Counted(moved),
                                 !.status = IF falls THEN "dead" ELSE @]
     /\ recycled' = recycled + Cardinality({i \in DOMAIN moved : Gone(moved[i])})
     /\ UNCHANGED resizes

\* resizePuffGame
Stretched(gate, w) == [x |-> (gate.x * w) \div flight.width, scored |-> gate.scored]
Resize(w) ==
  /\ w # flight.width /\ resizes < MaxResizes
  /\ resizes' = resizes + 1
  /\ flight' = [flight EXCEPT
                  !.width = w,
                  !.gates = [i \in DOMAIN flight.gates |-> Stretched(flight.gates[i], w)]]
  /\ UNCHANGED recycled

FlappyNext ==
  \/ Flap
  \/ \E by \in Moves :
       \/ \E i \in 1..GateCount : HitGate(by, i)
       \/ \E falls \in BOOLEAN : FlappyStep(by, falls)
  \/ \E w \in Widths : Resize(w)

FlappySpec == FlappyInit /\ [][FlappyNext]_flappyVars

-----------------------------------------------------------------------------
\* The score is the number of gates the bird has passed, those that have come
\* back and those still on the canvas: none counts twice or leaves uncounted,
\* also when the page is resized in flight.  In a run no two gates overlap, and
\* there is always one to come.
FlappyCountsEveryGate ==
  LET gates == flight.gates
      scored == {i \in DOMAIN gates : gates[i].scored}
  IN /\ flight.score = recycled + Cardinality(scored)
     /\ flight.status # "dead" =>
          /\ \A i, j \in DOMAIN gates : i # j => gates[i].x - gates[j].x \notin -GateWidth..GateWidth
          /\ scored # DOMAIN gates
=============================================================================
