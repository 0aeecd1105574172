----------------------------- MODULE MCGameAuth -----------------------------
(* One game, two calls in flight: enough for a statement to commit between  *)
(* the two halves of another, and for a replay to meet a newer code.        *)
EXTENDS GameAuth, TLC

CallSymmetry == Permutations(Requests)
=============================================================================
