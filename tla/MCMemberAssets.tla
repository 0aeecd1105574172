--------------------------- MODULE MCMemberAssets ---------------------------
(* Two assets of one page and two calls in flight. *)
EXTENDS MemberAssets, TLC

CONSTANTS a1, a2, r1, r2, good, bad

MCAssets == {a1, a2}
MCRequests == {r1, r2}
MCContents == {good, bad}
MCValid == {good}
Symmetry == Permutations(MCAssets) \union Permutations(MCRequests)
=============================================================================
