----------------------------- MODULE AssetShelf -----------------------------
(***************************************************************************)
(* What the asset library of one page promises: an upload is pending, then *)
(* perhaps ready, and is condemned before it is removed; a limited number  *)
(* of uploads is pending, and a limited number of ready assets is stored,  *)
(* condemned ones included.                                                *)
(***************************************************************************)
EXTENDS Naturals, FiniteSets

CONSTANTS Assets, PendingLimit, ReadyLimit

VARIABLES
  pending,    \* uploads that may still become ready
  ready,      \* stored ready assets
  condemned,  \* assets that can only be removed
  removed     \* assets that are gone

vars == <<pending, ready, condemned, removed>>

Init == pending = {} /\ ready = {} /\ condemned = {} /\ removed = {}

Allocate(a) ==
  /\ a \notin pending \union ready \union condemned \union removed
  /\ Cardinality(pending) < PendingLimit
  /\ pending' = pending \union {a}
  /\ UNCHANGED <<ready, condemned, removed>>

Admit(a) ==
  /\ a \in pending
  /\ Cardinality(ready) < ReadyLimit
  /\ pending' = pending \ {a}
  /\ ready' = ready \union {a}
  /\ UNCHANGED <<condemned, removed>>

Condemn(S) ==
  /\ S \subseteq (pending \union ready) \ condemned
  /\ pending' = pending \ S
  /\ condemned' = condemned \union S
  /\ UNCHANGED <<ready, removed>>

Remove(a) ==
  /\ a \in condemned
  /\ ready' = ready \ {a}
  /\ condemned' = condemned \ {a}
  /\ removed' = removed \union {a}
  /\ UNCHANGED pending

Next ==
  \/ \E a \in Assets : Allocate(a) \/ Admit(a) \/ Remove(a)
  \/ \E S \in SUBSET Assets : Condemn(S)

Spec == Init /\ [][Next]_vars
=============================================================================
