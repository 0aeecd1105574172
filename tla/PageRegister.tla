----------------------------- MODULE PageRegister -----------------------------
(***************************************************************************)
(* What a stored member page promises, whatever calls are in flight: a     *)
(* private draft whose every write has a revision of its own, and a public *)
(* snapshot that only ever becomes public as a copy of the current draft,  *)
(* under a new token and while no hold stands.  One operation of a page    *)
(* takes effect in one step here.                                          *)
(***************************************************************************)
EXTENDS Naturals

CONSTANTS Docs, NoDoc

VARIABLES draft, rev, snapshot, public, token, held

page == <<draft, rev, snapshot, public, token, held>>

Init ==
  /\ draft \in Docs /\ rev = 0
  /\ public \in BOOLEAN /\ held = FALSE /\ token \in Nat
  /\ snapshot = IF public THEN draft ELSE NoDoc

(* A save from the V2 editor, or a reset to the snapshot. *)
Save(d) ==
  /\ draft' = d /\ rev' = rev + 1
  /\ UNCHANGED <<snapshot, public, token, held>>

(* A legacy save: the public page, if there is one, changes with the draft. *)
SaveThrough(d) ==
  /\ draft' = d /\ rev' = rev + 1
  /\ snapshot' = IF public THEN d ELSE snapshot
  /\ UNCHANGED <<public, token, held>>

Publish ==
  /\ ~held
  /\ snapshot' = draft /\ public' = TRUE /\ token' = token + 1
  /\ UNCHANGED <<draft, rev, held>>

(* By the owner, or by an administrator who may also place a hold. *)
Hide ==
  /\ public' = FALSE
  /\ held' \in {held, TRUE}
  /\ UNCHANGED <<draft, rev, snapshot, token>>

ClearHold ==
  /\ held /\ ~public
  /\ held' = FALSE
  /\ UNCHANGED <<draft, rev, snapshot, public, token>>

Next ==
  \/ \E d \in Docs : Save(d) \/ SaveThrough(d)
  \/ Publish
  \/ Hide
  \/ ClearHold

Spec == Init /\ [][Next]_page
=============================================================================
