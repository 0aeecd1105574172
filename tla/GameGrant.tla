----------------------------- MODULE GameGrant -----------------------------
(***************************************************************************)
(* What the game authorization tables promise each registered game about   *)
(* one account: codes are issued one after another, only the newest can    *)
(* be bought, at most once, and the game holds at most one token, the one  *)
(* its last purchase made.                                                 *)
(***************************************************************************)
EXTENDS Naturals

CONSTANT Clients

VARIABLES
  newest,  \* how many codes each client was issued; the last is the newest
  open,    \* whether the newest code can still be bought
  held     \* the code whose purchase made the token the client holds, or 0

vars == <<newest, open, held>>

Init ==
  /\ newest = [c \in Clients |-> 0]
  /\ open = [c \in Clients |-> FALSE]
  /\ held = [c \in Clients |-> 0]

(* A new code supersedes the one before it, bought or not. *)
Issue(c) ==
  /\ newest' = [newest EXCEPT ![c] = @ + 1]
  /\ open' = [open EXCEPT ![c] = TRUE]
  /\ UNCHANGED held

(* The newest code buys a token, which replaces the one held. *)
Buy(c) ==
  /\ open[c]
  /\ open' = [open EXCEPT ![c] = FALSE]
  /\ held' = [held EXCEPT ![c] = newest[c]]
  /\ UNCHANGED newest

(* A code presented after its sign-in ended is spent and buys nothing. *)
Waste(c) ==
  /\ open[c]
  /\ open' = [open EXCEPT ![c] = FALSE]
  /\ UNCHANGED <<newest, held>>

(* The token is revoked. *)
Drop(c) ==
  /\ held' = [held EXCEPT ![c] = 0]
  /\ UNCHANGED <<newest, open>>

Next == \E c \in Clients : Issue(c) \/ Buy(c) \/ Waste(c) \/ Drop(c)

Spec == Init /\ [][Next]_vars
=============================================================================
