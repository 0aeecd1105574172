----------------------------- MODULE MCMemberPage -----------------------------
(***************************************************************************)
(* Small instances of MemberPage.  The documents are chosen so that every  *)
(* test of the code tells two of them apart: a plain legacy page, a legacy *)
(* page whose card shows an uploaded image, a page with that image and a   *)
(* theme the legacy editor cannot represent, and two pages with retired    *)
(* themes.                                                                 *)
(***************************************************************************)
EXTENDS MemberPage, TLC

CONSTANTS plain, card, rich, retro, faded

MCLegacyDocs == Docs \cap {plain, card}
MCRefs == [d \in Docs |-> IF d \in {card, rich} THEN Assets ELSE {}]
MCTheme == [d \in Docs |-> CASE d = retro -> "retro" [] d = faded -> "faded"
                             [] d = rich -> "riso" [] OTHER -> "paper"]
MCRateLimit == [a \in {"autosave", "publish"} |-> 1]

Symmetry == Permutations(Calls) \cup Permutations(Accounts)
=============================================================================
