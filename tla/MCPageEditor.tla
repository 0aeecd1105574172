----------------------------- MODULE MCPageEditor -----------------------------
(***************************************************************************)
(* A small instance of PageEditor: three documents are enough for a        *)
(* discarded, a pending, an in-flight and a stored version to differ.      *)
(***************************************************************************)
EXTENDS PageEditor
=============================================================================
