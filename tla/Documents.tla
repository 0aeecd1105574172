------------------------------- MODULE Documents -------------------------------
(***************************************************************************)
(* The document of a member page as its owner writes it: the blocks on the *)
(* workbench (EditorDocument) and the rich text in some of them            *)
(* (RichText).  The workbench hands the parser a value and learns whether  *)
(* it is taken; they share no state.                                       *)
(***************************************************************************)
EXTENDS EditorDocument, RichText

DocumentSpec == DocumentInit /\ [][DocumentNext]_documentVars
RichTextSpec == RichTextInit /\ [][RichTextNext]_proseVars
-----------------------------------------------------------------------------
\* The document keeps its structure, the inspector its block and Undo what was
\* deleted, whatever the owner does and whenever a reset lands; and its rich text
\* is stored as it was written or not at all.
DocumentsSound ==
  /\ [](OnlyFieldsCanBeWrong /\ SelectionIsOnThePage /\ ProseIsKept)
  /\ DocumentKeepsBlocks
=============================================================================
