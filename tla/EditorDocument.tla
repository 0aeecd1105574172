---------------------------- MODULE EditorDocument ----------------------------
(***************************************************************************)
(* The document on the workbench of the owner editor                       *)
(* (src/src/components/member-page-editor/): the operations of             *)
(* document-ops.ts, the hook that applies them and keeps one deletion for  *)
(* Undo, the shell that moves the selection, the inspector's fields and    *)
(* the add panel, the shared validator's structural rules                  *)
(* (src/src/lib/members/v2/validation.ts) and the reset that replaces the  *)
(* document while the owner may still be editing.                          *)
(*                                                                         *)
(* An entry of the page is a sequence of one leaf block or, for a row, of  *)
(* two.  Of a block's fields one fact is kept, whether the validator takes *)
(* them all; of its collection, the ids.  A row's ratio and the order      *)
(* inside a collection are presentation and are left out.                  *)
(***************************************************************************)
EXTENDS Naturals, FiniteSets, SequencesExt

CONSTANTS
  BlockTypes,     \* the block types in use
  MinItems,       \* [BlockTypes -> Nat]: items a finished block of a type has
  MaxItems,       \* MAX_COLLECTION_ITEMS
  MaxBlocks,      \* MAX_BLOCKS
  MaxFeatured,    \* MAX_FEATURED_PROJECT_BLOCKS
  NoUndo, NoSnapshotYet,
  MaxIds,         \* bound on the ids the generator hands out
  MaxResets       \* bound on the resets; after the last, nothing is published

\* A leaf block: filled is whether the validator takes all its fields.
Block == [id : Nat, type : BlockTypes, filled : BOOLEAN, items : SUBSET Nat]

\* The limit of featured projects is 1.  Beyond 2 a row of two of them could be
\* duplicated with room for one left (see CanDuplicate).
ASSUME EditorDocumentAssumption ==
  /\ MinItems \in [BlockTypes -> Nat]
  /\ {MaxItems, MaxBlocks, MaxFeatured, MaxIds, MaxResets} \subseteq Nat
  /\ MaxFeatured <= 2
  /\ \A type \in BlockTypes : MinItems[type] <= MaxItems
  /\ NoUndo \notin [block : Block, index : Nat]

VARIABLES
  blocks,       \* documentRef.current.blocks
  frameFilled,  \* the validator takes the frame's fields
  selected,     \* selectedBlockId, or what the inspector shows without one
  undoable,     \* the hook's undoable deletion
  transients,   \* richTextTransients: blocks whose typing is no document yet
  adding,       \* the inspector's form for another gallery picture is open
  replacing,    \* a confirmed reset awaits its answer
  live,         \* the blocks of the published snapshot, its frame is valid
  issued,       \* ids handed out so far: crypto.randomUUID never repeats
  resets

documentVars ==
  <<blocks, frameFilled, selected, undoable, transients, adding, replacing, live, issued, resets>>

Frame == 0          \* the profile header; block ids count from 1
Nothing == MaxIds + 1

-----------------------------------------------------------------------------
(* Reading a document (member-page-entries.ts). *)

LeafPlaces(doc) == UNION {{<<i, s>> : s \in DOMAIN doc[i]} : i \in DOMAIN doc}
LeafAt(doc, place) == doc[place[1]][place[2]]
LeafSet(doc) == {LeafAt(doc, place) : place \in LeafPlaces(doc)}
LeafIds(doc) == {leaf.id : leaf \in LeafSet(doc)}
Leaf(doc, id) == CHOOSE leaf \in LeafSet(doc) : leaf.id = id
IsRow(entry) == Len(entry) = 2
EntryIndexOf(doc, id) == CHOOSE i \in DOMAIN doc : \E s \in DOMAIN doc[i] : doc[i][s].id = id
SideOf(entry, id) == CHOOSE s \in DOMAIN entry : entry[s].id = id
Size(doc) == Cardinality(LeafPlaces(doc))
Count(doc, type) == Cardinality({place \in LeafPlaces(doc) : LeafAt(doc, place).type = type})

IsFeatured(leaf) == leaf.type = "featuredProject"
HasRoomFor(doc, leaves) == Size(doc) + leaves <= MaxBlocks
CanAddFeaturedProject(doc) == HasRoomFor(doc, 1) /\ Count(doc, "featuredProject") < MaxFeatured
CanAdd(doc, leaf) == HasRoomFor(doc, 1) /\ (IsFeatured(leaf) => CanAddFeaturedProject(doc))

(* The shared validator: its structural rules, the fields themselves and how *)
(* many pictures a gallery has.  An id names one block or one item.          *)
IsGallery(leaf) == leaf.type = "gallery"
Overfull(leaf) == Cardinality(leaf.items) > MaxItems
ItemsFit(leaf) ==
  /\ MinItems[leaf.type] = 0 => Cardinality(leaf.items) = 0
  /\ MinItems[leaf.type] <= Cardinality(leaf.items)
  /\ ~IsGallery(leaf) => ~Overfull(leaf)
Names(leaf) == {leaf.id} \cup leaf.items
IdsUnique(doc) ==
  /\ \A leaf \in LeafSet(doc) : leaf.id \notin leaf.items
  /\ \A p, q \in LeafPlaces(doc) : p # q => Names(LeafAt(doc, p)) \cap Names(LeafAt(doc, q)) = {}
Structured(doc) ==
  /\ Size(doc) <= MaxBlocks
  /\ \A i \in DOMAIN doc : Len(doc[i]) \in {1, 2}
  /\ \A leaf \in LeafSet(doc) : ItemsFit(leaf)
  /\ IdsUnique(doc)
  /\ Count(doc, "featuredProject") <= MaxFeatured
InvalidIds(doc) == {id \in LeafIds(doc) : ~Leaf(doc, id).filled \/ Overfull(Leaf(doc, id))}
FrameErrors == IF frameFilled THEN {} ELSE {Frame}

\* The first leaf of the page among those a summary names.
First(doc, ids) ==
  LET named == {place \in LeafPlaces(doc) : LeafAt(doc, place).id \in ids}
      first == CHOOSE p \in named : \A q \in named : p[1] < q[1] \/ (p[1] = q[1] /\ p[2] <= q[2])
  IN  LeafAt(doc, first).id

-----------------------------------------------------------------------------
(* document-ops.ts: each operation returns a new document. *)

Within(doc, i, leaf) == InsertAt(doc, i, <<leaf>>)
At(doc, i) == IF i > Len(doc) + 1 THEN Len(doc) + 1 ELSE i     \* clampIndex

\* A block and its items copied under the next ids.
Copy(leaf, next) ==
  [leaf EXCEPT !.id = next + 1, !.items = {next + 1 + k : k \in 1..Cardinality(leaf.items)}]
IdsOf(leaf) == 1 + Cardinality(leaf.items)
CopyEntry(entry, next) ==
  IF IsRow(entry)
    THEN <<Copy(entry[1], next), Copy(entry[2], next + IdsOf(entry[1]))>>
    ELSE <<Copy(entry[1], next)>>
IdsOfEntry(entry) == IF IsRow(entry) THEN IdsOf(entry[1]) + IdsOf(entry[2]) ELSE IdsOf(entry[1])

CanDuplicate(doc, entry) ==
  /\ HasRoomFor(doc, Len(entry))
  /\ (\E s \in DOMAIN entry : IsFeatured(entry[s])) => Count(doc, "featuredProject") < MaxFeatured

\* Deleting one side of a row leaves the other side as an entry of its own.
Without(doc, id) ==
  LET i == EntryIndexOf(doc, id) IN
  IF IsRow(doc[i]) THEN ReplaceAt(doc, i, RemoveAt(doc[i], SideOf(doc[i], id)))
                   ELSE RemoveAt(doc, i)
Moved(doc, from, to) == InsertAt(RemoveAt(doc, from), to, doc[from])
Paired(doc, i) == ReplaceAt(RemoveAt(doc, i + 1), i, doc[i] \o doc[i + 1])
Split(doc, i) == InsertAt(ReplaceAt(doc, i, <<doc[i][2]>>), i, <<doc[i][1]>>)
Swapped(doc, i) == ReplaceAt(doc, i, Reverse(doc[i]))
Replaced(doc, leaf) ==
  [i \in DOMAIN doc |-> [s \in DOMAIN doc[i] |-> IF doc[i][s].id = leaf.id THEN leaf ELSE doc[i][s]]]
RestoreAnyway(undo) == undo.block.id \notin LeafIds(blocks)
CanRestore(undo) == CanAdd(blocks, undo.block)

-----------------------------------------------------------------------------
DocumentInit ==
  /\ blocks = <<>> /\ live \in {<<>>, NoSnapshotYet}
  /\ frameFilled = TRUE
  /\ selected = Frame
  /\ undoable = NoUndo
  /\ transients = {} /\ adding = FALSE
  /\ replacing = FALSE
  /\ issued = 0 /\ resets = 0

Untouched == UNCHANGED <<frameFilled, replacing, live, resets>>

\* The inspector is rendered without a key: when another gallery takes the place
\* of the one inspected, the form that was open stays open.
Inspect(id) ==
  /\ selected' = id
  /\ adding' = (adding /\ id \in LeafIds(blocks') /\ IsGallery(Leaf(blocks', id)))

\* The add panel hands over a finished block; it goes to the end of the page.
\* The panel stands where the inspector was.
AddBlock(type) ==
  LET leaf == [id |-> issued + 1, type |-> type, filled |-> TRUE,
               items |-> {issued + 1 + k : k \in 1..MinItems[type]}]
  IN /\ CanAdd(blocks, leaf)
     /\ issued + IdsOf(leaf) <= MaxIds
     /\ blocks' = Append(blocks, <<leaf>>)
     /\ selected' = leaf.id /\ adding' = FALSE
     /\ issued' = issued + IdsOf(leaf)
     /\ UNCHANGED <<undoable, transients>> /\ Untouched

DuplicateBlock(id) ==
  LET i == EntryIndexOf(blocks, id)
      copy == CopyEntry(blocks[i], issued)
  IN /\ CanDuplicate(blocks, blocks[i])
     /\ issued + IdsOfEntry(blocks[i]) <= MaxIds
     /\ blocks' = InsertAt(blocks, i + 1, copy)
     /\ Inspect(copy[SideOf(blocks[i], id)].id)
     /\ issued' = issued + IdsOfEntry(blocks[i])
     /\ UNCHANGED <<undoable, transients>> /\ Untouched

\* The shell selects what took the place of the deleted block.
DeleteBlock(id) ==
  LET i == EntryIndexOf(blocks, id)
      rest == Without(blocks, id)
      next == IF i > Len(rest) THEN Len(rest) ELSE i
  IN /\ blocks' = rest
     /\ undoable' = [block |-> Leaf(blocks, id), index |-> i]
     /\ Inspect(IF rest = <<>> THEN Frame ELSE rest[next][1].id)
     /\ UNCHANGED <<transients, issued>> /\ Untouched

UndoDelete ==
  /\ undoable # NoUndo
  /\ CanRestore(undoable)
  /\ blocks' = Within(blocks, At(blocks, undoable.index), undoable.block)
  /\ Inspect(undoable.block.id)
  /\ undoable' = NoUndo
  /\ UNCHANGED <<transients, issued>> /\ Untouched

DismissUndo ==
  /\ undoable # NoUndo
  /\ undoable' = NoUndo
  /\ UNCHANGED <<blocks, selected, transients, adding, issued>> /\ Untouched

Rearrange(doc, id) ==
  /\ blocks' = doc
  /\ Inspect(id)
  /\ UNCHANGED <<undoable, transients, issued>> /\ Untouched

MoveBlock(id) ==
  LET i == EntryIndexOf(blocks, id) IN
  \E j \in DOMAIN blocks \cap {i - 1, i + 1} : Rearrange(Moved(blocks, i, j), id)

\* A row has no id of its own: it is dragged by its first block.
ReorderBlock(i, j) == i # j /\ Rearrange(Moved(blocks, i, j), blocks[i][1].id)

PairBlocks(id) ==
  LET i == EntryIndexOf(blocks, id) IN
  /\ ~IsRow(blocks[i])
  /\ \E start \in {i - 1, i} :
       /\ {start, start + 1} \subseteq DOMAIN blocks
       /\ ~IsRow(blocks[start]) /\ ~IsRow(blocks[start + 1])
       /\ Rearrange(Paired(blocks, start), id)

SplitRow(id) ==
  LET i == EntryIndexOf(blocks, id) IN
  IsRow(blocks[i]) /\ Rearrange(Split(blocks, i), id)

SwapRowSides(id) ==
  LET i == EntryIndexOf(blocks, id) IN
  IsRow(blocks[i]) /\ Rearrange(Swapped(blocks, i), id)

-----------------------------------------------------------------------------
(* The inspector edits the selected block. *)

UpdateBlock(leaf) ==
  /\ blocks' = Replaced(blocks, leaf)
  /\ UNCHANGED <<selected, undoable, transients>> /\ Untouched

\* A project of HAM has nothing to fill in, one from outside begins with empty
\* fields; text is stored as it is typed.
EditProject(id) ==
  /\ Leaf(blocks, id).type = "featuredProject"
  /\ UpdateBlock([Leaf(blocks, id) EXCEPT !.filled = ~@])
  /\ UNCHANGED <<adding, issued>>

\* A gallery stays filled: another picture is taken over only when it is ready
\* and described.
EditLink(id) ==
  /\ Leaf(blocks, id).type = "additionalLinks"
  /\ \E filled \in BOOLEAN : UpdateBlock([Leaf(blocks, id) EXCEPT !.filled = filled])
  /\ UNCHANGED <<adding, issued>>

EditFrame ==
  /\ selected = Frame
  /\ frameFilled' = ~frameFilled
  /\ UNCHANGED <<blocks, selected, undoable, transients, adding, replacing, live, issued, resets>>

\* A project or a link is added at once; a link begins with empty fields.
AddItem(id) ==
  LET leaf == Leaf(blocks, id) IN
  /\ MinItems[leaf.type] > 0 /\ ~IsGallery(leaf)
  /\ Cardinality(leaf.items) < MaxItems
  /\ issued < MaxIds /\ issued' = issued + 1
  /\ UpdateBlock([leaf EXCEPT !.items = @ \cup {issued + 1},
                              !.filled = @ /\ leaf.type # "additionalLinks"])
  /\ UNCHANGED adding

\* A picture is prepared in a form first; how many the gallery has is asked when
\* the form is opened, and not of the gallery it is confirmed for.
OpenForm(id) ==
  /\ IsGallery(Leaf(blocks, id)) /\ Cardinality(Leaf(blocks, id).items) < MaxItems
  /\ ~adding /\ adding' = TRUE
  /\ UNCHANGED <<blocks, selected, undoable, transients, issued>> /\ Untouched

AddPicture(id) ==
  LET leaf == Leaf(blocks, id) IN
  /\ adding /\ adding' = FALSE
  /\ IsGallery(leaf) /\ MinItems[leaf.type] > 0
  /\ issued < MaxIds /\ issued' = issued + 1
  /\ UpdateBlock([leaf EXCEPT !.items = @ \cup {issued + 1}])

CancelForm ==
  /\ adding /\ adding' = FALSE
  /\ UNCHANGED <<blocks, selected, undoable, transients, issued>> /\ Untouched

\* An item takes its fields with it, and may have been the one that failed.
RemoveItem(id) ==
  LET leaf == Leaf(blocks, id) IN
  /\ Cardinality(leaf.items) > MinItems[leaf.type]
  /\ \E item \in leaf.items, filled \in {leaf.filled, TRUE} :
       UpdateBlock([leaf EXCEPT !.items = @ \ {item}, !.filled = filled])
  /\ UNCHANGED <<adding, issued>>

\* Rich text the validator would not take stays beside the document.
TypeRichText(id) ==
  /\ Leaf(blocks, id).type = "richText"
  /\ transients' \in {transients \cup {id}, transients \ {id}}
  /\ transients' # transients
  /\ UNCHANGED <<blocks, selected, undoable, adding, issued>> /\ Untouched

Select(id) ==
  /\ selected # id
  /\ UNCHANGED blocks /\ Inspect(id)
  /\ UNCHANGED <<undoable, transients, issued>> /\ Untouched

-----------------------------------------------------------------------------
(* Publishing, and the reset to the live page. *)

\* handlePublish stops at the first region that needs attention.
Unfinished == {id \in transients \cap LeafIds(blocks) : Leaf(blocks, id).type = "richText"}
Complaints == FrameErrors \cup InvalidIds(blocks) \cup Unfinished
FirstToFix ==
  IF FrameErrors # {} THEN Frame
  ELSE First(blocks, IF InvalidIds(blocks) # {} THEN InvalidIds(blocks) ELSE Unfinished)
PublishRefused ==
  /\ Complaints # {} /\ FirstToFix # selected
  /\ UNCHANGED blocks /\ Inspect(FirstToFix)
  /\ UNCHANGED <<undoable, transients, issued>> /\ Untouched
Publish ==
  /\ Complaints = {}
  /\ ~replacing /\ resets < MaxResets
  /\ live # blocks
  /\ live' = blocks
  /\ UNCHANGED <<blocks, frameFilled, selected, undoable, transients, adding, replacing, issued, resets>>

ConfirmReplacement ==
  /\ live # NoSnapshotYet /\ ~replacing /\ resets < MaxResets
  /\ replacing' = TRUE /\ resets' = resets + 1
  /\ UNCHANGED <<blocks, frameFilled, selected, undoable, transients, adding, live, issued>>

\* The page is replaced, and what belonged to the old one is forgotten.
ForgetDeletion == NoUndo
PageIsReplaced ==
  /\ replacing /\ replacing' = FALSE
  /\ blocks' = live /\ frameFilled' = TRUE
  /\ selected' = IF selected = Frame THEN Frame ELSE Nothing
  /\ undoable' = ForgetDeletion
  /\ transients' = {} /\ adding' = FALSE
  /\ UNCHANGED <<live, issued, resets>>

ReplacementFails ==
  /\ replacing /\ replacing' = FALSE
  /\ UNCHANGED <<blocks, frameFilled, selected, undoable, transients, adding, live, issued, resets>>

OwnerEdits(id) ==
  \/ DuplicateBlock(id)
  \/ DeleteBlock(id)
  \/ MoveBlock(id)
  \/ PairBlocks(id)
  \/ SplitRow(id)
  \/ SwapRowSides(id)
  \/ Select(id)
  \/ /\ id = selected
     /\ \/ EditProject(id) \/ EditLink(id) \/ TypeRichText(id)
        \/ AddItem(id) \/ RemoveItem(id) \/ OpenForm(id) \/ AddPicture(id)

DocumentNext ==
  \/ \E type \in BlockTypes : AddBlock(type)
  \/ \E id \in LeafIds(blocks) : OwnerEdits(id)
  \/ \E i, j \in DOMAIN blocks : ReorderBlock(i, j)
  \/ UndoDelete
  \/ DismissUndo
  \/ Select(Frame)
  \/ EditFrame
  \/ CancelForm
  \/ PublishRefused
  \/ Publish
  \/ ConfirmReplacement
  \/ PageIsReplaced
  \/ ReplacementFails

-----------------------------------------------------------------------------
(* Whatever the owner does, in whatever order, and whenever a reset lands,   *)
(* the validator can only object to a field of the document that autosave    *)
(* sends, or to a gallery having too many pictures; never to its structure   *)
(* (document-ops.ts:18-20, 272-275).                                         *)
OnlyFieldsCanBeWrong == Structured(blocks)

(* The selection is the frame, nothing, or a block that is on the page, so   *)
(* the inspector never edits a block that is gone.                           *)
SelectionIsOnThePage == selected \in LeafIds(blocks) \cup {Frame, Nothing}

(* Only a deletion takes a block off the page, one at a time, and it stays   *)
(* in Undo; a reset takes only what the live page does not have.             *)
NothingVanishes ==
  LET gone == LeafIds(blocks) \ LeafIds(blocks') IN
  gone # {} => \/ undoable' # NoUndo /\ gone = {undoable'.block.id}
               \/ replacing /\ blocks' = live
DocumentKeepsBlocks == [][NothingVanishes]_documentVars
=============================================================================
