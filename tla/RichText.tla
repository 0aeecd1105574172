-------------------------------- MODULE RichText --------------------------------
(***************************************************************************)
(* Is a value one rich-text document, and which?  parseRichTextDoc of      *)
(* src/lib/members/v2/rich-text.ts walks the tree of a value in document   *)
(* order, with counters of nodes and characters for the whole of it; the   *)
(* editor takes the attributes of its own off first (rich-text-adapter.ts).*)
(* A value is the sequence of its nodes in document order, each with its   *)
(* depth (the doc has 1): a behaviour of this module is one value, read    *)
(* node by node.                                                           *)
(*                                                                         *)
(* A node has a kind, or is "other"; text has its characters, whether they *)
(* are all white space, and its marks; extra says what else is there:      *)
(* nothing, attributes TipTap keeps for itself, or something nobody asked  *)
(* for (an unknown key or attribute, a heading level, a URL or characters  *)
(* that are refused).  What is under a node that is refused is left out:   *)
(* the parser looks below some of them, but only to say more.              *)
(***************************************************************************)
EXTENDS Naturals, SequencesExt, FiniteSetsExt

CONSTANTS
  MaxDepth, MaxNodes, MaxChars,  \* RICH_TEXT_MAX_DEPTH, _NODES and _TEXT_CHARS
  Nodes,       \* bound: the nodes values are made of, before they have a depth
  MaxGiven     \* bound on the nodes of a value, its doc aside

TextMarks == {"bold", "italic", "link"}
Node == [kind : STRING, depth : Nat, extra : {"none", "editor", "foreign"}, chars : Nat,
         blank : BOOLEAN, marks : Seq(TextMarks), align : {"none", "left", "center", "right"}]

\* Only text has characters and marks.
ASSUME RichTextAssumption ==
  /\ {MaxDepth, MaxNodes, MaxChars, MaxGiven} \subseteq Nat /\ MaxNodes # 0
  /\ Nodes \subseteq Node
  /\ \A node \in Nodes : node.kind # "text" => node.chars = 0 /\ node.marks = <<>>

VARIABLES
  from,        \* who hands the value over: the "editor", or the "server" reads it
  given,       \* the nodes so far
  ancestors,   \* the nodes the parser is in, the doc first
  nodeCount, textChars, complaint,   \* ParseState: errors is empty or not
  kept,        \* the nodes of the document parsed
  parsed       \* "reading", then "success" or "errors"

proseVars == <<from, given, ancestors, nodeCount, textChars, complaint, kept, parsed>>

TextBlocks == {"paragraph", "heading"}
Lists == {"bulletList", "orderedList"}
BlockNodes == TextBlocks \cup Lists \cup {"blockquote"}

\* What may be directly inside a node.
ContentOf(kind) ==
  CASE kind \in TextBlocks -> {"text"}
    [] kind \in Lists      -> {"listItem"}
    [] OTHER               -> BlockNodes

\* A node of kind k with nothing special about it.
Plain(k) == [kind |-> k, depth |-> 0, extra |-> "none", chars |-> IF k = "text" THEN 1 ELSE 0,
             blank |-> FALSE, marks |-> <<>>, align |-> "none"]

Opened(kind) == [kind |-> kind, filled |-> FALSE, inked |-> FALSE]

RichTextInit ==
  /\ from \in {"editor", "server"}
  /\ given = <<>> /\ kept = <<>>
  /\ ancestors = <<Opened("doc")>>
  /\ nodeCount = 1 /\ textChars = 0
  /\ complaint = FALSE /\ parsed = "reading"

\* normalizeTipTapNode: the editor's own attributes go, an unknown thing stays
\* and is refused.
WithoutEditorAttributes(node) ==
  IF from = "editor" /\ node.extra = "editor" THEN [node EXCEPT !.extra = "none"] ELSE node

EntersNode(node) == node.depth <= MaxDepth /\ nodeCount < MaxNodes
TextFits(node) == textChars + node.chars <= MaxChars
MarksParse(marks) == Len(marks) <= 3 /\ IsInjective(marks)
Sorted(marks) ==
  LET Taken(mark) == IF mark \in ToSet(marks) THEN <<mark>> ELSE <<>>
  IN  Taken("bold") \o Taken("italic") \o Taken("link")

\* The node as it is stored: marks in one order, left alignment not at all.
Stored(node) ==
  [node EXCEPT !.marks = Sorted(@), !.align = IF @ = "left" THEN "none" ELSE @]

ParsesAs(node, parent) ==
  /\ EntersNode(node)
  /\ node.kind \in ContentOf(parent.kind) /\ node.extra = "none"
  /\ node.kind = "text" => TextFits(node) /\ MarksParse(node.marks)

\* A node is left when the next one is not below it: none may be empty, and a
\* paragraph or heading not all white space.
LeftWanting(node) == ~node.filled \/ (node.kind \in TextBlocks /\ ~node.inked)

ParseNode(handed) ==
  LET node   == WithoutEditorAttributes(handed)
      depth  == node.depth
      parent == ancestors[depth - 1]
      parses == ParsesAs(node, parent)
      inks   == parses /\ node.kind = "text" /\ ~node.blank
      below  == IF parses /\ node.kind # "text" THEN <<Opened(node.kind)>> ELSE <<>>
  IN /\ given' = Append(given, handed)
     /\ nodeCount' = IF depth <= MaxDepth THEN nodeCount + 1 ELSE nodeCount
     /\ textChars' = IF EntersNode(node) /\ node.kind = "text" /\ parent.kind \in TextBlocks
                     THEN textChars + node.chars ELSE textChars
     /\ complaint' = \/ complaint
                     \/ ~parses
                     \/ \E i \in depth..Len(ancestors) : LeftWanting(ancestors[i])
     /\ ancestors' = SubSeq(ancestors, 1, depth - 2)
                       \o <<[parent EXCEPT !.filled = TRUE, !.inked = @ \/ inks]>> \o below
     /\ kept' = IF parses THEN Append(kept, Stored(node)) ELSE kept

ReadNode ==
  /\ parsed = "reading" /\ Len(given) < MaxGiven
  /\ \E depth \in 2..Len(ancestors) + 1 : \E node \in Nodes :
       ParseNode([node EXCEPT !.depth = depth])
  /\ UNCHANGED <<from, parsed>>

\* parseRichTextDoc's result, with the nodes still open left.
FinishParsing ==
  /\ parsed = "reading"
  /\ parsed' = IF complaint \/ \E i \in DOMAIN ancestors : LeftWanting(ancestors[i])
               THEN "errors" ELSE "success"
  /\ UNCHANGED <<from, given, ancestors, nodeCount, textChars, complaint, kept>>

RichTextNext == ReadNode \/ FinishParsing

-----------------------------------------------------------------------------
(* The rules of a document, said of the whole sequence. *)

NodeAbove(doc, i) ==
  LET above == {j \in 1..i - 1 : doc[j].depth = doc[i].depth - 1}
  IN IF above = {} THEN 0 ELSE Max(above)
Inside(doc, i) == {j \in i + 1..Len(doc) : NodeAbove(doc, j) = i}
KindAt(doc, i) == IF i = 0 THEN "doc" ELSE doc[i].kind

CharsIn(doc) ==
  LET upTo[n \in 0..Len(doc)] == IF n = 0 THEN 0 ELSE upTo[n - 1] + doc[n].chars
  IN  upTo[Len(doc)]

NodeIsAllowed(doc, extras, i) ==
  /\ doc[i].depth <= MaxDepth /\ doc[i].extra \in extras
  /\ doc[i].kind \in ContentOf(KindAt(doc, NodeAbove(doc, i)))
  /\ \A p, q \in DOMAIN doc[i].marks : doc[i].marks[p] = doc[i].marks[q] => p = q
HasContent(doc, i) ==
  \E j \in Inside(doc, i) : KindAt(doc, i) \in TextBlocks => ~doc[j].blank

WithinRules(doc, extras) ==
  /\ Len(doc) + 1 <= MaxNodes
  /\ CharsIn(doc) <= MaxChars
  /\ \A i \in DOMAIN doc : NodeIsAllowed(doc, extras, i)
  /\ \A i \in 0..Len(doc) : KindAt(doc, i) # "text" => HasContent(doc, i)

ExtrasOf(writer) == IF writer = "editor" THEN {"none", "editor"} ELSE {"none"}

\* The same node in another guise: the order of marks, left or no alignment.
SameProse(node, other) ==
  /\ ToSet(node.marks) = ToSet(other.marks)
  /\ node.align = other.align \/ {node.align, other.align} = {"none", "left"}
  /\ [other EXCEPT !.marks = node.marks, !.align = node.align, !.extra = node.extra] = node
OneForm(node) ==
  /\ node.align # "left"
  /\ \A p, q \in DOMAIN node.marks : p < q =>
       <<node.marks[p], node.marks[q]>> \in {<<"bold", "italic">>, <<"bold", "link">>, <<"italic", "link">>}

(* A value is taken exactly when it keeps every rule and limit, wherever in  *)
(* the tree one is passed; what is stored is all of it, in the one form that *)
(* makes equal documents compare equal, and the server reads what an editor  *)
(* stored back.                                                              *)
ProseIsKept ==
  parsed # "reading" =>
    /\ (parsed = "success") <=> WithinRules(given, ExtrasOf(from))
    /\ parsed = "success" =>
         /\ Len(kept) = Len(given) /\ WithinRules(kept, ExtrasOf("server"))
         /\ \A i \in DOMAIN kept : SameProse(kept[i], given[i]) /\ OneForm(kept[i])
=============================================================================
