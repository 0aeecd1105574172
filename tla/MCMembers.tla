------------------------------- MODULE MCMembers -------------------------------
(***************************************************************************)
(* What a member does in the browser, on a small instance.  The machines   *)
(* share no state, so one run checks them side by side: the first step of  *)
(* a behaviour is the choice of a machine, and the variables of the others *)
(* keep one initial value.  The document is checked three times: with text *)
(* and links, published and reset; and, before the first publication, with *)
(* collections and with enough blocks for two rows.                        *)
(***************************************************************************)
EXTENDS Documents, PageSession, SignIn, Pictures, TLC

CONSTANTS d1, d2, m1, m2, t1, t2, a1, a2, r1, r2

VARIABLE picked

MCMinItems == [type \in BlockTypes |->
  CASE type = "gallery" -> 1 [] type = "additionalLinks" -> 1 [] OTHER -> 0]
MCInOrder == TRUE

\* Only sign-in knows the members and the tabs, only the uploads the assets and the
\* refreshes, and they treat them all alike.
MCSymmetry == UNION {Permutations({m1, m2}), Permutations({t1, t2}), Permutations({a1, a2}),
                     Permutations({r1, r2})}

Documents == {"collections", "texts", "rows"}
Machines == Documents \cup {"session", "sign-in", "uploads", "images", "verification", "prose"}
TypesOf(machine) ==
  CASE machine = "collections" -> {"featuredProject", "gallery"}
    [] machine = "texts"       -> {"richText", "additionalLinks"}
    [] machine = "rows"        -> {"richText"}
IdsFor(machine) == CASE machine = "collections" -> 6 [] machine = "texts" -> 3 [] machine = "rows" -> 4

\* Of the three bounds on a session, two are used up at once: two troubles with
\* one publication, or one with two.
MCTroubleAndTokens == 3

\* Once an answer was lost or an upload ran out, nothing goes on beside it.
UnderWay == Cardinality({r \in Refreshes : listings[r] # NoListing})
              + Cardinality({upload, asking} \ {NoUpload, NoCall})

\* Only a run that is under way or waits notices that an upload ran out which is
\* not pending any more.
Wanted == {run.asset : run \in {upload, failed} \ {NoUpload}}

\* The files: every sequence of parts up to these lengths, but a meta box with
\* something unusual in it only where the boxes around it are the usual ones.
MCMaxParts == [png |-> 5, webp |-> 5, jpeg |-> 5, avif |-> 3]
MCMaxRest == [png |-> 5, webp |-> 3, jpeg |-> 5, avif |-> 0]
MCMaxEntries == [png |-> 4, webp |-> 4, jpeg |-> 4, avif |-> 3]

UsualExtent == [method |-> 0, inside |-> TRUE, elsewhere |-> FALSE]
UsualMeta ==
  [children |-> [child \in Required |-> 1], idats |-> 0, known |-> TRUE, pict |-> TRUE,
   primary |-> 1,
   items |-> <<[id |-> 1, type |-> "av01"]>>,
   locations |-> <<[id |-> 1, extents |-> <<UsualExtent>>]>>,
   sizes |-> <<TRUE>>,
   associations |-> <<[item |-> 1, property |-> 1, essential |-> TRUE]>>]

UpTo(n, S) == UNION {[1..k -> S] : k \in 0..n}

MCMetas ==
  LET items == UpTo(2, [id : 0..2, type : {"av01", "Exif", "grid"}])
      extents == [method : 0..2, inside : BOOLEAN, elsewhere : BOOLEAN]
      places == {<<>>} \cup [{1} -> extents] \cup {<<UsualExtent, e>> : e \in extents}
      associations == UpTo(2, [item : 1..2, property : 1..2, essential : BOOLEAN])
      sizes == {<<>>, <<TRUE>>, <<FALSE, TRUE>>, <<TRUE, TRUE>>}
  IN  {[UsualMeta EXCEPT !.children[c] = n] : c \in Required, n \in 0..2}
      \cup {[UsualMeta EXCEPT !.known = FALSE], [UsualMeta EXCEPT !.pict = FALSE]}
      \cup {[UsualMeta EXCEPT !.items = i] : i \in items}
      \cup {[UsualMeta EXCEPT !.items = i, !.primary = 2] : i \in {j \in items : Len(j) < 2}}
      \cup {[UsualMeta EXCEPT !.items = @ \o [i \in 1..3 |-> [id |-> i + 1, type |-> "Exif"]]],
            [UsualMeta EXCEPT !.locations[1].extents = [i \in 1..4 |-> UsualExtent]]}
      \cup {[UsualMeta EXCEPT !.items[1].id = 0, !.locations[1].id = 0, !.primary = 0]}
      \cup {[UsualMeta EXCEPT !.locations[1].extents = es, !.idats = n] : es \in places, n \in 0..2}
      \cup {[UsualMeta EXCEPT !.locations = Append(@, [id |-> i, extents |-> es])] :
              i \in 0..2, es \in places}
      \cup {[UsualMeta EXCEPT !.sizes = s, !.associations = a] :
              s \in {t \in sizes : Len(t) = 2}, a \in associations}
      \cup {[UsualMeta EXCEPT !.sizes = s, !.associations = a] :
              s \in sizes, a \in {b \in associations : Len(b) < 2}}

UsualBoxes(parts) ==
  \A i, j \in DOMAIN parts :
    parts[i].kind = "meta" /\ parts[i].meta # UsualMeta =>
      /\ parts[j].whole
      /\ parts[j].says = (IF j = 1 THEN {"avif"} ELSE {})
      /\ j # i => parts[j].kind \in {"ftyp", "mdat"}

\* The rich-text values: at most one node that is odd, and at most one that is
\* refused, with little more after it.
MCMaxAfterComplaint == 4
UsualNodes == {Plain(k) : k \in {"text", "paragraph", "bulletList", "listItem", "blockquote"}}
MCNodes ==
  UsualNodes
  \cup {Plain(k) : k \in {"heading", "orderedList", "other"}}
  \cup {[Plain(k) EXCEPT !.extra = e] :
          k \in {"text", "paragraph", "orderedList", "listItem"}, e \in {"editor", "foreign"}}
  \cup {[Plain(k) EXCEPT !.align = a] : k \in TextBlocks, a \in {"left", "center"}}
  \cup {[Plain("text") EXCEPT !.chars = 2], [Plain("text") EXCEPT !.blank = TRUE]}
  \cup {[Plain("text") EXCEPT !.marks = m] :
          m \in {<<"link", "bold">>, <<"bold", "bold">>, <<"italic", "bold", "link">>}}

OneOddity(nodes) ==
  /\ Cardinality({i \in DOMAIN nodes : [nodes[i] EXCEPT !.depth = 0] \notin UsualNodes}) <= 1
  /\ Len(nodes) <= Len(kept') + 1
  /\ complaint /\ nodes # given => Len(nodes) <= MCMaxAfterComplaint

MCInit ==
  /\ picked \in Machines
  /\ DocumentInit /\ (picked # "texts" => live = NoSnapshotYet)
  /\ SessionInit
  /\ draft = CHOOSE d \in Docs : TRUE
  /\ (picked # "session" => token = 0)
  /\ SignInInit
  /\ UploadsInit
  /\ ImagesInit /\ (picked # "images" => format = "png")
  /\ VerificationInit
  /\ (picked # "verification" => atKey = NoContent /\ byteLength = 1)
  /\ RichTextInit /\ (picked # "prose" => from = "server")

others(machine) ==
  /\ UNCHANGED picked
  /\ machine \notin Documents => UNCHANGED documentVars
  /\ machine # "session" => UNCHANGED sessionVars
  /\ machine # "sign-in" => UNCHANGED signInVars
  /\ machine # "uploads" => UNCHANGED uploadVars
  /\ machine # "images" => UNCHANGED imageVars
  /\ machine # "verification" => UNCHANGED verifyVars
  /\ machine # "prose" => UNCHANGED proseVars

MCNext ==
  \/ /\ picked \in Documents /\ DocumentNext /\ others(picked)
     /\ \A leaf \in LeafSet(blocks') : leaf.type \in TypesOf(picked)
     /\ issued' <= IdsFor(picked)
     /\ IF picked = "texts" THEN frameFilled' /\ Cardinality(transients') <= 1
                            ELSE live' = NoSnapshotYet
  \/ /\ picked = "session" /\ SessionNext /\ others("session")
     /\ trouble' + token' <= MCTroubleAndTokens
  \/ picked = "sign-in" /\ SignInNext /\ others("sign-in")
  \/ /\ picked = "uploads" /\ UploadsNext /\ others("uploads")
     /\ (unheard' = 0 /\ expired' = {}) \/ UnderWay' < MaxUnderWay
     /\ expired' \ expired \subseteq allocated \cup Wanted
  \/ picked = "images" /\ ImagesNext /\ UsualBoxes(read') /\ others("images")
  \/ picked = "verification" /\ VerificationNext /\ others("verification")
  \/ picked = "prose" /\ RichTextNext /\ OneOddity(given') /\ others("prose")

MCSpec ==
  MCInit /\ [][MCNext]_<<picked, documentVars, sessionVars, signInVars, uploadVars,
                     imageVars, verifyVars, proseVars>>
=============================================================================
