----------------------------- MODULE EditorProofs -----------------------------
(***************************************************************************)
(* Proofs about the owner editor, for any number of documents, blocks,     *)
(* nodes, revisions and troubles.  Alone (PageEditor), whatever the server *)
(* answers and in whatever order, it loses no edit, strands none and       *)
(* publishes none that it has not stored.  With the page (PageSession),    *)
(* over a network that loses and delays, others at the same page and a tab *)
(* that is reloaded, "saved" is true and no draft the tab has not read is  *)
(* replaced or published by it.  The document on its workbench (Documents) *)
(* keeps its structure and its blocks, and the rich text in them is taken  *)
(* exactly when it keeps the rules, and stored whole.                      *)
(***************************************************************************)
EXTENDS PageSession, Documents, FiniteSetTheorems, SequenceTheorems,
        WellFoundedInduction, TLAPS

(***************************************************************************)
(* The editor alone.                                                       *)
(***************************************************************************)
(* The steps of the editor under any server: answers in any order, with any  *)
(* revision and token.  PageSession has a server of its own.                 *)
SaveHeard ==
  \/ \E newRev \in 0..MaxRev : SaveAccepted(newRev)
  \/ SaveConflicts \/ SaveInvalid \/ SaveFails
SaveHeardBeforeReset ==
  \/ \E newRev \in 0..MaxRev : SaveAcceptedBeforeReset(newRev)
  \/ SaveRefusedBeforeReset
CallHeard ==
  \/ \E newToken \in 0..MaxToken : PublishDone(newToken)
  \/ PublishConflicts \/ UnpublishDone \/ TransitionRefused
  \/ \E newRev \in 0..MaxRev, d \in Docs : ResetDone(newRev, d)
  \/ ResetConflicts \/ ResetFails
EditorSteps ==
  \/ OwnerActs \/ TimerFires \/ Pause \/ Resume
  \/ SaveHeard \/ SaveHeardBeforeReset \/ CallHeard

\* The model's own server is one of the servers.
LEMMA NextIsEditorStep == ASSUME TypeOK, Next PROVE EditorSteps
<1>1. /\ \A newRev \in (draftRev + 1)..MaxRev : newRev \in 0..MaxRev
      /\ \A newToken \in 1..MaxToken : newToken \in 0..MaxToken
  BY EditorAssumption DEF TypeOK
<1>2. SaveAnswered => SaveHeard  BY <1>1 DEF SaveAnswered, SaveHeard
<1>3. SaveAnsweredBeforeReset => SaveHeardBeforeReset
  BY <1>1 DEF SaveAnsweredBeforeReset, SaveHeardBeforeReset
<1>4. TransitionAnswered => CallHeard  BY <1>1 DEF TransitionAnswered, CallHeard
<1>5. QED  BY <1>2, <1>3, <1>4 DEF Next, EditorSteps

-----------------------------------------------------------------------------
(* Type correctness. *)

\* The initial states have the types.
LEMMA TypeInit == ASSUME Init PROVE TypeOK
<1>1. publicationToken \in 0..MaxToken /\ 0 \in 0..MaxRev
  BY EditorAssumption DEF Init
<1>2. hasPublishedSnapshot \in BOOLEAN /\ isPublished \in BOOLEAN
  BY DEF Init
<1>3. /\ timer \in BOOLEAN /\ paused \in BOOLEAN /\ resetting \in BOOLEAN
      /\ "saved" \in AutosaveState /\ "saved" \in ResetRestoreState
      /\ "none" \in Busy
  BY DEF Init, AutosaveState, ResetRestoreState, Busy
<1>4. QED  BY <1>1, <1>2, <1>3 DEF Init, TypeOK

\* Every step keeps the types, under any server.
LEMMA TypeNext == ASSUME TypeOK, [EditorSteps]_vars PROVE TypeOK'
<1> USE DEF TypeOK, AutosaveState, ResetRestoreState, Busy, controller,
            publication, SameContext, NoContext
<1>1. CASE UNCHANGED vars
  BY <1>1 DEF vars
<1>2. CASE OwnerActs
  <2>1. ASSUME NEW d \in Docs, Edit(d) PROVE TypeOK'
    BY <2>1 DEF Edit, QueueDuringReset, QueueInConflict, QueueEdit
  <2>2. CASE PressPublish
    BY <2>2 DEF PressPublish, FlushPending, BeginSave
  <2>3. CASE PressRetry
    BY <2>3 DEF PressRetry, FlushPending, BeginSave
  <2>4. CASE PressUnpublish
    BY <2>4 DEF PressUnpublish
  <2>5. CASE PressReset
    BY <2>5 DEF PressReset, ResetRestore
  <2>6. QED  BY <1>2, <2>1, <2>2, <2>3, <2>4, <2>5 DEF OwnerActs
<1>3. CASE TimerFires
  BY <1>3 DEF TimerFires, SettleFlush, BeginSave
<1>4. CASE Pause
  <2>1. paused' \in BOOLEAN /\ timer' \in BOOLEAN
    BY <1>4 DEF Pause
  <2>2. UNCHANGED <<state, draftRev, pending, inFlight, resetting, discarded,
                    restoreState, document, busy, isPublished,
                    publicationToken, hasPublishedSnapshot, stored>>
    BY <1>4 DEF Pause
  <2>3. QED  BY <2>1, <2>2
<1>5. CASE Resume
  <2>1. paused' \in BOOLEAN /\ timer' \in BOOLEAN
    BY <1>5 DEF Resume, TimerOnResume
  <2>2. UNCHANGED <<state, draftRev, pending, inFlight, resetting, discarded,
                    restoreState, document, busy, isPublished,
                    publicationToken, hasPublishedSnapshot, stored>>
    BY <1>5 DEF Resume
  <2>3. QED  BY <2>1, <2>2
<1>6. CASE SaveHeard
  <2> USE DEF SaveNewer, BeginSave, SettleFlush, NewestUnsaved
  <2>1. ASSUME NEW newRev \in 0..MaxRev, SaveAccepted(newRev)
        PROVE  TypeOK'
    BY <2>1 DEF SaveAccepted
  <2>2. CASE SaveConflicts
    BY <2>2 DEF SaveConflicts
  <2>3. CASE SaveInvalid
    BY <2>3 DEF SaveInvalid
  <2>4. CASE SaveFails
    BY <2>4 DEF SaveFails
  <2>5. QED  BY <1>6, <2>1, <2>2, <2>3, <2>4 DEF SaveHeard
<1>7. CASE SaveHeardBeforeReset
  <2>1. ASSUME NEW newRev \in 0..MaxRev, SaveAcceptedBeforeReset(newRev)
        PROVE  TypeOK'
    BY <2>1 DEF SaveAcceptedBeforeReset, SaveBeforeReset
  <2>2. CASE SaveRefusedBeforeReset
    BY <2>2 DEF SaveRefusedBeforeReset, SaveBeforeReset
  <2>3. QED  BY <1>7, <2>1, <2>2 DEF SaveHeardBeforeReset
<1>8. CASE CallHeard
  <2>1. ASSUME NEW newToken \in 0..MaxToken, PublishDone(newToken) PROVE TypeOK'
    BY <2>1 DEF PublishDone
  <2>2. CASE PublishConflicts
    BY <2>2 DEF PublishConflicts
  <2>3. CASE UnpublishDone
    <3>1. isPublished' \in BOOLEAN
      BY <2>3 DEF UnpublishDone
    <3>2. publicationToken' \in 0..MaxToken
      BY <2>3, EditorAssumption DEF UnpublishDone
    <3>3. QED  BY <2>3, <3>1, <3>2 DEF UnpublishDone
  <2>4. CASE TransitionRefused
    BY <2>4 DEF TransitionRefused
  <2>5. ASSUME NEW newRev \in 0..MaxRev, NEW d \in Docs,
               ResetDone(newRev, d)
        PROVE  TypeOK'
    BY <2>5 DEF ResetDone
  <2>6. CASE ResetConflicts
    BY <2>6 DEF ResetConflicts, ResetNotDone, RestoreAs
  <2>7. CASE ResetFails
    BY <2>7 DEF ResetFails, ResetNotDone, RestoreAs
  <2>8. QED  BY <1>8, <2>1, <2>2, <2>3, <2>4, <2>5, <2>6, <2>7
                DEF CallHeard
<1>9. QED  BY <1>1, <1>2, <1>3, <1>4, <1>5, <1>6, <1>7, <1>8 DEF EditorSteps

(* Every variable of the editor keeps its type, whatever the server answers. *)
THEOREM EditorTypeCorrect == Spec => []TypeOK
<1>1. TypeOK /\ [Next]_vars => TypeOK'  BY TypeNext, NextIsEditorStep
<1>2. QED  BY <1>1, TypeInit, PTL DEF Spec

-----------------------------------------------------------------------------
(***************************************************************************)
(* The strengthening: what each state of the status line says about the    *)
(* work that is left.  A reset suspends it, because prepareForReset empties*)
(* the queue without changing the state.                                   *)
(***************************************************************************)
ResetPhases ==
  /\ resetting <=> busy \in {"prepare", "reset"}
  /\ busy = "reset" => inFlight = NoDoc
  /\ resetting => pending = NoDoc /\ ~timer
  /\ ~resetting => discarded = NoDoc

StateTellsWork ==
  ~resetting =>
    /\ state = "saved" => pending = NoDoc /\ inFlight = NoDoc
    /\ state = "saving" => inFlight # NoDoc
    /\ state \in {"unsaved", "failed", "invalid", "conflict"} => pending # NoDoc
    /\ inFlight # NoDoc => state \in {"saving", "conflict"}

EditorInv ==
  /\ ResetPhases
  /\ StateTellsWork
  /\ EditsAccountedFor
  /\ NoEditStranded

\* The editor begins with nothing to save.
LEMMA EditorInvInit == ASSUME Init PROVE EditorInv
BY DEF Init, EditorInv, ResetPhases, StateTellsWork, EditsAccountedFor,
       NoEditStranded

\* Every step keeps the invariant, under any server.
LEMMA EditorInvNext ==
  ASSUME TypeOK, EditorInv, [EditorSteps]_vars
  PROVE  EditorInv'
<1> USE EditorAssumption
    DEF TypeOK, AutosaveState, ResetRestoreState, Busy, controller, publication,
        SameContext, NoContext, EditorInv, ResetPhases, StateTellsWork,
        EditsAccountedFor, NoEditStranded
<1>1. CASE UNCHANGED vars
  BY <1>1 DEF vars
<1>2. CASE OwnerActs
  <2>1. ASSUME NEW d \in Docs, Edit(d) PROVE EditorInv'
    <3>1. CASE QueueDuringReset(d)
      BY <2>1, <3>1 DEF Edit, QueueDuringReset
    <3>2. CASE QueueInConflict(d)
      BY <2>1, <3>2 DEF Edit, QueueInConflict
    <3>3. CASE QueueEdit(d)
      BY <2>1, <3>3 DEF Edit, QueueEdit
    <3>4. QED  BY <2>1, <3>1, <3>2, <3>3 DEF Edit
  <2>2. CASE PressPublish
    BY <2>2 DEF PressPublish, FlushPending, BeginSave
  <2>3. CASE PressRetry
    BY <2>3 DEF PressRetry, FlushPending, BeginSave
  <2>4. CASE PressUnpublish
    BY <2>4 DEF PressUnpublish
  <2>5. CASE PressReset
    BY <2>5 DEF PressReset, ResetRestore
  <2>6. QED  BY <1>2, <2>1, <2>2, <2>3, <2>4, <2>5 DEF OwnerActs
<1>3. CASE TimerFires
  BY <1>3 DEF TimerFires, SettleFlush, BeginSave
<1>4. CASE Pause
  BY <1>4 DEF Pause
<1>5. CASE Resume
  BY <1>5 DEF Resume, TimerOnResume
<1>6. CASE SaveHeard
  <2> USE DEF SaveNewer, BeginSave, SettleFlush, NewestUnsaved
  <2>1. ASSUME NEW newRev \in 0..MaxRev, SaveAccepted(newRev)
        PROVE  EditorInv'
    BY <2>1 DEF SaveAccepted
  <2>2. CASE SaveConflicts
    BY <2>2 DEF SaveConflicts
  <2>3. CASE SaveInvalid
    BY <2>3 DEF SaveInvalid
  <2>4. CASE SaveFails
    BY <2>4 DEF SaveFails
  <2>5. QED  BY <1>6, <2>1, <2>2, <2>3, <2>4 DEF SaveHeard
<1>7. CASE SaveHeardBeforeReset
  <2>1. ASSUME NEW newRev \in 0..MaxRev, SaveAcceptedBeforeReset(newRev)
        PROVE  EditorInv'
    BY <2>1 DEF SaveAcceptedBeforeReset, SaveBeforeReset
  <2>2. CASE SaveRefusedBeforeReset
    BY <2>2 DEF SaveRefusedBeforeReset, SaveBeforeReset
  <2>3. QED  BY <1>7, <2>1, <2>2 DEF SaveHeardBeforeReset
<1>8. CASE CallHeard
  <2>1. ASSUME NEW newToken \in 0..MaxToken, PublishDone(newToken) PROVE EditorInv'
    BY <2>1 DEF PublishDone
  <2>2. CASE PublishConflicts
    BY <2>2 DEF PublishConflicts
  <2>3. CASE UnpublishDone
    BY <2>3 DEF UnpublishDone
  <2>4. CASE TransitionRefused
    BY <2>4 DEF TransitionRefused
  <2>5. ASSUME NEW newRev \in 0..MaxRev, NEW d \in Docs,
               ResetDone(newRev, d)
        PROVE  EditorInv'
    BY <2>5 DEF ResetDone
  <2>6. CASE ResetConflicts
    BY <2>6 DEF ResetConflicts, ResetNotDone, RestoreAs
  <2>7. CASE ResetFails
    BY <2>7 DEF ResetFails, ResetNotDone, RestoreAs
  <2>8. QED  BY <1>8, <2>1, <2>2, <2>3, <2>4, <2>5, <2>6, <2>7
                DEF CallHeard
<1>9. QED  BY <1>1, <1>2, <1>3, <1>4, <1>5, <1>6, <1>7, <1>8 DEF EditorSteps

\* So it always holds.
LEMMA EditorInvAlways == Spec => []EditorInv
<1>1. TypeOK /\ EditorInv /\ [Next]_vars => EditorInv'
  BY EditorInvNext, NextIsEditorStep
<1>2. QED  BY <1>1, EditorInvInit, EditorTypeCorrect, PTL DEF Spec

(* No sequence of edits, answers, pauses and resets loses the document on    *)
(* screen.                                                                   *)
THEOREM NoEditIsLost == Spec => []EditsAccountedFor
<1>1. EditorInv => EditsAccountedFor  BY DEF EditorInv
<1>2. QED  BY <1>1, EditorInvAlways, PTL

(* No edit waits without a timer or an answer that will send it.             *)
THEOREM NoEditIsStranded == Spec => []NoEditStranded
<1>1. EditorInv => NoEditStranded  BY DEF EditorInv
<1>2. QED  BY <1>1, EditorInvAlways, PTL

-----------------------------------------------------------------------------
(* Only a flush that ends, or has nothing to do, sends a publish, and then   *)
(* the document on screen is the stored one.                                 *)
THEOREM PublishesOnlyWhatIsStored == Spec => PublishesWhatTheOwnerSees
<1>1. ASSUME TypeOK, EditorInv, [Next]_vars, busy' = "publish", busy # "publish"
      PROVE  document' = stored'
  <2> USE DEF TypeOK, EditorInv, ResetPhases, EditsAccountedFor, controller,
              publication
  <2>1. CASE UNCHANGED vars
    BY <1>1, <2>1 DEF vars
  <2>2. CASE OwnerActs
    <3>1. CASE PressPublish
      BY <1>1, <3>1 DEF PressPublish
    <3>2. ~(\E d \in Docs : Edit(d)) /\ ~PressRetry /\ ~PressUnpublish /\ ~PressReset
      BY <1>1 DEF Edit, PressRetry, PressUnpublish, PressReset
    <3>3. QED  BY <2>2, <3>1, <3>2 DEF OwnerActs
  <2>3. CASE TimerFires
    BY <1>1, <2>3 DEF TimerFires, SettleFlush
  <2>4. CASE SaveAnswered
    <3>1. ASSUME NEW newRev \in (draftRev + 1)..MaxRev, SaveAccepted(newRev)
          PROVE  document' = stored'
      BY <1>1, <3>1 DEF SaveAccepted, SaveNewer
    <3>2. ~SaveConflicts /\ ~SaveInvalid /\ ~SaveFails
      BY <1>1 DEF SaveConflicts, SaveInvalid, SaveFails, SaveNewer, SettleFlush
    <3>3. QED  BY <2>4, <3>1, <3>2 DEF SaveAnswered
  <2>5. ~SaveAnsweredBeforeReset
    BY <1>1 DEF SaveAnsweredBeforeReset, SaveAcceptedBeforeReset,
                SaveRefusedBeforeReset, SaveBeforeReset
  <2>6. ~TransitionAnswered
    BY <1>1 DEF TransitionAnswered, PublishDone, PublishConflicts,
         UnpublishDone, TransitionRefused, ResetDone, ResetConflicts,
         ResetFails, ResetNotDone
  <2>7. ~Pause /\ ~Resume
    BY <1>1 DEF Pause, Resume
  <2>8. QED  BY <1>1, <2>1, <2>2, <2>3, <2>4, <2>5, <2>6, <2>7 DEF Next
<1>2. TypeOK /\ EditorInv /\ [Next]_vars
        => [busy' = "publish" /\ busy # "publish" => document' = stored']_vars
  BY <1>1
<1>3. QED
  BY <1>2, EditorTypeCorrect, EditorInvAlways, PTL
     DEF Spec, PublishesWhatTheOwnerSees

(* While a reset lasts nothing can start a save: its queue and its timer are *)
(* empty, and edits are set aside.                                           *)
THEOREM ResetIsNeverOvertaken == Spec => ResetOwnsTheOrder
<1>1. ASSUME TypeOK, EditorInv, EditorInv', [Next]_vars, resetting
      PROVE  inFlight' \in {inFlight, NoDoc}
  <2> USE DEF TypeOK, EditorInv, ResetPhases, controller, publication
  <2>1. CASE UNCHANGED vars
    BY <2>1 DEF vars
  <2>2. CASE OwnerActs
    <3>1. ~PressPublish /\ ~PressReset /\ ~PressUnpublish
      BY <1>1 DEF PressPublish, PressReset, PressUnpublish
    <3>2. CASE PressRetry
      BY <1>1, <3>2 DEF PressRetry
    <3>3. ASSUME NEW d \in Docs, Edit(d) PROVE inFlight' \in {inFlight, NoDoc}
      BY <3>3 DEF Edit
    <3>4. QED  BY <2>2, <3>1, <3>2, <3>3 DEF OwnerActs
  <2>3. ~TimerFires
    BY <1>1 DEF TimerFires
  <2>4. ~SaveAnswered
    BY <1>1 DEF SaveAnswered, SaveAccepted, SaveConflicts, SaveInvalid, SaveFails
  <2>5. CASE SaveAnsweredBeforeReset
    BY <2>5 DEF SaveAnsweredBeforeReset, SaveAcceptedBeforeReset,
                SaveRefusedBeforeReset, SaveBeforeReset
  <2>6. CASE TransitionAnswered
    BY <2>6 DEF TransitionAnswered, PublishDone, PublishConflicts,
         UnpublishDone, TransitionRefused, ResetDone, ResetConflicts,
         ResetFails, ResetNotDone
  <2>7. CASE Pause \/ Resume
    BY <2>7 DEF Pause, Resume
  <2>8. QED  BY <1>1, <2>1, <2>2, <2>3, <2>4, <2>5, <2>6, <2>7 DEF Next
<1>2. EditorInv' => (busy' = "reset" => inFlight' = NoDoc)
  BY DEF EditorInv, ResetPhases
<1>3. TypeOK /\ EditorInv /\ EditorInv' /\ [Next]_vars
        => [/\ resetting => inFlight' \in {inFlight, NoDoc}
            /\ busy' = "reset" => inFlight' = NoDoc]_vars
  BY <1>1, <1>2
<1>4. QED
  BY <1>3, EditorTypeCorrect, EditorInvAlways, PTL DEF Spec, ResetOwnsTheOrder

-----------------------------------------------------------------------------
(***************************************************************************)
(* The editor and the page.                                                *)
(***************************************************************************)

(***************************************************************************)
(* The invariant speaks of revisions.  A request is sound if it was sent   *)
(* with a revision that is not ahead of the page's and, while that is      *)
(* still the page's revision, nobody else has written: a publish then      *)
(* finds the document it was meant for.  An answer that says a write was   *)
(* done carries the page's document until the revision moves on.  What the *)
(* tab knows of the page is of the same kind.  v, d and u are the revision,*)
(* the draft and whether it is unseen.                                     *)
(***************************************************************************)
Writes(r) == r.kind \in {"autosave", "reset"}
Written(r) == IF r.kind = "autosave" THEN r.doc ELSE r.document

Sound(r, v, d, u) ==
  /\ r \in ServerRequests
  /\ r.kind = "autosave" => r.doc \in Docs
  /\ r.kind # "unpublish" => r.base <= v
  /\ r.kind # "unpublish" /\ r.base = v => ~u
  /\ r.kind = "publish" /\ r.base = v => d = r.doc
  /\ Writes(r) /\ r.answer = "done" =>
       /\ r.base + 1 <= v /\ Written(r) \in Docs
       /\ r.base + 1 = v => ~u /\ d = Written(r)

Reads(b, s, v, d, u) == b <= v /\ (b = v => ~u /\ d = s)

PageTypes ==
  /\ draft \in Docs /\ rev \in 0..MaxRev /\ snapshot \in Docs \cup {NoDoc}
  /\ public \in BOOLEAN /\ held \in BOOLEAN /\ unseen \in BOOLEAN
  /\ token \in 0..MaxToken

SavingKnown ==
  /\ saving = NoRequest <=> inFlight = NoDoc
  /\ saving # NoRequest => saving.kind = "autosave" /\ saving.doc = inFlight

CallingKnown ==
  /\ calling = NoRequest <=> busy \notin {"publish", "unpublish", "reset"}
  /\ calling # NoRequest => calling.kind = busy

RequestsSound == \A r \in Requests : Sound(r, rev, draft, unseen)

TroubleCounted == trouble \in Nat

TabReads == Reads(draftRev, stored, rev, draft, unseen)

SessionInv ==
  /\ TypeOK /\ EditorInv
  /\ PageTypes /\ SavingKnown /\ CallingKnown /\ RequestsSound /\ TabReads

(***************************************************************************)
(* What the tab has been told.  What is under way was sent with a revision *)
(* the tab has had; an answer that says a write was done still describes   *)
(* the row, or others have written since unseen; and while the status line *)
(* says saved, or a reset that fails will make it say so, what the server  *)
(* last acknowledged is the draft, unless the row holds an unseen one or   *)
(* the answer to that reset is on its way.                                 *)
(***************************************************************************)
BasesHeard ==
  /\ \A r \in Requests : r.kind # "unpublish" => r.base <= draftRev
  /\ saving # NoRequest => saving.base = draftRev
  /\ calling # NoRequest /\ calling.kind = "reset" => calling.base = draftRev
  /\ \A r \in strays : r.answer = "none"

AnswersHold ==
  /\ saving # NoRequest /\ saving.answer = "done" => draft = saving.doc \/ unseen
  /\ calling # NoRequest /\ calling.kind = "reset" /\ calling.answer = "done" =>
       draft = calling.document \/ unseen

Settled ==
  \/ state = "saved" /\ ~resetting
  \/ busy = "reset" /\ restoreState = "saved" /\ discarded = NoDoc
ResetAnswered == calling # NoRequest /\ calling.kind = "reset" /\ calling.answer = "done"
SettledHolds == Settled /\ ~ResetAnswered => stored = draft \/ unseen

Told == BasesHeard /\ AnswersHold /\ SettledHolds

-----------------------------------------------------------------------------
(* How a step may move the page, and what survives it. *)

PageMoves(v, d, u, v1, d1, u1) ==
  \/ v1 = v /\ d1 = d /\ (u1 => u)
  \/ v1 = v + 1

LEMMA SoundStays ==
  ASSUME NEW v \in Nat, NEW d, NEW u, NEW v1 \in Nat, NEW d1, NEW u1,
         PageMoves(v, d, u, v1, d1, u1), NEW r, Sound(r, v, d, u)
  PROVE  Sound(r, v1, d1, u1)
<1>1. r.base \in Nat  BY DEF Sound, ServerRequests
<1>2. CASE v1 = v /\ d1 = d /\ (u1 => u)
  BY <1>2 DEF Sound
<1>3. CASE v1 = v + 1
  BY <1>1, <1>3 DEF Sound
<1>4. QED  BY <1>2, <1>3 DEF PageMoves

LEMMA ReadsStays ==
  ASSUME NEW v \in Nat, NEW d, NEW u, NEW v1 \in Nat, NEW d1, NEW u1,
         PageMoves(v, d, u, v1, d1, u1), NEW b \in Nat, NEW s, Reads(b, s, v, d, u)
  PROVE  Reads(b, s, v1, d1, u1)
BY DEF PageMoves, Reads

LEMMA FreshRequest ==
  ASSUME NEW kind \in {"autosave", "publish", "unpublish", "reset"},
         NEW doc \in Docs \cup {NoDoc}, NEW base \in Nat
  PROVE  /\ Request(kind, doc, base) \in ServerRequests
         /\ Request(kind, doc, base).kind = kind
         /\ Request(kind, doc, base).doc = doc
         /\ Request(kind, doc, base).base = base
         /\ Request(kind, doc, base).answer = "none"
<1>1. 0 \in 0..MaxToken  BY EditorAssumption
<1>2. QED  BY <1>1 DEF Request, ServerRequests

LEMMA FreshIsSound ==
  ASSUME NEW b \in Nat, NEW s, NEW v \in Nat, NEW d, NEW u, Reads(b, s, v, d, u)
  PROVE  /\ \A doc \in Docs : Sound(Request("autosave", doc, b), v, d, u)
         /\ s \in Docs => Sound(Request("publish", s, b), v, d, u)
         /\ Sound(Request("reset", NoDoc, b), v, d, u)
         /\ \A t \in Nat : Sound(Request("unpublish", NoDoc, t), v, d, u)
<1>1. ASSUME NEW doc \in Docs PROVE Sound(Request("autosave", doc, b), v, d, u)
  BY FreshRequest DEF Sound, Reads
<1>2. ASSUME s \in Docs PROVE Sound(Request("publish", s, b), v, d, u)
  BY <1>2, FreshRequest DEF Sound, Reads, Writes
<1>3. Sound(Request("reset", NoDoc, b), v, d, u)
  BY FreshRequest DEF Sound, Reads
<1>4. ASSUME NEW t \in Nat PROVE Sound(Request("unpublish", NoDoc, t), v, d, u)
  BY FreshRequest DEF Sound, Writes
<1>5. QED  BY <1>1, <1>2, <1>3, <1>4

-----------------------------------------------------------------------------
(* The server. *)

LEMMA HandleMoves ==
  ASSUME PageTypes, NEW r, Sound(r, rev, draft, unseen), Handle(r)
  PROVE  /\ unseen' \in BOOLEAN => PageTypes'
         /\ (rev' = rev /\ draft' = draft) \/ rev' = rev + 1
         /\ rev' # rev => Writes(r) /\ r.base = rev /\ ~unseen
         /\ token' # token => r.kind = "publish" /\ snapshot' = r.doc
         /\ Outcome(r) = "done" /\ Writes(r) =>
              /\ rev' = r.base + 1 /\ ~unseen
              /\ draft' \in Docs
              /\ r.kind = "autosave" => draft' = r.doc
         /\ Outcome(r) # "done" => rev' = rev /\ draft' = draft
<1> USE EditorAssumption
<1>1. r.base \in Nat /\ r.kind \in {"autosave", "publish", "unpublish", "reset"}
  BY DEF Sound, ServerRequests
<1>2. CASE Outcome(r) # "done"
  <2>1. UNCHANGED <<draft, rev, snapshot, public, token, held>>
    BY <1>2 DEF Handle, page
  <2>2. QED  BY <1>2, <2>1 DEF PageTypes
<1>3. CASE Outcome(r) = "done"
  <2>1. Effect(r) /\ rev' <= MaxRev /\ token' <= MaxToken
    BY <1>3 DEF Handle
  <2>2. Stands(r) /\ (r.kind = "reset" => snapshot # NoDoc)
    BY <1>3 DEF Outcome
  <2>3. ASSUME Writes(r), NEW w \in Docs, Page!Save(w),
               r.kind = "autosave" => w = r.doc
        PROVE  /\ unseen' \in BOOLEAN => PageTypes'
               /\ token' = token
               /\ rev' = r.base + 1 /\ r.base = rev /\ ~unseen
               /\ draft' \in Docs
               /\ r.kind = "autosave" => draft' = r.doc
    <3>1. r.base = rev  BY <2>2, <2>3 DEF Stands, Writes
    <3>2. ~unseen  BY <3>1, <2>3 DEF Sound, Writes
    <3>3. draft' = w /\ rev' = rev + 1 /\ UNCHANGED <<snapshot, public, token, held>>
      BY <2>3 DEF Page!Save
    <3>4. unseen' \in BOOLEAN => PageTypes'  BY <2>1, <3>3 DEF PageTypes
    <3>5. QED  BY <2>3, <3>1, <3>2, <3>3, <3>4
  <2>4. CASE r.kind = "autosave"
    <3>1. Page!Save(r.doc) /\ r.doc \in Docs
      BY <2>1, <2>4 DEF Effect, Sound
    <3>2. QED  BY <1>3, <2>3, <2>4, <3>1 DEF Writes
  <2>5. CASE r.kind = "reset"
    <3>1. Page!Save(snapshot) /\ snapshot \in Docs
      BY <2>1, <2>2, <2>5 DEF Effect, PageTypes
    <3>2. QED  BY <1>3, <2>3, <2>5, <3>1 DEF Writes
  <2>6. CASE r.kind = "publish"
    <3>1. /\ snapshot' = draft /\ public' = TRUE /\ token' = token + 1
          /\ UNCHANGED <<draft, rev, held>>
      BY <2>1, <2>6 DEF Effect, Page!Publish
    <3>2. r.base = rev  BY <2>2, <2>6 DEF Stands
    <3>3. snapshot' = r.doc  BY <2>6, <3>1, <3>2 DEF Sound
    <3>4. unseen' \in BOOLEAN => PageTypes'  BY <2>1, <3>1 DEF PageTypes
    <3>5. QED  BY <1>3, <2>6, <3>1, <3>3, <3>4 DEF Writes
  <2>7. CASE r.kind = "unpublish"
    <3>1. public' = FALSE /\ held' = held /\ UNCHANGED <<draft, rev, snapshot, token>>
      BY <2>1, <2>7 DEF Effect, Page!Hide
    <3>2. unseen' \in BOOLEAN => PageTypes'  BY <2>1, <3>1 DEF PageTypes
    <3>3. QED  BY <1>3, <2>7, <3>1, <3>2 DEF Writes
  <2>8. QED  BY <1>1, <2>4, <2>5, <2>6, <2>7
<1>4. QED  BY <1>2, <1>3

LEMMA AnsweredIsSound ==
  ASSUME PageTypes, NEW r, Sound(r, rev, draft, unseen), r.answer = "none", Handle(r),
         unseen' = unseen
  PROVE  /\ Sound(Answered(r), rev', draft', unseen')
         /\ Answered(r).kind = r.kind /\ Answered(r).doc = r.doc
         /\ Answered(r).base = r.base /\ Answered(r).answer = Outcome(r)
         /\ Answered(r).document = draft'
<1>1. Outcome(r) \in {"none", "done", "conflict", "refused"}  BY DEF Outcome
<1>2. /\ draft' \in Docs /\ token' \in 0..MaxToken
      /\ PageMoves(rev, draft, unseen, rev', draft', unseen')
  <2>1. unseen' \in BOOLEAN  BY DEF PageTypes
  <2>2. PageTypes'  BY <2>1, HandleMoves
  <2>3. (rev' = rev /\ draft' = draft) \/ rev' = rev + 1  BY HandleMoves
  <2>4. QED  BY <2>2, <2>3 DEF PageTypes, PageMoves
<1>3. rev \in Nat /\ rev' \in Nat
  <2>1. unseen' \in BOOLEAN  BY DEF PageTypes
  <2>2. PageTypes'  BY <2>1, HandleMoves
  <2>3. QED  BY <2>2, EditorAssumption DEF PageTypes
<1>4. Sound(r, rev', draft', unseen')
  BY <1>2, <1>3, SoundStays
<1>5. r \in ServerRequests  BY DEF Sound
<1>6. /\ Answered(r) \in ServerRequests
      /\ Answered(r).kind = r.kind /\ Answered(r).doc = r.doc /\ Answered(r).base = r.base
      /\ Answered(r).answer = Outcome(r) /\ Answered(r).document = draft'
  BY <1>1, <1>2, <1>5 DEF Answered, ServerRequests
<1>7. Outcome(r) = "done" /\ Writes(r) =>
        /\ rev' = r.base + 1 /\ ~unseen' /\ draft' \in Docs
        /\ r.kind = "autosave" => draft' = r.doc
  BY HandleMoves
<1>8. r.base \in Nat  BY <1>5 DEF ServerRequests
<1>9. Sound(Answered(r), rev', draft', unseen')
  BY <1>3, <1>4, <1>6, <1>7, <1>8 DEF Sound, Writes, Written
<1>10. QED  BY <1>6, <1>9

-----------------------------------------------------------------------------
(* A step of the tab: the page stays, and what the tab sends carries what it *)
(* has read.                                                                 *)

LEMMA TabSends ==
  ASSUME SessionInv, [EditorSteps]_vars, UNCHANGED page, unseen' \in BOOLEAN,
         TabReads',
         \A r \in Requests :
           r \in strays' \cup {saving', calling'} => Sound(r, rev', draft', unseen'),
         (inFlight' = inFlight /\ saving' = saving) \/ SendSave,
         (busy' = busy /\ calling' = calling) \/ SendCall,
         strays' \subseteq Requests
  PROVE  SessionInv'
<1> USE EditorAssumption, SessionAssumption
<1>1. TypeOK' /\ EditorInv'
  BY TypeNext, EditorInvNext DEF SessionInv
<1>2. PageTypes'  BY DEF SessionInv, PageTypes, page
<1>3. /\ draftRev' \in Nat /\ rev' \in Nat /\ publicationToken' \in Nat
      /\ stored' \in Docs /\ inFlight' \in Docs \cup {NoDoc} /\ busy' \in Busy
  BY <1>1, <1>2 DEF TypeOK, PageTypes
<1>4. Reads(draftRev', stored', rev', draft', unseen')
  BY DEF TabReads
<1>5. \A r \in Requests :
        r \in strays' \cup {saving', calling'} => Sound(r, rev', draft', unseen')
  OBVIOUS
<1>6. /\ \A doc \in Docs : Sound(Request("autosave", doc, draftRev'), rev', draft', unseen')
      /\ Sound(Request("publish", stored', draftRev'), rev', draft', unseen')
      /\ Sound(Request("reset", NoDoc, draftRev'), rev', draft', unseen')
      /\ Sound(Request("unpublish", NoDoc, publicationToken'), rev', draft', unseen')
  BY <1>3, <1>4, FreshIsSound
<1>7. SavingKnown' /\ (saving' # NoRequest => Sound(saving', rev', draft', unseen'))
  <2>1. CASE inFlight' = inFlight /\ saving' = saving
    BY <2>1, <1>5 DEF SessionInv, SavingKnown, Requests
  <2>2. CASE SendSave /\ inFlight' = NoDoc
    BY <2>2 DEF SendSave, SavingKnown
  <2>3. CASE SendSave /\ inFlight' # NoDoc
    <3>1. inFlight' \in Docs /\ saving' = Request("autosave", inFlight', draftRev')
      BY <2>3, <1>3 DEF SendSave
    <3>2. saving' \in ServerRequests /\ saving'.kind = "autosave" /\ saving'.doc = inFlight'
      BY <3>1, <1>3, FreshRequest
    <3>3. saving' # NoRequest  BY <3>2
    <3>4. Sound(saving', rev', draft', unseen')  BY <1>6, <3>1
    <3>5. QED  BY <2>3, <3>2, <3>3, <3>4 DEF SavingKnown
  <2>4. QED  BY <2>1, <2>2, <2>3
<1>8. CallingKnown' /\ (calling' # NoRequest => Sound(calling', rev', draft', unseen'))
  <2>1. CASE busy' = busy /\ calling' = calling
    BY <2>1, <1>5 DEF SessionInv, CallingKnown, Requests
  <2>2. CASE SendCall
    <3>1. CASE busy' = "publish"
      <4>1. calling' = Request("publish", stored', draftRev')
        BY <2>2, <3>1 DEF SendCall
      <4>2. calling' \in ServerRequests /\ calling'.kind = "publish"
        BY <4>1, <1>3, FreshRequest
      <4>3. QED  BY <3>1, <4>1, <4>2, <1>6 DEF CallingKnown
    <3>2. CASE busy' = "unpublish"
      <4>1. calling' = Request("unpublish", NoDoc, publicationToken')
        BY <2>2, <3>2 DEF SendCall
      <4>2. calling' \in ServerRequests /\ calling'.kind = "unpublish"
        BY <4>1, <1>3, FreshRequest
      <4>3. QED  BY <3>2, <4>1, <4>2, <1>6 DEF CallingKnown
    <3>3. CASE busy' = "reset"
      <4>1. calling' = Request("reset", NoDoc, draftRev')
        BY <2>2, <3>3 DEF SendCall
      <4>2. calling' \in ServerRequests /\ calling'.kind = "reset"
        BY <4>1, <1>3, FreshRequest
      <4>3. QED  BY <3>3, <4>1, <4>2, <1>6 DEF CallingKnown
    <3>4. CASE busy' \notin {"publish", "unpublish", "reset"}
      <4>1. calling' = NoRequest  BY <2>2, <3>4 DEF SendCall
      <4>2. QED  BY <3>4, <4>1 DEF CallingKnown
    <3>5. QED  BY <3>1, <3>2, <3>3, <3>4
  <2>3. QED  BY <2>1, <2>2
<1>9. RequestsSound'
  BY <1>5, <1>7, <1>8 DEF RequestsSound, Requests
<1>10. QED  BY <1>1, <1>2, <1>7, <1>8, <1>9 DEF SessionInv

LEMMA TabFollows ==
  ASSUME SessionInv, [EditorSteps]_vars, UNCHANGED page, UNCHANGED unseen,
         TabReads',
         (inFlight' = inFlight /\ saving' = saving) \/ SendSave,
         (busy' = busy /\ calling' = calling) \/ SendCall,
         strays' \subseteq Requests
  PROVE  SessionInv'
<1>1. \A r \in Requests : Sound(r, rev', draft', unseen')
  BY DEF SessionInv, RequestsSound, page
<1>2. unseen' \in BOOLEAN  BY DEF SessionInv, PageTypes
<1>3. QED  BY <1>1, <1>2, TabSends

-----------------------------------------------------------------------------
(* A step of the page under a tab that stands still. *)

LEMMA PageFollows ==
  ASSUME SessionInv, UNCHANGED vars, PageTypes',
         PageMoves(rev, draft, unseen, rev', draft', unseen'),
         SavingKnown', CallingKnown',
         \A r \in Requests' : r \in Requests \/ Sound(r, rev', draft', unseen')
  PROVE  SessionInv'
<1>1. TypeOK' /\ EditorInv'
  BY TypeNext, EditorInvNext DEF SessionInv
<1>2. rev \in Nat /\ rev' \in Nat /\ draftRev \in Nat
  BY DEF SessionInv, PageTypes, TypeOK
<1>3. \A r \in Requests' : Sound(r, rev', draft', unseen')
  BY <1>2, SoundStays DEF SessionInv, RequestsSound
<1>4. Reads(draftRev, stored, rev', draft', unseen')
  BY <1>2, ReadsStays DEF SessionInv, TabReads
<1>5. draftRev' = draftRev /\ stored' = stored  BY DEF vars, controller
<1>6. TabReads'  BY <1>4, <1>5 DEF TabReads
<1>7. RequestsSound'  BY <1>3 DEF RequestsSound
<1>8. QED  BY <1>1, <1>6, <1>7 DEF SessionInv

\* A step of the server answers only what is so.
LEMMA ServerFollows ==
  ASSUME SessionInv, UNCHANGED vars, SaveArrives \/ CallArrives \/ StrayArrives
  PROVE  SessionInv' /\ (unseen => unseen' /\ rev' = rev)
<1> USE SessionAssumption
<1>0. PageTypes /\ SavingKnown /\ CallingKnown /\ RequestsSound
  BY DEF SessionInv
<1>a. ASSUME NEW r, Sound(r, rev, draft, unseen), Handle(r), unseen' \in BOOLEAN,
             unseen => unseen', rev' = rev => (unseen' => unseen)
      PROVE  /\ PageTypes' /\ PageMoves(rev, draft, unseen, rev', draft', unseen')
             /\ unseen => unseen' /\ rev' = rev
  <2>1. PageTypes'  BY <1>0, <1>a, HandleMoves
  <2>2. (rev' = rev /\ draft' = draft) \/ rev' = rev + 1  BY <1>0, <1>a, HandleMoves
  <2>3. unseen => rev' = rev  BY <1>0, <1>a, HandleMoves
  <2>4. QED  BY <1>a, <2>1, <2>2, <2>3 DEF PageMoves
<1>1. CASE SaveArrives
  <2>1. /\ saving \in Requests /\ saving # NoRequest /\ saving.answer = "none" /\ Handle(saving)
        /\ unseen' = unseen
    BY <1>1 DEF SaveArrives, Requests
  <2>2. Sound(saving, rev, draft, unseen)  BY <1>0, <2>1 DEF RequestsSound
  <2>3. /\ PageTypes' /\ PageMoves(rev, draft, unseen, rev', draft', unseen')
        /\ unseen => unseen' /\ rev' = rev
    <3>1. unseen' \in BOOLEAN  BY <1>0, <2>1 DEF PageTypes
    <3>2. QED  BY <1>a, <2>1, <2>2, <3>1
  <2>4. /\ Sound(Answered(saving), rev', draft', unseen')
        /\ Answered(saving).kind = saving.kind /\ Answered(saving).doc = saving.doc
    BY <1>0, <2>1, <2>2, AnsweredIsSound
  <2>5. saving' = Answered(saving) /\ calling' = calling /\ strays' = strays
    BY <1>1 DEF SaveArrives
  <2>6. saving' # NoRequest  BY <2>4, <2>5 DEF Sound
  <2>7. inFlight' = inFlight /\ busy' = busy  BY DEF vars, controller
  <2>8. SavingKnown' /\ CallingKnown'
    BY <1>0, <2>1, <2>4, <2>5, <2>6, <2>7 DEF SavingKnown, CallingKnown
  <2>9. \A r \in Requests' : r \in Requests \/ Sound(r, rev', draft', unseen')
    BY <2>4, <2>5 DEF Requests
  <2>10. QED  BY <2>3, <2>8, <2>9, PageFollows
<1>2. CASE CallArrives
  <2>1. /\ calling \in Requests /\ calling # NoRequest /\ calling.answer = "none" /\ Handle(calling)
        /\ unseen' = unseen
    BY <1>2 DEF CallArrives, Requests
  <2>2. Sound(calling, rev, draft, unseen)  BY <1>0, <2>1 DEF RequestsSound
  <2>3. /\ PageTypes' /\ PageMoves(rev, draft, unseen, rev', draft', unseen')
        /\ unseen => unseen' /\ rev' = rev
    <3>1. unseen' \in BOOLEAN  BY <1>0, <2>1 DEF PageTypes
    <3>2. QED  BY <1>a, <2>1, <2>2, <3>1
  <2>4. /\ Sound(Answered(calling), rev', draft', unseen')
        /\ Answered(calling).kind = calling.kind
    BY <1>0, <2>1, <2>2, AnsweredIsSound
  <2>5. calling' = Answered(calling) /\ saving' = saving /\ strays' = strays
    BY <1>2 DEF CallArrives
  <2>6. calling' # NoRequest  BY <2>4, <2>5 DEF Sound
  <2>7. inFlight' = inFlight /\ busy' = busy  BY DEF vars, controller
  <2>8. SavingKnown' /\ CallingKnown'
    BY <1>0, <2>1, <2>4, <2>5, <2>6, <2>7 DEF SavingKnown, CallingKnown
  <2>9. \A r \in Requests' : r \in Requests \/ Sound(r, rev', draft', unseen')
    BY <2>4, <2>5 DEF Requests
  <2>10. QED  BY <2>3, <2>8, <2>9, PageFollows
<1>3. CASE StrayArrives
  <2>1. PICK r \in strays :
          /\ Handle(r) /\ strays' = strays \ {r} /\ UNCHANGED <<saving, calling>>
          /\ unseen' = (unseen \/ (rev' # rev /\ draft' # document))
    BY <1>3 DEF StrayArrives
  <2>2. Sound(r, rev, draft, unseen)  BY <1>0, <2>1 DEF RequestsSound, Requests
  <2>3. /\ PageTypes' /\ PageMoves(rev, draft, unseen, rev', draft', unseen')
        /\ unseen => unseen' /\ rev' = rev
    <3>1. unseen' \in BOOLEAN /\ (unseen => unseen') /\ (rev' = rev => (unseen' => unseen))
      BY <2>1
    <3>2. QED  BY <1>a, <2>1, <2>2, <3>1
  <2>4. inFlight' = inFlight /\ busy' = busy  BY DEF vars, controller
  <2>5. SavingKnown' /\ CallingKnown'
    BY <1>0, <2>1, <2>4 DEF SavingKnown, CallingKnown
  <2>6. \A q \in Requests' : q \in Requests
    BY <2>1 DEF Requests
  <2>7. QED  BY <2>3, <2>5, <2>6, PageFollows
<1>4. QED  BY <1>1, <1>2, <1>3

-----------------------------------------------------------------------------
(* The steps of the session, one by one. *)

\* A session begins with nothing sent.
LEMMA SessionInvInit == ASSUME SessionInit PROVE SessionInv
<1> USE EditorAssumption
<1>1. Init /\ TypeOK /\ EditorInv
  BY TypeInit, EditorInvInit DEF SessionInit
<1>2. /\ draft \in Docs /\ rev = 0 /\ held = FALSE /\ unseen = FALSE
      /\ token \in {0, 1} /\ snapshot \in Docs \cup {NoDoc}
  BY DEF SessionInit, Page!Init
<1>3. public \in BOOLEAN /\ held \in BOOLEAN /\ unseen \in BOOLEAN
  BY <1>2 DEF SessionInit
<1>4. PageTypes  BY <1>2, <1>3 DEF PageTypes
<1>5. /\ saving = NoRequest /\ calling = NoRequest /\ strays = {}
      /\ inFlight = NoDoc /\ busy = "none" /\ draftRev = 0 /\ stored = draft
  BY <1>1 DEF SessionInit, Init
<1>6. SavingKnown /\ CallingKnown  BY <1>5 DEF SavingKnown, CallingKnown
<1>7. RequestsSound  BY <1>5 DEF RequestsSound, Requests
<1>8. TabReads  BY <1>2, <1>5 DEF TabReads, Reads
<1>9. QED  BY <1>1, <1>4, <1>6, <1>7, <1>8 DEF SessionInv

LEMMA TabReadsStay ==
  ASSUME TabReads, UNCHANGED page, UNCHANGED unseen, UNCHANGED <<draftRev, stored>>
  PROVE  TabReads'
BY DEF TabReads, Reads, page

LEMMA TabActsKeep == ASSUME SessionInv, TabActs PROVE SessionInv'
<1>1. EditorSteps  BY DEF TabActs, EditorSteps
<1>2. UNCHANGED <<draftRev, stored>>
  BY DEF TabActs, OwnerActs, TimerFires, Edit, PressPublish, PressRetry,
         PressUnpublish, PressReset, controller
<1>3. UNCHANGED page /\ UNCHANGED unseen /\ strays' \subseteq Requests
  BY DEF TabActs, Requests
<1>4. TabReads'  BY <1>2, <1>3, TabReadsStay DEF SessionInv
<1>5. /\ (inFlight' = inFlight /\ saving' = saving) \/ SendSave
      /\ (busy' = busy /\ calling' = calling) \/ SendCall
  BY DEF TabActs, KeepSave, KeepCall
<1>6. QED  BY <1>1, <1>3, <1>4, <1>5, TabFollows

LEMMA SaveHearsKeeps == ASSUME SessionInv, SaveHears PROVE SessionInv'
<1> USE EditorAssumption
<1>1. /\ saving # NoRequest /\ SavingKnown /\ TabReads
      /\ rev \in 0..MaxRev /\ Sound(saving, rev, draft, unseen)
  BY DEF SaveHears, SessionInv, RequestsSound, Requests, PageTypes
<1>2. saving.kind = "autosave" /\ saving.doc = inFlight /\ saving.base \in Nat
  BY <1>1 DEF SavingKnown, Sound, ServerRequests
<1>3. UNCHANGED page /\ UNCHANGED unseen /\ strays' \subseteq Requests
  BY DEF SaveHears, Requests
<1>4. /\ SendSave
      /\ (busy' = busy /\ calling' = calling) \/ SendCall
  BY DEF SaveHears, KeepCall
<1>5. CASE saving.answer = "done" /\
           (SaveAccepted(saving.base + 1) \/ SaveAcceptedBeforeReset(saving.base + 1))
  <2>1. /\ saving.base + 1 <= rev /\ (saving.base + 1 = rev => ~unseen /\ draft = inFlight)
    BY <1>1, <1>2, <1>5 DEF Sound, Writes, Written
  <2>2. saving.base + 1 \in 0..MaxRev  BY <1>1, <1>2, <2>1
  <2>3. EditorSteps
    BY <1>5, <2>2 DEF EditorSteps, SaveHeard, SaveHeardBeforeReset
  <2>4. draftRev' = saving.base + 1 /\ stored' = inFlight
    BY <1>5 DEF SaveAccepted, SaveAcceptedBeforeReset
  <2>5. TabReads'  BY <1>3, <2>1, <2>4 DEF TabReads, Reads, page
  <2>6. QED  BY <1>3, <1>4, <2>3, <2>5, TabFollows
<1>6. CASE SaveConflicts \/ SaveRefusedBeforeReset
  <2>1. EditorSteps
    BY <1>6 DEF EditorSteps, SaveHeard, SaveHeardBeforeReset
  <2>2. UNCHANGED <<draftRev, stored>>
    BY <1>6 DEF SaveConflicts, SaveRefusedBeforeReset
  <2>3. TabReads'  BY <1>1, <1>3, <2>2, TabReadsStay
  <2>4. QED  BY <1>3, <1>4, <2>1, <2>3, TabFollows
<1>7. QED  BY <1>5, <1>6 DEF SaveHears

LEMMA CallHearsKeeps == ASSUME SessionInv, CallHears PROVE SessionInv'
<1> USE EditorAssumption
<1>1. /\ calling # NoRequest /\ CallingKnown /\ TabReads
      /\ rev \in 0..MaxRev /\ Sound(calling, rev, draft, unseen)
  BY DEF CallHears, SessionInv, RequestsSound, Requests, PageTypes
<1>2. /\ calling.kind = busy /\ calling.base \in Nat /\ calling.token \in 0..MaxToken
  BY <1>1 DEF CallingKnown, Sound, ServerRequests
<1>3. UNCHANGED page /\ UNCHANGED unseen /\ strays' \subseteq Requests /\ calling' = NoRequest
  BY DEF CallHears, Requests
<1>4. (inFlight' = inFlight /\ saving' = saving) \/ SendSave
  BY DEF CallHears, KeepSave
<1>5. busy' = "none"
  BY DEF CallHears, PublishDone, UnpublishDone, ResetDone, PublishConflicts,
         TransitionRefused, ResetConflicts, ResetFails, ResetNotDone
<1>6. SendCall  BY <1>3, <1>5 DEF SendCall
<1>7. CASE calling.answer = "done" /\ ResetDone(calling.base + 1, calling.document)
  <2>1. calling.kind = "reset"  BY <1>2, <1>7 DEF ResetDone
  <2>2. /\ calling.base + 1 <= rev /\ calling.document \in Docs
        /\ calling.base + 1 = rev => ~unseen /\ draft = calling.document
    BY <1>1, <1>7, <2>1 DEF Sound, Writes, Written
  <2>3. calling.base + 1 \in 0..MaxRev  BY <1>1, <1>2, <2>2
  <2>4. EditorSteps
    BY <1>7, <2>2, <2>3 DEF EditorSteps, CallHeard
  <2>5. draftRev' = calling.base + 1 /\ stored' = calling.document
    BY <1>7 DEF ResetDone
  <2>6. TabReads'  BY <1>3, <2>2, <2>5 DEF TabReads, Reads, page
  <2>7. QED  BY <1>3, <1>4, <1>6, <2>4, <2>6, TabFollows
<1>8. CASE \/ PublishDone(calling.token) \/ UnpublishDone \/ PublishConflicts
           \/ TransitionRefused \/ ResetConflicts \/ ResetFails
  <2>1. EditorSteps
    BY <1>2, <1>8 DEF EditorSteps, CallHeard
  <2>2. UNCHANGED <<draftRev, stored>>
    BY <1>8 DEF PublishDone, UnpublishDone, PublishConflicts, TransitionRefused,
                ResetConflicts, ResetFails, ResetNotDone, controller
  <2>3. TabReads'  BY <1>1, <1>3, <2>2, TabReadsStay
  <2>4. QED  BY <1>3, <1>4, <1>6, <2>1, <2>3, TabFollows
<1>9. QED  BY <1>7, <1>8 DEF CallHears

LEMMA FailuresKeep ==
  ASSUME SessionInv, Told, SaveFailsToAnswer \/ CallFailsToAnswer
  PROVE  SessionInv'
<1>1. CASE SaveFailsToAnswer
  <2>1. SaveFails \/ SaveRefusedBeforeReset  BY <1>1 DEF SaveFailsToAnswer
  <2>2. EditorSteps  BY <2>1 DEF EditorSteps, SaveHeard, SaveHeardBeforeReset
  <2>3. UNCHANGED <<draftRev, stored>>
    BY <2>1 DEF SaveFails, SaveRefusedBeforeReset
  <2>4. strays' \subseteq Requests
    BY <1>1 DEF SaveFailsToAnswer, Cut, Strays, Requests
  <2>5. /\ UNCHANGED page /\ UNCHANGED unseen
        /\ SendSave
        /\ (busy' = busy /\ calling' = calling) \/ SendCall
    BY <1>1 DEF SaveFailsToAnswer, KeepCall
  <2>6. TabReads'  BY <2>3, <2>5, TabReadsStay DEF SessionInv
  <2>7. QED  BY <2>2, <2>4, <2>5, <2>6, TabFollows
<1>2. CASE CallFailsToAnswer
  <2>1. TransitionRefused \/ ResetFails  BY <1>2 DEF CallFailsToAnswer
  <2>2. EditorSteps  BY <2>1 DEF EditorSteps, CallHeard
  <2>3. UNCHANGED <<draftRev, stored>> /\ busy' = "none"
    BY <2>1 DEF TransitionRefused, ResetFails, ResetNotDone, controller
  <2>4. strays' \subseteq Requests /\ \A r \in strays' : r.answer = "none"
    BY <1>2 DEF CallFailsToAnswer, Cut, Strays, Requests, Told, BasesHeard
  <2>5. /\ UNCHANGED page /\ calling' = NoRequest
        /\ (inFlight' = inFlight /\ saving' = saving) \/ SendSave
        /\ SendCall
    BY <1>2, <2>3 DEF CallFailsToAnswer, KeepSave, SendCall
  <2>6. CASE unseen' = unseen
    <3>1. TabReads'  BY <2>3, <2>5, <2>6, TabReadsStay DEF SessionInv
    <3>2. QED  BY <2>2, <2>4, <2>5, <2>6, <3>1, TabFollows
  <2>7. CASE unseen' # unseen
    <3>1. unseen' = TRUE /\ calling # NoRequest
          /\ calling.kind = "reset" /\ calling.answer = "done"
      BY <1>2, <2>7 DEF CallFailsToAnswer, SessionInv, PageTypes
    <3>2. /\ rev \in Nat /\ draftRev \in Nat /\ UNCHANGED <<draft, rev>>
          /\ \A r \in Requests : r.base \in Nat /\ Sound(r, rev, draft, unseen)
      <4>1. PageTypes /\ TypeOK /\ RequestsSound  BY DEF SessionInv
      <4>2. rev \in Nat /\ draftRev \in Nat
        BY <4>1, EditorAssumption DEF PageTypes, TypeOK
      <4>3. \A r \in Requests : r.base \in Nat /\ Sound(r, rev, draft, unseen)
        BY <4>1 DEF RequestsSound, Sound, ServerRequests
      <4>4. QED  BY <2>5, <4>2, <4>3 DEF page
    <3>3. calling.base = draftRev /\ calling.base + 1 <= rev
      BY <3>1, <3>2 DEF Told, BasesHeard, Requests, Sound, Writes
    <3>4. draftRev < rev  BY <3>2, <3>3
    <3>5. TabReads'  BY <2>3, <3>2, <3>4 DEF TabReads, Reads
    <3>6. saving = NoRequest
      BY <3>1 DEF SessionInv, CallingKnown, SavingKnown, EditorInv, ResetPhases
    <3>7. inFlight' = inFlight /\ saving' = NoRequest
      <4>1. inFlight = NoDoc  BY <3>6 DEF SessionInv, SavingKnown
      <4>2. inFlight' = inFlight
        BY <2>1 DEF TransitionRefused, ResetFails, ResetNotDone, controller
      <4>3. QED  BY <2>5, <3>6, <4>1, <4>2 DEF SendSave
    <3>8. ASSUME NEW r \in Requests, r \in strays' \cup {saving', calling'}
          PROVE  Sound(r, rev', draft', unseen')
      <4>1. r # NoRequest
        BY <3>2, SessionAssumption DEF Sound
      <4>2. r.answer = "none"  BY <2>4, <2>5, <3>7, <3>8, <4>1
      <4>3. r.kind # "unpublish" => r.base < rev
        BY <3>2, <3>4 DEF Told, BasesHeard
      <4>4. Sound(r, rev, draft, unseen) /\ r.base \in Nat  BY <3>2
      <4>5. QED  BY <3>2, <4>2, <4>3, <4>4 DEF Sound
    <3>9. unseen' \in BOOLEAN  BY <3>1
    <3>10. QED  BY <2>2, <2>4, <2>5, <3>5, <3>8, <3>9, TabSends
  <2>8. QED  BY <2>6, <2>7
<1>3. QED  BY <1>1, <1>2

LEMMA ElsewhereKeeps ==
  ASSUME SessionInv, Elsewhere
  PROVE  SessionInv' /\ (unseen => unseen')
<1>1. /\ UNCHANGED vars /\ UNCHANGED <<saving, calling, strays>>
      /\ rev' <= MaxRev /\ token' <= MaxToken
  BY DEF Elsewhere, network
<1>2. PageTypes  BY DEF SessionInv
<1>3. /\ PageTypes' /\ PageMoves(rev, draft, unseen, rev', draft', unseen')
      /\ unseen => unseen'
  <2>1. CASE \E d \in Docs : Page!Save(d) /\ unseen' = TRUE
    <3>1. /\ draft' \in Docs /\ rev' = rev + 1 /\ unseen' = TRUE
          /\ UNCHANGED <<snapshot, public, token, held>>
      BY <2>1 DEF Page!Save
    <3>2. QED  BY <1>1, <1>2, <3>1, EditorAssumption DEF PageTypes, PageMoves
  <2>2. CASE Page!Publish /\ UNCHANGED unseen
    <3>1. /\ snapshot' = draft /\ public' = TRUE /\ token' = token + 1
          /\ UNCHANGED <<draft, rev, held, unseen>>
      BY <2>2 DEF Page!Publish
    <3>2. QED  BY <1>1, <1>2, <3>1, EditorAssumption DEF PageTypes, PageMoves
  <2>3. CASE Page!Hide /\ UNCHANGED unseen
    <3>1. /\ public' = FALSE /\ held' \in {held, TRUE}
          /\ UNCHANGED <<draft, rev, snapshot, token, unseen>>
      BY <2>3 DEF Page!Hide
    <3>2. QED  BY <1>2, <3>1 DEF PageTypes, PageMoves
  <2>4. CASE Page!ClearHold /\ UNCHANGED unseen
    <3>1. held' = FALSE /\ UNCHANGED <<draft, rev, snapshot, public, token, unseen>>
      BY <2>4 DEF Page!ClearHold
    <3>2. QED  BY <1>2, <3>1 DEF PageTypes, PageMoves
  <2>5. QED  BY <2>1, <2>2, <2>3, <2>4 DEF Elsewhere
<1>4. SavingKnown' /\ CallingKnown'
  BY <1>1 DEF SessionInv, SavingKnown, CallingKnown, vars, controller
<1>5. Requests' = Requests  BY <1>1 DEF Requests
<1>6. QED  BY <1>1, <1>3, <1>4, <1>5, PageFollows

LEMMA ReloadKeeps ==
  ASSUME SessionInv, Reload
  PROVE  SessionInv' /\ UNCHANGED page /\ document' = draft
<1> USE EditorAssumption
<1>1. PageTypes /\ UNCHANGED page /\ unseen' = FALSE  BY DEF SessionInv, Reload
<1>2. UNCHANGED <<draft, rev, snapshot, public, token, held>>  BY <1>1 DEF page
<1>3. PageTypes'  BY <1>1, <1>2 DEF PageTypes
<1>4. /\ isPublished' \in BOOLEAN /\ hasPublishedSnapshot' \in BOOLEAN
      /\ publicationToken' \in 0..MaxToken
  <2>1. isPublished' \in BOOLEAN  BY <1>1 DEF Reload, PageTypes
  <2>2. hasPublishedSnapshot' \in BOOLEAN  BY DEF Reload
  <2>3. publicationToken' \in 0..MaxToken  BY <1>1 DEF Reload, PageTypes
  <2>4. QED  BY <2>1, <2>2, <2>3
<1>5. /\ state' = "saved" /\ draftRev' = rev /\ document' = draft /\ stored' = draft
      /\ pending' = NoDoc /\ inFlight' = NoDoc /\ timer' = FALSE /\ paused' = FALSE
      /\ resetting' = FALSE /\ discarded' = NoDoc /\ restoreState' = "saved"
      /\ busy' = "none" /\ saving' = NoRequest /\ calling' = NoRequest
  BY DEF Reload, NoContext
<1>6. TypeOK'
  <2>1. /\ state' \in AutosaveState /\ restoreState' \in ResetRestoreState
        /\ busy' \in Busy
    BY <1>5 DEF AutosaveState, ResetRestoreState, Busy
  <2>2. timer' \in BOOLEAN /\ paused' \in BOOLEAN /\ resetting' \in BOOLEAN
    BY <1>5
  <2>3. draftRev' \in 0..MaxRev /\ document' \in Docs /\ stored' \in Docs
    BY <1>1, <1>5 DEF PageTypes
  <2>4. QED  BY <1>4, <1>5, <2>1, <2>2, <2>3 DEF TypeOK
<1>7. EditorInv'
  BY <1>1, <1>5 DEF EditorInv, ResetPhases, StateTellsWork, EditsAccountedFor,
        NoEditStranded, PageTypes
<1>8. SavingKnown' /\ CallingKnown'
  BY <1>5 DEF SavingKnown, CallingKnown
<1>9. RequestsSound'
  <2>1. strays' \subseteq Requests  BY DEF Reload, Strays, Requests
  <2>2. Requests' \subseteq Requests  BY <2>1, <1>5 DEF Requests
  <2>3. rev \in Nat /\ rev' \in Nat /\ PageMoves(rev, draft, unseen, rev', draft', unseen')
    BY <1>1, <1>2 DEF PageTypes, PageMoves
  <2>4. QED  BY <2>2, <2>3, SoundStays DEF SessionInv, RequestsSound
<1>10. TabReads'  BY <1>1, <1>2, <1>5 DEF TabReads, Reads, PageTypes
<1>11. QED  BY <1>1, <1>3, <1>5, <1>6, <1>7, <1>8, <1>9, <1>10 DEF SessionInv

\* Every step of the session keeps what is known.
LEMMA SessionInvNext ==
  ASSUME SessionInv, Told, [SessionNext]_sessionVars PROVE SessionInv'
<1>1. CASE UNCHANGED sessionVars
  <2>1. UNCHANGED <<vars, page, network, unseen>>  BY <1>1 DEF sessionVars
  <2>2. inFlight' = inFlight /\ busy' = busy /\ UNCHANGED <<draftRev, stored>>
    BY <2>1 DEF vars, controller
  <2>3. UNCHANGED <<saving, calling, strays>>  BY <2>1 DEF network
  <2>4. TabReads'  BY <2>1, <2>2, TabReadsStay DEF SessionInv
  <2>5. strays' \subseteq Requests  BY <2>3 DEF Requests
  <2>6. QED  BY <2>1, <2>2, <2>3, <2>4, <2>5, TabFollows
<1>2. CASE SaveArrives \/ CallArrives \/ StrayArrives
  <2>1. UNCHANGED vars  BY <1>2 DEF SaveArrives, CallArrives, StrayArrives
  <2>2. QED  BY <1>2, <2>1, ServerFollows
<1>3. QED
  BY <1>1, <1>2, TabActsKeep, SaveHearsKeeps, CallHearsKeeps, FailuresKeep,
     ElsewhereKeeps, ReloadKeeps DEF SessionNext

\* Nothing that is told is forgotten by a step that leaves the page alone and
\* sends only fresh requests.
LEMMA ToldStays ==
  ASSUME SessionInv, SessionInv', Told, UNCHANGED page, unseen => unseen',
         saving' = saving \/ SendSave, calling' = calling \/ SendCall,
         strays' \subseteq Requests, \A r \in strays' : r.answer = "none",
         draftRev <= draftRev',
         saving' = saving /\ saving # NoRequest => draftRev' = draftRev,
         calling' = calling /\ calling # NoRequest /\ calling.kind = "reset"
           => draftRev' = draftRev,
         Settled' /\ ~ResetAnswered' => stored' = draft \/ unseen'
  PROVE  Told'
<1> USE SessionAssumption
<1>1. /\ draftRev \in Nat /\ draftRev' \in Nat /\ publicationToken' \in Nat
      /\ stored' \in Docs /\ inFlight' \in Docs \cup {NoDoc} /\ busy' \in Busy
  BY EditorAssumption DEF SessionInv, TypeOK
<1>2. draft' = draft  BY DEF page
<1>3. \/ saving' = saving
      \/ saving' = NoRequest
      \/ saving' # NoRequest /\ saving'.base = draftRev' /\ saving'.answer = "none"
  <2>1. CASE inFlight' = NoDoc /\ SendSave  BY <2>1 DEF SendSave
  <2>2. CASE inFlight' # NoDoc /\ SendSave
    <3>1. saving' = Request("autosave", inFlight', draftRev')  BY <2>2 DEF SendSave
    <3>2. /\ saving' \in ServerRequests
          /\ saving'.base = draftRev' /\ saving'.answer = "none"
      BY <3>1, <1>1, FreshRequest
    <3>3. QED  BY <3>2
  <2>3. QED  BY <2>1, <2>2
<1>4. \/ calling' = calling
      \/ calling' = NoRequest
      \/ /\ calling' # NoRequest /\ calling'.answer = "none"
         /\ calling'.kind # "unpublish" => calling'.base = draftRev'
  <2>1. CASE SendCall /\ busy' = "publish"
    <3>1. calling' = Request("publish", stored', draftRev')  BY <2>1 DEF SendCall
    <3>2. /\ calling' \in ServerRequests
          /\ calling'.base = draftRev' /\ calling'.answer = "none"
      BY <3>1, <1>1, FreshRequest
    <3>3. QED  BY <3>2
  <2>2. CASE SendCall /\ busy' = "unpublish"
    <3>1. calling' = Request("unpublish", NoDoc, publicationToken')  BY <2>2 DEF SendCall
    <3>2. /\ calling' \in ServerRequests
          /\ calling'.kind = "unpublish" /\ calling'.answer = "none"
      BY <3>1, <1>1, FreshRequest
    <3>3. QED  BY <3>2
  <2>3. CASE SendCall /\ busy' = "reset"
    <3>1. calling' = Request("reset", NoDoc, draftRev')  BY <2>3 DEF SendCall
    <3>2. /\ calling' \in ServerRequests
          /\ calling'.base = draftRev' /\ calling'.answer = "none"
      BY <3>1, <1>1, FreshRequest
    <3>3. QED  BY <3>2
  <2>4. CASE SendCall /\ busy' \notin {"publish", "unpublish", "reset"}
    BY <2>4 DEF SendCall
  <2>5. QED  BY <2>1, <2>2, <2>3, <2>4
<1>5. \A r \in Requests : r.base \in Nat
  BY DEF SessionInv, RequestsSound, Sound, ServerRequests
<1>6. \A r \in Requests : r.kind # "unpublish" => r.base <= draftRev'
  BY <1>1, <1>5 DEF Told, BasesHeard
<1>7. BasesHeard'
  <2>1. saving' # NoRequest => saving'.base = draftRev'
    BY <1>3 DEF Told, BasesHeard
  <2>2. calling' # NoRequest /\ calling'.kind = "reset" => calling'.base = draftRev'
    BY <1>4 DEF Told, BasesHeard
  <2>3. ASSUME NEW r \in Requests', r.kind # "unpublish" PROVE r.base <= draftRev'
    <3>1. CASE r \in Requests  BY <1>6, <2>3, <3>1
    <3>2. CASE r = saving' /\ r # NoRequest  BY <1>1, <2>1, <3>2
    <3>3. CASE r = calling' /\ r # NoRequest
      <4>1. CASE calling' = calling  BY <1>6, <2>3, <3>3, <4>1 DEF Requests
      <4>2. CASE calling' # calling  BY <1>1, <1>4, <2>3, <3>3, <4>2
      <4>3. QED  BY <4>1, <4>2
    <3>4. QED  BY <2>3, <3>1, <3>2, <3>3 DEF Requests
  <2>4. QED  BY <2>1, <2>2, <2>3 DEF BasesHeard
<1>8. AnswersHold'
  <2>1. saving' # NoRequest /\ saving'.answer = "done" => draft' = saving'.doc \/ unseen'
    BY <1>2, <1>3 DEF Told, AnswersHold
  <2>2. calling' # NoRequest /\ calling'.kind = "reset" /\ calling'.answer = "done"
          => draft' = calling'.document \/ unseen'
    BY <1>2, <1>4 DEF Told, AnswersHold
  <2>3. QED  BY <2>1, <2>2 DEF AnswersHold
<1>9. SettledHolds'  BY <1>2 DEF SettledHolds
<1>10. QED  BY <1>7, <1>8, <1>9 DEF Told

\* Where the editor is settled, the document on screen is the acknowledged one.
LEMMA SettledShows ==
  ASSUME TypeOK, EditorInv, Settled
  PROVE  document = stored /\ inFlight = NoDoc
<1> USE DEF EditorInv, ResetPhases, StateTellsWork, EditsAccountedFor
<1>1. CASE state = "saved" /\ ~resetting  BY <1>1
<1>2. CASE busy = "reset" /\ discarded = NoDoc  BY <1>2
<1>3. QED  BY <1>1, <1>2 DEF Settled

LEMMA ToldInit == ASSUME SessionInit PROVE Told
<1>1. saving = NoRequest /\ calling = NoRequest /\ strays = {} /\ stored = draft
  BY DEF SessionInit, Init
<1>2. Requests = {}  BY <1>1 DEF Requests
<1>3. QED  BY <1>1, <1>2 DEF Told, BasesHeard, AnswersHold, SettledHolds

LEMMA ToldTabActs == ASSUME SessionInv, SessionInv', Told, TabActs PROVE Told'
<1>1. /\ TypeOK /\ EditorInv /\ SavingKnown /\ CallingKnown
      /\ draftRev \in Nat
  BY EditorAssumption DEF SessionInv, TypeOK
<1>2. UNCHANGED <<draftRev, stored>> /\ (busy = "reset" => busy' = busy)
  <2>1. UNCHANGED <<draftRev, stored>>
    BY DEF TabActs, OwnerActs, TimerFires, Edit, PressPublish, PressRetry,
           PressUnpublish, PressReset, controller
  <2>2. busy = "reset" => busy' = busy
    BY DEF TabActs, OwnerActs, TimerFires, Edit, PressPublish, PressRetry,
           PressUnpublish, PressReset, SettleFlush
  <2>3. QED  BY <2>1, <2>2
<1>3. Settled' => Settled
  <2>1. CASE TimerFires
    BY <1>1, <2>1 DEF TimerFires, SettleFlush, BeginSave, SameContext, Settled
  <2>2. CASE \E d \in Docs : Edit(d)
    <3>1. PICK d \in Docs : Edit(d)  BY <2>2
    <3>2. CASE QueueDuringReset(d)
      BY <1>1, <3>1, <3>2 DEF Edit, QueueDuringReset, Settled, EditorInv, ResetPhases
    <3>3. CASE QueueInConflict(d) \/ QueueEdit(d)
      BY <1>1, <3>1, <3>3 DEF Edit, QueueInConflict, QueueEdit, SameContext, Settled,
           EditorInv, ResetPhases
    <3>4. QED  BY <3>1, <3>2, <3>3 DEF Edit
  <2>3. CASE PressPublish
    BY <1>1, <2>3 DEF PressPublish, FlushPending, BeginSave, SameContext, Settled
  <2>4. CASE PressRetry
    BY <1>1, <2>4 DEF PressRetry, FlushPending, BeginSave, SameContext, Settled,
         EditorInv, ResetPhases, StateTellsWork
  <2>5. CASE PressUnpublish
    BY <1>1, <2>5 DEF PressUnpublish, controller, Settled, EditorInv, ResetPhases
  <2>6. CASE PressReset
    BY <1>1, <2>6 DEF PressReset, ResetRestore, Settled, EditorInv, ResetPhases,
         StateTellsWork, TypeOK, AutosaveState
  <2>7. QED  BY <2>1, <2>2, <2>3, <2>4, <2>5, <2>6 DEF TabActs, OwnerActs
<1>4. /\ UNCHANGED page /\ UNCHANGED unseen /\ strays' = strays
      /\ saving' = saving \/ SendSave
      /\ calling' = calling \/ SendCall
  BY DEF TabActs, KeepSave, KeepCall
<1>5. strays' \subseteq Requests /\ \A r \in strays' : r.answer = "none"
  BY <1>4 DEF Requests, Told, BasesHeard
<1>6. Settled' /\ ~ResetAnswered' => stored' = draft \/ unseen'
  <2>1. CASE ~ResetAnswered  BY <1>2, <1>3, <1>4, <2>1 DEF Told, SettledHolds
  <2>2. CASE ResetAnswered
    <3>1. busy = "reset"  BY <1>1, <2>2 DEF ResetAnswered, CallingKnown
    <3>2. calling' = calling  BY <1>2, <3>1 DEF TabActs, KeepCall
    <3>3. QED  BY <2>2, <3>2 DEF ResetAnswered
  <2>3. QED  BY <2>1, <2>2
<1>7. draftRev <= draftRev'  BY <1>1, <1>2
<1>8. QED  BY <1>2, <1>4, <1>5, <1>6, <1>7, ToldStays

\* A request that others have overtaken is refused, and one that has not writes
\* what its answer then tells, or leaves the tab with an unseen draft.
LEMMA ToldServer ==
  ASSUME SessionInv, SessionInv', Told, UNCHANGED vars,
         SaveArrives \/ CallArrives \/ StrayArrives
  PROVE  Told'
<1> USE SessionAssumption
<1>1. /\ TypeOK /\ EditorInv /\ PageTypes /\ SavingKnown /\ CallingKnown /\ RequestsSound
      /\ rev \in Nat /\ draftRev \in Nat
      /\ \A r \in Requests : r \in ServerRequests /\ r.base \in Nat
  <2>1. PageTypes /\ TypeOK /\ RequestsSound  BY DEF SessionInv
  <2>2. rev \in Nat /\ draftRev \in Nat
    BY <2>1, EditorAssumption DEF PageTypes, TypeOK
  <2>3. \A r \in Requests : r \in ServerRequests /\ r.base \in Nat
    BY <2>1 DEF RequestsSound, Sound, ServerRequests
  <2>4. QED  BY <2>2, <2>3 DEF SessionInv
<1>2. /\ UNCHANGED <<state, resetting, busy, restoreState, discarded, stored, document,
                     draftRev, inFlight>>
      /\ Settled' <=> Settled
  <2>1. UNCHANGED <<state, resetting, busy, restoreState, discarded, stored, document,
                    draftRev, inFlight>>
    BY DEF vars, controller
  <2>2. QED  BY <2>1 DEF Settled
<1>3. /\ inFlight # NoDoc => ~Settled /\ busy # "reset"
      /\ saving # NoRequest <=> inFlight # NoDoc
  <2>1. inFlight # NoDoc => ~Settled  BY <1>1, SettledShows
  <2>2. inFlight # NoDoc => busy # "reset"  BY <1>1 DEF EditorInv, ResetPhases
  <2>3. QED  BY <1>1, <2>1, <2>2 DEF SavingKnown
<1>4. CASE SaveArrives
  <2>1. /\ saving # NoRequest /\ saving \in Requests /\ saving.answer = "none"
        /\ Handle(saving) /\ unseen' = unseen /\ saving' = Answered(saving)
        /\ calling' = calling /\ strays' = strays
    BY <1>4 DEF SaveArrives, Requests
  <2>2. Sound(saving, rev, draft, unseen) /\ saving.kind = "autosave"
    BY <1>1, <2>1 DEF RequestsSound, SavingKnown
  <2>3. /\ saving'.kind = "autosave" /\ saving'.doc = saving.doc
        /\ saving'.base = saving.base /\ saving'.answer = Outcome(saving)
    BY <1>1, <2>1, <2>2, AnsweredIsSound
  <2>4. Outcome(saving) = "done" => draft' = saving.doc
    BY <1>1, <2>1, <2>2, HandleMoves DEF Writes
  <2>5. inFlight # NoDoc /\ ~Settled /\ busy # "reset"  BY <1>3, <2>1
  <2>6. calling # NoRequest => calling.kind # "reset"
    BY <1>1, <2>5 DEF CallingKnown
  <2>7. BasesHeard'
    <3>1. \A r \in Requests' : r \in Requests \/ r = saving'
      BY <2>1 DEF Requests
    <3>2. QED  BY <1>2, <2>1, <2>2, <2>3, <2>6, <3>1 DEF Told, BasesHeard
  <2>8. AnswersHold'  BY <2>1, <2>3, <2>4, <2>6 DEF AnswersHold
  <2>9. SettledHolds'  BY <1>2, <2>5 DEF SettledHolds
  <2>10. QED  BY <2>7, <2>8, <2>9 DEF Told
<1>5. CASE CallArrives
  <2>1. /\ calling # NoRequest /\ calling \in Requests /\ calling.answer = "none"
        /\ Handle(calling) /\ unseen' = unseen /\ calling' = Answered(calling)
        /\ saving' = saving /\ strays' = strays
    BY <1>5 DEF CallArrives, Requests
  <2>2. Sound(calling, rev, draft, unseen) /\ calling.kind = busy
    BY <1>1, <2>1 DEF RequestsSound, CallingKnown
  <2>3. /\ calling'.kind = calling.kind /\ calling'.document = draft'
        /\ calling'.base = calling.base /\ calling'.answer = Outcome(calling)
    BY <1>1, <2>1, <2>2, AnsweredIsSound
  <2>4. /\ calling.kind # "autosave"
        /\ Outcome(calling) # "done" \/ calling.kind # "reset" => draft' = draft
    <3>1. busy \in {"publish", "unpublish", "reset"}
      BY <1>1, <2>1 DEF CallingKnown
    <3>2. calling.kind # "autosave"  BY <2>2, <3>1
    <3>3. (rev' = rev /\ draft' = draft) \/ rev' = rev + 1
      BY <1>1, <2>1, <2>2, HandleMoves
    <3>4. rev' # rev => Writes(calling)  BY <1>1, <2>1, <2>2, HandleMoves
    <3>5. Outcome(calling) # "done" => draft' = draft  BY <1>1, <2>1, <2>2, HandleMoves
    <3>6. calling.kind # "reset" => draft' = draft
      BY <1>1, <3>2, <3>3, <3>4 DEF Writes
    <3>7. QED  BY <3>2, <3>5, <3>6
  <2>5. saving # NoRequest => draft' = draft
    BY <1>3, <2>2, <2>4
  <2>6. BasesHeard'
    <3>1. \A r \in Requests' : r \in Requests \/ r = calling'
      BY <2>1 DEF Requests
    <3>2. QED  BY <1>2, <2>1, <2>3, <3>1 DEF Told, BasesHeard
  <2>7. AnswersHold'  BY <2>1, <2>3, <2>5 DEF Told, AnswersHold
  <2>8. SettledHolds'
    <3>1. calling' # NoRequest
      BY <1>1, <1>2, <2>1 DEF SessionInv, CallingKnown
    <3>2. ~ResetAnswered' => draft' = draft
      BY <2>3, <2>4, <3>1 DEF ResetAnswered
    <3>3. ~ResetAnswered  BY <2>1 DEF ResetAnswered
    <3>4. QED  BY <1>2, <2>1, <3>2, <3>3 DEF Told, SettledHolds
  <2>9. QED  BY <2>6, <2>7, <2>8 DEF Told
<1>6. CASE StrayArrives
  <2>1. PICK r \in strays :
          /\ Handle(r) /\ strays' = strays \ {r} /\ UNCHANGED <<saving, calling>>
          /\ unseen' = (unseen \/ (rev' # rev /\ draft' # document))
    BY <1>6 DEF StrayArrives
  <2>2. r \in Requests /\ Sound(r, rev, draft, unseen)
    BY <1>1, <2>1 DEF RequestsSound, Requests
  <2>3. BasesHeard'
    <3>1. Requests' \subseteq Requests  BY <2>1 DEF Requests
    <3>2. QED  BY <1>2, <2>1, <3>1 DEF Told, BasesHeard
  <2>4. CASE draft' = draft
    <3>1. unseen => unseen'  BY <2>1
    <3>2. AnswersHold' /\ SettledHolds'
      BY <1>2, <2>1, <2>4, <3>1 DEF Told, AnswersHold, SettledHolds, ResetAnswered
    <3>3. QED  BY <2>3, <3>2 DEF Told
  <2>5. CASE unseen'
    BY <2>3, <2>5 DEF Told, AnswersHold, SettledHolds
  <2>6. CASE draft' # draft /\ ~unseen'
    <3>1. rev' # rev  BY <1>1, <2>1, <2>2, <2>6, HandleMoves
    <3>2. draft' = document  BY <2>1, <2>6, <3>1
    <3>3. Writes(r) /\ r.base = rev  BY <1>1, <2>1, <2>2, <3>1, HandleMoves
    <3>4. rev <= draftRev  BY <2>2, <3>3 DEF Told, BasesHeard, Writes
    <3>5. saving # NoRequest => saving.answer # "done"
      <4>1. SUFFICES ASSUME saving # NoRequest, saving.answer = "done" PROVE FALSE
        OBVIOUS
      <4>2. saving \in Requests /\ saving.kind = "autosave" /\ saving.base = draftRev
        BY <1>1, <4>1 DEF Requests, SavingKnown, Told, BasesHeard
      <4>3. saving.base + 1 <= rev
        BY <1>1, <4>1, <4>2 DEF RequestsSound, Sound, Writes
      <4>4. QED  BY <1>1, <3>4, <4>2, <4>3
    <3>6. ~ResetAnswered
      <4>1. SUFFICES ASSUME ResetAnswered PROVE FALSE
        OBVIOUS
      <4>2. calling \in Requests /\ calling.base = draftRev
        BY <4>1 DEF ResetAnswered, Requests, Told, BasesHeard
      <4>3. calling.base + 1 <= rev
        BY <1>1, <4>1, <4>2 DEF ResetAnswered, RequestsSound, Sound, Writes
      <4>4. QED  BY <1>1, <3>4, <4>2, <4>3
    <3>7. AnswersHold'  BY <2>1, <3>5, <3>6 DEF AnswersHold, ResetAnswered
    <3>8. SettledHolds'
      <4>1. Settled => document = stored  BY <1>1, SettledShows
      <4>2. QED  BY <1>2, <3>2, <4>1 DEF SettledHolds
    <3>9. QED  BY <2>3, <3>7, <3>8 DEF Told
  <2>7. QED  BY <2>4, <2>5, <2>6
<1>7. QED  BY <1>4, <1>5, <1>6

LEMMA ToldElsewhere == ASSUME SessionInv, SessionInv', Told, Elsewhere PROVE Told'
<1>1. /\ UNCHANGED <<state, resetting, busy, restoreState, discarded, stored, draftRev>>
      /\ UNCHANGED <<saving, calling, strays>>
  BY DEF Elsewhere, vars, controller, network
<1>2. unseen' \/ (draft' = draft /\ unseen' = unseen)
  BY DEF Elsewhere, Page!Publish, Page!Hide, Page!ClearHold
<1>3. (Settled' <=> Settled) /\ (ResetAnswered' <=> ResetAnswered) /\ Requests' = Requests
  BY <1>1 DEF Settled, ResetAnswered, Requests
<1>4. BasesHeard'  BY <1>1, <1>3 DEF Told, BasesHeard
<1>5. AnswersHold' /\ SettledHolds'
  BY <1>1, <1>2, <1>3 DEF Told, AnswersHold, SettledHolds
<1>6. QED  BY <1>4, <1>5 DEF Told

LEMMA ToldReload == ASSUME SessionInv, SessionInv', Told, Reload PROVE Told'
<1>1. /\ saving' = NoRequest /\ calling' = NoRequest
      /\ stored' = draft /\ draft' = draft /\ draftRev' = rev /\ rev \in Nat
  BY EditorAssumption DEF Reload, page, SessionInv, PageTypes
<1>2. Requests' = strays' /\ strays' \subseteq Requests
  BY <1>1 DEF Reload, Strays, Requests
<1>3. \A r \in Requests' : r.kind # "unpublish" => r.base <= draftRev'
  BY <1>1, <1>2 DEF SessionInv, RequestsSound, Sound
<1>4. \A r \in strays' : r.answer = "none"
  BY DEF Reload, Strays, Told, BasesHeard
<1>5. QED  BY <1>1, <1>3, <1>4 DEF Told, BasesHeard, AnswersHold, SettledHolds

LEMMA ToldSaveHears == ASSUME SessionInv, SessionInv', Told, SaveHears PROVE Told'
<1> USE SessionAssumption
<1>1. /\ TypeOK /\ EditorInv /\ SavingKnown /\ CallingKnown
      /\ saving # NoRequest /\ draftRev \in Nat
  BY EditorAssumption DEF SessionInv, SaveHears, TypeOK
<1>2. /\ saving.kind = "autosave" /\ saving.doc = inFlight /\ inFlight # NoDoc
      /\ saving.base = draftRev /\ busy # "reset"
  BY <1>1 DEF SavingKnown, Told, BasesHeard, EditorInv, ResetPhases
<1>3. calling = NoRequest \/ calling.kind # "reset"
  BY <1>1, <1>2 DEF CallingKnown
<1>4. /\ UNCHANGED page /\ UNCHANGED unseen /\ strays' = strays
      /\ SendSave
      /\ calling' = calling \/ SendCall
  BY DEF SaveHears, KeepCall
<1>5. strays' \subseteq Requests /\ \A r \in strays' : r.answer = "none"
  BY <1>4 DEF Requests, Told, BasesHeard
<1>6. CASE saving.answer = "done" /\
           (SaveAccepted(saving.base + 1) \/ SaveAcceptedBeforeReset(saving.base + 1))
  <2>1. draft = inFlight \/ unseen  BY <1>1, <1>2, <1>6 DEF Told, AnswersHold
  <2>2. draftRev' = draftRev + 1 /\ stored' = inFlight
    BY <1>2, <1>6 DEF SaveAccepted, SaveAcceptedBeforeReset
  <2>3. draftRev <= draftRev'  BY <1>1, <2>2
  <2>4. stored' = draft \/ unseen'  BY <1>4, <2>1, <2>2
  <2>5. saving' # saving \/ saving' = NoRequest
    <3>1. CASE inFlight' = NoDoc  BY <1>4, <3>1 DEF SendSave
    <3>2. CASE inFlight' # NoDoc
      <4>1. saving' = Request("autosave", inFlight', draftRev')
        BY <1>4, <3>2 DEF SendSave
      <4>2. inFlight' \in Docs \cup {NoDoc} /\ draftRev' \in Nat
        BY EditorAssumption DEF SessionInv, TypeOK
      <4>3. saving'.answer = "none"  BY <4>1, <4>2, FreshRequest
      <4>4. QED  BY <1>6, <4>3
    <3>3. QED  BY <3>1, <3>2
  <2>6. QED  BY <1>1, <1>3, <1>4, <1>5, <2>3, <2>4, <2>5, ToldStays
<1>7. CASE SaveConflicts \/ (SaveRefusedBeforeReset /\ restoreState' = "conflict")
  <2>1. draftRev' = draftRev  BY <1>7 DEF SaveConflicts, SaveRefusedBeforeReset
  <2>2. ~Settled'
    <3>1. CASE SaveConflicts
      BY <1>1, <1>2, <3>1 DEF SaveConflicts, SettleFlush, Settled
    <3>2. CASE SaveRefusedBeforeReset
      BY <1>1, <3>2 DEF SaveRefusedBeforeReset, SaveBeforeReset, Settled
    <3>3. QED  BY <1>7, <3>1, <3>2
  <2>3. draftRev <= draftRev'  BY <1>1, <2>1
  <2>4. QED  BY <1>3, <1>4, <1>5, <2>1, <2>2, <2>3, ToldStays
<1>8. QED  BY <1>6, <1>7 DEF SaveHears

LEMMA ToldCallHears == ASSUME SessionInv, SessionInv', Told, CallHears PROVE Told'
<1> USE SessionAssumption
<1>1. /\ TypeOK /\ EditorInv /\ SavingKnown /\ CallingKnown
      /\ calling # NoRequest /\ draftRev \in Nat /\ calling.kind = busy
  BY EditorAssumption DEF SessionInv, CallHears, TypeOK, CallingKnown
<1>2. /\ UNCHANGED page /\ UNCHANGED unseen /\ strays' = strays /\ calling' = NoRequest
      /\ saving' = saving \/ SendSave
  BY DEF CallHears, KeepSave
<1>3. strays' \subseteq Requests /\ \A r \in strays' : r.answer = "none"
  BY <1>2 DEF Requests, Told, BasesHeard
<1>4. busy' = "none"
  BY DEF CallHears, PublishDone, UnpublishDone, ResetDone, PublishConflicts,
         TransitionRefused, ResetConflicts, ResetFails, ResetNotDone
<1>5. SendCall  BY <1>2, <1>4 DEF SendCall
<1>6. CASE calling.answer = "done" /\ ResetDone(calling.base + 1, calling.document)
  <2>1. calling.kind = "reset" /\ busy = "reset"  BY <1>1, <1>6 DEF ResetDone
  <2>2. calling.base = draftRev /\ (draft = calling.document \/ unseen)
    BY <1>1, <1>6, <2>1 DEF Told, BasesHeard, AnswersHold
  <2>3. draftRev' = draftRev + 1 /\ stored' = calling.document
    BY <1>6, <2>2 DEF ResetDone
  <2>4. saving = NoRequest
    BY <1>1, <2>1 DEF SavingKnown, EditorInv, ResetPhases
  <2>5. draftRev <= draftRev' /\ (stored' = draft \/ unseen')
    BY <1>1, <1>2, <2>2, <2>3
  <2>6. calling' # calling  BY <1>1, <1>2
  <2>7. QED  BY <1>2, <1>3, <1>5, <2>4, <2>5, <2>6, ToldStays
<1>7. CASE PublishDone(calling.token) \/ UnpublishDone \/ TransitionRefused
  <2>1. UNCHANGED <<draftRev, stored>> /\ busy # "reset" /\ (Settled' => Settled)
    BY <1>4, <1>7 DEF PublishDone, UnpublishDone, TransitionRefused, controller, Settled
  <2>2. ~ResetAnswered  BY <1>1, <2>1 DEF ResetAnswered
  <2>3. Settled' => stored' = draft \/ unseen'
    BY <1>2, <2>1, <2>2 DEF Told, SettledHolds
  <2>4. draftRev <= draftRev'  BY <1>1, <2>1
  <2>5. QED  BY <1>2, <1>3, <1>5, <2>1, <2>3, <2>4, ToldStays
<1>8. CASE PublishConflicts \/ ResetConflicts
  <2>1. draftRev' = draftRev /\ ~Settled'
    BY <1>4, <1>8 DEF PublishConflicts, ResetConflicts, ResetNotDone, RestoreAs, Settled
  <2>2. draftRev <= draftRev'  BY <1>1, <2>1
  <2>3. QED  BY <1>2, <1>3, <1>5, <2>1, <2>2, ToldStays
<1>9. CASE calling.answer = "refused" /\ ResetFails
  <2>1. UNCHANGED <<draftRev, stored>> /\ (Settled' => Settled) /\ ~ResetAnswered
    BY <1>4, <1>9 DEF ResetFails, ResetNotDone, RestoreAs, Settled, ResetAnswered
  <2>2. Settled' => stored' = draft \/ unseen'
    BY <1>2, <2>1 DEF Told, SettledHolds
  <2>3. draftRev <= draftRev'  BY <1>1, <2>1
  <2>4. QED  BY <1>2, <1>3, <1>5, <2>1, <2>2, <2>3, ToldStays
<1>10. QED  BY <1>6, <1>7, <1>8, <1>9 DEF CallHears

LEMMA ToldFailures ==
  ASSUME SessionInv, SessionInv', Told, SaveFailsToAnswer \/ CallFailsToAnswer
  PROVE  Told'
<1> USE SessionAssumption
<1>1. TypeOK /\ EditorInv /\ SavingKnown /\ CallingKnown /\ draftRev \in Nat
  BY EditorAssumption DEF SessionInv, TypeOK
<1>2. /\ strays' \subseteq Requests
      /\ \A r \in strays' : r.answer = "none"
  BY DEF SaveFailsToAnswer, CallFailsToAnswer, Cut, Strays, Requests, Told, BasesHeard
<1>3. CASE SaveFailsToAnswer
  <2>1. SaveFails \/ (SaveRefusedBeforeReset /\ restoreState' = "failed")
    BY <1>3 DEF SaveFailsToAnswer
  <2>2. draftRev' = draftRev  BY <2>1 DEF SaveFails, SaveRefusedBeforeReset
  <2>3. ~Settled'
    <3>1. CASE SaveFails
      BY <1>1, <3>1 DEF SaveFails, SettleFlush, Settled, EditorInv, ResetPhases
    <3>2. CASE SaveRefusedBeforeReset
      BY <1>1, <3>2 DEF SaveRefusedBeforeReset, SaveBeforeReset, Settled
    <3>3. QED  BY <2>1, <3>1, <3>2
  <2>4. /\ UNCHANGED page /\ UNCHANGED unseen
        /\ SendSave
        /\ calling' = calling \/ SendCall
    BY <1>3 DEF SaveFailsToAnswer, KeepCall
  <2>5. draftRev <= draftRev'  BY <1>1, <2>2
  <2>6. QED  BY <1>2, <2>2, <2>3, <2>4, <2>5, ToldStays
<1>4. CASE CallFailsToAnswer
  <2>1. /\ calling # NoRequest /\ calling.kind = busy
        /\ TransitionRefused \/ ResetFails
        /\ calling' = NoRequest
        /\ UNCHANGED page /\ (unseen => unseen')
        /\ saving' = saving \/ SendSave
        /\ (ResetAnswered => unseen' \/ draft = document)
    BY <1>1, <1>4 DEF CallFailsToAnswer, CallingKnown, KeepSave, ResetAnswered
  <2>2. UNCHANGED <<draftRev, stored, document>> /\ busy' = "none"
    BY <2>1 DEF TransitionRefused, ResetFails, ResetNotDone, controller
  <2>3. SendCall  BY <2>1, <2>2 DEF SendCall
  <2>4. Settled' => Settled
    <3>1. CASE TransitionRefused
      BY <2>2, <3>1 DEF TransitionRefused, controller, Settled
    <3>2. CASE ResetFails
      BY <2>2, <3>2 DEF ResetFails, ResetNotDone, RestoreAs, Settled
    <3>3. QED  BY <2>1, <3>1, <3>2
  <2>5. Settled' => stored' = draft \/ unseen'
    <3>1. CASE ResetAnswered
      <4>1. Settled => document = stored  BY <1>1, SettledShows
      <4>2. QED  BY <2>1, <2>2, <2>4, <3>1, <4>1
    <3>2. CASE ~ResetAnswered
      BY <2>1, <2>2, <2>4, <3>2 DEF Told, SettledHolds
    <3>3. QED  BY <3>1, <3>2
  <2>6. draftRev <= draftRev'  BY <1>1, <2>2
  <2>7. QED  BY <1>2, <2>1, <2>2, <2>3, <2>5, <2>6, ToldStays
<1>5. QED  BY <1>3, <1>4

LEMMA ToldNext ==
  ASSUME SessionInv, SessionInv', Told, [SessionNext]_sessionVars
  PROVE  Told'
<1>1. CASE UNCHANGED sessionVars
  <2>1. UNCHANGED <<state, resetting, busy, restoreState, discarded, stored, draftRev,
                    saving, calling, strays, draft, unseen>>
    BY <1>1 DEF sessionVars, vars, controller, network, page
  <2>2. QED
    BY <2>1 DEF Told, BasesHeard, AnswersHold, SettledHolds, Settled, ResetAnswered, Requests
<1>2. CASE SaveArrives \/ CallArrives \/ StrayArrives
  <2>1. UNCHANGED vars  BY <1>2 DEF SaveArrives, CallArrives, StrayArrives
  <2>2. QED  BY <1>2, <2>1, ToldServer
<1>3. QED
  BY <1>1, <1>2, ToldTabActs, ToldSaveHears, ToldCallHears, ToldFailures,
     ToldElsewhere, ToldReload DEF SessionNext

LEMMA TroubleCountedNext ==
  ASSUME TroubleCounted, [SessionNext]_sessionVars PROVE TroubleCounted'
<1>1. trouble' = trouble \/ trouble' = trouble + 1
  BY DEF SessionNext, sessionVars, TabActs, SaveArrives, CallArrives, StrayArrives,
         SaveHears, CallHears, SaveFailsToAnswer, CallFailsToAnswer, Elsewhere,
         Reload, Cut, Trouble
<1>2. QED  BY <1>1 DEF TroubleCounted

-----------------------------------------------------------------------------
(* "Saved" on the status line is true of the stored draft, and the editor    *)
(* keeps every promise of its own, in every session.                         *)
LEMMA SavedFollows == ASSUME SessionInv, Told PROVE SavedIsTrue
<1>1. ASSUME state = "saved", ~resetting PROVE draft = document \/ unseen
  <2>1. Settled  BY <1>1 DEF Settled
  <2>2. document = stored  BY <2>1, SettledShows DEF SessionInv
  <2>3. ~ResetAnswered
    BY <1>1 DEF SessionInv, ResetAnswered, CallingKnown, EditorInv, ResetPhases
  <2>4. QED  BY <2>1, <2>2, <2>3 DEF Told, SettledHolds
<1>2. QED  BY <1>1 DEF SavedIsTrue

LEMMA UnseenStays ==
  ASSUME SessionInv, TroubleCounted, [SessionNext]_sessionVars, unseen
  PROVE  (rev' = rev \/ trouble' # trouble) /\ (unseen' \/ document' = draft')
<1>1. CASE Reload
  <2>1. UNCHANGED page /\ document' = draft  BY <1>1, ReloadKeeps
  <2>2. QED  BY <2>1 DEF page
<1>2. CASE SaveArrives \/ CallArrives \/ StrayArrives
  <2>1. UNCHANGED vars  BY <1>2 DEF SaveArrives, CallArrives, StrayArrives
  <2>2. QED  BY <1>2, <2>1, ServerFollows
<1>3. CASE Elsewhere
  <2>1. trouble' = trouble + 1  BY <1>3 DEF Elsewhere, Trouble
  <2>2. QED  BY <1>3, <2>1, ElsewhereKeeps DEF TroubleCounted
<1>4. CASE TabActs \/ SaveHears \/ CallHears \/ SaveFailsToAnswer \/ CallFailsToAnswer
  BY <1>4 DEF TabActs, SaveHears, CallHears, SaveFailsToAnswer, CallFailsToAnswer, page
<1>5. CASE UNCHANGED sessionVars  BY <1>5 DEF sessionVars, page
<1>6. QED  BY <1>1, <1>2, <1>3, <1>4, <1>5 DEF SessionNext

LEMMA LiveFollows ==
  ASSUME SessionInv, TroubleCounted, [SessionNext]_sessionVars,
         token' # token, trouble' = trouble
  PROVE  \E r \in Requests : r.kind = "publish" /\ snapshot' = r.doc
<1>1. \A r \in Requests : Handle(r) => r.kind = "publish" /\ snapshot' = r.doc
  BY HandleMoves DEF SessionInv, RequestsSound
<1>2. CASE SaveArrives \/ CallArrives \/ StrayArrives
  <2>1. \E r \in Requests : Handle(r)
    BY <1>2 DEF SaveArrives, CallArrives, StrayArrives, Requests
  <2>2. QED  BY <1>1, <2>1
<1>3. CASE Elsewhere
  <2>1. UNCHANGED <<saving, calling, strays>> /\ trouble' = trouble + 1
    BY <1>3 DEF Elsewhere, Trouble, network
  <2>2. QED  BY <2>1 DEF TroubleCounted
<1>4. ~Reload /\ ~TabActs /\ ~SaveHears /\ ~CallHears
      /\ ~SaveFailsToAnswer /\ ~CallFailsToAnswer
  BY DEF Reload, TabActs, SaveHears, CallHears, SaveFailsToAnswer, CallFailsToAnswer, page
<1>5. ~UNCHANGED sessionVars  BY DEF sessionVars, page
<1>6. QED  BY <1>2, <1>3, <1>4, <1>5 DEF SessionNext

(* Whatever the network, the others at the page and reloads do, the editor   *)
(* says "saved" of what is stored unless the row holds a draft its tab has   *)
(* not read, nothing the tab sends replaces such a draft, and it makes       *)
(* public only what its owner saw stored.                                    *)
THEOREM SessionsAreHonest == SessionSpec => SessionsHonest
<1>1. SessionSpec => [](SessionInv /\ Told)
  <2>1. SessionInit => SessionInv /\ Told  BY SessionInvInit, ToldInit
  <2>2. SessionInv /\ Told /\ [SessionNext]_sessionVars => SessionInv' /\ Told'
    BY SessionInvNext, ToldNext
  <2>3. QED  BY <2>1, <2>2, PTL DEF SessionSpec
<1>2. SessionInv /\ Told => SavedIsTrue  BY SavedFollows
<1>3. SessionInv /\ TroubleCounted /\ [SessionNext]_sessionVars
        => [unseen => /\ rev' = rev \/ trouble' # trouble
                      /\ unseen' \/ document' = draft']_sessionVars
  BY UnseenStays
<1>4. SessionInv /\ TroubleCounted /\ [SessionNext]_sessionVars
        => [token' # token => \/ trouble' # trouble
                              \/ \E r \in Requests : r.kind = "publish" /\ snapshot' = r.doc]_sessionVars
  BY LiveFollows
<1>5. SessionSpec => []TroubleCounted
  <2>1. SessionInit => TroubleCounted  BY DEF SessionInit, TroubleCounted
  <2>2. QED  BY <2>1, TroubleCountedNext, PTL DEF SessionSpec
<1>6. QED
  BY <1>1, <1>2, <1>3, <1>4, <1>5, PTL
     DEF SessionSpec, SessionsHonest, UnseenDraftsAreKept, LiveIsWhatWasShown

(***************************************************************************)
(* Sequences: what the operators that rearrange a page do to them.         *)
(***************************************************************************)

\* A sequence with one more element at a place.
LEMMA InsertAtIs ==
  ASSUME NEW S, NEW s \in Seq(S), NEW i \in 1..Len(s) + 1, NEW e \in S
  PROVE  /\ InsertAt(s, i, e) \in Seq(S)
         /\ Len(InsertAt(s, i, e)) = Len(s) + 1
         /\ \A k \in 1..Len(s) + 1 :
              InsertAt(s, i, e)[k] = IF k < i THEN s[k] ELSE IF k = i THEN e ELSE s[k - 1]
<1>1. PICK a : a = SubSeq(s, 1, i - 1)  OBVIOUS
<1>2. PICK b : b = SubSeq(s, i, Len(s))  OBVIOUS
<1>3. Len(s) \in Nat /\ i \in Nat /\ i >= 1 /\ i <= Len(s) + 1  OBVIOUS
<1>4. a \in Seq(S) /\ Len(a) = i - 1 /\ \A k \in 1..i - 1 : a[k] = s[k]
  BY <1>1, <1>3
<1>5. b \in Seq(S) /\ Len(b) = Len(s) + 1 - i /\ \A k \in 1..Len(s) + 1 - i : b[k] = s[i + k - 1]
  BY <1>2, <1>3
<1>6. PICK ae : ae = a \o <<e>>  OBVIOUS
<1>7. ae \in Seq(S) /\ Len(ae) = i /\ ae[i] = e /\ \A k \in 1..i - 1 : ae[k] = s[k]
  BY <1>3, <1>4, <1>6
<1>8. InsertAt(s, i, e) = ae \o b
  BY <1>1, <1>2, <1>6 DEF InsertAt
<1>9. ae \o b \in Seq(S) /\ Len(ae \o b) = Len(s) + 1
  BY <1>3, <1>5, <1>7
<1>10. ASSUME NEW k \in 1..Len(s) + 1
       PROVE  (ae \o b)[k] = IF k < i THEN s[k] ELSE IF k = i THEN e ELSE s[k - 1]
  <2>1. CASE k <= i  BY <1>3, <1>5, <1>7, <2>1
  <2>2. CASE k > i
    <3>1. k - i \in 1..Len(s) + 1 - i  BY <1>3, <2>2
    <3>2. (ae \o b)[k] = b[k - i]  BY <1>3, <1>5, <1>7, <2>2
    <3>3. QED  BY <1>3, <1>5, <2>2, <3>1, <3>2
  <2>3. k <= i \/ k > i  BY <1>3
  <2>4. QED  BY <2>1, <2>2, <2>3
<1>11. QED  BY <1>8, <1>9, <1>10

\* A sequence without the element at a place.
LEMMA RemoveAtIs ==
  ASSUME NEW S, NEW s \in Seq(S), NEW i \in 1..Len(s)
  PROVE  /\ RemoveAt(s, i) \in Seq(S)
         /\ Len(RemoveAt(s, i)) = Len(s) - 1
         /\ \A k \in 1..Len(s) - 1 : RemoveAt(s, i)[k] = IF k < i THEN s[k] ELSE s[k + 1]
<1>1. PICK a : a = SubSeq(s, 1, i - 1)  OBVIOUS
<1>2. PICK b : b = SubSeq(s, i + 1, Len(s))  OBVIOUS
<1>3. Len(s) \in Nat /\ i \in Nat /\ i >= 1 /\ i <= Len(s)  OBVIOUS
<1>4. a \in Seq(S) /\ Len(a) = i - 1 /\ \A k \in 1..i - 1 : a[k] = s[k]
  BY <1>1, <1>3
<1>5. b \in Seq(S) /\ Len(b) = Len(s) - i /\ \A k \in 1..Len(s) - i : b[k] = s[i + k]
  BY <1>2, <1>3
<1>6. RemoveAt(s, i) = a \o b  BY <1>1, <1>2 DEF RemoveAt
<1>7. a \o b \in Seq(S) /\ Len(a \o b) = Len(s) - 1
  <2>1. a \in Seq(S) /\ b \in Seq(S)  BY <1>4, <1>5
  <2>2. a \o b \in Seq(S) /\ Len(a \o b) = Len(a) + Len(b)  BY <2>1
  <2>3. Len(a) = i - 1 /\ Len(b) = Len(s) - i  BY <1>4, <1>5
  <2>4. QED  BY <2>2, <2>3, <1>3
<1>8. ASSUME NEW k \in 1..Len(s) - 1 PROVE (a \o b)[k] = IF k < i THEN s[k] ELSE s[k + 1]
  <2>1. CASE k < i  BY <1>3, <1>4, <1>5, <2>1
  <2>2. CASE k >= i
    <3>1. k - (i - 1) \in 1..Len(s) - i  BY <1>3, <2>2
    <3>2. (a \o b)[k] = b[k - (i - 1)]  BY <1>3, <1>4, <1>5, <2>2
    <3>3. QED  BY <1>3, <1>5, <2>2, <3>1, <3>2
  <2>3. k < i \/ k >= i  BY <1>3
  <2>4. QED  BY <2>1, <2>2, <2>3
<1>9. QED  BY <1>6, <1>7, <1>8

\* A sequence with another element at a place.
LEMMA ReplaceAtIs ==
  ASSUME NEW S, NEW s \in Seq(S), NEW i \in 1..Len(s), NEW e \in S
  PROVE  /\ ReplaceAt(s, i, e) \in Seq(S)
         /\ Len(ReplaceAt(s, i, e)) = Len(s)
         /\ \A k \in 1..Len(s) : ReplaceAt(s, i, e)[k] = IF k = i THEN e ELSE s[k]
<1>1. ReplaceAt(s, i, e) = [s EXCEPT ![i] = e]  BY DEF ReplaceAt
<1>2. QED  BY <1>1

-----------------------------------------------------------------------------
(* Pages: entries of one block or, for a row, of two. *)

Entry == {entry \in Seq(Block) : Len(entry) \in {1, 2}}
Layouts == Seq(Entry)

\* An entry has a block at its first side and, if it is a row, one at its second.
LEMMA EntryIs ==
  ASSUME NEW entry \in Entry
  PROVE  /\ entry \in Seq(Block)
         /\ entry[1] \in Block /\ 1 \in DOMAIN entry
         /\ Len(entry) = 1 => DOMAIN entry = {1}
         /\ Len(entry) = 2 => DOMAIN entry = {1, 2} /\ entry[2] \in Block
         /\ Len(entry) = 1 \/ Len(entry) = 2
         /\ IsRow(entry) <=> Len(entry) = 2
         /\ \A s \in DOMAIN entry : entry[s] \in Block /\ s \in {1, 2}
<1>1. PICK B : B = Block  OBVIOUS
<1>2. entry \in Seq(B) /\ Len(entry) \in {1, 2}  BY <1>1 DEF Entry
<1>3. DOMAIN entry = 1..Len(entry) /\ \A s \in 1..Len(entry) : entry[s] \in B  BY <1>2
<1>4. 1..1 = {1} /\ 1..2 = {1, 2}  OBVIOUS
<1>5. QED  BY <1>1, <1>2, <1>3, <1>4 DEF IsRow

\* What two blocks in a row, or one alone, are.
LEMMA EntryOf ==
  ASSUME NEW a \in Block, NEW b \in Block
  PROVE  /\ <<a>> \in Entry /\ Len(<<a>>) = 1 /\ <<a>>[1] = a
         /\ <<a, b>> \in Entry /\ Len(<<a, b>>) = 2 /\ <<a, b>>[1] = a /\ <<a, b>>[2] = b
<1>1. PICK B : B = Block  OBVIOUS
<1>2. <<a>> \in Seq(B) /\ <<a, b>> \in Seq(B)  BY <1>1
<1>3. QED  BY <1>1, <1>2 DEF Entry

\* The places of a page.
LEMMA PlaceIs ==
  ASSUME NEW doc \in Layouts, NEW p
  PROVE  p \in LeafPlaces(doc) <=> \E i \in 1..Len(doc) : \E s \in DOMAIN doc[i] : p = <<i, s>>
<1>1. DOMAIN doc = 1..Len(doc)  BY DEF Layouts
<1>2. QED  BY <1>1 DEF LeafPlaces

\* A place is an entry and a side of it.
LEMMA PlaceSides ==
  ASSUME NEW doc \in Layouts, NEW p \in LeafPlaces(doc)
  PROVE  /\ p[1] \in 1..Len(doc) /\ p[2] \in DOMAIN doc[p[1]] /\ p[2] \in {1, 2}
         /\ p = <<p[1], p[2]>> /\ doc[p[1]] \in Entry
         /\ LeafAt(doc, p) \in Block
<1>0. PICK i \in 1..Len(doc) : \E s \in DOMAIN doc[i] : p = <<i, s>>  BY PlaceIs
<1>1. PICK s \in DOMAIN doc[i] : p = <<i, s>>  BY <1>0
<1>2. doc[i] \in Entry  BY DEF Layouts
<1>3. doc[i][s] \in Block /\ s \in {1, 2}  BY <1>2, EntryIs
<1>4. QED  BY <1>1, <1>2, <1>3 DEF LeafAt

\* There are finitely many.
LEMMA PlacesFinite ==
  ASSUME NEW doc \in Layouts
  PROVE  IsFiniteSet(LeafPlaces(doc)) /\ Size(doc) \in Nat
<1>1. PICK n \in Nat : n = Len(doc)  BY DEF Layouts
<1>2. LeafPlaces(doc) \subseteq (1..n) \X {1, 2}
  <2>1. ASSUME NEW p \in LeafPlaces(doc) PROVE p \in (1..n) \X {1, 2}
    BY <1>1, PlaceSides
  <2>2. QED  BY <2>1
<1>3. IsFiniteSet((1..n) \X {1, 2})
  <2>1. IsFiniteSet(1..n)  BY FS_Interval
  <2>2. IsFiniteSet({1}) /\ IsFiniteSet({1} \cup {2})  BY FS_EmptySet, FS_AddElement, FS_Singleton
  <2>3. {1} \cup {2} = {1, 2}  OBVIOUS
  <2>4. QED  BY <2>1, <2>2, <2>3, FS_Product
<1>4. IsFiniteSet(LeafPlaces(doc))  BY <1>2, <1>3, FS_Subset
<1>5. QED  BY <1>4, FS_CardinalityType DEF Size

-----------------------------------------------------------------------------
(* Rearranging a page.  Every operation of document-ops.ts takes the blocks  *)
(* of the new page from places of the old one, no two from the same place,   *)
(* apart from the new blocks it puts at some places.                         *)

SameLeaves(d, e, f) == \A p \in DOMAIN f : LeafAt(e, p) = LeafAt(d, f[p])
Carries(d, e, new) ==
  /\ new \subseteq LeafPlaces(e)
  /\ \E f \in Injection(LeafPlaces(e) \ new, LeafPlaces(d)) : SameLeaves(d, e, f)
\* All blocks but those at some places are still there.
Retains(d, e, gone) ==
  \A p \in LeafPlaces(d) \ gone : \E q \in LeafPlaces(e) : LeafAt(e, q) = LeafAt(d, p)

\* The blocks at some places are not.
Drops(d, e, gone) ==
  \A q \in LeafPlaces(e) : \E p \in LeafPlaces(d) \ gone : LeafAt(e, q) = LeafAt(d, p)

\* A page is no larger than what it took over and what is new.
LEMMA CarriedSize ==
  ASSUME NEW d \in Layouts, NEW e \in Layouts, NEW new, Carries(d, e, new)
  PROVE  /\ IsFiniteSet(new) /\ Cardinality(new) \in Nat
         /\ Size(e) <= Size(d) + Cardinality(new)
<1>1. IsFiniteSet(LeafPlaces(d)) /\ IsFiniteSet(LeafPlaces(e)) /\ Size(d) \in Nat /\ Size(e) \in Nat
  BY PlacesFinite
<1>2. PICK f \in Injection(LeafPlaces(e) \ new, LeafPlaces(d)) : SameLeaves(d, e, f)
  BY DEF Carries
<1>3. PICK old : old = LeafPlaces(e) \ new  OBVIOUS
<1>4. new \subseteq LeafPlaces(e)  BY DEF Carries
<1>5. IsFiniteSet(new) /\ Cardinality(new) \in Nat  BY <1>1, <1>4, FS_Subset, FS_CardinalityType
<1>6. IsFiniteSet(old) /\ Cardinality(old) <= Size(d)
  BY <1>1, <1>2, <1>3, FS_Injection DEF Size
<1>7. LeafPlaces(e) = old \cup new /\ old \cap new = {}  BY <1>3, <1>4
<1>8. Cardinality(old \cup new) = Cardinality(old) + Cardinality(new) - Cardinality(old \cap new)
  BY <1>5, <1>6, FS_Union
<1>9. Cardinality(old \cap new) = 0  BY <1>7, FS_EmptySet
<1>10. Cardinality(old) \in Nat  BY <1>6, FS_CardinalityType
<1>11. Size(e) = Cardinality(old) + Cardinality(new)  BY <1>5, <1>7, <1>8, <1>9, <1>10 DEF Size
<1>12. QED  BY <1>1, <1>5, <1>6, <1>10, <1>11

PlacesOf(doc, type) == {p \in LeafPlaces(doc) : LeafAt(doc, p).type = type}

\* Nor has it more blocks of a type.
LEMMA CarriedCount ==
  ASSUME NEW d \in Layouts, NEW e \in Layouts, NEW new, Carries(d, e, new), NEW type
  PROVE  /\ Count(e, type) \in Nat /\ Count(d, type) \in Nat
         /\ Cardinality({p \in new : LeafAt(e, p).type = type}) \in Nat
         /\ Count(e, type) <= Count(d, type) + Cardinality({p \in new : LeafAt(e, p).type = type})
<1>1. IsFiniteSet(LeafPlaces(d)) /\ IsFiniteSet(LeafPlaces(e))  BY PlacesFinite
<1>2. PICK f \in Injection(LeafPlaces(e) \ new, LeafPlaces(d)) : SameLeaves(d, e, f)
  BY DEF Carries
<1>3. PICK fresh : fresh = {p \in new : LeafAt(e, p).type = type}  OBVIOUS
<1>4. PICK old : old = PlacesOf(e, type) \ new  OBVIOUS
<1>5. new \subseteq LeafPlaces(e)  BY DEF Carries
<1>6. Count(e, type) = Cardinality(PlacesOf(e, type)) /\ Count(d, type) = Cardinality(PlacesOf(d, type))
  BY DEF Count, PlacesOf
<1>7. IsFiniteSet(PlacesOf(d, type)) /\ IsFiniteSet(PlacesOf(e, type)) /\ IsFiniteSet(fresh)
  <2>1. PlacesOf(d, type) \subseteq LeafPlaces(d) /\ PlacesOf(e, type) \subseteq LeafPlaces(e)
        /\ fresh \subseteq LeafPlaces(e)
    BY <1>3, <1>5 DEF PlacesOf
  <2>2. QED  BY <1>1, <2>1, FS_Subset
<1>8. PICK g : g = [p \in old |-> f[p]]  OBVIOUS
<1>9. g \in Injection(old, PlacesOf(d, type))
  <2>1. \A p \in old : p \in LeafPlaces(e) \ new /\ LeafAt(e, p).type = type  BY <1>4 DEF PlacesOf
  <2>2. f \in [LeafPlaces(e) \ new -> LeafPlaces(d)] /\ \A p, q \in LeafPlaces(e) \ new : f[p] = f[q] => p = q
    BY <1>2 DEF Injection, IsInjective
  <2>3. \A p \in old : LeafAt(d, f[p]).type = type /\ f[p] \in LeafPlaces(d)
    BY <1>2, <2>1, <2>2 DEF SameLeaves
  <2>4. g \in [old -> PlacesOf(d, type)]  BY <1>8, <2>3 DEF PlacesOf
  <2>5. \A p, q \in old : g[p] = g[q] => p = q  BY <1>8, <2>1, <2>2
  <2>6. QED  BY <2>4, <2>5 DEF Injection, IsInjective
<1>10. IsFiniteSet(old) /\ Cardinality(old) <= Count(d, type)
  BY <1>6, <1>7, <1>9, FS_Injection
<1>11. PlacesOf(e, type) = old \cup fresh /\ old \cap fresh = {}
  BY <1>3, <1>4, <1>5 DEF PlacesOf
<1>12. Cardinality(old \cup fresh) = Cardinality(old) + Cardinality(fresh) - Cardinality(old \cap fresh)
  BY <1>7, <1>10, FS_Union
<1>13. Cardinality(old \cap fresh) = 0  BY <1>11, FS_EmptySet
<1>14. /\ Cardinality(old) \in Nat /\ Cardinality(fresh) \in Nat
       /\ Count(e, type) \in Nat /\ Count(d, type) \in Nat
  BY <1>6, <1>7, <1>10, FS_CardinalityType
<1>15. Count(e, type) = Cardinality(old) + Cardinality(fresh)  BY <1>6, <1>11, <1>12, <1>13, <1>14
<1>16. QED  BY <1>3, <1>10, <1>14, <1>15

\* Whole entries that go from place to place carry their blocks.
LEMMA EntriesCarried ==
  ASSUME NEW d \in Layouts, NEW e \in Layouts, NEW K \in SUBSET (1..Len(e)),
         NEW g \in Injection(1..Len(e) \ K, 1..Len(d)),
         \A k \in 1..Len(e) \ K : e[k] = d[g[k]]
  PROVE  Carries(d, e, {p \in LeafPlaces(e) : p[1] \in K})
<1>1. PICK new : new = {p \in LeafPlaces(e) : p[1] \in K}  OBVIOUS
<1>2. PICK old : old = LeafPlaces(e) \ new  OBVIOUS
<1>3. PICK f : f = [p \in old |-> <<g[p[1]], p[2]>>]  OBVIOUS
<1>4. g \in [1..Len(e) \ K -> 1..Len(d)]
      /\ \A k, l \in 1..Len(e) \ K : g[k] = g[l] => k = l
  BY DEF Injection, IsInjective
<1>5. ASSUME NEW p \in old
      PROVE  /\ p[1] \in 1..Len(e) \ K /\ p = <<p[1], p[2]>>
             /\ f[p] \in LeafPlaces(d) /\ f[p] = <<g[p[1]], p[2]>> /\ LeafAt(d, f[p]) = LeafAt(e, p)
  <2>1. p \in LeafPlaces(e) /\ p[1] \notin K  BY <1>1, <1>2
  <2>2. p[1] \in 1..Len(e) /\ p[2] \in DOMAIN e[p[1]] /\ p = <<p[1], p[2]>>  BY <2>1, PlaceSides
  <2>3. g[p[1]] \in 1..Len(d) /\ e[p[1]] = d[g[p[1]]]  BY <1>4, <2>1, <2>2
  <2>4. f[p] = <<g[p[1]], p[2]>>  BY <1>3
  <2>5. f[p] \in LeafPlaces(d)  BY <2>2, <2>3, <2>4, PlaceIs
  <2>6. QED  BY <2>1, <2>2, <2>3, <2>4, <2>5 DEF LeafAt
<1>6. f \in [old -> LeafPlaces(d)]  BY <1>3, <1>5
<1>7. \A p, q \in old : f[p] = f[q] => p = q
  <2>1. SUFFICES ASSUME NEW p \in old, NEW q \in old, f[p] = f[q] PROVE p = q  OBVIOUS
  <2>2. <<g[p[1]], p[2]>> = <<g[q[1]], q[2]>>  BY <2>1, <1>5
  <2>3. g[p[1]] = g[q[1]] /\ p[2] = q[2]  BY <2>2
  <2>4. p[1] = q[1]  BY <2>3, <1>4, <1>5
  <2>5. QED  BY <2>3, <2>4, <1>5
<1>8. f \in Injection(old, LeafPlaces(d))  BY <1>6, <1>7 DEF Injection, IsInjective
<1>9. SameLeaves(d, e, f)
  <2>1. DOMAIN f = old  BY <1>6
  <2>2. QED  BY <1>5, <2>1 DEF SameLeaves
<1>10. new \subseteq LeafPlaces(e)  BY <1>1
<1>11. Carries(d, e, new)  BY <1>2, <1>8, <1>9, <1>10 DEF Carries
<1>12. QED  BY <1>1, <1>11

\* An entry that is found again keeps its blocks on the page.
LEMMA EntriesRetained ==
  ASSUME NEW d \in Layouts, NEW e \in Layouts, NEW gone,
         \A p \in LeafPlaces(d) \ gone : \E k \in 1..Len(e) : e[k] = d[p[1]]
  PROVE  Retains(d, e, gone)
<1>1. ASSUME NEW p \in LeafPlaces(d) \ gone PROVE \E q \in LeafPlaces(e) : LeafAt(e, q) = LeafAt(d, p)
  <2>1. PICK k \in 1..Len(e) : e[k] = d[p[1]]  OBVIOUS
  <2>2. p[2] \in DOMAIN d[p[1]]  BY PlaceSides
  <2>3. <<k, p[2]>> \in LeafPlaces(e)  BY <2>1, <2>2, PlaceIs
  <2>4. LeafAt(e, <<k, p[2]>>) = LeafAt(d, p)  BY <2>1 DEF LeafAt
  <2>5. QED  BY <2>3, <2>4
<1>2. QED  BY <1>1 DEF Retains

\* An entry is put on the page.
LEMMA InsertedIs ==
  ASSUME NEW d \in Layouts, NEW i \in 1..Len(d) + 1, NEW entry \in Entry,
         NEW e, e = InsertAt(d, i, entry)
  PROVE  /\ e \in Layouts
         /\ Carries(d, e, {p \in LeafPlaces(e) : p[1] = i})
         /\ Retains(d, e, {})
         /\ e[i] = entry /\ i \in 1..Len(e)
         /\ \A s : <<i, s>> \in LeafPlaces(e) <=> s \in DOMAIN entry
<1>1. PICK E : E = Entry  OBVIOUS
<1>2. d \in Seq(E) /\ entry \in E  BY <1>1 DEF Layouts
<1>3. PICK n \in Nat : n = Len(d)  BY <1>2
<1>4. /\ e \in Seq(E) /\ Len(e) = n + 1
      /\ \A k \in 1..n + 1 : e[k] = IF k < i THEN d[k] ELSE IF k = i THEN entry ELSE d[k - 1]
  <2>1. PICK r : r = InsertAt(d, i, entry)  OBVIOUS
  <2>2. /\ InsertAt(d, i, entry) \in Seq(E)
        /\ Len(InsertAt(d, i, entry)) = Len(d) + 1
        /\ \A k \in 1..Len(d) + 1 : InsertAt(d, i, entry)[k] =
             IF k < i THEN d[k] ELSE IF k = i THEN entry ELSE d[k - 1]
    BY <1>2, InsertAtIs
  <2>3. /\ r \in Seq(E) /\ Len(r) = n + 1
        /\ \A k \in 1..n + 1 : r[k] = IF k < i THEN d[k] ELSE IF k = i THEN entry ELSE d[k - 1]
    BY <2>1, <2>2, <1>3
  <2>4. QED  BY <2>1, <2>3
<1>5. e \in Layouts  BY <1>1, <1>4 DEF Layouts
<1>6. PICK g : g = [k \in 1..Len(e) \ {i} |-> IF k < i THEN k ELSE k - 1]  OBVIOUS
<1>7. i \in 1..n + 1  BY <1>3
<1>8. g \in Injection(1..Len(e) \ {i}, 1..Len(d))
  <2>1. g \in [1..Len(e) \ {i} -> 1..Len(d)]  BY <1>3, <1>4, <1>6, <1>7
  <2>2. \A k, l \in 1..Len(e) \ {i} : g[k] = g[l] => k = l  BY <1>4, <1>6, <1>7
  <2>3. QED  BY <2>1, <2>2 DEF Injection, IsInjective
<1>9. \A k \in 1..Len(e) \ {i} : e[k] = d[g[k]]  BY <1>4, <1>6, <1>7
<1>10. Carries(d, e, {p \in LeafPlaces(e) : p[1] \in {i}})
  <2>1. PICK K : K = {i}  OBVIOUS
  <2>2. K \in SUBSET (1..Len(e))  BY <1>4, <1>7, <2>1
  <2>3. g \in Injection(1..Len(e) \ K, 1..Len(d)) /\ \A k \in 1..Len(e) \ K : e[k] = d[g[k]]
    BY <1>8, <1>9, <2>1
  <2>4. Carries(d, e, {p \in LeafPlaces(e) : p[1] \in K})  BY <1>5, <2>2, <2>3, EntriesCarried
  <2>5. QED  BY <2>1, <2>4
<1>11. {p \in LeafPlaces(e) : p[1] \in {i}} = {p \in LeafPlaces(e) : p[1] = i}  OBVIOUS
<1>12. Retains(d, e, {})
  <2>1. ASSUME NEW p \in LeafPlaces(d) \ {} PROVE \E k \in 1..Len(e) : e[k] = d[p[1]]
    <3>1. p[1] \in 1..n  BY <1>3, PlaceSides
    <3>2. PICK j \in 1..n : j = p[1]  BY <3>1
    <3>3. CASE j < i
      <4>1. j \in 1..Len(e) /\ e[j] = d[j]  BY <1>4, <1>7, <3>3
      <4>2. QED  BY <3>2, <4>1
    <3>4. CASE ~(j < i)
      <4>1. j + 1 \in 1..Len(e) /\ e[j + 1] = d[j]
        <5>1. j + 1 \in 1..n + 1 /\ ~(j + 1 < i) /\ j + 1 # i /\ (j + 1) - 1 = j  BY <1>7, <3>4
        <5>2. QED  BY <1>4, <5>1
      <4>2. QED  BY <3>2, <4>1
    <3>5. QED  BY <3>3, <3>4
  <2>2. QED  BY <1>5, <2>1, EntriesRetained
<1>13. e[i] = entry /\ i \in 1..Len(e)  BY <1>4, <1>7
<1>14. \A s : <<i, s>> \in LeafPlaces(e) <=> s \in DOMAIN entry  BY <1>5, <1>13, PlaceIs
<1>15. QED  BY <1>5, <1>10, <1>11, <1>12, <1>13, <1>14

\* No new places.
LEMMA CarriesAll ==
  ASSUME NEW d, NEW e, NEW f \in Injection(LeafPlaces(e), LeafPlaces(d)),
         \A p \in LeafPlaces(e) : LeafAt(e, p) = LeafAt(d, f[p])
  PROVE  Carries(d, e, {})
<1>1. LeafPlaces(e) \ {} = LeafPlaces(e)  OBVIOUS
<1>2. DOMAIN f = LeafPlaces(e)  BY DEF Injection
<1>3. SameLeaves(d, e, f)  BY <1>2 DEF SameLeaves
<1>4. f \in Injection(LeafPlaces(e) \ {}, LeafPlaces(d))  BY <1>1
<1>5. QED  BY <1>3, <1>4 DEF Carries

\* Entries that change their places carry their blocks with them.
LEMMA EntriesMoved ==
  ASSUME NEW d \in Layouts, NEW e \in Layouts, NEW g \in Injection(1..Len(e), 1..Len(d)),
         \A k \in 1..Len(e) : e[k] = d[g[k]]
  PROVE  Carries(d, e, {})
<1>1. PICK K : K = {}  OBVIOUS
<1>2. 1..Len(e) \ K = 1..Len(e) /\ K \in SUBSET (1..Len(e))  BY <1>1
<1>3. g \in Injection(1..Len(e) \ K, 1..Len(d)) /\ \A k \in 1..Len(e) \ K : e[k] = d[g[k]]
  BY <1>2
<1>4. Carries(d, e, {p \in LeafPlaces(e) : p[1] \in K})  BY <1>2, <1>3, EntriesCarried
<1>5. {p \in LeafPlaces(e) : p[1] \in K} = {}  BY <1>1
<1>6. QED  BY <1>4, <1>5

\* An entry is taken off the page.
LEMMA RemovedIs ==
  ASSUME NEW d \in Layouts, NEW i \in 1..Len(d), NEW e, e = RemoveAt(d, i)
  PROVE  /\ e \in Layouts /\ Len(e) = Len(d) - 1
         /\ Carries(d, e, {})
         /\ Retains(d, e, {p \in LeafPlaces(d) : p[1] = i})
         /\ Drops(d, e, {p \in LeafPlaces(d) : p[1] = i})
<1>1. PICK E : E = Entry  OBVIOUS
<1>2. d \in Seq(E)  BY <1>1 DEF Layouts
<1>3. PICK n \in Nat : n = Len(d)  BY <1>2
<1>4. /\ e \in Seq(E) /\ Len(e) = n - 1
      /\ \A k \in 1..n - 1 : e[k] = IF k < i THEN d[k] ELSE d[k + 1]
  BY <1>2, <1>3, RemoveAtIs
<1>5. e \in Layouts  BY <1>1, <1>4 DEF Layouts
<1>6. i \in 1..n  BY <1>3
<1>7. PICK g : g = [k \in 1..Len(e) |-> IF k < i THEN k ELSE k + 1]  OBVIOUS
<1>8. g \in Injection(1..Len(e), 1..Len(d))
  <2>1. g \in [1..Len(e) -> 1..Len(d)]  BY <1>3, <1>4, <1>6, <1>7
  <2>2. \A k, l \in 1..Len(e) : g[k] = g[l] => k = l  BY <1>4, <1>6, <1>7
  <2>3. QED  BY <2>1, <2>2 DEF Injection, IsInjective
<1>9. \A k \in 1..Len(e) : e[k] = d[g[k]]  BY <1>4, <1>6, <1>7
<1>10. Carries(d, e, {})  BY <1>5, <1>8, <1>9, EntriesMoved
<1>11. Retains(d, e, {p \in LeafPlaces(d) : p[1] = i})
  <2>1. PICK gone : gone = {p \in LeafPlaces(d) : p[1] = i}  OBVIOUS
  <2>2. ASSUME NEW p \in LeafPlaces(d) \ gone PROVE \E k \in 1..Len(e) : e[k] = d[p[1]]
    <3>1. p[1] \in 1..n  BY <1>3, PlaceSides
    <3>2. PICK j \in 1..n : j = p[1]  BY <3>1
    <3>3. j # i  BY <2>1, <3>2
    <3>4. CASE j < i
      <4>1. j \in 1..n - 1 /\ j \in 1..Len(e)  BY <1>4, <1>6, <3>4
      <4>2. QED  BY <1>4, <3>2, <3>4, <4>1
    <3>5. CASE j > i
      <4>1. j - 1 \in 1..n - 1 /\ ~(j - 1 < i) /\ (j - 1) + 1 = j /\ j - 1 \in 1..Len(e)
        BY <1>4, <1>6, <3>5
      <4>2. e[j - 1] = d[j]  BY <1>4, <4>1
      <4>3. QED  BY <3>2, <4>1, <4>2
    <3>6. QED  BY <1>6, <3>3, <3>4, <3>5
  <2>3. Retains(d, e, gone)  BY <1>5, <2>2, EntriesRetained
  <2>4. QED  BY <2>1, <2>3
<1>12. ASSUME NEW q \in LeafPlaces(e)
       PROVE  \E p \in LeafPlaces(d) \ {p \in LeafPlaces(d) : p[1] = i} : LeafAt(e, q) = LeafAt(d, p)
  <2>1. q[1] \in 1..Len(e) /\ q[2] \in DOMAIN e[q[1]]  BY <1>5, PlaceSides
  <2>2. PICK k : k = g[q[1]]  OBVIOUS
  <2>3. k \in 1..Len(d) /\ k # i /\ e[q[1]] = d[k]
    <3>1. k = IF q[1] < i THEN q[1] ELSE q[1] + 1  BY <1>7, <2>1, <2>2
    <3>2. k \in 1..Len(d) /\ k # i  BY <1>3, <1>4, <1>6, <2>1, <3>1
    <3>3. QED  BY <1>9, <2>1, <2>2, <3>2
  <2>4. PICK p : p = <<k, q[2]>>  OBVIOUS
  <2>5. p \in LeafPlaces(d)  BY <2>1, <2>3, <2>4, PlaceIs
  <2>6. p[1] # i /\ LeafAt(e, q) = LeafAt(d, p)  BY <2>3, <2>4 DEF LeafAt
  <2>7. QED  BY <2>5, <2>6
<1>13. Drops(d, e, {p \in LeafPlaces(d) : p[1] = i})  BY <1>12 DEF Drops
<1>14. QED  BY <1>3, <1>4, <1>5, <1>10, <1>11, <1>13

\* An entry goes to another place.
LEMMA MovedIs ==
  ASSUME NEW d \in Layouts, NEW i \in 1..Len(d), NEW j \in 1..Len(d), NEW e, e = Moved(d, i, j)
  PROVE  e \in Layouts /\ Carries(d, e, {}) /\ Retains(d, e, {})
<1>1. PICK E : E = Entry  OBVIOUS
<1>2. d \in Seq(E) /\ d[i] \in E  BY <1>1 DEF Layouts
<1>3. PICK n \in Nat : n = Len(d)  BY <1>2
<1>4. i \in 1..n /\ j \in 1..n /\ n - 1 \in Nat  BY <1>3
<1>5. PICK r : r = RemoveAt(d, i)  OBVIOUS
<1>6. /\ r \in Seq(E) /\ Len(r) = n - 1
      /\ \A k \in 1..n - 1 : r[k] = IF k < i THEN d[k] ELSE d[k + 1]
  BY <1>2, <1>3, <1>5, RemoveAtIs
<1>7. e = InsertAt(r, j, d[i])  BY <1>5 DEF Moved
<1>8. j \in 1..Len(r) + 1 /\ Len(r) + 1 = n  BY <1>4, <1>6
<1>9. /\ e \in Seq(E) /\ Len(e) = n
      /\ \A k \in 1..n : e[k] = IF k < j THEN r[k] ELSE IF k = j THEN d[i] ELSE r[k - 1]
  BY <1>2, <1>6, <1>7, <1>8, InsertAtIs
<1>10. e \in Layouts  BY <1>1, <1>9 DEF Layouts
<1>11. PICK g : g = [k \in 1..n |->
                      IF k = j THEN i
                      ELSE IF k < j THEN (IF k < i THEN k ELSE k + 1)
                      ELSE (IF k - 1 < i THEN k - 1 ELSE k)]
  OBVIOUS
<1>12. g \in Injection(1..n, 1..n)
  <2>1. g \in [1..n -> 1..n]  BY <1>4, <1>11
  <2>2. \A k, l \in 1..n : g[k] = g[l] => k = l  BY <1>4, <1>11
  <2>3. QED  BY <2>1, <2>2 DEF Injection, IsInjective
<1>13. ASSUME NEW k \in 1..n PROVE e[k] = d[g[k]]
  <2>1. CASE k = j  BY <1>9, <1>11, <2>1
  <2>2. CASE k < j
    <3>1. k \in 1..n - 1 /\ k # j  BY <1>4, <2>2
    <3>2. e[k] = r[k] /\ r[k] = IF k < i THEN d[k] ELSE d[k + 1]  BY <1>6, <1>9, <2>2, <3>1
    <3>3. g[k] = IF k < i THEN k ELSE k + 1  BY <1>11, <2>2, <3>1
    <3>4. QED  BY <3>2, <3>3
  <2>3. CASE k > j
    <3>1. k - 1 \in 1..n - 1 /\ k # j /\ ~(k < j) /\ (k - 1) + 1 = k  BY <1>4, <2>3
    <3>2. e[k] = r[k - 1] /\ r[k - 1] = IF k - 1 < i THEN d[k - 1] ELSE d[k]  BY <1>6, <1>9, <3>1
    <3>3. g[k] = IF k - 1 < i THEN k - 1 ELSE k  BY <1>11, <3>1
    <3>4. QED  BY <3>2, <3>3
  <2>4. k = j \/ k < j \/ k > j  BY <1>4
  <2>5. QED  BY <2>1, <2>2, <2>3, <2>4
<1>14. Carries(d, e, {})  BY <1>3, <1>9, <1>10, <1>12, <1>13, EntriesMoved
<1>15. \A l \in 1..n : \E k \in 1..n : g[k] = l
  <2>1. SUFFICES ASSUME NEW l \in 1..n PROVE \E k \in 1..n : g[k] = l  OBVIOUS
  <2>2. PICK k : k = IF l = i THEN j
                     ELSE IF l < i THEN (IF l < j THEN l ELSE l + 1)
                     ELSE (IF l - 1 < j THEN l - 1 ELSE l)
    OBVIOUS
  <2>3. k \in 1..n  BY <1>4, <2>2
  <2>4. g[k] = IF k = j THEN i
                      ELSE IF k < j THEN (IF k < i THEN k ELSE k + 1)
                      ELSE (IF k - 1 < i THEN k - 1 ELSE k)
    BY <1>11, <2>3
  <2>5. (IF k = j THEN i
                      ELSE IF k < j THEN (IF k < i THEN k ELSE k + 1)
                      ELSE (IF k - 1 < i THEN k - 1 ELSE k)) = l
    BY <1>4, <2>2, <2>3
  <2>6. QED  BY <2>3, <2>4, <2>5
<1>16. Retains(d, e, {})
  <2>1. ASSUME NEW p \in LeafPlaces(d) \ {} PROVE \E k \in 1..Len(e) : e[k] = d[p[1]]
    <3>1. p[1] \in 1..n  BY <1>3, PlaceSides
    <3>2. PICK k \in 1..n : g[k] = p[1]  BY <1>15, <3>1
    <3>3. k \in 1..Len(e) /\ e[k] = d[g[k]]  BY <1>9, <1>13
    <3>4. QED  BY <3>2, <3>3
  <2>2. QED  BY <1>10, <2>1, EntriesRetained
<1>17. QED  BY <1>10, <1>14, <1>16

\* A page with another entry at a place.
LEMMA OtherEntry ==
  ASSUME NEW d \in Layouts, NEW i \in 1..Len(d), NEW entry \in Entry
  PROVE  /\ ReplaceAt(d, i, entry) \in Layouts /\ Len(ReplaceAt(d, i, entry)) = Len(d)
         /\ \A k \in 1..Len(d) : ReplaceAt(d, i, entry)[k] = IF k = i THEN entry ELSE d[k]
<1>1. PICK E : E = Entry  OBVIOUS
<1>2. PICK s \in Seq(E) : s = d  BY <1>1 DEF Layouts
<1>3. entry \in E /\ i \in 1..Len(s)  BY <1>1, <1>2
<1>4. /\ ReplaceAt(s, i, entry) \in Seq(E)
      /\ Len(ReplaceAt(s, i, entry)) = Len(s)
      /\ \A k \in 1..Len(s) : ReplaceAt(s, i, entry)[k] = IF k = i THEN entry ELSE s[k]
  BY <1>3, ReplaceAtIs
<1>5. QED  BY <1>1, <1>2, <1>4 DEF Layouts

\* The blocks of one entry are put differently, or one is left out.
LEMMA EntryReplaced ==
  ASSUME NEW d \in Layouts, NEW i \in 1..Len(d), NEW entry \in Entry,
         NEW h \in Injection(DOMAIN entry, DOMAIN d[i]),
         \A s \in DOMAIN entry : entry[s] = d[i][h[s]],
         NEW gone, \A s \in DOMAIN d[i] : <<i, s>> \in gone \/ \E t \in DOMAIN entry : h[t] = s,
         NEW e, e = ReplaceAt(d, i, entry)
  PROVE  /\ e \in Layouts /\ Carries(d, e, {}) /\ Retains(d, e, gone)
         /\ Len(e) = Len(d) /\ e[i] = entry
<1>3. /\ e \in Layouts /\ Len(e) = Len(d)
      /\ \A k \in 1..Len(d) : e[k] = IF k = i THEN entry ELSE d[k]
  BY OtherEntry
<1>4. e \in Layouts  BY <1>3
<1>5. PICK f : f = [p \in LeafPlaces(e) |-> IF p[1] = i THEN <<i, h[p[2]]>> ELSE p]  OBVIOUS
<1>6. h \in [DOMAIN entry -> DOMAIN d[i]] /\ \A s, t \in DOMAIN entry : h[s] = h[t] => s = t
  BY DEF Injection, IsInjective
<1>7. ASSUME NEW p \in LeafPlaces(e)
      PROVE  /\ f[p] \in LeafPlaces(d) /\ LeafAt(d, f[p]) = LeafAt(e, p)
             /\ p = <<p[1], p[2]>> /\ f[p][1] = p[1]
             /\ p[1] = i => p[2] \in DOMAIN entry /\ f[p] = <<i, h[p[2]]>>
             /\ p[1] # i => f[p] = p
  <2>1. p[1] \in 1..Len(d) /\ p[2] \in DOMAIN e[p[1]] /\ p = <<p[1], p[2]>>  BY <1>3, <1>4, PlaceSides
  <2>2. CASE p[1] = i
    <3>1. p[2] \in DOMAIN entry /\ f[p] = <<i, h[p[2]]>>  BY <1>3, <1>5, <2>1, <2>2
    <3>2. h[p[2]] \in DOMAIN d[i] /\ entry[p[2]] = d[i][h[p[2]]]  BY <1>6, <3>1
    <3>3. f[p] \in LeafPlaces(d)  BY <3>1, <3>2, PlaceIs
    <3>4. LeafAt(d, f[p]) = d[i][h[p[2]]] /\ LeafAt(e, p) = entry[p[2]]
      BY <1>3, <2>1, <2>2, <3>1 DEF LeafAt
    <3>5. QED  BY <2>1, <2>2, <3>1, <3>2, <3>3, <3>4
  <2>3. CASE p[1] # i
    <3>1. f[p] = p  BY <1>5, <2>3
    <3>2. e[p[1]] = d[p[1]]  BY <1>3, <2>1, <2>3
    <3>3. p \in LeafPlaces(d)  BY <2>1, <3>2, PlaceIs
    <3>4. QED  BY <2>1, <2>3, <3>1, <3>2, <3>3 DEF LeafAt
  <2>4. QED  BY <2>2, <2>3
<1>8. f \in [LeafPlaces(e) -> LeafPlaces(d)]  BY <1>5, <1>7
<1>9. \A p, q \in LeafPlaces(e) : f[p] = f[q] => p = q
  <2>1. SUFFICES ASSUME NEW p \in LeafPlaces(e), NEW q \in LeafPlaces(e), f[p] = f[q] PROVE p = q  OBVIOUS
  <2>2. p[1] = q[1]  BY <1>7, <2>1
  <2>3. CASE p[1] # i  BY <1>7, <2>1, <2>2, <2>3
  <2>4. CASE p[1] = i
    <3>1. <<i, h[p[2]]>> = <<i, h[q[2]]>> /\ p[2] \in DOMAIN entry /\ q[2] \in DOMAIN entry
      BY <1>7, <2>1, <2>2, <2>4
    <3>2. h[p[2]] = h[q[2]]  BY <3>1
    <3>3. p[2] = q[2]  BY <1>6, <3>1, <3>2
    <3>4. QED  BY <1>7, <2>2, <3>3
  <2>5. QED  BY <2>3, <2>4
<1>10. Carries(d, e, {})
  <2>1. f \in Injection(LeafPlaces(e), LeafPlaces(d))  BY <1>8, <1>9 DEF Injection, IsInjective
  <2>2. QED  BY <1>7, <2>1, CarriesAll
<1>11. ASSUME NEW p \in LeafPlaces(d) \ gone PROVE \E q \in LeafPlaces(e) : LeafAt(e, q) = LeafAt(d, p)
  <2>1. p[1] \in 1..Len(d) /\ p[2] \in DOMAIN d[p[1]] /\ p = <<p[1], p[2]>>  BY PlaceSides
  <2>2. CASE p[1] = i
    <3>1. PICK t \in DOMAIN entry : h[t] = p[2]  BY <2>1, <2>2
    <3>2. <<i, t>> \in LeafPlaces(e)  BY <1>3, <1>4, PlaceIs
    <3>3. LeafAt(e, <<i, t>>) = entry[t] /\ LeafAt(d, p) = d[i][p[2]]  BY <1>3, <2>2 DEF LeafAt
    <3>4. QED  BY <3>1, <3>2, <3>3
  <2>3. CASE p[1] # i
    <3>1. e[p[1]] = d[p[1]]  BY <1>3, <2>1, <2>3
    <3>2. p \in LeafPlaces(e)  BY <1>3, <1>4, <2>1, <3>1, PlaceIs
    <3>3. QED  BY <3>1, <3>2 DEF LeafAt
  <2>4. QED  BY <2>2, <2>3
<1>12. Retains(d, e, gone)  BY <1>11 DEF Retains
<1>13. QED  BY <1>3, <1>4, <1>10, <1>12

\* A row's sides change places.
LEMMA SwappedIs ==
  ASSUME NEW d \in Layouts, NEW i \in 1..Len(d), IsRow(d[i]), NEW e, e = Swapped(d, i)
  PROVE  e \in Layouts /\ Carries(d, e, {}) /\ Retains(d, e, {})
<1>1. d[i] \in Entry  BY DEF Layouts
<1>2. Len(d[i]) = 2 /\ DOMAIN d[i] = {1, 2} /\ d[i][1] \in Block /\ d[i][2] \in Block
  BY <1>1, EntryIs DEF IsRow
<1>3. PICK a \in Block : a = d[i][1]  BY <1>2
<1>4. PICK b \in Block : b = d[i][2]  BY <1>2
<1>5. Reverse(d[i]) = [k \in 1..2 |-> d[i][(2 - k) + 1]]  BY <1>2 DEF Reverse
<1>6. PICK entry : entry = Reverse(d[i])  OBVIOUS
<1>7. entry = <<b, a>>
  <2>1. entry[1] = b /\ entry[2] = a  BY <1>3, <1>4, <1>5, <1>6
  <2>2. DOMAIN entry = 1..2  BY <1>5, <1>6
  <2>3. entry = [k \in 1..2 |-> entry[k]]  BY <1>5, <1>6
  <2>4. QED  BY <2>1, <2>2, <2>3
<1>8. entry \in Entry /\ DOMAIN entry = {1, 2} /\ entry[1] = b /\ entry[2] = a
  BY <1>7, EntryOf, EntryIs
<1>9. PICK h : h = [s \in {1, 2} |-> 3 - s]  OBVIOUS
<1>10. h[1] = 2 /\ h[2] = 1 /\ h \in [{1, 2} -> {1, 2}]  BY <1>9
<1>11. h \in Injection(DOMAIN entry, DOMAIN d[i])
  BY <1>2, <1>8, <1>10 DEF Injection, IsInjective
<1>12. \A s \in DOMAIN entry : entry[s] = d[i][h[s]]  BY <1>3, <1>4, <1>8, <1>10
<1>13. \A s \in DOMAIN d[i] : <<i, s>> \in {} \/ \E t \in DOMAIN entry : h[t] = s
  BY <1>2, <1>8, <1>10
<1>14. e = ReplaceAt(d, i, entry)  BY <1>6 DEF Swapped
<1>15. QED  BY <1>8, <1>11, <1>12, <1>13, <1>14, EntryReplaced

\* One side of a row is taken away.
LEMMA TrimmedIs ==
  ASSUME NEW d \in Layouts, NEW i \in 1..Len(d), IsRow(d[i]), NEW side \in {1, 2},
         NEW e, e = ReplaceAt(d, i, RemoveAt(d[i], side))
  PROVE  /\ e \in Layouts /\ Len(e) = Len(d)
         /\ Carries(d, e, {}) /\ Retains(d, e, {<<i, side>>}) /\ Drops(d, e, {<<i, side>>})
<1>1. d[i] \in Entry  BY DEF Layouts
<1>2. Len(d[i]) = 2 /\ DOMAIN d[i] = {1, 2} /\ d[i][1] \in Block /\ d[i][2] \in Block
  BY <1>1, EntryIs DEF IsRow
<1>3. PICK other : other = 3 - side  OBVIOUS
<1>4. other \in {1, 2} /\ other # side /\ (side = 1 => other = 2) /\ (side = 2 => other = 1)
  BY <1>3
<1>5. PICK B : B = Block  OBVIOUS
<1>6. d[i] \in Seq(B) /\ side \in 1..Len(d[i])  BY <1>1, <1>2, <1>5, EntryIs
<1>7. PICK entry : entry = RemoveAt(d[i], side)  OBVIOUS
<1>8. /\ entry \in Seq(B) /\ Len(entry) = 1
      /\ \A k \in 1..1 : entry[k] = IF k < side THEN d[i][k] ELSE d[i][k + 1]
  <2>1. PICK row : row = d[i]  OBVIOUS
  <2>2. row \in Seq(B) /\ side \in 1..Len(row) /\ Len(row) - 1 = 1 /\ entry = RemoveAt(row, side)
    BY <1>2, <1>6, <1>7, <2>1
  <2>3. /\ entry \in Seq(B) /\ Len(entry) = Len(row) - 1
        /\ \A k \in 1..Len(row) - 1 : entry[k] = IF k < side THEN row[k] ELSE row[k + 1]
    BY <2>2, RemoveAtIs
  <2>4. QED  BY <2>1, <2>2, <2>3
<1>9. entry[1] = d[i][other]  BY <1>4, <1>8
<1>10. entry \in Entry /\ DOMAIN entry = {1}  BY <1>5, <1>8 DEF Entry
<1>11. PICK h : h = [s \in {1} |-> other]  OBVIOUS
<1>12. h \in Injection(DOMAIN entry, DOMAIN d[i])
  BY <1>2, <1>4, <1>10, <1>11 DEF Injection, IsInjective
<1>13. \A s \in DOMAIN entry : entry[s] = d[i][h[s]]  BY <1>9, <1>10, <1>11
<1>14. PICK gone : gone = {<<i, side>>}  OBVIOUS
<1>15. \A s \in DOMAIN d[i] : <<i, s>> \in gone \/ \E t \in DOMAIN entry : h[t] = s
  BY <1>2, <1>4, <1>10, <1>11, <1>14
<1>16. e = ReplaceAt(d, i, entry)  BY <1>7
<1>17. e \in Layouts /\ Carries(d, e, {}) /\ Retains(d, e, gone) /\ Len(e) = Len(d)
  BY <1>10, <1>12, <1>13, <1>15, <1>16, EntryReplaced
<1>18. \A k \in 1..Len(d) : e[k] = IF k = i THEN entry ELSE d[k]
  <2>1. \A k \in 1..Len(d) : ReplaceAt(d, i, entry)[k] = IF k = i THEN entry ELSE d[k]
    BY <1>10, OtherEntry
  <2>2. QED  BY <1>16, <2>1
<1>19. ASSUME NEW q \in LeafPlaces(e) PROVE \E p \in LeafPlaces(d) \ gone : LeafAt(e, q) = LeafAt(d, p)
  <2>1. q[1] \in 1..Len(d) /\ q[2] \in DOMAIN e[q[1]]  BY <1>17, PlaceSides
  <2>2. CASE q[1] = i
    <3>1. e[q[1]] = entry /\ q[2] = 1  BY <1>10, <1>18, <2>1, <2>2
    <3>2. <<i, other>> \in LeafPlaces(d)  BY <1>2, <1>4, PlaceIs
    <3>3. <<i, other>> \notin gone  BY <1>4, <1>14
    <3>4. LeafAt(e, q) = LeafAt(d, <<i, other>>)  BY <1>9, <3>1 DEF LeafAt
    <3>5. QED  BY <3>2, <3>3, <3>4
  <2>3. CASE q[1] # i
    <3>1. e[q[1]] = d[q[1]]  BY <1>18, <2>1, <2>3
    <3>2. PICK p : p = <<q[1], q[2]>>  OBVIOUS
    <3>3. p \in LeafPlaces(d)  BY <2>1, <3>1, <3>2, PlaceIs
    <3>4. p \notin gone /\ LeafAt(e, q) = LeafAt(d, p)  BY <1>14, <2>3, <3>1, <3>2 DEF LeafAt
    <3>5. QED  BY <3>3, <3>4
  <2>4. QED  BY <2>2, <2>3
<1>20. Drops(d, e, gone)  BY <1>19 DEF Drops
<1>21. QED  BY <1>14, <1>17, <1>20

\* Two entries become a row.
LEMMA PairedIs ==
  ASSUME NEW d \in Layouts, NEW i \in 1..Len(d) - 1, ~IsRow(d[i]), ~IsRow(d[i + 1]),
         NEW e, e = Paired(d, i)
  PROVE  e \in Layouts /\ Carries(d, e, {}) /\ Retains(d, e, {})
<1>1. PICK n \in Nat : n = Len(d)  BY DEF Layouts
<1>2. i \in 1..n - 1 /\ i + 1 \in 1..n /\ i \in 1..n  BY <1>1
<1>3. d[i] \in Entry /\ d[i + 1] \in Entry  BY <1>1, <1>2 DEF Layouts
<1>4. PICK a \in Block : d[i] = <<a>> /\ a = d[i][1]
  <2>1. PICK B : B = Block  OBVIOUS
  <2>2. d[i] \in Seq(B) /\ Len(d[i]) = 1 /\ d[i][1] \in B  BY <1>3, <2>1, EntryIs
  <2>3. d[i] = <<d[i][1]>>  BY <2>2
  <2>4. QED  BY <2>1, <2>2, <2>3
<1>5. PICK b \in Block : d[i + 1] = <<b>> /\ b = d[i + 1][1]
  <2>1. PICK B : B = Block  OBVIOUS
  <2>2. d[i + 1] \in Seq(B) /\ Len(d[i + 1]) = 1 /\ d[i + 1][1] \in B  BY <1>3, <2>1, EntryIs
  <2>3. d[i + 1] = <<d[i + 1][1]>>  BY <2>2
  <2>4. QED  BY <2>1, <2>2, <2>3
<1>6. PICK row : row = <<a, b>>  OBVIOUS
<1>7. row \in Entry /\ DOMAIN row = {1, 2} /\ row[1] = a /\ row[2] = b /\ d[i] \o d[i + 1] = row
  <2>1. row \in Entry /\ Len(row) = 2 /\ row[1] = a /\ row[2] = b  BY <1>6, EntryOf
  <2>2. <<a>> \o <<b>> = <<a, b>>
    <3>1. PICK B : B = Block  OBVIOUS
    <3>2. <<a>> \in Seq(B) /\ <<b>> \in Seq(B)  BY <3>1
    <3>3. PICK one : one = <<a>> /\ one \in Seq(B)  BY <3>2
    <3>4. PICK two : two = <<b>> /\ two \in Seq(B)  BY <3>2
    <3>5. PICK both : both = one \o two  OBVIOUS
    <3>6. Len(one) = 1 /\ Len(two) = 1 /\ one[1] = a /\ two[1] = b  BY <3>3, <3>4
    <3>7. both \in Seq(B) /\ Len(both) = 2 /\ both[1] = a /\ both[2] = b
      <4>1. both \in Seq(B) /\ Len(both) = 2  BY <3>3, <3>4, <3>5, <3>6
      <4>2. \A k \in 1..2 : both[k] = IF k <= 1 THEN one[k] ELSE two[k - 1]
        BY <3>3, <3>4, <3>5, <3>6
      <4>3. both[1] = one[1] /\ both[2] = two[1]  BY <4>2
      <4>4. QED  BY <3>6, <4>1, <4>3
    <3>8. both = <<both[1], both[2]>>  BY <3>7
    <3>9. QED  BY <3>3, <3>4, <3>5, <3>7, <3>8
  <2>3. QED  BY <1>4, <1>5, <1>6, <2>1, <2>2, EntryIs
<1>8. PICK r : r = RemoveAt(d, i + 1)  OBVIOUS
<1>9. r \in Layouts /\ Len(r) = n - 1 /\ \A k \in 1..n - 1 : r[k] = IF k < i + 1 THEN d[k] ELSE d[k + 1]
  <2>1. PICK E : E = Entry  OBVIOUS
  <2>2. PICK s \in Seq(E) : s = d  BY <2>1 DEF Layouts
  <2>3. i + 1 \in 1..Len(s) /\ Len(s) = n  BY <1>1, <1>2, <2>2
  <2>4. /\ RemoveAt(s, i + 1) \in Seq(E) /\ Len(RemoveAt(s, i + 1)) = n - 1
        /\ \A k \in 1..n - 1 : RemoveAt(s, i + 1)[k] = IF k < i + 1 THEN s[k] ELSE s[k + 1]
    BY <2>3, RemoveAtIs
  <2>5. QED  BY <1>8, <2>1, <2>2, <2>4 DEF Layouts
<1>10. e = ReplaceAt(r, i, row)  BY <1>7, <1>8 DEF Paired
<1>11. /\ e \in Layouts /\ Len(e) = n - 1
       /\ \A k \in 1..n - 1 : e[k] = IF k = i THEN row ELSE r[k]
  <2>1. PICK c \in Layouts : c = r  BY <1>9
  <2>2. i \in 1..Len(c) /\ row \in Entry  BY <1>2, <1>7, <1>9, <2>1
  <2>3. Len(c) = n - 1 /\ e = ReplaceAt(c, i, row)  BY <1>9, <1>10, <2>1
  <2>4. /\ ReplaceAt(c, i, row) \in Layouts /\ Len(ReplaceAt(c, i, row)) = Len(c)
        /\ \A k \in 1..Len(c) : ReplaceAt(c, i, row)[k] = IF k = i THEN row ELSE c[k]
    BY <2>2, OtherEntry
  <2>5. QED  BY <2>1, <2>3, <2>4
<1>12. PICK to : to = [k \in 1..n - 1 |-> IF k < i THEN k ELSE k + 1]  OBVIOUS
<1>13. \A k \in 1..n - 1 : k # i => to[k] \in 1..n /\ to[k] # i /\ to[k] # i + 1 /\ e[k] = d[to[k]]
  BY <1>2, <1>9, <1>11, <1>12
<1>14. \A k, l \in 1..n - 1 : to[k] = to[l] => k = l  BY <1>2, <1>12
<1>15. PICK f : f = [p \in LeafPlaces(e) |-> IF p[1] = i THEN <<IF p[2] = 1 THEN i ELSE i + 1, 1>>
                                         ELSE <<to[p[1]], p[2]>>]
  OBVIOUS
<1>16. ASSUME NEW p \in LeafPlaces(e)
       PROVE  /\ f[p] \in LeafPlaces(d) /\ LeafAt(d, f[p]) = LeafAt(e, p)
              /\ p[1] \in 1..n - 1 /\ p = <<p[1], p[2]>>
              /\ p[1] = i => f[p] = <<IF p[2] = 1 THEN i ELSE i + 1, 1>> /\ p[2] \in {1, 2}
              /\ p[1] # i => f[p] = <<to[p[1]], p[2]>>
  <2>1. p[1] \in 1..n - 1 /\ p[2] \in DOMAIN e[p[1]] /\ p = <<p[1], p[2]>>  BY <1>11, PlaceSides
  <2>2. CASE p[1] = i
    <3>1. p[2] \in {1, 2} /\ e[i] = row  BY <1>2, <1>7, <1>11, <2>1, <2>2
    <3>2. PICK k : k = IF p[2] = 1 THEN i ELSE i + 1  OBVIOUS
    <3>3. f[p] = <<k, 1>> /\ k \in 1..n  BY <1>2, <1>15, <2>2, <3>2
    <3>4. 1 \in DOMAIN d[k]  BY <1>3, <3>2, EntryIs
    <3>5. f[p] \in LeafPlaces(d)  BY <1>1, <3>3, <3>4, PlaceIs
    <3>6. d[k][1] = row[p[2]]  BY <1>4, <1>5, <1>7, <3>1, <3>2
    <3>7. LeafAt(d, f[p]) = d[k][1] /\ LeafAt(e, p) = row[p[2]]  BY <2>2, <3>1, <3>3 DEF LeafAt
    <3>8. QED  BY <2>1, <2>2, <3>1, <3>2, <3>3, <3>5, <3>6, <3>7
  <2>3. CASE p[1] # i
    <3>1. f[p] = <<to[p[1]], p[2]>>  BY <1>15, <2>3
    <3>2. to[p[1]] \in 1..n /\ e[p[1]] = d[to[p[1]]]  BY <1>13, <2>1, <2>3
    <3>3. f[p] \in LeafPlaces(d)  BY <1>1, <2>1, <3>1, <3>2, PlaceIs
    <3>4. QED  BY <2>1, <2>3, <3>1, <3>2, <3>3 DEF LeafAt
  <2>4. QED  BY <2>2, <2>3
<1>17. \A p, q \in LeafPlaces(e) : f[p] = f[q] => p = q
  <2>1. SUFFICES ASSUME NEW p \in LeafPlaces(e), NEW q \in LeafPlaces(e), f[p] = f[q] PROVE p = q  OBVIOUS
  <2>2. CASE p[1] = i /\ q[1] = i
    <3>1. (IF p[2] = 1 THEN i ELSE i + 1) = (IF q[2] = 1 THEN i ELSE i + 1)
          /\ p[2] \in {1, 2} /\ q[2] \in {1, 2}
      BY <1>16, <2>1, <2>2
    <3>2. p[2] = q[2]  BY <1>2, <3>1
    <3>3. QED  BY <1>16, <2>2, <3>2
  <2>3. CASE p[1] = i /\ q[1] # i
    <3>1. to[q[1]] # i /\ to[q[1]] # i + 1  BY <1>13, <1>16, <2>3
    <3>2. f[p][1] \in {i, i + 1} /\ f[q][1] = to[q[1]]  BY <1>16, <2>3
    <3>3. QED  BY <2>1, <3>1, <3>2
  <2>4. CASE p[1] # i /\ q[1] = i
    <3>1. to[p[1]] # i /\ to[p[1]] # i + 1  BY <1>13, <1>16, <2>4
    <3>2. f[q][1] \in {i, i + 1} /\ f[p][1] = to[p[1]]  BY <1>16, <2>4
    <3>3. QED  BY <2>1, <3>1, <3>2
  <2>5. CASE p[1] # i /\ q[1] # i
    <3>1. to[p[1]] = to[q[1]] /\ p[2] = q[2]  BY <1>16, <2>1, <2>5
    <3>2. p[1] = q[1]  BY <1>14, <1>16, <3>1
    <3>3. QED  BY <1>16, <3>1, <3>2
  <2>6. QED  BY <2>2, <2>3, <2>4, <2>5
<1>18. Carries(d, e, {})
  <2>1. f \in [LeafPlaces(e) -> LeafPlaces(d)]  BY <1>15, <1>16
  <2>2. f \in Injection(LeafPlaces(e), LeafPlaces(d))  BY <1>17, <2>1 DEF Injection, IsInjective
  <2>3. QED  BY <1>16, <2>2, CarriesAll
<1>19. ASSUME NEW p \in LeafPlaces(d) PROVE \E q \in LeafPlaces(e) : LeafAt(e, q) = LeafAt(d, p)
  <2>1. p[1] \in 1..n /\ p[2] \in DOMAIN d[p[1]] /\ p = <<p[1], p[2]>>  BY <1>1, PlaceSides
  <2>2. i \in 1..Len(e) /\ e[i] = row  BY <1>2, <1>11
  <2>3. CASE p[1] = i
    <3>1. p[2] = 1  BY <1>4, <2>1, <2>3
    <3>2. <<i, 1>> \in LeafPlaces(e)  BY <1>7, <1>11, <2>2, PlaceIs
    <3>3. LeafAt(e, <<i, 1>>) = a /\ LeafAt(d, p) = a  BY <1>4, <1>7, <2>2, <2>3, <3>1 DEF LeafAt
    <3>4. QED  BY <3>2, <3>3
  <2>4. CASE p[1] = i + 1
    <3>1. p[2] = 1  BY <1>5, <2>1, <2>4
    <3>2. <<i, 2>> \in LeafPlaces(e)  BY <1>7, <1>11, <2>2, PlaceIs
    <3>3. LeafAt(e, <<i, 2>>) = b /\ LeafAt(d, p) = b  BY <1>5, <1>7, <2>2, <2>4, <3>1 DEF LeafAt
    <3>4. QED  BY <3>2, <3>3
  <2>5. CASE p[1] # i /\ p[1] # i + 1
    <3>1. PICK k : k = IF p[1] < i THEN p[1] ELSE p[1] - 1  OBVIOUS
    <3>2. k \in 1..n - 1 /\ k # i /\ to[k] = p[1]
      <4>1. k \in 1..n - 1 /\ k # i  BY <1>2, <2>1, <2>5, <3>1
      <4>2. (IF k < i THEN k ELSE k + 1) = p[1]  BY <1>2, <2>1, <2>5, <3>1
      <4>3. QED  BY <1>12, <4>1, <4>2
    <3>3. e[k] = d[p[1]]  BY <1>13, <3>2
    <3>4. <<k, p[2]>> \in LeafPlaces(e)  BY <1>11, <2>1, <3>2, <3>3, PlaceIs
    <3>5. LeafAt(e, <<k, p[2]>>) = LeafAt(d, p)  BY <3>3 DEF LeafAt
    <3>6. QED  BY <3>4, <3>5
  <2>6. QED  BY <2>3, <2>4, <2>5
<1>20. Retains(d, e, {})  BY <1>19 DEF Retains
<1>21. QED  BY <1>11, <1>18, <1>20

\* A row becomes two entries.
LEMMA SplitIs ==
  ASSUME NEW d \in Layouts, NEW i \in 1..Len(d), IsRow(d[i]), NEW e, e = Split(d, i)
  PROVE  e \in Layouts /\ Carries(d, e, {}) /\ Retains(d, e, {})
<1>1. PICK n \in Nat : n = Len(d)  BY DEF Layouts
<1>2. i \in 1..n  BY <1>1
<1>3. d[i] \in Entry  BY DEF Layouts
<1>4. Len(d[i]) = 2 /\ DOMAIN d[i] = {1, 2} /\ d[i][1] \in Block /\ d[i][2] \in Block
  BY <1>3, EntryIs DEF IsRow
<1>5. PICK first : first = <<d[i][1]>>  OBVIOUS
<1>6. PICK second : second = <<d[i][2]>>  OBVIOUS
<1>7. /\ first \in Entry /\ DOMAIN first = {1} /\ first[1] = d[i][1]
      /\ second \in Entry /\ DOMAIN second = {1} /\ second[1] = d[i][2]
  BY <1>4, <1>5, <1>6, EntryOf, EntryIs
<1>8. PICK r : r = ReplaceAt(d, i, second)  OBVIOUS
<1>9. r \in Layouts /\ Len(r) = n /\ \A k \in 1..n : r[k] = IF k = i THEN second ELSE d[k]
  <2>1. second \in Entry /\ i \in 1..Len(d)  BY <1>7
  <2>2. /\ ReplaceAt(d, i, second) \in Layouts /\ Len(ReplaceAt(d, i, second)) = Len(d)
        /\ \A k \in 1..Len(d) : ReplaceAt(d, i, second)[k] = IF k = i THEN second ELSE d[k]
    BY <2>1, OtherEntry
  <2>3. QED  BY <1>1, <1>8, <2>2
<1>10. e = InsertAt(r, i, first)  BY <1>5, <1>6, <1>8 DEF Split
<1>11. /\ e \in Layouts /\ Len(e) = n + 1
       /\ \A k \in 1..n + 1 : e[k] = IF k < i THEN r[k] ELSE IF k = i THEN first ELSE r[k - 1]
  <2>1. PICK E : E = Entry  OBVIOUS
  <2>2. PICK s \in Seq(E) : s = r  BY <1>9, <2>1 DEF Layouts
  <2>3. Len(s) = n  BY <1>9, <2>2
  <2>4. i \in 1..Len(s) + 1 /\ first \in E  BY <1>2, <1>7, <2>1, <2>3
  <2>5. /\ InsertAt(s, i, first) \in Seq(E) /\ Len(InsertAt(s, i, first)) = Len(s) + 1
        /\ \A k \in 1..Len(s) + 1 :
             InsertAt(s, i, first)[k] = IF k < i THEN s[k] ELSE IF k = i THEN first ELSE s[k - 1]
    BY <2>2, <2>4, InsertAtIs, SMTT(60)
  <2>6. QED  BY <1>10, <2>1, <2>2, <2>3, <2>5 DEF Layouts
<1>12. PICK to : to = [k \in 1..n + 1 |-> IF k <= i THEN k ELSE k - 1]  OBVIOUS
<1>13. \A k \in 1..n + 1 : k # i /\ k # i + 1 => to[k] \in 1..n /\ to[k] # i /\ e[k] = d[to[k]]
  <2>1. SUFFICES ASSUME NEW k \in 1..n + 1, k # i, k # i + 1
                 PROVE  to[k] \in 1..n /\ to[k] # i /\ e[k] = d[to[k]]
    OBVIOUS
  <2>2. CASE k < i
    <3>1. k \in 1..n /\ to[k] = k /\ e[k] = r[k]  BY <1>2, <1>11, <1>12, <2>1, <2>2
    <3>2. QED  BY <1>9, <2>1, <3>1
  <2>3. CASE k > i
    <3>1. k - 1 \in 1..n /\ k - 1 # i /\ to[k] = k - 1 /\ e[k] = r[k - 1]
      BY <1>2, <1>11, <1>12, <2>1, <2>3
    <3>2. QED  BY <1>9, <3>1
  <2>4. QED  BY <1>2, <2>1, <2>2, <2>3
<1>14. \A k, l \in 1..n + 1 : k # i /\ k # i + 1 /\ l # i /\ l # i + 1 /\ to[k] = to[l] => k = l
  BY <1>2, <1>12
<1>15. e[i] = first /\ e[i + 1] = second /\ i \in 1..n + 1 /\ i + 1 \in 1..n + 1
  <2>1. i \in 1..n + 1 /\ i + 1 \in 1..n + 1 /\ (i + 1) - 1 = i /\ ~(i + 1 < i) /\ i + 1 # i  BY <1>2
  <2>2. e[i + 1] = r[i]  BY <1>11, <2>1
  <2>3. QED  BY <1>2, <1>9, <1>11, <2>1, <2>2
<1>16. PICK f : f = [p \in LeafPlaces(e) |-> IF p[1] \in {i, i + 1} THEN <<i, IF p[1] = i THEN 1 ELSE 2>>
                                         ELSE <<to[p[1]], p[2]>>]
  OBVIOUS
<1>17. ASSUME NEW p \in LeafPlaces(e)
       PROVE  /\ f[p] \in LeafPlaces(d) /\ LeafAt(d, f[p]) = LeafAt(e, p)
              /\ p[1] \in 1..n + 1 /\ p = <<p[1], p[2]>>
              /\ p[1] \in {i, i + 1} => p[2] = 1 /\ f[p] = <<i, IF p[1] = i THEN 1 ELSE 2>>
              /\ p[1] \notin {i, i + 1} => f[p] = <<to[p[1]], p[2]>>
  <2>1. p[1] \in 1..n + 1 /\ p[2] \in DOMAIN e[p[1]] /\ p = <<p[1], p[2]>>  BY <1>11, PlaceSides
  <2>2. CASE p[1] \in {i, i + 1}
    <3>1. p[2] = 1  BY <1>7, <1>15, <2>1, <2>2
    <3>2. PICK s : s = IF p[1] = i THEN 1 ELSE 2  OBVIOUS
    <3>3. f[p] = <<i, s>> /\ s \in {1, 2}  BY <1>16, <2>2, <3>2
    <3>4. f[p] \in LeafPlaces(d)  BY <1>4, <3>3, PlaceIs
    <3>5. LeafAt(e, p) = d[i][s]  BY <1>2, <1>7, <1>15, <2>2, <3>1, <3>2 DEF LeafAt
    <3>6. LeafAt(d, f[p]) = d[i][s]  BY <3>3 DEF LeafAt
    <3>7. QED  BY <2>1, <2>2, <3>1, <3>2, <3>3, <3>4, <3>5, <3>6
  <2>3. CASE p[1] \notin {i, i + 1}
    <3>1. f[p] = <<to[p[1]], p[2]>>  BY <1>16, <2>3
    <3>2. to[p[1]] \in 1..n /\ e[p[1]] = d[to[p[1]]]  BY <1>13, <2>1, <2>3
    <3>3. f[p] \in LeafPlaces(d)  BY <1>1, <2>1, <3>1, <3>2, PlaceIs
    <3>4. QED  BY <2>1, <2>3, <3>1, <3>2, <3>3 DEF LeafAt
  <2>4. QED  BY <2>2, <2>3
<1>18. \A p, q \in LeafPlaces(e) : f[p] = f[q] => p = q
  <2>1. SUFFICES ASSUME NEW p \in LeafPlaces(e), NEW q \in LeafPlaces(e), f[p] = f[q] PROVE p = q  OBVIOUS
  <2>2. CASE p[1] \in {i, i + 1} /\ q[1] \in {i, i + 1}
    <3>1. (IF p[1] = i THEN 1 ELSE 2) = (IF q[1] = i THEN 1 ELSE 2) /\ p[2] = 1 /\ q[2] = 1
      BY <1>17, <2>1, <2>2
    <3>2. p[1] = q[1]  BY <2>2, <3>1
    <3>3. QED  BY <1>17, <3>1, <3>2
  <2>3. CASE p[1] \in {i, i + 1} /\ q[1] \notin {i, i + 1}
    <3>1. to[q[1]] # i  BY <1>13, <1>17, <2>3
    <3>2. f[p][1] = i /\ f[q][1] = to[q[1]]  BY <1>17, <2>3
    <3>3. QED  BY <2>1, <3>1, <3>2
  <2>4. CASE p[1] \notin {i, i + 1} /\ q[1] \in {i, i + 1}
    <3>1. to[p[1]] # i  BY <1>13, <1>17, <2>4
    <3>2. f[q][1] = i /\ f[p][1] = to[p[1]]  BY <1>17, <2>4
    <3>3. QED  BY <2>1, <3>1, <3>2
  <2>5. CASE p[1] \notin {i, i + 1} /\ q[1] \notin {i, i + 1}
    <3>1. to[p[1]] = to[q[1]] /\ p[2] = q[2]  BY <1>17, <2>1, <2>5
    <3>2. p[1] = q[1]  BY <1>14, <1>17, <2>5, <3>1
    <3>3. QED  BY <1>17, <3>1, <3>2
  <2>6. QED  BY <2>2, <2>3, <2>4, <2>5
<1>19. Carries(d, e, {})
  <2>1. f \in [LeafPlaces(e) -> LeafPlaces(d)]  BY <1>16, <1>17
  <2>2. f \in Injection(LeafPlaces(e), LeafPlaces(d))  BY <1>18, <2>1 DEF Injection, IsInjective
  <2>3. QED  BY <1>17, <2>2, CarriesAll
<1>20. ASSUME NEW p \in LeafPlaces(d) PROVE \E q \in LeafPlaces(e) : LeafAt(e, q) = LeafAt(d, p)
  <2>1. p[1] \in 1..n /\ p[2] \in DOMAIN d[p[1]] /\ p = <<p[1], p[2]>>  BY <1>1, PlaceSides
  <2>2. CASE p[1] = i
    <3>1. PICK k : k = IF p[2] = 1 THEN i ELSE i + 1  OBVIOUS
    <3>2. p[2] \in {1, 2}  BY <1>4, <2>1, <2>2
    <3>3. k \in 1..Len(e) /\ e[k][1] = d[i][p[2]] /\ 1 \in DOMAIN e[k]
      BY <1>7, <1>11, <1>15, <3>1, <3>2
    <3>4. <<k, 1>> \in LeafPlaces(e)  BY <1>11, <3>3, PlaceIs
    <3>5. LeafAt(e, <<k, 1>>) = LeafAt(d, p)  BY <2>2, <3>3 DEF LeafAt
    <3>6. QED  BY <3>4, <3>5
  <2>3. CASE p[1] # i
    <3>1. PICK k : k = IF p[1] < i THEN p[1] ELSE p[1] + 1  OBVIOUS
    <3>2. k \in 1..n + 1 /\ k # i /\ k # i + 1 /\ to[k] = p[1]
      <4>1. k \in 1..n + 1 /\ k # i /\ k # i + 1  BY <1>2, <2>1, <2>3, <3>1
      <4>2. (IF k <= i THEN k ELSE k - 1) = p[1]  BY <1>2, <2>1, <2>3, <3>1
      <4>3. QED  BY <1>12, <4>1, <4>2
    <3>3. e[k] = d[p[1]]  BY <1>13, <3>2
    <3>4. <<k, p[2]>> \in LeafPlaces(e)  BY <1>11, <2>1, <3>2, <3>3, PlaceIs
    <3>5. LeafAt(e, <<k, p[2]>>) = LeafAt(d, p)  BY <3>3 DEF LeafAt
    <3>6. QED  BY <3>4, <3>5
  <2>4. QED  BY <2>2, <2>3
<1>21. Retains(d, e, {})  BY <1>20 DEF Retains
<1>22. QED  BY <1>11, <1>19, <1>21

-----------------------------------------------------------------------------
(* A page the validator can only fault for a field, with the names it uses.  *)

GoodLeaf(leaf, n) == ItemsFit(leaf) /\ leaf.id \notin leaf.items /\ Names(leaf) \subseteq 1..n
Apart(leaf, other) == Names(leaf) \cap Names(other) = {}
Good(doc, n) ==
  /\ doc \in Layouts
  /\ \A p \in LeafPlaces(doc) : GoodLeaf(LeafAt(doc, p), n)
  /\ \A p, q \in LeafPlaces(doc) : p # q => Apart(LeafAt(doc, p), LeafAt(doc, q))
  /\ Size(doc) <= MaxBlocks
  /\ Count(doc, "featuredProject") <= MaxFeatured

\* A good page has the structure the validator asks for.
LEMMA GoodIsStructured ==
  ASSUME NEW doc, NEW n, Good(doc, n)
  PROVE  Structured(doc)
<1>1. doc \in Layouts  BY DEF Good
<1>2. \A i \in DOMAIN doc : Len(doc[i]) \in {1, 2}
  <2>1. \A i \in DOMAIN doc : doc[i] \in Entry  BY <1>1 DEF Layouts
  <2>2. QED  BY <2>1 DEF Entry
<1>3. \A leaf \in LeafSet(doc) : ItemsFit(leaf) /\ leaf.id \notin leaf.items
  BY DEF Good, GoodLeaf, LeafSet
<1>4. IdsUnique(doc)  BY <1>3 DEF Good, Apart, IdsUnique
<1>5. QED  BY <1>2, <1>3, <1>4 DEF Structured, Good

\* What was carried over stays good beside new blocks that are.
LEMMA GoodWith ==
  ASSUME NEW d, NEW n \in Nat, Good(d, n), NEW e \in Layouts, NEW new, Carries(d, e, new),
         NEW m \in Nat, n <= m,
         \A p \in new : GoodLeaf(LeafAt(e, p), m),
         \A p \in new, q \in LeafPlaces(e) : p # q => Apart(LeafAt(e, p), LeafAt(e, q)),
         Size(d) + Cardinality(new) <= MaxBlocks,
         Count(d, "featuredProject")
           + Cardinality({p \in new : LeafAt(e, p).type = "featuredProject"}) <= MaxFeatured
  PROVE  Good(e, m)
<1>1. d \in Layouts /\ Size(d) \in Nat /\ Size(e) \in Nat  BY PlacesFinite DEF Good
<1>2. PICK f \in Injection(LeafPlaces(e) \ new, LeafPlaces(d)) : SameLeaves(d, e, f)
  BY DEF Carries
<1>3. f \in [LeafPlaces(e) \ new -> LeafPlaces(d)] /\ \A p, q \in LeafPlaces(e) \ new : f[p] = f[q] => p = q
  BY DEF Injection, IsInjective
<1>4. \A p \in LeafPlaces(e) \ new : f[p] \in LeafPlaces(d) /\ LeafAt(e, p) = LeafAt(d, f[p])
  BY <1>2, <1>3 DEF SameLeaves
<1>5. ASSUME NEW p \in LeafPlaces(e) PROVE GoodLeaf(LeafAt(e, p), m)
  <2>1. CASE p \in new  BY <2>1
  <2>2. CASE p \notin new
    <3>1. GoodLeaf(LeafAt(e, p), n)  BY <1>4, <2>2 DEF Good
    <3>2. 1..n \subseteq 1..m  OBVIOUS
    <3>3. QED  BY <3>1, <3>2 DEF GoodLeaf
  <2>3. QED  BY <2>1, <2>2
<1>6. ASSUME NEW p \in LeafPlaces(e), NEW q \in LeafPlaces(e), p # q PROVE Apart(LeafAt(e, p), LeafAt(e, q))
  <2>1. CASE p \in new  BY <1>6, <2>1
  <2>2. CASE q \in new
    <3>1. Apart(LeafAt(e, q), LeafAt(e, p))  BY <1>6, <2>2
    <3>2. QED  BY <3>1 DEF Apart
  <2>3. CASE p \notin new /\ q \notin new
    <3>1. f[p] # f[q]  BY <1>3, <1>6, <2>3
    <3>2. Apart(LeafAt(d, f[p]), LeafAt(d, f[q]))  BY <1>4, <2>3, <3>1 DEF Good
    <3>3. QED  BY <1>4, <2>3, <3>2
  <2>4. QED  BY <2>1, <2>2, <2>3
<1>7. Size(e) <= MaxBlocks
  <2>1. MaxBlocks \in Nat  BY EditorDocumentAssumption
  <2>2. Cardinality(new) \in Nat /\ Size(e) <= Size(d) + Cardinality(new)  BY <1>1, CarriedSize
  <2>3. QED  BY <1>1, <2>1, <2>2
<1>8. Count(e, "featuredProject") <= MaxFeatured
  <2>1. MaxFeatured \in Nat  BY EditorDocumentAssumption
  <2>2. PICK feature : feature = "featuredProject"  OBVIOUS
  <2>3. PICK c : c = Cardinality({p \in new : LeafAt(e, p).type = feature})  OBVIOUS
  <2>4. /\ Count(e, feature) \in Nat /\ Count(d, feature) \in Nat /\ c \in Nat
        /\ Count(e, feature) <= Count(d, feature) + c
    BY <1>1, <2>3, CarriedCount
  <2>5. Count(d, feature) + c <= MaxFeatured  BY <2>2, <2>3
  <2>6. QED  BY <2>1, <2>2, <2>4, <2>5
<1>9. QED  BY <1>5, <1>6, <1>7, <1>8 DEF Good

\* A page rearranged, or with something taken away, stays good.
LEMMA GoodRearranged ==
  ASSUME NEW d, NEW n \in Nat, Good(d, n), NEW e \in Layouts, Carries(d, e, {})
  PROVE  Good(e, n)
<1>1. d \in Layouts  BY DEF Good
<1>2. Size(d) + Cardinality({}) <= MaxBlocks
  <2>1. Cardinality({}) = 0 /\ Size(d) \in Nat  BY <1>1, FS_EmptySet, PlacesFinite
  <2>2. QED  BY <2>1 DEF Good
<1>3. PICK none : none = {}  OBVIOUS
<1>4. {p \in none : LeafAt(e, p).type = "featuredProject"} = {}  BY <1>3
<1>5. Count(d, "featuredProject") + Cardinality({}) <= MaxFeatured
  <2>1. Cardinality({}) = 0  BY FS_EmptySet
  <2>2. Count(d, "featuredProject") \in Nat  BY <1>1, CarriedCount
  <2>3. QED  BY <2>1, <2>2 DEF Good
<1>6. Carries(d, e, none) /\ n <= n  BY <1>3
<1>7. /\ Size(d) + Cardinality(none) <= MaxBlocks
      /\ Count(d, "featuredProject")
           + Cardinality({p \in none : LeafAt(e, p).type = "featuredProject"}) <= MaxFeatured
  BY <1>2, <1>3, <1>4, <1>5
<1>8. /\ \A p \in none : GoodLeaf(LeafAt(e, p), n)
      /\ \A p \in none, q \in LeafPlaces(e) : p # q => Apart(LeafAt(e, p), LeafAt(e, q))
  BY <1>3
<1>9. QED  BY <1>6, <1>7, <1>8, GoodWith

\* A block of a page that is not new was on the page before.
LEMMA CarriedFrom ==
  ASSUME NEW d, NEW e, NEW new, Carries(d, e, new), NEW p \in LeafPlaces(e) \ new
  PROVE  \E q \in LeafPlaces(d) : LeafAt(e, p) = LeafAt(d, q)
<1>1. PICK f \in Injection(LeafPlaces(e) \ new, LeafPlaces(d)) : SameLeaves(d, e, f)
  BY DEF Carries
<1>2. f \in [LeafPlaces(e) \ new -> LeafPlaces(d)]  BY DEF Injection
<1>3. f[p] \in LeafPlaces(d) /\ LeafAt(e, p) = LeafAt(d, f[p])  BY <1>1, <1>2 DEF SameLeaves
<1>4. QED  BY <1>3

\* The ids of a page rearranged.
LEMMA RearrangedIds ==
  ASSUME NEW d, NEW e, Carries(d, e, {}), NEW gone, Retains(d, e, gone)
  PROVE  /\ LeafIds(e) \subseteq LeafIds(d)
         /\ \A p \in LeafPlaces(d) \ gone : LeafAt(d, p).id \in LeafIds(e)
<1>1. ASSUME NEW p \in LeafPlaces(e) PROVE LeafAt(e, p).id \in LeafIds(d)
  <2>1. PICK q \in LeafPlaces(d) : LeafAt(e, p) = LeafAt(d, q)  BY CarriedFrom
  <2>2. QED  BY <2>1 DEF LeafIds, LeafSet
<1>2. ASSUME NEW p \in LeafPlaces(d) \ gone PROVE LeafAt(d, p).id \in LeafIds(e)
  <2>1. PICK q \in LeafPlaces(e) : LeafAt(e, q) = LeafAt(d, p)  BY DEF Retains
  <2>2. QED  BY <2>1 DEF LeafIds, LeafSet
<1>3. QED  BY <1>1, <1>2 DEF LeafIds, LeafSet

IdsIn(entry) == {entry[s].id : s \in DOMAIN entry}
SidesOf(entry, type) == {s \in DOMAIN entry : entry[s].type = type}
PlacesIn(doc, i) == {p \in LeafPlaces(doc) : p[1] = i}
PlacesInOf(doc, i, type) == {p \in PlacesIn(doc, i) : LeafAt(doc, p).type = type}

\* The places of an entry that is put on a page, and of those of a type.
LEMMA NewPlaces ==
  ASSUME NEW e \in Layouts, NEW i \in 1..Len(e), NEW entry \in Entry, e[i] = entry, NEW type
  PROVE  /\ IsFiniteSet(PlacesIn(e, i)) /\ Cardinality(PlacesIn(e, i)) \in Nat
         /\ Cardinality(PlacesIn(e, i)) <= Len(entry)
         /\ Cardinality(PlacesInOf(e, i, type)) \in Nat /\ Cardinality(SidesOf(entry, type)) \in Nat
         /\ Cardinality(PlacesInOf(e, i, type)) <= Cardinality(SidesOf(entry, type))
<1>0. PICK new, typed, sides :
        new = PlacesIn(e, i) /\ typed = PlacesInOf(e, i, type) /\ sides = SidesOf(entry, type)
  OBVIOUS
<1>1. new = {p \in LeafPlaces(e) : p[1] = i}  BY <1>0 DEF PlacesIn
<1>2. typed = {p \in new : LeafAt(e, p).type = type}  BY <1>0 DEF PlacesInOf
<1>3. sides = {s \in DOMAIN entry : entry[s].type = type}  BY <1>0 DEF SidesOf
<1>4. \A p \in new : p \in LeafPlaces(e) /\ p[1] = i /\ p = <<i, p[2]>> /\ p[2] \in DOMAIN entry
  BY <1>1, PlaceSides
<1>5. IsFiniteSet(DOMAIN entry) /\ Cardinality(DOMAIN entry) = Len(entry) /\ Len(entry) \in Nat
  <2>1. PICK B : B = Block  OBVIOUS
  <2>2. entry \in Seq(B)  BY <2>1, EntryIs
  <2>3. PICK n \in Nat : n = Len(entry)  BY <2>2
  <2>4. DOMAIN entry = 1..n  BY <2>2, <2>3
  <2>5. IsFiniteSet(1..n) /\ Cardinality(1..n) = n
    <3>1. PICK one \in Int : one = 1  OBVIOUS
    <3>2. n \in Int  OBVIOUS
    <3>3. IsFiniteSet(one..n)  BY <3>1, <3>2, FS_Interval
    <3>4. Cardinality(one..n) = IF one > n THEN 0 ELSE n - one + 1  BY <3>1, <3>2, FS_Interval
    <3>5. QED  BY <3>1, <3>3, <3>4
  <2>6. QED  BY <2>3, <2>4, <2>5
<1>6. PICK f : f = [p \in new |-> p[2]]  OBVIOUS
<1>7. f \in Injection(new, DOMAIN entry)
  <2>1. f \in [new -> DOMAIN entry]  BY <1>4, <1>6
  <2>2. \A p, q \in new : f[p] = f[q] => p = q  BY <1>4, <1>6
  <2>3. QED  BY <2>1, <2>2 DEF Injection, IsInjective
<1>8. IsFiniteSet(new) /\ Cardinality(new) <= Len(entry)  BY <1>5, <1>7, FS_Injection
<1>9. IsFiniteSet(sides)
  <2>1. sides \subseteq DOMAIN entry  BY <1>3
  <2>2. QED  BY <1>5, <2>1, FS_Subset
<1>10. PICK g : g = [p \in typed |-> p[2]]  OBVIOUS
<1>11. \A p \in typed : p \in new /\ p[2] \in sides
  <2>1. SUFFICES ASSUME NEW p \in typed PROVE p \in new /\ p[2] \in sides  OBVIOUS
  <2>2. p \in new /\ LeafAt(e, p).type = type  BY <1>2
  <2>3. LeafAt(e, p) = entry[p[2]]  BY <1>4, <2>2 DEF LeafAt
  <2>4. QED  BY <1>3, <1>4, <2>2, <2>3
<1>12. g \in Injection(typed, sides)
  <2>1. g \in [typed -> sides]  BY <1>10, <1>11
  <2>2. \A p, q \in typed : g[p] = g[q] => p = q  BY <1>4, <1>10, <1>11
  <2>3. QED  BY <2>1, <2>2 DEF Injection, IsInjective
<1>13. IsFiniteSet(typed) /\ Cardinality(typed) <= Cardinality(sides)  BY <1>9, <1>12, FS_Injection
<1>14. Cardinality(new) \in Nat /\ Cardinality(typed) \in Nat /\ Cardinality(sides) \in Nat
  BY <1>8, <1>9, <1>13, FS_CardinalityType
<1>15. QED  BY <1>0, <1>8, <1>13, <1>14

\* An entry of good blocks, apart from each other and from a page with room for it.
Welcome(d, entry, m) ==
  /\ \A s \in DOMAIN entry : GoodLeaf(entry[s], m)
  /\ \A s \in DOMAIN entry, p \in LeafPlaces(d) : Apart(entry[s], LeafAt(d, p))
  /\ Len(entry) = 2 => Apart(entry[1], entry[2])
  /\ Size(d) + Len(entry) <= MaxBlocks
  /\ Count(d, "featuredProject") + Cardinality(SidesOf(entry, "featuredProject")) <= MaxFeatured
FromEither(d, e, entry) ==
  \A p \in LeafPlaces(e) : \/ \E s \in DOMAIN entry : LeafAt(e, p) = entry[s]
                           \/ \E q \in LeafPlaces(d) : LeafAt(e, p) = LeafAt(d, q)

\* It may be put on the page, anywhere.
LEMMA InsertedGood ==
  ASSUME NEW d, NEW n \in Nat, Good(d, n), NEW m \in Nat, n <= m,
         NEW i \in 1..Len(d) + 1, NEW entry \in Entry, Welcome(d, entry, m),
         NEW e, e = InsertAt(d, i, entry)
  PROVE  Good(e, m) /\ LeafIds(e) = LeafIds(d) \cup IdsIn(entry) /\ FromEither(d, e, entry)
<1>0. /\ \A s \in DOMAIN entry : GoodLeaf(entry[s], m) /\ \A p \in LeafPlaces(d) : Apart(entry[s], LeafAt(d, p))
      /\ Len(entry) = 2 => Apart(entry[1], entry[2])
      /\ Size(d) + Len(entry) <= MaxBlocks
      /\ Count(d, "featuredProject") + Cardinality(SidesOf(entry, "featuredProject")) <= MaxFeatured
  BY DEF Welcome
<1>1. d \in Layouts  BY DEF Good
<1>2. PICK new : new = {p \in LeafPlaces(e) : p[1] = i}  OBVIOUS
<1>3. e \in Layouts /\ Carries(d, e, new) /\ Retains(d, e, {}) /\ e[i] = entry /\ i \in 1..Len(e)
      /\ \A s : <<i, s>> \in LeafPlaces(e) <=> s \in DOMAIN entry
  <2>1. /\ e \in Layouts /\ Carries(d, e, {p \in LeafPlaces(e) : p[1] = i})
        /\ Retains(d, e, {}) /\ e[i] = entry /\ i \in 1..Len(e)
        /\ \A s : <<i, s>> \in LeafPlaces(e) <=> s \in DOMAIN entry
    BY <1>1, InsertedIs
  <2>2. QED  BY <2>1, <1>2
<1>4. \A p \in new : p[2] \in DOMAIN entry /\ LeafAt(e, p) = entry[p[2]] /\ p = <<i, p[2]>>
  <2>1. SUFFICES ASSUME NEW p \in new
                 PROVE  p[2] \in DOMAIN entry /\ LeafAt(e, p) = entry[p[2]] /\ p = <<i, p[2]>>
    OBVIOUS
  <2>2. p \in LeafPlaces(e) /\ p[1] = i  BY <1>2
  <2>3. p[2] \in DOMAIN e[p[1]] /\ p = <<p[1], p[2]>>  BY <1>3, <2>2, PlaceSides
  <2>4. QED  BY <1>3, <2>2, <2>3 DEF LeafAt
<1>5. \A p \in new : GoodLeaf(LeafAt(e, p), m)  BY <1>0, <1>4
<1>6. ASSUME NEW p \in new, NEW q \in LeafPlaces(e), p # q PROVE Apart(LeafAt(e, p), LeafAt(e, q))
  <2>1. PICK s \in DOMAIN entry : LeafAt(e, p) = entry[s] /\ s = p[2] /\ p = <<i, s>>  BY <1>4
  <2>2. CASE q \in new
    <3>1. PICK t \in DOMAIN entry : LeafAt(e, q) = entry[t] /\ q = <<i, t>>  BY <1>4, <2>2
    <3>2. s # t  BY <1>6, <2>1, <3>1
    <3>3. s \in {1, 2} /\ t \in {1, 2} /\ (Len(entry) = 1 => s = 1 /\ t = 1)
          /\ (Len(entry) = 1 \/ Len(entry) = 2)
      BY EntryIs
    <3>4. Apart(entry[1], entry[2])  BY <1>0, <3>2, <3>3
    <3>5. Apart(entry[s], entry[t])  BY <3>2, <3>3, <3>4 DEF Apart
    <3>6. QED  BY <2>1, <3>1, <3>5
  <2>3. CASE q \notin new
    <3>1. PICK r \in LeafPlaces(d) : LeafAt(e, q) = LeafAt(d, r)  BY <1>3, <2>3, CarriedFrom
    <3>2. QED  BY <1>0, <2>1, <3>1
  <2>4. QED  BY <2>2, <2>3
<1>7. PICK typed : typed = {p \in new : LeafAt(e, p).type = "featuredProject"}  OBVIOUS
<1>8. PICK feature : feature = "featuredProject"  OBVIOUS
<1>9. /\ Cardinality(new) \in Nat /\ Cardinality(new) <= Len(entry)
      /\ Cardinality(typed) \in Nat /\ Cardinality(SidesOf(entry, "featuredProject")) \in Nat
      /\ Cardinality(typed) <= Cardinality(SidesOf(entry, "featuredProject"))
  <2>1. new = PlacesIn(e, i)  BY <1>2 DEF PlacesIn
  <2>2. typed = PlacesInOf(e, i, feature)  BY <1>7, <1>8, <2>1 DEF PlacesInOf
  <2>3. e \in Layouts /\ i \in 1..Len(e) /\ e[i] = entry  BY <1>3
  <2>4. /\ Cardinality(PlacesIn(e, i)) \in Nat /\ Cardinality(PlacesIn(e, i)) <= Len(entry)
        /\ Cardinality(PlacesInOf(e, i, feature)) \in Nat /\ Cardinality(SidesOf(entry, feature)) \in Nat
        /\ Cardinality(PlacesInOf(e, i, feature)) <= Cardinality(SidesOf(entry, feature))
    BY <2>3, NewPlaces
  <2>5. QED  BY <1>8, <2>1, <2>2, <2>4
<1>10. Size(d) + Cardinality(new) <= MaxBlocks
  <2>1. Size(d) \in Nat  BY <1>1, PlacesFinite
  <2>2. MaxBlocks \in Nat /\ Len(entry) \in Nat  BY EntryIs, EditorDocumentAssumption
  <2>3. QED  BY <1>0, <1>9, <2>1, <2>2
<1>11. Count(d, "featuredProject") + Cardinality(typed) <= MaxFeatured
  <2>1. Count(d, feature) \in Nat  BY <1>1, <1>3, CarriedCount
  <2>2. MaxFeatured \in Nat  BY EditorDocumentAssumption
  <2>3. PICK c \in Nat : c = Cardinality(SidesOf(entry, feature))  BY <1>8, <1>9
  <2>4. PICK t \in Nat : t = Cardinality(typed)  BY <1>9
  <2>5. PICK k \in Nat : k = Count(d, feature)  BY <2>1
  <2>6. k + c <= MaxFeatured /\ t <= c  BY <1>0, <1>8, <1>9, <2>3, <2>4, <2>5
  <2>7. k + t <= MaxFeatured  BY <2>2, <2>6
  <2>8. QED  BY <1>8, <2>4, <2>5, <2>7
<1>12. Good(e, m)
  BY <1>3, <1>5, <1>6, <1>7, <1>10, <1>11, GoodWith
<1>13. ASSUME NEW p \in LeafPlaces(e)
       PROVE  \/ \E s \in DOMAIN entry : LeafAt(e, p) = entry[s]
              \/ \E q \in LeafPlaces(d) : LeafAt(e, p) = LeafAt(d, q)
  <2>2. CASE p \in new  BY <1>4, <2>2
  <2>3. CASE p \notin new  BY <1>3, <2>3, CarriedFrom
  <2>4. QED  BY <2>2, <2>3
<1>14. LeafIds(e) = LeafIds(d) \cup IdsIn(entry)
  <2>1. LeafIds(e) \subseteq LeafIds(d) \cup IdsIn(entry)
    BY <1>13 DEF LeafIds, LeafSet, IdsIn
  <2>2. LeafIds(d) \subseteq LeafIds(e)
    BY <1>3 DEF Retains, LeafIds, LeafSet
  <2>3. ASSUME NEW s \in DOMAIN entry PROVE entry[s].id \in LeafIds(e)
    <3>1. <<i, s>> \in LeafPlaces(e) /\ LeafAt(e, <<i, s>>) = entry[s]  BY <1>3 DEF LeafAt
    <3>2. QED  BY <3>1 DEF LeafIds, LeafSet
  <2>4. QED  BY <2>1, <2>2, <2>3 DEF IdsIn
<1>15. QED  BY <1>12, <1>13, <1>14 DEF FromEither

\* Every set of numbers that has one has a least one.
LEMMA LeastNumber ==
  ASSUME NEW T \in SUBSET Nat, T # {}
  PROVE  \E x \in T : \A y \in T : x <= y
<1>1. IsWellFoundedOn(OpToRel(<, Nat), Nat)
  BY NatLessThanWellFounded
<1>2. \E x \in T : \A y \in T : ~(<<y, x>> \in OpToRel(<, Nat))
  BY <1>1, WFMin
<1>3. \A x \in T, y \in T : ~(<<y, x>> \in OpToRel(<, Nat)) => x <= y
  BY DEF OpToRel
<1>4. QED  BY <1>2, <1>3

-----------------------------------------------------------------------------
(* Finding a block, and new ones. *)

\* On a good page an id names one place, which every look-up finds.
LEMMA ShownOnce ==
  ASSUME NEW doc, NEW n, Good(doc, n), NEW id \in LeafIds(doc)
  PROVE  \E p \in LeafPlaces(doc) :
           /\ LeafAt(doc, p).id = id /\ Leaf(doc, id) = LeafAt(doc, p)
           /\ EntryIndexOf(doc, id) = p[1] /\ SideOf(doc[p[1]], id) = p[2]
           /\ \A q \in LeafPlaces(doc) : LeafAt(doc, q).id = id => q = p
<1>1. doc \in Layouts /\ \A p, q \in LeafPlaces(doc) : p # q => Apart(LeafAt(doc, p), LeafAt(doc, q))
  BY DEF Good
<1>2. PICK p \in LeafPlaces(doc) : LeafAt(doc, p).id = id  BY DEF LeafIds, LeafSet
<1>3. \A q \in LeafPlaces(doc) : LeafAt(doc, q).id = id => q = p
  BY <1>1, <1>2 DEF Apart, Names
<1>4. p[1] \in 1..Len(doc) /\ p[2] \in DOMAIN doc[p[1]] /\ p = <<p[1], p[2]>>
  BY <1>1, PlaceSides
<1>5. DOMAIN doc = 1..Len(doc)  BY <1>1 DEF Layouts
<1>6. \A i \in 1..Len(doc) : \A s \in DOMAIN doc[i] : doc[i][s].id = id => i = p[1] /\ s = p[2]
  <2>1. SUFFICES ASSUME NEW i \in 1..Len(doc), NEW s \in DOMAIN doc[i], doc[i][s].id = id
                 PROVE  i = p[1] /\ s = p[2]
    OBVIOUS
  <2>2. <<i, s>> \in LeafPlaces(doc)  BY <1>1, PlaceIs
  <2>3. LeafAt(doc, <<i, s>>).id = id  BY <2>1 DEF LeafAt
  <2>4. <<i, s>> = p  BY <1>3, <2>2, <2>3
  <2>5. QED  BY <2>4
<1>7. doc[p[1]][p[2]].id = id  BY <1>2 DEF LeafAt
<1>8. EntryIndexOf(doc, id) = p[1]
  BY <1>4, <1>5, <1>6, <1>7 DEF EntryIndexOf
<1>9. SideOf(doc[p[1]], id) = p[2]
  BY <1>4, <1>6, <1>7 DEF SideOf
<1>10. Leaf(doc, id) = LeafAt(doc, p)
  <2>1. LeafAt(doc, p) \in LeafSet(doc)  BY DEF LeafSet
  <2>2. \A leaf \in LeafSet(doc) : leaf.id = id => leaf = LeafAt(doc, p)
    BY <1>3 DEF LeafSet
  <2>3. QED  BY <1>2, <2>1, <2>2 DEF Leaf
<1>11. QED  BY <1>2, <1>3, <1>8, <1>9, <1>10

\* A good page stays good as ids are handed out.
LEMMA GoodLater ==
  ASSUME NEW doc, NEW n \in Nat, Good(doc, n), NEW m \in Nat, n <= m
  PROVE  Good(doc, m)
<1>1. 1..n \subseteq 1..m  OBVIOUS
<1>2. \A p \in LeafPlaces(doc) : GoodLeaf(LeafAt(doc, p), m)  BY <1>1 DEF Good, GoodLeaf
<1>3. QED  BY <1>2 DEF Good

FreshItems(n, c) == {n + 1 + k : k \in 1..c}

\* The items of a new block are as many as asked for, and have ids of their own.
LEMMA FreshItemsAre ==
  ASSUME NEW n \in Nat, NEW c \in Nat
  PROVE  /\ IsFiniteSet(FreshItems(n, c)) /\ Cardinality(FreshItems(n, c)) = c
         /\ FreshItems(n, c) \subseteq n + 2..n + 1 + c
<1>1. PICK S : S = FreshItems(n, c)  OBVIOUS
<1>2. S = {n + 1 + k : k \in 1..c}  BY <1>1 DEF FreshItems
<1>3. PICK f : f = [k \in 1..c |-> n + 1 + k]  OBVIOUS
<1>4. f \in Bijection(1..c, S)
  <2>1. f \in [1..c -> S]  BY <1>2, <1>3
  <2>2. \A k, l \in 1..c : f[k] = f[l] => k = l  BY <1>3
  <2>3. \A x \in S : \E k \in 1..c : f[k] = x  BY <1>2, <1>3
  <2>4. QED  BY <2>1, <2>2, <2>3 DEF Bijection, Injection, Surjection, IsInjective
<1>5. IsFiniteSet(1..c) /\ Cardinality(1..c) = c
  <2>1. PICK one \in Int : one = 1  OBVIOUS
  <2>2. c \in Int  OBVIOUS
  <2>3. IsFiniteSet(one..c)  BY <2>1, <2>2, FS_Interval
  <2>4. Cardinality(one..c) = IF one > c THEN 0 ELSE c - one + 1  BY <2>1, <2>2, FS_Interval
  <2>5. QED  BY <2>1, <2>3, <2>4
<1>6. IsFiniteSet(S) /\ Cardinality(S) = c
  <2>1. PICK T : T = 1..c  OBVIOUS
  <2>2. IsFiniteSet(T) /\ f \in Bijection(T, S)  BY <1>4, <1>5, <2>1
  <2>3. IsFiniteSet(S) /\ Cardinality(S) = Cardinality(T)  BY <2>2, FS_Bijection DEF ExistsBijection
  <2>4. QED  BY <1>5, <2>1, <2>3
<1>7. S \subseteq n + 2..n + 1 + c  BY <1>2
<1>8. QED  BY <1>1, <1>6, <1>7

\* A number of items a block of a type may have.
Allowed(type, c) ==
  /\ MinItems[type] = 0 => c = 0
  /\ MinItems[type] <= c
  /\ type # "gallery" => ~(c > MaxItems)

\* A block that fits has finitely many items, as many as its type allows.
Finite(leaf) == ItemsFit(leaf) /\ IsFiniteSet(leaf.items)

LEMMA ItemsAreAllowed ==
  ASSUME NEW leaf, NEW c, c = Cardinality(leaf.items)
  PROVE  ItemsFit(leaf) <=> Allowed(leaf.type, c)
BY DEF ItemsFit, Allowed, IsGallery, Overfull

LEMMA GoodIsFinite ==
  ASSUME NEW leaf, NEW n \in Nat, GoodLeaf(leaf, n)
  PROVE  Finite(leaf) /\ Cardinality(leaf.items) \in Nat
<1>1. ItemsFit(leaf) /\ leaf.items \subseteq 1..n  BY DEF GoodLeaf, Names
<1>2. PICK one \in Int : one = 1  OBVIOUS
<1>3. IsFiniteSet(one..n)  BY FS_Interval
<1>4. IsFiniteSet(leaf.items)  BY <1>1, <1>2, <1>3, FS_Subset
<1>5. QED  BY <1>1, <1>4, FS_CardinalityType DEF Finite

\* A block whose id and items are the next to be handed out.
LEMMA FreshLeaf ==
  ASSUME NEW leaf \in Block, NEW n \in Nat, NEW c \in Nat,
         leaf.id = n + 1, leaf.items = FreshItems(n, c),
         Allowed(leaf.type, c)
  PROVE  /\ IdsOf(leaf) = 1 + c /\ GoodLeaf(leaf, n + IdsOf(leaf))
         /\ Names(leaf) \subseteq n + 1..n + IdsOf(leaf)
<1>1. /\ IsFiniteSet(leaf.items) /\ Cardinality(leaf.items) = c
      /\ leaf.items \subseteq n + 2..n + 1 + c
  BY FreshItemsAre
<1>2. IdsOf(leaf) = 1 + c  BY <1>1 DEF IdsOf
<1>3. ItemsFit(leaf)  BY <1>1, ItemsAreAllowed
<1>4. leaf.id \notin leaf.items  BY <1>1
<1>5. Names(leaf) \subseteq n + 1..n + (1 + c)  BY <1>1 DEF Names
<1>6. Names(leaf) \subseteq n + 1..n + IdsOf(leaf)  BY <1>2, <1>5
<1>7. n + 1..n + IdsOf(leaf) \subseteq 1..n + IdsOf(leaf)  BY <1>2
<1>8. QED  BY <1>2, <1>3, <1>4, <1>6, <1>7 DEF GoodLeaf

\* New names are apart from those in use.
LEMMA ApartFromNew ==
  ASSUME NEW leaf, NEW other, NEW n \in Nat, NEW m \in Nat,
         Names(leaf) \subseteq n + 1..m, Names(other) \subseteq 1..n
  PROVE  Apart(leaf, other) /\ Apart(other, leaf)
BY DEF Apart

-----------------------------------------------------------------------------
(* The inductive invariant.  Undo is apart from the page it may go back to,  *)
(* and the live page is one the validator took.                              *)
DocumentFits ==
  /\ issued \in Nat
  /\ Good(blocks, issued)
UndoFits(undo, doc, n) ==
  undo # NoUndo =>
    /\ undo.index \in Nat \ {0} /\ undo.block \in Block /\ GoodLeaf(undo.block, n)
    /\ \A p \in LeafPlaces(doc) : Apart(undo.block, LeafAt(doc, p))
LiveFits(doc, n) == doc # NoSnapshotYet => Good(doc, n)
DocumentInv ==
  /\ DocumentFits
  /\ UndoFits(undoable, blocks, issued)
  /\ LiveFits(live, issued)
  /\ replacing => live # NoSnapshotYet
  /\ SelectionIsOnThePage

\* The last block of a page is one more entry.
LEMMA AppendedIs ==
  ASSUME NEW d \in Layouts, NEW entry \in Entry
  PROVE  Append(d, entry) = InsertAt(d, Len(d) + 1, entry) /\ Len(d) + 1 \in 1..Len(d) + 1
<1>1. PICK E : E = Entry  OBVIOUS
<1>2. PICK s \in Seq(E) : s = d  BY <1>1 DEF Layouts
<1>3. PICK n \in Nat : n = Len(s)  OBVIOUS
<1>4. n + 1 \in 1..Len(s) + 1 /\ entry \in E  BY <1>1, <1>3
<1>5. /\ InsertAt(s, n + 1, entry) \in Seq(E) /\ Len(InsertAt(s, n + 1, entry)) = Len(s) + 1
      /\ \A k \in 1..Len(s) + 1 :
           InsertAt(s, n + 1, entry)[k] = IF k < n + 1 THEN s[k] ELSE IF k = n + 1 THEN entry ELSE s[k - 1]
  BY <1>4, InsertAtIs, SMTT(60)
<1>6. PICK e : e = InsertAt(s, n + 1, entry)  OBVIOUS
<1>7. e \in Seq(E) /\ Len(e) = n + 1 /\ \A k \in 1..n + 1 : e[k] = Append(s, entry)[k]
  BY <1>3, <1>4, <1>5, <1>6
<1>8. Append(s, entry) \in Seq(E) /\ Len(Append(s, entry)) = n + 1  BY <1>3, <1>4
<1>9. Append(s, entry) = e  BY <1>7, <1>8
<1>10. QED  BY <1>2, <1>3, <1>4, <1>6, <1>9

\* One block alone is of one type.
LEMMA SidesOfOne ==
  ASSUME NEW leaf \in Block, NEW type
  PROVE  Cardinality(SidesOf(<<leaf>>, type)) = IF leaf.type = type THEN 1 ELSE 0
<1>1. <<leaf>> \in Entry /\ DOMAIN <<leaf>> = {1} /\ <<leaf>>[1] = leaf
  BY EntryOf, EntryIs
<1>2. CASE leaf.type = type
  <2>1. SidesOf(<<leaf>>, type) = {1}  BY <1>1, <1>2 DEF SidesOf
  <2>2. QED  BY <1>2, <2>1, FS_Singleton
<1>3. CASE leaf.type # type
  <2>1. SidesOf(<<leaf>>, type) = {}  BY <1>1, <1>3 DEF SidesOf
  <2>2. QED  BY <1>3, <2>1, FS_EmptySet
<1>4. QED  BY <1>2, <1>3

\* A block that CanAdd allows, put anywhere on the page.
LEMMA BlockAdded ==
  ASSUME NEW d, NEW n \in Nat, Good(d, n), NEW m \in Nat, n <= m,
         NEW i \in 1..Len(d) + 1, NEW leaf \in Block, GoodLeaf(leaf, m),
         \A p \in LeafPlaces(d) : Apart(leaf, LeafAt(d, p)), CanAdd(d, leaf),
         NEW e, e = InsertAt(d, i, <<leaf>>)
  PROVE  /\ Good(e, m) /\ LeafIds(e) = LeafIds(d) \cup {leaf.id}
         /\ \A p \in LeafPlaces(e) : LeafAt(e, p) = leaf \/ \E q \in LeafPlaces(d) : LeafAt(e, p) = LeafAt(d, q)
<1>1. PICK entry \in Entry : entry = <<leaf>>  BY EntryOf
<1>2. Len(entry) = 1 /\ DOMAIN entry = {1} /\ entry[1] = leaf  BY <1>1, EntryOf, EntryIs
<1>3. d \in Layouts  BY DEF Good
<1>4. Size(d) + Len(entry) <= MaxBlocks  BY <1>2 DEF CanAdd, HasRoomFor
<1>5. PICK feature : feature = "featuredProject"  OBVIOUS
<1>6. Count(d, feature) + Cardinality(SidesOf(entry, feature)) <= MaxFeatured
  <2>1. d \in Layouts /\ Carries(d, d, {})
    <3>1. PICK f : f = [p \in LeafPlaces(d) |-> p]  OBVIOUS
    <3>2. f \in Injection(LeafPlaces(d), LeafPlaces(d))  BY <3>1 DEF Injection, IsInjective
    <3>3. \A p \in LeafPlaces(d) : LeafAt(d, p) = LeafAt(d, f[p])  BY <3>1
    <3>4. QED  BY <1>3, <3>2, <3>3, CarriesAll
  <2>2. Count(d, feature) \in Nat  BY <2>1, CarriedCount
  <2>3. PICK k \in Nat : k = Count(d, feature)  BY <2>2
  <2>4. MaxFeatured \in Nat  BY EditorDocumentAssumption
  <2>5. PICK c : c = Cardinality(SidesOf(entry, feature))  OBVIOUS
  <2>6. c = IF leaf.type = feature THEN 1 ELSE 0  BY <1>1, <2>5, SidesOfOne
  <2>7. leaf.type = feature => k < MaxFeatured
    BY <1>5, <2>3 DEF CanAdd, IsFeatured, CanAddFeaturedProject
  <2>8. k <= MaxFeatured  BY <1>5, <2>3 DEF Good
  <2>9. k + c <= MaxFeatured  BY <2>3, <2>4, <2>6, <2>7, <2>8
  <2>10. QED  BY <2>3, <2>5, <2>9
<1>7. \A s \in DOMAIN entry : GoodLeaf(entry[s], m) /\ \A p \in LeafPlaces(d) : Apart(entry[s], LeafAt(d, p))
  BY <1>2
<1>8. e = InsertAt(d, i, entry) /\ (Len(entry) = 2 => Apart(entry[1], entry[2]))
  BY <1>1, <1>2
<1>9. Count(d, "featuredProject") + Cardinality(SidesOf(entry, "featuredProject")) <= MaxFeatured
  BY <1>5, <1>6
<1>10. Good(e, m) /\ LeafIds(e) = LeafIds(d) \cup IdsIn(entry) /\ FromEither(d, e, entry)
  <2>1. Welcome(d, entry, m)  BY <1>2, <1>4, <1>7, <1>9 DEF Welcome
  <2>2. e = InsertAt(d, i, entry)  BY <1>1
  <2>3. QED  BY <2>1, <2>2, InsertedGood
<1>11. IdsIn(entry) = {leaf.id}  BY <1>2 DEF IdsIn
<1>12. QED  BY <1>2, <1>10, <1>11 DEF FromEither

\* Undo stays apart from a page that has nothing new.
LEMMA UndoStaysApart ==
  ASSUME NEW undo, NEW d, NEW e, NEW n, UndoFits(undo, d, n), Carries(d, e, {})
  PROVE  UndoFits(undo, e, n)
<1>1. ASSUME NEW p \in LeafPlaces(e), undo # NoUndo PROVE Apart(undo.block, LeafAt(e, p))
  <2>1. PICK q \in LeafPlaces(d) : LeafAt(e, p) = LeafAt(d, q)  BY CarriedFrom
  <2>2. QED  BY <1>1, <2>1 DEF UndoFits
<1>2. QED  BY <1>1 DEF UndoFits

\* A page no block is gone from.
LEMMA NothingGone ==
  ASSUME LeafIds(blocks) \subseteq LeafIds(blocks')
  PROVE  NothingVanishes
BY DEF NothingVanishes

\* Blocks that only change places.
LEMMA Rearranged ==
  ASSUME DocumentInv, NEW doc \in Layouts, Carries(blocks, doc, {}), Retains(blocks, doc, {}),
         NEW id \in LeafIds(blocks), Rearrange(doc, id)
  PROVE  DocumentInv' /\ NothingVanishes
<1>1. /\ blocks' = doc /\ selected' = id
      /\ UNCHANGED <<undoable, transients, issued, frameFilled, replacing, live, resets>>
  BY DEF Rearrange, Inspect, Untouched
<1>2. issued \in Nat /\ Good(blocks, issued)  BY DEF DocumentInv, DocumentFits
<1>3. Good(doc, issued)  BY <1>2, GoodRearranged
<1>4. LeafIds(doc) \subseteq LeafIds(blocks)
      /\ \A p \in LeafPlaces(blocks) \ {} : LeafAt(blocks, p).id \in LeafIds(doc)
  BY RearrangedIds
<1>5. LeafIds(blocks) \subseteq LeafIds(doc)  BY <1>4 DEF LeafIds, LeafSet
<1>6. UndoFits(undoable, doc, issued)  BY UndoStaysApart DEF DocumentInv
<1>7. NothingVanishes  BY <1>1, <1>5, NothingGone
<1>8. DocumentFits'  BY <1>1, <1>2, <1>3 DEF DocumentFits
<1>9. SelectionIsOnThePage'  BY <1>1, <1>5 DEF SelectionIsOnThePage
<1>10. DocumentInv'  BY <1>1, <1>6, <1>8, <1>9 DEF DocumentInv
<1>11. QED  BY <1>7, <1>10

\* Moving a block or a row one place up or down loses nothing.
LEMMA MoveBlockKeeps ==
  ASSUME DocumentInv, NEW id \in LeafIds(blocks), MoveBlock(id)
  PROVE  DocumentInv' /\ NothingVanishes
<1>1. Good(blocks, issued) /\ blocks \in Layouts  BY DEF DocumentInv, DocumentFits, Good
<1>2. PICK p \in LeafPlaces(blocks) : EntryIndexOf(blocks, id) = p[1]  BY <1>1, ShownOnce
<1>3. PICK i : i = EntryIndexOf(blocks, id)  OBVIOUS
<1>4. PICK j \in DOMAIN blocks \cap {i - 1, i + 1} : Rearrange(Moved(blocks, i, j), id)
  BY <1>3 DEF MoveBlock
<1>5. i \in 1..Len(blocks) /\ j \in 1..Len(blocks)  BY <1>1, <1>2, <1>3, <1>4, PlaceSides DEF Layouts
<1>6. PICK e : e = Moved(blocks, i, j)  OBVIOUS
<1>7. e \in Layouts /\ Carries(blocks, e, {}) /\ Retains(blocks, e, {})  BY <1>1, <1>5, <1>6, MovedIs
<1>8. Rearrange(e, id)  BY <1>4, <1>6
<1>9. QED  BY <1>7, <1>8, Rearranged

\* Nor does dragging it to another place.
LEMMA ReorderBlockKeeps ==
  ASSUME DocumentInv, NEW i \in DOMAIN blocks, NEW j \in DOMAIN blocks, ReorderBlock(i, j)
  PROVE  DocumentInv' /\ NothingVanishes
<1>1. blocks \in Layouts  BY DEF DocumentInv, DocumentFits, Good
<1>2. i \in 1..Len(blocks) /\ j \in 1..Len(blocks) /\ blocks[i] \in Entry  BY <1>1 DEF Layouts
<1>3. PICK e : e = Moved(blocks, i, j)  OBVIOUS
<1>4. PICK id : id = blocks[i][1].id  OBVIOUS
<1>5. id \in LeafIds(blocks)
  <2>1. 1 \in DOMAIN blocks[i]  BY <1>2, EntryIs
  <2>2. <<i, 1>> \in LeafPlaces(blocks)  BY <1>1, <1>2, <2>1, PlaceIs
  <2>3. LeafAt(blocks, <<i, 1>>) = blocks[i][1]  BY DEF LeafAt
  <2>4. QED  BY <1>4, <2>2, <2>3 DEF LeafIds, LeafSet
<1>6. e \in Layouts /\ Carries(blocks, e, {}) /\ Retains(blocks, e, {})  BY <1>1, <1>2, <1>3, MovedIs
<1>7. Rearrange(e, id)  BY <1>3, <1>4 DEF ReorderBlock
<1>8. QED  BY <1>5, <1>6, <1>7, Rearranged

\* Joining two blocks in a row keeps both.
LEMMA PairBlocksKeeps ==
  ASSUME DocumentInv, NEW id \in LeafIds(blocks), PairBlocks(id)
  PROVE  DocumentInv' /\ NothingVanishes
<1>1. Good(blocks, issued) /\ blocks \in Layouts  BY DEF DocumentInv, DocumentFits, Good
<1>2. PICK p \in LeafPlaces(blocks) : EntryIndexOf(blocks, id) = p[1]  BY <1>1, ShownOnce
<1>3. PICK i : i = EntryIndexOf(blocks, id)  OBVIOUS
<1>4. PICK start \in {i - 1, i} :
        /\ {start, start + 1} \subseteq DOMAIN blocks
        /\ ~IsRow(blocks[start]) /\ ~IsRow(blocks[start + 1])
        /\ Rearrange(Paired(blocks, start), id)
  BY <1>3 DEF PairBlocks
<1>5. start \in 1..Len(blocks) - 1
  <2>1. start \in 1..Len(blocks) /\ start + 1 \in 1..Len(blocks)  BY <1>1, <1>4 DEF Layouts
  <2>2. QED  BY <2>1
<1>6. PICK e : e = Paired(blocks, start)  OBVIOUS
<1>7. e \in Layouts /\ Carries(blocks, e, {}) /\ Retains(blocks, e, {})
  BY <1>1, <1>4, <1>5, <1>6, PairedIs
<1>8. Rearrange(e, id)  BY <1>4, <1>6
<1>9. QED  BY <1>7, <1>8, Rearranged

\* Splitting a row or swapping its sides keeps both blocks.
LEMMA RowChangeKeeps ==
  ASSUME DocumentInv, NEW id \in LeafIds(blocks), SplitRow(id) \/ SwapRowSides(id)
  PROVE  DocumentInv' /\ NothingVanishes
<1>1. Good(blocks, issued) /\ blocks \in Layouts  BY DEF DocumentInv, DocumentFits, Good
<1>2. PICK p \in LeafPlaces(blocks) : EntryIndexOf(blocks, id) = p[1]  BY <1>1, ShownOnce
<1>3. PICK i : i = EntryIndexOf(blocks, id)  OBVIOUS
<1>4. i \in 1..Len(blocks) /\ IsRow(blocks[i])
  BY <1>1, <1>2, <1>3, PlaceSides DEF SplitRow, SwapRowSides
<1>5. CASE SplitRow(id)
  <2>1. PICK e : e = Split(blocks, i)  OBVIOUS
  <2>2. e \in Layouts /\ Carries(blocks, e, {}) /\ Retains(blocks, e, {})  BY <1>1, <1>4, <2>1, SplitIs
  <2>3. Rearrange(e, id)  BY <1>3, <1>5, <2>1 DEF SplitRow
  <2>4. QED  BY <2>2, <2>3, Rearranged
<1>6. CASE SwapRowSides(id)
  <2>1. PICK e : e = Swapped(blocks, i)  OBVIOUS
  <2>2. e \in Layouts /\ Carries(blocks, e, {}) /\ Retains(blocks, e, {})  BY <1>1, <1>4, <2>1, SwappedIs
  <2>3. Rearrange(e, id)  BY <1>3, <1>6, <2>1 DEF SwapRowSides
  <2>4. QED  BY <2>2, <2>3, Rearranged
<1>7. QED  BY <1>5, <1>6

\* A block that is added has ids of its own and is within the limits.
LEMMA AddBlockKeeps ==
  ASSUME DocumentInv, NEW type \in BlockTypes, AddBlock(type)
  PROVE  DocumentInv' /\ NothingVanishes
<1>1. issued \in Nat /\ Good(blocks, issued) /\ blocks \in Layouts
  BY DEF DocumentInv, DocumentFits, Good
<1>2. PICK c \in Nat : c = MinItems[type]  BY EditorDocumentAssumption
<1>3. PICK leaf : leaf = [id |-> issued + 1, type |-> type, filled |-> TRUE,
                          items |-> {issued + 1 + k : k \in 1..MinItems[type]}]
  OBVIOUS
<1>4. leaf.items = FreshItems(issued, c) /\ leaf.id = issued + 1 /\ leaf.type = type
  BY <1>2, <1>3 DEF FreshItems
<1>5. leaf \in Block
  <2>1. FreshItems(issued, c) \subseteq Nat  BY <1>1 DEF FreshItems
  <2>2. QED  BY <1>1, <1>3, <1>4, <2>1 DEF Block
<1>6. Allowed(leaf.type, c)
  <2>1. PICK most \in Nat : most = MaxItems /\ c <= most  BY <1>2, EditorDocumentAssumption
  <2>2. QED  BY <1>2, <1>4, <2>1 DEF Allowed
<1>7. /\ IdsOf(leaf) = 1 + c /\ GoodLeaf(leaf, issued + IdsOf(leaf))
      /\ Names(leaf) \subseteq issued + 1..issued + IdsOf(leaf)
  BY <1>1, <1>4, <1>5, <1>6, FreshLeaf
<1>8. /\ CanAdd(blocks, leaf) /\ blocks' = Append(blocks, <<leaf>>)
      /\ selected' = leaf.id /\ issued' = issued + IdsOf(leaf)
      /\ UNCHANGED <<undoable, transients, frameFilled, replacing, live, resets>>
  BY <1>3 DEF AddBlock, Untouched
<1>9. issued' \in Nat /\ issued <= issued'  BY <1>1, <1>7, <1>8
<1>10. \A other : Names(other) \subseteq 1..issued => Apart(leaf, other) /\ Apart(other, leaf)
  BY <1>1, <1>7, <1>8, <1>9, ApartFromNew
<1>11. \A p \in LeafPlaces(blocks) : Apart(leaf, LeafAt(blocks, p))
  BY <1>1, <1>10 DEF Good, GoodLeaf
<1>12. <<leaf>> \in Entry  BY <1>5, EntryOf
<1>13. blocks' = InsertAt(blocks, Len(blocks) + 1, <<leaf>>) /\ Len(blocks) + 1 \in 1..Len(blocks) + 1
  BY <1>1, <1>8, <1>12, AppendedIs
<1>14. GoodLeaf(leaf, issued')  BY <1>7, <1>8
<1>15. /\ Good(blocks', issued') /\ LeafIds(blocks') = LeafIds(blocks) \cup {leaf.id}
       /\ \A p \in LeafPlaces(blocks') :
            LeafAt(blocks', p) = leaf \/ \E q \in LeafPlaces(blocks) : LeafAt(blocks', p) = LeafAt(blocks, q)
  <2>1. PICK d, e, n, m, i : d = blocks /\ e = blocks' /\ n = issued /\ m = issued' /\ i = Len(blocks) + 1
    OBVIOUS
  <2>2. n \in Nat /\ m \in Nat /\ n <= m /\ Good(d, n) /\ i \in 1..Len(d) + 1
    BY <1>1, <1>9, <1>13, <2>1
  <2>3. leaf \in Block /\ GoodLeaf(leaf, m) /\ CanAdd(d, leaf) /\ e = InsertAt(d, i, <<leaf>>)
    BY <1>5, <1>8, <1>13, <1>14, <2>1
  <2>4. \A p \in LeafPlaces(d) : Apart(leaf, LeafAt(d, p))  BY <1>11, <2>1
  <2>5. /\ Good(e, m) /\ LeafIds(e) = LeafIds(d) \cup {leaf.id}
        /\ \A p \in LeafPlaces(e) : LeafAt(e, p) = leaf \/ \E q \in LeafPlaces(d) : LeafAt(e, p) = LeafAt(d, q)
    BY <2>2, <2>3, <2>4, BlockAdded
  <2>6. QED  BY <2>1, <2>5
<1>16. UndoFits(undoable', blocks', issued')
  <2>1. SUFFICES ASSUME undoable # NoUndo
                 PROVE  /\ undoable.index \in Nat \ {0} /\ undoable.block \in Block
                        /\ GoodLeaf(undoable.block, issued')
                        /\ \A p \in LeafPlaces(blocks') : Apart(undoable.block, LeafAt(blocks', p))
    BY <1>8 DEF UndoFits
  <2>2. /\ undoable.index \in Nat \ {0} /\ undoable.block \in Block /\ GoodLeaf(undoable.block, issued)
        /\ \A p \in LeafPlaces(blocks) : Apart(undoable.block, LeafAt(blocks, p))
    BY <2>1 DEF DocumentInv, UndoFits
  <2>3. 1..issued \subseteq 1..issued'  BY <1>1, <1>9
  <2>4. GoodLeaf(undoable.block, issued')  BY <2>2, <2>3 DEF GoodLeaf
  <2>5. Apart(undoable.block, leaf)  BY <1>10, <2>2 DEF GoodLeaf
  <2>6. QED  BY <1>15, <2>2, <2>4, <2>5
<1>17. LiveFits(live', issued')  BY <1>1, <1>8, <1>9, GoodLater DEF LiveFits, DocumentInv
<1>18. SelectionIsOnThePage'  BY <1>8, <1>15 DEF SelectionIsOnThePage
<1>19. NothingVanishes  BY <1>15, NothingGone
<1>20. DocumentInv'  BY <1>8, <1>9, <1>15, <1>16, <1>17, <1>18 DEF DocumentInv, DocumentFits
<1>21. QED  BY <1>19, <1>20

NamesOf(doc) == UNION {Names(LeafAt(doc, p)) : p \in LeafPlaces(doc)}

\* Undo stays apart from names that are new.
LEMMA UndoBesideNew ==
  ASSUME NEW undo, NEW d, NEW e, NEW n \in Nat, NEW m \in Nat, n <= m, UndoFits(undo, d, n),
         \A p \in LeafPlaces(e) : Names(LeafAt(e, p)) \subseteq NamesOf(d) \cup (n + 1..m)
  PROVE  UndoFits(undo, e, m)
<1>1. SUFFICES ASSUME undo # NoUndo
               PROVE  /\ undo.index \in Nat \ {0} /\ undo.block \in Block /\ GoodLeaf(undo.block, m)
                      /\ \A p \in LeafPlaces(e) : Apart(undo.block, LeafAt(e, p))
  BY DEF UndoFits
<1>2. /\ undo.index \in Nat \ {0} /\ undo.block \in Block /\ GoodLeaf(undo.block, n)
      /\ \A p \in LeafPlaces(d) : Apart(undo.block, LeafAt(d, p))
  BY <1>1 DEF UndoFits
<1>3. 1..n \subseteq 1..m  OBVIOUS
<1>4. GoodLeaf(undo.block, m)  BY <1>2, <1>3 DEF GoodLeaf
<1>5. Names(undo.block) \cap NamesOf(d) = {}  BY <1>2 DEF Apart, NamesOf
<1>6. Names(undo.block) \cap (n + 1..m) = {}  BY <1>2 DEF GoodLeaf
<1>7. \A p \in LeafPlaces(e) : Apart(undo.block, LeafAt(e, p))  BY <1>5, <1>6 DEF Apart
<1>8. QED  BY <1>2, <1>4, <1>7

\* A copy of a block is like it, with names of its own.
LEMMA CopyIs ==
  ASSUME NEW leaf \in Block, Finite(leaf), NEW n \in Nat
  PROVE  /\ Copy(leaf, n) \in Block /\ Copy(leaf, n).type = leaf.type
         /\ IdsOf(leaf) \in Nat \ {0}
         /\ GoodLeaf(Copy(leaf, n), n + IdsOf(leaf))
         /\ Names(Copy(leaf, n)) \subseteq n + 1..n + IdsOf(leaf)
<1>1. PICK c : c = Cardinality(leaf.items)  OBVIOUS
<1>2. leaf.type \in BlockTypes  BY DEF Block
<1>3. ItemsFit(leaf) /\ IsFiniteSet(leaf.items)  BY DEF Finite
<1>4. Allowed(leaf.type, c)  BY <1>1, <1>3, ItemsAreAllowed
<1>5. c \in Nat  BY <1>1, <1>3, FS_CardinalityType
<1>6. PICK copy : copy = Copy(leaf, n)  OBVIOUS
<1>7. PICK items : items = FreshItems(n, c)  OBVIOUS
<1>8. copy = [leaf EXCEPT !.id = n + 1, !.items = items]
  BY <1>1, <1>6, <1>7 DEF Copy, FreshItems
<1>9. items \in SUBSET Nat  BY <1>5, <1>7 DEF FreshItems
<1>10. /\ copy \in Block /\ copy.id = n + 1 /\ copy.items = FreshItems(n, c) /\ copy.type = leaf.type
  <2>1. PICK B : B = Block  OBVIOUS
  <2>2. /\ leaf.id \in Nat /\ leaf.type \in BlockTypes /\ leaf.filled \in BOOLEAN
        /\ leaf = [id |-> leaf.id, type |-> leaf.type, filled |-> leaf.filled, items |-> leaf.items]
    BY DEF Block
  <2>3. copy = [id |-> n + 1, type |-> leaf.type, filled |-> leaf.filled, items |-> items]
    BY <1>8, <2>2
  <2>4. n + 1 \in Nat  OBVIOUS
  <2>5. copy \in Block  BY <1>9, <2>2, <2>3, <2>4 DEF Block
  <2>6. QED  BY <1>7, <2>3, <2>5
<1>11. /\ IdsOf(copy) = 1 + c /\ GoodLeaf(copy, n + IdsOf(copy))
       /\ Names(copy) \subseteq n + 1..n + IdsOf(copy)
  <2>1. Allowed(copy.type, c)  BY <1>4, <1>10
  <2>2. QED  BY <1>5, <1>10, <2>1, FreshLeaf
<1>12. IdsOf(leaf) = 1 + c  BY <1>1 DEF IdsOf
<1>13. QED  BY <1>5, <1>6, <1>10, <1>11, <1>12

\* So is a copy of an entry.
LEMMA CopyEntryIs ==
  ASSUME NEW entry \in Entry, \A s \in DOMAIN entry : Finite(entry[s]), NEW n \in Nat,
         NEW m, m = n + IdsOfEntry(entry), NEW copy, copy = CopyEntry(entry, n)
  PROVE  /\ copy \in Entry /\ DOMAIN copy = DOMAIN entry /\ Len(copy) = Len(entry)
         /\ \A type : SidesOf(copy, type) = SidesOf(entry, type)
         /\ m \in Nat /\ n <= m
         /\ \A s \in DOMAIN copy : GoodLeaf(copy[s], m) /\ Names(copy[s]) \subseteq n + 1..m
         /\ Len(copy) = 2 => Apart(copy[1], copy[2])
<1>1. /\ entry[1] \in Block /\ 1 \in DOMAIN entry
      /\ Len(entry) = 1 => DOMAIN entry = {1}
      /\ Len(entry) = 2 => DOMAIN entry = {1, 2} /\ entry[2] \in Block
      /\ Len(entry) = 1 \/ Len(entry) = 2
      /\ IsRow(entry) <=> Len(entry) = 2
  BY EntryIs
<1>2. PICK a : a = Copy(entry[1], n)  OBVIOUS
<1>3. PICK k : k = n + IdsOf(entry[1])  OBVIOUS
<1>4. /\ a \in Block /\ a.type = entry[1].type /\ k \in Nat /\ n < k
      /\ GoodLeaf(a, k) /\ Names(a) \subseteq n + 1..k
  <2>1. Finite(entry[1])  BY <1>1
  <2>2. IdsOf(entry[1]) \in Nat \ {0}  BY <1>1, <2>1, CopyIs
  <2>3. k \in Nat /\ n < k  BY <1>3, <2>2
  <2>4. QED  BY <1>1, <1>2, <1>3, <2>1, <2>3, CopyIs
<1>5. CASE Len(entry) = 1
  <2>1. copy = <<a>> /\ m = k  BY <1>1, <1>2, <1>3, <1>5 DEF CopyEntry, IdsOfEntry
  <2>2. copy \in Entry /\ Len(copy) = 1 /\ copy[1] = a /\ DOMAIN copy = {1}
    <3>1. <<a>> \in Entry /\ Len(<<a>>) = 1 /\ <<a>>[1] = a  BY <1>4, EntryOf
    <3>2. copy \in Entry /\ Len(copy) = 1  BY <2>1, <3>1
    <3>3. DOMAIN copy = {1}  BY <3>2, EntryIs
    <3>4. QED  BY <2>1, <3>1, <3>2, <3>3
  <2>3. \A type : SidesOf(copy, type) = SidesOf(entry, type)
    BY <1>1, <1>4, <1>5, <2>2 DEF SidesOf
  <2>4. QED  BY <1>1, <1>4, <1>5, <2>1, <2>2, <2>3
<1>6. CASE Len(entry) = 2
  <2>1. PICK b : b = Copy(entry[2], k)  OBVIOUS
  <2>2. copy = <<a, b>>  BY <1>1, <1>2, <1>3, <1>6, <2>1 DEF CopyEntry
  <2>3. /\ b \in Block /\ b.type = entry[2].type /\ m \in Nat /\ k < m
        /\ GoodLeaf(b, m) /\ Names(b) \subseteq k + 1..m
    <3>1. Finite(entry[2]) /\ entry[2] \in Block  BY <1>1, <1>6
    <3>2. IdsOf(entry[2]) \in Nat \ {0} /\ IdsOf(entry[1]) \in Nat \ {0}  BY <1>1, <1>4, <3>1, CopyIs
    <3>3. m = k + IdsOf(entry[2])  BY <1>1, <1>3, <1>6, <3>2 DEF IdsOfEntry
    <3>4. m \in Nat /\ k < m  BY <1>4, <3>2, <3>3
    <3>5. QED  BY <1>4, <2>1, <3>1, <3>3, <3>4, CopyIs
  <2>4. copy \in Entry /\ Len(copy) = 2 /\ copy[1] = a /\ copy[2] = b /\ DOMAIN copy = {1, 2}
    <3>1. <<a, b>> \in Entry /\ Len(<<a, b>>) = 2 /\ <<a, b>>[1] = a /\ <<a, b>>[2] = b
      BY <1>4, <2>3, EntryOf
    <3>2. copy \in Entry /\ Len(copy) = 2  BY <2>2, <3>1
    <3>3. DOMAIN copy = {1, 2}  BY <3>2, EntryIs
    <3>4. QED  BY <2>2, <3>1, <3>2, <3>3
  <2>5. \A type : SidesOf(copy, type) = SidesOf(entry, type)
    BY <1>1, <1>4, <1>6, <2>3, <2>4 DEF SidesOf
  <2>6. GoodLeaf(a, m) /\ Names(a) \subseteq n + 1..m
    <3>1. 1..k \subseteq 1..m /\ n + 1..k \subseteq n + 1..m  BY <1>4, <2>3
    <3>2. QED  BY <1>4, <3>1 DEF GoodLeaf
  <2>7. Names(b) \subseteq n + 1..m
    <3>1. k + 1..m \subseteq n + 1..m  BY <1>4, <2>3
    <3>2. QED  BY <2>3, <3>1
  <2>8. Apart(a, b)
    <3>1. (n + 1..k) \cap (k + 1..m) = {}  BY <1>4, <2>3
    <3>2. QED  BY <1>4, <2>3, <3>1 DEF Apart
  <2>9. n <= m  BY <1>4, <2>3
  <2>10. QED  BY <1>1, <1>6, <2>3, <2>4, <2>5, <2>6, <2>7, <2>8, <2>9
<1>7. QED  BY <1>1, <1>5, <1>6

\* An entry that CanDuplicate allows is within the limit of featured projects.
LEMMA RoomForFeatured ==
  ASSUME NEW d, NEW n, Good(d, n), NEW i \in 1..Len(d), CanDuplicate(d, d[i])
  PROVE  Count(d, "featuredProject") + Cardinality(SidesOf(d[i], "featuredProject")) <= MaxFeatured
<1>1. d \in Layouts  BY DEF Good
<1>2. d[i] \in Entry  BY <1>1 DEF Layouts
<1>3. PICK feature : feature = "featuredProject"  OBVIOUS
<1>4. PICK sides : sides = SidesOf(d[i], feature)  OBVIOUS
<1>5. PICK f : f = [s \in sides |-> <<i, s>>]  OBVIOUS
<1>6. f \in Injection(sides, PlacesOf(d, feature))
  <2>1. ASSUME NEW s \in sides PROVE f[s] \in PlacesOf(d, feature)
    <3>1. s \in DOMAIN d[i] /\ d[i][s].type = feature /\ f[s] = <<i, s>>  BY <1>4, <1>5 DEF SidesOf
    <3>2. <<i, s>> \in LeafPlaces(d)  BY <1>1, <3>1, PlaceIs
    <3>3. LeafAt(d, <<i, s>>).type = feature  BY <3>1 DEF LeafAt
    <3>4. QED  BY <3>1, <3>2, <3>3 DEF PlacesOf
  <2>2. f \in [sides -> PlacesOf(d, feature)]  BY <1>5, <2>1
  <2>3. \A s, t \in sides : f[s] = f[t] => s = t  BY <1>5
  <2>4. QED  BY <2>2, <2>3 DEF Injection, IsInjective
<1>7. IsFiniteSet(PlacesOf(d, feature))
  <2>1. PlacesOf(d, feature) \subseteq LeafPlaces(d)  BY DEF PlacesOf
  <2>2. QED  BY <1>1, <2>1, PlacesFinite, FS_Subset
<1>8. IsFiniteSet(sides) /\ Cardinality(sides) <= Cardinality(PlacesOf(d, feature))
  BY <1>6, <1>7, FS_Injection
<1>9. PICK k \in Nat : k = Count(d, feature)
  BY <1>7, FS_CardinalityType DEF Count, PlacesOf
<1>10. PICK c \in Nat : c = Cardinality(sides)  BY <1>8, FS_CardinalityType
<1>11. c <= k  BY <1>8, <1>9, <1>10 DEF Count, PlacesOf
<1>12. MaxFeatured \in Nat /\ MaxFeatured <= 2 /\ k <= MaxFeatured
  BY <1>3, <1>9, EditorDocumentAssumption DEF Good
<1>13. CASE \E s \in DOMAIN d[i] : IsFeatured(d[i][s])
  <2>1. k < MaxFeatured  BY <1>3, <1>9, <1>13 DEF CanDuplicate
  <2>2. k + c <= MaxFeatured  BY <1>11, <1>12, <2>1
  <2>3. QED  BY <1>3, <1>4, <1>9, <1>10, <2>2
<1>14. CASE ~\E s \in DOMAIN d[i] : IsFeatured(d[i][s])
  <2>1. sides = {}  BY <1>3, <1>4, <1>14 DEF SidesOf, IsFeatured
  <2>2. c = 0  BY <1>10, <2>1, FS_EmptySet
  <2>3. k + c <= MaxFeatured  BY <1>12, <2>2
  <2>4. QED  BY <1>3, <1>4, <1>9, <1>10, <2>3
<1>15. QED  BY <1>13, <1>14

\* So has a copy, of a block or of a row.
LEMMA DuplicateBlockKeeps ==
  ASSUME DocumentInv, NEW id \in LeafIds(blocks), DuplicateBlock(id)
  PROVE  DocumentInv' /\ NothingVanishes
<1>1. PICK d, n : d = blocks /\ n = issued  OBVIOUS
<1>2. n \in Nat /\ Good(d, n) /\ d \in Layouts  BY <1>1 DEF DocumentInv, DocumentFits, Good
<1>3. PICK p \in LeafPlaces(d) :
        EntryIndexOf(d, id) = p[1] /\ SideOf(d[p[1]], id) = p[2]
  BY <1>1, <1>2, ShownOnce
<1>4. PICK i, side : i = p[1] /\ side = p[2]  OBVIOUS
<1>5. i \in 1..Len(d) /\ side \in DOMAIN d[i]  BY <1>2, <1>4, PlaceSides
<1>6. PICK entry \in Entry : entry = d[i]  BY <1>2, <1>5 DEF Layouts
<1>7. PICK copy : copy = CopyEntry(entry, n)  OBVIOUS
<1>8. PICK m : m = n + IdsOfEntry(entry)  OBVIOUS
<1>9. \A s \in DOMAIN entry : Finite(entry[s])
  <2>1. SUFFICES ASSUME NEW s \in DOMAIN entry PROVE Finite(entry[s])  OBVIOUS
  <2>2. <<i, s>> \in LeafPlaces(d)  BY <1>2, <1>5, <1>6, PlaceIs
  <2>3. LeafAt(d, <<i, s>>) = entry[s]  BY <1>6 DEF LeafAt
  <2>4. GoodLeaf(entry[s], n)  BY <1>2, <2>2, <2>3 DEF Good
  <2>5. QED  BY <1>2, <2>4, GoodIsFinite
<1>10. /\ copy \in Entry /\ DOMAIN copy = DOMAIN entry /\ Len(copy) = Len(entry)
       /\ \A type : SidesOf(copy, type) = SidesOf(entry, type)
       /\ m \in Nat /\ n <= m
       /\ \A s \in DOMAIN copy : GoodLeaf(copy[s], m) /\ Names(copy[s]) \subseteq n + 1..m
       /\ Len(copy) = 2 => Apart(copy[1], copy[2])
  BY <1>2, <1>7, <1>8, <1>9, CopyEntryIs
<1>11. /\ CanDuplicate(d, entry) /\ blocks' = InsertAt(d, i + 1, copy)
       /\ selected' = copy[side].id /\ issued' = m
       /\ UNCHANGED <<undoable, transients, frameFilled, replacing, live, resets>>
  BY <1>1, <1>3, <1>4, <1>6, <1>7, <1>8 DEF DuplicateBlock, Inspect, Untouched
<1>12. \A s \in DOMAIN copy, q \in LeafPlaces(d) : Apart(copy[s], LeafAt(d, q))
  BY <1>2, <1>10, ApartFromNew DEF Good, GoodLeaf
<1>13. Welcome(d, copy, m)
  <2>1. Size(d) + Len(copy) <= MaxBlocks  BY <1>10, <1>11 DEF CanDuplicate, HasRoomFor
  <2>2. Count(d, "featuredProject") + Cardinality(SidesOf(copy, "featuredProject")) <= MaxFeatured
    BY <1>2, <1>5, <1>6, <1>10, <1>11, RoomForFeatured
  <2>3. QED  BY <1>10, <1>12, <2>1, <2>2 DEF Welcome
<1>14. PICK e : e = blocks'  OBVIOUS
<1>15. Good(e, m) /\ LeafIds(e) = LeafIds(d) \cup IdsIn(copy) /\ FromEither(d, e, copy)
  <2>1. PICK j : j = i + 1  OBVIOUS
  <2>2. j \in 1..Len(d) + 1 /\ e = InsertAt(d, j, copy)  BY <1>5, <1>11, <1>14, <2>1
  <2>3. QED  BY <1>2, <1>10, <1>13, <2>2, InsertedGood
<1>16. UndoFits(undoable, e, m)
  <2>1. ASSUME NEW q \in LeafPlaces(e) PROVE Names(LeafAt(e, q)) \subseteq NamesOf(d) \cup (n + 1..m)
    BY <1>10, <1>15 DEF FromEither, NamesOf
  <2>2. UndoFits(undoable, d, n)  BY <1>1 DEF DocumentInv
  <2>3. QED  BY <1>2, <1>10, <2>1, <2>2, UndoBesideNew
<1>17. LiveFits(live, m)  BY <1>1, <1>2, <1>10, GoodLater DEF LiveFits, DocumentInv
<1>18. selected' \in LeafIds(e)  BY <1>5, <1>6, <1>10, <1>11, <1>15 DEF IdsIn
<1>19. NothingVanishes  BY <1>1, <1>14, <1>15, NothingGone
<1>20. DocumentInv'
  BY <1>10, <1>11, <1>14, <1>15, <1>16, <1>17, <1>18
     DEF DocumentInv, DocumentFits, SelectionIsOnThePage
<1>21. QED  BY <1>19, <1>20

\* Deleting a block takes it off the page and nothing else.
LEMMA WithoutIs ==
  ASSUME NEW d, NEW n \in Nat, Good(d, n), NEW id \in LeafIds(d), NEW e, e = Without(d, id)
  PROVE  /\ Good(e, n) /\ Carries(d, e, {})
         /\ LeafIds(d) \ LeafIds(e) \subseteq {id}
         /\ \A q \in LeafPlaces(e) : Apart(Leaf(d, id), LeafAt(e, q))
         /\ Leaf(d, id) \in Block /\ GoodLeaf(Leaf(d, id), n) /\ Leaf(d, id).id = id
         /\ EntryIndexOf(d, id) \in Nat \ {0}
<1>1. d \in Layouts  BY DEF Good
<1>2. PICK p \in LeafPlaces(d) :
        /\ LeafAt(d, p).id = id /\ Leaf(d, id) = LeafAt(d, p)
        /\ EntryIndexOf(d, id) = p[1] /\ SideOf(d[p[1]], id) = p[2]
        /\ \A q \in LeafPlaces(d) : LeafAt(d, q).id = id => q = p
  BY ShownOnce
<1>3. PICK i, side : i = p[1] /\ side = p[2]  OBVIOUS
<1>4. i \in 1..Len(d) /\ side \in DOMAIN d[i] /\ side \in {1, 2} /\ p = <<i, side>> /\ d[i] \in Entry
      /\ LeafAt(d, p) \in Block
  BY <1>1, <1>3, PlaceSides
<1>5. /\ e \in Layouts /\ Carries(d, e, {}) /\ Retains(d, e, {p}) /\ Drops(d, e, {p})
  <2>1. CASE IsRow(d[i])
    <3>1. e = ReplaceAt(d, i, RemoveAt(d[i], side))  BY <1>2, <1>3, <2>1 DEF Without
    <3>2. /\ e \in Layouts /\ Carries(d, e, {}) /\ Retains(d, e, {<<i, side>>})
          /\ Drops(d, e, {<<i, side>>})
      BY <1>1, <1>4, <2>1, <3>1, TrimmedIs
    <3>3. QED  BY <1>4, <3>2
  <2>2. CASE ~IsRow(d[i])
    <3>1. e = RemoveAt(d, i)  BY <1>2, <1>3, <2>2 DEF Without
    <3>2. {q \in LeafPlaces(d) : q[1] = i} = {p}
      <4>1. DOMAIN d[i] = {1}  BY <1>4, <2>2, EntryIs
      <4>2. ASSUME NEW q \in LeafPlaces(d), q[1] = i PROVE q = p
        <5>1. q[2] \in DOMAIN d[q[1]] /\ q = <<q[1], q[2]>>  BY <1>1, PlaceSides
        <5>2. QED  BY <1>4, <4>1, <4>2, <5>1
      <4>3. p[1] = i  BY <1>3
      <4>4. QED  BY <4>2, <4>3
    <3>3. /\ e \in Layouts /\ Carries(d, e, {})
          /\ Retains(d, e, {q \in LeafPlaces(d) : q[1] = i}) /\ Drops(d, e, {q \in LeafPlaces(d) : q[1] = i})
      BY <1>1, <1>4, <3>1, RemovedIs
    <3>4. QED  BY <3>2, <3>3
  <2>3. QED  BY <2>1, <2>2
<1>6. Good(e, n)  BY <1>5, GoodRearranged
<1>7. LeafIds(d) \ LeafIds(e) \subseteq {id}
  <2>1. \A q \in LeafPlaces(d) \ {p} : LeafAt(d, q).id \in LeafIds(e)
    BY <1>5 DEF Retains, LeafIds, LeafSet
  <2>2. QED  BY <1>2, <2>1 DEF LeafIds, LeafSet
<1>8. \A q \in LeafPlaces(e) : Apart(Leaf(d, id), LeafAt(e, q))
  <2>1. SUFFICES ASSUME NEW q \in LeafPlaces(e) PROVE Apart(Leaf(d, id), LeafAt(e, q))  OBVIOUS
  <2>2. PICK r \in LeafPlaces(d) \ {p} : LeafAt(e, q) = LeafAt(d, r)  BY <1>5 DEF Drops
  <2>3. Apart(LeafAt(d, p), LeafAt(d, r))  BY <2>2 DEF Good
  <2>4. QED  BY <1>2, <2>2, <2>3
<1>9. GoodLeaf(LeafAt(d, p), n)  BY DEF Good
<1>10. QED  BY <1>2, <1>3, <1>4, <1>5, <1>6, <1>7, <1>8, <1>9

\* What is deleted is one block, and Undo holds it.
LEMMA DeleteBlockKeeps ==
  ASSUME DocumentInv, NEW id \in LeafIds(blocks), DeleteBlock(id)
  PROVE  DocumentInv' /\ NothingVanishes
<1>1. PICK d, n, e : d = blocks /\ n = issued /\ e = blocks'  OBVIOUS
<1>2. n \in Nat /\ Good(d, n) /\ id \in LeafIds(d)  BY <1>1 DEF DocumentInv, DocumentFits
<1>3. PICK i, leaf : i = EntryIndexOf(d, id) /\ leaf = Leaf(d, id)  OBVIOUS
<1>4. PICK next : next = IF i > Len(e) THEN Len(e) ELSE i  OBVIOUS
<1>5. /\ e = Without(d, id)
      /\ undoable' = [block |-> leaf, index |-> i]
      /\ selected' = IF e = <<>> THEN Frame ELSE e[next][1].id
      /\ UNCHANGED <<transients, issued, frameFilled, replacing, live, resets>>
  BY <1>1, <1>3, <1>4 DEF DeleteBlock, Inspect, Untouched
<1>6. /\ Good(e, n) /\ LeafIds(d) \ LeafIds(e) \subseteq {id}
      /\ \A q \in LeafPlaces(e) : Apart(leaf, LeafAt(e, q))
      /\ leaf \in Block /\ GoodLeaf(leaf, n) /\ leaf.id = id
      /\ i \in Nat \ {0}
  BY <1>2, <1>3, <1>5, WithoutIs
<1>7. e \in Layouts  BY <1>6 DEF Good
<1>8. selected' \in LeafIds(e) \cup {Frame, Nothing}
  <2>1. CASE e = <<>>  BY <1>5, <2>1
  <2>2. CASE e # <<>>
    <3>1. PICK l \in Nat : l = Len(e)  BY <1>7 DEF Layouts
    <3>2. l # 0  BY <1>7, <2>2, <3>1 DEF Layouts
    <3>3. next \in 1..Len(e)  BY <1>4, <1>6, <3>1, <3>2
    <3>4. e[next] \in Entry  BY <1>7, <3>3 DEF Layouts
    <3>5. <<next, 1>> \in LeafPlaces(e)  BY <1>7, <3>3, <3>4, EntryIs, PlaceIs
    <3>6. LeafAt(e, <<next, 1>>) = e[next][1]  BY DEF LeafAt
    <3>7. e[next][1].id \in LeafIds(e)  BY <3>5, <3>6 DEF LeafIds, LeafSet
    <3>8. QED  BY <1>5, <2>2, <3>7
  <2>3. QED  BY <2>1, <2>2
<1>9. undoable' # NoUndo
  <2>1. undoable' \in [block : Block, index : Nat]  BY <1>5, <1>6
  <2>2. QED  BY <2>1, EditorDocumentAssumption
<1>10. undoable'.block = leaf /\ undoable'.index = i  BY <1>5
<1>11. UndoFits(undoable', e, n)  BY <1>6, <1>10 DEF UndoFits
<1>12. NothingVanishes
  <2>1. LeafIds(blocks) \ LeafIds(blocks') \subseteq {undoable'.block.id}  BY <1>1, <1>6, <1>10
  <2>2. QED  BY <1>9, <2>1 DEF NothingVanishes
<1>13. LiveFits(live', n)  BY <1>1, <1>5 DEF DocumentInv
<1>14. DocumentInv'
  BY <1>1, <1>2, <1>5, <1>6, <1>8, <1>11, <1>13
     DEF DocumentInv, DocumentFits, SelectionIsOnThePage
<1>15. QED  BY <1>12, <1>14

\* Undo puts back what is still welcome on the page.
LEMMA UndoDeleteKeeps ==
  ASSUME DocumentInv, UndoDelete
  PROVE  DocumentInv' /\ NothingVanishes
<1>1. PICK d, n, e : d = blocks /\ n = issued /\ e = blocks'  OBVIOUS
<1>2. n \in Nat /\ Good(d, n) /\ d \in Layouts  BY <1>1 DEF DocumentInv, DocumentFits, Good
<1>3. PICK leaf, i : leaf = undoable.block /\ i = At(d, undoable.index)  OBVIOUS
<1>4. /\ undoable.index \in Nat \ {0} /\ leaf \in Block /\ GoodLeaf(leaf, n)
      /\ \A p \in LeafPlaces(d) : Apart(leaf, LeafAt(d, p))
  BY <1>1, <1>3 DEF UndoDelete, DocumentInv, UndoFits
<1>5. i \in 1..Len(d) + 1
  <2>1. PICK l \in Nat : l = Len(d)  BY <1>2 DEF Layouts
  <2>2. PICK k \in Nat \ {0} : k = undoable.index  BY <1>4
  <2>3. i = IF k > l + 1 THEN l + 1 ELSE k  BY <1>3, <2>1, <2>2 DEF At
  <2>4. QED  BY <2>1, <2>2, <2>3
<1>6. /\ CanAdd(d, leaf) /\ e = InsertAt(d, i, <<leaf>>)
      /\ selected' = leaf.id /\ undoable' = NoUndo
      /\ UNCHANGED <<transients, issued, frameFilled, replacing, live, resets>>
  BY <1>1, <1>3 DEF UndoDelete, Inspect, Untouched, CanRestore, Within
<1>7. /\ Good(e, n) /\ LeafIds(e) = LeafIds(d) \cup {leaf.id}
      /\ \A p \in LeafPlaces(e) : LeafAt(e, p) = leaf \/ \E q \in LeafPlaces(d) : LeafAt(e, p) = LeafAt(d, q)
  BY <1>2, <1>4, <1>5, <1>6, BlockAdded
<1>8. NothingVanishes  BY <1>1, <1>7, NothingGone
<1>9. UndoFits(undoable', e, n)  BY <1>6 DEF UndoFits
<1>10. LiveFits(live', n)  BY <1>1, <1>6 DEF DocumentInv
<1>11. DocumentInv'
  BY <1>1, <1>2, <1>6, <1>7, <1>9, <1>10 DEF DocumentInv, DocumentFits, SelectionIsOnThePage
<1>12. QED  BY <1>8, <1>11

\* A block edited in its place.
LEMMA ReplacedIs ==
  ASSUME NEW d \in Layouts, NEW leaf \in Block, NEW e, e = Replaced(d, leaf)
  PROVE  /\ e \in Layouts /\ LeafPlaces(e) = LeafPlaces(d)
         /\ \A p \in LeafPlaces(d) :
              LeafAt(e, p) = IF LeafAt(d, p).id = leaf.id THEN leaf ELSE LeafAt(d, p)
<1>1. PICK n \in Nat : n = Len(d)  BY DEF Layouts
<1>2. DOMAIN d = 1..n /\ \A i \in 1..n : d[i] \in Entry  BY <1>1 DEF Layouts
<1>3. e = [i \in 1..n |-> [s \in DOMAIN d[i] |-> IF d[i][s].id = leaf.id THEN leaf ELSE d[i][s]]]
  BY <1>2 DEF Replaced
<1>4. ASSUME NEW i \in 1..n
      PROVE  /\ e[i] \in Entry /\ DOMAIN e[i] = DOMAIN d[i]
             /\ \A s \in DOMAIN d[i] : e[i][s] = IF d[i][s].id = leaf.id THEN leaf ELSE d[i][s]
  <2>1. PICK row \in Entry : row = d[i]  BY <1>2
  <2>2. PICK l \in Nat : l = Len(row) /\ l \in {1, 2}  BY EntryIs
  <2>3. DOMAIN row = 1..l /\ \A s \in 1..l : row[s] \in Block
    <3>1. PICK B : B = Block  OBVIOUS
    <3>2. row \in Seq(B)  BY <3>1, EntryIs
    <3>3. QED  BY <2>2, <3>1, <3>2
  <2>4. PICK new : new = [s \in 1..l |-> IF row[s].id = leaf.id THEN leaf ELSE row[s]]  OBVIOUS
  <2>5. e[i] = new  BY <1>3, <2>1, <2>3, <2>4
  <2>6. new \in Entry
    <3>1. PICK B : B = Block  OBVIOUS
    <3>2. new \in [1..l -> B]  BY <2>3, <2>4, <3>1
    <3>3. new \in Seq(B) /\ Len(new) = l  BY <3>2
    <3>4. QED  BY <2>2, <3>1, <3>3 DEF Entry
  <2>7. QED  BY <2>1, <2>3, <2>4, <2>5, <2>6
<1>5. e \in Layouts
  <2>1. PICK E : E = Entry  OBVIOUS
  <2>2. e \in [1..n -> E]  BY <1>3, <1>4, <2>1
  <2>3. e \in Seq(E)  BY <2>2
  <2>4. QED  BY <2>1, <2>3 DEF Layouts
<1>6. DOMAIN e = 1..n  BY <1>3
<1>7. LeafPlaces(e) = LeafPlaces(d)
  <2>1. {{<<i, s>> : s \in DOMAIN e[i]} : i \in 1..n} = {{<<i, s>> : s \in DOMAIN d[i]} : i \in 1..n}
    BY <1>4
  <2>2. QED  BY <1>2, <1>6, <2>1 DEF LeafPlaces
<1>8. ASSUME NEW p \in LeafPlaces(d)
      PROVE  LeafAt(e, p) = IF LeafAt(d, p).id = leaf.id THEN leaf ELSE LeafAt(d, p)
  <2>1. p[1] \in 1..n /\ p[2] \in DOMAIN d[p[1]]  BY <1>1, PlaceSides
  <2>2. QED  BY <1>4, <2>1 DEF LeafAt
<1>9. QED  BY <1>5, <1>7, <1>8

\* An edit that keeps a block's type, and its names but for new ones.
LEMMA UpdatedGood ==
  ASSUME NEW d, NEW n \in Nat, Good(d, n), NEW m \in Nat, n <= m,
         NEW id \in LeafIds(d), NEW leaf \in Block, leaf.id = id, leaf.type = Leaf(d, id).type,
         GoodLeaf(leaf, m), Names(leaf) \subseteq Names(Leaf(d, id)) \cup (n + 1..m),
         NEW e, e = Replaced(d, leaf)
  PROVE  /\ Good(e, m) /\ LeafIds(e) = LeafIds(d)
         /\ \A p \in LeafPlaces(e) : Names(LeafAt(e, p)) \subseteq NamesOf(d) \cup (n + 1..m)
<1>1. d \in Layouts  BY DEF Good
<1>2. PICK place \in LeafPlaces(d) :
        /\ LeafAt(d, place).id = id /\ Leaf(d, id) = LeafAt(d, place)
        /\ \A q \in LeafPlaces(d) : LeafAt(d, q).id = id => q = place
  BY ShownOnce
<1>3. /\ e \in Layouts /\ LeafPlaces(e) = LeafPlaces(d)
      /\ \A p \in LeafPlaces(d) : LeafAt(e, p) = IF LeafAt(d, p).id = leaf.id THEN leaf ELSE LeafAt(d, p)
  BY <1>1, ReplacedIs
<1>4. LeafAt(e, place) = leaf /\ \A p \in LeafPlaces(d) : p # place => LeafAt(e, p) = LeafAt(d, p)
  BY <1>2, <1>3
<1>5. ASSUME NEW p \in LeafPlaces(d) PROVE GoodLeaf(LeafAt(e, p), m)
  <2>1. CASE p = place  BY <1>4, <2>1
  <2>2. CASE p # place
    <3>1. GoodLeaf(LeafAt(d, p), n)  BY DEF Good
    <3>2. 1..n \subseteq 1..m  OBVIOUS
    <3>3. QED  BY <1>4, <2>2, <3>1, <3>2 DEF GoodLeaf
  <2>3. QED  BY <2>1, <2>2
<1>6. ASSUME NEW q \in LeafPlaces(d), q # place PROVE Names(leaf) \cap Names(LeafAt(d, q)) = {}
  <2>1. Names(LeafAt(d, place)) \cap Names(LeafAt(d, q)) = {}  BY <1>6 DEF Good, Apart
  <2>2. Names(LeafAt(d, q)) \subseteq 1..n  BY DEF Good, GoodLeaf
  <2>3. (n + 1..m) \cap (1..n) = {}  OBVIOUS
  <2>4. QED  BY <1>2, <2>1, <2>2, <2>3
<1>7. ASSUME NEW p \in LeafPlaces(d), NEW q \in LeafPlaces(d), p # q PROVE Apart(LeafAt(e, p), LeafAt(e, q))
  <2>1. CASE p = place  BY <1>4, <1>6, <1>7, <2>1 DEF Apart
  <2>2. CASE q = place  BY <1>4, <1>6, <1>7, <2>2 DEF Apart
  <2>3. CASE p # place /\ q # place
    <3>1. Apart(LeafAt(d, p), LeafAt(d, q))  BY <1>7 DEF Good
    <3>2. QED  BY <1>4, <2>3, <3>1
  <2>4. QED  BY <2>1, <2>2, <2>3
<1>8. Size(e) = Size(d)  BY <1>3 DEF Size
<1>9. Count(e, "featuredProject") = Count(d, "featuredProject")
  <2>1. \A p \in LeafPlaces(d) : LeafAt(e, p).type = LeafAt(d, p).type  BY <1>2, <1>4
  <2>2. {p \in LeafPlaces(e) : LeafAt(e, p).type = "featuredProject"}
          = {p \in LeafPlaces(d) : LeafAt(d, p).type = "featuredProject"}
    BY <1>3, <2>1
  <2>3. QED  BY <2>2 DEF Count
<1>10. Good(e, m)  BY <1>3, <1>5, <1>7, <1>8, <1>9 DEF Good
<1>11. LeafIds(e) = LeafIds(d)
  <2>1. \A p \in LeafPlaces(d) : LeafAt(e, p).id = LeafAt(d, p).id  BY <1>2, <1>4
  <2>2. QED  BY <1>3, <2>1 DEF LeafIds, LeafSet
<1>12. ASSUME NEW p \in LeafPlaces(e) PROVE Names(LeafAt(e, p)) \subseteq NamesOf(d) \cup (n + 1..m)
  BY <1>2, <1>3, <1>4 DEF NamesOf
<1>13. QED  BY <1>10, <1>11, <1>12

\* The block an id names.
LEMMA LeafIs ==
  ASSUME NEW d, NEW n, Good(d, n), NEW id \in LeafIds(d)
  PROVE  Leaf(d, id) \in Block /\ Leaf(d, id).id = id /\ GoodLeaf(Leaf(d, id), n)
<1>1. PICK p \in LeafPlaces(d) : LeafAt(d, p).id = id /\ Leaf(d, id) = LeafAt(d, p)  BY ShownOnce
<1>2. d \in Layouts /\ GoodLeaf(LeafAt(d, p), n)  BY DEF Good
<1>3. LeafAt(d, p) \in Block  BY <1>2, PlaceSides
<1>4. QED  BY <1>1, <1>2, <1>3

\* An edit of a block in the inspector.
LEMMA UpdateKeeps ==
  ASSUME DocumentInv, NEW id \in LeafIds(blocks), NEW leaf \in Block, leaf.id = id,
         leaf.type = Leaf(blocks, id).type, UpdateBlock(leaf), issued' \in Nat, issued <= issued',
         GoodLeaf(leaf, issued'),
         Names(leaf) \subseteq Names(Leaf(blocks, id)) \cup (issued + 1..issued')
  PROVE  DocumentInv' /\ NothingVanishes
<1>1. PICK d, n, e, m : d = blocks /\ n = issued /\ e = blocks' /\ m = issued'  OBVIOUS
<1>2. n \in Nat /\ Good(d, n) /\ m \in Nat /\ n <= m  BY <1>1 DEF DocumentInv, DocumentFits
<1>3. e = Replaced(d, leaf)
      /\ UNCHANGED <<selected, undoable, transients, frameFilled, replacing, live, resets>>
  BY <1>1 DEF UpdateBlock, Untouched
<1>4. id \in LeafIds(d) /\ leaf.type = Leaf(d, id).type /\ GoodLeaf(leaf, m)
      /\ Names(leaf) \subseteq Names(Leaf(d, id)) \cup (n + 1..m)
  BY <1>1
<1>5. /\ Good(e, m) /\ LeafIds(e) = LeafIds(d)
      /\ \A p \in LeafPlaces(e) : Names(LeafAt(e, p)) \subseteq NamesOf(d) \cup (n + 1..m)
  BY <1>2, <1>3, <1>4, UpdatedGood
<1>6. UndoFits(undoable, d, n)  BY <1>1 DEF DocumentInv
<1>7. UndoFits(undoable, e, m)  BY <1>2, <1>5, <1>6, UndoBesideNew
<1>8. LiveFits(live, m)  BY <1>1, <1>2, GoodLater DEF LiveFits, DocumentInv
<1>9. NothingVanishes  BY <1>1, <1>5, NothingGone
<1>10. DocumentInv'
  BY <1>1, <1>2, <1>3, <1>5, <1>7, <1>8 DEF DocumentInv, DocumentFits, SelectionIsOnThePage
<1>11. QED  BY <1>9, <1>10

\* Fields of a block that are filled in or emptied.
LEMMA FilledKeeps ==
  ASSUME DocumentInv, NEW id \in LeafIds(blocks), NEW filled \in BOOLEAN,
         UpdateBlock([Leaf(blocks, id) EXCEPT !.filled = filled]), UNCHANGED issued
  PROVE  DocumentInv' /\ NothingVanishes
<1>1. PICK old : old = Leaf(blocks, id)  OBVIOUS
<1>2. PICK leaf : leaf = [old EXCEPT !.filled = filled]  OBVIOUS
<1>3. issued \in Nat /\ Good(blocks, issued)  BY DEF DocumentInv, DocumentFits
<1>4. old \in Block /\ old.id = id /\ GoodLeaf(old, issued)  BY <1>1, <1>3, LeafIs
<1>5. leaf \in Block /\ leaf.id = old.id /\ leaf.type = old.type /\ leaf.items = old.items
  BY <1>2, <1>4 DEF Block
<1>6. GoodLeaf(leaf, issued) /\ Names(leaf) = Names(old)
  BY <1>4, <1>5 DEF GoodLeaf, ItemsFit, IsGallery, Overfull, Names
<1>7. UpdateBlock(leaf) /\ issued' = issued /\ issued <= issued'  BY <1>1, <1>2, <1>3
<1>8. QED  BY <1>1, <1>3, <1>4, <1>5, <1>6, <1>7, UpdateKeeps

\* An item more in a collection, with an id of its own.
LEMMA ItemJoins ==
  ASSUME DocumentInv, NEW id \in LeafIds(blocks), NEW old, old = Leaf(blocks, id),
         NEW items, items = old.items \cup {issued + 1}, NEW filled \in BOOLEAN,
         MinItems[old.type] > 0, old.type # "gallery" => Cardinality(old.items) < MaxItems,
         issued' = issued + 1,
         UpdateBlock([id |-> old.id, type |-> old.type, filled |-> filled, items |-> items])
  PROVE  DocumentInv' /\ NothingVanishes
<1>1. PICK leaf : leaf = [id |-> old.id, type |-> old.type, filled |-> filled, items |-> items]
  OBVIOUS
<1>2. issued \in Nat /\ Good(blocks, issued)  BY DEF DocumentInv, DocumentFits
<1>3. old \in Block /\ old.id = id /\ GoodLeaf(old, issued)  BY <1>2, LeafIs
<1>4. items \in SUBSET Nat  BY <1>2, <1>3 DEF Block
<1>5. leaf \in Block /\ leaf.id = id /\ leaf.type = old.type /\ leaf.items = items
  BY <1>1, <1>3, <1>4 DEF Block
<1>6. PICK c \in Nat : c = Cardinality(old.items)  BY <1>2, <1>3, GoodIsFinite
<1>7. old.items \subseteq 1..issued /\ id \in 1..issued  BY <1>3 DEF GoodLeaf, Names
<1>8. Cardinality(items) = c + 1
  <2>1. IsFiniteSet(old.items)  BY <1>2, <1>3, GoodIsFinite DEF Finite
  <2>2. PICK x : x = issued + 1  OBVIOUS
  <2>3. items = old.items \cup {x} /\ x \notin old.items  BY <1>2, <1>7, <2>2
  <2>4. Cardinality(old.items \cup {x}) = Cardinality(old.items) + 1  BY <2>1, <2>3, FS_AddElement
  <2>5. QED  BY <1>6, <2>3, <2>4
<1>9. ItemsFit(leaf)
  <2>1. PICK min \in Nat, max \in Nat : min = MinItems[old.type] /\ max = MaxItems
    BY <1>3, EditorDocumentAssumption DEF Block
  <2>2. Allowed(old.type, c)  BY <1>3, <1>6, ItemsAreAllowed DEF GoodLeaf
  <2>3. min > 0 /\ min <= c + 1  BY <2>1, <2>2 DEF Allowed
  <2>4. old.type # "gallery" => ~(c + 1 > max)  BY <1>6, <2>1
  <2>5. min # 0  BY <2>3
  <2>6. PICK k : k = c + 1  OBVIOUS
  <2>7. Allowed(leaf.type, k)  BY <1>5, <2>1, <2>3, <2>4, <2>5, <2>6 DEF Allowed
  <2>8. k = Cardinality(leaf.items)  BY <1>5, <1>8, <2>6
  <2>9. QED  BY <2>7, <2>8, ItemsAreAllowed
<1>10. GoodLeaf(leaf, issued')
  <2>1. id \notin items  BY <1>2, <1>3, <1>5, <1>7 DEF GoodLeaf
  <2>2. Names(leaf) \subseteq 1..issued + 1  BY <1>2, <1>5, <1>7 DEF Names
  <2>3. QED  BY <1>5, <1>9, <2>1, <2>2 DEF GoodLeaf
<1>11. Names(leaf) \subseteq Names(old) \cup (issued + 1..issued')
  BY <1>2, <1>3, <1>5 DEF Names
<1>12. issued' \in Nat /\ issued <= issued'  BY <1>2
<1>13. UpdateBlock(leaf)  BY <1>1
<1>14. QED  BY <1>5, <1>10, <1>11, <1>12, <1>13, UpdateKeeps

\* A project or a link joins where there is room, a picture wherever the form is.
LEMMA AddItemKeeps ==
  ASSUME DocumentInv, NEW id \in LeafIds(blocks), AddItem(id) \/ AddPicture(id)
  PROVE  DocumentInv' /\ NothingVanishes
<1>1. PICK old : old = Leaf(blocks, id)  OBVIOUS
<1>2. PICK items : items = old.items \cup {issued + 1}  OBVIOUS
<1>3. old \in Block  BY <1>1, LeafIs DEF DocumentInv, DocumentFits
<1>4. old = [id |-> old.id, type |-> old.type, filled |-> old.filled, items |-> old.items]
      /\ old.filled \in BOOLEAN
  BY <1>3 DEF Block
<1>5. CASE AddItem(id)
  <2>1. PICK filled \in BOOLEAN : filled = (old.filled /\ old.type # "additionalLinks")  OBVIOUS
  <2>2. /\ MinItems[old.type] > 0 /\ old.type # "gallery" /\ Cardinality(old.items) < MaxItems
        /\ issued' = issued + 1
        /\ UpdateBlock([old EXCEPT !.items = items, !.filled = filled])
    BY <1>1, <1>2, <1>5, <2>1 DEF AddItem, IsGallery
  <2>3. PICK leaf : leaf = [old EXCEPT !.items = items, !.filled = filled]  OBVIOUS
  <2>4. leaf = [id |-> old.id, type |-> old.type, filled |-> filled, items |-> items]
    BY <1>3, <2>3 DEF Block
  <2>5. UpdateBlock([id |-> old.id, type |-> old.type, filled |-> filled, items |-> items])
    BY <2>2, <2>3, <2>4
  <2>6. QED  BY <1>1, <1>2, <2>2, <2>5, ItemJoins
<1>6. CASE AddPicture(id)
  <2>1. PICK filled \in BOOLEAN : filled = old.filled  BY <1>4
  <2>2. /\ MinItems[old.type] > 0 /\ old.type = "gallery" /\ issued' = issued + 1
        /\ UpdateBlock([old EXCEPT !.items = items])
    BY <1>1, <1>2, <1>6 DEF AddPicture, IsGallery
  <2>3. [old EXCEPT !.items = items]
          = [id |-> old.id, type |-> old.type, filled |-> filled, items |-> items]
    BY <1>4, <2>1
  <2>4. UpdateBlock([id |-> old.id, type |-> old.type, filled |-> filled, items |-> items])
    BY <2>2, <2>3
  <2>5. QED  BY <1>1, <1>2, <2>2, <2>4, ItemJoins
<1>7. QED  BY <1>5, <1>6

\* An item less, where the block may do without it.
LEMMA RemoveItemKeeps ==
  ASSUME DocumentInv, NEW id \in LeafIds(blocks), RemoveItem(id)
  PROVE  DocumentInv' /\ NothingVanishes
<1>1. PICK old : old = Leaf(blocks, id)  OBVIOUS
<1>2. issued \in Nat /\ Good(blocks, issued)  BY DEF DocumentInv, DocumentFits
<1>3. old \in Block /\ old.id = id /\ GoodLeaf(old, issued)  BY <1>1, <1>2, LeafIs
<1>4. PICK item \in old.items, filled \in {old.filled, TRUE} :
        UpdateBlock([old EXCEPT !.items = @ \ {item}, !.filled = filled])
  BY <1>1 DEF RemoveItem
<1>5. PICK leaf, items : leaf = [old EXCEPT !.items = @ \ {item}, !.filled = filled]
                         /\ items = old.items \ {item}
  OBVIOUS
<1>6. leaf = [id |-> old.id, type |-> old.type, filled |-> filled, items |-> items]
  BY <1>3, <1>5 DEF Block
<1>7. items \in SUBSET Nat /\ filled \in BOOLEAN  BY <1>3, <1>4, <1>5 DEF Block
<1>8. leaf \in Block /\ leaf.id = id /\ leaf.type = old.type /\ leaf.items = items
  BY <1>3, <1>6, <1>7 DEF Block
<1>9. PICK min \in Nat, max \in Nat : min = MinItems[old.type] /\ max = MaxItems
  BY <1>3, EditorDocumentAssumption DEF Block
<1>10. PICK c \in Nat : c = Cardinality(old.items) /\ c > min /\ Allowed(old.type, c)
  <2>1. PICK c \in Nat : c = Cardinality(old.items)  BY <1>2, <1>3, GoodIsFinite
  <2>2. c > min  BY <1>1, <1>9, <2>1 DEF RemoveItem
  <2>3. Allowed(old.type, c)  BY <1>3, <2>1, ItemsAreAllowed DEF GoodLeaf
  <2>4. QED  BY <2>1, <2>2, <2>3
<1>11. old.items \subseteq 1..issued /\ id \in 1..issued  BY <1>3 DEF GoodLeaf, Names
<1>12. Cardinality(items) = Cardinality(old.items) - 1
  <2>1. IsFiniteSet(1..issued)  BY <1>2, FS_Interval
  <2>2. IsFiniteSet(old.items)  BY <1>11, <2>1, FS_Subset
  <2>3. QED  BY <1>4, <1>5, <2>2, FS_RemoveElement
<1>13. ItemsFit(leaf)
  <2>1. min # 0  BY <1>9, <1>10 DEF Allowed
  <2>2. min <= c - 1 /\ (old.type # "gallery" => ~(c - 1 > max))  BY <1>9, <1>10 DEF Allowed
  <2>3. PICK k : k = c - 1  OBVIOUS
  <2>4. Allowed(leaf.type, k)  BY <1>8, <1>9, <2>1, <2>2, <2>3 DEF Allowed
  <2>5. k = Cardinality(leaf.items)  BY <1>8, <1>10, <1>12, <2>3
  <2>6. QED  BY <2>4, <2>5, ItemsAreAllowed
<1>14. Names(leaf) \subseteq Names(old) /\ GoodLeaf(leaf, issued)
  BY <1>3, <1>5, <1>8, <1>13 DEF GoodLeaf, Names
<1>15. issued' = issued /\ issued <= issued' /\ UpdateBlock(leaf)  BY <1>2, <1>4, <1>5 DEF RemoveItem
<1>16. QED  BY <1>1, <1>2, <1>8, <1>14, <1>15, UpdateKeeps

-----------------------------------------------------------------------------
\* Any set of places of a page has a first one.
LEMMA FirstPlace ==
  ASSUME NEW doc \in Layouts, NEW named \in SUBSET LeafPlaces(doc), named # {}
  PROVE  \E p \in named : \A q \in named : p[1] < q[1] \/ (p[1] = q[1] /\ p[2] <= q[2])
<1>1. \A p \in named : p[1] \in 1..Len(doc) /\ p[2] \in {1, 2} /\ p = <<p[1], p[2]>>
  BY PlaceSides
<1>2. PICK T : T = {p[1] : p \in named}  OBVIOUS
<1>3. PICK n \in Nat : n = Len(doc)  BY DEF Layouts
<1>4. T \subseteq Nat /\ T # {}  BY <1>1, <1>2, <1>3
<1>5. PICK i \in T : \A j \in T : i <= j  BY <1>4, LeastNumber
<1>6. PICK p0 \in named : p0[1] = i  BY <1>2, <1>5
<1>7. CASE <<i, 1>> \in named
  <2>1. ASSUME NEW q \in named PROVE i < q[1] \/ (i = q[1] /\ 1 <= q[2])
    <3>1. q[1] \in T /\ i <= q[1] /\ q[2] \in {1, 2}  BY <1>1, <1>2, <1>5
    <3>2. q[1] \in Nat /\ i \in Nat  BY <1>4, <3>1
    <3>3. QED  BY <3>1, <3>2
  <2>2. PICK p \in named : p = <<i, 1>>  BY <1>7
  <2>3. p[1] = i /\ p[2] = 1  BY <2>2
  <2>4. QED  BY <2>1, <2>3
<1>8. CASE <<i, 1>> \notin named
  <2>1. p0[2] = 2  BY <1>1, <1>6, <1>8
  <2>2. ASSUME NEW q \in named PROVE i < q[1] \/ (i = q[1] /\ 2 <= q[2])
    <3>1. q[1] \in T /\ i <= q[1] /\ q = <<q[1], q[2]>> /\ q[2] \in {1, 2}  BY <1>1, <1>2, <1>5
    <3>2. q[1] \in Nat /\ i \in Nat  BY <1>4, <3>1
    <3>3. CASE q[1] = i  BY <1>8, <3>1, <3>3
    <3>4. CASE q[1] # i  BY <3>1, <3>2, <3>4
    <3>5. QED  BY <3>3, <3>4
  <2>3. QED  BY <1>6, <2>1, <2>2
<1>9. QED  BY <1>7, <1>8

\* The first block in question is one of those in question.
LEMMA FirstIs ==
  ASSUME NEW doc \in Layouts, NEW ids \in SUBSET LeafIds(doc), ids # {}
  PROVE  First(doc, ids) \in LeafIds(doc)
<1>1. PICK named : named = {place \in LeafPlaces(doc) : LeafAt(doc, place).id \in ids}  OBVIOUS
<1>2. named \in SUBSET LeafPlaces(doc) /\ named # {}
  BY <1>1 DEF LeafIds, LeafSet
<1>3. PICK first : first = CHOOSE p \in named : \A q \in named : p[1] < q[1] \/ (p[1] = q[1] /\ p[2] <= q[2])
  OBVIOUS
<1>4. first \in named  BY <1>2, <1>3, FirstPlace
<1>5. First(doc, ids) = LeafAt(doc, first).id  BY <1>1, <1>3 DEF First
<1>6. QED  BY <1>2, <1>4, <1>5 DEF LeafIds, LeafSet

\* Steps that leave the page and Undo as they are.
LEMMA SamePageKeeps ==
  ASSUME DocumentInv, UNCHANGED <<blocks, undoable, issued, live, replacing>>,
         selected' \in LeafIds(blocks) \cup {Frame, Nothing}
  PROVE  DocumentInv' /\ NothingVanishes
<1>1. blocks' = blocks /\ undoable' = undoable /\ issued' = issued /\ live' = live /\ replacing' = replacing
  OBVIOUS
<1>2. NothingVanishes  BY <1>1, NothingGone
<1>3. DocumentInv'  BY <1>1 DEF DocumentInv, DocumentFits, SelectionIsOnThePage
<1>4. QED  BY <1>2, <1>3

\* A refused publish leads to a block that is on the page.
LEMMA PublishRefusedKeeps ==
  ASSUME DocumentInv, PublishRefused
  PROVE  DocumentInv' /\ NothingVanishes
<1>1. blocks \in Layouts  BY DEF DocumentInv, DocumentFits, Good
<1>2. FirstToFix \in LeafIds(blocks) \cup {Frame}
  <2>1. CASE FrameErrors # {}  BY <2>1 DEF FirstToFix
  <2>2. CASE FrameErrors = {}
    <3>1. PICK ids : ids = IF InvalidIds(blocks) # {} THEN InvalidIds(blocks) ELSE Unfinished  OBVIOUS
    <3>2. ids \in SUBSET LeafIds(blocks)  BY <3>1 DEF InvalidIds, Unfinished
    <3>3. ids # {}  BY <2>2, <3>1 DEF PublishRefused, Complaints
    <3>4. FirstToFix = First(blocks, ids)  BY <2>2, <3>1 DEF FirstToFix
    <3>5. QED  BY <1>1, <3>2, <3>3, <3>4, FirstIs
  <2>3. QED  BY <2>1, <2>2
<1>3. UNCHANGED <<blocks, undoable, issued, live, replacing>> /\ selected' = FirstToFix
  BY DEF PublishRefused, Inspect, Untouched
<1>4. QED  BY <1>2, <1>3, SamePageKeeps

\* A reset puts the published blocks on the page, if there are any.
LEMMA ResetKeeps ==
  ASSUME DocumentInv, PageIsReplaced
  PROVE  DocumentInv' /\ NothingVanishes
<1>1. /\ replacing /\ replacing' = FALSE /\ blocks' = live
      /\ selected' \in {Frame, Nothing} /\ undoable' = NoUndo
      /\ live' = live /\ issued' = issued
  BY DEF PageIsReplaced, ForgetDeletion
<1>2. Good(blocks', issued)  BY <1>1 DEF DocumentInv, LiveFits
<1>3. NothingVanishes  BY <1>1 DEF NothingVanishes
<1>4. UndoFits(undoable', blocks', issued')  BY <1>1 DEF UndoFits
<1>5. DocumentInv'  BY <1>1, <1>2, <1>4 DEF DocumentInv, DocumentFits, SelectionIsOnThePage
<1>6. QED  BY <1>3, <1>5

\* One step of the workbench.
LEMMA DocumentStep ==
  ASSUME DocumentInv, [DocumentNext]_documentVars
  PROVE  DocumentInv' /\ [NothingVanishes]_documentVars
<1>0. SelectionIsOnThePage  BY DEF DocumentInv
<1>1. ASSUME NEW type \in BlockTypes, AddBlock(type) PROVE DocumentInv' /\ NothingVanishes
  BY <1>1, AddBlockKeeps
<1>2. ASSUME NEW id \in LeafIds(blocks), OwnerEdits(id) PROVE DocumentInv' /\ NothingVanishes
  <2>1. CASE DuplicateBlock(id)  BY <2>1, DuplicateBlockKeeps
  <2>2. CASE DeleteBlock(id)  BY <2>2, DeleteBlockKeeps
  <2>3. CASE MoveBlock(id)  BY <2>3, MoveBlockKeeps
  <2>4. CASE PairBlocks(id)  BY <2>4, PairBlocksKeeps
  <2>5. CASE SplitRow(id) \/ SwapRowSides(id)  BY <2>5, RowChangeKeeps
  <2>6. CASE Select(id)
    <3>1. UNCHANGED <<blocks, undoable, issued, live, replacing>> /\ selected' = id
      BY <2>6 DEF Select, Inspect, Untouched
    <3>2. QED  BY <3>1, SamePageKeeps
  <2>7. CASE EditProject(id)
    <3>1. PICK old : old = Leaf(blocks, id)  OBVIOUS
    <3>2. UpdateBlock([old EXCEPT !.filled = ~@]) /\ UNCHANGED issued  BY <2>7, <3>1 DEF EditProject
    <3>3. Good(blocks, issued)  BY DEF DocumentInv, DocumentFits
    <3>4. old \in Block  BY <3>1, <3>3, LeafIs
    <3>5. PICK filled \in BOOLEAN : filled = ~old.filled  OBVIOUS
    <3>6. [old EXCEPT !.filled = ~@] = [old EXCEPT !.filled = filled]  BY <3>4, <3>5
    <3>7. QED  BY <3>1, <3>2, <3>6, FilledKeeps
  <2>8. CASE EditLink(id)
    <3>1. PICK filled \in BOOLEAN : UpdateBlock([Leaf(blocks, id) EXCEPT !.filled = filled])
      BY <2>8 DEF EditLink
    <3>2. QED  BY <2>8, <3>1, FilledKeeps DEF EditLink
  <2>9. CASE AddItem(id) \/ AddPicture(id)  BY <2>9, AddItemKeeps
  <2>10. CASE RemoveItem(id)  BY <2>10, RemoveItemKeeps
  <2>11. CASE TypeRichText(id)
    <3>1. UNCHANGED <<blocks, undoable, issued, live, replacing>> /\ selected' = selected
      BY <2>11 DEF TypeRichText, Untouched
    <3>2. QED  BY <1>0, <3>1, SamePageKeeps DEF SelectionIsOnThePage
  <2>12. CASE OpenForm(id)
    <3>1. UNCHANGED <<blocks, undoable, issued, live, replacing>> /\ selected' = selected
      BY <2>12 DEF OpenForm, Untouched
    <3>2. QED  BY <1>0, <3>1, SamePageKeeps DEF SelectionIsOnThePage
  <2>13. QED
    BY <1>2, <2>1, <2>2, <2>3, <2>4, <2>5, <2>6, <2>7, <2>8, <2>9, <2>10, <2>11, <2>12
       DEF OwnerEdits
<1>3. ASSUME NEW i \in DOMAIN blocks, NEW j \in DOMAIN blocks, ReorderBlock(i, j)
      PROVE  DocumentInv' /\ NothingVanishes
  BY <1>3, ReorderBlockKeeps
<1>4. CASE UndoDelete  BY <1>4, UndoDeleteKeeps
<1>5. CASE DismissUndo
  <2>1. UNCHANGED <<blocks, issued, live, replacing, selected>> /\ undoable' = NoUndo
    BY <1>5 DEF DismissUndo, Untouched
  <2>2. UndoFits(undoable', blocks, issued)  BY <2>1 DEF UndoFits
  <2>3. NothingVanishes  BY <2>1, NothingGone
  <2>4. DocumentInv'  BY <2>1, <2>2 DEF DocumentInv, DocumentFits, SelectionIsOnThePage
  <2>5. QED  BY <2>3, <2>4
<1>6. CASE Select(Frame)
  <2>1. UNCHANGED <<blocks, undoable, issued, live, replacing>> /\ selected' = Frame
    BY <1>6 DEF Select, Inspect, Untouched
  <2>2. QED  BY <2>1, SamePageKeeps
<1>7. CASE EditFrame
  <2>1. UNCHANGED <<blocks, undoable, issued, live, replacing>> /\ selected' = selected
    BY <1>7 DEF EditFrame
  <2>2. QED  BY <1>0, <2>1, SamePageKeeps DEF SelectionIsOnThePage
<1>8. CASE PublishRefused  BY <1>8, PublishRefusedKeeps
<1>9. CASE Publish
  <2>1. /\ ~replacing /\ replacing' = replacing /\ live' = blocks
        /\ UNCHANGED <<blocks, undoable, issued, selected>>
    BY <1>9 DEF Publish
  <2>2. LiveFits(live', issued)  BY <2>1 DEF DocumentInv, DocumentFits, LiveFits
  <2>3. NothingVanishes  BY <2>1, NothingGone
  <2>4. DocumentInv'  BY <2>1, <2>2 DEF DocumentInv, DocumentFits, SelectionIsOnThePage
  <2>5. QED  BY <2>3, <2>4
<1>10. CASE ConfirmReplacement
  <2>1. live # NoSnapshotYet /\ UNCHANGED <<blocks, undoable, issued, selected, live>>
    BY <1>10 DEF ConfirmReplacement
  <2>2. NothingVanishes  BY <2>1, NothingGone
  <2>3. DocumentInv'  BY <2>1 DEF DocumentInv, DocumentFits, SelectionIsOnThePage
  <2>4. QED  BY <2>2, <2>3
<1>11. CASE PageIsReplaced  BY <1>11, ResetKeeps
<1>12. CASE ReplacementFails
  <2>1. ~replacing' /\ UNCHANGED <<blocks, undoable, issued, selected, live>>
    BY <1>12 DEF ReplacementFails
  <2>2. NothingVanishes  BY <2>1, NothingGone
  <2>3. DocumentInv'  BY <2>1 DEF DocumentInv, DocumentFits, SelectionIsOnThePage
  <2>4. QED  BY <2>2, <2>3
<1>13. CASE UNCHANGED documentVars
  <2>1. UNCHANGED <<blocks, undoable, issued, live, replacing>> /\ selected' = selected
    BY <1>13 DEF documentVars
  <2>2. QED  BY <1>0, <1>13, <2>1, SamePageKeeps DEF SelectionIsOnThePage
<1>14. CASE CancelForm
  <2>1. UNCHANGED <<blocks, undoable, issued, live, replacing>> /\ selected' = selected
    BY <1>14 DEF CancelForm, Untouched
  <2>2. QED  BY <1>0, <2>1, SamePageKeeps DEF SelectionIsOnThePage
<1>15. QED
  BY <1>1, <1>2, <1>3, <1>4, <1>5, <1>6, <1>7, <1>8, <1>9, <1>10, <1>11, <1>12, <1>13, <1>14
     DEF DocumentNext

\* The page is empty, and so may the live one be.
LEMMA DocumentStart ==
  ASSUME DocumentInit
  PROVE  DocumentInv
<1>1. Good(<<>>, 0)
  <2>1. PICK none : none = <<>>  OBVIOUS
  <2>2. none \in Layouts /\ DOMAIN none = {}
    <3>1. PICK E : E = Entry  OBVIOUS
    <3>2. <<>> \in Seq(E) /\ DOMAIN <<>> = {}  OBVIOUS
    <3>3. QED  BY <2>1, <3>1, <3>2 DEF Layouts
  <2>3. LeafPlaces(none) = {}  BY <2>2 DEF LeafPlaces
  <2>4. Size(none) = 0  BY <2>3, FS_EmptySet DEF Size
  <2>5. Count(none, "featuredProject") = 0
    <3>1. {place \in LeafPlaces(none) : LeafAt(none, place).type = "featuredProject"} = {}  BY <2>3
    <3>2. QED  BY <3>1, FS_EmptySet DEF Count
  <2>6. MaxBlocks \in Nat /\ MaxFeatured \in Nat  BY EditorDocumentAssumption
  <2>7. Good(none, 0)  BY <2>2, <2>3, <2>4, <2>5, <2>6 DEF Good
  <2>8. QED  BY <2>1, <2>7
<1>2. /\ blocks = <<>> /\ live \in {<<>>, NoSnapshotYet} /\ selected = Frame
      /\ undoable = NoUndo /\ replacing = FALSE /\ issued = 0
  BY DEF DocumentInit
<1>3. UndoFits(undoable, blocks, issued)  BY <1>2 DEF UndoFits
<1>4. LiveFits(live, issued)  BY <1>1, <1>2 DEF LiveFits
<1>5. QED  BY <1>1, <1>2, <1>3, <1>4 DEF DocumentInv, DocumentFits, SelectionIsOnThePage

(***************************************************************************)
(* Rich text.                                                              *)
(***************************************************************************)
(* Induction along the numbers up to n, over the set of those that have been *)
(* reached.                                                                  *)
LEMMA UpToNumber ==
  ASSUME NEW n \in Nat, NEW T, 0 \in T, \A i \in 1..n : i - 1 \in T => i \in T
  PROVE  \A i \in 0..n : i \in T
<1> SUFFICES ASSUME NEW k \in 0..n, k \notin T PROVE FALSE
  OBVIOUS
<1> DEFINE B == {i \in 0..n : i \notin T}
<1>1. PICK x \in B : \A y \in B : x <= y
  <2>1. B \in SUBSET Nat /\ k \in B  OBVIOUS
  <2>2. QED  BY <2>1, LeastNumber
<1>2. x # 0 /\ x \in 0..n /\ x \notin T
  OBVIOUS
<1>3. x \in 1..n /\ x - 1 \in 0..n /\ x - 1 < x
  BY <1>2
<1>4. x - 1 \in T
  BY <1>1, <1>3
<1>5. QED  BY <1>2, <1>3, <1>4

(* A function that is defined by recursion along 0..n exists.                *)
Recursive(n, S, base, step) ==
  \E f \in [0..n -> S] : f[0] = base /\ \A i \in 1..n : f[i] = step[i][f[i - 1]]

\* A recursive function on the numbers up to n has values, and obeys its equation.
LEMMA RecursionExists ==
  ASSUME NEW n \in Nat, NEW S, NEW base \in S, NEW step \in [1..n -> [S -> S]]
  PROVE  Recursive(n, S, base, step)
<1> DEFINE Follows(f, k) == f[0] = base /\ \A i \in 1..k : f[i] = step[i][f[i - 1]]
           T == {k \in 0..n : \E f \in [0..n -> S] : Follows(f, k)}
<1>1. 0 \in T
  <2>1. [i \in 0..n |-> base] \in [0..n -> S]  OBVIOUS
  <2>2. Follows([i \in 0..n |-> base], 0)  OBVIOUS
  <2>3. 0 \in 0..n  OBVIOUS
  <2>4. QED  BY <2>1, <2>2, <2>3
<1>2. ASSUME NEW k \in 1..n, k - 1 \in T  PROVE k \in T
  <2>1. PICK f \in [0..n -> S] : Follows(f, k - 1)
    BY <1>2
  <2>2. k - 1 \in 0..n /\ k \in 0..n  OBVIOUS
  <2>3. step[k][f[k - 1]] \in S  BY <2>2
  <2>4. PICK g : g = [f EXCEPT ![k] = step[k][f[k - 1]]]  OBVIOUS
  <2>5. g \in [0..n -> S]  BY <2>3, <2>4
  <2>6. g[k] = step[k][f[k - 1]] /\ \A i \in 0..n : i # k => g[i] = f[i]
    BY <2>2, <2>4
  <2>7. g[0] = base  BY <2>1, <2>6
  <2>8. ASSUME NEW i \in 1..k PROVE g[i] = step[i][g[i - 1]]
    <3>1. i \in 0..n /\ i - 1 \in 0..n /\ i - 1 # k  OBVIOUS
    <3>2. g[i - 1] = f[i - 1]  BY <3>1, <2>6
    <3>3. CASE i = k  BY <3>2, <3>3, <2>6
    <3>4. CASE i # k
      <4>1. i \in 1..(k - 1)  BY <3>4
      <4>2. f[i] = step[i][f[i - 1]]  BY <2>1, <4>1
      <4>3. g[i] = f[i]  BY <3>1, <3>4, <2>6
      <4>4. QED  BY <3>2, <4>2, <4>3
    <3>5. QED  BY <3>3, <3>4
  <2>9. Follows(g, k)  BY <2>7, <2>8
  <2>10. QED  BY <2>2, <2>5, <2>9
<1>3. \A k \in 0..n : k \in T
  <2> HIDE DEF T
  <2>1. QED  BY <1>1, <1>2, UpToNumber
<1>4. n \in T  BY <1>3
<1>5. QED  BY <1>4 DEF Recursive

-----------------------------------------------------------------------------
(* The characters of a value, counted node by node. *)

Totals(doc, f) ==
  /\ f \in [0..Len(doc) -> Nat] /\ f[0] = 0
  /\ \A i \in 1..Len(doc) : f[i] = f[i - 1] + doc[i].chars

\* The count is a running total.
LEMMA CharsAreTotals ==
  ASSUME NEW doc \in Seq(Node)
  PROVE  \E f : Totals(doc, f) /\ CharsIn(doc) = f[Len(doc)] /\ CharsIn(doc) \in Nat
<1> DEFINE Body(f) == [i \in 0..Len(doc) |-> IF i = 0 THEN 0 ELSE f[i - 1] + doc[i].chars]
           found == CHOOSE f : f = Body(f)
<1>1. PICK n \in Nat : n = Len(doc)  OBVIOUS
<1>2. \A i \in 1..n : doc[i].chars \in Nat
  <2>1. PICK N : N = Node  OBVIOUS
  <2>2. doc \in Seq(N)  BY <2>1
  <2>3. \A i \in 1..n : doc[i] \in N  BY <1>1, <2>2
  <2>4. QED  BY <2>1, <2>3 DEF Node
<1>3. PICK step : step = [i \in 1..n |-> [s \in Nat |-> s + doc[i].chars]]  OBVIOUS
<1>4. step \in [1..n -> [Nat -> Nat]]
  <2>1. ASSUME NEW i \in 1..n PROVE step[i] \in [Nat -> Nat]
    <3>1. PICK c \in Nat : c = doc[i].chars  BY <1>2
    <3>2. step[i] = [s \in Nat |-> s + c]  BY <1>3, <3>1
    <3>3. QED  BY <3>2
  <2>2. QED  BY <1>3, <2>1
<1>5. PICK f \in [0..n -> Nat] : f[0] = 0 /\ \A i \in 1..n : f[i] = step[i][f[i - 1]]
  <2>1. PICK b \in Nat : b = 0  OBVIOUS
  <2>2. PICK S : S = Nat  OBVIOUS
  <2>3. b \in S /\ step \in [1..n -> [S -> S]]  BY <1>4, <2>2
  <2>4. Recursive(n, S, b, step)  BY <2>3, RecursionExists
  <2>5. QED  BY <2>1, <2>2, <2>4 DEF Recursive
<1>6. \A i \in 1..n : f[i] = f[i - 1] + doc[i].chars
  <2>1. \A i \in 1..n : f[i - 1] \in Nat  BY <1>1
  <2>2. QED  BY <1>3, <1>5, <2>1
<1>7. f = Body(f)
  <2>1. \A i \in 0..n : f[i] = IF i = 0 THEN 0 ELSE f[i - 1] + doc[i].chars  BY <1>5, <1>6
  <2>2. QED  BY <1>1, <2>1
<1>8. found = Body(found)
  <2> HIDE DEF Body
  <2>1. QED  BY <1>7
<1>9. found[0] = 0 /\ \A i \in 1..n : found[i] = found[i - 1] + doc[i].chars
  <2> HIDE DEF found
  <2>1. 0 \in 0..n /\ \A i \in 1..n : i \in 0..n /\ i # 0  BY <1>1
  <2>2. QED  BY <1>1, <1>8, <2>1
<1>10. found \in [0..n -> Nat]
  <2>1. \A i \in 1..n : found[i - 1] \in Nat => found[i] \in Nat
    <3> HIDE DEF found
    <3>1. ASSUME NEW i \in 1..n, found[i - 1] \in Nat PROVE found[i] \in Nat
      <4>1. found[i] = found[i - 1] + doc[i].chars  BY <1>9
      <4>2. doc[i].chars \in Nat  BY <1>2
      <4>3. QED  BY <3>1, <4>1, <4>2
    <3>2. QED  BY <3>1
  <2>2. PICK T : T = {i \in 0..n : found[i] \in Nat}  OBVIOUS
  <2>3. \A i \in 1..n : i - 1 \in T => i \in T
    <3> HIDE DEF found
    <3>1. QED  BY <1>1, <2>1, <2>2
  <2>4. 0 \in T  BY <1>1, <1>9, <2>2
  <2>5. \A i \in 0..n : i \in T
    <3> HIDE DEF found
    <3>1. QED  BY <2>3, <2>4, UpToNumber
  <2>6. \A i \in 0..n : found[i] \in Nat  BY <2>2, <2>5
  <2>7. found = [i \in 0..n |-> found[i]]  BY <1>1, <1>8
  <2>8. QED  BY <2>6, <2>7
<1>11. CharsIn(doc) = found[Len(doc)]  BY DEF CharsIn
<1>12. PICK g : g = found  OBVIOUS
<1>13. Totals(doc, g) /\ CharsIn(doc) = g[Len(doc)]
  <2> HIDE DEF found
  <2>1. QED  BY <1>1, <1>9, <1>10, <1>11, <1>12 DEF Totals
<1>14. CharsIn(doc) \in Nat  BY <1>1, <1>13 DEF Totals
<1>15. QED  BY <1>13, <1>14

\* Values that begin with the same numbers of characters have the same totals.
LEMMA TotalsAgree ==
  ASSUME NEW a, NEW b, NEW f, NEW g, Totals(a, f), Totals(b, g), NEW n \in Nat,
         n \in 0..Len(a), n \in 0..Len(b), \A i \in 1..n : a[i].chars = b[i].chars
  PROVE  f[n] = g[n]
<1>1. PICK T : T = {i \in 0..n : f[i] = g[i]}  OBVIOUS
<1>2. 0 \in T  BY <1>1 DEF Totals
<1>3. ASSUME NEW i \in 1..n, i - 1 \in T PROVE i \in T
  <2>1. f[i] = f[i - 1] + a[i].chars
    <3>1. \A j \in 1..Len(a) : f[j] = f[j - 1] + a[j].chars  BY DEF Totals
    <3>2. i \in 1..Len(a)  OBVIOUS
    <3>3. QED  BY <3>1, <3>2
  <2>2. g[i] = g[i - 1] + b[i].chars
    <3>1. \A j \in 1..Len(b) : g[j] = g[j - 1] + b[j].chars  BY DEF Totals
    <3>2. i \in 1..Len(b)  OBVIOUS
    <3>3. QED  BY <3>1, <3>2
  <2>3. f[i - 1] = g[i - 1]  BY <1>1, <1>3
  <2>4. QED  BY <1>1, <2>1, <2>2, <2>3
<1>4. \A i \in 0..n : i \in T  BY <1>2, <1>3, UpToNumber
<1>5. QED  BY <1>1, <1>4

\* Values of the same characters.
LEMMA SameChars ==
  ASSUME NEW a \in Seq(Node), NEW b \in Seq(Node), Len(a) = Len(b),
         \A i \in 1..Len(a) : a[i].chars = b[i].chars
  PROVE  CharsIn(a) = CharsIn(b)
<1>1. PICK f : Totals(a, f) /\ CharsIn(a) = f[Len(a)]  BY CharsAreTotals
<1>2. PICK g : Totals(b, g) /\ CharsIn(b) = g[Len(b)]  BY CharsAreTotals
<1>3. PICK n \in Nat : n = Len(a)  OBVIOUS
<1>4. n \in 0..Len(a) /\ n \in 0..Len(b) /\ \A i \in 1..n : a[i].chars = b[i].chars  BY <1>3
<1>5. f[n] = g[n]  BY <1>1, <1>2, <1>4, TotalsAgree
<1>6. QED  BY <1>1, <1>2, <1>3, <1>5

Longer(a, b) == Len(b) = Len(a) + 1 /\ \A i \in 1..Len(a) : b[i] = a[i]

\* One node more.
LEMMA MoreChars ==
  ASSUME NEW a \in Seq(Node), NEW b \in Seq(Node), Longer(a, b)
  PROVE  CharsIn(b) = CharsIn(a) + b[Len(b)].chars /\ CharsIn(a) \in Nat
<1>1. PICK n \in Nat : n = Len(a)  OBVIOUS
<1>2. Len(b) = n + 1 /\ \A i \in 1..n : b[i] = a[i]  BY <1>1 DEF Longer
<1>3. PICK f : Totals(a, f) /\ CharsIn(a) = f[Len(a)] /\ CharsIn(a) \in Nat  BY CharsAreTotals
<1>4. PICK g : Totals(b, g) /\ CharsIn(b) = g[Len(b)]  BY CharsAreTotals
<1>5. f[n] = g[n]
  <2>1. n \in 0..Len(a) /\ n \in 0..Len(b) /\ \A i \in 1..n : a[i].chars = b[i].chars  BY <1>1, <1>2
  <2>2. Totals(a, f) /\ Totals(b, g)  BY <1>3, <1>4
  <2>3. QED  BY <2>1, <2>2, TotalsAgree
<1>6. g[n + 1] = g[n] + b[n + 1].chars
  <2>1. \A j \in 1..Len(b) : g[j] = g[j - 1] + b[j].chars  BY <1>4 DEF Totals
  <2>2. n + 1 \in 1..Len(b) /\ (n + 1) - 1 = n  BY <1>2
  <2>3. QED  BY <2>1, <2>2
<1>7. QED  BY <1>1, <1>2, <1>3, <1>4, <1>5, <1>6

-----------------------------------------------------------------------------
(* The nodes above and inside a node. *)

\* A set of numbers up to n has a greatest.
LEMMA GreatestNumber ==
  ASSUME NEW n \in Nat, NEW S \in SUBSET (0..n), S # {}
  PROVE  Max(S) \in S /\ \A y \in S : Max(S) >= y
<1>1. PICK T : T = {n - y : y \in S}  OBVIOUS
<1>2. T \in SUBSET Nat /\ T # {}
  <2>1. \A y \in S : n - y \in Nat  OBVIOUS
  <2>2. QED  BY <1>1, <2>1
<1>3. PICK t \in T : \A u \in T : t <= u  BY <1>2, LeastNumber
<1>4. PICK x \in S : t = n - x  BY <1>1, <1>3
<1>5. \A y \in S : x >= y
  <2>1. SUFFICES ASSUME NEW y \in S PROVE x >= y  OBVIOUS
  <2>2. t <= n - y  BY <1>1, <1>3
  <2>3. QED  BY <1>4, <2>2
<1>6. Max(S) = CHOOSE z \in S : \A y \in S : z >= y  BY DEF Max
<1>7. QED  BY <1>5, <1>6

\* The last of the first n nodes at a depth.
AtDepth(doc, n, depth) == {j \in 1..n : doc[j].depth = depth}
LastAt(doc, n, depth) == IF AtDepth(doc, n, depth) = {} THEN 0 ELSE Max(AtDepth(doc, n, depth))

\* It is at that depth, and the last one.
LEMMA LastAtIs ==
  ASSUME NEW doc, NEW n \in Nat, NEW depth, NEW k, k = LastAt(doc, n, depth)
  PROVE  /\ k \in 0..n
         /\ k # 0 => doc[k].depth = depth
         /\ \A j \in 1..n : doc[j].depth = depth => j <= k
<1>1. PICK S : S = AtDepth(doc, n, depth)  OBVIOUS
<1>2. S \in SUBSET (0..n) /\ \A j : j \in S <=> j \in 1..n /\ doc[j].depth = depth
  BY <1>1 DEF AtDepth
<1>3. CASE S = {}  BY <1>1, <1>2, <1>3 DEF LastAt
<1>4. CASE S # {}
  <2>1. Max(S) \in S /\ \A y \in S : Max(S) >= y  BY <1>2, <1>4, GreatestNumber
  <2>2. k = Max(S)  BY <1>1, <1>4 DEF LastAt
  <2>3. k \in S /\ \A y \in S : k >= y  BY <2>1, <2>2
  <2>4. QED  BY <1>2, <2>3
<1>5. QED  BY <1>3, <1>4

\* No other node is.
LEMMA LastAtUnique ==
  ASSUME NEW doc, NEW n \in Nat, NEW depth, NEW k \in 0..n, k # 0 => doc[k].depth = depth,
         \A j \in 1..n : doc[j].depth = depth => j <= k
  PROVE  LastAt(doc, n, depth) = k
<1>1. PICK l : l = LastAt(doc, n, depth)  OBVIOUS
<1>2. /\ l \in 0..n /\ (l # 0 => doc[l].depth = depth)
      /\ \A j \in 1..n : doc[j].depth = depth => j <= l
  BY <1>1, LastAtIs
<1>3. k <= l  BY <1>2
<1>4. l <= k  BY <1>2
<1>5. QED  BY <1>1, <1>2, <1>3, <1>4

\* The same in any value that begins with the same depths.
LEMMA LastAtSame ==
  ASSUME NEW a, NEW b, NEW n \in Nat, \A i \in 1..n : b[i].depth = a[i].depth, NEW depth
  PROVE  LastAt(b, n, depth) = LastAt(a, n, depth)
<1>1. AtDepth(b, n, depth) = AtDepth(a, n, depth)  BY DEF AtDepth
<1>2. QED  BY <1>1 DEF LastAt

\* The same of the nodes a longer value begins with.
LEMMA LastAtLonger ==
  ASSUME NEW a, NEW b, NEW n \in Nat, n = Len(a), Longer(a, b)
  PROVE  \A depth : LastAt(b, n, depth) = LastAt(a, n, depth)
<1>1. \A j \in 1..n : b[j].depth = a[j].depth  BY DEF Longer
<1>2. QED  BY <1>1, LastAtSame

\* With a node more.
LEMMA LastAtNext ==
  ASSUME NEW doc, NEW n \in Nat, NEW depth
  PROVE  LastAt(doc, n + 1, depth) = IF doc[n + 1].depth = depth THEN n + 1 ELSE LastAt(doc, n, depth)
<1>1. PICK l : l = LastAt(doc, n, depth)  OBVIOUS
<1>2. /\ l \in 0..n /\ (l # 0 => doc[l].depth = depth)
      /\ \A j \in 1..n : doc[j].depth = depth => j <= l
  BY <1>1, LastAtIs
<1>3. PICK m \in Nat : m = n + 1  OBVIOUS
<1>4. PICK k : k = IF doc[m].depth = depth THEN m ELSE l  OBVIOUS
<1>5. k \in 0..m /\ (k # 0 => doc[k].depth = depth)  BY <1>2, <1>3, <1>4
<1>6. ASSUME NEW j \in 1..m, doc[j].depth = depth PROVE j <= k
  <2>1. CASE j = m  BY <1>3, <1>4, <1>6, <2>1
  <2>2. CASE j # m
    <3>1. j \in 1..n /\ j <= m  BY <1>3, <2>2
    <3>2. j <= l  BY <1>2, <1>6, <3>1
    <3>3. QED  BY <1>4, <3>1, <3>2
  <2>3. QED  BY <2>1, <2>2
<1>7. LastAt(doc, m, depth) = k  BY <1>5, <1>6, LastAtUnique
<1>8. QED  BY <1>1, <1>3, <1>4, <1>7

\* The node above is the last one, so far, a level up.
LEMMA AboveIs ==
  ASSUME NEW doc, NEW i \in Nat \ {0}
  PROVE  /\ NodeAbove(doc, i) = LastAt(doc, i - 1, doc[i].depth - 1)
         /\ NodeAbove(doc, i) \in 0..i - 1
<1>1. NodeAbove(doc, i) = LastAt(doc, i - 1, doc[i].depth - 1)
  BY DEF NodeAbove, LastAt, AtDepth
<1>2. i - 1 \in Nat  OBVIOUS
<1>3. QED  BY <1>1, <1>2, LastAtIs

\* What a node more changes for the nodes before it.
LEMMA LongerTree ==
  ASSUME NEW a, NEW b, NEW n \in Nat, n = Len(a), Longer(a, b), NEW above,
         above = LastAt(a, n, b[n + 1].depth - 1)
  PROVE  /\ NodeAbove(b, n + 1) = above /\ above \in 0..n
         /\ \A i \in 1..n : NodeAbove(b, i) = NodeAbove(a, i)
         /\ \A i \in 0..n : KindAt(b, i) = KindAt(a, i)
         /\ \A i \in 0..n : \A j : j \in Inside(b, i) <=> j \in Inside(a, i) \/ (j = n + 1 /\ i = above)
         /\ Inside(b, n + 1) = {}
<1>1. Len(b) = n + 1 /\ \A i \in 1..n : b[i] = a[i]  BY DEF Longer
<1>2. ASSUME NEW i \in 1..n PROVE NodeAbove(b, i) = NodeAbove(a, i)
  <2>1. PICK m \in Nat : m = i - 1  OBVIOUS
  <2>2. \A j \in 1..m : b[j].depth = a[j].depth  BY <1>1, <2>1
  <2>3. \A depth : LastAt(b, m, depth) = LastAt(a, m, depth)  BY <2>2, LastAtSame
  <2>4. b[i] = a[i] /\ i \in Nat \ {0}  BY <1>1
  <2>5. QED  BY <2>1, <2>3, <2>4, AboveIs
<1>3. NodeAbove(b, n + 1) = above
  <2>1. \A j \in 1..n : b[j].depth = a[j].depth  BY <1>1
  <2>2. \A depth : LastAt(b, n, depth) = LastAt(a, n, depth)  BY <2>1, LastAtSame
  <2>3. PICK m \in Nat \ {0} : m = n + 1  OBVIOUS
  <2>4. NodeAbove(b, m) = LastAt(b, m - 1, b[m].depth - 1)  BY AboveIs
  <2>5. m - 1 = n  BY <2>3
  <2>6. QED  BY <2>2, <2>3, <2>4, <2>5
<1>4. above \in 0..n  BY LastAtIs
<1>5. \A i \in 0..n : KindAt(b, i) = KindAt(a, i)  BY <1>1 DEF KindAt
<1>6. ASSUME NEW i \in 0..n, NEW j
      PROVE  j \in Inside(b, i) <=> j \in Inside(a, i) \/ (j = n + 1 /\ i = above)
  <2>1. j \in Inside(b, i) <=> j \in i + 1..n + 1 /\ NodeAbove(b, j) = i  BY <1>1 DEF Inside
  <2>2. j \in Inside(a, i) <=> j \in i + 1..n /\ NodeAbove(a, j) = i  BY DEF Inside
  <2>3. CASE j = n + 1  BY <1>3, <2>1, <2>2, <2>3
  <2>4. CASE j # n + 1
    <3>1. j \in i + 1..n + 1 <=> j \in i + 1..n  BY <2>4
    <3>2. j \in i + 1..n => NodeAbove(b, j) = NodeAbove(a, j)  BY <1>2
    <3>3. QED  BY <2>1, <2>2, <2>4, <3>1, <3>2
  <2>5. QED  BY <2>3, <2>4
<1>7. Inside(b, n + 1) = {}
  <2>1. (n + 1) + 1..Len(b) = {}  BY <1>1
  <2>2. QED  BY <2>1 DEF Inside
<1>8. QED  BY <1>2, <1>3, <1>4, <1>5, <1>6, <1>7

-----------------------------------------------------------------------------
(* Reading a value node by node. *)

Kinds == {"doc"} \cup {node.kind : node \in Nodes}
Ancestor == [kind : Kinds, filled : BOOLEAN, inked : BOOLEAN]
Handed == {node \in Node : /\ node.depth >= 2 /\ node.kind \in Kinds
                           /\ node.kind # "text" => node.chars = 0 /\ node.marks = <<>>}

\* A node the parser has not left: it may yet get content.
IsOpen(doc, levels, i) == i = LastAt(doc, Len(doc), doc[i].depth) /\ doc[i].depth <= levels

\* A value that no continuation can mend.
Doomed(doc, extras, levels) ==
  \/ Len(doc) + 1 > MaxNodes
  \/ CharsIn(doc) > MaxChars
  \/ \E i \in 1..Len(doc) : ~NodeIsAllowed(doc, extras, i)
  \/ \E i \in 1..Len(doc) : ~IsOpen(doc, levels, i) /\ doc[i].kind # "text" /\ ~HasContent(doc, i)

\* What a node more leaves as it was.
LEMMA AllowedStays ==
  ASSUME NEW a, NEW b, NEW n \in Nat, n = Len(a), Longer(a, b), NEW extras, NEW i \in 1..n
  PROVE  NodeIsAllowed(b, extras, i) <=> NodeIsAllowed(a, extras, i)
<1>1. b[i] = a[i]  BY DEF Longer
<1>2. PICK above : above = LastAt(a, n, b[n + 1].depth - 1)  OBVIOUS
<1>3. NodeAbove(b, i) = NodeAbove(a, i) /\ \A k \in 0..n : KindAt(b, k) = KindAt(a, k)
  BY <1>2, LongerTree
<1>4. i \in Nat \ {0} /\ i - 1 < n  OBVIOUS
<1>5. NodeAbove(a, i) \in 0..n  BY <1>4, AboveIs
<1>6. KindAt(b, NodeAbove(b, i)) = KindAt(a, NodeAbove(a, i))  BY <1>3, <1>5
<1>7. QED  BY <1>1, <1>6 DEF NodeIsAllowed

\* A node more gives content to the node above it and to no other.
LEMMA ContentStays ==
  ASSUME NEW a, NEW b, NEW n \in Nat, n = Len(a), Longer(a, b), NEW i \in 0..n
  PROVE  /\ HasContent(a, i) => HasContent(b, i)
         /\ i # LastAt(a, n, b[n + 1].depth - 1) => (HasContent(b, i) <=> HasContent(a, i))
<1>1. PICK above : above = LastAt(a, n, b[n + 1].depth - 1)  OBVIOUS
<1>2. /\ KindAt(b, i) = KindAt(a, i)
      /\ \A j : j \in Inside(b, i) <=> j \in Inside(a, i) \/ (j = n + 1 /\ i = above)
  BY <1>1, LongerTree
<1>3. \A j \in Inside(a, i) : b[j] = a[j]
  <2>1. \A j \in Inside(a, i) : j \in 1..n  BY DEF Inside
  <2>2. QED  BY <2>1 DEF Longer
<1>4. QED  BY <1>1, <1>2, <1>3 DEF HasContent

\* A node that was left stays so, and gets nothing more.
LEMMA ClosedStays ==
  ASSUME NEW a, NEW b, NEW n \in Nat, n = Len(a), Longer(a, b),
         NEW d \in Nat, d = b[n + 1].depth, NEW levels \in Nat, NEW after \in Nat,
         d - 1 <= levels, after <= d, NEW i \in 1..n, a[i].depth \in Nat, ~IsOpen(a, levels, i)
  PROVE  ~IsOpen(b, after, i) /\ (HasContent(b, i) <=> HasContent(a, i))
<1>1. b[i] = a[i] /\ Len(b) = n + 1 /\ \A j \in 1..n : b[j].depth = a[j].depth  BY DEF Longer
<1>2. PICK l \in Nat : l = a[i].depth  OBVIOUS
<1>3. ~(i = LastAt(a, n, l) /\ l <= levels)  BY <1>2 DEF IsOpen
<1>4. ~IsOpen(b, after, i)
  <2>1. SUFFICES ASSUME i = LastAt(b, n + 1, l), l <= after PROVE FALSE
    BY <1>1, <1>2 DEF IsOpen
  <2>2. LastAt(b, n + 1, l) = IF d = l THEN n + 1 ELSE LastAt(b, n, l)  BY LastAtNext
  <2>3. LastAt(b, n, l) = LastAt(a, n, l)  BY LastAtLonger
  <2>4. d # l /\ i = LastAt(a, n, l)  BY <2>1, <2>2, <2>3
  <2>5. l <= levels  BY <2>1, <2>4
  <2>6. QED  BY <1>3, <2>4, <2>5
<1>5. i # LastAt(a, n, d - 1)
  <2>1. SUFFICES ASSUME i = LastAt(a, n, d - 1) PROVE FALSE  OBVIOUS
  <2>2. a[i].depth = d - 1  BY <2>1, LastAtIs
  <2>3. QED  BY <1>2, <1>3, <2>1, <2>2
<1>6. HasContent(b, i) <=> HasContent(a, i)
  <2>1. d - 1 = b[n + 1].depth - 1 /\ i \in 0..n  OBVIOUS
  <2>2. i # LastAt(a, n, b[n + 1].depth - 1)  BY <1>5, <2>1
  <2>3. QED  BY <2>1, <2>2, ContentStays
<1>7. QED  BY <1>4, <1>6

\* What was doomed is doomed with a node more.
LEMMA DoomedStays ==
  ASSUME NEW a \in Seq(Node), NEW b \in Seq(Node), Longer(a, b), NEW extras,
         NEW d, d = b[Len(b)].depth, NEW levels \in Nat, NEW after \in Nat,
         d - 1 <= levels, after <= d, Doomed(a, extras, levels)
  PROVE  Doomed(b, extras, after)
<1>1. PICK n \in Nat : n = Len(a)  OBVIOUS
<1>2. Len(b) = n + 1 /\ \A i \in 1..n : b[i] = a[i]  BY <1>1 DEF Longer
<1>3. d \in Nat /\ \A i \in 1..n : a[i].depth \in Nat
  <2>1. PICK N : N = Node  OBVIOUS
  <2>2. a \in Seq(N) /\ b \in Seq(N)  BY <2>1
  <2>3. b[n + 1] \in N /\ \A i \in 1..n : a[i] \in N  BY <1>1, <1>2, <2>2
  <2>4. QED  BY <1>2, <2>1, <2>3 DEF Node
<1>4. CASE Len(a) + 1 > MaxNodes
  <2>1. MaxNodes \in Nat  BY RichTextAssumption
  <2>2. Len(b) + 1 > MaxNodes  BY <1>1, <1>2, <1>4, <2>1
  <2>3. QED  BY <2>2 DEF Doomed
<1>5. CASE CharsIn(a) > MaxChars
  <2>1. CharsIn(b) = CharsIn(a) + b[Len(b)].chars /\ CharsIn(a) \in Nat  BY MoreChars
  <2>2. b[Len(b)].chars \in Nat /\ MaxChars \in Nat
    <3>1. PICK N : N = Node  OBVIOUS
    <3>2. b \in Seq(N)  BY <3>1
    <3>3. b[Len(b)] \in N  BY <1>2, <3>2
    <3>4. QED  BY <3>1, <3>3, RichTextAssumption DEF Node
  <2>3. CharsIn(b) > MaxChars  BY <1>5, <2>1, <2>2
  <2>4. QED  BY <2>3 DEF Doomed
<1>6. CASE \E i \in 1..Len(a) : ~NodeIsAllowed(a, extras, i)
  <2>1. PICK i \in 1..n : ~NodeIsAllowed(a, extras, i)  BY <1>1, <1>6
  <2>2. ~NodeIsAllowed(b, extras, i)  BY <1>1, <2>1, AllowedStays
  <2>3. i \in 1..Len(b)  BY <1>2
  <2>4. QED  BY <2>2, <2>3 DEF Doomed
<1>7. CASE \E i \in 1..Len(a) : ~IsOpen(a, levels, i) /\ a[i].kind # "text" /\ ~HasContent(a, i)
  <2>1. PICK i \in 1..n : ~IsOpen(a, levels, i) /\ a[i].kind # "text" /\ ~HasContent(a, i)
    BY <1>1, <1>7
  <2>2. a[i].depth \in Nat /\ d = b[n + 1].depth  BY <1>2, <1>3
  <2>3. ~IsOpen(b, after, i) /\ (HasContent(b, i) <=> HasContent(a, i))
    BY <1>1, <1>3, <2>1, <2>2, ClosedStays
  <2>4. i \in 1..Len(b) /\ b[i].kind # "text"  BY <1>2, <2>1
  <2>5. QED  BY <2>1, <2>3, <2>4 DEF Doomed
<1>8. QED  BY <1>4, <1>5, <1>6, <1>7 DEF Doomed

\* The fields of a node.
LEMMA NodeFields ==
  ASSUME NEW node \in Node
  PROVE  /\ node.kind \in STRING /\ node.depth \in Nat /\ node.chars \in Nat
         /\ node.extra \in {"none", "editor", "foreign"} /\ node.blank \in BOOLEAN
         /\ node.marks \in Seq(TextMarks) /\ node.align \in {"none", "left", "center", "right"}
BY DEF Node

\* The node but for what else is there.
Same(node, other) ==
  /\ node.kind = other.kind /\ node.depth = other.depth /\ node.chars = other.chars
  /\ node.blank = other.blank

\* Taking the editor's own attributes off leaves nothing else exactly when no
\* more than what this writer may have was there.
LEMMA Cleaned ==
  ASSUME NEW node \in Node, from \in {"editor", "server"}, NEW clean,
         clean = WithoutEditorAttributes(node)
  PROVE  /\ clean \in Node /\ Same(clean, node)
         /\ clean.marks = node.marks /\ clean.align = node.align
         /\ clean.extra = "none" <=> node.extra \in ExtrasOf(from)
<1>1. CASE from = "editor" /\ node.extra = "editor"
  <2>1. clean = [node EXCEPT !.extra = "none"]  BY <1>1 DEF WithoutEditorAttributes
  <2>2. clean \in Node  BY <2>1 DEF Node
  <2>3. clean.extra = "none" /\ Same(clean, node) /\ clean.marks = node.marks /\ clean.align = node.align
    BY <2>1 DEF Node, Same
  <2>4. node.extra \in ExtrasOf(from)  BY <1>1 DEF ExtrasOf
  <2>5. QED  BY <2>2, <2>3, <2>4
<1>2. CASE ~(from = "editor" /\ node.extra = "editor")
  <2>1. clean = node  BY <1>2 DEF WithoutEditorAttributes
  <2>2. node.extra = "none" <=> node.extra \in ExtrasOf(from)
    BY <1>2, NodeFields DEF ExtrasOf
  <2>3. QED  BY <2>1, <2>2 DEF Same
<1>3. QED  BY <1>1, <1>2

NoTwice(marks) == \A p, q \in DOMAIN marks : marks[p] = marks[q] => p = q

\* There are three marks: no two of them alike are at most three.
LEMMA MarksAreFew ==
  ASSUME NEW marks \in Seq(TextMarks)
  PROVE  MarksParse(marks) <=> NoTwice(marks)
<1>1. PICK n \in Nat : n = Len(marks)  OBVIOUS
<1>2. PICK M : M = TextMarks  OBVIOUS
<1>3. marks \in [1..n -> M] /\ DOMAIN marks = 1..n
  <2>1. marks \in Seq(M)  BY <1>2
  <2>2. QED  BY <1>1, <2>1
<1>4. IsInjective(marks) <=> NoTwice(marks)  BY DEF IsInjective, NoTwice
<1>5. ASSUME NoTwice(marks) PROVE Len(marks) <= 3
  <2>1. SUFFICES ASSUME 4 <= n PROVE FALSE  BY <1>1
  <2>2. 1 \in 1..n /\ 2 \in 1..n /\ 3 \in 1..n /\ 4 \in 1..n  BY <2>1
  <2>3. /\ marks[1] # marks[2] /\ marks[1] # marks[3] /\ marks[1] # marks[4]
        /\ marks[2] # marks[3] /\ marks[2] # marks[4] /\ marks[3] # marks[4]
    BY <2>2, <1>3, <1>5 DEF NoTwice
  <2>4. marks[1] \in M /\ marks[2] \in M /\ marks[3] \in M /\ marks[4] \in M
    BY <2>2, <1>3
  <2>5. QED  BY <2>3, <2>4, <1>2 DEF TextMarks
<1>6. QED  BY <1>4, <1>5 DEF MarksParse

(* The marks in their one order.                                            *)
MarksInOrder(marks) ==
  \A p, q \in DOMAIN marks : p < q =>
    <<marks[p], marks[q]>> \in {<<"bold", "italic">>, <<"bold", "link">>, <<"italic", "link">>}

\* Three sequences of one element at most.
LEMMA ThreeInARow ==
  ASSUME NEW M, NEW x \in Seq(M), NEW y \in Seq(M), NEW z \in Seq(M), NEW s, s = (x \o y) \o z,
         Len(x) <= 1, Len(y) <= 1, Len(z) <= 1
  PROVE  /\ s \in Seq(M) /\ Len(s) = Len(x) + Len(y) + Len(z)
         /\ Len(x) = 1 => s[1] = x[1]
         /\ Len(y) = 1 => s[Len(x) + 1] = y[1]
         /\ Len(z) = 1 => s[Len(x) + Len(y) + 1] = z[1]
<1>1. PICK w : w = x \o y  OBVIOUS
<1>2. w \in Seq(M) /\ Len(w) = Len(x) + Len(y)  BY <1>1
<1>3. (Len(x) = 1 => w[1] = x[1]) /\ (Len(y) = 1 => w[Len(x) + 1] = y[1])  BY <1>1
<1>4. s \in Seq(M) /\ Len(s) = Len(w) + Len(z)  BY <1>1, <1>2
<1>5. \A i \in 1..Len(w) : s[i] = w[i]  BY <1>1, <1>2
<1>6. Len(z) = 1 => s[Len(w) + 1] = z[1]  BY <1>1, <1>2
<1>7. Len(x) = 1 => s[1] = x[1]
  <2>1. Len(x) = 1 => 1 \in 1..Len(w)  BY <1>2
  <2>2. QED  BY <2>1, <1>3, <1>5
<1>8. Len(y) = 1 => s[Len(x) + 1] = y[1]
  <2>1. Len(y) = 1 => Len(x) + 1 \in 1..Len(w)  BY <1>2
  <2>2. QED  BY <2>1, <1>3, <1>5
<1>9. QED  BY <1>2, <1>4, <1>6, <1>7, <1>8

\* A sequence with the mark, if it is there.
LEMMA Taken ==
  ASSUME NEW S, NEW M, NEW mark \in M, NEW x, x = IF mark \in S THEN <<mark>> ELSE <<>>
  PROVE  /\ x \in Seq(M) /\ Len(x) <= 1
         /\ mark \in S => Len(x) = 1 /\ x[1] = mark
         /\ mark \notin S => Len(x) = 0
<1>1. CASE mark \in S
  <2>1. x = <<mark>>  BY <1>1
  <2>2. QED  BY <1>1, <2>1
<1>2. CASE mark \notin S
  <2>1. x = <<>>  BY <1>2
  <2>2. QED  BY <1>2, <2>1
<1>3. QED  BY <1>1, <1>2

\* Sorted marks are the same marks, in order and none twice.
LEMMA SortedMarks ==
  ASSUME NEW marks \in Seq(TextMarks), NEW sorted, sorted = Sorted(marks)
  PROVE  /\ sorted \in Seq(TextMarks) /\ ToSet(sorted) = ToSet(marks)
         /\ MarksInOrder(sorted) /\ NoTwice(sorted)
<1>1. PICK S : S = ToSet(marks)  OBVIOUS
<1>2. PICK M : M = TextMarks  OBVIOUS
<1>3. S \subseteq M
  <2>1. marks \in Seq(M)  BY <1>2
  <2>2. \A i \in DOMAIN marks : marks[i] \in M  BY <2>1
  <2>3. QED  BY <1>1, <2>2 DEF ToSet
<1>4. M = {"bold", "italic", "link"}  BY <1>2 DEF TextMarks
<1>5. PICK x : x = IF "bold" \in S THEN <<"bold">> ELSE <<>>  OBVIOUS
<1>6. PICK y : y = IF "italic" \in S THEN <<"italic">> ELSE <<>>  OBVIOUS
<1>7. PICK z : z = IF "link" \in S THEN <<"link">> ELSE <<>>  OBVIOUS
<1>8. /\ x \in Seq(M) /\ Len(x) <= 1
      /\ "bold" \in S => Len(x) = 1 /\ x[1] = "bold"
      /\ "bold" \notin S => Len(x) = 0
  <2>1. "bold" \in M  BY <1>4
  <2>2. QED  BY <1>5, <2>1, Taken
<1>9. /\ y \in Seq(M) /\ Len(y) <= 1
      /\ "italic" \in S => Len(y) = 1 /\ y[1] = "italic"
      /\ "italic" \notin S => Len(y) = 0
  <2>1. "italic" \in M  BY <1>4
  <2>2. QED  BY <1>6, <2>1, Taken
<1>10. /\ z \in Seq(M) /\ Len(z) <= 1
       /\ "link" \in S => Len(z) = 1 /\ z[1] = "link"
       /\ "link" \notin S => Len(z) = 0
  <2>1. "link" \in M  BY <1>4
  <2>2. QED  BY <1>7, <2>1, Taken
<1>11. sorted = (x \o y) \o z  BY <1>1, <1>5, <1>6, <1>7 DEF Sorted
<1>12. /\ sorted \in Seq(M) /\ Len(sorted) = Len(x) + Len(y) + Len(z)
       /\ Len(x) = 1 => sorted[1] = x[1]
       /\ Len(y) = 1 => sorted[Len(x) + 1] = y[1]
       /\ Len(z) = 1 => sorted[Len(x) + Len(y) + 1] = z[1]
  <2>1. Len(x) <= 1 /\ Len(y) <= 1 /\ Len(z) <= 1
    <3>1. Len(x) <= 1  BY <1>8
    <3>2. Len(y) <= 1  BY <1>9
    <3>3. Len(z) <= 1  BY <1>10
    <3>4. QED  BY <3>1, <3>2, <3>3
  <2>2. x \in Seq(M) /\ y \in Seq(M) /\ z \in Seq(M)  BY <1>8, <1>9, <1>10
  <2>3. QED  BY <2>1, <2>2, <1>11, ThreeInARow
<1>13. DOMAIN sorted = 1..Len(sorted)  BY <1>12
<1>14. PICK n \in Nat : n = Len(sorted)  BY <1>12
<1>15. CASE "bold" \in S
  <2>1. CASE "italic" \in S
    <3>1. CASE "link" \in S
      <4>1. Len(x) = 1 /\ Len(y) = 1 /\ Len(z) = 1
        BY <1>15, <2>1, <3>1, <1>8, <1>9, <1>10
      <4>2. n = 3  BY <4>1, <1>12, <1>14
      <4>3. sorted[1] = "bold" /\ sorted[2] = "italic" /\ sorted[3] = "link"
        BY <1>15, <2>1, <3>1, <4>1, <1>8, <1>9, <1>10, <1>12
      <4>4. QED
        BY <4>2, <4>3, <1>1, <1>2, <1>3, <1>4, <1>12, <1>13, <1>14, <1>15, <2>1, <3>1
        DEF MarksInOrder, NoTwice, ToSet
    <3>2. CASE "link" \notin S
      <4>1. Len(x) = 1 /\ Len(y) = 1 /\ Len(z) = 0
        BY <1>15, <2>1, <3>2, <1>8, <1>9, <1>10
      <4>2. n = 2  BY <4>1, <1>12, <1>14
      <4>3. sorted[1] = "bold" /\ sorted[2] = "italic"
        BY <1>15, <2>1, <3>2, <4>1, <1>8, <1>9, <1>10, <1>12
      <4>4. QED
        BY <4>2, <4>3, <1>1, <1>2, <1>3, <1>4, <1>12, <1>13, <1>14, <1>15, <2>1, <3>2
        DEF MarksInOrder, NoTwice, ToSet
    <3>3. QED  BY <3>1, <3>2
  <2>2. CASE "italic" \notin S
    <3>1. CASE "link" \in S
      <4>1. Len(x) = 1 /\ Len(y) = 0 /\ Len(z) = 1
        BY <1>15, <2>2, <3>1, <1>8, <1>9, <1>10
      <4>2. n = 2  BY <4>1, <1>12, <1>14
      <4>3. sorted[1] = "bold" /\ sorted[2] = "link"
        BY <1>15, <2>2, <3>1, <4>1, <1>8, <1>9, <1>10, <1>12
      <4>4. QED
        BY <4>2, <4>3, <1>1, <1>2, <1>3, <1>4, <1>12, <1>13, <1>14, <1>15, <2>2, <3>1
        DEF MarksInOrder, NoTwice, ToSet
    <3>2. CASE "link" \notin S
      <4>1. Len(x) = 1 /\ Len(y) = 0 /\ Len(z) = 0
        BY <1>15, <2>2, <3>2, <1>8, <1>9, <1>10
      <4>2. n = 1  BY <4>1, <1>12, <1>14
      <4>3. sorted[1] = "bold"
        BY <1>15, <2>2, <3>2, <4>1, <1>8, <1>9, <1>10, <1>12
      <4>4. QED
        BY <4>2, <4>3, <1>1, <1>2, <1>3, <1>4, <1>12, <1>13, <1>14, <1>15, <2>2, <3>2
        DEF MarksInOrder, NoTwice, ToSet
    <3>3. QED  BY <3>1, <3>2
  <2>3. QED  BY <2>1, <2>2
<1>16. CASE "bold" \notin S
  <2>1. CASE "italic" \in S
    <3>1. CASE "link" \in S
      <4>1. Len(x) = 0 /\ Len(y) = 1 /\ Len(z) = 1
        BY <1>16, <2>1, <3>1, <1>8, <1>9, <1>10
      <4>2. n = 2  BY <4>1, <1>12, <1>14
      <4>3. sorted[1] = "italic" /\ sorted[2] = "link"
        BY <1>16, <2>1, <3>1, <4>1, <1>8, <1>9, <1>10, <1>12
      <4>4. QED
        BY <4>2, <4>3, <1>1, <1>2, <1>3, <1>4, <1>12, <1>13, <1>14, <1>16, <2>1, <3>1
        DEF MarksInOrder, NoTwice, ToSet
    <3>2. CASE "link" \notin S
      <4>1. Len(x) = 0 /\ Len(y) = 1 /\ Len(z) = 0
        BY <1>16, <2>1, <3>2, <1>8, <1>9, <1>10
      <4>2. n = 1  BY <4>1, <1>12, <1>14
      <4>3. sorted[1] = "italic"
        BY <1>16, <2>1, <3>2, <4>1, <1>8, <1>9, <1>10, <1>12
      <4>4. QED
        BY <4>2, <4>3, <1>1, <1>2, <1>3, <1>4, <1>12, <1>13, <1>14, <1>16, <2>1, <3>2
        DEF MarksInOrder, NoTwice, ToSet
    <3>3. QED  BY <3>1, <3>2
  <2>2. CASE "italic" \notin S
    <3>1. CASE "link" \in S
      <4>1. Len(x) = 0 /\ Len(y) = 0 /\ Len(z) = 1
        BY <1>16, <2>2, <3>1, <1>8, <1>9, <1>10
      <4>2. n = 1  BY <4>1, <1>12, <1>14
      <4>3. sorted[1] = "link"
        BY <1>16, <2>2, <3>1, <4>1, <1>8, <1>9, <1>10, <1>12
      <4>4. QED
        BY <4>2, <4>3, <1>1, <1>2, <1>3, <1>4, <1>12, <1>13, <1>14, <1>16, <2>2, <3>1
        DEF MarksInOrder, NoTwice, ToSet
    <3>2. CASE "link" \notin S
      <4>1. Len(x) = 0 /\ Len(y) = 0 /\ Len(z) = 0
        BY <1>16, <2>2, <3>2, <1>8, <1>9, <1>10
      <4>2. n = 0  BY <4>1, <1>12, <1>14
      <4>3. QED
        BY <4>2, <1>1, <1>2, <1>3, <1>4, <1>12, <1>13, <1>14, <1>16, <2>2, <3>2
        DEF MarksInOrder, NoTwice, ToSet
    <3>3. QED  BY <3>1, <3>2
  <2>3. QED  BY <2>1, <2>2
<1>17. QED  BY <1>15, <1>16

\* An ancestor knows of its node what has been read of it: node i of the value,
\* or the doc itself.
AncestorIs(doc, i, ancestor) ==
  /\ ancestor.kind = KindAt(doc, i) /\ ancestor.kind # "text"
  /\ ancestor.filled <=> Inside(doc, i) # {}
  /\ ancestor.inked <=> \E j \in Inside(doc, i) : doc[j].kind = "text" /\ ~doc[j].blank

AllAllowed(doc, extras) == \A i \in 1..Len(doc) : NodeIsAllowed(doc, extras, i)
LeftHaveContent(doc, levels) ==
  \A i \in 1..Len(doc) : doc[i].kind # "text" => IsOpen(doc, levels, i) \/ HasContent(doc, i)
AncestorsAre(doc, open) ==
  \A l \in 1..Len(open) : /\ l = 1 <=> LastAt(doc, Len(doc), l) = 0
                          /\ AncestorIs(doc, LastAt(doc, Len(doc), l), open[l])

\* What the parser knows of a value it has no complaint about.
Exact(doc, extras, open, count, chars) ==
  /\ count = Len(doc) + 1 /\ count <= MaxNodes
  /\ chars = CharsIn(doc) /\ chars <= MaxChars
  /\ AllAllowed(doc, extras)
  /\ LeftHaveContent(doc, Len(open))
  /\ AncestorsAre(doc, open)

\* What a node is allowed by.
LEMMA AllowedIs ==
  ASSUME NEW doc, NEW extras, NEW i
  PROVE  NodeIsAllowed(doc, extras, i) <=>
           /\ doc[i].depth <= MaxDepth /\ doc[i].extra \in extras
           /\ doc[i].kind \in ContentOf(KindAt(doc, NodeAbove(doc, i)))
           /\ NoTwice(doc[i].marks)
BY DEF NodeIsAllowed, NoTwice

\* A paragraph or a heading has only text in it.
LEMMA OnlyTextInTextBlocks ==
  ASSUME NEW kind, kind \in TextBlocks
  PROVE  ContentOf(kind) = {"text"}
<1>1. kind \notin Lists  BY DEF TextBlocks, Lists
<1>2. QED  BY <1>1 DEF ContentOf

\* A node is left wanting exactly when it has no content.
LEMMA WantingIsEmpty ==
  ASSUME NEW doc, NEW extras, AllAllowed(doc, extras), NEW i \in Nat, NEW ancestor,
         AncestorIs(doc, i, ancestor)
  PROVE  LeftWanting(ancestor) <=> ~HasContent(doc, i)
<1>1. PICK inside : inside = Inside(doc, i)  OBVIOUS
<1>2. PICK k : k = KindAt(doc, i)  OBVIOUS
<1>3. /\ ancestor.kind = k
      /\ ancestor.filled <=> inside # {}
      /\ ancestor.inked <=> \E j \in inside : doc[j].kind = "text" /\ ~doc[j].blank
  BY <1>1, <1>2 DEF AncestorIs
<1>4. HasContent(doc, i) <=> \E j \in inside : k \in TextBlocks => ~doc[j].blank
  BY <1>1, <1>2 DEF HasContent
<1>5. CASE k \in TextBlocks
  <2>1. ASSUME NEW j \in inside PROVE doc[j].kind = "text"
    <3>1. j \in i + 1..Len(doc) /\ NodeAbove(doc, j) = i  BY <1>1 DEF Inside
    <3>2. j \in 1..Len(doc)  BY <3>1
    <3>3. NodeIsAllowed(doc, extras, j)  BY <3>2 DEF AllAllowed
    <3>4. doc[j].kind \in ContentOf(k)  BY <3>1, <3>3, <1>2 DEF NodeIsAllowed
    <3>5. QED  BY <3>4, <1>5, OnlyTextInTextBlocks
  <2>2. ancestor.inked <=> \E j \in inside : ~doc[j].blank  BY <2>1, <1>3
  <2>3. ancestor.inked => ancestor.filled  BY <1>3
  <2>4. QED  BY <2>2, <2>3, <1>3, <1>4, <1>5 DEF LeftWanting
<1>6. CASE k \notin TextBlocks
  BY <1>3, <1>4, <1>6 DEF LeftWanting
<1>7. QED  BY <1>5, <1>6

-----------------------------------------------------------------------------
ProseTypes ==
  /\ from \in {"editor", "server"}
  /\ given \in Seq(Node) /\ \A i \in 1..Len(given) : given[i] \in Handed
  /\ ancestors \in Seq(Ancestor) /\ Len(ancestors) >= 1
  /\ complaint \in BOOLEAN
  /\ kept \in Seq(Node)

ExactHere == Exact(given, ExtrasOf(from), ancestors, nodeCount, textChars)

\* A node parses exactly when it is allowed where it is and within the limits.
LEMMA ParsesIsAllowed ==
  ASSUME ProseTypes, ExactHere, NEW b \in Seq(Node), Longer(given, b), NEW n \in Nat, n = Len(given),
         b[n + 1] \in Handed, NEW d \in Nat, d = b[n + 1].depth, d - 1 \in 1..Len(ancestors),
         NEW clean, clean = WithoutEditorAttributes(b[n + 1])
  PROVE  ParsesAs(clean, ancestors[d - 1]) <=>
           n + 2 <= MaxNodes /\ CharsIn(b) <= MaxChars /\ NodeIsAllowed(b, ExtrasOf(from), n + 1)
<1>1. PICK node : node = b[n + 1]  OBVIOUS
<1>2. node \in Node /\ (node.kind # "text" => node.chars = 0 /\ node.marks = <<>>)
  BY <1>1 DEF Handed
<1>3. PICK parent : parent = ancestors[d - 1]  OBVIOUS
<1>4. PICK above : above = LastAt(given, n, d - 1)  OBVIOUS
<1>5. KindAt(b, NodeAbove(b, n + 1)) = parent.kind
  <2>1. above = LastAt(given, n, b[n + 1].depth - 1)  BY <1>4
  <2>2. NodeAbove(b, n + 1) = above /\ above \in 0..n /\ \A i \in 0..n : KindAt(b, i) = KindAt(given, i)
    BY <2>1, LongerTree
  <2>3. AncestorIs(given, above, parent)
    <3>1. AncestorsAre(given, ancestors)  BY DEF ExactHere, Exact
    <3>2. AncestorIs(given, LastAt(given, Len(given), d - 1), ancestors[d - 1])
      BY <3>1 DEF AncestorsAre
    <3>3. QED  BY <3>2, <1>3, <1>4
  <2>4. QED  BY <2>2, <2>3 DEF AncestorIs
<1>6. PICK e : e = ExtrasOf(from)  OBVIOUS
<1>7. NodeIsAllowed(b, e, n + 1) <=>
        /\ node.depth <= MaxDepth /\ node.extra \in e
        /\ node.kind \in ContentOf(parent.kind) /\ NoTwice(node.marks)
  BY <1>1, <1>5, AllowedIs
<1>8. /\ Same(clean, node) /\ clean.marks = node.marks
      /\ clean.extra = "none" <=> node.extra \in e
  <2>1. from \in {"editor", "server"} /\ clean = WithoutEditorAttributes(node)
    BY <1>1 DEF ProseTypes
  <2>2. QED  BY <2>1, <1>2, <1>6, Cleaned
<1>9. nodeCount < MaxNodes <=> n + 2 <= MaxNodes
  <2>1. nodeCount = n + 1  BY DEF ExactHere, Exact
  <2>2. MaxNodes \in Nat  BY RichTextAssumption
  <2>3. QED  BY <2>1, <2>2
<1>10. CharsIn(b) = textChars + node.chars /\ textChars <= MaxChars /\ textChars \in Nat
  <2>1. Len(b) = n + 1  BY DEF Longer
  <2>2. given \in Seq(Node)  BY DEF ProseTypes
  <2>3. CharsIn(b) = CharsIn(given) + b[Len(b)].chars /\ CharsIn(given) \in Nat
    BY <2>2, MoreChars
  <2>4. textChars = CharsIn(given) /\ textChars <= MaxChars  BY DEF ExactHere, Exact
  <2>5. QED  BY <2>1, <2>3, <2>4, <1>1
<1>11. CASE node.kind = "text"
  <2>1. MarksParse(clean.marks) <=> NoTwice(node.marks)
    <3>1. node.marks \in Seq(TextMarks)  BY <1>2, NodeFields
    <3>2. QED  BY <3>1, <1>8, MarksAreFew
  <2>2. ParsesAs(clean, parent) <=>
          /\ node.depth <= MaxDepth /\ nodeCount < MaxNodes
          /\ node.kind \in ContentOf(parent.kind) /\ node.extra \in e
          /\ textChars + node.chars <= MaxChars /\ NoTwice(node.marks)
    BY <2>1, <1>8, <1>11 DEF ParsesAs, EntersNode, TextFits, Same
  <2>3. TextFits(clean) <=> CharsIn(b) <= MaxChars  BY <1>8, <1>10 DEF TextFits, Same
  <2>4. QED  BY <2>2, <1>3, <1>6, <1>7, <1>9, <1>10
<1>12. CASE node.kind # "text"
  <2>1. ParsesAs(clean, parent) <=>
          /\ node.depth <= MaxDepth /\ nodeCount < MaxNodes
          /\ node.kind \in ContentOf(parent.kind) /\ node.extra \in e
    BY <1>8, <1>12 DEF ParsesAs, EntersNode, Same
  <2>2. CharsIn(b) <= MaxChars
    <3>1. node.chars = 0  BY <1>2, <1>12
    <3>2. QED  BY <3>1, <1>10
  <2>3. NoTwice(node.marks)  BY <1>2, <1>12 DEF NoTwice
  <2>4. QED  BY <2>1, <2>2, <2>3, <1>3, <1>6, <1>7, <1>9
<1>13. QED  BY <1>11, <1>12

\* The nodes the parser is in once it has taken a node at depth d.
Deeper(before, open, d, node) ==
  /\ Len(open) = IF node.kind = "text" THEN d - 1 ELSE d
  /\ \A l \in 1..d - 2 : open[l] = before[l]
  /\ open[d - 1].kind = before[d - 1].kind /\ open[d - 1].filled
  /\ open[d - 1].inked <=> before[d - 1].inked \/ (node.kind = "text" /\ ~node.blank)
  /\ node.kind # "text" => open[d] = Opened(node.kind)

\* A node that was left and not complained about has content.
LEMMA LeftStay ==
  ASSUME NEW a, NEW b, NEW n \in Nat, n = Len(a), Longer(a, b), NEW extras, AllAllowed(a, extras),
         \A i \in 1..n : a[i].depth \in Nat \ {0},
         NEW before, NEW levels \in Nat, levels = Len(before), AncestorsAre(a, before),
         LeftHaveContent(a, levels), NEW d \in Nat, d = b[n + 1].depth, NEW after \in Nat,
         d - 1 <= after, after <= d, b[n + 1].kind # "text" => after = d,
         \A l \in d..levels : ~LeftWanting(before[l])
  PROVE  LeftHaveContent(b, after)
<1> SUFFICES ASSUME NEW i \in 1..n + 1, b[i].kind # "text"
             PROVE  IsOpen(b, after, i) \/ HasContent(b, i)
  BY DEF LeftHaveContent, Longer
<1>1. CASE i = n + 1
  <2>1. LastAt(b, n + 1, d) = n + 1  BY LastAtNext
  <2>2. Len(b) = n + 1 /\ b[i].depth = d  BY <1>1 DEF Longer
  <2>3. after = d  BY <1>1
  <2>4. QED  BY <2>1, <2>2, <2>3, <1>1 DEF IsOpen
<1>2. CASE i # n + 1
  <2>1. i \in 1..n /\ i \in 0..n  BY <1>2
  <2>2. b[i] = a[i] /\ Len(b) = n + 1  BY <2>1 DEF Longer
  <2>3. HasContent(a, i) => HasContent(b, i)  BY <2>1, ContentStays
  <2>4. CASE HasContent(a, i)  BY <2>3, <2>4
  <2>5. CASE ~HasContent(a, i)
    <3>1. PICK l \in Nat \ {0} : l = a[i].depth  BY <2>1
    <3>2. i = LastAt(a, n, l) /\ l <= levels
      <4>1. IsOpen(a, levels, i)  BY <2>1, <2>2, <2>5 DEF LeftHaveContent
      <4>2. QED  BY <4>1, <3>1 DEF IsOpen
    <3>3. l \in 1..levels  BY <3>1, <3>2
    <3>4. AncestorIs(a, i, before[l])  BY <3>2, <3>3 DEF AncestorsAre
    <3>5. LeftWanting(before[l])
      <4>1. i \in Nat  BY <2>1
      <4>2. LeftWanting(before[l]) <=> ~HasContent(a, i)  BY <4>1, <3>4, WantingIsEmpty
      <4>3. QED  BY <4>2, <2>5
    <3>6. l < d  BY <3>3, <3>5
    <3>7. LastAt(b, n + 1, l) = i
      <4>1. LastAt(b, n + 1, l) = IF b[n + 1].depth = l THEN n + 1 ELSE LastAt(b, n, l)
        BY LastAtNext
      <4>2. LastAt(b, n, l) = LastAt(a, n, l)  BY LastAtLonger
      <4>3. d # l  BY <3>6
      <4>4. QED  BY <4>1, <4>2, <4>3, <3>2
    <3>8. l <= after  BY <3>6
    <3>9. QED  BY <3>1, <3>7, <3>8, <2>2 DEF IsOpen
  <2>6. QED  BY <2>4, <2>5
<1>3. QED  BY <1>1, <1>2

\* The ancestors are still those of the nodes that are being read.
LEMMA AncestorsStay ==
  ASSUME NEW a, NEW b, NEW n \in Nat, n = Len(a), Longer(a, b),
         NEW before, AncestorsAre(a, before), NEW d \in Nat, d = b[n + 1].depth,
         d - 1 \in 1..Len(before), NEW open, Deeper(before, open, d, b[n + 1])
  PROVE  AncestorsAre(b, open)
<1>1. PICK node : node = b[n + 1]  OBVIOUS
<1>2. PICK above : above = LastAt(a, n, d - 1)  OBVIOUS
<1>3. /\ above \in 0..n
      /\ \A i \in 0..n : KindAt(b, i) = KindAt(a, i)
      /\ \A i \in 0..n : \A j : j \in Inside(b, i) <=> j \in Inside(a, i) \/ (j = n + 1 /\ i = above)
      /\ Inside(b, n + 1) = {}
  <2>1. above = LastAt(a, n, b[n + 1].depth - 1)  BY <1>2
  <2>2. QED  BY <2>1, LongerTree
<1>4. Len(b) = n + 1 /\ \A i \in 1..n : b[i] = a[i]  BY DEF Longer
<1>5. \A l \in 1..Len(before) : /\ l = 1 <=> LastAt(a, n, l) = 0
                                /\ AncestorIs(a, LastAt(a, n, l), before[l])
  BY DEF AncestorsAre
<1>6. SUFFICES ASSUME NEW l \in 1..Len(open)
               PROVE  /\ l = 1 <=> LastAt(b, n + 1, l) = 0
                      /\ AncestorIs(b, LastAt(b, n + 1, l), open[l])
  BY <1>4 DEF AncestorsAre
<1>7. l \in 1..d - 2 \/ l = d - 1 \/ (l = d /\ node.kind # "text")
  <2>1. Len(open) = IF node.kind = "text" THEN d - 1 ELSE d  BY <1>1 DEF Deeper
  <2>2. QED  BY <2>1
<1>8. LastAt(b, n + 1, l) = IF d = l THEN n + 1 ELSE LastAt(a, n, l)
  <2>1. LastAt(b, n + 1, l) = IF b[n + 1].depth = l THEN n + 1 ELSE LastAt(b, n, l)
    BY LastAtNext
  <2>2. LastAt(b, n, l) = LastAt(a, n, l)  BY LastAtLonger
  <2>3. QED  BY <2>1, <2>2
<1>9. ASSUME NEW i \in 0..n, NEW j \in Inside(a, i) PROVE b[j] = a[j] /\ j # n + 1
  <2>1. j \in 1..n  BY DEF Inside
  <2>2. QED  BY <2>1, <1>4
<1>10. CASE l \in 1..d - 2
  <2>1. PICK i : i = LastAt(a, n, l)  OBVIOUS
  <2>2. l \in 1..Len(before) /\ l # d /\ l # d - 1  BY <1>10
  <2>3. i \in 0..n /\ (i # 0 => a[i].depth = l)  BY <2>1, LastAtIs
  <2>4. i # above
    <3>1. above # 0 => a[above].depth = d - 1
      <4>1. PICK up : up = d - 1  OBVIOUS
      <4>2. above = LastAt(a, n, up)  BY <1>2, <4>1
      <4>3. above # 0 => a[above].depth = up  BY <4>2, LastAtIs
      <4>4. QED  BY <4>1, <4>3
    <3>2. (l = 1 <=> i = 0) /\ (d - 1 = 1 <=> above = 0)  BY <1>2, <1>5, <2>1, <2>2
    <3>3. QED  BY <3>1, <3>2, <2>2, <2>3
  <2>5. Inside(b, i) = Inside(a, i)  BY <2>3, <2>4, <1>3
  <2>6. AncestorIs(a, i, before[l])  BY <1>5, <2>1, <2>2
  <2>7. open[l] = before[l]  BY <1>10 DEF Deeper
  <2>8. KindAt(b, i) = KindAt(a, i)  BY <1>3, <2>3
  <2>9. AncestorIs(b, i, open[l])
    BY <2>3, <2>5, <2>6, <2>7, <2>8, <1>9 DEF AncestorIs
  <2>10. QED  BY <2>1, <2>2, <2>9, <1>5, <1>8
<1>11. CASE l = d - 1
  <2>1. l \in 1..Len(before) /\ l # d  BY <1>11
  <2>2. LastAt(b, n + 1, l) = above  BY <1>2, <1>8, <1>11, <2>1
  <2>3. l = 1 <=> above = 0  BY <1>2, <1>5, <1>11, <2>1
  <2>4. AncestorIs(a, above, before[l])  BY <1>2, <1>5, <1>11, <2>1
  <2>5. \A j : j \in Inside(b, above) <=> j \in Inside(a, above) \/ j = n + 1  BY <1>3
  <2>6. KindAt(b, above) = KindAt(a, above)  BY <1>3
  <2>7. /\ open[l].kind = before[l].kind /\ open[l].filled
        /\ open[l].inked <=> before[l].inked \/ (node.kind = "text" /\ ~node.blank)
    BY <1>1, <1>11 DEF Deeper
  <2>8. open[l].kind = KindAt(b, above) /\ open[l].kind # "text"
    BY <2>4, <2>6, <2>7 DEF AncestorIs
  <2>9. open[l].filled <=> Inside(b, above) # {}  BY <2>5, <2>7
  <2>10. open[l].inked <=> \E j \in Inside(b, above) : b[j].kind = "text" /\ ~b[j].blank
    <3>1. before[l].inked <=> \E j \in Inside(a, above) : a[j].kind = "text" /\ ~a[j].blank
      BY <2>4 DEF AncestorIs
    <3>2. \A j \in Inside(a, above) : b[j] = a[j]  BY <1>3, <1>9
    <3>3. (\E j \in Inside(b, above) : b[j].kind = "text" /\ ~b[j].blank) <=>
            (\E j \in Inside(a, above) : a[j].kind = "text" /\ ~a[j].blank)
              \/ (b[n + 1].kind = "text" /\ ~b[n + 1].blank)
      BY <2>5, <3>2
    <3>4. QED  BY <3>1, <3>3, <2>7, <1>1
  <2>11. QED  BY <2>2, <2>3, <2>8, <2>9, <2>10 DEF AncestorIs
<1>12. CASE l = d /\ node.kind # "text"
  <2>1. open[l] = Opened(node.kind)  BY <1>1, <1>12 DEF Deeper
  <2>2. KindAt(b, n + 1) = node.kind  BY <1>1 DEF KindAt
  <2>3. AncestorIs(b, n + 1, open[l])
    BY <2>1, <2>2, <1>3, <1>12 DEF AncestorIs, Opened
  <2>4. l # 1 /\ n + 1 # 0  BY <1>12
  <2>5. QED  BY <2>3, <2>4, <1>8, <1>12
<1>13. QED  BY <1>7, <1>10, <1>11, <1>12

\* An ancestor left wanting is there for good, and without content.
LEMMA WantingDooms ==
  ASSUME NEW a, NEW b, NEW n \in Nat, n = Len(a), Longer(a, b), NEW extras, AllAllowed(a, extras),
         NEW before, AncestorsAre(a, before), NEW d \in Nat, d = b[n + 1].depth, d >= 2,
         NEW after \in Nat, after <= d, NEW l \in 1..Len(before), d <= l, LeftWanting(before[l])
  PROVE  Doomed(b, extras, after)
<1>1. PICK i : i = LastAt(a, n, l)  OBVIOUS
<1>2. i \in 0..n /\ (i # 0 => a[i].depth = l)  BY <1>1, LastAtIs
<1>3. AncestorIs(a, i, before[l]) /\ i # 0  BY <1>1 DEF AncestorsAre
<1>4. ~HasContent(a, i)
  <2>1. i \in Nat  BY <1>2
  <2>2. LeftWanting(before[l]) <=> ~HasContent(a, i)  BY <2>1, <1>3, WantingIsEmpty
  <2>3. QED  BY <2>2
<1>5. i \in 1..n /\ b[i] = a[i] /\ Len(b) = n + 1  BY <1>2, <1>3 DEF Longer
<1>6. a[i].kind # "text"  BY <1>3 DEF AncestorIs, KindAt
<1>7. ~HasContent(b, i)
  <2>1. i # LastAt(a, n, b[n + 1].depth - 1)
    <3>1. PICK up : up = b[n + 1].depth - 1  OBVIOUS
    <3>2. up # l  BY <3>1
    <3>3. \A k : k = LastAt(a, n, up) /\ k # 0 => a[k].depth = up  BY LastAtIs
    <3>4. i # LastAt(a, n, up)  BY <3>2, <3>3, <1>2, <1>3
    <3>5. QED  BY <3>1, <3>4
  <2>2. i \in 0..n  BY <1>2
  <2>3. HasContent(b, i) <=> HasContent(a, i)  BY <2>1, <2>2, ContentStays
  <2>4. QED  BY <2>3, <1>4
<1>8. ~IsOpen(b, after, i)
  <2>1. CASE l = d
    <3>1. LastAt(b, n + 1, l) = IF b[n + 1].depth = l THEN n + 1 ELSE LastAt(b, n, l)
      BY LastAtNext
    <3>2. LastAt(b, n + 1, l) = n + 1  BY <3>1, <2>1
    <3>3. i # n + 1  BY <1>2
    <3>4. QED  BY <3>2, <3>3, <1>2, <1>3, <1>5 DEF IsOpen
  <2>2. CASE l # d
    <3>1. b[i].depth > after  BY <2>2, <1>2, <1>3, <1>5
    <3>2. b[i].depth \in Nat  BY <1>2, <1>3, <1>5
    <3>3. ~(b[i].depth <= after)  BY <3>1, <3>2
    <3>4. QED  BY <3>3 DEF IsOpen
  <2>3. QED  BY <2>1, <2>2
<1>9. i \in 1..Len(b) /\ b[i].kind # "text"  BY <1>5, <1>6
<1>10. QED  BY <1>7, <1>8, <1>9 DEF Doomed

-----------------------------------------------------------------------------
(* The nodes that are kept. *)

\* The node as it was written, in its one form.
Faithful(tidy, node) ==
  /\ tidy \in Node /\ Same(tidy, node) /\ tidy.extra = "none"
  /\ ToSet(tidy.marks) = ToSet(node.marks)
  /\ NoTwice(tidy.marks) /\ MarksInOrder(tidy.marks)
  /\ tidy.align # "left"
  /\ tidy.align = node.align \/ {tidy.align, node.align} = {"none", "left"}
KeptAre(tidy, doc) ==
  Len(tidy) = Len(doc) /\ \A i \in 1..Len(doc) : Faithful(tidy[i], doc[i])

\* What is stored of a node is the node.
LEMMA StoredIsFaithful ==
  ASSUME NEW node \in Node, from \in {"editor", "server"}, NEW clean,
         clean = WithoutEditorAttributes(node), clean.extra = "none"
  PROVE  Faithful(Stored(clean), node)
<1>1. clean \in Node /\ Same(clean, node) /\ clean.marks = node.marks /\ clean.align = node.align
  BY Cleaned
<1>2. PICK sorted : sorted = Sorted(clean.marks)  OBVIOUS
<1>3. /\ sorted \in Seq(TextMarks) /\ ToSet(sorted) = ToSet(clean.marks)
      /\ MarksInOrder(sorted) /\ NoTwice(sorted)
  <2>1. clean.marks \in Seq(TextMarks)  BY <1>1, NodeFields
  <2>2. QED  BY <2>1, <1>2, SortedMarks
<1>4. PICK align : align = IF clean.align = "left" THEN "none" ELSE clean.align  OBVIOUS
<1>5. align \in {"none", "left", "center", "right"} /\ align # "left"
  <2>1. clean.align \in {"none", "left", "center", "right"}  BY <1>1, NodeFields
  <2>2. QED  BY <2>1, <1>4
<1>6. align = node.align \/ {align, node.align} = {"none", "left"}  BY <1>1, <1>4
<1>7. PICK tidy : tidy = [clean EXCEPT !.marks = sorted, !.align = align]  OBVIOUS
<1>8. Stored(clean) = tidy  BY <1>1, <1>2, <1>4, <1>7 DEF Stored, Node
<1>9. tidy \in Node /\ tidy.marks = sorted /\ tidy.align = align
  BY <1>1, <1>3, <1>5, <1>7 DEF Node
<1>10. Same(tidy, clean) /\ tidy.extra = clean.extra  BY <1>1, <1>7 DEF Node, Same
<1>11. Same(tidy, node)  BY <1>1, <1>10 DEF Same
<1>12. QED  BY <1>1, <1>3, <1>5, <1>6, <1>8, <1>9, <1>10, <1>11 DEF Faithful

\* What a document is allowed depends on no more than what is kept of it.
LEMMA KeptWithinRules ==
  ASSUME NEW tidy \in Seq(Node), NEW doc \in Seq(Node), KeptAre(tidy, doc), NEW extras,
         WithinRules(doc, extras)
  PROVE  WithinRules(tidy, {"none"})
<1>1. PICK n \in Nat : n = Len(doc)  OBVIOUS
<1>2. Len(tidy) = n /\ DOMAIN tidy = 1..n /\ DOMAIN doc = 1..n  BY <1>1 DEF KeptAre
<1>3. \A i \in 1..n : /\ tidy[i].depth = doc[i].depth /\ tidy[i].kind = doc[i].kind
                      /\ tidy[i].chars = doc[i].chars /\ tidy[i].blank = doc[i].blank
                      /\ tidy[i].extra = "none" /\ NoTwice(tidy[i].marks)
  BY <1>1 DEF KeptAre, Faithful, Same
<1>4. CharsIn(tidy) = CharsIn(doc)
  <2>1. Len(tidy) = Len(doc) /\ \A i \in 1..Len(tidy) : tidy[i].chars = doc[i].chars
    BY <1>1, <1>2, <1>3
  <2>2. QED  BY <2>1, SameChars
<1>5. ASSUME NEW i \in 1..n PROVE NodeAbove(tidy, i) = NodeAbove(doc, i) /\ NodeAbove(doc, i) \in 0..n
  <2>1. PICK m \in Nat : m = i - 1  OBVIOUS
  <2>2. \A j \in 1..m : tidy[j].depth = doc[j].depth  BY <1>3, <2>1
  <2>3. \A depth : LastAt(tidy, m, depth) = LastAt(doc, m, depth)  BY <2>2, LastAtSame
  <2>4. i \in Nat \ {0}  OBVIOUS
  <2>5. NodeAbove(tidy, i) = LastAt(tidy, m, tidy[i].depth - 1)  BY <2>1, <2>4, AboveIs
  <2>6. NodeAbove(doc, i) = LastAt(doc, m, doc[i].depth - 1) /\ NodeAbove(doc, i) \in 0..m
    BY <2>1, <2>4, AboveIs
  <2>7. QED  BY <1>3, <2>1, <2>3, <2>5, <2>6
<1>6. \A i \in 0..n : KindAt(tidy, i) = KindAt(doc, i)  BY <1>3 DEF KindAt
<1>7. ASSUME NEW i \in 1..n PROVE NodeIsAllowed(tidy, {"none"}, i)
  <2>1. NodeIsAllowed(doc, extras, i)  BY <1>2 DEF WithinRules
  <2>2. KindAt(tidy, NodeAbove(tidy, i)) = KindAt(doc, NodeAbove(doc, i))  BY <1>5, <1>6
  <2>3. QED  BY <2>1, <2>2, <1>3, AllowedIs
<1>8. ASSUME NEW i \in 0..n, KindAt(tidy, i) # "text" PROVE HasContent(tidy, i)
  <2>1. HasContent(doc, i)  BY <1>1, <1>6, <1>8 DEF WithinRules
  <2>2. PICK j \in Inside(doc, i) : KindAt(doc, i) \in TextBlocks => ~doc[j].blank
    BY <2>1 DEF HasContent
  <2>3. j \in i + 1..n /\ NodeAbove(doc, j) = i  BY <1>1 DEF Inside
  <2>4. j \in 1..n  BY <2>3
  <2>5. j \in Inside(tidy, i)  BY <2>3, <2>4, <1>2, <1>5 DEF Inside
  <2>6. QED  BY <2>2, <2>4, <2>5, <1>3, <1>6 DEF HasContent
<1>9. Len(tidy) + 1 <= MaxNodes /\ CharsIn(tidy) <= MaxChars
  BY <1>1, <1>2, <1>4 DEF WithinRules
<1>10. QED  BY <1>2, <1>7, <1>8, <1>9 DEF WithinRules

\* The same prose, in one form.
LEMMA FaithfulIsSame ==
  ASSUME NEW node \in Node, NEW tidy, Faithful(tidy, node)
  PROVE  SameProse(tidy, node) /\ OneForm(tidy)
<1>1. OneForm(tidy)  BY DEF Faithful, OneForm, MarksInOrder
<1>2. tidy \in Node /\ Same(tidy, node)  BY DEF Faithful
<1>3. PICK mended : mended = [node EXCEPT !.marks = tidy.marks, !.align = tidy.align,
                                          !.extra = tidy.extra]
  OBVIOUS
<1>4. mended = tidy  BY <1>2, <1>3 DEF Node, Same
<1>5. QED  BY <1>1, <1>3, <1>4 DEF Faithful, SameProse

KeptHere == KeptAre(kept, given)
DoomedHere == Doomed(given, ExtrasOf(from), Len(ancestors))

ProseInv ==
  /\ ProseTypes
  /\ parsed = "reading" => IF complaint THEN DoomedHere ELSE ExactHere /\ KeptHere
  /\ ProseIsKept

\* The ancestors after a node: those above its parent, the parent, and the node
\* itself when it may have content.
LEMMA NextAncestors ==
  ASSUME NEW M, NEW open \in Seq(M), NEW m \in Nat, m <= Len(open), NEW x \in M,
         NEW below \in Seq(M), Len(below) <= 1, NEW r, r = (SubSeq(open, 1, m) \o <<x>>) \o below
  PROVE  /\ r \in Seq(M) /\ Len(r) = m + 1 + Len(below)
         /\ \A l \in 1..m : r[l] = open[l]
         /\ r[m + 1] = x
         /\ Len(below) = 1 => r[m + 2] = below[1]
<1>1. PICK s : s = SubSeq(open, 1, m)  OBVIOUS
<1>2. s \in Seq(M) /\ Len(s) = m /\ \A l \in 1..m : s[l] = open[l]  BY <1>1
<1>3. PICK one : one = <<x>>  OBVIOUS
<1>4. one \in Seq(M) /\ Len(one) = 1 /\ one[1] = x  BY <1>3
<1>5. PICK t : t = s \o one  OBVIOUS
<1>6. t \in Seq(M) /\ Len(t) = m + 1 /\ t[m + 1] = x /\ \A l \in 1..m : t[l] = s[l]
  <2>0. s \in Seq(M) /\ one \in Seq(M)  BY <1>2, <1>4
  <2>1. t \in Seq(M) /\ Len(t) = Len(s) + Len(one)  BY <2>0, <1>5
  <2>2. \A l \in 1..Len(s) : t[l] = s[l]  BY <2>0, <1>5
  <2>3. \A l \in 1..Len(one) : t[Len(s) + l] = one[l]  BY <2>0, <1>5
  <2>4. 1 \in 1..Len(one)  BY <1>4
  <2>5. t[m + 1] = one[1]  BY <2>3, <2>4, <1>2
  <2>6. QED  BY <2>1, <2>2, <2>5, <1>2, <1>4
<1>7. r = t \o below  BY <1>1, <1>3, <1>5
<1>8. r \in Seq(M) /\ Len(r) = m + 1 + Len(below)  BY <1>6, <1>7
<1>9. \A l \in 1..m + 1 : r[l] = t[l]  BY <1>6, <1>7
<1>10. Len(below) = 1 => r[m + 2] = below[1]
  <2>1. \A l \in 1..Len(below) : r[Len(t) + l] = below[l]  BY <1>6, <1>7
  <2>2. Len(below) = 1 => 1 \in 1..Len(below)  OBVIOUS
  <2>3. Len(t) + 1 = m + 2  BY <1>6
  <2>4. QED  BY <2>1, <2>2, <2>3
<1>11. QED  BY <1>2, <1>6, <1>8, <1>9, <1>10

\* Only a text block takes text.
LEMMA TextBlocksTakeText ==
  ASSUME NEW kind, "text" \in ContentOf(kind)
  PROVE  kind \in TextBlocks
<1>1. SUFFICES ASSUME kind \notin TextBlocks PROVE FALSE  OBVIOUS
<1>2. ContentOf(kind) \in {{"listItem"}, BlockNodes}  BY <1>1 DEF ContentOf
<1>3. "text" \notin BlockNodes  BY DEF BlockNodes, TextBlocks, Lists
<1>4. QED  BY <1>2, <1>3

\* Reading a node, said of the node.
ReadsNode(handed, clean, d, parent, parses) ==
  /\ handed \in Handed /\ handed.depth = d /\ clean = WithoutEditorAttributes(handed)
  /\ parent = ancestors[d - 1] /\ parses = ParsesAs(clean, parent)
  /\ given' = Append(given, handed) /\ Longer(given, given') /\ given'[Len(given) + 1] = handed
  /\ complaint' = (complaint \/ ~parses \/ \E l \in d..Len(ancestors) : LeftWanting(ancestors[l]))
  /\ nodeCount' = IF d <= MaxDepth THEN nodeCount + 1 ELSE nodeCount
  /\ textChars' = IF EntersNode(clean) /\ clean.kind = "text" /\ parent.kind \in TextBlocks
                  THEN textChars + clean.chars ELSE textChars
  /\ ancestors' \in Seq(Ancestor)
  /\ Len(ancestors') = IF parses /\ clean.kind # "text" THEN d ELSE d - 1
  /\ \A l \in 1..d - 2 : ancestors'[l] = ancestors[l]
  /\ ancestors'[d - 1].kind = parent.kind /\ ancestors'[d - 1].filled
  /\ ancestors'[d - 1].inked <=>
       parent.inked \/ (parses /\ clean.kind = "text" /\ ~clean.blank)
  /\ parses /\ clean.kind # "text" => ancestors'[d] = Opened(clean.kind)
  /\ kept' = IF parses THEN Append(kept, Stored(clean)) ELSE kept
  /\ from' = from /\ parsed' = parsed

\* Every reading of a node is one.
LEMMA ReadNodeReads ==
  ASSUME ProseTypes, ReadNode
  PROVE  \E d \in 2..Len(ancestors) + 1 : \E handed, clean, parent : \E parses \in BOOLEAN :
           ReadsNode(handed, clean, d, parent, parses)
<1>1. PICK d \in 2..Len(ancestors) + 1, node \in Nodes : ParseNode([node EXCEPT !.depth = d])
  BY DEF ReadNode
<1>2. PICK handed : handed = [node EXCEPT !.depth = d]  OBVIOUS
<1>3. handed \in Handed /\ handed.depth = d
  <2>1. node \in Node /\ (node.kind # "text" => node.chars = 0 /\ node.marks = <<>>)
    BY RichTextAssumption
  <2>2. handed \in Node /\ handed.depth = d  BY <2>1, <1>2 DEF Node
  <2>3. handed.kind = node.kind /\ handed.chars = node.chars /\ handed.marks = node.marks
    BY <2>1, <1>2 DEF Node
  <2>4. handed.kind \in Kinds  BY <2>3 DEF Kinds
  <2>5. QED  BY <2>1, <2>2, <2>3, <2>4 DEF Handed
<1>4. PICK clean : clean = WithoutEditorAttributes(handed)  OBVIOUS
<1>5. clean \in Node /\ Same(clean, handed)
  <2>1. handed \in Node /\ from \in {"editor", "server"}  BY <1>3 DEF Handed, ProseTypes
  <2>2. QED  BY <2>1, <1>4, Cleaned
<1>6. clean.depth = d  BY <1>3, <1>5 DEF Same
<1>7. PICK parent : parent = ancestors[d - 1]  OBVIOUS
<1>8. PICK parses \in BOOLEAN : parses = ParsesAs(clean, parent)
  BY DEF ParsesAs, EntersNode
<1>9. PICK inks \in BOOLEAN : inks = (parses /\ clean.kind = "text" /\ ~clean.blank)
  <2>1. clean.blank \in BOOLEAN  BY <1>5, NodeFields
  <2>2. (parses /\ clean.kind = "text" /\ ~clean.blank) \in BOOLEAN  OBVIOUS
  <2>3. QED  BY <2>2
<1>10. PICK below : below = IF parses /\ clean.kind # "text" THEN <<Opened(clean.kind)>> ELSE <<>>
  OBVIOUS
<1>11. PICK x : x = [parent EXCEPT !.filled = TRUE, !.inked = @ \/ inks]  OBVIOUS
<1>12. ParseNode(handed)  BY <1>1, <1>2
<1>13. /\ given' = Append(given, handed)
       /\ nodeCount' = IF d <= MaxDepth THEN nodeCount + 1 ELSE nodeCount
       /\ textChars' = IF EntersNode(clean) /\ clean.kind = "text" /\ parent.kind \in TextBlocks
                       THEN textChars + clean.chars ELSE textChars
       /\ complaint' = (complaint \/ ~parses \/ \E l \in d..Len(ancestors) : LeftWanting(ancestors[l]))
       /\ ancestors' = (SubSeq(ancestors, 1, d - 2) \o <<x>>) \o below
       /\ kept' = IF parses THEN Append(kept, Stored(clean)) ELSE kept
  BY <1>4, <1>6, <1>7, <1>8, <1>9, <1>10, <1>11, <1>12 DEF ParseNode
<1>14. from' = from /\ parsed' = parsed  BY DEF ReadNode
<1>15. parent \in Ancestor
  <2>1. PICK A : A = Ancestor  OBVIOUS
  <2>2. ancestors \in Seq(A)  BY <2>1 DEF ProseTypes
  <2>3. d - 1 \in 1..Len(ancestors)  BY <2>2
  <2>4. QED  BY <2>1, <2>2, <2>3, <1>7
<1>16. x \in Ancestor /\ x.kind = parent.kind /\ x.filled = TRUE /\ x.inked = (parent.inked \/ inks)
  BY <1>11, <1>15 DEF Ancestor
<1>17. Opened(clean.kind) \in Ancestor
  <2>1. clean.kind \in Kinds  BY <1>3, <1>5 DEF Same, Handed
  <2>2. QED  BY <2>1 DEF Opened, Ancestor
<1>18. /\ ancestors' \in Seq(Ancestor) /\ Len(ancestors') = (d - 2) + 1 + Len(below)
       /\ \A l \in 1..d - 2 : ancestors'[l] = ancestors[l]
       /\ ancestors'[d - 1] = x
       /\ Len(below) = 1 => ancestors'[d] = below[1]
       /\ Len(below) = IF parses /\ clean.kind # "text" THEN 1 ELSE 0
       /\ parses /\ clean.kind # "text" => below[1] = Opened(clean.kind)
  <2>1. PICK A : A = Ancestor  OBVIOUS
  <2>2. PICK open : open = ancestors  OBVIOUS
  <2>3. PICK m \in Nat : m = d - 2 /\ m + 1 = d - 1 /\ m + 2 = d  OBVIOUS
  <2>4. PICK y : y = Opened(clean.kind)  OBVIOUS
  <2>5. y \in A /\ x \in A  BY <1>16, <1>17, <2>1, <2>4
  <2>6. below \in Seq(A) /\ Len(below) <= 1
    <3>1. CASE parses /\ clean.kind # "text"
      <4>1. below = <<y>>  BY <3>1, <1>10, <2>4
      <4>2. QED  BY <4>1, <2>5
    <3>2. CASE ~(parses /\ clean.kind # "text")
      <4>1. below = <<>>  BY <3>2, <1>10
      <4>2. QED  BY <4>1
    <3>3. QED  BY <3>1, <3>2
  <2>7. open \in Seq(A) /\ m <= Len(open)  BY <2>1, <2>2, <2>3 DEF ProseTypes
  <2>8. PICK r : r = (SubSeq(open, 1, m) \o <<x>>) \o below  OBVIOUS
  <2>9. /\ r \in Seq(A) /\ Len(r) = m + 1 + Len(below)
        /\ \A l \in 1..m : r[l] = open[l]
        /\ r[m + 1] = x
        /\ Len(below) = 1 => r[m + 2] = below[1]
    BY <2>5, <2>6, <2>7, <2>8, NextAncestors
  <2>10. ancestors' = r  BY <1>13, <2>2, <2>3, <2>8
  <2>11. Len(below) = IF parses /\ clean.kind # "text" THEN 1 ELSE 0  BY <1>10
  <2>12. parses /\ clean.kind # "text" => below[1] = Opened(clean.kind)  BY <1>10
  <2>13. QED  BY <2>1, <2>2, <2>3, <2>9, <2>10, <2>11, <2>12
<1>19. Longer(given, given') /\ given'[Len(given) + 1] = handed
  <2>1. PICK N : N = Node  OBVIOUS
  <2>2. given \in Seq(N) /\ handed \in N  BY <2>1, <1>3 DEF ProseTypes, Handed
  <2>3. QED  BY <2>2, <1>13 DEF Longer
<1>20. Len(ancestors') = IF parses /\ clean.kind # "text" THEN d ELSE d - 1  BY <1>18
<1>21. /\ ancestors'[d - 1].kind = parent.kind /\ ancestors'[d - 1].filled
       /\ ancestors'[d - 1].inked <=>
            parent.inked \/ (parses /\ clean.kind = "text" /\ ~clean.blank)
  BY <1>9, <1>16, <1>18
<1>22. parses /\ clean.kind # "text" => ancestors'[d] = Opened(clean.kind)  BY <1>18
<1>23. ReadsNode(handed, clean, d, parent, parses)
  BY <1>3, <1>4, <1>7, <1>8, <1>13, <1>14, <1>18, <1>19, <1>20, <1>21, <1>22 DEF ReadsNode
<1>24. QED  BY <1>23

\* What the parser knows stays exact while it has no complaint.
LEMMA StillExact ==
  ASSUME ProseTypes, ExactHere, NEW d \in 2..Len(ancestors) + 1, NEW handed, NEW clean, NEW parent,
         NEW parses \in BOOLEAN, ReadsNode(handed, clean, d, parent, parses), ~complaint'
  PROVE  ExactHere'
<1>1. PICK n \in Nat : n = Len(given)  BY DEF ProseTypes
<1>2. PICK a : a = given  OBVIOUS
<1>3. PICK b : b = given'  OBVIOUS
<1>4. PICK before : before = ancestors  OBVIOUS
<1>5. PICK open : open = ancestors'  OBVIOUS
<1>6. PICK e : e = ExtrasOf(from)  OBVIOUS
<1>7. PICK levels \in Nat : levels = Len(before)  BY <1>4 DEF ProseTypes
<1>8. PICK after \in Nat : after = Len(open)  BY <1>5 DEF ReadsNode
<1>9. /\ Longer(a, b) /\ b[n + 1] = handed /\ handed \in Handed /\ handed.depth = d
      /\ clean = WithoutEditorAttributes(handed) /\ parent = before[d - 1]
      /\ parses = ParsesAs(clean, parent)
  BY <1>1, <1>2, <1>3, <1>4 DEF ReadsNode
<1>10. Len(b) = n + 1 /\ \A i \in 1..n : b[i] = a[i]  BY <1>1, <1>2, <1>9 DEF Longer
<1>11. parses /\ \A l \in d..levels : ~LeftWanting(before[l])
  BY <1>4, <1>7 DEF ReadsNode
<1>12. d \in Nat /\ d - 1 \in 1..levels /\ d = b[n + 1].depth  BY <1>4, <1>7, <1>9
<1>13. a \in Seq(Node) /\ b \in Seq(Node)
  <2>1. PICK N : N = Node  OBVIOUS
  <2>2. a \in Seq(N) /\ handed \in N  BY <1>2, <1>9, <2>1 DEF ProseTypes, Handed
  <2>3. b = Append(a, handed)  BY <1>2, <1>3 DEF ReadsNode
  <2>4. QED  BY <2>1, <2>2, <2>3
<1>14. /\ nodeCount = n + 1 /\ textChars = CharsIn(a) /\ AllAllowed(a, e)
       /\ LeftHaveContent(a, levels) /\ AncestorsAre(a, before)
  BY <1>1, <1>2, <1>4, <1>6, <1>7 DEF ExactHere, Exact
<1>15. n + 2 <= MaxNodes /\ CharsIn(b) <= MaxChars /\ NodeIsAllowed(b, e, n + 1)
  <2>1. Longer(given, b) /\ n = Len(given) /\ b[n + 1] \in Handed  BY <1>1, <1>2, <1>9
  <2>2. clean = WithoutEditorAttributes(b[n + 1]) /\ d - 1 \in 1..Len(ancestors)
    BY <1>4, <1>7, <1>9, <1>12
  <2>3. ParsesAs(clean, ancestors[d - 1])  BY <1>4, <1>9, <1>11
  <2>4. n + 2 <= MaxNodes /\ CharsIn(b) <= MaxChars /\ NodeIsAllowed(b, ExtrasOf(from), n + 1)
    BY <2>1, <2>2, <2>3, <1>12, <1>13, ParsesIsAllowed
  <2>5. QED  BY <2>4, <1>6
<1>16. Same(clean, handed)
  <2>1. handed \in Node /\ from \in {"editor", "server"}  BY <1>9 DEF Handed, ProseTypes
  <2>2. QED  BY <2>1, <1>9, Cleaned
<1>17. Deeper(before, open, d, b[n + 1])
  <2>1. Len(open) = IF handed.kind = "text" THEN d - 1 ELSE d
    BY <1>5, <1>11, <1>16 DEF ReadsNode, Same
  <2>2. \A l \in 1..d - 2 : open[l] = before[l]  BY <1>4, <1>5 DEF ReadsNode
  <2>3. open[d - 1].kind = before[d - 1].kind /\ open[d - 1].filled
    BY <1>5, <1>9 DEF ReadsNode
  <2>4. open[d - 1].inked <=> before[d - 1].inked \/ (handed.kind = "text" /\ ~handed.blank)
    BY <1>5, <1>9, <1>11, <1>16 DEF ReadsNode, Same
  <2>5. handed.kind # "text" => open[d] = Opened(handed.kind)
    BY <1>5, <1>11, <1>16 DEF ReadsNode, Same
  <2>6. QED  BY <2>1, <2>2, <2>3, <2>4, <2>5, <1>9 DEF Deeper
<1>18. AncestorsAre(b, open)
  <2>1. n = Len(a) /\ d - 1 \in 1..Len(before)  BY <1>1, <1>2, <1>7, <1>12
  <2>2. QED  BY <2>1, <1>9, <1>12, <1>14, <1>17, AncestorsStay
<1>19. LeftHaveContent(b, after)
  <2>1. d - 1 <= after /\ after <= d /\ (b[n + 1].kind # "text" => after = d)
    <3>1. after = IF handed.kind = "text" THEN d - 1 ELSE d  BY <1>8, <1>9, <1>17 DEF Deeper
    <3>2. QED  BY <3>1, <1>9, <1>12
  <2>2. \A i \in 1..n : a[i].depth \in Nat \ {0}
    <3>1. \A i \in 1..n : a[i] \in Handed  BY <1>1, <1>2 DEF ProseTypes
    <3>2. \A node \in Handed : node.depth \in Nat \ {0}
      <4>1. SUFFICES ASSUME NEW node \in Handed PROVE node.depth \in Nat \ {0}  OBVIOUS
      <4>2. node \in Node /\ node.depth >= 2  BY DEF Handed
      <4>3. node.depth \in Nat  BY <4>2, NodeFields
      <4>4. QED  BY <4>2, <4>3
    <3>3. QED  BY <3>1, <3>2
  <2>3. n = Len(a) /\ Longer(a, b)  BY <1>1, <1>2, <1>9
  <2>4. QED  BY <2>1, <2>2, <2>3, <1>7, <1>11, <1>12, <1>14, LeftStay
<1>20. AllAllowed(b, e)
  <2>1. SUFFICES ASSUME NEW i \in 1..n + 1 PROVE NodeIsAllowed(b, e, i)
    BY <1>10 DEF AllAllowed
  <2>2. CASE i = n + 1  BY <2>2, <1>15
  <2>3. CASE i # n + 1
    <3>1. i \in 1..n  BY <2>3
    <3>2. n = Len(a) /\ Longer(a, b)  BY <1>1, <1>2, <1>9
    <3>3. NodeIsAllowed(b, e, i) <=> NodeIsAllowed(a, e, i)  BY <3>1, <3>2, AllowedStays
    <3>4. NodeIsAllowed(a, e, i)  BY <3>1, <3>2, <1>14 DEF AllAllowed
    <3>5. QED  BY <3>3, <3>4
  <2>4. QED  BY <2>2, <2>3
<1>21. nodeCount' = Len(b) + 1 /\ nodeCount' <= MaxNodes
  <2>1. d <= MaxDepth  BY <1>9, <1>12, <1>15, AllowedIs
  <2>2. nodeCount' = nodeCount + 1  BY <2>1 DEF ReadsNode
  <2>3. QED  BY <2>2, <1>10, <1>14, <1>15
<1>22. textChars' = CharsIn(b)
  <2>1. CharsIn(b) = CharsIn(a) + handed.chars /\ CharsIn(a) \in Nat
    <3>1. CharsIn(b) = CharsIn(a) + b[Len(b)].chars /\ CharsIn(a) \in Nat
      BY <1>9, <1>13, MoreChars
    <3>2. b[Len(b)] = handed  BY <1>9, <1>10
    <3>3. QED  BY <3>1, <3>2
  <2>2. CASE clean.kind = "text"
    <3>1. EntersNode(clean) /\ parent.kind \in TextBlocks
      BY <1>9, <1>11, <2>2, TextBlocksTakeText DEF ParsesAs
    <3>2. textChars' = textChars + clean.chars  BY <2>2, <3>1 DEF ReadsNode
    <3>3. QED  BY <3>2, <2>1, <1>14, <1>16 DEF Same
  <2>3. CASE clean.kind # "text"
    <3>1. textChars' = textChars  BY <2>3 DEF ReadsNode
    <3>2. handed.chars = 0  BY <2>3, <1>9, <1>16 DEF Handed, Same
    <3>3. QED  BY <3>1, <3>2, <2>1, <1>14
  <2>4. QED  BY <2>2, <2>3
<1>23. Exact(b, e, open, nodeCount', textChars')
  BY <1>8, <1>15, <1>18, <1>19, <1>20, <1>21, <1>22 DEF Exact
<1>24. from' = from  BY DEF ReadsNode
<1>25. QED  BY <1>3, <1>5, <1>6, <1>23, <1>24 DEF ExactHere, ExtrasOf

\* A complaint is about something no continuation mends.
LEMMA ComplaintIsJust ==
  ASSUME ProseTypes, complaint => DoomedHere, ~complaint => ExactHere,
         NEW d \in 2..Len(ancestors) + 1, NEW handed, NEW clean, NEW parent,
         NEW parses \in BOOLEAN, ReadsNode(handed, clean, d, parent, parses), complaint'
  PROVE  DoomedHere'
<1>1. PICK n \in Nat : n = Len(given)  BY DEF ProseTypes
<1>2. PICK a : a = given  OBVIOUS
<1>3. PICK b : b = given'  OBVIOUS
<1>4. PICK before : before = ancestors  OBVIOUS
<1>5. PICK e : e = ExtrasOf(from)  OBVIOUS
<1>6. PICK levels \in Nat : levels = Len(before)  BY <1>4 DEF ProseTypes
<1>7. PICK after \in Nat : after = Len(ancestors') /\ after <= d  BY DEF ReadsNode
<1>8. /\ Longer(a, b) /\ b[n + 1] = handed /\ handed \in Handed /\ handed.depth = d
      /\ clean = WithoutEditorAttributes(handed) /\ parent = before[d - 1]
      /\ parses = ParsesAs(clean, parent)
  BY <1>1, <1>2, <1>3, <1>4 DEF ReadsNode
<1>9. Len(b) = n + 1  BY <1>1, <1>2, <1>8 DEF Longer
<1>10. d \in Nat /\ d - 1 <= levels /\ d - 1 \in 1..levels /\ d = b[n + 1].depth
  BY <1>4, <1>6, <1>8
<1>11. a \in Seq(Node) /\ b \in Seq(Node)
  <2>1. PICK N : N = Node  OBVIOUS
  <2>2. a \in Seq(N) /\ handed \in N  BY <1>2, <1>8, <2>1 DEF ProseTypes, Handed
  <2>3. b = Append(a, handed)  BY <1>2, <1>3 DEF ReadsNode
  <2>4. QED  BY <2>1, <2>2, <2>3
<1>12. Doomed(b, e, after)
  <2>1. CASE complaint
    <3>1. Doomed(a, e, levels)  BY <2>1, <1>2, <1>4, <1>5, <1>6 DEF DoomedHere
    <3>2. d = b[Len(b)].depth  BY <1>9, <1>10
    <3>3. QED  BY <3>1, <3>2, <1>7, <1>8, <1>10, <1>11, DoomedStays
  <2>2. CASE ~complaint /\ ~parses
    <3>1. Longer(given, b) /\ n = Len(given) /\ b[n + 1] \in Handed  BY <1>1, <1>2, <1>8
    <3>2. clean = WithoutEditorAttributes(b[n + 1]) /\ d - 1 \in 1..Len(ancestors)
      BY <1>4, <1>6, <1>8, <1>10
    <3>3. ~ParsesAs(clean, ancestors[d - 1])  BY <1>4, <1>8, <2>2
    <3>4. ExactHere  BY <2>2
    <3>5. ~(n + 2 <= MaxNodes /\ CharsIn(b) <= MaxChars /\ NodeIsAllowed(b, ExtrasOf(from), n + 1))
      BY <3>1, <3>2, <3>3, <3>4, <1>10, <1>11, ParsesIsAllowed
    <3>6. CASE ~(n + 2 <= MaxNodes)
      <4>1. MaxNodes \in Nat  BY RichTextAssumption
      <4>2. Len(b) + 1 > MaxNodes  BY <4>1, <3>6, <1>9
      <4>3. QED  BY <4>2 DEF Doomed
    <3>7. CASE ~(CharsIn(b) <= MaxChars)
      <4>1. MaxChars \in Nat  BY RichTextAssumption
      <4>2. CharsIn(b) \in Nat  BY <1>11, CharsAreTotals
      <4>3. CharsIn(b) > MaxChars  BY <4>1, <4>2, <3>7
      <4>4. QED  BY <4>3 DEF Doomed
    <3>8. CASE ~NodeIsAllowed(b, ExtrasOf(from), n + 1)
      <4>1. n + 1 \in 1..Len(b) /\ ~NodeIsAllowed(b, e, n + 1)  BY <3>8, <1>5, <1>9
      <4>2. QED  BY <4>1 DEF Doomed
    <3>9. QED  BY <3>5, <3>6, <3>7, <3>8
  <2>3. CASE ~complaint /\ parses
    <3>1. PICK l \in d..levels : LeftWanting(before[l])
      BY <2>3, <1>4, <1>6 DEF ReadsNode
    <3>2. AllAllowed(a, e) /\ AncestorsAre(a, before)
      BY <2>3, <1>2, <1>4, <1>5 DEF ExactHere, Exact
    <3>3. l \in 1..Len(before) /\ d <= l /\ d >= 2 /\ n = Len(a)  BY <1>1, <1>2, <1>6
    <3>4. QED  BY <3>1, <3>2, <3>3, <1>7, <1>8, <1>10, WantingDooms
  <2>4. QED  BY <2>1, <2>2, <2>3
<1>13. from' = from  BY DEF ReadsNode
<1>14. QED  BY <1>3, <1>5, <1>7, <1>12, <1>13 DEF DoomedHere, ExtrasOf

\* Reading a node keeps the invariant.
LEMMA ReadNodeKeeps ==
  ASSUME ProseInv, ReadNode
  PROVE  ProseInv'
<1>1. ProseTypes /\ parsed = "reading"  BY DEF ProseInv, ReadNode
<1>a. PICK d \in 2..Len(ancestors) + 1 : \E handed, clean, parent : \E parses \in BOOLEAN :
        ReadsNode(handed, clean, d, parent, parses)
  BY <1>1, ReadNodeReads
<1>b. PICK handed, clean, parent : \E parses \in BOOLEAN : ReadsNode(handed, clean, d, parent, parses)
  BY <1>a
<1>2. PICK parses \in BOOLEAN : ReadsNode(handed, clean, d, parent, parses)
  BY <1>b
<1>3. parsed' = "reading" /\ from' = from  BY <1>1, <1>2 DEF ReadsNode
<1>4. handed \in Node /\ clean \in Node
  <2>1. handed \in Node /\ from \in {"editor", "server"} /\ clean = WithoutEditorAttributes(handed)
    BY <1>1, <1>2 DEF ReadsNode, Handed, ProseTypes
  <2>2. QED  BY <2>1, Cleaned
<1>5. PICK n \in Nat : n = Len(given)  BY <1>1 DEF ProseTypes
<1>6. given' \in Seq(Node) /\ Len(given') = n + 1 /\ given'[n + 1] = handed
      /\ \A i \in 1..n : given'[i] = given[i]
  <2>1. PICK N : N = Node  OBVIOUS
  <2>2. given \in Seq(N) /\ handed \in N  BY <2>1, <1>1, <1>4 DEF ProseTypes
  <2>3. given' = Append(given, handed)  BY <1>2 DEF ReadsNode
  <2>4. QED  BY <2>1, <2>2, <2>3, <1>5
<1>7. \A i \in 1..n + 1 : given'[i] \in Handed
  <2>1. handed \in Handed /\ \A i \in 1..n : given[i] \in Handed
    BY <1>1, <1>2, <1>5 DEF ReadsNode, ProseTypes
  <2>2. QED  BY <2>1, <1>6
<1>8. ancestors' \in Seq(Ancestor) /\ Len(ancestors') >= 1
  <2>1. ancestors' \in Seq(Ancestor)  BY <1>2 DEF ReadsNode
  <2>2. Len(ancestors') \in {d, d - 1}  BY <1>2 DEF ReadsNode
  <2>3. QED  BY <2>1, <2>2
<1>9. complaint' \in BOOLEAN  BY <1>2 DEF ReadsNode
<1>10. CASE ~parses
  <2>1. kept' = kept /\ complaint'  BY <1>2, <1>10 DEF ReadsNode
  <2>2. kept' \in Seq(Node)  BY <2>1, <1>1 DEF ProseTypes
  <2>3. ProseTypes'  BY <2>2, <1>1, <1>3, <1>6, <1>7, <1>8, <1>9 DEF ProseTypes
  <2>4. DoomedHere'
    <3>1. (complaint => DoomedHere) /\ (~complaint => ExactHere)  BY <1>1 DEF ProseInv
    <3>2. QED  BY <3>1, <2>1, <1>1, <1>2, ComplaintIsJust
  <2>5. QED  BY <2>1, <2>3, <2>4, <1>3 DEF ProseInv, ProseIsKept
<1>11. CASE parses
  <2>1. PICK tidy : tidy = Stored(clean)  OBVIOUS
  <2>2. Faithful(tidy, handed)
    <3>1. clean = WithoutEditorAttributes(handed) /\ ParsesAs(clean, parent)
      BY <1>2, <1>11 DEF ReadsNode
    <3>2. clean.extra = "none" /\ from \in {"editor", "server"}  BY <3>1, <1>1 DEF ParsesAs, ProseTypes
    <3>3. QED  BY <3>1, <3>2, <2>1, <1>4, StoredIsFaithful
  <2>3. kept' = Append(kept, tidy) /\ tidy \in Node
    BY <2>1, <2>2, <1>2, <1>11 DEF ReadsNode, Faithful
  <2>4. PICK k \in Nat : k = Len(kept)  BY <1>1 DEF ProseTypes
  <2>5. kept' \in Seq(Node) /\ Len(kept') = k + 1 /\ kept'[k + 1] = tidy
        /\ \A i \in 1..k : kept'[i] = kept[i]
    <3>1. PICK N : N = Node  OBVIOUS
    <3>2. kept \in Seq(N) /\ tidy \in N  BY <3>1, <2>3, <1>1 DEF ProseTypes
    <3>3. QED  BY <3>1, <3>2, <2>3, <2>4
  <2>6. ProseTypes'  BY <2>5, <1>1, <1>3, <1>6, <1>7, <1>8, <1>9 DEF ProseTypes
  <2>7. CASE complaint'
    <3>1. (complaint => DoomedHere) /\ (~complaint => ExactHere)  BY <1>1 DEF ProseInv
    <3>2. DoomedHere'  BY <3>1, <2>7, <1>1, <1>2, ComplaintIsJust
    <3>3. QED  BY <3>2, <2>6, <2>7, <1>3 DEF ProseInv, ProseIsKept
  <2>8. CASE ~complaint'
    <3>1. ~complaint  BY <2>8, <1>2 DEF ReadsNode
    <3>2. ExactHere /\ KeptHere  BY <3>1, <1>1 DEF ProseInv
    <3>3. ExactHere'  BY <3>2, <2>8, <1>1, <1>2, StillExact
    <3>4. k = n /\ \A i \in 1..n : Faithful(kept[i], given[i])
      BY <3>2, <2>4, <1>5 DEF KeptHere, KeptAre
    <3>5. \A i \in 1..n + 1 : Faithful(kept'[i], given'[i])
      <4>1. SUFFICES ASSUME NEW i \in 1..n + 1 PROVE Faithful(kept'[i], given'[i])  OBVIOUS
      <4>2. CASE i = n + 1  BY <4>2, <3>4, <2>2, <2>5, <1>6
      <4>3. CASE i # n + 1
        <5>1. i \in 1..n  BY <4>3
        <5>2. kept'[i] = kept[i] /\ given'[i] = given[i]  BY <5>1, <3>4, <2>5, <1>6
        <5>3. QED  BY <5>1, <5>2, <3>4
      <4>4. QED  BY <4>2, <4>3
    <3>6. KeptHere'  BY <3>4, <3>5, <2>5, <1>6 DEF KeptHere, KeptAre
    <3>7. QED  BY <3>3, <3>6, <2>6, <2>8, <1>3 DEF ProseInv, ProseIsKept
  <2>9. QED  BY <2>7, <2>8
<1>12. QED  BY <1>10, <1>11

\* A value that is doomed keeps not all the rules.
LEMMA DoomedIsRefused ==
  ASSUME NEW doc \in Seq(Node), NEW extras, NEW levels, Doomed(doc, extras, levels)
  PROVE  ~WithinRules(doc, extras)
<1>1. PICK n \in Nat : n = Len(doc)  OBVIOUS
<1>2. DOMAIN doc = 1..n
  <2>1. PICK N : N = Node  OBVIOUS
  <2>2. doc \in Seq(N)  BY <2>1
  <2>3. QED  BY <2>2, <1>1
<1>3. MaxNodes \in Nat /\ MaxChars \in Nat /\ CharsIn(doc) \in Nat
  BY RichTextAssumption, CharsAreTotals
<1>4. CASE Len(doc) + 1 > MaxNodes
  <2>1. ~(Len(doc) + 1 <= MaxNodes)  BY <1>1, <1>3, <1>4
  <2>2. QED  BY <2>1 DEF WithinRules
<1>5. CASE CharsIn(doc) > MaxChars
  <2>1. ~(CharsIn(doc) <= MaxChars)  BY <1>3, <1>5
  <2>2. QED  BY <2>1 DEF WithinRules
<1>6. CASE \E i \in 1..Len(doc) : ~NodeIsAllowed(doc, extras, i)
  BY <1>1, <1>2, <1>6 DEF WithinRules
<1>7. CASE \E i \in 1..Len(doc) : ~IsOpen(doc, levels, i) /\ doc[i].kind # "text" /\ ~HasContent(doc, i)
  <2>1. PICK i \in 1..n : doc[i].kind # "text" /\ ~HasContent(doc, i)  BY <1>1, <1>7
  <2>2. i \in 0..Len(doc) /\ KindAt(doc, i) # "text"  BY <1>1, <2>1 DEF KindAt
  <2>3. QED  BY <2>1, <2>2 DEF WithinRules
<1>8. QED  BY <1>4, <1>5, <1>6, <1>7 DEF Doomed

\* When all of a value is read without complaint, what the open nodes want is
\* all that can be wrong with it.
LEMMA ExactIsWithinRules ==
  ASSUME ProseTypes, ExactHere
  PROVE  WithinRules(given, ExtrasOf(from)) <=> \A l \in DOMAIN ancestors : ~LeftWanting(ancestors[l])
<1>1. PICK n \in Nat : n = Len(given)  BY DEF ProseTypes
<1>2. PICK e : e = ExtrasOf(from)  OBVIOUS
<1>3. DOMAIN given = 1..n /\ DOMAIN ancestors = 1..Len(ancestors)
  <2>1. PICK N : N = Node  OBVIOUS
  <2>2. given \in Seq(N)  BY <2>1 DEF ProseTypes
  <2>3. PICK A : A = Ancestor  OBVIOUS
  <2>4. ancestors \in Seq(A)  BY <2>3 DEF ProseTypes
  <2>5. QED  BY <2>2, <2>4, <1>1
<1>4. /\ n + 1 <= MaxNodes /\ CharsIn(given) <= MaxChars /\ AllAllowed(given, e)
      /\ LeftHaveContent(given, Len(ancestors)) /\ AncestorsAre(given, ancestors)
  BY <1>1, <1>2 DEF ExactHere, Exact
<1>5. ASSUME NEW l \in 1..Len(ancestors)
      PROVE  \E i \in 0..n : /\ i = LastAt(given, n, l) /\ KindAt(given, i) # "text"
                             /\ LeftWanting(ancestors[l]) <=> ~HasContent(given, i)
  <2>1. PICK i : i = LastAt(given, n, l)  OBVIOUS
  <2>2. i \in 0..n  BY <2>1, LastAtIs
  <2>3. AncestorIs(given, i, ancestors[l])  BY <2>1, <1>1, <1>4 DEF AncestorsAre
  <2>4. i \in Nat  BY <2>2
  <2>5. LeftWanting(ancestors[l]) <=> ~HasContent(given, i)  BY <2>3, <2>4, <1>4, WantingIsEmpty
  <2>6. KindAt(given, i) # "text"  BY <2>3 DEF AncestorIs
  <2>7. QED  BY <2>1, <2>2, <2>5, <2>6
<1>6. ASSUME WithinRules(given, e), NEW l \in DOMAIN ancestors PROVE ~LeftWanting(ancestors[l])
  <2>1. PICK i \in 0..n : KindAt(given, i) # "text" /\ (LeftWanting(ancestors[l]) <=> ~HasContent(given, i))
    BY <1>3, <1>5, <1>6
  <2>2. HasContent(given, i)  BY <2>1, <1>1, <1>6 DEF WithinRules
  <2>3. QED  BY <2>1, <2>2
<1>7. ASSUME \A l \in DOMAIN ancestors : ~LeftWanting(ancestors[l]) PROVE WithinRules(given, e)
  <2>1. ASSUME NEW i \in 0..n, KindAt(given, i) # "text" PROVE HasContent(given, i)
    <3>1. ASSUME NEW l \in 1..Len(ancestors), i = LastAt(given, n, l) PROVE HasContent(given, i)
      <4>1. PICK k \in 0..n : /\ k = LastAt(given, n, l)
                              /\ LeftWanting(ancestors[l]) <=> ~HasContent(given, k)
        BY <1>5
      <4>2. ~LeftWanting(ancestors[l])  BY <1>3, <1>7
      <4>3. QED  BY <3>1, <4>1, <4>2
    <3>2. CASE i = 0
      <4>1. 1 \in 1..Len(ancestors)  BY DEF ProseTypes
      <4>2. LastAt(given, n, 1) = 0  BY <4>1, <1>1, <1>4 DEF AncestorsAre
      <4>3. QED  BY <3>1, <3>2, <4>1, <4>2
    <3>3. CASE i # 0
      <4>1. i \in 1..n /\ given[i].kind # "text"  BY <3>3, <2>1 DEF KindAt
      <4>2. IsOpen(given, Len(ancestors), i) \/ HasContent(given, i)
        BY <4>1, <1>1, <1>4 DEF LeftHaveContent
      <4>3. CASE IsOpen(given, Len(ancestors), i)
        <5>1. PICK l : l = given[i].depth  OBVIOUS
        <5>2. i = LastAt(given, n, l) /\ l <= Len(ancestors)  BY <4>3, <5>1, <1>1 DEF IsOpen
        <5>3. l \in Nat /\ l >= 2
          <6>1. given[i] \in Handed  BY <4>1, <1>1 DEF ProseTypes
          <6>2. given[i] \in Node /\ given[i].depth >= 2  BY <6>1 DEF Handed
          <6>3. QED  BY <6>2, <5>1, NodeFields
        <5>4. l \in 1..Len(ancestors)
          <6>1. Len(ancestors) \in Nat  BY DEF ProseTypes
          <6>2. QED  BY <6>1, <5>2, <5>3
        <5>5. QED  BY <5>2, <5>4, <3>1
      <4>4. QED  BY <4>2, <4>3
    <3>4. QED  BY <3>2, <3>3
  <2>2. \A i \in DOMAIN given : NodeIsAllowed(given, e, i)  BY <1>1, <1>3, <1>4 DEF AllAllowed
  <2>3. QED  BY <2>1, <2>2, <1>1, <1>4 DEF WithinRules
<1>8. QED  BY <1>2, <1>6, <1>7

\* The end of a value keeps the invariant: the verdict is the rules'.
LEMMA FinishKeeps ==
  ASSUME ProseInv, FinishParsing
  PROVE  ProseInv'
<1>1. ProseTypes /\ parsed = "reading"  BY DEF ProseInv, FinishParsing
<1>2. UNCHANGED <<from, given, ancestors, nodeCount, textChars, complaint, kept>>
  BY DEF FinishParsing
<1>3. ProseTypes'  BY <1>1, <1>2 DEF ProseTypes
<1>4. /\ parsed' \in {"success", "errors"}
      /\ parsed' = "success" <=> ~complaint /\ \A l \in DOMAIN ancestors : ~LeftWanting(ancestors[l])
  BY DEF FinishParsing
<1>5. PICK e : e = ExtrasOf(from)  OBVIOUS
<1>6. parsed' = "success" <=> WithinRules(given, e)
  <2>1. CASE complaint
    <3>1. DoomedHere  BY <2>1, <1>1 DEF ProseInv
    <3>2. Doomed(given, e, Len(ancestors)) /\ given \in Seq(Node)
      BY <3>1, <1>1, <1>5 DEF DoomedHere, ProseTypes
    <3>3. ~WithinRules(given, e)  BY <3>2, DoomedIsRefused
    <3>4. QED  BY <2>1, <3>3, <1>4
  <2>2. CASE ~complaint
    <3>1. ExactHere  BY <2>2, <1>1 DEF ProseInv
    <3>2. WithinRules(given, e) <=> \A l \in DOMAIN ancestors : ~LeftWanting(ancestors[l])
      BY <3>1, <1>1, <1>5, ExactIsWithinRules
    <3>3. QED  BY <2>2, <3>2, <1>4
  <2>3. QED  BY <2>1, <2>2
<1>7. ASSUME parsed' = "success"
      PROVE  /\ Len(kept) = Len(given) /\ WithinRules(kept, {"none"})
             /\ \A i \in DOMAIN kept : SameProse(kept[i], given[i]) /\ OneForm(kept[i])
  <2>1. KeptHere  BY <1>1, <1>4, <1>7 DEF ProseInv
  <2>2. PICK n \in Nat : n = Len(given)  BY <1>1 DEF ProseTypes
  <2>3. Len(kept) = n /\ \A i \in 1..n : Faithful(kept[i], given[i])
    BY <2>1, <2>2 DEF KeptHere, KeptAre
  <2>4. DOMAIN kept = 1..n /\ \A i \in 1..n : given[i] \in Node
    <3>1. PICK N : N = Node  OBVIOUS
    <3>2. kept \in Seq(N) /\ given \in Seq(N)  BY <3>1, <1>1 DEF ProseTypes
    <3>3. DOMAIN kept = 1..n /\ \A i \in 1..n : given[i] \in N  BY <3>2, <2>2, <2>3
    <3>4. QED  BY <3>1, <3>3
  <2>5. \A i \in DOMAIN kept : SameProse(kept[i], given[i]) /\ OneForm(kept[i])
    BY <2>3, <2>4, FaithfulIsSame
  <2>6. WithinRules(kept, {"none"})
    <3>1. WithinRules(given, e)  BY <1>6, <1>7
    <3>2. kept \in Seq(Node) /\ given \in Seq(Node)  BY <1>1 DEF ProseTypes
    <3>3. QED  BY <3>1, <3>2, <2>1, KeptWithinRules DEF KeptHere
  <2>7. QED  BY <2>2, <2>3, <2>5, <2>6
<1>8. ExtrasOf("server") = {"none"}  BY DEF ExtrasOf
<1>9. ExtrasOf(from') = e /\ given' = given /\ kept' = kept  BY <1>2, <1>5
<1>10. ProseIsKept'  BY <1>6, <1>7, <1>8, <1>9 DEF ProseIsKept
<1>11. parsed' # "reading"
  <2>1. parsed' \in {"success", "errors"}  BY <1>4
  <2>2. QED  BY <2>1
<1>12. QED  BY <1>3, <1>10, <1>11 DEF ProseInv

\* Every step keeps the invariant.
LEMMA ProseStep ==
  ASSUME ProseInv, [RichTextNext]_proseVars
  PROVE  ProseInv'
<1>1. CASE ReadNode  BY <1>1, ReadNodeKeeps
<1>2. CASE FinishParsing  BY <1>2, FinishKeeps
<1>3. CASE UNCHANGED proseVars
  BY <1>3 DEF proseVars, ProseInv, ProseTypes, DoomedHere, ExactHere, KeptHere, ProseIsKept
<1>4. QED  BY <1>1, <1>2, <1>3 DEF RichTextNext

\* A value of which nothing has been read.
LEMMA ProseStart ==
  ASSUME RichTextInit
  PROVE  ProseInv
<1>1. PICK none : none = <<>>  OBVIOUS
<1>2. given = none /\ kept = none /\ Len(none) = 0 /\ none \in Seq(Node)
  <2>1. PICK N : N = Node  OBVIOUS
  <2>2. none \in Seq(N) /\ Len(none) = 0  BY <1>1
  <2>3. QED  BY <2>1, <2>2, <1>1 DEF RichTextInit
<1>3. PICK doc \in Ancestor : doc = Opened("doc")
  <2>1. "doc" \in Kinds  BY DEF Kinds
  <2>2. Opened("doc") \in Ancestor  BY <2>1 DEF Opened, Ancestor
  <2>3. QED  BY <2>2
<1>4. ancestors = <<doc>>  BY <1>3 DEF RichTextInit
<1>5. ancestors \in Seq(Ancestor) /\ Len(ancestors) = 1 /\ ancestors[1] = doc
  <2>1. PICK A : A = Ancestor  OBVIOUS
  <2>2. doc \in A  BY <2>1
  <2>3. <<doc>> \in Seq(A) /\ Len(<<doc>>) = 1 /\ <<doc>>[1] = doc  BY <2>2
  <2>4. QED  BY <2>1, <2>3, <1>4
<1>6. ProseTypes
  <2>1. from \in {"editor", "server"} /\ complaint \in BOOLEAN  BY DEF RichTextInit
  <2>2. given \in Seq(Node) /\ kept \in Seq(Node)  BY <1>2
  <2>3. \A i \in 1..Len(given) : given[i] \in Handed
    <3>1. 1..Len(given) = {}  BY <1>2
    <3>2. QED  BY <3>1
  <2>4. ancestors \in Seq(Ancestor) /\ Len(ancestors) >= 1  BY <1>5
  <2>5. QED  BY <2>1, <2>2, <2>3, <2>4 DEF ProseTypes
<1>7. CharsIn(none) = 0
  <2>1. PICK f : Totals(none, f) /\ CharsIn(none) = f[Len(none)]  BY <1>2, CharsAreTotals
  <2>2. QED  BY <2>1, <1>2 DEF Totals
<1>8. LastAt(none, 0, 1) = 0
  <2>1. AtDepth(none, 0, 1) = {}  BY DEF AtDepth
  <2>2. QED  BY <2>1 DEF LastAt
<1>9. AncestorIs(none, 0, doc)
  <2>1. Inside(none, 0) = {}  BY <1>2 DEF Inside
  <2>2. KindAt(none, 0) = "doc"  BY DEF KindAt
  <2>3. doc.kind = "doc" /\ doc.filled = FALSE /\ doc.inked = FALSE  BY <1>3 DEF Opened
  <2>4. QED  BY <2>1, <2>2, <2>3 DEF AncestorIs
<1>10. AncestorsAre(none, ancestors)
  <2>1. SUFFICES ASSUME NEW l \in 1..1
                 PROVE  /\ l = 1 <=> LastAt(none, 0, l) = 0
                        /\ AncestorIs(none, LastAt(none, 0, l), ancestors[l])
    BY <1>2, <1>5 DEF AncestorsAre
  <2>2. l = 1  OBVIOUS
  <2>3. QED  BY <2>2, <1>5, <1>8, <1>9
<1>11. AllAllowed(none, ExtrasOf(from)) /\ LeftHaveContent(none, Len(ancestors))
  <2>1. 1..Len(none) = {}  BY <1>2
  <2>2. QED  BY <2>1 DEF AllAllowed, LeftHaveContent
<1>12. nodeCount = Len(none) + 1 /\ nodeCount <= MaxNodes
  <2>1. MaxNodes \in Nat /\ MaxNodes # 0  BY RichTextAssumption
  <2>2. nodeCount = 1  BY DEF RichTextInit
  <2>3. QED  BY <2>1, <2>2, <1>2
<1>13. textChars = CharsIn(none) /\ textChars <= MaxChars
  <2>1. MaxChars \in Nat  BY RichTextAssumption
  <2>2. textChars = 0  BY DEF RichTextInit
  <2>3. QED  BY <2>1, <2>2, <1>7
<1>14. ExactHere  BY <1>2, <1>10, <1>11, <1>12, <1>13 DEF ExactHere, Exact
<1>15. KeptHere
  <2>1. 1..Len(none) = {}  BY <1>2
  <2>2. QED  BY <2>1, <1>2 DEF KeptHere, KeptAre
<1>16. complaint = FALSE /\ parsed = "reading"  BY DEF RichTextInit
<1>17. QED  BY <1>6, <1>14, <1>15, <1>16 DEF ProseInv, ProseIsKept

(* Whatever the owner does, the page keeps the structure that is published,  *)
(* the inspector its block, and Undo the one block that was deleted          *)
(* (document-ops.ts and the hook that applies it).                           *)
THEOREM DocumentIsKept ==
  DocumentSpec => [](OnlyFieldsCanBeWrong /\ SelectionIsOnThePage) /\ DocumentKeepsBlocks
<1>1. DocumentInit => DocumentInv  BY DocumentStart
<1>2. DocumentInv /\ [DocumentNext]_documentVars => DocumentInv' /\ [NothingVanishes]_documentVars
  BY DocumentStep
<1>3. DocumentInv => OnlyFieldsCanBeWrong /\ SelectionIsOnThePage
  BY GoodIsStructured DEF DocumentInv, DocumentFits, OnlyFieldsCanBeWrong
<1>4. QED  BY <1>1, <1>2, <1>3, PTL DEF DocumentSpec, DocumentKeepsBlocks

(* A value is taken exactly when it keeps every rule, and stored whole and   *)
(* in one form (parseRichTextDoc).                                           *)
THEOREM ProseStaysKept == RichTextSpec => []ProseIsKept
<1>1. RichTextInit => ProseInv  BY ProseStart
<1>2. ProseInv /\ [RichTextNext]_proseVars => ProseInv'  BY ProseStep
<1>3. ProseInv => ProseIsKept  BY DEF ProseInv
<1>4. QED  BY <1>1, <1>2, <1>3, PTL DEF RichTextSpec

(* The document of a member page is sound, its blocks and its rich text.     *)
THEOREM DocumentsAreSound == DocumentSpec /\ RichTextSpec => DocumentsSound
BY DocumentIsKept, ProseStaysKept, PTL DEF DocumentsSound
=============================================================================
