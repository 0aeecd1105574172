------------------------------ MODULE PageEditor ------------------------------
(***************************************************************************)
(* One mounted owner editor: AutosaveController                            *)
(* (src/components/member-page-editor/autosave-controller.ts) and the hook *)
(* that drives it (use-member-page-editor.ts).  The server is not modelled *)
(* here: a request is answered with any result the action types allow, or  *)
(* is lost, which the editor sees as a rejected promise.                   *)
(*                                                                         *)
(* JavaScript runs one task at a time and nothing but microtasks between a *)
(* promise's resolution and its continuation, so the code from one await   *)
(* to the next is one step, and so is a flush that resolves together with  *)
(* the publish that awaited it.                                            *)
(***************************************************************************)
EXTENDS Integers

CONSTANTS
  Docs,      \* member page documents
  NoDoc,     \* null
  MaxRev,    \* bound on the revisions the server answers with
  MaxToken,  \* bound on the publication tokens it answers with
  InOrder    \* TRUE: one tab's requests are answered in the order they were
             \* sent, by a server whose revisions only grow

ASSUME EditorAssumption ==
  /\ NoDoc \notin Docs
  /\ MaxRev \in Nat
  /\ MaxToken \in Nat \ {0}
  /\ InOrder \in BOOLEAN

VARIABLES
  state, draftRev, pending, inFlight, paused,
  timer,               \* the debounce timer is armed
  resetting,           \* #resetContext is not null, and then
  discarded,           \*   its discardedDocument
  restoreState,        \*   its restoreState
  document,            \* documentRef.current, what the owner sees
  busy,                \* the hook's busy kind, with publish and reset split
                       \* into the wait before their request and the request
  isPublished, publicationToken, hasPublishedSnapshot,
  stored               \* observer: the document the server last acknowledged

controller == <<state, draftRev, pending, inFlight, timer, paused,
                resetting, discarded, restoreState>>
publication == <<isPublished, publicationToken, hasPublishedSnapshot>>
vars == <<controller, document, busy, publication, stored>>

AutosaveState ==
  {"saved", "unsaved", "saving", "failed", "invalid", "conflict"}
ResetRestoreState == {"saved", "failed", "invalid", "conflict"}
Busy == {"none", "flush", "publish", "unpublish", "prepare", "reset"}

TypeOK ==
  /\ state \in AutosaveState
  /\ draftRev \in 0..MaxRev
  /\ pending \in Docs \cup {NoDoc}
  /\ inFlight \in Docs \cup {NoDoc}
  /\ timer \in BOOLEAN
  /\ paused \in BOOLEAN
  /\ resetting \in BOOLEAN
  /\ discarded \in Docs \cup {NoDoc}
  /\ restoreState \in ResetRestoreState
  /\ document \in Docs
  /\ busy \in Busy
  /\ isPublished \in BOOLEAN
  /\ publicationToken \in 0..MaxToken
  /\ hasPublishedSnapshot \in BOOLEAN
  /\ stored \in Docs

(* The editor as the page renders it; a page that never was public has       *)
(* neither a token nor a snapshot.                                           *)
Init ==
  /\ state = "saved"
  /\ draftRev = 0
  /\ pending = NoDoc
  /\ inFlight = NoDoc
  /\ timer = FALSE
  /\ paused = FALSE
  /\ resetting = FALSE
  /\ discarded = NoDoc
  /\ restoreState = "saved"
  /\ document \in Docs
  /\ stored = document
  /\ busy = "none"
  /\ hasPublishedSnapshot \in BOOLEAN
  /\ isPublished \in {FALSE, hasPublishedSnapshot}
  /\ publicationToken \in IF hasPublishedSnapshot THEN 0..MaxToken ELSE {0}

-----------------------------------------------------------------------------
(* Mistakes the controller could have made; each breaks a property.          *)

RestoreStateAsItIs(s) == s
OlderDocumentFirst == IF inFlight # NoDoc THEN inFlight ELSE pending
AnswerEveryFlush(ok) == busy' = IF busy = "flush" THEN "publish" ELSE busy
ForgetFailedFlush(ok) ==
  busy' = IF busy = "flush" /\ ok THEN "publish" ELSE busy
QueueAsUsual(d) ==
  /\ resetting
  /\ pending' = d /\ state' = "unsaved" /\ timer' = TRUE
  /\ UNCHANGED <<resetting, discarded, restoreState>>
NoTimerOnResume == FALSE
ResetKeepsWaiting ==
  /\ inFlight # NoDoc /\ resetting
  /\ inFlight' = NoDoc
  /\ UNCHANGED <<pending, timer, paused, resetting, document, busy, isPublished,
                 publicationToken, hasPublishedSnapshot>>

-----------------------------------------------------------------------------
(* AutosaveController: private helpers. *)

ResetRestore(s) ==
  IF s \in {"failed", "unsaved"} THEN "failed"
  ELSE IF s \in {"conflict", "invalid"} THEN s
  ELSE "saved"

(* #run with a document to send. *)
BeginSave(d) ==
  /\ inFlight' = d
  /\ pending' = NoDoc
  /\ state' = "saving"

(* #settleFlush: only a publish awaits its flush.  A flush that succeeded    *)
(* sends the publish; one that did not leaves the editor idle again.         *)
SettleFlush(ok) ==
  busy' = IF busy = "flush" THEN IF ok THEN "publish" ELSE "none" ELSE busy

(* The document kept for the owner when a save was not accepted. *)
NewestUnsaved == IF pending # NoDoc THEN pending ELSE inFlight

NoContext == resetting' = FALSE /\ discarded' = NoDoc /\ restoreState' = "saved"
SameContext == UNCHANGED <<resetting, discarded, restoreState>>

-----------------------------------------------------------------------------
(* AutosaveController: its public methods. *)

(* queue, called by every edit that changes the document. *)
QueueDuringReset(d) ==
  /\ resetting
  /\ discarded' = d
  /\ IF restoreState = "conflict"
       THEN UNCHANGED <<state, restoreState>>
       ELSE state' = "unsaved" /\ restoreState' = "failed"
  /\ UNCHANGED <<pending, timer, resetting>>

QueueInConflict(d) ==
  /\ ~resetting /\ state = "conflict"
  /\ pending' = d
  /\ SameContext /\ UNCHANGED <<state, timer>>

QueueEdit(d) ==
  /\ ~resetting /\ state # "conflict"
  /\ pending' = d
  /\ state' = IF state = "saving" THEN "saving" ELSE "unsaved"
  /\ timer' = ~paused
  /\ SameContext

Edit(d) ==
  /\ d # document
  /\ document' = d
  /\ QueueDuringReset(d) \/ QueueInConflict(d) \/ QueueEdit(d)
  /\ UNCHANGED <<draftRev, inFlight, paused, busy, publication, stored>>

(* The debounce timer: it runs the pending save, or answers the waiting      *)
(* flush when nothing is pending, unless a save is already in flight.        *)
TimerFires ==
  /\ timer
  /\ timer' = FALSE
  /\ \/ /\ inFlight # NoDoc
        /\ UNCHANGED <<state, pending, inFlight, busy>>
     \/ /\ inFlight = NoDoc /\ pending = NoDoc
        /\ SettleFlush(state # "failed")
        /\ UNCHANGED <<state, pending, inFlight>>
     \/ /\ inFlight = NoDoc /\ pending # NoDoc
        /\ BeginSave(pending)
        /\ UNCHANGED busy
  /\ SameContext
  /\ UNCHANGED <<draftRev, paused, document, publication, stored>>

(* flush in a state it does not refuse, with something still to be saved. *)
FlushPending ==
  /\ timer' = FALSE
  /\ IF inFlight = NoDoc
       THEN BeginSave(pending)
       ELSE UNCHANGED <<state, pending, inFlight>>

(* Publish first flushes.  With nothing to save the flush answers at once,   *)
(* and a conflict or a refused document blocks the publish without a step.   *)
PressPublish ==
  /\ busy = "none"
  /\ state \notin {"failed", "conflict", "invalid"}
  /\ IF pending = NoDoc /\ inFlight = NoDoc
       THEN /\ busy' = "publish"
            /\ timer' = FALSE
            /\ UNCHANGED <<state, pending, inFlight>>
       ELSE /\ busy' = "flush"
            /\ FlushPending
  /\ SameContext
  /\ UNCHANGED <<draftRev, paused, document, publication, stored>>

(* retry, offered while the state is "failed" whatever the editor is busy    *)
(* with.                                                                     *)
PressRetry ==
  /\ state = "failed"
  /\ IF pending = NoDoc
       THEN /\ state' = "saved"
            /\ UNCHANGED <<pending, inFlight, timer>>
       ELSE FlushPending
  /\ SameContext
  /\ UNCHANGED <<draftRev, paused, document, busy, publication, stored>>

PressUnpublish ==
  /\ busy = "none" /\ isPublished
  /\ busy' = "unpublish"
  /\ UNCHANGED <<controller, document, publication, stored>>

(* reset, confirmed: prepareForReset discards the queued work and waits only *)
(* for a save that is already in flight.                                     *)
PressReset ==
  /\ busy = "none" /\ hasPublishedSnapshot
  /\ busy' = IF inFlight = NoDoc THEN "reset" ELSE "prepare"
  /\ timer' = FALSE
  /\ resetting' = TRUE
  /\ discarded' = pending
  /\ restoreState' = ResetRestore(state)
  /\ pending' = NoDoc
  /\ UNCHANGED <<state, draftRev, inFlight, paused, document, publication,
                 stored>>

(* pause and resume, the effect's cleanup and set-up. *)
Pause ==
  /\ ~paused
  /\ paused' = TRUE
  /\ timer' = FALSE
  /\ SameContext
  /\ UNCHANGED <<state, draftRev, pending, inFlight, document, busy,
                 publication, stored>>

TimerOnResume ==
  /\ pending # NoDoc /\ inFlight = NoDoc
  /\ state \notin {"conflict", "invalid"}

Resume ==
  /\ paused
  /\ paused' = FALSE
  /\ timer' = TimerOnResume
  /\ SameContext
  /\ UNCHANGED <<state, draftRev, pending, inFlight, document, busy,
                 publication, stored>>

-----------------------------------------------------------------------------
(* Answers to the autosave request, outside a reset. *)

(* A newer document arrived while this one was in flight: it goes next,      *)
(* unless no editor is on screen to save for.                                *)
SaveNewer ==
  /\ pending # NoDoc
  /\ IF paused
       THEN /\ state' = "unsaved"
            /\ inFlight' = NoDoc
            /\ UNCHANGED pending
       ELSE BeginSave(pending)
  /\ UNCHANGED <<timer, busy>>

SaveAccepted(rev) ==
  /\ inFlight # NoDoc /\ ~resetting
  /\ draftRev' = rev
  /\ stored' = inFlight
  /\ \/ SaveNewer
     \/ /\ pending = NoDoc
        /\ state' = "saved"
        /\ inFlight' = NoDoc
        /\ SettleFlush(TRUE)
        /\ UNCHANGED <<pending, timer>>
  /\ SameContext
  /\ UNCHANGED <<paused, document, publication>>

SaveConflicts ==
  /\ inFlight # NoDoc /\ ~resetting
  /\ pending' = NewestUnsaved
  /\ inFlight' = NoDoc
  /\ state' = "conflict"
  /\ timer' = FALSE
  /\ SettleFlush(FALSE)
  /\ SameContext
  /\ UNCHANGED <<draftRev, paused, document, publication, stored>>

(* The refusal is about the document in flight, not about a newer one. *)
SaveInvalid ==
  /\ inFlight # NoDoc /\ ~resetting
  /\ \/ SaveNewer
     \/ /\ pending = NoDoc
        /\ pending' = inFlight
        /\ inFlight' = NoDoc
        /\ state' = "invalid"
        /\ timer' = FALSE
        /\ SettleFlush(FALSE)
  /\ SameContext
  /\ UNCHANGED <<draftRev, paused, document, publication, stored>>

SaveFails ==
  /\ inFlight # NoDoc /\ ~resetting
  /\ pending' = NewestUnsaved
  /\ inFlight' = NoDoc
  /\ state' = "failed"
  /\ SettleFlush(FALSE)
  /\ SameContext
  /\ UNCHANGED <<draftRev, timer, paused, document, publication, stored>>

-----------------------------------------------------------------------------
(* Answers to the autosave request that a reset is waiting for; the reset    *)
(* request is sent in the same step.                                         *)

SaveBeforeReset ==
  /\ inFlight # NoDoc /\ resetting
  /\ inFlight' = NoDoc
  /\ busy' = "reset"
  /\ UNCHANGED <<pending, timer, paused, resetting, document, publication>>

SaveAcceptedBeforeReset(rev) ==
  /\ SaveBeforeReset
  /\ draftRev' = rev
  /\ stored' = inFlight
  /\ UNCHANGED discarded
  /\ \/ /\ discarded = NoDoc
        /\ restoreState' = "saved" /\ state' = "saved"
     \/ /\ discarded # NoDoc /\ restoreState # "conflict"
        /\ restoreState' = "failed" /\ state' = "failed"
     \/ /\ discarded # NoDoc /\ restoreState = "conflict"
        /\ UNCHANGED <<restoreState, state>>

SaveRefusedBeforeReset ==
  /\ SaveBeforeReset
  /\ discarded' = IF discarded # NoDoc THEN discarded ELSE inFlight
  /\ \E result \in {"conflict", "invalid", "failed"} :
       restoreState' = result /\ state' = result
  /\ UNCHANGED <<draftRev, stored>>

-----------------------------------------------------------------------------
(* Answers to publish, unpublish and reset. *)

PublishDone(token) ==
  /\ busy = "publish"
  /\ busy' = "none"
  /\ isPublished' = TRUE
  /\ hasPublishedSnapshot' = TRUE
  /\ publicationToken' = token
  /\ UNCHANGED <<controller, document, stored>>

(* markConflict with the document on screen. *)
PublishConflicts ==
  /\ busy = "publish"
  /\ busy' = "none"
  /\ timer' = FALSE
  /\ pending' = document
  /\ state' = "conflict"
  /\ SameContext
  /\ UNCHANGED <<draftRev, inFlight, paused, document, publication, stored>>

UnpublishDone ==
  /\ busy = "unpublish"
  /\ busy' = "none"
  /\ isPublished' = FALSE
  /\ publicationToken' = 0
  /\ UNCHANGED <<controller, document, hasPublishedSnapshot, stored>>

(* Any other answer to publish or unpublish, or none: only a message. *)
TransitionRefused ==
  /\ busy \in {"publish", "unpublish"}
  /\ busy' = "none"
  /\ UNCHANGED <<controller, document, publication, stored>>

(* acceptServerDocument: the editor adopts the snapshot. *)
ResetDone(rev, d) ==
  /\ busy = "reset"
  /\ busy' = "none"
  /\ document' = d
  /\ stored' = d
  /\ draftRev' = rev
  /\ state' = "saved"
  /\ pending' = NoDoc
  /\ timer' = FALSE
  /\ NoContext
  /\ UNCHANGED <<inFlight, paused, publication>>

(* restoreAfterResetFailure. *)
RestoreAs(s) ==
  /\ timer' = FALSE
  /\ NoContext
  /\ \/ /\ s = "saved" /\ discarded = NoDoc
        /\ pending' = NoDoc
        /\ state' = "saved"
     \/ /\ s # "saved" \/ discarded # NoDoc
        /\ pending' = document
        /\ state' = IF s = "saved" THEN "failed" ELSE s

ResetNotDone ==
  /\ busy = "reset"
  /\ busy' = "none"
  /\ UNCHANGED <<draftRev, inFlight, paused, document, publication, stored>>

ResetFails == ResetNotDone /\ RestoreAs(restoreState)
ResetConflicts == ResetNotDone /\ RestoreAs("conflict")

-----------------------------------------------------------------------------
(* A save sent behind a publish is answered after it, and is not accepted    *)
(* once that publish has found its revision to be an old one.                *)
SaveAnswered ==
  /\ InOrder => busy # "publish"
  /\ \/ /\ InOrder => state # "conflict"
        /\ \E rev \in (draftRev + 1)..MaxRev : SaveAccepted(rev)
     \/ SaveConflicts
     \/ SaveInvalid
     \/ SaveFails

SaveAnsweredBeforeReset ==
  \/ \E rev \in (draftRev + 1)..MaxRev : SaveAcceptedBeforeReset(rev)
  \/ SaveRefusedBeforeReset

TransitionAnswered ==
  \/ \E token \in 1..MaxToken : PublishDone(token)
  \/ PublishConflicts
  \/ UnpublishDone
  \/ TransitionRefused
  \/ \E rev \in (draftRev + 1)..MaxRev, d \in Docs : ResetDone(rev, d)
  \/ ResetConflicts
  \/ ResetFails

OwnerActs ==
  \/ \E d \in Docs : Edit(d)
  \/ PressPublish
  \/ PressRetry
  \/ PressUnpublish
  \/ PressReset

Next ==
  \/ OwnerActs
  \/ TimerFires
  \/ Pause
  \/ Resume
  \/ SaveAnswered
  \/ SaveAnsweredBeforeReset
  \/ TransitionAnswered

(* A browser settles every fetch and fires every timer; React follows the    *)
(* cleanup of an effect it replays by its set-up.  The owner owes nothing.   *)
Fairness ==
  /\ WF_vars(TimerFires)
  /\ WF_vars(Resume)
  /\ WF_vars(SaveAnswered \/ SaveAnsweredBeforeReset)
  /\ WF_vars(TransitionAnswered)

Spec == Init /\ [][Next]_vars /\ Fairness

-----------------------------------------------------------------------------
(* The document on screen is never lost by the controller: it is the newest  *)
(* of what a reset set aside, what waits to be sent, what is in flight and   *)
(* what the server acknowledged, through coalescing, failures, conflicts,    *)
(* pauses and resets that do not land.                                       *)
EditsAccountedFor ==
  document = IF discarded # NoDoc THEN discarded
             ELSE IF pending # NoDoc THEN pending
             ELSE IF inFlight # NoDoc THEN inFlight
             ELSE stored

(* An edit that waits to be saved has something that will save it, the timer *)
(* or the answer to the save in flight, whatever pauses and flushes cleared  *)
(* the timer before.                                                         *)
NoEditStranded ==
  state = "unsaved" /\ ~paused /\ ~resetting => timer \/ inFlight # NoDoc

(* A publish is sent only when the document on screen is the one the server  *)
(* acknowledged: a flush never answers true with an edit behind it.          *)
PublishesWhatTheOwnerSees ==
  [][busy' = "publish" /\ busy # "publish" => document' = stored']_vars

(* Reset owns the request ordering: from the moment it is confirmed until it *)
(* is answered no autosave starts ahead of it, and it is sent only when none *)
(* is in flight.                                                             *)
ResetOwnsTheOrder ==
  [][/\ resetting => inFlight' \in {inFlight, NoDoc}
     /\ busy' = "reset" => inFlight' = NoDoc]_vars

(* Once the owner stops typing and the tree stops being remounted, every     *)
(* edit comes to rest, saved or with a reason it is not, and every publish   *)
(* that awaits a flush hears from it.                                        *)
Working == state \in {"unsaved", "saving"} \/ busy = "flush"
WorkSettles ==
  \/ []<><<\E d \in Docs : Edit(d)>>_vars
  \/ []<><<Pause>>_vars
  \/ Working ~> ~Working

(* A reset is answered even by an owner who never stops typing.              *)
ResetAlwaysEnds == busy = "prepare" ~> busy = "none"

(* "A conflict stops all automatic saving" (autosave-controller.ts:12-13):   *)
(* no save starts in the conflict state.                                     *)
ConflictStopsSaving ==
  [][state = "conflict" => inFlight' \in {inFlight, NoDoc}]_vars

(* shouldWarnBeforeUnload is "True when navigating away would lose work"     *)
(* (autosave-controller.ts:66-67).                                           *)
ShouldWarnBeforeUnload ==
  \/ state \in {"conflict", "failed", "invalid", "unsaved"}
  \/ pending # NoDoc
  \/ inFlight # NoDoc
WarnsBeforeLosingWork == document # stored => ShouldWarnBeforeUnload
=============================================================================
