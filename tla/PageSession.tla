------------------------------ MODULE PageSession ------------------------------
(***************************************************************************)
(* An owner's editing session end to end: the editor of one tab            *)
(* (PageEditor), the stored page it edits (PageRegister, which MemberPage  *)
(* is shown to implement) and what is between them: the server actions of  *)
(* src/src/app/m/[member]/v2-actions.ts over a network that loses requests *)
(* and answers, another tab or an administrator at the same page, and a    *)
(* reload of the tab.                                                      *)
(*                                                                         *)
(* A fetch that fails may have been lost on the way there, on the way back *)
(* or only be late: the editor cannot tell, and a late request still takes *)
(* effect with nobody waiting for it (strays).  Server actions of one tab  *)
(* are dispatched one after another.  The effect replay of StrictMode and  *)
(* documents the server refuses are left to PageEditor.                    *)
(***************************************************************************)
EXTENDS PageEditor, FiniteSets

CONSTANTS
  NoRequest,
  MaxTrouble     \* bound on lost answers, reloads and what others do to the page

VARIABLES
  draft, rev, snapshot, public, token, held,   \* the stored page
  saving, calling,                             \* the tab's requests
  strays,                                      \* requests nobody waits for
  unseen,        \* observer: the row holds a draft the tab has not read, others'
                 \* or one that a request of its own left there unheard
  trouble

ServerRequests ==
  [kind : {"autosave", "publish", "unpublish", "reset"},
   doc : Docs \cup {NoDoc}, base : Nat,
   answer : {"none", "done", "conflict", "refused"},
   document : Docs \cup {NoDoc}, token : 0..MaxToken]

ASSUME SessionAssumption == NoRequest \notin ServerRequests

Page == INSTANCE PageRegister
page == <<draft, rev, snapshot, public, token, held>>
network == <<saving, calling, strays>>
sessionVars == <<vars, page, network, unseen, trouble>>

\* doc is what the request carries or, for a publish, what it is meant to publish.
Request(kind, doc, base) ==
  [kind |-> kind, doc |-> doc, base |-> base, answer |-> "none",
   document |-> NoDoc, token |-> 0]

SessionInit ==
  /\ token \in {0, 1}     \* never published, or public since the token's instant
  /\ Page!Init
  /\ public = (token = 1)
  /\ Init
  /\ document = draft /\ hasPublishedSnapshot = (snapshot # NoDoc) /\ isPublished = public
  /\ publicationToken = token
  /\ saving = NoRequest /\ calling = NoRequest /\ strays = {}
  /\ unseen = FALSE
  /\ trouble = 0

-----------------------------------------------------------------------------
(* Sending: a save when one comes to be in flight, a transition when the     *)
(* editor comes to be busy with it.                                          *)

SendSave == saving' = IF inFlight' = NoDoc THEN NoRequest
                      ELSE Request("autosave", inFlight', draftRev')
SendCall ==
  calling' = CASE busy' = "publish"   -> Request("publish", stored', draftRev')
               [] busy' = "unpublish" -> Request("unpublish", NoDoc, publicationToken')
               [] busy' = "reset"     -> Request("reset", NoDoc, draftRev')
               [] OTHER               -> NoRequest
KeepSave == IF inFlight' = inFlight THEN UNCHANGED saving ELSE SendSave
KeepCall == IF busy' = busy THEN UNCHANGED calling ELSE SendCall

TabActs ==
  /\ OwnerActs \/ TimerFires
  /\ KeepSave /\ KeepCall
  /\ UNCHANGED <<page, strays, unseen, trouble>>

-----------------------------------------------------------------------------
(* The server: a request takes effect if the revision, or the publication    *)
(* token, it was sent with is still the page's.                              *)

MindsTheTokenOnly(r) == r.kind = "unpublish" => r.base = token
Stands(r) == r.base = IF r.kind = "unpublish" THEN token ELSE rev

Outcome(r) ==
  IF ~Stands(r) THEN "conflict"
  ELSE IF \/ r.kind = "publish" /\ held
          \/ r.kind = "reset" /\ snapshot = NoDoc THEN "refused"
  ELSE "done"

Effect(r) ==
  \/ r.kind = "autosave" /\ Page!Save(r.doc)
  \/ r.kind = "publish" /\ Page!Publish
  \/ r.kind = "unpublish" /\ Page!Hide /\ held' = held
  \/ r.kind = "reset" /\ Page!Save(snapshot)

Handle(r) ==
  IF Outcome(r) = "done"
    THEN /\ Effect(r)
         /\ rev' <= MaxRev /\ token' <= MaxToken
    ELSE UNCHANGED page
Answered(r) == [r EXCEPT !.answer = Outcome(r), !.document = draft', !.token = token']

SaveArrives ==
  /\ saving # NoRequest /\ saving.answer = "none" /\ busy # "publish"
  /\ Handle(saving) /\ saving' = Answered(saving)
  /\ UNCHANGED <<vars, calling, strays, unseen, trouble>>

CallArrives ==
  /\ calling # NoRequest /\ calling.answer = "none"
  /\ Handle(calling) /\ calling' = Answered(calling)
  /\ UNCHANGED <<vars, saving, strays, unseen, trouble>>

StrayArrives ==
  \E r \in strays :
    /\ Handle(r) /\ strays' = strays \ {r}
    /\ unseen' = (unseen \/ (rev' # rev /\ draft' # document))
    /\ UNCHANGED <<vars, saving, calling, trouble>>

-----------------------------------------------------------------------------
(* What the editor hears: an answer, or that its request failed.             *)

SaveHears ==
  /\ saving # NoRequest /\ busy # "publish"
  /\ \/ /\ saving.answer = "done"
        /\ SaveAccepted(saving.base + 1) \/ SaveAcceptedBeforeReset(saving.base + 1)
     \/ /\ saving.answer = "conflict"
        /\ SaveConflicts \/ (SaveRefusedBeforeReset /\ restoreState' = "conflict")
  /\ SendSave /\ KeepCall
  /\ UNCHANGED <<page, strays, unseen, trouble>>

CallHears ==
  /\ calling # NoRequest
  /\ \/ /\ calling.answer = "done"
        /\ \/ PublishDone(calling.token)
           \/ UnpublishDone
           \/ ResetDone(calling.base + 1, calling.document)
     \/ /\ calling.answer = "conflict"
        /\ \/ PublishConflicts
           \/ calling.kind = "unpublish" /\ TransitionRefused
           \/ ResetConflicts
     \/ /\ calling.answer = "refused"
        /\ TransitionRefused \/ ResetFails
  /\ calling' = NoRequest /\ KeepSave
  /\ UNCHANGED <<page, strays, unseen, trouble>>

Trouble == trouble < MaxTrouble /\ trouble' = trouble + 1

\* A request whose answer is cut off had arrived, arrives later or never does.
Strays(r) == IF r # NoRequest /\ r.answer = "none" THEN {{}, {r}} ELSE {{}}
Cut(r) == Trouble /\ \E late \in Strays(r) : strays' = strays \cup late

SaveFailsToAnswer ==
  /\ saving # NoRequest /\ busy # "publish"
  /\ SaveFails \/ (SaveRefusedBeforeReset /\ restoreState' = "failed")
  /\ Cut(saving)
  /\ SendSave /\ KeepCall
  /\ UNCHANGED <<page, unseen>>

CallFailsToAnswer ==
  /\ calling # NoRequest
  /\ TransitionRefused \/ ResetFails
  /\ Cut(calling)
  /\ calling' = NoRequest /\ KeepSave
  /\ unseen' = (unseen \/ (calling.kind = "reset" /\ calling.answer = "done" /\ draft # document))
  /\ UNCHANGED page

-----------------------------------------------------------------------------
(* Everyone else. *)

Elsewhere ==
  /\ Trouble
  /\ \/ \E d \in Docs : Page!Save(d) /\ unseen' = TRUE
     \/ (Page!Publish \/ Page!Hide \/ Page!ClearHold) /\ UNCHANGED unseen
  /\ rev' <= MaxRev /\ token' <= MaxToken
  /\ UNCHANGED <<vars, network>>

\* The page is rendered again from the stored row (src/src/app/m/[member]/page.tsx).
Reload ==
  /\ Trouble
  /\ \E late \in Strays(saving), later \in Strays(calling) : strays' = strays \cup late \cup later
  /\ saving' = NoRequest /\ calling' = NoRequest
  /\ state' = "saved" /\ draftRev' = rev /\ document' = draft /\ stored' = draft
  /\ pending' = NoDoc /\ inFlight' = NoDoc /\ timer' = FALSE /\ paused' = FALSE
  /\ NoContext /\ busy' = "none"
  /\ isPublished' = public /\ publicationToken' = token
  /\ hasPublishedSnapshot' = (snapshot # NoDoc)
  /\ unseen' = FALSE
  /\ UNCHANGED page

SessionNext ==
  \/ TabActs
  \/ SaveArrives
  \/ CallArrives
  \/ StrayArrives
  \/ SaveHears
  \/ CallHears
  \/ SaveFailsToAnswer
  \/ CallFailsToAnswer
  \/ Elsewhere
  \/ Reload

SessionSpec == SessionInit /\ [][SessionNext]_sessionVars

-----------------------------------------------------------------------------
(* "Saved" is true of the stored draft: it is the document on screen, unless *)
(* someone else wrote it since, or a reset (or a save from before a reload)  *)
(* took effect with nobody told: restoreAfterResetFailure then says "saved"  *)
(* of the document it brings back.                                           *)
SavedIsTrue == state = "saved" /\ ~resetting => draft = document \/ unseen

(* A draft this tab has not read, be it others' or what its own lost reset   *)
(* restored, is replaced by nothing the tab sends, in time or late: it stays *)
(* until others write, and the tab goes on only from what it has then read.  *)
UnseenDraftsAreKept ==
  [][unseen => /\ rev' = rev \/ trouble' # trouble
               /\ unseen' \/ document' = draft']_sessionVars

(* A page goes live as the owner of the tab last saw it saved, or by someone *)
(* else's hand.                                                              *)
Requests == strays \cup ({saving, calling} \ {NoRequest})
LiveIsWhatWasShown ==
  [][token' # token => \/ trouble' # trouble
                       \/ \E r \in Requests : r.kind = "publish" /\ snapshot' = r.doc]_sessionVars

(* What the editor says of the stored page is so, and what the owner of the  *)
(* tab has not seen is neither overwritten nor made public by it.            *)
SessionsHonest == []SavedIsTrue /\ UnseenDraftsAreKept /\ LiveIsWhatWasShown
=============================================================================
