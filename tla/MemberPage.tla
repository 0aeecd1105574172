------------------------------ MODULE MemberPage ------------------------------
(***************************************************************************)
(* One row of public.member_pages and the server operations that write it: *)
(* the V2 data layer (src/lib/members/v2/dal.ts), moderation               *)
(* (src/lib/members/v2/moderation.ts) and the legacy data layer            *)
(* (src/lib/members/dal.ts).                                               *)
(*                                                                         *)
(* Every SQL statement is one step: a statement locks the page row before  *)
(* it decides anything.  An operation that sends two statements (publish,  *)
(* reset, the legacy writes) takes two steps, and any other call may run   *)
(* between them.  A call is first sent, with the revision or publication   *)
(* token its sender had seen, and may be executed arbitrarily later.       *)
(***************************************************************************)
EXTENDS Integers, Sequences

CONSTANTS
  Docs,           \* member page documents that pass parseMemberPageDocumentV2
  NoDoc,          \* SQL NULL in published_doc
  Accounts,       \* verified accounts
  Nobody,         \* no account
  Assets,         \* asset rows of this page
  Calls,          \* identities of concurrent server calls
  Refs,           \* Refs[d]: the asset ids extractMemberPageAssetIds finds in d
  Theme,          \* Theme[d]: the theme and accent pair of d
  Retired,        \* pairs that may be kept but no longer chosen
  LegacyDocs,     \* documents the legacy editor can represent
  RateLimit,      \* RateLimit[a]: attempts per window of the limited action a
  MaxRev,         \* bound on draft_rev
  MaxToken,       \* bound on the instants of publications
  DrainedRollout  \* TRUE: a rollout change waits until no call is in flight

Limited == {"autosave", "publish"}

ASSUME PageAssumption ==
  /\ NoDoc \notin Docs
  /\ Nobody \notin Accounts
  /\ LegacyDocs \subseteq Docs
  /\ Refs \in [Docs -> SUBSET Assets]
  /\ \A d \in LegacyDocs : Theme[d] \notin Retired
  /\ RateLimit \in [Limited -> Nat \ {0}]
  /\ MaxRev \in Nat
  /\ MaxToken \in Nat \ {0}
  /\ DrainedRollout \in BOOLEAN

VARIABLES
  draft_doc, draft_rev,        \* the private draft and its revision, counted
                               \* from the first modelled state
  published_doc,               \* the public snapshot, or NoDoc
  is_published,
  published_at,                \* the publication token: 0 is NULL, otherwise
                               \* the instant NOW() gave the publication
  publications,                \* observer: the tokens there have been, in the
                               \* order the publications took effect
  unpublished_at,              \* whether the column is non-NULL
  moderation_hold,
  owner,                       \* owner_account_id
  attempt_count,               \* member_page_mutation_rate_limits
  asset,                       \* asset[a]: "absent", "ready", "claimed" (hidden
                               \* for deletion) or "failed" (serving found the
                               \* stored object missing or changed)
  cohort,                      \* the slug is in the V2 editor's allowlist
  calls                        \* the server calls in flight

row == <<draft_doc, draft_rev, published_doc, is_published, published_at,
         publications, unpublished_at, moderation_hold, owner>>
vars == <<row, attempt_count, asset, cohort, calls>>

V2Ops == {"autosave", "publish", "unpublish", "reset"}
LegacyOps == {"legacy-update", "legacy-publish", "legacy-unpublish"}
Outcomes == {"none", "success", "conflict", "invalid", "hold", "rate-limit",
             "not-found-or-forbidden", "no-snapshot"}

(* want and past are observers' fields.  want is the document the sender of  *)
(* a publish or a reset had before it when it named the revision.  past is   *)
(* how many publications there had been when a publish read the page in an   *)
(* earlier statement, or when the sender of an unpublish did.                *)
Call == [phase : {"idle", "sent", "read", "replied"},
         op : {"none"} \cup V2Ops \cup LegacyOps,
         account : Accounts \cup {Nobody},
         rev : Nat, token : Nat, doc : Docs \cup {NoDoc}, outcome : Outcomes,
         want : Docs \cup {NoDoc}, past : Nat]

IdleCall == [phase |-> "idle", op |-> "none", account |-> Nobody,
             rev |-> 0, token |-> 0, doc |-> NoDoc, outcome |-> "none",
             want |-> NoDoc, past |-> 0]

(* The document of the request, or the one the first statement read. *)
CarriesDoc(call) ==
  \/ call.op = "autosave" /\ call.phase = "sent"
  \/ call.op \in {"publish", "reset", "legacy-update"} /\ call.phase = "read"

TypeOK ==
  /\ draft_doc \in Docs
  /\ draft_rev \in 0..MaxRev
  /\ published_doc \in Docs \cup {NoDoc}
  /\ is_published \in BOOLEAN
  /\ published_at \in 0..MaxToken
  /\ publications \in Seq(1..MaxToken)
  /\ unpublished_at \in BOOLEAN
  /\ moderation_hold \in BOOLEAN
  /\ owner \in Accounts
  /\ attempt_count \in [Limited -> Nat]
  /\ \A a \in Limited : attempt_count[a] <= RateLimit[a]
  /\ asset \in [Assets -> {"absent", "ready", "claimed", "failed"}]
  /\ cohort \in BOOLEAN
  /\ calls \in [Calls -> Call]
  /\ \A c \in Calls : CarriesDoc(calls[c]) => calls[c].doc \in Docs

-----------------------------------------------------------------------------
(***************************************************************************)
(* The row as createMemberPage inserts it, published or not, or as         *)
(* migration 0007 left a legacy page: published, with published_at NULL;   *)
(* or a page the V2 editor saved before its theme pair was retired.        *)
(***************************************************************************)
Init ==
  /\ draft_doc \in {d \in Docs : Refs[d] = {}}
  /\ draft_doc \in LegacyDocs \/ Theme[draft_doc] \in Retired
  /\ draft_rev = 0
  /\ is_published \in BOOLEAN
  /\ cohort \in BOOLEAN
  /\ published_at \in IF is_published THEN {0, 1} ELSE {0}
  /\ publications = IF published_at = 0 THEN <<>> ELSE <<published_at>>
  /\ published_doc = IF is_published THEN draft_doc ELSE NoDoc
  /\ unpublished_at = FALSE
  /\ moderation_hold = FALSE
  /\ owner \in Accounts
  /\ attempt_count = [a \in Limited |-> 0]
  /\ asset = [a \in Assets |-> "absent"]
  /\ calls = [c \in Calls |-> IdleCall]

-----------------------------------------------------------------------------
(* Mistakes these operations could have made; each breaks a property.        *)

BothEditorsOpen(op) == op \in V2Ops => cohort
OneAttemptTooMany(a) == attempt_count[a] <= RateLimit[a]
FirstPublicationDate(c) ==
  IF published_at = 0 THEN 1..MaxToken ELSE {published_at}
AnyThemeAccepted(d) == TRUE
OverwriteWithoutRevision(d) ==
  draft_rev < MaxRev /\ draft_doc' = d /\ draft_rev' = draft_rev
OnlyDraftRepresentable == draft_doc \in LegacyDocs

-----------------------------------------------------------------------------
(* Calls and their replies. *)

(* The slug's cohort decides which of the two editors may write its page. *)
EditorOpen(op) ==
  /\ op \in V2Ops => cohort
  /\ op \in LegacyOps => ~cohort

(* A caller presents a revision and a token some earlier read returned. *)
Send(c, op, who, rev, token, doc, want, past) ==
  /\ calls[c].phase = "idle"
  /\ EditorOpen(op)
  /\ calls' = [calls EXCEPT ![c] =
       [phase |-> "sent", op |-> op, account |-> who, rev |-> rev,
        token |-> token, doc |-> doc, outcome |-> "none", want |-> want,
        past |-> past]]
  /\ UNCHANGED <<row, attempt_count, asset, cohort>>

Seen(rev) == IF rev = draft_rev THEN draft_doc ELSE NoDoc
TokenOf(k) == IF k = 0 THEN 0 ELSE publications[k]

SendAutosave(c) == \E who \in Accounts, rev \in 0..draft_rev, doc \in Docs :
  Send(c, "autosave", who, rev, 0, doc, NoDoc, 0)
SendPublish(c) == \E who \in Accounts, rev \in 0..draft_rev :
  Send(c, "publish", who, rev, 0, NoDoc, Seen(rev), 0)
SendReset(c) == \E who \in Accounts, rev \in 0..draft_rev :
  Send(c, "reset", who, rev, 0, NoDoc, Seen(rev), 0)
SendUnpublish(c) == \E who \in Accounts, k \in 0..Len(publications) :
  Send(c, "unpublish", who, 0, TokenOf(k), NoDoc, NoDoc, k)
SendLegacyUpdate(c) == \E who \in Accounts :
  Send(c, "legacy-update", who, 0, 0, NoDoc, NoDoc, 0)
SendLegacyPublication(c) == \E op \in {"legacy-publish", "legacy-unpublish"} :
  Send(c, op, Nobody, 0, 0, NoDoc, NoDoc, 0)

(* What a reply carries beside its outcome is its receiver's business. *)
Reply(c, outcome) ==
  calls' = [calls EXCEPT ![c] =
    [IdleCall EXCEPT !.phase = "replied", !.outcome = outcome]]

Refuse(c, outcome) ==
  /\ Reply(c, outcome)
  /\ UNCHANGED <<row, asset, cohort>>

(* The first statement read document d; the second is yet to run. *)
Remember(c, d) ==
  calls' = [calls EXCEPT ![c] =
    [@ EXCEPT !.phase = "read", !.doc = d, !.past = Len(publications)]]

Receive(c) ==
  /\ calls[c].phase = "replied"
  /\ calls' = [calls EXCEPT ![c] = IdleCall]
  /\ UNCHANGED <<row, attempt_count, asset, cohort>>

Owned(c) == owner = calls[c].account
Running(c, op, phase) == calls[c].op = op /\ calls[c].phase = phase

(* The attempt is counted in the statement that spends it, whatever that   *)
(* statement then decides; a refused attempt is not counted.               *)
WithinRate(a) == attempt_count[a] < RateLimit[a]
CountAttempt(a) == attempt_count' = [attempt_count EXCEPT ![a] = @ + 1]

AssetsReady(d) == \A a \in Refs[d] : asset[a] = "ready"

(* A retired pair is accepted only when the stored draft already has it. *)
ThemeAccepted(d) == Theme[d] \in Retired => Theme[d] = Theme[draft_doc]

(* published_at = NOW(): the instant the statement began, later than every    *)
(* publication the call has read of but, as the statement then waits for the *)
(* page's lock, not than those it waited for.  No two begin at one instant.  *)
Instants(c) == {t \in 1..MaxToken :
  /\ \A k \in 1..Len(publications) : publications[k] # t
  /\ \A k \in 1..calls[c].past : publications[k] < t}

PublishAt(c) == \E t \in Instants(c) :
  published_at' = t /\ publications' = Append(publications, t)

WriteDraft(d) ==
  /\ draft_rev < MaxRev
  /\ draft_doc' = d
  /\ draft_rev' = draft_rev + 1

-----------------------------------------------------------------------------
(* The V2 operations. *)

AutosaveOutcome(c) ==
  IF ~Owned(c) THEN "not-found-or-forbidden"
  ELSE IF ~WithinRate("autosave") THEN "rate-limit"
  ELSE IF calls[c].rev # draft_rev THEN "conflict"
  ELSE IF ~ThemeAccepted(calls[c].doc) \/ ~AssetsReady(calls[c].doc)
    THEN "invalid"
  ELSE "success"

(* autosaveOwnedMemberPageDraftV2: one statement. *)
Autosave(c) ==
  /\ Running(c, "autosave", "sent")
  /\ LET outcome == AutosaveOutcome(c) IN
     /\ IF outcome \in {"not-found-or-forbidden", "rate-limit"}
          THEN UNCHANGED attempt_count
          ELSE CountAttempt("autosave")
     /\ IF outcome = "success"
          THEN /\ WriteDraft(calls[c].doc)
               /\ Reply(c, outcome)
               /\ UNCHANGED <<published_doc, is_published, published_at,
                              publications, unpublished_at, moderation_hold,
                              owner, asset, cohort>>
          ELSE Refuse(c, outcome)

PublishReadOutcome(c) ==
  IF ~Owned(c) THEN "not-found-or-forbidden"
  ELSE IF ~WithinRate("publish") THEN "rate-limit"
  ELSE IF calls[c].rev # draft_rev THEN "conflict"
  ELSE IF moderation_hold THEN "hold"
  ELSE "success"

(* publishOwnedMemberPageV2, first statement: spend the rate, read the draft. *)
PublishRead(c) ==
  /\ Running(c, "publish", "sent")
  /\ LET outcome == PublishReadOutcome(c) IN
     /\ IF outcome \in {"not-found-or-forbidden", "rate-limit"}
          THEN UNCHANGED attempt_count
          ELSE CountAttempt("publish")
     /\ IF outcome = "success"
          THEN /\ Remember(c, draft_doc)
               /\ UNCHANGED <<row, asset, cohort>>
          ELSE Refuse(c, outcome)

(* Two mistakes: the second statement trusts the hold the first one read, or *)
(* the revision and draft.                                                   *)
PublishThroughHold(c) ==
  IF ~Owned(c) THEN "not-found-or-forbidden"
  ELSE IF draft_rev # calls[c].rev \/ draft_doc # calls[c].doc THEN "conflict"
  ELSE "success"
PublishWhateverIsThere(c) ==
  IF ~Owned(c) THEN "not-found-or-forbidden"
  ELSE IF moderation_hold THEN "hold"
  ELSE "success"

PublishOutcome(c) ==
  IF ~Owned(c) THEN "not-found-or-forbidden"
  ELSE IF draft_rev # calls[c].rev \/ draft_doc # calls[c].doc THEN "conflict"
  ELSE IF moderation_hold THEN "hold"
  ELSE IF ~AssetsReady(calls[c].doc) THEN "invalid"
  ELSE "success"

(* publishOwnedMemberPageV2, second statement: the guarded update. *)
PublishCommit(c) ==
  /\ Running(c, "publish", "read")
  /\ UNCHANGED attempt_count
  /\ LET outcome == PublishOutcome(c) IN
     IF outcome = "success"
       THEN /\ published_doc' = draft_doc
            /\ is_published' = TRUE
            /\ PublishAt(c)
            /\ unpublished_at' = FALSE
            /\ Reply(c, outcome)
            /\ UNCHANGED <<draft_doc, draft_rev, moderation_hold, owner,
                           asset, cohort>>
       ELSE Refuse(c, outcome)

UnpublishOutcome(c) ==
  IF ~Owned(c) THEN "not-found-or-forbidden"
  ELSE IF published_at # calls[c].token THEN "conflict"
  ELSE "success"

(* unpublishOwnedMemberPageV2: one statement, guarded by the token only. *)
Unpublish(c) ==
  /\ Running(c, "unpublish", "sent")
  /\ UNCHANGED attempt_count
  /\ LET outcome == UnpublishOutcome(c) IN
     IF outcome = "success"
       THEN /\ is_published' = FALSE
            /\ unpublished_at' = TRUE
            /\ Reply(c, outcome)
            /\ UNCHANGED <<draft_doc, draft_rev, published_doc,
                           published_at, publications, moderation_hold,
                           owner, asset, cohort>>
       ELSE Refuse(c, outcome)

ResetReadOutcome(c) ==
  IF ~Owned(c) THEN "not-found-or-forbidden"
  ELSE IF calls[c].rev # draft_rev THEN "conflict"
  ELSE IF published_doc = NoDoc THEN "no-snapshot"
  ELSE "success"

(* resetOwnedMemberPageDraftV2, first statement: read the snapshot. *)
ResetRead(c) ==
  /\ Running(c, "reset", "sent")
  /\ UNCHANGED attempt_count
  /\ LET outcome == ResetReadOutcome(c) IN
     IF outcome = "success"
       THEN /\ Remember(c, published_doc)
            /\ UNCHANGED <<row, asset, cohort>>
       ELSE Refuse(c, outcome)

(* A mistake: the revision is left to the first statement. *)
ResetWhateverIsThere(c) ==
  IF ~Owned(c) THEN "not-found-or-forbidden"
  ELSE IF published_doc # calls[c].doc THEN "conflict"
  ELSE "success"

ResetOutcome(c) ==
  IF ~Owned(c) THEN "not-found-or-forbidden"
  ELSE IF draft_rev # calls[c].rev \/ published_doc # calls[c].doc
    THEN "conflict"
  ELSE "success"

(* resetOwnedMemberPageDraftV2, second statement: the guarded update.  It   *)
(* checks neither the theme nor the assets of the snapshot it restores.     *)
ResetCommit(c) ==
  /\ Running(c, "reset", "read")
  /\ UNCHANGED attempt_count
  /\ LET outcome == ResetOutcome(c) IN
     IF outcome = "success"
       THEN /\ WriteDraft(published_doc)
            /\ Reply(c, outcome)
            /\ UNCHANGED <<published_doc, is_published, published_at,
                           publications, unpublished_at, moderation_hold,
                           owner, asset, cohort>>
       ELSE Refuse(c, outcome)

-----------------------------------------------------------------------------
(* The legacy operations, refused for slugs of the V2 cohort. *)

(* Both documents a legacy save would overwrite must be representable. *)
LegacyMayOverwrite ==
  /\ draft_doc \in LegacyDocs
  /\ is_published => published_doc \in LegacyDocs

(* updateOwnedMemberPage, its read.  The document rebuilt from the form keeps *)
(* at most the artwork of the draft it read.                                  *)
LegacyUpdateRead(c) ==
  /\ Running(c, "legacy-update", "sent")
  /\ UNCHANGED attempt_count
  /\ IF ~Owned(c) THEN Refuse(c, "not-found-or-forbidden")
     ELSE IF ~LegacyMayOverwrite THEN Refuse(c, "invalid")
     ELSE /\ \E d \in LegacyDocs : Refs[d] \subseteq Refs[draft_doc]
                                 /\ Remember(c, d)
          /\ UNCHANGED <<row, asset, cohort>>

(* updateOwnedMemberPage, its write: guarded by the owner alone. *)
LegacyUpdateWrite(c) ==
  /\ Running(c, "legacy-update", "read")
  /\ UNCHANGED attempt_count
  /\ IF ~Owned(c) THEN Refuse(c, "not-found-or-forbidden")
     ELSE /\ WriteDraft(calls[c].doc)
          /\ published_doc' = IF is_published THEN calls[c].doc
                                              ELSE published_doc
          /\ Reply(c, "success")
          /\ UNCHANGED <<is_published, published_at, publications,
                         unpublished_at, moderation_hold, owner, asset,
                         cohort>>

(* setMemberPublication, its read. *)
LegacyPublicationRead(c) ==
  /\ \/ Running(c, "legacy-publish", "sent")
     \/ Running(c, "legacy-unpublish", "sent")
  /\ UNCHANGED attempt_count
  /\ IF /\ calls[c].op = "legacy-publish"
        /\ \/ moderation_hold
           \/ draft_doc \notin LegacyDocs
           \/ published_doc \in Docs \ LegacyDocs
       THEN Refuse(c, "invalid")
       ELSE Remember(c, NoDoc) /\ UNCHANGED <<row, asset, cohort>>

(* setMemberPublication(TRUE), its write.  The statement rebuilds a document *)
(* from the legacy columns and requires the draft to equal it; the columns   *)
(* are not modelled, so a representable draft whose artwork, if any, is a    *)
(* ready asset may match or not, and no other draft ever does.               *)
LegacyPublish(c) ==
  /\ Running(c, "legacy-publish", "read")
  /\ UNCHANGED attempt_count
  /\ \/ Refuse(c, "invalid")
     \/ /\ ~moderation_hold
        /\ draft_doc \in LegacyDocs /\ AssetsReady(draft_doc)
        /\ published_doc' = draft_doc
        /\ is_published' = TRUE
        /\ PublishAt(c)
        /\ unpublished_at' = FALSE
        /\ Reply(c, "success")
        /\ UNCHANGED <<draft_doc, draft_rev, moderation_hold, owner,
                       asset, cohort>>

(* setMemberPublication(FALSE), its write: guarded by nothing. *)
LegacyUnpublish(c) ==
  /\ Running(c, "legacy-unpublish", "read")
  /\ UNCHANGED attempt_count
  /\ is_published' = FALSE
  /\ unpublished_at' = TRUE
  /\ Reply(c, "success")
  /\ UNCHANGED <<draft_doc, draft_rev, published_doc, published_at,
                 publications, moderation_hold, owner, asset, cohort>>

-----------------------------------------------------------------------------
(* Administrators: one statement each. *)

TakeDownAndHold ==
  /\ is_published' = FALSE
  /\ moderation_hold' = TRUE
  /\ unpublished_at' = TRUE
  /\ UNCHANGED <<draft_doc, draft_rev, published_doc, published_at,
                 publications, owner, attempt_count, asset, cohort, calls>>

ClearModerationHold ==
  /\ moderation_hold
  /\ is_published' = FALSE
  /\ moderation_hold' = FALSE
  /\ UNCHANGED <<draft_doc, draft_rev, published_doc, published_at,
                 publications, unpublished_at, owner, attempt_count, asset,
                 cohort, calls>>

ReassignMemberPage ==
  /\ owner' \in Accounts
  /\ UNCHANGED <<draft_doc, draft_rev, published_doc, is_published,
                 published_at, publications, unpublished_at,
                 moderation_hold, attempt_count, asset, cohort, calls>>

-----------------------------------------------------------------------------
(* What surrounds the row. *)

(* The fixed window of a limited action has elapsed: the next attempt       *)
(* starts a new one.                                                        *)
WindowElapses(a) ==
  /\ attempt_count' = [attempt_count EXCEPT ![a] = 0]
  /\ UNCHANGED <<row, asset, cohort, calls>>

(* finalizeOwnedMemberPageAsset turns an upload into a usable asset; the    *)
(* asset operations belong to the V2 editor.                                *)
AssetBecomesReady(a) ==
  /\ cohort
  /\ asset[a] = "absent"
  /\ asset' = [asset EXCEPT ![a] = "ready"]
  /\ UNCHANGED <<row, attempt_count, cohort, calls>>

(* A mistake: only the draft is searched for references. *)
AssetIsClaimedUnlessDrafted(a) ==
  /\ cohort
  /\ asset[a] = "ready"
  /\ a \notin Refs[draft_doc]
  /\ asset' = [asset EXCEPT ![a] = "claimed"]
  /\ UNCHANGED <<row, attempt_count, cohort, calls>>

(* deleteOwnedMemberPageAsset locks the page row and claims the asset only  *)
(* if neither document refers to it.                                        *)
AssetIsClaimed(a) ==
  /\ cohort
  /\ asset[a] = "ready"
  /\ a \notin Refs[draft_doc]
  /\ published_doc # NoDoc => a \notin Refs[published_doc]
  /\ asset' = [asset EXCEPT ![a] = "claimed"]
  /\ UNCHANGED <<row, attempt_count, cohort, calls>>

(* claimServingFailure: a read found the stored object gone or replaced.    *)
(* It claims the row whatever refers to it, without locking the page.       *)
AssetFailsServing(a) ==
  /\ asset[a] = "ready"
  /\ asset' = [asset EXCEPT ![a] = "failed"]
  /\ UNCHANGED <<row, attempt_count, cohort, calls>>

(* A deployment moves the slug into or out of the V2 allowlist. *)
ChangeRollout ==
  /\ DrainedRollout => \A c \in Calls : calls[c].phase \in {"idle", "replied"}
  /\ cohort' = ~cohort
  /\ UNCHANGED <<row, attempt_count, asset, calls>>

-----------------------------------------------------------------------------
SendSome(c) ==
  \/ SendAutosave(c)
  \/ SendPublish(c)
  \/ SendUnpublish(c)
  \/ SendReset(c)
  \/ SendLegacyUpdate(c)
  \/ SendLegacyPublication(c)

V2Step(c) ==
  \/ Autosave(c)
  \/ PublishRead(c)
  \/ PublishCommit(c)
  \/ Unpublish(c)
  \/ ResetRead(c)
  \/ ResetCommit(c)

LegacyStep(c) ==
  \/ LegacyUpdateRead(c)
  \/ LegacyUpdateWrite(c)
  \/ LegacyPublicationRead(c)
  \/ LegacyPublish(c)
  \/ LegacyUnpublish(c)

AdminStep ==
  \/ TakeDownAndHold
  \/ ClearModerationHold
  \/ ReassignMemberPage

Surroundings ==
  \/ \E a \in Limited : WindowElapses(a)
  \/ \E a \in Assets : AssetBecomesReady(a)
  \/ \E a \in Assets : AssetIsClaimed(a)
  \/ \E a \in Assets : AssetFailsServing(a)
  \/ ChangeRollout

Next ==
  \/ \E c \in Calls : SendSome(c) \/ V2Step(c) \/ LegacyStep(c) \/ Receive(c)
  \/ AdminStep
  \/ Surroundings

Spec == Init /\ [][Next]_vars

-----------------------------------------------------------------------------
(* A page is public only with a snapshot to show, never while a moderation  *)
(* hold stands, and never marked as unpublished: the check constraints of   *)
(* migration 0007 hold after every statement, however publish, moderation   *)
(* and the legacy writes interleave between a publish's two statements.     *)
PublicationConsistent ==
  /\ is_published => published_doc # NoDoc
  /\ is_published => ~moderation_hold
  /\ is_published => ~unpublished_at
  /\ moderation_hold => unpublished_at

(* Whatever the draft or the public snapshot refers to is a ready, unclaimed *)
(* asset, unless serving has already found its object gone: autosave's and   *)
(* publish's checks, delete's reference check, and the absence of a check in *)
(* reset and in the legacy writes together never leave a dangling reference. *)
ReferencedAssetsUsable ==
  \A d \in {draft_doc, published_doc} \ {NoDoc} : \A a \in Refs[d] :
    asset[a] \in {"ready", "failed"}

(* What a call in flight still knows when its next statement runs: a publish *)
(* or reset that names the current revision was sent by someone looking at   *)
(* the current draft; a legacy save between its read and its write holds a   *)
(* representable document with usable artwork, and the documents it is about *)
(* to overwrite are still representable.                                     *)
SenderSawDraft(c) ==
  calls[c].op \in {"publish", "reset"} /\ calls[c].phase \in {"sent", "read"} =>
    /\ calls[c].rev <= draft_rev
    /\ calls[c].rev = draft_rev => calls[c].want = draft_doc

LegacySaveStillApplies(c) ==
  Running(c, "legacy-update", "read") =>
    /\ calls[c].doc \in LegacyDocs
    /\ \A a \in Refs[calls[c].doc] : asset[a] \in {"ready", "failed"}
    /\ draft_doc \in LegacyDocs
    /\ is_published => published_doc \in LegacyDocs

CallsStillInformed ==
  \A c \in Calls : SenderSawDraft(c) /\ LegacySaveStillApplies(c)

(* A revision number names one document for ever: every writer of draft_doc  *)
(* moves draft_rev on, and none ever moves it back, so a client that holds   *)
(* the current number holds the current document (dal.ts and members/dal.ts).*)
RevisionNamesOneDraft ==
  [][/\ draft_rev' >= draft_rev
     /\ draft_doc' # draft_doc => draft_rev' > draft_rev]_vars

(* The document a publish makes public is the one its expected revision      *)
(* named when the owner pressed publish, although the statement copies       *)
(* whatever draft_doc holds when it runs.                                    *)
PublishShipsExpectedRevision ==
  [][\A c \in Calls :
       /\ Running(c, "publish", "read")
       /\ calls'[c].outcome = "success"
       => published_doc' = calls[c].want]_vars

(* An unpublish takes down the publication its sender saw, never a later     *)
(* one, though a later token may be the smaller; and a reset replaces only   *)
(* the draft its sender had before it.                                       *)
TakesOnlyWhatWasSeen ==
  [][\A c \in Calls : calls'[c].outcome = "success" =>
       /\ Running(c, "unpublish", "sent") => calls[c].past = Len(publications)
       /\ Running(c, "reset", "read") => calls[c].want = draft_doc]_vars

(* A retired theme pair never spreads: a draft can only keep the pair it had *)
(* or take back the one of the public snapshot.                              *)
RetiredThemeNeverIntroduced ==
  [][Theme[draft_doc'] \in Retired =>
       \/ Theme[draft_doc'] = Theme[draft_doc]
       \/ published_doc \in Docs /\ Theme[draft_doc'] = Theme[published_doc]]_vars

(* A legacy save never overwrites a stored document that the legacy editor   *)
(* cannot represent (members/dal.ts:259-264).                                *)
LegacyKeepsV2Content ==
  [][\A c \in Calls :
       /\ Running(c, "legacy-update", "read")
       /\ calls'[c].outcome = "success"
       => /\ draft_doc \in LegacyDocs
          /\ is_published => published_doc \in LegacyDocs]_vars

(* The row, with all its two-statement calls, is a page register: publish    *)
(* and reset take effect in one step although they read and write in two,    *)
(* because their second statement compares everything the first one read.    *)
Register == INSTANCE PageRegister WITH
  draft <- draft_doc, rev <- draft_rev, snapshot <- published_doc,
  public <- is_published, token <- Len(publications), held <- moderation_hold

ImplementsRegister == Register!Spec
=============================================================================
