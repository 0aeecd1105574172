------------------------------ MODULE AssetUploads ------------------------------
(***************************************************************************)
(* The asset library of the owner editor                                   *)
(* (src/src/components/member-page-editor/asset-library.tsx and            *)
(* asset-api.ts) against what the server promises of one page's assets     *)
(* (AssetShelf, which MemberAssets is shown to implement): an upload of    *)
(* four stages that can be taken up where it stopped, checks of pending    *)
(* uploads, deletions and listings, all of which may be under way at once. *)
(*                                                                         *)
(* A call takes effect at one moment and is heard of at a later one, or    *)
(* never.  Of a prepared picture the file it was made from is kept.        *)
(***************************************************************************)
EXTENDS Naturals, FiniteSets

CONSTANTS
  Assets,        \* asset ids the server may hand out
  PendingLimit,
  ReadyLimit,    \* MAX_READY_ASSETS
  Refreshes,     \* identities of concurrent refreshes
  NoAsset, NoUpload, NoCall, NoListing, Unread,
  MaxFiles,      \* bound on the files the owner picks
  MaxUnderWay,   \* bound on what is under way at once
  MaxUnheard     \* bound on calls the editor hears nothing of

\* UploadRecovery, with what the call of its stage has answered; the call of
\* busyAssetId; and what the editor shows of each asset.
Answers == {"none", "ok", "gone", "error"}
Recoveries == [file : Nat, stage : {"normalize", "allocate", "put", "finalize"},
               asset : Assets \cup {NoAsset}, answer : Answers]
Calls == [kind : {"check", "delete"}, asset : Assets, answer : Answers]
Libraries == [Assets -> {"none", "pending", "ready"}]

ASSUME UploadsAssumption ==
  /\ PendingLimit \in Nat /\ ReadyLimit \in Nat /\ MaxFiles \in Nat
  /\ NoAsset \notin Assets
  /\ NoUpload \notin Recoveries /\ NoCall \notin Calls
  /\ NoListing \notin Libraries /\ Unread \notin Libraries

VARIABLES
  allocated, ready, condemned, removed,   \* the stored rows
  expired,     \* uploads past their expiresAt, whatever became of them
  object,      \* the file whose picture is stored under an asset, 0 for none
  library,     \* assets: what the editor shows of each asset
  upload,      \* the run under way: its file, stage, asset and answer
  failed,      \* failedUpload
  files,       \* files picked so far
  reported,    \* the asset each file is reported ready as, or NoAsset
  asking,      \* the call of busyAssetId: a check or a deletion
  listings,    \* of each refresh: none, unread, or what the server answered
  refreshing,
  unheard,     \* calls that took effect and were heard of as failures
  behind       \* observer: assets of which the last answer was overtaken when
               \* it was heard, or lost, or which serving condemned since

Shelf == INSTANCE AssetShelf WITH pending <- allocated
shelf == <<allocated, ready, condemned, removed>>
uploadVars == <<shelf, expired, object, library, upload, failed, files, reported, asking,
                listings, refreshing, unheard, behind>>

UploadsInit ==
  /\ Shelf!Init
  /\ expired = {} /\ object = [a \in Assets |-> 0]
  /\ library = [a \in Assets |-> "none"]
  /\ upload = NoUpload /\ failed = NoUpload
  /\ files = 0 /\ reported = [f \in 1..MaxFiles |-> NoAsset]
  /\ asking = NoCall /\ listings = [r \in Refreshes |-> NoListing] /\ refreshing = FALSE
  /\ unheard = 0 /\ behind = {}

Recovery(file, stage, asset) ==
  [file |-> file, stage |-> stage, asset |-> asset, answer |-> "none"]

-----------------------------------------------------------------------------
(* The server: each call is answered "ok", "gone" (invalid_asset, not_found) *)
(* or "error" (a limit, a conflict, an outage).                              *)

Fails(answer) == answer = "error" /\ UNCHANGED shelf

\* Nothing is done but for a pending upload.  One that cannot be verified is
\* condemned, a read of the store that failed being reason enough, and so is
\* one over the quota or one that ran out on the way; condemning may fail.
Finalize(a, answer) ==
  \/ a \in allocated \ expired /\ object[a] # 0 /\ Shelf!Admit(a) /\ answer = "ok"
  \/ a \in allocated \ expired /\ Shelf!Condemn({a}) /\ answer = "gone"
  \/ /\ a \in allocated /\ (a \in expired \/ Cardinality(ready) >= ReadyLimit)
     /\ Shelf!Condemn({a}) /\ answer = "error"
  \/ UNCHANGED shelf /\ answer = "gone"
  \/ Fails(answer)

\* Refused while a stored document refers to the asset; done again if it was
\* only condemned.
Delete(a, answer) ==
  \/ a \in (allocated \cup ready) \ condemned /\ Shelf!Condemn({a}) /\ answer = "ok"
  \/ a \in condemned /\ UNCHANGED shelf /\ answer = "ok"
  \/ a \notin allocated \cup ready \cup condemned /\ UNCHANGED shelf /\ answer = "gone"
  \/ Fails(answer)

\* What was done is not always heard of.
Heard(answer, told, a) ==
  \/ told = answer /\ UNCHANGED <<unheard, behind>>
  \/ /\ told = "error" /\ answer # "error" /\ unheard < MaxUnheard
     /\ unheard' = unheard + 1 /\ behind' = behind \cup ({a} \ {NoAsset})

ServeUpload ==
  /\ upload # NoUpload /\ upload.answer = "none" /\ upload.stage # "normalize"
  /\ \E answer, told \in {"ok", "gone", "error"} :
       /\ Heard(answer, told, upload.asset)
       /\ \/ /\ upload.stage = "allocate" /\ UNCHANGED object
             /\ \/ \E a \in Assets :
                     /\ Shelf!Allocate(a) /\ answer = "ok"
                     /\ upload' = [upload EXCEPT !.answer = told, !.asset = a]
                \/ Fails(answer) /\ upload' = [upload EXCEPT !.answer = told]
          \/ /\ upload.stage = "put" /\ UNCHANGED shelf
             /\ upload' = [upload EXCEPT !.answer = told]
             /\ \/ /\ upload.asset \notin expired /\ answer = "ok"
                   /\ object' = [object EXCEPT ![upload.asset] = upload.file]
                \/ answer = "error" /\ UNCHANGED object
          \/ /\ upload.stage = "finalize" /\ UNCHANGED object
             /\ Finalize(upload.asset, answer)
             /\ upload' = [upload EXCEPT !.answer = told]
  /\ UNCHANGED <<expired, library, failed, files, reported, asking, listings, refreshing>>

ServeBusy ==
  /\ asking # NoCall /\ asking.answer = "none"
  /\ \E answer, told \in {"ok", "gone", "error"} :
       /\ Heard(answer, told, asking.asset)
       /\ \/ asking.kind = "check" /\ Finalize(asking.asset, answer)
          \/ asking.kind = "delete" /\ Delete(asking.asset, answer)
       /\ asking' = [asking EXCEPT !.answer = told]
  /\ UNCHANGED <<expired, object, library, upload, failed, files, reported, listings, refreshing>>

Listed(a) == CASE a \in ready \ condemned -> "ready" [] a \in allocated -> "pending" [] OTHER -> "none"
ServeListing ==
  /\ \E r \in Refreshes :
       listings[r] = Unread /\ listings' = [listings EXCEPT ![r] = [a \in Assets |-> Listed(a)]]
  /\ UNCHANGED <<shelf, expired, object, library, upload, failed, files, reported, asking,
                 refreshing, unheard, behind>>

\* Uploads run out, clean-up removes what is condemned or ran out, and serving
\* a picture whose object is gone or was replaced condemns it.
TimePasses ==
  /\ \/ /\ \E a \in (allocated \cup ready \cup condemned \cup removed) \ expired :
             expired' = expired \cup {a}
        /\ UNCHANGED <<shelf, object, behind>>
     \/ /\ allocated \cap expired # {} /\ Shelf!Condemn(allocated \cap expired)
        /\ UNCHANGED <<expired, object, behind>>
     \/ /\ \E a \in condemned : Shelf!Remove(a) /\ object' = [object EXCEPT ![a] = 0]
        /\ UNCHANGED <<expired, behind>>
     \/ /\ \E a \in ready \ condemned : Shelf!Condemn({a}) /\ behind' = behind \cup {a}
        /\ UNCHANGED <<expired, object>>
  /\ UNCHANGED <<library, upload, failed, files, reported, asking, listings, refreshing, unheard>>

-----------------------------------------------------------------------------
(* The editor. *)

AtQuota == Cardinality({a \in Assets : library[a] = "ready"}) >= ReadyLimit
server == <<shelf, expired, object, unheard>>
shown == <<library, behind>>
heard == <<listings, refreshing>>
Room ==
  Cardinality({r \in Refreshes : listings[r] # NoListing})
    + Cardinality({upload, asking} \ {NoUpload, NoCall}) < MaxUnderWay

\* What an answer says of an asset may be true no more when it is heard; a
\* refusal says nothing.
Overtaken(a, says) == (says = "ready") # (Listed(a) = "ready")
Hears(answer, a, says) ==
  behind' = CASE answer # "ok" -> behind
              [] answer = "ok" /\ Overtaken(a, says) -> behind \cup {a}
              [] OTHER -> behind \ {a}

RefreshBegins ==
  /\ \E r \in Refreshes : listings[r] = NoListing /\ listings' = [listings EXCEPT ![r] = Unread]
  /\ refreshing' = TRUE

\* A new file starts from the beginning, whatever was left of another.
ResumesTheOther(file) ==
  IF failed = NoUpload THEN Recovery(file, "normalize", NoAsset) ELSE [failed EXCEPT !.file = file]
NewRun(file) == Recovery(file, "normalize", NoAsset)
PickFile ==
  /\ upload = NoUpload /\ ~refreshing /\ ~AtQuota /\ files < MaxFiles /\ Room
  /\ files' = files + 1
  /\ upload' = NewRun(files + 1) /\ failed' = NoUpload
  /\ UNCHANGED <<server, shown, reported, asking, heard>>

\* Where a run is taken up: past its expiry an allocation is made anew.
TakeUp(recovery) ==
  IF recovery.stage \in {"put", "finalize"} /\ recovery.asset \in expired
    THEN Recovery(recovery.file, "allocate", NoAsset) ELSE recovery

\* The quota is looked at first, and leaves the recovery for another try.
RetryUpload ==
  /\ upload = NoUpload /\ failed # NoUpload /\ ~AtQuota /\ Room
  /\ upload' = TakeUp(failed) /\ failed' = NoUpload
  /\ UNCHANGED <<server, shown, files, reported, asking, heard>>

Normalize ==
  /\ upload # NoUpload /\ upload.stage = "normalize"
  /\ \/ upload' = Recovery(upload.file, "allocate", NoAsset) /\ UNCHANGED failed
     \/ upload' = NoUpload /\ failed' = upload
  /\ UNCHANGED <<server, shown, files, reported, asking, heard>>

\* The stage is over: on to the next one, or the picture is ready.
StageDone ==
  /\ upload # NoUpload /\ upload.answer = "ok"
  /\ CASE upload.stage = "allocate" ->
            /\ library' = [library EXCEPT ![upload.asset] = "pending"]
            /\ Hears(upload.answer, upload.asset, "pending")
            /\ upload' = Recovery(upload.file, "put", upload.asset)
            /\ UNCHANGED reported
       [] upload.stage = "put" ->
            /\ upload' = Recovery(upload.file, "finalize", upload.asset)
            /\ UNCHANGED <<shown, reported>>
       [] upload.stage = "finalize" ->
            /\ library' = [library EXCEPT ![upload.asset] = "ready"]
            /\ Hears(upload.answer, upload.asset, "ready")
            /\ reported' = [reported EXCEPT ![upload.file] = upload.asset]
            /\ upload' = NoUpload
  /\ UNCHANGED <<server, failed, files, asking, heard>>

\* A verdict on the asset begins again from allocation and lists the library.
KeptForRetry(run) ==
  IF run.answer = "gone" \/ run.stage = "allocate" THEN Recovery(run.file, "allocate", NoAsset)
                                                   ELSE [run EXCEPT !.answer = "none"]
StageFails ==
  /\ upload # NoUpload /\ upload.answer \in {"gone", "error"}
  /\ failed' = KeptForRetry(upload) /\ upload' = NoUpload
  /\ IF upload.answer = "gone" THEN RefreshBegins ELSE UNCHANGED heard
  /\ UNCHANGED <<server, shown, files, reported, asking>>

\* Retry check of a pending tile, Delete of any; also during an upload.
Call(kind, a) ==
  /\ asking = NoCall /\ Room
  /\ library[a] \in IF kind = "check" THEN {"pending"} ELSE {"pending", "ready"}
  /\ asking' = [kind |-> kind, asset |-> a, answer |-> "none"]
  /\ UNCHANGED <<server, shown, upload, failed, files, reported, heard>>

ShownAfter(call) == IF call.kind = "check" THEN "ready" ELSE "none"
CallReturns ==
  /\ asking # NoCall /\ asking.answer # "none" /\ asking' = NoCall
  /\ library' = IF asking.answer = "ok" THEN [library EXCEPT ![asking.asset] = ShownAfter(asking)]
                                         ELSE library
  /\ Hears(asking.answer, asking.asset, ShownAfter(asking))
  /\ IF asking.kind = "check" /\ asking.answer = "gone" THEN RefreshBegins ELSE UNCHANGED heard
  /\ UNCHANGED <<server, upload, failed, files, reported>>

Refresh ==
  /\ ~refreshing /\ upload = NoUpload /\ Room
  /\ RefreshBegins
  /\ UNCHANGED <<server, shown, upload, failed, files, reported, asking>>

\* The list that arrives replaces the library, however old it is; and whichever
\* refresh ends first ends the waiting for all of them.
ListingReturns ==
  /\ \E r \in Refreshes :
       /\ \/ /\ listings[r] \notin {NoListing, Unread}
             /\ library' = listings[r]
             /\ behind' = {a \in Assets : Overtaken(a, listings[r][a])}
          \/ listings[r] # NoListing /\ UNCHANGED shown
       /\ listings' = [listings EXCEPT ![r] = NoListing]
  /\ refreshing' = FALSE
  /\ UNCHANGED <<server, upload, failed, files, reported, asking>>

UploadsNext ==
  \/ PickFile \/ RetryUpload \/ Normalize \/ StageDone \/ StageFails
  \/ \E kind \in {"check", "delete"}, a \in Assets : Call(kind, a)
  \/ CallReturns \/ Refresh \/ ListingReturns
  \/ ServeUpload \/ ServeBusy \/ ServeListing \/ TimePasses

UploadsSpec == UploadsInit /\ [][UploadsNext]_uploadVars

-----------------------------------------------------------------------------
(* The last file picked is being uploaded, is ready or waits for a retry: no  *)
(* failure, quota, listing or deletion makes it vanish in silence; and a file *)
(* that was reported ready is not offered or uploaded again.                 *)
NoPickIsLost ==
  /\ files > 0 =>
       \/ reported[files] # NoAsset
       \/ \E run \in {upload, failed} \ {NoUpload} : run.file = files
  /\ \A run \in {upload, failed} \ {NoUpload} : reported[run.file] = NoAsset

(* The picture reported ready as a file is that file's, however often it was *)
(* retried and whatever other file failed before; and nothing is shown as    *)
(* ready that was never verified.                                            *)
ReadyIsTheFile ==
  /\ \A f \in 1..files : reported[f] # NoAsset => object[reported[f]] \in {f, 0}
  /\ \A a \in Assets : library[a] = "ready" => a \in ready \cup removed

(* With no upload, check or deletion under way, the tiles of ready pictures  *)
(* are those of the rows that are ready: a picture's tile is lost, or one    *)
(* that was deleted comes back, only by an answer that had been overtaken    *)
(* when it arrived, or while the answer about it was lost or serving it was  *)
(* what condemned it.                                                        *)
TilesShowRows ==
  upload = NoUpload /\ asking = NoCall =>
    \A a \in Assets \ behind : library[a] = "ready" <=> Listed(a) = "ready"

UploadsAccounted == NoPickIsLost /\ ReadyIsTheFile /\ TilesShowRows
=============================================================================
