---------------------------- MODULE MemberAssets ----------------------------
(***************************************************************************)
(* The uploaded assets of one member page (src/lib/members/assets/dal.ts): *)
(* rows of member_page_assets, the two counters on the page's row, and the *)
(* objects of the private R2 bucket, which the browser writes through a    *)
(* presigned URL and the server reads and deletes.                         *)
(*                                                                         *)
(* A server call is a sequence of SQL statements and R2 requests, and any  *)
(* other call may run between two of them. A SQL statement holds the       *)
(* page's row lock, or writes one asset row, and is one step; NOW() is     *)
(* when it began, before it waited for the lock. An R2 request is one      *)
(* step. A content stands for its ETag.                                    *)
(***************************************************************************)
EXTENDS Naturals, FiniteSets

CONSTANTS
  Assets,        \* the asset rows that can be allocated, with their objects
  Contents,      \* what can be uploaded
  Valid,         \* the contents verification accepts
  None,          \* no asset, no content
  Requests,      \* the server calls that may be in flight
  PendingLimit,  \* MEMBER_ASSET_PENDING_LIMIT
  ReadyLimit,    \* MEMBER_ASSET_READY_LIMIT
  Batch,         \* MEMBER_ASSET_CLEANUP_BATCH_SIZE
  Lifetime,      \* MEMBER_ASSET_PENDING_SECONDS, of row and upload URL
  MaxTime,       \* bound: the clock
  MaxUploads     \* bound: uploads through one URL

ASSUME AssetsAssumption == IsFiniteSet(Assets) /\ None \notin Assets
ASSUME ContentsAssumption == Valid \subseteq Contents /\ None \notin Contents
ASSUME LimitsAssumption ==
  /\ PendingLimit \in Nat /\ ReadyLimit \in Nat /\ Batch \in Nat
  /\ Lifetime \in Nat \ {0} /\ MaxTime \in Nat /\ MaxUploads \in Nat

VARIABLES
  now,                  \* the one clock of application, database and R2
  row,                  \* the asset rows; "free" and "gone" have none
  object,               \* the content stored at each asset's key, or None
  asset_pending_count,  \* the counters on the page's row
  asset_ready_count,
  referenced,           \* the assets the draft or the snapshot refers to
  requests,             \* the calls in flight
  uploads,              \* how often each URL was used (bounds the uploads)
  early                 \* observer: assets whose object was deleted while
                        \* their URL could still write it

vars == <<now, row, object, asset_pending_count, asset_ready_count,
          referenced, requests, uploads, early>>

Row == [status : {"free", "pending", "ready", "gone"}, claimed : BOOLEAN,
        etag : Contents \union {None}, expires : Nat]

FreeRow == [status |-> "free", claimed |-> FALSE, etag |-> None, expires |-> 0]

(* op: the call's next statement or request. rows: claimed rows whose       *)
(* objects are still to be deleted, if they match etag; victim: the one     *)
(* whose row is to be removed next. time: when the next statement may have  *)
(* begun. then: what follows the clean-up a call begins with.               *)
Request ==
  [op : {"none", "cleanup", "sweep", "remove", "insert", "verify", "recheck",
         "admit", "reject", "get", "fail"},
   asset : Assets \union {None}, etag : Contents \union {None}, time : Nat,
   rows : SUBSET Assets, victim : Assets \union {None},
   then : {"end", "insert", "verify"}]

NoRequest ==
  [op |-> "none", asset |-> None, etag |-> None, time |-> 0, rows |-> {},
   victim |-> None, then |-> "end"]

TypeOK ==
  /\ now \in 0..MaxTime
  /\ row \in [Assets -> Row]
  /\ object \in [Assets -> Contents \union {None}]
  /\ asset_pending_count \in 0..PendingLimit
  /\ asset_ready_count \in 0..ReadyLimit
  /\ referenced \subseteq Assets
  /\ requests \in [Requests -> Request]
  /\ uploads \in [Assets -> 0..MaxUploads]
  /\ early \subseteq Assets

Init ==
  /\ now = 0
  /\ row = [a \in Assets |-> FreeRow]
  /\ object = [a \in Assets |-> None]
  /\ asset_pending_count = 0
  /\ asset_ready_count = 0
  /\ referenced = {}
  /\ requests = [r \in Requests |-> NoRequest]
  /\ uploads = [a \in Assets |-> 0]
  /\ early = {}

-----------------------------------------------------------------------------
(* Rows. *)

Pending(a) == row[a].status = "pending" /\ ~row[a].claimed
Ready(a) == row[a].status = "ready" /\ ~row[a].claimed
Condemned(a) == row[a].status \in {"pending", "ready"} /\ row[a].claimed

Claim(S) == [a \in Assets |->
  IF a \in S THEN [row[a] EXCEPT !.claimed = TRUE] ELSE row[a]]

PendingIn(S) == Cardinality({a \in S : Pending(a)})

(* Mistakes these statements could have made; each breaks a property. *)
AllocateAnyway == TRUE
FreesPendingToo(a) == 1
RejectsReadyToo(a) == Pending(a) \/ Ready(a)
AdmitsClaimed(a, t) ==
  /\ row[a].status = "pending"
  /\ t < row[a].expires
  /\ asset_ready_count < ReadyLimit

(* What a statement asks of the rows it writes. *)
CanAllocate == asset_pending_count < PendingLimit
CanAdmit(a, t) ==
  /\ Pending(a)
  /\ t < row[a].expires
  /\ asset_ready_count < ReadyLimit
CanReject(a) == Pending(a)
CanRemove(a) == Condemned(a) /\ row[a].expires <= now
ReadyFreed(a) == IF row[a].status = "ready" THEN 1 ELSE 0
Due == {a \in Assets : (Pending(a) \/ Condemned(a)) /\ row[a].expires <= now}

-----------------------------------------------------------------------------
(* Calls. *)

Begin(r, q) ==
  /\ requests[r] = NoRequest
  /\ requests' = [requests EXCEPT ![r] = q]

Continue(r, q) == requests' = [requests EXCEPT ![r] = q]

(* Where a call goes when the sweep it began with is over, and where when   *)
(* the objects of S are still to be deleted.                                *)
After(q) ==
  IF q.then = "end" THEN NoRequest
  ELSE [q EXCEPT !.op = q.then, !.time = now, !.rows = {}, !.victim = None]

Sweeping(q, S) ==
  IF S = {} THEN After(q)
  ELSE [q EXCEPT !.op = "sweep", !.rows = S, !.victim = None]

(* A statement that is refused by a limit, fails or finds nothing of this   *)
(* owner ends the call; so does a process that dies.                        *)
Abort(r) ==
  /\ requests[r] # NoRequest
  /\ requests' = [requests EXCEPT ![r] = NoRequest]
  /\ UNCHANGED <<now, row, object, asset_pending_count, asset_ready_count,
                 referenced, uploads, early>>

-----------------------------------------------------------------------------
(* What a call begins with. *)

tables == <<row, asset_pending_count, asset_ready_count, referenced>>
world == <<now, object, uploads, early>>

BeginAllocate(r) ==
  /\ Begin(r, [NoRequest EXCEPT !.op = "cleanup", !.then = "insert"])
  /\ UNCHANGED <<tables, world>>

BeginList(r) ==
  /\ Begin(r, [NoRequest EXCEPT !.op = "cleanup", !.then = "end"])
  /\ UNCHANGED <<tables, world>>

BeginFinalize(r, a) ==
  /\ Pending(a)
  /\ now < row[a].expires
  /\ Begin(r, [NoRequest EXCEPT !.op = "cleanup", !.asset = a,
                               !.then = "verify"])
  /\ UNCHANGED <<tables, world>>

BeginServe(r, a) ==
  /\ Ready(a)
  /\ Begin(r, [NoRequest EXCEPT !.op = "get", !.asset = a,
                               !.etag = row[a].etag])
  /\ UNCHANGED <<tables, world>>

(* Claim an asset no stored document refers to; its object is deleted only  *)
(* if it still is the verified one. A claimed asset is deleted again.       *)
DeleteOwned(r, a) ==
  /\ \/ /\ Condemned(a)
        /\ UNCHANGED <<row, asset_pending_count>>
        /\ Begin(r, [NoRequest EXCEPT !.op = "sweep", !.rows = {a},
                                     !.etag = None])
     \/ /\ Pending(a) \/ Ready(a)
        /\ a \notin referenced
        /\ row' = Claim({a})
        /\ asset_pending_count' = asset_pending_count - PendingIn({a})
        /\ Begin(r, [NoRequest EXCEPT !.op = "sweep", !.rows = {a},
                                     !.etag = row[a].etag])
  /\ UNCHANGED <<asset_ready_count, referenced, world>>

(* cleanupOwnedMemberPageAssets claims expired pending rows, and takes up   *)
(* rows claimed before, a batch of them in an order that is left open. It   *)
(* skips what another statement holds or what came due while it waited; a   *)
(* statement that failed, or whose answer was lost, sweeps nothing.         *)
Cleanup(r) ==
  /\ requests[r].op = "cleanup"
  /\ \E S \in SUBSET Due, swept \in {TRUE, FALSE} :
       /\ Cardinality(S) <= Batch
       /\ row' = Claim(S)
       /\ asset_pending_count' = asset_pending_count - PendingIn(S)
       /\ Continue(r, Sweeping(requests[r], IF swept THEN S ELSE {}))
  /\ UNCHANGED <<asset_ready_count, referenced, world>>

-----------------------------------------------------------------------------
(* Allocation and finalizing. *)

(* The URL was signed since the clean-up; its expiry lies ahead of NOW(). *)
Insert(r) ==
  LET q == requests[r] IN
  /\ q.op = "insert"
  /\ CanAllocate
  /\ \E a \in Assets :
       /\ row[a].status = "free"
       /\ row' = [row EXCEPT ![a] =
                    [FreeRow EXCEPT !.status = "pending",
                                    !.expires = q.time + Lifetime]]
  /\ asset_pending_count' = asset_pending_count + 1
  /\ Continue(r, NoRequest)
  /\ UNCHANGED <<asset_ready_count, referenced, world>>

Verify(r) ==
  LET q == requests[r] IN
  /\ q.op = "verify"
  /\ object[q.asset] \in Valid
  /\ Continue(r, [q EXCEPT !.op = "recheck", !.etag = object[q.asset]])
  /\ UNCHANGED <<tables, world>>

(* Recheck taking the identity it finds for the one that was verified. *)
RecheckTakesHead(r) ==
  LET q == requests[r] IN
  /\ q.op = "recheck"
  /\ Continue(r, [q EXCEPT !.op = "admit", !.time = now,
                           !.etag = object[q.asset]])
  /\ UNCHANGED <<tables, world>>

(* The object is looked at again, after it was read whole. *)
Recheck(r) ==
  LET q == requests[r] IN
  /\ q.op = "recheck"
  /\ object[q.asset] = q.etag
  /\ Continue(r, [q EXCEPT !.op = "admit", !.time = now])
  /\ UNCHANGED <<tables, world>>

(* A missing, unsuitable or changed object, and a storage error. *)
VerificationFails(r) ==
  LET q == requests[r] IN
  /\ q.op \in {"verify", "recheck"}
  /\ Continue(r, [q EXCEPT !.op = "reject", !.etag = None])
  /\ UNCHANGED <<tables, world>>

Admit(r) ==
  LET q == requests[r]  a == q.asset IN
  /\ q.op = "admit"
  /\ \E t \in q.time..now : CanAdmit(a, t)
  /\ row' = [row EXCEPT ![a].status = "ready", ![a].etag = q.etag]
  /\ asset_pending_count' = asset_pending_count - 1
  /\ asset_ready_count' = asset_ready_count + 1
  /\ Continue(r, NoRequest)
  /\ UNCHANGED <<referenced, world>>

AdmissionRefused(r) ==
  LET q == requests[r] IN
  /\ q.op = "admit"
  /\ \E t \in q.time..now : ~CanAdmit(q.asset, t)
  /\ Continue(r, [q EXCEPT !.op = "reject", !.etag = None])
  /\ UNCHANGED <<tables, world>>

(* removeInvalidPendingAsset claims what is still pending. *)
Reject(r) ==
  LET a == requests[r].asset IN
  /\ requests[r].op = "reject"
  /\ IF CanReject(a)
     THEN /\ row' = Claim({a})
          /\ asset_pending_count' = asset_pending_count - 1
          /\ Continue(r, [NoRequest EXCEPT !.op = "sweep", !.rows = {a},
                                          !.etag = None])
     ELSE /\ UNCHANGED <<row, asset_pending_count>>
          /\ Continue(r, NoRequest)
  /\ UNCHANGED <<asset_ready_count, referenced, world>>

-----------------------------------------------------------------------------
(* The sweep: delete the object, then the row. *)

(* A missing object counts as deleted. *)
EraseObject(r, a) ==
  LET q == requests[r] IN
  /\ q.op = "sweep" /\ a \in q.rows
  /\ q.etag = None \/ object[a] \in {q.etag, None}
  /\ object' = [object EXCEPT ![a] = None]
  /\ early' = IF now < row[a].expires THEN early \union {a} ELSE early
  /\ Continue(r, [q EXCEPT !.op = "remove", !.rows = @ \ {a}, !.victim = a])
  /\ UNCHANGED <<tables, now, uploads>>

(* EraseFails taking a failed delete for a done one. *)
EraseFailsUnnoticed(r, a) ==
  LET q == requests[r] IN
  /\ q.op = "sweep" /\ a \in q.rows
  /\ Continue(r, [q EXCEPT !.op = "remove", !.rows = @ \ {a}, !.victim = a])
  /\ UNCHANGED <<tables, world>>

(* A refused or failed delete, which may have deleted, leaves the row. *)
EraseFails(r, a) ==
  LET q == requests[r] IN
  /\ q.op = "sweep" /\ a \in q.rows
  /\ Continue(r, Sweeping(q, q.rows \ {a}))
  /\ \/ UNCHANGED <<object, early>>
     \/ /\ q.etag = None \/ object[a] = q.etag
        /\ object' = [object EXCEPT ![a] = None]
        /\ early' = IF now < row[a].expires THEN early \union {a} ELSE early
  /\ UNCHANGED <<tables, now, uploads>>

RemoveRow(r) ==
  LET q == requests[r]  a == q.victim IN
  /\ q.op = "remove"
  /\ CanRemove(a)
  /\ row' = [row EXCEPT ![a].status = "gone"]
  /\ asset_ready_count' = asset_ready_count - ReadyFreed(a)
  /\ Continue(r, Sweeping(q, q.rows))
  /\ UNCHANGED <<asset_pending_count, referenced, world>>

(* The upload URL has not expired, or the statement failed. *)
RowStays(r) ==
  LET q == requests[r] IN
  /\ q.op = "remove"
  /\ Continue(r, Sweeping(q, q.rows))
  /\ UNCHANGED <<tables, world>>

-----------------------------------------------------------------------------
(* Serving. *)

Served(r) ==
  LET q == requests[r] IN
  /\ q.op = "get"
  /\ object[q.asset] = q.etag
  /\ Continue(r, NoRequest)
  /\ UNCHANGED <<tables, world>>

NotServed(r) ==
  LET q == requests[r] IN
  /\ q.op = "get"
  /\ object[q.asset] # q.etag
  /\ Continue(r, [q EXCEPT !.op = "fail"])
  /\ UNCHANGED <<tables, world>>

(* claimServingFailure claims a ready asset, referenced or not. *)
FailServing(r) ==
  LET q == requests[r]  a == q.asset IN
  /\ q.op = "fail"
  /\ row' = IF Ready(a) /\ row[a].etag = q.etag THEN Claim({a}) ELSE row
  /\ Continue(r, NoRequest)
  /\ UNCHANGED <<asset_pending_count, asset_ready_count, referenced, world>>

-----------------------------------------------------------------------------
(* The page's documents, the browser and the clock. *)

Refer(a) ==
  /\ a \notin referenced
  /\ Ready(a)
  /\ referenced' = referenced \union {a}
  /\ UNCHANGED <<row, asset_pending_count, asset_ready_count, requests, world>>

Unrefer(a) ==
  /\ a \in referenced
  /\ referenced' = referenced \ {a}
  /\ UNCHANGED <<row, asset_pending_count, asset_ready_count, requests, world>>

(* A presigned PUT works until it expires, as often as it is used. *)
Upload(a, c) ==
  /\ row[a].status # "free"
  /\ now < row[a].expires
  /\ uploads[a] < MaxUploads
  /\ uploads' = [uploads EXCEPT ![a] = @ + 1]
  /\ object' = [object EXCEPT ![a] = c]
  /\ UNCHANGED <<tables, requests, now, early>>

Tick ==
  /\ now < MaxTime
  /\ now' = now + 1
  /\ UNCHANGED <<tables, requests, object, uploads, early>>

Statement(r) ==
  \/ Cleanup(r) \/ Insert(r)
  \/ Verify(r) \/ Recheck(r) \/ VerificationFails(r)
  \/ Admit(r) \/ AdmissionRefused(r) \/ Reject(r)
  \/ \E a \in Assets : EraseObject(r, a) \/ EraseFails(r, a)
  \/ RemoveRow(r) \/ RowStays(r)
  \/ Served(r) \/ NotServed(r) \/ FailServing(r)
  \/ Abort(r)

Call(r) ==
  \/ BeginAllocate(r) \/ BeginList(r)
  \/ \E a \in Assets : BeginFinalize(r, a) \/ BeginServe(r, a) \/ DeleteOwned(r, a)

Next ==
  \/ \E r \in Requests : Call(r) \/ Statement(r)
  \/ \E a \in Assets : Refer(a) \/ Unrefer(a)
  \/ \E a \in Assets, c \in Contents : Upload(a, c)
  \/ Tick

Spec == Init /\ [][Next]_vars

-----------------------------------------------------------------------------
(* Properties. *)

PendingRows == {a \in Assets : Pending(a)}
ReadyRows == {a \in Assets : row[a].status = "ready"}
CondemnedRows == {a \in Assets : Condemned(a)}
GoneRows == {a \in Assets : row[a].status = "gone"}

(* The counters of the page's row are exact after every statement: pending  *)
(* ones are not claimed, ready ones are stored, claimed or not (dal.ts 41).  *)
CountersExact ==
  /\ asset_pending_count = Cardinality(PendingRows)
  /\ asset_ready_count = Cardinality(ReadyRows)

(* What is served was verified: finalizing, the URL that still writes and   *)
(* the reader's If-Match never meet in a ready asset whose bytes differ     *)
(* from those that were read and accepted (finalizeOwnedMemberPageAsset,    *)
(* readMemberPageAssetForServing).                                          *)
OnlyVerifiedIsServed ==
  /\ \A a \in Assets : Ready(a) => row[a].etag \in Valid
  /\ \A r \in Requests : requests[r].op = "get" => requests[r].etag \in Valid

(* An asset whose URL was used once keeps its object from the statement     *)
(* that made it ready to the one that claims it, and is not claimed while   *)
(* the page refers to it: no failed finalize, clean-up, deletion or stale    *)
(* reader takes it away.                                                     *)
UploadedOnceStaysIntact ==
  \A a \in Assets : uploads[a] = 1 =>
    /\ Ready(a) => object[a] = row[a].etag
    /\ a \in referenced => Ready(a)

(* An object without a row was deleted, for that row, before its URL had     *)
(* expired, and uploaded again: no failed request and no crash loses track   *)
(* of an object in another way (cleanupClaimedRows).                         *)
ObjectsAccounted ==
  \A a \in Assets :
    row[a].status \in {"free", "gone"} /\ object[a] # None => a \in early

(* An asset's row is removed only when its object is gone for good: the      *)
(* claim is kept through replay risk and the object deleted again after      *)
(* expiry (tests/unit/member-v2-asset-dal.test.ts 806). The code's guard is   *)
(* weaker.                                                                   *)
NoOrphans == \A a \in Assets : row[a].status = "gone" => object[a] = None

(* The statements, in whatever order, do what the abstract shelf allows.     *)
Shelf == INSTANCE AssetShelf WITH
  pending <- PendingRows,
  ready <- ReadyRows,
  condemned <- CondemnedRows,
  removed <- GoneRows
ImplementsShelf == Shelf!Spec
=============================================================================
