# A TLA+ verification of teamham.world

This directory holds a formal model of the parts of teamham.world whose
correctness depends on the order in which things happen or on every case being
met: member pages, their owner editor, their documents and uploaded assets,
sign-in with game authorization, the daily Puffdle, the arcade games and their
member boards. TLA+ modules state the system and its properties, TLC checks them
on small instances, and TLAPS proves the most important of them for every value
of the constants.

Paths below are relative to the repository's own `src/` directory unless they
start with `migrations/`.

## 1. The system

The site is a Next.js application over one Postgres database (every data-access
function sends single SQL statements over HTTP; there are no interactive
transactions) and one R2 object store.

| Part | Code | State it keeps | Operations | Talks to |
|---|---|---|---|---|
| Member page row, V2 | `lib/members/v2/dal.ts`, `app/m/[member]/v2-actions.ts`, `lib/members/v2/rate-limits.ts`, `feature-flag.ts` | one row of `member_pages`: draft and revision, public snapshot, publication token, hold, owner; a rate-limit counter | autosave, publish, unpublish, reset | editor (server actions), assets (row lock, readiness) |
| Member page row, legacy and administration | `lib/members/dal.ts`, `lib/members/v2/moderation.ts` | the same row | save, publish, unpublish, take down and hold, clear a hold, reassign | the same row |
| Owner editor | `components/member-page-editor/autosave-controller.ts`, `use-member-page-editor.ts`, `editor-topbar.tsx` | the document on screen, revision, pending and in-flight saves, timer, reset context, publication token | edit, debounce, flush, retry, publish, unpublish, reset, pause, resume | the row, over server actions |
| Page assets | `lib/members/assets/dal.ts`, `r2.ts`, `verify.ts`, `app/api/member-page-assets` | `member_page_assets` rows, two counters on the page row, R2 objects | allocate, upload, finalize, list, delete, serve, expiry clean-up | the row, R2 |
| Verification of an upload | `lib/members/assets/verify.ts`, `animation.ts`, `dimensions.ts`, `r2.ts` | what it has read of one object | HEAD, prefixes, the whole object; walk the container | R2 |
| Asset library | `components/member-page-editor/asset-library.tsx`, `asset-api.ts` | the list, the upload in progress and the one that failed | normalise, allocate, upload, finalize, recover, check, delete, refresh | assets |
| Documents | `components/member-page-editor/document-ops.ts`, `block-inspector.tsx`, `add-block-panel.tsx`, `editor-shell.tsx`, `lib/members/v2/validation.ts` | the document on screen, the selection, one deletion for Undo | add, edit, move, pair, split, duplicate, delete, undo | editor |
| Rich text | `lib/members/v2/rich-text.ts`, `rich-text-adapter.ts` | none | parse, normalise | documents |
| Sign-in and game OAuth | `lib/auth/db.ts`, `lib/auth/game-db.ts`, `app/api/auth` | accounts, sessions, authorization codes, game access tokens | sign in and out, issue and exchange codes, introspect, revoke, suspend | Discord, the games |
| The browser's cookies | `lib/auth/http.ts`, `game-oauth.ts`, the routes under `app/api/auth` | three cookies of one jar, several tabs | log in, return from Discord, resume a game request, log out | the accounts |
| Daily Puffdle | `lib/puffdle/daily.ts`, `components/puffdle/use-puffdle-daily.ts`, `migrations/0011` | a game per account and day, the score row; each tab's snapshot and unsettled guess | open, guess, refresh, give up | the score row |
| Unlimited Puffdle | `components/puffdle/puffdle-game.tsx`, `use-puffdle-leaderboard.ts`, `lib/puffdle/game.ts`, `leaderboard.ts` | the round, local statistics, what is to be posted | guess, hand in, post, retry | the score row |
| Arcade games | `lib/puff/snake.ts`, `suipuff.ts`, `game.ts` | a run in the browser | tick, input | boards |
| Arcade boards | the three game pages, `app/api/puff`, `lib/puff/*-leaderboard.ts` | the page's queue and local best, one score row per account and game | load, hand in, post, retry | accounts |
| Rendering, styles, scripts | the rest | none | none | none |

### What is hard

* **Two statements, one intention.** Publish, reset and the legacy writes read
  in one statement and write in another; everything else may run in between.
* **Stale tokens.** Every V2 call presents a revision or a publication token
  that some earlier read returned. A delayed call must miss, not overwrite.
* **Two editors for one row.** The rollout decides which editor may write a
  page, and the legacy one cannot represent all of a V2 document.
* **Rows and objects.** An asset is a row in Postgres and an object in R2 that a
  browser can write for as long as its URL is valid; no transaction spans both,
  and a call may die between any two requests.
* **References to assets** are checked by some writes and not by others, while
  deletion checks them from the other side.
* **One controller, many awaits.** The editor coalesces edits while a save is
  in flight, and publish, reset, retry, conflicts, pauses and the timer all
  touch the same few fields.
* **Lost answers.** A call may land and its answer not, or land long after the
  client gave up on it; and the client asks again.
* **Answers that cross.** A tab's answers arrive in another order than they were
  made, cookies change while a request is under way, a list that was read before
  a deletion arrives after it.
* **Walks and counters.** Parsers that see a file or a tree once, part by part,
  editing operations that must keep a document valid together, and game engines
  whose score must not count anything twice.
* **Access that must end.** A session, a membership check, a code and a token
  each expire, and each can be ended by another's statement; the statements
  overlap, and some read what they do not lock.

What makes each part correct is listed with the modules below. `PROJECT.json` lists every hazard at its
line with the properties that would catch it.

## 2. The modules

### `MemberPage`: the row and the calls that write it

| Variable | Code |
|---|---|
| `draft_doc` `draft_rev` `published_doc` `is_published` `published_at` `unpublished_at` `moderation_hold` `owner` | the columns of the same names (`migrations/0007_member_page_personalization_v2.sql` 287-425); `published_at` is the token, the instant the publishing transaction began, numbered; `unpublished_at` whether the column is set |
| `publications` | not in the code: the tokens so far, in the order the publications took effect |
| `attempt_count` | `member_page_mutation_rate_limits`, one window |
| `asset` | what the page's references see of an asset row: absent, ready, claimed for deletion, or failed in serving |
| `cohort` | whether the slug is in the V2 allowlist (`feature-flag.ts`) |
| `calls` | the server calls in flight: not yet run, between two statements, or answered |

A call is sent with any revision or token some read could have returned, and is
run arbitrarily later, so a duplicated tab, a slow network and a stale page are
all in the model. One SQL statement is one step: each takes the row lock in its
first CTE before it decides. `Autosave`, `Unpublish` and the administrators'
operations are one step; publish, reset, the legacy save and the legacy publish
are a read step (`PublishRead`, `ResetRead`, `LegacyUpdateRead`,
`LegacyPublicationRead`) and a write step. The order of the outcomes in
`AutosaveOutcome` and its like is the order of the code's checks. Rate limits
are counted in the statement that spends them, also when it then refuses.
Documents are abstract: all the row can tell of one is its asset references
(`Refs`), its theme (`Theme`, `Retired`) and whether the legacy editor can
represent it (`LegacyDocs`).

Properties:

* `PublicationConsistent`: public implies a snapshot, no hold and not
  unpublished, although publish looks at the hold twice and moderation looks at
  nothing.
* `ReferencedAssetsUsable`: what the draft or the snapshot refers to is a ready
  asset. Reset and legacy saves check nothing; that they may is the theorem.
* `CallsStillInformed`: what a call in flight still knows about the row.
* `RevisionNamesOneDraft`, `PublishShipsExpectedRevision`,
  `RetiredThemeNeverIntroduced`, `LegacyKeepsV2Content`: action properties on the
  writes.
* `TakesOnlyWhatWasSeen`: an unpublish takes down only the publication its sender
  saw, though tokens need not rise from one publication to the next; a reset
  replaces only the draft its sender had.
* `ImplementsRegister`: the row with all its two-statement calls implements
  `PageRegister`.

### `PageRegister`: what a page promises

The abstract specification: a draft whose every write has a new revision, and a
snapshot that becomes public only as a copy of the current draft, as a publication
of its own, while no hold stands. Each operation is one step. `MemberPage`
implements it, the token mapped to the number of publications so far; the interest
is that publish and reset take two statements and still take effect at one point.
The register knows a reset only as a save of the snapshot: what a reset's sender
must have seen is `MemberPage`'s `TakesOnlyWhatWasSeen`.

### `PageEditor`: the mounted editor

| Variable | Code |
|---|---|
| `state` `draftRev` `pending` `inFlight` `timer` `paused` | the private fields of `AutosaveController` (90-104) |
| `resetting` `discarded` `restoreState` | `#resetContext` |
| `document` | `documentRef.current` |
| `busy` | the hook's busy kind; publish is split into waiting for its flush and waiting for its answer, reset likewise |
| `isPublished` `publicationToken` `hasPublishedSnapshot` | the hook's publication state |
| `stored` | not in the code: the document the server last acknowledged |

JavaScript runs a task to its end, and between a promise's resolution and its
continuation only microtasks run. So the code from one `await` to the next is
one step, and a flush that resolves is one step with the publish that awaited
it. Each public method of the controller is an action (or, for `flush`, part of
the presses that call it); each arm of `#run`'s answer handling is an action.
The server may answer anything its result types allow; a lost answer reaches the
code as a rejected promise, and `SaveFails`, `TransitionRefused`, `ResetFails`
cover it.

Properties: `EditsAccountedFor` (the document on screen is always exactly the
newest of discarded, pending, in flight and acknowledged), `NoEditStranded`
(a waiting edit has something that will save it), `PublishesWhatTheOwnerSees`
(a publish is sent only when the document on screen is acknowledged),
`ResetOwnsTheOrder` (nothing is saved ahead of a confirmed reset),
`WorkSettles` and `ResetAlwaysEnds` (liveness).

### `MemberAssets`: rows, counters and stored objects

One page's assets. `MemberPage` sees of an asset only whether it is ready;
this module has everything before and after that.

| Variable | Code |
|---|---|
| `row` | `member_page_assets`: `status` (`"free"` before the row is inserted, `"gone"` after it is deleted), `claimed` for `deletion_claimed_at IS NOT NULL`, `etag`, `expires` for `pending_expires_at` (`migrations/0007` 453-524) |
| `asset_pending_count` `asset_ready_count` | the columns of the page's row |
| `object` | the R2 bucket: what is stored at each row's key, `None` if nothing; a content stands for its ETag |
| `referenced` | what the page's draft or snapshot refers to |
| `requests` | the server calls in flight: the next statement or request of each, and what it has read |
| `now` | one clock |
| `uploads` | how often each URL was used; it bounds the uploads, and tells an asset uploaded once from one whose object was replaced |
| `early` | not in the code: assets whose object was deleted before their URL expired |

Each SQL statement that touches the counters takes the page's row lock in its
first CTE and rechecks the rows it then writes; the claim of a failed read updates
one asset row, and serving only reads. So each is one step; but NOW() is when a
statement began, before it waited for the lock, so `Admit` and `AdmissionRefused` compare
the expiry with some moment since the call's previous step. Each R2 request is
one step. A call is: allocation, `BeginAllocate`, `Cleanup`, the sweep, `Insert`;
finalizing, `BeginFinalize`, `Cleanup`, the sweep, `Verify`, `Recheck`, `Admit`,
or from any of the last three to `Reject` and a sweep; deletion, `DeleteOwned` and a
sweep; listing, `BeginList`, `Cleanup`, the sweep; serving, `BeginServe`, `Served`
or `NotServed` and `FailServing`. The sweep is `EraseObject` or `EraseFails`, then
`RemoveRow` or `RowStays`, for each claimed row. `Abort` ends a call anywhere: a
failed statement, a refusal, a process that died. `Upload` is the browser's PUT,
which works until expiry whatever became of the row.

Properties:

* `CountersExact`: both counters equal the rows they count, though six
  statements change one or the other and any may be the last of its call.
* `OnlyVerifiedIsServed`: what is served was read whole and accepted, although
  the object behind a ready row can still be replaced.
* `UploadedOnceStaysIntact`: an asset whose URL was used once keeps its object
  from admission to its claim, and is not claimed while the page refers to it.
  The second half is what `MemberPage`'s deletion relies on.
* `ObjectsAccounted`: an object without a row has one known history, the one of
  finding 5.
* `ImplementsShelf`: the statements implement `AssetShelf`.

### `AssetShelf`: what the asset library promises

The abstract specification: uploads are pending, then perhaps ready, are condemned
before they are removed, never come back, and keep within the two limits. A
condemned ready asset still counts against the ready limit.

### `GameAuth`: sign-in and game authorization

All tables are keyed by account, so the module follows one account.

| Variable | Code |
|---|---|
| `membership_status` `access_status` `membership_checked_at` | the `accounts` row (`migrations/0001` 6-18); no row is `"none"` |
| `session` | the `sessions` row, one per account; `row` tells an updated row from one inserted anew, which a DELETE in progress does |
| `enabled` `code` `token` | per client, `game_oauth_clients.enabled` and the one row in `game_authorization_codes` and `game_access_tokens` (`migrations/0002` 5-77) |
| `now` | the database clock |
| `sessions` `codes` | hashes in the order their rows were written |
| `requests` | the statements in flight, with what they read |
| `rejected` | not in the code: a rejection was the last membership decision |

Each data-access call is one SQL statement at READ COMMITTED, and these
statements are not atomic to one another: NOW() and what a CTE selects come from
the moment the statement began, while an UPDATE, an upsert or a DELETE waits for
its row and then looks at the row as it has become. `BeginLogin`, `BeginReject`,
`BeginIssue` and `BeginExchange` are the first moment; `FinishLogin`,
`FinishReject`, `FinishIssue`, `Redeem` and `Refuse` the second. The exchange
that found nothing goes on to the statement that revokes (`BeginRevocation`,
`FinishRevocation`). `Abort` is a failed statement or a dead function, between
any two. `Active` is what introspection answers.

Properties:

* `TokenWithinSession`: a token of the present sign-in does not outlive its
  session.
* `MembershipWindowIsSession`: an eligible account's session and membership
  check come from the same sign-in, so they expire together.
* `RejectionEndsAccess`: after a rejection no game is told the member is signed
  in until a sign-in commits, even though the rejection's DELETE may miss a
  session inserted meanwhile, and writes nothing for a suspended account.
* `InactiveStaysInactive`: an inactive token stays so (except by enabling its
  client).
* `ReplayVoidsToken`: a refused replay of a bought code leaves no token it
  bought, unless a newer code was issued (see the findings).
* `ImplementsGrants`: the tables implement `GameGrant`.

### `GameGrant`: what the tables promise a game

The abstract specification: codes are issued one after another; only the newest
can be bought, once; the game holds at most one token, the one of its last
purchase, until it is revoked. `GameAuth` implements it although a purchase
checks in its snapshot what another purchase or a new code may have changed.

### `PageSession`: the editor, the network and the row

`PageEditor` is told any answer. Here one editor talks to one `PageRegister`
(which `MemberPage` implements) through the server actions of
`app/m/[member]/v2-actions.ts`.

| Variable | Code |
|---|---|
| those of `PageEditor` and of `PageRegister` | as there |
| `saving` `calling` | the tab's autosave and its publish, unpublish or reset: sent, or answered and not heard |
| `strays` | requests the tab no longer waits for and that may still arrive |
| `unseen` | not in the code: the row holds a draft the tab has not read, another's or what a request of its own left there whose answer it did not hear |
| `trouble` | the bound on what goes wrong |

`TabActs` is a step of the owner or the timer and sends what it starts.
`SaveArrives`, `CallArrives` and `StrayArrives` are the server; `SaveHears` and
`CallHears` the continuation of the `await`; `SaveFailsToAnswer` and
`CallFailsToAnswer` a rejected promise, after which the request was handled, will
be, or is gone. `Elsewhere` is another tab, an administrator or a moderator,
`Reload` the page rendered anew.

Properties, together `SessionsHonest`:

* `SavedIsTrue`: when the status line says saved, the stored draft is the document
  on screen, or the row holds a draft the tab has not read. That exception the
  program needs: after a reset whose answer was lost, `restoreAfterResetFailure`
  (`autosave-controller.ts` 303-326) may say "saved" over the draft it brings back.
* `UnseenDraftsAreKept`: nothing this tab sent, in time or late, replaces a draft
  it has not read, be it another's or the one its lost reset left; so an untrue
  "saved" ends in a conflict, not in a loss.
* `LiveIsWhatWasShown`: a page goes live as the owner last saw it stored, or by
  someone else's hand.

### `EditorDocument`: the document on the workbench

`blocks` is a sequence of entries, each a block or a row of two; of a block's
fields one fact is kept (the validator takes them all), of its collection the
ids. Every operation of `document-ops.ts` is an action with the guards of the
component that offers it; `selected` follows the shell, `undoable` the hook's
one deletion, `transients` the rich text being typed, `adding` the inspector's open
form for another gallery picture, and `replacing` a confirmed reset whose answer may
land between any two of the owner's steps.

Properties, with rich text's together `DocumentsSound`:

* `OnlyFieldsCanBeWrong`: no sequence of operations, resets and undos makes a
  document whose structure the validator refuses (rows nested or of one, ids
  twice, too many blocks or featured projects), but for one case: a gallery can have
  more than twelve pictures. The inspector looks for room when the form opens
  (`block-inspector.tsx` 506); the form outlives a change of the selection to another
  gallery, and the confirmation (474-496) checks only the picture's reference.
  Autosave is then refused (`validation.ts` 703-708) until a picture is removed.
* `SelectionIsOnThePage`: the inspector never edits a block that is gone.
* `DocumentKeepsBlocks`: only a deletion takes a block away, and it is the one
  Undo brings back.

### `RichText`: the parser of a rich-text value

A value is the sequence of its nodes in document order with their depths, and a
behaviour is one value. `ReadNode` is one node of `parseBlockNode`,
`parseTextNode` and `parseListItem`, with the counters of nodes and characters
that run over the whole tree; `FinishParsing` the checks on what was left
empty. `ProseIsKept` compares the verdict with the rules said of the whole value
(`WithinRules`): taken exactly when every rule holds, all of it kept, in one
normal form, and readable by the server afterwards.

### `AssetUploads`: the asset library of the editor

The library over `AssetShelf`. `upload` is the run under way, `failed` the one
that waits for a retry with the stage it stopped at, `asking` a check or a
deletion, `listings` the refreshes under way, each with the list it read;
`refreshing` is one boolean, which the first refresh to end clears for all. Calls
take effect at one moment (`ServeUpload`, `ServeBusy`, `ServeListing`) and are heard
of at another, or never. Finalizing may condemn a stored picture (it cannot be
verified, be it that a read of the store failed, it ran out on the way or is over the
quota), and a finalize whose answer was lost is asked again, told "not found", and
makes the run start over with an allocation and a second upload.

Properties, together `UploadsAccounted`:

* `NoPickIsLost`: the last file picked is under way, reported ready or waiting for
  its retry; a file reported ready is not uploaded again.
* `ReadyIsTheFile`: what is reported ready as a file is that file's picture, whatever
  other file failed before and however often it was retried; nothing is shown as
  ready that was never verified.
* `TilesShowRows`: with no upload, check or deletion under way the tiles of ready
  pictures are the rows that are ready, except where the last answer about an asset
  was overtaken when it was heard, was lost, or serving condemned the asset since
  (`behind`, an observer).

### `AssetVerification` and `ImageInspection`: what an upload is

`AssetVerification` is `verifyStoredMemberAsset`: a HEAD, prefixes of doubling
length and the whole object, each read conditional on the ETag of the HEAD,
while the presigned URL still lets a browser replace the object and the clean-up
delete it. `VerifiedIsStatic`: the ETag recorded is that of a still picture, and
no prefix grows beyond the buffer's bound.

`ImageInspection` is the walk over the parts of a PNG, WebP, AVIF or JPEG file:
each part has its kind, whether it is whole, whether it fits and what it says; a
behaviour is one file. `VerdictsSound` compares the walk, which sees a part once
and may stop early, with the formats' rules said of the whole sequence
(`IsStill`) within the limits (`WithinLimits`): static exactly for the still pictures
within them, animated only for a file that says so. The limits are those of
`animation.ts` 28 and `verify.ts` 181 (`MaxEntries`): 4,096 chunks or boxes and as
many entries in each table of a meta box, 65,536 segments of a JPEG.

`Pictures` puts the three modules side by side: `PicturesAccounted` joins their
properties.

### `SignIn`: the routes of sign-in and the cookie jar

`jar` is the three cookies of `lib/auth/http.ts`, `tabs` what each tab is at,
with the cookies its request carried and the answer it waits for: a request sees
the cookies of the moment it was sent, and its answer changes those of the
moment it arrives. One action per outcome of `login`, `callback`, `logout`,
`authorize` and `resume`; `Consent`, `Visit`, `ReloadCallback` and `Arrive` are the
browser, `Expire` a cookie's Max-Age. The rows behind are `GameAuth`'s; here an
account has its session token and a statement may fail.

Properties, together `SignInsBound`:

* `EndedStaysEnded`: a game request that was denied, refused or left behind is
  not in the jar any more, so no later visit resumes it.
* `BrowserSessionLives`: with no answer under way the session cookie names a
  living session, unless it was ended elsewhere or two answers crossed.

### `PuffdleGame` and `PuffdleScores`: Puffdle's rules and its score row

`PuffdleGame` is the pure part: `EvaluateGuess` with its two passes as
recursive functions, the keyboard, the outcome and the statistics.
`TilesTellTheTruth` and `KeysTellTheTruth` say what tiles and keys mean, letter by
letter, without the passes. `PuffdleScores` is the row of `puff_puffdle_scores`
and the two statements that write it.

### `DailyPuffdle`: the day's game

| Variable | Code |
|---|---|
| `dbDay` | the database's UTC date |
| `dailyGames` `scores` | `puff_puffdle_daily_games` and `puff_puffdle_scores` |
| `handedIn` | not in the code: the Unlimited totals saved, with the daily games finished by then |
| `member` | the account of the session cookie |
| `tabs` | the hook's status, its snapshot and its unsettled guess |
| `calls` | the request a tab waits for and how far the handler is |
| `strays` | guesses nobody waits for that may still be counted |

The handler is four steps, one per statement: `Accept` (authentication, the
clock and the game's row), `Guessed` (the guarded UPDATE with the score in the same
statement), `ReadGame` and `Answer`. `Midnight`, `SignIn` and `OtherDevice` come
between any two. `GiveUp` is the lost answer, the 503 and the 12 seconds; `Refresh`
asks again. The score row has a second writer, `savePuffdleScore`
(`lib/puffdle/leaderboard.ts` 20-113): `SaveUnlimited` merges an Unlimited page's
totals into it at any moment.

Properties:

* `AnswersTruthful`: a guess the tab is told was accepted is in the game it was
  typed for (`AcceptedIsRecorded`), and one it is told was refused is not in the
  game it is shown, although the request may have been counted by an earlier
  copy; the guesses shown begin the account's game, tiles and keys are true of them, and
  the streak told on the present day is that of the games.
* `ScoresAccounted`: the score row accounts for both its writers, as
  `docs/PUFFDLE.md` 44-47 says. Games played and won are the most that follow from
  totals handed in, or from none, and the daily games finished since, each counted
  once; the score is the best of the daily solves and of what was handed in; the
  streak is the daily games won since the last one lost, on top of the streak of the
  last totals that counted more games than the row.
* `PendingSettles`: an unsettled guess is settled in the end (liveness).

### `PuffdleBoard` and `ArcadeBoard`: results and member boards

`PuffdleBoard` is an Unlimited round, the statistics in the browser, the hook that
numbers its requests and looks at the last one's answer, and the row that the
daily games write as well. `ArcadeBoard` is the pages of the three arcade games:
Puff Print Run and Suipuff queue a score while one is being saved, Flappy Puff
posts each run (`kind`). A save may be answered 401, when the membership lapsed
between it and the reading of the board. Time is the moment a statement began, so that writes
which waited for the row carry the older time.

* `BoardsKeepScores`: "saved" means the row has the best score handed in
  (`PuffdleSavedMeansSaved`); a page never shows a best the table does not hold,
  a queued score has something that will post it, and what was handed in is in
  the row or its loss was announced (`ArcadeScoreKept`).
* `BoardsOnlyGrow`: rows and the boards on the pages never step back, whatever
  comes late or crosses, and no write breaks a CHECK constraint.

### `PuffSnake`, `Suipuff`, `FlappyPuff`: the engines

One action per outcome of a tick. The snake is whole, with any random number
generator. Of Suipuff it is left open which pieces touch or reach over the line, of
Flappy Puff how high the bird flies and where a gap is. Suipuff's pieces are a
function of their ids, which the code gives in the order of its list; what was dropped
(`given`), the drops and the jackpots are counted beside it. A resize stretches the
gates' places with the canvas; `Shares` are the lengths that stretch with it.
`EnginesSound` joins:

* `SnakeStaysWhole`: the snake is one piece of distinct cells carrying exactly the
  letters of its word, its pickup is free, and no two keys make it turn on its neck.
* `SuipuffScoreIsEarned`: the score is what the tray and the jackpots are worth
  beyond what was dropped, so no piece merges twice in a step; a run can go on until
  a piece was over the line too long.
* `FlappyCountsEveryGate`: each gate counts once, also when the window is resized
  in flight, and gates do not overlap.

### Modules that compose, prove and check

`PageSession`, `Documents`, `Pictures` and `Puffcade` put modules together.
`MemberPageProofs`, `EditorProofs` (session and documents too), `MemberAssetsProofs`,
`PictureProofs`, `GameAuthProofs`, `SignInProofs`, `DailyPuffdleProofs` and
`PuffcadeProofs` hold the theorems; `MCMemberPage`, `MCPageEditor`,
`MCMemberAssets`, `MCGameAuth`, `MCMembers` and `MCPuffcade` the small instances.

## 3. The runs

| Run | Instance | Shows |
|---|---|---|
| `page` | two calls, two accounts, three documents, one asset, one attempt per limited action and window, `MaxRev` 2, `MaxToken` 2, `DrainedRollout` | the properties of `MemberPage`, and the refinement |
| `page_v2_content` | the same with a plain page and two pages with different retired theme pairs, no assets | `RetiredThemeNeverIntroduced`, `LegacyKeepsV2Content` |
| `page_rolling_deploy` | the same with `DrainedRollout = FALSE` | finding: a legacy save overwrites V2 content |
| `editor` | three documents, `MaxRev` 2, `MaxToken` 1, `InOrder = FALSE` | all properties of `PageEditor` |
| `editor_conflict` | `InOrder = TRUE` | finding: automatic saving resumes after a conflict |
| `editor_unload` | `InOrder = TRUE` | finding: no unload warning although nothing is stored |
| `assets` | two assets, two calls, one content that verifies and one that does not, `PendingLimit` 1, `ReadyLimit` 1, `Batch` 1, `Lifetime` 1, `MaxTime` 2, `MaxUploads` 2 | the properties of `MemberAssets`, and the refinement |
| `asset_orphan` | the same | finding: a row is removed while its object exists |
| `game_auth` | one client, two statements in flight, `Day` 2, `Minute` 1, `MaxTime` 2, two sign-ins, two codes | the properties of `GameAuth`, and the refinement |
| `game_auth_replay` | the same | finding: a replay does not revoke once a newer code exists |
| `members` | one machine at a time of: the session (two documents, two revisions, two tokens, two troubles), the document three times over, rich text, sign-in (two members, two tabs, two attempts, one game request), uploads (two assets, two files, two refreshes, one asset allowed to be ready), verification (three contents, three lengths), images | `SessionsHonest`, `DocumentsSound`, `SignInsBound`, `PicturesAccounted` |
| `puffcade` | one machine at a time of: the daily game (words of three letters, two attempts, two words, two accounts, one tab, two days), the daily game over three days with a missed day and Unlimited totals, Unlimited Puffdle, the snake on a grid of 3 by 3, Suipuff with three tiers and four drops, Flappy Puff with four gates and two widths, the arcade boards | `AnswersTruthful`, `ScoresAccounted`, `EnginesSound`, `BoardsKeepScores`, `BoardsOnlyGrow`, `PendingSettles` |

**Bounds.** Two calls are what an interleaving of two-statement operations
needs; moderation, reassignment, deletion and the rollout are steps of their
own and need no call. The documents of `page` differ in each test the code makes:
a plain legacy page, a legacy page with an uploaded image, and one with that
image and a theme the legacy editor cannot represent. A retired pair can only
come from before it was retired, so `page_v2_content` starts from such rows.
Its pages may start out published, so
that a legacy save meets a V2 snapshot behind a legacy draft. Two revisions let
a stale save and a stale reset miss, and two tokens let an unpublish aimed at the first publication
meet the second, whichever token is the smaller. A rate limit of one is reached and reset. The editor needs
three documents so that what a reset set aside, what is in flight and what is
stored can all differ. Calls and accounts are symmetric in `page` (no liveness
is checked there); the editor runs use no symmetry. `PublishCommit`,
`LegacyPublish` and `WriteDraft` are disabled at the bounds rather than
wrapping.

In `assets` two calls overlap at every statement; uploads, references and the
clock are steps of their own. Both limits are reached by the first asset and met
by the second, a batch of one leaves a due row behind for the next clean-up, two
uploads replace an object, and the clock passes the expiry of rows allocated at 0
and at 1. Assets and calls are symmetric. `Insert` needs an unused asset,
`Upload` and `Tick` stop at their bounds.

In `game_auth` a client shares only the session with another, and no property
relates two, so one is enough. Two statements overlap, and a third commits
between the halves of the first by beginning and finishing there. The clock
reaches the end of a session (`Day`) and passes that of a code (`Minute`); the
same run with `MaxTime` 3, which sees a second session expire, also passes but
takes longer. Two sign-ins give a token of a past session, two codes a
superseded one. The calls are symmetric. `FinishLogin`, `FinishIssue` and `Tick`
are disabled at the bounds.

`members` and `puffcade` each check several machines that share no state: the
first step of a behaviour chooses a machine, and the variables of the others keep
one value, so the states are the sum of the machines' and not their product. What
one machine says of another, as `AssetUploads` of the server, is in its own module.

In `members`, two documents tell a draft from one that replaced it, two revisions let
a late save miss, and two tokens let an unpublish aimed at the first publication
meet the second; the three bounds of a session are not all used up together
(`MCTroubleAndTokens`). The document is checked with collections (galleries of one
to two pictures, so that a third can be confirmed in a full one, and a featured
project of at most one), with text and links, published
and reset, and with four blocks, which is two rows and the block limit at once; six
ids allow a deletion, its Undo and what comes after. In sign-in a second tab crosses
every step of the first, two attempts give a stale and a fresh cookie, and members
and tabs are symmetric. Uploads have two files, so that one fails while the other is
picked, two assets with one allowed to be ready, and two things under way, two
refreshes among them; the library is in one tab. Once an answer was lost or an upload
ran out nothing goes on beside anything else, and an upload that is not pending runs
out only while a run still wants it. Assets and refreshes are symmetric. Lengths of 1, 2 and 6 units under a prefix
of 4 take a verification through every way of reading. The files of the inspection
are all sequences of parts up to the lengths in `MCMaxParts`, which pass the limits
of `MCMaxEntries` by one; a meta box with
something unusual in it is tried with the boxes around it as usual (`MCMetas`,
`UsualBoxes`), which its reading does not depend on. Rich-text values have up to six
nodes of which at most one is odd (`OneOddity`), so every rule is met alone at every
place of every tree, and both counters at their limits.

In `puffcade`, words of three letters over three letters contain every kind of
repetition the two passes of `EvaluateGuess` tell apart; two attempts lose a game on
the second. The machine "daily" has two days with one midnight, which comes between
any two statements; one give-up leaves one guess behind, one change of the cookie signs
out or in. The machine "days" has three days, so that one between two games can be
missed, two saves of Unlimited totals and a cap of four games, which they reach; the
guesses are made in another browser while a tab watches. Two
Unlimited or arcade runs queue one score behind another, one cut or fault loses an
answer, one instant lets a statement begin before and finish after another. A grid
of nine cells is filled by a snake of two that grows without end after two words, and three tiers, two of
them dropped, reach the jackpot with four drops.

Deadlock is checked in every other run. In `members` and `puffcade` a machine stops
when its bound is used up, a file is read or a run of a game is over.

**Fairness.** `PageEditor` and `DailyPuffdle` assume some. In the daily game
(`DailyFairness`) the 30 second timer of a tab with an unsettled guess asks again, a
server that is asked takes its steps, and an answer is received; giving up, signing in
and playing are not fair, and giving up is bounded. In `PageEditor` the debounce timer fires, a browser
settles every fetch (with an answer or a rejection), and React follows the
cleanup of an effect it replays by its set-up, so `Resume` is fair. The owner's
actions are not fair. `WorkSettles` excuses an owner who never stops editing and
a tree remounted for ever.

**External assumptions.**

* Publication tokens are unique. The token is NOW(), in microseconds: the instant the
  publishing statement began, before it waited for the row. Tokens therefore need not
  rise from one publication to the next. A publication that had taken effect before
  a publish read the page has a smaller token than that publish will set. Two
  publications that began in the same microsecond are not modelled.
* `DrainedRollout`: the rollout list changes with no call in flight. The run
  `page_rolling_deploy` drops the assumption.
* `InOrder`: Next.js dispatches the server actions of one tab one at a time,
  and the revisions of a row only grow. It is assumed only for the two editor
  findings, where it makes the traces possible in the real program; the
  properties that hold are checked and proved without it.
* The editor is opened on a page without a moderation hold. `dispose` is never
  called by the hook and is left out.

* In `MemberAssets`: application, database and R2 read one clock; R2 refuses a
  PUT from the moment the row expires; an ETag identifies a content; object keys,
  which are random, are unique. A document refers to an asset while it is ready
  (the check autosave makes; that the other writes keep to it is `MemberPage`'s
  `ReferencedAssetsUsable`).
* In `GameAuth`: hashes are unique, and the database has one clock that does not
  go back. A suspension follows Runbook A as
  `tests/integration/db-queries.test.ts` 1760-1807 executes it: the session is
  deleted before the suspension is lifted. A code presented with another
  client's callback or verifier matches no row in either statement and changes
  nothing, so it is left out. Account erasure is not modelled.
* In `PageSession`: the server actions of a tab are dispatched one after another,
  so a save waits for a publish; a request that was cut off arrives at most once.
* In `SignIn`: signatures hold, so a cookie is the attempt, request or session it
  names; Discord redeems a code once.
* In `DailyPuffdle`: the totals' cap (1 000 000) is not below the days played; with
  Unlimited totals on top the row may reach it; the word of a day does not change; the totals
  handed in pass the route's own checks (`ValidStats`).
* In `AssetVerification`: an ETag identifies a content, and the declared length is
  signed into the URL.
* In `FlappyPuff`: the widths a canvas takes differ so little that gates keep a gap
  and one of them is before the bird (`RoomAssumption`). `lib/puff/game.ts` spaces
  them 320 to 400 apart, a gate being 68 wide; a canvas made many times narrower in
  flight would press the gates onto each other.

### Findings

1. `page_rolling_deploy`: `updateOwnedMemberPage` checks that the stored
   documents are representable in one statement and overwrites them in another
   guarded by slug and owner only (`lib/members/dal.ts` 641-708).
2. `editor_conflict`: a save queued behind a publish that conflicts, answered
   `invalid`, takes the controller out of the conflict state and starts a new
   save (`autosave-controller.ts` 497-510).
3. `editor_unload`: Retry during a reset finds an emptied queue and reports
   `saved` (`autosave-controller.ts` 228-231).
4. `game_auth_replay`: `docs/GAME_OAUTH.md` 71-72 promises that a replay revokes
   the corresponding token. The row of a bought code is overwritten by the next
   one issued (`lib/auth/game-db.ts` 229-238), after which a replay of the bought
   code finds no row and its token stays.
5. `asset_orphan`: a test's title promises that deletion "retains a hidden claim
   through replay risk and re-deletes after expiry"
   (`tests/unit/member-v2-asset-dal.test.ts` 806), and the comment at
   `lib/members/assets/dal.ts` 41-43 that metadata goes "after upload URL expiry
   and confirmed R2 deletion". The row is removed when the URL has expired by the
   time of the removing statement (463, 474), although the object was deleted
   before that: an upload between the two stays without a row.

## 4. The proofs

`tlapm` checks every theorem for all values of the constants that satisfy
the assumptions its modules declare.

| Proofs | Assumptions |
|---|---|
| `MemberPageProofs` | `PageAssumption` |
| `EditorProofs` | `EditorAssumption`, `SessionAssumption`, `EditorDocumentAssumption`, `RichTextAssumption` |
| `MemberAssetsProofs` | `AssetsAssumption`, `ContentsAssumption`, `LimitsAssumption` |
| `PictureProofs` | `UploadsAssumption`, `ImagesAssumption`, `ContentsAssumption` |
| `GameAuthProofs` | `ClientsAssumption`, `TimesAssumption`, `BoundsAssumption` |
| `SignInProofs` | `SignInAssumption` |
| `DailyPuffdleProofs` | `DailyPuffdleAssumption`, `PuffdleScoresAssumption`, `PuffdleGameAssumption` |
| `PuffcadeProofs` | `PuffdleBoardAssumption`, `PuffdleScoresAssumption`, `ArcadeBoardAssumption`, `PuffSnakeAssumption`, `SuipuffAssumption`, `FlappyPuffAssumption`, `RoomAssumption` |

Most say that a bound is a number and a marker is not a value it marks. Four say more:
`DailyPuffdleAssumption` that the days played stay below the totals' cap,
`RoomAssumption` that the gates of Flappy Puff have room on every canvas,
`RichTextAssumption` that only text has characters and marks, and
`EditorDocumentAssumption` that at most two featured projects are allowed (the code
allows one): `duplicateBlock` asks whether there is room for one more, so with a limit
of three a row of two could be copied past it.

**Numbers.** The library's induction theorems take an operator, which no installed
prover instantiates. Where a proof needs induction (the two passes of a guess, the
statistics of many days, the boxes of a file, the characters of a value, the worth
of a tray) it takes the
least number at which the claim would fail (`LeastNumber`, from
`WellFoundedInduction`), and `RecursionExists` shows that a function defined by
recursion along the numbers is one, by joining the functions that satisfy it up to
each number.

**`MemberPageProofs`.** Few of the safety properties are inductive by
themselves. The inductive invariant grows in three layers.

* `TypeOK`, which also says that a call that read a document holds one. Its
  proof has a lemma per kind of assignment to `calls` and one per group of
  actions.
* What holds under any rollout. `RowSteps` sorts every step into what it does to
  the row (saved, restored, saved through, published, hidden, hold cleared, or
  kept) and is cited by all that follows. `PublicationConsistent` is inductive
  on it: clearing a hold leaves the page hidden, and both publishes test the
  hold in the statement that publishes. `CallsKnow` adds that a publish in
  flight which names the current revision was sent by someone looking at the
  current draft, whence `PublishShipsExpectedRevision`.
* `DrainedInv`, under `DrainedRollout`. The asset references need the legacy
  save: between its read and its write the V2 editor must not have written or
  deleted anything, because a call in flight belongs to the editor its slug is
  assigned to (`RolloutRespected`). `ReferencesStayUsable`, `CallsStayInformed`
  and `LegacySavesKeepV2Content` therefore assume `DrainedRollout`; the other
  theorems do not.

`TokensTell` says that the row's token is that of the last publication and that no two
are equal, so equal tokens mean the same publication; with `CallsKnow`,
`OnlyWhatWasSeenIsTaken` follows from the guards of unpublish and reset.

`PageImplementsRegister` maps the initial states and each step to a step of
`PageRegister` or a stutter.

**`EditorProofs`, the editor.** The inductive invariant joins `TypeOK`,
`EditsAccountedFor`, `NoEditStranded`, `ResetPhases` (the reset context is open
exactly while `busy` says so, no save waits behind it, and once the reset has
been sent none is in flight) and `StateTellsWork` (what `state`
says about the queue). Neither `EditsAccountedFor` nor `ResetOwnsTheOrder`
survives a step without the other two: an accepted save may be adopted only
because a reset that is under way has emptied the queue. The invariant is proved
of `EditorSteps`, the steps of an editor whose server answers with any revision and
token in any order, so that both `Next` and the session's steps are instances.

**`EditorProofs`, the session.** `SessionInv` joins the editor's invariant with what is known of
revisions. A request is `Sound` if its revision is not ahead of the page's and, while
it still is the page's, nobody else has written since it was sent, so that a publish
finds the document it was meant for; an answer that a write was done carries the
page's document until the revision moves on. What the tab itself has read is of
the same kind (`TabReads`). Since a revision only grows, and names one draft while it
stays, soundness survives whatever happens to the page (`SoundStays`); a step of the
tab (`TabFollows`) only has to show that what it sends carries what it read, and a
step of the server (`ServerFollows`, `AnsweredIsSound`) that what it answers is so.
`SessionsAreHonest` follows: a write that stands finds nothing unseen, a publish that
stands finds what was shown. For "saved" a second invariant, `Told`, says what the tab
has been told: while the line says saved, or a reset that fails will make it say so,
what was last acknowledged is the stored draft, unless that is unseen or the answer to
the reset is still on its way.

**`EditorProofs`, the blocks.** `DocumentInv` says that the page is `Good` (each block
within the limits of its kind, every two `Apart` in their ids, the limits of blocks and
of featured projects kept), that Undo holds a good block that shares no id with the
page, and that the published blocks are good as well. A gallery is a good
block however many pictures it has. Each operation is reduced to one way of changing a page: `Carries` says which
blocks of the new page are those of the old (an injection of places), `Retains` that
none got lost, and `GoodWith` that a page is good which carries a good one and adds
blocks that are `Welcome`. Limits are cardinalities of sets of places, so the copy of
a row, a move and the insertion from Undo need no reasoning about nested sequences.
`DocumentIsKept` is the result.

**`EditorProofs`, rich text.** The parser knows only counters and, for each node it is
in, whether that has content. `ProseInv` says what this means: without a complaint
(`Exact`) each of these is the last node read at its depth and the counters are those
of the whole value; with one the value is `Doomed`, since a node is not allowed, a
limit is passed, or a node that was left has no content. `DoomedStays` shows that
nothing that follows mends it, `ParsesIsAllowed` that a node parses exactly when the
rules allow it there, `LeftStay` and `AncestorsStay` that the knowledge stays exact.
`ProseStaysKept` follows at the end of a value, where what may still be wanting are
the open nodes alone. `DocumentsAreSound` joins both.

**`MemberAssetsProofs`.** One inductive invariant, `IInv`: `TypeOK`,
`CountersExact`, `RowSound` of each asset (what a row, its object and its URL have
to do with each other) and `CallSound` of each call (what a call still knows: the
rows it sweeps are condemned or gone; the one it is about to remove has no object
or was deleted early; what it verified is what is stored, if the asset was uploaded
once and is pending). The counters' ranges follow from the limits only together with
`CountersExact`, since a decrement needs a row that was counted. The
difficulty is that every step must keep the knowledge of every other call:
`Progress` says what any step may do to an asset behind a call's back, and
`CallStaysSound` that a call's knowledge survives it, so each action only has to
show `Progress` and its own call. `ClaimKeeps` does this once for all statements
that claim rows. `CountersExact` needs the lemmas on cardinalities of the rows
added, claimed and removed; `ShelfStep` sorts every step into an operation of
`AssetShelf` or a stutter.

**`GameAuthProofs`.** Two inductive invariants over `TypeOK`.

* `SessionInv` joins `SourcedTokens` (a token has a source session),
  `SnapshotExpiry` (an exchange that verified the present session holds its
  present expiry), `TokenWithinSession`,
  `MembershipWindowIsSession` and `RejectionHolds` (after a rejection the account
  is not eligible, is suspended, or has no session). `TokenWithinSession` needs
  `SnapshotExpiry`, since the purchase uses an expiry read earlier; it follows
  because a sign-in that changes the expiry changes the hash.
  `InactiveStaysInactive` follows from `SessionInv`: a fresh hash is no
  token's source, and only a sign-in makes an account eligible.
* `GrantInv` joins `NumberedCodes`, `NumberedRequests`, `ReplayedSpent` (a code
  whose replay is being refused is spent if it is still the newest),
  `RevocationSeesToken` (a revocation in flight saw the row of the token it is
  to delete, if that token stands) and `ReplayVoidsToken`. It also gives the
  refinement: a code that can be bought is the newest.

**`SignInProofs`.** `SignInInv` has the types and, for every tab, what its request and
the answer on its way to it may say (`TabsSound`): a request carries cookies that were
in the jar, an ended game request is in no answer that would put it back
(`RequestsKnown`, `RequestsFresh`). `EndedStaysEnded` is then inductive, for any
number of tabs. `SessionsInv` adds what the route of each answer does to the session
cookie (`RoutesAnswer`) and that jar, answer and row agree unless answers crossed
(`SessionsAgree`), whence `BrowserSessionLives`.

**`PictureProofs`.** Three arguments, one for each machine, joined by
`PicturesStayAccounted`.

* *Uploads, what is reported.* The inductive invariant says of every run, waiting retry and answer on
  its way what `RunSound` says: its asset is known to the server, nothing but the
  run's own file was stored under it, and nobody was told of it before; an upload
  that was answered is among the verified. A retry starts from the stage it failed
  at with the asset it had, which is where two files could meet; they cannot, since
  assets are allocated once.
* *Uploads, what is shown.* `TilesInv` says of each asset that tile and row differ
  only while the answer that made them differ is still to be heard, by the run, by the
  check or deletion, or never (`behind`). Of a call that was served
  (`FinalizeStands`, `DeleteStands`) the row became what the answer says or stayed.
* *Verification.* `VerifiedIsStatic` is inductive once the ETag of the HEAD is known
  to be a content and the range to be positive and within both lengths; each read is
  of the object of the HEAD or fails, however often it was replaced.
* *Inspection.* A walk sees each part once; the rules speak of the whole sequence.
  While the verdict is open, `Underway` says what the marks tell of the parts read
  (which kinds there were, and in which order). A file called static satisfies
  the rules (`PngTakesStill` and its like); a file refused after some parts is
  `Doomed`: no file of the format that begins with them is a still picture, because
  one that satisfies the rules satisfies them for each of its beginnings
  (`PngAdmitsStill` and its like). For AVIF the properties, extents and sizes in its
  meta box are folds, compared with the rules by `ItemsStill`, `LocationsStill` and
  `SizesStill`. The theorem holds for whatever limits `MaxEntries` sets.

**`DailyPuffdleProofs`.** The inductive invariant has the types, that no game of a day to
come was begun, that each score row is what the account's finished games and the Unlimited totals
handed in add up to (`RowAccounts`), and what a request knows on its way (`CallKnows`): one that was
written and not refused has its guess recorded, one that has read holds a prefix of
the game. Games only grow (`Grows`), so a request's knowledge survives all others'
steps. `RowFollows` is the arithmetic of one more finished game: played, won, the
streak across missed days and the best score, over whatever totals were handed in
before; its counterpart for `SaveUnlimited` is that of one more set of totals. A
maximum of capped sums stays one when all of them grow by the same game, which is why
the largest is the row's.

`AnswersTruthful` adds what is told. `TellInv` has, for every call and every tab, that
what it holds was so on the server when it was read (`Told`, `StreakTold`), that a guess
on its way is for a place the game had reached (`Placed`), and that one which the
server refused has its place taken or its game over (`Overtaken`). Every step is
`Goes`: games only grow, and only that of the present day does (`Onward`), so what was
told stays true. That tiles tell the truth is the lemma on the two passes of
`EvaluateGuess`: `PassSound` counts, letter by letter, what the first pass left and the
second used up. Keys are the best of their tiles (`BestOf`), and the streak of the
history is that of the games (`HistorySound`).

**`PuffcadeProofs`.** Boards first.

* *Unlimited Puffdle.* `BoardInv`: every best handed in is in the row or still
  pending (`Covered`), an answered POST carried what the row has now, and rows, as
  well as the saves sent late, satisfy the table's CHECKs. `NeverLess` says of each
  way of writing the row that nothing in it falls.
* *Arcade boards.* `ArcadeInv`: what a page shows as best is backed by the row, a
  queued score has a POST of this page out unless the page was told it is signed
  out, and a score due is in the row, queued or on its way. The queued games have
  one POST of their own at a time, which is why no older answer lowers a best.

Then the engines, joined by `EnginesStaySound`.

* *The snake.* `SnakeInv` adds to the property that the cell behind the head is the one it
  came from, and that the turn asked for is not back onto it (`Heading`). A pickup
  on an occupied cell is excluded by the search for a free one, which fails only on
  a full grid.
* *Flappy Puff.* A gate that comes back has counted, since the margin is behind the
  bird and gates are counted before they are moved. That gates keep a gap and one is
  to come needs `InPlace`: no two are nearer than the gap, those that counted are short
  of a lead and none is behind a tail, where gap, lead and tail stretch with the canvas
  as the gates do. `RoomAssumption` says that all gates do not fit between tail and
  lead, so one is beyond it and has not counted.
* *Suipuff.* The sum of the tray is a sum over tiers. Pairs that merge in a step are
  disjoint, so each tier loses the pairs of its own (`TierLoses`) and gains those of the
  tier below (`TierGains`); a piece of the next tier is worth the two it was made of and
  the score of the merge, so over the tiers the sums telescope (`Telescope`,
  `Conserved`). New pieces take ids that were never used (`SpawnIds`).

**Model-checked only.** `WorkSettles`, `ResetAlwaysEnds` and `PendingSettles`: liveness
under fairness is out of the prover's reach.

## 5. Not modelled

* Rendering, routing and style sheets; scripts, CI and migrations tooling: no
  protocol state.
* Floating-point geometry: which pieces of Suipuff touch, how high the bird of
  Flappy Puff flies, the canvas work of image normalisation, drawing.
* Characters, bytes and formats: which characters and URLs rich text refuses, the
  letters of the word lists, pixel data, widths of lengths and checksums (a part of a
  file is whole or not), why a file is uncertain, signatures, hashing, the byte limit of
  a document, the palettes of themes and the conversion of legacy pages (only which
  pairs are retired and which documents the legacy editor can represent).
* Presentation in a document: a row's ratio, the order inside a collection.
* Of `MemberPage`: the legacy content columns (a legacy publish may match or not),
  slug allocation (its row is an initial state), the directory query.
* Of `MemberAssets`: the hourly windows of allocation and finalizing, reassignment of
  the page while a call runs (each statement then finds nothing and the call ends, as
  by `Abort`), the public metadata read.
* Of `GameAuth` and `SignIn`: account erasure, the subject a game knows an account by,
  roles and usernames.
* Of the boards: the ranking of other members and the names beside it.

## 6. Running

    tlc -config MCMemberPage.cfg MCMemberPage
    tlc -config MCPageEditor.cfg MCPageEditor
    tlc -config MCMemberAssets.cfg MCMemberAssets
    tlc -config MCGameAuth.cfg MCGameAuth
    tlc -config MCMembers.cfg MCMembers
    tlc -config MCPuffcade.cfg MCPuffcade
    tlapm MemberPageProofs.tla
    tlapm EditorProofs.tla
    tlapm MemberAssetsProofs.tla
    tlapm PictureProofs.tla
    tlapm GameAuthProofs.tla
    tlapm SignInProofs.tla
    tlapm DailyPuffdleProofs.tla
    tlapm PuffcadeProofs.tla
