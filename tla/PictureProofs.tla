----------------------------- MODULE PictureProofs -----------------------------
(***************************************************************************)
(* What the machines of Pictures promise, for all constants: every picture *)
(* picked stays accounted for and its asset keeps to the shelf's rules;    *)
(* what verification records is the identity of a still picture, however   *)
(* often the object is replaced between the reads.                         *)
(***************************************************************************)
EXTENDS Pictures, FiniteSetTheorems, SequenceTheorems, WellFoundedInduction, TLAPS

Known == allocated \cup ready \cup condemned \cup removed
Verified == ready \cup removed

\* A run with an asset of its own: known to the server, with nothing stored
\* under it but the run's file, and never reported.
RunSound(r, K, V, o, p, n) ==
  /\ r \in Recoveries /\ r.file \in 1..n /\ p[r.file] = NoAsset
  /\ r.stage = "normalize" => r.answer = "none"
  /\ r.stage \in {"put", "finalize"} \/ (r.stage = "allocate" /\ r.answer = "ok") =>
       r.asset # NoAsset
  /\ r.asset # NoAsset => r.asset \in K /\ o[r.asset] \in {0, r.file}
                          /\ \A f \in 1..MaxFiles : p[f] # r.asset
  /\ r.stage = "finalize" /\ r.answer = "ok" => r.asset \in V

UploadTypes ==
  /\ allocated \subseteq Assets /\ ready \subseteq Assets
  /\ condemned \subseteq Assets /\ removed \subseteq Assets
  /\ object \in [Assets -> Nat] /\ library \in Libraries
  /\ upload \in Recoveries \cup {NoUpload} /\ failed \in Recoveries \cup {NoUpload}
  /\ files \in 0..MaxFiles /\ reported \in [1..MaxFiles -> Assets \cup {NoAsset}]
  /\ asking \in Calls \cup {NoCall}
  /\ listings \in [Refreshes -> Libraries \cup {NoListing, Unread}]

\* What the editor may have heard, or may still hear, is verified.
Heeded(l, lists, c, V) ==
  /\ \A a \in Assets : l[a] = "ready" => a \in V
  /\ c # NoCall /\ c.kind = "check" /\ c.answer = "ok" => c.asset \in V
  /\ \A r \in Refreshes : lists[r] \notin {NoListing, Unread} =>
       \A a \in Assets : lists[r][a] = "ready" => a \in V

Stored(o, p, K) ==
  /\ \A a \in Assets : a \notin K => o[a] = 0
  /\ \A f \in 1..MaxFiles : p[f] # NoAsset => p[f] \in K /\ o[p[f]] \in {f, 0}

Runs(u, x, K, V, o, p, n) ==
  /\ u # NoUpload => x = NoUpload /\ RunSound(u, K, V, o, p, n)
  /\ x # NoUpload => RunSound(x, K, V, o, p, n) /\ x.answer = "none"

\* The last file picked is still there, and no file is reported before it is picked.
LastIsKept ==
  /\ files > 0 =>
       \/ reported[files] # NoAsset
       \/ \E run \in {upload, failed} \ {NoUpload} : run.file = files
  /\ \A f \in 1..MaxFiles : f > files => reported[f] = NoAsset

UploadInv ==
  /\ UploadTypes
  /\ Runs(upload, failed, Known, Verified, object, reported, files)
  /\ Stored(object, reported, Known)
  /\ Heeded(library, listings, asking, Verified)
  /\ LastIsKept

\* What the rows do to the sets the invariant speaks of.
LEMMA ShelfMoves ==
  ASSUME UploadTypes
  PROVE  /\ \A a \in Assets : Shelf!Allocate(a) =>
              /\ Known' = Known \cup {a} /\ a \notin Known /\ Verified' = Verified
              /\ allocated' \subseteq Assets /\ UNCHANGED <<ready, condemned, removed>>
         /\ \A a : Shelf!Admit(a) =>
              /\ Known' = Known /\ Verified' = Verified \cup {a} /\ a \in Assets
              /\ allocated' \subseteq Assets /\ ready' \subseteq Assets
              /\ UNCHANGED <<condemned, removed>>
         /\ \A S : Shelf!Condemn(S) =>
              /\ Known' = Known /\ Verified' = Verified /\ S \subseteq Assets
              /\ allocated' \subseteq Assets /\ condemned' \subseteq Assets
              /\ UNCHANGED <<ready, removed>>
         /\ \A a : Shelf!Remove(a) =>
              /\ Known' = Known /\ Verified \subseteq Verified' /\ a \in Assets
              /\ ready' \subseteq Assets /\ condemned' \subseteq Assets /\ removed' \subseteq Assets
              /\ UNCHANGED allocated
<1> USE DEF UploadTypes, Known, Verified
<1>1. ASSUME NEW a \in Assets, Shelf!Allocate(a)
      PROVE  /\ Known' = Known \cup {a} /\ a \notin Known /\ Verified' = Verified
             /\ allocated' \subseteq Assets /\ UNCHANGED <<ready, condemned, removed>>
  BY <1>1 DEF Shelf!Allocate
<1>2. ASSUME NEW a, Shelf!Admit(a)
      PROVE  /\ Known' = Known /\ Verified' = Verified \cup {a} /\ a \in Assets
             /\ allocated' \subseteq Assets /\ ready' \subseteq Assets
             /\ UNCHANGED <<condemned, removed>>
  BY <1>2 DEF Shelf!Admit
<1>3. ASSUME NEW S, Shelf!Condemn(S)
      PROVE  /\ Known' = Known /\ Verified' = Verified /\ S \subseteq Assets
             /\ allocated' \subseteq Assets /\ condemned' \subseteq Assets
             /\ UNCHANGED <<ready, removed>>
  BY <1>3 DEF Shelf!Condemn
<1>4. ASSUME NEW a, Shelf!Remove(a)
      PROVE  /\ Known' = Known /\ Verified \subseteq Verified' /\ a \in Assets
             /\ ready' \subseteq Assets /\ condemned' \subseteq Assets /\ removed' \subseteq Assets
             /\ UNCHANGED allocated
  BY <1>4 DEF Shelf!Remove
<1> QED  BY <1>1, <1>2, <1>3, <1>4

LEMMA UploadsAccountedFor ==
  ASSUME UploadInv
  PROVE  NoPickIsLost /\ ReadyIsTheFile
<1>1. \A f \in 1..files : reported[f] # NoAsset => object[reported[f]] \in {f, 0}
  BY UploadsAssumption DEF UploadInv, Stored, UploadTypes
<1>2. \A a \in Assets : library[a] = "ready" => a \in ready \cup removed
  BY DEF UploadInv, Heeded, Verified
<1>3. NoPickIsLost  BY DEF UploadInv, LastIsKept, Runs, RunSound, NoPickIsLost
<1> QED  BY <1>1, <1>2, <1>3 DEF UploadInv, ReadyIsTheFile

LEMMA UploadsBegin ==
  ASSUME UploadsInit
  PROVE  UploadInv
<1>1. UploadTypes
  <2>1. listings \in [Refreshes -> Libraries \cup {NoListing, Unread}]  BY DEF UploadsInit
  <2> QED  BY <2>1, UploadsAssumption DEF UploadsInit, Shelf!Init, UploadTypes, Libraries
<1>2. Runs(upload, failed, Known, Verified, object, reported, files)  BY DEF UploadsInit, Runs
<1>3. Stored(object, reported, Known)  BY DEF UploadsInit, Stored
<1>4. Heeded(library, listings, asking, Verified)  BY DEF UploadsInit, Heeded
<1> QED  BY <1>1, <1>2, <1>3, <1>4 DEF UploadInv, LastIsKept, UploadsInit

(***************************************************************************)
(* The editor's own steps leave the rows and the objects alone.            *)
(***************************************************************************)
LEMMA EditorStep ==
  ASSUME UploadInv, UNCHANGED <<shelf, object>>, UploadTypes',
         Runs(upload', failed', Known, Verified, object, reported', files'),
         Stored(object, reported', Known),
         Heeded(library', listings', asking', Verified),
         LastIsKept'
  PROVE  UploadInv'
<1>1. Known' = Known /\ Verified' = Verified /\ object' = object  BY DEF shelf, Known, Verified
<1> QED  BY <1>1 DEF UploadInv, Runs, Stored, Heeded

\* A run that waits in memory, begun again or taken up where it stopped.
LEMMA RunBegins ==
  ASSUME NEW n \in Nat, NEW file \in 1..n, NEW K, NEW V, NEW o, NEW p,
         NEW at \in {"normalize", "allocate"}, p[file] = NoAsset
  PROVE  /\ RunSound(Recovery(file, at, NoAsset), K, V, o, p, n)
         /\ Recovery(file, at, NoAsset) # NoUpload
         /\ Recovery(file, at, NoAsset).file = file
         /\ Recovery(file, at, NoAsset).answer = "none"
<1>1. Recovery(file, at, NoAsset) \in Recoveries  BY DEF Recovery, Recoveries, Answers
<1>2. Recovery(file, at, NoAsset) # NoUpload  BY <1>1, UploadsAssumption
<1> QED  BY <1>1, <1>2 DEF RunSound, Recovery

LEMMA StagesFollow ==
  ASSUME NEW n \in Nat, NEW K, NEW V, NEW o, NEW p, NEW r, RunSound(r, K, V, o, p, n),
         r.asset # NoAsset, NEW at \in {"put", "finalize"}
  PROVE  /\ RunSound(Recovery(r.file, at, r.asset), K, V, o, p, n)
         /\ Recovery(r.file, at, r.asset) # NoUpload
         /\ Recovery(r.file, at, r.asset).file = r.file
<1>1. Recovery(r.file, at, r.asset) \in Recoveries
  BY DEF RunSound, Recovery, Recoveries, Answers
<1>2. Recovery(r.file, at, r.asset) # NoUpload  BY <1>1, UploadsAssumption
<1> QED  BY <1>1, <1>2 DEF RunSound, Recovery

LEMMA FilesAreNumbers == UploadInv => files \in Nat /\ files <= MaxFiles
BY UploadsAssumption DEF UploadInv, UploadTypes

LEMMA StepPickFile ==
  ASSUME UploadInv, PickFile
  PROVE  UploadInv'
<1>1. /\ files' = files + 1 /\ upload' = NewRun(files + 1) /\ failed' = NoUpload
      /\ files < MaxFiles
      /\ UNCHANGED <<shelf, expired, object, unheard, library, reported, asking, listings>>
  BY DEF PickFile, server, shown, heard
<1>2. PICK n \in Nat : n = files + 1 /\ n \in 1..MaxFiles /\ reported[n] = NoAsset
  <2>1. files + 1 \in 1..MaxFiles /\ files + 1 > files
    BY <1>1, FilesAreNumbers, UploadsAssumption
  <2> QED  BY <2>1, FilesAreNumbers DEF UploadInv, LastIsKept
<1>3. /\ RunSound(upload', Known, Verified, object, reported, n)
      /\ upload' # NoUpload /\ upload'.file = n
  BY <1>1, <1>2, RunBegins DEF NewRun
<1>4. Runs(upload', failed', Known, Verified, object, reported', files')
  BY <1>1, <1>2, <1>3 DEF Runs
<1>5. UploadTypes'
  BY <1>1, <1>2, <1>3 DEF UploadInv, UploadTypes, RunSound, shelf
<1>6. LastIsKept'
  <2>1. \A f \in 1..MaxFiles : f > n => f > files
    BY <1>2, FilesAreNumbers, UploadsAssumption
  <2> QED  BY <1>1, <1>2, <1>3, <2>1 DEF UploadInv, LastIsKept
<1>7. Stored(object, reported', Known) /\ Heeded(library', listings', asking', Verified)
  BY <1>1 DEF UploadInv
<1> QED  BY <1>1, <1>4, <1>5, <1>6, <1>7, EditorStep

LEMMA StepRetry ==
  ASSUME UploadInv, RetryUpload
  PROVE  UploadInv'
<1>1. /\ upload = NoUpload /\ failed # NoUpload /\ upload' = TakeUp(failed) /\ failed' = NoUpload
      /\ UNCHANGED <<shelf, expired, object, unheard, library, files, reported, asking, listings>>
  BY DEF RetryUpload, server, shown, heard
<1>2. RunSound(failed, Known, Verified, object, reported, files)  BY <1>1 DEF UploadInv, Runs
<1>3. /\ RunSound(upload', Known, Verified, object, reported, files)
      /\ upload' # NoUpload /\ upload'.file = failed.file
  <2>1. CASE failed.stage \in {"put", "finalize"} /\ failed.asset \in expired
    <3>1. failed.file \in 1..files /\ files \in Nat /\ reported[failed.file] = NoAsset
      BY <1>2, FilesAreNumbers DEF RunSound
    <3> QED  BY <1>1, <2>1, <3>1, RunBegins DEF TakeUp
  <2>2. CASE ~(failed.stage \in {"put", "finalize"} /\ failed.asset \in expired)
    BY <1>1, <1>2, <2>2 DEF TakeUp
  <2> QED  BY <2>1, <2>2
<1>4. Runs(upload', failed', Known, Verified, object, reported', files')
  BY <1>1, <1>3 DEF Runs
<1>5. UploadTypes'
  BY <1>1, <1>3 DEF UploadInv, UploadTypes, RunSound, shelf
<1>6. LastIsKept'  BY <1>1, <1>3 DEF UploadInv, LastIsKept
<1>7. Stored(object, reported', Known) /\ Heeded(library', listings', asking', Verified)
  BY <1>1 DEF UploadInv
<1> QED  BY <1>1, <1>4, <1>5, <1>6, <1>7, EditorStep

LEMMA StepNormalize ==
  ASSUME UploadInv, Normalize
  PROVE  UploadInv'
<1>1. /\ upload # NoUpload /\ upload.stage = "normalize"
      /\ \/ upload' = Recovery(upload.file, "allocate", NoAsset) /\ failed' = failed
         \/ upload' = NoUpload /\ failed' = upload
      /\ UNCHANGED <<shelf, expired, object, unheard, library, files, reported, asking, listings>>
  BY DEF Normalize, server, shown, heard
<1>2. /\ RunSound(upload, Known, Verified, object, reported, files) /\ failed = NoUpload
      /\ upload.answer = "none"
  BY <1>1 DEF UploadInv, Runs, RunSound
<1>3. upload.file \in 1..files /\ files \in Nat /\ reported[upload.file] = NoAsset
  BY <1>2, FilesAreNumbers DEF RunSound
<1>4. PICK r : r = Recovery(upload.file, "allocate", NoAsset)  OBVIOUS
<1>5. RunSound(r, Known, Verified, object, reported, files) /\ r # NoUpload /\ r.file = upload.file
  BY <1>3, <1>4, RunBegins
<1>6. Runs(upload', failed', Known, Verified, object, reported', files')
  BY <1>1, <1>2, <1>4, <1>5 DEF Runs
<1>7. UploadTypes'
  BY <1>1, <1>2, <1>4, <1>5 DEF UploadInv, UploadTypes, RunSound, shelf
<1>8. LastIsKept'  BY <1>1, <1>2, <1>4, <1>5 DEF UploadInv, LastIsKept
<1>9. Stored(object, reported', Known) /\ Heeded(library', listings', asking', Verified)
  BY <1>1 DEF UploadInv
<1> QED  BY <1>1, <1>6, <1>7, <1>8, <1>9, EditorStep

LEMMA StepStageDone ==
  ASSUME UploadInv, StageDone
  PROVE  UploadInv'
<1>1. /\ upload # NoUpload /\ upload.answer = "ok"
      /\ UNCHANGED <<shelf, expired, object, unheard, failed, files, asking, listings>>
  BY DEF StageDone, server, heard
<1>2. /\ RunSound(upload, Known, Verified, object, reported, files) /\ failed = NoUpload
      /\ upload.stage \in {"normalize", "allocate", "put", "finalize"}
      /\ upload.stage # "normalize" /\ files \in Nat
  <2>1. RunSound(upload, Known, Verified, object, reported, files) /\ failed = NoUpload
    BY <1>1 DEF UploadInv, Runs
  <2>2. upload.stage # "normalize"  BY <1>1, <2>1 DEF RunSound
  <2> QED  BY <2>1, <2>2, FilesAreNumbers DEF RunSound, Recoveries
<1>3. /\ upload.asset # NoAsset /\ upload.asset \in Assets /\ upload.file \in 1..files
      /\ upload.asset \in Known /\ object[upload.asset] \in {0, upload.file}
  BY <1>1, <1>2 DEF RunSound, Recoveries
<1>4. ASSUME NEW at \in {"put", "finalize"}, upload' = Recovery(upload.file, at, upload.asset),
             reported' = reported,
             library' = library \/ library' = [library EXCEPT ![upload.asset] = "pending"]
      PROVE  UploadInv'
  <2>1. /\ RunSound(upload', Known, Verified, object, reported, files)
        /\ upload' # NoUpload /\ upload'.file = upload.file
    BY <1>2, <1>3, <1>4, StagesFollow
  <2>2. Runs(upload', failed', Known, Verified, object, reported', files')
    BY <1>1, <1>2, <1>4, <2>1 DEF Runs
  <2>3. library' \in Libraries /\ \A a \in Assets : library'[a] = "ready" => library[a] = "ready"
    BY <1>4, <1>3 DEF UploadInv, UploadTypes, Libraries
  <2>4. UploadTypes'
    BY <1>1, <1>4, <2>1, <2>3 DEF UploadInv, UploadTypes, RunSound, shelf
  <2>5. LastIsKept'  BY <1>1, <1>2, <1>4, <2>1 DEF UploadInv, LastIsKept
  <2>6. Stored(object, reported', Known) /\ Heeded(library', listings', asking', Verified)
    BY <1>1, <1>4, <2>3 DEF UploadInv, Heeded
  <2> QED  BY <1>1, <2>2, <2>4, <2>5, <2>6, EditorStep
<1>5. CASE upload.stage = "allocate"  BY <1>5, <1>4 DEF StageDone
<1>6. CASE upload.stage = "put"  BY <1>6, <1>4 DEF StageDone, shown
<1>7. CASE upload.stage = "finalize"
  <2>1. /\ library' = [library EXCEPT ![upload.asset] = "ready"]
        /\ reported' = [reported EXCEPT ![upload.file] = upload.asset]
        /\ upload' = NoUpload
    BY <1>7 DEF StageDone
  <2>2. upload.asset \in Verified  BY <1>1, <1>2, <1>7 DEF RunSound
  <2>3. upload.file \in 1..MaxFiles  BY <1>3, FilesAreNumbers, UploadsAssumption
  <2>4. reported \in [1..MaxFiles -> Assets \cup {NoAsset}] /\ library \in Libraries
    BY DEF UploadInv, UploadTypes
  <2>5. /\ reported' \in [1..MaxFiles -> Assets \cup {NoAsset}]
        /\ reported'[upload.file] = upload.asset
        /\ \A f \in 1..MaxFiles : f # upload.file => reported'[f] = reported[f]
    BY <1>3, <2>1, <2>3, <2>4
  <2>6. /\ library' \in Libraries
        /\ \A a \in Assets : library'[a] = "ready" => library[a] = "ready" \/ a = upload.asset
    BY <1>3, <2>1, <2>4 DEF Libraries
  <2>7. UploadTypes'
    BY <1>1, <2>1, <2>5, <2>6 DEF UploadInv, UploadTypes, shelf
  <2>8. Runs(upload', failed', Known, Verified, object, reported', files')
    BY <1>1, <1>2, <2>1 DEF Runs
  <2>9. Stored(object, reported', Known)
    BY <1>3, <2>5 DEF UploadInv, Stored
  <2>10. Heeded(library', listings', asking', Verified)
    BY <1>1, <2>2, <2>6 DEF UploadInv, Heeded
  <2>11. LastIsKept'
    <3>1. files > 0 => reported[files] # NoAsset \/ upload.file = files
      BY <1>2 DEF UploadInv, LastIsKept
    <3>2. files > 0 => reported'[files] # NoAsset
      BY <3>1, <1>2, <1>3, <2>3, <2>5, FilesAreNumbers, UploadsAssumption
    <3>3. \A f \in 1..MaxFiles : f > files => reported'[f] = NoAsset
      <4>1. \A f \in 1..MaxFiles : f > files => f # upload.file
        BY <1>2, <1>3, UploadsAssumption
      <4> QED  BY <4>1, <2>5 DEF UploadInv, LastIsKept
    <3> QED  BY <3>2, <3>3, <1>1 DEF LastIsKept
  <2> QED  BY <1>1, <2>7, <2>8, <2>9, <2>10, <2>11, EditorStep
<1> QED  BY <1>2, <1>5, <1>6, <1>7

\* A refresh that begins brings nothing yet.
LEMMA ListingsBegin ==
  ASSUME UploadInv, RefreshBegins \/ UNCHANGED heard
  PROVE  /\ listings' \in [Refreshes -> Libraries \cup {NoListing, Unread}]
         /\ \A r \in Refreshes : listings'[r] \notin {NoListing, Unread} =>
              listings'[r] = listings[r]
<1>1. listings \in [Refreshes -> Libraries \cup {NoListing, Unread}]
  BY DEF UploadInv, UploadTypes
<1> QED  BY <1>1 DEF RefreshBegins, heard

LEMMA StepStageFails ==
  ASSUME UploadInv, StageFails
  PROVE  UploadInv'
<1>1. /\ upload # NoUpload /\ upload.answer \in {"gone", "error"}
      /\ failed' = KeptForRetry(upload) /\ upload' = NoUpload
      /\ RefreshBegins \/ UNCHANGED heard
      /\ UNCHANGED <<shelf, expired, object, unheard, library, files, reported, asking>>
  BY DEF StageFails, server, shown
<1>2. /\ RunSound(upload, Known, Verified, object, reported, files) /\ failed = NoUpload
      /\ upload.file \in 1..files /\ files \in Nat /\ reported[upload.file] = NoAsset
  BY <1>1, FilesAreNumbers DEF UploadInv, Runs, RunSound
<1>3. /\ RunSound(failed', Known, Verified, object, reported, files)
      /\ failed' # NoUpload /\ failed'.file = upload.file /\ failed'.answer = "none"
  <2>1. CASE upload.answer = "gone" \/ upload.stage = "allocate"
    BY <1>1, <1>2, <2>1, RunBegins DEF KeptForRetry
  <2>2. CASE ~(upload.answer = "gone" \/ upload.stage = "allocate")
    <3>1. failed' = [upload EXCEPT !.answer = "none"] /\ upload \in Recoveries
      BY <1>1, <1>2, <2>2 DEF KeptForRetry, RunSound
    <3>2. failed' \in Recoveries  BY <3>1 DEF Recoveries, Answers
    <3>3. /\ failed'.file = upload.file /\ failed'.stage = upload.stage
          /\ failed'.asset = upload.asset /\ failed'.answer = "none"
      BY <3>1 DEF Recoveries
    <3>4. failed' # NoUpload  BY <3>2, UploadsAssumption
    <3> QED  BY <1>2, <3>2, <3>3, <3>4 DEF RunSound
  <2> QED  BY <2>1, <2>2
<1>4. Runs(upload', failed', Known, Verified, object, reported', files')
  BY <1>1, <1>3 DEF Runs
<1>5. UploadTypes'
  BY <1>1, <1>3, ListingsBegin DEF UploadInv, UploadTypes, RunSound, shelf
<1>6. LastIsKept'  BY <1>1, <1>2, <1>3 DEF UploadInv, LastIsKept
<1>7. Stored(object, reported', Known) /\ Heeded(library', listings', asking', Verified)
  BY <1>1, ListingsBegin DEF UploadInv, Heeded
<1> QED  BY <1>1, <1>4, <1>5, <1>6, <1>7, EditorStep

\* Calls and listings leave the runs alone.
LEMMA LibraryStep ==
  ASSUME UploadInv, UNCHANGED <<shelf, object, upload, failed, files, reported>>,
         library' \in Libraries, asking' \in Calls \cup {NoCall},
         listings' \in [Refreshes -> Libraries \cup {NoListing, Unread}],
         Heeded(library', listings', asking', Verified)
  PROVE  UploadInv'
<1>1. Runs(upload', failed', Known, Verified, object, reported', files')  BY DEF UploadInv
<1>2. UploadTypes'  BY DEF UploadInv, UploadTypes, shelf
<1>3. LastIsKept'  BY DEF UploadInv, LastIsKept
<1>4. Stored(object, reported', Known)  BY DEF UploadInv
<1> QED  BY <1>1, <1>2, <1>3, <1>4, EditorStep

LEMMA StepCall ==
  ASSUME UploadInv, NEW ask \in {"check", "delete"}, NEW a \in Assets, Call(ask, a)
  PROVE  UploadInv'
<1>1. /\ asking' = [kind |-> ask, asset |-> a, answer |-> "none"]
      /\ UNCHANGED <<shelf, object, upload, failed, files, reported, library, listings>>
  BY DEF Call, server, shown, heard
<1>2. asking' \in Calls /\ asking'.answer = "none"  BY <1>1 DEF Calls, Answers
<1>3. library \in Libraries /\ listings \in [Refreshes -> Libraries \cup {NoListing, Unread}]
  BY DEF UploadInv, UploadTypes
<1>4. Heeded(library', listings', asking', Verified)  BY <1>1, <1>2 DEF UploadInv, Heeded
<1> QED  BY <1>1, <1>2, <1>3, <1>4, LibraryStep

LEMMA StepCallReturns ==
  ASSUME UploadInv, CallReturns
  PROVE  UploadInv'
<1>1. /\ asking # NoCall /\ asking' = NoCall
      /\ RefreshBegins \/ UNCHANGED heard
      /\ library' = IF asking.answer = "ok"
                    THEN [library EXCEPT ![asking.asset] = ShownAfter(asking)] ELSE library
      /\ UNCHANGED <<shelf, object, upload, failed, files, reported>>
  <2>1. UNCHANGED <<server, upload, failed, files, reported>>  BY Zenon DEF CallReturns
  <2>2. /\ library' = IF asking.answer = "ok"
                      THEN [library EXCEPT ![asking.asset] = ShownAfter(asking)] ELSE library
        /\ asking # NoCall /\ asking' = NoCall
    BY Zenon DEF CallReturns
  <2>3. RefreshBegins \/ UNCHANGED heard  BY Zenon DEF CallReturns
  <2> QED  BY <2>1, <2>2, <2>3 DEF server
<1>2. /\ asking \in Calls /\ asking.asset \in Assets /\ library \in Libraries
      /\ listings' \in [Refreshes -> Libraries \cup {NoListing, Unread}]
      /\ \A r \in Refreshes : listings'[r] \notin {NoListing, Unread} => listings'[r] = listings[r]
  BY <1>1, ListingsBegin DEF UploadInv, UploadTypes, Calls
<1>3. library' \in Libraries
  <2>1. PICK x \in {"none", "pending", "ready"} :
          x = ShownAfter(asking)
    BY DEF ShownAfter
  <2>2. library' = IF asking.answer = "ok" THEN [library EXCEPT ![asking.asset] = x] ELSE library
    BY <1>1, <2>1
  <2> QED  BY <1>2, <2>1, <2>2 DEF Libraries
<1>4. \A a \in Assets : library'[a] = "ready" =>
        \/ library[a] = "ready"
        \/ a = asking.asset /\ asking.kind = "check" /\ asking.answer = "ok"
  <2>1. PICK x : x = ShownAfter(asking)  OBVIOUS
  <2>2. library' = IF asking.answer = "ok" THEN [library EXCEPT ![asking.asset] = x] ELSE library
    BY <1>1, <2>1
  <2>3. CASE asking.answer = "ok"
    <3>1. library' = [library EXCEPT ![asking.asset] = x]  BY <2>2, <2>3
    <3>2. \A a \in Assets : a # asking.asset => library'[a] = library[a]
      BY <1>2, <3>1 DEF Libraries
    <3>3. library'[asking.asset] = x  BY <1>2, <3>1 DEF Libraries
    <3>4. x = "ready" => asking.kind = "check"  BY <2>1 DEF ShownAfter
    <3> QED  BY <2>3, <3>2, <3>3, <3>4
  <2>4. CASE asking.answer # "ok"  BY <2>2, <2>4
  <2> QED  BY <2>3, <2>4
<1>5. Heeded(library', listings', asking', Verified)
  BY <1>1, <1>2, <1>4 DEF UploadInv, Heeded
<1> QED  BY <1>1, <1>2, <1>3, <1>5, LibraryStep

LEMMA StepRefresh ==
  ASSUME UploadInv, Refresh
  PROVE  UploadInv'
<1>1. /\ RefreshBegins
      /\ UNCHANGED <<shelf, object, upload, failed, files, reported, library, asking>>
  BY DEF Refresh, server, shown
<1>2. /\ library \in Libraries /\ asking \in Calls \cup {NoCall}
      /\ listings' \in [Refreshes -> Libraries \cup {NoListing, Unread}]
      /\ \A r \in Refreshes : listings'[r] \notin {NoListing, Unread} => listings'[r] = listings[r]
  BY <1>1, ListingsBegin DEF UploadInv, UploadTypes
<1>3. Heeded(library', listings', asking', Verified)  BY <1>1, <1>2 DEF UploadInv, Heeded
<1> QED  BY <1>1, <1>2, <1>3, LibraryStep

LEMMA StepListingReturns ==
  ASSUME UploadInv, ListingReturns
  PROVE  UploadInv'
<1>1. PICK r \in Refreshes :
        /\ \/ listings[r] \notin {NoListing, Unread} /\ library' = listings[r]
           \/ library' = library
        /\ listings' = [listings EXCEPT ![r] = NoListing]
  BY DEF ListingReturns, shown
<1>2. UNCHANGED <<shelf, object, upload, failed, files, reported, asking>>
  BY DEF ListingReturns, server
<1>3. /\ library \in Libraries /\ asking \in Calls \cup {NoCall}
      /\ listings \in [Refreshes -> Libraries \cup {NoListing, Unread}]
      /\ listings' \in [Refreshes -> Libraries \cup {NoListing, Unread}]
      /\ \A x \in Refreshes : listings'[x] \notin {NoListing, Unread} => listings'[x] = listings[x]
  <2>1. listings \in [Refreshes -> Libraries \cup {NoListing, Unread}]
    BY DEF UploadInv, UploadTypes
  <2> QED  BY <2>1, <1>1 DEF UploadInv, UploadTypes
<1>4. library' \in Libraries  BY <1>1, <1>3
<1>5. Heeded(library', listings', asking', Verified)
  BY <1>1, <1>2, <1>3 DEF UploadInv, Heeded
<1> QED  BY <1>1, <1>2, <1>3, <1>4, <1>5, LibraryStep

(***************************************************************************)
(* The server's steps leave what the editor shows and remembers alone.     *)
(***************************************************************************)
LEMMA RunSurvives ==
  ASSUME NEW r, NEW K, NEW V, NEW o, NEW p, NEW n, RunSound(r, K, V, o, p, n),
         NEW K2, K \subseteq K2, NEW V2, V \subseteq V2, NEW o2,
         r.asset # NoAsset => o2[r.asset] \in {0, r.file}
  PROVE  RunSound(r, K2, V2, o2, p, n)
BY DEF RunSound

LEMMA ServerStep ==
  ASSUME UploadInv, UNCHANGED <<library, failed, files, reported>>,
         UploadTypes', Known \subseteq Known', Verified \subseteq Verified',
         upload' # NoUpload => upload # NoUpload /\ upload'.file = upload.file
                               /\ RunSound(upload', Known', Verified', object', reported, files),
         upload' = NoUpload => upload = NoUpload,
         failed # NoUpload /\ failed.asset # NoAsset => object'[failed.asset] \in {0, failed.file},
         Stored(object', reported, Known'),
         Heeded(library, listings', asking', Verified')
  PROVE  UploadInv'
<1>1. Runs(upload', failed', Known', Verified', object', reported', files')
  <2>1. failed # NoUpload => RunSound(failed, Known', Verified', object', reported, files)
    BY RunSurvives DEF UploadInv, Runs
  <2> QED  BY <2>1 DEF UploadInv, Runs
<1>2. LastIsKept'  BY DEF UploadInv, LastIsKept
<1> QED  BY <1>1, <1>2 DEF UploadInv

\* Nothing is stored or taken from the objects, but the rows may have moved.
LEMMA RowsMove ==
  ASSUME UploadInv, UNCHANGED <<object, library, upload, failed, files, reported>>,
         UploadTypes', Known \subseteq Known', Verified \subseteq Verified',
         Heeded(library, listings', asking', Verified')
  PROVE  UploadInv'
<1>1. upload # NoUpload => RunSound(upload, Known', Verified', object, reported, files)
  <2>1. upload # NoUpload => RunSound(upload, Known, Verified, object, reported, files)
    BY DEF UploadInv, Runs
  <2> QED  BY <2>1, RunSurvives DEF RunSound
<1>2. failed # NoUpload /\ failed.asset # NoAsset => object[failed.asset] \in {0, failed.file}
  BY DEF UploadInv, Runs, RunSound
<1>3. Stored(object, reported, Known')  BY DEF UploadInv, Stored
<1> QED  BY <1>1, <1>2, <1>3, ServerStep

LEMMA HeededStill ==
  ASSUME NEW l, NEW lists, NEW c, NEW V, Heeded(l, lists, c, V), NEW V2, V \subseteq V2
  PROVE  Heeded(l, lists, c, V2)
BY DEF Heeded

LEMMA StepServeListing ==
  ASSUME UploadInv, ServeListing
  PROVE  UploadInv'
<1>1. PICK list : list = [a \in Assets |-> Listed(a)]  OBVIOUS
<1>2. /\ \E r \in Refreshes : listings' = [listings EXCEPT ![r] = list]
      /\ UNCHANGED <<shelf, object, upload, failed, files, reported, library, asking>>
  BY <1>1 DEF ServeListing
<1>3. list \in Libraries /\ \A a \in Assets : list[a] = "ready" => a \in Verified
  BY <1>1 DEF Libraries, Listed, Verified
<1>4. /\ library \in Libraries /\ asking \in Calls \cup {NoCall}
      /\ listings' \in [Refreshes -> Libraries \cup {NoListing, Unread}]
      /\ \A r \in Refreshes : listings'[r] \notin {NoListing, Unread} =>
           listings'[r] \in {list, listings[r]}
  <2>1. listings \in [Refreshes -> Libraries \cup {NoListing, Unread}]
    BY DEF UploadInv, UploadTypes
  <2> QED  BY <2>1, <1>2, <1>3 DEF UploadInv, UploadTypes
<1>5. Heeded(library', listings', asking', Verified)
  BY <1>2, <1>3, <1>4 DEF UploadInv, Heeded
<1> QED  BY <1>2, <1>3, <1>4, <1>5, LibraryStep

LEMMA StepTimePasses ==
  ASSUME UploadInv, TimePasses
  PROVE  UploadInv'
<1>1. UNCHANGED <<library, upload, failed, files, reported, asking, listings>>
  BY DEF TimePasses
<1>2. UploadTypes  BY DEF UploadInv
<1>3. ASSUME NEW a, UNCHANGED <<shelf, object>>  PROVE UploadInv'
  <2>1. Known' = Known /\ Verified' = Verified  BY <1>3 DEF shelf, Known, Verified
  <2>2. UploadTypes'  BY <1>1, <1>2, <1>3 DEF UploadTypes, shelf
  <2> QED  BY <1>1, <1>3, <2>1, <2>2, RowsMove DEF UploadInv
<1>4. ASSUME NEW S, Shelf!Condemn(S), UNCHANGED object  PROVE UploadInv'
  <2>1. Known' = Known /\ Verified' = Verified  BY <1>2, <1>4, ShelfMoves
  <2>2. UploadTypes'  BY <1>1, <1>2, <1>4, ShelfMoves DEF UploadTypes
  <2> QED  BY <1>1, <1>4, <2>1, <2>2, RowsMove DEF UploadInv
<1>5. ASSUME NEW a, Shelf!Remove(a), object' = [object EXCEPT ![a] = 0]  PROVE UploadInv'
  <2>1. Known' = Known /\ Verified \subseteq Verified' /\ a \in Assets
    BY <1>2, <1>5, ShelfMoves
  <2>2. /\ object' \in [Assets -> Nat] /\ \A b \in Assets : object'[b] \in {object[b], 0}
    BY <1>2, <1>5, <2>1 DEF UploadTypes
  <2>3. UploadTypes'  BY <1>1, <1>2, <1>5, <2>2, ShelfMoves DEF UploadTypes
  <2>4. \A r : RunSound(r, Known, Verified, object, reported, files) =>
          (r.asset # NoAsset => object'[r.asset] \in {0, r.file})
          /\ RunSound(r, Known', Verified', object', reported, files)
    <3> SUFFICES ASSUME NEW r, RunSound(r, Known, Verified, object, reported, files)
                 PROVE  (r.asset # NoAsset => object'[r.asset] \in {0, r.file})
                        /\ RunSound(r, Known', Verified', object', reported, files)
      OBVIOUS
    <3>1. r.asset # NoAsset => r.asset \in Assets /\ object[r.asset] \in {0, r.file}
      BY DEF RunSound, Recoveries
    <3>2. r.asset # NoAsset => object'[r.asset] \in {0, r.file}  BY <2>2, <3>1
    <3> QED  BY <3>2, <2>1, RunSurvives
  <2>5. Stored(object', reported, Known')
    <3>1. \A f \in 1..MaxFiles : reported[f] \in Assets \cup {NoAsset}
      BY <1>2 DEF UploadTypes
    <3> QED  BY <2>1, <2>2, <3>1 DEF UploadInv, Stored
  <2>6. Heeded(library, listings', asking', Verified')
    BY <1>1, <2>1, HeededStill DEF UploadInv
  <2> QED  BY <1>1, <2>1, <2>3, <2>4, <2>5, <2>6, ServerStep DEF UploadInv, Runs
<1> QED  BY <1>3, <1>4, <1>5 DEF TimePasses

\* What a check or the last stage of an upload does to the rows.
LEMMA Finalized ==
  ASSUME UploadTypes, UNCHANGED <<object, library, failed, files, reported>>,
         upload' \in Recoveries \cup {NoUpload}, asking' \in Calls \cup {NoCall},
         listings' = listings, NEW a, NEW answer, Finalize(a, answer)
  PROVE  /\ UploadTypes' /\ Known' = Known /\ Verified \subseteq Verified'
         /\ answer = "ok" => a \in Verified'
<1>1. CASE a \in allocated \ expired /\ object[a] # 0 /\ Shelf!Admit(a) /\ answer = "ok"
  BY <1>1, ShelfMoves DEF UploadTypes
<1>2. CASE Shelf!Condemn({a}) /\ answer # "ok"
  BY <1>2, ShelfMoves DEF UploadTypes
<1>3. CASE UNCHANGED shelf /\ answer # "ok"
  BY <1>3 DEF UploadTypes, shelf, Known, Verified
<1> QED  BY <1>1, <1>2, <1>3 DEF Finalize, Fails

LEMMA StepServeBusy ==
  ASSUME UploadInv, ServeBusy
  PROVE  UploadInv'
<1>1. PICK answer \in {"ok", "gone", "error"}, told \in {"ok", "gone", "error"} :
        /\ Heard(answer, told, asking.asset)
        /\ \/ asking.kind = "check" /\ Finalize(asking.asset, answer)
           \/ asking.kind = "delete" /\ Delete(asking.asset, answer)
        /\ asking' = [asking EXCEPT !.answer = told]
  BY DEF ServeBusy
<1>2. /\ asking # NoCall
      /\ UNCHANGED <<object, library, upload, failed, files, reported, listings>>
  BY DEF ServeBusy
<1>3. UploadTypes /\ asking \in Calls  BY <1>2 DEF UploadInv, UploadTypes
<1>4. /\ asking' \in Calls /\ asking'.kind = asking.kind /\ asking'.asset = asking.asset
      /\ asking'.answer = told
  BY <1>1, <1>3 DEF Calls, Answers
<1>5. told = "ok" => answer = "ok"  BY <1>1 DEF Heard
<1>6. /\ UploadTypes' /\ Known' = Known /\ Verified \subseteq Verified'
      /\ asking.kind = "check" /\ answer = "ok" => asking.asset \in Verified'
  <2>1. CASE asking.kind = "check" /\ Finalize(asking.asset, answer)
    BY <1>2, <1>3, <1>4, <2>1, Finalized DEF UploadTypes
  <2>2. CASE asking.kind = "delete" /\ Delete(asking.asset, answer)
    <3>1. \/ \E S : Shelf!Condemn(S)
          \/ UNCHANGED shelf
      BY <2>2 DEF Delete, Fails
    <3>2. CASE \E S : Shelf!Condemn(S)
      <4>1. PICK S : Shelf!Condemn(S)  BY <3>2
      <4>2. /\ Known' = Known /\ Verified' = Verified
            /\ allocated' \subseteq Assets /\ condemned' \subseteq Assets
            /\ UNCHANGED <<ready, removed>>
        BY <4>1, <1>3, ShelfMoves
      <4>3. UploadTypes'  BY <4>2, <1>2, <1>3, <1>4 DEF UploadTypes
      <4> QED  BY <4>2, <4>3, <2>2
    <3>3. CASE UNCHANGED shelf
      BY <3>3, <1>2, <1>3, <1>4, <2>2 DEF UploadTypes, shelf, Known, Verified
    <3> QED  BY <3>1, <3>2, <3>3
  <2> QED  BY <1>1, <2>1, <2>2
<1>7. Heeded(library, listings', asking', Verified')
  <2>1. Heeded(library, listings, asking, Verified')  BY <1>6, HeededStill DEF UploadInv
  <2> QED  BY <2>1, <1>2, <1>4, <1>5, <1>6 DEF Heeded
<1> QED  BY <1>2, <1>6, <1>7, RowsMove

LEMMA StepServeUpload ==
  ASSUME UploadInv, ServeUpload
  PROVE  UploadInv'
<1>1. PICK answer \in {"ok", "gone", "error"}, told \in {"ok", "gone", "error"} :
        /\ Heard(answer, told, upload.asset)
        /\ \/ /\ upload.stage = "allocate" /\ UNCHANGED object
              /\ \/ \E a \in Assets :
                      /\ Shelf!Allocate(a) /\ answer = "ok"
                      /\ upload' = [upload EXCEPT !.answer = told, !.asset = a]
                 \/ Fails(answer) /\ upload' = [upload EXCEPT !.answer = told]
           \/ /\ upload.stage = "put" /\ UNCHANGED shelf
              /\ upload' = [upload EXCEPT !.answer = told]
              /\ \/ /\ upload.asset \notin expired /\ answer = "ok"
                    /\ object' = [object EXCEPT ![upload.asset] = upload.file]
                 \/ answer = "error" /\ UNCHANGED object
           \/ /\ upload.stage = "finalize" /\ UNCHANGED object
              /\ Finalize(upload.asset, answer)
              /\ upload' = [upload EXCEPT !.answer = told]
  BY DEF ServeUpload
<1>2. /\ upload # NoUpload /\ upload.stage # "normalize" /\ upload.answer = "none"
      /\ UNCHANGED <<expired, library, failed, files, reported, asking, listings>>
  BY DEF ServeUpload
<1>3. /\ UploadTypes /\ upload \in Recoveries /\ failed = NoUpload
      /\ RunSound(upload, Known, Verified, object, reported, files)
      /\ Stored(object, reported, Known) /\ Heeded(library, listings, asking, Verified)
  BY <1>2 DEF UploadInv, UploadTypes, Runs, RunSound
<1>4. told = "ok" => answer = "ok"  BY <1>1 DEF Heard
<1>5. PICK r : r = [upload EXCEPT !.answer = told]  OBVIOUS
<1>6. /\ r \in Recoveries /\ r # NoUpload /\ r.stage = upload.stage /\ r.asset = upload.asset
      /\ r.file = upload.file /\ r.answer = told
  <2>1. /\ r \in Recoveries /\ r.stage = upload.stage /\ r.asset = upload.asset
        /\ r.file = upload.file /\ r.answer = told
    BY <1>3, <1>5 DEF Recoveries, Answers
  <2> QED  BY <2>1, UploadsAssumption
<1>7. ASSUME NEW a \in Assets, Shelf!Allocate(a), upload.stage = "allocate", UNCHANGED object,
             upload' = [upload EXCEPT !.answer = told, !.asset = a]
      PROVE  UploadInv'
  <2>1. /\ upload' \in Recoveries /\ upload'.stage = "allocate" /\ upload'.asset = a
        /\ upload'.file = upload.file /\ upload'.answer = told
    BY <1>3, <1>7 DEF Recoveries, Answers
  <2>2. /\ Known' = Known \cup {a} /\ a \notin Known /\ Verified' = Verified
        /\ allocated' \subseteq Assets /\ UNCHANGED <<ready, condemned, removed>>
    BY <1>3, <1>7, ShelfMoves
  <2>3. UploadTypes'  BY <1>2, <1>3, <1>7, <2>1, <2>2 DEF UploadTypes
  <2>4. object[a] = 0 /\ \A f \in 1..MaxFiles : reported[f] # a
    BY <1>3, <2>2, UploadsAssumption DEF Stored
  <2>5. RunSound(upload', Known', Verified', object', reported, files)
    <3>1. a # NoAsset /\ a \in Known' /\ object'[a] = 0  BY <1>7, <2>2, <2>4, UploadsAssumption
    <3>2. upload.file \in 1..files  BY <1>3 DEF RunSound
    <3>3. upload'.asset = a /\ upload'.stage = "allocate" /\ upload'.file = upload.file  BY <2>1
    <3>4. object'[upload'.asset] \in {0, upload'.file}  BY <3>1, <3>3
    <3>5. \A f \in 1..MaxFiles : reported[f] # upload'.asset  BY <2>4, <3>3
    <3>6. reported[upload'.file] = NoAsset  BY <1>3, <3>3 DEF RunSound
    <3> QED  BY <2>1, <3>1, <3>2, <3>3, <3>4, <3>5, <3>6 DEF RunSound
  <2>6. upload' # NoUpload  BY <2>1, UploadsAssumption
  <2>7. Stored(object', reported, Known')  BY <1>3, <1>7, <2>2 DEF Stored
  <2>8. Heeded(library, listings', asking', Verified')  BY <1>2, <1>3, <2>2
  <2> QED  BY <1>2, <1>3, <2>1, <2>2, <2>3, <2>5, <2>6, <2>7, <2>8, ServerStep
<1>8. CASE upload.stage = "allocate" /\ Fails(answer) /\ upload' = r /\ UNCHANGED object
  <2>1. answer = "error" /\ UNCHANGED shelf  BY <1>8 DEF Fails
  <2>2. Known' = Known /\ Verified' = Verified  BY <2>1 DEF shelf, Known, Verified
  <2>3. UploadTypes'  BY <1>2, <1>3, <1>6, <1>8, <2>1 DEF UploadTypes, shelf
  <2>4. RunSound(upload', Known', Verified', object', reported, files)
    BY <1>3, <1>4, <1>6, <1>8, <2>1, <2>2 DEF RunSound
  <2> QED  BY <1>2, <1>3, <1>6, <1>8, <2>2, <2>3, <2>4, ServerStep
<1>9. CASE /\ upload.stage = "put" /\ UNCHANGED shelf /\ upload' = r
           /\ object' \in {object, [object EXCEPT ![upload.asset] = upload.file]}
  <2>1. Known' = Known /\ Verified' = Verified  BY <1>9 DEF shelf, Known, Verified
  <2>2. upload.asset \in Assets /\ upload.asset \in Known /\ upload.file \in Nat
        /\ upload.asset # NoAsset
    BY <1>3, <1>9 DEF RunSound, Recoveries
  <2>3. /\ object' \in [Assets -> Nat] /\ object'[upload.asset] \in {object[upload.asset], upload.file}
        /\ \A b \in Assets : b # upload.asset => object'[b] = object[b]
    BY <1>3, <1>9, <2>2 DEF UploadTypes
  <2>4. UploadTypes'  BY <1>2, <1>3, <1>6, <1>9, <2>3 DEF UploadTypes, shelf
  <2>5. RunSound(upload', Known', Verified', object', reported, files)
    BY <1>3, <1>6, <1>9, <2>1, <2>2, <2>3 DEF RunSound
  <2>6. Stored(object', reported, Known')
    <3>1. \A f \in 1..MaxFiles : reported[f] \in Assets \cup {NoAsset} /\ reported[f] # upload.asset
      BY <1>3, <2>2 DEF UploadTypes, RunSound
    <3> QED  BY <1>3, <2>1, <2>2, <2>3, <3>1 DEF Stored
  <2> QED  BY <1>2, <1>3, <1>6, <1>9, <2>1, <2>4, <2>5, <2>6, ServerStep
<1>10. CASE /\ upload.stage = "finalize" /\ UNCHANGED object /\ Finalize(upload.asset, answer)
            /\ upload' = r
  <2>1. /\ UploadTypes' /\ Known' = Known /\ Verified \subseteq Verified'
        /\ answer = "ok" => upload.asset \in Verified'
    BY <1>2, <1>3, <1>6, <1>10, Finalized DEF UploadTypes
  <2>2. RunSound(upload', Known', Verified', object', reported, files)
    BY <1>3, <1>4, <1>6, <1>10, <2>1 DEF RunSound
  <2>3. Heeded(library, listings', asking', Verified')
    BY <1>2, <1>3, <2>1, HeededStill
  <2>4. Stored(object', reported, Known')  BY <1>3, <1>10, <2>1
  <2> QED  BY <1>2, <1>3, <1>6, <1>10, <2>1, <2>2, <2>3, <2>4, ServerStep
<1> QED  BY <1>1, <1>5, <1>7, <1>8, <1>9, <1>10

LEMMA UploadsStep ==
  ASSUME UploadInv, [UploadsNext]_uploadVars
  PROVE  UploadInv'
<1>1. CASE PickFile  BY <1>1, StepPickFile
<1>2. CASE RetryUpload  BY <1>2, StepRetry
<1>3. CASE Normalize  BY <1>3, StepNormalize
<1>4. CASE StageDone  BY <1>4, StepStageDone
<1>5. CASE StageFails  BY <1>5, StepStageFails
<1>6. ASSUME NEW ask \in {"check", "delete"}, NEW a \in Assets, Call(ask, a)
      PROVE  UploadInv'
  BY <1>6, StepCall
<1>7. CASE CallReturns  BY <1>7, StepCallReturns
<1>8. CASE Refresh  BY <1>8, StepRefresh
<1>9. CASE ListingReturns  BY <1>9, StepListingReturns
<1>10. CASE ServeUpload  BY <1>10, StepServeUpload
<1>11. CASE ServeBusy  BY <1>11, StepServeBusy
<1>12. CASE ServeListing  BY <1>12, StepServeListing
<1>13. CASE TimePasses  BY <1>13, StepTimePasses
<1>14. CASE UNCHANGED uploadVars
  <2>1. UNCHANGED <<shelf, object, library, upload, failed, files, reported, asking, listings>>
    BY <1>14 DEF uploadVars
  <2> QED  BY <2>1, LibraryStep DEF UploadInv, UploadTypes
<1> QED
  BY <1>1, <1>2, <1>3, <1>4, <1>5, <1>6, <1>7, <1>8, <1>9, <1>10, <1>11, <1>12, <1>13, <1>14
  DEF UploadsNext

(***************************************************************************)
(* The tiles.  Of an asset that is not behind, the tile and the row differ *)
(* only while the answer that made them differ is still to be heard.       *)
(***************************************************************************)
Standing == ready \ condemned

Told(call, kind, a) ==
  call # NoCall /\ call.kind = kind /\ call.asset = a /\ call.answer = "ok"
Finished(run, a) ==
  run # NoUpload /\ run.stage = "finalize" /\ run.asset = a /\ run.answer = "ok"

Tile(l, S, call, run, a) ==
  /\ l[a] = "ready" => a \in S \/ Told(call, "delete", a)
  /\ a \in S => l[a] = "ready" \/ Told(call, "check", a) \/ Finished(run, a)

TilesInv ==
  /\ allocated \cap ready = {}
  /\ \A a \in Assets \ behind : Tile(library, Standing, asking, upload, a)

LEMMA ListedReady ==
  ASSUME TilesInv
  PROVE  \A a : Listed(a) = "ready" <=> a \in Standing
<1> SUFFICES ASSUME NEW a  PROVE Listed(a) = "ready" <=> a \in Standing
  OBVIOUS
<1>1. CASE a \in ready \ condemned
  <2>1. a \notin allocated  BY <1>1 DEF TilesInv
  <2> QED  BY <1>1, <2>1 DEF Listed, Standing
<1>2. CASE a \notin ready \ condemned  BY <1>2 DEF Listed, Standing
<1> QED  BY <1>1, <1>2

LEMMA TilesShow ==
  ASSUME TilesInv
  PROVE  TilesShowRows
BY ListedReady DEF TilesInv, Tile, Told, Finished, TilesShowRows

LEMMA TilesBegin ==
  ASSUME UploadsInit
  PROVE  TilesInv
BY DEF UploadsInit, Shelf!Init, TilesInv, Tile, Standing

\* What the rows' moves do to the pictures that stand.
LEMMA StandingMoves ==
  ASSUME allocated \cap ready = {}
  PROVE  /\ \A a : Shelf!Allocate(a) => Standing' = Standing /\ allocated' \cap ready' = {}
         /\ \A a : Shelf!Admit(a) =>
              /\ Standing \subseteq Standing' /\ Standing' \subseteq Standing \cup {a}
              /\ allocated' \cap ready' = {}
         /\ \A S : Shelf!Condemn(S) => Standing' = Standing \ S /\ allocated' \cap ready' = {}
         /\ \A a : Shelf!Remove(a) => Standing' = Standing /\ allocated' \cap ready' = {}
         /\ UNCHANGED shelf => Standing' = Standing /\ allocated' \cap ready' = {}
<1>1. \A a : Shelf!Allocate(a) => Standing' = Standing /\ allocated' \cap ready' = {}
  BY DEF Shelf!Allocate, Standing
<1>2. \A a : Shelf!Admit(a) =>
        /\ Standing \subseteq Standing' /\ Standing' \subseteq Standing \cup {a}
        /\ allocated' \cap ready' = {}
  BY DEF Shelf!Admit, Standing
<1>3. \A S : Shelf!Condemn(S) => Standing' = Standing \ S /\ allocated' \cap ready' = {}
  BY DEF Shelf!Condemn, Standing
<1>4. \A a : Shelf!Remove(a) => Standing' = Standing /\ allocated' \cap ready' = {}
  BY DEF Shelf!Remove, Standing
<1>5. UNCHANGED shelf => Standing' = Standing /\ allocated' \cap ready' = {}
  BY DEF shelf, Standing
<1> QED  BY <1>1, <1>2, <1>3, <1>4, <1>5

LEMMA FinalizeStands ==
  ASSUME allocated \cap ready = {}, NEW a, NEW answer, Finalize(a, answer)
  PROVE  /\ allocated' \cap ready' = {}
         /\ \/ Standing' = Standing
            \/ /\ answer = "ok"
               /\ Standing \subseteq Standing' /\ Standing' \subseteq Standing \cup {a}
<1>1. CASE answer = "ok" /\ Shelf!Admit(a)  BY <1>1, StandingMoves
<1>2. CASE a \in allocated /\ Shelf!Condemn({a})
  <2>1. a \notin Standing  BY <1>2 DEF Standing
  <2> QED  BY <1>2, <2>1, StandingMoves
<1>3. CASE UNCHANGED shelf  BY <1>3, StandingMoves
<1> QED  BY <1>1, <1>2, <1>3 DEF Finalize, Fails

LEMMA DeleteStands ==
  ASSUME allocated \cap ready = {}, NEW a, NEW answer, Delete(a, answer)
  PROVE  /\ allocated' \cap ready' = {}
         /\ \/ Standing' = Standing
            \/ answer = "ok" /\ Standing' = Standing \ {a}
<1>1. CASE answer = "ok" /\ Shelf!Condemn({a})  BY <1>1, StandingMoves
<1>2. CASE UNCHANGED shelf  BY <1>2, StandingMoves
<1> QED  BY <1>1, <1>2 DEF Delete, Fails

\* An answer is heard as it is, or its asset is behind.
LEMMA LostIsBehind ==
  ASSUME NEW answer, NEW told, NEW a, Heard(answer, told, a)
  PROVE  /\ behind \subseteq behind'
         /\ told = answer \/ a \in behind' \cup {NoAsset}
BY DEF Heard

\* Nothing the tiles depend on has moved but for the calls and runs to be heard.
LEMMA TilesKept ==
  ASSUME TilesInv, UNCHANGED <<shelf, library, behind>>,
         \A a \in Assets : Told(asking, "delete", a) => Told(asking', "delete", a),
         \A a \in Assets : Told(asking, "check", a) => Told(asking', "check", a),
         \A a \in Assets : Finished(upload, a) => Finished(upload', a)
  PROVE  TilesInv'
<1>1. Standing' = Standing /\ allocated' \cap ready' = {}  BY StandingMoves DEF TilesInv
<1>2. \A a \in Assets \ behind' : Tile(library', Standing', asking', upload', a)
  BY <1>1 DEF TilesInv, Tile
<1> QED  BY <1>1, <1>2 DEF TilesInv

LEMMA TilesStageDone ==
  ASSUME UploadInv, TilesInv, StageDone
  PROVE  TilesInv'
<1>1. upload # NoUpload /\ upload.answer = "ok" /\ UNCHANGED <<shelf, asking>>
  BY DEF StageDone, server
<1>2. /\ RunSound(upload, Known, Verified, object, reported, files) /\ library \in Libraries
      /\ upload.stage \in {"normalize", "allocate", "put", "finalize"}
  BY <1>1 DEF UploadInv, UploadTypes, Runs, RunSound, Recoveries
<1>3. upload.stage # "normalize" /\ upload.asset \in Assets
  BY <1>1, <1>2, UploadsAssumption DEF RunSound, Recoveries
<1>4. Standing' = Standing /\ allocated' \cap ready' = {}
  BY <1>1, StandingMoves DEF TilesInv
<1>5. ASSUME NEW says \in {"pending", "ready"}, library' = [library EXCEPT ![upload.asset] = says],
             Hears(upload.answer, upload.asset, says),
             \A a \in Assets : Finished(upload, a) => a = upload.asset /\ says = "ready"
      PROVE  TilesInv'
  <2>1. \A a \in Assets \ behind' : Tile(library', Standing', asking', upload', a)
    <3> SUFFICES ASSUME NEW a \in Assets, a \notin behind'
                 PROVE  Tile(library', Standing', asking', upload', a)
      OBVIOUS
    <3>1. CASE a = upload.asset
      <4>1. library'[a] = says  BY <1>2, <1>3, <1>5, <3>1 DEF Libraries
      <4>2. says = "ready" <=> a \in Standing
        BY <1>1, <1>5, <3>1, ListedReady DEF Hears, Overtaken
      <4> QED  BY <1>4, <4>1, <4>2 DEF Tile
    <3>2. CASE a # upload.asset
      <4>1. library'[a] = library[a] /\ a \notin behind
        BY <1>1, <1>2, <1>3, <1>5, <3>2 DEF Libraries, Hears
      <4>2. ~Finished(upload, a)  BY <1>5, <3>2
      <4> QED  BY <1>1, <1>4, <4>1, <4>2 DEF TilesInv, Tile
    <3> QED  BY <3>1, <3>2
  <2> QED  BY <1>4, <2>1 DEF TilesInv
<1>6. CASE upload.stage = "allocate"
  <2>1. \A a \in Assets : ~Finished(upload, a)  BY <1>6 DEF Finished
  <2> QED  BY <1>5, <1>6, <2>1 DEF StageDone
<1>7. CASE upload.stage = "put"
  <2>1. \A a \in Assets : ~Finished(upload, a)  BY <1>7 DEF Finished
  <2>2. UNCHANGED <<library, behind>>  BY <1>7 DEF StageDone, shown
  <2> QED  BY <1>1, <2>1, <2>2, TilesKept
<1>8. CASE upload.stage = "finalize"
  <2>1. \A a \in Assets : Finished(upload, a) => a = upload.asset  BY DEF Finished
  <2> QED  BY <1>5, <1>8, <2>1 DEF StageDone
<1> QED  BY <1>2, <1>3, <1>6, <1>7, <1>8

LEMMA TilesCallReturns ==
  ASSUME UploadInv, TilesInv, CallReturns
  PROVE  TilesInv'
<1>1. /\ asking # NoCall /\ asking' = NoCall /\ UNCHANGED <<shelf, upload>>
      /\ library' = IF asking.answer = "ok"
                    THEN [library EXCEPT ![asking.asset] = ShownAfter(asking)] ELSE library
      /\ Hears(asking.answer, asking.asset, ShownAfter(asking))
  <2>1. UNCHANGED <<server, upload, failed, files, reported>>  BY Zenon DEF CallReturns
  <2>2. /\ library' = IF asking.answer = "ok"
                      THEN [library EXCEPT ![asking.asset] = ShownAfter(asking)] ELSE library
        /\ asking # NoCall /\ asking' = NoCall
        /\ Hears(asking.answer, asking.asset, ShownAfter(asking))
    BY Zenon DEF CallReturns
  <2> QED  BY <2>1, <2>2 DEF server
<1>2. asking \in Calls /\ asking.asset \in Assets /\ library \in Libraries
  BY <1>1 DEF UploadInv, UploadTypes, Calls
<1>3. Standing' = Standing /\ allocated' \cap ready' = {}
  BY <1>1, StandingMoves DEF TilesInv
<1>4. CASE asking.answer = "ok"
  <2>1. PICK says : says = ShownAfter(asking)  OBVIOUS
  <2>2. library' = [library EXCEPT ![asking.asset] = says]  BY <1>1, <1>4, <2>1
  <2>3. \A a \in Assets \ behind' : Tile(library', Standing', asking', upload', a)
    <3> SUFFICES ASSUME NEW a \in Assets, a \notin behind'
                 PROVE  Tile(library', Standing', asking', upload', a)
      OBVIOUS
    <3>1. CASE a = asking.asset
      <4>1. library'[a] = says  BY <1>2, <2>2, <3>1 DEF Libraries
      <4>2. says = "ready" <=> a \in Standing
        BY <1>1, <1>4, <2>1, <3>1, ListedReady DEF Hears, Overtaken
      <4> QED  BY <1>3, <4>1, <4>2 DEF Tile
    <3>2. CASE a # asking.asset
      <4>1. library'[a] = library[a]  BY <1>2, <2>2, <3>2 DEF Libraries
      <4>2. a \notin behind  BY <1>1, <1>4, <3>2 DEF Hears
      <4>3. ~Told(asking, "delete", a) /\ ~Told(asking, "check", a)  BY <3>2 DEF Told
      <4> QED  BY <1>1, <1>3, <4>1, <4>2, <4>3 DEF TilesInv, Tile
    <3> QED  BY <3>1, <3>2
  <2> QED  BY <1>3, <2>3 DEF TilesInv
<1>5. CASE asking.answer # "ok"
  <2>1. library' = library /\ behind' = behind  BY <1>1, <1>5 DEF Hears
  <2>2. \A a : ~Told(asking, "delete", a) /\ ~Told(asking, "check", a)  BY <1>5 DEF Told
  <2> QED  BY <1>1, <2>1, <2>2, TilesKept
<1> QED  BY <1>4, <1>5

LEMMA TilesListingReturns ==
  ASSUME UploadInv, TilesInv, ListingReturns
  PROVE  TilesInv'
<1>1. PICK r \in Refreshes :
        \/ library' = listings[r] /\ behind' = {a \in Assets : Overtaken(a, listings[r][a])}
        \/ UNCHANGED <<library, behind>>
  BY DEF ListingReturns, shown
<1>2. UNCHANGED <<shelf, upload, asking>>  BY DEF ListingReturns, server
<1>3. Standing' = Standing /\ allocated' \cap ready' = {}
  BY <1>2, StandingMoves DEF TilesInv
<1>4. CASE library' = listings[r] /\ behind' = {a \in Assets : Overtaken(a, listings[r][a])}
  <2>1. \A a \in Assets \ behind' : library'[a] = "ready" <=> a \in Standing
    BY <1>4, ListedReady DEF Overtaken
  <2>2. \A a \in Assets \ behind' : Tile(library', Standing', asking', upload', a)
    BY <1>3, <2>1 DEF Tile
  <2> QED  BY <1>3, <2>2 DEF TilesInv
<1>5. CASE UNCHANGED <<library, behind>>  BY <1>2, <1>5, TilesKept
<1> QED  BY <1>1, <1>4, <1>5

LEMMA TilesServeUpload ==
  ASSUME UploadInv, TilesInv, ServeUpload
  PROVE  TilesInv'
<1>1. PICK answer \in {"ok", "gone", "error"}, told \in {"ok", "gone", "error"} :
        /\ Heard(answer, told, upload.asset)
        /\ \/ /\ upload.stage # "finalize"
              /\ (\E a \in Assets : Shelf!Allocate(a)) \/ UNCHANGED shelf
           \/ /\ upload.stage = "finalize" /\ Finalize(upload.asset, answer)
              /\ upload' = [upload EXCEPT !.answer = told]
  BY DEF ServeUpload, Fails
<1>2. upload # NoUpload /\ upload.answer = "none" /\ UNCHANGED <<library, asking>>
  BY DEF ServeUpload
<1>3. upload \in Recoveries /\ RunSound(upload, Known, Verified, object, reported, files)
  BY <1>2 DEF UploadInv, UploadTypes, Runs
<1>4. behind \subseteq behind' /\ (told = answer \/ upload.asset \in behind' \cup {NoAsset})
  BY <1>1, LostIsBehind
<1>5. \A a : ~Finished(upload, a)  BY <1>2 DEF Finished
<1>6. CASE Standing' = Standing /\ allocated' \cap ready' = {}
  <2>1. \A a \in Assets \ behind' : Tile(library', Standing', asking', upload', a)
    BY <1>2, <1>4, <1>5, <1>6 DEF TilesInv, Tile
  <2> QED  BY <1>6, <2>1 DEF TilesInv
<1>7. CASE /\ upload.stage = "finalize" /\ upload' = [upload EXCEPT !.answer = told]
           /\ answer = "ok" /\ allocated' \cap ready' = {}
           /\ Standing \subseteq Standing' /\ Standing' \subseteq Standing \cup {upload.asset}
  <2>1. /\ upload' \in Recoveries /\ upload'.stage = "finalize" /\ upload'.asset = upload.asset
        /\ upload'.answer = told
    BY <1>3, <1>7 DEF Recoveries, Answers
  <2>2. upload' # NoUpload  BY <2>1, UploadsAssumption
  <2>3. upload.asset # NoAsset  BY <1>3, <1>7 DEF RunSound
  <2>4. \A a \in Assets \ behind' : Tile(library', Standing', asking', upload', a)
    <3> SUFFICES ASSUME NEW a \in Assets, a \notin behind'
                 PROVE  Tile(library', Standing', asking', upload', a)
      OBVIOUS
    <3>1. Tile(library, Standing, asking, upload, a)  BY <1>4 DEF TilesInv
    <3>2. a = upload.asset => told = "ok"  BY <1>4, <1>7, <2>3
    <3>3. a = upload.asset => Finished(upload', a)  BY <2>1, <2>2, <3>2 DEF Finished
    <3> QED  BY <1>2, <1>5, <1>7, <3>1, <3>3 DEF Tile
  <2> QED  BY <1>7, <2>4 DEF TilesInv
<1>8. CASE UNCHANGED shelf  BY <1>6, <1>8, StandingMoves DEF TilesInv
<1>9. CASE \E a \in Assets : Shelf!Allocate(a)  BY <1>6, <1>9, StandingMoves DEF TilesInv
<1>10. CASE /\ upload.stage = "finalize" /\ Finalize(upload.asset, answer)
            /\ upload' = [upload EXCEPT !.answer = told]
  <2>1. allocated \cap ready = {}  BY DEF TilesInv
  <2>2. /\ allocated' \cap ready' = {}
        /\ \/ Standing' = Standing
           \/ /\ answer = "ok"
              /\ Standing \subseteq Standing' /\ Standing' \subseteq Standing \cup {upload.asset}
    BY <1>10, <2>1, FinalizeStands
  <2> QED  BY <1>6, <1>7, <1>10, <2>2
<1> QED  BY <1>1, <1>8, <1>9, <1>10

LEMMA TilesServeBusy ==
  ASSUME UploadInv, TilesInv, ServeBusy
  PROVE  TilesInv'
<1>1. PICK answer \in {"ok", "gone", "error"}, told \in {"ok", "gone", "error"} :
        /\ Heard(answer, told, asking.asset)
        /\ \/ asking.kind = "check" /\ Finalize(asking.asset, answer)
           \/ asking.kind = "delete" /\ Delete(asking.asset, answer)
        /\ asking' = [asking EXCEPT !.answer = told]
  BY DEF ServeBusy
<1>2. asking # NoCall /\ asking.answer = "none" /\ UNCHANGED <<library, upload>>
  BY DEF ServeBusy
<1>3. asking \in Calls /\ asking.asset # NoAsset /\ allocated \cap ready = {}
  BY <1>2, UploadsAssumption DEF UploadInv, UploadTypes, Calls, TilesInv
<1>4. /\ asking' \in Calls /\ asking'.kind = asking.kind /\ asking'.asset = asking.asset
      /\ asking'.answer = told
  BY <1>1, <1>3 DEF Calls, Answers
<1>5. asking' # NoCall  BY <1>4, UploadsAssumption
<1>6. behind \subseteq behind' /\ (told = answer \/ asking.asset \in behind')
  <2>1. behind \subseteq behind' /\ (told = answer \/ asking.asset \in behind' \cup {NoAsset})
    BY <1>1, LostIsBehind
  <2> QED  BY <1>3, <2>1
<1>7. \A a : ~Told(asking, "delete", a) /\ ~Told(asking, "check", a)  BY <1>2 DEF Told
<1>8. allocated' \cap ready' = {}
  BY <1>1, <1>3, FinalizeStands, DeleteStands
<1>9. \/ Standing' = Standing
      \/ /\ answer = "ok" /\ asking.kind = "check"
         /\ Standing \subseteq Standing' /\ Standing' \subseteq Standing \cup {asking.asset}
      \/ answer = "ok" /\ asking.kind = "delete" /\ Standing' = Standing \ {asking.asset}
  BY <1>1, <1>3, FinalizeStands, DeleteStands
<1>10. \A a \in Assets \ behind' : Tile(library', Standing', asking', upload', a)
  <2> SUFFICES ASSUME NEW a \in Assets, a \notin behind'
               PROVE  Tile(library', Standing', asking', upload', a)
    OBVIOUS
  <2>1. Tile(library, Standing, asking, upload, a)  BY <1>6 DEF TilesInv
  <2>2. a = asking.asset /\ answer = "ok" => Told(asking', asking.kind, a)
    BY <1>4, <1>5, <1>6 DEF Told
  <2> QED  BY <1>2, <1>7, <1>9, <2>1, <2>2 DEF Tile
<1> QED  BY <1>8, <1>10 DEF TilesInv

LEMMA TilesTimePasses ==
  ASSUME TilesInv, TimePasses
  PROVE  TilesInv'
<1>1. UNCHANGED <<library, upload, asking>>  BY DEF TimePasses
<1>2. ASSUME Standing' = Standing, allocated' \cap ready' = {}, UNCHANGED behind
      PROVE  TilesInv'
  BY <1>1, <1>2 DEF TilesInv, Tile
<1>3. CASE UNCHANGED <<shelf, object, behind>>  BY <1>2, <1>3, StandingMoves DEF TilesInv
<1>4. CASE Shelf!Condemn(allocated \cap expired) /\ UNCHANGED behind
  <2>1. Standing \ (allocated \cap expired) = Standing  BY DEF TilesInv, Standing
  <2> QED  BY <1>2, <1>4, <2>1, StandingMoves DEF TilesInv
<1>5. CASE (\E a \in condemned : Shelf!Remove(a)) /\ UNCHANGED behind
  BY <1>2, <1>5, StandingMoves DEF TilesInv
<1>6. ASSUME NEW a, Shelf!Condemn({a}), behind' = behind \cup {a}  PROVE TilesInv'
  <2>1. Standing' = Standing \ {a} /\ allocated' \cap ready' = {}
    BY <1>6, StandingMoves DEF TilesInv
  <2>2. \A b \in Assets \ behind' : Tile(library', Standing', asking', upload', b)
    BY <1>1, <1>6, <2>1 DEF TilesInv, Tile
  <2> QED  BY <2>1, <2>2 DEF TilesInv
<1> QED  BY <1>3, <1>4, <1>5, <1>6 DEF TimePasses

LEMMA TilesStep ==
  ASSUME UploadInv, TilesInv, [UploadsNext]_uploadVars
  PROVE  TilesInv'
<1>1. ASSUME UNCHANGED <<shelf, library, behind, asking>>,
             \A a : ~Finished(upload, a) \/ upload' = upload
      PROVE  TilesInv'
  BY <1>1, TilesKept
<1>2. CASE PickFile  BY <1>1, <1>2 DEF PickFile, server, shown, Finished
<1>3. CASE RetryUpload  BY <1>1, <1>3 DEF RetryUpload, server, shown, Finished
<1>4. CASE Normalize  BY <1>1, <1>4 DEF Normalize, server, shown, Finished
<1>5. CASE StageDone  BY <1>5, TilesStageDone
<1>6. CASE StageFails  BY <1>1, <1>6 DEF StageFails, server, shown, Finished
<1>7. ASSUME NEW ask \in {"check", "delete"}, NEW a \in Assets, Call(ask, a)
      PROVE  TilesInv'
  <2>1. asking = NoCall /\ UNCHANGED <<shelf, library, behind, upload>>
    BY <1>7 DEF Call, server, shown
  <2>2. \A x : ~Told(asking, "delete", x) /\ ~Told(asking, "check", x)  BY <2>1 DEF Told
  <2> QED  BY <2>1, <2>2, TilesKept
<1>8. CASE CallReturns  BY <1>8, TilesCallReturns
<1>9. CASE Refresh  BY <1>1, <1>9 DEF Refresh, server, shown
<1>10. CASE ListingReturns  BY <1>10, TilesListingReturns
<1>11. CASE ServeUpload  BY <1>11, TilesServeUpload
<1>12. CASE ServeBusy  BY <1>12, TilesServeBusy
<1>13. CASE ServeListing  BY <1>1, <1>13 DEF ServeListing
<1>14. CASE TimePasses  BY <1>14, TilesTimePasses
<1>15. CASE UNCHANGED uploadVars  BY <1>1, <1>15 DEF uploadVars
<1> QED
  BY <1>2, <1>3, <1>4, <1>5, <1>6, <1>7, <1>8, <1>9, <1>10, <1>11, <1>12, <1>13, <1>14, <1>15
  DEF UploadsNext

\* For any number of files and assets, and of calls under way at once: the last picture
\* picked is not lost, what is reported ready is the file it is reported as, and the tiles
\* of ready pictures are those of the rows that are ready, but for answers that were lost
\* or overtaken.
THEOREM UploadsStayAccounted == UploadsSpec => []UploadsAccounted
<1>1. UploadsInit => UploadInv /\ TilesInv  BY UploadsBegin, TilesBegin
<1>2. UploadInv /\ TilesInv /\ [UploadsNext]_uploadVars => UploadInv' /\ TilesInv'
  BY UploadsStep, TilesStep
<1>3. UploadInv /\ TilesInv => UploadsAccounted
  BY UploadsAccountedFor, TilesShow DEF UploadsAccounted
<1> QED  BY <1>1, <1>2, <1>3, PTL DEF UploadsSpec

-----------------------------------------------------------------------------
(* The reads of the object (AssetVerification). *)

\* What the prefixes are made of, and the verdict with the identity it is of.
VerificationInv ==
  /\ byteLength \in Lengths
  /\ rangeSize \in Nat
  /\ VerifiedIsStatic

\* A verification has read nothing when it begins.
LEMMA InitVerification == VerificationInit => VerificationInv
  BY ContentsAssumption DEF VerificationInit, VerificationInv, VerifiedIsStatic, AtMost

\* A step that leaves the verdict, its identity and the prefixes alone: what
\* other requests do to the object, and every read that fails.
LEMMA OthersKeepTheVerdict ==
  ASSUME VerificationInv, stage' \in {stage, "range", "full", "failed"},
         UNCHANGED <<byteLength, headEtag, rangeSize>>
  PROVE  VerificationInv'
  BY DEF VerificationInv, VerifiedIsStatic

\* A prefix doubles until it is the object or the limit.
LEMMA DoublingIsBounded ==
  ASSUME VerificationInv, stage' = "range", UNCHANGED byteLength,
         rangeSize' = AtMost(byteLength, AtMost(MaxPrefix, 2 * rangeSize))
  PROVE  VerificationInv'
  <1>1. byteLength \in Nat /\ MaxPrefix \in Nat /\ rangeSize \in Nat
    BY ContentsAssumption DEF VerificationInv
  <1>2. rangeSize' \in Nat /\ rangeSize' <= AtMost(byteLength, MaxPrefix)
    BY <1>1 DEF AtMost
  <1> QED BY <1>1, <1>2 DEF VerificationInv, VerifiedIsStatic, AtMost

\* The verdict is of the content whose ETag the HEAD returned.
LEMMA JudgedIsStatic ==
  ASSUME VerificationInv, SameObject, stage' = Judged(atKey),
         UNCHANGED <<byteLength, headEtag, rangeSize>>
  PROVE  VerificationInv'
  BY DEF VerificationInv, VerifiedIsStatic, SameObject, Judged

\* Every step keeps the invariant.
LEMMA VerificationStep ==
  ASSUME VerificationInv, [VerificationNext]_verifyVars
  PROVE  VerificationInv'
  <1>1. CASE \E c \in Contents : PutObject(c)
    BY <1>1, OthersKeepTheVerdict DEF PutObject
  <1>2. CASE UrlExpires
    BY <1>2, OthersKeepTheVerdict DEF UrlExpires
  <1>3. CASE ObjectDeleted
    BY <1>3, OthersKeepTheVerdict DEF ObjectDeleted
  <1>4. CASE ReadHead
    BY <1>4, ContentsAssumption DEF ReadHead, VerificationInv, VerifiedIsStatic, AtMost
  <1>5. CASE ReadRange
    <2>1. CASE atKey \in BadFromTheStart
      BY <1>5, <2>1, OthersKeepTheVerdict DEF ReadRange, Goes
    <2>2. CASE atKey \notin BadFromTheStart /\ rangeSize >= byteLength
      BY <1>5, <2>2, JudgedIsStatic DEF ReadRange, Goes
    <2>3. CASE atKey \notin BadFromTheStart /\ ~(rangeSize >= byteLength) /\ rangeSize >= MaxPrefix
      BY <1>5, <2>3, OthersKeepTheVerdict DEF ReadRange, Goes
    <2>4. CASE atKey \notin BadFromTheStart /\ ~(rangeSize >= byteLength) /\ ~(rangeSize >= MaxPrefix)
      BY <1>5, <2>4, DoublingIsBounded DEF ReadRange, Goes
    <2> QED BY <2>1, <2>2, <2>3, <2>4
  <1>6. CASE ReadFull
    BY <1>6, JudgedIsStatic DEF ReadFull, Goes
  <1>7. CASE Changed
    BY <1>7, OthersKeepTheVerdict DEF Changed, Goes
  <1>8. CASE ReadFails
    BY <1>8, OthersKeepTheVerdict DEF ReadFails, Goes
  <1>9. CASE UNCHANGED verifyVars
    BY <1>9, OthersKeepTheVerdict DEF verifyVars
  <1> QED
    BY <1>1, <1>2, <1>3, <1>4, <1>5, <1>6, <1>7, <1>8, <1>9 DEF VerificationNext

\* A verification that succeeds has recorded the ETag of a still picture, however
\* often the object was replaced meanwhile, and has buffered no more than it may
\* (verifyStoredMemberAsset, src/src/lib/members/assets/verify.ts).
THEOREM VerifiedStaysStatic == VerificationSpec => []VerifiedIsStatic
  <1>1. VerificationInv /\ [VerificationNext]_verifyVars => VerificationInv'
    BY VerificationStep
  <1>2. VerificationInv => VerifiedIsStatic
    BY DEF VerificationInv
  <1> QED BY InitVerification, <1>1, <1>2, PTL DEF VerificationSpec

-----------------------------------------------------------------------------
(* The file as it is read (ImageInspection). *)

PartSet(f) ==
  [kind : Kinds[f], whole : BOOLEAN, last : BOOLEAN,
   says : SUBSET (Features \cup {"animation", "avif", "avis", "mif1"}),
   fits : BOOLEAN, meta : Metas \cup {NoMeta}]

(* A file, as far as it was read.                                            *)
File(f, parts) ==
  /\ parts \in Seq(PartSet(f))
  /\ \A i \in DOMAIN parts : parts[i].says \in SaysOf(parts[i].kind)

(* Nothing is missing, and the file ends with its last part.                 *)
Proper(parts) == \A i \in DOMAIN parts : parts[i].whole /\ (parts[i].last <=> i = Len(parts))

(* The file goes on after its first parts.                                   *)
Begins(parts, n, file) == n <= Len(file) /\ \A i \in 1..n : file[i] = parts[i]

\* What appending a part to a sequence of parts makes.
LEMMA AppendIs ==
  ASSUME NEW S, NEW s \in Seq(S), NEW x \in S, NEW n, n = Len(s), NEW all, all = Append(s, x)
  PROVE  /\ all \in Seq(S) /\ Len(all) = n + 1 /\ n \in Nat
         /\ DOMAIN all = 1..(n + 1) /\ DOMAIN s = 1..n
         /\ all[n + 1] = x /\ \A i \in 1..n : all[i] = s[i]
OBVIOUS

-----------------------------------------------------------------------------
(* PNG. *)

PngSeen(parts, n, marks) ==
  /\ \A kind \in {"IHDR", "PLTE", "IDAT"} :
       kind \in marks <=> \E i \in 1..n : parts[i].kind = kind
  /\ "ended" \in marks <=>
       \E i \in 1..n, j \in 1..n : i < j /\ parts[i].kind = "IDAT" /\ parts[j].kind # "IDAT"

PngOrder(parts, n) ==
  /\ \A i \in 1..n : parts[i].whole /\ ~parts[i].last
  /\ \A i \in 1..n : parts[i].kind \in {"IHDR", "PLTE", "IDAT", "ancillary"}
  /\ \A i \in 1..n : parts[i].kind = "IHDR" <=> i = 1
  /\ \A i \in 1..n, j \in 1..n :
       parts[i].kind = "PLTE" /\ parts[j].kind \in {"PLTE", "IDAT"} => i <= j
  /\ \A i \in 1..n, j \in 1..n, k \in 1..n :
       parts[i].kind = "IDAT" /\ parts[j].kind = "IDAT" /\ i <= k /\ k <= j =>
         parts[k].kind = "IDAT"

PngKinds == {"IHDR", "PLTE", "IDAT", "IEND", "acTL", "fcTL", "critical", "ancillary"}

\* The chunks of a PNG.
LEMMA PngKindsAre == Kinds["png"] = PngKinds
BY DEF Kinds, PngKinds

\* After a chunk that decides nothing, the marks still say what was seen and
\* the order still holds.
LEMMA PngGoesOn ==
  ASSUME NEW parts, NEW n \in Nat, NEW part, part = parts[n + 1], part.kind \in PngKinds,
         part.whole \in BOOLEAN, part.last \in BOOLEAN,
         PngSeen(parts, n, seen), PngOrder(parts, n), PngVerdict(part) = "undecided"
  PROVE  PngSeen(parts, n + 1, seen \cup PngMarks(part)) /\ PngOrder(parts, n + 1)
<1>1. /\ part.whole /\ ~part.last
      /\ part.kind \in {"IHDR", "PLTE", "IDAT", "ancillary"}
      /\ part.kind = "IHDR" <=> "IHDR" \notin seen
      /\ part.kind = "PLTE" => "PLTE" \notin seen /\ "IDAT" \notin seen
      /\ part.kind = "IDAT" => "ended" \notin seen
  <2>1. ~(~part.whole \/ ((part.kind = "IHDR") <=> ("IHDR" \in seen)))
    BY DEF PngVerdict
  <2>2. part.kind \notin {"acTL", "fcTL", "critical"}
    BY <2>1 DEF PngVerdict
  <2>3. ~(part.kind = "PLTE" /\ seen \cap {"PLTE", "IDAT"} # {}) /\ ~(part.kind = "IDAT" /\ "ended" \in seen)
    BY <2>1, <2>2 DEF PngVerdict
  <2>4. part.kind # "IEND" /\ ~part.last
    BY <2>1, <2>2, <2>3 DEF PngVerdict, ClosesAs
  <2>5. QED  BY <2>1, <2>2, <2>3, <2>4 DEF PngKinds
<1>2. PICK marks : marks = seen \cup PngMarks(part)  OBVIOUS
<1>3. \A i \in 1..(n + 1) : i \in 1..n \/ i = n + 1  OBVIOUS
<1>4. n + 1 \in 1..(n + 1) /\ \A i \in 1..n : i \in 1..(n + 1) /\ i < n + 1 /\ i # n + 1
  OBVIOUS
<1>5. \A kind \in {"IHDR", "PLTE", "IDAT"} :
        kind \in marks <=> \E i \in 1..(n + 1) : parts[i].kind = kind
  <2>1. SUFFICES ASSUME NEW kind \in {"IHDR", "PLTE", "IDAT"}
                 PROVE  kind \in marks <=> \E i \in 1..(n + 1) : parts[i].kind = kind
    OBVIOUS
  <2>2. kind \in marks <=> kind \in seen \/ part.kind = kind
    BY <1>2, <1>1 DEF PngMarks
  <2>3. kind \in seen <=> \E i \in 1..n : parts[i].kind = kind  BY DEF PngSeen
  <2>4. QED  BY <2>2, <2>3, <1>3, <1>4
<1>6. "ended" \in marks <=> "ended" \in seen \/ ("IDAT" \in seen /\ part.kind \notin {"IHDR", "PLTE", "IDAT"})
  BY <1>2 DEF PngMarks
<1>7. "IDAT" \in seen /\ part.kind # "IDAT" => part.kind \notin {"IHDR", "PLTE", "IDAT"}
  <2>1. ASSUME "IDAT" \in seen, part.kind = "IHDR" PROVE FALSE
    <3>1. PICK i \in 1..n : parts[i].kind = "IDAT"  BY <2>1 DEF PngSeen
    <3>2. 1 \in 1..n /\ parts[1].kind = "IHDR"  BY <3>1 DEF PngOrder
    <3>3. "IHDR" \in seen  BY <3>2 DEF PngSeen
    <3>4. QED  BY <1>1, <2>1, <3>3
  <2>2. QED  BY <1>1, <2>1
<1>8. "ended" \in marks <=>
        \E i \in 1..(n + 1), j \in 1..(n + 1) :
          i < j /\ parts[i].kind = "IDAT" /\ parts[j].kind # "IDAT"
  <2>1. "ended" \in seen <=>
          \E i \in 1..n, j \in 1..n : i < j /\ parts[i].kind = "IDAT" /\ parts[j].kind # "IDAT"
    BY DEF PngSeen
  <2>2. "IDAT" \in seen <=> \E i \in 1..n : parts[i].kind = "IDAT"  BY DEF PngSeen
  <2>3. \A i \in 1..(n + 1) : ~(n + 1 < i)  OBVIOUS
  <2>4. ASSUME "ended" \in marks
        PROVE  \E i \in 1..(n + 1), j \in 1..(n + 1) :
                 i < j /\ parts[i].kind = "IDAT" /\ parts[j].kind # "IDAT"
    BY <1>4, <1>6, <2>1, <2>2, <2>4
  <2>5. ASSUME NEW i \in 1..(n + 1), NEW j \in 1..(n + 1),
               i < j, parts[i].kind = "IDAT", parts[j].kind # "IDAT"
        PROVE  "ended" \in marks
    <3>1. i \in 1..n  BY <2>5
    <3>2. CASE j = n + 1  BY <1>6, <1>7, <2>2, <2>5, <3>1, <3>2
    <3>3. CASE j \in 1..n  BY <1>6, <2>1, <2>5, <3>1, <3>3
    <3>4. QED  BY <1>3, <3>2, <3>3
  <2>6. QED  BY <2>4, <2>5
<1>9. PngSeen(parts, n + 1, marks)  BY <1>5, <1>8 DEF PngSeen
<1>10. \A i \in 1..(n + 1) : parts[i].kind = "IHDR" <=> i = 1
  <2>1. "IHDR" \in seen <=> n > 0
    <3>1. CASE n = 0  BY <3>1 DEF PngSeen
    <3>2. CASE n > 0
      <4>1. 1 \in 1..n  BY <3>2
      <4>2. QED  BY <3>2, <4>1 DEF PngSeen, PngOrder
    <3>3. QED  BY <3>1, <3>2
  <2>2. part.kind = "IHDR" <=> n + 1 = 1  BY <1>1, <2>1
  <2>3. QED  BY <1>3, <2>2 DEF PngOrder
<1>11. \A i \in 1..(n + 1), j \in 1..(n + 1) :
         parts[i].kind = "PLTE" /\ parts[j].kind \in {"PLTE", "IDAT"} => i <= j
  <2>1. SUFFICES ASSUME NEW i \in 1..(n + 1), NEW j \in 1..(n + 1),
                        parts[i].kind = "PLTE", parts[j].kind \in {"PLTE", "IDAT"}
                 PROVE  i <= j
    OBVIOUS
  <2>2. CASE i = n + 1 /\ j \in 1..n
    <3>1. parts[j].kind \in seen  BY <2>1, <2>2 DEF PngSeen
    <3>2. QED  BY <1>1, <2>1, <2>2, <3>1
  <2>3. CASE i = n + 1 /\ j = n + 1  BY <2>3
  <2>4. CASE i \in 1..n /\ j = n + 1  BY <2>4
  <2>5. CASE i \in 1..n /\ j \in 1..n  BY <2>1, <2>5 DEF PngOrder
  <2>6. QED  BY <1>3, <2>2, <2>3, <2>4, <2>5
<1>12. \A i \in 1..(n + 1), j \in 1..(n + 1), k \in 1..(n + 1) :
         parts[i].kind = "IDAT" /\ parts[j].kind = "IDAT" /\ i <= k /\ k <= j =>
           parts[k].kind = "IDAT"
  <2>1. SUFFICES ASSUME NEW i \in 1..(n + 1), NEW j \in 1..(n + 1), NEW k \in 1..(n + 1),
                        parts[i].kind = "IDAT", parts[j].kind = "IDAT", i <= k, k <= j,
                        parts[k].kind # "IDAT"
                 PROVE  FALSE
    OBVIOUS
  <2>2. i # k /\ k # j  BY <2>1
  <2>3. i \in 1..n /\ k \in 1..n /\ i < k  BY <2>1, <2>2
  <2>4. "ended" \in seen  BY <2>1, <2>3 DEF PngSeen
  <2>5. CASE j = n + 1  BY <1>1, <2>1, <2>4, <2>5
  <2>6. CASE j \in 1..n  BY <2>1, <2>3, <2>6 DEF PngOrder
  <2>7. QED  BY <1>3, <2>5, <2>6
<1>13. /\ \A i \in 1..(n + 1) : parts[i].whole /\ ~parts[i].last
       /\ \A i \in 1..(n + 1) : parts[i].kind \in {"IHDR", "PLTE", "IDAT", "ancillary"}
  BY <1>1, <1>3 DEF PngOrder
<1>14. QED  BY <1>2, <1>9, <1>10, <1>11, <1>12, <1>13 DEF PngOrder

\* A PNG that is closed as static is a still picture.
LEMMA PngTakesStill ==
  ASSUME NEW parts, DOMAIN parts = 1..Len(parts), NEW n \in Nat, Len(parts) = n + 1,
         NEW part, part = parts[n + 1], part.kind \in PngKinds,
         part.whole \in BOOLEAN, part.last \in BOOLEAN,
         PngSeen(parts, n, seen), PngOrder(parts, n), PngVerdict(part) = "static"
  PROVE  Proper(parts) /\ StillPng(parts)
<1>1. /\ part.whole /\ part.last /\ part.kind = "IEND" /\ "IDAT" \in seen /\ "IHDR" \in seen
  <2>1. ~(~part.whole \/ ((part.kind = "IHDR") <=> ("IHDR" \in seen)))
    BY DEF PngVerdict
  <2>2. part.kind \notin {"acTL", "fcTL", "critical"}
    BY <2>1 DEF PngVerdict
  <2>3. ~(part.kind = "PLTE" /\ seen \cap {"PLTE", "IDAT"} # {}) /\ ~(part.kind = "IDAT" /\ "ended" \in seen)
    BY <2>1, <2>2 DEF PngVerdict
  <2>4. part.kind = "IEND"
    BY <2>1, <2>2, <2>3 DEF PngVerdict
  <2>5. "IDAT" \in seen /\ part.last
    BY <2>1, <2>4 DEF PngVerdict, ClosesAs
  <2>6. QED  BY <2>1, <2>4, <2>5
<1>2. \A i \in DOMAIN parts : i \in 1..n \/ i = n + 1  OBVIOUS
<1>3. n + 1 \in DOMAIN parts /\ \A i \in 1..n : i \in DOMAIN parts /\ i # n + 1
  OBVIOUS
<1>4. Proper(parts)
  BY <1>1, <1>2, <1>3 DEF PngOrder, Proper
<1>5. Of("IEND", parts) = {Len(parts)}
  BY <1>1, <1>2, <1>3 DEF PngOrder, Of
<1>6. Of("IHDR", parts) = {1}
  <2>1. \E i \in 1..n : parts[i].kind = "IHDR"  BY <1>1 DEF PngSeen
  <2>2. 1 \in 1..n  BY <2>1
  <2>3. QED  BY <1>1, <1>2, <1>3, <2>2 DEF PngOrder, Of
<1>7. \A kind \in {"PLTE", "IDAT"} : Of(kind, parts) = {i \in 1..n : parts[i].kind = kind}
  BY <1>1, <1>2, <1>3 DEF Of
<1>8. Of("IDAT", parts) # {}
  BY <1>1, <1>7 DEF PngSeen
<1>9. \A i, j \in Of("IDAT", parts) : i..j \subseteq Of("IDAT", parts)
  <2>1. SUFFICES ASSUME NEW i \in Of("IDAT", parts), NEW j \in Of("IDAT", parts), NEW k \in i..j
                 PROVE  k \in Of("IDAT", parts)
    OBVIOUS
  <2>2. i \in 1..n /\ j \in 1..n /\ parts[i].kind = "IDAT" /\ parts[j].kind = "IDAT"
    BY <1>7
  <2>3. k \in 1..n /\ i <= k /\ k <= j  BY <2>2
  <2>4. parts[k].kind = "IDAT"  BY <2>2, <2>3 DEF PngOrder
  <2>5. QED  BY <1>7, <2>3, <2>4
<1>10. \A i \in Of("PLTE", parts), j \in Of("PLTE", parts) \cup Of("IDAT", parts) : i <= j
  BY <1>7 DEF PngOrder
<1>11. \A i \in DOMAIN parts : parts[i].kind \notin {"acTL", "fcTL", "critical"}
  BY <1>1, <1>2 DEF PngOrder
<1>12. QED  BY <1>4, <1>5, <1>6, <1>8, <1>9, <1>10, <1>11 DEF StillPng

\* No chunk a still PNG has at its place is refused there.
LEMMA PngAdmitsStill ==
  ASSUME NEW file, DOMAIN file = 1..Len(file), Len(file) \in Nat, NEW n \in Nat, n < Len(file),
         NEW part, part = file[n + 1], part.kind \in PngKinds,
         PngSeen(file, n, seen), Proper(file), StillPng(file)
  PROVE  PngVerdict(part) \in {"undecided", "static"}
<1>1. n + 1 \in DOMAIN file /\ \A i \in 1..n : i \in DOMAIN file /\ i < n + 1
  OBVIOUS
<1>2. part.whole /\ (part.last <=> n + 1 = Len(file))  BY <1>1 DEF Proper
<1>3. \A i \in DOMAIN file : file[i].kind = "IHDR" <=> i = 1
  BY DEF StillPng, Of
<1>4. part.kind = "IHDR" <=> "IHDR" \notin seen
  <2>1. CASE n = 0  BY <1>1, <1>3, <2>1 DEF PngSeen
  <2>2. CASE n > 0
    <3>1. 1 \in 1..n /\ 1 \in DOMAIN file /\ n + 1 # 1  BY <2>2
    <3>2. "IHDR" \in seen  BY <1>3, <3>1 DEF PngSeen
    <3>3. QED  BY <1>1, <1>3, <3>1, <3>2
  <2>3. QED  BY <2>1, <2>2
<1>5. part.kind \notin {"acTL", "fcTL", "critical"}  BY <1>1 DEF StillPng
<1>6. ~(part.kind = "PLTE" /\ seen \cap {"PLTE", "IDAT"} # {})
  <2>1. SUFFICES ASSUME part.kind = "PLTE", NEW kind \in {"PLTE", "IDAT"}, kind \in seen PROVE FALSE
    OBVIOUS
  <2>2. PICK i \in 1..n : file[i].kind = kind  BY <2>1 DEF PngSeen
  <2>3. n + 1 \in Of("PLTE", file) /\ i \in Of("PLTE", file) \cup Of("IDAT", file)
    BY <1>1, <2>1, <2>2 DEF Of
  <2>4. n + 1 <= i  BY <2>3 DEF StillPng
  <2>5. QED  BY <2>4
<1>7. ~(part.kind = "IDAT" /\ "ended" \in seen)
  <2>1. SUFFICES ASSUME part.kind = "IDAT", "ended" \in seen PROVE FALSE  OBVIOUS
  <2>2. PICK i \in 1..n, j \in 1..n : i < j /\ file[i].kind = "IDAT" /\ file[j].kind # "IDAT"
    BY <2>1 DEF PngSeen
  <2>3. i \in Of("IDAT", file) /\ n + 1 \in Of("IDAT", file)  BY <1>1, <2>1, <2>2 DEF Of
  <2>4. i..(n + 1) \subseteq Of("IDAT", file)  BY <2>3 DEF StillPng
  <2>5. j \in i..(n + 1)  BY <2>2
  <2>6. QED  BY <2>2, <2>4, <2>5 DEF Of
<1>8. part.kind = "IEND" <=> n + 1 = Len(file)
  BY <1>1 DEF StillPng, Of
<1>9. part.kind = "IEND" => "IDAT" \in seen
  <2>1. SUFFICES ASSUME part.kind = "IEND" PROVE "IDAT" \in seen  OBVIOUS
  <2>2. PICK i \in DOMAIN file : file[i].kind = "IDAT"  BY DEF StillPng, Of
  <2>3. i # n + 1  BY <2>1, <2>2
  <2>4. i \in 1..n  BY <1>8, <2>1, <2>2, <2>3
  <2>5. QED  BY <2>2, <2>4 DEF PngSeen
<1>10. CASE part.kind = "IEND"
  BY <1>2, <1>4, <1>5, <1>6, <1>7, <1>8, <1>9, <1>10 DEF PngVerdict, ClosesAs
<1>11. CASE part.kind # "IEND"
  BY <1>2, <1>4, <1>5, <1>6, <1>7, <1>8, <1>11 DEF PngVerdict
<1>12. QED  BY <1>10, <1>11

-----------------------------------------------------------------------------
(* WebP. *)

WebPKinds == {"VP8X", "VP8", "VP8L", "ALPH", "ICCP", "EXIF", "XMP", "ANIM", "unknown"}
Images == {"VP8", "VP8L"}
Single == {"ALPH", "ICCP", "EXIF", "XMP"}

\* The chunks of a WebP.
LEMMA WebPKindsAre == Kinds["webp"] = WebPKinds
BY DEF Kinds, WebPKinds

WebPSeen(parts, n, marks) == marks = UNION {WebPMarks(parts[i]) : i \in 1..n}

(* Whether part i was in its place.                                          *)
WebPOrder(parts, n) ==
  /\ \A i \in 1..n : parts[i].whole /\ parts[i].kind \in WebPKinds \ {"ANIM", "unknown"}
  /\ \A i \in 1..n : "animation" \notin parts[i].says
  /\ \A i \in 1..n : parts[i].kind = "VP8X" => i = 1
  /\ n > 0 /\ parts[1].kind # "VP8X" => n = 1 /\ parts[1].kind \in Images
  /\ \A i \in 1..n, j \in 1..n : parts[i].kind \in Images /\ parts[j].kind \in Images => i = j
  /\ \A i \in 1..n, j \in 1..n : parts[i].kind \in Single /\ parts[j].kind = parts[i].kind => i = j
  /\ \A i \in 1..n, j \in 1..n :
       parts[i].kind \in {"ALPH", "ICCP"} /\ parts[j].kind \in Images => i < j
  /\ \A i \in 1..n : parts[i].kind \in {"EXIF", "XMP"} =>
       \E j \in 1..n : j < i /\ parts[j].kind \in Images
  /\ \A i \in 1..n, j \in 1..n : ~(parts[i].kind = "ALPH" /\ parts[j].kind = "VP8L")

\* What a chunk marks, said mark by mark.
LEMMA WebPMarksAre ==
  ASSUME NEW part, part.kind \in WebPKinds, part.says \in SaysOf(part.kind)
  PROVE  /\ "image" \in WebPMarks(part) <=> part.kind \in Images
         /\ "fits" \in WebPMarks(part) <=> (part.kind \in Images /\ part.fits)
         /\ "VP8X" \in WebPMarks(part) <=> part.kind = "VP8X"
         /\ \A kind \in Single : kind \in WebPMarks(part) <=> part.kind = kind
         /\ "alpha" \in WebPMarks(part) <=>
              (part.kind = "ALPH" \/ (part.kind \in Images /\ "alpha" \in part.says))
         /\ "animation" \in part.says => part.kind = "VP8X"
<1>1. CASE part.kind \in Images
  <2>1. part.says \subseteq {"alpha"}  BY <1>1 DEF SaysOf, Images
  <2>2. WebPMarks(part) = {"image"} \cup part.says \cup (IF part.fits THEN {"fits"} ELSE {})
    BY <1>1 DEF WebPMarks, Images
  <2>3. QED  BY <1>1, <2>1, <2>2 DEF Images, Single
<1>2. CASE part.kind = "ALPH"
  <2>1. WebPMarks(part) = {"alpha", "ALPH"} /\ part.says = {}  BY <1>2 DEF WebPMarks, SaysOf
  <2>2. QED  BY <1>2, <2>1 DEF Images, Single
<1>3. CASE part.kind = "VP8X"
  <2>1. WebPMarks(part) = {"VP8X"}  BY <1>3 DEF WebPMarks
  <2>2. QED  BY <1>3, <2>1 DEF Images, Single
<1>4. CASE part.kind \in {"ICCP", "EXIF", "XMP", "ANIM", "unknown"}
  <2>1. WebPMarks(part) = {part.kind}  BY <1>4 DEF WebPMarks
  <2>2. part.says = {}  BY <1>4 DEF SaysOf
  <2>3. QED  BY <1>4, <2>1, <2>2 DEF Images, Single
<1>5. QED  BY <1>1, <1>2, <1>3, <1>4 DEF WebPKinds, Images

(* What has been seen, said of the parts.                                    *)
WebPTells(parts, n, marks) ==
  /\ "image" \in marks <=> \E i \in 1..n : parts[i].kind \in Images
  /\ "fits" \in marks <=> \E i \in 1..n : parts[i].kind \in Images /\ parts[i].fits
  /\ "VP8X" \in marks <=> \E i \in 1..n : parts[i].kind = "VP8X"
  /\ \A kind \in Single : kind \in marks <=> \E i \in 1..n : parts[i].kind = kind
  /\ "alpha" \in marks <=>
       \E i \in 1..n : parts[i].kind = "ALPH" \/ (parts[i].kind \in Images /\ "alpha" \in parts[i].says)

\* The features VP8X tells of are those that were found.
LEMMA WebPTold ==
  ASSUME NEW parts, NEW n \in Nat, NEW marks, WebPSeen(parts, n, marks),
         \A i \in 1..n : parts[i].kind \in WebPKinds /\ parts[i].says \in SaysOf(parts[i].kind)
  PROVE  WebPTells(parts, n, marks)
<1>1. \A m : m \in marks <=> \E i \in 1..n : m \in WebPMarks(parts[i])
  BY DEF WebPSeen
<1>2. ASSUME NEW i \in 1..n
      PROVE  /\ "image" \in WebPMarks(parts[i]) <=> parts[i].kind \in Images
             /\ "fits" \in WebPMarks(parts[i]) <=> (parts[i].kind \in Images /\ parts[i].fits)
             /\ "VP8X" \in WebPMarks(parts[i]) <=> parts[i].kind = "VP8X"
             /\ \A kind \in Single : kind \in WebPMarks(parts[i]) <=> parts[i].kind = kind
             /\ "alpha" \in WebPMarks(parts[i]) <=>
                  (parts[i].kind = "ALPH" \/ (parts[i].kind \in Images /\ "alpha" \in parts[i].says))
  BY WebPMarksAre
<1>3. "image" \in marks <=> \E i \in 1..n : parts[i].kind \in Images  BY <1>1, <1>2
<1>4. "fits" \in marks <=> \E i \in 1..n : parts[i].kind \in Images /\ parts[i].fits  BY <1>1, <1>2
<1>5. "VP8X" \in marks <=> \E i \in 1..n : parts[i].kind = "VP8X"  BY <1>1, <1>2
<1>6. \A kind \in Single : kind \in marks <=> \E i \in 1..n : parts[i].kind = kind  BY <1>1, <1>2
<1>7. "alpha" \in marks <=>
        \E i \in 1..n : parts[i].kind = "ALPH" \/ (parts[i].kind \in Images /\ "alpha" \in parts[i].says)
  BY <1>1, <1>2
<1>8. QED  BY <1>3, <1>4, <1>5, <1>6, <1>7 DEF WebPTells

\* The marks after one more chunk.
LEMMA WebPSeenOn ==
  ASSUME NEW parts, NEW n \in Nat, NEW marks, WebPSeen(parts, n, marks)
  PROVE  WebPSeen(parts, n + 1, marks \cup WebPMarks(parts[n + 1]))
<1>1. 1..(n + 1) = (1..n) \cup {n + 1}  OBVIOUS
<1>2. QED  BY <1>1 DEF WebPSeen

\* After a chunk that decides nothing, marks and order still hold.
LEMMA WebPGoesOn ==
  ASSUME NEW parts, NEW n \in Nat, NEW part, part = parts[n + 1], part.kind \in WebPKinds,
         part.says \in SaysOf(part.kind), WebPTells(parts, n, seen), WebPOrder(parts, n),
         n = 0 => read = <<>>, n # 0 => read # <<>>, part.kind # "ANIM", ~WebPRefuses(part),
         "animation" \notin part.says
  PROVE  WebPOrder(parts, n + 1)
<1>1. \A i \in 1..(n + 1) : i \in 1..n \/ i = n + 1  OBVIOUS
<1>2. n + 1 \in 1..(n + 1) /\ \A i \in 1..n : i \in 1..(n + 1) /\ i < n + 1 /\ i # n + 1
  OBVIOUS
<1>3. part.whole /\ part.kind \in WebPKinds \ {"ANIM", "unknown"}  BY DEF WebPRefuses
<1>4. part.kind = "VP8X" => n = 0  BY DEF WebPRefuses
<1>5. part.kind = "ALPH" => "VP8X" \in seen /\ "ALPH" \notin seen /\ "image" \notin seen
  BY DEF WebPRefuses
<1>6. part.kind \in Images => "image" \notin seen /\ ("VP8X" \in seen \/ n = 0)
  BY DEF WebPRefuses, Images
<1>7. part.kind = "VP8L" => "ALPH" \notin seen
  BY DEF WebPRefuses
<1>8. part.kind = "ICCP" => "VP8X" \in seen /\ "ICCP" \notin seen /\ "image" \notin seen
  BY DEF WebPRefuses
<1>9. part.kind \in {"EXIF", "XMP"} => part.kind \notin seen /\ "VP8X" \in seen /\ "image" \in seen
  BY DEF WebPRefuses
<1>10. /\ \A i \in 1..(n + 1) : parts[i].whole /\ parts[i].kind \in WebPKinds \ {"ANIM", "unknown"}
       /\ \A i \in 1..(n + 1) : "animation" \notin parts[i].says
  BY <1>1, <1>3 DEF WebPOrder
<1>11. \A i \in 1..(n + 1) : parts[i].kind = "VP8X" => i = 1
  BY <1>1, <1>4 DEF WebPOrder
<1>12. ASSUME parts[1].kind # "VP8X" PROVE n + 1 = 1 /\ parts[1].kind \in Images
  <2>1. "VP8X" \notin seen
    <3>1. SUFFICES ASSUME NEW i \in 1..n, parts[i].kind = "VP8X" PROVE FALSE
      BY DEF WebPTells
    <3>2. i = 1  BY <3>1 DEF WebPOrder
    <3>3. QED  BY <1>12, <3>1, <3>2
  <2>2. CASE n = 0
    BY <1>3, <1>5, <1>8, <1>9, <1>12, <2>1, <2>2 DEF WebPKinds, Images
  <2>3. CASE n > 0
    <3>1. n # 0  BY <2>3
    <3>2. FALSE  BY <1>3, <1>4, <1>5, <1>6, <1>8, <1>9, <2>1, <3>1 DEF WebPKinds, Images
    <3>3. QED  BY <3>2
  <2>4. QED  BY <2>2, <2>3
<1>13. \A i \in 1..(n + 1), j \in 1..(n + 1) :
         parts[i].kind \in Images /\ parts[j].kind \in Images => i = j
  <2>1. part.kind \in Images => \A i \in 1..n : parts[i].kind \notin Images
    BY <1>6 DEF WebPTells
  <2>2. QED  BY <1>1, <2>1 DEF WebPOrder
<1>14. \A i \in 1..(n + 1), j \in 1..(n + 1) :
         parts[i].kind \in Single /\ parts[j].kind = parts[i].kind => i = j
  <2>1. part.kind \in Single => part.kind \notin seen
    BY <1>5, <1>8, <1>9 DEF Single
  <2>2. part.kind \in Single => \A i \in 1..n : parts[i].kind # part.kind
    BY <2>1 DEF WebPTells
  <2>3. QED  BY <1>1, <2>2 DEF WebPOrder
<1>15. \A i \in 1..(n + 1), j \in 1..(n + 1) :
         parts[i].kind \in {"ALPH", "ICCP"} /\ parts[j].kind \in Images => i < j
  <2>1. SUFFICES ASSUME NEW i \in 1..(n + 1), NEW j \in 1..(n + 1),
                        parts[i].kind \in {"ALPH", "ICCP"}, parts[j].kind \in Images
                 PROVE  i < j
    OBVIOUS
  <2>2. i # j  BY <2>1 DEF Images
  <2>3. CASE i = n + 1
    <3>1. "image" \notin seen  BY <1>5, <1>8, <2>1, <2>3
    <3>2. j \in 1..n  BY <1>1, <2>2, <2>3
    <3>3. QED  BY <2>1, <3>1, <3>2 DEF WebPTells
  <2>4. CASE i \in 1..n /\ j = n + 1  BY <2>4
  <2>5. CASE i \in 1..n /\ j \in 1..n  BY <2>1, <2>5 DEF WebPOrder
  <2>6. QED  BY <1>1, <2>3, <2>4, <2>5
<1>16. \A i \in 1..(n + 1) : parts[i].kind \in {"EXIF", "XMP"} =>
         \E j \in 1..(n + 1) : j < i /\ parts[j].kind \in Images
  <2>1. part.kind \in {"EXIF", "XMP"} => \E j \in 1..n : parts[j].kind \in Images
    BY <1>9 DEF WebPTells
  <2>2. part.kind \in {"EXIF", "XMP"} => \E j \in 1..(n + 1) : j < n + 1 /\ parts[j].kind \in Images
    BY <1>2, <2>1
  <2>3. \A i \in 1..n : parts[i].kind \in {"EXIF", "XMP"} =>
          \E j \in 1..(n + 1) : j < i /\ parts[j].kind \in Images
    BY <1>2 DEF WebPOrder
  <2>4. QED  BY <1>1, <2>2, <2>3
<1>17. \A i \in 1..(n + 1), j \in 1..(n + 1) : ~(parts[i].kind = "ALPH" /\ parts[j].kind = "VP8L")
  <2>1. part.kind = "ALPH" => \A i \in 1..n : parts[i].kind # "VP8L"
    BY <1>5 DEF WebPTells, Images
  <2>2. part.kind = "VP8L" => \A i \in 1..n : parts[i].kind # "ALPH"
    BY <1>7 DEF WebPTells, Single
  <2>3. QED  BY <1>1, <2>1, <2>2 DEF WebPOrder
<1>18. QED
  BY <1>10, <1>11, <1>12, <1>13, <1>14, <1>15, <1>16, <1>17 DEF WebPOrder

\* The size of a set of numbers, said without counting.
LEMMA AtMostOne ==
  ASSUME NEW n \in Nat, NEW S \in SUBSET (1..n)
  PROVE  /\ Cardinality(S) <= 1 => \A i \in S, j \in S : i = j
         /\ (\A i \in S, j \in S : i = j) => Cardinality(S) <= 1
         /\ Cardinality(S) = 1 <=> \E i \in S : S = {i}
         /\ Cardinality(S) > 0 <=> S # {}
<1>1. IsFiniteSet(1..n)  BY FS_Interval
<1>2. IsFiniteSet(S)  BY <1>1, FS_Subset
<1>3. Cardinality(S) \in Nat  BY <1>2, FS_CardinalityType
<1>4. Cardinality(S) = 0 <=> S = {}  BY <1>2, FS_EmptySet
<1>5. Cardinality(S) = 1 <=> \E i : S = {i}  BY <1>2, FS_Singleton
<1>6. Cardinality(S) = 1 <=> \E i \in S : S = {i}  BY <1>5
<1>7. Cardinality(S) <= 1 <=> Cardinality(S) = 0 \/ Cardinality(S) = 1  BY <1>3
<1>8. Cardinality(S) <= 1 <=> S = {} \/ \E i \in S : S = {i}  BY <1>4, <1>6, <1>7
<1>9. (\A i \in S, j \in S : i = j) <=> S = {} \/ \E i \in S : S = {i}  OBVIOUS
<1>10. Cardinality(S) > 0 <=> S # {}
  <2>1. PICK c \in Nat : c = Cardinality(S)  BY <1>3
  <2>2. c > 0 <=> c # 0  BY <2>1
  <2>3. QED  BY <1>4, <2>1, <2>2
<1>11. QED  BY <1>6, <1>8, <1>9, <1>10

\* The numbers up to n + 1 are those up to n and n + 1.
LEMMA Numbers ==
  ASSUME NEW n \in Nat
  PROVE  /\ n + 1 \in Nat /\ n + 1 \in 1..(n + 1)
         /\ \A i \in 1..n : i \in 1..(n + 1) /\ i < n + 1 /\ i # n + 1 /\ i \in Nat
         /\ \A i \in 1..(n + 1) : i \in 1..n \/ i = n + 1
         /\ n # 0 => 1 \in 1..n
         /\ \A i \in 1..n : i # 1 => 1 < i
         /\ \A i \in 1..n, j \in 1..n : i < j \/ i = j \/ j < i
OBVIOUS

(* A file of n parts of these kinds.                                         *)
FileOf(kinds, file, n) ==
  /\ n \in Nat /\ Len(file) = n /\ DOMAIN file = 1..n
  /\ \A i \in 1..n : file[i].kind \in kinds /\ file[i].says \in SaysOf(file[i].kind)

\* Where the parts of a kind are.
LEMMA OfIs ==
  ASSUME NEW kinds, NEW file, NEW n, FileOf(kinds, file, n), NEW kind
  PROVE  /\ Of(kind, file) \in SUBSET (1..n)
         /\ \A i : i \in Of(kind, file) <=> i \in 1..n /\ file[i].kind = kind
BY DEF Of, FileOf

\* A WebP that is closed as static is a still picture.
LEMMA WebPTakesStill ==
  ASSUME NEW parts, NEW n \in Nat, FileOf(WebPKinds, parts, n), NEW marks,
         WebPTells(parts, n, marks), WebPOrder(parts, n), WebPEnds(parts, marks)
  PROVE  StillWebP(parts)
<1>1. /\ \A kind : Of(kind, parts) \in SUBSET (1..n)
      /\ \A kind, i : i \in Of(kind, parts) <=> i \in 1..n /\ parts[i].kind = kind
  BY OfIs
<1>0. Len(parts) = n /\ DOMAIN parts = 1..n  BY DEF FileOf
<1>2. PICK image \in 1..n : parts[image].kind \in Images
  BY DEF WebPEnds, WebPTells
<1>3. Of("VP8", parts) \cup Of("VP8L", parts) = {image}
  BY <1>1, <1>2 DEF WebPOrder, Images
<1>4. Of("ANIM", parts) \cup Of("unknown", parts) = {}
  BY <1>1 DEF WebPOrder
<1>5. CASE n = 1
  BY <1>0, <1>2, <1>3, <1>4, <1>5 DEF StillWebP
<1>6. CASE n # 1
  <2>1. "VP8X" \in marks /\ "fits" \in marks /\ parts[1].says = marks \cap Features
    BY <1>0, <1>6 DEF WebPEnds
  <2>2. Of("VP8X", parts) = {1}
    BY <1>1, <2>1 DEF WebPTells, WebPOrder
  <2>3. parts[image].fits
    <3>1. PICK i \in 1..n : parts[i].kind \in Images /\ parts[i].fits
      BY <2>1 DEF WebPTells
    <3>2. i = image  BY <1>2, <3>1 DEF WebPOrder
    <3>3. QED  BY <3>1, <3>2
  <2>4. \A kind \in Single : Cardinality(Of(kind, parts)) <= 1
    <3>1. SUFFICES ASSUME NEW kind \in Single PROVE Cardinality(Of(kind, parts)) <= 1  OBVIOUS
    <3>2. \A i \in Of(kind, parts), j \in Of(kind, parts) : i = j
      BY <1>1, <3>1 DEF WebPOrder
    <3>3. Of(kind, parts) \in SUBSET (1..n)  BY <1>1
    <3>4. QED  BY <3>2, <3>3, AtMostOne
  <2>5. \A i \in Of("ALPH", parts) \cup Of("ICCP", parts) : 1 < i /\ i < image
    <3>1. SUFFICES ASSUME NEW i \in 1..n, parts[i].kind \in {"ALPH", "ICCP"}
                   PROVE  1 < i /\ i < image
      BY <1>1
    <3>2. i # 1  BY <1>1, <2>2, <3>1
    <3>3. 1 < i  BY <3>1, <3>2, Numbers
    <3>4. i < image  BY <1>2, <3>1 DEF WebPOrder
    <3>5. QED  BY <3>3, <3>4
  <2>6. \A i \in Of("EXIF", parts) \cup Of("XMP", parts) : i > image
    <3>1. SUFFICES ASSUME NEW i \in 1..n, parts[i].kind \in {"EXIF", "XMP"}
                   PROVE  i > image
      BY <1>1
    <3>2. PICK j \in 1..n : j < i /\ parts[j].kind \in Images
      BY <3>1 DEF WebPOrder
    <3>3. j = image  BY <1>2, <3>2 DEF WebPOrder
    <3>4. QED  BY <3>2, <3>3
  <2>7. parts[image].kind = "VP8L" => Of("ALPH", parts) = {}
    BY <1>1, <1>2 DEF WebPOrder
  <2>8. Around(image, parts)  BY <2>4, <2>5, <2>6, <2>7 DEF Around, Single
  <2>9. ASSUME NEW feature \in Features \cup {"animation"}
        PROVE  feature \in parts[1].says <=>
                 \/ Of(feature, parts) # {}
                 \/ feature = "alpha" /\ (Of("ALPH", parts) # {} \/ feature \in parts[image].says)
    <3>1. CASE feature \in Single
      <4>1. feature \in marks <=> Of(feature, parts) # {}  BY <1>1, <3>1 DEF WebPTells
      <4>2. feature # "alpha" /\ feature \in Features  BY <2>9, <3>1 DEF Single, Features
      <4>3. QED  BY <2>1, <4>1, <4>2
    <3>2. CASE feature = "alpha"
      <4>1. Of("alpha", parts) = {}  BY <1>1 DEF WebPOrder, WebPKinds
      <4>2. "alpha" \in marks <=> (Of("ALPH", parts) # {} \/ "alpha" \in parts[image].says)
        <5>1. "alpha" \in marks <=>
                \E i \in 1..n : parts[i].kind = "ALPH" \/ (parts[i].kind \in Images /\ "alpha" \in parts[i].says)
          BY DEF WebPTells
        <5>2. \A i \in 1..n : parts[i].kind \in Images => i = image
          BY <1>2 DEF WebPOrder
        <5>3. QED  BY <1>1, <1>2, <5>1, <5>2
      <4>3. QED  BY <2>1, <3>2, <4>1, <4>2 DEF Features
    <3>3. CASE feature = "animation"
      <4>1. Of("animation", parts) = {}  BY <1>1 DEF WebPOrder, WebPKinds
      <4>2. QED  BY <2>1, <3>3, <4>1 DEF Features
    <3>4. QED  BY <2>9, <3>1, <3>2, <3>3 DEF Features, Single
  <2>10. QED
    BY <1>0, <1>2, <1>3, <1>4, <2>2, <2>3, <2>8, <2>9 DEF StillWebP
<1>7. QED  BY <1>5, <1>6

(* Of a file, n parts were read and part is the next.                        *)
ReadOf(n, part, file) ==
  /\ n = 0 <=> read = <<>>
  /\ n + 1 = Len(file) => Append(read, part) = file

\* No chunk a still WebP has at its place is refused there.
LEMMA WebPAdmitsStill ==
  ASSUME NEW file, NEW len \in Nat, FileOf(WebPKinds, file, len), NEW n \in Nat, n + 1 \in 1..len,
         NEW part, part = file[n + 1], WebPSeen(file, n, seen), Proper(file), StillWebP(file),
         ReadOf(n, part, file)
  PROVE  WebPVerdict(part) \in {"undecided", "static"}
<1>0. /\ Len(file) = len /\ DOMAIN file = 1..len
      /\ \A i \in 1..len : file[i].kind \in WebPKinds /\ file[i].says \in SaysOf(file[i].kind)
      /\ (n = 0 <=> read = <<>>)
      /\ (n + 1 = len => Append(read, part) = file)
  BY DEF FileOf, ReadOf
<1>1. n + 1 \in 1..len /\ \A i \in 1..n : i \in 1..len /\ i < n + 1 /\ i # n + 1
  BY <1>0, Numbers
<1>2. part.whole /\ (part.last <=> n + 1 = len)  BY <1>0, <1>1 DEF Proper
<1>3. WebPTells(file, n, seen)  BY <1>0, <1>1, WebPTold
<1>4. /\ \A kind : Of(kind, file) \in SUBSET (1..len)
      /\ \A kind, i : i \in Of(kind, file) <=> i \in 1..len /\ file[i].kind = kind
  BY OfIs
<1>5. PICK image \in 1..len :
        /\ Of("VP8", file) \cup Of("VP8L", file) = {image}
        /\ Of("ANIM", file) \cup Of("unknown", file) = {}
        /\ \/ Len(file) = 1
           \/ /\ Of("VP8X", file) = {1} /\ file[image].fits /\ Around(image, file)
              /\ \A feature \in Features \cup {"animation"} : feature \in file[1].says <=>
                   \/ Of(feature, file) # {}
                   \/ feature = "alpha" /\ (Of("ALPH", file) # {} \/ feature \in file[image].says)
  BY <1>0 DEF StillWebP
<1>6. \A i \in 1..len : file[i].kind \in Images <=> i = image
  BY <1>4, <1>5 DEF Images
<1>7. part.kind \notin {"ANIM", "unknown"} /\ part.kind \in WebPKinds
      /\ part.says \in SaysOf(part.kind)
  BY <1>0, <1>1, <1>4, <1>5
<1>8. CASE len = 1
  <2>1. n = 0 /\ image = 1  BY <1>1, <1>8
  <2>10. part.kind \in Images /\ part.last
    BY <1>1, <1>2, <1>6, <1>8, <2>1
  <2>2. read = <<>> /\ "image" \notin seen /\ "ALPH" \notin seen
    <3>1. read = <<>>  BY <1>0, <2>1
    <3>2. \A i \in 1..n : FALSE  BY <2>1
    <3>3. QED  BY <3>1, <3>2, <1>3 DEF WebPTells, Single
  <2>3. ~WebPRefuses(part)  BY <1>2, <2>10, <2>2 DEF WebPRefuses, Images
  <2>4. "animation" \notin part.says
    BY <1>7, <2>10, WebPMarksAre DEF Images
  <2>5. Append(read, part) = file /\ Len(file) = 1  BY <1>0, <1>8, <2>1
  <2>6. "image" \in seen \cup WebPMarks(part) /\ "VP8X" \notin seen \cup WebPMarks(part)
    <3>1. "VP8X" \notin seen
      <4>1. \A i \in 1..n : FALSE  BY <2>1
      <4>2. QED  BY <4>1, <1>3 DEF WebPTells
    <3>2. "image" \in WebPMarks(part) /\ "VP8X" \notin WebPMarks(part)
      BY <1>7, <2>10, WebPMarksAre DEF Images
    <3>3. QED  BY <3>1, <3>2
  <2>7. WebPEnds(Append(read, part), seen \cup WebPMarks(part))
    BY <2>5, <2>6 DEF WebPEnds
  <2>8. QED  BY <1>7, <2>3, <2>4, <2>7 DEF WebPVerdict, ClosesAs
<1>9. CASE len # 1
  <2>1. /\ Of("VP8X", file) = {1} /\ file[image].fits /\ Around(image, file)
        /\ \A feature \in Features \cup {"animation"} : feature \in file[1].says <=>
             \/ Of(feature, file) # {}
             \/ feature = "alpha" /\ (Of("ALPH", file) # {} \/ feature \in file[image].says)
    BY <1>0, <1>5, <1>9
  <2>2. 1 \in 1..len /\ \A i \in 1..len : file[i].kind = "VP8X" <=> i = 1
    BY <1>4, <2>1
  <2>3. n # 0 <=> "VP8X" \in seen
    <3>1. "VP8X" \in seen <=> \E i \in 1..n : file[i].kind = "VP8X"  BY <1>3 DEF WebPTells
    <3>2. n # 0 => 1 \in 1..n  BY Numbers
    <3>4. n = 0 => \A i \in 1..n : FALSE  OBVIOUS
    <3>3. QED  BY <2>2, <3>1, <3>2, <3>4
  <2>4. part.kind = "VP8X" <=> n = 0
    <3>1. n + 1 = 1 <=> n = 0  OBVIOUS
    <3>2. QED  BY <1>1, <2>2, <3>1
  <2>5. "image" \in seen <=> image \in 1..n
    BY <1>1, <1>3, <1>6 DEF WebPTells
  <2>6. part.kind \in Images <=> n + 1 = image  BY <1>1, <1>6
  <2>7. ASSUME part.kind \in Single PROVE part.kind \notin seen
    <3>1. SUFFICES ASSUME NEW i \in 1..n, file[i].kind = part.kind PROVE FALSE
      BY <1>3, <2>7 DEF WebPTells
    <3>2. i \in Of(part.kind, file) /\ n + 1 \in Of(part.kind, file)
      BY <1>1, <1>4, <3>1
    <3>3. Cardinality(Of(part.kind, file)) <= 1  BY <2>1, <2>7 DEF Around, Single
    <3>4. Of(part.kind, file) \in SUBSET (1..len)  BY <1>4
    <3>7. PICK S : S = Of(part.kind, file)  OBVIOUS
    <3>8. S \in SUBSET (1..len) /\ Cardinality(S) <= 1  BY <3>3, <3>4, <3>7
    <3>9. \A j \in S, k \in S : j = k  BY <3>8, AtMostOne
    <3>5. i = n + 1  BY <3>2, <3>7, <3>9
    <3>6. QED  BY <1>1, <3>5
  <2>8. part.kind \in {"ALPH", "ICCP"} => n # 0 /\ "image" \notin seen
    <3>1. SUFFICES ASSUME part.kind \in {"ALPH", "ICCP"} PROVE n # 0 /\ "image" \notin seen
      OBVIOUS
    <3>2. n + 1 \in Of("ALPH", file) \cup Of("ICCP", file)  BY <1>1, <1>4, <3>1
    <3>3. 1 < n + 1 /\ n + 1 < image  BY <2>1, <3>2 DEF Around
    <3>4. n # 0  BY <3>3
    <3>5. image \notin 1..n
      <4>1. \A i \in 1..n : i < n + 1  BY Numbers
      <4>2. image \in Nat /\ ~(image < n + 1)  BY <3>3, <1>5
      <4>3. QED  BY <4>1, <4>2
    <3>6. QED  BY <2>5, <3>4, <3>5
  <2>9. part.kind \in {"EXIF", "XMP"} => n # 0 /\ "image" \in seen
    <3>1. SUFFICES ASSUME part.kind \in {"EXIF", "XMP"} PROVE n # 0 /\ "image" \in seen
      OBVIOUS
    <3>2. n + 1 \in Of("EXIF", file) \cup Of("XMP", file)  BY <1>1, <1>4, <3>1
    <3>3. n + 1 > image  BY <2>1, <3>2 DEF Around
    <3>4. image \in 1..len  BY <1>5
    <3>5. image \in 1..n  BY <3>3, <3>4
    <3>6. n # 0  BY <3>5
    <3>7. QED  BY <2>5, <3>5, <3>6
  <2>10. part.kind = "VP8L" => "ALPH" \notin seen
    <3>1. SUFFICES ASSUME part.kind = "VP8L", NEW i \in 1..n, file[i].kind = "ALPH" PROVE FALSE
      BY <1>3 DEF WebPTells, Single
    <3>2. file[image].kind = "VP8L"  BY <2>6, <3>1 DEF Images
    <3>3. i \in Of("ALPH", file)  BY <1>1, <1>4, <3>1
    <3>4. QED  BY <2>1, <3>2, <3>3 DEF Around
  <2>11. part.kind \in Images => "image" \notin seen /\ n # 0
    <3>1. SUFFICES ASSUME part.kind \in Images PROVE "image" \notin seen /\ n # 0  OBVIOUS
    <3>2. image = n + 1  BY <2>6, <3>1
    <3>3. n # 0  BY <2>4, <3>1 DEF Images
    <3>4. QED  BY <1>1, <2>5, <3>2, <3>3
  <2>12. ~WebPRefuses(part)
    <3>1. part.kind = "VP8X" => read = <<>>  BY <1>0, <2>4
    <3>2. part.kind = "ALPH" => ~("VP8X" \notin seen \/ seen \cap {"ALPH", "image"} # {})
      BY <2>3, <2>7, <2>8 DEF Single
    <3>3. part.kind \in {"VP8", "VP8L"} => ~("image" \in seen \/ ("VP8X" \notin seen /\ read # <<>>))
      BY <2>3, <2>11 DEF Images
    <3>4. part.kind = "ICCP" => ~("VP8X" \notin seen \/ seen \cap {"ICCP", "image"} # {})
      BY <2>3, <2>7, <2>8 DEF Single
    <3>5. part.kind \in {"EXIF", "XMP"} => ~(part.kind \in seen \/ {"VP8X", "image"} \ seen # {})
      BY <2>3, <2>7, <2>9 DEF Single
    <3>6. QED  BY <1>2, <1>7, <2>10, <3>1, <3>2, <3>3, <3>4, <3>5 DEF WebPRefuses
  <2>13. "animation" \notin file[1].says
    <3>1. Of("animation", file) = {}  BY <1>0, <1>4 DEF WebPKinds
    <3>2. QED  BY <2>1, <3>1
  <2>14. "animation" \notin part.says
    <3>1. SUFFICES ASSUME "animation" \in part.says PROVE FALSE  OBVIOUS
    <3>2. part.kind = "VP8X"  BY <1>7, <3>1, WebPMarksAre
    <3>3. part = file[1]  BY <2>4, <3>2
    <3>4. QED  BY <2>13, <3>1, <3>3
  <2>15. ASSUME part.last PROVE WebPEnds(Append(read, part), seen \cup WebPMarks(part))
    <3>1. n + 1 = len /\ Append(read, part) = file  BY <1>0, <1>2, <2>15
    <3>2. PICK marks : marks = seen \cup WebPMarks(part)  OBVIOUS
    <3>3. WebPSeen(file, n + 1, marks)  BY <3>2, WebPSeenOn
    <3>4. WebPTells(file, n + 1, marks)
      <4>1. \A i \in 1..(n + 1) : file[i].kind \in WebPKinds /\ file[i].says \in SaysOf(file[i].kind)
        BY <1>0, <3>1
      <4>2. n + 1 \in Nat  BY Numbers
      <4>3. QED  BY <3>3, <4>1, <4>2, WebPTold
    <3>5. 1..len = 1..(n + 1)  BY <3>1
    <3>6. "image" \in marks /\ "fits" \in marks /\ "VP8X" \in marks
      BY <1>6, <2>1, <2>2, <3>4, <3>5 DEF WebPTells
    <3>7. file[1].says \subseteq Features
      <4>1. file[1].says \in SaysOf("VP8X")
        <5>1. file[1].kind = "VP8X" /\ 1 \in 1..len  BY <2>2
        <5>2. file[1].says \in SaysOf(file[1].kind)  BY <1>0, <5>1
        <5>3. QED  BY <5>1, <5>2
      <4>2. file[1].says \in (SUBSET Features) \cup {{"animation"}}  BY <4>1 DEF SaysOf
      <4>3. file[1].says # {"animation"}  BY <2>13
      <4>4. QED  BY <4>2, <4>3
    <3>8. ASSUME NEW feature \in Features PROVE feature \in file[1].says <=> feature \in marks
      <4>1. CASE feature \in Single
        <5>1. feature # "alpha"  BY <4>1 DEF Single
        <5>2. feature \in file[1].says <=> Of(feature, file) # {}  BY <2>1, <5>1
        <5>3. feature \in marks <=> \E i \in 1..(n + 1) : file[i].kind = feature
          BY <3>4, <4>1 DEF WebPTells
        <5>4. Of(feature, file) # {} <=> \E i \in 1..len : file[i].kind = feature  BY <1>4
        <5>5. QED  BY <3>5, <5>2, <5>3, <5>4
      <4>2. CASE feature = "alpha"
        <5>1. Of("alpha", file) = {}  BY <1>0, <1>4 DEF WebPKinds
        <5>2. "alpha" \in file[1].says <=> (Of("ALPH", file) # {} \/ "alpha" \in file[image].says)
          BY <2>1, <5>1 DEF Features
        <5>3. "alpha" \in marks <=>
                \E i \in 1..(n + 1) : file[i].kind = "ALPH"
                                      \/ (file[i].kind \in Images /\ "alpha" \in file[i].says)
          BY <3>4 DEF WebPTells
        <5>4. QED  BY <1>4, <1>6, <3>5, <4>2, <5>2, <5>3
      <4>3. QED  BY <3>8, <4>1, <4>2 DEF Features, Single
    <3>9. file[1].says = marks \cap Features  BY <3>7, <3>8
    <3>10. QED  BY <3>1, <3>2, <3>6, <3>9 DEF WebPEnds
  <2>16. QED  BY <1>7, <2>12, <2>14, <2>15 DEF WebPVerdict, ClosesAs
<1>10. QED  BY <1>8, <1>9

-----------------------------------------------------------------------------
(* JPEG. *)

\* Every set of numbers that has one has a least one.
LEMMA LeastNumber ==
  ASSUME NEW T \in SUBSET Nat, T # {}
  PROVE  \E x \in T : \A y \in T : x <= y
<1>1. IsWellFoundedOn(OpToRel(<, Nat), Nat)
  BY NatLessThanWellFounded
<1>2. \E x \in T : \A y \in T : ~(<<y, x>> \in OpToRel(<, Nat))
  BY <1>1, WFMin
<1>3. \A x \in T, y \in T : ~(<<y, x>> \in OpToRel(<, Nat)) => x <= y
  BY DEF OpToRel
<1>4. QED  BY <1>2, <1>3

JpegKinds == {"SOF", "SOS", "RST", "EOI", "segment", "reserved"}
Scan == {"SOS", "RST"}

\* The segments of a JPEG.
LEMMA JpegKindsAre == Kinds["jpeg"] = JpegKinds
BY DEF Kinds, JpegKinds

JpegSeen(parts, n, marks) ==
  /\ \A kind \in {"SOF", "SOS"} : kind \in marks <=> \E i \in 1..n : parts[i].kind = kind
  /\ "inScan" \in marks <=> (n # 0 /\ parts[n].kind \in Scan)

JpegOrder(parts, n) ==
  /\ \A i \in 1..n : /\ parts[i].whole /\ ~parts[i].last
                     /\ parts[i].kind \in {"SOF", "SOS", "RST", "segment"}
  /\ \A i \in 1..n, j \in 1..n : parts[i].kind = "SOF" /\ parts[j].kind = "SOF" => i = j
  /\ \A i \in 1..n : parts[i].kind = "RST" => i # 1 /\ parts[i - 1].kind \in Scan

(* The flags after part.                                                     *)
JpegMarked(part) ==
  (IF part.kind = "RST" THEN seen ELSE seen \ {"inScan"}) \cup JpegMarks(part)

\* After a segment that decides nothing, marks and order still hold.
LEMMA JpegGoesOn ==
  ASSUME NEW parts, NEW n \in Nat, NEW part, part = parts[n + 1], part.kind \in JpegKinds,
         part.whole \in BOOLEAN, part.last \in BOOLEAN,
         JpegSeen(parts, n, seen), JpegOrder(parts, n), JpegVerdict(part) = "undecided"
  PROVE  JpegSeen(parts, n + 1, JpegMarked(part)) /\ JpegOrder(parts, n + 1)
<1>1. /\ part.whole /\ ~part.last /\ part.kind \in {"SOF", "SOS", "RST", "segment"}
      /\ part.kind = "SOF" => "SOF" \notin seen
      /\ part.kind = "RST" => "inScan" \in seen
  <2>1. ~(\/ ~part.whole \/ part.kind = "reserved"
          \/ part.kind = "SOF" /\ "SOF" \in seen
          \/ part.kind = "RST" /\ "inScan" \notin seen)
    BY DEF JpegVerdict
  <2>2. part.kind # "EOI"  BY <2>1 DEF JpegVerdict, ClosesAs
  <2>3. ~part.last  BY <2>1, <2>2 DEF JpegVerdict
  <2>4. QED  BY <2>1, <2>2, <2>3 DEF JpegKinds
<1>2. PICK marks : marks = JpegMarked(part)  OBVIOUS
<1>3. /\ \A i \in 1..(n + 1) : i \in 1..n \/ i = n + 1
      /\ n + 1 \in 1..(n + 1) /\ \A i \in 1..n : i \in 1..(n + 1) /\ i # n + 1
  BY Numbers
<1>4. ASSUME NEW kind \in {"SOF", "SOS"}
      PROVE  kind \in marks <=> \E i \in 1..(n + 1) : parts[i].kind = kind
  <2>1. kind \in marks <=> kind \in seen \/ part.kind = kind
    BY <1>1, <1>2 DEF JpegMarked, JpegMarks
  <2>2. kind \in seen <=> \E i \in 1..n : parts[i].kind = kind  BY DEF JpegSeen
  <2>3. QED  BY <1>3, <2>1, <2>2
<1>5. "inScan" \in marks <=> part.kind \in Scan
  BY <1>1, <1>2 DEF JpegMarked, JpegMarks, Scan
<1>6. n + 1 # 0  OBVIOUS
<1>7. JpegSeen(parts, n + 1, marks)  BY <1>4, <1>5, <1>6 DEF JpegSeen
<1>8. \A i \in 1..(n + 1) : /\ parts[i].whole /\ ~parts[i].last
                            /\ parts[i].kind \in {"SOF", "SOS", "RST", "segment"}
  BY <1>1, <1>3 DEF JpegOrder
<1>9. \A i \in 1..(n + 1), j \in 1..(n + 1) :
        parts[i].kind = "SOF" /\ parts[j].kind = "SOF" => i = j
  <2>1. part.kind = "SOF" => \A i \in 1..n : parts[i].kind # "SOF"  BY <1>1 DEF JpegSeen
  <2>2. QED  BY <1>3, <2>1 DEF JpegOrder
<1>10. \A i \in 1..(n + 1) : parts[i].kind = "RST" => i # 1 /\ parts[i - 1].kind \in Scan
  <2>1. part.kind = "RST" => n + 1 # 1 /\ parts[n].kind \in Scan  BY <1>1 DEF JpegSeen
  <2>2. n + 1 - 1 = n  OBVIOUS
  <2>3. QED  BY <1>3, <2>1, <2>2 DEF JpegOrder
<1>11. QED  BY <1>2, <1>7, <1>8, <1>9, <1>10 DEF JpegOrder

\* A JPEG that is closed as static is a still picture.
LEMMA JpegTakesStill ==
  ASSUME NEW parts, NEW n \in Nat, FileOf(JpegKinds, parts, n + 1),
         NEW part, part = parts[n + 1], DOMAIN read = 1..n, \A i \in 1..n : read[i] = parts[i],
         JpegSeen(parts, n, seen), JpegOrder(parts, n), JpegVerdict(part) = "static"
  PROVE  Proper(parts) /\ StillJpeg(parts)
<1>1. part.whole /\ part.last /\ part.kind = "EOI" /\ "SOS" \in seen /\ HasFrameHeader(read)
  <2>1. ~(\/ ~part.whole \/ part.kind = "reserved"
          \/ part.kind = "SOF" /\ "SOF" \in seen
          \/ part.kind = "RST" /\ "inScan" \notin seen)
    BY DEF JpegVerdict
  <2>2. part.kind = "EOI"  BY <2>1 DEF JpegVerdict
  <2>3. {"SOF", "SOS"} \subseteq seen /\ part.last /\ HasFrameHeader(read)
    BY <2>1, <2>2 DEF JpegVerdict, ClosesAs
  <2>4. QED  BY <2>1, <2>2, <2>3
<1>2. /\ \A i \in 1..(n + 1) : i \in 1..n \/ i = n + 1
      /\ n + 1 \in 1..(n + 1) /\ \A i \in 1..n : i \in 1..(n + 1) /\ i # n + 1
  BY Numbers
<1>3. /\ Len(parts) = n + 1 /\ DOMAIN parts = 1..(n + 1)
      /\ \A kind, i : i \in Of(kind, parts) <=> i \in 1..(n + 1) /\ parts[i].kind = kind
  <2>1. Len(parts) = n + 1 /\ DOMAIN parts = 1..(n + 1)  BY DEF FileOf
  <2>2. QED  BY <2>1, OfIs
<1>4. Proper(parts)  BY <1>1, <1>2, <1>3 DEF JpegOrder, Proper
<1>5. PICK frame \in 1..n : /\ parts[frame].kind = "SOF" /\ parts[frame].fits
                            /\ \A j \in 1..(frame - 1) : read[j].kind = "segment"
  BY <1>1 DEF HasFrameHeader
<1>6. \A j \in 1..n : j < frame => parts[j].kind = "segment"
  <2>1. \A j \in 1..n : j < frame => j \in 1..(frame - 1)  BY <1>5
  <2>2. QED  BY <1>5, <2>1
<1>7. Of("SOF", parts) = {frame}  BY <1>1, <1>2, <1>3, <1>5 DEF JpegOrder
<1>8. Of("EOI", parts) = {Len(parts)}  BY <1>1, <1>2, <1>3 DEF JpegOrder
<1>9. Of("SOS", parts) # {}
  <2>1. PICK i \in 1..n : parts[i].kind = "SOS"  BY <1>1 DEF JpegSeen
  <2>2. QED  BY <1>2, <1>3, <2>1
<1>10. \A i \in Of("SOS", parts) : i > frame
  <2>1. SUFFICES ASSUME NEW i \in 1..n, parts[i].kind = "SOS" PROVE i > frame
    BY <1>1, <1>2, <1>3
  <2>2. ~(i < frame)  BY <1>6, <2>1
  <2>3. i # frame  BY <1>5, <2>1
  <2>4. QED  BY <1>5, <2>1, <2>2, <2>3
<1>11. \A i \in Of("RST", parts) : i > 1 /\ parts[i - 1].kind \in {"SOS", "RST"}
  <2>1. SUFFICES ASSUME NEW i \in 1..n, parts[i].kind = "RST"
                 PROVE  i > 1 /\ parts[i - 1].kind \in {"SOS", "RST"}
    BY <1>1, <1>2, <1>3
  <2>2. i # 1 /\ parts[i - 1].kind \in Scan  BY <2>1 DEF JpegOrder
  <2>3. i > 1  BY <2>1, <2>2
  <2>4. QED  BY <2>2, <2>3 DEF Scan
<1>12. Of("reserved", parts) = {}  BY <1>1, <1>2, <1>3 DEF JpegOrder
<1>13. frame \in DOMAIN parts  BY <1>2, <1>3, <1>5
<1>14. QED
  BY <1>4, <1>5, <1>7, <1>8, <1>9, <1>10, <1>11, <1>12, <1>13 DEF StillJpeg

\* No segment a still JPEG has at its place is refused there.
LEMMA JpegAdmitsStill ==
  ASSUME NEW file, NEW len \in Nat, FileOf(JpegKinds, file, len), NEW n \in Nat, n + 1 \in 1..len,
         NEW part, part = file[n + 1], DOMAIN read = 1..n, \A i \in 1..n : read[i] = file[i],
         JpegSeen(file, n, seen), Proper(file), StillJpeg(file)
  PROVE  JpegVerdict(part) \in {"undecided", "static"}
<1>1. /\ Len(file) = len /\ DOMAIN file = 1..len
      /\ \A i \in 1..len : file[i].kind \in JpegKinds
      /\ \A kind, i : i \in Of(kind, file) <=> i \in 1..len /\ file[i].kind = kind
  <2>1. /\ Len(file) = len /\ DOMAIN file = 1..len
        /\ \A i \in 1..len : file[i].kind \in JpegKinds
    BY DEF FileOf
  <2>2. QED  BY <2>1, OfIs
<1>2. \A i \in 1..n : i \in 1..len /\ i # n + 1  OBVIOUS
<1>3. part.whole /\ (part.last <=> n + 1 = len)  BY <1>1 DEF Proper
<1>4. PICK frame \in 1..len :
        /\ Of("SOF", file) = {frame} /\ file[frame].fits
        /\ Of("EOI", file) = {len}
        /\ Of("SOS", file) # {} /\ \A i \in Of("SOS", file) : i > frame
        /\ \A i \in Of("RST", file) : i > 1 /\ file[i - 1].kind \in {"SOS", "RST"}
        /\ Of("reserved", file) = {}
  BY <1>1 DEF StillJpeg
<1>5. part.kind # "reserved"  BY <1>1, <1>4
<1>6. part.kind = "SOF" => "SOF" \notin seen
  <2>1. SUFFICES ASSUME part.kind = "SOF", NEW i \in 1..n, file[i].kind = "SOF" PROVE FALSE
    BY DEF JpegSeen
  <2>2. i \in Of("SOF", file) /\ n + 1 \in Of("SOF", file)  BY <1>1, <1>2, <2>1
  <2>3. i = n + 1  BY <1>4, <2>2
  <2>4. QED  BY <1>2, <2>3
<1>7. part.kind = "RST" => "inScan" \in seen
  <2>1. SUFFICES ASSUME part.kind = "RST" PROVE "inScan" \in seen  OBVIOUS
  <2>5. n + 1 \in Of("RST", file)  BY <1>1, <2>1
  <2>2. n + 1 > 1 /\ file[n + 1 - 1].kind \in {"SOS", "RST"}  BY <1>4, <2>5
  <2>3. n # 0 /\ n + 1 - 1 = n  BY <2>2
  <2>4. QED  BY <2>2, <2>3 DEF JpegSeen, Scan
<1>8. part.kind = "EOI" <=> n + 1 = len  BY <1>1, <1>4
<1>9. ASSUME n + 1 = len PROVE {"SOF", "SOS"} \subseteq seen /\ HasFrameHeader(read)
  <2>1. \A i \in 1..len : file[i].kind # "EOI" => i \in 1..n
    <3>1. \A i \in 1..len : i \in 1..n \/ i = n + 1  BY <1>9, Numbers
    <3>2. QED  BY <1>8, <1>9, <3>1
  <2>2. frame \in 1..n /\ file[frame].kind = "SOF"  BY <1>1, <1>4, <2>1
  <2>3. \E i \in 1..n : file[i].kind = "SOS"  BY <1>1, <1>4, <2>1
  <2>4. ASSUME NEW i \in 1..len, file[i].kind = "RST" PROVE frame < i
    <3>1. PICK T : T = {k \in 1..len : file[k].kind = "RST"}  OBVIOUS
    <3>2. T \in SUBSET Nat /\ i \in T  BY <2>4, <3>1
    <3>3. PICK k \in T : \A l \in T : k <= l  BY <3>2, LeastNumber
    <3>4. k \in 1..len /\ k > 1 /\ file[k - 1].kind \in {"SOS", "RST"}
      BY <1>1, <1>4, <3>1, <3>3
    <3>5. k - 1 \in 1..len /\ ~(k <= k - 1)  BY <3>4
    <3>6. k - 1 \notin T  BY <3>3, <3>5
    <3>7. file[k - 1].kind = "SOS"  BY <3>1, <3>4, <3>5, <3>6
    <3>8. k - 1 > frame  BY <1>1, <1>4, <3>5, <3>7
    <3>9. k <= i  BY <3>2, <3>3
    <3>10. QED  BY <3>4, <3>8, <3>9
  <2>5. \A j \in 1..n : j < frame => file[j].kind = "segment"
    <3>1. SUFFICES ASSUME NEW j \in 1..n, j < frame PROVE file[j].kind = "segment"  OBVIOUS
    <3>2. j \in 1..len /\ j # frame /\ j # len /\ ~(j > frame)  BY <1>2, <1>9, <3>1
    <3>3. file[j].kind \notin {"SOF", "EOI", "reserved"}  BY <1>1, <1>4, <3>2
    <3>4. file[j].kind # "SOS"  BY <1>1, <1>4, <3>2
    <3>5. file[j].kind # "RST"  BY <2>4, <3>1, <3>2
    <3>6. QED  BY <1>1, <3>2, <3>3, <3>4, <3>5 DEF JpegKinds
  <2>6. \A j \in 1..(frame - 1) : j \in 1..n /\ j < frame  BY <2>2
  <2>7. HasFrameHeader(read)  BY <1>4, <2>2, <2>5, <2>6 DEF HasFrameHeader
  <2>8. QED  BY <2>2, <2>3, <2>7 DEF JpegSeen
<1>10. ~(\/ ~part.whole \/ part.kind = "reserved"
         \/ part.kind = "SOF" /\ "SOF" \in seen
         \/ part.kind = "RST" /\ "inScan" \notin seen)
  BY <1>3, <1>5, <1>6, <1>7
<1>11. CASE n + 1 = len  BY <1>3, <1>8, <1>9, <1>10, <1>11 DEF JpegVerdict, ClosesAs
<1>12. CASE n + 1 # len  BY <1>3, <1>8, <1>10, <1>12 DEF JpegVerdict
<1>13. QED  BY <1>11, <1>12

-----------------------------------------------------------------------------
(* AVIF: the meta box. *)

(* Induction along the numbers up to n, over the set of those that have been *)
(* reached.                                                                  *)
LEMMA UpToNumber ==
  ASSUME NEW n \in Nat, NEW T, 0 \in T, \A i \in 1..n : i - 1 \in T => i \in T
  PROVE  \A i \in 0..n : i \in T
<1> SUFFICES ASSUME NEW k \in 0..n, k \notin T PROVE FALSE
  OBVIOUS
<1> DEFINE B == {i \in 0..n : i \notin T}
<1>1. PICK x \in B : \A y \in B : x <= y
  <2>1. B \in SUBSET Nat /\ k \in B  OBVIOUS
  <2>2. QED  BY <2>1, LeastNumber
<1>2. x # 0 /\ x \in 0..n /\ x \notin T
  OBVIOUS
<1>3. x \in 1..n /\ x - 1 \in 0..n /\ x - 1 < x
  BY <1>2
<1>4. x - 1 \in T
  BY <1>1, <1>3
<1>5. QED  BY <1>2, <1>3, <1>4

(* A function that is defined by recursion along 0..n exists.                *)
Recursive(n, S, base, step) ==
  \E f \in [0..n -> S] : f[0] = base /\ \A i \in 1..n : f[i] = step[i][f[i - 1]]

\* A recursive function on the numbers up to n has values, and obeys its equation.
LEMMA RecursionExists ==
  ASSUME NEW n \in Nat, NEW S, NEW base \in S, NEW step \in [1..n -> [S -> S]]
  PROVE  Recursive(n, S, base, step)
<1> DEFINE Follows(f, k) == f[0] = base /\ \A i \in 1..k : f[i] = step[i][f[i - 1]]
           T == {k \in 0..n : \E f \in [0..n -> S] : Follows(f, k)}
<1>1. 0 \in T
  <2>1. [i \in 0..n |-> base] \in [0..n -> S]  OBVIOUS
  <2>2. Follows([i \in 0..n |-> base], 0)  OBVIOUS
  <2>3. 0 \in 0..n  OBVIOUS
  <2>4. QED  BY <2>1, <2>2, <2>3
<1>2. ASSUME NEW k \in 1..n, k - 1 \in T  PROVE k \in T
  <2>1. PICK f \in [0..n -> S] : Follows(f, k - 1)
    BY <1>2
  <2>2. k - 1 \in 0..n /\ k \in 0..n  OBVIOUS
  <2>3. step[k][f[k - 1]] \in S  BY <2>2
  <2>4. PICK g : g = [f EXCEPT ![k] = step[k][f[k - 1]]]  OBVIOUS
  <2>5. g \in [0..n -> S]  BY <2>3, <2>4
  <2>6. g[k] = step[k][f[k - 1]] /\ \A i \in 0..n : i # k => g[i] = f[i]
    BY <2>2, <2>4
  <2>7. g[0] = base  BY <2>1, <2>6
  <2>8. ASSUME NEW i \in 1..k PROVE g[i] = step[i][g[i - 1]]
    <3>1. i \in 0..n /\ i - 1 \in 0..n /\ i - 1 # k  OBVIOUS
    <3>2. g[i - 1] = f[i - 1]  BY <3>1, <2>6
    <3>3. CASE i = k  BY <3>2, <3>3, <2>6
    <3>4. CASE i # k
      <4>1. i \in 1..(k - 1)  BY <3>4
      <4>2. f[i] = step[i][f[i - 1]]  BY <2>1, <4>1
      <4>3. g[i] = f[i]  BY <3>1, <3>4, <2>6
      <4>4. QED  BY <3>2, <4>2, <4>3
    <3>5. QED  BY <3>3, <3>4
  <2>9. Follows(g, k)  BY <2>7, <2>8
  <2>10. QED  BY <2>2, <2>5, <2>9
<1>3. \A k \in 0..n : k \in T
  <2> HIDE DEF T
  <2>1. QED  BY <1>1, <1>2, UpToNumber
<1>4. n \in T  BY <1>3
<1>5. QED  BY <1>4 DEF Recursive

\* The entries the loop over iinf accepts are those of one picture.
LEMMA ItemsStill ==
  ASSUME NEW meta \in MetaBox
  PROVE  meta.primary # 0 /\ ItemsAreStill(meta) <=> OnePicture(meta)
<1>1. PICK items \in Seq(Items) : items = meta.items  BY DEF MetaBox
<1>2. PICK d : d = DOMAIN items  OBVIOUS
<1>3. \A i \in d : items[i].id \in Nat /\ items[i].type \in {"av01", "Exif", "grid"}
                   /\ items[i] = [id |-> items[i].id, type |-> items[i].type]
  <2>1. SUFFICES ASSUME NEW i \in d
                 PROVE  items[i].id \in Nat /\ items[i].type \in {"av01", "Exif", "grid"}
                        /\ items[i] = [id |-> items[i].id, type |-> items[i].type]
    OBVIOUS
  <2>2. PICK item \in Items : item = items[i]  BY <1>1, <1>2
  <2>3. QED  BY <2>2 DEF Items
<1>4. PICK p : p = meta.primary  OBVIOUS
<1>5. UniqueIds(items) <=> /\ \A i \in d : items[i].id # 0
                           /\ \A i \in d, j \in d : items[i].id = items[j].id => i = j
  BY <1>2 DEF UniqueIds, IsInjective
<1>6. meta.primary # 0 /\ ItemsAreStill(meta) <=>
        /\ p # 0
        /\ \A i \in d : items[i].id # 0
        /\ \A i \in d, j \in d : items[i].id = items[j].id => i = j
        /\ \E i \in d : /\ items[i].type = "av01" /\ items[i].id = p
                        /\ \A j \in d : items[j].type = "av01" => j = i
        /\ \A i \in d : items[i].type \in {"av01", "Exif"}
  <2>1. ItemsAreStill(meta) <=>
        /\ UniqueIds(items)
        /\ \E i \in {j \in d : items[j].type = "av01"} :
             {j \in d : items[j].type = "av01"} = {i} /\ items[i].id = p
        /\ \A i \in d : items[i].type \in {"av01", "Exif"}
    BY <1>1, <1>2, <1>4 DEF ItemsAreStill
  <2>2. ASSUME NEW i \in d
        PROVE  i \in {j \in d : items[j].type = "av01"} /\ {j \in d : items[j].type = "av01"} = {i}
               <=> /\ items[i].type = "av01"
                   /\ \A j \in d : items[j].type = "av01" => j = i
    OBVIOUS
  <2>3. QED  BY <1>4, <1>5, <2>1, <2>2
<1>7. OnePicture(meta) <=>
        /\ \E k \in d : /\ items[k].type # "Exif" /\ \A j \in d : items[j].type # "Exif" => j = k
                        /\ items[k].id = p /\ items[k].type = "av01"
        /\ \A i \in d : items[i].id # 0
        /\ \A i \in d, j \in d : items[j].id = items[i].id => i = j
  <2>1. OnePicture(meta) <=>
        /\ \E k \in d : /\ {j \in d : items[j].type # "Exif"} = {k}
                        /\ items[k] = [id |-> p, type |-> "av01"]
        /\ {k \in d : items[k].id = 0} = {}
        /\ \A k \in d : {j \in d : items[j].id = items[k].id} = {k}
    BY <1>1, <1>2, <1>4 DEF OnePicture
  <2>2. ASSUME NEW k \in d
        PROVE  {j \in d : items[j].type # "Exif"} = {k} <=>
                 items[k].type # "Exif" /\ \A j \in d : items[j].type # "Exif" => j = k
    OBVIOUS
  <2>3. ASSUME NEW k \in d
        PROVE  items[k] = [id |-> p, type |-> "av01"] <=> items[k].id = p /\ items[k].type = "av01"
    BY <1>3
  <2>4. {k \in d : items[k].id = 0} = {} <=> \A i \in d : items[i].id # 0  OBVIOUS
  <2>5. ASSUME NEW k \in d
        PROVE  {j \in d : items[j].id = items[k].id} = {k} <=>
                 \A j \in d : items[j].id = items[k].id => k = j
    OBVIOUS
  <2>6. QED  BY <2>1, <2>2, <2>3, <2>4, <2>5
<1>8. ASSUME p # 0, NEW i \in d, items[i].type = "av01", items[i].id = p,
             \A j \in d : items[j].type = "av01" => j = i,
             \A j \in d : items[j].type \in {"av01", "Exif"}
      PROVE  /\ items[i].type # "Exif" /\ \A j \in d : items[j].type # "Exif" => j = i
             /\ items[i].id = p /\ items[i].type = "av01"
  BY <1>8
<1>9. ASSUME NEW k \in d, items[k].type # "Exif", \A j \in d : items[j].type # "Exif" => j = k,
             items[k].id = p, items[k].type = "av01", \A i \in d : items[i].id # 0
      PROVE  /\ p # 0 /\ items[k].type = "av01" /\ items[k].id = p
             /\ \A j \in d : items[j].type = "av01" => j = k
             /\ \A i \in d : items[i].type \in {"av01", "Exif"}
  BY <1>9
<1>10. ASSUME meta.primary # 0 /\ ItemsAreStill(meta) PROVE OnePicture(meta)
  BY <1>6, <1>7, <1>8, <1>10
<1>11. ASSUME OnePicture(meta) PROVE meta.primary # 0 /\ ItemsAreStill(meta)
  BY <1>6, <1>7, <1>9, <1>11
<1>12. QED  BY <1>10, <1>11

\* The extents the loop over iloc accepts are found in the file.
LEMMA LocationsStill ==
  ASSUME NEW meta \in MetaBox, meta.idats \in {0, 1}, NEW mdats \in Nat
  PROVE  LocationsAreSound(meta, mdats) <=> FoundInFile(meta, mdats # 0)
<1>1. PICK places \in Seq([id : Nat, extents : Seq(Extents)]) : places = meta.locations
  BY DEF MetaBox
<1>2. PICK d : d = DOMAIN places  OBVIOUS
<1>3. PICK p : p = meta.primary  OBVIOUS
<1>4. PICK has : has = [i \in d |-> Range(places[i].extents)]  OBVIOUS
<1>5. \A i \in d : \A e \in has[i] : e.method \in Nat /\ e.inside \in BOOLEAN /\ e.elsewhere \in BOOLEAN
  <2>1. SUFFICES ASSUME NEW i \in d PROVE has[i] \subseteq Extents
    BY DEF Extents
  <2>2. PICK Q : Q = [id : Nat, extents : Seq(Extents)]  OBVIOUS
  <2>3. places \in Seq(Q) /\ i \in DOMAIN places  BY <1>1, <1>2, <2>2
  <2>4. places[i] \in Q  BY <2>3
  <2>5. PICK place \in [id : Nat, extents : Seq(Extents)] : place = places[i]  BY <2>2, <2>4
  <2>6. places[i].extents \in Seq(Extents)  BY <2>5
  <2>7. Range(places[i].extents) \subseteq Extents  BY <2>6 DEF Range
  <2>8. QED  BY <1>4, <2>7
<1>6. UniqueIds(places) <=> /\ \A i \in d : places[i].id # 0
                            /\ \A i \in d, j \in d : places[i].id = places[j].id => i = j
  BY <1>2 DEF UniqueIds, IsInjective
<1>7. PICK ok : ok = [i \in d |-> \A e \in has[i] : ExtentWithin(e, mdats, meta.idats)]
  OBVIOUS
<1>8. PICK near : near = [i \in d |-> \A e \in has[i] :
        e.inside /\ ~e.elsewhere /\ (IF e.method = 0 THEN mdats # 0 ELSE meta.idats = 1)]
  OBVIOUS
<1>9. LocationsAreSound(meta, mdats) <=>
        /\ \A i \in d : places[i].id # 0
        /\ \A i \in d, j \in d : places[i].id = places[j].id => i = j
        /\ \A i \in d : \A e \in has[i] : e.method \in {0, 1}
        /\ \A i \in d : places[i].extents # <<>>
        /\ \E i \in d : places[i].id = p /\ ok[i]
  <2>1. LocationsAreSound(meta, mdats) <=>
          /\ UniqueIds(places)
          /\ \A i \in d : \A e \in Range(places[i].extents) : e.method \in {0, 1}
          /\ \A i \in d : places[i].extents # <<>>
          /\ \E i \in d : places[i].id = p /\ \A e \in Range(places[i].extents) :
                                                ExtentWithin(e, mdats, meta.idats)
    BY <1>1, <1>2, <1>3 DEF LocationsAreSound
  <2>2. \A i \in d : has[i] = Range(places[i].extents)  BY <1>4
  <2>3. \A i \in d : ok[i] <=> \A e \in has[i] : ExtentWithin(e, mdats, meta.idats)  BY <1>7
  <2>4. QED  BY <1>6, <2>1, <2>2, <2>3
<1>10. FoundInFile(meta, mdats # 0) <=>
        /\ \A i \in d : places[i].id # 0
        /\ \A i \in d, j \in d : places[i].id = places[j].id => i = j
        /\ \A i \in d : \A e \in has[i] : e.method \in {0, 1}
        /\ \A i \in d : places[i].extents # <<>>
        /\ \E i \in d : places[i].id = p
        /\ \A i \in d : places[i].id = p => near[i]
  <2>2. FoundInFile(meta, mdats # 0) <=>
          /\ {k \in d : places[k].id = 0} = {}
          /\ \A k \in d : {j \in d : places[j].id = places[k].id} = {k}
          /\ {k \in d : places[k].id = p} # {}
          /\ \A k \in d :
               /\ places[k].extents # <<>>
               /\ \A e \in Range(places[k].extents) :
                    /\ e.method \in {0, 1}
                    /\ k \in {j \in d : places[j].id = p} =>
                         /\ e.inside /\ ~e.elsewhere
                         /\ IF e.method = 0 THEN mdats # 0 ELSE meta.idats = 1
    BY <1>1, <1>2, <1>3 DEF FoundInFile
  <2>3. {k \in d : places[k].id = 0} = {} <=> \A i \in d : places[i].id # 0  OBVIOUS
  <2>4. ASSUME NEW k \in d
        PROVE  {j \in d : places[j].id = places[k].id} = {k} <=>
                 \A j \in d : places[k].id = places[j].id => k = j
    OBVIOUS
  <2>5. {k \in d : places[k].id = p} # {} <=> \E i \in d : places[i].id = p  OBVIOUS
  <2>6. \A i \in d : has[i] = Range(places[i].extents)  BY <1>4
  <2>7. \A i \in d : near[i] <=> \A e \in has[i] :
          e.inside /\ ~e.elsewhere /\ (IF e.method = 0 THEN mdats # 0 ELSE meta.idats = 1)
    BY <1>8
  <2>8. \A k \in d : k \in {j \in d : places[j].id = p} <=> places[k].id = p  OBVIOUS
  <2>9. QED  BY <2>2, <2>3, <2>4, <2>5, <2>6, <2>7, <2>8
<1>11. ASSUME NEW i \in d, \A e \in has[i] : e.method \in {0, 1}
       PROVE  ok[i] <=> near[i]
  <2>1. ASSUME NEW e \in has[i]
        PROVE  ExtentWithin(e, mdats, meta.idats) <=>
               e.inside /\ ~e.elsewhere /\ (IF e.method = 0 THEN mdats # 0 ELSE meta.idats = 1)
    <3>1. e.method \in {0, 1} /\ e.inside \in BOOLEAN /\ e.elsewhere \in BOOLEAN  BY <1>5, <1>11
    <3>2. mdats > 0 <=> mdats # 0  OBVIOUS
    <3>3. meta.idats > 0 <=> meta.idats = 1  OBVIOUS
    <3>4. CASE e.method = 0  BY <3>1, <3>2, <3>4 DEF ExtentWithin
    <3>5. CASE e.method = 1  BY <3>1, <3>3, <3>5 DEF ExtentWithin
    <3>6. QED  BY <3>1, <3>4, <3>5
  <2>2. QED  BY <1>7, <1>8, <2>1
<1>12. QED  BY <1>9, <1>10, <1>11

Associations == [item : Nat, property : Nat, essential : BOOLEAN]
Sizings == [size : Nat, failed : BOOLEAN]
NotSized == [size |-> 0, failed |-> FALSE]

\* What the loop over the associations has counted after each of them.
LEMMA SizeRecursion ==
  ASSUME NEW meta \in MetaBox, NEW n, n = Len(meta.associations)
  PROVE  \E f \in [0..n -> Sizings] :
           /\ f[0] = NotSized
           /\ \A i \in 1..n : f[i] = Associate(meta, f[i - 1], meta.associations[i])
           /\ PropertiesAreSound(meta) <=>
                ~f[n].failed /\ f[n].size # 0 /\ Cardinality({i \in DOMAIN meta.sizes : meta.sizes[i]}) = 1
<1> DEFINE Body(f) == [i \in 0..n |-> IF i = 0 THEN NotSized
                                      ELSE Associate(meta, f[i - 1], meta.associations[i])]
           found == CHOOSE f : f = Body(f)
<1>1. /\ n \in Nat /\ \A i \in 1..n : meta.associations[i] \in Associations
      /\ meta.sizes \in Seq(BOOLEAN)
  <2>1. meta.associations \in Seq(Associations) /\ meta.sizes \in Seq(BOOLEAN)
    BY DEF MetaBox, Associations
  <2>2. PICK A \in Seq(Associations) : A = meta.associations  BY <2>1
  <2>3. Len(A) \in Nat /\ \A i \in 1..Len(A) : A[i] \in Associations  OBVIOUS
  <2>4. QED  BY <2>1, <2>2, <2>3
<1>2. NotSized \in Sizings  BY DEF NotSized, Sizings
<1>3. ASSUME NEW s \in Sizings, NEW i \in 1..n
      PROVE  Associate(meta, s, meta.associations[i]) \in Sizings
  <2>1. PICK a \in Associations : a = meta.associations[i]  BY <1>1
  <2>2. a.property \in Nat /\ a.essential \in BOOLEAN  BY DEF Associations
  <2>3. s.size \in Nat /\ s.failed \in BOOLEAN  BY DEF Sizings
  <2>4. [s EXCEPT !.failed = TRUE] \in Sizings  BY DEF Sizings
  <2>5. (s.failed \/ ~a.essential \/ s.size # 0) \in BOOLEAN  BY <2>2, <2>3
  <2>6. [size |-> a.property, failed |-> s.failed \/ ~a.essential \/ s.size # 0] \in Sizings
    BY <2>2, <2>3 DEF Sizings
  <2>7. QED  BY <2>1, <2>4, <2>6 DEF Associate
<1>4. PICK step : step = [i \in 1..n |-> [s \in Sizings |-> Associate(meta, s, meta.associations[i])]]
  OBVIOUS
<1>5. step \in [1..n -> [Sizings -> Sizings]]  BY <1>3, <1>4
<1>6. PICK f \in [0..n -> Sizings] : f[0] = NotSized /\ \A i \in 1..n : f[i] = step[i][f[i - 1]]
  <2>1. PICK m \in Nat, b \in Sizings : m = n /\ b = NotSized  BY <1>1, <1>2
  <2>2. step \in [1..m -> [Sizings -> Sizings]]  BY <1>5, <2>1
  <2>3. Recursive(m, Sizings, b, step)  BY <2>1, <2>2, RecursionExists
  <2>4. QED  BY <2>1, <2>3 DEF Recursive
<1>7. \A i \in 1..n : f[i] = Associate(meta, f[i - 1], meta.associations[i])
  <2>1. \A i \in 1..n : f[i - 1] \in Sizings  BY <1>1
  <2>2. QED  BY <1>4, <1>6, <2>1
<1>8. f = Body(f)
  <2>1. \A i \in 0..n : f[i] = IF i = 0 THEN NotSized
                               ELSE Associate(meta, f[i - 1], meta.associations[i])
    BY <1>6, <1>7
  <2>2. QED  BY <2>1
<1>9. found = Body(found)
  <2> HIDE DEF Body
  <2>1. QED  BY <1>8
<1>10. found[0] = NotSized /\ \A i \in 1..n : found[i] = Associate(meta, found[i - 1], meta.associations[i])
  <2> HIDE DEF found
  <2>1. 0 \in 0..n /\ \A i \in 1..n : i \in 0..n /\ i # 0
    BY <1>1
  <2>2. QED  BY <1>9, <2>1
<1>11. PropertiesAreSound(meta) <=>
         ~found[n].failed /\ found[n].size # 0 /\ Cardinality({i \in DOMAIN meta.sizes : meta.sizes[i]}) = 1
  BY DEF PropertiesAreSound, NotSized
<1>12. found \in [0..n -> Sizings]
  <2>1. \A i \in 1..n : found[i - 1] \in Sizings => found[i] \in Sizings
    BY <1>3, <1>10
  <2>2. PICK T : T = {i \in 0..n : found[i] \in Sizings}  OBVIOUS
  <2>3. \A i \in 1..n : i - 1 \in T => i \in T
    <3> HIDE DEF found
    <3>1. QED  BY <1>1, <2>1, <2>2
  <2>4. 0 \in T  BY <1>1, <1>2, <1>10, <2>2
  <2>5. \A i \in 0..n : i \in T
    <3> HIDE DEF found
    <3>1. n \in Nat  BY <1>1
    <3>2. QED  BY <2>3, <2>4, <3>1, UpToNumber
  <2>6. \A i \in 0..n : found[i] \in Sizings  BY <2>2, <2>5
  <2>7. found = [i \in 0..n |-> found[i]]  BY <1>9
  <2>8. QED  BY <2>6, <2>7
<1>13. QED  BY <1>10, <1>11, <1>12

\* The associations that loop accepts give the picture its one size.
LEMMA SizesStill ==
  ASSUME NEW meta \in MetaBox
  PROVE  PropertiesAreSound(meta) <=> OneSize(meta)
<1>1. PICK n : n = Len(meta.associations)  OBVIOUS
<1>2. PICK A \in Seq(Associations), z \in Seq(BOOLEAN) :
        A = meta.associations /\ z = meta.sizes
  BY DEF MetaBox, Associations
<1>3. PICK d, p, Sizes : d = DOMAIN z /\ p = meta.primary /\ Sizes = {k \in d : z[k]}
  OBVIOUS
<1>4. n \in Nat /\ DOMAIN A = 1..n /\ \A i \in 1..n : A[i] \in Associations
  BY <1>1, <1>2
<1>5. PICK Own : Own = {k \in 1..n : A[k].item = p /\ A[k].property \in Sizes}  OBVIOUS
<1>6. d \subseteq Nat \ {0} /\ Sizes \subseteq d
  BY <1>2, <1>3
<1>7. PICK f \in [0..n -> Sizings] :
           /\ f[0] = NotSized
           /\ \A i \in 1..n : f[i] = Associate(meta, f[i - 1], meta.associations[i])
           /\ PropertiesAreSound(meta) <=>
                ~f[n].failed /\ f[n].size # 0 /\ Cardinality({i \in DOMAIN meta.sizes : meta.sizes[i]}) = 1
  BY <1>1, SizeRecursion
<1>8. \A i \in 1..n :
        f[i] = IF A[i].property \notin d THEN [f[i - 1] EXCEPT !.failed = TRUE]
               ELSE IF i \in Own
                 THEN [size |-> A[i].property,
                       failed |-> f[i - 1].failed \/ ~A[i].essential \/ f[i - 1].size # 0]
               ELSE f[i - 1]
  <2>1. SUFFICES ASSUME NEW i \in 1..n
        PROVE f[i] = IF A[i].property \notin d THEN [f[i - 1] EXCEPT !.failed = TRUE]
               ELSE IF i \in Own
                 THEN [size |-> A[i].property,
                       failed |-> f[i - 1].failed \/ ~A[i].essential \/ f[i - 1].size # 0]
               ELSE f[i - 1]
    OBVIOUS
  <2>2. i \in Own <=> A[i].item = p /\ A[i].property \in Sizes  BY <1>5
  <2>3. A[i].property \in d => (A[i].property \in Sizes <=> z[A[i].property])  BY <1>3
  <2>4. f[i] = Associate(meta, f[i - 1], A[i])  BY <1>2, <1>7
  <2>5. QED  BY <1>2, <1>3, <2>2, <2>3, <2>4 DEF Associate
<1>9. \A i \in 0..n : f[i].size \in Nat /\ f[i].failed \in BOOLEAN
                      /\ f[i] = [size |-> f[i].size, failed |-> f[i].failed]
  BY <1>7 DEF Sizings
<1>10. PICK T : T = {m \in 0..n :
         /\ f[m].size # 0 <=> \E k \in 1..m : k \in Own
         /\ ~f[m].failed <=> /\ \A k \in 1..m : A[k].property \in d
                             /\ \A k \in 1..m : k \in Own => A[k].essential
                             /\ \A j \in 1..m, k \in 1..m : j \in Own /\ k \in Own => j = k}
  OBVIOUS
<1>11. 0 \in T
  <2>1. f[0].size = 0 /\ ~f[0].failed /\ 0 \in 0..n  BY <1>4, <1>7 DEF NotSized
  <2>2. \A k \in 1..0 : FALSE  OBVIOUS
  <2>3. QED  BY <1>10, <2>1, <2>2
<1>12. ASSUME NEW m \in 1..n, m - 1 \in T PROVE m \in T
  <2>1. PICK l \in 0..n : l = m - 1  BY <1>4
  <2>2. l \in Nat /\ m = l + 1 /\ m \in 0..n  BY <2>1
  <2>3. /\ \A k \in 1..m : k \in 1..l \/ k = m
        /\ m \in 1..m /\ \A k \in 1..l : k \in 1..m /\ k # m
    BY <2>2, Numbers
  <2>4. /\ f[l].size # 0 <=> \E k \in 1..l : k \in Own
        /\ ~f[l].failed <=> /\ \A k \in 1..l : A[k].property \in d
                            /\ \A k \in 1..l : k \in Own => A[k].essential
                            /\ \A j \in 1..l, k \in 1..l : j \in Own /\ k \in Own => j = k
    BY <1>10, <1>12, <2>1
  <2>5. m \in Own => A[m].property \in d /\ A[m].property # 0  BY <1>5, <1>6
  <2>6. CASE A[m].property \notin d
    <3>1. f[m] = [f[l] EXCEPT !.failed = TRUE]  BY <1>8, <2>1, <2>6
    <3>2. f[m].failed /\ f[m].size = f[l].size  BY <1>9, <3>1
    <3>3. f[m].size # 0 <=> \E k \in 1..m : k \in Own  BY <2>3, <2>4, <2>5, <2>6, <3>2
    <3>4. QED  BY <1>10, <2>2, <2>3, <2>6, <3>2, <3>3
  <2>7. CASE A[m].property \in d /\ m \in Own
    <3>1. f[m] = [size |-> A[m].property,
                  failed |-> f[l].failed \/ ~A[m].essential \/ f[l].size # 0]
      BY <1>8, <2>1, <2>7
    <3>2. f[m].size # 0  BY <2>5, <2>7, <3>1
    <3>3. ~f[m].failed <=> ~f[l].failed /\ A[m].essential /\ ~(f[l].size # 0)
      <4>1. f[m].failed <=> (f[l].failed \/ ~A[m].essential \/ f[l].size # 0)
        <5>1. f[m].failed = (f[l].failed \/ ~A[m].essential \/ f[l].size # 0)  BY <3>1
        <5>2. f[l].failed \in BOOLEAN  BY <1>9
        <5>3. A[m].essential \in BOOLEAN  BY <1>4 DEF Associations
        <5>4. QED  BY <5>1, <5>2, <5>3
      <4>2. QED  BY <4>1
    <3>4. ~f[m].failed <=> /\ \A k \in 1..m : A[k].property \in d
                           /\ \A k \in 1..m : k \in Own => A[k].essential
                           /\ \A j \in 1..m, k \in 1..m : j \in Own /\ k \in Own => j = k
      BY <2>3, <2>4, <2>7, <3>3
    <3>5. QED  BY <1>10, <2>2, <2>3, <2>7, <3>2, <3>4
  <2>8. CASE A[m].property \in d /\ m \notin Own
    <3>1. f[m] = f[l]  BY <1>8, <2>1, <2>8
    <3>2. f[m].size # 0 <=> \E k \in 1..m : k \in Own  BY <2>3, <2>4, <2>8, <3>1
    <3>3. ~f[m].failed <=> /\ \A k \in 1..m : A[k].property \in d
                           /\ \A k \in 1..m : k \in Own => A[k].essential
                           /\ \A j \in 1..m, k \in 1..m : j \in Own /\ k \in Own => j = k
      BY <2>3, <2>4, <2>8, <3>1
    <3>4. QED  BY <1>10, <2>2, <3>2, <3>3
  <2>9. QED  BY <2>6, <2>7, <2>8
<1>13. n \in T
  <2>1. \A m \in 0..n : m \in T  BY <1>4, <1>11, <1>12, UpToNumber
  <2>2. QED  BY <1>4, <2>1
<1>14. Own \in SUBSET (1..n)  BY <1>5
<1>15. Cardinality(Own) = 1 <=> \E i \in Own : Own = {i}  BY <1>4, <1>14, AtMostOne
<1>16. Cardinality(Own) = 1 <=> /\ \E k \in 1..n : k \in Own
                                /\ \A j \in 1..n, k \in 1..n : j \in Own /\ k \in Own => j = k
  BY <1>14, <1>15
<1>17. PropertiesAreSound(meta) <=> ~f[n].failed /\ f[n].size # 0 /\ Cardinality(Sizes) = 1
  BY <1>2, <1>3, <1>7
<1>18. OneSize(meta) <=> /\ Cardinality(Sizes) = 1 /\ Cardinality(Own) = 1
                         /\ \A k \in 1..n : A[k].property \in d /\ (k \in Own => A[k].essential)
  BY <1>2, <1>3, <1>4, <1>5 DEF OneSize
<1>19. QED  BY <1>10, <1>13, <1>16, <1>17, <1>18

-----------------------------------------------------------------------------
(* AVIF: the boxes. *)

AvifKinds == {"ftyp", "meta", "mdat", "free", "moov", "unknown"}

\* The boxes of an AVIF.
LEMMA AvifKindsAre == Kinds["avif"] = AvifKinds
BY DEF Kinds, AvifKinds

WithinMeta(parts) == \A i \in Of("meta", parts) : WithinTables(parts[i].meta)

(* The only meta box of a file was looked into.                              *)
MetaTold(parts) == \A i : Of("meta", parts) = {i} => parts[i].meta \in MetaBox

\* A meta box is accepted just when it describes one still picture.
LEMMA MetaStill ==
  ASSUME NEW meta \in MetaBox, NEW mdats \in Nat
  PROVE  MetaIsStill(meta, mdats) <=>
           /\ Range(meta.children) = {1}
           /\ meta.known /\ meta.pict /\ meta.idats \in {0, 1}
           /\ OnePicture(meta)
           /\ FoundInFile(meta, mdats # 0)
           /\ OneSize(meta) /\ WithinTables(meta)
<1>1. (\A child \in Required : meta.children[child] = 1) <=> Range(meta.children) = {1}
  <2>1. DOMAIN meta.children = Required  BY DEF MetaBox
  <2>2. Range(meta.children) = {meta.children[child] : child \in Required}  BY <2>1 DEF Range
  <2>3. "hdlr" \in Required  BY DEF Required
  <2>4. QED  BY <2>2, <2>3
<1>2. meta.idats <= 1 <=> meta.idats \in {0, 1}
  <2>1. PICK k \in Nat : k = meta.idats  BY DEF MetaBox
  <2>2. k <= 1 <=> k = 0 \/ k = 1  OBVIOUS
  <2>3. QED  BY <2>1, <2>2
<1>3. meta.primary # 0 /\ ItemsAreStill(meta) <=> OnePicture(meta)  BY ItemsStill
<1>4. meta.idats \in {0, 1} => (LocationsAreSound(meta, mdats) <=> FoundInFile(meta, mdats # 0))
  BY LocationsStill
<1>5. PropertiesAreSound(meta) <=> OneSize(meta)  BY SizesStill
<1>6. QED  BY <1>1, <1>2, <1>3, <1>4, <1>5 DEF MetaIsStill

\* A whole AVIF is static just when it is a still picture.
LEMMA AvifSaysStill ==
  ASSUME NEW parts, NEW n \in Nat, FileOf(AvifKinds, parts, n), MetaTold(parts)
  PROVE  AvifVerdict(parts) = "static" <=>
           (\A i \in 1..n : parts[i].whole) /\ StillAvif(parts) /\ WithinMeta(parts)
<1>1. /\ DOMAIN parts = 1..n
      /\ \A i \in 1..n : parts[i].says \in SaysOf(parts[i].kind)
      /\ \A kind : Of(kind, parts) \in SUBSET (1..n)
      /\ \A kind, i : i \in Of(kind, parts) <=> i \in 1..n /\ parts[i].kind = kind
  <2>1. /\ DOMAIN parts = 1..n
        /\ \A i \in 1..n : parts[i].says \in SaysOf(parts[i].kind)
    BY DEF FileOf
  <2>2. QED  BY <2>1, OfIs
<1>2. Cardinality(Of("meta", parts)) = 1 <=> \E i \in DOMAIN parts : Of("meta", parts) = {i}
  <2>1. PICK S \in SUBSET (1..n) : S = Of("meta", parts)  BY <1>1
  <2>2. Cardinality(S) = 1 <=> \E i \in S : S = {i}  BY AtMostOne
  <2>3. QED  BY <1>1, <2>1, <2>2
<1>3. PICK mdats \in Nat : mdats = Cardinality(Of("mdat", parts))
  <2>1. PICK S \in SUBSET (1..n) : S = Of("mdat", parts)  BY <1>1
  <2>2. IsFiniteSet(1..n)  BY FS_Interval
  <2>3. Cardinality(S) \in Nat  BY <2>2, FS_Subset, FS_CardinalityType
  <2>4. QED  BY <2>1, <2>3
<1>4. mdats # 0 <=> Of("mdat", parts) # {}
  <2>1. PICK S \in SUBSET (1..n) : S = Of("mdat", parts)  BY <1>1
  <2>2. IsFiniteSet(1..n)  BY FS_Interval
  <2>3. IsFiniteSet(S)  BY <2>2, FS_Subset
  <2>4. Cardinality(S) = 0 <=> S = {}  BY <2>3, FS_EmptySet
  <2>5. QED  BY <1>3, <2>1, <2>4
<1>5. Of("ftyp", parts) = {1} =>
        (parts[1].says = {"avif"} <=> "avis" \notin parts[1].says /\ "avif" \in parts[1].says)
  <2>1. SUFFICES ASSUME Of("ftyp", parts) = {1}
                 PROVE  parts[1].says = {"avif"} <=>
                          "avis" \notin parts[1].says /\ "avif" \in parts[1].says
    OBVIOUS
  <2>2. 1 \in 1..n /\ parts[1].kind = "ftyp"  BY <1>1, <2>1
  <2>3. parts[1].says \in SaysOf("ftyp")  BY <1>1, <2>2
  <2>4. parts[1].says \in {{"avif"}, {"avif", "avis"}, {"mif1"}}  BY <2>3 DEF SaysOf
  <2>5. QED  BY <2>4
<1>6. ASSUME NEW i \in DOMAIN parts, Of("meta", parts) = {i}
      PROVE  (\A j \in Of("meta", parts) : MetaIsStill(parts[j].meta, mdats)) <=>
               /\ Range(parts[i].meta.children) = {1}
               /\ parts[i].meta.known /\ parts[i].meta.pict /\ parts[i].meta.idats \in {0, 1}
               /\ OnePicture(parts[i].meta)
               /\ FoundInFile(parts[i].meta, Of("mdat", parts) # {})
               /\ OneSize(parts[i].meta) /\ WithinTables(parts[i].meta)
  <2>1. PICK meta \in MetaBox : meta = parts[i].meta  BY <1>6 DEF MetaTold
  <2>2. (\A j \in Of("meta", parts) : MetaIsStill(parts[j].meta, mdats)) <=> MetaIsStill(meta, mdats)
    BY <1>6, <2>1
  <2>3. MetaIsStill(meta, mdats) <=>
           /\ Range(meta.children) = {1}
           /\ meta.known /\ meta.pict /\ meta.idats \in {0, 1}
           /\ OnePicture(meta)
           /\ FoundInFile(meta, mdats # 0)
           /\ OneSize(meta) /\ WithinTables(meta)
    BY MetaStill
  <2>4. (mdats # 0) = (Of("mdat", parts) # {})  BY <1>4
  <2>5. QED  BY <2>1, <2>2, <2>3, <2>4
<1>7. PICK taken : taken = (\A j \in Of("meta", parts) : MetaIsStill(parts[j].meta, mdats))  OBVIOUS
<1>8. StillAvif(parts) /\ WithinMeta(parts) <=>
        /\ Of("ftyp", parts) = {1} /\ "avis" \notin parts[1].says /\ "avif" \in parts[1].says
        /\ Of("moov", parts) = {} /\ Of("unknown", parts) = {}
        /\ \E i \in DOMAIN parts : Of("meta", parts) = {i}
        /\ taken
  <2>1. \A i \in DOMAIN parts : Of("meta", parts) = {i} =>
          (taken <=> /\ Range(parts[i].meta.children) = {1}
                     /\ parts[i].meta.known /\ parts[i].meta.pict /\ parts[i].meta.idats \in {0, 1}
                     /\ OnePicture(parts[i].meta)
                     /\ FoundInFile(parts[i].meta, Of("mdat", parts) # {})
                     /\ OneSize(parts[i].meta) /\ WithinTables(parts[i].meta))
    BY <1>6, <1>7
  <2>2. QED  BY <1>5, <2>1 DEF StillAvif, WithinMeta
<1>9. AvifVerdict(parts) = "static" <=>
        /\ \A i \in DOMAIN parts : parts[i].whole
        /\ Of("ftyp", parts) = {1} /\ "avis" \notin parts[1].says /\ "avif" \in parts[1].says
        /\ Of("moov", parts) = {} /\ Of("unknown", parts) = {}
        /\ Cardinality(Of("meta", parts)) = 1
        /\ taken
  BY <1>3, <1>7 DEF AvifVerdict, ClosesAs
<1>10. QED  BY <1>1, <1>2, <1>8, <1>9

\* An AVIF is called animated only if it says it moves.
LEMMA AvifAnimates ==
  ASSUME NEW parts, AvifVerdict(parts) = "animated"
  PROVE  \E i \in DOMAIN parts : parts[i].kind = "moov" \/ "avis" \in parts[i].says
<1>1. Of("ftyp", parts) = {1}  BY DEF AvifVerdict
<1>2. 1 \in DOMAIN parts  BY <1>1 DEF Of
<1>3. "avis" \in parts[1].says \/ Of("moov", parts) # {}  BY DEF AvifVerdict, ClosesAs
<1>4. QED  BY <1>2, <1>3 DEF Of

-----------------------------------------------------------------------------
(* The verdict. *)

Legal(f, file) == File(f, file) /\ MetaTold(file)

(* The rules of the format, as in IsStill.                                   *)
Admitted(f, parts) ==
  CASE f = "png"  -> StillPng(parts)
    [] f = "webp" -> StillWebP(parts)
    [] f = "jpeg" -> StillJpeg(parts)
    [] f = "avif" -> StillAvif(parts) /\ WithinMeta(parts)

(* No file that begins like this is one still picture; or none that is short *)
(* enough.                                                                   *)
Doomed(f, parts) ==
  \A file : Legal(f, file) /\ Begins(parts, Len(parts), file) => ~(Proper(file) /\ Admitted(f, file))
Refused(f, parts) ==
  \A file : Legal(f, file) /\ Begins(parts, Len(parts), file) /\ Len(file) <= MaxEntries[f] =>
            ~(Proper(file) /\ Admitted(f, file))

SaysSo(parts) ==
  \E i \in DOMAIN parts : \/ parts[i].kind \in {"acTL", "ANIM", "moov"}
                          \/ parts[i].says \cap {"animation", "avis"} # {}

(* What the parser knows of the first n parts while it reads.                *)
Underway(f, parts, n, marks) ==
  CASE f = "png"  -> PngSeen(parts, n, marks) /\ PngOrder(parts, n)
    [] f = "webp" -> WebPSeen(parts, n, marks) /\ WebPOrder(parts, n)
                     /\ \A i \in 1..n : ~parts[i].last
    [] f = "jpeg" -> JpegSeen(parts, n, marks) /\ JpegOrder(parts, n)
    [] f = "avif" -> \A i \in 1..n : ~parts[i].last

Sound(f, all, n, marks, v) ==
  /\ v = "undecided" => Underway(f, all, n, marks)
  /\ v = "static" => Proper(all) /\ Admitted(f, all)
  /\ v \in {"animated", "uncertain"} => Doomed(f, all)
  /\ v = "animated" => SaysSo(all)

VerdictFits(f, all, n, marks, v) ==
  /\ v = "undecided" => Underway(f, all, n, marks)
  /\ v = "static" => Proper(all) /\ Admitted(f, all) /\ Len(all) <= MaxEntries[f]
  /\ v \in {"animated", "uncertain"} => Refused(f, all)
  /\ v = "animated" => SaysSo(all)

ImageInv ==
  /\ format \in DOMAIN Kinds /\ Legal(format, read)
  /\ VerdictFits(format, read, Len(read), seen, verdict)

(* The parser comes to a part of a file of this format.                      *)
Comes(f, n, part, all) ==
  /\ f \in DOMAIN Kinds /\ n = Len(read) /\ Legal(f, read) /\ Legal(f, all)
  /\ part \in PartSet(f) /\ all = Append(read, part)

\* The formats that are told apart.
LEMMA FormatsAre == DOMAIN Kinds = {"png", "webp", "jpeg", "avif"}
BY DEF Kinds

\* The parts of a file of a format.
LEMMA LegalIs ==
  ASSUME NEW f \in DOMAIN Kinds, NEW file, Legal(f, file), NEW n, n = Len(file)
  PROVE  /\ n \in Nat /\ FileOf(Kinds[f], file, n)
         /\ \A i \in 1..n : file[i] \in PartSet(f)
<1>1. PICK P : P = PartSet(f)  OBVIOUS
<1>2. file \in Seq(P) /\ \A i \in DOMAIN file : file[i].says \in SaysOf(file[i].kind)
  BY <1>1 DEF Legal, File
<1>3. n \in Nat /\ DOMAIN file = 1..n /\ \A i \in 1..n : file[i] \in P  BY <1>2
<1>4. \A i \in 1..n : file[i].kind \in Kinds[f]  BY <1>1, <1>3 DEF PartSet
<1>5. QED  BY <1>1, <1>2, <1>3, <1>4 DEF FileOf

\* The file as read before and after a part.
LEMMA ComesIs ==
  ASSUME NEW f, NEW n, NEW part, NEW all, Comes(f, n, part, all)
  PROVE  /\ n \in Nat /\ FileOf(Kinds[f], all, n + 1) /\ FileOf(Kinds[f], read, n)
         /\ part = all[n + 1] /\ \A i \in 1..n : read[i] = all[i]
         /\ part.kind \in Kinds[f] /\ part.whole \in BOOLEAN /\ part.last \in BOOLEAN
         /\ part.says \in SaysOf(part.kind)
         /\ Len(all) = n + 1 /\ (n = 0 <=> read = <<>>)
<1>1. PICK P : P = PartSet(f)  OBVIOUS
<1>2. f \in DOMAIN Kinds /\ Legal(f, read) /\ Legal(f, all) /\ part \in P
      /\ read \in Seq(P) /\ all = Append(read, part) /\ n = Len(read)
  BY <1>1 DEF Comes, Legal, File
<1>3. n \in Nat /\ Len(all) = n + 1 /\ part = all[n + 1] /\ \A i \in 1..n : read[i] = all[i]
      /\ n + 1 \in 1..(n + 1)
  BY <1>2, AppendIs
<1>4. FileOf(Kinds[f], read, n) /\ FileOf(Kinds[f], all, n + 1)
  BY <1>2, <1>3, LegalIs
<1>5. part.kind \in Kinds[f] /\ part.whole \in BOOLEAN /\ part.last \in BOOLEAN
  BY <1>1, <1>2 DEF PartSet
<1>6. part.says \in SaysOf(part.kind)  BY <1>3, <1>4 DEF FileOf
<1>7. n = 0 <=> read = <<>>  BY <1>2
<1>8. QED  BY <1>3, <1>4, <1>5, <1>6, <1>7

(* A file that begins like what was read and the part.                       *)
LEMMA FileIs ==
  ASSUME NEW f, NEW n, NEW part, NEW all, Comes(f, n, part, all),
         NEW file, Legal(f, file), Begins(all, n + 1, file), NEW len, len = Len(file)
  PROVE  /\ len \in Nat /\ FileOf(Kinds[f], file, len)
         /\ n + 1 \in 1..len /\ part = file[n + 1] /\ \A i \in 1..n : read[i] = file[i]
         /\ n + 1 = len => all = file
<1>1. /\ n \in Nat /\ part = all[n + 1] /\ \A i \in 1..n : read[i] = all[i]
      /\ Len(all) = n + 1
  BY ComesIs
<1>2. f \in DOMAIN Kinds /\ Legal(f, all)  BY DEF Comes
<1>3. len \in Nat /\ FileOf(Kinds[f], file, len)  BY <1>2, LegalIs
<1>4. n + 1 <= len /\ \A i \in 1..(n + 1) : file[i] = all[i]  BY DEF Begins
<1>5. n + 1 \in 1..len  BY <1>1, <1>3, <1>4
<1>6. part = file[n + 1] /\ \A i \in 1..n : read[i] = file[i]
  <2>1. n + 1 \in 1..(n + 1) /\ \A i \in 1..n : i \in 1..(n + 1)  BY <1>1, Numbers
  <2>2. QED  BY <1>1, <1>4, <2>1
<1>7. n + 1 = len => all = file
  <2>1. PICK P : P = PartSet(f)  OBVIOUS
  <2>2. all \in Seq(P) /\ file \in Seq(P)  BY <1>2, <2>1 DEF Legal, File
  <2>3. SUFFICES ASSUME n + 1 = len PROVE all = file  OBVIOUS
  <2>4. Len(all) = Len(file) /\ \A i \in 1..Len(all) : all[i] = file[i]  BY <1>1, <1>4, <2>3
  <2>5. QED  BY <2>2, <2>4, SeqEqual
<1>8. QED  BY <1>3, <1>5, <1>6, <1>7

\* Only the parts that were read matter to what is known of a PNG.
LEMMA PngSame ==
  ASSUME NEW a, NEW b, NEW n \in Nat, \A i \in 1..n : a[i] = b[i], NEW marks
  PROVE  /\ PngSeen(a, n, marks) => PngSeen(b, n, marks)
         /\ PngOrder(a, n) => PngOrder(b, n)
<1>1. PngSeen(a, n, marks) => PngSeen(b, n, marks)  BY DEF PngSeen
<1>2. PngOrder(a, n) => PngOrder(b, n)  BY DEF PngOrder
<1>3. QED  BY <1>1, <1>2

\* The same of a WebP.
LEMMA WebPSame ==
  ASSUME NEW a, NEW b, NEW n \in Nat, \A i \in 1..n : a[i] = b[i], NEW marks
  PROVE  /\ WebPSeen(a, n, marks) => WebPSeen(b, n, marks)
         /\ WebPOrder(a, n) => WebPOrder(b, n)
<1>1. WebPSeen(a, n, marks) => WebPSeen(b, n, marks)  BY DEF WebPSeen
<1>2. n > 0 => 1 \in 1..n  OBVIOUS
<1>3. WebPOrder(a, n) => WebPOrder(b, n)  BY <1>2 DEF WebPOrder
<1>4. QED  BY <1>1, <1>3

\* The same of a JPEG.
LEMMA JpegSame ==
  ASSUME NEW a, NEW b, NEW n \in Nat, \A i \in 1..n : a[i] = b[i], NEW marks
  PROVE  /\ JpegSeen(a, n, marks) => JpegSeen(b, n, marks)
         /\ JpegOrder(a, n) => JpegOrder(b, n)
<1>1. n # 0 => n \in 1..n  OBVIOUS
<1>2. JpegSeen(a, n, marks) => JpegSeen(b, n, marks)  BY <1>1 DEF JpegSeen
<1>3. \A i \in 1..n : i # 1 => i - 1 \in 1..n  OBVIOUS
<1>4. JpegOrder(a, n) => JpegOrder(b, n)  BY <1>3 DEF JpegOrder
<1>5. QED  BY <1>2, <1>4

\* Whatever chunk comes, the answer on a PNG is right.
LEMMA PngSound ==
  ASSUME NEW n, NEW part, NEW all, Comes("png", n, part, all), Underway("png", read, n, seen)
  PROVE  Sound("png", all, n + 1, seen \cup PngMarks(part), PngVerdict(part))
<1>1. /\ n \in Nat /\ FileOf(PngKinds, all, n + 1)
      /\ part = all[n + 1] /\ \A i \in 1..n : read[i] = all[i]
      /\ part.kind \in PngKinds /\ part.whole \in BOOLEAN /\ part.last \in BOOLEAN
      /\ Len(all) = n + 1
  BY ComesIs, PngKindsAre
<1>2. PngSeen(read, n, seen) /\ PngOrder(read, n)  BY DEF Underway
<1>3. PngSeen(all, n, seen) /\ PngOrder(all, n)  BY <1>1, <1>2, PngSame
<1>4. ASSUME PngVerdict(part) = "undecided"
      PROVE  Underway("png", all, n + 1, seen \cup PngMarks(part))
  BY <1>1, <1>3, <1>4, PngGoesOn DEF Underway
<1>5. ASSUME PngVerdict(part) = "static" PROVE Proper(all) /\ Admitted("png", all)
  <2>1. DOMAIN all = 1..Len(all)  BY <1>1 DEF FileOf
  <2>2. Proper(all) /\ StillPng(all)  BY <1>1, <1>3, <1>5, <2>1, PngTakesStill
  <2>3. QED  BY <2>2 DEF Admitted
<1>6. ASSUME PngVerdict(part) \in {"animated", "uncertain"} PROVE Doomed("png", all)
  <2>1. SUFFICES ASSUME NEW file, Legal("png", file), Begins(all, n + 1, file),
                        Proper(file), StillPng(file)
                 PROVE  FALSE
    BY <1>1 DEF Doomed, Admitted
  <2>2. PICK len : len = Len(file)  OBVIOUS
  <2>3. /\ len \in Nat /\ FileOf(PngKinds, file, len)
        /\ n + 1 \in 1..len /\ part = file[n + 1] /\ \A i \in 1..n : read[i] = file[i]
    BY <2>1, <2>2, FileIs, PngKindsAre
  <2>4. PngSeen(file, n, seen)  BY <1>1, <1>2, <2>3, PngSame
  <2>5. DOMAIN file = 1..Len(file) /\ Len(file) \in Nat /\ n < Len(file)
    BY <1>1, <2>2, <2>3 DEF FileOf
  <2>6. PngVerdict(part) \in {"undecided", "static"}
    BY <1>1, <2>1, <2>3, <2>4, <2>5, PngAdmitsStill
  <2>7. QED  BY <1>6, <2>6
<1>7. ASSUME PngVerdict(part) = "animated" PROVE SaysSo(all)
  <2>1. part.kind = "acTL"  BY <1>7 DEF PngVerdict, ClosesAs
  <2>2. n + 1 \in DOMAIN all  BY <1>1, Numbers DEF FileOf
  <2>3. QED  BY <1>1, <2>1, <2>2 DEF SaysSo
<1>8. QED  BY <1>4, <1>5, <1>6, <1>7 DEF Sound

\* Whatever chunk comes, the answer on a WebP is right.
LEMMA WebPSound ==
  ASSUME NEW n, NEW part, NEW all, Comes("webp", n, part, all), Underway("webp", read, n, seen)
  PROVE  Sound("webp", all, n + 1, seen \cup WebPMarks(part), WebPVerdict(part))
<1>1. /\ n \in Nat /\ FileOf(WebPKinds, all, n + 1)
      /\ part = all[n + 1] /\ \A i \in 1..n : read[i] = all[i]
      /\ part.kind \in WebPKinds /\ part.whole \in BOOLEAN /\ part.last \in BOOLEAN
      /\ part.says \in SaysOf(part.kind)
      /\ Len(all) = n + 1 /\ (n = 0 <=> read = <<>>)
  BY ComesIs, WebPKindsAre
<1>2. Append(read, part) = all  BY DEF Comes
<1>3. WebPSeen(read, n, seen) /\ WebPOrder(read, n) /\ \A i \in 1..n : ~read[i].last
  BY DEF Underway
<1>4. WebPSeen(all, n, seen) /\ WebPOrder(all, n)  BY <1>1, <1>3, WebPSame
<1>5. PICK marks : marks = seen \cup WebPMarks(part)  OBVIOUS
<1>6. PICK m \in Nat : m = n + 1  BY <1>1
<1>7. /\ DOMAIN all = 1..m /\ \A i \in 1..m : i \in 1..n \/ i = m
      /\ \A i \in 1..n : i \in 1..m /\ i # m
      /\ m \in 1..m /\ \A i \in 1..m : all[i].kind \in WebPKinds /\ all[i].says \in SaysOf(all[i].kind)
  BY <1>1, <1>6, Numbers DEF FileOf
<1>8. WebPSeen(all, m, marks)  BY <1>1, <1>4, <1>5, <1>6, WebPSeenOn
<1>9. WebPTells(all, n, seen)  BY <1>1, <1>4, <1>7, WebPTold
<1>10. WebPTells(all, m, marks)  BY <1>7, <1>8, WebPTold
<1>11. ASSUME WebPVerdict(part) \in {"undecided", "static"}
       PROVE  /\ part.whole /\ WebPOrder(all, m)
              /\ WebPVerdict(part) = "undecided" => ~part.last
              /\ WebPVerdict(part) = "static" => part.last /\ WebPEnds(all, marks)
  <2>1. ~(part.kind = "ANIM" /\ part.whole) /\ ~WebPRefuses(part)
    BY <1>11 DEF WebPVerdict
  <2>2. "animation" \notin part.says  BY <1>11, <2>1 DEF WebPVerdict
  <2>3. part.whole  BY <2>1 DEF WebPRefuses
  <2>4. part.kind # "ANIM"  BY <2>1, <2>3
  <2>5. WebPOrder(all, n + 1)  BY <1>1, <1>4, <1>9, <2>1, <2>2, <2>4, WebPGoesOn
  <2>6. CASE part.last
    <3>1. WebPVerdict(part) = ClosesAs(WebPEnds(all, marks))
      BY <1>2, <1>5, <2>1, <2>2, <2>4, <2>6 DEF WebPVerdict
    <3>2. WebPVerdict(part) = "static" /\ WebPEnds(all, marks)  BY <1>11, <3>1 DEF ClosesAs
    <3>3. QED  BY <1>6, <2>3, <2>5, <2>6, <3>2
  <2>7. CASE ~part.last
    <3>1. WebPVerdict(part) = "undecided"  BY <2>1, <2>2, <2>4, <2>7 DEF WebPVerdict
    <3>2. QED  BY <1>6, <2>3, <2>5, <2>7, <3>1
  <2>8. QED  BY <2>6, <2>7
<1>12. ASSUME WebPVerdict(part) = "undecided" PROVE Underway("webp", all, m, marks)
  <2>1. WebPOrder(all, m) /\ ~part.last  BY <1>11, <1>12
  <2>2. \A i \in 1..m : ~all[i].last  BY <1>1, <1>3, <1>6, <1>7, <2>1
  <2>3. QED  BY <1>8, <2>1, <2>2 DEF Underway
<1>13. ASSUME WebPVerdict(part) = "static" PROVE Proper(all) /\ Admitted("webp", all)
  <2>1. part.whole /\ part.last /\ WebPOrder(all, m) /\ WebPEnds(all, marks)  BY <1>11, <1>13
  <2>2. \A i \in 1..n : all[i].whole /\ ~all[i].last  BY <1>1, <1>3, <1>4 DEF WebPOrder
  <2>3. Proper(all)  BY <1>1, <1>6, <1>7, <2>1, <2>2 DEF Proper
  <2>4. FileOf(WebPKinds, all, m)  BY <1>1, <1>6
  <2>5. StillWebP(all)  BY <1>10, <2>1, <2>4, WebPTakesStill
  <2>6. QED  BY <2>3, <2>5 DEF Admitted
<1>14. ASSUME WebPVerdict(part) \in {"animated", "uncertain"} PROVE Doomed("webp", all)
  <2>1. SUFFICES ASSUME NEW file, Legal("webp", file), Begins(all, n + 1, file),
                        Proper(file), StillWebP(file)
                 PROVE  FALSE
    BY <1>1 DEF Doomed, Admitted
  <2>2. PICK len : len = Len(file)  OBVIOUS
  <2>3. /\ len \in Nat /\ FileOf(WebPKinds, file, len)
        /\ n + 1 \in 1..len /\ part = file[n + 1] /\ \A i \in 1..n : read[i] = file[i]
        /\ n + 1 = len => all = file
    BY <2>1, <2>2, FileIs, WebPKindsAre
  <2>4. WebPSeen(file, n, seen)  BY <1>1, <1>3, <2>3, WebPSame
  <2>5. ReadOf(n, part, file)  BY <1>1, <1>2, <2>2, <2>3 DEF ReadOf
  <2>6. WebPVerdict(part) \in {"undecided", "static"}
    BY <1>1, <2>1, <2>3, <2>4, <2>5, WebPAdmitsStill
  <2>7. QED  BY <1>14, <2>6
<1>15. ASSUME WebPVerdict(part) = "animated" PROVE SaysSo(all)
  <2>1. part.kind = "ANIM" \/ "animation" \in part.says  BY <1>15 DEF WebPVerdict, ClosesAs
  <2>2. QED  BY <1>1, <1>6, <1>7, <2>1 DEF SaysSo
<1>16. QED  BY <1>5, <1>6, <1>12, <1>13, <1>14, <1>15 DEF Sound

\* Whatever segment comes, the answer on a JPEG is right.
LEMMA JpegSound ==
  ASSUME NEW n, NEW part, NEW all, Comes("jpeg", n, part, all), Underway("jpeg", read, n, seen)
  PROVE  Sound("jpeg", all, n + 1, JpegMarked(part), JpegVerdict(part))
<1>1. /\ n \in Nat /\ FileOf(JpegKinds, all, n + 1)
      /\ part = all[n + 1] /\ \A i \in 1..n : read[i] = all[i]
      /\ part.kind \in JpegKinds /\ part.whole \in BOOLEAN /\ part.last \in BOOLEAN
      /\ Len(all) = n + 1 /\ DOMAIN read = 1..n
  <2>1. FileOf(Kinds["jpeg"], read, n)  BY ComesIs
  <2>2. DOMAIN read = 1..n  BY <2>1 DEF FileOf
  <2>3. QED  BY <2>2, ComesIs, JpegKindsAre
<1>2. JpegSeen(read, n, seen) /\ JpegOrder(read, n)  BY DEF Underway
<1>3. JpegSeen(all, n, seen) /\ JpegOrder(all, n)  BY <1>1, <1>2, JpegSame
<1>4. ASSUME JpegVerdict(part) = "undecided"
      PROVE  Underway("jpeg", all, n + 1, JpegMarked(part))
  BY <1>1, <1>3, <1>4, JpegGoesOn DEF Underway
<1>5. ASSUME JpegVerdict(part) = "static" PROVE Proper(all) /\ Admitted("jpeg", all)
  <2>1. Proper(all) /\ StillJpeg(all)  BY <1>1, <1>3, <1>5, JpegTakesStill
  <2>2. QED  BY <2>1 DEF Admitted
<1>6. ASSUME JpegVerdict(part) \in {"animated", "uncertain"} PROVE Doomed("jpeg", all)
  <2>1. SUFFICES ASSUME NEW file, Legal("jpeg", file), Begins(all, n + 1, file),
                        Proper(file), StillJpeg(file)
                 PROVE  FALSE
    BY <1>1 DEF Doomed, Admitted
  <2>2. PICK len : len = Len(file)  OBVIOUS
  <2>3. /\ len \in Nat /\ FileOf(JpegKinds, file, len)
        /\ n + 1 \in 1..len /\ part = file[n + 1] /\ \A i \in 1..n : read[i] = file[i]
    BY <2>1, <2>2, FileIs, JpegKindsAre
  <2>4. JpegSeen(file, n, seen)  BY <1>1, <1>2, <2>3, JpegSame
  <2>5. JpegVerdict(part) \in {"undecided", "static"}
    BY <1>1, <2>1, <2>3, <2>4, JpegAdmitsStill
  <2>6. QED  BY <1>6, <2>5
<1>7. JpegVerdict(part) # "animated"  BY DEF JpegVerdict, ClosesAs
<1>8. QED  BY <1>4, <1>5, <1>6, <1>7 DEF Sound

AvifVerdictOf(part) == IF part.last THEN AvifVerdict(Append(read, part)) ELSE "undecided"

\* Whatever box comes, the answer on an AVIF is right.
LEMMA AvifSound ==
  ASSUME NEW n, NEW part, NEW all, Comes("avif", n, part, all), Underway("avif", read, n, seen)
  PROVE  Sound("avif", all, n + 1, {}, AvifVerdictOf(part))
<1>1. /\ n \in Nat /\ FileOf(AvifKinds, all, n + 1)
      /\ part = all[n + 1] /\ \A i \in 1..n : read[i] = all[i]
      /\ Len(all) = n + 1 /\ part.last \in BOOLEAN
  BY ComesIs, AvifKindsAre
<1>2. all = Append(read, part) /\ MetaTold(all)  BY DEF Comes, Legal
<1>3. PICK m \in Nat : m = n + 1  BY <1>1
<1>4. /\ DOMAIN all = 1..m /\ \A i \in 1..m : i \in 1..n \/ i = m
      /\ \A i \in 1..n : i \in 1..m /\ i # m
      /\ m \in 1..m
  BY <1>1, <1>3, Numbers DEF FileOf
<1>5. \A i \in 1..n : ~all[i].last  BY <1>1 DEF Underway
<1>6. CASE ~part.last
  <2>1. AvifVerdictOf(part) = "undecided"  BY <1>6 DEF AvifVerdictOf
  <2>2. \A i \in 1..m : ~all[i].last  BY <1>1, <1>3, <1>4, <1>5, <1>6
  <2>3. QED  BY <1>3, <2>1, <2>2 DEF Sound, Underway
<1>7. CASE part.last
  <2>1. AvifVerdictOf(part) = AvifVerdict(all)  BY <1>2, <1>7 DEF AvifVerdictOf
  <2>2. AvifVerdict(all) = "static" <=>
          (\A i \in 1..m : all[i].whole) /\ StillAvif(all) /\ WithinMeta(all)
    BY <1>1, <1>2, <1>3, AvifSaysStill
  <2>3. AvifVerdict(all) = "static" => Proper(all) /\ Admitted("avif", all)
    BY <1>1, <1>3, <1>4, <1>5, <1>7, <2>2 DEF Proper, Admitted
  <2>4. ASSUME AvifVerdict(all) \in {"animated", "uncertain"} PROVE Doomed("avif", all)
    <3>1. SUFFICES ASSUME NEW file, Legal("avif", file), Begins(all, n + 1, file),
                          Proper(file), StillAvif(file), WithinMeta(file)
                   PROVE  FALSE
      BY <1>1 DEF Doomed, Admitted
    <3>2. PICK len : len = Len(file)  OBVIOUS
    <3>3. /\ len \in Nat /\ FileOf(AvifKinds, file, len)
          /\ n + 1 \in 1..len /\ part = file[n + 1]
          /\ n + 1 = len => all = file
      BY <3>1, <3>2, FileIs, AvifKindsAre
    <3>4. DOMAIN file = 1..len  BY <3>3 DEF FileOf
    <3>5. n + 1 = len  BY <1>7, <3>1, <3>2, <3>3, <3>4 DEF Proper
    <3>6. all = file /\ \A i \in 1..m : all[i].whole
      BY <1>3, <3>1, <3>3, <3>4, <3>5 DEF Proper
    <3>7. QED  BY <2>2, <2>4, <3>1, <3>6
  <2>5. AvifVerdict(all) # "undecided"  BY DEF AvifVerdict, ClosesAs
  <2>6. AvifVerdict(all) = "animated" => SaysSo(all)  BY AvifAnimates DEF SaysSo
  <2>7. QED  BY <2>1, <2>3, <2>4, <2>5, <2>6 DEF Sound
<1>8. QED  BY <1>6, <1>7

-----------------------------------------------------------------------------
\* The invariant at the start, when nothing has been read.
LEMMA ImagesBegin == ImagesInit => ImageInv
<1>1. SUFFICES ASSUME ImagesInit PROVE ImageInv  OBVIOUS
<1>2. format \in DOMAIN Kinds /\ read = <<>> /\ seen = {} /\ verdict = "undecided"
  BY <1>1 DEF ImagesInit
<1>3. Len(read) = 0 /\ DOMAIN read = {} /\ read \in Seq(PartSet(format))  BY <1>2
<1>4. Legal(format, read)  BY <1>3 DEF Legal, File, MetaTold, Of
<1>5. \A i \in 1..0 : FALSE  OBVIOUS
<1>6. PngSeen(read, 0, seen) /\ PngOrder(read, 0)  BY <1>2, <1>5 DEF PngSeen, PngOrder
<1>7. WebPSeen(read, 0, seen)  BY <1>2, <1>5 DEF WebPSeen
<1>8. WebPOrder(read, 0)  BY <1>5 DEF WebPOrder
<1>9. JpegSeen(read, 0, seen) /\ JpegOrder(read, 0)  BY <1>2, <1>5 DEF JpegSeen, JpegOrder
<1>10. Underway(format, read, 0, seen)
  BY <1>2, <1>5, <1>6, <1>7, <1>8, <1>9, FormatsAre DEF Underway
<1>11. QED  BY <1>2, <1>3, <1>4, <1>10 DEF ImageInv, VerdictFits

\* What is read stays the beginning of a file of its format.
LEMMA StaysLegal ==
  ASSUME ImageInv, NEW kind \in Kinds[format], NEW part \in PartsOf(kind)
  PROVE  part \in PartSet(format) /\ Legal(format, Append(read, part))
<1>1. format \in DOMAIN Kinds /\ Legal(format, read)  BY DEF ImageInv
<1>2. /\ part.kind = kind /\ part.whole \in BOOLEAN /\ part.last \in BOOLEAN
      /\ part.says \in SaysOf(kind) /\ part.fits \in BOOLEAN
      /\ part.meta \in Metas \cup {NoMeta}
      /\ kind = "meta" /\ OnlyOne(kind) => part.meta \in Metas
      /\ part = [kind |-> part.kind, whole |-> part.whole, last |-> part.last,
                 says |-> part.says, fits |-> part.fits, meta |-> part.meta]
  BY DEF PartsOf
<1>3. SaysOf(kind) \subseteq SUBSET (Features \cup {"animation", "avif", "avis", "mif1"})
  <2>1. SaysOf(kind) = (SUBSET Features) \cup {{"animation"}}
        \/ SaysOf(kind) = {{}, {"alpha"}}
        \/ SaysOf(kind) = {{"avif"}, {"avif", "avis"}, {"mif1"}}
        \/ SaysOf(kind) = {{}}
    BY DEF SaysOf
  <2>2. QED  BY <2>1 DEF Features
<1>4. part \in PartSet(format)  BY <1>2, <1>3 DEF PartSet
<1>5. PICK P : P = PartSet(format)  OBVIOUS
<1>6. PICK n, all : n = Len(read) /\ all = Append(read, part)  OBVIOUS
<1>7. read \in Seq(P) /\ part \in P  BY <1>1, <1>4, <1>5 DEF Legal, File
<1>8. /\ all \in Seq(P) /\ n \in Nat /\ DOMAIN all = 1..(n + 1) /\ DOMAIN read = 1..n
      /\ all[n + 1] = part /\ \A i \in 1..n : all[i] = read[i]
  BY <1>6, <1>7, AppendIs
<1>9. /\ \A i \in 1..(n + 1) : i \in 1..n \/ i = n + 1
      /\ n + 1 \in 1..(n + 1) /\ \A i \in 1..n : i \in 1..(n + 1) /\ i # n + 1
  BY <1>8, Numbers
<1>10. \A i \in DOMAIN all : all[i].says \in SaysOf(all[i].kind)
  <2>1. \A i \in 1..n : read[i].says \in SaysOf(read[i].kind)  BY <1>1, <1>8 DEF Legal, File
  <2>2. QED  BY <1>2, <1>8, <1>9, <2>1
<1>11. MetaTold(all)
  <2>1. SUFFICES ASSUME NEW i, Of("meta", all) = {i} PROVE all[i].meta \in MetaBox
    BY DEF MetaTold
  <2>2. i \in 1..(n + 1) /\ all[i].kind = "meta"
        /\ \A j \in 1..(n + 1) : all[j].kind = "meta" => j = i
    BY <1>8, <2>1 DEF Of
  <2>3. CASE i \in 1..n
    <3>1. Of("meta", read) = {i}  BY <1>8, <1>9, <2>2, <2>3 DEF Of
    <3>2. read[i].meta \in MetaBox  BY <1>1, <3>1 DEF Legal, MetaTold
    <3>3. QED  BY <1>8, <2>3, <3>2
  <2>4. CASE i = n + 1
    <3>1. \A j \in 1..n : read[j].kind # "meta"  BY <1>8, <1>9, <2>2, <2>4
    <3>2. kind = "meta" /\ OnlyOne(kind)  BY <1>2, <1>8, <2>2, <2>4, <3>1 DEF OnlyOne
    <3>3. part.meta \in MetaBox  BY <1>2, <3>2, ImagesAssumption
    <3>4. QED  BY <1>8, <2>4, <3>3
  <2>5. QED  BY <1>9, <2>2, <2>3, <2>4
<1>12. QED  BY <1>4, <1>5, <1>6, <1>8, <1>10, <1>11 DEF Legal, File

\* Reading a part keeps the invariant.
LEMMA ReadKeeps ==
  ASSUME ImageInv, NEW kind \in Kinds[format], NEW part \in PartsOf(kind), ReadPart(part)
  PROVE  ImageInv'
<1>1. /\ verdict = "undecided" /\ read' = Append(read, part)
      /\ seen' = Marks(part) /\ format' = format
      /\ verdict' = IF Len(read) >= MaxEntries[format] THEN "uncertain" ELSE Verdict(part)
  BY DEF ReadPart
<1>2. PICK n, all, f, marks, v :
        n = Len(read) /\ all = Append(read, part) /\ f = format /\ marks = Marks(part) /\ v = Verdict(part)
  OBVIOUS
<1>3. f \in DOMAIN Kinds /\ Legal(f, all) /\ Comes(f, n, part, all)
  <2>1. part \in PartSet(f) /\ Legal(f, all)  BY <1>2, StaysLegal
  <2>2. QED  BY <1>2, <2>1 DEF Comes, ImageInv
<1>4. Underway(f, read, n, seen)  BY <1>1, <1>2 DEF ImageInv, VerdictFits
<1>5. Len(all) = n + 1  BY <1>3, ComesIs
<1>6. Sound(f, all, n + 1, marks, v)
  <2>1. CASE f = "png"
    <3>1. marks = seen \cup PngMarks(part) /\ v = PngVerdict(part)
      BY <1>2, <2>1 DEF Marks, Verdict
    <3>2. QED  BY <1>3, <1>4, <2>1, <3>1, PngSound
  <2>2. CASE f = "webp"
    <3>1. marks = seen \cup WebPMarks(part) /\ v = WebPVerdict(part)
      BY <1>2, <2>2 DEF Marks, Verdict
    <3>2. QED  BY <1>3, <1>4, <2>2, <3>1, WebPSound
  <2>3. CASE f = "jpeg"
    <3>1. marks = JpegMarked(part) /\ v = JpegVerdict(part)
      BY <1>2, <2>3 DEF Marks, Verdict, JpegMarked
    <3>2. QED  BY <1>3, <1>4, <2>3, <3>1, JpegSound
  <2>4. CASE f = "avif"
    <3>1. marks = {} /\ v = AvifVerdictOf(part)
      BY <1>2, <2>4 DEF Marks, Verdict, AvifVerdictOf
    <3>2. QED  BY <1>3, <1>4, <2>4, <3>1, AvifSound
  <2>5. QED  BY <1>3, <2>1, <2>2, <2>3, <2>4, FormatsAre
<1>7. PICK limit \in Nat : limit = MaxEntries[f]
  BY <1>3, FormatsAre, ImagesAssumption
<1>8. n \in Nat  BY <1>3, ComesIs
<1>9. VerdictFits(f, all, n + 1, marks, IF n >= limit THEN "uncertain" ELSE v)
  <2>1. CASE n >= limit
    <3>1. SUFFICES ASSUME NEW file, Legal(f, file), Begins(all, n + 1, file), Len(file) <= limit
                   PROVE  FALSE
      BY <1>5, <1>7, <2>1 DEF VerdictFits, Refused
    <3>2. PICK len \in Nat : len = Len(file)  BY <1>3, <3>1, FileIs
    <3>3. n + 1 <= len /\ len <= limit  BY <3>1, <3>2 DEF Begins
    <3>4. QED  BY <1>7, <1>8, <2>1, <3>3
  <2>2. CASE ~(n >= limit)
    <3>1. n + 1 <= limit  BY <1>7, <1>8, <2>2
    <3>2. Len(all) <= MaxEntries[f]  BY <1>5, <1>7, <3>1
    <3>3. Doomed(f, all) => Refused(f, all)  BY DEF Doomed, Refused
    <3>4. VerdictFits(f, all, n + 1, marks, v)  BY <1>6, <3>2, <3>3 DEF Sound, VerdictFits
    <3>5. QED  BY <2>2, <3>4
  <2>3. QED  BY <2>1, <2>2
<1>10. /\ format' = f /\ read' = all /\ seen' = marks
       /\ verdict' = IF n >= limit THEN "uncertain" ELSE v
  BY <1>1, <1>2, <1>7
<1>11. QED  BY <1>3, <1>5, <1>9, <1>10 DEF ImageInv

\* The rest of a refused file keeps it: the file stays refused.
LEMMA RestKeeps ==
  ASSUME ImageInv, NEW kind \in Kinds[format], NEW part \in PartsOf(kind), Rest(part)
  PROVE  ImageInv'
<1>1. /\ verdict = "uncertain" /\ read' = Append(read, part)
      /\ seen' = seen /\ verdict' = verdict /\ format' = format
  BY DEF Rest
<1>2. PICK n, all, f :
        n = Len(read) /\ all = Append(read, part) /\ f = format
  OBVIOUS
<1>3. f \in DOMAIN Kinds /\ Legal(f, all) /\ Comes(f, n, part, all)
  <2>1. part \in PartSet(f) /\ Legal(f, all)  BY <1>2, StaysLegal
  <2>2. QED  BY <1>2, <2>1 DEF Comes, ImageInv
<1>4. n \in Nat /\ Len(all) = n + 1 /\ \A i \in 1..n : read[i] = all[i]  BY <1>3, ComesIs
<1>5. Refused(f, read)  BY <1>1, <1>2 DEF ImageInv, VerdictFits
<1>6. Refused(f, all)
  <2>1. SUFFICES ASSUME NEW file, Legal(f, file), Begins(all, n + 1, file),
                        Len(file) <= MaxEntries[f]
                 PROVE  ~(Proper(file) /\ Admitted(f, file))
    BY <1>4 DEF Refused
  <2>2. PICK len \in Nat : len = Len(file)  BY <1>3, <2>1, FileIs
  <2>3. n + 1 <= len /\ \A i \in 1..(n + 1) : file[i] = all[i]  BY <2>1, <2>2 DEF Begins
  <2>4. n <= len  BY <1>4, <2>3
  <2>5. \A i \in 1..n : file[i] = read[i]  BY <1>4, <2>3, Numbers
  <2>6. Begins(read, n, file)  BY <2>2, <2>4, <2>5 DEF Begins
  <2>7. QED  BY <1>2, <1>5, <2>1, <2>6 DEF Refused
<1>7. format' = f /\ read' = all /\ verdict' = "uncertain"  BY <1>1, <1>2
<1>8. QED  BY <1>3, <1>6, <1>7 DEF ImageInv, VerdictFits

\* Every step keeps it.
LEMMA ImagesKeep == ImageInv /\ [ImagesNext]_imageVars => ImageInv'
<1>1. SUFFICES ASSUME ImageInv, [ImagesNext]_imageVars PROVE ImageInv'  OBVIOUS
<1>2. CASE ImagesNext
  <2>1. PICK kind \in Kinds[format] :
          \E part \in PartsOf(kind) : ReadPart(part) \/ Rest(part)
    BY <1>2 DEF ImagesNext
  <2>2. PICK part \in PartsOf(kind) : ReadPart(part) \/ Rest(part)  BY <2>1
  <2>3. CASE ReadPart(part)  BY <1>1, <2>1, <2>2, <2>3, ReadKeeps
  <2>4. CASE Rest(part)  BY <1>1, <2>1, <2>2, <2>4, RestKeeps
  <2>5. QED  BY <2>2, <2>3, <2>4
<1>3. CASE UNCHANGED imageVars
  <2>1. format' = format /\ read' = read /\ seen' = seen /\ verdict' = verdict
    BY <1>3 DEF imageVars
  <2>2. QED  BY <1>1, <2>1 DEF ImageInv
<1>4. QED  BY <1>1, <1>2, <1>3

\* What it says of a whole file is VerdictsSound.
LEMMA InvIsSound == ImageInv => VerdictsSound
<1>1. SUFFICES ASSUME ImageInv PROVE VerdictsSound  OBVIOUS
<1>2. format \in DOMAIN Kinds /\ Legal(format, read) /\ VerdictFits(format, read, Len(read), seen, verdict)
  BY <1>1 DEF ImageInv
<1>3. IsStill(read) /\ WithinLimits(read) <=>
        Proper(read) /\ Admitted(format, read) /\ Len(read) <= MaxEntries[format]
  <2>1. IsStill(read) /\ WithinMeta(read) <=>
          Proper(read) /\ Admitted(format, read) /\ WithinMeta(read)
    BY DEF IsStill, Proper, Admitted
  <2>2. Admitted(format, read) => WithinMeta(read)
    <3>1. CASE format = "avif"  BY <3>1 DEF Admitted
    <3>2. CASE format # "avif"
      <4>1. "meta" \notin Kinds[format]  BY <1>2, <3>2, FormatsAre DEF Kinds
      <4>2. \A i \in DOMAIN read : read[i].kind \in Kinds[format]
        <5>1. PICK n : n = Len(read)  OBVIOUS
        <5>2. n \in Nat /\ FileOf(Kinds[format], read, n)  BY <1>2, <5>1, LegalIs
        <5>3. QED  BY <5>2 DEF FileOf
      <4>3. QED  BY <4>1, <4>2 DEF WithinMeta, Of
    <3>3. QED  BY <3>1, <3>2
  <2>3. WithinLimits(read) <=> Len(read) <= MaxEntries[format] /\ WithinMeta(read)
    BY DEF WithinLimits, WithinMeta
  <2>4. QED  BY <2>1, <2>2, <2>3
<1>4. Begins(read, Len(read), read)
  <2>1. Len(read) \in Nat  BY <1>2, LegalIs
  <2>2. QED  BY <2>1 DEF Begins
<1>5. verdict = "static" => IsStill(read) /\ WithinLimits(read)  BY <1>2, <1>3 DEF VerdictFits
<1>6. verdict \in {"animated", "uncertain"} => ~(IsStill(read) /\ WithinLimits(read))
  BY <1>2, <1>3, <1>4 DEF VerdictFits, Refused
<1>7. verdict = "animated" =>
        \E i \in DOMAIN read : \/ read[i].kind \in {"acTL", "ANIM", "moov"}
                               \/ read[i].says \cap {"animation", "avis"} # {}
  BY <1>2 DEF VerdictFits, SaysSo
<1>8. QED  BY <1>5, <1>6, <1>7 DEF VerdictsSound

\* What the parser answers of a file is right, wherever it stops: "static" only of
\* a file that is one still picture by the rules of its format, the other answers
\* only of a file that is none and, where reading went on to the refusal, cannot
\* become one (inspectImageBytes, src/src/lib/members/assets/animation.ts).
THEOREM VerdictsAreSound == ImagesSpec => []VerdictsSound
<1>1. ImagesInit => ImageInv  BY ImagesBegin
<1>2. ImageInv /\ [ImagesNext]_imageVars => ImageInv'  BY ImagesKeep
<1>3. ImageInv => VerdictsSound  BY InvIsSound
<1>4. QED  BY <1>1, <1>2, <1>3, PTL DEF ImagesSpec

-----------------------------------------------------------------------------
\* Every picture picked is accounted for, what the parser takes as one still
\* picture is one by the rules of its format, and what verification records is
\* the identity of such a picture: the promise of the three parts together
\* (use-member-asset-upload.tsx, inspect-image.ts, verify.ts).
THEOREM PicturesStayAccounted == PicturesSpec => []PicturesAccounted
<1>1. UploadsAccounted /\ VerdictsSound /\ VerifiedIsStatic => PicturesAccounted
  BY DEF PicturesAccounted
<1>2. QED
  BY <1>1, UploadsStayAccounted, VerdictsAreSound, VerifiedStaysStatic, PTL DEF PicturesSpec
=============================================================================
