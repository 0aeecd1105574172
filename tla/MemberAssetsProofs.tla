------------------------- MODULE MemberAssetsProofs -------------------------
(***************************************************************************)
(* Proofs about MemberAssets for any number of assets, of calls in flight  *)
(* and of uploads, any limits and lifetimes.                               *)
(***************************************************************************)
EXTENDS MemberAssets, FiniteSetTheorems, TLAPS

-----------------------------------------------------------------------------
(* The inductive invariant. *)

Doomed(a) == Condemned(a) \/ row[a].status = "gone"

(* What a row, its object and its URL have to do with each other. *)
RowSound(a) ==
  /\ row[a].status = "free" => uploads[a] = 0
  /\ uploads[a] = 0 => object[a] = None
  /\ row[a].status = "ready" => row[a].etag \in Valid /\ uploads[a] # 0
  /\ Ready(a) /\ uploads[a] = 1 => object[a] = row[a].etag
  /\ a \in referenced => uploads[a] # 0 /\ (uploads[a] = 1 => Ready(a))
  /\ row[a].status = "gone" => /\ row[a].expires <= now
                               /\ object[a] = None \/ a \in early

(* What a call in flight still knows of the rows it has read. *)
SweepSound(q) ==
  /\ \A a \in q.rows : Doomed(a)
  /\ q.op = "remove" =>
       /\ q.victim \in Assets
       /\ Doomed(q.victim)
       /\ \/ q.victim \in early
          \/ object[q.victim] = None /\ row[q.victim].expires <= now

FinalizeSound(q) ==
  /\ q.op \in {"verify", "recheck", "admit", "reject"} \/ q.then = "verify" =>
       q.asset \in Assets /\ row[q.asset].status # "free"
  /\ q.op \in {"recheck", "admit"} =>
       /\ q.etag \in Valid
       /\ uploads[q.asset] # 0
       /\ uploads[q.asset] = 1 /\ Pending(q.asset) => object[q.asset] = q.etag

ServeSound(q) ==
  /\ q.op \in {"get", "fail"} =>
       /\ q.asset \in Assets
       /\ q.etag \in Valid
       /\ row[q.asset].status \in {"ready", "gone"}
       /\ uploads[q.asset] # 0
  /\ q.op = "fail" =>
       (uploads[q.asset] = 1 /\ Ready(q.asset) => row[q.asset].etag # q.etag)

CallSound(q) == SweepSound(q) /\ FinalizeSound(q) /\ ServeSound(q)

IInv ==
  /\ TypeOK
  /\ CountersExact
  /\ \A a \in Assets : RowSound(a)
  /\ \A r \in Requests : CallSound(requests[r])

-----------------------------------------------------------------------------
(* What a step may do to an asset behind a call's back. *)

Progress(a) ==
  /\ row[a].status = "gone" => row'[a].status = "gone"
  /\ Condemned(a) => Doomed(a)'
  /\ row[a].status # "free" =>
       row'[a].status # "free" /\ row'[a].expires = row[a].expires
  /\ row[a].status = "ready" => row'[a].status \in {"ready", "gone"}
  /\ Pending(a)' => Pending(a) \/ row[a].status = "free"
  /\ Ready(a)' /\ row[a].status = "ready" =>
       Ready(a) /\ row'[a].etag = row[a].etag
  /\ uploads'[a] # uploads[a] => uploads'[a] = uploads[a] + 1
  /\ a \in early => a \in early'
  /\ \/ object'[a] = object[a]
     \/ object'[a] = None /\ ~Pending(a)
     \/ now < row[a].expires /\ uploads'[a] = uploads[a] + 1

(* A call's knowledge survives the steps of others. *)
LEMMA CallStaysSound ==
  ASSUME TypeOK, now' \in Nat, now <= now', \A a \in Assets : Progress(a),
         NEW q \in Request, CallSound(q)
  PROVE  CallSound(q)'
<1>0. /\ q.rows \subseteq Assets /\ now \in Nat
      /\ \A a \in Assets : row[a].expires \in Nat /\ uploads[a] \in Nat
  BY LimitsAssumption DEF TypeOK, Row, Request
<1>1. \A a \in Assets : Doomed(a) => Doomed(a)'
  BY DEF Progress, Doomed
<1>2. SweepSound(q)'
  <2>1. \A a \in q.rows : Doomed(a)'
    BY <1>0, <1>1 DEF CallSound, SweepSound
  <2>2. ASSUME q.op = "remove"
        PROVE  /\ q.victim \in Assets
               /\ Doomed(q.victim)'
               /\ \/ q.victim \in early'
                  \/ object'[q.victim] = None /\ row'[q.victim].expires <= now'
    <3> DEFINE a == q.victim
    <3>1. a \in Assets /\ Doomed(a) /\ row[a].status # "free"
      BY <2>2 DEF CallSound, SweepSound, Doomed, Condemned
    <3>2. a \in early \/ (object[a] = None /\ row[a].expires <= now)
      BY <2>2 DEF CallSound, SweepSound
    <3>3. Progress(a) /\ row'[a].expires = row[a].expires
      BY <3>1 DEF Progress
    <3>4. CASE a \in early
      BY <3>1, <3>3, <3>4, <1>1 DEF Progress
    <3>5. CASE object[a] = None /\ row[a].expires <= now
      <4>1. row[a].expires \in Nat /\ ~(now < row[a].expires) /\ row[a].expires <= now'
        BY <3>1, <3>5, <1>0
      <4>2. object'[a] = None
        BY <4>1, <3>3, <3>5 DEF Progress
      <4>3. QED  BY <4>1, <4>2, <3>1, <3>3, <1>1
    <3>6. QED  BY <3>2, <3>4, <3>5
  <2>3. QED  BY <2>1, <2>2 DEF SweepSound
<1>3. FinalizeSound(q)'
  <2>1. ASSUME q.op \in {"verify", "recheck", "admit", "reject"} \/ q.then = "verify"
        PROVE  q.asset \in Assets /\ row'[q.asset].status # "free"
    BY <2>1 DEF CallSound, FinalizeSound, Progress
  <2>2. ASSUME q.op \in {"recheck", "admit"}
        PROVE  /\ q.etag \in Valid
               /\ uploads'[q.asset] # 0
               /\ uploads'[q.asset] = 1 /\ Pending(q.asset)'
                    => object'[q.asset] = q.etag
    <3> DEFINE a == q.asset
    <3>1. /\ a \in Assets /\ row[a].status # "free"
          /\ q.etag \in Valid /\ uploads[a] # 0
          /\ uploads[a] = 1 /\ Pending(a) => object[a] = q.etag
      BY <2>2 DEF CallSound, FinalizeSound
    <3>2. Progress(a) /\ uploads[a] \in Nat
      BY <3>1, <1>0
    <3>3. /\ uploads'[a] # 0
          /\ uploads'[a] = 1 => uploads[a] = 1
      BY <3>1, <3>2 DEF Progress
    <3>4. Pending(a)' => Pending(a)
      BY <3>1, <3>2 DEF Progress
    <3>5. uploads'[a] = 1 /\ Pending(a)' => object'[a] = object[a]
      <4>1. uploads'[a] = 1 => uploads'[a] # uploads[a] + 1
        BY <3>1, <3>2
      <4>2. QED  BY <4>1, <3>2, <3>4 DEF Progress
    <3>6. QED  BY <3>1, <3>3, <3>4, <3>5
  <2>3. QED  BY <2>1, <2>2 DEF FinalizeSound
<1>4. ServeSound(q)'
  <2>1. ASSUME q.op \in {"get", "fail"}
        PROVE  /\ q.asset \in Assets
               /\ q.etag \in Valid
               /\ row'[q.asset].status \in {"ready", "gone"}
               /\ uploads'[q.asset] # 0
    <3>1. /\ q.asset \in Assets /\ q.etag \in Valid
          /\ row[q.asset].status \in {"ready", "gone"} /\ uploads[q.asset] # 0
      BY <2>1 DEF CallSound, ServeSound
    <3>2. row'[q.asset].status \in {"ready", "gone"}
      BY <3>1 DEF Progress
    <3>3. uploads'[q.asset] # 0
      BY <3>1, <1>0 DEF Progress
    <3>4. QED  BY <3>1, <3>2, <3>3
  <2>2. ASSUME q.op = "fail", uploads'[q.asset] = 1, Ready(q.asset)'
        PROVE  row'[q.asset].etag # q.etag
    <3> DEFINE a == q.asset
    <3>1. /\ a \in Assets /\ row[a].status \in {"ready", "gone"}
          /\ uploads[a] # 0
          /\ uploads[a] = 1 /\ Ready(a) => row[a].etag # q.etag
      BY <2>2 DEF CallSound, ServeSound
    <3>2. row'[a].status = "ready"
      BY <2>2 DEF Ready
    <3>3. row[a].status = "ready"
      BY <3>1, <3>2 DEF Progress
    <3>4. Ready(a) /\ row'[a].etag = row[a].etag
      BY <3>1, <3>3, <2>2 DEF Progress
    <3>5. uploads[a] = 1
      BY <3>1, <2>2, <1>0 DEF Progress
    <3>6. QED  BY <3>1, <3>4, <3>5
  <2>3. QED  BY <2>1, <2>2 DEF ServeSound
<1>5. QED  BY <1>2, <1>3, <1>4 DEF CallSound

LEMMA OthersStaySound ==
  ASSUME TypeOK, \A x \in Requests : CallSound(requests[x]),
         now' \in Nat, now <= now', \A a \in Assets : Progress(a),
         NEW r \in Requests, NEW q \in Request,
         requests' = [requests EXCEPT ![r] = q], CallSound(q)'
  PROVE  /\ requests' \in [Requests -> Request]
         /\ (\A x \in Requests : CallSound(requests[x]))'
<1>1. /\ requests' \in [Requests -> Request]
      /\ requests'[r] = q
      /\ \A x \in Requests \ {r} : requests'[x] = requests[x]
  BY DEF TypeOK
<1>2. ASSUME NEW x \in Requests
      PROVE  CallSound(requests[x])'
  <2>1. PICK p \in Request : p = requests'[x]
    BY <1>1
  <2>2. CallSound(p)'
    <3>1. CASE x = r
      <4>1. p = q  BY <1>1, <2>1, <3>1
      <4>2. QED  BY <4>1 DEF CallSound, SweepSound, FinalizeSound, ServeSound
    <3>2. CASE x # r
      <4>1. p = requests[x]  BY <1>1, <2>1, <3>2
      <4>2. CallSound(p)  BY <4>1
      <4>3. QED  BY <4>2, CallStaysSound
    <3>3. QED  BY <3>1, <3>2
  <2>3. QED
    BY <2>1, <2>2 DEF CallSound, SweepSound, FinalizeSound, ServeSound
<1>3. QED  BY <1>1, <1>2

LEMMA AllStaySound ==
  ASSUME TypeOK, \A x \in Requests : CallSound(requests[x]),
         now' \in Nat, now <= now', \A a \in Assets : Progress(a),
         UNCHANGED requests
  PROVE  /\ requests' \in [Requests -> Request]
         /\ (\A x \in Requests : CallSound(requests[x]))'
<1>1. requests' \in [Requests -> Request]
  BY DEF TypeOK
<1>2. ASSUME NEW x \in Requests
      PROVE  CallSound(requests[x])'
  <2>1. PICK p \in Request : p = requests'[x]
    BY <1>1
  <2>2. p = requests[x] /\ CallSound(p)
    BY <2>1
  <2>3. CallSound(p)'
    BY <2>2, CallStaysSound
  <2>4. QED
    BY <2>1, <2>3 DEF CallSound, SweepSound, FinalizeSound, ServeSound
<1>3. QED  BY <1>1, <1>2

(* A step that changes no table, no object and no clock disturbs no call. *)
LEMMA OnlyCall ==
  ASSUME IInv, UNCHANGED <<tables, world>>, NEW r \in Requests, NEW q \in Request,
         requests' = [requests EXCEPT ![r] = q], CallSound(q)
  PROVE  IInv'
<1>1. UNCHANGED <<now, row, object, asset_pending_count, asset_ready_count,
                  referenced, uploads, early>>
  BY DEF tables, world
<1>2. \A a \in Assets : Progress(a)
  BY <1>1 DEF Progress, Doomed, Condemned, Pending, Ready
<1>3. now' \in Nat /\ now <= now'
  BY <1>1, LimitsAssumption DEF IInv, TypeOK
<1>4. CallSound(q)'
  BY <1>2, <1>3, CallStaysSound DEF IInv
<1>5. /\ requests' \in [Requests -> Request]
      /\ (\A x \in Requests : CallSound(requests[x]))'
  BY <1>2, <1>3, <1>4, OthersStaySound DEF IInv
<1>6. TypeOK'
  BY <1>1, <1>5 DEF IInv, TypeOK
<1>7. CountersExact'
  BY <1>1 DEF IInv, CountersExact, PendingRows, ReadyRows, Pending
<1>8. (\A a \in Assets : RowSound(a))'
  BY <1>1 DEF IInv, RowSound, Ready
<1>9. QED  BY <1>5, <1>6, <1>7, <1>8 DEF IInv

-----------------------------------------------------------------------------
(* What calls become. *)

LEMMA NoRequestSound ==
  /\ NoRequest \in Request
  /\ CallSound(NoRequest)
<1>1. NoRequest \in Request
  BY DEF NoRequest, Request
<1>2. CallSound(NoRequest)
  BY DEF NoRequest, CallSound, SweepSound, FinalizeSound, ServeSound
<1>3. QED  BY <1>1, <1>2

LEMMA CleanupCallSound ==
  ASSUME NEW t \in {"end", "insert"}
  PROVE  /\ [NoRequest EXCEPT !.op = "cleanup", !.then = t] \in Request
         /\ CallSound([NoRequest EXCEPT !.op = "cleanup", !.then = t])
<1>1. [NoRequest EXCEPT !.op = "cleanup", !.then = t] \in Request
  BY DEF NoRequest, Request
<1>2. CallSound([NoRequest EXCEPT !.op = "cleanup", !.then = t])
  BY DEF NoRequest, CallSound, SweepSound, FinalizeSound, ServeSound
<1>3. QED  BY <1>1, <1>2

LEMMA SweepingTyped ==
  ASSUME TypeOK, NEW q \in Request, NEW S \in SUBSET Assets
  PROVE  Sweeping(q, S) \in Request
<1>1. now \in Nat
  BY LimitsAssumption DEF TypeOK
<1>2. After(q) \in Request
  BY <1>1, NoRequestSound DEF After, Request
<1>3. [q EXCEPT !.op = "sweep", !.rows = S, !.victim = None] \in Request
  BY DEF Request
<1>4. QED  BY <1>2, <1>3 DEF Sweeping

LEMMA SweepingSound ==
  ASSUME NEW q \in Request, q.op \in {"cleanup", "sweep", "remove"},
         FinalizeSound(q), NEW S \in SUBSET Assets, \A a \in S : Doomed(a)
  PROVE  CallSound(Sweeping(q, S))
<1>1. CASE S = {} /\ q.then = "end"
  BY <1>1, NoRequestSound DEF Sweeping, After
<1>2. CASE S = {} /\ q.then # "end"
  <2> DEFINE p == [q EXCEPT !.op = q.then, !.time = now, !.rows = {},
                            !.victim = None]
  <2>1. Sweeping(q, S) = p
    BY <1>2 DEF Sweeping, After
  <2>2. /\ p.op = q.then /\ p.then = q.then /\ p.asset = q.asset /\ p.rows = {}
        /\ q.then \in {"insert", "verify"}
    BY <1>2 DEF Request
  <2>3. SweepSound(p) /\ ServeSound(p)
    BY <2>2 DEF SweepSound, ServeSound
  <2>4. FinalizeSound(p)
    BY <2>2 DEF FinalizeSound
  <2>5. QED  BY <2>1, <2>3, <2>4 DEF CallSound
<1>3. CASE S # {}
  <2> DEFINE p == [q EXCEPT !.op = "sweep", !.rows = S, !.victim = None]
  <2>1. Sweeping(q, S) = p
    BY <1>3 DEF Sweeping
  <2>2. p.op = "sweep" /\ p.then = q.then /\ p.asset = q.asset /\ p.rows = S
    BY DEF Request
  <2>3. SweepSound(p) /\ ServeSound(p)
    BY <2>2 DEF SweepSound, ServeSound
  <2>4. FinalizeSound(p)
    BY <2>2 DEF FinalizeSound
  <2>5. QED  BY <2>1, <2>3, <2>4 DEF CallSound
<1>4. QED  BY <1>1, <1>2, <1>3

(* The sweep of one asset's row that ends the call. *)
LEMMA SingleSweepSound ==
  ASSUME NEW a \in Assets, NEW e \in Contents \union {None}
  PROVE  LET q == [NoRequest EXCEPT !.op = "sweep", !.rows = {a}, !.etag = e]
         IN  /\ q \in Request
             /\ Doomed(a) => CallSound(q)
<1> DEFINE q == [NoRequest EXCEPT !.op = "sweep", !.rows = {a}, !.etag = e]
<1>1. q \in Request
  BY DEF NoRequest, Request
<1>2. q.op = "sweep" /\ q.rows = {a} /\ q.then = "end"
  BY DEF NoRequest
<1>3. Doomed(a) => SweepSound(q) /\ FinalizeSound(q) /\ ServeSound(q)
  BY <1>2 DEF SweepSound, FinalizeSound, ServeSound
<1>4. QED  BY <1>1, <1>3 DEF CallSound

(* The same in the next state, for a call that knows of no asset but those  *)
(* it sweeps.                                                               *)
LEMMA SweepSoundNext ==
  ASSUME NEW q \in Request, q.op = "sweep", q.then = "end",
         \A a \in q.rows : Doomed(a)'
  PROVE  CallSound(q)'
BY DEF CallSound, SweepSound, FinalizeSound, ServeSound

LEMMA NoRequestSoundNext == ASSUME NEW q, q = NoRequest PROVE CallSound(q)'
BY DEF NoRequest, CallSound, SweepSound, FinalizeSound, ServeSound

LEMMA SweepingSoundNext ==
  ASSUME NEW q \in Request, FinalizeSound(q)', NEW S \in SUBSET Assets,
         \A a \in S : Doomed(a)', NEW p \in Request, p = Sweeping(q, S)
  PROVE  CallSound(p)'
<1>1. CASE S = {} /\ q.then = "end"
  BY <1>1, NoRequestSoundNext DEF Sweeping, After
<1>2. CASE S = {} /\ q.then # "end"
  <2>1. p = [q EXCEPT !.op = q.then, !.time = now, !.rows = {}, !.victim = None]
    BY <1>2 DEF Sweeping, After
  <2>2. /\ p.op = q.then /\ p.then = q.then /\ p.asset = q.asset /\ p.rows = {}
        /\ q.then \in {"insert", "verify"}
    BY <1>2, <2>1 DEF Request
  <2>3. SweepSound(p)' /\ ServeSound(p)'
    BY <2>2 DEF SweepSound, ServeSound
  <2>4. FinalizeSound(p)'
    BY <2>2 DEF FinalizeSound
  <2>5. QED  BY <2>3, <2>4 DEF CallSound
<1>3. CASE S # {}
  <2>1. p = [q EXCEPT !.op = "sweep", !.rows = S, !.victim = None]
    BY <1>3 DEF Sweeping
  <2>2. p.op = "sweep" /\ p.then = q.then /\ p.asset = q.asset /\ p.rows = S
    BY <2>1 DEF Request
  <2>3. SweepSound(p)' /\ ServeSound(p)'
    BY <2>2 DEF SweepSound, ServeSound
  <2>4. FinalizeSound(p)'
    BY <2>2 DEF FinalizeSound
  <2>5. QED  BY <2>3, <2>4 DEF CallSound
<1>4. QED  BY <1>1, <1>2, <1>3

-----------------------------------------------------------------------------
(* The parts of a step, put together. *)

LEMMA StepKeeps ==
  ASSUME IInv, row' \in [Assets -> Row], object' \in [Assets -> Contents \union {None}],
         asset_pending_count' \in 0..PendingLimit, asset_ready_count' \in 0..ReadyLimit,
         referenced' \subseteq Assets, uploads' \in [Assets -> 0..MaxUploads],
         early' \subseteq Assets, now' \in 0..MaxTime, now <= now',
         CountersExact', (\A a \in Assets : RowSound(a))',
         \A a \in Assets : Progress(a),
         \/ UNCHANGED requests
         \/ \E r \in Requests, q \in Request :
               requests' = [requests EXCEPT ![r] = q] /\ CallSound(q)'
  PROVE  IInv'
<1>1. now' \in Nat
  BY LimitsAssumption
<1>2. /\ requests' \in [Requests -> Request]
      /\ (\A x \in Requests : CallSound(requests[x]))'
  <2>1. CASE UNCHANGED requests
    BY <1>1, <2>1, AllStaySound DEF IInv
  <2>2. ASSUME NEW r \in Requests, NEW q \in Request,
               requests' = [requests EXCEPT ![r] = q], CallSound(q)'
        PROVE  /\ requests' \in [Requests -> Request]
               /\ (\A x \in Requests : CallSound(requests[x]))'
    BY <1>1, <2>2, OthersStaySound DEF IInv
  <2>3. QED  BY <2>1, <2>2
<1>3. TypeOK'
  BY <1>2 DEF TypeOK
<1>4. QED  BY <1>2, <1>3 DEF IInv

LEMMA CardinalityDifference ==
  ASSUME NEW T, IsFiniteSet(T), NEW U \in SUBSET T
  PROVE  /\ Cardinality(T \ U) = Cardinality(T) - Cardinality(U)
         /\ Cardinality(T \ U) \in Nat /\ Cardinality(T) \in Nat
         /\ Cardinality(T \ U) <= Cardinality(T)
<1>1. IsFiniteSet(U) /\ IsFiniteSet(T \ U) /\ Cardinality(T \ U) <= Cardinality(T)
  BY FS_Subset
<1>2. /\ Cardinality(U) \in Nat /\ Cardinality(T \ U) \in Nat
      /\ Cardinality(T) \in Nat
  BY <1>1, FS_CardinalityType
<1>3. (T \ U) \union U = T /\ (T \ U) \intersect U = {}
  OBVIOUS
<1>4. Cardinality(T) = Cardinality(T \ U) + Cardinality(U) - 0
  BY <1>1, <1>3, FS_Union, FS_EmptySet
<1>5. QED  BY <1>1, <1>2, <1>4

LEMMA RowsFinite ==
  /\ IsFiniteSet(PendingRows) /\ Cardinality(PendingRows) \in Nat
  /\ IsFiniteSet(ReadyRows) /\ Cardinality(ReadyRows) \in Nat
<1>1. PendingRows \subseteq Assets /\ ReadyRows \subseteq Assets
  BY DEF PendingRows, ReadyRows
<1>2. IsFiniteSet(PendingRows) /\ IsFiniteSet(ReadyRows)
  BY <1>1, AssetsAssumption, FS_Subset
<1>3. QED  BY <1>2, FS_CardinalityType

(* Claiming rows, the statement of cleanup, delete, reject and a failed     *)
(* read, in one.                                                            *)
LEMMA ClaimKeeps ==
  ASSUME IInv, NEW S \in SUBSET Assets, row' = Claim(S),
         asset_pending_count' = asset_pending_count - PendingIn(S),
         \A a \in S : Pending(a) \/ Ready(a) \/ Condemned(a),
         \A a \in S : Ready(a) => a \notin referenced \/ uploads[a] # 1,
         UNCHANGED <<asset_ready_count, referenced, world>>
  PROVE  /\ row' \in [Assets -> Row]
         /\ asset_pending_count' \in 0..PendingLimit
         /\ CountersExact'
         /\ (\A a \in Assets : RowSound(a))'
         /\ \A a \in Assets : Progress(a)
         /\ \A a \in S : Doomed(a)'
<1>0. UNCHANGED <<now, object, uploads, early>>
  BY DEF world
<1>1. \A a \in Assets : row[a] \in Row
  BY DEF IInv, TypeOK
<1>2. /\ row' \in [Assets -> Row]
      /\ \A a \in S : row'[a] = [row[a] EXCEPT !.claimed = TRUE]
      /\ \A a \in Assets \ S : row'[a] = row[a]
  BY <1>1 DEF Claim, Row
<1>3. \A a \in S : /\ row'[a].status = row[a].status
                   /\ row'[a].expires = row[a].expires
                   /\ row'[a].etag = row[a].etag
                   /\ row'[a].claimed = TRUE
  BY <1>1, <1>2 DEF Row
<1>4. \A a \in S : /\ row[a].status \in {"pending", "ready"}
                   /\ ~Pending(a)' /\ ~Ready(a)' /\ Condemned(a)' /\ Doomed(a)'
  BY <1>3 DEF Pending, Ready, Condemned, Doomed
<1>5. \A a \in Assets \ S : /\ Pending(a)' <=> Pending(a)
                            /\ Ready(a)' <=> Ready(a)
                            /\ Doomed(a)' <=> Doomed(a)
  BY <1>2 DEF Pending, Ready, Condemned, Doomed
<1>6. \A a \in Assets : row'[a].status = row[a].status
  BY <1>2, <1>3
<1>7. asset_pending_count' \in 0..PendingLimit /\ CountersExact'
  <2> DEFINE U == {a \in S : Pending(a)}
  <2>1. U \subseteq PendingRows
    BY DEF PendingRows
  <2>2. PendingRows' = PendingRows \ U
    BY <1>4, <1>5 DEF PendingRows
  <2>3. ReadyRows' = ReadyRows
    BY <1>6 DEF ReadyRows
  <2>4. /\ Cardinality(PendingRows \ U) = Cardinality(PendingRows) - Cardinality(U)
        /\ Cardinality(PendingRows \ U) \in Nat
        /\ Cardinality(PendingRows \ U) <= Cardinality(PendingRows)
    BY <2>1, RowsFinite, CardinalityDifference
  <2>5. /\ asset_pending_count = Cardinality(PendingRows)
        /\ asset_pending_count \in 0..PendingLimit
        /\ PendingIn(S) = Cardinality(U)
    BY DEF IInv, TypeOK, CountersExact, PendingIn
  <2>6. asset_pending_count' = Cardinality(PendingRows \ U)
    BY <2>4, <2>5
  <2>7. asset_pending_count' \in 0..PendingLimit
    BY <2>4, <2>5, <2>6, LimitsAssumption
  <2>8. asset_ready_count' = Cardinality(ReadyRows)'
    BY <2>3 DEF IInv, CountersExact
  <2>9. QED  BY <2>2, <2>6, <2>7, <2>8 DEF CountersExact
<1>8. (\A a \in Assets : RowSound(a))'
  <2> SUFFICES ASSUME NEW a \in Assets PROVE RowSound(a)'
    OBVIOUS
  <2>1. RowSound(a)
    BY DEF IInv
  <2>2. CASE a \notin S
    BY <1>0, <1>2, <1>5, <2>1, <2>2 DEF RowSound
  <2>3. CASE a \in S
    <3>1. a \in referenced => uploads[a] # 1
      BY <2>1, <2>3 DEF RowSound
    <3>2. QED  BY <1>0, <1>3, <1>4, <2>1, <2>3, <3>1 DEF RowSound
  <2>4. QED  BY <2>2, <2>3
<1>9. \A a \in Assets : Progress(a)
  <2> SUFFICES ASSUME NEW a \in Assets PROVE Progress(a)
    OBVIOUS
  <2>1. CASE a \notin S
    BY <1>0, <1>2, <1>5, <2>1 DEF Progress, Doomed
  <2>2. CASE a \in S
    BY <1>0, <1>3, <1>4, <2>2 DEF Progress
  <2>3. QED  BY <2>1, <2>2
<1>10. QED  BY <1>2, <1>4, <1>7, <1>8, <1>9

LEMMA ClaimStepKeeps ==
  ASSUME IInv, NEW S \in SUBSET Assets, row' = Claim(S),
         asset_pending_count' = asset_pending_count - PendingIn(S),
         \A a \in S : Pending(a) \/ Ready(a) \/ Condemned(a),
         \A a \in S : Ready(a) => a \notin referenced \/ uploads[a] # 1,
         UNCHANGED <<asset_ready_count, referenced, world>>,
         NEW r \in Requests, NEW q \in Request,
         requests' = [requests EXCEPT ![r] = q],
         (\A a \in S : Doomed(a)') /\ (\A a \in Assets : Progress(a))
           => CallSound(q)'
  PROVE  IInv'
<1>1. /\ row' \in [Assets -> Row]
      /\ asset_pending_count' \in 0..PendingLimit
      /\ CountersExact'
      /\ (\A a \in Assets : RowSound(a))'
      /\ \A a \in Assets : Progress(a)
      /\ \A a \in S : Doomed(a)'
  BY ClaimKeeps
<1>2. CallSound(q)'
  BY <1>1
<1>3. /\ object' \in [Assets -> Contents \union {None}]
      /\ asset_ready_count' \in 0..ReadyLimit
      /\ referenced' \subseteq Assets /\ uploads' \in [Assets -> 0..MaxUploads]
      /\ early' \subseteq Assets /\ now' \in 0..MaxTime /\ now <= now'
  BY LimitsAssumption DEF IInv, TypeOK, world
<1>4. QED  BY <1>1, <1>2, <1>3, StepKeeps

-----------------------------------------------------------------------------
(* Every action keeps the invariant. *)

LEMMA BeginsKeep ==
  ASSUME IInv, NEW r \in Requests, BeginAllocate(r) \/ BeginList(r)
  PROVE  IInv'
<1>1. UNCHANGED <<tables, world>>
  BY DEF BeginAllocate, BeginList
<1>2. \/ requests' = [requests EXCEPT ![r] =
                       [NoRequest EXCEPT !.op = "cleanup", !.then = "insert"]]
      \/ requests' = [requests EXCEPT ![r] =
                       [NoRequest EXCEPT !.op = "cleanup", !.then = "end"]]
  BY DEF BeginAllocate, BeginList, Begin
<1>3. PICK t \in {"end", "insert"} :
        requests' = [requests EXCEPT ![r] =
                      [NoRequest EXCEPT !.op = "cleanup", !.then = t]]
  BY <1>2
<1>4. QED  BY <1>1, <1>3, CleanupCallSound, OnlyCall

LEMMA BeginFinalizeKeeps ==
  ASSUME IInv, NEW r \in Requests, NEW a \in Assets, BeginFinalize(r, a)
  PROVE  IInv'
<1> DEFINE q == [NoRequest EXCEPT !.op = "cleanup", !.asset = a, !.then = "verify"]
<1>1. UNCHANGED <<tables, world>> /\ requests' = [requests EXCEPT ![r] = q]
      /\ row[a].status # "free"
  BY DEF BeginFinalize, Begin, Pending
<1>2. q \in Request
  BY DEF NoRequest, Request
<1>3. q.op = "cleanup" /\ q.asset = a /\ q.rows = {}
  BY DEF NoRequest
<1>4. CallSound(q)
  BY <1>1, <1>3 DEF CallSound, SweepSound, FinalizeSound, ServeSound
<1>5. QED  BY <1>1, <1>2, <1>4, OnlyCall

LEMMA BeginServeKeeps ==
  ASSUME IInv, NEW r \in Requests, NEW a \in Assets, BeginServe(r, a)
  PROVE  IInv'
<1> DEFINE q == [NoRequest EXCEPT !.op = "get", !.asset = a, !.etag = row[a].etag]
<1>1. /\ UNCHANGED <<tables, world>> /\ requests' = [requests EXCEPT ![r] = q]
      /\ row[a].status = "ready"
  BY DEF BeginServe, Begin, Ready
<1>2. row[a].etag \in Valid /\ row[a].etag \in Contents \union {None}
      /\ uploads[a] # 0
  BY <1>1 DEF IInv, RowSound, TypeOK, Row
<1>3. PICK p \in Request : p = q
  <2>1. q \in Request
    BY <1>2 DEF NoRequest, Request
  <2>2. QED  BY <2>1
<1>4. /\ p.op = "get" /\ p.asset = a /\ p.etag = row[a].etag /\ p.rows = {}
      /\ p.then = "end"
  BY <1>3 DEF NoRequest
<1>5. CallSound(p)
  BY <1>1, <1>2, <1>4 DEF CallSound, SweepSound, FinalizeSound, ServeSound
<1>6. QED  BY <1>1, <1>3, <1>5, OnlyCall

LEMMA AbortKeeps ==
  ASSUME IInv, NEW r \in Requests, Abort(r) \/ Served(r)
  PROVE  IInv'
<1>1. UNCHANGED <<tables, world>>
  BY DEF Abort, Served, tables, world
<1>2. PICK q \in Request : q = NoRequest /\ CallSound(q)
  BY NoRequestSound
<1>3. requests' = [requests EXCEPT ![r] = q]
  BY <1>2 DEF Abort, Served, Continue
<1>4. QED  BY <1>1, <1>2, <1>3, OnlyCall

LEMMA VerifyKeeps ==
  ASSUME IInv, NEW r \in Requests, Verify(r)
  PROVE  IInv'
<1>1. PICK q \in Request : q = requests[r] /\ CallSound(q)
  BY DEF IInv, TypeOK
<1>2. q.asset \in Assets /\ row[q.asset].status # "free" /\ q.op = "verify"
  BY <1>1 DEF Verify, CallSound, FinalizeSound
<1>3. object[q.asset] \in Valid /\ object[q.asset] # None
  BY <1>1, ContentsAssumption DEF Verify
<1>4. uploads[q.asset] # 0
  BY <1>2, <1>3 DEF IInv, RowSound
<1>5. [q EXCEPT !.op = "recheck", !.etag = object[q.asset]] \in Request
  BY <1>3, ContentsAssumption DEF Request
<1>6. PICK p \in Request : p = [q EXCEPT !.op = "recheck", !.etag = object[q.asset]]
  BY <1>5
<1>7. /\ p.op = "recheck" /\ p.asset = q.asset /\ p.etag = object[q.asset]
      /\ p.rows = q.rows
  BY <1>6 DEF Request
<1>8. CallSound(p)
  BY <1>1, <1>2, <1>3, <1>4, <1>7 DEF CallSound, SweepSound, FinalizeSound, ServeSound
<1>9. UNCHANGED <<tables, world>> /\ requests' = [requests EXCEPT ![r] = p]
  BY <1>1, <1>6 DEF Verify, Continue
<1>10. QED  BY <1>8, <1>9, OnlyCall

LEMMA RecheckKeeps ==
  ASSUME IInv, NEW r \in Requests, Recheck(r)
  PROVE  IInv'
<1>1. PICK q \in Request : q = requests[r] /\ CallSound(q)
  BY DEF IInv, TypeOK
<1>2. [q EXCEPT !.op = "admit", !.time = now] \in Request
  <2>1. now \in Nat
    BY LimitsAssumption DEF IInv, TypeOK
  <2>2. QED  BY <2>1 DEF Request
<1>3. PICK p \in Request : p = [q EXCEPT !.op = "admit", !.time = now]
  BY <1>2
<1>4. /\ p.op = "admit" /\ p.asset = q.asset /\ p.etag = q.etag
      /\ p.rows = q.rows /\ q.op = "recheck"
  BY <1>1, <1>3 DEF Request, Recheck
<1>5. CallSound(p)
  BY <1>1, <1>4 DEF CallSound, SweepSound, FinalizeSound, ServeSound
<1>6. UNCHANGED <<tables, world>> /\ requests' = [requests EXCEPT ![r] = p]
  BY <1>1, <1>3 DEF Recheck, Continue
<1>7. QED  BY <1>5, <1>6, OnlyCall

LEMMA ToRejectKeeps ==
  ASSUME IInv, NEW r \in Requests, VerificationFails(r) \/ AdmissionRefused(r)
  PROVE  IInv'
<1>1. PICK q \in Request : q = requests[r] /\ CallSound(q)
  BY DEF IInv, TypeOK
<1>2. PICK p \in Request : p = [q EXCEPT !.op = "reject", !.etag = None]
  <2>1. [q EXCEPT !.op = "reject", !.etag = None] \in Request
    BY DEF Request
  <2>2. QED  BY <2>1
<1>3. p.op = "reject" /\ p.asset = q.asset /\ p.rows = q.rows
  BY <1>2 DEF Request
<1>4. q.op \in {"verify", "recheck", "admit"}
  BY <1>1 DEF VerificationFails, AdmissionRefused
<1>5. CallSound(p)
  BY <1>1, <1>3, <1>4 DEF CallSound, SweepSound, FinalizeSound, ServeSound
<1>6. UNCHANGED <<tables, world>> /\ requests' = [requests EXCEPT ![r] = p]
  BY <1>1, <1>2 DEF VerificationFails, AdmissionRefused, Continue
<1>7. QED  BY <1>5, <1>6, OnlyCall

LEMMA NotServedKeeps ==
  ASSUME IInv, NEW r \in Requests, NotServed(r)
  PROVE  IInv'
<1>1. PICK q \in Request : q = requests[r] /\ CallSound(q)
  BY DEF IInv, TypeOK
<1>2. PICK p \in Request : p = [q EXCEPT !.op = "fail"]
  <2>1. [q EXCEPT !.op = "fail"] \in Request
    BY DEF Request
  <2>2. QED  BY <2>1
<1>3. /\ p.op = "fail" /\ p.asset = q.asset /\ p.etag = q.etag
      /\ p.rows = q.rows /\ p.then = q.then /\ q.op = "get"
      /\ object[q.asset] # q.etag
  BY <1>1, <1>2 DEF Request, NotServed
<1>4. q.asset \in Assets
  BY <1>1, <1>3 DEF CallSound, ServeSound
<1>5. uploads[q.asset] = 1 /\ Ready(q.asset) => row[q.asset].etag # q.etag
  BY <1>3, <1>4 DEF IInv, RowSound
<1>6. CallSound(p)
  BY <1>1, <1>3, <1>5 DEF CallSound, SweepSound, FinalizeSound, ServeSound
<1>7. UNCHANGED <<tables, world>> /\ requests' = [requests EXCEPT ![r] = p]
  BY <1>1, <1>2 DEF NotServed, Continue
<1>8. QED  BY <1>6, <1>7, OnlyCall

LEMMA RowStaysKeeps ==
  ASSUME IInv, NEW r \in Requests, RowStays(r)
  PROVE  IInv'
<1>1. PICK q \in Request : q = requests[r] /\ CallSound(q)
  BY DEF IInv, TypeOK
<1>2. q.rows \subseteq Assets /\ q.op = "remove"
  BY <1>1 DEF Request, RowStays
<1>3. PICK p \in Request : p = Sweeping(q, q.rows)
  BY <1>2, SweepingTyped DEF IInv
<1>4. CallSound(Sweeping(q, q.rows))
  BY <1>1, <1>2, SweepingSound DEF CallSound, SweepSound
<1>5. CallSound(p)
  BY <1>3, <1>4
<1>6. UNCHANGED <<tables, world>> /\ requests' = [requests EXCEPT ![r] = p]
  BY <1>1, <1>3 DEF RowStays, Continue
<1>7. QED  BY <1>5, <1>6, OnlyCall

(* Actions that claim rows. *)

LEMMA CleanupKeeps ==
  ASSUME IInv, NEW r \in Requests, Cleanup(r)
  PROVE  IInv'
<1>1. PICK q \in Request : q = requests[r] /\ CallSound(q)
  BY DEF IInv, TypeOK
<1>2. PICK S \in SUBSET Due, swept \in {TRUE, FALSE} :
        /\ row' = Claim(S)
        /\ asset_pending_count' = asset_pending_count - PendingIn(S)
        /\ Continue(r, Sweeping(q, IF swept THEN S ELSE {}))
  BY <1>1 DEF Cleanup
<1> DEFINE T == IF swept THEN S ELSE {}
<1>3. S \in SUBSET Assets /\ T \in SUBSET S
  BY DEF Due
<1>4. PICK p \in Request : p = Sweeping(q, T)
  BY <1>3, SweepingTyped DEF IInv
<1>5. /\ \A a \in S : Pending(a) \/ Ready(a) \/ Condemned(a)
      /\ \A a \in S : Ready(a) => a \notin referenced \/ uploads[a] # 1
  BY DEF Due, Pending, Ready, Condemned
<1>6. ASSUME \A a \in S : Doomed(a)', \A a \in Assets : Progress(a)
      PROVE  CallSound(p)'
  <2>1. now' \in Nat /\ now <= now'
    BY LimitsAssumption DEF Cleanup, world, IInv, TypeOK
  <2>2. FinalizeSound(q)'
    BY <1>1, <1>6, <2>1, CallStaysSound DEF CallSound, IInv
  <2>3. QED  BY <1>3, <1>4, <1>6, <2>2, SweepingSoundNext
<1>7. UNCHANGED <<asset_ready_count, referenced, world>>
  BY DEF Cleanup
<1>8. requests' = [requests EXCEPT ![r] = p]
  BY <1>2, <1>4 DEF Continue
<1>9. QED  BY <1>2, <1>3, <1>5, <1>6, <1>7, <1>8, ClaimStepKeeps

LEMMA PendingInOne ==
  ASSUME NEW a
  PROVE  PendingIn({a}) = IF Pending(a) THEN 1 ELSE 0
<1>1. CASE Pending(a)
  <2>1. {b \in {a} : Pending(b)} = {a}
    BY <1>1
  <2>2. QED  BY <1>1, <2>1, FS_Singleton DEF PendingIn
<1>2. CASE ~Pending(a)
  <2>1. {b \in {a} : Pending(b)} = {}
    BY <1>2
  <2>2. QED  BY <1>2, <2>1, FS_EmptySet DEF PendingIn
<1>3. QED  BY <1>1, <1>2

LEMMA DeleteOwnedKeeps ==
  ASSUME IInv, NEW r \in Requests, NEW a \in Assets, DeleteOwned(r, a)
  PROVE  IInv'
<1>1. CASE Condemned(a) /\ UNCHANGED <<row, asset_pending_count>>
            /\ Begin(r, [NoRequest EXCEPT !.op = "sweep", !.rows = {a},
                                          !.etag = None])
  <2>1. PICK p \in Request :
          /\ p = [NoRequest EXCEPT !.op = "sweep", !.rows = {a}, !.etag = None]
          /\ CallSound(p)
    BY <1>1, SingleSweepSound DEF Doomed
  <2>2. UNCHANGED <<tables, world>> /\ requests' = [requests EXCEPT ![r] = p]
    BY <1>1, <2>1 DEF DeleteOwned, Begin, tables
  <2>3. QED  BY <2>1, <2>2, OnlyCall
<1>2. CASE /\ Pending(a) \/ Ready(a)
           /\ a \notin referenced
           /\ row' = Claim({a})
           /\ asset_pending_count' = asset_pending_count - PendingIn({a})
           /\ Begin(r, [NoRequest EXCEPT !.op = "sweep", !.rows = {a},
                                         !.etag = row[a].etag])
  <2>1. row[a].etag \in Contents \union {None}
    BY DEF IInv, TypeOK, Row
  <2>2. PICK p \in Request :
          p = [NoRequest EXCEPT !.op = "sweep", !.rows = {a}, !.etag = row[a].etag]
    BY <2>1, SingleSweepSound
  <2>3. p.op = "sweep" /\ p.rows = {a} /\ p.then = "end"
    BY <2>2 DEF NoRequest
  <2>4. (\A b \in {a} : Doomed(b)') => CallSound(p)'
    BY <2>3, SweepSoundNext
  <2>5. /\ UNCHANGED <<asset_ready_count, referenced, world>>
        /\ requests' = [requests EXCEPT ![r] = p]
    BY <1>2, <2>2 DEF DeleteOwned, Begin
  <2>6. /\ \A b \in {a} : Pending(b) \/ Ready(b) \/ Condemned(b)
        /\ \A b \in {a} : Ready(b) => b \notin referenced \/ uploads[b] # 1
        /\ {a} \in SUBSET Assets
    BY <1>2
  <2>7. QED  BY <1>2, <2>4, <2>5, <2>6, ClaimStepKeeps
<1>3. QED  BY <1>1, <1>2 DEF DeleteOwned

LEMMA RejectKeeps ==
  ASSUME IInv, NEW r \in Requests, Reject(r)
  PROVE  IInv'
<1>1. PICK a \in Assets : a = requests[r].asset
  BY DEF IInv, CallSound, FinalizeSound, Reject
<1>2. CASE Pending(a)
  <2>1. PICK p \in Request :
          p = [NoRequest EXCEPT !.op = "sweep", !.rows = {a}, !.etag = None]
    BY SingleSweepSound
  <2>3. p.op = "sweep" /\ p.rows = {a} /\ p.then = "end"
    BY <2>1 DEF NoRequest
  <2>4. (\A b \in {a} : Doomed(b)') => CallSound(p)'
    BY <2>3, SweepSoundNext
  <2>5. /\ row' = Claim({a})
        /\ asset_pending_count' = asset_pending_count - PendingIn({a})
        /\ requests' = [requests EXCEPT ![r] = p]
        /\ UNCHANGED <<asset_ready_count, referenced, world>>
    BY <1>1, <1>2, <2>1, PendingInOne DEF Reject, CanReject, Continue
  <2>6. /\ \A b \in {a} : Pending(b) \/ Ready(b) \/ Condemned(b)
        /\ \A b \in {a} : Ready(b) => b \notin referenced \/ uploads[b] # 1
        /\ {a} \in SUBSET Assets
    BY <1>2 DEF Pending, Ready
  <2>7. QED  BY <2>4, <2>5, <2>6, ClaimStepKeeps
<1>3. CASE ~Pending(a)
  <2>1. PICK p \in Request : p = NoRequest /\ CallSound(p)
    BY NoRequestSound
  <2>2. UNCHANGED <<tables, world>> /\ requests' = [requests EXCEPT ![r] = p]
    BY <1>1, <1>3, <2>1 DEF Reject, CanReject, Continue, tables
  <2>3. QED  BY <2>1, <2>2, OnlyCall
<1>4. QED  BY <1>2, <1>3

LEMMA FailServingKeeps ==
  ASSUME IInv, NEW r \in Requests, FailServing(r)
  PROVE  IInv'
<1>1. PICK q \in Request : q = requests[r] /\ CallSound(q)
  BY DEF IInv, TypeOK
<1>2. PICK a \in Assets : a = q.asset
  BY <1>1 DEF FailServing, CallSound, ServeSound
<1>3. PICK p \in Request : p = NoRequest /\ CallSound(p)
  BY NoRequestSound
<1>4. /\ requests' = [requests EXCEPT ![r] = p]
      /\ UNCHANGED <<asset_pending_count, asset_ready_count, referenced, world>>
  BY <1>3 DEF FailServing, Continue
<1>5. CASE Ready(a) /\ row[a].etag = q.etag
  <2>1. uploads[a] # 1
    BY <1>1, <1>2, <1>5 DEF FailServing, CallSound, ServeSound
  <2>2. PendingIn({a}) = 0 /\ asset_pending_count \in Nat
    BY <1>5, PendingInOne, LimitsAssumption DEF Pending, Ready, IInv, TypeOK
  <2>3. row' = Claim({a})
    BY <1>1, <1>2, <1>5 DEF FailServing
  <2>4. asset_pending_count' = asset_pending_count - PendingIn({a})
    BY <1>4, <2>2
  <2>5. CallSound(p)'
    BY <1>3, NoRequestSoundNext
  <2>6. /\ \A b \in {a} : Pending(b) \/ Ready(b) \/ Condemned(b)
        /\ \A b \in {a} : Ready(b) => b \notin referenced \/ uploads[b] # 1
        /\ {a} \in SUBSET Assets
    BY <1>5, <2>1
  <2>7. UNCHANGED <<asset_ready_count, referenced, world>>
    BY <1>4
  <2>8. QED  BY <1>4, <2>3, <2>4, <2>5, <2>6, <2>7, ClaimStepKeeps
<1>6. CASE ~(Ready(a) /\ row[a].etag = q.etag)
  <2>1. UNCHANGED <<tables, world>>
    BY <1>1, <1>2, <1>4, <1>6 DEF FailServing, tables
  <2>2. QED  BY <1>3, <1>4, <2>1, OnlyCall
<1>7. QED  BY <1>5, <1>6

(* Actions that write one row. *)

LEMMA InsertKeeps ==
  ASSUME IInv, NEW r \in Requests, Insert(r)
  PROVE  IInv'
<1>1. PICK q \in Request : q = requests[r]
  BY DEF IInv, TypeOK
<1>2. PICK a \in Assets :
        /\ row[a].status = "free"
        /\ row' = [row EXCEPT ![a] = [FreeRow EXCEPT !.status = "pending",
                                        !.expires = q.time + Lifetime]]
  BY <1>1 DEF Insert
<1>3. /\ asset_pending_count < PendingLimit
      /\ asset_pending_count' = asset_pending_count + 1
      /\ requests' = [requests EXCEPT ![r] = NoRequest]
      /\ UNCHANGED <<asset_ready_count, referenced, now, object, uploads, early>>
  BY DEF Insert, CanAllocate, Continue, world
<1>4. q.time + Lifetime \in Nat
  BY LimitsAssumption DEF Request
<1>5. [FreeRow EXCEPT !.status = "pending", !.expires = q.time + Lifetime] \in Row
  BY <1>4 DEF FreeRow, Row
<1>6. row' \in [Assets -> Row]
  BY <1>2, <1>5 DEF IInv, TypeOK
<1>7. /\ row'[a].status = "pending" /\ row'[a].claimed = FALSE
      /\ \A b \in Assets \ {a} : row'[b] = row[b]
  BY <1>2 DEF FreeRow, IInv, TypeOK
<1>8. /\ Pending(a)' /\ ~Ready(a)' /\ ~Pending(a) /\ ~Ready(a) /\ ~Condemned(a)
      /\ \A b \in Assets \ {a} : /\ Pending(b)' <=> Pending(b)
                                 /\ Ready(b)' <=> Ready(b)
                                 /\ Doomed(b)' <=> Doomed(b)
  BY <1>2, <1>7 DEF Pending, Ready, Condemned, Doomed
<1>9. asset_pending_count' \in 0..PendingLimit /\ CountersExact'
  <2>1. PendingRows' = PendingRows \union {a} /\ a \notin PendingRows
    BY <1>8 DEF PendingRows
  <2>2. ReadyRows' = ReadyRows
    BY <1>2, <1>7 DEF ReadyRows
  <2>3. Cardinality(PendingRows \union {a}) = Cardinality(PendingRows) + 1
    BY <2>1, RowsFinite, FS_AddElement
  <2>4. QED
    BY <1>3, <2>1, <2>2, <2>3, LimitsAssumption DEF IInv, TypeOK, CountersExact
<1>10. (\A b \in Assets : RowSound(b))'
  <2> SUFFICES ASSUME NEW b \in Assets PROVE RowSound(b)'
    OBVIOUS
  <2>1. RowSound(b)
    BY DEF IInv
  <2>2. CASE b = a
    BY <1>2, <1>3, <1>7, <1>8, <2>1, <2>2 DEF RowSound
  <2>3. CASE b # a
    BY <1>3, <1>7, <1>8, <2>1, <2>3 DEF RowSound
  <2>4. QED  BY <2>2, <2>3
<1>11. \A b \in Assets : Progress(b)
  <2> SUFFICES ASSUME NEW b \in Assets PROVE Progress(b)
    OBVIOUS
  <2>1. CASE b = a
    BY <1>2, <1>3, <1>7, <1>8, <2>1 DEF Progress
  <2>2. CASE b # a
    BY <1>3, <1>7, <1>8, <2>2 DEF Progress, Doomed
  <2>3. QED  BY <2>1, <2>2
<1>12. NoRequest \in Request /\ CallSound(NoRequest)'
  BY NoRequestSound, NoRequestSoundNext
<1>13. now <= now'
  BY <1>3, LimitsAssumption DEF IInv, TypeOK
<1>14. QED
  BY <1>3, <1>6, <1>9, <1>10, <1>11, <1>12, <1>13, StepKeeps DEF IInv, TypeOK

LEMMA AdmitKeeps ==
  ASSUME IInv, NEW r \in Requests, Admit(r)
  PROVE  IInv'
<1>1. PICK q \in Request : q = requests[r] /\ CallSound(q)
  BY DEF IInv, TypeOK
<1>2. PICK a \in Assets : a = q.asset
  BY <1>1 DEF Admit, CallSound, FinalizeSound
<1>3. /\ Pending(a)
      /\ asset_ready_count < ReadyLimit
      /\ row' = [row EXCEPT ![a].status = "ready", ![a].etag = q.etag]
      /\ asset_pending_count' = asset_pending_count - 1
      /\ asset_ready_count' = asset_ready_count + 1
      /\ requests' = [requests EXCEPT ![r] = NoRequest]
      /\ UNCHANGED <<referenced, now, object, uploads, early>>
  BY <1>1, <1>2 DEF Admit, CanAdmit, Continue, world
<1>4. /\ q.etag \in Valid /\ uploads[a] # 0
      /\ uploads[a] = 1 => object[a] = q.etag
  BY <1>1, <1>2, <1>3 DEF Admit, CallSound, FinalizeSound
<1>5. row[a] \in Row /\ row[a].status = "pending"
  BY <1>3 DEF IInv, TypeOK, Pending
<1>6. /\ row' \in [Assets -> Row]
      /\ row'[a] = [row[a] EXCEPT !.status = "ready", !.etag = q.etag]
      /\ \A b \in Assets \ {a} : row'[b] = row[b]
  BY <1>3, <1>4, <1>5, ContentsAssumption DEF IInv, TypeOK, Row
<1>7. /\ row'[a].status = "ready" /\ row'[a].etag = q.etag
      /\ row'[a].expires = row[a].expires
      /\ row'[a].claimed = row[a].claimed
  BY <1>5, <1>6 DEF Row
<1>8. /\ ~Pending(a)' /\ Ready(a)' /\ ~Condemned(a)
      /\ \A b \in Assets \ {a} : /\ Pending(b)' <=> Pending(b)
                                 /\ Ready(b)' <=> Ready(b)
                                 /\ Doomed(b)' <=> Doomed(b)
  BY <1>3, <1>6, <1>7 DEF Pending, Ready, Condemned, Doomed
<1>9. /\ asset_pending_count' \in 0..PendingLimit
      /\ asset_ready_count' \in 0..ReadyLimit
      /\ CountersExact'
  <2>1. PendingRows' = PendingRows \ {a} /\ a \in PendingRows
    BY <1>3, <1>8 DEF PendingRows
  <2>2. ReadyRows' = ReadyRows \union {a} /\ a \notin ReadyRows
    BY <1>5, <1>6, <1>7 DEF ReadyRows
  <2>3. /\ Cardinality(PendingRows \ {a}) = Cardinality(PendingRows) - 1
        /\ Cardinality(PendingRows \ {a}) \in Nat
    BY <2>1, RowsFinite, FS_RemoveElement, FS_CardinalityType
  <2>4. Cardinality(ReadyRows \union {a}) = Cardinality(ReadyRows) + 1
    BY <2>2, RowsFinite, FS_AddElement
  <2>5. QED
    BY <1>3, <2>1, <2>2, <2>3, <2>4, RowsFinite, LimitsAssumption
    DEF IInv, TypeOK, CountersExact
<1>10. (\A b \in Assets : RowSound(b))'
  <2> SUFFICES ASSUME NEW b \in Assets PROVE RowSound(b)'
    OBVIOUS
  <2>1. RowSound(b)
    BY DEF IInv
  <2>2. CASE b = a
    BY <1>3, <1>4, <1>7, <1>8, <2>1, <2>2 DEF RowSound
  <2>3. CASE b # a
    BY <1>3, <1>6, <1>8, <2>1, <2>3 DEF RowSound
  <2>4. QED  BY <2>2, <2>3
<1>11. \A b \in Assets : Progress(b)
  <2> SUFFICES ASSUME NEW b \in Assets PROVE Progress(b)
    OBVIOUS
  <2>1. CASE b = a
    BY <1>3, <1>5, <1>7, <1>8, <2>1 DEF Progress
  <2>2. CASE b # a
    BY <1>3, <1>6, <1>8, <2>2 DEF Progress, Doomed
  <2>3. QED  BY <2>1, <2>2
<1>12. NoRequest \in Request /\ CallSound(NoRequest)'
  BY NoRequestSound, NoRequestSoundNext
<1>13. now <= now'
  BY <1>3, LimitsAssumption DEF IInv, TypeOK
<1>14. QED
  BY <1>3, <1>6, <1>9, <1>10, <1>11, <1>12, <1>13, StepKeeps DEF IInv, TypeOK

LEMMA RemoveRowKeeps ==
  ASSUME IInv, NEW r \in Requests, RemoveRow(r)
  PROVE  IInv'
<1>1. PICK q \in Request : q = requests[r] /\ CallSound(q)
  BY DEF IInv, TypeOK
<1>2. PICK a \in Assets : a = q.victim
  BY <1>1 DEF RemoveRow, CallSound, SweepSound
<1>3. /\ Condemned(a) /\ row[a].expires <= now /\ q.op = "remove"
      /\ row' = [row EXCEPT ![a].status = "gone"]
      /\ asset_ready_count' = asset_ready_count - ReadyFreed(a)
      /\ requests' = [requests EXCEPT ![r] = Sweeping(q, q.rows)]
      /\ UNCHANGED <<asset_pending_count, referenced, now, object, uploads, early>>
  BY <1>1, <1>2 DEF RemoveRow, CanRemove, Continue, world
<1>4. a \in early \/ object[a] = None
  BY <1>1, <1>2, <1>3 DEF CallSound, SweepSound
<1>5. row[a] \in Row /\ row[a].status \in {"pending", "ready"} /\ row[a].claimed
  BY <1>3 DEF IInv, TypeOK, Condemned
<1>6. /\ row' \in [Assets -> Row]
      /\ row'[a] = [row[a] EXCEPT !.status = "gone"]
      /\ \A b \in Assets \ {a} : row'[b] = row[b]
  BY <1>3, <1>5 DEF IInv, TypeOK, Row
<1>7. row'[a].status = "gone" /\ row'[a].expires = row[a].expires
  BY <1>5, <1>6 DEF Row
<1>8. /\ ~Pending(a)' /\ ~Ready(a)' /\ ~Pending(a) /\ ~Ready(a) /\ Doomed(a)'
      /\ \A b \in Assets \ {a} : /\ Pending(b)' <=> Pending(b)
                                 /\ Ready(b)' <=> Ready(b)
                                 /\ Doomed(b)' <=> Doomed(b)
  BY <1>5, <1>6, <1>7 DEF Pending, Ready, Condemned, Doomed
<1>9. asset_ready_count' \in 0..ReadyLimit /\ CountersExact'
  <2>1. PendingRows' = PendingRows
    BY <1>8 DEF PendingRows
  <2>2. ReadyRows' = ReadyRows \ {a} /\ (a \in ReadyRows <=> row[a].status = "ready")
    BY <1>6, <1>7 DEF ReadyRows
  <2>3. /\ Cardinality(ReadyRows \ {a})
             = IF a \in ReadyRows THEN Cardinality(ReadyRows) - 1
                                  ELSE Cardinality(ReadyRows)
        /\ Cardinality(ReadyRows \ {a}) \in Nat
    BY RowsFinite, FS_RemoveElement, FS_CardinalityType
  <2>4. Cardinality(ReadyRows \ {a}) = Cardinality(ReadyRows) - ReadyFreed(a)
    BY <2>2, <2>3, RowsFinite DEF ReadyFreed
  <2>5. ReadyFreed(a) \in {0, 1}
    BY DEF ReadyFreed
  <2>6. QED
    BY <1>3, <2>1, <2>2, <2>3, <2>4, <2>5, RowsFinite, LimitsAssumption
    DEF IInv, TypeOK, CountersExact
<1>10. (\A b \in Assets : RowSound(b))'
  <2> SUFFICES ASSUME NEW b \in Assets PROVE RowSound(b)'
    OBVIOUS
  <2>1. RowSound(b)
    BY DEF IInv
  <2>2. CASE b = a
    BY <1>3, <1>4, <1>7, <1>8, <2>1, <2>2 DEF RowSound
  <2>3. CASE b # a
    BY <1>3, <1>6, <1>8, <2>1, <2>3 DEF RowSound
  <2>4. QED  BY <2>2, <2>3
<1>11. \A b \in Assets : Progress(b)
  <2> SUFFICES ASSUME NEW b \in Assets PROVE Progress(b)
    OBVIOUS
  <2>1. CASE b = a
    BY <1>3, <1>7, <1>8, <2>1 DEF Progress
  <2>2. CASE b # a
    BY <1>3, <1>6, <1>8, <2>2 DEF Progress, Doomed
  <2>3. QED  BY <2>1, <2>2
<1>12. now \in Nat /\ now <= now'
  BY <1>3, LimitsAssumption DEF IInv, TypeOK
<1>13. PICK p \in Request : p = Sweeping(q, q.rows) /\ CallSound(p)'
  <2>1. q.rows \in SUBSET Assets
    BY DEF Request
  <2>2. PICK p \in Request : p = Sweeping(q, q.rows)
    BY <2>1, SweepingTyped DEF IInv
  <2>3. CallSound(Sweeping(q, q.rows))
    BY <1>1, <1>3, <2>1, SweepingSound DEF CallSound, SweepSound
  <2>4. CallSound(p)
    BY <2>2, <2>3
  <2>5. CallSound(p)'
    BY <1>3, <1>11, <1>12, <2>4, CallStaysSound DEF IInv
  <2>6. QED  BY <2>2, <2>5
<1>14. requests' = [requests EXCEPT ![r] = p]
  BY <1>3, <1>13
<1>15. QED
  BY <1>3, <1>6, <1>9, <1>10, <1>11, <1>12, <1>13, <1>14, StepKeeps
  DEF IInv, TypeOK

(* Actions on objects. *)

Erased(a) ==
  /\ object' = [object EXCEPT ![a] = None]
  /\ early' = IF now < row[a].expires THEN early \union {a} ELSE early
  /\ UNCHANGED <<tables, now, uploads>>

LEMMA ErasureKeeps ==
  ASSUME IInv, NEW a \in Assets, Doomed(a), Erased(a)
  PROVE  /\ object' \in [Assets -> Contents \union {None}]
         /\ early' \subseteq Assets
         /\ (\A b \in Assets : RowSound(b))'
         /\ \A b \in Assets : Progress(b)
         /\ a \in early' \/ (object'[a] = None /\ row'[a].expires <= now')
<1>1. UNCHANGED <<row, asset_pending_count, asset_ready_count, referenced, now,
                  uploads>>
  BY DEF Erased, tables
<1>2. /\ object' \in [Assets -> Contents \union {None}] /\ object'[a] = None
      /\ \A b \in Assets \ {a} : object'[b] = object[b]
  BY DEF Erased, IInv, TypeOK
<1>3. early \subseteq early' /\ early' \subseteq Assets
  BY DEF Erased, IInv, TypeOK
<1>4. ~Pending(a) /\ ~Ready(a)
  BY DEF Doomed, Condemned, Pending, Ready
<1>5. \A b \in Assets : /\ Pending(b)' <=> Pending(b)
                        /\ Ready(b)' <=> Ready(b)
                        /\ Doomed(b)' <=> Doomed(b)
  BY <1>1 DEF Pending, Ready, Condemned, Doomed
<1>6. (\A b \in Assets : RowSound(b))'
  <2> SUFFICES ASSUME NEW b \in Assets PROVE RowSound(b)'
    OBVIOUS
  <2>1. RowSound(b)
    BY DEF IInv
  <2>2. CASE b = a
    BY <1>1, <1>2, <1>3, <1>4, <1>5, <2>1, <2>2 DEF RowSound
  <2>3. CASE b # a
    BY <1>1, <1>2, <1>3, <1>5, <2>1, <2>3 DEF RowSound
  <2>4. QED  BY <2>2, <2>3
<1>7. \A b \in Assets : Progress(b)
  BY <1>1, <1>2, <1>3, <1>4, <1>5 DEF Progress, Doomed
<1>8. a \in early' \/ row[a].expires <= now
  BY LimitsAssumption DEF Erased, IInv, TypeOK, Row
<1>9. QED  BY <1>1, <1>2, <1>3, <1>6, <1>7, <1>8

LEMMA EraseObjectKeeps ==
  ASSUME IInv, NEW r \in Requests, NEW a \in Assets, EraseObject(r, a)
  PROVE  IInv'
<1>1. PICK q \in Request : q = requests[r] /\ CallSound(q)
  BY DEF IInv, TypeOK
<1>2. Doomed(a) /\ q.op = "sweep"
  BY <1>1 DEF EraseObject, CallSound, SweepSound
<1>3. Erased(a)
  BY DEF EraseObject, Erased
<1>4. PICK p \in Request :
        p = [q EXCEPT !.op = "remove", !.rows = @ \ {a}, !.victim = a]
  <2>1. [q EXCEPT !.op = "remove", !.rows = @ \ {a}, !.victim = a] \in Request
    BY DEF Request
  <2>2. QED  BY <2>1
<1>5. /\ p.op = "remove" /\ p.rows = q.rows \ {a} /\ p.victim = a
      /\ p.asset = q.asset /\ p.then = q.then
  BY <1>4 DEF Request
<1>6. UNCHANGED <<row, asset_pending_count, asset_ready_count, referenced, now,
                  uploads>>
  BY <1>3 DEF Erased, tables
<1>7. /\ \A b \in q.rows : Doomed(b)'
      /\ Doomed(a)'
  BY <1>1, <1>2, <1>6 DEF CallSound, SweepSound, Doomed, Condemned
<1>8. CallSound(p)'
  <2>1. SweepSound(p)'
    BY <1>2, <1>3, <1>5, <1>7, ErasureKeeps DEF SweepSound
  <2>2. FinalizeSound(p)'
    BY <1>1, <1>5, <1>6 DEF CallSound, FinalizeSound
  <2>3. ServeSound(p)'
    BY <1>5 DEF ServeSound
  <2>4. QED  BY <2>1, <2>2, <2>3 DEF CallSound
<1>9. requests' = [requests EXCEPT ![r] = p]
  BY <1>1, <1>4 DEF EraseObject, Continue
<1>10. CountersExact' /\ now <= now'
  BY <1>6, LimitsAssumption
  DEF IInv, TypeOK, CountersExact, PendingRows, ReadyRows, Pending
<1>11. QED
  BY <1>2, <1>3, <1>6, <1>8, <1>9, <1>10, ErasureKeeps, StepKeeps DEF IInv, TypeOK

LEMMA EraseFailsKeeps ==
  ASSUME IInv, NEW r \in Requests, NEW a \in Assets, EraseFails(r, a)
  PROVE  IInv'
<1>1. PICK q \in Request : q = requests[r] /\ CallSound(q)
  BY DEF IInv, TypeOK
<1>2. Doomed(a) /\ q.op = "sweep"
  BY <1>1 DEF EraseFails, CallSound, SweepSound
<1>3. q.rows \ {a} \in SUBSET Assets /\ \A b \in q.rows \ {a} : Doomed(b)
  BY <1>1 DEF Request, CallSound, SweepSound
<1>4. PICK p \in Request : p = Sweeping(q, q.rows \ {a})
  BY <1>3, SweepingTyped DEF IInv
<1>5. CallSound(Sweeping(q, q.rows \ {a}))
  BY <1>1, <1>2, <1>3, SweepingSound DEF CallSound
<1>6. CallSound(p)
  BY <1>4, <1>5
<1>7. requests' = [requests EXCEPT ![r] = p]
  BY <1>1, <1>4 DEF EraseFails, Continue
<1>8. CASE UNCHANGED <<object, early>>
  <2>1. UNCHANGED <<tables, world>>
    BY <1>8 DEF EraseFails, world
  <2>2. QED  BY <1>6, <1>7, <2>1, OnlyCall
<1>9. CASE Erased(a)
  <2>1. UNCHANGED <<row, asset_pending_count, asset_ready_count, referenced,
                    now, uploads>>
    BY <1>9 DEF Erased, tables
  <2>2. CountersExact' /\ now <= now' /\ now \in Nat
    BY <2>1, LimitsAssumption
    DEF IInv, TypeOK, CountersExact, PendingRows, ReadyRows, Pending
  <2>3. CallSound(p)'
    BY <1>2, <1>6, <1>9, <2>1, <2>2, ErasureKeeps, CallStaysSound DEF IInv
  <2>4. QED
    BY <1>2, <1>7, <1>9, <2>1, <2>2, <2>3, ErasureKeeps, StepKeeps
    DEF IInv, TypeOK
<1>10. QED  BY <1>8, <1>9 DEF EraseFails, Erased

LEMMA UploadKeeps ==
  ASSUME IInv, NEW a \in Assets, NEW c \in Contents, Upload(a, c)
  PROVE  IInv'
<1>1. /\ row[a].status # "free" /\ now < row[a].expires
      /\ uploads[a] < MaxUploads /\ uploads' = [uploads EXCEPT ![a] = @ + 1]
      /\ object' = [object EXCEPT ![a] = c]
      /\ UNCHANGED <<row, asset_pending_count, asset_ready_count, referenced,
                     requests, now, early>>
  BY DEF Upload, tables
<1>2. uploads[a] \in 0..MaxUploads /\ now \in Nat /\ row[a].expires \in Nat
  BY LimitsAssumption DEF IInv, TypeOK, Row
<1>3. uploads[a] + 1 \in 0..MaxUploads
  BY <1>1, <1>2, LimitsAssumption
<1>4. /\ uploads' \in [Assets -> 0..MaxUploads]
      /\ object' \in [Assets -> Contents \union {None}]
      /\ uploads'[a] = uploads[a] + 1
      /\ \A b \in Assets \ {a} : uploads'[b] = uploads[b] /\ object'[b] = object[b]
  BY <1>1, <1>3 DEF IInv, TypeOK
<1>5. uploads'[a] # 0 /\ (uploads'[a] = 1 => uploads[a] = 0) /\ ~(row[a].expires <= now)
  BY <1>1, <1>2, <1>4
<1>6. \A b \in Assets : /\ Pending(b)' <=> Pending(b)
                        /\ Ready(b)' <=> Ready(b)
                        /\ Doomed(b)' <=> Doomed(b)
  BY <1>1 DEF Pending, Ready, Condemned, Doomed
<1>7. (\A b \in Assets : RowSound(b))'
  <2> SUFFICES ASSUME NEW b \in Assets PROVE RowSound(b)'
    OBVIOUS
  <2>1. RowSound(b)
    BY DEF IInv
  <2>2. CASE b = a
    <3>1. Ready(a) => row[a].status = "ready"
      BY DEF Ready
    <3>2. uploads[a] = 0 => row[a].status # "ready" /\ a \notin referenced
      BY <2>1, <2>2 DEF RowSound
    <3>3. row[a].status # "gone"
      BY <1>5, <2>1, <2>2 DEF RowSound
    <3>4. row[a].status = "ready" => row[a].etag \in Valid
      BY <2>1, <2>2 DEF RowSound
    <3>5. QED
      BY <1>1, <1>5, <1>6, <2>2, <3>1, <3>2, <3>3, <3>4 DEF RowSound
  <2>3. CASE b # a
    BY <1>1, <1>4, <1>6, <2>1, <2>3 DEF RowSound
  <2>4. QED  BY <2>2, <2>3
<1>8. \A b \in Assets : Progress(b)
  BY <1>1, <1>4, <1>6 DEF Progress, Doomed
<1>9. CountersExact' /\ now <= now'
  BY <1>1, <1>2 DEF IInv, CountersExact, PendingRows, ReadyRows, Pending
<1>10. QED  BY <1>1, <1>4, <1>7, <1>8, <1>9, StepKeeps DEF IInv, TypeOK

LEMMA ReferKeeps ==
  ASSUME IInv, NEW a \in Assets, Refer(a) \/ Unrefer(a)
  PROVE  IInv'
<1>1. UNCHANGED <<row, asset_pending_count, asset_ready_count, requests, now,
                  object, uploads, early>>
  BY DEF Refer, Unrefer, world
<1>2. /\ referenced' \subseteq Assets
      /\ \A b \in Assets : b \in referenced' => b \in referenced \/ Ready(b)
  BY DEF Refer, Unrefer, IInv, TypeOK
<1>3. \A b \in Assets : /\ Pending(b)' <=> Pending(b)
                        /\ Ready(b)' <=> Ready(b)
                        /\ Doomed(b)' <=> Doomed(b)
  BY <1>1 DEF Pending, Ready, Condemned, Doomed
<1>4. (\A b \in Assets : RowSound(b))'
  <2> SUFFICES ASSUME NEW b \in Assets PROVE RowSound(b)'
    OBVIOUS
  <2>1. RowSound(b) /\ (Ready(b) => row[b].status = "ready")
    BY DEF IInv, Ready
  <2>2. QED  BY <1>1, <1>2, <1>3, <2>1 DEF RowSound
<1>5. \A b \in Assets : Progress(b)
  BY <1>1, <1>3 DEF Progress, Doomed
<1>6. CountersExact' /\ now <= now'
  BY <1>1, LimitsAssumption
  DEF IInv, TypeOK, CountersExact, PendingRows, ReadyRows, Pending
<1>7. QED  BY <1>1, <1>2, <1>4, <1>5, <1>6, StepKeeps DEF IInv, TypeOK

LEMMA TickKeeps ==
  ASSUME IInv, Tick \/ UNCHANGED vars
  PROVE  IInv'
<1>1. /\ UNCHANGED <<row, asset_pending_count, asset_ready_count, referenced,
                     requests, object, uploads, early>>
      /\ now' \in 0..MaxTime /\ now <= now'
  BY LimitsAssumption DEF Tick, vars, tables, IInv, TypeOK
<1>2. \A b \in Assets : /\ Pending(b)' <=> Pending(b)
                        /\ Ready(b)' <=> Ready(b)
                        /\ Doomed(b)' <=> Doomed(b)
  BY <1>1 DEF Pending, Ready, Condemned, Doomed
<1>3. \A b \in Assets : row[b].expires <= now => row[b].expires <= now'
  BY <1>1, LimitsAssumption DEF IInv, TypeOK, Row
<1>4. (\A b \in Assets : RowSound(b))'
  BY <1>1, <1>2, <1>3 DEF IInv, RowSound
<1>5. \A b \in Assets : Progress(b)
  BY <1>1, <1>2 DEF Progress, Doomed
<1>6. CountersExact'
  BY <1>1 DEF IInv, CountersExact, PendingRows, ReadyRows, Pending
<1>7. QED  BY <1>1, <1>4, <1>5, <1>6, StepKeeps DEF IInv, TypeOK

-----------------------------------------------------------------------------
(* The invariant. *)

LEMMA InvInit == ASSUME Init PROVE IInv
<1>1. NoRequest \in Request /\ CallSound(NoRequest) /\ FreeRow \in Row
  BY NoRequestSound DEF FreeRow, Row
<1>2. TypeOK
  BY <1>1, LimitsAssumption DEF Init, TypeOK
<1>3. \A a \in Assets : ~Pending(a) /\ row[a].status = "free"
  BY DEF Init, Pending, FreeRow
<1>4. CountersExact
  <2>1. PendingRows = {} /\ ReadyRows = {}
    BY <1>3 DEF PendingRows, ReadyRows
  <2>2. QED  BY <2>1, FS_EmptySet DEF Init, CountersExact
<1>5. \A a \in Assets : RowSound(a)
  BY <1>3 DEF Init, RowSound, Ready
<1>6. \A r \in Requests : CallSound(requests[r])
  <2> SUFFICES ASSUME NEW r \in Requests PROVE CallSound(requests[r])
    OBVIOUS
  <2>1. requests[r] = NoRequest
    BY DEF Init
  <2>2. QED  BY <1>1, <2>1
<1>7. QED  BY <1>2, <1>4, <1>5, <1>6 DEF IInv

LEMMA InvStep == ASSUME IInv, [Next]_vars PROVE IInv'
<1>1. ASSUME NEW r \in Requests, Call(r)
      PROVE  IInv'
  BY <1>1, BeginsKeep, BeginFinalizeKeeps, BeginServeKeeps, DeleteOwnedKeeps
  DEF Call
<1>2. ASSUME NEW r \in Requests, Statement(r)
      PROVE  IInv'
  <2>1. CASE Cleanup(r) \/ Insert(r)
    BY <2>1, CleanupKeeps, InsertKeeps
  <2>2. CASE Verify(r) \/ Recheck(r) \/ VerificationFails(r)
    BY <2>2, VerifyKeeps, RecheckKeeps, ToRejectKeeps
  <2>3. CASE Admit(r) \/ AdmissionRefused(r) \/ Reject(r)
    BY <2>3, AdmitKeeps, ToRejectKeeps, RejectKeeps
  <2>4. CASE \E a \in Assets : EraseObject(r, a) \/ EraseFails(r, a)
    BY <2>4, EraseObjectKeeps, EraseFailsKeeps
  <2>5. CASE RemoveRow(r) \/ RowStays(r)
    BY <2>5, RemoveRowKeeps, RowStaysKeeps
  <2>6. CASE Served(r) \/ NotServed(r) \/ FailServing(r) \/ Abort(r)
    BY <2>6, AbortKeeps, NotServedKeeps, FailServingKeeps
  <2>7. QED  BY <1>2, <2>1, <2>2, <2>3, <2>4, <2>5, <2>6 DEF Statement
<1>3. ASSUME NEW a \in Assets, Refer(a) \/ Unrefer(a)
      PROVE  IInv'
  BY <1>3, ReferKeeps
<1>4. ASSUME NEW a \in Assets, NEW c \in Contents, Upload(a, c)
      PROVE  IInv'
  BY <1>4, UploadKeeps
<1>5. CASE Tick \/ UNCHANGED vars
  BY <1>5, TickKeeps
<1>6. QED  BY <1>1, <1>2, <1>3, <1>4, <1>5 DEF Next

\* The invariant holds after any statements and requests, and any failure between them.
THEOREM AssetInvariant == Spec => []IInv
BY InvInit, InvStep, PTL DEF Spec

(* The counters never leave the ranges the table's CHECKs give them. *)
THEOREM AssetTypes == Spec => []TypeOK
BY AssetInvariant, PTL DEF IInv

(* Every statement leaves both counters equal to the rows they count. *)
THEOREM CountersStayExact == Spec => []CountersExact
BY AssetInvariant, PTL DEF IInv

(* Nothing is served that was not verified. *)
THEOREM ServesVerified == Spec => []OnlyVerifiedIsServed
<1>1. IInv => OnlyVerifiedIsServed
  <2> SUFFICES ASSUME IInv PROVE OnlyVerifiedIsServed
    OBVIOUS
  <2>1. \A a \in Assets : Ready(a) => row[a].etag \in Valid
    BY DEF IInv, RowSound, Ready
  <2>2. \A r \in Requests : requests[r].op = "get" => requests[r].etag \in Valid
    BY DEF IInv, CallSound, ServeSound
  <2>3. QED  BY <2>1, <2>2 DEF OnlyVerifiedIsServed
<1>2. QED  BY <1>1, AssetInvariant, PTL

(* An honest upload is not lost while it is wanted. *)
THEOREM HonestUploadsStay == Spec => []UploadedOnceStaysIntact
<1>1. IInv => UploadedOnceStaysIntact
  BY DEF IInv, RowSound, UploadedOnceStaysIntact
<1>2. QED  BY <1>1, AssetInvariant, PTL

(* An object without a row comes from one history alone. *)
THEOREM ObjectsHaveRows == Spec => []ObjectsAccounted
<1>1. IInv => ObjectsAccounted
  BY DEF IInv, RowSound, ObjectsAccounted
<1>2. QED  BY <1>1, AssetInvariant, PTL

-----------------------------------------------------------------------------
(* The rows implement the abstract shelf. *)

LEMMA ShelfInit == ASSUME Init PROVE Shelf!Init
BY DEF Init, Shelf!Init, PendingRows, ReadyRows, CondemnedRows, GoneRows,
       Pending, Condemned, FreeRow

LEMMA ShelfStutter == ASSUME UNCHANGED row PROVE UNCHANGED Shelf!vars
BY DEF Shelf!vars, PendingRows, ReadyRows, CondemnedRows, GoneRows,
       Pending, Condemned

LEMMA ShelfClaim ==
  ASSUME IInv, NEW S \in SUBSET Assets, row' = Claim(S),
         \A a \in S : Pending(a) \/ Ready(a) \/ Condemned(a)
  PROVE  Shelf!Next
<1>1. /\ \A a \in S : row'[a] = [row[a] EXCEPT !.claimed = TRUE]
      /\ \A a \in Assets \ S : row'[a] = row[a]
      /\ \A a \in Assets : row[a] \in Row
  BY DEF Claim, IInv, TypeOK
<1>2. \A a \in S : row'[a].status = row[a].status /\ row'[a].claimed = TRUE
  BY <1>1 DEF Row
<1>3. PICK U \in SUBSET Assets : U = {a \in S : Pending(a) \/ Ready(a)}
  OBVIOUS
<1>4. U \subseteq (PendingRows \union ReadyRows) \ CondemnedRows
  BY <1>3 DEF PendingRows, ReadyRows, CondemnedRows, Pending, Ready, Condemned
<1>5. \A a \in S : /\ row[a].status \in {"pending", "ready"}
                   /\ ~Pending(a)' /\ Condemned(a)'
  BY <1>2 DEF Pending, Ready, Condemned
<1>6. \A a \in Assets \ S : /\ Pending(a)' <=> Pending(a)
                            /\ Condemned(a)' <=> Condemned(a)
  BY <1>1 DEF Pending, Condemned
<1>7. \A a \in Assets : row'[a].status = row[a].status
  BY <1>1, <1>2
<1>8. PendingRows' = PendingRows \ U
  BY <1>3, <1>5, <1>6 DEF PendingRows
<1>9. CondemnedRows' = CondemnedRows \union U
  BY <1>3, <1>5, <1>6 DEF CondemnedRows
<1>10. ReadyRows' = ReadyRows /\ GoneRows' = GoneRows
  BY <1>7 DEF ReadyRows, GoneRows
<1>11. Shelf!Condemn(U)
  BY <1>4, <1>8, <1>9, <1>10 DEF Shelf!Condemn
<1>12. QED  BY <1>11 DEF Shelf!Next

LEMMA ShelfAllocate ==
  ASSUME IInv, NEW r \in Requests, Insert(r)
  PROVE  Shelf!Next
<1>1. PICK a \in Assets :
        /\ row[a].status = "free"
        /\ row' = [row EXCEPT ![a] = [FreeRow EXCEPT !.status = "pending",
                                        !.expires = requests[r].time + Lifetime]]
  BY DEF Insert
<1>2. /\ row'[a].status = "pending" /\ row'[a].claimed = FALSE
      /\ \A b \in Assets \ {a} : row'[b] = row[b]
  BY <1>1 DEF FreeRow, IInv, TypeOK
<1>3. /\ a \notin PendingRows \union ReadyRows \union CondemnedRows \union GoneRows
      /\ Pending(a)' /\ ~Condemned(a)'
      /\ \A b \in Assets \ {a} : /\ Pending(b)' <=> Pending(b)
                                 /\ Condemned(b)' <=> Condemned(b)
  BY <1>1, <1>2
  DEF PendingRows, ReadyRows, CondemnedRows, GoneRows, Pending, Condemned
<1>4. PendingRows' = PendingRows \union {a}
  BY <1>3 DEF PendingRows
<1>5. CondemnedRows' = CondemnedRows
  BY <1>3 DEF CondemnedRows
<1>6. ReadyRows' = ReadyRows /\ GoneRows' = GoneRows
  BY <1>1, <1>2 DEF ReadyRows, GoneRows
<1>7. Cardinality(PendingRows) < PendingLimit
  BY DEF Insert, CanAllocate, IInv, CountersExact
<1>8. Shelf!Allocate(a)
  BY <1>3, <1>4, <1>5, <1>6, <1>7 DEF Shelf!Allocate, Shelf!Cardinality, Cardinality
<1>9. QED  BY <1>8 DEF Shelf!Next

LEMMA ShelfAdmit ==
  ASSUME IInv, NEW r \in Requests, Admit(r)
  PROVE  Shelf!Next
<1>1. PICK a \in Assets : a = requests[r].asset
  BY DEF IInv, CallSound, FinalizeSound, Admit
<1>2. Pending(a) /\ asset_ready_count < ReadyLimit
  BY <1>1 DEF Admit, CanAdmit
<1>3. /\ row'[a] = [row[a] EXCEPT !.status = "ready", !.etag = requests[r].etag]
      /\ \A b \in Assets \ {a} : row'[b] = row[b]
      /\ row[a] \in Row
  BY <1>1 DEF Admit, IInv, TypeOK
<1>4. row'[a].status = "ready" /\ row'[a].claimed = row[a].claimed
      /\ row[a].status = "pending"
  BY <1>2, <1>3 DEF Row, Pending
<1>5. /\ ~Pending(a)' /\ ~Condemned(a)' /\ ~Condemned(a)
      /\ \A b \in Assets \ {a} : /\ Pending(b)' <=> Pending(b)
                                 /\ Condemned(b)' <=> Condemned(b)
  BY <1>2, <1>3, <1>4 DEF Pending, Condemned
<1>6. PendingRows' = PendingRows \ {a} /\ a \in PendingRows
  BY <1>2, <1>5 DEF PendingRows
<1>7. CondemnedRows' = CondemnedRows
  BY <1>5 DEF CondemnedRows
<1>8. ReadyRows' = ReadyRows \union {a} /\ GoneRows' = GoneRows
  BY <1>3, <1>4 DEF ReadyRows, GoneRows
<1>9. Cardinality(ReadyRows) < ReadyLimit
  BY <1>2 DEF IInv, CountersExact
<1>10. Shelf!Admit(a)
  BY <1>6, <1>7, <1>8, <1>9 DEF Shelf!Admit, Shelf!Cardinality, Cardinality
<1>11. QED  BY <1>10 DEF Shelf!Next

LEMMA ShelfRemove ==
  ASSUME IInv, NEW r \in Requests, RemoveRow(r)
  PROVE  Shelf!Next
<1>1. PICK a \in Assets : a = requests[r].victim
  BY DEF IInv, CallSound, SweepSound, RemoveRow
<1>2. Condemned(a) /\ row' = [row EXCEPT ![a].status = "gone"]
  BY <1>1 DEF RemoveRow, CanRemove
<1>3. /\ row'[a].status = "gone" /\ row[a] \in Row
      /\ \A b \in Assets \ {a} : row'[b] = row[b]
  BY <1>2 DEF IInv, TypeOK, Row
<1>4. /\ ~Pending(a)' /\ ~Pending(a) /\ ~Condemned(a)'
      /\ \A b \in Assets \ {a} : /\ Pending(b)' <=> Pending(b)
                                 /\ Condemned(b)' <=> Condemned(b)
  BY <1>2, <1>3 DEF Pending, Condemned
<1>5. PendingRows' = PendingRows
  BY <1>4 DEF PendingRows
<1>6. CondemnedRows' = CondemnedRows \ {a} /\ a \in CondemnedRows
  BY <1>2, <1>4 DEF CondemnedRows
<1>7. ReadyRows' = ReadyRows \ {a} /\ GoneRows' = GoneRows \union {a}
  BY <1>3 DEF ReadyRows, GoneRows
<1>8. Shelf!Remove(a)
  BY <1>5, <1>6, <1>7 DEF Shelf!Remove
<1>9. QED  BY <1>8 DEF Shelf!Next

LEMMA ShelfStep ==
  ASSUME IInv, [Next]_vars
  PROVE  [Shelf!Next]_Shelf!vars
<1>1. ASSUME NEW r \in Requests, Call(r)
      PROVE  Shelf!Next \/ UNCHANGED row
  <2>1. CASE BeginAllocate(r) \/ BeginList(r)
             \/ \E a \in Assets : BeginFinalize(r, a) \/ BeginServe(r, a)
    BY <2>1 DEF BeginAllocate, BeginList, BeginFinalize, BeginServe, tables
  <2>2. ASSUME NEW a \in Assets, DeleteOwned(r, a), row' # row
        PROVE  Shelf!Next
    <3>1. row' = Claim({a}) /\ (Pending(a) \/ Ready(a))
      BY <2>2 DEF DeleteOwned
    <3>2. QED  BY <3>1, ShelfClaim
  <2>3. QED  BY <1>1, <2>1, <2>2 DEF Call
<1>2. ASSUME NEW r \in Requests, Statement(r)
      PROVE  Shelf!Next \/ UNCHANGED row
  <2>1. CASE Cleanup(r)
    <3>1. PICK S \in SUBSET Due : row' = Claim(S)
      BY <2>1 DEF Cleanup
    <3>2. S \in SUBSET Assets /\ \A a \in S : Pending(a) \/ Condemned(a)
      BY DEF Due
    <3>3. QED  BY <3>1, <3>2, ShelfClaim
  <2>2. CASE Insert(r) \/ Admit(r) \/ RemoveRow(r)
    BY <2>2, ShelfAllocate, ShelfAdmit, ShelfRemove
  <2>3. CASE Reject(r)
    <3>1. PICK a \in Assets : a = requests[r].asset
      BY <2>3 DEF IInv, CallSound, FinalizeSound, Reject
    <3>2. CASE Pending(a)
      <4>1. row' = Claim({a})
        BY <2>3, <3>1, <3>2 DEF Reject, CanReject
      <4>2. QED  BY <3>2, <4>1, ShelfClaim
    <3>3. CASE ~Pending(a)
      BY <2>3, <3>1, <3>3 DEF Reject, CanReject
    <3>4. QED  BY <3>2, <3>3
  <2>4. CASE FailServing(r)
    <3>1. PICK a \in Assets : a = requests[r].asset
      BY <2>4 DEF IInv, CallSound, ServeSound, FailServing
    <3>2. CASE Ready(a) /\ row' = Claim({a})
      BY <3>2, ShelfClaim
    <3>3. QED  BY <2>4, <3>1, <3>2 DEF FailServing
  <2>5. CASE Verify(r) \/ Recheck(r) \/ VerificationFails(r) \/ AdmissionRefused(r)
    BY <2>5 DEF Verify, Recheck, VerificationFails, AdmissionRefused, tables
  <2>6. CASE \/ \E a \in Assets : EraseObject(r, a) \/ EraseFails(r, a)
             \/ RowStays(r) \/ Served(r) \/ NotServed(r) \/ Abort(r)
    BY <2>6 DEF EraseObject, EraseFails, RowStays, Served, NotServed, Abort, tables
  <2>7. QED  BY <1>2, <2>1, <2>2, <2>3, <2>4, <2>5, <2>6 DEF Statement
<1>3. ASSUME \/ \E a \in Assets : Refer(a) \/ Unrefer(a)
             \/ \E a \in Assets, c \in Contents : Upload(a, c)
             \/ Tick \/ UNCHANGED vars
      PROVE  UNCHANGED row
  BY <1>3 DEF Refer, Unrefer, Upload, Tick, tables, vars
<1>4. Shelf!Next \/ UNCHANGED row
  BY <1>1, <1>2, <1>3 DEF Next
<1>5. QED  BY <1>4, ShelfStutter

(* In whatever order the statements come, an asset is admitted once, within  *)
(* the limit, and a condemned one can only be removed.                       *)
THEOREM ShelfImplemented == Spec => ImplementsShelf
<1>1. Init => Shelf!Init  BY ShelfInit
<1>2. IInv /\ [Next]_vars => [Shelf!Next]_Shelf!vars
  BY ShelfStep
<1>3. QED  BY <1>1, <1>2, AssetInvariant, PTL
             DEF Spec, ImplementsShelf, Shelf!Spec
=============================================================================
