--------------------------- MODULE MemberPageProofs ---------------------------
(***************************************************************************)
(* Proofs about MemberPage for all values of its constants: any documents, *)
(* accounts, assets and number of concurrent calls.  The inductive         *)
(* invariant grows in three layers: TypeOK, then what holds under any      *)
(* rollout, then what needs a drained rollout.                             *)
(***************************************************************************)
EXTENDS MemberPage, TLAPS

(***************************************************************************)
(* Every action changes calls by one of three assignments, and each of     *)
(* them leaves the other calls alone.                                      *)
(***************************************************************************)
LEMMA ReplyTyped ==
  ASSUME NEW c \in Calls, calls \in [Calls -> Call],
         NEW outcome \in Outcomes, Reply(c, outcome)
  PROVE  /\ calls' \in [Calls -> Call]
         /\ calls'[c].phase = "replied"
         /\ \A x \in Calls \ {c} : calls'[x] = calls[x]
BY DEF Reply, Call, IdleCall

LEMMA RememberTyped ==
  ASSUME NEW c \in Calls, calls \in [Calls -> Call],
         publications \in Seq(1..MaxToken),
         NEW doc \in Docs \cup {NoDoc}, Remember(c, doc)
  PROVE  /\ calls' \in [Calls -> Call]
         /\ calls'[c].phase = "read" /\ calls'[c].doc = doc
         /\ calls'[c].op = calls[c].op /\ calls'[c].rev = calls[c].rev
         /\ calls'[c].want = calls[c].want
         /\ \A x \in Calls \ {c} : calls'[x] = calls[x]
<1>1. Len(publications) \in Nat  OBVIOUS
<1>2. QED  BY <1>1 DEF Remember, Call

LEMMA SendTyped ==
  ASSUME NEW c \in Calls, calls \in [Calls -> Call],
         NEW op \in V2Ops \cup LegacyOps,
         NEW who \in Accounts \cup {Nobody}, NEW rev \in Nat, NEW token \in Nat,
         NEW doc \in Docs \cup {NoDoc}, NEW want \in Docs \cup {NoDoc},
         NEW past \in Nat, Send(c, op, who, rev, token, doc, want, past)
  PROVE  /\ calls' \in [Calls -> Call]
         /\ calls'[c].phase = "sent" /\ calls'[c].op = op
         /\ calls'[c].rev = rev /\ calls'[c].want = want
         /\ calls'[c].doc = doc
         /\ \A x \in Calls \ {c} : calls'[x] = calls[x]
BY DEF Send, EditorOpen, Call, V2Ops, LegacyOps, Outcomes

(* A refused call changes nothing but itself and, at most, an attempt count. *)
LEMMA RefuseTyped ==
  ASSUME NEW c \in Calls, calls \in [Calls -> Call],
         NEW outcome \in Outcomes, Refuse(c, outcome)
  PROVE  /\ calls' \in [Calls -> Call]
         /\ calls'[c].phase = "replied"
         /\ \A x \in Calls \ {c} : calls'[x] = calls[x]
         /\ UNCHANGED <<draft_doc, draft_rev, published_doc, is_published,
              published_at, publications, unpublished_at, moderation_hold, owner,
              asset, cohort>>
<1>1. Reply(c, outcome)  BY DEF Refuse
<1>2. QED  BY <1>1, ReplyTyped DEF Refuse, row

(* The outcome operators name outcomes. *)
LEMMA OutcomesTyped ==
  ASSUME NEW c \in Calls
  PROVE  /\ AutosaveOutcome(c) \in Outcomes
         /\ PublishReadOutcome(c) \in Outcomes
         /\ PublishOutcome(c) \in Outcomes
         /\ UnpublishOutcome(c) \in Outcomes
         /\ ResetReadOutcome(c) \in Outcomes
         /\ ResetOutcome(c) \in Outcomes
BY DEF AutosaveOutcome, PublishReadOutcome, PublishOutcome, UnpublishOutcome,
       ResetReadOutcome, ResetOutcome, Outcomes

(* An attempt is counted only within the limit. *)
LEMMA AttemptTyped ==
  ASSUME TypeOK, NEW a \in Limited, WithinRate(a), CountAttempt(a)
  PROVE  /\ attempt_count' \in [Limited -> Nat]
         /\ \A b \in Limited : attempt_count'[b] <= RateLimit[b]
BY PageAssumption DEF TypeOK, WithinRate, CountAttempt, Limited

(* A publication's instant is one that none had before. *)
LEMMA PublishAtTyped ==
  ASSUME publications \in Seq(1..MaxToken), NEW c, PublishAt(c)
  PROVE  /\ published_at' \in 1..MaxToken /\ publications' \in Seq(1..MaxToken)
         /\ Len(publications') = Len(publications) + 1
         /\ publications'[Len(publications) + 1] = published_at'
         /\ \A k \in 1..Len(publications) :
              publications'[k] = publications[k] /\ publications[k] # published_at'
<1>1. PICK t \in Instants(c) : published_at' = t /\ publications' = Append(publications, t)
  BY DEF PublishAt
<1>2. t \in 1..MaxToken /\ \A k \in 1..Len(publications) : publications[k] # t
  BY DEF Instants
<1>3. QED  BY <1>1, <1>2

-----------------------------------------------------------------------------
(* Type correctness. *)

(* Only the call that moves has a new document to answer for. *)
LEMMA CallsTyped ==
  ASSUME TypeOK, NEW c \in Calls, calls' \in [Calls -> Call],
         \A x \in Calls \ {c} : calls'[x] = calls[x],
         CarriesDoc(calls'[c]) => calls'[c].doc \in Docs
  PROVE  \A x \in Calls : CarriesDoc(calls'[x]) => calls'[x].doc \in Docs
BY DEF TypeOK

LEMMA TypeInit == ASSUME Init PROVE TypeOK
<1>1. calls \in [Calls -> Call]
  BY DEF Init, Call, IdleCall, Outcomes
<1>2. \A c \in Calls : ~CarriesDoc(calls[c])
  BY DEF Init, IdleCall, CarriesDoc
<1>3. attempt_count \in [Limited -> Nat]
      /\ \A a \in Limited : attempt_count[a] <= RateLimit[a]
  BY PageAssumption DEF Init, Limited
<1>4. draft_doc \in Docs /\ published_at \in 0..MaxToken /\ draft_rev \in 0..MaxRev
  BY PageAssumption DEF Init
<1>6. publications \in Seq(1..MaxToken)
  <2>1. CASE published_at = 0  BY <2>1 DEF Init
  <2>2. CASE published_at # 0
    <3>1. published_at \in 1..MaxToken  BY <1>4, <2>2
    <3>2. QED  BY <2>2, <3>1 DEF Init
  <2>3. QED  BY <2>1, <2>2
<1>5. asset \in [Assets -> {"absent", "ready", "claimed", "failed"}]
  BY DEF Init
<1>7. QED  BY <1>1, <1>2, <1>3, <1>4, <1>5, <1>6 DEF Init, TypeOK

LEMMA TypeSend ==
  ASSUME TypeOK, NEW c \in Calls, SendSome(c)
  PROVE  TypeOK'
<1>0. /\ calls \in [Calls -> Call] /\ draft_doc \in Docs
      /\ 0..draft_rev \subseteq Nat /\ 0 \in Nat
      /\ \A rev \in 0..draft_rev : Seen(rev) \in Docs \cup {NoDoc}
      /\ \A k \in 0..Len(publications) : k \in Nat /\ TokenOf(k) \in Nat
  <2>1. publications \in Seq(1..MaxToken)  BY DEF TypeOK
  <2>2. ASSUME NEW k \in 0..Len(publications)
        PROVE  k \in Nat /\ TokenOf(k) \in Nat
    <3>1. Len(publications) \in Nat /\ k \in Nat  BY <2>1
    <3>2. CASE k = 0  BY <3>1, <3>2 DEF TokenOf
    <3>3. CASE k # 0
      <4>1. k \in 1..Len(publications)  BY <3>1, <3>3
      <4>2. PICK S : S = 1..MaxToken  OBVIOUS
      <4>3. publications \in Seq(S)  BY <2>1, <4>2
      <4>4. publications[k] \in S  BY <4>1, <4>3
      <4>5. QED  BY <3>1, <3>3, <4>2, <4>4, PageAssumption DEF TokenOf
    <3>4. QED  BY <3>2, <3>3
  <2>3. QED  BY <2>2 DEF TypeOK, Seen
<1>1. PICK op \in V2Ops \cup LegacyOps, who \in Accounts \cup {Nobody},
           rev \in Nat, token \in Nat, doc \in Docs \cup {NoDoc},
           want \in Docs \cup {NoDoc}, past \in Nat :
        /\ Send(c, op, who, rev, token, doc, want, past)
        /\ op = "autosave" => doc \in Docs
  <2>1. CASE SendAutosave(c)
    BY <1>0, <2>1 DEF SendAutosave, V2Ops
  <2>2. CASE SendPublish(c)
    <3>1. PICK who \in Accounts, rev \in 0..draft_rev :
            Send(c, "publish", who, rev, 0, NoDoc, Seen(rev), 0)
      BY <2>2 DEF SendPublish
    <3>2. "publish" \in V2Ops /\ "publish" # "autosave"  BY DEF V2Ops
    <3>3. QED  BY <1>0, <3>1, <3>2
  <2>3. CASE SendUnpublish(c)
    <3>1. PICK who \in Accounts, k \in 0..Len(publications) :
            Send(c, "unpublish", who, 0, TokenOf(k), NoDoc, NoDoc, k)
      BY <2>3 DEF SendUnpublish
    <3>2. "unpublish" \in V2Ops /\ "unpublish" # "autosave"  BY DEF V2Ops
    <3>3. QED  BY <1>0, <3>1, <3>2
  <2>4. CASE SendReset(c)
    <3>1. PICK who \in Accounts, rev \in 0..draft_rev :
            Send(c, "reset", who, rev, 0, NoDoc, Seen(rev), 0)
      BY <2>4 DEF SendReset
    <3>2. "reset" \in V2Ops /\ "reset" # "autosave"  BY DEF V2Ops
    <3>3. QED  BY <1>0, <3>1, <3>2
  <2>5. CASE SendLegacyUpdate(c)
    <3>1. PICK who \in Accounts :
            Send(c, "legacy-update", who, 0, 0, NoDoc, NoDoc, 0)
      BY <2>5 DEF SendLegacyUpdate
    <3>2. "legacy-update" \in LegacyOps /\ "legacy-update" # "autosave"
      BY DEF LegacyOps
    <3>3. QED  BY <1>0, <3>1, <3>2
  <2>6. CASE SendLegacyPublication(c)
    BY <1>0, <2>6 DEF SendLegacyPublication, LegacyOps
  <2>7. QED  BY <2>1, <2>2, <2>3, <2>4, <2>5, <2>6 DEF SendSome
<1>2. /\ calls' \in [Calls -> Call]
      /\ calls'[c].phase = "sent" /\ calls'[c].op = op /\ calls'[c].doc = doc
      /\ \A x \in Calls \ {c} : calls'[x] = calls[x]
  BY <1>0, <1>1, SendTyped
<1>3. CarriesDoc(calls'[c]) => calls'[c].doc \in Docs
  BY <1>1, <1>2 DEF CarriesDoc
<1>4. UNCHANGED <<row, attempt_count, asset, cohort>>
  BY <1>1 DEF Send
<1>5. QED  BY <1>2, <1>3, <1>4, CallsTyped DEF TypeOK, row

(* A refused call, and one that is answered without writing a document. *)
LEMMA TypeRefuse ==
  ASSUME TypeOK, NEW c \in Calls, NEW outcome \in Outcomes, Refuse(c, outcome),
         attempt_count' \in [Limited -> Nat],
         \A b \in Limited : attempt_count'[b] <= RateLimit[b]
  PROVE  TypeOK'
<1>1. /\ calls' \in [Calls -> Call]
      /\ calls'[c].phase = "replied"
      /\ \A x \in Calls \ {c} : calls'[x] = calls[x]
      /\ UNCHANGED <<draft_doc, draft_rev, published_doc, is_published,
           published_at, publications, unpublished_at, moderation_hold, owner,
           asset, cohort>>
  BY RefuseTyped DEF TypeOK
<1>2. \A x \in Calls : CarriesDoc(calls'[x]) => calls'[x].doc \in Docs
  BY <1>1, CallsTyped DEF CarriesDoc
<1>3. QED  BY <1>1, <1>2 DEF TypeOK

LEMMA TypeAnswered ==
  ASSUME TypeOK, NEW c \in Calls,
         NEW outcome \in Outcomes, Reply(c, outcome)
  PROVE  /\ calls' \in [Calls -> Call]
         /\ \A x \in Calls : CarriesDoc(calls'[x]) => calls'[x].doc \in Docs
<1>1. /\ calls' \in [Calls -> Call]
      /\ calls'[c].phase = "replied"
      /\ \A x \in Calls \ {c} : calls'[x] = calls[x]
  BY ReplyTyped DEF TypeOK
<1>2. QED  BY <1>1, CallsTyped DEF CarriesDoc

LEMMA TypeRemember ==
  ASSUME TypeOK, NEW c \in Calls, NEW doc \in Docs, Remember(c, doc)
  PROVE  /\ calls' \in [Calls -> Call]
         /\ \A x \in Calls : CarriesDoc(calls'[x]) => calls'[x].doc \in Docs
<1>1. /\ calls' \in [Calls -> Call]
      /\ calls'[c].doc = doc
      /\ \A x \in Calls \ {c} : calls'[x] = calls[x]
  BY RememberTyped DEF TypeOK
<1>2. QED  BY <1>1, CallsTyped

LEMMA TypeV2 ==
  ASSUME TypeOK, NEW c \in Calls, V2Step(c)
  PROVE  TypeOK'
<1> USE PageAssumption
<1>0. calls[c] \in Call /\ "success" \in Outcomes  BY DEF TypeOK, Outcomes
<1>1. CASE Autosave(c)
  <2>1. /\ attempt_count' \in [Limited -> Nat]
        /\ \A b \in Limited : attempt_count'[b] <= RateLimit[b]
    BY <1>1, AttemptTyped DEF Autosave, AutosaveOutcome, TypeOK, Limited
  <2>2. CASE AutosaveOutcome(c) = "success"
    <3>1. Reply(c, "success")
      BY <1>1, <2>2 DEF Autosave
    <3>2. /\ calls' \in [Calls -> Call]
          /\ \A x \in Calls : CarriesDoc(calls'[x]) => calls'[x].doc \in Docs
      BY <1>0, <3>1, TypeAnswered
    <3>3. calls[c].doc \in Docs
      BY <1>1 DEF Autosave, Running, CarriesDoc, TypeOK
    <3>4. QED
      BY <1>1, <2>1, <2>2, <3>2, <3>3 DEF Autosave, TypeOK, WriteDraft
  <2>3. CASE AutosaveOutcome(c) # "success"
    BY <1>1, <2>1, <2>3, OutcomesTyped, TypeRefuse DEF Autosave
  <2>4. QED  BY <2>2, <2>3
<1>2. CASE PublishRead(c)
  <2>1. /\ attempt_count' \in [Limited -> Nat]
        /\ \A b \in Limited : attempt_count'[b] <= RateLimit[b]
    BY <1>2, AttemptTyped DEF PublishRead, PublishReadOutcome, TypeOK, Limited
  <2>2. CASE PublishReadOutcome(c) = "success"
    BY <1>2, <2>1, <2>2, TypeRemember DEF PublishRead, TypeOK, row
  <2>3. CASE PublishReadOutcome(c) # "success"
    BY <1>2, <2>1, <2>3, OutcomesTyped, TypeRefuse DEF PublishRead
  <2>4. QED  BY <2>2, <2>3
<1>3. CASE PublishCommit(c)
  <2>1. CASE PublishOutcome(c) = "success"
    <3>1. Reply(c, "success")
      BY <1>3, <2>1 DEF PublishCommit
    <3>2. /\ calls' \in [Calls -> Call]
          /\ \A x \in Calls : CarriesDoc(calls'[x]) => calls'[x].doc \in Docs
      BY <1>0, <3>1, TypeAnswered
    <3>3. published_at' \in 0..MaxToken /\ publications' \in Seq(1..MaxToken)
      <4>1. PublishAt(c)  BY <1>3, <2>1 DEF PublishCommit
      <4>2. QED  BY <4>1, PublishAtTyped DEF TypeOK
    <3>4. QED  BY <1>3, <2>1, <3>2, <3>3 DEF PublishCommit, TypeOK
  <2>2. CASE PublishOutcome(c) # "success"
    BY <1>3, <2>2, OutcomesTyped, TypeRefuse DEF PublishCommit, TypeOK
  <2>3. QED  BY <2>1, <2>2
<1>4. CASE Unpublish(c)
  <2>1. CASE UnpublishOutcome(c) = "success"
    <3>1. Reply(c, "success")  BY <1>4, <2>1 DEF Unpublish
    <3>2. /\ calls' \in [Calls -> Call]
          /\ \A x \in Calls : CarriesDoc(calls'[x]) => calls'[x].doc \in Docs
      BY <1>0, <3>1, TypeAnswered
    <3>3. QED  BY <1>4, <2>1, <3>2 DEF Unpublish, TypeOK
  <2>2. CASE UnpublishOutcome(c) # "success"
    BY <1>4, <2>2, OutcomesTyped, TypeRefuse DEF Unpublish, TypeOK
  <2>3. QED  BY <2>1, <2>2
<1>5. CASE ResetRead(c)
  <2>1. CASE ResetReadOutcome(c) = "success"
    <3>1. published_doc \in Docs  BY <2>1 DEF ResetReadOutcome, TypeOK
    <3>2. Remember(c, published_doc)  BY <1>5, <2>1 DEF ResetRead
    <3>3. /\ calls' \in [Calls -> Call]
          /\ \A x \in Calls : CarriesDoc(calls'[x]) => calls'[x].doc \in Docs
      BY <3>1, <3>2, TypeRemember
    <3>4. QED  BY <1>5, <2>1, <3>3 DEF ResetRead, TypeOK, row
  <2>2. CASE ResetReadOutcome(c) # "success"
    BY <1>5, <2>2, OutcomesTyped, TypeRefuse DEF ResetRead, TypeOK
  <2>3. QED  BY <2>1, <2>2
<1>6. CASE ResetCommit(c)
  <2>1. CASE ResetOutcome(c) = "success"
    <3>1. Reply(c, "success")
      BY <1>6, <2>1 DEF ResetCommit
    <3>2. /\ calls' \in [Calls -> Call]
          /\ \A x \in Calls : CarriesDoc(calls'[x]) => calls'[x].doc \in Docs
      BY <1>0, <3>1, TypeAnswered DEF TypeOK
    <3>3. published_doc = calls[c].doc /\ calls[c].doc \in Docs
      BY <1>6, <2>1 DEF ResetCommit, ResetOutcome, Running, CarriesDoc, TypeOK
    <3>4. QED
      BY <1>6, <2>1, <3>2, <3>3 DEF ResetCommit, TypeOK, WriteDraft
  <2>2. CASE ResetOutcome(c) # "success"
    BY <1>6, <2>2, OutcomesTyped, TypeRefuse DEF ResetCommit, TypeOK
  <2>3. QED  BY <2>1, <2>2
<1>7. QED  BY <1>1, <1>2, <1>3, <1>4, <1>5, <1>6 DEF V2Step

LEMMA TypeLegacy ==
  ASSUME TypeOK, NEW c \in Calls, LegacyStep(c)
  PROVE  TypeOK'
<1> USE PageAssumption
<1>0. {"success", "invalid", "not-found-or-forbidden"} \subseteq Outcomes
      /\ 0 \in Nat /\ NoDoc \in Docs \cup {NoDoc}
  BY DEF Outcomes
<1>1. CASE LegacyUpdateRead(c)
  <2>1. CASE \E outcome \in {"not-found-or-forbidden", "invalid"} :
               Refuse(c, outcome)
    BY <1>0, <1>1, <2>1, TypeRefuse DEF LegacyUpdateRead, TypeOK
  <2>2. CASE \E d \in LegacyDocs : Remember(c, d) /\ UNCHANGED <<row, asset, cohort>>
    <3>1. /\ calls' \in [Calls -> Call]
          /\ \A x \in Calls : CarriesDoc(calls'[x]) => calls'[x].doc \in Docs
      BY <2>2, TypeRemember
    <3>2. QED  BY <1>1, <2>2, <3>1 DEF LegacyUpdateRead, TypeOK, row
  <2>3. QED  BY <1>1, <2>1, <2>2 DEF LegacyUpdateRead
<1>2. CASE LegacyUpdateWrite(c)
  <2>1. CASE Owned(c)
    <3>1. Reply(c, "success")
      BY <1>2, <2>1 DEF LegacyUpdateWrite
    <3>2. /\ calls' \in [Calls -> Call]
          /\ \A x \in Calls : CarriesDoc(calls'[x]) => calls'[x].doc \in Docs
      BY <1>0, <3>1, TypeAnswered
    <3>3. calls[c].doc \in Docs
      BY <1>2 DEF LegacyUpdateWrite, Running, CarriesDoc, TypeOK
    <3>4. QED  BY <1>2, <2>1, <3>2, <3>3 DEF LegacyUpdateWrite, WriteDraft, TypeOK
  <2>2. CASE ~Owned(c)
    BY <1>0, <1>2, <2>2, TypeRefuse DEF LegacyUpdateWrite, TypeOK
  <2>3. QED  BY <2>1, <2>2
<1>3. CASE LegacyPublicationRead(c)
  <2>1. CASE Refuse(c, "invalid")
    BY <1>0, <1>3, <2>1, TypeRefuse DEF LegacyPublicationRead, TypeOK
  <2>2. CASE Remember(c, NoDoc) /\ UNCHANGED <<row, asset, cohort>>
    <3>1. /\ calls' \in [Calls -> Call]
          /\ calls'[c].op = calls[c].op
          /\ \A x \in Calls \ {c} : calls'[x] = calls[x]
      BY <1>0, <2>2, RememberTyped DEF TypeOK
    <3>2. ~CarriesDoc(calls'[c])
      BY <1>3, <3>1 DEF LegacyPublicationRead, Running, CarriesDoc
    <3>3. \A x \in Calls : CarriesDoc(calls'[x]) => calls'[x].doc \in Docs
      BY <3>1, <3>2, CallsTyped
    <3>4. QED  BY <1>3, <2>2, <3>1, <3>3 DEF LegacyPublicationRead, TypeOK, row
  <2>3. QED  BY <1>3, <2>1, <2>2 DEF LegacyPublicationRead
<1>4. CASE LegacyPublish(c)
  <2>1. CASE Refuse(c, "invalid")
    BY <1>0, <1>4, <2>1, TypeRefuse DEF LegacyPublish, TypeOK
  <2>2. CASE ~Refuse(c, "invalid")
    <3>1. Reply(c, "success")  BY <1>4, <2>2 DEF LegacyPublish
    <3>2. /\ calls' \in [Calls -> Call]
          /\ \A x \in Calls : CarriesDoc(calls'[x]) => calls'[x].doc \in Docs
      BY <1>0, <3>1, TypeAnswered
    <3>3. published_at' \in 0..MaxToken /\ publications' \in Seq(1..MaxToken)
      <4>1. PublishAt(c)  BY <1>4, <2>2 DEF LegacyPublish
      <4>2. QED  BY <4>1, PublishAtTyped DEF TypeOK
    <3>4. QED  BY <1>4, <2>2, <3>2, <3>3 DEF LegacyPublish, TypeOK
  <2>3. QED  BY <2>1, <2>2
<1>5. CASE LegacyUnpublish(c)
  <2>1. Reply(c, "success")  BY <1>5 DEF LegacyUnpublish
  <2>2. /\ calls' \in [Calls -> Call]
        /\ \A x \in Calls : CarriesDoc(calls'[x]) => calls'[x].doc \in Docs
    BY <1>0, <2>1, TypeAnswered
  <2>3. QED  BY <1>5, <2>2 DEF LegacyUnpublish, TypeOK
<1>6. QED  BY <1>1, <1>2, <1>3, <1>4, <1>5 DEF LegacyStep

LEMMA TypeRest ==
  ASSUME TypeOK,
         (\E c \in Calls : Receive(c)) \/ AdminStep \/ Surroundings \/ UNCHANGED vars
  PROVE  TypeOK'
<1> USE PageAssumption
<1>1. ASSUME NEW c \in Calls, Receive(c) PROVE TypeOK'
  <2>1. /\ calls' \in [Calls -> Call]
        /\ calls'[c] = IdleCall
        /\ \A x \in Calls \ {c} : calls'[x] = calls[x]
    BY <1>1 DEF Receive, TypeOK, Call, IdleCall, Outcomes
  <2>2. ~CarriesDoc(calls'[c])  BY <2>1 DEF CarriesDoc, IdleCall
  <2>3. QED  BY <1>1, <2>1, <2>2, CallsTyped DEF Receive, TypeOK, row
<1>2. CASE AdminStep
  BY <1>2 DEF AdminStep, TakeDownAndHold, ClearModerationHold,
              ReassignMemberPage, TypeOK
<1>3. CASE Surroundings
  <2>1. /\ UNCHANGED <<row, calls>>
        /\ attempt_count' \in [Limited -> Nat]
        /\ \A a \in Limited : attempt_count'[a] <= RateLimit[a]
        /\ asset' \in [Assets -> {"absent", "ready", "claimed", "failed"}]
        /\ cohort' \in BOOLEAN
    <3>1. CASE \E a \in Limited : WindowElapses(a)
      BY <3>1 DEF WindowElapses, TypeOK, Limited
    <3>2. CASE \E a \in Assets : AssetBecomesReady(a)
      BY <3>2 DEF AssetBecomesReady, TypeOK
    <3>3. CASE \E a \in Assets : AssetIsClaimed(a)
      BY <3>3 DEF AssetIsClaimed, TypeOK
    <3>4. CASE \E a \in Assets : AssetFailsServing(a)
      BY <3>4 DEF AssetFailsServing, TypeOK
    <3>5. CASE ChangeRollout
      BY <3>5 DEF ChangeRollout, TypeOK
    <3>6. QED  BY <1>3, <3>1, <3>2, <3>3, <3>4, <3>5 DEF Surroundings
  <2>2. QED  BY <2>1 DEF TypeOK, row
<1>4. CASE UNCHANGED vars
  BY <1>4 DEF vars, row, TypeOK
<1>5. QED  BY <1>1, <1>2, <1>3, <1>4

LEMMA TypeNext == ASSUME TypeOK, [Next]_vars PROVE TypeOK'
BY TypeSend, TypeV2, TypeLegacy, TypeRest DEF Next

(* Every variable keeps its type; no attempt count ever exceeds the limit    *)
(* of its action, and a call between two statements carries a document.      *)
THEOREM TypeCorrect == Spec => []TypeOK
<1>1. Init => TypeOK  BY TypeInit
<1>2. TypeOK /\ [Next]_vars => TypeOK'  BY TypeNext
<1>3. QED  BY <1>1, <1>2, PTL DEF Spec

-----------------------------------------------------------------------------
(***************************************************************************)
(* What a step may do to the row.  Every safety argument below starts from *)
(* this classification: the row keeps its documents and its publication    *)
(* state, or one document is written to the draft, or the draft is         *)
(* published, or the page is hidden, or a hidden page loses its hold.      *)
(***************************************************************************)
PublicationKept ==
  UNCHANGED <<published_doc, is_published, published_at, publications,
              unpublished_at, moderation_hold>>

PageKept == PublicationKept /\ UNCHANGED <<draft_doc, draft_rev>>

Saved(c) ==
  /\ Running(c, "autosave", "sent") /\ AutosaveOutcome(c) = "success"
  /\ draft_doc' = calls[c].doc /\ draft_rev' = draft_rev + 1
  /\ PublicationKept

Restored(c) ==
  /\ Running(c, "reset", "read") /\ ResetOutcome(c) = "success"
  /\ published_doc \in Docs
  /\ draft_doc' = published_doc /\ draft_rev' = draft_rev + 1
  /\ PublicationKept

LegacySaved(c) ==
  /\ Running(c, "legacy-update", "read")
  /\ draft_doc' = calls[c].doc /\ draft_rev' = draft_rev + 1
  /\ published_doc' = IF is_published THEN calls[c].doc ELSE published_doc
  /\ UNCHANGED <<is_published, published_at, publications, unpublished_at,
                 moderation_hold>>

Published(c) ==
  /\ \/ Running(c, "publish", "read") /\ PublishOutcome(c) = "success"
     \/ Running(c, "legacy-publish", "read") /\ draft_doc \in LegacyDocs
  /\ ~moderation_hold
  /\ published_doc' = draft_doc /\ is_published' = TRUE
  /\ PublishAt(c) /\ unpublished_at' = FALSE
  /\ UNCHANGED <<draft_doc, draft_rev, moderation_hold>>

Hidden ==
  /\ is_published' = FALSE /\ unpublished_at' = TRUE
  /\ moderation_hold' \in {moderation_hold, TRUE}
  /\ UNCHANGED <<draft_doc, draft_rev, published_doc, published_at, publications>>

HoldCleared ==
  /\ moderation_hold
  /\ is_published' = FALSE /\ moderation_hold' = FALSE
  /\ UNCHANGED <<draft_doc, draft_rev, published_doc, published_at,
                 publications, unpublished_at>>

LEMMA RowSteps ==
  ASSUME TypeOK, [Next]_vars
  PROVE  \/ PageKept
         \/ \E c \in Calls :
              Saved(c) \/ Restored(c) \/ LegacySaved(c) \/ Published(c)
         \/ Hidden
         \/ HoldCleared
<1>1. ASSUME NEW c \in Calls, SendSome(c) \/ Receive(c) PROVE PageKept
  BY <1>1 DEF SendSome, SendAutosave, SendPublish, SendReset, SendUnpublish,
       SendLegacyUpdate, SendLegacyPublication, Send, Receive, row,
       PageKept, PublicationKept
<1>2. ASSUME NEW c \in Calls, NEW outcome, Refuse(c, outcome) PROVE PageKept
  BY <1>2 DEF Refuse, row, PageKept, PublicationKept
<1>3. ASSUME NEW c \in Calls, V2Step(c)
      PROVE  PageKept \/ Saved(c) \/ Restored(c) \/ Published(c) \/ Hidden
  <2>1. CASE Autosave(c)
    BY <2>1, <1>2 DEF Autosave, Saved, WriteDraft, PublicationKept
  <2>2. CASE PublishRead(c)
    BY <2>2, <1>2 DEF PublishRead, PageKept, PublicationKept, row
  <2>3. CASE PublishCommit(c)
    <3>1. CASE PublishOutcome(c) = "success"
      <4>1. ~moderation_hold  BY <3>1 DEF PublishOutcome
      <4>2. QED  BY <2>3, <3>1, <4>1 DEF PublishCommit, Published
    <3>2. CASE PublishOutcome(c) # "success"
      BY <2>3, <3>2, <1>2 DEF PublishCommit
    <3>3. QED  BY <3>1, <3>2
  <2>4. CASE Unpublish(c)
    BY <2>4, <1>2 DEF Unpublish, Hidden
  <2>5. CASE ResetRead(c)
    BY <2>5, <1>2 DEF ResetRead, PageKept, PublicationKept, row
  <2>6. CASE ResetCommit(c)
    <3>1. CASE ResetOutcome(c) = "success"
      <4>1. published_doc \in Docs
        BY <2>6, <3>1 DEF ResetCommit, ResetOutcome, Running, CarriesDoc, TypeOK
      <4>2. QED
        BY <2>6, <3>1, <4>1 DEF ResetCommit, Restored, WriteDraft, PublicationKept
    <3>2. CASE ResetOutcome(c) # "success"
      BY <2>6, <3>2, <1>2 DEF ResetCommit
    <3>3. QED  BY <3>1, <3>2
  <2>7. QED  BY <1>3, <2>1, <2>2, <2>3, <2>4, <2>5, <2>6 DEF V2Step
<1>4. ASSUME NEW c \in Calls, LegacyStep(c)
      PROVE  PageKept \/ LegacySaved(c) \/ Published(c) \/ Hidden
  <2>1. CASE LegacyUpdateRead(c)
    BY <2>1, <1>2 DEF LegacyUpdateRead, PageKept, PublicationKept, row
  <2>2. CASE LegacyUpdateWrite(c)
    BY <2>2, <1>2 DEF LegacyUpdateWrite, LegacySaved, WriteDraft
  <2>3. CASE LegacyPublicationRead(c)
    BY <2>3, <1>2 DEF LegacyPublicationRead, PageKept, PublicationKept, row
  <2>4. CASE LegacyPublish(c)
    BY <2>4, <1>2 DEF LegacyPublish, Published
  <2>5. CASE LegacyUnpublish(c)
    BY <2>5 DEF LegacyUnpublish, Hidden
  <2>6. QED  BY <1>4, <2>1, <2>2, <2>3, <2>4, <2>5 DEF LegacyStep
<1>5. CASE AdminStep
  BY <1>5 DEF AdminStep, TakeDownAndHold, ClearModerationHold,
       ReassignMemberPage, Hidden, HoldCleared, PageKept, PublicationKept
<1>6. CASE Surroundings \/ UNCHANGED vars
  BY <1>6 DEF Surroundings, WindowElapses, AssetBecomesReady, AssetIsClaimed,
       AssetFailsServing, ChangeRollout, vars, row, PageKept, PublicationKept
<1>7. QED  BY <1>1, <1>3, <1>4, <1>5, <1>6 DEF Next

-----------------------------------------------------------------------------
(* The publication state stays consistent, through every interleaving of    *)
(* publishes, moderation and legacy writes and under any rollout.           *)
THEOREM PublicationStaysConsistent == Spec => []PublicationConsistent
<1>1. Init => PublicationConsistent
  BY PageAssumption DEF Init, PublicationConsistent
<1>2. ASSUME TypeOK, PublicationConsistent, [Next]_vars
      PROVE  PublicationConsistent'
  <2> USE PageAssumption DEF PublicationConsistent
  <2>1. CASE PageKept
    BY <1>2, <2>1 DEF PageKept, PublicationKept
  <2>2. ASSUME NEW c \in Calls, Saved(c) \/ Restored(c)
        PROVE  PublicationConsistent'
    BY <1>2, <2>2 DEF Saved, Restored, PublicationKept
  <2>3. ASSUME NEW c \in Calls, LegacySaved(c) PROVE PublicationConsistent'
    <3>1. calls[c].doc \in Docs
      BY <1>2, <2>3 DEF LegacySaved, Running, CarriesDoc, TypeOK
    <3>2. QED  BY <1>2, <2>3, <3>1 DEF LegacySaved
  <2>4. ASSUME NEW c \in Calls, Published(c) PROVE PublicationConsistent'
    BY <1>2, <2>4 DEF Published, TypeOK
  <2>5. CASE Hidden \/ HoldCleared
    BY <1>2, <2>5 DEF Hidden, HoldCleared, TypeOK
  <2>6. QED  BY <1>2, <2>1, <2>2, <2>3, <2>4, <2>5, RowSteps
<1>3. QED  BY <1>1, <1>2, TypeCorrect, PTL DEF Spec

LEMMA RevisionStep ==
  ASSUME TypeOK, [Next]_vars
  PROVE  /\ draft_rev' >= draft_rev
         /\ draft_doc' # draft_doc => draft_rev' > draft_rev
<1>1. \/ UNCHANGED <<draft_doc, draft_rev>>
      \/ draft_rev' = draft_rev + 1
  BY RowSteps DEF PageKept, Saved, Restored, LegacySaved, Published,
       Hidden, HoldCleared
<1>2. draft_rev \in Nat  BY PageAssumption DEF TypeOK
<1>3. QED  BY <1>1, <1>2

(* Every step that changes the draft gives it a new, higher revision.       *)
THEOREM RevisionsNameDrafts == Spec => RevisionNamesOneDraft
BY RevisionStep, TypeCorrect, PTL DEF Spec, RevisionNamesOneDraft

(* The token in the row is that of the last publication, and no two had one. *)
TokensTell ==
  /\ published_at = TokenOf(Len(publications))
  /\ \A i, j \in 1..Len(publications) : publications[i] = publications[j] => i = j

LEMMA TokenStep ==
  ASSUME TypeOK, TokensTell, [Next]_vars
  PROVE  /\ TokensTell'
         /\ Len(publications) <= Len(publications')
         /\ \A k \in 0..Len(publications) : TokenOf(k)' = TokenOf(k)
<1>0. publications \in Seq(1..MaxToken) /\ Len(publications) \in Nat
  BY DEF TypeOK
<1>1. CASE UNCHANGED <<published_at, publications>>
  BY <1>0, <1>1 DEF TokensTell, TokenOf
<1>2. ASSUME NEW c \in Calls, PublishAt(c)
      PROVE  /\ TokensTell'
             /\ Len(publications) <= Len(publications')
             /\ \A k \in 0..Len(publications) : TokenOf(k)' = TokenOf(k)
  <2>1. /\ Len(publications') = Len(publications) + 1
        /\ publications'[Len(publications) + 1] = published_at'
        /\ \A k \in 1..Len(publications) :
             publications'[k] = publications[k] /\ publications[k] # published_at'
    BY <1>0, <1>2, PublishAtTyped
  <2>2. published_at' = TokenOf(Len(publications))'
    BY <1>0, <2>1 DEF TokenOf
  <2>3. ASSUME NEW i \in 1..Len(publications'), NEW j \in 1..Len(publications'),
               publications'[i] = publications'[j]
        PROVE  i = j
    BY <1>0, <2>1, <2>3 DEF TokensTell
  <2>4. \A k \in 0..Len(publications) : TokenOf(k)' = TokenOf(k)
    BY <1>0, <2>1 DEF TokenOf
  <2>5. QED  BY <1>0, <2>1, <2>2, <2>3, <2>4 DEF TokensTell
<1>3. UNCHANGED <<published_at, publications>> \/ \E c \in Calls : PublishAt(c)
  BY RowSteps DEF PageKept, PublicationKept, Saved, Restored, LegacySaved, Published,
       Hidden, HoldCleared
<1>4. QED  BY <1>1, <1>2, <1>3

LEMMA TokensAlwaysTell == Spec => []TokensTell
<1>1. Init => TokensTell
  <2>1. ASSUME Init PROVE TokensTell
    <3>1. CASE published_at = 0
      BY <2>1, <3>1 DEF Init, TokensTell, TokenOf
    <3>2. CASE published_at # 0
      <4>1. publications = <<published_at>>  BY <2>1, <3>2 DEF Init
      <4>2. QED  BY <4>1 DEF TokensTell, TokenOf
    <3>3. QED  BY <3>1, <3>2
  <2>2. QED  BY <2>1
<1>2. TypeOK /\ TokensTell /\ [Next]_vars => TokensTell'  BY TokenStep
<1>3. QED  BY <1>1, <1>2, TypeCorrect, PTL DEF Spec

-----------------------------------------------------------------------------
(***************************************************************************)
(* What a step may do to a call.                                           *)
(***************************************************************************)
RowKept == UNCHANGED <<row, asset, cohort>>

Begun(x) ==
  /\ calls'[x].phase = "sent" /\ calls'[x].outcome = "none"
  /\ calls'[x].op \in V2Ops => cohort
  /\ calls'[x].op \in LegacyOps => ~cohort
  /\ calls'[x].op \in {"publish", "reset"} =>
       /\ calls'[x].rev <= draft_rev
       /\ calls'[x].rev = draft_rev => calls'[x].want = draft_doc
  /\ calls'[x].op = "unpublish" =>
       /\ calls'[x].past \in 0..Len(publications)
       /\ calls'[x].token = TokenOf(calls'[x].past)
  /\ RowKept

Halfway(x) ==
  /\ calls[x].phase = "sent" /\ calls'[x].phase = "read"
  /\ calls'[x].op = calls[x].op /\ calls'[x].rev = calls[x].rev
  /\ calls'[x].want = calls[x].want /\ calls'[x].outcome = calls[x].outcome
  /\ calls[x].op = "legacy-update" =>
       /\ calls'[x].doc \in LegacyDocs
       /\ Refs[calls'[x].doc] \subseteq Refs[draft_doc]
       /\ draft_doc \in LegacyDocs
       /\ is_published => published_doc \in LegacyDocs
  /\ RowKept

Ended(x) ==
  /\ calls'[x].phase \in {"idle", "replied"}
  /\ calls'[x].phase = "idle" => calls'[x].outcome = "none"
  /\ Running(x, "publish", "read") /\ calls'[x].outcome = "success" =>
       PublishOutcome(x) = "success" /\ published_doc' = draft_doc
  /\ Running(x, "unpublish", "sent") /\ calls'[x].outcome = "success" =>
       UnpublishOutcome(x) = "success"
  /\ Running(x, "reset", "read") /\ calls'[x].outcome = "success" =>
       ResetOutcome(x) = "success"

LEMMA CallSteps ==
  ASSUME TypeOK, [Next]_vars, NEW x \in Calls
  PROVE  calls'[x] = calls[x] \/ Begun(x) \/ Halfway(x) \/ Ended(x)
<1> USE DEF RowKept
<1>1. ASSUME NEW c \in Calls, SendSome(c)
      PROVE  calls'[x] = calls[x] \/ Begun(x)
  <2>1. CASE c = x
    <3> USE DEF Send, EditorOpen, Begun, V2Ops, LegacyOps, TypeOK
    <3>1. CASE SendAutosave(c)  BY <2>1, <3>1 DEF SendAutosave
    <3>2. CASE SendPublish(c)  BY <2>1, <3>2 DEF SendPublish, Seen
    <3>3. CASE SendUnpublish(c)  BY <2>1, <3>3 DEF SendUnpublish
    <3>4. CASE SendReset(c)  BY <2>1, <3>4 DEF SendReset, Seen
    <3>5. CASE SendLegacyUpdate(c)  BY <2>1, <3>5 DEF SendLegacyUpdate
    <3>6. CASE SendLegacyPublication(c)  BY <2>1, <3>6 DEF SendLegacyPublication
    <3>7. QED  BY <1>1, <3>1, <3>2, <3>3, <3>4, <3>5, <3>6 DEF SendSome
  <2>2. CASE c # x
    BY <1>1, <2>2 DEF SendSome, SendAutosave, SendPublish, SendUnpublish,
         SendReset, SendLegacyUpdate, SendLegacyPublication, Send, TypeOK
  <2>3. QED  BY <2>1, <2>2
<1>2. ASSUME NEW c \in Calls, NEW outcome, Reply(c, outcome)
      PROVE  /\ c # x => calls'[x] = calls[x]
             /\ c = x => calls'[x].phase = "replied" /\ calls'[x].outcome = outcome
  BY <1>2 DEF Reply, IdleCall, TypeOK
<1>3. ASSUME NEW c \in Calls, NEW doc, Remember(c, doc)
      PROVE  /\ c # x => calls'[x] = calls[x]
             /\ c = x => /\ calls'[x].phase = "read" /\ calls'[x].doc = doc
                         /\ calls'[x].op = calls[x].op
                         /\ calls'[x].rev = calls[x].rev
                         /\ calls'[x].want = calls[x].want
                         /\ calls'[x].outcome = calls[x].outcome
  BY <1>3 DEF Remember, TypeOK, Call
<1>4. ASSUME NEW c \in Calls, NEW outcome, Refuse(c, outcome)
      PROVE  /\ c # x => calls'[x] = calls[x]
             /\ c = x => calls'[x].phase = "replied" /\ calls'[x].outcome = outcome
  BY <1>2, <1>4 DEF Refuse
<1>5. ASSUME NEW c \in Calls, V2Step(c)
      PROVE  calls'[x] = calls[x] \/ Halfway(x) \/ Ended(x)
  <2> USE DEF Running
  <2>1. CASE Autosave(c)
    BY <2>1, <1>2, <1>4 DEF Autosave, Ended
  <2>2. CASE PublishRead(c)
    <3>1. CASE PublishReadOutcome(c) = "success"
      BY <2>2, <3>1, <1>3 DEF PublishRead, Halfway
    <3>2. CASE PublishReadOutcome(c) # "success"
      BY <2>2, <3>2, <1>4 DEF PublishRead, Ended
    <3>3. QED  BY <3>1, <3>2
  <2>3. CASE PublishCommit(c)
    BY <2>3, <1>2, <1>4 DEF PublishCommit, Ended
  <2>4. CASE Unpublish(c)
    BY <2>4, <1>2, <1>4 DEF Unpublish, Ended
  <2>5. CASE ResetRead(c)
    <3>1. CASE ResetReadOutcome(c) = "success"
      BY <2>5, <3>1, <1>3 DEF ResetRead, Halfway
    <3>2. CASE ResetReadOutcome(c) # "success"
      BY <2>5, <3>2, <1>4 DEF ResetRead, Ended
    <3>3. QED  BY <3>1, <3>2
  <2>6. CASE ResetCommit(c)
    BY <2>6, <1>2, <1>4 DEF ResetCommit, Ended
  <2>7. QED  BY <1>5, <2>1, <2>2, <2>3, <2>4, <2>5, <2>6 DEF V2Step
<1>6. ASSUME NEW c \in Calls, LegacyStep(c)
      PROVE  calls'[x] = calls[x] \/ Halfway(x) \/ Ended(x)
  <2> USE DEF Running
  <2>1. CASE LegacyUpdateRead(c)
    BY <2>1, <1>3, <1>4 DEF LegacyUpdateRead, LegacyMayOverwrite, Halfway, Ended
  <2>2. CASE LegacyUpdateWrite(c)
    BY <2>2, <1>2, <1>4 DEF LegacyUpdateWrite, Ended
  <2>3. CASE LegacyPublicationRead(c)
    BY <2>3, <1>3, <1>4 DEF LegacyPublicationRead, Halfway, Ended
  <2>4. CASE LegacyPublish(c)
    BY <2>4, <1>2, <1>4 DEF LegacyPublish, Ended
  <2>5. CASE LegacyUnpublish(c)
    BY <2>5, <1>2 DEF LegacyUnpublish, Ended
  <2>6. QED  BY <1>6, <2>1, <2>2, <2>3, <2>4, <2>5 DEF LegacyStep
<1>7. ASSUME NEW c \in Calls, Receive(c)
      PROVE  calls'[x] = calls[x] \/ Ended(x)
  BY <1>7 DEF Receive, Ended, IdleCall, Running, TypeOK
<1>8. CASE AdminStep \/ Surroundings \/ UNCHANGED vars
  BY <1>8 DEF AdminStep, TakeDownAndHold, ClearModerationHold,
       ReassignMemberPage, Surroundings, WindowElapses, AssetBecomesReady,
       AssetIsClaimed, AssetFailsServing, ChangeRollout, vars
<1>9. QED  BY <1>1, <1>5, <1>6, <1>7, <1>8 DEF Next

-----------------------------------------------------------------------------
(***************************************************************************)
(* The second layer: what a call in flight knows, under any rollout.       *)
(***************************************************************************)
CallKnows(c) ==
  /\ SenderSawDraft(c)
  /\ Running(c, "unpublish", "sent") =>
       /\ calls[c].past \in 0..Len(publications)
       /\ calls[c].token = TokenOf(calls[c].past)
  /\ Running(c, "legacy-update", "read") => calls[c].doc \in LegacyDocs
  /\ calls[c].phase # "replied" => calls[c].outcome = "none"

CallsKnow == \A c \in Calls : CallKnows(c)

LEMMA CallsKnowNext ==
  ASSUME TypeOK, TokensTell, CallsKnow, [Next]_vars
  PROVE  CallsKnow'
<1> SUFFICES ASSUME NEW x \in Calls PROVE CallKnows(x)'
  BY DEF CallsKnow
<1>0. CallKnows(x) /\ calls[x] \in Call /\ draft_rev \in Nat /\ draft_rev' \in Nat
  BY TypeNext, PageAssumption DEF CallsKnow, TypeOK
<1>1. CASE calls'[x] = calls[x]
  <2>1. ASSUME calls[x].op \in {"publish", "reset"},
               calls[x].phase \in {"sent", "read"}
        PROVE  /\ calls[x].rev <= draft_rev'
               /\ calls[x].rev = draft_rev' => calls[x].want = draft_doc'
    <3>1. calls[x].rev \in Nat  BY <1>0 DEF Call
    <3>2. /\ calls[x].rev <= draft_rev
          /\ calls[x].rev = draft_rev => calls[x].want = draft_doc
      BY <1>0, <2>1 DEF CallKnows, SenderSawDraft
    <3>3. /\ draft_rev' >= draft_rev
          /\ draft_doc' # draft_doc => draft_rev' > draft_rev
      BY RevisionStep
    <3>4. QED  BY <1>0, <3>1, <3>2, <3>3
  <2>2. ASSUME calls[x].op = "unpublish", calls[x].phase = "sent"
        PROVE  /\ calls[x].past \in 0..Len(publications')
               /\ calls[x].token = IF calls[x].past = 0 THEN 0
                                   ELSE publications'[calls[x].past]
    <3>1. PICK k \in 0..Len(publications) :
            calls[x].past = k /\ calls[x].token = TokenOf(k)
      BY <1>0, <2>2 DEF CallKnows, Running
    <3>2. Len(publications) <= Len(publications') /\ TokenOf(k)' = TokenOf(k)
      BY TokenStep
    <3>3. Len(publications) \in Nat /\ Len(publications') \in Nat
      BY TypeNext DEF TypeOK
    <3>4. k \in 0..Len(publications')  BY <3>2, <3>3
    <3>5. TokenOf(k) = IF k = 0 THEN 0 ELSE publications'[k]
      BY <3>2 DEF TokenOf
    <3>6. QED  BY <3>1, <3>4, <3>5
  <2>3. QED
    BY <1>0, <1>1, <2>1, <2>2 DEF CallKnows, SenderSawDraft, Running, TokenOf
<1>2. CASE Begun(x)
  <2>1. UNCHANGED <<draft_doc, draft_rev, publications>>
    BY <1>2 DEF Begun, RowKept, row
  <2>2. calls'[x].op = "unpublish" =>
          /\ calls'[x].past \in 0..Len(publications')
          /\ calls'[x].token = TokenOf(calls[x].past)'
    BY <1>2, <2>1 DEF Begun, TokenOf
  <2>3. QED
    BY <1>2, <2>1, <2>2 DEF Begun, CallKnows, SenderSawDraft, Running, V2Ops, LegacyOps
<1>3. CASE Halfway(x)
  BY <1>0, <1>3 DEF Halfway, RowKept, row, CallKnows, SenderSawDraft, Running
<1>4. CASE Ended(x)
  BY <1>4 DEF Ended, CallKnows, SenderSawDraft, Running
<1>5. QED  BY <1>1, <1>2, <1>3, <1>4, CallSteps

LEMMA CallsAlwaysKnow == Spec => []CallsKnow
<1>1. Init => CallsKnow
  BY DEF Init, CallsKnow, CallKnows, SenderSawDraft, Running, IdleCall
<1>2. TypeOK /\ TokensTell /\ CallsKnow /\ [Next]_vars => CallsKnow'
  BY CallsKnowNext
<1>3. QED  BY <1>1, <1>2, TypeCorrect, TokensAlwaysTell, PTL DEF Spec

(* What becomes public is the document the publisher was looking at.  The    *)
(* chain is: the revision in the request still names the current draft, a    *)
(* revision names one document, and the statement copies the current draft.  *)
THEOREM PublishesShipTheirRevision == Spec => PublishShipsExpectedRevision
<1>1. ASSUME TypeOK, CallsKnow, [Next]_vars, NEW c \in Calls,
             Running(c, "publish", "read"), calls'[c].outcome = "success"
      PROVE  published_doc' = calls[c].want
  <2>1. calls'[c] # calls[c] /\ ~Begun(c) /\ ~Halfway(c)
    BY <1>1 DEF CallsKnow, CallKnows, Running, Begun, Halfway
  <2>2. PublishOutcome(c) = "success" /\ published_doc' = draft_doc
    BY <1>1, <2>1, CallSteps DEF Ended
  <2>3. calls[c].rev = draft_rev
    BY <2>2 DEF PublishOutcome
  <2>4. QED
    BY <1>1, <2>2, <2>3 DEF CallsKnow, CallKnows, SenderSawDraft, Running
<1>2. TypeOK /\ CallsKnow /\ [Next]_vars =>
        \A c \in Calls : /\ Running(c, "publish", "read")
                         /\ calls'[c].outcome = "success"
                         => published_doc' = calls[c].want
  BY <1>1
<1>3. QED
  BY <1>2, TypeCorrect, CallsAlwaysKnow, PTL DEF Spec, PublishShipsExpectedRevision

(* An unpublish only ever takes down the publication its sender had seen:    *)
(* although the instants of publications need not grow, no two publications  *)
(* have one, so the token in the request names the last of them or none the  *)
(* row still has.  A reset only replaces the draft its sender had before it. *)
THEOREM OnlyWhatWasSeenIsTaken == Spec => TakesOnlyWhatWasSeen
<1>1. ASSUME TypeOK, TokensTell, CallsKnow, [Next]_vars, NEW c \in Calls,
             calls'[c].outcome = "success"
      PROVE  /\ Running(c, "unpublish", "sent") => calls[c].past = Len(publications)
             /\ Running(c, "reset", "read") => calls[c].want = draft_doc
  <2>1. CallKnows(c)  BY <1>1 DEF CallsKnow
  <2>2. ASSUME Running(c, "unpublish", "sent")
        PROVE  calls[c].past = Len(publications)
    <3>1. calls'[c] # calls[c] /\ ~Begun(c) /\ ~Halfway(c)
      BY <1>1, <2>1, <2>2 DEF CallKnows, Running, Begun, Halfway
    <3>2. published_at = calls[c].token
      BY <1>1, <2>2, <3>1, CallSteps DEF Ended, UnpublishOutcome
    <3>3. PICK k \in 0..Len(publications) :
            calls[c].past = k /\ calls[c].token = TokenOf(k)
      BY <2>1, <2>2 DEF CallKnows
    <3>4. PICK n \in Nat : n = Len(publications)  BY <1>1 DEF TypeOK
    <3>5. TokenOf(k) = TokenOf(n)  BY <1>1, <3>2, <3>3, <3>4 DEF TokensTell
    <3>6. \A i \in 1..n : publications[i] # 0
      <4>1. PICK S : S = 1..MaxToken  OBVIOUS
      <4>2. publications \in Seq(S)  BY <1>1, <4>1 DEF TypeOK
      <4>3. \A i \in 1..n : publications[i] \in S  BY <3>4, <4>2
      <4>4. QED  BY <4>1, <4>3, PageAssumption
    <3>7. k \in 0..n  BY <3>3, <3>4
    <3>8. CASE k = 0 \/ n = 0
      <4>1. CASE n = 0  BY <3>3, <3>4, <3>7, <4>1
      <4>2. CASE n # 0
        <5>1. n \in 1..n  BY <4>2
        <5>2. TokenOf(n) # 0  BY <3>6, <4>2, <5>1 DEF TokenOf
        <5>3. k = 0 /\ TokenOf(k) = 0  BY <3>8, <4>2 DEF TokenOf
        <5>4. QED  BY <3>5, <5>2, <5>3
      <4>3. QED  BY <4>1, <4>2
    <3>9. CASE k # 0 /\ n # 0
      <4>1. k \in 1..n /\ n \in 1..n  BY <3>7, <3>9
      <4>2. publications[k] = publications[n]  BY <3>5, <3>9 DEF TokenOf
      <4>3. \A i, j \in 1..n : publications[i] = publications[j] => i = j
        BY <1>1, <3>4 DEF TokensTell
      <4>4. QED  BY <3>3, <3>4, <4>1, <4>2, <4>3
    <3>10. QED  BY <3>3, <3>4, <3>8, <3>9
  <2>3. ASSUME Running(c, "reset", "read") PROVE calls[c].want = draft_doc
    <3>1. calls'[c] # calls[c] /\ ~Begun(c) /\ ~Halfway(c)
      BY <1>1, <2>1, <2>3 DEF CallKnows, Running, Begun, Halfway
    <3>2. draft_rev = calls[c].rev
      BY <1>1, <2>3, <3>1, CallSteps DEF Ended, ResetOutcome
    <3>3. QED  BY <2>1, <2>3, <3>2 DEF CallKnows, SenderSawDraft, Running
  <2>4. QED  BY <2>2, <2>3
<1>2. TypeOK /\ TokensTell /\ CallsKnow /\ [Next]_vars =>
        \A c \in Calls : calls'[c].outcome = "success" =>
          /\ Running(c, "unpublish", "sent") => calls[c].past = Len(publications)
          /\ Running(c, "reset", "read") => calls[c].want = draft_doc
  BY <1>1
<1>3. QED
  BY <1>2, TypeCorrect, TokensAlwaysTell, CallsAlwaysKnow, PTL
     DEF Spec, TakesOnlyWhatWasSeen

(* A retired theme pair enters a draft only from the draft or the snapshot.  *)
THEOREM RetiredThemesDoNotSpread == Spec => RetiredThemeNeverIntroduced
<1>1. ASSUME TypeOK, CallsKnow, [Next]_vars, Theme[draft_doc'] \in Retired
      PROVE  \/ Theme[draft_doc'] = Theme[draft_doc]
             \/ published_doc \in Docs /\ Theme[draft_doc'] = Theme[published_doc]
  <2>1. ASSUME NEW c \in Calls, Saved(c) PROVE Theme[draft_doc'] = Theme[draft_doc]
    <3>1. ThemeAccepted(calls[c].doc)  BY <2>1 DEF Saved, AutosaveOutcome
    <3>2. QED  BY <1>1, <2>1, <3>1 DEF Saved, ThemeAccepted
  <2>2. ASSUME NEW c \in Calls, LegacySaved(c) PROVE FALSE
    <3>1. draft_doc' \in LegacyDocs
      BY <1>1, <2>2 DEF LegacySaved, CallsKnow, CallKnows
    <3>2. QED  BY <1>1, <3>1, PageAssumption
  <2>3. ASSUME NEW c \in Calls, Restored(c)
        PROVE  published_doc \in Docs /\ draft_doc' = published_doc
    BY <2>3 DEF Restored
  <2>4. CASE PageKept \/ Hidden \/ HoldCleared \/ \E c \in Calls : Published(c)
    BY <2>4 DEF PageKept, Hidden, HoldCleared, Published
  <2>5. QED  BY <1>1, <2>1, <2>2, <2>3, <2>4, RowSteps
<1>2. QED
  BY <1>1, TypeCorrect, CallsAlwaysKnow, PTL DEF Spec, RetiredThemeNeverIntroduced

-----------------------------------------------------------------------------
(***************************************************************************)
(* The third layer needs DrainedRollout: a call in flight belongs to the   *)
(* editor its slug is assigned to, so no V2 call and no deletion of an     *)
(* asset runs while a legacy save is between its read and its write.       *)
(***************************************************************************)
RolloutRespected(c) ==
  calls[c].phase \in {"sent", "read"} =>
    /\ calls[c].op \in V2Ops => cohort
    /\ calls[c].op \in LegacyOps => ~cohort

Usable(d) == \A a \in Refs[d] : asset[a] \in {"ready", "failed"}

DrainedInv ==
  /\ \A c \in Calls : RolloutRespected(c) /\ LegacySaveStillApplies(c)
  /\ Usable(draft_doc)
  /\ published_doc # NoDoc => Usable(published_doc)

LEMMA CohortStep ==
  ASSUME TypeOK, DrainedRollout, [Next]_vars, cohort' # cohort
  PROVE  /\ UNCHANGED <<row, asset, calls>>
         /\ \A c \in Calls : calls[c].phase \in {"idle", "replied"}
<1>1. CASE AdminStep \/ Surroundings \/ UNCHANGED vars
  BY <1>1 DEF AdminStep, TakeDownAndHold, ClearModerationHold,
       ReassignMemberPage, Surroundings, WindowElapses, AssetBecomesReady,
       AssetIsClaimed, AssetFailsServing, ChangeRollout, vars
<1>2. ASSUME NEW c \in Calls, SendSome(c) \/ Receive(c) PROVE FALSE
  BY <1>2 DEF SendSome, SendAutosave, SendPublish, SendReset, SendUnpublish,
       SendLegacyUpdate, SendLegacyPublication, Send, Receive
<1>3. ASSUME NEW c \in Calls, V2Step(c) PROVE FALSE
  BY <1>3 DEF V2Step, Autosave, PublishRead, PublishCommit, Unpublish,
       ResetRead, ResetCommit, Refuse
<1>4. ASSUME NEW c \in Calls, LegacyStep(c) PROVE FALSE
  BY <1>4 DEF LegacyStep, LegacyUpdateRead, LegacyUpdateWrite,
       LegacyPublicationRead, LegacyPublish, LegacyUnpublish, Refuse
<1>5. QED  BY <1>1, <1>2, <1>3, <1>4 DEF Next

(* An asset that a document of the row refers to stays usable, and so does  *)
(* every asset while the slug is with the legacy editor.                    *)
LEMMA AssetStep ==
  ASSUME TypeOK, [Next]_vars, NEW a \in Assets, asset[a] \in {"ready", "failed"}
  PROVE  \/ asset'[a] \in {"ready", "failed"}
         \/ /\ cohort
            /\ a \notin Refs[draft_doc]
            /\ published_doc # NoDoc => a \notin Refs[published_doc]
            /\ UNCHANGED <<row, calls>>
<1>1. CASE AdminStep \/ UNCHANGED vars
  BY <1>1 DEF AdminStep, TakeDownAndHold, ClearModerationHold,
       ReassignMemberPage, vars
<1>2. CASE Surroundings
  BY <1>2 DEF Surroundings, WindowElapses, AssetBecomesReady, AssetIsClaimed,
       AssetFailsServing, ChangeRollout, TypeOK
<1>3. ASSUME NEW c \in Calls, SendSome(c) \/ Receive(c) PROVE UNCHANGED asset
  BY <1>3 DEF SendSome, SendAutosave, SendPublish, SendReset, SendUnpublish,
       SendLegacyUpdate, SendLegacyPublication, Send, Receive
<1>4. ASSUME NEW c \in Calls, V2Step(c) PROVE UNCHANGED asset
  BY <1>4 DEF V2Step, Autosave, PublishRead, PublishCommit, Unpublish,
       ResetRead, ResetCommit, Refuse
<1>5. ASSUME NEW c \in Calls, LegacyStep(c) PROVE UNCHANGED asset
  BY <1>5 DEF LegacyStep, LegacyUpdateRead, LegacyUpdateWrite,
       LegacyPublicationRead, LegacyPublish, LegacyUnpublish, Refuse
<1>6. QED  BY <1>1, <1>2, <1>3, <1>4, <1>5 DEF Next

LEMMA DrainedInvNext ==
  ASSUME TypeOK, CallsKnow, DrainedRollout, DrainedInv, [Next]_vars
  PROVE  DrainedInv'
<1>0. Refs \in [Docs -> SUBSET Assets] /\ LegacyDocs \subseteq Docs
      /\ NoDoc \notin Docs
  BY PageAssumption
<1>1. ASSUME NEW x \in Calls PROVE RolloutRespected(x)'
  <2>1. CASE cohort' # cohort
    BY <2>1, CohortStep DEF RolloutRespected
  <2>2. CASE cohort' = cohort
    BY <2>2, CallSteps DEF Begun, Halfway, Ended, RolloutRespected, DrainedInv
  <2>3. QED  BY <2>1, <2>2
(* A document usable before the step stays so if the row refers to it or     *)
(* the slug is with the legacy editor.                                       *)
<1>2. ASSUME NEW d \in Docs, Usable(d), d \in {draft_doc, published_doc} \/ ~cohort
      PROVE  Usable(d)'
  BY <1>0, <1>2, AssetStep DEF Usable
(* While a legacy save is under way, only legacy calls write the row.        *)
<1>3. ASSUME NEW x \in Calls, Running(x, "legacy-update", "read"),
             NEW y \in Calls
      PROVE  ~cohort /\ ~Saved(y) /\ ~Restored(y) /\ ~Running(y, "publish", "read")
  BY <1>3 DEF DrainedInv, RolloutRespected, Running, V2Ops, LegacyOps, Saved,
       Restored
<1>4. ASSUME NEW x \in Calls, LegacySaved(x)
      PROVE  /\ calls[x].doc \in LegacyDocs /\ Usable(calls[x].doc) /\ ~cohort
             /\ draft_doc' = calls[x].doc
             /\ published_doc' \in {published_doc, calls[x].doc}
             /\ is_published' => published_doc' = calls[x].doc
  BY <1>3, <1>4 DEF LegacySaved, DrainedInv, LegacySaveStillApplies, Usable
<1>5. ASSUME NEW x \in Calls PROVE LegacySaveStillApplies(x)'
  <2>1. CASE calls'[x] = calls[x]
    <3>1. SUFFICES ASSUME Running(x, "legacy-update", "read")
                   PROVE  LegacySaveStillApplies(x)'
      BY <2>1 DEF LegacySaveStillApplies, Running
    <3>2. /\ ~cohort
          /\ calls[x].doc \in LegacyDocs /\ Usable(calls[x].doc)
          /\ draft_doc \in LegacyDocs
          /\ is_published => published_doc \in LegacyDocs
      BY <3>1, <1>3 DEF DrainedInv, LegacySaveStillApplies, Usable
    <3>3. \A a \in Refs[calls[x].doc] : asset'[a] \in {"ready", "failed"}
      BY <1>0, <1>2, <3>2 DEF Usable
    <3>4. /\ draft_doc' \in LegacyDocs
          /\ is_published' => published_doc' \in LegacyDocs
      <4>1. CASE PageKept \/ Hidden \/ HoldCleared
        <5>1. UNCHANGED <<draft_doc, published_doc>>
          BY <4>1 DEF PageKept, PublicationKept, Hidden, HoldCleared
        <5>2. is_published' => is_published
          BY <4>1, Zenon DEF PageKept, PublicationKept, Hidden, HoldCleared
        <5>3. QED  BY <3>2, <5>1, <5>2
      <4>2. ASSUME NEW c \in Calls, LegacySaved(c) PROVE <3>4!1 /\ <3>4!2
        BY <1>4, <4>2
      <4>3. ASSUME NEW c \in Calls, Published(c) PROVE <3>4!1 /\ <3>4!2
        BY <3>2, <4>3 DEF Published
      <4>4. QED  BY <3>1, <1>3, <4>1, <4>2, <4>3, RowSteps
    <3>5. QED  BY <2>1, <3>2, <3>3, <3>4 DEF LegacySaveStillApplies
  <2>2. CASE Begun(x)
    BY <2>2 DEF Begun, LegacySaveStillApplies, Running
  <2>3. CASE Halfway(x)
    <3>1. Usable(draft_doc)  BY DEF DrainedInv
    <3>2. QED
      BY <2>3, <3>1 DEF Halfway, RowKept, row, LegacySaveStillApplies, Running,
           Usable
  <2>4. CASE Ended(x)
    BY <2>4 DEF Ended, LegacySaveStillApplies, Running
  <2>5. QED  BY <2>1, <2>2, <2>3, <2>4, CallSteps
<1>6. Usable(draft_doc)' /\ (published_doc # NoDoc => Usable(published_doc))'
  <2>0. draft_doc \in Docs /\ (published_doc = NoDoc \/ published_doc \in Docs)
        /\ Usable(draft_doc) /\ (published_doc # NoDoc => Usable(published_doc))
    BY DEF TypeOK, DrainedInv
  (* It is enough that the step moves only usable documents into the row.     *)
  <2>1. SUFFICES
          /\ \E d \in Docs : draft_doc' = d /\ Usable(d)'
          /\ \/ published_doc' = NoDoc
             \/ \E d \in Docs : published_doc' = d /\ Usable(d)'
    BY DEF Usable
  <2>2. CASE PageKept \/ Hidden \/ HoldCleared
    BY <2>0, <2>2, <1>2 DEF PageKept, PublicationKept, Hidden, HoldCleared
  <2>3. ASSUME NEW c \in Calls, Saved(c) PROVE <2>1!1
    <3>1. AssetsReady(calls[c].doc) /\ calls[c].doc \in Docs
      BY <2>3 DEF Saved, AutosaveOutcome, Running, CarriesDoc, TypeOK
    <3>2. draft_rev' # draft_rev
      BY <2>3, PageAssumption DEF Saved, TypeOK
    <3>3. \A a \in Refs[calls[c].doc] : asset'[a] \in {"ready", "failed"}
      BY <1>0, <3>1, <3>2, AssetStep DEF AssetsReady, row
    <3>4. draft_doc' = calls[c].doc /\ published_doc' = published_doc
      BY <2>3 DEF Saved, PublicationKept
    <3>5. published_doc' = NoDoc \/ Usable(published_doc)'
      BY <2>0, <3>4, <1>2 DEF Usable
    <3>6. QED  BY <2>0, <3>1, <3>3, <3>4, <3>5 DEF Usable
  <2>4. ASSUME NEW c \in Calls, Restored(c) PROVE <2>1!1
    BY <2>0, <2>4, <1>0, <1>2 DEF Restored, PublicationKept
  <2>5. ASSUME NEW c \in Calls, LegacySaved(c) PROVE <2>1!1
    BY <2>0, <2>5, <1>0, <1>2, <1>4
  <2>6. ASSUME NEW c \in Calls, Published(c) PROVE <2>1!1
    BY <2>0, <2>6, <1>2 DEF Published
  <2>7. QED  BY <2>2, <2>3, <2>4, <2>5, <2>6, RowSteps
<1>7. QED  BY <1>1, <1>5, <1>6 DEF DrainedInv

LEMMA DrainedInvAlways == DrainedRollout => (Spec => []DrainedInv)
<1> SUFFICES ASSUME DrainedRollout PROVE Spec => []DrainedInv
  OBVIOUS
<1>1. Init => DrainedInv
  BY DEF Init, DrainedInv, RolloutRespected, LegacySaveStillApplies, Running,
       IdleCall, Usable
<1>2. TypeOK /\ CallsKnow /\ DrainedInv /\ [Next]_vars => DrainedInv'
  BY DrainedInvNext
<1>3. QED  BY <1>1, <1>2, TypeCorrect, CallsAlwaysKnow, PTL DEF Spec

(* No document of the row ever dangles, when a rollout waits for the calls   *)
(* in flight.                                                                *)
THEOREM ReferencesStayUsable == DrainedRollout => (Spec => []ReferencedAssetsUsable)
<1>1. DrainedInv => ReferencedAssetsUsable
  BY DEF DrainedInv, ReferencedAssetsUsable, Usable
<1>2. QED  BY <1>1, DrainedInvAlways, PTL

(* Every call in flight stays informed until its last statement.             *)
THEOREM CallsStayInformed == DrainedRollout => (Spec => []CallsStillInformed)
<1>1. DrainedInv /\ CallsKnow => CallsStillInformed
  BY DEF DrainedInv, CallsKnow, CallKnows, CallsStillInformed
<1>2. QED  BY <1>1, DrainedInvAlways, CallsAlwaysKnow, PTL

(* The legacy editor destroys nothing it cannot rebuild: its check, made in  *)
(* an earlier statement than its unguarded write, is still true when the     *)
(* write runs, because the other editor is shut out of the slug.             *)
THEOREM LegacySavesKeepV2Content == DrainedRollout => (Spec => LegacyKeepsV2Content)
<1>1. DrainedInv =>
        \A c \in Calls :
          /\ Running(c, "legacy-update", "read")
          /\ calls'[c].outcome = "success"
          => /\ draft_doc \in LegacyDocs
             /\ is_published => published_doc \in LegacyDocs
  BY DEF DrainedInv, LegacySaveStillApplies
<1>2. QED  BY <1>1, DrainedInvAlways, PTL DEF LegacyKeepsV2Content

-----------------------------------------------------------------------------
(* Every operation of the data layer, however many statements it sends, acts *)
(* on the row like one step of a page register.                              *)
THEOREM PageImplementsRegister == Spec => ImplementsRegister
<1>1. Init => Register!Init
  BY PageAssumption DEF Init, Register!Init
<1>2. ASSUME TypeOK, TypeOK', PublicationConsistent, [Next]_vars
      PROVE  [Register!Next]_(Register!page)
  <2> USE DEF Register!Next
  <2>1. CASE PageKept
    BY <2>1 DEF PageKept, PublicationKept, Register!page
  <2>2. ASSUME NEW c \in Calls, Saved(c) \/ Restored(c)
        PROVE  \E d \in Docs : Register!Save(d)
    BY <1>2, <2>2 DEF Saved, Restored, PublicationKept, TypeOK, Register!Save
  <2>3. ASSUME NEW c \in Calls, LegacySaved(c)
        PROVE  \E d \in Docs : Register!SaveThrough(d)
    BY <1>2, <2>3 DEF LegacySaved, TypeOK, Register!SaveThrough
  <2>4. ASSUME NEW c \in Calls, Published(c) PROVE Register!Publish
    <3>1. publications \in Seq(1..MaxToken)  BY <1>2 DEF TypeOK
    <3>2. PublishAt(c)  BY <2>4 DEF Published
    <3>3. Len(publications') = Len(publications) + 1
      BY <3>1, <3>2, PublishAtTyped
    <3>4. QED  BY <2>4, <3>3 DEF Published, Register!Publish
  <2>5. CASE Hidden
    BY <2>5 DEF Hidden, Register!Hide
  <2>6. CASE HoldCleared
    <3>1. moderation_hold /\ ~is_published
      BY <1>2, <2>6 DEF HoldCleared, PublicationConsistent
    <3>2. UNCHANGED is_published
      BY <1>2, <2>6, <3>1 DEF HoldCleared, TypeOK
    <3>3. QED  BY <2>6, <3>1, <3>2 DEF HoldCleared, Register!ClearHold
  <2>7. QED  BY <1>2, <2>1, <2>2, <2>3, <2>4, <2>5, <2>6, RowSteps
<1>3. QED
  BY <1>1, <1>2, TypeCorrect, PublicationStaysConsistent, PTL
     DEF Spec, ImplementsRegister, Register!Spec
=============================================================================
