--------------------------- MODULE AssetVerification ---------------------------
(***************************************************************************)
(* verifyStoredMemberAsset (src/lib/members/assets/verify.ts) over the     *)
(* storage adapter (r2.ts): HEAD, then prefixes of doubling length, then   *)
(* the whole object, each read on the condition that the object is still   *)
(* the one of the HEAD.  Meanwhile the presigned PUT, which carries no     *)
(* condition of its own, may replace the object, and the cleanup may       *)
(* delete it.  Contents stand for their ETags.                             *)
(***************************************************************************)
EXTENDS Naturals

CONSTANTS
  Contents,       \* what may be stored at the key, all of the declared length
  StaticOnes,     \* the still pictures of the declared type among them
  BadFromTheStart,\* those whose signature or JPEG header is refused in any prefix
  Lengths,        \* the lengths an upload may declare, in units of the first range
  MaxPrefix,      \* MEMBER_ASSET_MAX_HEADER_RANGE_BYTES, in the same unit
  NoContent

ASSUME ContentsAssumption ==
  /\ StaticOnes \subseteq Contents /\ BadFromTheStart \subseteq Contents \ StaticOnes
  /\ NoContent \notin Contents
  /\ Lengths \subseteq Nat \ {0} /\ MaxPrefix \in Nat \ {0}

VARIABLES
  atKey,       \* the object at the key
  urlValid,    \* the presigned PUT has not expired
  byteLength,  \* declared, signed into the PUT, and so the length of every object
  stage,       \* "head", "range", "full", "verified", "failed"
  headEtag,    \* the ETag of the HEAD
  rangeSize    \* of the next range

verifyVars == <<atKey, urlValid, byteLength, stage, headEtag, rangeSize>>

AtMost(a, b) == IF a <= b THEN a ELSE b

VerificationInit ==
  /\ atKey \in Contents \cup {NoContent}
  /\ urlValid = TRUE
  /\ byteLength \in Lengths
  /\ stage = "head" /\ headEtag = NoContent /\ rangeSize = 0

\* createPresignedPut: no If-None-Match, the type and the length signed.
PutObject(c) ==
  /\ urlValid
  /\ atKey' = c
  /\ UNCHANGED <<urlValid, byteLength, stage, headEtag, rangeSize>>

UrlExpires ==
  /\ urlValid /\ urlValid' = FALSE
  /\ UNCHANGED <<atKey, byteLength, stage, headEtag, rangeSize>>

ObjectDeleted ==
  /\ atKey # NoContent /\ atKey' = NoContent
  /\ UNCHANGED <<urlValid, byteLength, stage, headEtag, rangeSize>>

Goes(to) ==
  /\ stage' = to
  /\ UNCHANGED <<atKey, urlValid, byteLength, headEtag>>

\* R2 does not answer, or answers without what the code asks of an answer.
ReadFails ==
  /\ stage \in {"head", "range", "full"}
  /\ Goes("failed") /\ UNCHANGED rangeSize

ReadHead ==
  /\ stage = "head"
  /\ atKey # NoContent
  /\ headEtag' = atKey
  /\ stage' = "range"
  /\ rangeSize' = 1
  /\ UNCHANGED <<atKey, urlValid, byteLength>>

\* If-Match, and the ETag of the answer compared again.
SameObject == atKey = headEtag

Changed ==
  /\ stage \in {"range", "full"} /\ ~SameObject
  /\ Goes("failed") /\ UNCHANGED rangeSize

Judged(c) == IF c \in StaticOnes THEN "verified" ELSE "failed"

ReadRange ==
  /\ stage = "range" /\ SameObject
  /\ IF atKey \in BadFromTheStart THEN Goes("failed") /\ UNCHANGED rangeSize
     ELSE IF rangeSize >= byteLength THEN Goes(Judged(atKey)) /\ UNCHANGED rangeSize
     ELSE IF rangeSize >= MaxPrefix THEN Goes("full") /\ UNCHANGED rangeSize
     ELSE Goes("range") /\ rangeSize' = AtMost(byteLength, AtMost(MaxPrefix, 2 * rangeSize))

ReadFull ==
  /\ stage = "full" /\ SameObject
  /\ Goes(Judged(atKey)) /\ UNCHANGED rangeSize

VerificationNext ==
  \/ \E c \in Contents : PutObject(c)
  \/ UrlExpires
  \/ ObjectDeleted
  \/ ReadHead \/ ReadRange \/ ReadFull
  \/ Changed
  \/ ReadFails

VerificationSpec == VerificationInit /\ [][VerificationNext]_verifyVars
-----------------------------------------------------------------------------
\* The ETag a successful verification records is that of a still picture, however
\* often the object was replaced between its reads; and the prefixes never grow
\* past what the code means to buffer.
VerifiedIsStatic ==
  /\ stage = "verified" => headEtag \in StaticOnes
  /\ rangeSize <= AtMost(byteLength, MaxPrefix)
=============================================================================
