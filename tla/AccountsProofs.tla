--------------------------- MODULE AccountsProofs ---------------------------
(***************************************************************************)
(* The models around a user's account, for any requests, instances, limits *)
(* and failures: KYC documents, recovery, sign-in, the message consumers,  *)
(* the directory and the lists, each with its own invariant.               *)
(***************************************************************************)
EXTENDS Auth, Recovery, Kyc, Directory, Queues, Paging,
        FiniteSetTheorems, FunctionTheorems, SequenceTheorems, TLAPS

-----------------------------------------------------------------------------
(* KYC documents. *)

(* Requests that may still create an application. *)
Applying == {v \in Visitor : kpc[v] \in {"new", "apply", "create"}}

KycSteps == {"new", "apply", "create", "upsert", "confirm", "download", "sign", "done"}

KycTyped ==
    /\ kpc \in [Visitor -> KycSteps]
    /\ content \in 0 .. MaxPuts /\ healthy \subseteq 1 .. MaxPuts
    /\ tag \in {"none", "pending", "clean", "infected"} /\ (tag = "none" <=> content = 0)
    /\ doc \in [exists : BOOLEAN, confirmed : BOOLEAN, scanStatus : {"none", "pending", "clean", "infected"}]
    /\ scan \in [at : {"idle", "report", "row"}, read : 0 .. MaxPuts]

Applied == applications \in Nat /\ applications + Cardinality(Applying) <= Cardinality(Visitor)

(* What was scanned, tagged clean or signed is there still or was replaced. *)
ContentKnown ==
    /\ scan.at # "idle" => content > 0 /\ (content = scan.read \/ content \in replaced)
    /\ tag = "clean" => content \in healthy \cup replaced
    /\ \A v \in Visitor : kpc[v] = "sign" => content > 0 /\ content \in healthy \cup replaced
    /\ served \subseteq (healthy \cup replaced) /\ served \subseteq 1 .. content

KycInv == KycTyped /\ Applied /\ ContentKnown

LEMMA KycFacts == MaxPuts \in Nat /\ IsFiniteSet(Visitor) /\ Cardinality(Visitor) \in Nat
  BY KycAssumption, FS_CardinalityType

LEMMA ApplyingFinite == IsFiniteSet(Applying) /\ Cardinality(Applying) \in Nat
  <1>1. Applying \subseteq Visitor
    BY DEF Applying
  <1> QED BY <1>1, KycFacts, FS_Subset, FS_CardinalityType, Zenon

LEMMA KycInitInv == KycInit => KycInv
  <1> SUFFICES ASSUME KycInit PROVE KycInv
    OBVIOUS
  <1>1. Applying = Visitor
    BY DEF KycInit, Applying
  <1>2. Applied
    BY <1>1, KycFacts DEF KycInit, Applied
  <1>3. KycTyped
    BY KycFacts DEF KycInit, KycTyped, KycSteps
  <1>4. ContentKnown
    BY DEF KycInit, ContentKnown
  <1> QED BY <1>2, <1>3, <1>4 DEF KycInv

(* No request comes back to the steps before the application. *)
LEMMA ApplyingShrinks ==
  ASSUME NEW v \in Visitor, NEW from, NEW to, KycTyped, Turns(v, from, to),
         to = "apply" => from = "new", to = "create" => from \in {"new", "apply"}, to # "new"
  PROVE  Applying' \subseteq Applying
  BY DEF KycTyped, Turns, Applying

LEMMA AppliedKept ==
  ASSUME Applied, Applying' \subseteq Applying, UNCHANGED applications
  PROVE  Applied'
  <1>1. Cardinality(Applying') <= Cardinality(Applying) /\ Cardinality(Applying') \in Nat
    <2>1. IsFiniteSet(Applying')
      BY ApplyingFinite, FS_Subset, Zenon
    <2> QED BY <2>1, ApplyingFinite, FS_Subset, FS_CardinalityType, Zenon
  <1> QED BY <1>1, ApplyingFinite, KycFacts DEF Applied

LEMMA AppliedNext ==
  ASSUME KycTyped, Applied, [KycNext]_kycVars
  PROVE  Applied'
  <1>1. CASE UNCHANGED kycVars
    BY <1>1 DEF kycVars, Applied, Applying
  <1>2. ASSUME NEW v \in Visitor, getOrCreateApplication(v) PROVE Applied'
    <2>1. Applying' = Applying \ {v} /\ v \in Applying /\ applications' = applications + 1
      BY <1>2 DEF getOrCreateApplication, Turns, Applying, KycTyped
    <2>2. Cardinality(Applying') = Cardinality(Applying) - 1
      BY <2>1, ApplyingFinite, FS_RemoveElement
    <2> QED BY <2>1, <2>2, ApplyingFinite, KycFacts DEF Applied
  <1>3. ASSUME NEW v \in Visitor, NEW from, NEW to, Turns(v, from, to), UNCHANGED applications,
               to = "apply" => from = "new", to = "create" => from \in {"new", "apply"}, to # "new"
        PROVE  Applied'
    BY <1>3, ApplyingShrinks, AppliedKept
  <1>4. ASSUME NEW v \in Visitor, requestUploadUrl(v) PROVE Applied'
    <2>1. CASE applications > 0
      BY <1>4, <2>1, <1>3 DEF requestUploadUrl
    <2>2. CASE ~(applications > 0)
      BY <1>4, <2>2, <1>3 DEF requestUploadUrl
    <2> QED BY <2>1, <2>2
  <1>5. ASSUME NEW v \in Visitor, checkJurisdictionLicensing(v) PROVE Applied'
    BY <1>5, <1>3 DEF checkJurisdictionLicensing
  <1>6. ASSUME NEW v \in Visitor, UpsertDocument(v) PROVE Applied'
    <2>1. Turns(v, "upsert", "done") /\ UNCHANGED applications
      BY <1>6 DEF UpsertDocument
    <2> QED BY <2>1, <1>3
  <1>7. ASSUME NEW v \in Visitor, confirmUpload(v) \/ requestDownloadUrl(v) PROVE Applied'
    <2>1. (\E to \in {"done", "download"} : Turns(v, "new", to)) /\ UNCHANGED applications
      BY <1>7 DEF confirmUpload, requestDownloadUrl
    <2> QED BY <2>1, <1>3
  <1>8. ASSUME NEW v \in Visitor, generateDownloadUrl(v) PROVE Applied'
    <2>1. (\E to \in {"sign", "done"} : Turns(v, "download", to)) /\ UNCHANGED applications
      BY <1>8 DEF generateDownloadUrl
    <2> QED BY <2>1, <1>3
  <1>9. ASSUME NEW v \in Visitor, GetObject(v) PROVE Applied'
    <2>1. Turns(v, "sign", "done") /\ UNCHANGED applications
      BY <1>9 DEF GetObject
    <2> QED BY <2>1, <1>3
  <1>10. CASE PutObject \/ StartScan \/ scanWebhook \/ SyncScanStatus
    <2>1. UNCHANGED <<kpc, applications>>
      BY <1>10 DEF PutObject, StartScan, scanWebhook, SyncScanStatus
    <2> QED BY <2>1 DEF Applied, Applying
  <1> QED BY <1>1, <1>2, <1>4, <1>5, <1>6, <1>7, <1>8, <1>9, <1>10 DEF KycNext

LEMMA KycTypedNext ==
  ASSUME KycTyped, ContentKnown, [KycNext]_kycVars
  PROVE  KycTyped'
  <1> USE KycFacts
  <1>1. CASE UNCHANGED kycVars
    BY <1>1 DEF kycVars, KycTyped
  <1>2. ASSUME NEW v \in Visitor, NEW from, NEW to \in KycSteps, Turns(v, from, to),
               UNCHANGED <<content, healthy, tag, scan>>,
               doc' \in [exists : BOOLEAN, confirmed : BOOLEAN, scanStatus : {"none", "pending", "clean", "infected"}]
        PROVE  KycTyped'
    BY <1>2 DEF Turns, KycTyped, KycSteps
  <1>3. ASSUME NEW v \in Visitor, requestUploadUrl(v) PROVE KycTyped'
    <2>1. \E to \in KycSteps : Turns(v, "new", to)
      BY <1>3 DEF requestUploadUrl, KycSteps
    <2>2. UNCHANGED <<doc, content, healthy, tag, scan>>
      BY <1>3 DEF requestUploadUrl
    <2> QED BY <2>1, <2>2, <1>2 DEF KycTyped
  <1>4. ASSUME NEW v \in Visitor, checkJurisdictionLicensing(v) \/ getOrCreateApplication(v)
        PROVE  KycTyped'
    <2>1. \E from \in KycSteps, to \in KycSteps : Turns(v, from, to)
      BY <1>4 DEF checkJurisdictionLicensing, getOrCreateApplication, KycSteps
    <2>2. UNCHANGED <<doc, content, healthy, tag, scan>>
      BY <1>4 DEF checkJurisdictionLicensing, getOrCreateApplication
    <2> QED BY <2>1, <2>2, <1>2 DEF KycTyped
  <1>7. ASSUME NEW v \in Visitor, UpsertDocument(v) \/ confirmUpload(v) PROVE KycTyped'
    <2>1. \E from \in KycSteps : Turns(v, from, "done")
      BY <1>7 DEF UpsertDocument, confirmUpload, KycSteps
    <2>2. UNCHANGED <<content, healthy, tag, scan>>
      BY <1>7 DEF UpsertDocument, confirmUpload
    <2>3. doc' \in [exists : BOOLEAN, confirmed : BOOLEAN, scanStatus : {"none", "pending", "clean", "infected"}]
      <3>1. CASE UpsertDocument(v) /\ doc.exists
        BY <3>1 DEF UpsertDocument, KycTyped
      <3>2. CASE UpsertDocument(v) /\ ~doc.exists
        BY <3>2 DEF UpsertDocument, KycTyped
      <3>3. CASE confirmUpload(v)
        BY <3>3 DEF confirmUpload, KycTyped
      <3> QED BY <1>7, <3>1, <3>2, <3>3
    <2> QED BY <2>1, <2>2, <2>3, <1>2 DEF KycSteps
  <1>8. ASSUME NEW v \in Visitor, requestDownloadUrl(v) \/ generateDownloadUrl(v) \/ GetObject(v)
        PROVE  KycTyped'
    <2>1. \E from \in KycSteps, to \in KycSteps : Turns(v, from, to)
      BY <1>8 DEF requestDownloadUrl, generateDownloadUrl, GetObject, KycSteps
    <2>2. UNCHANGED <<doc, content, healthy, tag, scan>>
      BY <1>8 DEF requestDownloadUrl, generateDownloadUrl, GetObject
    <2> QED BY <2>1, <2>2, <1>2 DEF KycTyped
  <1>5. CASE PutObject \/ StartScan
    <2>1. CASE PutObject
      BY <2>1 DEF PutObject, KycTyped
    <2>2. CASE StartScan
      BY <2>2 DEF StartScan, KycTyped
    <2> QED BY <1>5, <2>1, <2>2
  <1>6. CASE scanWebhook \/ SyncScanStatus
    BY <1>6 DEF scanWebhook, SyncScanStatus, Verdict, KycTyped, ContentKnown
  <1> QED BY <1>1, <1>3, <1>4, <1>5, <1>6, <1>7, <1>8 DEF KycNext

LEMMA ContentKnownNext ==
  ASSUME KycTyped, ContentKnown, [KycNext]_kycVars
  PROVE  ContentKnown'
  <1> USE KycFacts
  <1>1. CASE UNCHANGED kycVars
    BY <1>1 DEF kycVars, ContentKnown
  <1>2. ASSUME NEW v \in Visitor,
               requestUploadUrl(v) \/ checkJurisdictionLicensing(v) \/ getOrCreateApplication(v)
                   \/ UpsertDocument(v) \/ confirmUpload(v) \/ requestDownloadUrl(v)
        PROVE  ContentKnown'
    <2>1. UNCHANGED <<content, healthy, tag, scan, served, replaced>>
      BY <1>2 DEF requestUploadUrl, checkJurisdictionLicensing, getOrCreateApplication, UpsertDocument,
                  confirmUpload, requestDownloadUrl
    <2>2. \A u \in Visitor : kpc'[u] = "sign" => kpc[u] = "sign"
      BY <1>2 DEF requestUploadUrl, checkJurisdictionLicensing, getOrCreateApplication, UpsertDocument,
                  confirmUpload, requestDownloadUrl, Turns, KycTyped
    <2> QED BY <2>1, <2>2 DEF ContentKnown
  <1>3. ASSUME NEW v \in Visitor, generateDownloadUrl(v) PROVE ContentKnown'
    <2>1. UNCHANGED <<content, healthy, tag, scan, served, replaced>>
      BY <1>3 DEF generateDownloadUrl
    <2>2. \A u \in Visitor : kpc'[u] = "sign" => kpc[u] = "sign" \/ (content > 0 /\ tag = "clean")
      BY <1>3 DEF generateDownloadUrl, ScanStatusRead, assertScanAllowsDownload, Turns, KycTyped
    <2> QED BY <2>1, <2>2 DEF ContentKnown
  <1>4. ASSUME NEW v \in Visitor, GetObject(v) PROVE ContentKnown'
    BY <1>4 DEF GetObject, Turns, KycTyped, ContentKnown
  <1>5. CASE PutObject
    BY <1>5 DEF PutObject, KycTyped, ContentKnown
  <1>6. CASE StartScan
    BY <1>6 DEF StartScan, KycTyped, ContentKnown
  <1>7. CASE scanWebhook
    BY <1>7 DEF scanWebhook, Verdict, KycTyped, ContentKnown
  <1>8. CASE SyncScanStatus
    BY <1>8 DEF SyncScanStatus, KycTyped, ContentKnown
  <1> QED BY <1>1, <1>2, <1>3, <1>4, <1>5, <1>6, <1>7, <1>8 DEF KycNext

(* A download URL delivers no threat unless the content was replaced on the    *)
(* way, and a user has no more applications than requests for an upload: the   *)
(* tag, which the scan writes behind the upload, is asked before signing.      *)
THEOREM DownloadsAreClean == KycSpec => []ServedIsClean
  <1>1. KycInv => ServedIsClean
    BY ApplyingFinite, KycFacts DEF KycInv, KycTyped, Applied, ContentKnown, ServedIsClean, KycTypeOK, KycSteps
  <1>2. KycInv /\ [KycNext]_kycVars => KycInv'
    BY AppliedNext, KycTypedNext, ContentKnownNext DEF KycInv
  <1> QED BY <1>1, <1>2, KycInitInv, PTL DEF KycSpec

-----------------------------------------------------------------------------
(* Rows that are appended to, or rewritten in place, as a sequence.            *)
LEMMA RowsAppended ==
  ASSUME NEW S, NEW rows \in Seq(S), NEW e \in S
  PROVE  /\ Append(rows, e) \in Seq(S) /\ Len(Append(rows, e)) = Len(rows) + 1
         /\ DOMAIN rows \subseteq DOMAIN Append(rows, e)
         /\ DOMAIN Append(rows, e) = DOMAIN rows \cup {Len(rows) + 1}
         /\ Append(rows, e)[Len(rows) + 1] = e
         /\ \A i \in DOMAIN rows : Append(rows, e)[i] = rows[i]
  BY LenProperties, AppendProperties

LEMMA RowsMapped ==
  ASSUME NEW S, NEW rows \in Seq(S), NEW T, NEW mapped \in [DOMAIN rows -> T]
  PROVE  mapped \in Seq(T) /\ Len(mapped) = Len(rows) /\ DOMAIN mapped = DOMAIN rows
  <1>1. DOMAIN rows = 1..Len(rows) /\ Len(rows) \in Nat
    BY LenProperties
  <1>2. mapped \in Seq(T)
    BY <1>1, SeqDef
  <1> QED BY <1>1, <1>2, LenProperties

-----------------------------------------------------------------------------
(* Recovery. *)

RecoverySteps == {"idle", "passcode", "send", "limit", "code", "rotate", "hand"}

(* Requests at a step. *)
At(l) == {v \in Visit : rpc[v] = l}

CodeRow == [open : BOOLEAN, token : BOOLEAN, tries : Nat]

LimitsTyped ==
    /\ day \in [unlock : Nat, otp : Nat] /\ recent \in Nat /\ compared \in [unlock : Nat, otp : Nat]
    /\ codes \in Seq(CodeRow) /\ revoked \subseteq DOMAIN codes
    /\ device \in [attempts : 0..(DeviceMax + 1), trusted : BOOLEAN]

VisitsTyped ==
    /\ visits \in 0..MaxVisits /\ failures \in 0..MaxFailures
    /\ rpc \in [Visit -> RecoverySteps]
    /\ visit \in [Visit -> [id : 0..visits, code : Nat, locks : BOOLEAN]]
    /\ \A v \in Visit :
          /\ rpc[v] = "idle" => visit[v] = NoVisit
          /\ rpc[v] \in {"rotate", "hand"} => visit[v].id > 0
          /\ rpc[v] \in {"limit", "code", "rotate"} => visit[v].code \in DOMAIN codes /\ visit[v].id > 0

(* What was compared is recorded, or the record failed; and at the limit only  *)
(* the requests that had passed it before are still to compare.                *)
UnlocksCounted ==
    /\ compared.unlock <= day.unlock + failures
    /\ compared.unlock + Cardinality(At("passcode")) <= UserMax + Cardinality(Visit) - 1 + failures

CodesCounted ==
    /\ compared.otp <= day.otp + failures
    /\ compared.otp + Cardinality(At("code")) <= UserMax + Cardinality(Visit) - 1 + failures

(* After a rotation there is a new key, or a request that is about to make one. *)
HandedOver ==
    /\ sessions \subseteq 0..visits
    /\ rotated /\ failures = 0 => 0 \notin sessions /\ (sessions # {} \/ \E v \in Visit : rpc[v] = "hand")

RecoveryInv == LimitsTyped /\ VisitsTyped /\ UnlocksCounted /\ CodesCounted /\ HandedOver

LEMMA RecoveryFacts ==
  /\ UserMax \in Nat \ {0} /\ IdentifierMax \in Nat \ {0} /\ DeviceMax \in Nat
  /\ MaxVisits \in Nat /\ MaxFailures \in Nat
  /\ IsFiniteSet(Visit) /\ Cardinality(Visit) \in Nat
  BY RecoveryAssumption, FS_CardinalityType

LEMMA AtFinite ==
  ASSUME NEW l
  PROVE  IsFiniteSet(At(l)) /\ Cardinality(At(l)) \in Nat /\ Cardinality(At(l)) <= Cardinality(Visit)
  <1>1. At(l) \subseteq Visit
    BY DEF At
  <1> QED BY <1>1, RecoveryFacts, FS_Subset, FS_CardinalityType, Zenon

LEMMA AtFiniteNext ==
  ASSUME NEW l
  PROVE  IsFiniteSet(At(l)') /\ Cardinality(At(l)') \in Nat /\ Cardinality(At(l)') <= Cardinality(Visit)
  <1>1. At(l)' \subseteq Visit
    BY DEF At
  <1> QED BY <1>1, RecoveryFacts, FS_Subset, FS_CardinalityType, Zenon

LEMMA RecoveryInitInv == RecoveryInit => RecoveryInv
  <1> SUFFICES ASSUME RecoveryInit PROVE RecoveryInv
    OBVIOUS
  <1> USE RecoveryFacts
  <1>1. At("passcode") = {} /\ At("code") = {}
    BY DEF RecoveryInit, At
  <1>2. Cardinality(At("passcode")) = 0 /\ Cardinality(At("code")) = 0
    BY <1>1, FS_EmptySet, Zenon
  <1>3. UnlocksCounted /\ CodesCounted
    BY <1>2 DEF RecoveryInit, UnlocksCounted, CodesCounted
  <1>4. LimitsTyped
    <2>1. codes \in Seq(CodeRow)
      BY EmptySeq DEF RecoveryInit
    <2> QED BY <2>1 DEF RecoveryInit, LimitsTyped
  <1>5. VisitsTyped
    BY DEF RecoveryInit, VisitsTyped, RecoverySteps, NoVisit
  <1>6. HandedOver
    BY DEF RecoveryInit, HandedOver
  <1> QED BY <1>3, <1>4, <1>5, <1>6 DEF RecoveryInv

(* The counts stay when nothing is compared and nobody passes the limit. *)
LEMMA UnlocksStay ==
  ASSUME LimitsTyped, LimitsTyped', VisitsTyped, VisitsTyped', UnlocksCounted, compared'.unlock = compared.unlock,
         day'.unlock >= day.unlock, failures' >= failures, At("passcode")' \subseteq At("passcode")
  PROVE  UnlocksCounted'
  <1>1. Cardinality(At("passcode")') <= Cardinality(At("passcode"))
    BY AtFinite, FS_Subset, Zenon
  <1>2. failures \in Nat /\ failures' \in Nat
    BY RecoveryFacts DEF VisitsTyped
  <1>3. compared.unlock \in Nat /\ day.unlock \in Nat /\ day'.unlock \in Nat
    BY DEF LimitsTyped
  <1> QED BY <1>1, <1>2, <1>3, AtFinite, AtFiniteNext, RecoveryFacts DEF UnlocksCounted

LEMMA CodesStay ==
  ASSUME LimitsTyped, LimitsTyped', VisitsTyped, VisitsTyped', CodesCounted, compared'.otp = compared.otp,
         day'.otp >= day.otp, failures' >= failures, At("code")' \subseteq At("code")
  PROVE  CodesCounted'
  <1>1. Cardinality(At("code")') <= Cardinality(At("code"))
    BY AtFinite, FS_Subset, Zenon
  <1>2. failures \in Nat /\ failures' \in Nat
    BY RecoveryFacts DEF VisitsTyped
  <1>3. compared.otp \in Nat /\ day.otp \in Nat /\ day'.otp \in Nat
    BY DEF LimitsTyped
  <1> QED BY <1>1, <1>2, <1>3, AtFinite, AtFiniteNext, RecoveryFacts DEF CodesCounted

-----------------------------------------------------------------------------
(* Where a request goes, and what is left at the steps the counts speak of.    *)
LEMMA GoesTo ==
  ASSUME VisitsTyped, NEW v \in Visit, NEW m \in RecoverySteps, rpc' = [rpc EXCEPT ![v] = m]
  PROVE  /\ rpc' \in [Visit -> RecoverySteps]
         /\ \A l : l # m => At(l)' \subseteq At(l)
         /\ \A l : l # m /\ rpc[v] = l => Cardinality(At(l)') = Cardinality(At(l)) - 1
  <1>1. rpc' \in [Visit -> RecoverySteps] /\ \A u \in Visit : rpc'[u] = IF u = v THEN m ELSE rpc[u]
    BY DEF VisitsTyped
  <1>2. ASSUME NEW l, l # m PROVE At(l)' \subseteq At(l)
    BY <1>1, <1>2 DEF At
  <1>3. ASSUME NEW l, l # m, rpc[v] = l PROVE Cardinality(At(l)') = Cardinality(At(l)) - 1
    <2>1. At(l)' = At(l) \ {v} /\ v \in At(l)
      BY <1>1, <1>3 DEF At
    <2> QED BY <2>1, AtFinite, FS_RemoveElement
  <1> QED BY <1>1, <1>2, <1>3

(* An attempt on the passcode is recorded, and compared. *)
LEMMA CounterRaised ==
  ASSUME NEW r \in [unlock : Nat, otp : Nat]
  PROVE  /\ [r EXCEPT !.unlock = @ + 1] \in [unlock : Nat, otp : Nat]
         /\ [r EXCEPT !.otp = @ + 1] \in [unlock : Nat, otp : Nat]
  <1>1. r.unlock + 1 \in Nat /\ r.otp + 1 \in Nat
    OBVIOUS
  <1> QED BY <1>1

(* What an unlock counts.                                                      *)
LEMMA UnlockTyped ==
  ASSUME LimitsTyped
  PROVE  /\ RecordUnlock => day' \in [unlock : Nat, otp : Nat] /\ recent' \in Nat
         /\ [compared EXCEPT !.unlock = @ + 1] \in [unlock : Nat, otp : Nat]
  <1>1. /\ day \in [unlock : Nat, otp : Nat] /\ recent \in Nat /\ compared \in [unlock : Nat, otp : Nat]
    BY DEF LimitsTyped
  <1>2. recent + 1 \in Nat
    BY <1>1
  <1> QED BY <1>1, <1>2, CounterRaised, Zenon DEF RecordUnlock

LEMMA SeeDeviceTyped ==
  ASSUME LimitsTyped
  PROVE  SeeDevice \in [attempts : 0..(DeviceMax + 1), trusted : BOOLEAN]
  <1> USE RecoveryFacts
  <1>1. device \in [attempts : 0..(DeviceMax + 1), trusted : BOOLEAN]
    BY DEF LimitsTyped
  <1> PICK n \in 0..(DeviceMax + 1) : n = device.attempts
    BY <1>1
  <1> PICK m \in 0..(DeviceMax + 1) : m = IF n > DeviceMax THEN n ELSE n + 1
    OBVIOUS
  <1>2. [device EXCEPT !.attempts = m] \in [attempts : 0..(DeviceMax + 1), trusted : BOOLEAN]
    BY <1>1
  <1>3. SeeDevice = IF device.trusted THEN device ELSE [device EXCEPT !.attempts = m]
    BY Zenon DEF SeeDevice
  <1> QED BY <1>1, <1>2, <1>3, Zenon

LEMMA LimitsTypedNext ==
  ASSUME LimitsTyped, VisitsTyped, [RecoveryNext]_recoveryVars
  PROVE  LimitsTyped' /\ DOMAIN codes \subseteq DOMAIN codes'
  <1> USE RecoveryFacts
  <1>a. DOMAIN codes = 1..Len(codes) /\ Len(codes) \in Nat
    BY LenProperties DEF LimitsTyped
  <1>b. \A x \in DOMAIN codes : codes[x] \in CodeRow
    BY <1>a, ElementOfSeq DEF LimitsTyped
  <1>c. SeeDevice \in [attempts : 0..(DeviceMax + 1), trusted : BOOLEAN]
    BY SeeDeviceTyped
  <1>d. ASSUME NEW f \in [DOMAIN codes -> CodeRow], codes' = f
        PROVE  codes' \in Seq(CodeRow) /\ DOMAIN codes' = DOMAIN codes
    BY <1>d, RowsMapped DEF LimitsTyped
  <1>1. CASE UNCHANGED recoveryVars
    BY <1>1 DEF recoveryVars, limitVars, LimitsTyped
  <1>2. ASSUME NEW v \in Visit, unlockApp(v) PROVE LimitsTyped' /\ codes' = codes
    <2>1. UNCHANGED <<codes, revoked, device, compared>>
      BY <1>2 DEF unlockApp
    <2>2. RecordUnlock \/ UNCHANGED <<day, recent>>
      BY <1>2, Zenon DEF unlockApp
    <2>3. day' \in [unlock : Nat, otp : Nat] /\ recent' \in Nat
      BY <2>2, UnlockTyped DEF LimitsTyped
    <2> QED BY <2>1, <2>3 DEF LimitsTyped
  <1>3. ASSUME NEW v \in Visit, ComparePasscode(v) PROVE LimitsTyped' /\ codes' = codes
    <2>1. device' \in {device, SeeDevice} /\ UNCHANGED <<codes, revoked>>
      BY <1>3 DEF ComparePasscode
    <2>2. day' \in [unlock : Nat, otp : Nat] /\ recent' \in Nat /\ compared' \in [unlock : Nat, otp : Nat]
      <3>1. (RecordUnlock \/ UNCHANGED <<day, recent>>) /\ compared' = [compared EXCEPT !.unlock = @ + 1]
        BY <1>3, Zenon DEF ComparePasscode
      <3>2. day' \in [unlock : Nat, otp : Nat] /\ recent' \in Nat
        BY <3>1, UnlockTyped DEF LimitsTyped
      <3> QED BY <3>1, <3>2, UnlockTyped, Zenon
    <2> QED BY <2>1, <2>2, <1>c DEF LimitsTyped
  <1>4. ASSUME NEW v \in Visit, SendOtp(v) PROVE LimitsTyped' /\ DOMAIN codes \subseteq DOMAIN codes'
    <2>1. codes' = codes \/ \E e \in CodeRow : codes' = Append(codes, e)
      BY <1>4 DEF SendOtp, CodeRow
    <2>2. UNCHANGED <<day, recent, revoked, device, compared>>
      BY <1>4 DEF SendOtp
    <2>3. CASE codes' = codes
      BY <2>2, <2>3 DEF LimitsTyped
    <2>4. CASE \E e \in CodeRow : codes' = Append(codes, e)
      BY <2>2, <2>4, RowsAppended DEF LimitsTyped
    <2> QED BY <2>1, <2>3, <2>4
  <1>5. ASSUME NEW v \in Visit, verifyRecoveryOtp(v) \/ FindCodeFails(v) PROVE LimitsTyped' /\ codes' = codes
    <2>1. UNCHANGED <<day, recent, codes, device, compared>>
      BY <1>5 DEF verifyRecoveryOtp, FindCodeFails
    <2>2. revoked' = revoked \/ \E x \in DOMAIN codes : revoked' = revoked \cup {x}
      BY <1>5 DEF verifyRecoveryOtp, FindCodeFails
    <2> QED BY <2>1, <2>2 DEF LimitsTyped
  <1>6. ASSUME NEW v \in Visit, CheckLimit(v) PROVE LimitsTyped' /\ DOMAIN codes \subseteq DOMAIN codes'
    <2> DEFINE x == visit[v].code
    <2>1. UNCHANGED <<day, recent, device, compared>>
      BY <1>6 DEF CheckLimit
    <2>2. x \in DOMAIN codes
      BY <1>6 DEF CheckLimit, VisitsTyped
    <2>3. revoked' = revoked \/ revoked' = revoked \cup {x}
      BY <1>6 DEF CheckLimit, Burn
    <2>4. codes' = codes \/ codes' = [codes EXCEPT ![x].open = FALSE]
      BY <1>6 DEF CheckLimit, Burn
    <2>5. [codes EXCEPT ![x].open = FALSE] \in [DOMAIN codes -> CodeRow]
      BY <1>b, <2>2, <1>a, LenProperties DEF CodeRow, LimitsTyped
    <2> QED BY <2>1, <2>2, <2>3, <2>4, <2>5, <1>d DEF LimitsTyped
  <1>7. ASSUME NEW v \in Visit, CompareCode(v) PROVE LimitsTyped' /\ DOMAIN codes \subseteq DOMAIN codes'
    <2> DEFINE x == visit[v].code
               Tried == [codes EXCEPT ![x].tries = @ + 1]
    <2>1. UNCHANGED <<recent, device>>
      BY <1>7 DEF CompareCode
    <2>2. x \in DOMAIN codes
      BY <1>7 DEF CompareCode, VisitsTyped
    <2>3. revoked' = revoked \/ revoked' = revoked \cup {x}
      BY <1>7 DEF CompareCode
    <2>4. codes' = codes \/ codes' = Tried \/ codes' = [Tried EXCEPT ![x].open = FALSE]
      BY <1>7 DEF CompareCode
    <2>5. Tried \in [DOMAIN codes -> CodeRow]
      <3>1. codes[x] \in CodeRow
        BY <1>b, <2>2
      <3>2. [codes[x] EXCEPT !.tries = @ + 1] \in CodeRow
        BY <3>1 DEF CodeRow
      <3>3. codes \in [DOMAIN codes -> CodeRow]
        BY <1>a, LenProperties DEF LimitsTyped
      <3> QED BY <2>2, <3>2, <3>3
    <2>6. [Tried EXCEPT ![x].open = FALSE] \in [DOMAIN codes -> CodeRow]
      <3> HIDE DEF Tried
      <3> QED BY <2>5, <2>2 DEF CodeRow
    <2>7. day' \in [unlock : Nat, otp : Nat] /\ compared' \in [unlock : Nat, otp : Nat]
      <3>1. day' = day \/ day' = [day EXCEPT !.otp = @ + 1]
        BY <1>7 DEF CompareCode
      <3>2. compared' = [compared EXCEPT !.otp = @ + 1]
        BY <1>7 DEF CompareCode
      <3>a. day \in [unlock : Nat, otp : Nat] /\ compared \in [unlock : Nat, otp : Nat]
        BY Zenon DEF LimitsTyped
      <3>3. day' \in [unlock : Nat, otp : Nat]
        BY <3>1, <3>a, CounterRaised, Zenon
      <3>4. compared' \in [unlock : Nat, otp : Nat]
        BY <3>2, <3>a, CounterRaised, Zenon
      <3> QED BY <3>3, <3>4
    <2>8. codes' \in Seq(CodeRow) /\ DOMAIN codes' = DOMAIN codes
      BY <2>4, <2>5, <2>6, <1>d DEF LimitsTyped
    <2> QED BY <2>1, <2>2, <2>3, <2>7, <2>8 DEF LimitsTyped
  <1>8. ASSUME NEW v \in Visit, RotateUserSessions(v) PROVE LimitsTyped' /\ codes' = codes
    BY <1>8 DEF RotateUserSessions, limitVars, LimitsTyped
  <1>9. ASSUME NEW v \in Visit, HandOver(v) PROVE LimitsTyped' /\ codes' = codes
    <2>1. UNCHANGED <<limitVars, compared>>
      BY <1>9 DEF HandOver
    <2>2. device' = device \/ device' = [SeeDevice EXCEPT !.trusted = TRUE]
      BY <1>9 DEF HandOver
    <2>3. device' \in [attempts : 0..(DeviceMax + 1), trusted : BOOLEAN]
      BY <2>2, <1>c DEF LimitsTyped
    <2> QED BY <2>1, <2>3 DEF limitVars, LimitsTyped
  <1>10. CASE QuarterPasses
    <2>1. [x \in DOMAIN codes |-> [codes[x] EXCEPT !.tries = 0]] \in [DOMAIN codes -> CodeRow]
      BY <1>b DEF CodeRow
    <2>2. codes' \in Seq(CodeRow) /\ DOMAIN codes' = DOMAIN codes
      BY <1>10, <2>1, <1>d DEF QuarterPasses
    <2> QED BY <1>10, <2>2 DEF QuarterPasses, LimitsTyped
  <1>11. CASE DayPasses
    <2>1. [x \in DOMAIN codes |-> [open |-> FALSE, token |-> FALSE, tries |-> 0]] \in [DOMAIN codes -> CodeRow]
      BY DEF CodeRow
    <2>2. codes' \in Seq(CodeRow) /\ DOMAIN codes' = DOMAIN codes
      BY <1>11, <2>1, <1>d DEF DayPasses
    <2>3. device' \in [attempts : 0..(DeviceMax + 1), trusted : BOOLEAN]
      BY <1>11 DEF DayPasses, LimitsTyped
    <2> QED BY <1>11, <2>2, <2>3 DEF DayPasses, LimitsTyped
  <1> QED BY <1>1, <1>2, <1>3, <1>4, <1>5, <1>6, <1>7, <1>8, <1>9, <1>10, <1>11 DEF RecoveryNext, recoveryVars, limitVars

(* A request that moves on with its work, one that ends, and the others.       *)
Working(v, m) ==
    /\ visit[v].id > 0 \/ m \notin {"limit", "code", "rotate", "hand"}
    /\ m \in {"limit", "code", "rotate"} => visit[v].code \in DOMAIN codes

VisitMoves(v, m) ==
    /\ rpc' = [rpc EXCEPT ![v] = m]
    /\ \A u \in Visit : u # v => visit'[u] = visit[u]
    /\ visit' \in [Visit -> [id : 0..visits', code : Nat, locks : BOOLEAN]]
    /\ Working(v, m)' /\ (m = "idle" => visit'[v] = NoVisit)
    /\ visits' \in 0..MaxVisits /\ failures' \in 0..MaxFailures

LEMMA VisitsTypedOne ==
  ASSUME VisitsTyped, NEW v \in Visit, NEW m \in RecoverySteps, VisitMoves(v, m),
         DOMAIN codes \subseteq DOMAIN codes'
  PROVE  VisitsTyped'
  <1>1. rpc' \in [Visit -> RecoverySteps] /\ \A u \in Visit : rpc'[u] = IF u = v THEN m ELSE rpc[u]
    BY DEF VisitsTyped, VisitMoves
  <1>2. ASSUME NEW u \in Visit
        PROVE  /\ rpc'[u] = "idle" => visit'[u] = NoVisit
               /\ rpc'[u] \in {"rotate", "hand"} => visit'[u].id > 0
               /\ rpc'[u] \in {"limit", "code", "rotate"} =>
                      visit'[u].code \in DOMAIN codes' /\ visit'[u].id > 0
    <2>1. CASE u = v
      BY <1>1, <2>1 DEF VisitMoves, Working
    <2>2. CASE u # v
      BY <1>1, <2>2 DEF VisitMoves, VisitsTyped
    <2> QED BY <2>1, <2>2
  <1> QED BY <1>1, <1>2 DEF VisitMoves, VisitsTyped

LEMMA VisitsTypedNext ==
  ASSUME LimitsTyped, VisitsTyped, DOMAIN codes \subseteq DOMAIN codes', [RecoveryNext]_recoveryVars
  PROVE  VisitsTyped'
  <1> USE RecoveryFacts
  <1>a. \A u \in Visit : visit[u] \in [id : 0..visits, code : Nat, locks : BOOLEAN]
    BY DEF VisitsTyped
  <1>b. DOMAIN codes \subseteq Nat
    <2>1. DOMAIN codes = 1..Len(codes) /\ Len(codes) \in Nat
      BY LenProperties DEF LimitsTyped
    <2> QED BY <2>1
  <1>c. ASSUME UNCHANGED <<rpc, visit, visits>>, failures' \in 0..MaxFailures PROVE VisitsTyped'
    BY <1>c DEF VisitsTyped
  <1>d. ASSUME UNCHANGED <<rpc, visit>>, visits' = visits + 1, visits < MaxVisits, failures' \in 0..MaxFailures
        PROVE  VisitsTyped'
    BY <1>d DEF VisitsTyped
  <1>e. ASSUME NEW v \in Visit, NEW m \in RecoverySteps, To(v, m), Working(v, m),
               DOMAIN codes \subseteq DOMAIN codes', UNCHANGED visits, failures' \in 0..MaxFailures, m # "idle"
        PROVE  VisitsTyped'
    <2>1. VisitMoves(v, m)
      BY <1>e DEF To, VisitMoves, Working, VisitsTyped
    <2> QED BY <2>1, VisitsTypedOne
  <1>f. ASSUME NEW v \in Visit, Leave(v), UNCHANGED visits, failures' \in 0..MaxFailures
        PROVE  VisitsTyped'
    <2>1. VisitMoves(v, "idle")
      BY <1>f DEF Leave, VisitMoves, Working, VisitsTyped, NoVisit
    <2> QED BY <2>1, VisitsTypedOne DEF RecoverySteps
  <1>g. ASSUME NEW m \in RecoverySteps, NEW v \in Visit, NEW work \in [id : 0..(visits + 1), code : Nat, locks : BOOLEAN],
               rpc' = [rpc EXCEPT ![v] = m], visit' = [visit EXCEPT ![v] = work], m # "idle",
               visits' = visits + 1, visits < MaxVisits, failures' \in 0..MaxFailures, work.id > 0,
               m \in {"limit", "code", "rotate"} => work.code \in DOMAIN codes
        PROVE  VisitsTyped'
    <2>1. visit' \in [Visit -> [id : 0..visits', code : Nat, locks : BOOLEAN]]
      BY <1>g DEF VisitsTyped
    <2>2. visit'[v] = work /\ \A u \in Visit : u # v => visit'[u] = visit[u]
      BY <1>g DEF VisitsTyped
    <2>3. VisitMoves(v, m)
      BY <1>g, <2>1, <2>2 DEF VisitMoves, Working, VisitsTyped
    <2> QED BY <2>3, VisitsTypedOne
  <1>h. failures \in 0..MaxFailures /\ visits \in 0..MaxVisits /\ (Fails => failures' \in 0..MaxFailures)
    BY DEF VisitsTyped, Fails
  <1>1. CASE UNCHANGED recoveryVars
    BY <1>1, <1>c, <1>h DEF recoveryVars
  <1>2. ASSUME NEW v \in Visit, unlockApp(v) PROVE VisitsTyped'
    <2>1. CASE UNCHANGED <<rpc, visit>>
      BY <1>2, <2>1, <1>d, <1>h DEF unlockApp, Comes
    <2>2. CASE rpc' = [rpc EXCEPT ![v] = "passcode"] /\ visit' = [visit EXCEPT ![v].id = visits + 1]
      <3> DEFINE work == [visit[v] EXCEPT !.id = visits + 1]
      <3>1. work \in [id : 0..(visits + 1), code : Nat, locks : BOOLEAN] /\ work.id > 0
        BY <1>a, <1>h
      <3>2. visit' = [visit EXCEPT ![v] = work]
        BY <2>2
      <3>3. visits' = visits + 1 /\ visits < MaxVisits /\ failures' = failures
        BY <1>2 DEF unlockApp, Comes
      <3> HIDE DEF work
      <3> QED BY <2>2, <3>1, <3>2, <3>3, <1>g, <1>h DEF RecoverySteps
    <2> QED BY <1>2, <2>1, <2>2 DEF unlockApp
  <1>3. ASSUME NEW v \in Visit, ComparePasscode(v) PROVE VisitsTyped'
    <2>1. (To(v, "send") \/ Leave(v)) /\ UNCHANGED <<visits, codes>> /\ (UNCHANGED failures \/ Fails)
      BY <1>3 DEF ComparePasscode
    <2>2. Working(v, "send")
      BY DEF Working
    <2> QED BY <2>1, <2>2, <1>e, <1>f, <1>h DEF RecoverySteps
  <1>4. ASSUME NEW v \in Visit, SendOtp(v) PROVE VisitsTyped'
    <2>1. Leave(v) /\ UNCHANGED visits /\ (UNCHANGED failures \/ Fails)
      BY <1>4 DEF SendOtp
    <2> QED BY <2>1, <1>f, <1>h
  <1>5. ASSUME NEW v \in Visit, verifyRecoveryOtp(v) PROVE VisitsTyped'
    <2> PICK x \in DOMAIN codes :
          /\ Comes(v) /\ (UNCHANGED failures \/ Fails)
          /\ \/ /\ rpc' = [rpc EXCEPT ![v] = "limit"]
                /\ visit' = [visit EXCEPT ![v] = [NoVisit EXCEPT !.id = visits + 1, !.code = x]]
             \/ UNCHANGED <<rpc, visit>>
      BY <1>5 DEF verifyRecoveryOtp
    <2>1. visits' = visits + 1 /\ visits < MaxVisits /\ failures' \in 0..MaxFailures
      BY <1>h DEF Comes
    <2>2. CASE UNCHANGED <<rpc, visit>>
      BY <2>1, <2>2, <1>d
    <2>3. CASE /\ rpc' = [rpc EXCEPT ![v] = "limit"]
               /\ visit' = [visit EXCEPT ![v] = [NoVisit EXCEPT !.id = visits + 1, !.code = x]]
      <3> DEFINE work == [NoVisit EXCEPT !.id = visits + 1, !.code = x]
      <3>1. work \in [id : 0..(visits + 1), code : Nat, locks : BOOLEAN] /\ work.id > 0 /\ work.code = x
        <4>1. x \in Nat /\ visits + 1 \in 0..(visits + 1) /\ visits + 1 > 0
          BY <1>b, <1>h
        <4>2. NoVisit \in [id : {0}, code : {0}, locks : {FALSE}]
          BY DEF NoVisit
        <4>3. work.id = visits + 1 /\ work.code = x
          BY <4>2
        <4>4. work \in [id : {visits + 1}, code : {x}, locks : BOOLEAN]
          BY <4>2
        <4> HIDE DEF work
        <4> QED BY <4>1, <4>3, <4>4
      <3>2. visit' = [visit EXCEPT ![v] = work]
        BY <2>3
      <3> HIDE DEF work
      <3> QED BY <2>3, <3>1, <3>2, <2>1, <1>g DEF RecoverySteps
    <2> QED BY <2>2, <2>3
  <1>6. ASSUME NEW v \in Visit, FindCodeFails(v) PROVE VisitsTyped'
    BY <1>6, <1>d, <1>h DEF FindCodeFails, Comes
  <1>7. ASSUME NEW v \in Visit, CheckLimit(v) PROVE VisitsTyped'
    <2>0. UNCHANGED visits /\ failures' \in 0..MaxFailures
      BY <1>7, <1>h DEF CheckLimit
    <2>1. CASE Leave(v)
      BY <2>0, <2>1, <1>f
    <2>2. CASE /\ rpc' = [rpc EXCEPT ![v] = "code"]
               /\ visit' = [visit EXCEPT ![v].locks = codes[visit[v].code].tries + 1 >= IdentifierMax]
               /\ UNCHANGED codes
      <3> PICK lock \in BOOLEAN : visit' = [visit EXCEPT ![v].locks = lock]
        <4> DEFINE lock == codes[visit[v].code].tries + 1 >= IdentifierMax
        <4>1. lock \in BOOLEAN
          OBVIOUS
        <4> QED BY <2>2, <4>1
      <3>1. visit' \in [Visit -> [id : 0..visits, code : Nat, locks : BOOLEAN]]
        BY <1>a DEF VisitsTyped
      <3>2. visit'[v].id = visit[v].id /\ visit'[v].code = visit[v].code
            /\ \A u \in Visit : u # v => visit'[u] = visit[u]
        BY <1>a DEF VisitsTyped
      <3>3. visit[v].code \in DOMAIN codes /\ visit[v].id > 0
        BY <1>7 DEF CheckLimit, VisitsTyped
      <3>4. Working(v, "code")'
        BY <2>2, <3>2, <3>3 DEF Working
      <3>5. VisitMoves(v, "code")
        BY <2>0, <2>2, <3>1, <3>2, <3>4, <1>h DEF VisitMoves
      <3> QED BY <3>5, VisitsTypedOne DEF RecoverySteps
    <2> QED BY <1>7, <2>1, <2>2 DEF CheckLimit
  <1>8. ASSUME NEW v \in Visit, CompareCode(v) PROVE VisitsTyped'
    <2>1. (To(v, "rotate") \/ Leave(v)) /\ UNCHANGED visits /\ (UNCHANGED failures \/ Fails)
      BY <1>8 DEF CompareCode
    <2>2. Working(v, "rotate")
      BY <1>8 DEF CompareCode, Working, VisitsTyped
    <2> QED BY <2>1, <2>2, <1>e, <1>f, <1>h DEF RecoverySteps
  <1>9. ASSUME NEW v \in Visit, RotateUserSessions(v) PROVE VisitsTyped'
    <2>1. To(v, "hand") /\ UNCHANGED visits /\ (UNCHANGED failures \/ Fails)
      BY <1>9 DEF RotateUserSessions
    <2>2. Working(v, "hand")
      BY <1>9 DEF RotateUserSessions, Working, VisitsTyped
    <2> QED BY <2>1, <2>2, <1>e, <1>h DEF RecoverySteps
  <1>10. ASSUME NEW v \in Visit, HandOver(v) PROVE VisitsTyped'
    <2>1. Leave(v) /\ UNCHANGED visits /\ (UNCHANGED failures \/ Fails)
      BY <1>10 DEF HandOver
    <2> QED BY <2>1, <1>f, <1>h
  <1>11. CASE QuarterPasses \/ DayPasses
    BY <1>11, <1>c, <1>h DEF QuarterPasses, DayPasses
  <1> QED BY <1>1, <1>2, <1>3, <1>4, <1>5, <1>6, <1>7, <1>8, <1>9, <1>10, <1>11 DEF RecoveryNext

LEMMA UnlocksCountedNext ==
  ASSUME LimitsTyped, LimitsTyped', VisitsTyped, VisitsTyped', UnlocksCounted, [RecoveryNext]_recoveryVars
  PROVE  UnlocksCounted'
  <1>a. compared \in [unlock : Nat, otp : Nat] /\ day \in [unlock : Nat, otp : Nat]
    BY DEF LimitsTyped
  <1>b. ASSUME NEW v \in Visit, NEW m \in RecoverySteps, rpc' = [rpc EXCEPT ![v] = m], m # "passcode",
               compared'.unlock = compared.unlock, day'.unlock = day.unlock, failures' >= failures
        PROVE  UnlocksCounted'
    <2>1. At("passcode")' \subseteq At("passcode")
      BY <1>b, GoesTo
    <2> QED BY <1>a, <1>b, <2>1, UnlocksStay
  <1>c. ASSUME UNCHANGED rpc, compared'.unlock = compared.unlock, day'.unlock >= day.unlock, failures' >= failures
        PROVE  UnlocksCounted'
    <2>1. At("passcode")' \subseteq At("passcode")
      BY <1>c DEF At
    <2> QED BY <1>c, <2>1, UnlocksStay
  <1>d. failures \in Nat /\ failures' \in Nat /\ (UNCHANGED failures \/ Fails => failures' >= failures)
    BY RecoveryFacts DEF VisitsTyped, Fails
  <1>1. CASE UNCHANGED recoveryVars
    BY <1>1, <1>c, <1>a, <1>d DEF recoveryVars, limitVars
  <1>2. ASSUME NEW v \in Visit, unlockApp(v) PROVE UnlocksCounted'
    <2>f. failures' = failures
      BY <1>2 DEF unlockApp
    <2>1. CASE UNCHANGED rpc /\ RecordUnlock
      BY <1>2, <2>1, <2>f, <1>a, <1>c, <1>d DEF unlockApp, RecordUnlock
    <2>2. CASE Allowed("unlock", recent) /\ UNCHANGED day
      <3>1. day.unlock + day.otp < UserMax /\ compared' = compared
        BY <1>2, <2>2 DEF unlockApp, Allowed, UserRows
      <3> QED BY <2>2, <2>f, <3>1, <1>a, <1>d, AtFiniteNext, RecoveryFacts DEF UnlocksCounted
    <2> QED BY <1>2, <2>1, <2>2 DEF unlockApp
  <1>3. ASSUME NEW v \in Visit, ComparePasscode(v) PROVE UnlocksCounted'
    <2>1. rpc[v] = "passcode" /\ \E m \in {"send", "idle"} : rpc' = [rpc EXCEPT ![v] = m]
      BY <1>3 DEF ComparePasscode, To, Leave
    <2>2. Cardinality(At("passcode")') = Cardinality(At("passcode")) - 1
      BY <2>1, GoesTo DEF RecoverySteps
    <2>3. compared'.unlock = compared.unlock + 1
      <3>1. compared' = [compared EXCEPT !.unlock = @ + 1]
        BY <1>3 DEF ComparePasscode
      <3> QED BY <3>1, <1>a
    <2>4. (day'.unlock = day.unlock + 1 /\ failures' = failures) \/ (day' = day /\ failures' = failures + 1)
      <3>1. \/ day' = [day EXCEPT !.unlock = @ + 1] /\ failures' = failures
            \/ day' = day /\ failures' = failures + 1
        BY <1>3 DEF ComparePasscode, RecordUnlock, Fails
      <3> QED BY <3>1, <1>a
    <2> QED BY <2>2, <2>3, <2>4, <1>a, <1>d, AtFinite, RecoveryFacts DEF UnlocksCounted
  <1>4. ASSUME NEW v \in Visit, SendOtp(v) \/ CheckLimit(v) \/ RotateUserSessions(v) \/ HandOver(v)
        PROVE  UnlocksCounted'
    <2>1. \E m \in {"idle", "code", "hand"} : rpc' = [rpc EXCEPT ![v] = m]
      BY <1>4 DEF SendOtp, CheckLimit, RotateUserSessions, HandOver, To, Leave
    <2>2. UNCHANGED <<compared, day>> /\ (UNCHANGED failures \/ Fails)
      BY <1>4 DEF SendOtp, CheckLimit, RotateUserSessions, HandOver, limitVars
    <2> QED BY <2>1, <2>2, <1>b, <1>d DEF RecoverySteps
  <1>5. ASSUME NEW v \in Visit, verifyRecoveryOtp(v) \/ FindCodeFails(v) PROVE UnlocksCounted'
    <2>1. UNCHANGED <<compared, day>> /\ (UNCHANGED failures \/ Fails)
      BY <1>5 DEF verifyRecoveryOtp, FindCodeFails
    <2>2. rpc' = [rpc EXCEPT ![v] = "limit"] \/ UNCHANGED rpc
      BY <1>5 DEF verifyRecoveryOtp, FindCodeFails
    <2> QED BY <2>1, <2>2, <1>a, <1>b, <1>c, <1>d DEF RecoverySteps
  <1>6. ASSUME NEW v \in Visit, CompareCode(v) PROVE UnlocksCounted'
    <2>1. \E m \in {"idle", "rotate"} : rpc' = [rpc EXCEPT ![v] = m]
      BY <1>6 DEF CompareCode, To, Leave
    <2>2. compared'.unlock = compared.unlock /\ day'.unlock = day.unlock
      <3>1. compared' = [compared EXCEPT !.otp = @ + 1] /\ (day' = day \/ day' = [day EXCEPT !.otp = @ + 1])
        BY <1>6 DEF CompareCode
      <3> QED BY <3>1, <1>a
    <2>3. UNCHANGED failures \/ Fails
      BY <1>6 DEF CompareCode
    <2> QED BY <2>1, <2>2, <2>3, <1>b, <1>d DEF RecoverySteps
  <1>7. CASE QuarterPasses
    BY <1>7, <1>a, <1>c, <1>d DEF QuarterPasses
  <1>8. CASE DayPasses
    <2>1. compared'.unlock = 0 /\ day'.unlock = 0 /\ UNCHANGED rpc /\ At("passcode") = {} /\ failures' = failures
      BY <1>8 DEF DayPasses, At
    <2>2. At("passcode")' = {}
      BY <2>1 DEF At
    <2>3. Cardinality(At("passcode")') = 0
      BY <2>2, FS_EmptySet, Zenon
    <2> QED BY <2>1, <2>3, <1>d, RecoveryFacts DEF UnlocksCounted
  <1> QED BY <1>1, <1>2, <1>3, <1>4, <1>5, <1>6, <1>7, <1>8 DEF RecoveryNext

LEMMA CodesCountedNext ==
  ASSUME LimitsTyped, LimitsTyped', VisitsTyped, VisitsTyped', CodesCounted, [RecoveryNext]_recoveryVars
  PROVE  CodesCounted'
  <1>a. compared \in [unlock : Nat, otp : Nat] /\ day \in [unlock : Nat, otp : Nat]
    BY DEF LimitsTyped
  <1>b. ASSUME NEW v \in Visit, NEW m \in RecoverySteps, rpc' = [rpc EXCEPT ![v] = m], m # "code",
               compared'.otp = compared.otp, day'.otp = day.otp, failures' >= failures
        PROVE  CodesCounted'
    <2>1. At("code")' \subseteq At("code")
      BY <1>b, GoesTo
    <2> QED BY <1>a, <1>b, <2>1, CodesStay
  <1>c. ASSUME UNCHANGED rpc, compared'.otp = compared.otp, day'.otp >= day.otp, failures' >= failures
        PROVE  CodesCounted'
    <2>1. At("code")' \subseteq At("code")
      BY <1>c DEF At
    <2> QED BY <1>c, <2>1, CodesStay
  <1>d. failures \in Nat /\ failures' \in Nat /\ (UNCHANGED failures \/ Fails => failures' >= failures)
    BY RecoveryFacts DEF VisitsTyped, Fails
  <1>1. CASE UNCHANGED recoveryVars
    BY <1>1, <1>c, <1>a, <1>d DEF recoveryVars, limitVars
  <1>2. ASSUME NEW v \in Visit, unlockApp(v) \/ ComparePasscode(v) PROVE CodesCounted'
    <2>1. UNCHANGED rpc \/ \E m \in {"passcode", "send", "idle"} : rpc' = [rpc EXCEPT ![v] = m]
      BY <1>2 DEF unlockApp, ComparePasscode, To, Leave
    <2>2. compared'.otp = compared.otp /\ day'.otp = day.otp /\ (UNCHANGED failures \/ Fails)
      <3>1. compared' = compared \/ compared' = [compared EXCEPT !.unlock = @ + 1]
        BY <1>2 DEF unlockApp, ComparePasscode
      <3>2. day' = day \/ day' = [day EXCEPT !.unlock = @ + 1]
        BY <1>2 DEF unlockApp, ComparePasscode, RecordUnlock
      <3>3. UNCHANGED failures \/ Fails
        BY <1>2 DEF unlockApp, ComparePasscode
      <3> QED BY <3>1, <3>2, <3>3, <1>a
    <2> QED BY <2>1, <2>2, <1>a, <1>b, <1>c, <1>d DEF RecoverySteps
  <1>3. ASSUME NEW v \in Visit, SendOtp(v) \/ RotateUserSessions(v) \/ HandOver(v) PROVE CodesCounted'
    <2>1. \E m \in {"idle", "hand"} : rpc' = [rpc EXCEPT ![v] = m]
      BY <1>3 DEF SendOtp, RotateUserSessions, HandOver, To, Leave
    <2>2. UNCHANGED <<compared, day>> /\ (UNCHANGED failures \/ Fails)
      BY <1>3 DEF SendOtp, RotateUserSessions, HandOver, limitVars
    <2> QED BY <2>1, <2>2, <1>b, <1>d DEF RecoverySteps
  <1>4. ASSUME NEW v \in Visit, verifyRecoveryOtp(v) \/ FindCodeFails(v) PROVE CodesCounted'
    <2>1. UNCHANGED <<compared, day>> /\ (UNCHANGED failures \/ Fails)
      BY <1>4 DEF verifyRecoveryOtp, FindCodeFails
    <2>2. rpc' = [rpc EXCEPT ![v] = "limit"] \/ UNCHANGED rpc
      BY <1>4 DEF verifyRecoveryOtp, FindCodeFails
    <2> QED BY <2>1, <2>2, <1>a, <1>b, <1>c, <1>d DEF RecoverySteps
  <1>5. ASSUME NEW v \in Visit, CheckLimit(v) PROVE CodesCounted'
    <2>1. UNCHANGED <<compared, day>> /\ (UNCHANGED failures \/ Fails)
      BY <1>5 DEF CheckLimit
    <2>2. CASE Leave(v)
      BY <2>1, <2>2, <1>b, <1>d DEF Leave, RecoverySteps
    <2>3. CASE Allowed("otp", codes[visit[v].code].tries) /\ UNCHANGED failures
      <3>1. day.otp < UserMax
        BY <2>3 DEF Allowed, UserRows
      <3> QED BY <2>1, <2>3, <3>1, <1>a, <1>d, AtFiniteNext, RecoveryFacts DEF CodesCounted
    <2> QED BY <1>5, <2>2, <2>3 DEF CheckLimit
  <1>6. ASSUME NEW v \in Visit, CompareCode(v) PROVE CodesCounted'
    <2>1. rpc[v] = "code" /\ \E m \in {"idle", "rotate"} : rpc' = [rpc EXCEPT ![v] = m]
      BY <1>6 DEF CompareCode, To, Leave
    <2>2. Cardinality(At("code")') = Cardinality(At("code")) - 1
      BY <2>1, GoesTo DEF RecoverySteps
    <2>3. compared'.otp = compared.otp + 1
      <3>1. compared' = [compared EXCEPT !.otp = @ + 1]
        BY <1>6 DEF CompareCode
      <3> QED BY <3>1, <1>a
    <2>4. (day'.otp = day.otp + 1 /\ failures' = failures) \/ (day' = day /\ failures' = failures + 1)
      <3>1. \/ day' = [day EXCEPT !.otp = @ + 1] /\ failures' = failures
            \/ day' = day /\ failures' = failures + 1
        BY <1>6 DEF CompareCode, Fails
      <3> QED BY <3>1, <1>a
    <2> QED BY <2>2, <2>3, <2>4, <1>a, <1>d, AtFinite, RecoveryFacts DEF CodesCounted
  <1>7. CASE QuarterPasses
    BY <1>7, <1>a, <1>c, <1>d DEF QuarterPasses
  <1>8. CASE DayPasses
    <2>1. compared'.otp = 0 /\ day'.otp = 0 /\ UNCHANGED rpc /\ At("code") = {} /\ failures' = failures
      BY <1>8 DEF DayPasses, At
    <2>2. At("code")' = {}
      BY <2>1 DEF At
    <2>3. Cardinality(At("code")') = 0
      BY <2>2, FS_EmptySet, Zenon
    <2> QED BY <2>1, <2>3, <1>d, RecoveryFacts DEF CodesCounted
  <1> QED BY <1>1, <1>2, <1>3, <1>4, <1>5, <1>6, <1>7, <1>8 DEF RecoveryNext

LEMMA HandedOverNext ==
  ASSUME VisitsTyped, VisitsTyped', HandedOver, [RecoveryNext]_recoveryVars
  PROVE  HandedOver'
  <1>a. visits \in Nat /\ visits' \in Nat /\ failures \in Nat
    BY RecoveryFacts DEF VisitsTyped
  <1>b. ASSUME UNCHANGED <<sessions, rotated>>, visits' >= visits, failures' >= failures,
               \A v \in Visit : rpc[v] = "hand" => rpc'[v] = "hand"
        PROVE  HandedOver'
    <2>1. sessions' \subseteq 0..visits'
      BY <1>a, <1>b DEF HandedOver
    <2>2. failures' = 0 => failures = 0
      BY <1>a, <1>b
    <2> QED BY <1>b, <2>1, <2>2 DEF HandedOver
  <1>1. CASE UNCHANGED recoveryVars
    BY <1>1, <1>a, <1>b DEF recoveryVars
  <1>2. ASSUME NEW v \in Visit,
               \/ unlockApp(v) \/ ComparePasscode(v) \/ SendOtp(v) \/ verifyRecoveryOtp(v)
               \/ FindCodeFails(v) \/ CheckLimit(v) \/ CompareCode(v)
        PROVE  HandedOver'
    <2>1. rpc[v] # "hand" /\ (UNCHANGED rpc \/ \E m : rpc' = [rpc EXCEPT ![v] = m])
      BY <1>2 DEF unlockApp, ComparePasscode, SendOtp, verifyRecoveryOtp, FindCodeFails, CheckLimit, CompareCode,
                  Comes, To, Leave
    <2>2. UNCHANGED <<sessions, rotated>>
      BY <1>2 DEF unlockApp, ComparePasscode, SendOtp, verifyRecoveryOtp, FindCodeFails, CheckLimit, CompareCode
    <2>3. (UNCHANGED visits \/ visits' = visits + 1) /\ (UNCHANGED failures \/ failures' = failures + 1)
      BY <1>2 DEF unlockApp, ComparePasscode, SendOtp, verifyRecoveryOtp, FindCodeFails, CheckLimit, CompareCode,
                  Comes, Fails
    <2>4. \A u \in Visit : rpc[u] = "hand" => rpc'[u] = "hand"
      BY <2>1 DEF VisitsTyped
    <2> QED BY <2>2, <2>3, <2>4, <1>a, <1>b
  <1>3. ASSUME NEW v \in Visit, RotateUserSessions(v) PROVE HandedOver'
    <2>1. rpc'[v] = "hand" /\ UNCHANGED visits
      BY <1>3 DEF RotateUserSessions, To, VisitsTyped
    <2>2. (sessions' = {} /\ UNCHANGED failures) \/ (sessions' = sessions /\ failures' = failures + 1)
      BY <1>3 DEF RotateUserSessions, Fails
    <2>3. sessions' = {} \/ failures' # 0
      BY <2>2, <1>a
    <2> QED BY <2>1, <2>2, <2>3 DEF HandedOver
  <1>4. ASSUME NEW v \in Visit, HandOver(v) PROVE HandedOver'
    <2>1. visit[v].id > 0 /\ visit[v].id \in 0..visits
      BY <1>4 DEF HandOver, VisitsTyped
    <2>2. \/ sessions' = sessions \cup {visit[v].id} /\ UNCHANGED failures
          \/ sessions' = sessions /\ failures' = failures + 1
      BY <1>4 DEF HandOver, Fails
    <2>3. UNCHANGED <<visits, rotated>>
      BY <1>4 DEF HandOver
    <2>4. sessions' \subseteq 0..visits'
      BY <2>1, <2>2, <2>3 DEF HandedOver
    <2>5. CASE sessions' = sessions \cup {visit[v].id} /\ UNCHANGED failures
      BY <2>1, <2>3, <2>4, <2>5 DEF HandedOver
    <2>6. CASE failures' = failures + 1
      BY <2>4, <2>6, <1>a DEF HandedOver
    <2> QED BY <2>2, <2>5, <2>6
  <1>5. CASE QuarterPasses \/ DayPasses
    BY <1>5, <1>a, <1>b DEF QuarterPasses, DayPasses
  <1> QED BY <1>1, <1>2, <1>3, <1>4, <1>5 DEF RecoveryNext

(* Passcodes and codes compared in a day stay within UserMax, the requests     *)
(* that run at once and the calls that failed, and a recovery leaves the       *)
(* account with its own key and no older one: the limits are asked before the  *)
(* comparison and an attempt is recorded after it unless a call fails, and     *)
(* each rotation is followed by a key.                                         *)
THEOREM RecoveryIsBounded == RecoverySpec => []RecoverySound
  <1>1. ASSUME RecoveryInv PROVE RecoverySound
    <2>1. RecoveryTypeOK
      <3>1. \A x \in DOMAIN codes : codes[x] \in CodeRow
        BY <1>1, LenProperties, ElementOfSeq DEF RecoveryInv, LimitsTyped
      <3> QED BY <1>1, <3>1 DEF RecoveryInv, LimitsTyped, VisitsTyped, HandedOver, RecoveryTypeOK, CodeRow
    <2>2. AttemptsBounded
      <3>1. compared \in [unlock : Nat, otp : Nat] /\ failures \in Nat
        BY <1>1, RecoveryFacts DEF RecoveryInv, LimitsTyped, VisitsTyped
      <3> QED BY <1>1, <3>1, AtFinite, RecoveryFacts DEF RecoveryInv, UnlocksCounted, CodesCounted, AttemptsBounded
    <2>3. SessionsHandedOver
      BY <1>1 DEF RecoveryInv, HandedOver, SessionsHandedOver
    <2> QED BY <2>1, <2>2, <2>3 DEF RecoverySound
  <1>2. RecoveryInv /\ [RecoveryNext]_recoveryVars => RecoveryInv'
    <2> SUFFICES ASSUME RecoveryInv, [RecoveryNext]_recoveryVars PROVE RecoveryInv'
      OBVIOUS
    <2>1. LimitsTyped' /\ DOMAIN codes \subseteq DOMAIN codes'
      BY LimitsTypedNext DEF RecoveryInv
    <2>2. VisitsTyped'
      BY <2>1, VisitsTypedNext DEF RecoveryInv
    <2> QED BY <2>1, <2>2, UnlocksCountedNext, CodesCountedNext, HandedOverNext DEF RecoveryInv
  <1> QED BY <1>1, <1>2, RecoveryInitInv, PTL DEF RecoverySpec

-----------------------------------------------------------------------------
(* Sign-in, challenge tokens, keys and refresh tokens. *)

AuthSteps  == {"idle", "compare", "challenge", "key", "refresh", "claim", "factor", "family"}
Operations == {"none", "signin", "verify", "admin", "break", "mfa", "exchange", "revoke"}
CallRecord == [op : Operations, on : Nat, failed : 0..MaxAttempts, method : Methods, at : Instance \cup {0}]
KeyRecord  == [type : {"USER_KEY", "ADMIN_KEY", "BREAK_GLASS_KEY"}, live : BOOLEAN]

UserTyped ==
    /\ user \in [method : Methods, passcode : BOOLEAN, failed : 0..MaxAttempts, locked : BOOLEAN]
    /\ calls \in 0..MaxCalls /\ outages \in 0..MaxOutages
    /\ guesses \in Nat

KeysTyped == otps \in Seq({"open", "used"}) /\ keys \in Seq(KeyRecord)

ChallengesTyped ==
    /\ chals \in Seq({"valid", "grace", "expired"}) /\ codesTried \in Seq(Nat) /\ Len(codesTried) = Len(chals)
    /\ denied \subseteq DOMAIN chals /\ local \in [Instance -> SUBSET DOMAIN chals]

TokensTyped == tokens \in Seq({"live", "revoked"}) /\ uses \in Seq(Nat) /\ Len(uses) = Len(tokens)

(* What a request at a step works on. *)
CallOk(l, work) ==
    /\ l = "idle" => work = NoCall
    /\ l \in {"claim", "factor"} => work.op \in {"verify", "admin", "break"} /\ work.on \in DOMAIN chals
    /\ l = "claim" => work.at \in Instance
    /\ l = "family" => work.op \in {"exchange", "revoke"} /\ work.on \in DOMAIN tokens

CallsTyped ==
    /\ apc \in [Client -> AuthSteps] /\ call \in [Client -> CallRecord]
    /\ \A c \in Client : CallOk(apc[c], call[c])

(* As long as no two attempts overlap, the one under way holds the counter of   *)
(* an account that is not locked, and wrong guesses are within the counter and   *)
(* the calls that failed.                                                        *)
Guarded ==
    ~overlap =>
        /\ guesses <= user.failed + outages /\ (~user.locked => guesses < MaxAttempts + outages)
        /\ \A c \in Client : apc[c] = "compare" => ~user.locked /\ call[c].failed = user.failed
        /\ \A c, d \in Client : apc[c] = "compare" /\ apc[d] = "compare" => c = d

(* A token that was let through while valid is on the list, and the request it   *)
(* let through is the only one that has compared a code or is about to.          *)
LetThrough(c, x) == apc[c] = "factor" /\ call[c].on = x

ClaimedOnce ==
    \A x \in DOMAIN chals : <<"challenge", x>> \notin clouded =>
        /\ codesTried[x] <= 1
        /\ codesTried[x] > 0 /\ chals[x] = "valid" => x \in denied
        /\ \A c \in Client : LetThrough(c, x) => codesTried[x] = 0 /\ (chals[x] = "valid" => x \in denied)
        /\ \A c, d \in Client : LetThrough(c, x) /\ LetThrough(d, x) => c = d

(* The exchange of a token that is under way is the only one so far. *)
Exchanges(c, t) == apc[c] = "family" /\ call[c].op = "exchange" /\ call[c].on = t

ExchangedOnce ==
    \A t \in DOMAIN tokens : <<"token", t>> \notin clouded =>
        /\ uses[t] <= 1 /\ (tokens[t] = "live" => uses[t] = 0)
        /\ \A c \in Client : Exchanges(c, t) => uses[t] = 0
        /\ \A c, d \in Client : Exchanges(c, t) /\ Exchanges(d, t) => c = d

AuthTyped == UserTyped /\ KeysTyped /\ ChallengesTyped /\ TokensTyped /\ CallsTyped
AuthInv   == AuthTyped /\ Guarded /\ ClaimedOnce /\ ExchangedOnce

LEMMA AuthFacts == MaxAttempts \in Nat \ {0} /\ MaxCalls \in Nat /\ MaxOutages \in Nat
  BY AuthAssumption

LEMMA OneRow ==
  ASSUME NEW S, NEW e \in S
  PROVE  <<e>> \in Seq(S) /\ Len(<<e>>) = 1 /\ <<e>>[1] = e /\ <<>> \in Seq(S) /\ Len(<<>>) = 0
  BY EmptySeq

LEMMA AuthInitInv == AuthInit => AuthInv
  <1> SUFFICES ASSUME AuthInit PROVE AuthInv
    OBVIOUS
  <1> USE AuthFacts
  <1>m. PICK m \in Methods :
          /\ user = [method |-> m, passcode |-> TRUE, failed |-> 0, locked |-> FALSE]
          /\ otps  = IF m = "otp" THEN <<"open">> ELSE <<>>
          /\ chals = IF m = "none" THEN <<>> ELSE <<"valid">>
          /\ codesTried  = IF m = "none" THEN <<>> ELSE <<0>>
    BY DEF AuthInit
  <1>1. UserTyped
    <2>1. user \in [method : Methods, passcode : BOOLEAN, failed : 0..MaxAttempts, locked : BOOLEAN]
      BY <1>m
    <2> QED BY <2>1 DEF AuthInit, UserTyped
  <1>2. KeysTyped
    <2>1. otps \in Seq({"open", "used"})
      BY <1>m, OneRow
    <2>2. [type |-> "USER_KEY", live |-> TRUE] \in KeyRecord
      BY DEF KeyRecord
    <2> QED BY <2>1, <2>2, OneRow DEF AuthInit, KeysTyped
  <1>3. ChallengesTyped /\ ClaimedOnce
    <2>1. denied = {} /\ local = [i \in Instance |-> {}] /\ clouded = {} /\ \A c \in Client : apc[c] = "idle"
      BY DEF AuthInit
    <2>2. CASE m = "none"
      <3>1. chals = <<>> /\ codesTried = <<>> /\ DOMAIN chals = {}
        BY <1>m, <2>2
      <3> QED BY <2>1, <3>1, EmptySeq DEF ChallengesTyped, ClaimedOnce
    <2>3. CASE m # "none"
      <3>1. chals = <<"valid">> /\ codesTried = <<0>>
        BY <1>m, <2>3
      <3>2. chals \in Seq({"valid", "grace", "expired"}) /\ codesTried \in Seq(Nat) /\ Len(codesTried) = Len(chals)
            /\ DOMAIN chals = {1} /\ codesTried[1] = 0
        BY <3>1, OneRow
      <3>3. ChallengesTyped
        BY <2>1, <3>2 DEF ChallengesTyped
      <3>4. \A x \in DOMAIN chals : codesTried[x] = 0 /\ \A c \in Client : ~LetThrough(c, x)
        BY <2>1, <3>2 DEF LetThrough
      <3> QED BY ONLY <3>3, <3>4, 0 <= 1, ~(0 > 0) DEF ClaimedOnce
    <2> QED BY <2>2, <2>3
  <1>4. TokensTyped /\ tokens = <<"live">> /\ uses = <<0>>
    BY OneRow DEF AuthInit, TokensTyped
  <1>5. CallsTyped
    BY DEF AuthInit, CallsTyped, CallOk, CallRecord, NoCall, Operations, Methods, AuthSteps
  <1>6. Guarded
    BY <1>m DEF AuthInit, Guarded
  <1>7. ExchangedOnce
    <2>1. DOMAIN tokens = {1} /\ uses[1] = 0 /\ \A c \in Client : apc[c] = "idle"
      BY <1>4 DEF AuthInit
    <2> QED BY <2>1 DEF ExchangedOnce, Exchanges
  <1> QED BY <1>1, <1>2, <1>3, <1>4, <1>5, <1>6, <1>7 DEF AuthInv, AuthTyped

-----------------------------------------------------------------------------
LEMMA UserTypedNext ==
  ASSUME UserTyped, CallsTyped, [AuthNext]_authVars
  PROVE  UserTyped'
  <1> USE AuthFacts
  <1>1. CASE UNCHANGED authVars
    BY <1>1 DEF authVars, rowVars, pastVars, UserTyped
  <1>2. ASSUME NEW c \in Client, Wrong(c) PROVE UserTyped'
    <2> PICK f \in 0..MaxAttempts : f = call[c].failed
      BY DEF CallsTyped, CallRecord
    <2>1. user' = user \/ user' = [user EXCEPT !.failed = IF f + 1 < MaxAttempts THEN f + 1 ELSE MaxAttempts,
                                               !.locked = isLockout(f)]
      BY <1>2 DEF Wrong
    <2>2. isLockout(f) \in BOOLEAN /\ (IF f + 1 < MaxAttempts THEN f + 1 ELSE MaxAttempts) \in 0..MaxAttempts
      BY DEF isLockout
    <2>3. user' \in [method : Methods, passcode : BOOLEAN, failed : 0..MaxAttempts, locked : BOOLEAN]
      BY <2>1, <2>2 DEF UserTyped
    <2>4. guesses' = guesses + 1 /\ UNCHANGED calls /\ (UNCHANGED outages \/ Down)
      BY <1>2 DEF Wrong
    <2>5. guesses' \in Nat /\ outages' \in 0..MaxOutages
      BY <2>4 DEF UserTyped, Down
    <2> QED BY <2>3, <2>4, <2>5 DEF UserTyped
  <1>3. ASSUME NEW c \in Client, Right(c) PROVE UserTyped'
    <2>1. user' \in [method : Methods, passcode : BOOLEAN, failed : 0..MaxAttempts, locked : BOOLEAN]
      <3>1. user' = [user EXCEPT !.failed = 0, !.locked = FALSE] /\ 0 \in 0..MaxAttempts
        BY <1>3 DEF Right
      <3> QED BY <3>1 DEF UserTyped
    <2> QED BY <1>3, <2>1 DEF Right, UserTyped
  <1>4. ASSUME NEW c \in Client, signin(c) PROVE UserTyped'
    BY <1>4 DEF signin, Starts, rowVars, UserTyped
  <1>5. ASSUME NEW c \in Client, SendChallenge(c) \/ IssueKey(c) \/ IssueRefresh(c) \/ RevokeFamily(c)
        PROVE  UserTyped'
    BY <1>5 DEF SendChallenge, IssueKey, IssueRefresh, RevokeFamily, pastVars, UserTyped
  <1>6. ASSUME NEW c \in Client, Claim(c) PROVE UserTyped'
    <2>1. UNCHANGED <<user, calls, guesses>>
      BY <1>6 DEF Claim, rowVars
    <2>2. outages' = outages \/ (outages < MaxOutages /\ outages' = outages + 1)
      BY <1>6 DEF Claim, Down
    <2> QED BY <2>1, <2>2 DEF UserTyped
  <1>7. ASSUME NEW c \in Client, NEW op, Presents(c, op) \/ FindToken(c, op) PROVE UserTyped'
    <2>1. UNCHANGED <<user, outages, guesses>> /\ calls' = calls + 1 /\ calls < MaxCalls
      BY <1>7 DEF Presents, FindToken, Starts, rowVars, pastVars
    <2> QED BY <2>1 DEF UserTyped
  <1>8. ASSUME NEW c \in Client, FindForVerify(c) PROVE UserTyped'
    BY <1>8 DEF FindForVerify, rowVars, UserTyped
  <1>9. ASSUME NEW c \in Client, VerifyMfaChallengeForUser(c) \/ requestAdminMfaChallenge(c) PROVE UserTyped'
    BY <1>9 DEF VerifyMfaChallengeForUser, requestAdminMfaChallenge, Starts, rowVars, pastVars, UserTyped
  <1>10. ASSUME NEW k, Revokes(k) \/ KeyExpires(k) PROVE UserTyped'
    BY <1>10 DEF Revokes, KeyExpires, pastVars, UserTyped
  <1>11. CASE tombstoneDeleteUser
    <2>1. user' \in [method : Methods, passcode : BOOLEAN, failed : 0..MaxAttempts, locked : BOOLEAN]
      BY <1>11 DEF tombstoneDeleteUser, UserTyped, Methods
    <2>2. calls' \in 0..MaxCalls /\ UNCHANGED <<outages, guesses>>
      BY <1>11 DEF tombstoneDeleteUser, pastVars, UserTyped
    <2> QED BY <2>1, <2>2 DEF UserTyped
  <1>12. CASE LockoutEnds
    <2>1. user' \in [method : Methods, passcode : BOOLEAN, failed : 0..MaxAttempts, locked : BOOLEAN]
      BY <1>12 DEF LockoutEnds, UserTyped
    <2> QED BY <1>12, <2>1 DEF LockoutEnds, UserTyped
  <1>13. ASSUME NEW x, TokenExpires(x) PROVE UserTyped'
    BY <1>13 DEF TokenExpires, rowVars, pastVars, UserTyped
  <1>14. ASSUME NEW c \in Client, Abandon(c) PROVE UserTyped'
    BY <1>14 DEF Abandon, Down, rowVars, pastVars, UserTyped
  <1> QED BY <1>1, <1>2, <1>3, <1>4, <1>5, <1>6, <1>7, <1>8, <1>9, <1>10, <1>11, <1>12, <1>13, <1>14
          DEF AuthNext, verify2fa, issueAdminKey, issueBreakGlassKey, refreshAccessToken, revokeRefreshToken,
              postSignout, revokePrivilegedKey

LEMMA KeysTypedNext ==
  ASSUME KeysTyped, [AuthNext]_authVars
  PROVE  KeysTyped'
  <1>a. ASSUME UNCHANGED <<otps, keys>> PROVE KeysTyped'
    BY <1>a DEF KeysTyped
  <1>b. ASSUME NEW k \in DOMAIN keys, keys' = [keys EXCEPT ![k].live = FALSE] PROVE keys' \in Seq(KeyRecord)
    <2>1. k \in 1..Len(keys) /\ keys[k] \in KeyRecord
      BY LenProperties, ElementOfSeq DEF KeysTyped
    <2>2. [keys[k] EXCEPT !.live = FALSE] \in KeyRecord
      BY <2>1 DEF KeyRecord
    <2> QED BY <1>b, <2>1, <2>2, ExceptSeq DEF KeysTyped
  <1>1. CASE UNCHANGED authVars
    BY <1>1, <1>a DEF authVars, rowVars
  <1>2. ASSUME NEW c \in Client, \/ Wrong(c) \/ Right(c) \/ signin(c) \/ Claim(c) \/ FindForVerify(c)
                                 \/ Abandon(c)
        PROVE  KeysTyped'
    BY <1>2, <1>a DEF Wrong, Right, signin, Claim, FindForVerify, Abandon, rowVars
  <1>3. ASSUME NEW c \in Client, IssueRefresh(c) \/ RevokeFamily(c) \/ requestAdminMfaChallenge(c) PROVE KeysTyped'
    BY <1>3, <1>a DEF IssueRefresh, RevokeFamily, requestAdminMfaChallenge, rowVars
  <1>4. ASSUME NEW c \in Client, SendChallenge(c) PROVE KeysTyped'
    <2>1. (otps' = otps \/ otps' = Append(otps, "open")) /\ UNCHANGED keys
      BY <1>4 DEF SendChallenge
    <2> QED BY <2>1, RowsAppended DEF KeysTyped
  <1>5. ASSUME NEW c \in Client, IssueKey(c) PROVE KeysTyped'
    <2>1. UNCHANGED otps /\ \E type \in {"USER_KEY", "ADMIN_KEY", "BREAK_GLASS_KEY"} :
              keys' = Append(keys, [type |-> type, live |-> TRUE])
      BY <1>5 DEF IssueKey, generateApiKey
    <2>2. \A type \in {"USER_KEY", "ADMIN_KEY", "BREAK_GLASS_KEY"} : [type |-> type, live |-> TRUE] \in KeyRecord
      BY DEF KeyRecord
    <2>3. \E e \in KeyRecord : keys' = Append(keys, e)
      BY <2>1, <2>2
    <2>4. keys' \in Seq(KeyRecord)
      BY <2>3, RowsAppended DEF KeysTyped
    <2> QED BY <2>1, <2>4 DEF KeysTyped
  <1>6. ASSUME NEW c \in Client, NEW op, Presents(c, op) \/ FindToken(c, op) PROVE KeysTyped'
    BY <1>6, <1>a DEF Presents, FindToken, rowVars
  <1>7. ASSUME NEW c \in Client, VerifyMfaChallengeForUser(c) PROVE KeysTyped'
    <2>1. UNCHANGED keys /\ (otps' = otps \/ otps' = [o \in DOMAIN otps |->
              IF user.method = "otp" /\ o \in NewestOpen THEN "used" ELSE otps[o]])
      BY <1>7 DEF VerifyMfaChallengeForUser
    <2>2. otps \in [DOMAIN otps -> {"open", "used"}]
      BY LenProperties DEF KeysTyped
    <2>3. [o \in DOMAIN otps |-> IF user.method = "otp" /\ o \in NewestOpen THEN "used" ELSE otps[o]]
              \in [DOMAIN otps -> {"open", "used"}]
      BY <2>2
    <2> QED BY <2>1, <2>3, RowsMapped DEF KeysTyped
  <1>8. ASSUME NEW k \in DOMAIN keys, Revokes(k) \/ KeyExpires(k) PROVE KeysTyped'
    BY <1>8, <1>b DEF Revokes, KeyExpires, KeysTyped
  <1>9. CASE tombstoneDeleteUser
    <2>1. otps' = <<>> /\ keys' = [k \in DOMAIN keys |-> [keys[k] EXCEPT !.live = FALSE]]
      BY <1>9 DEF tombstoneDeleteUser
    <2>2. \A k \in DOMAIN keys : keys[k] \in KeyRecord
      BY LenProperties, ElementOfSeq DEF KeysTyped
    <2>3. [k \in DOMAIN keys |-> [keys[k] EXCEPT !.live = FALSE]] \in [DOMAIN keys -> KeyRecord]
      BY <2>2 DEF KeyRecord
    <2> QED BY <2>1, <2>3, RowsMapped, EmptySeq DEF KeysTyped
  <1>10. CASE LockoutEnds
    BY <1>10, <1>a DEF LockoutEnds
  <1>11. ASSUME NEW x, TokenExpires(x) PROVE KeysTyped'
    BY <1>11, <1>a DEF TokenExpires, rowVars
  <1> QED BY <1>1, <1>2, <1>3, <1>4, <1>5, <1>6, <1>7, <1>8, <1>9, <1>10, <1>11
          DEF AuthNext, verify2fa, issueAdminKey, issueBreakGlassKey, refreshAccessToken, revokeRefreshToken,
              postSignout, revokePrivilegedKey, Accepts

LEMMA ChallengesTypedNext ==
  ASSUME ChallengesTyped, CallsTyped, [AuthNext]_authVars
  PROVE  ChallengesTyped' /\ DOMAIN chals \subseteq DOMAIN chals'
  <1>a. ASSUME UNCHANGED <<chals, codesTried, denied, local>>
        PROVE  ChallengesTyped' /\ DOMAIN chals \subseteq DOMAIN chals'
    BY <1>a DEF ChallengesTyped
  <1>b. DOMAIN chals = 1..Len(chals) /\ DOMAIN codesTried = 1..Len(chals) /\ Len(chals) \in Nat
    BY LenProperties DEF ChallengesTyped
  <1>1. CASE UNCHANGED authVars
    BY <1>1, <1>a DEF authVars, listVars, pastVars
  <1>2. ASSUME NEW c \in Client, Wrong(c) \/ Right(c) \/ signin(c) \/ Abandon(c)
        PROVE  ChallengesTyped' /\ DOMAIN chals \subseteq DOMAIN chals'
    BY <1>2, <1>a DEF Wrong, Right, signin, Abandon, listVars, pastVars
  <1>3. ASSUME NEW c \in Client, \/ IssueKey(c) \/ IssueRefresh(c) \/ RevokeFamily(c)
                                 \/ requestAdminMfaChallenge(c) \/ \E op : Presents(c, op) \/ FindToken(c, op)
        PROVE  ChallengesTyped' /\ DOMAIN chals \subseteq DOMAIN chals'
    BY <1>3, <1>a DEF IssueKey, IssueRefresh, RevokeFamily, requestAdminMfaChallenge,
                      Presents, FindToken, listVars, pastVars
  <1>4. ASSUME NEW c \in Client, SendChallenge(c)
        PROVE  ChallengesTyped' /\ DOMAIN chals \subseteq DOMAIN chals'
    <2>1. UNCHANGED <<denied, local>> /\ (UNCHANGED <<chals, codesTried>> \/ signChallengeToken)
      BY <1>4 DEF SendChallenge
    <2>2. CASE signChallengeToken
      <3>1. /\ chals' \in Seq({"valid", "grace", "expired"}) /\ Len(chals') = Len(chals) + 1
            /\ DOMAIN chals \subseteq DOMAIN chals'
        BY <2>2, RowsAppended DEF signChallengeToken, ChallengesTyped
      <3>2. codesTried' \in Seq(Nat) /\ Len(codesTried') = Len(codesTried) + 1
        BY <2>2, RowsAppended DEF signChallengeToken, ChallengesTyped
      <3>3. denied' \subseteq DOMAIN chals' /\ local' \in [Instance -> SUBSET DOMAIN chals']
        BY <2>1, <3>1 DEF ChallengesTyped
      <3> QED BY <3>1, <3>2, <3>3 DEF ChallengesTyped
    <2> QED BY <2>1, <2>2, <1>a
  <1>5. ASSUME NEW c \in Client, Claim(c)
        PROVE  ChallengesTyped' /\ DOMAIN chals \subseteq DOMAIN chals'
    <2> PICK x \in DOMAIN chals : x = call[c].on
      BY <1>5 DEF Claim, CallsTyped, CallOk
    <2> PICK i \in Instance : i = call[c].at
      BY <1>5 DEF Claim, CallsTyped, CallOk
    <2>1. UNCHANGED chals /\ (denied' = denied \/ denied' = denied \cup {x})
      BY <1>5 DEF Claim
    <2>2. local' = local \/ local' = [local EXCEPT ![i] = @ \cup {x}]
      BY <1>5 DEF Claim
    <2>3. UNCHANGED codesTried
      BY <1>5 DEF Claim
    <2>4. local' \in [Instance -> SUBSET DOMAIN chals]
      BY <2>2 DEF ChallengesTyped
    <2> QED BY <2>1, <2>3, <2>4 DEF ChallengesTyped
  <1>6. ASSUME NEW k, Revokes(k) \/ KeyExpires(k)
        PROVE  ChallengesTyped' /\ DOMAIN chals \subseteq DOMAIN chals'
    BY <1>6, <1>a DEF Revokes, KeyExpires, listVars, pastVars
  <1>7. CASE tombstoneDeleteUser \/ LockoutEnds
    BY <1>7, <1>a DEF tombstoneDeleteUser, LockoutEnds, listVars, pastVars
  <1>8. ASSUME NEW x \in DOMAIN chals, TokenExpires(x)
        PROVE  ChallengesTyped' /\ DOMAIN chals \subseteq DOMAIN chals'
    <2>1. chals' = [chals EXCEPT ![x] = IF @ = "valid" THEN "grace" ELSE "expired"]
      BY <1>8 DEF TokenExpires
    <2> PICK e \in {"valid", "grace", "expired"} : e = IF chals[x] = "valid" THEN "grace" ELSE "expired"
      OBVIOUS
    <2>2. chals' = [chals EXCEPT ![x] = e]
      BY <2>1
    <2>3. chals' \in Seq({"valid", "grace", "expired"}) /\ Len(chals') = Len(chals)
      BY <2>2, <1>b, ExceptSeq DEF ChallengesTyped
    <2>4. DOMAIN chals' = DOMAIN chals
      BY <2>2
    <2>5. denied' \subseteq DOMAIN chals /\ local' \in [Instance -> SUBSET DOMAIN chals]
      BY <1>8 DEF TokenExpires, ChallengesTyped
    <2>6. UNCHANGED codesTried
      BY <1>8 DEF TokenExpires, pastVars
    <2> QED BY <2>3, <2>4, <2>5, <2>6 DEF ChallengesTyped
  <1>9. ASSUME NEW c \in Client, FindForVerify(c) \/ VerifyMfaChallengeForUser(c)
        PROVE  ChallengesTyped' /\ DOMAIN chals \subseteq DOMAIN chals'
    <2> PICK x \in DOMAIN chals : x = call[c].on
      BY <1>9 DEF FindForVerify, VerifyMfaChallengeForUser, CallsTyped, CallOk
    <2>1. UNCHANGED <<chals, denied, local>> /\ (UNCHANGED codesTried \/ codesTried' = [codesTried EXCEPT ![x] = @ + 1])
      BY <1>9 DEF FindForVerify, VerifyMfaChallengeForUser, Tries, listVars
    <2>2. x \in 1..Len(codesTried) /\ codesTried[x] + 1 \in Nat
      BY <1>b, ElementOfSeq DEF ChallengesTyped
    <2>3. codesTried' \in Seq(Nat) /\ Len(codesTried') = Len(codesTried)
      BY <2>1, <2>2, ExceptSeq DEF ChallengesTyped
    <2> QED BY <2>1, <2>3 DEF ChallengesTyped
  <1> QED BY <1>1, <1>2, <1>3, <1>4, <1>5, <1>6, <1>7, <1>8, <1>9
          DEF AuthNext, verify2fa, issueAdminKey, issueBreakGlassKey, refreshAccessToken, revokeRefreshToken,
              postSignout, revokePrivilegedKey

LEMMA TokensTypedNext ==
  ASSUME TokensTyped, CallsTyped, [AuthNext]_authVars
  PROVE  TokensTyped' /\ DOMAIN tokens \subseteq DOMAIN tokens'
  <1>a. ASSUME UNCHANGED <<tokens, uses>>
        PROVE  TokensTyped' /\ DOMAIN tokens \subseteq DOMAIN tokens'
    BY <1>a DEF TokensTyped
  <1>b. DOMAIN tokens = 1..Len(tokens) /\ DOMAIN uses = 1..Len(tokens) /\ Len(tokens) \in Nat
    BY LenProperties DEF TokensTyped
  <1>1. CASE UNCHANGED authVars
    BY <1>1, <1>a DEF authVars, rowVars, pastVars
  <1>2. ASSUME NEW c \in Client, Wrong(c) \/ Right(c) \/ signin(c) \/ FindForVerify(c) \/ Claim(c) \/ Abandon(c)
        PROVE  TokensTyped' /\ DOMAIN tokens \subseteq DOMAIN tokens'
    BY <1>2, <1>a DEF Wrong, Right, signin, FindForVerify, Claim, Abandon, rowVars, pastVars
  <1>3. ASSUME NEW c \in Client, \/ IssueKey(c) \/ SendChallenge(c) \/ VerifyMfaChallengeForUser(c)
                                 \/ requestAdminMfaChallenge(c) \/ \E op : Presents(c, op) \/ FindToken(c, op)
        PROVE  TokensTyped' /\ DOMAIN tokens \subseteq DOMAIN tokens'
    BY <1>3, <1>a DEF IssueKey, SendChallenge, VerifyMfaChallengeForUser, requestAdminMfaChallenge,
                      Presents, FindToken, rowVars, pastVars
  <1>4. ASSUME NEW c \in Client, IssueRefresh(c)
        PROVE  TokensTyped' /\ DOMAIN tokens \subseteq DOMAIN tokens'
    <2>1. tokens' = Append(tokens, "live") /\ uses' = Append(uses, 0)
      BY <1>4 DEF IssueRefresh, issueRefreshToken
    <2>2. tokens' \in Seq({"live", "revoked"}) /\ Len(tokens') = Len(tokens) + 1 /\ DOMAIN tokens \subseteq DOMAIN tokens'
      BY <2>1, RowsAppended DEF TokensTyped
    <2>3. uses' \in Seq(Nat) /\ Len(uses') = Len(uses) + 1
      BY <2>1, RowsAppended DEF TokensTyped
    <2> QED BY <2>2, <2>3 DEF TokensTyped
  <1>5. ASSUME NEW c \in Client, RevokeFamily(c)
        PROVE  TokensTyped' /\ DOMAIN tokens \subseteq DOMAIN tokens'
    <2> PICK t \in DOMAIN tokens : t = call[c].on
      BY <1>5 DEF RevokeFamily, CallsTyped, CallOk
    <2>1. tokens' = [tokens EXCEPT ![t] = "revoked"] /\ (uses' = uses \/ uses' = [uses EXCEPT ![t] = @ + 1])
      BY <1>5 DEF RevokeFamily, RevokedFamily
    <2>2. t \in 1..Len(uses) /\ uses[t] + 1 \in Nat
      BY <1>b, ElementOfSeq DEF TokensTyped
    <2>3. tokens' \in Seq({"live", "revoked"}) /\ Len(tokens') = Len(tokens) /\ DOMAIN tokens' = DOMAIN tokens
      BY <2>1, <1>b, ExceptSeq DEF TokensTyped
    <2>4. uses' \in Seq(Nat) /\ Len(uses') = Len(uses)
      BY <2>1, <2>2, ExceptSeq DEF TokensTyped
    <2> QED BY <2>3, <2>4 DEF TokensTyped
  <1>6. ASSUME NEW k, Revokes(k) \/ KeyExpires(k)
        PROVE  TokensTyped' /\ DOMAIN tokens \subseteq DOMAIN tokens'
    BY <1>6, <1>a DEF Revokes, KeyExpires, pastVars
  <1>7. CASE tombstoneDeleteUser \/ LockoutEnds
    BY <1>7, <1>a DEF tombstoneDeleteUser, LockoutEnds, pastVars
  <1>8. ASSUME NEW x, TokenExpires(x)
        PROVE  TokensTyped' /\ DOMAIN tokens \subseteq DOMAIN tokens'
    BY <1>8, <1>a DEF TokenExpires, rowVars, pastVars
  <1> QED BY <1>1, <1>2, <1>3, <1>4, <1>5, <1>6, <1>7, <1>8
          DEF AuthNext, verify2fa, issueAdminKey, issueBreakGlassKey, refreshAccessToken, revokeRefreshToken,
              postSignout, revokePrivilegedKey

(* One request moves to a step with work that the step allows. *)
CallMoves(c, l, work) ==
    apc' = [apc EXCEPT ![c] = l] /\ call' = [call EXCEPT ![c] = work] /\ CallOk(l, work)'

LEMMA CallsTypedOne ==
  ASSUME CallsTyped, NEW c \in Client, NEW l \in AuthSteps, NEW work \in CallRecord, CallMoves(c, l, work),
         DOMAIN chals \subseteq DOMAIN chals', DOMAIN tokens \subseteq DOMAIN tokens'
  PROVE  CallsTyped'
  <1>1. /\ apc' \in [Client -> AuthSteps] /\ call' \in [Client -> CallRecord]
        /\ apc'[c] = l /\ call'[c] = work
        /\ \A d \in Client : d # c => apc'[d] = apc[d] /\ call'[d] = call[d]
    BY DEF CallsTyped, CallMoves
  <1>2. ASSUME NEW d \in Client PROVE CallOk(apc[d], call[d])'
    <2>1. CASE d = c
      BY <1>1, <2>1 DEF CallMoves
    <2>2. CASE d # c
      <3>1. CallOk(apc[d], call[d])
        BY DEF CallsTyped
      <3> QED BY <1>1, <2>2, <3>1 DEF CallOk
    <2> QED BY <2>1, <2>2
  <1> QED BY <1>1, <1>2 DEF CallsTyped, CallOk

LEMMA CallsTypedNext ==
  ASSUME UserTyped, CallsTyped, DOMAIN chals \subseteq DOMAIN chals', DOMAIN tokens \subseteq DOMAIN tokens',
         DOMAIN chals \subseteq Nat, DOMAIN tokens \subseteq Nat, [AuthNext]_authVars
  PROVE  CallsTyped'
  <1> USE AuthFacts
  <1>a. ASSUME UNCHANGED <<apc, call>> PROVE CallsTyped'
    BY <1>a DEF CallsTyped, CallOk
  <1>n. NoCall \in CallRecord /\ \A l : CallOk(l, NoCall) \/ l \in {"claim", "factor", "family"}
    BY DEF NoCall, CallRecord, Operations, Methods, CallOk
  <1>b. ASSUME NEW c \in Client, Finish(c) PROVE CallsTyped'
    <2>1. CallMoves(c, "idle", NoCall)
      BY <1>b DEF Finish, CallMoves, CallOk
    <2> QED BY <2>1, <1>n, CallsTypedOne DEF AuthSteps
  <1>c. ASSUME NEW c \in Client, NEW l \in AuthSteps \ {"idle", "claim", "family"}, Goto(c, l),
               l = "factor" => apc[c] = "claim"
        PROVE  CallsTyped'
    <2> PICK work \in CallRecord : work = call[c]
      BY DEF CallsTyped
    <2>1. call' = [call EXCEPT ![c] = work]
      BY <1>c DEF Goto, CallsTyped
    <2>2. CallOk(l, work)'
      <3>1. CallOk(apc[c], work)
        BY DEF CallsTyped
      <3> QED BY <1>c, <3>1 DEF CallOk
    <2>3. CallMoves(c, l, work)
      BY <1>c, <2>1, <2>2 DEF Goto, CallMoves
    <2> QED BY <2>3, CallsTypedOne
  <1>d. ASSUME NEW c \in Client, NEW op \in Operations, NEW work \in CallRecord, NEW l \in AuthSteps,
               Starts(c, op, work, l), l # "idle",
               l \in {"claim", "factor"} => op \in {"verify", "admin", "break"} /\ work.on \in DOMAIN chals,
               l = "claim" => work.at \in Instance,
               l = "family" => op \in {"exchange", "revoke"} /\ work.on \in DOMAIN tokens
        PROVE  CallsTyped'
    <2> DEFINE started == [work EXCEPT !.op = op]
    <2>1. started \in CallRecord /\ started.op = op /\ started.on = work.on /\ started.at = work.at
      BY DEF CallRecord
    <2>2. apc' = [apc EXCEPT ![c] = l] /\ call' = [call EXCEPT ![c] = started]
      BY <1>d DEF Starts
    <2> HIDE DEF started
    <2>3. CallOk(l, started)'
      BY <1>d, <2>1 DEF CallOk
    <2>4. CallMoves(c, l, started)
      BY <2>2, <2>3 DEF CallMoves
    <2> QED BY <2>1, <2>4, CallsTypedOne
  <1>1. CASE UNCHANGED authVars
    BY <1>1, <1>a DEF authVars
  <1>2. ASSUME NEW c \in Client, Wrong(c) \/ SendChallenge(c) \/ IssueRefresh(c) \/ Abandon(c) PROVE CallsTyped'
    <2>1. Finish(c)
      BY <1>2 DEF Wrong, SendChallenge, IssueRefresh, Abandon
    <2> QED BY <2>1, <1>b
  <1>3. ASSUME NEW c \in Client, Right(c) \/ IssueKey(c) \/ VerifyMfaChallengeForUser(c) PROVE CallsTyped'
    <2>1. Finish(c) \/ \E l \in {"challenge", "key", "refresh"} : Goto(c, l)
      BY <1>3 DEF Right, IssueKey, VerifyMfaChallengeForUser
    <2> QED BY <2>1, <1>b, <1>c DEF AuthSteps
  <1>4. ASSUME NEW c \in Client, signin(c) PROVE CallsTyped'
    <2> PICK work \in CallRecord : work = [NoCall EXCEPT !.failed = user.failed, !.method = user.method]
      BY <1>n DEF UserTyped, CallRecord
    <2>1. Starts(c, "signin", work, "compare")
      BY <1>4 DEF signin
    <2> QED BY <2>1, <1>d DEF Operations, AuthSteps
  <1>5. ASSUME NEW c \in Client, Claim(c) PROVE CallsTyped'
    <2>1. Finish(c) \/ Goto(c, "factor")
      BY <1>5 DEF Claim
    <2>2. apc[c] = "claim"
      BY <1>5 DEF Claim
    <2> QED BY <2>1, <2>2, <1>b, <1>c DEF AuthSteps
  <1>6. ASSUME NEW c \in Client, NEW op \in {"verify", "admin", "break"}, Presents(c, op) PROVE CallsTyped'
    <2> PICK x \in DOMAIN chals, i \in Instance : Starts(c, op, [NoCall EXCEPT !.on = x, !.at = i], "claim")
      BY <1>6 DEF Presents
    <2> DEFINE work == [NoCall EXCEPT !.on = x, !.at = i]
    <2>1. work \in CallRecord /\ work.on = x /\ work.at = i
      BY <1>n DEF CallRecord
    <2>2. Starts(c, op, work, "claim")
      OBVIOUS
    <2> HIDE DEF work
    <2> QED BY <2>1, <2>2, <1>d DEF Operations, AuthSteps
  <1>7. ASSUME NEW c \in Client, NEW op \in {"exchange", "revoke"}, FindToken(c, op) PROVE CallsTyped'
    <2> PICK t \in DOMAIN tokens : Starts(c, op, [NoCall EXCEPT !.on = t], "family")
      BY <1>7 DEF FindToken
    <2> DEFINE work == [NoCall EXCEPT !.on = t]
    <2>1. work \in CallRecord /\ work.on = t
      BY <1>n DEF CallRecord
    <2>2. Starts(c, op, work, "family")
      OBVIOUS
    <2> HIDE DEF work
    <2> QED BY <2>1, <2>2, <1>d DEF Operations, AuthSteps
  <1>8. ASSUME NEW c \in Client, FindForVerify(c) PROVE CallsTyped'
    <2>1. CASE Finish(c)
      BY <2>1, <1>b
    <2>2. CASE /\ call' = [call EXCEPT ![c].failed = user.failed, ![c].method = user.method]
               /\ apc' = [apc EXCEPT ![c] = "compare"]
      <3> DEFINE work == [call[c] EXCEPT !.failed = user.failed, !.method = user.method]
      <3>1. work \in CallRecord
        BY DEF CallRecord, CallsTyped, UserTyped
      <3>2. call' = [call EXCEPT ![c] = work]
        BY <2>2 DEF CallsTyped
      <3> HIDE DEF work
      <3> PICK w \in CallRecord : w = work
        BY <3>1
      <3>3. CallMoves(c, "compare", w)
        BY <2>2, <3>2 DEF CallMoves, CallOk
      <3> QED BY <3>3, CallsTypedOne DEF AuthSteps
    <2> QED BY <1>8, <2>1, <2>2 DEF FindForVerify
  <1>9. ASSUME NEW c \in Client, requestAdminMfaChallenge(c) PROVE CallsTyped'
    <2> PICK work \in CallRecord : work = [NoCall EXCEPT !.method = user.method]
      BY <1>n DEF UserTyped, CallRecord
    <2>1. Starts(c, "mfa", work, "challenge")
      BY <1>9 DEF requestAdminMfaChallenge
    <2> QED BY <2>1, <1>d DEF Operations, AuthSteps
  <1>10. ASSUME NEW c \in Client, RevokeFamily(c) PROVE CallsTyped'
    <2>1. Finish(c) \/ Goto(c, "key")
      BY <1>10 DEF RevokeFamily
    <2> QED BY <2>1, <1>b, <1>c DEF AuthSteps
  <1>11. ASSUME NEW k, Revokes(k) \/ KeyExpires(k) \/ TokenExpires(k) PROVE CallsTyped'
    BY <1>11, <1>a DEF Revokes, KeyExpires, TokenExpires
  <1>12. CASE tombstoneDeleteUser \/ LockoutEnds
    BY <1>12, <1>a DEF tombstoneDeleteUser, LockoutEnds
  <1> QED BY <1>1, <1>2, <1>3, <1>4, <1>5, <1>6, <1>7, <1>8, <1>9, <1>10, <1>11, <1>12
          DEF AuthNext, verify2fa, issueAdminKey, issueBreakGlassKey, refreshAccessToken, revokeRefreshToken,
              postSignout, revokePrivilegedKey

(* A request that goes anywhere but to a comparison leaves the others theirs.  *)
LEMMA OthersCompare ==
  ASSUME CallsTyped, NEW c \in Client, NEW l, l # "compare", apc' = [apc EXCEPT ![c] = l],
         UNCHANGED call \/ \E work : call' = [call EXCEPT ![c] = work]
  PROVE  \A d \in Client : apc'[d] = "compare" => apc[d] = "compare" /\ call'[d] = call[d]
  BY DEF CallsTyped

LEMMA GuardedKept ==
  ASSUME Guarded, guesses \in Nat, user.failed \in 0..MaxAttempts, outages \in Nat, outages' \in Nat, outages' >= outages,
         UNCHANGED <<guesses, overlap>>, user'.failed = user.failed, user'.locked = user.locked,
         \A d \in Client : apc'[d] = "compare" => apc[d] = "compare" /\ call'[d] = call[d]
  PROVE  Guarded'
  <1> SUFFICES ASSUME ~overlap' PROVE Guarded'
    BY DEF Guarded
  <1>1. guesses <= user.failed + outages /\ (~user.locked => guesses < MaxAttempts + outages)
    BY DEF Guarded
  <1>2. guesses' <= user'.failed + outages'
    BY <1>1, AuthFacts
  <1>3. guesses < MaxAttempts + outages => guesses' < MaxAttempts + outages'
    BY AuthFacts
  <1> QED BY <1>1, <1>2, <1>3 DEF Guarded

LEMMA GuardedNext ==
  ASSUME UserTyped, UserTyped', CallsTyped, Guarded, [AuthNext]_authVars
  PROVE  Guarded'
  <1> USE AuthFacts
  <1>t. user.failed \in 0..MaxAttempts /\ guesses \in Nat /\ outages \in Nat /\ outages' \in Nat
        /\ (UNCHANGED outages \/ Down => outages' >= outages)
    BY DEF UserTyped, Down
  <1>a. ASSUME UNCHANGED <<user, guesses, overlap, apc, call, outages>> PROVE Guarded'
    BY <1>a, <1>t, GuardedKept
  <1>b. ASSUME UNCHANGED <<user, guesses, overlap>>, NEW c \in Client, NEW l, l # "compare",
               apc' = [apc EXCEPT ![c] = l], UNCHANGED call \/ \E work : call' = [call EXCEPT ![c] = work],
               UNCHANGED outages \/ Down
        PROVE  Guarded'
    BY <1>b, <1>t, OthersCompare, GuardedKept
  <1>c. ASSUME NEW c \in Client, NEW work, apc' = [apc EXCEPT ![c] = "compare"], call' = [call EXCEPT ![c] = work],
               work.failed = user.failed, ~user.locked, overlap' = Overlaps(c), UNCHANGED <<user, guesses, outages>>
        PROVE  Guarded'
    <2> SUFFICES ASSUME ~overlap' PROVE Guarded'
      BY DEF Guarded
    <2>1. ~overlap /\ \A d \in Client \ {c} : apc[d] # "compare"
      BY <1>c DEF Overlaps
    <2>2. \A d \in Client : apc'[d] = "compare" => d = c
      BY <1>c, <2>1 DEF CallsTyped
    <2>3. call'[c].failed = user.failed
      BY <1>c DEF CallsTyped
    <2>4. guesses <= user.failed + outages /\ (~user.locked => guesses < MaxAttempts + outages)
      BY <2>1 DEF Guarded
    <2> QED BY <1>c, <2>2, <2>3, <2>4 DEF Guarded
  <1>1. CASE UNCHANGED authVars
    BY <1>1, <1>a DEF authVars, rowVars, pastVars
  <1>2. ASSUME NEW c \in Client, Wrong(c) PROVE Guarded'
    <2> SUFFICES ASSUME ~overlap' PROVE Guarded'
      BY DEF Guarded
    <2> PICK f \in 0..MaxAttempts : f = call[c].failed
      BY DEF CallsTyped, CallRecord
    <2>1. apc[c] = "compare" /\ guesses' = guesses + 1 /\ ~overlap
      BY <1>2 DEF Wrong
    <2>2. f = user.failed /\ guesses <= f + outages /\ guesses < MaxAttempts + outages /\ ~user.locked
          /\ \A d \in Client : apc[d] = "compare" => d = c
      BY <2>1 DEF Guarded
    <2>3. \A d \in Client : apc'[d] # "compare"
      BY <1>2, <2>2 DEF Wrong, Finish, CallsTyped
    <2>4. CASE Down /\ UNCHANGED user
      <3>1. outages' = outages + 1 /\ user'.failed = f
        BY <2>2, <2>4 DEF Down
      <3>2. guesses' <= user'.failed + outages' /\ guesses' < MaxAttempts + outages'
        BY <1>t, <2>1, <2>2, <3>1
      <3> QED BY <2>3, <3>2 DEF Guarded
    <2>5. CASE /\ user' = [user EXCEPT !.failed = IF f + 1 < MaxAttempts THEN f + 1 ELSE MaxAttempts,
                                       !.locked = isLockout(f)]
               /\ UNCHANGED outages
      <3>1. user'.failed = (IF f + 1 < MaxAttempts THEN f + 1 ELSE MaxAttempts) /\ user'.locked = isLockout(f)
        BY <2>5 DEF UserTyped
      <3>2. guesses' <= user'.failed + outages'
        BY <1>t, <2>1, <2>2, <2>5, <3>1
      <3>3. isLockout(f) \/ f + 1 < MaxAttempts
        BY DEF isLockout
      <3>4. ~user'.locked => f + 1 < MaxAttempts
        BY <3>1, <3>3, Zenon
      <3>5. f + 1 < MaxAttempts => guesses' < MaxAttempts + outages'
        BY <1>t, <2>1, <2>2, <2>5
      <3> QED BY <2>3, <3>2, <3>4, <3>5 DEF Guarded
    <2> QED BY <1>2, <2>4, <2>5 DEF Wrong
  <1>3. ASSUME NEW c \in Client, Right(c) PROVE Guarded'
    <2> SUFFICES ASSUME ~overlap' PROVE Guarded'
      BY DEF Guarded
    <2>1. apc[c] = "compare" /\ ~overlap /\ guesses' = 0 /\ user' = [user EXCEPT !.failed = 0, !.locked = FALSE]
      BY <1>3 DEF Right
    <2>2. \A d \in Client : apc[d] = "compare" => d = c
      BY <2>1 DEF Guarded
    <2>3. \A d \in Client : apc'[d] # "compare"
      BY <1>3, <2>2 DEF Right, Goto, CallsTyped
    <2>4. guesses' <= user'.failed + outages' /\ guesses' < MaxAttempts + outages'
      BY <1>t, <2>1 DEF UserTyped
    <2> QED BY <2>3, <2>4 DEF Guarded
  <1>4. ASSUME NEW c \in Client, signin(c) PROVE Guarded'
    <2> DEFINE work == [[NoCall EXCEPT !.failed = user.failed, !.method = user.method] EXCEPT !.op = "signin"]
    <2>1. apc' = [apc EXCEPT ![c] = "compare"] /\ call' = [call EXCEPT ![c] = work] /\ ~user.locked
          /\ overlap' = Overlaps(c) /\ UNCHANGED <<user, guesses, outages>>
      BY <1>4 DEF signin, Starts, rowVars
    <2>2. work.failed = user.failed
      BY DEF NoCall
    <2> HIDE DEF work
    <2> QED BY <2>1, <2>2, <1>c
  <1>5. ASSUME NEW c \in Client, FindForVerify(c) PROVE Guarded'
    <2>1. UNCHANGED <<user, guesses, outages>>
      BY <1>5 DEF FindForVerify, rowVars
    <2>2. CASE Finish(c) /\ UNCHANGED overlap
      BY <2>1, <2>2, <1>b DEF Finish
    <2>3. CASE /\ call' = [call EXCEPT ![c].failed = user.failed, ![c].method = user.method]
               /\ apc' = [apc EXCEPT ![c] = "compare"] /\ overlap' = Overlaps(c) /\ ~user.locked
      <3> DEFINE work == [call[c] EXCEPT !.failed = user.failed, !.method = user.method]
      <3>1. work.failed = user.failed
        BY DEF CallRecord, CallsTyped
      <3>2. call' = [call EXCEPT ![c] = work]
        BY <2>3 DEF CallsTyped
      <3> HIDE DEF work
      <3> QED BY <2>1, <2>3, <3>1, <3>2, <1>c
    <2> QED BY <1>5, <2>2, <2>3 DEF FindForVerify
  <1>6. ASSUME NEW c \in Client, \/ SendChallenge(c) \/ IssueKey(c) \/ IssueRefresh(c) \/ RevokeFamily(c)
                                 \/ Abandon(c)
        PROVE  Guarded'
    <2>1. UNCHANGED <<user, guesses, overlap>> /\ (UNCHANGED outages \/ Down)
      BY <1>6 DEF SendChallenge, IssueKey, IssueRefresh, RevokeFamily, Abandon, rowVars, pastVars
    <2>2. Finish(c) \/ \E l \in {"key", "refresh"} : Goto(c, l)
      BY <1>6 DEF SendChallenge, IssueKey, IssueRefresh, RevokeFamily, Abandon
    <2> QED BY <2>1, <2>2, <1>b DEF Finish, Goto
  <1>7. ASSUME NEW c \in Client, Claim(c) \/ VerifyMfaChallengeForUser(c) PROVE Guarded'
    <2>1. UNCHANGED <<user, guesses, overlap>> /\ (UNCHANGED outages \/ Down)
      BY <1>7 DEF Claim, VerifyMfaChallengeForUser, rowVars, pastVars
    <2>2. Finish(c) \/ \E l \in {"factor", "key"} : Goto(c, l)
      BY <1>7 DEF Claim, VerifyMfaChallengeForUser
    <2> QED BY <2>1, <2>2, <1>b DEF Finish, Goto
  <1>8. ASSUME NEW c \in Client, requestAdminMfaChallenge(c) \/ \E op : Presents(c, op) \/ FindToken(c, op)
        PROVE  Guarded'
    <2>1. UNCHANGED <<user, guesses, overlap, outages>>
      BY <1>8 DEF requestAdminMfaChallenge, Presents, FindToken, Starts, rowVars, pastVars
    <2>2. /\ \E l \in {"claim", "family", "challenge"} : apc' = [apc EXCEPT ![c] = l]
          /\ \E work : call' = [call EXCEPT ![c] = work]
      BY <1>8 DEF requestAdminMfaChallenge, Presents, FindToken, Starts
    <2> QED BY <2>1, <2>2, <1>b
  <1>9. ASSUME NEW k, Revokes(k) \/ KeyExpires(k) \/ TokenExpires(k) PROVE Guarded'
    BY <1>9, <1>a DEF Revokes, KeyExpires, TokenExpires, rowVars, pastVars
  <1>10. CASE tombstoneDeleteUser
    <2>1. UNCHANGED <<guesses, overlap, apc, call, outages>> /\ user' = [user EXCEPT !.method = "none", !.passcode = FALSE]
      BY <1>10 DEF tombstoneDeleteUser, pastVars
    <2>2. user'.failed = user.failed /\ user'.locked = user.locked
      BY <2>1 DEF UserTyped
    <2> QED BY <2>1, <2>2, <1>t, GuardedKept
  <1>11. CASE LockoutEnds
    <2>1. user.locked /\ user' = [user EXCEPT !.locked = FALSE] /\ guesses' = 0 /\ UNCHANGED <<overlap, apc, call, outages>>
      BY <1>11 DEF LockoutEnds
    <2>2. user'.failed = user.failed
      BY <2>1 DEF UserTyped
    <2>3. guesses' <= user'.failed + outages' /\ guesses' < MaxAttempts + outages'
      BY <1>t, <2>1, <2>2
    <2>4. ~overlap => \A d \in Client : apc[d] # "compare"
      BY <2>1 DEF Guarded
    <2> QED BY <2>1, <2>3, <2>4 DEF Guarded
  <1> QED BY <1>1, <1>2, <1>3, <1>4, <1>5, <1>6, <1>7, <1>8, <1>9, <1>10, <1>11
          DEF AuthNext, verify2fa, issueAdminKey, issueBreakGlassKey, refreshAccessToken, revokeRefreshToken,
              postSignout, revokePrivilegedKey

LEMMA ClaimedOnceNext ==
  ASSUME ChallengesTyped, CallsTyped, ClaimedOnce, [AuthNext]_authVars
  PROVE  ClaimedOnce'
  <1>b. DOMAIN chals = 1..Len(chals) /\ DOMAIN codesTried = DOMAIN chals /\ Len(chals) \in Nat
        /\ \A x \in DOMAIN chals : codesTried[x] \in Nat
    BY LenProperties, ElementOfSeq DEF ChallengesTyped
  <1>a. ASSUME UNCHANGED <<chals, codesTried, denied>>, clouded \subseteq clouded',
               \A d \in Client : apc'[d] = "factor" => apc[d] = "factor" /\ call'[d].on = call[d].on
        PROVE  ClaimedOnce'
    <2>1. \A d \in Client, x \in DOMAIN chals : LetThrough(d, x)' => LetThrough(d, x)
      BY <1>a DEF LetThrough
    <2> QED BY <1>a, <2>1 DEF ClaimedOnce
  <1>c. ASSUME UNCHANGED <<chals, codesTried, denied>>, clouded \subseteq clouded', NEW c \in Client, NEW l, l # "factor",
               apc' = [apc EXCEPT ![c] = l], UNCHANGED call \/ \E work : call' = [call EXCEPT ![c] = work]
        PROVE  ClaimedOnce'
    <2>1. \A d \in Client : apc'[d] = "factor" => apc[d] = "factor" /\ call'[d].on = call[d].on
      BY <1>c DEF CallsTyped
    <2> QED BY <1>c, <2>1, <1>a
  <1>d. ASSUME NEW c \in Client, apc[c] = "factor", Tries(c), UNCHANGED <<chals, denied, clouded>>, NEW l, l # "factor",
               apc' = [apc EXCEPT ![c] = l], UNCHANGED call \/ \E work : call' = [call EXCEPT ![c] = work]
        PROVE  ClaimedOnce'
    <2> PICK x \in DOMAIN chals : x = call[c].on
      BY <1>d DEF CallsTyped, CallOk
    <2>1. codesTried'[x] = codesTried[x] + 1 /\ \A y \in DOMAIN chals : y # x => codesTried'[y] = codesTried[y]
      BY <1>b, <1>d DEF Tries
    <2>2. LetThrough(c, x) /\ \A d \in Client, y \in DOMAIN chals : LetThrough(d, y)' => d # c /\ LetThrough(d, y)
      BY <1>d DEF LetThrough, CallsTyped
    <2>3. ASSUME <<"challenge", x>> \notin clouded
          PROVE  /\ codesTried'[x] <= 1 /\ (chals[x] = "valid" => x \in denied)
                 /\ \A d \in Client : ~LetThrough(d, x)'
      <3>1. codesTried[x] = 0 /\ (chals[x] = "valid" => x \in denied) /\ \A d \in Client : LetThrough(d, x) => d = c
        BY <2>2, <2>3 DEF ClaimedOnce
      <3> QED BY <2>1, <2>2, <3>1
    <2>4. ASSUME NEW y \in DOMAIN chals, y # x, <<"challenge", y>> \notin clouded
          PROVE  /\ codesTried'[y] <= 1
                 /\ codesTried'[y] > 0 /\ chals[y] = "valid" => y \in denied
                 /\ \A d \in Client : LetThrough(d, y)' => codesTried'[y] = 0 /\ (chals[y] = "valid" => y \in denied)
                 /\ \A d, e \in Client : LetThrough(d, y)' /\ LetThrough(e, y)' => d = e
      BY <2>1, <2>2, <2>4 DEF ClaimedOnce
    <2> QED BY <1>d, <2>3, <2>4 DEF ClaimedOnce
  <1>1. CASE UNCHANGED authVars
    BY <1>1, <1>a DEF authVars, listVars, pastVars
  <1>2. ASSUME NEW c \in Client, \/ Wrong(c) \/ Right(c) \/ IssueKey(c) \/ IssueRefresh(c) \/ RevokeFamily(c)
                                 \/ Abandon(c)
        PROVE  ClaimedOnce'
    <2>1. UNCHANGED <<chals, codesTried, denied, clouded>>
      BY <1>2 DEF Wrong, Right, IssueKey, IssueRefresh, RevokeFamily, Abandon, listVars, pastVars
    <2>2. Finish(c) \/ \E l \in {"challenge", "key", "refresh"} : Goto(c, l)
      BY <1>2 DEF Wrong, Right, IssueKey, IssueRefresh, RevokeFamily, Abandon
    <2> QED BY <2>1, <2>2, <1>c DEF Finish, Goto
  <1>3. ASSUME NEW c \in Client, \/ signin(c) \/ requestAdminMfaChallenge(c)
                                 \/ \E op : Presents(c, op) \/ FindToken(c, op)
        PROVE  ClaimedOnce'
    <2>1. UNCHANGED <<chals, codesTried, denied>> /\ clouded \subseteq clouded'
      BY <1>3 DEF signin, requestAdminMfaChallenge, Presents, FindToken, listVars, pastVars
    <2>2. /\ \E l \in {"compare", "claim", "family", "challenge"} : apc' = [apc EXCEPT ![c] = l]
          /\ \E work : call' = [call EXCEPT ![c] = work]
      BY <1>3 DEF signin, requestAdminMfaChallenge, Presents, FindToken, Starts
    <2> QED BY <2>1, <2>2, <1>c
  <1>4. ASSUME NEW c \in Client, SendChallenge(c) PROVE ClaimedOnce'
    <2>1. UNCHANGED <<denied, clouded>> /\ (UNCHANGED <<chals, codesTried>> \/ signChallengeToken) /\ Finish(c)
      BY <1>4 DEF SendChallenge
    <2>2. CASE signChallengeToken
      <3> PICK n \in Nat : n = Len(chals) + 1
        BY <1>b
      <3>1. DOMAIN chals' = DOMAIN chals \cup {n} /\ \A x \in DOMAIN chals : chals'[x] = chals[x]
        BY <2>2, RowsAppended DEF signChallengeToken, ChallengesTyped
      <3>2. codesTried'[n] = 0 /\ \A x \in DOMAIN chals : codesTried'[x] = codesTried[x]
        BY <2>2, <1>b, RowsAppended DEF signChallengeToken, ChallengesTyped
      <3>3. \A d \in Client : \A x : LetThrough(d, x)' => LetThrough(d, x)
        BY <2>1 DEF LetThrough, Finish, CallsTyped
      <3>4. n \notin DOMAIN chals /\ \A d \in Client : ~LetThrough(d, n)
        BY <1>b DEF LetThrough, CallsTyped, CallOk
      <3> QED BY <2>1, <3>1, <3>2, <3>3, <3>4 DEF ClaimedOnce
    <2> QED BY <2>1, <2>2, <1>c DEF Finish
  <1>5. ASSUME NEW c \in Client, Claim(c) PROVE ClaimedOnce'
    <2> PICK x \in DOMAIN chals : x = call[c].on
      BY <1>5 DEF Claim, CallsTyped, CallOk
    <2>1. UNCHANGED <<chals, codesTried>> /\ apc[c] = "claim"
      BY <1>5 DEF Claim
    <2>2. CASE Finish(c) /\ UNCHANGED <<denied, clouded>>
      BY <2>1, <2>2, <1>c DEF Finish
    <2>3. ASSUME Goto(c, "factor")
          PROVE  \A d \in Client, y \in DOMAIN chals : LetThrough(d, y)' => LetThrough(d, y) \/ (d = c /\ y = x)
      BY <2>3 DEF Goto, LetThrough, CallsTyped
    <2>4. CASE SetNx(x) /\ denied' = denied \cup {x} /\ UNCHANGED clouded /\ chals[x] = "valid" /\ Goto(c, "factor")
      <3>1. <<"challenge", x>> \notin clouded => codesTried[x] = 0 /\ \A d \in Client : ~LetThrough(d, x)
        BY <1>b, <2>4 DEF SetNx, ClaimedOnce
      <3>2. ASSUME NEW y \in DOMAIN chals, <<"challenge", y>> \notin clouded
            PROVE  /\ codesTried[y] <= 1
                   /\ codesTried[y] > 0 /\ chals[y] = "valid" => y \in denied'
                   /\ \A d \in Client : LetThrough(d, y)' => codesTried[y] = 0 /\ (chals[y] = "valid" => y \in denied')
                   /\ \A d, e \in Client : LetThrough(d, y)' /\ LetThrough(e, y)' => d = e
        <4>1. CASE y = x
          BY <2>3, <2>4, <3>1, <3>2, <4>1
        <4>2. CASE y # x
          BY <2>3, <2>4, <3>2, <4>2 DEF ClaimedOnce
        <4> QED BY <4>1, <4>2
      <3> QED BY <2>1, <2>4, <3>2 DEF ClaimedOnce
    <2>5. CASE clouded' = clouded \cup {<<"challenge", x>>} /\ denied' \in {denied, denied \cup {x}} /\ Goto(c, "factor")
      <3>1. clouded \subseteq clouded' /\ <<"challenge", x>> \in clouded' /\ denied \subseteq denied'
        BY <2>5
      <3>2. \A d \in Client, y \in DOMAIN chals : y # x => (LetThrough(d, y)' => LetThrough(d, y))
        BY <2>3, <2>5
      <3> QED BY <2>1, <3>1, <3>2 DEF ClaimedOnce
    <2> QED BY <1>5, <2>2, <2>4, <2>5 DEF Claim
  <1>6. ASSUME NEW k, Revokes(k) \/ KeyExpires(k) PROVE ClaimedOnce'
    BY <1>6, <1>a DEF Revokes, KeyExpires, listVars, pastVars
  <1>7. CASE tombstoneDeleteUser \/ LockoutEnds
    BY <1>7, <1>a DEF tombstoneDeleteUser, LockoutEnds, listVars, pastVars
  <1>8. ASSUME NEW x \in DOMAIN chals, TokenExpires(x) PROVE ClaimedOnce'
    <2>1. chals' = [chals EXCEPT ![x] = IF @ = "valid" THEN "grace" ELSE "expired"]
      BY <1>8 DEF TokenExpires
    <2>2. DOMAIN chals' = DOMAIN chals /\ chals'[x] # "valid" /\ \A y \in DOMAIN chals : y # x => chals'[y] = chals[y]
      BY <2>1
    <2>3. denied' = denied \ {x} /\ UNCHANGED <<codesTried, clouded, apc, call>>
      BY <1>8 DEF TokenExpires, pastVars
    <2>4. \A d \in Client : \A y : LetThrough(d, y)' <=> LetThrough(d, y)
      BY <2>3 DEF LetThrough
    <2> QED BY <2>2, <2>3, <2>4 DEF ClaimedOnce
  <1>9. ASSUME NEW c \in Client, FindForVerify(c) PROVE ClaimedOnce'
    <2>1. UNCHANGED <<chals, denied, clouded>> /\ apc[c] = "factor"
      BY <1>9 DEF FindForVerify, listVars
    <2>2. CASE Finish(c) /\ UNCHANGED codesTried
      BY <2>1, <2>2, <1>c DEF Finish
    <2>3. CASE /\ call' = [call EXCEPT ![c].failed = user.failed, ![c].method = user.method]
               /\ apc' = [apc EXCEPT ![c] = "compare"] /\ Tries(c)
      <3>1. call' = [call EXCEPT ![c] = [call[c] EXCEPT !.failed = user.failed, !.method = user.method]]
        BY <2>3 DEF CallsTyped
      <3>2. \E work : call' = [call EXCEPT ![c] = work]
        BY <3>1
      <3> QED BY <2>1, <2>3, <3>2, <1>d
    <2> QED BY <1>9, <2>2, <2>3 DEF FindForVerify
  <1>10. ASSUME NEW c \in Client, VerifyMfaChallengeForUser(c) PROVE ClaimedOnce'
    <2>1. UNCHANGED <<chals, denied, clouded>> /\ apc[c] = "factor"
      BY <1>10 DEF VerifyMfaChallengeForUser, listVars
    <2>2. Finish(c) \/ Goto(c, "key")
      BY <1>10 DEF VerifyMfaChallengeForUser
    <2>3. UNCHANGED codesTried \/ Tries(c)
      BY <1>10 DEF VerifyMfaChallengeForUser
    <2> QED BY <2>1, <2>2, <2>3, <1>c, <1>d DEF Finish, Goto
  <1> QED BY <1>1, <1>2, <1>3, <1>4, <1>5, <1>6, <1>7, <1>8, <1>9, <1>10
          DEF AuthNext, verify2fa, issueAdminKey, issueBreakGlassKey, refreshAccessToken, revokeRefreshToken,
              postSignout, revokePrivilegedKey

LEMMA ExchangedOnceNext ==
  ASSUME TokensTyped, CallsTyped, ExchangedOnce, [AuthNext]_authVars
  PROVE  ExchangedOnce'
  <1>b. DOMAIN tokens = 1..Len(tokens) /\ DOMAIN uses = DOMAIN tokens /\ Len(tokens) \in Nat
        /\ \A t \in DOMAIN tokens : uses[t] \in Nat
    BY LenProperties, ElementOfSeq DEF TokensTyped
  <1>a. ASSUME UNCHANGED <<tokens, uses>>, clouded \subseteq clouded',
               \A d \in Client : apc'[d] = "family" => apc[d] = "family" /\ call'[d] = call[d]
        PROVE  ExchangedOnce'
    <2>1. \A d \in Client, t \in DOMAIN tokens : Exchanges(d, t)' => Exchanges(d, t)
      BY <1>a DEF Exchanges
    <2> QED BY <1>a, <2>1 DEF ExchangedOnce
  <1>c. ASSUME UNCHANGED <<tokens, uses>>, clouded \subseteq clouded', NEW c \in Client, NEW l, l # "family",
               apc' = [apc EXCEPT ![c] = l], UNCHANGED call \/ \E work : call' = [call EXCEPT ![c] = work]
        PROVE  ExchangedOnce'
    <2>1. \A d \in Client : apc'[d] = "family" => apc[d] = "family" /\ call'[d] = call[d]
      BY <1>c DEF CallsTyped
    <2> QED BY <1>c, <2>1, <1>a
  <1>1. CASE UNCHANGED authVars
    BY <1>1, <1>a DEF authVars, rowVars, pastVars
  <1>2. ASSUME NEW c \in Client, Wrong(c) \/ Right(c) \/ signin(c) \/ FindForVerify(c) PROVE ExchangedOnce'
    <2>1. UNCHANGED <<tokens, uses, clouded>>
      BY <1>2 DEF Wrong, Right, signin, FindForVerify, rowVars
    <2>2. \/ Finish(c) \/ \E l \in {"challenge", "key"} : Goto(c, l)
          \/ apc' = [apc EXCEPT ![c] = "compare"] /\ \E work : call' = [call EXCEPT ![c] = work]
      <3>1. CASE Wrong(c) \/ Right(c)
        BY <3>1 DEF Wrong, Right
      <3>2. CASE signin(c)
        BY <3>2 DEF signin, Starts
      <3>3. CASE FindForVerify(c)
        <4>1. CASE call' = [call EXCEPT ![c].failed = user.failed, ![c].method = user.method]
          <5>1. call' = [call EXCEPT ![c] = [call[c] EXCEPT !.failed = user.failed, !.method = user.method]]
            BY <4>1 DEF CallsTyped
          <5> QED BY <3>3, <5>1 DEF FindForVerify
        <4> QED BY <3>3, <4>1 DEF FindForVerify
      <3> QED BY <1>2, <3>1, <3>2, <3>3
    <2> QED BY <2>1, <2>2, <1>c DEF Finish, Goto
  <1>3. ASSUME NEW c \in Client, \/ SendChallenge(c) \/ IssueKey(c) \/ Claim(c) \/ VerifyMfaChallengeForUser(c)
                                 \/ Abandon(c)
        PROVE  ExchangedOnce'
    <2>1. UNCHANGED <<tokens, uses>> /\ clouded \subseteq clouded'
      BY <1>3 DEF SendChallenge, IssueKey, Claim, VerifyMfaChallengeForUser, Abandon, rowVars, pastVars
    <2>2. Finish(c) \/ \E l \in {"factor", "key", "refresh"} : Goto(c, l)
      BY <1>3 DEF SendChallenge, IssueKey, Claim, VerifyMfaChallengeForUser, Abandon
    <2> QED BY <2>1, <2>2, <1>c DEF Finish, Goto
  <1>4. ASSUME NEW c \in Client, requestAdminMfaChallenge(c) \/ \E op : Presents(c, op) PROVE ExchangedOnce'
    <2>1. UNCHANGED <<tokens, uses, clouded>>
      BY <1>4 DEF requestAdminMfaChallenge, Presents, rowVars, pastVars
    <2>2. /\ \E l \in {"claim", "challenge"} : apc' = [apc EXCEPT ![c] = l]
          /\ \E work : call' = [call EXCEPT ![c] = work]
      BY <1>4 DEF requestAdminMfaChallenge, Presents, Starts
    <2> QED BY <2>1, <2>2, <1>c
  <1>5. ASSUME NEW c \in Client, NEW op \in {"exchange", "revoke"}, FindToken(c, op) PROVE ExchangedOnce'
    <2> PICK t \in DOMAIN tokens :
          /\ tokens[t] = "live" /\ Starts(c, op, [NoCall EXCEPT !.on = t], "family")
          /\ clouded' = IF op = "exchange" /\ Exchanging(t) # {} THEN clouded \cup {<<"token", t>>} ELSE clouded
      BY <1>5 DEF FindToken
    <2>1. UNCHANGED <<tokens, uses>>
      BY <1>5 DEF FindToken, rowVars
    <2>2. clouded \subseteq clouded'
      OBVIOUS
    <2>3. call'[c].op = op /\ call'[c].on = t /\ \A d \in Client : d # c => apc'[d] = apc[d] /\ call'[d] = call[d]
      BY DEF Starts, CallsTyped, NoCall
    <2>4. \A d \in Client, s \in DOMAIN tokens : d # c => (Exchanges(d, s)' <=> Exchanges(d, s))
      BY <2>3 DEF Exchanges
    <2>5. \A s \in DOMAIN tokens : Exchanges(c, s)' => s = t /\ op = "exchange"
      BY <2>3 DEF Exchanges
    <2>6. ASSUME op = "exchange", <<"token", t>> \notin clouded'
          PROVE  <<"token", t>> \notin clouded /\ uses[t] = 0 /\ \A d \in Client : ~Exchanges(d, t)
      <3>1. Exchanging(t) = {} /\ clouded' = clouded
        BY <2>6
      <3>2. \A d \in Client : ~Exchanges(d, t)
        BY <3>1 DEF Exchanging, Exchanges
      <3> QED BY <2>6, <3>1, <3>2 DEF ExchangedOnce
    <2>7. ASSUME NEW s \in DOMAIN tokens, <<"token", s>> \notin clouded'
          PROVE  /\ uses[s] <= 1 /\ (tokens[s] = "live" => uses[s] = 0)
                 /\ \A d \in Client : Exchanges(d, s)' => uses[s] = 0
                 /\ \A d, e \in Client : Exchanges(d, s)' /\ Exchanges(e, s)' => d = e
      <3>1. CASE s = t /\ op = "exchange"
        BY <2>7, <3>1, <2>4, <2>6 DEF ExchangedOnce
      <3>2. CASE ~(s = t /\ op = "exchange")
        <4>1. \A d \in Client : Exchanges(d, s)' => Exchanges(d, s)
          BY <3>2, <2>4, <2>5
        <4>2. <<"token", s>> \notin clouded
          BY <2>7, <2>2
        <4> QED BY <4>1, <4>2 DEF ExchangedOnce
      <3> QED BY <3>1, <3>2
    <2> QED BY <2>1, <2>7 DEF ExchangedOnce
  <1>6. ASSUME NEW c \in Client, IssueRefresh(c) PROVE ExchangedOnce'
    <2> PICK n \in Nat : n = Len(tokens) + 1
      BY <1>b
    <2>1. tokens' = Append(tokens, "live") /\ uses' = Append(uses, 0) /\ UNCHANGED clouded /\ Finish(c)
      BY <1>6 DEF IssueRefresh, issueRefreshToken
    <2>2. DOMAIN tokens' = DOMAIN tokens \cup {n} /\ tokens'[n] = "live"
          /\ \A t \in DOMAIN tokens : tokens'[t] = tokens[t]
      BY <2>1, RowsAppended DEF TokensTyped
    <2>3. uses'[n] = 0 /\ \A t \in DOMAIN tokens : uses'[t] = uses[t]
      BY <2>1, <1>b, RowsAppended DEF TokensTyped
    <2>4. \A d \in Client : \A t : Exchanges(d, t)' => Exchanges(d, t)
      BY <2>1 DEF Exchanges, Finish, CallsTyped
    <2>5. \A d \in Client : \A t : Exchanges(d, t) => t \in DOMAIN tokens
      BY DEF Exchanges, CallsTyped, CallOk
    <2>6. n \notin DOMAIN tokens
      BY <1>b
    <2>7. ASSUME NEW s \in DOMAIN tokens', <<"token", s>> \notin clouded
          PROVE  /\ uses'[s] <= 1 /\ (tokens'[s] = "live" => uses'[s] = 0)
                 /\ \A d \in Client : Exchanges(d, s)' => uses'[s] = 0
                 /\ \A d, e \in Client : Exchanges(d, s)' /\ Exchanges(e, s)' => d = e
      <3>1. CASE s = n
        BY <3>1, <2>3, <2>4, <2>5, <2>6
      <3>2. CASE s \in DOMAIN tokens
        BY <3>2, <2>2, <2>3, <2>4, <2>7 DEF ExchangedOnce
      <3> QED BY <2>2, <3>1, <3>2
    <2> QED BY <2>1, <2>7 DEF ExchangedOnce
  <1>7. ASSUME NEW c \in Client, RevokeFamily(c) PROVE ExchangedOnce'
    <2> PICK t \in DOMAIN tokens : t = call[c].on
      BY <1>7 DEF RevokeFamily, CallsTyped, CallOk
    <2>1. /\ apc[c] = "family" /\ tokens' = [tokens EXCEPT ![t] = "revoked"] /\ UNCHANGED clouded
          /\ \/ call[c].op = "exchange" /\ uses' = [uses EXCEPT ![t] = @ + 1] /\ Goto(c, "key")
             \/ UNCHANGED uses /\ Finish(c)
      BY <1>7 DEF RevokeFamily, RevokedFamily
    <2>2. DOMAIN tokens' = DOMAIN tokens /\ tokens'[t] = "revoked"
          /\ \A s \in DOMAIN tokens : s # t => tokens'[s] = tokens[s]
      BY <2>1
    <2>3. \A d \in Client : \A s : Exchanges(d, s)' => d # c /\ Exchanges(d, s)
      BY <2>1 DEF Exchanges, Finish, Goto, CallsTyped
    <2>4. CASE UNCHANGED uses
      BY <2>1, <2>2, <2>3, <2>4 DEF ExchangedOnce
    <2>5. CASE call[c].op = "exchange" /\ uses' = [uses EXCEPT ![t] = @ + 1]
      <3>1. Exchanges(c, t)
        BY <2>1, <2>5 DEF Exchanges
      <3>2. uses'[t] = uses[t] + 1 /\ \A s \in DOMAIN tokens : s # t => uses'[s] = uses[s]
        BY <2>5, <1>b
      <3>3. ASSUME <<"token", t>> \notin clouded
            PROVE  uses'[t] <= 1 /\ \A d \in Client : ~Exchanges(d, t)'
        <4>1. uses[t] = 0 /\ \A d \in Client : Exchanges(d, t) => d = c
          BY <3>1, <3>3 DEF ExchangedOnce
        <4> QED BY <4>1, <3>2, <2>3
      <3>4. ASSUME NEW s \in DOMAIN tokens, s # t, <<"token", s>> \notin clouded
            PROVE  /\ uses'[s] <= 1 /\ (tokens'[s] = "live" => uses'[s] = 0)
                   /\ \A d \in Client : Exchanges(d, s)' => uses'[s] = 0
                   /\ \A d, e \in Client : Exchanges(d, s)' /\ Exchanges(e, s)' => d = e
        BY <3>4, <3>2, <2>2, <2>3 DEF ExchangedOnce
      <3> QED BY <2>1, <2>2, <3>3, <3>4 DEF ExchangedOnce
    <2> QED BY <2>1, <2>4, <2>5
  <1>8. ASSUME NEW k, Revokes(k) \/ KeyExpires(k) \/ TokenExpires(k) PROVE ExchangedOnce'
    BY <1>8, <1>a DEF Revokes, KeyExpires, TokenExpires, rowVars, pastVars
  <1>9. CASE tombstoneDeleteUser \/ LockoutEnds
    <2>1. UNCHANGED <<tokens, uses, apc, call>>
      BY <1>9 DEF tombstoneDeleteUser, LockoutEnds, pastVars
    <2>2. clouded' = clouded
      BY <1>9 DEF tombstoneDeleteUser, LockoutEnds, pastVars
    <2> QED BY <2>1, <2>2, <1>a
  <1> QED BY <1>1, <1>2, <1>3, <1>4, <1>5, <1>6, <1>7, <1>8, <1>9
          DEF AuthNext, verify2fa, issueAdminKey, issueBreakGlassKey, refreshAccessToken, revokeRefreshToken,
              postSignout, revokePrivilegedKey

(* Wrong passcodes and codes of sign-in in a row stay within the limit and the *)
(* calls that failed, while no two attempts work on one reading of the counter, *)
(* and challenge tokens and refresh tokens are good for one code and one key,   *)
(* over any number of instances: the deny-list keeps a claimed token while it   *)
(* is valid, a family is revoked before its key is made.                        *)
THEOREM SignInIsSound == AuthSpec => []AuthSound
  <1>1. ASSUME AuthInv PROVE AuthSound
    <2> USE AuthFacts
    <2>1. AuthTypeOK
      <3>1. \A c \in Client : apc[c] = "idle" => call[c] = NoCall
        BY <1>1 DEF AuthInv, AuthTyped, CallsTyped, CallOk
      <3> QED BY <1>1, <3>1 DEF AuthInv, AuthTyped, UserTyped, KeysTyped, ChallengesTyped, TokensTyped, AuthTypeOK, KeyRecord
    <2>2. GuessesBounded
      <3>1. user.failed \in 0..MaxAttempts /\ guesses \in Nat /\ outages \in Nat
        BY <1>1 DEF AuthInv, AuthTyped, UserTyped
      <3> QED BY <1>1, <3>1 DEF AuthInv, Guarded, GuessesBounded
    <2>3. CredentialsOnce
      BY <1>1 DEF AuthInv, ClaimedOnce, ExchangedOnce, CredentialsOnce
    <2> QED BY <2>1, <2>2, <2>3 DEF AuthSound
  <1>2. AuthInv /\ [AuthNext]_authVars => AuthInv'
    <2> SUFFICES ASSUME AuthInv, [AuthNext]_authVars PROVE AuthInv'
      OBVIOUS
    <2>1. UserTyped' /\ KeysTyped'
      BY UserTypedNext, KeysTypedNext DEF AuthInv, AuthTyped
    <2>2. ChallengesTyped' /\ DOMAIN chals \subseteq DOMAIN chals'
      BY ChallengesTypedNext DEF AuthInv, AuthTyped
    <2>3. TokensTyped' /\ DOMAIN tokens \subseteq DOMAIN tokens'
      BY TokensTypedNext DEF AuthInv, AuthTyped
    <2>4. DOMAIN chals \subseteq Nat /\ DOMAIN tokens \subseteq Nat
      <3>1. DOMAIN chals = 1..Len(chals) /\ Len(chals) \in Nat
        BY LenProperties DEF AuthInv, AuthTyped, ChallengesTyped
      <3>2. DOMAIN tokens = 1..Len(tokens) /\ Len(tokens) \in Nat
        BY LenProperties DEF AuthInv, AuthTyped, TokensTyped
      <3> QED BY <3>1, <3>2
    <2>5. CallsTyped'
      BY <2>2, <2>3, <2>4, CallsTypedNext DEF AuthInv, AuthTyped
    <2>6. Guarded' /\ ClaimedOnce' /\ ExchangedOnce'
      BY <2>1, GuardedNext, ClaimedOnceNext, ExchangedOnceNext DEF AuthInv, AuthTyped
    <2> QED BY <2>1, <2>2, <2>3, <2>5, <2>6 DEF AuthInv, AuthTyped
  <1> QED BY <1>1, <1>2, AuthInitInv, PTL DEF AuthSpec

-----------------------------------------------------------------------------
(* Webhooks, notices and audit entries. *)

HandlerSteps == {"idle", "publish", "read", "post", "posted", "error", "act", "text", "ack"}

QueuesTyped ==
    /\ row \in [Webhook -> {"none", "pending", "completed", "failed"}]
    /\ attempts \in [Webhook -> 0..MaxPosts + 1]
    /\ at \in [Message -> {"none", "queue", "held", "timer", "acked", "dlq", "dropped", "outbox", "file"}]
    /\ retries \in [Message -> 0..MaxRetries] /\ hpc \in [Message -> HandlerSteps]
    /\ tried \in [Message -> Nat] /\ effects \in [Message -> Nat] /\ forgotten \in [Message -> Nat]
    /\ mailer \in {"sends", "logs", "refuses"} /\ texter \in {"sends", "logs", "refuses"}

(* Who holds a message, and for what. *)
HeldOk(m) ==
    /\ at[m] = "held" <=> hpc[m] \notin {"idle", "publish"}
    /\ hpc[m] = "publish" => m \in Webhook /\ at[m] = "none"
    /\ hpc[m] \in {"read", "post", "posted", "error"} => m \in Webhook
    /\ hpc[m] \in {"act", "ack"} => m \notin Webhook
    /\ hpc[m] = "text" => m \in Notice
    /\ at[m] = "timer" => retries[m] < MaxRetries

(* A pending row has a try left and somebody who will take it; its posts are   *)
(* counted in the row, but for the one whose outcome is being written.         *)
WebhookOk(w) ==
    /\ row[w] = "none" => attempts[w] = 0
    /\ row[w] = "pending" =>
          /\ attempts[w] < MaxPosts
          /\ \/ at[w] \in {"queue", "held", "timer"} \/ hpc[w] = "publish" \/ w \in stranded
             \/ at[w] = "dlq" /\ (retries[w] = MaxRetries \/ w \notin Enveloped)
    /\ hpc[w] \in {"post", "posted", "error"} => row[w] = "pending"
    /\ hpc[w] \in {"post", "posted"} => tried[w] = attempts[w]
    /\ hpc[w] = "error" => tried[w] \in {attempts[w], attempts[w] + 1}
    /\ effects[w] <= MaxPosts + forgotten[w]
    /\ hpc[w] \in {"posted", "error"} => effects[w] <= attempts[w] + 1 + forgotten[w]
    /\ hpc[w] \notin {"posted", "error"} => effects[w] <= attempts[w] + forgotten[w]

AuditOk(a) ==
    /\ effects[a] <= 1 + forgotten[a]
    /\ ~(hpc[a] = "ack" \/ at[a] = "acked") => effects[a] <= forgotten[a]

(* What this delivery of a notice has sent, and what earlier ones did. *)
NoticeOk(n) ==
    /\ effects[n] <= One(mailer) + One(texter) + forgotten[n]
    /\ hpc[n] = "text" =>
          /\ mailer # "refuses" /\ effects[n] >= One(mailer) /\ effects[n] <= One(mailer) + forgotten[n]
    /\ hpc[n] = "ack" \/ at[n] = "acked" =>
          mailer # "refuses" /\ texter # "refuses" /\ effects[n] >= One(mailer) + One(texter)
    /\ ~(hpc[n] \in {"text", "ack"} \/ at[n] = "acked") => effects[n] <= forgotten[n]

MessageOk(m) ==
    /\ HeldOk(m)
    /\ m \in Webhook => WebhookOk(m)
    /\ m \in Audit => AuditOk(m)
    /\ m \in Notice => NoticeOk(m)

QueuesInv == QueuesTyped /\ \A m \in Message : MessageOk(m)

LEMMA QueuesFacts ==
  /\ MaxPosts \in Nat \ {0} /\ MaxRetries \in Nat
  /\ Webhook \subseteq Message /\ Notice \subseteq Message /\ Audit \subseteq Message
  /\ \A m \in Message : m \in Webhook \/ m \in Notice \/ m \in Audit
  /\ \A m \in Webhook : m \notin Notice /\ m \notin Audit
  /\ \A m \in Notice : m \notin Audit
  BY QueuesAssumption DEF Message

LEMMA OneBounds == One(mailer) \in {0, 1} /\ One(texter) \in {0, 1}
  BY DEF One

(* A step that touches one message. *)
Touches(m) ==
    /\ \A k \in Message : k # m =>
          /\ at'[k] = at[k] /\ retries'[k] = retries[k] /\ hpc'[k] = hpc[k] /\ tried'[k] = tried[k]
          /\ effects'[k] = effects[k] /\ forgotten'[k] = forgotten[k]
          /\ k \in Webhook => row'[k] = row[k] /\ attempts'[k] = attempts[k]
    /\ stranded \subseteq stranded' /\ UNCHANGED <<mailer, texter>>

LEMMA OthersStay ==
  ASSUME \A k \in Message : MessageOk(k), NEW m \in Message, Touches(m), MessageOk(m)'
  PROVE  \A k \in Message : MessageOk(k)'
  <1> SUFFICES ASSUME NEW k \in Message, k # m PROVE MessageOk(k)'
    OBVIOUS
  <1>1. /\ at'[k] = at[k] /\ retries'[k] = retries[k] /\ hpc'[k] = hpc[k] /\ tried'[k] = tried[k]
        /\ effects'[k] = effects[k] /\ forgotten'[k] = forgotten[k]
        /\ k \in Webhook => row'[k] = row[k] /\ attempts'[k] = attempts[k]
    BY DEF Touches
  <1>2. stranded \subseteq stranded' /\ One(mailer)' = One(mailer) /\ One(texter)' = One(texter)
        /\ UNCHANGED <<mailer, texter>>
    BY DEF Touches, One
  <1>3. HeldOk(k)'
    BY <1>1 DEF MessageOk, HeldOk
  <1>4. k \in Webhook => WebhookOk(k)'
    BY <1>1, <1>2 DEF MessageOk, WebhookOk
  <1>5. k \in Audit => AuditOk(k)'
    BY <1>1 DEF MessageOk, AuditOk
  <1>6. k \in Notice => NoticeOk(k)'
    BY <1>1, <1>2 DEF MessageOk, NoticeOk
  <1> QED BY <1>3, <1>4, <1>5, <1>6 DEF MessageOk

LEMMA QueuesInitInv == QueuesInit => QueuesInv
  <1> SUFFICES ASSUME QueuesInit PROVE QueuesInv
    OBVIOUS
  <1> USE QueuesFacts
  <1>1. mailer \in {"sends", "logs", "refuses"}
    BY DEF QueuesInit, EmailProvider, sendEmail
  <1>2. texter \in {"sends", "logs", "refuses"}
    BY DEF QueuesInit, SmsProvider, sendSms
  <1>3. QueuesTyped
    BY <1>1, <1>2 DEF QueuesInit, QueuesTyped, HandlerSteps
  <1>4. ASSUME NEW m \in Message PROVE MessageOk(m)
    <2>1. HeldOk(m)
      BY DEF QueuesInit, HeldOk
    <2>2. m \in Webhook => WebhookOk(m)
      BY DEF QueuesInit, WebhookOk
    <2>3. m \in Audit => AuditOk(m)
      BY DEF QueuesInit, AuditOk
    <2>4. m \in Notice => NoticeOk(m)
      BY OneBounds DEF QueuesInit, NoticeOk
    <2> QED BY <2>1, <2>2, <2>3, <2>4 DEF MessageOk
  <1> QED BY <1>3, <1>4 DEF QueuesInv

-----------------------------------------------------------------------------
(* Webhooks. *)


LEMMA WebhookStep ==
  ASSUME QueuesInv, NEW w \in Webhook, QueuesTyped', Touches(w), HeldOk(w)', WebhookOk(w)'
  PROVE  QueuesInv'
  <1>1. MessageOk(w)' /\ w \in Message
    BY QueuesFacts DEF MessageOk
  <1>2. \A k \in Message : MessageOk(k)
    BY DEF QueuesInv
  <1> QED BY <1>1, <1>2, OthersStay DEF QueuesInv

LEMMA WebhookPublished ==
  ASSUME QueuesInv, NEW w \in Webhook, enqueueWebhook(w) \/ PublishWebhook(w) \/ TimerFires(w)
  PROVE  QueuesInv'
  <1> USE QueuesFacts
  <1>a. HeldOk(w) /\ WebhookOk(w) /\ QueuesTyped
    BY DEF QueuesInv, MessageOk
  <1>1. CASE enqueueWebhook(w)
    <2>1. QueuesTyped' /\ Touches(w)
      BY <1>1, <1>a DEF enqueueWebhook, QueuesTyped, Touches, HandlerSteps
    <2>2. row[w] = "none" /\ row'[w] = "pending" /\ hpc'[w] = "publish" /\ at[w] = "none"
          /\ UNCHANGED <<attempts, at, retries, tried, effects, forgotten>>
      BY <1>1, <1>a DEF enqueueWebhook, QueuesTyped
    <2>3. HeldOk(w)' /\ WebhookOk(w)'
      BY <1>a, <2>2 DEF HeldOk, WebhookOk, QueuesTyped
    <2> QED BY <2>1, <2>3, WebhookStep
  <1>2. CASE PublishWebhook(w)
    <2>1. QueuesTyped' /\ Touches(w)
      BY <1>2, <1>a DEF PublishWebhook, QueuesTyped, Touches, HandlerSteps
    <2>2. /\ hpc[w] = "publish" /\ hpc'[w] = "idle"
          /\ at'[w] = "queue" \/ (w \in stranded' /\ at' = at)
          /\ UNCHANGED <<row, attempts, retries, tried, effects, forgotten>>
      BY <1>2, <1>a DEF PublishWebhook, QueuesTyped
    <2>3. HeldOk(w)' /\ WebhookOk(w)'
      BY <1>a, <2>2 DEF HeldOk, WebhookOk, QueuesTyped
    <2> QED BY <2>1, <2>3, WebhookStep
  <1>3. CASE TimerFires(w)
    <2>1. retries[w] < MaxRetries /\ at[w] = "timer"
      BY <1>3, <1>a DEF TimerFires, HeldOk
    <2>2. QueuesTyped' /\ Touches(w)
      BY <1>3, <1>a, <2>1 DEF TimerFires, QueuesTyped, Touches
    <2>3. at'[w] = "queue" /\ UNCHANGED <<row, attempts, hpc, tried, effects, forgotten>>
      BY <1>3, <1>a DEF TimerFires, QueuesTyped
    <2>4. HeldOk(w)' /\ WebhookOk(w)'
      BY <1>a, <2>1, <2>3 DEF HeldOk, WebhookOk, QueuesTyped
    <2> QED BY <2>2, <2>4, WebhookStep
  <1> QED BY <1>1, <1>2, <1>3

(* An error out of the delivery ends it in the dead-letter queue or a timer. *)
LEMMA WebhookRetried ==
  ASSUME QueuesTyped, NEW w \in Webhook, RetryWebhook(w)
  PROVE  /\ hpc' = [hpc EXCEPT ![w] = "idle"]
         /\ \/ at' = [at EXCEPT ![w] = "dlq"] /\ retries[w] = MaxRetries
            \/ at' = [at EXCEPT ![w] = "timer"] /\ retries[w] < MaxRetries
  <1>1. retries[w] \in 0..MaxRetries
    BY QueuesFacts DEF QueuesTyped
  <1>2. CASE retries[w] >= MaxRetries
    BY <1>1, <1>2, QueuesFacts DEF RetryWebhook, Leaves
  <1>3. CASE ~(retries[w] >= MaxRetries)
    BY <1>1, <1>3, QueuesFacts DEF RetryWebhook, Leaves
  <1> QED BY <1>2, <1>3

LEMMA WebhookFound ==
  ASSUME QueuesInv, NEW w \in Webhook, FindWebhook(w)
  PROVE  QueuesInv'
  <1> USE QueuesFacts
  <1>a. HeldOk(w) /\ WebhookOk(w) /\ QueuesTyped
    BY DEF QueuesInv, MessageOk
  <1>b. hpc[w] = "read" /\ at[w] = "held"
        /\ UNCHANGED <<row, attempts, retries, mailer, texter, effects, forgotten, stranded>>
    BY <1>a DEF FindWebhook, HeldOk
  <1>1. CASE row[w] # "pending" /\ UNCHANGED tried /\ \E place \in {"acked", "dlq"} : Leaves(w, place)
    <2>1. QueuesTyped' /\ Touches(w)
      BY <1>1, <1>a, <1>b DEF Leaves, QueuesTyped, Touches, HandlerSteps
    <2>2. hpc'[w] = "idle" /\ at'[w] \in {"acked", "dlq"}
      BY <1>1, <1>a DEF Leaves, QueuesTyped
    <2>3. HeldOk(w)' /\ WebhookOk(w)'
      BY <1>1, <1>a, <1>b, <2>2 DEF HeldOk, WebhookOk
    <2> QED BY <2>1, <2>3, WebhookStep
  <1>2. CASE row[w] = "pending" /\ tried' = [tried EXCEPT ![w] = attempts[w]] /\ Moves(w, "post")
    <2>0. attempts[w] \in Nat
      BY <1>a DEF QueuesTyped
    <2>1. QueuesTyped' /\ Touches(w)
      BY <1>2, <1>a, <1>b, <2>0 DEF Moves, QueuesTyped, Touches, HandlerSteps
    <2>2. hpc'[w] = "post" /\ at' = at /\ tried'[w] = attempts[w]
      BY <1>2, <1>a DEF Moves, QueuesTyped
    <2>3. HeldOk(w)' /\ WebhookOk(w)'
      BY <1>2, <1>a, <1>b, <2>2 DEF HeldOk, WebhookOk
    <2> QED BY <2>1, <2>3, WebhookStep
  <1>3. CASE RetryWebhook(w) /\ UNCHANGED tried
    <2>0. /\ hpc' = [hpc EXCEPT ![w] = "idle"]
          /\ \/ at' = [at EXCEPT ![w] = "dlq"] /\ retries[w] = MaxRetries
             \/ at' = [at EXCEPT ![w] = "timer"] /\ retries[w] < MaxRetries
      BY <1>3, <1>a, WebhookRetried
    <2>1. QueuesTyped' /\ Touches(w)
      BY <1>3, <1>a, <1>b, <2>0 DEF QueuesTyped, Touches, HandlerSteps
    <2>2. hpc'[w] = "idle" /\ ((at'[w] = "dlq" /\ retries[w] = MaxRetries) \/ (at'[w] = "timer" /\ retries[w] < MaxRetries))
      BY <2>0, <1>a DEF QueuesTyped
    <2>3. HeldOk(w)' /\ WebhookOk(w)'
      BY <1>3, <1>a, <1>b, <2>2 DEF HeldOk, WebhookOk
    <2> QED BY <2>1, <2>3, WebhookStep
  <1>4. row[w] = "pending" => attempts[w] < MaxPosts
    BY <1>a DEF WebhookOk
  <1> QED BY <1>1, <1>2, <1>3, <1>4 DEF FindWebhook

LEMMA WebhookPosted ==
  ASSUME QueuesInv, NEW w \in Webhook, Post(w) \/ CompleteWebhook(w)
  PROVE  QueuesInv'
  <1> USE QueuesFacts
  <1>a. HeldOk(w) /\ WebhookOk(w) /\ QueuesTyped
    BY DEF QueuesInv, MessageOk
  <1>b. effects[w] \in Nat /\ forgotten[w] \in Nat /\ attempts[w] \in Nat /\ tried[w] \in Nat
    BY <1>a DEF QueuesTyped
  <1>1. CASE Post(w)
    <2>1. QueuesTyped' /\ Touches(w)
      BY <1>1, <1>a DEF Post, Moves, QueuesTyped, Touches, HandlerSteps
    <2>2. hpc[w] = "post" /\ hpc'[w] \in {"posted", "error"} /\ at' = at
          /\ (effects'[w] = effects[w] + 1 \/ effects'[w] = effects[w])
          /\ UNCHANGED <<row, attempts, retries, tried, forgotten, stranded>>
      BY <1>1, <1>a DEF Post, Moves, QueuesTyped
    <2>3. HeldOk(w)'
      BY <1>a, <2>2 DEF HeldOk
    <2>4. WebhookOk(w)'
      BY <1>a, <1>b, <2>2 DEF WebhookOk
    <2> QED BY <2>1, <2>3, <2>4, WebhookStep
  <1>2. CASE CompleteWebhook(w)
    <2>0. hpc[w] = "posted" /\ row[w] = "pending" /\ tried[w] = attempts[w] /\ attempts[w] < MaxPosts
          /\ UNCHANGED <<retries, effects, forgotten, stranded, mailer, texter>>
      BY <1>2, <1>a DEF CompleteWebhook, WebhookOk
    <2>1. CASE row' = [row EXCEPT ![w] = "completed"] /\ attempts' = [attempts EXCEPT ![w] = tried[w] + 1]
               /\ Leaves(w, "acked") /\ UNCHANGED tried
      <3>0. tried[w] + 1 \in 0..MaxPosts + 1
        BY <1>b, <2>0
      <3>1. QueuesTyped' /\ Touches(w)
        BY <2>1, <1>a, <2>0, <3>0 DEF Leaves, QueuesTyped, Touches, HandlerSteps
      <3>2. row'[w] = "completed" /\ attempts'[w] = tried[w] + 1 /\ hpc'[w] = "idle" /\ at'[w] = "acked"
        BY <2>1, <1>a DEF Leaves, QueuesTyped
      <3>3. HeldOk(w)'
        BY <1>a, <2>0, <3>2 DEF HeldOk
      <3>4. WebhookOk(w)'
        BY <1>a, <1>b, <2>0, <3>2 DEF WebhookOk
      <3> QED BY <3>1, <3>3, <3>4, WebhookStep
    <2>2. CASE tried' = [tried EXCEPT ![w] = @ + 1] /\ Moves(w, "error") /\ UNCHANGED <<row, attempts>>
      <3>1. QueuesTyped' /\ Touches(w)
        BY <2>2, <1>a, <2>0 DEF Moves, QueuesTyped, Touches, HandlerSteps
      <3>2. tried'[w] = attempts[w] + 1 /\ hpc'[w] = "error" /\ at' = at
        BY <2>2, <1>a, <2>0 DEF Moves, QueuesTyped
      <3>3. HeldOk(w)'
        BY <1>a, <2>0, <3>2 DEF HeldOk
      <3>4. WebhookOk(w)'
        BY <1>a, <1>b, <2>0, <2>2, <3>2 DEF WebhookOk
      <3> QED BY <3>1, <3>3, <3>4, WebhookStep
    <2> QED BY <1>2, <2>1, <2>2 DEF CompleteWebhook
  <1> QED BY <1>1, <1>2

LEMMA WebhookFailed ==
  ASSUME QueuesInv, NEW w \in Webhook, FailAttempt(w)
  PROVE  QueuesInv'
  <1> USE QueuesFacts
  <1>a. HeldOk(w) /\ WebhookOk(w) /\ QueuesTyped
    BY DEF QueuesInv, MessageOk
  <1>b. effects[w] \in Nat /\ forgotten[w] \in Nat /\ attempts[w] \in Nat /\ tried[w] \in Nat
    BY <1>a DEF QueuesTyped
  <1>c. hpc[w] = "error" /\ row[w] = "pending" /\ tried[w] \in {attempts[w], attempts[w] + 1} /\ attempts[w] < MaxPosts
        /\ UNCHANGED <<retries, effects, stranded, mailer, texter>>
    BY <1>a DEF FailAttempt, WebhookOk
  <1> PICK n \in Nat : n = tried[w] + 1
    BY <1>b
  <1>d. n \in 0..MaxPosts + 1 /\ n \in {attempts[w] + 1, attempts[w] + 2}
    BY <1>b, <1>c
  <1>1. CASE attempts' = [attempts EXCEPT ![w] = n] /\ tried' = [tried EXCEPT ![w] = n] /\ n >= MaxPosts
             /\ row' = [row EXCEPT ![w] = "failed"] /\ Leaves(w, "dlq") /\ UNCHANGED forgotten
    <2>1. QueuesTyped' /\ Touches(w)
      BY <1>1, <1>a, <1>c, <1>d DEF Leaves, QueuesTyped, Touches, HandlerSteps
    <2>2. attempts'[w] = n /\ row'[w] = "failed" /\ at'[w] = "dlq" /\ hpc'[w] = "idle"
      BY <1>1, <1>a DEF Leaves, QueuesTyped
    <2>3. HeldOk(w)'
      BY <1>a, <1>c, <2>2 DEF HeldOk
    <2>4. WebhookOk(w)'
      BY <1>a, <1>b, <1>c, <1>d, <1>1, <2>2 DEF WebhookOk
    <2> QED BY <2>1, <2>3, <2>4, WebhookStep
  <1>2. CASE attempts' = [attempts EXCEPT ![w] = n] /\ tried' = [tried EXCEPT ![w] = n] /\ ~(n >= MaxPosts)
             /\ Moves(w, "post") /\ UNCHANGED row /\ UNCHANGED forgotten
    <2>1. QueuesTyped' /\ Touches(w)
      BY <1>2, <1>a, <1>c, <1>d DEF Moves, QueuesTyped, Touches, HandlerSteps
    <2>2. attempts'[w] = n /\ tried'[w] = n /\ at' = at /\ hpc'[w] = "post"
      BY <1>2, <1>a DEF Moves, QueuesTyped
    <2>3. HeldOk(w)'
      BY <1>a, <1>c, <2>2 DEF HeldOk
    <2>4. WebhookOk(w)'
      BY <1>a, <1>b, <1>c, <1>d, <1>2, <2>2 DEF WebhookOk, HeldOk
    <2> QED BY <2>1, <2>3, <2>4, WebhookStep
  <1>3. CASE RetryWebhook(w) /\ forgotten' = [forgotten EXCEPT ![w] = @ + 1] /\ UNCHANGED <<row, attempts, tried>>
    <2>0. /\ hpc' = [hpc EXCEPT ![w] = "idle"]
          /\ \/ at' = [at EXCEPT ![w] = "dlq"] /\ retries[w] = MaxRetries
             \/ at' = [at EXCEPT ![w] = "timer"] /\ retries[w] < MaxRetries
      BY <1>3, <1>a, WebhookRetried
    <2>1. QueuesTyped' /\ Touches(w)
      BY <1>3, <1>a, <1>c, <2>0 DEF QueuesTyped, Touches, HandlerSteps
    <2>2. /\ hpc'[w] = "idle" /\ forgotten'[w] = forgotten[w] + 1
          /\ \/ at'[w] = "dlq" /\ retries[w] = MaxRetries
             \/ at'[w] = "timer" /\ retries[w] < MaxRetries
      BY <2>0, <1>3, <1>a DEF QueuesTyped
    <2>3. HeldOk(w)'
      BY <1>a, <1>c, <2>2 DEF HeldOk
    <2>4. WebhookOk(w)'
      BY <1>a, <1>b, <1>c, <1>3, <2>2 DEF WebhookOk
    <2> QED BY <2>1, <2>3, <2>4, WebhookStep
  <1> QED BY <1>1, <1>2, <1>3 DEF FailAttempt, CountedAttempts

-----------------------------------------------------------------------------
(* Audit entries and notices. *)

LEMMA AuditStep ==
  ASSUME QueuesInv, NEW a \in Audit, QueuesTyped', Touches(a), HeldOk(a)', AuditOk(a)'
  PROVE  QueuesInv'
  <1>1. MessageOk(a)' /\ a \in Message
    BY QueuesFacts DEF MessageOk
  <1>2. \A k \in Message : MessageOk(k)
    BY DEF QueuesInv
  <1> QED BY <1>1, <1>2, OthersStay DEF QueuesInv

LEMMA NoticeStep ==
  ASSUME QueuesInv, NEW n \in Notice, QueuesTyped', Touches(n), HeldOk(n)', NoticeOk(n)'
  PROVE  QueuesInv'
  <1>1. MessageOk(n)' /\ n \in Message
    BY QueuesFacts DEF MessageOk
  <1>2. \A k \in Message : MessageOk(k)
    BY DEF QueuesInv
  <1> QED BY <1>1, <1>2, OthersStay DEF QueuesInv

LEMMA AuditMoves ==
  ASSUME QueuesInv, NEW a \in Audit, logAudit(a) \/ storeAuditEntry(a) \/ AuditFails(a)
  PROVE  QueuesInv'
  <1> USE QueuesFacts
  <1>a. HeldOk(a) /\ AuditOk(a) /\ QueuesTyped
    BY DEF QueuesInv, MessageOk
  <1>b. effects[a] \in Nat /\ forgotten[a] \in Nat
    BY <1>a DEF QueuesTyped
  <1>1. CASE logAudit(a)
    <2>1. QueuesTyped' /\ Touches(a)
      BY <1>1, <1>a DEF logAudit, QueuesTyped, Touches
    <2>2. at[a] = "none" /\ at'[a] \in {"queue", "outbox", "file"} /\ UNCHANGED <<retries, hpc, effects, forgotten>>
      BY <1>1, <1>a DEF logAudit, QueuesTyped
    <2>3. HeldOk(a)' /\ AuditOk(a)'
      BY <1>a, <2>2 DEF HeldOk, AuditOk
    <2> QED BY <2>1, <2>3, AuditStep
  <1>2. CASE storeAuditEntry(a)
    <2>1. QueuesTyped' /\ Touches(a)
      BY <1>2, <1>a DEF storeAuditEntry, Moves, QueuesTyped, Touches, HandlerSteps
    <2>2. hpc[a] = "act" /\ hpc'[a] = "ack" /\ effects'[a] = effects[a] + 1 /\ UNCHANGED <<at, retries, forgotten>>
      BY <1>2, <1>a DEF storeAuditEntry, Moves, QueuesTyped
    <2>3. HeldOk(a)'
      BY <1>a, <2>2 DEF HeldOk
    <2>4. AuditOk(a)'
      BY <1>a, <1>b, <2>2 DEF AuditOk, HeldOk
    <2> QED BY <2>1, <2>3, <2>4, AuditStep
  <1>3. CASE AuditFails(a)
    <2>1. UNCHANGED <<at, hpc>> \/ Leaves(a, "dropped")
      BY <1>3 DEF AuditFails
    <2>2. QueuesTyped' /\ Touches(a)
      BY <1>3, <1>a, <2>1 DEF AuditFails, Leaves, QueuesTyped, Touches, HandlerSteps
    <2>3. /\ hpc[a] = "act" /\ UNCHANGED <<retries, effects, forgotten>>
          /\ \/ UNCHANGED <<at, hpc>>
             \/ hpc'[a] = "idle" /\ at'[a] = "dropped"
      BY <1>3, <1>a, <2>1 DEF AuditFails, Leaves, QueuesTyped
    <2>4. HeldOk(a)'
      BY <1>a, <2>3 DEF HeldOk
    <2>5. AuditOk(a)'
      BY <1>a, <2>3 DEF AuditOk, HeldOk
    <2> QED BY <2>2, <2>4, <2>5, AuditStep
  <1> QED BY <1>1, <1>2, <1>3

LEMMA NoticeMoves ==
  ASSUME QueuesInv, NEW n \in Notice, PublishNotice(n) \/ processNotification(n)
  PROVE  QueuesInv'
  <1> USE QueuesFacts
  <1>a. HeldOk(n) /\ NoticeOk(n) /\ QueuesTyped
    BY DEF QueuesInv, MessageOk
  <1>b. effects[n] \in Nat /\ forgotten[n] \in Nat
    BY <1>a DEF QueuesTyped
  <1> PICK om \in {0, 1} : om = One(mailer)
    BY OneBounds
  <1> PICK ot \in {0, 1} : ot = One(texter)
    BY OneBounds
  <1>c. UNCHANGED <<mailer, texter>> => om = One(mailer)' /\ ot = One(texter)'
    BY DEF One
  <1>1. CASE PublishNotice(n)
    <2>1. QueuesTyped' /\ Touches(n)
      BY <1>1, <1>a DEF PublishNotice, QueuesTyped, Touches
    <2>2. at[n] = "none" /\ at'[n] = "queue" /\ UNCHANGED <<retries, hpc, effects, forgotten, mailer, texter>>
      BY <1>1, <1>a DEF PublishNotice, QueuesTyped
    <2>3. HeldOk(n)'
      BY <1>a, <2>2 DEF HeldOk
    <2>4. NoticeOk(n)'
      BY <1>a, <1>c, <2>2 DEF NoticeOk, HeldOk
    <2> QED BY <2>1, <2>3, <2>4, NoticeStep
  <1>2. CASE hpc[n] = "act" /\ processNotification(n)
    <2>1. effects' = [effects EXCEPT ![n] = @ + om] /\ mailer # "refuses" /\ Moves(n, "text")
          /\ UNCHANGED <<row, attempts, retries, tried, mailer, texter, crashes, forgotten, stranded>>
      BY <1>2 DEF processNotification
    <2>2. QueuesTyped' /\ Touches(n)
      BY <2>1, <1>a DEF Moves, QueuesTyped, Touches, HandlerSteps
    <2>3. hpc'[n] = "text" /\ at' = at /\ effects'[n] = effects[n] + om
      BY <2>1, <1>a DEF Moves, QueuesTyped
    <2>4. HeldOk(n)'
      BY <1>a, <1>2, <2>1, <2>3 DEF HeldOk
    <2>5. effects[n] <= forgotten[n]
      BY <1>a, <1>2 DEF NoticeOk, HeldOk
    <2>6. NoticeOk(n)'
      BY <1>b, <1>c, <1>2, <2>1, <2>3, <2>4, <2>5 DEF NoticeOk, HeldOk
    <2> QED BY <2>2, <2>4, <2>6, NoticeStep
  <1>3. CASE hpc[n] = "text" /\ processNotification(n)
    <2>1. effects' = [effects EXCEPT ![n] = @ + ot] /\ texter # "refuses" /\ Moves(n, "ack")
          /\ UNCHANGED <<row, attempts, retries, tried, mailer, texter, crashes, forgotten, stranded>>
      BY <1>3 DEF processNotification
    <2>2. QueuesTyped' /\ Touches(n)
      BY <2>1, <1>a DEF Moves, QueuesTyped, Touches, HandlerSteps
    <2>3. hpc'[n] = "ack" /\ at' = at /\ effects'[n] = effects[n] + ot
      BY <2>1, <1>a DEF Moves, QueuesTyped
    <2>4. HeldOk(n)'
      BY <1>a, <1>3, <2>1, <2>3 DEF HeldOk
    <2>5. mailer # "refuses" /\ effects[n] >= om /\ effects[n] <= om + forgotten[n]
      BY <1>a, <1>3 DEF NoticeOk
    <2>6. NoticeOk(n)'
      BY <1>b, <1>c, <1>3, <2>1, <2>3, <2>5 DEF NoticeOk
    <2> QED BY <2>2, <2>4, <2>6, NoticeStep
  <1> QED BY <1>1, <1>2, <1>3 DEF processNotification

LEMMA NoticeFails ==
  ASSUME QueuesInv, NEW n \in Notice, SendFails(n)
  PROVE  QueuesInv'
  <1> USE QueuesFacts
  <1>a. HeldOk(n) /\ NoticeOk(n) /\ QueuesTyped
    BY DEF QueuesInv, MessageOk
  <1>b. effects[n] \in Nat /\ forgotten[n] \in Nat /\ retries[n] \in 0..MaxRetries
    BY <1>a DEF QueuesTyped
  <1> PICK om \in {0, 1} : om = One(mailer)
    BY OneBounds
  <1> PICK ot \in {0, 1} : ot = One(texter)
    BY OneBounds
  <1>c. UNCHANGED <<mailer, texter>> => om = One(mailer)' /\ ot = One(texter)'
    BY DEF One
  <1>d. hpc[n] \in {"act", "text"} /\ at[n] = "held"
    BY <1>a DEF SendFails, HeldOk
  <1>e. Undone(n) \in {0, 1} /\ effects[n] <= forgotten[n] + Undone(n)
    <2>1. CASE hpc[n] = "act"
      <3>1. Undone(n) = 0
        BY <2>1 DEF Undone
      <3>2. effects[n] <= forgotten[n]
        BY <2>1, <1>a, <1>d DEF NoticeOk
      <3> QED BY <3>1, <3>2, <1>b
    <2>2. CASE hpc[n] = "text"
      <3>1. Undone(n) = om
        BY <2>2 DEF Undone
      <3>2. effects[n] <= om + forgotten[n]
        BY <2>2, <1>a DEF NoticeOk
      <3> QED BY <3>1, <3>2, <1>b
    <2> QED BY <1>d, <2>1, <2>2
  <1> PICK undone \in {0, 1} : undone = Undone(n) /\ effects[n] <= forgotten[n] + undone
    BY <1>e
  <1> PICK taken \in {0, 1} :
        /\ effects' = [effects EXCEPT ![n] = @ + taken]
        /\ forgotten' = [forgotten EXCEPT ![n] = @ + taken + undone]
    BY DEF SendFails, One
  <1>1. /\ hpc' = [hpc EXCEPT ![n] = "idle"]
        /\ \E place \in {"dropped", "queue"} : at' = [at EXCEPT ![n] = place]
    BY DEF SendFails, RetryNotice, Leaves
  <1>2. retries' = [retries EXCEPT ![n] = IF @ < MaxRetries THEN @ + 1 ELSE @]
        /\ UNCHANGED <<row, attempts, tried, mailer, texter, crashes, stranded>>
    BY DEF SendFails
  <1> PICK r \in 0..MaxRetries : r = IF retries[n] < MaxRetries THEN retries[n] + 1 ELSE retries[n]
    BY <1>b
  <1>3. QueuesTyped' /\ Touches(n)
    <2>1. retries' = [retries EXCEPT ![n] = r]
      BY <1>2
    <2>2. effects' \in [Message -> Nat] /\ forgotten' \in [Message -> Nat]
      BY <1>a DEF QueuesTyped
    <2>3. retries' \in [Message -> 0..MaxRetries] /\ hpc' \in [Message -> HandlerSteps]
          /\ at' \in [Message -> {"none", "queue", "held", "timer", "acked", "dlq", "dropped", "outbox", "file"}]
      BY <1>1, <1>a, <2>1 DEF QueuesTyped, HandlerSteps
    <2>4. QueuesTyped'
      BY <1>a, <1>2, <2>2, <2>3 DEF QueuesTyped
    <2>5. Touches(n)
      BY <1>a, <1>1, <1>2, <2>1 DEF QueuesTyped, Touches
    <2> QED BY <2>4, <2>5
  <1>4. /\ hpc'[n] = "idle" /\ at'[n] \in {"dropped", "queue"}
        /\ effects'[n] = effects[n] + taken /\ forgotten'[n] = forgotten[n] + taken + undone
    BY <1>1, <1>a DEF QueuesTyped
  <1>5. HeldOk(n)'
    BY <1>a, <1>4, <1>d DEF HeldOk
  <1>6. NoticeOk(n)'
    BY <1>b, <1>c, <1>2, <1>4 DEF NoticeOk
  <1> QED BY <1>3, <1>5, <1>6, NoticeStep

-----------------------------------------------------------------------------
(* What every consumer does. *)

LEMMA MessageTaken ==
  ASSUME QueuesInv, NEW m \in Message, TakeMessage(m) \/ AckMessage(m)
  PROVE  QueuesInv'
  <1> USE QueuesFacts
  <1>a. MessageOk(m) /\ QueuesTyped /\ \A k \in Message : MessageOk(k)
    BY DEF QueuesInv
  <1>c. UNCHANGED <<mailer, texter>> => One(mailer)' = One(mailer) /\ One(texter)' = One(texter)
    BY DEF One
  <1>1. CASE TakeMessage(m)
    <2>1. /\ at[m] = "queue" /\ tried' = [tried EXCEPT ![m] = 0]
          /\ UNCHANGED <<row, attempts, retries, mailer, texter, effects, forgotten, stranded>>
          /\ \/ at' = [at EXCEPT ![m] = "held"] /\ hpc' = [hpc EXCEPT ![m] = IF m \in Webhook THEN "read" ELSE "act"]
             \/ m \notin Enveloped /\ at' = [at EXCEPT ![m] = "dlq"] /\ hpc' = [hpc EXCEPT ![m] = "idle"]
      BY <1>1 DEF TakeMessage, parseIncomingMessage, Leaves
    <2>2. QueuesTyped' /\ Touches(m)
      BY <2>1, <1>a DEF QueuesTyped, Touches, HandlerSteps
    <2>3. \/ at'[m] = "held" /\ m \in Webhook /\ hpc'[m] = "read"
          \/ at'[m] = "held" /\ m \notin Webhook /\ hpc'[m] = "act"
          \/ at'[m] = "dlq" /\ m \notin Enveloped /\ hpc'[m] = "idle"
      BY <2>1, <1>a DEF QueuesTyped
    <2>4. hpc[m] \in {"idle", "publish"} /\ HeldOk(m)'
      BY <1>a, <2>1, <2>3 DEF MessageOk, HeldOk
    <2>5. m \in Webhook => WebhookOk(m)'
      BY <1>a, <2>1, <2>3, <2>4 DEF MessageOk, WebhookOk
    <2>6. m \in Audit => AuditOk(m)'
      BY <1>a, <2>1, <2>3, <2>4 DEF MessageOk, AuditOk
    <2>7. m \in Notice => NoticeOk(m)'
      BY <1>a, <1>c, <2>1, <2>3, <2>4 DEF MessageOk, NoticeOk
    <2> QED BY <1>a, <2>2, <2>4, <2>5, <2>6, <2>7, OthersStay DEF QueuesInv, MessageOk
  <1>2. CASE AckMessage(m)
    <2>1. /\ hpc[m] = "ack" /\ at' = [at EXCEPT ![m] = "acked"] /\ hpc' = [hpc EXCEPT ![m] = "idle"]
          /\ UNCHANGED <<row, attempts, retries, tried, mailer, texter, effects, forgotten, stranded>>
      BY <1>2 DEF AckMessage, Leaves
    <2>2. QueuesTyped' /\ Touches(m)
      BY <2>1, <1>a DEF QueuesTyped, Touches, HandlerSteps
    <2>3. at'[m] = "acked" /\ hpc'[m] = "idle" /\ m \notin Webhook
      BY <2>1, <1>a DEF QueuesTyped, MessageOk, HeldOk
    <2>4. HeldOk(m)'
      BY <1>a, <2>1, <2>3 DEF MessageOk, HeldOk
    <2>6. m \in Audit => AuditOk(m)'
      BY <1>a, <2>1, <2>3 DEF MessageOk, AuditOk
    <2>7. m \in Notice => NoticeOk(m)'
      BY <1>a, <1>c, <2>1, <2>3 DEF MessageOk, NoticeOk
    <2> QED BY <1>a, <2>2, <2>3, <2>4, <2>6, <2>7, OthersStay DEF QueuesInv, MessageOk
  <1> QED BY <1>1, <1>2

LEMMA MessageReturned ==
  ASSUME QueuesInv, NEW m \in Message, HandlerDies(m)
  PROVE  QueuesInv'
  <1> USE QueuesFacts
  <1>a. MessageOk(m) /\ QueuesTyped /\ \A k \in Message : MessageOk(k)
    BY DEF QueuesInv
  <1>b. effects[m] \in Nat /\ forgotten[m] \in Nat /\ (m \in Webhook => attempts[m] \in Nat)
    BY <1>a DEF QueuesTyped
  <1>c. UNCHANGED <<mailer, texter>> => One(mailer)' = One(mailer) /\ One(texter)' = One(texter)
    BY DEF One
  <1> PICK undone \in 0..2 : undone = Undone(m)
    BY OneBounds DEF Undone
  <1>d. /\ hpc[m] \in {"posted", "error"} => undone = 1
        /\ hpc[m] = "text" => undone = One(mailer)
        /\ hpc[m] = "ack" /\ m \in Notice => undone = One(mailer) + One(texter)
        /\ hpc[m] = "ack" /\ m \notin Notice => undone = 1
    BY DEF Undone
  <1>1. /\ at[m] \in {"held", "timer"} \/ hpc[m] = "publish"
        /\ hpc' = [hpc EXCEPT ![m] = "idle"]
        /\ forgotten' = [forgotten EXCEPT ![m] = @ + undone]
        /\ UNCHANGED <<row, attempts, retries, tried, mailer, texter, effects>>
    BY DEF HandlerDies
  <1>2. \/ at[m] = "held" /\ at' = [at EXCEPT ![m] = "queue"] /\ stranded' = stranded
        \/ at[m] = "timer" /\ at' = [at EXCEPT ![m] = "dropped"] /\ stranded' = stranded \cup {m}
        \/ hpc[m] = "publish" /\ at' = at /\ stranded' = stranded \cup {m}
    <2>1. CASE at[m] = "held"
      BY <2>1 DEF HandlerDies
    <2>2. CASE at[m] = "timer"
      BY <2>2 DEF HandlerDies
    <2>3. CASE hpc[m] = "publish" /\ at[m] = "none"
      <3>1. at' = [at EXCEPT ![m] = at[m]]
        BY <2>3 DEF HandlerDies
      <3> QED BY <2>3, <3>1, <1>a DEF HandlerDies, QueuesTyped
    <2> QED BY <1>1, <2>1, <2>2, <2>3, <1>a DEF MessageOk, HeldOk
  <1>3. QueuesTyped' /\ Touches(m)
    <2>1. forgotten' \in [Message -> Nat] /\ hpc' \in [Message -> HandlerSteps]
      BY <1>1, <1>a DEF QueuesTyped, HandlerSteps
    <2>2. at' \in [Message -> {"none", "queue", "held", "timer", "acked", "dlq", "dropped", "outbox", "file"}]
      BY <1>2, <1>a DEF QueuesTyped
    <2>3. QueuesTyped'
      BY <1>1, <2>1, <2>2, <1>a DEF QueuesTyped
    <2>4. Touches(m)
      BY <1>1, <1>2, <1>a DEF QueuesTyped, Touches
    <2> QED BY <2>3, <2>4
  <1>4. /\ hpc'[m] = "idle" /\ forgotten'[m] = forgotten[m] + undone
        /\ \/ at[m] = "held" /\ at'[m] = "queue"
           \/ at[m] = "timer" /\ at'[m] = "dropped" /\ m \in stranded'
           \/ at[m] = "none" /\ at'[m] = "none" /\ m \in stranded'
    BY <1>1, <1>2, <1>a DEF QueuesTyped, MessageOk, HeldOk
  <1>5. HeldOk(m)'
    BY <1>4 DEF HeldOk
  <1>6. m \in Webhook => WebhookOk(m)'
    BY <1>a, <1>b, <1>d, <1>1, <1>4 DEF MessageOk, WebhookOk
  <1>7. m \in Audit => AuditOk(m)'
    <2>1. CASE hpc[m] = "ack"
      BY <2>1, <1>a, <1>b, <1>d, <1>1, <1>4 DEF MessageOk, AuditOk
    <2>2. CASE hpc[m] # "ack"
      BY <2>2, <1>a, <1>b, <1>1, <1>4 DEF MessageOk, AuditOk
    <2> QED BY <2>1, <2>2
  <1>8. m \in Notice => NoticeOk(m)'
    <2> SUFFICES ASSUME m \in Notice PROVE NoticeOk(m)'
      OBVIOUS
    <2>1. effects[m] <= forgotten[m] + undone /\ effects[m] <= One(mailer) + One(texter) + forgotten[m]
      <3>1. CASE hpc[m] \in {"text", "ack"}
        BY <3>1, <1>a, <1>b, <1>d, OneBounds DEF MessageOk, NoticeOk
      <3>2. CASE hpc[m] \notin {"text", "ack"}
        BY <3>2, <1>a, <1>b, <1>4 DEF MessageOk, NoticeOk
      <3> QED BY <3>1, <3>2
    <2> QED BY <2>1, <1>b, <1>c, <1>1, <1>4, OneBounds DEF NoticeOk
  <1> QED BY <1>a, <1>3, <1>5, <1>6, <1>7, <1>8, OthersStay DEF QueuesInv, MessageOk

(* A pending webhook has a message that will deliver it, and every post, mail, *)
(* text and audit row is within what the message allows and what crashes and   *)
(* failed writes made the service forget: the row counts a post before the     *)
(* message is given back, and a notice is acknowledged after its last text.    *)
THEOREM QueuesAccount == QueuesSpec => []MessagesAccounted
  <1>1. ASSUME QueuesInv PROVE MessagesAccounted
    <2>1. QueuesTypeOK
      BY <1>1, QueuesFacts DEF QueuesInv, QueuesTyped, MessageOk, HeldOk, QueuesTypeOK
    <2>2. \A w \in Webhook : WebhookOk(w) /\ effects[w] <= MaxPosts + forgotten[w]
      BY <1>1, QueuesFacts DEF QueuesInv, MessageOk, WebhookOk
    <2>3. \A a \in Audit : AuditOk(a) /\ a \notin Webhook
      BY <1>1, QueuesFacts DEF QueuesInv, MessageOk
    <2>4. \A n \in Notice : NoticeOk(n)
      BY <1>1, QueuesFacts DEF QueuesInv, MessageOk
    <2>5. \A w \in Webhook : row[w] = "pending" =>
              \/ at[w] \in {"queue", "held", "timer"} \/ hpc[w] = "publish"
              \/ w \in stranded
              \/ at[w] = "dlq" /\ (retries[w] = MaxRetries \/ w \notin Enveloped)
      BY <2>2 DEF WebhookOk
    <2>6. \A m \in Webhook \cup Audit : effects[m] <= (IF m \in Webhook THEN MaxPosts ELSE 1) + forgotten[m]
      BY <2>2, <2>3 DEF AuditOk
    <2>7. \A n \in Notice :
              /\ effects[n] <= One(mailer) + One(texter) + forgotten[n]
              /\ at[n] = "acked" => "refuses" \notin {mailer, texter} /\ effects[n] >= One(mailer) + One(texter)
      BY <2>4 DEF NoticeOk
    <2> QED BY <2>1, <2>5, <2>6, <2>7 DEF MessagesAccounted
  <1>2. QueuesInv /\ [QueuesNext]_queueVars => QueuesInv'
    <2> SUFFICES ASSUME QueuesInv, [QueuesNext]_queueVars PROVE QueuesInv'
      OBVIOUS
    <2>1. CASE UNCHANGED queueVars
      <3>1. QueuesTyped'
        BY <2>1 DEF queueVars, QueuesInv, QueuesTyped
      <3>2. ASSUME NEW m \in Message PROVE MessageOk(m)'
        BY <2>1 DEF queueVars, QueuesInv, MessageOk, HeldOk, WebhookOk, AuditOk, NoticeOk, One
      <3> QED BY <3>1, <3>2 DEF QueuesInv
    <2> QED BY <2>1, WebhookPublished, WebhookFound, WebhookPosted, WebhookFailed, AuditMoves, NoticeMoves,
               NoticeFails, MessageTaken, MessageReturned DEF QueuesNext
  <1> QED BY <1>1, <1>2, QueuesInitInv, PTL DEF QueuesSpec

-----------------------------------------------------------------------------
(* Users, contacts, guardians and recipients. *)

DirectorySteps == {"idle", "lookup", "contact", "address", "read", "write", "delete"}
Profiles       == {"rename", "hide", "passcode"}
AskRecord ==
    [op : {"find", "pay", "link", "unlink", "guard", "unguard", "leave"} \cup Profiles,
     who : Person \cup {NoPerson}, alias : Alias \cup {NoAlias}, hide : BOOLEAN, proof : 0..1,
     whom : Person \cup {NoPerson}, names : Named \cup {{}}]

ProfilesTyped ==
    /\ alias \in [Person -> Alias \cup {NoAlias}] /\ hides \in [Person -> BOOLEAN]
    /\ code \in [Person -> Nat] /\ gone \subseteq Person
    /\ \A p, q \in Person : p # q /\ alias[p] = alias[q] => alias[p] = NoAlias

LinksTyped == contacts \subseteq Person \X Person /\ guardians \in [Person -> [Named -> Nat]]

(* What a request at a step carries. *)
AskOk(l, k) ==
    /\ l = "idle" => k = NoAsk
    /\ l # "idle" => k.who \in Person
    /\ l \in {"lookup", "contact", "address"} => k.op \in {"find", "pay"}
    /\ l \in {"contact", "address"} => k.whom \in Person
    /\ l \in {"read", "write", "delete"} => k.op \notin {"find", "pay"}
    /\ k.op \in {"link", "unlink"} => k.whom \in Person
    /\ k.op \in {"guard", "unguard"} => k.names \in Named

AsksTyped ==
    /\ dpc \in [Ask -> DirectorySteps] /\ ask \in [Ask -> AskRecord]
    /\ met \in [Ask -> [people : SUBSET Person, codes : SUBSET Nat]]
    /\ \A r \in Ask : AskOk(dpc[r], ask[r])

(* A request under way has met whom it sees now, found nobody else, and knows  *)
(* a code it replaces.                                                         *)
MetOk ==
    \A r \in Ask : dpc[r] # "idle" =>
        /\ Shows(r) \subseteq met[r].people /\ Current(r) \subseteq met[r].codes
        /\ dpc[r] = "address" => ask[r].whom \in met[r].people
        /\ dpc[r] = "write" /\ ask[r].op = "passcode" => {0, ask[r].proof} \cap met[r].codes # {}

Quiet == ~found /\ ~guessed

(* A deleted user has nothing and no request that could bring it back. *)
Erased ==
    \A p \in gone : p \notin torn =>
        /\ alias[p] = NoAlias /\ hides[p] /\ code[p] = 0
        /\ \A c \in contacts : c[1] # p
        /\ \A n \in Named : guardians[p][n] = 0
        /\ \A r \in Ask : dpc[r] # "idle" => ask[r].who # p

(* Guardians share no handle, also with the one about to be added. *)
Apart ==
    /\ \A p \in Person : p \notin raced => \A n, o \in Named :
          /\ guardians[p][n] <= 1
          /\ n # o /\ guardians[p][n] > 0 /\ guardians[p][o] > 0 => n \cap o = {}
    /\ \A r \in Ask : dpc[r] = "write" /\ ask[r].op = "guard" /\ ask[r].who \notin raced =>
          ~Existing(ask[r].who, ask[r].names)

DirectoryInv == ProfilesTyped /\ LinksTyped /\ AsksTyped /\ MetOk /\ Quiet /\ Erased /\ Apart

LEMMA DirectoryFacts ==
  /\ NoPerson \notin Person /\ NoAlias \notin Alias /\ MaxAsks \in Nat
  /\ \A n \in Named : n # {}
  BY DirectoryAssumption DEF Named

LEMMA NoAskTyped == NoAsk \in AskRecord /\ NoAsk.who \notin Person
  BY DirectoryFacts DEF NoAsk, AskRecord

LEMMA DirectoryInitInv == DirectoryInit => DirectoryInv
  <1> SUFFICES ASSUME DirectoryInit PROVE DirectoryInv
    OBVIOUS
  <1> USE DirectoryFacts
  <1>1. ProfilesTyped
    BY DEF DirectoryInit, ProfilesTyped
  <1>2. LinksTyped
    BY DEF DirectoryInit, LinksTyped
  <1>3. AsksTyped
    <2>1. NoOne \in [people : SUBSET Person, codes : SUBSET Nat]
      BY DEF NoOne
    <2>2. AskOk("idle", NoAsk)
      BY DEF AskOk, NoAsk
    <2> QED BY <2>1, <2>2, NoAskTyped DEF DirectoryInit, AsksTyped, DirectorySteps
  <1>4. MetOk /\ Quiet /\ Erased
    BY DEF DirectoryInit, MetOk, Quiet, Erased
  <1>5. Apart
    BY DEF DirectoryInit, Apart
  <1> QED BY <1>1, <1>2, <1>3, <1>4, <1>5 DEF DirectoryInv

-----------------------------------------------------------------------------
(* The step of a request, and what it must be to keep the promises. *)
AskMoves(r, l, k) ==
    /\ l \in DirectorySteps /\ k \in AskRecord /\ AskOk(l, k)
    /\ dpc' = [dpc EXCEPT ![r] = l] /\ ask' = [ask EXCEPT ![r] = k]
    /\ l # "idle" => (dpc[r] # "idle" /\ k.who = ask[r].who) \/ k.who \notin gone
    /\ l = "write" /\ k.op = "guard" => ~Existing(k.who, k.names)
    /\ l = "address" => k.whom \in met[r].people
    /\ l = "write" /\ k.op = "passcode" => {0, k.proof} \cap met[r].codes # {}

MetMoves ==
    met' = [r \in Ask |-> IF dpc'[r] = "idle" THEN NoOne
                          ELSE [people |-> met[r].people \cup Shows(r)',
                                codes  |-> met[r].codes \cup Current(r)']]

LEMMA AnsweredMoves ==
  ASSUME NEW r \in Ask, Answered(r)
  PROVE  AskMoves(r, "idle", NoAsk)
  BY NoAskTyped DEF Answered, AskMoves, AskOk, DirectorySteps, NoAsk

LEMMA StepMoves ==
  ASSUME DirectoryInv, NEW r \in Ask, NEW l \in {"write", "delete", "address"}, Step(r, l), dpc[r] # "idle",
         l = "address" => ask[r].whom \in met[r].people /\ dpc[r] = "contact",
         l # "address" => dpc[r] = "read",
         l = "write" /\ ask[r].op = "guard" => ~Existing(ask[r].who, ask[r].names),
         l = "write" /\ ask[r].op = "passcode" => {0, ask[r].proof} \cap met[r].codes # {}
  PROVE  \E k \in AskRecord : AskMoves(r, l, k)
  <1> PICK k \in AskRecord : k = ask[r]
    BY DEF DirectoryInv, AsksTyped
  <1>1. ask' = [ask EXCEPT ![r] = k] /\ dpc' = [dpc EXCEPT ![r] = l]
    BY DEF Step, DirectoryInv, AsksTyped
  <1>2. AskOk(dpc[r], k)
    BY DEF DirectoryInv, AsksTyped
  <1>3. AskOk(l, k)
    BY <1>2 DEF AskOk
  <1>4. AskMoves(r, l, k)
    BY <1>1, <1>3 DEF AskMoves, DirectorySteps
  <1> QED BY <1>4

LEMMA LetInMoves ==
  ASSUME DirectoryInv, NEW r \in Ask, LetIn(r)
  PROVE  \E l \in DirectorySteps, k \in AskRecord : AskMoves(r, l, k)
  <1>1. ASSUME NEW w \in Person \ gone, NEW k \in AskRecord, NEW l \in {"lookup", "read", "write"}, k.who = w,
               Begun(r, l, k),
               l = "lookup" => k.op \in {"find", "pay"}, l = "read" => k.op \notin {"find", "pay"},
               l = "write" => k.op \in {"link", "leave"},
               k.op \in {"link", "unlink"} => k.whom \in Person, k.op \in {"guard", "unguard"} => k.names \in Named
        PROVE  \E m \in DirectorySteps, j \in AskRecord : AskMoves(r, m, j)
    <2>1. AskOk(l, k) /\ l \in DirectorySteps
      BY <1>1 DEF AskOk, DirectorySteps
    <2>2. AskMoves(r, l, k)
      BY <1>1, <2>1 DEF AskMoves, Begun
    <2> QED BY <2>1, <2>2
  <1>2. ASSUME NEW w \in Person \ gone, NEW op \in {"find", "pay"}, NEW a \in Alias,
               Begun(r, "lookup", [NoAsk EXCEPT !.op = op, !.who = w, !.alias = a])
        PROVE  \E m \in DirectorySteps, j \in AskRecord : AskMoves(r, m, j)
    <2> DEFINE k == [NoAsk EXCEPT !.op = op, !.who = w, !.alias = a]
    <2>1. k \in AskRecord /\ k.who = w /\ k.op = op
      BY NoAskTyped DEF AskRecord
    <2>2. Begun(r, "lookup", k)
      BY <1>2
    <2> HIDE DEF k
    <2> QED BY <2>1, <2>2, <1>1
  <1>3. ASSUME NEW w \in Person \ gone, NEW op \in {"rename", "hide", "passcode"},
               NEW a \in Alias \cup {NoAlias}, NEW h \in BOOLEAN, NEW g \in 0..1,
               Begun(r, "read", [NoAsk EXCEPT !.op = op, !.who = w, !.alias = a, !.hide = h, !.proof = g])
        PROVE  \E m \in DirectorySteps, j \in AskRecord : AskMoves(r, m, j)
    <2> DEFINE k == [NoAsk EXCEPT !.op = op, !.who = w, !.alias = a, !.hide = h, !.proof = g]
    <2>1. k \in AskRecord /\ k.who = w /\ k.op = op
      BY NoAskTyped DEF AskRecord, Profiles
    <2>2. Begun(r, "read", k)
      BY <1>3
    <2> HIDE DEF k
    <2> QED BY <2>1, <2>2, <1>1
  <1>4. ASSUME NEW w \in Person \ gone, NEW op \in {"link", "unlink"}, NEW p \in Person \ {w},
               Begun(r, IF op = "link" THEN "write" ELSE "read", [NoAsk EXCEPT !.op = op, !.who = w, !.whom = p])
        PROVE  \E m \in DirectorySteps, j \in AskRecord : AskMoves(r, m, j)
    <2> DEFINE k == [NoAsk EXCEPT !.op = op, !.who = w, !.whom = p]
    <2>1. k \in AskRecord /\ k.who = w /\ k.op = op /\ k.whom = p
      BY NoAskTyped DEF AskRecord
    <2>2. Begun(r, IF op = "link" THEN "write" ELSE "read", k)
      BY <1>4
    <2> HIDE DEF k
    <2>3. CASE op = "link"
      BY <2>1, <2>2, <2>3, <1>1
    <2>4. CASE op = "unlink"
      BY <2>1, <2>2, <2>4, <1>1
    <2> QED BY <2>3, <2>4
  <1>5. ASSUME NEW w \in Person \ gone, NEW op \in {"guard", "unguard"}, NEW n \in Named,
               Begun(r, "read", [NoAsk EXCEPT !.op = op, !.who = w, !.names = n])
        PROVE  \E m \in DirectorySteps, j \in AskRecord : AskMoves(r, m, j)
    <2> DEFINE k == [NoAsk EXCEPT !.op = op, !.who = w, !.names = n]
    <2>1. k \in AskRecord /\ k.who = w /\ k.op = op /\ k.names = n
      BY NoAskTyped DEF AskRecord
    <2>2. Begun(r, "read", k)
      BY <1>5
    <2> HIDE DEF k
    <2> QED BY <2>1, <2>2, <1>1
  <1>6. ASSUME NEW w \in Person \ gone, Begun(r, "write", [NoAsk EXCEPT !.op = "leave", !.who = w])
        PROVE  \E m \in DirectorySteps, j \in AskRecord : AskMoves(r, m, j)
    <2> DEFINE k == [NoAsk EXCEPT !.op = "leave", !.who = w]
    <2>1. k \in AskRecord /\ k.who = w /\ k.op = "leave"
      BY NoAskTyped DEF AskRecord
    <2>2. Begun(r, "write", k)
      BY <1>6
    <2> HIDE DEF k
    <2> QED BY <2>1, <2>2, <1>1
  <1> QED BY <1>2, <1>3, <1>4, <1>5, <1>6, Zenon DEF LetIn

(* What the requests carry, whom they have met. *)
LEMMA AsksMove ==
  ASSUME DirectoryInv, NEW r \in Ask, NEW l, NEW k, AskMoves(r, l, k), MetMoves, ProfilesTyped'
  PROVE  AsksTyped' /\ MetOk'
  <1>0. /\ dpc \in [Ask -> DirectorySteps] /\ ask \in [Ask -> AskRecord]
        /\ met \in [Ask -> [people : SUBSET Person, codes : SUBSET Nat]]
        /\ \A s \in Ask : AskOk(dpc[s], ask[s])
        /\ l \in DirectorySteps /\ k \in AskRecord /\ AskOk(l, k)
        /\ dpc' = [dpc EXCEPT ![r] = l] /\ ask' = [ask EXCEPT ![r] = k]
    BY DEF DirectoryInv, AsksTyped, AskMoves
  <1>1. dpc' \in [Ask -> DirectorySteps] /\ ask' \in [Ask -> AskRecord]
    BY <1>0
  <1>2. \A s \in Ask : dpc'[s] = (IF s = r THEN l ELSE dpc[s]) /\ ask'[s] = (IF s = r THEN k ELSE ask[s])
    BY <1>0
  <1>3. \A s \in Ask : AskOk(dpc'[s], ask'[s])
    BY <1>0, <1>2
  <1>4. ASSUME NEW s \in Ask
        PROVE  Shows(s)' \subseteq Person /\ Current(s)' \subseteq Nat
    BY DEF Shows, Current, ProfilesTyped
  <1>5. met' \in [Ask -> [people : SUBSET Person, codes : SUBSET Nat]]
    <2>1. NoOne \in [people : SUBSET Person, codes : SUBSET Nat]
      BY DEF NoOne
    <2>2. ASSUME NEW s \in Ask
          PROVE  [people |-> met[s].people \cup Shows(s)', codes |-> met[s].codes \cup Current(s)']
                    \in [people : SUBSET Person, codes : SUBSET Nat]
      BY <1>0, <1>4
    <2> QED BY <2>1, <2>2 DEF MetMoves
  <1>6. AsksTyped'
    BY <1>1, <1>3, <1>5 DEF AsksTyped
  <1>7. ASSUME NEW s \in Ask, dpc'[s] # "idle"
        PROVE  /\ Shows(s)' \subseteq met'[s].people /\ Current(s)' \subseteq met'[s].codes
               /\ met[s].people \subseteq met'[s].people /\ met[s].codes \subseteq met'[s].codes
    BY <1>7 DEF MetMoves
  <1>8. ASSUME NEW s \in Ask, dpc'[s] = "address"
        PROVE  ask'[s].whom \in met'[s].people
    <2>1. ask'[s].whom \in met[s].people
      BY <1>2, <1>8 DEF AskMoves, DirectoryInv, MetOk
    <2> QED BY <2>1, <1>7, <1>8
  <1>9. ASSUME NEW s \in Ask, dpc'[s] = "write", ask'[s].op = "passcode"
        PROVE  {0, ask'[s].proof} \cap met'[s].codes # {}
    <2>1. {0, ask'[s].proof} \cap met[s].codes # {}
      BY <1>2, <1>9 DEF AskMoves, DirectoryInv, MetOk
    <2> QED BY <2>1, <1>7, <1>9
  <1>10. MetOk'
    BY <1>7, <1>8, <1>9 DEF MetOk
  <1> QED BY <1>6, <1>10

(* What erased users and guardians keep, seen by the requests. *)
LEMMA RequestsStayErased ==
  ASSUME DirectoryInv, NEW r \in Ask, NEW l, NEW k, AskMoves(r, l, k),
         NEW p \in gone, p \notin torn, NEW s \in Ask, dpc'[s] # "idle"
  PROVE  ask'[s].who # p
  <1>1. dpc'[s] = (IF s = r THEN l ELSE dpc[s]) /\ ask'[s] = (IF s = r THEN k ELSE ask[s])
    BY DEF AskMoves, DirectoryInv, AsksTyped
  <1>2. \A q \in Ask : dpc[q] # "idle" => ask[q].who # p
    BY DEF DirectoryInv, Erased
  <1> QED BY <1>1, <1>2 DEF AskMoves

LEMMA RequestsStayApart ==
  ASSUME DirectoryInv, NEW r \in Ask, NEW l, NEW k, AskMoves(r, l, k), raced' = raced,
         \A p \in Person, n \in Named : guardians'[p][n] > 0 => guardians[p][n] > 0,
         NEW s \in Ask, dpc'[s] = "write", ask'[s].op = "guard", ask'[s].who \notin raced'
  PROVE  ~Existing(ask[s].who, ask[s].names)'
  <1>1. dpc'[s] = (IF s = r THEN l ELSE dpc[s]) /\ ask'[s] = (IF s = r THEN k ELSE ask[s])
    BY DEF AskMoves, DirectoryInv, AsksTyped
  <1>2. ~Existing(ask'[s].who, ask'[s].names)
    BY <1>1 DEF AskMoves, DirectoryInv, Apart
  <1>3. ask'[s].who \in Person
    BY <1>1 DEF AskMoves, DirectoryInv, AsksTyped, AskOk
  <1> QED BY <1>2, <1>3 DEF Existing

-----------------------------------------------------------------------------
(* A step of a request that leaves profiles and links alone. *)
LEMMA OnlyAsks ==
  ASSUME DirectoryInv, NEW r \in Ask, NEW l, NEW k, AskMoves(r, l, k), MetMoves,
         UNCHANGED <<profileVars, gone, linkVars, torn, raced>>, Quiet'
  PROVE  DirectoryInv'
  <1>0. /\ alias' = alias /\ hides' = hides /\ code' = code /\ gone' = gone /\ contacts' = contacts
        /\ guardians' = guardians /\ torn' = torn /\ raced' = raced
    BY DEF profileVars, linkVars
  <1>1. ProfilesTyped' /\ LinksTyped'
    BY <1>0 DEF DirectoryInv, ProfilesTyped, LinksTyped
  <1>2. AsksTyped' /\ MetOk'
    BY <1>1, AsksMove
  <1>3. Erased'
    BY <1>0, RequestsStayErased DEF DirectoryInv, Erased
  <1>4. Apart'
    <2>1. \A p \in Person, n \in Named : guardians'[p][n] > 0 => guardians[p][n] > 0
      BY <1>0
    <2>2. \A s \in Ask : dpc'[s] = "write" /\ ask'[s].op = "guard" /\ ask'[s].who \notin raced' =>
              ~Existing(ask[s].who, ask[s].names)'
      BY <1>0, <2>1, RequestsStayApart
    <2>3. \A p \in Person : p \notin raced' => \A n, o \in Named :
             /\ guardians'[p][n] <= 1
             /\ n # o /\ guardians'[p][n] > 0 /\ guardians'[p][o] > 0 => n \cap o = {}
      BY <1>0 DEF DirectoryInv, Apart
    <2> QED BY <2>2, <2>3 DEF Apart
  <1> QED BY <1>1, <1>2, <1>3, <1>4 DEF DirectoryInv

LEMMA QuietKept ==
  ASSUME DirectoryInv, UNCHANGED <<found, guessed>>
  PROVE  Quiet'
  BY Zenon DEF DirectoryInv, Quiet

LEMMA LetInKeeps ==
  ASSUME DirectoryInv, NEW r \in Ask, LetIn(r), MetMoves
  PROVE  DirectoryInv'
  <1>1. UNCHANGED <<profileVars, gone, linkVars, torn, raced>> /\ UNCHANGED <<found, guessed>>
    BY Zenon DEF LetIn, ghostVars
  <1>2. Quiet'
    BY <1>1, QuietKept
  <1> QED BY <1>1, <1>2, LetInMoves, OnlyAsks

LEMMA patchMeKeeps ==
  ASSUME DirectoryInv, NEW r \in Ask, patchMe(r), MetMoves
  PROVE  DirectoryInv'
  <1>1. UNCHANGED <<profileVars, gone, linkVars, torn, raced>> /\ UNCHANGED <<found, guessed>>
    BY Zenon DEF patchMe, ghostVars
  <1>2. Quiet'
    BY <1>1, QuietKept
  <1>3. CASE Answered(r)
    BY <1>1, <1>2, <1>3, AnsweredMoves, OnlyAsks
  <1>4. CASE Step(r, "write") /\ ~(ask[r].op = "passcode" /\ ~Proven(r))
    <2>1. dpc[r] = "read" /\ ask[r].op \in {"rename", "hide", "passcode"}
      BY DEF patchMe
    <2>2. ask[r].who \in Person /\ Current(r) \subseteq met[r].codes
      BY <2>1 DEF DirectoryInv, AsksTyped, AskOk, MetOk
    <2>3. code[ask[r].who] \in met[r].codes
      BY <2>2 DEF Current
    <2>4. ask[r].op = "passcode" => {0, ask[r].proof} \cap met[r].codes # {}
      BY <1>4, <2>3 DEF Proven
    <2>5. \E k \in AskRecord : AskMoves(r, "write", k)
      BY <1>4, <2>1, <2>4, StepMoves
    <2> QED BY <2>5, <1>1, <1>2, OnlyAsks
  <1> QED BY <1>3, <1>4 DEF patchMe

LEMMA FindOwnRowKeeps ==
  ASSUME DirectoryInv, NEW r \in Ask, FindOwnRow(r), MetMoves
  PROVE  DirectoryInv'
  <1>1. UNCHANGED <<profileVars, gone, linkVars, torn, raced>> /\ UNCHANGED <<found, guessed>>
    BY Zenon DEF FindOwnRow, ghostVars
  <1>2. Quiet'
    BY <1>1, QuietKept
  <1>3. CASE Answered(r)
    BY <1>1, <1>2, <1>3, AnsweredMoves, OnlyAsks
  <1>4. CASE Step(r, "delete")
    <2>1. \E k \in AskRecord : AskMoves(r, "delete", k)
      BY <1>4, StepMoves DEF FindOwnRow
    <2> QED BY <2>1, <1>1, <1>2, OnlyAsks
  <1> QED BY <1>3, <1>4 DEF FindOwnRow

LEMMA postGuardiansKeeps ==
  ASSUME DirectoryInv, NEW r \in Ask, postGuardians(r), MetMoves
  PROVE  DirectoryInv'
  <1>1. UNCHANGED <<profileVars, gone, linkVars, torn, raced>> /\ UNCHANGED <<found, guessed>>
    BY Zenon DEF postGuardians, ghostVars
  <1>2. Quiet'
    BY <1>1, QuietKept
  <1>3. CASE Answered(r)
    BY <1>1, <1>2, <1>3, AnsweredMoves, OnlyAsks
  <1>4. CASE Step(r, "write") /\ ~Existing(ask[r].who, ask[r].names)
    <2>1. \E k \in AskRecord : AskMoves(r, "write", k)
      BY <1>4, StepMoves DEF postGuardians
    <2> QED BY <2>1, <1>1, <1>2, OnlyAsks
  <1> QED BY <1>3, <1>4 DEF postGuardians

-----------------------------------------------------------------------------
(* The resolution of a recipient. *)
LEMMA FoundKept ==
  ASSUME DirectoryInv, NEW r \in Ask, NEW p, Found(r, p), guessed' = guessed, p \in met[r].people
  PROVE  Quiet'
  <1>1. ~found /\ ~guessed
    BY Zenon DEF DirectoryInv, Quiet
  <1> QED BY <1>1, Zenon DEF Found, Quiet

LEMMA WhomFound ==
  ASSUME DirectoryInv, NEW r \in Ask, NEW p \in Person, NEW l \in {"contact", "address"}, dpc[r] = "lookup",
         dpc' = [dpc EXCEPT ![r] = l], ask' = [ask EXCEPT ![r].whom = p],
         l = "address" => p \in met[r].people
  PROVE  \E k \in AskRecord : AskMoves(r, l, k)
  <1> PICK j \in AskRecord : j = ask[r]
    BY DEF DirectoryInv, AsksTyped
  <1> DEFINE k == [j EXCEPT !.whom = p]
  <1>1. k \in AskRecord /\ k.who = j.who /\ k.op = j.op /\ k.whom = p /\ k.names = j.names
    BY DEF AskRecord
  <1>2. ask' = [ask EXCEPT ![r] = k]
    OBVIOUS
  <1> HIDE DEF k
  <1>3. AskOk(dpc[r], j)
    BY DEF DirectoryInv, AsksTyped
  <1>4. AskOk(l, k)
    BY <1>1, <1>3 DEF AskOk
  <1>5. AskMoves(r, l, k)
    BY <1>1, <1>2, <1>3, <1>4 DEF AskMoves, DirectorySteps, AskOk
  <1> QED BY <1>1, <1>5

LEMMA resolveRecipientKeeps ==
  ASSUME DirectoryInv, NEW r \in Ask, resolveRecipient(r), MetMoves
  PROVE  DirectoryInv'
  <1>1. UNCHANGED <<profileVars, gone, linkVars, torn, raced>> /\ guessed' = guessed /\ dpc[r] = "lookup"
    BY Zenon DEF resolveRecipient
  <1>2. CASE Answered(r) /\ found' = found
    <2>1. Quiet'
      BY <1>1, <1>2, QuietKept
    <2> QED BY <1>1, <1>2, <2>1, AnsweredMoves, OnlyAsks
  <1>3. ASSUME NEW p \in Person, hides[p] /\ p # ask[r].who,
               dpc' = [dpc EXCEPT ![r] = "contact"], ask' = [ask EXCEPT ![r].whom = p], found' = found
        PROVE  DirectoryInv'
    <2>1. Quiet'
      BY <1>1, <1>3, QuietKept
    <2>2. \E k \in AskRecord : AskMoves(r, "contact", k)
      BY <1>1, <1>3, WhomFound
    <2> QED BY <1>1, <2>1, <2>2, OnlyAsks
  <1>4. ASSUME NEW p \in Person, ~(hides[p] /\ p # ask[r].who), Found(r, p)
        PROVE  p \in met[r].people /\ Quiet'
    <2>1. p \in Shows(r)
      BY <1>4, Zenon DEF Shows, Shown
    <2>2. p \in met[r].people
      BY <1>1, <2>1 DEF DirectoryInv, MetOk
    <2> QED BY <1>1, <1>4, <2>2, FoundKept
  <1>5. ASSUME NEW p \in Person, ~(hides[p] /\ p # ask[r].who), Found(r, p), Answered(r)
        PROVE  DirectoryInv'
    BY <1>1, <1>4, <1>5, AnsweredMoves, OnlyAsks
  <1>6. ASSUME NEW p \in Person, ~(hides[p] /\ p # ask[r].who), Found(r, p),
               dpc' = [dpc EXCEPT ![r] = "address"], ask' = [ask EXCEPT ![r].whom = p]
        PROVE  DirectoryInv'
    <2>1. p \in met[r].people /\ Quiet'
      BY <1>4, <1>6
    <2>2. \E k \in AskRecord : AskMoves(r, "address", k)
      BY <1>1, <1>6, <2>1, WhomFound
    <2> QED BY <1>1, <2>1, <2>2, OnlyAsks
  <1> QED BY <1>2, <1>3, <1>5, <1>6, Zenon DEF resolveRecipient

LEMMA CheckContactKeeps ==
  ASSUME DirectoryInv, NEW r \in Ask, CheckContact(r), MetMoves
  PROVE  DirectoryInv'
  <1>1. UNCHANGED <<profileVars, gone, linkVars, torn, raced>> /\ guessed' = guessed /\ dpc[r] = "contact"
    BY Zenon DEF CheckContact
  <1>2. CASE Answered(r) /\ found' = found
    <2>1. Quiet'
      BY <1>1, <1>2, QuietKept
    <2> QED BY <1>1, <1>2, <2>1, AnsweredMoves, OnlyAsks
  <1>3. ASSUME IsContact(ask[r].whom, ask[r].who), Found(r, ask[r].whom)
        PROVE  ask[r].whom \in met[r].people /\ Quiet'
    <2>1. ask[r].whom \in Shows(r)
      <3>1. ask[r].whom \in Person
        BY <1>1 DEF DirectoryInv, AsksTyped, AskOk
      <3> QED BY <1>3, <3>1, Zenon DEF Shows, Shown, IsContact
    <2>2. ask[r].whom \in met[r].people
      BY <1>1, <2>1 DEF DirectoryInv, MetOk
    <2> QED BY <1>1, <1>3, <2>2, FoundKept
  <1>4. CASE /\ IsContact(ask[r].whom, ask[r].who) /\ Found(r, ask[r].whom) /\ Answered(r)
    BY <1>1, <1>3, <1>4, AnsweredMoves, OnlyAsks
  <1>5. CASE /\ IsContact(ask[r].whom, ask[r].who) /\ Found(r, ask[r].whom) /\ Step(r, "address")
    <2>1. \E k \in AskRecord : AskMoves(r, "address", k)
      BY <1>1, <1>3, <1>5, StepMoves
    <2> QED BY <1>1, <1>3, <1>5, <2>1, OnlyAsks
  <1> QED BY <1>2, <1>4, <1>5, Zenon DEF CheckContact

LEMMA resolveRecipientAddressKeeps ==
  ASSUME DirectoryInv, NEW r \in Ask, resolveRecipientAddress(r), MetMoves
  PROVE  DirectoryInv'
  <1>1. /\ UNCHANGED <<profileVars, gone, linkVars, torn, raced>> /\ guessed' = guessed /\ dpc[r] = "address"
        /\ Answered(r)
    BY Zenon DEF resolveRecipientAddress
  <1>2. ask[r].whom \in met[r].people
    BY <1>1 DEF DirectoryInv, MetOk
  <1>3. Quiet'
    <2>1. ~found /\ ~guessed
      BY Zenon DEF DirectoryInv, Quiet
    <2>2. found' = (found \/ (ask[r].whom \notin gone /\ ask[r].whom \notin met[r].people))
      BY Zenon DEF resolveRecipientAddress
    <2> QED BY <1>1, <1>2, <2>1, <2>2, Zenon DEF Quiet
  <1> QED BY <1>1, <1>3, AnsweredMoves, OnlyAsks

-----------------------------------------------------------------------------
(* The writes.  Who runs a request is not an erased user. *)
LEMMA RunsForTheLiving ==
  ASSUME DirectoryInv, NEW r \in Ask, dpc[r] # "idle"
  PROVE  ask[r].who \in Person /\ (ask[r].who \in gone => ask[r].who \in torn)
  BY DEF DirectoryInv, AsksTyped, AskOk, Erased

(* The last step of a request that writes. *)
LEMMA WriteKeeps ==
  ASSUME DirectoryInv, NEW r \in Ask, Answered(r), MetMoves, Quiet', ProfilesTyped', LinksTyped',
         gone' = gone, torn' = torn,
         \A p \in gone : p \notin torn =>
             /\ alias'[p] = NoAlias /\ hides'[p] /\ code'[p] = 0
             /\ \A c \in contacts' : c[1] # p
             /\ \A n \in Named : guardians'[p][n] = 0,
         Apart'
  PROVE  DirectoryInv'
  <1>1. AskMoves(r, "idle", NoAsk)
    BY AnsweredMoves
  <1>2. AsksTyped' /\ MetOk'
    BY <1>1, AsksMove
  <1>3. \A p \in gone : p \notin torn => \A s \in Ask : dpc'[s] # "idle" => ask'[s].who # p
    BY <1>1, RequestsStayErased
  <1>4. Erased'
    BY <1>3 DEF Erased
  <1> QED BY <1>2, <1>4 DEF DirectoryInv

LEMMA ApartKept ==
  ASSUME DirectoryInv, NEW r \in Ask, Answered(r), raced' = raced,
         guardians' \in [Person -> [Named -> Nat]],
         \A p \in Person, n \in Named : guardians'[p][n] <= guardians[p][n]
  PROVE  Apart'
  <1>1. AskMoves(r, "idle", NoAsk)
    BY AnsweredMoves
  <1>2. guardians \in [Person -> [Named -> Nat]]
    BY DEF DirectoryInv, LinksTyped
  <1>3. \A p \in Person, n \in Named : guardians'[p][n] > 0 => guardians[p][n] > 0
    BY <1>2
  <1>4. \A s \in Ask : dpc'[s] = "write" /\ ask'[s].op = "guard" /\ ask'[s].who \notin raced' =>
              ~Existing(ask[s].who, ask[s].names)'
    BY <1>1, <1>3, RequestsStayApart
  <1>5. ASSUME NEW p \in Person, p \notin raced', NEW n \in Named, NEW o \in Named
        PROVE  /\ guardians'[p][n] <= 1
               /\ n # o /\ guardians'[p][n] > 0 /\ guardians'[p][o] > 0 => n \cap o = {}
    <2>1. /\ guardians[p][n] <= 1
          /\ n # o /\ guardians[p][n] > 0 /\ guardians[p][o] > 0 => n \cap o = {}
      BY <1>5 DEF DirectoryInv, Apart
    <2>2. guardians[p][n] \in Nat /\ guardians'[p][n] \in Nat /\ guardians'[p][n] <= guardians[p][n]
      BY <1>2
    <2>3. guardians'[p][n] <= 1
      BY <2>1, <2>2
    <2> QED BY <1>3, <2>1, <2>3
  <1> QED BY <1>4, <1>5 DEF Apart

LEMMA UpdateUserKeeps ==
  ASSUME DirectoryInv, NEW r \in Ask, UpdateUser(r), MetMoves
  PROVE  DirectoryInv'
  <1> PICK w \in Person : w = ask[r].who
    BY RunsForTheLiving DEF UpdateUser
  <1>1. /\ Answered(r) /\ gone' = gone /\ torn' = torn /\ raced' = raced /\ found' = found
        /\ contacts' = contacts /\ guardians' = guardians
        /\ dpc[r] = "write" /\ ask[r].op \in {"rename", "hide", "passcode"}
    BY DEF UpdateUser, linkVars
  <1>2. w \in gone => w \in torn
    BY <1>1, RunsForTheLiving
  <1>3. LinksTyped'
    BY <1>1 DEF DirectoryInv, LinksTyped
  <1>4. Apart'
    <2>1. guardians' \in [Person -> [Named -> Nat]] /\ \A p \in Person, n \in Named : guardians'[p][n] \in Nat
      BY <1>1 DEF DirectoryInv, LinksTyped
    <2>2. \A p \in Person, n \in Named : guardians'[p][n] <= guardians[p][n]
      BY <1>1, <2>1
    <2> QED BY <1>1, <2>1, <2>2, ApartKept
  <1>5. ASSUME ProfilesTyped', Quiet',
               \A p \in Person \ {w} : alias'[p] = alias[p] /\ (hides'[p] <=> hides[p]) /\ code'[p] = code[p]
        PROVE  DirectoryInv'
    <2>1. \A p \in gone : p \notin torn =>
             /\ alias'[p] = NoAlias /\ hides'[p] /\ code'[p] = 0
             /\ \A c \in contacts' : c[1] # p
             /\ \A n \in Named : guardians'[p][n] = 0
      <3>1. ASSUME NEW p \in gone, p \notin torn
            PROVE  p \in Person \ {w}
        BY <1>2, <3>1 DEF DirectoryInv, ProfilesTyped
      <3>2. ASSUME NEW p \in gone, p \notin torn
            PROVE  /\ alias[p] = NoAlias /\ hides[p] /\ code[p] = 0
                   /\ \A c \in contacts : c[1] # p
                   /\ \A n \in Named : guardians[p][n] = 0
        BY <3>2 DEF DirectoryInv, Erased
      <3> QED BY <1>1, <1>5, <3>1, <3>2
    <2> QED BY <1>1, <1>3, <1>4, <1>5, <2>1, WriteKeeps
  <1>6. CASE ask[r].op = "rename"
    <2>1. /\ hides' = hides /\ code' = code /\ guessed' = guessed
          /\ alias' = IF \E p \in Person \ {w} : alias[p] = ask[r].alias /\ alias[p] # NoAlias
                      THEN alias ELSE [alias EXCEPT ![w] = ask[r].alias]
      BY <1>6 DEF UpdateUser
    <2>2. Quiet'
      BY <1>1, <2>1, QuietKept
    <2>3. ask[r].alias \in Alias \cup {NoAlias}
      BY DEF DirectoryInv, AsksTyped, AskRecord
    <2>4. ProfilesTyped'
      BY <1>1, <2>1, <2>3 DEF DirectoryInv, ProfilesTyped
    <2>5. \A p \in Person \ {w} : alias'[p] = alias[p]
      BY <2>1 DEF DirectoryInv, ProfilesTyped
    <2> QED BY <1>5, <2>1, <2>2, <2>4, <2>5
  <1>7. CASE ask[r].op = "hide"
    <2>1. hides' = [hides EXCEPT ![w] = ask[r].hide] /\ alias' = alias /\ code' = code /\ guessed' = guessed
      BY <1>7 DEF UpdateUser
    <2>2. Quiet'
      BY <1>1, <2>1, QuietKept
    <2>3. ask[r].hide \in BOOLEAN
      BY DEF DirectoryInv, AsksTyped, AskRecord
    <2>4. hides' \in [Person -> BOOLEAN]
      BY <2>1, <2>3 DEF DirectoryInv, ProfilesTyped
    <2>5. ProfilesTyped'
      BY <1>1, <2>1, <2>4 DEF DirectoryInv, ProfilesTyped
    <2>6. \A p \in Person \ {w} : (hides'[p] <=> hides[p])
      BY <2>1 DEF DirectoryInv, ProfilesTyped
    <2> QED BY <1>5, <2>1, <2>2, <2>5, <2>6
  <1>8. CASE ask[r].op = "passcode"
    <2>1. /\ alias' = alias /\ hides' = hides /\ \E c \in 1..2 : code' = [code EXCEPT ![w] = c]
          /\ guessed' = (guessed \/ ({0, ask[r].proof} \cap met[r].codes = {}))
      BY <1>8 DEF UpdateUser
    <2>2. Quiet'
      <3>1. {0, ask[r].proof} \cap met[r].codes # {}
        BY <1>1, <1>8 DEF DirectoryInv, MetOk
      <3>2. ~found /\ ~guessed
        BY Zenon DEF DirectoryInv, Quiet
      <3> QED BY <1>1, <2>1, <3>1, <3>2, Zenon DEF Quiet
    <2>3. ProfilesTyped'
      BY <1>1, <2>1 DEF DirectoryInv, ProfilesTyped
    <2>4. \A p \in Person \ {w} : code'[p] = code[p]
      BY <2>1 DEF DirectoryInv, ProfilesTyped
    <2> QED BY <1>5, <2>1, <2>2, <2>3, <2>4
  <1> QED BY <1>1, <1>6, <1>7, <1>8

LEMMA postContactsKeeps ==
  ASSUME DirectoryInv, NEW r \in Ask, postContacts(r), MetMoves
  PROVE  DirectoryInv'
  <1>1. /\ Answered(r) /\ UNCHANGED <<profileVars, gone, guardians, torn, raced>> /\ UNCHANGED <<found, guessed>>
        /\ dpc[r] = "write" /\ ask[r].op = "link"
        /\ contacts' = contacts \cup {<<ask[r].who, ask[r].whom>>}
    BY DEF postContacts, ghostVars
  <1>2. Quiet'
    BY <1>1, QuietKept
  <1>3. ask[r].who \in Person /\ ask[r].whom \in Person /\ (ask[r].who \in gone => ask[r].who \in torn)
    BY <1>1, RunsForTheLiving DEF DirectoryInv, AsksTyped, AskOk
  <1>4. ProfilesTyped' /\ LinksTyped'
    BY <1>1, <1>3 DEF DirectoryInv, ProfilesTyped, LinksTyped, profileVars
  <1>5. Apart'
    <2>1. \A p \in Person, n \in Named : guardians[p][n] \in Nat
      BY DEF DirectoryInv, LinksTyped
    <2>2. \A p \in Person, n \in Named : guardians'[p][n] <= guardians[p][n]
      BY <1>1, <2>1
    <2> QED BY <1>1, <1>4, <2>2, ApartKept DEF LinksTyped
  <1>6. \A p \in gone : p \notin torn =>
             /\ alias'[p] = NoAlias /\ hides'[p] /\ code'[p] = 0
             /\ \A c \in contacts' : c[1] # p
             /\ \A n \in Named : guardians'[p][n] = 0
    BY <1>1, <1>3 DEF DirectoryInv, Erased, profileVars
  <1> QED BY <1>1, <1>2, <1>4, <1>5, <1>6, WriteKeeps

LEMMA DeleteOwnRowKeeps ==
  ASSUME DirectoryInv, NEW r \in Ask, DeleteOwnRow(r), MetMoves
  PROVE  DirectoryInv'
  <1>1. /\ Answered(r) /\ UNCHANGED <<profileVars, gone, torn, raced>> /\ UNCHANGED <<found, guessed>>
        /\ dpc[r] = "delete"
    BY DEF DeleteOwnRow, ghostVars
  <1>2. Quiet'
    BY <1>1, QuietKept
  <1>3. ProfilesTyped' /\ LinksTyped
    BY <1>1 DEF DirectoryInv, ProfilesTyped, profileVars
  <1>4. /\ contacts' \subseteq contacts /\ guardians' \in [Person -> [Named -> Nat]]
        /\ \A p \in Person, n \in Named : guardians'[p][n] <= guardians[p][n]
    <2>1. CASE contacts' = contacts \ {<<ask[r].who, ask[r].whom>>} /\ guardians' = guardians
      <3>1. \A p \in Person, n \in Named : guardians[p][n] \in Nat
        BY <1>3 DEF LinksTyped
      <3> QED BY <2>1, <1>3, <3>1 DEF LinksTyped
    <2>2. CASE /\ guardians' = [guardians EXCEPT ![ask[r].who][ask[r].names] = IF @ = 0 THEN 0 ELSE @ - 1]
               /\ contacts' = contacts
      <3> PICK w \in Person : w = ask[r].who
        BY <1>1, RunsForTheLiving
      <3> DEFINE m == ask[r].names
      <3>1. guardians' = [guardians EXCEPT ![w] = [guardians[w] EXCEPT ![m] =
                              IF guardians[w][m] = 0 THEN 0 ELSE guardians[w][m] - 1]]
        BY <2>2, <1>3 DEF LinksTyped
      <3>2. guardians[w] \in [Named -> Nat]
        BY <1>3 DEF LinksTyped
      <3> PICK g \in [Named -> Nat] : g = guardians[w]
        BY <3>2
      <3> HIDE DEF m
      <3> DEFINE h == [g EXCEPT ![m] = IF g[m] = 0 THEN 0 ELSE g[m] - 1]
      <3>3. h \in [Named -> Nat] /\ \A n \in Named : h[n] <= g[n]
        <4>1. CASE m \in Named
          <5>1. g[m] \in Nat /\ \A n \in Named : g[n] \in Nat
            BY <4>1
          <5> PICK d \in Nat : d = IF g[m] = 0 THEN 0 ELSE g[m] - 1
            BY <5>1
          <5>2. d <= g[m] /\ h = [g EXCEPT ![m] = d]
            BY <5>1
          <5>3. h \in [Named -> Nat] /\ \A n \in Named : h[n] = (IF n = m THEN d ELSE g[n])
            <6> HIDE DEF h
            <6> QED BY <5>2, <4>1
          <5> HIDE DEF h
          <5> QED BY <5>1, <5>2, <5>3
        <4>2. CASE m \notin Named
          <5>1. h = g
            BY <4>2
          <5>2. \A n \in Named : g[n] \in Nat
            OBVIOUS
          <5> HIDE DEF h
          <5> QED BY <5>1, <5>2
        <4> QED BY <4>1, <4>2
      <3>4. guardians' = [guardians EXCEPT ![w] = h]
        BY <3>1
      <3> HIDE DEF h
      <3>5. guardians' \in [Person -> [Named -> Nat]]
        BY <3>3, <3>4, <1>3 DEF LinksTyped
      <3>6. ASSUME NEW p \in Person, NEW n \in Named
            PROVE  guardians'[p][n] <= guardians[p][n]
        <4>1. guardians[p][n] \in Nat
          BY <1>3 DEF LinksTyped
        <4>2. guardians'[p] = (IF p = w THEN h ELSE guardians[p])
          BY <3>4, <1>3 DEF LinksTyped
        <4> QED BY <4>1, <4>2, <3>3
      <3> QED BY <2>2, <3>5, <3>6
    <2> QED BY <2>1, <2>2 DEF DeleteOwnRow
  <1>5. LinksTyped'
    BY <1>3, <1>4 DEF LinksTyped
  <1>6. Apart'
    BY <1>1, <1>4, ApartKept
  <1>7. ASSUME NEW p \in gone, p \notin torn
        PROVE  /\ alias'[p] = NoAlias /\ hides'[p] /\ code'[p] = 0
               /\ \A c \in contacts' : c[1] # p
               /\ \A n \in Named : guardians'[p][n] = 0
    <2>1. /\ alias[p] = NoAlias /\ hides[p] /\ code[p] = 0
          /\ \A c \in contacts : c[1] # p
          /\ \A n \in Named : guardians[p][n] = 0
      BY <1>7 DEF DirectoryInv, Erased
    <2>2. p \in Person
      BY DEF DirectoryInv, ProfilesTyped
    <2>3. \A n \in Named : guardians'[p][n] \in Nat /\ guardians'[p][n] <= 0
      BY <1>4, <2>1, <2>2
    <2> QED BY <1>1, <1>4, <2>1, <2>3 DEF profileVars
  <1> QED BY <1>1, <1>2, <1>3, <1>5, <1>6, <1>7, WriteKeeps

LEMMA CreateGuardianKeeps ==
  ASSUME DirectoryInv, NEW r \in Ask, CreateGuardian(r), MetMoves
  PROVE  DirectoryInv'
  <1> PICK w \in Person : w = ask[r].who
    BY RunsForTheLiving DEF CreateGuardian
  <1>1. /\ Answered(r) /\ UNCHANGED <<profileVars, gone, contacts, torn>> /\ UNCHANGED <<found, guessed>>
        /\ dpc[r] = "write" /\ ask[r].op = "guard"
        /\ guardians' = [guardians EXCEPT ![ask[r].who][ask[r].names] = @ + 1]
        /\ raced' = raced \cup
             {ask[r].who : s \in {s \in Ask \ {r} : dpc[s] = "write" /\ ask[s].op = "guard"
                                                    /\ ask[s].who = ask[r].who}}
    BY DEF CreateGuardian
  <1> PICK m \in Named : m = ask[r].names
    BY <1>1 DEF DirectoryInv, AsksTyped, AskOk
  <1>2. Quiet'
    BY <1>1, QuietKept
  <1>3. w \in gone => w \in torn
    BY <1>1, RunsForTheLiving
  <1>4. ProfilesTyped' /\ LinksTyped
    BY <1>1 DEF DirectoryInv, ProfilesTyped, profileVars
  <1>5. /\ \A p \in Person, n \in Named : guardians[p][n] \in Nat
        /\ \A p \in Person, n \in Named :
              guardians'[p][n] = (IF p = w /\ n = m THEN guardians[p][n] + 1 ELSE guardians[p][n])
        /\ guardians' \in [Person -> [Named -> Nat]]
    <2> PICK g \in [Named -> Nat] : g = guardians[w]
      BY <1>4 DEF LinksTyped
    <2>1. g[m] \in Nat
      OBVIOUS
    <2> PICK d \in Nat : d = g[m] + 1
      BY <2>1
    <2> PICK h \in [Named -> Nat] : h = [g EXCEPT ![m] = d]
      OBVIOUS
    <2>2. guardians' = [guardians EXCEPT ![w] = h]
      BY <1>1, <1>4 DEF LinksTyped
    <2>3. guardians' \in [Person -> [Named -> Nat]]
      BY <2>2, <1>4 DEF LinksTyped
    <2>4. \A n \in Named : h[n] = (IF n = m THEN g[n] + 1 ELSE g[n])
      OBVIOUS
    <2>5. \A p \in Person : guardians'[p] = (IF p = w THEN h ELSE guardians[p])
      BY <2>2, <1>4 DEF LinksTyped
    <2>6. \A p \in Person, n \in Named : guardians[p][n] \in Nat
      BY <1>4 DEF LinksTyped
    <2> QED BY <2>3, <2>4, <2>5, <2>6
  <1>6. LinksTyped'
    BY <1>1, <1>4, <1>5 DEF LinksTyped
  <1>7. \A p \in gone : p \notin torn =>
             /\ alias'[p] = NoAlias /\ hides'[p] /\ code'[p] = 0
             /\ \A c \in contacts' : c[1] # p
             /\ \A n \in Named : guardians'[p][n] = 0
    BY <1>1, <1>3, <1>5 DEF DirectoryInv, Erased, ProfilesTyped, profileVars
  <1>8. Apart'
    <2>1. /\ \A s \in Ask : dpc'[s] = (IF s = r THEN "idle" ELSE dpc[s])
          /\ \A s \in Ask : s # r => ask'[s] = ask[s]
      BY <1>1 DEF Answered, DirectoryInv, AsksTyped
    <2>2. ASSUME NEW p \in Person, p \notin raced', NEW n \in Named, NEW o \in Named
          PROVE  /\ guardians'[p][n] <= 1
                 /\ n # o /\ guardians'[p][n] > 0 /\ guardians'[p][o] > 0 => n \cap o = {}
      <3>1. /\ guardians[p][n] <= 1
            /\ n # o /\ guardians[p][n] > 0 /\ guardians[p][o] > 0 => n \cap o = {}
        BY <1>1, <2>2 DEF DirectoryInv, Apart
      <3>2. CASE p # w
        BY <1>5, <3>1, <3>2
      <3>3. CASE p = w
        <4>1. ~Existing(w, m)
          BY <1>1, <2>2, <3>3 DEF DirectoryInv, Apart
        <4>2. \A q \in Named : q \cap m # {} => guardians[w][q] = 0
          BY <4>1, <1>5 DEF Existing
        <4>3. guardians[w][m] = 0
          BY <4>2, DirectoryFacts
        <4>4. guardians'[p][n] <= 1
          BY <1>5, <3>1, <3>3, <4>3
        <4>5. ASSUME n # o, guardians'[p][n] > 0, guardians'[p][o] > 0
              PROVE  n \cap o = {}
          <5>1. CASE n = m
            <6>1. guardians[w][o] > 0
              BY <1>5, <3>3, <4>5, <5>1
            <6>2. o \cap m = {}
              BY <4>2, <6>1
            <6> QED BY <5>1, <6>2
          <5>2. CASE o = m
            <6>1. guardians[w][n] > 0
              BY <1>5, <3>3, <4>5, <5>2
            <6>2. n \cap m = {}
              BY <4>2, <6>1
            <6> QED BY <5>2, <6>2
          <5>3. CASE n # m /\ o # m
            BY <1>5, <3>1, <4>5, <5>3
          <5> QED BY <5>1, <5>2, <5>3
        <4> QED BY <4>4, <4>5
      <3> QED BY <3>2, <3>3
    <2>3. ASSUME NEW s \in Ask, dpc'[s] = "write", ask'[s].op = "guard", ask'[s].who \notin raced'
          PROVE  ~Existing(ask[s].who, ask[s].names)'
      <3>1. s # r /\ dpc[s] = "write" /\ ask[s].op = "guard" /\ ask'[s] = ask[s]
        BY <2>1, <2>3
      <3>2. ask[s].who # w /\ ask[s].who \notin raced
        BY <1>1, <2>3, <3>1
      <3>3. ~Existing(ask[s].who, ask[s].names)
        BY <3>1, <3>2 DEF DirectoryInv, Apart
      <3>4. ask[s].who \in Person
        BY <3>1, RunsForTheLiving
      <3>5. \A n \in Named : guardians'[ask[s].who][n] = guardians[ask[s].who][n]
        BY <1>5, <3>2, <3>4
      <3> QED BY <3>1, <3>3, <3>5 DEF Existing
    <2> QED BY <2>2, <2>3 DEF Apart
  <1> QED BY <1>1, <1>2, <1>4, <1>6, <1>7, <1>8, WriteKeeps

LEMMA TombstoneUserKeeps ==
  ASSUME DirectoryInv, NEW r \in Ask, TombstoneUser(r), MetMoves
  PROVE  DirectoryInv'
  <1> PICK w \in Person : w = ask[r].who
    BY RunsForTheLiving DEF TombstoneUser
  <1>1. /\ alias' = [alias EXCEPT ![w] = NoAlias] /\ hides' = [hides EXCEPT ![w] = TRUE]
        /\ code' = [code EXCEPT ![w] = 0] /\ gone' = gone \cup {w}
        /\ contacts' = Unlinked(w)
        /\ guardians' = [p \in Person |->
                            [n \in Named |-> IF p = w \/ w \in n THEN 0 ELSE guardians[p][n]]]
        /\ torn' = IF \E s \in Ask \ {r} : ask[s].who = w THEN torn \cup {w} ELSE torn
        /\ Answered(r) /\ UNCHANGED <<found, guessed>> /\ raced' = raced
    BY DEF TombstoneUser
  <1>2. Quiet'
    BY <1>1, QuietKept
  <1>3. ProfilesTyped /\ LinksTyped
    BY DEF DirectoryInv
  <1>4. ProfilesTyped'
    BY <1>1, <1>3 DEF ProfilesTyped
  <1>5. /\ guardians' \in [Person -> [Named -> Nat]]
        /\ \A p \in Person, n \in Named : guardians'[p][n] <= guardians[p][n]
    <2>1. \A p \in Person, n \in Named : guardians[p][n] \in Nat
      BY <1>3 DEF LinksTyped
    <2> QED BY <1>1, <2>1
  <1>6. LinksTyped'
    BY <1>1, <1>3, <1>5 DEF LinksTyped, Unlinked
  <1>7. AskMoves(r, "idle", NoAsk)
    BY <1>1, AnsweredMoves
  <1>8. AsksTyped' /\ MetOk'
    BY <1>4, <1>7, AsksMove
  <1>9. Apart'
    BY <1>1, <1>5, ApartKept
  <1>10. /\ \A s \in Ask : dpc'[s] = (IF s = r THEN "idle" ELSE dpc[s])
         /\ \A s \in Ask : s # r => ask'[s] = ask[s]
    BY <1>1 DEF Answered, DirectoryInv, AsksTyped
  <1>11. Erased'
    <2>1. ASSUME w \notin torn'
          PROVE  /\ alias'[w] = NoAlias /\ hides'[w] /\ code'[w] = 0
                 /\ \A c \in contacts' : c[1] # w
                 /\ \A n \in Named : guardians'[w][n] = 0
                 /\ \A s \in Ask : dpc'[s] # "idle" => ask'[s].who # w
      <3>1. alias'[w] = NoAlias /\ hides'[w] /\ code'[w] = 0
        BY <1>1, <1>3 DEF ProfilesTyped
      <3>2. \A c \in contacts' : c[1] # w
        BY <1>1 DEF Unlinked
      <3>3. \A n \in Named : guardians'[w][n] = 0
        BY <1>1
      <3>4. \A s \in Ask \ {r} : ask[s].who # w
        BY <1>1, <2>1
      <3> QED BY <1>10, <3>1, <3>2, <3>3, <3>4
    <2>2. ASSUME NEW p \in gone, p # w, p \notin torn'
          PROVE  /\ alias'[p] = NoAlias /\ hides'[p] /\ code'[p] = 0
                 /\ \A c \in contacts' : c[1] # p
                 /\ \A n \in Named : guardians'[p][n] = 0
                 /\ \A s \in Ask : dpc'[s] # "idle" => ask'[s].who # p
      <3>1. p \notin torn /\ p \in Person
        BY <1>1, <1>3, <2>2 DEF ProfilesTyped
      <3>2. /\ alias[p] = NoAlias /\ hides[p] /\ code[p] = 0
            /\ \A c \in contacts : c[1] # p
            /\ \A n \in Named : guardians[p][n] = 0
        BY <3>1 DEF DirectoryInv, Erased
      <3>3. alias'[p] = NoAlias /\ hides'[p] /\ code'[p] = 0
        BY <1>1, <1>3, <2>2, <3>1, <3>2 DEF ProfilesTyped
      <3>4. \A c \in contacts' : c[1] # p
        BY <1>1, <3>2 DEF Unlinked
      <3>5. \A n \in Named : guardians'[p][n] = 0
        BY <1>1, <3>1, <3>2
      <3>6. \A s \in Ask : dpc'[s] # "idle" => ask'[s].who # p
        BY <1>7, <3>1, RequestsStayErased
      <3> QED BY <3>3, <3>4, <3>5, <3>6
    <2> QED BY <1>1, <2>1, <2>2 DEF Erased
  <1> QED BY <1>2, <1>4, <1>6, <1>8, <1>9, <1>11 DEF DirectoryInv

LEMMA DirectoryNextInv == DirectoryInv /\ [DirectoryNext]_directoryVars => DirectoryInv'
  <1> SUFFICES ASSUME DirectoryInv, [DirectoryNext]_directoryVars PROVE DirectoryInv'
    OBVIOUS
  <1>1. CASE DirectoryNext
    <2>1. MetMoves
      BY <1>1 DEF DirectoryNext, MetMoves
    <2>2. PICK r \in Ask :
          \/ LetIn(r) \/ patchMe(r) \/ UpdateUser(r) \/ postContacts(r) \/ FindOwnRow(r) \/ DeleteOwnRow(r)
          \/ postGuardians(r) \/ CreateGuardian(r) \/ TombstoneUser(r)
          \/ resolveRecipient(r) \/ CheckContact(r) \/ resolveRecipientAddress(r)
      BY <1>1 DEF DirectoryNext
    <2> QED BY <2>1, <2>2, LetInKeeps, patchMeKeeps, UpdateUserKeeps, postContactsKeeps, FindOwnRowKeeps,
               DeleteOwnRowKeeps, postGuardiansKeeps, CreateGuardianKeeps, TombstoneUserKeeps,
               resolveRecipientKeeps, CheckContactKeeps, resolveRecipientAddressKeeps
  <1>2. CASE UNCHANGED directoryVars
    BY <1>2 DEF directoryVars, DirectoryInv, ProfilesTyped, LinksTyped, AsksTyped, MetOk, Quiet, Erased, Apart,
                Shows, Shown, Current, Existing
  <1> QED BY <1>1, <1>2

(* Nobody is told of, or pays by alias, a user who hid from them during all of *)
(* the request; nobody replaces a passcode without one that was current; what  *)
(* a deleted account owned stays away; guardians share no handle unless added  *)
(* at once: for any users, aliases and requests in flight, over every await of *)
(* userController.ts and userService.ts.                                       *)
THEOREM DirectoryIsSound == DirectorySpec => []DirectorySound
  <1>1. DirectoryInv => DirectorySound
    <2> SUFFICES ASSUME DirectoryInv PROVE DirectorySound
      OBVIOUS
    <2>1. FoundIsShown
      BY Zenon DEF DirectoryInv, Quiet, FoundIsShown
    <2>2. DirectoryTypeOK
      BY DEF DirectoryInv, ProfilesTyped, LinksTyped, AsksTyped, AskOk, DirectoryTypeOK
    <2>3. ErasedStays
      BY <2>2 DEF DirectoryInv, Erased, Apart, ErasedStays
    <2> QED BY <2>1, <2>3 DEF DirectorySound
  <1> QED BY <1>1, DirectoryInitInv, DirectoryNextInv, PTL DEF DirectorySpec

-----------------------------------------------------------------------------
(***************************************************************************)
(* Lists: what was returned and what is ahead, page by page.               *)
(***************************************************************************)
RowTypes == {"transfer", "mint", "accrual", "withdrawal", "batch", "schedule"}
EntryRecord == [at : {"none", "open", "there"}, owner : Account, stamp : 0..MaxInstant,
                type : RowTypes, status : {"requested", "available"}]

PagingTyped ==
    /\ instant \in 0..MaxInstant /\ offset \in Nat /\ over \in BOOLEAN
    /\ entry \in [Row -> EntryRecord]
    /\ given \in Seq(Row) /\ start \subseteq Row

(* What the client asks for, and where it is. *)
WalkTyped ==
    /\ walk.list \in List /\ walk.limit \in Nat \ {0}
    /\ walk.list \in ByOffset => walk.wanted = "any" /\ walk.take \in Nat /\ walk.take >= walk.limit
    /\ cursor \in [scope : {Me}, id : Row \cup {NoRow}]
    /\ walk.list \notin ByOffset => offset = 0

Listed(r) == entry[r].at = "there" /\ entry[r].owner = Me /\ entry[r].type \in Types(walk.list)

(* What was returned stays; by cursor it is in order and ends at the cursor. *)
GivenSound ==
    /\ \A i \in DOMAIN given : Listed(given[i])
    /\ walk.list \notin ByOffset =>
          /\ \A i, j \in DOMAIN given : i < j =>
                /\ entry[given[i]].stamp >= entry[given[j]].stamp
                /\ given[i] = given[j] => ~Alone(given[i])
          /\ ~over /\ cursor.id = NoRow => given = <<>>
          /\ ~over /\ cursor.id # NoRow => Len(given) > 0 /\ cursor.id = given[Len(given)]

(* The rows that come before r in any order, if r has its instant to itself. *)
Newer(r) == {q \in Mine : entry[q].stamp > entry[r].stamp}

(* A row of the start that was not returned is still ahead. *)
Ahead(r) ==
    /\ ~over
    /\ walk.list \in ByOffset => Cardinality(Newer(r)) >= offset
    /\ walk.list \notin ByOffset => cursor.id # NoRow /\ entry[r].stamp < entry[cursor.id].stamp

StartSound ==
    /\ \A r \in start : Listed(r)
    /\ walk.wanted = "any" => \A r \in start : Alone(r) => Ahead(r) \/ \E i \in DOMAIN given : given[i] = r

PagingInv == PagingTyped /\ WalkTyped /\ GivenSound /\ StartSound

LEMMA PagingFacts ==
  /\ Me \in Account /\ Row \subseteq Nat /\ IsFiniteSet(Row) /\ NoRow \notin Row
  /\ MaxPageLimit \in Nat \ {0} /\ DefaultLimit \in 1..MaxPageLimit
  /\ SchedulesLimit \in Nat /\ SchedulesLimit >= DefaultLimit /\ MaxInstant \in Nat /\ MaxGiven \in Nat
  BY PagingAssumption

LEMMA TypesOfRows == \A l \in List : InTable(l) \subseteq RowTypes
  BY DEF List, InTable, RowTypes

LEMMA PagingInitInv == PagingInit => PagingInv
  <1> SUFFICES ASSUME PagingInit PROVE PagingInv
    OBVIOUS
  <1> USE PagingFacts
  <1>1. given = <<>> /\ given \in Seq(Row) /\ DOMAIN given = {} /\ start = {}
    BY EmptySeq DEF PagingInit
  <1>2. PagingTyped
    <2>1. [at |-> "none", owner |-> Me, type |-> "mint", status |-> "requested", stamp |-> 0] \in EntryRecord
      BY DEF EntryRecord, RowTypes
    <2>2. entry \in [Row -> EntryRecord]
      BY <2>1 DEF PagingInit
    <2>3. instant = 0 /\ offset = 0 /\ over = FALSE
      BY DEF PagingInit
    <2>4. instant \in 0..MaxInstant /\ offset \in Nat
      BY <2>3
    <2> QED BY <1>1, <2>2, <2>3, <2>4 DEF PagingTyped
  <1>a. PICK l \in List : \E w \in {"any", "requested"}, n \in Limits(l) :
            walk = [list |-> l, wanted |-> w, limit |-> n[1], take |-> n[2]] /\ (l # "withdrawals" => w = "any")
    BY DEF PagingInit
  <1>3. PICK w \in {"any", "requested"}, n \in Limits(l) :
            walk = [list |-> l, wanted |-> w, limit |-> n[1], take |-> n[2]] /\ (l # "withdrawals" => w = "any")
    BY <1>a
  <1>4. \A k \in 0..MaxPageLimit + 1 :
            /\ parseOffsetPagination(k) \in Nat \ {0}
            /\ SchedulesTake(k) \in Nat /\ SchedulesTake(k) >= parseOffsetPagination(k)
    BY DEF parseOffsetPagination, SchedulesTake
  <1>5. n[1] \in Nat \ {0} /\ (l \in ByOffset => n[2] \in Nat /\ n[2] >= n[1])
    <2>1. CASE l = "batches"
      <3>1. PICK k \in 0..MaxPageLimit + 1 : n = <<parseOffsetPagination(k), parseOffsetPagination(k)>>
        BY <1>3, <2>1 DEF Limits
      <3> QED BY <3>1, <1>4
    <2>2. CASE l = "schedules"
      <3>1. PICK k \in 0..MaxPageLimit + 1 : n = <<parseOffsetPagination(k), SchedulesTake(k)>>
        BY <1>3, <2>2 DEF Limits
      <3> QED BY <3>1, <1>4
    <2>3. CASE l \notin ByOffset
      <3>1. PICK k \in 1..MaxPageLimit : n = <<k, k>>
        BY <1>3, <2>3 DEF Limits, ByOffset
      <3> QED BY <3>1, <2>3
    <2> QED BY <2>1, <2>2, <2>3 DEF ByOffset
  <1>6. WalkTyped
    BY <1>3, <1>5 DEF PagingInit, WalkTyped, ByOffset
  <1>7. GivenSound /\ StartSound
    BY <1>1 DEF PagingInit, GivenSound, StartSound
  <1> QED BY <1>2, <1>6, <1>7 DEF PagingInv

-----------------------------------------------------------------------------
(* Rows come and change.  What is shown stays so, and only loses its instant. *)
RowsGo ==
    /\ entry' \in [Row -> EntryRecord] /\ instant' \in 0..MaxInstant
    /\ UNCHANGED <<walk, cursor, offset, over, given, start>>
    /\ \A r \in Row : /\ entry[r].at # "none" => entry'[r].at # "none" /\ entry'[r].stamp = entry[r].stamp
                      /\ Listed(r) => Listed(r)'

LEMMA RowsGoKeep ==
  ASSUME PagingInv, RowsGo
  PROVE  PagingInv'
  <1> USE PagingFacts
  <1>1. UNCHANGED <<walk, cursor, offset, over, given, start>>
    BY DEF RowsGo
  <1>2. PagingTyped' /\ WalkTyped'
    BY <1>1 DEF RowsGo, PagingInv, PagingTyped, WalkTyped
  <1>3. given \in Seq(Row) /\ \A i \in DOMAIN given : given[i] \in Row /\ Listed(given[i])
    BY ElementOfSeq, LenProperties DEF PagingInv, PagingTyped, GivenSound
  <1>4. start \subseteq Row /\ \A r \in start : Listed(r)
    BY DEF PagingInv, PagingTyped, StartSound
  <1>5. ASSUME NEW r \in Row, Listed(r)
        PROVE  /\ Listed(r)' /\ entry'[r].stamp = entry[r].stamp /\ (Alone(r)' => Alone(r))
    <2>1. Listed(r)' /\ entry'[r].stamp = entry[r].stamp
      BY <1>5 DEF RowsGo, Listed
    <2>2. ASSUME Alone(r)' PROVE Alone(r)
      BY <2>1, <2>2 DEF RowsGo, Alone
    <2> QED BY <2>1, <2>2
  <1>6. GivenSound'
    <2>1. \A i \in DOMAIN given : Listed(given[i])' /\ entry'[given[i]].stamp = entry[given[i]].stamp
                                  /\ (Alone(given[i])' => Alone(given[i]))
      BY <1>1, <1>3, <1>5
    <2> QED BY <1>1, <2>1 DEF GivenSound, PagingInv
  <1>7. ASSUME NEW r \in start PROVE Ahead(r) => Ahead(r)'
    <2>1. r \in Row /\ Listed(r) /\ entry'[r].stamp = entry[r].stamp
      BY <1>4, <1>5
    <2>2. Newer(r) \subseteq Newer(r)'
      <3>1. \A q \in Mine : q \in Row /\ Listed(q)
        BY DEF Mine, Listed
      <3>2. \A q \in Mine : q \in Mine' /\ entry'[q].stamp = entry[q].stamp
        BY <3>1, <1>5 DEF Mine, Listed
      <3> QED BY <2>1, <3>2 DEF Newer
    <2>3. Newer(r)' \subseteq Row
      BY DEF Newer, Mine
    <2>4. Cardinality(Newer(r)) <= Cardinality(Newer(r)') /\ Cardinality(Newer(r)') \in Nat
          /\ Cardinality(Newer(r)) \in Nat
      BY <2>2, <2>3, FS_Subset, FS_CardinalityType
    <2>5. ~over /\ walk.list \notin ByOffset /\ cursor.id # NoRow => cursor.id \in Row /\ Listed(cursor.id)
      BY <1>3, LenProperties DEF PagingInv, GivenSound
    <2>6. ~over /\ walk.list \notin ByOffset /\ cursor.id # NoRow => entry'[cursor.id].stamp = entry[cursor.id].stamp
      BY <2>5, <1>5
    <2>7. offset \in Nat
      BY DEF PagingInv, PagingTyped
    <2> QED BY <1>1, <2>1, <2>4, <2>6, <2>7 DEF Ahead
  <1>8. StartSound'
    BY <1>1, <1>4, <1>5, <1>7 DEF StartSound, PagingInv
  <1> QED BY <1>2, <1>6, <1>8 DEF PagingInv

LEMMA RowStepsGo ==
  ASSUME PagingInv,
         \/ InstantPasses
         \/ \E r \in Row : Insert(r) \/ CommitRow(r) \/ StatusMoves(r)
         \/ \E t \in Held : InvalidCursor(t)
         \/ UNCHANGED pagingVars
  PROVE  RowsGo
  <1> USE PagingFacts
  <1>0. /\ entry \in [Row -> EntryRecord] /\ instant \in 0..MaxInstant /\ walk.list \in List
    BY DEF PagingInv, PagingTyped, WalkTyped
  <1>1. CASE InstantPasses \/ (\E t \in Held : InvalidCursor(t)) \/ UNCHANGED pagingVars
    <2>1. UNCHANGED <<entry, walk, cursor, offset, over, given, start>> /\ instant' \in 0..MaxInstant
      BY <1>0, <1>1 DEF InstantPasses, InvalidCursor, pagingVars
    <2> QED BY <1>0, <2>1 DEF RowsGo, Listed
  <1>2. ASSUME NEW r \in Row, Insert(r) PROVE RowsGo
    <2>1. PICK a \in Account, t \in InTable(walk.list) :
             entry' = [entry EXCEPT ![r] = [@ EXCEPT !.at = "open", !.owner = a, !.type = t, !.stamp = instant]]
      BY <1>2 DEF Insert
    <2>2. entry[r].at = "none" /\ UNCHANGED <<instant, walk, cursor, offset, over, given, start>>
      BY <1>2 DEF Insert
    <2>3. t \in RowTypes
      BY <1>0, TypesOfRows
    <2>4. [entry[r] EXCEPT !.at = "open", !.owner = a, !.type = t, !.stamp = instant] \in EntryRecord
      BY <1>0, <2>3 DEF EntryRecord
    <2>5. entry' \in [Row -> EntryRecord] /\ \A q \in Row : q # r => entry'[q] = entry[q]
      BY <1>0, <2>1, <2>4
    <2> QED BY <1>0, <2>2, <2>5 DEF RowsGo, Listed
  <1>3. ASSUME NEW r \in Row, CommitRow(r) PROVE RowsGo
    <2>1. entry' = [entry EXCEPT ![r].at = "there"] /\ entry[r].at = "open"
          /\ UNCHANGED <<instant, walk, cursor, offset, over, given, start>>
      BY <1>3 DEF CommitRow
    <2>2. [entry[r] EXCEPT !.at = "there"] \in EntryRecord
      BY <1>0 DEF EntryRecord
    <2>3. entry' \in [Row -> EntryRecord] /\ (\A q \in Row : q # r => entry'[q] = entry[q])
          /\ entry'[r].at = "there" /\ entry'[r].stamp = entry[r].stamp
      BY <1>0, <2>1, <2>2 DEF EntryRecord
    <2> QED BY <1>0, <2>1, <2>3 DEF RowsGo, Listed
  <1>4. ASSUME NEW r \in Row, StatusMoves(r) PROVE RowsGo
    <2>1. entry' = [entry EXCEPT ![r].status = "available"]
          /\ UNCHANGED <<instant, walk, cursor, offset, over, given, start>>
      BY <1>4 DEF StatusMoves
    <2>2. [entry[r] EXCEPT !.status = "available"] \in EntryRecord
      BY <1>0 DEF EntryRecord
    <2>3. entry' \in [Row -> EntryRecord] /\ (\A q \in Row : q # r => entry'[q] = entry[q])
          /\ entry'[r].at = entry[r].at /\ entry'[r].stamp = entry[r].stamp
          /\ entry'[r].owner = entry[r].owner /\ entry'[r].type = entry[r].type
      BY <1>0, <2>1, <2>2 DEF EntryRecord
    <2> QED BY <1>0, <2>1, <2>3 DEF RowsGo, Listed
  <1> QED BY <1>1, <1>2, <1>3, <1>4
-----------------------------------------------------------------------------
(* What a query may return, and the page of it from place m to place n.        *)
Sorted(s) ==
    /\ s \in Seq(Row) /\ Len(s) \in Nat /\ DOMAIN s = 1..Len(s)
    /\ \A i \in 1..Len(s) : s[i] \in Matching /\ s[i] \in Row /\ Listed(s[i])
    /\ \A i, j \in 1..Len(s) : i < j => s[i] # s[j] /\ entry[s[i]].stamp >= entry[s[j]].stamp
    /\ \A r \in Matching : \E i \in 1..Len(s) : s[i] = r

LEMMA Stamps ==
  ASSUME PagingTyped
  PROVE  \A r \in Row : entry[r].stamp \in Nat
  BY PagingFacts DEF PagingTyped, EntryRecord

LEMMA MatchingRows ==
  /\ Matching \subseteq Mine /\ Mine \subseteq Row /\ IsFiniteSet(Matching) /\ Cardinality(Matching) \in Nat
  /\ \A r \in Mine : Listed(r)
  /\ \A r \in Row : Listed(r) => r \in Mine
  /\ walk.wanted = "any" => Matching = Mine
  <1>1. Matching \subseteq Mine /\ Mine \subseteq Row
    BY DEF Matching, Mine
  <1>2. IsFiniteSet(Matching) /\ Cardinality(Matching) \in Nat
    <2>1. Matching \in SUBSET Row
      BY <1>1
    <2> QED BY <2>1, PagingFacts, FS_Subset, FS_CardinalityType, Zenon
  <1> QED BY <1>1, <1>2 DEF Mine, Matching, Listed

LEMMA OrdersSorted ==
  ASSUME NEW s \in Orders(Matching)
  PROVE  Sorted(s)
  <1> PICK n \in Nat : n = Cardinality(Matching)
    BY MatchingRows
  <1>1. /\ s \in [1..n -> Matching]
        /\ \A i, j \in 1..n : i < j => s[i] # s[j] /\ entry[s[i]].stamp >= entry[s[j]].stamp
    BY DEF Orders
  <1>2. s \in Seq(Matching)
    BY <1>1, SeqDef
  <1>3. Len(s) = n /\ DOMAIN s = 1..n
    BY <1>1, <1>2, LenProperties
  <1>4. s \in Injection(1..n, Matching)
    <2>1. \A i, j \in 1..n : s[i] = s[j] => i = j
      BY <1>1
    <2> QED BY <1>1, <2>1, Fun_IsInj
  <1>5. Cardinality(1..n) = n
    <2>1. 1 \in Int /\ n \in Int
      OBVIOUS
    <2>2. Cardinality(1..n) = IF 1 > n THEN 0 ELSE n - 1 + 1
      BY <2>1, FS_Interval
    <2> QED BY <2>2
  <1>6. s \in Surjection(1..n, Matching)
    BY <1>4, <1>5, MatchingRows, FS_Injection
  <1>7. \A r \in Matching : \E i \in 1..n : s[i] = r
    BY <1>6 DEF Surjection
  <1>8. s \in Seq(Row)
    BY <1>2, MatchingRows, SeqMonotonic
  <1>9. \A i \in 1..n : s[i] \in Matching /\ s[i] \in Row /\ Listed(s[i])
    BY <1>1, MatchingRows
  <1> QED BY <1>1, <1>3, <1>7, <1>8, <1>9 DEF Sorted

(* The rows m to n of s. *)
IsPage(page, s, m, n) ==
    /\ page \in Seq(Row) /\ Len(page) = n - m + 1
    /\ \A k \in 1..Len(page) : page[k] = s[m + k - 1]

LEMMA Pages ==
  ASSUME NEW s \in Seq(Row), NEW m \in 1..Len(s) + 1, NEW n \in m - 1..Len(s)
  PROVE  IsPage(SubSeq(s, m, n), s, m, n)
  <1>1. Len(s) \in Nat
    BY LenProperties
  <1>2. \A i \in m..n : s[i] \in Row
    BY <1>1, ElementOfSeq
  <1>3. m \in Int /\ n \in Int /\ n >= m - 1
    BY <1>1
  <1>4. /\ SubSeq(s, m, n) \in Seq(Row) /\ Len(SubSeq(s, m, n)) = (IF m <= n THEN n - m + 1 ELSE 0)
        /\ \A i \in 1..n - m + 1 : SubSeq(s, m, n)[i] = s[m + i - 1]
    BY <1>2, <1>3, SubSeqProperties
  <1>5. Len(SubSeq(s, m, n)) = n - m + 1
    BY <1>3, <1>4
  <1> QED BY <1>4, <1>5 DEF IsPage

(* What follows the cursor is the end of the order, and not newer than it. *)
Follows(s, m, c) ==
    /\ c = NoRow => m = 1
    /\ c # NoRow => \A i \in m..Len(s) : s[i] # c /\ entry[s[i]].stamp <= entry[c].stamp
    /\ c # NoRow => \A i \in 1..Len(s) : s[i] = c => m = i + 1

LEMMA AfterTheCursor ==
  ASSUME PagingTyped, NEW s \in Seq(Row), Sorted(s), NEW c \in Row \cup {NoRow}, NEW rest \in AfterCursor(s, c)
  PROVE  \E m \in 1..Len(s) + 1 : IsPage(rest, s, m, Len(s)) /\ Follows(s, m, c)
  <1> USE PagingFacts
  <1>1. Len(s) \in Nat /\ DOMAIN s = 1..Len(s)
    BY LenProperties
  <1>2. CASE c = NoRow
    <2>1. rest = s
      BY <1>2 DEF AfterCursor
    <2>2. IsPage(s, s, 1, Len(s))
      BY <1>1 DEF IsPage
    <2>3. Follows(s, 1, c) /\ 1 \in 1..Len(s) + 1
      BY <1>1, <1>2 DEF Follows
    <2> QED BY <2>1, <2>2, <2>3
  <1>3. CASE c # NoRow /\ \E i \in DOMAIN s : s[i] = c
    <2>1. PICK j \in DOMAIN s : s[j] = c /\ rest = SubSeq(s, j + 1, Len(s))
      BY <1>3 DEF AfterCursor
    <2>2. ASSUME NEW i \in 1..Len(s), s[i] = c PROVE i = j
      <3>1. j \in 1..Len(s) /\ s[j] = s[i]
        BY <1>1, <2>1, <2>2
      <3>2. ~(i < j) /\ ~(j < i)
        BY <3>1 DEF Sorted
      <3> QED BY <1>1, <3>1, <3>2
    <2>3. \A i \in j + 1..Len(s) : s[i] # c /\ entry[s[i]].stamp <= entry[c].stamp
      <3> SUFFICES ASSUME NEW i \in j + 1..Len(s) PROVE s[i] # c /\ entry[s[i]].stamp <= entry[c].stamp
        OBVIOUS
      <3>1. i \in 1..Len(s) /\ j \in 1..Len(s) /\ j < i
        BY <1>1, <2>1
      <3>a. s[i] \in Row /\ s[j] \in Row
        BY <3>1 DEF Sorted
      <3>2. s[j] # s[i] /\ entry[s[j]].stamp >= entry[s[i]].stamp
        BY <3>1 DEF Sorted
      <3>3. entry[s[i]].stamp \in Nat /\ entry[c].stamp \in Nat
        BY <2>1, <3>a, Stamps
      <3> QED BY <2>1, <3>2, <3>3
    <2>4. j + 1 \in 1..Len(s) + 1 /\ Len(s) \in j..Len(s)
      BY <1>1
    <2>5. IsPage(rest, s, j + 1, Len(s))
      BY <2>1, <2>4, Pages
    <2>6. Follows(s, j + 1, c)
      BY <1>3, <2>2, <2>3 DEF Follows
    <2> QED BY <2>4, <2>5, <2>6
  <1>4. CASE c # NoRow /\ ~(\E i \in DOMAIN s : s[i] = c)
    <2>1. PICK m \in 1..Len(s) + 1 :
             /\ rest = SubSeq(s, m, Len(s))
             /\ \A i \in m..Len(s) : entry[s[i]].stamp <= entry[c].stamp
      <3>1. CASE rest = <<>>
        <4>1. SubSeq(s, Len(s) + 1, Len(s)) = <<>>
          BY <1>1, SubSeqEmpty
        <4>2. Len(s) + 1 \in 1..Len(s) + 1 /\ \A i \in Len(s) + 1..Len(s) : FALSE
          BY <1>1
        <4>3. rest = SubSeq(s, Len(s) + 1, Len(s))
          BY <3>1, <4>1
        <4>4. \A i \in Len(s) + 1..Len(s) : entry[s[i]].stamp <= entry[c].stamp
          BY <4>2
        <4> QED BY <4>2, <4>3, <4>4, Zenon
      <3>2. CASE rest # <<>>
        <4>1. PICK m \in 1..Len(s) + 1 :
                 /\ rest = SubSeq(s, m, Len(s))
                 /\ \A k \in DOMAIN s : entry[s[k]].stamp <= entry[c].stamp <=> k >= m
          BY <1>4, <3>2 DEF AfterCursor
        <4>2. \A i \in m..Len(s) : i \in DOMAIN s /\ i >= m
          BY <1>1
        <4> QED BY <4>1, <4>2
      <3> QED BY <3>1, <3>2
    <2>2. Len(s) \in m - 1..Len(s)
      BY <1>1
    <2>3. IsPage(rest, s, m, Len(s))
      BY <2>1, <2>2, Pages
    <2>4. \A i \in 1..Len(s) : s[i] # c
      BY <1>1, <1>4
    <2>5. \A i \in m..Len(s) : i \in 1..Len(s)
      BY <1>1, <2>1
    <2>6. Follows(s, m, c)
      BY <1>4, <2>1, <2>4, <2>5 DEF Follows
    <2> QED BY <2>1, <2>3, <2>6
  <1> QED BY <1>2, <1>3, <1>4
(* What a page adds to what was given. *)
Adds(page, s, m, n) ==
    /\ IsPage(page, s, m, n) /\ given' = given \o page
    /\ start' = IF given = <<>> /\ offset = 0 /\ cursor.id = NoRow THEN Mine ELSE start
    /\ UNCHANGED <<instant, entry, walk>>

LEMMA Added ==
  ASSUME given \in Seq(Row), NEW s \in Seq(Row), NEW m \in 1..Len(s) + 1, NEW n \in m - 1..Len(s),
         NEW page, Adds(page, s, m, n)
  PROVE  /\ given' \in Seq(Row) /\ Len(given') = Len(given) + (n - m + 1)
         /\ DOMAIN given = 1..Len(given) /\ DOMAIN given' = 1..Len(given') /\ Len(given) \in Nat
         /\ \A i \in 1..Len(given) : given'[i] = given[i]
         /\ \A i \in 1..Len(given') : i > Len(given) =>
               i - Len(given) + m - 1 \in m..n /\ given'[i] = s[i - Len(given) + m - 1]
         /\ \A k \in m..n : Len(given) + k - m + 1 \in 1..Len(given') /\ given'[Len(given) + k - m + 1] = s[k]
  <1>1. page \in Seq(Row) /\ Len(page) = n - m + 1 /\ given' = given \o page
        /\ \A k \in 1..Len(page) : page[k] = s[m + k - 1]
    BY DEF Adds, IsPage
  <1>2. Len(s) \in Nat /\ Len(given) \in Nat /\ DOMAIN given = 1..Len(given)
    BY LenProperties
  <1>3. /\ given' \in Seq(Row) /\ Len(given') = Len(given) + Len(page)
        /\ \A i \in 1..Len(given) + Len(page) : given'[i] = IF i <= Len(given) THEN given[i] ELSE page[i - Len(given)]
    BY <1>1, ConcatProperties
  <1>4. DOMAIN given' = 1..Len(given')
    BY <1>3, LenProperties
  <1> PICK g \in Nat : g = Len(given)
    BY <1>2
  <1> PICK l \in Nat : l = Len(s)
    BY <1>2
  <1>5. m \in Nat /\ n \in Nat /\ n - m + 1 \in Nat
    BY <1>2
  <1>6. \A i \in 1..g : given'[i] = given[i]
    BY <1>1, <1>3, <1>5
  <1>7. ASSUME NEW i \in 1..g + (n - m + 1), i > g
        PROVE  i - g + m - 1 \in m..n /\ given'[i] = s[i - g + m - 1]
    <2>1. i - g \in 1..n - m + 1 /\ ~(i <= g)
      BY <1>5, <1>7
    <2>2. given'[i] = page[i - g]
      BY <1>1, <1>3, <2>1
    <2>3. page[i - g] = s[m + (i - g) - 1]
      BY <1>1, <2>1
    <2>4. m + (i - g) - 1 = i - g + m - 1 /\ i - g + m - 1 \in m..n
      BY <1>5, <2>1
    <2> QED BY <2>2, <2>3, <2>4
  <1>8. ASSUME NEW k \in m..n
        PROVE  g + k - m + 1 \in 1..g + (n - m + 1) /\ given'[g + k - m + 1] = s[k]
    <2>1. k \in Nat /\ g + k - m + 1 \in 1..g + (n - m + 1) /\ g + k - m + 1 > g
      BY <1>5
    <2>2. (g + k - m + 1) - g + m - 1 = k
      BY <1>5, <2>1
    <2> QED BY <1>7, <2>1, <2>2
  <1> QED BY <1>1, <1>2, <1>3, <1>4, <1>6, <1>7, <1>8

LEMMA OwnCursor ==
  ASSUME PagingInv, NEW t \in Held, decodeCursor(t)
  PROVE  t = cursor
  <1>1. CASE t = cursor
    BY <1>1
  <1>2. ASSUME NEW r \in Row, entry[r].owner # Me, t = [scope |-> entry[r].owner, id |-> r] PROVE FALSE
    BY <1>2 DEF decodeCursor
  <1> QED BY <1>1, <1>2 DEF Held

(* A page by cursor. *)
ByCursor(page, s, m, n) ==
    /\ n >= m - 1 /\ Sorted(s) /\ ~over /\ offset' = offset /\ Adds(page, s, m, n)
    /\ Follows(s, m, cursor.id)
    /\ \/ n = Len(s) /\ over' = TRUE /\ cursor' = cursor
       \/ n >= m /\ n < Len(s) /\ over' = FALSE /\ cursor' = [scope |-> Me, id |-> s[n]]

LEMMA CursorPages ==
  ASSUME PagingInv, NEW t \in Held, CursorPage(t)
  PROVE  \E s \in Seq(Row) : \E m \in 1..Len(s) + 1, n \in 0..Len(s), page \in Seq(Row) :
            ByCursor(page, s, m, n)
  <1> USE PagingFacts
  <1>1. t = cursor /\ ~over /\ cursor.id \in Row \cup {NoRow} /\ PagingTyped
    BY OwnCursor DEF CursorPage, PagingInv, WalkTyped
  <1>2. PICK s \in Orders(Matching) : \E rest \in AfterCursor(s, cursor.id) :
          LET hasMore == Len(rest) > walk.limit
              page    == IF hasMore THEN SubSeq(rest, 1, walk.limit) ELSE rest
          IN /\ Return(page) /\ over' = ~hasMore
             /\ cursor' = IF hasMore THEN encodeCursor(page[walk.limit]) ELSE cursor
    BY <1>1 DEF CursorPage
  <1>3. PICK rest \in AfterCursor(s, cursor.id) :
          LET hasMore == Len(rest) > walk.limit
              page    == IF hasMore THEN SubSeq(rest, 1, walk.limit) ELSE rest
          IN /\ Return(page) /\ over' = ~hasMore
             /\ cursor' = IF hasMore THEN encodeCursor(page[walk.limit]) ELSE cursor
    BY <1>2
  <1>4. Sorted(s) /\ s \in Seq(Row)
    BY OrdersSorted DEF Sorted
  <1>5. PICK m \in 1..Len(s) + 1 : IsPage(rest, s, m, Len(s)) /\ Follows(s, m, cursor.id)
    BY <1>1, <1>4, AfterTheCursor, Zenon
  <1>6. Len(s) \in Nat /\ rest \in Seq(Row) /\ Len(rest) = Len(s) - m + 1
        /\ \A k \in 1..Len(rest) : rest[k] = s[m + k - 1]
    BY <1>4, <1>5, LenProperties DEF IsPage
  <1>7. UNCHANGED <<instant, entry, walk, offset>> /\ walk.limit \in Nat \ {0}
    BY DEF CursorPage, PagingInv, WalkTyped
  <1> PICK l \in Nat \ {0} : l = walk.limit
    BY <1>7
  <1> PICK z \in Nat : z = Len(s)
    BY <1>6
  <1>8. CASE Len(rest) > l
    <2> DEFINE page == SubSeq(rest, 1, l)
    <2>1. Return(page) /\ over' = FALSE /\ cursor' = encodeCursor(page[l])
      BY <1>3, <1>8
    <2>2. \A i \in 1..l : rest[i] \in Row /\ i \in 1..Len(rest)
      BY <1>6, <1>8, LenProperties
    <2>3. page \in Seq(Row) /\ Len(page) = l /\ \A i \in 1..l : page[i] = rest[i]
      <3>1. /\ SubSeq(rest, 1, l) \in Seq(Row) /\ Len(SubSeq(rest, 1, l)) = (IF 1 <= l THEN l - 1 + 1 ELSE 0)
            /\ \A i \in 1..l - 1 + 1 : SubSeq(rest, 1, l)[i] = rest[1 + i - 1]
        BY <2>2, SubSeqProperties
      <3>2. l - 1 + 1 = l /\ 1 <= l /\ \A i \in 1..l : 1 + i - 1 = i
        OBVIOUS
      <3> QED BY <3>1, <3>2
    <2> HIDE DEF page
    <2>4. m + l - 1 \in 0..z /\ m + l - 1 >= m /\ m + l - 1 < z /\ (m + l - 1) - m + 1 = l
      BY <1>6, <1>8
    <2>5. \A i \in 1..l : page[i] = s[m + i - 1]
      BY <1>6, <2>2, <2>3
    <2>6. IsPage(page, s, m, m + l - 1)
      BY <2>3, <2>4, <2>5 DEF IsPage
    <2>7. Adds(page, s, m, m + l - 1)
      BY <1>7, <2>1, <2>6 DEF Adds, Return
    <2>8. cursor' = [scope |-> Me, id |-> s[m + l - 1]]
      BY <2>1, <2>5 DEF encodeCursor
    <2>9. ByCursor(page, s, m, m + l - 1)
      <3>1. m + l - 1 >= m - 1 /\ m + l - 1 < Len(s)
        BY <1>5, <2>4
      <3> QED BY <1>1, <1>4, <1>5, <1>7, <2>1, <2>4, <2>7, <2>8, <3>1 DEF ByCursor
    <2>10. m + l - 1 \in 0..Len(s)
      BY <2>4
    <2> QED BY <1>4, <1>5, <2>3, <2>9, <2>10
  <1>9. CASE ~(Len(rest) > l)
    <2>1. Return(rest) /\ over' = TRUE /\ cursor' = cursor
      BY <1>3, <1>9
    <2>2. Adds(rest, s, m, Len(s))
      BY <1>5, <1>7, <2>1 DEF Adds, Return
    <2>3. Len(s) \in 0..Len(s) /\ Len(s) >= m - 1 /\ rest \in Seq(Row)
      BY <1>6
    <2>4. ByCursor(rest, s, m, Len(s))
      BY <1>1, <1>4, <1>5, <1>7, <2>1, <2>2, <2>3 DEF ByCursor
    <2> QED BY <1>4, <1>5, <2>3, <2>4
  <1> QED BY <1>8, <1>9
LEMMA CursorPageKeeps ==
  ASSUME PagingInv, walk.list \notin ByOffset, NEW t \in Held, CursorPage(t)
  PROVE  PagingInv'
  <1>1. PICK s \in Seq(Row) : \E m \in 1..Len(s) + 1, n \in 0..Len(s), page \in Seq(Row) :
            ByCursor(page, s, m, n)
    BY CursorPages, Zenon
  <1>2. PICK m \in 1..Len(s) + 1, n \in 0..Len(s), page \in Seq(Row) :
            ByCursor(page, s, m, n)
    BY <1>1, Zenon
  <1>0. /\ n >= m - 1 /\ Sorted(s) /\ ~over /\ offset' = offset /\ Adds(page, s, m, n)
        /\ cursor.id = NoRow => m = 1
        /\ cursor.id # NoRow => \A i \in m..Len(s) : s[i] # cursor.id /\ entry[s[i]].stamp <= entry[cursor.id].stamp
        /\ cursor.id # NoRow => \A i \in 1..Len(s) : s[i] = cursor.id => m = i + 1
        /\ \/ n = Len(s) /\ over' = TRUE /\ cursor' = cursor
           \/ n >= m /\ n < Len(s) /\ over' = FALSE /\ cursor' = [scope |-> Me, id |-> s[n]]
    BY <1>2 DEF ByCursor, Follows
  <1>3. /\ PagingTyped /\ WalkTyped /\ GivenSound /\ StartSound /\ given \in Seq(Row)
        /\ \A r \in Row : entry[r].stamp \in Nat
    BY Stamps DEF PagingInv, PagingTyped
  <1>4. UNCHANGED <<instant, entry, walk, offset>> /\ offset = 0
    BY <1>0, <1>3 DEF Adds, WalkTyped
  <1>5. /\ given' \in Seq(Row) /\ Len(given') = Len(given) + (n - m + 1)
        /\ DOMAIN given = 1..Len(given) /\ DOMAIN given' = 1..Len(given') /\ Len(given) \in Nat
        /\ \A i \in 1..Len(given) : given'[i] = given[i]
        /\ \A i \in 1..Len(given') : i > Len(given) =>
               i - Len(given) + m - 1 \in m..n /\ given'[i] = s[i - Len(given) + m - 1]
        /\ \A k \in m..n : Len(given) + k - m + 1 \in 1..Len(given') /\ given'[Len(given) + k - m + 1] = s[k]
    <2>1. n \in m - 1..Len(s) /\ Adds(page, s, m, n)
      BY <1>0, LenProperties
    <2> QED BY <1>3, <2>1, Added
  <1>6. /\ Len(s) \in Nat /\ DOMAIN s = 1..Len(s)
        /\ \A i \in 1..Len(s) : s[i] \in Row /\ Listed(s[i]) /\ entry[s[i]].at = "there"
    BY <1>0 DEF Sorted, Listed
  <1> PICK g \in Nat : g = Len(given)
    BY <1>5
  <1> PICK z \in Nat : z = Len(s)
    BY <1>6
  <1>7. m \in Nat /\ n \in Nat /\ m >= 1 /\ n <= z /\ n >= m - 1 /\ \A k \in m..n : k \in 1..z
    BY <1>0, <1>2, <1>6
  <1>8. PagingTyped'
    <2>1. start' \subseteq Row /\ over' \in BOOLEAN
      BY <1>0, <1>3, MatchingRows DEF PagingTyped, Adds
    <2> QED BY <1>3, <1>4, <1>5, <2>1 DEF PagingTyped
  <1>9. WalkTyped'
    <2>1. cursor' \in [scope : {Me}, id : Row \cup {NoRow}]
      <3>1. CASE cursor' = cursor
        BY <1>3, <3>1 DEF WalkTyped
      <3>2. CASE n >= m /\ cursor' = [scope |-> Me, id |-> s[n]]
        BY <1>6, <1>7, <3>2
      <3> QED BY <1>0, <3>1, <3>2
    <2> QED BY <1>3, <1>4, <2>1 DEF WalkTyped
  \* what an old row and a new one have to do with the cursor
  <1>10. ASSUME NEW i \in 1..g
         PROVE  /\ given[i] \in Row /\ Listed(given[i]) /\ entry[given[i]].at = "there"
                /\ cursor.id # NoRow /\ cursor.id \in Row /\ Listed(cursor.id)
                /\ entry[given[i]].stamp >= entry[cursor.id].stamp
    <2>1. given[i] \in Row /\ Listed(given[i]) /\ i \in DOMAIN given
      BY <1>3, <1>5, ElementOfSeq DEF GivenSound
    <2>2. cursor.id # NoRow
      <3> SUFFICES ASSUME cursor.id = NoRow PROVE FALSE
        OBVIOUS
      <3>1. given = <<>>
        BY <1>0, <1>3 DEF GivenSound
      <3> QED BY <3>1, <1>5, EmptySeq
    <2>3. g > 0 /\ cursor.id = given[g] /\ g \in DOMAIN given
      BY <1>0, <1>3, <1>5, <2>2 DEF GivenSound
    <2>4. cursor.id \in Row /\ Listed(cursor.id)
      BY <1>3, <1>5, <2>3, ElementOfSeq DEF GivenSound
    <2>5. entry[given[i]].stamp >= entry[given[g]].stamp
      <3> PICK x \in Nat : x = entry[given[i]].stamp
        BY <1>3, <2>1
      <3>1. CASE i = g
        BY <3>1
      <3>2. CASE i < g
        BY <1>3, <2>1, <2>3, <3>2 DEF GivenSound
      <3> QED BY <3>1, <3>2
    <2> QED BY <2>1, <2>2, <2>3, <2>4, <2>5 DEF Listed
  <1>11. ASSUME NEW i \in 1..g, NEW k \in m..n
         PROVE  entry[given[i]].stamp >= entry[s[k]].stamp /\ (given[i] = s[k] => ~Alone(s[k]))
    <2>1. s[k] # cursor.id /\ entry[s[k]].stamp <= entry[cursor.id].stamp /\ s[k] \in Row
      <3>1. k \in m..Len(s) /\ k \in 1..z
        BY <1>7
      <3> QED BY <1>0, <1>6, <1>10, <3>1
    <2>2. entry[s[k]].stamp \in Nat /\ entry[given[i]].stamp \in Nat /\ entry[cursor.id].stamp \in Nat
      BY <1>3, <1>10, <2>1
    <2>3. entry[given[i]].stamp >= entry[s[k]].stamp
      BY <1>10, <2>1, <2>2
    <2>4. ASSUME given[i] = s[k] PROVE ~Alone(s[k])
      <3>1. entry[cursor.id].stamp = entry[s[k]].stamp
        BY <1>10, <2>1, <2>2, <2>4
      <3> QED BY <1>10, <2>1, <3>1 DEF Alone, Listed
    <2> QED BY <2>3, <2>4
  <1>12. GivenSound'
    <2>1. ASSUME NEW i \in 1..Len(given')
          PROVE  \/ i \in 1..g /\ given'[i] = given[i]
                 \/ i > g /\ i - g + m - 1 \in m..n /\ given'[i] = s[i - g + m - 1]
      BY <1>5
    <2>2. \A i \in DOMAIN given' : Listed(given'[i])
      BY <1>5, <1>6, <1>7, <1>10, <2>1
    <2>3. \A i \in DOMAIN given' : Listed(given[i])'
      BY <1>4, <2>2 DEF Listed
    <2>4. ASSUME NEW i \in 1..Len(given'), NEW j \in 1..Len(given'), i < j
          PROVE  /\ entry[given'[i]].stamp >= entry[given'[j]].stamp
                 /\ given'[i] = given'[j] => ~Alone(given'[i])
      <3>1. CASE i \in 1..g /\ j \in 1..g
        <4>1. given'[i] = given[i] /\ given'[j] = given[j] /\ i \in DOMAIN given /\ j \in DOMAIN given
          BY <1>5, <3>1
        <4>2. /\ entry[given[i]].stamp >= entry[given[j]].stamp
              /\ given[i] = given[j] => ~Alone(given[i])
          BY <1>3, <2>4, <4>1 DEF GivenSound
        <4> QED BY <4>1, <4>2
      <3>2. CASE i \in 1..g /\ j > g
        <4>1. j - g + m - 1 \in m..n /\ given'[j] = s[j - g + m - 1] /\ given'[i] = given[i]
          BY <1>5, <3>2
        <4> PICK k \in m..n : k = j - g + m - 1
          BY <4>1
        <4> QED BY <4>1, <3>2, <1>11
      <3>3. CASE i > g
        <4>1. j > g
          BY <1>5, <2>4, <3>3
        <4>2. /\ i - g + m - 1 \in m..n /\ given'[i] = s[i - g + m - 1]
              /\ j - g + m - 1 \in m..n /\ given'[j] = s[j - g + m - 1]
          BY <1>5, <3>3, <4>1
        <4>3. i - g + m - 1 < j - g + m - 1 /\ i - g + m - 1 \in 1..Len(s) /\ j - g + m - 1 \in 1..Len(s)
          BY <1>6, <1>7, <2>4, <4>2
        <4>4. /\ s[i - g + m - 1] # s[j - g + m - 1]
              /\ entry[s[i - g + m - 1]].stamp >= entry[s[j - g + m - 1]].stamp
          BY <1>0, <4>3 DEF Sorted
        <4> QED BY <4>2, <4>4
      <3> QED BY <3>1, <3>2, <3>3
    <2>5. \A i, j \in DOMAIN given' : i < j =>
              /\ (entry[given[i]].stamp >= entry[given[j]].stamp)'
              /\ (given[i] = given[j] => ~Alone(given[i]))'
      BY <1>4, <1>5, <2>4 DEF Alone
    <2>6. ~over' => cursor'.id # NoRow /\ Len(given') > 0 /\ cursor'.id = given'[Len(given')]
      <3> SUFFICES ASSUME ~over' PROVE cursor'.id # NoRow /\ Len(given') > 0 /\ cursor'.id = given'[Len(given')]
        OBVIOUS
      <3>1. n >= m /\ n <= z /\ cursor' = [scope |-> Me, id |-> s[n]]
        BY <1>0, <1>7
      <3>2. n \in m..n /\ s[n] \in Row
        BY <1>6, <1>7, <3>1
      <3>3. given'[Len(given) + n - m + 1] = s[n]
        BY <1>5, <3>2
      <3>4. Len(given) + n - m + 1 = Len(given') /\ Len(given') > 0
        BY <1>5, <1>7, <3>1
      <3> QED BY <3>1, <3>2, <3>3, <3>4, PagingFacts
    <2> QED BY <2>3, <2>5, <2>6 DEF GivenSound
  <1>13. \A r \in start' : r \in Row /\ Listed(r) /\ Listed(r)'
    <2>1. \A r \in start' : r \in Row /\ Listed(r)
      BY <1>0, <1>3, MatchingRows DEF Adds, StartSound, PagingTyped
    <2> QED BY <1>4, <2>1 DEF Listed
  \* a row at place i of the order, i not before the page, is on it or ahead
  <1>14. ASSUME NEW r \in Row, Listed(r), Alone(r), NEW i \in m..z, s[i] = r
         PROVE  Ahead(r)' \/ \E k \in DOMAIN given' : given'[k] = r
    <2>1. CASE i <= n
      <3>1. i \in m..n
        BY <1>7, <2>1
      <3> QED BY <1>5, <1>14, <3>1
    <2>2. CASE i > n
      <3>1. n >= m /\ ~over' /\ cursor' = [scope |-> Me, id |-> s[n]]
        BY <1>0, <1>7, <2>2
      <3>2. n \in 1..z /\ i \in 1..z /\ n < i
        BY <1>7, <2>2, <3>1
      <3>3. s[n] # r /\ entry[s[n]].stamp >= entry[r].stamp /\ s[n] \in Row /\ entry[s[n]].at = "there"
        BY <1>0, <1>6, <1>14, <3>2 DEF Sorted
      <3>4. entry[s[n]].stamp # entry[r].stamp
        BY <1>14, <3>3 DEF Alone
      <3>5. entry[r].stamp < entry[s[n]].stamp
        <4>1. entry[r].stamp \in Nat /\ entry[s[n]].stamp \in Nat
          BY <1>3, <3>3
        <4> QED BY <3>3, <3>4, <4>1
      <3> QED BY <1>4, <3>1, <3>3, <3>5, PagingFacts DEF Ahead
    <2> QED BY <1>7, <2>1, <2>2
  <1>15. ASSUME walk.wanted = "any", NEW r \in start', Alone(r)
         PROVE  Ahead(r)' \/ \E k \in DOMAIN given' : given'[k] = r
    <2>1. r \in Row /\ Listed(r)
      BY <1>13
    <2>2. r \in Matching
      BY <1>15, <2>1, MatchingRows
    <2>3. PICK i \in 1..Len(s) : s[i] = r
      BY <1>0, <2>2 DEF Sorted
    <2>4. CASE cursor.id = NoRow
      <3>1. i \in m..z
        BY <1>0, <1>7, <2>3, <2>4
      <3> QED BY <1>14, <1>15, <2>1, <2>3, <3>1
    <2>5. CASE cursor.id # NoRow
      <3>1. r \in start
        BY <1>0, <2>5 DEF Adds
      <3>2. CASE \E k \in DOMAIN given : given[k] = r
        <4>1. PICK k \in 1..g : given[k] = r
          BY <1>5, <3>2
        <4>2. k \in DOMAIN given' /\ given'[k] = r
          BY <1>5, <1>7, <4>1
        <4> QED BY <4>2
      <3>3. CASE Ahead(r)
        <4>1. entry[r].stamp < entry[cursor.id].stamp
          BY <3>3 DEF Ahead
        <4>2. cursor.id \in Mine
          <5>1. Len(given) > 0 /\ cursor.id = given[Len(given)]
            BY <1>0, <1>3, <2>5 DEF GivenSound
          <5>2. g \in 1..g
            BY <5>1
          <5> QED BY <1>10, <5>1, <5>2, MatchingRows
        <4>3. PICK j \in 1..Len(s) : s[j] = cursor.id
          BY <1>0, <1>15, <4>2, MatchingRows DEF Sorted
        <4>4. m = j + 1
          BY <1>0, <2>5, <4>3
        <4>5. ~(i <= j)
          <5>1. entry[r].stamp \in Nat /\ entry[cursor.id].stamp \in Nat
            BY <1>3, <1>6, <2>1, <4>3
          <5>2. i # j
            BY <2>3, <4>1, <4>3, <5>1
          <5>3. ~(i < j)
            <6> SUFFICES ASSUME i < j PROVE FALSE
              OBVIOUS
            <6>1. entry[r].stamp >= entry[cursor.id].stamp
              BY <1>0, <1>6, <2>3, <4>3 DEF Sorted
            <6> QED BY <4>1, <5>1, <6>1
          <5> QED BY <5>2, <5>3
        <4>6. i \in m..z
          BY <4>4, <4>5
        <4> QED BY <1>14, <1>15, <2>1, <2>3, <4>6
      <3> QED BY <1>3, <1>15, <3>1, <3>2, <3>3 DEF StartSound
    <2> QED BY <2>4, <2>5
  <1>16. StartSound'
    <2>1. \A r \in start' : Alone(r)' => Alone(r)
      BY <1>4 DEF Alone
    <2> QED BY <1>4, <1>13, <1>15, <2>1 DEF StartSound
  <1> QED BY <1>8, <1>9, <1>12, <1>16 DEF PagingInv
(* A page by offset. *)
LEMMA OffsetPages ==
  ASSUME PagingInv, OffsetPage, walk.list \in ByOffset
  PROVE  \E s \in Seq(Row) : \E m \in 1..Len(s) + 1, n \in 0..Len(s), page \in Seq(Row) :
            /\ n >= m - 1
            /\ Sorted(s) /\ ~over /\ Adds(page, s, m, n)
            /\ m = IF offset < Len(s) THEN offset + 1 ELSE Len(s) + 1
            /\ n = IF offset + walk.take < Len(s) THEN offset + walk.take ELSE Len(s)
            /\ over' = (n < offset + walk.limit) /\ offset' = offset + walk.limit /\ UNCHANGED cursor
  <1>1. PICK s \in Orders(Matching) :
          LET last == IF offset + walk.take < Len(s) THEN offset + walk.take ELSE Len(s)
          IN Return(SubSeq(s, offset + 1, last)) /\ over' = (last < offset + walk.limit)
    BY DEF OffsetPage
  <1>2. ~over /\ offset' = offset + walk.limit /\ UNCHANGED <<instant, entry, walk, cursor>>
    BY DEF OffsetPage
  <1>3. Sorted(s) /\ s \in Seq(Row)
    BY OrdersSorted DEF Sorted
  <1> PICK z \in Nat : z = Len(s)
    BY <1>3, LenProperties
  <1> PICK o \in Nat : o = offset
    BY DEF PagingInv, PagingTyped
  <1> PICK k \in Nat : k = walk.take
    BY DEF PagingInv, WalkTyped
  <1> PICK n \in Nat : n = IF o + k < z THEN o + k ELSE z
    OBVIOUS
  <1> PICK m \in Nat : m = IF o < z THEN o + 1 ELSE z + 1
    OBVIOUS
  <1>4. m \in 1..z + 1 /\ n \in m - 1..z
    <2>1. walk.take >= walk.limit /\ walk.limit \in Nat \ {0}
      BY DEF PagingInv, WalkTyped
    <2>2. k >= 1
      BY <2>1
    <2> QED BY <2>2
  <1>5. Return(SubSeq(s, o + 1, n)) /\ over' = (n < o + walk.limit)
    BY <1>1
  <1>6. SubSeq(s, o + 1, n) = SubSeq(s, m, n)
    <2>1. CASE o < z
      BY <2>1
    <2>2. CASE ~(o < z)
      <3>1. n < o + 1 /\ n < m
        BY <2>2
      <3>2. o + 1 \in Int /\ m \in Int /\ n \in Int
        OBVIOUS
      <3>3. SubSeq(s, o + 1, n) = <<>>
        BY <3>1, <3>2, SubSeqEmpty
      <3>4. SubSeq(s, m, n) = <<>>
        BY <3>1, <3>2, SubSeqEmpty
      <3> QED BY <3>3, <3>4
    <2> QED BY <2>1, <2>2
  <1>7. IsPage(SubSeq(s, m, n), s, m, n)
    BY <1>3, <1>4, Pages
  <1>8. Adds(SubSeq(s, m, n), s, m, n)
    BY <1>2, <1>5, <1>6, <1>7 DEF Adds, Return
  <1>9. n \in 0..Len(s) /\ n >= m - 1 /\ m \in 1..Len(s) + 1 /\ SubSeq(s, m, n) \in Seq(Row)
    BY <1>4, <1>7 DEF IsPage
  <1> QED BY <1>2, <1>3, <1>5, <1>8, <1>9

(* The rows before one that shares its instant with no other are the newer ones. *)
LEMMA PlaceOfAlone ==
  ASSUME PagingTyped, walk.wanted = "any", NEW s \in Seq(Row), Sorted(s),
         NEW i \in 1..Len(s), Alone(s[i])
  PROVE  Cardinality(Newer(s[i])) = i - 1
  <1>1. Len(s) \in Nat /\ DOMAIN s = 1..Len(s) /\ \A j \in 1..Len(s) : s[j] \in Row
    BY DEF Sorted
  <1> PICK r \in Row : r = s[i]
    BY <1>1
  <1>2. \A j \in 1..Len(s) : s[j] \in Mine /\ entry[s[j]].at = "there"
    BY <1>1, MatchingRows DEF Sorted, Listed
  <1>3. \A q \in Row : entry[q].stamp \in Nat
    BY Stamps
  <1> PICK b \in Nat : b = i - 1
    BY <1>1
  <1> DEFINE f == [j \in 1..b |-> s[j]]
  <1>4. f \in [1..b -> Newer(r)]
    <2> SUFFICES ASSUME NEW j \in 1..b PROVE s[j] \in Newer(r)
      OBVIOUS
    <2>1. j \in DOMAIN s /\ i \in DOMAIN s /\ j < i
      BY <1>1
    <2>2. s[j] # r /\ entry[s[j]].stamp >= entry[r].stamp /\ s[j] \in Mine /\ s[j] \in Row
      BY <1>1, <1>2, <2>1 DEF Sorted
    <2>3. entry[s[j]].stamp # entry[r].stamp
      BY <1>1, <1>2, <2>1, <2>2 DEF Alone
    <2>4. entry[s[j]].stamp > entry[r].stamp
      BY <1>3, <2>2, <2>3
    <2> QED BY <2>2, <2>4 DEF Newer
  <1>5. ASSUME NEW j \in 1..b, NEW k \in 1..b, f[j] = f[k] PROVE j = k
    <2>1. s[j] = s[k] /\ j \in DOMAIN s /\ k \in DOMAIN s
      BY <1>1, <1>5
    <2>2. j \in 1..Len(s) /\ k \in 1..Len(s)
      BY <1>1, <2>1
    <2>3. ~(j < k) /\ ~(k < j)
      BY <2>1, <2>2 DEF Sorted
    <2> QED BY <2>3
  <1>6. ASSUME NEW q \in Newer(r) PROVE \E j \in 1..b : f[j] = q
    <2>1. q \in Mine /\ q \in Row /\ entry[q].stamp > entry[r].stamp
      BY MatchingRows DEF Newer
    <2>2. PICK j \in 1..Len(s) : s[j] = q
      BY <2>1, MatchingRows DEF Sorted
    <2>3. ~(j >= i)
      <3>1. j # i
        BY <1>3, <2>1, <2>2
      <3>2. ~(i < j)
        <4> SUFFICES ASSUME i < j PROVE FALSE
          OBVIOUS
        <4>1. entry[r].stamp >= entry[q].stamp
          BY <1>1, <2>2 DEF Sorted
        <4> QED BY <1>3, <2>1, <4>1
      <3> QED BY <1>1, <3>1, <3>2
    <2>4. j \in 1..b
      BY <1>1, <2>3
    <2> QED BY <2>2, <2>4
  <1>7. f \in Bijection(1..b, Newer(r))
    <2> HIDE DEF f
    <2> QED BY <1>4, <1>5, <1>6, Fun_IsBij
  <1>8. IsFiniteSet(1..b) /\ Cardinality(1..b) = b
    <2>1. 1 \in Int /\ b \in Int
      OBVIOUS
    <2>2. IsFiniteSet(1..b) /\ Cardinality(1..b) = IF 1 > b THEN 0 ELSE b - 1 + 1
      BY <2>1, FS_Interval
    <2> QED BY <2>2
  <1>9. ExistsBijection(1..b, Newer(r))
    BY <1>7 DEF ExistsBijection
  <1>10. Cardinality(Newer(r)) = b
    BY <1>8, <1>9, FS_Bijection
  <1> QED BY <1>10

LEMMA OffsetPageKeeps ==
  ASSUME PagingInv, walk.list \in ByOffset, OffsetPage
  PROVE  PagingInv'
  <1>1. PICK s \in Seq(Row) : \E m \in 1..Len(s) + 1, n \in 0..Len(s), page \in Seq(Row) :
            /\ n >= m - 1
            /\ Sorted(s) /\ ~over /\ Adds(page, s, m, n)
            /\ m = IF offset < Len(s) THEN offset + 1 ELSE Len(s) + 1
            /\ n = IF offset + walk.take < Len(s) THEN offset + walk.take ELSE Len(s)
            /\ over' = (n < offset + walk.limit) /\ offset' = offset + walk.limit /\ UNCHANGED cursor
    BY OffsetPages
  <1>2. PICK m \in 1..Len(s) + 1, n \in 0..Len(s), page \in Seq(Row) :
            /\ n >= m - 1
            /\ Sorted(s) /\ ~over /\ Adds(page, s, m, n)
            /\ m = IF offset < Len(s) THEN offset + 1 ELSE Len(s) + 1
            /\ n = IF offset + walk.take < Len(s) THEN offset + walk.take ELSE Len(s)
            /\ over' = (n < offset + walk.limit) /\ offset' = offset + walk.limit /\ UNCHANGED cursor
    BY <1>1
  <1>3. /\ PagingTyped /\ WalkTyped /\ GivenSound /\ StartSound /\ given \in Seq(Row)
        /\ \A r \in Row : entry[r].stamp \in Nat
    BY Stamps DEF PagingInv, PagingTyped
  <1>4. UNCHANGED <<instant, entry, walk>>
    BY <1>2 DEF Adds
  <1>5. /\ given' \in Seq(Row) /\ Len(given') = Len(given) + (n - m + 1)
        /\ DOMAIN given = 1..Len(given) /\ DOMAIN given' = 1..Len(given') /\ Len(given) \in Nat
        /\ \A i \in 1..Len(given) : given'[i] = given[i]
        /\ \A i \in 1..Len(given') : i > Len(given) =>
               i - Len(given) + m - 1 \in m..n /\ given'[i] = s[i - Len(given) + m - 1]
        /\ \A k \in m..n : Len(given) + k - m + 1 \in 1..Len(given') /\ given'[Len(given) + k - m + 1] = s[k]
    <2>1. n \in m - 1..Len(s) /\ Adds(page, s, m, n)
      BY <1>2, LenProperties
    <2> QED BY <1>3, <2>1, Added
  <1>6. /\ Len(s) \in Nat /\ \A i \in 1..Len(s) : s[i] \in Row /\ Listed(s[i])
    BY <1>2 DEF Sorted
  <1> PICK g \in Nat : g = Len(given)
    BY <1>5
  <1> PICK z \in Nat : z = Len(s)
    BY <1>6
  <1> PICK o \in Nat : o = offset
    BY <1>3 DEF PagingTyped
  <1> PICK l \in Nat \ {0} : l = walk.limit
    BY <1>3 DEF WalkTyped
  <1> PICK k \in Nat : k = walk.take /\ k >= l
    BY <1>3 DEF WalkTyped
  <1>7. m \in Nat /\ n \in Nat /\ m >= 1 /\ n <= z /\ n >= m - 1
    BY <1>2, <1>6
  <1>8. PagingTyped' /\ WalkTyped'
    <2>1. start' \subseteq Row
      BY <1>2, <1>3, MatchingRows DEF PagingTyped, Adds
    <2>2. over' \in BOOLEAN
      <3>1. (n < offset + walk.limit) \in BOOLEAN
        OBVIOUS
      <3> QED BY <1>2, <3>1, Zenon
    <2>3. offset' \in Nat
      BY <1>2
    <2> QED BY <1>2, <1>3, <1>4, <1>5, <2>1, <2>2, <2>3 DEF PagingTyped, WalkTyped
  <1>9. GivenSound'
    <2>1. \A i \in 1..Len(given') : Listed(given'[i])
      <3> SUFFICES ASSUME NEW i \in 1..Len(given') PROVE Listed(given'[i])
        OBVIOUS
      <3>1. CASE i \in 1..g
        BY <1>3, <1>5, <3>1 DEF GivenSound
      <3>2. CASE i > g
        <4>1. i - g + m - 1 \in m..n /\ given'[i] = s[i - g + m - 1]
          BY <1>5, <3>2
        <4>2. i - g + m - 1 \in 1..z
          BY <1>7, <4>1
        <4> QED BY <1>6, <4>1, <4>2
      <3> QED BY <3>1, <3>2
    <2>2. \A i \in DOMAIN given' : Listed(given[i])'
      BY <1>4, <1>5, <2>1 DEF Listed
    <2> QED BY <1>4, <2>2 DEF GivenSound
  <1>10. \A r \in start' : r \in Row /\ Listed(r) /\ Listed(r)'
    <2>1. \A r \in start' : r \in Row /\ Listed(r)
      BY <1>2, <1>3, MatchingRows DEF Adds, StartSound, PagingTyped
    <2> QED BY <1>4, <2>1 DEF Listed
  \* a row at place i, past the offset, is on the page or past the next offset
  <1>11. ASSUME NEW r \in Row, Listed(r), Alone(r), Cardinality(Newer(r)) >= o
         PROVE  Ahead(r)' \/ \E j \in DOMAIN given' : given'[j] = r
    <2>1. walk.wanted = "any" /\ Matching = Mine /\ r \in Mine
      BY <1>3, <1>11, MatchingRows DEF WalkTyped
    <2>2. PICK i \in 1..Len(s) : s[i] = r
      BY <1>2, <2>1 DEF Sorted
    <2>3. Cardinality(Newer(r)) = i - 1
      BY <1>2, <1>3, <1>11, <2>1, <2>2, PlaceOfAlone
    <2>4. i >= m
      BY <1>2, <1>6, <1>11, <2>3
    <2>5. CASE i <= n
      <3>1. i \in m..n
        BY <1>6, <2>4, <2>5
      <3> QED BY <1>5, <2>2, <3>1
    <2>6. CASE i > n
      <3>1. n = o + k /\ n >= o + l
        BY <1>2, <1>6, <2>6
      <3>2. ~over' /\ offset' = o + l
        <4>1. ~(n < offset + walk.limit)
          BY <1>2, <3>1
        <4>2. ~over'
          BY <1>2, <4>1, Zenon
        <4> QED BY <1>2, <4>2
      <3>3. Cardinality(Newer(r)) >= o + l
        BY <2>3, <2>6, <3>1
      <3>4. Newer(r)' = Newer(r)
        BY <1>4 DEF Newer, Mine
      <3> QED BY <1>3, <1>4, <3>2, <3>3, <3>4 DEF Ahead
    <2> QED BY <1>6, <1>7, <2>5, <2>6
  <1>12. ASSUME NEW r \in start', Alone(r)
         PROVE  Ahead(r)' \/ \E j \in DOMAIN given' : given'[j] = r
    <2>1. r \in Row /\ Listed(r)
      BY <1>10
    <2>2. CASE offset = 0
      <3>1. Cardinality(Newer(r)) \in Nat
        <4>1. Newer(r) \in SUBSET Row
          BY DEF Newer, Mine
        <4> QED BY <4>1, PagingFacts, FS_Subset, FS_CardinalityType
      <3>2. Cardinality(Newer(r)) >= o
        BY <2>2, <3>1
      <3> QED BY <1>11, <1>12, <2>1, <3>2, Zenon
    <2>3. CASE offset # 0
      <3>1. r \in start
        BY <1>2, <2>3 DEF Adds
      <3>2. CASE \E j \in DOMAIN given : given[j] = r
        <4>1. PICK j \in 1..g : given[j] = r
          BY <1>5, <3>2
        <4>2. j \in DOMAIN given' /\ given'[j] = r
          BY <1>5, <1>7, <4>1
        <4> QED BY <4>2
      <3>3. CASE Ahead(r)
        <4>1. Cardinality(Newer(r)) >= o
          BY <3>3 DEF Ahead
        <4> QED BY <1>11, <1>12, <2>1, <4>1
      <3>4. walk.wanted = "any"
        BY <1>3 DEF WalkTyped
      <3> QED BY <1>3, <1>12, <3>1, <3>2, <3>3, <3>4 DEF StartSound
    <2> QED BY <2>2, <2>3
  <1>13. StartSound'
    <2>1. \A r \in start' : Alone(r)' => Alone(r)
      BY <1>4 DEF Alone
    <2> QED BY <1>4, <1>10, <1>12, <2>1 DEF StartSound
  <1> QED BY <1>8, <1>9, <1>13 DEF PagingInv

LEMMA PagingNextInv == PagingInv /\ [PagingNext]_pagingVars => PagingInv'
  <1> SUFFICES ASSUME PagingInv, [PagingNext]_pagingVars PROVE PagingInv'
    OBVIOUS
  <1>1. CASE \/ InstantPasses
             \/ \E r \in Row : Insert(r) \/ CommitRow(r) \/ StatusMoves(r)
             \/ \E t \in Held : InvalidCursor(t)
             \/ UNCHANGED pagingVars
    BY <1>1, RowStepsGo, RowsGoKeep
  <1>2. CASE getTransfers \/ listMyTransactions \/ getInvestmentWithdrawRequests
    <2>1. walk.list \notin ByOffset /\ \E t \in Held : CursorPage(t)
      BY <1>2 DEF getTransfers, listMyTransactions, getInvestmentWithdrawRequests, ByOffset
    <2> QED BY <2>1, CursorPageKeeps
  <1>3. CASE getSalaryBatches \/ getSalarySchedules
    <2>1. walk.list \in ByOffset /\ OffsetPage
      BY <1>3 DEF getSalaryBatches, getSalarySchedules, ByOffset
    <2> QED BY <2>1, OffsetPageKeeps
  <1> QED BY <1>1, <1>2, <1>3 DEF PagingNext

(* The lists of transfers, transactions, withdrawals, batches and schedules, for  *)
(* any number of rows that are committed late and in any order while a client     *)
(* pages through them, any page size and any accounts: only the caller's rows,    *)
(* by cursor in order and none twice, and none that was there at the first page   *)
(* is left out, but for rows that share an instant.                               *)
THEOREM ListsAreSound == PagingSpec => []ListsSound
  <1>1. PagingInv => ListsSound
    <2> SUFFICES ASSUME PagingInv PROVE ListsSound
      OBVIOUS
    <2>1. PagingTypeOK
      <3>1. RowTypes \subseteq UNION {InTable(l) : l \in List}
        <4>1. \A t \in RowTypes : \E l \in List : t \in InTable(l)
          BY DEF RowTypes, List, InTable
        <4> QED BY <4>1
      <3>2. entry \in [Row -> [at : {"none", "open", "there"}, owner : Account, stamp : 0..MaxInstant,
                               type : UNION {InTable(l) : l \in List}, status : {"requested", "available"}]]
        BY <3>1 DEF PagingInv, PagingTyped, EntryRecord
      <3>3. cursor \in [scope : Account, id : Row \cup {NoRow}]
        BY PagingFacts DEF PagingInv, WalkTyped
      <3> QED BY <3>2, <3>3 DEF PagingTypeOK, PagingInv, PagingTyped
    <2>2. \A i \in DOMAIN given : entry[given[i]].owner = Me /\ entry[given[i]].type \in Types(walk.list)
      BY DEF PagingInv, GivenSound, Listed
    <2>3. walk.list \notin ByOffset => \A i, j \in DOMAIN given : i < j =>
              /\ entry[given[i]].stamp >= entry[given[j]].stamp
              /\ given[i] = given[j] => ~Alone(given[i])
      BY DEF PagingInv, GivenSound
    <2>4. over /\ walk.wanted = "any" => \A r \in start : Alone(r) => \E i \in DOMAIN given : given[i] = r
      BY DEF PagingInv, StartSound, Ahead
    <2> QED BY <2>1, <2>2, <2>3, <2>4 DEF ListsSound
  <1> QED BY <1>1, PagingInitInv, PagingNextInv, PTL DEF PagingSpec
=============================================================================
