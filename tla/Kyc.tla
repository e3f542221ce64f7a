--------------------------------- MODULE Kyc ---------------------------------
(***************************************************************************)
(* KYC documents: controllers/kycController.ts and services/storage/       *)
(* s3Service.ts.  The client gets a URL to put a file under a key, the     *)
(* scanner reads the object and reports its verdict, which is written as a *)
(* tag of the object and then to the document's row, and a download URL is *)
(* given for an object whose tag is clean.  The URL for the upload can be  *)
(* used again while it lives: a put replaces the content and its tag.      *)
(***************************************************************************)
EXTENDS Naturals, FiniteSets

CONSTANTS
    Visitor,       \* requests of the user, each at most once
    MaxPuts,       \* bound: uploads of content
    MaxScans,      \* bound: scans
    MaxFailedCalls \* bound: storage and database calls that fail

ASSUME KycAssumption ==
    /\ MaxPuts \in Nat /\ MaxScans \in Nat /\ MaxFailedCalls \in Nat
    /\ IsFiniteSet(Visitor)

VARIABLES
    kpc,           \* each request
    applications,  \* open KycApplication rows of the user
    doc,           \* the document's row: exists, checksum confirmed, scanStatus
    content,       \* version of the object's content, 0 for none
    healthy,       \* versions without a threat
    tag,           \* scan-status of the object
    scan,          \* the scan in work and the webhook it sends: stage, content read, verdict
    scans, failedCalls,
    served,        \* versions a download URL was given for, the URL reading what is there
    replaced       \* versions put while a scan or a download was on its way

kycVars == <<kpc, applications, doc, content, healthy, tag, scan, scans, failedCalls, served, replaced>>

KycTypeOK ==
    /\ kpc \in [Visitor -> {"new", "apply", "create", "upsert", "confirm", "download", "sign", "done"}]
    /\ content \in 0 .. MaxPuts /\ healthy \subseteq 1 .. MaxPuts
    /\ tag \in {"none", "pending", "clean", "infected"} /\ (tag = "none" <=> content = 0)
    /\ doc.scanStatus \in {"none", "pending", "clean", "infected"}
    /\ applications <= Cardinality(Visitor) /\ served \subseteq 1 .. content

KycInit ==
    /\ kpc = [v \in Visitor |-> "new"] /\ applications = 0
    /\ doc = [exists |-> FALSE, confirmed |-> FALSE, scanStatus |-> "none"]
    /\ content = 0 /\ healthy \in SUBSET (1 .. MaxPuts) /\ tag = "none"
    /\ scan = [at |-> "idle", read |-> 0] /\ scans = 0 /\ failedCalls = 0
    /\ served = {} /\ replaced = {}

Turns(v, from, to) == kpc[v] = from /\ kpc' = [kpc EXCEPT ![v] = to]
CallFails == failedCalls < MaxFailedCalls /\ failedCalls' = failedCalls + 1

(* What the result of the scanner is stored as. *)
Verdict(n) == IF n \in healthy THEN "clean" ELSE "infected"

-----------------------------------------------------------------------------
(* requestUploadUrl signs a PUT for the kind and type; getOrCreateApplication     *)
(* looks for an open application ...                                              *)
requestUploadUrl(v) ==
    /\ Turns(v, "new", IF applications > 0 THEN "upsert" ELSE "apply")
    /\ UNCHANGED <<applications, doc, content, healthy, tag, scan, scans, failedCalls, served, replaced>>

(* ... reads the user's country, and ends where there is no licence for it, ...   *)
checkJurisdictionLicensing(v) ==
    /\ kpc[v] = "apply" /\ \E to \in {"create", "done"} : Turns(v, "apply", to)
    /\ UNCHANGED <<applications, doc, content, healthy, tag, scan, scans, failedCalls, served, replaced>>

(* ... and creates one. *)
getOrCreateApplication(v) ==
    /\ Turns(v, "create", "upsert")
    /\ applications' = applications + 1
    /\ UNCHANGED <<doc, content, healthy, tag, scan, scans, failedCalls, served, replaced>>

(* The document's row; only then does the client have the URL. *)
UpsertDocument(v) ==
    /\ Turns(v, "upsert", "done")
    /\ doc' = IF doc.exists THEN doc ELSE [exists |-> TRUE, confirmed |-> FALSE, scanStatus |-> "pending"]
    /\ UNCHANGED <<applications, content, healthy, tag, scan, scans, failedCalls, served, replaced>>

(* The client puts a file: new content, with the tag that the URL prescribes. *)
PutObject ==
    /\ doc.exists /\ content < MaxPuts /\ content' = content + 1 /\ tag' = "pending"
    /\ replaced' = IF scan.at # "idle" \/ \E v \in Visitor : kpc[v] = "sign" THEN replaced \cup {content + 1} ELSE replaced
    /\ UNCHANGED <<kpc, applications, doc, healthy, scan, scans, failedCalls, served>>

(* confirmUpload records the checksum of the client, whatever is stored. *)
confirmUpload(v) ==
    /\ doc.exists /\ Turns(v, "new", "done") /\ doc' = [doc EXCEPT !.confirmed = TRUE]
    /\ UNCHANGED <<applications, content, healthy, tag, scan, scans, failedCalls, served, replaced>>

-----------------------------------------------------------------------------
(* The scanner takes the object. *)
StartScan ==
    /\ content > 0 /\ scan.at = "idle" /\ scans < MaxScans /\ scans' = scans + 1
    /\ scan' = [at |-> "report", read |-> content]
    /\ UNCHANGED <<kpc, applications, doc, content, healthy, tag, failedCalls, served, replaced>>

(* scanWebhook: markObjectClean or markObjectInfected tags what is under the key, ... *)
scanWebhook ==
    /\ scan.at = "report"
    /\ \/ /\ tag' = Verdict(scan.read) /\ scan' = [scan EXCEPT !.at = "row"] /\ UNCHANGED failedCalls
       \/ CallFails /\ scan' = [scan EXCEPT !.at = "idle"] /\ tag' \in {tag, Verdict(scan.read)}
    /\ UNCHANGED <<kpc, applications, doc, content, healthy, scans, served, replaced>>

(* ... and the rows with this key follow. *)
SyncScanStatus ==
    /\ scan.at = "row" /\ scan' = [scan EXCEPT !.at = "idle"]
    /\ \/ doc' = [doc EXCEPT !.scanStatus = Verdict(scan.read)] /\ UNCHANGED failedCalls
       \/ CallFails /\ UNCHANGED doc
    /\ UNCHANGED <<kpc, applications, content, healthy, tag, scans, served, replaced>>

-----------------------------------------------------------------------------
(* requestDownloadUrl finds the document of the user. *)
requestDownloadUrl(v) ==
    /\ doc.exists /\ Turns(v, "new", "download")
    /\ UNCHANGED <<applications, doc, content, healthy, tag, scan, scans, failedCalls, served, replaced>>

(* getObjectScanStatus: the object must be there; a tag that cannot be read counts *)
(* as pending.                                                                     *)
ScanStatusRead == {tag} \cup (IF failedCalls < MaxFailedCalls THEN {"pending"} ELSE {})

(* Mutation: everything passes that no scan found infected. *)
BlocksInfected(status) == status # "infected"

assertScanAllowsDownload(status) == status = "clean"

(* generateDownloadUrl: only a clean object. *)
generateDownloadUrl(v) ==
    /\ kpc[v] = "download"
    /\ \E status \in ScanStatusRead :
          /\ failedCalls' = IF status # tag THEN failedCalls + 1 ELSE failedCalls
          /\ Turns(v, "download", IF content > 0 /\ assertScanAllowsDownload(status) THEN "sign" ELSE "done")
    /\ UNCHANGED <<applications, doc, content, healthy, tag, scan, scans, served, replaced>>

(* The URL reads what is under the key when it is used. *)
GetObject(v) ==
    /\ Turns(v, "sign", "done") /\ served' = served \cup {content}
    /\ UNCHANGED <<applications, doc, content, healthy, tag, scan, scans, failedCalls, replaced>>

KycNext ==
    \/ \E v \in Visitor :
        \/ requestUploadUrl(v) \/ checkJurisdictionLicensing(v) \/ getOrCreateApplication(v) \/ UpsertDocument(v)
        \/ confirmUpload(v) \/ requestDownloadUrl(v) \/ generateDownloadUrl(v) \/ GetObject(v)
    \/ PutObject \/ StartScan \/ scanWebhook \/ SyncScanStatus

KycSpec == KycInit /\ [][KycNext]_kycVars

-----------------------------------------------------------------------------
(* What a download URL delivers has no threat in it, unless the content was       *)
(* replaced while a scan or a download was on its way.                            *)
ServedIsClean == KycTypeOK /\ served \ healthy \subseteq replaced
=============================================================================
