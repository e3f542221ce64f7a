----------------------------- MODULE Recovery -----------------------------
(***************************************************************************)
(* Account recovery, services/recovery: unlockApp with its limits and      *)
(* device check, verifyRecoveryOtp, and the rotation of the sessions.      *)
(* One account.  A request stops at each await that others can see; a call *)
(* to the database or Redis may fail.  Passcode and code are right or      *)
(* wrong, as the client chooses.                                           *)
(***************************************************************************)
EXTENDS Naturals, Sequences, FiniteSets

CONSTANTS
    Visit,         \* requests that may run at the same time
    UserMax,       \* RATE_LIMITS.user.maxAttempts, by day
    IdentifierMax, \* RATE_LIMITS.identifier.maxAttempts, by quarter of an hour
    DeviceMax,     \* verificationAttempts of a device that is not limited
    MaxVisits,     \* bound: requests in a behaviour
    MaxFailures    \* bound: calls that fail

ASSUME RecoveryAssumption ==
    /\ UserMax \in Nat \ {0} /\ IdentifierMax \in Nat \ {0} /\ DeviceMax \in Nat
    /\ MaxVisits \in Nat /\ MaxFailures \in Nat /\ IsFiniteSet(Visit)

VARIABLES
    day,       \* RecoveryAttempt rows of the user in the last day: [unlock, otp]
    recent,    \* rows of the identifier in the last quarter of an hour
    codes,     \* OtpChallenge rows: [open, token, tries], token: was it handed out,
               \* tries: rows of its attempt key in the last quarter of an hour
    revoked,   \* the tokens on the deny-list
    device,    \* the UserDevice row: [attempts, trusted]
    sessions,  \* live keys: 0 for one from before, else the request that issued it
    rpc, visit,\* where each request is, and what it works on
    visits, failures,
    \* what happened, for the properties
    compared,  \* passcodes and codes compared within a day: [unlock, otp]
    rotated    \* a recovery has revoked the sessions / has been handed its key

limitVars    == <<day, recent, codes, revoked>>
recoveryVars == <<limitVars, device, sessions, rpc, visit, visits, failures, compared, rotated>>

NoVisit == [id |-> 0, code |-> 0, locks |-> FALSE]

RecoveryTypeOK ==
    /\ day \in [unlock : Nat, otp : Nat] /\ recent \in Nat
    /\ \A x \in DOMAIN codes : codes[x] \in [open : BOOLEAN, token : BOOLEAN, tries : Nat]
    /\ revoked \subseteq DOMAIN codes
    /\ device \in [attempts : 0..(DeviceMax + 1), trusted : BOOLEAN]
    /\ sessions \subseteq 0..visits
    /\ visits \in 0..MaxVisits /\ failures \in 0..MaxFailures
    /\ \A v \in Visit : rpc[v] = "idle" => visit[v] = NoVisit

RecoveryInit ==
    /\ day = [unlock |-> 0, otp |-> 0] /\ recent = 0
    /\ codes = <<>> /\ revoked = {}
    /\ device = [attempts |-> 0, trusted |-> FALSE]
    /\ sessions = {0}
    /\ rpc = [v \in Visit |-> "idle"] /\ visit = [v \in Visit |-> NoVisit]
    /\ visits = 0 /\ failures = 0
    /\ compared = [unlock |-> 0, otp |-> 0] /\ rotated = FALSE

-----------------------------------------------------------------------------
To(v, l)  == rpc' = [rpc EXCEPT ![v] = l] /\ UNCHANGED visit
Leave(v)  == rpc' = [rpc EXCEPT ![v] = "idle"] /\ visit' = [visit EXCEPT ![v] = NoVisit]
Fails     == failures < MaxFailures /\ failures' = failures + 1
Comes(v)  == rpc[v] = "idle" /\ visits < MaxVisits /\ visits' = visits + 1

(* Mutation: the rows of the user do not limit the unlocks. *)
FewerRows(kind) == IF kind = "unlock" THEN 0 ELSE day.otp

(* The count by user: with the prefix it sees the rows of OTPs only, else all. *)
UserRows(kind) == IF kind = "unlock" THEN day.unlock + day.otp ELSE day.otp

(* checkRecoveryRateLimit.  The limit by IP counts other accounts too, and may *)
(* be reached at any time.                                                     *)
Allowed(kind, byIdentifier) == byIdentifier < IdentifierMax /\ UserRows(kind) < UserMax

(* recordRecoveryAttempt for the identifier. *)
RecordUnlock == day' = [day EXCEPT !.unlock = @ + 1] /\ recent' = recent + 1

(* isDeviceRateLimited *)
DeviceLimited == device.attempts > DeviceMax

(* unlockApp: the limits come before anything is compared; a refusal is recorded. *)
unlockApp(v) ==
    /\ Comes(v)
    /\ \/ /\ Allowed("unlock", recent) /\ ~DeviceLimited
          /\ rpc' = [rpc EXCEPT ![v] = "passcode"]
          /\ visit' = [visit EXCEPT ![v].id = visits + 1]
          /\ UNCHANGED <<day, recent>>
       \/ RecordUnlock /\ UNCHANGED <<rpc, visit>>
    /\ UNCHANGED <<codes, revoked, device, sessions, failures, compared, rotated>>

(* verifyDevice: a trusted device is only seen, another one counts the attempt. *)
SeeDevice == IF device.trusted THEN device
             ELSE [device EXCEPT !.attempts = IF @ > DeviceMax THEN @ ELSE @ + 1]

(* The passcode is compared; a right one has its device seen; the attempt is       *)
(* recorded.  When one of these calls fails the passcode was compared all the same, *)
(* and there is no row of it.                                                       *)
ComparePasscode(v) ==
    /\ rpc[v] = "passcode"
    /\ compared' = [compared EXCEPT !.unlock = @ + 1]
    /\ \/ device' = SeeDevice /\ RecordUnlock /\ To(v, "send") /\ UNCHANGED failures
       \/ RecordUnlock /\ Leave(v) /\ UNCHANGED <<device, failures>>
       \/ Fails /\ device' \in {device, SeeDevice} /\ Leave(v) /\ UNCHANGED <<day, recent>>
    /\ UNCHANGED <<codes, revoked, sessions, visits, rotated>>

(* The OTP row, if it can be made; without its publication there is no token for it. *)
SendOtp(v) ==
    /\ rpc[v] = "send"
    /\ \/ codes' = Append(codes, [open |-> TRUE, token |-> TRUE, tries |-> 0]) /\ UNCHANGED failures
       \/ codes' = Append(codes, [open |-> TRUE, token |-> FALSE, tries |-> 0]) /\ Fails
       \/ Fails /\ UNCHANGED codes
    /\ Leave(v)
    /\ UNCHANGED <<day, recent, revoked, device, sessions, visits, compared, rotated>>

-----------------------------------------------------------------------------
(* verifyRecoveryOtp: the token is looked up, not consumed (a failing Redis lets *)
(* it pass), then its OTP row is found open.  If it is not, or the lookup fails,  *)
(* the token is revoked.                                                         *)
verifyRecoveryOtp(v) ==
    \E x \in DOMAIN codes :
        /\ codes[x].token /\ Comes(v)
        /\ \/ x \notin revoked /\ UNCHANGED failures
           \/ x \in revoked /\ Fails
        /\ IF codes[x].open
           THEN /\ rpc' = [rpc EXCEPT ![v] = "limit"]
                /\ visit' = [visit EXCEPT ![v] = [NoVisit EXCEPT !.id = visits + 1, !.code = x]]
                /\ UNCHANGED revoked
           ELSE revoked' = revoked \cup {x} /\ UNCHANGED <<rpc, visit>>
        /\ UNCHANGED <<day, recent, codes, device, sessions, compared, rotated>>

FindCodeFails(v) ==
    \E x \in {y \in DOMAIN codes : codes[y].token} \ revoked :
        /\ Comes(v) /\ Fails /\ revoked' = revoked \cup {x}
        /\ UNCHANGED <<day, recent, codes, rpc, visit, device, sessions, compared, rotated>>

Burn(x) == codes' = [codes EXCEPT ![x].open = FALSE] /\ revoked' = revoked \cup {x}

(* The limit on OTP attempts.  Over it, or when the store fails, the token is gone. *)
CheckLimit(v) ==
    /\ rpc[v] = "limit"
    /\ LET x == visit[v].code
       IN \/ /\ Allowed("otp", codes[x].tries)
             /\ rpc' = [rpc EXCEPT ![v] = "code"]
             /\ visit' = [visit EXCEPT ![v].locks = codes[x].tries + 1 >= IdentifierMax]
             /\ UNCHANGED <<codes, revoked, failures>>
          \/ Burn(x) /\ Leave(v) /\ UNCHANGED failures
          \/ Fails /\ revoked' = revoked \cup {x} /\ Leave(v) /\ UNCHANGED codes
    /\ UNCHANGED <<day, recent, device, sessions, visits, compared, rotated>>

(* The code is compared and the attempt recorded; an attempt that cannot be     *)
(* recorded revokes the token.  A wrong code closes the OTP on the last try, a  *)
(* right one always.                                                            *)
CompareCode(v) ==
    /\ rpc[v] = "code"
    /\ compared' = [compared EXCEPT !.otp = @ + 1]
    /\ LET x == visit[v].code
           Tried == [codes EXCEPT ![x].tries = @ + 1]
       IN \/ /\ day' = [day EXCEPT !.otp = @ + 1]
             /\ \/ To(v, "rotate") /\ codes' = [Tried EXCEPT ![x].open = FALSE]
                   /\ revoked' = revoked \cup {x}
                \/ visit[v].locks /\ codes' = [Tried EXCEPT ![x].open = FALSE]
                   /\ revoked' = revoked \cup {x} /\ Leave(v)
                \/ ~visit[v].locks /\ codes' = Tried /\ UNCHANGED revoked /\ Leave(v)
             /\ UNCHANGED failures
          \/ /\ Fails /\ revoked' = revoked \cup {x} /\ Leave(v)
             /\ UNCHANGED <<codes, day>>
    /\ UNCHANGED <<recent, device, sessions, visits, rotated>>

(* Mutation: the new key is there before the old ones are revoked. *)
RotatesLast(v) ==
    /\ rpc[v] \in {"rotate", "hand"}
    /\ IF rpc[v] = "rotate"
       THEN sessions' = sessions \cup {visit[v].id} /\ To(v, "hand") /\ UNCHANGED rotated
       ELSE sessions' = {} /\ rotated' = TRUE /\ Leave(v)
    /\ UNCHANGED <<limitVars, device, visits, failures, compared>>

(* rotateUserSessions revokes every key; its failure is swallowed. *)
RotateUserSessions(v) ==
    /\ rpc[v] = "rotate"
    /\ \/ sessions' = {} /\ UNCHANGED failures
       \/ Fails /\ UNCHANGED sessions
    /\ rotated' = TRUE
    /\ To(v, "hand")
    /\ UNCHANGED <<limitVars, device, visits, compared>>

(* generateApiKey, and the device is trusted if the client asked for it. *)
HandOver(v) ==
    /\ rpc[v] = "hand"
    /\ \/ /\ sessions' = sessions \cup {visit[v].id} /\ UNCHANGED failures
          /\ device' \in {device, [SeeDevice EXCEPT !.trusted = TRUE]}
       \/ Fails /\ UNCHANGED <<sessions, device>>
    /\ Leave(v)
    /\ UNCHANGED <<limitVars, visits, compared, rotated>>

-----------------------------------------------------------------------------
(* A quarter of an hour passes; a day passes. *)
QuarterPasses ==
    /\ recent > 0 \/ \E x \in DOMAIN codes : codes[x].tries > 0
    /\ recent' = 0 /\ codes' = [x \in DOMAIN codes |-> [codes[x] EXCEPT !.tries = 0]]
    /\ UNCHANGED <<day, revoked, device, sessions, rpc, visit, visits, failures, compared, rotated>>

DayPasses ==
    /\ \A v \in Visit : rpc[v] = "idle"
    /\ day.unlock + day.otp > 0
    /\ day' = [unlock |-> 0, otp |-> 0] /\ compared' = [unlock |-> 0, otp |-> 0] /\ recent' = 0
    /\ codes' = [x \in DOMAIN codes |-> [open |-> FALSE, token |-> FALSE, tries |-> 0]]
    /\ revoked' = {} /\ device' = [device EXCEPT !.attempts = 0]
    /\ UNCHANGED <<sessions, rpc, visit, visits, failures, rotated>>

RecoveryNext ==
    \/ \E v \in Visit :
          \/ unlockApp(v) \/ ComparePasscode(v) \/ SendOtp(v) \/ verifyRecoveryOtp(v) \/ FindCodeFails(v)
          \/ CheckLimit(v) \/ CompareCode(v) \/ RotateUserSessions(v) \/ HandOver(v)
    \/ QuarterPasses \/ DayPasses

RecoverySpec == RecoveryInit /\ [][RecoveryNext]_recoveryVars

-----------------------------------------------------------------------------
(* In a day at most UserMax passcodes are compared and UserMax codes, one more  *)
(* for each further request that ran at the same time, over any number of       *)
(* tokens and however the shorter window turns, and one more for each call that *)
(* failed: an attempt whose record was not written is compared and not counted. *)
AttemptsBounded ==
    LET bound == UserMax + Cardinality(Visit) - 1
    IN compared.unlock <= bound + failures /\ compared.otp <= bound + failures

(* Once recoveries have come to rest the account has a key from one of them and *)
(* none from before, also when two recoveries overlapped, unless a call failed. *)
SessionsHandedOver ==
    rotated /\ failures = 0 /\ (\A v \in Visit : rpc[v] = "idle") =>
        sessions # {} /\ 0 \notin sessions

(* Guesses stay bounded and sessions are handed over, in rows of the schema's types.  *)
RecoverySound == RecoveryTypeOK /\ AttemptsBounded /\ SessionsHandedOver
=============================================================================
