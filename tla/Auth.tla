------------------------------- MODULE Auth -------------------------------
(***************************************************************************)
(* One account of services/auth/authService.ts: sign-in with lockout,      *)
(* challenge tokens on the deny-list of utils/jtiDenyList.ts, API keys,    *)
(* privileged keys, refresh tokens and account deletion.  A request runs   *)
(* on an instance of the service and stops at each await that others can   *)
(* see.  Secrets are left out: the client's passcode or code is right or   *)
(* wrong.  authBruteGuard never restricts anybody (nothing calls its       *)
(* recordFailure), and a captcha only refuses a request.                   *)
(***************************************************************************)
EXTENDS Naturals, Sequences, FiniteSets

CONSTANTS
    Client,        \* requests that may run at the same time
    Instance,      \* processes of the service, each with its own deny-list
    MaxAttempts,   \* config.maxSigninAttempts
    MaxCalls,      \* bound: requests in a behaviour
    MaxOutages     \* bound: calls to Redis or the database that fail

ASSUME AuthAssumption ==
    /\ MaxAttempts \in Nat \ {0} /\ MaxCalls \in Nat /\ MaxOutages \in Nat

VARIABLES
    user,      \* [method, passcode, failed, locked]: the fields of the user row
    otps,      \* OtpChallenge rows, oldest first: "open" or "used"
    chals,     \* challenge tokens, in the order signed: "valid", in the "grace" of
               \* jwtClockToleranceSeconds, or "expired"
    denied,    \* tokens on the deny-list in Redis
    local,     \* localDenyList of each instance
    keys,      \* ApiKey rows: [type, live]
    tokens,    \* refresh tokens, each its own family: "live" or "revoked"
    apc, call, \* where each request is, and what it works on
    calls, outages,
    \* what happened, for the properties
    guesses,   \* wrong passcodes and codes of sign-in, in a row: since a success or the
               \* end of a lockout
    overlap,   \* two attempts held a copy of the counter at once
    codesTried,\* codes that were compared for each challenge token
    uses,      \* keys that each refresh token was exchanged for
    clouded    \* challenge tokens that met a failing Redis or were taken in their grace /
               \* refresh tokens exchanged at once

rowVars  == <<user, otps, keys, tokens>>
listVars == <<chals, denied, local>>
pastVars == <<guesses, overlap, codesTried, uses, clouded>>
authVars == <<rowVars, listVars, apc, call, calls, outages, pastVars>>

Methods == {"none", "totp", "otp"}
NoCall  == [op |-> "none", on |-> 0, failed |-> 0, method |-> "none", at |-> 0]

AuthTypeOK ==
    /\ user \in [method : Methods, passcode : BOOLEAN, failed : 0..MaxAttempts, locked : BOOLEAN]
    /\ otps \in Seq({"open", "used"}) /\ chals \in Seq({"valid", "grace", "expired"})
    /\ denied \subseteq DOMAIN chals
    /\ local \in [Instance -> SUBSET DOMAIN chals]
    /\ keys \in Seq([type : {"USER_KEY", "ADMIN_KEY", "BREAK_GLASS_KEY"}, live : BOOLEAN])
    /\ tokens \in Seq({"live", "revoked"}) /\ Len(uses) = Len(tokens) /\ Len(codesTried) = Len(chals)
    /\ calls \in 0..MaxCalls /\ outages \in 0..MaxOutages
    /\ \A c \in Client : apc[c] = "idle" => call[c] = NoCall

(* An account that has signed up; one with a second factor has a challenge out. *)
AuthInit ==
    /\ \E m \in Methods :
          /\ user = [method |-> m, passcode |-> TRUE, failed |-> 0, locked |-> FALSE]
          /\ otps  = IF m = "otp" THEN <<"open">> ELSE <<>>
          /\ chals = IF m = "none" THEN <<>> ELSE <<"valid">>
          /\ codesTried = IF m = "none" THEN <<>> ELSE <<0>>
    /\ denied = {} /\ local = [i \in Instance |-> {}]
    /\ keys = <<[type |-> "USER_KEY", live |-> TRUE]>>
    /\ tokens = <<"live">> /\ uses = <<0>>
    /\ apc = [c \in Client |-> "idle"] /\ call = [c \in Client |-> NoCall]
    /\ calls = 0 /\ outages = 0
    /\ guesses = 0 /\ overlap = FALSE /\ clouded = {}

-----------------------------------------------------------------------------
Goto(c, l) == apc' = [apc EXCEPT ![c] = l] /\ UNCHANGED call
Finish(c)  == apc' = [apc EXCEPT ![c] = "idle"] /\ call' = [call EXCEPT ![c] = NoCall]

Starts(c, op, work, l) ==
    /\ apc[c] = "idle" /\ calls < MaxCalls
    /\ calls' = calls + 1
    /\ apc' = [apc EXCEPT ![c] = l]
    /\ call' = [call EXCEPT ![c] = [work EXCEPT !.op = op]]
    /\ UNCHANGED outages

Down == outages < MaxOutages /\ outages' = outages + 1

(* The process dies, or a call fails that would only have moved the request on. *)
Abandon(c) ==
    /\ apc[c] # "idle" /\ Down /\ Finish(c)
    /\ UNCHANGED <<rowVars, listVars, calls, pastVars>>

(* validateApiKey finds the key by its lookup part, not revoked and not expired; *)
(* deletedAt and isDisabled, which it also asks for, are never written.          *)
Accepts(k) == k \in DOMAIN keys /\ keys[k].live

(* generateApiKey *)
generateApiKey(type) == keys' = Append(keys, [type |-> type, live |-> TRUE])

(* issueRefreshToken: a token in a family of its own. *)
issueRefreshToken == tokens' = Append(tokens, "live") /\ uses' = Append(uses, 0)

signChallengeToken == chals' = Append(chals, "valid") /\ codesTried' = Append(codesTried, 0)

-----------------------------------------------------------------------------
(* Both attempts on the account read the counter first and write it after the    *)
(* passcode or the code was compared.                                            *)
Overlaps(c) == overlap \/ \E d \in Client \ {c} : apc[d] = "compare"

(* Deletion takes every identifier from the user, with the passcode. *)
resolveUserByIdentifier == user.passcode

(* signin: an unknown user, the lockout and a missing passcode end it before *)
(* anything is written.                                                      *)
signin(c) ==
    /\ resolveUserByIdentifier /\ ~user.locked
    /\ Starts(c, "signin", [NoCall EXCEPT !.failed = user.failed, !.method = user.method], "compare")
    /\ overlap' = Overlaps(c)
    /\ UNCHANGED <<rowVars, listVars, guesses, codesTried, uses, clouded>>

(* Mutation: the account is locked one failure late. *)
LocksLate(snapshot) == snapshot >= MaxAttempts

(* isLockout, from the counter as it was read. *)
isLockout(snapshot) == snapshot + 1 >= MaxAttempts

(* A wrong passcode, and handleFailure of verify2fa; the update of the row may fail. *)
Wrong(c) ==
    /\ apc[c] = "compare"
    /\ \/ /\ user' = [user EXCEPT !.failed = IF call[c].failed + 1 < MaxAttempts THEN call[c].failed + 1
                                             ELSE MaxAttempts,
                                  !.locked = isLockout(call[c].failed)]
          /\ UNCHANGED outages
       \/ Down /\ UNCHANGED user
    /\ guesses' = guesses + 1
    /\ Finish(c)
    /\ UNCHANGED <<otps, keys, tokens, listVars, calls, overlap, codesTried, uses, clouded>>

(* Success resets the counter and the lock. *)
Right(c) ==
    /\ apc[c] = "compare"
    /\ user' = [user EXCEPT !.failed = 0, !.locked = FALSE]
    /\ guesses' = 0
    /\ Goto(c, IF call[c].op = "signin" /\ call[c].method # "none" THEN "challenge" ELSE "key")
    /\ UNCHANGED <<otps, keys, tokens, listVars, calls, outages, overlap, codesTried, uses, clouded>>

(* The second factor is asked for: an OTP row for the address the user has left  *)
(* (a deleted one has none), its publication, and the token.  Sign-in goes on    *)
(* when the publication fails, requestAdminMfaChallenge does not.                *)
SendChallenge(c) ==
    /\ apc[c] = "challenge"
    /\ IF call[c].method = "otp" /\ ~user.passcode
       THEN UNCHANGED <<otps, chals, codesTried>>
       ELSE /\ otps' = IF call[c].method = "otp" THEN Append(otps, "open") ELSE otps
            /\ \/ signChallengeToken
               \/ call[c].op = "mfa" /\ call[c].method = "otp" /\ UNCHANGED <<chals, codesTried>>
    /\ Finish(c)
    /\ UNCHANGED <<user, keys, tokens, denied, local, calls, outages, guesses, overlap, uses, clouded>>

(* The key, and the refresh token a client may ask for with it. *)
IssueKey(c) ==
    /\ apc[c] = "key"
    /\ generateApiKey(CASE call[c].op = "admin" -> "ADMIN_KEY"
                        [] call[c].op = "break" -> "BREAK_GLASS_KEY"
                        [] OTHER -> "USER_KEY")
    /\ IF call[c].op \in {"signin", "verify"}
       THEN Goto(c, "refresh") \/ Finish(c)
       ELSE IF call[c].op = "exchange" THEN Goto(c, "refresh") ELSE Finish(c)
    /\ UNCHANGED <<user, otps, tokens, listVars, calls, outages, pastVars>>

IssueRefresh(c) ==
    /\ apc[c] = "refresh"
    /\ issueRefreshToken
    /\ Finish(c)
    /\ UNCHANGED <<user, otps, keys, listVars, calls, outages, guesses, overlap, codesTried, clouded>>

-----------------------------------------------------------------------------
(* verifyChallengeToken: signature, expiry and purpose, and the list of the        *)
(* process, which consumeJti asks first, ...                                      *)
verifyChallengeToken(x, i) == chals[x] # "expired" /\ x \notin local[i]

Presents(c, op) ==
    \E x \in DOMAIN chals, i \in Instance :
        /\ verifyChallengeToken(x, i)
        /\ Starts(c, op, [NoCall EXCEPT !.on = x, !.at = i], "claim")
        /\ UNCHANGED <<rowVars, listVars, pastVars>>

(* A challenge token is presented to end a sign-in, or, with a key of an         *)
(* administrator, for one of the two privileged keys.                            *)
verify2fa(c)          == Presents(c, "verify")
issueAdminKey(c)      == (\E k \in DOMAIN keys : Accepts(k)) /\ Presents(c, "admin")
issueBreakGlassKey(c) == (\E k \in DOMAIN keys : Accepts(k)) /\ Presents(c, "break")

(* Mutation: the local list is all that is asked. *)
LocalOnly(x) == TRUE

(* The answer of SET NX. *)
SetNx(x) == x \notin denied

(* ... then Redis.  A call that fails or times out, applied or not, counts as won. *)
Claim(c) ==
    /\ apc[c] = "claim"
    /\ LET x == call[c].on
           Won == local' = [local EXCEPT ![call[c].at] = @ \cup {x}] /\ Goto(c, "factor")
       IN \/ /\ SetNx(x) /\ denied' = denied \cup {x} /\ Won
             /\ clouded' = IF chals[x] = "valid" THEN clouded ELSE clouded \cup {<<"challenge", x>>}
             /\ UNCHANGED outages
          \/ ~SetNx(x) /\ Finish(c) /\ UNCHANGED <<denied, local, outages, clouded>>
          \/ /\ Down
             /\ clouded' = clouded \cup {<<"challenge", x>>}
             /\ denied' \in {denied, denied \cup {x}}
             /\ Won
    /\ UNCHANGED <<rowVars, chals, calls, guesses, overlap, codesTried, uses>>

NewestOpen == {o \in DOMAIN otps : otps[o] = "open"
                   /\ \A p \in DOMAIN otps : p > o => otps[p] # "open"}

(* A code is about to be compared on the strength of a challenge token. *)
Tries(c) == codesTried' = [codesTried EXCEPT ![call[c].on] = @ + 1]

(* verify2fa reads the user; there must be a method, no lockout and an open OTP. *)
FindForVerify(c) ==
    /\ apc[c] = "factor" /\ call[c].op = "verify"
    /\ IF user.method = "none" \/ user.locked \/ (user.method = "otp" /\ NewestOpen = {})
       THEN Finish(c) /\ UNCHANGED <<overlap, codesTried>>
       ELSE /\ call' = [call EXCEPT ![c].failed = user.failed, ![c].method = user.method]
            /\ apc' = [apc EXCEPT ![c] = "compare"]
            /\ overlap' = Overlaps(c)
            /\ Tries(c)
    /\ UNCHANGED <<rowVars, listVars, calls, outages, guesses, uses, clouded>>

(* verifyMfaChallengeForUser: a wrong code is neither counted nor does it lock the *)
(* account, which is not asked to be unlocked either; with a right one the OTP is  *)
(* marked used.                                                                    *)
VerifyMfaChallengeForUser(c) ==
    /\ apc[c] = "factor" /\ call[c].op \in {"admin", "break"}
    /\ IF user.method = "none" \/ (user.method = "otp" /\ NewestOpen = {})
       THEN Finish(c) /\ UNCHANGED <<otps, codesTried>>
       ELSE /\ Tries(c)
            /\ \/ /\ otps' = [o \in DOMAIN otps |-> IF user.method = "otp" /\ o \in NewestOpen
                                                    THEN "used" ELSE otps[o]]
                  /\ Goto(c, "key")
               \/ Finish(c) /\ UNCHANGED otps
    /\ UNCHANGED <<user, keys, tokens, listVars, calls, outages, guesses, overlap, uses, clouded>>

(* requestAdminMfaChallenge, for a key of an administrator with a method. *)
requestAdminMfaChallenge(c) ==
    /\ \E k \in DOMAIN keys : Accepts(k)
    /\ user.method # "none"
    /\ Starts(c, "mfa", [NoCall EXCEPT !.method = user.method], "challenge")
    /\ UNCHANGED <<rowVars, listVars, pastVars>>

-----------------------------------------------------------------------------
Revokes(k) ==
    /\ calls < MaxCalls /\ calls' = calls + 1
    /\ keys' = [keys EXCEPT ![k].live = FALSE]
    /\ UNCHANGED <<user, otps, tokens, listVars, apc, call, outages, pastVars>>

(* Sign-out revokes the key it is called with, an administrator a privileged one. *)
postSignout         == \E k \in DOMAIN keys : Accepts(k) /\ Revokes(k)
revokePrivilegedKey == \E k, l \in DOMAIN keys :
                          Accepts(k) /\ keys[l].live /\ keys[l].type # "USER_KEY" /\ Revokes(l)

Exchanging(t) == {d \in Client : call[d].op = "exchange" /\ call[d].on = t /\ apc[d] # "idle"}

(* A live token is found ... *)
FindToken(c, op) ==
    \E t \in DOMAIN tokens :
        /\ tokens[t] = "live"
        /\ Starts(c, op, [NoCall EXCEPT !.on = t], "family")
        /\ clouded' = IF op = "exchange" /\ Exchanging(t) # {}
                      THEN clouded \cup {<<"token", t>>} ELSE clouded
        /\ UNCHANGED <<rowVars, listVars, guesses, overlap, codesTried, uses>>

(* Mutation: the family stays live when its token is exchanged. *)
KeepsFamily(t) == tokens

(* The updateMany over the family. *)
RevokedFamily(t) == [tokens EXCEPT ![t] = "revoked"]

refreshAccessToken(c) == FindToken(c, "exchange")
revokeRefreshToken(c) == FindToken(c, "revoke")

(* ... and its family revoked, whatever has become of it. *)
RevokeFamily(c) ==
    /\ apc[c] = "family"
    /\ tokens' = RevokedFamily(call[c].on)
    /\ IF call[c].op = "exchange"
       THEN uses' = [uses EXCEPT ![call[c].on] = @ + 1] /\ Goto(c, "key")
       ELSE Finish(c) /\ UNCHANGED uses
    /\ UNCHANGED <<user, otps, keys, listVars, calls, outages, guesses, overlap, codesTried, clouded>>

(* tombstoneDeleteUser, one transaction; refresh tokens are left alone. *)
tombstoneDeleteUser ==
    /\ calls < MaxCalls /\ calls' = calls + 1
    /\ \E k \in DOMAIN keys : Accepts(k)
    /\ user' = [user EXCEPT !.method = "none", !.passcode = FALSE]
    /\ otps' = <<>>
    /\ keys' = [k \in DOMAIN keys |-> [keys[k] EXCEPT !.live = FALSE]]
    /\ UNCHANGED <<tokens, listVars, apc, call, outages, pastVars>>

(* lockoutUntil passes; a challenge token or a break-glass key expires. *)
LockoutEnds ==
    /\ user.locked
    /\ user' = [user EXCEPT !.locked = FALSE] /\ guesses' = 0
    /\ UNCHANGED <<otps, keys, tokens, listVars, apc, call, calls, outages, overlap, codesTried, uses, clouded>>

(* The deny-lists keep a token until its exp, verifyJwt takes it a little longer. *)
TokenExpires(x) ==
    /\ chals[x] # "expired"
    /\ chals' = [chals EXCEPT ![x] = IF @ = "valid" THEN "grace" ELSE "expired"]
    /\ denied' = denied \ {x} /\ local' = [i \in Instance |-> local[i] \ {x}]
    /\ UNCHANGED <<rowVars, apc, call, calls, outages, pastVars>>

KeyExpires(k) ==
    /\ keys[k].live /\ keys[k].type = "BREAK_GLASS_KEY"
    /\ keys' = [keys EXCEPT ![k].live = FALSE]
    /\ UNCHANGED <<user, otps, tokens, listVars, apc, call, calls, outages, pastVars>>

AuthNext ==
    \/ \E c \in Client :
          \/ signin(c) \/ Wrong(c) \/ Right(c) \/ SendChallenge(c)
          \/ IssueKey(c) \/ IssueRefresh(c) \/ Claim(c)
          \/ verify2fa(c) \/ issueAdminKey(c) \/ issueBreakGlassKey(c)
          \/ FindForVerify(c) \/ VerifyMfaChallengeForUser(c) \/ requestAdminMfaChallenge(c)
          \/ Abandon(c)
          \/ refreshAccessToken(c) \/ revokeRefreshToken(c) \/ RevokeFamily(c)
    \/ postSignout \/ revokePrivilegedKey \/ tombstoneDeleteUser \/ LockoutEnds
    \/ \E x \in DOMAIN chals : TokenExpires(x)
    \/ \E k \in DOMAIN keys : KeyExpires(k)

AuthSpec == AuthInit /\ [][AuthNext]_authVars

-----------------------------------------------------------------------------
(* In a row, sign-in compares at most MaxAttempts wrong passcodes and codes      *)
(* together, and one more for each failed call, as long as no two attempts work  *)
(* on one reading of the counter.  The row ends with the lockout, and with every *)
(* right passcode: it resets the counter, so that wrong codes of the second      *)
(* factor have no bound over several sign-ins.                                   *)
GuessesBounded == ~overlap => guesses <= MaxAttempts + outages

(* A credential that is good for one use is used once.  jtiDenyList.ts: "exactly *)
(* one instance can claim a given JTI": within its lifetime a challenge token is *)
(* good for the comparison of one code, right or wrong, over all instances and   *)
(* all that it can be presented for, unless a call to Redis about it failed.     *)
(* Nothing else limits the codes of verifyMfaChallengeForUser, which has no      *)
(* counter.  And a refresh token buys one key, after any rotations, revocations  *)
(* and account deletions, unless two exchanges found it live at the same time.   *)
CredentialsOnce ==
    /\ \A x \in DOMAIN chals : <<"challenge", x>> \notin clouded => codesTried[x] <= 1
    /\ \A t \in DOMAIN tokens : <<"token", t>> \notin clouded => uses[t] <= 1

(* Guesses stay bounded and credentials are used once, in rows of the schema's types. *)
AuthSound == AuthTypeOK /\ GuessesBounded /\ CredentialsOnce
=============================================================================
