----------------------------- MODULE Directory -----------------------------
(***************************************************************************)
(* Who users are to each other: the profile, contacts, guardians and       *)
(* deletion of controllers/userController.ts and userService.ts, and the   *)
(* resolution of an alias to a recipient for a payment.  Handlers await    *)
(* between what they read and what they write; requests that were let in   *)
(* before an account is deleted still run after it.  A username, email and *)
(* phone are each unique and each looked up alone: one alias stands for    *)
(* them.  Nothing ever sets emailVerifiedAt or phoneVerifiedAt, so their   *)
(* reset is left out.                                                      *)
(***************************************************************************)
EXTENDS Naturals

CONSTANTS
    Person,     \* users
    NoPerson,
    Ask,        \* requests that may run at the same time
    Alias, NoAlias,
    Mail,       \* an email or phone that names a guardian, who may also be a user
    MaxAsks     \* bound: requests in all

ASSUME DirectoryAssumption == NoPerson \notin Person /\ NoAlias \notin Alias /\ Mail \notin Person /\ MaxAsks \in Nat

VARIABLES
    alias,      \* User.username, email or phoneE164
    hides,      \* User.privacyHideFromSearch
    code,       \* User.passcodeHash: 0 is none
    gone,       \* the users whose account was deleted
    contacts,   \* UserContact: <<owner, contact>>
    guardians,  \* Guardian: how many rows of a user name these handles
    dpc, ask, asks,  \* where each request is, what it carries, requests so far
    \* what happened, for the properties
    met,        \* of a request: whom it could have found, which codes were current, all along
    found,      \* a request was answered with a user who had hidden from its caller all along
    guessed,    \* a passcode was replaced by who never knew a current one
    torn, raced \* deleted with requests of the user in flight; guardians added at once

directoryVars == <<alias, hides, code, gone, contacts, guardians, dpc, ask, asks,
                   met, found, guessed, torn, raced>>
ghostVars == <<found, guessed, torn, raced>>

Named   == {{p} : p \in Person} \cup {{p, Mail} : p \in Person} \cup {{Mail}}  \* of a guardian
NoAsk   == [op |-> "find", who |-> NoPerson, alias |-> NoAlias, hide |-> FALSE, proof |-> 0,
            whom |-> NoPerson, names |-> {}]
NoOne   == [people |-> {}, codes |-> {}]

DirectoryTypeOK ==
    /\ alias \in [Person -> Alias \cup {NoAlias}] /\ hides \in [Person -> BOOLEAN]
    /\ code \in [Person -> Nat] /\ gone \subseteq Person /\ contacts \subseteq Person \X Person
    /\ guardians \in [Person -> [Named -> Nat]]
    /\ \A p, q \in Person : p # q /\ alias[p] = alias[q] => alias[p] = NoAlias  \* unique indexes
    /\ \A r \in Ask : dpc[r] = "idle" => ask[r] = NoAsk

DirectoryInit ==
    /\ \E a \in Alias : alias \in [Person -> {a, NoAlias}]
    /\ \A p, q \in Person : p # q /\ alias[p] = alias[q] => alias[p] = NoAlias
    /\ hides = [p \in Person |-> TRUE] /\ code = [p \in Person |-> 0] /\ gone = {}
    /\ contacts = {} /\ guardians = [p \in Person |-> [n \in Named |-> 0]]
    /\ dpc = [r \in Ask |-> "idle"] /\ ask = [r \in Ask |-> NoAsk] /\ asks = 0
    /\ met = [r \in Ask |-> NoOne] /\ found = FALSE /\ guessed = FALSE /\ torn = {} /\ raced = {}

Begun(r, l, k) == dpc' = [dpc EXCEPT ![r] = l] /\ ask' = [ask EXCEPT ![r] = k]
Step(r, l)  == dpc' = [dpc EXCEPT ![r] = l] /\ UNCHANGED ask
Answered(r) == dpc' = [dpc EXCEPT ![r] = "idle"] /\ ask' = [ask EXCEPT ![r] = NoAsk]
profileVars == <<alias, hides, code>>
linkVars    == <<contacts, guardians>>

(* Of request r: the users who show themselves to its caller, and its passcode. *)
Shown(p, r) == ~hides[p] \/ p = ask[r].who \/ <<p, ask[r].who>> \in contacts
Shows(r)    == {p \in Person : Shown(p, r)}
Current(r)  == {code[p] : p \in Person \cap {ask[r].who}}

-----------------------------------------------------------------------------
(* validateApiKey lets a request of a user in, unless the account is deleted.  A *)
(* patch carries one field: a name (or none), the privacy flag, or a passcode    *)
(* with the current one (0: not given).                                          *)
LetIn(r) ==
    /\ dpc[r] = "idle" /\ asks < MaxAsks /\ asks' = asks + 1
    /\ \E w \in Person \ gone :
       \/ \E op \in {"find", "pay"}, a \in Alias :
             Begun(r, "lookup", [NoAsk EXCEPT !.op = op, !.who = w, !.alias = a])
       \/ \E op \in {"rename", "hide", "passcode"}, a \in Alias \cup {NoAlias}, h \in BOOLEAN, g \in 0..1 :
             /\ op # "rename" => a = NoAlias
             /\ op # "hide" => ~h
             /\ op # "passcode" => g = 0
             /\ Begun(r, "read", [NoAsk EXCEPT !.op = op, !.who = w, !.alias = a, !.hide = h, !.proof = g])
       \/ \E op \in {"link", "unlink"}, p \in Person \ {w} :  \* self is refused
             Begun(r, IF op = "link" THEN "write" ELSE "read", [NoAsk EXCEPT !.op = op, !.who = w, !.whom = p])
       \/ \E op \in {"guard", "unguard"}, n \in Named :
             Begun(r, "read", [NoAsk EXCEPT !.op = op, !.who = w, !.names = n])
       \/ Begun(r, "write", [NoAsk EXCEPT !.op = "leave", !.who = w])
    /\ UNCHANGED <<profileVars, gone, linkVars, ghostVars>>

-----------------------------------------------------------------------------
(* Mutation: the current passcode is not asked for. *)
AnyProof(r) == TRUE

(* A passcode that is set must be presented: bcrypt.compare with the hash read. *)
Proven(r) == code[ask[r].who] = 0 \/ ask[r].proof = code[ask[r].who]

(* patchMe reads the user; bcrypt and the update follow. *)
patchMe(r) ==
    /\ dpc[r] = "read" /\ ask[r].op \in {"rename", "hide", "passcode"}
    /\ IF ask[r].op = "passcode" /\ ~Proven(r) THEN Answered(r) ELSE Step(r, "write")
    /\ UNCHANGED <<profileVars, gone, linkVars, asks, ghostVars>>

(* ... by id, with the fields of the body; another user's alias is an error. *)
UpdateUser(r) ==
    /\ dpc[r] = "write" /\ ask[r].op \in {"rename", "hide", "passcode"}
    /\ LET w == ask[r].who
       IN CASE ask[r].op = "rename" ->
                 /\ alias' = IF \E p \in Person \ {w} : alias[p] = ask[r].alias /\ alias[p] # NoAlias
                             THEN alias ELSE [alias EXCEPT ![w] = ask[r].alias]
                 /\ UNCHANGED <<hides, code, guessed>>
            [] ask[r].op = "hide" ->
                 /\ hides' = [hides EXCEPT ![w] = ask[r].hide] /\ UNCHANGED <<alias, code, guessed>>
            [] OTHER ->
                 /\ \E c \in 1..2 : code' = [code EXCEPT ![w] = c]
                 /\ guessed' = (guessed \/ ({0, ask[r].proof} \cap met[r].codes = {}))
                 /\ UNCHANGED <<alias, hides>>
    /\ Answered(r)
    /\ UNCHANGED <<gone, linkVars, asks, found, torn, raced>>

(* postContacts: an upsert. *)
postContacts(r) ==
    /\ dpc[r] = "write" /\ ask[r].op = "link"
    /\ contacts' = contacts \cup {<<ask[r].who, ask[r].whom>>}
    /\ Answered(r)
    /\ UNCHANGED <<profileVars, gone, guardians, asks, ghostVars>>

(* deleteContact, deleteGuardian: the caller's row is looked for, ... *)
FindOwnRow(r) ==
    /\ dpc[r] = "read" /\ ask[r].op \in {"unlink", "unguard"}
    /\ IF \/ ask[r].op = "unlink" /\ <<ask[r].who, ask[r].whom>> \in contacts
          \/ ask[r].op = "unguard" /\ guardians[ask[r].who][ask[r].names] > 0
       THEN Step(r, "delete") ELSE Answered(r)
    /\ UNCHANGED <<profileVars, gone, linkVars, asks, ghostVars>>

(* ... then deleted by its id; a row that has gone meanwhile is an error. *)
DeleteOwnRow(r) ==
    /\ dpc[r] = "delete"
    /\ IF ask[r].op = "unlink"
       THEN contacts' = contacts \ {<<ask[r].who, ask[r].whom>>} /\ UNCHANGED guardians
       ELSE /\ guardians' = [guardians EXCEPT ![ask[r].who][ask[r].names] = IF @ = 0 THEN 0 ELSE @ - 1]
            /\ UNCHANGED contacts
    /\ Answered(r)
    /\ UNCHANGED <<profileVars, gone, asks, ghostVars>>

(* Mutation: only a row with all the same handles is a duplicate. *)
SameNames(w, names) == guardians[w][names] > 0

(* The findFirst of postGuardians: a row that shares a handle. *)
Existing(w, names) == \E n \in Named : n \cap names # {} /\ guardians[w][n] > 0

postGuardians(r) ==
    /\ dpc[r] = "read" /\ ask[r].op = "guard"
    /\ IF Existing(ask[r].who, ask[r].names) THEN Answered(r) ELSE Step(r, "write")
    /\ UNCHANGED <<profileVars, gone, linkVars, asks, ghostVars>>

(* No index keeps guardians apart: two adds at once both create. *)
CreateGuardian(r) ==
    /\ dpc[r] = "write" /\ ask[r].op = "guard"
    /\ guardians' = [guardians EXCEPT ![ask[r].who][ask[r].names] = @ + 1]
    /\ raced' = raced \cup
          {ask[r].who : s \in {s \in Ask \ {r} : dpc[s] = "write" /\ ask[s].op = "guard"
                                                 /\ ask[s].who = ask[r].who}}
    /\ Answered(r)
    /\ UNCHANGED <<profileVars, gone, contacts, asks, found, guessed, torn>>

-----------------------------------------------------------------------------
(* Mutation: the deleted user's own contacts are kept. *)
KeepsContacts(w) == {c \in contacts : c[2] # w}

(* userContact.deleteMany, both ways. *)
Unlinked(w) == {c \in contacts : c[1] # w /\ c[2] # w}

(* deleteMe and deleteAccount: one transaction takes the user's rows and leaves *)
(* a hidden tombstone, whose name nobody knows.                                 *)
TombstoneUser(r) ==
    /\ dpc[r] = "write" /\ ask[r].op = "leave"
    /\ LET w == ask[r].who
       IN /\ alias' = [alias EXCEPT ![w] = NoAlias] /\ hides' = [hides EXCEPT ![w] = TRUE]
          /\ code' = [code EXCEPT ![w] = 0] /\ gone' = gone \cup {w}
          /\ contacts' = Unlinked(w)
          /\ guardians' = [p \in Person |->
                              [n \in Named |-> IF p = w \/ w \in n THEN 0 ELSE guardians[p][n]]]
          /\ torn' = IF \E s \in Ask \ {r} : ask[s].who = w THEN torn \cup {w} ELSE torn
    /\ Answered(r)
    /\ UNCHANGED <<asks, found, guessed, raced>>

-----------------------------------------------------------------------------
Found(r, p) == found' = (found \/ p \notin met[r].people)

(* resolveRecipient finds the user by the alias; one who hides, and is not the *)
(* caller, is looked for a second time, ...                                    *)
resolveRecipient(r) ==
    /\ dpc[r] = "lookup"
    /\ \/ /\ \A p \in Person : alias[p] # ask[r].alias
          /\ Answered(r) /\ UNCHANGED found
       \/ \E p \in Person :
             /\ alias[p] = ask[r].alias
             /\ IF hides[p] /\ p # ask[r].who
                THEN /\ dpc' = [dpc EXCEPT ![r] = "contact"] /\ UNCHANGED found
                     /\ ask' = [ask EXCEPT ![r].whom = p]
                ELSE /\ Found(r, p)
                     /\ IF ask[r].op = "find" THEN Answered(r)
                        ELSE dpc' = [dpc EXCEPT ![r] = "address"] /\ ask' = [ask EXCEPT ![r].whom = p]
    /\ UNCHANGED <<profileVars, gone, linkVars, asks, guessed, torn, raced>>

(* Mutation: the contact is looked for among the caller's. *)
AmongCallers(p, w) == <<w, p>> \in contacts

(* ... among the contacts of the user who hides. *)
IsContact(p, w) == <<p, w>> \in contacts

CheckContact(r) ==
    /\ dpc[r] = "contact"
    /\ IF IsContact(ask[r].whom, ask[r].who)
       THEN /\ Found(r, ask[r].whom)
            /\ IF ask[r].op = "find" THEN Answered(r) ELSE Step(r, "address")
       ELSE Answered(r) /\ UNCHANGED found
    /\ UNCHANGED <<profileVars, gone, linkVars, asks, guessed, torn, raced>>

(* resolveRecipientAddress: the address, read once more by id; a deleted user has *)
(* none, and the transfer ends.                                                   *)
resolveRecipientAddress(r) ==
    /\ dpc[r] = "address"
    /\ Answered(r)
    /\ found' = (found \/ (ask[r].whom \notin gone /\ ask[r].whom \notin met[r].people))
    /\ UNCHANGED <<profileVars, gone, linkVars, asks, guessed, torn, raced>>

DirectoryNext ==
    /\ \E r \in Ask :
          \/ LetIn(r) \/ patchMe(r) \/ UpdateUser(r) \/ postContacts(r) \/ FindOwnRow(r) \/ DeleteOwnRow(r)
          \/ postGuardians(r) \/ CreateGuardian(r) \/ TombstoneUser(r)
          \/ resolveRecipient(r) \/ CheckContact(r) \/ resolveRecipientAddress(r)
    /\ met' = [r \in Ask |-> IF dpc'[r] = "idle" THEN NoOne
                             ELSE [people |-> met[r].people \cup Shows(r)',
                                   codes  |-> met[r].codes \cup Current(r)']]

DirectorySpec == DirectoryInit /\ [][DirectoryNext]_directoryVars

-----------------------------------------------------------------------------
(* A caller is never told of, and never pays by alias, a user who was hidden  *)
(* from them during all of the request, whatever was renamed, shown, hidden,  *)
(* linked or deleted meanwhile; and nobody replaces a passcode without having *)
(* presented one that was current during the request.                         *)
FoundIsShown == ~found /\ ~guessed

(* What a deleted account owned stays away unless a request of that user was  *)
(* under way at the deletion; guardians of a user share no handle unless they *)
(* were added at once.                                                        *)
ErasedStays ==
    /\ DirectoryTypeOK
    /\ \A p \in gone \ torn :
          /\ alias[p] = NoAlias /\ hides[p] /\ code[p] = 0
          /\ \A c \in contacts : c[1] # p
          /\ \A n \in Named : guardians[p][n] = 0
    /\ \A p \in Person \ raced, n, o \in Named :
          /\ guardians[p][n] <= 1
          /\ n # o /\ guardians[p][n] > 0 /\ guardians[p][o] > 0 => n \cap o = {}

(* Nobody is found who is hidden, and what was erased stays away.             *)
DirectorySound == FoundIsShown /\ ErasedStays
=============================================================================
