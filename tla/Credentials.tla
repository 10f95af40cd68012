---------------------------- MODULE Credentials ----------------------------
(***************************************************************************)
(* The accounts one e-mail address has had, and what makes, verifies,      *)
(* opens and removes them: registration, the one-time code, sign-in with   *)
(* Google, passwords, removal by an administrator.                         *)
(*                                                                         *)
(* Handlers run in slots and overlap; every awaited call on shared state   *)
(* is a step.  Passwords and reset tokens are numbered in the order in     *)
(* which they are made; of a code only the latest is ever stored, and a    *)
(* guess is right or wrong.  The three commands of the pipeline that       *)
(* stores a code are one step.                                             *)
(***************************************************************************)
EXTENDS Integers, FiniteSets

CONSTANTS
    Slots,          \* handlers that overlap
    Accounts,       \* bound: accounts of the address over time
    AttemptLimit,   \* wrong guesses a code admits
    MaxPasswords,   \* bound: passwords chosen
    MaxTokens,      \* bound: reset tokens mailed
    MaxGuesses,     \* bound: wrong guesses compared with one code
    MaxFaults,      \* bound: handlers that die
    None

ASSUME SizeAssumption ==
    /\ IsFiniteSet(Slots) /\ IsFiniteSet(Accounts)
    /\ AttemptLimit \in Nat \ {0} /\ MaxPasswords \in Nat
    /\ MaxTokens \in Nat /\ MaxGuesses \in Nat /\ MaxFaults \in Nat
ASSUME NoneAssumption == None \notin Accounts \cup Nat

VARIABLES
    account,    \* per account: its document
    otp,        \* whether a code is stored, its attempts, the cooldown of a new one
    tokens,     \* the reset tokens in the cache
    handler,    \* per slot: where its handler is
    made,       \* bound: passwords and tokens made so far
    guesses,    \* history: the wrong guesses compared with the code mailed last
    raced,      \* history: accounts activated while a handler held them as unverified
    faults      \* bound: handlers that died

vars == <<account, otp, tokens, handler, made, guesses, raced, faults>>
history == <<guesses, raced>>

-----------------------------------------------------------------------------
Missing == [state |-> "none", active |-> FALSE, password |-> None,
            google |-> FALSE, expires |-> FALSE]

Idle == [pc |-> "idle", acc |-> None, value |-> 0]

Stored(a) == account[a].state \in {"live", "removed"}
Live(a) == account[a].state = "live"
Active(a) == Live(a) /\ account[a].active
LiveAccounts == {a \in Accounts : Live(a)}

\* The account findUserByEmail returns; the index admits one.
Found == IF LiveAccounts = {} THEN None ELSE CHOOSE a \in LiveAccounts : TRUE

At(s, pc) == handler[s].pc = pc
Goes(s, pc, acc, value) ==
    handler' = [handler EXCEPT ![s] = [pc |-> pc, acc |-> acc, value |-> value]]
Ends(s) == handler' = [handler EXCEPT ![s] = Idle]

\* An update by id changes a document that is still stored, removed or not.
Updates(a, d) == account' = IF Stored(a) THEN [account EXCEPT ![a] = d] ELSE account

\* Mutant: the indexes are not unique.
InsertsAnyway(a, d) ==
    /\ account[a].state = "none"
    /\ account' = [account EXCEPT ![a] = d]

\* An insert that keeps the address and the Google account unique.
Inserts(a, d) ==
    /\ account[a].state = "none"
    /\ LiveAccounts = {}
    /\ d.google => \A b \in Accounts : Stored(b) => ~account[b].google
    /\ account' = [account EXCEPT ![a] = d]

Fresh(field, max) ==
    /\ made[field] < max
    /\ made' = [made EXCEPT ![field] = @ + 1]

-----------------------------------------------------------------------------
(***************************************************************************)
(* Registration.                                                           *)
(***************************************************************************)
\* Mutant: an active account is taken for one to register again.
RegisterOverActive(s) ==
    /\ At(s, "idle")
    /\ Fresh("password", MaxPasswords)
    /\ Goes(s, "register", Found, made'.password)
    /\ UNCHANGED <<account, otp, tokens, history, faults>>

\* An active account refuses; an unverified one is registered again.
Register(s) ==
    /\ At(s, "idle")
    /\ Fresh("password", MaxPasswords)
    /\ IF Found # None /\ Active(Found)
       THEN Ends(s)
       ELSE Goes(s, "register", Found, made'.password)
    /\ UNCHANGED <<account, otp, tokens, history, faults>>

\* The unverified account gets the new password and more time, whatever has
\* become of it.
RegisterAgain(s) ==
    LET a == handler[s].acc IN
    /\ At(s, "register") /\ a # None
    /\ Updates(a, [account[a] EXCEPT !.password = handler[s].value, !.expires = TRUE])
    /\ IF Stored(a) THEN Goes(s, "send", None, 0) ELSE Ends(s)
    /\ UNCHANGED <<otp, tokens, made, history, faults>>

RegisterNew(s) ==
    /\ At(s, "register") /\ handler[s].acc = None
    /\ \/ /\ \E a \in Accounts :
                Inserts(a, [Missing EXCEPT !.state = "live", !.expires = TRUE,
                                           !.password = handler[s].value])
          /\ Goes(s, "send", None, 0)
       \/ /\ LiveAccounts # {}
          /\ Ends(s)
          /\ UNCHANGED account
    /\ UNCHANGED <<otp, tokens, made, history, faults>>

\* An unverified account is dropped when its time is over.
Purge(a) ==
    /\ Stored(a) /\ ~account[a].active /\ account[a].expires
    /\ account' = [account EXCEPT ![a] = [Missing EXCEPT !.state = "purged"]]
    /\ UNCHANGED <<otp, tokens, handler, made, history, faults>>

-----------------------------------------------------------------------------
(***************************************************************************)
(* The one-time code.                                                      *)
(***************************************************************************)
\* The code, no attempts, and the cooldown unless one is running.
SendVerificationCode(s) ==
    /\ At(s, "send")
    /\ otp' = [code |-> TRUE, attempts |-> 0, cooldown |-> TRUE]
    /\ guesses' = 0
    /\ Ends(s)
    /\ UNCHANGED <<account, tokens, made, raced, faults>>

ResendCode(s) ==
    /\ At(s, "idle") /\ ~otp.cooldown
    /\ Goes(s, "resend", None, 0)
    /\ UNCHANGED <<account, otp, tokens, made, history, faults>>

ResendFind(s) ==
    /\ At(s, "resend")
    /\ IF Found # None /\ ~Active(Found) THEN Goes(s, "send", None, 0) ELSE Ends(s)
    /\ UNCHANGED <<account, otp, tokens, made, history, faults>>

VerifyEmail(s) ==
    /\ At(s, "idle")
    /\ otp.attempts < AttemptLimit
    /\ Goes(s, "compare", None, 0)
    /\ UNCHANGED <<account, otp, tokens, made, history, faults>>

VerifyCompare(s) ==
    /\ At(s, "compare")
    /\ \/ /\ ~otp.code
          /\ Ends(s)
          /\ UNCHANGED guesses
       \/ /\ otp.code
          /\ Goes(s, "consume", None, 0)
          /\ UNCHANGED guesses
       \/ /\ otp.code
          /\ guesses < MaxGuesses /\ guesses' = guesses + 1
          /\ Goes(s, "count", None, 0)
    /\ UNCHANGED <<account, otp, tokens, made, raced, faults>>

\* Mutant: the attempts are written back as they were read.
VerifyCountOnce(s) ==
    /\ At(s, "count")
    /\ otp' = [otp EXCEPT !.attempts = 1]
    /\ Ends(s)
    /\ UNCHANGED <<account, tokens, made, history, faults>>

VerifyCount(s) ==
    /\ At(s, "count")
    /\ otp' = [otp EXCEPT !.attempts = @ + 1]
    /\ Ends(s)
    /\ UNCHANGED <<account, tokens, made, history, faults>>

VerifyConsume(s) ==
    /\ At(s, "consume")
    /\ otp' = [code |-> FALSE, attempts |-> 0, cooldown |-> FALSE]
    /\ Goes(s, "find", None, 0)
    /\ UNCHANGED <<account, tokens, made, history, faults>>

VerifyFind(s) ==
    /\ At(s, "find")
    /\ IF Found = None THEN Ends(s) ELSE Goes(s, "activate", Found, 0)
    /\ UNCHANGED <<account, otp, tokens, made, history, faults>>

\* Some handler still holds the account as unverified.
Holding(a) == {s \in Slots : handler[s].acc = a /\ handler[s].pc \in {"register", "replace"}}

ActivateUser(s) ==
    LET a == handler[s].acc IN
    /\ At(s, "activate")
    /\ Updates(a, [account[a] EXCEPT !.active = TRUE, !.expires = FALSE])
    /\ raced' = IF Holding(a) # {} THEN raced \cup {a} ELSE raced
    /\ Ends(s)
    /\ UNCHANGED <<otp, tokens, made, guesses, faults>>

\* The lifetime of the code and of its attempts is over.
CodeExpires ==
    /\ otp.code
    /\ otp' = [otp EXCEPT !.code = FALSE, !.attempts = 0]
    /\ UNCHANGED <<account, tokens, handler, made, history, faults>>

CooldownExpires ==
    /\ otp.cooldown
    /\ otp' = [otp EXCEPT !.cooldown = FALSE]
    /\ UNCHANGED <<account, tokens, handler, made, history, faults>>

-----------------------------------------------------------------------------
(***************************************************************************)
(* Sign-in with Google: the account linked to it, else the active account  *)
(* of the address, which is linked, else a new one that replaces an        *)
(* unverified one.                                                         *)
(***************************************************************************)
GoogleLogin(s) ==
    /\ At(s, "idle")
    /\ ~\E a \in LiveAccounts : account[a].google
    /\ Goes(s, "google", None, 0)
    /\ UNCHANGED <<account, otp, tokens, made, history, faults>>

GoogleFindEmail(s) ==
    /\ At(s, "google")
    /\ \/ Found # None /\ Active(Found) /\ Goes(s, "link", Found, 0)
       \/ Found # None /\ ~Active(Found) /\ Goes(s, "replace", Found, 0)
       \/ Found = None /\ Goes(s, "create", None, 0)
    /\ UNCHANGED <<account, otp, tokens, made, history, faults>>

\* Refused when another stored document, removed or not, has the Google account.
LinkGoogleAccount(s) ==
    LET a == handler[s].acc IN
    /\ At(s, "link")
    /\ IF \E b \in Accounts \ {a} : Stored(b) /\ account[b].google
       THEN UNCHANGED account
       ELSE Updates(a, [account[a] EXCEPT !.google = TRUE])
    /\ Ends(s)
    /\ UNCHANGED <<otp, tokens, made, history, faults>>

GoogleReplace(s) ==
    LET a == handler[s].acc IN
    /\ At(s, "replace")
    /\ Updates(a, [account[a] EXCEPT !.state = "removed"])
    /\ Goes(s, "create", None, 0)
    /\ UNCHANGED <<otp, tokens, made, history, faults>>

CreateGoogleUser(s) ==
    LET d == [Missing EXCEPT !.state = "live", !.active = TRUE, !.google = TRUE] IN
    /\ At(s, "create")
    /\ \/ \E a \in Accounts : Inserts(a, d)
       \/ /\ \/ LiveAccounts # {}
             \/ \E b \in Accounts : Stored(b) /\ account[b].google
          /\ UNCHANGED account
    /\ Ends(s)
    /\ UNCHANGED <<otp, tokens, made, history, faults>>

-----------------------------------------------------------------------------
(***************************************************************************)
(* Passwords.                                                              *)
(***************************************************************************)
ForgotPassword(s) ==
    /\ At(s, "idle") /\ Found # None
    /\ Fresh("token", MaxTokens)
    /\ tokens' = tokens \cup {made'.token}
    /\ UNCHANGED <<account, otp, handler, history, faults>>

ResetPassword(s) ==
    /\ At(s, "idle")
    /\ \E t \in tokens : Goes(s, "reset", None, t)
    /\ UNCHANGED <<account, otp, tokens, made, history, faults>>

ResetFind(s) ==
    /\ At(s, "reset")
    /\ IF Found = None THEN Ends(s) ELSE Goes(s, "reset write", Found, handler[s].value)
    /\ UNCHANGED <<account, otp, tokens, made, history, faults>>

ResetWrite(s) ==
    LET a == handler[s].acc IN
    /\ At(s, "reset write")
    /\ Fresh("password", MaxPasswords)
    /\ Updates(a, [account[a] EXCEPT !.password = made'.password])
    /\ Goes(s, "reset drop", None, handler[s].value)
    /\ UNCHANGED <<otp, tokens, history, faults>>

ResetDrop(s) ==
    /\ At(s, "reset drop")
    /\ tokens' = tokens \ {handler[s].value}
    /\ Ends(s)
    /\ UNCHANGED <<account, otp, made, history, faults>>

\* Changing the password needs the old one, setting one needs that there is none.
ChangePassword(s) ==
    /\ At(s, "idle") /\ Found # None /\ Active(Found)
    /\ account[Found].password # None
    /\ Goes(s, "change", Found, 0)
    /\ UNCHANGED <<account, otp, tokens, made, history, faults>>

SetPassword(s) ==
    /\ At(s, "idle") /\ Found # None /\ Active(Found)
    /\ account[Found].password = None
    /\ Goes(s, "change", Found, 0)
    /\ UNCHANGED <<account, otp, tokens, made, history, faults>>

UpdatePassword(s) ==
    LET a == handler[s].acc IN
    /\ At(s, "change")
    /\ Fresh("password", MaxPasswords)
    /\ Updates(a, [account[a] EXCEPT !.password = made'.password])
    /\ Ends(s)
    /\ UNCHANGED <<otp, tokens, history, faults>>

\* A token's lifetime is over, or the process and its cache are gone.
TokenExpires ==
    /\ \E t \in tokens : tokens' = tokens \ {t}
    /\ UNCHANGED <<account, otp, handler, made, history, faults>>

-----------------------------------------------------------------------------
\* An administrator creates an account, which waits for its code without end,
\* or removes the account of the address.
Create(s) ==
    /\ At(s, "idle")
    /\ Fresh("password", MaxPasswords)
    /\ \E a \in Accounts :
          Inserts(a, [Missing EXCEPT !.state = "live", !.password = made'.password])
    /\ UNCHANGED <<otp, tokens, handler, history, faults>>

Remove(s) ==
    /\ At(s, "idle") /\ Found # None
    /\ Updates(Found, [account[Found] EXCEPT !.state = "removed"])
    /\ UNCHANGED <<otp, tokens, handler, made, history, faults>>

Dies(s) ==
    /\ ~At(s, "idle")
    /\ faults < MaxFaults /\ faults' = faults + 1
    /\ Ends(s)
    /\ UNCHANGED <<account, otp, tokens, made, history>>

-----------------------------------------------------------------------------
Init ==
    /\ account = [a \in Accounts |-> Missing]
    /\ otp = [code |-> FALSE, attempts |-> 0, cooldown |-> FALSE]
    /\ tokens = {}
    /\ handler = [s \in Slots |-> Idle]
    /\ made = [password |-> 0, token |-> 0]
    /\ guesses = 0
    /\ raced = {}
    /\ faults = 0

Registration(s) == Register(s) \/ RegisterAgain(s) \/ RegisterNew(s)

Verification(s) ==
    \/ SendVerificationCode(s) \/ ResendCode(s) \/ ResendFind(s)
    \/ VerifyEmail(s) \/ VerifyCompare(s) \/ VerifyCount(s) \/ VerifyConsume(s)
    \/ VerifyFind(s) \/ ActivateUser(s)

Google(s) ==
    \/ GoogleLogin(s) \/ GoogleFindEmail(s) \/ LinkGoogleAccount(s)
    \/ GoogleReplace(s) \/ CreateGoogleUser(s)

Passwords(s) ==
    \/ ForgotPassword(s) \/ ResetPassword(s) \/ ResetFind(s) \/ ResetWrite(s)
    \/ ResetDrop(s) \/ ChangePassword(s) \/ SetPassword(s) \/ UpdatePassword(s)

Next ==
    \/ \E s \in Slots :
          Registration(s) \/ Verification(s) \/ Google(s) \/ Passwords(s)
          \/ Create(s) \/ Remove(s) \/ Dies(s)
    \/ \E a \in Accounts : Purge(a)
    \/ CodeExpires \/ CooldownExpires \/ TokenExpires

Spec == Init /\ [][Next]_vars

-----------------------------------------------------------------------------
Document ==
    [state : {"none", "live", "removed", "purged"}, active : BOOLEAN,
     password : {None} \cup 1 .. MaxPasswords, google : BOOLEAN, expires : BOOLEAN]

Steps == {"idle", "register", "send", "resend", "compare", "count", "consume", "find",
          "activate", "google", "link", "replace", "create", "reset", "reset write",
          "reset drop", "change"}

\* Every variable keeps its type, and no two live accounts share the address.
TypeOK ==
    /\ account \in [Accounts -> Document]
    /\ Cardinality(LiveAccounts) <= 1
    /\ otp \in [code : BOOLEAN, attempts : Nat, cooldown : BOOLEAN]
    /\ tokens \subseteq 1 .. MaxTokens
    /\ handler \in [Slots -> [pc : Steps, acc : Accounts \cup {None}, value : Nat]]
    /\ made \in [password : 0 .. MaxPasswords, token : 0 .. MaxTokens]
    /\ guesses \in 0 .. MaxGuesses
    /\ raced \subseteq Accounts
    /\ faults \in 0 .. MaxFaults

\* A code is compared with no more wrong guesses than its limit, one for every
\* further handler that had read the attempts before the last was counted, and
\* one for a handler that died before it counted its own (verifyEmail reads the
\* attempts, the code, and counts in separate calls).
GuessesBounded ==
    guesses <= AttemptLimit + Cardinality(Slots) - 1 + faults

\* An account that is live and active stays so and keeps its password: only its
\* owner's password changes and an administrator touch it.  The registration
\* and the Google sign-in that go over unverified accounts, and the index that
\* drops them, spare it, unless one of them had found the account unverified
\* when it was activated (AuthCredentialsService.register,
\* AuthGoogleService.googleLogin, the index on verificationExpires).
ActiveIsKept ==
    [][\A a \in Accounts :
          (Active(a) /\ a \notin raced)
              => \/ Active(a)' /\ account'[a].password = account[a].password
                 \/ \E s \in Slots : ResetWrite(s) \/ UpdatePassword(s) \/ Remove(s)]_vars
=============================================================================
