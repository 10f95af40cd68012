------------------------- MODULE CredentialsProofs -------------------------
(***************************************************************************)
(* Theorems about Credentials, for any number of handlers, accounts,       *)
(* passwords, tokens and guesses: its types with the one live account of   *)
(* the address, how many wrong guesses a code takes, and active accounts   *)
(* that are kept.                                                          *)
(***************************************************************************)
EXTENDS Credentials, FiniteSetTheorems, TLAPS

-----------------------------------------------------------------------------
(* What a step does to the accounts and to a handler                       *)

\* Where a handler works on an account it has found.
Owning == {"activate", "link", "replace", "reset write", "change"}

HandlerType == [pc : Steps, acc : Accounts \cup {None}, value : Nat]

Fits(h) ==
    /\ h \in HandlerType
    /\ h.pc \in Owning => h.acc \in Accounts
    /\ h.pc = "register" => h.value \in 1 .. MaxPasswords

\* The types, with the one live account and what the handlers hold.
OneLive == \A a, b \in Accounts : Live(a) /\ Live(b) => a = b

Held ==
    /\ handler \in [Slots -> HandlerType]
    /\ \A s \in Slots :
          /\ Fits(handler[s])
          /\ handler[s].acc # None => account[handler[s].acc].state # "none"

Plain ==
    /\ otp \in [code : BOOLEAN, attempts : Nat, cooldown : BOOLEAN]
    /\ tokens \subseteq 1 .. MaxTokens
    /\ made \in [password : 0 .. MaxPasswords, token : 0 .. MaxTokens]
    /\ guesses \in 0 .. MaxGuesses
    /\ raced \subseteq Accounts
    /\ faults \in 0 .. MaxFaults

Shape == account \in [Accounts -> Document] /\ OneLive /\ Held /\ Plain

\* A stored account is written to, or a new one is made.
Changed(a, d) ==
    /\ Stored(a) /\ d \in Document
    /\ d.state \in {account[a].state, "removed", "purged"}
    /\ account' = [account EXCEPT ![a] = d]

AccountStep ==
    \/ account' = account
    \/ \E a \in Accounts : \E d \in Document :
          \/ account[a].state = "none" /\ LiveAccounts = {} /\ d.state = "live"
             /\ account' = [account EXCEPT ![a] = d]
          \/ Changed(a, d)

\* A handler moves; the account it holds is one it has just found.
Moved(s, h) ==
    /\ Fits(h) /\ (h.acc # None => h.acc \in Accounts /\ Live(h.acc))
    /\ handler' = [handler EXCEPT ![s] = h]

HandlerStep == handler' = handler \/ \E s \in Slots : \E h : Moved(s, h)

LEMMA FoundFacts ==
    IF LiveAccounts = {} THEN Found = None ELSE Found \in Accounts /\ Live(Found)
BY DEF Found, LiveAccounts

LEMMA FoundNone == Found = None <=> LiveAccounts = {}
BY FoundFacts, NoneAssumption

LEMMA GoesMoves ==
    ASSUME NEW s, NEW pc \in Steps, NEW acc, NEW value \in Nat, Goes(s, pc, acc, value),
           acc = None \/ (acc = Found /\ Found # None),
           pc \in Owning => acc # None,
           pc = "register" => value \in 1 .. MaxPasswords
    PROVE  \E h : Moved(s, h)
<1> DEFINE h == [pc |-> pc, acc |-> acc, value |-> value]
<1>1. acc # None => acc \in Accounts /\ Live(acc)
  BY FoundFacts, FoundNone
<1>2. Fits(h)
  BY <1>1 DEF Fits, HandlerType
<1>3. Moved(s, h)
  BY <1>1, <1>2 DEF Moved, Goes
<1>. QED
  BY <1>3

LEMMA EndsMoves ==
    ASSUME NEW s, Ends(s)
    PROVE  \E h : Moved(s, h)
<1>1. Moved(s, Idle)
  BY DEF Ends, Moved, Fits, HandlerType, Idle, Steps, Owning
<1>. QED
  BY <1>1

\* The documents a step writes.
LEMMA DocumentFields ==
    ASSUME NEW d \in Document
    PROVE  /\ \A p \in 1 .. MaxPasswords :
                 /\ [d EXCEPT !.password = p] \in Document
                 /\ [d EXCEPT !.password = p].state = d.state
                 /\ [d EXCEPT !.password = p, !.expires = TRUE] \in Document
                 /\ [d EXCEPT !.password = p, !.expires = TRUE].state = d.state
           /\ [d EXCEPT !.active = TRUE, !.expires = FALSE] \in Document
           /\ [d EXCEPT !.active = TRUE, !.expires = FALSE].state = d.state
           /\ [d EXCEPT !.google = TRUE] \in Document
           /\ [d EXCEPT !.google = TRUE].state = d.state
           /\ [d EXCEPT !.state = "removed"] \in Document
           /\ [d EXCEPT !.state = "removed"].state = "removed"
BY DEF Document

LEMMA MissingFields ==
    /\ Missing \in Document
    /\ [Missing EXCEPT !.state = "purged"] \in Document
    /\ [Missing EXCEPT !.state = "purged"].state = "purged"
    /\ LET d == [Missing EXCEPT !.state = "live", !.active = TRUE, !.google = TRUE] IN
       d \in Document /\ d.state = "live" /\ ~d.expires
    /\ \A p \in 1 .. MaxPasswords :
          LET d == [Missing EXCEPT !.state = "live", !.password = p]
              e == [Missing EXCEPT !.state = "live", !.expires = TRUE, !.password = p]
          IN d \in Document /\ d.state = "live" /\ ~d.active
             /\ e \in Document /\ e.state = "live" /\ ~e.active
BY DEF Missing, Document

\* What is stored about the code.
LEMMA CodeFields ==
    ASSUME otp \in [code : BOOLEAN, attempts : Nat, cooldown : BOOLEAN]
    PROVE  /\ [otp EXCEPT !.attempts = @ + 1]
                 \in [code : BOOLEAN, attempts : Nat, cooldown : BOOLEAN]
           /\ [otp EXCEPT !.attempts = @ + 1].code = otp.code
           /\ [otp EXCEPT !.attempts = @ + 1].attempts = otp.attempts + 1
           /\ [otp EXCEPT !.code = FALSE, !.attempts = 0]
                 \in [code : BOOLEAN, attempts : Nat, cooldown : BOOLEAN]
           /\ [otp EXCEPT !.code = FALSE, !.attempts = 0].code = FALSE
           /\ [otp EXCEPT !.cooldown = FALSE]
                 \in [code : BOOLEAN, attempts : Nat, cooldown : BOOLEAN]
           /\ [otp EXCEPT !.cooldown = FALSE].code = otp.code
           /\ [otp EXCEPT !.cooldown = FALSE].attempts = otp.attempts
<1>1. \A n \in Nat : /\ [otp EXCEPT !.attempts = n]
                             \in [code : BOOLEAN, attempts : Nat, cooldown : BOOLEAN]
                       /\ [otp EXCEPT !.attempts = n].code = otp.code
                       /\ [otp EXCEPT !.attempts = n].attempts = n
  OBVIOUS
<1>2. otp.attempts + 1 \in Nat
  OBVIOUS
<1>3. /\ [otp EXCEPT !.attempts = @ + 1]
            \in [code : BOOLEAN, attempts : Nat, cooldown : BOOLEAN]
      /\ [otp EXCEPT !.attempts = @ + 1].code = otp.code
      /\ [otp EXCEPT !.attempts = @ + 1].attempts = otp.attempts + 1
  BY <1>1, <1>2
<1>4. /\ [otp EXCEPT !.code = FALSE, !.attempts = 0]
            \in [code : BOOLEAN, attempts : Nat, cooldown : BOOLEAN]
      /\ [otp EXCEPT !.code = FALSE, !.attempts = 0].code = FALSE
      /\ [otp EXCEPT !.cooldown = FALSE]
            \in [code : BOOLEAN, attempts : Nat, cooldown : BOOLEAN]
      /\ [otp EXCEPT !.cooldown = FALSE].code = otp.code
      /\ [otp EXCEPT !.cooldown = FALSE].attempts = otp.attempts
  OBVIOUS
<1>. QED
  BY <1>3, <1>4

LEMMA UpdatesAccount ==
    ASSUME NEW a \in Accounts, NEW d \in Document,
           d.state \in {account[a].state, "removed", "purged"}, Updates(a, d)
    PROVE  AccountStep
BY DEF Updates, AccountStep, Changed

LEMMA InsertsAccount ==
    ASSUME NEW a \in Accounts, NEW d \in Document, d.state = "live", Inserts(a, d)
    PROVE  AccountStep
BY DEF Inserts, AccountStep

-----------------------------------------------------------------------------
(* Every step is of this form                                              *)

LEMMA FreshValue ==
    ASSUME Plain, NEW field \in {"password", "token"}, NEW max, Fresh(field, max),
           field = "password" => max = MaxPasswords,
           field = "token" => max = MaxTokens
    PROVE  /\ made' \in [password : 0 .. MaxPasswords, token : 0 .. MaxTokens]
           /\ made'[field] \in 1 .. max
BY SizeAssumption DEF Plain, Fresh

LEMMA HeldFacts ==
    ASSUME Shape, NEW s \in Slots
    PROVE  /\ Fits(handler[s]) /\ handler[s] \in HandlerType
           /\ handler[s].pc \in Owning =>
                 handler[s].acc \in Accounts /\ account[handler[s].acc] \in Document
           /\ handler[s].acc # None =>
                 handler[s].acc \in Accounts /\ account[handler[s].acc] \in Document
           /\ handler[s].value \in Nat
BY DEF Shape, Held, Fits, HandlerType

LEMMA RegistrationStep ==
    ASSUME Shape, NEW s \in Slots, Registration(s)
    PROVE  AccountStep /\ HandlerStep /\ Plain'
<1>. USE DEF At, history
<1>0. Plain
  BY DEF Shape
<1>1. CASE Register(s)
  <2>1. /\ made' \in [password : 0 .. MaxPasswords, token : 0 .. MaxTokens]
        /\ made'.password \in 1 .. MaxPasswords
    BY <1>0, <1>1, FreshValue DEF Register
  <2>2. "register" \in Steps \ Owning
    BY DEF Steps, Owning
  <2>3. \E h : Moved(s, h)
    <3>1. CASE Ends(s)
      BY <3>1, EndsMoves
    <3>2. CASE Goes(s, "register", Found, made'.password)
      BY <2>1, <2>2, <3>2, GoesMoves
    <3>. QED
      BY <1>1, <3>1, <3>2 DEF Register
  <2>4. Plain'
    BY <1>0, <1>1, <2>1 DEF Register, Plain
  <2>. QED
    BY <1>1, <2>3, <2>4 DEF Register, AccountStep, HandlerStep
<1>2. CASE RegisterAgain(s)
  <2> DEFINE a == handler[s].acc
             d == [account[a] EXCEPT !.password = handler[s].value, !.expires = TRUE]
  <2>1. a \in Accounts /\ account[a] \in Document /\ handler[s].value \in 1 .. MaxPasswords
    BY <1>2, HeldFacts DEF RegisterAgain, Fits
  <2>2. d \in Document /\ d.state = account[a].state /\ Updates(a, d)
    BY <1>2, <2>1, DocumentFields DEF RegisterAgain
  <2>3. AccountStep
    <3>. HIDE DEF d
    <3>. QED
      BY <2>1, <2>2, UpdatesAccount
  <2>4. \E h : Moved(s, h)
    <3>1. "send" \in Steps \ Owning
      BY DEF Steps, Owning
    <3>2. Goes(s, "send", None, 0) \/ Ends(s)
      BY <1>2 DEF RegisterAgain
    <3>. QED
      BY <3>1, <3>2, GoesMoves, EndsMoves
  <2>5. Plain'
    BY <1>0, <1>2 DEF RegisterAgain, Plain
  <2>. QED
    BY <2>3, <2>4, <2>5 DEF HandlerStep
<1>3. CASE RegisterNew(s)
  <2>1. handler[s].value \in 1 .. MaxPasswords
    BY <1>3, HeldFacts DEF RegisterNew, Fits
  <2>2. AccountStep
    <3> DEFINE d == [Missing EXCEPT !.state = "live", !.expires = TRUE,
                                    !.password = handler[s].value]
    <3>1. d \in Document /\ d.state = "live"
      BY <2>1, MissingFields
    <3>2. account' = account \/ \E a \in Accounts : Inserts(a, d)
      BY <1>3 DEF RegisterNew
    <3>. HIDE DEF d
    <3>. QED
      BY <3>1, <3>2, InsertsAccount DEF AccountStep
  <2>3. \E h : Moved(s, h)
    <3>1. "send" \in Steps \ Owning
      BY DEF Steps, Owning
    <3>2. Goes(s, "send", None, 0) \/ Ends(s)
      BY <1>3 DEF RegisterNew
    <3>. QED
      BY <3>1, <3>2, GoesMoves, EndsMoves
  <2>4. Plain'
    BY <1>0, <1>3 DEF RegisterNew, Plain
  <2>. QED
    BY <2>2, <2>3, <2>4 DEF HandlerStep
<1>. QED
  BY <1>1, <1>2, <1>3 DEF Registration

LEMMA VerificationStep ==
    ASSUME Shape, NEW s \in Slots, Verification(s)
    PROVE  AccountStep /\ HandlerStep /\ Plain'
<1>. USE DEF At, history
<1>0. Plain
  BY DEF Shape
<1>p. {"send", "resend", "compare", "consume", "count", "find"} \subseteq Steps \ (Owning \cup {"register"})
      /\ "activate" \in Steps
  BY DEF Steps, Owning
<1>1. CASE ActivateUser(s)
  <2> DEFINE a == handler[s].acc
             d == [account[a] EXCEPT !.active = TRUE, !.expires = FALSE]
  <2>1. a \in Accounts /\ account[a] \in Document
    BY <1>1, HeldFacts DEF ActivateUser, Owning
  <2>2. d \in Document /\ d.state = account[a].state /\ Updates(a, d)
    BY <1>1, <2>1, DocumentFields DEF ActivateUser
  <2>3. AccountStep
    <3>. HIDE DEF d
    <3>. QED
      BY <2>1, <2>2, UpdatesAccount
  <2>4. \E h : Moved(s, h)
    BY <1>1, EndsMoves DEF ActivateUser
  <2>5. Plain'
    BY <1>0, <1>1, <2>1 DEF ActivateUser, Plain
  <2>. QED
    BY <2>3, <2>4, <2>5 DEF HandlerStep
<1>2. CASE ~ActivateUser(s)
  <2>1. AccountStep
    BY <1>2 DEF Verification, SendVerificationCode, ResendCode, ResendFind, VerifyEmail,
       VerifyCompare, VerifyCount, VerifyConsume, VerifyFind, AccountStep
  <2>2. \E h : Moved(s, h)
    <3>1. \/ Ends(s)
          \/ \E pc \in {"send", "resend", "compare", "consume", "count", "find"} :
                Goes(s, pc, None, 0)
          \/ Found # None /\ Goes(s, "activate", Found, 0)
      BY <1>2 DEF Verification, SendVerificationCode, ResendCode, ResendFind, VerifyEmail,
         VerifyCompare, VerifyCount, VerifyConsume, VerifyFind
    <3>2. CASE Ends(s)
      BY <3>2, EndsMoves
    <3>3. ASSUME NEW pc \in {"send", "resend", "compare", "consume", "count", "find"},
                 Goes(s, pc, None, 0)
          PROVE  \E h : Moved(s, h)
      BY <1>p, <3>3, GoesMoves
    <3>4. CASE Found # None /\ Goes(s, "activate", Found, 0)
      BY <1>p, <3>4, GoesMoves
    <3>. QED
      BY <3>1, <3>2, <3>3, <3>4
  <2>3. Plain'
    <3>. USE DEF Plain
    <3>1. CASE SendVerificationCode(s)
      BY <1>0, <3>1, SizeAssumption DEF SendVerificationCode
    <3>2. CASE VerifyCompare(s)
      BY <1>0, <3>2, SizeAssumption DEF VerifyCompare
    <3>3. CASE VerifyCount(s) \/ VerifyConsume(s)
      <4>1. otp' \in [code : BOOLEAN, attempts : Nat, cooldown : BOOLEAN]
        <5>1. CASE VerifyCount(s)
          BY <1>0, <5>1, CodeFields DEF VerifyCount
        <5>2. CASE VerifyConsume(s)
          BY <5>2 DEF VerifyConsume
        <5>. QED
          BY <3>3, <5>1, <5>2
      <4>. QED
        BY <1>0, <3>3, <4>1 DEF VerifyCount, VerifyConsume
    <3>4. CASE ResendCode(s) \/ ResendFind(s) \/ VerifyEmail(s) \/ VerifyFind(s)
      BY <1>0, <3>4 DEF ResendCode, ResendFind, VerifyEmail, VerifyFind
    <3>. QED
      BY <1>2, <3>1, <3>2, <3>3, <3>4 DEF Verification
  <2>. QED
    BY <2>1, <2>2, <2>3 DEF HandlerStep
<1>. QED
  BY <1>1, <1>2

LEMMA GoogleStep ==
    ASSUME Shape, NEW s \in Slots, Google(s)
    PROVE  AccountStep /\ HandlerStep /\ Plain'
<1>. USE DEF At, history
<1>0. Plain
  BY DEF Shape
<1>1. Plain'
  BY <1>0 DEF Google, GoogleLogin, GoogleFindEmail, LinkGoogleAccount, GoogleReplace,
     CreateGoogleUser, Plain
<1>2. \E h : Moved(s, h)
  <2>1. \/ Ends(s)
        \/ \E pc \in {"google", "create"} : Goes(s, pc, None, 0)
        \/ Found # None /\ \E pc \in {"link", "replace"} : Goes(s, pc, Found, 0)
    BY DEF Google, GoogleLogin, GoogleFindEmail, LinkGoogleAccount, GoogleReplace,
           CreateGoogleUser
  <2>2. {"google", "create"} \subseteq Steps \ (Owning \cup {"register"})
        /\ {"link", "replace"} \subseteq Steps \ {"register"}
    BY DEF Steps, Owning
  <2>3. ASSUME NEW pc \in {"google", "create"}, Goes(s, pc, None, 0)
        PROVE  \E h : Moved(s, h)
    BY <2>2, <2>3, GoesMoves
  <2>4. ASSUME Found # None, NEW pc \in {"link", "replace"}, Goes(s, pc, Found, 0)
        PROVE  \E h : Moved(s, h)
    BY <2>2, <2>4, GoesMoves
  <2>. QED
    BY <2>1, <2>3, <2>4, EndsMoves
<1>3. AccountStep
  <2>1. CASE GoogleLogin(s) \/ GoogleFindEmail(s)
    BY <2>1 DEF GoogleLogin, GoogleFindEmail, AccountStep
  <2>2. CASE LinkGoogleAccount(s)
    <3> DEFINE a == handler[s].acc
               d == [account[a] EXCEPT !.google = TRUE]
    <3>1. a \in Accounts /\ account[a] \in Document
      BY <2>2, HeldFacts DEF LinkGoogleAccount, Owning
    <3>2. d \in Document /\ d.state = account[a].state /\ (account' = account \/ Updates(a, d))
      BY <2>2, <3>1, DocumentFields DEF LinkGoogleAccount
    <3>. HIDE DEF d
    <3>. QED
      BY <3>1, <3>2, UpdatesAccount DEF AccountStep
  <2>3. CASE GoogleReplace(s)
    <3> DEFINE a == handler[s].acc
               d == [account[a] EXCEPT !.state = "removed"]
    <3>1. a \in Accounts /\ account[a] \in Document
      BY <2>3, HeldFacts DEF GoogleReplace, Owning
    <3>2. d \in Document /\ d.state = "removed" /\ Updates(a, d)
      BY <2>3, <3>1, DocumentFields DEF GoogleReplace
    <3>. HIDE DEF d
    <3>. QED
      BY <3>1, <3>2, UpdatesAccount
  <2>4. CASE CreateGoogleUser(s)
    <3> DEFINE d == [Missing EXCEPT !.state = "live", !.active = TRUE, !.google = TRUE]
    <3>1. d \in Document /\ d.state = "live"
      BY MissingFields
    <3>2. account' = account \/ \E a \in Accounts : Inserts(a, d)
      BY <2>4 DEF CreateGoogleUser
    <3>. HIDE DEF d
    <3>. QED
      BY <3>1, <3>2, InsertsAccount DEF AccountStep
  <2>. QED
    BY <2>1, <2>2, <2>3, <2>4 DEF Google
<1>. QED
  BY <1>1, <1>2, <1>3 DEF HandlerStep

LEMMA PasswordStep ==
    ASSUME Shape, NEW s \in Slots, Passwords(s)
    PROVE  AccountStep /\ HandlerStep /\ Plain'
<1>. USE DEF At, history
<1>0. Plain
  BY DEF Shape
<1>p. {"reset", "reset drop"} \subseteq Steps \ (Owning \cup {"register"})
      /\ {"reset write", "change"} \subseteq Steps \ {"register"}
  BY DEF Steps, Owning
<1>1. CASE ForgotPassword(s)
  <2>1. /\ made' \in [password : 0 .. MaxPasswords, token : 0 .. MaxTokens]
        /\ made'.token \in 1 .. MaxTokens
    BY <1>0, <1>1, FreshValue DEF ForgotPassword
  <2>. QED
    BY <1>0, <1>1, <2>1 DEF ForgotPassword, Plain, AccountStep, HandlerStep
<1>2. CASE ResetPassword(s) \/ ResetFind(s) \/ ChangePassword(s) \/ SetPassword(s) \/ ResetDrop(s)
  <2>1. AccountStep /\ Plain'
    BY <1>0, <1>2 DEF ResetPassword, ResetFind, ChangePassword, SetPassword, ResetDrop,
                      AccountStep, Plain
  <2>2. \/ Ends(s)
        \/ \E t \in tokens : Goes(s, "reset", None, t)
        \/ Found # None /\ Goes(s, "reset write", Found, handler[s].value)
        \/ Found # None /\ Goes(s, "change", Found, 0)
    BY <1>2 DEF ResetPassword, ResetFind, ChangePassword, SetPassword, ResetDrop
  <2>3. ASSUME NEW t \in tokens, Goes(s, "reset", None, t)
        PROVE  \E h : Moved(s, h)
    <3>1. t \in Nat
      BY <1>0 DEF Plain
    <3>. QED
      BY <1>p, <2>3, <3>1, GoesMoves
  <2>4. ASSUME Found # None, Goes(s, "reset write", Found, handler[s].value)
        PROVE  \E h : Moved(s, h)
    <3>1. handler[s].value \in Nat
      BY HeldFacts
    <3>2. ASSUME NEW v \in Nat, Goes(s, "reset write", Found, v)
          PROVE  \E h : Moved(s, h)
      BY <1>p, <2>4, <3>2, GoesMoves
    <3>. QED
      BY <2>4, <3>1, <3>2
  <2>5. ASSUME Found # None, Goes(s, "change", Found, 0)
        PROVE  \E h : Moved(s, h)
    BY <1>p, <2>5, GoesMoves
  <2>. QED
    BY <2>1, <2>2, <2>3, <2>4, <2>5, EndsMoves DEF HandlerStep
<1>3. CASE ResetWrite(s) \/ UpdatePassword(s)
  <2> DEFINE a == handler[s].acc
             d == [account[a] EXCEPT !.password = made'.password]
  <2>1. a \in Accounts /\ account[a] \in Document
    BY <1>3, HeldFacts DEF ResetWrite, UpdatePassword, Owning
  <2>2. /\ made' \in [password : 0 .. MaxPasswords, token : 0 .. MaxTokens]
        /\ made'.password \in 1 .. MaxPasswords
    BY <1>0, <1>3, FreshValue DEF ResetWrite, UpdatePassword
  <2>3. d \in Document /\ d.state = account[a].state /\ Updates(a, d)
    BY <1>3, <2>1, <2>2, DocumentFields DEF ResetWrite, UpdatePassword
  <2>4. AccountStep
    <3>. HIDE DEF d
    <3>. QED
      BY <2>1, <2>3, UpdatesAccount
  <2>5. \E h : Moved(s, h)
    <3>1. Ends(s) \/ Goes(s, "reset drop", None, handler[s].value)
      BY <1>3 DEF ResetWrite, UpdatePassword
    <3>. QED
      BY <1>p, <3>1, GoesMoves, EndsMoves, HeldFacts
  <2>6. Plain'
    BY <1>0, <1>3, <2>2 DEF ResetWrite, UpdatePassword, Plain
  <2>. QED
    BY <2>4, <2>5, <2>6 DEF HandlerStep
<1>. QED
  BY <1>1, <1>2, <1>3 DEF Passwords

\* Administrators, deaths and what expires.
Outside ==
    \/ \E s \in Slots : Create(s) \/ Remove(s) \/ Dies(s)
    \/ \E a \in Accounts : Purge(a)
    \/ CodeExpires \/ CooldownExpires \/ TokenExpires

LEMMA OutsideStep ==
    ASSUME Shape, Outside
    PROVE  AccountStep /\ HandlerStep /\ Plain'
<1>. USE DEF At, history
<1>0. Plain /\ account \in [Accounts -> Document]
  BY DEF Shape
<1>1. ASSUME NEW s \in Slots, Create(s)
      PROVE  AccountStep /\ HandlerStep /\ Plain'
  <2> DEFINE d == [Missing EXCEPT !.state = "live", !.password = made'.password]
  <2>1. /\ made' \in [password : 0 .. MaxPasswords, token : 0 .. MaxTokens]
        /\ made'.password \in 1 .. MaxPasswords
    BY <1>0, <1>1, FreshValue DEF Create
  <2>2. d \in Document /\ d.state = "live"
    BY <2>1, MissingFields
  <2>3. \E a \in Accounts : Inserts(a, d)
    BY <1>1 DEF Create
  <2>4. AccountStep
    <3>. HIDE DEF d
    <3>. QED
      BY <2>2, <2>3, InsertsAccount
  <2>. QED
    BY <1>0, <1>1, <2>1, <2>4 DEF Create, Plain, HandlerStep
<1>2. ASSUME NEW s \in Slots, Remove(s)
      PROVE  AccountStep /\ HandlerStep /\ Plain'
  <2> DEFINE d == [account[Found] EXCEPT !.state = "removed"]
  <2>1. Found \in Accounts /\ account[Found] \in Document
    BY <1>0, <1>2, FoundFacts, FoundNone DEF Remove
  <2>2. d \in Document /\ d.state = "removed" /\ Updates(Found, d)
    BY <1>2, <2>1, DocumentFields DEF Remove
  <2>3. AccountStep
    <3>. HIDE DEF d
    <3>. QED
      BY <2>1, <2>2, UpdatesAccount
  <2>. QED
    BY <1>0, <1>2, <2>3 DEF Remove, Plain, HandlerStep
<1>3. ASSUME NEW s \in Slots, Dies(s)
      PROVE  AccountStep /\ HandlerStep /\ Plain'
  <2>1. AccountStep /\ Plain'
    BY <1>0, <1>3, SizeAssumption DEF Dies, Plain, AccountStep
  <2>. QED
    BY <1>3, <2>1, EndsMoves DEF Dies, HandlerStep
<1>4. ASSUME NEW a \in Accounts, Purge(a)
      PROVE  AccountStep /\ HandlerStep /\ Plain'
  <2>1. Changed(a, [Missing EXCEPT !.state = "purged"])
    BY <1>4, MissingFields DEF Purge, Changed
  <2>2. Plain' /\ HandlerStep
    BY <1>0, <1>4 DEF Purge, Plain, HandlerStep
  <2>. QED
    BY <2>1, <2>2, MissingFields DEF AccountStep
<1>5. CASE CodeExpires \/ CooldownExpires \/ TokenExpires
  <2>1. otp' \in [code : BOOLEAN, attempts : Nat, cooldown : BOOLEAN]
    BY <1>0, <1>5, CodeFields DEF CodeExpires, CooldownExpires, TokenExpires, Plain
  <2>2. Plain'
    BY <1>0, <1>5, <2>1 DEF CodeExpires, CooldownExpires, TokenExpires, Plain
  <2>. QED
    BY <1>5, <2>2 DEF CodeExpires, CooldownExpires, TokenExpires, HandlerStep, AccountStep
<1>. QED
  BY <1>1, <1>2, <1>3, <1>4, <1>5 DEF Outside

LEMMA NextSteps ==
    ASSUME Shape, Next
    PROVE  AccountStep /\ HandlerStep /\ Plain'
<1>1. Outside \/ \E s \in Slots : Registration(s) \/ Verification(s) \/ Google(s) \/ Passwords(s)
  BY DEF Next, Outside
<1>. QED
  BY <1>1, RegistrationStep, VerificationStep, GoogleStep, PasswordStep, OutsideStep

-----------------------------------------------------------------------------
(* The types                                                               *)

LEMMA ShapeStep ==
    ASSUME Shape, [Next]_vars
    PROVE  Shape'
<1>0. account \in [Accounts -> Document] /\ OneLive /\ Held /\ Plain
  BY DEF Shape
<1>1. CASE UNCHANGED vars
  BY <1>1 DEF vars, Shape, OneLive, Held, Plain, Live
<1>2. CASE Next
  <2>1. AccountStep /\ HandlerStep /\ Plain'
    BY <1>2, NextSteps
  <2>2. account' \in [Accounts -> Document]
    BY <1>0, <2>1 DEF AccountStep, Changed
  <2>3. OneLive'
    <3>1. CASE account' = account
      BY <1>0, <3>1 DEF OneLive, Live
    <3>2. ASSUME NEW a \in Accounts, NEW d \in Document, LiveAccounts = {},
                 account' = [account EXCEPT ![a] = d]
          PROVE  OneLive'
      BY <1>0, <3>2 DEF OneLive, Live, LiveAccounts
    <3>3. ASSUME NEW a \in Accounts, NEW d \in Document, Changed(a, d)
          PROVE  OneLive'
      BY <1>0, <3>3 DEF OneLive, Live, Changed
    <3>. QED
      BY <2>1, <3>1, <3>2, <3>3 DEF AccountStep
  <2>4. \A a \in Accounts : account[a].state # "none" => account'[a].state # "none"
    BY <1>0, <2>1 DEF AccountStep, Changed, Stored
  <2>5. Held'
    <3>. USE DEF Held, Fits, HandlerType
    <3>1. CASE handler' = handler
      BY <1>0, <2>4, <3>1
    <3>2. ASSUME NEW s \in Slots, NEW h, Moved(s, h)
          PROVE  Held'
      BY <1>0, <2>4, <3>2 DEF Moved, Live
    <3>. QED
      BY <2>1, <3>1, <3>2 DEF HandlerStep
  <2>. QED
    BY <2>1, <2>2, <2>3, <2>5 DEF Shape
<1>. QED
  BY <1>1, <1>2

LEMMA ShapeInvariant == Spec => []Shape
<1>1. Init => Shape
  <2>. SUFFICES ASSUME Init PROVE Shape
    OBVIOUS
  <2>1. account \in [Accounts -> Document] /\ \A a \in Accounts : account[a] = Missing
    BY MissingFields DEF Init
  <2>2. OneLive
    BY <2>1 DEF OneLive, Live, Missing
  <2>3. Held
    BY DEF Init, Held, Fits, HandlerType, Idle, Steps, Owning
  <2>4. Plain
    BY SizeAssumption DEF Init, Plain
  <2>. QED
    BY <2>1, <2>2, <2>3, <2>4 DEF Shape
<1>. QED
  BY <1>1, ShapeStep, PTL DEF Spec

\* Every variable keeps its type, and however registrations, sign-ins with
\* Google, removals and the index on unverified accounts overlap, the address
\* has one live account.
THEOREM CredentialsTyped == Spec => []TypeOK
<1>1. Shape => TypeOK
  <2>. SUFFICES ASSUME Shape PROVE TypeOK
    OBVIOUS
  <2>1. IsFiniteSet(LiveAccounts) /\ Cardinality(LiveAccounts) <= 1
    <3>1. CASE LiveAccounts = {}
      BY <3>1, FS_EmptySet
    <3>2. ASSUME NEW a \in LiveAccounts
          PROVE  IsFiniteSet(LiveAccounts) /\ Cardinality(LiveAccounts) <= 1
      <4>1. LiveAccounts = {a}
        BY DEF Shape, OneLive, LiveAccounts
      <4>. QED
        BY <4>1, FS_Singleton
    <3>. QED
      BY <3>1, <3>2
  <2>. QED
    BY <2>1 DEF Shape, Held, Plain, TypeOK, HandlerType
<1>. QED
  BY <1>1, ShapeInvariant, PTL

-----------------------------------------------------------------------------
(* How many wrong guesses a code takes                                     *)
(*                                                                         *)
(* While a code is stored every wrong guess with it is in its attempts, in *)
(* the hand of a handler that will count it, or was lost with one that     *)
(* died; and a handler compares only if the attempts it had read were      *)
(* below the limit.                                                        *)

Counting == {s \in Slots : At(s, "count")}
Comparing == {s \in Slots : At(s, "compare")}

Most == AttemptLimit + Cardinality(Slots) - 1 + faults

Counted ==
    /\ guesses <= Most
    /\ otp.code => /\ guesses <= otp.attempts + Cardinality(Counting) + faults
                   /\ guesses + Cardinality(Comparing) <= Most

\* The steps that matter to it, the others being calm.
Calm ==
    /\ guesses' = guesses /\ faults' = faults
    /\ otp'.code => otp.code /\ otp'.attempts = otp.attempts
    /\ Counting' = Counting /\ Comparing' \subseteq Comparing

Sends ==
    /\ guesses' = 0 /\ faults' = faults
    /\ otp'.attempts = 0
    /\ Counting' = Counting /\ Comparing' = Comparing

Compares(s) ==
    /\ UNCHANGED <<otp, guesses, faults>>
    /\ otp.attempts < AttemptLimit
    /\ s \notin Comparing \cup Counting
    /\ Counting' = Counting /\ Comparing' = Comparing \cup {s}

Misses(s) ==
    /\ guesses' = guesses + 1 /\ UNCHANGED <<otp, faults>> /\ otp.code
    /\ s \in Comparing /\ s \notin Counting
    /\ Counting' = Counting \cup {s} /\ Comparing' = Comparing \ {s}

Counts(s) ==
    /\ UNCHANGED <<guesses, faults>>
    /\ otp'.code = otp.code /\ otp'.attempts = otp.attempts + 1
    /\ Counting' = Counting \ {s} /\ Comparing' = Comparing

Drops(s) ==
    /\ UNCHANGED <<otp, guesses>> /\ faults' = faults + 1
    /\ Counting' = Counting \ {s} /\ Comparing' \subseteq Comparing

GuessKind ==
    Calm \/ Sends \/ \E s \in Slots : Compares(s) \/ Misses(s) \/ Counts(s) \/ Drops(s)

\* Where a handler is after its step.
LEMMA SetsAfter ==
    ASSUME Shape, NEW s \in Slots, NEW pc,
           (pc = "idle" /\ Ends(s)) \/ \E acc, v : Goes(s, pc, acc, v)
    PROVE  /\ Counting' = IF pc = "count" THEN Counting \cup {s} ELSE Counting \ {s}
           /\ Comparing' = IF pc = "compare" THEN Comparing \cup {s} ELSE Comparing \ {s}
<1>1. \A u \in Slots : handler'[u].pc = IF u = s THEN pc ELSE handler[u].pc
  BY DEF Shape, Held, Ends, Goes, Idle
<1>2. Counting' = IF pc = "count" THEN Counting \cup {s} ELSE Counting \ {s}
  BY <1>1 DEF Counting, At
<1>3. Comparing' = IF pc = "compare" THEN Comparing \cup {s} ELSE Comparing \ {s}
  BY <1>1 DEF Comparing, At
<1>. QED
  BY <1>2, <1>3

LEMMA SetsSame ==
    ASSUME handler' = handler
    PROVE  Counting' = Counting /\ Comparing' = Comparing
BY DEF Counting, Comparing, At

LEMMA VerificationGuesses ==
    ASSUME Shape, NEW s \in Slots, Verification(s)
    PROVE  GuessKind
<1>. USE DEF At, history, GuessKind
<1>0. otp \in [code : BOOLEAN, attempts : Nat, cooldown : BOOLEAN]
  BY DEF Shape, Plain
<1>1. CASE SendVerificationCode(s)
  <2>0. Ends(s)
    BY <1>1 DEF SendVerificationCode
  <2>1. Counting' = Counting \ {s} /\ Comparing' = Comparing \ {s}
    BY <2>0, SetsAfter
  <2>2. s \notin Counting /\ s \notin Comparing
    BY <1>1 DEF SendVerificationCode, Counting, Comparing
  <2>3. Sends
    BY <1>1, <2>1, <2>2 DEF SendVerificationCode, Sends
  <2>. QED
    BY <2>3
<1>2. CASE VerifyEmail(s)
  <2>1. Counting' = Counting \ {s} /\ Comparing' = Comparing \cup {s}
    BY <1>2, SetsAfter DEF VerifyEmail
  <2>2. s \notin Counting /\ s \notin Comparing
    BY <1>2 DEF VerifyEmail, Counting, Comparing
  <2>3. Compares(s)
    BY <1>2, <2>1, <2>2 DEF VerifyEmail, Compares
  <2>. QED
    BY <2>3
<1>3. CASE VerifyCompare(s)
  <2>1. s \in Comparing /\ s \notin Counting
    BY <1>3 DEF VerifyCompare, Counting, Comparing
  <2>2. CASE (Ends(s) \/ Goes(s, "consume", None, 0)) /\ UNCHANGED guesses
    <3>1. Counting' = Counting \ {s} /\ Comparing' = Comparing \ {s}
      BY <2>2, SetsAfter
    <3>2. Calm
      BY <1>3, <2>1, <2>2, <3>1 DEF VerifyCompare, Calm
    <3>. QED
      BY <3>2
  <2>3. CASE otp.code /\ guesses' = guesses + 1 /\ Goes(s, "count", None, 0)
    <3>1. Counting' = Counting \cup {s} /\ Comparing' = Comparing \ {s}
      BY <2>3, SetsAfter
    <3>2. Misses(s)
      BY <1>3, <2>1, <2>3, <3>1 DEF VerifyCompare, Misses
    <3>. QED
      BY <3>2
  <2>. QED
    BY <1>3, <2>2, <2>3 DEF VerifyCompare
<1>4. CASE VerifyCount(s)
  <2>0. Ends(s)
    BY <1>4 DEF VerifyCount
  <2>1. Counting' = Counting \ {s} /\ Comparing' = Comparing \ {s}
    BY <2>0, SetsAfter
  <2>2. s \notin Comparing
    BY <1>4 DEF VerifyCount, Comparing
  <2>3. Counts(s)
    BY <1>0, <1>4, <2>1, <2>2, CodeFields DEF VerifyCount, Counts
  <2>. QED
    BY <2>3
<1>5. CASE VerifyConsume(s) \/ ResendCode(s) \/ ResendFind(s) \/ VerifyFind(s) \/ ActivateUser(s)
  <2>1. \/ Ends(s)
        \/ \E pc \in {"resend", "send", "find", "activate"} : \E acc, v : Goes(s, pc, acc, v)
    BY <1>5 DEF VerifyConsume, ResendCode, ResendFind, VerifyFind, ActivateUser
  <2>2. Counting' = Counting \ {s} /\ Comparing' = Comparing \ {s}
    BY <2>1, SetsAfter
  <2>3. s \notin Counting
    BY <1>5 DEF VerifyConsume, ResendCode, ResendFind, VerifyFind, ActivateUser, Counting
  <2>4. UNCHANGED <<guesses, faults>> /\ (otp'.code => otp' = otp)
    BY <1>5 DEF VerifyConsume, ResendCode, ResendFind, VerifyFind, ActivateUser
  <2>5. Calm
    BY <2>2, <2>3, <2>4 DEF Calm
  <2>. QED
    BY <2>5
<1>. QED
  BY <1>1, <1>2, <1>3, <1>4, <1>5 DEF Verification

LEMMA GuessKinds ==
    ASSUME Shape, Next
    PROVE  GuessKind
<1>. USE DEF At, history
<1>1. ASSUME NEW s \in Slots, Registration(s) \/ Google(s) \/ Passwords(s)
      PROVE  GuessKind
  <2>. USE DEF Registration, Register, RegisterAgain, RegisterNew, Google, GoogleLogin,
       GoogleFindEmail, LinkGoogleAccount, GoogleReplace, CreateGoogleUser, Passwords,
       ForgotPassword, ResetPassword, ResetFind, ResetWrite, ResetDrop, ChangePassword,
       SetPassword, UpdatePassword
  <2>1. UNCHANGED <<otp, guesses, faults>> /\ handler[s].pc \notin {"count", "compare"}
    BY <1>1
  <2>2. \/ handler' = handler \/ Ends(s)
        \/ \E pc \in {"register", "send", "google", "link", "replace", "create", "reset",
                      "reset write", "reset drop", "change"} : \E acc, v : Goes(s, pc, acc, v)
    BY <1>1
  <2>3. (Counting' = Counting \ {s} /\ Comparing' = Comparing \ {s}) \/ handler' = handler
    <3>1. ASSUME NEW pc, pc \notin {"count", "compare"},
                 (pc = "idle" /\ Ends(s)) \/ \E acc, v : Goes(s, pc, acc, v)
          PROVE  Counting' = Counting \ {s} /\ Comparing' = Comparing \ {s}
      BY <3>1, SetsAfter
    <3>2. CASE Ends(s)
      BY <3>1, <3>2
    <3>3. ASSUME NEW pc \in {"register", "send", "google", "link", "replace", "create", "reset",
                             "reset write", "reset drop", "change"},
                 \E acc, v : Goes(s, pc, acc, v)
          PROVE  Counting' = Counting \ {s} /\ Comparing' = Comparing \ {s}
      BY <3>1, <3>3
    <3>. QED
      BY <2>2, <3>2, <3>3
  <2>4. Calm
    BY <2>1, <2>3, SetsSame DEF Calm, Counting, Comparing
  <2>. QED
    BY <2>4 DEF GuessKind
<1>2. ASSUME NEW s \in Slots, Dies(s)
      PROVE  GuessKind
  <2>1. Counting' = Counting \ {s} /\ Comparing' = Comparing \ {s}
    BY <1>2, SetsAfter DEF Dies
  <2>2. Drops(s)
    BY <1>2, <2>1 DEF Dies, Drops
  <2>. QED
    BY <2>2 DEF GuessKind
<1>3. ASSUME \/ \E s \in Slots : Create(s) \/ Remove(s)
             \/ \E a \in Accounts : Purge(a)
             \/ CodeExpires \/ CooldownExpires \/ TokenExpires
      PROVE  GuessKind
  <2>1. handler' = handler /\ UNCHANGED <<guesses, faults>>
    BY <1>3 DEF Create, Remove, Purge, CodeExpires, CooldownExpires, TokenExpires
  <2>2. otp'.code => otp.code /\ otp'.attempts = otp.attempts
    <3>1. otp \in [code : BOOLEAN, attempts : Nat, cooldown : BOOLEAN]
      BY DEF Shape, Plain
    <3>. QED
      BY <1>3, <3>1, CodeFields DEF Create, Remove, Purge, CodeExpires, CooldownExpires, TokenExpires
  <2>3. Calm
    BY <2>1, <2>2, SetsSame DEF Calm
  <2>. QED
    BY <2>3 DEF GuessKind
<1>. QED
  BY <1>1, <1>2, <1>3, VerificationGuesses DEF Next

\* Cardinalities of the handlers that count and compare.
LEMMA SlotCards ==
    /\ IsFiniteSet(Counting) /\ IsFiniteSet(Comparing)
    /\ Cardinality(Counting) \in Nat /\ Cardinality(Comparing) \in Nat
    /\ Cardinality(Slots) \in Nat
    /\ Cardinality(Comparing) <= Cardinality(Slots)
    /\ Cardinality(Counting) + Cardinality(Comparing) <= Cardinality(Slots)
<1>1. Counting \subseteq Slots /\ Comparing \subseteq Slots /\ Counting \cap Comparing = {}
  BY DEF Counting, Comparing, At
<1>2. IsFiniteSet(Counting) /\ IsFiniteSet(Comparing)
  BY <1>1, FS_Subset, SizeAssumption
<1>3. Cardinality(Counting \cup Comparing) <= Cardinality(Slots)
  <2>1. Counting \cup Comparing \subseteq Slots
    BY <1>1
  <2>. QED
    BY <2>1, FS_Subset, SizeAssumption
<1>4. Cardinality(Counting \cup Comparing) = Cardinality(Counting) + Cardinality(Comparing)
  <2>1. Cardinality(Counting \cup Comparing)
          = Cardinality(Counting) + Cardinality(Comparing) - Cardinality(Counting \cap Comparing)
    BY <1>2, FS_Union
  <2>2. Cardinality(Counting \cap Comparing) = 0
    BY <1>1, FS_EmptySet
  <2>3. Cardinality(Counting) \in Nat /\ Cardinality(Comparing) \in Nat
    BY <1>2, FS_CardinalityType
  <2>. QED
    BY <2>1, <2>2, <2>3
<1>5. Cardinality(Counting) \in Nat /\ Cardinality(Comparing) \in Nat /\ Cardinality(Slots) \in Nat
  BY <1>2, SizeAssumption, FS_CardinalityType
<1>. QED
  BY <1>2, <1>3, <1>4, <1>5

LEMMA CountedStep ==
    ASSUME Shape, Shape', GuessKind, Counted
    PROVE  Counted'
<1> DEFINE n == Cardinality(Counting)
           c == Cardinality(Comparing)
           m == Cardinality(Slots)
           n1 == Cardinality(Counting')
           c1 == Cardinality(Comparing')
<1>0. n \in Nat /\ c \in Nat /\ m \in Nat /\ c <= m /\ n + c <= m
      /\ IsFiniteSet(Counting) /\ IsFiniteSet(Comparing)
  BY SlotCards
<1>1. n1 \in Nat /\ c1 \in Nat /\ c1 <= m /\ n1 + c1 <= m
  <2>1. Counting' \subseteq Slots /\ Comparing' \subseteq Slots /\ Counting' \cap Comparing' = {}
    BY DEF Counting, Comparing, At
  <2>2. IsFiniteSet(Counting') /\ IsFiniteSet(Comparing') /\ n1 \in Nat /\ c1 \in Nat
    BY <2>1, FS_Subset, FS_CardinalityType, SizeAssumption
  <2>3. Cardinality(Counting' \cup Comparing') <= m
    <3>1. Counting' \cup Comparing' \subseteq Slots
      BY <2>1
    <3>. QED
      BY <3>1, FS_Subset, SizeAssumption
  <2>4. Cardinality(Counting' \cup Comparing') = n1 + c1 - Cardinality(Counting' \cap Comparing')
    BY <2>2, FS_Union
  <2>5. Cardinality(Counting' \cap Comparing') = 0
    BY <2>1, FS_EmptySet
  <2>6. n1 + c1 <= m
    BY <2>2, <2>3, <2>4, <2>5
  <2>. HIDE DEF n1, c1, m
  <2>. QED
    BY <1>0, <2>2, <2>6
<1>2. /\ guesses \in Nat /\ guesses' \in Nat /\ faults \in Nat /\ faults' \in Nat
      /\ otp.attempts \in Nat /\ otp'.attempts \in Nat
      /\ AttemptLimit \in Nat \ {0}
  BY SizeAssumption DEF Shape, Plain
<1>3. /\ guesses <= AttemptLimit + m - 1 + faults
      /\ otp.code => /\ guesses <= otp.attempts + n + faults
                     /\ guesses + c <= AttemptLimit + m - 1 + faults
  BY DEF Counted, Most
<1>m. \A s : Counting' = Counting \ {s} => n1 >= n - 1 /\ n1 <= n
  <2>. SUFFICES ASSUME NEW s, Counting' = Counting \ {s}
                PROVE  n1 >= n - 1 /\ n1 <= n
    OBVIOUS
  <2>1. n1 = IF s \in Counting THEN n - 1 ELSE n
    BY <1>0, FS_RemoveElement
  <2>. HIDE DEF n, n1
  <2>. QED
    BY <1>0, <2>1
<1>s. Comparing' \subseteq Comparing => c1 <= c
  BY <1>0, FS_Subset
<1>. SUFFICES /\ guesses' <= AttemptLimit + m - 1 + faults'
              /\ otp'.code => /\ guesses' <= otp'.attempts + n1 + faults'
                              /\ guesses' + c1 <= AttemptLimit + m - 1 + faults'
  BY DEF Counted, Most
<1>4. CASE Calm
  <2>1. n1 = n /\ c1 <= c
    BY <1>4, <1>s DEF Calm
  <2>. HIDE DEF n, c, m, n1, c1
  <2>. QED
    BY <1>0, <1>1, <1>2, <1>3, <1>4, <2>1 DEF Calm
<1>5. CASE Sends
  <2>. HIDE DEF n, c, m, n1, c1
  <2>. QED
    BY <1>0, <1>1, <1>2, <1>3, <1>5 DEF Sends
<1>6. ASSUME NEW s \in Slots, Compares(s)
      PROVE  /\ guesses' <= AttemptLimit + m - 1 + faults'
             /\ otp'.code => /\ guesses' <= otp'.attempts + n1 + faults'
                             /\ guesses' + c1 <= AttemptLimit + m - 1 + faults'
  <2>1. n1 = n /\ c1 = c + 1
    BY <1>0, <1>6, FS_AddElement DEF Compares
  <2>. HIDE DEF n, c, m, n1, c1
  <2>. QED
    BY <1>0, <1>1, <1>2, <1>3, <1>6, <2>1 DEF Compares
<1>7. ASSUME NEW s \in Slots, Misses(s)
      PROVE  /\ guesses' <= AttemptLimit + m - 1 + faults'
             /\ otp'.code => /\ guesses' <= otp'.attempts + n1 + faults'
                             /\ guesses' + c1 <= AttemptLimit + m - 1 + faults'
  <2>1. n1 = n + 1
    BY <1>0, <1>7, FS_AddElement DEF Misses
  <2>2. c1 = c - 1
    BY <1>0, <1>7, FS_RemoveElement DEF Misses
  <2>. HIDE DEF n, c, m, n1, c1
  <2>. QED
    BY <1>0, <1>1, <1>2, <1>3, <1>7, <2>1, <2>2 DEF Misses
<1>8. ASSUME NEW s \in Slots, Counts(s) \/ Drops(s)
      PROVE  /\ guesses' <= AttemptLimit + m - 1 + faults'
             /\ otp'.code => /\ guesses' <= otp'.attempts + n1 + faults'
                             /\ guesses' + c1 <= AttemptLimit + m - 1 + faults'
  <2>1. n1 >= n - 1 /\ n1 <= n /\ c1 <= c
    BY <1>8, <1>m, <1>s DEF Counts, Drops
  <2>. HIDE DEF n, c, m, n1, c1
  <2>. QED
    <3>1. CASE Counts(s)
      BY <1>0, <1>1, <1>2, <1>3, <2>1, <3>1 DEF Counts
    <3>2. CASE Drops(s)
      BY <1>0, <1>1, <1>2, <1>3, <2>1, <3>2 DEF Drops
    <3>. QED
      BY <1>8, <3>1, <3>2
<1>. QED
  BY <1>4, <1>5, <1>6, <1>7, <1>8 DEF GuessKind

\* Resent codes, expiries, deaths and any number of verifications that overlap
\* let no code be tried more often than its limit, the handlers that overlap
\* and those that died allow for.
THEOREM CredentialsGuesses == Spec => []GuessesBounded
<1>1. Init => Counted
  <2>. SUFFICES ASSUME Init PROVE Counted
    OBVIOUS
  <2>1. guesses = 0 /\ faults = 0 /\ ~otp.code
    BY DEF Init
  <2>. QED
    BY <2>1, SlotCards, SizeAssumption DEF Counted, Most
<1>2. Shape /\ Shape' /\ Counted /\ [Next]_vars => Counted'
  <2>1. Counted /\ UNCHANGED vars => Counted'
    BY DEF vars, Counted, Most, Counting, Comparing, At
  <2>. QED
    BY <2>1, GuessKinds, CountedStep
<1>3. Counted => GuessesBounded
  BY DEF Counted, Most, GuessesBounded
<1>. QED
  BY <1>1, <1>2, <1>3, ShapeInvariant, PTL DEF Spec

-----------------------------------------------------------------------------
(* Active accounts are kept                                                *)

\* An active account is not due to be dropped, and a handler that goes over
\* unverified accounts holds an active one only if it was activated meanwhile.
Spared ==
    /\ \A a \in Accounts : Active(a) /\ a \notin raced => ~account[a].expires
    /\ \A s \in Slots :
          handler[s].pc \in {"register", "replace"} /\ handler[s].acc # None
          /\ Active(handler[s].acc) => handler[s].acc \in raced

\* What a step makes of one account, the others staying as they are.
Others(a) == \A b \in Accounts \ {a} : account'[b] = account[b]

Makes(a) == account[a].state = "none" /\ (account'[a].active => ~account'[a].expires)

Touches(a) ==
    Active(a)' => Active(a) /\ (account'[a].expires => account[a].expires \/ a \in raced)

Activates(a) == ~account'[a].expires /\ (Holding(a) # {} => a \in raced')

Effect ==
    \/ account' = account
    \/ \E a \in Accounts : Others(a) /\ (Makes(a) \/ Touches(a) \/ Activates(a))

\* A handler takes an account to go over only if it is not active.
Takes ==
    \/ handler' = handler
    \/ \E s \in Slots :
          /\ \A u \in Slots \ {s} : handler'[u] = handler[u]
          /\ handler'[s].pc \in {"register", "replace"} /\ handler'[s].acc # None =>
                account' = account /\ ~Active(handler'[s].acc)

Keeps ==
    \A a \in Accounts : Active(a) /\ a \notin raced =>
        \/ Active(a)' /\ account'[a].password = account[a].password
        \/ \E s \in Slots : ResetWrite(s) \/ UpdatePassword(s) \/ Remove(s)

LEMMA GoesTakes ==
    ASSUME Shape, NEW s \in Slots,
           \/ Ends(s) \/ handler' = handler
           \/ \E pc \in Steps \ {"register", "replace"} : \E acc, v : Goes(s, pc, acc, v)
           \/ account' = account /\ Found = None /\ \E pc, v : Goes(s, pc, Found, v)
           \/ account' = account /\ ~Active(Found) /\ \E pc, v : Goes(s, pc, Found, v)
    PROVE  Takes
<1>0. handler \in [Slots -> HandlerType]
  BY DEF Shape, Held
<1>. USE DEF Takes
<1>1. CASE Ends(s)
  BY <1>0, <1>1 DEF Ends, Idle
<1>2. ASSUME NEW pc \in Steps \ {"register", "replace"}, NEW acc, NEW v, Goes(s, pc, acc, v)
      PROVE  Takes
  BY <1>0, <1>2 DEF Goes
<1>3. ASSUME account' = account, Found = None \/ ~Active(Found), NEW pc, NEW v,
             Goes(s, pc, Found, v)
      PROVE  Takes
  BY <1>0, <1>3 DEF Goes
<1>. QED
  BY <1>1, <1>2, <1>3

LEMMA SparedStep ==
    ASSUME Shape, Shape', Spared, raced \subseteq raced', Effect, Takes
    PROVE  Spared'
<1>0. \A s \in Slots : handler[s].acc # None =>
         handler[s].acc \in Accounts /\ account[handler[s].acc].state # "none"
  BY HeldFacts DEF Shape, Held
<1>1. ASSUME NEW a \in Accounts, Active(a)', a \notin raced'
      PROVE  ~account'[a].expires
  BY <1>1 DEF Effect, Others, Makes, Touches, Activates, Active, Live, Spared
<1>2. ASSUME NEW s \in Slots, NEW b, b = handler'[s].acc,
             handler'[s].pc \in {"register", "replace"}, b # None, Active(b)'
      PROVE  b \in raced'
  <2>1. handler'[s] = handler[s]
    BY <1>2 DEF Takes, Active, Live
  <2>2. b \in Accounts /\ account[b].state # "none" /\ s \in Holding(b)
        /\ (Active(b) => b \in raced)
    BY <1>0, <1>2, <2>1 DEF Spared, Holding
  <2>3. CASE account' = account
    BY <1>2, <2>2, <2>3 DEF Active, Live
  <2>4. ASSUME NEW a \in Accounts, Others(a), Makes(a) \/ Touches(a) \/ Activates(a)
        PROVE  b \in raced'
    <3>1. CASE b # a
      BY <1>2, <2>2, <2>4, <3>1 DEF Others, Active, Live
    <3>2. CASE b = a
      BY <1>2, <2>2, <2>4, <3>2 DEF Makes, Touches, Activates
    <3>. QED
      BY <3>1, <3>2
  <2>. QED
    BY <2>3, <2>4 DEF Effect
<1>. QED
  BY <1>1, <1>2 DEF Spared, Active, Live

LEMMA UpdateWrites ==
    ASSUME Shape, NEW a \in Accounts, NEW d \in Document, Updates(a, d)
    PROVE  account' = account \/ (Others(a) /\ account'[a] = d)
BY DEF Shape, Updates, Others

LEMMA InsertWrites ==
    ASSUME Shape, NEW a \in Accounts, NEW d \in Document, Inserts(a, d)
    PROVE  Others(a) /\ account'[a] = d /\ account[a].state = "none"
BY DEF Shape, Inserts, Others

\* An account that is made is none of the active ones.
LEMMA MakesKeeps ==
    ASSUME NEW a \in Accounts, Others(a), account[a].state = "none"
    PROVE  Keeps
BY DEF Keeps, Others, Active, Live

\* One that is touched keeps what it has, or is not an active one to be kept.
LEMMA TouchKeeps ==
    ASSUME NEW a \in Accounts, Others(a),
           Active(a) /\ a \notin raced =>
              \/ Active(a)' /\ account'[a].password = account[a].password
              \/ \E s \in Slots : ResetWrite(s) \/ UpdatePassword(s) \/ Remove(s)
    PROVE  Keeps
BY DEF Keeps, Others, Active, Live

LEMMA SameKeeps ==
    ASSUME account' = account
    PROVE  Effect /\ Keeps
BY DEF Effect, Keeps, Active, Live

LEMMA RegistrationKeeps ==
    ASSUME Shape, Spared, NEW s \in Slots, Registration(s)
    PROVE  raced \subseteq raced' /\ Effect /\ Takes /\ Keeps
<1>. USE DEF At, history
<1>p. "send" \in Steps \ {"register", "replace"}
  BY DEF Steps
<1>1. CASE Register(s)
  <2>1. account' = account /\ raced' = raced
    BY <1>1 DEF Register
  <2>2. Ends(s) \/ ((Found = None \/ ~Active(Found)) /\ Goes(s, "register", Found, made'.password))
    BY <1>1 DEF Register
  <2>3. Takes
    BY <2>1, <2>2, GoesTakes
  <2>. QED
    BY <2>1, <2>3, SameKeeps
<1>2. CASE RegisterAgain(s)
  <2>0. PICK a \in Accounts : a = handler[s].acc
    BY <1>2, NoneAssumption, HeldFacts DEF RegisterAgain
  <2> DEFINE d == [account[a] EXCEPT !.password = handler[s].value, !.expires = TRUE]
  <2>1. account[a] \in Document /\ handler[s].value \in 1 .. MaxPasswords
        /\ raced' = raced /\ (Active(a) => a \in raced)
    BY <1>2, <2>0, HeldFacts DEF RegisterAgain, Fits, Spared
  <2>2. d \in Document /\ d.state = account[a].state /\ d.active = account[a].active
        /\ Updates(a, d)
    BY <1>2, <2>0, <2>1, DocumentFields DEF RegisterAgain, Document
  <2>3. Takes
    BY <1>2, <1>p, GoesTakes DEF RegisterAgain
  <2>. HIDE DEF d
  <2>4. account' = account \/ (Others(a) /\ account'[a] = d)
    BY <2>1, <2>2, UpdateWrites
  <2>5. CASE Others(a) /\ account'[a] = d
    <3>1. Active(a)' => Active(a)
      BY <2>2, <2>5 DEF Active, Live
    <3>2. Effect
      BY <2>1, <2>5, <3>1 DEF Effect, Touches
    <3>3. Keeps
      BY <2>1, <2>5, TouchKeeps
    <3>. QED
      BY <2>1, <2>3, <3>2, <3>3
  <2>. QED
    BY <2>1, <2>3, <2>4, <2>5, SameKeeps
<1>3. CASE RegisterNew(s)
  <2> DEFINE d == [Missing EXCEPT !.state = "live", !.expires = TRUE,
                                  !.password = handler[s].value]
  <2>1. handler[s].value \in 1 .. MaxPasswords /\ raced' = raced
    BY <1>3, HeldFacts DEF RegisterNew, Fits
  <2>2. d \in Document /\ ~d.active
    BY <2>1, MissingFields
  <2>3. account' = account \/ \E a \in Accounts : Inserts(a, d)
    BY <1>3 DEF RegisterNew
  <2>4. Takes
    BY <1>3, <1>p, GoesTakes DEF RegisterNew
  <2>. HIDE DEF d
  <2>5. ASSUME NEW a \in Accounts, Inserts(a, d)
        PROVE  Effect /\ Keeps
    <3>1. Others(a) /\ account'[a] = d /\ account[a].state = "none"
      BY <2>2, <2>5, InsertWrites
    <3>2. Effect
      BY <2>2, <3>1 DEF Effect, Makes
    <3>. QED
      BY <3>1, <3>2, MakesKeeps
  <2>. QED
    BY <2>1, <2>3, <2>4, <2>5, SameKeeps
<1>. QED
  BY <1>1, <1>2, <1>3 DEF Registration

LEMMA VerificationKeeps ==
    ASSUME Shape, Spared, NEW s \in Slots, Verification(s)
    PROVE  raced \subseteq raced' /\ Effect /\ Takes /\ Keeps
<1>. USE DEF At, history
<1>p. {"resend", "send", "compare", "count", "consume", "find", "activate"}
         \subseteq Steps \ {"register", "replace"}
  BY DEF Steps
<1>1. CASE ActivateUser(s)
  <2>0. PICK a \in Accounts : a = handler[s].acc
    BY <1>1, HeldFacts DEF ActivateUser, Owning
  <2> DEFINE d == [account[a] EXCEPT !.active = TRUE, !.expires = FALSE]
  <2>1. account[a] \in Document
        /\ raced' = IF Holding(a) # {} THEN raced \cup {a} ELSE raced
    BY <1>1, <2>0, HeldFacts DEF ActivateUser, Owning
  <2>2. d \in Document /\ d.state = account[a].state /\ d.active /\ ~d.expires
        /\ d.password = account[a].password /\ Updates(a, d)
    BY <1>1, <2>0, <2>1, DocumentFields DEF ActivateUser, Document
  <2>3. Takes
    BY <1>1, GoesTakes DEF ActivateUser
  <2>. HIDE DEF d
  <2>4. account' = account \/ (Others(a) /\ account'[a] = d)
    BY <2>1, <2>2, UpdateWrites
  <2>5. CASE Others(a) /\ account'[a] = d
    <3>1. Effect
      BY <2>1, <2>2, <2>5 DEF Effect, Activates
    <3>2. Active(a) => Active(a)' /\ account'[a].password = account[a].password
      BY <2>2, <2>5 DEF Active, Live
    <3>3. Keeps
      BY <2>1, <2>5, <3>2, TouchKeeps
    <3>. QED
      BY <2>1, <2>3, <3>1, <3>3
  <2>. QED
    BY <2>1, <2>3, <2>4, <2>5, SameKeeps
<1>2. CASE ~ActivateUser(s)
  <2>1. account' = account /\ raced' = raced
    BY <1>2 DEF Verification, SendVerificationCode, ResendCode, ResendFind, VerifyEmail,
       VerifyCompare, VerifyCount, VerifyConsume, VerifyFind
  <2>2. \/ Ends(s)
        \/ \E pc \in {"resend", "send", "compare", "count", "consume", "find", "activate"} :
              \E acc, v : Goes(s, pc, acc, v)
    BY <1>2 DEF Verification, SendVerificationCode, ResendCode, ResendFind, VerifyEmail,
       VerifyCompare, VerifyCount, VerifyConsume, VerifyFind
  <2>3. Takes
    BY <1>p, <2>2, GoesTakes
  <2>. QED
    BY <2>1, <2>3, SameKeeps
<1>. QED
  BY <1>1, <1>2

LEMMA GoogleKeeps ==
    ASSUME Shape, Spared, NEW s \in Slots, Google(s)
    PROVE  raced \subseteq raced' /\ Effect /\ Takes /\ Keeps
<1>. USE DEF At, history
<1>p. {"google", "link", "create"} \subseteq Steps \ {"register", "replace"}
  BY DEF Steps
<1>1. CASE GoogleLogin(s) \/ GoogleFindEmail(s)
  <2>1. account' = account /\ raced' = raced
    BY <1>1 DEF GoogleLogin, GoogleFindEmail
  <2>2. \/ \E pc \in {"google", "link", "create"} : \E acc, v : Goes(s, pc, acc, v)
        \/ ~Active(Found) /\ \E pc, v : Goes(s, pc, Found, v)
    BY <1>1 DEF GoogleLogin, GoogleFindEmail
  <2>3. Takes
    BY <1>p, <2>1, <2>2, GoesTakes
  <2>. QED
    BY <2>1, <2>3, SameKeeps
<1>2. CASE LinkGoogleAccount(s)
  <2>0. PICK a \in Accounts : a = handler[s].acc
    BY <1>2, HeldFacts DEF LinkGoogleAccount, Owning
  <2> DEFINE d == [account[a] EXCEPT !.google = TRUE]
  <2>1. account[a] \in Document /\ raced' = raced
    BY <1>2, <2>0, HeldFacts DEF LinkGoogleAccount, Owning
  <2>2. d \in Document /\ d.state = account[a].state /\ d.active = account[a].active
        /\ d.expires = account[a].expires /\ d.password = account[a].password
        /\ (account' = account \/ Updates(a, d))
    BY <1>2, <2>0, <2>1, DocumentFields DEF LinkGoogleAccount, Document
  <2>3. Takes
    BY <1>2, GoesTakes DEF LinkGoogleAccount
  <2>. HIDE DEF d
  <2>4. account' = account \/ (Others(a) /\ account'[a] = d)
    BY <2>1, <2>2, UpdateWrites
  <2>5. CASE Others(a) /\ account'[a] = d
    <3>1. Active(a)' <=> Active(a)
      BY <2>2, <2>5 DEF Active, Live
    <3>2. Effect
      BY <2>1, <2>2, <2>5, <3>1 DEF Effect, Touches
    <3>3. Keeps
      BY <2>1, <2>2, <2>5, <3>1, TouchKeeps
    <3>. QED
      BY <2>1, <2>3, <3>2, <3>3
  <2>. QED
    BY <2>1, <2>3, <2>4, <2>5, SameKeeps
<1>3. CASE GoogleReplace(s)
  <2>0. PICK a \in Accounts : a = handler[s].acc
    BY <1>3, HeldFacts DEF GoogleReplace, Owning
  <2> DEFINE d == [account[a] EXCEPT !.state = "removed"]
  <2>1. account[a] \in Document /\ raced' = raced
        /\ (Active(a) => a \in raced)
    BY <1>3, <2>0, HeldFacts, NoneAssumption DEF GoogleReplace, Owning, Spared
  <2>2. d \in Document /\ d.state = "removed" /\ Updates(a, d)
    BY <1>3, <2>0, <2>1, DocumentFields DEF GoogleReplace
  <2>3. Takes
    BY <1>3, <1>p, GoesTakes DEF GoogleReplace
  <2>. HIDE DEF d
  <2>4. account' = account \/ (Others(a) /\ account'[a] = d)
    BY <2>1, <2>2, UpdateWrites
  <2>5. CASE Others(a) /\ account'[a] = d
    <3>1. ~Active(a)'
      BY <2>2, <2>5 DEF Active, Live
    <3>2. Effect
      BY <2>1, <2>5, <3>1 DEF Effect, Touches
    <3>3. Keeps
      BY <2>1, <2>5, TouchKeeps
    <3>. QED
      BY <2>1, <2>3, <3>2, <3>3
  <2>. QED
    BY <2>1, <2>3, <2>4, <2>5, SameKeeps
<1>4. CASE CreateGoogleUser(s)
  <2> DEFINE d == [Missing EXCEPT !.state = "live", !.active = TRUE, !.google = TRUE]
  <2>1. d \in Document /\ ~d.expires /\ raced' = raced
    BY <1>4, MissingFields DEF CreateGoogleUser
  <2>2. account' = account \/ \E a \in Accounts : Inserts(a, d)
    BY <1>4 DEF CreateGoogleUser
  <2>3. Takes
    BY <1>4, GoesTakes DEF CreateGoogleUser
  <2>. HIDE DEF d
  <2>4. ASSUME NEW a \in Accounts, Inserts(a, d)
        PROVE  Effect /\ Keeps
    <3>1. Others(a) /\ account'[a] = d /\ account[a].state = "none"
      BY <2>1, <2>4, InsertWrites
    <3>2. Effect
      BY <2>1, <3>1 DEF Effect, Makes
    <3>. QED
      BY <3>1, <3>2, MakesKeeps
  <2>. QED
    BY <2>1, <2>2, <2>3, <2>4, SameKeeps
<1>. QED
  BY <1>1, <1>2, <1>3, <1>4 DEF Google

LEMMA PasswordKeeps ==
    ASSUME Shape, Spared, NEW s \in Slots, Passwords(s)
    PROVE  raced \subseteq raced' /\ Effect /\ Takes /\ Keeps
<1>. USE DEF At, history
<1>p. {"reset", "reset write", "reset drop", "change"} \subseteq Steps \ {"register", "replace"}
  BY DEF Steps
<1>1. Takes
  <2>1. \/ Ends(s) \/ handler' = handler
        \/ \E pc \in {"reset", "reset write", "reset drop", "change"} :
              \E acc, v : Goes(s, pc, acc, v)
    BY DEF Passwords, ForgotPassword, ResetPassword, ResetFind, ResetWrite, ResetDrop,
           ChangePassword, SetPassword, UpdatePassword
  <2>. QED
    BY <1>p, <2>1, GoesTakes
<1>2. raced' = raced
  BY DEF Passwords, ForgotPassword, ResetPassword, ResetFind, ResetWrite, ResetDrop,
         ChangePassword, SetPassword, UpdatePassword
<1>3. CASE ResetWrite(s) \/ UpdatePassword(s)
  <2>0. PICK a \in Accounts : a = handler[s].acc
    BY <1>3, HeldFacts DEF ResetWrite, UpdatePassword, Owning
  <2> DEFINE d == [account[a] EXCEPT !.password = made'.password]
  <2>1. account[a] \in Document /\ made'.password \in 1 .. MaxPasswords
    <3>1. made'.password \in 1 .. MaxPasswords
      BY <1>3, FreshValue DEF ResetWrite, UpdatePassword, Shape
    <3>. QED
      BY <3>1 DEF Shape
  <2>2. d \in Document /\ d.state = account[a].state /\ d.active = account[a].active
        /\ d.expires = account[a].expires /\ Updates(a, d)
    BY <1>3, <2>0, <2>1, DocumentFields DEF ResetWrite, UpdatePassword, Document
  <2>. HIDE DEF d
  <2>3. account' = account \/ (Others(a) /\ account'[a] = d)
    BY <2>1, <2>2, UpdateWrites
  <2>4. CASE Others(a) /\ account'[a] = d
    <3>1. Active(a)' => Active(a)
      BY <2>2, <2>4 DEF Active, Live
    <3>2. Effect
      BY <2>2, <2>4, <3>1 DEF Effect, Touches
    <3>3. Keeps
      BY <1>3, <2>4, TouchKeeps
    <3>. QED
      BY <1>1, <1>2, <3>2, <3>3
  <2>. QED
    BY <1>1, <1>2, <2>3, <2>4, SameKeeps
<1>4. CASE ~(ResetWrite(s) \/ UpdatePassword(s))
  <2>1. account' = account
    BY <1>4 DEF Passwords, ForgotPassword, ResetPassword, ResetFind, ResetDrop,
       ChangePassword, SetPassword
  <2>. QED
    BY <1>1, <1>2, <2>1, SameKeeps
<1>. QED
  BY <1>3, <1>4

LEMMA OutsideKeeps ==
    ASSUME Shape, Spared, Outside
    PROVE  raced \subseteq raced' /\ Effect /\ Takes /\ Keeps
<1>. USE DEF At, history
<1>0. account \in [Accounts -> Document]
  BY DEF Shape
<1>1. ASSUME NEW s \in Slots, Create(s)
      PROVE  raced \subseteq raced' /\ Effect /\ Takes /\ Keeps
  <2> DEFINE d == [Missing EXCEPT !.state = "live", !.password = made'.password]
  <2>1. made'.password \in 1 .. MaxPasswords
    BY <1>1, FreshValue DEF Create, Shape
  <2>2. d \in Document /\ ~d.active
    BY <2>1, MissingFields
  <2>3. PICK a \in Accounts : Inserts(a, d)
    BY <1>1 DEF Create
  <2>4. handler' = handler /\ raced' = raced
    BY <1>1 DEF Create
  <2>. HIDE DEF d
  <2>5. Others(a) /\ account'[a] = d /\ account[a].state = "none"
    BY <2>2, <2>3, InsertWrites
  <2>6. Effect
    BY <2>2, <2>5 DEF Effect, Makes
  <2>. QED
    BY <2>4, <2>5, <2>6, MakesKeeps DEF Takes
<1>2. ASSUME NEW s \in Slots, Remove(s)
      PROVE  raced \subseteq raced' /\ Effect /\ Takes /\ Keeps
  <2>0. PICK a \in Accounts : a = Found
    BY <1>2, FoundFacts, FoundNone DEF Remove
  <2> DEFINE d == [account[a] EXCEPT !.state = "removed"]
  <2>1. d \in Document /\ d.state = "removed" /\ Updates(a, d)
    BY <1>0, <1>2, <2>0, DocumentFields DEF Remove
  <2>2. handler' = handler /\ raced' = raced
    BY <1>2 DEF Remove
  <2>. HIDE DEF d
  <2>3. account' = account \/ (Others(a) /\ account'[a] = d)
    BY <2>1, UpdateWrites
  <2>4. CASE Others(a) /\ account'[a] = d
    <3>1. ~Active(a)'
      BY <2>1, <2>4 DEF Active, Live
    <3>2. Effect
      BY <2>4, <3>1 DEF Effect, Touches
    <3>3. Keeps
      BY <1>2, <2>4, TouchKeeps
    <3>. QED
      BY <2>2, <3>2, <3>3 DEF Takes
  <2>. QED
    BY <2>2, <2>3, <2>4, SameKeeps DEF Takes
<1>3. ASSUME NEW s \in Slots, Dies(s)
      PROVE  raced \subseteq raced' /\ Effect /\ Takes /\ Keeps
  BY <1>3, GoesTakes, SameKeeps DEF Dies
<1>4. ASSUME NEW a \in Accounts, Purge(a)
      PROVE  raced \subseteq raced' /\ Effect /\ Takes /\ Keeps
  <2>1. Others(a) /\ ~Active(a) /\ account'[a].state = "purged"
    BY <1>0, <1>4, MissingFields DEF Purge, Others, Active
  <2>2. Effect
    BY <2>1 DEF Effect, Touches, Active, Live
  <2>3. Keeps
    BY <2>1, TouchKeeps
  <2>. QED
    BY <1>4, <2>2, <2>3 DEF Purge, Takes
<1>5. CASE CodeExpires \/ CooldownExpires \/ TokenExpires
  BY <1>5, SameKeeps DEF CodeExpires, CooldownExpires, TokenExpires, Takes
<1>. QED
  BY <1>1, <1>2, <1>3, <1>4, <1>5 DEF Outside

LEMMA NextKeeps ==
    ASSUME Shape, Spared, Next
    PROVE  raced \subseteq raced' /\ Effect /\ Takes /\ Keeps
<1>1. Outside \/ \E s \in Slots : Registration(s) \/ Verification(s) \/ Google(s) \/ Passwords(s)
  BY DEF Next, Outside
<1>. QED
  BY <1>1, RegistrationKeeps, VerificationKeeps, GoogleKeeps, PasswordKeeps, OutsideKeeps

\* No registration, no sign-in with Google and no index takes an active account
\* or its password, unless it had found the account unverified when it was
\* activated: for any number of handlers, accounts and passwords.
THEOREM CredentialsKept == Spec => ActiveIsKept
<1>1. Init => Spared
  BY DEF Init, Spared, Active, Live, Missing, Idle
<1>2. Shape /\ Shape' /\ Spared /\ [Next]_vars => Spared'
  <2>1. Spared /\ UNCHANGED vars => Spared'
    BY DEF vars, Spared, Active, Live
  <2>. QED
    BY <2>1, NextKeeps, SparedStep
<1>3. Shape /\ Spared /\ [Next]_vars => Keeps \/ UNCHANGED vars
  BY NextKeeps
<1>4. Shape /\ Spared /\ [Next]_vars =>
        [\A a \in Accounts :
            (Active(a) /\ a \notin raced)
               => \/ Active(a)' /\ account'[a].password = account[a].password
                  \/ \E s \in Slots : ResetWrite(s) \/ UpdatePassword(s) \/ Remove(s)]_vars
  BY <1>3 DEF Keeps
<1>. QED
  BY <1>1, <1>2, <1>4, ShapeInvariant, PTL DEF Spec, ActiveIsKept
=============================================================================
