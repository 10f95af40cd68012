------------------------------ MODULE Profiles ------------------------------
(***************************************************************************)
(* One person, kept twice: as an account and as a CV profile, each with a  *)
(* name and an avatar that are copied from whichever was written to the    *)
(* other.  Beside them the summary of the profile that is cached for the   *)
(* chat assistant.                                                         *)
(*                                                                         *)
(* Handlers run in slots and overlap; every awaited call that reads or     *)
(* writes shared state is a step, a failing one a fault.  The e-mail of an *)
(* account never changes here and the CV always takes it: it is left out.  *)
(***************************************************************************)
EXTENDS Integers, FiniteSets

CONSTANTS
    Slots,          \* handlers that overlap
    Names, Avatars, \* of the person
    Companies,      \* an HR user may be assigned to
    Jobs,           \* postings
    Budgets,        \* bound: how much of each kind may happen; a behaviour has one of them
    Absent

Spendable == {"profile", "reply", "turn", "fault", "elsewhere"}
ASSUME BudgetsAreNumbers == \A b \in Budgets : b \in [Spendable -> Nat]
ASSUME CompaniesAreNamed == Absent \notin Companies

VARIABLES
    user,           \* the account
    cv,             \* the CV profile, Absent without one
    edition,        \* history: how often the CV was written or deleted
    chatContext,    \* what is cached of them for the assistant, Absent without it
    handler,        \* per slot: the request it serves
    parted,         \* history: account and CV may differ
    announced,      \* history: the latest edition whose upsert has ended
    budget          \* bound: what may still happen

profiles == <<user, cv, edition, parted>>

-----------------------------------------------------------------------------
Roles == {"NORMAL_USER", "HR"}

Vacant == [pc |-> "idle"]
SlotAt(s, pc) == handler[s].pc = pc
Serves(s, r) == handler' = [handler EXCEPT ![s] = r]
Spend(kind) == budget[kind] > 0 /\ budget' = [budget EXCEPT ![kind] = @ - 1]

\* The handlers that write a name.
Writers == {s \in Slots : handler[s].pc \in {"write-user", "sync-cv", "read-cv", "store-cv",
                                            "sync-user", "clear-context"}}

\* One begins: it is alone if no other is at work, and those that are no longer are.
BeginsWriting(s, r) ==
    handler' = [x \in Slots |->
        IF x = s THEN [r EXCEPT !.alone = (Writers = {})]
        ELSE IF x \in Writers THEN [handler[x] EXCEPT !.alone = FALSE] ELSE handler[x]]

Or(a, b) == IF a = Absent THEN b ELSE a

-----------------------------------------------------------------------------
(***************************************************************************)
(* The account.                                                            *)
(***************************************************************************)
\* Mutant: the company stays with whoever is no longer an HR user.
KeepCompany(role, company) == company

\* Only an HR user has a company.
ResolveCompanyAssignmentForRole(role, company) == IF role = "HR" THEN company ELSE Absent

NewUser(name, avatar, role, company) ==
    [name |-> name, avatar |-> avatar, role |-> role, deleted |-> FALSE, saved |-> {},
     company |-> ResolveCompanyAssignmentForRole(role, company)]

\* An administrator's changes; what is left out keeps its value, an HR user's company
\* the one read here.  Without any the request is refused.
UpdateUser(s) ==
    /\ SlotAt(s, "idle") /\ Spend("profile") /\ ~user.deleted
    /\ \E name \in Names, avatar \in Avatars \cup {Absent}, role \in Roles,
          company \in Companies \cup {Absent} :
          LET resolved == ResolveCompanyAssignmentForRole(role, Or(company, user.company))
          IN
          /\ role = "HR" => resolved # Absent
          /\ BeginsWriting(s, [pc |-> "write-user", alone |-> FALSE, name |-> name,
                               avatar |-> avatar, role |-> role, company |-> resolved])
    /\ UNCHANGED <<profiles, chatContext, announced>>

WriteUser(s) ==
    LET h == handler[s] IN
    /\ SlotAt(s, "write-user") /\ ~user.deleted
    /\ user' = [user EXCEPT !.name = h.name, !.avatar = Or(h.avatar, @),
                            !.role = h.role, !.company = h.company]
    /\ Serves(s, [h EXCEPT !.pc = "sync-cv", !.role = Absent, !.company = Absent])
    /\ UNCHANGED <<cv, edition, parted, chatContext, announced, budget>>

\* What writers that overlapped, or one that failed half-way, leave may differ until
\* a writer that was alone has given both the same name and avatar.
Parts(h, both) == parted' = IF ~h.alone THEN TRUE ELSE parted /\ ~both

SyncCvIdentityFromUser(s) ==
    LET h == handler[s] IN
    /\ SlotAt(s, "sync-cv")
    /\ cv' = IF cv = Absent THEN Absent
             ELSE [cv EXCEPT !.name = h.name, !.avatar = Or(h.avatar, @)]
    /\ Parts(h, h.avatar # Absent)
    /\ Serves(s, Vacant)
    /\ UNCHANGED <<user, edition, chatContext, announced, budget>>

\* Not oneself and not the administrator's account: those are never the user's here.
RemoveUser ==
    /\ Spend("profile") /\ ~user.deleted
    /\ user' = [user EXCEPT !.deleted = TRUE]
    /\ UNCHANGED <<cv, edition, parted, chatContext, handler, announced>>

\* A posting that was not deleted can be saved, an ended one too.
SaveJob(j) == user' = [user EXCEPT !.saved = IF user.deleted THEN @ ELSE @ \cup {j}]

UnsaveJob ==
    /\ Spend("profile") /\ ~user.deleted
    /\ \E j \in user.saved : user' = [user EXCEPT !.saved = @ \ {j}]
    /\ UNCHANGED <<cv, edition, parted, chatContext, handler, announced>>

-----------------------------------------------------------------------------
(***************************************************************************)
(* The CV profile.                                                         *)
(***************************************************************************)
\* The steps of an upsert once the CV has been read.  Mutant: the cached summary is
\* cleared before the CV is stored.
AfterClearingFirst(pc) ==
    CASE pc = "read-cv" -> "clear-context" [] pc = "clear-context" -> "store-cv"
      [] pc = "store-cv" -> "sync-user" [] pc = "sync-user" -> "idle"

After(pc) ==
    CASE pc = "read-cv" -> "store-cv" [] pc = "store-cv" -> "sync-user"
      [] pc = "sync-user" -> "clear-context" [] pc = "clear-context" -> "idle"

Proceeds(s, r) ==
    LET ends == After(r.pc) = "idle" IN
    /\ Serves(s, IF ends THEN Vacant ELSE [r EXCEPT !.pc = After(r.pc)])
    /\ announced' = IF ends /\ r.stored > announced THEN r.stored ELSE announced

\* Mutant: an avatar that is not sent is not kept.
SentAvatar(sent, existing, account) == sent

CanonicalAvatar(sent, existing, account) == Or(sent, Or(existing, account))

\* The account is read; an uploaded picture counts as an avatar that was sent.
UpsertCv(s) ==
    /\ SlotAt(s, "idle") /\ Spend("profile") /\ ~user.deleted
    /\ \E name \in Names, avatar \in Avatars \cup {Absent} :
          BeginsWriting(s, [pc |-> "read-cv", alone |-> FALSE, name |-> name, avatar |-> avatar,
                            account |-> user.avatar, exists |-> FALSE, stored |-> 0])
    /\ UNCHANGED <<profiles, chatContext, announced>>

BuildCanonicalCv(s) ==
    LET h == handler[s] IN
    /\ SlotAt(s, "read-cv")
    /\ Proceeds(s, [h EXCEPT !.exists = (cv # Absent), !.account = Absent,
           !.avatar = CanonicalAvatar(h.avatar, IF cv = Absent THEN Absent ELSE cv.avatar,
                                      h.account)])
    /\ UNCHANGED <<profiles, chatContext, budget>>

NewCv(name, avatar) == [name |-> name, avatar |-> avatar, active |-> TRUE]

StoresCv(s, c) ==
    /\ cv' = c /\ edition' = edition + 1
    /\ Proceeds(s, [handler[s] EXCEPT !.stored = edition + 1])
    /\ UNCHANGED <<user, parted, chatContext, budget>>

\* A CV is created where none was found, once, and updated where one was.
CreateCv(s) ==
    LET h == handler[s] IN
    /\ SlotAt(s, "store-cv") /\ ~h.exists /\ cv = Absent
    /\ StoresCv(s, NewCv(h.name, h.avatar))

UpdateCv(s) ==
    LET h == handler[s] IN
    /\ SlotAt(s, "store-cv") /\ h.exists /\ cv # Absent
    /\ StoresCv(s, [cv EXCEPT !.name = h.name, !.avatar = h.avatar])

\* The account was removed meanwhile; the CV was created by another request, or deleted.
UserRemoved(s) == SlotAt(s, "write-user") /\ user.deleted
CvChanged(s) == SlotAt(s, "store-cv") /\ handler[s].exists # (cv # Absent)

WriteRefused(s) ==
    /\ UserRemoved(s) \/ CvChanged(s)
    /\ Serves(s, Vacant)
    /\ UNCHANGED <<profiles, chatContext, announced, budget>>

SyncUserIdentityFromCv(s) ==
    LET h == handler[s] IN
    /\ SlotAt(s, "sync-user")
    /\ user' = IF user.deleted THEN user
               ELSE [user EXCEPT !.name = h.name, !.avatar = Or(h.avatar, @)]
    /\ Parts(h, TRUE)
    /\ Proceeds(s, h)
    /\ UNCHANGED <<cv, edition, chatContext, budget>>

ClearContext(s) ==
    /\ SlotAt(s, "clear-context")
    /\ chatContext' = Absent
    /\ Proceeds(s, handler[s])
    /\ UNCHANGED <<profiles, budget>>

\* A call fails; what was written stays.
WriterFails(s) ==
    /\ s \in Writers /\ Spend("fault")
    /\ parted' = (parted \/ handler[s].pc \in {"sync-cv", "sync-user"})
    /\ Serves(s, Vacant)
    /\ UNCHANGED <<user, cv, edition, chatContext, announced>>

DeleteCv ==
    /\ Spend("profile") /\ cv # Absent
    /\ cv' = Absent /\ edition' = edition + 1
    /\ UNCHANGED <<user, parted, chatContext, handler, announced>>

SetCvActive(active) ==
    /\ Spend("profile") /\ cv # Absent /\ cv.active # active
    /\ cv' = [cv EXCEPT !.active = active]
    /\ UNCHANGED <<user, edition, parted, chatContext, handler, announced>>

DeactivateCv == SetCvActive(FALSE)
ActivateCv == SetCvActive(TRUE)

-----------------------------------------------------------------------------
InitProfiles ==
    /\ \E name \in Names, avatar \in Avatars \cup {Absent}, role \in Roles, c \in Companies :
          /\ user = NewUser(name, avatar, role, c)
          /\ cv \in {Absent, NewCv(name, avatar)}
    /\ edition = 0 /\ announced = 0
    /\ chatContext = Absent
    /\ handler = [s \in Slots |-> Vacant]
    /\ parted = FALSE
    /\ budget \in Budgets

UserSteps ==
    \/ \E s \in Slots : UpdateUser(s) \/ WriteUser(s) \/ SyncCvIdentityFromUser(s)
    \/ RemoveUser \/ UnsaveJob

CvSteps ==
    \/ \E s \in Slots :
          \/ UpsertCv(s) \/ BuildCanonicalCv(s) \/ CreateCv(s) \/ UpdateCv(s)
          \/ WriteRefused(s) \/ SyncUserIdentityFromCv(s) \/ WriterFails(s)
    \/ DeleteCv \/ DeactivateCv \/ ActivateCv

-----------------------------------------------------------------------------
(***************************************************************************)
(* Properties.                                                             *)
(***************************************************************************)
\* What the CV page shows: the CV, or a draft made of the account.
CurrentUserCv == IF cv # Absent THEN cv ELSE [name |-> user.name, avatar |-> user.avatar]

\* While nobody writes, the CV page carries the name and the avatar of the account,
\* unless two writers overlapped or one failed between its two writes: an
\* administrator's update writes the account and then the CV, an upsert the CV and
\* then the account (users.service update, cv-profiles.service upsertCvProfile).
IdentityAgrees ==
    Writers = {} /\ ~parted /\ ~user.deleted =>
        CurrentUserCv.name = user.name /\ CurrentUserCv.avatar = user.avatar

ProfilesTyped ==
    /\ user.name \in Names /\ user.avatar \in Avatars \cup {Absent} /\ user.saved \subseteq Jobs
    /\ user.role = "HR" <=> user.company \in Companies
    /\ cv = Absent \/ (cv.name \in Names /\ cv.avatar \in Avatars \cup {Absent})
    /\ edition \in Nat /\ announced \in 0..edition
=============================================================================
