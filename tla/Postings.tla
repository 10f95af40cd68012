------------------------------ MODULE Postings ------------------------------
(***************************************************************************)
(* Postings, the companies they belong to, the applications they receive,  *)
(* and the cached dashboards that count them all.                          *)
(*                                                                         *)
(* A write reads first, writes by id, and then clears the cache entries it *)
(* had worked out from what it read; a dashboard is read, computed and     *)
(* stored.  Handlers run in slots and overlap; every awaited call on       *)
(* shared state is a step.  A posting's end date is known as lying ahead   *)
(* or past.                                                                *)
(***************************************************************************)
EXTENDS Integers, FiniteSets

CONSTANTS
    Slots,          \* handlers that overlap
    Companies,
    Ids,            \* bound: postings there can be
    Candidates,     \* bound: applications there can be
    MaxChanges,     \* bound: handlers that change something
    MaxViews,       \* bound: dashboards computed
    None

ASSUME SizeAssumption ==
    /\ IsFiniteSet(Slots) /\ IsFiniteSet(Companies) /\ IsFiniteSet(Ids)
    /\ IsFiniteSet(Candidates)
    /\ MaxChanges \in Nat /\ MaxViews \in Nat
ASSUME SweepAssumption == "sweep" \notin Slots

VARIABLES
    company,        \* per company: whether it is live
    posting,        \* per posting: its document
    application,    \* per application: its document
    cache,          \* per dashboard: the figures cached
    handler,        \* per slot: where its handler is
    sweep,          \* the hourly sweep of ended postings
    excused,        \* history: entries that may be out of date, and not by a race of the code
    rewritten,      \* history: postings written since the sweep found what it will switch off
    risen,          \* history: postings made active since a cascade switched postings off
    changes, views  \* bounds

vars == <<company, posting, application, cache, handler, sweep,
          excused, rewritten, risen, changes, views>>
data == <<company, posting, application>>
history == <<excused, rewritten, risen>>

-----------------------------------------------------------------------------
(***************************************************************************)
(* The figures.                                                            *)
(***************************************************************************)
Live(P) == {p \in P : posting[p].state = "live"}
PostedBy(c) == {p \in Live(Ids) : posting[p].of = c}

ApprovedActive(P) ==
    {p \in P : posting[p].approval = "approved" /\ posting[p].active /\ posting[p].ends = "later"}
PendingApproval(P) == {p \in P : posting[p].approval = "pending"}

\* What a viewer is listed: HR their company's, an administrator all, anyone else
\* the open ones.  One posting is shown by the same rule.
Listed(viewer) ==
    CASE viewer \in Companies -> PostedBy(viewer)
      [] viewer = "super admin" -> Live(Ids)
      [] OTHER -> ApprovedActive(Live(Ids))
Shown(p, viewer) == p \in Listed(viewer)

Expired(P) == {p \in P : posting[p].approval = "approved" /\ posting[p].ends = "past"}
HiringCompanies == {posting[p].of : p \in ApprovedActive(Live(Ids))}

Received == {r \in Candidates : application[r].state = "live"}
ReceivedBy(c) == {r \in Received : application[r].of = c}
Responded(R) == {r \in R : application[r].status # "pending"}
StatusDistribution(R) ==
    [st \in {"pending", "reviewing"} |-> Cardinality({r \in R : application[r].status = st})]
TopJobs(R) ==
    [p \in {application[r].job : r \in R} |-> Cardinality({r \in R : application[r].job = p})]

\* The counts of the last day; the trends of the last seven are counted alike.
CountNew(P) == Cardinality({p \in P : posting[p].age = "new"})
CountNewReceived(R) == Cardinality({r \in R : application[r].age = "new"})
Analysed(R) == {r \in R : application[r].analysed}

\* Each dashboard in halves that are queried apart.
AdminDashboard ==
    [postings |->
        [posted    |-> CountNew(Live(Ids)),
         active    |-> Cardinality(ApprovedActive(Live(Ids))),
         pending   |-> Cardinality(PendingApproval(Live(Ids))),
         hiring    |-> Cardinality(HiringCompanies),
         companies |-> Cardinality({c \in Companies : company[c] = "live"})],
     applications |->
        [applied   |-> CountNewReceived(Received),
         received  |-> Cardinality(Received),
         analysed  |-> Cardinality(Analysed(Received))]]

HrDashboard(c) ==
    [postings |->
        [active    |-> Cardinality(ApprovedActive(PostedBy(c))),
         pending   |-> Cardinality(PendingApproval(PostedBy(c))),
         expired   |-> Cardinality(Expired(PostedBy(c)))],
     applications |->
        [applied   |-> CountNewReceived(ReceivedBy(c)),
         scored    |-> Cardinality(Analysed(ReceivedBy(c))),
         statuses  |-> StatusDistribution(ReceivedBy(c)),
         responded |-> Cardinality(Responded(ReceivedBy(c))),
         jobs      |-> TopJobs(ReceivedBy(c))]]

\* Companies with open postings, in one query; a removed company is left out.
TopHiring ==
    [postings |->
        [c \in {d \in HiringCompanies : company[d] = "live"}
            |-> Cardinality(ApprovedActive(PostedBy(c)))]]

Keys == {"admin", "top"} \cup Companies

Figures(k) ==
    CASE k = "admin" -> AdminDashboard
      [] k = "top" -> TopHiring
      [] OTHER -> HrDashboard(k)

Outdated(k) == cache[k] # None /\ cache[k] # Figures(k)

-----------------------------------------------------------------------------
Idle == [pc |-> "idle", id |-> None, to |-> None, ids |-> {}, keys |-> {}, view |-> None]

At(s, pc) == handler[s].pc = pc
Goes(s, h) == handler' = [handler EXCEPT ![s] = h]
Ends(s) == Goes(s, Idle)
Clears(s, keys) == Goes(s, [Idle EXCEPT !.pc = "clear", !.keys = keys])
Changes == changes < MaxChanges /\ changes' = changes + 1

Rewrites(P) == IF sweep.pc = "found" THEN rewritten \cup P ELSE {}
Rises(p) == IF \E s \in Slots : At(s, "bulk remove company") THEN risen \cup {p} ELSE {}

\* The companies of the postings as they are read, and those of the postings
\* that have been moved to them since.
Owners(P) == [p \in P |-> posting[p].of]
MovedTo(view) == {posting[p].of : p \in {q \in DOMAIN view : posting[q].of # view[q]}}

\* What a change leaves out of date without having to clear it.
Excuses(keys) == excused' = excused \cup {k \in keys : cache[k] # None}

-----------------------------------------------------------------------------
(***************************************************************************)
(* Postings.                                                               *)
(***************************************************************************)
Create(s) ==
    /\ At(s, "idle") /\ Changes
    /\ \E c \in Companies :
          company[c] = "live" /\ Goes(s, [Idle EXCEPT !.pc = "create", !.to = c])
    /\ UNCHANGED <<data, cache, sweep, history, views>>

CreateInsert(s) ==
    LET c == handler[s].to IN
    /\ At(s, "create")
    /\ \E p \in Ids, active \in BOOLEAN, ends \in {"later", "past"} :
          /\ posting[p].state = "none"
          /\ posting' = [posting EXCEPT ![p] = [state |-> "live", of |-> c, active |-> active,
                                                approval |-> "pending", ends |-> ends, age |-> "new"]]
          /\ risen' = IF active THEN Rises(p) ELSE risen
    /\ Clears(s, {"admin", "top", c})
    /\ UNCHANGED <<company, application, cache, sweep, excused, rewritten, changes, views>>

\* Mutant: only the company the posting goes to is cleared.
ClearedByUpdateOfTarget(p, c) == {"admin", "top", IF c = None THEN posting[p].of ELSE c}

\* The company read first and the one the posting goes to.
ClearedByUpdate(p, c) == {"admin", "top", posting[p].of} \cup ({c} \ {None})

\* The posting is read, and the company it moves to, if it moves.
Update(s) ==
    /\ At(s, "idle") /\ Changes
    /\ \E p \in Live(Ids), c \in {None} \cup {d \in Companies : company[d] = "live"} :
          Goes(s, [Idle EXCEPT !.pc = "update", !.id = p, !.to = c, !.view = Owners({p}),
                               !.keys = ClearedByUpdate(p, c)])
    /\ UNCHANGED <<data, cache, sweep, history, views>>

Moved(p, c) == IF c = None THEN posting[p].of ELSE c

\* Written by id, whatever the posting has become since.  When it was moved in
\* between, the entry of its new company is not among those cleared.
UpdateWrite(s) ==
    LET p == handler[s].id IN
    /\ At(s, "update")
    /\ \E active \in BOOLEAN, ends \in {"later", "past"} :
          /\ posting' = [posting EXCEPT ![p].of = Moved(p, handler[s].to),
                                            ![p].active = active, ![p].ends = ends]
          /\ risen' = IF active THEN Rises(p) ELSE risen
    /\ Excuses(MovedTo(handler[s].view))
    /\ rewritten' = Rewrites({p})
    /\ Clears(s, handler[s].keys)
    /\ UNCHANGED <<company, application, cache, sweep, changes, views>>

ApproveJob(s) ==
    /\ At(s, "idle") /\ Changes
    /\ \E p \in Live(Ids) :
          Goes(s, [Idle EXCEPT !.pc = "approve", !.id = p, !.view = Owners({p}),
                               !.keys = {"admin", "top", posting[p].of}])
    /\ UNCHANGED <<data, cache, sweep, history, views>>

ApproveWrite(s) ==
    LET p == handler[s].id IN
    /\ At(s, "approve")
    /\ \E status \in {"approved", "rejected"} :
          posting' = [posting EXCEPT ![p].approval = status]
    /\ Excuses(MovedTo(handler[s].view))
    /\ Clears(s, handler[s].keys)
    /\ UNCHANGED <<company, application, cache, sweep, rewritten, risen, changes, views>>

\* One posting or several; the companies are those of the postings read.
Remove(s) ==
    /\ At(s, "idle") /\ Changes
    /\ \E P \in (SUBSET Live(Ids)) \ {{}} :
          Goes(s, [Idle EXCEPT !.pc = "remove", !.ids = P, !.view = Owners(P),
                               !.keys = {"admin", "top"} \cup {posting[p].of : p \in P}])
    /\ UNCHANGED <<data, cache, sweep, history, views>>

RemoveWrite(s) ==
    LET P == handler[s].ids IN
    /\ At(s, "remove")
    /\ posting' = [p \in Ids |-> IF p \in P THEN [posting[p] EXCEPT !.state = "removed"]
                                            ELSE posting[p]]
    /\ Excuses(MovedTo(handler[s].view))
    /\ rewritten' = Rewrites(P)
    /\ Clears(s, handler[s].keys)
    /\ UNCHANGED <<company, application, cache, sweep, risen, changes, views>>

-----------------------------------------------------------------------------
(***************************************************************************)
(* Companies.  Removing one leaves its postings as they are; removing      *)
(* several at once switches their postings off first.                      *)
(***************************************************************************)
RemoveCompany(s) ==
    /\ At(s, "idle") /\ Changes
    /\ \E c \in Companies :
          company[c] = "live" /\ Goes(s, [Idle EXCEPT !.pc = "remove company", !.ids = {c}])
    /\ UNCHANGED <<data, cache, sweep, history, views>>

\* Mutant: only the approved postings are switched off.
DeactivatedApproved(C) ==
    {p \in Live(Ids) : posting[p].of \in C /\ posting[p].active /\ posting[p].approval = "approved"}

Deactivated(C) == {p \in Live(Ids) : posting[p].of \in C /\ posting[p].active}

\* Any companies, unchecked.  The dashboards that counted the postings are not cleared.
BulkRemoveCompanies(s) ==
    /\ At(s, "idle") /\ Changes
    /\ \E C \in (SUBSET Companies) \ {{}} :
          /\ posting' = [p \in Ids |-> IF p \in Deactivated(C)
                                       THEN [posting[p] EXCEPT !.active = FALSE] ELSE posting[p]]
          /\ risen' = {p \in risen : posting[p].of \notin C}
          /\ Excuses({"admin", "top"} \cup C)
          /\ Goes(s, [Idle EXCEPT !.pc = "bulk remove company", !.ids = C])
    /\ UNCHANGED <<company, application, cache, sweep, rewritten, views>>

RemoveCompanyWrite(s) ==
    /\ At(s, "remove company") \/ At(s, "bulk remove company")
    /\ company' = [c \in Companies |-> IF c \in handler[s].ids THEN "removed" ELSE company[c]]
    /\ risen' = IF \E t \in Slots \ {s} : At(t, "bulk remove company") THEN risen ELSE {}
    /\ Excuses({"admin"})
    /\ Clears(s, {"top"})
    /\ UNCHANGED <<posting, application, cache, sweep, rewritten, changes, views>>

-----------------------------------------------------------------------------
(***************************************************************************)
(* Applications.                                                           *)
(***************************************************************************)
\* A posting that can be found is read, and the application carries its company.
Apply(s) ==
    /\ At(s, "idle") /\ Changes
    /\ \E p \in Ids :
          /\ Shown(p, "anyone")
          /\ Goes(s, [Idle EXCEPT !.pc = "apply", !.id = p, !.to = posting[p].of])
    /\ UNCHANGED <<data, cache, sweep, history, views>>

Sent(c, p, analysed) ==
    [state |-> "live", of |-> c, job |-> p, status |-> "pending", age |-> "new", analysed |-> analysed]

\* By upload, or with the profile kept online, which is analysed at once.
\* Neither clears the dashboards.
ApplyInsert(s) ==
    /\ At(s, "apply")
    /\ \E r \in Candidates, online \in BOOLEAN :
          /\ application[r].state = "none"
          /\ application' = [application EXCEPT ![r] = Sent(handler[s].to, handler[s].id, online)]
    /\ Excuses({"admin", handler[s].to})
    /\ Ends(s)
    /\ UNCHANGED <<company, posting, cache, sweep, rewritten, risen, changes, views>>

\* Entered by staff, for a posting they see and its company; nobody looks either up.
CreateResume(s) ==
    /\ At(s, "idle") /\ Changes
    /\ \E r \in Candidates, p \in Live(Ids) :
          /\ application[r].state = "none"
          /\ application' = [application EXCEPT ![r] = Sent(posting[p].of, p, FALSE)]
          /\ Clears(s, {"admin", posting[p].of})
    /\ UNCHANGED <<company, posting, cache, sweep, history, views>>

\* One that is not analysed is, by the pipeline, which clears them.
SaveAnalysis(s) ==
    /\ At(s, "idle")
    /\ \E r \in Candidates :
          /\ application[r].state # "none" /\ ~application[r].analysed
          /\ application' = [application EXCEPT ![r].analysed = TRUE]
          /\ Clears(s, {"admin", application[r].of})
    /\ UNCHANGED <<company, posting, cache, sweep, history, changes, views>>

ChangeApplication(s) ==
    /\ At(s, "idle") /\ Changes
    /\ \E r \in Received :
          Goes(s, [Idle EXCEPT !.pc = "change application", !.id = r,
                               !.keys = {"admin", application[r].of}])
    /\ UNCHANGED <<data, cache, sweep, history, views>>

\* Its status, or its removal.
ChangeApplicationWrite(s) ==
    LET r == handler[s].id IN
    /\ At(s, "change application")
    /\ application' \in {[application EXCEPT ![r].status = "reviewing"],
                         [application EXCEPT ![r].state = "removed"]}
    /\ Clears(s, handler[s].keys)
    /\ UNCHANGED <<company, posting, cache, sweep, history, changes, views>>

-----------------------------------------------------------------------------
(***************************************************************************)
(* The dashboards.                                                         *)
(***************************************************************************)
\* The entries are cleared by commands sent together, which arrive as one.
Clear(s) ==
    LET keys == handler[s].keys IN
    /\ At(s, "clear")
    /\ cache' = [k \in Keys |-> IF k \in keys THEN None ELSE cache[k]]
    /\ excused' = excused \ keys
    /\ Ends(s)
    /\ UNCHANGED <<data, sweep, rewritten, risen, changes, views>>

\* The halves are queried together and answered in either order.
Dashboard(s) ==
    /\ At(s, "idle")
    /\ views < MaxViews /\ views' = views + 1
    /\ \E k \in Keys : \E half \in DOMAIN Figures(k) :
          /\ cache[k] = None
          /\ Goes(s, [Idle EXCEPT !.pc = IF k = "top" THEN "fill" ELSE "compute", !.id = k,
                                  !.view = [h \in {half} |-> Figures(k)[h]]])
    /\ UNCHANGED <<data, cache, sweep, history, changes>>

Completed(k, view) ==
    [h \in DOMAIN Figures(k) |-> IF h \in DOMAIN view THEN view[h] ELSE Figures(k)[h]]

DashboardRest(s) ==
    /\ At(s, "compute")
    /\ Goes(s, [Idle EXCEPT !.pc = "fill", !.id = handler[s].id,
                            !.view = Completed(handler[s].id, handler[s].view)])
    /\ UNCHANGED <<data, cache, sweep, history, changes, views>>

\* What was computed is stored, although it may have changed meanwhile.
DashboardFill(s) ==
    LET k == handler[s].id IN
    /\ At(s, "fill")
    /\ cache' = [cache EXCEPT ![k] = handler[s].view]
    /\ excused' = IF handler[s].view = Figures(k) THEN excused \ {k} ELSE excused \cup {k}
    /\ Ends(s)
    /\ UNCHANGED <<data, sweep, rewritten, risen, changes, views>>

CacheExpires ==
    /\ \E k \in Keys :
          /\ cache[k] # None
          /\ cache' = [cache EXCEPT ![k] = None]
          /\ excused' = excused \ {k}
    /\ UNCHANGED <<data, handler, sweep, rewritten, risen, changes, views>>

-----------------------------------------------------------------------------
(***************************************************************************)
(* The sweep: ended postings are looked for, switched off by their ids,    *)
(* and their entries cleared.                                              *)
(***************************************************************************)
Ended(p) == posting[p].state = "live" /\ posting[p].active /\ posting[p].ends = "past"

Asleep == [pc |-> "idle", ids |-> {}, view |-> <<>>, keys |-> {}]

FindExpiredJobs ==
    /\ sweep.pc = "idle"
    /\ {p \in Ids : Ended(p)} # {}
    /\ LET P == {p \in Ids : Ended(p)} IN
          sweep' = [pc |-> "found", ids |-> P, view |-> Owners(P),
                    keys |-> {"admin", "top"} \cup {posting[p].of : p \in P}]
    /\ UNCHANGED <<data, cache, handler, excused, rewritten, risen, changes, views>>

\* Mutant: every active posting of the companies found is switched off.
SwitchedOffWithAll(P) == {p \in Live(Ids) : posting[p].of \in {posting[q].of : q \in P}}

SwitchedOff(P) == P

DeactivateExpired ==
    LET P == SwitchedOff(sweep.ids) IN
    /\ sweep.pc = "found"
    /\ posting' = [p \in Ids |-> IF p \in P THEN [posting[p] EXCEPT !.active = FALSE]
                                            ELSE posting[p]]
    /\ Excuses(MovedTo(sweep.view))
    /\ rewritten' = {}
    /\ sweep' = [Asleep EXCEPT !.pc = "clear", !.keys = sweep.keys]
    /\ UNCHANGED <<company, application, cache, handler, risen, changes, views>>

SweepClear ==
    /\ sweep.pc = "clear"
    /\ cache' = [k \in Keys |-> IF k \in sweep.keys THEN None ELSE cache[k]]
    /\ excused' = excused \ sweep.keys
    /\ sweep' = Asleep
    /\ UNCHANGED <<data, handler, rewritten, risen, changes, views>>

-----------------------------------------------------------------------------
\* What was new is not new any more.
DayPasses ==
    /\ \/ \E p \in Ids : posting[p].age = "new"
       \/ \E r \in Candidates : application[r].age = "new"
    /\ posting' = [p \in Ids |-> [posting[p] EXCEPT !.age = "old"]]
    /\ application' = [r \in Candidates |-> [application[r] EXCEPT !.age = "old"]]
    /\ Excuses(Keys)
    /\ UNCHANGED <<company, cache, handler, sweep, rewritten, risen, changes, views>>

\* A posting's end date comes.
EndComes(p) ==
    /\ posting[p].state = "live" /\ posting[p].ends = "later"
    /\ posting' = [posting EXCEPT ![p].ends = "past"]
    /\ Excuses({"admin", "top", posting[p].of})
    /\ UNCHANGED <<company, application, cache, handler, sweep, rewritten, risen, changes, views>>

-----------------------------------------------------------------------------
Init ==
    /\ company = [c \in Companies |-> "live"]
    /\ posting \in [Ids -> {[state |-> "none", of |-> None, active |-> FALSE,
                             approval |-> "pending", ends |-> "later", age |-> "old"]}
                           \cup [state : {"live"}, of : Companies, active : {TRUE},
                                 approval : {"approved"}, ends : {"later"}, age : {"old"}]]
    /\ application = [r \in Candidates |-> [state |-> "none", of |-> None, job |-> None,
                                            status |-> "pending", age |-> "old", analysed |-> FALSE]]
    /\ cache = [k \in Keys |-> None]
    /\ handler = [s \in Slots |-> Idle]
    /\ sweep = Asleep
    /\ excused = {} /\ rewritten = {} /\ risen = {}
    /\ changes = 0 /\ views = 0

PostingSteps(s) ==
    \/ Create(s) \/ CreateInsert(s) \/ Update(s) \/ UpdateWrite(s)
    \/ ApproveJob(s) \/ ApproveWrite(s) \/ Remove(s) \/ RemoveWrite(s)

CompanySteps(s) ==
    \/ RemoveCompany(s) \/ BulkRemoveCompanies(s) \/ RemoveCompanyWrite(s)

ApplicationSteps(s) ==
    \/ Apply(s) \/ ApplyInsert(s) \/ CreateResume(s) \/ SaveAnalysis(s)
    \/ ChangeApplication(s) \/ ChangeApplicationWrite(s)

SweepSteps == FindExpiredJobs \/ DeactivateExpired \/ SweepClear

Next ==
    \/ \E s \in Slots :
          PostingSteps(s) \/ CompanySteps(s) \/ ApplicationSteps(s)
          \/ Clear(s) \/ Dashboard(s) \/ DashboardRest(s) \/ DashboardFill(s)
    \/ SweepSteps \/ CacheExpires
    \/ \E p \in Ids : EndComes(p)
    \/ DayPasses

Spec == Init /\ [][Next]_vars

-----------------------------------------------------------------------------
Document ==
    [state : {"none", "live", "removed"}, of : Companies \cup {None}, active : BOOLEAN,
     approval : {"pending", "approved", "rejected"}, ends : {"later", "past"}, age : {"new", "old"}]

Application ==
    [state : {"none", "live", "removed"}, of : Companies \cup {None}, job : Ids \cup {None},
     status : {"pending", "reviewing"}, age : {"new", "old"}, analysed : BOOLEAN]

Steps == {"idle", "create", "update", "approve", "remove", "remove company",
          "bulk remove company", "apply", "change application", "clear", "compute", "fill"}

\* What a handler holds at each step it waits at.
HandlerType(h) ==
    /\ h.pc \in Steps /\ h.keys \subseteq Keys
    /\ h.pc \in {"create", "apply"} => h.to \in Companies
    /\ h.pc \in {"remove company", "bulk remove company"} => h.ids \subseteq Companies
    /\ h.pc = "update" => h.to \in Companies \cup {None}
    /\ h.pc \in {"update", "approve", "apply"} => h.id \in Ids
    /\ h.pc = "remove" => h.ids \subseteq Ids
    /\ h.pc = "change application" => h.id \in Candidates
    /\ h.pc \in {"compute", "fill"} => h.id \in Keys

\* Every variable keeps its type, and a document names the company it is of.
TypeOK ==
    /\ company \in [Companies -> {"live", "removed"}]
    /\ posting \in [Ids -> Document]
    /\ \A p \in Ids : posting[p].state # "none" => posting[p].of \in Companies
    /\ application \in [Candidates -> Application]
    /\ \A r \in Candidates :
          application[r].state # "none" =>
              application[r].of \in Companies /\ application[r].job \in Ids
    /\ DOMAIN cache = Keys /\ DOMAIN handler = Slots
    /\ \A s \in Slots : HandlerType(handler[s])
    /\ sweep.pc \in {"idle", "found", "clear"}
    /\ sweep.ids \subseteq Ids /\ sweep.keys \subseteq Keys
    /\ excused \subseteq Keys /\ rewritten \subseteq Ids /\ risen \subseteq Ids
    /\ changes \in 0 .. MaxChanges /\ views \in 0 .. MaxViews

\* A cached dashboard shows the figures of now, or someone is about to clear it,
\* unless it was queried, in part or whole, before a change and stored after it, an end date came,
\* a day passed, someone applied, a company was removed, or a posting
\* was moved to another company while a handler held it (StatisticsCacheService and
\* the clearing at the end of every change in JobsService and ResumesService).
CachesSettle ==
    \A k \in Keys :
        Outdated(k) => \/ k \in excused
                       \/ \E s \in Slots : At(s, "clear") /\ k \in handler[s].keys
                       \/ sweep.pc = "clear" /\ k \in sweep.keys

\* The sweep switches a posting off only if its end has come, or someone wrote
\* it after the sweep had found it (handleExpiredJobs reads, then updates by id).
SwitchedOffHasEnded ==
    [][\A p \in Ids :
          (DeactivateExpired /\ posting[p].active /\ ~posting'[p].active)
              => Ended(p) \/ p \in rewritten]_vars

\* When the removal of several companies removes one, its active postings are
\* those made active after the removal had switched them off
\* (CompaniesService.bulkRemove).
CascadeHolds ==
    [][\A s \in Slots :
          (At(s, "bulk remove company") /\ RemoveCompanyWrite(s))
              => \A c \in handler[s].ids : \A p \in PostedBy(c) : posting[p].active => p \in risen]_vars

\* The cache as the rest of the system sees it: what the documents say, the entries each
\* handler and the sweep are about to clear, and what a handler has computed and is about
\* to store.
Clients == Slots \cup {"sweep"}

Answers == [k \in Keys |-> {Figures(k)}]
PromisedBy(c) ==
    IF c = "sweep" THEN IF sweep.pc = "clear" THEN sweep.keys ELSE {}
    ELSE IF At(c, "clear") THEN handler[c].keys ELSE {}
Promised == [c \in Clients |-> PromisedBy(c)]
CarriedBy(c) ==
    IF c # "sweep" /\ At(c, "fill") THEN {<<handler[c].id, handler[c].view>>} ELSE {}
Carried == [c \in Clients |-> CarriedBy(c)]

Cache == INSTANCE ReadThrough WITH
    Drifting <- Keys, answer <- Answers, promised <- Promised, carried <- Carried,
    late <- excused

\* The dashboards are read through a cache that keeps its promises, with figures that may
\* drift: a change clears what it touches or leaves it known as late, and what is stored is
\* what the same request has put together (StatisticsCacheService and its callers).
ReadsThrough == Cache!Spec
=============================================================================
