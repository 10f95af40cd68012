--------------------------- MODULE AccountDeletion ---------------------------
(***************************************************************************)
(* The grace-period deletion of ONE account.  Every document, cache key    *)
(* and job the code touches here is keyed by the user id, so accounts do   *)
(* not interact and one of them stands for all.                            *)
(*                                                                         *)
(* Three kinds of actors interleave, one awaited call per step:            *)
(*   - HTTP handlers: request the deletion, cancel it (signed in, or with  *)
(*     the mailed link), sign in, write personal data;                     *)
(*   - BullMQ, which holds at most one job under the id of the account;    *)
(*   - the queue processor that runs the cascade, fails and is retried.    *)
(***************************************************************************)
EXTENDS Integers, Sequences

CONSTANTS
    Handlers,       \* HTTP requests; each serves one call
    Grace,          \* GRACE_PERIOD_MS, in ticks of the model's clock
    MaxLatency,     \* an HTTP request ends within this many ticks
    MaxTime,        \* bound: the clock stops here
    MaxAttempts,    \* attempts of the job
    MaxStalls,      \* how often BullMQ takes back a job whose worker died
    FaultKinds,     \* which faults of the environment may happen
    MaxFaults,      \* bound: how many of them
    WriteKinds      \* the kinds of personal data requests write

ASSUME TimeAssumption ==
    /\ Grace \in Nat /\ MaxLatency \in Nat /\ MaxTime \in Nat
    /\ MaxLatency < Grace
ASSUME QueueAssumption ==
    MaxAttempts \in Nat \ {0} /\ MaxStalls \in Nat /\ MaxFaults \in Nat
ASSUME FaultAssumption ==
    FaultKinds \subseteq {"abort", "removeFails", "cacheLost", "stepFails",
                          "workerCrash"}

None == -1                      \* an absent date, datum or cache entry
Cascade == <<"sessions", "resumes", "cvProfile", "chat", "subscriber">>
Kinds == {Cascade[i] : i \in 1..Len(Cascade)}

ASSUME WriteAssumption == WriteKinds \subseteq Kinds
ASSUME HandlerAssumption == None \notin Handlers

VARIABLES
    now,            \* the clock both processes read
    sched,          \* user.scheduledDeletionAt, or None
    anonymised,     \* the user record is anonymised and inactive
    deleted,        \* user.isDeleted
    store,          \* per kind: when the request that wrote the data began
    job,            \* the job delete-account-<userId>
    worker,         \* the processor
    links,          \* cancel_deletion:<token>: the entry's expiry
    ownerLink,      \* cancel_deletion_user:<userId>: the token it names
    handler,        \* the HTTP requests
    faults,         \* how many faults have happened
    withdrawn,      \* history: see CancelledSurvives
    erasedSince     \* history: when the attempt that deleted the user began

accountVars == <<sched, anonymised, deleted, store>>
queueVars == <<job, worker>>
cacheVars == <<links, ownerLink>>
history == <<withdrawn, erasedSince>>
vars == <<now, sched, anonymised, deleted, store, job, worker, links,
          ownerLink, handler, faults, withdrawn, erasedSince>>

-----------------------------------------------------------------------------
Pending == sched > now          \* None is below every time

\* Mutant: the account check forgets a pending deletion.
AdmittedWhilePending == ~anonymised /\ ~deleted

\* assertAuthenticatedAccountState, and that the e-mail still finds the user
Admitted == ~anonymised /\ ~deleted /\ ~Pending

InFlight(r) == handler[r].pc \notin {"idle", "done"} /\ ~handler[r].dead

At(r, op, pc) ==
    InFlight(r) /\ handler[r].op = op /\ handler[r].pc = pc

Fresh == [op |-> "none", pc |-> "idle", born |-> 0, date |-> None,
          link |-> None, kind |-> "none", dead |-> FALSE, dup |-> FALSE]

Begin(r, op, pc) ==
    [Fresh EXCEPT !.op = op, !.pc = pc, !.born = now]

Goto(r, pc) == handler' = [handler EXCEPT ![r].pc = pc]

\* The handler returned: what it held is gone, what it promised is not.
Finish(r) ==
    handler' = [handler EXCEPT ![r] = [Fresh EXCEPT !.op = handler[r].op,
                                                    !.pc = "done",
                                                    !.date = handler[r].date,
                                                    !.dup = handler[r].dup]]

Fault(kind) ==
    /\ kind \in FaultKinds
    /\ faults < MaxFaults
    /\ faults' = faults + 1

NoJob == [state |-> "none", due |-> 0, attempts |-> 0, stalls |-> 0]

Idle == [pc |-> "idle", next |-> 1, since |-> 0, link |-> None]

Init ==
    /\ now = 0
    /\ sched = None
    /\ anonymised = FALSE
    /\ deleted = FALSE
    /\ store = [k \in Kinds |-> 0]
    /\ job = NoJob
    /\ worker = Idle
    /\ links = [t \in Handlers |-> None]
    /\ ownerLink = None
    /\ handler = [r \in Handlers |-> Fresh]
    /\ faults = 0
    /\ withdrawn = FALSE
    /\ erasedSince = None

-----------------------------------------------------------------------------
(* DELETE auth/account                                                     *)

\* The guard's and the service's reads of the user.  The second decides: a
\* call the first lets in and the second refuses changes nothing.  The bound
\* leaves the job of the last request the time to fall due.
RequestRead(r) ==
    /\ handler[r].pc = "idle"
    /\ Admitted
    /\ now + MaxLatency + Grace <= MaxTime
    /\ handler' = [handler EXCEPT ![r] = Begin(r, "delete", "schedule")]
    /\ UNCHANGED <<now, accountVars, queueVars, cacheVars, faults, history>>

RequestSchedule(r) ==
    /\ At(r, "delete", "schedule")
    /\ sched' = now + Grace
    /\ withdrawn' = FALSE
    /\ handler' = [handler EXCEPT ![r].pc = "revoke", ![r].date = now + Grace]
    /\ UNCHANGED <<now, anonymised, deleted, store, queueVars, cacheVars, faults,
                   erasedSince>>

RequestRevoke(r) ==
    /\ At(r, "delete", "revoke")
    /\ store' = [store EXCEPT !["sessions"] = None]
    /\ Goto(r, "enqueue")
    /\ UNCHANGED <<now, sched, anonymised, deleted, queueVars, cacheVars,
                   faults, history>>

\* Mutant: the job is added without its delay.
RequestEnqueueNow(r) ==
    /\ At(r, "delete", "enqueue")
    /\ job' = IF job.state = "none"
              THEN [NoJob EXCEPT !.state = "waiting", !.due = now]
              ELSE job
    /\ handler' = [handler EXCEPT ![r].pc = "mintLink",
                                  ![r].dup = (job.state # "none")]
    /\ UNCHANGED <<now, accountVars, worker, cacheVars, faults, history>>

\* queue.add under a fixed job id: while any job holds the id, whatever its
\* state, the call succeeds and adds nothing.
RequestEnqueue(r) ==
    /\ At(r, "delete", "enqueue")
    /\ job' = IF job.state = "none"
              THEN [NoJob EXCEPT !.state = "waiting", !.due = now + Grace]
              ELSE job
    /\ handler' = [handler EXCEPT ![r].pc = "mintLink",
                                  ![r].dup = (job.state # "none")]
    /\ UNCHANGED <<now, accountVars, worker, cacheVars, faults, history>>

RequestMintLink(r) ==
    /\ At(r, "delete", "mintLink")
    /\ links' = [links EXCEPT ![r] = now + Grace]
    /\ Goto(r, "mintOwner")
    /\ UNCHANGED <<now, accountVars, queueVars, ownerLink, faults, history>>

\* The last state change of the handler; the mail that follows is best effort.
RequestMintOwner(r) ==
    /\ At(r, "delete", "mintOwner")
    /\ ownerLink' = r
    /\ Finish(r)
    /\ UNCHANGED <<now, accountVars, queueVars, links, faults, history>>

-----------------------------------------------------------------------------
(* POST auth/account/cancel-deletion and .../cancel-deletion-by-token      *)

\* The access guard refuses a pending account, so the signed-in form gets
\* past it only before the schedule is written or once it has expired.
CancelGuard(r) ==
    /\ handler[r].pc = "idle"
    /\ Admitted
    /\ handler' = [handler EXCEPT ![r] = Begin(r, "cancel", "read")]
    /\ UNCHANGED <<now, accountVars, queueVars, cacheVars, faults, history>>

CancelRead(r) ==
    /\ At(r, "cancel", "read")
    /\ IF sched = None \/ sched < now THEN Finish(r) ELSE Goto(r, "remove")
    /\ UNCHANGED <<now, accountVars, queueVars, cacheVars, faults, history>>

\* The owner has the link once the request that minted it has sent its mail.
LinkLookup(r, t) ==
    /\ handler[r].pc = "idle"
    /\ handler[t].pc = "done"
    /\ links[t] > now
    /\ handler' = [handler EXCEPT ![r] = Begin(r, "link", "read")]
    /\ UNCHANGED <<now, accountVars, queueVars, cacheVars, faults, history>>

\* A refusal of the link form still clears the link.
LinkRead(r) ==
    /\ At(r, "link", "read")
    /\ Goto(r, IF sched = None \/ sched < now THEN "clearGet" ELSE "remove")
    /\ UNCHANGED <<now, accountVars, queueVars, cacheVars, faults, history>>

\* queue.remove leaves a job alone that a worker has locked ...
RemoveJob(r) ==
    /\ InFlight(r) /\ handler[r].pc = "remove"
    /\ job' = IF job.state = "active" THEN job ELSE NoJob
    /\ Goto(r, "unset")
    /\ UNCHANGED <<now, accountVars, worker, cacheVars, faults, history>>

\* ... and an error of the call is logged and swallowed.
RemoveJobFails(r) ==
    /\ InFlight(r) /\ handler[r].pc = "remove"
    /\ Fault("removeFails")
    /\ Goto(r, "unset")
    /\ UNCHANGED <<now, accountVars, queueVars, cacheVars, history>>

PastGuard == worker.pc \in {"erase", "linkGet", "linkDrop", "anonymise",
                            "softDelete"}

UnsetSchedule(r) ==
    /\ InFlight(r) /\ handler[r].pc = "unset"
    /\ sched' = None
    /\ withdrawn' = (~PastGuard /\ ~anonymised)
    /\ Goto(r, "clearGet")
    /\ UNCHANGED <<now, anonymised, deleted, store, queueVars, cacheVars, faults,
                   erasedSince>>

\* clearCancelDeletionToken: which link the account's entry names, then both
\* deletions (nothing tells the two apart).  The entry expires with its link.
ClearGet(r) ==
    /\ InFlight(r) /\ handler[r].pc = "clearGet"
    /\ handler' = [handler EXCEPT ![r].pc = "clearDrop", ![r].link = ownerLink]
    /\ UNCHANGED <<now, accountVars, queueVars, cacheVars, faults, history>>

Drop(t) ==
    /\ links' = [u \in Handlers |-> IF u = t THEN None ELSE links[u]]
    /\ ownerLink' = None

ClearDrop(r) ==
    /\ InFlight(r) /\ handler[r].pc = "clearDrop"
    /\ Drop(handler[r].link)
    /\ Finish(r)
    /\ UNCHANGED <<now, accountVars, queueVars, faults, history>>

-----------------------------------------------------------------------------
(* Any other request of the user: a sign-in or a token refresh (kind       *)
(* "sessions") or a write of personal data.  Checked, then written.        *)

WriteGuard(r, k) ==
    /\ handler[r].pc = "idle"
    /\ Admitted
    /\ handler' = [handler EXCEPT ![r] =
                     [Begin(r, "write", "write") EXCEPT !.kind = k]]
    /\ UNCHANGED <<now, accountVars, queueVars, cacheVars, faults, history>>

Write(r) ==
    /\ At(r, "write", "write")
    /\ store' = [store EXCEPT ![handler[r].kind] = handler[r].born]
    /\ Finish(r)
    /\ UNCHANGED <<now, sched, anonymised, deleted, queueVars, cacheVars,
                   faults, history>>

-----------------------------------------------------------------------------
(* The processor                                                           *)

TakeJob ==
    /\ worker.pc = "idle" /\ job.state = "waiting" /\ job.due <= now
    /\ job' = [job EXCEPT !.state = "active"]
    /\ worker' = [pc |-> "load", next |-> 1, since |-> now, link |-> None]
    /\ UNCHANGED <<now, accountVars, cacheVars, handler, faults, history>>

\* Mutant: the processor trusts the job.
LoadUserUnchecked ==
    /\ worker.pc = "load"
    /\ worker' = [worker EXCEPT !.pc = "erase"]
    /\ UNCHANGED <<now, accountVars, job, cacheVars, handler, faults, history>>

\* The guard against a cancelled deletion: only that a schedule is there.
LoadUser ==
    /\ worker.pc = "load"
    /\ worker' = [worker EXCEPT !.pc = IF sched = None THEN "finish" ELSE "erase"]
    /\ UNCHANGED <<now, accountVars, job, cacheVars, handler, faults, history>>

\* Mutant: the cascade stops one kind short.
EraseKindShort ==
    /\ worker.pc = "erase"
    /\ store' = [store EXCEPT ![Cascade[worker.next]] = None]
    /\ worker' = [worker EXCEPT
                    !.next = @ + 1,
                    !.pc = IF worker.next = 1 THEN "linkGet"
                           ELSE IF worker.next = Len(Cascade) - 1 THEN "anonymise"
                           ELSE "erase"]
    /\ UNCHANGED <<now, sched, anonymised, deleted, job, cacheVars, handler,
                   faults, history>>

\* Steps 1 to 5, in the order of Cascade; the link goes after the sessions.
EraseKind ==
    /\ worker.pc = "erase"
    /\ store' = [store EXCEPT ![Cascade[worker.next]] = None]
    /\ worker' = [worker EXCEPT
                    !.next = @ + 1,
                    !.pc = IF worker.next = 1 THEN "linkGet"
                           ELSE IF worker.next = Len(Cascade) THEN "anonymise"
                           ELSE "erase"]
    /\ UNCHANGED <<now, sched, anonymised, deleted, job, cacheVars, handler,
                   faults, history>>

CascadeLinkGet ==
    /\ worker.pc = "linkGet"
    /\ worker' = [worker EXCEPT !.pc = "linkDrop", !.link = ownerLink]
    /\ UNCHANGED <<now, accountVars, job, cacheVars, handler, faults, history>>

CascadeLinkDrop ==
    /\ worker.pc = "linkDrop"
    /\ Drop(worker.link)
    /\ worker' = [worker EXCEPT !.pc = "erase"]
    /\ UNCHANGED <<now, accountVars, job, handler, faults, history>>

\* Step 6 also unsets scheduledDeletionAt.
AnonymiseUser ==
    /\ worker.pc = "anonymise"
    /\ anonymised' = TRUE
    /\ sched' = None
    /\ worker' = [worker EXCEPT !.pc = "softDelete"]
    /\ UNCHANGED <<now, deleted, store, job, cacheVars, handler, faults, history>>

\* Step 7; the mail of step 8 is best effort.
SoftDeleteUser ==
    /\ worker.pc = "softDelete"
    /\ deleted' = TRUE
    /\ erasedSince' = IF deleted THEN erasedSince ELSE worker.since
    /\ worker' = [worker EXCEPT !.pc = "finish"]
    /\ UNCHANGED <<now, sched, anonymised, store, job, cacheVars, handler,
                   faults, withdrawn>>

\* The handler returned: BullMQ removes the completed job in a call of its own.
CompleteJob ==
    /\ worker.pc = "finish"
    /\ job' = NoJob
    /\ worker' = Idle
    /\ UNCHANGED <<now, accountVars, cacheVars, handler, faults, history>>

\* A step throws: retried after a back-off far below a tick, or kept as
\* failed (removeOnFail is false) after the last attempt.
StepFails ==
    /\ worker.pc \notin {"idle", "finish"}
    /\ Fault("stepFails")
    /\ job' = [job EXCEPT
                 !.attempts = @ + 1,
                 !.state = IF job.attempts + 1 < MaxAttempts THEN "waiting"
                           ELSE "failed"]
    /\ worker' = Idle
    /\ UNCHANGED <<now, accountVars, cacheVars, handler, history>>

\* Mutant: the job dies with the process.
WorkerCrashForGood ==
    /\ worker.pc # "idle"
    /\ Fault("workerCrash")
    /\ job' = NoJob
    /\ worker' = Idle
    /\ UNCHANGED <<now, accountVars, cacheVars, handler, history>>

\* The process dies: the job's lock expires and the stalled check takes the
\* job back, MaxStalls times.
WorkerCrash ==
    /\ worker.pc # "idle"
    /\ Fault("workerCrash")
    /\ job' = [job EXCEPT
                 !.stalls = @ + 1,
                 !.state = IF job.stalls < MaxStalls THEN "waiting" ELSE "failed"]
    /\ worker' = Idle
    /\ UNCHANGED <<now, accountVars, cacheVars, handler, history>>

-----------------------------------------------------------------------------
(* The environment                                                         *)

\* A call of the handler throws, or its process dies: it does nothing more.
Abort(r) ==
    /\ InFlight(r)
    /\ Fault("abort")
    /\ handler' = [handler EXCEPT ![r].dead = TRUE]
    /\ UNCHANGED <<now, accountVars, queueVars, cacheVars, history>>

\* A restart or an eviction empties the cache.
CacheLost ==
    /\ ownerLink # None
    /\ Fault("cacheLost")
    /\ links' = [t \in Handlers |-> None]
    /\ ownerLink' = None
    /\ UNCHANGED <<now, accountVars, queueVars, handler, history>>

Tick ==
    /\ now < MaxTime
    /\ \A r \in Handlers : InFlight(r) => now < handler[r].born + MaxLatency
    /\ now' = now + 1
    /\ UNCHANGED <<accountVars, queueVars, cacheVars, handler, faults, history>>

-----------------------------------------------------------------------------
Request(r) ==
    \/ RequestSchedule(r) \/ RequestRevoke(r) \/ RequestEnqueue(r)
    \/ RequestMintLink(r) \/ RequestMintOwner(r)

Cancel(r) ==
    \/ CancelRead(r) \/ LinkRead(r) \/ RemoveJob(r) \/ RemoveJobFails(r)
    \/ UnsetSchedule(r) \/ ClearGet(r) \/ ClearDrop(r)

Arrive(r) ==
    \/ RequestRead(r)
    \/ CancelGuard(r)
    \/ \E t \in Handlers : LinkLookup(r, t)
    \/ \E k \in WriteKinds : WriteGuard(r, k)

Process ==
    \/ TakeJob \/ LoadUser \/ EraseKind \/ CascadeLinkGet \/ CascadeLinkDrop
    \/ AnonymiseUser \/ SoftDeleteUser \/ CompleteJob

Next ==
    \/ \E r \in Handlers : Arrive(r) \/ Request(r) \/ Cancel(r) \/ Write(r) \/ Abort(r)
    \/ Process
    \/ StepFails \/ WorkerCrash \/ CacheLost \/ Tick

Spec == Init /\ [][Next]_vars

\* Requests that arrived run on, the worker polls, time passes.  Nobody has
\* to call the API, and no fault has to happen.
Fairness ==
    /\ \A r \in Handlers : WF_vars(Request(r) \/ Cancel(r) \/ Write(r))
    /\ WF_vars(Process)
    /\ WF_vars(Tick)

FairSpec == Spec /\ Fairness
-----------------------------------------------------------------------------
(* Properties                                                              *)

Time == 0..MaxTime
Dates == Time \cup {None}

HandlerPcs == {"idle", "schedule", "revoke", "enqueue", "mintLink",
               "mintOwner", "read", "remove", "unset", "clearGet",
               "clearDrop", "write", "done"}

JobType ==
    [state : {"none", "waiting", "active", "failed"}, due : Time,
     attempts : 0..MaxAttempts, stalls : 0..(MaxStalls + 1)]

WorkerType ==
    [pc : {"idle", "load", "erase", "linkGet", "linkDrop", "anonymise",
           "softDelete", "finish"},
     next : 1..(Len(Cascade) + 1), since : Time, link : Handlers \cup {None}]

HandlerType ==
    [op : {"none", "delete", "cancel", "link", "write"}, pc : HandlerPcs,
     born : Time, date : Dates, link : Handlers \cup {None},
     kind : Kinds \cup {"none"}, dead : BOOLEAN, dup : BOOLEAN]

TypeOK ==
    /\ now \in Time
    /\ sched \in Dates
    /\ anonymised \in BOOLEAN /\ deleted \in BOOLEAN /\ withdrawn \in BOOLEAN
    /\ store \in [Kinds -> Dates]
    /\ job \in JobType
    /\ worker \in WorkerType
    /\ links \in [Handlers -> Dates]
    /\ ownerLink \in Handlers \cup {None}
    /\ handler \in [Handlers -> HandlerType]
    /\ faults \in 0..MaxFaults
    /\ erasedSince \in Dates

\* A cancellation that took effect before the cascade had read the schedule
\* is final: whatever job survived it (its removal may have failed, or it was
\* queued after the removal) never erases the account, unless the owner asks
\* again.  handleDeleteAccount relies on this re-check of the user.
CancelledSurvives == withdrawn => ~PastGuard /\ ~anonymised

\* Personal data that outlives the deletion was written by a request in
\* flight when, or arriving after, the attempt that deleted the user began:
\* no earlier failed attempt, retry or crash leaves a kind of data behind.
OnlyStragglersSurvive ==
    deleted => \A k \in Kinds :
                 store[k] # None => store[k] >= erasedSince - MaxLatency

\* While a deletion is pending the only sessions are those of sign-ins that
\* were admitted before it was scheduled: requestAccountDeletion revokes the
\* others and the guards of both token kinds admit no new one.
PendingAdmitsNoLogin ==
    Pending /\ store["sessions"] # None => store["sessions"] <= sched - Grace

\* The add of request r did not take, or has yet to happen, or never will.
NotEnqueued(r) ==
    \/ handler[r].dup
    \/ handler[r].op = "delete" /\ handler[r].pc \in {"revoke", "enqueue"}

\* The cascade runs ahead of the date the owner was given only if the add of
\* some request was swallowed because a job already held the id, or that
\* request has not reached (or died before) its add.
EarlyDeletionNeedsLostAdd ==
    PastGuard /\ sched # None /\ worker.since < sched
        => \E r \in Handlers : NotEnqueued(r)

\* What leaves a schedule that no job will ever act on.
Stranded(r) ==
    \/ handler[r].dup
    \/ handler[r].dead /\ handler[r].op = "delete"
                       /\ handler[r].pc \in {"revoke", "enqueue"}
    \/ handler[r].dead /\ handler[r].pc = "unset"

\* Every schedule is eventually cancelled or carried out, but for four cases:
\* the job used up its attempts, an add was swallowed, a request died between
\* its write of the schedule and its add, or a cancellation died between the
\* removal of the job and its write.
ScheduleResolves ==
    sched # None ~> \/ sched = None
                    \/ job.state = "failed"
                    \/ \E r \in Handlers : Stranded(r)
=============================================================================
