------------------------ MODULE AccountDeletionProofs ------------------------
(***************************************************************************)
(* Theorems about AccountDeletion, for every set of handlers, every grace  *)
(* period, every number of attempts and every kind and number of faults:   *)
(* its types and its safety invariants.  Each of these is strengthened     *)
(* until it is inductive relative to Core, which ties the worker to the    *)
(* job and bounds the life of a request.                                   *)
(***************************************************************************)
EXTENDS AccountDeletion, TLAPS

Live == job.state \in {"waiting", "active"}

\* No request outlives MaxLatency, and one that will queue the job began
\* early enough for the job to fall due before the clock stops.
Timely ==
    \A r \in Handlers :
        InFlight(r) =>
            /\ handler[r].born <= now /\ now <= handler[r].born + MaxLatency
            /\ handler[r].op = "delete" =>
                 handler[r].born + MaxLatency + Grace <= MaxTime

\* The worker and the job agree.
InStep ==
    /\ worker.pc # "idle" <=> job.state = "active"
    /\ Live => job.attempts < MaxAttempts /\ job.stalls <= MaxStalls
    /\ worker.pc # "idle" => job.due <= worker.since /\ worker.since <= now
    /\ worker.pc = "load" => worker.next = 1
    /\ worker.pc = "erase" => worker.next \in 1..Len(Cascade)
    /\ worker.pc \in {"linkGet", "linkDrop"} => worker.next = 2
    /\ worker.pc = "idle" => worker.next = 1
    /\ worker.pc \in {"anonymise", "softDelete"} => worker.next = Len(Cascade) + 1

Core == TypeOK /\ Timely /\ InStep

LEMMA CascadeFacts ==
    /\ Len(Cascade) = 5
    /\ Cascade[1] = "sessions" /\ Cascade[2] = "resumes"
    /\ Cascade[3] = "cvProfile" /\ Cascade[4] = "chat"
    /\ Cascade[5] = "subscriber"
    /\ Kinds = {"sessions", "resumes", "cvProfile", "chat", "subscriber"}
<1>1. Len(Cascade) = 5
  BY DEF Cascade
<1>2. \A i \in 1..Len(Cascade) : Cascade[i] \in
        {"sessions", "resumes", "cvProfile", "chat", "subscriber"}
  BY DEF Cascade
<1>. QED
  BY <1>1, <1>2 DEF Cascade, Kinds

LEMMA FreshType == Fresh \in HandlerType
BY TimeAssumption DEF Fresh, HandlerType, HandlerPcs, Time, Dates

LEMMA NoJobType == NoJob \in JobType
BY TimeAssumption, QueueAssumption DEF NoJob, JobType, Time

LEMMA IdleType == Idle \in WorkerType
BY TimeAssumption, CascadeFacts DEF Idle, WorkerType, Time

LEMMA InitCore == Init => Core
<1>. SUFFICES ASSUME Init PROVE Core
  OBVIOUS
<1>1. TypeOK
  <2>1. 0 \in Time /\ 0 \in Dates /\ None \in Dates /\ 0 \in 0..MaxFaults
    BY TimeAssumption, QueueAssumption DEF Time, Dates
  <2>2. handler \in [Handlers -> HandlerType]
    BY FreshType DEF Init
  <2>3. job \in JobType /\ worker \in WorkerType
    BY NoJobType, IdleType DEF Init
  <2>. QED
    BY <2>1, <2>2, <2>3 DEF Init, TypeOK
<1>2. Timely
  BY DEF Init, Timely, InFlight, Fresh
<1>3. InStep
  BY DEF Init, InStep, Live, Idle, NoJob
<1>. QED
  BY <1>1, <1>2, <1>3 DEF Core

-----------------------------------------------------------------------------
(* Type correctness                                                        *)

LEMMA GotoType ==
    ASSUME TypeOK, NEW r \in Handlers, NEW pc \in HandlerPcs, Goto(r, pc)
    PROVE  handler' \in [Handlers -> HandlerType]
BY DEF TypeOK, Goto, HandlerType

LEMMA FinishType ==
    ASSUME TypeOK, NEW r \in Handlers, Finish(r)
    PROVE  handler' \in [Handlers -> HandlerType]
<1>1. handler[r] \in HandlerType
  BY DEF TypeOK
<1>2. [Fresh EXCEPT !.op = handler[r].op, !.pc = "done",
                    !.date = handler[r].date, !.dup = handler[r].dup]
        \in HandlerType
  BY <1>1, FreshType DEF HandlerType, HandlerPcs
<1>. QED
  BY <1>2 DEF TypeOK, Finish

LEMMA BeginType ==
    ASSUME TypeOK, NEW r \in Handlers, NEW pc \in HandlerPcs,
           NEW op \in {"delete", "cancel", "link", "write"}
    PROVE  Begin(r, op, pc) \in HandlerType
BY FreshType DEF TypeOK, Begin, HandlerType

\* Updates of several fields of a record keep it in its type.
LEMMA DateUpdate ==
    ASSUME TypeOK, NEW r \in Handlers,
           NEW pc \in HandlerPcs, NEW d \in Dates
    PROVE  [handler EXCEPT ![r].pc = pc, ![r].date = d] \in [Handlers -> HandlerType]
<1>1. handler[r] \in HandlerType /\ handler \in [Handlers -> HandlerType]
  BY DEF TypeOK
<1>2. [handler[r] EXCEPT !.pc = pc, !.date = d] \in HandlerType
  BY <1>1 DEF HandlerType
<1>3. [handler EXCEPT ![r].pc = pc, ![r].date = d]
        = [handler EXCEPT ![r] = [handler[r] EXCEPT !.pc = pc, !.date = d]]
  BY <1>1
<1>. QED
  BY <1>1, <1>2, <1>3

LEMMA LinkUpdate ==
    ASSUME TypeOK, NEW r \in Handlers,
           NEW pc \in HandlerPcs, NEW l \in Handlers \cup {None}
    PROVE  [handler EXCEPT ![r].pc = pc, ![r].link = l] \in [Handlers -> HandlerType]
<1>1. handler[r] \in HandlerType /\ handler \in [Handlers -> HandlerType]
  BY DEF TypeOK
<1>2. [handler[r] EXCEPT !.pc = pc, !.link = l] \in HandlerType
  BY <1>1 DEF HandlerType
<1>3. [handler EXCEPT ![r].pc = pc, ![r].link = l]
        = [handler EXCEPT ![r] = [handler[r] EXCEPT !.pc = pc, !.link = l]]
  BY <1>1
<1>. QED
  BY <1>1, <1>2, <1>3

LEMMA DupUpdate ==
    ASSUME TypeOK, NEW r \in Handlers,
           NEW pc \in HandlerPcs, NEW b \in BOOLEAN
    PROVE  [handler EXCEPT ![r].pc = pc, ![r].dup = b] \in [Handlers -> HandlerType]
<1>1. handler[r] \in HandlerType /\ handler \in [Handlers -> HandlerType]
  BY DEF TypeOK
<1>2. [handler[r] EXCEPT !.pc = pc, !.dup = b] \in HandlerType
  BY <1>1 DEF HandlerType
<1>3. [handler EXCEPT ![r].pc = pc, ![r].dup = b]
        = [handler EXCEPT ![r] = [handler[r] EXCEPT !.pc = pc, !.dup = b]]
  BY <1>1
<1>. QED
  BY <1>1, <1>2, <1>3

LEMMA DeadUpdate ==
    ASSUME TypeOK, NEW r \in Handlers
    PROVE  [handler EXCEPT ![r].dead = TRUE] \in [Handlers -> HandlerType]
<1>1. handler[r] \in HandlerType /\ handler \in [Handlers -> HandlerType]
  BY DEF TypeOK
<1>2. [handler[r] EXCEPT !.dead = TRUE] \in HandlerType
  BY <1>1 DEF HandlerType
<1>3. [handler EXCEPT ![r].dead = TRUE]
        = [handler EXCEPT ![r] = [handler[r] EXCEPT !.dead = TRUE]]
  BY <1>1
<1>. QED
  BY <1>1, <1>2, <1>3

LEMMA TypeStep == Core /\ [Next]_vars => TypeOK'
<1>. SUFFICES ASSUME Core, [Next]_vars PROVE TypeOK'
  OBVIOUS
<1>t. TypeOK /\ Timely /\ InStep
  BY DEF Core
<1>n. None \in Dates /\ None \in Handlers \cup {None}
  BY DEF Dates
<1>1. ASSUME NEW r \in Handlers, RequestRead(r) PROVE TypeOK'
  <2>1. Begin(r, "delete", "schedule") \in HandlerType
    BY <1>t, BeginType DEF HandlerPcs
  <2>. QED
    BY <1>t, <1>1, <2>1 DEF RequestRead, TypeOK, accountVars, queueVars,
       cacheVars, history
<1>2. ASSUME NEW r \in Handlers, RequestSchedule(r) PROVE TypeOK'
  <2>1. now + Grace \in Time /\ now + Grace \in Dates
    BY <1>t, <1>2, TimeAssumption
    DEF RequestSchedule, At, Timely, TypeOK, Time, Dates, HandlerType
  <2>2. handler' \in [Handlers -> HandlerType]
    BY <1>t, <1>2, <2>1, DateUpdate DEF RequestSchedule, HandlerPcs
  <2>. QED
    BY <1>t, <1>2, <2>1, <2>2 DEF RequestSchedule, TypeOK, queueVars, cacheVars
<1>3. ASSUME NEW r \in Handlers, RequestRevoke(r) PROVE TypeOK'
  <2>1. handler' \in [Handlers -> HandlerType]
    BY <1>t, <1>3, GotoType DEF RequestRevoke, HandlerPcs
  <2>. QED
    BY <1>t, <1>3, <1>n, <2>1 DEF RequestRevoke, TypeOK, queueVars, cacheVars,
       history
<1>4. ASSUME NEW r \in Handlers, RequestEnqueue(r) PROVE TypeOK'
  <2>1. now + Grace \in Time
    BY <1>t, <1>4, TimeAssumption
    DEF RequestEnqueue, At, Timely, TypeOK, Time, HandlerType
  <2>2. job' \in JobType
    BY <1>t, <1>4, <2>1, NoJobType DEF RequestEnqueue, TypeOK, JobType
  <2>3. handler' \in [Handlers -> HandlerType]
    <3> DEFINE dup == job.state # "none"
    <3>1. dup \in BOOLEAN /\ "mintLink" \in HandlerPcs
      BY DEF HandlerPcs
    <3>2. handler' = [handler EXCEPT ![r].pc = "mintLink", ![r].dup = dup]
      BY <1>4 DEF RequestEnqueue
    <3>. HIDE DEF dup
    <3>. QED
      BY <1>t, <3>1, <3>2, DupUpdate
  <2>. QED
    BY <1>t, <1>4, <2>2, <2>3 DEF RequestEnqueue, TypeOK, accountVars,
       cacheVars, history
<1>5. ASSUME NEW r \in Handlers, RequestMintLink(r) PROVE TypeOK'
  <2>1. now + Grace \in Dates
    BY <1>t, <1>5, TimeAssumption
    DEF RequestMintLink, At, Timely, TypeOK, Time, Dates, HandlerType
  <2>2. handler' \in [Handlers -> HandlerType]
    BY <1>t, <1>5, GotoType DEF RequestMintLink, HandlerPcs
  <2>. QED
    BY <1>t, <1>5, <2>1, <2>2 DEF RequestMintLink, TypeOK, accountVars,
       queueVars, history
<1>6. ASSUME NEW r \in Handlers, RequestMintOwner(r) PROVE TypeOK'
  BY <1>t, <1>6, FinishType DEF RequestMintOwner, TypeOK, accountVars,
     queueVars, history
<1>7. ASSUME NEW r \in Handlers, CancelGuard(r) PROVE TypeOK'
  <2>1. Begin(r, "cancel", "read") \in HandlerType
    BY <1>t, BeginType DEF HandlerPcs
  <2>. QED
    BY <1>t, <1>7, <2>1 DEF CancelGuard, TypeOK, accountVars, queueVars,
       cacheVars, history
<1>8. ASSUME NEW r \in Handlers, NEW t \in Handlers, LinkLookup(r, t)
      PROVE TypeOK'
  <2>1. Begin(r, "link", "read") \in HandlerType
    BY <1>t, BeginType DEF HandlerPcs
  <2>. QED
    BY <1>t, <1>8, <2>1 DEF LinkLookup, TypeOK, accountVars, queueVars,
       cacheVars, history
<1>9. ASSUME NEW r \in Handlers, NEW k \in WriteKinds, WriteGuard(r, k)
      PROVE TypeOK'
  <2>1. Begin(r, "write", "write") \in HandlerType
    BY <1>t, BeginType DEF HandlerPcs
  <2>2. [Begin(r, "write", "write") EXCEPT !.kind = k] \in HandlerType
    BY <2>1, WriteAssumption DEF HandlerType
  <2>. QED
    BY <1>t, <1>9, <2>2 DEF WriteGuard, TypeOK, accountVars, queueVars,
       cacheVars, history
<1>10. ASSUME NEW r \in Handlers,
              CancelRead(r) \/ LinkRead(r) \/ RemoveJob(r) \/ RemoveJobFails(r)
              \/ UnsetSchedule(r) \/ ClearGet(r) \/ ClearDrop(r)
       PROVE  TypeOK'
  <2>1. CASE CancelRead(r)
    <3>1. handler' \in [Handlers -> HandlerType]
      BY <1>t, <2>1, FinishType, GotoType DEF CancelRead, HandlerPcs
    <3>. QED
      BY <1>t, <2>1, <3>1 DEF CancelRead, TypeOK, accountVars, queueVars,
         cacheVars, history
  <2>2. CASE LinkRead(r)
    <3>1. handler' \in [Handlers -> HandlerType]
      BY <1>t, <2>2, GotoType DEF LinkRead, HandlerPcs
    <3>. QED
      BY <1>t, <2>2, <3>1 DEF LinkRead, TypeOK, accountVars, queueVars,
         cacheVars, history
  <2>3. CASE RemoveJob(r)
    <3>1. handler' \in [Handlers -> HandlerType]
      BY <1>t, <2>3, GotoType DEF RemoveJob, HandlerPcs
    <3>. QED
      BY <1>t, <2>3, <3>1, NoJobType DEF RemoveJob, TypeOK, accountVars,
         cacheVars, history
  <2>4. CASE RemoveJobFails(r)
    <3>1. handler' \in [Handlers -> HandlerType]
      BY <1>t, <2>4, GotoType DEF RemoveJobFails, HandlerPcs
    <3>. QED
      BY <1>t, <2>4, <3>1, QueueAssumption DEF RemoveJobFails, Fault, TypeOK,
         accountVars, queueVars, cacheVars, history
  <2>5. CASE UnsetSchedule(r)
    <3>1. handler' \in [Handlers -> HandlerType]
      BY <1>t, <2>5, GotoType DEF UnsetSchedule, HandlerPcs
    <3>2. (~PastGuard /\ ~anonymised) \in BOOLEAN
      OBVIOUS
    <3>. QED
      BY <1>t, <1>n, <2>5, <3>1, <3>2 DEF UnsetSchedule, TypeOK, queueVars,
         cacheVars
  <2>6. CASE ClearGet(r)
    <3>1. handler' \in [Handlers -> HandlerType]
      <4>1. ownerLink \in Handlers \cup {None} /\ "clearDrop" \in HandlerPcs
        BY <1>t DEF TypeOK, HandlerPcs
      <4>. QED
        BY <1>t, <2>6, <4>1, LinkUpdate DEF ClearGet
    <3>. QED
      BY <1>t, <2>6, <3>1 DEF ClearGet, TypeOK, accountVars, queueVars,
         cacheVars, history
  <2>7. CASE ClearDrop(r)
    <3>1. handler' \in [Handlers -> HandlerType]
      BY <1>t, <2>7, FinishType DEF ClearDrop
    <3>. QED
      BY <1>t, <1>n, <2>7, <3>1 DEF ClearDrop, Drop, TypeOK, accountVars,
         queueVars, history
  <2>. QED
    BY <1>10, <2>1, <2>2, <2>3, <2>4, <2>5, <2>6, <2>7
<1>11. ASSUME NEW r \in Handlers, Write(r) PROVE TypeOK'
  <2>1. handler' \in [Handlers -> HandlerType]
    BY <1>t, <1>11, FinishType DEF Write
  <2>2. handler[r].born \in Dates
    BY <1>t DEF TypeOK, HandlerType, Dates
  <2>. QED
    BY <1>t, <1>11, <2>1, <2>2 DEF Write, TypeOK, queueVars, cacheVars, history
<1>12. ASSUME NEW r \in Handlers, Abort(r) PROVE TypeOK'
  <2>1. handler' \in [Handlers -> HandlerType]
    BY <1>t, <1>12, DeadUpdate DEF Abort
  <2>. QED
    BY <1>t, <1>12, <2>1, QueueAssumption DEF Abort, Fault, TypeOK,
       accountVars, queueVars, cacheVars, history
<1>13. ASSUME TakeJob PROVE TypeOK'
  <2>1. job' \in JobType
    BY <1>t, <1>13 DEF TakeJob, TypeOK, JobType
  <2>2. worker' \in WorkerType
    BY <1>t, <1>13, CascadeFacts DEF TakeJob, TypeOK, WorkerType
  <2>. QED
    BY <1>t, <1>13, <2>1, <2>2 DEF TakeJob, TypeOK, accountVars, cacheVars,
       history
<1>14. ASSUME LoadUser PROVE TypeOK'
  <2>1. worker' \in WorkerType
    BY <1>t, <1>14 DEF LoadUser, TypeOK, WorkerType
  <2>. QED
    BY <1>t, <1>14, <2>1 DEF LoadUser, TypeOK, accountVars, cacheVars, history
<1>15. ASSUME EraseKind PROVE TypeOK'
  <2>1. worker' \in WorkerType
    <3>1. worker \in WorkerType /\ worker.next \in 1..5
      BY <1>t, <1>15, CascadeFacts DEF EraseKind, TypeOK, InStep
    <3> DEFINE pc == IF worker.next = 1 THEN "linkGet"
                     ELSE IF worker.next = Len(Cascade) THEN "anonymise"
                     ELSE "erase"
    <3>2. /\ worker.next + 1 \in 1..(Len(Cascade) + 1)
          /\ pc \in {"linkGet", "anonymise", "erase"}
      BY <3>1, CascadeFacts
    <3>3. worker' = [worker EXCEPT !.next = worker.next + 1, !.pc = pc]
      BY <1>15 DEF EraseKind
    <3>. HIDE DEF pc
    <3>. QED
      BY <3>1, <3>2, <3>3 DEF WorkerType
  <2>. QED
    BY <1>t, <1>n, <1>15, <2>1 DEF EraseKind, TypeOK, cacheVars, history
<1>16. ASSUME CascadeLinkGet PROVE TypeOK'
  <2>1. worker' \in WorkerType
    BY <1>t, <1>16 DEF CascadeLinkGet, TypeOK, WorkerType
  <2>. QED
    BY <1>t, <1>16, <2>1 DEF CascadeLinkGet, TypeOK, accountVars, cacheVars,
       history
<1>17. ASSUME CascadeLinkDrop PROVE TypeOK'
  <2>1. worker' \in WorkerType
    BY <1>t, <1>17 DEF CascadeLinkDrop, TypeOK, WorkerType
  <2>. QED
    BY <1>t, <1>n, <1>17, <2>1 DEF CascadeLinkDrop, Drop, TypeOK, accountVars,
       history
<1>18. ASSUME AnonymiseUser PROVE TypeOK'
  <2>1. worker' \in WorkerType
    BY <1>t, <1>18 DEF AnonymiseUser, TypeOK, WorkerType
  <2>. QED
    BY <1>t, <1>n, <1>18, <2>1 DEF AnonymiseUser, TypeOK, cacheVars, history
<1>19. ASSUME SoftDeleteUser PROVE TypeOK'
  <2>1. worker' \in WorkerType /\ worker.since \in Dates
    BY <1>t, <1>19 DEF SoftDeleteUser, TypeOK, WorkerType, Dates
  <2>. QED
    BY <1>t, <1>19, <2>1 DEF SoftDeleteUser, TypeOK, cacheVars
<1>20. ASSUME CompleteJob PROVE TypeOK'
  BY <1>t, <1>20, NoJobType, IdleType DEF CompleteJob, TypeOK, accountVars,
     cacheVars, history
<1>21. ASSUME StepFails PROVE TypeOK'
  <2>1. job' \in JobType
    <3>1. job \in JobType /\ job.state = "active"
      BY <1>t, <1>21 DEF StepFails, TypeOK, InStep, WorkerType
    <3>2. job.attempts + 1 \in 0..MaxAttempts
      BY <1>t, <3>1, QueueAssumption DEF InStep, Live, JobType
    <3> DEFINE state == IF job.attempts + 1 < MaxAttempts THEN "waiting" ELSE "failed"
    <3>3. state \in {"waiting", "failed"}
      OBVIOUS
    <3>4. job' = [job EXCEPT !.attempts = job.attempts + 1, !.state = state]
      BY <1>21 DEF StepFails
    <3>. HIDE DEF state
    <3>. QED
      BY <3>1, <3>2, <3>3, <3>4 DEF JobType
  <2>. QED
    BY <1>t, <1>21, <2>1, IdleType, QueueAssumption DEF StepFails, Fault,
       TypeOK, accountVars, cacheVars, history
<1>22. ASSUME WorkerCrash PROVE TypeOK'
  <2>1. job' \in JobType
    <3>1. job \in JobType /\ job.state = "active"
      BY <1>t, <1>22 DEF WorkerCrash, TypeOK, InStep, WorkerType
    <3>2. job.stalls + 1 \in 0..(MaxStalls + 1)
      BY <1>t, <3>1, QueueAssumption DEF InStep, Live, JobType
    <3> DEFINE state == IF job.stalls < MaxStalls THEN "waiting" ELSE "failed"
    <3>3. state \in {"waiting", "failed"}
      OBVIOUS
    <3>4. job' = [job EXCEPT !.stalls = job.stalls + 1, !.state = state]
      BY <1>22 DEF WorkerCrash
    <3>. HIDE DEF state
    <3>. QED
      BY <3>1, <3>2, <3>3, <3>4 DEF JobType
  <2>. QED
    BY <1>t, <1>22, <2>1, IdleType, QueueAssumption DEF WorkerCrash, Fault,
       TypeOK, accountVars, cacheVars, history
<1>23. ASSUME CacheLost PROVE TypeOK'
  BY <1>t, <1>n, <1>23, QueueAssumption DEF CacheLost, Fault, TypeOK,
     accountVars, queueVars, history
<1>24. ASSUME Tick PROVE TypeOK'
  BY <1>t, <1>24, TimeAssumption DEF Tick, TypeOK, Time, accountVars,
     queueVars, cacheVars, history
<1>25. CASE UNCHANGED vars
  BY <1>t, <1>25 DEF TypeOK, vars
<1>. QED
  BY <1>1, <1>2, <1>3, <1>4, <1>5, <1>6, <1>7, <1>8, <1>9, <1>10, <1>11,
     <1>12, <1>13, <1>14, <1>15, <1>16, <1>17, <1>18, <1>19, <1>20, <1>21,
     <1>22, <1>23, <1>24, <1>25
  DEF Next, Arrive, Request, Cancel, Process

-----------------------------------------------------------------------------
(* No request outlives its latency                                         *)

\* A step of a request in flight keeps its call and the time it began.
LEMMA TimelyUpdate ==
    ASSUME TypeOK, Timely, NEW r \in Handlers, InFlight(r), now' = now,
           handler'[r].born = handler[r].born, handler'[r].op = handler[r].op,
           \A q \in Handlers \ {r} : handler'[q] = handler[q]
    PROVE  Timely'
BY DEF Timely, InFlight

LEMMA TimelyFinish ==
    ASSUME TypeOK, Timely, NEW r \in Handlers, now' = now, Finish(r)
    PROVE  Timely'
<1>1. handler'[r].pc = "done" /\ \A q \in Handlers \ {r} : handler'[q] = handler[q]
  BY DEF Finish, TypeOK, Fresh
<1>. QED
  BY <1>1 DEF Timely, InFlight

LEMMA TimelyBegin ==
    ASSUME TypeOK, Timely, NEW r \in Handlers, now' = now,
           handler'[r].born = now,
           handler'[r].op = "delete" => now + MaxLatency + Grace <= MaxTime,
           \A q \in Handlers \ {r} : handler'[q] = handler[q]
    PROVE  Timely'
BY TimeAssumption DEF Timely, InFlight, TypeOK, Time

LEMMA TimelySame ==
    ASSUME Timely, handler' = handler, now' = now
    PROVE  Timely'
BY DEF Timely, InFlight

LEMMA TimelyStep == Core /\ [Next]_vars => Timely'
<1>. SUFFICES ASSUME Core, [Next]_vars PROVE Timely'
  OBVIOUS
<1>t. TypeOK /\ Timely
  BY DEF Core
<1>h. handler \in [Handlers -> HandlerType]
  BY <1>t DEF TypeOK
<1>1. ASSUME NEW r \in Handlers, RequestRead(r) PROVE Timely'
  <2>1. /\ handler'[r] = Begin(r, "delete", "schedule")
        /\ \A q \in Handlers \ {r} : handler'[q] = handler[q]
        /\ now' = now /\ now + MaxLatency + Grace <= MaxTime
    BY <1>h, <1>1 DEF RequestRead
  <2>. QED
    BY <1>t, <2>1, TimelyBegin DEF Begin, Fresh
<1>2. ASSUME NEW r \in Handlers, CancelGuard(r) PROVE Timely'
  <2>1. /\ handler'[r] = Begin(r, "cancel", "read")
        /\ \A q \in Handlers \ {r} : handler'[q] = handler[q]
        /\ now' = now
    BY <1>h, <1>2 DEF CancelGuard
  <2>. QED
    BY <1>t, <2>1, TimelyBegin DEF Begin, Fresh
<1>3. ASSUME NEW r \in Handlers, NEW u \in Handlers, LinkLookup(r, u)
      PROVE  Timely'
  <2>1. /\ handler'[r] = Begin(r, "link", "read")
        /\ \A q \in Handlers \ {r} : handler'[q] = handler[q]
        /\ now' = now
    BY <1>h, <1>3 DEF LinkLookup
  <2>. QED
    BY <1>t, <2>1, TimelyBegin DEF Begin, Fresh
<1>4. ASSUME NEW r \in Handlers, NEW k \in WriteKinds, WriteGuard(r, k)
      PROVE  Timely'
  <2>1. /\ handler'[r] = [Begin(r, "write", "write") EXCEPT !.kind = k]
        /\ \A q \in Handlers \ {r} : handler'[q] = handler[q]
        /\ now' = now
    BY <1>h, <1>4 DEF WriteGuard
  <2>. QED
    BY <1>t, <2>1, TimelyBegin DEF Begin, Fresh
<1>5. ASSUME NEW r \in Handlers,
             RequestSchedule(r) \/ RequestRevoke(r) \/ RequestEnqueue(r)
             \/ RequestMintLink(r) \/ LinkRead(r) \/ RemoveJob(r)
             \/ RemoveJobFails(r) \/ UnsetSchedule(r) \/ ClearGet(r) \/ Abort(r)
      PROVE  Timely'
  <2>1. InFlight(r) /\ now' = now
    BY <1>5 DEF RequestSchedule, RequestRevoke, RequestEnqueue,
       RequestMintLink, LinkRead, RemoveJob, RemoveJobFails, UnsetSchedule,
       ClearGet, Abort, At
  <2>2. /\ handler'[r].born = handler[r].born /\ handler'[r].op = handler[r].op
        /\ \A q \in Handlers \ {r} : handler'[q] = handler[q]
    BY <1>h, <1>5 DEF RequestSchedule, RequestRevoke, RequestEnqueue,
       RequestMintLink, LinkRead, RemoveJob, RemoveJobFails, UnsetSchedule,
       ClearGet, Abort, Goto, HandlerType
  <2>. QED
    BY <1>t, <2>1, <2>2, TimelyUpdate
<1>6. ASSUME NEW r \in Handlers,
             RequestMintOwner(r) \/ ClearDrop(r) \/ Write(r)
      PROVE  Timely'
  BY <1>t, <1>6, TimelyFinish DEF RequestMintOwner, ClearDrop, Write
<1>7. ASSUME NEW r \in Handlers, CancelRead(r) PROVE Timely'
  <2>1. InFlight(r) /\ now' = now
    BY <1>7 DEF CancelRead, At
  <2>2. CASE Goto(r, "remove")
    <3>1. /\ handler'[r].born = handler[r].born /\ handler'[r].op = handler[r].op
          /\ \A q \in Handlers \ {r} : handler'[q] = handler[q]
      BY <1>h, <2>2 DEF Goto, HandlerType
    <3>. QED
      BY <1>t, <2>1, <3>1, TimelyUpdate
  <2>3. CASE Finish(r)
    BY <1>t, <2>1, <2>3, TimelyFinish
  <2>. QED
    BY <1>7, <2>2, <2>3 DEF CancelRead
<1>8. ASSUME Process \/ StepFails \/ WorkerCrash \/ CacheLost PROVE Timely'
  <2>1. handler' = handler /\ now' = now
    BY <1>8 DEF Process, TakeJob, LoadUser, EraseKind, CascadeLinkGet,
       CascadeLinkDrop, AnonymiseUser, SoftDeleteUser, CompleteJob, StepFails,
       WorkerCrash, CacheLost
  <2>. QED
    BY <1>t, <2>1, TimelySame
<1>9. ASSUME Tick PROVE Timely'
  <2>1. handler' = handler /\ now' = now + 1
    BY <1>9 DEF Tick
  <2>2. \A r \in Handlers : InFlight(r) => now < handler[r].born + MaxLatency
    BY <1>9 DEF Tick
  <2>. QED
    BY <1>t, <2>1, <2>2, TimeAssumption
    DEF Timely, InFlight, TypeOK, HandlerType, Time
<1>10. CASE UNCHANGED vars
  BY <1>t, <1>10, TimelySame DEF vars
<1>. QED
  BY <1>1, <1>2, <1>3, <1>4, <1>5, <1>6, <1>7, <1>8, <1>9, <1>10
  DEF Next, Arrive, Request, Cancel

-----------------------------------------------------------------------------
(* The worker and the job stay in step                                     *)

LEMMA InStepStep == Core /\ [Next]_vars => InStep'
<1>. SUFFICES ASSUME Core, [Next]_vars PROVE InStep'
  OBVIOUS
<1>t. TypeOK /\ InStep
  BY DEF Core
<1>w. /\ worker \in WorkerType /\ job \in JobType /\ now \in Nat
      /\ worker.next \in Nat /\ worker.since \in Nat /\ job.due \in Nat
      /\ job.attempts \in Nat /\ job.stalls \in Nat
  BY <1>t, TimeAssumption, QueueAssumption
  DEF TypeOK, WorkerType, JobType, Time
<1>1. ASSUME job' = job, worker' = worker, now' = now PROVE InStep'
  BY <1>t, <1>1 DEF InStep, Live
<1>2. ASSUME NEW r \in Handlers, RequestEnqueue(r) PROVE InStep'
  <2>1. CASE job.state = "none"
    <3>1. /\ job' = [NoJob EXCEPT !.state = "waiting", !.due = now + Grace]
          /\ worker' = worker /\ now' = now
      BY <1>2, <2>1 DEF RequestEnqueue
    <3>2. /\ job'.state = "waiting" /\ job'.attempts = 0 /\ job'.stalls = 0
          /\ worker.pc = "idle"
      BY <1>t, <2>1, <3>1 DEF NoJob, InStep
    <3>. QED
      BY <1>t, <3>1, <3>2, QueueAssumption DEF InStep, Live
  <2>2. CASE job.state # "none"
    BY <1>1, <1>2, <2>2 DEF RequestEnqueue
  <2>. QED
    BY <2>1, <2>2
<1>3. ASSUME NEW r \in Handlers, RemoveJob(r) PROVE InStep'
  <2>1. CASE job.state = "active"
    BY <1>1, <1>3, <2>1 DEF RemoveJob
  <2>2. CASE job.state # "active"
    BY <1>t, <1>3, <2>2 DEF RemoveJob, NoJob, InStep, Live
  <2>. QED
    BY <2>1, <2>2
<1>4. ASSUME TakeJob PROVE InStep'
  <2>1. /\ job.state = "waiting" /\ job.due <= now /\ now' = now
        /\ job' = [job EXCEPT !.state = "active"]
        /\ worker' = [pc |-> "load", next |-> 1, since |-> now, link |-> None]
    BY <1>4 DEF TakeJob
  <2>2. /\ job'.state = "active" /\ job'.due = job.due
        /\ job'.attempts = job.attempts /\ job'.stalls = job.stalls
    BY <1>w, <2>1 DEF JobType
  <2>. QED
    BY <1>t, <1>w, <2>1, <2>2 DEF InStep, Live
<1>5. ASSUME LoadUser PROVE InStep'
  <2>1. /\ worker.pc = "load" /\ job' = job /\ now' = now
        /\ worker'.pc \in {"finish", "erase"} /\ worker'.next = worker.next
        /\ worker'.since = worker.since
    BY <1>w, <1>5 DEF LoadUser, WorkerType
  <2>. QED
    BY <1>t, <1>w, <2>1, CascadeFacts DEF InStep, Live
<1>6. ASSUME EraseKind PROVE InStep'
  <2>1. /\ worker.pc = "erase" /\ job' = job /\ now' = now
        /\ worker'.next = worker.next + 1 /\ worker'.since = worker.since
        /\ worker'.pc = IF worker.next = 1 THEN "linkGet"
                        ELSE IF worker.next = Len(Cascade) THEN "anonymise"
                        ELSE "erase"
    BY <1>w, <1>6 DEF EraseKind, WorkerType
  <2>2. worker.next \in 1..5 /\ Len(Cascade) = 5
    BY <1>t, <2>1, CascadeFacts DEF InStep
  <2>. QED
    BY <1>t, <1>w, <2>1, <2>2 DEF InStep, Live
<1>7. ASSUME CascadeLinkGet PROVE InStep'
  <2>1. /\ worker.pc = "linkGet" /\ job' = job /\ now' = now
        /\ worker'.pc = "linkDrop" /\ worker'.next = worker.next
        /\ worker'.since = worker.since
    BY <1>w, <1>7 DEF CascadeLinkGet, WorkerType
  <2>. QED
    BY <1>t, <1>w, <2>1 DEF InStep, Live
<1>8. ASSUME CascadeLinkDrop PROVE InStep'
  <2>1. /\ worker.pc = "linkDrop" /\ job' = job /\ now' = now
        /\ worker'.pc = "erase" /\ worker'.next = worker.next
        /\ worker'.since = worker.since
    BY <1>w, <1>8 DEF CascadeLinkDrop, WorkerType
  <2>. QED
    BY <1>t, <1>w, <2>1, CascadeFacts DEF InStep, Live
<1>9. ASSUME AnonymiseUser PROVE InStep'
  <2>1. /\ worker.pc = "anonymise" /\ job' = job /\ now' = now
        /\ worker'.pc = "softDelete" /\ worker'.next = worker.next
        /\ worker'.since = worker.since
    BY <1>w, <1>9 DEF AnonymiseUser, WorkerType
  <2>. QED
    BY <1>t, <1>w, <2>1, CascadeFacts DEF InStep, Live
<1>10. ASSUME SoftDeleteUser PROVE InStep'
  <2>1. /\ worker.pc = "softDelete" /\ job' = job /\ now' = now
        /\ worker'.pc = "finish" /\ worker'.next = worker.next
        /\ worker'.since = worker.since
    BY <1>w, <1>10 DEF SoftDeleteUser, WorkerType
  <2>. QED
    BY <1>t, <1>w, <2>1, CascadeFacts DEF InStep, Live
<1>11. ASSUME CompleteJob PROVE InStep'
  BY <1>11, CascadeFacts DEF CompleteJob, NoJob, Idle, InStep, Live
<1>12. ASSUME StepFails PROVE InStep'
  <2>1. /\ worker' = Idle /\ now' = now /\ job.state = "active"
        /\ job' = [job EXCEPT !.attempts = job.attempts + 1,
                              !.state = IF job.attempts + 1 < MaxAttempts
                                        THEN "waiting" ELSE "failed"]
    BY <1>t, <1>12 DEF StepFails, InStep
  <2>2. /\ job'.attempts = job.attempts + 1 /\ job'.stalls = job.stalls
        /\ job'.state = IF job.attempts + 1 < MaxAttempts
                        THEN "waiting" ELSE "failed"
    BY <1>w, <2>1 DEF JobType
  <2>. QED
    BY <1>t, <1>w, <2>1, <2>2, CascadeFacts, QueueAssumption
    DEF InStep, Live, Idle
<1>13. ASSUME WorkerCrash PROVE InStep'
  <2>1. /\ worker' = Idle /\ now' = now /\ job.state = "active"
        /\ job' = [job EXCEPT !.stalls = job.stalls + 1,
                              !.state = IF job.stalls < MaxStalls
                                        THEN "waiting" ELSE "failed"]
    BY <1>t, <1>13 DEF WorkerCrash, InStep
  <2>2. /\ job'.attempts = job.attempts /\ job'.stalls = job.stalls + 1
        /\ job'.state = IF job.stalls < MaxStalls THEN "waiting" ELSE "failed"
    BY <1>w, <2>1 DEF JobType
  <2>. QED
    BY <1>t, <1>w, <2>1, <2>2, CascadeFacts, QueueAssumption
    DEF InStep, Live, Idle
<1>14. ASSUME Tick PROVE InStep'
  <2>1. job' = job /\ worker' = worker /\ now' = now + 1
    BY <1>14 DEF Tick, queueVars
  <2>. QED
    BY <1>t, <1>w, <2>1 DEF InStep, Live
<1>15. ASSUME NEW r \in Handlers,
              Arrive(r) \/ Write(r) \/ Abort(r) \/ RequestSchedule(r)
              \/ RequestRevoke(r) \/ RequestMintLink(r) \/ RequestMintOwner(r)
              \/ CancelRead(r) \/ LinkRead(r) \/ RemoveJobFails(r)
              \/ UnsetSchedule(r) \/ ClearGet(r) \/ ClearDrop(r)
       PROVE  job' = job /\ worker' = worker /\ now' = now
  BY <1>15 DEF Arrive, RequestRead, CancelGuard, LinkLookup, WriteGuard, Write,
     Abort, RequestSchedule, RequestRevoke, RequestMintLink, RequestMintOwner,
     CancelRead, LinkRead, RemoveJobFails, UnsetSchedule, ClearGet, ClearDrop,
     queueVars
<1>16. ASSUME CacheLost \/ UNCHANGED vars
       PROVE  job' = job /\ worker' = worker /\ now' = now
  BY <1>16 DEF CacheLost, vars, queueVars
<1>. QED
  BY <1>1, <1>2, <1>3, <1>4, <1>5, <1>6, <1>7, <1>8, <1>9, <1>10, <1>11,
     <1>12, <1>13, <1>14, <1>15, <1>16
  DEF Next, Request, Cancel, Process

LEMMA CoreHolds == Spec => []Core
<1>1. Core /\ [Next]_vars => Core'
  BY TypeStep, TimelyStep, InStepStep DEF Core
<1>. QED
  BY InitCore, <1>1, PTL DEF Spec

\* Every variable keeps its type; among others, no job uses more attempts or
\* stalls than it is allowed and nothing is scheduled past the clock's bound.
THEOREM TypeCorrect == Spec => []TypeOK
<1>1. Core => TypeOK
  BY DEF Core
<1>. QED
  BY CoreHolds, <1>1, PTL

-----------------------------------------------------------------------------
(* A cancellation is final                                                 *)

Cancelled == withdrawn => sched = None /\ ~PastGuard /\ ~anonymised

LEMMA CancelledStep == Core /\ Cancelled /\ [Next]_vars => Cancelled'
<1>. SUFFICES ASSUME Core, Cancelled, [Next]_vars PROVE Cancelled'
  OBVIOUS
<1>w. worker \in WorkerType
  BY DEF Core, TypeOK
<1>1. ASSUME sched' = sched, withdrawn' = withdrawn, worker' = worker,
             anonymised' = anonymised
      PROVE  Cancelled'
  BY <1>1 DEF Cancelled, PastGuard
<1>2. ASSUME NEW r \in Handlers, RequestSchedule(r) PROVE Cancelled'
  BY <1>2 DEF RequestSchedule, Cancelled
<1>3. ASSUME NEW r \in Handlers, UnsetSchedule(r) PROVE Cancelled'
  BY <1>3 DEF UnsetSchedule, Cancelled, PastGuard, queueVars
<1>4. ASSUME TakeJob PROVE Cancelled'
  BY <1>4 DEF TakeJob, Cancelled, PastGuard, accountVars, history
<1>5. ASSUME LoadUser PROVE Cancelled'
  <2>1. sched = None => worker'.pc = "finish"
    BY <1>w, <1>5 DEF LoadUser, WorkerType
  <2>. QED
    BY <1>5, <2>1 DEF LoadUser, Cancelled, PastGuard, accountVars, history
<1>6. ASSUME EraseKind \/ CascadeLinkGet \/ CascadeLinkDrop \/ AnonymiseUser
      PROVE  Cancelled'
  <2>1. PastGuard /\ withdrawn' = withdrawn
    BY <1>6 DEF EraseKind, CascadeLinkGet, CascadeLinkDrop, AnonymiseUser,
       PastGuard, history
  <2>. QED
    BY <2>1 DEF Cancelled
<1>7. ASSUME SoftDeleteUser PROVE Cancelled'
  <2>1. PastGuard /\ withdrawn' = withdrawn
    BY <1>7 DEF SoftDeleteUser, PastGuard
  <2>. QED
    BY <2>1 DEF Cancelled
<1>8. ASSUME CompleteJob \/ StepFails \/ WorkerCrash PROVE Cancelled'
  <2>1. /\ worker'.pc = "idle" /\ sched' = sched /\ withdrawn' = withdrawn
        /\ anonymised' = anonymised
    BY <1>8 DEF CompleteJob, StepFails, WorkerCrash, Idle, accountVars, history
  <2>. QED
    BY <2>1 DEF Cancelled, PastGuard
<1>9. ASSUME NEW r \in Handlers,
             Arrive(r) \/ Write(r) \/ Abort(r) \/ RequestRevoke(r)
             \/ RequestEnqueue(r) \/ RequestMintLink(r) \/ RequestMintOwner(r)
             \/ CancelRead(r) \/ LinkRead(r) \/ RemoveJob(r)
             \/ RemoveJobFails(r) \/ ClearGet(r) \/ ClearDrop(r)
      PROVE  /\ sched' = sched /\ withdrawn' = withdrawn /\ worker' = worker
             /\ anonymised' = anonymised
  BY <1>9 DEF Arrive, RequestRead, CancelGuard, LinkLookup, WriteGuard, Write,
     Abort, RequestRevoke, RequestEnqueue, RequestMintLink, RequestMintOwner,
     CancelRead, LinkRead, RemoveJob, RemoveJobFails, ClearGet, ClearDrop,
     accountVars, queueVars, history
<1>10. ASSUME CacheLost \/ Tick \/ UNCHANGED vars
       PROVE  /\ sched' = sched /\ withdrawn' = withdrawn /\ worker' = worker
              /\ anonymised' = anonymised
  BY <1>10 DEF CacheLost, Tick, vars, accountVars, queueVars, history
<1>. QED
  BY <1>1, <1>2, <1>3, <1>4, <1>5, <1>6, <1>7, <1>8, <1>9, <1>10
  DEF Next, Request, Cancel, Process

\* A deletion cancelled before the cascade read the schedule erases nothing:
\* the processor's re-read of the user is what makes a job that outlived its
\* removal harmless.
THEOREM CancellationIsFinal == Spec => []CancelledSurvives
<1>1. Init => Cancelled
  BY DEF Init, Cancelled
<1>2. Cancelled => CancelledSurvives
  BY DEF Cancelled, CancelledSurvives
<1>. QED
  BY CoreHolds, CancelledStep, <1>1, <1>2, PTL DEF Spec

-----------------------------------------------------------------------------
(* A pending deletion admits no login                                      *)

\* Writers in flight began before the schedule was written.
Shut ==
    /\ sched <= now + Grace
    /\ store["sessions"] <= now
    /\ Pending => /\ \/ store["sessions"] = None
                     \/ store["sessions"] <= sched - Grace
                  /\ \A r \in Handlers :
                       At(r, "write", "write") => handler[r].born <= sched - Grace

LEMMA ShutStep == Core /\ Shut /\ [Next]_vars => Shut'
<1>. SUFFICES ASSUME Core, Shut, [Next]_vars PROVE Shut'
  OBVIOUS
<1>t. /\ now \in Nat /\ sched \in Int /\ store \in [Kinds -> Dates]
      /\ handler \in [Handlers -> HandlerType] /\ None \in Int /\ None < 0
      /\ "sessions" \in Kinds /\ store["sessions"] \in Int
      /\ \A r \in Handlers : handler[r].born \in Nat
      /\ Grace \in Nat
  BY TimeAssumption, CascadeFacts
  DEF Core, TypeOK, Time, Dates, None, HandlerType
<1>b. \A r \in Handlers : InFlight(r) => handler[r].born <= now
  BY DEF Core, Timely
<1>1. ASSUME now' = now, sched' = sched,
             store'["sessions"] \in {store["sessions"], None},
             \A r \in Handlers : At(r, "write", "write")' =>
                 At(r, "write", "write") /\ handler'[r].born = handler[r].born
      PROVE  Shut'
  <2>1. CASE Pending
    BY <1>t, <1>1, <2>1 DEF Shut, Pending, None
  <2>2. CASE ~Pending
    BY <1>t, <1>1, <2>2 DEF Shut, Pending, None
  <2>. QED
    BY <2>1, <2>2
<1>2. ASSUME NEW r \in Handlers, RequestSchedule(r) PROVE Shut'
  <2>1. /\ sched' = now + Grace /\ now' = now /\ store' = store
        /\ \A q \in Handlers : At(q, "write", "write")' =>
              At(q, "write", "write") /\ handler'[q].born = handler[q].born
    <3>1. /\ handler'[r].pc = "revoke"
          /\ \A q \in Handlers \ {r} : handler'[q] = handler[q]
      BY <1>t, <1>2 DEF RequestSchedule, HandlerType
    <3>. QED
      BY <1>2, <3>1 DEF RequestSchedule, At, InFlight
  <2>2. \A q \in Handlers : At(q, "write", "write") => handler[q].born <= now
    BY <1>b DEF At
  <2>. QED
    BY <1>t, <2>1, <2>2 DEF Shut, Pending
<1>3. ASSUME NEW r \in Handlers, Write(r) PROVE Shut'
  <2>1. /\ now' = now /\ sched' = sched /\ At(r, "write", "write")
        /\ store'["sessions"] \in {store["sessions"], handler[r].born}
    BY <1>t, <1>3 DEF Write
  <2>2. \A q \in Handlers : At(q, "write", "write")' =>
            At(q, "write", "write") /\ handler'[q].born = handler[q].born
    BY <1>t, <1>3 DEF Write, Finish, Fresh, At, InFlight
  <2>3. handler[r].born <= now
    BY <1>b, <2>1 DEF At
  <2>. QED
    BY <1>t, <2>1, <2>2, <2>3 DEF Shut, Pending
<1>4. ASSUME NEW r \in Handlers, NEW k \in WriteKinds, WriteGuard(r, k)
      PROVE  Shut'
  BY <1>t, <1>4 DEF WriteGuard, Admitted, Pending, Shut, accountVars
<1>5. ASSUME Tick PROVE Shut'
  <2>1. /\ now' = now + 1 /\ sched' = sched /\ store' = store
        /\ handler' = handler
    BY <1>5 DEF Tick, accountVars
  <2>3. Pending' => Pending
    BY <1>t, <2>1 DEF Pending
  <2>. QED
    BY <1>t, <2>1, <2>3 DEF Shut, At, InFlight
<1>6. ASSUME NEW r \in Handlers,
             RequestRead(r) \/ CancelGuard(r)
             \/ (\E u \in Handlers : LinkLookup(r, u))
      PROVE  Shut'
  <2>1. now' = now /\ sched' = sched /\ store' = store
    BY <1>6 DEF RequestRead, CancelGuard, LinkLookup, accountVars
  <2>2. /\ handler'[r].op # "write"
        /\ \A q \in Handlers \ {r} : handler'[q] = handler[q]
    BY <1>t, <1>6 DEF RequestRead, CancelGuard, LinkLookup, Begin, Fresh
  <2>. QED
    BY <1>t, <1>1, <2>1, <2>2 DEF At, InFlight
<1>7. ASSUME NEW r \in Handlers,
             RequestRevoke(r) \/ RequestEnqueue(r) \/ RequestMintLink(r)
             \/ LinkRead(r) \/ RemoveJob(r) \/ RemoveJobFails(r)
             \/ ClearGet(r) \/ Abort(r)
      PROVE  Shut'
  <2>1. /\ now' = now /\ sched' = sched
        /\ store'["sessions"] \in {store["sessions"], None}
    BY <1>t, <1>7 DEF RequestRevoke, RequestEnqueue, RequestMintLink, LinkRead,
       RemoveJob, RemoveJobFails, ClearGet, Abort, accountVars
  <2>2. /\ handler'[r].pc = "write" => handler[r].pc = "write"
        /\ handler'[r].op = handler[r].op
        /\ handler'[r].born = handler[r].born
        /\ handler'[r].dead = FALSE => handler[r].dead = FALSE
        /\ \A q \in Handlers \ {r} : handler'[q] = handler[q]
    BY <1>t, <1>7 DEF RequestRevoke, RequestEnqueue, RequestMintLink, LinkRead,
       RemoveJob, RemoveJobFails, ClearGet, Abort, Goto, HandlerType
  <2>. QED
    BY <1>t, <1>1, <2>1, <2>2 DEF At, InFlight, HandlerType
<1>8. ASSUME NEW r \in Handlers, UnsetSchedule(r) PROVE Shut'
  BY <1>t, <1>8 DEF UnsetSchedule, Shut, Pending
<1>9. ASSUME NEW r \in Handlers, RequestMintOwner(r) \/ ClearDrop(r) PROVE Shut'
  <2>1. now' = now /\ sched' = sched /\ store' = store
    BY <1>9 DEF RequestMintOwner, ClearDrop, accountVars
  <2>2. /\ handler'[r].pc = "done"
        /\ \A q \in Handlers \ {r} : handler'[q] = handler[q]
    BY <1>t, <1>9 DEF RequestMintOwner, ClearDrop, Finish, Fresh
  <2>. QED
    BY <1>t, <1>1, <2>1, <2>2 DEF At, InFlight
<1>10. ASSUME NEW r \in Handlers, CancelRead(r) PROVE Shut'
  <2>1. now' = now /\ sched' = sched /\ store' = store
    BY <1>10 DEF CancelRead, accountVars
  <2>2. /\ handler'[r].pc \in {"done", "remove"}
        /\ \A q \in Handlers \ {r} : handler'[q] = handler[q]
    BY <1>t, <1>10 DEF CancelRead, Finish, Goto, Fresh, HandlerType
  <2>. QED
    BY <1>t, <1>1, <2>1, <2>2 DEF At, InFlight
<1>11. ASSUME Process \/ StepFails \/ WorkerCrash \/ CacheLost PROVE Shut'
  <2>1. CASE AnonymiseUser
    BY <1>t, <2>1 DEF AnonymiseUser, Shut, Pending
  <2>2. CASE EraseKind
    <3>1. /\ now' = now /\ sched' = sched /\ handler' = handler
          /\ store'["sessions"] \in {store["sessions"], None}
      BY <1>t, <2>2 DEF EraseKind
    <3>. QED
      BY <1>1, <3>1 DEF At, InFlight
  <2>3. CASE ~AnonymiseUser /\ ~EraseKind
    <3>1. now' = now /\ sched' = sched /\ handler' = handler /\ store' = store
      BY <1>11, <2>3 DEF Process, TakeJob, LoadUser, CascadeLinkGet,
         CascadeLinkDrop, SoftDeleteUser, CompleteJob, StepFails, WorkerCrash,
         CacheLost, accountVars
    <3>. QED
      BY <1>1, <3>1 DEF At, InFlight
  <2>. QED
    BY <2>1, <2>2, <2>3
<1>12. CASE UNCHANGED vars
  <2>1. now' = now /\ sched' = sched /\ handler' = handler /\ store' = store
    BY <1>12 DEF vars
  <2>. QED
    BY <1>1, <2>1 DEF At, InFlight
<1>. QED
  BY <1>2, <1>3, <1>4, <1>5, <1>6, <1>7, <1>8, <1>9, <1>10, <1>11, <1>12
  DEF Next, Arrive, Request, Cancel

\* While a deletion is pending, every session belongs to a sign-in that was
\* admitted before the deletion was scheduled.
THEOREM NoLoginWhilePending == Spec => []PendingAdmitsNoLogin
<1>1. Init => Shut
  BY TimeAssumption, CascadeFacts DEF Init, Shut, Pending, None
<1>2. Shut => PendingAdmitsNoLogin
  BY DEF Shut, PendingAdmitsNoLogin
<1>. QED
  BY CoreHolds, ShutStep, <1>1, <1>2, PTL DEF Spec

-----------------------------------------------------------------------------
(* The cascade runs early only over a lost add                             *)

\* A live job falls due with the schedule or later, or some add was lost.
OnTime ==
    /\ sched <= now + Grace
    /\ \A r \in Handlers : handler[r].pc = "idle" => handler[r] = Fresh
    /\ sched # None /\ Live =>
         job.due >= sched \/ \E r \in Handlers : NotEnqueued(r)

LEMMA OnTimeStep == Core /\ OnTime /\ [Next]_vars => OnTime'
<1>. SUFFICES ASSUME Core, OnTime, [Next]_vars PROVE OnTime'
  OBVIOUS
<1>t. /\ now \in Nat /\ sched \in Int /\ job \in JobType /\ job.due \in Nat
      /\ handler \in [Handlers -> HandlerType] /\ Grace \in Nat
  BY TimeAssumption DEF Core, TypeOK, Time, Dates, None, JobType
\* The steps that move neither the schedule nor the job's due date, and make
\* no add happen.
<1>1. ASSUME now' >= now, now' \in Nat, sched' \in {sched, None},
             job'.due = job.due \/ ~Live', Live' => Live,
             \A r \in Handlers : handler'[r].pc = "idle" => handler'[r] = Fresh,
             \A r \in Handlers : NotEnqueued(r) => NotEnqueued(r)'
      PROVE  OnTime'
  <2>1. sched' <= now' + Grace
    <3>1. sched <= now + Grace
      BY DEF OnTime
    <3>2. sched' = sched \/ sched' = -1
      BY <1>1 DEF None
    <3>3. now' \in Nat /\ now' >= now
      BY <1>1
    <3>. QED
      BY <1>t, <3>1, <3>2, <3>3
  <2>2. ASSUME sched' # None, Live'
        PROVE  job'.due >= sched' \/ \E r \in Handlers : NotEnqueued(r)'
    <3>1. sched' = sched /\ Live /\ job'.due = job.due
      BY <1>1, <2>2
    <3>2. job.due >= sched \/ \E r \in Handlers : NotEnqueued(r)
      BY <2>2, <3>1 DEF OnTime
    <3>. QED
      BY <1>1, <3>1, <3>2
  <2>. QED
    BY <1>1, <2>1, <2>2 DEF OnTime
<1>2. ASSUME handler' = handler
      PROVE  /\ \A r \in Handlers : handler'[r].pc = "idle" => handler'[r] = Fresh
             /\ \A r \in Handlers : NotEnqueued(r) => NotEnqueued(r)'
  BY <1>2 DEF OnTime, NotEnqueued
<1>3. ASSUME NEW r \in Handlers, RequestSchedule(r) PROVE OnTime'
  <2>1. /\ handler'[r].op = "delete" /\ handler'[r].pc = "revoke"
        /\ \A q \in Handlers \ {r} : handler'[q] = handler[q]
        /\ sched' = now + Grace /\ now' = now
    BY <1>t, <1>3 DEF RequestSchedule, At, HandlerType
  <2>2. NotEnqueued(r)'
    BY <2>1 DEF NotEnqueued
  <2>. QED
    BY <1>t, <2>1, <2>2 DEF OnTime
<1>4. ASSUME NEW r \in Handlers, RequestEnqueue(r) PROVE OnTime'
  <2>1. /\ handler'[r].pc = "mintLink"
        /\ handler'[r].dup = (job.state # "none")
        /\ \A q \in Handlers \ {r} : handler'[q] = handler[q]
        /\ sched' = sched /\ now' = now
    BY <1>t, <1>4 DEF RequestEnqueue, HandlerType, accountVars
  <2>2. CASE job.state = "none"
    <3>1. job'.due = now + Grace
      BY <1>4, <2>2 DEF RequestEnqueue, NoJob
    <3>. QED
      BY <1>t, <2>1, <3>1 DEF OnTime
  <2>3. CASE job.state # "none"
    <3>1. NotEnqueued(r)'
      BY <2>1, <2>3 DEF NotEnqueued
    <3>. QED
      BY <2>1, <3>1 DEF OnTime
  <2>. QED
    BY <2>2, <2>3
<1>5. ASSUME NEW r \in Handlers, RequestRevoke(r) PROVE OnTime'
  <2>1. /\ handler[r].op = "delete" /\ handler'[r].op = "delete"
        /\ handler'[r].pc = "enqueue"
        /\ \A q \in Handlers \ {r} : handler'[q] = handler[q]
    BY <1>t, <1>5 DEF RequestRevoke, Goto, At, HandlerType
  <2>2. \A q \in Handlers : NotEnqueued(q) => NotEnqueued(q)'
    BY <2>1 DEF NotEnqueued
  <2>3. \A q \in Handlers : handler'[q].pc = "idle" => handler'[q] = Fresh
    BY <2>1 DEF OnTime
  <2>. QED
    BY <1>t, <1>1, <1>5, <2>2, <2>3 DEF RequestRevoke, queueVars, Live
<1>6. ASSUME NEW r \in Handlers,
             RequestMintLink(r) \/ LinkRead(r) \/ RemoveJob(r)
             \/ RemoveJobFails(r) \/ UnsetSchedule(r) \/ ClearGet(r)
             \/ CancelRead(r) \/ Write(r) \/ RequestMintOwner(r) \/ ClearDrop(r)
      PROVE  OnTime'
  <2>1. /\ handler[r].op = "delete" => handler[r].pc \notin {"revoke", "enqueue"}
        /\ handler'[r].dup = handler[r].dup
        /\ handler'[r].pc # "idle"
        /\ \A q \in Handlers \ {r} : handler'[q] = handler[q]
    <3>1. CASE RequestMintLink(r)
      BY <1>t, <3>1 DEF RequestMintLink, At, Goto, HandlerType
    <3>2. CASE LinkRead(r)
      BY <1>t, <3>2 DEF LinkRead, At, Goto, HandlerType
    <3>3. CASE RemoveJob(r) \/ RemoveJobFails(r)
      BY <1>t, <3>3 DEF RemoveJob, RemoveJobFails, Goto, HandlerType
    <3>4. CASE UnsetSchedule(r) \/ ClearGet(r)
      BY <1>t, <3>4 DEF UnsetSchedule, ClearGet, Goto, HandlerType
    <3>5. CASE CancelRead(r)
      BY <1>t, <3>5 DEF CancelRead, At, Goto, Finish, Fresh, HandlerType
    <3>6. CASE Write(r) \/ RequestMintOwner(r) \/ ClearDrop(r)
      BY <1>t, <3>6 DEF Write, RequestMintOwner, ClearDrop, At, Finish, Fresh
    <3>. QED
      BY <1>6, <3>1, <3>2, <3>3, <3>4, <3>5, <3>6
  <2>2. /\ \A q \in Handlers : NotEnqueued(q) => NotEnqueued(q)'
        /\ \A q \in Handlers : handler'[q].pc = "idle" => handler'[q] = Fresh
    BY <2>1 DEF NotEnqueued, OnTime
  <2>3. /\ now' = now /\ sched' \in {sched, None}
        /\ job' \in {job, NoJob}
    BY <1>6 DEF RequestMintLink, LinkRead, RemoveJob, RemoveJobFails,
       UnsetSchedule, ClearGet, CancelRead, Write, RequestMintOwner, ClearDrop,
       accountVars, queueVars
  <2>. QED
    BY <1>t, <1>1, <2>2, <2>3 DEF Live, NoJob
<1>7. ASSUME NEW r \in Handlers, Abort(r) PROVE OnTime'
  <2>1. /\ handler'[r].op = handler[r].op /\ handler'[r].pc = handler[r].pc
        /\ handler'[r].dup = handler[r].dup /\ handler[r].pc # "idle"
        /\ \A q \in Handlers \ {r} : handler'[q] = handler[q]
    BY <1>t, <1>7 DEF Abort, InFlight, HandlerType
  <2>2. /\ \A q \in Handlers : NotEnqueued(q) => NotEnqueued(q)'
        /\ \A q \in Handlers : handler'[q].pc = "idle" => handler'[q] = Fresh
    BY <2>1 DEF NotEnqueued, OnTime
  <2>. QED
    BY <1>t, <1>1, <1>7, <2>2 DEF Abort, accountVars, queueVars, Live
<1>8. ASSUME NEW r \in Handlers, Arrive(r) PROVE OnTime'
  <2>1. /\ handler[r].pc = "idle" /\ handler'[r].pc # "idle"
        /\ \A q \in Handlers \ {r} : handler'[q] = handler[q]
        /\ now' = now /\ sched' = sched /\ job' = job
    BY <1>t, <1>8 DEF Arrive, RequestRead, CancelGuard, LinkLookup, WriteGuard,
       Begin, Fresh, accountVars, queueVars
  <2>2. ~NotEnqueued(r)
    BY <2>1 DEF NotEnqueued, OnTime, Fresh
  <2>3. /\ \A q \in Handlers : NotEnqueued(q) => NotEnqueued(q)'
        /\ \A q \in Handlers : handler'[q].pc = "idle" => handler'[q] = Fresh
    BY <2>1, <2>2 DEF NotEnqueued, OnTime
  <2>. QED
    BY <1>t, <1>1, <2>1, <2>3 DEF Live
<1>9. ASSUME Process \/ StepFails \/ WorkerCrash PROVE OnTime'
  <2>1. /\ now' = now /\ handler' = handler /\ sched' \in {sched, None}
    BY <1>9 DEF Process, TakeJob, LoadUser, EraseKind, CascadeLinkGet,
       CascadeLinkDrop, AnonymiseUser, SoftDeleteUser, CompleteJob, StepFails,
       WorkerCrash, accountVars
  <2>2. (job'.due = job.due /\ Live) \/ ~Live' \/ job' = job
    <3>1. CASE TakeJob
      BY <1>t, <3>1 DEF TakeJob, JobType, Live
    <3>2. CASE CompleteJob
      BY <3>2 DEF CompleteJob, NoJob, Live
    <3>3. CASE StepFails \/ WorkerCrash
      <4>1. job.state = "active"
        BY <3>3 DEF StepFails, WorkerCrash, Core, InStep
      <4>. QED
        BY <1>t, <3>3, <4>1 DEF StepFails, WorkerCrash, JobType, Live
    <3>. QED
      BY <1>9, <3>1, <3>2, <3>3 DEF Process, LoadUser, EraseKind,
         CascadeLinkGet, CascadeLinkDrop, AnonymiseUser, SoftDeleteUser
  <2>. QED
    BY <1>t, <1>1, <1>2, <2>1, <2>2 DEF Live
<1>10. ASSUME CacheLost \/ Tick \/ UNCHANGED vars PROVE OnTime'
  <2>1. /\ now' \in {now, now + 1} /\ handler' = handler /\ sched' = sched
        /\ job' = job
    BY <1>10 DEF CacheLost, Tick, vars, accountVars, queueVars
  <2>. QED
    BY <1>t, <1>1, <1>2, <2>1 DEF Live
<1>. QED
  BY <1>3, <1>4, <1>5, <1>6, <1>7, <1>8, <1>9, <1>10
  DEF Next, Request, Cancel

\* The cascade starts ahead of the date the owner was given only over a lost
\* add: one swallowed under the fixed job id, or one a request never reached.
THEOREM EarlyOnlyOverLostAdd == Spec => []EarlyDeletionNeedsLostAdd
<1>1. Init => OnTime
  BY TimeAssumption DEF Init, OnTime, Live, NoJob, None
<1>2. Core /\ OnTime => EarlyDeletionNeedsLostAdd
  <2>. SUFFICES ASSUME Core, OnTime, PastGuard, sched # None,
                       worker.since < sched
                PROVE  \E r \in Handlers : NotEnqueued(r)
    BY DEF EarlyDeletionNeedsLostAdd
  <2>1. worker.pc # "idle" /\ Live /\ job.due <= worker.since
    BY DEF PastGuard, Core, InStep, Live
  <2>2. /\ sched \in Int /\ job.due \in Nat /\ worker.since \in Nat
    BY TimeAssumption DEF Core, TypeOK, Time, Dates, None, JobType, WorkerType
  <2>. QED
    BY <2>1, <2>2 DEF OnTime
<1>. QED
  BY CoreHolds, OnTimeStep, <1>1, <1>2, PTL DEF Spec

-----------------------------------------------------------------------------
(* What outlives the deletion                                              *)

\* What the attempt under way has passed, and the account once deleted, hold
\* nothing older than a request that was in flight when it began.
Swept ==
    /\ PastGuard => \A i \in 1..(worker.next - 1) :
          \/ store[Cascade[i]] = None
          \/ store[Cascade[i]] >= worker.since - MaxLatency
    /\ deleted => /\ erasedSince <= now
                  /\ \A i \in 1..Len(Cascade) :
                       \/ store[Cascade[i]] = None
                       \/ store[Cascade[i]] >= erasedSince - MaxLatency

LEMMA CascadeIndex ==
    /\ Len(Cascade) = 5
    /\ \A i \in 1..5 : Cascade[i] \in Kinds
    /\ \A k \in Kinds : \E i \in 1..5 : Cascade[i] = k
    /\ \A i, j \in 1..5 : Cascade[i] = Cascade[j] => i = j
BY CascadeFacts

LEMMA SweptStep == Core /\ Swept /\ [Next]_vars => Swept'
<1>. SUFFICES ASSUME Core, Swept, [Next]_vars PROVE Swept'
  OBVIOUS
<1>t. /\ now \in Nat /\ store \in [Kinds -> Dates] /\ worker \in WorkerType
      /\ worker.next \in 1..6 /\ worker.since \in Nat /\ erasedSince \in Int
      /\ MaxLatency \in Nat /\ Len(Cascade) = 5
      /\ \A i \in 1..5 : Cascade[i] \in Kinds /\ store[Cascade[i]] \in Int
  BY TimeAssumption, CascadeIndex
  DEF Core, TypeOK, Time, Dates, None, WorkerType
<1>s. worker.pc # "idle" => worker.since <= now
  BY DEF Core, InStep
\* Steps that write nothing old and leave the worker where it is.
<1>1. ASSUME now' \in Nat, now' >= now, deleted' = deleted,
             erasedSince' = erasedSince,
             PastGuard' => PastGuard /\ worker'.next = worker.next
                           /\ worker'.since = worker.since,
             \A i \in 1..5 : \/ store'[Cascade[i]] = store[Cascade[i]]
                             \/ store'[Cascade[i]] = None
                             \/ /\ store'[Cascade[i]] \in Int
                                /\ store'[Cascade[i]] >= now - MaxLatency
      PROVE  Swept'
  <2>1. ASSUME PastGuard', NEW i \in 1..(worker'.next - 1)
        PROVE  \/ store'[Cascade[i]] = None
               \/ store'[Cascade[i]] >= worker'.since - MaxLatency
    <3>1. /\ PastGuard /\ worker'.next = worker.next
          /\ worker'.since = worker.since /\ worker.since <= now
          /\ i \in 1..5 /\ i \in 1..(worker.next - 1)
      BY <1>t, <1>s, <1>1, <2>1 DEF PastGuard
    <3>. QED
      BY <1>t, <1>1, <3>1 DEF Swept
  <2>2. ASSUME deleted', NEW i \in 1..Len(Cascade)
        PROVE  \/ store'[Cascade[i]] = None
               \/ store'[Cascade[i]] >= erasedSince' - MaxLatency
    BY <1>t, <1>1, <2>2 DEF Swept
  <2>3. deleted' => erasedSince' <= now'
    BY <1>t, <1>1 DEF Swept
  <2>. QED
    BY <2>1, <2>2, <2>3 DEF Swept
<1>2. ASSUME NEW r \in Handlers, Write(r) PROVE Swept'
  <2>1. /\ now' = now /\ deleted' = deleted /\ erasedSince' = erasedSince
        /\ worker' = worker /\ InFlight(r)
        /\ store' = [store EXCEPT ![handler[r].kind] = handler[r].born]
    BY <1>2 DEF Write, At, queueVars, history
  <2>2. handler[r].born \in Int /\ handler[r].born >= now - MaxLatency
    BY <1>t, <2>1 DEF Core, TypeOK, HandlerType, Time, Timely
  <2>3. \A i \in 1..5 : \/ store'[Cascade[i]] = store[Cascade[i]]
                        \/ /\ store'[Cascade[i]] \in Int
                           /\ store'[Cascade[i]] >= now - MaxLatency
    BY <1>t, <2>1, <2>2
  <2>. QED
    BY <1>t, <1>1, <2>1, <2>3 DEF PastGuard
<1>3. ASSUME NEW r \in Handlers, RequestRevoke(r) PROVE Swept'
  <2>1. /\ now' = now /\ deleted' = deleted /\ erasedSince' = erasedSince
        /\ worker' = worker
        /\ store' = [store EXCEPT !["sessions"] = None]
    BY <1>3 DEF RequestRevoke, queueVars, history
  <2>2. \A i \in 1..5 : \/ store'[Cascade[i]] = store[Cascade[i]]
                        \/ store'[Cascade[i]] = None
    BY <1>t, <2>1
  <2>. QED
    BY <1>t, <1>1, <2>1, <2>2 DEF PastGuard
<1>4. ASSUME EraseKind PROVE Swept'
  <2>1. /\ now' = now /\ deleted' = deleted /\ erasedSince' = erasedSince
        /\ worker.pc = "erase" /\ worker.next \in 1..5
        /\ worker'.next = worker.next + 1 /\ worker'.since = worker.since
        /\ store' = [store EXCEPT ![Cascade[worker.next]] = None]
    BY <1>t, <1>4 DEF EraseKind, history, Core, InStep, WorkerType
  <2>2. /\ store'[Cascade[worker.next]] = None
        /\ \A i \in 1..5 : \/ store'[Cascade[i]] = store[Cascade[i]]
                           \/ store'[Cascade[i]] = None
    BY <1>t, <2>1
  <2>3. PastGuard
    BY <2>1 DEF PastGuard
  <2>4. ASSUME NEW i \in 1..(worker'.next - 1)
        PROVE  \/ store'[Cascade[i]] = None
               \/ store'[Cascade[i]] >= worker'.since - MaxLatency
    <3>1. CASE i = worker.next
      BY <2>2, <3>1
    <3>2. CASE i # worker.next
      <4>1. i \in 1..(worker.next - 1) /\ i \in 1..5
        BY <1>t, <2>1, <3>2
      <4>. QED
        BY <2>1, <2>2, <2>3, <4>1 DEF Swept
    <3>. QED
      BY <3>1, <3>2
  <2>5. ASSUME deleted, NEW i \in 1..5
        PROVE  \/ store'[Cascade[i]] = None
               \/ store'[Cascade[i]] >= erasedSince - MaxLatency
    BY <1>t, <2>2, <2>5 DEF Swept
  <2>6. deleted => erasedSince <= now
    BY DEF Swept
  <2>. QED
    BY <1>t, <2>1, <2>4, <2>5, <2>6 DEF Swept
<1>5. ASSUME SoftDeleteUser PROVE Swept'
  <2>1. /\ now' = now /\ deleted' = TRUE /\ store' = store
        /\ erasedSince' = IF deleted THEN erasedSince ELSE worker.since
        /\ worker.pc = "softDelete" /\ worker'.pc = "finish"
        /\ worker.next = 6
    BY <1>t, <1>5 DEF SoftDeleteUser, Core, InStep, WorkerType
  <2>2. PastGuard /\ ~PastGuard' /\ worker.since <= now
    BY <1>s, <2>1 DEF PastGuard
  <2>3. ASSUME NEW i \in 1..5
        PROVE  \/ store[Cascade[i]] = None
               \/ store[Cascade[i]] >= erasedSince' - MaxLatency
    <3>1. CASE deleted
      BY <1>t, <2>1, <3>1 DEF Swept
    <3>2. CASE ~deleted
      <4>1. i \in 1..(worker.next - 1)
        BY <2>1
      <4>. QED
        BY <2>1, <2>2, <3>2, <4>1 DEF Swept
    <3>. QED
      BY <3>1, <3>2
  <2>4. erasedSince' <= now
    BY <2>1, <2>2 DEF Swept
  <2>. QED
    BY <1>t, <2>1, <2>2, <2>3, <2>4 DEF Swept
<1>6. ASSUME LoadUser PROVE Swept'
  <2>1. /\ now' = now /\ deleted' = deleted /\ store' = store
        /\ erasedSince' = erasedSince /\ worker'.next = worker.next
        /\ worker.next = 1
    BY <1>t, <1>6 DEF LoadUser, Core, InStep, WorkerType, accountVars, history
  <2>. QED
    BY <1>t, <2>1 DEF Swept
<1>7. ASSUME Process \/ StepFails \/ WorkerCrash, ~EraseKind, ~SoftDeleteUser,
             ~LoadUser
      PROVE  Swept'
  <2>1. /\ now' = now /\ deleted' = deleted /\ store' = store
        /\ erasedSince' = erasedSince
    BY <1>7 DEF Process, TakeJob, CascadeLinkGet, CascadeLinkDrop,
       AnonymiseUser, CompleteJob, StepFails, WorkerCrash, accountVars, history
  <2>2. PastGuard' => /\ PastGuard /\ worker'.next = worker.next
                      /\ worker'.since = worker.since
    <3>1. CASE TakeJob \/ CompleteJob \/ StepFails \/ WorkerCrash
      BY <3>1 DEF TakeJob, CompleteJob, StepFails, WorkerCrash, Idle, PastGuard
    <3>2. CASE CascadeLinkGet \/ CascadeLinkDrop \/ AnonymiseUser
      BY <1>t, <3>2 DEF CascadeLinkGet, CascadeLinkDrop, AnonymiseUser,
         PastGuard, WorkerType
    <3>. QED
      BY <1>7, <3>1, <3>2 DEF Process
  <2>. QED
    BY <1>t, <1>1, <2>1, <2>2
<1>8. ASSUME NEW r \in Handlers,
             Arrive(r) \/ Abort(r) \/ RequestSchedule(r) \/ RequestEnqueue(r)
             \/ RequestMintLink(r) \/ RequestMintOwner(r) \/ Cancel(r)
      PROVE  /\ now' = now /\ deleted' = deleted /\ store' = store
             /\ erasedSince' = erasedSince /\ worker' = worker
  BY <1>8 DEF Arrive, RequestRead, CancelGuard, LinkLookup, WriteGuard, Abort,
     RequestSchedule, RequestEnqueue, RequestMintLink, RequestMintOwner, Cancel,
     CancelRead, LinkRead, RemoveJob, RemoveJobFails, UnsetSchedule, ClearGet,
     ClearDrop, accountVars, queueVars, history
<1>9. ASSUME NEW r \in Handlers,
             Arrive(r) \/ Abort(r) \/ RequestSchedule(r) \/ RequestEnqueue(r)
             \/ RequestMintLink(r) \/ RequestMintOwner(r) \/ Cancel(r)
      PROVE  Swept'
  BY <1>t, <1>1, <1>8, <1>9 DEF PastGuard
<1>10. ASSUME CacheLost \/ Tick \/ UNCHANGED vars PROVE Swept'
  <2>1. /\ now' \in {now, now + 1} /\ deleted' = deleted /\ store' = store
        /\ erasedSince' = erasedSince /\ worker' = worker
    BY <1>10 DEF CacheLost, Tick, vars, accountVars, queueVars, history
  <2>. QED
    BY <1>t, <1>1, <2>1 DEF PastGuard
<1>. QED
  BY <1>2, <1>3, <1>4, <1>5, <1>6, <1>7, <1>9, <1>10 DEF Next, Request

\* Whatever personal data outlives a deletion was written by a request that
\* was in flight when the attempt that deleted the user began, or came later.
THEOREM OnlyStragglersRemain == Spec => []OnlyStragglersSurvive
<1>1. Init => Swept
  BY DEF Init, Swept, PastGuard, Idle
<1>2. Swept => OnlyStragglersSurvive
  BY CascadeIndex DEF Swept, OnlyStragglersSurvive
<1>. QED
  BY CoreHolds, SweptStep, <1>1, <1>2, PTL DEF Spec
=============================================================================
