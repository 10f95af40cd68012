--------------------------- MODULE ResumePipeline ---------------------------
(***************************************************************************)
(* One candidate's applications to ONE job posting: submission with a file *)
(* or with the online profile, and the queue that parses the file and      *)
(* scores the result against the posting.                                  *)
(*                                                                         *)
(* A submission creates at most one resume, which is named after it.  The  *)
(* queue has one worker that takes one job at a time, a parse before an    *)
(* analysis; every awaited call of a job is a step.  The parse cache lives *)
(* in the worker's process and is lost with it.                            *)
(***************************************************************************)
EXTENDS Integers, FiniteSets, Bags, BagsExt

CONSTANTS
    Submissions,    \* requests to apply
    MaxAttempts,    \* attempts of a job
    MaxFaults,      \* bound: calls that fail and crashes
    MaxClicks       \* bound: re-parses, re-analyses and removals

None == -1
Kinds == {"parse", "analyze"}

ASSUME BoundAssumption ==
    MaxAttempts \in Nat \ {0} /\ MaxFaults \in Nat /\ MaxClicks \in Nat

VARIABLES
    open,           \* the posting is approved, active and not expired
    request,        \* per submission: where its handler is
    resume,         \* per submission: its resume document
    jobs,           \* the queue, a bag: nothing tells equal jobs apart
    worker,         \* the job taken from it and the step it is at
    cached,         \* the resumes whose parsed data is in the cache
    faults,         \* bound: failures so far
    clicks,         \* bound: staff actions so far
    excused         \* history: resumes a job gave up on without recording it

vars == <<open, request, resume, jobs, worker, cached, faults, clicks,
          excused>>

applying == <<open, request>>

-----------------------------------------------------------------------------
NoResume == [state |-> "none", file |-> FALSE, data |-> FALSE, isParsed |-> FALSE,
             parseError |-> FALSE, analysis |-> "none", isAnalyzed |-> FALSE,
             analysisError |-> FALSE]

Uploaded == [NoResume EXCEPT !.state = "live", !.file = TRUE]

Profiled == [NoResume EXCEPT !.state = "live", !.data = TRUE, !.isParsed = TRUE,
                             !.analysis = "fresh", !.isAnalyzed = TRUE]

Live(s) == resume[s].state = "live"
LiveResumes == {s \in Submissions : Live(s)}

NoJob == [kind |-> "none", resume |-> None, state |-> "none", attempts |-> 0,
          stalls |-> 0]

Idle == [job |-> NoJob, pc |-> "idle", found |-> FALSE]

At(pc) == worker.pc = pc
Goto(pc) == worker' = [worker EXCEPT !.pc = pc]
Subject == worker.job.resume

NewJob(kind, s, state) ==
    [kind |-> kind, resume |-> s, state |-> state, attempts |-> 0, stalls |-> 0]

Put(j) == jobs' = BagAdd(jobs, j)

\* The jobs of resume s: queued or in hand.
JobsOf(s) == {j \in BagToSet(jobs) \cup {worker.job} : j.resume = s}

Set(s, fields) ==
    resume' = [resume EXCEPT ![s] =
                 [f \in DOMAIN @ |-> IF f \in DOMAIN fields THEN fields[f] ELSE @[f]]]

Fault == faults < MaxFaults /\ faults' = faults + 1

Click == clicks < MaxClicks /\ clicks' = clicks + 1

Init ==
    /\ open = TRUE
    /\ request = [s \in Submissions |-> "idle"]
    /\ resume = [s \in Submissions |-> NoResume]
    /\ jobs = EmptyBag
    /\ worker = Idle
    /\ cached = {}
    /\ faults = 0
    /\ clicks = 0
    /\ excused = {}

-----------------------------------------------------------------------------
(* Applying                                                                *)

working == <<jobs, worker, cached, faults, clicks, excused>>

Moves(s, from, to) == request[s] = from /\ request' = [request EXCEPT ![s] = to]

\* validateJob: the posting is visible, active and not past its end.
ValidateJob(s) ==
    /\ Moves(s, "idle", "check")
    /\ open
    /\ UNCHANGED <<open, resume, working>>

\* checkDuplicateApplication
CheckDuplicate(s) ==
    /\ Moves(s, "check", IF LiveResumes = {} THEN "create" ELSE "refused")
    /\ UNCHANGED <<open, resume, working>>

\* An upload and an online submission differ from here on: createResume
\* reads the posting once more and submitCvOnline does not.
CreateUpload(s) ==
    /\ Moves(s, "create", IF open THEN "addParse" ELSE "refused")
    /\ IF open THEN Set(s, Uploaded) ELSE UNCHANGED resume
    /\ UNCHANGED <<open, working>>

CreateOnline(s) ==
    /\ Moves(s, "create", "accepted")
    /\ Set(s, Profiled)
    /\ UNCHANGED <<open, working>>

\* Both jobs are queued at once; the lower priority keeps the analysis back.
AddParse(s) ==
    /\ Moves(s, "addParse", "addAnalysis")
    /\ Put(NewJob("parse", s, "waiting"))
    /\ UNCHANGED <<open, resume, worker, cached, faults, clicks, excused>>

AddAnalysis(s) ==
    /\ Moves(s, "addAnalysis", "accepted")
    /\ Put(NewJob("analyze", s, "waiting"))
    /\ UNCHANGED <<open, resume, worker, cached, faults, clicks, excused>>

\* A call of the handler fails: the steps taken so far remain.
RequestDies(s) ==
    /\ request[s] \in {"check", "create", "addParse", "addAnalysis"}
    /\ request' = [request EXCEPT ![s] = "died"]
    /\ UNCHANGED <<open, resume, working>>

-----------------------------------------------------------------------------
(* Staff                                                                   *)

\* Of a resume with a file that is not removed.
Reparse(s) ==
    /\ Click
    /\ Live(s) /\ resume[s].file
    /\ Put(NewJob("parse", s, "waiting"))
    /\ UNCHANGED <<applying, resume, worker, cached, faults, excused>>

\* validateResumeForAnalysis
Reanalyze(s) ==
    /\ Click
    /\ Live(s) /\ resume[s].isParsed /\ resume[s].data
    /\ Put(NewJob("analyze", s, "waiting"))
    /\ UNCHANGED <<applying, resume, worker, cached, faults, excused>>

\* remove and bulkRemove soft-delete: no query finds the resume any more.
Remove(s) ==
    /\ Click
    /\ Live(s)
    /\ Set(s, [state |-> "deleted"])
    /\ UNCHANGED <<applying, jobs, worker, cached, faults, excused>>

\* The posting is rejected, deactivated or expires, and may be renewed.
TogglePosting ==
    /\ open' = ~open
    /\ UNCHANGED <<request, resume, working>>

-----------------------------------------------------------------------------
(* The queue                                                               *)

Promote(j) ==
    /\ j.state = "delayed"
    /\ jobs' = BagAdd(BagRemove(jobs, j), [j EXCEPT !.state = "waiting"])
    /\ UNCHANGED <<applying, resume, worker, cached, faults, clicks, excused>>

\* A waiting analysis gives way to a waiting parse; a job whose worker died
\* is outside the priorities.
Take(j) ==
    /\ At("idle")
    /\ \/ j.state = "stalled"
       \/ j.state = "waiting" /\ j.kind = "parse"
       \/ /\ j.state = "waiting"
          /\ \A i \in BagToSet(jobs) : ~(i.state = "waiting" /\ i.kind = "parse")
    /\ jobs' = BagRemove(jobs, j)
    /\ worker' = [job |-> [j EXCEPT !.state = "active"],
                   pc |-> IF j.kind = "parse" THEN "cache" ELSE "load",
                   found |-> FALSE]
    /\ UNCHANGED <<applying, resume, cached, faults, clicks, excused>>

Complete == worker' = Idle /\ UNCHANGED jobs

\* Mutant: the limit on the attempts is off by one.
AttemptFailsLate ==
    /\ IF worker.job.attempts < MaxAttempts
       THEN Put([worker.job EXCEPT !.state = "delayed", !.attempts = @ + 1])
       ELSE UNCHANGED jobs
    /\ worker' = Idle

\* Mutant: every attempt is a first attempt.
AttemptFailsAnew ==
    /\ Put([worker.job EXCEPT !.state = "delayed"])
    /\ worker' = Idle

\* The handler throws: the job waits for its next attempt, or has none left.
AttemptFails ==
    /\ IF worker.job.attempts + 1 < MaxAttempts
       THEN Put([worker.job EXCEPT !.state = "delayed", !.attempts = @ + 1])
       ELSE UNCHANGED jobs
    /\ worker' = Idle

\* The process dies with its cache.  The job is taken again once; the second
\* time it is failed without its handler running.  Requests in flight die.
Crash ==
    /\ Fault
    /\ cached' = {}
    /\ request' = [s \in Submissions |->
         IF request[s] \in {"idle", "accepted", "refused"} THEN request[s] ELSE "died"]
    /\ worker' = Idle
    /\ IF At("idle") THEN UNCHANGED <<jobs, excused>>
       ELSE IF worker.job.stalls = 0
       THEN /\ Put([worker.job EXCEPT !.state = "stalled", !.stalls = 1])
            /\ UNCHANGED excused
       ELSE /\ excused' = excused \cup {Subject}
            /\ UNCHANGED jobs
    /\ UNCHANGED <<open, resume, clicks>>

-----------------------------------------------------------------------------
(* handleParseResume                                                       *)

ParseLookup ==
    /\ At("cache")
    /\ Goto(IF Subject \in cached THEN "hit" ELSE "extract")
    /\ UNCHANGED <<applying, resume, jobs, cached, faults, clicks, excused>>

\* The cached data is the job's result; the resume is left as it is.
ParseFromCache ==
    /\ At("hit")
    /\ Complete
    /\ UNCHANGED <<applying, resume, cached, faults, clicks, excused>>

\* Text extraction, the model's answer and skill normalisation ...
ParseExtract ==
    /\ At("extract")
    /\ Goto("persist")
    /\ UNCHANGED <<applying, resume, jobs, cached, faults, clicks, excused>>

\* ... which may throw on a bad file or a bad answer ...
ParseThrows ==
    /\ At("extract")
    /\ Goto("record")
    /\ UNCHANGED <<applying, resume, jobs, cached, faults, clicks, excused>>

\* ... or find the quota exhausted.
ParseDenied ==
    /\ At("extract")
    /\ Goto("reschedule")
    /\ UNCHANGED <<applying, resume, jobs, cached, faults, clicks, excused>>

\* New data makes an analysis of the old data stale.
ParsePersist ==
    /\ At("persist")
    /\ Set(Subject, [data |-> TRUE, isParsed |-> TRUE, parseError |-> FALSE,
                     analysis |-> IF resume[Subject].analysis = "none"
                                  THEN "none" ELSE "stale"])
    /\ Goto("report")
    /\ UNCHANGED <<applying, jobs, cached, faults, clicks, excused>>

\* The dashboards' caches and the progress, then the parse cache.
ParseReport ==
    /\ At("report")
    /\ cached' = cached \cup {Subject}
    /\ Goto("finish")
    /\ UNCHANGED <<applying, resume, jobs, faults, clicks, excused>>

ParseFinish ==
    /\ At("finish")
    /\ Goto("queue")
    /\ UNCHANGED <<applying, resume, jobs, cached, faults, clicks, excused>>

\* Mutant: a resume that has an analysis gets no other.
ParseQueueFirst ==
    /\ At("queue")
    /\ IF resume[Subject].analysis = "none"
       THEN Put(NewJob("analyze", Subject, "waiting"))
       ELSE UNCHANGED jobs
    /\ worker' = Idle
    /\ UNCHANGED <<applying, resume, cached, faults, clicks, excused>>

ParseQueue ==
    /\ At("queue")
    /\ Put(NewJob("analyze", Subject, "waiting"))
    /\ worker' = Idle
    /\ UNCHANGED <<applying, resume, cached, faults, clicks, excused>>

\* An analysis that cannot be queued is logged and forgotten.
ParseQueueFails ==
    /\ At("queue")
    /\ Fault
    /\ Complete
    /\ excused' = excused \cup {Subject}
    /\ UNCHANGED <<applying, resume, cached, clicks>>

\* Mutant: a denied parse that cannot be queued anew is logged and forgotten.
ParseCallFailsQuietly ==
    /\ worker.pc \in {"cache", "hit", "persist", "report", "finish", "reschedule"}
    /\ Fault
    /\ IF At("reschedule") THEN Complete ELSE Goto("record") /\ UNCHANGED jobs
    /\ UNCHANGED <<applying, resume, cached, clicks, excused>>

\* Any call before that throws.
ParseCallFails ==
    /\ worker.pc \in {"cache", "hit", "persist", "report", "finish", "reschedule"}
    /\ Fault
    /\ Goto("record")
    /\ UNCHANGED <<applying, resume, jobs, cached, clicks, excused>>

\* A denied parse is queued anew, with all its attempts, and this job is done.
ParseReschedule ==
    /\ At("reschedule")
    /\ Put(NewJob("parse", Subject, "delayed"))
    /\ worker' = Idle
    /\ UNCHANGED <<applying, resume, cached, faults, clicks, excused>>

ParseRecord ==
    /\ At("record")
    /\ Set(Subject, [isParsed |-> FALSE, parseError |-> TRUE])
    /\ AttemptFails
    /\ UNCHANGED <<applying, cached, faults, clicks, excused>>

-----------------------------------------------------------------------------
(* handleAnalyzeResume                                                     *)

AnalyzeLoad ==
    /\ At("load")
    /\ worker' = [worker EXCEPT !.pc = "posting",
                                !.found = Live(Subject) /\ resume[Subject].data]
    /\ UNCHANGED <<applying, resume, jobs, cached, faults, clicks, excused>>

\* Without the resume's data or the posting there is nothing to match.
AnalyzeFetchPosting ==
    /\ At("posting")
    /\ Goto(IF worker.found /\ open THEN "write" ELSE "recordAnalysis")
    /\ UNCHANGED <<applying, resume, jobs, cached, faults, clicks, excused>>

AnalyzeWrite ==
    /\ At("write")
    /\ Set(Subject, [analysis |-> "fresh", isAnalyzed |-> TRUE, analysisError |-> FALSE])
    /\ Goto("close")
    /\ excused' = excused \ {Subject}
    /\ UNCHANGED <<applying, jobs, cached, faults, clicks>>

AnalyzeClose ==
    /\ At("close")
    /\ Complete
    /\ UNCHANGED <<applying, resume, cached, faults, clicks, excused>>

AnalyzeCallFails ==
    /\ worker.pc \in {"load", "posting", "write", "close"}
    /\ Fault
    /\ Goto("recordAnalysis")
    /\ UNCHANGED <<applying, resume, jobs, cached, clicks, excused>>

AnalyzeRecord ==
    /\ At("recordAnalysis")
    /\ Set(Subject, [isAnalyzed |-> FALSE, analysisError |-> TRUE])
    /\ AttemptFails
    /\ UNCHANGED <<applying, cached, faults, clicks, excused>>

\* The record of a failure can itself fail.
RecordFails ==
    /\ worker.pc \in {"record", "recordAnalysis"}
    /\ Fault
    /\ AttemptFails
    /\ excused' = excused \cup {Subject}
    /\ UNCHANGED <<applying, resume, cached, clicks>>

\* The cached data expires.
CacheExpires(s) ==
    /\ s \in cached
    /\ cached' = cached \ {s}
    /\ UNCHANGED <<applying, resume, jobs, worker, faults, clicks, excused>>

-----------------------------------------------------------------------------
Apply(s) ==
    \/ ValidateJob(s) \/ CheckDuplicate(s) \/ CreateUpload(s) \/ CreateOnline(s)
    \/ AddParse(s) \/ AddAnalysis(s) \/ RequestDies(s)

Staff(s) == Reparse(s) \/ Reanalyze(s) \/ Remove(s)

ParseStep ==
    \/ ParseLookup \/ ParseFromCache \/ ParseExtract \/ ParseThrows
    \/ ParseDenied \/ ParsePersist \/ ParseReport \/ ParseFinish \/ ParseQueue
    \/ ParseReschedule \/ ParseRecord

AnalyzeStep ==
    \/ AnalyzeLoad \/ AnalyzeFetchPosting \/ AnalyzeWrite \/ AnalyzeClose
    \/ AnalyzeRecord

Failure ==
    \/ ParseCallFails \/ ParseQueueFails \/ AnalyzeCallFails \/ RecordFails
    \/ Crash

Next ==
    \/ \E s \in Submissions : Apply(s) \/ Staff(s) \/ CacheExpires(s)
    \/ \E j \in BagToSet(jobs) : Promote(j) \/ Take(j)
    \/ ParseStep \/ AnalyzeStep \/ Failure \/ TogglePosting

\* The worker runs and delays pass; a denied parse waits for the window that
\* denied it to end, so other load does not deny it for ever.
Fairness ==
    /\ WF_vars(\E j \in BagToSet(jobs) : Promote(j))
    /\ WF_vars(\E j \in BagToSet(jobs) : Take(j))
    /\ WF_vars(ParseStep) /\ WF_vars(AnalyzeStep)
    /\ <>[][~ParseDenied]_vars

Spec == Init /\ [][Next]_vars

FairSpec == Spec /\ Fairness

-----------------------------------------------------------------------------
(* Properties                                                              *)

ResumeType ==
    [state : {"none", "live", "deleted"}, file : BOOLEAN, data : BOOLEAN, isParsed : BOOLEAN,
     parseError : BOOLEAN, analysis : {"none", "fresh", "stale"},
     isAnalyzed : BOOLEAN, analysisError : BOOLEAN]

JobType ==
    [kind : Kinds \cup {"none"}, resume : Submissions \cup {None},
     state : {"none", "waiting", "delayed", "stalled", "active"},
     attempts : 0..(MaxAttempts - 1), stalls : {0, 1}]

ParsePcs == {"cache", "hit", "extract", "persist", "report", "finish", "queue",
             "reschedule", "record"}
AnalyzePcs == {"load", "posting", "write", "close", "recordAnalysis"}

WorkerType ==
    [job : JobType, pc : {"idle"} \cup ParsePcs \cup AnalyzePcs,
     found : BOOLEAN]

RequestPcs == {"idle", "check", "create", "addParse", "addAnalysis", "accepted",
               "refused", "died"}

TypeOK ==
    /\ open \in BOOLEAN
    /\ request \in [Submissions -> RequestPcs]
    /\ resume \in [Submissions -> ResumeType]
    /\ IsABag(jobs) /\ BagToSet(jobs) \subseteq JobType
    /\ worker \in WorkerType
    /\ cached \subseteq Submissions
    /\ faults \in 0..MaxFaults /\ clicks \in 0..MaxClicks
    /\ excused \subseteq Submissions

Settled(s) == JobsOf(s) = {}

\* A resume whose parse was queued is parsed, shows why it is not, or has a
\* parse under way: no path through quota denials, failed reschedules and
\* retries drops it, but for a job given up without a record.
NoApplicationDropped ==
    \A s \in Submissions :
        resume[s].file /\ request[s] \in {"addAnalysis", "accepted"} =>
            \/ resume[s].isParsed \/ resume[s].parseError
            \/ \E j \in JobsOf(s) : j.kind = "parse"
            \/ s \in excused

\* When its jobs have ended, a parsed resume has an analysis of the data it
\* holds or the error that prevented one.
AnalysisCatchesUp ==
    \A s \in Submissions :
        Settled(s) /\ request[s] = "accepted" /\ resume[s].isParsed
          /\ s \notin excused =>
            resume[s].analysis = "fresh" \/ resume[s].analysisError

\* The processing of every accepted application comes to an end.
ProcessingEnds ==
    \A s \in Submissions : request[s] = "accepted" ~> Settled(s)
=============================================================================
