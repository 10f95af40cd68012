------------------------- MODULE ApplicationProofs -------------------------
(***************************************************************************)
(* What is proved of the screening of applications: the queue that parses  *)
(* and analyses resumes (ResumePipeline), for any number of submissions,   *)
(* attempts, faults and clicks.                                            *)
(*                                                                         *)
(* A step's queue, worker and resume are first described without bags and  *)
(* record updates (Applying, Staffing, Queueing, Walking, Ending, Writing, *)
(* Recording, Crashing); the invariant is proved from those descriptions.  *)
(***************************************************************************)
EXTENDS ResumePipeline, TLAPS

Queued == BagToSet(jobs)

LEMMA BagOf ==
    ASSUME NEW B, IsABag(B)
    PROVE  B = [e \in DOMAIN B |-> B[e]] /\ \A e \in DOMAIN B : B[e] \in Nat /\ B[e] > 0
BY DEF IsABag

LEMMA AddToBag ==
    ASSUME NEW B, NEW x, IsABag(B)
    PROVE  IsABag(BagAdd(B, x)) /\ BagToSet(BagAdd(B, x)) = BagToSet(B) \cup {x}
BY BagOf DEF IsABag, BagAdd, BagToSet

LEMMA RemoveFromBag ==
    ASSUME NEW B, NEW x, IsABag(B)
    PROVE  /\ IsABag(BagRemove(B, x))
           /\ BagToSet(BagRemove(B, x)) \subseteq BagToSet(B)
           /\ BagToSet(B) \ {x} \subseteq BagToSet(BagRemove(B, x))
BY BagOf DEF IsABag, BagRemove, BagToSet

Fields == {"state", "file", "data", "isParsed", "parseError", "analysis", "isAnalyzed",
           "analysisError"}

\* What Set leaves and what it writes.
Others(s) == \A t \in Submissions \ {s} : resume'[t] = resume[t]

LEMMA SetFields ==
    ASSUME resume \in [Submissions -> ResumeType], NEW s \in Submissions, NEW fields,
           Set(s, fields)
    PROVE  /\ resume' = [t \in Submissions |-> resume'[t]]
           /\ Others(s)
           /\ resume'[s] = [f \in Fields |-> IF f \in DOMAIN fields THEN fields[f]
                                             ELSE resume[s][f]]
<1>1. DOMAIN resume[s] = Fields
  BY DEF ResumeType, Fields
<1>. QED
  BY <1>1 DEF Set, Others

LEMMA RecordOf ==
    ASSUME NEW r, r = [f \in Fields |-> r[f]],
           r.state \in {"none", "live", "deleted"}, r.file \in BOOLEAN, r.data \in BOOLEAN,
           r.isParsed \in BOOLEAN, r.parseError \in BOOLEAN,
           r.analysis \in {"none", "fresh", "stale"},
           r.isAnalyzed \in BOOLEAN, r.analysisError \in BOOLEAN
    PROVE  r \in ResumeType
BY DEF Fields, ResumeType

\* The five ways a resume is written after it is created.
LEMMA SetDeleted ==
    ASSUME resume \in [Submissions -> ResumeType], NEW s \in Submissions,
           Set(s, [state |-> "deleted"])
    PROVE  /\ resume' \in [Submissions -> ResumeType] /\ Others(s)
           /\ resume'[s].state = "deleted"
           /\ \A f \in Fields \ {"state"} : resume'[s][f] = resume[s][f]
<1>1. DOMAIN [state |-> "deleted"] = {"state"}
  OBVIOUS
<1>2. resume' = [t \in Submissions |-> resume'[t]] /\ Others(s)
  BY SetFields
<1>3. resume'[s] = [f \in Fields |-> IF f = "state" THEN "deleted" ELSE resume[s][f]]
  BY <1>1, SetFields
<1>4. resume'[s] \in ResumeType
  BY <1>3, RecordOf DEF Fields, ResumeType
<1>. QED
  BY <1>2, <1>3, <1>4 DEF Others, Fields

LEMMA SetParsed ==
    ASSUME resume \in [Submissions -> ResumeType], NEW s \in Submissions,
           NEW a \in {"none", "fresh", "stale"},
           Set(s, [data |-> TRUE, isParsed |-> TRUE, parseError |-> FALSE, analysis |-> a])
    PROVE  /\ resume' \in [Submissions -> ResumeType] /\ Others(s)
           /\ resume'[s].data /\ resume'[s].isParsed /\ resume'[s].analysis = a
           /\ \A f \in {"state", "file", "isAnalyzed", "analysisError"} :
                  resume'[s][f] = resume[s][f]
<1>. DEFINE new == [data |-> TRUE, isParsed |-> TRUE, parseError |-> FALSE, analysis |-> a]
<1>1. /\ DOMAIN new = {"data", "isParsed", "parseError", "analysis"}
      /\ new["data"] = TRUE /\ new["isParsed"] = TRUE /\ new["parseError"] = FALSE
      /\ new["analysis"] = a
  OBVIOUS
<1>2. Set(s, new)
  OBVIOUS
<1>. HIDE DEF new
<1>3. /\ resume' = [t \in Submissions |-> resume'[t]] /\ Others(s)
      /\ resume'[s] = [f \in Fields |-> IF f \in DOMAIN new THEN new[f] ELSE resume[s][f]]
  BY <1>2, SetFields
<1>4. resume'[s] \in ResumeType
  <2>1. /\ resume'[s].data = TRUE /\ resume'[s].isParsed = TRUE /\ resume'[s].parseError = FALSE
        /\ resume'[s].analysis = a
        /\ \A f \in {"state", "file", "isAnalyzed", "analysisError"} :
              resume'[s][f] = resume[s][f]
    BY <1>1, <1>3 DEF Fields
  <2>2. resume'[s] = [f \in Fields |-> resume'[s][f]]
    BY <1>3
  <2>. QED
    BY <2>1, <2>2, RecordOf DEF ResumeType
<1>. QED
  BY <1>1, <1>3, <1>4 DEF Others, Fields

LEMMA SetUnparsed ==
    ASSUME resume \in [Submissions -> ResumeType], NEW s \in Submissions,
           Set(s, [isParsed |-> FALSE, parseError |-> TRUE])
    PROVE  /\ resume' \in [Submissions -> ResumeType] /\ Others(s)
           /\ ~resume'[s].isParsed /\ resume'[s].parseError
           /\ \A f \in Fields \ {"isParsed", "parseError"} : resume'[s][f] = resume[s][f]
<1>. DEFINE new == [isParsed |-> FALSE, parseError |-> TRUE]
<1>1. /\ DOMAIN new = {"isParsed", "parseError"}
      /\ new["isParsed"] = FALSE /\ new["parseError"] = TRUE
  OBVIOUS
<1>2. Set(s, new)
  OBVIOUS
<1>. HIDE DEF new
<1>3. /\ resume' = [t \in Submissions |-> resume'[t]] /\ Others(s)
      /\ resume'[s] = [f \in Fields |-> IF f \in DOMAIN new THEN new[f] ELSE resume[s][f]]
  BY <1>2, SetFields
<1>4. resume'[s] \in ResumeType
  <2>1. /\ resume'[s].isParsed = FALSE /\ resume'[s].parseError = TRUE
        /\ \A f \in Fields \ {"isParsed", "parseError"} : resume'[s][f] = resume[s][f]
    BY <1>1, <1>3 DEF Fields
  <2>2. resume'[s] = [f \in Fields |-> resume'[s][f]]
    BY <1>3
  <2>. QED
    BY <2>1, <2>2, RecordOf DEF Fields, ResumeType
<1>. QED
  BY <1>1, <1>3, <1>4 DEF Others, Fields

LEMMA SetAnalyzed ==
    ASSUME resume \in [Submissions -> ResumeType], NEW s \in Submissions,
           Set(s, [analysis |-> "fresh", isAnalyzed |-> TRUE, analysisError |-> FALSE])
    PROVE  /\ resume' \in [Submissions -> ResumeType] /\ Others(s)
           /\ resume'[s].analysis = "fresh"
           /\ \A f \in {"state", "file", "data", "isParsed", "parseError"} :
                  resume'[s][f] = resume[s][f]
<1>. DEFINE new == [analysis |-> "fresh", isAnalyzed |-> TRUE, analysisError |-> FALSE]
<1>1. /\ DOMAIN new = {"analysis", "isAnalyzed", "analysisError"}
      /\ new["analysis"] = "fresh" /\ new["isAnalyzed"] = TRUE /\ new["analysisError"] = FALSE
  OBVIOUS
<1>2. Set(s, new)
  OBVIOUS
<1>. HIDE DEF new
<1>3. /\ resume' = [t \in Submissions |-> resume'[t]] /\ Others(s)
      /\ resume'[s] = [f \in Fields |-> IF f \in DOMAIN new THEN new[f] ELSE resume[s][f]]
  BY <1>2, SetFields
<1>4. resume'[s] \in ResumeType
  <2>1. /\ resume'[s].analysis = "fresh" /\ resume'[s].isAnalyzed = TRUE /\ resume'[s].analysisError = FALSE
        /\ \A f \in {"state", "file", "data", "isParsed", "parseError"} : resume'[s][f] = resume[s][f]
    BY <1>1, <1>3 DEF Fields
  <2>2. resume'[s] = [f \in Fields |-> resume'[s][f]]
    BY <1>3
  <2>. QED
    BY <2>1, <2>2, RecordOf DEF Fields, ResumeType
<1>. QED
  BY <1>1, <1>3, <1>4 DEF Others, Fields

LEMMA SetUnanalyzed ==
    ASSUME resume \in [Submissions -> ResumeType], NEW s \in Submissions,
           Set(s, [isAnalyzed |-> FALSE, analysisError |-> TRUE])
    PROVE  /\ resume' \in [Submissions -> ResumeType] /\ Others(s)
           /\ resume'[s].analysisError
           /\ \A f \in Fields \ {"isAnalyzed", "analysisError"} : resume'[s][f] = resume[s][f]
<1>. DEFINE new == [isAnalyzed |-> FALSE, analysisError |-> TRUE]
<1>1. /\ DOMAIN new = {"isAnalyzed", "analysisError"}
      /\ new["isAnalyzed"] = FALSE /\ new["analysisError"] = TRUE
  OBVIOUS
<1>2. Set(s, new)
  OBVIOUS
<1>. HIDE DEF new
<1>3. /\ resume' = [t \in Submissions |-> resume'[t]] /\ Others(s)
      /\ resume'[s] = [f \in Fields |-> IF f \in DOMAIN new THEN new[f] ELSE resume[s][f]]
  BY <1>2, SetFields
<1>4. resume'[s] \in ResumeType
  <2>1. /\ resume'[s].isAnalyzed = FALSE /\ resume'[s].analysisError = TRUE
        /\ \A f \in Fields \ {"isAnalyzed", "analysisError"} : resume'[s][f] = resume[s][f]
    BY <1>1, <1>3 DEF Fields
  <2>2. resume'[s] = [f \in Fields |-> resume'[s][f]]
    BY <1>3
  <2>. QED
    BY <2>1, <2>2, RecordOf DEF Fields, ResumeType
<1>. QED
  BY <1>1, <1>3, <1>4 DEF Others, Fields

\* The two ways a resume comes to be.
LEMMA NewResumes ==
    /\ NoResume \in ResumeType /\ Uploaded \in ResumeType /\ Profiled \in ResumeType
    /\ NoResume.state = "none" /\ ~NoResume.file /\ ~NoResume.data /\ ~NoResume.isParsed
    /\ Uploaded.state = "live" /\ Uploaded.file /\ ~Uploaded.data
    /\ ~Uploaded.isParsed /\ ~Uploaded.parseError
    /\ Profiled.state = "live" /\ ~Profiled.file /\ Profiled.isParsed
    /\ Profiled.analysis = "fresh"
BY DEF NoResume, Uploaded, Profiled, ResumeType

LEMMA SetCreated ==
    ASSUME resume \in [Submissions -> ResumeType], NEW s \in Submissions,
           NEW r \in {Uploaded, Profiled}, Set(s, r)
    PROVE  resume' \in [Submissions -> ResumeType] /\ Others(s) /\ resume'[s] = r
<1>1. DOMAIN r = Fields /\ r = [f \in Fields |-> r[f]] /\ r \in ResumeType
  BY NewResumes DEF ResumeType, Fields
<1>2. resume' = [t \in Submissions |-> resume'[t]] /\ Others(s)
  BY SetFields
<1>3. resume'[s] = [f \in Fields |-> IF f \in DOMAIN r THEN r[f] ELSE resume[s][f]]
  BY SetFields
<1>4. resume'[s] = r
  BY <1>1, <1>3
<1>. QED
  BY <1>1, <1>2, <1>4 DEF Others

\* The jobs the queue is given.
LEMMA JobAdded ==
    ASSUME NEW kind \in Kinds, NEW s \in Submissions, NEW state \in {"waiting", "delayed"}
    PROVE  /\ NewJob(kind, s, state) \in JobType
           /\ NewJob(kind, s, state).kind = kind /\ NewJob(kind, s, state).resume = s
           /\ NewJob(kind, s, state).state = state
BY BoundAssumption DEF NewJob, JobType

LEMMA JobInState ==
    ASSUME NEW j \in JobType, NEW state \in {"waiting", "delayed", "active"}
    PROVE  /\ [j EXCEPT !.state = state] \in JobType
           /\ [j EXCEPT !.state = state].kind = j.kind
           /\ [j EXCEPT !.state = state].resume = j.resume
           /\ [j EXCEPT !.state = state].state = state
BY DEF JobType

LEMMA JobRetried ==
    ASSUME NEW j \in JobType, j.attempts + 1 < MaxAttempts
    PROVE  /\ [j EXCEPT !.state = "delayed", !.attempts = @ + 1] \in JobType
           /\ [j EXCEPT !.state = "delayed", !.attempts = @ + 1].kind = j.kind
           /\ [j EXCEPT !.state = "delayed", !.attempts = @ + 1].resume = j.resume
           /\ [j EXCEPT !.state = "delayed", !.attempts = @ + 1].state = "delayed"
<1>. DEFINE n == j.attempts + 1
<1>1. n \in 0..(MaxAttempts - 1)
  BY BoundAssumption DEF JobType
<1>. HIDE DEF n
<1>2. [j EXCEPT !.state = "delayed", !.attempts = n] \in JobType
  BY <1>1 DEF JobType
<1>. QED
  BY <1>2 DEF JobType, n

LEMMA JobStalled ==
    ASSUME NEW j \in JobType
    PROVE  /\ [j EXCEPT !.state = "stalled", !.stalls = 1] \in JobType
           /\ [j EXCEPT !.state = "stalled", !.stalls = 1].kind = j.kind
           /\ [j EXCEPT !.state = "stalled", !.stalls = 1].resume = j.resume
           /\ [j EXCEPT !.state = "stalled", !.stalls = 1].state = "stalled"
BY DEF JobType

LEMMA Walked ==
    ASSUME worker \in WorkerType, NEW pc \in {"idle"} \cup ParsePcs \cup AnalyzePcs, Goto(pc)
    PROVE  /\ worker' \in WorkerType /\ worker'.pc = pc
           /\ worker'.job = worker.job /\ worker'.found = worker.found
BY DEF WorkerType, Goto

LEMMA Rested ==
    /\ NoJob \in JobType /\ Idle \in WorkerType
    /\ Idle.pc = "idle" /\ Idle.job = NoJob
BY BoundAssumption DEF Idle, WorkerType, JobType, NoJob

-----------------------------------------------------------------------------
(* The inductive invariant                                                 *)

\* The worker is idle or has a job of the kind its step belongs to.
Tied ==
    /\ At("idle") => worker = Idle
    /\ worker.pc \in ParsePcs => worker.job.kind = "parse"
    /\ worker.pc \in AnalyzePcs => worker.job.kind = "analyze"
    /\ ~At("idle") => Subject \in Submissions /\ worker.job.state = "active"
    /\ \A j \in Queued :
          j.kind \in Kinds /\ j.resume \in Submissions
             /\ j.state \in {"waiting", "delayed", "stalled"}

Shape == TypeOK /\ Tied

\* The queue after a step.
Gains(j) == Queued' = Queued \cup {j}

LEMMA PutGains ==
    ASSUME IsABag(jobs), NEW j, Put(j)
    PROVE  IsABag(jobs') /\ Gains(j)
BY AddToBag DEF Put, Gains, Queued

LEMMA ShapeInit ==
    ASSUME Init
    PROVE  Shape
<1>1. IsABag(jobs) /\ BagToSet(jobs) = {}
  BY DEF Init, EmptyBag, SetToBag, IsABag, BagToSet
<1>2. worker \in WorkerType
  BY Rested DEF Init
<1>3. resume \in [Submissions -> ResumeType]
  BY NewResumes DEF Init
<1>4. request \in [Submissions -> RequestPcs]
  BY DEF Init, RequestPcs
<1>5. faults \in 0..MaxFaults /\ clicks \in 0..MaxClicks
  BY BoundAssumption DEF Init
<1>6. TypeOK
  BY <1>1, <1>2, <1>3, <1>4, <1>5 DEF Init, TypeOK
<1>7. Tied
  BY <1>1, Rested DEF Init, Tied, At, Queued, ParsePcs, AnalyzePcs
<1>. QED
  BY <1>6, <1>7 DEF Shape

LEMMA ShapeApply ==
    ASSUME Shape, NEW s \in Submissions, Apply(s)
    PROVE  Shape'
<1>. USE DEF Shape, TypeOK
<1>1. UNCHANGED <<worker, cached, faults, clicks, excused>> /\ open' = open
  BY DEF Apply, ValidateJob, CheckDuplicate, CreateUpload, CreateOnline, AddParse, AddAnalysis,
     RequestDies, working
<1>2. request' \in [Submissions -> RequestPcs]
  BY DEF Apply, ValidateJob, CheckDuplicate, CreateUpload, CreateOnline, AddParse, AddAnalysis,
     RequestDies, Moves, RequestPcs
<1>3. resume' \in [Submissions -> ResumeType]
  <2>1. UNCHANGED resume \/ Set(s, Uploaded) \/ Set(s, Profiled)
    BY DEF Apply, ValidateJob, CheckDuplicate, CreateUpload, CreateOnline, AddParse,
       AddAnalysis, RequestDies
  <2>. QED
    BY <2>1, SetCreated
<1>4. \/ UNCHANGED jobs
      \/ \E kind \in Kinds : Put(NewJob(kind, s, "waiting"))
  BY DEF Apply, ValidateJob, CheckDuplicate, CreateUpload, CreateOnline, AddParse, AddAnalysis,
     RequestDies, working, Kinds
<1>5. IsABag(jobs') /\ (Queued' = Queued \/ \E kind \in Kinds : Gains(NewJob(kind, s, "waiting")))
  BY <1>4, PutGains DEF Queued
<1>6. TypeOK'
  BY <1>1, <1>2, <1>3, <1>5, JobAdded DEF Gains, Queued
<1>7. Tied'
  BY <1>1, <1>5, JobAdded DEF Tied, Gains, At, Subject
<1>. QED
  BY <1>6, <1>7

LEMMA ShapeStaff ==
    ASSUME Shape, NEW s \in Submissions, Staff(s) \/ CacheExpires(s)
    PROVE  Shape'
<1>. USE DEF Shape, TypeOK
<1>1. UNCHANGED <<worker, applying, faults, excused>> /\ cached' \subseteq cached
  BY DEF Staff, CacheExpires, Reparse, Reanalyze, Remove
<1>2. clicks' \in 0..MaxClicks
  BY BoundAssumption DEF Staff, CacheExpires, Reparse, Reanalyze, Remove, Click
<1>3. resume' \in [Submissions -> ResumeType]
  <2>1. UNCHANGED resume \/ Set(s, [state |-> "deleted"])
    BY DEF Staff, CacheExpires, Reparse, Reanalyze, Remove
  <2>. QED
    BY <2>1, SetDeleted
<1>4. \/ UNCHANGED jobs
      \/ \E kind \in Kinds : Put(NewJob(kind, s, "waiting"))
  BY DEF Staff, CacheExpires, Reparse, Reanalyze, Remove, Kinds
<1>5. IsABag(jobs') /\ (Queued' = Queued \/ \E kind \in Kinds : Gains(NewJob(kind, s, "waiting")))
  BY <1>4, PutGains DEF Queued
<1>6. TypeOK'
  BY <1>1, <1>2, <1>3, <1>5, JobAdded DEF Gains, Queued, applying
<1>7. Tied'
  BY <1>1, <1>5, JobAdded DEF Tied, Gains, At, Subject
<1>. QED
  BY <1>6, <1>7

\* A step that leaves the worker's job in hand.
Walk(pcs, next) ==
    worker.pc \in pcs /\ worker'.pc \in next /\ worker'.job = worker.job

Walking ==
    /\ UNCHANGED <<applying, resume, jobs, clicks, excused>>
    /\ worker' \in WorkerType
    /\ \/ Walk({"cache"}, {IF Subject \in cached THEN "hit" ELSE "extract"}) /\ UNCHANGED cached
       \/ Walk({"extract"}, {"persist", "record", "reschedule"}) /\ UNCHANGED cached
       \/ Walk({"report"}, {"finish"}) /\ cached' = cached \cup {Subject}
       \/ Walk({"finish"}, {"queue"}) /\ UNCHANGED cached
       \/ /\ Walk({"cache", "hit", "persist", "report", "finish", "reschedule"}, {"record"})
          /\ UNCHANGED cached
       \/ /\ Walk({"load"}, {"posting"}) /\ UNCHANGED cached
          /\ worker'.found => resume[Subject].data
       \/ Walk({"posting"}, IF worker.found THEN {"write", "recordAnalysis"}
                            ELSE {"recordAnalysis"}) /\ UNCHANGED cached
       \/ Walk({"load", "posting", "write", "close"}, {"recordAnalysis"}) /\ UNCHANGED cached

Walks ==
    \/ ParseLookup \/ ParseExtract \/ ParseThrows \/ ParseDenied \/ ParseReport \/ ParseFinish
    \/ ParseCallFails \/ AnalyzeLoad \/ AnalyzeFetchPosting \/ AnalyzeCallFails

LEMMA AreWalking ==
    ASSUME Shape, Walks
    PROVE  Walking /\ faults' \in 0..MaxFaults
<1>. USE Walked DEF Shape, TypeOK, Walking, Walk, At, ParsePcs, AnalyzePcs
<1>1. faults' \in 0..MaxFaults
  BY BoundAssumption DEF Walks, ParseLookup, ParseExtract, ParseThrows, ParseDenied, ParseReport,
     ParseFinish, ParseCallFails, AnalyzeLoad, AnalyzeFetchPosting, AnalyzeCallFails, Fault
<1>2. CASE ParseLookup
  BY <1>1, <1>2 DEF ParseLookup
<1>3. CASE ParseExtract \/ ParseThrows \/ ParseDenied
  BY <1>1, <1>3 DEF ParseExtract, ParseThrows, ParseDenied
<1>4. CASE ParseReport
  BY <1>1, <1>4 DEF ParseReport
<1>5. CASE ParseFinish
  BY <1>1, <1>5 DEF ParseFinish
<1>6. CASE ParseCallFails
  BY <1>1, <1>6 DEF ParseCallFails
<1>7. CASE AnalyzeLoad
  <2>1. Live(Subject) \in BOOLEAN /\ resume[Subject].data \in BOOLEAN
    BY <1>7 DEF AnalyzeLoad, Tied, Live, ResumeType
  <2>2. (Live(Subject) /\ resume[Subject].data) \in BOOLEAN
    BY <2>1
  <2>3. worker' \in WorkerType
    BY <1>7, <2>2 DEF AnalyzeLoad, WorkerType
  <2>4. /\ worker'.pc = "posting" /\ worker'.job = worker.job
        /\ worker'.found => resume[Subject].data
    BY <1>7, <2>2 DEF AnalyzeLoad, WorkerType
  <2>. QED
    BY <1>1, <1>7, <2>3, <2>4 DEF AnalyzeLoad
<1>8. CASE AnalyzeFetchPosting
  BY <1>1, <1>8 DEF AnalyzeFetchPosting
<1>9. CASE AnalyzeCallFails
  BY <1>1, <1>9 DEF AnalyzeCallFails
<1>. QED
  BY <1>2, <1>3, <1>4, <1>5, <1>6, <1>7, <1>8, <1>9 DEF Walks

LEMMA ShapeWalks ==
    ASSUME Shape, Walks
    PROVE  Shape'
<1>1. Walking /\ faults' \in 0..MaxFaults
  BY AreWalking
<1>2. Subject \in Submissions \/ At("idle")
  BY DEF Shape, Tied
<1>3. cached' \subseteq Submissions
  BY <1>1, <1>2 DEF Walking, Walk, Shape, TypeOK, At
<1>4. TypeOK'
  BY <1>1, <1>3 DEF Walking, Shape, TypeOK, applying
<1>5. Tied'
  BY <1>1 DEF Walking, Walk, Shape, Tied, At, Subject, Queued, ParsePcs, AnalyzePcs
<1>. QED
  BY <1>4, <1>5 DEF Shape

\* A step that ends the work on the job: it leaves the queue, with a successor
\* or without one.
Successor(kind, states) ==
    \E j : j.kind = kind /\ j.resume = Subject /\ j.state \in states /\ Gains(j)

Ending ==
    /\ ~At("idle")
    /\ worker' = Idle
    /\ UNCHANGED <<applying, resume, cached, clicks>>
    /\ \/ At("hit") /\ Queued' = Queued /\ UNCHANGED excused
       \/ At("close") /\ Queued' = Queued /\ UNCHANGED excused
       \/ At("queue") /\ Successor("analyze", {"waiting"}) /\ UNCHANGED excused
       \/ At("queue") /\ Queued' = Queued /\ excused' = excused \cup {Subject}
       \/ At("reschedule") /\ Successor("parse", {"delayed"}) /\ UNCHANGED excused
       \/ /\ worker.pc \in {"record", "recordAnalysis"}
          /\ Queued' = Queued \/ Successor(worker.job.kind, {"delayed"})
          /\ excused' = excused \cup {Subject}

Ends ==
    \/ ParseFromCache \/ ParseQueue \/ ParseQueueFails \/ ParseReschedule \/ AnalyzeClose
    \/ RecordFails

LEMMA AttemptEnds ==
    ASSUME Shape, ~At("idle"), AttemptFails
    PROVE  /\ worker' = Idle
           /\ IsABag(jobs') /\ BagToSet(jobs') \subseteq JobType
           /\ Queued' = Queued \/ Successor(worker.job.kind, {"delayed"})
<1>. USE DEF Shape, TypeOK
<1>0. worker.job \in JobType
  BY DEF WorkerType
<1>1. CASE worker.job.attempts + 1 < MaxAttempts
  <2>. DEFINE j == [worker.job EXCEPT !.state = "delayed", !.attempts = @ + 1]
  <2>1. j \in JobType /\ j.kind = worker.job.kind /\ j.resume = Subject /\ j.state = "delayed"
    BY <1>0, <1>1, JobRetried DEF Subject
  <2>2. IsABag(jobs') /\ Gains(j)
    BY <1>1, PutGains DEF AttemptFails
  <2>. QED
    BY <2>1, <2>2 DEF AttemptFails, Successor, Gains, Queued
<1>2. CASE ~(worker.job.attempts + 1 < MaxAttempts)
  BY <1>2 DEF AttemptFails, Queued
<1>. QED
  BY <1>1, <1>2

LEMMA AreEnding ==
    ASSUME Shape, Ends
    PROVE  /\ Ending /\ faults' \in 0..MaxFaults
           /\ IsABag(jobs') /\ BagToSet(jobs') \subseteq JobType
<1>. USE DEF Shape, TypeOK, Ending, At
<1>0. ~At("idle") /\ Subject \in Submissions
  BY DEF Ends, ParseFromCache, ParseQueue, ParseQueueFails, ParseReschedule, AnalyzeClose,
     RecordFails, Tied
<1>1. faults' \in 0..MaxFaults
  BY BoundAssumption DEF Ends, ParseFromCache, ParseQueue, ParseQueueFails, ParseReschedule,
     AnalyzeClose, RecordFails, Fault
<1>2. CASE ParseFromCache \/ AnalyzeClose \/ ParseQueueFails
  BY <1>0, <1>1, <1>2
     DEF ParseFromCache, AnalyzeClose, ParseQueueFails, Complete, Queued, applying
<1>3. CASE ParseQueue
  <2>1. IsABag(jobs') /\ Gains(NewJob("analyze", Subject, "waiting"))
    BY <1>3, PutGains DEF ParseQueue
  <2>2. Successor("analyze", {"waiting"}) /\ BagToSet(jobs') \subseteq JobType
    BY <1>0, <2>1, JobAdded DEF Successor, Gains, Queued, Kinds
  <2>. QED
    BY <1>0, <1>1, <1>3, <2>1, <2>2 DEF ParseQueue, applying
<1>4. CASE ParseReschedule
  <2>1. IsABag(jobs') /\ Gains(NewJob("parse", Subject, "delayed"))
    BY <1>4, PutGains DEF ParseReschedule
  <2>2. Successor("parse", {"delayed"}) /\ BagToSet(jobs') \subseteq JobType
    BY <1>0, <2>1, JobAdded DEF Successor, Gains, Queued, Kinds
  <2>. QED
    BY <1>0, <1>1, <1>4, <2>1, <2>2 DEF ParseReschedule, applying
<1>5. CASE RecordFails
  BY <1>0, <1>1, <1>5, AttemptEnds DEF RecordFails, applying
<1>. QED
  BY <1>2, <1>3, <1>4, <1>5 DEF Ends

LEMMA ShapeEnds ==
    ASSUME Shape, Ends
    PROVE  Shape'
<1>1. /\ Ending /\ faults' \in 0..MaxFaults
      /\ IsABag(jobs') /\ BagToSet(jobs') \subseteq JobType
  BY AreEnding
<1>2. Subject \in Submissions /\ worker.job.kind \in Kinds
  BY <1>1 DEF Ending, Shape, Tied, TypeOK, WorkerType, Kinds, At
<1>3. TypeOK'
  BY <1>1, <1>2, Rested DEF Ending, Shape, TypeOK, applying
<1>4. /\ worker' = Idle
      /\ Queued' = Queued \/ \E kind \in Kinds : Successor(kind, {"waiting", "delayed"})
  BY <1>1, <1>2 DEF Ending, Successor, Kinds
<1>5. Tied'
  BY <1>2, <1>4, Rested
     DEF Shape, Tied, Successor, Gains, At, ParsePcs, AnalyzePcs
<1>. QED
  BY <1>3, <1>5 DEF Shape

\* A step that writes what the job came to into the resume.
Writing ==
    \/ /\ At("persist") /\ worker'.pc = "report" /\ UNCHANGED excused
       /\ resume'[Subject].data /\ resume'[Subject].isParsed
       /\ resume'[Subject].file = resume[Subject].file
       /\ resume'[Subject].analysis # "none" \/ resume[Subject].analysis = "none"
       /\ resume'[Subject].state = resume[Subject].state
    \/ /\ At("write") /\ worker'.pc = "close" /\ excused' = excused \ {Subject}
       /\ resume'[Subject].analysis = "fresh"
       /\ \A f \in {"state", "file", "data", "isParsed", "parseError"} :
             resume'[Subject][f] = resume[Subject][f]

LEMMA ShapePersist ==
    ASSUME Shape, ParsePersist \/ AnalyzeWrite
    PROVE  /\ Shape' /\ Others(Subject) /\ Writing /\ worker'.job = worker.job
           /\ UNCHANGED <<applying, jobs, cached, faults, clicks>>
<1>. USE DEF Shape, TypeOK
<1>0. Subject \in Submissions /\ ~At("idle")
  BY DEF ParsePersist, AnalyzeWrite, At, Tied
<1>1. CASE ParsePersist
  <2>. DEFINE a == IF resume[Subject].analysis = "none" THEN "none" ELSE "stale"
  <2>1. Set(Subject, [data |-> TRUE, isParsed |-> TRUE, parseError |-> FALSE, analysis |-> a])
    BY <1>1 DEF ParsePersist
  <2>2. a \in {"none", "fresh", "stale"} /\ (a # "none" \/ resume[Subject].analysis = "none")
    OBVIOUS
  <2>. HIDE DEF a
  <2>3. /\ resume' \in [Submissions -> ResumeType] /\ Others(Subject)
        /\ resume'[Subject].data /\ resume'[Subject].isParsed /\ resume'[Subject].analysis = a
        /\ resume'[Subject].file = resume[Subject].file
        /\ resume'[Subject].state = resume[Subject].state
    BY <1>0, <2>1, <2>2, SetParsed
  <2>4. worker' \in WorkerType /\ worker'.pc = "report" /\ worker'.job = worker.job
    BY <1>1, Walked DEF ParsePersist, ParsePcs
  <2>5. Writing
    BY <1>1, <2>2, <2>3, <2>4 DEF ParsePersist, Writing
  <2>6. Tied'
    BY <1>1, <2>4 DEF ParsePersist, Tied, At, Subject, Queued, ParsePcs, AnalyzePcs
  <2>. QED
    BY <1>0, <1>1, <2>3, <2>4, <2>5, <2>6 DEF ParsePersist, applying
<1>2. CASE AnalyzeWrite
  <2>1. /\ resume' \in [Submissions -> ResumeType] /\ Others(Subject)
        /\ resume'[Subject].analysis = "fresh"
        /\ \A f \in {"state", "file", "data", "isParsed", "parseError"} :
             resume'[Subject][f] = resume[Subject][f]
    BY <1>0, <1>2, SetAnalyzed DEF AnalyzeWrite
  <2>2. worker' \in WorkerType /\ worker'.pc = "close" /\ worker'.job = worker.job
    BY <1>2, Walked DEF AnalyzeWrite, AnalyzePcs
  <2>3. Writing
    BY <1>2, <2>1, <2>2 DEF AnalyzeWrite, Writing
  <2>4. Tied'
    BY <1>2, <2>2 DEF AnalyzeWrite, Tied, At, Subject, Queued, ParsePcs, AnalyzePcs
  <2>. QED
    BY <1>0, <1>2, <2>1, <2>2, <2>3, <2>4 DEF AnalyzeWrite, applying
<1>. QED
  BY <1>1, <1>2

\* A step that records that an attempt failed.
Recording ==
    \/ /\ At("record") /\ ~resume'[Subject].isParsed /\ resume'[Subject].parseError
       /\ \A f \in Fields \ {"isParsed", "parseError"} :
             resume'[Subject][f] = resume[Subject][f]
    \/ /\ At("recordAnalysis") /\ resume'[Subject].analysisError
       /\ \A f \in Fields \ {"isAnalyzed", "analysisError"} :
             resume'[Subject][f] = resume[Subject][f]

LEMMA ShapeRecord ==
    ASSUME Shape, ParseRecord \/ AnalyzeRecord
    PROVE  /\ Shape' /\ Others(Subject) /\ Recording /\ worker' = Idle
           /\ Queued' = Queued \/ Successor(worker.job.kind, {"delayed"})
           /\ UNCHANGED <<applying, cached, faults, clicks, excused>>
<1>. USE DEF Shape, TypeOK
<1>0. Subject \in Submissions /\ ~At("idle") /\ worker.job.kind \in Kinds
  BY DEF ParseRecord, AnalyzeRecord, At, Tied, Kinds, ParsePcs, AnalyzePcs
<1>1. UNCHANGED <<applying, cached, faults, clicks, excused>> /\ AttemptFails
  BY DEF ParseRecord, AnalyzeRecord
<1>2. /\ worker' = Idle
      /\ IsABag(jobs') /\ BagToSet(jobs') \subseteq JobType
      /\ Queued' = Queued \/ Successor(worker.job.kind, {"delayed"})
  BY <1>0, <1>1, AttemptEnds
<1>3. resume' \in [Submissions -> ResumeType] /\ Others(Subject) /\ Recording
  BY <1>0, SetUnparsed, SetUnanalyzed DEF ParseRecord, AnalyzeRecord, Recording
<1>4. Tied'
  BY <1>0, <1>2, Rested DEF Tied, Successor, Gains, At, ParsePcs, AnalyzePcs
<1>. QED
  BY <1>1, <1>2, <1>3, <1>4, Rested DEF applying

\* The steps of the queue itself.
Queueing ==
    /\ UNCHANGED <<applying, resume, cached, faults, clicks, excused>>
    /\ \E j \in Queued :
          \/ /\ UNCHANGED worker
             /\ \E i : /\ i.kind = j.kind /\ i.resume = j.resume /\ i.state = "waiting"
                       /\ i \in Queued' /\ Queued \ {j} \subseteq Queued'
                       /\ Queued' \subseteq Queued \cup {i}
          \/ /\ At("idle") /\ Queued \ {j} \subseteq Queued' /\ Queued' \subseteq Queued
             /\ worker'.job.kind = j.kind /\ worker'.job.resume = j.resume
             /\ worker'.job.state = "active"
             /\ worker'.pc = IF j.kind = "parse" THEN "cache" ELSE "load"
             /\ worker'.found = FALSE

LEMMA ShapeQueue ==
    ASSUME Shape, NEW j \in Queued, Promote(j) \/ Take(j)
    PROVE  Shape' /\ Queueing
<1>. USE DEF Shape, TypeOK
<1>0. j \in JobType /\ j.kind \in Kinds /\ j.resume \in Submissions
  BY DEF Queued, Tied
<1>1. UNCHANGED <<applying, resume, cached, faults, clicks, excused>>
  BY DEF Promote, Take
<1>2. CASE Promote(j)
  <2>. DEFINE i == [j EXCEPT !.state = "waiting"]
  <2>1. i \in JobType /\ i.kind = j.kind /\ i.resume = j.resume /\ i.state = "waiting"
    BY <1>0, JobInState
  <2>2. jobs' = BagAdd(BagRemove(jobs, j), i) /\ UNCHANGED worker
    BY <1>2 DEF Promote
  <2>. HIDE DEF i
  <2>3. /\ IsABag(jobs') /\ i \in Queued' /\ Queued \ {j} \subseteq Queued'
        /\ Queued' \subseteq Queued \cup {i}
    BY <2>2, RemoveFromBag, AddToBag DEF Queued
  <2>4. TypeOK'
    BY <1>1, <2>1, <2>2, <2>3 DEF Queued, applying
  <2>5. Tied'
    BY <1>0, <2>1, <2>2, <2>3 DEF Tied, At, Subject
  <2>6. Queueing
    BY <1>1, <2>1, <2>2, <2>3 DEF Queueing
  <2>. QED
    BY <2>4, <2>5, <2>6
<1>3. CASE Take(j)
  <2>. DEFINE i == [j EXCEPT !.state = "active"]
              pc == IF j.kind = "parse" THEN "cache" ELSE "load"
  <2>1. i \in JobType /\ i.kind = j.kind /\ i.resume = j.resume /\ i.state = "active"
    BY <1>0, JobInState
  <2>2. /\ jobs' = BagRemove(jobs, j) /\ At("idle")
        /\ worker' = [job |-> i, pc |-> pc, found |-> FALSE]
    BY <1>3 DEF Take
  <2>3. pc \in ParsePcs \cup AnalyzePcs /\ pc # "idle"
        /\ (pc \in ParsePcs => j.kind = "parse") /\ (pc \in AnalyzePcs => j.kind = "analyze")
    BY <1>0 DEF ParsePcs, AnalyzePcs, Kinds
  <2>. HIDE DEF i
  <2>4. IsABag(jobs') /\ Queued \ {j} \subseteq Queued' /\ Queued' \subseteq Queued
    BY <2>2, RemoveFromBag DEF Queued
  <2>5. Queueing
    BY <1>1, <2>1, <2>2, <2>4 DEF Queueing
  <2>. HIDE DEF pc
  <2>6. worker' \in WorkerType
    BY <2>1, <2>2, <2>3 DEF WorkerType
  <2>7. TypeOK'
    BY <1>1, <2>4, <2>6 DEF Queued, applying
  <2>8. Tied'
    BY <1>0, <2>1, <2>2, <2>3, <2>4 DEF Tied, At, Subject
  <2>. QED
    BY <2>5, <2>7, <2>8
<1>. QED
  BY <1>2, <1>3

\* The death of the process.
Crashing ==
    /\ UNCHANGED <<open, resume, clicks>>
    /\ worker' = Idle /\ cached' = {}
    /\ request' = [s \in Submissions |->
         IF request[s] \in {"idle", "accepted", "refused"} THEN request[s] ELSE "died"]
    /\ \/ At("idle") /\ Queued' = Queued /\ UNCHANGED excused
       \/ ~At("idle") /\ Successor(worker.job.kind, {"stalled"}) /\ UNCHANGED excused
       \/ ~At("idle") /\ Queued' = Queued /\ excused' = excused \cup {Subject}

LEMMA ShapeCrash ==
    ASSUME Shape, Crash
    PROVE  Shape' /\ Crashing
<1>. USE DEF Shape, TypeOK
<1>0. /\ worker.job \in JobType /\ worker.job.stalls \in {0, 1}
      /\ ~At("idle") => Subject \in Submissions /\ worker.job.kind \in Kinds
  BY DEF WorkerType, JobType, At, Tied, Kinds
<1>1. /\ worker' = Idle /\ cached' = {} /\ UNCHANGED <<open, resume, clicks>>
      /\ faults' \in 0..MaxFaults
  BY BoundAssumption DEF Crash, Fault
<1>2. request' \in [Submissions -> RequestPcs]
  BY DEF Crash, RequestPcs
<1>3. CASE At("idle") \/ worker.job.stalls # 0
  <2>1. UNCHANGED jobs
    BY <1>3 DEF Crash
  <2>2. TypeOK'
    BY <1>0, <1>1, <1>2, <1>3, <2>1, Rested DEF Crash
  <2>3. Tied'
    BY <1>1, <2>1, Rested DEF Tied, At, Queued, ParsePcs, AnalyzePcs
  <2>4. Crashing
    BY <1>1, <1>3, <2>1 DEF Crash, Crashing, Queued
  <2>. QED
    BY <2>2, <2>3, <2>4
<1>4. CASE ~At("idle") /\ worker.job.stalls = 0
  <2>. DEFINE j == [worker.job EXCEPT !.state = "stalled", !.stalls = 1]
  <2>1. j \in JobType /\ j.kind = worker.job.kind /\ j.resume = Subject /\ j.state = "stalled"
    BY <1>0, JobStalled DEF Subject
  <2>2. IsABag(jobs') /\ Gains(j) /\ UNCHANGED excused
    BY <1>4, PutGains DEF Crash
  <2>. HIDE DEF j
  <2>3. TypeOK'
    BY <1>1, <1>2, <2>1, <2>2, Rested DEF Gains, Queued
  <2>4. Successor(worker.job.kind, {"stalled"})
    BY <2>1, <2>2 DEF Successor
  <2>5. Tied'
    BY <1>0, <1>1, <1>4, <2>1, <2>2, Rested DEF Tied, Gains, At, ParsePcs, AnalyzePcs
  <2>6. Crashing
    BY <1>1, <1>4, <2>2, <2>4 DEF Crash, Crashing
  <2>. QED
    BY <2>3, <2>5, <2>6
<1>. QED
  BY <1>0, <1>3, <1>4

\* The steps of the specification, by what they do.
Steps ==
    \/ \E s \in Submissions : Apply(s) \/ Staff(s) \/ CacheExpires(s)
    \/ \E j \in Queued : Promote(j) \/ Take(j)
    \/ Walks \/ Ends
    \/ ParsePersist \/ AnalyzeWrite
    \/ ParseRecord \/ AnalyzeRecord
    \/ Crash \/ TogglePosting

LEMMA NextSteps ==
    ASSUME Next
    PROVE  Steps
BY DEF Next, Steps, ParseStep, AnalyzeStep, Failure, Walks, Ends, Queued

LEMMA ShapeStep ==
    ASSUME Shape, Next
    PROVE  Shape'
<1>1. CASE TogglePosting
  <2>1. UNCHANGED <<request, resume, jobs, worker, cached, faults, clicks, excused>>
        /\ open' \in BOOLEAN
    BY <1>1 DEF TogglePosting, working, Shape, TypeOK
  <2>. QED
    BY <2>1 DEF Shape, TypeOK, Tied, At, Subject, Queued
<1>. QED
  BY <1>1, NextSteps, ShapeApply, ShapeStaff, ShapeQueue, ShapeWalks, ShapeEnds, ShapePersist,
     ShapeRecord, ShapeCrash DEF Steps

LEMMA ShapeStutter ==
    ASSUME Shape, UNCHANGED vars
    PROVE  Shape'
BY DEF vars, Shape, TypeOK, Tied, At, Subject, Queued

\* Every step leaves the state well formed, and the worker at a step of the
\* kind of job it has in hand (ResumeQueueProcessor).
THEOREM PipelineTyped == Spec => []TypeOK
<1>1. Init => Shape
  BY ShapeInit
<1>2. Shape /\ [Next]_vars => Shape'
  BY ShapeStep, ShapeStutter
<1>3. Shape => TypeOK
  BY DEF Shape
<1>. QED
  BY <1>1, <1>2, <1>3, PTL DEF Spec

\* A parse of resume s has come to an end, well or badly.
Tried(s) == resume[s].isParsed \/ resume[s].parseError

Has(kind, s) == \E j \in Queued : j.kind = kind /\ j.resume = s

Handled(s) == ~At("idle") /\ Subject = s

Early(s) == request[s] \in {"idle", "check", "create"}

\* Before a submission creates its resume nothing knows of it.
Unborn ==
    \A s \in Submissions : Early(s) =>
        /\ resume[s] = NoResume /\ ~Handled(s) /\ s \notin excused
        /\ \A j \in Queued : j.resume # s

\* Data, in the resume or in the cache, comes from a parse.
Grounded ==
    \A s \in Submissions :
        /\ resume[s].data \/ s \in cached => Tried(s)
        /\ request[s] = "addParse" => resume[s].file

\* What the worker's steps may rely on.
Placed ==
    /\ worker.pc \in {"hit", "report", "finish", "queue"} => Tried(Subject)
    /\ worker.pc \in {"extract", "persist", "report", "reschedule"} => Subject \notin cached
    /\ At("posting") /\ worker.found => resume[Subject].data
    /\ At("write") => resume[Subject].data
    /\ At("close") => resume[Subject].analysis = "fresh" \/ resume[Subject].analysisError

\* Something will still bring resume s its analysis: an analysis, a parse that
\* will not be answered from the cache, or the parse in hand.
Underway(s) ==
    \/ Has("analyze", s)
    \/ Handled(s) /\ worker.pc \in AnalyzePcs
    \/ Handled(s) /\ worker.pc \in {"extract", "persist", "report", "finish", "queue",
                                    "reschedule", "record"}
    \/ s \notin cached /\ (Has("parse", s) \/ (Handled(s) /\ At("cache")))

Pending(s) ==
    /\ request[s] = "accepted" /\ resume[s].isParsed /\ s \notin excused
    /\ resume[s].analysis # "fresh" /\ ~resume[s].analysisError

CatchesUp == \A s \in Submissions : Pending(s) => Underway(s)

Dropped ==
    \A s \in Submissions :
        resume[s].file /\ request[s] \in {"addAnalysis", "accepted"} /\ s \notin excused =>
            Tried(s) \/ Has("parse", s) \/ (Handled(s) /\ worker.pc \in ParsePcs)

Facts == Unborn /\ Grounded /\ Placed

\* What a request's and the staff's steps do.
Queues(kind, s) == \E j : j.kind = kind /\ j.resume = s /\ Gains(j)

Applying(s) ==
    /\ UNCHANGED <<worker, cached, excused>>
    /\ Others(s) /\ \A t \in Submissions \ {s} : request'[t] = request[t]
    /\ \/ /\ Early(s) /\ request'[s] \in {"check", "create", "refused", "died"}
          /\ resume'[s] = resume[s] /\ Queued' = Queued
       \/ /\ Early(s) /\ request'[s] = "addParse" /\ resume'[s] = Uploaded /\ Queued' = Queued
       \/ /\ Early(s) /\ request'[s] = "accepted" /\ resume'[s] = Profiled /\ Queued' = Queued
       \/ /\ request[s] = "addParse" /\ request'[s] = "addAnalysis"
          /\ resume'[s] = resume[s] /\ Queues("parse", s)
       \/ /\ request[s] = "addAnalysis" /\ request'[s] = "accepted"
          /\ resume'[s] = resume[s] /\ Queues("analyze", s)
       \/ /\ request[s] \in {"addParse", "addAnalysis"} /\ request'[s] = "died"
          /\ resume'[s] = resume[s] /\ Queued' = Queued

LEMMA AreApplying ==
    ASSUME Shape, NEW s \in Submissions, Apply(s)
    PROVE  Applying(s)
<1>. USE DEF Shape, TypeOK, Applying, Early
<1>1. /\ UNCHANGED <<worker, cached, excused>>
      /\ \A t \in Submissions \ {s} : request'[t] = request[t]
  BY DEF Apply, ValidateJob, CheckDuplicate, CreateUpload, CreateOnline, AddParse, AddAnalysis,
     RequestDies, Moves, working
<1>2. CASE ValidateJob(s) \/ CheckDuplicate(s)
  BY <1>1, <1>2 DEF ValidateJob, CheckDuplicate, Moves, Others, working, Queued
<1>3. CASE CreateUpload(s)
  <2>1. CASE open
    <3>1. Others(s) /\ resume'[s] = Uploaded
      BY <1>3, <2>1, SetCreated DEF CreateUpload
    <3>. QED
      BY <1>1, <1>3, <2>1, <3>1 DEF CreateUpload, Moves, working, Queued
  <2>2. CASE ~open
    BY <1>1, <1>3, <2>2 DEF CreateUpload, Moves, Others, working, Queued
  <2>. QED
    BY <2>1, <2>2
<1>4. CASE CreateOnline(s)
  <2>1. Others(s) /\ resume'[s] = Profiled
    BY <1>4, SetCreated DEF CreateOnline
  <2>. QED
    BY <1>1, <1>4, <2>1 DEF CreateOnline, Moves, working, Queued
<1>5. CASE AddParse(s)
  <2>1. Queues("parse", s)
    BY <1>5, PutGains, JobAdded DEF AddParse, Queues, Kinds
  <2>. QED
    BY <1>1, <1>5, <2>1 DEF AddParse, Moves, Others
<1>6. CASE AddAnalysis(s)
  <2>1. Queues("analyze", s)
    BY <1>6, PutGains, JobAdded DEF AddAnalysis, Queues, Kinds
  <2>. QED
    BY <1>1, <1>6, <2>1 DEF AddAnalysis, Moves, Others
<1>7. CASE RequestDies(s)
  BY <1>1, <1>7 DEF RequestDies, Others, working, Queued
<1>. QED
  BY <1>2, <1>3, <1>4, <1>5, <1>6, <1>7 DEF Apply

Staffing(s) ==
    /\ UNCHANGED <<request, worker, excused>> /\ cached' \subseteq cached
    /\ \/ Live(s) /\ UNCHANGED resume /\ \E kind \in Kinds : Queues(kind, s)
       \/ /\ Live(s) /\ Queued' = Queued /\ Others(s)
          /\ \A f \in Fields \ {"state"} : resume'[s][f] = resume[s][f]
       \/ UNCHANGED resume /\ Queued' = Queued

LEMMA AreStaffing ==
    ASSUME Shape, NEW s \in Submissions, Staff(s) \/ CacheExpires(s)
    PROVE  Staffing(s)
<1>. USE DEF Shape, TypeOK, Staffing, applying
<1>1. CASE Reparse(s)
  <2>1. Queues("parse", s)
    BY <1>1, PutGains, JobAdded DEF Reparse, Queues, Kinds
  <2>. QED
    BY <1>1, <2>1 DEF Reparse, Kinds
<1>2. CASE Reanalyze(s)
  <2>1. Queues("analyze", s)
    BY <1>2, PutGains, JobAdded DEF Reanalyze, Queues, Kinds
  <2>. QED
    BY <1>2, <2>1 DEF Reanalyze, Kinds
<1>3. CASE Remove(s)
  <2>1. Others(s) /\ \A f \in Fields \ {"state"} : resume'[s][f] = resume[s][f]
    BY <1>3, SetDeleted DEF Remove
  <2>. QED
    BY <1>3, <2>1 DEF Remove, Queued
<1>4. CASE CacheExpires(s)
  BY <1>4 DEF CacheExpires, Queued
<1>. QED
  BY <1>1, <1>2, <1>3, <1>4 DEF Staff

LEMMA FieldNames ==
    ASSUME NEW r
    PROVE  /\ r["state"] = r.state /\ r["file"] = r.file /\ r["data"] = r.data
           /\ r["isParsed"] = r.isParsed /\ r["parseError"] = r.parseError
           /\ r["analysis"] = r.analysis /\ r["analysisError"] = r.analysisError
OBVIOUS

LEMMA FactsApply ==
    ASSUME Shape, Facts, NEW s \in Submissions, Applying(s)
    PROVE  Facts'
<1>. USE DEF Facts, Shape, TypeOK
<1>1. Subject' = Subject /\ \A t \in Submissions : Handled(t)' <=> Handled(t)
  BY DEF Applying, Subject, Handled, At
<1>2. \A t \in Submissions \ {s} : request'[t] = request[t] /\ resume'[t] = resume[t]
  BY DEF Applying, Others
<1>3. \A j \in Queued' : j \in Queued \/ (~Early(s) /\ j.resume = s)
  BY DEF Applying, Queues, Gains, Early
<1>4. Unborn'
  <2>1. ASSUME NEW t \in Submissions, Early(t)'
        PROVE  Early(t) /\ resume'[t] = resume[t] /\ t \notin excused'
    BY <1>2, <2>1 DEF Applying, Early, Unborn
  <2>. QED
    BY <1>1, <1>3, <2>1 DEF Unborn
<1>5. ~NoResume.isParsed /\ ~NoResume.parseError
  BY DEF NoResume
<1>6. \A t \in Submissions : Tried(t) => Tried(t)'
  BY <1>2, <1>5, NewResumes DEF Applying, Tried, Unborn
<1>7. \A t \in Submissions : resume'[t].data => resume[t].data \/ Tried(t)'
  BY <1>2, NewResumes DEF Applying, Tried
<1>8. Grounded'
  <2>1. \A t \in Submissions : request'[t] = "addParse" => resume'[t].file
    BY <1>2, NewResumes DEF Applying, Early, Grounded
  <2>. QED
    BY <1>6, <1>7, <2>1 DEF Applying, Grounded
<1>9. Placed'
  <2>1. ~At("idle") => Subject \in Submissions /\ ~Early(Subject)
    BY DEF Tied, Unborn, Handled
  <2>2. ~At("idle") => resume'[Subject] = resume[Subject]
    BY <1>2, <2>1 DEF Applying
  <2>. QED
    BY <1>1, <1>6, <2>1, <2>2 DEF Applying, Placed, At
<1>. QED
  BY <1>4, <1>8, <1>9

LEMMA FactsStaff ==
    ASSUME Shape, Facts, NEW s \in Submissions, Staffing(s)
    PROVE  Facts'
<1>. USE DEF Facts, Shape, TypeOK
<1>1. Subject' = Subject /\ \A t \in Submissions : (Handled(t)' <=> Handled(t)) /\ (Early(t)' <=> Early(t))
  BY DEF Staffing, Subject, Handled, At, Early
<1>2. \A t \in Submissions, f \in Fields \ {"state"} : resume'[t][f] = resume[t][f]
  BY DEF Staffing, Others
<1>3. \A t \in Submissions : /\ resume'[t].data = resume[t].data /\ resume'[t].file = resume[t].file
                             /\ resume'[t].analysis = resume[t].analysis
                             /\ resume'[t].analysisError = resume[t].analysisError
                             /\ Tried(t)' <=> Tried(t)
  BY <1>2, FieldNames DEF Fields, Tried
<1>4. Unborn'
  <2>1. Live(s) => ~Early(s)
    BY NewResumes DEF Live, Unborn
  <2>2. \A t \in Submissions : Early(t) => resume'[t] = resume[t]
    BY <2>1 DEF Staffing, Others
  <2>3. \A j \in Queued' : j \in Queued \/ (Live(s) /\ j.resume = s)
    BY DEF Staffing, Queues, Gains
  <2>. QED
    BY <1>1, <2>1, <2>2, <2>3 DEF Staffing, Unborn
<1>5. Grounded'
  BY <1>3 DEF Staffing, Grounded
<1>6. Placed'
  <2>1. ~At("idle") => Subject \in Submissions
    BY DEF Tied
  <2>. QED
    BY <1>1, <1>3, <2>1 DEF Staffing, Placed, At
<1>. QED
  BY <1>4, <1>5, <1>6

LEMMA FactsQueue ==
    ASSUME Shape, Facts, Queueing
    PROVE  Facts'
<1>. USE DEF Facts, Shape, TypeOK
<1>1. \A j \in Queued' : \E i \in Queued : i.resume = j.resume
  BY DEF Queueing
<1>2. \A t \in Submissions : Handled(t)' => Handled(t) \/ \E j \in Queued : j.resume = t
  BY DEF Queueing, Handled, At, Subject
<1>3. Unborn'
  BY <1>1, <1>2 DEF Queueing, Unborn, Early, applying
<1>4. Grounded'
  BY DEF Queueing, Grounded, Tried, applying
<1>5. Placed'
  BY DEF Queueing, Placed, Tried, At, Subject
<1>. QED
  BY <1>3, <1>4, <1>5

LEMMA FactsWalking ==
    ASSUME Shape, Facts, Walking
    PROVE  Facts'
<1>. USE DEF Facts, Shape, TypeOK
<1>1. /\ UNCHANGED <<request, resume, excused>> /\ Queued' = Queued
      /\ Subject' = Subject /\ ~At("idle") /\ ~At("idle")' /\ Subject \in Submissions
  BY DEF Walking, Walk, At, Tied, Subject, Queued, applying
<1>2. Unborn'
  BY <1>1 DEF Unborn, Early, Handled
<1>3. \A t \in Submissions : Tried(t)' <=> Tried(t)
  BY <1>1 DEF Tried
<1>4. Grounded'
  BY <1>1, <1>3 DEF Walking, Walk, Grounded, Placed
<1>5. Placed'
  BY <1>1, <1>3 DEF Walking, Walk, Grounded, Placed, At
<1>. QED
  BY <1>2, <1>4, <1>5

LEMMA FactsEnding ==
    ASSUME Shape, Facts, Ending
    PROVE  Facts'
<1>. USE DEF Facts, Shape, TypeOK
<1>1. /\ UNCHANGED <<request, resume, cached>> /\ ~At("idle") /\ At("idle")'
      /\ worker'.pc = "idle" /\ Subject \in Submissions /\ ~Early(Subject)
  BY Rested DEF Ending, At, Tied, applying, Unborn, Handled
<1>2. \A j \in Queued' : j \in Queued \/ j.resume = Subject
  BY DEF Ending, Successor, Gains
<1>3. excused' \subseteq excused \cup {Subject}
  BY DEF Ending
<1>4. Unborn'
  BY <1>1, <1>2, <1>3 DEF Unborn, Early, Handled
<1>5. Grounded'
  BY <1>1 DEF Grounded, Tried
<1>6. Placed'
  BY <1>1 DEF Placed, At
<1>. QED
  BY <1>4, <1>5, <1>6

LEMMA FactsWriting ==
    ASSUME Shape, Facts, Others(Subject), Writing, worker'.job = worker.job,
           UNCHANGED <<request, jobs, cached>>
    PROVE  Facts'
<1>. USE DEF Facts, Shape, TypeOK
<1>1. /\ ~At("idle") /\ ~At("idle")' /\ Subject \in Submissions /\ ~Early(Subject)
      /\ Subject' = Subject /\ excused' \subseteq excused
  BY DEF Writing, At, Tied, Unborn, Handled, Subject
<1>2. /\ \A t \in Submissions \ {Subject} : resume'[t] = resume[t]
      /\ resume'[Subject].file = resume[Subject].file
      /\ Tried(Subject)' /\ (At("write") => resume'[Subject].analysis = "fresh")
  BY <1>1, FieldNames DEF Others, Writing, Tried, Placed, Grounded, At
<1>3. Unborn'
  BY <1>1, <1>2 DEF Unborn, Early, Handled, Queued
<1>4. Grounded'
  BY <1>1, <1>2 DEF Grounded, Tried
<1>5. Placed'
  BY <1>1, <1>2 DEF Writing, Placed, At
<1>. QED
  BY <1>3, <1>4, <1>5

LEMMA FactsRecording ==
    ASSUME Shape, Facts, Others(Subject), Recording, worker' = Idle,
           Queued' = Queued \/ Successor(worker.job.kind, {"delayed"}),
           UNCHANGED <<request, cached, excused>>
    PROVE  Facts'
<1>. USE DEF Facts, Shape, TypeOK
<1>1. /\ ~At("idle") /\ At("idle")' /\ worker'.pc = "idle"
      /\ Subject \in Submissions /\ ~Early(Subject)
  BY Rested DEF Recording, At, Tied, Unborn, Handled
<1>2. \A j \in Queued' : j \in Queued \/ j.resume = Subject
  BY DEF Successor, Gains
<1>3. /\ \A t \in Submissions \ {Subject} : resume'[t] = resume[t]
      /\ resume'[Subject].file = resume[Subject].file
      /\ resume'[Subject].data = resume[Subject].data
      /\ \A t \in Submissions : Tried(t) => Tried(t)'
  <2>1. \A t \in Submissions \ {Subject} : resume'[t] = resume[t]
    BY DEF Others
  <2>2. CASE At("record")
    BY <2>1, <2>2, FieldNames DEF Recording, At, Tried, Fields
  <2>3. CASE At("recordAnalysis")
    BY <2>1, <2>3, FieldNames DEF Recording, At, Tried, Fields
  <2>. QED
    BY <2>2, <2>3 DEF Recording
<1>4. Unborn'
  BY <1>1, <1>2, <1>3 DEF Unborn, Early, Handled
<1>5. Grounded'
  <2>1. \A t \in Submissions : /\ resume'[t].data = resume[t].data
                               /\ resume'[t].file = resume[t].file
    BY <1>3
  <2>. QED
    BY <1>3, <2>1 DEF Grounded
<1>6. Placed'
  BY <1>1 DEF Placed, At
<1>. QED
  BY <1>4, <1>5, <1>6

LEMMA FactsCrashing ==
    ASSUME Shape, Facts, Crashing
    PROVE  Facts'
<1>. USE DEF Facts, Shape, TypeOK
<1>1. At("idle")' /\ worker'.pc = "idle" /\ resume' = resume
  BY Rested DEF Crashing, At
<1>2. \A j \in Queued' : j \in Queued \/ (~At("idle") /\ j.resume = Subject)
  BY DEF Crashing, Successor, Gains
<1>3. excused' \subseteq excused \/ (~At("idle") /\ excused' \subseteq excused \cup {Subject})
  BY DEF Crashing
<1>4. \A t \in Submissions : /\ Early(t)' => Early(t)
                             /\ request'[t] = "addParse" => request[t] = "addParse"
  BY DEF Crashing, Early
<1>5. Unborn'
  BY <1>1, <1>2, <1>3, <1>4 DEF Unborn, Handled
<1>6. Grounded'
  BY <1>1, <1>4 DEF Crashing, Grounded, Tried
<1>7. Placed'
  BY <1>1 DEF Placed, At
<1>. QED
  BY <1>5, <1>6, <1>7

\* No step takes the ground from under a later one.
LEMMA FactsStep ==
    ASSUME Shape, Facts, Next
    PROVE  Facts'
<1>1. CASE TogglePosting
  <2>1. UNCHANGED <<request, resume, jobs, worker, cached, excused>>
    BY <1>1 DEF TogglePosting, working
  <2>. QED
    BY <2>1 DEF Facts, Unborn, Grounded, Placed, Early, Handled, Tried, At, Subject, Queued
<1>2. CASE \E s \in Submissions : Apply(s) \/ Staff(s) \/ CacheExpires(s)
  BY <1>2, AreApplying, FactsApply, AreStaffing, FactsStaff
<1>3. CASE \E j \in Queued : Promote(j) \/ Take(j)
  BY <1>3, ShapeQueue, FactsQueue
<1>4. CASE Walks
  BY <1>4, AreWalking, FactsWalking
<1>5. CASE Ends
  BY <1>5, AreEnding, FactsEnding
<1>6. CASE ParsePersist \/ AnalyzeWrite
  BY <1>6, ShapePersist, FactsWriting DEF applying
<1>7. CASE ParseRecord \/ AnalyzeRecord
  BY <1>7, ShapeRecord, FactsRecording DEF applying
<1>8. CASE Crash
  BY <1>8, ShapeCrash, FactsCrashing
<1>. QED
  BY <1>1, <1>2, <1>3, <1>4, <1>5, <1>6, <1>7, <1>8, NextSteps DEF Steps

-----------------------------------------------------------------------------
(* What the queue promises                                                 *)

Promises == CatchesUp /\ Dropped

LEMMA HasMore ==
    ASSUME Queued \subseteq Queued'
    PROVE  \A kind, t : Has(kind, t) => Has(kind, t)'
BY DEF Has

LEMMA PromisesApply ==
    ASSUME Shape, Facts, Promises, NEW s \in Submissions, Applying(s)
    PROVE  Promises'
<1>. USE DEF Promises, Shape, TypeOK
<1>1. Queued \subseteq Queued'
  BY DEF Applying, Queues, Gains
<1>2. /\ worker' = worker /\ cached' = cached /\ excused' = excused
      /\ \A t \in Submissions : Handled(t)' <=> Handled(t)
  BY DEF Applying, Handled, At, Subject
<1>3. ASSUME NEW t \in Submissions, Pending(t)'
      PROVE  Underway(t)'
  <2>1. CASE Pending(t)
    <3>1. Underway(t)
      BY <2>1 DEF CatchesUp
    <3>. QED
      BY <1>1, <1>2, <3>1, HasMore DEF Underway, At
  <2>2. CASE ~Pending(t)
    <3>1. t = s
      BY <1>2, <1>3, <2>2 DEF Applying, Others, Pending
    <3>2. Queues("analyze", s)
      BY <1>2, <1>3, <2>2, <3>1, NewResumes DEF Applying, Pending
    <3>3. Has("analyze", s)'
      BY <3>2 DEF Queues, Gains, Has
    <3>. QED
      BY <3>1, <3>3 DEF Underway
  <2>. QED
    BY <2>1, <2>2
<1>4. ASSUME NEW t \in Submissions, resume'[t].file, request'[t] \in {"addAnalysis", "accepted"},
             t \notin excused'
      PROVE  Tried(t)' \/ Has("parse", t)' \/ (Handled(t)' /\ worker'.pc \in ParsePcs)
  <2>1. CASE request[t] \in {"addAnalysis", "accepted"}
    <3>1. resume'[t] = resume[t]
      BY <2>1 DEF Applying, Others, Early
    <3>2. Tried(t) \/ Has("parse", t) \/ (Handled(t) /\ worker.pc \in ParsePcs)
      BY <1>2, <1>4, <2>1, <3>1 DEF Dropped
    <3>. QED
      BY <1>1, <1>2, <3>1, <3>2, HasMore DEF Tried
  <2>2. CASE request[t] \notin {"addAnalysis", "accepted"}
    <3>1. t = s
      BY <1>4, <2>2 DEF Applying
    <3>2. Queues("parse", s)
      BY <1>4, <2>2, <3>1, NewResumes DEF Applying
    <3>3. Has("parse", s)'
      BY <3>2 DEF Queues, Gains, Has
    <3>. QED
      BY <3>1, <3>3
  <2>. QED
    BY <2>1, <2>2
<1>5. CatchesUp'
  BY <1>3 DEF CatchesUp
<1>6. Dropped'
  BY <1>4 DEF Dropped
<1>. QED
  BY <1>5, <1>6

LEMMA PromisesStaff ==
    ASSUME Shape, Facts, Promises, NEW s \in Submissions, Staffing(s)
    PROVE  Promises'
<1>. USE DEF Promises, Shape, TypeOK
<1>1. Queued \subseteq Queued'
  BY DEF Staffing, Queues, Gains
<1>2. /\ worker' = worker /\ cached' \subseteq cached /\ excused' = excused /\ request' = request
      /\ \A t \in Submissions : Handled(t)' <=> Handled(t)
  BY DEF Staffing, Handled, At, Subject
<1>3. \A t \in Submissions, f \in Fields \ {"state"} : resume'[t][f] = resume[t][f]
  BY DEF Staffing, Others
<1>4. \A t \in Submissions : /\ resume'[t].file = resume[t].file
                             /\ resume'[t].isParsed = resume[t].isParsed
                             /\ resume'[t].parseError = resume[t].parseError
                             /\ resume'[t].analysis = resume[t].analysis
                             /\ resume'[t].analysisError = resume[t].analysisError
  BY <1>3, FieldNames DEF Fields
<1>5. \A t \in Submissions : Underway(t) => Underway(t)'
  BY <1>1, <1>2, HasMore DEF Underway, At
<1>6. CatchesUp'
  BY <1>2, <1>4, <1>5 DEF CatchesUp, Pending
<1>7. Dropped'
  BY <1>1, <1>2, <1>4, HasMore DEF Dropped, Tried
<1>. QED
  BY <1>6, <1>7

LEMMA PromisesQueue ==
    ASSUME Shape, Facts, Promises, Queueing
    PROVE  Promises'
<1>. USE DEF Promises, Shape, TypeOK
<1>1. UNCHANGED <<request, resume, cached, excused>>
  BY DEF Queueing, applying
<1>2. \A t \in Submissions : Has("analyze", t) =>
          Has("analyze", t)' \/ (Handled(t)' /\ worker'.pc \in AnalyzePcs)
  BY DEF Queueing, Has, Handled, Subject, At, AnalyzePcs
<1>3. \A t \in Submissions : Has("parse", t) =>
          Has("parse", t)' \/ (Handled(t)' /\ At("cache")')
  BY DEF Queueing, Has, Handled, Subject, At
<1>4. worker' = worker \/ At("idle")
  BY DEF Queueing
<1>5. \A t \in Submissions : Handled(t) => worker' = worker /\ Handled(t)'
  BY <1>4 DEF Handled, At, Subject
<1>6. \A t \in Submissions : Underway(t) => Underway(t)'
  BY <1>1, <1>2, <1>3, <1>5 DEF Underway, At
<1>7. CatchesUp'
  BY <1>1, <1>6 DEF CatchesUp, Pending
<1>8. Dropped'
  BY <1>1, <1>3, <1>5 DEF Dropped, Tried, At, ParsePcs
<1>. QED
  BY <1>7, <1>8

LEMMA PromisesWalking ==
    ASSUME Shape, Facts, Promises, Walking
    PROVE  Promises'
<1>. USE DEF Promises, Shape, TypeOK
<1>1. /\ UNCHANGED <<request, resume, excused>> /\ Queued' = Queued
      /\ \A kind, t : Has(kind, t)' <=> Has(kind, t)
      /\ \A t : Handled(t)' <=> Handled(t)
  BY DEF Walking, Walk, At, Handled, Subject, Queued, applying, Has
<1>2. /\ worker.pc \in ParsePcs <=> worker'.pc \in ParsePcs
      /\ worker.pc \in AnalyzePcs <=> worker'.pc \in AnalyzePcs
  BY DEF Walking, Walk, ParsePcs, AnalyzePcs
<1>3. ASSUME NEW t \in Submissions, Underway(t)
      PROVE  Underway(t)'
  <2>1. CASE Has("analyze", t) \/ (Handled(t) /\ worker.pc \in AnalyzePcs)
    BY <1>1, <1>2, <2>1 DEF Underway
  <2>2. CASE Handled(t) /\ worker.pc \in {"extract", "persist", "report", "finish", "queue",
                                          "reschedule", "record"}
    <3>1. worker'.pc \in {"extract", "persist", "report", "finish", "queue",
                          "reschedule", "record"}
      BY <2>2 DEF Walking, Walk
    <3>. QED
      BY <1>1, <2>2, <3>1 DEF Underway
  <2>3. CASE t \notin cached /\ Handled(t) /\ At("cache")
    <3>1. worker'.pc \in {"extract", "record"}
      BY <2>3 DEF Walking, Walk, At, Handled
    <3>. QED
      BY <1>1, <2>3, <3>1 DEF Underway
  <2>4. CASE t \notin cached /\ Has("parse", t)
    <3>1. CASE t \in cached'
      <4>1. Handled(t) /\ worker'.pc = "finish"
        BY <2>4, <3>1 DEF Walking, Walk, Handled, At
      <4>. QED
        BY <1>1, <4>1 DEF Underway
    <3>2. CASE t \notin cached'
      BY <1>1, <2>4, <3>2 DEF Underway
    <3>. QED
      BY <3>1, <3>2
  <2>. QED
    BY <1>3, <2>1, <2>2, <2>3, <2>4 DEF Underway
<1>4. CatchesUp'
  BY <1>1, <1>3 DEF CatchesUp, Pending
<1>5. Dropped'
  BY <1>1, <1>2 DEF Dropped, Tried
<1>. QED
  BY <1>4, <1>5

\* The job in hand is all that can be lost of what is under way.
LEMMA Elsewhere ==
    ASSUME Queued \subseteq Queued', cached' \subseteq cached,
           NEW t, Underway(t), ~Handled(t)
    PROVE  Underway(t)'
<1>1. Has("analyze", t) \/ (t \notin cached /\ Has("parse", t))
  BY DEF Underway
<1>. QED
  BY <1>1, HasMore DEF Underway

LEMMA SuccessorIs ==
    ASSUME NEW s, Subject = s, NEW kind, NEW states, Successor(kind, states)
    PROVE  Queued \subseteq Queued' /\ Has(kind, s)'
<1>1. PICK j : j.kind = kind /\ j.resume = s /\ Gains(j)
  BY DEF Successor
<1>2. Queued \subseteq Queued' /\ j \in Queued'
  BY <1>1 DEF Gains
<1>. QED
  BY <1>1, <1>2 DEF Has

LEMMA PromisesEnding ==
    ASSUME Shape, Facts, Promises, Ending
    PROVE  Promises'
<1>. USE DEF Promises, Shape, TypeOK
<1>0. PICK k : worker.job.kind = k
  OBVIOUS
<1>1. PICK s \in Submissions : Subject = s
  BY DEF Ending, Tied
<1>2. /\ UNCHANGED <<request, resume, cached>> /\ Queued \subseteq Queued'
      /\ \A t \in Submissions : Handled(t) <=> t = s
      /\ excused \subseteq excused'
  BY <1>0, <1>1, SuccessorIs DEF Ending, applying, Handled
<1>3. \/ At("hit") \/ At("close")
      \/ At("queue") /\ (Has("analyze", s)' \/ s \in excused')
      \/ At("reschedule") /\ Has("parse", s)'
      \/ s \in excused'
  BY <1>1, SuccessorIs DEF Ending
<1>4. ASSUME NEW t \in Submissions, Pending(t)'
      PROVE  Underway(t)'
  <2>1. Pending(t)
    BY <1>2, <1>4 DEF Pending
  <2>2. CASE t # s
    BY <1>2, <2>1, <2>2, Elsewhere DEF CatchesUp
  <2>3. CASE t = s
    <3>1. ~At("close") /\ s \notin excused'
      BY <1>1, <1>4, <2>1, <2>3 DEF Facts, Placed, Pending
    <3>2. CASE At("hit")
      <4>1. Underway(s) /\ At("hit")
        BY <2>1, <2>3, <3>2 DEF CatchesUp
      <4>2. Has("analyze", s) \/ (s \notin cached /\ Has("parse", s))
        BY <4>1 DEF Underway, At, AnalyzePcs
      <4>. QED
        BY <1>2, <2>3, <4>2, HasMore DEF Underway
    <3>3. CASE At("queue")
      BY <1>3, <2>3, <3>1, <3>3 DEF Underway, At
    <3>4. CASE At("reschedule") /\ Has("parse", s)'
      <4>1. s \notin cached'
        BY <1>1, <1>2, <3>4 DEF Facts, Placed, At
      <4>. QED
        BY <2>3, <3>4, <4>1 DEF Underway
    <3>. QED
      BY <1>3, <3>1, <3>2, <3>3, <3>4
  <2>. QED
    BY <2>2, <2>3
<1>5. ASSUME NEW t \in Submissions, resume[t].file, request[t] \in {"addAnalysis", "accepted"},
             t \notin excused'
      PROVE  Tried(t)' \/ Has("parse", t)'
  <2>1. Tried(t) \/ Has("parse", t) \/ (Handled(t) /\ worker.pc \in ParsePcs)
    BY <1>2, <1>5 DEF Dropped
  <2>2. CASE Handled(t) /\ worker.pc \in ParsePcs /\ ~Tried(t)
    <3>1. At("reschedule") /\ Has("parse", s)'
      BY <1>1, <1>2, <1>3, <1>5, <2>2 DEF Facts, Placed, At, ParsePcs
    <3>. QED
      BY <1>2, <2>2, <3>1
  <2>. QED
    BY <1>2, <2>1, <2>2, HasMore DEF Tried
<1>6. CatchesUp'
  BY <1>4 DEF CatchesUp
<1>7. Dropped'
  BY <1>2, <1>5 DEF Dropped
<1>. QED
  BY <1>6, <1>7

LEMMA PromisesWriting ==
    ASSUME Shape, Facts, Promises, Others(Subject), Writing, worker'.job = worker.job,
           UNCHANGED <<request, jobs, cached>>
    PROVE  Promises'
<1>. USE DEF Promises, Shape, TypeOK
<1>1. PICK s \in Submissions : Subject = s
  BY DEF Writing, Tied, At
<1>2. /\ Queued' = Queued /\ ~At("idle") /\ ~At("idle")'
      /\ \A t \in Submissions : (Handled(t) <=> t = s) /\ (Handled(t)' <=> t = s)
      /\ \A t \in Submissions \ {s} : resume'[t] = resume[t] /\ (t \in excused' <=> t \in excused)
  BY <1>1 DEF Writing, At, Handled, Subject, Others, Queued
<1>3. Underway(s)'
  BY <1>1, <1>2 DEF Writing, Underway, AnalyzePcs
<1>4. ASSUME NEW t \in Submissions, Pending(t)', t # s
      PROVE  Underway(t)'
  <2>1. Pending(t)
    BY <1>2, <1>4 DEF Pending
  <2>. QED
    BY <1>2, <1>4, <2>1, Elsewhere DEF CatchesUp
<1>5. Tried(s)'
  BY <1>1, FieldNames DEF Writing, Facts, Placed, Grounded, Tried, At
<1>6. CatchesUp'
  BY <1>3, <1>4 DEF CatchesUp
<1>7. Dropped'
  <2>1. ASSUME NEW t \in Submissions, t # s, resume'[t].file,
               request[t] \in {"addAnalysis", "accepted"}, t \notin excused'
        PROVE  Tried(t)' \/ Has("parse", t)'
    <3>1. Tried(t) \/ Has("parse", t)
      BY <1>2, <2>1 DEF Dropped
    <3>. QED
      BY <1>2, <2>1, <3>1, HasMore DEF Tried
  <2>. QED
    BY <1>5, <2>1 DEF Dropped
<1>. QED
  BY <1>6, <1>7

LEMMA PromisesRecording ==
    ASSUME Shape, Facts, Promises, Others(Subject), Recording, worker' = Idle,
           Queued' = Queued \/ Successor(worker.job.kind, {"delayed"}),
           UNCHANGED <<request, cached, excused>>
    PROVE  Promises'
<1>. USE DEF Promises, Shape, TypeOK
<1>0. PICK k : worker.job.kind = k
  OBVIOUS
<1>1. PICK s \in Submissions : Subject = s
  BY DEF Recording, Tied, At
<1>2. /\ Queued \subseteq Queued' /\ ~At("idle")
      /\ \A t \in Submissions : Handled(t) <=> t = s
      /\ \A t \in Submissions \ {s} : resume'[t] = resume[t]
  BY <1>0, <1>1, SuccessorIs DEF Recording, At, Handled, Others
<1>3. ~Pending(s)'
  BY <1>1 DEF Recording, Pending
<1>4. ASSUME NEW t \in Submissions, Pending(t)', t # s
      PROVE  Underway(t)'
  <2>1. Pending(t)
    BY <1>2, <1>4 DEF Pending
  <2>. QED
    BY <1>2, <1>4, <2>1, Elsewhere DEF CatchesUp
<1>5. CatchesUp'
  BY <1>3, <1>4 DEF CatchesUp
<1>6. /\ resume'[s].file = resume[s].file
      /\ At("record") => Tried(s)'
      /\ Tried(s) => Tried(s)'
      /\ worker.pc \in ParsePcs => At("record")
  <2>1. CASE At("record")
    BY <1>1, <2>1, FieldNames DEF Recording, At, Tried, Fields, ParsePcs
  <2>2. CASE At("recordAnalysis")
    BY <1>1, <2>2, FieldNames DEF Recording, At, Tried, Fields, ParsePcs
  <2>. QED
    BY <2>1, <2>2 DEF Recording
<1>7. Dropped'
  <2>1. ASSUME NEW t \in Submissions, resume'[t].file,
               request[t] \in {"addAnalysis", "accepted"}, t \notin excused
        PROVE  Tried(t)' \/ Has("parse", t)'
    <3>1. Tried(t) \/ Has("parse", t) \/ (Handled(t) /\ worker.pc \in ParsePcs)
      BY <1>2, <1>6, <2>1 DEF Dropped
    <3>2. Tried(t) => Tried(t)'
      BY <1>2, <1>6 DEF Tried
    <3>. QED
      BY <1>2, <1>6, <2>1, <3>1, <3>2, HasMore
  <2>. QED
    BY <2>1 DEF Dropped
<1>. QED
  BY <1>5, <1>7

LEMMA PromisesCrashing ==
    ASSUME Shape, Facts, Promises, Crashing
    PROVE  Promises'
<1>. USE DEF Promises, Shape, TypeOK
<1>0. PICK k : worker.job.kind = k
  OBVIOUS
<1>1. PICK s : Subject = s
  OBVIOUS
<1>2. /\ Queued \subseteq Queued' /\ excused \subseteq excused' /\ resume' = resume /\ cached' = {}
      /\ \A t \in Submissions : Handled(t) <=> ~At("idle") /\ t = s
      /\ \A t \in Submissions, p \in {"addAnalysis", "accepted"} : request'[t] = p => request[t] = p
  BY <1>0, <1>1, SuccessorIs DEF Crashing, Handled
<1>3. ~At("idle") => Has(k, s)' \/ s \in excused'
  BY <1>0, <1>1, SuccessorIs DEF Crashing
<1>4. ASSUME NEW t \in Submissions, Pending(t)'
      PROVE  Underway(t)'
  <2>1. Pending(t)
    BY <1>2, <1>4 DEF Pending
  <2>2. CASE ~Handled(t)
    BY <1>2, <2>1, <2>2, Elsewhere DEF CatchesUp
  <2>3. CASE Handled(t)
    <3>1. Has("parse", t)' \/ Has("analyze", t)'
      <4>1. k \in {"parse", "analyze"}
        BY <1>0, <2>3 DEF Tied, At, Handled, WorkerType, ParsePcs, AnalyzePcs
      <4>2. Has(k, t)'
        BY <1>2, <1>3, <1>4, <2>3 DEF Pending
      <4>. QED
        BY <4>1, <4>2
    <3>. QED
      BY <1>2, <3>1 DEF Underway
  <2>. QED
    BY <2>2, <2>3
<1>5. ASSUME NEW t \in Submissions, resume[t].file, request[t] \in {"addAnalysis", "accepted"},
             t \notin excused'
      PROVE  Tried(t)' \/ Has("parse", t)'
  <2>1. Tried(t) \/ Has("parse", t) \/ (Handled(t) /\ worker.pc \in ParsePcs)
    BY <1>2, <1>5 DEF Dropped
  <2>2. CASE Handled(t) /\ worker.pc \in ParsePcs
    <3>1. k = "parse"
      BY <1>0, <2>2 DEF Tied
    <3>. QED
      BY <1>2, <1>3, <1>5, <2>2, <3>1
  <2>. QED
    BY <1>2, <2>1, <2>2, HasMore DEF Tried
<1>6. CatchesUp'
  BY <1>4 DEF CatchesUp
<1>7. Dropped'
  BY <1>2, <1>5 DEF Dropped
<1>. QED
  BY <1>6, <1>7

LEMMA PromisesStep ==
    ASSUME Shape, Facts, Promises, Next
    PROVE  Promises'
<1>1. CASE TogglePosting
  <2>1. UNCHANGED <<request, resume, jobs, worker, cached, excused>>
    BY <1>1 DEF TogglePosting, working
  <2>. QED
    BY <2>1 DEF Promises, CatchesUp, Dropped, Pending, Underway, Has, Handled, Tried, At,
                Subject, Queued
<1>2. CASE \E s \in Submissions : Apply(s) \/ Staff(s) \/ CacheExpires(s)
  BY <1>2, AreApplying, PromisesApply, AreStaffing, PromisesStaff
<1>3. CASE \E j \in Queued : Promote(j) \/ Take(j)
  BY <1>3, ShapeQueue, PromisesQueue
<1>4. CASE Walks
  BY <1>4, AreWalking, PromisesWalking
<1>5. CASE Ends
  BY <1>5, AreEnding, PromisesEnding
<1>6. CASE ParsePersist \/ AnalyzeWrite
  BY <1>6, ShapePersist, PromisesWriting DEF applying
<1>7. CASE ParseRecord \/ AnalyzeRecord
  BY <1>7, ShapeRecord, PromisesRecording DEF applying
<1>8. CASE Crash
  BY <1>8, ShapeCrash, PromisesCrashing
<1>. QED
  BY <1>1, <1>2, <1>3, <1>4, <1>5, <1>6, <1>7, <1>8, NextSteps DEF Steps

IInv == Shape /\ Facts /\ Promises

LEMMA IInvInit ==
    ASSUME Init
    PROVE  IInv
<1>1. Queued = {} /\ worker.pc = "idle"
  BY Rested DEF Init, Queued, BagToSet, EmptyBag, SetToBag
<1>2. \A s \in Submissions : resume[s] = NoResume /\ request[s] = "idle"
  BY DEF Init
<1>3. Facts
  BY <1>1, <1>2, NewResumes DEF Init, Facts, Unborn, Grounded, Placed, Handled, At
<1>4. Promises
  BY <1>2 DEF Promises, CatchesUp, Dropped, Pending
<1>. QED
  BY <1>3, <1>4, ShapeInit DEF IInv

LEMMA IInvStep ==
    ASSUME IInv, [Next]_vars
    PROVE  IInv'
<1>1. CASE Next
  BY <1>1, ShapeStep, FactsStep, PromisesStep DEF IInv
<1>2. CASE UNCHANGED vars
  <2>1. Facts' /\ Promises'
    BY <1>2 DEF vars, IInv, Facts, Unborn, Grounded, Placed, Early, Promises, CatchesUp, Dropped,
                Pending, Underway, Has, Handled, Tried, At, Subject, Queued
  <2>. QED
    BY <1>2, <2>1, ShapeStutter DEF IInv
<1>. QED
  BY <1>1, <1>2

LEMMA JobsUnderway ==
    ASSUME NEW kind, NEW s, Has(kind, s) \/ (Handled(s) /\ worker.job.kind = kind)
    PROVE  \E j \in JobsOf(s) : j.kind = kind
BY DEF Has, Handled, Subject, JobsOf, Queued

\* Whatever the order of denials, retries, crashes and re-parses, a resume
\* whose parse was queued is parsed, shows why not, or has a parse under way,
\* unless a job was given up without a record (handleParseResume).
THEOREM ApplicationsKept == Spec => []NoApplicationDropped
<1>1. IInv => NoApplicationDropped
  <2>. SUFFICES ASSUME IInv, NEW s \in Submissions,
                       resume[s].file, request[s] \in {"addAnalysis", "accepted"}, s \notin excused
                PROVE  Tried(s) \/ \E j \in JobsOf(s) : j.kind = "parse"
    BY DEF NoApplicationDropped, Tried
  <2>1. Tried(s) \/ Has("parse", s) \/ (Handled(s) /\ worker.pc \in ParsePcs)
    BY DEF IInv, Promises, Dropped
  <2>2. worker.pc \in ParsePcs => worker.job.kind = "parse"
    BY DEF IInv, Shape, Tied
  <2>. QED
    BY <2>1, <2>2, JobsUnderway
<1>. QED
  BY <1>1, IInvInit, IInvStep, PTL DEF Spec

\* When the jobs of a parsed, accepted resume have ended it has an analysis of
\* the data it holds or the error that prevented one, unless a job was given up
\* without a record (handleAnalyzeResume and the analysis a parse queues).
THEOREM AnalysesCatchUp == Spec => []AnalysisCatchesUp
<1>1. IInv => AnalysisCatchesUp
  <2>. SUFFICES ASSUME IInv, NEW s \in Submissions, Settled(s), Pending(s)
                PROVE  FALSE
    BY DEF AnalysisCatchesUp, Pending
  <2>1. Underway(s)
    BY DEF IInv, Promises, CatchesUp
  <2>2. ~Handled(s) /\ ~Has("parse", s) /\ ~Has("analyze", s)
    BY JobsUnderway DEF Settled
  <2>. QED
    BY <2>1, <2>2 DEF Underway
<1>. QED
  BY <1>1, IInvInit, IInvStep, PTL DEF Spec
=============================================================================
