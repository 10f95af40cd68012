# A TLA+ model of the IT job portal backend

The backend is a NestJS application over MongoDB, Redis and BullMQ. Its HTTP handlers, queue workers and timers
interleave at every `await`; nothing in it is transactional. This directory models the parts whose correctness depends
on that interleaving and on what fails in between, checks the models with TLC on small instances, and proves the most
important properties for every instance with TLAPS.

- [1. The system](#1-the-system): components, state, operations, interactions, hard behaviours
- [2. The modules](#2-the-modules): which module models what, and how it corresponds to the code
- [3. What is checked](#3-what-is-checked): runs, bounds, fairness
- [4. What is proved](#4-what-is-proved): theorems, assumptions, the inductive invariants
- [5. What the work showed](#5-what-the-work-showed): a finding, and observations
- [6. What is not modelled](#6-what-is-not-modelled), [7. The plan](#7-the-plan), [8. Running it](#8-running-it)

Paths are relative to the repository's `src/` directory.

## 1. The system

### Components

| component | state it keeps | operations | what makes it correct | module |
|---|---|---|---|---|
| Account deletion (`auth-account-deletion.service.ts`, `account-deletion-queue.*`) | `scheduledDeletionAt`, `isDeleted`, the job `delete-account-<id>`, the link `cancel_deletion:<token>` | request, cancel signed in, cancel by link, the seven-step cascade | a cancellation is final; nothing runs before the promised date; every schedule is resolved; nothing personal outlives the cascade | `AccountDeletion` |
| Sessions (`auth-session.service.ts`, `sessions.service.ts`, `jwt-refresh.strategy.ts`) | one document per device with the hash of its refresh token | sign in, rotate, sign out, log out everywhere, lock | one sign-in, one session; a revoked sign-in stays revoked; the limit | `AuthSessions` |
| Credentials, verification, Google (`auth-credentials`, `auth-verification`, `auth-google`) | password, `isActive`, one-time code, attempts and cooldown keys, reset tokens | register, verify, resend, reset, set and change password | a code admits few guesses; an active account is not lost to a registration | `Credentials` |
| Applications (`resume-processing`, `application-submission`, `resumes.service`) | the resume: data, score, status, flags | submit with a file or online, re-parse, re-analyse, remove, status | every application is processed or says why not | `ResumePipeline`; status and notices in `Mailings` |
| Resume queue (`resume-queue.service.ts`, `resume-queue.processor.ts`) | jobs with priority, delay, attempts; the parse cache | parse, analyse, reschedule on a denied quota | the analysis is of the newest data; jobs end | `ResumePipeline` |
| Chat (`chat.service.ts`, `chat-quota.service.ts`) | sessions, messages, the cached active id, a counter per user and day | send, stream, create, clear, archive | charged for what was delivered; ordered messages; closed sessions take nothing | `ChatTurns`, `Allowance` |
| Chat understanding, tool actions, usage log (`chat-intent`, `chat-context`, `chat-tool-action`, `ai-usage`) | cached contexts and answers, pending offers, one record a turn | understand, draw a context, recommend, confirm, cancel, record | an answer is drawn from the CV as it is; a confirmed offer is a saved job; a turn is recorded once | `Assistant` |
| Gemini quota and AI providers (`gemini-quota`, `gemini`, `groq`, `ai.service`) | minute and day counters, alarm keys | reserve for a workload, generate, stream, fall back, retry | limits and reserves hold; a wait that was served is over; one alarm a day | `AiGateway` |
| Jobs, companies, statistics (`jobs.service`, `companies.service`, `statistics*`) | postings with status and dates, companies, cached dashboards | post, change, approve, expire hourly, remove with what hangs off it; read through, clear | the sweep switches off only what has ended; a company removed with others has no open posting; dashboards are stale only for named reasons | `Postings` |
| Skills, subscriptions, followed companies (`skills.service`, `subscribers.service`, `user-preferences.service`) | the catalogue and two caches of it, subscriptions, companies followed | maintain the catalogue, resolve names, subscribe, follow | labels are unique and limits hold but for overlaps; a subscription asks for labels | `Catalogue` |
| Notifications and mail queues (`notifications.*`, `queues/*`, `mail`) | notices, connected clients, queued letters | announce, read, connect, digest, openings | the last notice tells the status; who is online is connected | `Mailings` |
| Users, CV profiles, identity (`users.service`, `cv-profiles`, `profile-identity`) | the account, the CV profile, each with the other's name and avatar | update, upsert, switch on and off, remove | the two copies agree | `Profiles`, extended by `Assistant` |
| Matching (`matching/`) | none | score a candidate for a posting | monotone but for named cases; the verdicts agree | `Matching` |
| CV parser and files, permissions, queue and Redis wiring, seeds, application shell | | input and output, static tables | | none |

### How they interact

Calls are in-process and awaited. Shared state is in MongoDB (single-document updates are atomic, nothing larger is),
in Redis (scripts are atomic) and in the process's cache (`@nestjs/cache-manager` is registered with a `store` option
the installed version does not read, so entries live in the process and are lost when it restarts). Work that may wait
goes through BullMQ: a handler adds a job *after* its database write, so each can happen without the other. The
deletion cascade writes into every component that holds personal data; a lock and a password change revoke sessions;
the chat, its summaries and the resume queue share the Gemini quota; an upsert of a CV clears what the assistant has
cached of it; a change of status starts an announcement nobody waits for; postings and applications clear each other's
dashboards.

### What is hard

- **Interleaving at `await`**: checks and the writes they justify are apart (session, subscription and follow limits,
  unique labels, message numbers, pending deletion, the attempts of a code, the expired postings a sweep has found).
- **Partial failure**: a request that dies between two writes (schedule and job, job and schedule, consumed and
  created session, closed and successor chat session, account and CV), and calls whose failure is logged and swallowed.
- **Retries**: BullMQ repeats a job from its start over what an earlier attempt left behind; a stalled job is taken
  again after a crash; failed jobs keep their id; a rate-limited call to a model is a new call.
- **Time**: deadlines read by two processes, midnight between a charge and its refund, quota keys computed before the
  script that counts under them, tokens that differ by second.
- **Stale state**: entries stored after they were cleared, ids and links cached, a session read two awaits before it is
  consumed, an account found unverified and activated meanwhile.

The full list, each at its line with the properties that cover it, is `hazards` in `PROJECT.json`. Every one of them has
a property that some run checks.

## 2. The modules

| module | about |
|---|---|
| `AccountDeletion` | the deletion lifecycle of one account: handlers, BullMQ's job, the processor |
| `AuthSessions` | the refresh-token sessions of one user |
| `Credentials` | the accounts one e-mail address has had: registration, codes, Google, passwords |
| `ResumePipeline` | one candidate's applications to one posting, the resume queue and its worker |
| `ChatTurns` | one user's chat requests, sessions and quota |
| `Allowance` | abstract: what a daily quota promises; `ChatTurns` implements it |
| `Profiles` | one person's account and CV profile, and the names they copy from each other |
| `Assistant` | extends `Profiles` with the turns of the assistant: contexts, caches, offers, records |
| `AiGateway` | the requests to language models, their fallbacks and retries, the Gemini quota |
| `Postings` | postings, companies, applications and the cached dashboards over them |
| `ReadThrough` | abstract: what a read-through cache promises; `Postings` and `Catalogue` implement it |
| `Catalogue` | skills, the names they are known by, subscriptions, companies followed |
| `Mailings` | notices, connected clients and queued letters |
| `Matching` | the score of a CV for a posting, as functions of a CV that grows |
| `MC...` | each module on small instances, with symmetry where no liveness is checked |
| `...Proofs` | the theorems; `ApplicationProofs` has those of `ResumePipeline`, `CatalogueProofs` those of `Catalogue` and of `Matching`, `UserProofs` those of `AuthSessions` and of `Mailings`, `ChatProofs` those of `ChatTurns` and of `Assistant` with `Profiles` |

Common conventions. A handler is a record with a program counter `pc`; each awaited call that touches shared state is an
action, named for what the call does, whose guard is `At(s, "...")` plus the code's own conditions. `Mailings`,
`Profiles`, `Assistant` and `Matching` name these their own way (`TaskAt`, `SlotAt`, `TurnAt`; `MailSpec`,
`AssistantSpec`, `MatchSpec`; `Absent` for `None`), so that one module of proofs can extend them beside another
component's. Reads that only feed the next call are part of it. Where handlers run in *slots*, a slot is one request
under way and is free again when the request ends. Variables marked *history* record the past for a property and never
guard an action; variables and constants marked *bound* keep instances finite. Definitions preceded by a "Mutant"
comment are plausible mistakes used to check that the properties notice them; no specification uses them.

**AccountDeletion.** `sched` is `user.scheduledDeletionAt`, `anonymised`/`deleted` the other fields of the user, `store`
the five kinds of personal data the cascade erases with the time of the request that wrote them, `job` the one job under
the fixed id, `worker` the processor, `links` and `ownerLink` the two cache entries of the mailed link, `handler` the
requests. Handlers are `Request...` (schedule, revoke sessions, enqueue, mint the link), `Cancel...`, `Link...` and
`Write...` (any other request of the user, a sign-in included); the cascade is `TakeJob`, `LoadUser` (the re-read and its
early returns), `EraseKind` once per kind, `CascadeLinkGet/Drop`, `AnonymiseUser`, `SoftDeleteUser`, `CompleteJob`. A
failing step (`StepFails`) consumes an attempt, a crash (`WorkerCrash`) a stall. One account stands for all: every key
and query carries the user id. Abstractions: a link is looked up after it has been mailed; the two deletions of the
cache entries in a cancellation are one step, and so are those of the chat's messages and sessions in the cascade, whose
dropping of the cached session id is left out. The signed-in cancellation is behind a guard that refuses accounts pending
deletion, so it acts only in a race with the request; the model has it with that guard.

**AuthSessions.** `sessions` maps each refresh token to its document; a token of one user is determined by the second it
was minted in (it signs nothing finer), so tokens *are* seconds, and the unique index makes a second creation in one
second fail (`MintClash`). Requests sign in (`LoginCheck`, `Mint`, `TrimList`, `TrimDelete`), refresh (`RefreshFind`,
`RefreshLoadUser`, `Consume`, `Mint`, with the unawaited `Touch`), sign out, revoke all (logout-all and password
changes), lock and unlock. A *line* is the chain of sessions descending from one sign-in; `revoked` and `excess` are
history, the second for the requests that may have left a session beyond the limit. Abstractions: a token is signed and
its session inserted in one step; a request that dies takes its unawaited touch with it.

**Credentials.** `account` holds every document the address has had: one that is not removed at a time, by the index on
the e-mail, but a Google id also collides with removed ones. `otp` is the stored code (only whether one is, as a guess is
right or wrong), its attempts and the cooldown; `tokens` the reset tokens in the cache. Registration goes over an
unverified account (`RegisterAgain`) or inserts (`RegisterNew`); verification is `VerifyEmail`, `VerifyCompare`,
`VerifyCount` or `VerifyConsume`, `VerifyFind`, `ActivateUser`, each a call; Google sign-in links or replaces; `Purge` is
the index on `verificationExpires`, which drops an account that was not verified in time. Passwords and tokens are
numbered in the order they are made. Abstractions: the three commands of the pipeline that stores a code are one
step; a failure between calls is `Dies`.

**ResumePipeline.** `request` is where each submission's handler is, `resume` its document (flags and whether the
analysis is of the present data), `jobs` a bag (equal jobs are not told apart), `worker` the single consumer and its
step. `Take` prefers a parse to an analysis (priorities 1 and 2); a stalled job comes back outside the priorities once
and is failed the second time. The handlers are followed call by call, with the two failure paths of a parse: denied by
the quota (queue a delayed copy; if that add fails, fail the job) and any other error (record it, fail the job).
Abstractions: a resume is named after its submission; an upload and an online submission are the same until the resume
is created; a staff action's read and its add are one step, and so are the add with which a parse ends (of the analysis,
of the delayed copy) and the end of its job; any entry of the cache may expire at any time. A write to a removed resume
finds nothing: the soft-delete plugin, registered for every schema (`app.module.ts:57`), adds `isDeleted` to the filter
of updates by id too.

**ChatTurns.** `turn` is where each request's handler is, `session`, `messages` and `cachedId` the shared state of the
sessions, `day` and `used` the quota's key and its counter. A message finds its session (`StartMessage`, `CheckCached`,
`DropCached`, `FindLatest`, `CreateSession`, `RememberSession`, or `StartNamed`), is answered from the cache for nothing
or charged (`Reserve`) and answered by the model, is counted and stored (`Count`, `Insert`), and archives a session that
has grown too long (`Archive...`). Sending and streaming are one kind: a stream is a message whose first token has left
(`StreamToken`), and that is all the two rollback rules differ in. Abstractions: the count is merged with the answer
(what it reads can only be as old as the step); finding and closing a session to clear is one step; `insertMany` is
atomic; the key of the quota is worked out in the step of the script, whose reply is not lost, and an answer is put in
the cache without failing (its record and its failures are in `Assistant`); the latest active session is any active one;
roles without a limit behave like answers that were free; recording usage is in `Assistant`; days without a charge are
not told apart.

**Profiles and Assistant.** `user` and `cv` are the two documents of one person, `chatContext` what is cached of them
for the assistant. `UpdateUser`, `WriteUser`, `SyncCvIdentityFromUser` is an administrator's update with its second
write; `UpsertCv`, `BuildCanonicalCv`, `CreateCv` or `UpdateCv`, `SyncUserIdentityFromCv`, `ClearContext` an upsert, in
the code's order; `WriterFails` is a call of either that throws, `WriteRefused` one that finds its document removed or
the CV created meanwhile. An administrator sends a name and a role, which the DTO requires (`create-user.dto.ts`, of
which `update-user.dto.ts` leaves out only the password), and perhaps an avatar and a company. `Assistant` follows a
turn from its question (`Ask`, `GetContext`, `GetUserContext`, `CacheUserContext`, `BuildContext`) to its answer
(`AnswerFaq` from the cache, or `Generate`), the calls after it in the order the mode has (`AfterMessage`,
`AfterStream`: a message is recorded last, a stream before its answer is cached) and the record it leaves
(`RecordUsage`, `RecordFailure`). Offers are replied to in slots (`Confirm`, `ConfirmSaves`, `ConfirmMarks`, `Cancel`,
`CancelMarks`). A posting an answer recommends is one its context holds (`ValidateRecommendedJobIds`). Abstractions:
what a question is understood as, what is found for it and what the model says are nondeterministic; questions are equal
if they are understood alike; sessions, messages and the quota, the subject of `ChatTurns`, only succeed or fail here.

**AiGateway.** `config` is the deployment (which provider is primary for chat and summaries, whether it falls back),
`minuteKeys`, `dayKeys` and `alertKeys` the entries in Redis with their expiry, `request` the requests. A request to
Gemini computes its keys (`Reserving`), runs the script later, perhaps in another minute (`Reserve`, `Deny`), raises the
alarms it crossed (`RaiseAlert`) and makes its call (`Gemini...`); a second turn, a retry (`RateLimited`, `Retry`) and a
parse queued again after its wait (`Resubmit`) each reserve anew. `ReplyLost` and `RedisFails` are Redis failing after and
before the script. `minuteCalls`, `dayCalls` and `alarms` count, per window, what was reserved or raised while the window
its key names was still open. `MinWait` is the floor of the
wait a denial announces (a second in the code). Abstractions: how long a retry sleeps is any time; what a provider's
failure is recognised by is left out, only what follows from it is there.

**Postings.** `posting`, `company` and `application` are the documents with what the dashboards count, `cache` the
cached figures of the administrator, of each company and of the top companies. A write reads, writes by id, and clears
the entries it worked out from what it *read*: `Update`/`UpdateWrite`, `ApproveJob`/`ApproveWrite`, `Remove`/
`RemoveWrite`, `BulkRemoveCompanies`/`RemoveCompanyWrite` and the like, then `Clear`. `FindExpiredJobs`,
`DeactivateExpired` and `SweepClear` are the hourly sweep. `Figures` is what a dashboard would say now, in two halves,
of postings and of applications. The code sends some ten queries together; the model reads one half (`Dashboard`),
either of the two, later the other (`DashboardRest`), and stores both later still (`DashboardFill`), so a dashboard may
mix two moments. Within a half the queries are one reading, and the look into the cache is part of the first. An
application is sent by a candidate (`Apply`, `ApplyInsert`, which clear nothing) or entered by staff (`CreateResume`,
which clears); removing several companies takes any set of them, checks nothing and clears only the top companies.
Abstractions: an end date lies ahead or has passed (the DTO requires one; a posting without is not modelled), an age is
within the last day or not; averages are represented by the applications they average; staff enter applications for a
live posting and its company. Left out of the figures: users, the skills most asked for, failed and finished parses; and
the creation of companies. Their writers clear nothing, so these figures are late until they expire.

**Catalogue.** `skill` are the documents, `cached` the catalogue and the map from names to labels. A name claimed by
several skills goes to the last the query returns, and as it sets no order (`skills.service.ts:205`) the map that is
read is any of `AliasMaps`. A handler reads what it checks (`AssertUniqueSkill`, `Subscribe`, `FollowCompany`) and
writes later (`SkillWrite`, `InsertSubscription`, `AddFollowedCompany`). `Claim` is what a handler has found free and
not taken yet, `overlapped` the claims two handlers held at once when one of them wrote. A subscription resolves the
names it is given through the cached map or one it reads and stores (`GetAliasMap`, `ReadAliasMap`, `FillAliasMap`). A
name stands for all spellings that are looked up alike: labels that differ only in what the look-up ignores (`React-JS`,
`ReactJS`), which may coexist because uniqueness is of label and slug, are not told apart. Abstractions: finding skills
to remove, `deletedBy` and the soft delete are one step; the clearing of the process's own cache does not fail.

**ReadThrough.** The promise both caches are built on, without documents: `answer` is, per key, the set of answers the
source may give now (more than one where a query sets no order), `promised` the entries a client is about to clear,
`carried` what it has read and not stored, `late` the entries that may stay out of date. A change may touch an answer
only if its client is about to clear it, or if the answer is one that drifts, and then an entry that is cached becomes
late. What does not drift is read at once (`Read`), so nothing is stored that never was an answer; what drifts may be
put together from several readings (`Gather`), like the dashboards. `Answers`, `Promised` and `Carried`, at the end of
`Catalogue` and of `Postings`, map each onto it: in `Catalogue` nothing drifts, in `Postings` every figure may (time
passes, and some writers clear too little).

**Mailings.** `application` is the status of each application; `Update`, `UpdateWrite`, `Announce` change it and start a
*task* nobody awaits: `LoadApplication`, `CreateNotice`, `QueueStatusLetter`, `FindHr`, `TellHr`, `WriteToHr`, each of
which may fail. Notices are numbered in the order they are stored, and read, marked and removed by their users.
Letters pass a queue with attempts and stalls (`Take`, `Send`, `Complete`, `SendFails`, `WorkerDies`); digests and
openings look again at who still listens when they are sent. Clients connect (`Connect`, `Verified`, `Refused`) and
leave (`HandleDisconnect`), which may overtake the verification of their token. Abstractions: a
failure to load an application's job and user counts as a failure of what follows it; the process does not die between a
change of status and its announcement; a write that is reported as failed was not applied.

**Matching.** Pure functions, translated as such: `CalculateSkillsMatch`, `CalculateExperienceScore`,
`CalculateEducationScore`, `CalculateMatch`, and what is derived from the total. The state is one CV that grows by a
skill, a year or a degree, so that what a step does to a score can be said. A skill is the sequence of its words; the
total is counted in tenths of a point. The code rounds a floating-point share, which for some sums falls short of the half
it stands for (285 points over ten skills are 28.5 and give 28): these are the constant `ShortOfHalf`, about which the
theorems assume nothing. Abstractions: years are whole; the score of an unknown level is left out; the skills a posting
asks for are a set; that comparing skills drops punctuation, while the search for words of proficiency keeps it, is left
out; `javascript` is the words `java` and
`script`, so that `java` occurs in it, and two entries `java` and `script` side by side read like it.

## 3. What is checked

| run | instance | shows |
|---|---|---|
| `deletion_lifecycle` | 2 handlers of any kind, writers of sessions and of chats, grace 2, clock to 4, 2 faults of any of five kinds, fair | `OnlyStragglersSurvive`, `PendingAdmitsNoLogin`, `CancelledSurvives`, `EarlyDeletionNeedsLostAdd`, liveness `ScheduleResolves` |
| `deletion_half_done` | 1 request, 1 failing step | the disagreement of section 5 |
| `sessions` | 3 requests, 1 device, limit 1, three seconds, a request may die anywhere | `RotationNeverForks`, `RevokedStaysRevoked`, `LimitSettles` |
| `credentials` | 2 slots, 2 accounts, 2 guesses a code, 2 passwords, 1 reset token, 1 handler that dies | types, `GuessesBounded`, `ActiveIsKept` |
| `applications` | 1 submission, 2 attempts, 2 faults, 1 staff action, fair | types, `NoApplicationDropped`, `AnalysisCatchesUp`, liveness `ProcessingEnds` |
| `chat` | 3 requests (2 at a time), 3 sessions, limit 1, two messages a session, 2 days, 1 fault | `ChargeSettles`, `NumbersIdentifyMessages`, `AnswersStayInReach`, `ClosedTakesNothing`, refinement `QuotaIsAnAllowance` |
| `assistant` | 2 slots, 2 turns, 1 posting, 1 offer, two intents, five budgets of requests and faults | types, `IdentityAgrees`, `TurnSeesCv`, `ConfirmedIsSaved`, `OneRecord` |
| `gateway` | 2 requests of any kind, 2 deployments, 2 units a minute and 2 a day with reserves, 1 retry, three minutes over two days, 1 fault | `ReservesHold`, `AlarmOnce`, `WaitedDenialIsOver` |
| `postings` | 2 slots, 2 companies, 2 postings, 1 application, 2 changes beside the sweep, 1 dashboard computed, in two halves | `CachesSettle`, `SwitchedOffHasEnded`, `CascadeHolds` |
| `catalogue` | 2 slots, 2 skills, 2 names, 1 user, 2 subscriptions, 2 companies, limits of 1, 4 changes, 1 reading | `OnlyOverlapsExceed`, `SubscribedToLabels`, refinement `ReadsThrough` |
| `mailings` | 2 slots, 2 tasks, 1 application, 1 HR user, 1 reader, 2 clients, 3 notices, 2 letters of 2 attempts, 3 changes, 2 faults | types, `LastWordIsStatus`, `OnlineIsConnected` |
| `matching` | CVs of up to two of six skills, 22 years and any degrees; two sets of skills at each of six levels | `FitIsExcellent`, `VerdictsAgree`, `GainsNeverLower` |

The type invariants of `AccountDeletion`, `AuthSessions`, `ChatTurns`, `AiGateway`, `Postings` and `Catalogue` are proved
for every instance (section 4) and not run again.

**Why the bounds are enough to be interesting.** Two handlers are the least that race, and each of the races named needs
no more; the third in `sessions` and `chat` lets a further request meet what a race has left behind. One fault reaches
every single failure point; `deletion_lifecycle` takes two so that a crash can follow a dead request, `applications` two
so that a failure can meet a second one in the record of it, or a stalled job stall again, `mailings` two so that a
letter can use up its attempts. The clock of `AccountDeletion` passes the grace period twice, so an old job can meet a
second schedule. With one device and limit one the first sign-in is already over the limit, and three seconds let two
sign-ins and a rotation each mint a token of their own. A posting with one submission is enough for every property of
the pipeline; the code's three attempts are two there, one to fail and one to retry. In `chat` a limit of one makes
every pair of requests compete, `MaxLength = 2` makes the second message to a session archive it (100 in the code) and
`CarryOver = 1` (5) tells the newest message from the others. In `gateway` a tick is a minute and a day has two, so a
script can run in the minute or the day after its keys; the reserves make the three workloads differ (a summary leaves
one unit a minute, a parse and a summary one a day, so that a parse is denied for the day while its minute has room),
and of the two deployments one goes through both providers and one falls back nowhere. In `catalogue` the limits are one
(3 and 5 in the code), and two skills and two names let a name be the label of one and the alias of the other. In
`assistant` each budget lets one group of handlers race (writers of account and CV; turns around an upsert, with and
without a fault; turns that share an answer; replies to an offer) and a behaviour has one of them: together at once they
exceed what can be explored. In `matching` the skills include names that occur in one another, an alias, an unknown
skill and words of proficiency; 22 years pass the greatest of the six levels. Deadlock is not checked: requests end, and
a system nobody calls may stop.

**Symmetry** is used in runs without liveness, on requests and other interchangeable names.

**Fairness.** `ScheduleResolves` assumes that a handler that has arrived and not died takes its next step (the event
loop runs it), that the worker polls, and that time passes. No request has to arrive and no fault has to happen.
`ProcessingEnds` assumes that the worker takes jobs and runs them and that delays pass, and that a job is not denied by
the Gemini quota for ever: a denied parse is delayed past the end of the window that denied it, and only other load
without end could deny it each time (`<>[][~ParseDenied]_vars`). Its `Promote` and `Take` conditions are for some job,
not for each, because BullMQ takes them in order. The other modules promise safety only: their handlers end by the same
assumption, and what has to happen after them is either a step of theirs or a step nobody awaits that may fail.

**Exceptions in properties** name exactly what the code lets go: a job given up by a second stall or whose record of a
failure failed itself (`excused` in `ResumePipeline`), a refund that failed, an archive that failed or a process that died
(`excused` in `ChatTurns`), overlapping requests (`met`), rotations that overlapped a trim or whose session was
no longer live, and sign-ins that died before their trim (`excess`), the four ways
to strand a schedule (`Stranded`), a figure computed before a change and stored after it or that a writer worked out
the wrong entry for (`excused` in `Postings`, `stale` in `Catalogue`), claims checked twice before one was written
(`overlapped`), an account activated while a handler held it as unverified (`raced`), announcements that overlapped or
failed (`excused` in `Mailings`), writers of account and CV that overlapped or failed between their writes (`parted`),
replies to one offer that overlapped or failed (`contested`), a summary of the CV that a turn stored after it had been
cleared (`raced`, and `stale` for the turns that draw from it).

Such a property does not say that the race or the failure it excepts is absent: the code has it. It says that nothing else
breaks what it promises. This is so in particular for `IdentityAgrees`, `ConfirmedIsSaved`, `OneRecord`,
`OnlyOverlapsExceed`, `AnswersStayInReach`, `LastWordIsStatus`, `OnlineIsConnected`, `GainsNeverLower`,
`SwitchedOffHasEnded` and `CascadeHolds`.

## 4. What is proved

TLAPS checks each theorem for every value of the constants that satisfies the module's named assumptions (naturals where
the code has counts, finite sets of whatever is counted, `MaxLatency < Grace`, names and offers that differ from `None`
or `Absent`, no slot called `"sweep"`, and in `Matching` postings of known levels that ask for finitely many skills made
of known words).

| theorem | states |
|---|---|
| `AccountDeletionProofs.TypeCorrect` | `Spec => []TypeOK` |
| `AccountDeletionProofs.CancellationIsFinal` | `Spec => []CancelledSurvives` |
| `AccountDeletionProofs.NoLoginWhilePending` | `Spec => []PendingAdmitsNoLogin` |
| `AccountDeletionProofs.EarlyOnlyOverLostAdd` | `Spec => []EarlyDeletionNeedsLostAdd` |
| `AccountDeletionProofs.OnlyStragglersRemain` | `Spec => []OnlyStragglersSurvive` |
| `UserProofs.SessionsTyped`, `NeverForks`, `RevocationHolds` | types, `RotationNeverForks`, `RevokedStaysRevoked` |
| `UserProofs.LimitHolds` | `Spec => []LimitSettles` |
| `UserProofs.MailingsTyped` | `MailSpec => []MailTypeOK` |
| `UserProofs.LastWordHolds`, `OnlineHolds` | `MailSpec => []LastWordIsStatus`, `MailSpec => []OnlineIsConnected` |
| `CredentialsProofs.CredentialsTyped`, `CredentialsGuesses` | `Spec => []TypeOK`, `Spec => []GuessesBounded` |
| `CredentialsProofs.CredentialsKept` | `Spec => ActiveIsKept`, an action property |
| `ApplicationProofs.PipelineTyped` | `Spec => []TypeOK` of `ResumePipeline` |
| `ApplicationProofs.ApplicationsKept`, `AnalysesCatchUp` | `Spec => []NoApplicationDropped`, `Spec => []AnalysisCatchesUp` |
| `ChatProofs.ChatTyped` | `Spec => []TypeOK`: above all, the counter stays within the limit |
| `ChatProofs.ChatQuota` | `Spec => QuotaIsAnAllowance`: `ChatTurns` implements `Allowance` |
| `ChatProofs.ChatCharges` | `Spec => []ChargeSettles` |
| `ChatProofs.ChatClosed` | `Spec => ClosedTakesNothing`, an action property |
| `ChatProofs.ChatNumbers`, `ChatReach` | `Spec => []NumbersIdentifyMessages`, `Spec => []AnswersStayInReach` |
| `ChatProofs.AssistantTyped` | `AssistantSpec => []AssistantTypeOK` |
| `ChatProofs.IdentityHolds`, `TurnsSeeTheCv` | `AssistantSpec => []IdentityAgrees`, `AssistantSpec => []TurnSeesCv` |
| `ChatProofs.ConfirmedSaved`, `RecordedOnce` | `AssistantSpec => []ConfirmedIsSaved`, `AssistantSpec => []OneRecord` |
| `PostingsProofs.PostingsTyped` | `Spec => []TypeOK` |
| `PostingsProofs.SweepIsJust`, `CascadeIsComplete` | `Spec => SwitchedOffHasEnded`, `Spec => CascadeHolds`, action properties |
| `PostingsProofs.DashboardsReadThrough` | `Spec => ReadsThrough`: `Postings` implements `ReadThrough` |
| `PostingsProofs.DashboardsSettle` | `Spec => []CachesSettle` |
| `AiGatewayProofs.GatewayTyped` | `Spec => []TypeOK` |
| `AiGatewayProofs.WaitingPays` | `Spec => WaitedDenialIsOver`, an action property |
| `AiGatewayProofs.AlarmsAreSingle` | `Spec => []AlarmOnce` |
| `AiGatewayProofs.ReservesAreKept` | `Spec => []ReservesHold` |
| `CatalogueProofs.CatalogueTyped` | `Spec => []TypeOK` |
| `CatalogueProofs.LabelsAreSubscribed` | `Spec => []SubscribedToLabels` |
| `CatalogueProofs.CatalogueReadsThrough` | `Spec => ReadsThrough`: `Catalogue` implements `ReadThrough` |
| `CatalogueProofs.CatalogueSettles` | `Spec => []CachesSettle` |
| `CatalogueProofs.LimitsNeedOverlaps` | `Spec => []OnlyOverlapsExceed` |
| `CatalogueProofs.SkillsInRange` | the score of any skills is in 0..100, and at least 70 if all that are asked for are matched |
| `CatalogueProofs.ExperienceInRange` | the experience score of any years is in 0..100, and at least 85 from the ideal years on |
| `CatalogueProofs.FitSuffices` | with ideal years and the best education, 70 points for skills reach excellence and approval |
| `CatalogueProofs.ExcellentIfFit`, `VerdictsOfMatch` | `MatchSpec => []FitIsExcellent`, `MatchSpec => []VerdictsAgree` |
| `CatalogueProofs.GainsCount` | `MatchSpec => GainsNeverLower`, an action property |

**The inductive invariants.**

- *AccountDeletion*: `Core` adds to the types that the worker has a job in hand exactly when the job is active and that
  a request in flight is younger than `MaxLatency`. Each safety theorem strengthens its property relative to `Core`:
  a cancelled schedule stays unset until a new request (`Cancelled`); writers in flight while a deletion is pending
  were admitted before it (`Shut`); a job that is early, waiting or taken, belongs to an add that was swallowed; a kind
  already erased by the present attempt holds only what was written since.
- *AuthSessions*: none of the properties is inductive, because a line can be in a session *or* in the hands of a refresh
  that has deleted one and not yet created the next. `Placed` says it is in one of these places at most and only after
  its sign-in arrived; `Ended` that a revoked line is in no creation and in no session a refresh was admitted with.
  The limit is a count over sessions and requests at once: `Bound` says, for *every* set of the trims under way, that
  the live sessions these have not listed and the rotations between their two writes are no more than the limit, the
  excused requests and the sign-ins outside the set. The quantifier is what makes it inductive: a trim that deletes what it
  listed takes itself out of the set, and one that lists puts itself in.
- *Credentials*: `Shape` (types) says that one account is live and that a handler holds one that exists. `Counted` bounds
  the wrong guesses twice: by the attempts counted, the handlers about to count and the faults, and, with the handlers
  still comparing, by the final bound. `Spared` says that an active account is not due to be dropped and that a handler
  that goes over unverified accounts holds an active one only if it is in `raced`.
- *ResumePipeline*: `Tied` ties the worker's step to the kind of its job. `Facts` says what a step may rely on: nothing
  knows of a submission before its resume is created, data and cache entries come from a parse that was tried, a resume
  being parsed is not in the cache. `CatchesUp` then says what will still bring a resume its analysis (`Underway`): an
  analysis queued or in hand, a parse in hand that will queue one, or a parse that the cache will not answer; that a
  cached answer ends a parse *without* queueing an analysis is why the last clause needs `s \notin cached`, and why the
  property could not be proved without it.
- *ChatTurns*: `Records` ties each handler's program counter to its session and its charge (before the reservation it
  has no key; while it runs, a key means a charge; whoever answers is charged or free), which is what makes a refund
  happen once. For the refinement, `Counts` says that the counter is the number of requests charged under today's
  key and that no key is of a day to come, so midnight empties the set of holders together with the counter; the
  holders of `Allowance` are mapped to the requests whose charge carries today's key. For the closed sessions,
  `Apartness` says that a request only knows sessions as closed that are, and works in none that it found closed; it
  needs that a closed session never opens again. For the numbers, `CountedBelow` says that what has a higher number than
  a request has counted is by a request it has met, which needs that no number exceeds the number of messages
  (`Numbered`) and that the copies of an archive go to a session written by requests met only (`CopyMeets`). For the
  reach, `LatestKept` follows the latest answer through every step of an archive of its own request, and says that any
  other request that archives has met it.
- *Profiles and Assistant*: `AssistantInv` is made of what each property needs. `Person` and `Served` type the two
  documents and the slots; that only an HR user has a company depends on what an administrator's update still holds
  unwritten. `Together` is what makes the two copies agree: it says of a writer that has been alone since it began what
  it knows at each of its steps (`Halfway`: that the account carries what it is about to write to the CV, or that no
  avatar was sent because there is none), and that copies which differ are excused or about to be made equal; agreement
  itself is no invariant, as it is broken between the two writes of every writer. `Offered` says of an offer that no two
  replies met at that it has one reply at most, still finds it pending and has saved the posting exactly when it is
  about to confirm. `Exchanged` ties the records of a turn to its step and mode, which differ in whether the record or
  the cached answer comes first. `Fresh` follows the CV from where it is read: what a turn is about to store is as new as
  every upsert that has ended, or `raced`; so is the cached summary; and what a turn draws from is as new as the upserts
  that had ended when it was asked. The property speaks only of the last, which the next turn gets from the first two.
- *Postings*: `IInv` (documents, handlers, sweep, counts) says what a handler holds at each step it waits at. `Found`
  says that a posting the sweep has found and that nobody wrote since has still ended, which makes the switch just;
  `Down` that while companies are being removed their active postings are those that rose since. For the dashboards, each
  write is shown to change figures only of entries its handler is about to clear or that it excuses, which is to say
  that it is a `Change` or a `Drift` of `ReadThrough`; a dashboard computed in two halves is a `Gather`, which may carry
  anything; when a cached figure may be out of date (`CachesSettle`) then follows from
  `ReadThrough` alone, with no further word about postings.
- *AiGateway*: a limit per window is not inductive, because the counter is of a key that may expire and the calls are of
  a window that may have passed. `RequestsOK` and `KeysOK` say that a request knows the end of the window its denial
  is about and that a key lives exactly to the end of its window. `WindowOK` then counts what is *booked* in a window
  (calls made and units reserved for calls still to be made): per workload no more than the key says, and, for every set
  of workloads with at least some reserve, no more than the limit leaves them. For the alarms, `AlarmsOK` says that an
  alarm raised on its day has a key that lives to the end of it.
- *Catalogue*: `IInv` (documents, handlers, subscribers, what is known, counts) says that a handler that will save holds
  labels that have been offered, and a cached map leads to such. `LabelInv`, `HeldInv` and `FollowedInv` have one shape: a
  limit is exceeded, or is reached while a handler still holds a claim, only if the claim is in `overlapped`; the
  second half is what makes the first inductive. The refinement of `ReadThrough` needs nothing of skills but what the
  catalogue and the map are made from: a step that leaves the skills leaves the answers.
- *Matching*: `MatchIInv` only types the CV; the work is in the scores, which are folds over the words of a skill, the
  skills of a CV and those a posting asks for. The library's induction theorems take a predicate as a parameter, so the
  induction is by hand: a set of numbers without a least element is empty (`LeastNumber`, from the well-foundedness of the
  naturals), and the counterexamples to a claim, counted by length or by cardinality, are such a set. In this way each
  fold's equation is shown to have a solution, hence to hold; the sum over `n` required skills is then in 0..100n, at
  least 70n if all are matched, and no lower for one more skill in the CV, except in the cases `GainsNeverLower` names.
- *Mailings*: `Network`, the table of clients, is inductive as the property states it. `Telling` is not the property but
  what makes it last: notices fill their numbers without gaps (`Filled`), nothing is under way of an application that
  does not exist (`Known`), and, while an application is not in `excused`, every change about to be announced and every
  announcement about to be stored names the status the application *has* (`Agreeing`). Without the last clause the
  property says nothing while an announcement is pending, and the notice it stores could say anything.

**Only model-checked.** Liveness (`ScheduleResolves`, `ProcessingEnds`) is beyond the prover. Every invariant, action
property and refinement that a run checks is a theorem. The other way round, the refinement of `ReadThrough` by
`Postings` is proved and in no run: TLC needs longer for it, within the bounds of `postings`, than for all else together.
In `Catalogue` the run checks the refinement and not `CachesSettle`, which the proof derives from it.

## 5. What the work showed

One disagreement between the code and what it says is checked as a run that TLC finds violated; the line is quoted in
`PROJECT.json`.

- **A deletion can be left half done** (`deletion_half_done`): if the soft delete fails after the step that unset the
  schedule, the retry takes the account for cancelled and completes.

The rest are observations: behaviours of the code that the properties had to except, or that came up while reading. They
hold in the models, and the properties name them.

- *Deletion.* A failed job keeps the id `delete-account-<userId>`, so the add of a later deletion does nothing
  (`account-deletion-queue.service.ts:31`). Signed in, a cancellation is possible only in a race, because the guard before it
  refuses accounts pending deletion (`auth.controller.ts:344`). A second request leaves the link of the first in the cache
  (`auth-account-deletion.service.ts:71`).
- *Sessions.* A sign-in or refresh past its checks inserts its session after a lock has deactivated the others
  (`user-account.service.ts:85`); a refresh admitted before it thereby swaps a session that no longer counts for one
  that does, and the limit is exceeded by it when the user has signed in again meanwhile. A lock that dies between its
  two writes does not deactivate them at all (`:77`).
  `resetPassword` leaves the sessions of the user in place (`auth-credentials.service.ts:179`).
- *Credentials.* A registration that has read an account as unverified overwrites the password of one that was activated
  meanwhile (`auth-credentials.service.ts:71`).
- *Applications.* The duplicate check and the creation of an application are two calls and the index is not unique
  (`resume-processing.service.ts:123`, `resume.schema.ts:212`). A resume is created before its parse job, which may not be
  added (`:40`). A failure between the cache write and the end of a parse is recorded on the resume, and the retry,
  answered from the cache, does not clear it (`resume-queue.processor.ts:75`, `:139`). The automatic status is computed,
  and its write is commented out.
- *Assistant.* An upsert of the CV clears the cached summary of the user and promises that the next message gets fresh
  data (`cv-profiles.service.ts:84`). A turn that read the old CV can store its summary after the clearing, and the context
  of a question, cached for some minutes on its own, is never cleared; `invalidateUserContext` has no callers. A stream
  whose answer cannot be cached leaves two usage records. FAQ answers are cached per role, topic and message although
  the prompt carries name and history.
- *Mail.* When adding a batch of digests fails, the batch is skipped (`job-recommendation-queue.service.ts:87`).
- *Matching.* `education-scoring.util.ts:13` says that advanced degrees score 100, yet a master's degree beside a bachelor's
  scores 90 at mid level. From Senior upwards an education without a degree scores less than none. The first skill the
  catalogue knows hides those it does not. The summary goes by the rounded score and the priority by the exact one, and
  they can differ at a threshold.

## 6. What is not modelled

- CV parsing and files, mail templates, prompts, answers, formatting: text. A failure of any of them is a step where it
  has consequences.
- Queries: paging, filters, search, sorting of listings; the aggregations over usage records and their costs.
- Permissions: a static table; guards are modelled where they refuse something a property speaks of.
- The trimming of a Groq request to its token budget (`ai.service.ts`): a computation over text lengths. The lookup of a
  user's quota policy and changes of it during the day. The history of an application's status. The nightly removal of
  orphaned logos.
- Several accounts, CVs or users at a time, where documents, keys and jobs are per user: they do not interact, except
  through the Gemini quota, the catalogue, postings and their dashboards, which have modules of their own.
- Clock differences between processes: all of them read one clock.
- Wiring of Redis and the queues, seeds, bootstrapping.

`components` in `PROJECT.json` lists every part with its status and reason.

## 7. The plan

Built first: the account lifecycle (its failures are irreversible), then the sessions it revokes, the application
pipeline and the chat; then the modules around them. What is left, in this order:

1. The trimming of a Groq request as a pure algorithm: it ends within its budget or says that it cannot.
2. A composition of `Credentials` with `AuthSessions`: which sessions outlive a change of password.

## 8. Running it

    tlc -workers 2 -config MCChatTurns.cfg MCChatTurns.tla
    tlapm ChatProofs.tla

Each configuration names its module by its prefix. The largest runs take about three minutes with two workers, the
longest proofs a few minutes.
