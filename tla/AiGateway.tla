----------------------------- MODULE AiGateway -----------------------------
(***************************************************************************)
(* Requests to the language models: parsing a CV, answering a chat message *)
(* at once or as a stream, summarising a conversation.  Chat and summaries *)
(* go to a primary provider and fall back from Groq to Gemini; every call  *)
(* to Gemini first reserves a unit of the minute's and of the day's quota, *)
(* shared by the workloads with a reserve each must leave to the others.   *)
(*                                                                         *)
(* The keys of the quota and their lifetimes are computed when a           *)
(* reservation starts, the script that counts runs later.  What a provider *)
(* answers is nondeterministic, as is how long a retry sleeps.             *)
(***************************************************************************)
EXTENDS Integers, FiniteSets

CONSTANTS
    Requests,
    Deployments,        \* the configurations considered
    MinuteLimit, DayLimit,
    MinuteReserve, DayReserve,  \* per workload: what it leaves to the others
    Thresholds,         \* percentages of the day's limit that raise an alarm
    MinuteTicks,        \* ticks of the clock in a minute
    DayMinutes,         \* minutes in a day
    MinWait,            \* ticks a denial announces at least (a second)
    MaxRetries,
    MaxTime,            \* bound: the clock
    MaxFaults,          \* bound: calls to Redis that fail
    None

Kinds == {"parse", "chat", "stream", "summary"}
Workloads == {"parse", "chat-fallback", "summary"}
Providers == {"groq", "gemini"}

\* What the quota's configuration is checked for when it is read.
LimitsConfigured ==
    /\ MinuteLimit \in Nat \ {0} /\ DayLimit \in Nat \ {0}
    /\ Thresholds \subseteq 1 .. 100

\* A workload leaves a reserve of either limit to the others.  One left at its default is
\* not compared with the limit.
ReservesConfigured ==
    MinuteReserve \in [Workloads -> Nat] /\ DayReserve \in [Workloads -> Nat]

\* The primary providers, and whether Groq falls back to Gemini.
Configurations ==
    [chat : Providers, summary : Providers,
     chatFallback : BOOLEAN, summaryFallback : BOOLEAN]

ASSUME LimitAssumption == LimitsConfigured /\ ReservesConfigured
ASSUME ClockAssumption ==
    /\ MinuteTicks \in Nat \ {0} /\ DayMinutes \in Nat \ {0} /\ MinWait \in Nat
    /\ MaxTime \in Nat /\ MaxFaults \in Nat /\ MaxRetries \in Nat
ASSUME DeploymentAssumption ==
    Deployments \subseteq Configurations
ASSUME NoneAssumption ==
    /\ None \notin Kinds /\ None \notin {"minute", "day"} \X Nat
    /\ IsFiniteSet(Requests)

VARIABLES
    config,         \* the deployment's providers and fallbacks
    now,            \* the clock
    minuteKeys,     \* per minute: the counter under its key and when it expires
    dayKeys,        \* per day: likewise
    alertKeys,      \* per day and threshold: when the alert's key expires
    request,        \* per request: where it is
    minuteCalls,    \* history: per minute and workload, calls reserved within it
    dayCalls,       \* history: per day and workload, calls reserved within it
    alarms,         \* history: per day and threshold, alarms raised in time
    faults          \* bound: failures so far

vars == <<config, now, minuteKeys, dayKeys, alertKeys, request, minuteCalls,
          dayCalls, alarms, faults>>
quota == <<minuteKeys, dayKeys, alertKeys>>
history == <<minuteCalls, dayCalls, alarms>>

-----------------------------------------------------------------------------
MinuteOf(t) == t \div MinuteTicks
DayOf(t) == t \div (MinuteTicks * DayMinutes)
Minutes == 0 .. MinuteOf(MaxTime)
Days == 0 .. DayOf(MaxTime)

\* What is left of the minute and of the day at t.
RestOfMinute(t) == (MinuteOf(t) + 1) * MinuteTicks - t
RestOfDay(t) == (DayOf(t) + 1) * MinuteTicks * DayMinutes - t

Workload(kind) ==
    CASE kind = "parse" -> "parse"
      [] kind = "summary" -> "summary"
      [] OTHER -> "chat-fallback"

Idle == [kind |-> None, pc |-> "idle", turn |-> 1, attempt |-> 0, stamp |-> 0,
         inMinute |-> FALSE, inDay |-> FALSE, todo |-> {}, denial |-> None,
         retryAt |-> 0]

Ended == {"answered", "failed", "denied"}

At(r, pc) == request[r].pc = pc
Is(r, kinds) == request[r].kind \in kinds
Becomes(r, q) == request' = [request EXCEPT ![r] = q]
Goto(r, pc) == Becomes(r, [request[r] EXCEPT !.pc = pc])

\* Of a request that has ended only the outcome matters.
End(r, pc) == Becomes(r, [Idle EXCEPT !.pc = pc])

Fault == faults < MaxFaults /\ faults' = faults + 1

-----------------------------------------------------------------------------
\* The keys and lifetimes of a reservation are computed when it starts, before
\* its script is sent.
Reserving(q) == [q EXCEPT !.stamp = now, !.pc = "script"]

FirstStep(kind, provider) ==
    IF provider = "groq" THEN [Idle EXCEPT !.kind = kind, !.pc = "groq"]
    ELSE Reserving([Idle EXCEPT !.kind = kind])

\* A request starts with its primary provider; a CV is parsed by Gemini only.
ParseCV(r) ==
    /\ At(r, "idle")
    /\ Becomes(r, Reserving([Idle EXCEPT !.kind = "parse"]))
    /\ UNCHANGED <<config, now, quota, history, faults>>

GenerateChat(r) ==
    /\ At(r, "idle")
    /\ Becomes(r, FirstStep("chat", config.chat))
    /\ UNCHANGED <<config, now, quota, history, faults>>

StreamChat(r) ==
    /\ At(r, "idle")
    /\ Becomes(r, FirstStep("stream", config.chat))
    /\ UNCHANGED <<config, now, quota, history, faults>>

SummarizeConversation(r) ==
    /\ At(r, "idle")
    /\ Becomes(r, FirstStep("summary", config.summary))
    /\ UNCHANGED <<config, now, quota, history, faults>>

-----------------------------------------------------------------------------
(***************************************************************************)
(* Groq.  A chat takes two calls, the draft with its tool calls and the    *)
(* structured answer; nothing is streamed before both have succeeded.      *)
(***************************************************************************)
GroqErrors == {"rate limit", "connection", "server", "malformed", "client"}

FallbackEligible(error) == error # "client"

ShouldFallback(kind, error) ==
    /\ IF kind = "summary" THEN config.summaryFallback ELSE config.chatFallback
    /\ FallbackEligible(error)

\* The draft, with a reply to each of its tool calls, is put to the model once more for the
\* structured answer.
SecondTurn(r) == request[r].turn = 1 /\ Becomes(r, [request[r] EXCEPT !.turn = 2])
Structured(r) == request[r].turn = 2 /\ End(r, "answered")

GroqChats(r) ==
    /\ At(r, "groq") /\ Is(r, {"chat"})
    /\ SecondTurn(r) \/ Structured(r)
    /\ UNCHANGED <<config, now, quota, history, faults>>

GroqStreams(r) ==
    /\ At(r, "groq") /\ Is(r, {"stream"})
    /\ SecondTurn(r) \/ Structured(r)
    /\ UNCHANGED <<config, now, quota, history, faults>>

GroqSummarizes(r) ==
    /\ At(r, "groq") /\ Is(r, {"summary"})
    /\ End(r, "answered")
    /\ UNCHANGED <<config, now, quota, history, faults>>

GroqFails(r) ==
    /\ At(r, "groq")
    /\ \E error \in GroqErrors :
          IF ShouldFallback(request[r].kind, error)
          THEN Becomes(r, Reserving([Idle EXCEPT !.kind = request[r].kind]))
          ELSE End(r, "failed")
    /\ UNCHANGED <<config, now, quota, history, faults>>

-----------------------------------------------------------------------------
(***************************************************************************)
(* The quota of Gemini.  A key that has expired counts nothing.            *)
(***************************************************************************)
Held(key) == IF now < key.until THEN key.count ELSE 0

\* Mutant: a denied reservation is told to come back at once.
RetryAfterAtOnce(key, ttl) == 1

\* The counter's key, with the lifetime computed by the reservation if the
\* key has none.
Counted(key, ttl) ==
    [count |-> Held(key) + 1, until |-> IF now < key.until THEN key.until ELSE now + ttl]

\* How long a denied reservation is told to wait.
RetryAfter(key, ttl) ==
    LET left == IF now < key.until THEN key.until - now ELSE ttl
    IN  IF left < MinWait THEN MinWait ELSE left

Reached(count) == {t \in Thresholds : count * 100 >= t * DayLimit}

MinuteKey(r) == minuteKeys[MinuteOf(request[r].stamp)]
DayKey(r) == dayKeys[DayOf(request[r].stamp)]

MinuteFull(r) ==
    Held(MinuteKey(r)) + 1 > MinuteLimit - MinuteReserve[Workload(request[r].kind)]
DayFull(r) ==
    Held(DayKey(r)) + 1 > DayLimit - DayReserve[Workload(request[r].kind)]

Denied(r, scope, window, wait) ==
    Becomes(r, [Idle EXCEPT !.kind = request[r].kind, !.pc = "denied",
                            !.denial = <<scope, window>>, !.retryAt = now + wait])

\* The script denies a request, or counts it in both keys.
Deny(r) ==
    LET s == request[r].stamp IN
    /\ At(r, "script")
    /\ \/ /\ MinuteFull(r)
          /\ Denied(r, "minute", MinuteOf(s), RetryAfter(MinuteKey(r), RestOfMinute(s)))
       \/ /\ ~MinuteFull(r) /\ DayFull(r)
          /\ Denied(r, "day", DayOf(s), RetryAfter(DayKey(r), RestOfDay(s)))
    /\ UNCHANGED <<config, now, quota, history, faults>>

Counts(r) ==
    LET s == request[r].stamp IN
    /\ ~MinuteFull(r) /\ ~DayFull(r)
    /\ minuteKeys' = [minuteKeys EXCEPT ![MinuteOf(s)] = Counted(@, RestOfMinute(s))]
    /\ dayKeys' = [dayKeys EXCEPT ![DayOf(s)] = Counted(@, RestOfDay(s))]
    /\ UNCHANGED alertKeys

Reserve(r) ==
    LET s == request[r].stamp IN
    /\ At(r, "script")
    /\ Counts(r)
    /\ Becomes(r, [request[r] EXCEPT !.pc = "alert",
                                     !.inMinute = MinuteOf(now) = MinuteOf(s),
                                     !.inDay = DayOf(now) = DayOf(s),
                                     !.todo = Reached(dayKeys'[DayOf(s)].count)])
    /\ UNCHANGED <<config, now, history, faults>>

\* The reply of a script that counted is lost and the client sends it again.
ReplyLost(r) ==
    /\ At(r, "script")
    /\ Counts(r)
    /\ Fault
    /\ UNCHANGED <<config, now, request, history>>

\* Mutant: the alert's key lives as long as the minute's.
RaiseAlertForAMinute(r) ==
    LET s == request[r].stamp
        d == DayOf(now)
    IN
    /\ At(r, "alert")
    /\ \E t \in request[r].todo :
          /\ \A u \in request[r].todo : t <= u
          /\ IF now < alertKeys[d][t]
             THEN UNCHANGED <<alertKeys, alarms>>
             ELSE /\ alertKeys' = [alertKeys EXCEPT ![d][t] = now + RestOfMinute(s)]
                  /\ alarms' = [alarms EXCEPT ![d][t] = IF d = DayOf(s) THEN @ + 1 ELSE @]
          /\ Becomes(r, [request[r] EXCEPT !.todo = @ \ {t}])
    /\ UNCHANGED <<config, now, minuteKeys, dayKeys, minuteCalls, dayCalls, faults>>

\* The lowest threshold not yet announced today is, with the lifetime that
\* was computed with the keys.
RaiseAlert(r) ==
    LET s == request[r].stamp
        d == DayOf(now)
    IN
    /\ At(r, "alert")
    /\ \E t \in request[r].todo :
          /\ \A u \in request[r].todo : t <= u
          /\ IF now < alertKeys[d][t]
             THEN UNCHANGED <<alertKeys, alarms>>
             ELSE /\ alertKeys' = [alertKeys EXCEPT ![d][t] = now + RestOfDay(s)]
                  /\ alarms' = [alarms EXCEPT ![d][t] = IF d = DayOf(s) THEN @ + 1 ELSE @]
          /\ Becomes(r, [request[r] EXCEPT !.todo = @ \ {t}])
    /\ UNCHANGED <<config, now, minuteKeys, dayKeys, minuteCalls, dayCalls, faults>>

\* Redis fails before the script or after it: the error is no rate limit.
\* The unit of a reservation that had been counted is not given back.
RedisFails(r) ==
    /\ At(r, "script") \/ (At(r, "alert") /\ request[r].todo # {})
    /\ Fault
    /\ End(r, IF Is(r, {"summary"}) THEN "answered" ELSE "failed")
    /\ UNCHANGED <<config, now, quota, history>>

-----------------------------------------------------------------------------
(***************************************************************************)
(* The call to Gemini.                                                     *)
(***************************************************************************)
\* The reservation is complete and the call leaves.
Leaves(r) ==
    LET q == request[r]
        w == Workload(q.kind)
    IN
    /\ At(r, "alert") /\ q.todo = {}
    /\ minuteCalls' = [minuteCalls EXCEPT
          ![MinuteOf(q.stamp)][w] = IF q.inMinute THEN @ + 1 ELSE @]
    /\ dayCalls' = [dayCalls EXCEPT ![DayOf(q.stamp)][w] = IF q.inDay THEN @ + 1 ELSE @]
    /\ UNCHANGED <<config, now, quota, alarms, faults>>

\* The structured data of the CV, or text that is none.
GeminiParses(r) ==
    /\ Leaves(r) /\ Is(r, {"parse"})
    /\ End(r, "answered") \/ End(r, "failed")

GeminiChats(r) ==
    /\ Leaves(r) /\ Is(r, {"chat"})
    /\ End(r, "answered") \/ End(r, "failed")

\* The first turn of a stream answers, or calls the tool and asks for a
\* second one, which is a call of its own and can break off.
GeminiStreams(r) ==
    /\ Leaves(r) /\ Is(r, {"stream"})
    /\ \/ End(r, "answered")
       \/ /\ request[r].turn = 1
          /\ Becomes(r, Reserving([Idle EXCEPT !.kind = "stream", !.turn = 2]))
       \/ /\ request[r].turn = 2
          /\ End(r, "failed")

GeminiSummarizes(r) ==
    /\ Leaves(r) /\ Is(r, {"summary"})
    /\ End(r, "answered")

\* An error of the call: a rate limit is retried, any other ends the request,
\* a summary with its default text.
GivenUp(r) == End(r, IF Is(r, {"summary"}) THEN "answered" ELSE "failed")

\* Mutant: only the call is repeated, under the reservation it has.
RateLimitedRepeats(r) ==
    /\ Leaves(r)
    /\ IF request[r].attempt < MaxRetries
       THEN Becomes(r, [request[r] EXCEPT !.attempt = @ + 1])
       ELSE GivenUp(r)

RateLimited(r) ==
    /\ Leaves(r)
    /\ IF request[r].attempt < MaxRetries
       THEN Becomes(r, [request[r] EXCEPT !.pc = "sleep", !.stamp = 0,
                                          !.inMinute = FALSE, !.inDay = FALSE])
       ELSE GivenUp(r)

GeminiFails(r) ==
    /\ Leaves(r)
    /\ GivenUp(r)

\* The delay is over and the call is made anew, with a reservation of its own.
Retry(r) ==
    /\ At(r, "sleep")
    /\ Becomes(r, Reserving([request[r] EXCEPT !.attempt = @ + 1]))
    /\ UNCHANGED <<config, now, quota, history, faults>>

\* A parse that was denied is queued to run when the denial said.
Resubmit(r) ==
    /\ At(r, "denied") /\ Is(r, {"parse"})
    /\ now >= request[r].retryAt
    /\ Becomes(r, Reserving([Idle EXCEPT !.kind = "parse", !.denial = request[r].denial]))
    /\ UNCHANGED <<config, now, quota, history, faults>>

\* Redis drops the keys whose lifetime has passed.
NoKey == [count |-> 0, until |-> 0]
Expired(key) == IF now + 1 < key.until THEN key ELSE NoKey

Tick ==
    /\ now < MaxTime
    /\ now' = now + 1
    /\ minuteKeys' = [m \in Minutes |-> Expired(minuteKeys[m])]
    /\ dayKeys' = [d \in Days |-> Expired(dayKeys[d])]
    /\ alertKeys' = [d \in Days |-> [t \in Thresholds |->
          IF now' < alertKeys[d][t] THEN alertKeys[d][t] ELSE 0]]
    /\ UNCHANGED <<config, request, history, faults>>

-----------------------------------------------------------------------------
Init ==
    /\ config \in Deployments
    /\ now = 0
    /\ minuteKeys = [m \in Minutes |-> NoKey]
    /\ dayKeys = [d \in Days |-> NoKey]
    /\ alertKeys = [d \in Days |-> [t \in Thresholds |-> 0]]
    /\ request = [r \in Requests |-> Idle]
    /\ minuteCalls = [m \in Minutes |-> [w \in Workloads |-> 0]]
    /\ dayCalls = [d \in Days |-> [w \in Workloads |-> 0]]
    /\ alarms = [d \in Days |-> [t \in Thresholds |-> 0]]
    /\ faults = 0

Begin(r) == ParseCV(r) \/ GenerateChat(r) \/ StreamChat(r) \/ SummarizeConversation(r)

Groq(r) == GroqChats(r) \/ GroqStreams(r) \/ GroqSummarizes(r) \/ GroqFails(r)

Gemini(r) ==
    \/ Deny(r) \/ Reserve(r) \/ RaiseAlert(r)
    \/ GeminiParses(r) \/ GeminiChats(r) \/ GeminiStreams(r) \/ GeminiSummarizes(r)
    \/ RateLimited(r) \/ GeminiFails(r) \/ Retry(r)

Next ==
    \/ Tick
    \/ \E r \in Requests :
          Begin(r) \/ Groq(r) \/ Gemini(r) \/ ReplyLost(r) \/ RedisFails(r) \/ Resubmit(r)

Spec == Init /\ [][Next]_vars

-----------------------------------------------------------------------------
Request ==
    [kind : Kinds \cup {None},
     pc : {"idle", "groq", "script", "alert", "sleep"} \cup Ended,
     turn : {1, 2}, attempt : 0 .. MaxRetries, stamp : 0 .. MaxTime,
     inMinute : BOOLEAN, inDay : BOOLEAN, todo : SUBSET Thresholds,
     denial : {None} \cup ({"minute"} \X Minutes) \cup ({"day"} \X Days),
     retryAt : Nat]

Key == [count : Nat, until : Nat]

\* Every variable keeps its type: no request retries more often than it may.
TypeOK ==
    /\ config \in Deployments
    /\ now \in 0 .. MaxTime
    /\ minuteKeys \in [Minutes -> Key]
    /\ dayKeys \in [Days -> Key]
    /\ alertKeys \in [Days -> [Thresholds -> Nat]]
    /\ request \in [Requests -> Request]
    /\ minuteCalls \in [Minutes -> [Workloads -> Nat]]
    /\ dayCalls \in [Days -> [Workloads -> Nat]]
    /\ alarms \in [Days -> [Thresholds -> Nat]]
    /\ faults \in 0 .. MaxFaults

\* The calls of the workloads in W among those counted by f.
SumOver(f, W) ==
    (IF "parse" \in W THEN f["parse"] ELSE 0)
    + (IF "chat-fallback" \in W THEN f["chat-fallback"] ELSE 0)
    + (IF "summary" \in W THEN f["summary"] ELSE 0)

\* The calls of f leave to every workload what its reserve promises it: all
\* the workloads with at least the reserve of w stay below the limit by that
\* reserve.
LeavesReserve(f, limit, reserve) ==
    \A w \in Workloads :
        LET W == {v \in Workloads : reserve[v] >= reserve[w]} IN
        SumOver(f, W) <= IF limit > reserve[w] THEN limit - reserve[w] ELSE 0

\* Of the calls to Gemini that reserved their unit within the minute (the day)
\* their key names, retries and second turns included, no more are made than
\* the limit, and the workloads that must leave a reserve leave it
\* (gemini-quota.service.ts RESERVE_REQUEST_LUA, gemini.service.ts
\* makeRequestWithRetry).  Reservations whose script runs later are not
\* covered: they count on a key of their own.
ReservesHold ==
    /\ \A m \in Minutes : LeavesReserve(minuteCalls[m], MinuteLimit, MinuteReserve)
    /\ \A d \in Days : LeavesReserve(dayCalls[d], DayLimit, DayReserve)

\* A parse that waits as long as its denial said is not denied for the same
\* window again (retryAfterMs, scheduleParseResumeRetry).
WaitedDenialIsOver ==
    [][\A r \in Requests :
          (request[r].pc = "script" /\ request'[r].pc = "denied")
              => request'[r].denial # request[r].denial]_vars

\* A threshold of a day raises one alarm for the reservations of that day,
\* however many requests cross it (logThresholdCrossings).
AlarmOnce == \A d \in Days, t \in Thresholds : alarms[d][t] <= 1
=============================================================================
