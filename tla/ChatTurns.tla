----------------------------- MODULE ChatTurns -----------------------------
(***************************************************************************)
(* One user's requests to the chat assistant: messages answered at once or *)
(* as a stream, sessions that are opened, cleared and archived when they   *)
(* grow too long, and the daily quota that is charged for an answer.       *)
(*                                                                         *)
(* Requests overlap freely; every awaited call that reads or writes shared *)
(* state is a step.  The model's answers and the question whether a cached *)
(* answer exists are nondeterministic.  Session recency is left out: the   *)
(* latest active session is some active session.                           *)
(***************************************************************************)
EXTENDS Integers, FiniteSets

CONSTANTS
    Requests,       \* the user's requests
    Sessions,       \* bound: the sessions that can be created
    Limit,          \* answers a day
    MaxLength,      \* messages a session holds before it is archived
    CarryOver,      \* messages an archived session passes on
    MaxDays,        \* bound: days
    MaxFaults,      \* bound: calls that fail and crashes
    MaxRunning,     \* bound: requests that overlap at a time
    None

Kinds == {"message", "create", "clear"}

ASSUME SizeAssumption ==
    /\ Limit \in Nat \ {0} /\ MaxLength \in Nat \ {0} /\ CarryOver \in Nat \ {0}
    /\ MaxDays \in Nat \ {0} /\ MaxFaults \in Nat /\ MaxRunning \in Nat
ASSUME RequestAssumption ==
    IsFiniteSet(Requests) /\ None \notin Requests \cup Sessions \cup Nat

VARIABLES
    session,        \* per session: unused, active or closed
    messages,       \* per session: its messages
    cachedId,       \* the cached id of the user's active session
    day,            \* the quota's day
    used,           \* the counter under the day's key
    turn,           \* per request: where its handler is
    met,            \* history: pairs of requests that overlapped
    cleared,        \* history: sessions the user closed
    excused,        \* history: requests whose failing call was swallowed
    latest,         \* history: the request that stored the latest answer
    faults          \* bound: failures so far

vars == <<session, messages, cachedId, day, used, turn, met, cleared, excused,
          latest, faults>>

history == <<met, cleared, excused>>

-----------------------------------------------------------------------------
Idle == [kind |-> "none", pc |-> "idle", s |-> None, count |-> 0,
         key |-> None, consumed |-> FALSE, emitted |-> FALSE, free |-> FALSE,
         carry |-> {}, new |-> None, closed |-> {}]

Done == {"ok", "failed", "died"}

At(t, pc) == turn[t].pc = pc
Running(t) == turn[t].pc \notin {"idle"} \cup Done
Closed == {s \in Sessions : session[s] = "closed"}
Active == {s \in Sessions : session[s] = "active"}

Becomes(t, r) == turn' = [turn EXCEPT ![t] = r]

Goto(t, pc) == Becomes(t, [turn[t] EXCEPT !.pc = pc])
Bind(t, s, pc) == Becomes(t, [turn[t] EXCEPT !.s = s, !.pc = pc])

\* What a request that has ended leaves behind.
Ended(r, pc) ==
    [Idle EXCEPT !.kind = r.kind, !.pc = pc, !.key = r.key, !.consumed = r.consumed,
                 !.emitted = r.emitted, !.free = r.free]

End(t, pc) == Becomes(t, Ended(turn[t], pc))

\* A new active session.
Opens(s) == session[s] = "unused" /\ session' = [session EXCEPT ![s] = "active"]

Fault == faults < MaxFaults /\ faults' = faults + 1

\* Mutant: the archive passes on the messages that sort first.
FirstMessages(s, n) ==
    {c \in SUBSET messages[s] :
        /\ Cardinality(c) = n \/ (c = messages[s] /\ Cardinality(c) < n)
        /\ \A m \in c, o \in messages[s] \ c : o.seq >= m.seq}

\* The n messages of a session that sort last; equal numbers in any order.
LastMessages(s, n) ==
    {c \in SUBSET messages[s] :
        /\ Cardinality(c) = n \/ (c = messages[s] /\ Cardinality(c) < n)
        /\ \A m \in c, o \in messages[s] \ c : o.seq <= m.seq}

Init ==
    /\ session = [s \in Sessions |-> "unused"]
    /\ messages = [s \in Sessions |-> {}]
    /\ cachedId = None
    /\ day = 0 /\ used = 0
    /\ turn = [t \in Requests |-> Idle]
    /\ met = {} /\ cleared = {} /\ excused = {}
    /\ latest = None
    /\ faults = 0

-----------------------------------------------------------------------------
(* A request arrives and finds its session                                 *)

Arrives(t, kind, s, pc) ==
    /\ At(t, "idle")
    /\ Cardinality({v \in Requests : Running(v)}) < MaxRunning
    /\ Becomes(t, [Idle EXCEPT !.kind = kind, !.pc = pc, !.s = s, !.closed = Closed])
    /\ met' = met \cup {{t, u} : u \in {v \in Requests : Running(v)}}
    /\ UNCHANGED <<session, messages, cachedId, day, used, cleared, excused, latest, faults>>

\* A message to the current session starts from the cached id.
StartMessage(t) ==
    Arrives(t, "message", cachedId, IF cachedId = None THEN "latest" ELSE "check")

\* A message to a named session starts from getOwnedSession: it must be active.
StartNamed(t, s) ==
    /\ session[s] # "unused"
    /\ Arrives(t, "message", s, IF s \in Active THEN "ready" ELSE "fail")

StartCreate(t) == Arrives(t, "create", None, "create")

StartClear(t) == Arrives(t, "clear", None, "clear")

\* Mutant: the cached id is trusted.
CheckCachedTrusting(t) ==
    /\ At(t, "check")
    /\ Goto(t, "ready")
    /\ UNCHANGED <<session, messages, cachedId, day, used, history, latest, faults>>

\* The cached id must name an active session.
CheckCached(t) ==
    /\ At(t, "check")
    /\ Goto(t, IF turn[t].s \in Active THEN "ready" ELSE "uncache")
    /\ UNCHANGED <<session, messages, cachedId, day, used, history, latest, faults>>

\* It is dropped when it does not, whoever has cached another one since.
DropCached(t) ==
    /\ At(t, "uncache")
    /\ cachedId' = None
    /\ Goto(t, "latest")
    /\ UNCHANGED <<session, messages, day, used, history, latest, faults>>

\* Otherwise the latest active session is taken, or a new one created ...
FindLatest(t) ==
    /\ At(t, "latest")
    /\ \/ Active = {} /\ Goto(t, "create")
       \/ \E s \in Active : Bind(t, s, "remember")
    /\ UNCHANGED <<session, messages, cachedId, day, used, history, latest, faults>>

CreateSession(t, s) ==
    /\ At(t, "create")
    /\ Opens(s)
    /\ Bind(t, s, "remember")
    /\ UNCHANGED <<messages, cachedId, day, used, history, latest, faults>>

\* ... and cached when the reply has come, by then perhaps closed.
RememberSession(t) ==
    /\ At(t, "remember")
    /\ cachedId' = turn[t].s
    /\ IF turn[t].kind = "create" THEN End(t, "ok") ELSE Goto(t, "ready")
    /\ UNCHANGED <<session, messages, day, used, history, latest, faults>>

\* clearConversation takes the latest session and clearSession a named one,
\* active or not.  Finding it and closing it is one step: what happens between
\* the two only closes it earlier.
Clear(t, s) ==
    /\ At(t, "clear")
    /\ s \in Active \cup Closed
    /\ session' = [session EXCEPT ![s] = "closed"]
    /\ cleared' = cleared \cup {s}
    /\ Goto(t, "forget")
    /\ UNCHANGED <<messages, cachedId, day, used, met, excused, latest, faults>>

ClearNothing(t) ==
    /\ At(t, "clear") /\ Active = {}
    /\ End(t, "ok")
    /\ UNCHANGED <<session, messages, cachedId, day, used, history, latest, faults>>

ClearForget(t) ==
    /\ At(t, "forget")
    /\ cachedId' = None
    /\ End(t, "ok")
    /\ UNCHANGED <<session, messages, day, used, history, latest, faults>>

-----------------------------------------------------------------------------
(* The answer: reading intent, context and history changes nothing and is  *)
(* part of the step that follows                                           *)

\* Mutant: the user's messages are counted alone.
CountedQuestions(t) ==
    [turn[t] EXCEPT !.count = Cardinality({m \in messages[turn[t].s] : m.role = "user"}),
                    !.pc = "insert"]

Counted(t) == [turn[t] EXCEPT !.count = Cardinality(messages[turn[t].s]), !.pc = "insert"]

\* A cached answer needs no quota.
AnswerFromCache(t) ==
    /\ At(t, "ready")
    /\ Becomes(t, [Counted(t) EXCEPT !.free = TRUE])
    /\ UNCHANGED <<session, messages, cachedId, day, used, history, latest, faults>>

\* The script compares and increments in one go.
Reserve(t) ==
    /\ At(t, "ready")
    /\ IF used < Limit
       THEN /\ used' = used + 1
            /\ Becomes(t, [turn[t] EXCEPT !.pc = "model", !.key = day, !.consumed = TRUE])
       ELSE Goto(t, "fail") /\ UNCHANGED used
    /\ UNCHANGED <<session, messages, cachedId, day, history, latest, faults>>

\* Without its store the quota lets the request pass.
ReserveUnavailable(t) ==
    /\ At(t, "ready")
    /\ Fault
    /\ Becomes(t, [turn[t] EXCEPT !.pc = "model", !.free = TRUE])
    /\ UNCHANGED <<session, messages, cachedId, day, used, history, latest>>

\* The request is a stream, and its first token has left.
StreamToken(t) ==
    /\ At(t, "model") /\ ~turn[t].emitted
    /\ Becomes(t, [turn[t] EXCEPT !.emitted = TRUE])
    /\ UNCHANGED <<session, messages, cachedId, day, used, history, latest, faults>>

\* No provider answers, with the fallback tried.
ModelFails(t) ==
    /\ At(t, "model")
    /\ Goto(t, "fail")
    /\ UNCHANGED <<session, messages, cachedId, day, used, history, latest, faults>>

-----------------------------------------------------------------------------
(* persistMessageTurn and archiveLongSession                               *)

Count(t) ==
    /\ At(t, "model")
    /\ Becomes(t, Counted(t))
    /\ UNCHANGED <<session, messages, cachedId, day, used, history, latest, faults>>

StoreAnswer(t) ==
    /\ messages' = [messages EXCEPT ![turn[t].s] = @ \cup
          {[turn |-> t, role |-> "user", seq |-> turn[t].count + 1, by |-> t],
           [turn |-> t, role |-> "assistant", seq |-> turn[t].count + 2, by |-> t]}]
    /\ latest' = t
    /\ UNCHANGED <<session, cachedId, day, used, history>>

Insert(t) ==
    /\ At(t, "insert")
    /\ StoreAnswer(t)
    /\ IF turn[t].count + 2 > MaxLength THEN Goto(t, "archive") ELSE End(t, "ok")
    /\ UNCHANGED faults

\* The messages are stored, but the session's date and title are not.
TouchFails(t) ==
    /\ At(t, "insert")
    /\ Fault
    /\ StoreAnswer(t)
    /\ Goto(t, "fail")

ArchiveClose(t) ==
    /\ At(t, "archive")
    /\ session' = [session EXCEPT ![turn[t].s] = "closed"]
    /\ Goto(t, "carry")
    /\ UNCHANGED <<messages, cachedId, day, used, history, latest, faults>>

ArchiveCarry(t) ==
    /\ At(t, "carry")
    /\ \E c \in LastMessages(turn[t].s, CarryOver) :
          Becomes(t, [turn[t] EXCEPT !.carry = c, !.pc = "open"])
    /\ UNCHANGED <<session, messages, cachedId, day, used, history, latest, faults>>

ArchiveOpen(t, s) ==
    /\ At(t, "open")
    /\ Opens(s)
    /\ Becomes(t, [turn[t] EXCEPT !.new = s, !.pc = "copy"])
    /\ UNCHANGED <<messages, cachedId, day, used, history, latest, faults>>

\* The copies are numbered from 1 in the order of the originals.
Renumbered(c) ==
    {f \in [c -> 1..Cardinality(c)] :
        /\ \A m, o \in c : m # o => f[m] # f[o]
        /\ \A m, o \in c : m.seq < o.seq => f[m] < f[o]}

ArchiveCopy(t) ==
    /\ At(t, "copy")
    /\ \E f \in Renumbered(turn[t].carry) :
          messages' = [messages EXCEPT ![turn[t].new] = @ \cup
              {[m EXCEPT !.seq = f[m], !.by = t] : m \in turn[t].carry}]
    /\ Goto(t, "recall")
    /\ UNCHANGED <<session, cachedId, day, used, history, latest, faults>>

ArchiveRecall(t) ==
    /\ At(t, "recall")
    /\ cachedId' = turn[t].new
    /\ End(t, "ok")
    /\ UNCHANGED <<session, messages, day, used, history, latest, faults>>

\* An archive that fails half way is logged; the request succeeds.
ArchiveFails(t) ==
    /\ turn[t].pc \in {"archive", "carry", "open", "copy"}
    /\ Fault
    /\ excused' = excused \cup {t}
    /\ End(t, "ok")
    /\ UNCHANGED <<session, messages, cachedId, day, used, met, cleared, latest>>

-----------------------------------------------------------------------------
(* Failure                                                                 *)

CallFails(t) ==
    /\ turn[t].pc \in {"check", "latest", "create", "clear", "ready", "insert"}
    /\ Fault
    /\ Goto(t, "fail")
    /\ UNCHANGED <<session, messages, cachedId, day, used, history, latest>>

\* Mutant: a stream is refunded whatever it has shown.
RefundedAlways(t) == turn[t].consumed

Refunded(t) == turn[t].consumed /\ ~turn[t].emitted

\* Mutant: the key is built anew when the charge is given back.
FailRekeyed(t) ==
    /\ At(t, "fail")
    /\ Becomes(t, [Ended(turn[t], "failed") EXCEPT !.consumed = @ /\ ~Refunded(t)])
    /\ used' = IF Refunded(t) /\ used > 0 THEN used - 1 ELSE used
    /\ UNCHANGED <<session, messages, cachedId, day, history, latest, faults>>

\* The charge is given back under the key it was made under, which may have
\* expired.
Fail(t) ==
    /\ At(t, "fail")
    /\ Becomes(t, [Ended(turn[t], "failed") EXCEPT !.consumed = @ /\ ~Refunded(t)])
    /\ used' = IF Refunded(t) /\ turn[t].key = day /\ used > 0 THEN used - 1 ELSE used
    /\ UNCHANGED <<session, messages, cachedId, day, history, latest, faults>>

\* A rollback that fails is logged.
FailKeepsCharge(t) ==
    /\ At(t, "fail") /\ Refunded(t)
    /\ Fault
    /\ excused' = excused \cup {t}
    /\ End(t, "failed")
    /\ UNCHANGED <<session, messages, cachedId, day, used, met, cleared, latest>>

\* The process dies with its cache and the requests it was handling.
Crash ==
    /\ Fault
    /\ cachedId' = None
    /\ turn' = [t \in Requests |->
         IF Running(t) THEN Ended(turn[t], "died") ELSE turn[t]]
    /\ excused' = excused \cup {t \in Requests : Running(t)}
    /\ UNCHANGED <<session, messages, day, used, met, cleared, latest>>

\* Midnight in the quota's time zone: the key changes and the old one expires.
\* Days without a charge are not told apart.
NewDay ==
    /\ used > 0 /\ day < MaxDays - 1
    /\ day' = day + 1
    /\ used' = 0
    /\ UNCHANGED <<session, messages, cachedId, turn, history, latest, faults>>

-----------------------------------------------------------------------------
Start(t) ==
    \/ StartMessage(t) \/ StartCreate(t) \/ StartClear(t)
    \/ \E s \in Sessions : StartNamed(t, s)

Find(t) ==
    \/ CheckCached(t) \/ DropCached(t) \/ FindLatest(t) \/ RememberSession(t)
    \/ ClearNothing(t) \/ ClearForget(t)
    \/ \E s \in Sessions : CreateSession(t, s) \/ Clear(t, s)

Answer(t) ==
    \/ AnswerFromCache(t) \/ Reserve(t) \/ ReserveUnavailable(t)
    \/ StreamToken(t) \/ ModelFails(t)

Persist(t) ==
    \/ Count(t) \/ Insert(t) \/ TouchFails(t)
    \/ ArchiveClose(t) \/ ArchiveCarry(t) \/ ArchiveCopy(t) \/ ArchiveRecall(t)
    \/ ArchiveFails(t)
    \/ \E s \in Sessions : ArchiveOpen(t, s)

Failure(t) == CallFails(t) \/ Fail(t) \/ FailKeepsCharge(t)

Next ==
    \/ \E t \in Requests : Start(t) \/ Find(t) \/ Answer(t) \/ Persist(t) \/ Failure(t)
    \/ Crash \/ NewDay

Spec == Init /\ [][Next]_vars

-----------------------------------------------------------------------------
(* Properties                                                              *)

MessageType ==
    [turn : Requests, role : {"user", "assistant"}, seq : Nat \ {0}, by : Requests]

Pcs == {"idle", "check", "uncache", "latest", "create", "remember", "clear", "forget",
        "ready", "model", "insert", "archive", "carry", "open", "copy", "recall", "fail"} \cup Done

TurnType ==
    [kind : Kinds \cup {"none"}, pc : Pcs, s : Sessions \cup {None}, count : Nat,
     key : Nat \cup {None}, consumed : BOOLEAN, emitted : BOOLEAN,
     free : BOOLEAN, carry : SUBSET MessageType, new : Sessions \cup {None},
     closed : SUBSET Sessions]

TypeOK ==
    /\ session \in [Sessions -> {"unused", "active", "closed"}]
    /\ messages \in [Sessions -> SUBSET MessageType]
    /\ \A s \in Sessions : IsFiniteSet(messages[s])
    /\ cachedId \in Sessions \cup {None}
    /\ day \in 0..(MaxDays - 1) /\ used \in 0..Limit
    /\ turn \in [Requests -> TurnType]
    /\ \A t \in Requests : IsFiniteSet(turn[t].carry)
    /\ met \subseteq SUBSET Requests
    /\ cleared \subseteq Sessions /\ excused \subseteq Requests
    /\ latest \in Requests \cup {None}
    /\ faults \in 0..MaxFaults

\* The counter stands for the requests charged today.
Charged == {t \in Requests : turn[t].consumed /\ turn[t].key = day}

Quota == INSTANCE Allowance WITH Consumers <- Requests, holders <- Charged

\* Charges, refunds, midnights and crashes in any order are those of a plain
\* daily allowance: no refund of yesterday's charge adds to today's units.
QuotaIsAnAllowance == Quota!Spec

Stored(t, s) == \E m \in messages[s] : m.turn = t /\ m.role = "assistant"

\* A request is charged exactly for what it delivered: one that succeeded with
\* the model's answer stays charged, one that failed is refunded unless its
\* stream had begun, but for a refund that failed or a store that was down.
ChargeSettles ==
    \A t \in Requests :
        /\ At(t, "ok") /\ turn[t].kind = "message" => turn[t].consumed \/ turn[t].free
        /\ At(t, "failed") /\ t \notin excused =>
             (turn[t].consumed <=> turn[t].key # None /\ turn[t].emitted)

\* The number of a message identifies it in its session, so that the history
\* reads in order, unless the requests that wrote the two overlapped.
NumbersIdentifyMessages ==
    \A s \in Sessions : \A m, o \in messages[s] :
        m.seq = o.seq /\ m # o => {m.by, o.by} \in met

\* A session that was closed when a request arrived takes no message of it:
\* no stale cached id brings a cleared or archived session back.
ClosedTakesNothing ==
    [][\A t \in Requests : \A s \in turn[t].closed :
          \A m \in messages'[s] : m \in messages[s] \/ m.by # t]_vars

\* With no request running the latest answer is in a session the user can
\* continue, whatever was archived, unless the user cleared that session, its
\* request overlapped another one or its archive failed.
AnswersStayInReach ==
    latest # None /\ (\A t \in Requests : ~Running(t)) =>
        \/ \E s \in Active : Stored(latest, s)
        \/ \E s \in cleared : Stored(latest, s)
        \/ latest \in excused \/ \E p \in met : latest \in p
=============================================================================
