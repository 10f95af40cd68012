-------------------------- MODULE AiGatewayProofs --------------------------
(***************************************************************************)
(* Theorems about AiGateway: its types, the reserves of the workloads, the *)
(* alarms of a day, and denials that have been waited out.                 *)
(***************************************************************************)
EXTENDS AiGateway, FiniteSetTheorems, TLAPS

-----------------------------------------------------------------------------
(* Windows of time                                                         *)

LEMMA Division ==
    ASSUME NEW t \in Nat, NEW K \in Nat \ {0}
    PROVE  t \div K \in Nat /\ (t \div K) * K <= t /\ t < (t \div K + 1) * K
OBVIOUS

LEMMA Cancels ==
    ASSUME NEW a \in Int, NEW b \in Int, NEW K \in Nat \ {0}, a * K < b * K
    PROVE  a < b
OBVIOUS

LEMMA Multiplies ==
    ASSUME NEW a \in Nat, NEW b \in Nat
    PROVE  a * b \in Nat
OBVIOUS

LEMMA LaterWindow ==
    ASSUME NEW t \in Nat, NEW K \in Nat \ {0}, NEW w \in Nat, w * K <= t
    PROVE  w <= t \div K
<1> DEFINE q == t \div K
<1>1. q \in Nat /\ t < (q + 1) * K
  BY Division
<1> HIDE DEF q
<1>2. w * K \in Nat /\ (q + 1) * K \in Nat
  BY <1>1, Multiplies
<1>3. w * K < (q + 1) * K
  BY <1>1, <1>2
<1>4. w < q + 1
  BY <1>1, <1>3, Cancels
<1> QED
  BY <1>1, <1>4 DEF q

LEMMA WindowsGrow ==
    ASSUME NEW t \in Nat, NEW u \in Nat, NEW K \in Nat \ {0}, t <= u
    PROVE  t \div K <= u \div K
<1> DEFINE q == t \div K
<1>1. q \in Nat /\ q * K <= t
  BY Division
<1> HIDE DEF q
<1>2. q * K \in Nat
  BY <1>1, Multiplies
<1>3. q * K <= u
  BY <1>1, <1>2
<1> QED
  BY <1>1, <1>3, LaterWindow DEF q

\* The two windows the quota counts in.
Scopes == {"minute", "day"}
Width(scope) == IF scope = "minute" THEN MinuteTicks ELSE MinuteTicks * DayMinutes
WindowOf(scope, t) == t \div Width(scope)
Windows(scope) == 0 .. WindowOf(scope, MaxTime)
EndOf(scope, w) == (w + 1) * Width(scope)
Rest(scope, t) == EndOf(scope, WindowOf(scope, t)) - t

LEMMA WidthType ==
    ASSUME NEW scope \in Scopes
    PROVE  Width(scope) \in Nat \ {0}
<1>1. \A a, b \in Nat \ {0} : a * b \in Nat \ {0}
  OBVIOUS
<1> QED
  BY <1>1, ClockAssumption DEF Width, Scopes

LEMMA ScopesNamed ==
    /\ \A t : /\ WindowOf("minute", t) = MinuteOf(t) /\ WindowOf("day", t) = DayOf(t)
              /\ Rest("minute", t) = RestOfMinute(t)
    /\ Windows("minute") = Minutes /\ Windows("day") = Days
<1>1. Width("minute") = MinuteTicks /\ Width("day") = MinuteTicks * DayMinutes
  BY DEF Width
<1> QED
  BY <1>1 DEF WindowOf, MinuteOf, DayOf, Rest, RestOfMinute, EndOf, Windows, Minutes, Days

LEMMA RestOfDayNamed ==
    ASSUME NEW t \in 0 .. MaxTime
    PROVE  Rest("day", t) = RestOfDay(t)
<1>1. Width("day") = MinuteTicks * DayMinutes
  BY DEF Width
<1>2. DayOf(t) \in Nat
  BY <1>1, WidthType, Division, ClockAssumption DEF DayOf, Scopes
<1>3. \A a, b, c \in Nat : (a * b) * c = a * b * c /\ a * (b * c) = a * b * c
  OBVIOUS
<1>4. (DayOf(t) + 1) * (MinuteTicks * DayMinutes) = (DayOf(t) + 1) * MinuteTicks * DayMinutes
  BY <1>2, <1>3, ClockAssumption
<1> QED
  BY <1>1, <1>4 DEF Rest, RestOfDay, EndOf, WindowOf, DayOf

LEMMA WindowFacts ==
    ASSUME NEW scope \in Scopes, NEW t \in 0 .. MaxTime
    PROVE  /\ WindowOf(scope, t) \in Windows(scope) /\ WindowOf(scope, t) \in Nat
           /\ EndOf(scope, WindowOf(scope, t)) \in Nat
           /\ t < EndOf(scope, WindowOf(scope, t))
           /\ Rest(scope, t) \in Nat \ {0}
           /\ t + Rest(scope, t) = EndOf(scope, WindowOf(scope, t))
<1> DEFINE K == Width(scope)
           q == WindowOf(scope, t)
<1>0. t \in Nat /\ MaxTime \in Nat /\ t <= MaxTime
  BY ClockAssumption
<1>1. K \in Nat \ {0}
  BY WidthType
<1>2. q \in Nat /\ t < EndOf(scope, q)
  BY <1>0, <1>1, Division DEF WindowOf, EndOf
<1>3. q <= WindowOf(scope, MaxTime) /\ WindowOf(scope, MaxTime) \in Nat
  BY <1>0, <1>1, WindowsGrow, Division DEF WindowOf
<1>4. EndOf(scope, q) \in Nat
  BY <1>1, <1>2, Multiplies DEF EndOf
<1> QED
  BY <1>0, <1>2, <1>3, <1>4 DEF Windows, Rest

LEMMA EndType ==
    ASSUME NEW scope \in Scopes, NEW w \in Nat
    PROVE  EndOf(scope, w) \in Nat
BY WidthType, Multiplies DEF EndOf

\* A time beyond a window's end is in a later window.
LEMMA BeyondEnd ==
    ASSUME NEW scope \in Scopes, NEW t \in 0 .. MaxTime, NEW w \in Nat, EndOf(scope, w) <= t
    PROVE  w < WindowOf(scope, t)
<1>1. w + 1 <= WindowOf(scope, t)
  BY LaterWindow, WidthType, ClockAssumption DEF EndOf, WindowOf
<1> QED
  BY <1>1, WindowFacts

-----------------------------------------------------------------------------
(* Types                                                                   *)

LEMMA IdleTyped ==
    /\ Idle \in Request
    /\ Idle.kind = None /\ Idle.pc = "idle" /\ Idle.stamp = 0 /\ Idle.denial = None
    /\ Idle.turn = 1 /\ Idle.attempt = 0
<1>1. 0 \in 0 .. MaxTime /\ 0 \in 0 .. MaxRetries
  BY ClockAssumption
<1>2. Idle \in Request
  BY <1>1 DEF Idle, Request, Ended
<1> QED
  BY <1>2 DEF Idle

LEMMA TimeTyped ==
    /\ \A t \in 0 .. MaxTime : MinuteOf(t) \in Minutes /\ DayOf(t) \in Days
    /\ \A t \in 0 .. MaxTime : RestOfMinute(t) \in Nat \ {0} /\ RestOfDay(t) \in Nat \ {0}
    /\ \A m \in Minutes : m \in Nat
    /\ \A d \in Days : d \in Nat
<1>1. \A t \in 0 .. MaxTime : MinuteOf(t) \in Minutes /\ RestOfMinute(t) \in Nat \ {0}
  <2> SUFFICES ASSUME NEW t \in 0 .. MaxTime
               PROVE  MinuteOf(t) \in Minutes /\ RestOfMinute(t) \in Nat \ {0}
    OBVIOUS
  <2>1. "minute" \in Scopes
    BY DEF Scopes
  <2> QED
    BY <2>1, WindowFacts, ScopesNamed
<1>2. \A t \in 0 .. MaxTime : DayOf(t) \in Days /\ RestOfDay(t) \in Nat \ {0}
  <2> SUFFICES ASSUME NEW t \in 0 .. MaxTime
               PROVE  DayOf(t) \in Days /\ RestOfDay(t) \in Nat \ {0}
    OBVIOUS
  <2>1. "day" \in Scopes
    BY DEF Scopes
  <2> QED
    BY <2>1, WindowFacts, ScopesNamed, RestOfDayNamed
<1> QED
  BY <1>1, <1>2 DEF Minutes, Days

LEMMA RequestBecomes ==
    ASSUME TypeOK, NEW r \in Requests, NEW q \in Request, Becomes(r, q)
    PROVE  /\ request' \in [Requests -> Request]
           /\ request'[r] = q
           /\ \A x \in Requests \ {r} : request'[x] = request[x]
BY DEF TypeOK, Becomes

\* What a request is when it reserves, and when it ends.
LEMMA ReservingTyped ==
    ASSUME now \in 0 .. MaxTime, NEW q \in Request
    PROVE  /\ Reserving(q) \in Request
           /\ Reserving(q).pc = "script" /\ Reserving(q).stamp = now
           /\ Reserving(q).denial = q.denial
BY DEF Reserving, Request

LEMMA FreshTyped ==
    ASSUME now \in 0 .. MaxTime, NEW kind \in Kinds \cup {None}, NEW turn \in {1, 2}
    PROVE  /\ [Idle EXCEPT !.kind = kind] \in Request
           /\ [Idle EXCEPT !.kind = kind].denial = None
           /\ [Idle EXCEPT !.kind = kind, !.turn = turn] \in Request
           /\ [Idle EXCEPT !.kind = kind, !.turn = turn].denial = None
BY IdleTyped DEF Request

LEMMA EndedTyped ==
    ASSUME NEW pc \in Ended
    PROVE  /\ [Idle EXCEPT !.pc = pc] \in Request
           /\ [Idle EXCEPT !.pc = pc].pc = pc
           /\ [Idle EXCEPT !.pc = pc].stamp = 0
           /\ [Idle EXCEPT !.pc = pc].denial = None
BY IdleTyped DEF Request, Ended

-----------------------------------------------------------------------------
(* A request: when its reservation started, and the denial it has had.     *)

\* The denial's window is over, or will be when it lets the request come back.
Waits(q) ==
    LET end == EndOf(q.denial[1], q.denial[2]) IN
    IF q.pc = "denied" THEN q.retryAt >= end
    ELSE now >= end /\ (q.pc = "script" => q.stamp >= end)

RecordOK(q) ==
    /\ q.stamp <= now
    /\ q.pc = "sleep" => q.attempt < MaxRetries
    /\ q.denial # None => Waits(q)

RequestsOK == \A r \in Requests : RecordOK(request[r])

KeysOf(scope) == IF scope = "minute" THEN minuteKeys ELSE dayKeys

\* A key that counts lives to the end of its window.
KeysOK ==
    \A scope \in Scopes : \A m \in Windows(scope) :
        KeysOf(scope)[m].until = 0 \/ KeysOf(scope)[m].until >= EndOf(scope, m)

\* The request becomes one of its kind, reserves in no other way than Reserve does, and is
\* not denied for a window it has waited for.
Moves(r) ==
    \E q \in Request :
        /\ RecordOK(q) /\ Becomes(r, q)
        /\ q.pc # "alert" \/ Reserve(r) \/ RaiseAlert(r)
        /\ (request[r].pc = "script" /\ q.pc = "denied") => q.denial # request[r].denial

LEMMA EndMoves ==
    ASSUME TypeOK, NEW r \in Requests, NEW pc \in Ended, End(r, pc), pc # "denied"
    PROVE  Moves(r)
<1> DEFINE q == [Idle EXCEPT !.pc = pc]
<1>1. q \in Request /\ q.pc = pc /\ q.stamp = 0 /\ q.denial = None /\ pc # "alert"
  BY EndedTyped DEF Ended
<1>2. RecordOK(q)
  BY <1>1, ClockAssumption DEF RecordOK, TypeOK, Ended
<1>3. Becomes(r, q)
  BY DEF End
<1> HIDE DEF q
<1> QED
  BY <1>1, <1>2, <1>3 DEF Moves

\* A request that reserves with no denial behind it.
LEMMA FreshMoves ==
    ASSUME TypeOK, NEW r \in Requests, NEW f \in Request, f.denial = None,
           Becomes(r, Reserving(f))
    PROVE  Moves(r)
<1> DEFINE q == Reserving(f)
<1>1. q \in Request /\ q.pc = "script" /\ q.stamp = now /\ q.denial = None
  BY ReservingTyped DEF TypeOK
<1>2. RecordOK(q)
  BY <1>1, ClockAssumption DEF RecordOK, TypeOK
<1> HIDE DEF q
<1> QED
  BY <1>1, <1>2 DEF Moves, q

LEMMA BeginMoves ==
    ASSUME TypeOK, NEW r \in Requests, Begin(r)
    PROVE  Moves(r)
<1>1. ASSUME NEW kind \in Kinds, NEW provider, Becomes(r, FirstStep(kind, provider))
      PROVE  Moves(r)
  <2>1. CASE provider = "groq"
    <3> DEFINE q == [Idle EXCEPT !.kind = kind, !.pc = "groq"]
    <3>1. q \in Request /\ q.pc = "groq" /\ q.stamp = 0 /\ q.denial = None
      BY IdleTyped DEF Request
    <3>2. Becomes(r, q)
      BY <1>1, <2>1 DEF FirstStep
    <3>3. RecordOK(q)
      BY <3>1, ClockAssumption DEF RecordOK, TypeOK
    <3> HIDE DEF q
    <3> QED
      BY <3>1, <3>2, <3>3 DEF Moves
  <2>2. CASE provider # "groq"
    <3>1. Becomes(r, Reserving([Idle EXCEPT !.kind = kind]))
      BY <1>1, <2>2 DEF FirstStep
    <3>2. [Idle EXCEPT !.kind = kind] \in Request /\ [Idle EXCEPT !.kind = kind].denial = None
      BY FreshTyped DEF TypeOK
    <3> QED
      BY <3>1, <3>2, FreshMoves
  <2> QED
    BY <2>1, <2>2
<1>2. CASE ParseCV(r)
  <2>1. [Idle EXCEPT !.kind = "parse"] \in Request
        /\ [Idle EXCEPT !.kind = "parse"].denial = None
    BY FreshTyped DEF TypeOK, Kinds
  <2> QED
    BY <1>2, <2>1, FreshMoves DEF ParseCV
<1>3. CASE GenerateChat(r)
  BY <1>1, <1>3 DEF GenerateChat, Kinds
<1>4. CASE StreamChat(r)
  BY <1>1, <1>4 DEF StreamChat, Kinds
<1>5. CASE SummarizeConversation(r)
  BY <1>1, <1>5 DEF SummarizeConversation, Kinds
<1> QED
  BY <1>2, <1>3, <1>4, <1>5 DEF Begin

LEMMA GroqMoves ==
    ASSUME TypeOK, RequestsOK, NEW r \in Requests, Groq(r)
    PROVE  Moves(r)
<1>0. request[r] \in Request /\ RecordOK(request[r])
  BY DEF TypeOK, RequestsOK
<1>1. ASSUME At(r, "groq"), SecondTurn(r)
      PROVE  Moves(r)
  <2> PICK p \in Request : p = request[r]
    BY <1>0
  <2> DEFINE q == [p EXCEPT !.turn = 2]
  <2>1. /\ q \in Request /\ q.pc = p.pc /\ q.stamp = p.stamp /\ q.denial = p.denial
        /\ q.attempt = p.attempt /\ q.retryAt = p.retryAt
    BY DEF Request
  <2>2. RecordOK(q)
    <3> HIDE DEF q
    <3> QED
      BY <1>0, <2>1 DEF RecordOK, Waits
  <2>3. Becomes(r, q)
    BY <1>1 DEF SecondTurn
  <2>4. p.pc = "groq"
    BY <1>1 DEF At
  <2> HIDE DEF q
  <2> QED
    BY <2>1, <2>2, <2>3, <2>4 DEF Moves
<1>2. ASSUME Structured(r)
      PROVE  Moves(r)
  BY <1>2, EndMoves DEF Structured, Ended
<1>3. CASE GroqChats(r)
  BY <1>1, <1>2, <1>3 DEF GroqChats
<1>4. CASE GroqStreams(r)
  BY <1>1, <1>2, <1>4 DEF GroqStreams
<1>5. CASE GroqSummarizes(r)
  BY <1>5, EndMoves DEF GroqSummarizes, Ended
<1>6. CASE GroqFails(r)
  <2>1. request[r].kind \in Kinds \cup {None}
    BY <1>0 DEF Request
  <2>2. [Idle EXCEPT !.kind = request[r].kind] \in Request
        /\ [Idle EXCEPT !.kind = request[r].kind].denial = None
    BY <2>1, FreshTyped DEF TypeOK
  <2>3. Becomes(r, Reserving([Idle EXCEPT !.kind = request[r].kind])) \/ End(r, "failed")
    BY <1>6 DEF GroqFails
  <2> QED
    BY <2>2, <2>3, FreshMoves, EndMoves DEF Ended
<1> QED
  BY <1>3, <1>4, <1>5, <1>6 DEF Groq

\* A denial says to come back when its window has ended.
LEMMA DenialWaits ==
    ASSUME TypeOK, KeysOK, NEW scope \in Scopes, NEW s \in 0 .. MaxTime, s <= now,
           NEW wait, wait = RetryAfter(KeysOf(scope)[WindowOf(scope, s)], Rest(scope, s))
    PROVE  now + wait \in Nat /\ now + wait >= EndOf(scope, WindowOf(scope, s))
<1> DEFINE m == WindowOf(scope, s)
           key == KeysOf(scope)[m]
<1>1. /\ m \in Windows(scope) /\ EndOf(scope, m) \in Nat /\ Rest(scope, s) \in Nat
      /\ s + Rest(scope, s) = EndOf(scope, m)
  BY WindowFacts
<1>2. key \in Key
  <2>1. Windows("minute") = Minutes /\ Windows("day") = Days
    BY ScopesNamed
  <2> QED
    BY <1>1, <2>1 DEF TypeOK, KeysOf, Scopes
<1>3. key.until = 0 \/ key.until >= EndOf(scope, m)
  BY <1>1 DEF KeysOK
<1>4. now \in Nat /\ s \in Nat /\ key.until \in Nat /\ MinWait \in Nat
  BY <1>2, ClockAssumption DEF TypeOK, Key
<1> DEFINE left == IF now < key.until THEN key.until - now ELSE Rest(scope, s)
<1>5. wait = IF left < MinWait THEN MinWait ELSE left
  BY DEF RetryAfter
<1> HIDE DEF m, key
<1>6. left \in Nat /\ now + left >= EndOf(scope, m)
  BY <1>1, <1>3, <1>4
<1> HIDE DEF left
<1>7. wait \in Nat /\ wait >= left
  BY <1>4, <1>5, <1>6
<1> HIDE DEF m
<1> QED
  BY <1>1, <1>4, <1>6, <1>7 DEF m

LEMMA DeniedMoves ==
    ASSUME TypeOK, RequestsOK, KeysOK, NEW r \in Requests, At(r, "script"),
           NEW scope \in Scopes, NEW wait,
           wait = RetryAfter(KeysOf(scope)[WindowOf(scope, request[r].stamp)],
                             Rest(scope, request[r].stamp)),
           Denied(r, scope, WindowOf(scope, request[r].stamp), wait)
    PROVE  Moves(r)
<1> PICK p \in Request : p = request[r]
  BY DEF TypeOK
<1> DEFINE m == WindowOf(scope, p.stamp)
           q == [Idle EXCEPT !.kind = p.kind, !.pc = "denied",
                             !.denial = <<scope, m>>, !.retryAt = now + wait]
<1>0. p.stamp \in 0 .. MaxTime /\ p.kind \in Kinds \cup {None} /\ p.pc = "script"
  BY DEF Request, At
<1>1. RecordOK(p) /\ p.stamp <= now
  BY DEF RequestsOK, RecordOK
<1>2. now + wait \in Nat /\ now + wait >= EndOf(scope, m)
  BY <1>0, <1>1, DenialWaits
<1>3. m \in Windows(scope) /\ m \in Nat /\ p.stamp < EndOf(scope, m)
  BY <1>0, WindowFacts
<1>4. <<scope, m>> \in ({"minute"} \X Minutes) \cup ({"day"} \X Days)
  BY <1>3, ScopesNamed DEF Scopes
<1>5. /\ q \in Request /\ q.pc = "denied" /\ q.stamp = 0 /\ q.denial = <<scope, m>>
      /\ q.retryAt = now + wait
  <2> HIDE DEF m
  <2> QED
    BY <1>0, <1>2, <1>4, IdleTyped DEF Request, Ended
<1>6. Becomes(r, q)
  BY DEF Denied
<1>7. now \in Nat
  BY ClockAssumption DEF TypeOK
<1> HIDE DEF q, m
<1>8. RecordOK(q)
  BY <1>2, <1>5, <1>7 DEF RecordOK, Waits
<1>9. p.denial # <<scope, m>>
  <2> SUFFICES ASSUME p.denial = <<scope, m>>
               PROVE  FALSE
    OBVIOUS
  <2>1. p.denial # None
    BY <1>3, NoneAssumption DEF Scopes
  <2>2. p.stamp >= EndOf(scope, m)
    BY <1>0, <1>1, <2>1 DEF RecordOK, Waits
  <2> QED
    BY <1>0, <1>3, <2>2, EndType
<1> QED
  BY <1>5, <1>6, <1>8, <1>9 DEF Moves

LEMMA DenyMoves ==
    ASSUME TypeOK, RequestsOK, KeysOK, NEW r \in Requests, Deny(r)
    PROVE  Moves(r)
<1> DEFINE s == request[r].stamp
<1>1. s \in 0 .. MaxTime /\ At(r, "script")
  BY DEF TypeOK, Request, Deny
<1>2. CASE Denied(r, "minute", MinuteOf(s), RetryAfter(MinuteKey(r), RestOfMinute(s)))
  <2>1. /\ MinuteOf(s) = WindowOf("minute", s) /\ RestOfMinute(s) = Rest("minute", s)
        /\ MinuteKey(r) = KeysOf("minute")[WindowOf("minute", s)]
        /\ "minute" \in Scopes
    BY ScopesNamed DEF MinuteKey, KeysOf, Scopes
  <2> QED
    BY <1>1, <1>2, <2>1, DeniedMoves
<1>3. CASE Denied(r, "day", DayOf(s), RetryAfter(DayKey(r), RestOfDay(s)))
  <2>1. /\ DayOf(s) = WindowOf("day", s) /\ RestOfDay(s) = Rest("day", s)
        /\ DayKey(r) = KeysOf("day")[WindowOf("day", s)]
        /\ "day" \in Scopes
    BY <1>1, ScopesNamed, RestOfDayNamed DEF DayKey, KeysOf, Scopes
  <2> QED
    BY <1>1, <1>3, <2>1, DeniedMoves
<1> QED
  BY <1>2, <1>3 DEF Deny

LEMMA ReserveMoves ==
    ASSUME TypeOK, RequestsOK, NEW r \in Requests, Reserve(r)
    PROVE  Moves(r)
<1> PICK p \in Request : p = request[r]
  BY DEF TypeOK
<1> DEFINE a == MinuteOf(now) = MinuteOf(p.stamp)
           b == DayOf(now) = DayOf(p.stamp)
           c == Reached(dayKeys'[DayOf(p.stamp)].count)
           q == [p EXCEPT !.pc = "alert", !.inMinute = a, !.inDay = b, !.todo = c]
<1>1. a \in BOOLEAN /\ b \in BOOLEAN /\ c \in SUBSET Thresholds
  BY DEF Reached
<1>2. Becomes(r, q) /\ p.pc = "script"
  BY DEF Reserve, At
<1> HIDE DEF a, b, c
<1>3. q \in Request /\ q.pc = "alert" /\ q.stamp = p.stamp /\ q.denial = p.denial
  BY <1>1 DEF Request
<1>4. RecordOK(p)
  BY DEF RequestsOK
<1> HIDE DEF q
<1>5. RecordOK(q)
  BY <1>2, <1>3, <1>4 DEF RecordOK, Waits
<1> QED
  BY <1>2, <1>3, <1>5 DEF Moves

LEMMA RaiseAlertMoves ==
    ASSUME TypeOK, RequestsOK, NEW r \in Requests, RaiseAlert(r)
    PROVE  Moves(r)
<1> PICK p \in Request : p = request[r]
  BY DEF TypeOK
<1>1. PICK t \in p.todo : Becomes(r, [p EXCEPT !.todo = @ \ {t}])
  BY DEF RaiseAlert
<1> DEFINE q == [p EXCEPT !.todo = @ \ {t}]
<1>2. q \in Request /\ q.pc = p.pc /\ q.stamp = p.stamp /\ q.denial = p.denial
  BY DEF Request
<1>3. p.pc = "alert" /\ RecordOK(p)
  BY DEF RaiseAlert, At, RequestsOK
<1>4. Becomes(r, q)
  BY <1>1
<1> HIDE DEF q
<1>5. RecordOK(q)
  BY <1>2, <1>3 DEF RecordOK, Waits
<1> QED
  BY <1>2, <1>3, <1>4, <1>5 DEF Moves

\* A call that has left ends its request, lets it sleep, or starts the second turn.
LEMMA CallMoves ==
    ASSUME TypeOK, RequestsOK, NEW r \in Requests,
           \/ GeminiParses(r) \/ GeminiChats(r) \/ GeminiStreams(r) \/ GeminiSummarizes(r)
           \/ RateLimited(r) \/ GeminiFails(r)
    PROVE  Moves(r) /\ Leaves(r) /\ request'[r].pc \in {"answered", "failed", "script", "sleep"}
<1> PICK p \in Request : p = request[r]
  BY DEF TypeOK
<1>0. RecordOK(p) /\ Leaves(r)
  BY DEF RequestsOK, GeminiParses, GeminiChats, GeminiStreams, GeminiSummarizes, RateLimited,
         GeminiFails
<1>1. p.pc = "alert"
  BY <1>0 DEF Leaves, At
<1>2. ASSUME NEW pc \in {"answered", "failed"}, End(r, pc)
      PROVE  Moves(r) /\ request'[r].pc = pc
  <2>1. pc \in Ended /\ pc # "denied"
    BY <1>2 DEF Ended
  <2> QED
    BY <1>2, <2>1, EndMoves, EndedTyped, RequestBecomes DEF End
<1>3. ASSUME Becomes(r, Reserving([Idle EXCEPT !.kind = "stream", !.turn = 2]))
      PROVE  Moves(r) /\ request'[r].pc = "script"
  <2> DEFINE f == [Idle EXCEPT !.kind = "stream", !.turn = 2]
  <2>1. f \in Request /\ f.denial = None
    BY FreshTyped DEF TypeOK, Kinds
  <2>2. Becomes(r, Reserving(f))
    BY <1>3
  <2> HIDE DEF f
  <2>3. Reserving(f) \in Request /\ Reserving(f).pc = "script"
    BY <2>1, ReservingTyped DEF TypeOK
  <2> QED
    BY <2>1, <2>2, <2>3, FreshMoves, RequestBecomes
<1>4. ASSUME p.attempt < MaxRetries,
             Becomes(r, [p EXCEPT !.pc = "sleep", !.stamp = 0, !.inMinute = FALSE,
                                  !.inDay = FALSE])
      PROVE  Moves(r) /\ request'[r].pc = "sleep"
  <2> DEFINE q == [p EXCEPT !.pc = "sleep", !.stamp = 0, !.inMinute = FALSE,
                            !.inDay = FALSE]
  <2>1. 0 \in 0 .. MaxTime
    BY ClockAssumption
  <2>2. q \in Request /\ q.pc = "sleep" /\ q.stamp = 0 /\ q.denial = p.denial
        /\ q.attempt = p.attempt
    BY <2>1 DEF Request
  <2>3. Becomes(r, q)
    BY <1>4
  <2> HIDE DEF q
  <2>4. now >= 0
    BY ClockAssumption DEF TypeOK
  <2>5. RecordOK(q)
    BY <1>0, <1>1, <1>4, <2>2, <2>4 DEF RecordOK, Waits
  <2> QED
    BY <1>1, <2>2, <2>3, <2>5, RequestBecomes DEF Moves
<1>5. GivenUp(r) => End(r, "answered") \/ End(r, "failed")
  BY DEF GivenUp
<1>6. \/ End(r, "answered") \/ End(r, "failed")
      \/ Becomes(r, Reserving([Idle EXCEPT !.kind = "stream", !.turn = 2]))
      \/ /\ p.attempt < MaxRetries
         /\ Becomes(r, [p EXCEPT !.pc = "sleep", !.stamp = 0, !.inMinute = FALSE,
                                 !.inDay = FALSE])
  BY <1>5 DEF GeminiParses, GeminiChats, GeminiStreams, GeminiSummarizes, RateLimited,
              GeminiFails
<1> QED
  BY <1>0, <1>2, <1>3, <1>4, <1>6

LEMMA RetryMoves ==
    ASSUME TypeOK, RequestsOK, NEW r \in Requests, Retry(r)
    PROVE  Moves(r)
<1> PICK p \in Request : p = request[r]
  BY DEF TypeOK
<1> DEFINE f == [p EXCEPT !.attempt = @ + 1]
           q == Reserving(f)
<1>1. p.pc = "sleep" /\ RecordOK(p)
  BY DEF Retry, At, RequestsOK
<1>2. p.attempt \in Nat /\ p.attempt < MaxRetries
  BY <1>1 DEF RecordOK, Request
<1>3. f \in Request /\ f.denial = p.denial
  BY <1>2, ClockAssumption DEF Request
<1>4. Becomes(r, q)
  BY DEF Retry
<1> HIDE DEF f
<1>5. q \in Request /\ q.pc = "script" /\ q.stamp = now /\ q.denial = p.denial
  BY <1>3, ReservingTyped DEF TypeOK
<1> HIDE DEF q
<1>6. RecordOK(q)
  BY <1>1, <1>5, ClockAssumption DEF RecordOK, Waits, TypeOK
<1> QED
  BY <1>4, <1>5, <1>6 DEF Moves

LEMMA ResubmitMoves ==
    ASSUME TypeOK, RequestsOK, NEW r \in Requests, Resubmit(r)
    PROVE  Moves(r)
<1> PICK p \in Request : p = request[r]
  BY DEF TypeOK
<1> DEFINE f == [Idle EXCEPT !.kind = "parse", !.denial = p.denial]
           q == Reserving(f)
<1>1. p.pc = "denied" /\ RecordOK(p) /\ now >= p.retryAt
  BY DEF Resubmit, At, RequestsOK
<1>2. f \in Request /\ f.denial = p.denial
  BY IdleTyped DEF Request, Kinds
<1>3. Becomes(r, q)
  BY DEF Resubmit
<1> HIDE DEF f
<1>4. q \in Request /\ q.pc = "script" /\ q.stamp = now /\ q.denial = p.denial
  BY <1>2, ReservingTyped DEF TypeOK
<1> HIDE DEF q
<1>5. p.denial # None => now >= EndOf(p.denial[1], p.denial[2])
  <2> SUFFICES ASSUME p.denial # None
               PROVE  now >= EndOf(p.denial[1], p.denial[2])
    OBVIOUS
  <2>1. p.denial[1] \in Scopes /\ p.denial[2] \in Nat
    BY TimeTyped DEF Request, Scopes
  <2>2. EndOf(p.denial[1], p.denial[2]) \in Nat
    BY <2>1, EndType
  <2>3. p.retryAt >= EndOf(p.denial[1], p.denial[2])
    BY <1>1 DEF RecordOK, Waits
  <2>4. p.retryAt \in Nat /\ now \in Nat
    BY ClockAssumption DEF Request, TypeOK
  <2> QED
    BY <1>1, <2>2, <2>3, <2>4
<1>6. RecordOK(q)
  BY <1>4, <1>5, ClockAssumption DEF RecordOK, Waits, TypeOK
<1> QED
  BY <1>1, <1>3, <1>4, <1>6 DEF Moves

LEMMA RedisFailsMoves ==
    ASSUME TypeOK, NEW r \in Requests, RedisFails(r)
    PROVE  Moves(r)
<1>1. End(r, "answered") \/ End(r, "failed")
  BY DEF RedisFails
<1> QED
  BY <1>1, EndMoves DEF Ended

-----------------------------------------------------------------------------
(* The steps                                                               *)

\* A step that touches no counter, and one that makes the call that was reserved.
Quiet(r) == UNCHANGED <<quota, history>> /\ request'[r].pc # "alert"
Called(r) == Leaves(r) /\ request'[r].pc # "alert"

LEMMA QuietSteps ==
    ASSUME TypeOK, NEW r \in Requests, Moves(r), UNCHANGED <<quota, history>>
    PROVE  Quiet(r) \/ Reserve(r) \/ RaiseAlert(r)
<1> PICK q \in Request : Becomes(r, q) /\ (q.pc # "alert" \/ Reserve(r) \/ RaiseAlert(r))
  BY DEF Moves
<1> QED
  BY RequestBecomes DEF Quiet

LEMMA Steps ==
    ASSUME TypeOK, RequestsOK, KeysOK, Next
    PROVE  /\ config' = config /\ faults' \in 0 .. MaxFaults
           /\ \/ Tick
              \/ \E r \in Requests :
                    /\ now' = now
                    /\ \/ ReplyLost(r)
                       \/ Moves(r) /\ (Quiet(r) \/ Reserve(r) \/ RaiseAlert(r) \/ Called(r))
<1>0. faults \in 0 .. MaxFaults
  BY DEF TypeOK
<1>1. CASE Tick
  BY <1>0, <1>1 DEF Tick
<1>2. ASSUME NEW r \in Requests,
             Begin(r) \/ Groq(r) \/ Gemini(r) \/ ReplyLost(r) \/ RedisFails(r) \/ Resubmit(r)
      PROVE  /\ config' = config /\ faults' \in 0 .. MaxFaults /\ now' = now
             /\ \/ ReplyLost(r)
                \/ Moves(r) /\ (Quiet(r) \/ Reserve(r) \/ RaiseAlert(r) \/ Called(r))
  <2>1. CASE Begin(r)
    <3>1. UNCHANGED <<config, now, quota, history, faults>>
      BY <2>1 DEF Begin, ParseCV, GenerateChat, StreamChat, SummarizeConversation
    <3> QED
      BY <1>0, <2>1, <3>1, BeginMoves, QuietSteps
  <2>2. CASE Groq(r)
    <3>1. UNCHANGED <<config, now, quota, history, faults>>
      BY <2>2 DEF Groq, GroqChats, GroqStreams, GroqSummarizes, GroqFails
    <3> QED
      BY <1>0, <2>2, <3>1, GroqMoves, QuietSteps
  <2>3. CASE Deny(r)
    <3>1. UNCHANGED <<config, now, quota, history, faults>>
      BY <2>3 DEF Deny
    <3> QED
      BY <1>0, <2>3, <3>1, DenyMoves, QuietSteps
  <2>4. CASE Reserve(r)
    BY <1>0, <2>4, ReserveMoves DEF Reserve
  <2>5. CASE RaiseAlert(r)
    BY <1>0, <2>5, RaiseAlertMoves DEF RaiseAlert
  <2>6. CASE \/ GeminiParses(r) \/ GeminiChats(r) \/ GeminiStreams(r) \/ GeminiSummarizes(r)
             \/ RateLimited(r) \/ GeminiFails(r)
    BY <1>0, <2>6, CallMoves DEF Called, Leaves
  <2>7. CASE Retry(r)
    <3>1. UNCHANGED <<config, now, quota, history, faults>>
      BY <2>7 DEF Retry
    <3> QED
      BY <1>0, <2>7, <3>1, RetryMoves, QuietSteps
  <2>8. CASE Resubmit(r)
    <3>1. UNCHANGED <<config, now, quota, history, faults>>
      BY <2>8 DEF Resubmit
    <3> QED
      BY <1>0, <2>8, <3>1, ResubmitMoves, QuietSteps
  <2>9. CASE RedisFails(r)
    <3>1. UNCHANGED <<config, now, quota, history>> /\ faults' \in 0 .. MaxFaults
      BY <1>0, <2>9, ClockAssumption DEF RedisFails, Fault
    <3> QED
      BY <2>9, <3>1, RedisFailsMoves, QuietSteps
  <2>10. CASE ReplyLost(r)
    BY <1>0, <2>10, ClockAssumption DEF ReplyLost, Fault
  <2> QED
    BY <1>2, <2>1, <2>2, <2>3, <2>4, <2>5, <2>6, <2>7, <2>8, <2>9, <2>10 DEF Gemini
<1> QED
  BY <1>1, <1>2 DEF Next

-----------------------------------------------------------------------------
(* The keys                                                                *)

LEMMA KeysTyped ==
    ASSUME TypeOK, NEW scope \in Scopes
    PROVE  KeysOf(scope) \in [Windows(scope) -> Key]
BY ScopesNamed DEF TypeOK, KeysOf, Scopes

\* A reservation counts one more under a key that lives to the end of its window.
LEMMA CountedKey ==
    ASSUME now \in 0 .. MaxTime, NEW scope \in Scopes, NEW s \in 0 .. MaxTime, s <= now,
           NEW key \in Key, key.until = 0 \/ key.until >= EndOf(scope, WindowOf(scope, s))
    PROVE  LET new == Counted(key, Rest(scope, s)) IN
           /\ new \in Key
           /\ new.until >= EndOf(scope, WindowOf(scope, s))
           /\ now < new.until /\ new.count = Held(key) + 1
<1> DEFINE ttl == Rest(scope, s)
           end == EndOf(scope, WindowOf(scope, s))
<1>1. ttl \in Nat \ {0} /\ end \in Nat /\ s + ttl = end
  BY WindowFacts
<1>2. now \in Nat /\ s \in Nat /\ key.until \in Nat /\ key.count \in Nat
  BY ClockAssumption DEF Key
<1> HIDE DEF ttl, end
<1>3. LET new == Counted(key, ttl) IN
      /\ new \in Key /\ new.until >= end /\ now < new.until /\ new.count = Held(key) + 1
  <2> DEFINE until == IF now < key.until THEN key.until ELSE now + ttl
             count == Held(key) + 1
  <2>1. until \in Nat /\ until >= end /\ now < until
    BY <1>1, <1>2 DEF end
  <2>2. count \in Nat
    BY <1>2 DEF Held
  <2>3. Counted(key, ttl) = [count |-> count, until |-> until]
    BY DEF Counted
  <2> HIDE DEF until, count
  <2>4. Counted(key, ttl).count = count /\ Counted(key, ttl).until = until
        /\ Counted(key, ttl) \in Key
    BY <2>1, <2>2, <2>3 DEF Key
  <2> QED
    BY <2>1, <2>4 DEF count
<1> QED
  BY <1>3 DEF ttl, end

LEMMA CountsKeys ==
    ASSUME TypeOK, RequestsOK, KeysOK, NEW r \in Requests, Counts(r), NEW scope \in Scopes
    PROVE  LET s == request[r].stamp
               m == WindowOf(scope, s) IN
           /\ s \in 0 .. MaxTime /\ s <= now
           /\ m \in Windows(scope) /\ m \in Nat
           /\ KeysOf(scope)' = [KeysOf(scope) EXCEPT ![m] = Counted(@, Rest(scope, s))]
           /\ KeysOf(scope)'[m] = Counted(KeysOf(scope)[m], Rest(scope, s))
           /\ KeysOf(scope)'[m] \in Key
           /\ KeysOf(scope)'[m].until >= EndOf(scope, m)
           /\ now < KeysOf(scope)'[m].until
           /\ KeysOf(scope)'[m].count = Held(KeysOf(scope)[m]) + 1
<1> DEFINE s == request[r].stamp
           m == WindowOf(scope, s)
<1>1. s \in 0 .. MaxTime /\ s <= now /\ now \in 0 .. MaxTime
  BY DEF TypeOK, Request, RequestsOK, RecordOK
<1>2. m \in Windows(scope) /\ m \in Nat
  BY <1>1, WindowFacts
<1>3. KeysOf(scope)' = [KeysOf(scope) EXCEPT ![m] = Counted(@, Rest(scope, s))]
  BY <1>1, ScopesNamed, RestOfDayNamed DEF Counts, KeysOf, Scopes
<1>4. KeysOf(scope) \in [Windows(scope) -> Key]
  BY KeysTyped
<1>5. KeysOf(scope)[m] \in Key
      /\ (KeysOf(scope)[m].until = 0 \/ KeysOf(scope)[m].until >= EndOf(scope, m))
  BY <1>2, <1>4 DEF KeysOK
<1>6. KeysOf(scope)'[m] = Counted(KeysOf(scope)[m], Rest(scope, s))
  BY <1>2, <1>3, <1>4
<1> HIDE DEF s
<1>7. LET new == Counted(KeysOf(scope)[m], Rest(scope, s)) IN
      /\ new \in Key /\ new.until >= EndOf(scope, m)
      /\ now < new.until /\ new.count = Held(KeysOf(scope)[m]) + 1
  BY <1>1, <1>5, CountedKey
<1> QED
  BY <1>1, <1>2, <1>3, <1>6, <1>7 DEF s

LEMMA CountsTyped ==
    ASSUME TypeOK, RequestsOK, KeysOK, NEW r \in Requests, Counts(r)
    PROVE  /\ KeysOK'
           /\ minuteKeys' \in [Minutes -> Key] /\ dayKeys' \in [Days -> Key]
<1>1. ASSUME NEW scope \in Scopes
      PROVE  /\ KeysOf(scope)' \in [Windows(scope) -> Key]
             /\ \A m \in Windows(scope) :
                   KeysOf(scope)'[m].until = 0 \/ KeysOf(scope)'[m].until >= EndOf(scope, m)
  <2> DEFINE m == WindowOf(scope, request[r].stamp)
  <2>1. KeysOf(scope) \in [Windows(scope) -> Key]
    BY KeysTyped
  <2>2. /\ m \in Windows(scope) /\ KeysOf(scope)'[m] \in Key
        /\ KeysOf(scope)'[m].until >= EndOf(scope, m)
    BY CountsKeys
  <2>3. KeysOf(scope)' = [KeysOf(scope) EXCEPT ![m] = KeysOf(scope)'[m]]
    BY <2>1, CountsKeys
  <2> HIDE DEF m
  <2>4. \A x \in Windows(scope) \ {m} : KeysOf(scope)'[x] = KeysOf(scope)[x]
    BY <2>1, <2>3
  <2>5. KeysOf(scope)' \in [Windows(scope) -> Key]
    BY <2>1, <2>2, <2>3
  <2> QED
    BY <2>2, <2>4, <2>5 DEF KeysOK
<1>2. KeysOK'
  BY <1>1 DEF KeysOK
<1>3. "minute" \in Scopes /\ "day" \in Scopes
  BY DEF Scopes
<1> QED
  BY <1>1, <1>2, <1>3, ScopesNamed DEF KeysOf

LEMMA TickKeys ==
    ASSUME TypeOK, KeysOK, Tick, NEW scope \in Scopes, NEW m \in Windows(scope)
    PROVE  /\ KeysOf(scope)' \in [Windows(scope) -> Key]
           /\ KeysOf(scope)'[m] = Expired(KeysOf(scope)[m])
<1>1. KeysOf(scope)' = [x \in Windows(scope) |-> Expired(KeysOf(scope)[x])]
  BY ScopesNamed DEF Tick, KeysOf, Scopes
<1>2. \A key \in Key : Expired(key) \in Key
  BY DEF Expired, NoKey, Key
<1> QED
  BY <1>1, <1>2, KeysTyped

-----------------------------------------------------------------------------
(* The types, the requests and the keys are kept.                          *)

LEMMA TickRequests ==
    ASSUME TypeOK, RequestsOK, Tick
    PROVE  RequestsOK'
<1> SUFFICES ASSUME NEW r \in Requests
             PROVE  RecordOK(request[r])'
  BY DEF RequestsOK
<1> PICK p \in Request : p = request[r]
  BY DEF TypeOK
<1>1. RecordOK(p) /\ p = request'[r]
  BY DEF RequestsOK, Tick
<1>2. now \in Nat /\ now' = now + 1 /\ p.stamp \in Nat
  BY ClockAssumption DEF TypeOK, Tick, Request
<1>3. p.denial # None => EndOf(p.denial[1], p.denial[2]) \in Nat
  BY TimeTyped, EndType DEF Request, Scopes
<1> QED
  BY <1>1, <1>2, <1>3 DEF RecordOK, Waits

LEMMA MovesRequests ==
    ASSUME TypeOK, RequestsOK, now' = now, NEW r \in Requests, Moves(r)
    PROVE  RequestsOK' /\ request' \in [Requests -> Request]
<1>1. PICK q \in Request : RecordOK(q) /\ Becomes(r, q)
  BY DEF Moves
<1>2. /\ request' \in [Requests -> Request] /\ request'[r] = q
      /\ \A x \in Requests \ {r} : request'[x] = request[x]
  BY <1>1, RequestBecomes
<1>3. ASSUME NEW x \in Requests
      PROVE  RecordOK(request'[x])
  BY <1>1, <1>2 DEF RequestsOK
<1>4. \A x \in Requests : RecordOK(request[x])'
  BY <1>3 DEF RecordOK, Waits
<1> QED
  BY <1>2, <1>4 DEF RequestsOK

LEMMA CallsTyped ==
    ASSUME TypeOK, NEW r \in Requests, Leaves(r)
    PROVE  /\ minuteCalls' \in [Minutes -> [Workloads -> Nat]]
           /\ dayCalls' \in [Days -> [Workloads -> Nat]]
<1>1. PICK p \in Request : p = request[r]
  BY DEF TypeOK
<1> DEFINE w == Workload(p.kind)
<1>2. w \in Workloads
  BY DEF Workload, Workloads
<1>3. MinuteOf(p.stamp) \in Minutes /\ DayOf(p.stamp) \in Days
  BY TimeTyped DEF Request
<1>4. /\ minuteCalls' = [minuteCalls EXCEPT
            ![MinuteOf(p.stamp)][w] = IF p.inMinute THEN @ + 1 ELSE @]
      /\ dayCalls' = [dayCalls EXCEPT ![DayOf(p.stamp)][w] = IF p.inDay THEN @ + 1 ELSE @]
  BY <1>1 DEF Leaves
<1> HIDE DEF w
<1> QED
  BY <1>2, <1>3, <1>4 DEF TypeOK

LEMMA AlertTyped ==
    ASSUME TypeOK, NEW r \in Requests, RaiseAlert(r)
    PROVE  /\ alertKeys' \in [Days -> [Thresholds -> Nat]]
           /\ alarms' \in [Days -> [Thresholds -> Nat]]
<1> DEFINE d == DayOf(now)
           end == now + RestOfDay(request[r].stamp)
           same == d = DayOf(request[r].stamp)
<1>1. d \in Days /\ end \in Nat
  BY TimeTyped, ClockAssumption DEF TypeOK, Request
<1>2. PICK t \in request[r].todo :
          \/ UNCHANGED <<alertKeys, alarms>>
          \/ /\ alertKeys' = [alertKeys EXCEPT ![d][t] = end]
             /\ alarms' = [alarms EXCEPT ![d][t] = IF same THEN @ + 1 ELSE @]
  BY DEF RaiseAlert
<1>3. t \in Thresholds
  BY DEF TypeOK, Request
<1>4. alertKeys \in [Days -> [Thresholds -> Nat]] /\ alarms \in [Days -> [Thresholds -> Nat]]
  BY DEF TypeOK
<1> HIDE DEF d, end, same
<1>5. CASE alertKeys' = [alertKeys EXCEPT ![d][t] = end]
           /\ alarms' = [alarms EXCEPT ![d][t] = IF same THEN @ + 1 ELSE @]
  <2>1. [alertKeys[d] EXCEPT ![t] = end] \in [Thresholds -> Nat]
    BY <1>1, <1>3, <1>4
  <2>2. [alarms[d] EXCEPT ![t] = IF same THEN @ + 1 ELSE @] \in [Thresholds -> Nat]
    BY <1>1, <1>3, <1>4
  <2> QED
    BY <1>1, <1>4, <1>5, <2>1, <2>2
<1> QED
  BY <1>2, <1>4, <1>5

LEMMA TickTyped ==
    ASSUME TypeOK, KeysOK, Tick
    PROVE  TypeOK' /\ KeysOK'
<1>1. ASSUME NEW scope \in Scopes
      PROVE  /\ KeysOf(scope)' \in [Windows(scope) -> Key]
             /\ \A m \in Windows(scope) :
                   KeysOf(scope)'[m].until = 0 \/ KeysOf(scope)'[m].until >= EndOf(scope, m)
  <2>1. ASSUME NEW m \in Windows(scope)
        PROVE  KeysOf(scope)'[m].until = 0 \/ KeysOf(scope)'[m].until >= EndOf(scope, m)
    <3>1. KeysOf(scope)'[m] = Expired(KeysOf(scope)[m])
      BY <2>1, TickKeys
    <3>2. KeysOf(scope)[m].until = 0 \/ KeysOf(scope)[m].until >= EndOf(scope, m)
      BY <2>1 DEF KeysOK
    <3> QED
      BY <3>1, <3>2 DEF Expired, NoKey
  <2>2. 0 \in Windows(scope)
    BY WindowFacts, ClockAssumption DEF Windows
  <2> QED
    BY <2>1, <2>2, TickKeys
<1>2. KeysOK'
  BY <1>1 DEF KeysOK
<1>3. "minute" \in Scopes /\ "day" \in Scopes
  BY DEF Scopes
<1>4. minuteKeys' \in [Minutes -> Key] /\ dayKeys' \in [Days -> Key]
  BY <1>1, <1>3, ScopesNamed DEF KeysOf
<1>5. now' \in 0 .. MaxTime
  BY ClockAssumption DEF TypeOK, Tick
<1>6. alertKeys' \in [Days -> [Thresholds -> Nat]]
  BY DEF TypeOK, Tick
<1> QED
  BY <1>2, <1>4, <1>5, <1>6 DEF TypeOK, Tick, history

LEMMA TypesKept ==
    ASSUME TypeOK, RequestsOK, KeysOK, [Next]_vars
    PROVE  TypeOK' /\ RequestsOK' /\ KeysOK'
<1>1. CASE UNCHANGED vars
  <2>1. TypeOK'
    BY <1>1 DEF vars, quota, history, TypeOK
  <2>2. KeysOK'
    BY <1>1 DEF vars, quota, KeysOK, KeysOf
  <2>3. RequestsOK'
    BY <1>1 DEF vars, RequestsOK, RecordOK, Waits
  <2> QED
    BY <2>1, <2>2, <2>3
<1>2. CASE Tick
  BY <1>2, TickTyped, TickRequests
<1>3. ASSUME NEW r \in Requests, now' = now, config' = config, faults' \in 0 .. MaxFaults,
             \/ ReplyLost(r)
             \/ Moves(r) /\ (Quiet(r) \/ Reserve(r) \/ RaiseAlert(r) \/ Called(r))
      PROVE  TypeOK' /\ RequestsOK' /\ KeysOK'
  <2>1. RequestsOK' /\ request' \in [Requests -> Request]
    <3>1. CASE ReplyLost(r)
      BY <1>3, <3>1 DEF ReplyLost, RequestsOK, RecordOK, Waits, TypeOK
    <3>2. CASE Moves(r)
      BY <1>3, <3>2, MovesRequests
    <3> QED
      BY <1>3, <3>1, <3>2
  <2>2. CASE ReplyLost(r) \/ Reserve(r)
    <3>1. Counts(r) /\ UNCHANGED <<alertKeys, minuteCalls, dayCalls, alarms>>
      BY <2>2 DEF ReplyLost, Reserve, Counts, history
    <3> QED
      BY <1>3, <2>1, <3>1, CountsTyped DEF TypeOK
  <2>3. ASSUME UNCHANGED <<minuteKeys, dayKeys>>
        PROVE  KeysOK' /\ minuteKeys' \in [Minutes -> Key] /\ dayKeys' \in [Days -> Key]
    BY <2>3 DEF KeysOK, KeysOf, TypeOK
  <2>4. CASE Quiet(r)
    BY <1>3, <2>1, <2>3, <2>4 DEF Quiet, quota, history, TypeOK
  <2>5. CASE RaiseAlert(r)
    <3>1. UNCHANGED <<minuteKeys, dayKeys, minuteCalls, dayCalls>>
      BY <2>5 DEF RaiseAlert
    <3> QED
      BY <1>3, <2>1, <2>3, <2>5, <3>1, AlertTyped DEF TypeOK
  <2>6. CASE Called(r)
    <3>1. UNCHANGED <<minuteKeys, dayKeys, alertKeys, alarms>>
      BY <2>6 DEF Called, Leaves, quota
    <3> QED
      BY <1>3, <2>1, <2>3, <2>6, <3>1, CallsTyped DEF TypeOK, Called
  <2> QED
    BY <1>3, <2>2, <2>4, <2>5, <2>6
<1> QED
  BY <1>1, <1>2, <1>3, Steps

TypeInv == TypeOK /\ RequestsOK /\ KeysOK

LEMMA InitTyped == Init => TypeInv
<1> SUFFICES ASSUME Init
             PROVE  TypeInv
  OBVIOUS
<1>0. 0 \in 0 .. MaxTime /\ 0 \in 0 .. MaxFaults /\ NoKey \in Key /\ NoKey.until = 0
  BY ClockAssumption DEF NoKey, Key
<1>1. TypeOK
  BY <1>0, IdleTyped DEF Init, TypeOK
<1>2. RequestsOK
  BY IdleTyped DEF Init, RequestsOK, RecordOK
<1>3. KeysOK
  BY <1>0, ScopesNamed DEF Init, KeysOK, KeysOf, Scopes
<1> QED
  BY <1>1, <1>2, <1>3 DEF TypeInv

LEMMA TypeInvKept == TypeInv /\ [Next]_vars => TypeInv'
BY TypesKept DEF TypeInv

\* Every variable keeps its type (AiGateway.TypeOK): the counters of the quota and the alarms
\* are numbers, and a rate-limited call is tried again no more often than makeRequestWithRetry
\* may.
THEOREM GatewayTyped == Spec => []TypeOK
<1>1. TypeInv => TypeOK
  BY DEF TypeInv
<1> QED
  BY <1>1, InitTyped, TypeInvKept, PTL DEF Spec

\* A parse that waits as long as its denial said is not denied for the same window again
\* (scheduleParseResumeRetry, RESERVE_REQUEST_LUA).
THEOREM WaitingPays == Spec => WaitedDenialIsOver
<1> DEFINE Other(r) == request[r].pc = "script" /\ request'[r].pc = "denied"
                          => request'[r].denial # request[r].denial
<1>1. ASSUME TypeInv, Next, NEW r \in Requests
      PROVE  Other(r)
  <2>1. CASE request' = request
    BY <2>1
  <2>2. ASSUME NEW x \in Requests, Moves(x)
        PROVE  Other(r)
    <3>1. PICK q \in Request :
             /\ Becomes(x, q)
             /\ (request[x].pc = "script" /\ q.pc = "denied") => q.denial # request[x].denial
      BY <2>2 DEF Moves
    <3>2. request'[x] = q /\ (r # x => request'[r] = request[r])
      BY <1>1, <3>1, RequestBecomes DEF TypeInv
    <3> QED
      BY <3>1, <3>2
  <2>3. Tick \/ (\E x \in Requests : ReplyLost(x)) => request' = request
    BY DEF Tick, ReplyLost
  <2> QED
    BY <1>1, <2>1, <2>2, <2>3, Steps DEF TypeInv
<1>2. TypeInv /\ [Next]_vars => [\A r \in Requests : Other(r)]_vars
  BY <1>1
<1> HIDE DEF Other
<1>3. Spec => [][\A r \in Requests : Other(r)]_vars
  BY <1>2, InitTyped, TypeInvKept, PTL DEF Spec
<1> QED
  BY <1>3 DEF WaitedDenialIsOver, Other

-----------------------------------------------------------------------------
(* Alarms                                                                  *)

\* An alarm of a day that is not over is remembered to its end.
AlarmsOK ==
    \A d \in Days, t \in Thresholds :
        /\ alarms[d][t] \in {0, 1}
        /\ alarms[d][t] = 1 => d < DayOf(now) \/ alertKeys[d][t] >= EndOf("day", d)

LEMMA TickAlarms ==
    ASSUME TypeOK, AlarmsOK, Tick
    PROVE  AlarmsOK'
<1> SUFFICES ASSUME NEW d \in Days, NEW t \in Thresholds, alarms[d][t] = 1
             PROVE  d < DayOf(now') \/ alertKeys'[d][t] >= EndOf("day", d)
  BY DEF AlarmsOK, Tick, history
<1>1. /\ now \in Nat /\ now' = now + 1 /\ now \in 0 .. MaxTime /\ now' \in 0 .. MaxTime
      /\ d \in Nat
  BY TimeTyped, ClockAssumption DEF TypeOK, Tick
<1>2. \A u \in 0 .. MaxTime : DayOf(u) \in Nat /\ DayOf(u) = u \div Width("day")
  BY TimeTyped DEF DayOf, Width
<1>3. DayOf(now) <= DayOf(now')
  <2>1. Width("day") \in Nat \ {0}
    BY WidthType DEF Scopes
  <2>2. now' \in Nat /\ now <= now'
    BY <1>1
  <2> QED
    BY <1>1, <1>2, <2>1, <2>2, WindowsGrow
<1>4. CASE d < DayOf(now)
  BY <1>1, <1>2, <1>3, <1>4
<1>5. CASE alertKeys[d][t] >= EndOf("day", d)
  <2>1. alertKeys'[d][t] = IF now' < alertKeys[d][t] THEN alertKeys[d][t] ELSE 0
    BY DEF Tick
  <2>2. CASE now' < alertKeys[d][t]
    BY <1>5, <2>1, <2>2
  <2>3. CASE ~(now' < alertKeys[d][t])
    <3>1. EndOf("day", d) \in Nat /\ alertKeys[d][t] \in Nat
      BY <1>1, EndType DEF Scopes, TypeOK
    <3>2. EndOf("day", d) <= now'
      BY <1>1, <1>5, <2>3, <3>1
    <3>3. d < WindowOf("day", now')
      BY <1>1, <3>2, BeyondEnd DEF Scopes
    <3> QED
      BY <3>3, ScopesNamed
  <2> QED
    BY <2>2, <2>3
<1> QED
  BY <1>4, <1>5 DEF AlarmsOK

LEMMA RaiseAlarms ==
    ASSUME TypeOK, RequestsOK, AlarmsOK, NEW r \in Requests, RaiseAlert(r), now' = now
    PROVE  AlarmsOK'
<1> DEFINE s == request[r].stamp
           d == DayOf(now)
           rest == RestOfDay(s)
<1>1. s \in 0 .. MaxTime /\ s <= now /\ now \in 0 .. MaxTime
  BY DEF TypeOK, Request, RequestsOK, RecordOK
<1>2. d \in Days /\ d \in Nat /\ rest \in Nat /\ EndOf("day", d) \in Nat /\ now < EndOf("day", d)
  BY <1>1, TimeTyped, WindowFacts, ScopesNamed, EndType DEF Scopes
<1>3. d = DayOf(s) => s + rest = EndOf("day", d)
  BY <1>1, WindowFacts, ScopesNamed, RestOfDayNamed DEF Scopes
<1>4. PICK t \in request[r].todo :
         IF now < alertKeys[d][t]
         THEN UNCHANGED <<alertKeys, alarms>>
         ELSE /\ alertKeys' = [alertKeys EXCEPT ![d][t] = now + rest]
              /\ alarms' = [alarms EXCEPT ![d][t] = IF d = DayOf(s) THEN @ + 1 ELSE @]
  BY DEF RaiseAlert
<1>5. t \in Thresholds
  BY DEF TypeOK, Request
<1>6. /\ alertKeys \in [Days -> [Thresholds -> Nat]]
      /\ alarms \in [Days -> [Thresholds -> Nat]]
  BY DEF TypeOK
<1>7. CASE UNCHANGED <<alertKeys, alarms>>
  BY <1>7 DEF AlarmsOK
<1>8. CASE ~(now < alertKeys[d][t])
  <2>1. alarms[d][t] = 0
    <3>1. alarms[d][t] # 1
      <4> SUFFICES ASSUME alarms[d][t] = 1
                   PROVE  FALSE
        OBVIOUS
      <4>1. alertKeys[d][t] >= EndOf("day", d)
        BY <1>2, <1>5 DEF AlarmsOK
      <4>2. alertKeys[d][t] \in Nat /\ now \in Nat
        BY <1>1, <1>2, <1>5, <1>6
      <4> QED
        BY <1>2, <1>8, <4>1, <4>2
    <3> QED
      BY <1>2, <1>5, <3>1 DEF AlarmsOK
  <2> SUFFICES ASSUME NEW e \in Days, NEW u \in Thresholds
               PROVE  /\ alarms'[e][u] \in {0, 1}
                      /\ alarms'[e][u] = 1 =>
                            e < d \/ alertKeys'[e][u] >= EndOf("day", e)
    BY DEF AlarmsOK
  <2>2. CASE e = d /\ u = t
    <3>1. alertKeys'[d][t] = now + rest
      BY <1>2, <1>4, <1>5, <1>6, <1>8
    <3>2. alarms'[d][t] = IF d = DayOf(s) THEN 1 ELSE 0
      <4> HIDE DEF s
      <4>1. alarms' = [alarms EXCEPT ![d][t] = IF d = DayOf(s) THEN @ + 1 ELSE @]
        BY <1>4, <1>8
      <4> HIDE DEF d
      <4>2. alarms'[d][t] = IF d = DayOf(s) THEN alarms[d][t] + 1 ELSE alarms[d][t]
        BY <1>2, <1>5, <1>6, <4>1
      <4> QED
        BY <2>1, <4>2
    <3>3. d = DayOf(s) => now + rest >= EndOf("day", d)
      <4> HIDE DEF s, d, rest
      <4>1. s \in Nat /\ now \in Nat
        BY <1>1, ClockAssumption
      <4> QED
        BY <1>1, <1>2, <1>3, <4>1
    <3> HIDE DEF s, d, rest
    <3> QED
      BY <2>2, <3>1, <3>2, <3>3
  <2>3. CASE ~(e = d /\ u = t)
    <3>1. alertKeys'[e][u] = alertKeys[e][u]
      BY <1>2, <1>4, <1>5, <1>6, <1>8, <2>3
    <3>2. alarms'[e][u] = alarms[e][u]
      <4> HIDE DEF s
      <4>1. alarms' = [alarms EXCEPT ![d][t] = IF d = DayOf(s) THEN @ + 1 ELSE @]
        BY <1>4, <1>8
      <4> HIDE DEF d
      <4> QED
        BY <1>2, <1>5, <1>6, <2>3, <4>1
    <3> QED
      BY <3>1, <3>2 DEF AlarmsOK
  <2> QED
    BY <2>2, <2>3
<1> QED
  BY <1>4, <1>7, <1>8

LEMMA AlarmsKept ==
    ASSUME TypeInv, AlarmsOK, [Next]_vars
    PROVE  AlarmsOK'
<1>1. CASE UNCHANGED <<alertKeys, alarms, now>>
  BY <1>1 DEF AlarmsOK
<1>2. CASE Tick
  BY <1>2, TickAlarms DEF TypeInv
<1>3. ASSUME NEW r \in Requests, now' = now,
             ReplyLost(r) \/ Quiet(r) \/ Reserve(r) \/ RaiseAlert(r) \/ Called(r)
      PROVE  AlarmsOK'
  <2>1. CASE RaiseAlert(r)
    BY <1>3, <2>1, RaiseAlarms DEF TypeInv
  <2>2. CASE ReplyLost(r) \/ Quiet(r) \/ Reserve(r) \/ Called(r)
    BY <1>1, <1>3, <2>2 DEF ReplyLost, Quiet, Reserve, Called, Leaves, Counts, quota, history
  <2> QED
    BY <1>3, <2>1, <2>2
<1>4. CASE UNCHANGED vars
  BY <1>1, <1>4 DEF vars, quota, history
<1> QED
  BY <1>2, <1>3, <1>4, Steps DEF TypeInv

\* A threshold of a day is announced once for the reservations of that day, however many
\* requests reach it at once (gemini-quota.service.ts logThresholdCrossings).
THEOREM AlarmsAreSingle == Spec => []AlarmOnce
<1>1. Init => AlarmsOK
  BY DEF Init, AlarmsOK
<1>2. TypeInv /\ AlarmsOK /\ [Next]_vars => AlarmsOK'
  BY AlarmsKept
<1>3. AlarmsOK => AlarmOnce
  BY DEF AlarmsOK, AlarmOnce
<1> QED
  BY <1>1, <1>2, <1>3, InitTyped, TypeInvKept, PTL DEF Spec

-----------------------------------------------------------------------------
(* The reserves                                                            *)

CallsOf(scope) == IF scope = "minute" THEN minuteCalls ELSE dayCalls
Marked(scope, q) == IF scope = "minute" THEN q.inMinute ELSE q.inDay
LimitOf(scope) == IF scope = "minute" THEN MinuteLimit ELSE DayLimit
ReserveOf(scope) == IF scope = "minute" THEN MinuteReserve ELSE DayReserve

\* A request has reserved a unit of the window m for a workload of W, and its call has not
\* left yet.
Holds(q, scope, m, W) ==
    /\ q.pc = "alert" /\ Marked(scope, q)
    /\ WindowOf(scope, q.stamp) = m /\ Workload(q.kind) \in W

Holders(scope, m, W) == {r \in Requests : Holds(request[r], scope, m, W)}

\* The units of a window that are used or about to be.
Booked(scope, m, W) == SumOver(CallsOf(scope)[m], W) + Cardinality(Holders(scope, m, W))

\* The workloads that leave at least what w leaves, and what they may take together.
Peers(scope, w) == {v \in Workloads : ReserveOf(scope)[v] >= ReserveOf(scope)[w]}
Share(scope, w) ==
    IF LimitOf(scope) > ReserveOf(scope)[w] THEN LimitOf(scope) - ReserveOf(scope)[w] ELSE 0

\* The current window's key counts whatever is booked in it, a window to come has no calls,
\* and no window's bookings exceed the workloads' shares.
WindowOK(scope, m) ==
    /\ m = WindowOf(scope, now) => Booked(scope, m, Workloads) <= Held(KeysOf(scope)[m])
    /\ m > WindowOf(scope, now) => \A w \in Workloads : CallsOf(scope)[m][w] = 0
    /\ \A w \in Workloads : Booked(scope, m, Peers(scope, w)) <= Share(scope, w)

ReservesOK == \A scope \in Scopes : \A m \in Windows(scope) : WindowOK(scope, m)

LEMMA SumTyped ==
    ASSUME NEW f \in [Workloads -> Nat], NEW W
    PROVE  /\ SumOver(f, W) \in Nat
           /\ SumOver(f, W) <= SumOver(f, Workloads)
           /\ (\A w \in Workloads : f[w] = 0) => SumOver(f, W) = 0
<1>1. f["parse"] \in Nat /\ f["chat-fallback"] \in Nat /\ f["summary"] \in Nat
  BY DEF Workloads
<1>2. "parse" \in Workloads /\ "chat-fallback" \in Workloads /\ "summary" \in Workloads
  BY DEF Workloads
<1>3. SumOver(f, Workloads) = f["parse"] + f["chat-fallback"] + f["summary"]
  BY <1>2 DEF SumOver
<1> QED
  BY <1>1, <1>2, <1>3 DEF SumOver

LEMMA SumGrows ==
    ASSUME NEW f \in [Workloads -> Nat], NEW w \in Workloads, NEW W \in SUBSET Workloads
    PROVE  LET g == [f EXCEPT ![w] = @ + 1] IN
           /\ g \in [Workloads -> Nat]
           /\ SumOver(g, W) = SumOver(f, W) + IF w \in W THEN 1 ELSE 0
<1> DEFINE g == [f EXCEPT ![w] = @ + 1]
<1>1. f["parse"] \in Nat /\ f["chat-fallback"] \in Nat /\ f["summary"] \in Nat
  BY DEF Workloads
<1>2. g \in [Workloads -> Nat]
  OBVIOUS
<1>3. \A v \in Workloads : g[v] = IF v = w THEN f[v] + 1 ELSE f[v]
  OBVIOUS
<1>4. "parse" \in Workloads /\ "chat-fallback" \in Workloads /\ "summary" \in Workloads
  BY DEF Workloads
<1>5. w = "parse" \/ w = "chat-fallback" \/ w = "summary"
  BY DEF Workloads
<1> HIDE DEF g
<1>6. CASE w = "parse"
  BY <1>1, <1>3, <1>4, <1>6 DEF SumOver
<1>7. CASE w = "chat-fallback"
  BY <1>1, <1>3, <1>4, <1>7 DEF SumOver
<1>8. CASE w = "summary"
  BY <1>1, <1>3, <1>4, <1>8 DEF SumOver
<1> QED
  BY <1>2, <1>5, <1>6, <1>7, <1>8 DEF g

LEMMA HoldersFinite ==
    ASSUME NEW scope, NEW m, NEW W
    PROVE  IsFiniteSet(Holders(scope, m, W)) /\ Cardinality(Holders(scope, m, W)) \in Nat
<1>1. Holders(scope, m, W) \subseteq Requests
  BY DEF Holders
<1> QED
  BY <1>1, NoneAssumption, FS_Subset, FS_CardinalityType

LEMMA CallsTypedOf ==
    ASSUME TypeOK, NEW scope \in Scopes
    PROVE  CallsOf(scope) \in [Windows(scope) -> [Workloads -> Nat]]
BY ScopesNamed DEF TypeOK, CallsOf, Scopes

LEMMA BookedTyped ==
    ASSUME TypeOK, NEW scope \in Scopes, NEW m \in Windows(scope), NEW W \in SUBSET Workloads
    PROVE  /\ Booked(scope, m, W) \in Nat
           /\ Booked(scope, m, W) <= Booked(scope, m, Workloads)
<1>1. CallsOf(scope)[m] \in [Workloads -> Nat]
  BY CallsTypedOf
<1>2. Holders(scope, m, W) \subseteq Holders(scope, m, Workloads)
  BY DEF Holders, Holds
<1>3. /\ Cardinality(Holders(scope, m, W)) \in Nat
      /\ Cardinality(Holders(scope, m, Workloads)) \in Nat
      /\ Cardinality(Holders(scope, m, W)) <= Cardinality(Holders(scope, m, Workloads))
  BY <1>2, HoldersFinite, FS_Subset
<1>4. /\ SumOver(CallsOf(scope)[m], W) \in Nat
      /\ SumOver(CallsOf(scope)[m], Workloads) \in Nat
      /\ SumOver(CallsOf(scope)[m], W) <= SumOver(CallsOf(scope)[m], Workloads)
  BY <1>1, SumTyped
<1> QED
  BY <1>3, <1>4 DEF Booked

LEMMA HeldTyped ==
    ASSUME NEW key \in Key
    PROVE  Held(key) \in Nat
BY DEF Held, Key

LEMMA ShareTyped ==
    ASSUME NEW scope \in Scopes, NEW w \in Workloads
    PROVE  /\ Share(scope, w) \in Nat /\ ReserveOf(scope)[w] \in Nat /\ LimitOf(scope) \in Nat
           /\ Peers(scope, w) \in SUBSET Workloads
<1>1. ReserveOf(scope)[w] \in Nat /\ LimitOf(scope) \in Nat
  BY LimitAssumption DEF LimitsConfigured, ReservesConfigured, ReserveOf, LimitOf, Scopes
<1> QED
  BY <1>1 DEF Share, Peers

\* A step that books nothing and lets no unit of the current window go.
LEMMA NothingBooked ==
    ASSUME TypeOK, TypeOK', now' = now,
           NEW scope \in Scopes, NEW m \in Windows(scope), WindowOK(scope, m),
           CallsOf(scope)'[m] = CallsOf(scope)[m],
           \A W \in SUBSET Workloads : Holders(scope, m, W)' \subseteq Holders(scope, m, W),
           m = WindowOf(scope, now) => Held(KeysOf(scope)'[m]) >= Held(KeysOf(scope)[m])
    PROVE  WindowOK(scope, m)'
<1>1. ASSUME NEW W \in SUBSET Workloads
      PROVE  Booked(scope, m, W)' \in Int /\ Booked(scope, m, W)' <= Booked(scope, m, W)
             /\ Booked(scope, m, W) \in Nat
  <2>1. Holders(scope, m, W)' \subseteq Holders(scope, m, W)
    OBVIOUS
  <2>2. /\ Cardinality(Holders(scope, m, W)') \in Nat
        /\ Cardinality(Holders(scope, m, W)) \in Nat
        /\ Cardinality(Holders(scope, m, W)') <= Cardinality(Holders(scope, m, W))
    BY <2>1, HoldersFinite, FS_Subset, FS_CardinalityType
  <2>3. SumOver(CallsOf(scope)[m], W) \in Nat
    BY CallsTypedOf, SumTyped
  <2>4. Booked(scope, m, W)' = SumOver(CallsOf(scope)[m], W) + Cardinality(Holders(scope, m, W)')
    BY DEF Booked, SumOver
  <2> QED
    BY <2>2, <2>3, <2>4 DEF Booked
<1>2. KeysOf(scope)[m] \in Key /\ KeysOf(scope)'[m] \in Key
  <2>1. KeysOf(scope)' \in [Windows(scope) -> Key]
    BY ScopesNamed DEF TypeOK, KeysOf, Scopes
  <2> QED
    BY <2>1, KeysTyped
<1>3. Held(KeysOf(scope)[m])' = Held(KeysOf(scope)'[m])
      /\ Held(KeysOf(scope)[m]) \in Nat /\ Held(KeysOf(scope)'[m]) \in Nat
  BY <1>2, HeldTyped DEF Held
<1>4. m = WindowOf(scope, now) => Booked(scope, m, Workloads)' <= Held(KeysOf(scope)[m])'
  BY <1>1, <1>3 DEF WindowOK
<1>5. m > WindowOf(scope, now) => \A w \in Workloads : CallsOf(scope)'[m][w] = 0
  BY DEF WindowOK
<1>6. ASSUME NEW w \in Workloads
      PROVE  Booked(scope, m, Peers(scope, w))' <= Share(scope, w)
  <2>1. Booked(scope, m, Peers(scope, w)) <= Share(scope, w)
    BY DEF WindowOK
  <2>2. Peers(scope, w) \in SUBSET Workloads /\ Share(scope, w) \in Nat
    BY ShareTyped
  <2>3. /\ Booked(scope, m, Peers(scope, w))' \in Int
        /\ Booked(scope, m, Peers(scope, w)) \in Nat
        /\ Booked(scope, m, Peers(scope, w))' <= Booked(scope, m, Peers(scope, w))
    BY <1>1, <2>2
  <2> QED
    BY <2>1, <2>2, <2>3
<1> QED
  BY <1>4, <1>5, <1>6 DEF WindowOK

\* A request that does not hold a unit afterwards.
LEMMA HoldersShrink ==
    ASSUME TypeOK, NEW r \in Requests, Moves(r), NEW scope \in Scopes, NEW m, NEW W,
           Holds(request'[r], scope, m, W) => Holds(request[r], scope, m, W)
    PROVE  Holders(scope, m, W)' \subseteq Holders(scope, m, W)
<1>1. \A x \in Requests \ {r} : request'[x] = request[x]
  BY RequestBecomes DEF Moves
<1>2. Holders(scope, m, W)' = {x \in Requests : Holds(request'[x], scope, m, W)}
  BY DEF Holders, Holds, Marked
<1> QED
  BY <1>1, <1>2 DEF Holders

LEMMA HeldCounts ==
    ASSUME TypeOK, RequestsOK, KeysOK, NEW r \in Requests, Counts(r),
           NEW scope \in Scopes, NEW m \in Windows(scope)
    PROVE  Held(KeysOf(scope)'[m]) =
              Held(KeysOf(scope)[m]) + IF m = WindowOf(scope, request[r].stamp) THEN 1 ELSE 0
<1> DEFINE s == WindowOf(scope, request[r].stamp)
<1>1. /\ KeysOf(scope)' = [KeysOf(scope) EXCEPT ![s] = KeysOf(scope)'[s]]
      /\ now < KeysOf(scope)'[s].until
      /\ KeysOf(scope)'[s].count = Held(KeysOf(scope)[s]) + 1
  BY CountsKeys, KeysTyped
<1> HIDE DEF s
<1>2. KeysOf(scope) \in [Windows(scope) -> Key] /\ Held(KeysOf(scope)[m]) \in Nat
  BY KeysTyped, HeldTyped
<1>3. CASE m = s
  BY <1>1, <1>2, <1>3 DEF Held, s
<1>4. CASE m # s
  <2>1. KeysOf(scope)'[m] = KeysOf(scope)[m]
    BY <1>1, <1>2, <1>4
  <2> QED
    BY <1>2, <1>4, <2>1 DEF s
<1> QED
  BY <1>3, <1>4

\* What a reservation does to its request, and what it has checked.
LEMMA Reserved ==
    ASSUME TypeOK, NEW r \in Requests, Reserve(r), NEW scope \in Scopes
    PROVE  /\ request[r].pc = "script" /\ request'[r].pc = "alert"
           /\ request'[r].stamp = request[r].stamp /\ request'[r].kind = request[r].kind
           /\ Marked(scope, request'[r]) <=>
                 WindowOf(scope, now) = WindowOf(scope, request[r].stamp)
           /\ Held(KeysOf(scope)[WindowOf(scope, request[r].stamp)]) + 1
                 <= LimitOf(scope) - ReserveOf(scope)[Workload(request[r].kind)]
<1> PICK p \in Request : p = request[r]
  BY DEF TypeOK
<1> DEFINE a == MinuteOf(now) = MinuteOf(p.stamp)
           b == DayOf(now) = DayOf(p.stamp)
           c == Reached(dayKeys'[DayOf(p.stamp)].count)
<1>1. request'[r] = [p EXCEPT !.pc = "alert", !.inMinute = a, !.inDay = b, !.todo = c]
      /\ p.pc = "script" /\ Counts(r)
  BY DEF Reserve, At, Becomes, TypeOK
<1>2. /\ request'[r].pc = "alert" /\ request'[r].stamp = p.stamp /\ request'[r].kind = p.kind
      /\ request'[r].inMinute = a /\ request'[r].inDay = b
  <2> HIDE DEF a, b, c
  <2> QED
    BY <1>1 DEF Request
<1>3. Marked(scope, request'[r]) <=> WindowOf(scope, now) = WindowOf(scope, p.stamp)
  <2>1. CASE scope = "minute"
    <3>1. a <=> WindowOf("minute", now) = WindowOf("minute", p.stamp)
      BY ScopesNamed
    <3>2. Marked(scope, request'[r]) = a
      BY <1>2, <2>1 DEF Marked
    <3> HIDE DEF a
    <3> QED
      BY <2>1, <3>1, <3>2
  <2>2. CASE scope = "day"
    <3>1. b <=> WindowOf("day", now) = WindowOf("day", p.stamp)
      BY ScopesNamed
    <3>2. Marked(scope, request'[r]) = b
      BY <1>2, <2>2 DEF Marked
    <3> HIDE DEF b
    <3> QED
      BY <2>2, <3>1, <3>2
  <2> QED
    BY <2>1, <2>2 DEF Scopes
<1>4. /\ KeysOf(scope)[WindowOf(scope, p.stamp)]
            = IF scope = "minute" THEN MinuteKey(r) ELSE DayKey(r)
  BY ScopesNamed DEF KeysOf, MinuteKey, DayKey, Scopes
<1>5. ~MinuteFull(r) /\ ~DayFull(r)
  BY <1>1 DEF Counts
<1>6. /\ KeysOf("minute")[WindowOf("minute", p.stamp)] \in Key
      /\ KeysOf("day")[WindowOf("day", p.stamp)] \in Key
  BY KeysTyped, WindowFacts DEF Scopes, Request
<1>7. MinuteKey(r) \in Key /\ DayKey(r) \in Key
  BY <1>6, ScopesNamed DEF KeysOf, MinuteKey, DayKey
<1>8. Workload(p.kind) \in Workloads
  BY DEF Workload, Workloads
<1>9. /\ MinuteReserve[Workload(p.kind)] \in Nat /\ DayReserve[Workload(p.kind)] \in Nat
      /\ MinuteLimit \in Nat /\ DayLimit \in Nat
  BY <1>8, LimitAssumption DEF LimitsConfigured, ReservesConfigured
<1>10. /\ Held(MinuteKey(r)) + 1 <= MinuteLimit - MinuteReserve[Workload(p.kind)]
       /\ Held(DayKey(r)) + 1 <= DayLimit - DayReserve[Workload(p.kind)]
  BY <1>5, <1>7, <1>9, HeldTyped DEF MinuteFull, DayFull
<1>11. Held(KeysOf(scope)[WindowOf(scope, p.stamp)]) + 1
          <= LimitOf(scope) - ReserveOf(scope)[Workload(p.kind)]
  BY <1>4, <1>10 DEF LimitOf, ReserveOf, Scopes
<1> QED
  BY <1>1, <1>2, <1>3, <1>11

\* A reservation within its window books one unit, for its workload.
LEMMA BookedGrows ==
    ASSUME TypeOK, NEW r \in Requests, Moves(r), Reserve(r), NEW scope \in Scopes,
           NEW m \in Windows(scope), m = WindowOf(scope, request[r].stamp),
           m = WindowOf(scope, now), NEW W \in SUBSET Workloads
    PROVE  Booked(scope, m, W)' =
              Booked(scope, m, W) + IF Workload(request[r].kind) \in W THEN 1 ELSE 0
<1>1. \A x \in Requests \ {r} : request'[x] = request[x]
  BY RequestBecomes DEF Moves
<1>2. ~Holds(request[r], scope, m, W)
      /\ (Holds(request'[r], scope, m, W) <=> Workload(request[r].kind) \in W)
  BY Reserved DEF Holds
<1>3. Holders(scope, m, W)' = {x \in Requests : Holds(request'[x], scope, m, W)}
  BY DEF Holders, Holds, Marked
<1>4. r \notin Holders(scope, m, W)
  BY <1>2 DEF Holders
<1>5. Holders(scope, m, W)' = IF Workload(request[r].kind) \in W
                              THEN Holders(scope, m, W) \cup {r} ELSE Holders(scope, m, W)
  BY <1>1, <1>2, <1>3 DEF Holders
<1>6. Cardinality(Holders(scope, m, W)') =
         Cardinality(Holders(scope, m, W)) + IF Workload(request[r].kind) \in W THEN 1 ELSE 0
  <2>1. /\ IsFiniteSet(Holders(scope, m, W)) /\ Cardinality(Holders(scope, m, W)) \in Nat
        /\ Cardinality(Holders(scope, m, W) \cup {r}) = Cardinality(Holders(scope, m, W)) + 1
    BY <1>4, HoldersFinite, FS_AddElement
  <2>2. CASE Workload(request[r].kind) \in W
    <3>1. Holders(scope, m, W)' = Holders(scope, m, W) \cup {r}
      BY <1>5, <2>2
    <3> QED
      BY <2>1, <2>2, <3>1
  <2>3. CASE Workload(request[r].kind) \notin W
    <3>1. Holders(scope, m, W)' = Holders(scope, m, W)
      BY <1>5, <2>3
    <3> QED
      BY <2>1, <2>3, <3>1
  <2> QED
    BY <2>2, <2>3
<1>7. SumOver(CallsOf(scope)[m], W) \in Nat /\ CallsOf(scope)' = CallsOf(scope)
  BY CallsTypedOf, SumTyped DEF Reserve, history, CallsOf
<1>8. Booked(scope, m, W)' = SumOver(CallsOf(scope)[m], W) + Cardinality(Holders(scope, m, W)')
  BY <1>7 DEF Booked, SumOver
<1> QED
  BY <1>6, <1>7, <1>8, HoldersFinite DEF Booked

LEMMA ReserveBooks ==
    ASSUME TypeInv, TypeOK', now' = now, NEW r \in Requests, Moves(r), Reserve(r),
           NEW scope \in Scopes, NEW m \in Windows(scope), WindowOK(scope, m)
    PROVE  WindowOK(scope, m)'
<1> DEFINE s == WindowOf(scope, request[r].stamp)
           u == Workload(request[r].kind)
<1>0. Counts(r) /\ CallsOf(scope)' = CallsOf(scope)
  BY DEF Reserve, history, CallsOf
<1>1. CASE m = s /\ m = WindowOf(scope, now)
  <2>1. u \in Workloads /\ u \in Workloads \cap Workloads
    BY DEF Workload, Workloads
  <2>2. \A W \in SUBSET Workloads :
           Booked(scope, m, W)' = Booked(scope, m, W) + IF u \in W THEN 1 ELSE 0
    BY <1>1, BookedGrows DEF TypeInv
  <2>3. KeysOf(scope)[m] \in Key /\ Held(KeysOf(scope)[m]) \in Nat
    BY KeysTyped, HeldTyped DEF TypeInv
  <2>4. Held(KeysOf(scope)[m])' = Held(KeysOf(scope)[m]) + 1
    <3>1. Held(KeysOf(scope)[m])' = Held(KeysOf(scope)'[m])
      BY DEF Held
    <3>2. Held(KeysOf(scope)'[m]) = Held(KeysOf(scope)[m]) + 1
      BY <1>0, <1>1, HeldCounts DEF TypeInv
    <3> QED
      BY <3>1, <3>2
  <2>5. Booked(scope, m, Workloads) \in Nat
        /\ Booked(scope, m, Workloads) <= Held(KeysOf(scope)[m])
    BY <1>1, BookedTyped DEF WindowOK, TypeInv
  <2>6. Booked(scope, m, Workloads)' <= Held(KeysOf(scope)[m])'
    <3>1. Booked(scope, m, Workloads)' = Booked(scope, m, Workloads) + 1
      BY <2>1, <2>2
    <3> QED
      BY <2>3, <2>4, <2>5, <3>1
  <2>7. ASSUME NEW w \in Workloads
        PROVE  Booked(scope, m, Peers(scope, w))' <= Share(scope, w)
    <3> DEFINE W == Peers(scope, w)
    <3>1. /\ Booked(scope, m, W) \in Nat /\ Booked(scope, m, W) <= Booked(scope, m, Workloads)
          /\ Booked(scope, m, W) <= Share(scope, w) /\ W \in SUBSET Workloads
          /\ Share(scope, w) \in Nat
      BY ShareTyped, BookedTyped DEF WindowOK, TypeInv
    <3>2. CASE u \notin W
      <4> HIDE DEF W, u
      <4>1. Booked(scope, m, W)' = Booked(scope, m, W)
        BY <2>2, <3>1, <3>2
      <4> QED
        BY <3>1, <4>1 DEF W
    <3>3. CASE u \in W
      <4>1. ReserveOf(scope)[u] >= ReserveOf(scope)[w]
        BY <3>3 DEF Peers
      <4>2. /\ ReserveOf(scope)[u] \in Nat /\ ReserveOf(scope)[w] \in Nat
            /\ LimitOf(scope) \in Nat
        BY <2>1, ShareTyped
      <4>3. Held(KeysOf(scope)[m]) + 1 <= LimitOf(scope) - ReserveOf(scope)[u]
        BY <1>1, Reserved DEF TypeInv
      <4>4. Held(KeysOf(scope)[m]) + 1 <= Share(scope, w)
        BY <2>3, <4>1, <4>2, <4>3 DEF Share
      <4> HIDE DEF W, u
      <4>5. Booked(scope, m, W)' = Booked(scope, m, W) + 1
        BY <2>2, <3>1, <3>3
      <4> QED
        BY <2>3, <2>5, <3>1, <4>4, <4>5 DEF W
    <3> QED
      BY <3>2, <3>3
  <2> QED
    BY <1>0, <1>1, <2>6, <2>7 DEF WindowOK
<1>2. CASE ~(m = s /\ m = WindowOf(scope, now))
  <2>1. \A W \in SUBSET Workloads : ~Holds(request'[r], scope, m, W)
    BY <1>2, Reserved DEF Holds, TypeInv
  <2>2. \A W \in SUBSET Workloads : Holders(scope, m, W)' \subseteq Holders(scope, m, W)
    BY <2>1, HoldersShrink DEF TypeInv
  <2>3. Held(KeysOf(scope)'[m]) >= Held(KeysOf(scope)[m])
    BY <1>0, HeldCounts, HeldTyped, KeysTyped DEF TypeInv
  <2> QED
    BY <1>0, <2>2, <2>3, NothingBooked DEF TypeInv
<1> QED
  BY <1>1, <1>2

LEMMA OthersBookNothing ==
    ASSUME TypeInv, TypeOK', now' = now, NEW r \in Requests,
           ReplyLost(r) \/ (Moves(r) /\ (Quiet(r) \/ RaiseAlert(r))),
           NEW scope \in Scopes, NEW m \in Windows(scope), WindowOK(scope, m)
    PROVE  WindowOK(scope, m)'
<1>1. CallsOf(scope)' = CallsOf(scope)
  BY DEF ReplyLost, Quiet, RaiseAlert, history, CallsOf
<1>2. \A W \in SUBSET Workloads : Holders(scope, m, W)' \subseteq Holders(scope, m, W)
  <2>1. CASE ReplyLost(r)
    BY <2>1 DEF ReplyLost, Holders, Holds, Marked
  <2>2. CASE Moves(r) /\ Quiet(r)
    BY <2>2, HoldersShrink DEF Quiet, Holds, TypeInv
  <2>3. CASE Moves(r) /\ RaiseAlert(r)
    <3> PICK p \in Request : p = request[r]
      BY DEF TypeInv, TypeOK
    <3>1. PICK t \in p.todo : request'[r] = [p EXCEPT !.todo = @ \ {t}]
      BY <2>3 DEF RaiseAlert, Becomes, TypeInv, TypeOK
    <3>2. /\ request'[r].pc = p.pc /\ request'[r].inMinute = p.inMinute
          /\ request'[r].inDay = p.inDay /\ request'[r].stamp = p.stamp
          /\ request'[r].kind = p.kind
      BY <3>1 DEF Request
    <3>3. \A W \in SUBSET Workloads :
             Holds(request'[r], scope, m, W) => Holds(request[r], scope, m, W)
      BY <3>2 DEF Holds, Marked
    <3> QED
      BY <2>3, <3>3, HoldersShrink DEF TypeInv
  <2> QED
    BY <2>1, <2>2, <2>3
<1>3. Held(KeysOf(scope)'[m]) >= Held(KeysOf(scope)[m])
  <2>0. Held(KeysOf(scope)[m]) \in Nat
    BY HeldTyped, KeysTyped DEF TypeInv
  <2>1. CASE ReplyLost(r)
    BY <2>0, <2>1, HeldCounts DEF ReplyLost, TypeInv
  <2>2. CASE Quiet(r) \/ RaiseAlert(r)
    <3>1. KeysOf(scope)' = KeysOf(scope)
      BY <2>2 DEF Quiet, RaiseAlert, quota, KeysOf
    <3> QED
      BY <2>0, <3>1
  <2> QED
    BY <2>1, <2>2
<1> QED
  BY <1>1, <1>2, <1>3, NothingBooked DEF TypeInv

\* The window of a time before u is no later than that of u.
LEMMA EarlierWindow ==
    ASSUME NEW scope \in Scopes, NEW t \in 0 .. MaxTime, NEW u \in 0 .. MaxTime, t <= u
    PROVE  WindowOf(scope, t) <= WindowOf(scope, u)
BY WindowsGrow, WidthType DEF WindowOf

\* A call that leaves is counted where it was held.
LEMMA CallCounted ==
    ASSUME TypeInv, TypeOK', now' = now, NEW r \in Requests, Moves(r), Called(r),
           NEW scope \in Scopes, NEW m \in Windows(scope), NEW W \in SUBSET Workloads
    PROVE  Booked(scope, m, W)' = Booked(scope, m, W)
<1> PICK p \in Request : p = request[r]
  BY DEF TypeInv, TypeOK
<1> DEFINE s == WindowOf(scope, p.stamp)
           w == Workload(p.kind)
           f == CallsOf(scope)[m]
           g == CallsOf(scope)'[m]
<1>1. w \in Workloads /\ s \in Windows(scope)
  BY WindowFacts DEF Workload, Workloads, Request
<1>2. p.pc = "alert" /\ request'[r].pc # "alert"
  BY DEF Called, Leaves, At
<1>3. CallsOf(scope)' = [CallsOf(scope) EXCEPT ![s][w] = IF Marked(scope, p) THEN @ + 1 ELSE @]
  BY ScopesNamed DEF Called, Leaves, CallsOf, Marked, Scopes
<1>4. CallsOf(scope) \in [Windows(scope) -> [Workloads -> Nat]] /\ f \in [Workloads -> Nat]
  BY CallsTypedOf DEF TypeInv
<1>5. CASE m = s /\ Marked(scope, p)
  <2> HIDE DEF w, s
  <2>1. g = [f EXCEPT ![w] = @ + 1]
    BY <1>1, <1>3, <1>4, <1>5
  <2>2. SumOver(g, W) = SumOver(f, W) + IF w \in W THEN 1 ELSE 0
    <3> HIDE DEF f, g
    <3> QED
      BY <1>1, <1>4, <2>1, SumGrows
  <2>3. \A x \in Requests \ {r} : request'[x] = request[x]
    BY RequestBecomes DEF Moves, TypeInv
  <2>4. Holders(scope, m, W)' = {x \in Requests : Holds(request'[x], scope, m, W)}
    BY DEF Holders, Holds, Marked
  <2>5. Holds(p, scope, m, W) <=> w \in W
    BY <1>2, <1>5 DEF Holds, w, s
  <2>6. ~Holds(request'[r], scope, m, W)
    BY <1>2 DEF Holds
  <2>7. /\ IsFiniteSet(Holders(scope, m, W)) /\ Cardinality(Holders(scope, m, W)) \in Nat
        /\ SumOver(f, W) \in Nat
    BY <1>4, HoldersFinite, SumTyped
  <2>8. Booked(scope, m, W)' = SumOver(g, W) + Cardinality(Holders(scope, m, W)')
    BY DEF Booked, SumOver
  <2>9. CASE w \in W
    <3>1. Holders(scope, m, W)' = Holders(scope, m, W) \ {r} /\ r \in Holders(scope, m, W)
      BY <2>3, <2>4, <2>5, <2>6, <2>9 DEF Holders
    <3>2. Cardinality(Holders(scope, m, W)') = Cardinality(Holders(scope, m, W)) - 1
      <4> DEFINE H == Holders(scope, m, W)
      <4>1. IsFiniteSet(H) /\ r \in H /\ Holders(scope, m, W)' = H \ {r}
        BY <2>7, <3>1
      <4> HIDE DEF H
      <4>2. Cardinality(H \ {r}) = Cardinality(H) - 1
        BY <4>1, FS_RemoveElement
      <4> QED
        BY <4>1, <4>2 DEF H
    <3> HIDE DEF f, g
    <3> QED
      BY <2>2, <2>7, <2>8, <2>9, <3>2 DEF Booked, f
  <2>10. CASE w \notin W
    <3>1. Holders(scope, m, W)' = Holders(scope, m, W)
      BY <2>3, <2>4, <2>5, <2>6, <2>10 DEF Holders
    <3> HIDE DEF f, g
    <3> QED
      BY <2>2, <2>7, <2>8, <2>10, <3>1 DEF Booked, f
  <2> QED
    BY <2>9, <2>10
<1>6. CASE ~(m = s /\ Marked(scope, p))
  <2>1. g = f
    <3> HIDE DEF w, s
    <3>1. CASE m # s
      BY <1>1, <1>3, <1>4, <3>1
    <3>2. CASE m = s /\ ~Marked(scope, p)
      BY <1>1, <1>3, <1>4, <3>2
    <3> QED
      BY <1>6, <3>1, <3>2
  <2>2. ~Holds(p, scope, m, W) /\ ~Holds(request'[r], scope, m, W)
    BY <1>2, <1>6 DEF Holds
  <2>3. Holders(scope, m, W)' = Holders(scope, m, W)
    <3>1. \A x \in Requests \ {r} : request'[x] = request[x]
      BY RequestBecomes DEF Moves, TypeInv
    <3>2. Holders(scope, m, W)' = {x \in Requests : Holds(request'[x], scope, m, W)}
      BY DEF Holders, Holds, Marked
    <3> QED
      BY <2>2, <3>1, <3>2 DEF Holders
  <2> QED
    BY <2>1, <2>3 DEF Booked, SumOver
<1> QED
  BY <1>5, <1>6

LEMMA CalledBooks ==
    ASSUME TypeInv, TypeOK', now' = now, NEW r \in Requests, Moves(r), Called(r),
           NEW scope \in Scopes, NEW m \in Windows(scope), WindowOK(scope, m)
    PROVE  WindowOK(scope, m)'
<1> PICK p \in Request : p = request[r]
  BY DEF TypeInv, TypeOK
<1> DEFINE s == WindowOf(scope, p.stamp)
           w == Workload(p.kind)
<1>1. KeysOf(scope)' = KeysOf(scope)
  BY DEF Called, Leaves, quota, KeysOf
<1>2. m = WindowOf(scope, now) => Booked(scope, m, Workloads)' <= Held(KeysOf(scope)[m])'
  <2>1. Booked(scope, m, Workloads)' = Booked(scope, m, Workloads)
    BY CallCounted
  <2> QED
    BY <1>1, <2>1 DEF WindowOK, Held
<1>3. ASSUME m > WindowOf(scope, now), NEW v \in Workloads
      PROVE  CallsOf(scope)'[m][v] = 0
  <2>1. m # s
    <3>1. s <= WindowOf(scope, now) /\ s \in Nat /\ WindowOf(scope, now) \in Nat
      BY EarlierWindow, WindowFacts DEF TypeInv, TypeOK, RequestsOK, RecordOK, Request
    <3> HIDE DEF s
    <3> QED
      BY <1>3, <3>1
  <2>2. CallsOf(scope)' = [CallsOf(scope) EXCEPT ![s][w] =
                              IF Marked(scope, p) THEN @ + 1 ELSE @]
    BY ScopesNamed DEF Called, Leaves, CallsOf, Marked, Scopes
  <2>3. CallsOf(scope) \in [Windows(scope) -> [Workloads -> Nat]]
    BY CallsTypedOf DEF TypeInv
  <2> HIDE DEF s, w
  <2>4. CallsOf(scope)'[m] = CallsOf(scope)[m]
    BY <2>1, <2>2, <2>3
  <2> QED
    BY <1>3, <2>4 DEF WindowOK
<1>4. ASSUME NEW v \in Workloads
      PROVE  Booked(scope, m, Peers(scope, v))' <= Share(scope, v)
  <2>1. Booked(scope, m, Peers(scope, v))' = Booked(scope, m, Peers(scope, v))
    BY ShareTyped, CallCounted
  <2> QED
    BY <2>1 DEF WindowOK
<1> QED
  BY <1>2, <1>3, <1>4 DEF WindowOK

\* The clock moves on: the keys of a window that is not over are kept, and nothing has been
\* booked in a window that begins.
LEMMA TickBooks ==
    ASSUME TypeInv, TypeOK', Tick,
           NEW scope \in Scopes, NEW m \in Windows(scope), WindowOK(scope, m)
    PROVE  WindowOK(scope, m)'
<1>1. /\ now \in 0 .. MaxTime /\ now' \in 0 .. MaxTime /\ now \in Nat /\ now' = now + 1
      /\ m \in Nat
  BY ScopesNamed, TimeTyped, ClockAssumption DEF TypeInv, TypeOK, Tick, Scopes
<1>2. /\ WindowOf(scope, now) \in Nat /\ WindowOf(scope, now') \in Nat
      /\ WindowOf(scope, now) <= WindowOf(scope, now')
  BY <1>1, WindowFacts, EarlierWindow
<1>3. ASSUME NEW W \in SUBSET Workloads
      PROVE  Booked(scope, m, W)' = Booked(scope, m, W)
  <2>1. CallsOf(scope)' = CallsOf(scope)
    BY DEF Tick, history, CallsOf
  <2>2. Holders(scope, m, W)' = Holders(scope, m, W)
    BY DEF Tick, Holders, Holds, Marked
  <2> QED
    BY <2>1, <2>2 DEF Booked, SumOver
<1>4. ASSUME m = WindowOf(scope, now')
      PROVE  Booked(scope, m, Workloads) <= Held(KeysOf(scope)[m])'
  <2>0. KeysOf(scope)[m] \in Key /\ KeysOf(scope)'[m] \in Key
        /\ KeysOf(scope)'[m] = Expired(KeysOf(scope)[m])
    BY KeysTyped, TickKeys DEF TypeInv
  <2>1. Held(KeysOf(scope)[m])' \in Nat
    <3>1. Held(KeysOf(scope)[m])' = IF now' < KeysOf(scope)'[m].until
                                    THEN KeysOf(scope)'[m].count ELSE 0
      BY DEF Held
    <3> QED
      BY <2>0, <3>1 DEF Key
  <2>2. CASE m = WindowOf(scope, now)
    <3>1. Held(KeysOf(scope)[m])' = Held(KeysOf(scope)[m])
      <4>1. EndOf(scope, m) \in Nat /\ now' < EndOf(scope, m)
        BY <1>1, <1>4, WindowFacts
      <4>2. KeysOf(scope)[m].until = 0 \/ KeysOf(scope)[m].until >= EndOf(scope, m)
        BY DEF TypeInv, KeysOK
      <4>3. KeysOf(scope)[m].until \in Nat
        BY <2>0 DEF Key
      <4>4. CASE KeysOf(scope)[m].until = 0
        <5>1. Held(KeysOf(scope)[m]) = 0
          BY <1>1, <4>4 DEF Held
        <5>2. KeysOf(scope)'[m] = NoKey
          BY <1>1, <2>0, <4>4 DEF Expired
        <5> QED
          BY <1>1, <5>1, <5>2 DEF Held, NoKey
      <4>5. CASE KeysOf(scope)[m].until >= EndOf(scope, m)
        <5>1. now' < KeysOf(scope)[m].until /\ now < KeysOf(scope)[m].until
          BY <1>1, <4>1, <4>3, <4>5
        <5>2. KeysOf(scope)'[m] = KeysOf(scope)[m]
          BY <1>1, <2>0, <5>1 DEF Expired
        <5> QED
          BY <5>1, <5>2 DEF Held
      <4> QED
        BY <4>2, <4>4, <4>5
    <3> QED
      BY <2>2, <3>1 DEF WindowOK
  <2>3. CASE m # WindowOf(scope, now)
    <3>1. m > WindowOf(scope, now)
      BY <1>1, <1>2, <1>4, <2>3
    <3>2. SumOver(CallsOf(scope)[m], Workloads) = 0
      <4>1. CallsOf(scope)[m] \in [Workloads -> Nat]
        BY CallsTypedOf DEF TypeInv
      <4>2. \A v \in Workloads : CallsOf(scope)[m][v] = 0
        BY <3>1 DEF WindowOK
      <4> QED
        BY <4>1, <4>2, SumTyped
    <3>3. Holders(scope, m, Workloads) = {}
      <4> SUFFICES ASSUME NEW r \in Requests, Holds(request[r], scope, m, Workloads)
                   PROVE  FALSE
        BY DEF Holders
      <4>1. request[r].stamp \in 0 .. MaxTime /\ request[r].stamp <= now
        BY DEF TypeInv, TypeOK, Request, RequestsOK, RecordOK
      <4>2. WindowOf(scope, request[r].stamp) <= WindowOf(scope, now)
        BY <1>1, <4>1, EarlierWindow
      <4> QED
        BY <1>1, <1>2, <3>1, <4>2 DEF Holds
    <3> QED
      BY <2>1, <3>2, <3>3, FS_EmptySet DEF Booked
  <2> QED
    BY <2>2, <2>3
<1>5. ASSUME m > WindowOf(scope, now')
      PROVE  \A w \in Workloads : CallsOf(scope)'[m][w] = 0
  <2>1. m > WindowOf(scope, now)
    BY <1>1, <1>2, <1>5
  <2> QED
    BY <2>1 DEF Tick, history, CallsOf, WindowOK
<1>6. Booked(scope, m, Workloads)' = Booked(scope, m, Workloads)
  BY <1>3
<1>7. \A w \in Workloads : Booked(scope, m, Peers(scope, w))' <= Share(scope, w)
  BY <1>3, ShareTyped DEF WindowOK
<1> QED
  BY <1>4, <1>5, <1>6, <1>7 DEF WindowOK

LEMMA ReservesKept ==
    ASSUME TypeInv, ReservesOK, [Next]_vars
    PROVE  ReservesOK'
<1> SUFFICES ASSUME NEW scope \in Scopes, NEW m \in Windows(scope)
             PROVE  WindowOK(scope, m)'
  BY DEF ReservesOK
<1>0. WindowOK(scope, m) /\ TypeOK'
  BY TypeInvKept DEF ReservesOK, TypeInv
<1>1. CASE UNCHANGED vars
  <2>1. /\ now' = now /\ request' = request
        /\ KeysOf(scope)' = KeysOf(scope) /\ CallsOf(scope)' = CallsOf(scope)
    BY <1>1 DEF vars, quota, history, KeysOf, CallsOf
  <2>2. Held(KeysOf(scope)[m])' = Held(KeysOf(scope)[m])
    BY <2>1 DEF Held
  <2>3. \A W : Booked(scope, m, W)' = Booked(scope, m, W)
    BY <2>1 DEF Booked, SumOver, Holders, Holds, Marked
  <2> QED
    BY <1>0, <2>1, <2>2, <2>3 DEF WindowOK
<1>2. CASE Tick
  BY <1>0, <1>2, TickBooks
<1>3. ASSUME NEW r \in Requests, now' = now,
             \/ ReplyLost(r)
             \/ Moves(r) /\ (Quiet(r) \/ Reserve(r) \/ RaiseAlert(r) \/ Called(r))
      PROVE  WindowOK(scope, m)'
  <2>1. CASE ReplyLost(r) \/ (Moves(r) /\ (Quiet(r) \/ RaiseAlert(r)))
    BY <1>0, <1>3, <2>1, OthersBookNothing
  <2>2. CASE Moves(r) /\ Reserve(r)
    BY <1>0, <1>3, <2>2, ReserveBooks
  <2>3. CASE Moves(r) /\ Called(r)
    BY <1>0, <1>3, <2>3, CalledBooks
  <2> QED
    BY <1>3, <2>1, <2>2, <2>3
<1> QED
  BY <1>1, <1>2, <1>3, Steps DEF TypeInv

LEMMA InitReserves == Init => ReservesOK
<1> SUFFICES ASSUME Init, NEW scope \in Scopes, NEW m \in Windows(scope)
             PROVE  WindowOK(scope, m)
  BY DEF ReservesOK
<1>1. CallsOf(scope) = [x \in Windows(scope) |-> [w \in Workloads |-> 0]]
  BY ScopesNamed DEF Init, CallsOf, Scopes
<1>2. KeysOf(scope)[m] = NoKey /\ now = 0
  BY ScopesNamed DEF Init, KeysOf, Scopes
<1>3. ASSUME NEW W \in SUBSET Workloads
      PROVE  Booked(scope, m, W) = 0
  <2>1. Holders(scope, m, W) = {}
    BY IdleTyped DEF Init, Holders, Holds
  <2>2. SumOver(CallsOf(scope)[m], W) = 0
    BY <1>1, SumTyped
  <2> QED
    BY <2>1, <2>2, FS_EmptySet DEF Booked
<1>4. Held(KeysOf(scope)[m]) = 0
  BY <1>2 DEF Held, NoKey
<1>5. \A w \in Workloads : Booked(scope, m, Peers(scope, w)) <= Share(scope, w)
  <2> SUFFICES ASSUME NEW w \in Workloads
               PROVE  Booked(scope, m, Peers(scope, w)) <= Share(scope, w)
    OBVIOUS
  <2>1. Booked(scope, m, Peers(scope, w)) = 0 /\ Share(scope, w) \in Nat
    BY <1>3, ShareTyped
  <2> QED
    BY <2>1
<1>6. Booked(scope, m, Workloads) = 0
  BY <1>3
<1> QED
  BY <1>1, <1>4, <1>5, <1>6 DEF WindowOK

\* In every window the calls that reserved within it leave every workload the reserve the
\* others owe it (gemini-quota.service.ts RESERVE_REQUEST_LUA, gemini.service.ts
\* makeRequestWithRetry).
THEOREM ReservesAreKept == Spec => []ReservesHold
<1>1. TypeInv /\ ReservesOK => ReservesHold
  <2> SUFFICES ASSUME TypeInv, ReservesOK
               PROVE  ReservesHold
    OBVIOUS
  <2>1. ASSUME NEW scope \in Scopes, NEW m \in Windows(scope)
        PROVE  LeavesReserve(CallsOf(scope)[m], LimitOf(scope), ReserveOf(scope))
    <3> SUFFICES ASSUME NEW w \in Workloads
                 PROVE  SumOver(CallsOf(scope)[m], Peers(scope, w)) <= Share(scope, w)
      BY DEF LeavesReserve, Peers, Share
    <3>1. Booked(scope, m, Peers(scope, w)) <= Share(scope, w) /\ Share(scope, w) \in Nat
      BY ShareTyped DEF ReservesOK, WindowOK
    <3>2. SumOver(CallsOf(scope)[m], Peers(scope, w)) \in Nat
      BY CallsTypedOf, SumTyped DEF TypeInv
    <3> QED
      BY <3>1, <3>2, HoldersFinite DEF Booked
  <2>2. /\ \A m \in Windows("minute") :
              LeavesReserve(CallsOf("minute")[m], LimitOf("minute"), ReserveOf("minute"))
        /\ \A d \in Windows("day") :
              LeavesReserve(CallsOf("day")[d], LimitOf("day"), ReserveOf("day"))
    BY <2>1 DEF Scopes
  <2> QED
    BY <2>2, ScopesNamed DEF ReservesHold, CallsOf, LimitOf, ReserveOf
<1>2. TypeInv /\ ReservesOK /\ [Next]_vars => ReservesOK'
  BY ReservesKept
<1> QED
  BY <1>1, <1>2, InitReserves, InitTyped, TypeInvKept, PTL DEF Spec
=============================================================================
