---------------------------- MODULE ChatProofs -----------------------------
(***************************************************************************)
(* Theorems about the chat assistant.  ChatTurns: its types, the quota as  *)
(* a daily allowance, what a request is charged for, closed sessions that  *)
(* take nothing, how messages are numbered and where the latest answer is. *)
(* Assistant, with the account and CV it reads: its types, the identity    *)
(* kept twice, the CV an answer is drawn from, the offers to save a        *)
(* posting, and the record a turn leaves.                                  *)
(***************************************************************************)
EXTENDS ChatTurns, Assistant, FiniteSetTheorems, TLAPS

USE DEF Done

-----------------------------------------------------------------------------
(* Records of TurnType                                                     *)

LEMMA IdleType == Idle \in TurnType /\ Idle.carry = {}
BY DEF Idle, TurnType, Pcs

LEMMA GotoType ==
    ASSUME NEW r \in TurnType, NEW pc \in Pcs
    PROVE  /\ [r EXCEPT !.pc = pc] \in TurnType
           /\ [r EXCEPT !.pc = pc].carry = r.carry
BY DEF TurnType

LEMMA BindType ==
    ASSUME NEW r \in TurnType, NEW pc \in Pcs, NEW s \in Sessions
    PROVE  /\ [r EXCEPT !.s = s, !.pc = pc] \in TurnType
           /\ [r EXCEPT !.s = s, !.pc = pc].carry = r.carry
BY DEF TurnType

LEMMA EndedType ==
    ASSUME NEW r \in TurnType, NEW pc \in Pcs
    PROVE  Ended(r, pc) \in TurnType /\ Ended(r, pc).carry = {}
BY IdleType DEF Ended, TurnType, Idle

-----------------------------------------------------------------------------
(* The inductive invariant                                                 *)

\* Where a request is bound to a session, and where it has an answer to pay for.
Placed == {"check", "remember", "ready", "model", "insert", "archive", "carry",
           "open", "copy", "recall"}
Answering == {"model", "insert", "archive", "carry", "open", "copy", "recall"}
Unpaid == {"idle", "check", "uncache", "latest", "create", "remember", "clear", "forget", "ready"}

\* One request's record: its session, and what it is charged at each point.
Rec(r) ==
    /\ r \in TurnType /\ IsFiniteSet(r.carry)
    /\ r.pc \in Placed => r.s \in Sessions
    /\ r.pc \in {"copy", "recall"} => r.new \in Sessions
    /\ r.consumed => r.key # None
    /\ r.pc \in Unpaid => r.key = None
    /\ r.pc \notin Done /\ r.key # None => r.consumed
    /\ r.pc \in Answering => r.consumed \/ r.free
    /\ r.pc \in {"clear", "forget"} => r.kind = "clear"
    /\ r.pc = "ok" /\ r.kind = "message" => r.consumed \/ r.free

Records == turn \in [Requests -> TurnType] /\ \A t \in Requests : Rec(turn[t])

\* The variables other than turn.
Rest ==
    /\ session \in [Sessions -> {"unused", "active", "closed"}]
    /\ messages \in [Sessions -> SUBSET MessageType]
    /\ \A s \in Sessions : IsFiniteSet(messages[s])
    /\ cachedId \in Sessions \cup {None}
    /\ day \in 0..(MaxDays - 1) /\ used \in 0..Limit
    /\ met \subseteq SUBSET Requests
    /\ cleared \subseteq Sessions /\ excused \subseteq Requests
    /\ latest \in Requests \cup {None}
    /\ faults \in 0..MaxFaults

LEMMA RecordStep ==
    ASSUME Records, NEW t \in Requests, NEW r, Rec(r), Becomes(t, r)
    PROVE  Records'
BY DEF Records, Becomes, Rec

\* A request that moves on without being charged or refunded.
LEMMA GotoRec ==
    ASSUME NEW r, Rec(r), NEW pc \in Pcs \ (Done \cup {"idle", "copy"}), r.pc \notin Done,
           pc \in Placed => r.s \in Sessions,
           pc = "recall" => r.new \in Sessions,
           pc \in Unpaid => r.key = None,
           pc \in Answering => r.consumed \/ r.free,
           pc \in {"clear", "forget"} => r.kind = "clear"
    PROVE  Rec([r EXCEPT !.pc = pc])
<1> DEFINE q == [r EXCEPT !.pc = pc]
<1>1. r \in TurnType /\ q \in TurnType /\ q.carry = r.carry
  BY GotoType DEF Rec
<1>2. /\ q.pc = pc /\ q.s = r.s /\ q.key = r.key /\ q.consumed = r.consumed
      /\ q.free = r.free /\ q.kind = r.kind
  BY <1>1 DEF TurnType
<1>3. q.new = r.new
  BY <1>1 DEF TurnType
<1>. HIDE DEF q
<1>4. Rec(q)
  BY <1>1, <1>2, <1>3 DEF Rec
<1>. QED
  BY <1>4 DEF q

LEMMA EndedRec ==
    ASSUME NEW r, Rec(r), NEW pc \in Done,
           pc = "ok" /\ r.kind = "message" => r.consumed \/ r.free
    PROVE  Rec(Ended(r, pc))
<1> DEFINE q == Ended(r, pc)
<1>1. r \in TurnType /\ q \in TurnType /\ q.carry = {}
  BY EndedType DEF Rec, Pcs
<1>2. /\ q.pc = pc /\ q.key = r.key /\ q.consumed = r.consumed
      /\ q.free = r.free /\ q.kind = r.kind
  BY <1>1 DEF TurnType, Ended, Idle
<1>. HIDE DEF q
<1>3. Rec(q)
  BY <1>1, <1>2, FS_EmptySet DEF Rec, Placed, Answering, Unpaid
<1>. QED
  BY <1>3 DEF q

-----------------------------------------------------------------------------
(* Every step keeps the records                                            *)

LEMMA RecFacts ==
    ASSUME Records, NEW t \in Requests
    PROVE  Rec(turn[t]) /\ turn[t] \in TurnType
BY DEF Records

\* The records in which a request arrives, is charged and reads.
LEMMA ArrivedRec ==
    ASSUME NEW kind \in Kinds, NEW s \in Sessions \cup {None}, NEW c \in SUBSET Sessions,
           NEW pc \in {"latest", "check", "create", "clear", "ready", "fail"},
           pc \in {"check", "ready"} => s \in Sessions,
           pc = "clear" => kind = "clear"
    PROVE  Rec([Idle EXCEPT !.kind = kind, !.pc = pc, !.s = s, !.closed = c])
<1> DEFINE q == [Idle EXCEPT !.kind = kind, !.pc = pc, !.s = s, !.closed = c]
<1>1. q \in TurnType /\ q.carry = {}
  BY IdleType DEF Idle, TurnType, Pcs
<1>2. q.pc = pc /\ q.s = s /\ q.key = None /\ ~q.consumed /\ q.kind = kind
  BY IdleType DEF Idle, TurnType
<1>. HIDE DEF q
<1>3. Rec(q)
  BY <1>1, <1>2, FS_EmptySet DEF Rec, Placed, Answering
<1>. QED
  BY <1>3 DEF q

LEMMA BoundRec ==
    ASSUME NEW r, Rec(r), NEW s \in Sessions, NEW pc \in {"remember", "ready"},
           r.pc \in Unpaid
    PROVE  Rec([r EXCEPT !.s = s, !.pc = pc])
<1> DEFINE q == [r EXCEPT !.s = s, !.pc = pc]
<1>1. r \in TurnType /\ q \in TurnType /\ q.carry = r.carry
  BY BindType DEF Rec, Pcs
<1>2. /\ q.pc = pc /\ q.s = s /\ q.key = r.key /\ q.consumed = r.consumed
      /\ q.free = r.free /\ q.kind = r.kind
  BY <1>1 DEF TurnType
<1>. HIDE DEF q
<1>3. Rec(q)
  BY <1>1, <1>2 DEF Rec, Placed, Answering, Unpaid
<1>. QED
  BY <1>3 DEF q

LEMMA ChargedRec ==
    ASSUME NEW r, Rec(r), r.pc = "ready", NEW d \in Nat
    PROVE  /\ Rec([r EXCEPT !.pc = "model", !.key = d, !.consumed = TRUE])
           /\ Rec([r EXCEPT !.pc = "model", !.free = TRUE])
<1>0. r \in TurnType /\ IsFiniteSet(r.carry) /\ r.s \in Sessions /\ r.key = None
  BY DEF Rec, Placed, Unpaid
<1>1. Rec([r EXCEPT !.pc = "model", !.key = d, !.consumed = TRUE])
  <2> DEFINE q == [r EXCEPT !.pc = "model", !.key = d, !.consumed = TRUE]
  <2>1. q \in TurnType /\ q.carry = r.carry
    BY <1>0 DEF TurnType, Pcs
  <2>2. q.pc = "model" /\ q.s = r.s /\ q.key = d /\ q.consumed /\ q.kind = r.kind
    BY <1>0 DEF TurnType
  <2>. HIDE DEF q
  <2>3. Rec(q)
    BY <1>0, <2>1, <2>2, RequestAssumption DEF Rec, Placed, Answering, Unpaid
  <2>. QED
    BY <2>3 DEF q
<1>2. Rec([r EXCEPT !.pc = "model", !.free = TRUE])
  <2> DEFINE q == [r EXCEPT !.pc = "model", !.free = TRUE]
  <2>1. q \in TurnType /\ q.carry = r.carry
    BY <1>0 DEF TurnType, Pcs
  <2>2. /\ q.pc = "model" /\ q.s = r.s /\ q.key = r.key /\ q.consumed = r.consumed
        /\ q.free /\ q.kind = r.kind
    BY <1>0 DEF TurnType
  <2>. HIDE DEF q
  <2>3. Rec(q)
    BY <1>0, <2>1, <2>2 DEF Rec, Placed, Answering, Unpaid
  <2>. QED
    BY <2>3 DEF q
<1>. QED
  BY <1>1, <1>2

\* A count of the session's messages, after a charge or for a cached answer.
LEMMA CountedRec ==
    ASSUME Records, Rest, NEW t \in Requests, turn[t].pc \in {"ready", "model"},
           NEW f \in BOOLEAN, turn[t].pc = "ready" => f, turn[t].free => f
    PROVE  Rec([Counted(t) EXCEPT !.free = f]) 
<1>0. Rec(turn[t]) /\ turn[t] \in TurnType /\ turn[t].s \in Sessions
  BY RecFacts DEF Rec, Placed
<1>1. Cardinality(messages[turn[t].s]) \in Nat
  BY <1>0, FS_CardinalityType DEF Rest
<1> DEFINE q == [Counted(t) EXCEPT !.free = f]
<1>2. q \in TurnType /\ q.carry = turn[t].carry
  BY <1>0, <1>1 DEF Counted, TurnType, Pcs
<1>3. /\ q.pc = "insert" /\ q.s = turn[t].s /\ q.key = turn[t].key
      /\ q.consumed = turn[t].consumed /\ q.free = f /\ q.kind = turn[t].kind
  BY <1>0, <1>1 DEF Counted, TurnType
<1>. HIDE DEF q
<1>4. Rec(q)
  BY <1>0, <1>2, <1>3 DEF Rec, Placed, Answering, Unpaid
<1>. QED
  BY <1>4 DEF q

\* The archive's records, and those of a stream's first token and of a refund.
LEMMA ArchiveRec ==
    ASSUME NEW r, Rec(r), NEW c \in SUBSET MessageType, IsFiniteSet(c), NEW s \in Sessions
    PROVE  /\ r.pc = "carry" => Rec([r EXCEPT !.carry = c, !.pc = "open"])
           /\ r.pc = "open" => Rec([r EXCEPT !.new = s, !.pc = "copy"])
<1>0. r \in TurnType
  BY DEF Rec
<1>1. ASSUME r.pc = "carry" PROVE Rec([r EXCEPT !.carry = c, !.pc = "open"])
  <2> DEFINE q == [r EXCEPT !.carry = c, !.pc = "open"]
  <2>1. q \in TurnType /\ q.carry = c
    BY <1>0 DEF TurnType, Pcs
  <2>2. /\ q.pc = "open" /\ q.s = r.s /\ q.key = r.key /\ q.consumed = r.consumed
        /\ q.free = r.free /\ q.kind = r.kind
    BY <1>0 DEF TurnType
  <2>. HIDE DEF q
  <2>3. Rec(q)
    BY <1>1, <2>1, <2>2 DEF Rec, Placed, Answering, Unpaid
  <2>. QED
    BY <2>3 DEF q
<1>2. ASSUME r.pc = "open" PROVE Rec([r EXCEPT !.new = s, !.pc = "copy"])
  <2> DEFINE q == [r EXCEPT !.new = s, !.pc = "copy"]
  <2>1. q \in TurnType /\ q.carry = r.carry
    BY <1>0 DEF TurnType, Pcs
  <2>2. /\ q.pc = "copy" /\ q.s = r.s /\ q.new = s /\ q.key = r.key /\ q.consumed = r.consumed
        /\ q.free = r.free /\ q.kind = r.kind
    BY <1>0 DEF TurnType
  <2>. HIDE DEF q
  <2>3. Rec(q)
    BY <1>2, <2>1, <2>2 DEF Rec, Placed, Answering, Unpaid
  <2>. QED
    BY <2>3 DEF q
<1>. QED
  BY <1>1, <1>2

LEMMA TokenRec ==
    ASSUME NEW r, Rec(r), r.pc = "model"
    PROVE  Rec([r EXCEPT !.emitted = TRUE])
<1> DEFINE q == [r EXCEPT !.emitted = TRUE]
<1>1. r \in TurnType /\ q \in TurnType /\ q.carry = r.carry
  BY DEF Rec, TurnType
<1>2. /\ q.pc = r.pc /\ q.s = r.s /\ q.key = r.key /\ q.consumed = r.consumed
      /\ q.free = r.free /\ q.kind = r.kind
  BY <1>1 DEF TurnType
<1>. HIDE DEF q
<1>3. Rec(q)
  BY <1>1, <1>2 DEF Rec, Placed, Answering, Unpaid
<1>. QED
  BY <1>3 DEF q

LEMMA FailedRec ==
    ASSUME NEW r, Rec(r), NEW b \in BOOLEAN
    PROVE  Rec([Ended(r, "failed") EXCEPT !.consumed = @ /\ b])
<1>0. r \in TurnType /\ r.consumed \in BOOLEAN
  BY DEF Rec, TurnType
<1>1. Ended(r, "failed") \in TurnType /\ Ended(r, "failed").carry = {}
  BY <1>0, EndedType DEF Pcs
<1>2. Ended(r, "failed").consumed = r.consumed
  BY DEF Ended, Idle
<1> DEFINE e == r.consumed /\ b
           q == [Ended(r, "failed") EXCEPT !.consumed = e]
<1>3. e \in BOOLEAN /\ (e => r.consumed)
  BY <1>0
<1>. HIDE DEF e
<1>4. q \in TurnType /\ q.carry = {}
  BY <1>1, <1>3 DEF TurnType
<1>5. q.pc = "failed" /\ q.key = r.key /\ q.consumed = e
  BY <1>1 DEF TurnType, Ended, Idle
<1>6. Rec(q)
  <2>. HIDE DEF q
  <2>. QED
    BY <1>3, <1>4, <1>5, FS_EmptySet DEF Rec, Placed, Answering, Unpaid
<1>7. [Ended(r, "failed") EXCEPT !.consumed = @ /\ b] = q
  BY <1>1, <1>2 DEF e
<1>. QED
  BY <1>6, <1>7

LEMMA RecordsKept ==
    ASSUME Records, Rest, Next
    PROVE  Records'
<1>1. ASSUME NEW t \in Requests, Start(t)
      PROVE  Records'
  <2>1. Closed \in SUBSET Sessions /\ Active \in SUBSET Sessions
    BY DEF Closed, Active
  <2>2. ASSUME NEW s \in Sessions, StartNamed(t, s)
        PROVE  Records'
    BY <2>1, <2>2, ArrivedRec, RecordStep DEF StartNamed, Arrives, Kinds
  <2>3. CASE StartMessage(t)
    BY <2>1, <2>3, ArrivedRec, RecordStep DEF StartMessage, Arrives, Kinds, Rest
  <2>4. CASE StartCreate(t)
    BY <2>1, <2>4, ArrivedRec, RecordStep DEF StartCreate, Arrives, Kinds
  <2>5. CASE StartClear(t)
    BY <2>1, <2>5, ArrivedRec, RecordStep DEF StartClear, Arrives, Kinds
  <2>. QED
    BY <1>1, <2>2, <2>3, <2>4, <2>5 DEF Start
<1>2. ASSUME NEW t \in Requests, Find(t)
      PROVE  Records'
  <2>0. Rec(turn[t])
    BY RecFacts
  <2>1. CASE CheckCached(t)
    <3>1. turn[t].s \in Sessions /\ turn[t].key = None
      BY <2>0, <2>1 DEF CheckCached, At, Rec, Placed, Unpaid
    <3>2. CASE turn[t].s \in Active
      BY <2>0, <2>1, <3>1, <3>2, GotoRec, RecordStep
         DEF CheckCached, At, Goto, Pcs, Placed, Unpaid, Answering
    <3>3. CASE turn[t].s \notin Active
      BY <2>0, <2>1, <3>1, <3>3, GotoRec, RecordStep
         DEF CheckCached, At, Goto, Pcs, Placed, Unpaid, Answering
    <3>. QED
      BY <3>2, <3>3
  <2>2. CASE FindLatest(t)
    <3>1. turn[t].key = None
      BY <2>0, <2>2 DEF FindLatest, At, Rec, Unpaid
    <3>2. CASE Goto(t, "create")
      BY <2>0, <2>2, <3>1, <3>2, GotoRec, RecordStep
         DEF FindLatest, At, Goto, Pcs, Placed, Unpaid, Answering
    <3>3. CASE \E s \in Active : Bind(t, s, "remember")
      BY <2>0, <2>2, <3>3, BoundRec, RecordStep DEF FindLatest, At, Bind, Active, Unpaid
    <3>. QED
      BY <2>2, <3>2, <3>3 DEF FindLatest
  <2>3. CASE RememberSession(t)
    <3>1. turn[t].key = None /\ turn[t].s \in Sessions
      BY <2>0, <2>3 DEF RememberSession, At, Rec, Placed, Unpaid
    <3>2. CASE turn[t].kind = "create"
      BY <2>0, <2>3, <3>2, EndedRec, RecordStep DEF RememberSession, End
    <3>3. CASE turn[t].kind # "create"
      BY <2>0, <2>3, <3>1, <3>3, GotoRec, RecordStep
         DEF RememberSession, At, Goto, Pcs, Placed, Unpaid, Answering
    <3>. QED
      BY <3>2, <3>3
  <2>4. CASE ClearNothing(t)
    <3>1. turn[t].kind = "clear"
      BY <2>0, <2>4 DEF ClearNothing, At, Rec
    <3>. QED
      BY <2>0, <2>4, <3>1, EndedRec, RecordStep DEF ClearNothing, End
  <2>9. CASE DropCached(t)
    BY <2>0, <2>9, GotoRec, RecordStep
       DEF DropCached, At, Rec, Goto, Pcs, Placed, Unpaid, Answering
  <2>5. CASE ClearForget(t)
    <3>1. turn[t].kind = "clear"
      BY <2>0, <2>5 DEF ClearForget, At, Rec
    <3>. QED
      BY <2>0, <2>5, <3>1, EndedRec, RecordStep DEF ClearForget, End
  <2>6. ASSUME NEW s \in Sessions, CreateSession(t, s)
        PROVE  Records'
    BY <2>0, <2>6, BoundRec, RecordStep DEF CreateSession, At, Bind, Unpaid
  <2>7. ASSUME NEW s \in Sessions, Clear(t, s)
        PROVE  Records'
    <3>1. turn[t].kind = "clear" /\ turn[t].key = None
      BY <2>0, <2>7 DEF Clear, At, Rec, Unpaid
    <3>. QED
      BY <2>0, <2>7, <3>1, GotoRec, RecordStep
         DEF Clear, At, Goto, Pcs, Placed, Unpaid, Answering
  <2>. QED
    BY <1>2, <2>1, <2>2, <2>3, <2>4, <2>5, <2>6, <2>7, <2>9 DEF Find
<1>3. ASSUME NEW t \in Requests, Answer(t)
      PROVE  Records'
  <2>0. Rec(turn[t])
    BY RecFacts
  <2>1. CASE AnswerFromCache(t)
    <3>1. Rec([Counted(t) EXCEPT !.free = TRUE])
      BY <2>1, CountedRec, Zenon DEF AnswerFromCache, At
    <3>. QED
      BY <2>1, <3>1, RecordStep DEF AnswerFromCache
  <2>2. CASE Reserve(t)
    <3>1. CASE used < Limit
      <4>1. day \in Nat
        BY DEF Rest
      <4>. QED
        BY <2>0, <2>2, <3>1, <4>1, ChargedRec, RecordStep DEF Reserve, At
    <3>2. CASE ~(used < Limit)
      BY <2>0, <2>2, <3>2, GotoRec, RecordStep
         DEF Reserve, At, Goto, Pcs, Placed, Unpaid, Answering
    <3>. QED
      BY <3>1, <3>2
  <2>3. CASE ReserveUnavailable(t)
    <3>1. 0 \in Nat
      OBVIOUS
    <3>. QED
      BY <2>0, <2>3, <3>1, ChargedRec, RecordStep DEF ReserveUnavailable, At
  <2>4. CASE StreamToken(t)
    BY <2>0, <2>4, TokenRec, RecordStep DEF StreamToken, At
  <2>5. CASE ModelFails(t)
    BY <2>0, <2>5, GotoRec, RecordStep
       DEF ModelFails, At, Goto, Pcs, Placed, Unpaid, Answering
  <2>. QED
    BY <1>3, <2>1, <2>2, <2>3, <2>4, <2>5 DEF Answer
<1>4. ASSUME NEW t \in Requests, Persist(t)
      PROVE  Records'
  <2>0. Rec(turn[t]) /\ turn[t] \in TurnType
    BY RecFacts
  <2>1. CASE Count(t)
    <3>1. turn[t].pc = "model" /\ turn[t].free \in BOOLEAN
      BY <2>0, <2>1 DEF Count, At, TurnType
    <3>2. Rec([Counted(t) EXCEPT !.free = turn[t].free])
      BY <3>1, CountedRec
    <3>3. [Counted(t) EXCEPT !.free = turn[t].free] = Counted(t)
      BY <2>0 DEF Counted, TurnType
    <3>. QED
      BY <2>1, <3>2, <3>3, RecordStep DEF Count
  <2>2. CASE Insert(t)
    <3>0. turn[t].s \in Sessions /\ (turn[t].consumed \/ turn[t].free)
      BY <2>0, <2>2 DEF Insert, At, Rec, Placed, Answering
    <3>1. CASE turn[t].count + 2 > MaxLength
      BY <2>0, <2>2, <3>0, <3>1, GotoRec, RecordStep
         DEF Insert, At, Goto, Pcs, Placed, Unpaid, Answering
    <3>2. CASE ~(turn[t].count + 2 > MaxLength)
      BY <2>0, <2>2, <3>0, <3>2, EndedRec, RecordStep DEF Insert, End
    <3>. QED
      BY <3>1, <3>2
  <2>3. CASE TouchFails(t)
    BY <2>0, <2>3, GotoRec, RecordStep
       DEF TouchFails, At, Goto, Pcs, Placed, Unpaid, Answering
  <2>4. CASE ArchiveClose(t)
    <3>1. turn[t].s \in Sessions /\ (turn[t].consumed \/ turn[t].free)
      BY <2>0, <2>4 DEF ArchiveClose, At, Rec, Placed, Answering
    <3>. QED
      BY <2>0, <2>4, <3>1, GotoRec, RecordStep
         DEF ArchiveClose, At, Goto, Pcs, Placed, Unpaid, Answering
  <2>5. CASE ArchiveCarry(t)
    <3>1. PICK c \in LastMessages(turn[t].s, CarryOver) :
             Becomes(t, [turn[t] EXCEPT !.carry = c, !.pc = "open"])
      BY <2>5 DEF ArchiveCarry
    <3>2. turn[t].s \in Sessions /\ turn[t].pc = "carry"
      BY <2>0, <2>5 DEF ArchiveCarry, At, Rec, Placed
    <3>3. c \subseteq messages[turn[t].s]
      BY <3>1 DEF LastMessages
    <3>4. c \in SUBSET MessageType /\ IsFiniteSet(c)
      BY <3>2, <3>3, FS_Subset DEF Rest
    <3>. QED
      BY <2>0, <3>1, <3>2, <3>4, ArchiveRec, RecordStep
  <2>6. CASE ArchiveCopy(t)
    <3>1. /\ turn[t].s \in Sessions /\ turn[t].new \in Sessions
          /\ turn[t].consumed \/ turn[t].free
      BY <2>0, <2>6 DEF ArchiveCopy, At, Rec, Placed, Answering
    <3>. QED
      BY <2>0, <2>6, <3>1, GotoRec, RecordStep
         DEF ArchiveCopy, At, Goto, Pcs, Placed, Unpaid, Answering
  <2>9. CASE ArchiveRecall(t)
    <3>1. turn[t].consumed \/ turn[t].free
      BY <2>0, <2>9 DEF ArchiveRecall, At, Rec, Answering
    <3>. QED
      BY <2>0, <2>9, <3>1, EndedRec, RecordStep DEF ArchiveRecall, End
  <2>7. CASE ArchiveFails(t)
    <3>1. turn[t].consumed \/ turn[t].free
      BY <2>0, <2>7 DEF ArchiveFails, At, Rec, Answering
    <3>. QED
      BY <2>0, <2>7, <3>1, EndedRec, RecordStep DEF ArchiveFails, End
  <2>8. ASSUME NEW s \in Sessions, ArchiveOpen(t, s)
        PROVE  Records'
    <3>1. turn[t].pc = "open" /\ Becomes(t, [turn[t] EXCEPT !.new = s, !.pc = "copy"])
      BY <2>8 DEF ArchiveOpen, At
    <3>. QED
      BY <2>0, <3>1, FS_EmptySet, ArchiveRec, RecordStep
  <2>. QED
    BY <1>4, <2>1, <2>2, <2>3, <2>4, <2>5, <2>6, <2>7, <2>8, <2>9 DEF Persist
<1>5. ASSUME NEW t \in Requests, Failure(t)
      PROVE  Records'
  <2>0. Rec(turn[t])
    BY RecFacts
  <2>1. CASE CallFails(t)
    BY <2>0, <2>1, GotoRec, RecordStep
       DEF CallFails, At, Goto, Pcs, Placed, Unpaid, Answering
  <2>2. CASE Fail(t)
    <3>1. (~Refunded(t)) \in BOOLEAN
      BY Zenon
    <3>2. Rec([Ended(turn[t], "failed") EXCEPT !.consumed = @ /\ ~Refunded(t)])
      BY <2>0, <3>1, FailedRec, Zenon
    <3>. QED
      BY <2>2, <3>2, RecordStep DEF Fail
  <2>3. CASE FailKeepsCharge(t)
    BY <2>0, <2>3, EndedRec, RecordStep DEF FailKeepsCharge, End
  <2>. QED
    BY <1>5, <2>1, <2>2, <2>3 DEF Failure
<1>6. CASE Crash
  <2>1. \A t \in Requests : Rec(Ended(turn[t], "died"))
    BY EndedRec DEF Records
  <2>2. \A t \in Requests : Rec(IF Running(t) THEN Ended(turn[t], "died") ELSE turn[t])
    BY <2>1 DEF Records
  <2>. QED
    BY <1>6, <2>2 DEF Crash, Records, Rec
<1>7. CASE NewDay
  BY <1>7 DEF NewDay, Records, Rec
<1>. QED
  BY <1>1, <1>2, <1>3, <1>4, <1>5, <1>6, <1>7 DEF Next

-----------------------------------------------------------------------------
(* Every step keeps the other variables' types                             *)

\* A session takes a finite set of well-typed messages.
LEMMA MessagesStep ==
    ASSUME Rest, NEW s \in Sessions, NEW c \in SUBSET MessageType, IsFiniteSet(c),
           messages' = [messages EXCEPT ![s] = @ \cup c]
    PROVE  /\ messages' \in [Sessions -> SUBSET MessageType]
           /\ \A u \in Sessions : IsFiniteSet(messages'[u])
<1>1. messages \in [Sessions -> SUBSET MessageType] /\ \A u \in Sessions : IsFiniteSet(messages[u])
  BY DEF Rest
<1>2. messages[s] \cup c \in SUBSET MessageType /\ IsFiniteSet(messages[s] \cup c)
  BY <1>1, FS_Union
<1>. QED
  BY <1>1, <1>2

LEMMA StoreAnswerRest ==
    ASSUME Records, Rest, NEW t \in Requests, At(t, "insert"), StoreAnswer(t),
           faults' \in 0..MaxFaults
    PROVE  Rest'
<1>1. turn[t].s \in Sessions /\ turn[t].count \in Nat
  BY RecFacts DEF At, Rec, Placed, TurnType
<1> DEFINE a == [turn |-> t, role |-> "user", seq |-> turn[t].count + 1, by |-> t]
           b == [turn |-> t, role |-> "assistant", seq |-> turn[t].count + 2, by |-> t]
<1>2. a \in MessageType /\ b \in MessageType
  BY <1>1 DEF MessageType
<1>3. messages' = [messages EXCEPT ![turn[t].s] = @ \cup {a, b}]
  BY DEF StoreAnswer
<1>. HIDE DEF a, b
<1>4. {a, b} \in SUBSET MessageType /\ IsFiniteSet({a, b})
  <2>1. IsFiniteSet({a}) /\ IsFiniteSet({b}) /\ {a, b} = {a} \cup {b}
    BY FS_Singleton
  <2>2. IsFiniteSet({a} \cup {b})
    BY <2>1, FS_Union
  <2>. QED
    BY <1>2, <2>1, <2>2
<1>5. /\ messages' \in [Sessions -> SUBSET MessageType]
      /\ \A u \in Sessions : IsFiniteSet(messages'[u])
  BY <1>1, <1>3, <1>4, MessagesStep
<1>. QED
  BY <1>5 DEF StoreAnswer, Rest, history

LEMMA ArchiveCopyRest ==
    ASSUME Records, Rest, NEW t \in Requests, ArchiveCopy(t)
    PROVE  Rest'
<1>1. /\ turn[t].carry \in SUBSET MessageType /\ IsFiniteSet(turn[t].carry)
      /\ turn[t].new \in Sessions
  BY RecFacts DEF ArchiveCopy, At, Rec, TurnType
<1>2. PICK f \in Renumbered(turn[t].carry) :
         messages' = [messages EXCEPT ![turn[t].new] = @ \cup
              {[m EXCEPT !.seq = f[m], !.by = t] : m \in turn[t].carry}]
  BY DEF ArchiveCopy
<1>3. \A m \in turn[t].carry : f[m] \in Nat \ {0}
  <2>1. Cardinality(turn[t].carry) \in Nat
    BY <1>1, FS_CardinalityType
  <2>2. f \in [turn[t].carry -> 1..Cardinality(turn[t].carry)]
    BY <1>2 DEF Renumbered
  <2>. QED
    BY <2>1, <2>2
<1> DEFINE g(m) == [m EXCEPT !.seq = f[m], !.by = t]
           c == {g(m) : m \in turn[t].carry}
<1>4. \A m \in turn[t].carry : g(m) \in MessageType
  BY <1>1, <1>3 DEF MessageType
<1>5. IsFiniteSet(c)
  <2> DEFINE h == [m \in turn[t].carry |-> g(m)]
  <2>. HIDE DEF g
  <2>1. h \in Surjection(turn[t].carry, c)
    BY DEF Surjection
  <2>. QED
    BY <1>1, <2>1, FS_Surjection
<1>6. c \in SUBSET MessageType /\ messages' = [messages EXCEPT ![turn[t].new] = @ \cup c]
  BY <1>2, <1>4
<1>. HIDE DEF c
<1>7. /\ messages' \in [Sessions -> SUBSET MessageType]
      /\ \A u \in Sessions : IsFiniteSet(messages'[u])
  BY <1>1, <1>5, <1>6, MessagesStep
<1>. QED
  BY <1>1, <1>7 DEF ArchiveCopy, Rest, history

LEMMA RestKept ==
    ASSUME Records, Rest, Next
    PROVE  Rest'
<1>1. MaxDays \in Nat /\ MaxFaults \in Nat /\ Limit \in Nat
  BY SizeAssumption
<1>2. \A t \in Requests : turn[t].s \in Sessions \/ turn[t].s = None
  BY RecFacts DEF TurnType
<1>3. Fault => faults' \in 0..MaxFaults
  BY <1>1 DEF Rest, Fault
<1>4. ASSUME NEW t \in Requests, Start(t)
      PROVE  Rest'
  <2>1. {{t, u} : u \in {v \in Requests : Running(v)}} \subseteq SUBSET Requests
    OBVIOUS
  <2>2. met' \subseteq SUBSET Requests
    BY <1>4, <2>1 DEF Start, StartMessage, StartNamed, StartCreate, StartClear, Arrives, Rest
  <2>. QED
    BY <1>4, <2>2 DEF Start, StartMessage, StartNamed, StartCreate, StartClear, Arrives, Rest
<1>5. ASSUME NEW t \in Requests, Find(t)
      PROVE  Rest'
  <2>1. CASE CheckCached(t)
    BY <2>1 DEF CheckCached, Rest, history
  <2>9. CASE DropCached(t)
    BY <2>9 DEF DropCached, Rest, history
  <2>2. CASE FindLatest(t)
    BY <2>2 DEF FindLatest, Rest, history
  <2>3. CASE RememberSession(t)
    BY <1>2, <2>3 DEF RememberSession, Rest, history
  <2>4. CASE ClearNothing(t)
    BY <2>4 DEF ClearNothing, Rest, history
  <2>5. CASE ClearForget(t)
    BY <2>5 DEF ClearForget, Rest, history
  <2>6. ASSUME NEW s \in Sessions, CreateSession(t, s)
        PROVE  Rest'
    BY <2>6 DEF CreateSession, Opens, Rest, history
  <2>7. ASSUME NEW s \in Sessions, Clear(t, s)
        PROVE  Rest'
    BY <2>7 DEF Clear, Rest
  <2>. QED
    BY <1>5, <2>1, <2>2, <2>3, <2>4, <2>5, <2>6, <2>7, <2>9 DEF Find
<1>6. ASSUME NEW t \in Requests, Answer(t)
      PROVE  Rest'
  BY <1>1, <1>3, <1>6
     DEF Answer, AnswerFromCache, Reserve, ReserveUnavailable, StreamToken, ModelFails,
         Rest, history
<1>7. ASSUME NEW t \in Requests, Persist(t)
      PROVE  Rest'
  <2>1. CASE Count(t)
    BY <2>1 DEF Count, Rest, history
  <2>2. CASE Insert(t)
    <3>1. faults' \in 0..MaxFaults
      BY <2>2 DEF Insert, Rest
    <3>. QED
      BY <2>2, <3>1, StoreAnswerRest DEF Insert
  <2>3. CASE TouchFails(t)
    BY <1>3, <2>3, StoreAnswerRest DEF TouchFails
  <2>4. CASE ArchiveClose(t)
    BY <2>4 DEF ArchiveClose, Rest, history
  <2>5. CASE ArchiveCarry(t)
    BY <2>5 DEF ArchiveCarry, Rest, history
  <2>6. CASE ArchiveCopy(t)
    BY <2>6, ArchiveCopyRest
  <2>9. CASE ArchiveRecall(t)
    <3>1. turn[t].new \in Sessions
      BY <2>9, RecFacts DEF ArchiveRecall, At, Rec
    <3>. QED
      BY <2>9, <3>1 DEF ArchiveRecall, Rest, history
  <2>7. CASE ArchiveFails(t)
    BY <1>3, <2>7 DEF ArchiveFails, Rest
  <2>8. ASSUME NEW s \in Sessions, ArchiveOpen(t, s)
        PROVE  Rest'
    BY <2>8 DEF ArchiveOpen, Opens, Rest, history
  <2>. QED
    BY <1>7, <2>1, <2>2, <2>3, <2>4, <2>5, <2>6, <2>7, <2>8, <2>9 DEF Persist
<1>8. ASSUME NEW t \in Requests, Failure(t)
      PROVE  Rest'
  <2>1. CASE CallFails(t)
    BY <1>3, <2>1 DEF CallFails, Rest, history
  <2>2. CASE Fail(t)
    <3>1. used' \in 0..Limit
      BY <1>1, <2>2 DEF Fail, Rest
    <3>. QED
      BY <2>2, <3>1 DEF Fail, Rest, history
  <2>3. CASE FailKeepsCharge(t)
    BY <1>3, <2>3 DEF FailKeepsCharge, Rest
  <2>. QED
    BY <1>8, <2>1, <2>2, <2>3 DEF Failure
<1>9. CASE Crash
  BY <1>3, <1>9 DEF Crash, Rest
<1>10. CASE NewDay
  BY <1>1, <1>10 DEF NewDay, Rest, history
<1>. QED
  BY <1>4, <1>5, <1>6, <1>7, <1>8, <1>9, <1>10 DEF Next

LEMMA InitTyped == Init => Records /\ Rest
<1> SUFFICES ASSUME Init PROVE Records /\ Rest
  OBVIOUS
<1>1. Rec(Idle)
  BY IdleType, FS_EmptySet DEF Rec, Placed, Answering, Unpaid, Idle
<1>2. Records
  BY <1>1, IdleType DEF Init, Records
<1>3. Rest
  BY FS_EmptySet, SizeAssumption DEF Init, Rest
<1>. QED
  BY <1>2, <1>3

\* A step that changes no variable keeps both.
LEMMA StutterTyped == Records /\ Rest /\ UNCHANGED vars => Records' /\ Rest'
BY DEF vars, Records, Rest, Rec

LEMMA RecordsAndRest == Spec => [](Records /\ Rest)
<1>1. Records /\ Rest /\ [Next]_vars => (Records /\ Rest)'
  BY RecordsKept, RestKept, StutterTyped
<1>. QED
  BY <1>1, InitTyped, PTL DEF Spec

\* Every variable keeps its type, whatever the number of requests and sessions:
\* above all, the counter never passes the limit nor falls below zero.
THEOREM ChatTyped == Spec => []TypeOK
<1>1. Records /\ Rest => TypeOK
  BY DEF Records, Rest, Rec, TypeOK
<1>. QED
  BY <1>1, RecordsAndRest, PTL

-----------------------------------------------------------------------------
(* The quota                                                               *)

\* The counter is the number of requests charged today, and no charge was
\* made under the key of a day to come.
Counts ==
    /\ used = Cardinality(Charged)
    /\ \A t \in Requests : turn[t].key # None => turn[t].key <= day

\* Nobody is charged or refunded.
Same ==
    /\ \A t \in Requests : turn'[t].consumed = turn[t].consumed /\ turn'[t].key = turn[t].key
    /\ used' = used /\ day' = day

LEMMA BecomesSame ==
    ASSUME Records, NEW t \in Requests, NEW r, Becomes(t, r),
           r.consumed = turn[t].consumed, r.key = turn[t].key,
           used' = used, day' = day
    PROVE  Same
BY DEF Records, Becomes, Same

LEMMA GotoSame ==
    ASSUME Records, NEW t \in Requests, NEW pc, Goto(t, pc), used' = used, day' = day
    PROVE  Same
<1>1. turn[t] \in TurnType
  BY RecFacts
<1>. QED
  BY <1>1, BecomesSame DEF Goto, TurnType

LEMMA BindSame ==
    ASSUME Records, NEW t \in Requests, NEW s, NEW pc, Bind(t, s, pc),
           used' = used, day' = day
    PROVE  Same
<1>1. turn[t] \in TurnType
  BY RecFacts
<1>. QED
  BY <1>1, BecomesSame DEF Bind, TurnType

LEMMA EndSame ==
    ASSUME Records, NEW t \in Requests, NEW pc, End(t, pc), used' = used, day' = day
    PROVE  Same
<1>1. /\ Ended(turn[t], pc).consumed = turn[t].consumed
      /\ Ended(turn[t], pc).key = turn[t].key
  BY DEF Ended, Idle
<1>. QED
  BY <1>1, BecomesSame DEF End

LEMMA CountedSame ==
    ASSUME NEW r \in TurnType, NEW n, NEW f
    PROVE  LET q == [r EXCEPT !.count = n, !.pc = "insert"]
           IN  /\ q.consumed = r.consumed /\ q.key = r.key
               /\ [q EXCEPT !.free = f].consumed = r.consumed
               /\ [q EXCEPT !.free = f].key = r.key
BY DEF TurnType

\* All steps but those that charge, refund or begin a day.
LEMMA SameStep ==
    ASSUME Records, Rest, NEW t \in Requests,
           \/ Start(t) \/ Find(t) \/ Persist(t) \/ CallFails(t) \/ FailKeepsCharge(t)
           \/ AnswerFromCache(t) \/ ReserveUnavailable(t) \/ StreamToken(t) \/ ModelFails(t)
    PROVE  Same
<1>0. turn[t] \in TurnType /\ Rec(turn[t]) /\ turn[t].consumed \in BOOLEAN
  BY RecFacts DEF TurnType
<1>1. CASE Start(t)
  <2>1. turn[t].pc = "idle" => turn[t].key = None /\ turn[t].consumed = FALSE
    BY <1>0 DEF Rec, Unpaid
  <2>2. ASSUME NEW kind, NEW s, NEW pc, Arrives(t, kind, s, pc)
        PROVE  Same
    <3> DEFINE r == [Idle EXCEPT !.kind = kind, !.pc = pc, !.s = s, !.closed = Closed]
    <3>1. r.consumed = FALSE /\ r.key = None
      BY DEF Idle
    <3>2. Becomes(t, r) /\ turn[t].pc = "idle" /\ used' = used /\ day' = day
      BY <2>2 DEF Arrives, At
    <3>. HIDE DEF r
    <3>. QED
      BY <2>1, <3>1, <3>2, BecomesSame
  <2>. QED
    BY <1>1, <2>2 DEF Start, StartMessage, StartNamed, StartCreate, StartClear
<1>2. CASE Find(t)
  <2>1. CASE CheckCached(t)
    BY <2>1, GotoSame DEF CheckCached
  <2>9. CASE DropCached(t)
    BY <2>9, GotoSame DEF DropCached
  <2>2. CASE FindLatest(t)
    BY <2>2, GotoSame, BindSame DEF FindLatest
  <2>3. CASE RememberSession(t)
    BY <2>3, GotoSame, EndSame DEF RememberSession
  <2>4. CASE ClearNothing(t) \/ ClearForget(t)
    BY <2>4, EndSame DEF ClearNothing, ClearForget
  <2>5. ASSUME NEW s \in Sessions, CreateSession(t, s) \/ Clear(t, s)
        PROVE  Same
    BY <2>5, GotoSame, BindSame DEF CreateSession, Clear
  <2>. QED
    BY <1>2, <2>1, <2>2, <2>3, <2>4, <2>5, <2>9 DEF Find
<1>3. CASE Persist(t)
  <2>1. CASE Count(t)
    BY <1>0, <2>1, CountedSame, BecomesSame DEF Count, Counted
  <2>2. CASE Insert(t) \/ TouchFails(t)
    BY <2>2, GotoSame, EndSame DEF Insert, TouchFails, StoreAnswer
  <2>3. CASE ArchiveClose(t)
    BY <2>3, GotoSame DEF ArchiveClose
  <2>4. CASE ArchiveCarry(t)
    BY <1>0, <2>4, BecomesSame DEF ArchiveCarry, TurnType
  <2>9. CASE ArchiveCopy(t)
    BY <2>9, GotoSame DEF ArchiveCopy
  <2>5. CASE ArchiveRecall(t) \/ ArchiveFails(t)
    BY <2>5, EndSame DEF ArchiveRecall, ArchiveFails
  <2>6. ASSUME NEW s \in Sessions, ArchiveOpen(t, s)
        PROVE  Same
    BY <1>0, <2>6, BecomesSame DEF ArchiveOpen, TurnType
  <2>. QED
    BY <1>3, <2>1, <2>2, <2>3, <2>4, <2>5, <2>6, <2>9 DEF Persist
<1>4. CASE CallFails(t) \/ FailKeepsCharge(t)
  BY <1>4, GotoSame, EndSame DEF CallFails, FailKeepsCharge
<1>5. CASE AnswerFromCache(t)
  <2>1. [Counted(t) EXCEPT !.free = TRUE].consumed = turn[t].consumed
        /\ [Counted(t) EXCEPT !.free = TRUE].key = turn[t].key
    BY <1>0, CountedSame DEF Counted
  <2>. QED
    BY <1>5, <2>1, BecomesSame DEF AnswerFromCache
<1>6. CASE ReserveUnavailable(t) \/ StreamToken(t)
  <2>1. CASE ReserveUnavailable(t)
    BY <1>0, <2>1, BecomesSame DEF ReserveUnavailable, TurnType
  <2>2. CASE StreamToken(t)
    BY <1>0, <2>2, BecomesSame DEF StreamToken, TurnType
  <2>. QED
    BY <1>6, <2>1, <2>2
<1>7. CASE ModelFails(t)
  BY <1>7, GotoSame DEF ModelFails
<1>. QED
  BY <1>1, <1>2, <1>3, <1>4, <1>5, <1>6, <1>7

LEMMA SameCounts ==
    ASSUME Records, Rest, Counts, Same
    PROVE  Counts' /\ Charged' = Charged
<1>1. Charged' = Charged
  BY DEF Charged, Same
<1>. QED
  BY <1>1 DEF Counts, Same

\* What a charge, a refund and midnight do to the set of the charged.
LEMMA ReserveCounts ==
    ASSUME Records, Rest, Counts, NEW t \in Requests, Reserve(t)
    PROVE  Counts' /\ [Quota!Next]_<<day, Charged>>
<1>0. turn[t] \in TurnType /\ Rec(turn[t]) /\ turn \in [Requests -> TurnType]
  BY RecFacts DEF Records
<1>1. IsFiniteSet(Charged) /\ day \in Nat
  BY FS_Subset, RequestAssumption DEF Charged, Rest
<1>2. CASE ~(used < Limit)
  <2>1. Same
    BY <1>2, GotoSame DEF Reserve
  <2>. QED
    BY <2>1, SameCounts DEF Same
<1>3. CASE used < Limit
  <2> DEFINE r == [turn[t] EXCEPT !.pc = "model", !.key = day, !.consumed = TRUE]
  <2>1. t \notin Charged
    BY <1>0 DEF Reserve, At, Rec, Unpaid, Charged
  <2>2. /\ turn' = [turn EXCEPT ![t] = r] /\ used' = used + 1 /\ day' = day
    BY <1>3 DEF Reserve, Becomes
  <2>3. r.key = day /\ r.consumed
    BY <1>0 DEF TurnType
  <2>. HIDE DEF r
  <2>4. Charged' = Charged \cup {t}
    BY <1>0, <2>2, <2>3 DEF Charged
  <2>5. used' = Cardinality(Charged')
    BY <1>1, <2>1, <2>2, <2>4, FS_AddElement DEF Counts
  <2>6. Counts'
    BY <1>0, <1>1, <2>2, <2>3, <2>5 DEF Counts
  <2>7. Quota!Cardinality(Charged) = Cardinality(Charged)
    BY DEF Quota!Cardinality, Cardinality
  <2>8. Quota!Charge(t)
    BY <1>3, <2>1, <2>2, <2>4, <2>7 DEF Quota!Charge, Counts
  <2>. QED
    BY <2>6, <2>8 DEF Quota!Next
<1>. QED
  BY <1>2, <1>3

LEMMA FailCounts ==
    ASSUME Records, Rest, Counts, NEW t \in Requests, Fail(t)
    PROVE  Counts' /\ [Quota!Next]_<<day, Charged>>
<1>0. /\ turn[t] \in TurnType /\ Rec(turn[t]) /\ turn \in [Requests -> TurnType]
      /\ turn[t].consumed \in BOOLEAN
  BY RecFacts DEF Records, TurnType
<1>1. IsFiniteSet(Charged) /\ day \in Nat /\ used \in Nat
  BY FS_Subset, RequestAssumption DEF Charged, Rest
<1> DEFINE r == [Ended(turn[t], "failed") EXCEPT !.consumed = @ /\ ~Refunded(t)]
<1>2. turn' = [turn EXCEPT ![t] = r] /\ day' = day
  BY DEF Fail, Becomes
<1>3. r.key = turn[t].key /\ (r.consumed <=> turn[t].consumed /\ ~Refunded(t))
  BY DEF Ended, Idle
<1>. HIDE DEF r
<1>4. CASE Refunded(t) /\ turn[t].key = day
  <2>1. t \in Charged
    BY <1>4 DEF Refunded, Charged
  <2>2. Charged' = Charged \ {t}
    BY <1>0, <1>2, <1>3, <1>4 DEF Charged
  <2>3. /\ IsFiniteSet(Charged \ {t})
        /\ Cardinality(Charged \ {t}) = Cardinality(Charged) - 1
    BY <1>1, <2>1, FS_RemoveElement
  <2>4. used > 0
    BY <1>1, <2>3, FS_CardinalityType DEF Counts
  <2>5. used' = Cardinality(Charged')
    BY <1>4, <2>2, <2>3, <2>4 DEF Fail, Counts
  <2>6. Counts'
    BY <1>0, <1>2, <1>3, <2>5 DEF Counts
  <2>7. Quota!Refund(t)
    BY <1>2, <2>1, <2>2 DEF Quota!Refund
  <2>. QED
    BY <2>6, <2>7 DEF Quota!Next
<1>5. CASE ~(Refunded(t) /\ turn[t].key = day)
  <2>1. used' = used
    BY <1>5 DEF Fail
  <2>2. Charged' = Charged
    BY <1>0, <1>2, <1>3, <1>5 DEF Charged
  <2>3. Counts'
    BY <1>0, <1>2, <1>3, <2>1, <2>2 DEF Counts
  <2>. QED
    BY <1>2, <2>2, <2>3
<1>. QED
  BY <1>4, <1>5

LEMMA NewDayCounts ==
    ASSUME Records, Rest, Counts, NewDay
    PROVE  Counts' /\ [Quota!Next]_<<day, Charged>>
<1>1. /\ turn' = turn /\ day' = day + 1 /\ used' = 0 /\ day \in Nat
  BY DEF NewDay, Rest
<1>2. \A t \in Requests : turn[t].consumed => turn[t].key # None
  BY RecFacts DEF Rec
<1>3. \A t \in Requests : turn[t].key # None => turn[t].key \in Nat /\ turn[t].key <= day
  BY RecFacts DEF TurnType, Counts
<1>4. Charged' = {}
  BY <1>1, <1>2, <1>3 DEF Charged
<1>5. Counts'
  BY <1>1, <1>3, <1>4, FS_EmptySet DEF Counts
<1>6. Quota!NewDay
  BY <1>1, <1>4 DEF Quota!NewDay
<1>. QED
  BY <1>5, <1>6 DEF Quota!Next

LEMMA CrashCounts ==
    ASSUME Records, Rest, Counts, Crash
    PROVE  Counts' /\ Charged' = Charged
<1>1. \A t \in Requests : /\ Ended(turn[t], "died").consumed = turn[t].consumed
                          /\ Ended(turn[t], "died").key = turn[t].key
  BY DEF Ended, Idle
<1>2. Same
  BY <1>1 DEF Crash, Same
<1>. QED
  BY <1>2, SameCounts

LEMMA CountsStep ==
    ASSUME Records, Rest, Counts, Next
    PROVE  Counts' /\ [Quota!Next]_<<day, Charged>>
<1>1. ASSUME NEW t \in Requests,
             Start(t) \/ Find(t) \/ Answer(t) \/ Persist(t) \/ Failure(t)
      PROVE  Counts' /\ [Quota!Next]_<<day, Charged>>
  <2>1. CASE Reserve(t)
    BY <2>1, ReserveCounts
  <2>2. CASE Fail(t)
    BY <2>2, FailCounts
  <2>3. CASE ~Reserve(t) /\ ~Fail(t)
    <3>1. Same
      BY <1>1, <2>3, SameStep DEF Answer, Failure
    <3>. QED
      BY <3>1, SameCounts DEF Same
  <2>. QED
    BY <2>1, <2>2, <2>3
<1>2. CASE Crash
  <2>1. day' = day
    BY <1>2 DEF Crash
  <2>. QED
    BY <1>2, <2>1, CrashCounts
<1>3. CASE NewDay
  BY <1>3, NewDayCounts
<1>. QED
  BY <1>1, <1>2, <1>3 DEF Next

LEMMA CountsInit == Init => Counts /\ Quota!Init
<1> SUFFICES ASSUME Init PROVE Counts /\ Quota!Init
  OBVIOUS
<1>1. \A t \in Requests : turn[t] = Idle
  BY DEF Init
<1>2. \A t \in Requests : ~turn[t].consumed /\ turn[t].key = None
  BY <1>1 DEF Idle
<1>3. Charged = {}
  BY <1>2 DEF Charged
<1>. QED
  BY <1>2, <1>3, FS_EmptySet DEF Init, Counts, Quota!Init

\* Whatever the interleaving of charges, refunds, midnights, failures and
\* crashes, the counter behaves as a daily allowance: the set of requests
\* charged today takes only the steps of Allowance.
THEOREM ChatQuota == Spec => QuotaIsAnAllowance
<1>1. Records /\ Rest /\ Counts /\ UNCHANGED vars => Counts' /\ UNCHANGED <<day, Charged>>
  BY DEF vars, Counts, Charged
<1>2. Records /\ Rest /\ Counts /\ [Next]_vars => Counts' /\ [Quota!Next]_<<day, Charged>>
  BY <1>1, CountsStep
<1>3. Init /\ [](Records /\ Rest) /\ [][Next]_vars
        => Quota!Init /\ [][Quota!Next]_<<day, Charged>>
  BY <1>2, CountsInit, PTL
<1>. QED
  BY <1>3, RecordsAndRest, PTL DEF Spec, QuotaIsAnAllowance, Quota!Spec

-----------------------------------------------------------------------------
(* Closed sessions, and what a failed request is charged                   *)

Held == {"remember", "ready", "model", "insert", "archive", "carry", "open", "copy",
         "recall"}

\* A request knows closed sessions only and works in none that it found closed.
Apart(r, C) ==
    /\ r.closed \subseteq C
    /\ r.pc \in Held => r.s \notin r.closed
    /\ r.pc = "copy" => r.new \notin r.closed

Apartness == \A t \in Requests : Apart(turn[t], Closed)

\* One request's step that does not end in a failure.
Moves(t, r) == Becomes(t, r) /\ Apart(r, Closed) /\ r.pc # "failed"

LEMMA ApartFacts ==
    ASSUME Records, Apartness, NEW t \in Requests
    PROVE  turn[t] \in TurnType /\ Apart(turn[t], Closed)
BY DEF Records, Apartness

LEMMA GotoMoves ==
    ASSUME Records, Apartness, NEW t \in Requests, NEW pc, Goto(t, pc),
           pc \notin {"copy", "failed"}, pc \in Held => turn[t].s \notin turn[t].closed
    PROVE  \E r : Moves(t, r)
<1> DEFINE r == [turn[t] EXCEPT !.pc = pc]
<1>1. r.pc = pc /\ r.s = turn[t].s /\ r.closed = turn[t].closed
  BY ApartFacts DEF TurnType
<1>2. Becomes(t, r)
  BY DEF Goto
<1>. HIDE DEF r
<1>. QED
  BY <1>1, <1>2, ApartFacts DEF Moves, Apart

LEMMA BindMoves ==
    ASSUME Records, Apartness, NEW t \in Requests, NEW s \in Sessions,
           Bind(t, s, "remember"), s \notin turn[t].closed
    PROVE  \E r : Moves(t, r)
<1> DEFINE r == [turn[t] EXCEPT !.s = s, !.pc = "remember"]
<1>1. r.pc = "remember" /\ r.s = s /\ r.closed = turn[t].closed
  BY ApartFacts DEF TurnType
<1>2. Becomes(t, r)
  BY DEF Bind
<1>. HIDE DEF r
<1>. QED
  BY <1>1, <1>2, ApartFacts DEF Moves, Apart

LEMMA EndMoves ==
    ASSUME Records, Apartness, NEW t \in Requests, End(t, "ok")
    PROVE  \E r : Moves(t, r)
<1>1. Ended(turn[t], "ok").closed = {} /\ Ended(turn[t], "ok").pc = "ok"
  BY DEF Ended, Idle
<1>2. Becomes(t, Ended(turn[t], "ok"))
  BY DEF End
<1>. QED
  BY <1>1, <1>2 DEF Moves, Apart, Held

LEMMA ArrivesMoves ==
    ASSUME NEW t \in Requests, NEW kind, NEW s, NEW pc, Arrives(t, kind, s, pc),
           pc \notin {"copy", "failed"}, pc \in Held => s \notin Closed
    PROVE  \E r : Moves(t, r)
<1> DEFINE r == [Idle EXCEPT !.kind = kind, !.pc = pc, !.s = s, !.closed = Closed]
<1>1. r.pc = pc /\ r.s = s /\ r.closed = Closed
  BY DEF Idle
<1>2. Becomes(t, r)
  BY DEF Arrives
<1>. HIDE DEF r
<1>. QED
  BY <1>1, <1>2 DEF Moves, Apart

\* A record that changes neither its session nor what it knows to be closed.
LEMMA SameSessionMoves ==
    ASSUME Records, Apartness, NEW t \in Requests, NEW r, Becomes(t, r),
           r.s = turn[t].s, r.closed = turn[t].closed, turn[t].pc \in Held,
           r.pc \in Held \ {"copy"}
    PROVE  Moves(t, r)
BY ApartFacts DEF Moves, Apart, Held

LEMMA StepMoves ==
    ASSUME Records, Rest, Apartness, NEW t \in Requests,
           \/ Start(t) \/ Find(t) \/ Answer(t) \/ Persist(t) \/ CallFails(t)
    PROVE  \E r : Moves(t, r)
<1>0. /\ turn[t] \in TurnType /\ Apart(turn[t], Closed) /\ Rec(turn[t])
      /\ Active \cap Closed = {}
  BY ApartFacts, RecFacts DEF Active, Closed
<1>h. turn[t].pc \in Held => turn[t].s \notin turn[t].closed
  BY <1>0 DEF Apart
<1>1. CASE Start(t)
  <2>1. CASE StartMessage(t)
    BY <2>1, ArrivesMoves DEF StartMessage, Held
  <2>2. CASE StartCreate(t) \/ StartClear(t)
    BY <2>2, ArrivesMoves DEF StartCreate, StartClear, Held
  <2>3. ASSUME NEW s \in Sessions, StartNamed(t, s)
        PROVE  \E r : Moves(t, r)
    BY <1>0, <2>3, ArrivesMoves DEF StartNamed, Held
  <2>. QED
    BY <1>1, <2>1, <2>2, <2>3 DEF Start
<1>2. CASE Find(t)
  <2>0. turn[t].closed \subseteq Closed /\ Active \subseteq Sessions
    BY <1>0 DEF Apart, Active
  <2>1. CASE CheckCached(t)
    BY <1>0, <2>0, <2>1, GotoMoves DEF CheckCached, Held
  <2>9. CASE DropCached(t)
    BY <2>9, GotoMoves DEF DropCached, Held
  <2>2. CASE FindLatest(t)
    BY <1>0, <2>0, <2>2, GotoMoves, BindMoves DEF FindLatest, Held
  <2>3. CASE RememberSession(t)
    BY <1>h, <2>3, GotoMoves, EndMoves DEF RememberSession, At, Held
  <2>4. CASE ClearNothing(t) \/ ClearForget(t)
    BY <2>4, EndMoves DEF ClearNothing, ClearForget
  <2>5. ASSUME NEW s \in Sessions, CreateSession(t, s)
        PROVE  \E r : Moves(t, r)
    <3>1. s \notin Closed
      BY <2>5 DEF CreateSession, Opens, Closed
    <3>. QED
      BY <2>0, <2>5, <3>1, BindMoves DEF CreateSession
  <2>6. ASSUME NEW s \in Sessions, Clear(t, s)
        PROVE  \E r : Moves(t, r)
    BY <2>6, GotoMoves DEF Clear, Held
  <2>. QED
    BY <1>2, <2>1, <2>2, <2>3, <2>4, <2>5, <2>6, <2>9 DEF Find
<1>3. CASE Answer(t)
  <2>1. CASE AnswerFromCache(t)
    <3> DEFINE r == [Counted(t) EXCEPT !.free = TRUE]
    <3>1. r.s = turn[t].s /\ r.closed = turn[t].closed /\ r.pc = "insert"
      BY <1>0 DEF Counted, TurnType
    <3>. QED
      BY <2>1, <3>1, SameSessionMoves DEF AnswerFromCache, At, Held
  <2>2. CASE Reserve(t)
    <3>1. CASE used < Limit
      <4> DEFINE r == [turn[t] EXCEPT !.pc = "model", !.key = day, !.consumed = TRUE]
      <4>1. r.s = turn[t].s /\ r.closed = turn[t].closed /\ r.pc = "model"
        BY <1>0 DEF TurnType
      <4>. QED
        BY <2>2, <3>1, <4>1, SameSessionMoves DEF Reserve, At, Held
    <3>2. CASE ~(used < Limit)
      BY <2>2, <3>2, GotoMoves DEF Reserve, Held
    <3>. QED
      BY <3>1, <3>2
  <2>3. CASE ReserveUnavailable(t)
    <3> DEFINE r == [turn[t] EXCEPT !.pc = "model", !.free = TRUE]
    <3>1. r.s = turn[t].s /\ r.closed = turn[t].closed /\ r.pc = "model"
      BY <1>0 DEF TurnType
    <3>. QED
      BY <2>3, <3>1, SameSessionMoves DEF ReserveUnavailable, At, Held
  <2>4. CASE StreamToken(t)
    <3> DEFINE r == [turn[t] EXCEPT !.emitted = TRUE]
    <3>1. r.s = turn[t].s /\ r.closed = turn[t].closed /\ r.pc = turn[t].pc
      BY <1>0 DEF TurnType
    <3>. QED
      BY <2>4, <3>1, SameSessionMoves DEF StreamToken, At, Held
  <2>5. CASE ModelFails(t)
    BY <2>5, GotoMoves DEF ModelFails, Held
  <2>. QED
    BY <1>3, <2>1, <2>2, <2>3, <2>4, <2>5 DEF Answer
<1>4. CASE Persist(t)
  <2>1. CASE Count(t)
    <3>1. /\ Counted(t).s = turn[t].s /\ Counted(t).closed = turn[t].closed
          /\ Counted(t).pc = "insert"
      BY <1>0 DEF Counted, TurnType
    <3>. QED
      BY <2>1, <3>1, SameSessionMoves DEF Count, At, Held
  <2>2. CASE Insert(t) \/ TouchFails(t)
    BY <1>h, <2>2, GotoMoves, EndMoves DEF Insert, TouchFails, At, Held
  <2>3. CASE ArchiveClose(t)
    BY <1>h, <2>3, GotoMoves DEF ArchiveClose, At, Held
  <2>4. CASE ArchiveCarry(t)
    <3>1. PICK c : Becomes(t, [turn[t] EXCEPT !.carry = c, !.pc = "open"])
      BY <2>4 DEF ArchiveCarry
    <3> DEFINE r == [turn[t] EXCEPT !.carry = c, !.pc = "open"]
    <3>2. r.s = turn[t].s /\ r.closed = turn[t].closed /\ r.pc = "open"
      BY <1>0 DEF TurnType
    <3>. QED
      BY <2>4, <3>1, <3>2, SameSessionMoves DEF ArchiveCarry, At, Held
  <2>9. CASE ArchiveCopy(t)
    BY <1>h, <2>9, GotoMoves DEF ArchiveCopy, At, Held
  <2>5. CASE ArchiveRecall(t) \/ ArchiveFails(t)
    BY <2>5, EndMoves DEF ArchiveRecall, ArchiveFails
  <2>6. ASSUME NEW s \in Sessions, ArchiveOpen(t, s)
        PROVE  \E r : Moves(t, r)
    <3> DEFINE r == [turn[t] EXCEPT !.new = s, !.pc = "copy"]
    <3>1. /\ r.s = turn[t].s /\ r.new = s /\ r.closed = turn[t].closed
          /\ r.pc = "copy"
      BY <1>0 DEF TurnType
    <3>2. s \notin turn[t].closed
      BY <1>0, <2>6 DEF ArchiveOpen, Opens, Closed, Apart
    <3>3. Becomes(t, r) /\ turn[t].pc = "open"
      BY <2>6 DEF ArchiveOpen, At
    <3>. HIDE DEF r
    <3>. QED
      BY <1>0, <3>1, <3>2, <3>3 DEF Moves, Apart, Held
  <2>. QED
    BY <1>4, <2>1, <2>2, <2>3, <2>4, <2>5, <2>6, <2>9 DEF Persist
<1>5. CASE CallFails(t)
  BY <1>5, GotoMoves DEF CallFails, Held
<1>. QED
  BY <1>1, <1>2, <1>3, <1>4, <1>5

\* A failed request is charged exactly for a stream that had begun.
Repaid ==
   \A t \in Requests : At(t, "failed") /\ t \notin excused =>
       (turn[t].consumed <=> turn[t].key # None /\ turn[t].emitted)

\* No closed session opens again, and a swallowed failure stays known.
LEMMA Lasting ==
    ASSUME Records, Rest, Next
    PROVE  Closed \subseteq Closed' /\ excused \subseteq excused'
<1>1. ASSUME NEW t \in Requests, Start(t) \/ Answer(t) \/ Failure(t)
      PROVE  Closed \subseteq Closed' /\ excused \subseteq excused'
  <2>1. session' = session
    BY <1>1 DEF Start, StartMessage, StartNamed, StartCreate, StartClear, Arrives,
       Answer, AnswerFromCache, Reserve, ReserveUnavailable, StreamToken, ModelFails,
       Failure, CallFails, Fail, FailKeepsCharge
  <2>2. excused \subseteq excused'
    BY <1>1 DEF Start, StartMessage, StartNamed, StartCreate, StartClear, Arrives,
       Answer, AnswerFromCache, Reserve, ReserveUnavailable, StreamToken, ModelFails,
       Failure, CallFails, Fail, FailKeepsCharge, history
  <2>. QED
    BY <2>1, <2>2 DEF Closed
<1>2. ASSUME NEW t \in Requests, Find(t)
      PROVE  Closed \subseteq Closed' /\ excused \subseteq excused'
  BY <1>2 DEF Find, CheckCached, DropCached, FindLatest, RememberSession, ClearNothing, ClearForget,
     CreateSession, Clear, Opens, Closed, Rest, history
<1>3. ASSUME NEW t \in Requests, Persist(t)
      PROVE  Closed \subseteq Closed' /\ excused \subseteq excused'
  BY <1>3 DEF Persist, Count, Insert, TouchFails, StoreAnswer, ArchiveClose, ArchiveCarry,
     ArchiveCopy, ArchiveRecall, ArchiveFails, ArchiveOpen, Opens, Closed, Rest, history
<1>4. CASE Crash \/ NewDay
  BY <1>4 DEF Crash, NewDay, Closed, history
<1>. QED
  BY <1>1, <1>2, <1>3, <1>4 DEF Next

\* One request's step: the invariants of the others are not disturbed.
LEMMA MovesKeep ==
    ASSUME Records, Apartness, Repaid, NEW t \in Requests, NEW r,
           Becomes(t, r), Apart(r, Closed), Closed \subseteq Closed', excused \subseteq excused',
           r.pc = "failed" /\ t \notin excused' =>
               (r.consumed <=> r.key # None /\ r.emitted)
    PROVE  Apartness' /\ Repaid'
<1>1. turn \in [Requests -> TurnType] /\ turn' = [turn EXCEPT ![t] = r]
  BY DEF Records, Becomes
<1>2. ASSUME NEW u \in Requests
      PROVE  Apart(turn'[u], Closed')
  <2>1. Apart(turn'[u], Closed)
    BY <1>1 DEF Apartness
  <2>. QED
    BY <2>1 DEF Apart
<1>3. ASSUME NEW u \in Requests, turn'[u].pc = "failed", u \notin excused'
      PROVE  turn'[u].consumed <=> turn'[u].key # None /\ turn'[u].emitted
  BY <1>1, <1>3 DEF Repaid, At
<1>. QED
  BY <1>2, <1>3 DEF Apartness, Repaid, At

LEMMA ApartnessKept ==
    ASSUME Records, Rest, Apartness, Repaid, Next
    PROVE  Apartness' /\ Repaid'
<1>0. Closed \subseteq Closed' /\ excused \subseteq excused'
  BY Lasting
<1>1. ASSUME NEW t \in Requests,
             Start(t) \/ Find(t) \/ Answer(t) \/ Persist(t) \/ CallFails(t)
      PROVE  Apartness' /\ Repaid'
  BY <1>0, <1>1, StepMoves, MovesKeep DEF Moves
<1>2. ASSUME NEW t \in Requests, Fail(t)
      PROVE  Apartness' /\ Repaid'
  <2> DEFINE r == [Ended(turn[t], "failed") EXCEPT !.consumed = @ /\ ~Refunded(t)]
  <2>1. turn[t].pc = "fail" /\ Rec(turn[t]) /\ turn[t] \in TurnType
    BY <1>2, RecFacts DEF Fail, At
  <2>2. /\ r.closed = {} /\ r.pc = "failed" /\ r.key = turn[t].key
        /\ r.emitted = turn[t].emitted
        /\ r.consumed <=> turn[t].consumed /\ ~Refunded(t)
    BY DEF Ended, Idle
  <2>3. turn[t].consumed <=> turn[t].key # None
    BY <2>1 DEF Rec
  <2>4. Becomes(t, r)
    BY <1>2 DEF Fail
  <2>. HIDE DEF r
  <2>5. r.consumed <=> r.key # None /\ r.emitted
    BY <2>2, <2>3 DEF Refunded
  <2>. QED
    BY <1>0, <2>2, <2>4, <2>5, MovesKeep DEF Apart, Held
<1>3. ASSUME NEW t \in Requests, FailKeepsCharge(t)
      PROVE  Apartness' /\ Repaid'
  <2>1. Ended(turn[t], "failed").closed = {} /\ Ended(turn[t], "failed").pc = "failed"
    BY DEF Ended, Idle
  <2>2. Becomes(t, Ended(turn[t], "failed")) /\ t \in excused'
    BY <1>3 DEF FailKeepsCharge, End
  <2>. QED
    BY <1>0, <2>1, <2>2, MovesKeep DEF Apart, Held
<1>4. CASE Crash
  <2>1. \A t \in Requests : turn'[t] = IF Running(t) THEN Ended(turn[t], "died") ELSE turn[t]
    BY <1>4 DEF Crash
  <2>2. \A t \in Requests : /\ Ended(turn[t], "died").closed = {}
                            /\ Ended(turn[t], "died").pc = "died"
    BY DEF Ended, Idle
  <2>3. Apartness'
    <3>1. ASSUME NEW t \in Requests PROVE Apart(turn'[t], Closed')
      BY <1>0, <2>1, <2>2, ApartFacts DEF Apart, Held
    <3>. QED
      BY <3>1 DEF Apartness
  <2>4. Repaid'
    BY <1>0, <2>1, <2>2 DEF Repaid, At
  <2>. QED
    BY <2>3, <2>4
<1>5. CASE NewDay
  BY <1>5 DEF NewDay, Apartness, Repaid, At, Closed, history
<1>. QED
  BY <1>1, <1>2, <1>3, <1>4, <1>5 DEF Next, Failure

LEMMA ApartnessInvariant == Spec => [](Apartness /\ Repaid)
<1>1. Init => Apartness /\ Repaid
  BY DEF Init, Idle, Apartness, Apart, Held, Repaid, At
<1>2. Apartness /\ Repaid /\ UNCHANGED vars => (Apartness /\ Repaid)'
  BY DEF vars, Apartness, Repaid, At, Closed
<1>3. Records /\ Rest /\ Apartness /\ Repaid /\ [Next]_vars => (Apartness /\ Repaid)'
  BY <1>2, ApartnessKept
<1>. QED
  BY <1>1, <1>3, RecordsAndRest, PTL DEF Spec

\* Whatever fails and in whatever order, a request that succeeded with the
\* model's answer stays charged and one that failed is refunded, unless its
\* stream had begun.
THEOREM ChatCharges == Spec => []ChargeSettles
<1>1. Records /\ Repaid => ChargeSettles
  BY RecFacts DEF Repaid, ChargeSettles, Rec, At
<1>. QED
  BY <1>1, RecordsAndRest, ApartnessInvariant, PTL

\* Only three steps store messages, each its own request's and each in a
\* session the request has not found closed.
LEMMA Stores ==
    ASSUME Records, Rest, Apartness, Next, messages' # messages
    PROVE  \E u \in Requests : \E s \in Sessions \ turn[u].closed :
              \E c : /\ messages' = [messages EXCEPT ![s] = @ \cup c]
                     /\ \A m \in c : m.by = u
<1>1. PICK u \in Requests : Insert(u) \/ TouchFails(u) \/ ArchiveCopy(u)
  BY DEF Next, Start, StartMessage, StartNamed, StartCreate, StartClear, Arrives,
     Find, CheckCached, DropCached, FindLatest, RememberSession, ClearNothing, ClearForget,
     CreateSession, Clear, Answer, AnswerFromCache, Reserve, ReserveUnavailable,
     StreamToken, ModelFails, Persist, Count, ArchiveClose, ArchiveCarry, ArchiveRecall,
     ArchiveFails, ArchiveOpen, Failure, CallFails, Fail, FailKeepsCharge, Crash, NewDay
<1>2. Rec(turn[u]) /\ Apart(turn[u], Closed)
  BY RecFacts, ApartFacts
<1>3. CASE Insert(u) \/ TouchFails(u)
  <2> DEFINE a == [turn |-> u, role |-> "user", seq |-> turn[u].count + 1, by |-> u]
             b == [turn |-> u, role |-> "assistant", seq |-> turn[u].count + 2, by |-> u]
  <2>1. messages' = [messages EXCEPT ![turn[u].s] = @ \cup {a, b}]
    BY <1>3 DEF Insert, TouchFails, StoreAnswer
  <2>2. a.by = u /\ b.by = u
    OBVIOUS
  <2>3. turn[u].s \in Sessions \ turn[u].closed
    BY <1>2, <1>3 DEF Insert, TouchFails, At, Rec, Placed, Apart, Held
  <2>. HIDE DEF a, b
  <2>. QED
    BY <2>1, <2>2, <2>3
<1>4. CASE ArchiveCopy(u)
  <2>1. PICK f \in Renumbered(turn[u].carry) :
           messages' = [messages EXCEPT ![turn[u].new] = @ \cup
                {[m EXCEPT !.seq = f[m], !.by = u] : m \in turn[u].carry}]
    BY <1>4 DEF ArchiveCopy
  <2> DEFINE g(m) == [m EXCEPT !.seq = f[m], !.by = u]
             c == {g(m) : m \in turn[u].carry}
  <2>2. \A m \in c : m.by = u
    BY RecFacts DEF TurnType, MessageType
  <2>3. turn[u].new \in Sessions \ turn[u].closed
    BY <1>2, <1>4 DEF ArchiveCopy, At, Rec, Apart
  <2>4. messages' = [messages EXCEPT ![turn[u].new] = @ \cup c]
    BY <2>1
  <2>. HIDE DEF c
  <2>. QED
    BY <2>2, <2>3, <2>4
<1>. QED
  BY <1>1, <1>3, <1>4

\* No stale cached id, archive or named session, in any interleaving, brings a
\* message into a session that was closed before the request arrived.
THEOREM ChatClosed == Spec => ClosedTakesNothing
<1>1. ASSUME Records, Rest, Apartness, [Next]_vars,
             NEW t \in Requests, NEW s \in turn[t].closed, NEW m \in messages'[s]
      PROVE  m \in messages[s] \/ m.by # t
  <2>1. CASE messages' = messages
    BY <1>1, <2>1
  <2>2. CASE messages' # messages
    <3>1. Next
      BY <1>1, <2>2 DEF vars
    <3>2. PICK u \in Requests : \E v \in Sessions \ turn[u].closed :
              \E c : /\ messages' = [messages EXCEPT ![v] = @ \cup c]
                     /\ \A n \in c : n.by = u
      BY <1>1, <2>2, <3>1, Stores
    <3>3. s \in Sessions /\ messages \in [Sessions -> SUBSET MessageType]
      BY <1>1, RecFacts DEF TurnType, Rest
    <3>. QED
      BY <1>1, <3>2, <3>3
  <2>. QED
    BY <2>1, <2>2
<1>2. Records /\ Rest /\ Apartness /\ [Next]_vars =>
        [\A t \in Requests : \A s \in turn[t].closed :
            \A m \in messages'[s] : m \in messages[s] \/ m.by # t]_vars
  BY <1>1
<1>. QED
  BY <1>2, RecordsAndRest, ApartnessInvariant, PTL DEF Spec, ClosedTakesNothing

-----------------------------------------------------------------------------
(* The kinds of steps                                                      *)
(*                                                                         *)
(* What a step of request t does to its place, its sessions and the        *)
(* messages; the charges are left out.                                     *)

Searching == {"check", "uncache", "latest", "create", "remember", "clear", "forget",
              "ready", "model", "insert"}
Working == {"remember", "ready", "model", "insert"}
Archiving == {"archive", "carry", "open", "copy", "recall"}
Answered == Archiving \cup {"fail"} \cup Done

Quiet == UNCHANGED <<messages, met, latest>>
Still == session' = session /\ cleared' = cleared

\* The other requests, and what is only added to.
Alone(t) ==
    /\ \A u \in Requests \ {t} : turn'[u] = turn[u]
    /\ met \subseteq met' /\ excused \subseteq excused'
    /\ \/ cachedId' \in {cachedId, None}
       \/ At(t, "remember") /\ cachedId' = turn[t].s
       \/ At(t, "recall") /\ cachedId' = turn[t].new

KArrive(t) ==
    /\ At(t, "idle")
    /\ turn'[t].pc \in {"check", "latest", "ready", "fail", "create", "clear"}
    /\ turn'[t].pc = "check" => turn'[t].s = cachedId /\ cachedId # None
    /\ turn'[t].pc = "ready" => turn'[t].s \in Active
    /\ met' = met \cup {{t, u} : u \in {v \in Requests : Running(v)}}
    /\ Still /\ UNCHANGED <<messages, latest>>

KSearch(t) ==
    /\ turn[t].pc \in Searching
    /\ turn'[t].pc \in (Searching \ {"check", "insert"}) \cup {"fail", "ok"}
    /\ turn'[t].pc \in Working =>
          \/ turn'[t].s \in Active'
          \/ turn[t].pc \in Working /\ turn'[t].s = turn[t].s
    /\ \/ Still
       \/ cleared' = cleared /\ \E s \in Sessions : Opens(s)
       \/ \E s \in Active \cup Closed :
             session' = [session EXCEPT ![s] = "closed"] /\ cleared' = cleared \cup {s}
    /\ Quiet

KCount(t) ==
    /\ turn[t].pc \in {"ready", "model"} /\ At(t, "insert")'
    /\ turn'[t].s = turn[t].s /\ turn'[t].count = Cardinality(messages[turn[t].s])
    /\ Still /\ Quiet

KStore(t) ==
    /\ At(t, "insert") /\ StoreAnswer(t)
    /\ turn'[t].pc \in {"archive", "fail", "ok"}
    /\ \/ turn'[t].s = turn[t].s /\ turn'[t].count = turn[t].count
       \/ turn'[t].pc = "ok"

KClose(t) ==
    /\ At(t, "archive") /\ At(t, "carry")' /\ turn'[t].s = turn[t].s
    /\ session' = [session EXCEPT ![turn[t].s] = "closed"] /\ cleared' = cleared
    /\ Quiet

KCarry(t) ==
    /\ At(t, "carry") /\ At(t, "open")' /\ turn'[t].s = turn[t].s
    /\ turn'[t].carry \in LastMessages(turn[t].s, CarryOver)
    /\ Still /\ Quiet

KOpen(t) ==
    /\ At(t, "open") /\ At(t, "copy")' /\ turn'[t].s = turn[t].s
    /\ turn'[t].carry = turn[t].carry
    /\ turn'[t].new \in Sessions /\ Opens(turn'[t].new) /\ cleared' = cleared
    /\ Quiet

KCopy(t) ==
    /\ At(t, "copy") /\ At(t, "recall")'
    /\ turn'[t].new = turn[t].new /\ turn'[t].s = turn[t].s
    /\ \E f \in Renumbered(turn[t].carry) :
          messages' = [messages EXCEPT ![turn[t].new] = @ \cup
              {[m EXCEPT !.seq = f[m], !.by = t] : m \in turn[t].carry}]
    /\ Still /\ UNCHANGED <<met, latest>>

KRecall(t) == At(t, "recall") /\ At(t, "ok")' /\ Still /\ Quiet

KGiveUp(t) ==
    /\ turn[t].pc \in {"archive", "carry", "open", "copy", "fail"} /\ turn'[t].pc \in Done
    /\ ~At(t, "fail") => t \in excused'
    /\ Still /\ Quiet

Kind(t) ==
    /\ Alone(t)
    /\ \/ KArrive(t) \/ KSearch(t) \/ KCount(t) \/ KStore(t) \/ KClose(t)
       \/ KCarry(t) \/ KOpen(t) \/ KCopy(t) \/ KRecall(t) \/ KGiveUp(t)

\* The record that a step leaves behind.
LEMMA GotoLeaves ==
    ASSUME Records, NEW t \in Requests, NEW pc, Goto(t, pc)
    PROVE  /\ turn'[t].pc = pc /\ turn'[t].s = turn[t].s /\ turn'[t].count = turn[t].count
           /\ turn'[t].carry = turn[t].carry /\ turn'[t].new = turn[t].new
           /\ \A u \in Requests \ {t} : turn'[u] = turn[u]
BY RecFacts DEF Records, Goto, Becomes, TurnType

LEMMA BindLeaves ==
    ASSUME Records, NEW t \in Requests, NEW s, NEW pc, Bind(t, s, pc)
    PROVE  /\ turn'[t].pc = pc /\ turn'[t].s = s
           /\ \A u \in Requests \ {t} : turn'[u] = turn[u]
BY RecFacts DEF Records, Bind, Becomes, TurnType

LEMMA EndLeaves ==
    ASSUME Records, NEW t \in Requests, NEW pc, End(t, pc)
    PROVE  /\ turn'[t].pc = pc
           /\ \A u \in Requests \ {t} : turn'[u] = turn[u]
BY DEF Records, End, Becomes, Ended, Idle

LEMMA StartKind ==
    ASSUME Records, Rest, NEW t \in Requests, Start(t)
    PROVE  Kind(t)
<1>1. ASSUME NEW kind, NEW s, NEW pc, Arrives(t, kind, s, pc),
             pc \in {"check", "latest", "ready", "fail", "create", "clear"},
             pc = "check" => s = cachedId /\ cachedId # None,
             pc = "ready" => s \in Active
      PROVE  Kind(t)
  <2> DEFINE r == [Idle EXCEPT !.kind = kind, !.pc = pc, !.s = s, !.closed = Closed]
  <2>1. r.pc = pc /\ r.s = s
    BY DEF Idle
  <2>2. turn' = [turn EXCEPT ![t] = r]
    BY <1>1 DEF Arrives, Becomes
  <2>. HIDE DEF r
  <2>3. turn'[t].pc = pc /\ turn'[t].s = s /\ \A u \in Requests \ {t} : turn'[u] = turn[u]
    BY <2>1, <2>2 DEF Records
  <2>4. Alone(t)
    BY <1>1, <2>3 DEF Arrives, Alone
  <2>5. KArrive(t)
    BY <1>1, <2>3 DEF Arrives, KArrive, Still
  <2>. QED
    BY <2>4, <2>5 DEF Kind
<1>2. CASE StartMessage(t)
  BY <1>1, <1>2 DEF StartMessage
<1>3. ASSUME NEW s \in Sessions, StartNamed(t, s)
      PROVE  Kind(t)
  BY <1>1, <1>3 DEF StartNamed
<1>4. CASE StartCreate(t)
  BY <1>1, <1>4 DEF StartCreate
<1>5. CASE StartClear(t)
  BY <1>1, <1>5 DEF StartClear
<1>. QED
  BY <1>2, <1>3, <1>4, <1>5 DEF Start

LEMMA FindKind ==
    ASSUME Records, Rest, NEW t \in Requests, Find(t)
    PROVE  Kind(t)
<1>0. turn[t] \in TurnType
  BY RecFacts
<1>s. ASSUME KSearch(t), Alone(t) PROVE Kind(t)
  BY <1>s DEF Kind
<1>. USE DEF KSearch, Alone, Searching, Working, Quiet, Still, At, history
<1>1. CASE CheckCached(t)
  BY <1>0, <1>1, <1>s, GotoLeaves DEF CheckCached, Active
<1>2. CASE DropCached(t)
  BY <1>2, <1>s, GotoLeaves DEF DropCached
<1>3. CASE FindLatest(t)
  BY <1>3, <1>s, GotoLeaves, BindLeaves DEF FindLatest, Active
<1>4. CASE RememberSession(t)
  BY <1>4, <1>s, GotoLeaves, EndLeaves DEF RememberSession
<1>5. CASE ClearNothing(t) \/ ClearForget(t)
  BY <1>5, <1>s, EndLeaves DEF ClearNothing, ClearForget
<1>6. ASSUME NEW s \in Sessions, CreateSession(t, s)
      PROVE  Kind(t)
  <2>1. s \in Active'
    BY <1>6 DEF CreateSession, Opens, Active, Rest
  <2>. QED
    BY <1>6, <1>s, <2>1, BindLeaves DEF CreateSession
<1>7. ASSUME NEW s \in Sessions, Clear(t, s)
      PROVE  Kind(t)
  <2>1. turn'[t].pc = "forget" /\ \A u \in Requests \ {t} : turn'[u] = turn[u]
    BY <1>7, GotoLeaves DEF Clear
  <2>2. Alone(t)
    BY <1>7, <2>1 DEF Clear
  <2>3. \E c \in Active \cup Closed :
           session' = [session EXCEPT ![c] = "closed"] /\ cleared' = cleared \cup {c}
    BY <1>7 DEF Clear
  <2>4. KSearch(t)
    BY <1>7, <2>1, <2>3 DEF Clear
  <2>. QED
    BY <1>s, <2>2, <2>4
<1>. QED
  BY <1>1, <1>2, <1>3, <1>4, <1>5, <1>6, <1>7 DEF Find

LEMMA AnswerKind ==
    ASSUME Records, Rest, NEW t \in Requests, Answer(t) \/ Count(t) \/ CallFails(t)
    PROVE  Kind(t)
<1>0. turn[t] \in TurnType
  BY RecFacts
<1>s. ASSUME KSearch(t), Alone(t) PROVE Kind(t)
  BY <1>s DEF Kind
<1>c. ASSUME KCount(t), Alone(t) PROVE Kind(t)
  BY <1>c DEF Kind
<1>r. ASSUME NEW r, Becomes(t, r)
      PROVE  turn'[t] = r /\ \A u \in Requests \ {t} : turn'[u] = turn[u]
  BY <1>r DEF Becomes, Records
<1>. USE DEF KSearch, KCount, Alone, Searching, Working, Quiet, Still, At, history
<1>1. CASE AnswerFromCache(t)
  <2> DEFINE r == [Counted(t) EXCEPT !.free = TRUE]
  <2>1. /\ r.s = turn[t].s /\ r.pc = "insert"
        /\ r.count = Cardinality(messages[turn[t].s])
    BY <1>0 DEF Counted, TurnType
  <2>2. Becomes(t, r)
    BY <1>1 DEF AnswerFromCache
  <2>. HIDE DEF r
  <2>. QED
    BY <1>1, <1>c, <1>r, <2>1, <2>2 DEF AnswerFromCache
<1>2. CASE Reserve(t)
  <2>1. CASE used < Limit
    <3> DEFINE r == [turn[t] EXCEPT !.pc = "model", !.key = day, !.consumed = TRUE]
    <3>1. r.s = turn[t].s /\ r.pc = "model"
      BY <1>0 DEF TurnType
    <3>2. Becomes(t, r)
      BY <1>2, <2>1 DEF Reserve
    <3>. HIDE DEF r
    <3>. QED
      BY <1>2, <1>s, <1>r, <3>1, <3>2 DEF Reserve
  <2>2. CASE ~(used < Limit)
    BY <1>2, <1>s, <2>2, GotoLeaves DEF Reserve
  <2>. QED
    BY <2>1, <2>2
<1>3. CASE ReserveUnavailable(t)
  <2> DEFINE r == [turn[t] EXCEPT !.pc = "model", !.free = TRUE]
  <2>1. r.s = turn[t].s /\ r.pc = "model"
    BY <1>0 DEF TurnType
  <2>2. Becomes(t, r)
    BY <1>3 DEF ReserveUnavailable
  <2>. HIDE DEF r
  <2>. QED
    BY <1>3, <1>s, <1>r, <2>1, <2>2 DEF ReserveUnavailable
<1>4. CASE StreamToken(t)
  <2> DEFINE r == [turn[t] EXCEPT !.emitted = TRUE]
  <2>1. r.s = turn[t].s /\ r.pc = turn[t].pc
    BY <1>0 DEF TurnType
  <2>2. Becomes(t, r)
    BY <1>4 DEF StreamToken
  <2>. HIDE DEF r
  <2>. QED
    BY <1>4, <1>s, <1>r, <2>1, <2>2 DEF StreamToken
<1>5. CASE ModelFails(t)
  BY <1>5, <1>s, GotoLeaves DEF ModelFails
<1>6. CASE Count(t)
  <2>1. /\ Counted(t).s = turn[t].s /\ Counted(t).pc = "insert"
        /\ Counted(t).count = Cardinality(messages[turn[t].s])
    BY <1>0 DEF Counted, TurnType
  <2>2. Becomes(t, Counted(t))
    BY <1>6 DEF Count
  <2>. QED
    BY <1>6, <1>c, <1>r, <2>1, <2>2 DEF Count
<1>7. CASE CallFails(t)
  BY <1>7, <1>s, GotoLeaves DEF CallFails
<1>. QED
  BY <1>1, <1>2, <1>3, <1>4, <1>5, <1>6, <1>7 DEF Answer

LEMMA PersistKind ==
    ASSUME Records, Rest, NEW t \in Requests,
           (Persist(t) /\ ~Count(t)) \/ Fail(t) \/ FailKeepsCharge(t)
    PROVE  Kind(t)
<1>0. turn[t] \in TurnType
  BY RecFacts
<1>r. ASSUME NEW r, Becomes(t, r)
      PROVE  turn'[t] = r /\ \A u \in Requests \ {t} : turn'[u] = turn[u]
  BY <1>r DEF Becomes, Records
<1>. USE DEF Alone, Quiet, Still, At, history
<1>1. CASE Insert(t) \/ TouchFails(t)
  <2>1. Alone(t)
    BY <1>1, GotoLeaves, EndLeaves DEF Insert, TouchFails, StoreAnswer
  <2>2. KStore(t)
    BY <1>1, GotoLeaves, EndLeaves DEF Insert, TouchFails, KStore
  <2>. QED
    BY <2>1, <2>2 DEF Kind
<1>2. CASE ArchiveClose(t)
  <2>1. Alone(t) /\ KClose(t)
    BY <1>2, GotoLeaves DEF ArchiveClose, KClose
  <2>. QED
    BY <2>1 DEF Kind
<1>3. CASE ArchiveCarry(t)
  <2>1. PICK c \in LastMessages(turn[t].s, CarryOver) :
          Becomes(t, [turn[t] EXCEPT !.carry = c, !.pc = "open"])
    BY <1>3 DEF ArchiveCarry
  <2> DEFINE r == [turn[t] EXCEPT !.carry = c, !.pc = "open"]
  <2>2. r.s = turn[t].s /\ r.carry = c /\ r.pc = "open"
    BY <1>0 DEF TurnType
  <2>3. turn'[t] = r /\ \A u \in Requests \ {t} : turn'[u] = turn[u]
    BY <1>r, <2>1
  <2>. HIDE DEF r
  <2>4. Alone(t) /\ KCarry(t)
    BY <1>3, <2>1, <2>2, <2>3 DEF ArchiveCarry, KCarry
  <2>. QED
    BY <2>4 DEF Kind
<1>4. ASSUME NEW s \in Sessions, ArchiveOpen(t, s)
      PROVE  Kind(t)
  <2> DEFINE r == [turn[t] EXCEPT !.new = s, !.pc = "copy"]
  <2>1. r.s = turn[t].s /\ r.carry = turn[t].carry /\ r.new = s /\ r.pc = "copy"
    BY <1>0 DEF TurnType
  <2>2. Becomes(t, r)
    BY <1>4 DEF ArchiveOpen
  <2>. HIDE DEF r
  <2>3. Alone(t) /\ KOpen(t)
    BY <1>4, <1>r, <2>1, <2>2 DEF ArchiveOpen, KOpen
  <2>. QED
    BY <2>3 DEF Kind
<1>5. CASE ArchiveCopy(t)
  <2>1. Alone(t) /\ KCopy(t)
    BY <1>5, GotoLeaves DEF ArchiveCopy, KCopy
  <2>. QED
    BY <2>1 DEF Kind
<1>6. CASE ArchiveRecall(t)
  <2>1. Alone(t) /\ KRecall(t)
    BY <1>6, EndLeaves DEF ArchiveRecall, KRecall
  <2>. QED
    BY <2>1 DEF Kind
<1>7. CASE ArchiveFails(t) \/ FailKeepsCharge(t)
  <2>1. Alone(t) /\ KGiveUp(t)
    BY <1>7, EndLeaves DEF ArchiveFails, FailKeepsCharge, KGiveUp
  <2>. QED
    BY <2>1 DEF Kind
<1>8. CASE Fail(t)
  <2> DEFINE r == [Ended(turn[t], "failed") EXCEPT !.consumed = @ /\ ~Refunded(t)]
  <2>1. r.pc = "failed"
    BY DEF Ended, Idle
  <2>2. Becomes(t, r)
    BY <1>8 DEF Fail
  <2>. HIDE DEF r
  <2>3. Alone(t) /\ KGiveUp(t)
    BY <1>8, <1>r, <2>1, <2>2 DEF Fail, KGiveUp
  <2>. QED
    BY <2>3 DEF Kind
<1>. QED
  BY <1>1, <1>2, <1>3, <1>4, <1>5, <1>6, <1>7, <1>8 DEF Persist

LEMMA NextKinds ==
    ASSUME Records, Rest, Next
    PROVE  (\E t \in Requests : Kind(t)) \/ Crash \/ NewDay
BY StartKind, FindKind, AnswerKind, PersistKind DEF Next, Failure

-----------------------------------------------------------------------------
(* What a step adds to the sessions                                        *)

Question(t) == [turn |-> t, role |-> "user", seq |-> turn[t].count + 1, by |-> t]
Reply(t) == [turn |-> t, role |-> "assistant", seq |-> turn[t].count + 2, by |-> t]

CopiesOf(c, t, f) == {[m EXCEPT !.seq = f[m], !.by = t] : m \in c}
Copies(t, f) == CopiesOf(turn[t].carry, t, f)

\* The session that a step of t writes to.
Target(t) == IF At(t, "insert") THEN turn[t].s ELSE turn[t].new

LEMMA StoreAdds ==
    ASSUME Records, Rest, NEW t \in Requests, KStore(t)
    PROVE  /\ turn[t].s \in Sessions /\ turn[t].count \in Nat
           /\ messages' = [messages EXCEPT ![turn[t].s] = @ \cup {Question(t), Reply(t)}]
<1>1. turn[t].s \in Sessions /\ turn[t].count \in Nat
  BY RecFacts DEF KStore, At, Rec, Placed, TurnType
<1>. QED
  BY <1>1 DEF KStore, StoreAnswer, Question, Reply

LEMMA CopyAdds ==
    ASSUME Records, Rest, NEW t \in Requests, KCopy(t)
    PROVE  /\ turn[t].new \in Sessions
           /\ IsFiniteSet(turn[t].carry) /\ turn[t].carry \subseteq MessageType
           /\ \E f \in Renumbered(turn[t].carry) :
                 messages' = [messages EXCEPT ![turn[t].new] = @ \cup Copies(t, f)]
<1>1. turn[t].new \in Sessions /\ IsFiniteSet(turn[t].carry)
  BY RecFacts DEF KCopy, At, Rec
<1>2. turn[t].carry \subseteq MessageType
  BY RecFacts DEF TurnType
<1>. QED
  BY <1>1, <1>2 DEF KCopy, Copies, CopiesOf

\* What a copy says, and that different messages have different numbers.
LEMMA CopyReads ==
    ASSUME NEW t, NEW c \in SUBSET MessageType, NEW f \in Renumbered(c), NEW m \in c
    PROVE  LET q == [m EXCEPT !.seq = f[m], !.by = t] IN
           /\ q.seq = f[m] /\ q.by = t /\ q.turn = m.turn /\ q.role = m.role
           /\ q.seq \in 1..Cardinality(c)
BY DEF MessageType, Renumbered

\* There are as many copies as messages that are copied.
LEMMA CopyCount ==
    ASSUME NEW t, NEW c \in SUBSET MessageType, IsFiniteSet(c), NEW f \in Renumbered(c)
    PROVE  /\ IsFiniteSet(CopiesOf(c, t, f))
           /\ Cardinality(CopiesOf(c, t, f)) = Cardinality(c)
<1> DEFINE Copied(m) == [m EXCEPT !.seq = f[m], !.by = t]
           copies == {Copied(m) : m \in c}
           g == [m \in c |-> Copied(m)]
<1>1. \A m, o \in c : m # o => Copied(m) # Copied(o)
  <2>. SUFFICES ASSUME NEW m \in c, NEW o \in c, m # o
                PROVE  Copied(m) # Copied(o)
    OBVIOUS
  <2>1. Copied(m).seq = f[m] /\ Copied(o).seq = f[o]
    BY CopyReads
  <2>2. f[m] # f[o]
    BY DEF Renumbered
  <2>. QED
    BY <2>1, <2>2
<1>. HIDE DEF Copied
<1>2. g \in Bijection(c, copies)
  BY <1>1 DEF Bijection, Injection, Surjection, IsInjective
<1>3. IsFiniteSet(copies) /\ Cardinality(c) = Cardinality(copies)
  <2>1. ExistsBijection(c, copies)
    BY <1>2 DEF ExistsBijection
  <2>. HIDE DEF copies
  <2>. QED
    BY <2>1, FS_Bijection
<1>. QED
  BY <1>3 DEF Copied, CopiesOf

\* Messages are only added, by the request whose step it is, to one session.
LEMMA MessagesGrow ==
    ASSUME Records, Rest, NEW t \in Requests, Kind(t)
    PROVE  \A s \in Sessions :
              /\ messages[s] \subseteq messages'[s]
              /\ \A m \in messages'[s] \ messages[s] :
                    /\ m.by = t /\ s = Target(t) /\ turn[t].pc \in {"insert", "copy"}
                    /\ KStore(t) \/ KCopy(t)
<1>1. CASE KStore(t)
  <2>1. Question(t).by = t /\ Reply(t).by = t
    BY DEF Question, Reply
  <2>. QED
    BY <1>1, <2>1, StoreAdds DEF Rest, KStore, Target, At
<1>2. CASE KCopy(t)
  <2>1. PICK f \in Renumbered(turn[t].carry) :
           messages' = [messages EXCEPT ![turn[t].new] = @ \cup Copies(t, f)]
    BY <1>2, CopyAdds
  <2>2. \A m \in Copies(t, f) : m.by = t
    <3>. SUFFICES ASSUME NEW m \in Copies(t, f) PROVE m.by = t
      OBVIOUS
    <3>1. PICK o \in turn[t].carry : m = [o EXCEPT !.seq = f[o], !.by = t]
      BY DEF Copies, CopiesOf
    <3>2. o \in MessageType
      BY <1>2, CopyAdds
    <3>. QED
      BY <3>1, <3>2 DEF MessageType
  <2>. QED
    BY <1>2, <2>1, <2>2, CopyAdds DEF Rest, KCopy, Target, At
<1>3. CASE messages' = messages
  BY <1>3
<1>. QED
  BY <1>1, <1>2, <1>3
     DEF Kind, KArrive, KSearch, KCount, KClose, KCarry, KOpen, KRecall, KGiveUp, Quiet

-----------------------------------------------------------------------------
(* The numbers of the messages                                             *)
(*                                                                         *)
(* A request numbers its messages from a count it has read before: what    *)
(* was added since is by requests it overlaps with.  The copies of an      *)
(* archive are numbered from 1 in a session whose other messages, if any,  *)
(* are by requests that overlap with the archiving one.                    *)

\* Two requests that run have met.
AllMet ==
    \A t, u \in Requests : t # u /\ Running(t) /\ Running(u) => {t, u} \in met

\* Sessions that are named exist; sessions that do not exist are empty.
Known ==
    /\ cachedId # None => session[cachedId] # "unused"
    /\ \A t \in Requests :
          /\ turn[t].pc \in Placed => session[turn[t].s] # "unused"
          /\ turn[t].pc \in {"copy", "recall"} => session[turn[t].new] # "unused"
          /\ turn[t].pc = "copy" => turn[t].new # turn[t].s
    /\ \A s \in Sessions : session[s] = "unused" => messages[s] = {}

\* A message is by a request that has stored its answer, in its own session
\* as long as it has not copied any.
Own ==
    \A s \in Sessions : \A m \in messages[s] :
        /\ turn[m.by].pc \in Answered
        /\ turn[m.by].pc \in {"archive", "carry", "open", "copy"} => s = turn[m.by].s

\* No number exceeds the number of messages.
Numbered ==
    \A s \in Sessions : \A m \in messages[s] : m.seq <= Cardinality(messages[s])

\* What has a higher number than a request has counted is by one it has met.
CountedBelow ==
    \A t \in Requests : At(t, "insert") =>
        /\ turn[t].count <= Cardinality(messages[turn[t].s])
        /\ \A m \in messages[turn[t].s] : m.seq <= turn[t].count \/ {m.by, t} \in met

\* A new session that awaits its copies is written by requests met only.
CopyMeets ==
    \A t \in Requests : At(t, "copy") => \A m \in messages[turn[t].new] : {m.by, t} \in met

Ordered ==
    AllMet /\ Known /\ Own /\ Numbered /\ CountedBelow /\ CopyMeets /\ NumbersIdentifyMessages

LEMMA AllMetStep ==
    ASSUME Records, Rest, NEW t \in Requests, Kind(t), AllMet
    PROVE  AllMet'
<1>. SUFFICES ASSUME NEW u \in Requests, NEW v \in Requests, u # v, Running(u)', Running(v)'
              PROVE  {u, v} \in met'
  BY DEF AllMet
<1>1. CASE Running(u) /\ Running(v)
  BY <1>1 DEF AllMet, Kind, Alone
<1>2. CASE ~(Running(u) /\ Running(v))
  <2>1. ~Running(t)
    BY <1>2 DEF Kind, Alone, Running
  <2>2. KArrive(t)
    BY <2>1 DEF Kind, Running, At, KSearch, KCount, KStore, KClose, KCarry, KOpen, KCopy,
                KRecall, KGiveUp, Searching
  <2>3. CASE u = t
    <3>1. Running(v)
      BY <2>3 DEF Kind, Alone, Running
    <3>. QED
      BY <2>2, <2>3, <3>1 DEF KArrive
  <2>4. CASE v = t
    <3>1. Running(u)
      BY <2>4 DEF Kind, Alone, Running
    <3>. QED
      BY <2>2, <2>4, <3>1 DEF KArrive
  <2>5. CASE u # t /\ v # t
    BY <1>2, <2>5 DEF Kind, Alone, Running
  <2>. QED
    BY <2>3, <2>4, <2>5
<1>. QED
  BY <1>1, <1>2

LEMMA KnownStep ==
    ASSUME Records, Rest, NEW t \in Requests, Kind(t), Known
    PROVE  Known'
<1>0. \A u \in Requests : Rec(turn[u])
  BY RecFacts
<1>1. \A s \in Sessions : session[s] # "unused" => session'[s] # "unused"
  BY <1>0 DEF Kind, KArrive, KSearch, KCount, KStore, KClose, KCarry, KOpen, KCopy,
              KRecall, KGiveUp, Rest, Still, Opens, StoreAnswer
<1>2. cachedId' # None => session'[cachedId'] # "unused"
  BY <1>0, <1>1 DEF Known, Kind, Alone, Rest, Rec, Placed, At
<1>3. \A u \in Requests \ {t} :
         /\ turn'[u].pc \in Placed => session'[turn'[u].s] # "unused"
         /\ turn'[u].pc \in {"copy", "recall"} => session'[turn'[u].new] # "unused"
         /\ turn'[u].pc = "copy" => turn'[u].new # turn'[u].s
  BY <1>0, <1>1 DEF Known, Kind, Alone, Rec, Placed
<1>4. turn'[t].pc \in Placed => session'[turn'[t].s] # "unused"
  <2>. HAVE turn'[t].pc \in Placed
  <2>1. CASE KArrive(t)
    BY <2>1 DEF KArrive, Known, Placed, Active, Still
  <2>2. CASE KSearch(t)
    BY <1>0, <1>1, <2>2 DEF KSearch, Known, Working, Searching, Placed, Active, Rec
  <2>3. CASE ~KArrive(t) /\ ~KSearch(t) /\ ~KCopy(t)
    <3>1. turn[t].pc \in Placed /\ turn'[t].s = turn[t].s
      BY <2>3 DEF Kind, KCount, KStore, KClose, KCarry, KOpen, KRecall, KGiveUp, Placed, At
    <3>. QED
      BY <1>0, <1>1, <3>1 DEF Known, Rec
  <2>4. CASE KCopy(t)
    BY <1>0, <1>1, <2>4 DEF Known, Rec, KCopy, Placed, At
  <2>. QED
    BY <2>1, <2>2, <2>3, <2>4
<1>5. turn'[t].pc \in {"copy", "recall"} => session'[turn'[t].new] # "unused"
  BY <1>0, <1>1 DEF Known, Kind, KArrive, KSearch, KCount, KStore, KClose, KCarry, KOpen, KCopy,
              KRecall, KGiveUp, At, Searching, Opens, Rest, Rec
<1>6. turn'[t].pc = "copy" => turn'[t].new # turn'[t].s
  BY <1>0 DEF Known, Kind, KArrive, KSearch, KCount, KStore, KClose, KCarry, KOpen, KCopy,
              KRecall, KGiveUp, At, Searching, Opens, Rec, Placed
<1>7. \A s \in Sessions : session'[s] = "unused" => messages'[s] = {}
  <2>. SUFFICES ASSUME NEW s \in Sessions, session'[s] = "unused" PROVE messages'[s] = {}
    OBVIOUS
  <2>1. session[s] = "unused" /\ messages[s] = {}
    BY <1>1 DEF Known
  <2>2. turn[t].pc \in {"insert", "copy"} => s # Target(t)
    BY <2>1 DEF Known, Target, At, Placed
  <2>. QED
    BY <2>1, <2>2, MessagesGrow
<1>. QED
  BY <1>2, <1>3, <1>4, <1>5, <1>6, <1>7 DEF Known

LEMMA OwnStep ==
    ASSUME Records, Rest, Rest', NEW t \in Requests, Kind(t), Own
    PROVE  Own'
<1>. SUFFICES ASSUME NEW s \in Sessions, NEW m \in messages'[s]
              PROVE  /\ turn'[m.by].pc \in Answered
                     /\ turn'[m.by].pc \in {"archive", "carry", "open", "copy"} =>
                           s = turn'[m.by].s
  BY DEF Own
<1>0. m.by \in Requests
  BY DEF Rest, MessageType
<1>1. CASE m \in messages[s]
  <2>1. /\ turn[m.by].pc \in Answered
        /\ turn[m.by].pc \in {"archive", "carry", "open", "copy"} => s = turn[m.by].s
    BY <1>1 DEF Own
  <2>2. CASE m.by = t
    BY <2>1, <2>2 DEF Kind, KArrive, KSearch, KCount, KStore, KClose, KCarry, KOpen, KCopy,
              KRecall, KGiveUp, At, Searching, Answered, Archiving
  <2>3. CASE m.by # t
    BY <1>0, <2>1, <2>3 DEF Kind, Alone
  <2>. QED
    BY <2>2, <2>3
<1>2. CASE m \notin messages[s]
  <2>1. m.by = t /\ s = Target(t) /\ (KStore(t) \/ KCopy(t))
    BY <1>2, MessagesGrow
  <2>. QED
    BY <2>1 DEF KStore, KCopy, Target, At, Answered, Archiving
<1>. QED
  BY <1>1, <1>2

\* A session keeps what it holds, so that its size never shrinks.
LEMMA SizeGrows ==
    ASSUME Records, Rest, Rest', NEW t \in Requests, Kind(t), NEW s \in Sessions
    PROVE  /\ Cardinality(messages[s]) \in Nat /\ Cardinality(messages'[s]) \in Nat
           /\ Cardinality(messages[s]) <= Cardinality(messages'[s])
<1>1. IsFiniteSet(messages[s]) /\ IsFiniteSet(messages'[s])
  BY DEF Rest
<1>2. messages[s] \subseteq messages'[s]
  BY MessagesGrow
<1>. QED
  BY <1>1, <1>2, FS_Subset, FS_CardinalityType

\* A stored answer adds two to the size of its session.
LEMMA StoreCount ==
    ASSUME Records, Rest, Own, NEW t \in Requests, KStore(t)
    PROVE  /\ Cardinality(messages[turn[t].s]) \in Nat
           /\ Cardinality(messages'[turn[t].s]) = Cardinality(messages[turn[t].s]) + 2
           /\ \A m \in messages[turn[t].s] : m.by # t
<1> DEFINE s == turn[t].s
<1>1. s \in Sessions /\ IsFiniteSet(messages[s])
      /\ messages'[s] = messages[s] \cup {Question(t), Reply(t)}
  BY StoreAdds DEF Rest
<1>2. \A m \in messages[s] : m.by # t
  BY <1>1 DEF Own, KStore, At, Answered, Archiving
<1>3. Question(t).by = t /\ Reply(t).by = t /\ Question(t) # Reply(t)
  BY DEF Question, Reply
<1>. HIDE DEF s
<1>4. Question(t) \notin messages[s] /\ Reply(t) \notin messages[s] \cup {Question(t)}
  BY <1>2, <1>3
<1>5. /\ IsFiniteSet(messages[s] \cup {Question(t)})
      /\ Cardinality(messages[s] \cup {Question(t)}) = Cardinality(messages[s]) + 1
  BY <1>1, <1>4, FS_AddElement
<1>6. Cardinality((messages[s] \cup {Question(t)}) \cup {Reply(t)})
         = Cardinality(messages[s] \cup {Question(t)}) + 1
  BY <1>4, <1>5, FS_AddElement
<1>7. messages'[s] = (messages[s] \cup {Question(t)}) \cup {Reply(t)}
  BY <1>1
<1>8. Cardinality(messages[s]) \in Nat
  BY <1>1, FS_CardinalityType
<1>. QED
  BY <1>2, <1>5, <1>6, <1>7, <1>8 DEF s

LEMMA NumberedStep ==
    ASSUME Records, Rest, Rest', NEW t \in Requests, Kind(t), Own, Numbered, CountedBelow
    PROVE  Numbered'
<1>. SUFFICES ASSUME NEW s \in Sessions, NEW m \in messages'[s]
              PROVE  m.seq <= Cardinality(messages'[s])
  BY DEF Numbered
<1>0. m.seq \in Nat
  BY DEF Rest, MessageType
<1>1. CASE m \in messages[s]
  BY <1>0, <1>1, SizeGrows DEF Numbered
<1>2. CASE m \notin messages[s] /\ KStore(t)
  <2>1. s = turn[t].s /\ turn[t].count \in Nat
    BY <1>2, MessagesGrow, StoreAdds DEF KStore, Target
  <2>2. m = Question(t) \/ m = Reply(t)
    BY <1>2, <2>1, StoreAdds DEF Rest
  <2>3. m.seq \in {turn[t].count + 1, turn[t].count + 2}
    BY <2>2 DEF Question, Reply
  <2>4. turn[t].count <= Cardinality(messages[s])
    BY <1>2, <2>1 DEF CountedBelow, KStore
  <2>. QED
    BY <1>2, <2>1, <2>3, <2>4, StoreCount
<1>3. CASE m \notin messages[s] /\ KCopy(t)
  <2>1. PICK f \in Renumbered(turn[t].carry) :
           messages' = [messages EXCEPT ![turn[t].new] = @ \cup Copies(t, f)]
    BY <1>3, CopyAdds
  <2> DEFINE c == turn[t].carry
             copies == CopiesOf(c, t, f)
  <2>2. /\ c \in SUBSET MessageType /\ IsFiniteSet(c) /\ Copies(t, f) = copies
        /\ f \in Renumbered(c)
    BY <1>3, CopyAdds DEF Copies
  <2>3. m \in copies /\ copies \subseteq messages'[s]
    BY <1>3, <2>1, <2>2, CopyAdds DEF Rest
  <2>4. PICK o \in c : m = [o EXCEPT !.seq = f[o], !.by = t]
    BY <2>3 DEF CopiesOf
  <2>5. m.seq \in 1..Cardinality(c)
    BY <2>2, <2>4, CopyReads
  <2>. HIDE DEF c
  <2>6. IsFiniteSet(copies) /\ Cardinality(copies) = Cardinality(c)
    BY <2>2, CopyCount
  <2>. HIDE DEF copies
  <2>7. Cardinality(copies) <= Cardinality(messages'[s]) /\ IsFiniteSet(messages'[s])
    BY <2>3, FS_Subset DEF Rest
  <2>. QED
    BY <2>2, <2>5, <2>6, <2>7, FS_CardinalityType
<1>. QED
  BY <1>1, <1>2, <1>3, MessagesGrow

\* A request that writes has met the ones that count or wait for copies.
LEMMA WriterMet ==
    ASSUME AllMet, NEW t \in Requests, Kind(t), NEW u \in Requests \ {t},
           turn[t].pc \in {"insert", "copy"}, turn[u].pc \in {"insert", "copy"}
    PROVE  {t, u} \in met'
BY DEF AllMet, Running, Kind, Alone

LEMMA CountedBelowStep ==
    ASSUME Records, Rest, Rest', NEW t \in Requests, Kind(t), AllMet, Numbered, CountedBelow
    PROVE  CountedBelow'
<1>. SUFFICES ASSUME NEW u \in Requests, At(u, "insert")'
              PROVE  /\ turn'[u].count <= Cardinality(messages'[turn'[u].s])
                     /\ \A m \in messages'[turn'[u].s] :
                           m.seq <= turn'[u].count \/ {m.by, u} \in met'
  BY DEF CountedBelow, At
<1>1. CASE u = t
  <2>1. KCount(t)
    BY <1>1 DEF Kind, KArrive, KSearch, KStore, KClose, KCarry, KOpen, KCopy, KRecall, KGiveUp,
                At, Searching
  <2>2. turn[t].s \in Sessions
    BY <2>1, RecFacts DEF KCount, Rec, Placed
  <2>3. messages' = messages /\ turn'[t].s = turn[t].s
        /\ turn'[t].count = Cardinality(messages[turn[t].s])
    BY <2>1 DEF KCount, Quiet
  <2>4. Cardinality(messages[turn[t].s]) \in Nat
    BY <2>2, FS_CardinalityType DEF Rest
  <2>. QED
    BY <1>1, <2>2, <2>3, <2>4 DEF Numbered
<1>2. CASE u # t
  <2>1. turn'[u] = turn[u] /\ met \subseteq met'
    BY <1>2 DEF Kind, Alone
  <2>2. At(u, "insert") /\ turn[u].s \in Sessions /\ turn[u].count \in Nat
    BY <2>1, RecFacts DEF Rec, Placed, TurnType, At
  <2>3. turn[u].count <= Cardinality(messages'[turn[u].s])
    BY <2>2, SizeGrows DEF CountedBelow
  <2>4. ASSUME NEW m \in messages'[turn[u].s]
        PROVE  m.seq <= turn[u].count \/ {m.by, u} \in met'
    <3>1. CASE m \in messages[turn[u].s]
      BY <2>1, <2>2, <3>1 DEF CountedBelow
    <3>2. CASE m \notin messages[turn[u].s]
      <4>1. m.by = t /\ turn[t].pc \in {"insert", "copy"}
        BY <2>2, <3>2, MessagesGrow
      <4>. QED
        BY <1>2, <2>2, <4>1, WriterMet DEF At
    <3>. QED
      BY <3>1, <3>2
  <2>. QED
    BY <2>1, <2>3, <2>4
<1>. QED
  BY <1>1, <1>2

LEMMA CopyMeetsStep ==
    ASSUME Records, Rest, NEW t \in Requests, Kind(t), AllMet, Known, CopyMeets
    PROVE  CopyMeets'
<1>. SUFFICES ASSUME NEW u \in Requests, At(u, "copy")', NEW m \in messages'[turn'[u].new]
              PROVE  {m.by, u} \in met'
  BY DEF CopyMeets, At
<1>1. CASE u = t
  <2>1. KOpen(t)
    BY <1>1 DEF Kind, KArrive, KSearch, KCount, KStore, KClose, KCarry, KCopy, KRecall, KGiveUp,
                At, Searching
  <2>2. messages'[turn'[t].new] = {}
    BY <2>1 DEF KOpen, Opens, Known, Quiet
  <2>. QED
    BY <1>1, <2>2
<1>2. CASE u # t
  <2>1. turn'[u] = turn[u] /\ met \subseteq met'
    BY <1>2 DEF Kind, Alone
  <2>2. At(u, "copy") /\ turn[u].new \in Sessions
    BY <2>1, RecFacts DEF Rec, At
  <2>3. CASE m \in messages[turn[u].new]
    BY <2>1, <2>2, <2>3 DEF CopyMeets
  <2>4. CASE m \notin messages[turn[u].new]
    <3>1. m.by = t /\ turn[t].pc \in {"insert", "copy"}
      BY <2>1, <2>2, <2>4, MessagesGrow
    <3>. QED
      BY <1>2, <2>2, <3>1, WriterMet DEF At
  <2>. QED
    BY <2>3, <2>4
<1>. QED
  BY <1>1, <1>2

LEMMA IdentifyStep ==
    ASSUME Records, Rest, Rest', NEW t \in Requests, Kind(t), Ordered
    PROVE  NumbersIdentifyMessages'
<1>. SUFFICES ASSUME NEW s \in Sessions, NEW m \in messages'[s], NEW o \in messages'[s],
                     m.seq = o.seq, m # o
              PROVE  {m.by, o.by} \in met'
  BY DEF NumbersIdentifyMessages
<1>0. met \subseteq met' /\ m.seq \in Nat /\ o.seq \in Nat
  BY DEF Kind, Alone, Rest, MessageType
<1>1. CASE m \in messages[s] /\ o \in messages[s]
  BY <1>0, <1>1 DEF Ordered, NumbersIdentifyMessages
\* A message that was there and one that is added.
<1>2. ASSUME NEW p \in messages[s], NEW q \in messages'[s] \ messages[s], p.seq = q.seq
      PROVE  {p.by, q.by} \in met'
  <2>1. q.by = t /\ s = Target(t) /\ (KStore(t) \/ KCopy(t))
    BY <1>2, MessagesGrow
  <2>2. CASE KStore(t)
    <3>1. s = turn[t].s /\ turn[t].count \in Nat /\ At(t, "insert")
      BY <2>1, <2>2, StoreAdds DEF KStore, Target
    <3>2. q = Question(t) \/ q = Reply(t)
      BY <1>2, <2>2, <3>1, StoreAdds DEF Rest
    <3>3. q.seq \in {turn[t].count + 1, turn[t].count + 2}
      BY <3>2 DEF Question, Reply
    <3>4. p.seq <= turn[t].count \/ {p.by, t} \in met
      BY <3>1 DEF Ordered, CountedBelow
    <3>. QED
      BY <1>0, <1>2, <2>1, <3>1, <3>3, <3>4
  <2>3. CASE KCopy(t)
    <3>1. s = turn[t].new /\ At(t, "copy")
      BY <2>1, <2>3 DEF KCopy, Target, At
    <3>. QED
      BY <1>0, <2>1, <3>1 DEF Ordered, CopyMeets
  <2>. QED
    BY <2>1, <2>2, <2>3
<1>3. CASE m \notin messages[s] /\ o \notin messages[s]
  <2>1. s = Target(t) /\ (KStore(t) \/ KCopy(t))
    BY <1>3, MessagesGrow
  <2>2. CASE KStore(t)
    <3>1. s = turn[t].s /\ turn[t].count \in Nat
      BY <2>1, <2>2, StoreAdds DEF KStore, Target
    <3>2. m \in {Question(t), Reply(t)} /\ o \in {Question(t), Reply(t)}
      BY <1>3, <2>2, <3>1, StoreAdds DEF Rest
    <3>3. Question(t).seq = turn[t].count + 1 /\ Reply(t).seq = turn[t].count + 2
      BY DEF Question, Reply
    <3>. QED
      BY <3>1, <3>2, <3>3
  <2>3. CASE KCopy(t)
    <3>1. s = turn[t].new
      BY <2>1, <2>3 DEF KCopy, Target, At
    <3>2. PICK f \in Renumbered(turn[t].carry) :
             messages' = [messages EXCEPT ![turn[t].new] = @ \cup Copies(t, f)]
      BY <2>3, CopyAdds
    <3>3. m \in Copies(t, f) /\ o \in Copies(t, f)
      BY <1>3, <3>1, <3>2 DEF Rest
    <3>4. PICK a \in turn[t].carry : m = [a EXCEPT !.seq = f[a], !.by = t]
      BY <3>3 DEF Copies, CopiesOf
    <3>5. PICK b \in turn[t].carry : o = [b EXCEPT !.seq = f[b], !.by = t]
      BY <3>3 DEF Copies, CopiesOf
    <3>6. m.seq = f[a] /\ o.seq = f[b]
      BY <2>3, <3>4, <3>5, CopyAdds, CopyReads
    <3>7. a # b
      BY <3>4, <3>5
    <3>. QED
      BY <3>6, <3>7 DEF Renumbered
  <2>. QED
    BY <2>1, <2>2, <2>3
<1>4. CASE m \in messages[s] /\ o \notin messages[s]
  BY <1>2, <1>4
<1>5. CASE o \in messages[s] /\ m \notin messages[s]
  <2>1. {o.by, m.by} \in met'
    BY <1>2, <1>5
  <2>. QED
    BY <2>1
<1>. QED
  BY <1>1, <1>3, <1>4, <1>5

LEMMA KindOrdered ==
    ASSUME Records, Rest, Rest', NEW t \in Requests, Kind(t), Ordered
    PROVE  Ordered'
BY AllMetStep, KnownStep, OwnStep, NumberedStep, CountedBelowStep, CopyMeetsStep, IdentifyStep
   DEF Ordered

\* A crash ends what runs and forgets the cached id; the sessions stay.
LEMMA CrashOrdered ==
    ASSUME Records, Rest, Crash, Ordered
    PROVE  Ordered'
<1>1. \A t \in Requests :
         turn'[t].pc \in Done \cup {"idle"} /\ (turn'[t] = turn[t] \/ turn'[t].pc = "died")
  BY DEF Crash, Running, Ended, Idle
<1>. USE DEF Ordered, Crash
<1>2. AllMet'
  BY <1>1 DEF AllMet, Running
<1>3. Known'
  BY <1>1 DEF Known, Placed
<1>4. Own'
  <2>. SUFFICES ASSUME NEW s \in Sessions, NEW m \in messages[s]
                PROVE  turn'[m.by].pc \in Done
    BY DEF Own, Answered
  <2>1. m.by \in Requests /\ turn[m.by].pc \in Answered
    BY DEF Own, Rest, MessageType
  <2>. QED
    BY <1>1, <2>1 DEF Answered, Archiving
<1>5. (Numbered /\ CountedBelow /\ CopyMeets)'
  BY <1>1 DEF Numbered, CountedBelow, CopyMeets, At
<1>6. NumbersIdentifyMessages'
  BY DEF NumbersIdentifyMessages
<1>. QED
  BY <1>2, <1>3, <1>4, <1>5, <1>6

LEMMA OrderedStep ==
    ASSUME Records, Rest, Rest', Ordered, [Next]_vars
    PROVE  Ordered'
<1>. USE DEF Ordered, AllMet, Known, Own, Numbered, CountedBelow, CopyMeets,
             NumbersIdentifyMessages, Running, At
<1>1. CASE NewDay
  BY <1>1 DEF NewDay, history
<1>2. CASE UNCHANGED vars
  BY <1>2 DEF vars
<1>. QED
  BY <1>1, <1>2, NextKinds, KindOrdered, CrashOrdered

LEMMA OrderedInit ==
    ASSUME Init
    PROVE  Ordered
<1>1. \A t \in Requests : turn[t].pc = "idle"
  BY DEF Init, Idle
<1>. QED
  BY <1>1 DEF Init, Ordered, AllMet, Known, Own, Numbered, CountedBelow, CopyMeets,
              NumbersIdentifyMessages, Running, At, Placed

\* A session's history reads in order, unless the requests that wrote two of
\* its messages overlapped: for any number of requests, sessions and messages.
THEOREM ChatNumbers == Spec => []NumbersIdentifyMessages
<1>1. Spec => []Ordered
  <2>1. Init => Ordered
    BY OrderedInit
  <2>2. Records /\ Rest /\ (Records /\ Rest)' /\ Ordered /\ [Next]_vars => Ordered'
    BY OrderedStep
  <2>. QED
    BY <2>1, <2>2, RecordsAndRest, PTL DEF Spec
<1>2. Ordered => NumbersIdentifyMessages
  BY DEF Ordered
<1>. QED
  BY <1>1, <1>2, PTL

-----------------------------------------------------------------------------
(* Where the latest answer is                                              *)
(*                                                                         *)
(* A request that overlaps no other one and whose archive does not fail    *)
(* stores its answer in a session the user can continue, as the last       *)
(* message; its archive carries that message over to the session it opens. *)

\* Sessions the user can continue or has cleared.
Reachable == Active \cup cleared

\* Requests that overlapped no other one and failed in nothing that counts.
Unmet(t) == t \notin excused /\ \A p \in met : t \notin p

Answers(m, t) == m.turn = t /\ m.role = "assistant"

\* Where one that is alone finds, and opens, its session.
OpenHeld ==
    \A t \in Requests : Unmet(t) =>
        /\ turn[t].pc \in Working => turn[t].s \in Reachable
        /\ turn[t].pc = "copy" => turn[t].new \in Reachable

\* Where its answer is at each point of its archive and after it.
LastInSession(t) ==
    \E m \in messages[turn[t].s] :
        /\ Answers(m, t)
        /\ \A o \in messages[turn[t].s] : o # m => o.seq < m.seq

Carried(t) == \E m \in turn[t].carry : Answers(m, t)

InReach(t) == \E s \in Reachable : \E m \in messages[s] : Answers(m, t)

Kept(t) ==
    /\ turn[t].pc \in {"archive", "carry"} => LastInSession(t)
    /\ turn[t].pc \in {"open", "copy"} => Carried(t)
    /\ turn[t].pc \in {"recall", "fail"} \cup Done => InReach(t)

\* Who archives has met the request that stored the latest answer.
LatestKept ==
    latest # None =>
        /\ turn[latest].pc \in Answered
        /\ \A u \in Requests \ {latest} : turn[u].pc \in Archiving => {latest, u} \in met
        /\ Unmet(latest) => Kept(latest)

Reached == OpenHeld /\ LatestKept

LEMMA UnmetBefore ==
    ASSUME NEW t \in Requests, Kind(t), NEW u, Unmet(u)'
    PROVE  Unmet(u)
BY DEF Kind, Alone, Unmet

\* Only an archive takes a session from the user, and not from one that is
\* alone.
LEMMA OpenStays ==
    ASSUME Rest, NEW t \in Requests, Kind(t), ~KClose(t), NEW s \in Reachable
    PROVE  s \in Reachable'
<1>1. CASE KArrive(t) \/ KCount(t) \/ KStore(t) \/ KCarry(t) \/ KCopy(t) \/ KRecall(t) \/ KGiveUp(t)
  BY <1>1 DEF KArrive, KCount, KStore, KCarry, KCopy, KRecall, KGiveUp, Still, StoreAnswer, Reachable,
              Active, history
<1>2. CASE KSearch(t) \/ KOpen(t)
  <2>1. CASE Still
    BY <2>1 DEF Still, Reachable, Active
  <2>2. CASE cleared' = cleared /\ \E c \in Sessions : Opens(c)
    BY <2>2 DEF Opens, Reachable, Active, Rest
  <2>3. CASE \E c \in Active \cup Closed :
                session' = [session EXCEPT ![c] = "closed"] /\ cleared' = cleared \cup {c}
    BY <2>3 DEF Reachable, Active, Rest
  <2>. QED
    BY <1>2, <2>1, <2>2, <2>3 DEF KSearch, KOpen
<1>. QED
  BY <1>1, <1>2 DEF Kind

LEMMA OpenHeldStep ==
    ASSUME Records, Rest, NEW t \in Requests, Kind(t), AllMet, OpenHeld
    PROVE  OpenHeld'
<1>. SUFFICES ASSUME NEW u \in Requests, Unmet(u)'
              PROVE  /\ turn'[u].pc \in Working => turn'[u].s \in Reachable'
                     /\ turn'[u].pc = "copy" => turn'[u].new \in Reachable'
  BY DEF OpenHeld
<1>0. Unmet(u) /\ Rec(turn[u])
  BY UnmetBefore, RecFacts
<1>1. CASE u # t
  <2>1. turn'[u] = turn[u]
    BY <1>1 DEF Kind, Alone
  <2>2. SUFFICES ASSUME turn[u].pc \in Working \cup {"copy"}
                 PROVE  ~KClose(t)
    BY <1>0, <2>1, OpenStays DEF OpenHeld, Rec, Working, Placed
  <2>3. ~Running(t)
    BY <1>0, <1>1, <2>2 DEF AllMet, Unmet, Running, Working
  <2>. QED
    BY <2>3 DEF KClose, At, Running
<1>2. CASE u = t
  <2>1. CASE KArrive(t)
    BY <1>2, <2>1 DEF KArrive, Still, Reachable, Active, Working
  <2>2. CASE KSearch(t)
    <3>1. turn'[t].pc # "copy"
      BY <2>2 DEF KSearch, Searching
    <3>2. CASE turn[t].pc \in Working /\ turn'[t].s = turn[t].s
      <4>1. turn[t].s \in Reachable /\ ~KClose(t)
        BY <1>0, <1>2, <2>2, <3>2 DEF OpenHeld, Rec, Working, Placed, KSearch, KClose, At, Searching
      <4>. QED
        BY <1>2, <3>1, <3>2, <4>1, OpenStays
    <3>. QED
      BY <1>2, <2>2, <3>1, <3>2 DEF KSearch, Reachable
  <2>3. CASE KCount(t)
    <3>1. turn[t].s \in Reachable /\ ~KClose(t) /\ At(t, "insert")'
          /\ turn'[t].s = turn[t].s
      BY <1>0, <1>2, <2>3 DEF OpenHeld, Rec, Working, Placed, KCount, KClose, At
    <3>. QED
      BY <1>2, <3>1, OpenStays DEF At, Working
  <2>4. CASE KOpen(t)
    BY <1>2, <2>4 DEF KOpen, Opens, Reachable, Active, At, Rest, Working
  <2>. QED
    BY <1>2, <2>1, <2>2, <2>3, <2>4
       DEF Kind, KStore, KClose, KCarry, KCopy, KRecall, KGiveUp, At, Working
<1>. QED
  BY <1>1, <1>2

\* The answer that is stored is the last message of its session, unless its
\* request has met another one.
LEMMA StoreKeeps ==
    ASSUME Records, Rest, NEW t \in Requests, Kind(t), KStore(t),
           AllMet, CountedBelow, OpenHeld
    PROVE  LatestKept'
<1> DEFINE s == turn[t].s
<1>1. latest' = t
  BY DEF KStore, StoreAnswer
<1>2. turn'[t].pc \in {"archive", "fail", "ok"} /\ (turn'[t].pc = "archive" => turn'[t].s = s)
  BY DEF KStore
<1>3. turn'[t].pc \in Answered
  BY <1>2 DEF Answered, Archiving
<1>4. \A u \in Requests \ {t} : turn'[u].pc \in Archiving => {t, u} \in met'
  BY DEF KStore, At, AllMet, Running, Archiving, Kind, Alone
<1>5. /\ s \in Sessions /\ turn[t].count \in Nat
      /\ messages'[s] = messages[s] \cup {Question(t), Reply(t)}
  BY StoreAdds DEF Rest
<1>6. /\ Answers(Reply(t), t) /\ Reply(t).seq = turn[t].count + 2
      /\ Question(t).seq = turn[t].count + 1
  BY DEF Answers, Reply, Question
<1>. HIDE DEF s
<1>7. ASSUME Unmet(t)'
      PROVE  Kept(t)'
  <2>1. Unmet(t)
    BY <1>7, UnmetBefore
  <2>2. CASE turn'[t].pc = "archive"
    <3>1. \A o \in messages[s] : o.seq <= turn[t].count
      BY <2>1 DEF CountedBelow, KStore, Unmet, s
    <3>2. \A o \in messages[s] : o.seq \in Nat
      BY <1>5 DEF Rest, MessageType
    <3>3. \A o \in messages'[s] : o # Reply(t) => o.seq < Reply(t).seq
      BY <1>5, <1>6, <3>1, <3>2
    <3>4. turn'[t].s = s /\ Reply(t) \in messages'[s]
      BY <1>2, <1>5, <2>2
    <3>5. LastInSession(t)'
      BY <1>6, <3>3, <3>4 DEF LastInSession, Answers
    <3>. QED
      BY <2>2, <3>5 DEF Kept
  <2>3. CASE turn'[t].pc \in {"fail", "ok"}
    <3>1. s \in Reachable
      BY <2>1 DEF OpenHeld, KStore, At, Working, s
    <3>2. s \in Reachable'
      BY <3>1 DEF KStore, StoreAnswer, Reachable, Active, history
    <3>3. InReach(t)'
      BY <1>5, <1>6, <3>2 DEF InReach, Answers
    <3>. QED
      BY <2>3, <3>3 DEF Kept
  <2>. QED
    BY <1>2, <2>2, <2>3
<1>. QED
  BY <1>1, <1>3, <1>4, <1>7 DEF LatestKept

\* The last messages of a session include the last one.
LEMMA LastIsCarried ==
    ASSUME Records, Rest, NEW t \in Requests, KCarry(t), LastInSession(t)
    PROVE  \E m \in turn'[t].carry : Answers(m, t)
<1> DEFINE c == turn'[t].carry
           s == turn[t].s
<1>1. s \in Sessions
  BY RecFacts DEF KCarry, At, Rec, Placed
<1>2. c \in LastMessages(s, CarryOver)
  BY DEF KCarry
<1>3. PICK m \in messages[s] : Answers(m, t) /\ \A o \in messages[s] : o # m => o.seq < m.seq
  BY DEF LastInSession
<1>4. \A o \in messages[s] : o.seq \in Nat
  BY <1>1 DEF Rest, MessageType
<1>. HIDE DEF c, s
<1>5. /\ c \subseteq messages[s]
      /\ Cardinality(c) = CarryOver \/ c = messages[s]
      /\ \A p \in c, o \in messages[s] \ c : o.seq <= p.seq
  BY <1>2 DEF LastMessages
<1>6. c # {}
  BY <1>3, <1>5, FS_EmptySet, SizeAssumption
<1>7. m \in c
  <2>. SUFFICES ASSUME m \notin c PROVE FALSE
    OBVIOUS
  <2>1. PICK p : p \in c
    BY <1>6
  <2>2. p \in messages[s] /\ p # m /\ m.seq <= p.seq
    BY <1>5, <2>1
  <2>. QED
    BY <1>3, <1>4, <2>2
<1>. QED
  BY <1>3, <1>7 DEF c

\* The request that stored the latest answer moves on.
LEMMA OwnKept ==
    ASSUME Records, Rest, NEW t \in Requests, Kind(t), ~KStore(t), OpenHeld,
           turn[t].pc \in Answered, Unmet(t)', Kept(t)
    PROVE  Kept(t)'
<1>0. Unmet(t)
  BY UnmetBefore
<1>1. CASE KClose(t)
  <2>1. LastInSession(t) /\ turn'[t].s = turn[t].s /\ messages' = messages
    BY <1>1 DEF KClose, Kept, At, Quiet
  <2>2. LastInSession(t)'
    BY <2>1 DEF LastInSession, Answers
  <2>. QED
    BY <1>1, <2>2 DEF KClose, Kept, At
<1>2. CASE KCarry(t)
  <2>1. LastInSession(t)
    BY <1>2 DEF KCarry, Kept, At
  <2>2. Carried(t)'
    BY <1>2, <2>1, LastIsCarried DEF Carried, Answers
  <2>. QED
    BY <1>2, <2>2 DEF KCarry, Kept, At
<1>3. CASE KOpen(t)
  <2>1. Carried(t) /\ turn'[t].carry = turn[t].carry
    BY <1>3 DEF KOpen, Kept, At
  <2>2. Carried(t)'
    BY <2>1 DEF Carried, Answers
  <2>. QED
    BY <1>3, <2>2 DEF KOpen, Kept, At
<1>4. CASE KCopy(t)
  <2>1. PICK m \in turn[t].carry : Answers(m, t)
    BY <1>4 DEF KCopy, Kept, Carried, At
  <2>2. PICK f \in Renumbered(turn[t].carry) :
           messages' = [messages EXCEPT ![turn[t].new] = @ \cup Copies(t, f)]
    BY <1>4, CopyAdds
  <2> DEFINE q == [m EXCEPT !.seq = f[m], !.by = t]
  <2>3. Answers(q, t)
    BY <1>4, <2>1, <2>2, CopyAdds, CopyReads DEF Answers
  <2>4. q \in Copies(t, f)
    BY <2>1 DEF Copies, CopiesOf
  <2>. HIDE DEF q
  <2>5. q \in messages'[turn[t].new]
    BY <1>4, <2>2, <2>4, CopyAdds DEF Rest
  <2>6. turn[t].new \in Reachable'
    BY <1>0, <1>4 DEF OpenHeld, KCopy, At, Still, Reachable, Active
  <2>7. InReach(t)'
    BY <2>3, <2>5, <2>6 DEF InReach, Answers
  <2>. QED
    BY <1>4, <2>7 DEF KCopy, Kept, At
<1>5. CASE KRecall(t) \/ KGiveUp(t)
  <2>1. turn[t].pc \in {"recall", "fail"}
    BY <1>5 DEF KRecall, KGiveUp, At, Unmet
  <2>2. InReach(t)
    BY <2>1 DEF Kept
  <2>3. InReach(t)'
    BY <1>5, <2>2 DEF KRecall, KGiveUp, InReach, Answers, Still, Quiet, Reachable, Active
  <2>4. turn'[t].pc \in Done
    BY <1>5 DEF KRecall, KGiveUp, At
  <2>. QED
    BY <2>3, <2>4 DEF Kept
<1>. QED
  BY <1>1, <1>2, <1>3, <1>4, <1>5
     DEF Kind, KArrive, KSearch, KCount, At, Answered, Archiving, Searching

\* Another request moves on.
LEMMA OthersKeep ==
    ASSUME Records, Rest, NEW t \in Requests, Kind(t), NEW u \in Requests \ {t},
           AllMet, turn[t].pc \in Archiving => {u, t} \in met,
           turn[u].pc \in Answered, Unmet(u)', Kept(u)
    PROVE  Kept(u)'
<1>0. Unmet(u) /\ turn'[u] = turn[u]
  BY UnmetBefore DEF Kind, Alone
<1>1. CASE turn[u].pc \in {"archive", "carry"}
  <2>1. turn[t].pc \notin {"insert", "copy"}
    BY <1>0, <1>1 DEF AllMet, Running, Unmet
  <2>2. turn[u].s \in Sessions
    BY <1>1, RecFacts DEF Rec, Placed
  <2>3. messages'[turn[u].s] = messages[turn[u].s]
    <3>1. /\ messages[turn[u].s] \subseteq messages'[turn[u].s]
          /\ \A m \in messages'[turn[u].s] \ messages[turn[u].s] : FALSE
      BY <2>1, <2>2, MessagesGrow
    <3>. QED
      BY <3>1
  <2>4. LastInSession(u)'
    BY <1>0, <1>1, <2>3 DEF Kept, LastInSession, Answers
  <2>. QED
    BY <1>0, <1>1, <2>4 DEF Kept
<1>2. CASE turn[u].pc \in {"open", "copy"}
  BY <1>0, <1>2 DEF Kept, Carried, Answers
<1>3. CASE turn[u].pc \in {"recall", "fail"} \cup Done
  <2>1. PICK s \in Reachable : \E m \in messages[s] : Answers(m, u)
    BY <1>3 DEF Kept, InReach
  <2>2. ~KClose(t)
    BY <1>0 DEF KClose, At, Unmet, Archiving
  <2>3. s \in Sessions /\ s \in Reachable'
    BY <2>1, <2>2, OpenStays DEF Reachable, Active, Rest
  <2>4. InReach(u)'
    BY <2>1, <2>3, MessagesGrow DEF InReach, Answers
  <2>. QED
    BY <1>0, <1>3, <2>4 DEF Kept
<1>. QED
  BY <1>1, <1>2, <1>3 DEF Answered, Archiving

LEMMA LatestKeptStep ==
    ASSUME Records, Rest, NEW t \in Requests, Kind(t), AllMet, CountedBelow, Reached
    PROVE  LatestKept'
<1>1. CASE KStore(t)
  BY <1>1, StoreKeeps DEF Reached
<1>2. CASE ~KStore(t)
  <2>1. latest' = latest /\ \A u \in Requests : turn'[u].pc \in Archiving => turn[u].pc \in Archiving
    BY <1>2 DEF Kind, Alone, KArrive, KSearch, KCount, KClose, KCarry, KOpen, KCopy, KRecall,
                KGiveUp, At, Archiving, Searching, Quiet
  <2>. SUFFICES ASSUME NEW l \in Requests, latest = l
                PROVE  LatestKept'
    BY <2>1 DEF LatestKept, Rest
  <2>2. /\ turn[l].pc \in Answered
        /\ \A u \in Requests \ {l} : turn[u].pc \in Archiving => {l, u} \in met
        /\ Unmet(l) => Kept(l)
    BY RequestAssumption DEF Reached, LatestKept
  <2>3. turn'[l].pc \in Answered
    <3>1. CASE l = t
      BY <1>2, <2>2, <3>1 DEF Kind, KArrive, KSearch, KCount, KClose, KCarry, KOpen, KCopy, KRecall,
                              KGiveUp, At, Answered, Archiving, Searching
    <3>2. CASE l # t
      BY <2>2, <3>2 DEF Kind, Alone
    <3>. QED
      BY <3>1, <3>2
  <2>4. \A u \in Requests \ {l} : turn'[u].pc \in Archiving => {l, u} \in met'
    BY <2>1, <2>2 DEF Kind, Alone
  <2>5. ASSUME Unmet(l)'
        PROVE  Kept(l)'
    <3>1. Kept(l)
      BY <2>2, <2>5, UnmetBefore
    <3>2. CASE l = t
      BY <1>2, <2>2, <2>5, <3>1, <3>2, OwnKept DEF Reached
    <3>3. CASE l # t
      <4>1. turn[t].pc \in Archiving => {l, t} \in met
        BY <2>2, <3>3
      <4>. QED
        BY <2>2, <2>5, <3>1, <3>3, <4>1, OthersKeep
    <3>. QED
      BY <3>2, <3>3
  <2>6. latest' = l
    BY <2>1
  <2>. QED
    BY <2>3, <2>4, <2>5, <2>6 DEF LatestKept
<1>. QED
  BY <1>1, <1>2

\* What a crash interrupts is excused, and nothing else changes.
LEMMA CrashReached ==
    ASSUME Records, Rest, Crash, Reached
    PROVE  Reached'
<1>1. \A t \in Requests : turn'[t] = turn[t] \/ (t \in excused' /\ turn'[t].pc = "died")
  BY DEF Crash, Ended, Idle
<1>2. \A t \in Requests : Running(t) => t \in excused'
  BY DEF Crash
<1>3. \A t \in Requests : turn'[t].pc \in Done \cup {"idle"}
  BY DEF Crash, Running, Ended, Idle
<1>4. met' = met /\ latest' = latest /\ excused \subseteq excused' /\ messages' = messages
      /\ Reachable' = Reachable
  BY DEF Crash, Reachable, Active
<1>5. OpenHeld'
  BY <1>3 DEF OpenHeld, Working
<1>6. LatestKept'
  <2>. SUFFICES ASSUME NEW l \in Requests, latest = l
                PROVE  LatestKept'
    BY <1>4 DEF LatestKept, Rest
  <2>1. turn[l].pc \in Answered /\ (Unmet(l) => Kept(l))
    BY RequestAssumption DEF Reached, LatestKept
  <2>2. turn'[l].pc \in Done
    BY <1>3, <2>1, <1>1 DEF Answered, Archiving
  <2>3. \A u \in Requests : turn'[u].pc \notin Archiving
    BY <1>3 DEF Archiving
  <2>4. ASSUME Unmet(l)'
        PROVE  Kept(l)'
    <3>1. Unmet(l) /\ turn'[l] = turn[l]
      BY <1>1, <1>4, <2>4 DEF Unmet
    <3>2. InReach(l)
      BY <2>1, <2>2, <3>1 DEF Kept
    <3>3. InReach(l)'
      BY <1>4, <3>2 DEF InReach, Answers
    <3>. QED
      BY <2>2, <3>3 DEF Kept
  <2>5. latest' = l
    BY <1>4
  <2>. QED
    BY <2>2, <2>3, <2>4, <2>5 DEF LatestKept, Answered
<1>. QED
  BY <1>5, <1>6 DEF Reached

LEMMA ReachedStep ==
    ASSUME Records, Rest, Ordered, Reached, [Next]_vars
    PROVE  Reached'
<1>1. CASE NewDay \/ UNCHANGED vars
  BY <1>1 DEF NewDay, history, vars, Reached, OpenHeld, LatestKept, Unmet, Reachable, Active,
              Kept, LastInSession, Carried, InReach, Answers
<1>2. ASSUME NEW t \in Requests, Kind(t)
      PROVE  Reached'
  BY <1>2, OpenHeldStep, LatestKeptStep DEF Reached, Ordered
<1>. QED
  BY <1>1, <1>2, NextKinds, CrashReached

LEMMA ReachedInit ==
    ASSUME Init
    PROVE  Reached
<1>1. \A t \in Requests : turn[t].pc = "idle"
  BY DEF Init, Idle
<1>. QED
  BY <1>1 DEF Init, Reached, OpenHeld, LatestKept, Working

\* With no request running the latest answer is in a session the user can
\* continue or has cleared, unless its request overlapped another one or a
\* failure of it was swallowed.
THEOREM ChatReach == Spec => []AnswersStayInReach
<1>1. Records /\ Rest /\ Reached => AnswersStayInReach
  <2>. SUFFICES ASSUME Rest, Reached, NEW l \in Requests, latest = l, ~Running(l), Unmet(l)
                PROVE  (\E s \in Active : Stored(l, s)) \/ (\E s \in cleared : Stored(l, s))
    BY DEF AnswersStayInReach, Rest, Unmet
  <2>1. turn[l].pc \in Done /\ Kept(l)
    BY RequestAssumption DEF Reached, LatestKept, Running, Answered, Archiving
  <2>2. InReach(l)
    BY <2>1 DEF Kept
  <2>. QED
    BY <2>2 DEF InReach, Reachable, Answers, Stored
<1>2. Spec => [](Ordered /\ Reached)
  <2>1. Init => Ordered /\ Reached
    BY OrderedInit, ReachedInit
  <2>2. Records /\ Rest /\ (Records /\ Rest)' /\ Ordered /\ Reached /\ [Next]_vars
        => (Ordered /\ Reached)'
    BY OrderedStep, ReachedStep
  <2>. QED
    BY <2>1, <2>2, RecordsAndRest, PTL DEF Spec
<1>. QED
  BY <1>1, <1>2, RecordsAndRest, PTL


-----------------------------------------------------------------------------
(* What the actions can make of the account, the CV and the slots          *)

Pictures == Avatars \cup {Absent}

UserType ==
    [name : Names, avatar : Pictures, role : Roles, deleted : BOOLEAN, saved : SUBSET Jobs,
     company : Companies \cup {Absent}]

CvType == [name : Names, avatar : Pictures, active : BOOLEAN]

UserWriterType ==
    [pc : {"write-user", "sync-cv"}, alone : BOOLEAN, name : Names, avatar : Pictures,
     role : Roles \cup {Absent}, company : Companies \cup {Absent}]

CvWriterType ==
    [pc : {"read-cv", "store-cv", "sync-user", "clear-context"}, alone : BOOLEAN,
     name : Names, avatar : Pictures, account : Pictures, exists : BOOLEAN, stored : Nat]

ReplyType == [pc : {"save", "confirm", "cancel"}, to : Offers]

SlotType == {Vacant} \cup UserWriterType \cup CvWriterType \cup ReplyType

\* Only an HR user has a company, and an administrator's change keeps it so.
Employed(u) == u.role \in Roles /\ (u.role = "HR" <=> u.company \in Companies)

Person ==
    /\ user \in UserType /\ Employed(user)
    /\ cv \in CvType \cup {Absent}
    /\ edition \in Nat /\ announced \in Nat /\ announced <= edition
    /\ parted \in BOOLEAN

Served ==
    /\ handler \in [Slots -> SlotType]
    /\ \A s \in Slots : SlotAt(s, "write-user") => Employed(handler[s])
    /\ \A s \in Slots : handler[s] \in CvWriterType => handler[s].stored \in 0..edition

LEMMA SlotFields ==
    ASSUME NEW h \in SlotType
    PROVE  /\ h.pc = "idle" => h = Vacant
           /\ h.pc \in {"write-user", "sync-cv"} => h \in UserWriterType
           /\ h.pc \in {"read-cv", "store-cv", "sync-user", "clear-context"} =>
                 h \in CvWriterType
           /\ h.pc \in {"save", "confirm", "cancel"} => h \in ReplyType
           /\ h.pc \in {"idle", "write-user", "sync-cv", "read-cv", "store-cv", "sync-user",
                        "clear-context", "save", "confirm", "cancel"}
<1>1. h = Vacant => h.pc = "idle"
  BY DEF Vacant
<1>2. h \in UserWriterType => h.pc \in {"write-user", "sync-cv"}
  BY DEF UserWriterType
<1>3. h \in CvWriterType =>
         h.pc \in {"read-cv", "store-cv", "sync-user", "clear-context"}
  BY DEF CvWriterType
<1>4. h \in ReplyType => h.pc \in {"save", "confirm", "cancel"}
  BY DEF ReplyType
<1>5. h = Vacant \/ h \in UserWriterType \/ h \in CvWriterType \/ h \in ReplyType
  BY DEF SlotType
<1>. QED
  BY <1>1, <1>2, <1>3, <1>4, <1>5

LEMMA WriterFields ==
    ASSUME Served, NEW s \in Slots
    PROVE  /\ s \in Writers <=> handler[s] \in UserWriterType \cup CvWriterType
           /\ handler[s] \in UserWriterType => handler[s].pc \in {"write-user", "sync-cv"}
           /\ handler[s] \in CvWriterType =>
                 handler[s].pc \in {"read-cv", "store-cv", "sync-user", "clear-context"}
<1>1. handler[s] \in SlotType
  BY DEF Served
<1>2. handler[s] \in UserWriterType => handler[s].pc \in {"write-user", "sync-cv"}
  BY DEF UserWriterType
<1>3. handler[s] \in CvWriterType =>
         handler[s].pc \in {"read-cv", "store-cv", "sync-user", "clear-context"}
  BY DEF CvWriterType
<1>. QED
  BY <1>1, <1>2, <1>3, SlotFields DEF Writers

-----------------------------------------------------------------------------
(* The shapes of a step at the slots                                       *)

\* A slot's request goes on, or ends.
LEMMA Passed ==
    ASSUME handler \in [Slots -> SlotType], NEW s \in Slots, NEW r, Serves(s, r)
    PROVE  /\ handler'[s] = r
           /\ \A x \in Slots \ {s} : handler'[x] = handler[x]
           /\ r \in SlotType => handler' \in [Slots -> SlotType]
BY DEF Serves

LEMMA ServedPass ==
    ASSUME Served, NEW s \in Slots, NEW r \in SlotType, Serves(s, r),
           r.pc = "write-user" => Employed(r),
           r \in CvWriterType => r.stored \in 0..edition',
           Person, Person', edition <= edition'
    PROVE  Served'
<1>1. /\ handler'[s] = r /\ \A x \in Slots \ {s} : handler'[x] = handler[x]
      /\ handler' \in [Slots -> SlotType]
  BY Passed DEF Served
<1>2. ASSUME NEW x \in Slots, SlotAt(x, "write-user")'
      PROVE  Employed(handler[x])'
  BY <1>1, <1>2 DEF Served, SlotAt, Employed
<1>3. ASSUME NEW x \in Slots, handler'[x] \in CvWriterType
      PROVE  handler'[x].stored \in 0..edition'
  <2>1. CASE x = s
    BY <1>1, <1>3, <2>1
  <2>2. CASE x # s
    <3>1. handler[x] \in CvWriterType /\ handler'[x] = handler[x]
      BY <1>1, <1>3, <2>2
    <3>2. handler[x].stored \in 0..edition
      BY <3>1 DEF Served
    <3>3. edition \in Nat /\ edition' \in Nat
      BY DEF Person
    <3>4. handler[x].stored \in 0..edition'
      BY <3>2, <3>3
    <3>. QED
      BY <3>1, <3>4
  <2>. QED
    BY <2>1, <2>2
<1>. QED
  BY <1>1, <1>2, <1>3 DEF Served

\* A handler begins to write: those at work no longer are alone.
LEMMA Begun ==
    ASSUME Served, NEW s \in Slots, NEW r, BeginsWriting(s, r), SlotAt(s, "idle"),
           r \in UserWriterType \cup CvWriterType
    PROVE  /\ handler'[s] = [r EXCEPT !.alone = (Writers = {})]
           /\ \A x \in Writers : handler'[x] = [handler[x] EXCEPT !.alone = FALSE]
           /\ \A x \in Slots \ {s} : x \notin Writers => handler'[x] = handler[x]
           /\ handler' \in [Slots -> SlotType]
           /\ Writers' = Writers \cup {s} /\ s \notin Writers
<1>1. s \notin Writers /\ Writers \subseteq Slots
  BY DEF SlotAt, Writers
<1>2. /\ handler'[s] = [r EXCEPT !.alone = (Writers = {})]
      /\ \A x \in Writers : handler'[x] = [handler[x] EXCEPT !.alone = FALSE]
      /\ \A x \in Slots \ {s} : x \notin Writers => handler'[x] = handler[x]
      /\ DOMAIN handler' = Slots /\ handler' = [x \in Slots |-> handler'[x]]
  BY <1>1 DEF BeginsWriting
<1>3. ASSUME NEW h \in UserWriterType \cup CvWriterType, NEW b \in BOOLEAN
      PROVE  /\ [h EXCEPT !.alone = b] \in SlotType
             /\ [h EXCEPT !.alone = b] \in UserWriterType \cup CvWriterType
  BY <1>3 DEF UserWriterType, CvWriterType, SlotType
<1>4. handler'[s] \in SlotType /\ handler'[s] \in UserWriterType \cup CvWriterType
  BY <1>2, <1>3
<1>5. \A x \in Writers : handler'[x] \in SlotType
                         /\ handler'[x] \in UserWriterType \cup CvWriterType
  <2>. SUFFICES ASSUME NEW x \in Writers
                PROVE  /\ handler'[x] \in SlotType
                       /\ handler'[x] \in UserWriterType \cup CvWriterType
    OBVIOUS
  <2>1. handler[x] \in UserWriterType \cup CvWriterType
    BY <1>1, WriterFields
  <2>2. handler'[x] = [handler[x] EXCEPT !.alone = FALSE]
    BY <1>2
  <2>. QED
    BY <1>3, <2>1, <2>2
<1>6. \A x \in Slots : handler'[x] \in SlotType
  BY <1>2, <1>4, <1>5 DEF Served
<1>7. ASSUME NEW h \in UserWriterType \cup CvWriterType
      PROVE  h.pc \in {"write-user", "sync-cv", "read-cv", "store-cv", "sync-user",
                       "clear-context"}
  BY <1>7 DEF UserWriterType, CvWriterType
<1>8. Writers' = Writers \cup {s}
  BY <1>1, <1>2, <1>4, <1>5, <1>7 DEF Writers
<1>. QED
  BY <1>1, <1>2, <1>6, <1>8

\* The slots while nothing but the account, the CV or what is saved changes.
LEMMA ServedStays ==
    ASSUME Served, handler' = handler, edition \in Nat, edition' \in Nat,
           edition' >= edition
    PROVE  Served'
<1>1. ASSUME NEW s \in Slots, handler[s] \in CvWriterType
      PROVE  handler[s].stored \in 0..edition'
  <2>1. handler[s].stored \in 0..edition
    BY <1>1 DEF Served
  <2>. QED
    BY <2>1
<1>2. \A s \in Slots : SlotAt(s, "write-user")' => Employed(handler[s])'
  BY DEF Served, SlotAt, Employed
<1>. QED
  BY <1>1, <1>2 DEF Served

\* A request that begins to write.
LEMMA ServedBegins ==
    ASSUME Served, NEW s \in Slots, NEW r \in UserWriterType \cup CvWriterType,
           BeginsWriting(s, r), SlotAt(s, "idle"), edition' = edition, edition \in Nat,
           r.pc = "write-user" => Employed(r), r \in CvWriterType => r.stored = 0
    PROVE  Served'
<1>1. /\ handler'[s] = [r EXCEPT !.alone = (Writers = {})]
      /\ \A x \in Writers : handler'[x] = [handler[x] EXCEPT !.alone = FALSE]
      /\ \A x \in Slots \ {s} : x \notin Writers => handler'[x] = handler[x]
      /\ handler' \in [Slots -> SlotType]
      /\ s \notin Writers
  BY Begun
<1>2. ASSUME NEW h \in UserWriterType \cup CvWriterType, NEW b \in BOOLEAN,
             h.pc = "write-user" => Employed(h),
             h \in CvWriterType => h.stored \in 0..edition
      PROVE  LET g == [h EXCEPT !.alone = b] IN
             /\ g.pc = "write-user" => Employed(g)
             /\ g \in CvWriterType => g.stored \in 0..edition
  <2>1. CASE h \in UserWriterType
    <3>. DEFINE g == [h EXCEPT !.alone = b]
    <3>1. g.pc = h.pc /\ g.role = h.role /\ g.company = h.company /\ g \in UserWriterType
      BY <2>1 DEF UserWriterType
    <3>2. g \notin CvWriterType
      BY <3>1 DEF UserWriterType, CvWriterType
    <3>. HIDE DEF g
    <3>3. g.pc = "write-user" => Employed(g)
      BY <1>2, <3>1 DEF Employed
    <3>. QED
      BY <3>2, <3>3 DEF g
  <2>2. CASE h \in CvWriterType
    BY <1>2, <2>2 DEF CvWriterType
  <2>. QED
    BY <1>2, <2>1, <2>2
<1>3. ASSUME NEW x \in Slots
      PROVE  /\ SlotAt(x, "write-user")' => Employed(handler[x])'
             /\ handler'[x] \in CvWriterType => handler'[x].stored \in 0..edition'
  <2>1. CASE x = s
    <3>. DEFINE b == (Writers = {})
    <3>1. b \in BOOLEAN
      OBVIOUS
    <3>2. handler'[s] = [r EXCEPT !.alone = b]
      BY <1>1
    <3>. HIDE DEF b
    <3>3. r \in CvWriterType => r.stored \in 0..edition
      OBVIOUS
    <3>. QED
      BY <1>2, <2>1, <3>1, <3>2, <3>3 DEF SlotAt, Employed
  <2>2. CASE x \in Writers
    <3>1. handler[x] \in UserWriterType \cup CvWriterType
      BY <2>2, WriterFields
    <3>2. /\ handler[x].pc = "write-user" => Employed(handler[x])
          /\ handler[x] \in CvWriterType => handler[x].stored \in 0..edition
      BY DEF Served, SlotAt
    <3>3. handler'[x] = [handler[x] EXCEPT !.alone = FALSE]
      BY <1>1, <2>2
    <3>. QED
      BY <1>2, <3>1, <3>2, <3>3 DEF SlotAt, Employed
  <2>3. CASE x # s /\ x \notin Writers
    <3>1. handler'[x] = handler[x]
      BY <1>1, <2>3
    <3>. QED
      BY <3>1 DEF Served, SlotAt, Employed
  <2>. QED
    BY <2>1, <2>2, <2>3
<1>. QED
  BY <1>1, <1>3 DEF Served

\* What a request that begins to write holds.
LEMMA Beginning ==
    ASSUME Person, NEW s \in Slots, UpdateUser(s) \/ UpsertCv(s)
    PROVE  /\ \E r \in UserWriterType \cup CvWriterType :
                 /\ BeginsWriting(s, r) /\ r.pc \in {"write-user", "read-cv"}
                 /\ r.pc = "write-user" => Employed(r)
                 /\ r.pc = "read-cv" => r.account = user.avatar
                 /\ r \in CvWriterType => r.stored = 0
           /\ SlotAt(s, "idle") /\ UNCHANGED <<user, cv, edition, announced, parted>>
<1>1. CASE UpdateUser(s)
  <2>1. PICK name \in Names, avatar \in Pictures, role \in Roles,
             company \in Companies \cup {Absent} :
           LET resolved ==
                   ResolveCompanyAssignmentForRole(role, Or(company, user.company))
           IN
           /\ role = "HR" => resolved # Absent
           /\ BeginsWriting(s, [pc |-> "write-user", alone |-> FALSE, name |-> name,
                                avatar |-> avatar, role |-> role, company |-> resolved])
    BY <1>1 DEF UpdateUser, Pictures
  <2>. DEFINE resolved == ResolveCompanyAssignmentForRole(role, Or(company, user.company))
              r == [pc |-> "write-user", alone |-> FALSE, name |-> name,
                    avatar |-> avatar, role |-> role, company |-> resolved]
  <2>2. /\ resolved \in Companies \cup {Absent}
        /\ role = "HR" <=> resolved \in Companies
    BY <2>1, CompaniesAreNamed
    DEF ResolveCompanyAssignmentForRole, Or, Person, UserType, Roles
  <2>3. BeginsWriting(s, r)
    BY <2>1
  <2>. HIDE DEF resolved
  <2>4. r \in UserWriterType /\ r \notin CvWriterType
    BY <2>2 DEF UserWriterType, CvWriterType
  <2>5. r.pc = "write-user" /\ Employed(r)
    BY <2>2 DEF Employed
  <2>. HIDE DEF r
  <2>. QED
    BY <1>1, <2>3, <2>4, <2>5 DEF UpdateUser, profiles
<1>2. CASE UpsertCv(s)
  <2>1. PICK name \in Names, avatar \in Pictures :
           BeginsWriting(s, [pc |-> "read-cv", alone |-> FALSE, name |-> name,
               avatar |-> avatar, account |-> user.avatar, exists |-> FALSE, stored |-> 0])
    BY <1>2 DEF UpsertCv, Pictures
  <2>. DEFINE r == [pc |-> "read-cv", alone |-> FALSE, name |-> name, avatar |-> avatar,
                    account |-> user.avatar, exists |-> FALSE, stored |-> 0]
  <2>2. BeginsWriting(s, r)
    BY <2>1
  <2>3. /\ r \in CvWriterType /\ r.pc = "read-cv" /\ r.account = user.avatar
        /\ r.stored = 0
    BY DEF CvWriterType, Person, UserType
  <2>. HIDE DEF r
  <2>. QED
    BY <1>2, <2>2, <2>3 DEF UpsertCv, profiles
<1>. QED
  BY <1>1, <1>2

LEMMA PersonBegin ==
    ASSUME Person, Served, NEW s \in Slots, UpdateUser(s) \/ UpsertCv(s)
    PROVE  Person' /\ Served'
<1>1. SlotAt(s, "idle") /\ UNCHANGED <<user, cv, edition, announced, parted>>
  BY Beginning
<1>2. PICK r \in UserWriterType \cup CvWriterType :
         /\ BeginsWriting(s, r)
         /\ r.pc = "write-user" => Employed(r)
         /\ r \in CvWriterType => r.stored = 0
  BY Beginning
<1>3. Served'
  BY <1>1, <1>2, ServedBegins DEF Person
<1>. QED
  BY <1>1, <1>3 DEF Person, Employed

LEMMA OrTyped ==
    ASSUME NEW a \in Pictures, NEW b \in Pictures
    PROVE  Or(a, b) \in Pictures
BY DEF Or

LEMMA VacantSlot ==
    /\ Vacant \in SlotType /\ Vacant.pc = "idle"
    /\ Vacant \notin UserWriterType \cup CvWriterType
BY DEF Vacant, SlotType, UserWriterType, CvWriterType

LEMMA PersonWrite ==
    ASSUME Person, Served, NEW s \in Slots, WriteUser(s)
    PROVE  Person' /\ Served'
<1>. DEFINE h == handler[s]
            r == [h EXCEPT !.pc = "sync-cv", !.role = Absent, !.company = Absent]
<1>1. /\ h \in UserWriterType /\ Employed(h)
  BY SlotFields DEF WriteUser, SlotAt, Served
<1>2. /\ user' = [user EXCEPT !.name = h.name, !.avatar = Or(h.avatar, @),
                              !.role = h.role, !.company = h.company]
      /\ Serves(s, r) /\ UNCHANGED <<cv, edition, parted, announced>>
  BY DEF WriteUser
<1>3. r \in UserWriterType /\ r.pc = "sync-cv" /\ r \notin CvWriterType /\ r \in SlotType
  BY <1>1 DEF UserWriterType, CvWriterType, SlotType
<1>4. user' \in UserType /\ Employed(user)'
  <2>1. Or(h.avatar, user.avatar) \in Pictures
    BY <1>1, OrTyped DEF Person, UserType, UserWriterType
  <2>. DEFINE picture == Or(h.avatar, user.avatar)
  <2>2. user' = [user EXCEPT !.name = h.name, !.avatar = picture,
                             !.role = h.role, !.company = h.company]
    BY <1>2
  <2>3. picture \in Pictures
    BY <2>1
  <2>. HIDE DEF picture, h
  <2>4. /\ user' \in UserType
        /\ user'.role = h.role /\ user'.company = h.company
    BY <1>1, <2>2, <2>3 DEF Person, UserType, UserWriterType, Employed
  <2>. QED
    BY <1>1, <2>4 DEF Employed
<1>5. Person'
  BY <1>2, <1>4 DEF Person
<1>. HIDE DEF r
<1>6. edition \in Nat /\ edition' = edition
  BY <1>2 DEF Person
<1>. QED
  BY <1>2, <1>3, <1>5, <1>6, ServedPass

LEMMA PersonSyncCv ==
    ASSUME Person, Served, NEW s \in Slots, SyncCvIdentityFromUser(s)
    PROVE  Person' /\ Served'
<1>. DEFINE h == handler[s]
            picture == Or(h.avatar, cv.avatar)
<1>1. h \in UserWriterType
  BY SlotFields DEF SyncCvIdentityFromUser, SlotAt, Served
<1>2. /\ cv' = IF cv = Absent THEN Absent
               ELSE [cv EXCEPT !.name = h.name, !.avatar = picture]
      /\ Serves(s, Vacant) /\ UNCHANGED <<user, edition, announced>>
      /\ parted' = IF ~h.alone THEN TRUE ELSE parted /\ ~(h.avatar # Absent)
  BY DEF SyncCvIdentityFromUser, Parts
<1>3. cv' \in CvType \cup {Absent}
  <2>1. CASE cv = Absent
    BY <1>2, <2>1
  <2>2. CASE cv \in CvType
    <3>1. picture \in Pictures
      BY <1>1, <2>2, OrTyped DEF CvType, UserWriterType
    <3>. HIDE DEF picture
    <3>. QED
      BY <1>1, <1>2, <2>2, <3>1 DEF CvType, UserWriterType
  <2>. QED
    BY <2>1, <2>2 DEF Person
<1>4. parted' \in BOOLEAN
  BY <1>2 DEF Person
<1>5. Person'
  BY <1>2, <1>3, <1>4 DEF Person, Employed
<1>6. edition \in Nat /\ edition' = edition
  BY <1>2 DEF Person
<1>. QED
  BY <1>2, <1>5, <1>6, VacantSlot, ServedPass

\* What follows a step of an upsert.
LEMMA Proceeded ==
    ASSUME NEW s \in Slots, NEW r \in CvWriterType, Proceeds(s, r),
           announced \in Nat, edition' \in Nat, announced <= edition',
           r.stored <= edition'
    PROVE  /\ announced' \in Nat /\ announced' <= edition' /\ announced' >= announced
           /\ r.pc # "clear-context" =>
                 /\ Serves(s, [r EXCEPT !.pc = After(r.pc)])
                 /\ [r EXCEPT !.pc = After(r.pc)] \in CvWriterType
                 /\ announced' = announced
           /\ r.pc = "clear-context" => Serves(s, Vacant)
<1>1. /\ r.pc = "clear-context" <=> After(r.pc) = "idle"
      /\ r.pc # "clear-context" => After(r.pc) \in {"store-cv", "sync-user", "clear-context"}
  BY DEF After, CvWriterType
<1>2. r.stored \in Nat
  BY DEF CvWriterType
<1>3. announced' = IF After(r.pc) = "idle" /\ r.stored > announced THEN r.stored
                   ELSE announced
  BY DEF Proceeds
<1>4. r.pc # "clear-context" => [r EXCEPT !.pc = After(r.pc)] \in CvWriterType
  <2>. DEFINE pc == After(r.pc)
  <2>1. r.pc # "clear-context" => pc \in {"store-cv", "sync-user", "clear-context"}
    BY <1>1
  <2>. HIDE DEF pc
  <2>2. r.pc # "clear-context" => [r EXCEPT !.pc = pc] \in CvWriterType
    BY <2>1 DEF CvWriterType
  <2>. QED
    BY <2>2 DEF pc
<1>. QED
  BY <1>1, <1>2, <1>3, <1>4 DEF Proceeds

LEMMA PersonProceeds ==
    ASSUME Person, Served, NEW s \in Slots, NEW r \in CvWriterType, Proceeds(s, r),
           user' \in UserType, Employed(user)', cv' \in CvType \cup {Absent},
           edition' \in Nat, edition' >= edition, r.stored <= edition', parted' \in BOOLEAN
    PROVE  Person' /\ Served'
<1>1. announced \in Nat /\ edition \in Nat /\ announced <= edition'
  BY DEF Person
<1>2. announced' \in Nat /\ announced' <= edition'
  BY <1>1, Proceeded
<1>3. Person'
  BY <1>2 DEF Person
<1>4. CASE r.pc = "clear-context"
  <2>1. Serves(s, Vacant)
    BY <1>1, <1>4, Proceeded
  <2>. QED
    BY <1>1, <1>3, <2>1, VacantSlot, ServedPass
<1>5. CASE r.pc # "clear-context"
  <2>. DEFINE g == [r EXCEPT !.pc = After(r.pc)]
  <2>1. Serves(s, g) /\ g \in CvWriterType
    BY <1>1, <1>5, Proceeded
  <2>2. g.stored = r.stored
    BY DEF CvWriterType
  <2>. HIDE DEF g
  <2>3. g \in SlotType /\ g.pc # "write-user" /\ g.stored \in 0..edition'
    BY <2>1, <2>2 DEF CvWriterType, SlotType
  <2>. QED
    BY <1>1, <1>3, <2>1, <2>3, ServedPass
<1>. QED
  BY <1>4, <1>5

LEMMA PersonBuild ==
    ASSUME Person, Served, NEW s \in Slots, BuildCanonicalCv(s)
    PROVE  Person' /\ Served'
<1>. DEFINE h == handler[s]
            existing == IF cv = Absent THEN Absent ELSE cv.avatar
            picture == CanonicalAvatar(h.avatar, existing, h.account)
            r == [h EXCEPT !.exists = (cv # Absent), !.account = Absent, !.avatar = picture]
<1>1. h \in CvWriterType /\ h.stored <= edition
  BY SlotFields DEF BuildCanonicalCv, SlotAt, Served
<1>2. Proceeds(s, r) /\ UNCHANGED <<user, cv, edition, parted>>
  BY DEF BuildCanonicalCv, profiles
<1>3. picture \in Pictures
  <2>1. existing \in Pictures /\ h.avatar \in Pictures /\ h.account \in Pictures
    BY <1>1 DEF Person, CvType, CvWriterType, Pictures
  <2>. QED
    BY <2>1, OrTyped DEF CanonicalAvatar
<1>4. r \in CvWriterType /\ r.stored = h.stored
  <2>. DEFINE exists == (cv # Absent)
  <2>1. exists \in BOOLEAN
    OBVIOUS
  <2>2. r = [h EXCEPT !.exists = exists, !.account = Absent, !.avatar = picture]
    OBVIOUS
  <2>. HIDE DEF exists, picture
  <2>. QED
    BY <1>1, <1>3, <2>1, <2>2 DEF CvWriterType, Pictures
<1>. HIDE DEF r
<1>. QED
  BY <1>1, <1>2, <1>4, PersonProceeds DEF Person, Employed

LEMMA PersonStores ==
    ASSUME Person, Served, NEW s \in Slots, NEW c \in CvType, StoresCv(s, c),
           SlotAt(s, "store-cv")
    PROVE  Person' /\ Served'
<1>. DEFINE r == [handler[s] EXCEPT !.stored = edition + 1]
<1>1. handler[s] \in CvWriterType
  BY SlotFields DEF SlotAt, Served
<1>2. /\ Proceeds(s, r) /\ UNCHANGED <<user, parted>>
      /\ cv' = c /\ edition' = edition + 1
  BY DEF StoresCv
<1>3. r \in CvWriterType /\ r.stored = edition + 1
  BY <1>1 DEF CvWriterType, Person
<1>. HIDE DEF r
<1>. QED
  BY <1>2, <1>3, PersonProceeds DEF Person, Employed

LEMMA PersonStore ==
    ASSUME Person, Served, NEW s \in Slots, CreateCv(s) \/ UpdateCv(s)
    PROVE  Person' /\ Served'
<1>1. handler[s] \in CvWriterType /\ SlotAt(s, "store-cv")
  BY SlotFields DEF SlotAt, Served, CreateCv, UpdateCv
<1>2. CASE CreateCv(s)
  <2>1. NewCv(handler[s].name, handler[s].avatar) \in CvType
    BY <1>1 DEF NewCv, CvType, CvWriterType
  <2>. QED
    BY <1>1, <1>2, <2>1, PersonStores DEF CreateCv
<1>3. CASE UpdateCv(s)
  <2>1. cv \in CvType
    BY <1>3 DEF UpdateCv, Person
  <2>2. [cv EXCEPT !.name = handler[s].name, !.avatar = handler[s].avatar] \in CvType
    BY <1>1, <2>1 DEF CvType, CvWriterType
  <2>. QED
    BY <1>1, <1>3, <2>2, PersonStores DEF UpdateCv
<1>. QED
  BY <1>2, <1>3

LEMMA PersonSyncUser ==
    ASSUME Person, Served, NEW s \in Slots, SyncUserIdentityFromCv(s)
    PROVE  Person' /\ Served'
<1>. DEFINE h == handler[s]
            picture == Or(h.avatar, user.avatar)
<1>1. h \in CvWriterType /\ h.stored <= edition
  BY SlotFields DEF SyncUserIdentityFromCv, SlotAt, Served
<1>2. /\ Proceeds(s, h) /\ UNCHANGED <<cv, edition>>
      /\ user' = IF user.deleted THEN user
                 ELSE [user EXCEPT !.name = h.name, !.avatar = picture]
      /\ parted' = IF ~h.alone THEN TRUE ELSE parted /\ ~TRUE
  BY DEF SyncUserIdentityFromCv, Parts
<1>3. user' \in UserType /\ Employed(user)'
  <2>1. picture \in Pictures
    BY <1>1, OrTyped DEF Person, UserType, CvWriterType
  <2>. HIDE DEF picture
  <2>. QED
    BY <1>1, <1>2, <2>1 DEF Person, UserType, CvWriterType, Employed
<1>4. parted' \in BOOLEAN
  BY <1>2 DEF Person
<1>5. /\ cv' \in CvType \cup {Absent} /\ edition' \in Nat /\ edition' >= edition
      /\ h.stored <= edition'
  BY <1>1, <1>2 DEF Person
<1>6. Proceeds(s, h)
  BY <1>2
<1>. HIDE DEF h
<1>. QED
  BY <1>1, <1>3, <1>4, <1>5, <1>6, PersonProceeds

LEMMA PersonClear ==
    ASSUME Person, Served, NEW s \in Slots, ClearContext(s)
    PROVE  Person' /\ Served'
<1>1. handler[s] \in CvWriterType /\ handler[s].stored <= edition
  BY SlotFields DEF ClearContext, SlotAt, Served
<1>2. Proceeds(s, handler[s]) /\ UNCHANGED <<user, cv, edition, parted>>
  BY DEF ClearContext, profiles
<1>. QED
  BY <1>1, <1>2, PersonProceeds DEF Person, Employed

\* A request that ends without having written anything of what Person speaks of.
LEMMA PersonEnds ==
    ASSUME Person, Served, NEW s \in Slots, Serves(s, Vacant), parted' \in BOOLEAN,
           UNCHANGED <<user, cv, edition, announced>>
    PROVE  Person' /\ Served'
<1>1. Person' /\ edition \in Nat /\ edition' = edition
  BY DEF Person, Employed
<1>. QED
  BY <1>1, VacantSlot, ServedPass

LEMMA SavedOnly ==
    ASSUME Person, NEW jobs \in SUBSET Jobs, user' = [user EXCEPT !.saved = jobs]
    PROVE  /\ user' \in UserType /\ Employed(user)'
           /\ user'.name = user.name /\ user'.avatar = user.avatar
           /\ user'.deleted = user.deleted
BY DEF Person, UserType, Employed

LEMMA PersonElsewhere ==
    ASSUME Person, Served, RemoveUser \/ UnsaveJob \/ DeleteCv \/ DeactivateCv \/ ActivateCv
    PROVE  Person' /\ Served'
<1>1. handler' = handler /\ UNCHANGED <<announced, parted>>
  BY DEF RemoveUser, UnsaveJob, DeleteCv, DeactivateCv, ActivateCv, SetCvActive, profiles
<1>2. CASE RemoveUser
  <2>1. user' = [user EXCEPT !.deleted = TRUE] /\ UNCHANGED <<cv, edition>>
    BY <1>2 DEF RemoveUser
  <2>2. user' \in UserType /\ Employed(user)'
    BY <2>1 DEF Person, UserType, Employed
  <2>. QED
    BY <1>1, <2>1, <2>2, ServedStays DEF Person
<1>3. CASE UnsaveJob
  <2>1. /\ UNCHANGED <<cv, edition>>
        /\ \E j \in user.saved : user' = [user EXCEPT !.saved = @ \ {j}]
    BY <1>3 DEF UnsaveJob
  <2>2. PICK jobs \in SUBSET Jobs : user' = [user EXCEPT !.saved = jobs]
    BY <2>1 DEF Person, UserType
  <2>3. user' \in UserType /\ Employed(user)'
    BY <2>2, SavedOnly
  <2>. QED
    BY <1>1, <2>1, <2>3, ServedStays DEF Person
<1>4. CASE DeleteCv
  <2>1. cv' = Absent /\ edition' = edition + 1 /\ user' = user
    BY <1>4 DEF DeleteCv
  <2>2. edition \in Nat /\ edition' \in Nat /\ edition' >= edition
    BY <2>1 DEF Person
  <2>3. Served'
    BY <1>1, <2>2, ServedStays
  <2>. QED
    BY <1>1, <2>1, <2>2, <2>3 DEF Person, Employed
<1>5. ASSUME NEW active \in BOOLEAN, SetCvActive(active)
      PROVE  Person' /\ Served'
  <2>1. /\ cv \in CvType /\ cv' = [cv EXCEPT !.active = active]
        /\ UNCHANGED <<user, edition>>
    BY <1>5 DEF SetCvActive, Person
  <2>2. cv' \in CvType
    BY <2>1 DEF CvType
  <2>. QED
    BY <1>1, <2>1, <2>2, ServedStays DEF Person, Employed
<1>. QED
  BY <1>2, <1>3, <1>4, <1>5 DEF DeactivateCv, ActivateCv

-----------------------------------------------------------------------------
(* Offers and the replies to them                                          *)

OfferType ==
    [job : Jobs, status : {"PENDING", "CONFIRMED", "CANCELED", "EXPIRED"}, late : BOOLEAN,
     saved : BOOLEAN, contested : BOOLEAN]

Replying == {"save", "confirm", "cancel"}

\* An offer with one reply at most at a time is saved exactly while it is confirmed, or
\* is about to be; a reply finds it pending.
Honest(i) ==
    offer[i] # Absent /\ ~offer[i].contested =>
        /\ \A s, t \in Replies(i) : s = t
        /\ Replies(i) = {} => (offer[i].saved <=> offer[i].status = "CONFIRMED")
        /\ \A s \in Replies(i) : /\ offer[i].status = "PENDING"
                                 /\ offer[i].saved <=> handler[s].pc = "confirm"

OffersTyped == offer \in [Offers -> OfferType \cup {Absent}]

Offered ==
    /\ OffersTyped
    /\ \A s \in Slots : handler[s].pc \in Replying => offer[handler[s].to] \in OfferType
    /\ \A i \in Offers : Honest(i)

LEMMA ReplyFields ==
    ASSUME Served, NEW s \in Slots, handler[s].pc \in Replying
    PROVE  /\ handler[s] \in ReplyType /\ handler[s].to \in Offers
           /\ ReplyType \subseteq SlotType /\ handler[s] \notin UserWriterType \cup CvWriterType
<1>1. handler[s] \in ReplyType
  BY SlotFields DEF Served, Replying
<1>. QED
  BY <1>1 DEF ReplyType, SlotType, UserWriterType, CvWriterType

\* A reply moves its slot from one step of a reply to the next, or ends.
LEMMA ReplyMoves ==
    ASSUME Served, Offered, NEW s \in Slots, ReplySteps(s)
    PROVE  /\ \E r \in {Vacant} \cup ReplyType : Serves(s, r)
           /\ handler[s].pc \in {"idle"} \cup Replying
           /\ UNCHANGED <<cv, edition, announced, parted>>
           /\ user' = user \/ \E j \in Jobs : SaveJob(j)
<1>1. CASE Confirm(s)
  <2>1. PICK i \in Offers :
           Serves(s, IF offer[i].late THEN Vacant
                     ELSE [pc |-> AfterReply("find"), to |-> i])
    BY <1>1 DEF Confirm
  <2>2. [pc |-> AfterReply("find"), to |-> i] \in ReplyType
    BY DEF AfterReply, ReplyType
  <2>. QED
    BY <1>1, <2>1, <2>2 DEF Confirm, SlotAt, profiles
<1>2. CASE ConfirmSaves(s)
  <2>. DEFINE r == [handler[s] EXCEPT !.pc = "confirm"]
  <2>1. handler[s].pc = "save" /\ handler[s].pc \in Replying
    BY <1>2 DEF ConfirmSaves, SlotAt, Replying
  <2>2. handler[s] \in ReplyType /\ offer[handler[s].to] \in OfferType
    BY <2>1, ReplyFields DEF Offered
  <2>3. r \in ReplyType /\ offer[handler[s].to].job \in Jobs
    BY <2>2 DEF ReplyType, OfferType
  <2>4. AfterReply(handler[s].pc) = "confirm"
    BY <2>1 DEF AfterReply
  <2>5. \/ Serves(s, Vacant) /\ user' = user
        \/ Serves(s, r) /\ SaveJob(offer[handler[s].to].job)
    BY <1>2, <2>4 DEF ConfirmSaves, Replied
  <2>. QED
    BY <1>2, <2>1, <2>3, <2>5 DEF ConfirmSaves
<1>3. CASE ConfirmMarks(s)
  <2>1. handler[s].pc = "confirm" /\ AfterReply(handler[s].pc) = "idle"
    BY <1>3 DEF ConfirmMarks, SlotAt, AfterReply
  <2>. QED
    BY <1>3, <2>1 DEF ConfirmMarks, Replied, Replying, profiles
<1>4. CASE Cancel(s)
  <2>1. PICK i \in Offers : Serves(s, [pc |-> "cancel", to |-> i])
    BY <1>4 DEF Cancel
  <2>2. [pc |-> "cancel", to |-> i] \in ReplyType
    BY DEF ReplyType
  <2>. QED
    BY <1>4, <2>1, <2>2 DEF Cancel, SlotAt, profiles
<1>5. CASE CancelMarks(s) \/ ReplyFails(s)
  BY <1>5 DEF CancelMarks, ReplyFails, SlotAt, Replying, profiles
<1>. QED
  BY <1>1, <1>2, <1>3, <1>4, <1>5 DEF ReplySteps

\* A posting is saved on an account that is there.
LEMMA Saved ==
    ASSUME Person, user' = user \/ \E j \in Jobs : SaveJob(j)
    PROVE  /\ user' \in UserType /\ Employed(user)'
           /\ user'.name = user.name /\ user'.avatar = user.avatar
           /\ user'.deleted = user.deleted
<1>1. CASE user' = user
  BY <1>1 DEF Person, Employed
<1>2. ASSUME NEW j \in Jobs, SaveJob(j)
      PROVE  \E jobs \in SUBSET Jobs : user' = [user EXCEPT !.saved = jobs]
  <2>1. user.saved \in SUBSET Jobs /\ user.saved \cup {j} \in SUBSET Jobs
    BY DEF Person, UserType
  <2>. QED
    BY <1>2, <2>1 DEF SaveJob
<1>. QED
  BY <1>1, <1>2, SavedOnly

LEMMA PersonReplies ==
    ASSUME Person, Served, Offered, NEW s \in Slots, ReplySteps(s)
    PROVE  Person' /\ Served'
<1>1. PICK r \in {Vacant} \cup ReplyType : Serves(s, r)
  BY ReplyMoves
<1>2. UNCHANGED <<cv, edition, announced, parted>>
  BY ReplyMoves
<1>3. user' \in UserType /\ Employed(user)'
  BY ReplyMoves, Saved
<1>4. Person' /\ edition \in Nat /\ edition' = edition
  BY <1>2, <1>3 DEF Person
<1>5. r \in SlotType /\ r.pc # "write-user" /\ r \notin CvWriterType
  BY VacantSlot DEF ReplyType, SlotType, CvWriterType
<1>. QED
  BY <1>1, <1>4, <1>5, ServedPass

\* What leaves the account, the CV and the slots alone.
LEMMA AccountStays ==
    ASSUME \/ \E t \in Turns : ContextSteps(t) \/ AnswerSteps(t)
           \/ \E i \in Offers : OfferExpires(i)
           \/ CacheExpires \/ AnotherCachesFaq \/ RemoveJob
    PROVE  UNCHANGED account
BY DEF ContextSteps, AnswerSteps, OfferExpires, CacheExpires, AnotherCachesFaq, RemoveJob,
       Ask, AskRefused, GetContext, GetUserContext, CvUnread, CacheUserContext,
       UserContextFails, BuildContext, AnswerFaq, Generate, PersistMessageTurn,
       CacheFaqResponse, RecordUsage, RecordCached, RecordLost, TurnFails, RecordFailure

LEMMA PersonStep ==
    ASSUME Person, Served, Offered, AssistantNext
    PROVE  Person' /\ Served'
<1>1. CASE \E s \in Slots : \/ UpdateUser(s) \/ UpsertCv(s)
                            \/ WriteUser(s) \/ SyncCvIdentityFromUser(s)
  BY <1>1, PersonBegin, PersonWrite, PersonSyncCv
<1>2. CASE \E s \in Slots : \/ BuildCanonicalCv(s) \/ CreateCv(s) \/ UpdateCv(s)
                            \/ SyncUserIdentityFromCv(s) \/ ClearsContext(s)
  BY <1>2, PersonBuild, PersonStore, PersonSyncUser, PersonClear
  DEF ClearsContext
<1>3. ASSUME NEW s \in Slots, WriteRefused(s) \/ WriterFails(s)
      PROVE  Person' /\ Served'
  <2>1. /\ Serves(s, Vacant) /\ UNCHANGED <<user, cv, edition, announced>>
        /\ parted' \in BOOLEAN
    BY <1>3 DEF WriteRefused, WriterFails, profiles, Person
  <2>. QED
    BY <2>1, PersonEnds
<1>4. CASE RemoveUser \/ UnsaveJob \/ DeleteCv \/ DeactivateCv \/ ActivateCv
  BY <1>4, PersonElsewhere
<1>5. CASE \E s \in Slots : ReplySteps(s)
  BY <1>5, PersonReplies
<1>6. CASE SaveFromPage
  <2>1. /\ UNCHANGED <<cv, edition, handler, parted, announced>>
        /\ \E j \in Jobs : SaveJob(j)
    BY <1>6 DEF SaveFromPage
  <2>2. user' \in UserType /\ Employed(user)'
    BY <2>1, Saved
  <2>3. Person' /\ edition \in Nat
    BY <2>1, <2>2 DEF Person
  <2>. QED
    BY <2>1, <2>3, ServedStays
<1>7. CASE UNCHANGED account
  <2>1. UNCHANGED <<user, cv, edition, handler, parted, announced>>
    BY <1>7 DEF account
  <2>2. Person' /\ edition \in Nat
    BY <2>1 DEF Person, Employed
  <2>. QED
    BY <2>1, <2>2, ServedStays
<1>. QED
  BY <1>1, <1>2, <1>3, <1>4, <1>5, <1>6, <1>7, AccountStays
  DEF AssistantNext, UserSteps, CvSteps

-----------------------------------------------------------------------------
(* Account and CV agree                                                    *)

Sole(s) == s \in Writers /\ handler[s].alone

Agree == cv # Absent => cv.name = user.name /\ cv.avatar = user.avatar

\* The steps between the two writes of a writer.
Between == {"sync-cv", "sync-user"}

\* What a writer that was alone from the beginning knows at each step.
Halfway(s) ==
    LET h == handler[s] IN
    /\ h.pc = "sync-cv" =>
          /\ user.name = h.name /\ (h.avatar # Absent => user.avatar = h.avatar)
          /\ h.avatar = Absent =>
                parted \/ user.deleted \/ cv = Absent \/ cv.avatar = user.avatar
    /\ h.pc = "read-cv" => h.account = user.avatar
    /\ h.pc \in {"store-cv", "sync-user"} /\ h.avatar = Absent => user.avatar = Absent
    /\ h.pc = "sync-user" => cv = Absent \/ (cv.name = h.name /\ cv.avatar = h.avatar)

Together ==
    /\ \A s \in Slots : Sole(s) => Writers = {s} /\ Halfway(s)
    /\ parted \/ user.deleted \/ Agree \/ \E s \in Slots : handler[s].pc \in Between

\* A step of nobody who writes.
LEMMA TogetherElsewhere ==
    ASSUME Together, Writers' = Writers, \A s \in Writers : handler'[s] = handler[s],
           user'.name = user.name, user'.avatar = user.avatar,
           user.deleted => user'.deleted, parted' = parted,
           cv' # Absent => cv # Absent /\ cv'.name = cv.name /\ cv'.avatar = cv.avatar
    PROVE  Together'
<1>1. Between \subseteq {"write-user", "sync-cv", "read-cv", "store-cv", "sync-user",
                         "clear-context"}
  BY DEF Between
<1>2. ASSUME NEW s \in Slots, Sole(s)'
      PROVE  Writers' = {s} /\ Halfway(s)'
  <2>1. Sole(s) /\ handler'[s] = handler[s]
    BY <1>2 DEF Sole
  <2>2. Writers = {s} /\ Halfway(s)
    BY <2>1 DEF Together
  <2>. QED
    BY <2>1, <2>2 DEF Halfway
<1>3. ASSUME NEW s \in Slots, handler[s].pc \in Between
      PROVE  handler'[s].pc \in Between
  BY <1>1, <1>3 DEF Writers
<1>4. Agree => Agree'
  BY DEF Agree
<1>5. (parted \/ user.deleted \/ Agree \/ \E s \in Slots : handler[s].pc \in Between)'
  BY <1>3, <1>4 DEF Together
<1>. QED
  BY <1>2, <1>5 DEF Together

\* A writer begins.
LEMMA TogetherBegins ==
    ASSUME Together, Served, NEW s \in Slots, NEW r \in UserWriterType \cup CvWriterType,
           BeginsWriting(s, r), SlotAt(s, "idle"), UNCHANGED <<user, cv, parted>>,
           r.pc \in {"write-user", "read-cv"}, r.pc = "read-cv" => r.account = user.avatar
    PROVE  Together'
<1>1. /\ handler'[s] = [r EXCEPT !.alone = (Writers = {})]
      /\ \A x \in Writers : handler'[x] = [handler[x] EXCEPT !.alone = FALSE]
      /\ Writers' = Writers \cup {s} /\ s \notin Writers
  BY Begun
<1>2. ASSUME NEW h \in UserWriterType \cup CvWriterType, NEW b \in BOOLEAN
      PROVE  LET g == [h EXCEPT !.alone = b] IN
             /\ g.alone = b /\ g.pc = h.pc
             /\ h.pc = "read-cv" => g.account = h.account
  <2>1. h.pc = "read-cv" => h \in CvWriterType
    BY <1>2 DEF UserWriterType
  <2>. QED
    BY <1>2, <2>1 DEF UserWriterType, CvWriterType
<1>3. \A x \in Writers : ~handler'[x].alone /\ handler'[x].pc = handler[x].pc
  <2>. SUFFICES ASSUME NEW x \in Writers
                PROVE  ~handler'[x].alone /\ handler'[x].pc = handler[x].pc
    OBVIOUS
  <2>1. handler[x] \in UserWriterType \cup CvWriterType
    BY WriterFields DEF Writers
  <2>. QED
    BY <1>1, <1>2, <2>1
<1>4. /\ handler'[s].pc = r.pc /\ (handler'[s].alone => Writers = {})
      /\ r.pc = "read-cv" => handler'[s].account = r.account
  <2>. DEFINE b == (Writers = {})
  <2>1. b \in BOOLEAN /\ handler'[s] = [r EXCEPT !.alone = b]
    BY <1>1
  <2>. HIDE DEF b
  <2>2. handler'[s].alone = b /\ handler'[s].pc = r.pc
        /\ (r.pc = "read-cv" => handler'[s].account = r.account)
    BY <1>2, <2>1
  <2>. QED
    BY <2>2 DEF b
<1>5. ASSUME NEW x \in Slots, Sole(x)'
      PROVE  Writers' = {x} /\ Halfway(x)'
  <2>1. x \in Writers' /\ handler'[x].alone
    BY <1>5 DEF Sole
  <2>2. x = s
    BY <1>1, <1>3, <2>1
  <2>3. Writers' = {x}
    BY <1>1, <1>4, <2>1, <2>2
  <2>. QED
    BY <1>4, <2>2, <2>3 DEF Halfway
<1>6. \A x \in Slots : handler[x].pc \in Between => handler'[x].pc \in Between
  BY <1>3 DEF Writers, Between
<1>7. (parted \/ user.deleted \/ Agree \/ \E x \in Slots : handler[x].pc \in Between)'
  BY <1>6 DEF Together, Agree
<1>. QED
  BY <1>5, <1>7 DEF Together

\* A writer goes on, or ends.
LEMMA TogetherWrites ==
    ASSUME Together, Served, NEW s \in Writers, NEW r \in SlotType, Serves(s, r),
           r.pc = "idle" \/ (r \in UserWriterType \cup CvWriterType
                             /\ r.alone = handler[s].alone),
           Sole(s) /\ r.pc # "idle" => Halfway(s)',
           (parted \/ user.deleted \/ Agree \/ \E x \in Slots : handler[x].pc \in Between)'
    PROVE  Together'
<1>1. s \in Slots
  BY DEF Writers
<1>2. handler'[s] = r /\ \A x \in Slots \ {s} : handler'[x] = handler[x]
  BY <1>1, Passed DEF Served
<1>3. r.pc = "idle" => Writers' = Writers \ {s}
  BY <1>2 DEF Writers
<1>4. r.pc # "idle" => Writers' = Writers
  <2>1. r \in UserWriterType \cup CvWriterType =>
           r.pc \in {"write-user", "sync-cv", "read-cv", "store-cv", "sync-user",
                     "clear-context"}
    BY DEF UserWriterType, CvWriterType
  <2>. QED
    BY <1>1, <1>2, <2>1 DEF Writers
<1>5. ASSUME NEW x \in Slots, Sole(x)'
      PROVE  Writers' = {x} /\ Halfway(x)'
  <2>1. x \in Writers' /\ handler'[x].alone
    BY <1>5 DEF Sole
  <2>2. x \in Writers /\ handler[x].alone
    BY <1>2, <1>3, <1>4, <2>1
  <2>3. Writers = {x}
    BY <2>2 DEF Together, Sole
  <2>4. x = s
    BY <2>3
  <2>5. r.pc # "idle"
    BY <1>3, <2>1, <2>4
  <2>. QED
    BY <1>4, <2>2, <2>3, <2>4, <2>5 DEF Sole
<1>. QED
  BY <1>5 DEF Together

\* What holds of a writer that is alone, and of its two fields that are written.
LEMMA AloneKnows ==
    ASSUME Together, Served, NEW s \in Slots, Sole(s)
    PROVE  /\ Halfway(s)
           /\ handler[s].pc \notin Between => parted \/ user.deleted \/ Agree
<1>1. Writers = {s} /\ Halfway(s)
  BY DEF Together
<1>2. \A x \in Slots : handler[x].pc \in Between => x \in Writers
  BY DEF Between, Writers
<1>. QED
  BY <1>1, <1>2 DEF Together

LEMMA TogetherWrite ==
    ASSUME Together, Person, Served, NEW s \in Slots, WriteUser(s)
    PROVE  Together'
<1>. DEFINE h == handler[s]
            r == [h EXCEPT !.pc = "sync-cv", !.role = Absent, !.company = Absent]
            picture == Or(h.avatar, user.avatar)
<1>1. h \in UserWriterType /\ h.pc = "write-user" /\ s \in Writers
  BY SlotFields DEF WriteUser, SlotAt, Served, Writers
<1>2. /\ user' = [user EXCEPT !.name = h.name, !.avatar = picture,
                              !.role = h.role, !.company = h.company]
      /\ Serves(s, r) /\ UNCHANGED <<cv, parted>>
  BY DEF WriteUser
<1>3. /\ r \in UserWriterType /\ r.pc = "sync-cv" /\ r \in SlotType
      /\ r.alone = h.alone /\ r.name = h.name /\ r.avatar = h.avatar
  BY <1>1 DEF UserWriterType, SlotType
<1>. HIDE DEF r
<1>4. handler'[s] = r
  BY <1>2, Passed DEF Served
<1>5. /\ user'.name = h.name /\ user'.deleted = user.deleted
      /\ user'.avatar = IF h.avatar = Absent THEN user.avatar ELSE h.avatar
  <2>1. picture = IF h.avatar = Absent THEN user.avatar ELSE h.avatar
    BY DEF Or
  <2>. HIDE DEF picture
  <2>. QED
    BY <1>2, <2>1 DEF Person, UserType
<1>6. Sole(s) => Halfway(s)'
  <2>. SUFFICES ASSUME Sole(s)
                PROVE  Halfway(s)'
    OBVIOUS
  <2>1. parted \/ user.deleted \/ Agree
    BY <1>1, AloneKnows DEF Between
  <2>. HIDE DEF h
  <2>. QED
    BY <1>2, <1>3, <1>4, <1>5, <2>1 DEF Halfway, Agree
<1>7. handler'[s].pc \in Between
  BY <1>3, <1>4 DEF Between
<1>. QED
  BY <1>1, <1>2, <1>3, <1>6, <1>7, TogetherWrites

LEMMA TogetherSyncCv ==
    ASSUME Together, Person, Served, NEW s \in Slots, SyncCvIdentityFromUser(s)
    PROVE  Together'
<1>. DEFINE h == handler[s]
            picture == Or(h.avatar, cv.avatar)
<1>1. h \in UserWriterType /\ h.pc = "sync-cv" /\ s \in Writers
  BY SlotFields DEF SyncCvIdentityFromUser, SlotAt, Served, Writers
<1>2. /\ cv' = IF cv = Absent THEN Absent
               ELSE [cv EXCEPT !.name = h.name, !.avatar = picture]
      /\ Serves(s, Vacant) /\ user' = user
      /\ parted' = IF ~h.alone THEN TRUE ELSE parted /\ ~(h.avatar # Absent)
  BY DEF SyncCvIdentityFromUser, Parts
<1>3. CASE ~h.alone
  <2>1. parted'
    BY <1>2, <1>3
  <2>. QED
    BY <1>1, <1>2, <2>1, VacantSlot, TogetherWrites
<1>4. CASE h.alone
  <2>1. /\ user.name = h.name /\ (h.avatar # Absent => user.avatar = h.avatar)
        /\ h.avatar = Absent =>
              parted \/ user.deleted \/ cv = Absent \/ cv.avatar = user.avatar
    BY <1>1, <1>4, AloneKnows DEF Sole, Halfway
  <2>2. picture = IF h.avatar = Absent THEN cv.avatar ELSE h.avatar
    BY DEF Or
  <2>. HIDE DEF picture
  <2>3. cv # Absent => cv'.name = h.name /\ cv'.avatar = picture
    BY <1>2 DEF Person, CvType
  <2>4. (parted \/ user.deleted \/ Agree)'
    BY <1>2, <1>4, <2>1, <2>2, <2>3 DEF Agree
  <2>. QED
    BY <1>1, <1>2, <2>4, VacantSlot, TogetherWrites
<1>. QED
  BY <1>3, <1>4

\* Where a step of an upsert but the last leaves its request.
LEMMA ProceedsTo ==
    ASSUME Served, NEW s \in Slots, NEW r \in CvWriterType, Proceeds(s, r),
           r.pc # "clear-context"
    PROVE  /\ handler'[s].pc = After(r.pc) /\ handler'[s].name = r.name
           /\ handler'[s].avatar = r.avatar /\ handler'[s].alone = r.alone
           /\ handler'[s] \in CvWriterType /\ Serves(s, handler'[s])
           /\ \A x \in Slots \ {s} : handler'[x] = handler[x]
<1>. DEFINE pc == After(r.pc)
            g == [r EXCEPT !.pc = pc]
<1>1. Serves(s, g)
  BY DEF Proceeds, CvWriterType, After
<1>2. pc \in {"store-cv", "sync-user", "clear-context"}
  BY DEF After, CvWriterType
<1>. HIDE DEF pc
<1>3. /\ g \in CvWriterType /\ g.pc = pc /\ g.name = r.name /\ g.avatar = r.avatar
      /\ g.alone = r.alone
  BY <1>2 DEF CvWriterType
<1>. HIDE DEF g
<1>4. handler'[s] = g /\ \A x \in Slots \ {s} : handler'[x] = handler[x]
  BY <1>1, Passed DEF Served
<1>. QED
  BY <1>1, <1>3, <1>4 DEF pc

\* A step of an upsert but its last: the request stays at work.
LEMMA TogetherProceeds ==
    ASSUME Together, Served, NEW s \in Slots, NEW r \in CvWriterType,
           Proceeds(s, r), s \in Writers, r.alone = handler[s].alone,
           r.pc # "clear-context", Sole(s) => Halfway(s)',
           (parted \/ user.deleted \/ Agree \/ \E x \in Slots : handler[x].pc \in Between)'
    PROVE  Together'
<1>1. /\ handler'[s] \in CvWriterType /\ Serves(s, handler'[s])
      /\ handler'[s].alone = r.alone
  BY ProceedsTo
<1>2. handler'[s] \in SlotType
  BY <1>1 DEF SlotType
<1>. QED
  BY <1>1, <1>2, TogetherWrites

LEMMA TogetherBuild ==
    ASSUME Together, Person, Served, NEW s \in Slots, BuildCanonicalCv(s)
    PROVE  Together'
<1>. DEFINE h == handler[s]
            existing == IF cv = Absent THEN Absent ELSE cv.avatar
            picture == CanonicalAvatar(h.avatar, existing, h.account)
            exists == (cv # Absent)
            r == [h EXCEPT !.exists = exists, !.account = Absent, !.avatar = picture]
<1>1. h \in CvWriterType /\ h.pc = "read-cv" /\ s \in Writers
  BY SlotFields DEF BuildCanonicalCv, SlotAt, Served, Writers
<1>2. Proceeds(s, r) /\ UNCHANGED <<user, cv, parted>>
  BY DEF BuildCanonicalCv, profiles
<1>3. picture \in Pictures /\ (picture = Absent => h.account = Absent)
  <2>1. existing \in Pictures /\ h.avatar \in Pictures /\ h.account \in Pictures
    BY <1>1 DEF Person, CvType, CvWriterType, Pictures
  <2>. QED
    BY <2>1, OrTyped DEF CanonicalAvatar, Or
<1>4. exists \in BOOLEAN
  OBVIOUS
<1>. HIDE DEF exists, picture
<1>5. /\ r \in CvWriterType /\ r.pc = "read-cv" /\ r.alone = h.alone /\ r.avatar = picture
  BY <1>1, <1>3, <1>4 DEF CvWriterType, Pictures
<1>. HIDE DEF r
<1>6. Sole(s) => /\ h.account = user.avatar
                 /\ parted \/ user.deleted \/ Agree
  BY <1>1, AloneKnows DEF Halfway, Between
<1>7. After(r.pc) = "store-cv"
  BY <1>5 DEF After
<1>8. /\ handler'[s].pc = "store-cv" /\ handler'[s].avatar = picture
      /\ \A x \in Slots \ {s} : handler'[x] = handler[x]
  BY <1>2, <1>5, <1>7, ProceedsTo
<1>9. Sole(s) => Halfway(s)'
  BY <1>2, <1>3, <1>6, <1>8 DEF Halfway
<1>10. \A x \in Slots : handler[x].pc \in Between => handler'[x] = handler[x]
  BY <1>1, <1>8 DEF Between
<1>11. (parted \/ user.deleted \/ Agree \/ \E x \in Slots : handler[x].pc \in Between)'
  BY <1>2, <1>10 DEF Together, Agree
<1>. QED
  BY <1>1, <1>2, <1>5, <1>9, <1>11, TogetherProceeds

LEMMA TogetherStore ==
    ASSUME Together, Person, Served, NEW s \in Slots, CreateCv(s) \/ UpdateCv(s)
    PROVE  Together'
<1>. DEFINE h == handler[s]
            r == [h EXCEPT !.stored = edition + 1]
<1>1. h \in CvWriterType /\ h.pc = "store-cv" /\ s \in Writers
  BY SlotFields DEF CreateCv, UpdateCv, SlotAt, Served, Writers
<1>2. Proceeds(s, r) /\ UNCHANGED <<user, parted>>
  BY DEF CreateCv, UpdateCv, StoresCv
<1>3. cv'.name = h.name /\ cv'.avatar = h.avatar
  <2>1. CASE CreateCv(s)
    BY <2>1 DEF CreateCv, StoresCv, NewCv
  <2>2. CASE UpdateCv(s)
    <3>1. cv \in CvType /\ cv' = [cv EXCEPT !.name = h.name, !.avatar = h.avatar]
      BY <2>2 DEF UpdateCv, StoresCv, Person
    <3>. QED
      BY <3>1 DEF CvType
  <2>. QED
    BY <2>1, <2>2
<1>4. /\ r \in CvWriterType /\ r.pc = "store-cv" /\ r.alone = h.alone
      /\ r.avatar = h.avatar /\ r.name = h.name
  BY <1>1 DEF CvWriterType, Person
<1>. HIDE DEF r
<1>5. After(r.pc) = "sync-user"
  BY <1>4 DEF After
<1>6. Sole(s) => (h.avatar = Absent => user.avatar = Absent)
  BY <1>1, AloneKnows DEF Halfway
<1>7. /\ handler'[s].pc = "sync-user" /\ handler'[s].avatar = h.avatar
      /\ handler'[s].name = h.name
  BY <1>2, <1>4, <1>5, ProceedsTo
<1>8. Sole(s) => Halfway(s)'
  <2>. HIDE DEF h
  <2>. QED
    BY <1>2, <1>3, <1>6, <1>7 DEF Halfway
<1>9. handler'[s].pc \in Between
  BY <1>7 DEF Between
<1>. QED
  BY <1>1, <1>2, <1>4, <1>8, <1>9, TogetherProceeds

LEMMA TogetherSyncUser ==
    ASSUME Together, Person, Served, NEW s \in Slots, SyncUserIdentityFromCv(s)
    PROVE  Together'
<1>. DEFINE h == handler[s]
            picture == Or(h.avatar, user.avatar)
<1>1. h \in CvWriterType /\ h.pc = "sync-user" /\ s \in Writers
  BY SlotFields DEF SyncUserIdentityFromCv, SlotAt, Served, Writers
<1>2. /\ Proceeds(s, h) /\ cv' = cv
      /\ user' = IF user.deleted THEN user
                 ELSE [user EXCEPT !.name = h.name, !.avatar = picture]
      /\ parted' = IF ~h.alone THEN TRUE ELSE parted /\ ~TRUE
  BY DEF SyncUserIdentityFromCv, Parts
<1>3. After(h.pc) = "clear-context"
  BY <1>1 DEF After
<1>4. (parted \/ user.deleted \/ Agree)'
  <2>1. CASE ~h.alone
    BY <1>2, <2>1
  <2>2. CASE user.deleted
    BY <1>2, <2>2
  <2>3. CASE h.alone /\ ~user.deleted
    <3>1. /\ h.avatar = Absent => user.avatar = Absent
          /\ cv = Absent \/ (cv.name = h.name /\ cv.avatar = h.avatar)
      BY <1>1, <2>3, AloneKnows DEF Sole, Halfway
    <3>2. picture = h.avatar
      BY <3>1 DEF Or
    <3>. HIDE DEF picture
    <3>3. user'.name = h.name /\ user'.avatar = h.avatar
      BY <1>2, <2>3, <3>2 DEF Person, UserType
    <3>. QED
      BY <1>2, <3>1, <3>3 DEF Agree
  <2>. QED
    BY <2>1, <2>2, <2>3
<1>5. h.pc # "clear-context" /\ Proceeds(s, h)
  BY <1>1, <1>2
<1>6. handler'[s].pc = "clear-context"
  BY <1>1, <1>3, <1>5, ProceedsTo
<1>7. Halfway(s)'
  BY <1>6 DEF Halfway
<1>. QED
  BY <1>1, <1>4, <1>5, <1>7, TogetherProceeds

\* A writer that ends where it has nothing left to write, or is known to have parted them.
LEMMA TogetherEnds ==
    ASSUME Together, Served, NEW s \in Writers, Serves(s, Vacant), UNCHANGED <<user, cv>>,
           parted' = (parted \/ handler[s].pc \in Between)
    PROVE  Together'
<1>1. \A x \in Slots \ {s} : handler'[x] = handler[x]
  BY DEF Serves, Served
<1>2. (parted \/ user.deleted \/ Agree \/ \E x \in Slots : handler[x].pc \in Between)'
  BY <1>1 DEF Together, Agree
<1>. QED
  BY <1>2, VacantSlot, TogetherWrites

LEMMA TogetherWriters ==
    ASSUME Together, Person, Served, NEW s \in Slots,
           ClearContext(s) \/ WriteRefused(s) \/ WriterFails(s)
    PROVE  Together'
<1>1. CASE ClearContext(s)
  <2>1. handler[s].pc = "clear-context" /\ s \in Writers
    BY <1>1 DEF ClearContext, SlotAt, Writers
  <2>2. Serves(s, Vacant) /\ UNCHANGED <<user, cv, parted>>
    BY <1>1, <2>1 DEF ClearContext, Proceeds, After, profiles
  <2>3. parted' = (parted \/ handler[s].pc \in Between)
    BY <2>1, <2>2 DEF Between, Person
  <2>. QED
    BY <2>1, <2>2, <2>3, TogetherEnds
<1>2. CASE WriteRefused(s)
  <2>1. handler[s].pc \in {"write-user", "store-cv"} /\ s \in Writers
    BY <1>2 DEF WriteRefused, UserRemoved, CvChanged, SlotAt, Writers
  <2>2. Serves(s, Vacant) /\ UNCHANGED <<user, cv, parted>>
    BY <1>2 DEF WriteRefused, profiles
  <2>3. parted' = (parted \/ handler[s].pc \in Between)
    BY <2>1, <2>2 DEF Between, Person
  <2>. QED
    BY <2>1, <2>2, <2>3, TogetherEnds
<1>3. CASE WriterFails(s)
  BY <1>3, TogetherEnds DEF WriterFails, Between
<1>. QED
  BY <1>1, <1>2, <1>3

LEMMA TogetherBegin ==
    ASSUME Together, Person, Served, NEW s \in Slots, UpdateUser(s) \/ UpsertCv(s)
    PROVE  Together'
<1>1. SlotAt(s, "idle") /\ UNCHANGED <<user, cv, parted>>
  BY Beginning
<1>2. PICK r \in UserWriterType \cup CvWriterType :
         /\ BeginsWriting(s, r) /\ r.pc \in {"write-user", "read-cv"}
         /\ r.pc = "read-cv" => r.account = user.avatar
  BY Beginning
<1>. QED
  BY <1>1, <1>2, TogetherBegins

LEMMA TogetherElse ==
    ASSUME Together, Person,
           RemoveUser \/ UnsaveJob \/ DeleteCv \/ DeactivateCv \/ ActivateCv
           \/ SaveFromPage \/ UNCHANGED account
    PROVE  Together'
<1>1. handler' = handler /\ parted' = parted
  BY DEF RemoveUser, UnsaveJob, DeleteCv, DeactivateCv, ActivateCv, SetCvActive, profiles,
         SaveFromPage, account
<1>2. /\ user'.name = user.name /\ user'.avatar = user.avatar
      /\ user.deleted => user'.deleted
  <2>1. CASE RemoveUser
    BY <2>1 DEF RemoveUser, Person, UserType
  <2>2. CASE UnsaveJob \/ SaveFromPage
    <3>1. \E jobs : user' = [user EXCEPT !.saved = jobs]
      BY <2>2 DEF UnsaveJob, SaveFromPage, SaveJob
    <3>. QED
      BY <3>1 DEF Person, UserType
  <2>3. CASE user' = user
    BY <2>3
  <2>. QED
    BY <2>1, <2>2, <2>3
    DEF DeleteCv, DeactivateCv, ActivateCv, SetCvActive, account
<1>3. cv' # Absent => cv # Absent /\ cv'.name = cv.name /\ cv'.avatar = cv.avatar
  <2>1. CASE DeleteCv
    BY <2>1 DEF DeleteCv
  <2>2. ASSUME NEW active \in BOOLEAN, SetCvActive(active)
        PROVE  cv # Absent /\ cv'.name = cv.name /\ cv'.avatar = cv.avatar
    <3>1. cv \in CvType /\ cv # Absent /\ cv' = [cv EXCEPT !.active = active]
      BY <2>2 DEF SetCvActive, Person
    <3>. QED
      BY <3>1 DEF CvType
  <2>3. CASE cv' = cv
    BY <2>3
  <2>. QED
    BY <2>1, <2>2, <2>3
    DEF RemoveUser, UnsaveJob, DeactivateCv, ActivateCv, SaveFromPage, account
<1>4. Writers' = Writers /\ \A s \in Writers : handler'[s] = handler[s]
  BY <1>1 DEF Writers
<1>. QED
  BY <1>1, <1>2, <1>3, <1>4, TogetherElsewhere

LEMMA TogetherReplies ==
    ASSUME Together, Person, Served, Offered, NEW s \in Slots, ReplySteps(s)
    PROVE  Together'
<1>1. PICK r \in {Vacant} \cup ReplyType : Serves(s, r)
  BY ReplyMoves
<1>2. /\ handler'[s] = r /\ \A x \in Slots \ {s} : handler'[x] = handler[x]
      /\ handler[s].pc \in {"idle"} \cup Replying /\ UNCHANGED <<cv, parted>>
  BY <1>1, ReplyMoves, Passed DEF Served
<1>3. r.pc \in {"idle"} \cup Replying
  BY DEF Vacant, ReplyType, Replying
<1>4. Writers' = Writers /\ \A x \in Writers : handler'[x] = handler[x]
  BY <1>2, <1>3 DEF Writers, Replying
<1>5. /\ user'.name = user.name /\ user'.avatar = user.avatar
      /\ user'.deleted = user.deleted
  BY ReplyMoves, Saved
<1>. QED
  BY <1>2, <1>4, <1>5, TogetherElsewhere

LEMMA TogetherStep ==
    ASSUME Together, Person, Served, Offered, AssistantNext
    PROVE  Together'
<1>1. CASE \E s \in Slots : \/ WriteUser(s) \/ SyncCvIdentityFromUser(s)
                            \/ BuildCanonicalCv(s) \/ CreateCv(s) \/ UpdateCv(s)
                            \/ SyncUserIdentityFromCv(s)
  BY <1>1, TogetherWrite, TogetherSyncCv, TogetherBuild, TogetherStore, TogetherSyncUser
<1>2. CASE \E s \in Slots : \/ ClearsContext(s) \/ WriteRefused(s) \/ WriterFails(s)
                            \/ UpdateUser(s) \/ UpsertCv(s)
  BY <1>2, TogetherWriters, TogetherBegin DEF ClearsContext
<1>3. CASE \E s \in Slots : ReplySteps(s)
  BY <1>3, TogetherReplies
<1>4. CASE \/ RemoveUser \/ UnsaveJob \/ DeleteCv \/ DeactivateCv \/ ActivateCv
           \/ SaveFromPage \/ UNCHANGED account
  BY <1>4, TogetherElse
<1>. QED
  BY <1>1, <1>2, <1>3, <1>4, AccountStays DEF AssistantNext, UserSteps, CvSteps

-----------------------------------------------------------------------------
(* Offers are what they say                                                *)

LEMMA OfferedStays ==
    ASSUME Offered, offer' = offer,
           \A s \in Slots : \/ handler'[s] = handler[s]
                            \/ handler[s].pc \notin Replying /\ handler'[s].pc \notin Replying
    PROVE  Offered'
<1>1. \A i \in Offers : Replies(i)' = Replies(i)
  BY DEF Replies, Replying
<1>2. \A i \in Offers : \A s \in Replies(i) : handler'[s] = handler[s]
  BY DEF Replies, Replying
<1>3. ASSUME NEW i \in Offers
      PROVE  Honest(i)'
  BY <1>1, <1>2 DEF Offered, Honest
<1>4. \A s \in Slots : handler'[s].pc \in Replying => offer'[handler'[s].to] \in OfferType
  BY DEF Offered
<1>. QED
  BY <1>3, <1>4 DEF Offered, OffersTyped

\* One reply to one offer.
LEMMA OfferedMoves ==
    ASSUME Served, Offered, NEW s \in Slots, NEW i \in Offers,
           NEW r \in {Vacant} \cup ReplyType, Serves(s, r),
           handler[s].pc = "idle" \/ (handler[s].pc \in Replying /\ handler[s].to = i),
           r.pc = "idle" \/ r.to = i,
           NEW o \in OfferType, offer' = [offer EXCEPT ![i] = o],
           o.contested \/ /\ \A x, y \in Replies(i)' : x = y
                          /\ Replies(i)' = {} => (o.saved <=> o.status = "CONFIRMED")
                          /\ \A x \in Replies(i)' : /\ o.status = "PENDING"
                                                    /\ o.saved <=> handler'[x].pc = "confirm"
    PROVE  Offered'
<1>1. handler'[s] = r /\ \A x \in Slots \ {s} : handler'[x] = handler[x]
  BY Passed DEF Served
<1>2. offer'[i] = o /\ \A k \in Offers \ {i} : offer'[k] = offer[k]
  BY DEF Offered, OffersTyped
<1>3. r.pc \in Replying => r.to = i
  BY DEF Replying
<1>4. \A x \in Slots : handler'[x].pc \in Replying => offer'[handler'[x].to] \in OfferType
  <2>. SUFFICES ASSUME NEW x \in Slots, handler'[x].pc \in Replying
                PROVE  offer'[handler'[x].to] \in OfferType
    OBVIOUS
  <2>1. CASE x = s
    BY <1>1, <1>2, <1>3, <2>1
  <2>2. CASE x # s
    <3>1. handler'[x] = handler[x]
      BY <1>1, <2>2
    <3>2. handler[x].to \in Offers /\ offer[handler[x].to] \in OfferType
      BY <3>1, ReplyFields DEF Offered
    <3>. QED
      BY <1>2, <3>1, <3>2
  <2>. QED
    BY <2>1, <2>2
<1>5. ASSUME NEW k \in Offers \ {i}
      PROVE  Honest(k)'
  <2>1. Replies(k)' = Replies(k) /\ s \notin Replies(k)
    BY <1>1, <1>3 DEF Replies, Replying
  <2>2. \A x \in Replies(k) : handler'[x] = handler[x]
    BY <1>1, <2>1 DEF Replies
  <2>. QED
    BY <1>2, <2>1, <2>2 DEF Offered, Honest
<1>6. Honest(i)'
  BY <1>2 DEF Honest
<1>7. OffersTyped'
  BY <1>2 DEF Offered, OffersTyped
<1>. QED
  BY <1>4, <1>5, <1>6, <1>7 DEF Offered

\* The replies to an offer after a step of one of them.
LEMMA RepliesMove ==
    ASSUME Served, NEW s \in Slots, NEW i \in Offers, NEW r, Serves(s, r)
    PROVE  /\ r.pc \notin Replying => Replies(i)' = Replies(i) \ {s}
           /\ r.pc \in Replying /\ r.to = i => Replies(i)' = Replies(i) \cup {s}
           /\ handler'[s] = r
<1>1. handler'[s] = r /\ \A x \in Slots \ {s} : handler'[x] = handler[x]
  BY Passed DEF Served
<1>. QED
  BY <1>1 DEF Replies, Replying

\* A reply finds a pending offer that no other reply has contested: it is not saved.
LEMMA FoundPending ==
    ASSUME Served, Offered, NEW s \in Slots, handler[s].pc = "idle",
           NEW i \in Offers, offer[i] # Absent, offer[i].status = "PENDING"
    PROVE  /\ offer[i] \in OfferType /\ s \notin Replies(i) /\ Meets(i) \in BOOLEAN
           /\ ~Meets(i) => Replies(i) = {} /\ ~offer[i].saved
<1>1. offer[i] \in OfferType
  BY DEF Offered, OffersTyped
<1>2. s \notin Replies(i)
  BY DEF Replies
<1>3. ~Meets(i) => Replies(i) = {} /\ ~offer[i].saved
  BY DEF Meets, Offered, Honest
<1>4. Meets(i) \in BOOLEAN
  BY <1>1 DEF Meets, OfferType
<1>. QED
  BY <1>1, <1>2, <1>3, <1>4

LEMMA OfferedConfirm ==
    ASSUME Served, Offered, NEW s \in Slots, Confirm(s)
    PROVE  Offered'
<1>1. handler[s].pc = "idle"
  BY DEF Confirm, SlotAt
<1>2. PICK i \in Offers :
         /\ offer[i] # Absent /\ offer[i].status = "PENDING"
         /\ Serves(s, IF offer[i].late THEN Vacant
                      ELSE [pc |-> AfterReply("find"), to |-> i])
         /\ offer' = [offer EXCEPT ![i].contested = Meets(i),
                                   ![i].status = IF offer[i].late THEN "EXPIRED" ELSE @]
  BY DEF Confirm
<1>. DEFINE contested == Meets(i)
            status == IF offer[i].late THEN "EXPIRED" ELSE offer[i].status
            o == [offer[i] EXCEPT !.contested = contested, !.status = status]
            r == IF offer[i].late THEN Vacant ELSE [pc |-> "save", to |-> i]
<1>3. /\ offer[i] \in OfferType /\ s \notin Replies(i) /\ contested \in BOOLEAN
      /\ ~contested => Replies(i) = {} /\ ~offer[i].saved
  BY <1>1, <1>2, FoundPending
<1>4. Serves(s, r) /\ offer' = [offer EXCEPT ![i] = o]
  BY <1>2 DEF AfterReply, Offered, OffersTyped
<1>5. status \in {"PENDING", "EXPIRED"} /\ (~offer[i].late => status = "PENDING")
  BY <1>2
<1>6. /\ \/ r.pc = "idle" /\ offer[i].late
         \/ r.pc = "save" /\ r.to = i /\ ~offer[i].late
      /\ r \in {Vacant} \cup ReplyType
  BY DEF Vacant, ReplyType
<1>. HIDE DEF contested, status, r
<1>7. /\ o \in OfferType /\ o.contested = contested /\ o.saved = offer[i].saved /\ o.status = status
  BY <1>3, <1>5 DEF OfferType
<1>. HIDE DEF o
<1>8. /\ r.pc \notin Replying => Replies(i)' = Replies(i) \ {s}
      /\ r.pc \in Replying /\ r.to = i => Replies(i)' = Replies(i) \cup {s}
      /\ handler'[s] = r
  BY <1>4, RepliesMove
<1>9. o.contested \/ /\ \A x, y \in Replies(i)' : x = y
                     /\ Replies(i)' = {} => (o.saved <=> o.status = "CONFIRMED")
                     /\ \A x \in Replies(i)' : /\ o.status = "PENDING"
                                               /\ o.saved <=> handler'[x].pc = "confirm"
  BY <1>3, <1>5, <1>6, <1>7, <1>8 DEF Replying
<1>. QED
  BY <1>1, <1>4, <1>6, <1>7, <1>9, OfferedMoves

LEMMA OfferedCancel ==
    ASSUME Served, Offered, NEW s \in Slots, Cancel(s)
    PROVE  Offered'
<1>1. handler[s].pc = "idle"
  BY DEF Cancel, SlotAt
<1>2. PICK i \in Offers : /\ offer[i] # Absent /\ offer[i].status = "PENDING"
                          /\ Serves(s, [pc |-> "cancel", to |-> i])
                          /\ offer' = [offer EXCEPT ![i].contested = Meets(i)]
  BY DEF Cancel
<1>. DEFINE contested == Meets(i)
            o == [offer[i] EXCEPT !.contested = contested]
            r == [pc |-> "cancel", to |-> i]
<1>3. /\ offer[i] \in OfferType /\ s \notin Replies(i) /\ contested \in BOOLEAN
      /\ ~contested => Replies(i) = {} /\ ~offer[i].saved
  BY <1>1, <1>2, FoundPending
<1>4. Serves(s, r) /\ offer' = [offer EXCEPT ![i] = o]
  BY <1>2 DEF Offered, OffersTyped
<1>5. r.pc = "cancel" /\ r.to = i /\ r \in ReplyType
  BY DEF ReplyType
<1>. HIDE DEF contested, r
<1>6. o \in OfferType /\ o.contested = contested /\ o.saved = offer[i].saved /\ o.status = "PENDING"
  BY <1>2, <1>3 DEF OfferType
<1>. HIDE DEF o
<1>7. Replies(i)' = Replies(i) \cup {s} /\ handler'[s] = r
  BY <1>4, <1>5, RepliesMove DEF Replying
<1>8. o.contested \/ /\ \A x, y \in Replies(i)' : x = y
                     /\ Replies(i)' = {} => (o.saved <=> o.status = "CONFIRMED")
                     /\ \A x \in Replies(i)' : /\ o.status = "PENDING"
                                               /\ o.saved <=> handler'[x].pc = "confirm"
  BY <1>3, <1>5, <1>6, <1>7
<1>. QED
  BY <1>1, <1>4, <1>5, <1>6, <1>8, OfferedMoves

\* What a reply under way knows of its offer.
LEMMA UnderReply ==
    ASSUME Served, Offered, NEW s \in Slots, handler[s].pc \in Replying
    PROVE  /\ handler[s].to \in Offers /\ offer[handler[s].to] \in OfferType
           /\ s \in Replies(handler[s].to)
           /\ ~offer[handler[s].to].contested =>
                 /\ Replies(handler[s].to) = {s}
                 /\ offer[handler[s].to].status = "PENDING"
                 /\ offer[handler[s].to].saved <=> handler[s].pc = "confirm"
<1>. DEFINE i == handler[s].to
<1>1. i \in Offers /\ offer[i] \in OfferType
  BY ReplyFields DEF Offered
<1>2. s \in Replies(i)
  BY DEF Replies, Replying
<1>3. offer[i] # Absent
  BY <1>1, OffersArePresent DEF OfferType
<1>. HIDE DEF i
<1>. QED
  BY <1>1, <1>2, <1>3 DEF Offered, Honest, i

LEMMA OfferedSaves ==
    ASSUME Served, Offered, NEW s \in Slots, ConfirmSaves(s)
    PROVE  Offered'
<1>1. handler[s].pc = "save" /\ handler[s].pc \in Replying
  BY DEF ConfirmSaves, SlotAt, Replying
<1>i. PICK i \in Offers : i = handler[s].to
  BY <1>1, ReplyFields
<1>2. /\ offer[i] \in OfferType /\ handler[s] \in ReplyType
      /\ ~offer[i].contested => /\ Replies(i) = {s} /\ offer[i].status = "PENDING"
                                /\ ~offer[i].saved
  BY <1>1, <1>i, UnderReply, ReplyFields
<1>3. CASE Serves(s, Vacant) /\ offer' = offer
  <2>. DEFINE o == offer[i]
  <2>1. offer' = [offer EXCEPT ![i] = o]
    BY <1>2, <1>3 DEF Offered, OffersTyped
  <2>2. Replies(i)' = Replies(i) \ {s}
    BY <1>3, RepliesMove, VacantSlot DEF Replying
  <2>3. o.contested \/ /\ \A x, y \in Replies(i)' : x = y
                       /\ Replies(i)' = {} => (o.saved <=> o.status = "CONFIRMED")
                       /\ \A x \in Replies(i)' : /\ o.status = "PENDING"
                                                 /\ o.saved <=> handler'[x].pc = "confirm"
    BY <1>2, <2>2
  <2>. HIDE DEF o
  <2>4. o \in OfferType /\ Vacant.pc = "idle"
    BY <1>2, VacantSlot DEF o
  <2>. QED
    BY <1>1, <1>2, <1>3, <2>1, <2>3, <2>4, <1>i, OfferedMoves
<1>4. CASE Replied(s) /\ offer' = [offer EXCEPT ![i].saved = TRUE]
  <2>. DEFINE r == [handler[s] EXCEPT !.pc = "confirm"]
              o == [offer[i] EXCEPT !.saved = TRUE]
  <2>1. Serves(s, r)
    BY <1>1, <1>4 DEF Replied, AfterReply
  <2>2. r \in ReplyType /\ r.pc = "confirm" /\ r.to = i
    BY <1>i, <1>2 DEF ReplyType
  <2>. HIDE DEF r
  <2>3. offer' = [offer EXCEPT ![i] = o]
    BY <1>2, <1>4 DEF Offered, OffersTyped
  <2>4. /\ o \in OfferType /\ o.contested = offer[i].contested /\ o.saved
        /\ o.status = offer[i].status
    BY <1>2 DEF OfferType
  <2>. HIDE DEF o
  <2>5. Replies(i)' = Replies(i) \cup {s} /\ handler'[s] = r
    BY <2>1, <2>2, RepliesMove DEF Replying
  <2>6. o.contested \/ /\ \A x, y \in Replies(i)' : x = y
                       /\ Replies(i)' = {} => (o.saved <=> o.status = "CONFIRMED")
                       /\ \A x \in Replies(i)' : /\ o.status = "PENDING"
                                                 /\ o.saved <=> handler'[x].pc = "confirm"
    BY <1>2, <2>2, <2>4, <2>5
  <2>. QED
    BY <1>1, <1>2, <2>1, <2>2, <2>3, <2>4, <2>6, <1>i, OfferedMoves
<1>. QED
  BY <1>i, <1>3, <1>4 DEF ConfirmSaves

\* A reply that marks its offer and ends.
LEMMA OfferedEnds ==
    ASSUME Served, Offered, NEW s \in Slots, handler[s].pc \in Replying, Serves(s, Vacant),
           NEW o \in OfferType, offer' = [offer EXCEPT ![handler[s].to] = o],
           o.contested \/ /\ o.contested = offer[handler[s].to].contested
                          /\ o.saved = offer[handler[s].to].saved
                          /\ handler[s].pc = "confirm" <=> o.status = "CONFIRMED"
    PROVE  Offered'
<1>i. PICK i \in Offers : i = handler[s].to
  BY ReplyFields
<1>1. ~offer[i].contested => /\ Replies(i) = {s}
                             /\ offer[i].saved <=> handler[s].pc = "confirm"
  BY <1>i, UnderReply
<1>2. Replies(i)' = Replies(i) \ {s}
  BY RepliesMove, VacantSlot DEF Replying
<1>3. o.contested \/ /\ o.contested = offer[i].contested /\ o.saved = offer[i].saved
                     /\ handler[s].pc = "confirm" <=> o.status = "CONFIRMED"
  BY <1>i
<1>4. /\ offer' = [offer EXCEPT ![i] = o] /\ handler[s].to = i /\ Vacant.pc = "idle"
  BY <1>i, VacantSlot
<1>5. o.contested \/ /\ \A x, y \in Replies(i)' : x = y
                     /\ Replies(i)' = {} => (o.saved <=> o.status = "CONFIRMED")
                     /\ \A x \in Replies(i)' : /\ o.status = "PENDING"
                                               /\ o.saved <=> handler'[x].pc = "confirm"
  BY <1>1, <1>2, <1>3
<1>. QED
  BY <1>1, <1>4, <1>5, OfferedMoves

LEMMA OfferedMarks ==
    ASSUME Served, Offered, NEW s \in Slots,
           ConfirmMarks(s) \/ CancelMarks(s) \/ ReplyFails(s)
    PROVE  Offered'
<1>. DEFINE i == handler[s].to
<1>1. handler[s].pc \in Replying
  BY DEF ConfirmMarks, CancelMarks, ReplyFails, SlotAt, Replying
<1>2. i \in Offers /\ offer[i] \in OfferType
  BY <1>1, UnderReply
<1>3. CASE ConfirmMarks(s) \/ CancelMarks(s)
  <2>1. PICK status \in {"CONFIRMED", "CANCELED"} :
           /\ offer' = [offer EXCEPT ![i].status = status]
           /\ handler[s].pc = "confirm" <=> status = "CONFIRMED"
    BY <1>3 DEF ConfirmMarks, CancelMarks, SlotAt
  <2>. DEFINE o == [offer[i] EXCEPT !.status = status]
  <2>2. Serves(s, Vacant)
    BY <1>3 DEF ConfirmMarks, CancelMarks, Replied, AfterReply, SlotAt
  <2>3. offer' = [offer EXCEPT ![i] = o]
    BY <1>2, <2>1 DEF Offered, OffersTyped
  <2>4. /\ o \in OfferType /\ o.contested = offer[i].contested /\ o.saved = offer[i].saved
        /\ o.status = status
    BY <1>2 DEF OfferType
  <2>. HIDE DEF o
  <2>. QED
    BY <1>1, <2>1, <2>2, <2>3, <2>4, OfferedEnds
<1>4. CASE ReplyFails(s)
  <2>. DEFINE o == [offer[i] EXCEPT !.contested = TRUE]
  <2>1. Serves(s, Vacant) /\ offer' = [offer EXCEPT ![i] = o]
    BY <1>2, <1>4 DEF ReplyFails, Offered, OffersTyped
  <2>2. o \in OfferType /\ o.contested
    BY <1>2 DEF OfferType
  <2>. HIDE DEF o
  <2>. QED
    BY <1>1, <2>1, <2>2, OfferedEnds
<1>. QED
  BY <1>3, <1>4

\* New offers take free numbers, and nobody replies to them yet.
LEMMA OfferedNew ==
    ASSUME Served, Offered, handler' = handler, NEW wanted \in SUBSET Jobs,
           CreateSaveJobActions(wanted)
    PROVE  Offered'
<1>1. /\ offer' \in [Offers -> OfferType \cup {Absent}]
      /\ \A i \in Offers : \/ offer'[i] = offer[i]
                           \/ offer[i] = Absent /\ \E j \in Jobs : offer'[i] = NewOffer(j)
  <2>1. PICK number \in [wanted -> Unused] :
           offer' = [i \in Offers |->
               IF \E j \in wanted : number[j] = i
               THEN NewOffer(CHOOSE j \in wanted : number[j] = i) ELSE offer[i]]
    BY DEF CreateSaveJobActions
  <2>2. ASSUME NEW i \in Offers
        PROVE  /\ offer'[i] \in OfferType \cup {Absent}
               /\ \/ offer'[i] = offer[i]
                  \/ offer[i] = Absent /\ \E j \in Jobs : offer'[i] = NewOffer(j)
    <3>1. CASE \E j \in wanted : number[j] = i
      <4>. DEFINE k == CHOOSE j \in wanted : number[j] = i
      <4>1. k \in wanted /\ number[k] = i
        BY <3>1
      <4>2. offer'[i] = NewOffer(k)
        BY <2>1, <3>1
      <4>. HIDE DEF k
      <4>3. offer[i] = Absent /\ k \in Jobs
        BY <4>1 DEF Unused
      <4>4. NewOffer(k) \in OfferType
        BY <4>3 DEF NewOffer, OfferType
      <4>. QED
        BY <4>2, <4>3, <4>4
    <3>2. CASE ~\E j \in wanted : number[j] = i
      BY <2>1, <3>2 DEF Offered, OffersTyped
    <3>. QED
      BY <3>1, <3>2
  <2>. QED
    BY <2>1, <2>2
<1>2. Absent \notin OfferType
  BY OffersArePresent DEF OfferType
<1>3. ASSUME NEW s \in Slots, handler[s].pc \in Replying
      PROVE  /\ handler[s].to \in Offers /\ offer[handler[s].to] \in OfferType
             /\ offer'[handler[s].to] = offer[handler[s].to]
  BY <1>1, <1>2, <1>3, UnderReply
<1>4. \A i \in Offers : Replies(i)' = Replies(i)
  BY DEF Replies
<1>5. ASSUME NEW i \in Offers
      PROVE  Honest(i)'
  <2>1. CASE offer'[i] = offer[i]
    BY <1>4, <1>5, <2>1 DEF Offered, Honest
  <2>2. ASSUME offer[i] = Absent, NEW j \in Jobs, offer'[i] = NewOffer(j)
        PROVE  Honest(i)'
    <3>1. Replies(i)' = {}
      BY <1>2, <1>3, <1>4, <2>2 DEF Replies, Replying
    <3>. QED
      BY <2>2, <3>1 DEF Honest, NewOffer
  <2>. QED
    BY <1>1, <2>1, <2>2
<1>. QED
  BY <1>1, <1>3, <1>5 DEF Offered, OffersTyped

LEMMA OfferedExpires ==
    ASSUME Served, Offered, NEW i \in Offers, OfferExpires(i)
    PROVE  Offered'
<1>. DEFINE o == [offer[i] EXCEPT !.late = TRUE]
<1>1. /\ offer[i] \in OfferType /\ offer' = [offer EXCEPT ![i] = o] /\ handler' = handler
  BY DEF OfferExpires, Offered, OffersTyped, account
<1>2. /\ o \in OfferType /\ o.contested = offer[i].contested /\ o.saved = offer[i].saved
      /\ o.status = offer[i].status
  BY <1>1 DEF OfferType
<1>. HIDE DEF o
<1>3. offer'[i] = o /\ \A k \in Offers \ {i} : offer'[k] = offer[k]
  BY <1>1 DEF Offered, OffersTyped
<1>4. \A k \in Offers : Replies(k)' = Replies(k)
  BY <1>1 DEF Replies
<1>5. offer[i] # Absent
  BY <1>1, OffersArePresent DEF OfferType
<1>6. \A k \in Offers : Honest(k)'
  BY <1>1, <1>2, <1>3, <1>4, <1>5 DEF Offered, Honest
<1>7. ASSUME NEW s \in Slots, handler'[s].pc \in Replying
      PROVE  offer'[handler'[s].to] \in OfferType
  <2>1. handler[s].to \in Offers /\ offer[handler[s].to] \in OfferType
    BY <1>1, <1>7, UnderReply
  <2>. QED
    BY <1>1, <1>2, <1>3, <2>1
<1>8. OffersTyped'
  BY <1>1, <1>2 DEF Offered, OffersTyped
<1>. QED
  BY <1>6, <1>7, <1>8 DEF Offered

\* The slots of the writers are not those of replies.
LEMMA OfferedWriters ==
    ASSUME Person, Served, Offered, offer' = offer,
           \/ UserSteps \/ CvSteps \/ SaveFromPage
           \/ \E s \in Slots : ClearContext(s)
    PROVE  Offered'
<1>1. \A s \in Slots : s \in Writers \/ SlotAt(s, "idle") => handler[s].pc \notin Replying
  BY DEF Writers, SlotAt, Replying
<1>2. ASSUME NEW s \in Slots, UpdateUser(s) \/ UpsertCv(s)
      PROVE  Offered'
  <2>1. SlotAt(s, "idle")
    BY <1>2, Beginning
  <2>2. PICK r \in UserWriterType \cup CvWriterType : BeginsWriting(s, r)
    BY <1>2, Beginning
  <2>3. /\ Writers' = Writers \cup {s}
        /\ \A x \in Slots \ {s} : x \notin Writers => handler'[x] = handler[x]
    BY <2>1, <2>2, Begun
  <2>4. \A x \in Writers' : handler'[x].pc \notin Replying
    BY DEF Writers, Replying
  <2>. QED
    BY <1>1, <2>1, <2>3, <2>4, OfferedStays
<1>3. ASSUME NEW s \in Slots, NEW r, Serves(s, r), s \in Writers, r.pc \notin Replying
      PROVE  Offered'
  <2>1. handler'[s] = r /\ \A x \in Slots \ {s} : handler'[x] = handler[x]
    BY <1>3, Passed DEF Served
  <2>. QED
    BY <1>1, <1>3, <2>1, OfferedStays
<1>4. ASSUME NEW s \in Slots, SyncCvIdentityFromUser(s) \/ WriteRefused(s) \/ WriterFails(s)
      PROVE  Offered'
  <2>1. Serves(s, Vacant) /\ s \in Writers
    BY <1>4 DEF SyncCvIdentityFromUser, WriteRefused, UserRemoved, CvChanged, WriterFails,
        SlotAt, Writers
  <2>2. Vacant.pc \notin Replying
    BY VacantSlot DEF Replying
  <2>. QED
    BY <1>3, <2>1, <2>2
<1>5. ASSUME NEW s \in Slots, WriteUser(s)
      PROVE  Offered'
  <2>. DEFINE r == [handler[s] EXCEPT !.pc = "sync-cv", !.role = Absent, !.company = Absent]
  <2>1. Serves(s, r) /\ handler[s].pc = "write-user" /\ s \in Writers
    BY <1>5 DEF WriteUser, SlotAt, Writers
  <2>2. handler[s] \in UserWriterType
    BY <2>1, SlotFields DEF Served
  <2>3. r.pc \notin Replying
    BY <2>2 DEF UserWriterType, Replying
  <2>. QED
    BY <1>3, <2>1, <2>3
<1>6. ASSUME NEW s \in Slots, NEW r \in CvWriterType, Proceeds(s, r), s \in Writers
      PROVE  Offered'
  <2>1. CASE After(r.pc) = "idle"
    <3>1. Serves(s, Vacant) /\ Vacant.pc \notin Replying
      BY <1>6, <2>1, VacantSlot DEF Proceeds, Replying
    <3>. QED
      BY <1>3, <1>6, <3>1
  <2>2. CASE After(r.pc) # "idle"
    <3>. DEFINE pc == After(r.pc)
                g == [r EXCEPT !.pc = pc]
    <3>1. Serves(s, g)
      BY <1>6, <2>2 DEF Proceeds
    <3>2. pc \notin Replying
      BY DEF After, Replying, CvWriterType
    <3>. HIDE DEF pc
    <3>3. g.pc = pc
      BY DEF CvWriterType
    <3>. HIDE DEF g
    <3>. QED
      BY <1>3, <1>6, <3>1, <3>2, <3>3
  <2>. QED
    BY <2>1, <2>2
<1>7. ASSUME NEW s \in Slots, \/ BuildCanonicalCv(s) \/ CreateCv(s) \/ UpdateCv(s)
                             \/ SyncUserIdentityFromCv(s) \/ ClearContext(s)
      PROVE  \E r \in CvWriterType : Proceeds(s, r) /\ s \in Writers
  <2>1. s \in Writers /\ handler[s] \in CvWriterType
    BY <1>7, SlotFields
    DEF BuildCanonicalCv, CreateCv, UpdateCv, SyncUserIdentityFromCv, ClearContext, SlotAt,
        Writers, Served
  <2>2. CASE BuildCanonicalCv(s)
    <3>. DEFINE existing == IF cv = Absent THEN Absent ELSE cv.avatar
                picture == CanonicalAvatar(handler[s].avatar, existing, handler[s].account)
                exists == (cv # Absent)
                r == [handler[s] EXCEPT !.exists = exists, !.account = Absent,
                                        !.avatar = picture]
    <3>1. Proceeds(s, r)
      BY <2>2 DEF BuildCanonicalCv
    <3>2. existing \in Pictures /\ exists \in BOOLEAN
      BY DEF Person, CvType, Pictures
    <3>3. picture \in Pictures
      BY <2>1, <3>2, OrTyped DEF CanonicalAvatar, CvWriterType
    <3>. HIDE DEF exists, picture
    <3>4. r \in CvWriterType
      BY <2>1, <3>2, <3>3 DEF CvWriterType, Pictures
    <3>. QED
      BY <2>1, <3>1, <3>4
  <2>3. CASE CreateCv(s) \/ UpdateCv(s)
    <3>1. /\ Proceeds(s, [handler[s] EXCEPT !.stored = edition + 1])
          /\ [handler[s] EXCEPT !.stored = edition + 1] \in CvWriterType
      BY <2>1, <2>3 DEF CreateCv, UpdateCv, StoresCv, CvWriterType, Person
    <3>. QED
      BY <2>1, <3>1
  <2>4. CASE SyncUserIdentityFromCv(s) \/ ClearContext(s)
    BY <2>1, <2>4 DEF SyncUserIdentityFromCv, ClearContext
  <2>. QED
    BY <1>7, <2>2, <2>3, <2>4
<1>8. CASE handler' = handler
  BY <1>8, OfferedStays
<1>. QED
  BY <1>2, <1>4, <1>5, <1>6, <1>7, <1>8
  DEF UserSteps, CvSteps, SaveFromPage, RemoveUser, UnsaveJob, DeleteCv, DeactivateCv,
      ActivateCv, SetCvActive

-----------------------------------------------------------------------------
(* What is known of a turn at each step, and the records it has left       *)

ContextType == [of : Nat, jobs : SUBSET Jobs]

Modes == {"message", "stream"}
Once == {0, 1}

\* The steps before a turn has left a record.
Unrecorded == {"unasked", "context", "profile", "match", "provide", "answer", "persist",
               "persist-cached", "record"}

ExchangeType ==
        [pc : Unrecorded \cup {"cache-answer", "ok", "failing", "failed"},
         mode : Modes \cup {Absent}, intent : Intents \cup {Absent}, saved : SUBSET Jobs,
         since : Nat, read : ContextType \cup {Absent}, context : ContextType \cup {Absent},
         repeated : BOOLEAN, stale : BOOLEAN, right : Once, wrong : Once, lost : BOOLEAN]

\* Success is recorded once, before a stream's answer is cached and after a message's;
\* a turn that fails after it was recorded is a stream that caches its answer.
Recorded(r) ==
    /\ r.pc \in Unrecorded => r.right = 0
    /\ r.pc = "cache-answer" => 
          IF r.mode = "message" THEN r.right = 0 ELSE r.right = 1 \/ r.lost
    /\ r.pc = "ok" => r.right = 1 \/ r.lost
    /\ r.pc \in {"failing", "failed"} /\ r.right = 1 => r.mode = "stream" /\ r.intent = "FAQ"
    /\ IF r.pc = "failed" THEN r.wrong = 1 \/ r.lost ELSE r.wrong = 0

\* A turn that was let in has an intent; it has read the CV before it needs it.
Fits(r) ==
    /\ r \in ExchangeType
    /\ r.pc \notin {"unasked", "failing", "failed"} => r.mode \in Modes /\ r.intent \in Intents
    /\ r.pc \in {"match", "provide"} => r.read \in ContextType
    /\ IF r.pc = "answer" THEN r.context \in ContextType ELSE r.context = Absent
    /\ Recorded(r)

Exchanged == exchange \in [Turns -> ExchangeType] /\ \A t \in Turns : Fits(exchange[t])

Cached ==
    /\ gone \subseteq Jobs
    /\ chatContext \in ContextType \cup {Absent}
    /\ contexts \in [Intents -> ContextType \cup {Absent}]
    /\ faq \in {Absent, "own", "another's"}
    /\ raced \in BOOLEAN

LEMMA OnceOrNot == 0 \in Once /\ 1 \in Once /\ \A n \in Once : n = 0 \/ n = 1
BY DEF Once

LEMMA TurnMoves ==
    ASSUME Exchanged, NEW t \in Turns, NEW r, Turned(t, r)
    PROVE  /\ exchange'[t] = r /\ \A x \in Turns \ {t} : exchange'[x] = exchange[x]
           /\ Fits(r) => Exchanged'
<1>1. exchange'[t] = r /\ \A x \in Turns \ {t} : exchange'[x] = exchange[x]
  BY DEF Exchanged, Turned
<1>2. ASSUME Fits(r)
      PROVE  Exchanged'
  <2>1. r \in ExchangeType
    BY <1>2 DEF Fits
  <2>2. exchange' \in [Turns -> ExchangeType]
    BY <2>1 DEF Exchanged, Turned
  <2>3. ASSUME NEW x \in Turns
        PROVE  Fits(exchange'[x])
    <3>1. CASE x = t
      BY <1>1, <1>2, <3>1
    <3>2. CASE x # t
      <4>1. exchange'[x] = exchange[x]
        BY <1>1, <3>2
      <4>2. Fits(exchange[x])
        BY DEF Exchanged
      <4>. QED
        BY <4>1, <4>2
    <3>. QED
      BY <3>1, <3>2
  <2>. QED
    BY <2>2, <2>3 DEF Exchanged
<1>. QED
  BY <1>1, <1>2

\* A step that only moves the turn on.
LEMMA TurnGoes ==
    ASSUME Exchanged, NEW t \in Turns, NEW pc, TurnTo(t, pc)
    PROVE  Turned(t, [exchange[t] EXCEPT !.pc = pc])
BY DEF TurnTo, Turned, Exchanged

LEMMA UnaskedFits == Fits(Unasked)
BY OnceOrNot DEF Unasked, Fits, ExchangeType, Recorded, Unrecorded

LEMMA SettledFields ==
    ASSUME NEW r \in ExchangeType, NEW pc \in Unrecorded \cup {"failing"}
    PROVE  LET q == Settled(r, pc) IN
           /\ q \in ExchangeType /\ q.pc = pc /\ q.mode = r.mode /\ q.intent = r.intent
           /\ q.right = r.right /\ q.wrong = 0 /\ q.context = Absent /\ q.since = 0
BY OnceOrNot DEF Settled, Unasked, ExchangeType

\* A turn is over with what it has drawn from.
LEMMA SettledFits ==
    ASSUME NEW r, Fits(r), NEW pc \in {"persist", "persist-cached", "failing"},
           \/ r.pc \in Unrecorded \ {"unasked"}
           \/ pc = "failing" /\ r.pc = "cache-answer" /\ r.intent = "FAQ"
    PROVE  Fits(Settled(r, pc))
<1>. DEFINE q == Settled(r, pc)
<1>1. r \in ExchangeType /\ r.mode \in Modes /\ r.intent \in Intents
  BY DEF Fits, Unrecorded
<1>2. /\ q \in ExchangeType /\ q.pc = pc /\ q.mode = r.mode /\ q.intent = r.intent
      /\ q.right = r.right /\ q.wrong = 0 /\ q.context = Absent
  BY <1>1, SettledFields DEF Unrecorded
<1>3. q.right = 0 \/ (pc = "failing" /\ q.mode = "stream" /\ q.intent = "FAQ")
  BY <1>1, <1>2 DEF Fits, Recorded, Modes, ExchangeType
<1>. HIDE DEF q
<1>4. Recorded(q)
  BY <1>2, <1>3 DEF Recorded, Unrecorded
<1>5. Fits(q)
  BY <1>1, <1>2, <1>4 DEF Fits
<1>. QED
  BY <1>5 DEF q

-----------------------------------------------------------------------------
(* What a turn draws its answer from                                       *)

\* What a turn has read of the CV is as new as the upserts that had ended when it was
\* asked; what it is about to store, as those that have ended by now.
Drawn(r, ended, old) ==
    /\ r.since <= ended
    /\ r.pc = "match" => r.read.of >= ended \/ old
    /\ r.pc \in {"match", "provide"} => r.read.of >= r.since \/ r.stale
    /\ r.context # Absent => r.context.of >= r.since \/ r.repeated \/ r.stale

Summary == chatContext # Absent => chatContext.of >= announced \/ raced

Fresh == Summary /\ \A t \in Turns : Drawn(exchange[t], announced, raced)

\* A step of a turn that keeps all of this.
Advances(t) ==
    /\ \E r : Turned(t, r) /\ Fits(r) /\ Drawn(r, announced, raced')
    /\ Cached' /\ Summary'

\* A turn moves on and draws nothing.
LEMMA Onwards ==
    ASSUME Person, Exchanged, Cached, Fresh, NEW t \in Turns, NEW r, Turned(t, r), Fits(r),
           r.since = exchange[t].since \/ r.since = 0, r.context = Absent,
           r.pc \notin {"match", "provide"}, raced' = raced,
           Cached', chatContext' = chatContext, announced' = announced
    PROVE  Advances(t)
<1>1. Drawn(r, announced, raced')
  <2>1. announced \in Nat /\ exchange[t].since <= announced
    BY DEF Person, Fresh, Drawn
  <2>2. r.since <= announced
    BY <2>1
  <2>. QED
    BY <2>2 DEF Drawn
<1>2. Summary'
  BY DEF Fresh, Summary
<1>. QED
  BY <1>1, <1>2 DEF Advances

LEMMA AdvanceAsk ==
    ASSUME Person, Exchanged, Cached, Fresh, NEW t \in Turns, Ask(t) \/ AskRefused(t)
    PROVE  Advances(t)
<1>1. /\ UNCHANGED <<account, chatContext, gone, contexts, faq, raced>>
      /\ exchange[t].pc = "unasked" /\ Fits(exchange[t]) /\ exchange[t] \in ExchangeType
  BY DEF Ask, AskRefused, TurnAt, Exchanged
<1>2. Cached' /\ announced' = announced
  BY <1>1 DEF Cached, account
<1>3. CASE Ask(t)
  <2>0. PICK mode \in Modes : \E intent \in DetectIntent(mode) :
           Turned(t, [Unasked EXCEPT !.pc = "context", !.mode = mode, !.intent = intent,
                                     !.saved = user.saved, !.since = announced])
    BY <1>3 DEF Ask, Modes
  <2>1. PICK intent \in DetectIntent(mode) :
           Turned(t, [Unasked EXCEPT !.pc = "context", !.mode = mode, !.intent = intent,
                                     !.saved = user.saved, !.since = announced])
    BY <2>0
  <2>. DEFINE r == [Unasked EXCEPT !.pc = "context", !.mode = mode, !.intent = intent,
                                   !.saved = user.saved, !.since = announced]
  <2>2. intent \in Intents
    BY <2>1 DEF DetectIntent, DetectDeterministicIntent, DetectIntentWithAi
  <2>3. user.saved \in SUBSET Jobs /\ announced \in Nat
    BY DEF Person, UserType
  <2>4. /\ r \in ExchangeType /\ r.pc = "context" /\ r.mode \in Modes /\ r.intent \in Intents
        /\ r.context = Absent /\ r.right = 0 /\ r.wrong = 0 /\ r.since = announced
    BY <2>2, <2>3, OnceOrNot DEF Unasked, ExchangeType, Unrecorded, Modes
  <2>. HIDE DEF r
  <2>5. Fits(r)
    BY <2>4 DEF Fits, Recorded, Unrecorded
  <2>6. Drawn(r, announced, raced')
    BY <2>3, <2>4 DEF Drawn
  <2>7. Summary'
    BY <1>1, <1>2 DEF Fresh, Summary
  <2>. QED
    BY <1>2, <2>1, <2>5, <2>6, <2>7 DEF Advances, r
<1>4. CASE AskRefused(t)
  <2>. DEFINE r == [exchange[t] EXCEPT !.pc = "failing"]
  <2>1. Turned(t, r)
    BY <1>4, TurnGoes DEF AskRefused
  <2>2. /\ r \in ExchangeType /\ r.pc = "failing" /\ r.context = exchange[t].context
        /\ r.right = exchange[t].right /\ r.wrong = exchange[t].wrong
        /\ r.since = exchange[t].since
    BY <1>1 DEF ExchangeType
  <2>. HIDE DEF r
  <2>3. Fits(r) /\ r.context = Absent
    BY <1>1, <2>2 DEF Fits, Recorded, Unrecorded
  <2>. QED
    BY <1>1, <1>2, <2>1, <2>2, <2>3, Onwards
<1>. QED
  BY <1>3, <1>4

LEMMA AdvanceContext ==
    ASSUME Person, Exchanged, Cached, Fresh, NEW t \in Turns, GetContext(t)
    PROVE  Advances(t)
<1>. DEFINE cached == contexts[exchange[t].intent]
<1>1. /\ UNCHANGED <<account, chatContext, gone, contexts, faq, raced>>
      /\ exchange[t].pc = "context" /\ Fits(exchange[t]) /\ exchange[t] \in ExchangeType
  BY DEF GetContext, TurnAt, Exchanged
<1>2. Cached' /\ announced' = announced
  BY <1>1 DEF Cached, account
<1>3. cached \in ContextType \cup {Absent}
  BY <1>1 DEF Fits, Cached
<1>4. /\ cached = Absent => Turned(t, [exchange[t] EXCEPT !.pc = "profile"])
      /\ cached # Absent => Turned(t, [exchange[t] EXCEPT !.pc = "answer",
                                          !.context = cached, !.repeated = TRUE])
  BY DEF GetContext
<1>. HIDE DEF cached
<1>5. CASE cached = Absent
  <2>. DEFINE r == [exchange[t] EXCEPT !.pc = "profile"]
  <2>1. /\ r \in ExchangeType /\ r.pc = "profile" /\ r.context = exchange[t].context
        /\ r.right = exchange[t].right /\ r.wrong = exchange[t].wrong
        /\ r.since = exchange[t].since /\ r.mode = exchange[t].mode
        /\ r.intent = exchange[t].intent
    BY <1>1 DEF ExchangeType, Unrecorded
  <2>2. Turned(t, r)
    BY <1>4, <1>5
  <2>. HIDE DEF r
  <2>3. Fits(r) /\ r.context = Absent
    BY <1>1, <2>1 DEF Fits, Recorded, Unrecorded
  <2>. QED
    BY <1>1, <1>2, <2>1, <2>2, <2>3, Onwards
<1>6. CASE cached # Absent
  <2>. DEFINE r == [exchange[t] EXCEPT !.pc = "answer", !.context = cached,
                                       !.repeated = TRUE]
  <2>1. /\ r \in ExchangeType /\ r.pc = "answer" /\ r.context = cached /\ r.repeated
        /\ r.right = exchange[t].right /\ r.wrong = exchange[t].wrong
        /\ r.since = exchange[t].since /\ r.mode = exchange[t].mode
        /\ r.intent = exchange[t].intent
    BY <1>1, <1>3 DEF ExchangeType, Unrecorded
  <2>2. Turned(t, r)
    BY <1>4, <1>6
  <2>. HIDE DEF r
  <2>3. Fits(r)
    BY <1>1, <1>3, <1>6, <2>1 DEF Fits, Recorded, Unrecorded
  <2>4. Drawn(r, announced, raced')
    BY <2>1 DEF Drawn, Fresh
  <2>5. Summary'
    BY <1>1, <1>2 DEF Fresh, Summary
  <2>. QED
    BY <1>2, <2>2, <2>3, <2>4, <2>5 DEF Advances
<1>. QED
  BY <1>5, <1>6

LEMMA AdvanceRead ==
    ASSUME Person, Exchanged, Cached, Fresh, NEW t \in Turns,
           GetUserContext(t) \/ CvUnread(t)
    PROVE  Advances(t)
<1>1. /\ UNCHANGED <<account, chatContext, gone, contexts, faq>>
      /\ exchange[t].pc = "profile" /\ Fits(exchange[t]) /\ exchange[t] \in ExchangeType
      /\ raced' = raced \/ raced' = TRUE
  BY DEF GetUserContext, CvUnread, TurnAt, Exchanged
<1>2. Cached' /\ announced' = announced
  BY <1>1 DEF Cached, account
<1>3. Summary'
  BY <1>1, <1>2 DEF Fresh, Summary
<1>4. /\ exchange[t].since \in Nat /\ announced \in Nat /\ edition \in Nat
      /\ exchange[t].since <= announced /\ announced <= edition
  BY <1>1 DEF Fresh, Drawn, ExchangeType, Person
<1>5. ASSUME NEW pc \in {"match", "provide"}, NEW read \in ContextType, NEW stale \in BOOLEAN,
             Turned(t, [exchange[t] EXCEPT !.pc = pc, !.read = read, !.stale = stale]),
             pc = "match" => read.of >= announced \/ raced',
             read.of >= exchange[t].since \/ stale
      PROVE  Advances(t)
  <2>. DEFINE r == [exchange[t] EXCEPT !.pc = pc, !.read = read, !.stale = stale]
  <2>1. /\ r \in ExchangeType /\ r.pc = pc /\ r.read = read /\ r.stale = stale
        /\ r.right = exchange[t].right /\ r.wrong = exchange[t].wrong
        /\ r.since = exchange[t].since /\ r.mode = exchange[t].mode
        /\ r.intent = exchange[t].intent /\ r.context = exchange[t].context
    BY <1>1 DEF ExchangeType, Unrecorded
  <2>2. Turned(t, r)
    BY <1>5
  <2>. HIDE DEF r
  <2>3. Fits(r) /\ r.context = Absent
    BY <1>1, <2>1 DEF Fits, Recorded, Unrecorded
  <2>4. Drawn(r, announced, raced')
    BY <1>4, <1>5, <2>1, <2>3 DEF Drawn
  <2>. QED
    BY <1>2, <1>3, <2>2, <2>3, <2>4 DEF Advances
<1>6. CASE GetUserContext(t) /\ chatContext = Absent
  <2>. DEFINE read == [of |-> edition, jobs |-> FindMatchingJobs]
              stale == exchange[t].stale
              r == [exchange[t] EXCEPT !.pc = "match", !.read = read]
  <2>1. Turned(t, r)
    BY <1>6 DEF GetUserContext
  <2>2. read \in ContextType /\ read.of = edition
    BY <1>4 DEF FindMatchingJobs, ContextType
  <2>. HIDE DEF read
  <2>3. r = [exchange[t] EXCEPT !.pc = "match", !.read = read, !.stale = stale]
    BY <1>1 DEF ExchangeType
  <2>4. stale \in BOOLEAN
    BY <1>1 DEF ExchangeType
  <2>. HIDE DEF stale, r
  <2>5. read.of >= announced /\ read.of >= exchange[t].since
    BY <1>4, <2>2
  <2>. QED
    BY <1>5, <2>1, <2>2, <2>3, <2>4, <2>5
<1>7. CASE GetUserContext(t) /\ chatContext # Absent
  <2>1. /\ Turned(t, [exchange[t] EXCEPT !.pc = "provide", !.read = chatContext,
                                         !.stale = raced])
        /\ raced' = raced
    BY <1>7 DEF GetUserContext
  <2>2. chatContext \in ContextType /\ raced \in BOOLEAN /\ chatContext.of \in Nat
    BY <1>7 DEF Cached, ContextType
  <2>3. chatContext.of >= exchange[t].since \/ raced
    BY <1>4, <1>7, <2>2 DEF Fresh, Summary
  <2>. QED
    BY <1>5, <2>1, <2>2, <2>3
<1>8. CASE CvUnread(t)
  <2>1. /\ Turned(t, [exchange[t] EXCEPT !.pc = "match", !.read = NothingKnown,
                                         !.stale = TRUE])
        /\ raced'
    BY <1>8 DEF CvUnread
  <2>2. NothingKnown \in ContextType
    BY DEF NothingKnown, ContextType
  <2>. QED
    BY <1>5, <2>1, <2>2
<1>. QED
  BY <1>6, <1>7, <1>8

LEMMA AdvanceSummary ==
    ASSUME Person, Exchanged, Cached, Fresh, NEW t \in Turns,
           CacheUserContext(t) \/ UserContextFails(t)
    PROVE  Advances(t)
<1>1. /\ UNCHANGED <<account, gone, contexts, faq, raced>>
      /\ exchange[t].pc = "match" /\ Fits(exchange[t]) /\ exchange[t] \in ExchangeType
      /\ exchange[t].read \in ContextType /\ exchange[t].context = Absent
  BY DEF CacheUserContext, UserContextFails, TurnAt, Exchanged, Fits
<1>2. announced' = announced /\ Drawn(exchange[t], announced, raced)
  BY <1>1 DEF Fresh, account
<1>3. CASE CacheUserContext(t)
  <2>. DEFINE r == [exchange[t] EXCEPT !.pc = "provide"]
  <2>1. Turned(t, r) /\ chatContext' = exchange[t].read
    BY <1>3, TurnGoes DEF CacheUserContext
  <2>2. /\ r \in ExchangeType /\ r.pc = "provide" /\ r.read = exchange[t].read
        /\ r.stale = exchange[t].stale
        /\ r.right = exchange[t].right /\ r.wrong = exchange[t].wrong
        /\ r.since = exchange[t].since /\ r.mode = exchange[t].mode
        /\ r.intent = exchange[t].intent /\ r.context = exchange[t].context
    BY <1>1 DEF ExchangeType, Unrecorded
  <2>. HIDE DEF r
  <2>3. Fits(r)
    BY <1>1, <2>2 DEF Fits, Recorded, Unrecorded
  <2>4. Drawn(r, announced, raced')
    BY <1>1, <1>2, <2>2 DEF Drawn
  <2>5. Cached' /\ Summary'
    BY <1>1, <1>2, <2>1 DEF Cached, Summary, Drawn
  <2>. QED
    BY <2>1, <2>3, <2>4, <2>5 DEF Advances
<1>4. CASE UserContextFails(t)
  <2>. DEFINE r == [exchange[t] EXCEPT !.pc = "provide", !.read = NothingKnown,
                                       !.stale = TRUE]
  <2>1. Turned(t, r) /\ chatContext' = chatContext
    BY <1>4 DEF UserContextFails
  <2>2. NothingKnown \in ContextType
    BY DEF NothingKnown, ContextType
  <2>3. /\ r \in ExchangeType /\ r.pc = "provide" /\ r.read = NothingKnown /\ r.stale
        /\ r.right = exchange[t].right /\ r.wrong = exchange[t].wrong
        /\ r.since = exchange[t].since /\ r.mode = exchange[t].mode
        /\ r.intent = exchange[t].intent /\ r.context = exchange[t].context
    BY <1>1, <2>2 DEF ExchangeType, Unrecorded
  <2>. HIDE DEF r
  <2>4. Fits(r)
    BY <1>1, <2>2, <2>3 DEF Fits, Recorded, Unrecorded
  <2>5. Drawn(r, announced, raced')
    BY <1>1, <1>2, <2>3 DEF Drawn
  <2>6. Cached' /\ Summary'
    BY <1>1, <1>2, <2>1 DEF Cached, Summary, Fresh
  <2>. QED
    BY <2>1, <2>4, <2>5, <2>6 DEF Advances
<1>. QED
  BY <1>3, <1>4

\* A provider puts postings into the context, and nothing else.
LEMMA ContextHolds ==
    ASSUME NEW intent, NEW matching \in SUBSET Jobs, NEW found \in ContextJobs(intent, matching)
    PROVE  found \in SUBSET Jobs
BY DEF ContextJobs, JobSearchContext, CompanyContext, CvReviewContext, JobMatchingContext,
       FaqContext, GeneralContext, BuildQueryAwareContext, SearchJobs, ResolveSelectedJob

LEMMA AdvanceBuild ==
    ASSUME Person, Exchanged, Cached, Fresh, NEW t \in Turns, BuildContext(t)
    PROVE  Advances(t)
<1>1. /\ UNCHANGED <<account, chatContext, gone, faq, raced>>
      /\ exchange[t].pc = "provide" /\ Fits(exchange[t]) /\ exchange[t] \in ExchangeType
      /\ exchange[t].read \in ContextType /\ exchange[t].intent \in Intents
  BY DEF BuildContext, TurnAt, Exchanged, Fits
<1>2. announced' = announced /\ Drawn(exchange[t], announced, raced)
  BY <1>1 DEF Fresh, account
<1>3. PICK found \in ContextJobs(exchange[t].intent, exchange[t].read.jobs) :
         LET c == [of |-> exchange[t].read.of, jobs |-> found] IN
         /\ Turned(t, [exchange[t] EXCEPT !.pc = "answer", !.read = Absent, !.context = c])
         /\ contexts' = [contexts EXCEPT ![exchange[t].intent] = c]
  BY DEF BuildContext
<1>. DEFINE c == [of |-> exchange[t].read.of, jobs |-> found]
            r == [exchange[t] EXCEPT !.pc = "answer", !.read = Absent, !.context = c]
<1>4. /\ Turned(t, r) /\ contexts' = [contexts EXCEPT ![exchange[t].intent] = c]
  BY <1>3
<1>5. exchange[t].read.jobs \in SUBSET Jobs /\ exchange[t].read.of \in Nat
  BY <1>1 DEF ContextType
<1>6. found \in SUBSET Jobs
  BY <1>3, <1>5, ContextHolds
<1>7. c \in ContextType /\ c.of = exchange[t].read.of
  BY <1>5, <1>6 DEF ContextType
<1>. HIDE DEF c
<1>8. /\ r \in ExchangeType /\ r.pc = "answer" /\ r.context = c /\ r.stale = exchange[t].stale
      /\ r.right = exchange[t].right /\ r.wrong = exchange[t].wrong
      /\ r.since = exchange[t].since /\ r.mode = exchange[t].mode
      /\ r.intent = exchange[t].intent
  BY <1>1, <1>7 DEF ExchangeType, Unrecorded
<1>. HIDE DEF r
<1>9. Fits(r)
  BY <1>1, <1>7, <1>8 DEF Fits, Recorded, Unrecorded
<1>10. Drawn(r, announced, raced')
  BY <1>1, <1>2, <1>7, <1>8 DEF Drawn
<1>11. Cached' /\ Summary'
  BY <1>1, <1>2, <1>4, <1>7 DEF Cached, Summary, Fresh
<1>. QED
  BY <1>4, <1>9, <1>10, <1>11 DEF Advances

\* The turn ends without another look at what it has drawn from.
LEMMA AdvanceSettles ==
    ASSUME Person, Exchanged, Cached, Fresh, NEW t \in Turns,
           AnswerFaq(t) \/ Generate(t) \/ TurnFails(t)
    PROVE  Advances(t)
<1>1. /\ UNCHANGED <<account, chatContext, gone, contexts, faq, raced>>
      /\ Fits(exchange[t]) /\ exchange[t] \in ExchangeType
  BY DEF AnswerFaq, Generate, TurnFails, Exchanged
<1>2. Cached' /\ announced' = announced
  BY <1>1 DEF Cached, account
<1>3. PICK pc \in {"persist", "persist-cached", "failing"} :
         /\ Turned(t, Settled(exchange[t], pc))
         /\ \/ exchange[t].pc \in Unrecorded \ {"unasked"}
            \/ /\ pc = "failing" /\ exchange[t].pc = "cache-answer"
               /\ exchange[t].intent = "FAQ"
  BY DEF AnswerFaq, Generate, TurnFails, TurnAt, Unrecorded
<1>. DEFINE r == Settled(exchange[t], pc)
<1>4. Fits(r)
  BY <1>1, <1>3, SettledFits
<1>5. r.pc = pc /\ r.since = 0 /\ r.context = Absent
  BY <1>1, SettledFields DEF Unrecorded
<1>. HIDE DEF r
<1>6. Turned(t, r)
  BY <1>3 DEF r
<1>. QED
  BY <1>1, <1>2, <1>4, <1>5, <1>6, Onwards

\* What is left of it once the answer is there.
LEMMA AdvanceEnds ==
    ASSUME Person, Exchanged, Cached, Fresh, NEW t \in Turns,
           \/ PersistMessageTurn(t) \/ CacheFaqResponse(t) \/ RecordUsage(t)
           \/ RecordCached(t) \/ RecordLost(t) \/ RecordFailure(t)
    PROVE  Advances(t)
<1>1. /\ UNCHANGED <<account, chatContext, gone, contexts, raced>>
      /\ faq' = faq \/ faq' = "own"
      /\ Fits(exchange[t]) /\ exchange[t] \in ExchangeType
  BY DEF PersistMessageTurn, CacheFaqResponse, RecordUsage, RecordCached, RecordLost,
         RecordFailure, Exchanged
<1>2. Cached' /\ announced' = announced /\ chatContext' = chatContext /\ raced' = raced
  BY <1>1 DEF Cached, account
<1>3. ASSUME NEW r \in ExchangeType, Turned(t, r),
             r.pc \in {"cache-answer", "record", "ok", "failed"},
             r.since = exchange[t].since, r.mode = exchange[t].mode,
             r.intent = exchange[t].intent, r.context = exchange[t].context,
             exchange[t].pc \in {"persist", "persist-cached", "cache-answer", "record",
                                 "failing"},
             r.pc = "failed" <=> exchange[t].pc = "failing",
             r.pc = "failed" => r.right = exchange[t].right,
             r.pc # "failed" => Recorded(r),
             IF r.pc = "failed" THEN r.wrong = 1 \/ r.lost ELSE r.wrong = 0
      PROVE  Advances(t)
  <2>1. Recorded(r)
    BY <1>1, <1>3 DEF Fits, Recorded, Unrecorded
  <2>2. Fits(r) /\ r.context = Absent /\ r.pc \notin {"match", "provide"}
    BY <1>1, <1>3, <2>1 DEF Fits
  <2>. QED
    BY <1>2, <1>3, <2>2, Onwards
<1>. DEFINE h == exchange[t]
<1>4. /\ h \in ExchangeType
      /\ h.pc \in Unrecorded => h.right = 0
      /\ h.pc # "failed" => h.wrong = 0
      /\ h.pc = "cache-answer" =>
            IF h.mode = "message" THEN h.right = 0 ELSE h.right = 1 \/ h.lost
  BY <1>1 DEF Fits, Recorded
<1>5. CASE PersistMessageTurn(t) \/ CacheFaqResponse(t)
  <2>. DEFINE pc == AfterAnswer(h.mode, h.pc)
              r == [h EXCEPT !.pc = pc]
  <2>1. /\ h.pc \in {"persist", "cache-answer"} /\ Turned(t, r)
    BY <1>5 DEF PersistMessageTurn, CacheFaqResponse, TurnAt, Follows
  <2>2. \/ h.pc = "persist" /\ h.mode = "message" /\ pc = "cache-answer"
        \/ h.pc = "persist" /\ h.mode # "message" /\ pc = "record"
        \/ h.pc = "cache-answer" /\ h.mode = "message" /\ pc = "record"
        \/ h.pc = "cache-answer" /\ h.mode # "message" /\ pc = "ok"
    BY <2>1 DEF AfterAnswer, AfterMessage, AfterStream
  <2>. HIDE DEF pc
  <2>3. /\ r \in ExchangeType /\ r.pc = pc /\ r.since = h.since /\ r.mode = h.mode
        /\ r.intent = h.intent /\ r.context = h.context /\ r.right = h.right
        /\ r.wrong = h.wrong /\ r.lost = h.lost
    BY <1>4, <2>2 DEF ExchangeType, Unrecorded
  <2>. HIDE DEF r
  <2>4. Recorded(r)
    BY <1>4, <2>2, <2>3 DEF Recorded, Unrecorded
  <2>. QED
    BY <1>3, <1>4, <2>1, <2>2, <2>3, <2>4
<1>6. CASE RecordUsage(t)
  <2>. DEFINE q == [h EXCEPT !.right = 1]
              pc == AfterAnswer(h.mode, "record")
              r == [q EXCEPT !.pc = pc]
  <2>0. h.pc = "record" /\ h.right = 0
    BY <1>4, <1>6 DEF RecordUsage, TurnAt, Unrecorded
  <2>e. [h EXCEPT !.right = @ + 1] = q
    BY <2>0
  <2>1. h.pc = "record" /\ Turned(t, [q EXCEPT !.pc = AfterAnswer(q.mode, q.pc)])
    BY <1>6, <2>0, <2>e DEF RecordUsage, Follows
  <2>2. q.mode = h.mode /\ q.pc = "record"
    BY <1>1, <2>1 DEF ExchangeType
  <2>3. /\ h.mode = "message" => pc = "ok"
        /\ h.mode # "message" => pc = "cache-answer"
    <3>1. AfterMessage("record") = "ok" /\ AfterStream("record") = "cache-answer"
      BY DEF AfterMessage, AfterStream
    <3>. QED
      BY <3>1 DEF AfterAnswer
  <2>4. Turned(t, r)
    BY <2>1, <2>2
  <2>. HIDE DEF pc
  <2>5. /\ r \in ExchangeType /\ r.pc = pc /\ r.since = h.since /\ r.mode = h.mode
        /\ r.intent = h.intent /\ r.context = h.context /\ r.right = 1
        /\ r.wrong = h.wrong
    BY <1>4, <2>3, OnceOrNot DEF ExchangeType, Unrecorded
  <2>. HIDE DEF r
  <2>6. Recorded(r)
    BY <1>4, <2>0, <2>3, <2>5 DEF Recorded, Unrecorded
  <2>. QED
    BY <1>3, <1>4, <2>0, <2>3, <2>4, <2>5, <2>6
<1>7. CASE RecordCached(t)
  <2>. DEFINE r == [h EXCEPT !.pc = "ok", !.right = 1]
  <2>1. h.pc = "persist-cached" /\ Turned(t, [h EXCEPT !.pc = "ok", !.right = @ + 1])
    BY <1>7 DEF RecordCached, TurnAt
  <2>2. h.right + 1 = 1
    BY <1>4, <2>1 DEF Unrecorded
  <2>3. [h EXCEPT !.pc = "ok", !.right = @ + 1] = r
    BY <2>2
  <2>4. /\ r \in ExchangeType /\ r.pc = "ok" /\ r.since = h.since /\ r.mode = h.mode
        /\ r.intent = h.intent /\ r.context = h.context /\ r.right = 1
        /\ r.wrong = h.wrong
    BY <1>4, OnceOrNot DEF ExchangeType, Unrecorded
  <2>5. Turned(t, r)
    BY <2>1, <2>3
  <2>. HIDE DEF r
  <2>6. Recorded(r)
    BY <1>4, <2>1, <2>4 DEF Recorded, Unrecorded
  <2>. QED
    BY <1>3, <1>4, <2>1, <2>4, <2>5, <2>6
<1>8. CASE RecordLost(t) /\ TurnAt(t, "record")
  <2>. DEFINE q == [h EXCEPT !.lost = TRUE]
              pc == AfterAnswer(h.mode, "record")
              r == [q EXCEPT !.pc = pc]
  <2>1. h.pc = "record" /\ Turned(t, [q EXCEPT !.pc = AfterAnswer(q.mode, q.pc)])
    BY <1>8 DEF RecordLost, TurnAt, Follows
  <2>2. q.mode = h.mode /\ q.pc = "record"
    BY <1>1, <2>1 DEF ExchangeType
  <2>3. /\ h.mode = "message" => pc = "ok"
        /\ h.mode # "message" => pc = "cache-answer"
    <3>1. AfterMessage("record") = "ok" /\ AfterStream("record") = "cache-answer"
      BY DEF AfterMessage, AfterStream
    <3>. QED
      BY <3>1 DEF AfterAnswer
  <2>4. Turned(t, r)
    BY <2>1, <2>2
  <2>. HIDE DEF pc
  <2>5. /\ r \in ExchangeType /\ r.pc = pc /\ r.since = h.since /\ r.mode = h.mode
        /\ r.intent = h.intent /\ r.context = h.context /\ r.right = h.right
        /\ r.wrong = h.wrong /\ r.lost
    BY <1>4, <2>3 DEF ExchangeType, Unrecorded
  <2>. HIDE DEF r
  <2>6. Recorded(r)
    BY <1>4, <2>1, <2>3, <2>5 DEF Recorded, Unrecorded
  <2>. QED
    BY <1>3, <1>4, <2>1, <2>3, <2>4, <2>5, <2>6
<1>9. CASE RecordLost(t) /\ ~TurnAt(t, "record")
  <2>. DEFINE r == [h EXCEPT !.pc = "failed", !.lost = TRUE]
  <2>1. h.pc = "failing" /\ Turned(t, r)
    BY <1>9 DEF RecordLost, TurnAt
  <2>2. /\ r \in ExchangeType /\ r.pc = "failed" /\ r.since = h.since /\ r.mode = h.mode
        /\ r.intent = h.intent /\ r.context = h.context /\ r.right = h.right /\ r.lost
    BY <1>4 DEF ExchangeType, Unrecorded
  <2>. HIDE DEF r
  <2>. QED
    BY <1>3, <2>1, <2>2
<1>10. CASE RecordFailure(t)
  <2>. DEFINE r == [h EXCEPT !.pc = "failed", !.wrong = 1]
  <2>1. h.pc = "failing" /\ Turned(t, [h EXCEPT !.pc = "failed", !.wrong = @ + 1])
    BY <1>10 DEF RecordFailure, TurnAt
  <2>2. h.wrong + 1 = 1
    BY <1>4, <2>1
  <2>3. [h EXCEPT !.pc = "failed", !.wrong = @ + 1] = r
    BY <2>2
  <2>4. /\ r \in ExchangeType /\ r.pc = "failed" /\ r.since = h.since /\ r.mode = h.mode
        /\ r.intent = h.intent /\ r.context = h.context /\ r.right = h.right
        /\ r.wrong = 1
    BY <1>4, OnceOrNot DEF ExchangeType, Unrecorded
  <2>5. Turned(t, r)
    BY <2>1, <2>3
  <2>. HIDE DEF r
  <2>. QED
    BY <1>3, <2>1, <2>4, <2>5
<1>. QED
  BY <1>5, <1>6, <1>7, <1>8, <1>9, <1>10

LEMMA AdvanceTurn ==
    ASSUME Person, Exchanged, Cached, Fresh, NEW t \in Turns,
           ContextSteps(t) \/ AnswerSteps(t)
    PROVE  Advances(t)
BY AdvanceAsk, AdvanceContext, AdvanceRead, AdvanceSummary, AdvanceBuild, AdvanceSettles,
   AdvanceEnds
DEF ContextSteps, AnswerSteps

\* A step of a turn leaves what is known of the others.
LEMMA TurnStep ==
    ASSUME Person, Exchanged, Cached, Fresh, NEW t \in Turns,
           ContextSteps(t) \/ AnswerSteps(t)
    PROVE  Exchanged' /\ Cached' /\ Fresh'
<1>1. Advances(t) /\ announced' = announced
  BY AdvanceTurn, AccountStays DEF account
<1>2. PICK r : Turned(t, r) /\ Fits(r) /\ Drawn(r, announced, raced')
  BY <1>1 DEF Advances
<1>3. /\ exchange'[t] = r /\ \A x \in Turns \ {t} : exchange'[x] = exchange[x]
      /\ Exchanged'
  BY <1>2, TurnMoves
<1>4. raced => raced'
  BY DEF ContextSteps, AnswerSteps,
       Ask, AskRefused, GetContext, GetUserContext, CvUnread, CacheUserContext,
       UserContextFails, BuildContext, AnswerFaq, Generate, PersistMessageTurn,
       CacheFaqResponse, RecordUsage, RecordCached, RecordLost, TurnFails, RecordFailure
<1>5. ASSUME NEW x \in Turns
      PROVE  Drawn(exchange'[x], announced', raced')
  <2>1. CASE x = t
    BY <1>1, <1>2, <1>3, <2>1
  <2>2. CASE x # t
    BY <1>1, <1>3, <1>4, <2>2 DEF Fresh, Drawn
  <2>. QED
    BY <2>1, <2>2
<1>. QED
  BY <1>1, <1>3, <1>5 DEF Advances, Fresh

\* An upsert is announced by its last step, which clears the summary.
LEMMA AnnouncedStays ==
    ASSUME Served, UserSteps \/ CvSteps \/ SaveFromPage \/ \E s \in Slots : ReplySteps(s)
    PROVE  announced' = announced
<1>1. ASSUME NEW s \in Slots, NEW r, Proceeds(s, r),
             r.pc \in {"read-cv", "store-cv", "sync-user"}
      PROVE  announced' = announced
  <2>1. After(r.pc) # "idle"
    BY <1>1 DEF After
  <2>. QED
    BY <1>1, <2>1 DEF Proceeds
<1>2. ASSUME NEW s \in Slots, \/ BuildCanonicalCv(s) \/ CreateCv(s) \/ UpdateCv(s)
                             \/ SyncUserIdentityFromCv(s)
      PROVE  announced' = announced
  <2>1. /\ handler[s] \in CvWriterType
        /\ handler[s].pc \in {"read-cv", "store-cv", "sync-user"}
    BY <1>2, SlotFields
    DEF BuildCanonicalCv, CreateCv, UpdateCv, SyncUserIdentityFromCv, SlotAt, Served
  <2>2. CASE BuildCanonicalCv(s)
    <3>. DEFINE picture == CanonicalAvatar(handler[s].avatar,
                              IF cv = Absent THEN Absent ELSE cv.avatar, handler[s].account)
                exists == (cv # Absent)
                r == [handler[s] EXCEPT !.exists = exists, !.account = Absent,
                                        !.avatar = picture]
    <3>1. Proceeds(s, r)
      BY <2>2 DEF BuildCanonicalCv
    <3>. HIDE DEF exists, picture
    <3>2. r.pc = handler[s].pc
      BY <2>1 DEF CvWriterType
    <3>. HIDE DEF r
    <3>. QED
      BY <1>1, <2>1, <3>1, <3>2
  <2>3. CASE CreateCv(s) \/ UpdateCv(s)
    <3>. DEFINE r == [handler[s] EXCEPT !.stored = edition + 1]
    <3>1. Proceeds(s, r)
      BY <2>3 DEF CreateCv, UpdateCv, StoresCv
    <3>2. r.pc = handler[s].pc
      BY <2>1 DEF CvWriterType
    <3>. HIDE DEF r
    <3>. QED
      BY <1>1, <2>1, <3>1, <3>2
  <2>4. CASE SyncUserIdentityFromCv(s)
    BY <1>1, <2>1, <2>4 DEF SyncUserIdentityFromCv
  <2>. QED
    BY <1>2, <2>2, <2>3, <2>4
<1>. QED
  BY <1>2
  DEF UserSteps, UpdateUser, WriteUser, SyncCvIdentityFromUser, RemoveUser, UnsaveJob,
      CvSteps, UpsertCv, WriteRefused, WriterFails, DeleteCv, DeactivateCv, ActivateCv,
      SetCvActive, SaveFromPage, ReplySteps, Confirm, ConfirmSaves, ConfirmMarks, Cancel,
      CancelMarks, ReplyFails

\* The summary is cleared, and what a turn is about to store in its place marked.
LEMMA FreshClears ==
    ASSUME Person, Served, Exchanged, Cached, Fresh, NEW s \in Slots, ClearsContext(s)
    PROVE  Exchanged' /\ Cached' /\ Fresh'
<1>1. /\ chatContext' = Absent /\ raced' = \E t \in Turns : exchange[t].pc = "match"
      /\ UNCHANGED <<gone, contexts, faq, exchange>>
      /\ handler[s].pc = "clear-context" /\ Proceeds(s, handler[s])
  BY DEF ClearsContext, ClearContext, SlotAt, TurnAt
<1>2. announced \in Nat /\ announced' \in Nat /\ announced' >= announced
  <2>1. handler[s] \in CvWriterType
    BY <1>1, SlotFields DEF Served
  <2>2. handler[s].stored \in Nat
    BY <2>1 DEF CvWriterType
  <2>. QED
    BY <1>1, <2>2 DEF Proceeds, Person
<1>3. Exchanged' /\ Cached'
  BY <1>1 DEF Exchanged, Cached
<1>4. ASSUME NEW t \in Turns
      PROVE  Drawn(exchange'[t], announced', raced')
  <2>1. exchange[t] \in ExchangeType /\ Drawn(exchange[t], announced, raced)
    BY DEF Exchanged, Fresh
  <2>2. exchange[t].since \in Nat /\ exchange[t].since <= announced'
    BY <1>2, <2>1 DEF ExchangeType, Drawn
  <2>3. exchange[t].pc = "match" => raced'
    BY <1>1
  <2>. QED
    BY <1>1, <2>1, <2>2, <2>3 DEF Drawn
<1>. QED
  BY <1>1, <1>3, <1>4 DEF Fresh, Summary

\* Nothing is drawn, stored or announced.
LEMMA FreshStays ==
    ASSUME Exchanged, Cached, Fresh,
           UNCHANGED <<announced, exchange, raced>>, Cached',
           chatContext' = chatContext \/ chatContext' = Absent
    PROVE  Exchanged' /\ Fresh'
BY DEF Exchanged, Fresh, Summary

LEMMA FreshStep ==
    ASSUME Person, Served, Exchanged, Cached, Fresh, AssistantNext
    PROVE  Exchanged' /\ Cached' /\ Fresh'
<1>1. CASE \E t \in Turns : ContextSteps(t) \/ AnswerSteps(t)
  BY <1>1, TurnStep
<1>2. CASE \E s \in Slots : ClearsContext(s)
  BY <1>2, FreshClears
<1>3. CASE \/ (UserSteps \/ CvSteps) /\ UNCHANGED assistant
           \/ SaveFromPage \/ \E s \in Slots : ReplySteps(s)
  <2>1. announced' = announced
    BY <1>3, AnnouncedStays
  <2>2. UNCHANGED <<chatContext, gone, contexts, faq, exchange, raced>>
    BY <1>3
    DEF UserSteps, UpdateUser, WriteUser, SyncCvIdentityFromUser, RemoveUser, UnsaveJob,
        CvSteps, UpsertCv, BuildCanonicalCv, CreateCv, UpdateCv, StoresCv, WriteRefused,
        SyncUserIdentityFromCv, WriterFails, DeleteCv, DeactivateCv, ActivateCv,
        SetCvActive, SaveFromPage, ReplySteps, Confirm, ConfirmSaves, ConfirmMarks, Cancel,
        CancelMarks, ReplyFails, assistant
  <2>. QED
    BY <2>1, <2>2, FreshStays DEF Cached
<1>4. CASE (\E i \in Offers : OfferExpires(i)) \/ AnotherCachesFaq \/ RemoveJob
  <2>1. /\ UNCHANGED <<announced, chatContext, contexts, exchange, raced>>
        /\ faq' = faq \/ faq' = "another's"
        /\ gone' = gone \/ \E j \in Jobs : gone' = gone \cup {j}
    BY <1>4 DEF OfferExpires, AnotherCachesFaq, RemoveJob, account
  <2>. QED
    BY <2>1, FreshStays DEF Cached
<1>5. CASE CacheExpires
  <2>1. /\ UNCHANGED <<announced, gone, exchange, raced>>
        /\ chatContext' = chatContext \/ chatContext' = Absent
        /\ faq' = faq \/ faq' = Absent
        /\ contexts' = contexts
           \/ \E k \in DOMAIN contexts : contexts' = [contexts EXCEPT ![k] = Absent]
    BY <1>5 DEF CacheExpires, account
  <2>2. contexts' \in [Intents -> ContextType \cup {Absent}]
    BY <2>1 DEF Cached
  <2>. QED
    BY <2>1, <2>2, FreshStays DEF Cached
<1>. QED
  BY <1>1, <1>2, <1>3, <1>4, <1>5 DEF AssistantNext

-----------------------------------------------------------------------------
(* Offers, at every step                                                   *)

LEMMA OfferedGenerate ==
    ASSUME Person, Served, Offered, Exchanged, NEW t \in Turns, Generate(t)
    PROVE  Offered'
<1>1. handler' = handler /\ exchange[t].pc = "answer" /\ Fits(exchange[t])
  BY DEF Generate, account, TurnAt, Exchanged
<1>2. PICK named \in SUBSET Jobs :
         CreatePendingToolActions(
            BuildRecommendedJobs(ValidateRecommendedJobIds(named, exchange[t].context),
                                 exchange[t].context),
            exchange[t].saved)
  BY DEF Generate
<1>3. PICK recommended \in SUBSET Jobs :
         CreatePendingToolActions(recommended, exchange[t].saved)
  <2>1. exchange[t].context.jobs \in SUBSET Jobs
    BY <1>1 DEF Fits, ContextType
  <2>. QED
    BY <1>2, <2>1 DEF BuildRecommendedJobs, ValidateRecommendedJobIds
<1>4. CASE offer' = offer
  BY <1>1, <1>4, OfferedStays
<1>5. CASE CreateSaveJobActions(recommended \ exchange[t].saved)
  BY <1>1, <1>5, OfferedNew
<1>. QED
  BY <1>3, <1>4, <1>5 DEF CreatePendingToolActions

LEMMA OfferedStep ==
    ASSUME Person, Served, Offered, Exchanged, AssistantNext
    PROVE  Offered'
<1>1. CASE \/ (UserSteps \/ CvSteps) /\ UNCHANGED assistant
           \/ SaveFromPage \/ \E s \in Slots : ClearsContext(s)
  <2>1. offer' = offer
    BY <1>1 DEF assistant, SaveFromPage, ClearsContext
  <2>. QED
    BY <1>1, <2>1, OfferedWriters DEF ClearsContext
<1>2. CASE \E s \in Slots : ReplySteps(s)
  BY <1>2, OfferedConfirm, OfferedCancel, OfferedSaves, OfferedMarks DEF ReplySteps
<1>3. CASE \E i \in Offers : OfferExpires(i)
  BY <1>3, OfferedExpires
<1>4. CASE \E t \in Turns : Generate(t)
  BY <1>4, OfferedGenerate
<1>5. CASE \/ \E t \in Turns : (ContextSteps(t) \/ AnswerSteps(t)) /\ ~Generate(t)
           \/ CacheExpires \/ AnotherCachesFaq \/ RemoveJob
  <2>1. handler' = handler
    BY <1>5, AccountStays DEF account
  <2>2. offer' = offer
    BY <1>5
    DEF ContextSteps, AnswerSteps, CacheExpires, AnotherCachesFaq, RemoveJob,
        Ask, AskRefused, GetContext, GetUserContext, CvUnread, CacheUserContext,
        UserContextFails, BuildContext, AnswerFaq, PersistMessageTurn,
        CacheFaqResponse, RecordUsage, RecordCached, RecordLost, TurnFails, RecordFailure
  <2>. QED
    BY <2>1, <2>2, OfferedStays
<1>. QED
  BY <1>1, <1>2, <1>3, <1>4, <1>5 DEF AssistantNext

-----------------------------------------------------------------------------
(* The inductive invariant                                                 *)

AssistantInv == Person /\ Served /\ Together /\ Offered /\ Exchanged /\ Cached /\ Fresh

LEMMA PersonInit ==
    ASSUME InitProfiles
    PROVE  Person /\ Served /\ Together
<1>1. PICK name \in Names, avatar \in Pictures, role \in Roles, c \in Companies :
         /\ user = NewUser(name, avatar, role, c)
         /\ cv \in {Absent, NewCv(name, avatar)}
  BY DEF InitProfiles, Pictures
<1>. DEFINE company == ResolveCompanyAssignmentForRole(role, c)
<1>2. company \in Companies \cup {Absent} /\ (role = "HR" <=> company \in Companies)
  BY CompaniesAreNamed DEF ResolveCompanyAssignmentForRole
<1>3. user = [name |-> name, avatar |-> avatar, role |-> role, deleted |-> FALSE,
              saved |-> {}, company |-> company]
  BY <1>1 DEF NewUser
<1>. HIDE DEF company
<1>4. user \in UserType /\ Employed(user) /\ user.name = name /\ user.avatar = avatar
  BY <1>2, <1>3 DEF UserType, Employed
<1>5. NewCv(name, avatar) \in CvType /\ NewCv(name, avatar).name = name
      /\ NewCv(name, avatar).avatar = avatar
  BY DEF NewCv, CvType
<1>6. /\ edition = 0 /\ announced = 0 /\ parted = FALSE
      /\ handler = [s \in Slots |-> Vacant]
  BY DEF InitProfiles
<1>7. Person
  <2>1. cv \in CvType \cup {Absent}
    BY <1>1, <1>5
  <2>2. edition \in Nat /\ announced \in Nat /\ announced <= edition
    BY <1>6
  <2>3. parted \in BOOLEAN
    BY <1>6
  <2>. QED
    BY <1>4, <2>1, <2>2, <2>3 DEF Person
<1>8. \A s \in Slots : handler[s] = Vacant /\ handler[s].pc = "idle" /\ s \notin Writers
  BY <1>6, VacantSlot DEF Writers
<1>9. Vacant \in SlotType /\ Vacant \notin CvWriterType
  BY VacantSlot DEF SlotType, CvWriterType
<1>10. Served
  BY <1>6, <1>8, <1>9 DEF Served, SlotAt
<1>11. Together
  BY <1>1, <1>4, <1>5, <1>8 DEF Together, Sole, Agree
<1>. QED
  BY <1>7, <1>10, <1>11

LEMMA AssistantStart ==
    ASSUME AssistantInit
    PROVE  AssistantInv
<1>1. Person /\ Served /\ Together
  BY PersonInit DEF AssistantInit
<1>2. /\ gone = {} /\ contexts = [k \in Intents |-> Absent] /\ faq = Absent
      /\ offer = [i \in Offers |-> Absent] /\ exchange = [t \in Turns |-> Unasked]
      /\ raced = FALSE /\ chatContext = Absent /\ announced = 0
      /\ handler = [s \in Slots |-> Vacant]
  BY DEF AssistantInit, InitProfiles
<1>3. \A s \in Slots : handler[s].pc \notin Replying
  BY <1>2, VacantSlot DEF Replying
<1>4. Offered
  BY <1>2, <1>3 DEF Offered, OffersTyped, Honest
<1>5. Fits(Unasked) /\ Unasked \in ExchangeType
  BY UnaskedFits DEF Fits
<1>6. Exchanged
  BY <1>2, <1>5 DEF Exchanged
<1>7. Cached
  BY <1>2 DEF Cached
<1>8. Drawn(Unasked, 0, FALSE)
  BY DEF Unasked, Drawn
<1>9. Fresh
  BY <1>2, <1>8 DEF Fresh, Summary
<1>. QED
  BY <1>1, <1>4, <1>6, <1>7, <1>9 DEF AssistantInv

LEMMA AssistantStep ==
    ASSUME AssistantInv, [AssistantNext]_assistantVars
    PROVE  AssistantInv'
<1>1. CASE AssistantNext
  BY <1>1, PersonStep, TogetherStep, OfferedStep, FreshStep DEF AssistantInv
<1>2. CASE UNCHANGED assistantVars
  BY <1>2
  DEF assistantVars, AssistantInv, Person, Employed, Served, SlotAt, Together, Sole, Agree,
      Halfway, Writers, Offered, OffersTyped, Honest, Replies, Exchanged, Cached, Fresh,
      Summary
<1>. QED
  BY <1>1, <1>2

LEMMA AssistantInvariant == AssistantSpec => []AssistantInv
<1>1. AssistantInit => AssistantInv
  BY AssistantStart
<1>2. AssistantInv /\ [AssistantNext]_assistantVars => AssistantInv'
  BY AssistantStep
<1>. QED
  BY <1>1, <1>2, PTL DEF AssistantSpec

\* Account, CV, offers and turns stay what the actions can make of them.
THEOREM AssistantTyped == AssistantSpec => []AssistantTypeOK
<1>1. AssistantInv => AssistantTypeOK
  <2>. SUFFICES ASSUME AssistantInv
                PROVE  AssistantTypeOK
    OBVIOUS
  <2>1. ProfilesTyped
    BY DEF AssistantInv, Person, Employed, UserType, CvType, Pictures, ProfilesTyped
  <2>2. ASSUME NEW i \in Offers, offer[i] # Absent
        PROVE  /\ offer[i].job \in Jobs
               /\ offer[i].status \in {"PENDING", "CONFIRMED", "CANCELED", "EXPIRED"}
    <3>1. offer[i] \in OfferType
      BY <2>2 DEF AssistantInv, Offered, OffersTyped
    <3>. QED
      BY <3>1 DEF OfferType
  <2>3. ASSUME NEW t \in Turns
        PROVE  exchange[t].saved \subseteq Jobs /\ exchange[t].right + exchange[t].wrong <= 2
    <3>1. exchange[t] \in ExchangeType
      BY DEF AssistantInv, Exchanged
    <3>2. exchange[t].saved \in SUBSET Jobs
      BY <3>1 DEF ExchangeType
    <3>3. exchange[t].right \in Once /\ exchange[t].wrong \in Once
      BY <3>1 DEF ExchangeType
    <3>. QED
      BY <3>2, <3>3 DEF Once
  <2>. QED
    BY <2>1, <2>2, <2>3 DEF AssistantInv, Cached, AssistantTypeOK
<1>. QED
  BY <1>1, AssistantInvariant, PTL

\* While nobody writes, the CV page shows the name and avatar of the account, unless two
\* writers overlapped or one failed between its two writes.
THEOREM IdentityHolds == AssistantSpec => []IdentityAgrees
<1>1. AssistantInv => IdentityAgrees
  <2>. SUFFICES ASSUME AssistantInv, Writers = {}, ~parted, ~user.deleted
                PROVE  CurrentUserCv.name = user.name /\ CurrentUserCv.avatar = user.avatar
    BY DEF IdentityAgrees
  <2>1. \A s \in Slots : handler[s].pc \notin Between
    BY DEF Writers, Between
  <2>2. Agree
    BY <2>1 DEF AssistantInv, Together
  <2>. QED
    BY <2>2 DEF Agree, CurrentUserCv
<1>. QED
  BY <1>1, AssistantInvariant, PTL

\* A turn asked after an upsert had ended answers from that CV or a later one, but for
\* answers and summaries that had been cached before, and a CV that could not be read.
THEOREM TurnsSeeTheCv == AssistantSpec => []TurnSeesCv
<1>1. AssistantInv => TurnSeesCv
  BY DEF AssistantInv, Fresh, Drawn, TurnSeesCv
<1>. QED
  BY <1>1, AssistantInvariant, PTL

\* An offer nobody replies to is confirmed exactly if its posting was saved, unless two
\* replies overlapped or one failed.
THEOREM ConfirmedSaved == AssistantSpec => []ConfirmedIsSaved
<1>1. AssistantInv => ConfirmedIsSaved
  BY DEF AssistantInv, Offered, Honest, ConfirmedIsSaved
<1>. QED
  BY <1>1, AssistantInvariant, PTL

\* A turn that has ended has left one record of the right kind, unless the log refused it
\* or a stream failed to cache the answer it had recorded.
THEOREM RecordedOnce == AssistantSpec => []OneRecord
<1>1. AssistantInv => OneRecord
  <2>. SUFFICES ASSUME AssistantInv, NEW t \in Turns,
                       exchange[t].pc \in {"ok", "failed"}, ~exchange[t].lost
                PROVE  \/ /\ exchange[t].right = 1 /\ exchange[t].wrong = 0
                          /\ exchange[t].pc = "ok"
                       \/ /\ exchange[t].right = 0 /\ exchange[t].wrong = 1
                          /\ exchange[t].pc = "failed"
                       \/ /\ exchange[t].right = 1 /\ exchange[t].wrong = 1
                          /\ exchange[t].pc = "failed"
                          /\ exchange[t].mode = "stream" /\ exchange[t].intent = "FAQ"
    BY DEF OneRecord
  <2>1. Fits(exchange[t]) /\ exchange[t].right \in Once
    BY DEF AssistantInv, Exchanged, ExchangeType
  <2>. QED
    BY <2>1 DEF Fits, Recorded, Once
<1>. QED
  BY <1>1, AssistantInvariant, PTL
=============================================================================
