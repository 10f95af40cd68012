----------------------------- MODULE UserProofs -----------------------------
(***************************************************************************)
(* What a user holds and what a user is told: the theorems of AuthSessions *)
(* and those of Mailings, for every set of requests and devices, of        *)
(* applications, tasks, letters and clients, and for every limit.          *)
(*                                                                         *)
(* Sessions.  The strengthening says where a line can be: in at most one   *)
(* session or one pending creation (RotationNeverForks), and only after    *)
(* its sign-in has arrived (Used); an ended line is in no creation, and a  *)
(* session that still has it is inactive and no admitted refresh holds its *)
(* token.                                                                  *)
(*                                                                         *)
(* Notices and letters.  Working, Posted and Network say what documents,   *)
(* letters and connections are.  Telling is what keeps the last notice of  *)
(* an application true: notices are numbered in the order they are stored, *)
(* nothing is under way of an application before it exists, and what is    *)
(* still to be announced of it is the status it has.                       *)
(***************************************************************************)
EXTENDS AuthSessions, Mailings, FiniteSetTheorems, TLAPS

-----------------------------------------------------------------------------
(* Sessions                                                                *)

Used(l) == l \in Devices \/ (l \in Requests /\ request[l].pc # "idle")

Placed ==
    /\ RotationNeverForks
    /\ \A t \in Tokens : Present(t) => Used(sessions[t].line)
    /\ \A r \in Requests, l \in Lines : InHand(r, l) => Used(l)

Ended ==
    /\ \A t \in Tokens : Present(t) /\ sessions[t].line \in revoked =>
         ~Live(t) /\ \A r \in Requests : ~Holding(r, t)
    /\ \A r \in Requests, l \in revoked : ~InHand(r, l)
    /\ \A l \in revoked : Used(l)

\* A request at "create" knows the line it will continue, and a refresh the
\* token it was admitted with.
Lined == \A r \in Requests :
    /\ At(r, "create") => request[r].line \in Lines
    /\ At(r, "loadUser") \/ At(r, "consume") => request[r].token \in Tokens

Inv == TypeOK /\ Lined /\ Placed /\ Ended

-----------------------------------------------------------------------------
LEMMA AbsentType == Absent \in SessionType
BY LimitAssumption DEF Absent, SessionType, Seconds

LEMMA FreshType == Fresh \in RequestType
BY LimitAssumption DEF Fresh, RequestType, OpNames, Pcs, Seconds

LEMMA DeleteType ==
    ASSUME TypeOK, NEW ts, Delete(ts)
    PROVE  /\ sessions' \in [Tokens -> SessionType]
           /\ \A t \in Tokens : Present(t)' => sessions'[t].line \in Lines
BY AbsentType DEF TypeOK, Delete, Absent, Present

\* Every update of one request: what the handler keeps is typed.
LEMMA RequestUpdate ==
    ASSUME TypeOK, NEW r \in Requests, NEW h \in RequestType,
           request' = [request EXCEPT ![r] = h]
    PROVE  request' \in [Requests -> RequestType]
BY DEF TypeOK

LEMMA GotoType ==
    ASSUME TypeOK, NEW r \in Requests, NEW pc \in Pcs, Goto(r, pc)
    PROVE  request' \in [Requests -> RequestType]
<1>1. request[r] \in RequestType
  BY DEF TypeOK
<1>2. [request[r] EXCEPT !.pc = pc] \in RequestType
  BY <1>1 DEF RequestType
<1>3. request' = [request EXCEPT ![r] = [request[r] EXCEPT !.pc = pc]]
  BY DEF Goto, TypeOK
<1>. QED
  BY <1>2, <1>3, RequestUpdate

LEMMA FinishType ==
    ASSUME TypeOK, NEW r \in Requests, Finish(r)
    PROVE  request' \in [Requests -> RequestType]
BY GotoType DEF Finish, Pcs

LEMMA BeginType ==
    ASSUME TypeOK, NEW op \in OpNames, NEW pc \in Pcs, NEW r \in Requests
    PROVE  Begin(r, op, pc) \in RequestType
BY FreshType DEF TypeOK, Begin, RequestType

LEMMA TypeStep == Inv /\ [Next]_vars => TypeOK'
<1>. SUFFICES ASSUME Inv, [Next]_vars PROVE TypeOK'
  OBVIOUS
<1>t. TypeOK
  BY DEF Inv
<1>r. /\ request \in [Requests -> RequestType] /\ now \in Seconds
      /\ sessions \in [Tokens -> SessionType] /\ now \in Tokens
      /\ \A r \in Requests : request[r] \in RequestType
  BY <1>t DEF TypeOK, Tokens
<1>p. \A t \in Tokens : Present(t) => sessions[t].line \in Lines
  BY <1>t DEF TypeOK
\* Only the requests change.
<1>q. ASSUME request' \in [Requests -> RequestType],
             UNCHANGED <<now, locked, sessions, revoked>>
      PROVE  TypeOK'
  BY <1>t, <1>q DEF TypeOK, Present
\* The requests and the sessions change.
<1>s. ASSUME request' \in [Requests -> RequestType],
             sessions' \in [Tokens -> SessionType],
             \A t \in Tokens : Present(t)' => sessions'[t].line \in Lines,
             UNCHANGED <<now, locked, revoked>>
      PROVE  TypeOK'
  BY <1>t, <1>s DEF TypeOK, Present
<1>1. ASSUME NEW r \in Requests, LoginCheck(r) PROVE TypeOK'
  <2>1. Begin(r, "login", "create") \in RequestType
    BY <1>t, BeginType DEF OpNames, Pcs
  <2>2. [Begin(r, "login", "create") EXCEPT !.line = r] \in RequestType
    BY <2>1 DEF RequestType, Lines
  <2>. QED
    BY <1>t, <1>1, <1>q, <2>2, RequestUpdate DEF LoginCheck
<1>2. ASSUME NEW r \in Requests, NEW t \in Tokens, RefreshFind(r, t)
      PROVE  TypeOK'
  <2>1. Begin(r, "refresh", "loadUser") \in RequestType
    BY <1>t, BeginType DEF OpNames, Pcs
  <2>2. sessions[t].line \in Lines
    BY <1>p, <1>2 DEF RefreshFind, Live, Present
  <2>3. [Begin(r, "refresh", "loadUser") EXCEPT
           !.token = t, !.line = sessions[t].line, !.touch = TRUE] \in RequestType
    BY <2>1, <2>2 DEF RequestType
  <2>. QED
    BY <1>t, <1>2, <1>q, <2>3, RequestUpdate DEF RefreshFind
<1>3. ASSUME NEW r \in Requests, NEW t \in Tokens, LogoutGuard(r, t)
      PROVE  TypeOK'
  <2>1. Begin(r, "logout", "drop") \in RequestType
    BY <1>t, BeginType DEF OpNames, Pcs
  <2>2. [Begin(r, "logout", "drop") EXCEPT !.token = t] \in RequestType
    BY <2>1 DEF RequestType
  <2>. QED
    BY <1>t, <1>3, <1>q, <2>2, RequestUpdate DEF LogoutGuard
<1>4. ASSUME NEW r \in Requests, RevokeGuard(r) \/ LockRead(r) \/ UnlockRead(r)
      PROVE  TypeOK'
  <2>1. \A op \in {"revoke", "lock", "unlock"} : Begin(r, op, op) \in RequestType
    BY <1>t, BeginType DEF OpNames, Pcs
  <2>. QED
    BY <1>t, <1>4, <1>q, <2>1, RequestUpdate DEF RevokeGuard, LockRead, UnlockRead
<1>5. ASSUME NEW r \in Requests, Mint(r) PROVE TypeOK'
  <2>1. request' \in [Requests -> RequestType]
    BY <1>t, <1>5, GotoType DEF Mint, Pcs
  <2>2. request[r].line \in Lines
    BY <1>5 DEF Mint, Inv, Lined
  <2> DEFINE new == [state |-> "active", line |-> request[r].line, used |-> now]
  <2>3. new \in SessionType
    BY <1>r, <2>2 DEF SessionType
  <2>4. sessions' = [sessions EXCEPT ![now] = new]
    BY <1>5 DEF Mint
  <2>5. /\ sessions' \in [Tokens -> SessionType]
        /\ \A t \in Tokens : Present(t)' => sessions'[t].line \in Lines
    BY <1>r, <1>p, <2>2, <2>3, <2>4 DEF Present
  <2>. QED
    BY <1>5, <1>s, <2>1, <2>5 DEF Mint
<1>6. ASSUME NEW r \in Requests, MintClash(r) PROVE TypeOK'
  BY <1>t, <1>6, <1>q, FinishType DEF MintClash
<1>7. ASSUME NEW r \in Requests, TrimList(r) PROVE TypeOK'
  <2>1. PICK doomed \in SUBSET LiveTokens :
          request' = [q \in Requests |->
             IF q = r THEN [request[r] EXCEPT !.pc = "trim", !.doomed = doomed]
             ELSE [request[q] EXCEPT !.excess = @ \/ Rotating(q)]]
    BY <1>7 DEF TrimList
  <2>2. [request[r] EXCEPT !.pc = "trim", !.doomed = doomed] \in RequestType
    BY <1>r, <2>1 DEF RequestType, Pcs, LiveTokens
  <2>3. ASSUME NEW q \in Requests
        PROVE  [request[q] EXCEPT !.excess = @ \/ Rotating(q)] \in RequestType
    <3> DEFINE b == request[q].excess \/ Rotating(q)
    <3>1. b \in BOOLEAN
      OBVIOUS
    <3>2. [request[q] EXCEPT !.excess = b] \in RequestType
      <4>. HIDE DEF b
      <4>. QED
        BY <1>r, <3>1 DEF RequestType
    <3>. QED
      BY <3>2
  <2>4. request' \in [Requests -> RequestType]
    BY <2>1, <2>2, <2>3
  <2>. QED
    BY <1>7, <1>q, <2>4 DEF TrimList
<1>8. ASSUME NEW r \in Requests, TrimDelete(r) PROVE TypeOK'
  <2>1. [request[r] EXCEPT !.pc = "done", !.doomed = {}] \in RequestType
    BY <1>r DEF RequestType, Pcs
  <2>2. request' = [request EXCEPT ![r] =
                      [request[r] EXCEPT !.pc = "done", !.doomed = {}]]
    BY <1>r, <1>8 DEF TrimDelete
  <2>3. request' \in [Requests -> RequestType]
    BY <1>t, <2>1, <2>2, RequestUpdate
  <2>. QED
    BY <1>t, <1>8, <1>s, <2>3, DeleteType DEF TrimDelete
<1>9. ASSUME NEW r \in Requests, Touch(r) PROVE TypeOK'
  <2>1. [request[r] EXCEPT !.touch = FALSE] \in RequestType
    BY <1>r DEF RequestType
  <2>2. request' = [request EXCEPT ![r] = [request[r] EXCEPT !.touch = FALSE]]
    BY <1>r, <1>9 DEF Touch
  <2>3. request' \in [Requests -> RequestType]
    BY <1>t, <2>1, <2>2, RequestUpdate
  <2>4. request[r].born \in Seconds
    BY <1>r DEF RequestType
  <2>5. /\ sessions' \in [Tokens -> SessionType]
        /\ \A t \in Tokens : Present(t)' => sessions'[t].line \in Lines
    <3> DEFINE u == request[r].token
    <3>1. CASE u \in Tokens /\ Present(u)
      <4>1. [sessions[u] EXCEPT !.used = request[r].born] \in SessionType
        BY <1>r, <2>4, <3>1 DEF SessionType
      <4>2. sessions' = [sessions EXCEPT ![u] =
                           [sessions[u] EXCEPT !.used = request[r].born]]
        BY <1>r, <1>9, <3>1 DEF Touch
      <4>3. [sessions[u] EXCEPT !.used = request[r].born].line = sessions[u].line
        BY <1>r, <3>1 DEF SessionType
      <4>. HIDE DEF u
      <4>. QED
        BY <1>r, <1>p, <3>1, <4>1, <4>2, <4>3 DEF Present
    <3>2. CASE ~(u \in Tokens /\ Present(u))
      <4>1. sessions' = sessions
        BY <1>r, <1>9, <3>2 DEF Touch, SessionType
      <4>. QED
        BY <1>r, <1>p, <4>1 DEF Present
    <3>. QED
      BY <3>1, <3>2
  <2>. QED
    BY <1>9, <1>s, <2>3, <2>5 DEF Touch
<1>10. ASSUME NEW r \in Requests, RefreshLoadUser(r) PROVE TypeOK'
  BY <1>t, <1>10, <1>q, GotoType DEF RefreshLoadUser, Pcs
<1>11. ASSUME NEW r \in Requests, Consume(r) PROVE TypeOK'
  <2> DEFINE t == request[r].token
             b == ~Live(t) \/ \E q \in Requests : At(q, "trim")
             line == sessions[t].line
  <2>1. request' \in [Requests -> RequestType]
    <3>1. CASE Present(t)
      <4>1. b \in BOOLEAN
        OBVIOUS
      <4>2. line \in Lines \cup {None}
        BY <1>r, <1>11 DEF Consume, SessionType, Inv, Lined
      <4>3. request' = [request EXCEPT ![r] =
                 [request[r] EXCEPT !.pc = "create", !.line = line, !.excess = b]]
        BY <1>r, <1>11, <3>1 DEF Consume
      <4>. HIDE DEF b, line
      <4>4. [request[r] EXCEPT !.pc = "create", !.line = line, !.excess = b]
               \in RequestType
        BY <1>r, <4>1, <4>2 DEF RequestType, Pcs
      <4>. QED
        BY <1>t, <4>3, <4>4, RequestUpdate
    <3>2. CASE ~Present(t)
      BY <1>t, <1>11, <3>2, FinishType DEF Consume, Finish, Goto
    <3>. QED
      BY <3>1, <3>2
  <2>. QED
    BY <1>t, <1>11, <1>s, <2>1, DeleteType DEF Consume
<1>12. ASSUME NEW r \in Requests, LogoutDrop(r) PROVE TypeOK'
  BY <1>t, <1>12, <1>s, FinishType, DeleteType DEF LogoutDrop
<1>13. ASSUME NEW r \in Requests, RevokeAll(r) PROVE TypeOK'
  <2>1. request' \in [Requests -> RequestType]
    BY <1>t, <1>13, FinishType DEF RevokeAll
  <2>2. /\ sessions' \in [Tokens -> SessionType]
        /\ \A t \in Tokens : Present(t)' => sessions'[t].line \in Lines
    BY <1>t, <1>13, DeleteType DEF RevokeAll
  <2>3. revoked' \subseteq Lines
    BY <1>t, <1>p, <1>13 DEF RevokeAll, TypeOK
  <2>. QED
    BY <1>t, <1>13, <2>1, <2>2, <2>3 DEF RevokeAll, TypeOK, Present
<1>14. ASSUME NEW r \in Requests, LockSet(r) \/ UnlockSet(r) PROVE TypeOK'
  <2>1. request' \in [Requests -> RequestType]
    BY <1>t, <1>14, GotoType, FinishType DEF LockSet, UnlockSet, Pcs
  <2>. QED
    BY <1>t, <1>14, <2>1 DEF LockSet, UnlockSet, TypeOK, Present
<1>15. ASSUME NEW r \in Requests, LockDeactivate(r) PROVE TypeOK'
  <2>1. request' \in [Requests -> RequestType]
    BY <1>t, <1>15, FinishType DEF LockDeactivate
  <2>2. \A t \in Tokens :
          /\ sessions[t] \in SessionType
          /\ [sessions[t] EXCEPT !.state = "inactive"] \in SessionType
          /\ [sessions[t] EXCEPT !.state = "inactive"].line = sessions[t].line
    BY <1>r DEF SessionType
  <2>3. sessions' \in [Tokens -> SessionType]
    BY <1>15, <2>2 DEF LockDeactivate
  <2>4. \A t \in Tokens : Present(t)' => sessions'[t].line \in Lines
    BY <1>p, <1>15, <2>2 DEF LockDeactivate, Present
  <2>5. revoked' \subseteq Lines
    BY <1>t, <1>p, <1>15 DEF LockDeactivate, TypeOK
  <2>. QED
    BY <1>t, <1>15, <2>1, <2>3, <2>4, <2>5 DEF LockDeactivate, TypeOK, Present
<1>16. ASSUME NEW r \in Requests, Abort(r) PROVE TypeOK'
  <2> DEFINE b == request[r].excess \/ request[r].pc \in {"list", "trim"}
  <2>1. b \in BOOLEAN
    OBVIOUS
  <2>2. request' = [request EXCEPT ![r] =
           [request[r] EXCEPT !.pc = "aborted", !.touch = FALSE, !.excess = b]]
    BY <1>r, <1>16 DEF Abort
  <2>. HIDE DEF b
  <2>3. [request[r] EXCEPT !.pc = "aborted", !.touch = FALSE, !.excess = b]
           \in RequestType
    BY <1>r, <2>1 DEF RequestType, Pcs
  <2>4. request' \in [Requests -> RequestType]
    BY <1>t, <2>2, <2>3, RequestUpdate
  <2>. QED
    BY <1>16, <1>q, <2>4 DEF Abort
<1>17. ASSUME NEW d \in Devices, Expire(d) PROVE TypeOK'
  BY <1>t, <1>r, <1>17, <1>s, DeleteType DEF Expire
<1>18. ASSUME Tick PROVE TypeOK'
  BY <1>t, <1>18, LimitAssumption DEF Tick, TypeOK, Seconds, Present
<1>19. CASE UNCHANGED vars
  BY <1>t, <1>19 DEF TypeOK, Present, vars
<1>. QED
  BY <1>1, <1>2, <1>3, <1>4, <1>5, <1>6, <1>7, <1>8, <1>9, <1>10, <1>11,
     <1>12, <1>13, <1>14, <1>15, <1>16, <1>17, <1>18, <1>19
  DEF Next, Arrive, Step

-----------------------------------------------------------------------------
(* Where the lines are                                                     *)

\* Request q takes nothing new in hand.
Calm(q) ==
    /\ request[q].pc # "idle" => request'[q].pc # "idle"
    /\ request'[q].pc = "create" =>
         request[q].pc = "create" /\ request'[q].line = request[q].line
    /\ request'[q].pc \in {"loadUser", "consume"} =>
         request[q].pc \in {"loadUser", "consume"}
         /\ request'[q].token = request[q].token

\* No session appears, changes its line or becomes active.
Shrinks == \A t \in Tokens :
    Present(t)' => /\ Present(t) /\ sessions'[t].line = sessions[t].line
                   /\ Live(t)' => Live(t)

LEMMA CalmUsed ==
    ASSUME \A q \in Requests : Calm(q), NEW l, Used(l)
    PROVE  Used(l)'
BY DEF Calm, Used

LEMMA CalmStep ==
    ASSUME Inv, \A q \in Requests : Calm(q), Shrinks, revoked' = revoked
    PROVE  Lined' /\ Placed' /\ Ended'
<1>1. \A q \in Requests, l \in Lines \cup revoked : InHand(q, l)' => InHand(q, l)
  BY DEF Calm, InHand, At
<1>2. \A q \in Requests, t \in Tokens : Holding(q, t)' => Holding(q, t)
  BY DEF Calm, Holding
<1>3. Lined'
  BY DEF Calm, Inv, Lined, At
<1>4. Placed'
  <2>1. RotationNeverForks'
    BY <1>1 DEF Inv, Placed, RotationNeverForks, Shrinks, TypeOK
  <2>2. \A t \in Tokens : Present(t)' => Used(sessions[t].line)'
    BY CalmUsed DEF Inv, Placed, Shrinks
  <2>3. \A q \in Requests, l \in Lines : InHand(q, l)' => Used(l)'
    BY <1>1, CalmUsed DEF Inv, Placed
  <2>. QED
    BY <2>1, <2>2, <2>3 DEF Placed
<1>5. Ended'
  <2>1. \A t \in Tokens : Present(t)' /\ sessions'[t].line \in revoked' =>
          ~Live(t)' /\ \A q \in Requests : ~Holding(q, t)'
    BY <1>2 DEF Inv, Ended, Shrinks
  <2>2. \A q \in Requests, l \in revoked' : ~InHand(q, l)'
    BY <1>1 DEF Inv, Ended
  <2>3. \A l \in revoked' : Used(l)'
    BY CalmUsed DEF Inv, Ended
  <2>. QED
    BY <2>1, <2>2, <2>3 DEF Ended
<1>. QED
  BY <1>3, <1>4, <1>5

\* What the deletions leave.
LEMMA DeleteShrinks ==
    ASSUME TypeOK, NEW ts, Delete(ts)
    PROVE  Shrinks
BY DEF TypeOK, Delete, Shrinks, Present, Live, Absent

LEMMA LineStep == Inv /\ [Next]_vars => Lined' /\ Placed' /\ Ended'
<1>. SUFFICES ASSUME Inv, [Next]_vars PROVE Lined' /\ Placed' /\ Ended'
  OBVIOUS
<1>r. /\ TypeOK /\ request \in [Requests -> RequestType] /\ now \in Tokens
      /\ sessions \in [Tokens -> SessionType]
  BY DEF Inv, TypeOK, Tokens
<1>d. /\ Requests \subseteq Lines /\ Devices \cap Requests = {}
      /\ \A t \in Tokens : Present(t) => sessions[t].line \in Lines
  BY <1>r, NameAssumption DEF Lines, TypeOK
<1>l. ASSUME NEW t \in Tokens, NEW q \in Requests, Present(t)
      PROVE  ~InHand(q, sessions[t].line)
  BY <1>l DEF Inv, Placed, RotationNeverForks
\* One request moves on, taking nothing in hand, and no session is created.
<1>c. ASSUME NEW r \in Requests, Calm(r),
             \A q \in Requests \ {r} : request'[q] = request[q],
             Shrinks, revoked' = revoked
      PROVE  Lined' /\ Placed' /\ Ended'
  BY <1>c, CalmStep DEF Calm
<1>n. sessions' = sessions => Shrinks
  BY DEF Shrinks, Present, Live
<1>1. ASSUME NEW r \in Requests, LoginCheck(r) PROVE Lined' /\ Placed' /\ Ended'
  <2>1. /\ request'[r].pc = "create" /\ request'[r].line = r
        /\ \A q \in Requests \ {r} : request'[q] = request[q]
        /\ request[r].pc = "idle" /\ sessions' = sessions /\ revoked' = revoked
    BY <1>r, <1>1 DEF LoginCheck, Arrives, At, Begin, Fresh
  <2>2. /\ ~Used(r)
        /\ \A l : Used(l) => Used(l)'
        /\ Used(r)'
    BY <1>d, <2>1 DEF Used
  <2>3. \A q \in Requests : \A l :
          InHand(q, l)' <=> (q = r /\ l = r) \/ (q # r /\ InHand(q, l))
    BY <2>1 DEF InHand, At
  <2>4. \A q \in Requests, t \in Tokens : Holding(q, t)' => Holding(q, t)
    BY <2>1 DEF Holding
  <2>5. /\ \A t \in Tokens : Present(t) => sessions[t].line # r
        /\ \A q \in Requests : ~InHand(q, r)
        /\ r \notin revoked
    BY <1>d, <2>2 DEF Inv, Placed, Ended
  <2>6. Lined'
    BY <1>d, <2>1 DEF Inv, Lined, At
  <2>7. RotationNeverForks'
    BY <2>1, <2>3, <2>5 DEF Inv, Placed, RotationNeverForks, Present
  <2>8. Placed'
    BY <2>1, <2>2, <2>3, <2>7 DEF Inv, Placed, Present
  <2>9. Ended'
    BY <2>1, <2>2, <2>3, <2>4, <2>5 DEF Inv, Ended, Present, Live
  <2>. QED
    BY <2>6, <2>8, <2>9
<1>2. ASSUME NEW r \in Requests, NEW u \in Tokens, RefreshFind(r, u)
      PROVE  Lined' /\ Placed' /\ Ended'
  <2>1. /\ request'[r].pc = "loadUser" /\ request'[r].token = u
        /\ \A q \in Requests \ {r} : request'[q] = request[q]
        /\ request[r].pc = "idle" /\ sessions' = sessions /\ revoked' = revoked
        /\ Live(u)
    BY <1>r, <1>2 DEF RefreshFind, Arrives, At, Begin, Fresh
  <2>2. \A l : Used(l) => Used(l)'
    BY <2>1 DEF Used
  <2>3. \A q \in Requests : \A l : InHand(q, l)' => InHand(q, l)
    BY <2>1 DEF InHand, At
  <2>4. \A q \in Requests, t \in Tokens :
          Holding(q, t)' => Holding(q, t) \/ t = u
    BY <2>1 DEF Holding
  <2>5. sessions[u].line \notin revoked
    BY <2>1 DEF Inv, Ended, Live, Present
  <2>6. Lined'
    BY <2>1 DEF Inv, Lined, At
  <2>7. RotationNeverForks'
    BY <2>1, <2>3 DEF Inv, Placed, RotationNeverForks, Present
  <2>8. Placed'
    BY <2>1, <2>2, <2>3, <2>7 DEF Inv, Placed, Present
  <2>9. Ended'
    BY <2>1, <2>2, <2>3, <2>4, <2>5 DEF Inv, Ended, Present, Live
  <2>. QED
    BY <2>6, <2>8, <2>9
<1>3. ASSUME NEW r \in Requests, Mint(r) PROVE Lined' /\ Placed' /\ Ended'
  <2> DEFINE line == request[r].line
  <2>1. /\ request'[r].pc \in {"list", "done"} /\ At(r, "create")
        /\ \A q \in Requests \ {r} : request'[q] = request[q]
        /\ revoked' = revoked /\ ~Present(now)
        /\ sessions'[now].line = line /\ sessions'[now].state = "active"
        /\ \A t \in Tokens \ {now} : sessions'[t] = sessions[t]
    BY <1>r, <1>3 DEF Mint, Goto, At, RequestType
  <2>2. line \in Lines /\ InHand(r, line)
    BY <2>1 DEF Inv, Lined, InHand
  <2>3. \A l : Used(l) => Used(l)'
    BY <2>1 DEF Used
  <2>4. \A q \in Requests : \A l : InHand(q, l)' => q # r /\ InHand(q, l)
    BY <2>1 DEF InHand, At
  <2>5. \A q \in Requests, t \in Tokens : Holding(q, t)' => Holding(q, t)
    BY <2>1 DEF Holding
  <2>6. /\ \A t \in Tokens : Present(t) => sessions[t].line # line
        /\ \A q \in Requests \ {r} : ~InHand(q, line)
        /\ line \notin revoked /\ Used(line)
    BY <1>l, <2>2 DEF Inv, Placed, Ended, RotationNeverForks
  <2>7. \A t \in Tokens : Present(t)' => t = now \/ (Present(t) /\ t # now)
    BY <2>1 DEF Present
  <2>. HIDE DEF line
  <2>8. Lined'
    BY <2>1 DEF Inv, Lined, At
  <2>9. RotationNeverForks'
    <3>1. \A t, u \in Tokens : Present(t)' /\ Present(u)'
              /\ sessions'[t].line = sessions'[u].line => t = u
      BY <2>1, <2>6, <2>7 DEF Inv, Placed, RotationNeverForks
    <3>2. \A t \in Tokens, q \in Requests :
             Present(t)' => ~InHand(q, sessions[t].line)'
      BY <1>l, <2>1, <2>4, <2>6, <2>7
    <3>3. \A q, p \in Requests, l \in Lines : InHand(q, l)' /\ InHand(p, l)' => q = p
      BY <2>4 DEF Inv, Placed, RotationNeverForks
    <3>. QED
      BY <3>1, <3>2, <3>3 DEF RotationNeverForks
  <2>10. \A t \in Tokens : Present(t)' => Used(sessions[t].line)'
    BY <2>1, <2>3, <2>6, <2>7 DEF Inv, Placed
  <2>11. Placed'
    BY <2>3, <2>4, <2>9, <2>10 DEF Inv, Placed
  <2>12. \A t \in Tokens : Present(t)' /\ sessions'[t].line \in revoked =>
           ~Live(t)' /\ \A q \in Requests : ~Holding(q, t)'
    BY <2>1, <2>5, <2>6, <2>7 DEF Inv, Ended, Live
  <2>13. Ended'
    BY <2>1, <2>3, <2>4, <2>12 DEF Inv, Ended
  <2>. QED
    BY <2>8, <2>11, <2>13
<1>4. ASSUME NEW r \in Requests, Consume(r) PROVE Lined' /\ Placed' /\ Ended'
  <2> DEFINE u == request[r].token
             line == sessions[u].line
  <2>0. u \in Tokens /\ Holding(r, u) /\ At(r, "consume")
    BY <1>4 DEF Consume, Inv, Lined, Holding, At
  <2>1. CASE ~Present(u)
    <3>1. /\ request'[r].pc = "done"
          /\ \A q \in Requests \ {r} : request'[q] = request[q]
          /\ revoked' = revoked
      BY <1>r, <1>4, <2>1 DEF Consume, RequestType
    <3>2. Calm(r)
      BY <3>1 DEF Calm
    <3>3. Shrinks
      BY <1>r, <1>4, DeleteShrinks DEF Consume
    <3>. QED
      BY <1>c, <3>1, <3>2, <3>3
  <2>2. CASE Present(u)
    <3>1. /\ request'[r].pc = "create" /\ request'[r].line = line
          /\ \A q \in Requests \ {r} : request'[q] = request[q]
          /\ revoked' = revoked
          /\ sessions'[u].state = "absent"
          /\ \A t \in Tokens \ {u} : sessions'[t] = sessions[t]
      BY <1>r, <1>4, <2>0, <2>2 DEF Consume, Delete, Absent, RequestType
    <3>2. \A l : Used(l) => Used(l)'
      BY <3>1 DEF Used
    <3>3. \A q \in Requests : \A l :
            InHand(q, l)' => (q = r /\ l = line) \/ (q # r /\ InHand(q, l))
      BY <3>1 DEF InHand, At
    <3>4. \A q \in Requests, t \in Tokens : Holding(q, t)' => Holding(q, t)
      BY <3>1 DEF Holding
    <3>5. /\ line \in Lines /\ Used(line) /\ line \notin revoked
          /\ \A q \in Requests : ~InHand(q, line)
          /\ \A t \in Tokens \ {u} : Present(t) => sessions[t].line # line
      BY <1>d, <1>l, <2>0, <2>2 DEF Inv, Placed, Ended, RotationNeverForks
    <3>6. \A t \in Tokens : Present(t)' => Present(t) /\ t # u
      BY <3>1 DEF Present
    <3>. HIDE DEF u, line
    <3>7. Lined'
      BY <3>1, <3>5 DEF Inv, Lined, At
    <3>8. RotationNeverForks'
      <4>1. \A t, v \in Tokens : Present(t)' /\ Present(v)'
                /\ sessions'[t].line = sessions'[v].line => t = v
        BY <3>1, <3>6 DEF Inv, Placed, RotationNeverForks
      <4>2. \A t \in Tokens, q \in Requests :
               Present(t)' => ~InHand(q, sessions[t].line)'
        BY <1>l, <3>1, <3>3, <3>5, <3>6
      <4>3. \A q, p \in Requests, l \in Lines :
               InHand(q, l)' /\ InHand(p, l)' => q = p
        BY <3>3, <3>5 DEF Inv, Placed, RotationNeverForks
      <4>. QED
        BY <4>1, <4>2, <4>3 DEF RotationNeverForks
    <3>9. \A t \in Tokens : Present(t)' => Used(sessions[t].line)'
      BY <3>1, <3>2, <3>6 DEF Inv, Placed
    <3>10. Placed'
      BY <3>2, <3>3, <3>5, <3>8, <3>9 DEF Inv, Placed
    <3>11. \A t \in Tokens : Present(t)' /\ sessions'[t].line \in revoked =>
             ~Live(t)' /\ \A q \in Requests : ~Holding(q, t)'
      BY <3>1, <3>4, <3>6 DEF Inv, Ended, Live
    <3>12. Ended'
      BY <3>1, <3>2, <3>3, <3>5, <3>11 DEF Inv, Ended
    <3>. QED
      BY <3>7, <3>10, <3>12
  <2>. QED
    BY <2>1, <2>2
<1>5. ASSUME NEW r \in Requests, RevokeAll(r) PROVE Lined' /\ Placed' /\ Ended'
  <2>1. /\ request'[r].pc = "done"
        /\ \A q \in Requests \ {r} : request'[q] = request[q]
        /\ \A t \in Tokens : ~Present(t)'
        /\ \A l \in revoked' : l \in revoked
              \/ \E t \in Tokens : Present(t) /\ l = sessions[t].line
    BY <1>r, <1>5 DEF RevokeAll, Finish, Goto, Delete, Present, Absent, RequestType
  <2>2. \A q \in Requests : Calm(q)
    BY <2>1 DEF Calm
  <2>3. \A l : Used(l) => Used(l)'
    BY <2>2, CalmUsed
  <2>4. \A q \in Requests : \A l : InHand(q, l)' => InHand(q, l)
    BY <2>2 DEF Calm, InHand, At
  <2>5. Lined'
    BY <2>2 DEF Calm, Inv, Lined, At
  <2>6. Placed'
    BY <2>1, <2>3, <2>4 DEF Inv, Placed, RotationNeverForks
  <2>7. Ended'
    BY <1>l, <2>1, <2>3, <2>4 DEF Inv, Placed, Ended
  <2>. QED
    BY <2>5, <2>6, <2>7
<1>6. ASSUME NEW r \in Requests, LockDeactivate(r)
      PROVE  Lined' /\ Placed' /\ Ended'
  <2>1. /\ request'[r].pc = "done"
        /\ \A q \in Requests \ {r} : request'[q] = request[q]
        /\ \A t \in Tokens : Present(t) =>
              sessions'[t].state = "inactive" /\ sessions'[t].line = sessions[t].line
        /\ \A t \in Tokens : ~Present(t) => sessions'[t] = sessions[t]
        /\ \A l \in revoked' : l \in revoked
              \/ \E t \in Tokens : /\ Present(t) /\ l = sessions[t].line
                                   /\ \A q \in Requests : ~Holding(q, t)
    BY <1>r, <1>6 DEF LockDeactivate, Finish, Goto, RequestType, SessionType
  <2>2. \A q \in Requests : Calm(q)
    BY <2>1 DEF Calm
  <2>3. \A l : Used(l) => Used(l)'
    BY <2>2, CalmUsed
  <2>4. \A q \in Requests : \A l : InHand(q, l)' => InHand(q, l)
    BY <2>2 DEF Calm, InHand, At
  <2>5. \A q \in Requests, t \in Tokens : Holding(q, t)' => Holding(q, t)
    BY <2>2 DEF Calm, Holding
  <2>6. \A t \in Tokens : Present(t)' =>
          Present(t) /\ sessions'[t].line = sessions[t].line /\ ~Live(t)'
    BY <2>1 DEF Present, Live
  <2>7. Lined'
    BY <2>2 DEF Calm, Inv, Lined, At
  <2>8. RotationNeverForks'
    BY <1>l, <2>4, <2>6 DEF Inv, Placed, RotationNeverForks
  <2>9. Placed'
    BY <2>3, <2>4, <2>6, <2>8 DEF Inv, Placed
  <2>10. \A t \in Tokens : Present(t)' /\ sessions'[t].line \in revoked' =>
           \A q \in Requests : ~Holding(q, t)'
    BY <2>1, <2>5, <2>6 DEF Inv, Placed, Ended, RotationNeverForks
  <2>11. Ended'
    BY <1>l, <2>1, <2>3, <2>4, <2>6, <2>10 DEF Inv, Placed, Ended
  <2>. QED
    BY <2>7, <2>9, <2>11
<1>7. ASSUME NEW r \in Requests,
             (\E t \in Tokens : LogoutGuard(r, t)) \/ RevokeGuard(r)
             \/ LockRead(r) \/ UnlockRead(r)
      PROVE  Lined' /\ Placed' /\ Ended'
  <2>1. /\ request'[r].pc \in {"drop", "revoke", "lock", "unlock"}
        /\ \A q \in Requests \ {r} : request'[q] = request[q]
        /\ sessions' = sessions /\ revoked' = revoked
    BY <1>r, <1>7 DEF LogoutGuard, RevokeGuard, LockRead, UnlockRead, Begin, Fresh
  <2>2. Calm(r)
    BY <2>1 DEF Calm
  <2>. QED
    BY <1>c, <1>n, <2>1, <2>2
<1>8. ASSUME NEW r \in Requests,
             MintClash(r) \/ RefreshLoadUser(r) \/ LockSet(r) \/ UnlockSet(r)
             \/ Abort(r)
      PROVE  Lined' /\ Placed' /\ Ended'
  <2>1. /\ request[r].pc # "idle" /\ request'[r].token = request[r].token
        /\ \/ request'[r].pc \in {"done", "deactivate", "aborted"}
           \/ request[r].pc = "loadUser" /\ request'[r].pc = "consume"
        /\ \A q \in Requests \ {r} : request'[q] = request[q]
        /\ sessions' = sessions /\ revoked' = revoked
    BY <1>r, <1>8 DEF MintClash, RefreshLoadUser, LockSet, UnlockSet, Abort,
       Finish, Goto, At, RequestType
  <2>2. Calm(r)
    BY <2>1 DEF Calm
  <2>. QED
    BY <1>c, <1>n, <2>1, <2>2
<1>9. ASSUME NEW r \in Requests, TrimDelete(r) \/ LogoutDrop(r)
      PROVE  Lined' /\ Placed' /\ Ended'
  <2>1. /\ request'[r].pc = "done" /\ revoked' = revoked
        /\ \A q \in Requests \ {r} : request'[q] = request[q]
    BY <1>r, <1>9 DEF TrimDelete, LogoutDrop, Finish, Goto, RequestType
  <2>2. Calm(r)
    BY <2>1 DEF Calm
  <2>3. Shrinks
    BY <1>r, <1>9, DeleteShrinks DEF TrimDelete, LogoutDrop
  <2>. QED
    BY <1>c, <2>1, <2>2, <2>3
<1>10. ASSUME NEW r \in Requests, TrimList(r) PROVE Lined' /\ Placed' /\ Ended'
  <2>1. /\ sessions' = sessions /\ revoked' = revoked /\ At(r, "list")
        /\ request'[r].pc = "trim"
        /\ \A q \in Requests \ {r} :
              /\ request'[q].pc = request[q].pc
              /\ request'[q].line = request[q].line
              /\ request'[q].token = request[q].token
    <3>1. PICK doomed \in SUBSET LiveTokens :
            request' = [q \in Requests |->
               IF q = r THEN [request[r] EXCEPT !.pc = "trim", !.doomed = doomed]
               ELSE [request[q] EXCEPT !.excess = @ \/ Rotating(q)]]
      BY <1>10 DEF TrimList
    <3>2. /\ \A q \in Requests \ {r} :
               request'[q] = [request[q] EXCEPT !.excess = @ \/ Rotating(q)]
          /\ request'[r] = [request[r] EXCEPT !.pc = "trim", !.doomed = doomed]
      BY <3>1
    <3>3. ASSUME NEW q \in Requests, NEW b
          PROVE  LET h == [request[q] EXCEPT !.excess = b]
                 IN  /\ h.pc = request[q].pc /\ h.line = request[q].line
                     /\ h.token = request[q].token
      BY <1>r DEF RequestType
    <3>4. [request[r] EXCEPT !.pc = "trim", !.doomed = doomed].pc = "trim"
      BY <1>r DEF RequestType
    <3>5. ASSUME NEW q \in Requests \ {r}
          PROVE  /\ request'[q].pc = request[q].pc
                 /\ request'[q].line = request[q].line
                 /\ request'[q].token = request[q].token
      <4> DEFINE b == request[q].excess \/ Rotating(q)
      <4>1. request'[q] = [request[q] EXCEPT !.excess = b]
        BY <3>2
      <4>. HIDE DEF b
      <4>. QED
        BY <3>3, <4>1
    <3>6. sessions' = sessions /\ revoked' = revoked /\ At(r, "list")
      BY <1>10 DEF TrimList
    <3>. QED
      BY <3>2, <3>4, <3>5, <3>6
  <2>2. \A q \in Requests : Calm(q)
    BY <2>1 DEF Calm, At
  <2>. QED
    BY <1>n, <2>1, <2>2, CalmStep
<1>11. ASSUME NEW r \in Requests, Touch(r) PROVE Lined' /\ Placed' /\ Ended'
  <2>1. /\ revoked' = revoked
        /\ request'[r].pc = request[r].pc /\ request'[r].line = request[r].line
        /\ request'[r].token = request[r].token
        /\ \A q \in Requests \ {r} : request'[q] = request[q]
    BY <1>r, <1>11 DEF Touch, RequestType
  <2>2. Calm(r)
    BY <2>1 DEF Calm
  <2>3. Shrinks
    BY <1>r, <1>11 DEF Touch, Shrinks, Present, Live, SessionType
  <2>. QED
    BY <1>c, <2>1, <2>2, <2>3
<1>12. ASSUME (\E d \in Devices : Expire(d)) \/ Tick \/ UNCHANGED vars
       PROVE  Lined' /\ Placed' /\ Ended'
  <2>1. request' = request /\ revoked' = revoked
    BY <1>12 DEF Expire, Tick, vars
  <2>2. \A q \in Requests : Calm(q)
    BY <2>1 DEF Calm
  <2>3. Shrinks
    BY <1>r, <1>n, <1>12, DeleteShrinks DEF Expire, Tick, vars
  <2>. QED
    BY <2>1, <2>2, <2>3, CalmStep
<1>. QED
  BY <1>1, <1>2, <1>3, <1>4, <1>5, <1>6, <1>7, <1>8, <1>9, <1>10, <1>11, <1>12
  DEF Next, Arrive, Step

LEMMA InitInv == Init => Inv
<1>. SUFFICES ASSUME Init PROVE Inv
  OBVIOUS
<1>1. \A t \in Tokens :
        sessions[t] = IF t \in Devices
                      THEN [state |-> "active", line |-> t, used |-> 0]
                      ELSE Absent
  BY DEF Init
<1>2. \A t \in Tokens : Present(t) => t \in Devices /\ sessions[t].line = t
  <2>1. Absent.state = "absent"
    BY DEF Absent
  <2>2. \A t \in Tokens \ Devices : sessions[t] = Absent
    BY <1>1
  <2>3. ASSUME NEW t \in Tokens, t \in Devices PROVE sessions[t].line = t
    <3>1. sessions[t] = [state |-> "active", line |-> t, used |-> 0]
      BY <1>1, <2>3
    <3>. QED
      BY <3>1
  <2>. QED
    BY <2>1, <2>2, <2>3 DEF Present
<1>3. \A r \in Requests : request[r].pc = "idle"
  BY DEF Init, Fresh
<1>4. TypeOK
  <2>1. \A t \in Devices :
          [state |-> "active", line |-> t, used |-> 0] \in SessionType
    BY LimitAssumption DEF SessionType, Lines, Seconds
  <2>2. sessions \in [Tokens -> SessionType]
    <3> DEFINE s(t) == IF t \in Devices
                       THEN [state |-> "active", line |-> t, used |-> 0]
                       ELSE Absent
    <3>1. \A t \in Tokens : s(t) \in SessionType
      BY <2>1, AbsentType
    <3>2. sessions = [t \in Tokens |-> s(t)]
      BY DEF Init
    <3>. HIDE DEF s
    <3>. QED
      BY <3>1, <3>2
  <2>3. now \in Seconds
    BY LimitAssumption DEF Init, Seconds
  <2>4. locked \in BOOLEAN /\ revoked = {}
    BY Zenon DEF Init
  <2>5. request \in [Requests -> RequestType]
    BY FreshType DEF Init
  <2>. QED
    BY <1>2, <2>2, <2>3, <2>4, <2>5 DEF TypeOK, Lines
<1>5. Lined
  BY <1>3 DEF Lined, At
<1>6. Placed
  BY <1>2, <1>3 DEF Placed, RotationNeverForks, InHand, At, Used
<1>7. Ended
  BY DEF Init, Ended
<1>. QED
  BY <1>4, <1>5, <1>6, <1>7 DEF Inv

LEMMA InvHolds == Spec => []Inv
<1>1. Inv /\ [Next]_vars => Inv'
  BY TypeStep, LineStep DEF Inv
<1>. QED
  BY InitInv, <1>1, PTL DEF Spec

\* Every variable keeps its type, and a session always names a line.
THEOREM SessionsTyped == Spec => []TypeOK
<1>1. Inv => TypeOK
  BY DEF Inv
<1>. QED
  BY InvHolds, <1>1, PTL

\* However refreshes, sign-ins and revocations interleave, a sign-in never
\* has two sessions: rotation consumes the one it continues.
THEOREM NeverForks == Spec => []RotationNeverForks
<1>1. Inv => RotationNeverForks
  BY DEF Inv, Placed
<1>. QED
  BY InvHolds, <1>1, PTL

\* A line ended by a revocation or a lock has no live session ever after.
THEOREM RevocationHolds == Spec => []RevokedStaysRevoked
<1>1. Inv => RevokedStaysRevoked
  BY DEF Inv, Ended, RevokedStaysRevoked, Live, Present
<1>. QED
  BY InvHolds, <1>1, PTL

-----------------------------------------------------------------------------
(* How many sessions are live                                              *)
(*                                                                         *)
(* Of every set of trims under way, what is left when they have deleted,   *)
(* with the pending creations of the rotations, exceeds the limit by no    *)
(* more than the excused requests and the other sign-ins under way.        *)

Rotations == {r \in Requests : Rotating(r)}
Excused == {r \in Requests : request[r].excess}
SigningIn == {r \in Requests : request[r].pc \in {"list", "trim"}}
Trimming == {r \in Requests : At(r, "trim")}
Doomed(trims) == UNION {request[r].doomed : r \in trims}

\* What a request is at each point, and when it is excused.
Mark(r) ==
    /\ request[r].excess => request[r].pc \in {"done", "aborted"} \/ Rotating(r)
    /\ request[r].pc \in {"loadUser", "consume"} => request[r].op = "refresh"
    /\ At(r, "create") => request[r].op \in {"login", "refresh"}

Marks == \A r \in Requests : Mark(r)

Bound == \A trims \in SUBSET Trimming :
    Cardinality(LiveTokens \ Doomed(trims)) + Cardinality(Rotations)
        <= MaxSessions + Cardinality(Excused) + Cardinality(SigningIn \ trims)

LEMMA Finite ==
    /\ IsFiniteSet(Tokens) /\ IsFiniteSet(LiveTokens)
    /\ \A D : IsFiniteSet(LiveTokens \ D) /\ Cardinality(LiveTokens \ D) \in Nat
    /\ IsFiniteSet(Rotations) /\ Cardinality(Rotations) \in Nat
    /\ IsFiniteSet(Excused) /\ Cardinality(Excused) \in Nat
    /\ \A S : IsFiniteSet(SigningIn \ S) /\ Cardinality(SigningIn \ S) \in Nat
<1>1. IsFiniteSet(Seconds)
  BY FS_Interval, LimitAssumption DEF Seconds
<1>2. IsFiniteSet(Tokens)
  BY <1>1, FS_Union, LimitAssumption DEF Tokens
<1>3. \A T \in SUBSET Tokens : IsFiniteSet(T) /\ Cardinality(T) \in Nat
  BY <1>2, FS_Subset, FS_CardinalityType
<1>4. \A T \in SUBSET Requests : IsFiniteSet(T) /\ Cardinality(T) \in Nat
  BY FS_Subset, FS_CardinalityType, LimitAssumption
<1>. QED
  BY <1>2, <1>3, <1>4 DEF LiveTokens, Rotations, Excused, SigningIn

LEMMA FiniteNext ==
    /\ \A D : IsFiniteSet(LiveTokens' \ D) /\ Cardinality(LiveTokens' \ D) \in Nat
    /\ IsFiniteSet(Rotations') /\ Cardinality(Rotations') \in Nat
    /\ IsFiniteSet(Excused') /\ Cardinality(Excused') \in Nat
    /\ \A S : IsFiniteSet(SigningIn' \ S) /\ Cardinality(SigningIn' \ S) \in Nat
<1>3. \A T \in SUBSET Tokens : IsFiniteSet(T) /\ Cardinality(T) \in Nat
  BY Finite, FS_Subset, FS_CardinalityType
<1>4. \A T \in SUBSET Requests : IsFiniteSet(T) /\ Cardinality(T) \in Nat
  BY FS_Subset, FS_CardinalityType, LimitAssumption
<1>. QED
  BY <1>3, <1>4 DEF LiveTokens, Rotations, Excused, SigningIn

\* One more element, or one fewer.
LEMMA OneMore ==
    ASSUME NEW A, NEW B, NEW x, IsFiniteSet(A), B \subseteq A \cup {x}
    PROVE  /\ Cardinality(A) \in Nat /\ Cardinality(B) \in Nat
           /\ Cardinality(B) <= Cardinality(A) + 1
<1>1. /\ IsFiniteSet(A \cup {x}) /\ Cardinality(A) \in Nat
      /\ Cardinality(A \cup {x}) \in {Cardinality(A), Cardinality(A) + 1}
  BY FS_AddElement, FS_CardinalityType
<1>2. /\ Cardinality(B) \in Nat
      /\ Cardinality(B) <= Cardinality(A \cup {x})
  BY <1>1, FS_Subset, FS_CardinalityType
<1>. QED
  BY <1>1, <1>2

LEMMA OneFewer ==
    ASSUME NEW A, NEW B, NEW x \in A, IsFiniteSet(A), B \subseteq A \ {x}
    PROVE  /\ Cardinality(A) \in Nat /\ Cardinality(B) \in Nat
           /\ Cardinality(B) <= Cardinality(A) - 1
<1>1. /\ IsFiniteSet(A \ {x}) /\ Cardinality(A) \in Nat
      /\ Cardinality(A \ {x}) = Cardinality(A) - 1
  BY FS_RemoveElement, FS_CardinalityType
<1>2. /\ Cardinality(B) \in Nat
      /\ Cardinality(B) <= Cardinality(A \ {x})
  BY <1>1, FS_Subset, FS_CardinalityType
<1>. QED
  BY <1>1, <1>2

LEMMA NoMore ==
    ASSUME NEW A, NEW B, IsFiniteSet(A), B \subseteq A
    PROVE  /\ Cardinality(A) \in Nat /\ Cardinality(B) \in Nat
           /\ Cardinality(B) <= Cardinality(A)
BY FS_Subset, FS_CardinalityType

\* Request q neither rotates nor signs in anew.
Quiet(q) ==
    /\ Rotating(q)' => Rotating(q)
    /\ request[q].excess => request'[q].excess
    /\ request[q].pc \in {"list", "trim"} => request'[q].pc \in {"list", "trim"}
    /\ At(q, "trim")' => At(q, "trim") /\ request'[q].doomed = request[q].doomed

LEMMA QuietBound ==
    ASSUME Bound, \A q \in Requests : Quiet(q), LiveTokens' \subseteq LiveTokens
    PROVE  Bound'
<1>. SUFFICES ASSUME NEW trims \in SUBSET Trimming'
     PROVE  Cardinality(LiveTokens' \ Doomed(trims)') + Cardinality(Rotations')
              <= MaxSessions + Cardinality(Excused') + Cardinality(SigningIn' \ trims)
  BY DEF Bound
<1> DEFINE live == Cardinality(LiveTokens \ Doomed(trims))
           liveNext == Cardinality(LiveTokens' \ Doomed(trims)')
           signing == Cardinality(SigningIn \ trims)
           signingNext == Cardinality(SigningIn' \ trims)
<1>1. trims \in SUBSET Trimming /\ Doomed(trims)' = Doomed(trims)
  BY DEF Trimming, Doomed, Quiet
<1>2. /\ Rotations' \subseteq Rotations /\ Excused \subseteq Excused'
      /\ SigningIn \ trims \subseteq SigningIn' \ trims
      /\ LiveTokens' \ Doomed(trims)' \subseteq LiveTokens \ Doomed(trims)
  BY <1>1 DEF Rotations, Excused, SigningIn, Quiet
<1>3. liveNext \in Nat /\ live \in Nat /\ liveNext <= live
  BY <1>2, Finite, FiniteNext, NoMore
<1>4. /\ Cardinality(Rotations) \in Nat /\ Cardinality(Rotations') \in Nat
      /\ Cardinality(Rotations') <= Cardinality(Rotations)
  BY <1>2, Finite, NoMore
<1>5. /\ Cardinality(Excused) \in Nat /\ Cardinality(Excused') \in Nat
      /\ Cardinality(Excused) <= Cardinality(Excused')
  BY <1>2, FiniteNext, NoMore
<1>6. signing \in Nat /\ signingNext \in Nat /\ signing <= signingNext
  BY <1>2, FiniteNext, NoMore
<1>7. live + Cardinality(Rotations) <= MaxSessions + Cardinality(Excused) + signing
  BY <1>1 DEF Bound
<1>. HIDE DEF live, liveNext, signing, signingNext
<1>8. liveNext + Cardinality(Rotations')
        <= MaxSessions + Cardinality(Excused') + signingNext
  BY <1>3, <1>4, <1>5, <1>6, <1>7, LimitAssumption
<1>. QED
  BY <1>8 DEF liveNext, signingNext

LEMMA ShrinksLive ==
    ASSUME Shrinks
    PROVE  LiveTokens' \subseteq LiveTokens
BY DEF Shrinks, LiveTokens, Live, Present

\* A sign-in's session is one more, and so is its trim; a rotation's replaces
\* the creation that was pending.
LEMMA MintBound ==
    ASSUME Inv, Marks, Bound, NEW r \in Requests, Mint(r)
    PROVE  Marks' /\ Bound'
<1>1. /\ request \in [Requests -> RequestType] /\ At(r, "create") /\ now \in Tokens
      /\ Mark(r)
  BY DEF Inv, TypeOK, Tokens, Mint, Marks
<1>2. /\ \A q \in Requests \ {r} : request'[q] = request[q]
      /\ request'[r].op = request[r].op /\ request'[r].excess = request[r].excess
      /\ request'[r].pc = IF request[r].op = "login" THEN "list" ELSE "done"
  BY <1>1 DEF Mint, Goto, RequestType
<1>3. LiveTokens' \subseteq LiveTokens \cup {now}
  BY DEF Mint, LiveTokens, Live, Inv, TypeOK
<1>4. Marks'
  BY <1>1, <1>2 DEF Marks, Mark, Rotating, At
<1>5. Bound'
  <2>. SUFFICES ASSUME NEW trims \in SUBSET Trimming'
       PROVE  Cardinality(LiveTokens' \ Doomed(trims)') + Cardinality(Rotations')
                <= MaxSessions + Cardinality(Excused') + Cardinality(SigningIn' \ trims)
    BY DEF Bound
  <2> DEFINE live == Cardinality(LiveTokens \ Doomed(trims))
             liveNext == Cardinality(LiveTokens' \ Doomed(trims)')
             signing == Cardinality(SigningIn \ trims)
             signingNext == Cardinality(SigningIn' \ trims)
  <2>1. /\ trims \in SUBSET Trimming /\ Doomed(trims)' = Doomed(trims) /\ r \notin trims
        /\ Excused' = Excused
    BY <1>1, <1>2 DEF Trimming, Doomed, At, Excused
  <2>2. LiveTokens' \ Doomed(trims)' \subseteq (LiveTokens \ Doomed(trims)) \cup {now}
    BY <1>3, <2>1
  <2>3. liveNext \in Nat /\ live \in Nat /\ liveNext <= live + 1
    BY <2>2, Finite, OneMore
  <2>4. /\ Cardinality(Rotations) \in Nat /\ Cardinality(Rotations') \in Nat
        /\ Cardinality(Excused) \in Nat /\ signing \in Nat /\ signingNext \in Nat
    BY Finite, FiniteNext
  <2>5. live + Cardinality(Rotations) <= MaxSessions + Cardinality(Excused) + signing
    BY <2>1 DEF Bound
  <2>6. CASE request[r].op = "login"
    <3>1. /\ Rotations' = Rotations
          /\ SigningIn \ trims = (SigningIn' \ trims) \ {r} /\ r \in SigningIn' \ trims
      BY <1>1, <1>2, <2>1, <2>6 DEF Rotations, Rotating, SigningIn, At
    <3>2. signing <= signingNext - 1
      BY <3>1, FiniteNext, OneFewer
    <3>. HIDE DEF live, liveNext, signing, signingNext
    <3>3. liveNext + Cardinality(Rotations')
            <= MaxSessions + Cardinality(Excused') + signingNext
      BY <2>1, <2>3, <2>4, <2>5, <3>1, <3>2, LimitAssumption
    <3>. QED
      BY <3>3 DEF liveNext, signingNext
  <2>7. CASE request[r].op # "login"
    <3>1. /\ Rotations' \subseteq Rotations \ {r} /\ r \in Rotations
          /\ SigningIn' = SigningIn
      BY <1>1, <1>2, <2>7 DEF Rotations, Rotating, SigningIn, At, Mark
    <3>2. Cardinality(Rotations') <= Cardinality(Rotations) - 1
      BY <3>1, Finite, OneFewer
    <3>. HIDE DEF live, liveNext, signing, signingNext
    <3>3. signingNext = signing
      BY <3>1 DEF signing, signingNext
    <3>4. liveNext + Cardinality(Rotations')
            <= MaxSessions + Cardinality(Excused') + signingNext
      BY <2>1, <2>3, <2>4, <2>5, <3>2, <3>3, LimitAssumption
    <3>. QED
      BY <3>4 DEF liveNext, signingNext
  <2>. QED
    BY <2>6, <2>7
<1>. QED
  BY <1>4, <1>5

\* A sign-in that lists the sessions dooms all but the limit, and excuses the
\* rotations whose creation it cannot see.
LEMMA ListBound ==
    ASSUME Inv, Marks, Bound, NEW r \in Requests, TrimList(r)
    PROVE  Marks' /\ Bound'
<1>r. request \in [Requests -> RequestType] /\ At(r, "list") /\ LiveTokens' = LiveTokens
  BY DEF Inv, TypeOK, TrimList, LiveTokens, Live
<1>1. PICK doomed \in SUBSET LiveTokens :
         /\ \/ Cardinality(LiveTokens) <= MaxSessions /\ doomed = {}
            \/ Cardinality(LiveTokens) > MaxSessions /\ Excess(doomed)
         /\ request' = [q \in Requests |->
              IF q = r THEN [request[r] EXCEPT !.pc = "trim", !.doomed = doomed]
              ELSE [request[q] EXCEPT !.excess = @ \/ Rotating(q)]]
  BY DEF TrimList
<1>2. /\ request'[r].pc = "trim" /\ request'[r].doomed = doomed
      /\ request'[r].op = request[r].op /\ request'[r].excess = request[r].excess
  <2>1. request'[r] = [request[r] EXCEPT !.pc = "trim", !.doomed = doomed]
    BY <1>1
  <2>. QED
    BY <1>r, <2>1 DEF RequestType
<1>3. ASSUME NEW q \in Requests \ {r}
      PROVE  /\ request'[q].pc = request[q].pc /\ request'[q].op = request[q].op
             /\ request'[q].doomed = request[q].doomed
             /\ request'[q].excess <=> request[q].excess \/ Rotating(q)
  <2> DEFINE b == request[q].excess \/ Rotating(q)
  <2>1. request'[q] = [request[q] EXCEPT !.excess = b]
    BY <1>1
  <2>. HIDE DEF b
  <2>2. /\ request'[q].pc = request[q].pc /\ request'[q].op = request[q].op
        /\ request'[q].doomed = request[q].doomed /\ request'[q].excess = b
    BY <1>r, <2>1 DEF RequestType
  <2>. QED
    BY <2>2 DEF b
<1>4. Marks'
  <2>1. \A q \in Requests \ {r} : Mark(q)'
    BY <1>3 DEF Marks, Mark, Rotating, At
  <2>2. Mark(r)'
    BY <1>r, <1>2 DEF Marks, Mark, Rotating, At
  <2>. QED
    BY <2>1, <2>2 DEF Marks
<1>5. Cardinality(LiveTokens \ doomed) \in Nat /\ Cardinality(LiveTokens \ doomed) <= MaxSessions
  <2>1. CASE Cardinality(LiveTokens) <= MaxSessions /\ doomed = {}
    <3>1. LiveTokens \ doomed = LiveTokens
      BY <2>1
    <3>. QED
      BY <2>1, <3>1, Finite, FS_CardinalityType
  <2>2. CASE Excess(doomed)
    <3>1. Cardinality(LiveTokens \ doomed) = Cardinality(LiveTokens) - Cardinality(doomed)
      <4>1. LiveTokens \cap doomed = doomed
        OBVIOUS
      <4>. QED
        BY <4>1, Finite, FS_Difference
    <3>2. /\ Cardinality(LiveTokens) \in Nat
          /\ Cardinality(doomed) = Cardinality(LiveTokens) - MaxSessions
      BY <2>2, Finite, FS_CardinalityType DEF Excess
    <3>3. Cardinality(LiveTokens \ doomed) = MaxSessions
      BY <3>1, <3>2, LimitAssumption
    <3>. QED
      BY <3>3, LimitAssumption
  <2>. QED
    BY <1>1, <2>1, <2>2
<1>6. /\ Rotations' = Rotations /\ Rotations \subseteq Excused' /\ Excused \subseteq Excused'
      /\ SigningIn' = SigningIn
  BY <1>r, <1>2, <1>3 DEF Rotations, Rotating, Excused, SigningIn, At
<1>7. Bound'
  <2>. SUFFICES ASSUME NEW trims \in SUBSET Trimming'
       PROVE  Cardinality(LiveTokens' \ Doomed(trims)') + Cardinality(Rotations')
                <= MaxSessions + Cardinality(Excused') + Cardinality(SigningIn' \ trims)
    BY DEF Bound
  <2> DEFINE liveNext == Cardinality(LiveTokens' \ Doomed(trims)')
             signing == Cardinality(SigningIn \ trims)
  <2>1. /\ Cardinality(Rotations) \in Nat /\ Cardinality(Excused) \in Nat
        /\ Cardinality(Excused') \in Nat /\ signing \in Nat
    BY Finite, FiniteNext
  <2>2. CASE r \in trims
    <3>1. LiveTokens' \ Doomed(trims)' \subseteq LiveTokens \ doomed
      BY <1>r, <1>2, <2>2 DEF Doomed
    <3>2. liveNext \in Nat /\ liveNext <= Cardinality(LiveTokens \ doomed)
      BY <3>1, Finite, NoMore
    <3>3. Cardinality(Rotations) <= Cardinality(Excused')
      BY <1>6, FiniteNext, NoMore
    <3>. HIDE DEF liveNext, signing
    <3>4. liveNext + Cardinality(Rotations) <= MaxSessions + Cardinality(Excused') + signing
      BY <1>5, <2>1, <3>2, <3>3, LimitAssumption
    <3>. QED
      BY <1>6, <3>4 DEF liveNext, signing
  <2>3. CASE r \notin trims
    <3>1. trims \in SUBSET Trimming /\ Doomed(trims)' = Doomed(trims)
      BY <1>3, <2>3 DEF Trimming, Doomed, At
    <3>2. liveNext + Cardinality(Rotations) <= MaxSessions + Cardinality(Excused) + signing
      BY <1>r, <3>1 DEF Bound
    <3>3. Cardinality(Excused) <= Cardinality(Excused') /\ liveNext \in Nat
      BY <1>6, FiniteNext, NoMore
    <3>. HIDE DEF liveNext, signing
    <3>4. liveNext + Cardinality(Rotations) <= MaxSessions + Cardinality(Excused') + signing
      BY <2>1, <3>2, <3>3, LimitAssumption
    <3>. QED
      BY <1>6, <3>4 DEF liveNext, signing
  <2>. QED
    BY <2>2, <2>3
<1>. QED
  BY <1>4, <1>7

\* A trim deletes what it listed: with the other trims, all they listed.
LEMMA DeleteBound ==
    ASSUME Inv, Marks, Bound, NEW r \in Requests, TrimDelete(r)
    PROVE  Marks' /\ Bound'
<1>1. /\ request \in [Requests -> RequestType] /\ At(r, "trim") /\ Mark(r)
      /\ sessions \in [Tokens -> SessionType]
  BY DEF Inv, TypeOK, TrimDelete, Marks
<1>2. /\ \A q \in Requests \ {r} : request'[q] = request[q]
      /\ request'[r].op = request[r].op /\ request'[r].excess = request[r].excess
      /\ request'[r].pc = "done"
  BY <1>1 DEF TrimDelete, RequestType
<1>3. Marks'
  BY <1>1, <1>2 DEF Marks, Mark, Rotating, At
<1>4. Bound'
  <2>. SUFFICES ASSUME NEW trims \in SUBSET Trimming'
       PROVE  Cardinality(LiveTokens' \ Doomed(trims)') + Cardinality(Rotations')
                <= MaxSessions + Cardinality(Excused') + Cardinality(SigningIn' \ trims)
    BY DEF Bound
  <2> DEFINE all == trims \cup {r}
             live == Cardinality(LiveTokens \ Doomed(all))
             liveNext == Cardinality(LiveTokens' \ Doomed(trims)')
             signing == Cardinality(SigningIn \ all)
  <2>1. /\ all \in SUBSET Trimming /\ r \notin trims
        /\ Doomed(all) = request[r].doomed \cup Doomed(trims)'
    BY <1>1, <1>2 DEF Trimming, Doomed, At
  <2>2. /\ Rotations' = Rotations /\ Excused' = Excused
        /\ SigningIn' \ trims = SigningIn \ all
    BY <1>1, <1>2 DEF Rotations, Rotating, Excused, SigningIn, At
  <2>3. LiveTokens' \subseteq LiveTokens \ request[r].doomed
    BY <1>1 DEF TrimDelete, Delete, Absent, LiveTokens, Live
  <2>4. LiveTokens' \ Doomed(trims)' \subseteq LiveTokens \ Doomed(all)
    BY <2>1, <2>3
  <2>5. liveNext \in Nat /\ live \in Nat /\ liveNext <= live
    BY <2>4, Finite, NoMore
  <2>6. live + Cardinality(Rotations) <= MaxSessions + Cardinality(Excused) + signing
    BY <2>1 DEF Bound
  <2>7. Cardinality(Rotations) \in Nat /\ Cardinality(Excused) \in Nat /\ signing \in Nat
    BY Finite
  <2>. HIDE DEF live, liveNext, signing, all
  <2>8. liveNext + Cardinality(Rotations) <= MaxSessions + Cardinality(Excused) + signing
    BY <2>5, <2>6, <2>7, LimitAssumption
  <2>. QED
    BY <2>2, <2>8 DEF liveNext, signing
<1>. QED
  BY <1>3, <1>4

\* A refresh that consumes a session swaps it for a creation; it is excused
\* when the session was not live or some trim has already counted it.
LEMMA ConsumeBound ==
    ASSUME Inv, Marks, Bound, NEW r \in Requests, Consume(r)
    PROVE  Marks' /\ Bound'
<1> DEFINE t == request[r].token
<1>1. /\ request \in [Requests -> RequestType] /\ At(r, "consume") /\ Mark(r)
      /\ sessions \in [Tokens -> SessionType] /\ t \in Tokens /\ request[r].op = "refresh"
      /\ ~request[r].excess
  BY DEF Inv, TypeOK, Consume, Marks, Mark, Lined, At, Rotating
<1>2. LiveTokens' = LiveTokens \ {t}
  BY <1>1 DEF Consume, Delete, Absent, LiveTokens, Live
<1>3. CASE ~Present(t)
  <2>1. /\ \A q \in Requests \ {r} : request'[q] = request[q]
        /\ request'[r].excess = request[r].excess /\ request'[r].pc = "done"
    BY <1>1, <1>3 DEF Consume, RequestType
  <2>2. Marks'
    BY <1>1, <2>1 DEF Marks, Mark, Rotating, At
  <2>3. \A q \in Requests : Quiet(q)
    BY <1>1, <2>1 DEF Quiet, Rotating, At
  <2>. QED
    BY <1>2, <2>2, <2>3, QuietBound
<1>4. CASE Present(t)
  <2> DEFINE late == ~Live(t) \/ Trimming # {}
  <2>1. /\ \A q \in Requests \ {r} : request'[q] = request[q]
        /\ request'[r].op = "refresh" /\ request'[r].pc = "create"
        /\ request'[r].excess <=> late
    <3> DEFINE b == ~Live(t) \/ \E q \in Requests : At(q, "trim")
               line == sessions[t].line
    <3>1. request' = [request EXCEPT ![r] =
               [request[r] EXCEPT !.pc = "create", !.line = line, !.excess = b]]
      BY <1>1, <1>4 DEF Consume
    <3>2. b <=> late
      BY DEF Trimming
    <3>. HIDE DEF b, line, late
    <3>. QED
      BY <1>1, <3>1, <3>2 DEF RequestType
  <2>2. Marks'
    BY <1>1, <2>1 DEF Marks, Mark, Rotating, At
  <2>3. Bound'
    <3>. SUFFICES ASSUME NEW trims \in SUBSET Trimming'
         PROVE  Cardinality(LiveTokens' \ Doomed(trims)') + Cardinality(Rotations')
                  <= MaxSessions + Cardinality(Excused') + Cardinality(SigningIn' \ trims)
      BY DEF Bound
    <3> DEFINE live == Cardinality(LiveTokens \ Doomed(trims))
               liveNext == Cardinality(LiveTokens' \ Doomed(trims)')
               signing == Cardinality(SigningIn \ trims)
    <3>1. /\ trims \in SUBSET Trimming /\ Doomed(trims)' = Doomed(trims)
          /\ SigningIn' = SigningIn
      BY <1>1, <2>1 DEF Trimming, Doomed, SigningIn, At
    <3>2. Rotations' \subseteq Rotations \cup {r}
      BY <2>1 DEF Rotations, Rotating, At
    <3>3. /\ Cardinality(Rotations) \in Nat /\ Cardinality(Rotations') \in Nat
          /\ Cardinality(Rotations') <= Cardinality(Rotations) + 1
      BY <3>2, Finite, OneMore
    <3>4. live + Cardinality(Rotations) <= MaxSessions + Cardinality(Excused) + signing
      BY <3>1 DEF Bound
    <3>5. /\ Cardinality(Excused) \in Nat /\ Cardinality(Excused') \in Nat
          /\ live \in Nat /\ signing \in Nat
      BY Finite, FiniteNext
    <3>6. CASE late
      <4>1. Excused = Excused' \ {r} /\ r \in Excused'
        BY <1>1, <2>1, <3>6 DEF Excused
      <4>2. Cardinality(Excused) <= Cardinality(Excused') - 1
        BY <4>1, FiniteNext, OneFewer
      <4>3. LiveTokens' \ Doomed(trims)' \subseteq LiveTokens \ Doomed(trims)
        BY <1>2, <3>1
      <4>4. liveNext \in Nat /\ liveNext <= live
        BY <4>3, Finite, NoMore
      <4>. HIDE DEF live, liveNext, signing
      <4>5. liveNext + Cardinality(Rotations') <= MaxSessions + Cardinality(Excused') + signing
        BY <3>3, <3>4, <3>5, <4>2, <4>4, LimitAssumption
      <4>. QED
        BY <3>1, <4>5 DEF liveNext, signing
    <3>7. CASE ~late
      <4>1. Excused' = Excused
        BY <1>1, <2>1, <3>7 DEF Excused
      <4>2. /\ t \in LiveTokens \ Doomed(trims)
            /\ LiveTokens' \ Doomed(trims)' \subseteq (LiveTokens \ Doomed(trims)) \ {t}
        <5>1. trims = {} /\ t \in LiveTokens
          BY <1>1, <3>1, <3>7 DEF LiveTokens
        <5>. QED
          BY <1>2, <3>1, <5>1 DEF Doomed
      <4>3. liveNext \in Nat /\ liveNext <= live - 1
        BY <4>2, Finite, OneFewer
      <4>. HIDE DEF live, liveNext, signing
      <4>4. liveNext + Cardinality(Rotations') <= MaxSessions + Cardinality(Excused') + signing
        BY <3>3, <3>4, <3>5, <4>1, <4>3, LimitAssumption
      <4>. QED
        BY <3>1, <4>4 DEF liveNext, signing
    <3>. QED
      BY <3>6, <3>7
  <2>. QED
    BY <2>2, <2>3
<1>. QED
  BY <1>3, <1>4

\* A sign-in that dies before its trim is excused for the session it leaves.
LEMMA AbortBound ==
    ASSUME Inv, Marks, Bound, NEW r \in Requests, Abort(r)
    PROVE  Marks' /\ Bound'
<1>1. /\ request \in [Requests -> RequestType] /\ Mark(r) /\ LiveTokens' = LiveTokens
      /\ request[r].pc \notin {"idle", "done"}
  BY DEF Inv, TypeOK, Abort, Marks, LiveTokens, Live
<1>2. /\ \A q \in Requests \ {r} : request'[q] = request[q]
      /\ request'[r].pc = "aborted"
      /\ request'[r].excess <=> request[r].excess \/ r \in SigningIn
  <2> DEFINE b == request[r].excess \/ request[r].pc \in {"list", "trim"}
  <2>1. request' = [request EXCEPT ![r] =
           [request[r] EXCEPT !.pc = "aborted", !.touch = FALSE, !.excess = b]]
    BY <1>1 DEF Abort
  <2>2. b <=> request[r].excess \/ r \in SigningIn
    BY DEF SigningIn
  <2>. HIDE DEF b
  <2>. QED
    BY <1>1, <2>1, <2>2 DEF RequestType
<1>3. Marks'
  BY <1>1, <1>2 DEF Marks, Mark, Rotating, At
<1>4. CASE r \notin SigningIn
  <2>1. \A q \in Requests : Quiet(q)
    BY <1>1, <1>2, <1>4 DEF Quiet, Rotating, At, SigningIn
  <2>. QED
    BY <1>1, <1>3, <2>1, QuietBound
<1>5. CASE r \in SigningIn
  <2>. SUFFICES ASSUME NEW trims \in SUBSET Trimming'
       PROVE  Cardinality(LiveTokens' \ Doomed(trims)') + Cardinality(Rotations')
                <= MaxSessions + Cardinality(Excused') + Cardinality(SigningIn' \ trims)
    BY <1>3 DEF Bound
  <2> DEFINE live == Cardinality(LiveTokens \ Doomed(trims))
             signing == Cardinality(SigningIn \ trims)
             signingNext == Cardinality(SigningIn' \ trims)
  <2>1. /\ trims \in SUBSET Trimming /\ Doomed(trims)' = Doomed(trims)
        /\ Rotations' = Rotations /\ r \notin trims
    BY <1>1, <1>2, <1>5 DEF Trimming, Doomed, Rotations, Rotating, SigningIn, At
  <2>2. /\ SigningIn \ trims \subseteq (SigningIn' \ trims) \cup {r}
        /\ Excused = Excused' \ {r} /\ r \in Excused'
    BY <1>1, <1>2, <1>5, <2>1 DEF SigningIn, Excused, Mark, Rotating, At
  <2>3. signing \in Nat /\ signingNext \in Nat /\ signing <= signingNext + 1
    BY <2>2, FiniteNext, OneMore
  <2>4. /\ Cardinality(Excused) \in Nat /\ Cardinality(Excused') \in Nat
        /\ Cardinality(Excused) <= Cardinality(Excused') - 1
    BY <2>2, FiniteNext, OneFewer
  <2>5. live + Cardinality(Rotations) <= MaxSessions + Cardinality(Excused) + signing
    BY <2>1 DEF Bound
  <2>6. live \in Nat /\ Cardinality(Rotations) \in Nat
    BY Finite
  <2>. HIDE DEF live, signing, signingNext
  <2>7. live + Cardinality(Rotations) <= MaxSessions + Cardinality(Excused') + signingNext
    BY <2>3, <2>4, <2>5, <2>6, LimitAssumption
  <2>. QED
    BY <1>1, <2>1, <2>7 DEF live, signingNext
<1>. QED
  BY <1>4, <1>5

LEMMA LimitStep == Inv /\ Marks /\ Bound /\ [Next]_vars => Marks' /\ Bound'
<1>. SUFFICES ASSUME Inv, Marks, Bound, [Next]_vars PROVE Marks' /\ Bound'
  OBVIOUS
<1>r. /\ TypeOK /\ request \in [Requests -> RequestType]
      /\ sessions \in [Tokens -> SessionType]
  BY DEF Inv, TypeOK
\* One request moves on quietly, and no session becomes live.
<1>c. ASSUME NEW r \in Requests, Quiet(r), Mark(r)',
             \A q \in Requests \ {r} : request'[q] = request[q],
             LiveTokens' \subseteq LiveTokens
      PROVE  Marks' /\ Bound'
  <2>1. \A q \in Requests : Quiet(q)
    BY <1>c DEF Quiet, Rotating, At
  <2>2. Marks'
    BY <1>c DEF Marks, Mark, Rotating, At
  <2>. QED
    BY <1>c, <2>1, <2>2, QuietBound
<1>n. sessions' = sessions => LiveTokens' \subseteq LiveTokens
  BY DEF LiveTokens, Live
<1>d. ASSUME NEW ts, Delete(ts) PROVE LiveTokens' \subseteq LiveTokens
  BY <1>r, <1>d, DeleteShrinks, ShrinksLive
<1>m. ASSUME NEW r \in Requests PROVE Mark(r)
  BY DEF Marks
<1>1. ASSUME NEW r \in Requests, At(r, "idle"), ~request'[r].excess,
             \A q \in Requests \ {r} : request'[q] = request[q],
             sessions' = sessions,
             \/ request'[r].op = "login" /\ request'[r].pc = "create"
             \/ request'[r].op = "refresh" /\ request'[r].pc = "loadUser"
             \/ request'[r].pc \in {"drop", "revoke", "lock", "unlock"}
      PROVE  Marks' /\ Bound'
  <2>1. ~request[r].excess /\ request[r].pc = "idle"
    BY <1>m, <1>1 DEF Mark, At, Rotating
  <2>2. Quiet(r) /\ Mark(r)'
    BY <1>1, <2>1 DEF Quiet, Mark, Rotating, At
  <2>. QED
    BY <1>c, <1>n, <1>1, <2>2
<1>b. ASSUME NEW r \in Requests, NEW op, NEW pc, request' = [request EXCEPT ![r] = Begin(r, op, pc)]
      PROVE  /\ request'[r].op = op /\ request'[r].pc = pc /\ ~request'[r].excess
             /\ \A q \in Requests \ {r} : request'[q] = request[q]
  BY <1>r, <1>b DEF Begin, Fresh
<1>2. ASSUME NEW r \in Requests, Arrive(r) PROVE Marks' /\ Bound'
  <2>1. CASE LoginCheck(r)
    <3>1. /\ request'[r].op = "login" /\ request'[r].pc = "create" /\ ~request'[r].excess
          /\ \A q \in Requests \ {r} : request'[q] = request[q]
      BY <1>r, <2>1 DEF LoginCheck, Begin, Fresh
    <3>. QED
      BY <1>1, <2>1, <3>1 DEF LoginCheck, Arrives
  <2>2. CASE \E t \in Tokens : RefreshFind(r, t)
    <3>1. /\ request'[r].op = "refresh" /\ request'[r].pc = "loadUser" /\ ~request'[r].excess
          /\ \A q \in Requests \ {r} : request'[q] = request[q]
      BY <1>r, <2>2 DEF RefreshFind, Begin, Fresh
    <3>. QED
      BY <1>1, <2>2, <3>1 DEF RefreshFind, Arrives
  <2>3. CASE \E t \in Tokens : LogoutGuard(r, t)
    <3>1. /\ request'[r].op = "logout" /\ request'[r].pc = "drop" /\ ~request'[r].excess
          /\ \A q \in Requests \ {r} : request'[q] = request[q]
      BY <1>r, <2>3 DEF LogoutGuard, Begin, Fresh
    <3>. QED
      BY <1>1, <2>3, <3>1 DEF LogoutGuard, Arrives
  <2>4. CASE RevokeGuard(r)
    <3>1. /\ request'[r].pc = "revoke" /\ ~request'[r].excess
          /\ \A q \in Requests \ {r} : request'[q] = request[q]
      BY <1>b, <2>4 DEF RevokeGuard
    <3>. QED
      BY <1>1, <2>4, <3>1 DEF RevokeGuard, Arrives
  <2>5. CASE LockRead(r)
    <3>1. /\ request'[r].pc = "lock" /\ ~request'[r].excess
          /\ \A q \in Requests \ {r} : request'[q] = request[q]
      BY <1>b, <2>5 DEF LockRead
    <3>. QED
      BY <1>1, <2>5, <3>1 DEF LockRead, Arrives
  <2>6. CASE UnlockRead(r)
    <3>1. /\ request'[r].pc = "unlock" /\ ~request'[r].excess
          /\ \A q \in Requests \ {r} : request'[q] = request[q]
      BY <1>b, <2>6 DEF UnlockRead
    <3>. QED
      BY <1>1, <2>6, <3>1 DEF UnlockRead, Arrives
  <2>. QED
    BY <1>2, <2>1, <2>2, <2>3, <2>4, <2>5, <2>6 DEF Arrive
\* A request goes to a later point of its handler and leaves the sessions
\* alone or deletes some.
<1>g. ASSUME NEW r \in Requests, NEW pc \in {"done", "consume", "deactivate"}, Goto(r, pc),
             request[r].pc \notin {"list", "trim"}, pc = "consume" => At(r, "loadUser"),
             request[r].excess => pc = "done",
             LiveTokens' \subseteq LiveTokens
      PROVE  Marks' /\ Bound'
  <2>1. /\ request'[r].pc = pc /\ request'[r].op = request[r].op
        /\ request'[r].excess = request[r].excess
        /\ \A q \in Requests \ {r} : request'[q] = request[q]
    BY <1>r, <1>g DEF Goto, RequestType
  <2>2. Quiet(r) /\ Mark(r)'
    BY <1>m, <1>g, <2>1 DEF Quiet, Mark, Rotating, At
  <2>. QED
    BY <1>c, <1>g, <2>1, <2>2
<1>3. ASSUME NEW r \in Requests, MintClash(r) PROVE Marks' /\ Bound'
  BY <1>g, <1>n, <1>3 DEF MintClash, Finish, At
<1>4. ASSUME NEW r \in Requests, RefreshLoadUser(r) PROVE Marks' /\ Bound'
  <2>1. ~request[r].excess
    BY <1>m, <1>4 DEF RefreshLoadUser, Mark, Rotating, At
  <2>. QED
    BY <1>g, <1>n, <1>4, <2>1 DEF RefreshLoadUser, At
<1>5. ASSUME NEW r \in Requests, LogoutDrop(r) \/ RevokeAll(r) PROVE Marks' /\ Bound'
  BY <1>g, <1>d, <1>5 DEF LogoutDrop, RevokeAll, Finish, At
<1>6. ASSUME NEW r \in Requests, LockSet(r) \/ UnlockSet(r) PROVE Marks' /\ Bound'
  <2>1. ~request[r].excess
    BY <1>m, <1>6 DEF LockSet, UnlockSet, Mark, Rotating, At
  <2>. QED
    BY <1>g, <1>n, <1>6, <2>1 DEF LockSet, UnlockSet, Finish, At
<1>7. ASSUME NEW r \in Requests, LockDeactivate(r) PROVE Marks' /\ Bound'
  <2>1. \A t \in Tokens : [sessions[t] EXCEPT !.state = "inactive"].state # "active"
    BY <1>r DEF SessionType
  <2>2. LiveTokens' \subseteq LiveTokens
    BY <1>7, <2>1 DEF LockDeactivate, LiveTokens, Live
  <2>. QED
    BY <1>g, <1>7, <2>2 DEF LockDeactivate, Finish, At
<1>8. ASSUME NEW r \in Requests, Touch(r) PROVE Marks' /\ Bound'
  <2>1. /\ request'[r].pc = request[r].pc /\ request'[r].op = request[r].op
        /\ request'[r].excess = request[r].excess
        /\ request'[r].doomed = request[r].doomed
        /\ \A q \in Requests \ {r} : request'[q] = request[q]
    BY <1>r, <1>8 DEF Touch, RequestType
  <2>2. Quiet(r) /\ Mark(r)'
    BY <1>m, <2>1 DEF Quiet, Mark, Rotating, At
  <2>3. LiveTokens' \subseteq LiveTokens
    BY <1>r, <1>8 DEF Touch, LiveTokens, Live, SessionType
  <2>. QED
    BY <1>c, <2>1, <2>2, <2>3
<1>9. ASSUME (\E d \in Devices : Expire(d)) \/ Tick \/ UNCHANGED vars
      PROVE  Marks' /\ Bound'
  <2>1. request' = request
    BY <1>9 DEF Expire, Tick, vars
  <2>2. \A q \in Requests : Quiet(q)
    BY <2>1 DEF Quiet, Rotating, At
  <2>3. LiveTokens' \subseteq LiveTokens
    BY <1>d, <1>n, <1>9 DEF Expire, Tick, vars
  <2>4. Marks'
    BY <2>1 DEF Marks, Mark, Rotating, At
  <2>. QED
    BY <2>2, <2>3, <2>4, QuietBound
<1>. QED
  BY <1>2, <1>3, <1>4, <1>5, <1>6, <1>7, <1>8, <1>9,
     MintBound, ListBound, DeleteBound, ConsumeBound, AbortBound
  DEF Next, Step

LEMMA LimitInit == Init => Marks /\ Bound
<1>. SUFFICES ASSUME Init PROVE Marks /\ Bound
  OBVIOUS
<1>1. \A r \in Requests : request[r].pc = "idle" /\ ~request[r].excess
  BY DEF Init, Fresh
<1>2. Marks
  BY <1>1 DEF Marks, Mark, At
<1>3. LiveTokens \subseteq Devices
  <2>1. \A t \in Tokens \ Devices : sessions[t].state = "absent"
    BY DEF Init, Absent
  <2>. QED
    BY <2>1 DEF LiveTokens, Live
<1>4. Cardinality(LiveTokens \ Doomed({})) \in Nat
      /\ Cardinality(LiveTokens \ Doomed({})) <= MaxSessions
  <2>1. LiveTokens \ Doomed({}) \subseteq Devices
    BY <1>3
  <2>2. /\ Cardinality(LiveTokens \ Doomed({})) <= Cardinality(Devices)
        /\ Cardinality(Devices) \in Nat /\ Cardinality(LiveTokens \ Doomed({})) \in Nat
    BY <2>1, NoMore, LimitAssumption
  <2>. QED
    BY <2>2, LimitAssumption
<1>5. Trimming = {} /\ Rotations = {} /\ Excused = {} /\ SigningIn \ {} = {}
  BY <1>1 DEF Trimming, Rotations, Rotating, Excused, SigningIn, At
<1>6. Bound
  <2>. SUFFICES ASSUME NEW trims \in SUBSET Trimming
       PROVE  Cardinality(LiveTokens \ Doomed(trims)) + Cardinality(Rotations)
                <= MaxSessions + Cardinality(Excused) + Cardinality(SigningIn \ trims)
    BY DEF Bound
  <2>1. trims = {}
    BY <1>5
  <2>2. Cardinality({}) = 0
    BY FS_EmptySet
  <2>3. Cardinality(LiveTokens \ Doomed({})) + 0 <= MaxSessions + 0 + 0
    BY <1>4, LimitAssumption
  <2>. QED
    BY <1>5, <2>1, <2>2, <2>3
<1>. QED
  BY <1>2, <1>6

\* However sign-ins, rotations, locks and deaths overlap, once no sign-in is
\* under way the live sessions exceed the limit by no more than the requests
\* that are named: rotations a trim could not see or that revived a session
\* deactivated under them, and sign-ins that died before their trim.
THEOREM LimitHolds == Spec => []LimitSettles
<1>1. ASSUME Bound PROVE LimitSettles
  <2>. SUFFICES ASSUME \A r \in Requests : request[r].pc \notin {"list", "trim"}
       PROVE  Cardinality(LiveTokens) <= MaxSessions + Cardinality(Excused)
    BY DEF LimitSettles, Excused
  <2>1. {} \in SUBSET Trimming /\ SigningIn \ {} = {} /\ LiveTokens \ Doomed({}) = LiveTokens
    BY DEF SigningIn, Doomed
  <2>2. Cardinality(LiveTokens) + Cardinality(Rotations)
          <= MaxSessions + Cardinality(Excused) + Cardinality({})
    BY <1>1, <2>1 DEF Bound
  <2>3. Cardinality(LiveTokens) \in Nat
    BY Finite, FS_CardinalityType
  <2>. QED
    BY <2>2, <2>3, Finite, FS_EmptySet, LimitAssumption
<1>2. Inv /\ Marks /\ Bound /\ [Next]_vars => Marks' /\ Bound'
  BY LimitStep
<1>3. Spec => [](Marks /\ Bound)
  BY LimitInit, InvHolds, <1>2, PTL DEF Spec
<1>. QED
  BY <1>1, <1>3, PTL

-----------------------------------------------------------------------------
(* What the actions can make of the documents, tasks and letters           *)

\* Handlers and tasks never use the fields of each other.
HandlerType ==
    {Idle} \cup [pc : {"write", "announce"}, of : Applications, status : Statuses,
                 hr : {{}}, told : {{}}]

TaskType ==
    {Idle} \cup [pc : {"load", "notice", "letter"}, of : Applications, status : Statuses,
                 hr : {{}}, told : {{}}]
           \cup [pc : {"find hr", "tell hr"}, of : Applications, status : {Nothing},
                 hr : SUBSET HrUsers, told : SUBSET HrUsers]

NoticeType ==
    [to : Users, of : Applications, status : Statuses \cup {Nothing},
     state : {"unread", "read", "removed"}]

LetterType ==
    [kind : {"status", "application", "digest", "opening", "expired"},
     to : SUBSET (Users \cup Readers),
     state : {"waiting", "taken", "sent", "done", "failed"}, tries : Nat, stalls : {0, 1}]

\* A letter is given up only after its attempts or a second death of its worker.
Tried(l) ==
    /\ l.state = "failed" => l.tries = MaxAttempts \/ l.stalls = 1
    /\ l.state # "failed" => l.tries < MaxAttempts

Working ==
    /\ application \in [Applications -> Statuses \cup {Nothing, "PENDING", "removed"}]
    /\ handler \in [Slots -> HandlerType]
    /\ task \in [Tasks -> TaskType]
    /\ notice \in [Notices -> NoticeType \cup {Nothing}]

Posted ==
    /\ letter \in [Letters -> LetterType \cup {Nothing}]
    /\ \A i \in Letters : letter[i] # Nothing => Tried(letter[i])
    /\ listening \subseteq Readers /\ round \subseteq Readers

-----------------------------------------------------------------------------
(* The table of connected clients: it names those whose connection is open *)
(* or leaked, and every open one.                                          *)

Places == {"away", "verifying", "open", "left unverified", "leaked", "gone"}

Network ==
    /\ socket \in [Clients -> Places]
    /\ userSockets \in [Users -> (SUBSET Clients) \cup {Nothing}]
    /\ OnlineIsConnected

LEMMA NetworkInit == MailInit => Network
BY NothingAssumption DEF MailInit, Network, Places, OnlineIsConnected, Online

LEMMA NetworkClient ==
    ASSUME Network, NEW c \in Clients, ClientSteps(c)
    PROVE  Network'
<1>. USE DEF Network, Places, OnlineIsConnected, Online
<1>1. CASE Connect(c)
  BY <1>1 DEF Connect
<1>2. CASE Verified(c)
  <2>1. PICK u \in Users :
           userSockets' = [userSockets EXCEPT ![u] = IF @ = Nothing THEN {c} ELSE @ \cup {c}]
    BY <1>2 DEF Verified
  <2>. DEFINE made == IF socket[c] = "verifying" THEN "open" ELSE "leaked"
  <2>2. /\ socket' = [socket EXCEPT ![c] = made]
        /\ made \in {"open", "leaked"} /\ socket[c] \notin {"open", "leaked"}
    BY <1>2 DEF Verified
  <2>. HIDE DEF made
  <2>. DEFINE more == IF userSockets[u] = Nothing THEN {c} ELSE userSockets[u] \cup {c}
  <2>3. userSockets' = [userSockets EXCEPT ![u] = more]
    BY <2>1
  <2>4. /\ more \subseteq Clients /\ c \in more /\ more # Nothing /\ more # {}
        /\ userSockets[u] # Nothing => userSockets[u] \subseteq more
        /\ \A d \in more : d = c \/ (userSockets[u] # Nothing /\ d \in userSockets[u])
    BY NothingAssumption
  <2>. HIDE DEF more
  <2>. QED
    BY <2>2, <2>3, <2>4
<1>3. CASE Refused(c)
  BY <1>3 DEF Refused
<1>4. CASE HandleDisconnect(c) /\ socket[c] = "open"
  <2>1. /\ socket' = [socket EXCEPT ![c] = "gone"]
        /\ userSockets' = [u \in Users |->
                    IF userSockets[u] # Nothing /\ c \in userSockets[u]
                    THEN Untracked(userSockets[u], c) ELSE userSockets[u]]
    BY <1>4 DEF HandleDisconnect
  <2>2. \A u \in Users : userSockets[u] # Nothing /\ c \in userSockets[u] =>
           \/ userSockets[u] = {c} /\ userSockets'[u] = Nothing
           \/ /\ userSockets'[u] = userSockets[u] \ {c} /\ userSockets'[u] # {}
              /\ userSockets'[u] # Nothing /\ userSockets'[u] \subseteq Clients
    <3>. SUFFICES ASSUME NEW u \in Users, userSockets[u] # Nothing, c \in userSockets[u]
                  PROVE  \/ userSockets[u] = {c} /\ userSockets'[u] = Nothing
                         \/ /\ userSockets'[u] = userSockets[u] \ {c} /\ userSockets'[u] # {}
                            /\ userSockets'[u] # Nothing /\ userSockets'[u] \subseteq Clients
      OBVIOUS
    <3>1. /\ userSockets[u] \subseteq Clients
          /\ userSockets'[u] = Untracked(userSockets[u], c)
      BY <2>1
    <3>2. CASE userSockets[u] = {c}
      BY <3>1, <3>2 DEF Untracked
    <3>3. CASE userSockets[u] # {c}
      <4>1. userSockets'[u] = userSockets[u] \ {c}
        BY <3>1, <3>3 DEF Untracked
      <4>. QED
        BY <3>1, <3>3, <4>1, NothingAssumption
    <3>. QED
      BY <3>2, <3>3
  <2>3. \A u \in Users : ~(userSockets[u] # Nothing /\ c \in userSockets[u]) =>
            userSockets'[u] = userSockets[u]
    BY <2>1
  <2>4. \A u \in Users : userSockets'[u] \in (SUBSET Clients) \cup {Nothing}
    BY <2>2, <2>3
  <2>5. \A u \in Users : userSockets'[u] # Nothing =>
            /\ userSockets'[u] # {}
            /\ \A d \in userSockets'[u] :
                  d # c /\ d \in userSockets[u] /\ userSockets[u] # Nothing
    BY <2>2, <2>3
  <2>6. \A d \in Clients \ {c}, u \in Users :
            userSockets[u] # Nothing /\ d \in userSockets[u] =>
            userSockets'[u] # Nothing /\ d \in userSockets'[u]
    BY <2>2, <2>3
  <2>7. userSockets' \in [Users -> (SUBSET Clients) \cup {Nothing}]
    BY <2>1, <2>4
  <2>8. \A d \in Clients : d # c => socket'[d] = socket[d]
    BY <2>1
  <2>9. socket'[c] # "open" /\ socket' \in [Clients -> Places]
    BY <2>1
  <2>. QED
    BY <2>5, <2>6, <2>7, <2>8, <2>9
<1>5. CASE HandleDisconnect(c) /\ socket[c] # "open"
  <2>1. /\ userSockets' = userSockets /\ socket[c] = "verifying"
        /\ socket' = [socket EXCEPT ![c] = "left unverified"]
    BY <1>5 DEF HandleDisconnect
  <2>2. \A d \in Clients \ {c} : socket'[d] = socket[d]
    BY <2>1
  <2>3. socket'[c] = "left unverified"
    BY <2>1
  <2>. QED
    BY <2>1, <2>2, <2>3
<1>. QED
  BY <1>1, <1>2, <1>3, <1>4, <1>5 DEF ClientSteps

LEMMA NetworkStep ==
    ASSUME Network, MailNext
    PROVE  Network'
<1>1. CASE \E c \in Clients : ClientSteps(c)
  BY <1>1, NetworkClient
<1>2. CASE UNCHANGED network
  BY <1>2 DEF network, Network, OnlineIsConnected, Online
<1>. QED
  BY <1>1, <1>2
     DEF MailNext, ApplicationSteps, Update, UpdateWrite, UpdateFails, Announce, Apply, Remove,
         TaskSteps, LoadApplication, CreateNotice, NoticeFails, QueueStatusLetter, LetterLost,
         FindHr, TellHr, WriteToHr, MarkAsRead, MarkAllAsRead, RemoveNotice,
         QueueSteps, QueueDigests, AddDigests, QueueOpening, QueueExpired, Leave,
         LetterSteps, Take, NothingToRecommend, Send, Complete, SendFails, WorkerDies

-----------------------------------------------------------------------------
(* Documents, handlers and tasks                                           *)

LEMMA IdleTyped ==
    /\ Idle \in HandlerType /\ Idle \in TaskType
    /\ Idle.pc = "idle" /\ Idle.of = Nothing /\ Idle.of \notin Applications
BY NothingAssumption DEF HandlerType, TaskType, Idle

\* A handler at work has an application and a status; so has an announcement.
LEMMA HandlerFields ==
    ASSUME Working, NEW s \in Slots
    PROVE  /\ handler[s].pc \in {"idle", "write", "announce"}
           /\ handler[s].pc # "idle" =>
                 /\ handler[s].of \in Applications /\ handler[s].status \in Statuses
                 /\ handler[s].hr = {} /\ handler[s].told = {}
           /\ handler[s].pc = "idle" => handler[s] = Idle
BY IdleTyped DEF Working, HandlerType

LEMMA TaskFields ==
    ASSUME Working, NEW t \in Tasks
    PROVE  /\ task[t].pc \in {"idle", "load", "notice", "letter", "find hr", "tell hr"}
           /\ task[t].pc = "idle" => task[t] = Idle
           /\ task[t].pc # "idle" => task[t].of \in Applications
           /\ task[t].pc \in {"load", "notice", "letter"} =>
                 task[t].status \in Statuses /\ task[t].hr = {} /\ task[t].told = {}
           /\ task[t].pc \in {"find hr", "tell hr"} =>
                 /\ task[t].status = Nothing
                 /\ task[t].hr \subseteq HrUsers /\ task[t].told \subseteq HrUsers
BY IdleTyped DEF Working, TaskType

LEMMA WorkingInit == MailInit => Working
<1>1. ASSUME MailInit
      PROVE  application \in [Applications -> Statuses \cup {Nothing, "PENDING", "removed"}]
  BY <1>1 DEF MailInit
<1>. QED
  BY <1>1, IdleTyped DEF MailInit, Working

\* A notice is stored under the first number that is not used.
LEMMA Added ==
    ASSUME Working, NEW n \in NoticeType, Add(notice, n)
    PROVE  \E k \in Notices :
              /\ notice[k] = Nothing /\ n # Nothing
              /\ \A j \in Notices : notice[j] = Nothing => k <= j
              /\ notice' = [notice EXCEPT ![k] = n]
              /\ notice' \in [Notices -> NoticeType \cup {Nothing}]
<1>1. n # Nothing
  BY NothingAssumption DEF NoticeType
<1>2. Unused(notice) = {i \in Notices : notice[i] = Nothing}
  BY DEF Working, Unused
<1>. QED
  BY <1>1, <1>2 DEF Add, Working

\* A handler that steps on carries its application and its status along.
LEMMA StepsTyped ==
    ASSUME Working, NEW s \in Slots, handler[s].pc \in {"write", "announce"},
           Steps(s)
    PROVE  /\ handler' \in [Slots -> HandlerType]
           /\ \A r \in Slots \ {s} : handler'[r] = handler[r]
           /\ handler[s].pc = "write" =>
                 /\ handler'[s].pc = "announce" /\ handler'[s].of = handler[s].of
                 /\ handler'[s].status = handler[s].status
           /\ handler[s].pc = "announce" => handler'[s] = Idle
<1>. DEFINE h == [handler[s] EXCEPT !.pc = After(handler[s].pc)]
            made == IF h.pc = "idle" THEN Idle ELSE h
<1>1. handler' = [handler EXCEPT ![s] = made]
  BY DEF Steps
<1>2. handler[s] \in [pc : {"write", "announce"}, of : Applications, status : Statuses,
                      hr : {{}}, told : {{}}]
  BY IdleTyped DEF Working, HandlerType
<1>3. CASE handler[s].pc = "write"
  <2>1. made.pc = "announce" /\ made = [handler[s] EXCEPT !.pc = "announce"]
    BY <1>2, <1>3 DEF After
  <2>2. made \in HandlerType /\ made.of = handler[s].of /\ made.status = handler[s].status
    BY <1>2, <2>1 DEF HandlerType
  <2>. HIDE DEF made
  <2>. QED
    BY <1>1, <1>3, <2>1, <2>2 DEF Working
<1>4. CASE handler[s].pc = "announce"
  <2>1. made = Idle
    BY <1>2, <1>4 DEF After
  <2>. HIDE DEF made
  <2>. QED
    BY <1>1, <1>4, <2>1, IdleTyped DEF Working
<1>. QED
  BY <1>3, <1>4

\* Steps of the applications keep documents, handlers and tasks what they are.
LEMMA WorkingApplications ==
    ASSUME Working, ApplicationSteps
    PROVE  Working'
<1>1. ASSUME NEW s \in Slots, Update(s)
      PROVE  Working'
  <2>1. PICK a \in Applications, st \in Statuses :
           handler' = [handler EXCEPT ![s] =
                          [Idle EXCEPT !.pc = After("idle"), !.of = a, !.status = st]]
    BY <1>1 DEF Update
  <2>2. [Idle EXCEPT !.pc = After("idle"), !.of = a, !.status = st] \in HandlerType
    BY DEF HandlerType, Idle, After
  <2>3. handler' \in [Slots -> HandlerType]
    BY <2>1, <2>2 DEF Working
  <2>. QED
    BY <1>1, <2>3 DEF Update, Working
<1>2. ASSUME NEW s \in Slots, UpdateWrite(s)
      PROVE  Working'
  <2>1. application' \in [Applications -> Statuses \cup {Nothing, "PENDING", "removed"}]
    BY <1>2, HandlerFields DEF UpdateWrite, Working
  <2>2. handler' \in [Slots -> HandlerType]
    BY <1>2, StepsTyped DEF UpdateWrite
  <2>. QED
    BY <1>2, <2>1, <2>2 DEF UpdateWrite, Working
<1>3. ASSUME NEW s \in Slots, UpdateFails(s)
      PROVE  Working'
  BY <1>3, IdleTyped DEF UpdateFails, Working
<1>4. ASSUME NEW s \in Slots, Announce(s)
      PROVE  Working'
  <2>1. PICK t \in Tasks :
           Goes(t, [Idle EXCEPT !.pc = "load", !.of = handler[s].of,
                                !.status = handler[s].status])
    BY <1>4 DEF Announce
  <2>2. [Idle EXCEPT !.pc = "load", !.of = handler[s].of, !.status = handler[s].status]
           \in TaskType
    BY <1>4, HandlerFields DEF Announce, TaskType, Idle
  <2>3. task' \in [Tasks -> TaskType]
    BY <2>1, <2>2 DEF Goes, Working
  <2>4. handler' \in [Slots -> HandlerType]
    BY <1>4, StepsTyped DEF Announce
  <2>. QED
    BY <1>4, <2>3, <2>4 DEF Announce, Working
<1>5. CASE Apply
  <2>1. PICK a \in Applications, t \in Tasks :
           /\ application' = [application EXCEPT ![a] = "PENDING"]
           /\ Goes(t, [Idle EXCEPT !.pc = "find hr", !.of = a])
    BY <1>5 DEF Apply
  <2>2. [Idle EXCEPT !.pc = "find hr", !.of = a] \in TaskType
    BY DEF TaskType, Idle
  <2>3. task' \in [Tasks -> TaskType]
    BY <2>1, <2>2 DEF Goes, Working
  <2>. QED
    BY <1>5, <2>1, <2>3 DEF Apply, Working
<1>6. CASE Remove
  BY <1>6 DEF Remove, Working
<1>. QED
  BY <1>1, <1>2, <1>3, <1>4, <1>5, <1>6 DEF ApplicationSteps

\* A task is where it was, or goes on with what it announces.
LEMMA GotoTyped ==
    ASSUME Working, NEW t \in Tasks, NEW pc \in {"notice", "letter"},
           task[t].pc \in {"load", "notice"}, Moves(t, pc)
    PROVE  /\ task' \in [Tasks -> TaskType]
           /\ \A r \in Tasks \ {t} : task'[r] = task[r]
           /\ task'[t].pc = pc /\ task'[t].of = task[t].of /\ task'[t].status = task[t].status
<1>. DEFINE made == [task[t] EXCEPT !.pc = pc]
<1>1. task' = [task EXCEPT ![t] = made]
  BY DEF Moves
<1>2. task[t] \in [pc : {"load", "notice", "letter"}, of : Applications, status : Statuses,
                   hr : {{}}, told : {{}}]
  BY IdleTyped DEF Working, TaskType
<1>3. /\ made \in TaskType /\ made.pc = pc
      /\ made.of = task[t].of /\ made.status = task[t].status
  BY <1>2 DEF TaskType
<1>. HIDE DEF made
<1>. QED
  BY <1>1, <1>3 DEF Working

LEMMA GoesTyped ==
    ASSUME Working, NEW t \in Tasks, NEW r \in TaskType, Goes(t, r)
    PROVE  /\ task' \in [Tasks -> TaskType]
           /\ task'[t] = r /\ \A u \in Tasks \ {t} : task'[u] = task[u]
BY DEF Goes, Working

\* HR users are told one by one.
LEMMA HrTyped ==
    ASSUME Working, NEW t \in Tasks, task[t].pc = "tell hr", NEW h \in HrUsers
    PROVE  /\ [task[t] EXCEPT !.hr = @ \ {h}, !.told = @ \cup {h}] \in TaskType
           /\ [task[t] EXCEPT !.hr = @ \ {h}, !.told = @ \cup {h}].pc = "tell hr"
           /\ [task[t] EXCEPT !.hr = @ \ {h}, !.told = @ \cup {h}].of = task[t].of
           /\ [task[t] EXCEPT !.told = @ \ {h}] \in TaskType
<1>. DEFINE Telling == [pc : {"find hr", "tell hr"}, of : Applications, status : {Nothing},
                        hr : SUBSET HrUsers, told : SUBSET HrUsers]
<1>1. task[t] \in Telling
  BY IdleTyped DEF Working, TaskType
<1>2. /\ task[t].hr \ {h} \in SUBSET HrUsers /\ task[t].told \cup {h} \in SUBSET HrUsers
      /\ task[t].told \ {h} \in SUBSET HrUsers
  BY <1>1
<1>3. \A hr, told \in SUBSET HrUsers :
         /\ [task[t] EXCEPT !.hr = hr, !.told = told] \in Telling
         /\ [task[t] EXCEPT !.told = told] \in Telling
  BY <1>1
<1>4. /\ [task[t] EXCEPT !.hr = @ \ {h}, !.told = @ \cup {h}] \in Telling
      /\ [task[t] EXCEPT !.told = @ \ {h}] \in Telling
  BY <1>1, <1>2, <1>3
<1>5. /\ [task[t] EXCEPT !.hr = @ \ {h}, !.told = @ \cup {h}].pc = "tell hr"
      /\ [task[t] EXCEPT !.hr = @ \ {h}, !.told = @ \cup {h}].of = task[t].of
  BY <1>1
<1>. QED
  BY <1>4, <1>5 DEF TaskType

\* Steps of the announcements.
LEMMA WorkingTasks ==
    ASSUME Working, NEW t \in Tasks, TaskSteps(t)
    PROVE  Working'
<1>1. CASE LoadApplication(t)
  <2>1. task' \in [Tasks -> TaskType]
    BY <1>1, GotoTyped, GoesTyped, IdleTyped DEF LoadApplication, TaskAt
  <2>. QED
    BY <1>1, <2>1 DEF LoadApplication, Working
<1>2. CASE CreateNotice(t)
  <2>1. task' \in [Tasks -> TaskType]
    BY <1>2, GotoTyped DEF CreateNotice, TaskAt
  <2>2. NewNotice(Candidate, task[t].of, task[t].status) \in NoticeType
    BY <1>2, TaskFields DEF CreateNotice, TaskAt, NewNotice, NoticeType, Users
  <2>3. notice' \in [Notices -> NoticeType \cup {Nothing}]
    BY <1>2, <2>2, Added DEF CreateNotice
  <2>. QED
    BY <1>2, <2>1, <2>3 DEF CreateNotice, Working
<1>3. CASE NoticeFails(t)
  BY <1>3, GoesTyped, IdleTyped DEF NoticeFails, Working
<1>4. CASE QueueStatusLetter(t)
  BY <1>4, GoesTyped, IdleTyped DEF QueueStatusLetter, Working
<1>5. CASE LetterLost(t)
  BY <1>5, GoesTyped, IdleTyped DEF LetterLost, Working
<1>6. CASE FindHr(t)
  <2>1. [task[t] EXCEPT !.pc = "tell hr", !.hr = HrUsers] \in TaskType
    BY <1>6, IdleTyped DEF FindHr, TaskAt, Working, TaskType
  <2>2. task' \in [Tasks -> TaskType]
    BY <1>6, <2>1, GoesTyped, IdleTyped DEF FindHr
  <2>. QED
    BY <1>6, <2>2 DEF FindHr, Working
<1>7. CASE TellHr(t)
  <2>1. PICK h \in task[t].hr :
           /\ \/ Add(notice, NewNotice(h, task[t].of, Nothing))
              \/ UNCHANGED notice
           /\ Goes(t, [task[t] EXCEPT !.hr = @ \ {h}, !.told = @ \cup {h}])
    BY <1>7 DEF TellHr
  <2>2. /\ task[t].pc = "tell hr" /\ h \in HrUsers /\ task[t].of \in Applications
        /\ task[t].hr \subseteq HrUsers /\ task[t].told \subseteq HrUsers
    BY <1>7, <2>1, TaskFields DEF TellHr, TaskAt
  <2>3. [task[t] EXCEPT !.hr = @ \ {h}, !.told = @ \cup {h}] \in TaskType
    BY <2>2, HrTyped
  <2>4. task' \in [Tasks -> TaskType]
    BY <2>1, <2>3, GoesTyped
  <2>5. NewNotice(h, task[t].of, Nothing) \in NoticeType
    BY <2>2 DEF NewNotice, NoticeType, Users
  <2>6. notice' \in [Notices -> NoticeType \cup {Nothing}]
    BY <2>1, <2>5, Added DEF Working
  <2>. QED
    BY <1>7, <2>4, <2>6 DEF TellHr, Working
<1>8. CASE WriteToHr(t)
  <2>1. PICK h \in task[t].told :
           Goes(t, IF task[t].hr = {} /\ task[t].told = {h} THEN Idle
                   ELSE [task[t] EXCEPT !.told = @ \ {h}])
    BY <1>8 DEF WriteToHr
  <2>2. [task[t] EXCEPT !.told = @ \ {h}] \in TaskType
    BY <1>8, HrTyped, TaskFields DEF WriteToHr, TaskAt
  <2>3. task' \in [Tasks -> TaskType]
    BY <2>1, <2>2, GoesTyped, IdleTyped
  <2>. QED
    BY <1>8, <2>3 DEF WriteToHr, Working
<1>. QED
  BY <1>1, <1>2, <1>3, <1>4, <1>5, <1>6, <1>7, <1>8 DEF TaskSteps

\* Reading and removing notices.
LEMMA WorkingNotices ==
    ASSUME Working, MarkAsRead \/ MarkAllAsRead \/ RemoveNotice
    PROVE  /\ Working'
           /\ \A i \in Notices : (notice'[i] = Nothing) <=> (notice[i] = Nothing)
           /\ \A i \in Notices : notice[i] # Nothing =>
                 notice'[i].of = notice[i].of /\ notice'[i].status = notice[i].status
<1>1. \A i \in Notices, state \in {"read", "removed"} : notice[i] # Nothing =>
         /\ [notice[i] EXCEPT !.state = state] \in NoticeType
         /\ [notice[i] EXCEPT !.state = state] # Nothing
         /\ [notice[i] EXCEPT !.state = state].of = notice[i].of
         /\ [notice[i] EXCEPT !.state = state].status = notice[i].status
  <2>. SUFFICES ASSUME NEW i \in Notices, NEW state \in {"read", "removed"}, notice[i] # Nothing
                PROVE  /\ [notice[i] EXCEPT !.state = state] \in NoticeType
                       /\ [notice[i] EXCEPT !.state = state] # Nothing
                       /\ [notice[i] EXCEPT !.state = state].of = notice[i].of
                       /\ [notice[i] EXCEPT !.state = state].status = notice[i].status
    OBVIOUS
  <2>1. notice[i] \in NoticeType
    BY DEF Working
  <2>2. [notice[i] EXCEPT !.state = state] \in NoticeType
    BY <2>1 DEF NoticeType
  <2>3. [notice[i] EXCEPT !.state = state] # Nothing
    BY <2>2, NothingAssumption DEF NoticeType
  <2>. QED
    BY <2>1, <2>2, <2>3 DEF NoticeType
<1>2. \A i \in Stored : i \in Notices /\ notice[i] # Nothing
  BY DEF Stored
<1>3. CASE MarkAsRead \/ RemoveNotice
  <2>1. PICK i \in Stored, state \in {"read", "removed"} :
           notice' = [notice EXCEPT ![i] = [notice[i] EXCEPT !.state = state]]
    BY <1>3 DEF MarkAsRead, RemoveNotice
  <2>. DEFINE made == [notice[i] EXCEPT !.state = state]
  <2>2. /\ made \in NoticeType /\ made # Nothing
        /\ made.of = notice[i].of /\ made.status = notice[i].status /\ notice[i] # Nothing
    BY <1>1, <1>2
  <2>3. notice' = [notice EXCEPT ![i] = made]
    BY <2>1
  <2>. HIDE DEF made
  <2>4. UNCHANGED <<application, handler, task>>
    BY <1>3 DEF MarkAsRead, RemoveNotice
  <2>. QED
    BY <1>2, <2>2, <2>3, <2>4 DEF Working
<1>4. CASE MarkAllAsRead
  <2>1. PICK u \in Users :
           notice' = [i \in Notices |-> IF i \in Unread(u)
                                        THEN [notice[i] EXCEPT !.state = "read"] ELSE notice[i]]
    BY <1>4 DEF MarkAllAsRead
  <2>2. \A i \in Unread(u) : i \in Notices /\ notice[i] # Nothing
    BY <1>2 DEF Unread
  <2>3. \A i \in Notices :
           \/ notice'[i] = notice[i]
           \/ notice[i] # Nothing /\ notice'[i] = [notice[i] EXCEPT !.state = "read"]
    BY <2>1, <2>2
  <2>4. \A i \in Notices :
           \/ notice'[i] = notice[i]
           \/ /\ notice[i] # Nothing /\ notice'[i] \in NoticeType /\ notice'[i] # Nothing
              /\ notice'[i].of = notice[i].of /\ notice'[i].status = notice[i].status
    BY <1>1, <2>3
  <2>5. UNCHANGED <<application, handler, task>>
    BY <1>4 DEF MarkAllAsRead
  <2>6. notice' = [i \in Notices |-> notice'[i]]
    BY <2>1
  <2>. QED
    BY <2>4, <2>5, <2>6 DEF Working
<1>. QED
  BY <1>3, <1>4

\* Everything else leaves them alone.
LEMMA WorkingElsewhere ==
    ASSUME MailNext
    PROVE  \/ ApplicationSteps
           \/ \E t \in Tasks : TaskSteps(t)
           \/ MarkAsRead \/ MarkAllAsRead \/ RemoveNotice
           \/ UNCHANGED <<application, handler, task, notice, excused>>
BY DEF MailNext, QueueSteps, QueueDigests, AddDigests, QueueOpening, QueueExpired, Leave,
       LetterSteps, Take, NothingToRecommend, Send, Complete, SendFails, WorkerDies,
       ClientSteps, Connect, Verified, Refused, HandleDisconnect

LEMMA WorkingStep ==
    ASSUME Working, MailNext
    PROVE  Working'
<1>1. CASE UNCHANGED <<application, handler, task, notice, excused>>
  BY <1>1 DEF Working
<1>. QED
  BY <1>1, WorkingElsewhere, WorkingApplications, WorkingTasks, WorkingNotices

-----------------------------------------------------------------------------
(* Letters                                                                 *)

Kinds == {"status", "application", "digest", "opening", "expired"}

LEMMA PostedInit == MailInit => Posted
BY DEF MailInit, Posted

\* A letter that was queued, or one that changed, is still a letter.
LEMMA PostedLetter ==
    ASSUME Posted, NEW i, NEW l \in LetterType, Tried(l),
           letter' = [letter EXCEPT ![i] = l],
           listening' \subseteq Readers, round' \subseteq Readers
    PROVE  Posted'
<1>1. letter' \in [Letters -> LetterType \cup {Nothing}]
  BY DEF Posted
<1>2. \A j \in Letters : letter'[j] = l \/ letter'[j] = letter[j]
  BY DEF Posted
<1>3. \A j \in Letters : letter'[j] # Nothing => Tried(letter'[j])
  BY <1>2 DEF Posted
<1>4. \A j \in Letters : letter'[j] # Nothing => Tried(letter[j])'
  BY <1>3 DEF Tried
<1>. QED
  BY <1>1, <1>4 DEF Posted

LEMMA PostedAdd ==
    ASSUME Posted,
           NEW kind \in Kinds, NEW to \in SUBSET (Users \cup Readers),
           Add(letter, NewLetter(kind, to)) \/ UNCHANGED letter,
           listening' \subseteq Readers, round' \subseteq Readers
    PROVE  Posted'
<1>1. NewLetter(kind, to) \in LetterType /\ Tried(NewLetter(kind, to))
  BY BoundAssumption DEF NewLetter, LetterType, Tried, Kinds
<1>2. CASE Add(letter, NewLetter(kind, to))
  <2>1. PICK i : letter' = [letter EXCEPT ![i] = NewLetter(kind, to)]
    BY <1>2 DEF Add
  <2>. QED
    BY <1>1, <2>1, PostedLetter
<1>3. CASE UNCHANGED letter
  BY <1>3 DEF Posted, Tried
<1>. QED
  BY <1>2, <1>3

\* What a worker makes of a letter it holds.
LEMMA LetterMoves ==
    ASSUME Posted, NEW i \in Letters, letter[i] # Nothing, letter[i].state # "failed"
    PROVE  /\ \A state \in {"waiting", "taken", "sent", "done"} :
                 /\ [letter[i] EXCEPT !.state = state] \in LetterType
                 /\ Tried([letter[i] EXCEPT !.state = state])
           /\ [letter[i] EXCEPT !.state = "done", !.to = {}] \in LetterType
           /\ Tried([letter[i] EXCEPT !.state = "done", !.to = {}])
           /\ letter[i].stalls = 0 =>
                 /\ [letter[i] EXCEPT !.state = "waiting", !.stalls = 1] \in LetterType
                 /\ Tried([letter[i] EXCEPT !.state = "waiting", !.stalls = 1])
           /\ letter[i].stalls # 0 =>
                 /\ [letter[i] EXCEPT !.state = "failed", !.to = {}] \in LetterType
                 /\ Tried([letter[i] EXCEPT !.state = "failed", !.to = {}])
           /\ letter[i].tries + 1 < MaxAttempts =>
                 /\ [letter[i] EXCEPT !.state = "waiting", !.tries = @ + 1] \in LetterType
                 /\ Tried([letter[i] EXCEPT !.state = "waiting", !.tries = @ + 1])
           /\ ~(letter[i].tries + 1 < MaxAttempts) =>
                 /\ [letter[i] EXCEPT !.state = "failed", !.tries = @ + 1, !.to = {}]
                       \in LetterType
                 /\ Tried([letter[i] EXCEPT !.state = "failed", !.tries = @ + 1, !.to = {}])
<1>1. letter[i] \in LetterType /\ Tried(letter[i])
  BY DEF Posted
<1>2. letter[i].tries \in Nat /\ letter[i].tries < MaxAttempts /\ letter[i].stalls \in {0, 1}
  BY <1>1 DEF LetterType, Tried
<1>3. MaxAttempts \in Nat
  BY BoundAssumption
<1>4. \A state \in {"waiting", "taken", "sent", "done"} :
         /\ [letter[i] EXCEPT !.state = state] \in LetterType
         /\ Tried([letter[i] EXCEPT !.state = state])
  BY <1>1, <1>2 DEF LetterType, Tried
<1>5. /\ [letter[i] EXCEPT !.state = "done", !.to = {}] \in LetterType
      /\ Tried([letter[i] EXCEPT !.state = "done", !.to = {}])
  BY <1>1, <1>2 DEF LetterType, Tried
<1>6. ASSUME letter[i].stalls = 0
      PROVE  /\ [letter[i] EXCEPT !.state = "waiting", !.stalls = 1] \in LetterType
             /\ Tried([letter[i] EXCEPT !.state = "waiting", !.stalls = 1])
  BY <1>1, <1>2 DEF LetterType, Tried
<1>7. ASSUME letter[i].stalls # 0
      PROVE  /\ [letter[i] EXCEPT !.state = "failed", !.to = {}] \in LetterType
             /\ Tried([letter[i] EXCEPT !.state = "failed", !.to = {}])
  BY <1>1, <1>2, <1>7 DEF LetterType, Tried
<1>8. ASSUME letter[i].tries + 1 < MaxAttempts
      PROVE  /\ [letter[i] EXCEPT !.state = "waiting", !.tries = @ + 1] \in LetterType
             /\ Tried([letter[i] EXCEPT !.state = "waiting", !.tries = @ + 1])
  <2>1. letter[i].tries + 1 \in Nat
    BY <1>2
  <2>. QED
    BY <1>1, <1>8, <2>1 DEF LetterType, Tried
<1>9. ASSUME ~(letter[i].tries + 1 < MaxAttempts)
      PROVE  /\ [letter[i] EXCEPT !.state = "failed", !.tries = @ + 1, !.to = {}] \in LetterType
             /\ Tried([letter[i] EXCEPT !.state = "failed", !.tries = @ + 1, !.to = {}])
  <2>1. letter[i].tries + 1 = MaxAttempts /\ letter[i].tries + 1 \in Nat
    BY <1>2, <1>3, <1>9
  <2>. QED
    BY <1>1, <2>1 DEF LetterType, Tried
<1>. QED
  BY <1>4, <1>5, <1>6, <1>7, <1>8, <1>9

\* Steps of a letter.
LEMMA PostedWorker ==
    ASSUME Posted, NEW i \in Letters, LetterSteps(i)
    PROVE  Posted'
<1>1. /\ letter[i] # Nothing /\ letter[i].state # "failed" /\ letter[i] \in LetterType
      /\ letter[i].stalls \in {0, 1}
  BY DEF LetterSteps, Take, NothingToRecommend, Send, Complete, SendFails, WorkerDies, Is,
         Posted, LetterType
<1>2. listening' \subseteq Readers /\ round' \subseteq Readers
  BY DEF LetterSteps, Take, NothingToRecommend, Send, Complete, SendFails, WorkerDies,
         Posted, readers
<1>3. ASSUME NEW l, l \in LetterType, Tried(l), letter' = [letter EXCEPT ![i] = l]
      PROVE  Posted'
  BY <1>2, <1>3, PostedLetter
<1>4. ASSUME NEW state \in {"waiting", "taken", "sent", "done"}, Turns(i, state)
      PROVE  Posted'
  <2>1. letter' = [letter EXCEPT ![i] = [letter[i] EXCEPT !.state = state]]
    BY <1>4 DEF Turns
  <2>. QED
    BY <1>1, <1>3, <2>1, LetterMoves
<1>5. ASSUME Settles(i, "done")
      PROVE  Posted'
  <2>1. letter' = [letter EXCEPT ![i] = [letter[i] EXCEPT !.state = "done", !.to = {}]]
    BY <1>5 DEF Settles, Posted
  <2>. QED
    BY <1>1, <1>3, <2>1, LetterMoves
<1>6. ASSUME Settles(i, "failed"), letter[i].stalls # 0
      PROVE  Posted'
  <2>1. letter' = [letter EXCEPT ![i] = [letter[i] EXCEPT !.state = "failed", !.to = {}]]
    BY <1>6 DEF Settles, Posted
  <2>. QED
    BY <1>1, <1>3, <1>6, <2>1, LetterMoves
<1>7. CASE Take(i) \/ NothingToRecommend(i) \/ Send(i) \/ Complete(i)
  BY <1>4, <1>5, <1>7 DEF Take, NothingToRecommend, Send, Complete, Turns
<1>8. ASSUME Retries(i)
      PROVE  Posted'
  <2>. DEFINE again == [letter[i] EXCEPT !.state = "waiting", !.tries = @ + 1]
              over == [letter[i] EXCEPT !.state = "failed", !.tries = @ + 1, !.to = {}]
  <2>3. letter' = [letter EXCEPT ![i] =
                      IF letter[i].tries + 1 < MaxAttempts THEN again ELSE over]
    BY <1>8, Zenon DEF Retries
  <2>1. CASE letter[i].tries + 1 < MaxAttempts
    <3>1. letter' = [letter EXCEPT ![i] = again]
      BY <2>1, <2>3
    <3>. QED
      BY <1>1, <1>3, <2>1, <3>1, LetterMoves
  <2>2. CASE ~(letter[i].tries + 1 < MaxAttempts)
    <3>1. letter' = [letter EXCEPT ![i] = over]
      BY <2>2, <2>3
    <3>. QED
      BY <1>1, <1>3, <2>2, <3>1, LetterMoves
  <2>. QED
    BY <2>1, <2>2
<1>9. CASE SendFails(i)
  BY <1>5, <1>8, <1>9 DEF SendFails
<1>10. CASE WorkerDies(i)
  <2>1. CASE letter[i].stalls = 0
    <3>1. letter' = [letter EXCEPT ![i] =
                        [letter[i] EXCEPT !.state = "waiting", !.stalls = 1]]
      BY <1>10, <2>1 DEF WorkerDies, Posted
    <3>. QED
      BY <1>1, <1>3, <2>1, <3>1, LetterMoves
  <2>. QED
    BY <1>6, <1>10, <2>1 DEF WorkerDies
<1>. QED
  BY <1>7, <1>9, <1>10 DEF LetterSteps

LEMMA PostedStep ==
    ASSUME Working, Posted, MailNext
    PROVE  Posted'
<1>1. CASE \E i \in Letters : LetterSteps(i)
  BY <1>1, PostedWorker
<1>2. CASE UNCHANGED <<letter, listening, round>>
  BY <1>2 DEF Posted, Tried
<1>3. ASSUME NEW t \in Tasks, QueueStatusLetter(t)
      PROVE  Posted'
  BY <1>3, PostedAdd DEF QueueStatusLetter, Kinds, Users, Posted, readers
<1>4. ASSUME NEW t \in Tasks, WriteToHr(t)
      PROVE  Posted'
  <2>1. PICK h \in task[t].told :
           Add(letter, NewLetter("application", {h})) \/ UNCHANGED letter
    BY <1>4 DEF WriteToHr
  <2>2. h \in HrUsers
    BY <1>4, <2>1, TaskFields DEF WriteToHr, TaskAt
  <2>. QED
    <3>1. listening' \subseteq Readers /\ round' \subseteq Readers
      BY <1>4 DEF WriteToHr, Posted, readers
    <3>2. {h} \in SUBSET (Users \cup Readers) /\ "application" \in Kinds
      BY <2>2 DEF Users, Kinds
    <3>. QED
      BY <2>1, <3>1, <3>2, PostedAdd
<1>5. CASE AddDigests
  <2>1. PICK u \in round :
           /\ round' = round \ {u}
           /\ Add(letter, NewLetter("digest", {u})) \/ UNCHANGED letter
    BY <1>5 DEF AddDigests
  <2>. QED
    BY <1>5, <2>1, PostedAdd DEF AddDigests, Kinds, Posted
<1>6. CASE QueueOpening
  BY <1>6, PostedAdd DEF QueueOpening, Kinds, Posted, readers
<1>7. CASE QueueExpired
  BY <1>7, PostedAdd DEF QueueExpired, Kinds, Users, Posted, readers
<1>8. CASE QueueDigests \/ Leave
  BY <1>8 DEF QueueDigests, Leave, Posted, Tried
<1>9. CASE ApplicationSteps \/ MarkAsRead \/ MarkAllAsRead \/ RemoveNotice
  BY <1>2, <1>9 DEF ApplicationSteps, Update, UpdateWrite, UpdateFails, Announce, Apply, Remove,
                    MarkAsRead, MarkAllAsRead, RemoveNotice, readers
<1>10. ASSUME NEW t \in Tasks, TaskSteps(t)
       PROVE  Posted'
  BY <1>2, <1>3, <1>4, <1>10 DEF TaskSteps, LoadApplication, CreateNotice, NoticeFails, LetterLost,
                                 FindHr, TellHr, readers
<1>11. ASSUME NEW c \in Clients, ClientSteps(c)
       PROVE  Posted'
  BY <1>2, <1>11 DEF ClientSteps, Connect, Verified, Refused, HandleDisconnect, readers
<1>. QED
  BY <1>1, <1>5, <1>6, <1>7, <1>8, <1>9, <1>10, <1>11 DEF MailNext, QueueSteps

-----------------------------------------------------------------------------
(* What is told of an application                                          *)

\* Notices are stored in the order of their numbers.
Filled == \A i, j \in Notices : notice[i] = Nothing /\ i < j => notice[j] = Nothing

\* Nothing is under way about an application before it exists, and nothing told of it.
Known ==
    /\ \A s \in Slots : handler[s].pc # "idle" => application[handler[s].of] # Nothing
    /\ \A t \in Tasks : task[t].pc # "idle" => application[task[t].of] # Nothing
    /\ \A i \in Notices : notice[i] # Nothing => application[notice[i].of] # Nothing

\* While what is told of a is to be relied on, all that is still to be announced of it
\* is the status it has.
Agreeing(a) ==
    /\ \A s \in Slots : handler[s].of = a /\ handler[s].pc = "announce" =>
          handler[s].status = application[a]
    /\ \A t \in Tasks : task[t].of = a /\ task[t].pc \in {"load", "notice"} =>
          task[t].status = application[a]

LastWords(a) ==
    IF Told(a) = {} THEN {"PENDING"} ELSE {notice[i].status : i \in Latest(a)}

Word(a) ==
    Standing(a) /\ a \notin excused =>
        /\ Agreeing(a)
        /\ Pending(a) = {} => LastWords(a) \subseteq {application[a]}

Telling == Filled /\ Known /\ \A a \in Applications : Word(a)

LEMMA TellingInit == MailInit => Telling
<1>. SUFFICES ASSUME MailInit
              PROVE  Telling
  OBVIOUS
<1>1. Filled
  BY DEF MailInit, Filled
<1>2. Known
  BY IdleTyped DEF MailInit, Known
<1>3. ASSUME NEW a \in Applications
      PROVE  Word(a)
  <2>1. Told(a) = {}
    BY DEF MailInit, Told
  <2>2. Agreeing(a)
    BY IdleTyped DEF MailInit, Agreeing
  <2>3. Standing(a) => application[a] = "PENDING"
    BY DEF MailInit, Standing
  <2>. QED
    BY <2>1, <2>2, <2>3 DEF Word, LastWords
<1>. QED
  BY <1>1, <1>2, <1>3 DEF Telling

\* What is pending is a handler that has yet to announce, or a task that has yet to tell.
LEMMA PendingParts ==
    ASSUME NEW a
    PROVE  Pending(a) = {} <=>
              /\ \A s \in Slots : ~(handler[s].of = a /\ handler[s].pc = "announce")
              /\ \A t \in Tasks : ~(task[t].of = a /\ task[t].pc \in {"load", "notice"})
BY DEF Pending

LEMMA PendingPartsNext ==
    ASSUME NEW a
    PROVE  Pending(a)' = {} <=>
              /\ \A s \in Slots : ~(handler'[s].of = a /\ handler'[s].pc = "announce")
              /\ \A t \in Tasks : ~(task'[t].of = a /\ task'[t].pc \in {"load", "notice"})
BY DEF Pending

\* An application of which nothing changed that is told or to be told.
LEMMA WordStays ==
    ASSUME NEW a \in Applications, Word(a),
           Told(a)' = Told(a), LastWords(a)' = LastWords(a),
           application'[a] = application[a], a \in excused' \/ a \notin excused,
           \A s \in Slots : handler'[s].of = a /\ handler'[s].pc = "announce" =>
              handler[s].of = a /\ handler[s].pc = "announce"
                 /\ handler[s].status = handler'[s].status,
           \A t \in Tasks : task'[t].of = a /\ task'[t].pc \in {"load", "notice"} =>
              task[t].of = a /\ task[t].pc \in {"load", "notice"}
                 /\ task[t].status = task'[t].status,
           Standing(a) => (Pending(a)' = {} => Pending(a) = {})
    PROVE  Word(a)'
<1>. SUFFICES ASSUME Standing(a)', a \notin excused'
              PROVE  /\ Agreeing(a)'
                     /\ Pending(a)' = {} => LastWords(a)' \subseteq {application'[a]}
  BY DEF Word
<1>1. Standing(a) /\ a \notin excused
  BY DEF Standing
<1>2. Agreeing(a) /\ (Pending(a) = {} => LastWords(a) \subseteq {application[a]})
  BY <1>1 DEF Word
<1>. QED
  BY <1>1, <1>2 DEF Agreeing

\* Notices that keep what they tell.
LEMMA ToldStays ==
    ASSUME NEW a, Working,
           \A i \in Notices :
              notice[i] # Nothing /\ notice[i].of = a /\ notice[i].status # Nothing =>
              notice'[i] # Nothing /\ notice'[i].of = a /\ notice'[i].status = notice[i].status,
           \A i \in Notices :
              notice'[i] # Nothing /\ notice'[i].of = a /\ notice'[i].status # Nothing =>
              notice[i] # Nothing /\ notice[i].of = a /\ notice[i].status # Nothing
    PROVE  Told(a)' = Told(a) /\ LastWords(a)' = LastWords(a)
<1>1. Told(a)' = Told(a)
  BY DEF Told
<1>2. Latest(a)' = Latest(a) /\ Latest(a) \subseteq Told(a)
  BY <1>1 DEF Latest
<1>3. \A i \in Latest(a) : notice'[i].status = notice[i].status
  BY <1>2 DEF Told
<1>. QED
  BY <1>1, <1>2, <1>3 DEF LastWords

LEMMA Same ==
    ASSUME NEW a, Working, UNCHANGED notice
    PROVE  Told(a)' = Told(a) /\ LastWords(a)' = LastWords(a)
BY ToldStays

-----------------------------------------------------------------------------
(* Every step keeps what is told in order                                  *)

LEMMA FilledSame ==
    ASSUME Filled, \A i \in Notices : (notice'[i] = Nothing) <=> (notice[i] = Nothing)
    PROVE  Filled'
BY DEF Filled

\* A handler other than the one that steps is where it was.
LEMMA TellingUpdate ==
    ASSUME Working, Telling, Working',
           NEW s \in Slots, Update(s) \/ UpdateFails(s)
    PROVE  Telling'
<1>1. UNCHANGED <<application, task, notice, excused>>
  BY DEF Update, UpdateFails
<1>2. /\ \A r \in Slots \ {s} : handler'[r] = handler[r]
      /\ handler'[s].pc # "announce"
      /\ handler'[s].pc # "idle" =>
            handler'[s].of \in Applications /\ application[handler'[s].of] # Nothing
  <2>1. CASE UpdateFails(s)
    BY <2>1, IdleTyped DEF UpdateFails, Working
  <2>2. CASE Update(s)
    <3>1. PICK a \in Applications, st \in Statuses :
             /\ Standing(a)
             /\ handler' = [handler EXCEPT ![s] =
                               [Idle EXCEPT !.pc = After("idle"), !.of = a,
                                            !.status = st]]
      BY <2>2 DEF Update
    <3>. DEFINE made == [Idle EXCEPT !.pc = After("idle"), !.of = a, !.status = st]
    <3>2. made.pc = "write" /\ made.of = a
      BY DEF Idle, After
    <3>3. handler' = [handler EXCEPT ![s] = made]
      BY <3>1
    <3>. HIDE DEF made
    <3>. QED
      BY <3>1, <3>2, <3>3 DEF Working, Standing
  <2>. QED
    BY <2>1, <2>2
<1>3. handler[s].pc # "announce"
  BY DEF Update, UpdateFails
<1>4. Filled'
  BY <1>1 DEF Filled, Telling
<1>5. Known'
  BY <1>1, <1>2, HandlerFields DEF Known, Telling
<1>6. ASSUME NEW a \in Applications
      PROVE  Word(a)'
  <2>1. Pending(a)' = {} => Pending(a) = {}
    BY <1>1, <1>2, <1>3, PendingParts, PendingPartsNext
  <2>2. Told(a)' = Told(a) /\ LastWords(a)' = LastWords(a)
    BY <1>1, Same
  <2>3. \A r \in Slots : handler'[r].of = a /\ handler'[r].pc = "announce" =>
           /\ handler[r].of = a /\ handler[r].pc = "announce"
           /\ handler[r].status = handler'[r].status
    BY <1>2
  <2>. QED
    BY <1>1, <2>1, <2>2, <2>3, WordStays DEF Telling
<1>. QED
  BY <1>4, <1>5, <1>6 DEF Telling

\* A status is written, and it is all there is to announce.
LEMMA TellingWrite ==
    ASSUME Working, Telling, NEW s \in Slots, UpdateWrite(s)
    PROVE  Telling'
<1>0. PICK b \in Applications : b = handler[s].of
  BY HandlerFields DEF UpdateWrite
<1>1. /\ UNCHANGED <<task, notice>> /\ handler[s].pc = "write"
      /\ handler[s].status \in Statuses /\ application[b] # Nothing
      /\ \A r \in Slots \ {s} : handler'[r] = handler[r]
      /\ handler'[s].pc = "announce" /\ handler'[s].of = b
      /\ handler'[s].status = handler[s].status
  BY <1>0, HandlerFields, StepsTyped DEF UpdateWrite, Telling, Known
<1>2. /\ \A a \in Applications \ {b} : application'[a] = application[a]
      /\ Standing(b) => application'[b] = handler[s].status
      /\ ~Standing(b) => application'[b] = application[b]
      /\ application'[b] # Nothing
  BY <1>0, <1>1, NothingAssumption DEF UpdateWrite, Working, Standing
<1>3. /\ Pending(b) # {} => excused' = excused \cup {b}
      /\ Pending(b) = {} => excused' = excused \ {b}
  BY <1>0 DEF UpdateWrite
<1>4. Filled' /\ Known'
  <2>1. Filled'
    BY <1>1 DEF Filled, Telling
  <2>2. \A a \in Applications : application[a] # Nothing => application'[a] # Nothing
    BY <1>2
  <2>3. \A r \in Slots : handler'[r].pc # "idle" => application'[handler'[r].of] # Nothing
    BY <1>0, <1>1, <1>2, <2>2, HandlerFields DEF Known, Telling
  <2>4. \A t \in Tasks : task[t].pc # "idle" => application'[task[t].of] # Nothing
    BY <2>2, TaskFields DEF Known, Telling
  <2>5. \A i \in Notices : notice[i] # Nothing => application'[notice[i].of] # Nothing
    <3>1. \A i \in Notices : notice[i] # Nothing => notice[i].of \in Applications
      BY DEF Working, NoticeType
    <3>. QED
      BY <2>2, <3>1 DEF Known, Telling
  <2>. QED
    BY <1>1, <2>1, <2>3, <2>4, <2>5 DEF Known
<1>5. ASSUME NEW a \in Applications \ {b}
      PROVE  Word(a)'
  <2>1. Pending(a)' = {} => Pending(a) = {}
    BY <1>1, PendingParts, PendingPartsNext
  <2>2. Told(a)' = Told(a) /\ LastWords(a)' = LastWords(a)
    BY <1>1, Same
  <2>3. \A r \in Slots : handler'[r].of = a /\ handler'[r].pc = "announce" =>
           /\ handler[r].of = a /\ handler[r].pc = "announce"
           /\ handler[r].status = handler'[r].status
    BY <1>1
  <2>4. a \in excused' \/ a \notin excused
    BY <1>3
  <2>5. application'[a] = application[a]
    BY <1>2
  <2>. QED
    BY <1>1, <2>1, <2>2, <2>3, <2>4, <2>5, WordStays DEF Telling
<1>6. Word(b)'
  <2>. SUFFICES ASSUME application'[b] \notin {Nothing, "removed"}, b \notin excused'
                PROVE  Agreeing(b)' /\ Pending(b)' # {}
    BY DEF Word, Standing
  <2>1. Pending(b) = {} /\ Standing(b) /\ application'[b] = handler[s].status
    BY <1>2, <1>3 DEF Standing
  <2>2. /\ \A r \in Slots : ~(handler[r].of = b /\ handler[r].pc = "announce")
        /\ \A t \in Tasks : ~(task[t].of = b /\ task[t].pc \in {"load", "notice"})
    BY <2>1 DEF Pending
  <2>3. /\ \A r \in Slots : handler'[r].of = b /\ handler'[r].pc = "announce" =>
              handler'[r].status = application'[b]
        /\ \A t \in Tasks : ~(task'[t].of = b /\ task'[t].pc \in {"load", "notice"})
        /\ handler'[s].of = b /\ handler'[s].pc = "announce"
    BY <1>1, <2>1, <2>2
  <2>. QED
    BY <2>3 DEF Agreeing, Pending
<1>. QED
  BY <1>4, <1>5, <1>6 DEF Telling

LEMMA TellingAnnounce ==
    ASSUME Working, Telling, NEW s \in Slots, Announce(s)
    PROVE  Telling'
<1>0. PICK b \in Applications : b = handler[s].of
  BY HandlerFields DEF Announce
<1>1. PICK t \in Tasks :
         /\ TaskAt(t, "idle")
         /\ Goes(t, [Idle EXCEPT !.pc = "load", !.of = handler[s].of,
                                 !.status = handler[s].status])
  BY DEF Announce
<1>2. /\ UNCHANGED <<application, notice, excused>> /\ handler[s].pc = "announce"
      /\ \A r \in Slots \ {s} : handler'[r] = handler[r]
      /\ handler'[s] = Idle
  BY StepsTyped DEF Announce
<1>3. /\ \A u \in Tasks \ {t} : task'[u] = task[u]
      /\ task[t].pc = "idle"
      /\ task'[t].pc = "load" /\ task'[t].of = b /\ task'[t].status = handler[s].status
  <2>. DEFINE made == [Idle EXCEPT !.pc = "load", !.of = handler[s].of,
                                  !.status = handler[s].status]
  <2>1. made.pc = "load" /\ made.of = b /\ made.status = handler[s].status
    BY <1>0 DEF Idle
  <2>2. task' = [task EXCEPT ![t] = made]
    BY <1>1 DEF Goes
  <2>. HIDE DEF made
  <2>. QED
    BY <1>1, <2>1, <2>2 DEF Working, TaskAt
<1>4. Filled'
  BY <1>2 DEF Filled, Telling
<1>5. Known'
  BY <1>0, <1>2, <1>3, IdleTyped DEF Known, Telling
<1>6. ASSUME NEW a \in Applications \ {b}
      PROVE  Word(a)'
  <2>1. Pending(a)' = {} => Pending(a) = {}
    BY <1>0, <1>2, <1>3, PendingParts, PendingPartsNext
  <2>2. Told(a)' = Told(a) /\ LastWords(a)' = LastWords(a)
    BY <1>2, Same
  <2>3. /\ \A r \in Slots : handler'[r].of = a /\ handler'[r].pc = "announce" =>
              /\ handler[r].of = a /\ handler[r].pc = "announce"
              /\ handler[r].status = handler'[r].status
        /\ \A u \in Tasks : task'[u].of = a /\ task'[u].pc \in {"load", "notice"} =>
              /\ task[u].of = a /\ task[u].pc \in {"load", "notice"}
              /\ task[u].status = task'[u].status
    BY <1>2, <1>3, IdleTyped
  <2>. QED
    BY <1>2, <2>1, <2>2, <2>3, WordStays DEF Telling
<1>7. Word(b)'
  <2>1. Word(b)
    BY DEF Telling
  <2>2. Agreeing(b) => Agreeing(b)'
    BY <1>0, <1>2, <1>3, IdleTyped DEF Agreeing
  <2>3. Pending(b)' # {}
    BY <1>3, PendingPartsNext
  <2>. QED
    BY <1>2, <2>1, <2>2, <2>3 DEF Word, Standing
<1>. QED
  BY <1>4, <1>5, <1>6, <1>7 DEF Telling

\* A new application: nothing has been told of it.
LEMMA TellingApply ==
    ASSUME Working, Telling, Apply
    PROVE  Telling'
<1>1. PICK b \in Applications, t \in Tasks :
         /\ application[b] = Nothing /\ TaskAt(t, "idle")
         /\ application' = [application EXCEPT ![b] = "PENDING"]
         /\ Goes(t, [Idle EXCEPT !.pc = "find hr", !.of = b])
  BY DEF Apply
<1>2. /\ UNCHANGED <<handler, notice, excused>>
      /\ \A a \in Applications \ {b} : application'[a] = application[a]
      /\ application'[b] = "PENDING" /\ application'[b] # Nothing
  BY <1>1, NothingAssumption DEF Apply, Working
<1>3. /\ \A u \in Tasks \ {t} : task'[u] = task[u]
      /\ task[t].pc = "idle" /\ task'[t].pc = "find hr" /\ task'[t].of = b
  <2>. DEFINE made == [Idle EXCEPT !.pc = "find hr", !.of = b]
  <2>1. made.pc = "find hr" /\ made.of = b
    BY DEF Idle
  <2>2. task' = [task EXCEPT ![t] = made]
    BY <1>1 DEF Goes
  <2>. HIDE DEF made
  <2>. QED
    BY <1>1, <2>1, <2>2 DEF Working, TaskAt
<1>4. \A a \in Applications : application[a] # Nothing => application'[a] # Nothing
  BY <1>2
<1>5. Filled' /\ Known'
  <2>1. Filled'
    BY <1>2 DEF Filled, Telling
  <2>2. \A r \in Slots : handler[r].pc # "idle" => application'[handler[r].of] # Nothing
    BY <1>4, HandlerFields DEF Known, Telling
  <2>3. \A u \in Tasks : task'[u].pc # "idle" => application'[task'[u].of] # Nothing
    BY <1>2, <1>3, <1>4, TaskFields DEF Known, Telling
  <2>4. \A i \in Notices : notice[i] # Nothing => application'[notice[i].of] # Nothing
    <3>1. \A i \in Notices : notice[i] # Nothing => notice[i].of \in Applications
      BY DEF Working, NoticeType
    <3>. QED
      BY <1>4, <3>1 DEF Known, Telling
  <2>. QED
    BY <1>2, <2>1, <2>2, <2>3, <2>4 DEF Known
<1>6. ASSUME NEW a \in Applications \ {b}
      PROVE  Word(a)'
  <2>1. Pending(a)' = {} => Pending(a) = {}
    <3>1. \A u \in Tasks : task[u].pc \in {"load", "notice"} => task'[u] = task[u]
      BY <1>3
    <3>. QED
      BY <1>2, <3>1, PendingParts, PendingPartsNext
  <2>2. Told(a)' = Told(a) /\ LastWords(a)' = LastWords(a)
    BY <1>2, Same
  <2>3. \A u \in Tasks : task'[u].of = a /\ task'[u].pc \in {"load", "notice"} =>
           /\ task[u].of = a /\ task[u].pc \in {"load", "notice"}
           /\ task[u].status = task'[u].status
    BY <1>3
  <2>. QED
    BY <1>2, <2>1, <2>2, <2>3, WordStays DEF Telling
<1>7. Word(b)'
  <2>1. Told(b) = {}
    BY <1>1 DEF Told, Known, Telling
  <2>2. Told(b)' = {} /\ LastWords(b)' = {"PENDING"}
    BY <1>2, <2>1, Same DEF LastWords
  <2>3. /\ \A r \in Slots : ~(handler[r].of = b /\ handler[r].pc = "announce")
        /\ \A u \in Tasks : ~(task[u].of = b /\ task[u].pc \in {"load", "notice"})
    BY <1>1 DEF Known, Telling
  <2>4. Agreeing(b)'
    BY <1>2, <1>3, <2>3 DEF Agreeing
  <2>. QED
    BY <1>2, <2>2, <2>4 DEF Word
<1>. QED
  BY <1>5, <1>6, <1>7 DEF Telling

\* An application that is removed is not spoken of.
LEMMA TellingRemove ==
    ASSUME Working, Telling, Remove
    PROVE  Telling'
<1>1. PICK b \in Applications : application' = [application EXCEPT ![b] = "removed"]
  BY DEF Remove
<1>2. UNCHANGED <<handler, task, notice, excused>>
  BY DEF Remove
<1>3. /\ \A a \in Applications \ {b} : application'[a] = application[a]
      /\ application'[b] = "removed"
      /\ \A a \in Applications : application[a] # Nothing => application'[a] # Nothing
  BY <1>1, NothingAssumption DEF Working
<1>4. Filled' /\ Known'
  <2>1. Filled'
    BY <1>2 DEF Filled, Telling
  <2>2. \A r \in Slots : handler[r].pc # "idle" => application'[handler[r].of] # Nothing
    BY <1>3, HandlerFields DEF Known, Telling
  <2>3. \A u \in Tasks : task[u].pc # "idle" => application'[task[u].of] # Nothing
    BY <1>3, TaskFields DEF Known, Telling
  <2>4. \A i \in Notices : notice[i] # Nothing => application'[notice[i].of] # Nothing
    <3>1. \A i \in Notices : notice[i] # Nothing => notice[i].of \in Applications
      BY DEF Working, NoticeType
    <3>. QED
      BY <1>3, <3>1 DEF Known, Telling
  <2>. QED
    BY <1>2, <2>1, <2>2, <2>3, <2>4 DEF Known
<1>5. ASSUME NEW a \in Applications \ {b}
      PROVE  Word(a)'
  <2>1. Pending(a)' = {} => Pending(a) = {}
    BY <1>2, PendingParts, PendingPartsNext
  <2>2. Told(a)' = Told(a) /\ LastWords(a)' = LastWords(a)
    BY <1>2, Same
  <2>. QED
    BY <1>2, <1>3, <2>1, <2>2, WordStays DEF Telling
<1>6. Word(b)'
  BY <1>3 DEF Word, Standing
<1>. QED
  BY <1>4, <1>5, <1>6 DEF Telling

\* Reading and removing notices changes nothing of what they tell.
LEMMA TellingNotices ==
    ASSUME Working, Telling, MarkAsRead \/ MarkAllAsRead \/ RemoveNotice
    PROVE  Telling'
<1>1. UNCHANGED <<application, handler, task, excused>>
  BY DEF MarkAsRead, MarkAllAsRead, RemoveNotice
<1>2. /\ \A i \in Notices : (notice'[i] = Nothing) <=> (notice[i] = Nothing)
      /\ \A i \in Notices : notice[i] # Nothing =>
            notice'[i].of = notice[i].of /\ notice'[i].status = notice[i].status
  BY WorkingNotices
<1>3. Filled'
  BY <1>2, FilledSame DEF Telling
<1>4. Known'
  BY <1>1, <1>2 DEF Known, Telling
<1>5. ASSUME NEW a \in Applications
      PROVE  Word(a)'
  <2>1. Pending(a)' = {} => Pending(a) = {}
    BY <1>1, PendingParts, PendingPartsNext
  <2>2. Told(a)' = Told(a) /\ LastWords(a)' = LastWords(a)
    BY <1>2, ToldStays
  <2>. QED
    BY <1>1, <2>1, <2>2, WordStays DEF Telling
<1>. QED
  BY <1>3, <1>4, <1>5 DEF Telling

\* A notice is the first that follows all there are.
LEMMA AddedLast ==
    ASSUME Working, Filled, NEW n \in NoticeType, Add(notice, n)
    PROVE  \E k \in Notices :
              /\ notice[k] = Nothing /\ n # Nothing
              /\ \A j \in Notices : notice[j] # Nothing => j < k
              /\ \A j \in Notices \ {k} : notice'[j] = notice[j]
              /\ notice'[k] = n
              /\ Filled'
<1>1. PICK k \in Notices :
         /\ notice[k] = Nothing /\ n # Nothing
         /\ \A j \in Notices : notice[j] = Nothing => k <= j
         /\ notice' = [notice EXCEPT ![k] = n]
  BY Added
<1>2. /\ \A j \in Notices \ {k} : notice'[j] = notice[j]
      /\ notice'[k] = n
  BY <1>1 DEF Working
<1>3. Notices \subseteq Nat
  BY BoundAssumption
<1>4. \A j \in Notices : notice[j] # Nothing => j < k
  BY <1>1, <1>3 DEF Filled
<1>5. Filled'
  BY <1>1, <1>2, <1>3 DEF Filled
<1>. QED
  BY <1>1, <1>2, <1>4, <1>5

\* The steps of an announcement that tell the candidate nothing.
LEMMA TellingTask ==
    ASSUME Working, Telling, NEW t \in Tasks, UNCHANGED <<application, handler>>,
           Filled',
           \A u \in Tasks \ {t} : task'[u] = task[u],
           task[t].pc # "idle",
           task'[t].pc = "idle" \/ task'[t].of = task[t].of,
           task'[t].pc \in {"load", "notice"} =>
              task[t].pc \in {"load", "notice"} /\ task'[t].status = task[t].status,
           task[t].pc \in {"load", "notice"} /\ task'[t].pc \notin {"load", "notice"} =>
              task[t].of \in excused' \/ ~Standing(task[t].of),
           excused \subseteq excused',
           \A i \in Notices :
              \/ notice'[i] = notice[i]
              \/ /\ notice[i] = Nothing /\ notice'[i] # Nothing
                 /\ notice'[i].of = task[t].of /\ notice'[i].status = Nothing
    PROVE  Telling'
<1>1. Known'
  <2>1. \A u \in Tasks : task'[u].pc # "idle" => application[task'[u].of] # Nothing
    BY DEF Known, Telling
  <2>2. \A i \in Notices : notice'[i] # Nothing => application[notice'[i].of] # Nothing
    BY DEF Known, Telling
  <2>. QED
    BY <2>1, <2>2 DEF Known, Telling
<1>2. ASSUME NEW a \in Applications
      PROVE  Word(a)'
  <2>. SUFFICES ASSUME Standing(a)', a \notin excused'
                PROVE  /\ Agreeing(a)'
                       /\ Pending(a)' = {} => LastWords(a)' \subseteq {application'[a]}
    BY DEF Word
  <2>0. Standing(a) /\ a \notin excused
    BY DEF Standing
  <2>1. Pending(a)' = {} => Pending(a) = {}
    BY <2>0, PendingParts, PendingPartsNext
  <2>2. Told(a)' = Told(a) /\ LastWords(a)' = LastWords(a)
    <3>1. \A i \in Notices :
             notice[i] # Nothing /\ notice[i].of = a /\ notice[i].status # Nothing =>
                notice'[i] # Nothing /\ notice'[i].of = a /\ notice'[i].status = notice[i].status
      OBVIOUS
    <3>2. \A i \in Notices :
             notice'[i] # Nothing /\ notice'[i].of = a /\ notice'[i].status # Nothing =>
                notice[i] # Nothing /\ notice[i].of = a /\ notice[i].status # Nothing
      OBVIOUS
    <3>. QED
      BY <3>1, <3>2, ToldStays
  <2>3. Word(a) /\ Agreeing(a)
    BY <2>0 DEF Telling, Word
  <2>4. \A u \in Tasks : task'[u].of = a /\ task'[u].pc \in {"load", "notice"} =>
           /\ task[u].of = a /\ task[u].pc \in {"load", "notice"}
           /\ task[u].status = task'[u].status
    OBVIOUS
  <2>5. Agreeing(a)'
    BY <2>3, <2>4 DEF Agreeing
  <2>. QED
    BY <2>0, <2>1, <2>2, <2>3, <2>5 DEF Word
<1>. QED
  BY <1>1, <1>2 DEF Telling

\* The candidate is told the status the announcement carries.
LEMMA TellingCreate ==
    ASSUME Working, Telling, NEW t \in Tasks, CreateNotice(t)
    PROVE  Telling'
<1>0. PICK b \in Applications : b = task[t].of
  BY TaskFields DEF CreateNotice, TaskAt
<1>1. /\ UNCHANGED <<application, handler, excused>>
      /\ task[t].pc = "notice" /\ task[t].status \in Statuses /\ task[t].status # Nothing
      /\ \A u \in Tasks \ {t} : task'[u] = task[u]
      /\ task'[t].pc = "letter" /\ task'[t].of = b
  BY <1>0, GotoTyped, TaskFields, NothingAssumption DEF CreateNotice, TaskAt
<1>. DEFINE n == NewNotice(Candidate, task[t].of, task[t].status)
<1>2. n \in NoticeType /\ n.of = b /\ n.status = task[t].status
  BY <1>0, <1>1 DEF NewNotice, NoticeType, Users
<1>3. Add(notice, n)
  BY DEF CreateNotice
<1>. HIDE DEF n
<1>4. PICK k \in Notices :
         /\ notice[k] = Nothing /\ n # Nothing
         /\ \A j \in Notices : notice[j] # Nothing => j < k
         /\ \A j \in Notices \ {k} : notice'[j] = notice[j]
         /\ notice'[k] = n
         /\ Filled'
  BY <1>2, <1>3, AddedLast DEF Telling
<1>5. Known'
  BY <1>0, <1>1, <1>2, <1>4 DEF Known, Telling
<1>6. ASSUME NEW a \in Applications \ {b}
      PROVE  Word(a)'
  <2>1. Pending(a)' = {} => Pending(a) = {}
    BY <1>0, <1>1, PendingParts, PendingPartsNext
  <2>2. Told(a)' = Told(a) /\ LastWords(a)' = LastWords(a)
    BY <1>2, <1>4, ToldStays
  <2>3. \A u \in Tasks : task'[u].of = a /\ task'[u].pc \in {"load", "notice"} =>
           /\ task[u].of = a /\ task[u].pc \in {"load", "notice"}
           /\ task[u].status = task'[u].status
    BY <1>1
  <2>. QED
    BY <1>1, <2>1, <2>2, <2>3, WordStays DEF Telling
<1>7. Word(b)'
  <2>. SUFFICES ASSUME Standing(b), b \notin excused
                PROVE  Agreeing(b)' /\ LastWords(b)' \subseteq {application[b]}
    BY <1>1 DEF Word, Standing
  <2>1. Agreeing(b)
    BY DEF Telling, Word
  <2>2. application[b] = task[t].status
    BY <1>0, <1>1, <2>1 DEF Agreeing
  <2>3. Agreeing(b)'
    BY <1>1, <2>1 DEF Agreeing
  <2>4. Told(b)' = Told(b) \cup {k}
    BY <1>1, <1>2, <1>4 DEF Told
  <2>5. \A j \in Told(b)' : k >= j
    <3>1. \A j \in Told(b) : j < k /\ j \in Nat
      BY <1>4, BoundAssumption DEF Told
    <3>. QED
      BY <2>4, <3>1, BoundAssumption
  <2>6. Latest(b)' = {k}
    <3>1. PICK S : S = Told(b)'
      OBVIOUS
    <3>2. k \in S /\ \A j \in S : k >= j /\ j \in Nat
      BY <2>4, <2>5, <3>1, BoundAssumption DEF Told
    <3>3. {i \in S : \A j \in S : j <= i} = {k}
      BY <3>2
    <3>. QED
      BY <3>1, <3>3 DEF Latest
  <2>7. LastWords(b)' = {notice'[k].status}
    BY <2>4, <2>6 DEF LastWords
  <2>. QED
    BY <1>2, <1>4, <2>2, <2>3, <2>7
<1>. QED
  BY <1>4, <1>5, <1>6, <1>7 DEF Telling

LEMMA TellingTasks ==
    ASSUME Working, Telling, NEW t \in Tasks, TaskSteps(t)
    PROVE  Telling'
<1>1. CASE CreateNotice(t)
  BY <1>1, TellingCreate
<1>2. CASE LoadApplication(t)
  <2>1. /\ UNCHANGED <<application, handler, notice, excused>> /\ task[t].pc = "load"
        /\ \A u \in Tasks \ {t} : task'[u] = task[u]
        /\ \/ /\ task'[t].pc = "notice" /\ task'[t].of = task[t].of
              /\ task'[t].status = task[t].status
           \/ task'[t] = Idle /\ ~Standing(task[t].of)
    BY <1>2, GotoTyped, GoesTyped, IdleTyped DEF LoadApplication, TaskAt
  <2>. QED
    BY <2>1, IdleTyped, TellingTask DEF Filled, Telling
<1>3. CASE NoticeFails(t)
  <2>1. /\ UNCHANGED <<application, handler, notice>> /\ task[t].pc = "notice"
        /\ \A u \in Tasks \ {t} : task'[u] = task[u]
        /\ task'[t] = Idle /\ excused' = excused \cup {task[t].of}
    BY <1>3, GoesTyped, IdleTyped DEF NoticeFails, TaskAt
  <2>. QED
    BY <2>1, IdleTyped, TellingTask DEF Filled, Telling
<1>4. CASE QueueStatusLetter(t) \/ LetterLost(t)
  <2>1. /\ UNCHANGED <<application, handler, notice, excused>> /\ task[t].pc = "letter"
        /\ \A u \in Tasks \ {t} : task'[u] = task[u]
        /\ task'[t] = Idle
    BY <1>4, GoesTyped, IdleTyped DEF QueueStatusLetter, LetterLost, TaskAt
  <2>. QED
    BY <2>1, IdleTyped, TellingTask DEF Filled, Telling
<1>5. CASE FindHr(t)
  <2>1. /\ UNCHANGED <<application, handler, notice, excused>> /\ task[t].pc = "find hr"
        /\ \A u \in Tasks \ {t} : task'[u] = task[u]
        /\ task'[t] = Idle \/ task'[t] = [task[t] EXCEPT !.pc = "tell hr", !.hr = HrUsers]
    BY <1>5 DEF FindHr, TaskAt, Goes, Working
  <2>2. [task[t] EXCEPT !.pc = "tell hr", !.hr = HrUsers].pc = "tell hr"
        /\ [task[t] EXCEPT !.pc = "tell hr", !.hr = HrUsers].of = task[t].of
    BY <2>1, IdleTyped DEF Working, TaskType
  <2>3. /\ task'[t].pc \in {"idle", "tell hr"}
        /\ task'[t].pc = "idle" \/ task'[t].of = task[t].of
    BY <2>1, <2>2, IdleTyped
  <2>. QED
    BY <2>1, <2>3, TellingTask DEF Filled, Telling
<1>6. CASE TellHr(t)
  <2>1. PICK h \in task[t].hr :
           /\ \/ Add(notice, NewNotice(h, task[t].of, Nothing))
              \/ UNCHANGED notice
           /\ Goes(t, [task[t] EXCEPT !.hr = @ \ {h}, !.told = @ \cup {h}])
    BY <1>6 DEF TellHr
  <2>2. /\ UNCHANGED <<application, handler, excused>> /\ task[t].pc = "tell hr"
        /\ h \in HrUsers /\ task[t].of \in Applications
    BY <1>6, <2>1, TaskFields DEF TellHr, TaskAt
  <2>3. /\ \A u \in Tasks \ {t} : task'[u] = task[u]
        /\ task'[t] = [task[t] EXCEPT !.hr = @ \ {h}, !.told = @ \cup {h}]
    BY <2>1, <2>2, HrTyped, GoesTyped
  <2>4. task'[t].pc = "tell hr" /\ task'[t].of = task[t].of
    BY <2>2, <2>3, HrTyped
  <2>5. /\ Filled'
        /\ \A i \in Notices :
              \/ notice'[i] = notice[i]
              \/ /\ notice[i] = Nothing /\ notice'[i] # Nothing
                 /\ notice'[i].of = task[t].of /\ notice'[i].status = Nothing
    <3>1. CASE UNCHANGED notice
      BY <3>1 DEF Filled, Telling
    <3>2. CASE Add(notice, NewNotice(h, task[t].of, Nothing))
      <4>1. /\ NewNotice(h, task[t].of, Nothing) \in NoticeType
            /\ NewNotice(h, task[t].of, Nothing).of = task[t].of
            /\ NewNotice(h, task[t].of, Nothing).status = Nothing
        BY <2>2 DEF NewNotice, NoticeType, Users
      <4>. QED
        BY <3>2, <4>1, AddedLast DEF Telling
    <3>. QED
      BY <2>1, <3>1, <3>2
  <2>. QED
    BY <2>2, <2>3, <2>4, <2>5, TellingTask
<1>7. CASE WriteToHr(t)
  <2>1. PICK h \in task[t].told :
           Goes(t, IF task[t].hr = {} /\ task[t].told = {h} THEN Idle
                   ELSE [task[t] EXCEPT !.told = @ \ {h}])
    BY <1>7 DEF WriteToHr
  <2>2. UNCHANGED <<application, handler, notice, excused>> /\ task[t].pc = "tell hr"
    BY <1>7 DEF WriteToHr, TaskAt
  <2>3. /\ \A u \in Tasks \ {t} : task'[u] = task[u]
        /\ task'[t] = Idle \/ task'[t] = [task[t] EXCEPT !.told = @ \ {h}]
    BY <2>1 DEF Goes, Working
  <2>4. /\ task'[t].pc \in {"idle", "tell hr"}
        /\ task'[t].pc = "idle" \/ task'[t].of = task[t].of
    BY <2>2, <2>3, IdleTyped DEF Working, TaskType
  <2>. QED
    BY <2>2, <2>3, <2>4, TellingTask DEF Filled, Telling
<1>. QED
  BY <1>1, <1>2, <1>3, <1>4, <1>5, <1>6, <1>7 DEF TaskSteps

LEMMA TellingSame ==
    ASSUME Telling, UNCHANGED <<application, handler, task, notice, excused>>
    PROVE  Telling'
<1>1. Filled' /\ Known'
  BY DEF Telling, Filled, Known
<1>2. ASSUME NEW a \in Applications
      PROVE  Word(a)'
  <2>1. Told(a)' = Told(a) /\ LastWords(a)' = LastWords(a)
    <3>1. Told(a)' = Told(a)
      BY DEF Told
    <3>2. Latest(a)' = Latest(a)
      BY <3>1 DEF Latest
    <3>. QED
      BY <3>1, <3>2 DEF LastWords
  <2>2. /\ Pending(a)' = Pending(a)
        /\ (Agreeing(a) => Agreeing(a)') /\ (Standing(a)' => Standing(a))
    BY DEF Pending, Agreeing, Standing
  <2>. QED
    BY <2>1, <2>2 DEF Telling, Word
<1>. QED
  BY <1>1, <1>2 DEF Telling

LEMMA TellingStep ==
    ASSUME Working, Telling, MailNext
    PROVE  Telling'
<1>1. CASE UNCHANGED <<application, handler, task, notice, excused>>
  BY <1>1, TellingSame
<1>2. CASE ApplicationSteps
  BY <1>2, WorkingStep, TellingUpdate, TellingWrite, TellingAnnounce, TellingApply, TellingRemove
     DEF ApplicationSteps
<1>. QED
  BY <1>1, <1>2, WorkingElsewhere, TellingTasks, TellingNotices

-----------------------------------------------------------------------------
(* The theorems                                                            *)

MailInv == Working /\ Posted /\ Telling /\ Network

LEMMA MailKept == MailSpec => []MailInv
<1>1. MailInit => MailInv
  BY WorkingInit, PostedInit, TellingInit, NetworkInit DEF MailInv
<1>2. MailInv /\ [MailNext]_mailVars => MailInv'
  <2>1. ASSUME MailInv, MailNext
        PROVE  MailInv'
    BY <2>1, WorkingStep, PostedStep, TellingStep, NetworkStep DEF MailInv
  <2>2. ASSUME MailInv, UNCHANGED mailVars
        PROVE  MailInv'
    <3>1. Working' /\ Posted' /\ Network'
      BY <2>2 DEF MailInv, mailVars, readers, network, bounds, Working, Posted, Tried, Network,
                  OnlineIsConnected, Online
    <3>2. Telling'
      BY <2>2, TellingSame DEF MailInv, mailVars
    <3>. QED
      BY <3>1, <3>2 DEF MailInv
  <2>. QED
    BY <2>1, <2>2
<1>. QED
  BY <1>1, <1>2, PTL DEF MailSpec

\* Whatever handlers, announcements, queues and readers do, documents, tasks, letters
\* and connections are what the code makes of them; a letter is given up only after its
\* attempts or a second death of its worker.
THEOREM MailingsTyped == MailSpec => []MailTypeOK
<1>1. MailInv => MailTypeOK
  <2>. SUFFICES ASSUME MailInv
                PROVE  MailTypeOK
    OBVIOUS
  <2>1. \A i \in Notices : notice[i] # Nothing =>
           notice[i].to \in Users /\ notice[i].state \in {"unread", "read", "removed"}
    BY DEF MailInv, Working, NoticeType
  <2>2. \A i \in Letters : letter[i] # Nothing =>
           /\ letter[i].state \in {"waiting", "taken", "sent", "done", "failed"}
           /\ letter[i].to \subseteq Users \cup Readers
           /\ letter[i].state = "failed" =>
                 letter[i].tries = MaxAttempts \/ letter[i].stalls = 1
           /\ letter[i].state # "failed" => letter[i].tries < MaxAttempts
    BY DEF MailInv, Posted, LetterType, Tried
  <2>3. Working
    BY DEF MailInv
  <2>4. \A t \in Slots : handler[t].pc \in {"idle", "write", "announce"}
    BY <2>3, HandlerFields
  <2>5. \A t \in Tasks :
           task[t].pc \in {"idle", "load", "notice", "letter", "find hr", "tell hr"}
    BY <2>3, TaskFields
  <2>. QED
    BY <2>1, <2>2, <2>4, <2>5 DEF MailInv, Working, Posted, Network, Places, MailTypeOK
<1>. QED
  BY <1>1, MailKept, PTL

\* In whatever order announcements that nobody awaits are made, once none is left the
\* last notice of an application names the status it has, unless changes of it
\* overlapped or a notice could not be stored.
THEOREM LastWordHolds == MailSpec => []LastWordIsStatus
<1>1. MailInv => LastWordIsStatus
  <2>. SUFFICES ASSUME MailInv, NEW a \in Applications,
                       Standing(a), Pending(a) = {}, a \notin excused
                PROVE  /\ Told(a) = {} => application[a] = "PENDING"
                       /\ \A i \in Latest(a) : notice[i].status = application[a]
    BY DEF LastWordIsStatus
  <2>1. LastWords(a) \subseteq {application[a]}
    BY DEF MailInv, Telling, Word
  <2>2. Latest(a) \subseteq Told(a)
    BY DEF Latest
  <2>. QED
    BY <2>1, <2>2 DEF LastWords
<1>. QED
  BY <1>1, MailKept, PTL

\* However connections and disconnections interleave with the verification of tokens,
\* who counts as online has a connected client and the reverse, except for clients that
\* left while their token was verified.
THEOREM OnlineHolds == MailSpec => []OnlineIsConnected
<1>1. MailInv => OnlineIsConnected
  BY DEF MailInv, Network
<1>. QED
  BY <1>1, MailKept, PTL
=============================================================================
