---------------------------- MODULE AuthSessions ----------------------------
(***************************************************************************)
(* The refresh-token sessions of ONE user: signing in, rotating a token,   *)
(* signing out, revoking everything, and an administrator's lock.  Every   *)
(* query on the sessions names the user or one of its tokens, so users do  *)
(* not interact.                                                           *)
(*                                                                         *)
(* A refresh token signs the user id and the second it was issued in, and  *)
(* nothing else: two tokens of one user minted in the same second are the  *)
(* same token, and the unique index on its hash refuses the second         *)
(* session.  A token is therefore named by its second, or by the device    *)
(* that held it before the model's clock starts.                           *)
(*                                                                         *)
(* Each request is one handler that runs concurrently with the others, one *)
(* awaited database call per step.  A line is the chain of sessions that   *)
(* descends from one sign-in by rotation.                                  *)
(***************************************************************************)
EXTENDS Integers, FiniteSets

CONSTANTS
    Requests,       \* HTTP requests; each serves one call
    Devices,        \* the devices signed in at the start
    MaxSessions,    \* the limit that a sign-in enforces
    MaxTime,        \* bound: the clock stops here
    Ops             \* bound: which operations the requests of a run may be

None == -1                      \* no token, no line
Seconds == 0..MaxTime
Tokens == Devices \cup Seconds
Lines == Devices \cup Requests

ASSUME LimitAssumption ==
    /\ MaxSessions \in Nat \ {0} /\ MaxTime \in Nat
    /\ IsFiniteSet(Devices) /\ Cardinality(Devices) <= MaxSessions
    /\ IsFiniteSet(Requests)
ASSUME NameAssumption ==
    /\ Devices \cap Seconds = {} /\ Devices \cap Requests = {}
    /\ None \notin Lines \cup Tokens
ASSUME OpsAssumption ==
    Ops \subseteq {"login", "refresh", "logout", "revoke", "lock", "unlock"}

VARIABLES
    now,            \* the clock, in seconds
    locked,         \* user.isLocked
    sessions,       \* per token: its session document
    request,        \* the HTTP requests
    revoked         \* history: the lines a revocation has ended

vars == <<now, locked, sessions, request, revoked>>

-----------------------------------------------------------------------------
Absent == [state |-> "absent", line |-> None, used |-> 0]

Present(t) == sessions[t].state # "absent"
Live(t) == sessions[t].state = "active"
LiveTokens == {t \in Tokens : Live(t)}

\* excess: history, the request may have left a session beyond the limit.
Fresh == [op |-> "none", pc |-> "idle", token |-> None, line |-> None,
          born |-> 0, doomed |-> {}, touch |-> FALSE, excess |-> FALSE]

At(r, pc) == request[r].pc = pc

Arrives(r, op) == op \in Ops /\ At(r, "idle")

Begin(r, op, pc) == [Fresh EXCEPT !.op = op, !.pc = pc, !.born = now]

Goto(r, pc) == request' = [request EXCEPT ![r].pc = pc]

Finish(r) == Goto(r, "done")

Delete(ts) ==
    sessions' = [t \in Tokens |-> IF t \in ts THEN Absent ELSE sessions[t]]

\* A refresh that has deleted its session and not yet created the next one.
Rotating(r) == request[r].op = "refresh" /\ At(r, "create")

\* A request that will create a session of this line.
InHand(r, line) == At(r, "create") /\ request[r].line = line

\* A refresh admitted with token t that has not consumed it yet.
Holding(r, t) == request[r].pc \in {"loadUser", "consume"} /\ request[r].token = t

Init ==
    /\ now = 0
    /\ locked = FALSE
    /\ sessions = [t \in Tokens |->
                     IF t \in Devices
                     THEN [state |-> "active", line |-> t, used |-> 0]
                     ELSE Absent]
    /\ request = [r \in Requests |-> Fresh]
    /\ revoked = {}

-----------------------------------------------------------------------------
(* POST auth/login                                                         *)

\* The local strategy: the password is right and the account may sign in.
LoginCheck(r) ==
    /\ Arrives(r, "login")
    /\ ~locked
    /\ request' = [request EXCEPT ![r] =
                     [Begin(r, "login", "create") EXCEPT !.line = r]]
    /\ UNCHANGED <<now, locked, sessions, revoked>>

\* createSession, for a sign-in and for a refresh: the token is signed and
\* its session inserted, unless the unique index refuses it.
Mint(r) ==
    /\ At(r, "create")
    /\ ~Present(now)
    /\ sessions' = [sessions EXCEPT ![now] =
                      [state |-> "active", line |-> request[r].line, used |-> now]]
    /\ Goto(r, IF request[r].op = "login" THEN "list" ELSE "done")
    /\ UNCHANGED <<now, locked, revoked>>

\* A duplicate key ends the request; a refresh has lost its session by then.
MintClash(r) ==
    /\ At(r, "create")
    /\ Present(now)
    /\ Finish(r)
    /\ UNCHANGED <<now, locked, sessions, revoked>>

\* The excess of the live sessions, least recently used first; sessions last
\* used within the same second are told apart by nothing the model keeps.
Excess(doomed) ==
    /\ doomed \subseteq LiveTokens
    /\ Cardinality(doomed) = Cardinality(LiveTokens) - MaxSessions
    /\ \A t \in doomed, u \in LiveTokens \ doomed :
         sessions[t].used <= sessions[u].used

\* Mutant: a sign-in on a full account is trimmed one session late.
TrimListLate(r) ==
    /\ At(r, "list")
    /\ \E doomed \in SUBSET LiveTokens :
         /\ \/ Cardinality(LiveTokens) <= MaxSessions + 1 /\ doomed = {}
            \/ Cardinality(LiveTokens) > MaxSessions + 1 /\ Excess(doomed)
         /\ request' = [q \in Requests |->
              IF q = r THEN [request[r] EXCEPT !.pc = "trim", !.doomed = doomed]
              ELSE [request[q] EXCEPT !.excess = @ \/ Rotating(q)]]
    /\ UNCHANGED <<now, locked, sessions, revoked>>

\* enforceSessionLimit reads the live sessions ...
TrimList(r) ==
    /\ At(r, "list")
    /\ \E doomed \in SUBSET LiveTokens :
         /\ \/ Cardinality(LiveTokens) <= MaxSessions /\ doomed = {}
            \/ Cardinality(LiveTokens) > MaxSessions /\ Excess(doomed)
         /\ request' = [q \in Requests |->
              IF q = r THEN [request[r] EXCEPT !.pc = "trim", !.doomed = doomed]
              ELSE [request[q] EXCEPT !.excess = @ \/ Rotating(q)]]
    /\ UNCHANGED <<now, locked, sessions, revoked>>

\* ... and deletes the excess it saw.
TrimDelete(r) ==
    /\ At(r, "trim")
    /\ Delete(request[r].doomed)
    /\ request' = [request EXCEPT ![r].pc = "done", ![r].doomed = {}]
    /\ UNCHANGED <<now, locked, revoked>>

-----------------------------------------------------------------------------
(* GET auth/refresh                                                        *)

\* Mutant: any session with the token will do, deactivated or not.
RefreshFindAny(r, t) ==
    /\ Arrives(r, "refresh")
    /\ Present(t)
    /\ request' = [request EXCEPT ![r] =
                     [Begin(r, "refresh", "loadUser") EXCEPT
                        !.token = t, !.line = sessions[t].line, !.touch = TRUE]]
    /\ UNCHANGED <<now, locked, sessions, revoked>>

\* The refresh strategy finds the live session of the cookie's token and
\* sends the update of its lastUsedAt without awaiting it.
RefreshFind(r, t) ==
    /\ Arrives(r, "refresh")
    /\ Live(t)
    /\ request' = [request EXCEPT ![r] =
                     [Begin(r, "refresh", "loadUser") EXCEPT
                        !.token = t, !.line = sessions[t].line, !.touch = TRUE]]
    /\ UNCHANGED <<now, locked, sessions, revoked>>

\* The update lands whenever it does; a deleted session is not brought back.
Touch(r) ==
    /\ request[r].touch
    /\ LET t == request[r].token IN
       sessions' = IF Present(t)
                   THEN [sessions EXCEPT ![t].used = request[r].born]
                   ELSE sessions
    /\ request' = [request EXCEPT ![r].touch = FALSE]
    /\ UNCHANGED <<now, locked, revoked>>

RefreshLoadUser(r) ==
    /\ At(r, "loadUser")
    /\ Goto(r, IF locked THEN "done" ELSE "consume")
    /\ UNCHANGED <<now, locked, sessions, revoked>>

\* Mutant: nobody looks at how many sessions the deletion removed.
ConsumeUnchecked(r) ==
    /\ At(r, "consume")
    /\ Delete({request[r].token})
    /\ request' = [request EXCEPT
         ![r].pc = "create",
         ![r].excess = ~Live(request[r].token) \/ \E q \in Requests : At(q, "trim")]
    /\ UNCHANGED <<now, locked, revoked>>

\* deleteSession: by token alone, whatever the state of the session.  Of two
\* refreshes with one token, the one that finds nothing to delete gives up.
\* A session deactivated since the refresh was admitted, which the limit does
\* not count, makes way for a live one.
Consume(r) ==
    /\ At(r, "consume")
    /\ LET t == request[r].token IN
       /\ Delete({t})
       /\ request' = IF Present(t)
                     THEN [request EXCEPT
                             ![r].pc = "create",
                             ![r].line = sessions[t].line,
                             ![r].excess = ~Live(t) \/ \E q \in Requests : At(q, "trim")]
                     ELSE [request EXCEPT ![r].pc = "done"]
    /\ UNCHANGED <<now, locked, revoked>>

-----------------------------------------------------------------------------
(* POST auth/logout, and what revokes every session of the user            *)

LogoutGuard(r, t) ==
    /\ Arrives(r, "logout")
    /\ ~locked
    /\ Present(t)
    /\ request' = [request EXCEPT ![r] =
                     [Begin(r, "logout", "drop") EXCEPT !.token = t]]
    /\ UNCHANGED <<now, locked, sessions, revoked>>

LogoutDrop(r) ==
    /\ At(r, "drop")
    /\ Delete({request[r].token})
    /\ Finish(r)
    /\ UNCHANGED <<now, locked, revoked>>

\* logout-all, and a change or a first setting of the password, whose reads
\* and writes of the user leave the sessions alone.
RevokeGuard(r) ==
    /\ Arrives(r, "revoke")
    /\ ~locked
    /\ request' = [request EXCEPT ![r] = Begin(r, "revoke", "revoke")]
    /\ UNCHANGED <<now, locked, sessions, revoked>>

RevokeAll(r) ==
    /\ At(r, "revoke")
    /\ Delete(Tokens)
    /\ revoked' = revoked \cup {sessions[t].line : t \in {u \in Tokens : Present(u)}}
    /\ Finish(r)
    /\ UNCHANGED <<now, locked>>

-----------------------------------------------------------------------------
(* PATCH users/:id/lock and unlock                                         *)

LockRead(r) ==
    /\ Arrives(r, "lock")
    /\ ~locked
    /\ request' = [request EXCEPT ![r] = Begin(r, "lock", "lock")]
    /\ UNCHANGED <<now, locked, sessions, revoked>>

LockSet(r) ==
    /\ At(r, "lock")
    /\ locked' = TRUE
    /\ Goto(r, "deactivate")
    /\ UNCHANGED <<now, sessions, revoked>>

\* deactivateAllUserSessions.  It ends the lines it finds, but for those of
\* refreshes admitted before it: their deletion asks for no live session.
LockDeactivate(r) ==
    /\ At(r, "deactivate")
    /\ sessions' = [t \in Tokens |->
                      IF Present(t) THEN [sessions[t] EXCEPT !.state = "inactive"]
                      ELSE sessions[t]]
    /\ revoked' = revoked \cup
         {sessions[t].line :
            t \in {u \in Tokens : Present(u) /\ \A q \in Requests : ~Holding(q, u)}}
    /\ Finish(r)
    /\ UNCHANGED <<now, locked>>

UnlockRead(r) ==
    /\ Arrives(r, "unlock")
    /\ locked
    /\ request' = [request EXCEPT ![r] = Begin(r, "unlock", "unlock")]
    /\ UNCHANGED <<now, locked, sessions, revoked>>

UnlockSet(r) ==
    /\ At(r, "unlock")
    /\ locked' = FALSE
    /\ Finish(r)
    /\ UNCHANGED <<now, sessions, revoked>>

-----------------------------------------------------------------------------
(* The environment                                                         *)

\* A call throws or the process dies, wherever the request is.
Abort(r) ==
    /\ request[r].pc \notin {"idle", "done"}
    /\ request' = [request EXCEPT
         ![r].pc = "aborted", ![r].touch = FALSE,
         ![r].excess = @ \/ request[r].pc \in {"list", "trim"}]
    /\ UNCHANGED <<now, locked, sessions, revoked>>

\* An old session reaches its expiry; no query finds it any more.
Expire(d) ==
    /\ Present(d)
    /\ Delete({d})
    /\ UNCHANGED <<now, locked, request, revoked>>

Tick ==
    /\ now < MaxTime
    /\ now' = now + 1
    /\ UNCHANGED <<locked, sessions, request, revoked>>

-----------------------------------------------------------------------------
Arrive(r) ==
    \/ LoginCheck(r)
    \/ \E t \in Tokens : RefreshFind(r, t) \/ LogoutGuard(r, t)
    \/ RevokeGuard(r) \/ LockRead(r) \/ UnlockRead(r)

Step(r) ==
    \/ Mint(r) \/ MintClash(r) \/ TrimList(r) \/ TrimDelete(r)
    \/ RefreshLoadUser(r) \/ Consume(r)
    \/ LogoutDrop(r) \/ RevokeAll(r)
    \/ LockSet(r) \/ LockDeactivate(r) \/ UnlockSet(r)

Next ==
    \/ \E r \in Requests : Arrive(r) \/ Step(r) \/ Touch(r) \/ Abort(r)
    \/ \E d \in Devices : Expire(d)
    \/ Tick

Spec == Init /\ [][Next]_vars

-----------------------------------------------------------------------------
(* Properties                                                              *)

SessionType ==
    [state : {"absent", "active", "inactive"}, line : Lines \cup {None},
     used : Seconds]

OpNames == {"none", "login", "refresh", "logout", "revoke", "lock", "unlock"}

Pcs == {"idle", "create", "list", "trim", "loadUser", "consume", "drop",
        "revoke", "lock", "deactivate", "unlock", "done", "aborted"}

RequestType ==
    [op : OpNames, pc : Pcs,
     token : Tokens \cup {None}, line : Lines \cup {None}, born : Seconds,
     doomed : SUBSET Tokens, touch : BOOLEAN, excess : BOOLEAN]

TypeOK ==
    /\ now \in Seconds
    /\ locked \in BOOLEAN
    /\ sessions \in [Tokens -> SessionType]
    /\ request \in [Requests -> RequestType]
    /\ revoked \subseteq Lines
    /\ \A t \in Tokens : Present(t) => sessions[t].line \in Lines

\* Rotation never forks a sign-in: however its refreshes interleave, at most
\* one session or pending creation descends from it.  This is what the check
\* of deleteSession's result in refreshAccessToken is for.
RotationNeverForks ==
    /\ \A t, u \in Tokens :
         Present(t) /\ Present(u) /\ sessions[t].line = sessions[u].line => t = u
    /\ \A t \in Tokens, r \in Requests :
         Present(t) => ~InHand(r, sessions[t].line)
    /\ \A r, q \in Requests, l \in Lines : InHand(r, l) /\ InHand(q, l) => r = q

\* A line that logout-all, a password change or a lock has ended never has a
\* live session again, not even after an unlock; the lines spared are those a
\* request already had in hand.
RevokedStaysRevoked == \A t \in Tokens : Live(t) => sessions[t].line \notin revoked

\* With no sign-in under way, the live sessions exceed the limit by no more
\* than the refreshes whose rotation overlapped the trim of some sign-in or
\* replaced a session that a lock had deactivated, and the sign-ins that died
\* before their own trim (enforceSessionLimit counts the live sessions).
LimitSettles ==
    (\A r \in Requests : request[r].pc \notin {"list", "trim"}) =>
        Cardinality(LiveTokens)
            <= MaxSessions + Cardinality({r \in Requests : request[r].excess})
=============================================================================
