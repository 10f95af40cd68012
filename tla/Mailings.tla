------------------------------ MODULE Mailings ------------------------------
(***************************************************************************)
(* What people are told: notices about applications, stored and pushed to  *)
(* the browsers that are connected, and letters that queues carry to the   *)
(* mail server.                                                            *)
(*                                                                         *)
(* A change of status is written first and announced afterwards by a task  *)
(* nobody waits for.  Handlers and tasks run in slots and overlap; every   *)
(* awaited call is a step, a failing one a fault.                          *)
(***************************************************************************)
EXTENDS Integers, FiniteSets

CONSTANTS
    Slots,          \* handlers that overlap
    Tasks,          \* bound: announcements under way at a time
    Applications,   \* to one posting
    Candidate,      \* the user whose they are
    Statuses,       \* what an application may be changed to
    HrUsers,        \* active HR users of the posting's company
    Readers,        \* users who subscribe, or follow the company
    Clients,        \* browsers
    Notices, Letters, \* bounds: how many there can be, numbered in order
    MaxAttempts,    \* attempts of a queued letter (3)
    MaxChanges,     \* bound: requests that change something
    MaxFaults,      \* bound: calls that fail and workers that die
    Nothing

ASSUME BoundAssumption ==
    /\ Notices \subseteq Nat /\ IsFiniteSet(Notices)
    /\ Letters \subseteq Nat /\ IsFiniteSet(Letters)
    /\ MaxAttempts \in Nat \ {0} /\ MaxChanges \in Nat /\ MaxFaults \in Nat

Users == {Candidate} \cup HrUsers

\* Nothing is none of the values it stands for the lack of.
ASSUME NothingAssumption ==
    /\ Nothing \notin Applications \cup Statuses \cup {"PENDING", "removed"}
    /\ \A tracked \in SUBSET Clients : Nothing # tracked
    /\ \A n \in [to : Users, of : Applications, status : Statuses \cup {Nothing},
                 state : {"unread", "read", "removed"}] : Nothing # n

VARIABLES
    application,    \* per application: its status, Nothing before, "removed" after
    handler,        \* per slot: the change of status it makes
    task,           \* per task: the announcement it makes
    notice,         \* per number: the stored notice
    letter,         \* per number: the queued letter
    listening,      \* readers who still hold the subscription or follow
    round,          \* readers whose digest is about to be queued
    socket,         \* per client: where its connection is
    userSockets,    \* clients tracked as connected, by the user each belongs to
    excused,        \* history: applications whose announcements overlapped or failed
    changes, faults \* bounds

mailVars == <<application, handler, task, notice, letter, listening, round, socket,
              userSockets, excused, changes, faults>>
readers == <<listening, round>>
network == <<socket, userSockets>>
bounds == <<changes, faults>>

-----------------------------------------------------------------------------
Idle == [pc |-> "idle", of |-> Nothing, status |-> Nothing, hr |-> {}, told |-> {}]

TaskAt(t, pc) == task[t].pc = pc
Goes(t, r) == task' = [task EXCEPT ![t] = r]
Moves(t, pc) == task' = [task EXCEPT ![t].pc = pc]
Changes == changes < MaxChanges /\ changes' = changes + 1 /\ UNCHANGED faults
Fault == faults < MaxFaults /\ faults' = faults + 1 /\ UNCHANGED changes

Standing(a) == application[a] \notin {Nothing, "removed"}

Unused(docs) == {i \in DOMAIN docs : docs[i] = Nothing}
Add(docs, doc) ==
    \E i \in Unused(docs) :
        /\ \A j \in Unused(docs) : i <= j
        /\ docs' = [docs EXCEPT ![i] = doc]

NewNotice(to, of, status) == [to |-> to, of |-> of, status |-> status, state |-> "unread"]
NewLetter(kind, to) ==
    [kind |-> kind, to |-> to, state |-> "waiting", tries |-> 0, stalls |-> 0]

\* Announcements of a that are still to be made.
Pending(a) ==
    {s \in Slots : handler[s].of = a /\ handler[s].pc = "announce"}
        \cup {t \in Tasks : task[t].of = a /\ task[t].pc \in {"load", "notice"}}

-----------------------------------------------------------------------------
(***************************************************************************)
(* Applications.                                                           *)
(***************************************************************************)
\* Mutant: the candidate is told before the status is written.
AfterTellingFirst(pc) ==
    CASE pc = "idle" -> "announce" [] pc = "announce" -> "write" [] pc = "write" -> "idle"

After(pc) ==
    CASE pc = "idle" -> "write" [] pc = "write" -> "announce" [] pc = "announce" -> "idle"

Steps(s) ==
    LET h == [handler[s] EXCEPT !.pc = After(handler[s].pc)] IN
    handler' = [handler EXCEPT ![s] = IF h.pc = "idle" THEN Idle ELSE h]

\* The application is found, and is the HR user's to change.
Update(s) ==
    /\ handler[s].pc = "idle" /\ Changes
    /\ \E a \in Applications, st \in Statuses :
          /\ Standing(a)
          /\ handler' = [handler EXCEPT ![s] =
                            [Idle EXCEPT !.pc = After("idle"), !.of = a, !.status = st]]
    /\ UNCHANGED <<application, task, notice, letter, readers, network, excused>>

UpdateWrite(s) ==
    LET a == handler[s].of IN
    /\ handler[s].pc = "write"
    /\ application' = [application EXCEPT ![a] = IF Standing(a) THEN handler[s].status ELSE @]
    /\ excused' = IF Pending(a) # {} THEN excused \cup {a} ELSE excused \ {a}
    /\ Steps(s)
    /\ UNCHANGED <<task, notice, letter, readers, network, bounds>>

UpdateFails(s) ==
    /\ handler[s].pc = "write" /\ Fault
    /\ handler' = [handler EXCEPT ![s] = Idle]
    /\ UNCHANGED <<application, task, notice, letter, readers, network, excused>>

\* The announcement is started, not awaited.
Announce(s) ==
    /\ handler[s].pc = "announce"
    /\ \E t \in Tasks :
          /\ TaskAt(t, "idle")
          /\ Goes(t, [Idle EXCEPT !.pc = "load", !.of = handler[s].of,
                                  !.status = handler[s].status])
    /\ Steps(s)
    /\ UNCHANGED <<application, notice, letter, readers, network, excused, bounds>>

\* A new application; the HR users are told by a task of its own.
Apply ==
    /\ Changes
    /\ \E a \in Applications, t \in Tasks :
          /\ application[a] = Nothing /\ TaskAt(t, "idle")
          /\ application' = [application EXCEPT ![a] = "PENDING"]
          /\ Goes(t, [Idle EXCEPT !.pc = "find hr", !.of = a])
    /\ UNCHANGED <<handler, notice, letter, readers, network, excused>>

Remove ==
    /\ Changes
    /\ \E a \in Applications :
          Standing(a) /\ application' = [application EXCEPT ![a] = "removed"]
    /\ UNCHANGED <<handler, task, notice, letter, readers, network, excused>>

-----------------------------------------------------------------------------
(***************************************************************************)
(* Announcements.                                                          *)
(***************************************************************************)
\* The application is read again, for the names in the message: nothing is said of
\* one that has been removed.
LoadApplication(t) ==
    /\ TaskAt(t, "load")
    /\ IF Standing(task[t].of) THEN Moves(t, "notice") ELSE Goes(t, Idle)
    /\ UNCHANGED <<application, handler, notice, letter, readers, network, excused, bounds>>

\* Stored; the push that follows reaches those who are connected, and is not awaited.
CreateNotice(t) ==
    /\ TaskAt(t, "notice")
    /\ Add(notice, NewNotice(Candidate, task[t].of, task[t].status))
    /\ Moves(t, "letter")
    /\ UNCHANGED <<application, handler, letter, readers, network, excused, bounds>>

\* Without the notice there is no letter either.
NoticeFails(t) ==
    /\ TaskAt(t, "notice") /\ Fault
    /\ excused' = excused \cup {task[t].of}
    /\ Goes(t, Idle)
    /\ UNCHANGED <<application, handler, notice, letter, readers, network>>

QueueStatusLetter(t) ==
    /\ TaskAt(t, "letter")
    /\ Add(letter, NewLetter("status", {Candidate}))
    /\ Goes(t, Idle)
    /\ UNCHANGED <<application, handler, notice, readers, network, excused, bounds>>

\* The queue's error is logged, and the letter lost.
LetterLost(t) ==
    /\ TaskAt(t, "letter") /\ Fault
    /\ Goes(t, Idle)
    /\ UNCHANGED <<application, handler, notice, letter, readers, network, excused>>

FindHr(t) ==
    /\ TaskAt(t, "find hr")
    /\ IF HrUsers = {} THEN Goes(t, Idle)
       ELSE Goes(t, [task[t] EXCEPT !.pc = "tell hr", !.hr = HrUsers])
    /\ UNCHANGED <<application, handler, notice, letter, readers, network, excused, bounds>>

\* Each HR user is told on their own: the notice, and then the letter whether or not
\* the notice was stored.
TellHr(t) ==
    /\ TaskAt(t, "tell hr")
    /\ \E h \in task[t].hr :
          /\ \/ Add(notice, NewNotice(h, task[t].of, Nothing)) /\ UNCHANGED bounds
             \/ Fault /\ UNCHANGED notice
          /\ Goes(t, [task[t] EXCEPT !.hr = @ \ {h}, !.told = @ \cup {h}])
    /\ UNCHANGED <<application, handler, letter, readers, network, excused>>

WriteToHr(t) ==
    /\ TaskAt(t, "tell hr")
    /\ \E h \in task[t].told :
          /\ \/ Add(letter, NewLetter("application", {h})) /\ UNCHANGED bounds
             \/ Fault /\ UNCHANGED letter
          /\ Goes(t, IF task[t].hr = {} /\ task[t].told = {h} THEN Idle
                     ELSE [task[t] EXCEPT !.told = @ \ {h}])
    /\ UNCHANGED <<application, handler, notice, readers, network, excused>>

-----------------------------------------------------------------------------
(***************************************************************************)
(* Notices, each touched by its owner only.                                *)
(***************************************************************************)
Stored == {i \in Notices : notice[i] # Nothing /\ notice[i].state # "removed"}
Unread(u) == {i \in Stored : notice[i].to = u /\ notice[i].state = "unread"}

MarkAsRead ==
    /\ Changes
    /\ \E i \in Stored :
          notice[i].state = "unread" /\ notice' = [notice EXCEPT ![i].state = "read"]
    /\ UNCHANGED <<application, handler, task, letter, readers, network, excused>>

MarkAllAsRead ==
    /\ Changes
    /\ \E u \in Users :
          /\ Unread(u) # {}
          /\ notice' = [i \in Notices |-> IF i \in Unread(u)
                                          THEN [notice[i] EXCEPT !.state = "read"] ELSE notice[i]]
    /\ UNCHANGED <<application, handler, task, letter, readers, network, excused>>

RemoveNotice ==
    /\ Changes
    /\ \E i \in Stored : notice' = [notice EXCEPT ![i].state = "removed"]
    /\ UNCHANGED <<application, handler, task, letter, readers, network, excused>>

-----------------------------------------------------------------------------
(***************************************************************************)
(* Letters.                                                                *)
(***************************************************************************)
\* Weekly, or when triggered: the subscribers are streamed.
QueueDigests ==
    /\ Changes
    /\ round = {} /\ listening # {}
    /\ round' = listening
    /\ UNCHANGED <<application, handler, task, notice, letter, listening, network, excused>>

\* A batch of them is added, or skipped when it cannot be: its readers get none.
AddDigests ==
    /\ \E u \in round :
          /\ round' = round \ {u}
          /\ \/ Add(letter, NewLetter("digest", {u})) /\ UNCHANGED bounds
             \/ Fault /\ UNCHANGED letter
    /\ UNCHANGED <<application, handler, task, notice, listening, network, excused>>

\* A posting was created, or ended: its followers, or the HR user who created it.
\* The add's error is logged.
QueueOpening ==
    /\ Changes /\ Add(letter, NewLetter("opening", {}))
    /\ UNCHANGED <<application, handler, task, notice, readers, network, excused>>

QueueExpired ==
    /\ Changes
    /\ \E h \in HrUsers : Add(letter, NewLetter("expired", {h}))
    /\ UNCHANGED <<application, handler, task, notice, readers, network, excused>>

\* A reader unsubscribes, stops following, or is deactivated.
Leave ==
    /\ \E u \in listening : listening' = listening \ {u}
    /\ UNCHANGED <<application, handler, task, notice, letter, round, network, excused, bounds>>

Is(i, state) == letter[i] # Nothing /\ letter[i].state = state
Turns(i, state) == letter' = [letter EXCEPT ![i].state = state]
Settles(i, state) == letter' = [letter EXCEPT ![i].state = state, ![i].to = {}]

\* Who it goes to: for a digest the subscription is read, for an opening the
\* followers are, when the letter is taken and not when it was queued.
Subscriber(l) == l.to \cap listening
Followers == listening

Addressees(l) ==
    CASE l.kind = "digest" -> Subscriber(l)
      [] l.kind = "opening" -> Followers
      [] OTHER -> l.to

Take(i) ==
    /\ Is(i, "waiting")
    /\ IF Addressees(letter[i]) = {} THEN Settles(i, "done")
       ELSE letter' = [letter EXCEPT ![i].state = "taken"]
    /\ UNCHANGED <<application, handler, task, notice, readers, network, excused, bounds>>

\* No open posting matches the skills of the subscription.
NothingToRecommend(i) ==
    /\ Is(i, "taken") /\ letter[i].kind = "digest"
    /\ Settles(i, "done")
    /\ UNCHANGED <<application, handler, task, notice, readers, network, excused, bounds>>

Send(i) ==
    /\ Is(i, "taken")
    /\ Turns(i, "sent")
    /\ UNCHANGED <<application, handler, task, notice, readers, network, excused, bounds>>

Complete(i) ==
    /\ Is(i, "sent")
    /\ Settles(i, "done")
    /\ UNCHANGED <<application, handler, task, notice, readers, network, excused, bounds>>

\* Mutant: a letter is tried once more than it may be.
RetriesOnceMore(i) ==
    LET l == letter[i] IN
    letter' = [letter EXCEPT ![i] =
        IF l.tries < MaxAttempts THEN [l EXCEPT !.state = "waiting", !.tries = l.tries + 1]
        ELSE [l EXCEPT !.state = "failed", !.tries = l.tries + 1, !.to = {}]]

Retries(i) ==
    LET l == letter[i] IN
    letter' = [letter EXCEPT ![i] =
        IF l.tries + 1 < MaxAttempts THEN [l EXCEPT !.state = "waiting", !.tries = l.tries + 1]
        ELSE [l EXCEPT !.state = "failed", !.tries = l.tries + 1, !.to = {}]]

\* The mail server refuses.  Openings go to many, and what fails is logged; the
\* others are tried again.
SendFails(i) ==
    /\ Is(i, "taken") /\ Fault
    /\ IF letter[i].kind = "opening" THEN Settles(i, "done") ELSE Retries(i)
    /\ UNCHANGED <<application, handler, task, notice, readers, network, excused>>

\* A letter whose worker dies is taken once more, also when it had been sent.
WorkerDies(i) ==
    /\ Is(i, "taken") \/ Is(i, "sent")
    /\ Fault
    /\ IF letter[i].stalls = 0
       THEN letter' = [letter EXCEPT ![i].state = "waiting", ![i].stalls = 1]
       ELSE Settles(i, "failed")
    /\ UNCHANGED <<application, handler, task, notice, readers, network, excused>>

-----------------------------------------------------------------------------
(***************************************************************************)
(* Connections.  The user of a client is known once its token is verified. *)
(***************************************************************************)
Connect(c) ==
    /\ socket[c] = "away" /\ Changes
    /\ socket' = [socket EXCEPT ![c] = "verifying"]
    /\ UNCHANGED <<application, handler, task, notice, letter, readers, userSockets, excused>>

\* A client may have left while its token was verified, and is tracked all the same.
Verified(c) ==
    /\ socket[c] \in {"verifying", "left unverified"}
    /\ socket' = [socket EXCEPT ![c] = IF @ = "verifying" THEN "open" ELSE "leaked"]
    /\ \E u \in Users :
          userSockets' = [userSockets EXCEPT ![u] = IF @ = Nothing THEN {c} ELSE @ \cup {c}]
    /\ UNCHANGED <<application, handler, task, notice, letter, readers, excused, bounds>>

Online(u) == userSockets[u] # Nothing

\* No token, a token that is not valid, or one that names nobody.
Refused(c) ==
    /\ socket[c] \in {"verifying", "left unverified"}
    /\ socket' = [socket EXCEPT ![c] = "gone"]
    /\ UNCHANGED <<application, handler, task, notice, letter, readers, userSockets, excused,
                   bounds>>

\* Mutant: the user's entry stays when its last client has left.
UntrackedButKept(tracked, c) == tracked \ {c}

Untracked(tracked, c) == IF tracked = {c} THEN Nothing ELSE tracked \ {c}

HandleDisconnect(c) ==
    /\ socket[c] \in {"verifying", "open"}
    /\ IF socket[c] = "open"
       THEN /\ socket' = [socket EXCEPT ![c] = "gone"]
            /\ userSockets' = [u \in Users |->
                    IF userSockets[u] # Nothing /\ c \in userSockets[u]
                    THEN Untracked(userSockets[u], c) ELSE userSockets[u]]
       ELSE /\ socket' = [socket EXCEPT ![c] = "left unverified"]
            /\ UNCHANGED userSockets
    /\ UNCHANGED <<application, handler, task, notice, letter, readers, excused, bounds>>

-----------------------------------------------------------------------------
MailInit ==
    /\ application \in [Applications -> {Nothing, "PENDING"}]
    /\ handler = [s \in Slots |-> Idle]
    /\ task = [t \in Tasks |-> Idle]
    /\ notice = [i \in Notices |-> Nothing]
    /\ letter = [i \in Letters |-> Nothing]
    /\ listening = Readers /\ round = {}
    /\ socket = [c \in Clients |-> "away"]
    /\ userSockets = [u \in Users |-> Nothing]
    /\ excused = {}
    /\ changes = 0 /\ faults = 0

ApplicationSteps ==
    \/ \E s \in Slots : Update(s) \/ UpdateWrite(s) \/ UpdateFails(s) \/ Announce(s)
    \/ Apply \/ Remove

TaskSteps(t) ==
    \/ LoadApplication(t) \/ CreateNotice(t) \/ NoticeFails(t)
    \/ QueueStatusLetter(t) \/ LetterLost(t) \/ FindHr(t) \/ TellHr(t) \/ WriteToHr(t)

QueueSteps == QueueDigests \/ AddDigests \/ QueueOpening \/ QueueExpired \/ Leave

LetterSteps(i) ==
    \/ Take(i) \/ NothingToRecommend(i) \/ Send(i) \/ Complete(i)
    \/ SendFails(i) \/ WorkerDies(i)

ClientSteps(c) == Connect(c) \/ Verified(c) \/ Refused(c) \/ HandleDisconnect(c)

MailNext ==
    \/ ApplicationSteps
    \/ \E t \in Tasks : TaskSteps(t)
    \/ MarkAsRead \/ MarkAllAsRead \/ RemoveNotice
    \/ QueueSteps
    \/ \E i \in Letters : LetterSteps(i)
    \/ \E c \in Clients : ClientSteps(c)

MailSpec == MailInit /\ [][MailNext]_mailVars

-----------------------------------------------------------------------------
(***************************************************************************)
(* Properties.                                                             *)
(***************************************************************************)
\* Documents, tasks, letters and connections are what the actions can make of them; a
\* letter is given up only after its attempts or a second death of its worker.
MailTypeOK ==
    /\ application \in [Applications -> Statuses \cup {Nothing, "PENDING", "removed"}]
    /\ \A t \in Slots : handler[t].pc \in {"idle", "write", "announce"}
    /\ \A t \in Tasks :
          task[t].pc \in {"idle", "load", "notice", "letter", "find hr", "tell hr"}
    /\ \A i \in Notices : notice[i] # Nothing =>
          notice[i].to \in Users /\ notice[i].state \in {"unread", "read", "removed"}
    /\ \A i \in Letters : letter[i] # Nothing =>
          /\ letter[i].state \in {"waiting", "taken", "sent", "done", "failed"}
          /\ letter[i].to \subseteq Users \cup Readers
          /\ letter[i].state = "failed" => letter[i].tries = MaxAttempts \/ letter[i].stalls = 1
          /\ letter[i].state # "failed" => letter[i].tries < MaxAttempts
    /\ listening \subseteq Readers /\ round \subseteq Readers
    /\ socket \in [Clients -> {"away", "verifying", "open", "left unverified", "leaked", "gone"}]

\* The notices of an application that tell its status, oldest first.
Told(a) == {i \in Notices : /\ notice[i] # Nothing
                           /\ notice[i].of = a /\ notice[i].status # Nothing}

Latest(a) == {i \in Told(a) : \A j \in Told(a) : j <= i}

\* Once nothing about it is left to announce, the last notice the candidate got of an
\* application names the status it has, unless two changes of it overlapped or the
\* notice could not be stored: the announcements are not awaited and carry the status
\* they were started with (resumes.service update, sendStatusChangeNotification).
LastWordIsStatus ==
    \A a \in Applications :
        Standing(a) /\ Pending(a) = {} /\ a \notin excused =>
            /\ Told(a) = {} => application[a] = "PENDING"
            /\ \A i \in Latest(a) : notice[i].status = application[a]

\* Who counts as online has a client that is connected, and whose client is connected
\* counts as online, except for clients that left while their token was verified: no
\* disconnection of theirs is handled any more, and they are tracked for good
\* (handleConnection, handleDisconnect, isUserOnline, getOnlineUsersCount).
OnlineIsConnected ==
    /\ \A u \in Users : Online(u) =>
          userSockets[u] # {} /\ \A c \in userSockets[u] : socket[c] \in {"open", "leaked"}
    /\ \A c \in Clients : socket[c] = "open" =>
          \E u \in Users : Online(u) /\ c \in userSockets[u]
=============================================================================
