----------------------------- MODULE Assistant ------------------------------
(***************************************************************************)
(* The assistant's turns for one person: what a question is understood as, *)
(* the context its answer is drawn from and the caches that context passes *)
(* through, the postings an answer recommends and the offers to save them, *)
(* and the record every turn leaves.  Composed with the account and the CV *)
(* profile the context is read from.  Sessions, messages and the quota are *)
(* the subject of ChatTurns: here such a call succeeds or fails.           *)
(*                                                                         *)
(* What the model says is nondeterministic; text is left out.  Every turn  *)
(* asks one message about one posting, or about none: questions are equal  *)
(* if they are understood alike.                                           *)
(***************************************************************************)
EXTENDS Profiles

CONSTANTS
    Turns,          \* bound: the person's turns, each used once
    Intents,        \* what a message can be understood as
    Offers          \* bound: offers to save a posting, numbered in order

AllIntents == {"JOB_ADVISOR", "COMPANY_INFO", "CV_REVIEW", "JOB_MATCHING", "FAQ", "GENERAL",
               "RECRUITER_SUPPORT"}

ASSUME IntentsAreKnown == Intents \subseteq AllIntents
ASSUME OffersAreNumbered == Offers \subseteq Nat /\ IsFiniteSet(Offers)

\* Absent is no offer.
ASSUME OffersArePresent ==
    Absent \notin [job : Jobs, status : {"PENDING", "CONFIRMED", "CANCELED", "EXPIRED"},
                   late : BOOLEAN, saved : BOOLEAN, contested : BOOLEAN]

VARIABLES
    gone,           \* the postings that were deleted
    contexts,       \* per intent: the cached context of the question
    faq,            \* whose answer to the message is cached
    offer,          \* per number: an offer to save a posting
    exchange,       \* per turn: where its handler is
    raced           \* history: what is cached of the CV may be out of date

assistant == <<gone, contexts, faq, offer, exchange, raced>>
assistantVars == <<user, cv, edition, chatContext, handler, parted, announced, budget,
                   gone, contexts, faq, offer, exchange, raced>>

-----------------------------------------------------------------------------
Unasked == [pc |-> "unasked", mode |-> Absent, intent |-> Absent, saved |-> {}, since |-> 0,
            read |-> Absent, context |-> Absent, repeated |-> FALSE, stale |-> FALSE,
            right |-> 0, wrong |-> 0, lost |-> FALSE]

\* What is known of a turn once its answer is there, or it has failed.
Settled(r, pc) == [Unasked EXCEPT !.pc = pc, !.mode = r.mode, !.intent = r.intent,
                                  !.right = r.right]

TurnAt(t, pc) == exchange[t].pc = pc
Turned(t, r) == exchange' = [exchange EXCEPT ![t] = r]
TurnTo(t, pc) == exchange' = [exchange EXCEPT ![t].pc = pc]
account == <<user, cv, edition, handler, parted, announced>>

-----------------------------------------------------------------------------
(***************************************************************************)
(* The question.                                                           *)
(***************************************************************************)
\* A message is understood by its words and the kind of its session and, when they leave
\* doubt and the answer is not streamed, by a model; one that fails leaves the words'.
DetectDeterministicIntent == Intents
DetectIntentWithAi == Intents
DetectIntent(mode) ==
    DetectDeterministicIntent \cup (IF mode = "message" THEN DetectIntentWithAi ELSE {})

\* The guard has read the account, and the postings it has saved.
Ask(t) ==
    /\ TurnAt(t, "unasked") /\ Spend("turn") /\ ~user.deleted
    /\ \E mode \in {"message", "stream"} : \E intent \in DetectIntent(mode) :
          Turned(t, [Unasked EXCEPT !.pc = "context", !.mode = mode, !.intent = intent,
                                    !.saved = user.saved, !.since = announced])
    /\ UNCHANGED <<account, chatContext, gone, contexts, faq, offer, raced>>

\* An empty message, one the guardrail blocks, a session that is not the user's.
AskRefused(t) ==
    /\ TurnAt(t, "unasked") /\ Spend("turn") /\ ~user.deleted
    /\ TurnTo(t, "failing")
    /\ UNCHANGED <<account, chatContext, gone, contexts, faq, offer, raced>>

-----------------------------------------------------------------------------
(***************************************************************************)
(* Its context.                                                            *)
(***************************************************************************)
\* One that was cached for the same question and intent.
GetContext(t) ==
    LET cached == contexts[exchange[t].intent] IN
    /\ TurnAt(t, "context")
    /\ Turned(t, IF cached = Absent THEN [exchange[t] EXCEPT !.pc = "profile"]
                 ELSE [exchange[t] EXCEPT !.pc = "answer", !.context = cached,
                                          !.repeated = TRUE])
    /\ UNCHANGED <<account, budget, chatContext, gone, contexts, faq, offer, raced>>

\* Open postings that ask for a skill of the CV, or that carry one the message names.
FindMatchingJobs == Jobs \ gone
SearchJobs == Jobs \ gone

NothingKnown == [of |-> 0, jobs |-> {}]

\* Of the person: cached, or read.
GetUserContext(t) ==
    /\ TurnAt(t, "profile")
    /\ Turned(t, IF chatContext = Absent
                 THEN [exchange[t] EXCEPT !.pc = "match",
                          !.read = [of |-> edition, jobs |-> FindMatchingJobs]]
                 ELSE [exchange[t] EXCEPT !.pc = "provide", !.read = chatContext,
                                          !.stale = raced])
    /\ UNCHANGED <<account, budget, chatContext, gone, contexts, faq, offer, raced>>

\* A CV that cannot be read counts as none.
CvUnread(t) ==
    /\ TurnAt(t, "profile") /\ chatContext = Absent /\ Spend("fault")
    /\ Turned(t, [exchange[t] EXCEPT !.pc = "match", !.read = NothingKnown, !.stale = TRUE])
    /\ raced' = TRUE
    /\ UNCHANGED <<account, chatContext, gone, contexts, faq, offer>>

\* The summary of the CV and of the postings that ask for its skills.
CacheUserContext(t) ==
    /\ TurnAt(t, "match")
    /\ chatContext' = exchange[t].read
    /\ TurnTo(t, "provide")
    /\ UNCHANGED <<account, budget, gone, contexts, faq, offer, raced>>

\* The turn goes on with an empty context.
UserContextFails(t) ==
    /\ TurnAt(t, "match") /\ Spend("fault")
    /\ Turned(t, [exchange[t] EXCEPT !.pc = "provide", !.read = NothingKnown,
                                     !.stale = TRUE])
    /\ UNCHANGED <<account, chatContext, gone, contexts, faq, offer, raced>>

\* The postings each provider puts into its context, as many as there can be.
BuildQueryAwareContext == SearchJobs
JobSearchContext(matching) == {matching \cup BuildQueryAwareContext}
CompanyContext == {BuildQueryAwareContext}
ResolveSelectedJob == {{j} : j \in Jobs \ gone}
JobMatchingContext(matching) == {matching} \cup ResolveSelectedJob
CvReviewContext == {{}}
FaqContext == {{}}
GeneralContext == {{}}

ContextJobs(intent, matching) ==
    CASE intent = "JOB_ADVISOR" -> JobSearchContext(matching)
      [] intent = "COMPANY_INFO" -> CompanyContext
      [] intent = "CV_REVIEW" -> CvReviewContext
      [] intent = "JOB_MATCHING" -> JobMatchingContext(matching)
      [] intent = "FAQ" -> FaqContext
      [] OTHER -> GeneralContext

\* Put together by the intent's provider, and cached.
BuildContext(t) ==
    /\ TurnAt(t, "provide")
    /\ \E found \in ContextJobs(exchange[t].intent, exchange[t].read.jobs) :
          LET c == [of |-> exchange[t].read.of, jobs |-> found] IN
          /\ Turned(t, [exchange[t] EXCEPT !.pc = "answer", !.read = Absent, !.context = c])
          /\ contexts' = [contexts EXCEPT ![exchange[t].intent] = c]
    /\ UNCHANGED <<account, budget, chatContext, gone, faq, offer, raced>>

-----------------------------------------------------------------------------
(***************************************************************************)
(* Its answer.                                                             *)
(***************************************************************************)
\* The answer of another turn, by anyone of the same role: nothing is asked of the model.
CachedFaqResponse(intent) == intent = "FAQ" /\ faq # Absent

AnswerFaq(t) ==
    /\ TurnAt(t, "answer") /\ CachedFaqResponse(exchange[t].intent)
    /\ Turned(t, Settled(exchange[t], "persist-cached"))
    /\ UNCHANGED <<account, budget, chatContext, gone, contexts, faq, offer, raced>>

\* The model may name any posting; those outside the context are dropped, and the others
\* are shown as the context has them.
ValidateRecommendedJobIds(named, c) == named \cap c.jobs
BuildRecommendedJobs(ids, c) == {j \in c.jobs : j \in ids}

Unused == {i \in Offers : offer[i] = Absent}
NewOffer(j) ==
    [job |-> j, status |-> "PENDING", late |-> FALSE, saved |-> FALSE, contested |-> FALSE]

\* Each posting to be saved becomes an offer, numbered from the first free number on.
CreateSaveJobActions(wanted) ==
    /\ budget["reply"] > 0     \* bound: none that nobody could reply to
    /\ \E number \in [wanted -> Unused] :
          /\ \A j, k \in wanted : number[j] = number[k] => j = k
          /\ \A j \in wanted, i \in Unused :
                i < number[j] => \E k \in wanted : number[k] = i
          /\ offer' = [i \in Offers |->
                IF \E j \in wanted : number[j] = i
                THEN NewOffer(CHOOSE j \in wanted : number[j] = i) ELSE offer[i]]

\* An answer that speaks of saving offers to save what it recommends and the account had
\* not saved when the request was let in.
CreatePendingToolActions(recommended, saved) ==
    \/ recommended # {} /\ CreateSaveJobActions(recommended \ saved)
    \/ UNCHANGED offer

Generate(t) ==
    LET c == exchange[t].context IN
    /\ TurnAt(t, "answer") /\ ~CachedFaqResponse(exchange[t].intent)
    /\ \E named \in SUBSET Jobs :
          LET ids == ValidateRecommendedJobIds(named, c) IN
          CreatePendingToolActions(BuildRecommendedJobs(ids, c), exchange[t].saved)
    /\ Turned(t, Settled(exchange[t], "persist"))
    /\ UNCHANGED <<account, budget, chatContext, gone, contexts, faq, raced>>

\* What follows once the question and the answer are to be stored: a stream's turn is
\* recorded before its answer is cached, a message's after.
AfterStream(pc) ==
    CASE pc = "persist" -> "record" [] pc = "record" -> "cache-answer"
      [] pc = "cache-answer" -> "ok"

AfterMessage(pc) ==
    CASE pc = "persist" -> "cache-answer" [] pc = "cache-answer" -> "record"
      [] pc = "record" -> "ok"

AfterAnswer(mode, pc) == IF mode = "message" THEN AfterMessage(pc) ELSE AfterStream(pc)

Follows(t, r) == Turned(t, [r EXCEPT !.pc = AfterAnswer(r.mode, r.pc)])

PersistMessageTurn(t) ==
    /\ TurnAt(t, "persist")
    /\ Follows(t, exchange[t])
    /\ UNCHANGED <<account, budget, chatContext, gone, contexts, faq, offer, raced>>

CacheFaqResponse(t) ==
    /\ TurnAt(t, "cache-answer")
    /\ faq' = IF exchange[t].intent = "FAQ" THEN "own" ELSE faq
    /\ Follows(t, exchange[t])
    /\ UNCHANGED <<account, budget, chatContext, gone, contexts, offer, raced>>

RecordUsage(t) ==
    /\ TurnAt(t, "record")
    /\ Follows(t, [exchange[t] EXCEPT !.right = @ + 1])
    /\ UNCHANGED <<account, budget, chatContext, gone, contexts, faq, offer, raced>>

\* A cached answer is stored and recorded like any other, and not cached again.
RecordCached(t) ==
    /\ TurnAt(t, "persist-cached")
    /\ Turned(t, [exchange[t] EXCEPT !.pc = "ok", !.right = @ + 1])
    /\ UNCHANGED <<account, budget, chatContext, gone, contexts, faq, offer, raced>>

\* The log refuses: a warning, and the turn goes on.
RecordLost(t) ==
    /\ Spend("fault")
    /\ \/ TurnAt(t, "record") /\ Follows(t, [exchange[t] EXCEPT !.lost = TRUE])
       \/ /\ TurnAt(t, "failing")
          /\ Turned(t, [exchange[t] EXCEPT !.pc = "failed", !.lost = TRUE])
    /\ UNCHANGED <<account, chatContext, gone, contexts, faq, offer, raced>>

\* Anything else that fails ends the turn, and is recorded: a cache or the database out of
\* reach, the quota used up, the model unavailable.  Only an FAQ answer is cached.
TurnFails(t) ==
    /\ \/ exchange[t].pc \in {"context", "profile", "provide", "answer", "persist",
                          "persist-cached"}
       \/ TurnAt(t, "cache-answer") /\ exchange[t].intent = "FAQ"
    /\ Spend("fault")
    /\ Turned(t, Settled(exchange[t], "failing"))
    /\ UNCHANGED <<account, chatContext, gone, contexts, faq, offer, raced>>

RecordFailure(t) ==
    /\ TurnAt(t, "failing")
    /\ Turned(t, [exchange[t] EXCEPT !.pc = "failed", !.wrong = @ + 1])
    /\ UNCHANGED <<account, budget, chatContext, gone, contexts, faq, offer, raced>>

-----------------------------------------------------------------------------
(***************************************************************************)
(* The person's answer to an offer.                                        *)
(***************************************************************************)
Replies(i) ==
    {s \in Slots : handler[s].pc \in {"save", "confirm", "cancel"} /\ handler[s].to = i}

\* Mutant: the offer is confirmed before the posting is saved.
AfterConfirmingFirst(pc) ==
    CASE pc = "find" -> "confirm" [] pc = "confirm" -> "save" [] pc = "save" -> "idle"

AfterReply(pc) ==
    CASE pc = "find" -> "save" [] pc = "save" -> "confirm" [] pc = "confirm" -> "idle"

Replied(s) ==
    LET pc == AfterReply(handler[s].pc) IN
    Serves(s, IF pc = "idle" THEN Vacant ELSE [handler[s] EXCEPT !.pc = pc])

\* Another reply to the offer is under way.
Meets(i) == offer[i].contested \/ Replies(i) # {}

\* A pending offer is found; one that is late is marked, and the reply refused.
Confirm(s) ==
    /\ SlotAt(s, "idle") /\ Spend("reply") /\ ~user.deleted
    /\ \E i \in Offers :
          /\ offer[i] # Absent /\ offer[i].status = "PENDING"
          /\ Serves(s, IF offer[i].late THEN Vacant
                        ELSE [pc |-> AfterReply("find"), to |-> i])
          /\ offer' = [offer EXCEPT ![i].contested = Meets(i),
                                    ![i].status = IF offer[i].late THEN "EXPIRED" ELSE @]
    /\ UNCHANGED <<profiles, chatContext, announced, gone, contexts, faq, exchange, raced>>

ConfirmSaves(s) ==
    LET i == handler[s].to IN
    /\ SlotAt(s, "save")
    /\ IF offer[i].job \in gone \/ user.deleted
       THEN Serves(s, Vacant) /\ UNCHANGED <<user, offer>>
       ELSE /\ SaveJob(offer[i].job)
            /\ offer' = [offer EXCEPT ![i].saved = TRUE]
            /\ Replied(s)
    /\ UNCHANGED <<cv, edition, parted, chatContext, announced, budget, gone, contexts, faq,
                   exchange, raced>>

ConfirmMarks(s) ==
    /\ SlotAt(s, "confirm")
    /\ offer' = [offer EXCEPT ![handler[s].to].status = "CONFIRMED"]
    /\ Replied(s)
    /\ UNCHANGED <<profiles, chatContext, announced, budget, gone, contexts, faq, exchange,
                   raced>>

\* A late offer can still be cancelled.
Cancel(s) ==
    /\ SlotAt(s, "idle") /\ Spend("reply") /\ ~user.deleted
    /\ \E i \in Offers :
          /\ offer[i] # Absent /\ offer[i].status = "PENDING"
          /\ Serves(s, [pc |-> "cancel", to |-> i])
          /\ offer' = [offer EXCEPT ![i].contested = Meets(i)]
    /\ UNCHANGED <<profiles, chatContext, announced, gone, contexts, faq, exchange, raced>>

CancelMarks(s) ==
    /\ SlotAt(s, "cancel")
    /\ offer' = [offer EXCEPT ![handler[s].to].status = "CANCELED"]
    /\ Serves(s, Vacant)
    /\ UNCHANGED <<profiles, chatContext, announced, budget, gone, contexts, faq, exchange,
                   raced>>

\* A reply fails between its two writes, or before them.
ReplyFails(s) ==
    /\ handler[s].pc \in {"save", "confirm", "cancel"} /\ Spend("fault")
    /\ offer' = [offer EXCEPT ![handler[s].to].contested = TRUE]
    /\ Serves(s, Vacant)
    /\ UNCHANGED <<profiles, chatContext, announced, gone, contexts, faq, exchange, raced>>

\* Saved from the posting's page.
SaveFromPage ==
    /\ Spend("reply") /\ ~user.deleted
    /\ \E j \in Jobs : j \notin gone \cup user.saved /\ SaveJob(j)
    /\ UNCHANGED <<cv, edition, handler, parted, chatContext, announced, assistant>>

-----------------------------------------------------------------------------
(***************************************************************************)
(* Time and postings.                                                      *)
(***************************************************************************)
OfferExpires(i) ==
    /\ offer[i] # Absent /\ offer[i].status = "PENDING" /\ ~offer[i].late
    /\ Spend("elsewhere")
    /\ offer' = [offer EXCEPT ![i].late = TRUE]
    /\ UNCHANGED <<account, chatContext, gone, contexts, faq, exchange, raced>>

\* Another person of the role was answered the same question.
AnotherCachesFaq ==
    /\ Spend("elsewhere") /\ faq' = "another's"
    /\ UNCHANGED <<account, chatContext, gone, contexts, offer, exchange, raced>>

CacheExpires ==
    /\ Spend("elsewhere")
    /\ \/ chatContext # Absent /\ chatContext' = Absent /\ UNCHANGED <<contexts, faq>>
       \/ \E k \in DOMAIN contexts :
             /\ contexts[k] # Absent /\ contexts' = [contexts EXCEPT ![k] = Absent]
             /\ UNCHANGED <<chatContext, faq>>
       \/ faq # Absent /\ faq' = Absent /\ UNCHANGED <<chatContext, contexts>>
    /\ UNCHANGED <<account, gone, offer, exchange, raced>>

RemoveJob ==
    /\ Spend("reply")
    /\ \E j \in Jobs \ gone : gone' = gone \cup {j}
    /\ UNCHANGED <<account, chatContext, contexts, faq, offer, exchange, raced>>

\* The summary of the CV is cleared while a turn that has read it is about to store it:
\* what the turn stores is cleared by the next upsert only.
ClearsContext(s) ==
    /\ ClearContext(s)
    /\ raced' = \E t \in Turns : TurnAt(t, "match")
    /\ UNCHANGED <<gone, contexts, faq, offer, exchange>>

-----------------------------------------------------------------------------
AssistantInit ==
    /\ InitProfiles
    /\ gone = {}
    /\ contexts = [k \in Intents |-> Absent]
    /\ faq = Absent
    /\ offer = [i \in Offers |-> Absent]
    /\ exchange = [t \in Turns |-> Unasked]
    /\ raced = FALSE

ContextSteps(t) ==
    \/ Ask(t) \/ AskRefused(t) \/ GetContext(t) \/ GetUserContext(t) \/ CvUnread(t)
    \/ CacheUserContext(t) \/ UserContextFails(t) \/ BuildContext(t)

AnswerSteps(t) ==
    \/ AnswerFaq(t) \/ Generate(t) \/ PersistMessageTurn(t) \/ CacheFaqResponse(t)
    \/ RecordUsage(t) \/ RecordCached(t) \/ RecordLost(t) \/ TurnFails(t) \/ RecordFailure(t)

ReplySteps(s) ==
    \/ Confirm(s) \/ ConfirmSaves(s) \/ ConfirmMarks(s) \/ Cancel(s) \/ CancelMarks(s)
    \/ ReplyFails(s)

AssistantNext ==
    \/ (UserSteps \/ CvSteps) /\ UNCHANGED assistant
    \/ \E s \in Slots : ClearsContext(s) \/ ReplySteps(s)
    \/ \E t \in Turns : ContextSteps(t) \/ AnswerSteps(t)
    \/ \E i \in Offers : OfferExpires(i)
    \/ SaveFromPage \/ CacheExpires \/ AnotherCachesFaq \/ RemoveJob

AssistantSpec == AssistantInit /\ [][AssistantNext]_assistantVars

-----------------------------------------------------------------------------
(***************************************************************************)
(* Properties.                                                             *)
(***************************************************************************)
\* Account, CV, offers and turns are what the actions can make of them; only an HR user
\* has a company, and a turn is recorded at most twice.
AssistantTypeOK ==
    /\ ProfilesTyped
    /\ gone \subseteq Jobs
    /\ \A i \in Offers : offer[i] # Absent =>
          /\ offer[i].job \in Jobs
          /\ offer[i].status \in {"PENDING", "CONFIRMED", "CANCELED", "EXPIRED"}
    /\ faq \in {Absent, "own", "another's"}
    /\ \A t \in Turns :
          exchange[t].saved \subseteq Jobs /\ exchange[t].right + exchange[t].wrong <= 2

\* A turn that was asked after an upsert of the CV had ended draws its answer from that
\* CV or a later one, unless the same question was answered before, or the cached
\* summary was stored by a turn that had read it before the upsert cleared it, or the
\* CV could not be read (cv-profiles.service upsertCvProfile, "so next chat message gets
\* fresh profile data"; chat-context.service buildUserContext).
TurnSeesCv ==
    \A t \in Turns :
        exchange[t].context # Absent /\ ~exchange[t].repeated /\ ~exchange[t].stale =>
            exchange[t].context.of >= exchange[t].since

\* Once nobody replies to it, an offer is confirmed exactly if its posting was saved on its
\* account, unless two replies overlapped or one failed: a reply finds a pending offer,
\* and marks it whatever it has become meanwhile (chat-tool-action.service confirm, cancel).
ConfirmedIsSaved ==
    \A i \in Offers :
        offer[i] # Absent /\ ~offer[i].contested /\ Replies(i) = {} =>
            (offer[i].saved <=> offer[i].status = "CONFIRMED")

\* A turn that has ended has left one record, of success if it was answered and of failure
\* if it was not, unless the log refused it, or a stream failed to cache the answer it had
\* already recorded and left both (chat.service sendMessage, streamMessage, recordUsage).
OneRecord ==
    \A t \in Turns :
        exchange[t].pc \in {"ok", "failed"} /\ ~exchange[t].lost =>
            \/ exchange[t].right = 1 /\ exchange[t].wrong = 0 /\ exchange[t].pc = "ok"
            \/ exchange[t].right = 0 /\ exchange[t].wrong = 1 /\ exchange[t].pc = "failed"
            \/ /\ exchange[t].right = 1 /\ exchange[t].wrong = 1
               /\ exchange[t].pc = "failed"
               /\ exchange[t].mode = "stream" /\ exchange[t].intent = "FAQ"
=============================================================================
