----------------------------- MODULE Catalogue -----------------------------
(***************************************************************************)
(* The catalogue of skills, the names people may use for a skill, and what *)
(* users ask to hear about: subscriptions to skills, companies followed.   *)
(*                                                                         *)
(* A handler checks first and writes later; handlers run in slots and      *)
(* overlap, and every awaited call is a step.  A name stands for spellings *)
(* that are looked up alike and have one slug.                             *)
(***************************************************************************)
EXTENDS Integers, FiniteSets

CONSTANTS
    Slots,          \* handlers that overlap
    Ids,            \* bound: skills there can be
    Names,
    Users,
    Subscriptions,  \* bound: subscriptions there can be
    Companies,
    Limit,          \* subscriptions a user may hold (3)
    FollowLimit,    \* companies a user may follow (5)
    MaxChanges,     \* bound: handlers that change something
    MaxReads,       \* bound: readings of the catalogue
    None

ASSUME LimitAssumption ==
    /\ IsFiniteSet(Ids) /\ IsFiniteSet(Subscriptions) /\ IsFiniteSet(Companies)
    /\ Limit \in Nat /\ FollowLimit \in Nat /\ MaxChanges \in Nat /\ MaxReads \in Nat
ASSUME NoneAssumption == None \notin Ids \cup Subscriptions

VARIABLES
    skill,          \* per id: its document
    cached,         \* the catalogue and the map from names to labels, as cached
    subscription,   \* per subscription: its document
    followed,       \* per user: the companies followed
    handler,        \* per slot: where its handler is
    stale,          \* history: entries stored after what they were read from had changed
    overlapped,     \* history: limits that were checked twice before they were written
    known,          \* history: labels the catalogue has offered
    changes, reads  \* bounds

vars == <<skill, cached, subscription, followed, handler, stale, overlapped, known,
          changes, reads>>
asked == <<subscription, followed>>

-----------------------------------------------------------------------------
(***************************************************************************)
(* What the catalogue says.                                                *)
(***************************************************************************)
Live == {k \in Ids : skill[k].state = "live"}
Offered == {k \in Live : skill[k].active}

\* Sorted by label, up to a limit the instances stay below.
Catalog == {[label |-> skill[k].label, aliases |-> skill[k].aliases] : k \in Offered}

NamesOf(k) == {skill[k].label} \cup skill[k].aliases

\* A name claimed by several skills goes to the last that is read, even when it is the
\* label of another; the query sets no order, so that can be any of them.
LabelsFor(n) == {skill[k].label : k \in {j \in Offered : n \in NamesOf(j)}}
AliasMaps ==
    LET claimed == UNION {NamesOf(k) : k \in Offered}
    IN  {m \in [claimed -> Names] : \A n \in claimed : m[n] \in LabelsFor(n)}

\* What a reading may give now.
Keys == {"catalog", "map"}
Current(key) == IF key = "catalog" THEN {Catalog} ELSE AliasMaps

\* An alias that is the label adds nothing.
BuildSkillPayload(label, aliases, active) ==
    [state |-> "live", label |-> label, aliases |-> aliases \ {label}, active |-> active]

\* Another live skill has the label; aliases are not compared.
Taken(label, id) == \E k \in Live \ {id} : skill[k].label = label

-----------------------------------------------------------------------------
Idle == [pc |-> "idle", id |-> None, load |-> None, user |-> None, names |-> {}, view |-> None]

At(s, pc) == handler[s].pc = pc
Goes(s, h) == handler' = [handler EXCEPT ![s] = h]
Goto(s, pc) == handler' = [handler EXCEPT ![s].pc = pc]
Ends(s) == Goes(s, Idle)
Changes == changes < MaxChanges /\ changes' = changes + 1

\* What a handler has found free and not taken yet.
Claim(s) ==
    CASE At(s, "write") -> <<"label", handler[s].load.label>>
      [] At(s, "follow") -> <<"follow", handler[s].user>>
      [] handler[s].pc \in {"map", "read map", "fill map", "save"} /\ handler[s].id = None ->
            <<"subscribe", handler[s].user>>
      [] OTHER -> None

Takes(s) ==
    overlapped' = IF \E t \in Slots \ {s} : Claim(t) = Claim(s)
                  THEN overlapped \cup {Claim(s)} ELSE overlapped

-----------------------------------------------------------------------------
(***************************************************************************)
(* Skills.                                                                 *)
(***************************************************************************)
CreateSkill(s) ==
    /\ At(s, "idle") /\ Changes
    /\ \E label \in Names, aliases \in SUBSET Names, active \in BOOLEAN :
          Goes(s, [Idle EXCEPT !.pc = "check",
                               !.load = BuildSkillPayload(label, aliases, active)])
    /\ UNCHANGED <<skill, cached, asked, stale, overlapped, known, reads>>

\* What the request leaves out is taken from the skill as it is read, and is one of the
\* values it could have sent.
UpdateSkill(s) ==
    /\ At(s, "idle") /\ Changes
    /\ \E k \in Live :
       \E label \in Names, aliases \in SUBSET Names, active \in BOOLEAN :
          Goes(s, [Idle EXCEPT !.pc = "check", !.id = k,
                               !.load = BuildSkillPayload(label, aliases, active)])
    /\ UNCHANGED <<skill, cached, asked, stale, overlapped, known, reads>>

AssertUniqueSkill(s) ==
    /\ At(s, "check")
    /\ IF Taken(handler[s].load.label, handler[s].id) THEN Ends(s) ELSE Goto(s, "write")
    /\ UNCHANGED <<skill, cached, asked, stale, overlapped, known, changes, reads>>

\* Created, or updated by its id, which misses a skill removed in between.
SkillWrite(s) ==
    LET load == handler[s].load IN
    /\ At(s, "write")
    /\ \E id \in Ids :
          /\ IF handler[s].id = None THEN skill[id].state = "none" ELSE id = handler[s].id
          /\ IF skill[id].state = "removed" THEN UNCHANGED <<skill, known, overlapped>>
             ELSE /\ skill' = [skill EXCEPT ![id] = load]
                  /\ known' = known \cup (IF load.active THEN {load.label} ELSE {})
                  /\ Takes(s)
    /\ Goto(s, "clear")
    /\ UNCHANGED <<cached, asked, stale, changes, reads>>

\* One skill that is found, or several.
RemoveSkills(s) ==
    /\ At(s, "idle") /\ Changes
    /\ \E K \in (SUBSET Live) \ {{}} :
          /\ skill' = [k \in Ids |-> IF k \in K THEN [skill[k] EXCEPT !.state = "removed"]
                                                ELSE skill[k]]
          /\ Goes(s, [Idle EXCEPT !.pc = "clear"])
    /\ UNCHANGED <<cached, asked, stale, overlapped, known, reads>>

\* Mutant: only the catalogue is cleared.
ClearedCatalog == {"catalog"}

Cleared == Keys

InvalidateCache(s) ==
    /\ At(s, "clear")
    /\ cached' = [key \in Keys |-> IF key \in Cleared THEN None ELSE cached[key]]
    /\ stale' = stale \ Cleared
    /\ Ends(s)
    /\ UNCHANGED <<skill, asked, overlapped, known, changes, reads>>

-----------------------------------------------------------------------------
(***************************************************************************)
(* Reading through the cache.                                              *)
(***************************************************************************)
Fills(key, view) ==
    /\ cached' = [cached EXCEPT ![key] = view]
    /\ stale' = IF view \in Current(key) THEN stale \ {key} ELSE stale \cup {key}

GetCatalog(s) ==
    /\ At(s, "idle") /\ cached["catalog"] = None
    /\ reads < MaxReads /\ reads' = reads + 1
    /\ Goes(s, [Idle EXCEPT !.pc = "fill catalog", !.view = Catalog])
    /\ UNCHANGED <<skill, cached, asked, stale, overlapped, known, changes>>

FillCatalog(s) ==
    /\ At(s, "fill catalog")
    /\ Fills("catalog", handler[s].view)
    /\ Ends(s)
    /\ UNCHANGED <<skill, asked, overlapped, known, changes, reads>>

\* Mutant: a name that the map knows is kept as it is written.
NormalizeAsWritten(names, map) == names

\* The label each name stands for.
NormalizeControlledSkills(names, map) == {map[n] : n \in names}

\* A name the map does not know refuses the request.
Resolves(s, map) ==
    IF handler[s].names \subseteq DOMAIN map
    THEN Goes(s, [handler[s] EXCEPT !.pc = "save", !.view = None,
                                    !.names = NormalizeControlledSkills(@, map)])
    ELSE Ends(s)

GetAliasMap(s) ==
    /\ At(s, "map")
    /\ IF cached["map"] = None THEN Goto(s, "read map") ELSE Resolves(s, cached["map"])
    /\ UNCHANGED <<skill, cached, asked, stale, overlapped, known, changes, reads>>

ReadAliasMap(s) ==
    /\ At(s, "read map")
    /\ \E m \in AliasMaps : Goes(s, [handler[s] EXCEPT !.pc = "fill map", !.view = m])
    /\ UNCHANGED <<skill, cached, asked, stale, overlapped, known, changes, reads>>

FillAliasMap(s) ==
    /\ At(s, "fill map")
    /\ Fills("map", handler[s].view)
    /\ Resolves(s, handler[s].view)
    /\ UNCHANGED <<skill, asked, overlapped, known, changes, reads>>

CacheExpires ==
    /\ \E key \in Keys :
          /\ cached[key] # None
          /\ cached' = [cached EXCEPT ![key] = None]
          /\ stale' = stale \ {key}
    /\ UNCHANGED <<skill, asked, handler, overlapped, known, changes, reads>>

-----------------------------------------------------------------------------
(***************************************************************************)
(* Subscriptions.                                                          *)
(***************************************************************************)
Held(u) == {b \in Subscriptions : subscription[b].state = "live" /\ subscription[b].of = u}

\* Mutant: one more subscription is let through.
MaySubscribeAtLimit(u) == Cardinality(Held(u)) <= Limit

MaySubscribe(u) == Cardinality(Held(u)) < Limit

Subscribe(s) ==
    /\ At(s, "idle") /\ Changes
    /\ \E u \in Users, names \in (SUBSET Names) \ {{}} :
          MaySubscribe(u) /\ Goes(s, [Idle EXCEPT !.pc = "map", !.user = u, !.names = names])
    /\ UNCHANGED <<skill, cached, asked, stale, overlapped, known, reads>>

\* The subscription is found first; an update that names no skills asks for no map,
\* and changes nothing that is modelled.
UpdateSubscription(s) ==
    /\ At(s, "idle") /\ Changes
    /\ \E u \in Users, names \in (SUBSET Names) \ {{}} : \E b \in Held(u) :
          Goes(s, [Idle EXCEPT !.pc = "map", !.id = b, !.user = u, !.names = names])
    /\ UNCHANGED <<skill, cached, asked, stale, overlapped, known, reads>>

Asked(h) == [state |-> "live", of |-> h.user, skills |-> h.names]

InsertSubscription(s) ==
    /\ At(s, "save") /\ handler[s].id = None
    /\ \E b \in Subscriptions :
          /\ subscription[b].state = "none"
          /\ subscription' = [subscription EXCEPT ![b] = Asked(handler[s])]
    /\ Takes(s)
    /\ Ends(s)
    /\ UNCHANGED <<skill, cached, followed, stale, known, changes, reads>>

\* Written to the subscription if it is still held.
SaveSubscription(s) ==
    LET b == handler[s].id IN
    /\ At(s, "save") /\ b # None
    /\ subscription' = IF b \in Held(handler[s].user)
                       THEN [subscription EXCEPT ![b] = Asked(handler[s])] ELSE subscription
    /\ Ends(s)
    /\ UNCHANGED <<skill, cached, followed, stale, overlapped, known, changes, reads>>

Unsubscribe ==
    /\ Changes
    /\ \E u \in Users : \E b \in Held(u) :
          subscription' = [subscription EXCEPT ![b].state = "removed"]
    /\ UNCHANGED <<skill, cached, followed, handler, stale, overlapped, known, reads>>

-----------------------------------------------------------------------------
(***************************************************************************)
(* Companies followed.                                                     *)
(***************************************************************************)
FollowCompany(s) ==
    /\ At(s, "idle") /\ Changes
    /\ \E u \in Users : \E c \in Companies \ followed[u] :
          /\ Cardinality(followed[u]) < FollowLimit
          /\ Goes(s, [Idle EXCEPT !.pc = "follow", !.id = c, !.user = u])
    /\ UNCHANGED <<skill, cached, asked, stale, overlapped, known, reads>>

AddFollowedCompany(s) ==
    /\ At(s, "follow")
    /\ followed' = [followed EXCEPT ![handler[s].user] = @ \cup {handler[s].id}]
    /\ Takes(s)
    /\ Ends(s)
    /\ UNCHANGED <<skill, cached, subscription, stale, known, changes, reads>>

UnfollowCompany ==
    /\ Changes
    /\ \E u \in Users : \E c \in followed[u] :
          followed' = [followed EXCEPT ![u] = @ \ {c}]
    /\ UNCHANGED <<skill, cached, subscription, handler, stale, overlapped, known, reads>>

-----------------------------------------------------------------------------
NoSkill == [state |-> "none", label |-> None, aliases |-> {}, active |-> FALSE]
NoSubscription == [state |-> "none", of |-> None, skills |-> {}]

Init ==
    /\ skill = [k \in Ids |-> NoSkill]
    /\ cached = [key \in Keys |-> None]
    /\ subscription = [b \in Subscriptions |-> NoSubscription]
    /\ followed = [u \in Users |-> {}]
    /\ handler = [s \in Slots |-> Idle]
    /\ stale = {} /\ overlapped = {} /\ known = {}
    /\ changes = 0 /\ reads = 0

SkillSteps(s) ==
    \/ CreateSkill(s) \/ UpdateSkill(s) \/ AssertUniqueSkill(s) \/ SkillWrite(s)
    \/ RemoveSkills(s) \/ InvalidateCache(s) \/ GetCatalog(s) \/ FillCatalog(s)

AskingSteps(s) ==
    \/ GetAliasMap(s) \/ ReadAliasMap(s) \/ FillAliasMap(s)
    \/ Subscribe(s) \/ UpdateSubscription(s) \/ InsertSubscription(s) \/ SaveSubscription(s)
    \/ FollowCompany(s) \/ AddFollowedCompany(s)

Next ==
    \/ \E s \in Slots : SkillSteps(s) \/ AskingSteps(s)
    \/ Unsubscribe \/ UnfollowCompany \/ CacheExpires

Spec == Init /\ [][Next]_vars

-----------------------------------------------------------------------------
(***************************************************************************)
(* Properties.                                                             *)
(***************************************************************************)
Document == [state : {"none", "live", "removed"}, label : Names \cup {None},
             aliases : SUBSET Names, active : BOOLEAN]
Payload == [state : {"live"}, label : Names, aliases : SUBSET Names, active : BOOLEAN]

Resolving == {"map", "read map", "fill map", "save"}
Steps == {"idle", "check", "write", "clear", "fill catalog", "follow"} \cup Resolving

\* What a handler holds at each step it waits at.
HandlerType(h) ==
    /\ DOMAIN h = DOMAIN Idle
    /\ h.pc \in Steps /\ h.names \subseteq Names
    /\ h.pc \in {"check", "write"} =>
          h.id \in Ids \cup {None} /\ h.load \in Payload /\ h.load.label \notin h.load.aliases
    /\ h.pc \in Resolving => h.id \in Subscriptions \cup {None} /\ h.user \in Users
    /\ h.pc = "follow" => h.id \in Companies /\ h.user \in Users

\* Skills, subscriptions and handlers are what the actions can make of them, and a
\* cached map leads from names to labels.
TypeOK ==
    /\ skill \in [Ids -> Document]
    /\ \A k \in Ids : skill[k].state # "none" =>
          skill[k].label \in Names /\ skill[k].label \notin skill[k].aliases
    /\ DOMAIN cached = Keys /\ DOMAIN handler = Slots
    /\ cached["map"] # None => DOMAIN cached["map"] \subseteq Names
    /\ subscription \in [Subscriptions -> [state : {"none", "live", "removed"},
                                           of : Users \cup {None}, skills : SUBSET Names]]
    /\ followed \in [Users -> SUBSET Companies]
    /\ \A s \in Slots : HandlerType(handler[s])
    /\ stale \subseteq Keys /\ known \subseteq Names
    /\ changes \in 0 .. MaxChanges /\ reads \in 0 .. MaxReads

\* A cached catalogue or map is none the skills could give only while a change is about to
\* clear it, or when it was read before a change and stored after it (getCatalog and
\* getAliasMap read, then set; invalidateCache cannot reach a set that is still to come).
CachesSettle ==
    \A key \in Keys :
        cached[key] \notin Current(key) \cup {None} =>
            key \in stale \/ \E s \in Slots : At(s, "clear")

\* Two live skills share a label, a user holds more subscriptions than the limit, or
\* follows more companies than the limit, only if two handlers made the check before
\* either wrote: each check is a read of its own and no unique index repeats it.
OnlyOverlapsExceed ==
    /\ \A k, l \in Live : k # l /\ skill[k].label = skill[l].label =>
          <<"label", skill[k].label>> \in overlapped
    /\ \A u \in Users :
          /\ Cardinality(Held(u)) > Limit => <<"subscribe", u>> \in overlapped
          /\ Cardinality(followed[u]) > FollowLimit => <<"follow", u>> \in overlapped

\* A subscription asks for labels that active skills have borne, never for an alias
\* that no skill is called by, however old the map was that it was read through.
SubscribedToLabels ==
    \A b \in Subscriptions : subscription[b].skills \subseteq known

\* The cache as the rest of the system sees it: what the skills say, the entries each
\* handler is about to clear, and what it has read and is about to store.
Answers == [key \in Keys |-> Current(key)]
Promised == [s \in Slots |-> IF At(s, "clear") THEN Keys ELSE {}]
CarriedBy(s) ==
    CASE At(s, "fill catalog") -> {<<"catalog", handler[s].view>>}
      [] At(s, "fill map") -> {<<"map", handler[s].view>>}
      [] OTHER -> {}
Carried == [s \in Slots |-> CarriedBy(s)]

Cache == INSTANCE ReadThrough WITH
    Clients <- Slots, Drifting <- {}, answer <- Answers, cache <- cached,
    promised <- Promised, carried <- Carried, late <- stale

\* The catalogue and the map are read through a cache that keeps its promises: whoever changes
\* what they say clears both, nothing drifts, and what is stored is what the same handler has
\* read (getCatalog, getAliasMap and invalidateCache of SkillsService, and their callers).
ReadsThrough == Cache!Spec
=============================================================================
