-------------------------- MODULE CatalogueProofs --------------------------
(***************************************************************************)
(* Theorems about Catalogue: its types, that it implements ReadThrough and *)
(* therefore when a cached entry may be out of date, which limits can be   *)
(* exceeded, and what is subscribed to; and about Matching: the scores of  *)
(* a CV, for any number of skills and years.                               *)
(*                                                                         *)
(* The scores are folds over sequences and sets.  Of each fold it is shown *)
(* that the equation it is defined by has a solution, and what that        *)
(* solution is, by induction (LeastNumber, Inductive).                     *)
(***************************************************************************)
EXTENDS Catalogue, Matching, FiniteSetTheorems, WellFoundedInduction, TLAPS

-----------------------------------------------------------------------------
(* The inductive invariant                                                 *)

\* A map from names leads to labels that active skills of K have borne.
Leads(m, K) == DOMAIN m \subseteq Names /\ \A n \in DOMAIN m : m[n] \in K

\* What a handler has taken from a map.
Knows(h, K) ==
    /\ h.pc = "fill map" => Leads(h.view, K)
    /\ h.pc = "save" => h.names \subseteq K

Docs ==
    /\ skill \in [Ids -> Document]
    /\ \A k \in Ids : skill[k].state # "none" =>
          skill[k].label \in Names /\ skill[k].label \notin skill[k].aliases

Handlers ==
    /\ DOMAIN handler = Slots
    /\ \A s \in Slots : HandlerType(handler[s]) /\ Knows(handler[s], known)

Subscribers ==
    /\ subscription \in [Subscriptions -> [state : {"none", "live", "removed"},
                                           of : Users \cup {None}, skills : SUBSET Names]]
    /\ followed \in [Users -> SUBSET Companies]

Knowledge ==
    /\ \A k \in Offered : skill[k].label \in known
    /\ DOMAIN cached = Keys /\ (cached["map"] # None => Leads(cached["map"], known))
    /\ \A b \in Subscriptions : subscription[b].skills \subseteq known

Counts ==
    /\ stale \subseteq Keys /\ known \subseteq Names
    /\ changes \in 0 .. MaxChanges /\ reads \in 0 .. MaxReads

IInv == Docs /\ Handlers /\ Subscribers /\ Knowledge /\ Counts

-----------------------------------------------------------------------------
(* Handlers                                                                *)

LEMMA IdleTyped ==
    /\ HandlerType(Idle) /\ \A K : Knows(Idle, K)
    /\ Idle.pc = "idle" /\ Idle.id = None /\ Idle.user = None /\ Idle.names = {}
    /\ DOMAIN Idle = {"pc", "id", "load", "user", "names", "view"}
BY DEF Idle, HandlerType, Steps, Resolving, Knows

LEMMA KnowsMore ==
    ASSUME NEW h, NEW K, NEW L, Knows(h, K), K \subseteq L
    PROVE  Knows(h, L)
BY DEF Knows, Leads

\* One handler moves while what is known grows.
LEMMA HandlerMoves ==
    ASSUME Handlers, known \subseteq known', NEW s \in Slots, NEW h, Goes(s, h),
           HandlerType(h), Knows(h, known')
    PROVE  /\ Handlers' /\ handler'[s] = h
           /\ \A t \in Slots \ {s} : handler'[t] = handler[t]
<1>1. /\ DOMAIN handler' = Slots /\ handler'[s] = h
      /\ \A t \in Slots \ {s} : handler'[t] = handler[t]
  BY DEF Handlers, Goes
<1>2. ASSUME NEW t \in Slots
      PROVE  HandlerType(handler'[t]) /\ Knows(handler'[t], known')
  BY <1>1, KnowsMore DEF Handlers
<1> QED
  BY <1>1, <1>2 DEF Handlers

LEMMA HandlersRest ==
    ASSUME Handlers, known \subseteq known', handler' = handler
    PROVE  Handlers'
<1>1. ASSUME NEW t \in Slots
      PROVE  Knows(handler[t], known')
  BY KnowsMore DEF Handlers
<1> QED
  BY <1>1 DEF Handlers

\* A handler waits at another step, holding what it held.
LEMMA GotoFields ==
    ASSUME Handlers, NEW s \in Slots, NEW pc, Goto(s, pc)
    PROVE  \E h : /\ Goes(s, h) /\ h.pc = pc /\ DOMAIN h = DOMAIN Idle
                  /\ h.id = handler[s].id /\ h.load = handler[s].load
                  /\ h.user = handler[s].user /\ h.names = handler[s].names
                  /\ h.view = handler[s].view
<1> DEFINE h == [handler[s] EXCEPT !.pc = pc]
<1>1. DOMAIN handler[s] = {"pc", "id", "load", "user", "names", "view"}
  BY IdleTyped DEF Handlers, HandlerType
<1>2. Goes(s, h)
  BY DEF Goto, Goes, Handlers
<1> QED
  BY <1>1, <1>2, IdleTyped

-----------------------------------------------------------------------------
(* Induction                                                               *)

\* The least of some natural numbers: induction, for the provers, is reasoning
\* about the least counterexample.
LEMMA LeastNumber ==
  ASSUME NEW T \in SUBSET Nat, T # {}
  PROVE  \E m \in T : \A k \in T : m <= k
<1>1. \E m \in T : \A k \in T : ~ (<<k, m>> \in OpToRel(<, Nat))
  BY WFMin, NatLessThanWellFounded, Zenon
<1>2. \E m \in T : \A k \in T : ~ (k < m)
  BY <1>1 DEF OpToRel
<1>. QED
  BY <1>2

\* Induction over the natural numbers, with a set for the predicate.
LEMMA Inductive ==
  ASSUME NEW P, 0 \in P, \A n \in Nat : n \in P => n + 1 \in P
  PROVE  Nat \subseteq P
<1>. SUFFICES ASSUME Nat \ P # {}
              PROVE  FALSE
  OBVIOUS
<1>1. PICK m \in Nat \ P : \A k \in Nat \ P : m <= k
  BY LeastNumber
<1>2. m # 0 /\ m - 1 \in Nat /\ ~(m <= m - 1)
  BY <1>1
<1>3. m - 1 \in P
  BY <1>1, <1>2
<1>. QED
  BY <1>1, <1>2, <1>3

LEMMA Sized ==
  ASSUME NEW R, IsFiniteSet(R), NEW s \in SUBSET R
  PROVE  /\ Cardinality(s) \in Nat
         /\ Cardinality(s) = 0 <=> s = {}
BY FS_Subset, FS_CardinalityType, FS_EmptySet

-----------------------------------------------------------------------------
(* Order                                                                   *)

\* A set of finitely many numbers has a largest one.
LEMMA LargestNumber ==
    ASSUME NEW R \in SUBSET Nat, IsFiniteSet(R), R # {}
    PROVE  \E m \in R : \A k \in R : m >= k
<1> DEFINE P == {n \in Nat : \A K \in (SUBSET R) \ {{}} : Cardinality(K) =< n =>
                                \E m \in K : \A k \in K : m >= k}
<1>1. 0 \in P
  <2> SUFFICES ASSUME NEW K \in (SUBSET R) \ {{}}, Cardinality(K) =< 0
               PROVE  FALSE
    OBVIOUS
  <2>1. Cardinality(K) \in Nat /\ (Cardinality(K) = 0 <=> K = {})
    BY Sized
  <2> QED
    BY <2>1
<1>2. ASSUME NEW n \in Nat, n \in P
      PROVE  n + 1 \in P
  <2> SUFFICES ASSUME NEW K \in (SUBSET R) \ {{}}, Cardinality(K) =< n + 1
               PROVE  \E m \in K : \A k \in K : m >= k
    OBVIOUS
  <2>1. PICK x : x \in K
    OBVIOUS
  <2>2. IsFiniteSet(K)
    BY FS_Subset
  <2>3. Cardinality(K \ {x}) = Cardinality(K) - 1 /\ Cardinality(K) \in Nat
    BY <2>1, <2>2, FS_RemoveElement, FS_CardinalityType
  <2>4. Cardinality(K \ {x}) =< n
    BY <2>3
  <2>5. CASE K \ {x} = {}
    BY <2>1, <2>5
  <2>6. CASE K \ {x} # {}
    <3>1. PICK m \in K \ {x} : \A k \in K \ {x} : m >= k
      BY <1>2, <2>4, <2>6
    <3>2. CASE x >= m
      BY <2>1, <3>1, <3>2
    <3>3. CASE ~(x >= m)
      BY <2>1, <3>1, <3>3
    <3> QED
      BY <3>2, <3>3
  <2> QED
    BY <2>5, <2>6
<1> HIDE DEF P
<1>3. Cardinality(R) \in P /\ Cardinality(R) \in Nat
  BY <1>1, <1>2, Inductive, FS_CardinalityType
<1>4. \A n \in Nat : n =< n
  OBVIOUS
<1>5. \A K \in (SUBSET R) \ {{}} : Cardinality(K) =< Cardinality(R) =>
         \E m \in K : \A k \in K : m >= k
  BY <1>3 DEF P
<1>6. Cardinality(R) =< Cardinality(R) /\ R \in (SUBSET R) \ {{}}
  BY <1>3, <1>4, Zenon
<1> QED
  BY <1>5, <1>6, Zenon

\* Every map of the catalogue leads to labels of active skills.
LEMMA MapLeads ==
    ASSUME Docs, Knowledge, NEW m \in AliasMaps
    PROVE  Leads(m, known)
<1>1. /\ DOMAIN m = UNION {NamesOf(k) : k \in Offered}
      /\ \A n \in DOMAIN m : m[n] \in LabelsFor(n)
  BY DEF AliasMaps
<1>2. \A k \in Offered : NamesOf(k) \subseteq Names
  BY DEF Offered, Live, NamesOf, Docs, Document
<1>3. \A n \in DOMAIN m : \E k \in Offered : m[n] = skill[k].label
  BY <1>1 DEF LabelsFor
<1> QED
  BY <1>1, <1>2, <1>3 DEF Leads, Knowledge

-----------------------------------------------------------------------------
(* Steps that only move a handler                                          *)

LEMMA OnlyHandler ==
    ASSUME IInv, UNCHANGED <<skill, cached, asked, stale, known>>, Handlers',
           changes' \in 0 .. MaxChanges, reads' \in 0 .. MaxReads
    PROVE  IInv'
<1>1. Docs' /\ Subscribers' /\ Counts'
  BY DEF IInv, Docs, Subscribers, Counts, asked
<1>2. Knowledge'
  BY DEF IInv, Knowledge, Offered, Live, Leads, asked
<1> QED
  BY <1>1, <1>2 DEF IInv

LEMMA ChangesTyped ==
    ASSUME Counts, Changes
    PROVE  changes' \in 0 .. MaxChanges
BY LimitAssumption DEF Counts, Changes

LEMMA PayloadTyped ==
    ASSUME NEW label \in Names, NEW aliases \in SUBSET Names, NEW active \in BOOLEAN
    PROVE  LET load == BuildSkillPayload(label, aliases, active) IN
           load \in Payload /\ load.label = label /\ load.label \notin load.aliases
BY DEF BuildSkillPayload, Payload

LEMMA CreateSkillInv ==
    ASSUME IInv, NEW s \in Slots, CreateSkill(s)
    PROVE  IInv'
<1>1. PICK label \in Names, aliases \in SUBSET Names, active \in BOOLEAN :
         Goes(s, [Idle EXCEPT !.pc = "check",
                              !.load = BuildSkillPayload(label, aliases, active)])
  BY DEF CreateSkill
<1> DEFINE load == BuildSkillPayload(label, aliases, active)
           h == [Idle EXCEPT !.pc = "check", !.load = load]
<1>2. load \in Payload /\ load.label \notin load.aliases
  BY PayloadTyped
<1> HIDE DEF load
<1>3. HandlerType(h) /\ Knows(h, known)
  BY <1>2, IdleTyped DEF HandlerType, Steps, Resolving, Knows
<1>4. Goes(s, h)
  BY <1>1 DEF load
<1> HIDE DEF h
<1>5. known' = known /\ UNCHANGED <<skill, cached, asked, stale, known>> /\ reads' = reads
      /\ changes' \in 0 .. MaxChanges
  BY ChangesTyped DEF CreateSkill, IInv
<1>6. Handlers'
  BY <1>3, <1>4, <1>5, HandlerMoves DEF IInv
<1> QED
  BY <1>5, <1>6, OnlyHandler DEF IInv, Counts

LEMMA UpdateSkillInv ==
    ASSUME IInv, NEW s \in Slots, UpdateSkill(s)
    PROVE  IInv'
<1>1. PICK k \in Live : \E label \in Names, aliases \in SUBSET Names, active \in BOOLEAN :
         Goes(s, [Idle EXCEPT !.pc = "check", !.id = k,
                              !.load = BuildSkillPayload(label, aliases, active)])
  BY DEF UpdateSkill
<1>2. k \in Ids
  BY DEF Live
<1>3. PICK label \in Names, aliases \in SUBSET Names, active \in BOOLEAN :
         Goes(s, [Idle EXCEPT !.pc = "check", !.id = k,
                              !.load = BuildSkillPayload(label, aliases, active)])
  BY <1>1, <1>2
<1> DEFINE load == BuildSkillPayload(label, aliases, active)
           h == [Idle EXCEPT !.pc = "check", !.id = k, !.load = load]
<1>4. load \in Payload /\ load.label \notin load.aliases
  BY PayloadTyped
<1> HIDE DEF load
<1>5. HandlerType(h) /\ Knows(h, known)
  BY <1>2, <1>4, IdleTyped DEF HandlerType, Steps, Resolving, Knows
<1>6. Goes(s, h)
  BY <1>3 DEF load
<1> HIDE DEF h
<1>7. known' = known /\ UNCHANGED <<skill, cached, asked, stale, known>> /\ reads' = reads
      /\ changes' \in 0 .. MaxChanges
  BY ChangesTyped DEF UpdateSkill, IInv
<1>8. Handlers'
  BY <1>5, <1>6, <1>7, HandlerMoves DEF IInv
<1> QED
  BY <1>7, <1>8, OnlyHandler DEF IInv, Counts

LEMMA AssertUniqueSkillInv ==
    ASSUME IInv, NEW s \in Slots, AssertUniqueSkill(s)
    PROVE  IInv'
<1>1. /\ known' = known /\ UNCHANGED <<skill, cached, asked, stale, known>> /\ reads' = reads
      /\ changes' = changes /\ handler[s].pc = "check" /\ (Ends(s) \/ Goto(s, "write"))
  BY DEF AssertUniqueSkill, At
<1>2. CASE Ends(s)
  BY <1>1, <1>2, IdleTyped, HandlerMoves, OnlyHandler DEF Ends, IInv, Counts
<1>3. CASE Goto(s, "write")
  <2>1. PICK h : /\ Goes(s, h) /\ h.pc = "write" /\ DOMAIN h = DOMAIN Idle
                 /\ h.id = handler[s].id /\ h.load = handler[s].load
                 /\ h.user = handler[s].user /\ h.names = handler[s].names
    BY <1>3, GotoFields DEF IInv
  <2>2. HandlerType(h) /\ Knows(h, known)
    BY <1>1, <2>1 DEF IInv, Handlers, HandlerType, Steps, Resolving, Knows
  <2>3. Handlers'
    BY <1>1, <2>1, <2>2, HandlerMoves DEF IInv
  <2> QED
    BY <1>1, <2>3, OnlyHandler DEF IInv, Counts
<1> QED
  BY <1>1, <1>2, <1>3

LEMMA GetCatalogInv ==
    ASSUME IInv, NEW s \in Slots, GetCatalog(s)
    PROVE  IInv'
<1> DEFINE h == [Idle EXCEPT !.pc = "fill catalog", !.view = Catalog]
<1>1. /\ known' = known /\ UNCHANGED <<skill, cached, asked, stale, known>>
      /\ changes' = changes /\ reads' \in 0 .. MaxReads /\ Goes(s, h)
  BY LimitAssumption DEF GetCatalog, IInv, Counts
<1>2. HandlerType(h) /\ Knows(h, known)
  BY IdleTyped DEF HandlerType, Steps, Resolving, Knows
<1> HIDE DEF h
<1>3. Handlers'
  BY <1>1, <1>2, HandlerMoves DEF IInv
<1> QED
  BY <1>1, <1>3, OnlyHandler DEF IInv, Counts

LEMMA SubscribeInv ==
    ASSUME IInv, NEW s \in Slots, Subscribe(s) \/ UpdateSubscription(s)
    PROVE  IInv'
<1>1. PICK u \in Users, names \in SUBSET Names, b \in Subscriptions \cup {None} :
         \/ Goes(s, [Idle EXCEPT !.pc = "map", !.user = u, !.names = names])
         \/ Goes(s, [Idle EXCEPT !.pc = "map", !.id = b, !.user = u, !.names = names])
  BY DEF Subscribe, UpdateSubscription, Held
<1>2. PICK h : /\ Goes(s, h)
               /\ \/ h = [Idle EXCEPT !.pc = "map", !.user = u, !.names = names]
                  \/ h = [Idle EXCEPT !.pc = "map", !.id = b, !.user = u, !.names = names]
  BY <1>1
<1>3. HandlerType(h) /\ Knows(h, known)
  <2>1. /\ h.pc = "map" /\ h.user = u /\ h.names = names /\ h.id \in Subscriptions \cup {None}
        /\ DOMAIN h = DOMAIN Idle
    <3>1. CASE h = [Idle EXCEPT !.pc = "map", !.user = u, !.names = names]
      BY <3>1, IdleTyped
    <3>2. CASE h = [Idle EXCEPT !.pc = "map", !.id = b, !.user = u, !.names = names]
      BY <3>2, IdleTyped
    <3> QED
      BY <1>2, <3>1, <3>2
  <2> QED
    BY <2>1 DEF HandlerType, Steps, Resolving, Knows
<1>4. known' = known /\ UNCHANGED <<skill, cached, asked, stale, known>> /\ reads' = reads
      /\ changes' \in 0 .. MaxChanges
  BY ChangesTyped DEF Subscribe, UpdateSubscription, IInv
<1>5. Handlers'
  BY <1>2, <1>3, <1>4, HandlerMoves DEF IInv
<1> QED
  BY <1>4, <1>5, OnlyHandler DEF IInv, Counts

LEMMA FollowCompanyInv ==
    ASSUME IInv, NEW s \in Slots, FollowCompany(s)
    PROVE  IInv'
<1>1. PICK u \in Users, c \in Companies :
         Goes(s, [Idle EXCEPT !.pc = "follow", !.id = c, !.user = u])
  BY DEF FollowCompany
<1> DEFINE h == [Idle EXCEPT !.pc = "follow", !.id = c, !.user = u]
<1>2. HandlerType(h) /\ Knows(h, known)
  BY IdleTyped DEF HandlerType, Steps, Resolving, Knows
<1>3. Goes(s, h)
  BY <1>1
<1> HIDE DEF h
<1>4. known' = known /\ UNCHANGED <<skill, cached, asked, stale, known>> /\ reads' = reads
      /\ changes' \in 0 .. MaxChanges
  BY ChangesTyped DEF FollowCompany, IInv
<1>5. Handlers'
  BY <1>2, <1>3, <1>4, HandlerMoves DEF IInv
<1> QED
  BY <1>4, <1>5, OnlyHandler DEF IInv, Counts

\* The names of a request become labels.
LEMMA ResolvesTyped ==
    ASSUME Handlers, Counts, known' = known, NEW s \in Slots, NEW map, Leads(map, known),
           handler[s].pc \in Resolving, Resolves(s, map)
    PROVE  Handlers'
<1>1. CASE Ends(s)
  BY <1>1, IdleTyped, HandlerMoves DEF Ends
<1>2. CASE /\ handler[s].names \subseteq DOMAIN map
           /\ Goes(s, [handler[s] EXCEPT !.pc = "save", !.view = None,
                                         !.names = NormalizeControlledSkills(@, map)])
  <2> DEFINE names == NormalizeControlledSkills(handler[s].names, map)
             h == [handler[s] EXCEPT !.pc = "save", !.view = None, !.names = names]
  <2>1. names \subseteq known /\ names \subseteq Names
    BY <1>2 DEF NormalizeControlledSkills, Leads, Counts
  <2>2. DOMAIN handler[s] = {"pc", "id", "load", "user", "names", "view"}
    BY IdleTyped DEF Handlers, HandlerType
  <2>3. Goes(s, h)
    BY <1>2
  <2> HIDE DEF names
  <2>4. /\ h.pc = "save" /\ h.names = names /\ h.id = handler[s].id /\ h.user = handler[s].user
        /\ DOMAIN h = DOMAIN Idle
    BY <2>2, IdleTyped
  <2> HIDE DEF h
  <2>5. HandlerType(h) /\ Knows(h, known)
    BY <2>1, <2>4 DEF Handlers, HandlerType, Steps, Resolving, Knows
  <2> QED
    BY <2>3, <2>5, HandlerMoves
<1> QED
  BY <1>1, <1>2 DEF Resolves

LEMMA AliasMapInv ==
    ASSUME IInv, NEW s \in Slots, GetAliasMap(s) \/ ReadAliasMap(s)
    PROVE  IInv'
<1>1. /\ known' = known /\ UNCHANGED <<skill, cached, asked, stale, known>> /\ reads' = reads
      /\ changes' = changes
  BY DEF GetAliasMap, ReadAliasMap
<1>2. CASE GetAliasMap(s) /\ cached["map"] = None
  <2> DEFINE next == "read map"
  <2>0. Handlers /\ Goto(s, next)
    BY <1>2 DEF IInv, GetAliasMap
  <2> HIDE DEF next
  <2>1. PICK h : /\ Goes(s, h) /\ h.pc = next /\ DOMAIN h = DOMAIN Idle
                 /\ h.id = handler[s].id /\ h.load = handler[s].load
                 /\ h.user = handler[s].user /\ h.names = handler[s].names
                 /\ h.view = handler[s].view
    BY <2>0, GotoFields
  <2>2. HandlerType(h) /\ Knows(h, known)
    BY <1>2, <2>1 DEF next, GetAliasMap, At, IInv, Handlers, HandlerType, Steps, Resolving, Knows
  <2> QED
    BY <1>1, <2>1, <2>2, HandlerMoves, OnlyHandler DEF IInv, Counts
<1>3. CASE GetAliasMap(s) /\ cached["map"] # None
  <2>1. Resolves(s, cached["map"]) /\ handler[s].pc \in Resolving
    BY <1>3 DEF GetAliasMap, At, Resolving
  <2>2. Leads(cached["map"], known)
    BY <1>3 DEF IInv, Knowledge
  <2> QED
    BY <1>1, <2>1, <2>2, ResolvesTyped, OnlyHandler DEF IInv, Counts
<1>4. CASE ReadAliasMap(s)
  <2>0. PICK m \in AliasMaps : Goes(s, [handler[s] EXCEPT !.pc = "fill map", !.view = m])
    BY <1>4 DEF ReadAliasMap
  <2> DEFINE h == [handler[s] EXCEPT !.pc = "fill map", !.view = m]
  <2>1. Leads(m, known)
    BY MapLeads DEF IInv
  <2>2. DOMAIN handler[s] = {"pc", "id", "load", "user", "names", "view"}
        /\ handler[s].pc = "read map" /\ Goes(s, h)
    BY <1>4, <2>0, IdleTyped DEF IInv, Handlers, HandlerType, ReadAliasMap, At
  <2>3. /\ h.pc = "fill map" /\ h.names = handler[s].names /\ h.id = handler[s].id
        /\ h.user = handler[s].user /\ h.view = m /\ DOMAIN h = DOMAIN Idle
    BY <2>2, IdleTyped
  <2> HIDE DEF h
  <2>4. HandlerType(h) /\ Knows(h, known)
    BY <2>1, <2>2, <2>3 DEF IInv, Handlers, HandlerType, Steps, Resolving, Knows
  <2> QED
    BY <1>1, <2>2, <2>4, HandlerMoves, OnlyHandler DEF IInv, Counts
<1> QED
  BY <1>2, <1>3, <1>4

-----------------------------------------------------------------------------
(* Steps that write                                                        *)

\* A handler creates the skill id, or updates it.
WritesTo(s, id) ==
    /\ handler[s].id = None => skill[id].state = "none"
    /\ handler[s].id # None => id = handler[s].id
    /\ skill' = [skill EXCEPT ![id] = handler[s].load]
    /\ known' = known \cup (IF handler[s].load.active THEN {handler[s].load.label} ELSE {})
    /\ Takes(s)

\* It writes, or the skill was removed meanwhile.
LEMMA Written ==
    ASSUME IInv, NEW s \in Slots, SkillWrite(s)
    PROVE  /\ handler[s].pc = "write" /\ handler[s].load \in Payload
           /\ handler[s].load.label \notin handler[s].load.aliases
           /\ \/ UNCHANGED <<skill, known, overlapped>>
              \/ \E id \in Ids : WritesTo(s, id)
<1>1. /\ handler[s].pc = "write" /\ handler[s].load \in Payload
      /\ handler[s].load.label \notin handler[s].load.aliases
  BY DEF SkillWrite, At, IInv, Handlers, HandlerType
<1>2. UNCHANGED <<skill, known, overlapped>> \/ \E id \in Ids : WritesTo(s, id)
  BY DEF SkillWrite, WritesTo
<1> QED
  BY <1>1, <1>2

LEMMA WrittenTo ==
    ASSUME IInv, NEW s \in Slots, handler[s].load \in Payload, NEW id \in Ids, WritesTo(s, id)
    PROVE  /\ skill' \in [Ids -> Document] /\ skill'[id] = handler[s].load
           /\ skill'[id].state = "live" /\ skill'[id].label \in Names
           /\ \A k \in Ids \ {id} : skill'[k] = skill[k]
<1>1. handler[s].load \in Document /\ handler[s].load.state = "live" /\ handler[s].load.label \in Names
  BY DEF Payload, Document
<1> QED
  BY <1>1 DEF WritesTo, IInv, Docs

LEMMA SkillWriteInv ==
    ASSUME IInv, NEW s \in Slots, SkillWrite(s)
    PROVE  IInv' /\ handler'[s].pc = "clear"
               /\ \A t \in Slots \ {s} : handler'[t] = handler[t]
<1>0. UNCHANGED <<cached, asked, stale, changes, reads>> /\ Goto(s, "clear")
  BY DEF SkillWrite
<1>1. known \subseteq known' /\ known' \subseteq Names
  BY Written, WrittenTo DEF WritesTo, Payload, IInv, Counts
<1>2. Docs' /\ \A k \in Offered' : skill'[k].label \in known'
  <2>1. CASE UNCHANGED <<skill, known, overlapped>>
    BY <2>1 DEF IInv, Docs, Knowledge, Offered, Live
  <2>2. ASSUME NEW id \in Ids, WritesTo(s, id)
        PROVE  Docs' /\ \A k \in Offered' : skill'[k].label \in known'
    <3>1. /\ skill' \in [Ids -> Document] /\ skill'[id] = handler[s].load
          /\ skill'[id].label \in Names
          /\ \A k \in Ids \ {id} : skill'[k] = skill[k]
          /\ handler[s].load.label \notin handler[s].load.aliases
      BY <2>2, Written, WrittenTo
    <3>2. Docs'
      BY <3>1 DEF IInv, Docs
    <3>3. ASSUME NEW k \in Offered', k # id
          PROVE  skill'[k].label \in known
      <4>1. k \in Offered /\ skill'[k] = skill[k]
        BY <3>1, <3>3 DEF Offered, Live
      <4> QED
        BY <4>1 DEF IInv, Knowledge
    <3>4. id \in Offered' => skill'[id].label \in known'
      BY <2>2, <3>1 DEF WritesTo, Offered
    <3> QED
      BY <1>1, <3>2, <3>3, <3>4
  <2> QED
    BY <2>1, <2>2, Written
<1>3. Handlers' /\ handler'[s].pc = "clear" /\ \A t \in Slots \ {s} : handler'[t] = handler[t]
  <2>1. PICK h : /\ Goes(s, h) /\ h.pc = "clear" /\ DOMAIN h = DOMAIN Idle
                 /\ h.id = handler[s].id /\ h.load = handler[s].load
                 /\ h.user = handler[s].user /\ h.names = handler[s].names
                 /\ h.view = handler[s].view
    BY <1>0, GotoFields DEF IInv
  <2>2. HandlerType(h) /\ Knows(h, known')
    BY <2>1 DEF IInv, Handlers, HandlerType, Steps, Resolving, Knows
  <2> QED
    BY <1>1, <2>1, <2>2, HandlerMoves DEF IInv
<1>4. Knowledge'
  <2>1. \A b \in Subscriptions : subscription'[b].skills \subseteq known'
    BY <1>0, <1>1 DEF IInv, Knowledge, asked
  <2>2. DOMAIN cached' = Keys /\ (cached'["map"] # None => Leads(cached'["map"], known'))
    BY <1>0, <1>1 DEF IInv, Knowledge, Leads
  <2> QED
    BY <1>2, <2>1, <2>2 DEF Knowledge, Leads
<1>5. Subscribers' /\ Counts'
  BY <1>0, <1>1 DEF IInv, Subscribers, Counts, asked
<1> QED
  BY <1>2, <1>3, <1>4, <1>5 DEF IInv

LEMMA RemoveSkillsInv ==
    ASSUME IInv, NEW s \in Slots, RemoveSkills(s)
    PROVE  IInv' /\ handler'[s].pc = "clear"
               /\ \A t \in Slots \ {s} : handler'[t] = handler[t]
<1> DEFINE h == [Idle EXCEPT !.pc = "clear"]
<1>0. UNCHANGED <<cached, asked, stale, known, reads>> /\ Goes(s, h) /\ Changes
  BY DEF RemoveSkills
<1>1. PICK K \in SUBSET Live :
         skill' = [k \in Ids |-> IF k \in K THEN [skill[k] EXCEPT !.state = "removed"]
                                            ELSE skill[k]]
  BY DEF RemoveSkills
<1>2. \A k \in Ids : skill[k] \in Document
  BY DEF IInv, Docs
<1>3. \A d \in Document : LET e == [d EXCEPT !.state = "removed"] IN
         e \in Document /\ e.state = "removed" /\ e.label = d.label /\ e.aliases = d.aliases
  BY DEF Document
<1>4. /\ skill' \in [Ids -> Document]
      /\ \A k \in Ids : skill'[k] = skill[k]
            \/ /\ skill'[k].state = "removed" /\ skill[k].state = "live"
               /\ skill'[k].label = skill[k].label /\ skill'[k].aliases = skill[k].aliases
  BY <1>1, <1>2, <1>3 DEF Live
<1>5. Docs'
  BY <1>4 DEF IInv, Docs
<1>6. HandlerType(h) /\ Knows(h, known) /\ h.pc = "clear"
  BY IdleTyped DEF HandlerType, Steps, Resolving, Knows
<1> HIDE DEF h
<1>7. Handlers' /\ handler'[s] = h /\ \A t \in Slots \ {s} : handler'[t] = handler[t]
  BY <1>0, <1>6, HandlerMoves DEF IInv
<1>8. Knowledge'
  <2>1. \A k \in Offered' : k \in Offered /\ skill'[k] = skill[k]
    BY <1>4 DEF Offered, Live
  <2> QED
    BY <1>0, <2>1 DEF IInv, Knowledge, Leads, asked
<1>9. Subscribers' /\ Counts'
  BY <1>0, ChangesTyped DEF IInv, Subscribers, Counts, asked
<1> QED
  BY <1>5, <1>6, <1>7, <1>8, <1>9 DEF IInv

LEMMA InvalidateCacheInv ==
    ASSUME IInv, NEW s \in Slots, InvalidateCache(s)
    PROVE  IInv'
<1>0. UNCHANGED <<skill, asked, known, changes, reads>> /\ Goes(s, Idle)
      /\ cached' = [key \in Keys |-> None] /\ stale' \subseteq Keys
  BY DEF InvalidateCache, Ends, Cleared, IInv, Counts
<1>1. Handlers'
  BY <1>0, IdleTyped, HandlerMoves DEF IInv
<1>2. Knowledge'
  BY <1>0 DEF IInv, Knowledge, Offered, Live, Leads, asked, Keys
<1> QED
  BY <1>0, <1>1, <1>2 DEF IInv, Docs, Subscribers, Counts, asked

LEMMA FillInv ==
    ASSUME IInv, NEW s \in Slots, FillCatalog(s) \/ FillAliasMap(s)
    PROVE  IInv'
<1>0. PICK key \in Keys : Fills(key, handler[s].view)
         /\ (key = "map" => handler[s].pc = "fill map")
  BY DEF FillCatalog, FillAliasMap, At, Keys
<1>1. UNCHANGED <<skill, asked, known, changes, reads>>
  BY DEF FillCatalog, FillAliasMap
<1>2. key = "map" => Leads(handler[s].view, known)
  BY <1>0 DEF IInv, Handlers, Knows
<1>3. Knowledge'
  <2>1. DOMAIN cached' = Keys /\ (cached'["map"] # None => Leads(cached'["map"], known))
    BY <1>0, <1>2 DEF Fills, IInv, Knowledge, Keys
  <2> QED
    BY <1>1, <2>1 DEF IInv, Knowledge, Offered, Live, Leads, asked
<1>4. Handlers'
  <2>1. CASE FillCatalog(s)
    BY <1>1, <2>1, IdleTyped, HandlerMoves DEF FillCatalog, Ends, IInv
  <2>2. CASE FillAliasMap(s)
    <3>1. Leads(handler[s].view, known) /\ handler[s].pc \in Resolving
          /\ Resolves(s, handler[s].view)
      BY <2>2 DEF FillAliasMap, At, Resolving, IInv, Handlers, Knows
    <3> QED
      BY <1>1, <3>1, ResolvesTyped DEF IInv
  <2> QED
    BY <2>1, <2>2
<1>5. stale' \subseteq Keys
  BY <1>0 DEF Fills, IInv, Counts
<1> QED
  BY <1>1, <1>3, <1>4, <1>5 DEF IInv, Docs, Subscribers, Counts, asked

LEMMA CacheExpiresInv ==
    ASSUME IInv, CacheExpires
    PROVE  IInv'
<1>1. UNCHANGED <<skill, asked, handler, known, changes, reads>> /\ stale' \subseteq Keys
  BY DEF CacheExpires, IInv, Counts
<1>2. DOMAIN cached' = Keys /\ (cached'["map"] # None => cached'["map"] = cached["map"])
  BY DEF CacheExpires, IInv, Knowledge, Keys
<1>3. Knowledge'
  BY <1>1, <1>2 DEF IInv, Knowledge, Offered, Live, Leads, asked
<1>4. Handlers'
  BY <1>1, HandlersRest DEF IInv
<1> QED
  BY <1>1, <1>3, <1>4 DEF IInv, Docs, Subscribers, Counts, asked

\* A subscription or the companies followed are written.
LEMMA AskedWritten ==
    ASSUME IInv, UNCHANGED <<skill, cached, stale, known, reads>>, changes' \in 0 .. MaxChanges,
           Handlers', Subscribers',
           \A b \in Subscriptions : subscription'[b].skills \subseteq known
    PROVE  IInv'
<1>1. Knowledge'
  BY DEF IInv, Knowledge, Offered, Live, Leads
<1> QED
  BY <1>1 DEF IInv, Docs, Counts

LEMMA SaveInv ==
    ASSUME IInv, NEW s \in Slots, InsertSubscription(s) \/ SaveSubscription(s)
    PROVE  IInv'
<1>0. UNCHANGED <<skill, cached, followed, stale, known, changes, reads>> /\ Goes(s, Idle)
      /\ handler[s].pc = "save"
  BY DEF InsertSubscription, SaveSubscription, Ends, At
<1>1. /\ Asked(handler[s]) \in [state : {"none", "live", "removed"},
                                of : Users \cup {None}, skills : SUBSET Names]
      /\ Asked(handler[s]).skills \subseteq known
  <2>1. /\ handler[s].user \in Users /\ handler[s].names \subseteq Names
        /\ handler[s].names \subseteq known
    BY <1>0 DEF IInv, Handlers, HandlerType, Resolving, Knows
  <2> QED
    BY <2>1 DEF Asked
<1>2. subscription' = subscription
      \/ \E b \in Subscriptions : subscription' = [subscription EXCEPT ![b] = Asked(handler[s])]
  <2>1. CASE InsertSubscription(s)
    BY <2>1 DEF InsertSubscription
  <2>2. CASE SaveSubscription(s)
    BY <2>2 DEF SaveSubscription, Held
  <2> QED
    BY <2>1, <2>2
<1>3. Subscribers' /\ \A b \in Subscriptions : subscription'[b].skills \subseteq known
  BY <1>0, <1>1, <1>2 DEF IInv, Subscribers, Knowledge
<1>4. Handlers'
  BY <1>0, IdleTyped, HandlerMoves DEF IInv
<1> QED
  BY <1>0, <1>3, <1>4, AskedWritten DEF IInv, Counts

LEMMA UnsubscribeInv ==
    ASSUME IInv, Unsubscribe
    PROVE  IInv'
<1>0. UNCHANGED <<skill, cached, followed, handler, stale, known, reads>>
      /\ changes' \in 0 .. MaxChanges
  BY ChangesTyped DEF Unsubscribe, IInv
<1>1. PICK b \in Subscriptions : subscription' = [subscription EXCEPT ![b].state = "removed"]
  BY DEF Unsubscribe, Held
<1>2. Subscribers' /\ \A c \in Subscriptions : subscription'[c].skills \subseteq known
  BY <1>0, <1>1 DEF IInv, Subscribers, Knowledge
<1>3. Handlers'
  BY <1>0, HandlersRest DEF IInv
<1> QED
  BY <1>0, <1>2, <1>3, AskedWritten DEF IInv

LEMMA FollowInv ==
    ASSUME IInv, UnfollowCompany \/ \E s \in Slots : AddFollowedCompany(s)
    PROVE  IInv'
<1>0. UNCHANGED <<skill, cached, subscription, stale, known, reads>>
      /\ changes' \in 0 .. MaxChanges
  BY ChangesTyped DEF UnfollowCompany, AddFollowedCompany, IInv, Counts
<1>1. Handlers' /\ followed' \in [Users -> SUBSET Companies]
  <2>1. CASE UnfollowCompany
    <3>1. followed' \in [Users -> SUBSET Companies]
      BY <2>1 DEF UnfollowCompany, IInv, Subscribers
    <3> QED
      BY <1>0, <2>1, <3>1, HandlersRest DEF UnfollowCompany, IInv
  <2>2. ASSUME NEW s \in Slots, AddFollowedCompany(s)
        PROVE  Handlers' /\ followed' \in [Users -> SUBSET Companies]
    <3>1. handler[s].user \in Users /\ handler[s].id \in Companies /\ Goes(s, Idle)
      BY <2>2 DEF AddFollowedCompany, At, Ends, IInv, Handlers, HandlerType
    <3>2. followed' \in [Users -> SUBSET Companies]
      BY <2>2, <3>1 DEF AddFollowedCompany, IInv, Subscribers
    <3> QED
      BY <1>0, <3>1, <3>2, IdleTyped, HandlerMoves DEF IInv
  <2> QED
    BY <2>1, <2>2
<1> QED
  BY <1>0, <1>1, AskedWritten DEF IInv, Subscribers, Knowledge

-----------------------------------------------------------------------------
LEMMA InitInv == Init => IInv
<1> SUFFICES ASSUME Init
             PROVE  IInv
  OBVIOUS
<1>1. Docs
  BY DEF Init, Docs, Document, NoSkill
<1>2. Handlers
  BY IdleTyped DEF Init, Handlers
<1>3. Subscribers
  BY DEF Init, Subscribers, NoSubscription
<1>4. Knowledge
  BY DEF Init, Knowledge, Offered, Live, NoSkill, NoSubscription, Keys
<1>5. Counts
  BY LimitAssumption DEF Init, Counts
<1> QED
  BY <1>1, <1>2, <1>3, <1>4, <1>5 DEF IInv

LEMMA NextInv == IInv /\ [Next]_vars => IInv'
<1> SUFFICES ASSUME IInv, [Next]_vars
             PROVE  IInv'
  OBVIOUS
<1>1. ASSUME NEW s \in Slots, SkillSteps(s)
      PROVE  IInv'
  BY <1>1, CreateSkillInv, UpdateSkillInv, AssertUniqueSkillInv, SkillWriteInv,
     RemoveSkillsInv, InvalidateCacheInv, GetCatalogInv, FillInv DEF SkillSteps
<1>2. ASSUME NEW s \in Slots, AskingSteps(s)
      PROVE  IInv'
  BY <1>2, AliasMapInv, FillInv, SubscribeInv, SaveInv, FollowCompanyInv, FollowInv
     DEF AskingSteps
<1>3. CASE Unsubscribe \/ UnfollowCompany \/ CacheExpires
  BY <1>3, UnsubscribeInv, FollowInv, CacheExpiresInv
<1>4. CASE UNCHANGED vars
  <2>1. UNCHANGED <<skill, cached, asked, stale, known, changes, reads, handler>>
    BY <1>4 DEF vars, asked
  <2>2. Handlers'
    BY <2>1, HandlersRest DEF IInv
  <2> QED
    BY <2>1, <2>2, OnlyHandler DEF IInv, Counts
<1> QED
  BY <1>1, <1>2, <1>3, <1>4 DEF Next

\* Every variable keeps its type (Catalogue.TypeOK): a handler that waits holds what it will
\* write, and a cached map leads from names.
THEOREM CatalogueTyped == Spec => []TypeOK
<1>1. IInv => TypeOK
  BY DEF IInv, TypeOK, Docs, Handlers, Subscribers, Knowledge, Counts, Leads
<1> QED
  BY <1>1, InitInv, NextInv, PTL DEF Spec

\* A subscription asks for labels that active skills have borne, however old the map was
\* (user-subscriptions.service.ts through skills.service.ts normalizeControlledSkills).
THEOREM LabelsAreSubscribed == Spec => []SubscribedToLabels
<1>1. IInv => SubscribedToLabels
  BY DEF IInv, Knowledge, SubscribedToLabels
<1> QED
  BY <1>1, InitInv, NextInv, PTL DEF Spec

-----------------------------------------------------------------------------
(* Which handler moves                                                     *)

LEMMA GotoGoes ==
    ASSUME NEW s \in Slots, NEW pc, Goto(s, pc)
    PROVE  Goes(s, [handler[s] EXCEPT !.pc = pc])
BY DEF Goto, Goes

LEMMA GoesOthers ==
    ASSUME IInv, NEW s \in Slots, NEW h, Goes(s, h)
    PROVE  /\ DOMAIN handler' = Slots
           /\ handler'[s] = h /\ \A t \in Slots \ {s} : handler'[t] = handler[t]
BY DEF Goes, IInv, Handlers

LEMMA OneMoves ==
    ASSUME IInv, NEW s \in Slots, SkillSteps(s) \/ AskingSteps(s)
    PROVE  \A t \in Slots \ {s} : handler'[t] = handler[t]
<1>0. ASSUME NEW map, Resolves(s, map)
      PROVE  \E h : Goes(s, h)
  BY <1>0 DEF Resolves, Ends
<1>1. \E h : Goes(s, h)
  <2>1. CASE CreateSkill(s) \/ UpdateSkill(s) \/ RemoveSkills(s) \/ GetCatalog(s)
    BY <2>1 DEF CreateSkill, UpdateSkill, RemoveSkills, GetCatalog
  <2>2. CASE AssertUniqueSkill(s) \/ SkillWrite(s)
    BY <2>2, GotoGoes DEF AssertUniqueSkill, SkillWrite, Ends
  <2>3. CASE InvalidateCache(s) \/ FillCatalog(s) \/ InsertSubscription(s)
             \/ SaveSubscription(s) \/ AddFollowedCompany(s)
    BY <2>3 DEF InvalidateCache, FillCatalog, InsertSubscription, SaveSubscription,
                AddFollowedCompany, Ends
  <2>4. CASE GetAliasMap(s)
    <3>1. CASE cached["map"] = None
      <4> DEFINE next == "read map"
      <4>1. Goto(s, next)
        BY <2>4, <3>1 DEF GetAliasMap
      <4> HIDE DEF next
      <4> QED
        BY <4>1, GotoGoes
    <3>2. CASE cached["map"] # None
      BY <1>0, <2>4, <3>2 DEF GetAliasMap
    <3> QED
      BY <3>1, <3>2
  <2>5. CASE ReadAliasMap(s) \/ FillAliasMap(s)
    BY <1>0, <2>5 DEF ReadAliasMap, FillAliasMap
  <2>6. CASE Subscribe(s) \/ UpdateSubscription(s) \/ FollowCompany(s)
    BY <2>6 DEF Subscribe, UpdateSubscription, FollowCompany
  <2> QED
    BY <2>1, <2>2, <2>3, <2>4, <2>5, <2>6 DEF SkillSteps, AskingSteps
<1> QED
  BY <1>1, GoesOthers

-----------------------------------------------------------------------------
(* What a handler waits for next                                           *)

LEMMA After ==
    ASSUME IInv, NEW s \in Slots
    PROVE  /\ CreateSkill(s) \/ UpdateSkill(s) => handler'[s].pc = "check"
           /\ RemoveSkills(s) \/ SkillWrite(s) => handler'[s].pc = "clear"
           /\ GetCatalog(s) => handler'[s].pc = "fill catalog"
           /\ InvalidateCache(s) \/ FillCatalog(s) \/ InsertSubscription(s)
                 \/ SaveSubscription(s) \/ AddFollowedCompany(s) => handler'[s] = Idle
           /\ Subscribe(s) => /\ handler'[s].pc = "map"
                              /\ \E u \in Users : MaySubscribe(u) /\ handler'[s].user = u
           /\ UpdateSubscription(s) => handler'[s].pc = "map" /\ handler'[s].id # None
           /\ FollowCompany(s) => /\ handler'[s].pc = "follow"
                                  /\ \E u \in Users : /\ Cardinality(followed[u]) < FollowLimit
                                                      /\ handler'[s].user = u
<1>0. DOMAIN Idle = {"pc", "id", "load", "user", "names", "view"}
  BY IdleTyped
<1>1. CreateSkill(s) \/ UpdateSkill(s) => handler'[s].pc = "check"
  <2>1. CASE CreateSkill(s)
    <3>1. PICK load : Goes(s, [Idle EXCEPT !.pc = "check", !.load = load])
      BY <2>1 DEF CreateSkill
    <3>2. handler'[s] = [Idle EXCEPT !.pc = "check", !.load = load]
      BY <3>1 DEF Goes, IInv, Handlers
    <3> QED
      BY <1>0, <3>2
  <2>2. CASE UpdateSkill(s)
    <3>1. PICK k, load : Goes(s, [Idle EXCEPT !.pc = "check", !.id = k, !.load = load])
      BY <2>2 DEF UpdateSkill
    <3>2. handler'[s] = [Idle EXCEPT !.pc = "check", !.id = k, !.load = load]
      BY <3>1 DEF Goes, IInv, Handlers
    <3> QED
      BY <1>0, <3>2
  <2> QED
    BY <2>1, <2>2
<1>2. RemoveSkills(s) \/ SkillWrite(s) => handler'[s].pc = "clear"
  BY RemoveSkillsInv, SkillWriteInv
<1>3. GetCatalog(s) => handler'[s].pc = "fill catalog"
  <2> DEFINE h == [Idle EXCEPT !.pc = "fill catalog", !.view = Catalog]
  <2>1. h.pc = "fill catalog"
    BY <1>0
  <2>2. GetCatalog(s) => handler'[s] = h
    BY DEF GetCatalog, Goes, IInv, Handlers
  <2> HIDE DEF h
  <2> QED
    BY <2>1, <2>2
<1>4. InvalidateCache(s) \/ FillCatalog(s) \/ InsertSubscription(s)
         \/ SaveSubscription(s) \/ AddFollowedCompany(s) => handler'[s] = Idle
  BY DEF InvalidateCache, FillCatalog, InsertSubscription, SaveSubscription,
         AddFollowedCompany, Ends, Goes, IInv, Handlers
<1>5. Subscribe(s) => /\ handler'[s].pc = "map"
                      /\ \E u \in Users : MaySubscribe(u) /\ handler'[s].user = u
  <2> SUFFICES ASSUME Subscribe(s)
               PROVE  /\ handler'[s].pc = "map"
                      /\ \E u \in Users : MaySubscribe(u) /\ handler'[s].user = u
    OBVIOUS
  <2>1. PICK u \in Users, names \in SUBSET Names :
           MaySubscribe(u) /\ Goes(s, [Idle EXCEPT !.pc = "map", !.user = u, !.names = names])
    BY DEF Subscribe
  <2>2. handler'[s] = [Idle EXCEPT !.pc = "map", !.user = u, !.names = names]
    BY <2>1 DEF Goes, IInv, Handlers
  <2>3. handler'[s].pc = "map" /\ handler'[s].user = u
    BY <1>0, <2>2
  <2> QED
    BY <2>1, <2>3
<1>6. UpdateSubscription(s) => handler'[s].pc = "map" /\ handler'[s].id # None
  <2> SUFFICES ASSUME UpdateSubscription(s)
               PROVE  handler'[s].pc = "map" /\ handler'[s].id # None
    OBVIOUS
  <2>1. PICK u \in Users, names \in SUBSET Names, b \in Subscriptions :
           Goes(s, [Idle EXCEPT !.pc = "map", !.id = b, !.user = u, !.names = names])
    BY DEF UpdateSubscription, Held
  <2>2. handler'[s] = [Idle EXCEPT !.pc = "map", !.id = b, !.user = u, !.names = names]
    BY <2>1 DEF Goes, IInv, Handlers
  <2> QED
    BY <1>0, <2>2, NoneAssumption
<1>7. FollowCompany(s) => /\ handler'[s].pc = "follow"
                          /\ \E u \in Users : /\ Cardinality(followed[u]) < FollowLimit
                                              /\ handler'[s].user = u
  <2> SUFFICES ASSUME FollowCompany(s)
               PROVE  /\ handler'[s].pc = "follow"
                      /\ \E u \in Users : /\ Cardinality(followed[u]) < FollowLimit
                                          /\ handler'[s].user = u
    OBVIOUS
  <2>1. PICK u \in Users, c \in Companies :
           /\ Cardinality(followed[u]) < FollowLimit
           /\ Goes(s, [Idle EXCEPT !.pc = "follow", !.id = c, !.user = u])
    BY DEF FollowCompany
  <2>2. handler'[s] = [Idle EXCEPT !.pc = "follow", !.id = c, !.user = u]
    BY <2>1 DEF Goes, IInv, Handlers
  <2>3. handler'[s].pc = "follow" /\ handler'[s].user = u
    BY <1>0, <2>2
  <2> QED
    BY <2>1, <2>3
<1> QED
  BY <1>1, <1>2, <1>3, <1>4, <1>5, <1>6, <1>7

\* While names are resolved the handler keeps its user and its subscription.
LEMMA ResolvingAfter ==
    ASSUME IInv, NEW s \in Slots, GetAliasMap(s) \/ ReadAliasMap(s) \/ FillAliasMap(s)
    PROVE  /\ handler[s].pc \in Resolving
           /\ \/ handler'[s] = Idle
              \/ /\ handler'[s].pc \in Resolving
                 /\ handler'[s].id = handler[s].id /\ handler'[s].user = handler[s].user
<1>0. DOMAIN handler[s] = {"pc", "id", "load", "user", "names", "view"} /\ DOMAIN handler = Slots
  BY IdleTyped DEF IInv, Handlers, HandlerType
<1>1. ASSUME NEW map, Resolves(s, map)
      PROVE  \/ handler'[s] = Idle
             \/ /\ handler'[s].pc \in Resolving
                /\ handler'[s].id = handler[s].id /\ handler'[s].user = handler[s].user
  <2>1. CASE Ends(s)
    BY <1>0, <2>1 DEF Ends, Goes
  <2>2. CASE ~Ends(s)
    <3>1. PICK names : Goes(s, [handler[s] EXCEPT !.pc = "save", !.view = None, !.names = names])
      BY <1>1, <2>2 DEF Resolves
    <3>2. handler'[s] = [handler[s] EXCEPT !.pc = "save", !.view = None, !.names = names]
      BY <1>0, <3>1 DEF Goes
    <3> QED
      BY <1>0, <3>2 DEF Resolving
  <2> QED
    BY <2>1, <2>2
<1>2. CASE GetAliasMap(s)
  <2>1. CASE cached["map"] = None
    <3> DEFINE next == "read map"
    <3>0. Goto(s, next) /\ next \in Resolving
      BY <1>2, <2>1 DEF GetAliasMap, Resolving
    <3> HIDE DEF next
    <3>1. handler'[s] = [handler[s] EXCEPT !.pc = next]
      BY <1>0, <3>0 DEF Goto
    <3> QED
      BY <1>0, <1>2, <3>0, <3>1 DEF GetAliasMap, At, Resolving
  <2>2. CASE cached["map"] # None
    BY <1>1, <1>2, <2>2 DEF GetAliasMap, At, Resolving
  <2> QED
    BY <2>1, <2>2
<1>3. CASE ReadAliasMap(s)
  <2>1. PICK m : handler'[s] = [handler[s] EXCEPT !.pc = "fill map", !.view = m]
    BY <1>0, <1>3 DEF ReadAliasMap, Goes
  <2>2. handler[s].pc \in Resolving
    BY <1>3 DEF ReadAliasMap, At, Resolving
  <2>3. /\ handler'[s].pc = "fill map" /\ handler'[s].id = handler[s].id
        /\ handler'[s].user = handler[s].user
    BY <1>0, <2>1
  <2> QED
    BY <2>2, <2>3 DEF Resolving
<1>4. CASE FillAliasMap(s)
  BY <1>1, <1>4 DEF FillAliasMap, At, Resolving
<1> QED
  BY <1>2, <1>3, <1>4

LEMMA AssertAfter ==
    ASSUME IInv, NEW s \in Slots, AssertUniqueSkill(s)
    PROVE  \/ handler'[s] = Idle
           \/ /\ handler'[s].pc = "write"
              /\ handler'[s].id = handler[s].id /\ handler'[s].load = handler[s].load
              /\ ~Taken(handler[s].load.label, handler[s].id)
<1>0. DOMAIN handler[s] = {"pc", "id", "load", "user", "names", "view"} /\ DOMAIN handler = Slots
  BY IdleTyped DEF IInv, Handlers, HandlerType
<1>1. CASE Taken(handler[s].load.label, handler[s].id)
  BY <1>0, <1>1 DEF AssertUniqueSkill, Ends, Goes
<1>2. CASE ~Taken(handler[s].load.label, handler[s].id)
  <2>1. handler'[s] = [handler[s] EXCEPT !.pc = "write"]
    BY <1>0, <1>2 DEF AssertUniqueSkill, Goto
  <2> QED
    BY <1>0, <1>2, <2>1
<1> QED
  BY <1>1, <1>2

-----------------------------------------------------------------------------
(* Labels that are taken twice                                             *)

LabelInv ==
    /\ \A k, l \in Live : k # l /\ skill[k].label = skill[l].label =>
          <<"label", skill[k].label>> \in overlapped
    /\ \A s \in Slots :
          At(s, "write") /\ Taken(handler[s].load.label, handler[s].id) =>
              <<"label", handler[s].load.label>> \in overlapped

LEMMA Overlapping ==
    ASSUME Next
    PROVE  overlapped \subseteq overlapped'
<1>1. ASSUME NEW s \in Slots, SkillSteps(s) \/ AskingSteps(s)
      PROVE  overlapped \subseteq overlapped'
  <2>1. Takes(s) \/ overlapped' = overlapped
    BY <1>1 DEF SkillSteps, AskingSteps, CreateSkill, UpdateSkill, AssertUniqueSkill, SkillWrite,
       RemoveSkills, InvalidateCache, GetCatalog, FillCatalog, GetAliasMap, ReadAliasMap,
       FillAliasMap, Subscribe, UpdateSubscription, InsertSubscription, SaveSubscription,
       FollowCompany, AddFollowedCompany
  <2> QED
    BY <2>1 DEF Takes
<1> QED
  BY <1>1 DEF Next, Unsubscribe, UnfollowCompany, CacheExpires

\* No skill gets a label.
LEMMA LabelsRest ==
    ASSUME LabelInv, overlapped \subseteq overlapped',
           \A k \in Live' : k \in Live /\ skill'[k].label = skill[k].label,
           \A t \in Slots : At(t, "write")' =>
              \/ handler'[t] = handler[t]
              \/ ~Taken(handler'[t].load.label, handler'[t].id)
    PROVE  LabelInv'
<1>0. Live' = {k \in Ids : skill'[k].state = "live"}
  BY DEF Live
<1>1. \A label, id : Taken(label, id)' => Taken(label, id)
  BY DEF Taken
<1>2. \A k, l \in Live' : k # l /\ skill'[k].label = skill'[l].label =>
         <<"label", skill'[k].label>> \in overlapped'
  BY DEF LabelInv
<1>3. ASSUME NEW t \in Slots, At(t, "write")', Taken(handler[t].load.label, handler[t].id)'
      PROVE  <<"label", handler'[t].load.label>> \in overlapped'
  <2>1. Taken(handler'[t].load.label, handler'[t].id)
    BY <1>3 DEF Taken
  <2>2. handler'[t] = handler[t]
    BY <1>3, <2>1
  <2> QED
    BY <1>3, <2>1, <2>2 DEF LabelInv, At
<1> QED
  BY <1>2, <1>3 DEF LabelInv

LEMMA WriteLabels ==
    ASSUME IInv, LabelInv, NEW s \in Slots, SkillWrite(s), overlapped \subseteq overlapped',
           NEW id \in Ids, WritesTo(s, id)
    PROVE  LabelInv'
<1> DEFINE label == handler[s].load.label
           claim == <<"label", label>>
<1>1. /\ handler[s].pc = "write"
      /\ handler[s].id = None => skill[id].state = "none"
      /\ handler[s].id # None => id = handler[s].id
      /\ \A k \in Ids \ {id} : skill'[k] = skill[k]
      /\ skill'[id].label = label
  BY Written, WrittenTo DEF WritesTo
<1>2. \A t \in Slots \ {s} : handler'[t] = handler[t]
  BY SkillWriteInv
<1>3. handler'[s].pc = "clear"
  BY SkillWriteInv
<1>4. ASSUME NEW l \in Live, l # id, skill[l].label = label
      PROVE  claim \in overlapped'
  <2>1. l # handler[s].id
    BY <1>1, <1>4, NoneAssumption DEF Live
  <2>2. Taken(label, handler[s].id)
    BY <1>4, <2>1 DEF Taken
  <2> QED
    BY <1>1, <2>2 DEF LabelInv, At
<1>5. ASSUME NEW k \in Live', NEW l \in Live', k # l, skill'[k].label = skill'[l].label
      PROVE  <<"label", skill'[k].label>> \in overlapped'
  <2>0. k \in Ids /\ l \in Ids /\ skill'[k].state = "live" /\ skill'[l].state = "live"
    BY DEF Live
  <2>1. CASE k = id
    <3>1. l \in Live /\ skill'[l] = skill[l]
      BY <1>1, <1>5, <2>0, <2>1 DEF Live
    <3> QED
      BY <1>1, <1>4, <1>5, <2>1, <3>1
  <2>2. CASE l = id
    <3>1. k \in Live /\ skill'[k] = skill[k]
      BY <1>1, <1>5, <2>0, <2>2 DEF Live
    <3> QED
      BY <1>1, <1>4, <1>5, <2>2, <3>1
  <2>3. CASE k # id /\ l # id
    <3>1. k \in Live /\ skill'[k] = skill[k] /\ l \in Live /\ skill'[l] = skill[l]
      BY <1>1, <2>0, <2>3 DEF Live
    <3> QED
      BY <1>5, <3>1 DEF LabelInv
  <2> QED
    BY <2>1, <2>2, <2>3
<1>6. ASSUME NEW t \in Slots, At(t, "write")', Taken(handler[t].load.label, handler[t].id)'
      PROVE  <<"label", handler'[t].load.label>> \in overlapped'
  <2>1. t # s
    BY <1>3, <1>6 DEF At
  <2>2. handler'[t] = handler[t] /\ handler[t].pc = "write"
    BY <1>2, <1>6, <2>1 DEF At
  <2>3. PICK l \in Live' \ {handler[t].id} : skill'[l].label = handler[t].load.label
    BY <1>6, <2>2 DEF Taken
  <2>4. CASE l = id
    <3>1. Claim(t) = <<"label", handler[t].load.label>> /\ Claim(s) = claim
      BY <1>1, <2>2 DEF Claim, At
    <3>2. Claim(t) = Claim(s)
      BY <1>1, <2>3, <2>4, <3>1
    <3>3. Claim(s) \in overlapped'
      BY <2>1, <3>2 DEF WritesTo, Takes
    <3> QED
      BY <2>2, <3>1, <3>2, <3>3
  <2>5. CASE l # id
    <3>1. l \in Live /\ skill'[l] = skill[l]
      BY <1>1, <2>5 DEF Live
    <3>2. Taken(handler[t].load.label, handler[t].id)
      BY <2>3, <3>1 DEF Taken
    <3> QED
      BY <2>2, <3>2 DEF LabelInv, At
  <2> QED
    BY <2>4, <2>5
<1> QED
  BY <1>5, <1>6 DEF LabelInv

LEMMA NextLabels == IInv /\ LabelInv /\ [Next]_vars => LabelInv'
<1> SUFFICES ASSUME IInv, LabelInv, [Next]_vars
             PROVE  LabelInv'
  OBVIOUS
<1>0. ASSUME skill' = skill
      PROVE  \A k \in Live' : k \in Live /\ skill'[k].label = skill[k].label
  BY <1>0 DEF Live
<1>1. CASE UNCHANGED vars
  BY <1>0, <1>1, LabelsRest DEF vars
<1>2. CASE Unsubscribe \/ UnfollowCompany \/ CacheExpires
  BY <1>0, <1>2, LabelsRest DEF Unsubscribe, UnfollowCompany, CacheExpires
<1>3. ASSUME NEW s \in Slots, SkillWrite(s)
      PROVE  LabelInv'
  <2>1. overlapped \subseteq overlapped'
    BY <1>3, Overlapping DEF Next, SkillSteps
  <2>2. CASE UNCHANGED <<skill, known, overlapped>>
    <3>1. \A t \in Slots : At(t, "write")' => handler'[t] = handler[t]
      BY <1>3, SkillWriteInv DEF At
    <3> QED
      BY <1>0, <2>1, <2>2, <3>1, LabelsRest
  <2> QED
    BY <1>3, <2>1, <2>2, Written, WriteLabels
<1>4. ASSUME NEW s \in Slots, RemoveSkills(s)
      PROVE  LabelInv'
  <2>1. \A k \in Live' : k \in Live /\ skill'[k].label = skill[k].label
    BY <1>4 DEF RemoveSkills, Live
  <2>2. /\ handler'[s].pc = "clear" /\ overlapped' = overlapped
        /\ \A t \in Slots \ {s} : handler'[t] = handler[t]
    BY <1>4, RemoveSkillsInv DEF RemoveSkills
  <2>3. \A t \in Slots : At(t, "write")' => handler'[t] = handler[t]
    BY <2>2 DEF At
  <2> QED
    BY <2>1, <2>2, <2>3, LabelsRest
<1>5. ASSUME NEW s \in Slots, skill' = skill, SkillSteps(s) \/ AskingSteps(s),
             handler'[s].pc = "write" =>
                ~Taken(handler'[s].load.label, handler'[s].id)
      PROVE  LabelInv'
  <2>1. overlapped \subseteq overlapped'
    BY <1>5, Overlapping DEF Next
  <2>2. \A t \in Slots : At(t, "write")' =>
           handler'[t] = handler[t] \/ ~Taken(handler'[t].load.label, handler'[t].id)
    BY <1>5, OneMoves DEF At
  <2> QED
    BY <1>0, <1>5, <2>1, <2>2, LabelsRest
<1>6. ASSUME NEW s \in Slots, AssertUniqueSkill(s)
      PROVE  LabelInv'
  <2>1. handler'[s].pc = "write" => ~Taken(handler'[s].load.label, handler'[s].id)
    BY <1>6, AssertAfter, IdleTyped
  <2>2. skill' = skill /\ SkillSteps(s)
    BY <1>6 DEF AssertUniqueSkill, SkillSteps
  <2> QED
    BY <1>5, <2>1, <2>2
<1>7. ASSUME NEW s \in Slots,
             \/ CreateSkill(s) \/ UpdateSkill(s) \/ GetCatalog(s)
             \/ InvalidateCache(s) \/ FillCatalog(s)
      PROVE  LabelInv'
  <2>1. skill' = skill /\ SkillSteps(s)
    BY <1>7 DEF CreateSkill, UpdateSkill, GetCatalog, InvalidateCache, FillCatalog, SkillSteps
  <2>2. handler'[s].pc # "write"
    BY <1>7, After, IdleTyped
  <2> QED
    BY <1>5, <2>1, <2>2
<1>8. ASSUME NEW s \in Slots,
             \/ GetAliasMap(s) \/ ReadAliasMap(s) \/ FillAliasMap(s) \/ Subscribe(s)
             \/ UpdateSubscription(s) \/ InsertSubscription(s) \/ SaveSubscription(s)
             \/ FollowCompany(s) \/ AddFollowedCompany(s)
      PROVE  LabelInv'
  <2>1. skill' = skill /\ AskingSteps(s)
    BY <1>8 DEF GetAliasMap, ReadAliasMap, FillAliasMap, Subscribe, UpdateSubscription,
                InsertSubscription, SaveSubscription, FollowCompany, AddFollowedCompany,
                AskingSteps
  <2>2. handler'[s].pc # "write"
    BY <1>8, After, ResolvingAfter, IdleTyped DEF Resolving
  <2> QED
    BY <1>5, <2>1, <2>2
<1> QED
  BY <1>1, <1>2, <1>3, <1>4, <1>6, <1>7, <1>8 DEF Next, SkillSteps, AskingSteps

-----------------------------------------------------------------------------
(* Subscriptions beyond the limit                                          *)

\* A handler has found room for one more subscription of u and not taken it.
Asking(h, u) == h.pc \in Resolving /\ h.id = None /\ h.user = u

HeldInv ==
    \A u \in Users :
        /\ Cardinality(Held(u)) > Limit => <<"subscribe", u>> \in overlapped
        /\ \A s \in Slots : Asking(handler[s], u) /\ Cardinality(Held(u)) >= Limit =>
              <<"subscribe", u>> \in overlapped

LEMMA HeldFinite ==
    ASSUME NEW u
    PROVE  /\ IsFiniteSet(Held(u)) /\ Cardinality(Held(u)) \in Nat
           /\ IsFiniteSet(Held(u)') /\ Cardinality(Held(u)') \in Nat
<1>1. Held(u) \subseteq Subscriptions /\ Held(u)' \subseteq Subscriptions
  BY DEF Held
<1> QED
  BY <1>1, LimitAssumption, FS_Subset, FS_CardinalityType

\* Nobody gets a subscription.
LEMMA HeldRest ==
    ASSUME HeldInv, overlapped \subseteq overlapped',
           \A u \in Users : Held(u)' \subseteq Held(u),
           \A t \in Slots : \A u \in Users : Asking(handler'[t], u) =>
              Asking(handler[t], u) \/ Cardinality(Held(u)) < Limit
    PROVE  HeldInv'
<1> SUFFICES ASSUME NEW u \in Users
             PROVE  /\ Cardinality(Held(u)') > Limit => <<"subscribe", u>> \in overlapped'
                    /\ \A s \in Slots : Asking(handler'[s], u) /\ Cardinality(Held(u)') >= Limit =>
                          <<"subscribe", u>> \in overlapped'
  BY DEF HeldInv, Asking
<1>1. /\ Cardinality(Held(u)) \in Nat /\ Cardinality(Held(u)') \in Nat
      /\ Cardinality(Held(u)') <= Cardinality(Held(u))
  <2>1. Held(u)' \subseteq Held(u)
    OBVIOUS
  <2> QED
    BY <2>1, HeldFinite, FS_Subset
<1>2. Limit \in Nat
  BY LimitAssumption
<1>3. Cardinality(Held(u)') > Limit => <<"subscribe", u>> \in overlapped'
  BY <1>1, <1>2 DEF HeldInv
<1>4. ASSUME NEW s \in Slots, Asking(handler'[s], u), Cardinality(Held(u)') >= Limit
      PROVE  <<"subscribe", u>> \in overlapped'
  <2>1. Cardinality(Held(u)) >= Limit /\ ~(Cardinality(Held(u)) < Limit)
    BY <1>1, <1>2, <1>4
  <2>2. Asking(handler[s], u)
    BY <1>4, <2>1
  <2> QED
    BY <2>1, <2>2 DEF HeldInv
<1> QED
  BY <1>3, <1>4

LEMMA InsertHeld ==
    ASSUME IInv, HeldInv, NEW s \in Slots, InsertSubscription(s), overlapped \subseteq overlapped'
    PROVE  HeldInv'
<1>0. handler[s].user \in Users
  BY DEF InsertSubscription, At, IInv, Handlers, HandlerType, Resolving
<1>v. PICK v \in Users : v = handler[s].user
  BY <1>0
<1> DEFINE claim == <<"subscribe", v>>
<1>1. handler[s].pc = "save" /\ handler[s].id = None
  BY DEF InsertSubscription, At
<1>2. PICK b \in Subscriptions : subscription[b].state = "none"
         /\ subscription' = [subscription EXCEPT ![b] = Asked(handler[s])]
  BY DEF InsertSubscription
<1>3. /\ subscription'[b].state = "live" /\ subscription'[b].of = v
      /\ \A c \in Subscriptions \ {b} : subscription'[c] = subscription[c]
  BY <1>2, <1>v DEF IInv, Subscribers, Asked
<1>4. /\ Held(v)' = Held(v) \cup {b} /\ b \notin Held(v)
      /\ \A u \in Users \ {v} : Held(u)' = Held(u)
  BY <1>2, <1>3 DEF Held
<1>5. /\ Cardinality(Held(v)') = Cardinality(Held(v)) + 1
      /\ Cardinality(Held(v)) \in Nat
  BY <1>4, HeldFinite, FS_AddElement
<1>6. handler'[s] = Idle /\ \A t \in Slots \ {s} : handler'[t] = handler[t]
  BY OneMoves, After DEF AskingSteps
<1>7. Limit \in Nat
  BY LimitAssumption
<1>8. ASSUME NEW t \in Slots, NEW u \in Users, Asking(handler'[t], u)
      PROVE  t # s /\ handler'[t] = handler[t]
  BY <1>6, <1>8, IdleTyped DEF Asking, Resolving
<1>9. Cardinality(Held(v)') > Limit => claim \in overlapped'
  <2>1. Asking(handler[s], v)
    BY <1>1, <1>v DEF Asking, Resolving
  <2>2. Cardinality(Held(v)') > Limit => Cardinality(Held(v)) >= Limit
    BY <1>5, <1>7
  <2> QED
    BY <1>1, <2>1, <2>2 DEF HeldInv
<1>10. ASSUME NEW t \in Slots, Asking(handler'[t], v)
       PROVE  claim \in overlapped'
  <2>1. t # s /\ Asking(handler[t], v)
    BY <1>1, <1>8, <1>10
  <2>2. Claim(t) = claim /\ Claim(s) = claim
    BY <1>1, <1>v, <2>1 DEF Claim, At, Asking, Resolving
  <2> QED
    BY <2>1, <2>2 DEF InsertSubscription, Takes
<1>11. ASSUME NEW u \in Users \ {v}
       PROVE  /\ Cardinality(Held(u)') > Limit => <<"subscribe", u>> \in overlapped'
              /\ \A t \in Slots : Asking(handler'[t], u) /\ Cardinality(Held(u)') >= Limit =>
                    <<"subscribe", u>> \in overlapped'
  <2>1. Held(u)' = Held(u)
    BY <1>4
  <2>2. \A t \in Slots : Asking(handler'[t], u) => Asking(handler[t], u)
    BY <1>8
  <2> QED
    BY <2>1, <2>2 DEF HeldInv
<1>12. ASSUME NEW u \in Users
       PROVE  /\ Cardinality(Held(u)') > Limit => <<"subscribe", u>> \in overlapped'
              /\ \A t \in Slots : Asking(handler'[t], u) /\ Cardinality(Held(u)') >= Limit =>
                    <<"subscribe", u>> \in overlapped'
  BY <1>9, <1>10, <1>11
<1> QED
  BY <1>12 DEF HeldInv, Asking

LEMMA NextHeld == IInv /\ HeldInv /\ [Next]_vars => HeldInv'
<1> SUFFICES ASSUME IInv, HeldInv, [Next]_vars
             PROVE  HeldInv'
  OBVIOUS
<1>0. ASSUME subscription' = subscription
      PROVE  \A u \in Users : Held(u)' \subseteq Held(u)
  BY <1>0 DEF Held
<1>1. CASE UNCHANGED vars
  BY <1>0, <1>1, HeldRest DEF vars
<1>2. CASE UnfollowCompany \/ CacheExpires
  <2>1. subscription' = subscription /\ handler' = handler /\ overlapped' = overlapped
    BY <1>2 DEF UnfollowCompany, CacheExpires, asked
  <2> QED
    BY <1>0, <2>1, HeldRest
<1>3. CASE Unsubscribe
  <2>1. PICK b \in Subscriptions : subscription' = [subscription EXCEPT ![b].state = "removed"]
    BY <1>3 DEF Unsubscribe, Held
  <2>2. \A u \in Users : Held(u)' \subseteq Held(u)
    BY <2>1 DEF Held, IInv, Subscribers
  <2> QED
    BY <1>3, <2>2, HeldRest DEF Unsubscribe
<1>4. ASSUME NEW s \in Slots, InsertSubscription(s)
      PROVE  HeldInv'
  BY <1>4, InsertHeld, Overlapping DEF Next, AskingSteps
<1>5. ASSUME NEW s \in Slots, SkillSteps(s) \/ AskingSteps(s),
             \A u \in Users : Held(u)' \subseteq Held(u),
             \A u \in Users : Asking(handler'[s], u) =>
                Asking(handler[s], u) \/ Cardinality(Held(u)) < Limit
      PROVE  HeldInv'
  <2>1. overlapped \subseteq overlapped'
    BY <1>5, Overlapping DEF Next
  <2>2. \A t \in Slots : \A u \in Users : Asking(handler'[t], u) =>
              Asking(handler[t], u) \/ Cardinality(Held(u)) < Limit
    BY <1>5, OneMoves
  <2> QED
    BY <1>5, <2>1, <2>2, HeldRest
<1>6. ASSUME NEW s \in Slots, SaveSubscription(s)
      PROVE  HeldInv'
  <2>1. \A u \in Users : Held(u)' \subseteq Held(u)
    BY <1>6 DEF SaveSubscription, Held, Asked, IInv, Subscribers
  <2>2. \A u \in Users : ~Asking(handler'[s], u)
    BY <1>6, After, IdleTyped DEF Asking, Resolving
  <2> QED
    BY <1>5, <1>6, <2>1, <2>2 DEF AskingSteps
<1>7. ASSUME NEW s \in Slots,
             \/ CreateSkill(s) \/ UpdateSkill(s) \/ AssertUniqueSkill(s) \/ SkillWrite(s)
             \/ RemoveSkills(s) \/ InvalidateCache(s) \/ GetCatalog(s) \/ FillCatalog(s)
      PROVE  HeldInv'
  <2>1. subscription' = subscription /\ SkillSteps(s)
    BY <1>7 DEF CreateSkill, UpdateSkill, AssertUniqueSkill, SkillWrite, RemoveSkills,
                InvalidateCache, GetCatalog, FillCatalog, SkillSteps, asked
  <2>2. \A u \in Users : ~Asking(handler'[s], u)
    BY <1>7, After, AssertAfter, IdleTyped DEF Asking, Resolving
  <2> QED
    BY <1>0, <1>5, <2>1, <2>2
<1>8. ASSUME NEW s \in Slots,
             \/ GetAliasMap(s) \/ ReadAliasMap(s) \/ FillAliasMap(s) \/ Subscribe(s)
             \/ UpdateSubscription(s) \/ FollowCompany(s) \/ AddFollowedCompany(s)
      PROVE  HeldInv'
  <2>1. subscription' = subscription /\ AskingSteps(s)
    BY <1>8 DEF GetAliasMap, ReadAliasMap, FillAliasMap, Subscribe, UpdateSubscription,
                FollowCompany, AddFollowedCompany, AskingSteps, asked
  <2>2. CASE GetAliasMap(s) \/ ReadAliasMap(s) \/ FillAliasMap(s)
    <3>1. \A u \in Users : Asking(handler'[s], u) => Asking(handler[s], u)
      BY <2>2, ResolvingAfter, IdleTyped DEF Asking, Resolving
    <3> QED
      BY <1>0, <1>5, <2>1, <3>1
  <2>3. CASE Subscribe(s)
    <3>1. \A u \in Users : Asking(handler'[s], u) => Cardinality(Held(u)) < Limit
      BY <2>3, After DEF Asking, MaySubscribe
    <3> QED
      BY <1>0, <1>5, <2>1, <3>1
  <2>4. CASE UpdateSubscription(s) \/ FollowCompany(s) \/ AddFollowedCompany(s)
    <3>1. \A u \in Users : ~Asking(handler'[s], u)
      BY <2>4, After, IdleTyped DEF Asking, Resolving
    <3> QED
      BY <1>0, <1>5, <2>1, <3>1
  <2> QED
    BY <1>8, <2>2, <2>3, <2>4
<1> QED
  BY <1>1, <1>2, <1>3, <1>4, <1>6, <1>7, <1>8 DEF Next, SkillSteps, AskingSteps

-----------------------------------------------------------------------------
(* Companies followed beyond the limit                                     *)

Following(h, u) == h.pc = "follow" /\ h.user = u

FollowedInv ==
    \A u \in Users :
        /\ Cardinality(followed[u]) > FollowLimit => <<"follow", u>> \in overlapped
        /\ \A s \in Slots : Following(handler[s], u) /\ Cardinality(followed[u]) >= FollowLimit =>
              <<"follow", u>> \in overlapped

LEMMA FollowedFinite ==
    ASSUME NEW K \in SUBSET Companies
    PROVE  IsFiniteSet(K) /\ Cardinality(K) \in Nat
BY LimitAssumption, FS_Subset, FS_CardinalityType

\* Nobody follows one more company.
LEMMA FollowedRest ==
    ASSUME IInv, FollowedInv, overlapped \subseteq overlapped',
           \A u \in Users : followed'[u] \subseteq followed[u],
           \A t \in Slots : \A u \in Users : Following(handler'[t], u) =>
              Following(handler[t], u) \/ Cardinality(followed[u]) < FollowLimit
    PROVE  FollowedInv'
<1> SUFFICES ASSUME NEW u \in Users
             PROVE  /\ Cardinality(followed'[u]) > FollowLimit => <<"follow", u>> \in overlapped'
                    /\ \A s \in Slots :
                          Following(handler'[s], u) /\ Cardinality(followed'[u]) >= FollowLimit =>
                              <<"follow", u>> \in overlapped'
  BY DEF FollowedInv, Following
<1>1. /\ Cardinality(followed[u]) \in Nat /\ Cardinality(followed'[u]) \in Nat
      /\ Cardinality(followed'[u]) <= Cardinality(followed[u])
  <2>1. followed'[u] \subseteq followed[u] /\ followed[u] \in SUBSET Companies
    BY DEF IInv, Subscribers
  <2> QED
    BY <2>1, FollowedFinite, FS_Subset
<1>2. FollowLimit \in Nat
  BY LimitAssumption
<1>3. Cardinality(followed'[u]) > FollowLimit => <<"follow", u>> \in overlapped'
  BY <1>1, <1>2 DEF FollowedInv
<1>4. ASSUME NEW s \in Slots, Following(handler'[s], u), Cardinality(followed'[u]) >= FollowLimit
      PROVE  <<"follow", u>> \in overlapped'
  <2>1. Cardinality(followed[u]) >= FollowLimit /\ ~(Cardinality(followed[u]) < FollowLimit)
    BY <1>1, <1>2, <1>4
  <2>2. Following(handler[s], u)
    BY <1>4, <2>1
  <2> QED
    BY <2>1, <2>2 DEF FollowedInv
<1> QED
  BY <1>3, <1>4

LEMMA AddFollowed ==
    ASSUME IInv, FollowedInv, NEW s \in Slots, AddFollowedCompany(s),
           overlapped \subseteq overlapped'
    PROVE  FollowedInv'
<1> DEFINE v == handler[s].user
           claim == <<"follow", v>>
           c == handler[s].id
<1>1. handler[s].pc = "follow" /\ v \in Users /\ c \in Companies
  BY DEF AddFollowedCompany, At, IInv, Handlers, HandlerType
<1>2. followed' = [followed EXCEPT ![v] = @ \cup {c}]
  BY DEF AddFollowedCompany
<1>3. /\ followed'[v] = followed[v] \cup {c} /\ followed[v] \in SUBSET Companies
      /\ \A u \in Users \ {v} : followed'[u] = followed[u]
  BY <1>1, <1>2 DEF IInv, Subscribers
<1>4. /\ Cardinality(followed[v]) \in Nat /\ Cardinality(followed'[v]) \in Nat
      /\ Cardinality(followed'[v]) <= Cardinality(followed[v]) + 1
  <2>1. IsFiniteSet(followed[v]) /\ Cardinality(followed[v]) \in Nat
    BY <1>3, FollowedFinite
  <2>2. CASE c \in followed[v]
    <3>1. followed'[v] = followed[v]
      BY <1>3, <2>2
    <3> QED
      BY <2>1, <3>1
  <2>3. CASE c \notin followed[v]
    <3>1. Cardinality(followed[v] \cup {c}) = Cardinality(followed[v]) + 1
      BY <2>1, <2>3, FS_AddElement
    <3> QED
      BY <1>3, <2>1, <3>1
  <2> QED
    BY <2>2, <2>3
<1>5. handler'[s] = Idle /\ \A t \in Slots \ {s} : handler'[t] = handler[t]
  BY OneMoves, After DEF AskingSteps
<1>6. FollowLimit \in Nat
  BY LimitAssumption
<1>7. ASSUME NEW t \in Slots, NEW u \in Users, Following(handler'[t], u)
      PROVE  t # s /\ handler'[t] = handler[t]
  BY <1>5, <1>7, IdleTyped DEF Following
<1> HIDE DEF v
<1>8. Cardinality(followed'[v]) > FollowLimit => claim \in overlapped'
  <2>1. Following(handler[s], v)
    BY <1>1 DEF Following, v
  <2>2. Cardinality(followed'[v]) > FollowLimit => Cardinality(followed[v]) >= FollowLimit
    BY <1>4, <1>6
  <2> QED
    BY <1>1, <2>1, <2>2 DEF FollowedInv
<1>9. ASSUME NEW t \in Slots, Following(handler'[t], v)
      PROVE  claim \in overlapped'
  <2>1. t # s /\ Following(handler[t], v)
    BY <1>1, <1>7, <1>9
  <2>2. Claim(t) = claim /\ Claim(s) = claim
    BY <1>1, <2>1 DEF Claim, At, Following, v
  <2> QED
    BY <2>1, <2>2 DEF AddFollowedCompany, Takes
<1>10. ASSUME NEW u \in Users \ {v}
       PROVE  /\ Cardinality(followed'[u]) > FollowLimit => <<"follow", u>> \in overlapped'
              /\ \A t \in Slots :
                    Following(handler'[t], u) /\ Cardinality(followed'[u]) >= FollowLimit =>
                        <<"follow", u>> \in overlapped'
  BY <1>3, <1>7 DEF FollowedInv
<1>11. ASSUME NEW u \in Users
       PROVE  /\ Cardinality(followed'[u]) > FollowLimit => <<"follow", u>> \in overlapped'
              /\ \A t \in Slots :
                    Following(handler'[t], u) /\ Cardinality(followed'[u]) >= FollowLimit =>
                        <<"follow", u>> \in overlapped'
  BY <1>8, <1>9, <1>10
<1> QED
  BY <1>11 DEF FollowedInv, Following

LEMMA NextFollowed == IInv /\ FollowedInv /\ [Next]_vars => FollowedInv'
<1> SUFFICES ASSUME IInv, FollowedInv, [Next]_vars
             PROVE  FollowedInv'
  OBVIOUS
<1>1. CASE UNCHANGED vars
  BY <1>1, FollowedRest DEF vars
<1>2. CASE Unsubscribe \/ CacheExpires
  BY <1>2, FollowedRest DEF Unsubscribe, CacheExpires, asked
<1>3. CASE UnfollowCompany
  <2>1. \A u \in Users : followed'[u] \subseteq followed[u]
    BY <1>3 DEF UnfollowCompany, IInv, Subscribers
  <2> QED
    BY <1>3, <2>1, FollowedRest DEF UnfollowCompany
<1>4. ASSUME NEW s \in Slots, AddFollowedCompany(s)
      PROVE  FollowedInv'
  BY <1>4, AddFollowed, Overlapping DEF Next, AskingSteps
<1>5. ASSUME NEW s \in Slots, SkillSteps(s) \/ AskingSteps(s), followed' = followed,
             \A u \in Users : Following(handler'[s], u) =>
                Following(handler[s], u) \/ Cardinality(followed[u]) < FollowLimit
      PROVE  FollowedInv'
  <2>1. overlapped \subseteq overlapped'
    BY <1>5, Overlapping DEF Next
  <2>2. \A t \in Slots : \A u \in Users : Following(handler'[t], u) =>
              Following(handler[t], u) \/ Cardinality(followed[u]) < FollowLimit
    BY <1>5, OneMoves
  <2> QED
    BY <1>5, <2>1, <2>2, FollowedRest
<1>6. ASSUME NEW s \in Slots,
             \/ CreateSkill(s) \/ UpdateSkill(s) \/ AssertUniqueSkill(s) \/ SkillWrite(s)
             \/ RemoveSkills(s) \/ InvalidateCache(s) \/ GetCatalog(s) \/ FillCatalog(s)
      PROVE  FollowedInv'
  <2>1. followed' = followed /\ SkillSteps(s)
    BY <1>6 DEF CreateSkill, UpdateSkill, AssertUniqueSkill, SkillWrite, RemoveSkills,
                InvalidateCache, GetCatalog, FillCatalog, SkillSteps, asked
  <2>2. \A u \in Users : ~Following(handler'[s], u)
    BY <1>6, After, AssertAfter, IdleTyped DEF Following
  <2> QED
    BY <1>5, <2>1, <2>2
<1>7. ASSUME NEW s \in Slots,
             \/ GetAliasMap(s) \/ ReadAliasMap(s) \/ FillAliasMap(s) \/ Subscribe(s)
             \/ UpdateSubscription(s) \/ InsertSubscription(s) \/ SaveSubscription(s)
      PROVE  FollowedInv'
  <2>1. followed' = followed /\ AskingSteps(s)
    BY <1>7 DEF GetAliasMap, ReadAliasMap, FillAliasMap, Subscribe, UpdateSubscription,
                InsertSubscription, SaveSubscription, AskingSteps, asked
  <2>2. \A u \in Users : ~Following(handler'[s], u)
    BY <1>7, After, ResolvingAfter, IdleTyped DEF Following, Resolving
  <2> QED
    BY <1>5, <2>1, <2>2
<1>8. ASSUME NEW s \in Slots, FollowCompany(s)
      PROVE  FollowedInv'
  <2>1. followed' = followed /\ AskingSteps(s)
    BY <1>8 DEF FollowCompany, AskingSteps, asked
  <2>2. \A u \in Users : Following(handler'[s], u) => Cardinality(followed[u]) < FollowLimit
    BY <1>8, After DEF Following
  <2> QED
    BY <1>5, <2>1, <2>2
<1> QED
  BY <1>1, <1>2, <1>3, <1>4, <1>6, <1>7, <1>8 DEF Next, SkillSteps, AskingSteps

\* Two live skills with one label, a subscription or a company beyond the limit: each needs two
\* handlers that made the same check before either wrote (skills.service.ts
\* assertUniqueSkill, user-subscriptions.service.ts create, users.service.ts followCompany).
THEOREM LimitsNeedOverlaps == Spec => []OnlyOverlapsExceed
<1>1. Init => LabelInv
  BY DEF Init, LabelInv, Live, NoSkill, At, Idle
<1>2. Init => HeldInv
  <2> SUFFICES ASSUME Init, NEW u \in Users
               PROVE  /\ ~(Cardinality(Held(u)) > Limit)
                      /\ \A s \in Slots : ~Asking(handler[s], u)
    BY DEF HeldInv
  <2>1. Held(u) = {}
    BY DEF Init, Held, NoSubscription
  <2>2. Cardinality(Held(u)) = 0 /\ Limit \in Nat
    BY <2>1, FS_EmptySet, LimitAssumption
  <2>3. ~(Cardinality(Held(u)) > Limit)
    BY <2>2
  <2>4. \A s \in Slots : ~Asking(handler[s], u)
    BY IdleTyped DEF Init, Asking, Resolving
  <2> QED
    BY <2>3, <2>4
<1>3. Init => FollowedInv
  <2> SUFFICES ASSUME Init, NEW u \in Users
               PROVE  /\ ~(Cardinality(followed[u]) > FollowLimit)
                      /\ \A s \in Slots : ~Following(handler[s], u)
    BY DEF FollowedInv
  <2>1. Cardinality(followed[u]) = 0 /\ FollowLimit \in Nat
    BY FS_EmptySet, LimitAssumption DEF Init
  <2> QED
    BY <2>1, IdleTyped DEF Init, Following
<1>4. LabelInv /\ HeldInv /\ FollowedInv => OnlyOverlapsExceed
  BY DEF LabelInv, HeldInv, FollowedInv, OnlyOverlapsExceed
<1> QED
  BY <1>1, <1>2, <1>3, <1>4, InitInv, NextInv, NextLabels, NextHeld, NextFollowed, PTL DEF Spec

-----------------------------------------------------------------------------
(* The cache: every step is one of ReadThrough                             *)

\* The steps at which a handler has something to do with the cache.
Busy == {"clear", "fill catalog", "fill map"}

LEMMA AnswersStay ==
    ASSUME skill' = skill
    PROVE  Answers' = Answers
<1>1. \A key : Current(key)' = Current(key)
  BY DEF Current, Catalog, AliasMaps, LabelsFor, Offered, Live, NamesOf
<1> QED
  BY <1>1 DEF Answers

\* What one handler's step makes of what is promised and carried.
LEMMA CacheMoves ==
    ASSUME NEW s \in Slots, \A t \in Slots \ {s} : handler'[t] = handler[t]
    PROVE  /\ Promised' = [Promised EXCEPT ![s] = IF handler'[s].pc = "clear" THEN Keys ELSE {}]
           /\ Carried' = [Carried EXCEPT ![s] = CarriedBy(s)']
           /\ handler[s].pc # "clear" => Promised[s] = {}
           /\ handler[s].pc \notin {"fill catalog", "fill map"} => Carried[s] = {}
           /\ handler'[s].pc \notin {"fill catalog", "fill map"} => CarriedBy(s)' = {}
<1>1. \A t \in Slots \ {s} : /\ Promised'[t] = Promised[t]
                              /\ Carried'[t] = Carried[t]
  BY DEF Promised, Carried, CarriedBy, At
<1>2. /\ Promised'[s] = (IF handler'[s].pc = "clear" THEN Keys ELSE {})
      /\ Carried'[s] = CarriedBy(s)'
  BY DEF Promised, Carried, At
<1>3. /\ Promised' = [t \in Slots |-> Promised'[t]] /\ DOMAIN Promised = Slots
      /\ Carried' = [t \in Slots |-> Carried'[t]] /\ DOMAIN Carried = Slots
  BY DEF Promised, Carried
<1>4. /\ Promised' = [Promised EXCEPT ![s] = IF handler'[s].pc = "clear" THEN Keys ELSE {}]
      /\ Carried' = [Carried EXCEPT ![s] = CarriedBy(s)']
  BY <1>1, <1>2, <1>3
<1> QED
  BY <1>4 DEF Promised, Carried, CarriedBy, At

\* Which step follows when names are resolved.
LEMMA ResolvesAfter ==
    ASSUME IInv, NEW s \in Slots, NEW map, Resolves(s, map)
    PROVE  handler'[s].pc \in {"idle", "save"}
<1>0. DOMAIN handler[s] = {"pc", "id", "load", "user", "names", "view"} /\ DOMAIN handler = Slots
  BY IdleTyped DEF IInv, Handlers, HandlerType
<1>1. CASE Ends(s)
  BY <1>0, <1>1, IdleTyped DEF Ends, Goes
<1>2. CASE ~Ends(s)
  <2>1. PICK names : Goes(s, [handler[s] EXCEPT !.pc = "save", !.view = None, !.names = names])
    BY <1>2 DEF Resolves
  <2>2. handler'[s] = [handler[s] EXCEPT !.pc = "save", !.view = None, !.names = names]
    BY <1>0, <2>1 DEF Goes
  <2> QED
    BY <1>0, <2>2
<1> QED
  BY <1>1, <1>2

LEMMA MapAfter ==
    ASSUME IInv, NEW s \in Slots, GetAliasMap(s)
    PROVE  handler'[s].pc \in {"idle", "save", "read map"}
<1>1. CASE cached["map"] = None
  <2> DEFINE next == "read map"
  <2>1. Goto(s, next)
    BY <1>1 DEF GetAliasMap
  <2> HIDE DEF next
  <2>2. PICK h : Goes(s, h) /\ h.pc = next
    BY <2>1, GotoFields DEF IInv
  <2>3. handler'[s].pc = next
    BY <2>2 DEF Goes, IInv, Handlers
  <2> QED
    BY <2>3 DEF next
<1>2. CASE cached["map"] # None
  BY <1>2, ResolvesAfter DEF GetAliasMap
<1> QED
  BY <1>1, <1>2

LEMMA FollowAfter ==
    ASSUME IInv, NEW s \in Slots, FollowCompany(s)
    PROVE  handler'[s].pc = "follow"
<1>1. PICK u \in Users, c \in Companies :
         Goes(s, [Idle EXCEPT !.pc = "follow", !.id = c, !.user = u])
  BY DEF FollowCompany
<1>2. handler'[s] = [Idle EXCEPT !.pc = "follow", !.id = c, !.user = u]
  BY <1>1 DEF Goes, IInv, Handlers
<1> QED
  BY <1>2, IdleTyped

LEMMA FillAfter ==
    ASSUME IInv, NEW s \in Slots, FillAliasMap(s)
    PROVE  handler'[s].pc \in {"idle", "save"}
BY ResolvesAfter DEF FillAliasMap

\* A step of a handler that neither is nor will be busy with the cache.
LEMMA QuietStep ==
    ASSUME NEW s \in Slots, \A t \in Slots \ {s} : handler'[t] = handler[t],
           UNCHANGED <<skill, cached, stale>>, handler[s].pc \notin Busy, handler'[s].pc \notin Busy
    PROVE  UNCHANGED Cache!vars
<1>1. /\ Promised' = [Promised EXCEPT ![s] = {}] /\ Promised[s] = {}
      /\ Carried' = [Carried EXCEPT ![s] = {}] /\ Carried[s] = {}
  BY CacheMoves DEF Busy
<1>2. Promised' = Promised /\ Carried' = Carried
  BY <1>1 DEF Promised, Carried
<1> QED
  BY <1>2, AnswersStay DEF Cache!vars

LEMMA ChangeStep ==
    ASSUME IInv, NEW s \in Slots, SkillWrite(s) \/ RemoveSkills(s)
    PROVE  Cache!Change(s)
<1>1. /\ handler[s].pc \notin Busy /\ handler'[s].pc = "clear" /\ UNCHANGED <<cached, stale>>
      /\ \A t \in Slots \ {s} : handler'[t] = handler[t]
  BY After, OneMoves DEF SkillWrite, RemoveSkills, At, Busy, SkillSteps
<1>2. /\ Promised' = [Promised EXCEPT ![s] = Keys] /\ Promised[s] = {}
      /\ Carried' = [Carried EXCEPT ![s] = {}] /\ Carried[s] = {}
  BY <1>1, CacheMoves DEF Busy
<1>3. Carried' = Carried
  BY <1>2 DEF Carried
<1>4. Cache!Touches(Keys)
  BY <1>1 DEF Cache!Touches
<1> QED
  BY <1>1, <1>2, <1>3, <1>4 DEF Cache!Change, Cache!Free

LEMMA ClearStep ==
    ASSUME IInv, NEW s \in Slots, InvalidateCache(s)
    PROVE  Cache!Clear(s)
<1>1. /\ handler[s].pc = "clear" /\ handler'[s] = Idle /\ skill' = skill
      /\ cached' = [key \in Keys |-> IF key \in Keys THEN None ELSE cached[key]]
      /\ stale' = stale \ Keys
      /\ \A t \in Slots \ {s} : handler'[t] = handler[t]
  BY After, OneMoves DEF InvalidateCache, At, Cleared, SkillSteps
<1>2. /\ Promised' = [Promised EXCEPT ![s] = {}] /\ Promised[s] = Keys
      /\ Carried' = [Carried EXCEPT ![s] = {}] /\ Carried[s] = {}
  BY <1>1, IdleTyped, CacheMoves DEF Promised, At
<1>3. Carried' = Carried
  BY <1>2 DEF Carried
<1> QED
  BY <1>1, <1>2, <1>3, AnswersStay DEF Cache!Clear

LEMMA ReadStep ==
    ASSUME IInv, NEW s \in Slots, GetCatalog(s) \/ ReadAliasMap(s)
    PROVE  Cache!Read(s)
<1>1. /\ handler[s].pc \notin Busy /\ UNCHANGED <<skill, cached, stale>>
      /\ \A t \in Slots \ {s} : handler'[t] = handler[t]
  BY OneMoves DEF GetCatalog, ReadAliasMap, At, Busy, SkillSteps, AskingSteps
<1>2. \E key \in Keys : /\ handler'[s].pc \in {"fill catalog", "fill map"}
                        /\ \E a \in Answers[key] : CarriedBy(s)' = {<<key, a>>}
  <2>1. CASE GetCatalog(s)
    <3> DEFINE h == [Idle EXCEPT !.pc = "fill catalog", !.view = Catalog]
    <3>1. h.pc = "fill catalog" /\ h.view \in Answers["catalog"]
      BY IdleTyped DEF Answers, Keys, Current
    <3>2. handler'[s] = h
      BY <2>1 DEF GetCatalog, Goes, IInv, Handlers
    <3> HIDE DEF h
    <3> QED
      BY <3>1, <3>2 DEF CarriedBy, At, Keys
  <2>2. CASE ReadAliasMap(s)
    <3>0. PICK m \in AliasMaps : Goes(s, [handler[s] EXCEPT !.pc = "fill map", !.view = m])
      BY <2>2 DEF ReadAliasMap
    <3> DEFINE h == [handler[s] EXCEPT !.pc = "fill map", !.view = m]
    <3>1. h.pc = "fill map" /\ h.view \in Answers["map"]
      BY IdleTyped DEF Answers, Keys, Current, IInv, Handlers, HandlerType
    <3>2. handler'[s] = h
      BY <3>0 DEF Goes, IInv, Handlers
    <3> HIDE DEF h
    <3> QED
      BY <3>1, <3>2 DEF CarriedBy, At, Keys
  <2> QED
    BY <2>1, <2>2
<1>3. PICK key \in Keys : /\ handler'[s].pc \in {"fill catalog", "fill map"}
                         /\ \E a \in Answers[key] : CarriedBy(s)' = {<<key, a>>}
  BY <1>2
<1> PICK a \in Answers[key] : CarriedBy(s)' = {<<key, a>>}
  BY <1>3
<1>4. /\ Promised' = [Promised EXCEPT ![s] = {}] /\ Promised[s] = {}
      /\ Carried' = [Carried EXCEPT ![s] = {<<key, a>>}] /\ Carried[s] = {}
  BY <1>1, <1>3, CacheMoves DEF Busy
<1>5. Promised' = Promised
  BY <1>4 DEF Promised
<1> QED
  BY <1>1, <1>4, <1>5, AnswersStay DEF Cache!Read, Cache!Free

LEMMA StoreStep ==
    ASSUME IInv, NEW s \in Slots, FillCatalog(s) \/ FillAliasMap(s)
    PROVE  Cache!Store(s)
<1>1. /\ handler[s].pc # "clear" /\ skill' = skill
      /\ \A t \in Slots \ {s} : handler'[t] = handler[t]
  BY OneMoves DEF FillCatalog, FillAliasMap, At, SkillSteps, AskingSteps
<1>2. handler'[s].pc \notin Busy
  BY After, FillAfter, IdleTyped DEF Busy
<1>3. PICK key \in Keys : Fills(key, handler[s].view) /\ Carried[s] = {<<key, handler[s].view>>}
  BY DEF FillCatalog, FillAliasMap, Keys, Carried, CarriedBy, At
<1>4. /\ Promised' = [Promised EXCEPT ![s] = {}] /\ Promised[s] = {}
      /\ Carried' = [Carried EXCEPT ![s] = {}]
  BY <1>1, <1>2, CacheMoves DEF Busy
<1>5. Promised' = Promised
  BY <1>4 DEF Promised
<1>6. /\ cached' = [cached EXCEPT ![key] = handler[s].view]
      /\ stale' = IF handler[s].view \in Answers[key] THEN stale \ {key} ELSE stale \cup {key}
  BY <1>3 DEF Fills, Answers
<1> DEFINE t == <<key, handler[s].view>>
<1>7. t \in Carried[s] /\ t[1] = key /\ t[2] = handler[s].view
  BY <1>3
<1> HIDE DEF t
<1>8. \E k \in Keys : \E u \in Carried[s] :
          /\ u[1] = k
          /\ cached' = [cached EXCEPT ![k] = u[2]]
          /\ stale' = IF u[2] \in Answers[k] THEN stale \ {k} ELSE stale \cup {k}
  BY <1>6, <1>7
<1> QED
  BY <1>1, <1>4, <1>5, <1>8, AnswersStay DEF Cache!Store

LEMMA NextReads == IInv /\ [Next]_vars => [Cache!Next]_(Cache!vars)
<1> SUFFICES ASSUME IInv, [Next]_vars
             PROVE  [Cache!Next]_(Cache!vars)
  OBVIOUS
<1>1. ASSUME NEW s \in Slots,
             \/ CreateSkill(s) \/ UpdateSkill(s) \/ AssertUniqueSkill(s) \/ GetAliasMap(s)
             \/ Subscribe(s) \/ UpdateSubscription(s) \/ InsertSubscription(s)
             \/ SaveSubscription(s) \/ FollowCompany(s) \/ AddFollowedCompany(s)
      PROVE  UNCHANGED Cache!vars
  <2>1. UNCHANGED <<skill, cached, stale>> /\ handler[s].pc \notin Busy
    BY <1>1 DEF CreateSkill, UpdateSkill, AssertUniqueSkill, GetAliasMap, Subscribe,
                UpdateSubscription, InsertSubscription, SaveSubscription, FollowCompany,
                AddFollowedCompany, At, Busy
  <2>2. handler'[s].pc \notin Busy
    <3>1. CASE FollowCompany(s)
      BY <3>1, FollowAfter DEF Busy
    <3>2. CASE ~FollowCompany(s)
      BY <1>1, <3>2, After, AssertAfter, MapAfter, IdleTyped DEF Busy
    <3> QED
      BY <3>1, <3>2
  <2>3. \A t \in Slots \ {s} : handler'[t] = handler[t]
    BY <1>1, OneMoves DEF SkillSteps, AskingSteps
  <2> QED
    BY <2>1, <2>2, <2>3, QuietStep
<1>2. CASE Unsubscribe \/ UnfollowCompany \/ UNCHANGED vars
  <2>1. UNCHANGED <<skill, cached, stale, handler>>
    BY <1>2 DEF Unsubscribe, UnfollowCompany, vars
  <2> QED
    BY <2>1, AnswersStay DEF Cache!vars, Promised, Carried, CarriedBy, At
<1>3. ASSUME CacheExpires
      PROVE  \E key \in Keys : Cache!Expire(key)
  <2>1. UNCHANGED <<skill, handler>>
    BY <1>3 DEF CacheExpires
  <2>2. UNCHANGED <<Answers, Promised, Carried>>
    BY <2>1, AnswersStay DEF Promised, Carried, CarriedBy, At
  <2> QED
    BY <1>3, <2>2 DEF CacheExpires, Cache!Expire
<1>4. ASSUME NEW s \in Slots, SkillSteps(s)
      PROVE  Cache!Next \/ UNCHANGED Cache!vars
  BY <1>1, <1>4, ChangeStep, ClearStep, ReadStep, StoreStep DEF SkillSteps, Cache!Next
<1>5. ASSUME NEW s \in Slots, AskingSteps(s)
      PROVE  Cache!Next \/ UNCHANGED Cache!vars
  BY <1>1, <1>5, ReadStep, StoreStep DEF AskingSteps, Cache!Next
<1> QED
  BY <1>2, <1>3, <1>4, <1>5 DEF Next, Cache!Next

\* The catalogue keeps what ReadThrough promises (SkillsService).
THEOREM CatalogueReadsThrough == Spec => ReadsThrough
<1>1. Init => Cache!Init
  <2> SUFFICES ASSUME Init
               PROVE  Cache!Init
    OBVIOUS
  <2>1. /\ Promised = [s \in Slots |-> {}] /\ Carried = [s \in Slots |-> {}]
        /\ cached = [key \in Keys |-> None] /\ stale = {}
    BY IdleTyped DEF Init, Promised, Carried, CarriedBy, At
  <2> QED
    BY <2>1 DEF Cache!Init
<1> QED
  BY <1>1, InitInv, NextInv, NextReads, PTL DEF Spec, ReadsThrough, Cache!Spec

\* What ReadThrough promises is enough for the property the cache is there for.
LEMMA PromisesSettle == Cache!Settled /\ [Cache!Next]_(Cache!vars) => Cache!Settled'
<1> SUFFICES ASSUME Cache!Settled, [Cache!Next]_(Cache!vars)
             PROVE  Cache!Settled'
  OBVIOUS
<1>0. DOMAIN Promised = Slots
  BY DEF Promised
<1>1. ASSUME NEW s \in Slots, Cache!Change(s)
      PROVE  Cache!Settled'
  BY <1>0, <1>1 DEF Cache!Change, Cache!Free, Cache!Touches, Cache!Settled
<1>2. ASSUME NEW s \in Slots, Cache!Clear(s)
      PROVE  Cache!Settled'
  BY <1>0, <1>2 DEF Cache!Clear, Cache!Settled
<1>3. ASSUME NEW s \in Slots, Cache!Read(s)
      PROVE  Cache!Settled'
  BY <1>3 DEF Cache!Read, Cache!Settled
<1>4. ASSUME NEW s \in Slots, Cache!Store(s)
      PROVE  Cache!Settled'
  BY <1>4 DEF Cache!Store, Cache!Settled
<1>5. ASSUME NEW key \in Keys, Cache!Expire(key)
      PROVE  Cache!Settled'
  BY <1>5 DEF Cache!Expire, Cache!Settled
<1>6. CASE Cache!Drift
  BY <1>6 DEF Cache!Drift, Cache!Touches, Cache!Settled
<1>7. ASSUME NEW s \in Slots, Cache!Gather(s)
      PROVE  Cache!Settled'
  BY <1>7 DEF Cache!Gather
<1>8. CASE UNCHANGED Cache!vars
  BY <1>8 DEF Cache!vars, Cache!Settled
<1> QED
  BY <1>1, <1>2, <1>3, <1>4, <1>5, <1>6, <1>7, <1>8 DEF Cache!Next

\* A cached catalogue or map that is out of date is about to be cleared, unless it was stored
\* after a change it had not seen: it follows from the promises alone
\* (skills.service.ts getCatalog, getAliasMap, invalidateCache).
THEOREM CatalogueSettles == Spec => []CachesSettle
<1>1. Cache!Init => Cache!Settled
  BY DEF Cache!Init, Cache!Settled
<1>2. Cache!Settled => CachesSettle
  BY DEF Cache!Settled, CachesSettle, Answers, Promised, At
<1>3. ReadsThrough => []Cache!Settled
  BY <1>1, PromisesSettle, PTL DEF ReadsThrough, Cache!Spec
<1> QED
  BY <1>2, <1>3, CatalogueReadsThrough, PTL

-----------------------------------------------------------------------------
(* The sum over the skills asked for                                       *)

\* What a required skill adds to the sum, and the element the sum takes next.
Points(r, skills) == IF Matched(r, skills) THEN DetermineProficiency(r, skills) ELSE 0
First(s) == CHOOSE x \in s : TRUE

\* f is the sum of the points over the members of W, from the sums of smaller sets.
Adds(f, skills, W) ==
    f = [s \in W |->
            IF s = {} THEN 0 ELSE Points(First(s), skills) + f[s \ {First(s)}]]
Sums(skills, R) ==
    CHOOSE f : f = [s \in SUBSET R |->
                       IF s = {} THEN 0 ELSE Points(First(s), skills) + f[s \ {First(s)}]]

LEMMA PointsRange ==
  ASSUME NEW r, NEW skills
  PROVE  /\ Points(r, skills) \in 0 .. 100
         /\ Matched(r, skills) => Points(r, skills) >= 70
BY DEF Points, DetermineProficiency

\* The fold of calculateSkillsMatch is that sum.
LEMMA SkillsMatchSums ==
  ASSUME NEW skills, NEW required
  PROVE  CalculateSkillsMatch(skills, required) =
            IF required = {} THEN 0
            ELSE ScorePercentage(Sums(skills, required)[required], Cardinality(required))
BY DEF CalculateSkillsMatch, MapThenSumSet, MapThenFoldSet, First, Points, Sums

LEMMA Rest ==
  ASSUME NEW R, IsFiniteSet(R), NEW s \in SUBSET R, s # {}
  PROVE  /\ First(s) \in R
         /\ s \ {First(s)} \in SUBSET R
         /\ Cardinality(s) \in Nat \ {0}
         /\ Cardinality(s \ {First(s)}) = Cardinality(s) - 1
         /\ Cardinality(s \ {First(s)}) \in Nat
<1>1. First(s) \in s
  BY DEF First
<1>2. IsFiniteSet(s)
  BY FS_Subset
<1>3. IsFiniteSet(s \ {First(s)}) /\ Cardinality(s \ {First(s)}) = Cardinality(s) - 1
  BY <1>1, <1>2, FS_RemoveElement
<1>4. Cardinality(s) \in Nat /\ Cardinality(s \ {First(s)}) \in Nat
  BY <1>2, <1>3, FS_CardinalityType
<1>. QED
  BY <1>1, <1>3, <1>4

\* There is such a sum: the sets of one more element take theirs from those of
\* fewer.
LEMMA SumsAdd ==
  ASSUME NEW R, IsFiniteSet(R), NEW skills
  PROVE  Adds(Sums(skills, R), skills, SUBSET R)
<1>. DEFINE W(k) == {s \in SUBSET R : Cardinality(s) <= k}
            P == {k \in Nat : \E f : Adds(f, skills, W(k))}
<1>1. 0 \in P
  <2>. DEFINE f == [s \in W(0) |-> 0]
  <2>1. \A s \in W(0) : s = {}
    BY Sized
  <2>2. f = [s \in W(0) |->
                IF s = {} THEN 0 ELSE Points(First(s), skills) + f[s \ {First(s)}]]
    BY <2>1
  <2>. HIDE DEF f
  <2>. QED
    BY <2>2 DEF Adds
<1>2. ASSUME NEW n \in Nat, n \in P
      PROVE  n + 1 \in P
  <2>1. PICK f : Adds(f, skills, W(n))
    BY <1>2
  <2>. DEFINE g == [s \in W(n + 1) |->
                       IF s = {} THEN 0 ELSE Points(First(s), skills) + f[s \ {First(s)}]]
  <2>2. ASSUME NEW s \in W(n)
        PROVE  s \in W(n + 1) /\ g[s] = f[s]
    <3>1. s \in W(n + 1)
      BY Sized
    <3>. QED
      BY <2>1, <3>1 DEF Adds
  <2>3. ASSUME NEW s \in W(n + 1), s # {}
        PROVE  g[s \ {First(s)}] = f[s \ {First(s)}]
    <3>1. s \ {First(s)} \in W(n)
      BY <2>3, Rest
    <3>. QED
      BY <2>2, <3>1
  <2>. HIDE DEF W
  <2>4. g = [s \in W(n + 1) |->
                IF s = {} THEN 0 ELSE Points(First(s), skills) + g[s \ {First(s)}]]
    BY <2>3
  <2>. HIDE DEF g
  <2>. QED
    BY <2>4 DEF Adds
<1>. HIDE DEF P
<1>3. Cardinality(R) \in P
  BY <1>1, <1>2, Inductive, FS_CardinalityType
<1>4. W(Cardinality(R)) = SUBSET R
  BY FS_Subset
<1>5. \E f : Adds(f, skills, SUBSET R)
  BY <1>3, <1>4 DEF P
<1>. QED
  BY <1>5 DEF Adds, Sums

LEMMA SumOf ==
  ASSUME NEW R, IsFiniteSet(R), NEW skills, NEW s \in SUBSET R
  PROVE  Sums(skills, R)[s] =
            IF s = {} THEN 0
            ELSE Points(First(s), skills) + Sums(skills, R)[s \ {First(s)}]
<1>. DEFINE f == Sums(skills, R)
<1>1. Adds(f, skills, SUBSET R)
  BY SumsAdd
<1>. HIDE DEF f
<1>2. f = [t \in SUBSET R |->
              IF t = {} THEN 0 ELSE Points(First(t), skills) + f[t \ {First(t)}]]
  BY <1>1 DEF Adds
<1>3. f[s] = IF s = {} THEN 0 ELSE Points(First(s), skills) + f[s \ {First(s)}]
  BY <1>2
<1>. QED
  BY <1>3 DEF f

\* Every skill asked for adds at most 100, and at least 70 if it is matched.
LEMMA SumRange ==
  ASSUME NEW R, IsFiniteSet(R), NEW skills
  PROVE  LET sum == Sums(skills, R)[R] IN
         /\ sum \in Nat
         /\ sum <= 100 * Cardinality(R)
         /\ (\A r \in R : Matched(r, skills)) => sum >= 70 * Cardinality(R)
<1>. DEFINE f == Sums(skills, R)
            Fair == \A r \in R : Matched(r, skills)
            Good(s, k) ==
                f[s] \in Nat /\ f[s] <= 100 * k /\ (Fair => f[s] >= 70 * k)
            P == {k \in Nat : \A s \in SUBSET R : Cardinality(s) = k => Good(s, k)}
<1>1. ASSUME NEW s \in SUBSET R
      PROVE  f[s] = IF s = {} THEN 0 ELSE Points(First(s), skills) + f[s \ {First(s)}]
  BY SumOf
<1>. HIDE DEF f
<1>2. 0 \in P
  <2>1. ASSUME NEW s \in SUBSET R, Cardinality(s) = 0
        PROVE  Good(s, 0)
    <3>1. s = {}
      BY <2>1, Sized
    <3>. QED
      BY <1>1, <3>1
  <2>. QED
    BY <2>1
<1>3. ASSUME NEW n \in Nat, n \in P
      PROVE  n + 1 \in P
  <2>1. SUFFICES ASSUME NEW s \in SUBSET R, Cardinality(s) = n + 1
                 PROVE  Good(s, n + 1)
    OBVIOUS
  <2>. DEFINE x == First(s)
              u == s \ {x}
  <2>2. s # {}
    BY <2>1, Sized
  <2>3. x \in R /\ u \in SUBSET R /\ Cardinality(u) = n
    BY <2>1, <2>2, Rest
  <2>4. Good(u, n)
    BY <1>3, <2>3
  <2>5. f[s] = Points(x, skills) + f[u]
    BY <1>1, <2>2
  <2>6. Points(x, skills) \in 0 .. 100 /\ (Fair => Points(x, skills) >= 70)
    BY <2>3, PointsRange
  <2>. HIDE DEF x, u, Fair
  <2>. QED
    BY <2>4, <2>5, <2>6
<1>. HIDE DEF P
<1>4. Cardinality(R) \in P
  BY <1>2, <1>3, Inductive, FS_CardinalityType
<1>5. Good(R, Cardinality(R))
  BY <1>4 DEF P
<1>. QED
  BY <1>5 DEF f

\* More points for each skill asked for, more for all of them.
LEMMA SumGrows ==
  ASSUME NEW R, IsFiniteSet(R), NEW skills, NEW more,
         \A r \in R : Points(r, skills) <= Points(r, more)
  PROVE  Sums(skills, R)[R] <= Sums(more, R)[R]
<1>. DEFINE f == Sums(skills, R)
            g == Sums(more, R)
            Good(s) == f[s] \in Int /\ g[s] \in Int /\ f[s] <= g[s]
            P == {k \in Nat : \A s \in SUBSET R : Cardinality(s) = k => Good(s)}
<1>1. ASSUME NEW s \in SUBSET R
      PROVE  /\ f[s] = IF s = {} THEN 0 ELSE Points(First(s), skills) + f[s \ {First(s)}]
             /\ g[s] = IF s = {} THEN 0 ELSE Points(First(s), more) + g[s \ {First(s)}]
  BY SumOf
<1>. HIDE DEF f, g
<1>2. 0 \in P
  <2>1. ASSUME NEW s \in SUBSET R, Cardinality(s) = 0
        PROVE  Good(s)
    <3>1. s = {}
      BY <2>1, Sized
    <3>2. f[s] = 0 /\ g[s] = 0
      BY <1>1, <3>1
    <3>. QED
      BY <3>2
  <2>. QED
    BY <2>1
<1>3. ASSUME NEW n \in Nat, n \in P
      PROVE  n + 1 \in P
  <2>1. SUFFICES ASSUME NEW s \in SUBSET R, Cardinality(s) = n + 1
                 PROVE  Good(s)
    OBVIOUS
  <2>. DEFINE x == First(s)
              u == s \ {x}
  <2>2. s # {}
    BY <2>1, Sized
  <2>3. x \in R /\ u \in SUBSET R /\ Cardinality(u) = n
    BY <2>1, <2>2, Rest
  <2>4. Good(u)
    BY <1>3, <2>3
  <2>5. f[s] = Points(x, skills) + f[u] /\ g[s] = Points(x, more) + g[u]
    BY <1>1, <2>2
  <2>6. Points(x, skills) \in Int /\ Points(x, more) \in Int
        /\ Points(x, skills) <= Points(x, more)
    BY <2>3, PointsRange
  <2>. HIDE DEF x, u
  <2>. QED
    BY <2>4, <2>5, <2>6
<1>. HIDE DEF P
<1>4. Cardinality(R) \in P
  BY <1>2, <1>3, Inductive, FS_CardinalityType
<1>5. Good(R)
  BY <1>4 DEF P
<1>. QED
  BY <1>5 DEF f, g

LEMMA NearestRange ==
  ASSUME NEW a \in Nat, NEW b \in Nat \ {0}
  PROVE  /\ Nearest(a, b) \in Nat
         /\ a <= 100 * b => Nearest(a, b) <= 100
         /\ a >= 70 * b => Nearest(a, b) >= 70
<1>. DEFINE d == 2 * b
            q == Nearest(a, b)
<1>1. q \in Int /\ d * q <= 2 * a + b /\ 2 * a + b < d * (q + 1)
  BY DEF Nearest
<1>. HIDE DEF q
<1>2. q >= 0
  BY <1>1
<1>3. ASSUME a <= 100 * b, q >= 101
      PROVE  FALSE
  <2>1. d * q >= d * 101
    BY <1>3, <1>1
  <2>. QED
    BY <1>1, <1>3, <2>1
<1>4. ASSUME a >= 70 * b, q <= 69
      PROVE  FALSE
  <2>1. d * (q + 1) <= d * 70
    BY <1>4, <1>1
  <2>. QED
    BY <1>1, <1>4, <2>1
<1>. QED
  BY <1>1, <1>2, <1>3, <1>4 DEF q

LEMMA NearestGrows ==
  ASSUME NEW a \in Nat, NEW c \in Nat, NEW b \in Nat \ {0}, a <= c
  PROVE  Nearest(a, b) <= Nearest(c, b)
<1>. DEFINE d == 2 * b
            p == Nearest(a, b)
            q == Nearest(c, b)
<1>1. /\ p \in Int /\ d * p <= 2 * a + b
      /\ q \in Int /\ 2 * c + b < d * (q + 1)
  BY DEF Nearest
<1>. HIDE DEF p, q
<1>2. d * p < d * (q + 1)
  BY <1>1
<1>3. ASSUME p >= q + 1
      PROVE  FALSE
  BY <1>1, <1>2, <1>3
<1>. QED
  BY <1>1, <1>3 DEF p, q

\* So is the share, whichever halves it falls short of.
LEMMA PercentageRange ==
  ASSUME NEW a \in Nat, NEW b \in Nat \ {0}
  PROVE  LET q == ScorePercentage(a, b) IN
         /\ q \in Nat
         /\ a <= 100 * b => q <= 100
         /\ a >= 70 * b => q >= 70
<1>. DEFINE d == 2 * b
            q == Nearest(a, b)
            short == (2 * a + b) % d = 0 /\ <<a, b>> \in ShortOfHalf
<1>1. q \in Nat /\ (a <= 100 * b => q <= 100) /\ (a >= 70 * b => q >= 70)
  BY NearestRange
<1>2. ASSUME (2 * a + b) % d = 0
      PROVE  d * q = 2 * a + b
  BY <1>2 DEF Nearest
<1>. HIDE DEF q
<1>3. ASSUME short
      PROVE  q - 1 \in Nat /\ (a >= 70 * b => q - 1 >= 70)
  <2>1. d * q = 2 * a + b
    BY <1>2, <1>3
  <2>2. q # 0
    BY <1>1, <2>1
  <2>3. ASSUME a >= 70 * b, q <= 70
        PROVE  FALSE
    <3>1. d * q <= d * 70
      BY <1>1, <2>3
    <3>. QED
      BY <2>1, <2>3, <3>1
  <2>. QED
    BY <1>1, <2>2, <2>3
<1>4. ScorePercentage(a, b) = IF short THEN q - 1 ELSE q
  BY DEF ScorePercentage, q
<1>. HIDE DEF short
<1>. QED
  BY <1>1, <1>3, <1>4

LEMMA PercentageGrows ==
  ASSUME NEW a \in Nat, NEW c \in Nat, NEW b \in Nat \ {0}, a <= c
  PROVE  ScorePercentage(a, b) <= ScorePercentage(c, b)
<1>. DEFINE d == 2 * b
            p == Nearest(a, b)
            q == Nearest(c, b)
            short(x) == (2 * x + b) % d = 0 /\ <<x, b>> \in ShortOfHalf
<1>1. p \in Nat /\ q \in Nat /\ p <= q
  BY NearestRange, NearestGrows
<1>2. ASSUME (2 * c + b) % d = 0
      PROVE  d * q = 2 * c + b
  BY <1>2 DEF Nearest
<1>3. d * p <= 2 * a + b
  BY DEF Nearest
<1>. HIDE DEF p, q
<1>4. ASSUME short(c), a # c
      PROVE  p <= q - 1
  <2>1. d * p < d * q
    BY <1>1, <1>2, <1>3, <1>4
  <2>2. ASSUME p >= q
        PROVE  FALSE
    <3>1. d * p >= d * q
      BY <1>1, <2>2
    <3>. QED
      BY <1>1, <2>1, <3>1
  <2>. QED
    BY <1>1, <2>2
<1>5. /\ ScorePercentage(a, b) = IF short(a) THEN p - 1 ELSE p
      /\ ScorePercentage(c, b) = IF short(c) THEN q - 1 ELSE q
  BY DEF ScorePercentage, p, q
<1>6. a = c => p = q
  BY DEF p, q
<1>7. short(c) /\ a = c => short(a)
  OBVIOUS
<1>. HIDE DEF short
<1>. QED
  BY <1>1, <1>4, <1>5, <1>6, <1>7

-----------------------------------------------------------------------------
(* Texts                                                                   *)

\* A text that occurs in another does so still when that one goes on.
LEMMA OccursStays ==
  ASSUME NEW p \in Text, NEW t \in Text, NEW u \in Text, OccursIn(p, t)
  PROVE  OccursIn(p, t \o u)
<1>. USE DEF Text
<1>1. PICK i \in 0 .. Len(t) - Len(p) : SubSeq(t, i + 1, i + Len(p)) = p
  BY DEF OccursIn
<1>2. t \o u \in Seq(Words) /\ Len(t \o u) = Len(t) + Len(u)
  OBVIOUS
<1>3. i \in 0 .. Len(t \o u) - Len(p)
  BY <1>1, <1>2
<1>4. SubSeq(t \o u, i + 1, i + Len(p)) = SubSeq(t, i + 1, i + Len(p))
  BY <1>1
<1>. QED
  BY <1>1, <1>3, <1>4 DEF OccursIn

LEMMA OccursNowhere ==
  ASSUME NEW p \in Text, Len(p) > 0
  PROVE  ~ OccursIn(p, <<>>)
BY DEF OccursIn, Text

LEMMA Joint ==
  ASSUME NEW t \in Text, NEW u \in Text
  PROVE  t \o u \in Text
BY DEF Text

\* f[i] is the text of the first i skills.
Joins(f, skills, n) ==
    f = [i \in 1 .. n |-> IF i = 1 THEN skills[i] ELSE f[i - 1] \o skills[i]]
Joined(skills) ==
    CHOOSE f : f = [i \in 1 .. Len(skills) |->
                       IF i = 1 THEN skills[i] ELSE f[i - 1] \o skills[i]]

LEMMA FlattenIs ==
  ASSUME NEW skills \in Seq(Text)
  PROVE  FlattenSeq(skills) =
            IF Len(skills) = 0 THEN skills ELSE Joined(skills)[Len(skills)]
BY DEF FlattenSeq, Joined

LEMMA JoinsAll ==
  ASSUME NEW skills \in Seq(Text)
  PROVE  Joins(Joined(skills), skills, Len(skills))
<1>. DEFINE P == {k \in Nat : \E f : Joins(f, skills, k)}
<1>1. 0 \in P
  <2>. DEFINE f == [i \in 1 .. 0 |-> 0]
  <2>1. f = [i \in 1 .. 0 |-> IF i = 1 THEN skills[i] ELSE f[i - 1] \o skills[i]]
    OBVIOUS
  <2>. HIDE DEF f
  <2>. QED
    BY <2>1 DEF Joins
<1>2. ASSUME NEW n \in Nat, n \in P
      PROVE  n + 1 \in P
  <2>1. PICK f : Joins(f, skills, n)
    BY <1>2
  <2>. DEFINE g == [i \in 1 .. n + 1 |->
                       IF i = 1 THEN skills[i] ELSE f[i - 1] \o skills[i]]
  <2>2. ASSUME NEW i \in 1 .. n
        PROVE  g[i] = f[i]
    <3>1. f = [j \in 1 .. n |-> IF j = 1 THEN skills[j] ELSE f[j - 1] \o skills[j]]
      BY <2>1 DEF Joins
    <3>2. f[i] = IF i = 1 THEN skills[i] ELSE f[i - 1] \o skills[i]
      BY <3>1
    <3>. QED
      BY <3>2
  <2>3. ASSUME NEW i \in 1 .. n + 1, i # 1
        PROVE  g[i - 1] = f[i - 1]
    <3>1. i - 1 \in 1 .. n
      BY <2>3
    <3>. HIDE DEF g
    <3>. QED
      BY <2>2, <3>1
  <2>4. g = [i \in 1 .. n + 1 |-> IF i = 1 THEN skills[i] ELSE g[i - 1] \o skills[i]]
    BY <2>3
  <2>. HIDE DEF g
  <2>5. Joins(g, skills, n + 1)
    BY <2>4 DEF Joins
  <2>. QED
    BY <2>5
<1>. HIDE DEF P
<1>3. Len(skills) \in P
  BY <1>1, <1>2, Inductive
<1>4. \E f : Joins(f, skills, Len(skills))
  BY <1>3 DEF P
<1>. QED
  BY <1>4 DEF Joins, Joined

LEMMA JoinedAt ==
  ASSUME NEW skills \in Seq(Text), NEW i \in 1 .. Len(skills)
  PROVE  Joined(skills)[i] =
            IF i = 1 THEN skills[i] ELSE Joined(skills)[i - 1] \o skills[i]
<1>. DEFINE f == Joined(skills)
<1>1. Joins(f, skills, Len(skills))
  BY JoinsAll
<1>. HIDE DEF f
<1>2. f = [j \in 1 .. Len(skills) |->
              IF j = 1 THEN skills[j] ELSE f[j - 1] \o skills[j]]
  BY <1>1 DEF Joins
<1>3. f[i] = IF i = 1 THEN skills[i] ELSE f[i - 1] \o skills[i]
  BY <1>2
<1>. QED
  BY <1>3 DEF f

\* The text of a CV that names a further skill is its text and that skill.
LEMMA FlattenGrows ==
  ASSUME NEW skills \in Seq(Text), NEW s \in Text
  PROVE  /\ FlattenSeq(skills) \in Text
         /\ skills # <<>> => FlattenSeq(Append(skills, s)) = FlattenSeq(skills) \o s
<1>. DEFINE n == Len(skills)
            t == Append(skills, s)
            f == Joined(skills)
            g == Joined(t)
            P == {k \in Nat : k \in 1 .. n => f[k] \in Text /\ g[k] = f[k]}
<1>1. t \in Seq(Text) /\ Len(t) = n + 1 /\ n \in Nat /\ t[n + 1] = s
  OBVIOUS
<1>2. \A i \in 1 .. n : t[i] = skills[i] /\ skills[i] \in Text
  OBVIOUS
<1>3. ASSUME NEW i \in 1 .. n
      PROVE  f[i] = IF i = 1 THEN skills[i] ELSE f[i - 1] \o skills[i]
  BY JoinedAt
<1>4. ASSUME NEW i \in 1 .. n + 1
      PROVE  g[i] = IF i = 1 THEN t[i] ELSE g[i - 1] \o t[i]
  BY <1>1, JoinedAt
<1>. HIDE DEF f, g, t, n
<1>5. 0 \in P
  OBVIOUS
<1>6. ASSUME NEW k \in Nat, k \in P
      PROVE  k + 1 \in P
  <2>1. SUFFICES ASSUME k + 1 \in 1 .. n
                 PROVE  f[k + 1] \in Text /\ g[k + 1] = f[k + 1]
    OBVIOUS
  <2>2. k + 1 \in 1 .. n + 1
    BY <1>1, <2>1
  <2>3. t[k + 1] = skills[k + 1] /\ skills[k + 1] \in Text
    BY <1>2, <2>1
  <2>4. CASE k = 0
    <3>1. f[k + 1] = skills[k + 1] /\ g[k + 1] = t[k + 1]
      BY <1>3, <1>4, <2>1, <2>2, <2>4
    <3>. QED
      BY <2>3, <3>1
  <2>5. CASE k # 0
    <3>1. k \in 1 .. n /\ k + 1 # 1 /\ (k + 1) - 1 = k
      BY <1>1, <2>1, <2>5
    <3>2. f[k] \in Text /\ g[k] = f[k]
      BY <1>6, <3>1
    <3>3. f[k + 1] = f[k] \o skills[k + 1] /\ g[k + 1] = g[k] \o t[k + 1]
      BY <1>3, <1>4, <2>1, <2>2, <3>1
    <3>. QED
      BY <2>3, <3>2, <3>3, Joint
  <2>. QED
    BY <2>4, <2>5
<1>. HIDE DEF P
<1>7. \A k \in 1 .. n : f[k] \in Text /\ g[k] = f[k]
  <2>1. TAKE k \in 1 .. n
  <2>2. k \in Nat
    BY <1>1
  <2>3. k \in P
    BY <1>5, <1>6, <2>2, Inductive
  <2>. QED
    BY <2>3 DEF P
<1>8. CASE n = 0
  <2>1. skills = <<>>
    BY <1>8 DEF n
  <2>2. FlattenSeq(skills) = skills
    BY <1>8, FlattenIs DEF n
  <2>3. <<>> \in Text
    BY DEF Text
  <2>. QED
    BY <2>1, <2>2, <2>3
<1>9. CASE n # 0
  <2>1. n \in 1 .. n /\ n + 1 \in 1 .. n + 1 /\ n + 1 # 1 /\ (n + 1) - 1 = n
    BY <1>1, <1>9
  <2>2. FlattenSeq(skills) = f[n]
    BY <1>9, FlattenIs DEF n, f
  <2>3. FlattenSeq(t) = g[n + 1]
    BY <1>1, FlattenIs DEF g
  <2>4. g[n + 1] = f[n] \o s
    BY <1>1, <1>4, <1>7, <2>1
  <2>. QED
    BY <1>7, <2>1, <2>2, <2>3, <2>4 DEF t
<1>. QED
  BY <1>8, <1>9

-----------------------------------------------------------------------------
(* Labels                                                                  *)

LEMMA LastOf ==
  ASSUME NEW n \in Nat, NEW S \in SUBSET (1 .. n), S # {}
  PROVE  /\ Max(S) \in S
         /\ \A y \in S : y <= Max(S)
<1>. DEFINE T == {m \in Nat : \A y \in S : y <= m}
<1>1. n \in T
  OBVIOUS
<1>2. PICK m \in T : \A k \in T : m <= k
  BY <1>1, LeastNumber
<1>3. m \in S
  <2>1. SUFFICES ASSUME m \notin S
                 PROVE  FALSE
    OBVIOUS
  <2>2. \A y \in S : y \in 1 .. n /\ y <= m /\ y # m
    BY <1>2, <2>1
  <2>3. PICK z \in S : z \in 1 .. n
    OBVIOUS
  <2>4. m \in Nat /\ m >= 1
    BY <1>2, <2>2, <2>3
  <2>5. \A y \in S : y <= m - 1
    BY <2>2, <2>4
  <2>6. m - 1 \in T
    BY <2>4, <2>5
  <2>. HIDE DEF T
  <2>. QED
    BY <1>2, <2>4, <2>6
<1>4. \E x \in S : \A y \in S : x >= y
  BY <1>2, <1>3
<1>. QED
  BY <1>4 DEF Max

\* The labels of the first skills, and what one more adds.
Labelled(labels, s) ==
    IF ~Known(s) \/ Contains(labels, Alias[s]) THEN labels ELSE Append(labels, Alias[s])
Labels(skills) ==
    CHOOSE f : f = [S \in SUBSET DOMAIN skills |->
                       IF S = {} THEN <<>>
                       ELSE Labelled(f[S \ {Max(S)}], skills[Max(S)])]
Labelling(f, skills, n) ==
    f = [S \in SUBSET (1 .. n) |->
            IF S = {} THEN <<>> ELSE Labelled(f[S \ {Max(S)}], skills[Max(S)])]

LEMMA NormalizeIs ==
  ASSUME NEW skills
  PROVE  NormalizeExtractedSkills(skills) = Labels(skills)[DOMAIN skills]
BY DEF NormalizeExtractedSkills, FoldLeft, MapThenFoldSet, Labels, Labelled

LEMMA LabellingAll ==
  ASSUME NEW skills \in Seq(Text)
  PROVE  Labelling(Labels(skills), skills, Len(skills))
<1>. DEFINE P == {k \in Nat : \E f : Labelling(f, skills, k)}
<1>1. 0 \in P
  <2>. DEFINE f == [S \in SUBSET (1 .. 0) |-> <<>>]
  <2>1. f = [S \in SUBSET (1 .. 0) |->
                IF S = {} THEN <<>> ELSE Labelled(f[S \ {Max(S)}], skills[Max(S)])]
    <3>1. \A S \in SUBSET (1 .. 0) : S = {}
      OBVIOUS
    <3>. QED
      BY <3>1
  <2>. HIDE DEF f
  <2>2. Labelling(f, skills, 0)
    BY <2>1 DEF Labelling
  <2>. QED
    BY <2>2
<1>2. ASSUME NEW n \in Nat, n \in P
      PROVE  n + 1 \in P
  <2>1. PICK f : Labelling(f, skills, n)
    BY <1>2
  <2>. DEFINE g == [S \in SUBSET (1 .. n + 1) |->
                       IF S = {} THEN <<>> ELSE Labelled(f[S \ {Max(S)}], skills[Max(S)])]
  <2>2. ASSUME NEW S \in SUBSET (1 .. n)
        PROVE  g[S] = f[S]
    <3>1. f = [V \in SUBSET (1 .. n) |->
                  IF V = {} THEN <<>> ELSE Labelled(f[V \ {Max(V)}], skills[Max(V)])]
      BY <2>1 DEF Labelling
    <3>2. f[S] = IF S = {} THEN <<>> ELSE Labelled(f[S \ {Max(S)}], skills[Max(S)])
      BY <3>1
    <3>3. S \in SUBSET (1 .. n + 1)
      OBVIOUS
    <3>. QED
      BY <3>2, <3>3
  <2>3. ASSUME NEW S \in SUBSET (1 .. n + 1), S # {}
        PROVE  g[S \ {Max(S)}] = f[S \ {Max(S)}]
    <3>. DEFINE m == Max(S)
    <3>0. n + 1 \in Nat
      OBVIOUS
    <3>1. m \in S /\ \A y \in S : y <= m
      BY <2>3, <3>0, LastOf
    <3>. HIDE DEF g, m
    <3>2. \A y \in S \ {m} : y \in 1 .. n
      BY <3>1
    <3>3. S \ {m} \in SUBSET (1 .. n)
      BY <3>2
    <3>. QED
      BY <2>2, <3>3 DEF m
  <2>4. g = [S \in SUBSET (1 .. n + 1) |->
                IF S = {} THEN <<>> ELSE Labelled(g[S \ {Max(S)}], skills[Max(S)])]
    BY <2>3
  <2>. HIDE DEF g
  <2>5. Labelling(g, skills, n + 1)
    BY <2>4 DEF Labelling
  <2>. QED
    BY <2>5
<1>. HIDE DEF P
<1>3. Len(skills) \in P
  BY <1>1, <1>2, Inductive
<1>4. DOMAIN skills = 1 .. Len(skills)
  OBVIOUS
<1>5. \E f : Labelling(f, skills, Len(skills))
  BY <1>3 DEF P
<1>. QED
  BY <1>4, <1>5 DEF Labelling, Labels

LEMMA LabelsAt ==
  ASSUME NEW skills \in Seq(Text), NEW i \in 0 .. Len(skills)
  PROVE  Labels(skills)[1 .. i] =
            IF i = 0 THEN <<>> ELSE Labelled(Labels(skills)[1 .. i - 1], skills[i])
<1>. DEFINE f == Labels(skills)
            S == 1 .. i
<1>1. Labelling(f, skills, Len(skills))
  BY LabellingAll
<1>. HIDE DEF f
<1>2. S \in SUBSET (1 .. Len(skills)) /\ (S = {} <=> i = 0)
  OBVIOUS
<1>3. i # 0 => Max(S) = i
  <2>1. SUFFICES ASSUME i # 0
                 PROVE  Max(S) = i
    OBVIOUS
  <2>2. i \in Nat \ {0} /\ Len(skills) \in Nat
    BY <2>1
  <2>3. i \in S /\ \A y \in S : y <= i /\ y \in Int
    BY <2>2
  <2>. DEFINE m == Max(S)
  <2>. HIDE DEF S
  <2>4. m \in S /\ \A y \in S : y <= m
    BY <1>2, <2>2, <2>3, LastOf
  <2>. HIDE DEF m
  <2>5. m = i
    BY <2>2, <2>3, <2>4
  <2>. QED
    BY <2>5 DEF m
<1>4. i # 0 => S \ {i} = 1 .. i - 1
  OBVIOUS
<1>. HIDE DEF S
<1>5. f[S] = IF S = {} THEN <<>> ELSE Labelled(f[S \ {Max(S)}], skills[Max(S)])
  <2>1. f = [V \in SUBSET (1 .. Len(skills)) |->
                IF V = {} THEN <<>> ELSE Labelled(f[V \ {Max(V)}], skills[Max(V)])]
    BY <1>1 DEF Labelling
  <2>. QED
    BY <1>2, <2>1
<1>6. f[S] = IF i = 0 THEN <<>> ELSE Labelled(f[1 .. i - 1], skills[i])
  BY <1>2, <1>3, <1>4, <1>5
<1>. QED
  BY <1>6 DEF f, S

\* A further skill of an uploaded CV adds its label, if the catalogue has one the
\* CV lacks.
LEMMA NormalizeGrows ==
  ASSUME NEW skills \in Seq(Text), NEW s \in Text
  PROVE  /\ NormalizeExtractedSkills(skills) \in Seq(Text)
         /\ NormalizeExtractedSkills(Append(skills, s))
               = Labelled(NormalizeExtractedSkills(skills), s)
<1>. DEFINE n == Len(skills)
            t == Append(skills, s)
            f == Labels(skills)
            g == Labels(t)
            P == {k \in Nat : k <= n => f[1 .. k] \in Seq(Text) /\ g[1 .. k] = f[1 .. k]}
<1>1. t \in Seq(Text) /\ Len(t) = n + 1 /\ n \in Nat /\ t[n + 1] = s
  OBVIOUS
<1>2. \A i \in 1 .. n : t[i] = skills[i]
  OBVIOUS
<1>3. DOMAIN skills = 1 .. n /\ DOMAIN t = 1 .. n + 1
  OBVIOUS
<1>4. ASSUME NEW i \in 0 .. n
      PROVE  f[1 .. i] = IF i = 0 THEN <<>> ELSE Labelled(f[1 .. i - 1], skills[i])
  BY LabelsAt
<1>5. ASSUME NEW i \in 0 .. n + 1
      PROVE  g[1 .. i] = IF i = 0 THEN <<>> ELSE Labelled(g[1 .. i - 1], t[i])
  BY <1>1, LabelsAt
<1>6. ASSUME NEW labels \in Seq(Text), NEW x
      PROVE  Labelled(labels, x) \in Seq(Text)
  <2>1. CASE Known(x)
    <3>1. Alias[x] \in Text
      BY <2>1, TextAssumption DEF Known
    <3>. QED
      BY <3>1 DEF Labelled
  <2>. QED
    BY <2>1 DEF Labelled
<1>. HIDE DEF f, g, t, n
<1>7. 0 \in P
  <2>1. 0 \in 0 .. n /\ 0 \in 0 .. n + 1
    BY <1>1
  <2>2. f[1 .. 0] = <<>> /\ g[1 .. 0] = <<>>
    BY <1>4, <1>5, <2>1
  <2>3. <<>> \in Seq(Text)
    OBVIOUS
  <2>. QED
    BY <2>2, <2>3
<1>8. ASSUME NEW k \in Nat, k \in P
      PROVE  k + 1 \in P
  <2>1. SUFFICES ASSUME k + 1 <= n
                 PROVE  f[1 .. k + 1] \in Seq(Text) /\ g[1 .. k + 1] = f[1 .. k + 1]
    OBVIOUS
  <2>2. /\ k + 1 \in 0 .. n /\ k + 1 \in 0 .. n + 1 /\ k + 1 \in 1 .. n
        /\ k + 1 # 0 /\ (k + 1) - 1 = k /\ k <= n
    BY <1>1, <2>1
  <2>3. f[1 .. k] \in Seq(Text) /\ g[1 .. k] = f[1 .. k]
    BY <1>8, <2>2
  <2>4. f[1 .. k + 1] = Labelled(f[1 .. k], skills[k + 1])
    BY <1>4, <2>2
  <2>5. g[1 .. k + 1] = Labelled(g[1 .. k], t[k + 1])
    BY <1>5, <2>2
  <2>6. t[k + 1] = skills[k + 1]
    BY <1>2, <2>2
  <2>. QED
    BY <1>6, <2>3, <2>4, <2>5, <2>6
<1>. HIDE DEF P
<1>9. f[1 .. n] \in Seq(Text) /\ g[1 .. n] = f[1 .. n]
  <2>1. n \in P
    BY <1>1, <1>7, <1>8, Inductive
  <2>. QED
    BY <1>1, <2>1 DEF P
<1>10. n + 1 \in 0 .. n + 1 /\ n + 1 # 0 /\ (n + 1) - 1 = n
  BY <1>1
<1>11. g[1 .. n + 1] = Labelled(g[1 .. n], s)
  BY <1>1, <1>5, <1>10
<1>12. NormalizeExtractedSkills(skills) = f[1 .. n]
  BY <1>3, NormalizeIs DEF f
<1>13. NormalizeExtractedSkills(t) = g[1 .. n + 1]
  BY <1>3, NormalizeIs DEF g
<1>. QED
  BY <1>9, <1>11, <1>12, <1>13 DEF t

-----------------------------------------------------------------------------
(* What a further skill does                                               *)

LEMMA MatchedStays ==
  ASSUME NEW skills \in Seq(Text), NEW s \in Text, NEW r, Matched(r, skills)
  PROVE  Matched(r, Append(skills, s))
<1>1. ToSet(skills) \subseteq ToSet(Append(skills, s))
  <2>1. \A i \in DOMAIN skills :
           i \in DOMAIN Append(skills, s) /\ Append(skills, s)[i] = skills[i]
    OBVIOUS
  <2>. QED
    BY <2>1 DEF ToSet
<1>. QED
  BY <1>1 DEF Matched

\* Words of proficiency that were found are found again.
LEMMA WordsStay ==
  ASSUME NEW skills \in Seq(Text), NEW s \in Text, NEW p \in Text, Len(p) > 0,
         OccursIn(p, FlattenSeq(skills))
  PROVE  OccursIn(p, FlattenSeq(Append(skills, s)))
<1>1. CASE skills = <<>>
  <2>1. FlattenSeq(skills) = <<>>
    BY <1>1, FlattenIs
  <2>. QED
    BY <2>1, OccursNowhere
<1>2. CASE skills # <<>>
  <2>1. FlattenSeq(skills) \in Text
    BY FlattenGrows
  <2>2. FlattenSeq(Append(skills, s)) = FlattenSeq(skills) \o s
    BY <1>2, FlattenGrows
  <2>. QED
    BY <2>1, <2>2, OccursStays
<1>. QED
  BY <1>1, <1>2

LEMMA ProficiencyGrows ==
  ASSUME NEW skills \in Seq(Text), NEW s \in Text, NEW r \in Text
  PROVE  DetermineProficiency(r, skills) <= DetermineProficiency(r, Append(skills, s))
<1>. DEFINE text(q) == FlattenSeq(q)
            Before(word, q) == OccursIn(<<word>> \o r, text(q))
            Behind(word, q) == OccursIn(r \o <<word>>, text(q))
            t == Append(skills, s)
<1>1. ASSUME NEW word \in Words
      PROVE  /\ Before(word, skills) => Before(word, t)
             /\ Behind(word, skills) => Behind(word, t)
  <2>1. /\ <<word>> \o r \in Text /\ Len(<<word>> \o r) > 0
        /\ r \o <<word>> \in Text /\ Len(r \o <<word>>) > 0
    <3>1. <<word>> \in Seq(Words) /\ Len(<<word>>) = 1 /\ r \in Seq(Words)
      BY DEF Text
    <3>2. \A v, w \in Seq(Words) : v \o w \in Seq(Words) /\ Len(v \o w) = Len(v) + Len(w)
      OBVIOUS
    <3>. QED
      BY <3>1, <3>2 DEF Text
  <2>. QED
    BY <2>1, WordsStay
<1>. HIDE DEF text
<1>2. "expert" \in Words /\ "advanced" \in Words /\ "proficient" \in Words
  BY TextAssumption
<1>3. ASSUME NEW q
      PROVE  DetermineProficiency(r, q) =
                IF Before("expert", q) \/ Behind("expert", q) THEN 100
                ELSE IF Before("advanced", q) \/ Behind("advanced", q)
                        \/ Before("proficient", q) THEN 85
                ELSE 70
  BY DEF DetermineProficiency, text
<1>. HIDE DEF Before, Behind
<1>4. /\ Before("expert", skills) => Before("expert", t)
      /\ Behind("expert", skills) => Behind("expert", t)
      /\ Before("advanced", skills) => Before("advanced", t)
      /\ Behind("advanced", skills) => Behind("advanced", t)
      /\ Before("proficient", skills) => Before("proficient", t)
  BY <1>1, <1>2
<1>. HIDE DEF t
<1>5. DetermineProficiency(r, skills) <= DetermineProficiency(r, t)
  BY <1>3, <1>4
<1>. QED
  BY <1>5 DEF t

LEMMA PointsGrow ==
  ASSUME NEW skills \in Seq(Text), NEW s \in Text, NEW r \in Text
  PROVE  Points(r, skills) <= Points(r, Append(skills, s))
<1>. DEFINE t == Append(skills, s)
<1>1. Matched(r, skills) => Matched(r, t)
  BY MatchedStays
<1>2. DetermineProficiency(r, skills) <= DetermineProficiency(r, t)
  BY ProficiencyGrows
<1>. HIDE DEF t
<1>3. CASE Matched(r, skills)
  <2>1. /\ Points(r, skills) = DetermineProficiency(r, skills)
        /\ Points(r, t) = DetermineProficiency(r, t)
    BY <1>1, <1>3 DEF Points
  <2>. QED
    BY <1>2, <2>1 DEF t
<1>4. CASE ~ Matched(r, skills)
  <2>1. Points(r, skills) = 0 /\ Points(r, t) \in 0 .. 100
    BY <1>4, PointsRange DEF Points
  <2>2. \A p \in 0 .. 100 : 0 <= p
    OBVIOUS
  <2>. QED
    BY <2>1, <2>2 DEF t
<1>. QED
  BY <1>3, <1>4

\* A further skill never lowers the score of the skills.
LEMMA SkillsMatchGrows ==
  ASSUME NEW skills \in Seq(Text), NEW s \in Text, NEW R \in SUBSET Text, IsFiniteSet(R)
  PROVE  CalculateSkillsMatch(skills, R) <= CalculateSkillsMatch(Append(skills, s), R)
<1>. DEFINE t == Append(skills, s)
            a == Sums(skills, R)[R]
            c == Sums(t, R)[R]
            n == Cardinality(R)
<1>1. \A r \in R : Points(r, skills) <= Points(r, t)
  BY PointsGrow
<1>2. a \in Nat /\ c \in Nat
  BY SumRange
<1>3. a <= c
  BY <1>1, SumGrows
<1>4. /\ CalculateSkillsMatch(skills, R) = IF R = {} THEN 0 ELSE ScorePercentage(a, n)
      /\ CalculateSkillsMatch(t, R) = IF R = {} THEN 0 ELSE ScorePercentage(c, n)
  BY SkillsMatchSums
<1>5. R # {} => n \in Nat \ {0}
  BY Sized
<1>. HIDE DEF a, c, n, t
<1>6. R # {} => ScorePercentage(a, n) <= ScorePercentage(c, n)
  BY <1>2, <1>3, <1>5, PercentageGrows
<1>7. CalculateSkillsMatch(skills, R) <= CalculateSkillsMatch(t, R)
  BY <1>4, <1>6
<1>. QED
  BY <1>7 DEF t

\* The score of the skills is one of 0 to 100, and at least 70 when every skill
\* asked for is matched, however many are asked for and however many the CV names.
THEOREM SkillsInRange ==
  ASSUME NEW skills, NEW R, IsFiniteSet(R)
  PROVE  /\ CalculateSkillsMatch(skills, R) \in 0 .. 100
         /\ (R # {} /\ \A r \in R : Matched(r, skills)) => CalculateSkillsMatch(skills, R) >= 70
<1>. DEFINE a == Sums(skills, R)[R]
            n == Cardinality(R)
            all == \A r \in R : Matched(r, skills)
<1>1. a \in Nat /\ a <= 100 * n /\ (all => a >= 70 * n)
  BY SumRange
<1>2. CalculateSkillsMatch(skills, R) = IF R = {} THEN 0 ELSE ScorePercentage(a, n)
  BY SkillsMatchSums
<1>3. R # {} => n \in Nat \ {0}
  BY Sized
<1>. HIDE DEF a, n, all
<1>4. R # {} => LET q == ScorePercentage(a, n) IN
                /\ q \in Nat
                /\ a <= 100 * n => q <= 100
                /\ a >= 70 * n => q >= 70
  BY <1>1, <1>3, PercentageRange
<1>5. /\ CalculateSkillsMatch(skills, R) \in 0 .. 100
      /\ (R # {} /\ all) => CalculateSkillsMatch(skills, R) >= 70
  BY <1>1, <1>2, <1>4
<1>. QED
  BY <1>5 DEF all

\* The skills a CV is matched by, after one more: the same, the same and one more,
\* or else the first label an uploaded CV has taken over.
LEMMA CandidateGrows ==
  ASSUME NEW c, NEW d, NEW s \in Text, c.skills \in Seq(Text),
         d.source = c.source, d.skills = Append(c.skills, s)
  PROVE  /\ CandidateSkills(c) \in Seq(Text)
         /\ \/ CandidateSkills(d) = CandidateSkills(c)
            \/ \E x \in Text : CandidateSkills(d) = Append(CandidateSkills(c), x)
            \/ c.source = "upload" /\ NormalizeExtractedSkills(c.skills) = <<>> /\ Known(s)
<1>. DEFINE N(q) == NormalizeExtractedSkills(q)
            skills == c.skills
            t == Append(skills, s)
<1>1. N(skills) \in Seq(Text) /\ N(t) = Labelled(N(skills), s)
  BY NormalizeGrows
<1>2. t # <<>>
  OBVIOUS
<1>3. CandidateSkills(c) =
         IF c.source = "upload" /\ N(skills) # <<>> THEN N(skills) ELSE skills
  BY DEF CandidateSkills, ParseResume, MapCvProfileToParsedData
<1>4. CandidateSkills(d) = IF c.source = "upload" /\ N(t) # <<>> THEN N(t) ELSE t
  BY DEF CandidateSkills, ParseResume, MapCvProfileToParsedData
<1>. HIDE DEF N
<1>5. CASE c.source # "upload"
  BY <1>3, <1>4, <1>5
<1>6. CASE c.source = "upload" /\ N(skills) # <<>>
  <2>1. CandidateSkills(c) = N(skills)
    BY <1>3, <1>6
  <2>2. CASE ~Known(s) \/ Contains(N(skills), Alias[s])
    <3>1. N(t) = N(skills)
      BY <1>1, <2>2 DEF Labelled
    <3>. QED
      BY <1>1, <1>4, <1>6, <2>1, <3>1
  <2>3. CASE Known(s) /\ ~Contains(N(skills), Alias[s])
    <3>1. Alias[s] \in Text
      BY <2>3, TextAssumption DEF Known
    <3>2. N(t) = Append(N(skills), Alias[s])
      BY <1>1, <2>3 DEF Labelled
    <3>3. \A q \in Seq(Text), x \in Text : Append(q, x) # <<>>
      OBVIOUS
    <3>4. N(t) # <<>>
      BY <1>1, <3>1, <3>2, <3>3
    <3>5. CandidateSkills(d) = Append(CandidateSkills(c), Alias[s])
      BY <1>4, <1>6, <2>1, <3>2, <3>4
    <3>. QED
      BY <1>1, <2>1, <3>1, <3>5
  <2>. QED
    BY <2>2, <2>3
<1>7. CASE c.source = "upload" /\ N(skills) = <<>> /\ ~Known(s)
  <2>1. N(t) = <<>>
    BY <1>1, <1>7 DEF Labelled
  <2>. QED
    BY <1>3, <1>4, <1>7, <2>1
<1>8. CASE c.source = "upload" /\ N(skills) = <<>> /\ Known(s)
  <2>1. CandidateSkills(c) = skills
    BY <1>3, <1>8
  <2>. QED
    BY <1>8, <2>1 DEF N
<1>. QED
  BY <1>5, <1>6, <1>7, <1>8

-----------------------------------------------------------------------------
(* Years, degrees and verdicts                                             *)

\* The score of the years is one of 0 to 100, and never below 85 from the
\* ideal years on: being over-qualified costs at most fifteen points
\* (calculateExperienceScore).
THEOREM ExperienceInRange ==
  ASSUME NEW level \in Levels, NEW years \in Nat
  PROVE  /\ CalculateExperienceScore(years, level) \in 0 .. 100
         /\ years >= Scale[level].ideal => CalculateExperienceScore(years, level) >= 85
<1> USE DEF CalculateExperienceScore, Scale, Nearest
<1>1. CASE level = "Internship"
  BY <1>1
<1>2. CASE level = "Junior"
  BY <1>2
<1>3. CASE level = "Mid"
  BY <1>3
<1>4. CASE level = "Senior"
  BY <1>4
<1>5. CASE level = "Lead"
  BY <1>5
<1>6. CASE level = "Manager"
  BY <1>6
<1>7. QED
  BY <1>1, <1>2, <1>3, <1>4, <1>5, <1>6 DEF Levels

\* A further year counts for the candidate until the years exceed those the
\* level allows for.
LEMMA YearsNeverLower ==
  ASSUME NEW level \in Levels, NEW years \in Nat, years + 1 <= Scale[level].max
  PROVE  CalculateExperienceScore(years, level)
            <= CalculateExperienceScore(years + 1, level)
<1> USE DEF CalculateExperienceScore, Scale, Nearest
<1>1. CASE level = "Internship"
  BY <1>1
<1>2. CASE level = "Junior"
  BY <1>2
<1>3. CASE level = "Mid"
  BY <1>3
<1>4. CASE level = "Senior"
  BY <1>4
<1>5. CASE level = "Lead"
  BY <1>5
<1>6. CASE level = "Manager"
  BY <1>6
<1>7. QED
  BY <1>1, <1>2, <1>3, <1>4, <1>5, <1>6 DEF Levels

\* The ideal years up to the most the level allows for score in full.
LEMMA IdealYears ==
  ASSUME NEW level \in Levels,
         NEW years \in Scale[level].ideal .. Scale[level].max
  PROVE  CalculateExperienceScore(years, level) = 100
<1> USE DEF CalculateExperienceScore, Scale, Nearest
<1>1. CASE level = "Internship"
  BY <1>1
<1>2. CASE level = "Junior"
  BY <1>2
<1>3. CASE level = "Mid"
  BY <1>3
<1>4. CASE level = "Senior"
  BY <1>4
<1>5. CASE level = "Lead"
  BY <1>5
<1>6. CASE level = "Manager"
  BY <1>6
<1>7. QED
  BY <1>1, <1>2, <1>3, <1>4, <1>5, <1>6 DEF Levels

\* Seventy points for the skills, the ideal years and the best education are
\* enough for excellence and approval: the weights 50, 30 and 20 reach the
\* threshold of 85 with nothing to spare (SCORE_THRESHOLDS, AUTO_STATUS_RULES).
THEOREM FitSuffices ==
  ASSUME NEW level \in Levels, NEW skills \in 70 .. 100,
         NEW years \in Scale[level].ideal .. Scale[level].max, NEW total,
         total = 5 * skills + 3 * CalculateExperienceScore(years, level) + 2 * 100
  PROVE  /\ DeterminePriority(total) = "EXCELLENT"
         /\ DetermineAutoStatus(total, skills) = "APPROVED"
         /\ skills = 70 => total = 850
<1>1. total = 5 * skills + 500
  BY IdealYears
<1>. QED
  BY <1>1 DEF DeterminePriority, Class, DetermineAutoStatus

\* Whatever the score, the recommendation and the priority agree, the words of
\* the summary differ from them only where rounding lifts it to a threshold, and
\* none but the excellent are approved (generateSummary, determinePriority,
\* generateRecommendation, determineAutoStatus).
LEMMA VerdictsFollow ==
  ASSUME NEW total \in Nat, NEW skills \in Nat
  PROVE  /\ \/ GenerateSummary(total) = DeterminePriority(total)
            \/ /\ MatchingScore(total) \in {50, 70, 85}
               /\ 10 * MatchingScore(total) - total \in 1 .. 5
         /\ GenerateRecommendation(total) = DeterminePriority(total)
         /\ DetermineAutoStatus(total, skills) = "APPROVED" =>
               DeterminePriority(total) = "EXCELLENT"
<1>. DEFINE shown == MatchingScore(total)
<1>1. shown \in Nat /\ 10 * shown - total \in -4 .. 5
  BY DEF MatchingScore, Nearest
<1>2. GenerateSummary(total) = Class(10 * shown)
  BY DEF GenerateSummary
<1>. HIDE DEF shown
<1>3. Class(10 * shown) = Class(total) \/ (shown \in {50, 70, 85} /\ 10 * shown - total \in 1 .. 5)
  BY <1>1 DEF Class
<1>4. DetermineAutoStatus(total, skills) = "APPROVED" => Class(total) = "EXCELLENT"
  BY DEF DetermineAutoStatus, Class
<1>. QED
  BY <1>2, <1>3, <1>4 DEF GenerateRecommendation, DeterminePriority, shown

LEMMA EducationInRange ==
  ASSUME NEW level \in Levels, NEW degrees \in SUBSET Degrees
  PROVE  CalculateEducationScore(degrees, level) \in 0 .. 100
<1> USE DEF CalculateEducationScore
<1>1. CASE degrees = {}
  BY <1>1
<1>2. CASE degrees # {} /\ level = "Internship"
  BY <1>2
<1>3. CASE degrees # {} /\ level = "Junior"
  BY <1>3
<1>4. CASE degrees # {} /\ level = "Mid"
  BY <1>4
<1>5. CASE degrees # {} /\ level = "Senior"
  BY <1>5
<1>6. CASE degrees # {} /\ level \in {"Lead", "Manager"}
  BY <1>6
<1>. QED
  BY <1>1, <1>2, <1>3, <1>4, <1>5, <1>6 DEF Levels

\* A further degree counts for the candidate, but for a bachelor's beside a
\* master's at mid level and for an education without a degree from Senior upwards
\* (EDUCATION_SCORE_BY_LEVEL).
LEMMA DegreesNeverLower ==
  ASSUME NEW level \in Levels, NEW degrees \in SUBSET Degrees, NEW d \in Degrees,
         d \notin degrees,
         ~ (level = "Mid" /\ "master" \in degrees /\ d = "bachelor"),
         ~ (degrees = {} /\ d = "other" /\ level \in {"Senior", "Lead", "Manager"})
  PROVE  CalculateEducationScore(degrees, level)
            <= CalculateEducationScore(degrees \cup {d}, level)
<1>. DEFINE more == degrees \cup {d}
<1>1. /\ "master" \in degrees => "master" \in more
      /\ "bachelor" \in degrees => "bachelor" \in more
      /\ more # {}
  OBVIOUS
<1>2. degrees = {} => \/ "master" \in more
                      \/ "bachelor" \in more
                      \/ d = "other"
  BY DEF Degrees
<1>3. level \in {"Senior", "Lead", "Manager"} /\ degrees = {} =>
         "master" \in more \/ "bachelor" \in more
  BY <1>2
<1>4. level = "Mid" /\ "master" \in degrees /\ "bachelor" \notin degrees => "bachelor" \notin more
  OBVIOUS
<1>. HIDE DEF more
<1>5. CASE level = "Internship"
  BY <1>1, <1>5 DEF CalculateEducationScore
<1>6. CASE level = "Junior"
  BY <1>1, <1>6 DEF CalculateEducationScore
<1>7. CASE level = "Mid"
  BY <1>1, <1>4, <1>7 DEF CalculateEducationScore
<1>8. CASE level = "Senior"
  <2>1. degrees = {} => "master" \in more \/ "bachelor" \in more
    BY <1>3, <1>8
  <2>2. ASSUME NEW q
        PROVE  CalculateEducationScore(q, level) =
                  IF q = {} THEN 50 ELSE IF "master" \in q THEN 100
                  ELSE IF "bachelor" \in q THEN 80 ELSE 40
    BY <1>8 DEF CalculateEducationScore
  <2>3. CASE degrees = {}
    <3>1. /\ CalculateEducationScore(degrees, level) = 50
          /\ CalculateEducationScore(more, level) \in {80, 100}
      BY <1>1, <2>1, <2>2, <2>3
    <3>. QED
      BY <3>1 DEF more
  <2>4. CASE degrees # {}
    <3>1. CalculateEducationScore(degrees, level) <= CalculateEducationScore(more, level)
      BY <1>1, <2>2, <2>4
    <3>. QED
      BY <3>1 DEF more
  <2>. QED
    BY <2>3, <2>4
<1>9. CASE level \in {"Lead", "Manager"}
  <2>1. degrees = {} => "master" \in more \/ "bachelor" \in more
    BY <1>3, <1>9
  <2>2. ASSUME NEW q
        PROVE  CalculateEducationScore(q, level) =
                  IF q = {} THEN 50 ELSE IF "master" \in q THEN 100
                  ELSE IF "bachelor" \in q THEN 70 ELSE 30
    BY <1>9 DEF CalculateEducationScore
  <2>3. CASE degrees = {}
    <3>1. /\ CalculateEducationScore(degrees, level) = 50
          /\ CalculateEducationScore(more, level) \in {70, 100}
      BY <1>1, <2>1, <2>2, <2>3
    <3>. QED
      BY <3>1 DEF more
  <2>4. CASE degrees # {}
    <3>1. CalculateEducationScore(degrees, level) <= CalculateEducationScore(more, level)
      BY <1>1, <2>2, <2>4
    <3>. QED
      BY <3>1 DEF more
  <2>. QED
    BY <2>3, <2>4
<1>. QED
  BY <1>5, <1>6, <1>7, <1>8, <1>9 DEF Levels, more

-----------------------------------------------------------------------------
(* The CV that grows                                                       *)

CVs == [source : {"upload", "online"}, skills : Seq(Entries), years : Nat,
        degrees : SUBSET Degrees]

\* The inductive invariant: what was matched is the CV as it is.
MatchIInv == posting \in Postings /\ cv \in CVs /\ match = CalculateMatch(cv, posting)

\* Every CV that grows stays one of its kind and is matched as it is (calculateMatch).
THEOREM MatchInvariant == MatchSpec => []MatchIInv
<1>1. MatchInit => MatchIInv
  <2>1. SUFFICES ASSUME MatchInit
                 PROVE  cv \in CVs
    BY DEF MatchInit, MatchIInv
  <2>2. cv \in [source : {"upload", "online"}, skills : {<<>>}, years : {0}, degrees : {{}}]
    BY <2>1 DEF MatchInit
  <2>3. <<>> \in Seq(Entries) /\ 0 \in Nat /\ {} \in SUBSET Degrees
    OBVIOUS
  <2>. QED
    BY <2>2, <2>3 DEF CVs
<1>2. ASSUME MatchIInv, [MatchNext]_matchVars
      PROVE  MatchIInv'
  <2>1. CASE UNCHANGED matchVars
    BY <1>2, <2>1 DEF MatchIInv, matchVars
  <2>2. ASSUME NEW s \in Entries, AddSkill(s)
        PROVE  MatchIInv'
    <3>1. cv' = [cv EXCEPT !.skills = Append(@, s)] /\ Scored
      BY <2>2 DEF AddSkill
    <3>2. Append(cv.skills, s) \in Seq(Entries)
      BY <1>2 DEF MatchIInv, CVs
    <3>3. cv' \in CVs
      BY <1>2, <3>1, <3>2 DEF MatchIInv, CVs
    <3>. QED
      BY <1>2, <3>1, <3>3 DEF MatchIInv, Scored
  <2>3. CASE GainYear
    <3>1. cv' = [cv EXCEPT !.years = @ + 1] /\ Scored
      BY <2>3 DEF GainYear
    <3>2. cv' \in CVs
      BY <1>2, <3>1 DEF MatchIInv, CVs
    <3>. QED
      BY <1>2, <3>1, <3>2 DEF MatchIInv, Scored
  <2>4. ASSUME NEW d \in Degrees, AddDegree(d)
        PROVE  MatchIInv'
    <3>1. cv' = [cv EXCEPT !.degrees = @ \cup {d}] /\ Scored
      BY <2>4 DEF AddDegree
    <3>2. cv' \in CVs
      BY <1>2, <3>1 DEF MatchIInv, CVs
    <3>. QED
      BY <1>2, <3>1, <3>2 DEF MatchIInv, Scored
  <2>. QED
    BY <1>2, <2>1, <2>2, <2>3, <2>4 DEF MatchNext
<1>. QED
  BY <1>1, <1>2, PTL DEF MatchSpec

\* The parts of a score.
LEMMA MatchParts ==
  ASSUME MatchIInv
  PROVE  LET skills == CalculateSkillsMatch(CandidateSkills(cv), posting.skills)
             experience == CalculateExperienceScore(cv.years, posting.level)
             education == CalculateEducationScore(cv.degrees, posting.level)
         IN
         /\ posting.level \in Levels /\ IsFiniteSet(posting.skills)
         /\ posting.skills \in SUBSET Text
         /\ cv.years \in Nat /\ cv.degrees \in SUBSET Degrees /\ cv.skills \in Seq(Text)
         /\ skills \in 0 .. 100 /\ experience \in 0 .. 100 /\ education \in 0 .. 100
         /\ match.skills = skills /\ match.education = education
         /\ match.total = 5 * skills + 3 * experience + 2 * education
<1>1. /\ posting.level \in Levels /\ IsFiniteSet(posting.skills)
      /\ posting.skills \in SUBSET Text
  BY PostingAssumption DEF MatchIInv
<1>2. cv.years \in Nat /\ cv.degrees \in SUBSET Degrees /\ cv.skills \in Seq(Entries)
  BY DEF MatchIInv, CVs
<1>3. cv.skills \in Seq(Text)
  BY <1>2, TextAssumption
<1>4. /\ CalculateSkillsMatch(CandidateSkills(cv), posting.skills) \in 0 .. 100
      /\ CalculateExperienceScore(cv.years, posting.level) \in 0 .. 100
      /\ CalculateEducationScore(cv.degrees, posting.level) \in 0 .. 100
  BY <1>1, <1>2, SkillsInRange, ExperienceInRange, EducationInRange
<1>5. /\ match.skills = CalculateSkillsMatch(CandidateSkills(cv), posting.skills)
      /\ match.education = CalculateEducationScore(cv.degrees, posting.level)
      /\ match.total = 5 * CalculateSkillsMatch(CandidateSkills(cv), posting.skills)
                       + 3 * CalculateExperienceScore(cv.years, posting.level)
                       + 2 * CalculateEducationScore(cv.degrees, posting.level)
  BY DEF MatchIInv, CalculateMatch
<1>. QED
  BY <1>1, <1>2, <1>3, <1>4, <1>5

\* A candidate who fits is excellent and would be approved, whatever the skills
\* asked for and however many (calculateMatch, SCORE_THRESHOLDS).
THEOREM ExcellentIfFit == MatchSpec => []FitIsExcellent
<1>1. MatchIInv => FitIsExcellent
  <2>1. SUFFICES ASSUME MatchIInv,
                        posting.skills # {},
                        \A r \in posting.skills : Matched(r, CandidateSkills(cv)),
                        cv.years \in Scale[posting.level].ideal .. Scale[posting.level].max,
                        match.education = 100
                 PROVE  /\ DeterminePriority(match.total) = "EXCELLENT"
                        /\ DetermineAutoStatus(match.total, match.skills) = "APPROVED"
    BY DEF FitIsExcellent
  <2>. DEFINE skills == match.skills
              experience == CalculateExperienceScore(cv.years, posting.level)
  <2>2. posting.level \in Levels /\ IsFiniteSet(posting.skills)
    BY <2>1, MatchParts
  <2>3. skills = CalculateSkillsMatch(CandidateSkills(cv), posting.skills)
    BY <2>1, MatchParts
  <2>4. skills \in 70 .. 100
    BY <2>1, <2>2, <2>3, SkillsInRange
  <2>5. match.total = 5 * skills + 3 * experience + 2 * 100
    BY <2>1, MatchParts
  <2>. HIDE DEF skills, experience
  <2>6. /\ DeterminePriority(match.total) = "EXCELLENT"
        /\ DetermineAutoStatus(match.total, skills) = "APPROVED"
    BY <2>1, <2>2, <2>4, <2>5, FitSuffices DEF experience
  <2>. QED
    BY <2>6 DEF skills
<1>. QED
  BY <1>1, MatchInvariant, PTL

\* The verdicts on a candidate agree but for the rounding, and one with every skill
\* asked for is not rejected (generateSummary, determineAutoStatus).
THEOREM VerdictsOfMatch == MatchSpec => []VerdictsAgree
<1>1. MatchIInv => VerdictsAgree
  <2>1. SUFFICES ASSUME MatchIInv
                 PROVE  VerdictsAgree
    OBVIOUS
  <2>. DEFINE total == match.total
              skills == match.skills
              all == \A r \in posting.skills : Matched(r, CandidateSkills(cv))
  <2>2. total \in Nat /\ skills \in Nat
    <3>. DEFINE experience == CalculateExperienceScore(cv.years, posting.level)
                education == CalculateEducationScore(cv.degrees, posting.level)
    <3>1. /\ skills \in 0 .. 100 /\ experience \in 0 .. 100 /\ education \in 0 .. 100
          /\ total = 5 * skills + 3 * experience + 2 * education
      BY <2>1, MatchParts
    <3>. HIDE DEF total, skills, experience, education
    <3>. QED
      BY <3>1
  <2>3. (posting.skills # {} /\ all) => skills >= 70
    BY <2>1, MatchParts, SkillsInRange
  <2>. HIDE DEF total, skills, all
  <2>4. DetermineAutoStatus(total, skills) = "REJECTED" => skills < 30
    BY <2>2 DEF DetermineAutoStatus
  <2>5. DetermineAutoStatus(total, skills) = "REJECTED" => posting.skills = {} \/ ~ all
    BY <2>2, <2>3, <2>4
  <2>6. DetermineAutoStatus(total, skills) = "REJECTED" =>
           \/ posting.skills = {}
           \/ \E r \in posting.skills : ~ Matched(r, CandidateSkills(cv))
    BY <2>5 DEF all
  <2>7. /\ \/ GenerateSummary(total) = DeterminePriority(total)
           \/ MatchingScore(total) \in {50, 70, 85} /\ 10 * MatchingScore(total) - total \in 1 .. 5
        /\ GenerateRecommendation(total) = DeterminePriority(total)
        /\ DetermineAutoStatus(total, skills) = "APPROVED" =>
              DeterminePriority(total) = "EXCELLENT"
    BY <2>2, VerdictsFollow
  <2>. QED
    BY <2>6, <2>7 DEF VerdictsAgree, total, skills
<1>. QED
  BY <1>1, MatchInvariant, PTL

LEMMA SkillStep ==
  ASSUME MatchIInv, MatchIInv', NEW s \in Entries, AddSkill(s)
  PROVE  match'.total >= match.total \/ KnownSkillsTakeOver
<1>. DEFINE old == CalculateSkillsMatch(CandidateSkills(cv), posting.skills)
            new == CalculateSkillsMatch(CandidateSkills(cv'), posting.skills)
            years == CalculateExperienceScore(cv.years, posting.level)
            degrees == CalculateEducationScore(cv.degrees, posting.level)
<1>1. /\ cv' = [cv EXCEPT !.skills = Append(cv.skills, s)]
      /\ posting' = posting
  BY DEF AddSkill, Scored
<1>2. /\ cv'.source = cv.source /\ cv'.skills = Append(cv.skills, s)
      /\ cv'.years = cv.years /\ cv'.degrees = cv.degrees
  BY <1>1 DEF MatchIInv, CVs
<1>3. s \in Text /\ cv.skills \in Seq(Text) /\ posting.skills \in SUBSET Text
      /\ IsFiniteSet(posting.skills)
  BY MatchParts, TextAssumption
<1>4. /\ match.total = 5 * old + 3 * years + 2 * degrees
      /\ old \in 0 .. 100 /\ years \in 0 .. 100 /\ degrees \in 0 .. 100
  BY MatchParts
<1>5. match'.total = 5 * new + 3 * years + 2 * degrees
  BY <1>1, <1>2 DEF MatchIInv, CalculateMatch
<1>6. new \in 0 .. 100
  BY <1>3, SkillsInRange
<1>7. CASE CandidateSkills(cv') = CandidateSkills(cv)
  <2>1. new = old
    BY <1>7
  <2>. HIDE DEF new, old, years, degrees
  <2>. QED
    BY <1>4, <1>5, <2>1
<1>8. ASSUME NEW x \in Text, CandidateSkills(cv') = Append(CandidateSkills(cv), x)
      PROVE  match'.total >= match.total
  <2>1. CandidateSkills(cv) \in Seq(Text)
    BY <1>2, <1>3, CandidateGrows
  <2>2. old <= new
    BY <1>3, <1>8, <2>1, SkillsMatchGrows
  <2>. HIDE DEF new, old, years, degrees
  <2>. QED
    BY <1>4, <1>5, <1>6, <2>2
<1>9. CASE cv.source = "upload" /\ NormalizeExtractedSkills(cv.skills) = <<>> /\ Known(s)
  <2>1. cv'.skills # cv.skills
    BY <1>2, <1>3
  <2>2. s \in ToSet(cv'.skills)
    <3>1. Len(cv.skills) + 1 \in DOMAIN cv'.skills /\ cv'.skills[Len(cv.skills) + 1] = s
      BY <1>2, <1>3
    <3>. QED
      BY <3>1 DEF ToSet
  <2>. QED
    BY <1>9, <2>1, <2>2 DEF KnownSkillsTakeOver
<1>10. \/ CandidateSkills(cv') = CandidateSkills(cv)
       \/ \E x \in Text : CandidateSkills(cv') = Append(CandidateSkills(cv), x)
       \/ cv.source = "upload" /\ NormalizeExtractedSkills(cv.skills) = <<>> /\ Known(s)
  BY <1>2, <1>3, CandidateGrows
<1>. QED
  BY <1>7, <1>8, <1>9, <1>10

LEMMA SameSkills ==
  ASSUME NEW c, NEW d, c.source = d.source, c.skills = d.skills
  PROVE  CandidateSkills(c) = CandidateSkills(d)
BY DEF CandidateSkills, ParseResume, MapCvProfileToParsedData

LEMMA YearStep ==
  ASSUME MatchIInv, MatchIInv', GainYear
  PROVE  match'.total >= match.total \/ OverQualified
<1>. DEFINE skills == CalculateSkillsMatch(CandidateSkills(cv), posting.skills)
            old == CalculateExperienceScore(cv.years, posting.level)
            new == CalculateExperienceScore(cv.years + 1, posting.level)
            degrees == CalculateEducationScore(cv.degrees, posting.level)
<1>1. cv' = [cv EXCEPT !.years = cv.years + 1] /\ posting' = posting
  BY DEF GainYear, Scored
<1>2. /\ cv'.source = cv.source /\ cv'.skills = cv.skills
      /\ cv'.years = cv.years + 1 /\ cv'.degrees = cv.degrees
  BY <1>1 DEF MatchIInv, CVs
<1>3. cv.years \in Nat /\ posting.level \in Levels
  BY MatchParts
<1>4. /\ match.total = 5 * skills + 3 * old + 2 * degrees
      /\ skills \in 0 .. 100 /\ old \in 0 .. 100 /\ degrees \in 0 .. 100
  BY MatchParts
<1>5. match'.total = 5 * skills + 3 * new + 2 * degrees
  <2>1. CandidateSkills(cv') = CandidateSkills(cv)
    BY <1>2, SameSkills
  <2>. QED
    BY <1>1, <1>2, <2>1 DEF MatchIInv, CalculateMatch
<1>6. new \in 0 .. 100
  BY <1>3, ExperienceInRange
<1>7. CASE cv.years + 1 <= Scale[posting.level].max
  <2>1. old <= new
    BY <1>3, <1>7, YearsNeverLower
  <2>. HIDE DEF skills, old, new, degrees
  <2>. QED
    BY <1>4, <1>5, <1>6, <2>1
<1>8. CASE ~ (cv.years + 1 <= Scale[posting.level].max)
  <2>1. Scale[posting.level].max \in Nat
    BY <1>3 DEF Scale, Levels
  <2>2. cv'.years > cv.years /\ cv'.years > Scale[posting.level].max
    BY <1>2, <1>3, <1>8, <2>1
  <2>. QED
    BY <2>2 DEF OverQualified
<1>. QED
  BY <1>7, <1>8

LEMMA DegreeStep ==
  ASSUME MatchIInv, MatchIInv', NEW d \in Degrees, AddDegree(d)
  PROVE  match'.total >= match.total \/ BachelorAtMidLevel \/ EducationWithoutDegree
<1>. DEFINE skills == CalculateSkillsMatch(CandidateSkills(cv), posting.skills)
            years == CalculateExperienceScore(cv.years, posting.level)
            old == CalculateEducationScore(cv.degrees, posting.level)
            new == CalculateEducationScore(cv.degrees \cup {d}, posting.level)
<1>1. cv' = [cv EXCEPT !.degrees = cv.degrees \cup {d}] /\ posting' = posting /\ d \notin cv.degrees
  BY DEF AddDegree, Scored
<1>2. /\ cv'.source = cv.source /\ cv'.skills = cv.skills
      /\ cv'.years = cv.years /\ cv'.degrees = cv.degrees \cup {d}
  BY <1>1 DEF MatchIInv, CVs
<1>3. cv.degrees \in SUBSET Degrees /\ posting.level \in Levels
  BY MatchParts
<1>4. /\ match.total = 5 * skills + 3 * years + 2 * old
      /\ skills \in 0 .. 100 /\ years \in 0 .. 100 /\ old \in 0 .. 100
  BY MatchParts
<1>5. match'.total = 5 * skills + 3 * years + 2 * new
  <2>1. CandidateSkills(cv') = CandidateSkills(cv)
    BY <1>2, SameSkills
  <2>. QED
    BY <1>1, <1>2, <2>1 DEF MatchIInv, CalculateMatch
<1>6. new \in 0 .. 100
  BY <1>3, EducationInRange
<1>7. CASE posting.level = "Mid" /\ "master" \in cv.degrees /\ d = "bachelor"
  BY <1>2, <1>7 DEF BachelorAtMidLevel
<1>8. CASE cv.degrees = {} /\ d = "other" /\ posting.level \in {"Senior", "Lead", "Manager"}
  BY <1>2, <1>8 DEF EducationWithoutDegree
<1>9. CASE /\ ~ (posting.level = "Mid" /\ "master" \in cv.degrees /\ d = "bachelor")
           /\ ~ (cv.degrees = {} /\ d = "other" /\ posting.level \in {"Senior", "Lead", "Manager"})
  <2>1. old <= new
    BY <1>1, <1>3, <1>9, DegreesNeverLower
  <2>. HIDE DEF skills, old, new, years
  <2>. QED
    BY <1>4, <1>5, <1>6, <2>1
<1>. QED
  BY <1>7, <1>8, <1>9

\* A further skill, year or degree never lowers the score but in the four cases
\* named, for any catalogue, any postings and any length of CV (calculateMatch).
THEOREM GainsCount == MatchSpec => GainsNeverLower
<1>1. ASSUME MatchIInv, MatchIInv', MatchNext
      PROVE  \/ match'.total >= match.total
             \/ KnownSkillsTakeOver \/ OverQualified
             \/ BachelorAtMidLevel \/ EducationWithoutDegree
  BY <1>1, SkillStep, YearStep, DegreeStep DEF MatchNext
<1>. QED
  BY <1>1, MatchInvariant, PTL DEF MatchSpec, GainsNeverLower
=============================================================================
