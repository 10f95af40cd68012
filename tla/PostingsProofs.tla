--------------------------- MODULE PostingsProofs ---------------------------
(***************************************************************************)
(* Theorems about Postings: its types, what the sweep and the removal of   *)
(* companies switch off, that it implements ReadThrough, and therefore     *)
(* when a cached dashboard may be out of date.                             *)
(***************************************************************************)
EXTENDS Postings, TLAPS

-----------------------------------------------------------------------------
(* The inductive invariant                                                 *)

\* The postings a handler has read and will write.
Targets(h) == IF h.pc = "remove" THEN h.ids ELSE {h.id}

\* What a handler holds agrees with the documents P and A it was read from: it
\* knows the company of every posting it will write, as of then, and means to
\* clear that company's entry.
Fit(h, P, A) ==
    /\ HandlerType(h)
    /\ h.pc \in {"update", "approve", "remove"} =>
          /\ DOMAIN h.view = Targets(h)
          /\ {"admin", "top"} \subseteq h.keys
          /\ \A p \in Targets(h) : P[p].state # "none" /\ h.view[p] \in h.keys
    /\ h.pc = "update" => h.to = None \/ h.to \in h.keys
    /\ h.pc = "change application" =>
          A[h.id].state # "none" /\ {"admin", A[h.id].of} \subseteq h.keys

SweepFit(w, P) ==
    w.pc = "found" =>
        /\ DOMAIN w.view = w.ids
        /\ {"admin", "top"} \subseteq w.keys
        /\ \A p \in w.ids : P[p].state # "none" /\ w.view[p] \in w.keys

\* The documents.
Docs ==
    /\ company \in [Companies -> {"live", "removed"}]
    /\ posting \in [Ids -> Document]
    /\ \A p \in Ids : posting[p].state # "none" => posting[p].of \in Companies
    /\ application \in [Candidates -> Application]
    /\ \A r \in Candidates :
          application[r].state # "none" =>
              application[r].of \in Companies /\ application[r].job \in Ids

Handlers ==
    /\ DOMAIN handler = Slots
    /\ \A s \in Slots : Fit(handler[s], posting, application)

Sweeper ==
    /\ sweep.pc \in {"idle", "found", "clear"}
    /\ sweep.ids \subseteq Ids /\ sweep.keys \subseteq Keys
    /\ SweepFit(sweep, posting)

Counts ==
    /\ DOMAIN cache = Keys
    /\ excused \subseteq Keys /\ rewritten \subseteq Ids /\ risen \subseteq Ids
    /\ changes \in 0 .. MaxChanges /\ views \in 0 .. MaxViews

IInv == Docs /\ Handlers /\ Sweeper /\ Counts

\* A document that exists goes on existing, and an application is of the
\* company it was sent to.
Grows ==
    /\ \A p \in Ids : posting[p].state # "none" => posting'[p].state # "none"
    /\ \A r \in Candidates : application[r].state # "none" =>
          application'[r].state # "none" /\ application'[r].of = application[r].of

-----------------------------------------------------------------------------
LEMMA FitStays ==
    ASSUME NEW h, NEW P, NEW Q, NEW A, NEW B, Fit(h, P, A),
           \A p \in Ids : P[p].state # "none" => Q[p].state # "none",
           \A r \in Candidates : A[r].state # "none" =>
               B[r].state # "none" /\ B[r].of = A[r].of
    PROVE  Fit(h, Q, B)
<1>1. h.pc \in {"update", "approve", "remove"} => Targets(h) \subseteq Ids
  BY DEF Fit, HandlerType, Targets
<1>2. h.pc = "change application" => h.id \in Candidates
  BY DEF Fit, HandlerType
<1> QED
  BY <1>1, <1>2 DEF Fit

\* One handler moves, and the documents grow.
LEMMA HandlerMoves ==
    ASSUME Handlers, Grows, NEW s \in Slots, NEW h, Goes(s, h),
           Fit(h, posting', application')
    PROVE  Handlers'
<1>1. DOMAIN handler' = Slots /\ handler'[s] = h
  BY DEF Handlers, Goes
<1>2. ASSUME NEW t \in Slots, t # s
      PROVE  handler'[t] = handler[t]
  BY <1>2 DEF Handlers, Goes
<1>3. ASSUME NEW t \in Slots, t # s
      PROVE  Fit(handler'[t], posting', application')
  <2>1. Fit(handler[t], posting, application)
    BY DEF Handlers
  <2>2. Fit(handler[t], posting', application')
    BY <2>1, FitStays DEF Grows
  <2> QED
    BY <2>2, <1>2, <1>3
<1> QED
  BY <1>1, <1>3 DEF Handlers

LEMMA HandlersRest ==
    ASSUME Handlers, Grows, handler' = handler
    PROVE  Handlers'
<1>1. ASSUME NEW t \in Slots
      PROVE  Fit(handler[t], posting', application')
  <2>1. Fit(handler[t], posting, application)
    BY DEF Handlers
  <2> QED
    BY <2>1, FitStays DEF Grows
<1> QED
  BY <1>1 DEF Handlers

LEMMA SweeperRests ==
    ASSUME Sweeper, Grows, sweep' = sweep
    PROVE  Sweeper'
BY DEF Sweeper, SweepFit, Grows

LEMMA IdleFits ==
    ASSUME NEW P, NEW A, NEW keys \in SUBSET Keys
    PROVE  /\ Fit(Idle, P, A)
           /\ Fit([Idle EXCEPT !.pc = "clear", !.keys = keys], P, A)
BY DEF Fit, Idle, HandlerType, Steps

LEMMA UnchangedData ==
    ASSUME Docs, UNCHANGED data
    PROVE  Docs' /\ Grows
BY DEF Docs, Grows, data

\* What has been moved belongs to a company.
LEMMA MovedKeys ==
    ASSUME Docs, NEW view, DOMAIN view \subseteq Ids,
           \A p \in DOMAIN view : posting[p].state # "none"
    PROVE  MovedTo(view) \subseteq Companies
BY DEF Docs, MovedTo

LEMMA ExcusesTyped ==
    ASSUME Counts, NEW keys \in SUBSET Keys, Excuses(keys)
    PROVE  excused' \subseteq Keys
BY DEF Counts, Excuses

-----------------------------------------------------------------------------
(* Every step keeps the invariant                                          *)

\* What a handler holds when it has read what it will change.
LEMMA TowardsFits ==
    ASSUME NEW c \in Companies
    PROVE  Fit([Idle EXCEPT !.pc = "create", !.to = c], posting, application)
BY DEF Fit, Idle, HandlerType, Steps

LEMMA BulkFits ==
    ASSUME NEW C \in SUBSET Companies
    PROVE  /\ Fit([Idle EXCEPT !.pc = "remove company", !.ids = C], posting, application)
           /\ Fit([Idle EXCEPT !.pc = "bulk remove company", !.ids = C], posting', application')
BY DEF Fit, Idle, HandlerType, Steps

LEMMA ApplyFits ==
    ASSUME NEW c \in Companies, NEW p \in Ids
    PROVE  Fit([Idle EXCEPT !.pc = "apply", !.id = p, !.to = c], posting, application)
BY DEF Fit, Idle, HandlerType, Steps

LEMMA ChangeFits ==
    ASSUME Docs, NEW r \in Received
    PROVE  Fit([Idle EXCEPT !.pc = "change application", !.id = r,
                            !.keys = {"admin", application[r].of}], posting, application)
BY DEF Fit, Idle, HandlerType, Steps, Docs, Received, Keys

LEMMA UpdateFits ==
    ASSUME Docs, NEW p \in Live(Ids), NEW c \in Companies \cup {None}
    PROVE  Fit([Idle EXCEPT !.pc = "update", !.id = p, !.to = c, !.view = Owners({p}),
                            !.keys = ClearedByUpdate(p, c)], posting, application)
<1> DEFINE keys == ClearedByUpdate(p, c)
           h == [Idle EXCEPT !.pc = "update", !.id = p, !.to = c, !.view = Owners({p}),
                          !.keys = keys]
<1>1. posting[p].of \in Companies /\ posting[p].state # "none" /\ p \in Ids
  BY DEF Docs, Live
<1>2. keys \subseteq Keys /\ {"admin", "top"} \subseteq keys /\ posting[p].of \in keys
  BY <1>1 DEF ClearedByUpdate, Keys
<1>3. c = None \/ c \in keys
  BY DEF ClearedByUpdate
<1>4. DOMAIN Owners({p}) = {p} /\ Owners({p})[p] = posting[p].of
  BY DEF Owners
<1> HIDE DEF keys
<1>3a. h.pc = "update" /\ h.id = p /\ h.to = c /\ h.keys = keys /\ h.view = Owners({p})
  BY Zenon DEF Idle
<1> HIDE DEF h
<1>5. HandlerType(h)
  BY <1>3a, <1>1, <1>2 DEF HandlerType, Steps
<1>6. Fit(h, posting, application)
  BY <1>1, <1>2, <1>3, <1>4, <1>3a, <1>5 DEF Fit, Targets
<1> QED
  BY <1>6 DEF keys, h

LEMMA ApproveFits ==
    ASSUME Docs, NEW p \in Live(Ids)
    PROVE  Fit([Idle EXCEPT !.pc = "approve", !.id = p, !.view = Owners({p}),
                            !.keys = {"admin", "top", posting[p].of}], posting, application)
<1> DEFINE keys == {"admin", "top", posting[p].of}
           h == [Idle EXCEPT !.pc = "approve", !.id = p, !.view = Owners({p}), !.keys = keys]
<1>1. posting[p].of \in Companies /\ posting[p].state # "none" /\ p \in Ids
  BY DEF Docs, Live
<1>2. keys \subseteq Keys /\ {"admin", "top"} \subseteq keys /\ posting[p].of \in keys
  BY <1>1 DEF Keys
<1>4. DOMAIN Owners({p}) = {p} /\ Owners({p})[p] = posting[p].of
  BY DEF Owners
<1> HIDE DEF keys
<1>3a. h.pc = "approve" /\ h.id = p /\ h.keys = keys /\ h.view = Owners({p})
  BY Zenon DEF Idle
<1> HIDE DEF h
<1>5. HandlerType(h)
  BY <1>3a, <1>1, <1>2 DEF HandlerType, Steps
<1>6. Fit(h, posting, application)
  BY <1>1, <1>2, <1>4, <1>3a, <1>5 DEF Fit, Targets
<1> QED
  BY <1>6 DEF keys, h

LEMMA RemoveFits ==
    ASSUME Docs, NEW P \in SUBSET Live(Ids)
    PROVE  Fit([Idle EXCEPT !.pc = "remove", !.ids = P, !.view = Owners(P),
                            !.keys = {"admin", "top"} \cup {posting[p].of : p \in P}],
               posting, application)
<1> DEFINE keys == {"admin", "top"} \cup {posting[p].of : p \in P}
           h == [Idle EXCEPT !.pc = "remove", !.ids = P, !.view = Owners(P), !.keys = keys]
<1>1. \A p \in P : posting[p].of \in Companies /\ posting[p].state # "none" /\ p \in Ids
  BY DEF Docs, Live
<1>2. keys \subseteq Keys /\ {"admin", "top"} \subseteq keys /\ \A p \in P : posting[p].of \in keys
  BY <1>1 DEF Keys
<1>4. DOMAIN Owners(P) = P /\ \A p \in P : Owners(P)[p] = posting[p].of
  BY DEF Owners
<1> HIDE DEF keys
<1>3a. h.pc = "remove" /\ h.ids = P /\ h.keys = keys /\ h.view = Owners(P)
  BY Zenon DEF Idle
<1> HIDE DEF h
<1>5. HandlerType(h)
  BY <1>3a, <1>1, <1>2 DEF HandlerType, Steps
<1>6. Fit(h, posting, application)
  BY <1>1, <1>2, <1>4, <1>3a, <1>5 DEF Fit, Targets
<1> QED
  BY <1>6 DEF keys, h

LEMMA FillFits ==
    ASSUME NEW k \in Keys, NEW view, NEW pc \in {"compute", "fill"}
    PROVE  Fit([Idle EXCEPT !.pc = pc, !.id = k, !.view = view], posting, application)
<1> DEFINE h == [Idle EXCEPT !.pc = pc, !.id = k, !.view = view]
<1>1. h.pc = pc /\ h.id = k /\ h.keys = {}
  BY Zenon DEF Idle
<1> HIDE DEF h
<1>2. Fit(h, posting, application)
  BY <1>1 DEF Fit, HandlerType, Steps
<1> QED
  BY <1>2 DEF h

LEMMA DashboardGoes ==
    ASSUME NEW s, Dashboard(s)
    PROVE  \E k \in Keys : \E pc \in {"compute", "fill"} : \E view :
              Goes(s, [Idle EXCEPT !.pc = pc, !.id = k, !.view = view])
<1>1. PICK k \in Keys : \E half \in DOMAIN Figures(k) :
        Goes(s, [Idle EXCEPT !.pc = IF k = "top" THEN "fill" ELSE "compute", !.id = k,
                             !.view = [h \in {half} |-> Figures(k)[h]]])
  BY Zenon DEF Dashboard
<1>2. PICK half : Goes(s, [Idle EXCEPT !.pc = IF k = "top" THEN "fill" ELSE "compute", !.id = k,
                                       !.view = [h \in {half} |-> Figures(k)[h]]])
  BY <1>1, Zenon
<1>3. PICK pc \in {"compute", "fill"} : pc = IF k = "top" THEN "fill" ELSE "compute"
  OBVIOUS
<1>4. PICK view : view = [h \in {half} |-> Figures(k)[h]]
  OBVIOUS
<1>5. Goes(s, [Idle EXCEPT !.pc = pc, !.id = k, !.view = view])
  BY <1>2, <1>3, <1>4, Zenon
<1> QED
  BY <1>5, Zenon

\* A handler that reads and changes nothing yet.
LEMMA ReadKeeps ==
    ASSUME IInv, NEW s \in Slots, NEW h, Goes(s, h), Fit(h, posting, application),
           UNCHANGED <<data, cache, sweep, history>>,
           changes' \in 0 .. MaxChanges, views' \in 0 .. MaxViews
    PROVE  IInv'
<1>1. Docs' /\ Grows
  BY UnchangedData DEF IInv
<1>2. Fit(h, posting', application')
  BY DEF data
<1>3. Handlers'
  BY <1>1, <1>2, HandlerMoves DEF IInv
<1>4. Sweeper'
  BY <1>1, SweeperRests DEF IInv
<1>5. Counts'
  BY DEF Counts, IInv, history
<1> QED
  BY <1>1, <1>3, <1>4, <1>5 DEF IInv

LEMMA BoundsKept ==
    ASSUME Counts, Changes \/ UNCHANGED changes
    PROVE  changes' \in 0 .. MaxChanges
BY SizeAssumption DEF Counts, Changes

LEMMA ReadingSteps ==
    ASSUME IInv, NEW s \in Slots,
           \/ Create(s) \/ Update(s) \/ ApproveJob(s) \/ Remove(s) \/ RemoveCompany(s)
           \/ Apply(s) \/ ChangeApplication(s) \/ Dashboard(s) \/ DashboardRest(s)
    PROVE  IInv'
<1>0. \/ Changes /\ UNCHANGED views
      \/ UNCHANGED changes /\ views < MaxViews /\ views' = views + 1
      \/ UNCHANGED <<changes, views>>
  BY Zenon DEF Create, Update, ApproveJob, Remove, RemoveCompany, Apply, ChangeApplication,
               Dashboard, DashboardRest
<1>1. changes' \in 0 .. MaxChanges /\ views' \in 0 .. MaxViews
  BY <1>0, BoundsKept, SizeAssumption DEF IInv, Counts
<1>2. UNCHANGED <<data, cache, sweep, history>>
  BY Zenon DEF Create, Update, ApproveJob, Remove, RemoveCompany, Apply, ChangeApplication, Dashboard,
               DashboardRest
<1>3. \E h : Goes(s, h) /\ Fit(h, posting, application)
  <2>1. CASE Create(s)
    BY <2>1, TowardsFits DEF Create
  <2>2. CASE Update(s)
    BY <2>2, UpdateFits DEF Update, IInv
  <2>3. CASE ApproveJob(s)
    BY <2>3, ApproveFits DEF ApproveJob, IInv
  <2>4. CASE Remove(s)
    BY <2>4, RemoveFits DEF Remove, IInv
  <2>5. CASE RemoveCompany(s)
    BY <2>5, BulkFits DEF RemoveCompany
  <2>6. CASE Apply(s)
    <3>1. PICK p \in Ids : /\ Shown(p, "anyone")
                           /\ Goes(s, [Idle EXCEPT !.pc = "apply", !.id = p, !.to = posting[p].of])
      BY <2>6 DEF Apply
    <3>2. p \in Live(Ids)
      BY <3>1 DEF Shown, Listed, PostedBy, ApprovedActive
    <3>3. posting[p].of \in Companies
      BY <3>2 DEF IInv, Docs, Live
    <3> QED
      BY <3>1, <3>3, ApplyFits
  <2>7. CASE ChangeApplication(s)
    BY <2>7, ChangeFits DEF ChangeApplication, IInv
  <2>8. CASE Dashboard(s)
    BY <2>8, DashboardGoes, FillFits
  <2>9. CASE DashboardRest(s)
    <3>1. handler[s].id \in Keys
      BY <2>9 DEF DashboardRest, At, IInv, Handlers, Fit, HandlerType
    <3>2. PICK view :
            Goes(s, [Idle EXCEPT !.pc = "fill", !.id = handler[s].id, !.view = view])
      BY <2>9, Zenon DEF DashboardRest
    <3> QED
      BY <3>1, <3>2, FillFits
  <2> QED
    BY <2>1, <2>2, <2>3, <2>4, <2>5, <2>6, <2>7, <2>8, <2>9
<1> QED
  BY <1>1, <1>2, <1>3, ReadKeeps

-----------------------------------------------------------------------------
LEMMA ClearsFit ==
    ASSUME NEW s \in Slots, NEW keys \in SUBSET Keys, Clears(s, keys)
    PROVE  \E h : Goes(s, h) /\ Fit(h, posting', application')
BY IdleFits DEF Clears

LEMMA EndsFit ==
    ASSUME NEW s \in Slots, Ends(s)
    PROVE  Goes(s, Idle) /\ Fit(Idle, posting', application')
BY IdleFits DEF Ends

\* A posting that is written where it stands.
LEMMA PostingWritten ==
    ASSUME Docs, NEW p \in Ids, NEW doc \in Document,
           doc.state # "none", doc.of \in Companies,
           posting' = [posting EXCEPT ![p] = doc],
           UNCHANGED <<company, application>>
    PROVE  Docs' /\ Grows
BY DEF Docs, Grows

LEMMA CreateInsertKeeps ==
    ASSUME IInv, NEW s \in Slots, CreateInsert(s)
    PROVE  IInv'
<1> DEFINE c == handler[s].to
<1>0. c \in Companies
  BY DEF CreateInsert, At, IInv, Handlers, Fit, HandlerType
<1>1. PICK p \in Ids, active \in BOOLEAN, ends \in {"later", "past"} :
        /\ posting' = [posting EXCEPT ![p] = [state |-> "live", of |-> c, active |-> active,
                                              approval |-> "pending", ends |-> ends, age |-> "new"]]
        /\ risen' = IF active THEN Rises(p) ELSE risen
  BY DEF CreateInsert
<1>2. Docs' /\ Grows
  <2> DEFINE doc == [state |-> "live", of |-> c, active |-> active,
                     approval |-> "pending", ends |-> ends, age |-> "new"]
  <2>1. doc \in Document /\ doc.state # "none" /\ doc.of \in Companies
    BY <1>0 DEF Document
  <2> HIDE DEF doc
  <2>2. posting' = [posting EXCEPT ![p] = doc]
    BY <1>1 DEF doc
  <2> QED
    BY <2>1, <2>2, PostingWritten DEF IInv, CreateInsert
<1>3. Clears(s, {"admin", "top", c}) /\ {"admin", "top", c} \in SUBSET Keys
  BY <1>0 DEF CreateInsert, Keys
<1>4. Handlers'
  BY <1>2, <1>3, ClearsFit, HandlerMoves DEF IInv
<1>5. Sweeper'
  BY <1>2, SweeperRests DEF IInv, CreateInsert
<1>6. Counts'
  BY <1>1 DEF IInv, Counts, CreateInsert, Rises
<1> QED
  BY <1>2, <1>4, <1>5, <1>6 DEF IInv

\* What a handler at work on postings it has read knows of them.
LEMMA Held ==
    ASSUME IInv, NEW s \in Slots, handler[s].pc \in {"update", "approve", "remove"}
    PROVE  LET h == handler[s] IN
           /\ h.keys \subseteq Keys /\ {"admin", "top"} \subseteq h.keys
           /\ DOMAIN h.view = Targets(h) /\ Targets(h) \subseteq Ids
           /\ \A p \in Targets(h) : posting[p].state # "none" /\ h.view[p] \in h.keys
           /\ h.pc = "update" => h.to = None \/ (h.to \in h.keys /\ h.to \in Companies)
           /\ MovedTo(h.view) \subseteq Companies
<1> DEFINE h == handler[s]
<1>1. Fit(h, posting, application)
  BY DEF IInv, Handlers
<1>2. Targets(h) \subseteq Ids
  BY <1>1 DEF Fit, HandlerType, Targets
<1>3. /\ h.keys \subseteq Keys /\ {"admin", "top"} \subseteq h.keys
      /\ DOMAIN h.view = Targets(h)
      /\ \A p \in Targets(h) : posting[p].state # "none" /\ h.view[p] \in h.keys
      /\ h.pc = "update" => h.to = None \/ (h.to \in h.keys /\ h.to \in Companies)
  BY <1>1 DEF Fit, HandlerType
<1>4. MovedTo(h.view) \subseteq Companies
  BY <1>2, <1>3, MovedKeys DEF IInv
<1> QED
  BY <1>2, <1>3, <1>4

LEMMA UpdateWriteKeeps ==
    ASSUME IInv, NEW s \in Slots, UpdateWrite(s)
    PROVE  IInv'
<1> DEFINE p == handler[s].id
           keys == handler[s].keys
<1>0. handler[s].pc = "update"
  BY DEF UpdateWrite, At
<1>1. /\ p \in Ids /\ posting[p].state # "none" /\ keys \subseteq Keys
      /\ handler[s].to = None \/ handler[s].to \in Companies
      /\ MovedTo(handler[s].view) \subseteq Keys
  BY <1>0, Held DEF Targets, Keys
<1>2. PICK active \in BOOLEAN, ends \in {"later", "past"} :
        /\ posting' = [posting EXCEPT ![p].of = Moved(p, handler[s].to),
                                      ![p].active = active, ![p].ends = ends]
        /\ risen' = IF active THEN Rises(p) ELSE risen
  BY DEF UpdateWrite
<1>3. Moved(p, handler[s].to) \in Companies
  BY <1>1 DEF Moved, IInv, Docs
<1>4. Docs' /\ Grows
  <2>1. PICK d \in Document : d = posting[p]
    BY <1>1 DEF IInv, Docs
  <2>2. PICK o \in Companies : o = Moved(p, handler[s].to)
    BY <1>3
  <2> DEFINE doc == [d EXCEPT !.of = o, !.active = active, !.ends = ends]
  <2>3. doc \in Document /\ doc.of = o /\ doc.state = d.state
    BY DEF Document
  <2>4. posting' = [posting EXCEPT ![p] = doc]
    BY <1>1, <1>2, <2>1, <2>2 DEF IInv, Docs
  <2> HIDE DEF doc
  <2> QED
    BY <2>1, <2>3, <2>4, <1>1, PostingWritten DEF IInv, UpdateWrite
<1>5. Handlers'
  BY <1>1, <1>4, ClearsFit, HandlerMoves DEF IInv, UpdateWrite
<1>6. Sweeper'
  BY <1>4, SweeperRests DEF IInv, UpdateWrite
<1>7. excused' \subseteq Keys
  BY <1>1, ExcusesTyped DEF IInv, UpdateWrite
<1>8. Counts'
  BY <1>1, <1>2, <1>7 DEF IInv, Counts, UpdateWrite, Rises, Rewrites
<1> QED
  BY <1>4, <1>5, <1>6, <1>8 DEF IInv

LEMMA ApproveWriteKeeps ==
    ASSUME IInv, NEW s \in Slots, ApproveWrite(s)
    PROVE  IInv'
<1> DEFINE p == handler[s].id
           keys == handler[s].keys
<1>0. handler[s].pc = "approve"
  BY DEF ApproveWrite, At
<1>1. /\ p \in Ids /\ posting[p].state # "none" /\ keys \subseteq Keys
      /\ MovedTo(handler[s].view) \subseteq Keys
  BY <1>0, Held DEF Targets, Keys
<1>2. PICK status \in {"approved", "rejected"} :
        posting' = [posting EXCEPT ![p].approval = status]
  BY DEF ApproveWrite
<1>4. Docs' /\ Grows
  <2>1. PICK d \in Document : d = posting[p]
    BY <1>1 DEF IInv, Docs
  <2>2. d.of \in Companies /\ d.state # "none"
    BY <1>1, <2>1 DEF IInv, Docs
  <2> DEFINE doc == [d EXCEPT !.approval = status]
  <2>3. doc \in Document /\ doc.of = d.of /\ doc.state = d.state
    BY DEF Document
  <2>4. posting' = [posting EXCEPT ![p] = doc]
    BY <1>1, <1>2, <2>1 DEF IInv, Docs
  <2> HIDE DEF doc
  <2> QED
    BY <2>2, <2>3, <2>4, <1>1, PostingWritten DEF IInv, ApproveWrite
<1>5. Handlers'
  BY <1>1, <1>4, ClearsFit, HandlerMoves DEF IInv, ApproveWrite
<1>6. Sweeper'
  BY <1>4, SweeperRests DEF IInv, ApproveWrite
<1>7. excused' \subseteq Keys
  BY <1>1, ExcusesTyped DEF IInv, ApproveWrite
<1>8. Counts'
  BY <1>1, <1>2, <1>7 DEF IInv, Counts, ApproveWrite
<1> QED
  BY <1>4, <1>5, <1>6, <1>8 DEF IInv

\* One field of a document is written.
LEMMA FieldWritten ==
    ASSUME NEW d \in Document
    PROVE  /\ [d EXCEPT !.state = "removed"] \in Document
           /\ [d EXCEPT !.state = "removed"].state = "removed"
           /\ [d EXCEPT !.state = "removed"].of = d.of
           /\ [d EXCEPT !.active = FALSE] \in Document
           /\ [d EXCEPT !.active = FALSE].state = d.state
           /\ [d EXCEPT !.active = FALSE].of = d.of
           /\ [d EXCEPT !.active = FALSE].ends = d.ends
           /\ [d EXCEPT !.active = FALSE].active = FALSE
           /\ [d EXCEPT !.age = "old"] \in Document
           /\ [d EXCEPT !.age = "old"].state = d.state
           /\ [d EXCEPT !.age = "old"].of = d.of
           /\ [d EXCEPT !.age = "old"].ends = d.ends
           /\ [d EXCEPT !.age = "old"].active = d.active
           /\ [d EXCEPT !.ends = "past"] \in Document
           /\ [d EXCEPT !.ends = "past"].state = d.state
           /\ [d EXCEPT !.ends = "past"].of = d.of
           /\ [d EXCEPT !.ends = "past"].ends = "past"
           /\ [d EXCEPT !.ends = "past"].active = d.active
BY DEF Document

\* Postings are written, and none of them vanishes.
LEMMA PostingsWritten ==
    ASSUME Docs, posting' \in [Ids -> Document], UNCHANGED <<company, application>>,
           \A p \in Ids : posting[p].state # "none" => posting'[p].state # "none",
           \A p \in Ids : posting'[p].state # "none" => posting'[p].of \in Companies
    PROVE  Docs' /\ Grows
BY DEF Docs, Grows

LEMMA RemoveWriteKeeps ==
    ASSUME IInv, NEW s \in Slots, RemoveWrite(s)
    PROVE  IInv'
<1> DEFINE P == handler[s].ids
           keys == handler[s].keys
<1>0. handler[s].pc = "remove"
  BY DEF RemoveWrite, At
<1>1. /\ P \in SUBSET Ids /\ \A p \in P : posting[p].state # "none"
      /\ keys \subseteq Keys /\ MovedTo(handler[s].view) \subseteq Keys
  BY <1>0, Held DEF Targets, Keys
<1>4. Docs' /\ Grows
  <2>1. /\ posting' \in [Ids -> Document]
        /\ \A p \in Ids : posting[p].state # "none" => posting'[p].state # "none"
        /\ \A p \in Ids : posting'[p].state # "none" => posting'[p].of \in Companies
    BY <1>1, FieldWritten DEF IInv, Docs, RemoveWrite
  <2> QED
    BY <2>1, PostingsWritten DEF IInv, RemoveWrite
<1>5. Handlers'
  BY <1>1, <1>4, ClearsFit, HandlerMoves DEF IInv, RemoveWrite
<1>6. Sweeper'
  BY <1>4, SweeperRests DEF IInv, RemoveWrite
<1>7. excused' \subseteq Keys
  BY <1>1, ExcusesTyped DEF IInv, RemoveWrite
<1>8. Counts'
  BY <1>1, <1>7 DEF IInv, Counts, RemoveWrite, Rewrites
<1> QED
  BY <1>4, <1>5, <1>6, <1>8 DEF IInv

LEMMA BulkRemoveKeeps ==
    ASSUME IInv, NEW s \in Slots, BulkRemoveCompanies(s)
    PROVE  IInv'
<1>1. PICK C \in SUBSET Companies :
        /\ posting' = [p \in Ids |-> IF p \in Deactivated(C)
                                     THEN [posting[p] EXCEPT !.active = FALSE] ELSE posting[p]]
        /\ risen' = {p \in risen : posting[p].of \notin C}
        /\ Excuses({"admin", "top"} \cup C)
        /\ Goes(s, [Idle EXCEPT !.pc = "bulk remove company", !.ids = C])
  BY Zenon DEF BulkRemoveCompanies
<1>2. Deactivated(C) \in SUBSET Ids /\ ({"admin", "top"} \cup C) \in SUBSET Keys
  BY DEF Deactivated, Live, Keys
<1>4. Docs' /\ Grows
  <2>1. posting' = [p \in Ids |-> IF p \in Deactivated(C)
                                 THEN [posting[p] EXCEPT !.active = FALSE] ELSE posting[p]]
    BY <1>1
  <2>2. /\ posting' \in [Ids -> Document]
        /\ \A p \in Ids : posting'[p].state = posting[p].state /\ posting'[p].of = posting[p].of
    BY <2>1, FieldWritten DEF IInv, Docs
  <2> QED
    BY <2>2, PostingsWritten DEF IInv, Docs, BulkRemoveCompanies
<1>5. Handlers'
  <2>1. Fit([Idle EXCEPT !.pc = "bulk remove company", !.ids = C], posting', application')
    BY BulkFits
  <2> QED
    BY <1>1, <1>4, <2>1, HandlerMoves, Zenon DEF IInv
<1>6. Sweeper'
  BY <1>4, SweeperRests DEF IInv, BulkRemoveCompanies
<1>7. excused' \subseteq Keys
  BY <1>1, <1>2, ExcusesTyped, Zenon DEF IInv
<1>8. changes' \in 0 .. MaxChanges
  BY BoundsKept DEF IInv, BulkRemoveCompanies
<1>9. risen' \subseteq Ids
  BY <1>1, Zenon DEF IInv, Counts
<1>10. Counts'
  BY <1>7, <1>8, <1>9 DEF IInv, Counts, BulkRemoveCompanies
<1> QED
  BY <1>4, <1>5, <1>6, <1>10 DEF IInv

LEMMA RemoveCompanyWriteKeeps ==
    ASSUME IInv, NEW s \in Slots, RemoveCompanyWrite(s)
    PROVE  IInv'
<1>4. Docs' /\ Grows
  <2>1. company' = [c \in Companies |-> IF c \in handler[s].ids THEN "removed" ELSE company[c]]
    BY DEF RemoveCompanyWrite
  <2>2. company' \in [Companies -> {"live", "removed"}]
    BY <2>1 DEF IInv, Docs
  <2>3. UNCHANGED <<posting, application>>
    BY DEF RemoveCompanyWrite
  <2> QED
    BY <2>2, <2>3 DEF IInv, Docs, Grows
<1>5. Clears(s, {"top"}) /\ {"top"} \in SUBSET Keys /\ {"admin"} \in SUBSET Keys
  BY DEF RemoveCompanyWrite, Keys
<1>6. Handlers'
  BY <1>4, <1>5, ClearsFit, HandlerMoves DEF IInv
<1>7. Sweeper'
  BY <1>4, SweeperRests DEF IInv, RemoveCompanyWrite
<1>8. excused' \subseteq Keys
  BY <1>5, ExcusesTyped DEF IInv, RemoveCompanyWrite
<1>9. Counts'
  BY <1>8 DEF IInv, Counts, RemoveCompanyWrite
<1> QED
  BY <1>4, <1>6, <1>7, <1>9 DEF IInv

\* An application is written where it stands, or appears.
LEMMA ApplicationWritten ==
    ASSUME Docs, NEW r \in Candidates, NEW doc \in Application,
           doc.state # "none", doc.of \in Companies, doc.job \in Ids,
           application[r].state # "none" => doc.of = application[r].of,
           application' = [application EXCEPT ![r] = doc],
           UNCHANGED <<company, posting>>
    PROVE  Docs' /\ Grows
BY DEF Docs, Grows

\* A handler that changes applications and then clears or ends.
LEMMA ApplicationKeeps ==
    ASSUME IInv, NEW s \in Slots, Docs', Grows,
           Ends(s) \/ \E keys \in SUBSET Keys : Clears(s, keys),
           excused' \subseteq Keys,
           UNCHANGED <<cache, sweep, rewritten, risen, changes, views>>
    PROVE  IInv'
<1>1. Handlers'
  BY EndsFit, ClearsFit, HandlerMoves DEF IInv
<1>2. Sweeper'
  BY SweeperRests DEF IInv
<1>3. Counts'
  BY DEF IInv, Counts
<1> QED
  BY <1>1, <1>2, <1>3 DEF IInv

LEMMA SentWritten ==
    ASSUME Docs, NEW r \in Candidates, application[r].state = "none",
           NEW c \in Companies, NEW p \in Ids, NEW analysed \in BOOLEAN,
           application' = [application EXCEPT ![r] = Sent(c, p, analysed)],
           UNCHANGED <<company, posting>>
    PROVE  Docs' /\ Grows
<1>1. LET doc == Sent(c, p, analysed) IN
        doc \in Application /\ doc.state # "none" /\ doc.of = c /\ doc.job = p
  BY DEF Sent, Application
<1> QED
  BY <1>1, ApplicationWritten

\* An application entered by staff is for a posting and its company.
LEMMA CreatesFor ==
    ASSUME IInv, NEW s \in Slots, CreateResume(s)
    PROVE  \E r \in Candidates, c \in Companies, p \in Ids :
               /\ application[r].state = "none"
               /\ application' = [application EXCEPT ![r] = Sent(c, p, FALSE)]
               /\ Clears(s, {"admin", c})
<1>1. PICK r \in Candidates, p \in Live(Ids) :
        /\ application[r].state = "none"
        /\ application' = [application EXCEPT ![r] = Sent(posting[p].of, p, FALSE)]
        /\ Clears(s, {"admin", posting[p].of})
  BY Zenon DEF CreateResume
<1>2. p \in Ids /\ posting[p].of \in Companies
  BY DEF Live, IInv, Docs
<1> QED
  BY <1>1, <1>2, Zenon

LEMMA CreateResumeKeeps ==
    ASSUME IInv, NEW s \in Slots, CreateResume(s)
    PROVE  IInv'
<1>1. PICK r \in Candidates, c \in Companies, p \in Ids :
        /\ application[r].state = "none"
        /\ application' = [application EXCEPT ![r] = Sent(c, p, FALSE)]
        /\ Clears(s, {"admin", c})
  BY CreatesFor
<1>2. Docs' /\ Grows
  BY <1>1, SentWritten DEF IInv, CreateResume
<1>3. {"admin", c} \in SUBSET Keys
  BY DEF Keys
<1>4. Handlers'
  BY <1>1, <1>2, <1>3, ClearsFit, HandlerMoves DEF IInv
<1>5. Sweeper'
  BY <1>2, SweeperRests DEF IInv, CreateResume
<1>6. changes' \in 0 .. MaxChanges
  BY BoundsKept DEF IInv, CreateResume
<1>7. Counts'
  BY <1>6 DEF IInv, Counts, CreateResume, history
<1> QED
  BY <1>2, <1>4, <1>5, <1>7 DEF IInv

LEMMA ApplyInsertKeeps ==
    ASSUME IInv, NEW s \in Slots, ApplyInsert(s)
    PROVE  IInv'
<1> DEFINE c == handler[s].to
           p == handler[s].id
<1>0. c \in Companies /\ p \in Ids
  BY DEF ApplyInsert, At, IInv, Handlers, Fit, HandlerType
<1>1. PICK r \in Candidates, online \in BOOLEAN :
        /\ application[r].state = "none"
        /\ application' = [application EXCEPT ![r] = Sent(c, p, online)]
  BY DEF ApplyInsert
<1>4. Docs' /\ Grows
  BY <1>0, <1>1, SentWritten DEF IInv, ApplyInsert
<1>5. excused' \subseteq Keys
  BY <1>0, ExcusesTyped DEF IInv, ApplyInsert, Keys
<1> QED
  BY <1>4, <1>5, ApplicationKeeps DEF ApplyInsert

LEMMA SaveAnalysisKeeps ==
    ASSUME IInv, NEW s \in Slots, SaveAnalysis(s)
    PROVE  IInv'
<1>1. PICK r \in Candidates :
        /\ application[r].state # "none"
        /\ application' = [application EXCEPT ![r].analysed = TRUE]
        /\ Clears(s, {"admin", application[r].of})
  BY DEF SaveAnalysis
<1>2. PICK d \in Application : d = application[r]
  BY DEF IInv, Docs
<1>3. d.of \in Companies /\ d.job \in Ids /\ d.state # "none"
  BY <1>1, <1>2 DEF IInv, Docs
<1> DEFINE doc == [d EXCEPT !.analysed = TRUE]
<1>4. doc \in Application /\ doc.state = d.state /\ doc.of = d.of /\ doc.job = d.job
  BY DEF Application
<1>5. application' = [application EXCEPT ![r] = doc]
  BY <1>1, <1>2 DEF IInv, Docs
<1> HIDE DEF doc
<1>6. Docs' /\ Grows
  BY <1>2, <1>3, <1>4, <1>5, ApplicationWritten DEF IInv, SaveAnalysis
<1>7. {"admin", application[r].of} \in SUBSET Keys
  BY <1>2, <1>3 DEF Keys
<1>8. excused' \subseteq Keys
  BY DEF IInv, Counts, SaveAnalysis, history
<1> QED
  BY <1>1, <1>6, <1>7, <1>8, ApplicationKeeps DEF SaveAnalysis, history

LEMMA ChangeApplicationWriteKeeps ==
    ASSUME IInv, NEW s \in Slots, ChangeApplicationWrite(s)
    PROVE  IInv'
<1> DEFINE r == handler[s].id
<1>0. r \in Candidates /\ application[r].state # "none" /\ handler[s].keys \in SUBSET Keys
  BY DEF ChangeApplicationWrite, At, IInv, Handlers, Fit, HandlerType
<1>2. PICK d \in Application : d = application[r]
  BY <1>0 DEF IInv, Docs
<1>3. d.of \in Companies /\ d.job \in Ids /\ d.state # "none"
  BY <1>0, <1>2 DEF IInv, Docs
<1>4. PICK doc \in {[d EXCEPT !.status = "reviewing"], [d EXCEPT !.state = "removed"]} :
        application' = [application EXCEPT ![r] = doc]
  BY <1>0, <1>2 DEF ChangeApplicationWrite, IInv, Docs
<1>5. doc \in Application /\ doc.state # "none" /\ doc.of = d.of /\ doc.job = d.job
  BY <1>3, <1>4 DEF Application
<1>6. Docs' /\ Grows
  BY <1>0, <1>2, <1>3, <1>4, <1>5, ApplicationWritten DEF IInv, ChangeApplicationWrite
<1>8. excused' \subseteq Keys
  BY DEF IInv, Counts, ChangeApplicationWrite, history
<1> QED
  BY <1>0, <1>6, <1>8, ApplicationKeeps DEF ChangeApplicationWrite, history

LEMMA CacheKeeps ==
    ASSUME IInv, UNCHANGED data, DOMAIN cache' = Keys, excused' \subseteq Keys,
           rewritten' \subseteq Ids, UNCHANGED <<risen, changes, views>>,
           \/ \E s \in Slots : Ends(s)
           \/ UNCHANGED handler,
           UNCHANGED sweep \/ sweep' = Asleep
    PROVE  IInv'
<1>1. Docs' /\ Grows
  BY UnchangedData DEF IInv
<1>2. Handlers'
  BY <1>1, EndsFit, HandlerMoves, HandlersRest DEF IInv
<1>3. Sweeper'
  <2>1. CASE UNCHANGED sweep
    BY <1>1, <2>1, SweeperRests DEF IInv
  <2>2. CASE sweep' = Asleep
    BY <2>2 DEF Sweeper, SweepFit, Asleep
  <2> QED
    BY <2>1, <2>2
<1>4. Counts'
  BY DEF IInv, Counts
<1> QED
  BY <1>1, <1>2, <1>3, <1>4 DEF IInv

LEMMA CacheSteps ==
    ASSUME IInv, \/ \E s \in Slots : Clear(s) \/ DashboardFill(s)
                 \/ CacheExpires \/ SweepClear
    PROVE  IInv'
<1>1. ASSUME NEW s \in Slots, Clear(s)
      PROVE  IInv'
  BY <1>1, CacheKeeps DEF Clear, IInv, Counts
<1>2. ASSUME NEW s \in Slots, DashboardFill(s)
      PROVE  IInv'
  <2>1. handler[s].id \in Keys
    BY <1>2 DEF DashboardFill, At, IInv, Handlers, Fit, HandlerType
  <2> QED
    BY <1>2, <2>1, CacheKeeps DEF DashboardFill, IInv, Counts
<1>3. CASE CacheExpires
  BY <1>3, CacheKeeps DEF CacheExpires, IInv, Counts
<1>4. CASE SweepClear
  BY <1>4, CacheKeeps DEF SweepClear, IInv, Counts
<1> QED
  BY <1>1, <1>2, <1>3, <1>4

LEMMA FindExpiredKeeps ==
    ASSUME IInv, FindExpiredJobs
    PROVE  IInv'
<1> DEFINE P == {p \in Ids : Ended(p)}
           keys == {"admin", "top"} \cup {posting[p].of : p \in P}
<1>1. Docs' /\ Grows
  BY UnchangedData DEF IInv, FindExpiredJobs
<1>2. Handlers'
  BY <1>1, HandlersRest DEF IInv, FindExpiredJobs
<1>3. \A p \in P : p \in Ids /\ posting[p].state # "none" /\ posting[p].of \in Companies
  BY DEF Ended, IInv, Docs
<1>4. keys \subseteq Keys
  BY <1>3 DEF Keys
<1>5. sweep' = [pc |-> "found", ids |-> P, view |-> Owners(P), keys |-> keys]
  BY DEF FindExpiredJobs
<1>6. posting' = posting
  BY DEF FindExpiredJobs, data
<1>7. Sweeper'
  <2>1. \A p \in P : posting[p].of \in keys
    OBVIOUS
  <2>2. DOMAIN Owners(P) = P /\ \A p \in P : Owners(P)[p] = posting[p].of
    BY DEF Owners
  <2>3. P \subseteq Ids /\ {"admin", "top"} \subseteq keys
    OBVIOUS
  <2> HIDE DEF P, keys
  <2> QED
    BY <1>3, <1>4, <1>5, <1>6, <2>1, <2>2, <2>3 DEF Sweeper, SweepFit
<1>8. Counts'
  BY DEF IInv, Counts, FindExpiredJobs
<1> QED
  BY <1>1, <1>2, <1>7, <1>8 DEF IInv

LEMMA DeactivateKeeps ==
    ASSUME IInv, DeactivateExpired
    PROVE  IInv'
<1> DEFINE P == sweep.ids
<1>1. /\ posting' = [p \in Ids |-> IF p \in P THEN [posting[p] EXCEPT !.active = FALSE]
                                              ELSE posting[p]]
      /\ Excuses(MovedTo(sweep.view)) /\ sweep.pc = "found"
      /\ sweep' = [Asleep EXCEPT !.pc = "clear", !.keys = sweep.keys]
  BY DEF DeactivateExpired, SwitchedOff
<1>2. P \subseteq Ids /\ DOMAIN sweep.view = P /\ \A p \in P : posting[p].state # "none"
  BY <1>1 DEF IInv, Sweeper, SweepFit
<1>3. MovedTo(sweep.view) \subseteq Keys
  BY <1>2, MovedKeys DEF IInv, Keys
<1>4. Docs' /\ Grows
  <2>1. posting' = [p \in Ids |-> IF p \in P THEN [posting[p] EXCEPT !.active = FALSE]
                                             ELSE posting[p]]
    BY <1>1
  <2>2. /\ posting' \in [Ids -> Document]
        /\ \A p \in Ids : posting'[p].state = posting[p].state /\ posting'[p].of = posting[p].of
    BY <2>1, FieldWritten DEF IInv, Docs
  <2> QED
    BY <2>2, PostingsWritten DEF IInv, Docs, DeactivateExpired
<1>5. Handlers'
  BY <1>4, HandlersRest DEF IInv, DeactivateExpired
<1>6. Sweeper'
  <2>1. sweep'.pc = "clear" /\ sweep'.ids = {} /\ sweep'.keys = sweep.keys
    BY <1>1, Zenon DEF Asleep
  <2> QED
    BY <2>1 DEF IInv, Sweeper, SweepFit
<1>7. Counts'
  BY <1>1, <1>3, ExcusesTyped DEF IInv, Counts, DeactivateExpired
<1> QED
  BY <1>4, <1>5, <1>6, <1>7 DEF IInv

LEMMA DayPassesKeeps ==
    ASSUME IInv, DayPasses
    PROVE  IInv'
<1>1. Docs' /\ Grows
  <2>1. /\ posting' = [p \in Ids |-> [posting[p] EXCEPT !.age = "old"]]
        /\ application' = [r \in Candidates |-> [application[r] EXCEPT !.age = "old"]]
        /\ company' = company
    BY DEF DayPasses
  <2>2. /\ posting' \in [Ids -> Document]
        /\ \A p \in Ids : posting'[p].state = posting[p].state /\ posting'[p].of = posting[p].of
    BY <2>1, FieldWritten DEF IInv, Docs
  <2>3. \A d \in Application : LET e == [d EXCEPT !.age = "old"] IN
          e \in Application /\ e.state = d.state /\ e.of = d.of /\ e.job = d.job
    BY DEF Application
  <2>4. /\ application' \in [Candidates -> Application]
        /\ \A r \in Candidates : /\ application'[r].state = application[r].state
                                 /\ application'[r].of = application[r].of
                                 /\ application'[r].job = application[r].job
    BY <2>1, <2>3 DEF IInv, Docs
  <2> QED
    BY <2>1, <2>2, <2>4 DEF IInv, Docs, Grows
<1>2. Handlers'
  BY <1>1, HandlersRest DEF IInv, DayPasses
<1>3. Sweeper'
  BY <1>1, SweeperRests DEF IInv, DayPasses
<1>4. Counts'
  BY ExcusesTyped DEF IInv, Counts, DayPasses
<1> QED
  BY <1>1, <1>2, <1>3, <1>4 DEF IInv

LEMMA EndComesKeeps ==
    ASSUME IInv, NEW p \in Ids, EndComes(p)
    PROVE  IInv'
<1>1. PICK d \in Document : d = posting[p]
  BY DEF IInv, Docs
<1>2. d.of \in Companies /\ d.state # "none"
  BY <1>1 DEF IInv, Docs, EndComes
<1> DEFINE doc == [d EXCEPT !.ends = "past"]
<1>3. doc \in Document /\ doc.of = d.of /\ doc.state = d.state
  BY DEF Document
<1>4. posting' = [posting EXCEPT ![p] = doc]
  BY <1>1 DEF IInv, Docs, EndComes
<1> HIDE DEF doc
<1>5. Docs' /\ Grows
  BY <1>2, <1>3, <1>4, PostingWritten DEF IInv, EndComes
<1>6. Handlers'
  BY <1>5, HandlersRest DEF IInv, EndComes
<1>7. Sweeper'
  BY <1>5, SweeperRests DEF IInv, EndComes
<1>8. Counts'
  BY <1>1, <1>2, ExcusesTyped DEF IInv, Counts, EndComes, Keys
<1> QED
  BY <1>5, <1>6, <1>7, <1>8 DEF IInv

LEMMA InitIInv ==
    ASSUME Init
    PROVE  IInv
<1>1. Docs
  <2>1. /\ posting \in [Ids -> Document]
        /\ \A p \in Ids : posting[p].state # "none" => posting[p].of \in Companies
    <3> DEFINE absent == [state |-> "none", of |-> None, active |-> FALSE,
                          approval |-> "pending", ends |-> "later", age |-> "old"]
               posted == [state : {"live"}, of : Companies, active : {TRUE},
                          approval : {"approved"}, ends : {"later"}, age : {"old"}]
    <3>1. posting \in [Ids -> {absent} \cup posted]
      BY DEF Init
    <3>2. absent \in Document /\ absent.state = "none"
      BY DEF Document
    <3>3. \A d \in posted : d \in Document /\ d.of \in Companies
      BY DEF Document
    <3> HIDE DEF absent, posted
    <3> QED
      BY <3>1, <3>2, <3>3
  <2>2. application \in [Candidates -> Application]
    BY DEF Init, Application
  <2>3. \A r \in Candidates : application[r].state = "none"
    BY DEF Init
  <2>4. company \in [Companies -> {"live", "removed"}]
    BY DEF Init
  <2> QED
    BY <2>1, <2>2, <2>3, <2>4 DEF Docs
<1>2. Handlers
  BY IdleFits DEF Init, Handlers
<1>3. Sweeper
  BY DEF Init, Sweeper, SweepFit, Asleep
<1>4. Counts
  BY SizeAssumption DEF Init, Counts
<1> QED
  BY <1>1, <1>2, <1>3, <1>4 DEF IInv

LEMMA StepIInv ==
    ASSUME IInv, [Next]_vars
    PROVE  IInv'
<1>1. ASSUME NEW s \in Slots, PostingSteps(s)
      PROVE  IInv'
  BY <1>1, ReadingSteps, CreateInsertKeeps, UpdateWriteKeeps, ApproveWriteKeeps,
     RemoveWriteKeeps DEF PostingSteps
<1>2. ASSUME NEW s \in Slots, CompanySteps(s)
      PROVE  IInv'
  BY <1>2, ReadingSteps, BulkRemoveKeeps, RemoveCompanyWriteKeeps DEF CompanySteps
<1>3. ASSUME NEW s \in Slots, ApplicationSteps(s)
      PROVE  IInv'
  BY <1>3, ReadingSteps, ApplyInsertKeeps, CreateResumeKeeps, SaveAnalysisKeeps,
     ChangeApplicationWriteKeeps DEF ApplicationSteps
<1>4. ASSUME NEW s \in Slots, Clear(s) \/ Dashboard(s) \/ DashboardRest(s) \/ DashboardFill(s)
      PROVE  IInv'
  BY <1>4, ReadingSteps, CacheSteps
<1>5. CASE SweepSteps
  BY <1>5, FindExpiredKeeps, DeactivateKeeps, CacheSteps DEF SweepSteps
<1>6. CASE UNCHANGED vars
  <2>1. Docs' /\ Grows
    BY <1>6, UnchangedData DEF IInv, vars, data
  <2>2. Handlers'
    BY <1>6, <2>1, HandlersRest DEF IInv, vars
  <2>3. Sweeper'
    BY <1>6, <2>1, SweeperRests DEF IInv, vars
  <2>4. Counts'
    BY <1>6 DEF IInv, Counts, vars
  <2> QED
    BY <2>1, <2>2, <2>3, <2>4 DEF IInv
<1> QED
  BY <1>1, <1>2, <1>3, <1>4, <1>5, <1>6, CacheSteps, EndComesKeeps, DayPassesKeeps DEF Next

LEMMA Invariance == Spec => []IInv
<1>1. Init => IInv
  BY InitIInv
<1>2. IInv /\ [Next]_vars => IInv'
  BY StepIInv
<1> QED
  BY <1>1, <1>2, PTL DEF Spec

\* Every variable keeps its type whatever overlaps (jobs.service.ts,
\* companies.service.ts, statistics-cache.service.ts).
THEOREM PostingsTyped == Spec => []TypeOK
<1>1. IInv => TypeOK
  BY DEF IInv, Docs, Handlers, Sweeper, Counts, Fit, TypeOK
<1> QED
  BY <1>1, Invariance, PTL

-----------------------------------------------------------------------------
(***************************************************************************)
(* The sweep.  What it has found has ended, and stays so unless somebody   *)
(* writes it, which is remembered in rewritten.                            *)
(***************************************************************************)
Found ==
    sweep.pc = "found" =>
        \A p \in sweep.ids :
            p \in rewritten \/ (posting[p].state = "live" /\ posting[p].ends = "past")

\* Nothing found is written without a mark.
LEMMA FoundStays ==
    ASSUME IInv, Found, UNCHANGED sweep,
           \A p \in Ids : \/ p \in rewritten'
                          \/ posting[p].state = "none"
                          \/ /\ posting'[p].state = posting[p].state
                             /\ posting[p].ends = "past" => posting'[p].ends = "past",
           sweep.pc = "found" => rewritten \subseteq rewritten'
    PROVE  Found'
BY DEF Found, IInv, Sweeper, SweepFit

LEMMA StepFound ==
    ASSUME IInv, Found, [Next]_vars
    PROVE  Found'
<1>0. /\ \A p \in Ids : posting[p] \in Document
      /\ DOMAIN posting = Ids
      /\ sweep.ids \subseteq Ids
  BY DEF IInv, Docs, Sweeper
<1>1. ASSUME UNCHANGED <<posting, sweep, rewritten>>
      PROVE  Found'
  BY <1>1 DEF Found
<1>2. ASSUME NEW s \in Slots, CreateInsert(s)
      PROVE  Found'
  <2>1. PICK p \in Ids : posting[p].state = "none"
                           /\ \E doc : posting' = [posting EXCEPT ![p] = doc]
    BY <1>2 DEF CreateInsert
  <2>2. UNCHANGED <<sweep, rewritten>>
    BY <1>2 DEF CreateInsert
  <2> QED
    BY <1>0, <2>1, <2>2, FoundStays
<1>3. ASSUME NEW s \in Slots, UpdateWrite(s)
      PROVE  Found'
  <2> DEFINE p == handler[s].id
  <2>1. p \in Ids /\ \A q \in Ids \ {p} : posting'[q] = posting[q]
    BY <1>0, <1>3 DEF UpdateWrite, At, IInv, Handlers, Fit, HandlerType
  <2>2. UNCHANGED sweep /\ rewritten' = Rewrites({p})
    BY <1>3 DEF UpdateWrite
  <2>3. CASE sweep.pc = "found"
    BY <2>1, <2>2, <2>3, FoundStays DEF Rewrites
  <2>4. CASE sweep.pc # "found"
    BY <2>2, <2>4 DEF Found
  <2> QED
    BY <2>3, <2>4
<1>4. ASSUME NEW s \in Slots, ApproveWrite(s)
      PROVE  Found'
  <2> DEFINE p == handler[s].id
  <2>1. PICK status \in {"approved", "rejected"} :
          posting' = [posting EXCEPT ![p].approval = status]
    BY <1>4 DEF ApproveWrite
  <2>2. \A d \in Document : LET e == [d EXCEPT !.approval = status] IN
           e.state = d.state /\ e.ends = d.ends
    BY DEF Document
  <2>3. \A q \in Ids : posting'[q].state = posting[q].state /\ posting'[q].ends = posting[q].ends
    BY <1>0, <2>1, <2>2
  <2> QED
    BY <1>4, <2>3, FoundStays DEF ApproveWrite
<1>5. ASSUME NEW s \in Slots, RemoveWrite(s)
      PROVE  Found'
  <2> DEFINE P == handler[s].ids
  <2>1. \A q \in Ids \ P : posting'[q] = posting[q]
    BY <1>5 DEF RemoveWrite
  <2>2. UNCHANGED sweep /\ rewritten' = Rewrites(P)
    BY <1>5 DEF RemoveWrite
  <2>3. CASE sweep.pc = "found"
    BY <2>1, <2>2, <2>3, FoundStays DEF Rewrites
  <2>4. CASE sweep.pc # "found"
    BY <2>2, <2>4 DEF Found
  <2> QED
    BY <2>3, <2>4
<1>6. ASSUME NEW s \in Slots, BulkRemoveCompanies(s)
      PROVE  Found'
  <2>1. PICK P : posting' = [p \in Ids |-> IF p \in P THEN [posting[p] EXCEPT !.active = FALSE]
                                                    ELSE posting[p]]
    BY <1>6, Zenon DEF BulkRemoveCompanies
  <2>2. \A q \in Ids : posting'[q].state = posting[q].state /\ posting'[q].ends = posting[q].ends
    BY <1>0, <2>1, FieldWritten
  <2> QED
    BY <1>6, <2>2, FoundStays DEF BulkRemoveCompanies
<1>7. ASSUME DayPasses
      PROVE  Found'
  <2>1. \A q \in Ids : posting'[q].state = posting[q].state /\ posting'[q].ends = posting[q].ends
    BY <1>0, <1>7, FieldWritten DEF DayPasses
  <2> QED
    BY <1>7, <2>1, FoundStays DEF DayPasses
<1>8. ASSUME NEW p \in Ids, EndComes(p)
      PROVE  Found'
  <2>1. \A q \in Ids : /\ posting'[q].state = posting[q].state
                       /\ posting[q].ends = "past" => posting'[q].ends = "past"
    BY <1>0, <1>8, FieldWritten DEF EndComes
  <2> QED
    BY <1>8, <2>1, FoundStays DEF EndComes
<1>9. CASE FindExpiredJobs
  BY <1>9 DEF FindExpiredJobs, Found, Ended, data
<1>10. CASE DeactivateExpired
  BY <1>10, Zenon DEF DeactivateExpired, Found, Asleep
<1>11. CASE SweepClear
  BY <1>11 DEF SweepClear, Found, Asleep
<1>12. ASSUME NEW s \in Slots, ApplicationSteps(s)
       PROVE  UNCHANGED <<posting, sweep, rewritten>>
  BY <1>12, Zenon DEF ApplicationSteps, Apply, ApplyInsert, CreateResume, SaveAnalysis,
                      ChangeApplication, ChangeApplicationWrite, data, history
<1>13. ASSUME NEW s \in Slots,
              \/ Create(s) \/ Update(s) \/ ApproveJob(s) \/ Remove(s) \/ RemoveCompany(s)
              \/ RemoveCompanyWrite(s)
              \/ Clear(s) \/ Dashboard(s) \/ DashboardRest(s) \/ DashboardFill(s)
       PROVE  UNCHANGED <<posting, sweep, rewritten>>
  BY <1>13, Zenon DEF Create, Update, ApproveJob, Remove, RemoveCompany, RemoveCompanyWrite,
                      Clear, Dashboard, DashboardRest, DashboardFill, data, history
<1>14. CASE CacheExpires \/ UNCHANGED vars
  BY <1>1, <1>14, Zenon DEF CacheExpires, vars, data
<1> QED
  BY <1>1, <1>2, <1>3, <1>4, <1>5, <1>6, <1>7, <1>8, <1>9, <1>10, <1>11, <1>12, <1>13, <1>14
     DEF Next, PostingSteps, CompanySteps, SweepSteps

\* The hourly sweep switches off no posting whose end has not come, unless it
\* was written after the sweep had read it (JobsService.handleExpiredJobs).
THEOREM SweepIsJust == Spec => SwitchedOffHasEnded
<1>1. Init => Found
  BY DEF Init, Found, Asleep
<1>2. IInv /\ Found /\ [Next]_vars => Found'
  BY StepFound
<1>3. IInv /\ Found /\ [Next]_vars =>
        [\A p \in Ids :
            (DeactivateExpired /\ posting[p].active /\ ~posting'[p].active)
                => Ended(p) \/ p \in rewritten]_vars
  <2>1. ASSUME Found, DeactivateExpired, NEW p \in Ids, posting[p].active, ~posting'[p].active
        PROVE  Ended(p) \/ p \in rewritten
    <3>1. p \in sweep.ids
      BY <2>1 DEF DeactivateExpired, SwitchedOff
    <3> QED
      BY <2>1, <3>1 DEF Found, Ended, DeactivateExpired
  <2> QED
    BY <2>1
<1> QED
  BY <1>1, <1>2, <1>3, Invariance, PTL DEF Spec, SwitchedOffHasEnded

-----------------------------------------------------------------------------
(***************************************************************************)
(* The removal of several companies.  Between the step that switches their *)
(* postings off and the one that removes the companies, their active       *)
(* postings are those that rose in between.                                *)
(***************************************************************************)
Down ==
    \A s \in Slots : At(s, "bulk remove company") =>
        \A p \in Ids :
            posting[p].state = "live" /\ posting[p].of \in handler[s].ids /\ posting[p].active
                => p \in risen

\* Who is at the second step was there before, and for the same companies.
LEMMA DownStays ==
    ASSUME Down,
           \/ risen \subseteq risen'
           \/ ~\E s \in Slots : At(s, "bulk remove company")
           \/ ~\E s \in Slots : At(s, "bulk remove company")',
           \A s \in Slots : At(s, "bulk remove company")' =>
               At(s, "bulk remove company") /\ handler'[s].ids = handler[s].ids,
           \A p \in Ids :
               \/ p \in risen'
               \/ posting'[p].state # "live" \/ ~posting'[p].active
               \/ /\ posting[p].state = "live" /\ posting[p].active
                  /\ posting'[p].of = posting[p].of
               \/ ~\E s \in Slots : At(s, "bulk remove company")
    PROVE  Down'
BY DEF Down, At

\* A handler that goes anywhere else leaves the others where they are.
LEMMA GoesElsewhere ==
    ASSUME IInv, NEW s \in Slots, NEW h, Goes(s, h), h.pc # "bulk remove company"
    PROVE  \A t \in Slots : At(t, "bulk remove company")' =>
               At(t, "bulk remove company") /\ handler'[t].ids = handler[t].ids
BY DEF IInv, Handlers, Goes, At

LEMMA ClearsElsewhere ==
    ASSUME IInv, NEW s \in Slots, Ends(s) \/ \E keys : Clears(s, keys)
    PROVE  \A t \in Slots : At(t, "bulk remove company")' =>
               t # s /\ At(t, "bulk remove company") /\ handler'[t].ids = handler[t].ids
<1>1. PICK h : Goes(s, h) /\ h.pc # "bulk remove company"
  <2>1. Idle.pc # "bulk remove company"
    BY DEF Idle
  <2>2. \A keys : [Idle EXCEPT !.pc = "clear", !.keys = keys].pc # "bulk remove company"
    BY DEF Idle
  <2> QED
    BY <2>1, <2>2 DEF Ends, Clears
<1> QED
  BY <1>1, GoesElsewhere DEF IInv, Handlers, Goes, At

\* What rises is remembered as long as somebody is between the two steps.
LEMMA Risen ==
    ASSUME NEW p \in Ids, NEW active \in BOOLEAN,
           risen' = IF active THEN Rises(p) ELSE risen,
           \E t \in Slots : At(t, "bulk remove company")
    PROVE  risen \subseteq risen' /\ (active => p \in risen')
<1>1. Rises(p) = risen \cup {p}
  BY Zenon DEF Rises
<1> QED
  BY <1>1

LEMMA StepDown ==
    ASSUME IInv, Down, [Next]_vars
    PROVE  Down'
<1>0. /\ \A p \in Ids : posting[p] \in Document
      /\ DOMAIN posting = Ids /\ DOMAIN handler = Slots
  BY DEF IInv, Docs, Handlers
<1>1. ASSUME NEW s \in Slots, CreateInsert(s)
      PROVE  Down'
  <2>1. PICK p, active, doc :
          /\ p \in Ids /\ active \in BOOLEAN
          /\ posting' = [posting EXCEPT ![p] = doc] /\ (doc.active => active)
          /\ risen' = IF active THEN Rises(p) ELSE risen
    <3>1. PICK p \in Ids, active \in BOOLEAN, ends \in {"later", "past"} :
            /\ posting' = [posting EXCEPT ![p] =
                  [state |-> "live", of |-> handler[s].to, active |-> active,
                   approval |-> "pending", ends |-> ends, age |-> "new"]]
            /\ risen' = IF active THEN Rises(p) ELSE risen
      BY <1>1 DEF CreateInsert
    <3> DEFINE doc == [state |-> "live", of |-> handler[s].to, active |-> active,
                       approval |-> "pending", ends |-> ends, age |-> "new"]
    <3>2. doc.active = active
      OBVIOUS
    <3>3. posting' = [posting EXCEPT ![p] = doc]
      BY <3>1
    <3> HIDE DEF doc
    <3> QED
      BY <3>1, <3>2, <3>3
  <2>2. \A t \in Slots : At(t, "bulk remove company")' =>
          t # s /\ At(t, "bulk remove company") /\ handler'[t].ids = handler[t].ids
    BY <1>1, ClearsElsewhere, Zenon DEF CreateInsert
  <2>3. /\ risen \subseteq risen' \/ ~\E t \in Slots : At(t, "bulk remove company")
        /\ \A q \in Ids \ {p} : posting'[q] = posting[q]
    BY <1>0, <2>1, Risen
  <2>4. \/ p \in risen' \/ ~posting'[p].active
        \/ ~\E t \in Slots : At(t, "bulk remove company")
    BY <1>0, <2>1, Risen
  <2> QED
    BY <2>2, <2>3, <2>4, DownStays
<1>2. ASSUME NEW s \in Slots, UpdateWrite(s)
      PROVE  Down'
  <2> DEFINE p == handler[s].id
  <2>0. p \in Ids
    BY <1>2 DEF UpdateWrite, At, IInv, Handlers, Fit, HandlerType
  <2>1. PICK active \in BOOLEAN, ends \in {"later", "past"} :
          /\ posting' = [posting EXCEPT ![p].of = Moved(p, handler[s].to),
                                        ![p].active = active, ![p].ends = ends]
          /\ risen' = IF active THEN Rises(p) ELSE risen
    BY <1>2 DEF UpdateWrite
  <2>2. \A t \in Slots : At(t, "bulk remove company")' =>
          t # s /\ At(t, "bulk remove company") /\ handler'[t].ids = handler[t].ids
    BY <1>2, ClearsElsewhere, Zenon DEF UpdateWrite
  <2>3. /\ risen \subseteq risen' \/ ~\E t \in Slots : At(t, "bulk remove company")
        /\ \A q \in Ids \ {p} : posting'[q] = posting[q]
    BY <1>0, <2>0, <2>1, Risen
  <2>4. posting'[p].active = active
    <3>1. PICK d \in Document : d = posting[p]
      BY <1>0, <2>0
    <3>2. \A o : [d EXCEPT !.of = o, !.active = active, !.ends = ends].active = active
      BY DEF Document
    <3>3. posting'[p] = [d EXCEPT !.of = Moved(p, handler[s].to), !.active = active, !.ends = ends]
      BY <1>0, <2>0, <2>1, <3>1
    <3> QED
      BY <3>2, <3>3
  <2>5. \/ p \in risen' \/ ~posting'[p].active
        \/ ~\E t \in Slots : At(t, "bulk remove company")
    BY <2>0, <2>1, <2>4, Risen
  <2> QED
    BY <2>2, <2>3, <2>5, DownStays
<1>3. ASSUME NEW s \in Slots, ApproveWrite(s)
      PROVE  Down'
  <2> DEFINE p == handler[s].id
  <2>1. PICK status \in {"approved", "rejected"} :
          posting' = [posting EXCEPT ![p].approval = status]
    BY <1>3 DEF ApproveWrite
  <2>2. \A d \in Document : LET e == [d EXCEPT !.approval = status] IN
           e.state = d.state /\ e.of = d.of /\ e.active = d.active
    BY DEF Document
  <2>3. \A q \in Ids : /\ posting'[q].state = posting[q].state
                       /\ posting'[q].of = posting[q].of
                       /\ posting'[q].active = posting[q].active
    BY <1>0, <2>1, <2>2
  <2>4. \A t \in Slots : At(t, "bulk remove company")' =>
          At(t, "bulk remove company") /\ handler'[t].ids = handler[t].ids
    BY <1>3, ClearsElsewhere, Zenon DEF ApproveWrite
  <2>5. risen' = risen
    BY <1>3 DEF ApproveWrite
  <2> QED
    BY <2>3, <2>4, <2>5, DownStays
<1>4. ASSUME NEW s \in Slots, RemoveWrite(s)
      PROVE  Down'
  <2> DEFINE P == handler[s].ids
  <2>1. /\ \A q \in Ids \ P : posting'[q] = posting[q]
        /\ \A q \in Ids \cap P : posting'[q].state = "removed"
    BY <1>0, <1>4, FieldWritten DEF RemoveWrite
  <2>4. \A t \in Slots : At(t, "bulk remove company")' =>
          At(t, "bulk remove company") /\ handler'[t].ids = handler[t].ids
    BY <1>4, ClearsElsewhere, Zenon DEF RemoveWrite
  <2>5. risen' = risen
    BY <1>4 DEF RemoveWrite
  <2> QED
    BY <2>1, <2>4, <2>5, DownStays
<1>5. ASSUME NEW s \in Slots, BulkRemoveCompanies(s)
      PROVE  Down'
  <2>1. PICK C \in SUBSET Companies :
          /\ posting' = [p \in Ids |-> IF p \in Deactivated(C)
                                       THEN [posting[p] EXCEPT !.active = FALSE] ELSE posting[p]]
          /\ risen' = {p \in risen : posting[p].of \notin C}
          /\ Goes(s, [Idle EXCEPT !.pc = "bulk remove company", !.ids = C])
    BY <1>5, Zenon DEF BulkRemoveCompanies
  <2>2. /\ handler'[s].ids = C
        /\ \A t \in Slots \ {s} : handler'[t] = handler[t]
    <3>1. PICK h : h = [Idle EXCEPT !.pc = "bulk remove company", !.ids = C]
      OBVIOUS
    <3>2. h.ids = C
      BY <3>1, Zenon DEF Idle
    <3> QED
      BY <1>0, <2>1, <3>1, <3>2 DEF Goes
  <2>3. \A p \in Ids : /\ posting'[p].state = posting[p].state
                       /\ posting'[p].of = posting[p].of
                       /\ posting'[p].active => posting[p].active /\ p \notin Deactivated(C)
    <3>1. posting' = [p \in Ids |-> IF p \in Deactivated(C)
                                   THEN [posting[p] EXCEPT !.active = FALSE] ELSE posting[p]]
      BY <2>1
    <3> QED
      BY <1>0, <3>1, FieldWritten
  <2>4. \A p \in Ids : posting'[p].state = "live" /\ posting'[p].active => posting'[p].of \notin C
    BY <2>3 DEF Deactivated, Live
  <2>5. ASSUME NEW t \in Slots, At(t, "bulk remove company")', NEW p \in Ids,
               posting'[p].state = "live", posting'[p].of \in handler'[t].ids, posting'[p].active
        PROVE  p \in risen'
    <3>1. posting'[p].of \notin C
      BY <2>4, <2>5
    <3>2. t # s /\ handler'[t] = handler[t]
      BY <2>2, <2>5, <3>1
    <3>3. p \in risen /\ posting[p].of \notin C
      BY <2>3, <2>5, <3>1, <3>2 DEF Down, At
    <3>4. risen' = {q \in risen : posting[q].of \notin C}
      BY <2>1
    <3> QED
      BY <3>3, <3>4
  <2> QED
    BY <2>5, Zenon DEF Down
<1>6. ASSUME NEW s \in Slots, RemoveCompanyWrite(s)
      PROVE  Down'
  <2>1. \A t \in Slots : At(t, "bulk remove company")' =>
          t # s /\ At(t, "bulk remove company") /\ handler'[t].ids = handler[t].ids
    BY <1>6, ClearsElsewhere, Zenon DEF RemoveCompanyWrite
  <2>2. risen' = risen \/ ~\E t \in Slots : At(t, "bulk remove company")'
    BY <1>6, <2>1 DEF RemoveCompanyWrite
  <2> QED
    BY <1>6, <2>1, <2>2, DownStays DEF RemoveCompanyWrite
<1>7. ASSUME DeactivateExpired \/ DayPasses \/ \E p \in Ids : EndComes(p)
      PROVE  Down'
  <2>1. \A q \in Ids : /\ posting'[q].state = posting[q].state
                       /\ posting'[q].of = posting[q].of
                       /\ posting'[q].active => posting[q].active
    <3>1. CASE DeactivateExpired
      BY <1>0, <3>1, FieldWritten DEF DeactivateExpired
    <3>2. CASE DayPasses
      BY <1>0, <3>2, FieldWritten DEF DayPasses
    <3>3. CASE \E p \in Ids : EndComes(p)
      BY <1>0, <3>3, FieldWritten DEF EndComes
    <3> QED
      BY <1>7, <3>1, <3>2, <3>3
  <2>2. UNCHANGED <<handler, risen>>
    BY <1>7 DEF DeactivateExpired, DayPasses, EndComes
  <2> QED
    BY <2>1, <2>2 DEF Down, At
<1>8. ASSUME NEW s \in Slots,
             \/ Create(s) \/ Update(s) \/ ApproveJob(s) \/ Remove(s) \/ RemoveCompany(s)
             \/ Apply(s) \/ ChangeApplication(s) \/ Dashboard(s) \/ DashboardRest(s)
      PROVE  Down'
  <2>1. UNCHANGED <<posting, risen>>
    BY <1>8, Zenon DEF Create, Update, ApproveJob, Remove, RemoveCompany, Apply, ChangeApplication,
                       Dashboard, DashboardRest, data, history
  <2>2. \E h : Goes(s, h) /\ h.pc # "bulk remove company"
    <3> DEFINE Other(pc) ==
                 \/ pc = "create" \/ pc = "remove company" \/ pc = "apply"
                 \/ pc = "compute" \/ pc = "fill"
                 \/ pc = "change application" \/ pc = "update" \/ pc = "approve" \/ pc = "remove"
    <3>1. CASE Create(s) \/ RemoveCompany(s)
      <4>1. \A c : /\ [Idle EXCEPT !.pc = "create", !.to = c].pc = "create"
                   /\ [Idle EXCEPT !.pc = "remove company", !.ids = c].pc = "remove company"
        BY Zenon DEF Idle
      <4>2. \E h : Goes(s, h) /\ Other(h.pc)
        BY <3>1, <4>1, Zenon DEF Create, RemoveCompany
      <4> QED
        BY <4>2
    <3>2. CASE Apply(s)
      <4>1. \A k, c : [Idle EXCEPT !.pc = "apply", !.id = k, !.to = c].pc = "apply"
        BY Zenon DEF Idle
      <4>2. \E h : Goes(s, h) /\ Other(h.pc)
        BY <3>2, <4>1, Zenon DEF Apply
      <4> QED
        BY <4>2
    <3>3. CASE ChangeApplication(s)
      <4>1. \A k, v : [Idle EXCEPT !.pc = "change application", !.id = k, !.keys = v].pc
                        = "change application"
        BY Zenon DEF Idle
      <4>2. \E h : Goes(s, h) /\ Other(h.pc)
        BY <3>3, <4>1, Zenon DEF ChangeApplication
      <4> QED
        BY <4>2
    <3>4. CASE Dashboard(s) \/ DashboardRest(s)
      <4>1. \A pc, k, v : [Idle EXCEPT !.pc = pc, !.id = k, !.view = v].pc = pc
        BY Zenon DEF Idle
      <4>2. CASE Dashboard(s)
        <5>1. PICK k \in Keys : \E pc \in {"compute", "fill"} : \E view :
                Goes(s, [Idle EXCEPT !.pc = pc, !.id = k, !.view = view])
          BY <4>2, DashboardGoes, Zenon
        <5>2. PICK pc \in {"compute", "fill"} : \E view :
                Goes(s, [Idle EXCEPT !.pc = pc, !.id = k, !.view = view])
          BY <5>1, Zenon
        <5>3. PICK view : Goes(s, [Idle EXCEPT !.pc = pc, !.id = k, !.view = view])
          BY <5>2, Zenon
        <5>4. PICK h : h = [Idle EXCEPT !.pc = pc, !.id = k, !.view = view]
          OBVIOUS
        <5>5. Goes(s, h) /\ h.pc = pc
          BY <5>3, <5>4, <4>1, Zenon
        <5> QED
          BY <5>5
      <4>3. CASE DashboardRest(s)
        <5>1. PICK k, view : Goes(s, [Idle EXCEPT !.pc = "fill", !.id = k, !.view = view])
          BY <4>3, Zenon DEF DashboardRest
        <5>2. PICK h : h = [Idle EXCEPT !.pc = "fill", !.id = k, !.view = view]
          OBVIOUS
        <5>3. Goes(s, h) /\ h.pc = "fill"
          BY <5>1, <5>2, <4>1, Zenon
        <5> QED
          BY <5>3
      <4> QED
        BY <3>4, <4>2, <4>3
    <3>5. CASE Update(s)
      <4>2. PICK p, c : Goes(s, [Idle EXCEPT !.pc = "update", !.id = p, !.to = c,
                                    !.view = Owners({p}), !.keys = ClearedByUpdate(p, c)])
        BY <3>5, Zenon DEF Update
      <4>3. PICK h : h = [Idle EXCEPT !.pc = "update", !.id = p, !.to = c,
                                      !.view = Owners({p}), !.keys = ClearedByUpdate(p, c)]
        OBVIOUS
      <4>4. Goes(s, h)
        BY <4>2, <4>3, Zenon
      <4>5. h.pc = "update"
        BY <4>3, Zenon DEF Idle
      <4> QED
        BY <4>4, <4>5
    <3>6. CASE ApproveJob(s)
      <4>1. \A p, w, v : [Idle EXCEPT !.pc = "approve", !.id = p, !.view = w, !.keys = v].pc
                           = "approve"
        BY Zenon DEF Idle
      <4>2. \E h : Goes(s, h) /\ Other(h.pc)
        BY <3>6, <4>1, Zenon DEF ApproveJob
      <4> QED
        BY <4>2
    <3>7. CASE Remove(s)
      <4>2. PICK P : Goes(s, [Idle EXCEPT !.pc = "remove", !.ids = P, !.view = Owners(P),
                                !.keys = {"admin", "top"} \cup {posting[p].of : p \in P}])
        BY <3>7, Zenon DEF Remove
      <4>3. PICK v : v = {"admin", "top"} \cup {posting[p].of : p \in P}
        OBVIOUS
      <4>4. PICK h : h = [Idle EXCEPT !.pc = "remove", !.ids = P, !.view = Owners(P), !.keys = v]
        OBVIOUS
      <4>5. Goes(s, h)
        BY <4>2, <4>3, <4>4, Zenon
      <4>6. h.pc = "remove"
        BY <4>4, Zenon DEF Idle
      <4> QED
        BY <4>5, <4>6
    <3> QED
      BY <1>8, <3>1, <3>2, <3>3, <3>4, <3>5, <3>6, <3>7
  <2> QED
    BY <2>1, <2>2, GoesElsewhere, DownStays
<1>9. ASSUME NEW s \in Slots,
             \/ ApplyInsert(s) \/ CreateResume(s) \/ SaveAnalysis(s)
             \/ ChangeApplicationWrite(s) \/ Clear(s) \/ DashboardFill(s)
      PROVE  Down'
  <2>1. UNCHANGED <<posting, risen>>
    BY <1>9, Zenon DEF ApplyInsert, CreateResume, SaveAnalysis, ChangeApplicationWrite, Clear,
                       DashboardFill, data, history
  <2>2. Ends(s) \/ \E keys : Clears(s, keys)
    BY <1>9, Zenon DEF ApplyInsert, CreateResume, SaveAnalysis, ChangeApplicationWrite, Clear,
                       DashboardFill
  <2> QED
    BY <2>1, <2>2, ClearsElsewhere, DownStays
<1>10. CASE FindExpiredJobs \/ SweepClear \/ CacheExpires \/ UNCHANGED vars
  <2>1. UNCHANGED <<posting, handler, risen>>
    BY <1>10, Zenon DEF FindExpiredJobs, SweepClear, CacheExpires, vars, data
  <2> QED
    BY <2>1 DEF Down, At
<1> QED
  BY <1>1, <1>2, <1>3, <1>4, <1>5, <1>6, <1>7, <1>8, <1>9, <1>10
     DEF Next, PostingSteps, CompanySteps, ApplicationSteps, SweepSteps

\* Companies removed together have no active posting left but those made
\* active meanwhile (CompaniesService.bulkRemove).
THEOREM CascadeIsComplete == Spec => CascadeHolds
<1>1. Init => Down
  <2>1. Init => handler = [s \in Slots |-> Idle]
    BY Zenon DEF Init
  <2>2. Idle.pc # "bulk remove company"
    BY DEF Idle
  <2> QED
    BY <2>1, <2>2 DEF Down, At
<1>2. IInv /\ Down /\ [Next]_vars => Down'
  BY StepDown
<1>3. IInv /\ Down /\ [Next]_vars =>
        [\A s \in Slots :
            (At(s, "bulk remove company") /\ RemoveCompanyWrite(s))
                => \A c \in handler[s].ids : \A p \in PostedBy(c) :
                      posting[p].active => p \in risen]_vars
  BY DEF Down, PostedBy, Live
<1> QED
  BY <1>1, <1>2, <1>3, Invariance, PTL DEF Spec, CascadeHolds

-----------------------------------------------------------------------------
(***************************************************************************)
(* The dashboards.  What a company's dashboard shows depends on the        *)
(* postings and the applications of that company only.                     *)
(***************************************************************************)
\* A step writes only postings of the companies in C, before and after, and
\* only applications to the companies in D.
WritesPostingsOf(C) ==
    \A p \in Ids : posting'[p] # posting[p] =>
        /\ posting[p].state = "none" \/ posting[p].of \in C
        /\ posting'[p].of \in C

WritesApplicationsTo(D) ==
    \A r \in Candidates : application'[r] # application[r] =>
        /\ application[r].state = "none" \/ application[r].of \in D
        /\ application'[r].of \in D

LEMMA PostedStays ==
    ASSUME NEW C, NEW c, c \notin C, WritesPostingsOf(C)
    PROVE  /\ PostedBy(c)' = PostedBy(c)
           /\ \A p \in PostedBy(c) : posting'[p] = posting[p]
BY DEF WritesPostingsOf, PostedBy, Live

LEMMA ReceivedStays ==
    ASSUME NEW D, NEW c, c \notin D, WritesApplicationsTo(D)
    PROVE  /\ ReceivedBy(c)' = ReceivedBy(c)
           /\ \A r \in ReceivedBy(c) : application'[r] = application[r]
BY DEF WritesApplicationsTo, ReceivedBy, Received

LEMMA HrStays ==
    ASSUME NEW C, NEW D, NEW c, c \notin C, c \notin D,
           WritesPostingsOf(C), WritesApplicationsTo(D)
    PROVE  HrDashboard(c)' = HrDashboard(c)
<1> DEFINE P == PostedBy(c)
           R == ReceivedBy(c)
<1>1. P' = P /\ \A p \in P : posting'[p] = posting[p]
  BY PostedStays
<1>2. R' = R /\ \A r \in R : application'[r] = application[r]
  BY ReceivedStays
<1> HIDE DEF P, R
<1>3. ApprovedActive(P)' = ApprovedActive(P)
  BY <1>1 DEF ApprovedActive
<1>4. PendingApproval(P)' = PendingApproval(P)
  BY <1>1 DEF PendingApproval
<1>5. Expired(P)' = Expired(P)
  BY <1>1 DEF Expired
<1>6. CountNewReceived(R)' = CountNewReceived(R)
  <2>1. {r \in R' : application'[r].age = "new"} = {r \in R : application[r].age = "new"}
    BY <1>2
  <2> QED
    BY <2>1 DEF CountNewReceived
<1>7. Analysed(R)' = Analysed(R)
  BY <1>2 DEF Analysed
<1>8. Responded(R)' = Responded(R)
  BY <1>2 DEF Responded
<1>9. StatusDistribution(R)' = StatusDistribution(R)
  <2>1. \A st : {r \in R' : application'[r].status = st} = {r \in R : application[r].status = st}
    BY <1>2
  <2> QED
    BY <2>1 DEF StatusDistribution
<1>10. TopJobs(R)' = TopJobs(R)
  <2>1. \A p : {r \in R' : application'[r].job = p} = {r \in R : application[r].job = p}
    BY <1>2
  <2>2. {application'[r].job : r \in R'} = {application[r].job : r \in R}
    BY <1>2
  <2> QED
    BY <2>1, <2>2 DEF TopJobs
<1> QED
  BY <1>3, <1>4, <1>5, <1>6, <1>7, <1>8, <1>9, <1>10 DEF HrDashboard, P, R

LEMMA TopStays ==
    ASSUME UNCHANGED <<company, posting>>
    PROVE  TopHiring' = TopHiring
<1>1. \A c : ApprovedActive(PostedBy(c))' = ApprovedActive(PostedBy(c))
  BY DEF ApprovedActive, PostedBy, Live
<1>2. HiringCompanies' = HiringCompanies
  BY DEF HiringCompanies, ApprovedActive, Live
<1>3. {d \in HiringCompanies' : company'[d] = "live"} = {d \in HiringCompanies : company[d] = "live"}
  BY <1>2
<1> QED
  BY <1>1, <1>3 DEF TopHiring

LEMMA AdminStays ==
    ASSUME UNCHANGED <<company, posting, application>>
    PROVE  AdminDashboard' = AdminDashboard
<1>1. Live(Ids)' = Live(Ids) /\ Received' = Received
  BY DEF Live, Received
<1>2. CountNew(Live(Ids))' = CountNew(Live(Ids))
  BY <1>1 DEF CountNew
<1>3. ApprovedActive(Live(Ids))' = ApprovedActive(Live(Ids))
  BY <1>1 DEF ApprovedActive
<1>4. PendingApproval(Live(Ids))' = PendingApproval(Live(Ids))
  BY <1>1 DEF PendingApproval
<1>5. HiringCompanies' = HiringCompanies
  BY DEF HiringCompanies, ApprovedActive, Live
<1>6. {c \in Companies : company'[c] = "live"} = {c \in Companies : company[c] = "live"}
  OBVIOUS
<1>7. CountNewReceived(Received)' = CountNewReceived(Received)
  BY <1>1 DEF CountNewReceived
<1>8. Analysed(Received)' = Analysed(Received)
  BY <1>1 DEF Analysed
<1> QED
  BY <1>1, <1>2, <1>3, <1>4, <1>5, <1>6, <1>7, <1>8 DEF AdminDashboard

\* The dashboards a step leaves as they are.
LEMMA FiguresStay ==
    ASSUME NEW C, NEW D, WritesPostingsOf(C), WritesApplicationsTo(D), NEW k \in Keys,
           \/ UNCHANGED data
           \/ k = "top" /\ UNCHANGED <<company, posting>>
           \/ k \notin {"admin", "top"} /\ k \notin C /\ k \notin D
    PROVE  Figures(k)' = Figures(k)
<1>1. CASE k = "admin"
  BY <1>1, AdminStays DEF Figures, data
<1>2. CASE k = "top"
  BY <1>2, TopStays DEF Figures, data
<1>3. CASE k \notin {"admin", "top"}
  <2>1. HrDashboard(k)' = HrDashboard(k)
    <3>1. CASE UNCHANGED data
      <4>1. WritesPostingsOf({}) /\ WritesApplicationsTo({})
        BY <3>1 DEF data, WritesPostingsOf, WritesApplicationsTo
      <4> QED
        BY <4>1, HrStays
    <3>2. CASE k \notin C /\ k \notin D
      BY <3>2, HrStays
    <3> QED
      BY <1>3, <3>1, <3>2
  <2> QED
    BY <1>3, <2>1 DEF Figures
<1> QED
  BY <1>1, <1>2, <1>3

-----------------------------------------------------------------------------
(***************************************************************************)
(* The cache: every step is one of ReadThrough.                            *)
(***************************************************************************)
\* The steps at which a handler has something to do with the cache.
Busy == {"clear", "fill"}

LEMMA FiguresRest ==
    ASSUME UNCHANGED data
    PROVE  Answers' = Answers
<1>1. WritesPostingsOf({}) /\ WritesApplicationsTo({})
  BY DEF data, WritesPostingsOf, WritesApplicationsTo
<1>2. \A k \in Keys : Figures(k)' = Figures(k)
  BY <1>1, FiguresStay
<1> QED
  BY <1>2 DEF Answers, Keys

\* The figures that change are those of entries that will be cleared or are excused.
LEMMA Touching ==
    ASSUME NEW K \in SUBSET Keys, NEW moved \in SUBSET Keys, Excuses(moved),
           NEW C, NEW D, WritesPostingsOf(C), WritesApplicationsTo(D),
           \A k \in Keys :
               \/ k = "admin" \/ k \in C \/ k \in D
               \/ k = "top" /\ ~UNCHANGED <<company, posting>>
               => k \in K \cup moved
    PROVE  Cache!Touches(K)
<1> DEFINE L == {k \in moved : cache[k] # None}
<1>1. L \in SUBSET {k \in Keys : cache[k] # None} /\ excused' = excused \cup L
  BY DEF Excuses
<1>2. ASSUME NEW k \in Keys \ (K \cup L), cache[k] # None
      PROVE  Answers'[k] = Answers[k]
  <2>1. k \notin K \cup moved
    BY <1>2
  <2>2. Figures(k)' = Figures(k)
    BY <2>1, FiguresStay
  <2> QED
    BY <2>2 DEF Answers, Keys
<1> HIDE DEF L
<1> QED
  BY <1>1, <1>2 DEF Cache!Touches

\* What one handler's step makes of what is promised and carried.
LEMMA CacheMoves ==
    ASSUME IInv, NEW s \in Slots, NEW h, Goes(s, h), sweep' = sweep
    PROVE  /\ handler'[s] = h
           /\ Promised' = [Promised EXCEPT ![s] = IF h.pc = "clear" THEN h.keys ELSE {}]
           /\ Carried' = [Carried EXCEPT ![s] = IF h.pc = "fill" THEN {<<h.id, h.view>>} ELSE {}]
           /\ Promised[s] = IF At(s, "clear") THEN handler[s].keys ELSE {}
           /\ Carried[s] = IF At(s, "fill") THEN {<<handler[s].id, handler[s].view>>} ELSE {}
<1>0. s # "sweep" /\ s \in Clients
  BY SweepAssumption DEF Clients
<1>1. handler'[s] = h /\ \A t \in Slots \ {s} : handler'[t] = handler[t]
  BY DEF Goes, IInv, Handlers
<1>2. \A c \in Clients \ {s} : Promised'[c] = Promised[c] /\ Carried'[c] = Carried[c]
  BY <1>1 DEF Clients, Promised, PromisedBy, Carried, CarriedBy, At
<1>3. /\ Promised'[s] = IF h.pc = "clear" THEN h.keys ELSE {}
      /\ Carried'[s] = IF h.pc = "fill" THEN {<<h.id, h.view>>} ELSE {}
  BY <1>0, <1>1 DEF Clients, Promised, PromisedBy, Carried, CarriedBy, At
<1>4. /\ Promised' = [c \in Clients |-> Promised'[c]] /\ DOMAIN Promised = Clients
      /\ Carried' = [c \in Clients |-> Carried'[c]] /\ DOMAIN Carried = Clients
  BY DEF Promised, Carried, Clients
<1>5. /\ Promised' = [Promised EXCEPT ![s] = IF h.pc = "clear" THEN h.keys ELSE {}]
      /\ Carried' = [Carried EXCEPT ![s] = IF h.pc = "fill" THEN {<<h.id, h.view>>} ELSE {}]
  BY <1>2, <1>3, <1>4
<1> QED
  BY <1>0, <1>1, <1>5 DEF Promised, PromisedBy, Carried, CarriedBy

\* A handler that is not busy with the cache and will not be.
LEMMA QuietMove ==
    ASSUME IInv, NEW s \in Slots, handler[s].pc \notin Busy, NEW h, Goes(s, h), h.pc \notin Busy,
           sweep' = sweep
    PROVE  UNCHANGED <<Promised, Carried>>
<1>1. /\ Promised' = [Promised EXCEPT ![s] = {}] /\ Promised[s] = {}
      /\ Carried' = [Carried EXCEPT ![s] = {}] /\ Carried[s] = {}
  BY CacheMoves DEF Busy, At
<1> QED
  BY <1>1 DEF Promised, Carried

LEMMA Changing ==
    ASSUME IInv, NEW s \in Slots, handler[s].pc \notin Busy, NEW keys \in SUBSET Keys,
           Clears(s, keys), UNCHANGED <<cache, sweep>>, Cache!Touches(keys)
    PROVE  Cache!Change(s)
<1> DEFINE h == [Idle EXCEPT !.pc = "clear", !.keys = keys]
<1>1. h.pc = "clear" /\ h.keys = keys
  BY DEF Idle
<1>2. Goes(s, h)
  BY DEF Clears
<1> HIDE DEF h
<1>3. /\ Promised' = [Promised EXCEPT ![s] = keys] /\ Promised[s] = {}
      /\ Carried' = [Carried EXCEPT ![s] = {}] /\ Carried[s] = {}
  BY <1>1, <1>2, CacheMoves DEF Busy, At
<1>4. Carried' = Carried
  BY <1>3 DEF Carried
<1> QED
  BY <1>3, <1>4 DEF Cache!Change, Cache!Free

\* Postings.
LEMMA CreateInsertReads ==
    ASSUME IInv, NEW s \in Slots, CreateInsert(s)
    PROVE  Cache!Change(s)
<1> DEFINE c == handler[s].to
<1>1. /\ Clears(s, {"admin", "top", c}) /\ handler[s].pc \notin Busy
      /\ UNCHANGED <<company, application, cache, sweep, excused>>
  BY DEF CreateInsert, At, Busy
<1>2. {"admin", "top", c} \in SUBSET Keys
  BY DEF CreateInsert, At, IInv, Handlers, Fit, HandlerType, Keys
<1>3. PICK p, doc : /\ p \in Ids /\ posting[p].state = "none" /\ doc.of = c
                     /\ posting' = [posting EXCEPT ![p] = doc]
  <2>1. PICK p \in Ids, active \in BOOLEAN, ends \in {"later", "past"} :
          /\ posting[p].state = "none"
          /\ posting' = [posting EXCEPT ![p] =
                [state |-> "live", of |-> c, active |-> active,
                 approval |-> "pending", ends |-> ends, age |-> "new"]]
    BY DEF CreateInsert
  <2> DEFINE doc == [state |-> "live", of |-> c, active |-> active,
                     approval |-> "pending", ends |-> ends, age |-> "new"]
  <2>2. doc.of = c
    OBVIOUS
  <2>3. posting' = [posting EXCEPT ![p] = doc]
    BY <2>1
  <2> HIDE DEF doc
  <2> QED
    BY <2>1, <2>2, <2>3
<1>4. WritesPostingsOf({c}) /\ WritesApplicationsTo({})
  BY <1>1, <1>3 DEF WritesPostingsOf, WritesApplicationsTo, IInv, Docs
<1>5. Excuses({})
  BY <1>1 DEF Excuses
<1> HIDE DEF c
<1>6. Cache!Touches({"admin", "top", c})
  BY <1>2, <1>4, <1>5, Touching
<1> QED
  BY <1>1, <1>2, <1>6, Changing

LEMMA UpdateWriteReads ==
    ASSUME IInv, NEW s \in Slots, UpdateWrite(s)
    PROVE  Cache!Change(s)
<1> DEFINE p == handler[s].id
           o == posting[p].of
           n == Moved(p, handler[s].to)
<1>0. handler[s].pc = "update" /\ handler[s].pc \notin Busy
  BY DEF UpdateWrite, At, Busy
<1>1. /\ Clears(s, handler[s].keys) /\ Excuses(MovedTo(handler[s].view))
      /\ UNCHANGED <<company, application, cache, sweep>>
  BY DEF UpdateWrite
<1>2. /\ p \in Ids /\ {"admin", "top"} \subseteq handler[s].keys
      /\ handler[s].view[p] \in handler[s].keys /\ DOMAIN handler[s].view = {p}
      /\ handler[s].to = None \/ handler[s].to \in handler[s].keys
  BY <1>0, Held DEF Targets
<1>3. o \in handler[s].keys \cup MovedTo(handler[s].view)
  BY <1>2 DEF MovedTo
<1>4. n = o \/ n \in handler[s].keys
  BY <1>2 DEF Moved
<1>5. posting' \in [Ids -> Document] /\ posting'[p].of = n /\ \A q \in Ids \ {p} : posting'[q] = posting[q]
  <2>1. PICK active \in BOOLEAN, ends \in {"later", "past"} :
          posting' = [posting EXCEPT ![p].of = n, ![p].active = active, ![p].ends = ends]
    BY DEF UpdateWrite
  <2>2. PICK d \in Document : d = posting[p]
    BY <1>2 DEF IInv, Docs
  <2>3. \A x : [d EXCEPT !.of = x, !.active = active, !.ends = ends].of = x
    BY DEF Document
  <2>4. posting'[p] = [d EXCEPT !.of = n, !.active = active, !.ends = ends]
    BY <1>2, <2>1, <2>2 DEF IInv, Docs
  <2>5. \A q \in Ids \ {p} : posting'[q] = posting[q]
    BY <2>1 DEF IInv, Docs
  <2>6. posting' \in [Ids -> Document]
    BY UpdateWriteKeeps DEF IInv, Docs
  <2> QED
    BY <2>3, <2>4, <2>5, <2>6
<1>6. WritesPostingsOf({o, n}) /\ WritesApplicationsTo({})
  BY <1>1, <1>5 DEF WritesPostingsOf, WritesApplicationsTo
<1>7. handler[s].keys \in SUBSET Keys /\ MovedTo(handler[s].view) \in SUBSET Keys
  BY <1>0, Held DEF Keys
<1> HIDE DEF n, o
<1>8. Cache!Touches(handler[s].keys)
  BY <1>1, <1>2, <1>3, <1>4, <1>6, <1>7, Touching
<1> QED
  BY <1>0, <1>1, <1>7, <1>8, Changing

LEMMA ApproveWriteReads ==
    ASSUME IInv, NEW s \in Slots, ApproveWrite(s)
    PROVE  Cache!Change(s)
<1> DEFINE p == handler[s].id
           o == posting[p].of
<1>0. handler[s].pc = "approve" /\ handler[s].pc \notin Busy
  BY DEF ApproveWrite, At, Busy
<1>1. /\ Clears(s, handler[s].keys) /\ Excuses(MovedTo(handler[s].view))
      /\ UNCHANGED <<company, application, cache, sweep>>
  BY DEF ApproveWrite
<1>2. /\ p \in Ids /\ {"admin", "top"} \subseteq handler[s].keys
      /\ handler[s].view[p] \in handler[s].keys /\ DOMAIN handler[s].view = {p}
  BY <1>0, Held DEF Targets
<1>3. o \in handler[s].keys \cup MovedTo(handler[s].view)
  BY <1>2 DEF MovedTo
<1>5. posting'[p].of = o /\ \A q \in Ids \ {p} : posting'[q] = posting[q]
  <2>1. PICK status \in {"approved", "rejected"} :
          posting' = [posting EXCEPT ![p].approval = status]
    BY DEF ApproveWrite
  <2>2. PICK d \in Document : d = posting[p]
    BY <1>2 DEF IInv, Docs
  <2>3. [d EXCEPT !.approval = status].of = d.of
    BY DEF Document
  <2>4. posting'[p] = [d EXCEPT !.approval = status]
    BY <1>2, <2>1, <2>2 DEF IInv, Docs
  <2>5. \A q \in Ids \ {p} : posting'[q] = posting[q]
    BY <2>1 DEF IInv, Docs
  <2> QED
    BY <2>2, <2>3, <2>4, <2>5
<1>6. WritesPostingsOf({o}) /\ WritesApplicationsTo({})
  BY <1>1, <1>5 DEF WritesPostingsOf, WritesApplicationsTo
<1>7. handler[s].keys \in SUBSET Keys /\ MovedTo(handler[s].view) \in SUBSET Keys
  BY <1>0, Held DEF Keys
<1> HIDE DEF o
<1>8. Cache!Touches(handler[s].keys)
  BY <1>1, <1>2, <1>3, <1>6, <1>7, Touching
<1> QED
  BY <1>0, <1>1, <1>7, <1>8, Changing

LEMMA RemoveWriteReads ==
    ASSUME IInv, NEW s \in Slots, RemoveWrite(s)
    PROVE  Cache!Change(s)
<1> DEFINE P == handler[s].ids
           C == {posting[p].of : p \in P}
<1>0. handler[s].pc = "remove" /\ handler[s].pc \notin Busy
  BY DEF RemoveWrite, At, Busy
<1>1. /\ Clears(s, handler[s].keys) /\ Excuses(MovedTo(handler[s].view))
      /\ UNCHANGED <<company, application, cache, sweep>>
  BY DEF RemoveWrite
<1>2. /\ P \subseteq Ids /\ {"admin", "top"} \subseteq handler[s].keys
      /\ \A p \in P : handler[s].view[p] \in handler[s].keys
      /\ DOMAIN handler[s].view = P
  BY <1>0, Held DEF Targets
<1>3. C \subseteq handler[s].keys \cup MovedTo(handler[s].view)
  BY <1>2 DEF MovedTo
<1>5. /\ \A p \in P : posting'[p].of = posting[p].of
      /\ \A q \in Ids \ P : posting'[q] = posting[q]
  BY <1>2, FieldWritten DEF RemoveWrite, IInv, Docs
<1>6. WritesPostingsOf(C) /\ WritesApplicationsTo({})
  BY <1>1, <1>5 DEF WritesPostingsOf, WritesApplicationsTo
<1>7. handler[s].keys \in SUBSET Keys /\ MovedTo(handler[s].view) \in SUBSET Keys
  BY <1>0, Held DEF Keys
<1> HIDE DEF C
<1>8. Cache!Touches(handler[s].keys)
  BY <1>1, <1>2, <1>3, <1>6, <1>7, Touching
<1> QED
  BY <1>0, <1>1, <1>7, <1>8, Changing

\* Companies.
LEMMA BulkRemoveReads ==
    ASSUME IInv, NEW s \in Slots, BulkRemoveCompanies(s)
    PROVE  Cache!Drift
<1>1. PICK C \in SUBSET Companies :
        /\ posting' = [p \in Ids |-> IF p \in Deactivated(C)
                                     THEN [posting[p] EXCEPT !.active = FALSE] ELSE posting[p]]
        /\ Excuses({"admin", "top"} \cup C)
        /\ Goes(s, [Idle EXCEPT !.pc = "bulk remove company", !.ids = C])
  BY Zenon DEF BulkRemoveCompanies
<1>2. handler[s].pc \notin Busy /\ UNCHANGED <<company, application, cache, sweep>>
  BY DEF BulkRemoveCompanies, At, Busy
<1>3. posting' = [p \in Ids |-> IF p \in Deactivated(C)
                                THEN [posting[p] EXCEPT !.active = FALSE] ELSE posting[p]]
  BY <1>1
<1>4. \A p \in Ids : /\ posting'[p].of = posting[p].of
                     /\ p \notin Deactivated(C) => posting'[p] = posting[p]
  BY <1>3, FieldWritten DEF IInv, Docs
<1>5. \A p \in Deactivated(C) : posting[p].of \in C
  BY DEF Deactivated
<1>6. WritesPostingsOf(C) /\ WritesApplicationsTo({})
  BY <1>2, <1>4, <1>5 DEF WritesPostingsOf, WritesApplicationsTo
<1>7. Excuses({"admin", "top"} \cup C) /\ ({"admin", "top"} \cup C) \in SUBSET Keys
  BY <1>1 DEF Keys
<1>8. Cache!Touches({})
  BY <1>6, <1>7, Touching
<1>9. UNCHANGED <<Promised, Carried>>
  <2> DEFINE h == [Idle EXCEPT !.pc = "bulk remove company", !.ids = C]
  <2>1. h.pc \notin Busy
    BY DEF Idle, Busy
  <2>2. Goes(s, h)
    BY <1>1, Zenon
  <2> HIDE DEF h
  <2> QED
    BY <1>2, <2>1, <2>2, QuietMove
<1> QED
  BY <1>2, <1>8, <1>9 DEF Cache!Drift

LEMMA RemoveCompanyWriteReads ==
    ASSUME IInv, NEW s \in Slots, RemoveCompanyWrite(s)
    PROVE  Cache!Change(s)
<1>1. /\ handler[s].pc \notin Busy /\ Clears(s, {"top"}) /\ Excuses({"admin"})
      /\ UNCHANGED <<posting, application, cache, sweep>>
  BY DEF RemoveCompanyWrite, At, Busy
<1>2. WritesPostingsOf({}) /\ WritesApplicationsTo({})
  BY <1>1 DEF WritesPostingsOf, WritesApplicationsTo
<1>3. {"top"} \in SUBSET Keys /\ {"admin"} \in SUBSET Keys
  BY DEF Keys
<1>4. Cache!Touches({"top"})
  BY <1>1, <1>2, <1>3, Touching
<1> QED
  BY <1>1, <1>3, <1>4, Changing

\* Applications.
LEMMA SentReads ==
    ASSUME IInv, NEW r \in Candidates, NEW c, NEW p, NEW analysed, application[r].state = "none",
           application' = [application EXCEPT ![r] = Sent(c, p, analysed)], posting' = posting
    PROVE  WritesPostingsOf({}) /\ WritesApplicationsTo({c})
<1>1. PICK doc : doc = Sent(c, p, analysed)
  OBVIOUS
<1>2. doc.of = c
  BY <1>1 DEF Sent
<1> QED
  BY <1>1, <1>2 DEF WritesPostingsOf, WritesApplicationsTo, IInv, Docs

LEMMA ApplyInsertReads ==
    ASSUME IInv, NEW s \in Slots, ApplyInsert(s)
    PROVE  Cache!Drift
<1> DEFINE c == handler[s].to
<1>1. /\ handler[s].pc \notin Busy /\ Goes(s, Idle) /\ Excuses({"admin", c})
      /\ UNCHANGED <<company, posting, cache, sweep>>
  BY DEF ApplyInsert, At, Ends, Busy
<1>2. {"admin", c} \in SUBSET Keys
  BY DEF ApplyInsert, At, IInv, Handlers, Fit, HandlerType, Keys
<1>3. WritesPostingsOf({}) /\ WritesApplicationsTo({c})
  BY <1>1, SentReads DEF ApplyInsert
<1> HIDE DEF c
<1>5. Cache!Touches({})
  BY <1>1, <1>2, <1>3, Touching
<1>6. UNCHANGED <<Promised, Carried>>
  <2>1. Idle.pc \notin Busy
    BY DEF Idle, Busy
  <2> QED
    BY <1>1, <2>1, QuietMove
<1> QED
  BY <1>1, <1>5, <1>6 DEF Cache!Drift

LEMMA CreateResumeReads ==
    ASSUME IInv, NEW s \in Slots, CreateResume(s)
    PROVE  Cache!Change(s)
<1>1. PICK r \in Candidates, c \in Companies, p \in Ids :
        /\ application[r].state = "none"
        /\ application' = [application EXCEPT ![r] = Sent(c, p, FALSE)]
        /\ Clears(s, {"admin", c})
  BY CreatesFor
<1>2. handler[s].pc \notin Busy /\ UNCHANGED <<company, posting, cache, sweep, excused>>
  BY DEF CreateResume, At, Busy, history
<1>3. WritesPostingsOf({}) /\ WritesApplicationsTo({c})
  BY <1>1, <1>2, SentReads
<1>4. {"admin", c} \in SUBSET Keys /\ Excuses({})
  BY <1>2 DEF Keys, Excuses
<1>5. Cache!Touches({"admin", c})
  BY <1>2, <1>3, <1>4, Touching
<1> QED
  BY <1>1, <1>2, <1>4, <1>5, Changing

\* A change of an application that keeps its company, followed by the clearing.
LEMMA ApplicationReads ==
    ASSUME IInv, NEW s \in Slots, NEW r \in Candidates, handler[s].pc \notin Busy,
           NEW keys \in SUBSET Keys, Clears(s, keys), {"admin", application[r].of} \subseteq keys,
           application'[r].of = application[r].of,
           \A q \in Candidates \ {r} : application'[q] = application[q],
           UNCHANGED <<company, posting, cache, sweep, excused>>
    PROVE  Cache!Change(s)
<1>1. WritesPostingsOf({}) /\ WritesApplicationsTo({application[r].of})
  BY DEF WritesPostingsOf, WritesApplicationsTo
<1>2. Excuses({})
  BY DEF Excuses
<1>3. Cache!Touches(keys)
  BY <1>1, <1>2, Touching
<1> QED
  BY <1>3, Changing

LEMMA SaveAnalysisReads ==
    ASSUME IInv, NEW s \in Slots, SaveAnalysis(s)
    PROVE  Cache!Change(s)
<1>1. PICK r \in Candidates :
        /\ application[r].state # "none"
        /\ application' = [application EXCEPT ![r].analysed = TRUE]
        /\ Clears(s, {"admin", application[r].of})
  BY DEF SaveAnalysis
<1>2. handler[s].pc \notin Busy /\ UNCHANGED <<company, posting, cache, sweep, excused>>
  BY DEF SaveAnalysis, At, history, Busy
<1>3. \A d \in Application : [d EXCEPT !.analysed = TRUE].of = d.of
  BY DEF Application
<1>4. /\ application'[r].of = application[r].of
      /\ \A q \in Candidates \ {r} : application'[q] = application[q]
  BY <1>1, <1>3 DEF IInv, Docs
<1>5. {"admin", application[r].of} \in SUBSET Keys
  BY <1>1 DEF IInv, Docs, Keys
<1> QED
  BY <1>1, <1>2, <1>4, <1>5, ApplicationReads

LEMMA ChangeApplicationWriteReads ==
    ASSUME IInv, NEW s \in Slots, ChangeApplicationWrite(s)
    PROVE  Cache!Change(s)
<1> DEFINE r == handler[s].id
<1>1. /\ r \in Candidates /\ {"admin", application[r].of} \subseteq handler[s].keys
      /\ handler[s].keys \in SUBSET Keys /\ handler[s].pc \notin Busy
  BY DEF ChangeApplicationWrite, At, IInv, Handlers, Fit, HandlerType, Busy
<1>2. Clears(s, handler[s].keys) /\ UNCHANGED <<company, posting, cache, sweep, excused>>
  BY DEF ChangeApplicationWrite, history
<1>3. \A d \in Application : /\ [d EXCEPT !.status = "reviewing"].of = d.of
                             /\ [d EXCEPT !.state = "removed"].of = d.of
  BY DEF Application
<1>4. /\ application'[r].of = application[r].of
      /\ \A q \in Candidates \ {r} : application'[q] = application[q]
  BY <1>1, <1>3 DEF IInv, Docs, ChangeApplicationWrite
<1> QED
  BY <1>1, <1>2, <1>4, ApplicationReads

\* The cache itself.
LEMMA ClearReads ==
    ASSUME IInv, NEW s \in Slots, Clear(s)
    PROVE  Cache!Clear(s)
<1>1. /\ At(s, "clear")
      /\ cache' = [k \in Keys |-> IF k \in handler[s].keys THEN None ELSE cache[k]]
      /\ excused' = excused \ handler[s].keys
      /\ Goes(s, Idle) /\ UNCHANGED <<data, sweep>>
  BY DEF Clear, Ends
<1>2. Idle.pc \notin Busy
  BY DEF Idle, Busy
<1>3. /\ Promised' = [Promised EXCEPT ![s] = {}] /\ Promised[s] = handler[s].keys
      /\ Carried' = [Carried EXCEPT ![s] = {}] /\ Carried[s] = {}
  BY <1>1, <1>2, CacheMoves DEF Busy, At
<1>4. Carried' = Carried
  BY <1>3 DEF Carried
<1> QED
  BY <1>1, <1>3, <1>4, FiguresRest DEF Cache!Clear

\* A handler goes on with what it has of a dashboard, or is about to store it.
LEMMA Gathering ==
    ASSUME IInv, NEW s \in Slots, handler[s].pc \notin Busy,
           NEW k \in Keys, NEW view, NEW pc \in {"compute", "fill"},
           NEW h, h.pc = pc, h.id = k, h.view = view, Goes(s, h),
           UNCHANGED <<data, cache, sweep, excused>>
    PROVE  Cache!Gather(s) \/ UNCHANGED Cache!vars
<1>3. CASE pc = "compute"
  <2>1. UNCHANGED <<Promised, Carried>>
    BY <1>3, QuietMove DEF Busy
  <2> QED
    BY <2>1, FiguresRest DEF Cache!vars
<1>4. CASE pc = "fill"
  <2>0. /\ Promised' = [Promised EXCEPT ![s] = IF h.pc = "clear" THEN h.keys ELSE {}]
        /\ Carried' = [Carried EXCEPT ![s] = IF h.pc = "fill" THEN {<<h.id, h.view>>} ELSE {}]
    BY CacheMoves
  <2>3. Promised[s] = {} /\ Carried[s] = {}
    BY CacheMoves DEF Busy, At
  <2>1. /\ Promised' = [Promised EXCEPT ![s] = {}] /\ Promised[s] = {}
        /\ Carried' = [Carried EXCEPT ![s] = {<<k, view>>}] /\ Carried[s] = {}
    BY <1>4, <2>0, <2>3
  <2>2. Promised' = Promised
    BY <2>1 DEF Promised
  <2> QED
    BY <2>1, <2>2, FiguresRest DEF Cache!Gather, Cache!Free
<1> QED
  BY <1>3, <1>4

LEMMA DashboardReads ==
    ASSUME IInv, NEW s \in Slots, Dashboard(s)
    PROVE  Cache!Gather(s) \/ UNCHANGED Cache!vars
<1>1. handler[s].pc \notin Busy /\ UNCHANGED <<data, cache, sweep, excused>>
  BY Zenon DEF Dashboard, At, Busy, history
<1>2. PICK k \in Keys : \E pc \in {"compute", "fill"} : \E view :
        Goes(s, [Idle EXCEPT !.pc = pc, !.id = k, !.view = view])
  BY DashboardGoes, Zenon
<1>3. PICK pc \in {"compute", "fill"} : \E view :
        Goes(s, [Idle EXCEPT !.pc = pc, !.id = k, !.view = view])
  BY <1>2, Zenon
<1>4. PICK view : Goes(s, [Idle EXCEPT !.pc = pc, !.id = k, !.view = view])
  BY <1>3, Zenon
<1>5. PICK h : h = [Idle EXCEPT !.pc = pc, !.id = k, !.view = view]
  OBVIOUS
<1>6. h.pc = pc /\ h.id = k /\ h.view = view /\ Goes(s, h)
  BY <1>4, <1>5, Zenon DEF Idle
<1> QED
  BY <1>1, <1>6, Gathering, Zenon

LEMMA DashboardRestReads ==
    ASSUME IInv, NEW s \in Slots, DashboardRest(s)
    PROVE  Cache!Gather(s) \/ UNCHANGED Cache!vars
<1>1. handler[s].pc \notin Busy /\ UNCHANGED <<data, cache, sweep, excused>>
  BY DEF DashboardRest, At, Busy, history
<1>2. handler[s].id \in Keys
  BY DEF DashboardRest, At, IInv, Handlers, Fit, HandlerType
<1>3. PICK view : Goes(s, [Idle EXCEPT !.pc = "fill", !.id = handler[s].id, !.view = view])
  BY Zenon DEF DashboardRest
<1>4. PICK h : h = [Idle EXCEPT !.pc = "fill", !.id = handler[s].id, !.view = view]
  OBVIOUS
<1>5. h.pc = "fill" /\ h.id = handler[s].id /\ h.view = view /\ Goes(s, h)
  BY <1>3, <1>4, Zenon DEF Idle
<1> QED
  BY <1>1, <1>2, <1>5, Gathering, Zenon

LEMMA FillReads ==
    ASSUME IInv, NEW s \in Slots, DashboardFill(s)
    PROVE  Cache!Store(s)
<1> DEFINE f == handler[s].id
           v == handler[s].view
           t == <<f, v>>
<1>1. /\ cache' = [cache EXCEPT ![f] = v]
      /\ excused' = IF v = Figures(f) THEN excused \ {f} ELSE excused \cup {f}
      /\ Goes(s, Idle) /\ At(s, "fill") /\ UNCHANGED <<data, sweep>>
  BY DEF DashboardFill, Ends
<1>2. f \in Keys
  BY DEF DashboardFill, At, IInv, Handlers, Fit, HandlerType
<1>3. excused' = IF v \in Answers[f] THEN excused \ {f} ELSE excused \cup {f}
  BY <1>1, <1>2 DEF Answers
<1>4. Idle.pc \notin Busy
  BY DEF Idle, Busy
<1>5. /\ Promised' = [Promised EXCEPT ![s] = {}] /\ Promised[s] = {}
      /\ Carried' = [Carried EXCEPT ![s] = {}] /\ Carried[s] = {t}
  BY <1>1, <1>4, CacheMoves DEF Busy, At
<1>6. Promised' = Promised
  BY <1>5 DEF Promised
<1>7. t \in Carried[s] /\ t[1] = f /\ t[2] = v
  BY <1>5
<1> HIDE DEF t, v, f
<1>8. \E k \in Keys : \E u \in Carried[s] :
          /\ u[1] = k
          /\ cache' = [cache EXCEPT ![k] = u[2]]
          /\ excused' = IF u[2] \in Answers[k] THEN excused \ {k} ELSE excused \cup {k}
  BY <1>1, <1>2, <1>3, <1>7
<1> QED
  BY <1>1, <1>5, <1>6, <1>8, FiguresRest DEF Cache!Store

LEMMA ExpiryReads ==
    ASSUME CacheExpires
    PROVE  \E k \in Keys : Cache!Expire(k)
<1>1. PICK e \in Keys : cache' = [cache EXCEPT ![e] = None] /\ excused' = excused \ {e}
  BY DEF CacheExpires
<1>2. UNCHANGED <<data, handler, sweep>>
  BY DEF CacheExpires
<1>3. UNCHANGED <<Promised, Carried>>
  BY <1>2 DEF Promised, PromisedBy, Carried, CarriedBy, At
<1> QED
  BY <1>1, <1>2, <1>3, FiguresRest DEF Cache!Expire

\* The sweep.
LEMMA SweepMoves ==
    ASSUME handler' = handler
    PROVE  /\ Promised' = [Promised EXCEPT !["sweep"] =
                              IF sweep'.pc = "clear" THEN sweep'.keys ELSE {}]
           /\ Promised["sweep"] = IF sweep.pc = "clear" THEN sweep.keys ELSE {}
           /\ Carried' = Carried /\ Carried["sweep"] = {}
<1>1. "sweep" \in Clients
  BY DEF Clients
<1>2. \A c \in Clients \ {"sweep"} : Promised'[c] = Promised[c]
  BY DEF Clients, Promised, PromisedBy, At
<1>3. Promised'["sweep"] = IF sweep'.pc = "clear" THEN sweep'.keys ELSE {}
  BY <1>1 DEF Clients, Promised, PromisedBy
<1>4. Promised' = [c \in Clients |-> Promised'[c]] /\ DOMAIN Promised = Clients
  BY DEF Promised, Clients
<1>5. Promised' = [Promised EXCEPT !["sweep"] = IF sweep'.pc = "clear" THEN sweep'.keys ELSE {}]
  BY <1>2, <1>3, <1>4
<1> QED
  BY <1>1, <1>5 DEF Promised, PromisedBy, Carried, CarriedBy, Clients, At

LEMMA FindExpiredReads ==
    ASSUME FindExpiredJobs
    PROVE  UNCHANGED Cache!vars
<1>1. UNCHANGED <<data, cache, handler, excused>> /\ sweep.pc = "idle" /\ sweep'.pc = "found"
  BY DEF FindExpiredJobs
<1>2. UNCHANGED <<Promised, Carried>>
  BY <1>1 DEF Promised, PromisedBy, Carried, CarriedBy, At
<1> QED
  BY <1>1, <1>2, FiguresRest DEF Cache!vars

LEMMA DeactivateReads ==
    ASSUME IInv, DeactivateExpired
    PROVE  Cache!Change("sweep")
<1> DEFINE P == sweep.ids
           C == {posting[p].of : p \in P}
<1>1. /\ posting' = [p \in Ids |-> IF p \in P THEN [posting[p] EXCEPT !.active = FALSE]
                                              ELSE posting[p]]
      /\ Excuses(MovedTo(sweep.view)) /\ sweep.pc = "found"
      /\ UNCHANGED <<company, application, cache, handler>>
  BY DEF DeactivateExpired, SwitchedOff
<1>2. sweep'.pc = "clear" /\ sweep'.keys = sweep.keys
  BY Zenon DEF DeactivateExpired, Asleep
<1>3. /\ P \subseteq Ids /\ DOMAIN sweep.view = P /\ {"admin", "top"} \subseteq sweep.keys
      /\ \A p \in P : posting[p].state # "none" /\ sweep.view[p] \in sweep.keys
      /\ sweep.keys \in SUBSET Keys
  BY <1>1 DEF IInv, Sweeper, SweepFit
<1>4. C \subseteq sweep.keys \cup MovedTo(sweep.view)
  BY <1>3 DEF MovedTo
<1>5. posting' = [p \in Ids |-> IF p \in P THEN [posting[p] EXCEPT !.active = FALSE]
                                           ELSE posting[p]]
  BY <1>1
<1>6. \A p \in Ids : /\ posting'[p].of = posting[p].of
                     /\ p \notin P => posting'[p] = posting[p]
  BY <1>5, FieldWritten DEF IInv, Docs
<1>7. WritesPostingsOf(C) /\ WritesApplicationsTo({})
  BY <1>1, <1>6 DEF WritesPostingsOf, WritesApplicationsTo
<1>8. MovedTo(sweep.view) \in SUBSET Keys
  BY <1>3, MovedKeys DEF IInv, Keys
<1> HIDE DEF C
<1>9. Cache!Touches(sweep.keys)
  BY <1>1, <1>3, <1>4, <1>7, <1>8, Touching
<1>10. /\ Promised' = [Promised EXCEPT !["sweep"] = sweep.keys] /\ Promised["sweep"] = {}
       /\ Carried' = Carried /\ Carried["sweep"] = {}
  BY <1>1, <1>2, SweepMoves
<1> QED
  BY <1>1, <1>3, <1>9, <1>10 DEF Cache!Change, Cache!Free

LEMMA SweepClearReads ==
    ASSUME SweepClear
    PROVE  Cache!Clear("sweep")
<1>1. /\ cache' = [k \in Keys |-> IF k \in sweep.keys THEN None ELSE cache[k]]
      /\ excused' = excused \ sweep.keys /\ UNCHANGED <<data, handler>>
      /\ sweep.pc = "clear" /\ sweep'.pc = "idle"
  BY DEF SweepClear, Asleep
<1>2. /\ Promised' = [Promised EXCEPT !["sweep"] = {}] /\ Promised["sweep"] = sweep.keys
      /\ Carried' = Carried
  BY <1>1, SweepMoves
<1> QED
  BY <1>1, <1>2, FiguresRest DEF Cache!Clear

\* Time.
LEMMA TimeReads ==
    ASSUME NEW moved \in SUBSET Keys, Excuses(moved), UNCHANGED <<cache, handler, sweep>>,
           NEW C, NEW D, WritesPostingsOf(C), WritesApplicationsTo(D),
           {"admin", "top"} \cup (Keys \cap (C \cup D)) \subseteq moved
    PROVE  Cache!Drift
<1>1. Cache!Touches({})
  BY Touching
<1>2. UNCHANGED <<Promised, Carried>>
  BY DEF Promised, PromisedBy, Carried, CarriedBy, At
<1> QED
  BY <1>1, <1>2 DEF Cache!Drift

LEMMA DayPassesReads ==
    ASSUME IInv, DayPasses
    PROVE  Cache!Drift
<1> DEFINE L == {k \in Keys : cache[k] # None}
<1>1. UNCHANGED <<cache, handler, sweep>> /\ excused' = excused \cup L
  BY DEF DayPasses, Excuses
<1>2. Cache!Touches({})
  <2>1. L \in SUBSET {k \in Keys : cache[k] # None}
    OBVIOUS
  <2>2. \A k \in Keys \ ({} \cup L) : cache[k] = None
    OBVIOUS
  <2> HIDE DEF L
  <2> QED
    BY <1>1, <2>1, <2>2 DEF Cache!Touches
<1>3. UNCHANGED <<Promised, Carried>>
  BY <1>1 DEF Promised, PromisedBy, Carried, CarriedBy, At
<1> QED
  BY <1>1, <1>2, <1>3 DEF Cache!Drift

LEMMA EndComesReads ==
    ASSUME IInv, NEW p \in Ids, EndComes(p)
    PROVE  Cache!Drift
<1> DEFINE o == posting[p].of
<1>1. /\ Excuses({"admin", "top", o}) /\ posting' = [posting EXCEPT ![p].ends = "past"]
      /\ posting[p].state = "live" /\ UNCHANGED <<company, application, cache, handler, sweep>>
  BY DEF EndComes
<1>2. posting'[p].of = o /\ \A q \in Ids \ {p} : posting'[q] = posting[q]
  <2>1. PICK d \in Document : d = posting[p]
    BY DEF IInv, Docs
  <2>2. posting'[p] = [d EXCEPT !.ends = "past"]
    BY <1>1, <2>1 DEF IInv, Docs
  <2>3. \A q \in Ids \ {p} : posting'[q] = posting[q]
    BY <1>1 DEF IInv, Docs
  <2> QED
    BY <2>1, <2>2, <2>3, FieldWritten
<1>3. WritesPostingsOf({o}) /\ WritesApplicationsTo({})
  BY <1>1, <1>2 DEF WritesPostingsOf, WritesApplicationsTo
<1>4. {"admin", "top", o} \in SUBSET Keys
  BY <1>1 DEF IInv, Docs, Keys
<1> HIDE DEF o
<1> QED
  BY <1>1, <1>3, <1>4, TimeReads

\* A handler that only reads documents.
LEMMA QuietReads ==
    ASSUME IInv, NEW s \in Slots,
           \/ Create(s) \/ Update(s) \/ ApproveJob(s) \/ Remove(s) \/ RemoveCompany(s)
           \/ Apply(s) \/ ChangeApplication(s)
    PROVE  UNCHANGED Cache!vars
<1>1. handler[s].pc \notin Busy /\ UNCHANGED <<data, cache, sweep, excused>>
  BY Zenon DEF Create, Update, ApproveJob, Remove, RemoveCompany, Apply, ChangeApplication,
               history, Busy, At
<1>2. \E h : Goes(s, h) /\ h.pc \notin Busy
  <2>1. \A id, to, keys, ids, view :
           /\ [Idle EXCEPT !.pc = "create", !.to = to].pc \notin Busy
           /\ [Idle EXCEPT !.pc = "update", !.id = id, !.to = to, !.view = view, !.keys = keys].pc
                 \notin Busy
           /\ [Idle EXCEPT !.pc = "approve", !.id = id, !.view = view, !.keys = keys].pc \notin Busy
           /\ [Idle EXCEPT !.pc = "remove", !.ids = ids, !.view = view, !.keys = keys].pc \notin Busy
           /\ [Idle EXCEPT !.pc = "remove company", !.ids = ids].pc \notin Busy
           /\ [Idle EXCEPT !.pc = "apply", !.id = id, !.to = to].pc \notin Busy
           /\ [Idle EXCEPT !.pc = "change application", !.id = id, !.keys = keys].pc \notin Busy
    BY DEF Idle, Busy
  <2>2. CASE Create(s) \/ RemoveCompany(s) \/ Apply(s)
    BY <2>1, <2>2 DEF Create, RemoveCompany, Apply
  <2>3. CASE Update(s)
    BY <2>1, <2>3 DEF Update
  <2>4. CASE ApproveJob(s) \/ ChangeApplication(s)
    BY <2>1, <2>4 DEF ApproveJob, ChangeApplication
  <2>5. CASE Remove(s)
    BY <2>1, <2>5 DEF Remove
  <2> QED
    BY <2>2, <2>3, <2>4, <2>5
<1>3. UNCHANGED <<Promised, Carried>>
  BY <1>1, <1>2, QuietMove
<1> QED
  BY <1>1, <1>3, FiguresRest DEF Cache!vars

LEMMA StepReads == IInv /\ [Next]_vars => [Cache!Next]_(Cache!vars)
<1> SUFFICES ASSUME IInv, [Next]_vars
             PROVE  Cache!Next \/ UNCHANGED Cache!vars
  OBVIOUS
<1>0. \A s \in Slots : s \in Clients
  BY DEF Clients
<1>1. ASSUME NEW s \in Slots, PostingSteps(s)
      PROVE  Cache!Change(s) \/ UNCHANGED Cache!vars
  BY <1>1, QuietReads, CreateInsertReads, UpdateWriteReads, ApproveWriteReads,
     RemoveWriteReads DEF PostingSteps
<1>2. ASSUME NEW s \in Slots, CompanySteps(s)
      PROVE  Cache!Change(s) \/ Cache!Drift \/ UNCHANGED Cache!vars
  BY <1>2, QuietReads, BulkRemoveReads, RemoveCompanyWriteReads DEF CompanySteps
<1>3. ASSUME NEW s \in Slots, ApplicationSteps(s)
      PROVE  Cache!Change(s) \/ Cache!Drift \/ UNCHANGED Cache!vars
  BY <1>3, QuietReads, ApplyInsertReads, CreateResumeReads, SaveAnalysisReads,
     ChangeApplicationWriteReads DEF ApplicationSteps
<1>4. ASSUME NEW s \in Slots, Clear(s) \/ Dashboard(s) \/ DashboardRest(s) \/ DashboardFill(s)
      PROVE  Cache!Clear(s) \/ Cache!Gather(s) \/ Cache!Store(s) \/ UNCHANGED Cache!vars
  BY <1>4, ClearReads, DashboardReads, DashboardRestReads, FillReads
<1>5. ASSUME SweepSteps
      PROVE  Cache!Change("sweep") \/ Cache!Clear("sweep") \/ UNCHANGED Cache!vars
  BY <1>5, FindExpiredReads, DeactivateReads, SweepClearReads DEF SweepSteps
<1>6. ASSUME CacheExpires \/ DayPasses \/ \E p \in Ids : EndComes(p)
      PROVE  Cache!Drift \/ \E k \in Keys : Cache!Expire(k)
  BY <1>6, ExpiryReads, DayPassesReads, EndComesReads
<1>7. CASE UNCHANGED vars
  <2>1. UNCHANGED <<data, cache, excused, handler, sweep>>
    BY <1>7 DEF vars, data
  <2> QED
    BY <2>1, FiguresRest DEF Cache!vars, Promised, PromisedBy, Carried, CarriedBy, At
<1>8. "sweep" \in Clients
  BY DEF Clients
<1>9. CASE \E s \in Slots :
             \/ PostingSteps(s) \/ CompanySteps(s) \/ ApplicationSteps(s)
             \/ Clear(s) \/ Dashboard(s) \/ DashboardRest(s) \/ DashboardFill(s)
  BY <1>0, <1>1, <1>2, <1>3, <1>4, <1>9 DEF Cache!Next
<1>10. CASE SweepSteps
  BY <1>5, <1>8, <1>10 DEF Cache!Next
<1>11. CASE CacheExpires \/ DayPasses \/ \E p \in Ids : EndComes(p)
  BY <1>6, <1>11 DEF Cache!Next
<1> QED
  BY <1>7, <1>9, <1>10, <1>11 DEF Next

\* The dashboards keep what ReadThrough promises (StatisticsCacheService and its callers).
THEOREM DashboardsReadThrough == Spec => ReadsThrough
<1>1. Init => Cache!Init
  <2> SUFFICES ASSUME Init
               PROVE  Cache!Init
    OBVIOUS
  <2>1. /\ \A s \in Slots : handler[s].pc = "idle"
        /\ sweep.pc = "idle" /\ cache = [k \in Keys |-> None] /\ excused = {}
    BY DEF Init, Idle, Asleep
  <2>2. Promised = [c \in Clients |-> {}] /\ Carried = [c \in Clients |-> {}]
    BY <2>1 DEF Promised, PromisedBy, Carried, CarriedBy, Clients, At
  <2> QED
    BY <2>1, <2>2 DEF Cache!Init
<1> QED
  BY <1>1, StepReads, Invariance, PTL DEF Spec, ReadsThrough, Cache!Spec

\* What ReadThrough promises is enough for the property the cache is there for.
LEMMA PromisesSettle == Cache!Settled /\ [Cache!Next]_(Cache!vars) => Cache!Settled'
<1> SUFFICES ASSUME Cache!Settled, [Cache!Next]_(Cache!vars)
             PROVE  Cache!Settled'
  OBVIOUS
<1>0. DOMAIN Promised = Clients
  BY DEF Promised
<1>1. ASSUME NEW c \in Clients, Cache!Change(c)
      PROVE  Cache!Settled'
  BY <1>0, <1>1 DEF Cache!Change, Cache!Free, Cache!Touches, Cache!Settled
<1>2. ASSUME NEW c \in Clients, Cache!Clear(c)
      PROVE  Cache!Settled'
  BY <1>0, <1>2 DEF Cache!Clear, Cache!Settled
<1>3. ASSUME NEW c \in Clients, Cache!Read(c)
      PROVE  Cache!Settled'
  BY <1>3 DEF Cache!Read, Cache!Settled
<1>4. ASSUME NEW c \in Clients, Cache!Store(c)
      PROVE  Cache!Settled'
  BY <1>4 DEF Cache!Store, Cache!Settled
<1>8. ASSUME NEW c \in Clients, Cache!Gather(c)
      PROVE  Cache!Settled'
  BY <1>8 DEF Cache!Gather, Cache!Settled
<1>5. ASSUME NEW k \in Keys, Cache!Expire(k)
      PROVE  Cache!Settled'
  BY <1>5 DEF Cache!Expire, Cache!Settled
<1>6. CASE Cache!Drift
  BY <1>6 DEF Cache!Drift, Cache!Touches, Cache!Settled
<1>7. CASE UNCHANGED Cache!vars
  BY <1>7 DEF Cache!vars, Cache!Settled
<1> QED
  BY <1>1, <1>2, <1>3, <1>4, <1>5, <1>6, <1>7, <1>8 DEF Cache!Next

\* A cached dashboard is up to date, or about to be cleared, or out of date for
\* one of the named reasons: it follows from the promises alone (StatisticsCacheService
\* and its callers).
THEOREM DashboardsSettle == Spec => []CachesSettle
<1>1. Cache!Init => Cache!Settled
  BY DEF Cache!Init, Cache!Settled
<1>2. Cache!Settled => CachesSettle
  <2> SUFFICES ASSUME Cache!Settled, NEW k \in Keys, Outdated(k), k \notin excused
               PROVE  \/ \E s \in Slots : At(s, "clear") /\ k \in handler[s].keys
                      \/ sweep.pc = "clear" /\ k \in sweep.keys
    BY DEF CachesSettle
  <2>1. cache[k] \notin Answers[k] \cup {None}
    BY DEF Outdated, Answers
  <2>2. PICK c \in Clients : k \in PromisedBy(c)
    BY <2>1 DEF Cache!Settled, Promised
  <2> QED
    BY <2>2 DEF PromisedBy, Clients
<1>3. ReadsThrough => []Cache!Settled
  BY <1>1, PromisesSettle, PTL DEF ReadsThrough, Cache!Spec
<1> QED
  BY <1>2, <1>3, DashboardsReadThrough, PTL
=============================================================================
