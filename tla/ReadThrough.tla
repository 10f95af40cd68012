---------------------------- MODULE ReadThrough ----------------------------
(***************************************************************************)
(* What a read-through cache promises.  Answers are worked out from a      *)
(* source that changes, and stored; who changes the source clears the      *)
(* entries it touched, afterwards.  An entry can still be out of date, but *)
(* only while someone is about to clear it, or when it is known as late:   *)
(* stored after its answer had changed, or drifted from its answer by a    *)
(* change that clears nothing.  What does not drift is read at once, and   *)
(* nothing is stored that was not, at some moment, an answer.              *)
(***************************************************************************)
CONSTANTS
    Keys,
    Clients,        \* who reads, changes and clears, one thing at a time
    Drifting,       \* the keys whose answers may change without being cleared
    None

VARIABLES
    answer,         \* per key: the answers the source may give now
    cache,          \* per key: the answer stored, or None
    promised,       \* per client: the entries it is about to clear
    carried,        \* per client: the answer it has read and not stored yet, with its key
    late            \* the entries that may stay out of date

vars == <<answer, cache, promised, carried, late>>

Free(c) == promised[c] = {} /\ carried[c] = {}

\* Only the answers for K change, and such as may drift: those that are cached are late.
Touches(K) ==
    \E D \in SUBSET {k \in Drifting : cache[k] # None} :
        /\ late' = late \cup D
        /\ \A k \in Keys \ (K \cup D) :
              (k \in Drifting /\ cache[k] = None) \/ answer'[k] = answer[k]

Init ==
    /\ cache = [k \in Keys |-> None]
    /\ promised = [c \in Clients |-> {}] /\ carried = [c \in Clients |-> {}]
    /\ late = {}

Change(c) ==
    /\ Free(c) /\ UNCHANGED <<cache, carried>>
    /\ \E K \in SUBSET Keys :
          /\ promised' = [promised EXCEPT ![c] = K]
          /\ Touches(K)

Drift ==
    /\ UNCHANGED <<cache, promised, carried>>
    /\ Touches({})

Clear(c) ==
    /\ cache' = [k \in Keys |-> IF k \in promised[c] THEN None ELSE cache[k]]
    /\ late' = late \ promised[c]
    /\ promised' = [promised EXCEPT ![c] = {}]
    /\ UNCHANGED <<answer, carried>>

Read(c) ==
    /\ Free(c)
    /\ \E k \in Keys : \E a \in answer[k] : carried' = [carried EXCEPT ![c] = {<<k, a>>}]
    /\ UNCHANGED <<answer, cache, promised, late>>

\* What drifts may be put together from several readings, and never have been an answer.
Gather(c) ==
    /\ Free(c)
    /\ \E k \in Drifting : \E a : carried' = [carried EXCEPT ![c] = {<<k, a>>}]
    /\ UNCHANGED <<answer, cache, promised, late>>

Store(c) ==
    /\ \E k \in Keys : \E t \in carried[c] :
          /\ t[1] = k
          /\ cache' = [cache EXCEPT ![k] = t[2]]
          /\ late' = IF t[2] \in answer[k] THEN late \ {k} ELSE late \cup {k}
    /\ carried' = [carried EXCEPT ![c] = {}]
    /\ UNCHANGED <<answer, promised>>

Expire(k) ==
    /\ cache' = [cache EXCEPT ![k] = None]
    /\ late' = late \ {k}
    /\ UNCHANGED <<answer, promised, carried>>

Next ==
    \/ \E c \in Clients : Change(c) \/ Clear(c) \/ Read(c) \/ Gather(c) \/ Store(c)
    \/ \E k \in Keys : Expire(k)
    \/ Drift

Spec == Init /\ [][Next]_vars

-----------------------------------------------------------------------------
\* What the promises are for: an entry that is out of date is late or about to be cleared.
Settled ==
    /\ DOMAIN cache = Keys
    /\ \A k \in Keys : cache[k] \notin answer[k] \cup {None} =>
          k \in late \/ \E c \in Clients : k \in promised[c]
=============================================================================
