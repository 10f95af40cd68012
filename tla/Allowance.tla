----------------------------- MODULE Allowance -----------------------------
(***************************************************************************)
(* What a daily quota promises: at most Limit units are held at any time   *)
(* of a day, a unit given back can be taken again the same day, and a new  *)
(* day starts with every unit free.  No unit is created or lost otherwise. *)
(***************************************************************************)
EXTENDS Naturals, FiniteSets

CONSTANTS Consumers, Limit

VARIABLES
    day,        \* the current day
    holders     \* who holds a unit of it

Init == day = 0 /\ holders = {}

Charge(c) ==
    /\ c \notin holders /\ Cardinality(holders) < Limit
    /\ holders' = holders \cup {c}
    /\ UNCHANGED day

Refund(c) ==
    /\ c \in holders
    /\ holders' = holders \ {c}
    /\ UNCHANGED day

NewDay == day' = day + 1 /\ holders' = {}

Next == NewDay \/ \E c \in Consumers : Charge(c) \/ Refund(c)

Spec == Init /\ [][Next]_<<day, holders>>
=============================================================================
