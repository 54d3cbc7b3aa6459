----------------------------- MODULE CacheSearch -----------------------------
(****************************************************************************)
(* The bisection of cache_get (cache.c) by itself, on any sorted array, for *)
(* a time the array covers: the part of a query that Rawlog interleaves     *)
(* with the writer, here on longer arrays and with repeated times (a clock  *)
(* set back re-indexes records, so times may repeat).                       *)
(****************************************************************************)
EXTENDS Cache

CONSTANTS
    Times,      \* times of elements and queries
    MaxLen      \* bound: elements in the array

ASSUME TimesAssumption  == Times \subseteq Nat
ASSUME MaxLenAssumption == MaxLen \in Nat

VARIABLES
    elems,      \* the array
    ts,         \* the time searched for
    bounds,     \* left and right
    pc          \* "search" or "done"

vars == <<elems, ts, bounds, pc>>

ElemType == [time : Times, off : Nat]

Arrays ==
    { [i \in 1 .. n |-> Elem(f[i], i)] :
        n \in 3 .. MaxLen, f \in [1 .. MaxLen -> Times] }

(* cache_get bisects arrays of more than two elements, and only when they   *)
(* enclose the time (__cache_get).                                          *)
Init ==
    /\ elems \in Arrays
    /\ AscendingTimes(elems)
    /\ ts \in Times
    /\ elems[1].time <= ts /\ ts <= elems[Len(elems)].time
    /\ bounds = AllOf(elems)
    /\ pc = "search"

Turn ==
    /\ pc = "search"
    /\ ~Narrowed(bounds)
    /\ bounds' = Probe(elems, ts, bounds)
    /\ UNCHANGED <<elems, ts, pc>>

Return ==
    /\ pc = "search"
    /\ Narrowed(bounds)
    /\ pc' = "done"
    /\ UNCHANGED <<elems, ts, bounds>>

Next == Turn \/ Return

Spec == Init /\ [][Next]_vars /\ WF_vars(Next)

----------------------------------------------------------------------------
(* The bounds never leave the array, so no element outside it is read.      *)
InBounds ==
    /\ bounds \in [left : Nat, right : Nat]
    /\ bounds.left <= bounds.right
    /\ bounds.right <= Len(elems)
    /\ bounds.left < Len(elems)

(* What cache_get is for: the element it ends on carries the time asked     *)
(* for, or, when no element does, the first later one.                      *)
FindsClosest ==
    pc = "done" =>
        LET e == Hit(elems, bounds)
        IN  \/ e.time = ts
            \/ /\ e.time > ts
               /\ \A i \in DOMAIN elems : i <= bounds.left => elems[i].time < ts

(* Every turn shrinks the range, so the loop ends.                          *)
Ends == <>(pc = "done")
=============================================================================
