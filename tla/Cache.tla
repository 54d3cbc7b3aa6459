-------------------------------- MODULE Cache --------------------------------
(****************************************************************************)
(* The index of atophttpd (cache.c): one cache per rawlog file, holding the *)
(* (time, offset) pairs of its records in ascending order of time, and the  *)
(* table of these caches in ascending order of their first time.            *)
(*                                                                          *)
(* The table caches[] is a sequence of names; the caches are a function of  *)
(* the name, the key they are looked up by.  A cache is a record            *)
(*    [elems |-> sequence of [time, off], max_elems, st_size]               *)
(* (the sample flags and st_mtim, which nothing compares, are left out).    *)
(* Indices of the C arrays start at 0, those of sequences at 1.             *)
(****************************************************************************)
EXTENDS Integers, Sequences, Functions, SequencesExt

CONSTANT RecordsTrunk       \* RECORDS_TRUNK: growth step of an elems[] array

ASSUME TrunkAssumption == RecordsTrunk \in Nat \ {0}

Elem(t, o) == [time |-> t, off |-> o]

(* What cache_alloc puts into the table: nothing indexed, st_size zeroed by *)
(* calloc.                                                                  *)
NewCache == [elems |-> <<>>, max_elems |-> RecordsTrunk, st_size |-> 0]

cache_find(order, n) == n \in Range(order)

cache_alloc(order, n) == Append(order, n)

(* memmove over the freed slot: the rest of the table keeps its order.      *)
cache_free(order, n) ==
    IF cache_find(order, n)
    THEN RemoveAt(order, CHOOSE i \in DOMAIN order : order[i] = n)
    ELSE order

----------------------------------------------------------------------------
(* qsort, of the C library: some rearrangement that the comparison accepts. *)
(* It is not stable, so equal keys may end up in either order.  (A map of a *)
(* finite set onto itself is a permutation.)                                *)

Rearrangements(s) ==
    { [i \in DOMAIN s |-> s[p[i]]] : p \in Surjection(DOMAIN s, DOMAIN s) }

AscendingTimes(s) == \A i, j \in DOMAIN s : i < j => s[i].time <= s[j].time

qsort_elems(s) == { t \in Rearrangements(s) : AscendingTimes(t) }

(* elems[0].time; the first array of a cache is calloc'ed.                  *)
FirstTime(c) == IF c.elems = <<>> THEN 0 ELSE c.elems[1].time

LastElem(c) == c.elems[Len(c.elems)]

OrderedByFirst(order, cache) ==
    \A i, j \in DOMAIN order :
        i < j => FirstTime(cache[order[i]]) <= FirstTime(cache[order[j]])

(* Mutant: the table is left as readdir filled it.                          *)
CacheSortSkipped(order, cache) == {order}

(* cache_sort: the tables that sorting by first time may leave.             *)
cache_sort(order, cache) ==
    { o \in Rearrangements(order) : OrderedByFirst(o, cache) }

----------------------------------------------------------------------------
(* cache_set: grow the array when it is full, append, and sort when the new *)
(* element is earlier than the one before it.                               *)

(* Mutant: the array grows one element too late.                            *)
GrownLate(c) == IF Len(c.elems) > c.max_elems THEN c.max_elems + RecordsTrunk
                                              ELSE c.max_elems

Grown(c) == IF Len(c.elems) = c.max_elems THEN c.max_elems + RecordsTrunk
                                          ELSE c.max_elems

OutOfOrder(c, t) == c.elems # <<>> /\ LastElem(c).time > t

(* Mutants: an early element is not sorted in, or is not kept.              *)
InsertedUnsorted(c, t, o) == {Append(c.elems, Elem(t, o))}

InsertedIfLater(c, t, o) ==
    IF OutOfOrder(c, t) THEN {c.elems} ELSE {Append(c.elems, Elem(t, o))}

Inserted(c, t, o) ==
    LET appended == Append(c.elems, Elem(t, o))
    IN  IF OutOfOrder(c, t) THEN qsort_elems(appended) ELSE {appended}

(* The caches that cache_set may leave.                                     *)
cache_set(c, t, o) ==
    { [c EXCEPT !.elems = es, !.max_elems = Grown(c)] : es \in Inserted(c, t, o) }

----------------------------------------------------------------------------
(* cache_get: the first cache of the table whose times enclose ts, and in   *)
(* it the element found by bisection.                                       *)

Covers(c, ts) == c.elems[1].time <= ts /\ ts <= LastElem(c).time

(* The positions at which the scan of __cache_get stops: a cache that       *)
(* covers ts, or one with no element, on which its assertion fails.         *)
ScanStops(order, cache, ts) ==
    { i \in DOMAIN order : cache[order[i]].elems = <<>> \/ Covers(cache[order[i]], ts) }

(* One turn of the bisection loop, on the bounds [left, right).  An exact   *)
(* match ends the search at mid, which is expressed as an empty range there.*)
Mid(b) == (b.left + b.right) \div 2

(* Mutants: the first later element ends the search; the left bound stays   *)
(* on the element just probed.                                              *)
ProbeFirstLater(elems, ts, b) ==
    IF ts <= elems[Mid(b) + 1].time THEN [left |-> Mid(b), right |-> Mid(b)]
                                    ELSE [b EXCEPT !.left = Mid(b) + 1]

ProbeStays(elems, ts, b) ==
    CASE ts = elems[Mid(b) + 1].time -> [left |-> Mid(b), right |-> Mid(b)]
      [] ts < elems[Mid(b) + 1].time -> [b EXCEPT !.right = Mid(b)]
      [] OTHER                       -> [b EXCEPT !.left = Mid(b)]

Probe(elems, ts, b) ==
    LET mid == Mid(b)
        e   == elems[mid + 1]
    IN  CASE ts = e.time -> [left |-> mid, right |-> mid]
          [] ts < e.time -> [b EXCEPT !.right = mid]
          [] OTHER       -> [b EXCEPT !.left = mid + 1]

(* Mutant: the right bound is one too far.                                  *)
AllOfAndOne(elems) == [left |-> 0, right |-> Len(elems) + 1]

AllOf(elems) == [left |-> 0, right |-> Len(elems)]

Narrowed(b) == ~(b.left < b.right)

(* The element the search ended on.                                         *)
Hit(elems, b) == elems[b.left + 1]

(* cache_get_recent: the last cache of the table.                           *)
cache_get_recent(order) == Last(order)
=============================================================================
