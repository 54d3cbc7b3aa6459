-------------------------- MODULE CacheSearchProofs --------------------------
(****************************************************************************)
(* The bisection is correct on sorted arrays of any length.                 *)
(****************************************************************************)
EXTENDS CacheSearch, TLAPS

(* The array the search runs on.                                            *)
ArrayOK ==
    /\ elems \in Seq(ElemType)
    /\ AscendingTimes(elems)
    /\ ts \in Nat
    /\ ts <= elems[Len(elems)].time

(* What is known of the elements outside the range, or the exact match.     *)
Excluded ==
    /\ \A i \in DOMAIN elems : i <= bounds.left => elems[i].time < ts
    /\ \A i \in DOMAIN elems : i > bounds.right => elems[i].time > ts

Exact ==
    /\ bounds.left = bounds.right
    /\ elems[bounds.left + 1].time = ts

SearchInv ==
    /\ ArrayOK
    /\ InBounds
    /\ Excluded \/ Exact
    /\ pc = "done" => Narrowed(bounds)

LEMMA ArrayFacts ==
    ASSUME ArrayOK
    PROVE  /\ Len(elems) \in Nat
           /\ DOMAIN elems = 1 .. Len(elems)
           /\ \A i \in DOMAIN elems : elems[i].time \in Nat
<1>1. \A e \in ElemType : e.time \in Nat
    BY TimesAssumption DEF ElemType
<1>2. elems \in Seq(ElemType)
    BY DEF ArrayOK
<1>3. \A i \in DOMAIN elems : elems[i] \in ElemType
    BY <1>2
<1> QED BY <1>1, <1>2, <1>3

LEMMA InitSearch == Init => SearchInv
<1> SUFFICES ASSUME Init PROVE SearchInv
    OBVIOUS
<1>1. PICK n \in 3 .. MaxLen, f \in [1 .. MaxLen -> Times] :
            elems = [i \in 1 .. n |-> Elem(f[i], i)]
    BY DEF Init, Arrays
<1>2. n \in Nat /\ n >= 3 /\ \A i \in 1 .. n : f[i] \in Times /\ i \in Nat
    BY <1>1, MaxLenAssumption
<1>3. \A i \in 1 .. n : Elem(f[i], i) \in ElemType
    BY <1>2 DEF Elem, ElemType
<1>4. elems \in [1 .. n -> ElemType]
    BY <1>1, <1>3
<1>5. elems \in Seq(ElemType) /\ Len(elems) = n
    BY <1>2, <1>4
<1>6. ArrayOK
    BY <1>5, TimesAssumption DEF Init, ArrayOK
<1>7. bounds = [left |-> 0, right |-> n]
    BY <1>5 DEF Init, AllOf
<1>8. InBounds
    BY <1>2, <1>5, <1>7 DEF InBounds
<1>9. DOMAIN elems = 1 .. n
    BY <1>5
<1>10. Excluded
    BY <1>2, <1>7, <1>9 DEF Excluded
<1> QED BY <1>6, <1>8, <1>10 DEF SearchInv, Init

LEMMA TurnKeeps ==
    ASSUME SearchInv, Turn
    PROVE  InBounds' /\ (Excluded' \/ Exact')
<1> DEFINE n   == Len(elems)
           l   == bounds.left
           h   == bounds.right
           mid == Mid(bounds)
<1>1. n \in Nat /\ DOMAIN elems = 1 .. n /\ \A i \in DOMAIN elems : elems[i].time \in Nat
    BY ArrayFacts DEF SearchInv
<1>2. /\ l \in Nat /\ h \in Nat /\ l < h /\ h <= n /\ ts \in Nat /\ ts <= elems[n].time
      /\ bounds \in [left : Nat, right : Nat]
    BY DEF SearchInv, InBounds, ArrayOK, Turn, Narrowed
<1>3. mid \in Nat /\ l <= mid /\ mid < h
    BY <1>2 DEF Mid
<1>4. Excluded
    BY <1>2 DEF SearchInv, Exact
<1>5. \A i \in 1 .. n : i <= l => elems[i].time < ts
    BY <1>1, <1>4 DEF Excluded
<1>6. \A i \in 1 .. n : i > h => elems[i].time > ts
    BY <1>1, <1>4 DEF Excluded
<1>7. \A i, j \in 1 .. n : i < j => elems[i].time <= elems[j].time
    BY <1>1 DEF SearchInv, ArrayOK, AscendingTimes
<1>8. elems' = elems /\ ts' = ts /\ bounds' = Probe(elems, ts, bounds)
    BY DEF Turn
<1> HIDE DEF n, l, h, mid
<1>9. mid + 1 \in 1 .. n /\ elems[mid + 1].time \in Nat
    BY <1>1, <1>2, <1>3
<1>10. CASE ts = elems[mid + 1].time
    <2>1. bounds' = [left |-> mid, right |-> mid]
        BY <1>2, <1>8, <1>9, <1>10 DEF Probe, mid
    <2>2. InBounds'
        BY <1>1, <1>2, <1>3, <1>8, <2>1 DEF InBounds, n
    <2>3. Exact'
        BY <1>8, <1>10, <2>1 DEF Exact
    <2> QED BY <2>2, <2>3
<1>11. CASE ts < elems[mid + 1].time
    <2>1. bounds' = [bounds EXCEPT !.right = mid]
        BY <1>2, <1>8, <1>9, <1>11 DEF Probe, mid
    <2>2. bounds'.left = l /\ bounds'.right = mid /\ bounds' \in [left : Nat, right : Nat]
        BY <1>2, <1>3, <2>1 DEF l
    <2>3. InBounds'
        BY <1>1, <1>2, <1>3, <1>8, <2>2 DEF InBounds, n
    <2>4. ASSUME NEW i \in 1 .. n, i > mid PROVE elems[i].time > ts
        <3>1. CASE i = mid + 1
            BY <1>2, <1>9, <1>11, <3>1
        <3>2. CASE i # mid + 1
            <4>1. mid + 1 < i
                BY <1>3, <2>4, <3>2
            <4>2. elems[mid + 1].time <= elems[i].time /\ elems[i].time \in Nat
                BY <1>1, <1>7, <1>9, <4>1
            <4> QED BY <1>2, <1>9, <1>11, <4>2
        <3> QED BY <3>1, <3>2
    <2>5. Excluded'
        BY <1>1, <1>5, <1>8, <2>2, <2>4 DEF Excluded
    <2> QED BY <2>3, <2>5
<1>12. CASE ts > elems[mid + 1].time
    <2>1. bounds' = [bounds EXCEPT !.left = mid + 1]
        BY <1>2, <1>8, <1>9, <1>12 DEF Probe, mid
    <2>2. bounds'.left = mid + 1 /\ bounds'.right = h /\ bounds' \in [left : Nat, right : Nat]
        BY <1>2, <1>3, <2>1 DEF h
    <2>3. mid + 1 # n
        <3> SUFFICES ASSUME mid + 1 = n PROVE FALSE
            OBVIOUS
        <3>1. elems[n].time \in Nat /\ elems[n].time < ts /\ ts <= elems[n].time
            BY <1>2, <1>9, <1>12
        <3> QED BY <1>2, <3>1
    <2>4. InBounds'
        <3>1. mid + 1 <= h /\ h <= n /\ mid + 1 < n
            BY <1>1, <1>2, <1>3, <2>3
        <3>2. Len(elems') = n
            BY <1>8 DEF n
        <3> QED BY <2>2, <3>1, <3>2 DEF InBounds
    <2>5. ASSUME NEW i \in 1 .. n, i <= mid + 1 PROVE elems[i].time < ts
        <3>1. CASE i = mid + 1
            BY <1>2, <1>9, <1>12, <3>1
        <3>2. CASE i # mid + 1
            <4>1. i < mid + 1
                BY <1>3, <2>5, <3>2
            <4>2. elems[i].time <= elems[mid + 1].time /\ elems[i].time \in Nat
                BY <1>1, <1>7, <1>9, <4>1
            <4> QED BY <1>2, <1>9, <1>12, <4>2
        <3> QED BY <3>1, <3>2
    <2>6. Excluded'
        BY <1>1, <1>6, <1>8, <2>2, <2>5 DEF Excluded
    <2> QED BY <2>4, <2>6
<1> QED BY <1>2, <1>9, <1>10, <1>11, <1>12

LEMMA NextSearch == SearchInv /\ [Next]_vars => SearchInv'
<1> SUFFICES ASSUME SearchInv, [Next]_vars PROVE SearchInv'
    OBVIOUS
<1>1. ArrayOK'
    BY DEF SearchInv, ArrayOK, Next, Turn, Return, vars
<1>2. CASE Turn
    BY <1>1, <1>2, TurnKeeps DEF SearchInv, Turn
<1>3. CASE Return
    BY <1>1, <1>3 DEF Return, SearchInv, InBounds, Excluded, Exact
<1>4. CASE UNCHANGED vars
    BY <1>1, <1>4 DEF vars, SearchInv, InBounds, Excluded, Exact, Narrowed
<1> QED BY <1>2, <1>3, <1>4 DEF Next

(* The bisection never reads outside the array, however long it is.         *)
THEOREM StaysInBounds == Spec => []InBounds
<1>1. SearchInv => InBounds
    BY DEF SearchInv
<1> QED BY <1>1, InitSearch, NextSearch, PTL DEF Spec

(* On a sorted array of any length that covers the time asked for, the      *)
(* bisection ends on an element of that time, or on the first later one     *)
(* when there is none.                                                      *)
THEOREM SearchCorrect == Spec => []FindsClosest
<1>1. SearchInv => FindsClosest
    <2> SUFFICES ASSUME SearchInv, pc = "done" PROVE FindsClosest
        BY DEF FindsClosest
    <2> DEFINE l == bounds.left
    <2>1. l = bounds.right /\ l \in Nat /\ l < Len(elems) /\ Len(elems) \in Nat
        BY ArrayFacts DEF SearchInv, InBounds, Narrowed
    <2>2. l + 1 \in DOMAIN elems
        BY <2>1, ArrayFacts DEF SearchInv
    <2>3. CASE Exact
        BY <2>3 DEF Exact, FindsClosest, Hit
    <2>4. CASE Excluded
        <3>1. elems[l + 1].time > ts
            BY <2>1, <2>2, <2>4 DEF Excluded
        <3>2. \A i \in DOMAIN elems : i <= l => elems[i].time < ts
            BY <2>4 DEF Excluded
        <3> QED BY <3>1, <3>2 DEF FindsClosest, Hit
    <2> QED BY <2>3, <2>4 DEF SearchInv
<1> QED BY <1>1, InitSearch, NextSearch, PTL DEF Spec
=============================================================================
