----------------------------- MODULE RawlogProofs -----------------------------
(****************************************************************************)
(* Proofs about Rawlog, for any files, times, block lengths and bounds.     *)
(****************************************************************************)
EXTENDS Rawlog, TLAPS, SequenceTheorems, FiniteSetTheorems

(* qsort permutes: a rearrangement keeps type, length and content.          *)
LEMMA RearrangementKeeps ==
    ASSUME NEW S, NEW s \in Seq(S), NEW t \in Rearrangements(s)
    PROVE  t \in Seq(S) /\ Len(t) = Len(s) /\ Range(t) = Range(s)
<1>1. PICK p \in Surjection(DOMAIN s, DOMAIN s) : t = [i \in DOMAIN s |-> s[p[i]]]
    BY DEF Rearrangements
<1>2. p \in [DOMAIN s -> DOMAIN s] /\ \A w \in DOMAIN s : \E v \in DOMAIN s : p[v] = w
    BY <1>1 DEF Surjection
<1>3. DOMAIN s = 1 .. Len(s) /\ Len(s) \in Nat /\ \A i \in DOMAIN s : s[i] \in S
    OBVIOUS
<1>4. t \in [1 .. Len(s) -> S]
    BY <1>1, <1>2, <1>3
<1>5. t \in Seq(S) /\ Len(t) = Len(s)
    BY <1>3, <1>4
<1>6. Range(t) = Range(s)
    BY <1>1, <1>2 DEF Range
<1> QED BY <1>5, <1>6

LEMMA AppendKeeps ==
    ASSUME NEW S, NEW s \in Seq(S), NEW e \in S
    PROVE  /\ Append(s, e) \in Seq(S)
           /\ Len(Append(s, e)) = Len(s) + 1
           /\ \A i \in DOMAIN s : i \in DOMAIN Append(s, e) /\ Append(s, e)[i] = s[i]
           /\ Append(s, e)[Len(s) + 1] = e
           /\ DOMAIN Append(s, e) = DOMAIN s \cup {Len(s) + 1}
           /\ Range(Append(s, e)) = Range(s) \cup {e}
<1> DEFINE a == Append(s, e)
<1>1. a \in Seq(S) /\ Len(a) = Len(s) + 1 /\ a[Len(s) + 1] = e
    OBVIOUS
<1>2. DOMAIN s = 1 .. Len(s) /\ DOMAIN a = 1 .. Len(s) + 1 /\ Len(s) \in Nat
    BY <1>1
<1>3. DOMAIN a = DOMAIN s \cup {Len(s) + 1}
    BY <1>2
<1>4. \A i \in DOMAIN s : a[i] = s[i]
    BY <1>2
<1>5. Range(a) = Range(s) \cup {e}
    BY <1>1, <1>3, <1>4, Zenon DEF Range
<1> QED BY <1>1, <1>3, <1>4, <1>5

(* cache_set keeps a cache well formed and within its array, and adds       *)
(* exactly the new pair to its content.                                     *)
LEMMA CacheSetAdds ==
    ASSUME NEW c \in CacheType, Len(c.elems) <= c.max_elems,
           NEW t \in Times, NEW o \in Nat, NEW d \in cache_set(c, t, o)
    PROVE  /\ d \in CacheType
           /\ Len(d.elems) <= d.max_elems
           /\ d.elems # <<>>
           /\ d.st_size = c.st_size
           /\ Range(d.elems) = Range(c.elems) \cup {Elem(t, o)}
<1> DEFINE app == Append(c.elems, Elem(t, o))
<1>1. PICK es \in Inserted(c, t, o) : d = [c EXCEPT !.elems = es, !.max_elems = Grown(c)]
    BY DEF cache_set
<1>2. c.elems \in Seq(ElemType) /\ c.max_elems \in Nat /\ Elem(t, o) \in ElemType
    BY DEF CacheType, ElemType, Elem
<1>3. app \in Seq(ElemType) /\ Len(app) = Len(c.elems) + 1
      /\ Range(app) = Range(c.elems) \cup {Elem(t, o)}
    BY <1>2, AppendKeeps
<1>4. es \in Seq(ElemType) /\ Len(es) = Len(app) /\ Range(es) = Range(app)
    <2>1. CASE OutOfOrder(c, t)
        <3>1. es \in Rearrangements(app)
            BY <1>1, <2>1 DEF Inserted, qsort_elems
        <3> QED BY <3>1, <1>3, RearrangementKeeps
    <2>2. CASE ~OutOfOrder(c, t)
        BY <2>2, <1>1, <1>3 DEF Inserted
    <2> QED BY <2>1, <2>2
<1>5. Grown(c) \in Nat /\ Len(app) <= Grown(c)
    BY <1>2, <1>3, TrunkAssumption DEF Grown
<1>6. d.elems = es /\ d.max_elems = Grown(c) /\ d.st_size = c.st_size /\ d \in CacheType
    BY <1>1, <1>4, <1>5 DEF CacheType
<1>7. es # <<>>
    BY <1>2, <1>3, <1>4
<1> QED BY <1>3, <1>4, <1>5, <1>6, <1>7

(* ... and sorted by time.                                                  *)
LEMMA CacheSetSorts ==
    ASSUME NEW c \in CacheType, AscendingTimes(c.elems),
           NEW t \in Times, NEW o \in Nat, NEW d \in cache_set(c, t, o)
    PROVE  AscendingTimes(d.elems)
<1> DEFINE app == Append(c.elems, Elem(t, o))
<1>1. PICK es \in Inserted(c, t, o) : d = [c EXCEPT !.elems = es, !.max_elems = Grown(c)]
    BY DEF cache_set
<1>2. d.elems = es
    BY <1>1 DEF CacheType
<1>3. CASE OutOfOrder(c, t)
    BY <1>1, <1>2, <1>3 DEF Inserted, qsort_elems
<1>4. CASE ~OutOfOrder(c, t)
    <2>1. es = app
        BY <1>1, <1>4 DEF Inserted
    <2>2. c.elems \in Seq(ElemType) /\ t \in Nat
        BY TimesAssumption DEF CacheType
    <2>3. \A i \in DOMAIN c.elems : c.elems[i].time <= t
        <3> SUFFICES ASSUME NEW i \in DOMAIN c.elems
                     PROVE  c.elems[i].time <= t
            OBVIOUS
        <3> DEFINE n == Len(c.elems)
        <3>0. DOMAIN c.elems = 1 .. n /\ n \in Nat
            BY <2>2
        <3>1. c.elems # <<>> /\ n \in DOMAIN c.elems /\ i \in 1 .. n
            BY <2>2, <3>0
        <3>2. \A k \in DOMAIN c.elems : c.elems[k].time \in Nat
            <4>1. \A k \in DOMAIN c.elems : c.elems[k] \in ElemType
                BY <2>2
            <4>2. \A e \in ElemType : e.time \in Nat
                BY TimesAssumption DEF ElemType
            <4> QED BY <4>1, <4>2
        <3>3. ~(c.elems[n].time > t)
            BY <1>4, <3>1 DEF OutOfOrder, LastElem
        <3>4. i < n => c.elems[i].time <= c.elems[n].time
            BY <3>1 DEF AscendingTimes
        <3>5. c.elems[i].time \in Nat /\ c.elems[n].time \in Nat
            BY <3>1, <3>2
        <3> HIDE DEF n
        <3>6. i = n \/ i < n
            BY <3>0, <3>1
        <3> QED BY <2>2, <3>3, <3>4, <3>5, <3>6
    <2>4. /\ DOMAIN app = DOMAIN c.elems \cup {Len(c.elems) + 1}
          /\ \A i \in DOMAIN c.elems : app[i] = c.elems[i]
          /\ app[Len(c.elems) + 1] = Elem(t, o)
        BY <2>2, AppendKeeps, Elem(t, o) \in ElemType DEF Elem, ElemType
    <2>5. AscendingTimes(app)
        <3> SUFFICES ASSUME NEW i \in DOMAIN app, NEW j \in DOMAIN app, i < j
                     PROVE  app[i].time <= app[j].time
            BY DEF AscendingTimes
        <3> HIDE DEF app
        <3>1. i \in DOMAIN c.elems
            BY <2>2, <2>4
        <3>2. CASE j \in DOMAIN c.elems
            BY <2>4, <3>1, <3>2 DEF AscendingTimes
        <3>3. CASE j = Len(c.elems) + 1
            BY <2>3, <2>4, <3>1, <3>3 DEF Elem
        <3> QED BY <2>4, <3>2, <3>3
    <2> QED BY <1>2, <2>1, <2>5
<1> QED BY <1>3, <1>4

(* Removing the i-th entry of the table shifts the later ones down.         *)
LEMMA RemoveAtShifts ==
    ASSUME NEW S, NEW s \in Seq(S), NEW i \in DOMAIN s
    PROVE  /\ RemoveAt(s, i) \in Seq(S)
           /\ Len(RemoveAt(s, i)) = Len(s) - 1
           /\ \A k \in 1 .. Len(s) - 1 :
                 RemoveAt(s, i)[k] = IF k < i THEN s[k] ELSE s[k + 1]
<1> DEFINE a == SubSeq(s, 1, i - 1)
           b == SubSeq(s, i + 1, Len(s))
<1>1. i \in 1 .. Len(s) /\ Len(s) \in Nat /\ \A k \in 1 .. Len(s) : s[k] \in S
    OBVIOUS
<1>2. /\ a \in Seq(S)
      /\ Len(a) = i - 1
      /\ \A k \in 1 .. i - 1 : a[k] = s[k]
    <2>1. \A k \in 1 .. i - 1 : s[k] \in S
        BY <1>1
    <2>2. /\ a \in Seq(S)
          /\ Len(a) = IF 1 <= i - 1 THEN (i - 1) - 1 + 1 ELSE 0
          /\ \A k \in 1 .. (i - 1) - 1 + 1 : a[k] = s[1 + k - 1]
        BY <1>1, <2>1, SubSeqProperties
    <2> HIDE DEF a
    <2> QED BY <1>1, <2>2
<1>3. /\ b \in Seq(S)
      /\ Len(b) = Len(s) - i
      /\ \A k \in 1 .. Len(s) - i : b[k] = s[i + k]
    <2>1. \A k \in i + 1 .. Len(s) : s[k] \in S
        BY <1>1
    <2>2. /\ b \in Seq(S)
          /\ Len(b) = IF i + 1 <= Len(s) THEN Len(s) - (i + 1) + 1 ELSE 0
          /\ \A k \in 1 .. Len(s) - (i + 1) + 1 : b[k] = s[(i + 1) + k - 1]
        BY <1>1, <2>1, SubSeqProperties
    <2> HIDE DEF b
    <2> QED BY <1>1, <2>2
<1>4. RemoveAt(s, i) = a \o b
    BY DEF RemoveAt
<1> HIDE DEF a, b
<1>5. /\ a \o b \in Seq(S)
      /\ Len(a \o b) = Len(a) + Len(b)
      /\ \A k \in 1 .. Len(a) + Len(b) :
            (a \o b)[k] = IF k <= Len(a) THEN a[k] ELSE b[k - Len(a)]
    BY <1>2, <1>3, ConcatProperties
<1>6. ASSUME NEW k \in 1 .. Len(s) - 1
      PROVE  (a \o b)[k] = IF k < i THEN s[k] ELSE s[k + 1]
    <2>1. CASE k < i
        <3>1. k \in 1 .. i - 1 /\ k \in 1 .. Len(a) + Len(b) /\ k <= Len(a)
            BY <1>1, <1>2, <1>3, <2>1
        <3>2. (a \o b)[k] = a[k]
            BY <1>5, <3>1
        <3> QED BY <1>2, <2>1, <3>1, <3>2
    <2>2. CASE ~(k < i)
        <3>1. k - Len(a) \in 1 .. Len(s) - i /\ i + (k - Len(a)) = k + 1
            BY <1>1, <1>2, <2>2
        <3>2. k \in 1 .. Len(a) + Len(b) /\ ~(k <= Len(a))
            BY <1>1, <1>2, <1>3, <2>2
        <3>3. (a \o b)[k] = b[k - Len(a)]
            BY <1>5, <3>2
        <3> QED BY <1>3, <2>2, <3>1, <3>3
    <2> QED BY <2>1, <2>2
<1>7. Len(a) + Len(b) = Len(s) - 1
    BY <1>1, <1>2, <1>3
<1>8. /\ a \o b \in Seq(S)
      /\ Len(a \o b) = Len(s) - 1
    BY <1>5, <1>7
<1>9. \A k \in 1 .. Len(s) - 1 : (a \o b)[k] = IF k < i THEN s[k] ELSE s[k + 1]
    BY <1>6, Zenon
<1> QED BY <1>4, <1>8, <1>9, Zenon

(* Sorting the table keeps its names distinct.                              *)
LEMMA RearrangementInjective ==
    ASSUME NEW S, NEW s \in Seq(S), IsInjective(s), NEW t \in Rearrangements(s)
    PROVE  IsInjective(t)
<1>1. PICK p \in Surjection(DOMAIN s, DOMAIN s) : t = [i \in DOMAIN s |-> s[p[i]]]
    BY DEF Rearrangements
<1>2. IsFiniteSet(DOMAIN s)
    BY FS_Interval
<1>3. p \in Injection(DOMAIN s, DOMAIN s)
    BY <1>2, FS_SurjSameCardinalityImpliesInj
<1> QED BY <1>1, <1>3 DEF IsInjective, Injection

(* cache_alloc adds one name.                                               *)
LEMMA CacheAllocAdds ==
    ASSUME NEW s \in Seq(Names), IsInjective(s), NEW n \in Names, ~cache_find(s, n)
    PROVE  /\ cache_alloc(s, n) \in Seq(Names)
           /\ IsInjective(cache_alloc(s, n))
           /\ Range(cache_alloc(s, n)) = Range(s) \cup {n}
<1>1. /\ cache_alloc(s, n) \in Seq(Names)
      /\ \A i \in DOMAIN s : cache_alloc(s, n)[i] = s[i]
      /\ cache_alloc(s, n)[Len(s) + 1] = n
      /\ DOMAIN cache_alloc(s, n) = DOMAIN s \cup {Len(s) + 1}
      /\ Range(cache_alloc(s, n)) = Range(s) \cup {n}
    BY AppendKeeps DEF cache_alloc
<1>2. \A i \in DOMAIN s : s[i] # n
    BY DEF cache_find, Range
<1>3. IsInjective(cache_alloc(s, n))
    BY <1>1, <1>2 DEF IsInjective
<1> QED BY <1>1, <1>3

(* cache_free takes exactly the named cache out of a table of distinct      *)
(* names.                                                                   *)
LEMMA CacheFreeRemoves ==
    ASSUME NEW s \in Seq(Names), NEW n, IsInjective(s)
    PROVE  /\ cache_free(s, n) \in Seq(Names)
           /\ IsInjective(cache_free(s, n))
           /\ Range(cache_free(s, n)) = Range(s) \ {n}
<1>1. CASE ~cache_find(s, n)
    BY <1>1 DEF cache_free, cache_find
<1>2. CASE cache_find(s, n)
    <2> DEFINE i == CHOOSE i \in DOMAIN s : s[i] = n
               t == RemoveAt(s, i)
    <2>1. i \in DOMAIN s /\ s[i] = n
        BY <1>2 DEF cache_find, Range
    <2>2. cache_free(s, n) = t
        BY <1>2 DEF cache_free
    <2> HIDE DEF i
    <2>3. /\ t \in Seq(Names)
          /\ Len(t) = Len(s) - 1
          /\ \A k \in 1 .. Len(s) - 1 : t[k] = IF k < i THEN s[k] ELSE s[k + 1]
        BY <2>1, RemoveAtShifts
    <2> HIDE DEF t
    <2>4. DOMAIN s = 1 .. Len(s) /\ DOMAIN t = 1 .. Len(s) - 1 /\ Len(s) \in Nat
        BY <2>3
    <2>5. \A j, k \in DOMAIN s : s[j] = s[k] => j = k
        BY DEF IsInjective
    <2>6. IsInjective(t)
        <3> DEFINE up(k) == IF k < i THEN k ELSE k + 1
        <3>1. \A k \in DOMAIN t : up(k) \in DOMAIN s
            BY <2>1, <2>4
        <3>2. \A k \in DOMAIN t : t[k] = s[up(k)]
            BY <2>3, <2>4
        <3>3. \A j, k \in DOMAIN t : up(j) = up(k) => j = k
            BY <2>1, <2>4
        <3> HIDE DEF up
        <3>4. \A j, k \in DOMAIN t : t[j] = t[k] => j = k
            BY <2>5, <3>1, <3>2, <3>3, Zenon
        <3> QED BY <3>4 DEF IsInjective
    <2>7. \A k \in DOMAIN t : t[k] \in Range(s) \ {n}
        <3> SUFFICES ASSUME NEW k \in DOMAIN t PROVE t[k] \in Range(s) \ {n}
            OBVIOUS
        <3>1. CASE k < i
            BY <2>1, <2>3, <2>4, <2>5, <3>1 DEF Range
        <3>2. CASE ~(k < i)
            <4>1. t[k] = s[k + 1] /\ k + 1 \in DOMAIN s /\ k + 1 # i
                BY <2>1, <2>3, <2>4, <3>2
            <4> QED BY <2>1, <2>5, <4>1 DEF Range
        <3> QED BY <3>1, <3>2
    <2>8. \A k \in DOMAIN s : s[k] # n => s[k] \in Range(t)
        <3> SUFFICES ASSUME NEW k \in DOMAIN s, s[k] # n PROVE s[k] \in Range(t)
            OBVIOUS
        <3>1. CASE k < i
            BY <2>1, <2>3, <2>4, <3>1 DEF Range
        <3>2. CASE ~(k < i)
            <4>1. k - 1 \in DOMAIN t /\ ~(k - 1 < i) /\ (k - 1) + 1 = k
                BY <2>1, <2>4, <3>2
            <4>2. t[k - 1] = s[k]
                BY <2>3, <2>4, <4>1
            <4> QED BY <4>1, <4>2 DEF Range
        <3> QED BY <3>1, <3>2
    <2>9. Range(t) = Range(s) \ {n}
        BY <2>7, <2>8 DEF Range
    <2> QED BY <2>2, <2>3, <2>6, <2>9
<1> QED BY <1>1, <1>2

----------------------------------------------------------------------------
(* Type correctness.                                                        *)

Busy == {"parse", "rebuild", "pread", "fstat",
         "search", "found", "record", "sstat", "devtstat"}

(* While the thread works on a file, that file exists.                      *)
CursorOK == pc \in Busy => cur \in Names

(* The bisection cannot run off the array: its left end stays inside        *)
(* because the last element is not earlier than the time asked for.         *)
SearchOK ==
    pc = "search" =>
        LET es == cache[cur].elems
        IN  /\ bounds.left <= bounds.right
            /\ bounds.right <= Len(es)
            /\ bounds.left < Len(es)
            /\ ts <= es[Len(es)].time

(* No name is in the table twice.                                           *)
NamesUnique == IsInjective(order)

TypeInv == TypeOK /\ NamesUnique /\ CursorOK /\ SearchOK

LEMMA RecordFields ==
    ASSUME NEW r \in Record
    PROVE  /\ r.time \in Times /\ r.time \in Nat /\ r.off \in Nat
           /\ r.scomplen \in Nat \ {0} /\ r.pcomplen \in Nat \ {0}
<1>1. r.time \in Times /\ r.off \in Nat /\ r.scomplen \in Lens /\ r.pcomplen \in Lens
    BY DEF Record
<1> QED BY <1>1, TimesAssumption, LensAssumption

LEMMA ElemsTyped ==
    ASSUME NEW c \in CacheType
    PROVE  /\ Len(c.elems) \in Nat
           /\ DOMAIN c.elems = 1 .. Len(c.elems)
           /\ \A i \in 1 .. Len(c.elems) :
                 /\ c.elems[i] \in ElemType
                 /\ c.elems[i].time \in Nat
                 /\ c.elems[i].off \in Nat
           /\ c.elems # <<>> => Len(c.elems) \in 1 .. Len(c.elems)
<1>1. c.elems \in Seq(ElemType)
    BY DEF CacheType
<1>2. \A e \in ElemType : e.time \in Nat /\ e.off \in Nat
    BY TimesAssumption DEF ElemType
<1>3. \A i \in 1 .. Len(c.elems) : c.elems[i] \in ElemType
    BY <1>1
<1>4. Len(c.elems) \in Nat /\ DOMAIN c.elems = 1 .. Len(c.elems)
    BY <1>1
<1>5. c.elems # <<>> => Len(c.elems) # 0
    BY <1>1
<1> QED BY <1>2, <1>3, <1>4, <1>5

(* A pread delivers a rawrecord.                                            *)
LEMMA PreadDelivers ==
    ASSUME NEW f \in FileType, NEW o \in Nat, NEW r \in pread(f, o)
    PROVE  /\ r \in Record
           /\ r.time \in Times
           /\ NextOffset(r, o) \in Nat
<1>1. f.recs \in Seq(Record)
    BY DEF FileType
<1>2. Range(f.recs) \subseteq Record
    BY <1>1 DEF Range
<1>3. r \in Record
    BY <1>2 DEF pread, ReadAt, AnyRecord, Record
<1> QED BY <1>3, RecordFields DEF NextOffset, RecLen

LEMMA InitType == Init => TypeInv
<1> SUFFICES ASSUME Init PROVE TypeInv
    OBVIOUS
<1>1. DiskOK
    BY DEF Init, DiskOK, NoFile, FileType
<1>2. IndexOK
    BY TrunkAssumption DEF Init, IndexOK, NewCache, CacheType
<1>3. ThreadOK
    BY DEF Init, ThreadOK, ServerStates, NoRange, NoRec, NoAns
<1>4. NamesUnique /\ CursorOK /\ SearchOK
    BY DEF Init, NamesUnique, IsInjective, CursorOK, SearchOK, Busy
<1> QED BY <1>1, <1>2, <1>3, <1>4 DEF TypeInv, TypeOK

(* The environment touches only the files.                                  *)
LEMMA EnvironmentType ==
    ASSUME TypeInv, Environment
    PROVE  DiskOK' /\ UNCHANGED serverVars
<1> USE DEF TypeInv, TypeOK
<1>1. ASSUME NEW n \in Names, Rotate(n) PROVE DiskOK' /\ UNCHANGED serverVars
    BY <1>1 DEF Rotate, DiskOK, FileType
<1>2. ASSUME NEW n \in Names, Unlink(n) PROVE DiskOK' /\ UNCHANGED serverVars
    BY <1>2 DEF Unlink, DiskOK, FileType
<1>3. ASSUME NEW n \in Names, Foreign(n) PROVE DiskOK' /\ UNCHANGED serverVars
    BY <1>3 DEF Foreign, DiskOK, FileType, HdrLen
<1>4. CASE WriteHeader
    BY <1>4 DEF WriteHeader, DiskOK, FileType, HdrLen
<1>5. ASSUME NEW t \in Times, NEW s \in Lens, NEW p \in Lens, WriteRecord(t, s, p)
      PROVE  DiskOK' /\ UNCHANGED serverVars
    <2> DEFINE r == [time |-> t, off |-> disk[current].size, scomplen |-> s, pcomplen |-> p]
               f == disk[current]
    <2>1. current \in Names /\ f \in FileType
        BY <1>5 DEF WriteRecord, DiskOK
    <2>2. r \in Record
        BY <2>1 DEF Record, FileType
    <2>3. Append(f.recs, r) \in Seq(Record) /\ f.size + RecLen \in Nat
        BY <2>1, <2>2 DEF FileType, RecLen
    <2>4. disk' = [disk EXCEPT ![current] =
                        [f EXCEPT !.recs = Append(f.recs, r), !.size = f.size + RecLen]]
        BY <1>5, <2>1 DEF WriteRecord, DiskOK
    <2>5. [f EXCEPT !.recs = Append(f.recs, r), !.size = f.size + RecLen] \in FileType
        BY <2>1, <2>3 DEF FileType
    <2>6. disk' \in [Names -> FileType]
        BY <2>4, <2>5 DEF DiskOK
    <2> QED BY <1>5, <2>6, TimesAssumption DEF WriteRecord, DiskOK
<1>6. CASE WriteBlock
    <2> DEFINE f == disk[current]
               r == LastRec(f)
    <2>1. current \in Names /\ f \in FileType /\ f.recs # <<>>
        BY <1>6 DEF WriteBlock, DiskOK, Complete
    <2>2. r \in Record
        BY <2>1 DEF LastRec, FileType
    <2>3. EndOf(r) \in Nat /\ f.size + r.scomplen \in Nat
        <3>1. f.size \in Nat
            BY <2>1 DEF FileType
        <3> HIDE DEF r, f
        <3> QED BY <2>2, <3>1, RecordFields DEF EndOf, NextOffset, RecLen
    <2> QED BY <1>6, <2>1, <2>3 DEF WriteBlock, DiskOK, FileType
<1>7. CASE Truncate
    <2> DEFINE g == [disk[current] EXCEPT !.recs = <<>>, !.size = 0, !.hdr = "none"]
    <2>1. current \in Names /\ disk[current] \in FileType
        BY <1>7 DEF Truncate, DiskOK
    <2>2. g \in FileType
        <3>1. \A f \in FileType, rs \in Seq(Record) :
                [f EXCEPT !.recs = rs, !.size = 0, !.hdr = "none"] \in FileType
            BY DEF FileType
        <3>2. <<>> \in Seq(Record)
            OBVIOUS
        <3> QED BY <2>1, <3>1, <3>2
    <2>3. disk' = [disk EXCEPT ![current] = g]
        BY <1>7, <2>1 DEF Truncate, DiskOK
    <2> QED BY <1>7, <2>2, <2>3 DEF Truncate, DiskOK
<1> QED BY <1>1, <1>2, <1>3, <1>4, <1>5, <1>6, <1>7 DEF Environment

(* The steps of the server leave the files alone.                           *)
ServerType == UNCHANGED diskVars /\ IndexOK' /\ ThreadOK' /\ NamesUnique'
              /\ CursorOK' /\ SearchOK'

(* Steps that change neither the index nor enter a search.                  *)
LEMMA IndexKept ==
    ASSUME TypeInv, UNCHANGED indexVars
    PROVE  IndexOK' /\ NamesUnique'
BY DEF TypeInv, TypeOK, IndexOK, NamesUnique, indexVars, CacheType

(* parse_one returns.                                                       *)
LEMMA ParseReturnsType ==
    ASSUME TypeInv, ParseReturns, UNCHANGED <<listed, must, queryVars>>
    PROVE  ThreadOK' /\ CursorOK' /\ SearchOK'
BY DEF TypeInv, TypeOK, ParseReturns, ThreadOK, ServerStates, CursorOK, SearchOK, Busy, queryVars

(* A pass over the directory.                                               *)
LEMMA RefreshType ==
    ASSUME TypeInv, Refresh
    PROVE  ServerType
<1> USE DEF TypeInv, TypeOK, ServerType
<1>1. CASE Opendir
    <2>1. IndexOK' /\ NamesUnique'
        BY <1>1, IndexKept DEF Opendir
    <2>2. ThreadOK' /\ CursorOK' /\ SearchOK'
        BY <1>1 DEF Opendir, ForgetQuery, NoAns, ThreadOK, ServerStates, CursorOK, SearchOK, Busy, passVars
    <2> QED BY <1>1, <2>1, <2>2 DEF Opendir, diskVars
<1>2. ASSUME NEW n \in Names, Readdir(n) PROVE ServerType
    <2>1. IndexOK' /\ NamesUnique'
        BY <1>2, IndexKept DEF Readdir
    <2>2. ThreadOK' /\ CursorOK' /\ SearchOK'
        BY <1>2 DEF Readdir, ThreadOK, ServerStates, CursorOK, SearchOK, Busy, queryVars
    <2> QED BY <1>2, <2>1, <2>2 DEF Readdir
<1>3. CASE ReaddirEnd
    <2>1. order \in Seq(Names) /\ order' \in Rearrangements(order)
        BY <1>3 DEF ReaddirEnd, cache_sort, IndexOK
    <2>2. IndexOK'
        BY <1>3, <2>1, RearrangementKeeps DEF ReaddirEnd, IndexOK
    <2>3. NamesUnique'
        BY <2>1, RearrangementInjective DEF NamesUnique
    <2>4. ThreadOK' /\ CursorOK' /\ SearchOK'
        BY <1>3 DEF ReaddirEnd, ThreadOK, ServerStates, CursorOK, SearchOK, Busy, queryVars
    <2> QED BY <1>3, <2>2, <2>3, <2>4 DEF ReaddirEnd
<1>4. CASE StatKnown
    <2>1. IndexOK' /\ NamesUnique'
        BY <1>4, IndexKept DEF StatKnown
    <2>2. ThreadOK' /\ CursorOK' /\ SearchOK'
        <3>1. CASE ParseReturns
            BY <1>4, <3>1, ParseReturnsType DEF StatKnown
        <3>2. CASE pc' = "rebuild" /\ UNCHANGED <<cur, off, fresh>>
            BY <1>4, <3>2 DEF StatKnown, ThreadOK, ServerStates, CursorOK, SearchOK, Busy, queryVars
        <3> QED BY <1>4, <3>1, <3>2 DEF StatKnown
    <2> QED BY <1>4, <2>1, <2>2 DEF StatKnown
<1>5. CASE RebuildOne
    <2>1. IndexOK' /\ NamesUnique'
        BY <1>5, IndexKept DEF RebuildOne
    <2>2. cur \in Names /\ disk[cur] \in FileType /\ cache[cur] \in CacheType
        BY <1>5 DEF RebuildOne, CursorOK, Busy, DiskOK, IndexOK
    <2>3. ResumeOffsets(cache[cur], disk[cur]) \subseteq Nat
        <3>1. CASE cache[cur].elems = <<>>
            BY <2>2, <3>1 DEF ResumeOffsets, FileType
        <3>2. CASE cache[cur].elems # <<>>
            BY <2>2, <3>2, ElemsTyped DEF ResumeOffsets, LastElem
        <3> QED BY <3>1, <3>2
    <2>4. ASSUME ParseReturns PROVE ThreadOK' /\ CursorOK' /\ SearchOK'
        BY <1>5, <2>4, ParseReturnsType DEF RebuildOne
    <2>5. ASSUME NEW o \in ResumeOffsets(cache[cur], disk[cur]), NEW r \in pread(disk[cur], o),
                 off' = NextOffset(r, o), pc' = "pread", UNCHANGED <<cur, fresh, listed, must, queryVars>>
          PROVE  ThreadOK' /\ CursorOK' /\ SearchOK'
        <3>1. off' \in Nat
            BY <2>2, <2>3, <2>5, PreadDelivers
        <3> QED BY <2>2, <2>5, <3>1 DEF ThreadOK, ServerStates, CursorOK, SearchOK, Busy, queryVars
    <2> QED BY <1>5, <2>1, <2>4, <2>5 DEF RebuildOne
<1>6. CASE ParseHeader
    <2>1. cur \in Names
        BY <1>6 DEF ParseHeader, CursorOK, Busy
    <2>2. IndexOK' /\ NamesUnique'
        <3>1. CASE UNCHANGED indexVars
            BY <3>1, IndexKept
        <3>2. CASE /\ order' = cache_alloc(order, cur) /\ ~cache_find(order, cur)
                   /\ cache' = [cache EXCEPT ![cur] = NewCache]
            <4>1. order' \in Seq(Names) /\ IsInjective(order')
                BY <2>1, <3>2, CacheAllocAdds DEF IndexOK, NamesUnique
            <4>2. NewCache \in CacheType /\ Len(NewCache.elems) <= NewCache.max_elems
                BY TrunkAssumption DEF NewCache, CacheType
            <4> QED BY <2>1, <3>2, <4>1, <4>2 DEF IndexOK, NamesUnique
        <3> QED BY <1>6, <3>1, <3>2 DEF ParseHeader
    <2>3. ThreadOK' /\ CursorOK' /\ SearchOK'
        <3>1. CASE ParseReturns
            BY <1>6, <3>1, ParseReturnsType DEF ParseHeader
        <3>2. CASE pc' = "pread" /\ off' \in {0, HdrLen} /\ fresh' = TRUE /\ UNCHANGED cur
            BY <1>6, <2>1, <3>2 DEF ParseHeader, ThreadOK, ServerStates, CursorOK, SearchOK, Busy,
                                    queryVars, HdrLen
        <3> QED BY <1>6, <3>1, <3>2 DEF ParseHeader, HeaderEnds
    <2> QED BY <1>6, <2>2, <2>3 DEF ParseHeader
<1>7. CASE Pread
    <2>1. cur \in Names /\ disk[cur] \in FileType /\ cache[cur] \in CacheType /\ off \in Nat
          /\ Len(cache[cur].elems) <= cache[cur].max_elems
        BY <1>7 DEF Pread, CursorOK, Busy, DiskOK, IndexOK, ThreadOK
    <2>2. CASE pc' = "fstat" /\ UNCHANGED <<cache, off>>
        <3>1. IndexOK' /\ NamesUnique'
            BY <1>7, <2>2, IndexKept DEF Pread, indexVars
        <3>2. ThreadOK' /\ CursorOK' /\ SearchOK'
            BY <1>7, <2>1, <2>2 DEF Pread, ThreadOK, ServerStates, CursorOK, SearchOK, Busy,
                                    passVars, queryVars
        <3> QED BY <1>7, <3>1, <3>2 DEF Pread
    <2>3. ASSUME NEW r \in pread(disk[cur], off), NEW c \in cache_set(cache[cur], r.time, off),
                 cache' = [cache EXCEPT ![cur] = c], off' = NextOffset(r, off), UNCHANGED pc
          PROVE  ServerType
        <3>1. r.time \in Times /\ off' \in Nat
            BY <2>1, <2>3, PreadDelivers
        <3>2. c \in CacheType /\ Len(c.elems) <= c.max_elems
            BY <2>1, <3>1, CacheSetAdds
        <3>3. IndexOK' /\ NamesUnique'
            BY <1>7, <2>1, <2>3, <3>2 DEF Pread, IndexOK, NamesUnique
        <3>4. ThreadOK' /\ CursorOK' /\ SearchOK'
            BY <1>7, <2>1, <2>3, <3>1 DEF Pread, ThreadOK, ServerStates, CursorOK, SearchOK, Busy,
                                          passVars, queryVars
        <3> QED BY <1>7, <3>3, <3>4 DEF Pread
    <2> QED BY <1>7, <2>2, <2>3 DEF Pread
<1>8. CASE Fstat
    <2>1. cur \in Names /\ disk[cur] \in FileType /\ cache[cur] \in CacheType
        BY <1>8 DEF Fstat, CursorOK, Busy, DiskOK, IndexOK
    <2>2. IndexOK' /\ NamesUnique'
        <3>1. CASE UNCHANGED indexVars
            BY <3>1, IndexKept
        <3>2. CASE /\ cache' = [cache EXCEPT ![cur].st_size = disk[cur].size]
                   /\ order' \in {order, cache_free(order, cur)}
            <4>1. disk[cur].size \in Nat
                BY <2>1 DEF FileType
            <4>2. order' \in Seq(Names) /\ IsInjective(order')
                BY <3>2, CacheFreeRemoves DEF IndexOK, NamesUnique
            <4>3. cache' = [cache EXCEPT ![cur] = [cache[cur] EXCEPT !.st_size = disk[cur].size]]
                BY <2>1, <3>2 DEF IndexOK
            <4>4. [cache[cur] EXCEPT !.st_size = disk[cur].size] \in CacheType
                BY <2>1, <4>1 DEF CacheType
            <4>5. \A n \in Names : cache'[n].elems = cache[n].elems
                                    /\ cache'[n].max_elems = cache[n].max_elems
                BY <2>1, <4>3 DEF IndexOK, CacheType
            <4> QED BY <4>2, <4>3, <4>4, <4>5 DEF IndexOK, NamesUnique
        <3> QED BY <1>8, <3>1, <3>2 DEF Fstat
    <2>3. ThreadOK' /\ CursorOK' /\ SearchOK'
        BY <1>8, ParseReturnsType DEF Fstat
    <2> QED BY <1>8, <2>2, <2>3 DEF Fstat
<1> QED BY <1>1, <1>2, <1>3, <1>4, <1>5, <1>6, <1>7, <1>8 DEF Refresh

(* The outcome of a query leaves no local behind.                           *)
LEMMA FinishType ==
    ASSUME TypeInv, NEW st \in {"ok", "error", "silent"}, Finish(st),
           UNCHANGED passVars, cur' \in Names \cup {NoName}, ts' \in Nat
    PROVE  ThreadOK' /\ CursorOK' /\ SearchOK'
<1>1. rr.time \in Nat
    BY RecordFields DEF TypeInv, TypeOK, ThreadOK, NoRec
<1>2. ans' \in [status : {"none", "ok", "error", "silent"}, time : Nat]
    BY <1>1 DEF Finish
<1> QED BY <1>2 DEF TypeInv, TypeOK, Finish, ThreadOK, ServerStates, CursorOK, SearchOK, Busy,
                    passVars, NoRange, NoRec

(* A target for the read was found.                                         *)
LEMMA AimType ==
    ASSUME TypeInv, NEW o \in Nat, Aim(o), UNCHANGED <<passVars, rr, ans>>,
           cur' \in Names, ts' \in Nat
    PROVE  ThreadOK' /\ CursorOK' /\ SearchOK'
BY DEF TypeInv, TypeOK, Aim, ThreadOK, ServerStates, CursorOK, SearchOK, Busy, passVars, NoRange

LEMMA QueryType ==
    ASSUME TypeInv, NEW t \in Times, Query(t)
    PROVE  ServerType
<1> USE DEF TypeInv, TypeOK
<1>1. IndexOK' /\ NamesUnique' /\ UNCHANGED diskVars
    BY IndexKept DEF Query
<1>2. ts' = t /\ t \in Nat /\ UNCHANGED <<indexVars, passVars>>
    BY TimesAssumption DEF Query
<1>3. \A i \in DOMAIN order : order[i] \in Names /\ cache[order[i]] \in CacheType
    BY DEF IndexOK
<1>4. CASE ScanStops(order, cache, t) = {} /\ Fallback(t)
    <2>1. CASE Finish("error") /\ UNCHANGED cur
        BY <1>1, <1>2, <2>1, FinishType DEF ServerType, ThreadOK
    <2>2. CASE /\ ~TooEarly(t)
               /\ cur' = cache_get_recent(order)
               /\ Aim(LastElem(cache[cache_get_recent(order)]).off)
               /\ UNCHANGED <<rr, ans>>
        <3> DEFINE i == Len(order)
        <3>1. order # <<>>
            BY <2>2 DEF TooEarly
        <3>2. i \in DOMAIN order /\ cache_get_recent(order) = order[i]
            BY <3>1 DEF IndexOK, cache_get_recent, Last
        <3>3. cache[order[i]].elems # <<>>
            BY <1>4, <3>2 DEF ScanStops
        <3>4. LastElem(cache[order[i]]).off \in Nat
            BY <1>3, <3>2, <3>3, ElemsTyped DEF LastElem
        <3>5. ThreadOK' /\ CursorOK' /\ SearchOK'
            BY <1>2, <1>3, <2>2, <3>2, <3>4, AimType
        <3> QED BY <1>1, <3>5 DEF ServerType
    <2> QED BY <1>4, <2>1, <2>2 DEF Fallback
<1>5. ASSUME NEW i \in ScanStops(order, cache, t), cache[order[i]].elems = <<>>, Abort
      PROVE  ServerType
    <2>1. ThreadOK' /\ CursorOK' /\ SearchOK'
        BY <1>2, <1>5 DEF Abort, ThreadOK, ServerStates, CursorOK, SearchOK, Busy, passVars
    <2> QED BY <1>1, <2>1 DEF ServerType
<1>6. ASSUME NEW i \in ScanStops(order, cache, t), cache[order[i]].elems # <<>>, Lookup(order[i])
      PROVE  ServerType
    <2> DEFINE n == order[i]
               es == cache[n].elems
    <2>1. n \in Names /\ cache[n] \in CacheType /\ Covers(cache[n], t) /\ cur' = n
        BY <1>3, <1>6 DEF ScanStops, Lookup
    <2>2. /\ Len(es) \in Nat /\ Len(es) \in 1 .. Len(es)
          /\ \A k \in 1 .. Len(es) : es[k].off \in Nat
        BY <1>6, <2>1, ElemsTyped
    <2>3. CASE Aim(es[1].off) /\ UNCHANGED <<rr, ans>>
        <3>1. es[1].off \in Nat
            BY <2>2
        <3> HIDE DEF es, n
        <3>2. ThreadOK' /\ CursorOK' /\ SearchOK'
            BY <1>2, <2>1, <2>3, <3>1, AimType
        <3> QED BY <1>1, <3>2 DEF ServerType
    <2>4. CASE pc' = "search" /\ bounds' = AllOf(es) /\ UNCHANGED <<off, rr, ans>>
        <3>1. bounds' = [left |-> 0, right |-> Len(es)]
            BY <2>4 DEF AllOf
        <3>2. ThreadOK' /\ CursorOK'
            BY <1>2, <2>1, <2>2, <2>4, <3>1 DEF ThreadOK, ServerStates, CursorOK, Busy, passVars
        <3>3. SearchOK'
            BY <1>2, <2>1, <2>2, <2>4, <3>1 DEF SearchOK, indexVars, Covers, LastElem
        <3> QED BY <1>1, <3>2, <3>3 DEF ServerType
    <2> QED BY <1>6, <2>3, <2>4 DEF Lookup
<1>7. CASE Finish("error") /\ UNCHANGED cur
    BY <1>1, <1>2, <1>7, FinishType DEF ServerType, ThreadOK
<1> QED BY <1>4, <1>5, <1>6, <1>7 DEF Query

(* One turn of the bisection keeps its bounds inside the array.             *)
LEMMA ProbeType ==
    ASSUME TypeInv, pc = "search", ~Narrowed(bounds),
           bounds' = Probe(cache[cur].elems, ts, bounds),
           UNCHANGED <<indexVars, passVars, pc, cur, off, ts, rr, ans>>
    PROVE  ThreadOK' /\ CursorOK' /\ SearchOK'
<1> USE DEF TypeInv, TypeOK
<1> DEFINE es  == cache[cur].elems
           mid == Mid(bounds)
           n   == Len(es)
           l   == bounds.left
           h   == bounds.right
<1>1. cur \in Names /\ cache[cur] \in CacheType
    BY DEF CursorOK, Busy, IndexOK
<1>2. n \in Nat /\ \A k \in 1 .. n : es[k].time \in Nat
    BY <1>1, ElemsTyped
<1>3. /\ bounds \in [left : Nat, right : Nat] /\ l \in Nat /\ h \in Nat /\ ts \in Nat
      /\ l < h /\ h <= n /\ ts <= es[n].time
    BY DEF ThreadOK, SearchOK, Narrowed
<1>4. mid \in Nat /\ l <= mid /\ mid < h
    BY <1>3 DEF Mid
<1> HIDE DEF es, n, l, h, mid
<1>5. /\ bounds'.left \in Nat /\ bounds'.right \in Nat
      /\ bounds'.left <= bounds'.right /\ bounds'.right <= n /\ bounds'.left < n
      /\ bounds' \in [left : Nat, right : Nat]
    <2>1. mid + 1 \in 1 .. n /\ es[mid + 1].time \in Nat
        BY <1>2, <1>3, <1>4
    <2>2. CASE ts = es[mid + 1].time
        <3>1. bounds' = [left |-> mid, right |-> mid]
            BY <1>3, <2>1, <2>2 DEF Probe, es, mid
        <3> QED BY <1>2, <1>3, <1>4, <3>1
    <2>3. CASE ts < es[mid + 1].time
        <3>1. bounds' = [bounds EXCEPT !.right = mid]
            BY <1>3, <2>1, <2>3 DEF Probe, es, mid
        <3>2. bounds'.left = l /\ bounds'.right = mid /\ bounds' \in [left : Nat, right : Nat]
            BY <1>3, <1>4, <3>1 DEF l
        <3> QED BY <1>2, <1>3, <1>4, <3>2
    <2>4. CASE ts > es[mid + 1].time
        <3>1. bounds' = [bounds EXCEPT !.left = mid + 1]
            BY <1>3, <2>1, <2>4 DEF Probe, es, mid
        <3>2. bounds'.left = mid + 1 /\ bounds'.right = h /\ bounds' \in [left : Nat, right : Nat]
            BY <1>3, <1>4, <3>1 DEF h
        <3>3. mid + 1 # n
            BY <1>2, <1>3, <2>1, <2>4
        <3> QED BY <1>2, <1>3, <1>4, <3>2, <3>3
    <2> QED BY <1>3, <2>1, <2>2, <2>3, <2>4
<1>6. cache' = cache /\ cur' = cur /\ ts' = ts /\ pc' = pc
    BY DEF indexVars
<1>7. SearchOK'
    BY <1>3, <1>5, <1>6 DEF SearchOK, es, n
<1>8. ThreadOK' /\ CursorOK'
    BY <1>5, <1>6 DEF ThreadOK, CursorOK, passVars
<1> QED BY <1>7, <1>8

LEMMA AnswerType ==
    ASSUME TypeInv, Answer
    PROVE  ServerType
<1> USE DEF TypeInv, TypeOK
<1>1. UNCHANGED <<diskVars, indexVars, passVars, cur, ts>> /\ pc \in Busy /\ cur \in Names
    BY DEF Answer, Search, OpenSeek, ReadRecord, GetSstat, GetDevtstat, Busy, CursorOK
<1>2. IndexOK' /\ NamesUnique' /\ cur' \in Names /\ ts' \in Nat
    BY <1>1, IndexKept DEF ThreadOK
<1>3. disk[cur] \in FileType /\ cache[cur] \in CacheType /\ off \in Nat
    BY <1>1 DEF DiskOK, IndexOK, ThreadOK
<1> SUFFICES ThreadOK' /\ CursorOK' /\ SearchOK'
    BY <1>1, <1>2 DEF ServerType
<1>4. ASSUME Finish("error") \/ Finish("silent") \/ Finish("ok")
      PROVE  ThreadOK' /\ CursorOK' /\ SearchOK'
    BY <1>1, <1>2, <1>4, FinishType
<1>5. CASE Search
    <2>1. CASE Narrowed(bounds) /\ Aim(Hit(cache[cur].elems, bounds).off)
        <3>1. bounds.left \in Nat /\ bounds.left + 1 \in 1 .. Len(cache[cur].elems)
            <4>1. bounds.left \in Nat
                BY DEF ThreadOK
            <4>2. bounds.left < Len(cache[cur].elems) /\ Len(cache[cur].elems) \in Nat
                BY <1>3, <1>5, ElemsTyped DEF Search, SearchOK
            <4> QED BY <4>1, <4>2
        <3>2. Hit(cache[cur].elems, bounds).off \in Nat
            BY <1>3, <3>1, ElemsTyped DEF Hit
        <3> QED BY <1>1, <1>2, <1>5, <2>1, <3>2, AimType DEF Search
    <2>2. CASE /\ ~Narrowed(bounds) /\ bounds' = Probe(cache[cur].elems, ts, bounds)
               /\ UNCHANGED <<off, pc>>
        BY <1>1, <1>5, <2>2, ProbeType DEF Search
    <2> QED BY <1>5, <2>1, <2>2 DEF Search
<1>6. CASE OpenSeek
    <2>1. CASE pc' = "record" /\ UNCHANGED <<off, bounds, rr, ans>>
        BY <1>1, <1>2, <2>1 DEF ThreadOK, ServerStates, CursorOK, SearchOK, Busy, passVars
    <2> QED BY <1>4, <1>6, <2>1 DEF OpenSeek
<1>7. CASE ReadRecord
    <2>1. CASE rr' \in ReadAt(disk[cur], off) /\ pc' = "sstat" /\ UNCHANGED <<off, bounds, ans>>
        <3>1. rr' \in Record
            BY <1>3, <2>1, PreadDelivers DEF pread
        <3> QED BY <1>1, <1>2, <2>1, <3>1 DEF ThreadOK, ServerStates, CursorOK, SearchOK, Busy, passVars
    <2> QED BY <1>4, <1>7, <2>1 DEF ReadRecord
<1>8. CASE GetSstat
    <2>1. CASE pc' = "devtstat" /\ UNCHANGED <<off, bounds, rr, ans>>
        BY <1>1, <1>2, <2>1 DEF ThreadOK, ServerStates, CursorOK, SearchOK, Busy, passVars
    <2> QED BY <1>4, <1>8, <2>1 DEF GetSstat
<1>9. CASE GetDevtstat
    BY <1>4, <1>9 DEF GetDevtstat
<1> QED BY <1>5, <1>6, <1>7, <1>8, <1>9 DEF Answer

LEMMA ThrottledType ==
    ASSUME TypeInv, Throttled
    PROVE  ServerType
<1>1. IndexOK' /\ NamesUnique'
    BY IndexKept DEF Throttled
<1>2. ThreadOK' /\ CursorOK' /\ SearchOK'
    BY DEF TypeInv, TypeOK, Throttled, ForgetQuery, NoAns, ThreadOK, ServerStates, CursorOK, SearchOK,
           Busy, passVars
<1> QED BY <1>1, <1>2 DEF ServerType, Throttled

LEMMA NextType == TypeInv /\ [Next]_vars => TypeInv'
<1> SUFFICES ASSUME TypeInv, [Next]_vars PROVE TypeInv'
    OBVIOUS
<1>1. ASSUME ServerType PROVE TypeInv'
    BY <1>1 DEF ServerType, TypeInv, TypeOK, DiskOK, diskVars
<1>2. ASSUME DiskOK', UNCHANGED serverVars PROVE TypeInv'
    <2>1. UNCHANGED indexVars /\ UNCHANGED <<pc, passVars, cur, off, queryVars>>
        BY <1>2 DEF serverVars
    <2>2. IndexOK' /\ NamesUnique'
        BY <2>1, IndexKept
    <2>3. ThreadOK' /\ CursorOK' /\ SearchOK'
        BY <2>1 DEF TypeInv, TypeOK, ThreadOK, CursorOK, SearchOK, passVars, queryVars, indexVars
    <2> QED BY <1>2, <2>2, <2>3 DEF TypeInv, TypeOK
<1>3. CASE UNCHANGED vars
    <2>1. DiskOK' /\ UNCHANGED serverVars
        BY <1>3 DEF vars, diskVars, serverVars, TypeInv, TypeOK, DiskOK
    <2> QED BY <1>2, <2>1
<1> QED BY <1>1, <1>2, <1>3, EnvironmentType, RefreshType, QueryType, AnswerType, ThrottledType DEF Next

(* Rawlog keeps its types: in every state every variable has the type of    *)
(* its C counterpart, offsets and bounds stay natural numbers, and cache_set*)
(* never writes past the end of an elems[] array, whatever atop writes and  *)
(* whichever faults occur.                                                  *)
THEOREM TypeCorrect == Spec => []TypeOK
<1>1. TypeInv => TypeOK
    BY DEF TypeInv
<1> QED BY <1>1, InitType, NextType, PTL DEF Spec

----------------------------------------------------------------------------
(* How one step may change the index: the facts the safety proofs need.     *)

(* pread hands cache_set a time and the offset it was read at.              *)
Indexes(r, c) ==
    /\ pc = "pread" /\ pc' = "pread"
    /\ r \in pread(disk[cur], off)
    /\ c \in cache_set(cache[cur], r.time, off)
    /\ cache' = [cache EXCEPT ![cur] = c]
    /\ UNCHANGED <<order, cur, fresh>>

Allocates ==
    /\ pc = "parse"
    /\ ~cache_find(order, cur)
    /\ order' = cache_alloc(order, cur)
    /\ cache' = [cache EXCEPT ![cur] = NewCache]

(* Fstat's effect: the elements stay, an empty fresh cache is dropped.      *)
Stats ==
    /\ pc = "fstat" /\ pc' = "readdir"
    /\ cache' \in [Names -> CacheType]
    /\ \A n \in Names : cache'[n].elems = cache[n].elems
    /\ order' = IF DropEmpty(fresh, cache[cur]) THEN cache_free(order, cur) ELSE order

Sorts ==
    /\ pc = "readdir" /\ pc' = "idle"
    /\ order' \in cache_sort(order, cache)
    /\ UNCHANGED cache

IndexStep ==
    \/ UNCHANGED indexVars
    \/ \E r, c : Indexes(r, c)
    \/ Allocates
    \/ Stats
    \/ Sorts

LEMMA FstatStats ==
    ASSUME TypeInv, Fstat, ~UNCHANGED indexVars \/ "fstat" \notin Events
    PROVE  Stats
<1>1. /\ cache' = [cache EXCEPT ![cur].st_size = disk[cur].size]
      /\ order' = IF DropEmpty(fresh, cache[cur]) THEN cache_free(order, cur) ELSE order
      /\ pc = "fstat" /\ pc' = "readdir"
    BY DEF Fstat, ParseReturns
<1>2. cur \in Names /\ disk[cur].size \in Nat /\ cache \in [Names -> CacheType]
    BY DEF Fstat, TypeInv, TypeOK, CursorOK, Busy, DiskOK, IndexOK, FileType
<1>3. cache' = [cache EXCEPT ![cur] = [cache[cur] EXCEPT !.st_size = disk[cur].size]]
    BY <1>1, <1>2
<1>4. /\ [cache[cur] EXCEPT !.st_size = disk[cur].size] \in CacheType
      /\ [cache[cur] EXCEPT !.st_size = disk[cur].size].elems = cache[cur].elems
    BY <1>2 DEF CacheType
<1>5. cache' \in [Names -> CacheType] /\ \A n \in Names : cache'[n].elems = cache[n].elems
    BY <1>2, <1>3, <1>4
<1> QED BY <1>1, <1>5 DEF Stats

LEMMA StepChangesIndex == TypeInv /\ [Next]_vars => IndexStep
<1> SUFFICES ASSUME TypeInv, [Next]_vars PROVE IndexStep
    OBVIOUS
<1>1. CASE Fstat
    BY <1>1, FstatStats DEF Fstat, IndexStep
<1>2. CASE Pread
    BY <1>2 DEF Pread, passVars, IndexStep, Indexes, indexVars
<1>3. CASE ParseHeader
    BY <1>3 DEF ParseHeader, IndexStep, Allocates
<1>4. CASE ReaddirEnd
    BY <1>4 DEF ReaddirEnd, IndexStep, Sorts
<1>5. ASSUME \/ Environment
             \/ Opendir \/ StatKnown \/ RebuildOne \/ \E n \in Names : Readdir(n)
             \/ \E t \in Times : Query(t)
             \/ Answer \/ Throttled \/ UNCHANGED vars
      PROVE  UNCHANGED indexVars
    BY <1>5 DEF Environment, Rotate, Unlink, Foreign, WriteHeader, WriteRecord, WriteBlock, Truncate,
                serverVars, Opendir, StatKnown, RebuildOne, Readdir, Query, Answer, Search, OpenSeek,
                ReadRecord, GetSstat, GetDevtstat, Throttled, vars
<1> QED BY <1>1, <1>2, <1>3, <1>4, <1>5 DEF Next, Refresh, IndexStep

----------------------------------------------------------------------------
(* The caches stay sorted.                                                  *)

SortedInv == \A n \in Names : AscendingTimes(cache[n].elems)

LEMMA StepKeepsSorted ==
    ASSUME TypeInv, SortedInv, IndexStep
    PROVE  SortedInv'
<1> USE DEF TypeInv, TypeOK
<1>1. cache \in [Names -> CacheType]
    BY DEF IndexOK
<1>2. CASE UNCHANGED cache
    BY <1>2 DEF SortedInv
<1>3. ASSUME NEW r, NEW c, Indexes(r, c) PROVE SortedInv'
    <2>1. cur \in Names /\ disk[cur] \in FileType /\ off \in Nat
        BY <1>3 DEF Indexes, CursorOK, Busy, DiskOK, ThreadOK
    <2>2. r.time \in Times
        BY <1>3, <2>1, PreadDelivers DEF Indexes
    <2>3. AscendingTimes(c.elems)
        BY <1>1, <1>3, <2>1, <2>2, CacheSetSorts DEF Indexes, SortedInv
    <2> QED BY <1>1, <1>3, <2>1, <2>3 DEF Indexes, SortedInv
<1>4. CASE Allocates
    <2>1. AscendingTimes(NewCache.elems)
        BY DEF AscendingTimes, NewCache
    <2> QED BY <1>1, <1>4, <2>1 DEF Allocates, SortedInv
<1>5. CASE Stats
    BY <1>5 DEF Stats, SortedInv
<1> QED BY <1>2, <1>3, <1>4, <1>5 DEF IndexStep, indexVars, Sorts

(* Every cache of the table is sorted by time in every state, whatever      *)
(* times atop writes (a clock set back, damaged or truncated logs) and      *)
(* whatever order an unstable qsort leaves equal times in: the precondition *)
(* of the bisection in cache_get.                                           *)
THEOREM TimesStayAscending == Spec => []TimesAscend
<1>1. Init => SortedInv
    BY DEF Init, SortedInv, NewCache, AscendingTimes
<1>2. TypeInv /\ SortedInv /\ [Next]_vars => SortedInv'
    BY StepChangesIndex, StepKeepsSorted
<1>3. TypeInv /\ SortedInv => TimesAscend
    <2> SUFFICES ASSUME TypeInv, SortedInv, NEW n \in Range(order)
                 PROVE  AscendingTimes(cache[n].elems)
        BY DEF TimesAscend, Known
    <2>1. n \in Names
        BY DEF TypeInv, TypeOK, IndexOK, Range
    <2> QED BY <2>1 DEF SortedInv
<1> QED BY <1>1, <1>2, <1>3, InitType, NextType, PTL DEF Spec

----------------------------------------------------------------------------
(* The assertions of cache.c.                                               *)

NoFault == "fstat" \notin Events /\ "lseek" \notin Events

(* A cache is empty only while parse_one is filling it for the first time.  *)
FilledInv ==
    /\ pc # "aborted"
    /\ \A n \in Known :
          cache[n].elems = <<>> => n = cur /\ fresh /\ pc \in {"pread", "fstat"}

(* The table is sorted by first time whenever it is searched.               *)
SearchedInv ==
    pc \in {"idle", "search", "found", "record", "sstat", "devtstat", "answered"} =>
        OrderedByFirst(order, cache)

AllFilled == \A n \in Known : cache[n].elems # <<>>

LEMMA FilledOutsideParse ==
    ASSUME FilledInv, pc \notin {"pread", "fstat"}
    PROVE  AllFilled
BY DEF FilledInv, AllFilled

LEMMA StepKeepsFilled ==
    ASSUME NoFault, TypeInv, FilledInv, [Next]_vars
    PROVE  FilledInv'
<1> USE DEF TypeInv, TypeOK
<1>0. order \in Seq(Names) /\ cache \in [Names -> CacheType] /\ Known \subseteq Names
    BY DEF IndexOK, Known, Range
<1>1. ASSUME UNCHANGED indexVars, pc \notin {"pread", "fstat"}, pc' # "aborted"
      PROVE  FilledInv'
    <2>1. AllFilled
        BY <1>1, FilledOutsideParse
    <2> QED BY <1>1, <2>1 DEF FilledInv, AllFilled, Known, indexVars
<1>2. ASSUME UNCHANGED serverVars PROVE FilledInv'
    BY <1>2 DEF serverVars, indexVars, passVars, FilledInv, Known
<1>3. CASE Environment
    BY <1>2, <1>3, EnvironmentType
<1>4. CASE Opendir \/ StatKnown \/ RebuildOne \/ \E n \in Names : Readdir(n)
    BY <1>1, <1>4 DEF Opendir, StatKnown, RebuildOne, Readdir, ParseReturns
<1>5. CASE Answer \/ Throttled
    BY <1>1, <1>5 DEF Answer, Search, Aim, OpenSeek, ReadRecord, GetSstat, GetDevtstat, Finish, Throttled,
                      FilledInv
<1>6. ASSUME NEW t \in Times, Query(t) PROVE FilledInv'
    <2>1. pc = "idle" /\ UNCHANGED indexVars
        BY <1>6 DEF Query
    <2>2. AllFilled
        BY <2>1, FilledOutsideParse
    <2>3. \A i \in ScanStops(order, cache, t) : cache[order[i]].elems # <<>>
        BY <2>2 DEF ScanStops, AllFilled, Known, Range
    <2>4. pc' # "aborted"
        BY <1>6, <2>3 DEF Query, Fallback, Finish, Aim, Lookup
    <2> QED BY <1>1, <2>1, <2>4
<1>7. CASE ReaddirEnd
    <2>1. Range(order') = Range(order) /\ UNCHANGED cache /\ pc = "readdir" /\ pc' = "idle"
        BY <1>0, <1>7, RearrangementKeeps DEF ReaddirEnd, cache_sort
    <2>2. AllFilled
        BY <2>1, FilledOutsideParse
    <2> QED BY <2>1, <2>2 DEF FilledInv, AllFilled, Known
<1>8. CASE ParseHeader
    <2>1. pc = "parse" /\ cur \in Names
        BY <1>8 DEF ParseHeader, CursorOK, Busy
    <2>2. AllFilled
        BY <2>1, FilledOutsideParse
    <2>3. CASE ParseReturns /\ UNCHANGED indexVars
        BY <1>1, <2>1, <2>3 DEF ParseReturns
    <2>4. CASE /\ order' = cache_alloc(order, cur) /\ ~cache_find(order, cur)
               /\ cache' = [cache EXCEPT ![cur] = NewCache]
               /\ pc' = "pread" /\ fresh' = TRUE /\ UNCHANGED cur
        <3>1. Range(order') = Range(order) \cup {cur}
            BY <1>0, <2>1, <2>4, CacheAllocAdds DEF NamesUnique
        <3>2. \A n \in Range(order) : n # cur => cache'[n].elems # <<>>
            BY <1>0, <2>2, <2>4 DEF AllFilled, Known
        <3> QED BY <2>4, <3>1, <3>2 DEF FilledInv, Known
    <2> QED BY <1>8, <2>3, <2>4 DEF ParseHeader, NoFault
<1>9. CASE Pread
    <2>1. cur \in Names /\ disk[cur] \in FileType /\ off \in Nat /\ UNCHANGED <<order, cur, fresh>>
        BY <1>9 DEF Pread, passVars, CursorOK, Busy, DiskOK, ThreadOK
    <2>2. CASE pc' = "fstat" /\ UNCHANGED cache
        BY <2>1, <2>2 DEF FilledInv, Known
    <2>3. ASSUME NEW r \in pread(disk[cur], off), NEW c \in cache_set(cache[cur], r.time, off),
                 cache' = [cache EXCEPT ![cur] = c], pc' = pc
          PROVE  FilledInv'
        <3>1. r.time \in Times
            BY <2>1, PreadDelivers
        <3>2. cache[cur] \in CacheType /\ Len(cache[cur].elems) <= cache[cur].max_elems
            BY <2>1 DEF IndexOK
        <3>3. c.elems # <<>>
            BY <2>1, <3>1, <3>2, CacheSetAdds
        <3>4. \A n \in Known : n # cur => cache'[n].elems # <<>>
            BY <1>0, <2>3 DEF FilledInv
        <3>5. cache'[cur].elems # <<>>
            BY <1>0, <2>1, <2>3, <3>3
        <3> QED BY <1>9, <2>1, <2>3, <3>4, <3>5 DEF FilledInv, Known, Pread
    <2> QED BY <1>9, <2>2, <2>3 DEF Pread
<1>10. CASE Fstat
    <2>1. Stats
        BY <1>10, FstatStats DEF NoFault
    <2>2. cur \in Names
        BY <1>10 DEF Fstat, CursorOK, Busy
    <2>3. \A n \in Known : n # cur => cache'[n].elems # <<>>
        BY <1>0, <2>1 DEF FilledInv, Stats
    <2>4. CASE DropEmpty(fresh, cache[cur])
        <3>1. Range(order') = Range(order) \ {cur}
            BY <1>0, <2>1, <2>4, CacheFreeRemoves DEF Stats, NamesUnique
        <3> QED BY <2>1, <2>3, <3>1 DEF FilledInv, Known, Stats
    <2>5. CASE ~DropEmpty(fresh, cache[cur])
        <3>1. order' = order
            BY <2>1, <2>5 DEF Stats
        <3>2. cur \in Known => cache'[cur].elems # <<>>
            BY <2>1, <2>2, <2>5 DEF Stats, DropEmpty, FilledInv
        <3> QED BY <2>1, <2>3, <3>1, <3>2 DEF FilledInv, Known, Stats
    <2> QED BY <2>4, <2>5
<1>11. CASE UNCHANGED vars
    BY <1>2, <1>11 DEF vars, serverVars
<1> QED BY <1>3, <1>4, <1>5, <1>6, <1>7, <1>8, <1>9, <1>10, <1>11 DEF Next, Refresh

LEMMA StepKeepsSearched == TypeInv /\ SearchedInv /\ [Next]_vars => SearchedInv'
<1> SUFFICES ASSUME TypeInv, SearchedInv, [Next]_vars PROVE SearchedInv'
    OBVIOUS
<1> DEFINE Ready == {"idle", "search", "found", "record", "sstat", "devtstat", "answered"}
<1>1. ASSUME UNCHANGED indexVars, pc \in Ready \/ pc' \notin Ready PROVE SearchedInv'
    BY <1>1 DEF SearchedInv, indexVars
<1>2. CASE ReaddirEnd
    BY <1>2 DEF ReaddirEnd, cache_sort, SearchedInv
<1>3. ASSUME pc' \notin Ready PROVE SearchedInv'
    BY <1>3 DEF SearchedInv
<1>4. CASE StatKnown \/ RebuildOne \/ ParseHeader \/ Pread \/ Fstat \/ \E n \in Names : Readdir(n)
    BY <1>3, <1>4 DEF StatKnown, RebuildOne, ParseHeader, Pread, Fstat, Readdir, ParseReturns
<1>5. CASE Opendir
    BY <1>1, <1>5 DEF Opendir
<1>6. CASE Answer \/ Throttled \/ \E t \in Times : Query(t)
    BY <1>1, <1>6 DEF Answer, Search, OpenSeek, ReadRecord, GetSstat, GetDevtstat, Throttled, Query
<1>7. CASE Environment \/ UNCHANGED vars
    <2>1. UNCHANGED <<indexVars, pc>>
        BY <1>7, EnvironmentType DEF serverVars, vars
    <2> QED BY <2>1 DEF SearchedInv, indexVars
<1> QED BY <1>2, <1>4, <1>5, <1>6, <1>7 DEF Next, Refresh

(* As long as fstat and lseek do not fail on an open log, the assertions of *)
(* cache.c hold: no name enters the table twice (cache_alloc), and no query *)
(* meets an empty cache (__cache_get), for any number of logs, passes and   *)
(* queries and whatever atop does to the files.                             *)
THEOREM AssertionsNeverFail == ASSUME NoFault PROVE Spec => []AssertionsHold
<1>1. Init => FilledInv
    BY DEF Init, FilledInv, Known, Range
<1>2. TypeInv /\ FilledInv /\ [Next]_vars => FilledInv'
    BY StepKeepsFilled
<1>3. TypeInv /\ FilledInv => AssertionsHold
    BY DEF AssertionsHold, FilledInv, TypeInv, NamesUnique
<1> QED BY <1>1, <1>2, <1>3, InitType, NextType, PTL DEF Spec

(* Under the same condition the server is ready for a query between any two *)
(* passes: the table is sorted by first time and holds no empty cache.      *)
THEOREM AlwaysReady == ASSUME NoFault PROVE Spec => []ReadyWhenIdle
<1>1. Init => FilledInv /\ SearchedInv
    BY DEF Init, FilledInv, SearchedInv, Known, Range
<1>2. TypeInv /\ FilledInv /\ [Next]_vars => FilledInv'
    BY StepKeepsFilled
<1>3. FilledInv /\ SearchedInv => ReadyWhenIdle
    BY DEF ReadyWhenIdle, FilledInv, SearchedInv
<1> QED BY <1>1, <1>2, <1>3, InitType, NextType, StepKeepsSearched, PTL DEF Spec
=============================================================================
