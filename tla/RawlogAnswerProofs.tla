-------------------------- MODULE RawlogAnswerProofs --------------------------
(****************************************************************************)
(* Proofs about Rawlog while atop's clock runs forward: a cache is the      *)
(* beginning of its file, and the sample served is the right one.           *)
(****************************************************************************)
EXTENDS RawlogIndexProofs

----------------------------------------------------------------------------
(* Times on the disk.                                                       *)

Increasing(f) == \A i, j \in DOMAIN f.recs : i < j => f.recs[i].time < f.recs[j].time

NotAfter(f, t) == \A r \in Range(f.recs) : r.time <= t

Before(f, g) == \A q \in Range(f.recs), r \in Range(g.recs) : q.time < r.time

(* Within a log times increase, no two logs overlap in time, and the one    *)
(* that atop writes is the latest.                                          *)
ClockInv ==
    /\ \A n \in Names : Increasing(disk[n]) /\ NotAfter(disk[n], clock)
    /\ \A m, n \in Names : m # n => Before(disk[m], disk[n]) \/ Before(disk[n], disk[m])
    /\ \A m, n \in Names : current = n /\ m # n => Before(disk[m], disk[n])

LEMMA AppendIncreases ==
    ASSUME NEW f \in FileType, NEW g, NEW r \in Record, NEW t \in Nat,
           Increasing(f), NotAfter(f, t), t < r.time, g.recs = Append(f.recs, r)
    PROVE  /\ Increasing(g) /\ NotAfter(g, r.time) /\ Range(g.recs) = Range(f.recs) \cup {r}
           /\ \A q \in Range(f.recs) : q.time < r.time
<1> DEFINE k == Len(f.recs)
           rs == Append(f.recs, r)
<1>0. /\ k \in Nat /\ DOMAIN f.recs = 1 .. k /\ f.recs \in Seq(Record)
      /\ \A q \in Range(f.recs) : q \in Record
    BY RecsTyped
<1>1. /\ rs[k + 1] = r /\ DOMAIN rs = 1 .. k \cup {k + 1}
      /\ \A i \in 1 .. k : rs[i] = f.recs[i]
      /\ Range(rs) = Range(f.recs) \cup {r}
    BY <1>0, AppendKeeps
<1>2. g.recs = rs /\ r.time \in Nat
    BY RecordFields
<1> HIDE DEF rs, k
<1>3. \A q \in Range(f.recs) : q.time < r.time /\ q.time <= r.time
    <2> SUFFICES ASSUME NEW q \in Range(f.recs) PROVE q.time < r.time /\ q.time <= r.time
        OBVIOUS
    <2>1. q.time \in Nat
        BY <1>0, RecordFields
    <2>2. q.time <= t
        BY DEF NotAfter
    <2> QED BY <1>2, <2>1, <2>2
<1>4. \A i \in 1 .. k : rs[i].time < r.time
    BY <1>0, <1>1, <1>3 DEF Range
<1>5. \A i, j \in DOMAIN rs : i < j => rs[i].time < rs[j].time
    <2> SUFFICES ASSUME NEW i \in DOMAIN rs, NEW j \in DOMAIN rs, i < j
                 PROVE  rs[i].time < rs[j].time
        OBVIOUS
    <2>1. i \in 1 .. k
        BY <1>0, <1>1
    <2>2. CASE j \in 1 .. k
        BY <1>0, <1>1, <2>1, <2>2 DEF Increasing
    <2>3. CASE j = k + 1
        BY <1>1, <1>4, <2>1, <2>3
    <2> QED BY <1>1, <2>2, <2>3
<1>6. Increasing(g)
    BY <1>2, <1>5 DEF Increasing
<1>7. NotAfter(g, r.time)
    BY <1>1, <1>2, <1>3 DEF NotAfter
<1> QED BY <1>1, <1>2, <1>3, <1>6, <1>7

LEMMA StepKeepsClock ==
    ASSUME Undamaged, Forward, TypeInv, LayoutInv, ClockInv, [Next]_vars
    PROVE  ClockInv'
<1>0. /\ \A n \in Names : disk[n] \in FileType
      /\ clock \in Nat
      /\ \A n \in Names : Increasing(disk[n]) /\ NotAfter(disk[n], clock)
      /\ \A m, n \in Names : m # n => Before(disk[m], disk[n]) \/ Before(disk[n], disk[m])
      /\ \A m, n \in Names : current = n /\ m # n => Before(disk[m], disk[n])
    BY DEF TypeInv, TypeOK, DiskOK, ClockInv
<1>1. ASSUME KeepsRecords PROVE ClockInv'
    <2>1. /\ \A n \in Names : Range(disk'[n].recs) = Range(disk[n].recs)
          /\ \A n \in Names : disk'[n].recs = disk[n].recs
          /\ clock' = clock
        BY <1>1 DEF KeepsRecords
    <2>2. \A n \in Names : Increasing(disk'[n]) /\ NotAfter(disk'[n], clock')
        BY <1>0, <2>1 DEF Increasing, NotAfter
    <2>3. \A m, n \in Names : Before(disk[m], disk[n]) => Before(disk'[m], disk'[n])
        BY <2>1 DEF Before
    <2>4. \A m, n \in Names : m # n => Before(disk'[m], disk'[n]) \/ Before(disk'[n], disk'[m])
        BY <1>0, <2>3
    <2>5. ASSUME NEW m \in Names, NEW n \in Names, current' = n, m # n
          PROVE  Before(disk'[m], disk'[n])
        <3>1. CASE current' = current
            BY <1>0, <2>3, <2>5, <3>1
        <3>2. CASE disk[current'].recs = <<>>
            BY <2>1, <2>5, <3>2 DEF Before, Range
        <3> QED BY <1>1, <3>1, <3>2 DEF KeepsRecords
    <2> QED BY <2>2, <2>4, <2>5 DEF ClockInv
<1>2. ASSUME NEW k \in Names, NEW r \in Record, Writes(k, r) PROVE ClockInv'
    <2>1. /\ disk'[k].recs = Append(disk[k].recs, r) /\ \A m \in Names \ {k} : disk'[m] = disk[m]
          /\ clock < r.time /\ clock' = r.time /\ r.time \in Nat /\ current = k /\ current' = k
        BY <1>2, <1>0, RecordFields DEF Writes, Forward
    <2>2. /\ Increasing(disk'[k]) /\ NotAfter(disk'[k], r.time)
          /\ Range(disk'[k].recs) = Range(disk[k].recs) \cup {r}
        BY <1>0, <2>1, AppendIncreases
    <2>3. \A m \in Names : \A q \in Range(disk[m].recs) : q.time < r.time /\ q.time <= r.time
        <3> SUFFICES ASSUME NEW m \in Names, NEW q \in Range(disk[m].recs)
                     PROVE  q.time < r.time /\ q.time <= r.time
            OBVIOUS
        <3>1. q \in Record
            BY <1>0, RecsTyped
        <3>2. q.time \in Nat /\ q.time <= clock
            BY <1>0, <3>1, RecordFields DEF NotAfter
        <3> QED BY <1>0, <2>1, <3>2
    <2>4. \A n \in Names : Increasing(disk'[n]) /\ NotAfter(disk'[n], clock')
        BY <1>0, <2>1, <2>2, <2>3 DEF NotAfter
    <2>5. \A m \in Names \ {k} : Before(disk'[m], disk'[k])
        BY <1>0, <2>1, <2>2, <2>3 DEF Before
    <2>6. \A m, n \in Names : m # n => Before(disk'[m], disk'[n]) \/ Before(disk'[n], disk'[m])
        BY <1>0, <2>1, <2>5
    <2>7. \A m, n \in Names : current' = n /\ m # n => Before(disk'[m], disk'[n])
        BY <2>1, <2>5
    <2> QED BY <2>4, <2>6, <2>7 DEF ClockInv
<1>3. CASE Environment
    BY <1>1, <1>2, <1>3, EnvironmentWrites
<1>4. CASE UNCHANGED diskVars
    BY <1>1, <1>4 DEF KeepsRecords, diskVars
<1>5. Environment \/ UNCHANGED diskVars
    BY RefreshType, QueryType, AnswerType, ThrottledType DEF Next, ServerType, vars
<1> QED BY <1>3, <1>4, <1>5

----------------------------------------------------------------------------
(* A cache is the beginning of its file.                                    *)

Prefix(f, c) ==
    /\ Len(c.elems) <= Len(f.recs)
    /\ \A i \in DOMAIN c.elems : c.elems[i] = Elem(f.recs[i].time, f.recs[i].off)

(* Offset o is where the first record that is not indexed starts.           *)
NextUp(f, c, o) ==
    o = IF c.elems = <<>> THEN HdrLen ELSE EndOf(f.recs[Len(c.elems)])

PrefixInv ==
    /\ \A n \in Known : Prefix(disk[n], cache[n])
    /\ pc = "pread" => NextUp(disk[cur], cache[cur], off)

LEMMA AppendKeepsPrefix ==
    ASSUME NEW f \in FileType, NEW g, NEW c \in CacheType, NEW r \in Record,
           Prefix(f, c), g.recs = Append(f.recs, r)
    PROVE  Prefix(g, c) /\ \A o : NextUp(f, c, o) => NextUp(g, c, o)
<1> DEFINE k == Len(f.recs)
           rs == Append(f.recs, r)
           m  == Len(c.elems)
<1>0. /\ k \in Nat /\ DOMAIN f.recs = 1 .. k /\ f.recs \in Seq(Record)
      /\ m \in Nat /\ DOMAIN c.elems = 1 .. m
      /\ c.elems # <<>> => m \in 1 .. m
    BY RecsTyped, ElemsTyped
<1>1. Len(rs) = k + 1 /\ \A i \in 1 .. k : rs[i] = f.recs[i]
    BY <1>0, AppendKeeps
<1>2. m <= k /\ \A i \in 1 .. m : c.elems[i] = Elem(f.recs[i].time, f.recs[i].off)
    BY <1>0 DEF Prefix
<1>3. g.recs = rs
    OBVIOUS
<1> HIDE DEF k, m, rs
<1>4. \A i \in 1 .. m : rs[i] = f.recs[i]
    BY <1>0, <1>1, <1>2
<1>5. Prefix(g, c)
    BY <1>0, <1>1, <1>2, <1>3, <1>4 DEF Prefix, m
<1>6. ASSUME NEW o, NextUp(f, c, o) PROVE NextUp(g, c, o)
    BY <1>0, <1>3, <1>4, <1>6 DEF NextUp, m
<1> QED BY <1>5, <1>6

(* The loop reads the record after those indexed, and appends it.           *)
LEMMA SetKeepsPrefix ==
    ASSUME Undamaged, NEW f \in FileType, Layout(f), Increasing(f), NEW c \in CacheType,
           Prefix(f, c), NEW o, Boundary(f, o), NextUp(f, c, o),
           NEW r \in pread(f, o), NEW d \in cache_set(c, r.time, o)
    PROVE  Prefix(f, d) /\ NextUp(f, d, NextOffset(r, o))
<1> DEFINE k == Len(f.recs)
           m == Len(c.elems)
<1>0. /\ k \in Nat /\ DOMAIN f.recs = 1 .. k /\ f.recs \in Seq(Record) /\ f.size \in Nat
      /\ \A i \in 1 .. k : f.recs[i] \in Record /\ f.recs[i] \in Range(f.recs)
      /\ m \in Nat /\ DOMAIN c.elems = 1 .. m /\ c.elems \in Seq(ElemType)
      /\ c.elems # <<>> => m \in 1 .. m
      /\ c.elems = <<>> => m = 0
    BY RecsTyped, ElemsTyped DEF Range, CacheType
<1>1. r \in Range(f.recs) /\ r.off = o /\ NextOffset(r, o) = EndOf(r)
    BY ReadsRecord
<1>2. r \in Record /\ r.off \in Nat /\ r.time \in Times /\ r.time \in Nat /\ r.off + RecLen <= f.size
    BY <1>1, RecsTyped, EndAfterStart, RecordFields, LayoutOffsets
<1>3. m <= k /\ \A i \in 1 .. m : c.elems[i] = Elem(f.recs[i].time, f.recs[i].off)
    BY <1>0 DEF Prefix
<1>4. m + 1 \in 1 .. k /\ r = f.recs[m + 1]
    <2>1. CASE c.elems = <<>>
        <3>1. m = 0 /\ r.off = HdrLen
            BY <1>0, <1>1, <2>1 DEF NextUp
        <3>2. f.recs # <<>> /\ k # 0
            BY <1>0, <1>1 DEF Range
        <3>3. 1 \in 1 .. k
            BY <1>0, <3>2
        <3>4. f.recs[1].off = HdrLen /\ f.recs[1] \in Range(f.recs)
            BY <1>0, <3>3 DEF Layout
        <3>5. r = f.recs[1]
            BY <1>1, <3>1, <3>4, LayoutOffsets
        <3> QED BY <3>1, <3>3, <3>5
    <2>2. CASE c.elems # <<>>
        <3>1. m \in 1 .. m /\ m \in 1 .. k /\ r.off = EndOf(f.recs[m])
            BY <1>0, <1>1, <1>3, <2>2 DEF NextUp
        <3>2. m # k
            <4> SUFFICES ASSUME m = k PROVE FALSE
                OBVIOUS
            <4>1. f.recs # <<>> /\ LastRec(f) = f.recs[m]
                BY <1>0, <3>1 DEF LastRec
            <4>2. f.size <= r.off
                BY <3>1, <4>1 DEF Layout
            <4> QED BY <1>0, <1>2, <4>2 DEF RecLen
        <3>3. m + 1 \in 1 .. k /\ m + 1 # 1 /\ (m + 1) - 1 = m
            BY <1>0, <3>1, <3>2
        <3>4. f.recs[m + 1].off = EndOf(f.recs[m]) /\ f.recs[m + 1] \in Range(f.recs)
            BY <1>0, <3>3 DEF Layout
        <3> QED BY <1>1, <3>1, <3>3, <3>4, LayoutOffsets
    <2> QED BY <2>1, <2>2
<1>5. ~OutOfOrder(c, r.time)
    <2> SUFFICES ASSUME c.elems # <<>> PROVE ~(c.elems[m].time > r.time)
        BY DEF OutOfOrder, LastElem
    <2>1. m \in 1 .. m /\ m \in 1 .. k /\ m < m + 1
        BY <1>0, <1>3
    <2>2. c.elems[m].time = f.recs[m].time /\ f.recs[m].time \in Nat
        <3>1. f.recs[m].time \in Nat
            BY <1>0, <2>1, RecordFields
        <3>2. c.elems[m] = Elem(f.recs[m].time, f.recs[m].off)
            BY <1>3, <2>1
        <3> QED BY <3>1, <3>2 DEF Elem
    <2>3. f.recs[m].time < r.time
        BY <1>0, <1>4, <2>1 DEF Increasing
    <2> QED BY <1>2, <2>2, <2>3
<1>6. d.elems = Append(c.elems, Elem(r.time, o))
    BY <1>5 DEF cache_set, Inserted, CacheType
<1>7. Elem(r.time, o) \in ElemType
    BY <1>1, <1>2 DEF Elem, ElemType
<1> DEFINE es == Append(c.elems, Elem(r.time, o))
<1>8. /\ Len(es) = m + 1 /\ DOMAIN es = 1 .. m \cup {m + 1} /\ es # <<>>
      /\ \A i \in 1 .. m : es[i] = c.elems[i]
      /\ es[m + 1] = Elem(r.time, o)
    BY <1>0, <1>7, AppendKeeps
<1> HIDE DEF es, m, k
<1>9. \A i \in DOMAIN es : es[i] = Elem(f.recs[i].time, f.recs[i].off)
    BY <1>1, <1>3, <1>4, <1>8
<1>10. Len(es) <= k
    BY <1>0, <1>4, <1>8
<1>11. Prefix(f, d)
    BY <1>6, <1>9, <1>10 DEF Prefix, es, k
<1>12. NextUp(f, d, EndOf(r))
    BY <1>4, <1>6, <1>8 DEF NextUp, es
<1> QED BY <1>1, <1>11, <1>12

LEMMA StepKeepsPrefix ==
    ASSUME Undamaged, NoFault, RawlogInv, ClockInv, PrefixInv, [Next]_vars
    PROVE  PrefixInv'
<1>0. /\ TypeInv /\ FilledInv /\ GrowInv /\ Known \subseteq Names
      /\ cache \in [Names -> CacheType] /\ order \in Seq(Names) /\ IsInjective(order)
      /\ \A n \in Known : /\ disk[n] \in FileType /\ cache[n] \in CacheType
                          /\ Layout(disk[n]) /\ Increasing(disk[n])
                          /\ Indexed(disk[n], cache[n]) /\ Prefix(disk[n], cache[n])
    BY KnownAreNames DEF RawlogInv, GrowInv, LayoutInv, IndexedInv, ClockInv, PrefixInv, TypeInv, TypeOK,
                         IndexOK, NamesUnique
<1>1. ASSUME Environment \/ UNCHANGED vars PROVE PrefixInv'
    <2>1. UNCHANGED <<order, cache, pc, cur, off>> /\ Known' = Known
        BY <1>0, <1>1, EnvironmentType DEF serverVars, indexVars, vars, Known
    <2>2. pc = "pread" => cur \in Known /\ NextUp(disk[cur], cache[cur], off)
        BY <1>0 DEF PrefixInv, GrowInv, ResumeInv
    <2>3. ASSUME \A n \in Known : /\ Prefix(disk'[n], cache[n])
                                  /\ \A o : NextUp(disk[n], cache[n], o) => NextUp(disk'[n], cache[n], o)
          PROVE  PrefixInv'
        <3>1. pc = "pread" => NextUp(disk'[cur], cache[cur], off)
            BY <2>2, <2>3
        <3> QED BY <2>1, <2>3, <3>1 DEF PrefixInv
    <2>4. ASSUME \A n \in Names : disk'[n].recs = disk[n].recs PROVE PrefixInv'
        BY <1>0, <2>3, <2>4 DEF Prefix, NextUp
    <2>5. CASE KeepsRecords \/ UNCHANGED vars
        BY <2>4, <2>5 DEF KeepsRecords, vars, diskVars
    <2>6. ASSUME NEW n \in Names, NEW r \in Record, Writes(n, r) PROVE PrefixInv'
        <3>1. disk'[n].recs = Append(disk[n].recs, r) /\ \A m \in Names \ {n} : disk'[m] = disk[m]
            BY <2>6 DEF Writes
        <3>2. ASSUME NEW m \in Known
              PROVE  /\ Prefix(disk'[m], cache[m])
                     /\ \A o : NextUp(disk[m], cache[m], o) => NextUp(disk'[m], cache[m], o)
            <4>1. CASE m = n
                BY <1>0, <3>1, <4>1, AppendKeepsPrefix
            <4>2. CASE m # n
                BY <1>0, <3>1, <4>2
            <4> QED BY <4>1, <4>2
        <3> QED BY <2>3, <3>2
    <2> QED BY <1>0, <1>1, <2>5, <2>6, EnvironmentWrites DEF GrowInv
<1>2. ASSUME Refresh \/ Answer \/ Throttled \/ \E t \in Times : Query(t), ~Pread
      PROVE  PrefixInv'
    <2>1. UNCHANGED disk
        BY <1>0, <1>2, RefreshType, QueryType, AnswerType, ThrottledType DEF ServerType, diskVars
    <2>2. ~\E r, c : Indexes(r, c)
        BY <1>2 DEF Indexes, Refresh, Opendir, Readdir, ReaddirEnd, StatKnown, RebuildOne, ParseHeader,
                    Fstat, ParseReturns, Query, Answer, Search, OpenSeek, ReadRecord, GetSstat,
                    GetDevtstat, Throttled
    <2>3. UNCHANGED indexVars \/ Allocates \/ Stats \/ Sorts
        BY <1>0, <2>2, StepChangesIndex DEF IndexStep
    <2>4. \A n \in Known' : Prefix(disk[n], cache'[n])
        <3>1. CASE UNCHANGED indexVars
            BY <1>0, <3>1 DEF indexVars, Known
        <3>2. CASE Allocates
            <4>1. cur \in Names /\ disk[cur] \in FileType
                BY <1>0, <3>2 DEF Allocates, TypeInv, TypeOK, DiskOK, CursorOK, Busy
            <4>2. Known' = Known \cup {cur}
                BY <1>0, <3>2, <4>1, CacheAllocAdds DEF Allocates, Known
            <4>3. \A n \in Known' : cache'[n] = IF n = cur THEN NewCache ELSE cache[n]
                BY <1>0, <3>2, <4>1, <4>2 DEF Allocates
            <4>4. Prefix(disk[cur], NewCache)
                BY <4>1, RecsTyped DEF Prefix, NewCache
            <4> QED BY <1>0, <4>2, <4>3, <4>4
        <3>3. CASE Stats
            <4>1. Known' \subseteq Known
                BY <1>0, <3>3, CacheFreeRemoves DEF Stats, Known
            <4>2. \A n \in Known : cache'[n].elems = cache[n].elems
                BY <1>0, <3>3 DEF Stats
            <4> QED BY <1>0, <4>1, <4>2 DEF Prefix
        <3>4. CASE Sorts
            <4>1. Known' = Known
                BY <1>0, <3>4, RearrangementKeeps DEF Sorts, cache_sort, Known
            <4> QED BY <1>0, <3>4, <4>1 DEF Sorts
        <3> QED BY <2>3, <3>1, <3>2, <3>3, <3>4
    <2>5. ASSUME pc' = "pread" PROVE NextUp(disk[cur'], cache'[cur'], off')
        <3>1. RebuildOne \/ ParseHeader
            BY <1>2, <2>5 DEF Refresh, Opendir, Readdir, ReaddirEnd, StatKnown, Fstat, ParseReturns, Query,
                              Fallback, Lookup, Abort, Aim, Finish, Answer, Search, OpenSeek, ReadRecord,
                              GetSstat, GetDevtstat, Throttled
        <3>2. CASE ParseHeader
            <4>1. cur' = cur /\ off' = HdrLen /\ cache' = [cache EXCEPT ![cur] = NewCache] /\ cur \in Names
                BY <1>0, <2>5, <3>2, HeaderReadWhole DEF ParseHeader, ParseReturns, TypeInv, CursorOK, Busy
            <4>2. cache'[cur'] = NewCache
                BY <1>0, <4>1
            <4> QED BY <4>1, <4>2 DEF NextUp, NewCache
        <3>3. CASE RebuildOne
            <4> DEFINE f == disk[cur]
                       c == cache[cur]
                       m == Len(c.elems)
            <4>1. cur \in Known /\ c.elems # <<>>
                BY <1>0, <3>3 DEF RebuildOne, GrowInv, ResumeInv, FilledInv
            <4>2. /\ f \in FileType /\ Layout(f) /\ Prefix(f, c) /\ c \in CacheType
                  /\ m \in DOMAIN c.elems /\ m \in Nat
                BY <1>0, <4>1, ElemsTyped
            <4>3. f.recs[m] \in Range(f.recs) /\ LastElem(c) = Sample(f.recs[m])
                <5>1. Len(f.recs) \in Nat /\ m \in 1 .. m /\ m <= Len(f.recs)
                    BY <4>2, RecsTyped, ElemsTyped DEF Prefix
                <5>2. m \in DOMAIN f.recs
                    BY <4>2, <5>1, RecsTyped
                <5> QED BY <4>2, <5>2 DEF Prefix, LastElem, Sample, Range
            <4> DEFINE q == f.recs[m]
            <4>4. LastElem(c).off = q.off /\ NextOffset(q, q.off) = EndOf(q)
                BY <4>2, <4>3, SampleFields, RecsTyped, EndAfterStart
            <4>5. ResumeOffsets(c, f) = {q.off} /\ pread(f, q.off) = {q}
                BY <4>1, <4>2, <4>3, <4>4, ReadsIndexed DEF ResumeOffsets, pread, Undamaged
            <4>6. UNCHANGED <<cache, cur>>
                BY <2>5, <3>3 DEF RebuildOne, ParseReturns, indexVars
            <4> HIDE DEF f, c, q
            <4>7. off' = EndOf(q)
                BY <2>5, <3>3, <4>4, <4>5 DEF RebuildOne, ParseReturns, f, c
            <4> QED BY <4>1, <4>6, <4>7 DEF NextUp, f, c, q
        <3> QED BY <3>1, <3>2, <3>3
    <2> QED BY <2>1, <2>4, <2>5 DEF PrefixInv
<1>3. CASE Pread
    <2>1. /\ cur \in Known /\ Boundary(disk[cur], off) /\ NextUp(disk[cur], cache[cur], off)
          /\ UNCHANGED <<disk, cur, order>> /\ Known' = Known
        BY <1>0, <1>3 DEF Pread, GrowInv, ResumeInv, PrefixInv, Known, diskVars
    <2>2. CASE pc' = "fstat" /\ UNCHANGED cache
        BY <1>0, <2>1, <2>2 DEF PrefixInv
    <2>3. ASSUME NEW r \in pread(disk[cur], off), NEW d \in cache_set(cache[cur], r.time, off),
                 cache' = [cache EXCEPT ![cur] = d], off' = NextOffset(r, off)
          PROVE  PrefixInv'
        <3> DEFINE f == disk[cur]
                   b == cache[cur]
        <3>1. /\ Boundary(f, off) /\ NextUp(f, b, off) /\ f \in FileType /\ Layout(f)
              /\ Increasing(f) /\ Prefix(f, b) /\ b \in CacheType
              /\ r \in pread(f, off) /\ d \in cache_set(b, r.time, off)
            BY <1>0, <2>1
        <3> HIDE DEF f, b
        <3>2. Prefix(f, d) /\ NextUp(f, d, off')
            BY <2>3, <3>1, SetKeepsPrefix
        <3>3. \A n \in Known : cache'[n] = IF n = cur THEN d ELSE cache[n]
            BY <1>0, <2>1, <2>3
        <3>4. NextUp(disk[cur], cache[cur], off)'
            BY <2>1, <3>2, <3>3 DEF f
        <3>5. \A n \in Known : Prefix(disk[n], cache'[n])
            BY <1>0, <3>2, <3>3 DEF f
        <3> QED BY <2>1, <3>4, <3>5 DEF PrefixInv
    <2> QED BY <1>3, <2>2, <2>3 DEF Pread
<1> QED BY <1>1, <1>2, <1>3 DEF Next

(* The invariant while the clock runs forward.                              *)
ForwardInv == RawlogInv /\ SortedInv /\ SearchedInv /\ ClockInv /\ PrefixInv

LEMMA ForwardInvariant == ASSUME Undamaged, NoFault, Forward PROVE Spec => []ForwardInv
<1>1. Init => ClockInv /\ PrefixInv
    BY DEF Init, ClockInv, PrefixInv, NoFile, Increasing, NotAfter, Before, Known, Range
<1>2. Init => SortedInv /\ SearchedInv
    BY DEF Init, SortedInv, SearchedInv, NewCache, AscendingTimes
<1>3. RawlogInv /\ SortedInv /\ SearchedInv /\ [Next]_vars => SortedInv' /\ SearchedInv'
    BY StepChangesIndex, StepKeepsSorted, StepKeepsSearched DEF RawlogInv
<1>4. RawlogInv /\ ClockInv /\ PrefixInv /\ [Next]_vars => ClockInv' /\ PrefixInv'
    BY StepKeepsClock, StepKeepsPrefix DEF RawlogInv, GrowInv
<1> QED BY <1>1, <1>2, <1>3, <1>4, RawlogInvariant, PTL DEF Spec, ForwardInv

(* While the clock runs forward, every cache of the table is the first      *)
(* records of its file, in file order, each exactly once, over any number   *)
(* of passes of parse_one and rebuild_one and wherever atop's writes fall   *)
(* between their system calls.                                              *)
THEOREM IndexStaysPrefix ==
    ASSUME Undamaged, NoFault, Forward PROVE Spec => []IndexIsPrefix
<1>1. ForwardInv => IndexIsPrefix
    BY DEF ForwardInv, PrefixInv, Prefix, IndexIsPrefix
<1> QED BY <1>1, ForwardInvariant, PTL

----------------------------------------------------------------------------
(* The answer is the closest sample.                                        *)

(* Time t is what a query for ts should be answered with, from log cur.     *)
Closest(t) ==
    LET times == { e.time : e \in Range(cache[cur].elems) }
    IN  \/ /\ Covers(cache[cur], ts)
           /\ t \in times
           /\ IF TakesFirst(cache[cur])
              THEN \A u \in times : t <= u
              ELSE ts <= t /\ \A u \in times : u >= ts => t <= u
        \/ /\ \A n \in Known : ~Covers(cache[n], ts)
           /\ t <= ts
           /\ \A u \in IndexedTimes : u <= t

(* What the bisection has excluded, or its exact match.                     *)
BisectInv ==
    pc = "search" =>
        LET es == cache[cur].elems
        IN  /\ ~TakesFirst(cache[cur]) /\ Covers(cache[cur], ts)
            /\ \/ bounds.left = bounds.right /\ es[bounds.left + 1].time = ts
               \/ /\ \A i \in DOMAIN es : i <= bounds.left => es[i].time < ts
                  /\ \A i \in DOMAIN es : i > bounds.right => es[i].time > ts

(* The offset aimed at is that of a sample that is a right answer.          *)
ClosestInv ==
    /\ pc \in Answering =>
          \A e \in Range(cache[cur].elems) : e.off = off => Closest(e.time)
    /\ pc = "answered" /\ ans.status = "ok" => Closest(ans.time)

(* An offset identifies a sample of a cache.                                *)
LEMMA SameOffset ==
    ASSUME NEW f \in FileType, Layout(f), NEW c, Indexed(f, c),
           NEW d \in Range(c.elems), NEW e \in Range(c.elems), d.off = e.off
    PROVE  d = e
<1>1. PICK q \in Range(f.recs) : d = Sample(q)
    BY DEF Indexed
<1>2. PICK r \in Range(f.recs) : e = Sample(r)
    BY DEF Indexed
<1>3. q.off = r.off
    BY <1>1, <1>2, SampleFields
<1> QED BY <1>1, <1>2, <1>3, LayoutOffsets

(* It is enough to aim at one right answer.                                 *)
LEMMA AimedWell ==
    ASSUME ForwardInv', cur' \in Known', NEW e \in Range(cache'[cur'].elems), off' = e.off,
           pc' = "found", Closest(e.time)'
    PROVE  ClosestInv'
<1>1. TypeInv' /\ LayoutInv' /\ IndexedInv'
    BY DEF ForwardInv, RawlogInv, GrowInv
<1>2. disk'[cur'] \in FileType /\ Layout(disk'[cur']) /\ Indexed(disk'[cur'], cache'[cur'])
    BY <1>1 DEF TypeInv, TypeOK, DiskOK, IndexOK, LayoutInv, IndexedInv, Known, Range
<1>3. \A d \in Range(cache'[cur'].elems) : d.off = off' => d = e
    BY <1>2, SameOffset
<1> QED BY <1>3 DEF ClosestInv, Answering

LEMMA ClosestKept ==
    ASSUME NEW t, Closest(t), UNCHANGED <<order, cache, cur, ts>>
    PROVE  Closest(t)'
BY DEF Closest, Known, IndexedTimes

(* The ends of a sorted cache bound its times.                              *)
LEMMA EndsBound ==
    ASSUME NEW c \in CacheType, AscendingTimes(c.elems), NEW e \in Range(c.elems)
    PROVE  /\ c.elems # <<>>
           /\ c.elems[1] \in Range(c.elems) /\ LastElem(c) \in Range(c.elems)
           /\ e.time \in Nat /\ c.elems[1].time \in Nat /\ LastElem(c).time \in Nat
           /\ c.elems[1].time <= e.time /\ e.time <= LastElem(c).time
<1> DEFINE m == Len(c.elems)
<1>1. m \in Nat /\ DOMAIN c.elems = 1 .. m /\ \A i \in 1 .. m : c.elems[i].time \in Nat
    BY ElemsTyped
<1>2. PICK i \in 1 .. m : e = c.elems[i]
    BY <1>1 DEF Range
<1>3. c.elems # <<>> /\ 1 \in 1 .. m /\ m \in 1 .. m
    BY <1>1, <1>2
<1>4. \A j, k \in 1 .. m : j < k => c.elems[j].time <= c.elems[k].time
    BY <1>1 DEF AscendingTimes
<1>5. c.elems[1].time <= c.elems[i].time
    <2>1. i = 1 \/ 1 < i
        BY <1>1
    <2> QED BY <1>1, <1>3, <1>4, <2>1
<1>6. c.elems[i].time <= c.elems[m].time
    <2>1. i = m \/ i < m
        BY <1>1
    <2> QED BY <1>1, <1>3, <1>4, <2>1
<1> QED BY <1>1, <1>2, <1>3, <1>5, <1>6 DEF LastElem, Range

LEMMA ForwardFacts ==
    ASSUME ForwardInv, NEW n \in Known
    PROVE  /\ n \in Names /\ disk[n] \in FileType /\ cache[n] \in CacheType
           /\ Layout(disk[n]) /\ Indexed(disk[n], cache[n]) /\ AscendingTimes(cache[n].elems)
BY KnownAreNames DEF ForwardInv, RawlogInv, GrowInv, LayoutInv, IndexedInv, SortedInv

(* The last sample of the last cache of the table is the newest of all.     *)
LEMMA RecentIsNewest ==
    ASSUME ForwardInv, pc = "idle", order # <<>>, NEW u \in IndexedTimes
    PROVE  /\ cache_get_recent(order) \in Known
           /\ u <= LastElem(cache[cache_get_recent(order)]).time
           /\ LastElem(cache[cache_get_recent(order)]) \in Range(cache[cache_get_recent(order)].elems)
<1> DEFINE k == Len(order)
           n == order[k]
<1>1. /\ order \in Seq(Names) /\ k \in Nat /\ DOMAIN order = 1 .. k /\ k \in 1 .. k
      /\ cache_get_recent(order) = n
    BY DEF ForwardInv, RawlogInv, TypeInv, TypeOK, IndexOK, cache_get_recent, Last
<1>2. n \in Known /\ \A i \in 1 .. k : order[i] \in Known
    BY <1>1 DEF Known, Range
<1>3. PICK i \in 1 .. k : u \in { e.time : e \in Range(cache[order[i]].elems) }
    <2>1. PICK l \in Known : u \in { e.time : e \in Range(cache[l].elems) }
        BY DEF IndexedTimes
    <2>2. PICK i \in 1 .. k : l = order[i]
        BY <1>1 DEF Known, Range
    <2> QED BY <2>1, <2>2
<1> DEFINE m == order[i]
<1>4. PICK e \in Range(cache[m].elems) : u = e.time
    BY <1>3
<1>5. \A j \in 1 .. k : cache[order[j]].elems # <<>>
    <2>1. \A l \in Known : cache[l].elems # <<>>
        BY DEF ForwardInv, RawlogInv, FilledInv
    <2> QED BY <1>2, <2>1
<1>6. \A j \in 1 .. k : FirstTime(cache[order[j]]) = cache[order[j]].elems[1].time
    BY <1>5 DEF FirstTime
<1>7. /\ cache[n].elems # <<>>
      /\ n \in Names /\ cache[n] \in CacheType /\ AscendingTimes(cache[n].elems)
      /\ m \in Names /\ cache[m] \in CacheType /\ AscendingTimes(cache[m].elems)
    BY <1>1, <1>2, <1>5, ForwardFacts
<1>8. cache[n].elems[1] \in Range(cache[n].elems)
    BY <1>7, ElemsTyped DEF Range
<1>9. /\ LastElem(cache[n]) \in Range(cache[n].elems) /\ LastElem(cache[n]).time \in Nat
      /\ cache[n].elems[1].time \in Nat /\ cache[n].elems[1].time <= LastElem(cache[n]).time
    BY <1>7, <1>8, EndsBound
<1>10. /\ e.time \in Nat /\ cache[m].elems[1].time \in Nat /\ cache[m].elems[1] \in Range(cache[m].elems)
       /\ cache[m].elems[1].time <= e.time
    BY <1>7, EndsBound
<1>11. CASE m = n
    <2>1. e.time <= LastElem(cache[n]).time
        BY <1>7, <1>11, EndsBound
    <2> QED BY <1>1, <1>2, <1>4, <1>9, <2>1
<1>12. CASE m # n
    <2>1. i < k
        BY <1>1, <1>12
    <2>2. cache[m].elems[1].time <= cache[n].elems[1].time
        BY <1>1, <1>6, <2>1 DEF ForwardInv, SearchedInv, OrderedByFirst
    <2>3. /\ Indexed(disk[m], cache[m]) /\ Indexed(disk[n], cache[n])
        BY <1>2, ForwardFacts
    <2>4. PICK p \in Range(disk[m].recs) : cache[m].elems[1] = Sample(p)
        BY <1>10, <2>3 DEF Indexed
    <2>5. PICK q \in Range(disk[n].recs) : cache[n].elems[1] = Sample(q)
        BY <1>8, <2>3 DEF Indexed
    <2>6. PICK r \in Range(disk[m].recs) : e = Sample(r)
        BY <2>3 DEF Indexed
    <2>7. p.time = cache[m].elems[1].time /\ q.time = cache[n].elems[1].time /\ r.time = e.time
        BY <2>4, <2>5, <2>6, SampleFields
    <2>8. ~Before(disk[n], disk[m])
        <3> SUFFICES ASSUME Before(disk[n], disk[m]) PROVE FALSE
            OBVIOUS
        <3>1. q.time < p.time
            BY DEF Before
        <3> QED BY <1>9, <1>10, <2>2, <2>7, <3>1
    <2>9. Before(disk[m], disk[n])
        BY <1>7, <1>12, <2>8 DEF ForwardInv, ClockInv
    <2>10. e.time < cache[n].elems[1].time
        BY <2>7, <2>9 DEF Before
    <2>11. e.time <= LastElem(cache[n]).time
        BY <1>9, <1>10, <2>10
    <2> QED BY <1>1, <1>2, <1>4, <1>9, <2>11
<1> QED BY <1>11, <1>12

LEMMA QueryClosest ==
    ASSUME ForwardInv, ForwardInv', NEW t \in Times, Query(t)
    PROVE  ClosestInv' /\ BisectInv'
<1>0. /\ UNCHANGED <<order, cache>> /\ Known' = Known /\ pc = "idle" /\ ts' = t /\ t \in Nat
      /\ order \in Seq(Names)
    BY TimesAssumption DEF Query, indexVars, Known, ForwardInv, RawlogInv, TypeInv, TypeOK, IndexOK
<1>1. \A n \in Known : cache[n].elems # <<>>
    BY <1>0 DEF ForwardInv, RawlogInv, FilledInv
<1>2. ASSUME pc' # "search" PROVE BisectInv'
    BY <1>2 DEF BisectInv
<1>3. ASSUME Finish("error") \/ Abort PROVE ClosestInv' /\ BisectInv'
    BY <1>3 DEF Finish, Abort, ClosestInv, BisectInv, Answering
<1>4. CASE ScanStops(order, cache, t) = {} /\ Fallback(t)
    <2> DEFINE n == cache_get_recent(order)
               e == LastElem(cache[n])
    <2>1. CASE ~TooEarly(t) /\ cur' = n /\ Aim(e.off)
        <3>1. order # <<>> /\ ~(t < e.time)
            BY <2>1 DEF TooEarly
        <3>2. n \in Known
            BY <1>0, <3>1 DEF cache_get_recent, Last, Known, Range
        <3>3. cache[n].elems # <<>> /\ cache[n] \in CacheType
            BY <1>1, <3>2, ForwardFacts
        <3>4. e \in Range(cache[n].elems) /\ e.time \in Nat
            BY <3>3, ElemsTyped DEF LastElem, Range
        <3>5. \A u \in IndexedTimes : u <= e.time
            BY <1>0, <3>1, RecentIsNewest
        <3>6. \A m \in Known : ~Covers(cache[m], t)
            BY <1>4 DEF ScanStops, Known, Range
        <3> HIDE DEF e, n
        <3>7. PICK d \in Range(cache[n].elems) : d = e
            BY <3>4
        <3>8. IndexedTimes' = IndexedTimes
            BY <1>0 DEF IndexedTimes
        <3>9. d.time <= t
            BY <1>0, <3>1, <3>4, <3>7
        <3>10. Closest(d.time)'
            BY <1>0, <3>5, <3>6, <3>7, <3>8, <3>9 DEF Closest
        <3>11. pc' = "found" /\ off' = d.off /\ cur' = n /\ d \in Range(cache'[cur'].elems) /\ cur' \in Known'
            BY <1>0, <2>1, <3>2, <3>7 DEF Aim
        <3> QED BY <1>2, <3>10, <3>11, AimedWell
    <2> QED BY <1>3, <1>4, <2>1 DEF Fallback
<1>5. ASSUME NEW i \in ScanStops(order, cache, t), cache[order[i]].elems # <<>>, Lookup(order[i])
      PROVE  ClosestInv' /\ BisectInv'
    <2> DEFINE n == order[i]
    <2>1. n \in Known /\ Covers(cache[n], t) /\ cur' = n
        BY <1>5 DEF ScanStops, Known, Range, Lookup
    <2>2. /\ cache[n] \in CacheType /\ cache[n].elems # <<>> /\ AscendingTimes(cache[n].elems)
          /\ DOMAIN cache[n].elems = 1 .. Len(cache[n].elems) /\ Len(cache[n].elems) \in Nat
        BY <1>1, <2>1, ForwardFacts, ElemsTyped
    <2>3. CASE TakesFirst(cache[n]) /\ Aim(cache[n].elems[1].off)
        <3>1. cache[n].elems[1] \in Range(cache[n].elems)
            BY <2>2, ElemsTyped DEF Range
        <3>2. PICK d \in Range(cache[n].elems) : d = cache[n].elems[1]
            BY <3>1
        <3>3. \A e \in Range(cache[n].elems) : d.time <= e.time
            BY <2>2, <3>2, EndsBound
        <3> HIDE DEF n
        <3>4. Closest(d.time)'
            BY <1>0, <2>1, <2>3, <3>2, <3>3 DEF Closest, TakesFirst, Covers, LastElem
        <3>5. pc' = "found" /\ off' = d.off /\ d \in Range(cache'[cur'].elems) /\ cur' \in Known'
            BY <1>0, <2>1, <2>3, <3>2 DEF Aim
        <3> QED BY <1>2, <3>4, <3>5, AimedWell
    <2>4. CASE ~TakesFirst(cache[n]) /\ pc' = "search" /\ bounds' = AllOf(cache[n].elems)
        <3>1. bounds'.left = 0 /\ bounds'.right = Len(cache[n].elems)
            BY <2>4 DEF AllOf
        <3> DEFINE es == cache[n].elems
        <3>2. /\ \A j \in DOMAIN es : j <= bounds'.left => es[j].time < t
              /\ \A j \in DOMAIN es : j > bounds'.right => es[j].time > t
            BY <2>2, <3>1
        <3>3. cache'[cur'] = cache[n] /\ cache'[cur'].elems = es
            BY <1>0, <2>1
        <3> HIDE DEF n, es
        <3>4. BisectInv'
            BY <1>0, <2>1, <2>4, <3>2, <3>3 DEF BisectInv, TakesFirst, Covers, LastElem
        <3>5. ClosestInv'
            BY <2>4 DEF ClosestInv, Answering
        <3> QED BY <3>4, <3>5
    <2> QED BY <1>5, <2>3, <2>4 DEF Lookup
<1> QED BY <1>3, <1>4, <1>5 DEF Query

(* One turn of the bisection excludes only wrong elements.                  *)
LEMMA ProbeExcludes ==
    ASSUME ForwardInv, BisectInv, pc = "search", ~Narrowed(bounds), cur \in Known,
           bounds' = Probe(cache[cur].elems, ts, bounds),
           UNCHANGED <<order, cache, pc, cur, ts>>
    PROVE  BisectInv'
<1> DEFINE es  == cache[cur].elems
           mid == Mid(bounds)
           n   == Len(es)
           l   == bounds.left
           h   == bounds.right
<1>1. /\ n \in Nat /\ DOMAIN es = 1 .. n /\ \A i \in 1 .. n : es[i].time \in Nat
      /\ \A i, j \in 1 .. n : i < j => es[i].time <= es[j].time
    BY ForwardFacts, ElemsTyped DEF AscendingTimes
<1>2. /\ bounds \in [left : Nat, right : Nat] /\ l \in Nat /\ h \in Nat /\ ts \in Nat
      /\ l < h /\ h <= n
    BY DEF ForwardInv, RawlogInv, TypeInv, TypeOK, ThreadOK, SearchOK, Narrowed
<1>3. mid \in Nat /\ l <= mid /\ mid < h
    BY <1>2 DEF Mid
<1>4. /\ ~TakesFirst(cache[cur]) /\ Covers(cache[cur], ts)
      /\ \A i \in 1 .. n : i <= l => es[i].time < ts
      /\ \A i \in 1 .. n : i > h => es[i].time > ts
    BY <1>1, <1>2 DEF BisectInv
<1>5. mid + 1 \in 1 .. n
    BY <1>1, <1>2, <1>3
<1>6. es[mid + 1].time \in Nat
    BY <1>1, <1>5
<1>7. (~TakesFirst(cache[cur]) /\ Covers(cache[cur], ts))' /\ cache'[cur'].elems = es
    BY <1>4
<1>8. ASSUME \/ bounds'.left = bounds'.right /\ es[bounds'.left + 1].time = ts
             \/ /\ \A i \in 1 .. n : i <= bounds'.left => es[i].time < ts
                /\ \A i \in 1 .. n : i > bounds'.right => es[i].time > ts
      PROVE  BisectInv'
    BY <1>1, <1>7, <1>8 DEF BisectInv
<1> HIDE DEF es, mid, n, l, h
<1>9. CASE ts = es[mid + 1].time
    <2>1. bounds' = [left |-> mid, right |-> mid]
        BY <1>2, <1>6, <1>9 DEF Probe, es, mid
    <2> QED BY <1>8, <1>9, <2>1
<1>10. CASE ts < es[mid + 1].time
    <2>1. bounds' = [bounds EXCEPT !.right = mid]
        BY <1>2, <1>6, <1>10 DEF Probe, es, mid
    <2>2. bounds'.left = l /\ bounds'.right = mid
        BY <1>2, <2>1 DEF l
    <2>3. ASSUME NEW i \in 1 .. n, i > mid PROVE es[i].time > ts
        <3>1. i = mid + 1 \/ mid + 1 < i
            BY <1>1, <1>3, <2>3
        <3>2. es[mid + 1].time <= es[i].time
            BY <1>1, <1>5, <1>6, <3>1
        <3>3. es[i].time \in Nat
            BY <1>1
        <3> QED BY <1>2, <1>6, <1>10, <3>2, <3>3
    <2> QED BY <1>4, <1>8, <2>2, <2>3
<1>11. CASE ts > es[mid + 1].time
    <2>1. bounds' = [bounds EXCEPT !.left = mid + 1]
        BY <1>2, <1>6, <1>11 DEF Probe, es, mid
    <2>2. bounds'.left = mid + 1 /\ bounds'.right = h
        BY <1>2, <2>1 DEF h
    <2>3. ASSUME NEW i \in 1 .. n, i <= mid + 1 PROVE es[i].time < ts
        <3>1. i = mid + 1 \/ i < mid + 1
            BY <1>1, <1>3, <2>3
        <3>2. es[i].time <= es[mid + 1].time
            BY <1>1, <1>5, <1>6, <3>1
        <3>3. es[i].time \in Nat
            BY <1>1
        <3> QED BY <1>2, <1>6, <1>11, <3>2, <3>3
    <2> QED BY <1>4, <1>8, <2>2, <2>3
<1> QED BY <1>2, <1>6, <1>9, <1>10, <1>11

(* The element it ends on is the first that is not earlier.                 *)
LEMMA HitIsClosest ==
    ASSUME ForwardInv, BisectInv, pc = "search", Narrowed(bounds), cur \in Known
    PROVE  /\ Hit(cache[cur].elems, bounds) \in Range(cache[cur].elems)
           /\ Closest(Hit(cache[cur].elems, bounds).time)
<1> DEFINE es == cache[cur].elems
           n  == Len(es)
           l  == bounds.left
           e  == es[l + 1]
<1>1. /\ n \in Nat /\ DOMAIN es = 1 .. n /\ \A i \in 1 .. n : es[i].time \in Nat
      /\ \A i, j \in 1 .. n : i < j => es[i].time <= es[j].time
    BY ForwardFacts, ElemsTyped DEF AscendingTimes
<1>2. l \in Nat /\ bounds.right = l /\ l < n /\ ts \in Nat
    BY DEF ForwardInv, RawlogInv, TypeInv, TypeOK, ThreadOK, SearchOK, Narrowed
<1>3. l + 1 \in 1 .. n /\ e.time \in Nat
    BY <1>1, <1>2
<1>4. ~TakesFirst(cache[cur]) /\ Covers(cache[cur], ts)
    BY DEF BisectInv
<1>5. \/ e.time = ts
      \/ /\ \A i \in 1 .. n : i <= l => es[i].time < ts
         /\ \A i \in 1 .. n : i > l => es[i].time > ts
    BY <1>1, <1>2 DEF BisectInv
<1> HIDE DEF n, l, e
<1>6. ts <= e.time
    <2>1. l + 1 > l
        BY <1>2
    <2>2. e.time = ts \/ e.time > ts
        BY <1>3, <1>5, <2>1 DEF e
    <2> QED BY <1>2, <1>3, <2>2
<1>7. ASSUME NEW i \in 1 .. n, es[i].time >= ts PROVE e.time <= es[i].time
    <2>1. es[i].time \in Nat
        BY <1>1
    <2>2. CASE e.time = ts
        BY <1>2, <1>7, <2>1, <2>2
    <2>3. CASE \A j \in 1 .. n : j <= l => es[j].time < ts
        <3>1. ~(i <= l)
            BY <1>2, <1>7, <2>1, <2>3
        <3>2. i = l + 1 \/ l + 1 < i
            BY <1>1, <1>2, <3>1
        <3> QED BY <1>1, <1>3, <3>2 DEF e
    <2> QED BY <1>5, <2>2, <2>3
<1>8. e \in Range(es) /\ Hit(es, bounds) = e
    BY <1>1, <1>3 DEF Range, Hit, e, l
<1>9. \A d \in Range(es) : d.time >= ts => e.time <= d.time
    BY <1>1, <1>7 DEF Range
<1>10. Closest(e.time)
    BY <1>4, <1>6, <1>8, <1>9 DEF Closest
<1> QED BY <1>8, <1>10

LEMMA StepKeepsClosest ==
    ASSUME ForwardInv, ForwardInv', BisectInv, ClosestInv, [Next]_vars
    PROVE  BisectInv' /\ ClosestInv'
<1>0. TypeInv /\ GrowInv
    BY DEF ForwardInv, RawlogInv
<1>1. ASSUME UNCHANGED <<order, cache, pc, cur, off, bounds, ts, ans>> PROVE BisectInv' /\ ClosestInv'
    BY <1>1 DEF BisectInv, ClosestInv, Closest, TakesFirst, Covers, LastElem, IndexedTimes, Known
<1>2. CASE Environment \/ UNCHANGED vars
    BY <1>0, <1>1, <1>2, EnvironmentType DEF serverVars, vars, indexVars, queryVars
<1>3. CASE Refresh \/ Throttled
    <2>1. pc' \notin Answering \cup {"search", "answered"}
        BY <1>3 DEF Refresh, Opendir, Readdir, ReaddirEnd, StatKnown, RebuildOne, ParseHeader,
                    Pread, Fstat, ParseReturns, Throttled, Answering
    <2> QED BY <2>1 DEF BisectInv, ClosestInv
<1>4. ASSUME NEW t \in Times, Query(t) PROVE BisectInv' /\ ClosestInv'
    BY <1>4, QueryClosest
<1>5. CASE Answer
    <2>1. /\ UNCHANGED <<order, cache, cur, ts>> /\ Known' = Known
          /\ pc \in Answering \cup {"search"} /\ cur \in Known
        BY <1>0, <1>5 DEF Answer, Search, OpenSeek, ReadRecord, GetSstat, GetDevtstat, indexVars, Known,
                          Answering, GrowInv, AimInv
    <2>2. ASSUME pc' # "search" PROVE BisectInv'
        BY <2>2 DEF BisectInv
    <2>3. ASSUME NEW st \in {"error", "silent"}, Finish(st) PROVE BisectInv' /\ ClosestInv'
        BY <2>3 DEF Finish, BisectInv, ClosestInv, Answering
    <2>4. ASSUME pc \in Answering, pc' \in Answering, UNCHANGED off PROVE BisectInv' /\ ClosestInv'
        <3>1. \A e \in Range(cache[cur].elems) : e.off = off => Closest(e.time)
            BY <2>4 DEF ClosestInv
        <3>2. \A e \in Range(cache[cur].elems) : e.off = off => Closest(e.time)'
            BY <2>1, <3>1, ClosestKept
        <3> QED BY <2>1, <2>2, <2>4, <3>2 DEF ClosestInv, Answering
    <2>5. CASE Search
        <3>1. CASE ~Narrowed(bounds) /\ bounds' = Probe(cache[cur].elems, ts, bounds) /\ UNCHANGED pc
            <4>1. pc = "search"
                BY <2>5 DEF Search
            <4>2. BisectInv'
                BY <2>1, <3>1, <4>1, ProbeExcludes
            <4> QED BY <3>1, <4>1, <4>2 DEF ClosestInv, Answering
        <3>2. CASE Narrowed(bounds) /\ Aim(Hit(cache[cur].elems, bounds).off)
            <4>1. PICK e \in Range(cache[cur].elems) :
                        e = Hit(cache[cur].elems, bounds) /\ Closest(e.time)
                BY <2>1, <2>5, <3>2, HitIsClosest DEF Search
            <4>2. Closest(e.time)'
                BY <2>1, <4>1, ClosestKept
            <4>3. pc' = "found" /\ off' = e.off /\ e \in Range(cache'[cur'].elems) /\ cur' \in Known'
                BY <2>1, <3>2, <4>1 DEF Aim
            <4> QED BY <2>2, <4>2, <4>3, AimedWell
        <3> QED BY <2>5, <3>1, <3>2 DEF Search
    <2>6. CASE OpenSeek \/ ReadRecord \/ GetSstat
        BY <2>3, <2>4, <2>6 DEF OpenSeek, ReadRecord, GetSstat, Answering
    <2>7. CASE GetDevtstat
        <3>1. CASE Finish("ok")
            <4>1. pc = "devtstat" /\ pc' = "answered" /\ ans'.time = rr.time
                BY <2>7, <3>1 DEF GetDevtstat, Finish
            <4>2. PICK e \in Range(cache[cur].elems) : e.off = off /\ rr.time = e.time
                BY <1>0, <4>1 DEF GrowInv, AimInv, Answering
            <4>3. Closest(e.time)
                BY <4>1, <4>2 DEF ClosestInv, Answering
            <4>4. Closest(e.time)'
                BY <2>1, <4>3, ClosestKept
            <4>5. Closest(ans.time)'
                BY <4>1, <4>2, <4>4
            <4> QED BY <4>1, <4>5 DEF ClosestInv, BisectInv, Answering
        <3> QED BY <2>3, <2>7, <3>1 DEF GetDevtstat
    <2> QED BY <1>5, <2>5, <2>6, <2>7 DEF Answer
<1> QED BY <1>2, <1>3, <1>4, <1>5 DEF Next

(* While the clock runs forward, the sample served is the right one: the    *)
(* first at or after the time asked for in the log that covers it (the      *)
(* first of a log with at most two), else the newest of all.  It is read    *)
(* from the file several steps after the index was searched, while atop     *)
(* writes on and logs are unlinked, and the bisection is correct on caches  *)
(* of any length.                                                           *)
THEOREM AnswerStaysClosest ==
    ASSUME Undamaged, NoFault, Forward PROVE Spec => []AnswerIsClosest
<1>1. Init => BisectInv /\ ClosestInv
    BY DEF Init, BisectInv, ClosestInv, Answering
<1>2. ForwardInv /\ ForwardInv' /\ BisectInv /\ ClosestInv /\ [Next]_vars => BisectInv' /\ ClosestInv'
    BY StepKeepsClosest
<1>3. ClosestInv => AnswerIsClosest
    BY DEF ClosestInv, Closest, AnswerIsClosest
<1> QED BY <1>1, <1>2, <1>3, ForwardInvariant, PTL DEF Spec
=============================================================================
