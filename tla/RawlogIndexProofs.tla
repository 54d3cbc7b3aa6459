-------------------------- MODULE RawlogIndexProofs --------------------------
(****************************************************************************)
(* Proofs about what Rawlog indexes and serves, for logs that atop only     *)
(* appends to: any files, times, block lengths and number of records, and   *)
(* every interleaving of the writer with the passes and the queries.        *)
(****************************************************************************)
EXTENDS RawlogProofs

(* No log is emptied in place or left with a fragment, and the disk reads.  *)
Undamaged == Events \cap {"truncate", "crash", "eio"} = {}

(* atop's clock is never set back.                                          *)
Forward == "clockback" \notin Events

----------------------------------------------------------------------------
(* The layout of a log.                                                     *)

(* Records follow the header and each other without a gap; only the last    *)
(* one may still lack a block.                                              *)
Layout(f) ==
    /\ \A i, j \in DOMAIN f.recs : i < j => EndOf(f.recs[i]) <= f.recs[j].off
    /\ \A i \in DOMAIN f.recs :
          f.recs[i].off = IF i = 1 THEN HdrLen ELSE EndOf(f.recs[i - 1])
    /\ f.recs # <<>> => LastRec(f).off + RecLen <= f.size /\ f.size <= EndOf(LastRec(f))
    /\ f.recs = <<>> => f.size <= HdrLen
    /\ f.recs # <<>> => f.hdr = "good"
    /\ f.hdr = "good" => HdrLen <= f.size

LayoutInv == \A n \in Names : Layout(disk[n])

LEMMA RecsTyped ==
    ASSUME NEW f \in FileType
    PROVE  /\ f.recs \in Seq(Record) /\ f.size \in Nat
           /\ Len(f.recs) \in Nat /\ DOMAIN f.recs = 1 .. Len(f.recs)
           /\ \A i \in DOMAIN f.recs : f.recs[i] \in Record
           /\ Range(f.recs) \subseteq Record
           /\ f.recs # <<>> => Len(f.recs) \in DOMAIN f.recs /\ LastRec(f) = f.recs[Len(f.recs)]
<1>1. f.recs \in Seq(Record) /\ f.size \in Nat
    BY DEF FileType
<1>2. /\ Len(f.recs) \in Nat /\ DOMAIN f.recs = 1 .. Len(f.recs)
      /\ \A i \in DOMAIN f.recs : f.recs[i] \in Record
      /\ f.recs # <<>> => Len(f.recs) # 0
    BY <1>1
<1>3. Range(f.recs) \subseteq Record
    BY <1>2 DEF Range
<1> QED BY <1>1, <1>2, <1>3 DEF LastRec

LEMMA EndAfterStart ==
    ASSUME NEW r \in Record
    PROVE  r.off \in Nat /\ EndOf(r) \in Nat /\ r.off + RecLen < EndOf(r) /\ NextOffset(r, r.off) = EndOf(r)
BY RecordFields DEF EndOf, NextOffset, RecLen

(* Two records of a log are the same or do not overlap, and the rawrecord   *)
(* of each is written.                                                      *)
LEMMA LayoutOffsets ==
    ASSUME NEW f \in FileType, Layout(f), NEW q \in Range(f.recs), NEW r \in Range(f.recs)
    PROVE  /\ q.off = r.off => q = r
           /\ q.off < r.off => EndOf(q) <= r.off
           /\ HdrLen <= r.off
           /\ r.off + RecLen <= f.size
<1> DEFINE k == Len(f.recs)
<1>0. /\ k \in Nat /\ DOMAIN f.recs = 1 .. k /\ f.size \in Nat
      /\ \A i \in 1 .. k : f.recs[i] \in Record
    BY RecsTyped
<1>1. PICK i \in 1 .. k : q = f.recs[i]
    BY <1>0 DEF Range
<1>2. PICK j \in 1 .. k : r = f.recs[j]
    BY <1>0 DEF Range
<1>3. /\ q.off \in Nat /\ EndOf(q) \in Nat /\ q.off + RecLen < EndOf(q)
      /\ r.off \in Nat /\ EndOf(r) \in Nat /\ r.off + RecLen < EndOf(r)
    BY <1>0, <1>1, <1>2, EndAfterStart
<1>4. i < j => EndOf(q) <= r.off
    BY <1>0, <1>1, <1>2 DEF Layout
<1>5. j < i => EndOf(r) <= q.off
    BY <1>0, <1>1, <1>2 DEF Layout
<1>6. i = j => q = r
    BY <1>1, <1>2
<1>7. i < j \/ j < i \/ i = j
    BY <1>0
<1>8. (q.off = r.off => q = r) /\ (q.off < r.off => EndOf(q) <= r.off)
    <2> QED BY <1>3, <1>4, <1>5, <1>6, <1>7 DEF RecLen
<1>9. HdrLen <= r.off
    <2>1. CASE j = 1
        BY <1>0, <1>2, <2>1 DEF Layout, HdrLen
    <2>2. CASE j # 1
        <3>1. 1 \in 1 .. k /\ 1 < j
            BY <1>0, <2>2
        <3>2. EndOf(f.recs[1]) <= r.off /\ f.recs[1].off = HdrLen /\ f.recs[1] \in Record
            BY <1>0, <1>2, <3>1 DEF Layout
        <3>3. HdrLen + RecLen < EndOf(f.recs[1]) /\ EndOf(f.recs[1]) \in Nat
            BY <3>2, EndAfterStart
        <3> QED BY <1>3, <3>2, <3>3 DEF HdrLen, RecLen
    <2> QED BY <2>1, <2>2
<1>10. r.off + RecLen <= f.size
    <2>1. f.recs # <<>> /\ k \in 1 .. k
        BY <1>0, <1>2
    <2>2. f.recs[k].off + RecLen <= f.size /\ f.recs[k] \in Record
        BY <1>0, <2>1 DEF Layout, LastRec
    <2>3. f.recs[k].off \in Nat
        BY <2>2, EndAfterStart
    <2>4. CASE j = k
        BY <1>2, <2>2, <2>4
    <2>5. CASE j # k
        <3>1. EndOf(r) <= f.recs[k].off
            BY <1>0, <1>2, <2>1, <2>5 DEF Layout
        <3>2. f.recs[k].off < f.size
            BY <1>0, <2>2, <2>3 DEF RecLen
        <3> QED BY <1>0, <1>3, <2>3, <3>1, <3>2 DEF RecLen
    <2> QED BY <2>4, <2>5
<1> QED BY <1>8, <1>9, <1>10

(* When nothing of the last record is missing, the file ends with it.       *)
LEMMA CompleteSize ==
    ASSUME NEW f \in FileType, Layout(f), Complete(f), f.hdr = "good"
    PROVE  /\ f.recs = <<>> => f.size = HdrLen
           /\ f.recs # <<>> => f.size = EndOf(LastRec(f))
           /\ HdrLen <= f.size
           /\ \A r \in Range(f.recs) : EndOf(r) <= f.size
<1>0. f.size \in Nat
    BY RecsTyped
<1>1. f.recs = <<>> => f.size = HdrLen
    BY <1>0 DEF Layout, HdrLen
<1>2. f.recs # <<>> => f.size = EndOf(LastRec(f))
    <2> SUFFICES ASSUME f.recs # <<>> PROVE f.size = EndOf(LastRec(f))
        OBVIOUS
    <2>1. LastRec(f) \in Record
        BY RecsTyped
    <2>2. EndOf(LastRec(f)) \in Nat
        BY <2>1, EndAfterStart
    <2> QED BY <1>0, <2>2 DEF Layout, Complete
<1>3. ASSUME NEW r \in Range(f.recs) PROVE EndOf(r) <= f.size
    <2> DEFINE k == Len(f.recs)
    <2>1. PICK i \in DOMAIN f.recs : r = f.recs[i]
        BY <1>3 DEF Range
    <2>2. /\ k \in Nat /\ DOMAIN f.recs = 1 .. k /\ f.recs # <<>> /\ k \in 1 .. k
          /\ LastRec(f) = f.recs[k] /\ LastRec(f) \in Record /\ r \in Record
        BY <2>1, RecsTyped
    <2>3. CASE i = k
        BY <1>0, <1>2, <2>1, <2>2, <2>3
    <2>4. CASE i # k
        <3>1. EndOf(r) <= LastRec(f).off
            BY <2>1, <2>2, <2>4 DEF Layout
        <3>2. /\ EndOf(r) \in Nat /\ LastRec(f).off \in Nat /\ EndOf(LastRec(f)) \in Nat
              /\ LastRec(f).off + RecLen < EndOf(LastRec(f))
            BY <2>2, EndAfterStart
        <3> QED BY <1>0, <1>2, <2>2, <3>1, <3>2 DEF RecLen
    <2> QED BY <2>3, <2>4
<1> QED BY <1>1, <1>2, <1>3 DEF Layout

(* Where a read of a rawrecord may start: after the header or a record.     *)
Boundary(f, o) == o = HdrLen \/ \E r \in Range(f.recs) : o = EndOf(r)

(* Unless the file ends there, a record starts at every boundary.           *)
LEMMA RecordAtBoundary ==
    ASSUME NEW f \in FileType, Layout(f), NEW o, Boundary(f, o)
    PROVE  o \in Nat /\ (o + RecLen <= f.size => \E q \in Range(f.recs) : q.off = o)
<1> DEFINE k == Len(f.recs)
<1>0. /\ k \in Nat /\ DOMAIN f.recs = 1 .. k /\ f.size \in Nat /\ f.recs \in Seq(Record)
      /\ \A i \in 1 .. k : f.recs[i] \in Record
      /\ f.recs # <<>> => k \in 1 .. k
    BY RecsTyped
<1>1. o \in Nat
    BY RecsTyped, EndAfterStart DEF Boundary, HdrLen
<1> SUFFICES ASSUME o + RecLen <= f.size PROVE \E q \in Range(f.recs) : q.off = o
    BY <1>1
<1>2. CASE o = HdrLen
    <2>1. f.recs # <<>>
        BY <1>0, <1>2 DEF Layout, HdrLen, RecLen
    <2>2. 1 \in 1 .. k
        BY <1>0, <2>1
    <2>3. f.recs[1].off = HdrLen /\ f.recs[1] \in Range(f.recs)
        BY <1>0, <2>2 DEF Layout, Range
    <2> QED BY <1>2, <2>3
<1>3. ASSUME NEW q \in Range(f.recs), o = EndOf(q)
      PROVE  \E p \in Range(f.recs) : p.off = o
    <2>1. PICK i \in 1 .. k : q = f.recs[i]
        BY <1>0, <1>3 DEF Range
    <2>2. i # k
        <3> SUFFICES ASSUME i = k PROVE FALSE
            OBVIOUS
        <3>1. f.recs # <<>> /\ LastRec(f) = q
            BY <1>0, <2>1, RecsTyped
        <3>2. f.size <= o
            BY <1>3, <3>1 DEF Layout
        <3> QED BY <1>0, <1>1, <3>2 DEF RecLen
    <2>3. i + 1 \in 1 .. k /\ i + 1 # 1 /\ (i + 1) - 1 = i
        BY <1>0, <2>2
    <2>4. f.recs[i + 1].off = EndOf(f.recs[i])
        BY <1>0, <2>3 DEF Layout
    <2>5. f.recs[i + 1] \in Range(f.recs)
        BY <1>0, <2>3 DEF Range
    <2> QED BY <1>3, <2>1, <2>4, <2>5
<1> QED BY <1>2, <1>3 DEF Boundary

(* A read at a boundary delivers the record that starts there; it never     *)
(* sees bytes that are no rawrecord.                                        *)
LEMMA ReadsRecord ==
    ASSUME Undamaged, NEW f \in FileType, Layout(f), NEW o, Boundary(f, o),
           NEW r \in pread(f, o)
    PROVE  r \in Range(f.recs) /\ r.off = o /\ NextOffset(r, o) = EndOf(r)
<1>1. r \in ReadAt(f, o)
    BY DEF pread, Undamaged
<1>2. o \in Nat /\ f.size \in Nat
    BY RecordAtBoundary, RecsTyped
<1>3. ~(f.size < o + RecLen)
    BY <1>1 DEF ReadAt
<1>4. \E q \in Range(f.recs) : q.off = o
    BY <1>2, <1>3, RecordAtBoundary DEF RecLen
<1>5. r \in Range(f.recs) /\ r.off = o
    BY <1>1, <1>3, <1>4 DEF ReadAt
<1>6. r \in Record
    BY <1>5, RecsTyped
<1> QED BY <1>5, <1>6, EndAfterStart

(* A short read at a boundary means that every record starts before it.     *)
LEMMA ShortReadIsEnd ==
    ASSUME NEW f \in FileType, Layout(f), NEW o, Boundary(f, o), pread(f, o) = {},
           NEW r \in Range(f.recs)
    PROVE  r.off < o
<1>1. o \in Nat /\ f.size \in Nat /\ r.off \in Nat
    BY RecordAtBoundary, RecsTyped, EndAfterStart
<1>2. r.off + RecLen <= f.size
    BY LayoutOffsets
<1> SUFFICES ASSUME o <= r.off PROVE FALSE
    BY <1>1
<1>3. o + RecLen <= f.size /\ ~(f.size < o + RecLen)
    BY <1>1, <1>2 DEF RecLen
<1>4. PICK q \in Range(f.recs) : q.off = o
    BY <1>3, RecordAtBoundary
<1>5. q \in ReadAt(f, o)
    BY <1>3, <1>4 DEF ReadAt
<1> QED BY <1>5 DEF pread

(* Reading at the offset of a record delivers that record.                  *)
LEMMA ReadsIndexed ==
    ASSUME NEW f \in FileType, Layout(f), NEW r \in Range(f.recs)
    PROVE  ReadAt(f, r.off) = {r}
<1>1. r.off \in Nat /\ f.size \in Nat /\ r.off + RecLen <= f.size
    BY LayoutOffsets, RecsTyped, EndAfterStart
<1>2. \A q \in Range(f.recs) : q.off = r.off => q = r
    BY LayoutOffsets
<1>3. ~(f.size < r.off + RecLen)
    BY <1>1 DEF RecLen
<1> QED BY <1>2, <1>3 DEF ReadAt

(* Appending a record right at the end of a complete log keeps the layout.  *)
LEMMA LayoutAppend ==
    ASSUME NEW f \in FileType, Layout(f), Complete(f), f.hdr = "good",
           NEW r \in Record, r.off = f.size,
           NEW g, g.recs = Append(f.recs, r), g.size = f.size + RecLen, g.hdr = f.hdr
    PROVE  Layout(g)
<1> DEFINE k == Len(f.recs)
           rs == Append(f.recs, r)
<1>0. /\ k \in Nat /\ DOMAIN f.recs = 1 .. k /\ f.size \in Nat /\ f.recs \in Seq(Record)
      /\ \A i \in 1 .. k : f.recs[i] \in Record
      /\ f.recs # <<>> => k \in 1 .. k /\ LastRec(f) = f.recs[k]
      /\ f.recs = <<>> => k = 0
    BY RecsTyped
<1>1. /\ rs \in Seq(Record) /\ Len(rs) = k + 1 /\ rs[k + 1] = r /\ DOMAIN rs = 1 .. k \cup {k + 1}
      /\ \A i \in 1 .. k : rs[i] = f.recs[i]
    BY <1>0, AppendKeeps
<1>2. /\ f.recs = <<>> => f.size = HdrLen
      /\ f.recs # <<>> => f.size = EndOf(f.recs[k])
      /\ HdrLen <= f.size
      /\ \A q \in Range(f.recs) : EndOf(q) <= f.size
    BY <1>0, CompleteSize
<1>3. \A i \in 1 .. k : EndOf(f.recs[i]) <= r.off
    BY <1>0, <1>2 DEF Range
<1>4. g.recs = rs /\ LastRec(g) = r /\ rs # <<>>
    BY <1>0, <1>1 DEF LastRec
<1> HIDE DEF rs, k
<1>5. \A i, j \in DOMAIN rs : i < j => EndOf(rs[i]) <= rs[j].off
    <2> SUFFICES ASSUME NEW i \in DOMAIN rs, NEW j \in DOMAIN rs, i < j
                 PROVE  EndOf(rs[i]) <= rs[j].off
        OBVIOUS
    <2>1. i \in 1 .. k
        BY <1>0, <1>1
    <2>2. CASE j \in 1 .. k
        BY <1>0, <1>1, <2>1, <2>2 DEF Layout
    <2>3. CASE j = k + 1
        BY <1>1, <1>3, <2>1, <2>3
    <2> QED BY <1>1, <2>2, <2>3
<1>6. \A i \in DOMAIN rs : rs[i].off = IF i = 1 THEN HdrLen ELSE EndOf(rs[i - 1])
    <2> SUFFICES ASSUME NEW i \in DOMAIN rs
                 PROVE  rs[i].off = IF i = 1 THEN HdrLen ELSE EndOf(rs[i - 1])
        OBVIOUS
    <2>1. CASE i \in 1 .. k
        <3>1. rs[i] = f.recs[i] /\ f.recs[i].off = IF i = 1 THEN HdrLen ELSE EndOf(f.recs[i - 1])
            BY <1>0, <1>1, <2>1 DEF Layout
        <3>2. i # 1 => i - 1 \in 1 .. k
            BY <1>0, <2>1
        <3> QED BY <1>1, <3>1, <3>2
    <2>2. CASE i = k + 1
        <3>1. rs[i].off = f.size
            BY <1>1, <2>2
        <3>2. CASE f.recs = <<>>
            BY <1>0, <1>2, <2>2, <3>1, <3>2
        <3>3. CASE f.recs # <<>>
            <4>1. i # 1 /\ i - 1 = k /\ k \in 1 .. k
                BY <1>0, <2>2, <3>3
            <4> QED BY <1>1, <1>2, <3>1, <3>3, <4>1
        <3> QED BY <3>2, <3>3
    <2> QED BY <1>1, <2>1, <2>2
<1>7. r.off + RecLen <= g.size /\ g.size <= EndOf(r)
    BY <1>0, EndAfterStart DEF RecLen
<1>8. HdrLen <= g.size
    BY <1>0, <1>2 DEF HdrLen, RecLen
<1> QED BY <1>4, <1>5, <1>6, <1>7, <1>8 DEF Layout

----------------------------------------------------------------------------
(* What the writer and the administrator may do to the logs.                *)

(* atop appends record r to n, the log it writes.                           *)
Writes(n, r) ==
    /\ current = n /\ current' = n
    /\ disk[n].hdr = "good" /\ Complete(disk[n]) /\ r.off = disk[n].size
    /\ disk'[n].recs = Append(disk[n].recs, r)
    /\ \A m \in Names \ {n} : disk'[m] = disk[m]
    /\ r.time > clock \/ "clockback" \in Events
    /\ clock' = r.time

(* No record comes or goes; the next log to be written is a new one.        *)
KeepsRecords ==
    /\ \A n \in Names : disk'[n].recs = disk[n].recs
    /\ current' = current \/ (current' \in Names /\ disk[current'].recs = <<>>)
    /\ clock' = clock

LEMMA EnvironmentWrites ==
    ASSUME Undamaged, TypeInv, LayoutInv, Environment
    PROVE  LayoutInv' /\ (KeepsRecords \/ \E n \in Names, r \in Record : Writes(n, r))
<1> DEFINE Goal == LayoutInv' /\ (KeepsRecords \/ \E n \in Names, r \in Record : Writes(n, r))
<1> SUFFICES Goal
    OBVIOUS
<1> HIDE DEF Goal
<1>0. /\ disk \in [Names -> FileType] /\ current \in Names \cup {NoName}
      /\ \A n \in Names : Layout(disk[n])
    BY DEF TypeInv, TypeOK, DiskOK, LayoutInv
<1>a. ASSUME NEW n \in Names, NEW g, disk' = [disk EXCEPT ![n] = g], Layout(g),
             g.recs = disk[n].recs, clock' = clock,
             current' = current \/ (current' \in Names /\ disk[current'].recs = <<>>)
      PROVE  Goal
    <2>1. LayoutInv'
        BY <1>0, <1>a DEF LayoutInv
    <2>2. KeepsRecords
        BY <1>0, <1>a DEF KeepsRecords
    <2> QED BY <2>1, <2>2 DEF Goal
<1>b. \A f \in FileType : Layout(f) => f.size \in Nat /\ f.recs \in Seq(Record)
    BY DEF FileType
<1>1. ASSUME NEW n \in Names, Rotate(n) PROVE Goal
    <2> DEFINE g == [disk[n] EXCEPT !.linked = TRUE]
    <2>1. disk' = [disk EXCEPT ![n] = g] /\ current' = n /\ clock' = clock /\ disk[n].recs = <<>>
        BY <1>0, <1>1 DEF Rotate, NoFile
    <2>2. g.recs = disk[n].recs /\ g.size = disk[n].size /\ g.hdr = disk[n].hdr
        BY <1>0 DEF FileType
    <2>3. Layout(g)
        BY <1>0, <2>2 DEF Layout, LastRec
    <2> HIDE DEF g
    <2> QED BY <1>a, <2>1, <2>2, <2>3
<1>2. ASSUME NEW n \in Names, Unlink(n) PROVE Goal
    <2> DEFINE g == [disk[n] EXCEPT !.linked = FALSE]
    <2>1. disk' = [disk EXCEPT ![n] = g] /\ current' = current /\ clock' = clock
        BY <1>0, <1>2 DEF Unlink
    <2>2. g.recs = disk[n].recs /\ g.size = disk[n].size /\ g.hdr = disk[n].hdr
        BY <1>0 DEF FileType
    <2>3. Layout(g)
        BY <1>0, <2>2 DEF Layout, LastRec
    <2> HIDE DEF g
    <2> QED BY <1>a, <2>1, <2>2, <2>3
<1>3. ASSUME NEW n \in Names, Foreign(n) PROVE Goal
    <2> DEFINE g == [disk[n] EXCEPT !.linked = TRUE, !.hdr = "bad", !.size = HdrLen]
    <2>1. disk' = [disk EXCEPT ![n] = g] /\ current' = current /\ clock' = clock
          /\ disk[n].recs = <<>>
        BY <1>0, <1>3 DEF Foreign, NoFile
    <2>2. g.recs = disk[n].recs /\ g.size = HdrLen /\ g.hdr = "bad"
        BY <1>0 DEF FileType
    <2>3. Layout(g)
        BY <2>1, <2>2 DEF Layout, HdrLen
    <2> HIDE DEF g
    <2> QED BY <1>a, <2>1, <2>2, <2>3
<1>4. CASE WriteHeader
    <2> DEFINE g == [disk[current] EXCEPT !.hdr = "good", !.size = HdrLen]
    <2>1. /\ current \in Names /\ disk' = [disk EXCEPT ![current] = g]
          /\ current' = current /\ clock' = clock
        BY <1>0, <1>4 DEF WriteHeader
    <2>2. g.recs = disk[current].recs /\ g.size = HdrLen /\ g.hdr = "good"
        BY <1>0, <2>1 DEF FileType
    <2>3. disk[current].recs = <<>>
        BY <1>0, <1>4, <2>1 DEF WriteHeader, Layout
    <2>4. Layout(g)
        BY <2>2, <2>3 DEF Layout, HdrLen
    <2> HIDE DEF g
    <2> QED BY <1>a, <2>1, <2>2, <2>4
<1>5. ASSUME NEW t \in Times, NEW s \in Lens, NEW p \in Lens, WriteRecord(t, s, p)
      PROVE  Goal
    <2> DEFINE r == [time |-> t, off |-> disk[current].size, scomplen |-> s, pcomplen |-> p]
               f == disk[current]
               g == [f EXCEPT !.recs = Append(f.recs, r), !.size = f.size + RecLen]
    <2>1. current \in Names /\ f \in FileType /\ Layout(f) /\ f.hdr = "good"
        BY <1>0, <1>5 DEF WriteRecord
    <2>2. Complete(f)
        BY <1>5 DEF WriteRecord, MayStart, Undamaged
    <2>3. r \in Record /\ r.off = f.size /\ r.time = t
        BY <2>1 DEF Record, FileType
    <2>4. disk' = [disk EXCEPT ![current] = g] /\ current' = current /\ clock' = t
          /\ (t > clock \/ "clockback" \in Events)
        BY <1>0, <1>5, <2>1 DEF WriteRecord
    <2>5. g.recs = Append(f.recs, r) /\ g.size = f.size + RecLen /\ g.hdr = f.hdr
        BY <2>1 DEF FileType
    <2> HIDE DEF r, g
    <2>6. Layout(g)
        BY <2>1, <2>2, <2>3, <2>5, LayoutAppend
    <2>7. LayoutInv'
        BY <1>0, <2>1, <2>4, <2>6 DEF LayoutInv
    <2>8. Writes(current, r)
        BY <1>0, <2>1, <2>2, <2>3, <2>4, <2>5 DEF Writes
    <2> QED BY <2>1, <2>3, <2>7, <2>8 DEF Goal
<1>6. CASE WriteBlock
    <2> DEFINE f == disk[current]
               r == LastRec(f)
               z == IF f.size = r.off + RecLen THEN f.size + r.scomplen ELSE EndOf(r)
               g == [f EXCEPT !.size = z]
    <2>1. current \in Names /\ f \in FileType /\ Layout(f) /\ f.recs # <<>> /\ f.size \in Nat
        BY <1>0, <1>6, <1>b DEF WriteBlock, Complete
    <2>2. r \in Record
        BY <2>1, RecsTyped
    <2>3. disk' = [disk EXCEPT ![current] = g] /\ current' = current /\ clock' = clock
        BY <1>0, <1>6, <2>1 DEF WriteBlock
    <2>4. g.recs = f.recs /\ g.size = z /\ g.hdr = f.hdr /\ LastRec(g) = r
        BY <2>1 DEF FileType, LastRec
    <2> HIDE DEF r, g
    <2>5. /\ r.off \in Nat /\ r.scomplen \in Nat /\ r.pcomplen \in Nat
          /\ EndOf(r) = r.off + RecLen + r.scomplen + r.pcomplen
        BY <2>2, RecordFields DEF EndOf
    <2>6. r.off + RecLen <= z /\ z <= EndOf(r)
        BY <2>1, <2>5 DEF RecLen
    <2>7. HdrLen <= r.off
        BY <2>1, LayoutOffsets, RecsTyped DEF Range, r
    <2>8. HdrLen <= z /\ z \in Nat
        BY <2>1, <2>5, <2>6, <2>7 DEF RecLen, HdrLen
    <2> HIDE DEF z
    <2>9. Layout(g)
        BY <2>1, <2>4, <2>6, <2>8 DEF Layout
    <2> QED BY <1>a, <2>1, <2>3, <2>4, <2>9
<1>7. ~Truncate
    BY DEF Truncate, Undamaged
<1> QED BY <1>1, <1>2, <1>3, <1>4, <1>5, <1>6, <1>7 DEF Environment

----------------------------------------------------------------------------
(* What the index holds.                                                    *)

Sample(r) == Elem(r.time, r.off)

(* A cache holds samples of its file only, and with each of them all that   *)
(* lie before it in the file.                                               *)
Indexed(f, c) ==
    /\ \A e \in Range(c.elems) : \E r \in Range(f.recs) : e = Sample(r)
    /\ \A e \in Range(c.elems), r \in Range(f.recs) :
          r.off <= e.off => Sample(r) \in Range(c.elems)

(* The records before offset o are indexed.                                 *)
Passed(f, c, o) ==
    \A r \in Range(f.recs) : r.off < o => Sample(r) \in Range(c.elems)

IndexedInv == \A n \in Known : Indexed(disk[n], cache[n])

(* The read loop is at a record boundary and has left nothing behind.       *)
ResumeInv ==
    /\ pc \in {"rebuild", "pread", "fstat"} => cur \in Known
    /\ pc = "pread" => /\ Boundary(disk[cur], off)
                       /\ Passed(disk[cur], cache[cur], off)

Answering == {"found", "record", "sstat", "devtstat"}

(* A query reads at the offset of an indexed sample, and reads its record.  *)
AimInv ==
    /\ pc \in Answering \cup {"search"} => cur \in Known
    /\ pc \in Answering =>
          \E e \in Range(cache[cur].elems) :
             /\ e.off = off
             /\ pc \in {"sstat", "devtstat"} => rr.time = e.time

GrowInv == LayoutInv /\ IndexedInv /\ ResumeInv /\ AimInv

LEMMA KnownAreNames ==
    ASSUME TypeInv
    PROVE  /\ Known \subseteq Names
           /\ \A n \in Known : disk[n] \in FileType /\ cache[n] \in CacheType
BY DEF TypeInv, TypeOK, IndexOK, DiskOK, Known, Range

LEMMA SampleFields == \A r : Sample(r).time = r.time /\ Sample(r).off = r.off
BY DEF Sample, Elem

(* The writer's next record lies behind everything indexed or read.         *)
LEMMA AppendKeepsIndexed ==
    ASSUME NEW f \in FileType, NEW g, NEW c, NEW r \in Record,
           Range(g.recs) = Range(f.recs) \cup {r}, HdrLen <= r.off,
           \A q \in Range(f.recs) : EndOf(q) <= r.off
    PROVE  /\ Indexed(f, c) => Indexed(g, c)
           /\ \A o : Boundary(f, o) /\ Passed(f, c, o) => Boundary(g, o) /\ Passed(g, c, o)
<1>0. r.off \in Nat
    BY EndAfterStart
<1>1. \A q \in Range(f.recs) : q.off \in Nat /\ EndOf(q) \in Nat /\ q.off < r.off
    BY <1>0, RecsTyped, EndAfterStart DEF RecLen
<1>2. ASSUME Indexed(f, c) PROVE Indexed(g, c)
    <2>1. \A e \in Range(c.elems) : \E q \in Range(f.recs) : e = Sample(q)
        BY <1>2 DEF Indexed
    <2>2. \A e \in Range(c.elems) : ~(r.off <= e.off)
        BY <1>0, <1>1, <2>1, SampleFields
    <2> QED BY <1>2, <2>1, <2>2 DEF Indexed
<1>3. ASSUME NEW o, Boundary(f, o), Passed(f, c, o) PROVE Boundary(g, o) /\ Passed(g, c, o)
    <2>1. o <= r.off /\ o \in Nat
        BY <1>1, <1>3 DEF Boundary, HdrLen
    <2>2. ~(r.off < o)
        BY <1>0, <2>1
    <2> QED BY <1>3, <2>2 DEF Boundary, Passed
<1> QED BY <1>2, <1>3

LEMMA EnvironmentKeepsIndexed ==
    ASSUME Undamaged, TypeInv, GrowInv, Environment
    PROVE  GrowInv'
<1>1. LayoutInv' /\ (KeepsRecords \/ \E n \in Names, r \in Record : Writes(n, r))
    BY EnvironmentWrites DEF GrowInv
<1>2. /\ UNCHANGED <<order, cache, pc, cur, off, rr>> /\ Known' = Known
      /\ Known \subseteq Names /\ \A n \in Known : disk[n] \in FileType
    BY EnvironmentType, KnownAreNames DEF serverVars, indexVars, queryVars, Known
<1>3. AimInv'
    BY <1>2 DEF GrowInv, AimInv
<1>4. ASSUME \A n \in Known : /\ Indexed(disk[n], cache[n]) => Indexed(disk'[n], cache[n])
                              /\ \A o : Boundary(disk[n], o) /\ Passed(disk[n], cache[n], o) =>
                                        Boundary(disk'[n], o) /\ Passed(disk'[n], cache[n], o)
      PROVE  GrowInv'
    <2>1. IndexedInv'
        BY <1>2, <1>4 DEF GrowInv, IndexedInv
    <2>2. ResumeInv'
        <3>1. pc = "pread" => /\ Boundary(disk'[cur], off)
                              /\ Passed(disk'[cur], cache[cur], off)
            BY <1>4 DEF GrowInv, ResumeInv
        <3>2. pc \in {"rebuild", "pread", "fstat"} => cur \in Known
            BY DEF GrowInv, ResumeInv
        <3> QED BY <1>2, <3>1, <3>2 DEF ResumeInv
    <2> QED BY <1>1, <1>3, <2>1, <2>2 DEF GrowInv
<1>5. CASE KeepsRecords
    BY <1>2, <1>4, <1>5 DEF KeepsRecords, Indexed, Boundary, Passed
<1>6. ASSUME NEW n \in Names, NEW r \in Record, Writes(n, r) PROVE GrowInv'
    <2>1. disk[n] \in FileType /\ Layout(disk[n])
        BY DEF TypeInv, TypeOK, DiskOK, GrowInv, LayoutInv
    <2>2. Range(disk'[n].recs) = Range(disk[n].recs) \cup {r}
        BY <1>6, <2>1, AppendKeeps, RecsTyped DEF Writes
    <2>3. HdrLen <= r.off /\ \A q \in Range(disk[n].recs) : EndOf(q) <= r.off
        BY <1>6, <2>1, CompleteSize DEF Writes
    <2>4. \A c : /\ Indexed(disk[n], c) => Indexed(disk'[n], c)
                 /\ \A o : Boundary(disk[n], o) /\ Passed(disk[n], c, o) =>
                           Boundary(disk'[n], o) /\ Passed(disk'[n], c, o)
        BY <2>1, <2>2, <2>3, AppendKeepsIndexed
    <2>5. \A m \in Known \ {n} : disk'[m] = disk[m]
        BY <1>2, <1>6 DEF Writes
    <2> QED BY <1>4, <2>4, <2>5
<1> QED BY <1>1, <1>5, <1>6

(* Indexing the record the loop has arrived at.                             *)
LEMMA SetKeepsIndexed ==
    ASSUME Undamaged, NEW f \in FileType, Layout(f), NEW c \in CacheType,
           Len(c.elems) <= c.max_elems, Indexed(f, c),
           NEW o, Boundary(f, o), Passed(f, c, o),
           NEW r \in pread(f, o), NEW d \in cache_set(c, r.time, o)
    PROVE  /\ Indexed(f, d)
           /\ Boundary(f, NextOffset(r, o))
           /\ Passed(f, d, NextOffset(r, o))
           /\ r \in Range(f.recs)
           /\ Range(d.elems) = Range(c.elems) \cup {Sample(r)}
<1>1. r \in Range(f.recs) /\ r.off = o /\ NextOffset(r, o) = EndOf(r)
    BY ReadsRecord
<1>2. r \in Record /\ r.time \in Times /\ o \in Nat /\ EndOf(r) \in Nat /\ o + RecLen < EndOf(r)
    BY <1>1, RecsTyped, RecordFields, EndAfterStart
<1>3. Range(d.elems) = Range(c.elems) \cup {Sample(r)}
    <2>1. Range(d.elems) = Range(c.elems) \cup {Elem(r.time, o)}
        <3> DEFINE t == r.time
        <3>1. t \in Times /\ o \in Nat /\ d \in cache_set(c, t, o)
            BY <1>2
        <3> HIDE DEF t
        <3>2. Range(d.elems) = Range(c.elems) \cup {Elem(t, o)}
            BY <3>1, CacheSetAdds
        <3> QED BY <3>2 DEF t
    <2> QED BY <1>1, <2>1 DEF Sample
<1>4. \A q \in Range(f.recs) : /\ q.off \in Nat
                               /\ q.off = o => q = r
                               /\ o < q.off => EndOf(r) <= q.off
    BY <1>1, RecsTyped, EndAfterStart, LayoutOffsets
<1>5. \A q \in Range(f.recs) : q.off <= o => Sample(q) \in Range(d.elems)
    BY <1>2, <1>3, <1>4 DEF Passed
<1>6. Indexed(f, d)
    <2>1. \A e \in Range(d.elems) : \E q \in Range(f.recs) : e = Sample(q)
        BY <1>1, <1>3 DEF Indexed
    <2>2. \A e \in Range(d.elems), q \in Range(f.recs) :
             q.off <= e.off => Sample(q) \in Range(d.elems)
        BY <1>1, <1>3, <1>5, SampleFields DEF Indexed
    <2> QED BY <2>1, <2>2 DEF Indexed
<1>7. Boundary(f, EndOf(r))
    BY <1>1 DEF Boundary
<1>8. Passed(f, d, EndOf(r))
    <2>1. \A q \in Range(f.recs) : q.off < EndOf(r) => q.off <= o
        BY <1>2, <1>4
    <2> QED BY <1>5, <2>1 DEF Passed
<1> QED BY <1>1, <1>3, <1>6, <1>7, <1>8

(* The server's steps keep what is indexed.                                 *)
LEMMA IndexStepKeepsIndexed ==
    ASSUME Undamaged, TypeInv, GrowInv, IndexStep, UNCHANGED disk
    PROVE  IndexedInv'
<1>0. /\ Known \subseteq Names /\ cache \in [Names -> CacheType] /\ order \in Seq(Names)
      /\ \A n \in Known : disk[n] \in FileType /\ Layout(disk[n]) /\ Indexed(disk[n], cache[n])
    BY KnownAreNames DEF TypeInv, TypeOK, IndexOK, GrowInv, LayoutInv, IndexedInv
<1>1. CASE UNCHANGED indexVars
    BY <1>1 DEF GrowInv, IndexedInv, indexVars, Known
<1>2. ASSUME NEW r, NEW c, Indexes(r, c) PROVE IndexedInv'
    <2>1. cur \in Known /\ Boundary(disk[cur], off) /\ Passed(disk[cur], cache[cur], off)
        BY <1>2 DEF Indexes, GrowInv, ResumeInv
    <2>2. Len(cache[cur].elems) <= cache[cur].max_elems
        BY <1>0, <2>1 DEF TypeInv, TypeOK, IndexOK
    <2>3. Indexed(disk[cur], c)
        BY <1>0, <1>2, <2>1, <2>2, SetKeepsIndexed DEF Indexes
    <2>4. Known' = Known /\ \A n \in Known : cache'[n] = IF n = cur THEN c ELSE cache[n]
        BY <1>0, <1>2, <2>1 DEF Indexes, Known
    <2> QED BY <1>0, <2>3, <2>4 DEF IndexedInv
<1>3. CASE Allocates
    <2>1. cur \in Names
        BY <1>3 DEF Allocates, TypeInv, CursorOK, Busy
    <2>2. Known' = Known \cup {cur}
        BY <1>0, <1>3, <2>1, CacheAllocAdds DEF Allocates, TypeInv, NamesUnique, Known
    <2>3. \A n \in Known' : cache'[n] = IF n = cur THEN NewCache ELSE cache[n]
        BY <1>0, <1>3, <2>1, <2>2 DEF Allocates
    <2>4. \A f : Indexed(f, NewCache)
        BY DEF Indexed, NewCache, Range
    <2> QED BY <1>0, <2>2, <2>3, <2>4 DEF IndexedInv
<1>4. CASE Stats
    <2>1. Known' \subseteq Known
        BY <1>0, <1>4, CacheFreeRemoves DEF Stats, TypeInv, NamesUnique, Known
    <2>2. \A n \in Known : cache'[n].elems = cache[n].elems
        BY <1>0, <1>4 DEF Stats
    <2> QED BY <1>0, <2>1, <2>2 DEF IndexedInv, Indexed
<1>5. CASE Sorts
    <2>1. Known' = Known
        BY <1>0, <1>5, RearrangementKeeps DEF Sorts, cache_sort, Known
    <2> QED BY <1>0, <1>5, <2>1 DEF IndexedInv, Sorts
<1> QED BY <1>1, <1>2, <1>3, <1>4, <1>5 DEF IndexStep

(* When the disk reads, a header that is taken for good was read.           *)
LEMMA HeaderReadWhole ==
    ASSUME Undamaged, NEW f PROVE HeaderEnds(f) \subseteq {HdrLen}
  BY DEF HeaderEnds, HeaderReadFails, Undamaged

(* The read loop starts on a boundary and goes from one to the next.        *)
LEMMA RefreshKeepsResume ==
    ASSUME Undamaged, NoFault, TypeInv, FilledInv, GrowInv, Refresh, UNCHANGED disk
    PROVE  ResumeInv'
<1>0. /\ Known \subseteq Names /\ cache \in [Names -> CacheType] /\ order \in Seq(Names)
      /\ disk \in [Names -> FileType]
      /\ \A n \in Known : disk[n] \in FileType /\ Layout(disk[n]) /\ Indexed(disk[n], cache[n])
    BY KnownAreNames DEF TypeInv, TypeOK, IndexOK, DiskOK, GrowInv, LayoutInv, IndexedInv
<1>1. ASSUME pc' \in {"readdir", "parse", "idle", "exited"} PROVE ResumeInv'
    BY <1>1 DEF ResumeInv
<1>2. CASE Opendir \/ ReaddirEnd \/ Fstat \/ \E n \in Names : Readdir(n)
    BY <1>1, <1>2 DEF Opendir, ReaddirEnd, Fstat, Readdir, ParseReturns
<1>3. CASE StatKnown
    <2>1. CASE ParseReturns
        BY <1>1, <2>1 DEF ParseReturns
    <2>2. CASE pc' = "rebuild" /\ UNCHANGED cur
        BY <1>3, <2>2 DEF StatKnown, ResumeInv, indexVars, cache_find, Known
    <2> QED BY <1>3, <2>1, <2>2 DEF StatKnown
<1>4. CASE RebuildOne
    <2> DEFINE f == disk[cur]
               c == cache[cur]
    <2>1. cur \in Known /\ c.elems # <<>> /\ UNCHANGED <<order, cache>>
        BY <1>4 DEF RebuildOne, GrowInv, ResumeInv, FilledInv, indexVars
    <2>2. f \in FileType /\ Layout(f) /\ Indexed(f, c) /\ c \in CacheType
        BY <1>0, <2>1
    <2>3. LastElem(c) \in Range(c.elems)
        BY <2>1, <2>2, ElemsTyped DEF LastElem, Range
    <2>4. PICK q \in Range(f.recs) : LastElem(c) = Sample(q)
        BY <2>2, <2>3 DEF Indexed
    <2>5. LastElem(c).off = q.off /\ q \in Record /\ q.off \in Nat /\ EndOf(q) \in Nat
          /\ NextOffset(q, q.off) = EndOf(q)
        BY <2>2, <2>4, SampleFields, RecsTyped, EndAfterStart
    <2>6. ResumeOffsets(c, f) = {q.off}
        BY <2>1, <2>5 DEF ResumeOffsets
    <2>7. pread(f, q.off) = {q}
        BY <2>2, ReadsIndexed DEF pread, Undamaged
    <2>8. CASE ParseReturns
        BY <1>1, <2>8 DEF ParseReturns
    <2>9. CASE off' = EndOf(q) /\ pc' = "pread" /\ UNCHANGED cur
        <3>1. Boundary(f, EndOf(q))
            BY DEF Boundary
        <3>2. Passed(f, c, EndOf(q))
            <4> SUFFICES ASSUME NEW r \in Range(f.recs), r.off < EndOf(q)
                         PROVE  Sample(r) \in Range(c.elems)
                BY DEF Passed
            <4>1. r.off \in Nat /\ (q.off < r.off => EndOf(q) <= r.off)
                BY <2>2, RecsTyped, EndAfterStart, LayoutOffsets
            <4>2. r.off <= q.off
                BY <2>5, <4>1
            <4> QED BY <2>2, <2>3, <2>5, <4>2 DEF Indexed
        <3> QED BY <2>1, <2>9, <3>1, <3>2 DEF ResumeInv, Known
    <2> HIDE DEF f, c
    <2>10. ParseReturns \/ (off' = EndOf(q) /\ pc' = "pread" /\ UNCHANGED cur)
        BY <1>4, <2>5, <2>6, <2>7 DEF RebuildOne, f, c
    <2> QED BY <2>8, <2>9, <2>10
<1>5. CASE ParseHeader
    <2>1. CASE ParseReturns
        BY <1>1, <2>1 DEF ParseReturns
    <2>2. CASE /\ order' = cache_alloc(order, cur)
               /\ pc' = "pread" /\ off' = HdrLen /\ UNCHANGED cur
        <3>1. cur \in Names /\ disk[cur] \in FileType /\ Layout(disk[cur])
            BY <1>0, <1>5 DEF ParseHeader, TypeInv, CursorOK, Busy, GrowInv, LayoutInv
        <3>2. cur \in Known'
            BY <1>0, <1>5, <2>2, <3>1, CacheAllocAdds DEF ParseHeader, TypeInv, NamesUnique, Known
        <3>3. \A r \in Range(disk[cur].recs) : ~(r.off < HdrLen)
            BY <3>1, LayoutOffsets, RecsTyped, EndAfterStart DEF HdrLen
        <3> QED BY <2>2, <3>2, <3>3 DEF ResumeInv, Boundary, Passed
    <2> QED BY <1>5, <2>1, <2>2, HeaderReadWhole DEF ParseHeader
<1>6. CASE Pread
    <2>1. /\ cur \in Known /\ Boundary(disk[cur], off) /\ Passed(disk[cur], cache[cur], off)
          /\ UNCHANGED <<cur, order>> /\ Known' = Known
        BY <1>6 DEF Pread, GrowInv, ResumeInv, Known
    <2>2. CASE pc' = "fstat"
        BY <2>1, <2>2 DEF ResumeInv
    <2>3. ASSUME NEW r \in pread(disk[cur], off), NEW c \in cache_set(cache[cur], r.time, off),
                 cache' = [cache EXCEPT ![cur] = c], off' = NextOffset(r, off), UNCHANGED pc
          PROVE  ResumeInv'
        <3>1. Len(cache[cur].elems) <= cache[cur].max_elems /\ cache[cur] \in CacheType
            BY <1>0, <2>1 DEF TypeInv, TypeOK, IndexOK
        <3>2. Boundary(disk[cur], off') /\ Passed(disk[cur], c, off')
            BY <1>0, <2>1, <2>3, <3>1, SetKeepsIndexed
        <3>3. cache'[cur] = c
            BY <1>0, <2>1, <2>3
        <3>4. Boundary(disk[cur], off)' /\ Passed(disk[cur], cache[cur], off)'
            BY <2>1, <3>2, <3>3
        <3> QED BY <2>1, <3>4 DEF ResumeInv
    <2> QED BY <1>6, <2>2, <2>3 DEF Pread
<1> QED BY <1>2, <1>3, <1>4, <1>5, <1>6 DEF Refresh

(* The offset a query aims at is that of an indexed sample.                 *)
LEMMA QueryKeepsAim ==
    ASSUME TypeInv, FilledInv, NEW t \in Times, Query(t)
    PROVE  AimInv'
<1>0. /\ cache \in [Names -> CacheType] /\ order \in Seq(Names)
      /\ UNCHANGED <<order, cache>> /\ Known' = Known /\ pc = "idle"
      /\ \A n \in Known : cache[n] \in CacheType
    BY KnownAreNames DEF Query, indexVars, TypeInv, TypeOK, IndexOK, Known
<1>1. \A n \in Known : cache[n].elems # <<>>
    BY <1>0 DEF FilledInv
<1>2. ASSUME NEW n \in Known, cur' = n, pc' = "found",
             NEW i \in 1 .. Len(cache[n].elems), off' = cache[n].elems[i].off
      PROVE  AimInv'
    <2>1. cache[n].elems[i] \in Range(cache[n].elems)
        BY <1>0, <1>2, ElemsTyped DEF Range
    <2> QED BY <1>0, <1>2, <2>1 DEF AimInv, Answering
<1>3. ASSUME pc' \in {"answered", "aborted"} PROVE AimInv'
    BY <1>3 DEF AimInv, Answering
<1>4. CASE Fallback(t)
    <2>1. CASE Finish("error")
        BY <1>3, <2>1 DEF Finish
    <2>2. CASE ~TooEarly(t) /\ cur' = cache_get_recent(order)
               /\ Aim(LastElem(cache[cache_get_recent(order)]).off)
        <3>1. order # <<>>
            BY <2>2 DEF TooEarly
        <3>2. cache_get_recent(order) \in Known
            BY <1>0, <3>1 DEF cache_get_recent, Last, Known, Range
        <3> DEFINE n == cache_get_recent(order)
        <3> HIDE DEF n
        <3>3. Len(cache[n].elems) \in 1 .. Len(cache[n].elems)
            BY <1>0, <1>1, <3>2, ElemsTyped DEF n
        <3> QED BY <1>2, <2>2, <3>2, <3>3 DEF Aim, LastElem, n
    <2> QED BY <1>4, <2>1, <2>2 DEF Fallback
<1>5. ASSUME NEW i \in ScanStops(order, cache, t), Lookup(order[i]) PROVE AimInv'
    <2>1. order[i] \in Known
        BY DEF ScanStops, Known, Range
    <2> DEFINE n == order[i]
    <2> HIDE DEF n
    <2>2. Len(cache[n].elems) \in Nat /\ cache[n].elems # <<>> /\ Len(cache[n].elems) \in 1 .. Len(cache[n].elems)
        BY <1>0, <1>1, <2>1, ElemsTyped DEF n
    <2>3. CASE Aim(cache[n].elems[1].off)
        <3>1. 1 \in 1 .. Len(cache[n].elems)
            BY <2>2
        <3> QED BY <1>2, <1>5, <2>1, <2>3, <3>1 DEF Aim, Lookup, n
    <2>4. CASE pc' = "search"
        BY <1>0, <1>5, <2>1, <2>4 DEF AimInv, Answering, Lookup
    <2> QED BY <1>5, <2>3, <2>4 DEF Lookup, n
<1>6. CASE Abort \/ Finish("error")
    BY <1>3, <1>6 DEF Abort, Finish
<1> QED BY <1>4, <1>5, <1>6 DEF Query

(* What is read there is the record of that sample.                         *)
LEMMA AnswerKeepsAim ==
    ASSUME TypeInv, GrowInv, Answer
    PROVE  AimInv'
<1>0. /\ UNCHANGED <<disk, order, cache, cur>> /\ Known' = Known
      /\ Known \subseteq Names
      /\ \A n \in Known : disk[n] \in FileType /\ Layout(disk[n]) /\ Indexed(disk[n], cache[n])
                          /\ cache[n] \in CacheType
    BY KnownAreNames DEF Answer, Search, OpenSeek, ReadRecord, GetSstat, GetDevtstat, diskVars, indexVars,
                         Known, GrowInv, LayoutInv, IndexedInv
<1>1. /\ pc \in Answering \cup {"search"} /\ cur \in Known
      /\ pc \in Answering =>
            \E e \in Range(cache[cur].elems) :
               e.off = off /\ (pc \in {"sstat", "devtstat"} => rr.time = e.time)
    BY DEF Answer, Search, OpenSeek, ReadRecord, GetSstat, GetDevtstat, Answering, GrowInv, AimInv
<1>2. ASSUME pc' = "answered" PROVE AimInv'
    BY <1>2 DEF AimInv, Answering
<1>3. ASSUME NEW st, Finish(st) PROVE AimInv'
    BY <1>2, <1>3 DEF Finish
<1>4. CASE Search
    <2>1. CASE UNCHANGED pc
        BY <1>0, <1>1, <1>4, <2>1 DEF AimInv, Answering, Search
    <2>2. CASE Aim(Hit(cache[cur].elems, bounds).off)
        <3>1. bounds.left \in Nat /\ bounds.left < Len(cache[cur].elems)
            BY <1>4 DEF Search, TypeInv, TypeOK, SearchOK, ThreadOK
        <3>2. /\ Len(cache[cur].elems) \in Nat
              /\ DOMAIN cache[cur].elems = 1 .. Len(cache[cur].elems)
            BY <1>0, <1>1, ElemsTyped
        <3>3. bounds.left + 1 \in DOMAIN cache[cur].elems
            BY <3>1, <3>2
        <3>4. Hit(cache[cur].elems, bounds) \in Range(cache[cur].elems)
            BY <3>3 DEF Hit, Range
        <3> QED BY <1>0, <1>1, <2>2, <3>4 DEF Aim, AimInv, Answering
    <2> QED BY <1>4, <2>1, <2>2 DEF Search
<1>5. CASE OpenSeek
    <2>1. CASE pc = "found" /\ pc' = "record" /\ UNCHANGED off
        BY <1>0, <1>1, <2>1 DEF AimInv, Answering
    <2> QED BY <1>3, <1>5, <2>1 DEF OpenSeek
<1>6. CASE ReadRecord
    <2>1. CASE pc = "record" /\ rr' \in ReadAt(disk[cur], off) /\ pc' = "sstat" /\ UNCHANGED off
        <3>1. PICK e \in Range(cache[cur].elems) : e.off = off
            BY <1>1, <2>1 DEF Answering
        <3>2. PICK r \in Range(disk[cur].recs) : e = Sample(r)
            BY <1>0, <1>1, <3>1 DEF Indexed
        <3>3. e.time = r.time /\ off = r.off
            BY <3>1, <3>2, SampleFields
        <3>4. rr' = r
            BY <1>0, <1>1, <2>1, <3>3, ReadsIndexed
        <3> QED BY <1>0, <1>1, <2>1, <3>1, <3>3, <3>4 DEF AimInv
    <2> QED BY <1>3, <1>6, <2>1 DEF ReadRecord
<1>7. CASE GetSstat
    <2>1. CASE pc = "sstat" /\ pc' = "devtstat" /\ UNCHANGED <<off, rr>>
        BY <1>0, <1>1, <2>1 DEF AimInv, Answering
    <2> QED BY <1>3, <1>7, <2>1 DEF GetSstat
<1>8. CASE GetDevtstat
    BY <1>3, <1>8 DEF GetDevtstat
<1> QED BY <1>4, <1>5, <1>6, <1>7, <1>8 DEF Answer

(* Together, for every step.                                                *)
LEMMA StepKeepsGrow ==
    ASSUME Undamaged, NoFault, TypeInv, FilledInv, GrowInv, [Next]_vars
    PROVE  GrowInv'
<1>1. CASE Environment
    BY <1>1, EnvironmentKeepsIndexed
<1>2. CASE UNCHANGED vars
    <2>1. UNCHANGED <<disk, order, cache, pc, cur, off, rr>>
        BY <1>2 DEF vars, diskVars, indexVars, queryVars
    <2> QED BY <2>1 DEF GrowInv, LayoutInv, IndexedInv, ResumeInv, AimInv, Known
<1>3. ASSUME Refresh \/ Answer \/ Throttled \/ \E t \in Times : Query(t) PROVE GrowInv'
    <2>1. UNCHANGED disk
        BY <1>3, RefreshType, QueryType, AnswerType, ThrottledType DEF ServerType, diskVars
    <2>2. LayoutInv'
        BY <2>1 DEF GrowInv, LayoutInv
    <2>3. IndexedInv'
        BY <2>1, StepChangesIndex, IndexStepKeepsIndexed
    <2>4. ResumeInv'
        <3>1. CASE Refresh
            BY <2>1, <3>1, RefreshKeepsResume
        <3>2. CASE Answer \/ Throttled \/ \E t \in Times : Query(t)
            <4>1. pc' \notin {"rebuild", "pread", "fstat"}
                BY <3>2 DEF Answer, Search, Aim, OpenSeek, ReadRecord, GetSstat, GetDevtstat, Finish,
                            Throttled, Query, Fallback, Lookup, Abort
            <4> QED BY <4>1 DEF ResumeInv
        <3> QED BY <1>3, <3>1, <3>2
    <2>5. AimInv'
        <3>1. CASE Refresh \/ Throttled
            <4>1. pc' \notin Answering \cup {"search"}
                BY <3>1 DEF Refresh, Opendir, Readdir, ReaddirEnd, StatKnown, RebuildOne, ParseHeader,
                            Pread, Fstat, ParseReturns, Throttled, Answering
            <4> QED BY <4>1 DEF AimInv
        <3>2. CASE Answer
            BY <3>2, AnswerKeepsAim
        <3>3. CASE \E t \in Times : Query(t)
            BY <3>3, QueryKeepsAim
        <3> QED BY <1>3, <3>1, <3>2, <3>3
    <2> QED BY <2>2, <2>3, <2>4, <2>5 DEF GrowInv
<1> QED BY <1>1, <1>2, <1>3 DEF Next

LEMMA InitGrow == Init => GrowInv
<1> SUFFICES ASSUME Init PROVE GrowInv
    OBVIOUS
<1>1. LayoutInv
    BY DEF Init, LayoutInv, Layout, NoFile, HdrLen
<1>2. IndexedInv /\ ResumeInv /\ AimInv
    BY DEF Init, IndexedInv, ResumeInv, AimInv, Answering, Known, Range
<1> QED BY <1>1, <1>2 DEF GrowInv

(* The invariant of logs that only grow.                                    *)
RawlogInv == TypeInv /\ FilledInv /\ GrowInv

LEMMA RawlogInvariant == ASSUME Undamaged, NoFault PROVE Spec => []RawlogInv
<1>1. Init => RawlogInv
    BY InitType, InitGrow DEF Init, RawlogInv, FilledInv, Known, Range
<1>2. RawlogInv /\ [Next]_vars => RawlogInv'
    BY NextType, StepKeepsFilled, StepKeepsGrow DEF RawlogInv
<1> QED BY <1>1, <1>2, PTL DEF Spec

(* Every offset in the index is that of a record of the file, with that     *)
(* record's time: whatever the clock does, however passes and writes        *)
(* interleave, and for a log unlinked while it is read, rebuild_one resumes *)
(* on a record boundary and never takes other bytes for a rawrecord.        *)
THEOREM OffsetsStayRecords ==
    ASSUME Undamaged, NoFault PROVE Spec => []OffsetsAreRecords
<1>1. RawlogInv => OffsetsAreRecords
    BY DEF RawlogInv, GrowInv, IndexedInv, Indexed, OffsetsAreRecords, Sample
<1> QED BY <1>1, RawlogInvariant, PTL

(* A read loop that ends has indexed every record the file holds then, the  *)
(* ones written while it ran and the ones that sorting moved away from the  *)
(* end of the array included.                                               *)
THEOREM LoopCatchesUp == ASSUME Undamaged, NoFault PROVE Spec => CaughtUp
<1>1. ASSUME RawlogInv, [Next]_vars, pc = "pread", pc' = "fstat"
      PROVE  \A r \in Range(disk[cur].recs) : Elem(r.time, r.off) \in Range(cache[cur].elems)
    <2>1. /\ cur \in Known /\ Boundary(disk[cur], off) /\ Passed(disk[cur], cache[cur], off)
          /\ disk[cur] \in FileType /\ Layout(disk[cur])
        BY <1>1, KnownAreNames DEF RawlogInv, GrowInv, ResumeInv, LayoutInv
    <2>2. ~Environment /\ ~UNCHANGED vars
        BY <1>1, EnvironmentType DEF RawlogInv, serverVars, vars
    <2>3. Pread
        BY <1>1, <2>2 DEF Next, Refresh, Opendir, Readdir, ReaddirEnd, StatKnown, RebuildOne, ParseHeader,
                          Fstat, Query, Answer, Search, OpenSeek, ReadRecord, GetSstat, GetDevtstat,
                          Throttled
    <2>4. pread(disk[cur], off) = {}
        BY <1>1, <2>3 DEF Pread
    <2>5. \A r \in Range(disk[cur].recs) : r.off < off
        BY <2>1, <2>4, ShortReadIsEnd
    <2> QED BY <2>1, <2>5 DEF Passed, Sample
<1>2. RawlogInv /\ [Next]_vars =>
        ((pc = "pread" /\ pc' = "fstat") =>
            \A r \in Range(disk[cur].recs) : Elem(r.time, r.off) \in Range(cache[cur].elems))
    BY <1>1
<1> QED BY <1>2, RawlogInvariant, PTL DEF Spec, CaughtUp

----------------------------------------------------------------------------
(* The index keeps its promise (SampleIndex).                               *)

(* The refinement mapping, part by part.                                    *)
StoredIn(n) == { Elem(r.time, r.off) : r \in Range(disk[n].recs) }
KnownOf(n)  == IF n \in Known THEN Range(cache[n].elems) ELSE {}
Stored      == [n \in Names |-> StoredIn(n)]
KnownMap    == [n \in Names |-> KnownOf(n)]
Reply       == IF ans.status = "ok" THEN {ans.time} ELSE {}

LEMMA PromiseStore ==
    ASSUME NEW n \in Names, \A m \in Names : StoredIn(m)' \subseteq [time : Times, off : Nat],
           StoredIn(n) \subseteq StoredIn(n)', \A m \in Names \ {n} : StoredIn(m)' = StoredIn(m),
           KnownMap' = KnownMap, Reply' = Reply
    PROVE  Promise!Next
<1>1. Stored' \in [Names -> SUBSET [time : Times, off : Nat]]
    BY DEF Stored
<1>2. Stored[n] \subseteq Stored'[n]
    BY DEF Stored
<1>3. \A m \in Names \ {n} : Stored'[m] = Stored[m]
    BY DEF Stored
<1>4. Promise!Store(n)
    BY <1>1, <1>2, <1>3, Zenon DEF Promise!Store, Stored, KnownMap, Reply, StoredIn, KnownOf
<1> QED BY <1>4 DEF Promise!Next

LEMMA PromiseLearn ==
    ASSUME NEW n \in Names, NEW s \in StoredIn(n),
           KnownOf(n)' = KnownOf(n) \cup {s}, \A m \in Names \ {n} : KnownOf(m)' = KnownOf(m),
           Stored' = Stored, Reply' = Reply
    PROVE  Promise!Next
<1>1. s \in Stored[n]
    BY DEF Stored
<1>2. KnownMap' = [KnownMap EXCEPT ![n] = @ \cup {s}]
    BY DEF KnownMap
<1>3. Promise!Learn(n)
    BY <1>1, <1>2, Zenon DEF Promise!Learn, Stored, KnownMap, Reply, StoredIn, KnownOf
<1> QED BY <1>3 DEF Promise!Next

LEMMA PromiseServe ==
    ASSUME NEW n \in Names, NEW s \in KnownOf(n), Reply' = {s.time},
           Stored' = Stored, KnownMap' = KnownMap
    PROVE  Promise!Next
<1>1. s \in KnownMap[n]
    BY DEF KnownMap
<1>2. Promise!Serve(n)
    BY <1>1, Zenon DEF Promise!Serve, Stored, KnownMap, Reply, StoredIn, KnownOf
<1> QED BY <1>2 DEF Promise!Next

LEMMA PromiseDone ==
    ASSUME Stored' = Stored, KnownMap' = KnownMap, Reply' \in {{}, Reply}
    PROVE  [Promise!Next]_(Promise!vars)
<1>1. CASE Reply' = {}
    BY <1>1, Zenon DEF Promise!Next, Promise!Done, Stored, KnownMap, Reply, StoredIn, KnownOf
<1>2. CASE Reply' = Reply
    BY <1>2, Zenon DEF Promise!vars, Stored, KnownMap, Reply, StoredIn, KnownOf
<1> QED BY <1>1, <1>2

(* Only indexing a record changes what is known.                            *)
LEMMA KnownKept ==
    ASSUME TypeInv, UNCHANGED indexVars \/ Allocates \/ Stats \/ Sorts
    PROVE  KnownMap' = KnownMap
<1>0. /\ Known \subseteq Names /\ cache \in [Names -> CacheType] /\ order \in Seq(Names)
      /\ IsInjective(order)
    BY KnownAreNames DEF TypeInv, TypeOK, IndexOK, NamesUnique
<1> SUFFICES ASSUME NEW n \in Names PROVE KnownOf(n)' = KnownOf(n)
    BY DEF KnownMap
<1>1. CASE UNCHANGED indexVars
    BY <1>1 DEF KnownOf, Known, indexVars
<1>2. CASE Allocates
    <2>1. cur \in Names /\ cur \notin Known
        BY <1>2 DEF Allocates, TypeInv, CursorOK, Busy, cache_find, Known
    <2>2. Known' = Known \cup {cur}
        BY <1>0, <1>2, <2>1, CacheAllocAdds DEF Allocates, Known
    <2>3. cache'[n] = IF n = cur THEN NewCache ELSE cache[n]
        BY <1>0, <1>2, <2>1 DEF Allocates
    <2>4. Range(NewCache.elems) = {}
        BY DEF NewCache, Range
    <2> QED BY <2>1, <2>2, <2>3, <2>4 DEF KnownOf
<1>3. CASE Stats
    <2>1. cache'[n].elems = cache[n].elems
        BY <1>3 DEF Stats
    <2>2. CASE DropEmpty(fresh, cache[cur])
        <3>1. Known' = Known \ {cur}
            BY <1>0, <1>3, <2>2, CacheFreeRemoves DEF Stats, Known
        <3>2. Range(cache[cur].elems) = {}
            BY <2>2 DEF DropEmpty, Range
        <3> QED BY <2>1, <3>1, <3>2 DEF KnownOf
    <2>3. CASE ~DropEmpty(fresh, cache[cur])
        BY <1>3, <2>1, <2>3 DEF Stats, KnownOf, Known
    <2> QED BY <2>2, <2>3
<1>4. CASE Sorts
    <2>1. Known' = Known
        BY <1>0, <1>4, RearrangementKeeps DEF Sorts, cache_sort, Known
    <2> QED BY <1>4, <2>1 DEF Sorts, KnownOf
<1> QED BY <1>1, <1>2, <1>3, <1>4

(* The served time is that of the sample aimed at; any other step leaves    *)
(* the reply or clears it.                                                  *)
Serves == GetDevtstat /\ Finish("ok")

LEMMA ReplyKept ==
    ASSUME [Next]_vars, TypeInv, ~Serves
    PROVE  Reply' \in {{}, Reply}
<1>1. ASSUME NEW st \in {"error", "silent"}, Finish(st) PROVE Reply' = {}
    BY <1>1 DEF Finish, Reply
<1>2. ASSUME ForgetQuery PROVE Reply' = {}
    BY <1>2 DEF ForgetQuery, Reply, NoAns
<1>3. ASSUME UNCHANGED ans PROVE Reply' = Reply
    BY <1>3 DEF Reply
<1>4. CASE Environment \/ UNCHANGED vars
    BY <1>3, <1>4, EnvironmentType DEF serverVars, queryVars, vars
<1>5. CASE Refresh
    BY <1>2, <1>3, <1>5 DEF Refresh, Opendir, Readdir, ReaddirEnd, StatKnown, RebuildOne, ParseHeader,
                            Pread, Fstat, queryVars
<1>6. CASE Throttled
    BY <1>2, <1>6 DEF Throttled
<1>7. ASSUME NEW t \in Times, Query(t) PROVE Reply' \in {{}, Reply}
    BY <1>1, <1>3, <1>7 DEF Query, Fallback, Lookup, Abort
<1>8. CASE Answer
    BY <1>1, <1>3, <1>8 DEF Answer, Search, OpenSeek, ReadRecord, GetSstat, GetDevtstat, Serves
<1> QED BY <1>4, <1>5, <1>6, <1>7, <1>8 DEF Next

LEMMA StepKeepsPromise ==
    ASSUME Undamaged, RawlogInv, [Next]_vars
    PROVE  [Promise!Next]_(Promise!vars)
<1>0. TypeInv /\ GrowInv /\ TypeInv' /\ Known \subseteq Names
    BY NextType, KnownAreNames DEF RawlogInv
<1>1. ASSUME UNCHANGED disk PROVE Stored' = Stored
    BY <1>1 DEF Stored, StoredIn
<1>2. CASE Environment
    <2>1. UNCHANGED <<order, cache, ans>>
        BY <1>0, <1>2, EnvironmentType DEF serverVars, indexVars, queryVars
    <2>2. KnownMap' = KnownMap /\ Reply' = Reply
        BY <2>1 DEF KnownMap, KnownOf, Known, Reply
    <2>3. CASE KeepsRecords
        <3>1. Stored' = Stored
            BY <2>3 DEF KeepsRecords, Stored, StoredIn
        <3> QED BY <2>2, <3>1, PromiseDone
    <2>4. ASSUME NEW n \in Names, NEW r \in Record, Writes(n, r)
          PROVE  [Promise!Next]_(Promise!vars)
        <3>1. disk[n] \in FileType /\ \A m \in Names : disk'[m] \in FileType
            BY <1>0 DEF TypeInv, TypeOK, DiskOK
        <3>2. Range(disk'[n].recs) = Range(disk[n].recs) \cup {r}
            BY <2>4, <3>1, AppendKeeps, RecsTyped DEF Writes
        <3>3. StoredIn(n) \subseteq StoredIn(n)'
            BY <3>2 DEF StoredIn
        <3>4. \A m \in Names \ {n} : StoredIn(m)' = StoredIn(m)
            BY <2>4 DEF StoredIn, Writes
        <3>5. \A m \in Names : StoredIn(m)' \subseteq [time : Times, off : Nat]
            <4>1. \A q \in Record : Elem(q.time, q.off) \in [time : Times, off : Nat]
                BY DEF Record, Elem
            <4>2. \A m \in Names : Range(disk'[m].recs) \subseteq Record
                BY <3>1, RecsTyped
            <4> QED BY <4>1, <4>2 DEF StoredIn
        <3> QED BY <2>2, <3>3, <3>4, <3>5, PromiseStore
    <2> QED BY <1>0, <1>2, <2>3, <2>4, EnvironmentWrites DEF GrowInv
<1>3. CASE UNCHANGED vars
    <2>1. UNCHANGED <<disk, order, cache, ans>>
        BY <1>3 DEF vars, diskVars, indexVars, queryVars
    <2>2. KnownMap' = KnownMap /\ Reply' = Reply
        BY <2>1 DEF KnownMap, KnownOf, Known, Reply
    <2> QED BY <1>1, <2>1, <2>2, PromiseDone
<1>4. ASSUME Refresh \/ Answer \/ Throttled \/ \E t \in Times : Query(t)
      PROVE  [Promise!Next]_(Promise!vars)
    <2>1. UNCHANGED disk
        BY <1>0, <1>4, RefreshType, QueryType, AnswerType, ThrottledType DEF ServerType, diskVars
    <2>2. Stored' = Stored
        BY <1>1, <2>1
    <2>3. CASE Serves
        <3>1. pc = "devtstat" /\ UNCHANGED indexVars /\ Reply' = {rr.time}
            BY <2>3 DEF Serves, GetDevtstat, Finish, Reply
        <3>2. cur \in Known /\ \E e \in Range(cache[cur].elems) : rr.time = e.time
            BY <1>0, <3>1 DEF GrowInv, AimInv, Answering
        <3>3. PICK n \in Names : n = cur
            BY <1>0, <3>2
        <3>4. PICK e \in KnownOf(n) : rr.time = e.time
            BY <3>2, <3>3 DEF KnownOf
        <3>5. KnownMap' = KnownMap
            BY <1>0, <3>1, KnownKept
        <3>6. Reply' = {e.time}
            BY <3>1, <3>4
        <3> QED BY <2>2, <3>4, <3>5, <3>6, PromiseServe
    <2>4. ASSUME ~Serves, UNCHANGED indexVars \/ Allocates \/ Stats \/ Sorts
          PROVE  [Promise!Next]_(Promise!vars)
        BY <1>0, <2>2, <2>4, KnownKept, ReplyKept, PromiseDone
    <2>5. ASSUME NEW r, NEW c, Indexes(r, c)
          PROVE  [Promise!Next]_(Promise!vars)
        <3>1. Pread
            BY <1>4, <2>5 DEF Indexes, Refresh, Opendir, Readdir, ReaddirEnd, StatKnown, RebuildOne, ParseHeader,
                              Fstat, ParseReturns, Query, Answer, Search, OpenSeek, ReadRecord, GetSstat,
                              GetDevtstat, Throttled
        <3>2. Reply' = Reply
            BY <3>1 DEF Pread, queryVars, Reply
        <3>3. /\ cur \in Known /\ Boundary(disk[cur], off) /\ Passed(disk[cur], cache[cur], off)
              /\ disk[cur] \in FileType /\ Layout(disk[cur]) /\ Indexed(disk[cur], cache[cur])
              /\ cache[cur] \in CacheType /\ Len(cache[cur].elems) <= cache[cur].max_elems
            BY <1>0, <2>5, KnownAreNames DEF Indexes, GrowInv, LayoutInv, IndexedInv, ResumeInv, TypeInv,
                                             TypeOK, IndexOK
        <3>4. r \in Range(disk[cur].recs) /\ Range(c.elems) = Range(cache[cur].elems) \cup {Sample(r)}
            <4>1. r \in pread(disk[cur], off) /\ c \in cache_set(cache[cur], r.time, off)
                BY <2>5 DEF Indexes
            <4> DEFINE f == disk[cur]
                       b == cache[cur]
            <4> HIDE DEF f, b
            <4>2. /\ Boundary(f, off) /\ Passed(f, b, off) /\ f \in FileType /\ Layout(f)
                  /\ Indexed(f, b) /\ b \in CacheType /\ Len(b.elems) <= b.max_elems
                  /\ r \in pread(f, off) /\ c \in cache_set(b, r.time, off)
                BY <3>3, <4>1 DEF f, b
            <4>3. r \in Range(f.recs) /\ Range(c.elems) = Range(b.elems) \cup {Sample(r)}
                BY <4>2, SetKeepsIndexed
            <4> QED BY <4>3 DEF f, b
        <3>5. Known' = Known /\ \A n \in Names : cache'[n] = IF n = cur THEN c ELSE cache[n]
            BY <1>0, <2>5, <3>3 DEF Indexes, Known, TypeInv, TypeOK, IndexOK
        <3>6. PICK n \in Names : n = cur
            BY <1>0, <3>3
        <3>7. KnownOf(n)' = KnownOf(n) \cup {Sample(r)}
            <4>1. KnownOf(n) = Range(cache[n].elems) /\ KnownOf(n)' = Range(c.elems)
                BY <3>3, <3>5, <3>6 DEF KnownOf
            <4> QED BY <3>4, <3>6, <4>1
        <3>8. \A m \in Names \ {n} : KnownOf(m)' = KnownOf(m)
            BY <3>5, <3>6 DEF KnownOf
        <3>9. Sample(r) \in StoredIn(n)
            BY <3>4, <3>6 DEF StoredIn, Sample
        <3> QED BY <2>2, <3>2, <3>7, <3>8, <3>9, PromiseLearn
    <2> QED BY <1>0, <2>3, <2>4, <2>5, StepChangesIndex DEF IndexStep, Serves, GetDevtstat
<1> QED BY <1>2, <1>3, <1>4 DEF Next

(* Rawlog implements SampleIndex: over every interleaving of atop's writes  *)
(* with the passes and the queries of the server, the index only ever       *)
(* learns samples that the log holds, never loses one, and what it serves   *)
(* is the time of a sample it knows, although the record is read several    *)
(* steps after the search.                                                  *)
THEOREM PromiseKept == ASSUME Undamaged, NoFault PROVE Spec => KeepsPromise
<1>1. Init => Promise!Init
    <2> SUFFICES ASSUME Init PROVE Promise!Init
        OBVIOUS
    <2>1. \A n \in Names : StoredIn(n) = {} /\ KnownOf(n) = {}
        BY DEF Init, StoredIn, KnownOf, NoFile, Known, Range
    <2>2. Stored = [n \in Names |-> {}] /\ KnownMap = [n \in Names |-> {}]
        BY <2>1 DEF Stored, KnownMap
    <2>3. Reply = {}
        BY DEF Init, Reply, NoAns
    <2> QED BY <2>2, <2>3, Zenon DEF Promise!Init, Stored, KnownMap, Reply, StoredIn, KnownOf
<1>2. RawlogInv /\ [Next]_vars => [Promise!Next]_(Promise!vars)
    BY StepKeepsPromise
<1> QED BY <1>1, <1>2, RawlogInvariant, PTL DEF Spec, KeepsPromise, Promise!Spec
=============================================================================
