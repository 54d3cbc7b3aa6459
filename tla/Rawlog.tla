-------------------------------- MODULE Rawlog --------------------------------
(****************************************************************************)
(* rawlog.c on top of cache.c: the one thread of atophttpd that keeps the   *)
(* index of the rawlog directory up to date and answers queries from it,    *)
(* against the files of that directory, which atop goes on writing.         *)
(*                                                                          *)
(* Every system call of the server that looks at the shared files is a step *)
(* of its own, so that the writer's steps fall between any two of them.     *)
(* (open is merged with the call after it: unlinking a file does not change *)
(* what its descriptor reads, so the two commute with every other step.)    *)
(*                                                                          *)
(* A file is a header followed by records, each of them a rawrecord and     *)
(* two compressed blocks.  Sizes are in units: the header and a rawrecord   *)
(* take one unit each, a block as many as its length says.                  *)
(****************************************************************************)
EXTENDS Cache

CONSTANTS
    Names,      \* the rawlog files that may ever exist
    NoName,     \* no file
    Times,      \* times a record may carry or a query may ask for
    Lens,       \* lengths of compressed blocks
    MaxRecs,    \* bound: records per file, elements of a cache whose fstat fails
    IntSpan,    \* 2^32: values an int tells apart
    Events      \* which of PossibleEvents may happen

(* clockback: the writer's clock is set back.  unlink: a log is removed.    *)
(* truncate: a log is emptied in place and started again.  crash: atop dies *)
(* within a record and appends the next one right behind the fragment.      *)
(* foreign: a file of another kind lies in the directory.  fstat, lseek,    *)
(* opendir, malloc: that call may fail.  eio: reading the disk may fail.    *)
PossibleEvents == {"clockback", "unlink", "truncate", "crash", "foreign",
                   "fstat", "lseek", "opendir", "malloc", "eio"}

ASSUME NamesAssumption  == NoName \notin Names
ASSUME TimesAssumption  == Times \subseteq Nat
ASSUME LensAssumption   == Lens \subseteq Nat \ {0}
ASSUME BoundAssumption  == MaxRecs \in Nat /\ IntSpan \in Nat \ {0}
ASSUME EventsAssumption == Events \subseteq PossibleEvents

HdrLen == 1     \* sizeof(struct rawheader)
RecLen == 1     \* sizeof(struct rawrecord)

VARIABLES
    (* the directory, and the atop process that writes it *)
    disk,       \* name -> [linked, hdr, recs, size]
    current,    \* the log atop writes, or NoName
    clock,      \* the time of the last record written
    (* the index *)
    order,      \* caches[]: names in table order
    cache,      \* name -> cache (meaningful for the names in the table)
    (* the server's thread *)
    pc,         \* where it is
    listed,     \* names readdir has returned in this pass
    must,       \* names that were in the directory at opendir
    cur,        \* the file being parsed or read
    off,        \* local off of the function running
    fresh,      \* parsing a new file (parse_one) or resuming one (rebuild_one)
    ts,         \* the time queried
    bounds,     \* left and right of the bisection
    rr,         \* the rawrecord read last
    ans         \* outcome of the last query

diskVars   == <<disk, current, clock>>
indexVars  == <<order, cache>>
passVars   == <<listed, must, fresh>>
queryVars  == <<ts, bounds, rr, ans>>
vars       == <<diskVars, indexVars, pc, passVars, cur, off, queryVars>>

Record    == [time : Times, off : Nat, scomplen : Lens, pcomplen : Lens]
FileType  == [linked : BOOLEAN, hdr : {"none", "good", "bad"},
              recs : Seq(Record), size : Nat]
ElemType  == [time : Times, off : Nat]
CacheType == [elems : Seq(ElemType), max_elems : Nat, st_size : Nat]

NoFile  == [linked |-> FALSE, hdr |-> "none", recs |-> <<>>, size |-> 0]
NoRange == [left |-> 0, right |-> 0]
NoAns   == [status |-> "none", time |-> 0]
NoRec   == [time |-> 0, off |-> 0, scomplen |-> 0, pcomplen |-> 0]

ServerStates == {"boot", "readdir", "parse", "rebuild", "pread", "fstat",
                 "idle", "search", "found", "record", "sstat", "devtstat",
                 "answered", "aborted", "exited"}

----------------------------------------------------------------------------
(* Reading a file                                                           *)

(* Mutant: the second block is not skipped.                                 *)
NextOffsetInside(r, o) == o + RecLen + r.scomplen

(* Where the record that starts at o ends, by what its rawrecord says.      *)
NextOffset(r, o) == o + RecLen + r.scomplen + r.pcomplen

(* Where the writer ends a record.                                          *)
EndOf(r) == r.off + RecLen + r.scomplen + r.pcomplen

AnyRecord(o) == [time : Times, off : {o}, scomplen : Lens, pcomplen : Lens]

(* What reading a rawrecord at o can deliver: nothing when it is short, the *)
(* record that starts there, or whatever lies there otherwise.              *)
ReadAt(f, o) ==
    LET here == { r \in Range(f.recs) : r.off = o }
    IN  IF f.size < o + RecLen THEN {}
        ELSE IF here # {} THEN here ELSE AnyRecord(o)

(* The same by pread in the two loops of a pass.  The -1 of a failed one is *)
(* compared with an unsigned size and does not count as short: rr is used   *)
(* with what was in it, a record read before or nothing meaningful.         *)
pread(f, o) ==
    ReadAt(f, o) \cup IF "eio" \in Events /\ o + RecLen <= f.size
                      THEN AnyRecord(o) ELSE {}

(* Bytes a..b-1 belong to the record at o: they are written, and no other   *)
(* record starts below b.  Only then does the block uncompress.             *)
Intact(f, o, b) ==
    /\ \E r \in Range(f.recs) : r.off = o
    /\ b <= f.size
    /\ \A r \in Range(f.recs) : r.off > o => b <= r.off

----------------------------------------------------------------------------
Init ==
    /\ disk = [n \in Names |-> NoFile]
    /\ current = NoName
    /\ clock = 0
    /\ order = <<>>
    /\ cache = [n \in Names |-> NewCache]
    /\ pc = "boot"
    /\ listed = {} /\ must = {} /\ fresh = FALSE
    /\ cur = NoName /\ off = 0
    /\ ts = 0 /\ bounds = NoRange /\ rr = NoRec
    /\ ans = NoAns

----------------------------------------------------------------------------
(* The environment: atop and the administrator.                             *)

serverVars == <<indexVars, pc, passVars, cur, off, queryVars>>

LastRec(f) == f.recs[Len(f.recs)]

(* Nothing of the last record is still to be written.                       *)
Complete(f) == f.recs # <<>> => EndOf(LastRec(f)) <= f.size

MayStart(n) == n # NoName => Complete(disk[n]) \/ "crash" \in Events

(* atop opens the log of a new day (an empty file so far).                  *)
Rotate(n) ==
    /\ disk[n] = NoFile
    /\ MayStart(current)
    /\ disk' = [disk EXCEPT ![n].linked = TRUE]
    /\ current' = n
    /\ UNCHANGED <<clock, serverVars>>

WriteHeader ==
    /\ current # NoName
    /\ disk[current].hdr = "none"
    /\ disk' = [disk EXCEPT ![current].hdr = "good", ![current].size = HdrLen]
    /\ UNCHANGED <<current, clock, serverVars>>

(* atop writes a sample: its rawrecord, then the two blocks.                *)
WriteRecord(t, s, p) ==
    /\ current # NoName
    /\ disk[current].hdr = "good"
    /\ Len(disk[current].recs) < MaxRecs
    /\ MayStart(current)
    /\ t > clock \/ "clockback" \in Events
    /\ disk' = [disk EXCEPT
            ![current].recs = Append(@, [time |-> t, off |-> disk[current].size,
                                         scomplen |-> s, pcomplen |-> p]),
            ![current].size = @ + RecLen]
    /\ clock' = t
    /\ UNCHANGED <<current, serverVars>>

WriteBlock ==
    /\ current # NoName
    /\ ~Complete(disk[current])
    /\ LET r == LastRec(disk[current])
       IN  disk' = [disk EXCEPT ![current].size =
                        IF @ = r.off + RecLen THEN @ + r.scomplen ELSE EndOf(r)]
    /\ UNCHANGED <<current, clock, serverVars>>

Unlink(n) ==
    /\ "unlink" \in Events
    /\ disk[n].linked
    /\ disk' = [disk EXCEPT ![n].linked = FALSE]
    /\ UNCHANGED <<current, clock, serverVars>>

Truncate ==
    /\ "truncate" \in Events
    /\ current # NoName
    /\ disk[current].hdr = "good"
    /\ disk' = [disk EXCEPT ![current] = [@ EXCEPT !.recs = <<>>, !.size = 0,
                                                   !.hdr = "none"]]
    /\ UNCHANGED <<current, clock, serverVars>>

(* A file that is no rawlog: long enough for a header, but not a valid one. *)
Foreign(n) ==
    /\ "foreign" \in Events
    /\ disk[n] = NoFile
    /\ disk' = [disk EXCEPT ![n] = [@ EXCEPT !.linked = TRUE, !.hdr = "bad",
                                             !.size = HdrLen]]
    /\ UNCHANGED <<current, clock, serverVars>>

Environment ==
    \/ \E n \in Names : Rotate(n) \/ Unlink(n) \/ Foreign(n)
    \/ WriteHeader
    \/ \E t \in Times, s, p \in Lens : WriteRecord(t, s, p)
    \/ WriteBlock
    \/ Truncate

----------------------------------------------------------------------------
(* rawlog_parse_all: list the directory and parse its files.  Locals of a   *)
(* function that returns are reset, so that no state tells them apart.      *)

(* The request is over.                                                     *)
ForgetQuery == cur' = NoName /\ ts' = 0 /\ ans' = NoAns /\ UNCHANGED <<off, bounds, rr>>

(* main runs the first pass, httpd_update_cache (httpd.c) the later ones,   *)
(* after a request.  A failed pass is fatal for main only.                  *)
Opendir ==
    /\ pc \in {"boot", "answered"}
    /\ \/ /\ pc' = "readdir"
          /\ must' = { n \in Names : disk[n].linked }
       \/ /\ "opendir" \in Events
          /\ pc' = IF pc = "boot" THEN "exited" ELSE "idle"
          /\ must' = {}
    /\ ForgetQuery
    /\ UNCHANGED <<diskVars, indexVars, listed, fresh>>

(* httpd_update_cache within three seconds of the last pass: no new one.    *)
Throttled ==
    /\ pc = "answered"
    /\ pc' = "idle"
    /\ ForgetQuery
    /\ UNCHANGED <<diskVars, indexVars, passVars>>

(* A name present at opendir and never removed is returned once; one that   *)
(* came or went since may or may not be.                                    *)
Readdir(n) ==
    /\ pc = "readdir"
    /\ n \in must \/ disk[n].linked
    /\ n \notin listed
    /\ listed' = listed \cup {n}
    /\ cur' = n
    /\ pc' = "parse"
    /\ UNCHANGED <<diskVars, indexVars, must, fresh, off, queryVars>>

(* The directory is exhausted: sort the table by first time.                *)
ReaddirEnd ==
    /\ pc = "readdir"
    /\ \A n \in must : disk[n].linked => n \in listed
    /\ order' \in cache_sort(order, cache)
    /\ listed' = {} /\ must' = {}
    /\ pc' = "idle"
    /\ UNCHANGED <<diskVars, cache, fresh, cur, off, queryVars>>

(* parse_one returns; the pass goes on whatever it returned.                *)
ParseReturns ==
    /\ pc' = "readdir"
    /\ cur' = NoName /\ off' = 0 /\ fresh' = FALSE

----------------------------------------------------------------------------
(* rawlog_parse_one on a file that is in the table: only its size is looked *)
(* at.                                                                      *)

SizeUnchanged(n) == cache[n].st_size = disk[n].size

StatKnown ==
    /\ pc = "parse"
    /\ cache_find(order, cur)
    /\ IF disk[cur].linked /\ ~SizeUnchanged(cur)
       THEN pc' = "rebuild" /\ UNCHANGED <<cur, off, fresh>>
       ELSE ParseReturns
    /\ UNCHANGED <<diskVars, indexVars, listed, must, queryVars>>

(* Mutant: resume from the first element.                                   *)
ResumeFromFirst(c, f) ==
    IF c.elems = <<>> THEN 0 .. f.size ELSE {c.elems[1].off}

(* The offset rebuild_one resumes from: that of the last element, or        *)
(* whatever lies before an array without elements.  (That word is where     *)
(* malloc keeps the size of the array's block, so it is not negative; an    *)
(* offset beyond the end of the file reads like one at its end.)            *)
ResumeOffsets(c, f) ==
    IF c.elems = <<>> THEN 0 .. f.size ELSE {LastElem(c).off}

(* rawlog_rebuild_one: skip the record indexed last.                        *)
RebuildOne ==
    /\ pc = "rebuild"
    /\ \/ /\ ~disk[cur].linked
          /\ ParseReturns
       \/ /\ disk[cur].linked
          /\ \E o \in ResumeOffsets(cache[cur], disk[cur]) :
                \/ /\ pread(disk[cur], o) = {}
                   /\ ParseReturns
                \/ \E r \in pread(disk[cur], o) :
                   /\ off' = NextOffset(r, o)
                   /\ pc' = "pread"
                   /\ UNCHANGED <<cur, fresh>>
    /\ UNCHANGED <<diskVars, indexVars, listed, must, queryVars>>

----------------------------------------------------------------------------
(* rawlog_parse_one on a file that is not in the table.                     *)

(* A failed read of the header does not count as short either: rh, with     *)
(* what an earlier call left there, is verified.                            *)
HeaderReadFails(f) == "eio" \in Events /\ f.linked /\ f.size >= HdrLen

(* open, read and verify the header: the file may be refused,               *)
Refused(f) == \/ ~f.linked \/ f.size < HdrLen \/ f.hdr # "good"
              \/ HeaderReadFails(f)

(* or its records are read from the offset that read has left.              *)
HeaderEnds(f) ==
    { o \in {0, HdrLen} :
        IF o = 0 THEN HeaderReadFails(f)
                 ELSE f.linked /\ f.size >= HdrLen /\ f.hdr = "good" }

ParseHeader ==
    /\ pc = "parse"
    /\ ~cache_find(order, cur)
    /\ \/ /\ Refused(disk[cur])
          /\ ParseReturns
          /\ UNCHANGED indexVars
       \/ \E o \in HeaderEnds(disk[cur]) :
          /\ order' = cache_alloc(order, cur)
          /\ cache' = [cache EXCEPT ![cur] = NewCache]
          /\ \/ /\ pc' = "pread"
                /\ off' = o
                /\ fresh' = TRUE
                /\ UNCHANGED cur
             \/ /\ "lseek" \in Events
                /\ ParseReturns
    /\ UNCHANGED <<diskVars, listed, must, queryVars>>

----------------------------------------------------------------------------
(* The loop and the fstat that parse_one and rebuild_one share.             *)

(* Mutant: a short read does not end the loop.                              *)
PreadForever ==
    /\ pc = "pread"
    /\ \E r \in pread(disk[cur], off) :
          /\ \E c \in cache_set(cache[cur], r.time, off) :
                cache' = [cache EXCEPT ![cur] = c]
          /\ off' = NextOffset(r, off)
    /\ UNCHANGED <<diskVars, order, pc, passVars, cur, queryVars>>

Pread ==
    /\ pc = "pread"
    /\ \/ /\ pread(disk[cur], off) = {}
          /\ pc' = "fstat"
          /\ UNCHANGED <<cache, off>>
       \/ \E r \in pread(disk[cur], off) :
          /\ \E c \in cache_set(cache[cur], r.time, off) :
                cache' = [cache EXCEPT ![cur] = c]
          /\ off' = NextOffset(r, off)
          /\ UNCHANGED pc
    /\ UNCHANGED <<diskVars, order, passVars, cur, queryVars>>

(* Mutants: an empty cache is kept; a full one is dropped.                  *)
DropNothing(isnew, c) == FALSE

DropNew(isnew, c) == isnew

(* Remember the size; parse_one drops a cache that stayed empty.            *)
DropEmpty(isnew, c) == isnew /\ c.elems = <<>>

Fstat ==
    /\ pc = "fstat"
    /\ \/ /\ cache' = [cache EXCEPT ![cur].st_size = disk[cur].size]
          /\ order' = IF DropEmpty(fresh, cache[cur]) THEN cache_free(order, cur)
                                                      ELSE order
       \/ /\ "fstat" \in Events /\ Len(cache[cur].elems) <= MaxRecs
          /\ UNCHANGED indexVars
    /\ ParseReturns
    /\ UNCHANGED <<diskVars, listed, must, queryVars>>

----------------------------------------------------------------------------
(* rawlog_get_record                                                        *)

Finish(status) ==
    /\ pc' = "answered"
    /\ ans' = [status |-> status, time |-> IF status = "ok" THEN rr.time ELSE 0]
    /\ off' = 0 /\ bounds' = NoRange /\ rr' = NoRec

Aim(o) == pc' = "found" /\ off' = o /\ bounds' = NoRange

(* cache_get on a file with at most two elements takes the first.           *)
TakesFirst(c) == Len(c.elems) <= 2

(* The file covers ts: bisect it, unless it is short.                       *)
Lookup(n) ==
    /\ cur' = n
    /\ \/ /\ TakesFirst(cache[n])
          /\ Aim(cache[n].elems[1].off)
       \/ /\ ~TakesFirst(cache[n])
          /\ pc' = "search"
          /\ bounds' = AllOf(cache[n].elems)
          /\ UNCHANGED off
    /\ UNCHANGED <<rr, ans>>

(* Mutant: the newest sample answers a query for an earlier time as well.   *)
TooEarlyForAny(t) == order = <<>>

(* No file covers ts: the newest sample answers a query for a later time.   *)
TooEarly(t) == order # <<>> => t < LastElem(cache[cache_get_recent(order)]).time

Fallback(t) ==
    \/ /\ TooEarly(t)
       /\ Finish("error")
       /\ UNCHANGED cur
    \/ /\ ~TooEarly(t)
       /\ cur' = cache_get_recent(order)
       /\ Aim(LastElem(cache[cache_get_recent(order)]).off)
       /\ UNCHANGED <<rr, ans>>

(* The scan meets a cache without elements: its assertion ends the program. *)
Abort == pc' = "aborted" /\ UNCHANGED <<cur, off, bounds, rr, ans>>

Query(t) ==
    /\ pc = "idle"
    /\ ts' = t
    /\ LET stops == ScanStops(order, cache, t)
       IN  \/ /\ stops = {}
              /\ Fallback(t)
           \/ \E i \in stops :
              /\ \A j \in stops : i <= j
              /\ \/ cache[order[i]].elems = <<>> /\ Abort
                 \/ cache[order[i]].elems # <<>> /\ Lookup(order[i])
           \/ /\ "malloc" \in Events
              /\ Finish("error")
              /\ UNCHANGED cur
    /\ UNCHANGED <<diskVars, indexVars, passVars>>

Search ==
    /\ pc = "search"
    /\ \/ /\ Narrowed(bounds)
          /\ Aim(Hit(cache[cur].elems, bounds).off)
       \/ /\ ~Narrowed(bounds)
          /\ bounds' = Probe(cache[cur].elems, ts, bounds)
          /\ UNCHANGED <<off, pc>>
    /\ UNCHANGED <<diskVars, indexVars, passVars, cur, ts, rr, ans>>

(* lseek's result is kept in an int: an offset whose low half is negative   *)
(* reads as a failure, whose error number is a stale errno, maybe 0.        *)
TruncatedNegative(o) == o % IntSpan >= IntSpan \div 2

OpenSeek ==
    /\ pc = "found"
    /\ \/ ~disk[cur].linked /\ Finish("error")
       \/ /\ disk[cur].linked
          /\ TruncatedNegative(off)
          /\ Finish("error") \/ Finish("silent")
       \/ /\ disk[cur].linked
          /\ ~TruncatedNegative(off)
          /\ pc' = "record"
          /\ UNCHANGED <<off, bounds, rr, ans>>
    /\ UNCHANGED <<diskVars, indexVars, passVars, cur, ts>>

ReadRecord ==
    /\ pc = "record"
    /\ \/ /\ ReadAt(disk[cur], off) = {} \/ "eio" \in Events
          /\ Finish("error")
       \/ /\ rr' \in ReadAt(disk[cur], off)
          /\ pc' = "sstat"
          /\ UNCHANGED <<off, bounds, ans>>
    /\ UNCHANGED <<diskVars, indexVars, passVars, cur, ts>>

(* The first block ends where the second starts.                            *)
SstatIntact    == Intact(disk[cur], off, off + RecLen + rr.scomplen)
DevtstatIntact == Intact(disk[cur], off, NextOffset(rr, off))

GetSstat ==
    /\ pc = "sstat"
    /\ \/ /\ SstatIntact
          /\ pc' = "devtstat"
          /\ UNCHANGED <<off, bounds, rr, ans>>
       \/ /\ ~SstatIntact \/ "malloc" \in Events
          /\ Finish("error")
    /\ UNCHANGED <<diskVars, indexVars, passVars, cur, ts>>

(* The second block, and the answer (jsonout).                              *)
GetDevtstat ==
    /\ pc = "devtstat"
    /\ \/ /\ DevtstatIntact
          /\ Finish("ok")
       \/ /\ ~DevtstatIntact \/ "malloc" \in Events
          /\ Finish("error")
    /\ UNCHANGED <<diskVars, indexVars, passVars, cur, ts>>

Refresh ==
    \/ Opendir
    \/ \E n \in Names : Readdir(n)
    \/ ReaddirEnd
    \/ StatKnown \/ RebuildOne \/ ParseHeader \/ Pread \/ Fstat

Answer == Search \/ OpenSeek \/ ReadRecord \/ GetSstat \/ GetDevtstat

Next ==
    \/ Environment
    \/ Refresh
    \/ \E t \in Times : Query(t)
    \/ Answer
    \/ Throttled

(* The thread goes on by itself except while it waits for a request.        *)
Fairness == WF_vars(Refresh \/ Answer \/ Throttled)

Spec == Init /\ [][Next]_vars /\ Fairness
----------------------------------------------------------------------------
(* Properties                                                               *)

Known == Range(order)

DiskOK ==
    /\ disk \in [Names -> FileType]
    /\ current \in Names \cup {NoName}
    /\ clock \in Nat

IndexOK ==
    /\ order \in Seq(Names)
    /\ cache \in [Names -> CacheType]
    /\ \A n \in Names : Len(cache[n].elems) <= cache[n].max_elems

ThreadOK ==
    /\ pc \in ServerStates
    /\ listed \subseteq Names /\ must \subseteq Names /\ fresh \in BOOLEAN
    /\ cur \in Names \cup {NoName}
    /\ off \in Nat
    /\ ts \in Nat
    /\ bounds \in [left : Nat, right : Nat]
    /\ rr \in Record \cup {NoRec}
    /\ ans \in [status : {"none", "ok", "error", "silent"}, time : Nat]

(* The variables have the types of the C variables they stand for, and no   *)
(* elems[] array holds more than its max_elems entries (cache_set writes    *)
(* only after growing it).                                                  *)
TypeOK == DiskOK /\ IndexOK /\ ThreadOK

(* Whatever the files hold (clocks set back, truncated or damaged logs),    *)
(* every cache is sorted by time: the bisection of cache_get depends on it. *)
TimesAscend == \A n \in Known : AscendingTimes(cache[n].elems)

(* The assertions of cache.c hold: cache_alloc never meets a name that is   *)
(* in the table already, and __cache_get never meets an empty cache.        *)
AssertionsHold ==
    /\ IsInjective(order)
    /\ pc # "aborted"

(* Between two passes the server is ready for a query: the table is sorted  *)
(* by first time and no cache in it is empty.                               *)
ReadyWhenIdle ==
    pc \in {"idle", "answered"} =>
        /\ OrderedByFirst(order, cache)
        /\ \A n \in Known : cache[n].elems # <<>>

(* Every indexed offset is that of a record of the file, with that record's *)
(* time: rebuild_one resumes on a record boundary, even after the clock was *)
(* set back and even when the file grew or was unlinked in between.         *)
OffsetsAreRecords ==
    \A n \in Known : \A e \in Range(cache[n].elems) :
        \E r \in Range(disk[n].recs) : e = Elem(r.time, r.off)

(* While the clock runs forward, a cache is the file's first records, in    *)
(* file order, each once: no record is skipped or indexed twice, over any   *)
(* number of passes that race with the writer.                              *)
IndexIsPrefix ==
    \A n \in Known :
        LET es == cache[n].elems
            rs == disk[n].recs
        IN  /\ Len(es) <= Len(rs)
            /\ \A i \in DOMAIN es : es[i] = Elem(rs[i].time, rs[i].off)

(* A read loop that ends has indexed every record the file holds at that    *)
(* moment, those it skipped in an earlier pass included.                    *)
CaughtUp ==
    [][(pc = "pread" /\ pc' = "fstat") =>
        \A r \in Range(disk[cur].recs) :
            Elem(r.time, r.off) \in Range(cache[cur].elems)]_vars

IndexedTimes == UNION { { e.time : e \in Range(cache[n].elems) } : n \in Known }

(* While the clock runs forward, the sample served is the right one, though *)
(* it is read from the file several steps after the index was searched: the *)
(* first at or after the time asked for in the log that covers it (the      *)
(* first of the log when that has at most two), else the newest of all.     *)
AnswerIsClosest ==
    (pc = "answered" /\ ans.status = "ok") =>
        LET times == { e.time : e \in Range(cache[cur].elems) }
        IN  \/ /\ Covers(cache[cur], ts)
               /\ ans.time \in times
               /\ IF TakesFirst(cache[cur])
                  THEN \A t \in times : ans.time <= t
                  ELSE ts <= ans.time /\ \A t \in times : t >= ts => ans.time <= t
            \/ /\ \A n \in Known : ~Covers(cache[n], ts)
               /\ ans.time <= ts
               /\ \A t \in IndexedTimes : t <= ans.time

(* The index promises what SampleIndex says: passes and queries of the one  *)
(* thread, between which atop writes, only ever teach it samples of the     *)
(* file, lose none, and serve what it knows.                                *)
Promise == INSTANCE SampleIndex WITH
    Samples <- [time : Times, off : Nat],
    stored  <- [n \in Names |-> { Elem(r.time, r.off) : r \in Range(disk[n].recs) }],
    known   <- [n \in Names |-> IF n \in Known THEN Range(cache[n].elems) ELSE {}],
    reply   <- IF ans.status = "ok" THEN {ans.time} ELSE {}

KeepsPromise == Promise!Spec

(* The server never gets stuck in a pass or in an answer: the read loops    *)
(* end although atop may append while they run.                             *)
ServerReturns == pc \notin {"idle", "exited", "aborted"} ~> pc \in {"idle", "exited", "aborted"}

(* A claim a comment of the code makes and the code does not keep.          *)

(* A log whose remembered size is its size on disk (which is what makes     *)
(* parse_one skip it) has all its records indexed: "read all rawrecords,    *)
(* cache time&off mapping".                                                 *)
SameSizeMeansIndexed ==
    \A n \in Known : (pc = "idle" /\ SizeUnchanged(n) /\ Complete(disk[n])) =>
        \A r \in Range(disk[n].recs) :
            Elem(r.time, r.off) \in Range(cache[n].elems)
=============================================================================
