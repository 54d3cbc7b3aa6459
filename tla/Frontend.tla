------------------------------- MODULE Frontend -------------------------------
(****************************************************************************)
(* The page (http/js/atop.js): keys change what to show and start a chain   *)
(* of requests to the server (process template, header, sample), whose      *)
(* answers are cached and rendered.  The answers come whenever they come,   *)
(* and the user presses keys in the meantime.                               *)
(*                                                                          *)
(* The handler of a key or of an answer is one step together with the       *)
(* promise reactions it triggers: the browser runs those before it handles  *)
(* anything else.  The server answers as rawlog.c does from an index that   *)
(* is up to date, or fails to answer.                                       *)
(****************************************************************************)
EXTENDS Integers, Sequences, SequencesExt, FiniteSetsExt

CONSTANTS
    Templates,  \* TempleteType
    Generic,    \* the one shown first
    Logs,       \* the logs: sequences of ascending times, in order of time
    Unreadable, \* times of samples whose text is no JSON (not RawClean)
    Step,       \* seconds that one press of t or T moves: 10
    Now,        \* time when the page is opened
    MaxDelta,   \* bound: how far t and T add up
    MaxQueue    \* bound: keys that wait for a chain to end

ASSUME TemplatesAssumption == Generic \in Templates
ASSUME LogsAssumption ==
    /\ Logs \in Seq(Seq(Nat \ {0})) /\ Logs # <<>>
    /\ \A l \in DOMAIN Logs : Logs[l] # <<>>
    /\ \A l \in DOMAIN Logs : \A i, j \in DOMAIN Logs[l] : i < j => Logs[l][i] < Logs[l][j]
    /\ \A l \in 1 .. Len(Logs) - 1 : Last(Logs[l]) < Logs[l + 1][1]
ASSUME NumbersAssumption ==
    /\ Step \in Nat \ {0} /\ Now \in Nat \ {0} /\ MaxDelta \in Nat /\ MaxQueue \in Nat

VARIABLES
    pre_timestamp, delta,               \* the time shown, and how far to move
    template_type, only_proc,           \* what to show
    change,                             \* change_data and change_template
    init,                               \* nothing was rendered yet
    loading,                            \* a chain is under way
    queue,                              \* chains that wait: init or later
    cache,                              \* the templates and the sample received
    inflight,                           \* chains that wait for an answer
    shown,                              \* what was rendered last
    onloaded,                           \* window.onload has run
    (* history, for the properties *)
    early,                              \* a key came before onload
    failed,                             \* an answer was no template or sample
    missed                              \* a template key came during a chain

wishVars == <<pre_timestamp, delta, template_type, only_proc>>
pastVars == <<onloaded, early, failed, missed>>
vars     == <<wishVars, change, init, loading, queue, cache, inflight, shown, pastVars>>

NoTemplate == "none"
NoSample   == -1      \* what JSON.parse refuses: the empty text, an error
Nothing    == [data |-> FALSE, template |-> FALSE]
Everything == [data |-> TRUE, template |-> TRUE]

Init ==
    /\ pre_timestamp = Now /\ delta = 0
    /\ template_type = Generic /\ only_proc = TRUE
    /\ change = Nothing
    /\ init = TRUE /\ loading = FALSE /\ queue = <<>>
    /\ cache = [header |-> FALSE, process |-> NoTemplate, data |-> NoSample]
    /\ inflight = {}
    /\ shown = [template |-> NoTemplate, only_proc |-> TRUE, time |-> NoSample]
    /\ onloaded = FALSE /\ early = FALSE /\ failed = FALSE /\ missed = FALSE

----------------------------------------------------------------------------
(* The server's answer to a request for the sample at ts.                   *)

Newest == Last(Last(Logs))

Covering(ts) == { l \in DOMAIN Logs : Logs[l][1] <= ts /\ ts <= Last(Logs[l]) }

(* Mutant: the sample before the time asked for.                            *)
FoundBefore(log, ts) == Max({ t \in Range(log) : t <= ts })

(* cache_get: of a log that covers ts.                                      *)
Found(log, ts) == IF Len(log) <= 2 THEN log[1] ELSE Min({ t \in Range(log) : t >= ts })

(* rawlog_get_record: else the newest of all, for a time that is later.     *)
rawlog_get_record(ts) ==
    CASE Covering(ts) # {}                  -> Found(Logs[Min(Covering(ts))], ts)
      [] Covering(ts) = {} /\ ts >= Newest  -> Newest
      [] Covering(ts) = {} /\ ts < Newest   -> NoSample

----------------------------------------------------------------------------
(* Rendering                                                                *)

(* Mutant: the text of an error is rendered too.                            *)
RenderableAny(c) == c.header

(* What JSON.parse accepts.                                                 *)
Parses(data) == data \notin Unreadable \cup {NoSample}

(* Rendering needs a sample that parses, and without the header the         *)
(* template has no root element.                                            *)
Renderable(c) == c.header /\ Parses(c.data)

(* Mutant: loading is not reset.                                            *)
FinishLoading(kind, c) ==
    /\ pre_timestamp' = c.data
    /\ shown' = [template |-> c.process, only_proc |-> only_proc', time |-> c.data]
    /\ init' = (init /\ kind # "init")
    /\ change' = Nothing
    /\ queue' = <<>>
    /\ loading' = TRUE

(* The end of a chain: render from the caches with the settings of this     *)
(* moment.  The chains that wait are resolved without a request: what is    *)
(* left of an init chain renders the same again, and what is left of any    *)
(* other stops at the parameters it lacks.                                  *)
Finish(kind, c) ==
    /\ pre_timestamp' = c.data
    /\ shown' = [template |-> c.process, only_proc |-> only_proc', time |-> c.data]
    /\ init' = (init /\ kind # "init")
    /\ change' = Nothing
    /\ queue' = <<>>
    /\ loading' = FALSE

(* Rendering throws: the rest of the function does not run, loading stays   *)
(* set, and no chain will start again.                                      *)
Throw(c, flags) ==
    /\ pre_timestamp' = IF Parses(c.data) THEN c.data ELSE pre_timestamp
    /\ change' = flags
    /\ loading' = TRUE
    /\ UNCHANGED <<shown, init, queue>>

LoadHtmlFromJson(kind, c, flags) ==
    IF Renderable(c) THEN Finish(kind, c) ELSE Throw(c, flags)

----------------------------------------------------------------------------
(* main: start a chain, or put it into the queue.                           *)

Requests == {"process", "header", "data"}

(* The requests a chain makes: the templates, if they changed or there are  *)
(* none, and the sample.                                                    *)
Todo(kind, flags) ==
    { r \in Requests : CASE r = "process" -> flags.template
                         [] r = "header"  -> kind = "init"
                         [] r = "data"    -> flags.data }

Chain(kind, d, flags) ==
    [kind |-> kind, todo |-> Todo(kind, flags), type |-> template_type',
     from |-> pre_timestamp, ts |-> pre_timestamp + d]

(* Mutant: a chain starts whether or not another is under way.              *)
MayQueueNever == FALSE

MustQueue == loading

(* d and flags: delta and change after the key was looked at.               *)
main(d, flags) ==
    LET kind == IF d = 0 /\ init THEN "init" ELSE "later"
    IN  /\ delta' = 0
        /\ UNCHANGED cache
        /\ \/ /\ MustQueue
              /\ queue' = Append(queue, kind)
              /\ change' = flags
              /\ UNCHANGED <<pre_timestamp, init, loading, inflight, shown>>
           \/ /\ ~MustQueue /\ Todo(kind, flags) # {}
              /\ inflight' = inflight \cup {Chain(kind, d, flags)}
              /\ loading' = TRUE
              /\ change' = flags
              /\ UNCHANGED <<pre_timestamp, init, queue, shown>>
           \/ /\ ~MustQueue /\ Todo(kind, flags) = {}
              /\ LoadHtmlFromJson(kind, cache, flags)
              /\ UNCHANGED inflight

onload ==
    /\ ~onloaded
    /\ onloaded' = TRUE
    /\ UNCHANGED <<template_type, only_proc, early, failed, missed>>
    /\ main(delta, Everything)

----------------------------------------------------------------------------
(* onkeydown                                                                *)

Key == early' = (early \/ ~onloaded) /\ UNCHANGED <<onloaded, failed>>

(* Bounds on what the user does.                                            *)
InBounds(d) == -MaxDelta <= d /\ d <= MaxDelta
Patient     == Len(queue) < MaxQueue

(* t and T: during a chain they only add up.                                *)
KeyStep(d) ==
    /\ InBounds(delta + d)
    /\ Key
    /\ UNCHANGED <<template_type, only_proc, missed>>
    /\ \/ /\ loading
          /\ delta' = delta + d
          /\ UNCHANGED <<pre_timestamp, change, init, loading, queue, cache,
                         inflight, shown>>
       \/ /\ ~loading
          /\ main(delta + d, [change EXCEPT !.data = TRUE])

(* b: go to a time, or, when none or a wrong one is entered, ask again.     *)
KeyTime(d) ==
    /\ Patient
    /\ Key
    /\ UNCHANGED <<template_type, only_proc, missed>>
    /\ main(d, [change EXCEPT !.data = TRUE])

(* b, with four letters or so that are no number: the time is NaN, which    *)
(* the server reads as 0.                                                   *)
KeyNaN ==
    /\ Patient
    /\ Key
    /\ UNCHANGED <<template_type, only_proc, missed>>
    /\ main(-pre_timestamp, [change EXCEPT !.data = TRUE])

(* Mutant: the template is chosen and not asked for.                        *)
KeyTemplateOnly(type) ==
    /\ Patient
    /\ Key
    /\ template_type' = type
    /\ missed' = (missed \/ loading)
    /\ UNCHANGED only_proc
    /\ main(delta, change)

(* g, m, d, c.                                                              *)
KeyTemplate(type) ==
    /\ Patient
    /\ Key
    /\ template_type' = type
    /\ missed' = (missed \/ loading)
    /\ UNCHANGED only_proc
    /\ main(delta, [change EXCEPT !.template = TRUE])

(* y.                                                                       *)
KeyThreads ==
    /\ Patient
    /\ Key
    /\ only_proc' = ~only_proc
    /\ UNCHANGED <<template_type, missed>>
    /\ main(delta, [change EXCEPT !.template = TRUE])

(* l and /: settings that are read when the page is rendered.               *)
KeySetting ==
    /\ Patient
    /\ Key
    /\ UNCHANGED <<template_type, only_proc, missed>>
    /\ main(delta, change)

----------------------------------------------------------------------------
(* Answers                                                                  *)

(* The request under way: they are made one after the other, in this order. *)
Asked(c) ==
    CASE "process" \in c.todo                            -> "process"
      [] "process" \notin c.todo /\ "header" \in c.todo -> "header"
      [] OTHER                                           -> "data"

(* Mutant: after the sample the template is asked for again.                *)
RestAgain(c) == IF Asked(c) = "data" THEN {"process", "data"} ELSE c.todo \ {Asked(c)}

Rest(c) == c.todo \ {Asked(c)}

(* What the answer to a chain's request puts into the caches.               *)
Received(c) ==
    CASE Asked(c) = "process" -> [cache EXCEPT !.process = c.type]
      [] Asked(c) = "header"  -> [cache EXCEPT !.header = TRUE]
      [] Asked(c) = "data"    -> [cache EXCEPT !.data = rawlog_get_record(c.ts)]

Answer(c) ==
    /\ c \in inflight
    /\ UNCHANGED <<delta, template_type, only_proc, onloaded, early>>
    /\ cache' = Received(c)
    /\ failed' = (failed \/ (Asked(c) = "data" /\ cache'.data = NoSample))
    /\ missed' = (missed /\ ~(Asked(c) = "process" /\ c.type = template_type))
    /\ \/ /\ Rest(c) # {}
          /\ inflight' = (inflight \ {c}) \cup {[c EXCEPT !.todo = Rest(c)]}
          /\ UNCHANGED <<pre_timestamp, change, init, loading, queue, shown>>
       \/ /\ Rest(c) = {}
          /\ inflight' = inflight \ {c}
          /\ LoadHtmlFromJson(c.kind, cache', change)

(* No answer, or a status other than 200: the promise is never resolved.    *)
NoAnswer(c) ==
    /\ c \in inflight
    /\ inflight' = inflight \ {c}
    /\ failed' = TRUE
    /\ UNCHANGED <<wishVars, change, init, loading, queue, cache, shown,
                   onloaded, early, missed>>

Browser ==
    \/ onload
    \/ \E c \in inflight : Answer(c) \/ NoAnswer(c)

User ==
    \/ \E d \in {Step, -Step} : KeyStep(d)
    \/ \E d \in -MaxDelta .. MaxDelta : KeyTime(d)
    \/ KeyNaN
    \/ \E type \in Templates : KeyTemplate(type)
    \/ KeyThreads \/ KeySetting

Next == Browser \/ User

(* The page gets loaded and a request comes to an end; the user may stop.   *)
Spec == Init /\ [][Next]_vars /\ WF_vars(Browser)
----------------------------------------------------------------------------
(* Properties                                                               *)

SampleTimes == UNION { Range(Logs[l]) : l \in DOMAIN Logs }
ChainType   == [kind : {"init", "later"}, todo : SUBSET Requests,
                type : Templates, from : Nat, ts : Int]

(* The variables have the types of the JavaScript variables they stand for; *)
(* in particular the time shown is always a number.                         *)
FrontendTypeOK ==
    /\ pre_timestamp \in SampleTimes \cup {Now} /\ delta \in -MaxDelta .. MaxDelta
    /\ template_type \in Templates /\ only_proc \in BOOLEAN
    /\ change \in [data : BOOLEAN, template : BOOLEAN]
    /\ init \in BOOLEAN /\ loading \in BOOLEAN
    /\ queue \in Seq({"init", "later"})
    /\ cache \in [header : BOOLEAN, process : Templates \cup {NoTemplate},
                  data : SampleTimes \cup {NoSample}]
    /\ inflight \subseteq ChainType
    /\ shown \in [template : Templates \cup {NoTemplate}, only_proc : BOOLEAN,
                  time : SampleTimes \cup {NoSample}]
    /\ onloaded \in BOOLEAN /\ early \in BOOLEAN /\ failed \in BOOLEAN /\ missed \in BOOLEAN

(* However fast the keys are pressed, at most one chain of requests is      *)
(* under way, so that no answer can overtake another; a page that is not    *)
(* loading has none and nobody waits in the queue; and the first page is    *)
(* rendered by the chain that fetched the header.                           *)
OneChain ==
    /\ \A c, d \in inflight : c = d
    /\ ~loading => inflight = {} /\ queue = <<>>
    /\ init <=> shown.time = NoSample

(* The page goes dead (it says it is loading, and nothing is under way)     *)
(* only when an answer failed, there was no sample at the time asked for,   *)
(* the sample is one that JSON.parse refuses, or a key was pressed before   *)
(* the page was loaded.                                                     *)
PageAlive ==
    (loading /\ inflight = {}) => (failed \/ early \/ cache.data \in Unreadable)

(* A page at rest shows what the user chose last: the settings always,      *)
(* though they may have changed while the answers were on their way, and    *)
(* the template unless it was chosen during a chain.                        *)
ShowsChoice ==
    (~loading /\ ~init /\ ~early) =>
        /\ shown.only_proc = only_proc
        /\ shown.time = pre_timestamp
        /\ shown.template = template_type \/ (missed /\ shown.template \in Templates)

Long(ts)  == \A l \in Covering(ts) : Len(Logs[l]) > 2
Dense(ts) == \A l \in Covering(ts) : \A i \in 2 .. Len(Logs[l]) :
                 Logs[l][i] - Logs[l][i - 1] <= Step

(* Moving forward in time shows a later sample, if there is one, and moving *)
(* back by ten seconds or more an earlier one, whatever keys came in        *)
(* between: forward in a log of three samples or more, back in one whose    *)
(* samples are at most ten seconds apart.                                   *)
Moves ==
    [][\A c \in inflight :
        (Asked(c) = "data" /\ ~loading' /\ Long(c.ts)) =>
            /\ c.ts > c.from => pre_timestamp' > c.from \/ c.from >= Newest
            /\ c.ts <= c.from - Step /\ Dense(c.ts) => pre_timestamp' < c.from]_vars

(* Every chain ends: the page is at rest again, or dead.                    *)
Settles == loading ~> (~loading \/ inflight = {})
=============================================================================
