---------------------------- MODULE FrontendProofs ----------------------------
(****************************************************************************)
(* The page keeps one chain of requests under way, and goes dead only for   *)
(* the reasons PageAlive names; at rest it shows what was chosen; and t and *)
(* T move the time shown: whatever the logs, templates and bounds.          *)
(****************************************************************************)
EXTENDS Frontend, WellFoundedInduction, TLAPS

Flags ==
    /\ loading \in BOOLEAN /\ init \in BOOLEAN /\ onloaded \in BOOLEAN
    /\ early \in BOOLEAN /\ failed \in BOOLEAN

Values ==
    /\ delta \in Int
    /\ change \in [data : BOOLEAN, template : BOOLEAN]
    /\ cache = [header |-> cache.header, process |-> cache.process, data |-> cache.data]
    /\ cache.header \in BOOLEAN

Typed == Flags /\ Values

(* A chain that is under way has something to ask for.  Only the chain of   *)
(* the first page asks for the header, and until it has it, it will.        *)
ChainOK(c) ==
    /\ c.kind \in {"init", "later"}
    /\ c.todo \subseteq Requests /\ c.todo # {}
    /\ c = [kind |-> c.kind, todo |-> c.todo, type |-> c.type, from |-> c.from, ts |-> c.ts]
    /\ "header" \in c.todo => c.kind = "init"
    /\ c.kind = "init" => init /\ (cache.header \/ "header" \in c.todo)

(* Before anything is rendered only the chain of the first page can have    *)
(* got the header, so no other can render.                                  *)
HeaderByFirst == (cache.header /\ init) => loading /\ \A c \in inflight : c.kind = "init"

(* As long as no answer failed and no key came too early: the first chain   *)
(* is the one of onload, which asks for everything; the ones after it find  *)
(* what it got in the caches.                                               *)
Undisturbed ==
    ~early =>
        /\ ~onloaded => delta = 0 /\ ~loading /\ init
        /\ onloaded /\ init => loading
        /\ \A c \in inflight : c.kind = "later" => ~init
        /\ ~failed => /\ ~init => cache.header /\ cache.data # NoSample
                      /\ \A c \in inflight : c.kind = "init" =>
                            "data" \in c.todo \/ cache.data # NoSample

PageInv ==
    /\ Typed /\ OneChain /\ PageAlive
    /\ \A c \in inflight : ChainOK(c)
    /\ HeaderByFirst /\ Undisturbed

----------------------------------------------------------------------------
(* What is left to ask for after an answer.                                 *)
LEMMA RestFacts ==
    ASSUME NEW c, c.todo \subseteq Requests, c.todo # {}
    PROVE  Asked(c) \in c.todo /\ Rest(c) \subseteq Requests
  BY DEF Asked, Rest, Requests

----------------------------------------------------------------------------
(* main keeps the invariant, called by a key or by onload.                  *)
LEMMA MainKeeps ==
    ASSUME PageInv,
           NEW d, NEW flags \in [data : BOOLEAN, template : BOOLEAN],
           main(d, flags),
           early' \in BOOLEAN, early => early', failed' = failed, onloaded' \in BOOLEAN,
           ~early' => onloaded',
           ~early' /\ ~onloaded => d = 0 /\ flags.data
    PROVE  PageInv'
<1> DEFINE kind == IF d = 0 /\ init THEN "init" ELSE "later"
           todo == Todo(kind, flags)
<1> USE DEF PageInv
<1>0. kind \in {"init", "later"}  OBVIOUS
<1>1. CASE MustQueue
  <2>1. /\ delta' = 0 /\ change' = flags /\ loading
        /\ UNCHANGED <<cache, pre_timestamp, init, loading, inflight, shown>>
    BY <1>1 DEF main, MustQueue
  <2>2. Typed' /\ OneChain' /\ PageAlive' /\ HeaderByFirst'
    BY <2>1 DEF Typed, Flags, Values, OneChain, PageAlive, HeaderByFirst
  <2>3. (\A c \in inflight : ChainOK(c))'
    BY <2>1 DEF ChainOK
  <2>4. Undisturbed'
    BY <2>1 DEF Undisturbed, Typed, Flags, Values
  <2> QED  BY <2>2, <2>3, <2>4
<1>2. CASE ~MustQueue /\ todo # {}
  <2> DEFINE n == Chain(kind, d, flags)
  <2>1. /\ delta' = 0 /\ change' = flags /\ ~loading /\ loading'
        /\ loading' = TRUE
        /\ inflight = {} /\ inflight' = {n} /\ queue = <<>>
        /\ UNCHANGED <<cache, pre_timestamp, init, shown, queue>>
    <3>1. /\ delta' = 0 /\ change' = flags /\ loading' = TRUE
          /\ inflight' = inflight \cup {n}
          /\ UNCHANGED <<cache, pre_timestamp, init, shown, queue>>
      BY <1>2 DEF main, MustQueue
    <3> QED  BY <1>2, <3>1 DEF MustQueue, OneChain
  <2>2. /\ n.kind = kind /\ n.todo = todo
        /\ n = [kind |-> n.kind, todo |-> n.todo, type |-> n.type, from |-> n.from, ts |-> n.ts]
    BY DEF Chain
  <2>3. Typed' /\ OneChain' /\ PageAlive'
    <3> HIDE DEF n
    <3>1. Typed'
      <4>1. Flags'  BY <2>1 DEF Typed, Flags
      <4>2. Values'  BY <2>1 DEF Typed, Values
      <4> QED  BY <4>1, <4>2 DEF Typed
    <3>2. OneChain'  BY <2>1 DEF OneChain
    <3>3. PageAlive'  BY <2>1 DEF PageAlive
    <3> QED  BY <3>1, <3>2, <3>3
  <2>4. (\A c \in inflight : ChainOK(c))'
    BY <1>0, <1>2, <2>1, <2>2 DEF Todo, Requests, ChainOK
  <2>5. HeaderByFirst'
    BY <2>1, <2>2 DEF HeaderByFirst
  <2>6. Undisturbed'
    <3> SUFFICES ASSUME ~early' PROVE Undisturbed'
      BY DEF Undisturbed
    <3>1. ~early /\ onloaded'  OBVIOUS
    <3>2. kind = "later" => ~init
      BY <2>1, <3>1 DEF Undisturbed, Typed, Flags, Values
    <3>3. kind = "init" => "data" \in n.todo
      BY <1>0, <2>1, <2>2, <3>1 DEF Todo, Requests, Undisturbed, Typed, Flags, Values
    <3>4. ~failed /\ ~init => cache.header /\ cache.data # NoSample
      BY <3>1 DEF Undisturbed
    <3> QED  BY <2>1, <2>2, <3>1, <3>2, <3>3, <3>4 DEF Undisturbed
  <2> QED  BY <2>3, <2>4, <2>5, <2>6
<1>3. CASE ~MustQueue /\ todo = {}
  <2>1. /\ delta' = 0 /\ ~loading /\ inflight = {} /\ inflight' = {} /\ queue = <<>>
        /\ cache' = cache
        /\ LoadHtmlFromJson(kind, cache, flags)
    BY <1>3 DEF main, MustQueue, OneChain
  <2>2. kind = "later"
    BY <1>0, <1>3 DEF Todo, Requests
  <2>3. CASE Renderable(cache)
    <3>1. /\ change' = Nothing /\ queue' = <<>> /\ loading' = FALSE
          /\ shown'.time = cache.data /\ init' = init
          /\ cache.header /\ cache.data # NoSample
      BY <2>1, <2>2, <2>3 DEF LoadHtmlFromJson, Finish, Renderable, Parses, Typed, Flags, Values
    <3>2. ~init
      BY <2>1, <3>1 DEF HeaderByFirst, Typed, Flags, Values
    <3>3. Typed' /\ OneChain' /\ PageAlive' /\ HeaderByFirst'
      <4>0. Nothing \in [data : BOOLEAN, template : BOOLEAN]  BY DEF Nothing
      <4>1. Typed'
        <5>1. Flags'  BY <2>1, <3>1, <4>0 DEF Typed, Flags
        <5>2. Values'  BY <2>1, <3>1, <4>0 DEF Typed, Values
        <5> QED  BY <5>1, <5>2 DEF Typed
      <4>2. OneChain'  BY <2>1, <3>1, <3>2 DEF OneChain
      <4>3. PageAlive' /\ HeaderByFirst'  BY <2>1, <3>1, <3>2 DEF PageAlive, HeaderByFirst
      <4> QED  BY <4>1, <4>2, <4>3
    <3>4. (\A c \in inflight : ChainOK(c))'
      BY <2>1
    <3>5. Undisturbed'
      BY <2>1, <3>1, <3>2 DEF Undisturbed
    <3> QED  BY <3>3, <3>4, <3>5
  <2>4. CASE ~Renderable(cache)
    <3>1. change' = flags /\ loading' = TRUE /\ UNCHANGED <<shown, init, queue>>
      BY <2>1, <2>4 DEF LoadHtmlFromJson, Throw
    <3>2. early' \/ failed \/ cache.data \in Unreadable
      <4> SUFFICES ASSUME ~early', ~failed, cache.data \notin Unreadable PROVE FALSE
        BY DEF Typed, Flags, Values
      <4>1. onloaded => ~init
        BY <2>1 DEF Undisturbed, Typed, Flags, Values
      <4>2. ~onloaded => d = 0 /\ init
        BY DEF Undisturbed, Typed, Flags, Values
      <4>3. ~init
        BY <2>2, <4>1, <4>2 DEF Typed, Flags, Values
      <4> QED  BY <2>4, <4>3 DEF Undisturbed, Renderable, Parses, Typed, Flags, Values
    <3>3. Typed' /\ OneChain' /\ PageAlive' /\ HeaderByFirst'
      BY <2>1, <3>1, <3>2 DEF Typed, Flags, Values, OneChain, PageAlive, HeaderByFirst
    <3>4. (\A c \in inflight : ChainOK(c))'
      BY <2>1
    <3>5. Undisturbed'
      BY <2>1, <3>1, <3>2 DEF Undisturbed, Typed, Flags, Values
    <3> QED  BY <3>3, <3>4, <3>5
  <2> QED  BY <2>3, <2>4
<1> QED  BY <1>1, <1>2, <1>3

----------------------------------------------------------------------------
(* What an answer leaves in the caches.                                     *)
LEMMA ReceivedFacts ==
    ASSUME Typed, NEW c, c.todo \subseteq Requests, c.todo # {}
    PROVE  /\ Received(c).header = (cache.header \/ Asked(c) = "header")
           /\ Asked(c) # "data" => Received(c).data = cache.data
           /\ Received(c) = [header |-> Received(c).header, process |-> Received(c).process,
                             data |-> Received(c).data]
<1>1. Asked(c) \in {"process", "header", "data"}
  BY RestFacts DEF Requests
<1>2. CASE Asked(c) = "process"
  BY <1>2 DEF Received, Typed, Flags, Values
<1>3. CASE Asked(c) = "header"
  BY <1>3 DEF Received, Typed, Flags, Values
<1>4. CASE Asked(c) = "data"
  BY <1>4 DEF Received, Typed, Flags, Values
<1> QED  BY <1>1, <1>2, <1>3, <1>4

(* An answer keeps the invariant: the chain goes on with its next request,  *)
(* or ends and renders, or throws.                                          *)
LEMMA AnswerKeeps ==
    ASSUME PageInv, NEW c \in inflight, Answer(c)
    PROVE  PageInv'
<1> USE DEF PageInv
<1>1. /\ inflight = {c} /\ loading /\ ChainOK(c)
      /\ c.todo \subseteq Requests /\ c.todo # {} /\ c.kind \in {"init", "later"}
  BY DEF OneChain, ChainOK
<1>2. Asked(c) \in c.todo /\ Rest(c) \subseteq Requests /\ Rest(c) = c.todo \ {Asked(c)}
  BY <1>1, RestFacts DEF Rest
<1>3. /\ cache'.header = (cache.header \/ Asked(c) = "header")
      /\ Asked(c) # "data" => cache'.data = cache.data
      /\ cache' = [header |-> cache'.header, process |-> cache'.process, data |-> cache'.data]
      /\ cache'.header \in BOOLEAN
  <2>1. cache' = Received(c)  BY DEF Answer
  <2> QED  BY <1>1, <2>1, ReceivedFacts
<1>4. /\ failed' \in BOOLEAN
      /\ failed => failed'
      /\ Asked(c) = "data" /\ cache'.data = NoSample => failed'
      /\ UNCHANGED <<delta, onloaded, early>>
  BY DEF Answer, Typed, Flags, Values
<1>5. cache'.header /\ init => c.kind = "init"
  BY <1>1, <1>2, <1>3 DEF HeaderByFirst, ChainOK
<1>6. ~early => onloaded
  BY <1>1 DEF Undisturbed, Typed, Flags, Values
<1>7. CASE Rest(c) # {}
  <2> DEFINE n == [c EXCEPT !.todo = Rest(c)]
  <2>1. /\ inflight' = {n}
        /\ UNCHANGED <<pre_timestamp, change, init, loading, queue, shown>>
    BY <1>1, <1>7 DEF Answer
  <2>2. /\ n.kind = c.kind /\ n.todo = Rest(c)
        /\ n = [kind |-> n.kind, todo |-> n.todo, type |-> n.type, from |-> n.from, ts |-> n.ts]
    BY <1>1 DEF ChainOK
  <2> HIDE DEF n
  <2>3. Typed'
    <3>1. Flags'  BY <1>3, <1>4, <2>1 DEF Typed, Flags
    <3>2. Values'  BY <1>3, <1>4, <2>1 DEF Typed, Values
    <3> QED  BY <3>1, <3>2 DEF Typed
  <2>4. OneChain' /\ PageAlive'  BY <1>1, <2>1 DEF OneChain, PageAlive
  <2>5. (\A e \in inflight : ChainOK(e))'
    <3>1. "header" \in n.todo => n.kind = "init"
      BY <1>1, <1>2, <2>2 DEF ChainOK
    <3>2. n.kind = "init" => init /\ ("header" \in c.todo \/ cache.header)
      BY <1>1, <2>2 DEF ChainOK
    <3>3. "header" \in c.todo => "header" \in n.todo \/ Asked(c) = "header"
      BY <1>2, <2>2
    <3>4. n.kind = "init" => init' /\ (cache'.header \/ "header" \in n.todo)
      BY <1>3, <2>1, <3>2, <3>3
    <3>5. n.kind \in {"init", "later"} /\ n.todo \subseteq Requests /\ n.todo # {}
      BY <1>1, <1>2, <1>7, <2>2
    <3>6. ChainOK(n)'
      BY <2>2, <3>1, <3>4, <3>5 DEF ChainOK
    <3> QED  BY <2>1, <3>6
  <2>6. HeaderByFirst'  BY <1>1, <1>5, <2>1, <2>2 DEF HeaderByFirst
  <2>7. Undisturbed'
    <3> SUFFICES ASSUME ~early PROVE Undisturbed'
      BY <1>4 DEF Undisturbed
    <3>1. n.kind = "later" => ~init
      BY <1>1, <2>2 DEF Undisturbed
    <3>2. ~failed' /\ ~init => cache'.header /\ cache'.data # NoSample
      BY <1>3, <1>4 DEF Undisturbed, Typed, Flags, Values
    <3>3. ~failed' /\ n.kind = "init" => "data" \in n.todo \/ cache'.data # NoSample
      BY <1>1, <1>2, <1>3, <1>4, <2>2 DEF Undisturbed, Typed, Flags, Values
    <3> QED  BY <1>1, <1>4, <1>6, <2>1, <3>1, <3>2, <3>3 DEF Undisturbed
  <2> QED  BY <2>3, <2>4, <2>5, <2>6, <2>7
<1>8. CASE Rest(c) = {}
  <2>1. inflight' = {} /\ LoadHtmlFromJson(c.kind, cache', change)
    BY <1>1, <1>8 DEF Answer
  <2>2. CASE Renderable(cache')
    <3>1. /\ change' = Nothing /\ queue' = <<>> /\ loading' = FALSE
          /\ shown'.time = cache'.data /\ init' = (init /\ c.kind # "init")
          /\ cache'.header /\ cache'.data # NoSample
      BY <2>1, <2>2 DEF LoadHtmlFromJson, Finish, Renderable, Parses
    <3>2. init' = FALSE
      BY <1>5, <3>1 DEF Typed, Flags, Values
    <3>3. Typed'
      <4>1. Nothing \in [data : BOOLEAN, template : BOOLEAN]  BY DEF Nothing
      <4>2. Flags'  BY <1>4, <3>1, <3>2 DEF Typed, Flags
      <4>3. Values'  BY <1>3, <1>4, <3>1, <4>1 DEF Typed, Values
      <4> QED  BY <4>2, <4>3 DEF Typed
    <3>4. OneChain'  BY <2>1, <3>1, <3>2 DEF OneChain
    <3>5. PageAlive' /\ HeaderByFirst'  BY <2>1, <3>1, <3>2 DEF PageAlive, HeaderByFirst
    <3>6. Undisturbed'  BY <1>4, <1>6, <2>1, <3>1, <3>2 DEF Undisturbed
    <3> QED  BY <2>1, <3>3, <3>4, <3>5, <3>6
  <2>3. CASE ~Renderable(cache')
    <3>1. change' = change /\ loading' = TRUE /\ UNCHANGED <<shown, init, queue>>
      BY <2>1, <2>3 DEF LoadHtmlFromJson, Throw
    <3>2. failed' \/ early \/ cache'.data \in Unreadable
      <4> SUFFICES ASSUME ~failed', ~early, cache'.data \notin Unreadable PROVE FALSE
        BY <1>4 DEF Typed, Flags, Values
      <4>1. ~failed  BY <1>4
      <4>2. c.todo = {Asked(c)}  BY <1>2, <1>8
      <4>3. cache'.header
        <5>1. c.kind = "init" => cache'.header
          BY <1>1, <1>3, <4>2 DEF ChainOK
        <5>2. c.kind = "later" => cache'.header
          BY <1>1, <1>3, <4>1 DEF Undisturbed
        <5> QED  BY <1>1, <5>1, <5>2
      <4>4. cache'.data # NoSample
        BY <1>1, <1>3, <1>4, <4>1, <4>2 DEF Undisturbed
      <4> QED  BY <2>3, <4>3, <4>4 DEF Renderable, Parses
    <3>3. Typed'
      <4>1. Flags'  BY <1>3, <1>4, <3>1 DEF Typed, Flags
      <4>2. Values'  BY <1>3, <1>4, <3>1 DEF Typed, Values
      <4> QED  BY <4>1, <4>2 DEF Typed
    <3>4. OneChain'  BY <2>1, <3>1 DEF OneChain
    <3>5. PageAlive' /\ HeaderByFirst'  BY <1>4, <2>1, <3>1, <3>2 DEF PageAlive, HeaderByFirst
    <3>6. Undisturbed'
      BY <1>3, <1>4, <1>6, <2>1, <3>1 DEF Undisturbed, Typed, Flags, Values
    <3> QED  BY <2>1, <3>3, <3>4, <3>5, <3>6
  <2> QED  BY <2>2, <2>3
<1> QED  BY <1>7, <1>8

(* A request without an answer leaves the page dead.                        *)
LEMMA NoAnswerKeeps ==
    ASSUME PageInv, NEW c \in inflight, NoAnswer(c)
    PROVE  PageInv'
<1> USE DEF PageInv
<1>1. /\ inflight' \subseteq inflight /\ failed' = TRUE
      /\ UNCHANGED <<delta, change, init, loading, queue, cache, shown, onloaded, early>>
  BY DEF NoAnswer, wishVars
<1>2. Typed' /\ PageAlive'  BY <1>1 DEF Typed, Flags, Values, PageAlive
<1>3. OneChain'  BY <1>1 DEF OneChain
<1>4. (\A e \in inflight : ChainOK(e))'  BY <1>1 DEF ChainOK
<1>5. HeaderByFirst'  BY <1>1 DEF HeaderByFirst
<1>6. Undisturbed'  BY <1>1 DEF Undisturbed
<1> QED  BY <1>2, <1>3, <1>4, <1>5, <1>6

(* A key keeps the invariant.                                               *)
LEMMA UserKeeps ==
    ASSUME PageInv, User
    PROVE  PageInv'
<1> USE DEF PageInv
<1>0. delta \in Int /\ change \in [data : BOOLEAN, template : BOOLEAN]
  BY DEF Typed, Values
<1>1. /\ Step \in Int /\ delta \in Int
      /\ change \in [data : BOOLEAN, template : BOOLEAN]
      /\ [change EXCEPT !.data = TRUE] \in [data : BOOLEAN, template : BOOLEAN]
      /\ [change EXCEPT !.template = TRUE] \in [data : BOOLEAN, template : BOOLEAN]
  <2>1. Step \in Int  BY NumbersAssumption
  <2>2. [change EXCEPT !.data = TRUE] \in [data : BOOLEAN, template : BOOLEAN]  BY <1>0
  <2>3. [change EXCEPT !.template = TRUE] \in [data : BOOLEAN, template : BOOLEAN]  BY <1>0
  <2> QED  BY <1>0, <2>1, <2>2, <2>3
<1>2. ASSUME Key
      PROVE  /\ early' \in BOOLEAN /\ onloaded' \in BOOLEAN
             /\ UNCHANGED <<failed, onloaded>>
             /\ early => early'
             /\ ~early' => onloaded'
             /\ ~early' => onloaded
  BY <1>2 DEF Key, Typed, Flags, Values
<1>3. ASSUME NEW d \in {Step, -Step}, KeyStep(d)
      PROVE  PageInv'
  <2>1. Key /\ delta + d \in Int  BY <1>1, <1>3 DEF KeyStep
  <2>2. CASE loading
    <3>1. /\ delta' = delta + d
          /\ UNCHANGED <<change, init, loading, queue, cache, inflight, shown>>
      BY <1>3, <2>2 DEF KeyStep
    <3>2. Typed' /\ OneChain' /\ PageAlive' /\ HeaderByFirst'
      <4>1. Typed'
        <5>1. Flags'  BY <1>2, <2>1, <3>1 DEF Typed, Flags
        <5>2. Values'  BY <1>2, <2>1, <3>1 DEF Typed, Values
        <5> QED  BY <5>1, <5>2 DEF Typed
      <4>2. OneChain' /\ PageAlive' /\ HeaderByFirst'
        BY <1>2, <2>1, <3>1 DEF OneChain, PageAlive, HeaderByFirst
      <4> QED  BY <4>1, <4>2
    <3>3. (\A c \in inflight : ChainOK(c))'  BY <3>1 DEF ChainOK
    <3>4. Undisturbed'  BY <1>2, <2>1, <3>1 DEF Undisturbed, Typed, Flags, Values
    <3> QED  BY <3>2, <3>3, <3>4
  <2>3. CASE ~loading
    <3>1. main(delta + d, [change EXCEPT !.data = TRUE])
      BY <1>3, <2>3 DEF KeyStep
    <3> QED  BY <1>1, <1>2, <2>1, <3>1, MainKeeps
  <2> QED  BY <2>2, <2>3 DEF Typed
<1>4. ASSUME NEW d \in -MaxDelta .. MaxDelta, KeyTime(d)
      PROVE  PageInv'
  <2>1. Key /\ d \in Int /\ main(d, [change EXCEPT !.data = TRUE])
    BY <1>4, NumbersAssumption DEF KeyTime
  <2> QED  BY <1>1, <1>2, <2>1, MainKeeps
<1>5. ASSUME NEW type \in Templates, KeyTemplate(type)
      PROVE  PageInv'
  <2>1. Key /\ main(delta, [change EXCEPT !.template = TRUE])
    BY <1>5 DEF KeyTemplate
  <2> QED  BY <1>1, <1>2, <2>1, MainKeeps
<1>6. ASSUME KeyThreads
      PROVE  PageInv'
  <2>1. Key /\ main(delta, [change EXCEPT !.template = TRUE])
    BY <1>6 DEF KeyThreads
  <2> QED  BY <1>1, <1>2, <2>1, MainKeeps
<1>7. ASSUME KeySetting
      PROVE  PageInv'
  <2>1. Key /\ main(delta, change)
    BY <1>7 DEF KeySetting
  <2> QED  BY <1>1, <1>2, <2>1, MainKeeps
<1>8. ASSUME KeyNaN
      PROVE  PageInv'
  <2>1. Key /\ main(-pre_timestamp, [change EXCEPT !.data = TRUE])
    BY <1>8 DEF KeyNaN
  <2> QED  BY <1>1, <1>2, <2>1, MainKeeps
<1> QED  BY <1>3, <1>4, <1>5, <1>6, <1>7, <1>8 DEF User

(* The invariant holds at first and every step keeps it.                    *)
LEMMA PageInvInductive ==
    /\ Init => PageInv
    /\ PageInv /\ [Next]_vars => PageInv'
<1>1. ASSUME Init PROVE PageInv
  <2>1. Flags /\ Values
    <3>1. Flags  BY <1>1 DEF Init, Flags
    <3>2. Values  BY <1>1 DEF Init, Values, Nothing
    <3> QED  BY <3>1, <3>2
  <2>2. OneChain /\ PageAlive  BY <1>1 DEF Init, OneChain, PageAlive
  <2>3. HeaderByFirst /\ Undisturbed  BY <1>1 DEF Init, HeaderByFirst, Undisturbed
  <2>4. \A c \in inflight : ChainOK(c)  BY <1>1 DEF Init
  <2> QED  BY <2>1, <2>2, <2>3, <2>4 DEF PageInv, Typed, Flags, Values
<1>2. ASSUME PageInv, onload PROVE PageInv'
  <2>1. /\ ~onloaded /\ onloaded' = TRUE /\ UNCHANGED <<early, failed>>
        /\ main(delta, Everything)
    BY <1>2 DEF onload
  <2>2. /\ delta \in Int /\ early' \in BOOLEAN
        /\ Everything \in [data : BOOLEAN, template : BOOLEAN] /\ Everything.data
        /\ ~early => delta = 0
    BY <1>2, <2>1 DEF PageInv, Typed, Flags, Values, Everything, Undisturbed
  <2> QED  BY <1>2, <2>1, <2>2, MainKeeps
<1>3. ASSUME PageInv, UNCHANGED vars PROVE PageInv'
  BY <1>3 DEF PageInv, Typed, Flags, Values, OneChain, PageAlive, ChainOK, HeaderByFirst, Undisturbed,
              vars, wishVars, pastVars
<1> QED
  BY <1>1, <1>2, <1>3, AnswerKeeps, NoAnswerKeeps, UserKeeps DEF Next, Browser

(* However fast the keys are pressed (main and its queue, atop.js), at most *)
(* one chain of requests is under way, for any logs and any templates.      *)
THEOREM OneChainAtATime == Spec => []OneChain
<1>1. PageInv => OneChain  BY DEF PageInv
<1> QED  BY <1>1, PageInvInductive, PTL DEF Spec

(* The page stops answering keys (loading stays set, atop.js) only after a  *)
(* failed answer, a time without a sample, a sample that JSON.parse         *)
(* refuses, or a key before onload.                                         *)
THEOREM PageStaysAlive == Spec => []PageAlive
<1>1. PageInv => PageAlive  BY DEF PageInv
<1> QED  BY <1>1, PageInvInductive, PTL DEF Spec

----------------------------------------------------------------------------
(* What the server answers                                                  *)

(* The least of some natural numbers is one of them.                        *)
LEMMA LeastIsMember ==
    ASSUME NEW T, T \subseteq Nat, T # {}
    PROVE  Min(T) \in T /\ \A y \in T : Min(T) <= y
<1> DEFINE R == OpToRel(<, Nat)
<1>1. IsWellFoundedOn(R, Nat)
  BY NatLessThanWellFounded, Zenon
<1>2. \A x, y \in Nat : x < y => <<x, y>> \in R
  BY DEF OpToRel
<1> HIDE DEF R
<1>3. PICK x \in T : \A y \in T : ~(<<y, x>> \in R)
  BY <1>1, WFMin
<1>4. \A y \in T : x <= y
  <2> SUFFICES ASSUME NEW y \in T PROVE x <= y
    OBVIOUS
  <2>1. x \in Nat /\ y \in Nat
    OBVIOUS
  <2>2. ~(y < x)
    BY <1>2, <1>3, <2>1
  <2> QED  BY <2>1, <2>2
<1> QED  BY <1>4 DEF Min

(* The ends of a log.                                                       *)
LEMMA LogFacts ==
    ASSUME NEW l \in DOMAIN Logs
    PROVE  /\ Logs[l] \in Seq(Nat) /\ Len(Logs[l]) \in Nat \ {0}
           /\ DOMAIN Logs[l] = 1 .. Len(Logs[l])
           /\ 1 \in DOMAIN Logs[l] /\ Len(Logs[l]) \in DOMAIN Logs[l]
           /\ Range(Logs[l]) \subseteq SampleTimes /\ Range(Logs[l]) \subseteq Nat
           /\ Logs[l][1] \in Range(Logs[l]) /\ Last(Logs[l]) \in Range(Logs[l])
<1>1. Logs[l] \in Seq(Nat) /\ Logs[l] # <<>>
  <2>1. Logs[l] \in Seq(Nat \ {0}) /\ Logs[l] # <<>>
    BY LogsAssumption
  <2> QED  BY <2>1
<1>2. /\ Len(Logs[l]) \in Nat \ {0} /\ DOMAIN Logs[l] = 1 .. Len(Logs[l])
  BY <1>1
<1>3. 1 \in DOMAIN Logs[l] /\ Len(Logs[l]) \in DOMAIN Logs[l]
  BY <1>2
<1>4. Range(Logs[l]) \subseteq SampleTimes
  BY DEF SampleTimes
<1>5. Range(Logs[l]) \subseteq Nat
  BY <1>1 DEF Range
<1>6. Logs[l][1] \in Range(Logs[l]) /\ Last(Logs[l]) \in Range(Logs[l])
  BY <1>3 DEF Range, Last
<1> QED  BY <1>1, <1>2, <1>3, <1>4, <1>5, <1>6

(* All the times of the logs are numbers, and there is a newest log.        *)
LEMMA TimesFacts ==
    /\ SampleTimes \subseteq Nat /\ NoSample \notin SampleTimes
    /\ Newest \in SampleTimes
<1>1. SampleTimes \subseteq Nat
  BY LogFacts DEF SampleTimes
<1>2. Len(Logs) \in DOMAIN Logs
  BY LogsAssumption
<1>3. Newest \in SampleTimes
  BY <1>2, LogFacts DEF Newest, Last
<1> QED  BY <1>1, <1>3 DEF NoSample

(* rawlog_get_record answers with a sample there is, or with none.  For a   *)
(* time that a log of three samples or more covers it is the first at or    *)
(* after it, less than Step away if the log has no gap.                     *)
LEMMA RecordFacts ==
    ASSUME NEW ts \in Int
    PROVE  /\ rawlog_get_record(ts) \in SampleTimes \cup {NoSample}
           /\ (Covering(ts) # {} /\ Long(ts)) =>
                 /\ rawlog_get_record(ts) >= ts
                 /\ Dense(ts) => rawlog_get_record(ts) < ts + Step
           /\ Covering(ts) = {} => /\ ts >= Newest => rawlog_get_record(ts) = Newest
                                   /\ ts < Newest => rawlog_get_record(ts) = NoSample
<1>0. Newest \in Nat
  BY TimesFacts
<1>1. CASE Covering(ts) = {}
  BY <1>0, <1>1, TimesFacts DEF rawlog_get_record
<1>2. CASE Covering(ts) # {}
  <2> DEFINE k == Min(Covering(ts))
             log == Logs[k]
             later == { t \in Range(log) : t >= ts }
  <2>1. Covering(ts) \subseteq Nat
    BY LogsAssumption DEF Covering
  <2>2. k \in Covering(ts)
    BY <1>2, <2>1, LeastIsMember
  <2>3. rawlog_get_record(ts) = Found(log, ts)
    BY <1>2 DEF rawlog_get_record
  <2> HIDE DEF k
  <2>4. k \in DOMAIN Logs /\ log[1] <= ts /\ ts <= Last(log)
    BY <2>2 DEF Covering
  <2>5. /\ Range(log) \subseteq SampleTimes /\ Range(log) \subseteq Nat
        /\ log[1] \in Range(log) /\ Last(log) \in Range(log)
        /\ Len(log) \in Nat /\ DOMAIN log = 1 .. Len(log)
    BY <2>4, LogFacts
  <2>6. later # {} /\ later \subseteq Nat
    BY <2>4, <2>5
  <2>7. Min(later) \in later /\ \A y \in later : Min(later) <= y
    BY <2>6, LeastIsMember
  <2>8. Found(log, ts) = IF Len(log) <= 2 THEN log[1] ELSE Min(later)
    BY DEF Found
  <2> DEFINE m == Min(later)
  <2>9. m \in Range(log) /\ m >= ts /\ m \in Nat /\ \A t \in Range(log) : t >= ts => m <= t
    BY <2>5, <2>7
  <2> HIDE DEF later, m
  <2>10. ASSUME Long(ts)
         PROVE  Found(log, ts) = m
    <3>1. Len(log) > 2
      BY <2>2, <2>10 DEF Long
    <3> QED  BY <2>5, <2>8, <3>1 DEF m
  <2>11. ASSUME Dense(ts)
         PROVE  m < ts + Step
    <3>0. Step \in Nat \ {0}
      BY NumbersAssumption
    <3>1. PICK i \in DOMAIN log : log[i] = m
      BY <2>9 DEF Range
    <3>2. CASE i = 1
      BY <2>4, <2>9, <3>0, <3>1, <3>2
    <3>3. CASE i # 1
      <4>1. i \in 2 .. Len(log) /\ i - 1 \in DOMAIN log /\ i - 1 < i
        BY <2>5, <3>3
      <4>2. log[i - 1] \in Range(log) /\ log[i - 1] \in Nat
        BY <2>5, <4>1 DEF Range
      <4>3. log[i - 1] < log[i]
        BY <2>4, <4>1, LogsAssumption
      <4>4. log[i] - log[i - 1] <= Step
        BY <2>2, <2>11, <4>1 DEF Dense
      <4>5. log[i - 1] < ts
        BY <2>9, <3>1, <4>2, <4>3
      <4> QED  BY <2>9, <3>0, <3>1, <4>2, <4>4, <4>5
    <3> QED  BY <3>2, <3>3
  <2>12. Found(log, ts) \in SampleTimes
    BY <2>5, <2>8, <2>9 DEF m
  <2> QED  BY <1>2, <2>3, <2>9, <2>10, <2>11, <2>12
<1> QED  BY <1>1, <1>2

----------------------------------------------------------------------------
(* The page at rest shows what was chosen                                   *)

(* The template in the cache is the one chosen last, or one that a choice   *)
(* made during a chain has overtaken.                                       *)
Chosen == cache.process = template_type \/ (missed /\ cache.process \in Templates)

(* At rest the page shows what the caches and the settings hold; a chain    *)
(* asks for the template chosen last, or need not, since it is there.       *)
AsChosen ==
    ~early =>
        /\ ~loading /\ ~init => /\ shown.only_proc = only_proc
                                /\ shown.time = pre_timestamp
                                /\ shown.template = cache.process
                                /\ Chosen
        /\ \A c \in inflight : IF "process" \in c.todo
                               THEN c.type = template_type \/ missed ELSE Chosen

ChoiceInv == PageInv /\ FrontendTypeOK /\ AsChosen

CacheType == [header : BOOLEAN, process : Templates \cup {NoTemplate},
              data : SampleTimes \cup {NoSample}]
ShownType == [template : Templates \cup {NoTemplate}, only_proc : BOOLEAN,
              time : SampleTimes \cup {NoSample}]

(* The type invariant after a step from its parts, those of PageInv among   *)
(* them.                                                                    *)
LEMMA TypeParts ==
    ASSUME Typed', only_proc' \in BOOLEAN, missed' \in BOOLEAN,
           pre_timestamp' \in SampleTimes \cup {Now}, delta' \in -MaxDelta .. MaxDelta,
           template_type' \in Templates, queue' \in Seq({"init", "later"}),
           cache' \in CacheType, shown' \in ShownType, inflight' \subseteq ChainType
    PROVE  FrontendTypeOK'
<1>1. /\ change' \in [data : BOOLEAN, template : BOOLEAN]
      /\ init' \in BOOLEAN /\ loading' \in BOOLEAN /\ onloaded' \in BOOLEAN
      /\ early' \in BOOLEAN /\ failed' \in BOOLEAN
  BY DEF Typed, Flags, Values
<1> QED  BY <1>1, Zenon DEF FrontendTypeOK, CacheType, ShownType

(* The parts back from it.                                                  *)
LEMMA PartsOfType ==
    ASSUME FrontendTypeOK
    PROVE  /\ only_proc \in BOOLEAN /\ missed \in BOOLEAN
           /\ pre_timestamp \in SampleTimes \cup {Now} /\ delta \in -MaxDelta .. MaxDelta
           /\ template_type \in Templates /\ queue \in Seq({"init", "later"})
           /\ cache \in CacheType /\ shown \in ShownType /\ inflight \subseteq ChainType
           /\ pre_timestamp \in Nat
<1>1. pre_timestamp \in Nat
  BY TimesFacts, NumbersAssumption DEF FrontendTypeOK
<1> QED  BY <1>1, Zenon DEF FrontendTypeOK, CacheType, ShownType

(* What rendering leaves.                                                   *)
LEMMA Rendered ==
    ASSUME FrontendTypeOK, NEW kind, NEW c \in CacheType, NEW flags,
           LoadHtmlFromJson(kind, c, flags), only_proc' \in BOOLEAN
    PROVE  /\ pre_timestamp' \in SampleTimes \cup {Now}
           /\ shown' \in ShownType /\ queue' \in Seq({"init", "later"})
           /\ ~loading' => /\ shown'.template = c.process /\ shown'.only_proc = only_proc'
                           /\ shown'.time = c.data /\ pre_timestamp' = c.data
                           /\ c.data # NoSample
<1>0. /\ c.process \in Templates \cup {NoTemplate} /\ c.data \in SampleTimes \cup {NoSample}
      /\ pre_timestamp \in SampleTimes \cup {Now}
      /\ shown \in ShownType /\ queue \in Seq({"init", "later"})
  BY PartsOfType DEF CacheType
<1>1. CASE Renderable(c)
  <2>1. /\ pre_timestamp' = c.data /\ queue' = <<>> /\ c.data # NoSample
        /\ shown' = [template |-> c.process, only_proc |-> only_proc', time |-> c.data]
    BY <1>1 DEF LoadHtmlFromJson, Finish, Renderable, Parses
  <2>2. shown' \in ShownType
    BY <1>0, <2>1, Zenon DEF ShownType
  <2>3. /\ shown'.template = c.process /\ shown'.only_proc = only_proc'
        /\ shown'.time = c.data
    BY <2>1, Zenon
  <2>4. queue' \in Seq({"init", "later"})
    BY <2>1
  <2> QED  BY <1>0, <2>1, <2>2, <2>3, <2>4, Zenon
<1>2. CASE ~Renderable(c)
  <2>1. /\ pre_timestamp' = IF Parses(c.data) THEN c.data ELSE pre_timestamp
        /\ loading' = TRUE /\ UNCHANGED <<shown, queue>>
    BY <1>2 DEF LoadHtmlFromJson, Throw
  <2>2. Parses(c.data) => c.data # NoSample
    BY DEF Parses
  <2> QED  BY <1>0, <2>1, <2>2
<1> QED  BY <1>1, <1>2

(* The requests of a chain.                                                 *)
LEMMA TodoFacts ==
    ASSUME NEW kind, NEW flags
    PROVE  /\ Todo(kind, flags) \subseteq Requests
           /\ "process" \in Todo(kind, flags) <=> flags.template
  BY DEF Todo, Requests

(* main keeps the types.                                                    *)
LEMMA MainTyped ==
    ASSUME PageInv, PageInv', FrontendTypeOK, NEW d \in Int, NEW flags, main(d, flags),
           template_type' \in Templates, only_proc' \in BOOLEAN, missed' \in BOOLEAN
    PROVE  FrontendTypeOK'
<1> DEFINE kind == IF d = 0 /\ init THEN "init" ELSE "later"
<1>0. /\ kind \in {"init", "later"}
      /\ Todo(kind, flags) \subseteq Requests
  BY TodoFacts
<1>1. /\ pre_timestamp \in SampleTimes \cup {Now} /\ pre_timestamp \in Nat
      /\ queue \in Seq({"init", "later"}) /\ cache \in CacheType /\ shown \in ShownType
      /\ inflight \subseteq ChainType
  BY PartsOfType
<1>2. Typed' /\ cache' = cache /\ delta' = 0
  BY DEF PageInv, main
<1>3. delta' \in -MaxDelta .. MaxDelta
  BY <1>2, NumbersAssumption
<1>4. CASE MustQueue
  <2>1. queue' = Append(queue, kind) /\ UNCHANGED <<pre_timestamp, inflight, shown>>
    BY <1>4 DEF main
  <2> HIDE DEF kind
  <2>2. queue' \in Seq({"init", "later"})
    BY <1>0, <1>1, <2>1
  <2> QED  BY <1>1, <1>2, <1>3, <2>1, <2>2, TypeParts
<1>5. CASE ~MustQueue /\ Todo(kind, flags) # {}
  <2>1. /\ inflight' = inflight \cup {Chain(kind, d, flags)}
        /\ UNCHANGED <<pre_timestamp, queue, shown>>
    BY <1>5 DEF main
  <2> HIDE DEF kind
  <2>2. Chain(kind, d, flags) \in ChainType
    <3>1. pre_timestamp + d \in Int
      BY <1>1
    <3> QED  BY <1>0, <1>1, <3>1, Zenon DEF Chain, ChainType
  <2> QED  BY <1>1, <1>2, <1>3, <2>1, <2>2, TypeParts
<1>6. CASE ~MustQueue /\ Todo(kind, flags) = {}
  <2>1. LoadHtmlFromJson(kind, cache, flags) /\ UNCHANGED inflight
    BY <1>6 DEF main
  <2> HIDE DEF kind
  <2> QED  BY <1>1, <1>2, <1>3, <2>1, Rendered, TypeParts
<1> QED  BY <1>4, <1>5, <1>6

(* main keeps the rest of the invariant, if a choice that is made at rest   *)
(* sets change_template and one that is made during a chain is noted.       *)
LEMMA MainChosen ==
    ASSUME ChoiceInv, PageInv', NEW d \in Int, NEW flags, main(d, flags),
           template_type' \in Templates, only_proc' \in BOOLEAN, missed' \in BOOLEAN,
           early => early',
           ~early' /\ ~onloaded => flags.template,
           loading => /\ template_type' = template_type \/ missed'
                      /\ missed => missed',
           ~loading => /\ missed' = missed
                       /\ flags.template \/ UNCHANGED <<template_type, only_proc>>
    PROVE  AsChosen'
<1> DEFINE kind == IF d = 0 /\ init THEN "init" ELSE "later"
<1> SUFFICES ASSUME ~early' PROVE AsChosen'
  BY DEF AsChosen
<1>0. ~early
  OBVIOUS
<1>1. /\ ~loading /\ ~init => shown.template = cache.process /\ Chosen
      /\ \A c \in inflight : IF "process" \in c.todo
                             THEN c.type = template_type \/ missed ELSE Chosen
  BY <1>0 DEF ChoiceInv, AsChosen
<1>2. /\ cache \in CacheType /\ template_type \in Templates /\ FrontendTypeOK
      /\ missed \in BOOLEAN
  BY PartsOfType DEF ChoiceInv
<1>3. cache' = cache
  BY DEF main
<1>4. CASE MustQueue
  <2>1. loading /\ loading' = loading /\ inflight' = inflight
    BY <1>4 DEF main, MustQueue
  <2>2. Chosen => Chosen'
    BY <1>2, <1>3, <2>1 DEF Chosen
  <2>3. \A c \in inflight' : IF "process" \in c.todo
                             THEN c.type = template_type' \/ missed' ELSE Chosen'
    BY <1>1, <2>1, <2>2
  <2> QED  BY <2>1, <2>3 DEF AsChosen
<1>5. CASE ~MustQueue
  <2>1. ~loading /\ inflight = {} /\ missed' = missed
    BY <1>5 DEF MustQueue, ChoiceInv, PageInv, OneChain
  <2>2. ASSUME ~flags.template
        PROVE  Chosen'
    <3>1. onloaded /\ UNCHANGED <<template_type, only_proc>>
      BY <2>1, <2>2 DEF ChoiceInv, PageInv, Typed, Flags
    <3>2. ~init
      BY <1>0, <2>1, <3>1 DEF ChoiceInv, PageInv, Undisturbed
    <3> QED  BY <1>1, <1>3, <2>1, <3>1, <3>2 DEF Chosen
  <2>3. "process" \in Todo(kind, flags) <=> flags.template
    BY TodoFacts
  <2>4. CASE Todo(kind, flags) # {}
    <3>1. inflight' = {Chain(kind, d, flags)} /\ loading' = TRUE
      BY <1>5, <2>1, <2>4 DEF main
    <3>2. /\ Chain(kind, d, flags).todo = Todo(kind, flags)
          /\ Chain(kind, d, flags).type = template_type'
      BY DEF Chain
    <3> HIDE DEF kind
    <3> QED  BY <2>2, <2>3, <3>1, <3>2 DEF AsChosen
  <2>5. CASE Todo(kind, flags) = {}
    <3>1. LoadHtmlFromJson(kind, cache, flags) /\ inflight' = {} /\ ~flags.template
      BY <1>5, <2>1, <2>3, <2>5 DEF main
    <3>2. ~loading' => /\ shown'.template = cache.process /\ shown'.only_proc = only_proc'
                       /\ shown'.time = pre_timestamp'
      BY <1>2, <3>1, Rendered
    <3> QED  BY <1>3, <2>2, <3>1, <3>2 DEF AsChosen
  <2> QED  BY <2>4, <2>5
<1> QED  BY <1>4, <1>5

(* An answer: what it leaves in the caches, and the rest of the invariant.  *)
LEMMA ReceivedTyped ==
    ASSUME FrontendTypeOK, NEW c \in ChainType, c.todo # {}
    PROVE  /\ Received(c) \in CacheType
           /\ Asked(c) = "process" <=> "process" \in c.todo
           /\ Asked(c) = "process" => Received(c).process = c.type
           /\ Asked(c) # "process" => Received(c).process = cache.process
           /\ Asked(c) = "data" => Received(c).data = rawlog_get_record(c.ts)
<1>0. /\ c.type \in Templates /\ c.ts \in Int /\ c.todo \subseteq Requests
      /\ cache \in CacheType
  BY PartsOfType DEF ChainType
<1>1. Asked(c) \in {"process", "header", "data"} /\ (Asked(c) = "process" <=> "process" \in c.todo)
  BY <1>0 DEF Asked
<1>2. CASE Asked(c) = "process"
  <2>1. Received(c) = [cache EXCEPT !.process = c.type]
    BY <1>2 DEF Received
  <2> QED  BY <1>0, <1>1, <1>2, <2>1 DEF CacheType
<1>3. CASE Asked(c) = "header"
  <2>1. Received(c) = [cache EXCEPT !.header = TRUE]
    BY <1>3 DEF Received
  <2> QED  BY <1>0, <1>1, <1>3, <2>1 DEF CacheType
<1>4. CASE Asked(c) = "data"
  <2> DEFINE r == rawlog_get_record(c.ts)
  <2>1. Received(c) = [cache EXCEPT !.data = r]
    BY <1>4 DEF Received
  <2>2. r \in SampleTimes \cup {NoSample}
    BY <1>0, RecordFacts
  <2> HIDE DEF r
  <2>3. Received(c) \in CacheType /\ Received(c).data = r /\ Received(c).process = cache.process
    BY <1>0, <2>1, <2>2 DEF CacheType
  <2> QED  BY <1>1, <1>4, <2>3 DEF r
<1> QED  BY <1>1, <1>2, <1>3, <1>4

LEMMA AnswerChosen ==
    ASSUME ChoiceInv, PageInv', NEW c \in inflight, Answer(c)
    PROVE  FrontendTypeOK' /\ AsChosen'
<1>1. /\ FrontendTypeOK /\ c \in ChainType /\ c.todo # {} /\ inflight = {c}
      /\ c.todo \subseteq Requests /\ c.type \in Templates
  <2>1. FrontendTypeOK /\ c.todo # {} /\ inflight = {c}
    BY DEF ChoiceInv, PageInv, OneChain, ChainOK
  <2>2. c \in ChainType
    BY <2>1, PartsOfType
  <2> QED  BY <2>1, <2>2 DEF ChainType
<1>2. /\ cache' \in CacheType
      /\ Asked(c) = "process" <=> "process" \in c.todo
      /\ Asked(c) = "process" => cache'.process = c.type
      /\ Asked(c) # "process" => cache'.process = cache.process
  BY <1>1, ReceivedTyped DEF Answer
<1>3. /\ UNCHANGED <<delta, template_type, only_proc, early>>
      /\ missed' = (missed /\ ~(Asked(c) = "process" /\ c.type = template_type))
  BY DEF Answer
<1>4. /\ only_proc' \in BOOLEAN /\ missed' \in BOOLEAN /\ missed \in BOOLEAN
      /\ delta' \in -MaxDelta .. MaxDelta /\ template_type' \in Templates
      /\ pre_timestamp \in SampleTimes \cup {Now}
      /\ queue \in Seq({"init", "later"}) /\ shown \in ShownType
  BY <1>1, <1>3, PartsOfType
<1>5. "process" \notin Rest(c) /\ Rest(c) \subseteq Requests
  BY <1>1, <1>2 DEF Rest
<1>6. ~early => Chosen'
  <2> SUFFICES ASSUME ~early PROVE Chosen'
    OBVIOUS
  <2>1. IF "process" \in c.todo THEN c.type = template_type \/ missed ELSE Chosen
    BY DEF ChoiceInv, AsChosen
  <2>2. CASE Asked(c) = "process"
    BY <1>1, <1>2, <1>3, <2>1, <2>2 DEF Chosen
  <2>3. CASE Asked(c) # "process"
    BY <1>2, <1>3, <2>1, <2>3 DEF Chosen
  <2> QED  BY <2>2, <2>3
<1>7. Typed'
  BY DEF PageInv
<1>8. CASE Rest(c) # {}
  <2> DEFINE n == [c EXCEPT !.todo = Rest(c)]
  <2>1. inflight' = {n} /\ UNCHANGED <<pre_timestamp, init, loading, queue, shown>>
    BY <1>1, <1>8 DEF Answer
  <2>2. n \in ChainType /\ n.todo = Rest(c)
    BY <1>1, <1>5 DEF ChainType
  <2> HIDE DEF n
  <2>3. FrontendTypeOK'
    BY <1>2, <1>4, <1>7, <2>1, <2>2, TypeParts
  <2>4. loading
    BY <1>1 DEF ChoiceInv, PageInv, OneChain
  <2>5. AsChosen'
    BY <1>3, <1>5, <1>6, <2>1, <2>2, <2>4 DEF AsChosen
  <2> QED  BY <2>3, <2>5
<1>9. CASE Rest(c) = {}
  <2>1. inflight' = {} /\ LoadHtmlFromJson(c.kind, cache', change)
    BY <1>1, <1>9 DEF Answer
  <2> DEFINE e == cache'
             k == c.kind
  <2>2. e \in CacheType /\ LoadHtmlFromJson(k, e, change)
    BY <1>2, <2>1
  <2> HIDE DEF e, k
  <2>3. /\ pre_timestamp' \in SampleTimes \cup {Now}
        /\ shown' \in ShownType /\ queue' \in Seq({"init", "later"})
        /\ ~loading' => /\ shown'.template = e.process /\ shown'.only_proc = only_proc'
                        /\ shown'.time = pre_timestamp'
    BY <1>1, <1>4, <2>2, Rendered
  <2>4. FrontendTypeOK'
    BY <1>2, <1>4, <1>7, <2>1, <2>3, TypeParts
  <2>5. AsChosen'
    BY <1>3, <1>6, <2>1, <2>3 DEF AsChosen, e
  <2> QED  BY <2>4, <2>5
<1> QED  BY <1>8, <1>9

LEMMA NoAnswerChosen ==
    ASSUME ChoiceInv, PageInv', NEW c \in inflight, NoAnswer(c)
    PROVE  FrontendTypeOK' /\ AsChosen'
<1>1. /\ inflight' \subseteq inflight
      /\ UNCHANGED <<pre_timestamp, delta, template_type, only_proc, change, init, loading, queue,
                     cache, shown, onloaded, early, missed>>
  BY DEF NoAnswer, wishVars
<1>2. FrontendTypeOK
  BY DEF ChoiceInv
<1>3. FrontendTypeOK'
  <2>1. inflight' \subseteq ChainType
    BY <1>1, <1>2, PartsOfType
  <2>2. Typed'
    BY DEF PageInv
  <2> QED  BY <1>1, <1>2, <2>1, <2>2, PartsOfType, TypeParts
<1>4. AsChosen'
  BY <1>1 DEF ChoiceInv, AsChosen, Chosen
<1> QED  BY <1>3, <1>4

(* A key, by way of main or, for t and T during a chain, without it.        *)
LEMMA UserChosen ==
    ASSUME ChoiceInv, PageInv', User
    PROVE  FrontendTypeOK' /\ AsChosen'
<1>0. /\ PageInv /\ FrontendTypeOK /\ delta \in Int /\ Step \in Int
      /\ change \in [data : BOOLEAN, template : BOOLEAN]
      /\ template_type \in Templates /\ only_proc \in BOOLEAN /\ missed \in BOOLEAN
  BY PartsOfType, NumbersAssumption DEF ChoiceInv, PageInv, Typed, Values
<1>1. [change EXCEPT !.template = TRUE].template
  BY <1>0
<1>2. ASSUME Key
      PROVE  (early => early') /\ (~early' => onloaded)
  BY <1>0, <1>2 DEF Key, PageInv, Typed, Flags
<1>3. ASSUME NEW d \in Int, NEW flags, main(d, flags), Key,
             template_type' \in Templates, only_proc' \in BOOLEAN, missed' \in BOOLEAN,
             loading => /\ template_type' = template_type \/ missed'
                        /\ missed => missed',
             ~loading => /\ missed' = missed
                         /\ flags.template \/ UNCHANGED <<template_type, only_proc>>
      PROVE  FrontendTypeOK' /\ AsChosen'
  <2>1. FrontendTypeOK'
    BY <1>0, <1>3, MainTyped
  <2>2. /\ early => early'
        /\ ~early' /\ ~onloaded => flags.template
    BY <1>2, <1>3
  <2>3. AsChosen'
    BY <1>3, <2>2, MainChosen
  <2> QED  BY <2>1, <2>3
<1>4. ASSUME NEW d \in {Step, -Step}, KeyStep(d)
      PROVE  FrontendTypeOK' /\ AsChosen'
  <2>1. Key /\ delta + d \in Int /\ UNCHANGED <<template_type, only_proc, missed>>
    BY <1>0, <1>4 DEF KeyStep
  <2>2. CASE loading
    <3>1. /\ delta' = delta + d /\ InBounds(delta + d)
          /\ UNCHANGED <<pre_timestamp, change, init, loading, queue, cache, inflight, shown>>
      BY <1>4, <2>2 DEF KeyStep
    <3>2. delta' \in -MaxDelta .. MaxDelta
      BY <2>1, <3>1, NumbersAssumption DEF InBounds
    <3>3. Typed'
      BY DEF PageInv
    <3>4. FrontendTypeOK'
      BY <1>0, <2>1, <3>1, <3>2, <3>3, PartsOfType, TypeParts
    <3>5. AsChosen'
      BY <1>2, <2>1, <3>1 DEF ChoiceInv, AsChosen, Chosen
    <3> QED  BY <3>4, <3>5
  <2>3. CASE ~loading
    <3>1. main(delta + d, [change EXCEPT !.data = TRUE])
      BY <1>4, <2>3 DEF KeyStep
    <3> QED  BY <1>0, <1>3, <2>1, <3>1
  <2> QED  BY <2>2, <2>3
<1>5. ASSUME NEW d \in -MaxDelta .. MaxDelta, KeyTime(d)
      PROVE  FrontendTypeOK' /\ AsChosen'
  <2>1. /\ Key /\ d \in Int /\ main(d, [change EXCEPT !.data = TRUE])
        /\ UNCHANGED <<template_type, only_proc, missed>>
    BY <1>5, NumbersAssumption DEF KeyTime
  <2> QED  BY <1>0, <1>3, <2>1
<1>6. ASSUME NEW type \in Templates, KeyTemplate(type)
      PROVE  FrontendTypeOK' /\ AsChosen'
  <2>1. /\ Key /\ main(delta, [change EXCEPT !.template = TRUE])
        /\ template_type' = type /\ missed' = (missed \/ loading) /\ UNCHANGED only_proc
    BY <1>6 DEF KeyTemplate
  <2>2. missed' \in BOOLEAN /\ (loading => missed') /\ (~loading => missed' = missed)
    BY <1>0, <2>1
  <2> QED  BY <1>0, <1>1, <1>3, <2>1, <2>2
<1>7. ASSUME KeyThreads
      PROVE  FrontendTypeOK' /\ AsChosen'
  <2>1. /\ Key /\ main(delta, [change EXCEPT !.template = TRUE])
        /\ only_proc' = ~only_proc /\ UNCHANGED <<template_type, missed>>
    BY <1>7 DEF KeyThreads
  <2> QED  BY <1>0, <1>1, <1>3, <2>1
<1>8. ASSUME KeySetting
      PROVE  FrontendTypeOK' /\ AsChosen'
  <2>1. /\ Key /\ main(delta, change) /\ UNCHANGED <<template_type, only_proc, missed>>
    BY <1>8 DEF KeySetting
  <2> QED  BY <1>0, <1>3, <2>1
<1>9. ASSUME KeyNaN
      PROVE  FrontendTypeOK' /\ AsChosen'
  <2>1. /\ Key /\ main(-pre_timestamp, [change EXCEPT !.data = TRUE])
        /\ UNCHANGED <<template_type, only_proc, missed>>
    BY <1>9 DEF KeyNaN
  <2>2. -pre_timestamp \in Int
    BY PartsOfType DEF ChoiceInv
  <2> QED  BY <1>0, <1>3, <2>1, <2>2
<1> QED  BY <1>4, <1>5, <1>6, <1>7, <1>8, <1>9 DEF User

LEMMA ChoiceInvInductive ==
    /\ Init => ChoiceInv
    /\ ChoiceInv /\ [Next]_vars => ChoiceInv'
<1>1. ASSUME Init PROVE ChoiceInv
  <2>1. PageInv
    BY <1>1, PageInvInductive
  <2>2. /\ only_proc \in BOOLEAN /\ missed \in BOOLEAN
        /\ change \in [data : BOOLEAN, template : BOOLEAN]
        /\ init \in BOOLEAN /\ loading \in BOOLEAN /\ onloaded \in BOOLEAN
        /\ early \in BOOLEAN /\ failed \in BOOLEAN
    BY <1>1, <2>1 DEF Init, PageInv, Typed, Flags, Values
  <2>3. delta \in -MaxDelta .. MaxDelta
    BY <1>1, NumbersAssumption DEF Init
  <2>4. cache \in [header : BOOLEAN, process : Templates \cup {NoTemplate},
                   data : SampleTimes \cup {NoSample}]
    BY <1>1, Zenon DEF Init
  <2>5. shown \in [template : Templates \cup {NoTemplate}, only_proc : BOOLEAN,
                   time : SampleTimes \cup {NoSample}]
    BY <1>1, Zenon DEF Init
  <2>6. pre_timestamp \in SampleTimes \cup {Now} /\ template_type \in Templates
        /\ queue \in Seq({"init", "later"}) /\ inflight \subseteq ChainType
    BY <1>1, TemplatesAssumption DEF Init
  <2>7. FrontendTypeOK
    BY <2>2, <2>3, <2>4, <2>5, <2>6, Zenon DEF FrontendTypeOK
  <2>8. AsChosen
    BY <1>1 DEF Init, AsChosen
  <2> QED  BY <2>1, <2>7, <2>8 DEF ChoiceInv
<1>2. ASSUME ChoiceInv, [Next]_vars PROVE ChoiceInv'
  <2>0. PageInv'
    BY <1>2, PageInvInductive DEF ChoiceInv
  <2>1. CASE UNCHANGED vars
    <3>1. UNCHANGED <<pre_timestamp, delta, template_type, only_proc, change, init, loading,
                      queue, cache, inflight, shown, onloaded, early, failed, missed>>
      BY <2>1 DEF vars, wishVars, pastVars
    <3>2. FrontendTypeOK'
      <4>1. Typed' /\ FrontendTypeOK
        BY <1>2, <2>0 DEF ChoiceInv, PageInv
      <4> QED  BY <3>1, <4>1, PartsOfType, TypeParts
    <3>3. AsChosen'
      BY <1>2, <3>1 DEF ChoiceInv, AsChosen, Chosen
    <3> QED  BY <2>0, <3>2, <3>3 DEF ChoiceInv
  <2>2. CASE onload
    <3>1. /\ ~onloaded /\ main(delta, Everything)
          /\ UNCHANGED <<template_type, only_proc, early, missed>>
      BY <2>2 DEF onload
    <3>2. /\ PageInv /\ FrontendTypeOK /\ delta \in Int /\ template_type \in Templates
          /\ only_proc \in BOOLEAN /\ missed \in BOOLEAN
      BY <1>2, PartsOfType DEF ChoiceInv, PageInv, Typed, Values
    <3>3. Everything.template
      BY DEF Everything
    <3>4. FrontendTypeOK'
      BY <2>0, <3>1, <3>2, MainTyped
    <3>5. AsChosen'
      BY <1>2, <2>0, <3>1, <3>2, <3>3, MainChosen
    <3> QED  BY <2>0, <3>4, <3>5 DEF ChoiceInv
  <2>3. ASSUME NEW c \in inflight, Answer(c) \/ NoAnswer(c) PROVE ChoiceInv'
    BY <1>2, <2>0, <2>3, AnswerChosen, NoAnswerChosen DEF ChoiceInv
  <2>4. CASE User
    BY <1>2, <2>0, <2>4, UserChosen DEF ChoiceInv
  <2> QED  BY <1>2, <2>1, <2>2, <2>3, <2>4 DEF Next, Browser
<1> QED  BY <1>1, <1>2

LEMMA ChoiceInvHolds == Spec => []ChoiceInv
  BY ChoiceInvInductive, PTL DEF Spec

(* The variables of the page (atop.js) keep their types; the time shown is  *)
(* always that of a sample there is, or the one the page was opened at.     *)
THEOREM FrontendTyped == Spec => []FrontendTypeOK
<1>1. ChoiceInv => FrontendTypeOK  BY DEF ChoiceInv
<1> QED  BY <1>1, ChoiceInvHolds, PTL

(* A page at rest shows what the user chose last (loadHtmlFromJson renders  *)
(* with the settings of its moment), however the keys fell between answers. *)
THEOREM RestShowsChoice == Spec => []ShowsChoice
<1>1. ASSUME ChoiceInv PROVE ShowsChoice
  <2>1. template_type \in Templates /\ missed \in BOOLEAN
    BY <1>1, PartsOfType DEF ChoiceInv
  <2> QED  BY <1>1, <2>1 DEF ChoiceInv, AsChosen, Chosen, ShowsChoice
<1> QED  BY <1>1, ChoiceInvHolds, PTL

----------------------------------------------------------------------------
(* Moving in time                                                           *)

(* As long as a chain waits for its sample no other step ends it.           *)
LEMMA OnlyAnswerRests ==
    ASSUME PageInv, NEW c \in inflight, [Next]_vars, ~loading'
    PROVE  Answer(c)
<1>1. loading /\ MustQueue /\ inflight = {c}
  BY DEF PageInv, OneChain, Typed, Flags, MustQueue
<1>2. \A d, flags : main(d, flags) => loading' = loading
  BY <1>1 DEF main
<1>3. ~(UNCHANGED vars) /\ ~NoAnswer(c)
  BY <1>1 DEF vars, NoAnswer
<1>4. ~onload
  BY <1>1, <1>2 DEF onload
<1>5. ~User
  BY <1>1, <1>2 DEF User, KeyStep, KeyTime, KeyNaN, KeyTemplate, KeyThreads, KeySetting
<1> QED  BY <1>1, <1>3, <1>4, <1>5 DEF Next, Browser

(* Moving forward shows a later sample, if there is one, and moving back by *)
(* a step or more an earlier one, whatever keys came in between (onkeydown  *)
(* and main of atop.js, with rawlog_get_record behind them): for any logs,  *)
(* the exceptions being Long and Dense.                                     *)
THEOREM KeysMove == Spec => Moves
<1> DEFINE M(c) == (Asked(c) = "data" /\ ~loading' /\ Long(c.ts)) =>
                      /\ c.ts > c.from => pre_timestamp' > c.from \/ c.from >= Newest
                      /\ c.ts <= c.from - Step /\ Dense(c.ts) => pre_timestamp' < c.from
<1>1. ASSUME ChoiceInv, ChoiceInv', [Next]_vars PROVE \A c \in inflight : M(c)
  <2> SUFFICES ASSUME NEW c \in inflight, Asked(c) = "data", ~loading', Long(c.ts)
               PROVE  /\ c.ts > c.from => pre_timestamp' > c.from \/ c.from >= Newest
                      /\ c.ts <= c.from - Step /\ Dense(c.ts) => pre_timestamp' < c.from
    OBVIOUS
  <2>1. PageInv /\ FrontendTypeOK /\ c.todo # {} /\ inflight = {c}
    BY <1>1 DEF ChoiceInv, PageInv, OneChain, ChainOK
  <2>2. Answer(c)
    BY <1>1, <2>1, OnlyAnswerRests
  <2>3. c \in ChainType
    BY <2>1, PartsOfType
  <2>4. c.ts \in Int /\ c.from \in Nat
    BY <2>3 DEF ChainType
  <2>5. cache' = Received(c) /\ Received(c) \in CacheType
        /\ Received(c).data = rawlog_get_record(c.ts)
    BY <2>1, <2>2, <2>3, ReceivedTyped DEF Answer
  <2>6. LoadHtmlFromJson(c.kind, cache', change)
    <3>1. loading
      BY <2>1 DEF PageInv, OneChain
    <3> QED  BY <2>2, <3>1 DEF Answer
  <2>7. Renderable(cache') /\ pre_timestamp' = cache'.data /\ cache'.data # NoSample
    BY <2>6 DEF LoadHtmlFromJson, Finish, Throw, Renderable, Parses
  <2> DEFINE ts == c.ts
             from == c.from
             r == rawlog_get_record(ts)
  <2>8. ts \in Int /\ from \in Nat /\ pre_timestamp' = r /\ r # NoSample /\ Long(ts)
    BY <2>4, <2>5, <2>7
  <2> SUFFICES /\ ts > from => r > from \/ from >= Newest
               /\ ts <= from - Step /\ Dense(ts) => r < from
    BY <2>8
  <2> HIDE DEF ts, from
  <2>9. /\ r \in SampleTimes
        /\ Covering(ts) # {} => r >= ts /\ (Dense(ts) => r < ts + Step)
        /\ Covering(ts) = {} => (ts >= Newest => r = Newest) /\ (ts < Newest => r = NoSample)
    BY <2>8, RecordFacts
  <2>10. r \in Nat /\ Newest \in Nat /\ Step \in Nat \ {0}
    BY <2>9, TimesFacts, NumbersAssumption
  <2> HIDE DEF r
  <2>11. CASE Covering(ts) # {}
    BY <2>8, <2>9, <2>10, <2>11
  <2>12. CASE Covering(ts) = {}
    BY <2>8, <2>9, <2>10, <2>12
  <2> QED  BY <2>11, <2>12
<1>2. ChoiceInv /\ ChoiceInv' /\ [Next]_vars => [\A c \in inflight : M(c)]_vars
  BY <1>1
<1> QED  BY <1>2, ChoiceInvHolds, PTL DEF Spec, Moves
=============================================================================
