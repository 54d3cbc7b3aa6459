# A TLA+ model of atophttpd

atophttpd serves the samples that `atop` writes to `/var/log/atop` over HTTP.
It is one process with one thread. The thread indexes the log files, waits for
clients, answers one request at a time from the index and the files, and
refreshes the index between requests. Meanwhile `atop` appends to the current
log, rotates to a new one every day, and old logs are removed. Almost all the
trouble the program can get into comes from these two activities, which share
files and no lock, and from clients that stall or vanish.

## Components

| component | state | operations | interacts with |
|---|---|---|---|
| cache (`cache.c`) | `caches[]`, for each log an array of (time, offset), its capacity, the file size at the last look | find, alloc, free, set, sort, get, get_recent | called by rawlog |
| rawlog (`rawlog.c`) | none of its own but locals that live across system calls | parse_all / parse_one / rebuild_one (a pass), get_record (a query) | reads the directory atop writes; prints through json |
| httpd (`httpd.c`) | the listeners, the connection in hand, `defop`, `update` | start-up, event loop, read loop, dispatcher, responses, paced refresh | clients, connection types, rawlog |
| connection types (`connection.[ch]`, `socket.c`, `tls.c`) | descriptor, SSL object, registry | create, listen, accept, read, write, close | called by httpd |
| output (`output.c`) | one growing buffer for all requests, the encoding in use | output_samp, output_samp_done | filled by json, sent by httpd |
| json (`json.c`) | none | jsondef, jsonout and 25 print functions | prints to output |
| front end (`http/js`) | template and sample caches, loading flag, time shown | key handling, requests, rendering | asks httpd |

What is hard:

- *Interleaving with the writer.* Every `pread`, `stat` and `fstat` of a pass,
  and every step of a query, may see the file in a different state.
- *State used after it was read.* The offset found in the index is used three
  system calls later; the remembered size is taken after the reading it stands
  for.
- *Odd files.* Clocks set back, logs emptied in place, half a record after a
  crash of atop, files that are no logs.
- *Failing calls.* `lseek`, `fstat`, `opendir`, `malloc`, `compress`, the TLS
  handshake, each with its own way out.
- *One thread for everybody.* A client that says nothing must not stop the rest;
  what one request leaves in shared state must not reach the next.
- *Keys and answers.* The page has one thread too, but its user presses keys
  while answers are on their way, and an answer may be an error or never come.
- *Text built piece by piece.* Whether a sample is JSON depends on commas and
  brackets printed by 25 functions from lists that may be empty or filtered.

`PROJECT.json` lists the hazards one by one, at the line where they bite, with
the properties aimed at them.

## Modules

- **`Cache`**: `cache.c` as operators on a table `order` (names) and caches
  (`elems`, `max_elems`, `st_size`). `cache_set` and `cache_sort` are
  set-valued, because `qsort` may leave equal keys in any order. The comparison
  functions never return a negative number; the model takes `qsort` to leave an
  arrangement in which the comparison rejects no pair, as glibc's merge sort does.
- **`CacheSearch`**: the bisection of `cache_get` alone, on any sorted array.
- **`Rawlog`**: the pass and the query, one action per system call that looks at
  a shared file, with atop and the administrator as environment. `pc` says
  where the thread is: `boot`, `readdir`, `parse`, `rebuild`, `pread`, `fstat`
  (a pass); `idle`; `search`, `found`, `record`, `sstat`, `devtstat`,
  `answered` (a query); `aborted`, `exited`. A file is a header and records of a
  rawrecord and two blocks, in abstract units; a read at an offset where no
  record starts yields *any* record. `Events` selects what may go wrong.
- **`SampleIndex`**: what the index promises. It learns only samples that the
  log holds, loses none, and serves one that it knows. `Rawlog` implements it
  (`KeepsPromise`) for logs that only grow.
- **`Connection`**: a connection object with the descriptor and the SSL object it
  owns; `conn_close` can be called again.
- **`Output`**: the buffer `defop` with its doubling, and the encoding.
- **`Httpd`**: the event loop and the request handler on top of the last two.
  `pc`: `wait` (epoll), `ssl` (SSL_accept), `drop` (conn_accept failed with something
  open), `read`, `process`, `json`, `labels`, `done` (output_samp_done), `close`,
  `update`, `pass`. An `accept(2)` that fails for want of descriptors or memory leaves
  its client in the backlog, to be reported again (`AcceptFails`); one that fails
  because the client gave up takes it out (`AcceptAborted`); without a context, or when
  `SSL_new` fails, there is a descriptor to close (`SslNewFails`). Clients connect, shake
  hands or not, send pieces, hang up. The read deadline may pass at any moment
  (`ReadGivesUp`). The results of `rawlog_get_record` and `rawlog_parse_all`
  are a choice; `Rawlog` is where they come from. Undefined behaviour at two
  boundaries (a full `inbuf`, a location of exactly `URL_LEN` bytes) is a choice
  between the outcomes it can have.
- **`JsonOut`**: `jsondef` takes the list of labels apart, `jsonout` prints the
  header, cleans the names and command lines, calls the print function of each
  valid label in the order of the table and closes the object. The output is a
  sequence of pieces (a member, a bracket, a comma, an item with its pid and the
  kinds of characters in its text), one operator per print function. A piece keeps
  apart `text`, the names and command lines of tasks, which `jsonout` cleans, and `raw`,
  what it prints as it comes: host, GPUs, volumes, disks, mounts, interfaces and
  the containers of tasks. `Httpd` has
  the same calls seen from the buffer, as pieces with a length.
- **`Startup`**: from `main` to the event loop. `pc` follows the calls: the first
  pass, the registry (`conn_types`, first free slot), the listener objects with
  `tls_configure`, then for each slot the addresses of `listen_to_port`. Every
  call may fail; `exited` is an `exit`, `crashed` what freeing an unassigned
  pointer may do.
- **`Frontend`**: `atop.js`. A key or an answer is one action together with the
  promise reactions it triggers, because the browser runs those first. A *chain*
  is what `main` starts: the requests still to make, with the arguments captured
  when it began. `loading`, `queue`, `init`, `delta` and the `change_` flags are
  the script's globals; `early`, `failed`, `missed` are history. The server
  answers from an index that is up to date; `Unreadable` are the times of samples
  that are answered and that `JSON.parse` refuses.
- **`MCRawlog`, `MCHttpd`, `MCJsonOut`, `MCFrontend`**: instances for TLC.
- **`CacheSearchProofs`, `RawlogProofs`, `RawlogIndexProofs`, `RawlogAnswerProofs`,
  `HttpdProofs`, `StartupProofs`, `FrontendProofs`, `JsonOutProofs`**: theorems. The
  three about `Rawlog` build on each other: types and sorting; what is in the index;
  what is answered from it.

Operators whose comment starts with *Mutant* are not part of the model. Each is
a plausible bug in the definition below it, and TLC finds a property violated
when it takes that definition's place (`PROJECT.json`, "mutants").

## Runs

Passing:

| run | instance | shows |
|---|---|---|
| `rotation` | 2 logs, 4 times, 3 records each, removal and foreign files | `IndexIsPrefix`, `CaughtUp`: no record is skipped or indexed twice however passes and writes interleave; `AnswerIsClosest`: the answer is the right sample though read later than looked up; `ReadyWhenIdle`, `AssertionsHold`; `TypeOK` with arrays that have to grow |
| `clockback` | 2 logs, 3 times, 2 records each, clock set back | `TimesAscend`, `OffsetsAreRecords`, `CaughtUp`, refinement of `SampleIndex` |
| `damage` | 1 log, 2 times, emptied in place or left with a fragment, and every call that can fail, reads of headers and records included | caches stay sorted whatever is read, every pass and query ends |
| `search` | all sorted arrays of 3 to 6 elements over 5 times | the bisection stays inside, ends, and finds the time or the first later one |
| `requests` | 1 client at a time, 11 kinds of request, tcp and tls, an accept that fails before, at or after `accept(2)`, a clock that is also set back | `ConnOwnsAll`: descriptors and SSL objects are released on every path; the buffer fits, a body is one whole sample or message, the refresh is paced |
| `clients` | 2 clients over tcp and tls, again and again, accepts that fail | samples and encodings do not mix; `Served`: every client that does not hang up is accepted, if accept does not fail for ever and no handshake hangs |
| `json` | every label, lists of up to 3, samples with 0, 1 or 3 devices, a backslash in the name of the third mount, up to 3 tasks (processes and threads), with and without the optional parts | `WellFormed`: the brackets and commas of one JSON object, or the message, with the strings of tasks clean, and all strings if the raw ones were; `MembersAsAsked`; `TasksOnce`: every task array has each pid once, which the page's join relies on; `CommandsHidden` under `-H`; every call ends |
| `startup` | all command lines and builds, up to 3 addresses per listener | `ListensExactly`: ready means listening for what was asked, no descriptor left over |
| `frontend` | 2 templates, 2 logs with a gap, a sample that does not parse, keys at any moment | `OneChain`, `PageAlive` (when the page may go dead), `ShowsChoice`, `Moves`; every chain ends |

Violated, each a disagreement between code and what it says of itself (see
"findings" in `PROJECT.json`): `race` (a record completed between the last
`pread` and the `fstat` is never indexed unless the file grows again), `fault` (a failed `fstat` or `lseek` leaves an
empty cache on which the next query aborts), `compress` (404 and 200 on one
connection).

What else the runs show, which is no finding:

- after the clock was set back a rebuild indexes records again (`clockback` asks
  for sorted arrays and true offsets, not for each record once);
- in a log of one or two records a query gets the first, also when it asks for
  the time of the second (`AnswerIsClosest` and `Moves` except such logs);
- a template chosen with `g`, `m`, `d` or `c` during a chain is not fetched until
  the next such key (`missed` in `ShowsChoice`);
- `t` and `T` pressed during a chain add up in `delta` and move the page with the first
  `t` or `T` after the chain, unless another key comes in between: it resets `delta`
  (atop.js:240) without asking for a sample, whether it starts a chain or is put into
  the queue, and the move is lost. No property excludes that;
- `T` does not move when samples are more than ten seconds apart, since the server
  answers with the first sample at or after the time asked for (`Dense` in `Moves`);
- a time in a gap between logs or before the first, a failed request, a sample that
  does not parse, or a key before `onload` can leave the page loading for ever (the
  exceptions in `PageAlive`); text of the right length that is no number, entered at
  `b`, is such a time: it is sent as `NaN`, which the server reads as 0;
- only the strings of tasks are cleaned (json.c:180-196, "in case json can not parse
  this out"). A quote or a backslash in the host name, a device, a mount or a container
  is printed as it is, and `JSON.parse` refuses the whole sample: `WellFormed` needs the
  premise `RawClean` for these strings, and a page that meets such a sample goes dead
  (`Unreadable` in `PageAlive`). The kernel writes a space in the name of a mount as a
  backslash and its code, so that one such NFS mount is enough;
- with keys that OpenSSL refuses, `tls_configure` may return 0, and the server
  listens for TLS without a context and closes each connection (`CreateTls`).

**Bounds.** Three records per log are what it takes to leave the special case of
`cache_get` (at most two) and to grow an array of capacity `RecordsTrunk = 2`;
two logs, to sort the table and to have a query fall between logs; four times, to
ask before, between and after. Blocks of length 1 tell the three writes of a
record apart. `IntSpan = 12` or `6` puts the sign bit of the truncated offset
within a small file. In `damage` two times suffice, since order and disorder are all
that its properties tell apart; `MaxRecs` also bounds the elements of a cache
whose `fstat` may still fail: without it a cache would be filled from garbage by
every later pass. In `Httpd`,
`OutbufDefSize = 2` with pieces of 1 and 2 makes the buffer grow twice; requests
of 1 to 3 pieces against `Inbuf = 2` are complete at once, later, or too long.
`Period = 2` and three clock values allow a refresh, a request too soon for one,
a refresh that takes time, and a second refresh; the clock is set back to any
value from `Start` on. In `JsonOut`, three devices or tasks have a first, a middle
and a last one, and a task list has a process, the thread that stands for it,
another thread and a second process. Nine descriptors are more than two listeners
and epoll can use even if every address leaked one. In `Frontend`, `Step = 1`
against intervals of 1 and 2 tells dense logs from sparse ones, the second log has
a gap before it, `MaxDelta = 2` jumps over a sample, a `MaxQueue` of 2 holds
an init chain and another, and `Unreadable = {2}` is a sample that a move can meet and
a move can pass over.

**Fairness.** Weak fairness of the thread's own steps, since nothing but the
environment's data can block it: `WF(Refresh \/ Answer \/ Throttled)` in
`Rawlog`, `WF(Server)` in `Httpd`, `WF(Printing)` in `JsonOut`. In the page
`WF(Browser)`: it gets loaded, and a request is answered or
fails, which every browser's own timeout ensures. Neither the writer nor the
clients nor the user are fair.
`Httpd` also has `SF(Accept(t))` for each listener: a client whose accept failed stays
in the backlog, epoll reports it again, and the server, which holds no connection while
it waits, succeeds once others give back the descriptors or the memory that it lacked.
If they never do, nobody is served, and no fairness of the code's scheduling changes it.
`SSL_accept` waits for the client, so its step is enabled only when the client has
answered or hung up, and `Served` has the premise that the thread is not in a
handshake for ever. Nor does it promise anything to a client whose connection was taken
and closed again because `SSL_new` failed (`"dropped"`), and such a drop does not count
as being served. The order in which epoll reports listeners (a reported one
goes behind the others) is Linux's.

## Proofs

Proved by TLAPS for all values of the constants. Every invariant and every action
property that a passing run checks is stated by a theorem; every inductive
invariant was checked by TLC before it was proved.

**Search** (`CacheSearchProofs`). `StaysInBounds` and `SearchCorrect`, on arrays of
any length: everything left of `left` is earlier than `ts`, everything from `right`
on is later, and the array's end is not.

**Rawlog** (three modules).

- `TypeCorrect`: `[]TypeOK`, strengthened by: names are in the table once, the
  thread's cursor points at a known file where the code dereferences it, and the
  bisection's bounds lie in the array.
- `TimesStayAscending`: inductive on top of the former. Only `cache_set` changes an
  array, and it sorts when the new element is out of order; that the old array was
  sorted is what makes comparing with its last element enough.
- `AssertionsNeverFail` and `AlwaysReady`, if `lseek` and `fstat` do not fail
  (`NoFault`): the only empty cache in the table is the one the thread is reading
  for the first time, and it is dropped before the pass goes on.
- `OffsetsStayRecords`, `LoopCatchesUp` and `PromiseKept`, if also no log is
  emptied in place or left with a fragment and the disk reads (`Undamaged`). The
  invariant (`GrowInv`) says what a log looks like while it only grows: a header,
  then records end to end, the last of which may still lack a block. It then
  says that each index holds offsets of records with their times, and leaves out
  none that lies before one it holds; and that the offset that the read loop holds in
  a local between two reads is a record boundary with everything before it indexed.
  This is why `rebuild_one` skips nothing although it resumes from the
  last element of an array sorted by *time*, which need not be the last record
  (it may then index some records again), and a record that atop adds during the
  loop is found by its next read. `PromiseKept` maps every step of `Rawlog` to a step
  of `SampleIndex` or a stutter.
- `IndexStaysPrefix` and `AnswerStaysClosest`, if also the clock runs forward
  (`Forward`). The times in a file then ascend with its offsets, and those of two
  logs do not overlap (`ClockInv`), so that a cache is a prefix and sorting never moves an element
  (`PrefixInv`). For the answer, `BisectInv` says what the bisection has excluded in
  the log that covers the time, and `ClosestInv` that the sample at the offset in hand
  is the right one. It stays right while atop adds to the log and logs are removed.

`NoFault`, `Undamaged` and `Forward` are conditions on `Events`, and the code needs
each. After a failed `fstat` or `lseek` a cache is left empty, or is read from an
arbitrary offset (`fault`); after a fragment every later offset is wrong; when the
clock was set back, a cache is no prefix and its log's times overlap another's.

**Httpd** (`HttpdProofs`).

- `HttpdTypeCorrect`: `[]HttpdTypeOK`, strengthened by "a server that is not
  waiting works for one of the clients".
- `NothingLeaks`: `[]ConnOwnsAll`. Inductive with the types and `Holds`: during
  `SSL_accept` the SSL object is there, and from `conn_close` on nothing is left
  of the connection. The three ways in which accepting fails (nothing open, a
  descriptor, a descriptor and an SSL object) are cases of their own.
- `BufferAlwaysFits`: `[]BufferFits`. A buffer that is allocated is never smaller
  than `OUTBUF_DEF_SIZE`, and one piece of output is at most that long, which is
  why a single doubling in `output_buf` is enough.
- `RefreshIsPaced`: outside a pass the time the throttle compares with is the
  time of the last pass.
- `BodiesStayOwn`: the shared output buffer is empty except while an answer is
  printed, and then holds only this client's sample in this client's encoding.

**Startup** (`StartupProofs`). `StartupTyped` and `ReadyListensExactly`, for any
number of descriptors and addresses. `StartInv` follows the calls: the registry is
filled from its first slot with the types the build has (`RegistryInv`), a listener
object exists for each type asked for (`CreatedInv`), nothing is open before the
loop (`NothingOpen`), and inside it exactly the descriptors of epoll, of the
listeners done and of the address at hand are open (`LoopInv`).

**JsonOut** (`JsonOutProofs`). For samples with any number of devices and tasks, in
the order atop writes them, and any list of labels:

- `JsonTyped`, `PrintsWellFormed` and `CommandsStayHidden`. `JsonInv` says of what
  has been printed that neighbours may stand next to each other and that no cleaned
  text (of a task) holds a quote or a backslash or, under `-H`, a command line; and that
  the first task is never one
  that the loops leave out. The last is needed: a loop prints its comma before every
  turn but the first, so a first task left out would leave a comma after the bracket.
  A raw string of what is printed is clean if the sample's were (`SafeRaw`); the cleaning
  of the sample touches none of them.
- `MembersAreAsAsked` and `TasksAppearOnce`. Members and elements are told apart by
  *marks*, a key and an id. `MembersInv` says that no mark is printed twice and that
  the marks printed are those of the valid labels in the rows done. Adding a
  section keeps that because rows differ in their label (`RowsDiffer`,
  `LabelsApart`). `ReadSoFar` says what `jsondef` has marked when it has read part of
  the list, up to an `ALL` or not.

The loops are flattened sequences, so what they print is proved by induction on the
number of turns. The library's induction theorems take an operator, which the
provers cannot instantiate; `Induction` states the principle for the members of a
*set* instead and follows from the existence of least elements (`WFMin`).

**Frontend** (`FrontendProofs`). For any logs, templates and bounds:

- `OneChainAtATime` and `PageStaysAlive`: inductive with `HeaderByFirst` (before
  anything is rendered only the chain of the first page can have got the header, so
  no other can render) and `Undisturbed` (without an early key the first chain is
  onload's, which asks for everything, and every later one finds it in the caches,
  where what does not parse is an exception of the property).
- `FrontendTyped`; `RestShowsChoice`: inductive with `AsChosen`, which relates the
  type that a chain captured when it began to the one chosen now: the chain asks for
  it, or has no need to since it is in the cache, or a choice was `missed`.
- `KeysMove`: only the answer that ends a chain can bring the page to rest, and it
  shows what a server that is up to date answers (`RecordFacts`, `TimesFacts`).

What the proofs changed: `ReadAt` was a `CASE` whose guards overlap when a record
starts at the offset and the file is too short to read it, which leaves the value
open; it is now an `IF`. `Moves` used to claim that any step back shows an earlier
sample; going back by less than a step (`b`) may lead to the same one, which
a run with a step of 1 cannot show. `NewFd` took the minimum of the free descriptors,
which is none when all are used; it now says what a new descriptor is.

Only model-checked: liveness (`ServerReturns`, `Served`, `Ends`, `Prints`,
`Settles`), which is out of the prover's reach, and the three violations.

## Not modelled

- the text of the command line, daemon mode (its descriptors are not the server's;
  that it changes to `/` before a relative log path is used again is not a state of
  the model), signals;
- the contents of samples, the header's fields, `rawlog_record_flags`, the numbers
  that the print functions print and `json_calc_freqscale`, URL text: data that no
  property tells apart. Of the strings, quotes and backslashes are modelled; other
  characters that JSON does not allow in a string are not;
- the word before an array that `rebuild_one` reads when the cache is empty
  (`ResumeOffsets`) may be any offset in the file and not a negative one: with glibc it
  is the size that malloc keeps in front of its block;
- exhaustion of memory other than where the code checks for it;
- `conn_shutdown` and `cleanup` of the connection types, and the stdout and
  descriptor sinks of `output.c`, which the server never calls;
- the arithmetic, sorting and layout of the front end, which computes text from a
  sample and keeps no state; that its URLs begin with `http://` also when the page
  came over TLS;
- static pages, packaging, the load test.

## Plan

1. done: `Cache`, `CacheSearch`, `Rawlog`, `SampleIndex`, their runs and first theorems;
2. done: `Connection`, `Output`, `Httpd`, with theorems;
3. done: failing reads, a server clock set back, `JsonOut`, `Startup`, `Frontend`
   and the theorems of its chain;
4. done, proofs: what the index holds and what is answered from it, the refinement of
   `SampleIndex`, the start-up, the printing of a sample, the page;
5. next: the composition of `Httpd` with `Rawlog` as a second refinement (a query or
   a pass of `Rawlog` as one step of `Httpd`'s choice of results), and the weakest
   condition on a damaged log under which its index recovers.
