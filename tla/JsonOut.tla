------------------------------- MODULE JsonOut -------------------------------
(****************************************************************************)
(* json.c: which labels a request selects (jsondef), and the text that      *)
(* jsonout prints for a sample, one print function per label.               *)
(*                                                                          *)
(* The text is a sequence of pieces, each the argument of one output_samp.  *)
(* The numbers in it are left out; of a string, the set of its characters   *)
(* is kept.  Quotes and backslashes are the characters that can end or      *)
(* spoil a JSON string.                                                     *)
(****************************************************************************)
EXTENDS Integers, Sequences, SequencesExt

CONSTANTS
    LabelLists,     \* label lists of requests, split at the commas
    Samples,        \* samples of the rawlogs
    NodeName        \* the server's host name, as uname gives it

(* The table of labels, in its order.                                       *)
labeldef ==
    <<"CPU", "cpu", "CPL", "GPU", "MEM", "SWP", "PAG", "PSI", "LVM", "MDD",
      "DSK", "NFM", "NFC", "NFS", "NET", "IFB", "NUM", "NUC", "LLC",
      "PRG", "PRC", "PRM", "PRD", "PRN", "PRE">>

Labels     == Range(labeldef)
TaskLabels == {"PRG", "PRC", "PRM", "PRD", "PRN", "PRE"}
Counted    == {"cpu", "GPU", "LVM", "MDD", "DSK", "NFM", "NET", "IFB", "NUM",
               "NUC", "LLC"}

(* Those whose elements have a name that is not a number: bus id and type   *)
(* of a GPU, logical volume, disk, NFS mount, interface.                    *)
Named == {"GPU", "LVM", "MDD", "DSK", "NFM", "NET", "IFB"}

Special == {"quote", "backslash"}
NameText    == SUBSET ({"name", "hash"} \cup Special)
CommandText == SUBSET ({"command", "hash", "stars"} \cup Special)
RawText     == SUBSET ({"device"} \cup Special)

(* cid: the container.  units: what the elements of a label are called.     *)
Task   == [pid : Nat, tgid : Nat, isproc : BOOLEAN,
           name : NameText, cmdline : CommandText, cid : RawText]
Sample == [psi : BOOLEAN, flags : SUBSET {"NETATOP", "GPUSTAT"},
           units : [Counted -> Seq(RawText)], tasks : Seq(Task)]

IsMainThread(t) == t.tgid = t.pid /\ ~t.isproc

(* What atop stores (external): a process comes before its threads, and no  *)
(* two processes, and no two threads, have the same pid.                    *)
AsAtopWrites(tasks) ==
    /\ \A j \in DOMAIN tasks : ~tasks[j].isproc =>
          \E i \in 1 .. j - 1 : tasks[i].isproc /\ tasks[i].pid = tasks[j].tgid
    /\ \A i, j \in DOMAIN tasks :
          (tasks[i].pid = tasks[j].pid /\ tasks[i].isproc = tasks[j].isproc) => i = j
    /\ \A i, j \in DOMAIN tasks :
          (tasks[i].isproc /\ ~tasks[j].isproc /\ tasks[i].pid = tasks[j].pid)
              => IsMainThread(tasks[j])

ASSUME SamplesAssumption ==
    /\ Samples \subseteq Sample
    /\ \A s \in Samples : AsAtopWrites(s.tasks)
ASSUME ListsAssumption == LabelLists \subseteq Seq(STRING)
ASSUME NodeAssumption == NodeName \in RawText

VARIABLES
    hidecmdline,    \* the server's option -H
    pc,         \* idle, jsondef, labels, done
    asked,      \* the list of the request
    rest,       \* what jsondef has not looked at yet
    valid,      \* labels marked valid
    sample,     \* the sample to print
    row,        \* index in labeldef of the print function called last
    out         \* the pieces printed

vars == <<hidecmdline, pc, asked, rest, valid, sample, row, out>>

----------------------------------------------------------------------------
(* Pieces of output                                                         *)

(* text: of the strings that PrintHeader goes through, names and command    *)
(* lines; raw: of those that are printed as the sample or uname gives them. *)
Piece(kind, key, id, text, raw) ==
    [kind |-> kind, key |-> key, id |-> id, text |-> text, raw |-> raw]

Message      == Piece("message", "", 0, {}, {})         \* the label is not supported
Open         == Piece("open", "", 0, {}, NodeName)      \* { with host and times
Close        == Piece("close", "", 0, {}, {})           \* }
Object(key)  == Piece("object", key, 0, {}, {})         \* , "key": {...}
Begin(key)   == Piece("begin", key, 0, {}, {})          \* , "key": [
Comma        == Piece("comma", "", 0, {}, {})
End          == Piece("end", "", 0, {}, {})             \* ]
Item(key, id, text, raw) == Piece("item", key, id, text, raw)

(* Mutant: off by one in the loop's first turn.                             *)
SeparatedLate(i, p) == IF i > 2 THEN <<Comma, p>> ELSE <<p>>

(* The i-th turn of a loop (counted from 1) that prints p.                  *)
Separated(i, p) == IF i > 1 THEN <<Comma, p>> ELSE <<p>>

Array(key, turns) == <<Begin(key)>> \o FlattenSeq(turns) \o <<End>>

CountedArray(key, s) ==
    Array(key, [i \in 1 .. Len(s.units[key]) |->
        Separated(i, Item(key, i, {}, IF key \in Named THEN s.units[key][i] ELSE {}))])

(* Skip the thread that stands for the process itself.  texts and raws: the *)
(* strings that are printed.                                                *)
TaskArray(key, s, texts, raws) ==
    Array(key, [i \in DOMAIN s.tasks |->
        IF IsMainThread(s.tasks[i]) THEN <<>>
        ELSE Separated(i, Item(key, s.tasks[i].pid,
                               UNION { s.tasks[i][f] : f \in texts },
                               UNION { s.tasks[i][f] : f \in raws }))])

----------------------------------------------------------------------------
(* The print functions                                                      *)

json_print_CPU(s) == <<Object("CPU")>>
json_print_cpu(s) == CountedArray("cpu", s)
json_print_CPL(s) == <<Object("CPL")>>
json_print_GPU(s) == CountedArray("GPU", s)
json_print_MEM(s) == <<Object("MEM")>>
json_print_SWP(s) == <<Object("SWP")>>
json_print_PAG(s) == <<Object("PAG")>>
json_print_PSI(s) == IF s.psi THEN <<Object("PSI")>> ELSE <<>>
json_print_LVM(s) == CountedArray("LVM", s)
json_print_MDD(s) == CountedArray("MDD", s)
json_print_DSK(s) == CountedArray("DSK", s)
json_print_NFM(s) == CountedArray("NFM", s)
json_print_NFC(s) == <<Object("NFC")>>
json_print_NFS(s) == <<Object("NFS")>>
json_print_NET(s) == <<Object("NET_GENERAL")>> \o CountedArray("NET", s)
json_print_IFB(s) == CountedArray("IFB", s)
json_print_NUM(s) == CountedArray("NUM", s)
json_print_NUC(s) == CountedArray("NUC", s)
json_print_LLC(s) == CountedArray("LLC", s)
json_print_PRG(s) == TaskArray("PRG", s, {"name", "cmdline"}, {"cid"})
json_print_PRC(s) == TaskArray("PRC", s, {}, {})
json_print_PRM(s) == TaskArray("PRM", s, {}, {})

(* Mutant: every entry of the sample is printed.                            *)
PrintAllPRD(s) ==
    Array("PRD", [i \in DOMAIN s.tasks |->
        Separated(i, Item("PRD", s.tasks[i].pid, {}, {}))])

json_print_PRD(s) == TaskArray("PRD", s, {}, {})
json_print_PRN(s) == IF "NETATOP" \in s.flags THEN TaskArray("PRN", s, {}, {}) ELSE <<>>
json_print_PRE(s) == IF "GPUSTAT" \in s.flags THEN TaskArray("PRE", s, {}, {}) ELSE <<>>

prifunc(label, s) ==
    CASE label = "CPU" -> json_print_CPU(s)
      [] label = "cpu" -> json_print_cpu(s)
      [] label = "CPL" -> json_print_CPL(s)
      [] label = "GPU" -> json_print_GPU(s)
      [] label = "MEM" -> json_print_MEM(s)
      [] label = "SWP" -> json_print_SWP(s)
      [] label = "PAG" -> json_print_PAG(s)
      [] label = "PSI" -> json_print_PSI(s)
      [] label = "LVM" -> json_print_LVM(s)
      [] label = "MDD" -> json_print_MDD(s)
      [] label = "DSK" -> json_print_DSK(s)
      [] label = "NFM" -> json_print_NFM(s)
      [] label = "NFC" -> json_print_NFC(s)
      [] label = "NFS" -> json_print_NFS(s)
      [] label = "NET" -> json_print_NET(s)
      [] label = "IFB" -> json_print_IFB(s)
      [] label = "NUM" -> json_print_NUM(s)
      [] label = "NUC" -> json_print_NUC(s)
      [] label = "LLC" -> json_print_LLC(s)
      [] label = "PRG" -> json_print_PRG(s)
      [] label = "PRC" -> json_print_PRC(s)
      [] label = "PRM" -> json_print_PRM(s)
      [] label = "PRD" -> json_print_PRD(s)
      [] label = "PRN" -> json_print_PRN(s)
      [] label = "PRE" -> json_print_PRE(s)

----------------------------------------------------------------------------
NoSample == [psi |-> FALSE, flags |-> {}, units |-> [a \in Counted |-> <<>>], tasks |-> <<>>]

Init ==
    /\ hidecmdline \in BOOLEAN
    /\ pc = "idle"
    /\ asked = <<>> /\ rest = <<>> /\ valid = {}
    /\ sample = NoSample /\ row = 0 /\ out = <<>>

(* rawlog_get_record calls jsonout.                                         *)
jsonout(list, s) ==
    /\ pc = "idle"
    /\ pc' = "jsondef"
    /\ asked' = list /\ rest' = list
    /\ sample' = s
    /\ UNCHANGED <<hidecmdline, valid, row, out>>

(* jsondef takes the list label by label.  A known one is marked.           *)

(* Mutants: the label before is forgotten; the list does not get shorter.   *)
KnownAlone ==
    /\ pc = "jsondef" /\ rest # <<>>
    /\ Head(rest) \in Labels
    /\ valid' = {Head(rest)}
    /\ rest' = Tail(rest)
    /\ UNCHANGED <<hidecmdline, pc, asked, sample, row, out>>

KnownAgain ==
    /\ pc = "jsondef" /\ rest # <<>>
    /\ Head(rest) \in Labels
    /\ valid' = valid \cup {Head(rest)}
    /\ UNCHANGED <<hidecmdline, rest, pc, asked, sample, row, out>>

KnownLabel ==
    /\ pc = "jsondef" /\ rest # <<>>
    /\ Head(rest) \in Labels
    /\ valid' = valid \cup {Head(rest)}
    /\ rest' = Tail(rest)
    /\ UNCHANGED <<hidecmdline, pc, asked, sample, row, out>>

(* Mutant: one row too many is marked.                                      *)
MarkBeyond ==
    /\ pc = "jsondef" /\ rest # <<>>
    /\ Head(rest) = "ALL"
    /\ valid' = Labels \cup {Head(rest)}
    /\ rest' = <<>>
    /\ UNCHANGED <<hidecmdline, pc, asked, sample, row, out>>

(* ALL marks every label and ends the list.                                 *)
LabelAll ==
    /\ pc = "jsondef" /\ rest # <<>>
    /\ Head(rest) = "ALL"
    /\ valid' = Labels
    /\ rest' = <<>>
    /\ UNCHANGED <<hidecmdline, pc, asked, sample, row, out>>

(* Anything else, a list that starts with a dash included: the message is   *)
(* all that is printed, whatever was marked before.                         *)
UnknownLabel ==
    /\ pc = "jsondef" /\ rest # <<>>
    /\ Head(rest) \notin Labels \cup {"ALL"}
    /\ out' = Append(out, Message)
    /\ pc' = "done"
    /\ UNCHANGED <<hidecmdline, asked, rest, valid, sample, row>>

(* " and \ become #, which keeps the text a JSON string.                    *)
Escaped(text) ==
    (text \ Special) \cup IF text \cap Special # {} THEN {"hash"} ELSE {}

(* Mutant: the command lines of threads are not hidden.                     *)
CleanedProcesses(t) ==
    [t EXCEPT !.name = Escaped(@),
              !.cmdline = IF hidecmdline /\ t.isproc THEN {"stars"} ELSE Escaped(@)]

(* The names, and the command lines unless they are replaced altogether.    *)
Cleaned(t) ==
    [t EXCEPT !.name = Escaped(@),
              !.cmdline = IF hidecmdline THEN {"stars"} ELSE Escaped(@)]

PrintHeader ==
    /\ pc = "jsondef" /\ rest = <<>>
    /\ out' = Append(out, Open)
    /\ sample' = [sample EXCEPT !.tasks = [i \in DOMAIN @ |-> Cleaned(@[i])]]
    /\ pc' = "labels"
    /\ UNCHANGED <<hidecmdline, asked, rest, valid, row>>

(* The rows of the table still to come that are valid.                      *)
Pending == { k \in row + 1 .. Len(labeldef) : labeldef[k] \in valid }

PrintLabel(k) ==
    /\ pc = "labels"
    /\ k \in Pending /\ \A j \in Pending : k <= j
    /\ out' = out \o prifunc(labeldef[k], sample)
    /\ row' = k
    /\ UNCHANGED <<hidecmdline, pc, asked, rest, valid, sample>>

PrintClose ==
    /\ pc = "labels" /\ Pending = {}
    /\ out' = Append(out, Close)
    /\ pc' = "done"
    /\ UNCHANGED <<hidecmdline, asked, rest, valid, sample, row>>

(* output_samp_done sends and empties the buffer; the sample is freed.      *)
Return ==
    /\ pc = "done"
    /\ pc' = "idle"
    /\ asked' = <<>> /\ rest' = <<>> /\ valid' = {}
    /\ sample' = NoSample /\ row' = 0 /\ out' = <<>>
    /\ UNCHANGED hidecmdline

Printing ==
    \/ KnownLabel \/ LabelAll \/ UnknownLabel
    \/ PrintHeader
    \/ \E k \in DOMAIN labeldef : PrintLabel(k)
    \/ PrintClose \/ Return

Next ==
    \/ \E list \in LabelLists, s \in Samples : jsonout(list, s)
    \/ Printing

(* Nothing the printing does can block.                                     *)
Spec == Init /\ [][Next]_vars /\ WF_vars(Printing)
----------------------------------------------------------------------------
(* Properties                                                               *)

PieceType ==
    [kind : {"message", "open", "close", "object", "begin", "comma", "end", "item"},
     key : Labels \cup {"", "NET_GENERAL"}, id : Nat,
     text : SUBSET ({"name", "command", "hash", "stars"} \cup Special), raw : RawText]

(* The variables have the types of the C variables they stand for.          *)
JsonTypeOK ==
    /\ hidecmdline \in BOOLEAN
    /\ pc \in {"idle", "jsondef", "labels", "done"}
    /\ asked \in LabelLists \cup {<<>>} /\ rest \in Seq(STRING)
    /\ valid \subseteq Labels
    /\ sample \in Sample
    /\ row \in 0 .. Len(labeldef)
    /\ out \in Seq(PieceType)

(* What may come after a piece in a JSON object of objects and arrays.      *)
MayFollow(kind) ==
    CASE kind \in {"open", "object", "end"} -> {"object", "begin", "close"}
      [] kind = "begin"                     -> {"item", "end"}
      [] kind = "item"                      -> {"comma", "end"}
      [] kind = "comma"                     -> {"item"}
      [] kind \in {"close", "message"}      -> {}

(* Nothing that is printed as it comes has a quote or a backslash: the host *)
(* name, and the names of devices, mounts, interfaces and containers.       *)
RawClean(s) ==
    /\ NodeName \cap Special = {}
    /\ \A a \in Named : \A i \in DOMAIN s.units[a] : s.units[a][i] \cap Special = {}
    /\ \A i \in DOMAIN s.tasks : s.tasks[i].cid \cap Special = {}

(* Whatever the request and the sample (no devices, tasks left out of the   *)
(* arrays, parts missing), the output has the brackets and commas of one    *)
(* JSON object, or is the message, and printing stops only at the end of    *)
(* it.  No name or command line of a task has a quote or a backslash left;  *)
(* other strings have none if they had none in the sample, for nothing      *)
(* cleans them.                                                             *)
WellFormed ==
    /\ \A i \in 1 .. Len(out) - 1 : out[i + 1].kind \in MayFollow(out[i].kind)
    /\ out # <<>> => out[1].kind \in {"open", "message"}
    /\ pc = "done" => MayFollow(Last(out).kind) = {}
    /\ \A i \in DOMAIN out :
          /\ out[i].text \cap Special = {}
          /\ RawClean(sample) => out[i].raw \cap Special = {}

(* The server was told to hide command lines: none is printed.              *)
CommandsHidden ==
    hidecmdline => \A i \in DOMAIN out : "command" \notin out[i].text

Understood(k)  == asked[k] \in Labels \cup {"ALL"}
Rejected       == \E k \in DOMAIN asked :
                     ~Understood(k) /\ \A j \in 1 .. k - 1 : asked[j] # "ALL"
Wanted         == IF "ALL" \in Range(asked) THEN Labels ELSE Range(asked)
Present        == Labels \ UNION { IF sample.psi THEN {} ELSE {"PSI"},
                                   IF "NETATOP" \in sample.flags THEN {} ELSE {"PRN"},
                                   IF "GPUSTAT" \in sample.flags THEN {} ELSE {"PRE"} }
Members        == { i \in DOMAIN out : out[i].kind \in {"object", "begin"} }

(* The object has a member for each label asked for that the sample has,    *)
(* once even if it was asked for twice, and no other; a list with an        *)
(* unknown label gets none of it.                                           *)
MembersAsAsked ==
    pc = "done" =>
        /\ \A i, j \in Members : out[i].key = out[j].key => i = j
        /\ { out[i].key : i \in Members } =
              IF Rejected THEN {}
              ELSE (Wanted \cap Present)
                   \cup IF "NET" \in Wanted THEN {"NET_GENERAL"} ELSE {}

(* Each array of tasks has every task of the sample once, by its pid: the   *)
(* page joins PRG, PRC, PRM and PRD by pid, and fails on a task that one of *)
(* them lacks.                                                              *)
TasksOnce ==
    pc = "done" => \A m \in Members : out[m].key \in TaskLabels =>
        LET items == { i \in DOMAIN out : out[i].kind = "item" /\ out[i].key = out[m].key }
        IN  /\ \A i, j \in items : out[i].id = out[j].id => i = j
            /\ { out[i].id : i \in items } = { t.pid : t \in Range(sample.tasks) }

(* Every call of jsonout prints its object or message and returns.          *)
Prints == pc = "jsondef" ~> pc = "idle"
=============================================================================
