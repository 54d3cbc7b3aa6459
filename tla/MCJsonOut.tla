------------------------------ MODULE MCJsonOut ------------------------------
(* JsonOut for TLC.                                                         *)
EXTENDS JsonOut

Proc(p, text)      == [pid |-> p, tgid |-> p, isproc |-> TRUE, name |-> {"name"} \cup text,
                       cmdline |-> {"command"} \cup text, cid |-> {"device"}]
Thread(p, g, text) == [Proc(p, text) EXCEPT !.tgid = g, !.isproc = FALSE]

SomeTasks == { Proc(1, {}), Thread(1, 1, {"quote"}), Thread(2, 1, {"backslash"}),
               Proc(3, {"quote", "backslash"}) }

(* Up to three tasks, as atop writes them.                                  *)
TaskLists == { l \in UNION { [1 .. n -> SomeTasks] : n \in 0 .. 3 } : AsAtopWrites(l) }

(* A mount of a directory with a space in its name, which the kernel writes *)
(* as a backslash and its code, comes third.                                *)
Unit(a, i) == IF a = "NFM" /\ i = 3 THEN {"device", "backslash"} ELSE {"device"}

SomeSamples ==
    { [psi |-> full, flags |-> IF full THEN {"NETATOP", "GPUSTAT"} ELSE {},
       units |-> [a \in Counted |-> [i \in 1 .. n |-> Unit(a, i)]], tasks |-> l] :
          full \in BOOLEAN, n \in {0, 1, 3}, l \in TaskLists }

Host == {"device"}

(* Every label, ALL, and one that does not exist, alone and in pairs; no    *)
(* label at all; and longer lists.                                          *)
Words == Labels \cup {"ALL", "XYZ"}

SomeLists ==
    UNION { [1 .. n -> Words] : n \in 0 .. 1 }
    \cup { <<"PRG", w>> : w \in {"PRG", "CPU", "ALL", "XYZ", "PSI"} }
    \cup { <<"PRG", "NET", "PSI">>, <<"XYZ", "ALL">>, <<"cpu", "ALL", "XYZ">>,
           <<"PRD", "PRC", "PRN">> }
=============================================================================
