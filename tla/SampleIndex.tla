----------------------------- MODULE SampleIndex -----------------------------
(****************************************************************************)
(* What the index promises, without files, offsets in flight or passes: it  *)
(* only ever learns samples that the log really holds, it never forgets one *)
(* it has learnt, and what it serves is a sample it knows.                  *)
(****************************************************************************)
CONSTANTS Names, Samples

VARIABLES
    stored,     \* name -> samples its file holds
    known,      \* name -> samples the index knows
    reply       \* the times just served: one, or none

vars == <<stored, known, reply>>

Init ==
    /\ stored = [n \in Names |-> {}]
    /\ known = [n \in Names |-> {}]
    /\ reply = {}

(* The writer adds samples.                                                 *)
Store(n) ==
    /\ stored' \in [Names -> SUBSET Samples]
    /\ stored[n] \subseteq stored'[n]
    /\ \A m \in Names \ {n} : stored'[m] = stored[m]
    /\ UNCHANGED <<known, reply>>

(* A pass over the directory picks one up.                                  *)
Learn(n) ==
    /\ \E s \in stored[n] : known' = [known EXCEPT ![n] = @ \cup {s}]
    /\ UNCHANGED <<stored, reply>>

(* A query is answered with a sample the index knows.                       *)
Serve(n) ==
    /\ \E s \in known[n] : reply' = {s.time}
    /\ UNCHANGED <<stored, known>>

Done ==
    /\ reply' = {}
    /\ UNCHANGED <<stored, known>>

Next == Done \/ \E n \in Names : Store(n) \/ Learn(n) \/ Serve(n)

Spec == Init /\ [][Next]_vars
=============================================================================
