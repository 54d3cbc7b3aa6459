------------------------------- MODULE MCHttpd -------------------------------
(* Httpd for TLC.                                                           *)
EXTENDS Httpd

Ask(route, args, encoding, labels, pieces) ==
    [line |-> "good", route |-> route, args |-> args, encoding |-> encoding,
     labels |-> labels, pieces |-> pieces]

(* One request of every kind the dispatcher tells apart.                    *)
EveryRequest ==
    { Ask("page", "good", "absent", "good", 2),
      Ask("unknown", "good", "absent", "good", 1),
      Ask("template", "bad", "absent", "good", 1),
      Ask("template", "none", "absent", "good", 3),
      [Ask("page", "good", "absent", "good", 1) EXCEPT !.line = "bad"],
      [Ask("page", "good", "absent", "good", 1) EXCEPT !.line = "edge"],
      Ask("showsamp", "bad", "absent", "good", 1),
      Ask("showsamp", "good", "other", "good", 1),
      Ask("showsamp", "good", "none", "good", 1),
      Ask("showsamp", "good", "absent", "good", 1),
      Ask("showsamp", "good", "deflate", "bad", 1) }

(* A sample in either encoding: what two requests can mix up.               *)
TwoSamples ==
    { Ask("showsamp", "good", "none", "bad", 1),
      Ask("showsamp", "good", "absent", "good", 1) }
=============================================================================
