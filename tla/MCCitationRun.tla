---------------------------- MODULE MCCitationRun ----------------------------
(* Two tasks: the evidence of the first supports two claims, that of the    *)
(* second covers what is asked and does not support it.  One configuration  *)
(* has a single worker, so that a task can still be queued when another     *)
(* fails; the other has two.                                                *)
EXTENDS CitationRun

Limit(object) == [topic |-> "limit", object |-> object, polarity |-> "affirmed"]
Term == [topic |-> "term", object |-> "5", polarity |-> "negated"]

Choice(claims) == [kind |-> "answer", claims |-> claims, requested |-> {}, cites |-> <<>>]
Refusal(asked, cites) ==
    [kind |-> "refusal", claims |-> <<>>, requested |-> asked, cites |-> cites]
Claim(id, proposition, cites) ==
    [id |-> id, proposition |-> proposition, cites |-> cites]

MCTask ==
    <<[evidence |-> [n \in {"e1", "e2"} |->
           IF n = "e1" THEN [propositions |-> {Limit("10")}, coverage |-> {"limit"}]
           ELSE [propositions |-> {Limit("10"), Term}, coverage |-> {}]],
       oracle |-> Choice(<<Claim("a", Limit("10"), <<"e1", "e2">>),
                            Claim("b", Term, <<"e2">>)>>)],
      [evidence |-> [n \in {"e3"} |->
           [propositions |-> {Limit("10")}, coverage |-> {"limit"}]],
       oracle |-> Refusal(Limit("20"), <<"e3">>)]>>

Selected(s) == [selection |-> {s}, class |-> "none", code |-> "", sound |-> TRUE]
Failed(sound) ==
    [selection |-> {}, class |-> "HTTP", code |-> "VALIDATION_REJECTED", sound |-> sound]

\* The oracle in another order, a call that fails, a history that will be
\* refused; the oracle, a claim the evidence does not support, a failed call.
MCCalls ==
    <<<<Selected(Choice(<<Claim("x", Term, <<"e2">>),
                          Claim("y", Limit("10"), <<"e1", "e2">>)>>)),
       Failed(TRUE), Failed(FALSE)>>,
      <<Selected(Refusal(Limit("20"), <<"e3">>)),
       Selected(Choice(<<Claim("x", Limit("20"), <<"e3">>)>>)), Failed(TRUE)>>>>

MCRefused == [s \in 1..2 |-> IF s = 1 THEN {3} ELSE {}]

MCWorkers == [c \in {"c1", "c2"} |-> IF c = "c1" THEN 1 ELSE 2]
=============================================================================
