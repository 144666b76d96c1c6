-------------------------- MODULE MCOperatorCommands --------------------------
(* Two commands with two changes under way: a file rewritten while one      *)
(* command reads it and again while the next does, also with what it held   *)
(* before; a machine with all the private inputs, and one with none.        *)
EXTENDS OperatorCommands, TLC

CONSTANTS
    m1, m2,  \* two results of a run
    e1, e2   \* two sets of episodes

MCResults == {m1, m2}
MCEpisodeSets == {e1, e2}
MCSymmetry == Permutations(MCResults) \union Permutations(MCEpisodeSets)

MCMachines ==
    {[denylist |-> b, registry |-> b, corpus |-> b, dataset |-> b, oracle |-> b] :
        b \in BOOLEAN}
=============================================================================
