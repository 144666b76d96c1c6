------------------------------ MODULE MCPanelRun ------------------------------
(* Two cases of two turns, two workers, one kill, two configurations, and   *)
(* both kinds of failure: one that counts for the provider, one not.  A     *)
(* provider may report fewer tokens than none and more than were asked for. *)
EXTENDS PanelRun

MCReports == {[tokens |-> -1, model |-> "string"],
              [tokens |-> 2, model |-> "string"], [tokens |-> 3, model |-> "null"]}
=============================================================================
