---------------------------- MODULE MCMatchedJobs ----------------------------
(* Three jobs, at most two of them in one run of the command. *)
EXTENDS MatchedJobs
=============================================================================
