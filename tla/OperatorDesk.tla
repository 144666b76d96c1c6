----------------------------- MODULE OperatorDesk -----------------------------
(***************************************************************************)
(* The commands an operator gives to turn files into results: the plan of  *)
(* a matched run (MatchedPlan), the evidence pack and the certificates     *)
(* (EvidencePack), the audited release (ReleaseAudit).  One command runs   *)
(* at a time; it reads file after file while runs and people go on         *)
(* rewriting those files, and it may be killed anywhere.                   *)
(***************************************************************************)
EXTENDS Naturals, Sequences

CONSTANTS
    MaxCommands,   \* bound on the commands given
    MaxChanges     \* bound on the changes made to files meanwhile

ASSUME BoundsAssumption == MaxCommands \in Nat /\ MaxChanges \in Nat

VARIABLES
    command,    \* the command running, or "none"
    at,         \* its next step
    got,        \* what it has read: place -> {} or {content}
    commands,   \* how many were given
    changes     \* how many changes were made

deskVars == <<command, at, got, commands, changes>>

DeskInit ==
    command = "none" /\ at = 0 /\ got = <<>> /\ commands = 0 /\ changes = 0

Give(name, places) ==
    /\ command = "none" /\ commands < MaxCommands
    /\ command' = name /\ at' = 1 /\ got' = [p \in places |-> {}]
    /\ commands' = commands + 1
    /\ UNCHANGED changes

\* The step reads content into a place and goes on.
Take(place, content) ==
    /\ got' = [got EXCEPT ![place] = content]
    /\ at' = at + 1
    /\ UNCHANGED <<command, commands, changes>>

GoOn == at' = at + 1 /\ UNCHANGED <<command, got, commands, changes>>

\* The command returns or raises.
Leave ==
    /\ command' = "none" /\ at' = 0 /\ got' = <<>>
    /\ UNCHANGED <<commands, changes>>

Change ==
    /\ changes < MaxChanges /\ changes' = changes + 1
    /\ UNCHANGED <<command, at, got, commands>>

\* A file that is there holds one content.
The(file) == CHOOSE content \in file : TRUE
=============================================================================
