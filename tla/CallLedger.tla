------------------------------ MODULE CallLedger ------------------------------
(***************************************************************************)
(* What every resumable run promises about its paid calls: a call is made  *)
(* at most once, only a call that was made has an answer on file, and an   *)
(* answer on file stays there.                                             *)
(***************************************************************************)
EXTENDS Naturals

CONSTANT Calls

VARIABLES
    made,   \* how often each call was sent
    kept    \* the calls whose answer is on file for good

lvars == <<made, kept>>

LInit == made = [c \in Calls |-> 0] /\ kept = {}

Make(c) ==
    /\ made[c] = 0
    /\ made' = [made EXCEPT ![c] = 1]
    /\ UNCHANGED kept

Keep(c) ==
    /\ made[c] = 1 /\ c \notin kept
    /\ kept' = kept \union {c}
    /\ UNCHANGED made

LNext == \E c \in Calls : Make(c) \/ Keep(c)

LSpec == LInit /\ [][LNext]_lvars
=============================================================================
