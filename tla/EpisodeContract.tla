--------------------------- MODULE EpisodeContract ---------------------------
(***************************************************************************)
(* The contract both session modes of an episode share: a transition moves *)
(* all its objects at once, from the states and versions it names, it does *)
(* so at most once, and somebody authorized did it.  Nothing is said of    *)
(* requests, receipts or order.                                            *)
(***************************************************************************)
EXTENDS Naturals

VARIABLES
    rights,   \* transition -> the actors that may apply it; never changes
    objects,  \* the state and version of every object
    doneBy    \* {} or {who applied it}, per transition

cvars == <<rights, objects, doneBy>>

Transitions == DOMAIN rights

Holds(t) ==
    \A o \in DOMAIN t.mutations : objects[o] = t.mutations[o].from

Moved(t) ==
    [o \in DOMAIN objects |->
        IF o \in DOMAIN t.mutations THEN t.mutations[o].to ELSE objects[o]]

Apply(t, actor) ==
    /\ doneBy[t] = {} /\ Holds(t) /\ actor \in rights[t]
    /\ objects' = Moved(t)
    /\ doneBy' = [doneBy EXCEPT ![t] = {actor}]
    /\ UNCHANGED rights

CInit == \A t \in Transitions : doneBy[t] = {}
CNext == \E t \in Transitions : \E actor \in rights[t] : Apply(t, actor)
CSpec == CInit /\ [][CNext]_cvars
=============================================================================
