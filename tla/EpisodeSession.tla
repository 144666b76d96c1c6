---------------------------- MODULE EpisodeSession ----------------------------
(***************************************************************************)
(* cleanroom_corpus/eval_adapters.py: one session of a sealed episode.  In *)
(* "free" mode a request is accepted when it names a transition that can   *)
(* be applied now; in "replay" mode it must be the next scripted event.    *)
(*                                                                         *)
(* The episode is any one that evaluate_episode accepts (EpisodeVerifier): *)
(* its ledgers balance and its versions grow by one, so the checks of both *)
(* cannot fail half-way through the mutations and are left out here.       *)
(* Facts and texts are left out too.                                       *)
(***************************************************************************)
EXTENDS EpisodeVerifier

CONSTANTS
    Modes,      \* of {"free", "replay"}
    Candidates, \* episodes with their patches, as [episode, patches]
    RequestIds,
    Requests    \* requests callers may send

ASSUME ModesAssumption == Modes \subseteq {"free", "replay"}
ASSUME InputsAssumption ==
    /\ \A r \in Requests : r.id \in RequestIds
    /\ \A c \in Candidates : \A i \in DOMAIN c.episode.events :
            c.episode.events[i].request_id \in RequestIds
\* The schema's integers and arrays; no action is permitted to what is no person.
ASSUME EpisodesAssumption ==
    \A c \in Candidates :
        /\ IsFiniteSet(DOMAIN c.episode.role)
        /\ c.episode.events \in Seq({c.episode.events[i] : i \in DOMAIN c.episode.events})
        /\ \A i \in DOMAIN c.episode.events :
            \A o \in DOMAIN c.episode.events[i].mutations :
                c.episode.events[i].mutations[o].from.version \in Nat
        /\ \A a \in DOMAIN c.episode.authorization :
                "none" \notin c.episode.authorization[a]

VARIABLES
    episode,   \* _episode, never changes
    mode,      \* never changes
    states,    \* _states
    requests,  \* _requests: id -> {} or {request}
    receipts,  \* _receipts: id -> {} or {receipt}
    applied,   \* _applied_transitions, with who applied them: in replay mode
               \* a history only
    index,     \* _event_index
    rejection  \* _last_rejection

sealed == <<episode, mode>>
vars == <<sealed, states, requests, receipts, applied, index, rejection>>

Events == episode.events
Objects == DOMAIN episode.initial

\* The entities with a role
Actors == {a \in DOMAIN episode.role : episode.role[a] # "none"}

\* _derive_transitions: the events that are not retransmissions
Transitions == {Events[i] : i \in Primaries(episode)}

Init ==
    /\ mode \in Modes
    /\ \E c \in Candidates : Accepted(c.episode, c.patches) /\ episode = c.episode
    /\ states = episode.initial
    /\ requests = [i \in RequestIds |-> {}]
    /\ receipts = [i \in RequestIds |-> {}]
    /\ applied = [t \in Transitions |-> {}]
    /\ index = 0 /\ rejection = {}

Authorized(actor, action) ==
    /\ actor \in DOMAIN episode.role /\ action \in DOMAIN episode.authorization
    /\ episode.role[actor] \in episode.authorization[action]

PreconditionsUnread(t) == TRUE  \* a slip: only the request is looked at

PreconditionsHold(t) ==
    \A o \in DOMAIN t.mutations : o \in Objects /\ states[o] = t.mutations[o].from

\* The objects a mutation names get their new states and versions.
MutateOne(t) ==  \* a slip: only one mutation is applied
    LET first == CHOOSE o \in Objects : Moves(t, o) \/ DOMAIN t.mutations = {}
    IN  [o \in Objects |->
            IF Moves(t, o) /\ o = first THEN t.mutations[o].to ELSE states[o]]

Mutate(t) ==
    [o \in Objects |-> IF Moves(t, o) THEN t.mutations[o].to ELSE states[o]]

ExpectedVersions(t) ==
    [o \in DOMAIN t.mutations |-> t.mutations[o].from.version]

Receipt(t, id, refs) == [of |-> t.id, request |-> id, refs |-> refs]

IsComplete == \A o \in Objects : states[o] = episode.final[o]

-----------------------------------------------------------------------------
(* _invoke_free, by an adapter whose surface is enabled *)
Unapplied == {t \in Transitions : applied[t] = {}}
ActiveTransitions == {t \in Unapplied : PreconditionsHold(t)}

NamedAgain(surface, action) ==  \* a slip: applied ones are not left out
    {t \in Transitions : /\ PreconditionsHold(t)
                         /\ t.surface = surface /\ t.action = action}

Named(surface, action) ==
    {t \in ActiveTransitions : t.surface = surface /\ t.action = action}

\* Every asserted version is current, every mutated object is asserted.
VersionsCurrent(r, t) ==
    /\ \A o \in DOMAIN r.versions :
        o \in Objects /\ states[o].version = r.versions[o]
    /\ DOMAIN ExpectedVersions(t) \subseteq DOMAIN r.versions

Available == UNION {t.refs : t \in Transitions}
Grounded(r) == r.refs # {} /\ r.refs \subseteq Available

FreshPayload(r) == r \notin requests[r.id]  \* a slip: the ID may be reused
FreshId(r) == requests[r.id] = {}

Accepts(surface, r, t) ==
    /\ FreshId(r) /\ Authorized(r.actor, r.action)
    /\ Named(surface, r.action) = {t}
    /\ VersionsCurrent(r, t) /\ Grounded(r)

Apply(surface, r, t) ==
    /\ Accepts(surface, r, t)
    /\ states' = Mutate(t)
    /\ receipts' = [receipts EXCEPT ![r.id] = {Receipt(t, r.id, r.refs)}]
    /\ requests' = [requests EXCEPT ![r.id] = {r}]
    /\ applied' = [applied EXCEPT ![t] = {r.actor}]
    /\ rejection' = {}
    /\ UNCHANGED <<sealed, index>>

\* A retransmitted request gets its receipt again, on any surface.
Retransmitted(r) ==
    /\ r \in requests[r.id]
    /\ rejection' = {}
    /\ UNCHANGED <<sealed, states, requests, receipts, applied, index>>

Reject(surface, r) ==
    /\ r \notin requests[r.id] /\ ~\E t \in Transitions : Accepts(surface, r, t)
    /\ rejection' = {[surface |-> surface, action |-> r.action]}
    /\ UNCHANGED <<sealed, states, requests, receipts, applied, index>>

InvokeFree(surface, r) ==
    /\ mode = "free" /\ surface \in episode.surfaces
    /\ \/ \E t \in Transitions : Apply(surface, r, t)
       \/ Retransmitted(r)
       \/ Reject(surface, r)

-----------------------------------------------------------------------------
(* _invoke in replay mode; a request that is refused changes nothing *)
InScript == index < Len(Events)
Event == Events[index + 1]

Matches(surface, r) ==
    /\ Event.surface = surface /\ Event.request_id = r.id
    /\ Event.actor = r.actor /\ Event.action = r.action

Admits(surface, r) ==
    /\ Matches(surface, r) /\ Authorized(r.actor, r.action)
    /\ r.versions = ExpectedVersions(Event)

ReplayEvent(surface, r) ==
    /\ InScript /\ Admits(surface, r) /\ Primary(Event)
    /\ receipts[r.id] = {} /\ PreconditionsHold(Event)
    /\ states' = Mutate(Event)
    /\ receipts' = [receipts EXCEPT ![r.id] = {Receipt(Event, r.id, Event.refs)}]
    /\ applied' = [applied EXCEPT ![Event] = {r.actor}]
    /\ index' = index + 1
    /\ UNCHANGED <<sealed, requests, rejection>>

ReplayDuplicate(surface, r) ==
    /\ InScript /\ Admits(surface, r) /\ ~Primary(Event)
    /\ receipts[r.id] # {}
    /\ index' = index + 1
    /\ UNCHANGED <<sealed, states, requests, receipts, applied, rejection>>

InvokeReplay(surface, r) ==
    /\ mode = "replay" /\ surface \in episode.surfaces
    /\ ReplayEvent(surface, r) \/ ReplayDuplicate(surface, r)

Next == \E surface \in AllSurfaces, r \in Requests :
            InvokeFree(surface, r) \/ InvokeReplay(surface, r)

Spec == Init /\ [][Next]_vars

-----------------------------------------------------------------------------
Receipts == UNION {receipts[i] : i \in RequestIds}
AppliedMoves(o) == {t \in Transitions \ Unapplied : Moves(t, o)}

\* state_changes_outside_contract: what was applied, and nothing else, explains
\* every object, in whatever order it was applied.
Contracted(o) ==
    IF AppliedMoves(o) = {} THEN episode.initial[o]
    ELSE LET last == CHOOSE t \in AppliedMoves(o) :
                        \A u \in AppliedMoves(o) :
                            u.mutations[o].to.version <= t.mutations[o].to.version
         IN  last.mutations[o].to

\* The state is the contracted one, and every applied transition has one
\* receipt and one only: a caller's picture of an object may be out of date,
\* its request may come again under another ID (eval_adapters.py:127-164).
ContractHeld ==
    /\ \A o \in Objects : states[o] = Contracted(o)
    /\ {x.of : x \in Receipts} = {t.id : t \in Transitions \ Unapplied}
    /\ \A x, y \in Receipts : x.of = y.of => x = y

\* What a session needs of an episode and evaluate_episode does not look at:
\* the events use surfaces the episode enables, none repeats itself, and a
\* surface and an action name one transition.
Playable ==
    /\ \A i \in DOMAIN Events : /\ Events[i].surface \in episode.surfaces
                               /\ Events[i].id \notin Events[i].duplicate_of
    /\ \A s, t \in Transitions :
            (s.surface = t.surface /\ s.action = t.action) => s = t

\* There is a request that would be accepted for it.
Acceptable(t) ==
    /\ t.surface \in episode.surfaces /\ Named(t.surface, t.action) = {t}
    /\ t.refs # {} /\ \E a \in Actors : Authorized(a, t.action)

NextAdmitted ==
    /\ Event.surface \in episode.surfaces /\ Authorized(Event.actor, Event.action)
    /\ IF Primary(Event)
       THEN receipts[Event.request_id] = {} /\ PreconditionsHold(Event)
       ELSE receipts[Event.request_id] # {}

\* Nothing leads to a dead end, whatever episode was sealed.  In free mode,
\* where the order of the script is dropped, something can be done until the
\* episode is complete; in replay mode the next event always can, and the
\* last one completes the episode (contract.py:249-339, eval_adapters.py:265).
NoDeadEnd ==
    Playable =>
        /\ mode = "free" /\ ~IsComplete => \E t \in Transitions : Acceptable(t)
        /\ mode = "replay" => IF InScript THEN NextAdmitted ELSE IsComplete

\* A complete episode stays complete, and a receipt that was given is given
\* for good, whatever is sent afterwards.
OutcomeStands ==
    [][/\ IsComplete => IsComplete'
       /\ \A i \in RequestIds : receipts[i] # {} => receipts'[i] = receipts[i]]_vars

Contract == INSTANCE EpisodeContract WITH
    rights <- [t \in Transitions |-> {a \in Actors : Authorized(a, t.action)}],
    objects <- states, doneBy <- applied

\* "Two session modes share one contract" (eval_adapters.py:3).
ImplementsContract == Contract!CSpec

=============================================================================
