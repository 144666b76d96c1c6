---------------------------- MODULE EpisodeVerifier ----------------------------
(***************************************************************************)
(* cleanroom_eval/contract.py, evaluate_episode: what an episode file must *)
(* fulfil before it is sealed.  The code replays the events and raises at  *)
(* the first check that fails; an episode is accepted when none does.      *)
(*                                                                         *)
(* An episode is a record:                                                 *)
(*   role           entity -> role ("none" for what is no person)          *)
(*   authorization  action -> roles                                        *)
(*   surfaces       tool_surfaces                                          *)
(*   initial, final object -> [state, version]                             *)
(*   events         a sequence of records [id, at, surface, actor, action, *)
(*                  request_id, duplicate_of (a set), receipt, refs,       *)
(*                  unbalanced (the currencies whose entries do not        *)
(*                  cancel), mutations (object -> [from, to])]             *)
(*   window         [start, end] in days                                   *)
(*   challenges     a set of [supplied, required, disposition]             *)
(* and it brings patches along, a set of [patched (an episode), error].    *)
(* An event moves an object at most once, and its sequence number is its   *)
(* place in the script: all sealed ones are like that.                     *)
(* Schema, classification, competencies and facts are left out.            *)
(***************************************************************************)
EXTENDS Integers, Sequences, FiniteSets

CONSTANT AllSurfaces  \* TOOL_SURFACES, the taxonomy's surface_ids

Primary(e) == e.duplicate_of = {}
Moves(e, o) == o \in DOMAIN e.mutations

Primaries(ep) == {i \in DOMAIN ep.events : Primary(ep.events[i])}

-----------------------------------------------------------------------------
(* Before the replay *)
KnownSurfaces(ep) == ep.surfaces \subseteq AllSurfaces
LongHorizon(ep) == ep.window.end - ep.window.start >= 7
Covered(ep) ==
    DOMAIN ep.initial \subseteq DOMAIN ep.role /\ DOMAIN ep.final = DOMAIN ep.initial
UniqueEvents(ep) ==
    \A i, j \in DOMAIN ep.events : ep.events[i].id = ep.events[j].id => i = j
UniqueReceipts(ep) ==
    \A i, j \in Primaries(ep) :
        ep.events[i].receipt = ep.events[j].receipt => i = j

EpisodeEvidence(ep) == UNION {ep.events[i].refs : i \in DOMAIN ep.events}

ChallengesFair(ep) ==
    \A c \in ep.challenges :
        /\ c.supplied \subseteq EpisodeEvidence(ep)
        /\ c.disposition = "SUPPORTED" => c.required \subseteq c.supplied
        /\ c.disposition = "REFUSE_UNSUPPORTED" => ~(c.required \subseteq c.supplied)

-----------------------------------------------------------------------------
(* The replay, event by event *)
Chronological(ep, i) ==
    /\ ep.window.start <= ep.events[i].at /\ ep.events[i].at <= ep.window.end
    /\ \A j \in 1..i : ep.events[j].at <= ep.events[i].at

SurfaceKnown(ep, i) == ep.events[i].surface \in AllSurfaces

ActorPermitted(ep, i) ==
    LET e == ep.events[i]
    IN  /\ e.actor \in DOMAIN ep.role /\ e.action \in DOMAIN ep.authorization
        /\ ep.role[e.actor] \in ep.authorization[e.action]

IdempotentAhead(ep, i) ==  \* a slip: it may name an event to come
    LET e == ep.events[i]
    IN  ~Primary(e) => \E j \in Primaries(ep) : ep.events[j].id \in e.duplicate_of

\* A retransmission names an event up to itself, with the same request and
\* receipt, and moves nothing; any other event has a request of its own.
Idempotent(ep, i) ==
    LET e == ep.events[i]
    IN  IF Primary(e)
        THEN \A j \in Primaries(ep) \intersect 1..(i - 1) :
                ep.events[j].request_id # e.request_id
        ELSE /\ DOMAIN e.mutations = {}
             /\ \E j \in 1..i : /\ ep.events[j].id \in e.duplicate_of
                                /\ ep.events[j].request_id = e.request_id
                                /\ ep.events[j].receipt = e.receipt

Balanced(ep, i) == ep.events[i].unbalanced = {}

\* The first i events leave object o in s.
Leaves(ep, i, o, s) ==
    \/ s = ep.initial[o] /\ \A k \in 1..i : ~Moves(ep.events[k], o)
    \/ \E k \in 1..i :
        /\ Moves(ep.events[k], o) /\ s = ep.events[k].mutations[o].to
        /\ \A l \in (k + 1)..i : ~Moves(ep.events[l], o)

Chained(ep, i) ==
    LET e == ep.events[i]
    IN  \A o \in DOMAIN e.mutations :
            /\ o \in DOMAIN ep.initial
            /\ Leaves(ep, i - 1, o, e.mutations[o].from)
            /\ e.mutations[o].to.version = e.mutations[o].from.version + 1

Evidenced(ep, i) == ep.events[i].refs # {}

FinalReached(ep) ==
    \A o \in DOMAIN ep.initial : Leaves(ep, Len(ep.events), o, ep.final[o])

-----------------------------------------------------------------------------
\* What is checked before the events, for each of them, and after them, in
\* this order.
Before == <<"surfaces", "horizon", "coverage", "event_ids", "receipts",
            "challenges">>
PerEvent == <<"time", "surface", "actor", "idempotency", "ledger", "mutation",
              "evidence">>

HoldsBefore(ep, check) ==
    CASE check = "surfaces"   -> KnownSurfaces(ep)
      [] check = "horizon"    -> LongHorizon(ep)
      [] check = "coverage"   -> Covered(ep)
      [] check = "event_ids"  -> UniqueEvents(ep)
      [] check = "receipts"   -> UniqueReceipts(ep)
      [] check = "challenges" -> ChallengesFair(ep)

HoldsAt(ep, i, check) ==
    CASE check = "time"        -> Chronological(ep, i)
      [] check = "surface"     -> SurfaceKnown(ep, i)
      [] check = "actor"       -> ActorPermitted(ep, i)
      [] check = "idempotency" -> Idempotent(ep, i)
      [] check = "ledger"      -> Balanced(ep, i)
      [] check = "mutation"    -> Chained(ep, i)
      [] check = "evidence"    -> Evidenced(ep, i)

Consistent(ep) ==
    /\ \A n \in DOMAIN Before : HoldsBefore(ep, Before[n])
    /\ \A i \in DOMAIN ep.events, n \in DOMAIN PerEvent :
            HoldsAt(ep, i, PerEvent[n])
    /\ FinalReached(ep)

FirstOf(checks, passed) ==
    checks[CHOOSE n \in DOMAIN checks :
        ~passed[n] /\ \A m \in 1..(n - 1) : passed[m]]

\* The error an inconsistent episode is refused with: that of the first event
\* at fault, when the episode as a whole is in order.
Fault(ep) ==
    LET early == \E n \in DOMAIN Before : ~HoldsBefore(ep, Before[n])
        faulty == {i \in DOMAIN ep.events :
                       \E n \in DOMAIN PerEvent : ~HoldsAt(ep, i, PerEvent[n])}
    IN  IF early
        THEN FirstOf(Before, [n \in DOMAIN Before |-> HoldsBefore(ep, Before[n])])
        ELSE IF faulty = {} THEN "final"
        ELSE LET i == CHOOSE i \in faulty : \A j \in faulty : i <= j
             IN  FirstOf(PerEvent, [n \in DOMAIN PerEvent |->
                                        HoldsAt(ep, i, PerEvent[n])])

\* The patches an episode brings along are refused, each for its own reason.
PatchesRefused(patches) ==
    \A p \in patches : ~Consistent(p.patched) /\ Fault(p.patched) = p.error

Accepted(ep, patches) == Consistent(ep) /\ PatchesRefused(patches)
=============================================================================
