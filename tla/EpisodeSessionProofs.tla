------------------------- MODULE EpisodeSessionProofs -------------------------
(***************************************************************************)
(* For every episode the verifier accepts and any requests: both modes     *)
(* implement the contract, the contract's own account of the applied       *)
(* transitions explains the state and the receipts, nothing leads to a     *)
(* dead end, and what a run reports of its sessions is true.               *)
(*                                                                         *)
(* Both modes change an object by the same step, Performed, of a           *)
(* transition not applied before.  In free mode that is a check; in replay *)
(* mode nothing is checked, and it follows from the place in the script    *)
(* (InOrder).  That step keeps every object at the highest version that    *)
(* was applied to it (Explained), and where the script leaves it after     *)
(* exactly those of its events that were applied (Placed): what moves an   *)
(* object moves its version on, so an object that is where an event wants  *)
(* it has no event to catch up on.                                         *)
(***************************************************************************)
EXTENDS FreeRun, FiniteSetTheorems, WellFoundedInduction, TLAPS

Sealed == \E c \in Candidates :
            Accepted(c.episode, c.patches) /\ episode = c.episode

\* What the verifier and the schema say of the sealed episode.
LEMMA SealedFacts ==
    ASSUME Sealed
    PROVE  /\ Len(Events) \in Nat /\ DOMAIN Events = 1..Len(Events)
           /\ \A i, j \in DOMAIN Events : Events[i].id = Events[j].id => i = j
           /\ \A i \in DOMAIN Events : Events[i].request_id \in RequestIds
           /\ \A i \in DOMAIN Events : \A o \in DOMAIN Events[i].mutations :
                /\ o \in Objects
                /\ Events[i].mutations[o].from.version \in Nat
                /\ Events[i].mutations[o].to.version
                        = Events[i].mutations[o].from.version + 1
           /\ \A a \in DOMAIN episode.authorization :
                    "none" \notin episode.authorization[a]
<1>1. PICK c \in Candidates : Accepted(c.episode, c.patches) /\ episode = c.episode
  BY DEF Sealed
<1>2. Consistent(episode)
  BY <1>1 DEF Accepted
<1>3. UniqueEvents(episode)
  <2>1. HoldsBefore(episode, Before[4]) /\ Before[4] = "event_ids"
    <3>1. 4 \in DOMAIN Before /\ Before[4] = "event_ids"
      BY DEF Before
    <3> QED BY <3>1, <1>2 DEF Consistent
  <2> QED BY <2>1 DEF HoldsBefore
<1>4. ASSUME NEW i \in DOMAIN Events PROVE Chained(episode, i)
  <2>1. 6 \in DOMAIN PerEvent /\ PerEvent[6] = "mutation"
    BY DEF PerEvent
  <2>2. HoldsAt(episode, i, PerEvent[6])
    BY <2>1, <1>2 DEF Consistent, Events
  <2> QED BY <2>1, <2>2 DEF HoldsAt
<1>5. Len(Events) \in Nat /\ DOMAIN Events = 1..Len(Events)
  <2>1. Events \in Seq({Events[i] : i \in DOMAIN Events})
    BY <1>1, EpisodesAssumption DEF Events
  <2> QED BY <2>1
<1>6. \A i \in DOMAIN Events : Events[i].request_id \in RequestIds
  BY <1>1, InputsAssumption DEF Events
<1>7. \A a \in DOMAIN episode.authorization :
        "none" \notin episode.authorization[a]
  BY <1>1, EpisodesAssumption
<1>8. \A i \in DOMAIN Events : \A o \in DOMAIN Events[i].mutations :
        Events[i].mutations[o].from.version \in Nat
  BY <1>1, EpisodesAssumption DEF Events
<1> QED BY <1>3, <1>4, <1>5, <1>6, <1>7, <1>8
        DEF UniqueEvents, Chained, Events, Objects

LEMMA EventFacts ==
    ASSUME Sealed
    PROVE  /\ \A i \in DOMAIN Events :
                Chained(episode, i) /\ ActorPermitted(episode, i)
                /\ Idempotent(episode, i) /\ Evidenced(episode, i)
           /\ FinalReached(episode)
<1>1. Consistent(episode)
  BY DEF Sealed, Accepted
<1>2. ASSUME NEW i \in DOMAIN Events, NEW n \in DOMAIN PerEvent
      PROVE  HoldsAt(episode, i, PerEvent[n])
  BY <1>1 DEF Consistent, Events
<1>3. ASSUME NEW i \in DOMAIN Events
      PROVE  Chained(episode, i) /\ ActorPermitted(episode, i)
             /\ Idempotent(episode, i) /\ Evidenced(episode, i)
  <2>1. {3, 4, 6, 7} \subseteq DOMAIN PerEvent
        /\ PerEvent[3] = "actor" /\ PerEvent[4] = "idempotency"
        /\ PerEvent[6] = "mutation" /\ PerEvent[7] = "evidence"
    BY DEF PerEvent
  <2>2. /\ HoldsAt(episode, i, "actor") /\ HoldsAt(episode, i, "idempotency")
        /\ HoldsAt(episode, i, "mutation") /\ HoldsAt(episode, i, "evidence")
    BY <1>2, <2>1
  <2> QED BY <2>2 DEF HoldsAt
<1> QED BY <1>1, <1>3 DEF Consistent

-----------------------------------------------------------------------------
(* Where the script leaves an object *)
Less == {ss \in Nat \X Nat : ss[1] < ss[2]}

LEMMA Least ==
    ASSUME NEW T, T \subseteq Nat, T # {}
    PROVE  \E x \in T : \A y \in T : x <= y
<1>1. IsWellFoundedOn(Less, Nat)
  <2>1. OpToRel(<, Nat) = Less
    BY DEF OpToRel, Less
  <2> QED BY <2>1, NatLessThanWellFounded
<1>2. PICK x \in T : \A y \in T : ~(<<y, x>> \in Less)
  BY <1>1, WFMin
<1>3. ASSUME NEW y \in T PROVE x <= y
  <2>1. ~(<<y, x>> \in Less) /\ x \in Nat /\ y \in Nat
    BY <1>2
  <2> QED BY <2>1 DEF Less
<1> QED BY <1>3

\* What holds from the m-th number on as far as N.
LEMMA Induction ==
    ASSUME NEW m \in Nat, NEW N \in Nat, NEW T, m \in T,
           \A n \in m..N : n \in T /\ n < N => n + 1 \in T
    PROVE  \A n \in m..N : n \in T
<1> SUFFICES ASSUME NEW k \in m..N, k \notin T PROVE FALSE
  OBVIOUS
<1> DEFINE F == {n \in m..N : n \notin T}
<1>1. PICK n \in F : \A l \in F : n <= l
  <2>1. F \subseteq Nat /\ F # {}
    OBVIOUS
  <2> HIDE DEF F
  <2> QED BY <2>1, Least
<1>2. n \in m..N /\ n \notin T /\ n # m
  BY <1>1
<1>3. n - 1 \in m..N /\ n - 1 < N /\ (n - 1) + 1 = n /\ ~(n <= n - 1)
  BY <1>2
<1>4. n - 1 \in T
  BY <1>1, <1>3
<1> QED BY <1>2, <1>3, <1>4

LEMMA LeavesOne ==
    ASSUME NEW n \in Nat, NEW o, NEW s, NEW t,
           Leaves(episode, n, o, s), Leaves(episode, n, o, t)
    PROVE  s = t
<1> DEFINE LastMove(k) == /\ Moves(episode.events[k], o)
                          /\ \A l \in (k + 1)..n : ~Moves(episode.events[l], o)
<1>1. ASSUME NEW k \in 1..n, NEW m \in 1..n, LastMove(k), LastMove(m)
      PROVE  k = m
  <2>1. ~(k < m) /\ ~(m < k)
    BY <1>1
  <2> QED BY <2>1
<1> QED BY <1>1 DEF Leaves

\* Events that do not move an object leave it where it was.
LEMMA LeavesStill ==
    ASSUME NEW n \in Nat, NEW m \in Nat, n <= m, NEW o, NEW s,
           \A l \in (n + 1)..m : ~Moves(Events[l], o)
    PROVE  Leaves(episode, n, o, s) <=> Leaves(episode, m, o, s)
<1>1. \A l \in 1..m : l \in 1..n \/ l \in (n + 1)..m
  OBVIOUS
<1>2. \A l \in 1..n : l \in 1..m
  OBVIOUS
<1>3. (\A l \in 1..n : ~Moves(Events[l], o)) <=> (\A l \in 1..m : ~Moves(Events[l], o))
  BY <1>1, <1>2
<1>4. ASSUME NEW k \in 1..n
      PROVE  (\A l \in (k + 1)..n : ~Moves(Events[l], o))
                <=> (\A l \in (k + 1)..m : ~Moves(Events[l], o))
  <2>1. \A l \in (k + 1)..m : l \in (k + 1)..n \/ l \in (n + 1)..m
    OBVIOUS
  <2>2. \A l \in (k + 1)..n : l \in (k + 1)..m
    OBVIOUS
  <2> QED BY <2>1, <2>2
<1>5. \A k \in 1..m : Moves(Events[k], o) => k \in 1..n
  BY <1>1
<1> QED BY <1>2, <1>3, <1>4, <1>5 DEF Leaves, Events

LEMMA LeavesMoved ==
    ASSUME NEW n \in Nat, NEW o, Moves(Events[n + 1], o)
    PROVE  Leaves(episode, n + 1, o, Events[n + 1].mutations[o].to)
<1>1. n + 1 \in 1..(n + 1) /\ \A l \in ((n + 1) + 1)..(n + 1) : FALSE
  OBVIOUS
<1> QED BY <1>1 DEF Leaves, Events

\* What moves an object moves it on: no later event leaves it where it was.
LEMMA VersionsGrow ==
    ASSUME Sealed, NEW m \in DOMAIN Events, NEW o, Moves(Events[m], o),
           NEW n \in m..Len(Events), NEW s, Leaves(episode, n, o, s)
    PROVE  s.version \in Nat /\ s.version > Events[m].mutations[o].from.version
<1> DEFINE N == Len(Events)
           first == Events[m].mutations[o].from.version
           T == {k \in m..N : \A t : Leaves(episode, k, o, t) =>
                                  t.version \in Nat /\ t.version > first}
<1>1. N \in Nat /\ m \in 1..N /\ first \in Nat
      /\ \A i \in 1..N : Moves(Events[i], o) =>
            /\ Events[i].mutations[o].from.version \in Nat
            /\ Events[i].mutations[o].to.version
                    = Events[i].mutations[o].from.version + 1
            /\ Leaves(episode, i - 1, o, Events[i].mutations[o].from)
  BY SealedFacts, EventFacts DEF Moves, Chained, Events
<1> HIDE DEF N, first
<1>2. ASSUME NEW k \in m..N, k + 1 \in 1..N, Moves(Events[k + 1], o),
             Events[k + 1].mutations[o].from.version >= first
      PROVE  k + 1 \in T
  <2> SUFFICES ASSUME NEW t, Leaves(episode, k + 1, o, t)
               PROVE  t.version \in Nat /\ t.version > first
    BY <1>1, <1>2
  <2>1. k \in Nat /\ k + 1 \in Nat
    BY <1>1, <1>2
  <2>2. Leaves(episode, k + 1, o, Events[k + 1].mutations[o].to)
    BY <1>2, <2>1, LeavesMoved
  <2>3. t = Events[k + 1].mutations[o].to
    BY <2>1, <2>2, LeavesOne
  <2>4. Events[k + 1].mutations[o].from.version \in Nat
        /\ Events[k + 1].mutations[o].to.version
                = Events[k + 1].mutations[o].from.version + 1
    BY <1>1, <1>2
  <2>5. \A a \in Nat : a >= first => a + 1 \in Nat /\ a + 1 > first
    <3>1. first \in Nat
      BY <1>1
    <3> QED BY <3>1
  <2> QED BY <1>2, <2>3, <2>4, <2>5
<1>3. m \in T
  <2> SUFFICES ASSUME NEW t, Leaves(episode, m, o, t)
               PROVE  t.version \in Nat /\ t.version > first
    BY <1>1
  <2>1. m - 1 \in Nat /\ (m - 1) + 1 = m
    BY <1>1
  <2>2. Leaves(episode, m, o, Events[m].mutations[o].to)
    <3> DEFINE l == m - 1
    <3>1. l \in Nat /\ l + 1 = m
      BY <2>1
    <3> HIDE DEF l
    <3>2. Moves(Events[l + 1], o)
      BY <3>1
    <3> QED BY <3>1, <3>2, LeavesMoved
  <2>3. t = Events[m].mutations[o].to
    BY <1>1, <2>2, LeavesOne
  <2>4. Events[m].mutations[o].to.version = Events[m].mutations[o].from.version + 1
    BY <1>1
  <2> QED BY <1>1, <2>3, <2>4 DEF first
<1>4. ASSUME NEW k \in m..N, k \in T, k < N
      PROVE  k + 1 \in T
  <2>1. k \in Nat /\ k + 1 \in 1..N /\ k + 1 \in m..N
    BY <1>1, <1>4
  <2>2. CASE Moves(Events[k + 1], o)
    <3>1. Leaves(episode, k, o, Events[k + 1].mutations[o].from)
      BY <1>1, <2>1, <2>2
    <3>2. Events[k + 1].mutations[o].from.version >= first
      BY <1>1, <1>4, <3>1
    <3> QED BY <1>2, <2>1, <2>2, <3>2
  <2>3. CASE ~Moves(Events[k + 1], o)
    <3>1. \A t : Leaves(episode, k, o, t) <=> Leaves(episode, k + 1, o, t)
      BY <2>1, <2>3, LeavesStill
    <3> QED BY <1>4, <2>1, <3>1
  <2> QED BY <2>2, <2>3
<1>5. n \in T
  <2>1. m \in Nat /\ n \in m..N
    BY <1>1 DEF N
  <2> HIDE DEF T
  <2> QED BY <1>1, <1>3, <1>4, <2>1, Induction
<1> QED BY <1>5 DEF first

-----------------------------------------------------------------------------
\* A step that applies t and gives its receipt under id.
Performed(t, id, refs, actor) ==
    /\ t \in Transitions /\ applied[t] = {} /\ PreconditionsHold(t)
    /\ id \in RequestIds /\ receipts[id] = {}
    /\ Authorized(actor, t.action)
    /\ states' = Mutate(t)
    /\ receipts' = [receipts EXCEPT ![id] = {Receipt(t, id, refs)}]
    /\ applied' = [applied EXCEPT ![t] = {actor}]
    /\ UNCHANGED sealed

Kept == UNCHANGED <<sealed, states, receipts, applied>>

\* Any request, by whoever makes it.
Invoked ==
    \E surface, r : /\ r.id \in RequestIds
                    /\ InvokeFree(surface, r) \/ InvokeReplay(surface, r)

Shape ==
    /\ Sealed
    /\ DOMAIN states = Objects /\ DOMAIN applied = Transitions
    /\ DOMAIN requests = RequestIds /\ DOMAIN receipts = RequestIds
    /\ index \in Nat

\* In replay mode what was applied lies before the place in the script.
InOrder ==
    mode = "replay" =>
        \A i \in Primaries(episode) : applied[Events[i]] # {} => i <= index

\* In free mode a receipt is given under an ID that is then taken.
Taken ==
    mode = "free" =>
        \A i \in RequestIds : requests[i] = {} => receipts[i] = {}

\* An object is as its latest applied transition left it.
Latest(o, m) ==
    /\ m \in AppliedMoves(o) /\ states[o] = m.mutations[o].to
    /\ \A u \in AppliedMoves(o) :
        u # m => u.mutations[o].to.version < m.mutations[o].to.version

Explained ==
    \A o \in Objects :
        \/ AppliedMoves(o) = {} /\ states[o] = episode.initial[o]
        \/ \E m \in AppliedMoves(o) : Latest(o, m)

Receipted ==
    /\ \A t \in Transitions :
        applied[t] # {} <=> \E i \in RequestIds : \E x \in receipts[i] : x.of = t.id
    /\ \A i \in RequestIds : \A x \in receipts[i] :
        \E t \in Transitions : x.of = t.id
    /\ \A i, j \in RequestIds : \A x \in receipts[i], y \in receipts[j] :
        x.of = y.of => x = y

\* An object is where the script leaves it after n events, and of those that
\* move it exactly the first n are applied.
Stands(o, n) ==
    /\ Leaves(episode, n, o, states[o])
    /\ \A i \in Primaries(episode) :
            Moves(Events[i], o) => (applied[Events[i]] # {} <=> i <= n)

Placed == \A o \in Objects : \E n \in 0..Len(Events) : Stands(o, n)

\* In replay mode all that lies before the place in the script was played.
Played ==
    mode = "replay" =>
        /\ index <= Len(Events)
        /\ \A i \in Primaries(episode) : i <= index => applied[Events[i]] # {}
        /\ \A i \in 1..index : receipts[Events[i].request_id] # {}
        /\ \A id \in RequestIds : receipts[id] # {} =>
                \E i \in Primaries(episode) :
                    i <= index /\ Events[i].request_id = id

EInv ==
    /\ Shape /\ InOrder /\ Taken /\ Explained /\ Receipted /\ Placed /\ Played

-----------------------------------------------------------------------------
\* Either mode applies a transition by Performed, or keeps everything.
LEMMA StepForms ==
    ASSUME Shape, InOrder, Taken, Invoked
    PROVE  Kept \/ \E t \in Transitions, id \in RequestIds :
                        \E refs, actor : Performed(t, id, refs, actor)
<1>1. PICK surface, r : /\ r.id \in RequestIds
                        /\ InvokeFree(surface, r) \/ InvokeReplay(surface, r)
  BY DEF Invoked
<1>2. r.id \in RequestIds
  BY <1>1
<1>3. ASSUME mode = "free", NEW t \in Transitions, Apply(surface, r, t)
      PROVE  Performed(t, r.id, r.refs, r.actor)
  <2>1. Named(surface, r.action) = {t}
    BY <1>3 DEF Apply, Accepts
  <2>2. t \in ActiveTransitions /\ t.action = r.action
    BY <2>1 DEF Named
  <2>3. applied[t] = {} /\ PreconditionsHold(t)
    BY <2>2 DEF ActiveTransitions, Unapplied
  <2>4. receipts[r.id] = {}
    BY <1>2, <1>3 DEF Apply, Accepts, FreshId, Taken
  <2> QED BY <1>2, <1>3, <2>2, <2>3, <2>4 DEF Apply, Accepts, Performed
<1>4. ASSUME mode = "replay", ReplayEvent(surface, r)
      PROVE  Event \in Transitions /\ Performed(Event, r.id, Event.refs, r.actor)
  <2>1. index + 1 \in DOMAIN Events
    BY <1>4, SealedFacts DEF ReplayEvent, InScript, Shape
  <2>2. index + 1 \in Primaries(episode)
    BY <1>4, <2>1 DEF ReplayEvent, Primaries, Event, Events
  <2>3. Event \in Transitions
    BY <2>2 DEF Transitions, Event
  <2>4. applied[Event] = {}
    BY <1>4, <2>2 DEF InOrder, Shape, Event
  <2>5. Authorized(r.actor, Event.action)
    BY <1>4 DEF ReplayEvent, Admits, Matches
  <2> QED BY <1>2, <1>4, <2>3, <2>4, <2>5 DEF ReplayEvent, Performed
<1>5. ASSUME \/ Retransmitted(r) \/ Reject(surface, r)
             \/ ReplayDuplicate(surface, r)
      PROVE  Kept
  BY <1>5 DEF Retransmitted, Reject, ReplayDuplicate, Kept, sealed
<1> QED BY <1>1, <1>2, <1>3, <1>4, <1>5 DEF InvokeFree, InvokeReplay

-----------------------------------------------------------------------------
\* The transitions of a sealed episode, by the facts of its events.
LEMMA TransitionFacts ==
    ASSUME Sealed
    PROVE  /\ \A s, t \in Transitions : s.id = t.id => s = t
           /\ \A t \in Transitions : \A o \in DOMAIN t.mutations :
                /\ o \in Objects
                /\ t.mutations[o].from.version \in Nat
                /\ t.mutations[o].to.version = t.mutations[o].from.version + 1
<1>1. \A t \in Transitions : \E i \in DOMAIN Events : t = Events[i]
  BY DEF Transitions, Primaries, Events
<1> QED BY <1>1, SealedFacts

LEMMA ShapeKept ==
    ASSUME Shape, Invoked PROVE Shape'
<1>1. UNCHANGED sealed
  BY DEF Invoked, InvokeFree, Apply, Retransmitted, Reject,
         InvokeReplay, ReplayEvent, ReplayDuplicate
<1>2. Sealed' /\ Objects' = Objects /\ Transitions' = Transitions
  BY <1>1 DEF Shape, Sealed, sealed, Objects, Transitions, Primaries, Events
<1>3. DOMAIN states' = DOMAIN states
  BY DEF Invoked, InvokeFree, Apply, Retransmitted, Reject,
         InvokeReplay, ReplayEvent, ReplayDuplicate, Mutate, Shape
<1>4. DOMAIN applied' = DOMAIN applied /\ DOMAIN receipts' = DOMAIN receipts
      /\ DOMAIN requests' = DOMAIN requests
  BY DEF Invoked, InvokeFree, Apply, Retransmitted, Reject,
         InvokeReplay, ReplayEvent, ReplayDuplicate
<1>5. index' \in Nat
  BY DEF Invoked, InvokeFree, Apply, Retransmitted, Reject,
         InvokeReplay, ReplayEvent, ReplayDuplicate, Shape
<1> QED BY <1>2, <1>3, <1>4, <1>5 DEF Shape

LEMMA InOrderKept ==
    ASSUME Shape, InOrder, Invoked PROVE InOrder'
<1>1. PICK surface, r : /\ r.id \in RequestIds
                        /\ InvokeFree(surface, r) \/ InvokeReplay(surface, r)
  BY DEF Invoked
<1>2. UNCHANGED sealed
  BY DEF Invoked, InvokeFree, Apply, Retransmitted, Reject,
         InvokeReplay, ReplayEvent, ReplayDuplicate
<1>3. Primaries(episode)' = Primaries(episode) /\ Events' = Events /\ mode' = mode
  BY <1>2 DEF sealed, Primaries, Events
<1>4. CASE mode # "replay"
  BY <1>3, <1>4 DEF InOrder
<1>5. CASE mode = "replay"
  <2>1. SUFFICES ASSUME NEW i \in Primaries(episode), applied'[Events[i]] # {}
                 PROVE  i <= index'
    BY <1>3 DEF InOrder
  <2>2. i \in DOMAIN Events /\ i \in Nat /\ index \in Nat
    BY SealedFacts DEF Primaries, Events, Shape
  <2>3. CASE ReplayDuplicate(surface, r)
    <3>1. i <= index /\ index' = index + 1
      BY <1>5, <2>1, <2>3 DEF ReplayDuplicate, InOrder
    <3> QED BY <2>2, <3>1
  <2>4. CASE ReplayEvent(surface, r)
    <3>1. index' = index + 1
      BY <2>4 DEF ReplayEvent
    <3>2. CASE Events[i] = Event
      <4>1. index + 1 \in DOMAIN Events
        BY <2>4, SealedFacts DEF ReplayEvent, InScript, Shape
      <4>2. i = index + 1
        BY <2>2, <3>2, <4>1, SealedFacts DEF Shape, Event
      <4> QED BY <2>2, <3>1, <4>2
    <3>3. CASE Events[i] # Event
      <4>1. applied' = [applied EXCEPT ![Event] = {r.actor}]
        BY <2>4 DEF ReplayEvent
      <4>2. Events[i] \in DOMAIN applied
        BY DEF Shape, Transitions
      <4>3. applied[Events[i]] # {}
        BY <2>1, <3>3, <4>1, <4>2
      <4>4. i <= index
        BY <1>5, <4>3 DEF InOrder
      <4> QED BY <2>2, <3>1, <4>4
    <3> QED BY <3>2, <3>3
  <2> QED BY <1>1, <1>5, <2>3, <2>4 DEF InvokeFree, InvokeReplay
<1> QED BY <1>4, <1>5

LEMMA TakenKept ==
    ASSUME Shape, Taken, Invoked PROVE Taken'
<1>1. PICK surface, r : /\ r.id \in RequestIds
                        /\ InvokeFree(surface, r) \/ InvokeReplay(surface, r)
  BY DEF Invoked
<1>2. CASE \E t \in Transitions : Apply(surface, r, t)
  <2>1. PICK t \in Transitions : Apply(surface, r, t)
    BY <1>2
  <2>2. requests' = [requests EXCEPT ![r.id] = {r}]
        /\ receipts' = [receipts EXCEPT ![r.id] = {Receipt(t, r.id, r.refs)}]
        /\ mode' = mode
    BY <2>1 DEF Apply, sealed
  <2> QED BY <2>2 DEF Taken, Shape
<1>3. CASE Retransmitted(r) \/ Reject(surface, r)
  BY <1>3 DEF Retransmitted, Reject, Taken, sealed
<1>4. CASE InvokeReplay(surface, r)
  BY <1>4 DEF InvokeReplay, ReplayEvent, ReplayDuplicate, Taken, sealed
<1> QED BY <1>1, <1>2, <1>3, <1>4 DEF InvokeFree

-----------------------------------------------------------------------------
\* What a performed step does to the applied transitions of an object.
LEMMA AppliedMovesGrow ==
    ASSUME Shape, NEW t, NEW id, NEW refs, NEW actor,
           Performed(t, id, refs, actor), NEW o \in Objects
    PROVE  /\ AppliedMoves(o)' =
                AppliedMoves(o) \union {u \in {t} : Moves(u, o)}
           /\ t \notin AppliedMoves(o)
<1>1. Transitions' = Transitions
  BY DEF Performed, sealed, Transitions, Primaries, Events
<1>2. applied' = [applied EXCEPT ![t] = {actor}] /\ t \in Transitions
      /\ DOMAIN applied = Transitions /\ applied[t] = {}
  BY DEF Performed, Shape
<1> QED BY <1>1, <1>2 DEF AppliedMoves, Unapplied

LEMMA ExplainedKept ==
    ASSUME Shape, Explained, NEW t, NEW id, NEW refs, NEW actor,
           Performed(t, id, refs, actor)
    PROVE  Explained'
<1>1. Objects' = Objects /\ episode' = episode
  BY DEF Performed, sealed, Objects
<1>2. SUFFICES ASSUME NEW o \in Objects
               PROVE  \/ AppliedMoves(o)' = {} /\ states'[o] = episode.initial[o]
                      \/ \E m \in AppliedMoves(o)' : Latest(o, m)'
  BY <1>1 DEF Explained
<1>3. states' = Mutate(t) /\ t \in Transitions /\ PreconditionsHold(t)
  BY DEF Performed
<1>4. CASE ~Moves(t, o)
  <2>1. AppliedMoves(o)' = AppliedMoves(o)
    BY <1>4, AppliedMovesGrow
  <2>2. states'[o] = states[o]
    BY <1>3, <1>4 DEF Mutate
  <2> QED BY <2>1, <2>2 DEF Explained, Latest
<1>5. CASE Moves(t, o)
  <2>1. AppliedMoves(o)' = AppliedMoves(o) \union {t} /\ t \notin AppliedMoves(o)
    BY <1>5, AppliedMovesGrow
  <2>2. states'[o] = t.mutations[o].to /\ states[o] = t.mutations[o].from
    BY <1>3, <1>5 DEF Mutate, PreconditionsHold, Moves
  <2>3. t.mutations[o].from.version \in Nat
        /\ t.mutations[o].to.version = t.mutations[o].from.version + 1
    BY <1>3, <1>5, TransitionFacts DEF Shape, Moves
  <2>4. ASSUME NEW u \in AppliedMoves(o)
        PROVE  u.mutations[o].to.version < t.mutations[o].to.version
    <3>1. PICK m \in AppliedMoves(o) : Latest(o, m)
      BY DEF Explained
    <3>2. m.mutations[o].to = t.mutations[o].from
      BY <2>2, <3>1 DEF Latest
    <3>3. u \in Transitions /\ Moves(u, o)
      BY DEF AppliedMoves
    <3>4. u.mutations[o].to.version \in Nat
      BY <3>3, TransitionFacts DEF Shape, Moves
    <3>5. u = m \/ u.mutations[o].to.version < m.mutations[o].to.version
      BY <3>1 DEF Latest
    <3> QED BY <2>3, <3>2, <3>4, <3>5
  <2>5. Latest(o, t)'
    BY <2>1, <2>2, <2>4 DEF Latest
  <2> QED BY <2>1, <2>5
<1> QED BY <1>4, <1>5

LEMMA ReceiptedKept ==
    ASSUME Shape, Receipted, NEW t, NEW id, NEW refs, NEW actor,
           Performed(t, id, refs, actor)
    PROVE  Receipted'
<1>1. Transitions' = Transitions
  BY DEF Performed, sealed, Transitions, Primaries, Events
<1>2. PICK given : given = Receipt(t, id, refs)
  OBVIOUS
<1>3. given.of = t.id
  BY <1>2 DEF Receipt
<1>4. t \in Transitions /\ applied[t] = {} /\ id \in RequestIds /\ receipts[id] = {}
      /\ DOMAIN applied = Transitions /\ DOMAIN receipts = RequestIds
  BY DEF Performed, Shape
<1>5. receipts'[id] = {given} /\ \A i \in RequestIds : i # id => receipts'[i] = receipts[i]
  BY <1>2, <1>4 DEF Performed
<1>6. applied'[t] # {} /\ \A u \in Transitions : u # t => applied'[u] = applied[u]
  BY <1>4 DEF Performed
<1>7. \A u \in Transitions : u.id = t.id => u = t
  BY <1>4, TransitionFacts DEF Shape
<1>8. \A i \in RequestIds : \A x \in receipts[i] : x.of # t.id
  BY <1>4 DEF Receipted
<1>9. \A i \in RequestIds : \A x \in receipts'[i] :
        x = given \/ (i # id /\ x \in receipts[i])
  BY <1>5
<1>10. \A i \in RequestIds : \A x \in receipts[i] : x \in receipts'[i]
  BY <1>4, <1>5
<1>11. ASSUME NEW u \in Transitions
       PROVE  applied'[u] # {} <=>
                \E i \in RequestIds : \E x \in receipts'[i] : x.of = u.id
  <2>1. CASE u = t
    BY <1>3, <1>4, <1>5, <1>6, <2>1
  <2>2. CASE u # t
    <3>1. applied'[u] = applied[u] /\ given.of # u.id
      BY <1>3, <1>6, <1>7, <2>2
    <3> QED BY <1>9, <1>10, <3>1 DEF Receipted
  <2> QED BY <2>1, <2>2
<1>12. \A i \in RequestIds : \A x \in receipts'[i] :
            \E u \in Transitions : x.of = u.id
  BY <1>3, <1>4, <1>9 DEF Receipted
<1>13. \A i, j \in RequestIds : \A x \in receipts'[i], y \in receipts'[j] :
            x.of = y.of => x = y
  BY <1>3, <1>8, <1>9 DEF Receipted
<1> QED BY <1>1, <1>11, <1>12, <1>13 DEF Receipted

-----------------------------------------------------------------------------
\* Only duplicates are no transitions, and they move nothing.
LEMMA MoversAreTransitions ==
    ASSUME Sealed, NEW i \in DOMAIN Events, NEW o, Moves(Events[i], o)
    PROVE  i \in Primaries(episode) /\ Events[i] \in Transitions
<1>1. Primary(Events[i])
  BY EventFacts DEF Idempotent, Moves, Events
<1> QED BY <1>1 DEF Primaries, Events, Transitions

\* If something still moves an object, the first that does starts from where
\* the object is.
LEMMA FirstMover ==
    ASSUME Sealed, NEW o \in Objects, NEW n \in 0..Len(Events), Stands(o, n),
           NEW j \in DOMAIN Events, Moves(Events[j], o), n < j
    PROVE  \E m \in DOMAIN Events : /\ n < m /\ m <= j /\ Moves(Events[m], o)
                                   /\ states[o] = Events[m].mutations[o].from
<1> DEFINE F == {l \in (n + 1)..j : Moves(Events[l], o)}
<1>1. n \in Nat /\ j \in Nat /\ Len(Events) \in Nat /\ DOMAIN Events = 1..Len(Events)
  BY SealedFacts
<1>2. F \subseteq Nat /\ j \in F
  BY <1>1
<1>3. PICK m \in F : \A l \in F : m <= l
  <2> HIDE DEF F
  <2> QED BY <1>2, Least
<1>4. m \in (n + 1)..j /\ Moves(Events[m], o) /\ m \in DOMAIN Events
      /\ m - 1 \in Nat /\ n <= m - 1 /\ n < m /\ m <= j
  BY <1>1, <1>3
<1>5. \A l \in (n + 1)..(m - 1) : ~Moves(Events[l], o)
  <2> SUFFICES ASSUME NEW l \in (n + 1)..(m - 1), Moves(Events[l], o) PROVE FALSE
    OBVIOUS
  <2>1. l \in F /\ ~(m <= l)
    BY <1>1, <1>4
  <2> QED BY <1>3, <2>1
<1>6. Leaves(episode, m - 1, o, states[o])
  BY <1>1, <1>4, <1>5, LeavesStill DEF Stands
<1>7. Leaves(episode, m - 1, o, Events[m].mutations[o].from)
  BY <1>4, EventFacts DEF Chained, Moves, Events
<1> QED BY <1>4, <1>6, <1>7, LeavesOne

\* The next event applied to an object is the next that moves it.
LEMMA NextMover ==
    ASSUME Sealed, NEW o \in Objects, NEW n \in 0..Len(Events), Stands(o, n),
           NEW j \in DOMAIN Events, Moves(Events[j], o), n < j,
           states[o] = Events[j].mutations[o].from
    PROVE  \A l \in (n + 1)..(j - 1) : ~Moves(Events[l], o)
<1> SUFFICES ASSUME NEW l \in (n + 1)..(j - 1), Moves(Events[l], o) PROVE FALSE
  OBVIOUS
<1>1. n \in Nat /\ j \in Nat /\ Len(Events) \in Nat /\ DOMAIN Events = 1..Len(Events)
  BY SealedFacts
<1>2. l \in DOMAIN Events /\ n < l
  BY <1>1
<1>3. PICK m \in DOMAIN Events : /\ n < m /\ m <= l /\ Moves(Events[m], o)
                                 /\ states[o] = Events[m].mutations[o].from
  BY <1>2, FirstMover
<1>4. Leaves(episode, j - 1, o, Events[j].mutations[o].from)
  BY EventFacts DEF Chained, Moves, Events
<1>5. j - 1 \in m..Len(Events)
  BY <1>1, <1>3
<1>6. states[o].version \in Nat
      /\ states[o].version > Events[m].mutations[o].from.version
  BY <1>3, <1>4, <1>5, VersionsGrow
<1> QED BY <1>3, <1>6

LEMMA PlacedKept ==
    ASSUME Shape, Placed, NEW t, NEW id, NEW refs, NEW actor,
           Performed(t, id, refs, actor)
    PROVE  Placed'
<1>1. Objects' = Objects /\ episode' = episode /\ Events' = Events
  BY DEF Performed, sealed, Objects, Events
<1>2. /\ states' = Mutate(t) /\ t \in Transitions /\ PreconditionsHold(t)
      /\ applied' = [applied EXCEPT ![t] = {actor}] /\ applied[t] = {}
      /\ DOMAIN applied = Transitions
  BY DEF Performed, Shape
<1>3. PICK j \in Primaries(episode) : t = Events[j]
  BY <1>2 DEF Transitions
<1>4. Len(Events) \in Nat /\ DOMAIN Events = 1..Len(Events) /\ j \in DOMAIN Events
  BY SealedFacts DEF Shape, Primaries, Events
<1>5. \A i \in Primaries(episode) :
        /\ i \in DOMAIN Events /\ Events[i] \in Transitions
        /\ Events[i] = t <=> i = j
  BY <1>3, SealedFacts DEF Shape, Primaries, Events, Transitions
<1>6. \A i \in Primaries(episode) :
        applied'[Events[i]] # {} <=> applied[Events[i]] # {} \/ i = j
  BY <1>2, <1>5
<1> SUFFICES ASSUME NEW o \in Objects
             PROVE  \E n \in 0..Len(Events) :
                        /\ Leaves(episode, n, o, states'[o])
                        /\ \A i \in Primaries(episode) : Moves(Events[i], o) =>
                                (applied'[Events[i]] # {} <=> i <= n)
  BY <1>1 DEF Placed, Stands
<1>7. PICK n \in 0..Len(Events) : Stands(o, n)
  BY DEF Placed
<1>8. CASE ~Moves(t, o)
  <2>1. states'[o] = states[o]
    BY <1>2, <1>8 DEF Mutate
  <2>2. \A i \in Primaries(episode) : Moves(Events[i], o) =>
            (applied'[Events[i]] # {} <=> i <= n)
    BY <1>3, <1>6, <1>7, <1>8 DEF Stands
  <2> QED BY <1>7, <2>1, <2>2 DEF Stands
<1>9. CASE Moves(t, o)
  <2>1. states'[o] = Events[j].mutations[o].to
        /\ states[o] = Events[j].mutations[o].from
    BY <1>2, <1>3, <1>9 DEF Mutate, PreconditionsHold, Moves
  <2>2. n < j
    BY <1>2, <1>3, <1>4, <1>7, <1>9 DEF Stands
  <2>3. \A l \in (n + 1)..(j - 1) : ~Moves(Events[l], o)
    BY <1>3, <1>4, <1>7, <1>9, <2>1, <2>2, NextMover DEF Shape
  <2>4. Leaves(episode, j, o, states'[o])
    <3> DEFINE l == j - 1
    <3>1. l \in Nat /\ l + 1 = j
      BY <1>4
    <3> HIDE DEF l
    <3>2. Moves(Events[l + 1], o)
      BY <1>3, <1>9, <3>1
    <3> QED BY <2>1, <3>1, <3>2, LeavesMoved
  <2>5. ASSUME NEW i \in Primaries(episode), Moves(Events[i], o)
        PROVE  applied'[Events[i]] # {} <=> i <= j
    <3>1. applied[Events[i]] # {} <=> i <= n
      BY <1>7, <2>5 DEF Stands
    <3>2. ~(i \in (n + 1)..(j - 1))
      BY <2>3, <2>5
    <3>3. i \in Nat /\ j \in Nat /\ n \in Nat
      BY <1>4, <1>5
    <3>4. i <= j <=> i <= n \/ i = j
      BY <2>2, <3>2, <3>3
    <3> QED BY <1>6, <3>1, <3>4
  <2>6. j \in 0..Len(Events)
    BY <1>4
  <2> QED BY <2>4, <2>5, <2>6
<1> QED BY <1>8, <1>9

LEMMA PlayedKept ==
    ASSUME Shape, Played, Invoked PROVE Played'
<1>1. PICK surface, r : /\ r.id \in RequestIds
                        /\ InvokeFree(surface, r) \/ InvokeReplay(surface, r)
  BY DEF Invoked
<1>2. UNCHANGED sealed
  BY DEF Invoked, InvokeFree, Apply, Retransmitted, Reject,
         InvokeReplay, ReplayEvent, ReplayDuplicate
<1>3. Primaries(episode)' = Primaries(episode) /\ Events' = Events /\ mode' = mode
  BY <1>2 DEF sealed, Primaries, Events
<1>4. CASE mode # "replay"
  BY <1>3, <1>4 DEF Played
<1>5. CASE mode = "replay"
  <2> DEFINE i == index + 1
  <2>1. /\ index' = i /\ r.id = Events[i].request_id /\ index < Len(Events)
        /\ receipts'[r.id] # {}
        /\ \A id \in RequestIds : id # r.id => receipts'[id] = receipts[id]
        /\ i \in Primaries(episode) => applied'[Events[i]] # {}
        /\ \A e \in Transitions : applied[e] # {} => applied'[e] # {}
        /\ receipts[r.id] # {} \/ i \in Primaries(episode)
    <3>1. InScript /\ Event = Events[i] /\ i \in DOMAIN Events
          /\ Event.request_id = r.id /\ index' = i
      BY <1>1, <1>5, SealedFacts
      DEF InvokeFree, InvokeReplay, ReplayEvent, ReplayDuplicate, Event,
          InScript, Shape, Admits, Matches
    <3>2. i \in Primaries(episode) <=> Primary(Event)
      BY <3>1 DEF Primaries, Events
    <3>3. Primary(Event) => Event \in Transitions
      BY <3>1, <3>2 DEF Transitions
    <3>4. CASE ReplayEvent(surface, r)
      BY <1>1, <3>1, <3>2, <3>3, <3>4 DEF ReplayEvent, Shape, InScript
    <3>5. CASE ReplayDuplicate(surface, r)
      BY <1>1, <3>1, <3>2, <3>5 DEF ReplayDuplicate, Shape, InScript
    <3> QED BY <1>1, <1>5, <3>4, <3>5 DEF InvokeFree, InvokeReplay
  <2>2. index \in Nat /\ Len(Events) \in Nat /\ DOMAIN Events = 1..Len(Events)
    BY SealedFacts DEF Shape
  <2>3. \A k \in Primaries(episode) :
            k \in Nat /\ Events[k] \in Transitions
    BY <2>2 DEF Primaries, Events, Transitions
  <2>4. i <= Len(Events) /\ i \in Nat /\ ~(i <= index)
    BY <2>1, <2>2
  <2>5. ASSUME NEW k \in Primaries(episode), k <= i PROVE applied'[Events[k]] # {}
    <3>1. k = i \/ k <= index
      BY <2>2, <2>3, <2>5
    <3> QED BY <1>5, <2>1, <2>3, <3>1 DEF Played
  <2>6. ASSUME NEW k \in 1..i PROVE receipts'[Events[k].request_id] # {}
    <3>1. k = i \/ k \in 1..index
      BY <2>2, <2>6
    <3>2. k \in DOMAIN Events /\ Events[k].request_id \in RequestIds
      BY <2>2, <2>4, SealedFacts DEF Shape
    <3> QED BY <1>5, <2>1, <3>1, <3>2 DEF Played
  <2>7. ASSUME NEW id \in RequestIds, receipts'[id] # {}
        PROVE  \E k \in Primaries(episode) : k <= i /\ Events[k].request_id = id
    <3>1. CASE id = r.id /\ receipts[r.id] = {}
      BY <2>1, <2>4, <3>1
    <3>2. CASE receipts[id] # {}
      <4>1. PICK k \in Primaries(episode) : k <= index /\ Events[k].request_id = id
        BY <1>5, <3>2 DEF Played
      <4> QED BY <2>2, <2>3, <4>1
    <3> QED BY <2>1, <2>7, <3>1, <3>2
  <2> QED BY <1>3, <1>5, <2>1, <2>4, <2>5, <2>6, <2>7 DEF Played
<1> QED BY <1>4, <1>5

\* A session nobody has asked anything of yet.
Fresh ==
    /\ Sealed /\ states = episode.initial /\ index = 0
    /\ requests = [i \in RequestIds |-> {}]
    /\ receipts = [i \in RequestIds |-> {}]
    /\ applied = [t \in Transitions |-> {}]

LEMMA FreshEInv == Fresh => EInv
<1> SUFFICES ASSUME Fresh PROVE EInv
  OBVIOUS
<1>1. Shape
  BY DEF Fresh, Shape, Objects
<1>2. \A t \in Transitions : applied[t] = {}
  BY DEF Fresh
<1>3. \A i \in RequestIds : receipts[i] = {} /\ requests[i] = {}
  BY DEF Fresh
<1>4. InOrder
  BY <1>2 DEF InOrder, Transitions
<1>5. Explained
  BY <1>2 DEF Explained, AppliedMoves, Unapplied, Fresh
<1>6. Taken /\ Receipted
  BY <1>2, <1>3 DEF Taken, Receipted
<1>7. Placed
  <2> SUFFICES ASSUME NEW o \in Objects PROVE Stands(o, 0)
    BY SealedFacts DEF Placed, Shape
  <2>1. Leaves(episode, 0, o, states[o])
    BY DEF Fresh, Leaves
  <2>2. \A i \in Primaries(episode) : applied[Events[i]] = {} /\ ~(i <= 0)
    BY <1>1, <1>2, SealedFacts DEF Transitions, Primaries, Events, Shape
  <2> QED BY <2>1, <2>2 DEF Stands
<1>8. Played
  BY <1>1, <1>3, SealedFacts DEF Fresh, Played, Primaries, Events, Shape
<1> QED BY <1>1, <1>4, <1>5, <1>6, <1>7, <1>8 DEF EInv

LEMMA InitEInv == Init => EInv
BY FreshEInv DEF Init, Fresh, Sealed

LEMMA KeptStays ==
    ASSUME Kept, Explained, Receipted, Placed
    PROVE  Explained' /\ Receipted' /\ Placed'
<1>1. Objects' = Objects /\ Transitions' = Transitions /\ episode' = episode
      /\ Unapplied' = Unapplied /\ states' = states /\ receipts' = receipts
      /\ applied' = applied
  BY DEF Kept, sealed, Objects, Transitions, Primaries, Events, Unapplied
<1>2. Explained' /\ Receipted'
  BY <1>1 DEF Explained, Receipted, Latest, AppliedMoves
<1>3. Placed'
  BY <1>1 DEF Placed, Stands, Events
<1> QED BY <1>2, <1>3

LEMMA NextInvokes == Next => Invoked
BY InputsAssumption DEF Next, Invoked

LEMMA StepEInv == EInv /\ (Invoked \/ UNCHANGED vars) => EInv'
<1> SUFFICES ASSUME EInv, Invoked \/ UNCHANGED vars PROVE EInv'
  OBVIOUS
<1>1. CASE Invoked
  <2>1. Shape' /\ InOrder' /\ Taken' /\ Played'
    BY <1>1, ShapeKept, InOrderKept, TakenKept, PlayedKept DEF EInv
  <2>2. Explained' /\ Receipted' /\ Placed'
    <3>1. CASE Kept
      BY <3>1, KeptStays DEF EInv
    <3>2. CASE \E t \in Transitions, id \in RequestIds :
                    \E refs, actor : Performed(t, id, refs, actor)
      BY <3>2, ExplainedKept, ReceiptedKept, PlacedKept DEF EInv
    <3> QED BY <1>1, <3>1, <3>2, StepForms DEF EInv
  <2> QED BY <2>1, <2>2 DEF EInv
<1>2. CASE UNCHANGED vars
  <2>1. Kept /\ requests' = requests /\ index' = index
    BY <1>2 DEF vars, Kept, sealed
  <2>2. Explained' /\ Receipted' /\ Placed'
    BY <2>1, KeptStays DEF EInv
  <2>3. Transitions' = Transitions /\ Objects' = Objects /\ Sealed' = Sealed
        /\ Primaries(episode)' = Primaries(episode) /\ Events' = Events
        /\ mode' = mode
    BY <2>1 DEF Kept, sealed, Transitions, Objects, Sealed, Primaries, Events
  <2>4. Shape' /\ InOrder' /\ Taken' /\ Played'
    BY <2>1, <2>3 DEF EInv, Shape, InOrder, Taken, Kept, Played
  <2> QED BY <2>2, <2>4 DEF EInv
<1> QED BY <1>1, <1>2

LEMMA EInvHolds == Spec => []EInv
<1> QED BY InitEInv, StepEInv, NextInvokes, PTL DEF Spec

-----------------------------------------------------------------------------
\* What was applied, and nothing else, explains every object, and every applied
\* transition has one receipt and one only, in both modes
\* (eval_adapters.py:127-164, :305-343, :440-479).
THEOREM ContractIsHeld == Spec => []ContractHeld
<1>1. EInv => ContractHeld
  <2> SUFFICES ASSUME EInv PROVE ContractHeld
    OBVIOUS
  <2>1. ASSUME NEW o \in Objects PROVE states[o] = Contracted(o)
    <3>1. CASE AppliedMoves(o) = {}
      BY <3>1 DEF EInv, Explained, Contracted
    <3>2. CASE AppliedMoves(o) # {}
      <4>1. PICK m \in AppliedMoves(o) : Latest(o, m)
        BY <3>2 DEF EInv, Explained
      <4> DEFINE Last(t) == \A u \in AppliedMoves(o) :
                    u.mutations[o].to.version <= t.mutations[o].to.version
      <4>2. \A u \in AppliedMoves(o) : u.mutations[o].to.version \in Nat
        BY TransitionFacts DEF EInv, Shape, AppliedMoves, Moves
      <4>3. Last(m)
        BY <4>1, <4>2 DEF Latest
      <4>4. \A u \in AppliedMoves(o) : Last(u) => u = m
        BY <4>1, <4>2 DEF Latest
      <4>5. (CHOOSE t \in AppliedMoves(o) : Last(t)) = m
        BY <4>1, <4>3, <4>4
      <4> QED BY <3>2, <4>1, <4>5 DEF Contracted, Latest
    <3> QED BY <3>1, <3>2
  <2>2. {x.of : x \in Receipts} = {t.id : t \in Transitions \ Unapplied}
    <3>1. ASSUME NEW x \in Receipts
          PROVE  \E t \in Transitions \ Unapplied : x.of = t.id
      BY DEF EInv, Receipted, Receipts, Unapplied
    <3>2. ASSUME NEW t \in Transitions \ Unapplied
          PROVE  \E x \in Receipts : x.of = t.id
      BY DEF EInv, Receipted, Receipts, Unapplied
    <3> QED BY <3>1, <3>2
  <2>3. \A x, y \in Receipts : x.of = y.of => x = y
    BY DEF EInv, Receipted, Receipts
  <2> QED BY <2>1, <2>2, <2>3 DEF ContractHeld
<1> QED BY <1>1, EInvHolds, PTL

\* Two session modes share one contract (eval_adapters.py:3).
THEOREM ModesShareContract == Spec => ImplementsContract
<1> DEFINE Rights == [t \in Transitions |-> {a \in Actors : Authorized(a, t.action)}]
<1>1. Init => Contract!CInit
  BY DEF Init, Contract!CInit, Contract!Transitions
<1>2. EInv /\ [Next]_vars => [Contract!CNext]_(Contract!cvars)
  <2> SUFFICES ASSUME EInv, [Next]_vars
               PROVE  Contract!CNext \/ UNCHANGED Contract!cvars
    OBVIOUS
  <2>1. CASE Kept \/ UNCHANGED vars
    <3>1. UNCHANGED <<sealed, states, applied>>
      BY <2>1 DEF Kept, vars
    <3>2. Rights' = Rights
      BY <3>1 DEF sealed, Transitions, Primaries, Events, Actors, Authorized
    <3> QED BY <3>1, <3>2 DEF Contract!cvars
  <2>2. ASSUME NEW t \in Transitions, NEW id \in RequestIds, NEW refs, NEW actor,
               Performed(t, id, refs, actor)
        PROVE  Contract!CNext
    <3>1. Rights' = Rights
      BY <2>2 DEF Performed, sealed, Transitions, Primaries, Events, Actors,
                  Authorized
    <3>2. actor \in Actors
      <4>1. episode.role[actor] \in episode.authorization[t.action]
            /\ actor \in DOMAIN episode.role /\ t.action \in DOMAIN episode.authorization
        BY <2>2 DEF Performed, Authorized
      <4> QED BY <4>1, SealedFacts DEF EInv, Shape, Actors
    <3>3. actor \in Rights[t]
      BY <2>2, <3>2 DEF Performed
    <3>4. Contract!Holds(t)
      BY <2>2 DEF Performed, PreconditionsHold, Contract!Holds
    <3>5. states' = Contract!Moved(t)
      BY <2>2 DEF Performed, Mutate, Moves, Contract!Moved, EInv, Shape
    <3>6. Contract!Apply(t, actor)
      BY <2>2, <3>1, <3>3, <3>4, <3>5 DEF Performed, Contract!Apply
    <3> QED BY <3>3, <3>6 DEF Contract!CNext, Contract!Transitions
  <2> QED BY <2>1, <2>2, StepForms, NextInvokes DEF EInv
<1> QED BY <1>1, <1>2, EInvHolds, PTL DEF Spec, ImplementsContract, Contract!CSpec

\* The last mover of an object applied: it is as the episode ends.
LEMMA FinalStands ==
    ASSUME EInv, NEW o \in Objects,
           \A i \in Primaries(episode) : Moves(Events[i], o) => applied[Events[i]] # {}
    PROVE  states[o] = episode.final[o]
<1>1. PICK n \in 0..Len(Events) : Stands(o, n)
  BY DEF EInv, Placed
<1>2. Len(Events) \in Nat /\ DOMAIN Events = 1..Len(Events) /\ n \in Nat
  BY SealedFacts DEF EInv, Shape
<1>3. \A l \in (n + 1)..Len(Events) : ~Moves(Events[l], o)
  <2> SUFFICES ASSUME NEW l \in (n + 1)..Len(Events), Moves(Events[l], o)
               PROVE  FALSE
    OBVIOUS
  <2>1. l \in DOMAIN Events /\ ~(l <= n)
    BY <1>2
  <2>2. l \in Primaries(episode)
    BY <2>1, MoversAreTransitions DEF EInv, Shape
  <2> QED BY <1>1, <2>1, <2>2 DEF Stands
<1>4. Leaves(episode, Len(Events), o, states[o])
  BY <1>1, <1>2, <1>3, LeavesStill DEF Stands
<1>5. Leaves(episode, Len(Events), o, episode.final[o])
  BY EventFacts DEF EInv, Shape, FinalReached, Events, Objects
<1> QED BY <1>2, <1>4, <1>5, LeavesOne

\* The first transition of the script that is not applied can be.
LEMMA FirstHolds ==
    ASSUME EInv, NEW i \in Primaries(episode), applied[Events[i]] = {},
           \A j \in Primaries(episode) : j < i => applied[Events[j]] # {}
    PROVE  PreconditionsHold(Events[i])
<1>1. Len(Events) \in Nat /\ DOMAIN Events = 1..Len(Events) /\ i \in DOMAIN Events
      /\ i \in Nat /\ i - 1 \in Nat
  BY SealedFacts DEF EInv, Shape, Primaries, Events
<1> SUFFICES ASSUME NEW o \in DOMAIN Events[i].mutations
             PROVE  o \in Objects /\ states[o] = Events[i].mutations[o].from
  BY DEF PreconditionsHold
<1>2. o \in Objects /\ Leaves(episode, i - 1, o, Events[i].mutations[o].from)
  BY <1>1, EventFacts DEF EInv, Shape, Chained, Events, Objects
<1>3. PICK n \in 0..Len(Events) : Stands(o, n)
  BY <1>2 DEF EInv, Placed
<1>4. n \in Nat /\ n <= i - 1
  BY <1>1, <1>3 DEF Stands, Moves
<1>5. \A l \in (n + 1)..(i - 1) : ~Moves(Events[l], o)
  <2> SUFFICES ASSUME NEW l \in (n + 1)..(i - 1), Moves(Events[l], o)
               PROVE  FALSE
    OBVIOUS
  <2>1. l \in DOMAIN Events /\ l < i /\ ~(l <= n)
    BY <1>1, <1>4
  <2>2. l \in Primaries(episode)
    BY <2>1, MoversAreTransitions DEF EInv, Shape
  <2> QED BY <1>3, <2>1, <2>2 DEF Stands
<1>6. Leaves(episode, i - 1, o, states[o])
  BY <1>1, <1>3, <1>4, <1>5, LeavesStill DEF Stands
<1> QED BY <1>1, <1>2, <1>6, LeavesOne

\* As long as the episode is not complete, there is such a transition.
LEMMA FirstUnapplied ==
    ASSUME EInv, ~IsComplete
    PROVE  \E i \in Primaries(episode) :
                /\ applied[Events[i]] = {}
                /\ \A j \in Primaries(episode) : j < i => applied[Events[j]] # {}
<1> DEFINE F == {i \in Primaries(episode) : applied[Events[i]] = {}}
<1>1. Primaries(episode) \subseteq Nat
  BY SealedFacts DEF EInv, Shape, Primaries, Events
<1>2. F # {}
  BY FinalStands DEF IsComplete
<1>3. PICK i \in F : \A j \in F : i <= j
  <2>1. F \subseteq Nat
    BY <1>1
  <2> HIDE DEF F
  <2> QED BY <1>2, <2>1, Least
<1>4. \A j \in Primaries(episode) : j < i => applied[Events[j]] # {}
  <2> SUFFICES ASSUME NEW j \in Primaries(episode), j < i, applied[Events[j]] = {}
               PROVE  FALSE
    OBVIOUS
  <2>1. j \in F /\ i \in Nat /\ j \in Nat
    BY <1>1
  <2> QED BY <1>3, <2>1
<1> QED BY <1>3, <1>4

LEMMA SomebodyMay ==
    ASSUME EInv, NEW i \in DOMAIN Events
    PROVE  /\ Authorized(Events[i].actor, Events[i].action)
           /\ Events[i].actor \in Actors /\ Events[i].refs # {}
<1>1. ActorPermitted(episode, i) /\ Evidenced(episode, i)
  BY EventFacts DEF EInv, Shape
<1>2. Authorized(Events[i].actor, Events[i].action)
  BY <1>1 DEF ActorPermitted, Authorized, Events
<1>3. Events[i].actor \in Actors
  BY <1>2, SealedFacts DEF EInv, Shape, Authorized, Actors
<1> QED BY <1>1, <1>2, <1>3 DEF Evidenced, Events

\* Until an episode is complete there is a transition that can be made.
LEMMA SomethingToDo ==
    ASSUME EInv, Playable, ~IsComplete
    PROVE  \E t \in Transitions : Acceptable(t)
<1>1. PICK i \in Primaries(episode) :
          /\ applied[Events[i]] = {}
          /\ \A j \in Primaries(episode) : j < i => applied[Events[j]] # {}
  BY FirstUnapplied
<1> DEFINE t == Events[i]
<1>2. PreconditionsHold(t)
  BY <1>1, FirstHolds
<1>3. i \in DOMAIN Events /\ t \in Transitions /\ applied[t] = {}
  BY <1>1 DEF Primaries, Events, Transitions
<1>4. t.refs # {} /\ \E a \in Actors : Authorized(a, t.action)
  BY <1>3, SomebodyMay
<1>5. t.surface \in episode.surfaces
  BY <1>3 DEF Playable
<1> HIDE DEF t
<1>6. Named(t.surface, t.action) = {t}
  <2>1. t \in ActiveTransitions
    BY <1>2, <1>3 DEF ActiveTransitions, Unapplied
  <2>2. \A u \in ActiveTransitions : u \in Transitions
    BY DEF ActiveTransitions, Unapplied
  <2> QED BY <1>3, <2>1, <2>2 DEF Named, Playable
<1> QED BY <1>3, <1>4, <1>5, <1>6 DEF Acceptable

\* Whatever episode was sealed, and whatever was asked of its session before:
\* in free mode something can be done until it is complete, in replay mode the
\* next event can be played, and the last one completes the episode
\* (contract.py:249-339, eval_adapters.py:265).
THEOREM NoDeadEnds == Spec => []NoDeadEnd
<1>1. ASSUME EInv, Playable, ~IsComplete
      PROVE  \E t \in Transitions : Acceptable(t)
  BY <1>1, SomethingToDo
<1>2. ASSUME EInv, Playable, mode = "replay", ~InScript
      PROVE  IsComplete
  <2>1. \A i \in Primaries(episode) : i <= index
    BY <1>2, SealedFacts DEF InScript, EInv, Shape, Primaries, Events
  <2> QED BY <1>2, <2>1, FinalStands DEF EInv, Played, IsComplete
<1>3. ASSUME EInv, Playable, mode = "replay", InScript
      PROVE  NextAdmitted
  <2> DEFINE i == index + 1
  <2>1. /\ Event = Events[i] /\ i \in DOMAIN Events /\ index \in Nat
        /\ Event.request_id \in RequestIds /\ DOMAIN Events = 1..Len(Events)
        /\ Len(Events) \in Nat
    BY <1>3, SealedFacts DEF Event, InScript, EInv, Shape
  <2>2. Event.surface \in episode.surfaces /\ Authorized(Event.actor, Event.action)
    BY <1>3, <2>1, SomebodyMay DEF Playable
  <2>3. Idempotent(episode, i)
    BY <1>3, <2>1, EventFacts DEF EInv, Shape
  <2>4. CASE Primary(Event)
    <3>1. i \in Primaries(episode)
      BY <2>1, <2>4 DEF Primaries, Events
    <3>2. \A j \in Primaries(episode) : j \in Nat
      BY <2>1 DEF Primaries, Events
    <3>3. applied[Events[i]] = {}
      BY <1>3, <2>1, <3>1 DEF EInv, InOrder
    <3>4. \A j \in Primaries(episode) : j < i => applied[Events[j]] # {}
      BY <1>3, <2>1, <3>2 DEF EInv, Played
    <3>5. PreconditionsHold(Event)
      BY <1>3, <2>1, <3>1, <3>3, <3>4, FirstHolds
    <3>6. receipts[Event.request_id] = {}
      <4> SUFFICES ASSUME receipts[Event.request_id] # {} PROVE FALSE
        OBVIOUS
      <4>1. PICK j \in Primaries(episode) :
                j <= index /\ Events[j].request_id = Event.request_id
        BY <1>3, <2>1 DEF EInv, Played
      <4>2. j \in 1..(i - 1)
        BY <2>1, <4>1 DEF Primaries, Events
      <4> QED BY <2>1, <2>3, <2>4, <4>1, <4>2 DEF Idempotent, Events
    <3> QED BY <2>2, <2>4, <3>5, <3>6 DEF NextAdmitted
  <2>5. CASE ~Primary(Event)
    <3>1. PICK j \in 1..i : /\ Events[j].id \in Event.duplicate_of
                            /\ Events[j].request_id = Event.request_id
      BY <2>1, <2>3, <2>5 DEF Idempotent, Events
    <3>2. j # i
      BY <1>3, <2>1, <3>1 DEF Playable
    <3>3. j \in 1..index
      BY <2>1, <3>1, <3>2
    <3>4. receipts[Event.request_id] # {}
      BY <1>3, <3>1, <3>3 DEF EInv, Played
    <3> QED BY <2>2, <2>5, <3>4 DEF NextAdmitted
  <2> QED BY <2>4, <2>5
<1>4. EInv => NoDeadEnd
  BY <1>1, <1>2, <1>3 DEF NoDeadEnd
<1> QED BY <1>4, EInvHolds, PTL

\* A complete episode stays complete: what moves an object moves it on, so no
\* transition starts from where the script ends; and a receipt that was given
\* is given for good (eval_adapters.py:244-250).
THEOREM OutcomesStand == Spec => OutcomeStands
<1>1. ASSUME EInv, IsComplete, NEW t \in Transitions, NEW id, NEW refs, NEW actor,
             Performed(t, id, refs, actor)
      PROVE  IsComplete'
  <2>1. states' = Mutate(t) /\ PreconditionsHold(t) /\ UNCHANGED episode
    BY <1>1 DEF Performed, sealed
  <2>2. PICK i \in DOMAIN Events : t = Events[i]
    BY <1>1 DEF Transitions, Primaries, Events
  <2>3. ASSUME NEW o \in Objects PROVE ~Moves(t, o)
    <3> SUFFICES ASSUME Moves(t, o) PROVE FALSE
      OBVIOUS
    <3>1. episode.final[o] = t.mutations[o].from
      BY <1>1, <2>1 DEF IsComplete, PreconditionsHold, Moves
    <3>2. Leaves(episode, Len(Events), o, episode.final[o])
      BY <1>1, EventFacts DEF EInv, Shape, FinalReached, Events, Objects
    <3>3. Len(Events) \in i..Len(Events)
      BY <1>1, <2>2, SealedFacts DEF EInv, Shape
    <3>4. episode.final[o].version \in Nat
          /\ episode.final[o].version > t.mutations[o].from.version
      BY <1>1, <2>2, <3>2, <3>3, VersionsGrow DEF EInv, Shape
    <3> QED BY <3>1, <3>4
  <2> QED BY <1>1, <2>1, <2>3 DEF IsComplete, Mutate, Objects
<1>2. ASSUME Kept \/ UNCHANGED vars, IsComplete PROVE IsComplete'
  BY <1>2 DEF Kept, vars, sealed, IsComplete, Objects
<1>3. EInv /\ [Next]_vars => [IsComplete => IsComplete']_vars
  BY <1>1, <1>2, StepForms, NextInvokes DEF EInv
<1>4. EInv /\ [Next]_vars =>
        [\A i \in RequestIds : receipts[i] # {} => receipts'[i] = receipts[i]]_vars
  BY StepForms, NextInvokes DEF EInv, Shape, Kept, Performed
<1>5. EInv /\ [Next]_vars =>
        [/\ IsComplete => IsComplete'
         /\ \A i \in RequestIds : receipts[i] # {} => receipts'[i] = receipts[i]]_vars
  BY <1>3, <1>4
<1> QED BY <1>5, EInvHolds, PTL DEF Spec, OutcomeStands

-----------------------------------------------------------------------------
(* FreeRun: the sessions of a run, and what is counted of them *)
Done == {t \in Transitions : applied[t] # {}}

\* Every turn but the one that is being asked is counted, once, and an applied
\* transition at least once.
Tallied ==
    /\ phase = "loop" => appliedCount + rejectedCount = turn
    /\ phase = "ask" => appliedCount + rejectedCount = turn - 1 /\ ~IsComplete
    /\ phase \in {"loop", "ask"} =>
            turn <= Limit /\ Cardinality(Done) <= appliedCount

RunShape ==
    /\ mode = "free" /\ policy \in Policies
    /\ turn \in Nat /\ appliedCount \in Nat /\ rejectedCount \in Nat
    /\ phase = "ask" => turn \in 1..Limit
    /\ outcomes \in Seq([complete : BOOLEAN, turns : Nat, applied : Nat, rejected : Nat,
                         stop : {"complete", "turn_limit", "policy_error",
                                 "policy_stopped"}])

Verdict(o) ==
    /\ o.complete <=> o.stop = "complete"
    /\ o.turns <= Limit
    /\ o.stop = "turn_limit" => o.turns = Limit
    /\ Counted(o) = IF o.stop \in {"complete", "turn_limit"} THEN o.turns
                    ELSE o.turns - 1
    /\ o.complete =>
           o.applied >= Cardinality({t \in Transitions : DOMAIN t.mutations # {}})

RInv == RunShape /\ Tallied /\ VerdictsAgree

LEMMA FiniteTransitions ==
    ASSUME Sealed PROVE IsFiniteSet(Transitions)
<1>1. Len(Events) \in Int /\ Primaries(episode) \subseteq 1..Len(Events)
  BY SealedFacts DEF Primaries, Events
<1>2. IsFiniteSet(Primaries(episode))
  <2>1. IsFiniteSet(1..Len(Events))
    BY <1>1, FS_Interval
  <2> QED BY <1>1, <2>1, FS_Subset
<1> DEFINE f == [i \in Primaries(episode) |-> Events[i]]
<1>3. f \in Surjection(Primaries(episode), Transitions)
  BY DEF Surjection, Transitions
<1> HIDE DEF f
<1> QED BY <1>2, <1>3, FS_Surjection

\* Whoever completes an episode has applied all that changes something.
LEMMA CompleteIsWhole ==
    ASSUME EInv, IsComplete, NEW t \in Transitions, DOMAIN t.mutations # {}
    PROVE  t \in Done
<1> SUFFICES ASSUME applied[t] = {} PROVE FALSE
  BY DEF Done
<1>1. PICK i \in Primaries(episode) : t = Events[i]
  BY DEF Transitions
<1>2. PICK o \in DOMAIN t.mutations : TRUE
  OBVIOUS
<1>3. Len(Events) \in Nat /\ DOMAIN Events = 1..Len(Events) /\ i \in DOMAIN Events
  BY SealedFacts DEF EInv, Shape, Primaries, Events
<1>4. o \in Objects /\ Moves(Events[i], o)
  BY <1>1, <1>2, <1>3, SealedFacts DEF EInv, Shape, Moves
<1>5. PICK n \in 0..Len(Events) : Stands(o, n)
  BY <1>4 DEF EInv, Placed
<1>6. n < i
  BY <1>1, <1>3, <1>4, <1>5 DEF Stands
<1>7. PICK m \in DOMAIN Events : /\ Moves(Events[m], o)
                                 /\ states[o] = Events[m].mutations[o].from
  BY <1>3, <1>4, <1>5, <1>6, FirstMover DEF EInv, Shape
<1>8. Leaves(episode, Len(Events), o, states[o])
  BY <1>4, EventFacts DEF EInv, Shape, FinalReached, Events, Objects, IsComplete
<1>9. states[o].version > Events[m].mutations[o].from.version
      /\ states[o].version \in Nat
  <2>1. Len(Events) \in m..Len(Events)
    BY <1>3
  <2> QED BY <1>7, <1>8, <2>1, VersionsGrow DEF EInv, Shape
<1> QED BY <1>7, <1>9

\* A request adds one to one of the counts, and to that of the applied ones if
\* it applies a transition.
LEMMA InvokeCounts ==
    ASSUME EInv, RInv, phase = "ask", NEW surface, NEW r, r.id \in RequestIds,
           Invoke(surface, r)
    PROVE  /\ Invoked /\ phase' = "loop" /\ UNCHANGED <<sealed, turn, outcomes, policy>>
           /\ appliedCount' \in Nat /\ rejectedCount' \in Nat
           /\ appliedCount' + rejectedCount' = turn
           /\ Cardinality(Done') <= appliedCount'
<1>1. InvokeFree(surface, r) /\ Invoked
  BY DEF Invoke, Invoked
<1>2. phase' = "loop" /\ UNCHANGED <<sealed, turn, outcomes, policy>>
  BY <1>1 DEF Invoke, InvokeFree, Apply, Retransmitted, Reject
<1>3. Transitions' = Transitions
  BY <1>2 DEF sealed, Transitions, Primaries, Events
<1>4. appliedCount \in Nat /\ rejectedCount \in Nat /\ turn \in Nat
      /\ appliedCount + rejectedCount = turn - 1 /\ Cardinality(Done) <= appliedCount
  BY DEF RInv, RunShape, Tallied
<1>5. /\ r \in requests'[r.id] =>
            appliedCount' = appliedCount + 1 /\ rejectedCount' = rejectedCount
      /\ ~(r \in requests'[r.id]) =>
            rejectedCount' = rejectedCount + 1 /\ appliedCount' = appliedCount
  BY DEF Invoke
<1>6. IsFiniteSet(Done) /\ Cardinality(Done) \in Nat
  <2>1. IsFiniteSet(Done)
    BY FiniteTransitions, FS_Subset DEF EInv, Shape, Done
  <2> QED BY <2>1, FS_CardinalityType
<1>7. Cardinality(Done') <= appliedCount'
  <2>1. CASE \E t \in Transitions : Apply(surface, r, t)
    <3>1. PICK t \in Transitions : Apply(surface, r, t)
      BY <2>1
    <3>2. r \in requests'[r.id]
      BY <3>1 DEF Apply, EInv, Shape
    <3>3. applied' = [applied EXCEPT ![t] = {r.actor}] /\ DOMAIN applied = Transitions
      BY <3>1 DEF Apply, EInv, Shape
    <3>4. Done' = Done \union {t}
      BY <1>3, <3>3 DEF Done
    <3>5. Cardinality(Done') <= Cardinality(Done) + 1
      <4>1. CASE t \in Done
        <5>1. Done' = Done
          BY <3>4, <4>1
        <5> QED BY <1>6, <5>1
      <4>2. CASE t \notin Done
        <5>1. Cardinality(Done \union {t}) = Cardinality(Done) + 1
          BY <1>6, <4>2, FS_AddElement
        <5> QED BY <1>6, <3>4, <5>1
      <4> QED BY <4>1, <4>2
    <3>6. Cardinality(Done') \in Nat
      BY <1>6, <3>4, FS_AddElement, FS_CardinalityType
    <3> QED BY <1>4, <1>5, <1>6, <3>2, <3>5, <3>6
  <2>2. CASE Retransmitted(r) \/ Reject(surface, r)
    <3>1. applied' = applied
      BY <2>2 DEF Retransmitted, Reject
    <3>2. Done' = Done
      BY <1>3, <3>1 DEF Done
    <3> QED BY <1>4, <1>5, <1>6, <3>2
  <2> QED BY <1>1, <2>1, <2>2 DEF InvokeFree
<1>8. appliedCount' + rejectedCount' = turn /\ appliedCount' \in Nat
      /\ rejectedCount' \in Nat
  BY <1>4, <1>5
<1> QED BY <1>1, <1>2, <1>7, <1>8

LEMMA Reported ==
    ASSUME EInv, RInv, NEW reason, EndEpisode(reason),
           \/ phase = "loop" /\ reason = "complete" /\ IsComplete
           \/ phase = "loop" /\ reason = "turn_limit" /\ ~IsComplete /\ turn = Limit
           \/ phase = "ask" /\ reason \in {"policy_error", "policy_stopped"}
    PROVE  RInv'
<1> DEFINE o == [complete |-> IsComplete, stop |-> reason, turns |-> turn,
                 applied |-> appliedCount, rejected |-> rejectedCount]
<1>1. outcomes' = Append(outcomes, o) /\ phase' = "next"
      /\ UNCHANGED <<vars, turn, appliedCount, rejectedCount, policy>>
  BY DEF EndEpisode
<1>2. appliedCount \in Nat /\ rejectedCount \in Nat /\ turn \in Nat /\ turn <= Limit
      /\ Cardinality(Done) <= appliedCount
  BY DEF RInv, RunShape, Tallied
<1>3. IsComplete \in BOOLEAN
  BY DEF IsComplete
<1>4. o.complete <=> o.stop = "complete"
  BY DEF RInv, Tallied
<1>5. Counted(o) = IF o.stop \in {"complete", "turn_limit"} THEN o.turns
                   ELSE o.turns - 1
  BY DEF RInv, Tallied, Counted
<1>6. ASSUME IsComplete
      PROVE  o.applied >= Cardinality({t \in Transitions : DOMAIN t.mutations # {}})
  <2> DEFINE W == {t \in Transitions : DOMAIN t.mutations # {}}
  <2>1. W \subseteq Done
    BY <1>6, CompleteIsWhole
  <2>2. IsFiniteSet(Done)
    BY FiniteTransitions, FS_Subset DEF EInv, Shape, Done
  <2>3. Cardinality(W) <= Cardinality(Done) /\ Cardinality(Done) \in Nat
        /\ Cardinality(W) \in Nat
    BY <2>1, <2>2, FS_Subset, FS_CardinalityType
  <2> HIDE DEF W
  <2>4. Cardinality(W) <= appliedCount
    BY <1>2, <2>3
  <2> QED BY <1>2, <2>3, <2>4 DEF W
<1>7. Verdict(o)
  BY <1>2, <1>4, <1>5, <1>6 DEF Verdict
<1>8. outcomes \in Seq([complete : BOOLEAN, turns : Nat, applied : Nat, rejected : Nat,
                        stop : {"complete", "turn_limit", "policy_error",
                                "policy_stopped"}])
  BY DEF RInv, RunShape
<1>9. o \in [complete : BOOLEAN, turns : Nat, applied : Nat, rejected : Nat,
             stop : {"complete", "turn_limit", "policy_error", "policy_stopped"}]
  BY <1>2, <1>3
<1> HIDE DEF o
<1>10. RunShape'
  BY <1>1, <1>8, <1>9 DEF RInv, RunShape, vars, sealed, Limit
<1>11. Tallied'
  BY <1>1 DEF Tallied
<1>12. Transitions' = Transitions /\ Limit' = Limit
  BY <1>1 DEF vars, sealed, Transitions, Primaries, Events, Limit
<1>13. ASSUME NEW i \in DOMAIN outcomes' PROVE Verdict(outcomes'[i])
  <2>1. \/ i \in DOMAIN outcomes /\ outcomes'[i] = outcomes[i]
        \/ outcomes'[i] = o
    BY <1>1, <1>8, <1>13
  <2> QED BY <1>7, <2>1 DEF RInv, VerdictsAgree, Verdict
<1>14. VerdictsAgree'
  BY <1>12, <1>13 DEF VerdictsAgree, Verdict
<1> QED BY <1>10, <1>11, <1>14 DEF RInv

\* No step but the end of an episode touches what is reported.
LEMMA ReportsStay ==
    ASSUME RInv, UNCHANGED <<sealed, outcomes, policy>>
    PROVE  VerdictsAgree'
<1>1. Transitions' = Transitions /\ Limit' = Limit
  BY DEF sealed, Transitions, Primaries, Events, Limit
<1> QED BY <1>1 DEF RInv, VerdictsAgree

LEMMA RunInitInv == RunInit => EInv /\ RInv
<1> SUFFICES ASSUME RunInit PROVE EInv /\ RInv
  OBVIOUS
<1>1. EInv
  BY InitEInv DEF RunInit
<1>2. RInv
  BY DEF RunInit, RInv, RunShape, Tallied, VerdictsAgree
<1> QED BY <1>1, <1>2

LEMMA RunStep == EInv /\ RInv /\ [RunNext]_runVars => (EInv' \/ Fresh') /\ RInv'
<1> SUFFICES ASSUME EInv, RInv, [RunNext]_runVars PROVE (EInv' \/ Fresh') /\ RInv'
  OBVIOUS
<1>1. ASSUME UNCHANGED <<vars, outcomes, policy>>
      PROVE  EInv' /\ VerdictsAgree' /\ Transitions' = Transitions
             /\ (IsComplete' <=> IsComplete) /\ Limit' = Limit /\ Done' = Done
  BY <1>1, StepEInv, ReportsStay
  DEF vars, sealed, Transitions, Primaries, Events, IsComplete, Objects, Limit, Done
<1>2. CASE BeginEpisode
  <2>1. UNCHANGED <<sealed, outcomes, policy>> /\ turn' = 0 /\ appliedCount' = 0
        /\ rejectedCount' = 0 /\ phase' = "loop"
    BY <1>2 DEF BeginEpisode, NewSession
  <2>2. Transitions' = Transitions /\ Sealed' = Sealed /\ Limit' = Limit
    BY <2>1 DEF sealed, Transitions, Primaries, Events, Sealed, Limit
  <2>3. Fresh'
    BY <1>2, <2>1, <2>2 DEF BeginEpisode, NewSession, Fresh, EInv, Shape, sealed
  <2>4. Done' = {}
    BY <2>2, <2>3 DEF Done, Fresh
  <2>5. 0 <= Limit
    BY RunAssumption DEF Limit, RInv, RunShape
  <2>6. Tallied'
    BY <2>1, <2>2, <2>4, <2>5, FS_EmptySet DEF Tallied
  <2>7. RunShape'
    BY <2>1, <2>2 DEF RInv, RunShape, sealed
  <2> QED BY <2>1, <2>3, <2>6, <2>7, ReportsStay DEF RInv
<1>3. CASE NextTurn
  <2>1. UNCHANGED <<vars, outcomes, policy, appliedCount, rejectedCount>>
        /\ turn' = turn + 1 /\ phase' = "ask" /\ phase = "loop" /\ turn < Limit
        /\ ~IsComplete /\ turn \in Nat /\ Limit \in Nat
    BY <1>3, RunAssumption DEF NextTurn, RInv, RunShape, Limit
  <2>2. RunShape'
    <3>1. turn' \in 1..Limit' /\ turn' \in Nat
      BY <1>1, <2>1
    <3> QED BY <2>1, <3>1 DEF RInv, RunShape, vars, sealed
  <2>3. Tallied'
    <3>1. turn' - 1 = turn /\ turn' <= Limit
      BY <2>1
    <3> QED BY <1>1, <2>1, <3>1 DEF RInv, Tallied
  <2> QED BY <1>1, <2>1, <2>2, <2>3 DEF RInv
<1>4. CASE StopComplete
  BY <1>4, Reported, StepEInv DEF StopComplete, EndEpisode
<1>5. CASE OutOfTurns
  BY <1>5, Reported, StepEInv DEF OutOfTurns, EndEpisode
<1>6. CASE PolicyError \/ Decline
  BY <1>6, Reported, StepEInv DEF PolicyError, Decline, Calling, EndEpisode
<1>7. ASSUME NEW surface, NEW r, phase = "ask", r.id \in RequestIds, Invoke(surface, r)
      PROVE  EInv' /\ RInv'
  <2>1. /\ Invoked /\ phase' = "loop" /\ UNCHANGED <<sealed, turn, outcomes, policy>>
        /\ appliedCount' \in Nat /\ rejectedCount' \in Nat
        /\ appliedCount' + rejectedCount' = turn
        /\ Cardinality(Done') <= appliedCount'
    BY <1>7, InvokeCounts
  <2>2. EInv'
    BY <2>1, StepEInv
  <2>3. RunShape'
    BY <2>1 DEF RInv, RunShape, sealed
  <2>4. Tallied'
    BY <1>7, <2>1 DEF RInv, Tallied, Limit
  <2> QED BY <2>1, <2>2, <2>3, <2>4, ReportsStay DEF RInv
<1>8. ASSUME Searching PROVE turn \in RequestIds
  BY <1>8, IdsAssumption DEF Searching, RInv, RunShape, Limit
<1>9. CASE SearchOn
  <2>1. PICK c \in ToTry : Invoke(c.surface, Asking(c, <<>>))
    BY <1>9 DEF SearchOn
  <2>2. Asking(c, <<>>).id = turn
    BY DEF Asking
  <2> QED BY <1>7, <1>8, <1>9, <2>1, <2>2 DEF SearchOn, Searching
<1>10. CASE SearchAgain
  <2>1. PICK c \in last, v \in retryVersions : Invoke(c.surface, Asking(c, v))
    BY <1>10 DEF SearchAgain
  <2>2. Asking(c, v).id = turn
    BY DEF Asking
  <2> QED BY <1>7, <1>8, <1>10, <2>1, <2>2 DEF SearchAgain, Searching
<1>11. CASE Propose
  <2>1. CASE NotInvoked
    <3>1. UNCHANGED <<vars, outcomes, policy, turn, appliedCount>>
          /\ rejectedCount' = rejectedCount + 1 /\ phase' = "loop" /\ phase = "ask"
      BY <1>11, <2>1 DEF NotInvoked, Propose, Calling
    <3>2. appliedCount + rejectedCount' = turn /\ rejectedCount' \in Nat
      BY <3>1 DEF RInv, RunShape, Tallied
    <3>3. RunShape' /\ Tallied'
      BY <1>1, <3>1, <3>2 DEF RInv, RunShape, Tallied, vars, sealed
    <3> QED BY <1>1, <3>1, <3>3 DEF RInv
  <2>2. CASE \E surface \in episode.surfaces, r \in Requests : Invoke(surface, r)
    BY <1>7, <1>11, <2>2, InputsAssumption DEF Propose, Calling
  <2> QED BY <1>11, <2>1, <2>2 DEF Propose
<1>12. CASE TransportFailure \/ Crash \/ WriteMetrics \/ UNCHANGED runVars
  <2>1. UNCHANGED <<vars, outcomes, policy, turn, appliedCount, rejectedCount>>
        /\ (phase' = phase \/ phase' \notin {"ask", "loop"})
    BY <1>12 DEF TransportFailure, Crash, WriteMetrics, runVars, loop
  <2>2. RunShape' /\ Tallied'
    BY <1>1, <2>1 DEF RInv, RunShape, Tallied, vars, sealed
  <2> QED BY <1>1, <2>1, <2>2 DEF RInv
<1> QED BY <1>2, <1>3, <1>4, <1>5, <1>6, <1>9, <1>10, <1>11, <1>12
        DEF RunNext, TransientStatus, BrokenErrorBody

\* Whatever a policy proposes, and however its endpoint fails: what is reported
\* of an episode is the verdict of its session, every turn was counted once, and
\* a complete episode left no change out (free_run.py:394-469).
THEOREM VerdictsAlwaysAgree == RunSpec => []VerdictsAgree
<1>1. RInv => VerdictsAgree
  BY DEF RInv
<1> QED BY <1>1, FreshEInv, RunInitInv, RunStep, PTL DEF RunSpec

-----------------------------------------------------------------------------
(* FreeRun: the search, which never sees the script, comes to its end       *)

\* What the search may try.
Allowed == {c \in Combinations : Authorized(c.actor, c.action)}

\* The turns it takes at most to apply one transition: each try once, and the
\* one that is told its versions once more.
Round == Cardinality(Allowed) + 1

\* A session can be played, there is something to do in it, and the search has
\* the turns for a round for each transition.  The default of 64 turns is
\* enough for each sealed episode of the repository.
WithinReach ==
    /\ Playable /\ \E o \in Objects : episode.initial[o] # episode.final[o]
    /\ policy = "scripted" => Limit >= Cardinality(Transitions) * Round

\* The turns of an episode that are over.
Spent == IF phase = "ask" THEN turn - 1 ELSE turn

\* With the right versions, c would be applied as t.
Hope(c, t) ==
    /\ c \in Allowed /\ c.surface = t.surface /\ c.action = t.action
    /\ t \in Transitions /\ Named(c.surface, c.action) = {t} /\ t.refs # {}

\* A try that can succeed is still to come, or has just been told its versions.
Hopeful ==
    \/ retryVersions = {} /\ \E t \in Transitions, c \in pending : Hope(c, t)
    \/ \E t \in Transitions, c \in last :
            Hope(c, t) /\ last = {c} /\ retryVersions = {ExpectedVersions(t)}

Idle == pending = {} /\ retryVersions = {}

\* A search on its way: the requests it has numbered, what it takes for done,
\* and the turns it has spent on that and on what it has tried since.
Underway ==
    /\ \A i \in RequestIds : requests[i] # {} => i \in 1..Spent
    /\ \A p \in done : \E t \in Done : p = <<t.surface, t.action>>
    /\ pending \subseteq Allowed
    /\ Spent + Cardinality(pending) <= Cardinality(Done) * Round + Cardinality(Allowed)
    /\ Idle => Spent <= Cardinality(Done) * Round
    /\ ~IsComplete /\ ~Idle => Hopeful

Playing(p) == policy = p /\ phase \in {"loop", "ask"}

PInv ==
    WithinReach =>
        /\ Playing("scripted") => Underway
        /\ Playing("refuse") => states = episode.initial
        /\ PoliciesDeliver

LEMMA FiniteAllowed ==
    ASSUME Sealed
    PROVE  IsFiniteSet(Allowed) /\ Cardinality(Allowed) \in Nat /\ Round \in Nat
<1> DEFINE T == {t \in Transitions : t.surface \in episode.surfaces}
           f == [p \in T \X Actors |-> [surface |-> p[1].surface, actor |-> p[2],
                                        action |-> p[1].action]]
<1>1. IsFiniteSet(T)
  BY FiniteTransitions, FS_Subset
<1>2. IsFiniteSet(Actors)
  <2>1. IsFiniteSet(DOMAIN episode.role)
    BY EpisodesAssumption DEF Sealed
  <2> QED BY <2>1, FS_Subset DEF Actors
<1>3. IsFiniteSet(T \X Actors)
  BY <1>1, <1>2, FS_Product
<1>4. f \in Surjection(T \X Actors, Combinations)
  <2>1. ASSUME NEW p \in T \X Actors PROVE f[p] \in Combinations
    BY DEF Combinations
  <2>2. ASSUME NEW c \in Combinations PROVE \E p \in T \X Actors : f[p] = c
    <3>1. PICK t \in T, a \in Actors :
            c = [surface |-> t.surface, actor |-> a, action |-> t.action]
      BY DEF Combinations
    <3>2. <<t, a>> \in T \X Actors /\ f[<<t, a>>] = c
      BY <3>1
    <3> QED BY <3>2
  <2>3. DOMAIN f = T \X Actors /\ f = [p \in DOMAIN f |-> f[p]]
    OBVIOUS
  <2> HIDE DEF f
  <2> QED BY <2>1, <2>2, <2>3 DEF Surjection
<1> HIDE DEF f, T
<1>5. IsFiniteSet(Combinations)
  BY <1>3, <1>4, FS_Surjection
<1>6. IsFiniteSet(Allowed)
  BY <1>5, FS_Subset DEF Allowed
<1> QED BY <1>6, FS_CardinalityType DEF Round

LEMMA SameEpisode ==
    ASSUME UNCHANGED <<sealed, policy>>
    PROVE  /\ WithinReach' <=> WithinReach
           /\ Allowed' = Allowed /\ Round' = Round /\ Transitions' = Transitions
           /\ Objects' = Objects /\ episode' = episode /\ Limit' = Limit
<1>1. Transitions' = Transitions /\ Objects' = Objects /\ episode' = episode
      /\ Limit' = Limit /\ Events' = Events /\ policy' = policy
  BY DEF sealed, Transitions, Primaries, Events, Objects, Limit
<1>2. Allowed' = Allowed
  BY <1>1 DEF Allowed, Combinations, Authorized, Actors
<1>3. Playable' <=> Playable
  BY <1>1 DEF Playable
<1> QED BY <1>1, <1>2, <1>3 DEF WithinReach, Round

LEMMA DoneFacts ==
    ASSUME EInv
    PROVE  /\ IsFiniteSet(Done) /\ Cardinality(Done) \in Nat
           /\ Cardinality(Done) <= Cardinality(Transitions)
           /\ Cardinality(Transitions) \in Nat
           /\ Done # Transitions => Cardinality(Done) + 1 <= Cardinality(Transitions)
<1>1. IsFiniteSet(Transitions) /\ Done \subseteq Transitions
  BY FiniteTransitions DEF EInv, Shape, Done
<1> QED BY <1>1, FS_Subset, FS_CardinalityType

LEMMA RoundMore == \A a, k \in Nat : (a + 1) * k = a * k + k /\ a * k \in Nat
OBVIOUS

LEMMA RoundsMore ==
    ASSUME NEW a \in Nat, NEW b \in Nat, NEW k \in Nat, a + 1 <= b
    PROVE  a * k + k <= b * k
<1>1. b - (a + 1) \in Nat /\ b = (a + 1) + (b - (a + 1))
  OBVIOUS
<1>2. \A x, y \in Nat : (x + y) * k = x * k + y * k /\ y * k \in Nat /\ x * k \in Nat
  OBVIOUS
<1>3. b * k = (a + 1) * k + (b - (a + 1)) * k
  BY <1>1, <1>2
<1> QED BY <1>1, <1>2, <1>3, RoundMore

\* An accepted request is a step on: one more transition is done.
LEMMA TryApplied ==
    ASSUME EInv, RInv, Underway, Searching, NEW c, NEW v,
           NEW t \in Transitions, Apply(c.surface, Asking(c, v), t),
           Invoke(c.surface, Asking(c, v)), Learn(c, Asking(c, v))
    PROVE  Underway'
<1> DEFINE r == Asking(c, v)
           D == Cardinality(Done)
           L == Cardinality(Allowed)
<1>1. /\ phase = "ask" /\ phase' = "loop" /\ turn' = turn /\ turn \in Nat
      /\ turn \in 1..Limit /\ UNCHANGED <<sealed, policy>>
      /\ turn \in RequestIds /\ r.id = turn
  BY IdsAssumption
  DEF Searching, Invoke, Apply, RInv, RunShape, Asking, Limit
<1>2. Spent = turn - 1 /\ Spent' = turn
  BY <1>1 DEF Spent
<1>3. Transitions' = Transitions /\ Allowed' = Allowed /\ Round' = Round
  BY <1>1, SameEpisode
<1>4. r \in requests'[r.id] /\ requests' = [requests EXCEPT ![turn] = {r}]
  BY <1>1 DEF Apply, EInv, Shape
<1>5. pending' = {} /\ retryVersions' = {} /\ done' = done \union {<<c.surface, c.action>>}
  BY <1>4 DEF Learn
<1>6. Named(c.surface, c.action) = {t}
  BY DEF Apply, Accepts, Asking
<1>7. t.surface = c.surface /\ t.action = c.action /\ applied[t] = {}
  BY <1>6 DEF Named, ActiveTransitions, Unapplied
<1>8. t \notin Done /\ Done' = Done \union {t}
  <2>1. applied' = [applied EXCEPT ![t] = {r.actor}] /\ DOMAIN applied = Transitions
    BY DEF Apply, EInv, Shape
  <2> QED BY <1>3, <1>7, <2>1 DEF Done
<1>9. D \in Nat /\ Cardinality(Done') = D + 1
  BY <1>8, DoneFacts, FS_AddElement
<1>10. L \in Nat /\ Round = L + 1 /\ Cardinality(pending) \in Nat
  <2>1. IsFiniteSet(Allowed)
    BY FiniteAllowed DEF EInv, Shape
  <2> QED BY <2>1, FS_Subset, FS_CardinalityType DEF Underway, Round
<1>11. Spent + Cardinality(pending) <= D * Round + L
  BY DEF Underway
<1> HIDE DEF r, D, L
<1>12. turn <= Cardinality(Done') * Round
  <2>1. Round \in Nat
    BY <1>10
  <2>2. (D + 1) * Round = D * Round + Round /\ D * Round \in Nat
    BY <1>9, <2>1, RoundMore
  <2>3. turn <= D * Round + Round
    BY <1>1, <1>2, <1>10, <1>11, <2>2
  <2> QED BY <1>9, <2>2, <2>3
<1>13. ASSUME NEW i \in RequestIds, requests'[i] # {} PROVE i \in 1..turn
  <2>1. CASE i = turn
    BY <1>1, <2>1
  <2>2. CASE i # turn
    <3>1. requests[i] # {}
      BY <1>4, <1>13, <2>2 DEF EInv, Shape
    <3> QED BY <1>1, <1>2, <3>1 DEF Underway
  <2> QED BY <2>1, <2>2
<1>14. ASSUME NEW p \in done' PROVE \E u \in Done' : p = <<u.surface, u.action>>
  BY <1>5, <1>7, <1>8 DEF Underway
<1>15. Spent' + Cardinality(pending') <= Cardinality(Done') * Round' + Cardinality(Allowed')
  <2>1. Cardinality(pending') = 0
    BY <1>5, FS_EmptySet
  <2>2. Cardinality(Done') * Round \in Nat
    BY <1>9, <1>10
  <2>3. Cardinality(Allowed') = L
    BY <1>3 DEF L
  <2> QED BY <1>1, <1>2, <1>3, <1>10, <1>12, <2>1, <2>2, <2>3
<1> QED BY <1>2, <1>3, <1>5, <1>12, <1>13, <1>14, <1>15 DEF Underway, Idle

\* A transition that can be made has a try that was not taken for done.
LEMMA TryLeft ==
    ASSUME EInv, Underway, Playable, ~IsComplete
    PROVE  \E t \in Transitions, c \in Untried : Hope(c, t)
<1>1. PICK t \in Transitions : Acceptable(t)
  BY SomethingToDo
<1>2. PICK a \in Actors : Authorized(a, t.action)
  BY <1>1 DEF Acceptable
<1> DEFINE c == [surface |-> t.surface, actor |-> a, action |-> t.action]
<1>3. c \in Allowed
  BY <1>1, <1>2 DEF Allowed, Combinations, Acceptable
<1>4. <<t.surface, t.action>> \notin done
  <2> SUFFICES ASSUME <<t.surface, t.action>> \in done PROVE FALSE
    OBVIOUS
  <2>1. PICK u \in Done : <<t.surface, t.action>> = <<u.surface, u.action>>
    BY DEF Underway
  <2>2. u = t
    BY <2>1 DEF Done, Playable
  <2>3. t \in Named(t.surface, t.action)
    BY <1>1 DEF Acceptable
  <2> QED BY <2>1, <2>2, <2>3 DEF Named, ActiveTransitions, Unapplied, Done
<1>5. c \in Untried
  BY <1>3, <1>4 DEF Allowed, Untried
<1>6. Hope(c, t)
  BY <1>1, <1>3 DEF Hope, Acceptable
<1> QED BY <1>5, <1>6

\* Before a try without versions there is one that can succeed.
LEMMA HopeToTry ==
    ASSUME EInv, Underway, Playable, ~IsComplete, retryVersions = {}
    PROVE  \E t \in Transitions, c \in ToTry : Hope(c, t)
<1>1. CASE pending = {}
  BY <1>1, TryLeft DEF ToTry
<1>2. CASE pending # {}
  <2>1. Hopeful
    BY <1>2 DEF Underway, Idle
  <2> QED BY <1>2, <2>1 DEF Hopeful, ToTry
<1> QED BY <1>1, <1>2

\* A hope asked for with the right versions is not refused.
LEMMA HopeAccepted ==
    ASSUME Shape, NEW c, NEW t, Hope(c, t), NEW v, requests[turn] = {},
           VersionsCurrent(Asking(c, v), t)
    PROVE  Accepts(c.surface, Asking(c, v), t)
<1> DEFINE r == Asking(c, v)
<1>1. r.id = turn /\ r.action = c.action /\ r.actor = c.actor /\ r.refs = Available
  BY DEF Asking
<1>2. Authorized(r.actor, r.action) /\ Named(c.surface, r.action) = {t}
  BY <1>1 DEF Hope, Allowed
<1>3. Grounded(r)
  BY <1>1 DEF Grounded, Hope, Available
<1>4. FreshId(r)
  BY <1>1 DEF FreshId
<1> QED BY <1>2, <1>3, <1>4 DEF Accepts

LEMMA TryRefused ==
    ASSUME EInv, RInv, Underway, Playable, Searching, retryVersions = {},
           NEW c \in ToTry, Reject(c.surface, Asking(c, <<>>)),
           Invoke(c.surface, Asking(c, <<>>)), Learn(c, Asking(c, <<>>)),
           requests[turn] = {}, pending' = ToTry \ {c}
    PROVE  Underway'
<1> DEFINE r == Asking(c, <<>>)
           D == Cardinality(Done)
           L == Cardinality(Allowed)
<1>1. /\ phase = "ask" /\ phase' = "loop" /\ turn' = turn /\ turn \in Nat
      /\ turn \in 1..Limit /\ r.id = turn /\ ~IsComplete
      /\ UNCHANGED <<sealed, policy, states, requests, applied>>
  BY DEF Searching, Invoke, Reject, RInv, RunShape, Tallied, Asking
<1>2. Spent = turn - 1 /\ Spent' = turn
  BY <1>1 DEF Spent
<1>3. Transitions' = Transitions /\ Allowed' = Allowed /\ Round' = Round
      /\ Objects' = Objects /\ episode' = episode
  BY <1>1, SameEpisode
<1>4. Done' = Done /\ (IsComplete' <=> IsComplete)
  BY <1>1, <1>3 DEF Done, IsComplete
<1>5. r \notin requests'[r.id]
  BY <1>1
<1>6. last' = {c} /\ retryVersions' = WantedVersions(c, r) /\ done' = done
  BY <1>5 DEF Learn
<1>7. ToTry \subseteq Allowed /\ IsFiniteSet(Allowed) /\ L \in Nat /\ Round \in Nat
  BY FiniteAllowed DEF ToTry, Untried, Allowed, Underway, EInv, Shape
<1>8. IsFiniteSet(ToTry) /\ Cardinality(ToTry) \in Nat /\ Cardinality(ToTry) <= L
      /\ Cardinality(pending') = Cardinality(ToTry) - 1
  BY <1>7, FS_Subset, FS_CardinalityType, FS_RemoveElement
<1>9. ASSUME NEW t, Hope(c, t), VersionsCurrent(r, t) PROVE FALSE
  <2>1. Accepts(c.surface, r, t)
    BY <1>9, HopeAccepted DEF EInv
  <2> QED BY <1>9, <2>1 DEF Reject, Hope
<1>10. ASSUME NEW t, NEW h, Hope(h, t) PROVE Hope(h, t)'
  <2>1. Named(h.surface, h.action)' = Named(h.surface, h.action)
    BY <1>1, <1>3 DEF Named, ActiveTransitions, Unapplied, PreconditionsHold
  <2> QED BY <1>3, <1>10, <2>1 DEF Hope
<1>11. Hopeful'
  <2>1. CASE retryVersions' = {}
    <3>1. PICK t \in Transitions, h \in ToTry : Hope(h, t)
      BY <1>1, HopeToTry
    <3>2. h # c
      <4> SUFFICES ASSUME h = c PROVE FALSE
        OBVIOUS
      <4>1. ~VersionsCurrent(r, t)
        BY <1>9, <3>1
      <4>2. t \in Named(c.surface, c.action) /\ Authorized(r.actor, r.action)
        BY <3>1 DEF Hope, Allowed, Asking
      <4>3. ExpectedVersions(t) \in WantedVersions(c, r)
        BY <4>1, <4>2 DEF WantedVersions
      <4> QED BY <1>6, <2>1, <4>3
    <3> QED BY <1>3, <1>10, <2>1, <3>1, <3>2 DEF Hopeful
  <2>2. CASE retryVersions' # {}
    <3>1. PICK t \in Named(c.surface, c.action) :
            ExpectedVersions(t) \in retryVersions'
      BY <1>6, <2>2 DEF WantedVersions
    <3>2. t \in Transitions /\ t.surface = c.surface /\ t.action = c.action
      BY <3>1 DEF Named, ActiveTransitions, Unapplied
    <3>3. ASSUME NEW u \in Named(c.surface, c.action) PROVE u = t
      BY <3>2, <3>3 DEF Named, ActiveTransitions, Unapplied, Playable
    <3>4. retryVersions' = {ExpectedVersions(t)}
      BY <1>6, <3>1, <3>3 DEF WantedVersions
    <3>5. t.refs # {}
      <4>1. PICK i \in Primaries(episode) : t = Events[i]
        BY <3>2 DEF Transitions
      <4>2. i \in DOMAIN Events
        BY DEF Primaries, Events
      <4> QED BY <4>1, <4>2, SomebodyMay
    <3>6. Hope(c, t)
      BY <1>7, <3>1, <3>2, <3>3, <3>5 DEF Hope
    <3>7. ExpectedVersions(t)' = ExpectedVersions(t)
      BY DEF ExpectedVersions
    <3> QED BY <1>3, <1>6, <1>10, <3>2, <3>4, <3>6, <3>7 DEF Hopeful
  <2> QED BY <2>1, <2>2
<1>12. ~Idle'
  BY <1>11 DEF Hopeful, Idle
<1>13. Spent' + Cardinality(pending') <= D * Round + L
  <2>1. D \in Nat /\ D * Round \in Nat
    BY <1>7, DoneFacts
  <2>2. Spent + Cardinality(ToTry) <= D * Round + L
    <3>1. CASE pending = {}
      <4>1. Spent <= D * Round
        BY <3>1 DEF Underway, Idle
      <4> QED BY <1>1, <1>2, <1>7, <1>8, <2>1, <4>1
    <3>2. CASE pending # {}
      BY <3>2 DEF Underway, ToTry
    <3> QED BY <3>1, <3>2
  <2> HIDE DEF D, L
  <2> QED BY <1>1, <1>2, <1>7, <1>8, <2>1, <2>2
<1>14. ASSUME NEW i \in RequestIds, requests'[i] # {} PROVE i \in 1..Spent'
  <2>1. i \in 1..Spent
    BY <1>1, <1>14 DEF Underway
  <2> QED BY <1>1, <1>2, <2>1
<1>15. pending' \subseteq Allowed'
  BY <1>3, <1>7
<1>16. \A p \in done' : \E t \in Done' : p = <<t.surface, t.action>>
  BY <1>4, <1>6 DEF Underway
<1> QED BY <1>3, <1>4, <1>11, <1>12, <1>13, <1>14, <1>15, <1>16 DEF Underway

LEMMA TurnIsNew ==
    ASSUME RInv, Underway, Searching
    PROVE  turn \in RequestIds /\ requests[turn] = {}
<1>1. phase = "ask" /\ turn \in 1..Limit /\ turn \in RequestIds
  BY IdsAssumption DEF Searching, RInv, RunShape, Limit
<1>2. Spent = turn - 1 /\ ~(turn \in 1..(turn - 1))
  BY <1>1 DEF Spent
<1> QED BY <1>1, <1>2 DEF Underway

\* Each step of the search leaves it on its way.
LEMMA SearchGoesOn ==
    ASSUME EInv, RInv, Underway, Playable, SearchOn \/ SearchAgain
    PROVE  Underway'
<1>1. Searching /\ turn \in RequestIds /\ requests[turn] = {} /\ ~IsComplete
  BY TurnIsNew DEF SearchOn, SearchAgain, Searching, RInv, Tallied
<1>2. ASSUME NEW c, NEW v, Invoke(c.surface, Asking(c, v))
      PROVE  \/ \E t \in Transitions : Apply(c.surface, Asking(c, v), t)
             \/ Reject(c.surface, Asking(c, v))
  BY <1>1, <1>2 DEF Invoke, InvokeFree, Retransmitted, Asking
<1>3. CASE SearchOn
  <2>1. PICK c \in ToTry :
            /\ Invoke(c.surface, Asking(c, <<>>)) /\ Learn(c, Asking(c, <<>>))
            /\ ~(Asking(c, <<>>) \in requests'[Asking(c, <<>>).id])
                    => pending' = ToTry \ {c}
    BY <1>3 DEF SearchOn
  <2>2. retryVersions = {}
    BY <1>3 DEF SearchOn
  <2>3. CASE \E t \in Transitions : Apply(c.surface, Asking(c, <<>>), t)
    BY <1>1, <2>1, <2>3, TryApplied
  <2>4. CASE Reject(c.surface, Asking(c, <<>>))
    <3>1. pending' = ToTry \ {c}
      BY <1>1, <2>1, <2>4 DEF Reject, Asking
    <3> QED BY <1>1, <2>1, <2>2, <2>4, <3>1, TryRefused
  <2> QED BY <1>2, <2>1, <2>3, <2>4
<1>4. CASE SearchAgain
  <2>1. PICK c \in last, v \in retryVersions :
            Invoke(c.surface, Asking(c, v)) /\ Learn(c, Asking(c, v))
    BY <1>4 DEF SearchAgain
  <2>2. PICK t \in Transitions : Hope(c, t) /\ v = ExpectedVersions(t)
    <3>1. Hopeful
      BY <1>1, <2>1 DEF Underway, Idle
    <3> QED BY <2>1, <3>1 DEF Hopeful
  <2>3. VersionsCurrent(Asking(c, v), t)
    <3>1. PreconditionsHold(t)
      BY <2>2 DEF Hope, Named, ActiveTransitions
    <3>2. Asking(c, v).versions = ExpectedVersions(t)
      BY <2>2 DEF Asking
    <3> QED BY <3>1, <3>2 DEF VersionsCurrent, PreconditionsHold, ExpectedVersions
  <2>4. Accepts(c.surface, Asking(c, v), t)
    BY <1>1, <2>2, <2>3, HopeAccepted DEF EInv
  <2>5. \E u \in Transitions : Apply(c.surface, Asking(c, v), u)
    BY <1>2, <2>1, <2>4 DEF Reject
  <2> QED BY <1>1, <2>1, <2>5, TryApplied
<1> QED BY <1>3, <1>4

\* The end of an episode that the search has completed, or that a policy that
\* declines has not.
LEMMA EndDelivers ==
    ASSUME RInv, PInv, NEW reason, EndEpisode(reason),
           WithinReach /\ policy = "scripted" => IsComplete,
           WithinReach /\ policy = "refuse" => ~IsComplete
    PROVE  PInv'
<1>1. phase' = "next" /\ UNCHANGED <<sealed, policy>>
      /\ outcomes' = Append(outcomes,
            [complete |-> IsComplete, stop |-> reason, turns |-> turn,
             applied |-> appliedCount, rejected |-> rejectedCount])
  BY DEF EndEpisode, vars
<1>2. WithinReach' <=> WithinReach
  BY <1>1, SameEpisode
<1>3. ~Playing("scripted")' /\ ~Playing("refuse")'
  BY <1>1 DEF Playing
<1>4. ASSUME WithinReach, NEW i \in DOMAIN outcomes'
      PROVE  /\ policy' = "scripted" => outcomes'[i].complete
             /\ policy' = "refuse" => ~outcomes'[i].complete
  <2>1. \/ i \in DOMAIN outcomes /\ outcomes'[i] = outcomes[i]
        \/ outcomes'[i].complete = IsComplete
    <3>1. outcomes \in Seq([complete : BOOLEAN, turns : Nat, applied : Nat,
                            rejected : Nat,
                            stop : {"complete", "turn_limit", "policy_error",
                                    "policy_stopped"}])
      BY DEF RInv, RunShape
    <3> QED BY <1>1, <1>4, <3>1
  <2>2. CASE i \in DOMAIN outcomes /\ outcomes'[i] = outcomes[i]
    BY <1>1, <1>4, <2>2 DEF PInv, PoliciesDeliver
  <2>3. CASE outcomes'[i].complete = IsComplete
    BY <1>1, <1>4, <2>3
  <2> QED BY <2>1, <2>2, <2>3
<1> QED BY <1>2, <1>3, <1>4 DEF PInv, PoliciesDeliver

LEMMA PolicyStep == EInv /\ RInv /\ PInv /\ [RunNext]_runVars => PInv'
<1> SUFFICES ASSUME EInv, RInv, PInv, [RunNext]_runVars PROVE PInv'
  OBVIOUS
<1>1. ASSUME UNCHANGED <<sealed, outcomes, policy>>
      PROVE  /\ WithinReach' <=> WithinReach
             /\ PoliciesDeliver' <=> PoliciesDeliver
  BY <1>1, SameEpisode DEF PoliciesDeliver
<1>2. ASSUME UNCHANGED <<vars, search, outcomes, policy>>, Spent' = Spent
      PROVE  /\ Underway => Underway'
             /\ states = episode.initial => (states = episode.initial)'
  <2>1. Transitions' = Transitions /\ Allowed' = Allowed /\ Round' = Round
        /\ Objects' = Objects /\ episode' = episode
    BY <1>2, SameEpisode DEF vars
  <2>2. Done' = Done /\ (IsComplete' <=> IsComplete) /\ (Idle' <=> Idle)
    BY <1>2, <2>1 DEF Done, IsComplete, Idle, vars, search
  <2>3. \A c, t : Hope(c, t)' <=> Hope(c, t)
    BY <1>2, <2>1
    DEF Hope, Named, ActiveTransitions, Unapplied, PreconditionsHold, vars
  <2>4. Hopeful' <=> Hopeful
    BY <1>2, <2>1, <2>3 DEF Hopeful, ExpectedVersions, search
  <2> QED BY <1>2, <2>1, <2>2, <2>4 DEF Underway, vars, search
<1>3. CASE BeginEpisode
  <2>1. /\ UNCHANGED <<sealed, outcomes, policy>> /\ turn' = 0 /\ phase' = "loop"
        /\ pending' = {} /\ retryVersions' = {} /\ done' = {}
        /\ states' = episode'.initial /\ requests' = [i \in RequestIds |-> {}]
        /\ applied' = [t \in Transitions |-> {}]
    BY <1>3 DEF BeginEpisode, NewSession, Reset, sealed
  <2>2. Transitions' = Transitions /\ Allowed' = Allowed /\ Round' = Round
    BY <2>1, SameEpisode
  <2>3. Done' = {} /\ Spent' = 0
    BY <2>1, <2>2 DEF Done, Spent
  <2>4. Cardinality(Allowed) \in Nat /\ Round \in Nat
    BY FiniteAllowed DEF EInv, Shape
  <2>5. Underway'
    BY <2>1, <2>2, <2>3, <2>4, FS_EmptySet DEF Underway, Idle
  <2> QED BY <1>1, <2>1, <2>5 DEF PInv
<1>4. CASE NextTurn
  <2>1. UNCHANGED <<vars, search, outcomes, policy>> /\ phase = "loop" /\ phase' = "ask"
        /\ turn' = turn + 1 /\ turn \in Nat
    BY <1>4 DEF NextTurn, RInv, RunShape
  <2>2. Spent' = Spent
    BY <2>1 DEF Spent
  <2>3. UNCHANGED sealed
    BY <2>1 DEF vars
  <2> QED BY <1>1, <1>2, <2>1, <2>2, <2>3 DEF PInv, Playing
<1>5. ASSUME phase \in {"loop", "ask"}, WithinReach, policy = "refuse"
      PROVE  ~IsComplete
  BY <1>5 DEF PInv, Playing, WithinReach, IsComplete, Objects
<1>6. CASE StopComplete
  <2>1. policy = "refuse" => ~WithinReach
    BY <1>5, <1>6 DEF StopComplete
  <2> QED BY <1>6, <2>1, EndDelivers DEF StopComplete
<1>7. ASSUME OutOfTurns, WithinReach, policy = "scripted" PROVE IsComplete
  <2> DEFINE D == Cardinality(Done)
             T == Cardinality(Transitions)
  <2> SUFFICES ASSUME ~IsComplete PROVE FALSE
    OBVIOUS
  <2>1. Underway /\ Playable /\ T * Round <= turn /\ Spent = turn /\ turn \in Nat
    <3>1. turn = Limit /\ phase = "loop"
      BY <1>7 DEF OutOfTurns
    <3>2. turn \in Nat
      BY DEF RInv, RunShape
    <3>3. Round \in Nat /\ T \in Nat
      BY FiniteAllowed, DoneFacts DEF EInv, Shape
    <3> QED BY <1>7, <3>1, <3>2, <3>3 DEF PInv, Playing, WithinReach, Spent
  <2>2. Done # Transitions
    <3>1. PICK t \in Transitions : Acceptable(t)
      BY <2>1, SomethingToDo
    <3>2. t \in Named(t.surface, t.action)
      BY <3>1 DEF Acceptable
    <3> QED BY <3>2 DEF Named, ActiveTransitions, Unapplied, Done
  <2>3. D \in Nat /\ T \in Nat /\ D + 1 <= T
    BY <2>2, DoneFacts
  <2>4. Round \in Nat /\ Round = Cardinality(Allowed) + 1 /\ Cardinality(Allowed) \in Nat
    BY FiniteAllowed DEF EInv, Shape, Round
  <2>5. D * Round + Round <= T * Round /\ D * Round \in Nat /\ T * Round \in Nat
    BY <2>3, <2>4, RoundsMore
  <2>6. Cardinality(pending) \in Nat
    <3>1. IsFiniteSet(Allowed)
      BY FiniteAllowed DEF EInv, Shape
    <3> QED BY <2>1, <3>1, FS_Subset, FS_CardinalityType DEF Underway
  <2>7. turn + Cardinality(pending) <= D * Round + Cardinality(Allowed)
    BY <2>1 DEF Underway
  <2> HIDE DEF D, T
  <2> QED BY <2>1, <2>4, <2>5, <2>6, <2>7
<1>8. CASE OutOfTurns
  <2>1. policy = "refuse" => ~WithinReach \/ ~IsComplete
    BY <1>5, <1>8 DEF OutOfTurns
  <2>2. \E reason : EndEpisode(reason)
    BY <1>8 DEF OutOfTurns
  <2> QED BY <1>7, <1>8, <2>1, <2>2, EndDelivers
<1>9. CASE Decline
  <2>1. policy = "refuse" => ~WithinReach \/ ~IsComplete
    BY <1>5, <1>9 DEF Decline
  <2>2. ASSUME WithinReach, policy = "scripted" PROVE IsComplete
    <3>1. Underway /\ Playable /\ retryVersions = {} /\ ToTry = {}
      BY <1>9, <2>2 DEF Decline, PInv, Playing, WithinReach
    <3> QED BY <3>1, HopeToTry
  <2> QED BY <1>9, <2>1, <2>2, EndDelivers DEF Decline
<1>10. CASE SearchOn \/ SearchAgain
  <2>1. policy = "scripted" /\ phase = "ask" /\ UNCHANGED <<sealed, outcomes, policy>>
    BY <1>10 DEF SearchOn, SearchAgain, Searching, Invoke, InvokeFree, Apply,
                 Retransmitted, Reject
  <2>2. ASSUME WithinReach PROVE Underway'
    BY <1>10, <2>1, <2>2, SearchGoesOn DEF PInv, Playing, WithinReach
  <2> QED BY <1>1, <2>1, <2>2 DEF PInv, Playing
<1>11. ASSUME policy' = "chat" PROVE PInv'
  BY <1>11 DEF PInv, Playing, PoliciesDeliver
<1>12. CASE TransportFailure \/ PolicyError \/ TransientStatus \/ BrokenErrorBody \/ Propose
  BY <1>11, <1>12 DEF TransportFailure, PolicyError, TransientStatus, BrokenErrorBody,
                      Crash, Propose, Calling, EndEpisode, Invoke, NotInvoked
<1>13. CASE WriteMetrics
  <2>1. UNCHANGED <<sealed, outcomes, policy>> /\ phase' = "done"
    BY <1>13 DEF WriteMetrics, vars
  <2> QED BY <1>1, <2>1 DEF PInv, Playing
<1>14. CASE UNCHANGED runVars
  <2>1. UNCHANGED <<vars, search, outcomes, policy, phase, turn, sealed>>
    BY <1>14 DEF runVars, loop, vars
  <2>2. Spent' = Spent
    BY <2>1 DEF Spent
  <2> QED BY <1>1, <1>2, <2>1, <2>2 DEF PInv, Playing
<1> QED BY <1>3, <1>4, <1>6, <1>8, <1>9, <1>10, <1>12, <1>13, <1>14 DEF RunNext

\* The boundary search, which never sees the script and may try in any order,
\* completes every episode it has the turns for, and a policy that declines
\* completes none (free_run.py:87-113).
THEOREM PoliciesAlwaysDeliver == RunSpec => [](WithinReach => PoliciesDeliver)
<1>1. RunInit => PInv
  BY DEF RunInit, PInv, Playing, PoliciesDeliver
<1>2. PInv => (WithinReach => PoliciesDeliver)
  BY DEF PInv
<1> QED BY <1>1, <1>2, FreshEInv, RunInitInv, RunStep, PolicyStep, PTL DEF RunSpec
=============================================================================
