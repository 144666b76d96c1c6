---------------------------- MODULE MCEpisodeSession ----------------------------
(* The margin dispute of assets/episodes_v2/collateral_margin_*: an event    *)
(* without mutations, a chain on the margin call, a retransmission, a chain  *)
(* on the case, and an event that moves both at once.  Then the same with    *)
(* one thing changed: what the verifier refuses, and what it lets pass.      *)
EXTENDS EpisodeSession

At(s, v) == [state |-> s, version |-> v]
Move(from, to, v) == [from |-> At(from, v), to |-> At(to, v + 1)]

EventOf(n, day, surface, actor, mutations) ==
    [id |-> <<n>>, at |-> day, request_id |-> n, surface |-> surface,
     action |-> n, actor |-> actor, mutations |-> mutations, refs |-> {n},
     receipt |-> n, unbalanced |-> {}, duplicate_of |-> {}]

Retry(e) == [e EXCEPT !.id = <<e.action, "retry">>, !.mutations = <<>>,
                      !.duplicate_of = {e.id}]

Observe == EventOf("observe", 0, "communications", "ann", <<>>)
Separate == EventOf("separate", 1, "controls", "max",
                    [margin_call |-> Move("issued", "split", 0)])
Settle == EventOf("settle", 2, "ledger", "max",
                  [margin_call |-> Move("split", "partial", 1)])
Escalate == EventOf("escalate", 2, "cases", "ann",
                    [subject |-> Move("disputed", "escalated", 0)])
Resolve == EventOf("resolve", 7, "cases", "sue",
                   [subject |-> Move("escalated", "resolved", 1),
                    margin_call |-> Move("partial", "settled", 2)])

Challenge(d) == [supplied |-> {"settle"}, required |-> {"settle", "resolve"},
                 disposition |-> d]

Dispute ==
    [role |-> [ann |-> "analyst", max |-> "manager", sue |-> "supervisor",
               subject |-> "none", margin_call |-> "none", account |-> "none"],
     authorization |->
        [observe |-> {"analyst"}, separate |-> {"manager", "supervisor"},
         settle |-> {"manager"}, escalate |-> {"analyst"},
         resolve |-> {"supervisor"}],
     surfaces |-> {"communications", "controls", "ledger", "cases"},
     initial |-> [subject |-> At("disputed", 0), margin_call |-> At("issued", 0),
                  account |-> At("active", 0)],
     final |-> [subject |-> At("resolved", 2), margin_call |-> At("settled", 3),
                account |-> At("active", 0)],
     events |-> <<Observe, Separate, Settle, Retry(Settle), Escalate, Resolve>>,
     window |-> [start |-> 0, end |-> 7],
     challenges |-> {Challenge("REFUSE_UNSUPPORTED")}]

WithEvent(i, e) == [Dispute EXCEPT !.events[i] = e]

\* Each is refused, and for that reason.
Patched(error) ==
    CASE error = "time"     -> WithEvent(3, [Settle EXCEPT !.at = 0])
      [] error = "surface"  -> WithEvent(3, [Settle EXCEPT !.surface = "mail"])
      [] error = "actor"    -> WithEvent(3, [Settle EXCEPT !.actor = "ann"])
      [] error = "idempotency" ->
            [Dispute EXCEPT !.events[3] = Retry(Settle), !.events[4] = Settle]
      [] error = "ledger"   -> WithEvent(3, [Settle EXCEPT !.unbalanced = {"EUR"}])
      [] error = "mutation" ->
            WithEvent(3, [Settle EXCEPT !.mutations.margin_call.from.version = 0])
      [] error = "evidence" -> WithEvent(3, [Settle EXCEPT !.refs = {}])
      [] error = "final"    ->
            [Dispute EXCEPT !.final.subject = At("escalated", 1)]
      [] error = "horizon"  -> [Dispute EXCEPT !.window.end = 6]
      [] error = "coverage" ->
            [Dispute EXCEPT !.final = [account |-> At("active", 0)]]
      [] error = "event_ids" -> WithEvent(5, [Escalate EXCEPT !.id = Settle.id])
      [] error = "receipts" -> WithEvent(5, [Escalate EXCEPT !.receipt = "settle"])
      [] error = "challenges" ->
            [Dispute EXCEPT !.challenges = {Challenge("SUPPORTED")}]
      [] error = "surfaces" -> [Dispute EXCEPT !.surfaces = {"mail"}]

Errors == {"time", "surface", "actor", "idempotency", "ledger", "mutation",
           "evidence", "final", "horizon", "coverage", "event_ids", "receipts",
           "challenges", "surfaces"}

Patches == {[patched |-> Patched(error), error |-> error] : error \in Errors}

\* The call is issued a second time before it is settled.
Circular ==
    [Dispute EXCEPT !.events[3].mutations.margin_call.to.state = "issued",
                    !.events[6].mutations.margin_call.from.state = "issued"]

\* Accepted though a session gets stuck in them: an event that is its own
\* retransmission, one on a surface that is not enabled, two steps of one name.
Unplayable ==
    {WithEvent(1, [Observe EXCEPT !.duplicate_of = {Observe.id}]),
     WithEvent(3, [Settle EXCEPT !.surface = "reference"]),
     WithEvent(1, [Observe EXCEPT !.surface = "cases", !.action = "escalate"])}

\* The last brings a patch that would not be refused.
MCCandidates ==
    {[episode |-> Dispute, patches |-> Patches]}
    \union {[episode |-> ep, patches |-> {}] :
                ep \in {Circular} \union Unplayable
                      \union {Patched(error) : error \in Errors}}
    \union {[episode |-> [Dispute EXCEPT !.window.start = -1],
             patches |-> {[patched |-> Circular, error |-> "mutation"]}]}

MCIds == {"observe", "separate", "settle", "escalate", "resolve", "spare"}

Exact(e) == [o \in DOMAIN e.mutations |-> e.mutations[o].from.version]

\* Versions a caller asserts for an event: those it needs, those and another
\* object's, those of the initial state, none.
Asserted(e) ==
    LET needed == DOMAIN e.mutations
    IN  {Exact(e), [o \in needed \union {"account"} |->
                       IF o \in needed THEN Exact(e)[o] ELSE 0],
         [o \in needed |-> 0], <<>>}

Sent(e, id, actor, versions, refs) ==
    [id |-> id, actor |-> actor, action |-> e.action, versions |-> versions,
     refs |-> refs]

MCRequests ==
    UNION {{Sent(e, e.request_id, e.actor, v, e.refs) : v \in Asserted(e)}
           \union {Sent(e, "spare", a, Exact(e), e.refs) : a \in {e.actor, "ann"}}
           \union {Sent(e, e.request_id, e.actor, Exact(e), {"unknown"})} :
               e \in {Observe, Separate, Settle, Escalate, Resolve}}
    \union {Sent(Resolve, "spare", "nobody", <<>>, {"resolve"})}
=============================================================================
