------------------------------- MODULE MCFreeRun -------------------------------
(* An observation without mutations, a settlement two roles may make, and a *)
(* resolution that moves two objects; two such episodes in a run.           *)
EXTENDS FreeRun

At(s, v) == [state |-> s, version |-> v]
Move(from, to, v) == [from |-> At(from, v), to |-> At(to, v + 1)]

EventOf(n, day, surface, action, actor, mutations) ==
    [id |-> action, at |-> day, request_id |-> n, surface |-> surface,
     action |-> action, actor |-> actor, mutations |-> mutations,
     refs |-> {action}, receipt |-> action, unbalanced |-> {},
     duplicate_of |-> {}]

Resolution ==
    [role |-> [analyst |-> "analyst", manager |-> "manager", call |-> "none",
               subject |-> "none"],
     authorization |-> [observe |-> {"analyst"}, settle |-> {"analyst", "manager"},
                        resolve |-> {"manager"}],
     surfaces |-> {"communications", "ledger", "cases"},
     initial |-> [subject |-> At("disputed", 0), call |-> At("issued", 0)],
     final |-> [subject |-> At("resolved", 1), call |-> At("closed", 2)],
     events |->
        <<EventOf(8, 0, "communications", "observe", "analyst", <<>>),
          EventOf(9, 1, "ledger", "settle", "manager",
                  [call |-> Move("issued", "settled", 0)]),
          EventOf(10, 7, "cases", "resolve", "manager",
                  [subject |-> Move("disputed", "resolved", 0),
                   call |-> Move("settled", "closed", 1)])>>,
     window |-> [start |-> 0, end |-> 7], challenges |-> {}]

MCCandidates == {[episode |-> Resolution, patches |-> {}]}

\* Seven turns are the least in which the search completes in any order.
MCTurnLimit == [scripted |-> 7, chat |-> 3, refuse |-> 2]

\* The search numbers its requests from 1; those of the script come after.
MCIds == 1..10

\* What a model may send: each request as it should be, one with a stale
\* version, and one under the identifier of another.
Sent(i, id, versions) ==
    LET e == Resolution.events[i]
    IN  [id |-> id, actor |-> e.actor, action |-> e.action,
         versions |-> versions, refs |-> e.refs]

MCRequests ==
    {Sent(1, 1, <<>>), Sent(2, 2, [call |-> 0]),
     Sent(3, 3, [subject |-> 0, call |-> 1]),
     Sent(3, 3, [subject |-> 0, call |-> 0]), Sent(2, 1, [call |-> 0])}
=============================================================================
