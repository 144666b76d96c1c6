------------------------------ MODULE MCArmRunner ------------------------------
(* The shape of assets/episodes/collateral_margin_*: an observation without *)
(* mutations, a step that moves two objects, one that moves one of them on. *)
EXTENDS ArmRunner

At(s, v) == [state |-> s, version |-> v]
Move(from, to, v) == [from |-> At(from, v), to |-> At(to, v + 1)]

EventOf(n, day, actor, action, mutations) ==
    [id |-> n, at |-> day, request_id |-> n, surface |-> "cases",
     action |-> action, actor |-> actor, mutations |-> mutations,
     refs |-> {"x"}, receipt |-> n, unbalanced |-> {}, duplicate_of |-> {}]

MCEpisode ==
    [role |-> [analyst |-> "analyst", supervisor |-> "supervisor",
               subject |-> "none", case |-> "none"],
     authorization |-> [observe |-> {"analyst"}, prepare |-> {"analyst"},
                        approve |-> {"supervisor"}],
     surfaces |-> {"cases"},
     initial |-> [subject |-> At("observed", 0), case |-> At("open", 0)],
     final |-> [subject |-> At("approved", 2), case |-> At("investigating", 1)],
     events |->
        <<EventOf(1, 0, "analyst", "observe", <<>>),
          EventOf(2, 1, "analyst", "prepare",
                  [subject |-> Move("observed", "prepared", 0),
                   case |-> Move("open", "investigating", 0)]),
          EventOf(3, 7, "supervisor", "approve",
                  [subject |-> Move("prepared", "approved", 1)])>>,
     window |-> [start |-> 0, end |-> 7], challenges |-> {}]

Answer(action, execute, refs) ==
    [action |-> action, execute |-> execute, refs |-> refs]

\* The right answer to each event, and one wrong in each way.
MCResponses ==
    {Answer(a, TRUE, {"x"}) : a \in DOMAIN MCEpisode.authorization}
    \union {Answer("prepare", FALSE, {"x"}), Answer("prepare", TRUE, {"y"})}
=============================================================================
