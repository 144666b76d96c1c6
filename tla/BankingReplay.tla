---------------------------- MODULE BankingReplay ----------------------------
(***************************************************************************)
(* banking_v3/evaluate.py: the reference rollout of a case, its single-    *)
(* fault variants (attacks), and replay() of either against a fresh        *)
(* environment.  Requests may also be delivered again after they were sent *)
(* (test_environment.py retransmits them): step() must absorb that.        *)
(***************************************************************************)
EXTENDS BankingEnv

CONSTANTS AttackNames   \* the names attacks() gives, "none", nothing else

VARIABLES
    attack,     \* which variant is replayed
    script,     \* the list of requests
    sent        \* how many of them step() has answered

rvars == <<vars, attack, script, sent>>

Reading(d) == [tool |-> "read_document", document |-> d]
Inspecting == [tool |-> "inspect"]

\* send(): the version observed, and a key made from the position.
Sending(tool, v, position, body) ==
    [tool |-> tool, version |-> v, request_id |-> position, body |-> body]

ReferenceJudgement(c) ==
    [policy |-> Authoritative("policy"), value |-> c.target,
     diagnosis |-> Gold(c).diagnosis, route |-> Gold(c).route,
     citations |-> Evidence]

ReferenceOutcome(c) ==
    CASE Gold(c).route = "escalate" ->
             Sending("escalate", 1, 4, [owner |-> GoldOwner,
                                        reason |-> "missing_evidence"])
      [] Gold(c).route = "approve" ->
             Sending("execute", 2, 5, [operation |-> GoldOperation])
      [] OTHER -> Sending("execute", 1, 4, [operation |-> GoldOperation])

ReferenceClose(c) ==
    LET outcome == ReferenceOutcome(c)
    IN  Sending("close", outcome.version + 1, outcome.request_id + 2,
                [receipt_id |-> outcome,
                 status |-> IF Gold(c).route = "escalate" THEN "handed_off"
                            ELSE "resolved"])

Opening(c) ==
    <<Reading(Authoritative("policy")), Reading(Authoritative("record")),
      Reading(Authoritative("control")),
      Sending("assess", 0, 3, ReferenceJudgement(c))>>

ReferenceScriptUnapproved(c) ==  \* a slip: the approval step is forgotten
    Opening(c) \o <<ReferenceOutcome(c), Inspecting, ReferenceClose(c)>>

ReferenceScript(c) ==
    Opening(c)
    \o (IF Gold(c).route = "approve"
        THEN <<Sending("request_approval", 1, 4, [tool |-> "request_approval"])>>
        ELSE <<>>)
    \o <<ReferenceOutcome(c), Inspecting, ReferenceClose(c)>>

-----------------------------------------------------------------------------
(* attacks(): the first request of a tool is altered, or a tool is omitted *)
Has(requests_, tool) == \E i \in DOMAIN requests_ : requests_[i].tool = tool

Omitted(requests_, tool) ==
    LET kept[n \in 0..Len(requests_)] ==
            IF n = 0 THEN <<>>
            ELSE IF requests_[n].tool = tool THEN kept[n - 1]
            ELSE Append(kept[n - 1], requests_[n])
    IN  kept[Len(requests_)]

OmittedTool ==
    [omit_read_document |-> "read_document", omit_inspect |-> "inspect",
     omit_close |-> "close", omit_request_approval |-> "request_approval"]

AlteredTool ==
    [wrong_calculation |-> "assess", wrong_diagnosis |-> "assess",
     wrong_route |-> "assess", wrong_policy |-> "assess",
     missing_citations |-> "assess", fabricated_citation |-> "assess",
     stale_version |-> "assess", wrong_closure |-> "close",
     fabricated_receipt |-> "close", wrong_escalation_owner |-> "escalate",
     wrong_operation |-> "execute"]

Fault(name, r) ==
    CASE name = "wrong_calculation" -> [r EXCEPT !.body.value = @ + 1]
      [] name = "wrong_diagnosis" ->
             [r EXCEPT !.body.diagnosis = IF @ # "missing_evidence"
                                          THEN "missing_evidence"
                                          ELSE "within_authority"]
      [] name = "wrong_route" ->
             [r EXCEPT !.body.route = IF @ # "execute" THEN "execute"
                                      ELSE "escalate"]
      [] name = "wrong_policy" -> [r EXCEPT !.body.policy = "nonexistent"]
      [] name = "missing_citations" -> [r EXCEPT !.body.citations = {}]
      [] name = "fabricated_citation" ->
             [r EXCEPT !.body.citations = {"nonexistent"}]
      [] name = "wrong_closure" ->
             [r EXCEPT !.body.status = IF @ # "resolved" THEN "resolved"
                                       ELSE "handed_off"]
      [] name = "fabricated_receipt" -> [r EXCEPT !.body.receipt_id = Fabricated]
      [] name = "stale_version" -> [r EXCEPT !.version = -1]
      [] name = "wrong_escalation_owner" -> [r EXCEPT !.body.owner = "wrong_queue"]
      [] name = "wrong_operation" -> [r EXCEPT !.body.operation = "unsupported"]

Attacked(name, s) ==
    CASE name = "none" -> s
      [] name \in DOMAIN OmittedTool -> Omitted(s, OmittedTool[name])
      [] name \in DOMAIN AlteredTool ->
             [i \in DOMAIN s |-> IF s[i].tool = AlteredTool[name]
                                 THEN Fault(name, s[i]) ELSE s[i]]

\* Not every case has every variant.
Applicable(name, s) ==
    /\ name = "omit_request_approval" => Has(s, "request_approval")
    /\ name = "wrong_escalation_owner" => Has(s, "escalate")
    /\ name = "wrong_operation" => ~Has(s, "escalate")

\* Any key will do, and send() makes it from the position.
ASSUME PositionsAssumption == 3..7 \subseteq RequestIds

\* The variants are those of attacks(), and what they put in place of a
\* document, an operation, an owner or a receipt is none that the case has.
ASSUME AttacksAssumption ==
    /\ AttackNames \subseteq {"none"} \union DOMAIN OmittedTool
                                      \union DOMAIN AlteredTool
    /\ "nonexistent" \notin Docs
    /\ GoldOperation # "unsupported" /\ GoldOwner # "wrong_queue"
    /\ \A c \in Cases : Fabricated # ReferenceOutcome(c)

-----------------------------------------------------------------------------
ReplayInit ==
    /\ Init
    /\ attack \in AttackNames
    /\ Applicable(attack, ReferenceScript(case))
    /\ script = Attacked(attack, ReferenceScript(case))
    /\ sent = 0

Step(r) ==
    \/ r.tool = "read_document" /\ ReadDocument(r.document)
    \/ r.tool = "inspect" /\ Inspect
    \/ r.tool = "assess" /\ Assess(r)
    \/ r.tool = "request_approval" /\ RequestApproval(r)
    \/ r.tool = "execute" /\ Execute(r)
    \/ r.tool = "escalate" /\ Escalate(r)
    \/ r.tool = "close" /\ Close(r)

Send ==
    /\ sent < Len(script)
    /\ Step(script[sent + 1])
    /\ sent' = sent + 1
    /\ UNCHANGED <<attack, script>>

\* A caller without an answer calls again, as the ledger of requests allows for
\* (environment.py:88-94) and test_close_retransmission_is_idempotent does.
Retransmit ==
    /\ \E i \in 1..sent : Step(script[i])
    /\ UNCHANGED <<attack, script, sent>>

ReplayNext == Send \/ Retransmit

ReplaySpec == ReplayInit /\ [][ReplayNext]_rvars /\ WF_rvars(Send)

-----------------------------------------------------------------------------
\* validate_dataset: no single-fault variant of the reference trajectory ever
\* grades as complete, retransmissions included (evaluate.py:91-96).
AttackNeverCompletes == attack # "none" => ~Complete

\* Every request of the reference, and every retransmission, is answered ok, or
\* send() would raise (evaluate.py:24); the last one leaves the case complete.
ReferenceAnswered == [][attack = "none" => reply'.ok]_rvars
ReferenceSolved == attack = "none" /\ sent = Len(script) => Complete

\* Every case is solvable by its reference, and stays solved (evaluate.py:88),
\* without a request refused.
ReferenceCompletes ==
    /\ attack = "none" => <>[]Complete
    /\ ReferenceAnswered
=============================================================================
