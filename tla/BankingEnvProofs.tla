--------------------------- MODULE BankingEnvProofs ---------------------------
(***************************************************************************)
(* Theorems about BankingEnv for every set of cases, documents,            *)
(* judgements and keys, and about the replay of its reference rollouts and *)
(* their variants.                                                         *)
(***************************************************************************)
EXTENDS BankingReplay, WellFoundedInduction, TLAPS

\* A step that changes nothing but the reply.
Quiet == UNCHANGED <<case, read, requests, inspected, state, safety>>

Violations == {"unauthorized_execution_attempt", "wrong_operation_attempt"}

\* A step that at most adds a violation.
Denied ==
    /\ Open /\ ~Closed
    /\ \E v \in Violations : safety' = safety \union {v}
    /\ UNCHANGED <<case, read, requests, inspected, state>>

AssessRequests == Request("assess", Judgements)
ApprovalRequests == Request("request_approval", ApprovalBodies)
ExecuteRequests == Request("execute", ExecuteBodies)
EscalateRequests == Request("escalate", EscalateBodies)
KnownCloses == Request("close", [receipt_id : KnownReceipts,
                                 status : Statuses \union {"other"}])

\* Whatever the agent sends, a step is one of nine: every refusal and every
\* replay leaves all but the reply alone (environment.py:80-99).
LEMMA StepCases ==
    ASSUME [Next]_vars
    PROVE  \/ Quiet
           \/ Denied
           \/ \E d \in Docs : ReadDocument(d)
           \/ Inspect
           \/ \E r \in AssessRequests : AssessRecorded(r)
           \/ \E r \in ApprovalRequests : ApprovalGranted(r)
           \/ \E r \in ExecuteRequests : Executed(r)
           \/ \E r \in EscalateRequests : Escalated(r)
           \/ \E r \in KnownCloses : CloseAccepted(r)
<1> USE DEF Refuse, Quiet
<1>s. ASSUME NEW r, Screened(r) PROVE Quiet
  BY <1>s DEF Screened, Replay, Conflict, LateRequest, StaleRequest
<1>1. CASE UNCHANGED vars
  BY <1>1 DEF vars
<1>2. CASE \E d \in Docs : ReadDocument(d)
  BY <1>2
<1>3. CASE Inspect
  BY <1>3
<1>4. ASSUME NEW r \in AssessRequests, Assess(r)
      PROVE  Quiet \/ AssessRecorded(r)
  BY <1>4, <1>s DEF Assess, AssessLocked, AssessUncited
<1>5. ASSUME NEW r \in ApprovalRequests, RequestApproval(r)
      PROVE  Quiet \/ ApprovalGranted(r)
  BY <1>5, <1>s DEF RequestApproval, ApprovalUndue, ApprovalWithheld
<1>6. ASSUME NEW r \in ExecuteRequests, Execute(r)
      PROVE  Quiet \/ Denied \/ Executed(r)
  <2>1. CASE Screened(r) BY <2>1, <1>s
  <2>2. CASE ExecuteEarly(r) BY <2>2 DEF ExecuteEarly
  <2>3. CASE ExecuteDenied(r)
    BY <2>3 DEF ExecuteDenied, Breach, Denied, Violations, Fresh,
                 Actionable
  <2>4. CASE ExecuteWrong(r)
    BY <2>4 DEF ExecuteWrong, Breach, Denied, Violations, Fresh,
                 Actionable
  <2> QED BY <1>6, <2>1, <2>2, <2>3, <2>4 DEF Execute
<1>7. ASSUME NEW r \in EscalateRequests, Escalate(r)
      PROVE  Quiet \/ Escalated(r)
  BY <1>7, <1>s DEF Escalate, EscalateUndue
<1>8. ASSUME NEW r \in KnownCloses, Close(r)
      PROVE  Quiet \/ CloseAccepted(r)
  BY <1>8, <1>s DEF Close, CloseUnverified
<1> QED
  BY <1>1, <1>2, <1>3, <1>4, <1>5, <1>6, <1>7, <1>8
  DEF Next, AssessRequests, ApprovalRequests, ExecuteRequests,
      EscalateRequests, KnownCloses

-----------------------------------------------------------------------------
(***************************************************************************)
(* Type correctness                                                        *)
(***************************************************************************)

\* Accepting a request keeps the idempotency table well formed.
LEMMA AcceptKeepsTable ==
    ASSUME TypeOK, NEW r \in Requests, Fresh(r), Accept(r)
    PROVE  /\ DOMAIN requests' = RequestIds
           /\ \A k \in RequestIds :
               /\ AtMostOne(requests'[k])
               /\ \A e \in requests'[k] :
                   /\ e = [request |-> e.request, version |-> e.version]
                   /\ e.request \in Requests /\ e.request.request_id = k
                   /\ e.version \in Nat
           /\ version' \in Nat
           /\ read' = read /\ case' = case /\ inspected' = inspected
<1>1. r.request_id \in RequestIds
  BY DEF Requests, Request, OutcomeIds
<1>2. /\ version' = version + 1
      /\ requests' = [requests EXCEPT
             ![r.request_id] = {[request |-> r, version |-> version + 1]}]
      /\ read' = read /\ case' = case /\ inspected' = inspected
  BY DEF Accept
<1>3. version + 1 \in Nat
  BY DEF TypeOK
<1>4. DOMAIN requests' = RequestIds
  BY <1>2 DEF TypeOK
<1>5. ASSUME NEW k \in RequestIds
      PROVE  /\ AtMostOne(requests'[k])
             /\ \A e \in requests'[k] :
                 /\ e = [request |-> e.request, version |-> e.version]
                 /\ e.request \in Requests /\ e.request.request_id = k
                 /\ e.version \in Nat
  <2>1. CASE k = r.request_id
    <3>1. requests'[k] = {[request |-> r, version |-> version + 1]}
      BY <1>2, <2>1 DEF TypeOK
    <3> QED BY <3>1, <2>1, <1>3 DEF AtMostOne
  <2>2. CASE k # r.request_id
    <3>1. requests'[k] = requests[k]
      BY <1>2, <2>2 DEF TypeOK
    <3> QED BY <3>1 DEF TypeOK
  <2> QED BY <2>1, <2>2
<1> QED BY <1>2, <1>3, <1>4, <1>5

\* The environment keeps its shape (Environment.__init__ and every step).
THEOREM TypeCorrect == Spec => []TypeOK
<1>1. Init => TypeOK
  <2> SUFFICES ASSUME Init PROVE TypeOK
    OBVIOUS
  <2>1. case \in CaseRecord /\ value \in Int
    BY CasesAssumption DEF Init, CaseRecord
  <2>2. \A k \in RequestIds : requests[k] = {}
    BY DEF Init
  <2> QED BY <2>1, <2>2 DEF Init, TypeOK, AtMostOne
<1>2. TypeOK /\ [Next]_vars => TypeOK'
  <2> SUFFICES ASSUME TypeOK, [Next]_vars PROVE TypeOK'
    OBVIOUS
  <2>0. case \in CaseRecord
    BY CasesAssumption DEF TypeOK
  <2>1. CASE Quiet
    BY <2>1 DEF Quiet, state, TypeOK
  <2>2. CASE Denied
    BY <2>2 DEF Denied, Violations, state, TypeOK
  <2>3. ASSUME NEW d \in Docs, ReadDocument(d) PROVE TypeOK'
    BY <2>3 DEF ReadDocument, state, TypeOK
  <2>4. CASE Inspect
    <3>1. \A o \in receipt : o.id \in OutcomeIds
      BY DEF TypeOK, Receipts, Tickets
    <3> QED BY <2>4, <3>1 DEF Inspect, state, TypeOK
  <2>5. ASSUME NEW r \in AssessRequests, AssessRecorded(r) PROVE TypeOK'
    <3>1. r \in Requests /\ r.body \in Judgements
      BY DEF AssessRequests, Requests, Request
    <3>2. /\ Fresh(r) /\ Accept(r) /\ assessment' = {r.body}
          /\ UNCHANGED <<status, value, approval, receipt, closure, objects,
                         journal, safety>>
      BY <2>5 DEF AssessRecorded
    <3>3. assessment' \subseteq Judgements /\ AtMostOne(assessment')
      BY <3>1, <3>2 DEF AtMostOne
    <3> QED BY <3>1, <3>2, <3>3, AcceptKeepsTable DEF TypeOK
  <2>6. ASSUME NEW r \in ApprovalRequests, ApprovalGranted(r) PROVE TypeOK'
    <3>1. r \in Requests
      BY DEF ApprovalRequests, Requests
    <3>2. /\ Fresh(r) /\ Accept(r)
          /\ approval' = {[assessment |-> a, reviewer |-> "control_reviewer"] :
                              a \in assessment}
          /\ UNCHANGED <<status, value, assessment, receipt, closure, objects,
                         journal, safety>>
      BY <2>6 DEF ApprovalGranted
    <3>3. /\ approval' \subseteq [assessment : Judgements,
                                  reviewer : {"control_reviewer"}]
          /\ AtMostOne(approval')
      BY <3>2 DEF TypeOK, AtMostOne
    <3> QED BY <3>1, <3>2, <3>3, AcceptKeepsTable DEF TypeOK
  <2>7. ASSUME NEW r \in ExecuteRequests, Executed(r) PROVE TypeOK'
    <3>1. /\ r \in Requests /\ r \in OutcomeIds
          /\ r.body.operation \in Operations
      BY DEF ExecuteRequests, Requests, OutcomeIds, Request, ExecuteBodies
    <3>2. /\ Fresh(r) /\ Accept(r) /\ status' = "executed"
          /\ UNCHANGED <<assessment, approval, closure, safety>>
      BY <2>7 DEF Executed
    <3>3. PICK a \in assessment :
              /\ value' = a.value
              /\ objects' = BusinessObjects(a.value)
              /\ journal' = Journal(a.value)
              /\ receipt' = {[id |-> r, operation |-> r.body.operation,
                              before |-> case.initial, after |-> a.value,
                              delta |-> a.value - case.initial,
                              objects |-> BusinessObjects(a.value),
                              journal |-> Journal(a.value)]}
      BY <2>7 DEF Executed
    <3>4. a.value \in Int /\ case.initial \in Int
      BY <2>0, JudgementsAssumption DEF TypeOK, JudgementRecord, CaseRecord
    <3>5. /\ objects' \subseteq [amount : Int]
          /\ journal' \in Seq(Int)
      BY <3>3, <3>4 DEF BusinessObjects, Journal
    <3>6. receipt' \subseteq Receipts /\ AtMostOne(receipt')
      <4>1. a.value - case.initial \in Int
        BY <3>4
      <4> QED
        BY <3>1, <3>3, <3>4, <3>5, <4>1 DEF Receipts, AtMostOne
    <3>7. value' \in Int
      BY <3>3, <3>4
    <3> QED BY <3>1, <3>2, <3>5, <3>6, <3>7, AcceptKeepsTable DEF TypeOK
  <2>8. ASSUME NEW r \in EscalateRequests, Escalated(r) PROVE TypeOK'
    <3>1. /\ r \in Requests /\ r \in OutcomeIds
          /\ r.body.owner \in Owners /\ r.body.reason \in Reasons
      BY DEF EscalateRequests, Requests, OutcomeIds, Request, EscalateBodies
    <3>2. /\ Fresh(r) /\ Accept(r) /\ status' = "escalated"
          /\ receipt' = {[id |-> r, owner |-> r.body.owner,
                          reason |-> r.body.reason, value |-> a.value] :
                             a \in assessment}
          /\ UNCHANGED <<value, assessment, approval, closure, objects,
                         journal, safety>>
      BY <2>8 DEF Escalated
    <3>3. \A a \in assessment : a.value \in Int
      BY JudgementsAssumption DEF TypeOK, JudgementRecord
    <3>4. receipt' \subseteq Tickets
      BY <3>1, <3>2, <3>3 DEF Tickets
    <3>5. AtMostOne(receipt')
      BY <3>2 DEF TypeOK, AtMostOne
    <3> QED BY <3>1, <3>2, <3>4, <3>5, AcceptKeepsTable DEF TypeOK
  <2>9. ASSUME NEW r \in KnownCloses, CloseAccepted(r) PROVE TypeOK'
    <3>1. KnownReceipts \subseteq OutcomeIds \union {Fabricated}
      BY DEF KnownReceipts, TypeOK, Receipts, Tickets
    <3>2. r.body \in CloseBodies
      BY <3>1 DEF KnownCloses, Request, CloseBodies
    <3>3. r \in Requests
      BY <3>2 DEF KnownCloses, Requests, Request
    <3>4. /\ Fresh(r) /\ Accept(r) /\ closure' = {r.body}
          /\ UNCHANGED <<status, value, assessment, approval, receipt,
                         objects, journal, safety>>
      BY <2>9 DEF CloseAccepted
    <3>5. closure' \subseteq CloseBodies /\ AtMostOne(closure')
      BY <3>2, <3>4 DEF AtMostOne
    <3> QED BY <3>3, <3>4, <3>5, AcceptKeepsTable DEF TypeOK
  <2> QED
    BY StepCases, <2>1, <2>2, <2>3, <2>4, <2>5, <2>6, <2>7, <2>8, <2>9
<1> QED BY <1>1, <1>2, PTL DEF Spec

-----------------------------------------------------------------------------
(***************************************************************************)
(* Outcomes and controls.  ReceiptBindsState is inductive over TypeOK;     *)
(* AuthorizedExecution needs ApprovalBindsAssessment to know whose         *)
(* judgement was approved, so the two are proved together.                 *)
(***************************************************************************)

\* A receipt tells the truth about the state (environment.py:130-148).
THEOREM ReceiptsAreTrue == Spec => []ReceiptBindsState
<1>1. Init => ReceiptBindsState
  BY DEF Init, ReceiptBindsState, Open
<1>2. TypeOK /\ ReceiptBindsState /\ [Next]_vars => ReceiptBindsState'
  <2> SUFFICES ASSUME TypeOK, ReceiptBindsState, [Next]_vars
               PROVE  ReceiptBindsState'
    OBVIOUS
  <2> USE DEF ReceiptBindsState, Open
  <2>1. CASE Quiet
    BY <2>1 DEF Quiet, state
  <2>2. CASE Denied
    BY <2>2 DEF Denied, state
  <2>3. ASSUME NEW d \in Docs, ReadDocument(d) PROVE ReceiptBindsState'
    BY <2>3 DEF ReadDocument, state
  <2>4. CASE Inspect
    BY <2>4 DEF Inspect, state
  <2>5. ASSUME NEW r \in AssessRequests, AssessRecorded(r)
        PROVE  ReceiptBindsState'
    BY <2>5 DEF AssessRecorded, Accept, AssessAllowed
  <2>6. ASSUME NEW r \in ApprovalRequests, ApprovalGranted(r)
        PROVE  ReceiptBindsState'
    BY <2>6 DEF ApprovalGranted, Accept
  <2>7. ASSUME NEW r \in ExecuteRequests, Executed(r)
        PROVE  ReceiptBindsState'
    <3>1. /\ status' = "executed" /\ assessment' = assessment
          /\ Open /\ case' = case
      BY <2>7 DEF Executed, Accept, Actionable
    <3>2. PICK a \in assessment :
              /\ value' = a.value
              /\ objects' = BusinessObjects(a.value)
              /\ journal' = Journal(a.value)
              /\ receipt' = {[id |-> r, operation |-> r.body.operation,
                              before |-> case.initial, after |-> a.value,
                              delta |-> a.value - case.initial,
                              objects |-> BusinessObjects(a.value),
                              journal |-> Journal(a.value)]}
      BY <2>7 DEF Executed
    <3>3. assessment = {a}
      BY DEF TypeOK, AtMostOne
    <3>4. \A o \in receipt' :
              /\ o.after = a.value /\ o.before = case.initial
              /\ o.delta = a.value - case.initial
              /\ o.objects = objects' /\ o.journal = journal'
      BY <3>2
    <3>5. receipt' # {}
      BY <3>2
    <3>6. {b.value : b \in assessment'} = {a.value}
      BY <3>1, <3>3
    <3> QED BY <3>1, <3>2, <3>4, <3>5, <3>6
  <2>8. ASSUME NEW r \in EscalateRequests, Escalated(r)
        PROVE  ReceiptBindsState'
    BY <2>8 DEF Escalated, Accept, Actionable
  <2>9. ASSUME NEW r \in KnownCloses, CloseAccepted(r)
        PROVE  ReceiptBindsState'
    BY <2>9 DEF CloseAccepted, Accept
  <2> QED
    BY StepCases, <2>1, <2>2, <2>3, <2>4, <2>5, <2>6, <2>7, <2>8, <2>9
<1> QED BY <1>1, <1>2, TypeCorrect, PTL DEF Spec

\* Citations once valid stay valid: _read only grows.
LEMMA CitationsStayValid ==
    ASSUME NEW a, CitesEvidence(a), read \subseteq read'
    PROVE  CitesEvidence(a)'
BY DEF CitesEvidence, CitationsValid

Controls == ApprovalBindsAssessment /\ AuthorizedExecution

LEMMA ControlsKept ==
    ASSUME TypeOK, Controls, case' = case, read \subseteq read',
           UNCHANGED <<status, assessment, approval>>
    PROVE  Controls'
BY CitationsStayValid
DEF Controls, ApprovalBindsAssessment, AuthorizedExecution, Gold

\* Whatever is sent in whatever order, money moves only under the controls of
\* environment.py:122-127, and an approval is of the judgement on file.
THEOREM ControlsHold == Spec => [](ApprovalBindsAssessment /\ AuthorizedExecution)
<1>1. Init => Controls
  BY DEF Init, Controls, ApprovalBindsAssessment, AuthorizedExecution
<1>2. TypeOK /\ Controls /\ [Next]_vars => Controls'
  <2> SUFFICES ASSUME TypeOK, Controls, [Next]_vars PROVE Controls'
    OBVIOUS
  <2>1. CASE Quiet
    BY <2>1, ControlsKept DEF Quiet, state
  <2>2. CASE Denied
    BY <2>2, ControlsKept DEF Denied, state
  <2>3. ASSUME NEW d \in Docs, ReadDocument(d) PROVE Controls'
    BY <2>3, ControlsKept DEF ReadDocument, state
  <2>4. CASE Inspect
    BY <2>4, ControlsKept DEF Inspect, state
  <2>5. ASSUME NEW r \in AssessRequests, AssessRecorded(r) PROVE Controls'
    <3>1. approval' = {} /\ status' # "executed"
      BY <2>5 DEF AssessRecorded, AssessAllowed, Open
    <3> QED
      BY <3>1 DEF Controls, ApprovalBindsAssessment, AuthorizedExecution
  <2>6. ASSUME NEW r \in ApprovalRequests, ApprovalGranted(r) PROVE Controls'
    <3>1. /\ case' = case /\ read' = read /\ assessment' = assessment
          /\ status' # "executed"
          /\ approval' = {[assessment |-> a, reviewer |-> "control_reviewer"] :
                              a \in assessment}
          /\ ReviewPasses
      BY <2>6 DEF ApprovalGranted, Accept, ApprovalDue, Open
    <3>2. \A p \in approval' : /\ assessment' = {p.assessment}
                               /\ CitesEvidence(p.assessment)
      BY <3>1 DEF ReviewPasses, TypeOK, AtMostOne
    <3>3. \A p \in approval' : CitesEvidence(p.assessment)'
      BY <3>1, <3>2, CitationsStayValid
    <3> QED
      BY <3>1, <3>2, <3>3
      DEF ReviewPasses, Gold, Controls, ApprovalBindsAssessment,
          AuthorizedExecution
  <2>7. ASSUME NEW r \in ExecuteRequests, Executed(r) PROVE Controls'
    <3>1. /\ case' = case /\ read' = read
          /\ UNCHANGED <<assessment, approval>>
          /\ ControlsPass /\ assessment # {}
      BY <2>7 DEF Executed, Accept, Actionable
    <3>2. ApprovalBindsAssessment'
      BY <3>1, CitationsStayValid
      DEF Controls, ApprovalBindsAssessment, Gold
    <3>3. PICK a \in assessment : CitesEvidence(a)
                                  /\ a.policy = Authoritative("policy")
      BY <3>1 DEF ControlsPass
    <3>4. CitesEvidence(a)'
      BY <3>1, <3>3, CitationsStayValid
    <3>5. Gold(case).route = "approve" => \E p \in approval : p.assessment = a
      BY <3>1, <3>3 DEF ControlsPass, Controls, ApprovalBindsAssessment
    <3> QED
      BY <3>1, <3>2, <3>3, <3>4, <3>5
      DEF ControlsPass, Controls, AuthorizedExecution, Gold
  <2>8. ASSUME NEW r \in EscalateRequests, Escalated(r) PROVE Controls'
    <3>1. /\ case' = case /\ read' = read /\ status' = "escalated"
          /\ UNCHANGED <<assessment, approval>>
      BY <2>8 DEF Escalated, Accept
    <3>2. ApprovalBindsAssessment'
      BY <3>1, CitationsStayValid
      DEF Controls, ApprovalBindsAssessment, Gold
    <3> QED BY <3>1, <3>2 DEF Controls, AuthorizedExecution
  <2>9. ASSUME NEW r \in KnownCloses, CloseAccepted(r) PROVE Controls'
    BY <2>9, ControlsKept DEF CloseAccepted, Accept
  <2> QED
    BY StepCases, <2>1, <2>2, <2>3, <2>4, <2>5, <2>6, <2>7, <2>8, <2>9
<1>3. Controls => ApprovalBindsAssessment /\ AuthorizedExecution
  BY DEF Controls
<1> QED BY <1>1, <1>2, <1>3, TypeCorrect, PTL DEF Spec

-----------------------------------------------------------------------------
(* The accepted requests, and what they say of the state *)
Entry(r) == [request |-> r, version |-> version + 1]

\* A fresh request that is accepted is one more entry of the ledger.
LEMMA LedgerGrows ==
    ASSUME TypeOK, NEW r \in Requests, Fresh(r), Accept(r)
    PROVE  /\ Ledger' = Ledger \union {Entry(r)}
           /\ version' = version + 1 /\ version \in Nat
           /\ r.version = version /\ closure = {}
<1>1. r.request_id \in RequestIds
  BY DEF Requests, Request, OutcomeIds
<1>2. /\ requests' = [requests EXCEPT ![r.request_id] = {Entry(r)}]
      /\ requests[r.request_id] = {}
      /\ DOMAIN requests = RequestIds
      /\ version' = version + 1 /\ version \in Nat
      /\ r.version = version /\ closure = {}
  BY DEF Accept, Entry, Fresh, Closed, TypeOK
<1>3. \A k \in RequestIds : requests'[k] =
          IF k = r.request_id THEN {Entry(r)} ELSE requests[k]
  BY <1>2 DEF TypeOK
<1>4. Ledger' = UNION {requests'[k] : k \in RequestIds}
  BY DEF Ledger
<1>5. ASSUME NEW e PROVE e \in Ledger' <=> e \in Ledger \union {Entry(r)}
  BY <1>1, <1>2, <1>3, <1>4 DEF Ledger
<1> QED BY <1>2, <1>5

\* A step accepts at most one request, and then it is one of the five.
LEMMA LedgerCases ==
    ASSUME TypeOK, [Next]_vars
    PROVE  \/ UNCHANGED <<case, Ledger, version, assessment, approval, receipt,
                          closure, status>>
           \/ \E r \in AssessRequests : AssessRecorded(r)
           \/ \E r \in ApprovalRequests : ApprovalGranted(r)
           \/ \E r \in ExecuteRequests : Executed(r)
           \/ \E r \in EscalateRequests : Escalated(r)
           \/ \E r \in KnownCloses : CloseAccepted(r)
BY StepCases
DEF Quiet, Denied, ReadDocument, Inspect, state, Ledger

LEMMA AcceptedAreRequests ==
    ASSUME TypeOK
    PROVE  /\ AssessRequests \subseteq Requests
           /\ ApprovalRequests \subseteq Requests
           /\ ExecuteRequests \subseteq OutcomeIds
           /\ EscalateRequests \subseteq OutcomeIds
           /\ OutcomeIds \subseteq Requests
           /\ KnownCloses \subseteq Requests
<1>1. KnownReceipts \subseteq OutcomeIds \union {Fabricated}
  BY DEF KnownReceipts, TypeOK, Receipts, Tickets
<1>2. KnownCloses \subseteq Requests
  BY <1>1 DEF KnownCloses, Requests, Request, CloseBodies
<1> QED
  BY <1>2 DEF AssessRequests, ApprovalRequests, ExecuteRequests,
              EscalateRequests, Requests, OutcomeIds

\* The tool of an accepted request, by the action that accepted it.
LEMMA ToolOfRequest ==
    /\ \A r \in AssessRequests : r.tool = "assess" /\ r.body \in Judgements
    /\ \A r \in ApprovalRequests : r.tool = "request_approval"
    /\ \A r \in ExecuteRequests : r.tool = "execute"
    /\ \A r \in EscalateRequests : r.tool = "escalate"
    /\ \A r \in KnownCloses : r.tool = "close"
BY DEF AssessRequests, ApprovalRequests, ExecuteRequests, EscalateRequests,
       KnownCloses, Request

\* What an accepting step does, whichever of the five it is.
LEMMA AcceptingStep ==
    ASSUME TypeOK, NEW r,
           \/ r \in AssessRequests /\ AssessRecorded(r)
           \/ r \in ApprovalRequests /\ ApprovalGranted(r)
           \/ r \in ExecuteRequests /\ Executed(r)
           \/ r \in EscalateRequests /\ Escalated(r)
           \/ r \in KnownCloses /\ CloseAccepted(r)
    PROVE  /\ r \in Requests
           /\ Ledger' = Ledger \union {Entry(r)}
           /\ version' = version + 1 /\ version \in Nat
           /\ r.version = version /\ closure = {}
<1>1. r \in Requests /\ Fresh(r) /\ Accept(r)
  BY AcceptedAreRequests
  DEF AssessRecorded, ApprovalGranted, Executed, Escalated, CloseAccepted
<1> QED BY <1>1, LedgerGrows

-----------------------------------------------------------------------------
\* The accepted requests carry the versions 1 to version, once each, and each
\* asserted the version before its own (environment.py:91-98 and :156): no
\* update is lost and none is applied twice.
THEOREM NoLostUpdate == Spec => []VersionLedger
<1>1. Init => VersionLedger
  <2> SUFFICES ASSUME Init PROVE VersionLedger
    OBVIOUS
  <2>1. Ledger = {} /\ version = 0
    BY DEF Init, Ledger
  <2> QED BY <2>1 DEF VersionLedger
<1>2. TypeOK /\ VersionLedger /\ [Next]_vars => VersionLedger'
  <2> SUFFICES ASSUME TypeOK, VersionLedger, [Next]_vars
               PROVE  VersionLedger'
    OBVIOUS
  <2>1. CASE UNCHANGED <<case, Ledger, version, assessment, approval, receipt,
                         closure, status>>
    BY <2>1 DEF VersionLedger
  <2>2. ASSUME NEW r, Ledger' = Ledger \union {Entry(r)},
               version' = version + 1, version \in Nat, r.version = version
        PROVE  VersionLedger'
    <3>1. Entry(r).version = version + 1 /\ Entry(r).request.version = version
      BY <2>2 DEF Entry
    <3>2. \A e \in Ledger : e.version \in 1..version
      BY DEF VersionLedger
    <3>3. \A e \in Ledger' : e.version \in 1..version'
                             /\ e.version = e.request.version + 1
      BY <2>2, <3>1, <3>2 DEF VersionLedger
    <3>4. \A n \in 1..version' : \E e \in Ledger' : e.version = n
      <4> SUFFICES ASSUME NEW n \in 1..version'
                   PROVE  \E e \in Ledger' : e.version = n
        OBVIOUS
      <4>1. CASE n \in 1..version
        BY <4>1, <2>2 DEF VersionLedger
      <4>2. CASE n = version + 1
        BY <4>2, <2>2, <3>1
      <4> QED BY <2>2, <4>1, <4>2
    <3>5. \A e, f \in Ledger' : e.version = f.version => e = f
      <4>1. \A e \in Ledger : e.version # version + 1
        BY <3>2, <2>2
      <4> QED BY <4>1, <2>2, <3>1 DEF VersionLedger
    <3> QED BY <3>3, <3>4, <3>5 DEF VersionLedger
  <2> QED BY LedgerCases, AcceptingStep, <2>1, <2>2
<1> QED BY <1>1, <1>2, TypeCorrect, PTL DEF Spec

-----------------------------------------------------------------------------
LEMMA AcceptedByGrows ==
    ASSUME NEW r, Ledger' = Ledger \union {Entry(r)}, NEW tool
    PROVE  /\ r.tool = tool => AcceptedBy(tool)' = AcceptedBy(tool) \union {Entry(r)}
           /\ r.tool # tool => AcceptedBy(tool)' = AcceptedBy(tool)
BY DEF AcceptedBy, Entry

LatestAssess == {f \in AcceptedBy("assess") :
                     \A g \in AcceptedBy("assess") : g.version <= f.version}

\* The parts of ExactlyOnce, by the piece of state each one is about.
OnceAssessed == assessment = {e.request.body : e \in LatestAssess}
OnceApproved == /\ (approval # {}) <=> (AcceptedBy("request_approval") # {})
                /\ AtMostOne(AcceptedBy("request_approval"))
OnceDone == /\ {o.id : o \in receipt} = {e.request : e \in Outcomes}
            /\ AtMostOne(Outcomes)
OnceClosed == /\ closure = {e.request.body : e \in AcceptedBy("close")}
              /\ AtMostOne(AcceptedBy("close"))

\* The state is what the accepted requests say, each approval, outcome and
\* closure at most once, whatever was retransmitted (environment.py:91-95).
THEOREM AppliedOnce == Spec => []ExactlyOnce
<1>1. Init => ExactlyOnce
  <2> SUFFICES ASSUME Init PROVE ExactlyOnce
    OBVIOUS
  <2>1. Ledger = {}
    BY DEF Init, Ledger
  <2> QED BY <2>1 DEF Init, ExactlyOnce, AcceptedBy, Outcomes, AtMostOne
<1>2. TypeOK /\ VersionLedger /\ ReceiptBindsState /\ ExactlyOnce /\ [Next]_vars
      => ExactlyOnce'
  <2> SUFFICES ASSUME TypeOK, VersionLedger, ReceiptBindsState, ExactlyOnce,
                      [Next]_vars
               PROVE  ExactlyOnce'
    OBVIOUS
  <2>0. OnceAssessed /\ OnceApproved /\ OnceDone /\ OnceClosed
    BY DEF ExactlyOnce, OnceAssessed, OnceApproved, OnceDone, OnceClosed,
           LatestAssess
  <2> SUFFICES OnceAssessed' /\ OnceApproved' /\ OnceDone' /\ OnceClosed'
    BY DEF ExactlyOnce, OnceAssessed, OnceApproved, OnceDone, OnceClosed,
           LatestAssess
  <2>a. \A e \in Ledger : e.version \in Nat /\ e.version <= version
    BY DEF VersionLedger
  <2>1. CASE UNCHANGED <<case, Ledger, version, assessment, approval, receipt,
                         closure, status>>
    BY <2>0, <2>1 DEF OnceAssessed, OnceApproved, OnceDone, OnceClosed,
                      LatestAssess, AcceptedBy, Outcomes
  <2>2. ASSUME NEW r \in AssessRequests, AssessRecorded(r)
        PROVE  OnceAssessed' /\ OnceApproved' /\ OnceDone' /\ OnceClosed'
    <3>1. /\ Ledger' = Ledger \union {Entry(r)} /\ version \in Nat
          /\ r.tool = "assess"
      BY <2>2, AcceptingStep, ToolOfRequest
    <3>2. /\ AcceptedBy("assess")' = AcceptedBy("assess") \union {Entry(r)}
          /\ AcceptedBy("request_approval")' = AcceptedBy("request_approval")
          /\ Outcomes' = Outcomes
          /\ AcceptedBy("close")' = AcceptedBy("close")
      BY <3>1, AcceptedByGrows DEF Outcomes
    <3>3. /\ assessment' = {r.body} /\ UNCHANGED <<approval, receipt, closure>>
      BY <2>2 DEF AssessRecorded
    <3>4. Entry(r).version = version + 1 /\ Entry(r).request = r
      BY DEF Entry
    <3>5. \A g \in AcceptedBy("assess") : g.version <= version /\ g.version \in Nat
      BY <2>a DEF AcceptedBy
    <3>6. LatestAssess' = {Entry(r)}
      <4>1. \A f \in AcceptedBy("assess")' :
                (\A g \in AcceptedBy("assess")' : g.version <= f.version)
                <=> f = Entry(r)
        BY <3>1, <3>2, <3>4, <3>5
      <4> QED BY <4>1, <3>2 DEF LatestAssess
    <3> QED
      BY <2>0, <3>2, <3>3, <3>4, <3>6
      DEF OnceAssessed, OnceApproved, OnceDone, OnceClosed
  <2>3. ASSUME NEW r \in ApprovalRequests, ApprovalGranted(r)
        PROVE  OnceAssessed' /\ OnceApproved' /\ OnceDone' /\ OnceClosed'
    <3>1. /\ Ledger' = Ledger \union {Entry(r)} /\ r.tool = "request_approval"
      BY <2>3, AcceptingStep, ToolOfRequest
    <3>2. /\ AcceptedBy("assess")' = AcceptedBy("assess")
          /\ AcceptedBy("request_approval")'
                 = AcceptedBy("request_approval") \union {Entry(r)}
          /\ Outcomes' = Outcomes
          /\ AcceptedBy("close")' = AcceptedBy("close")
      BY <3>1, AcceptedByGrows DEF Outcomes
    <3>3. /\ approval = {} /\ assessment # {}
          /\ approval' = {[assessment |-> a, reviewer |-> "control_reviewer"] :
                              a \in assessment}
          /\ UNCHANGED <<assessment, receipt, closure>>
      BY <2>3 DEF ApprovalGranted, ApprovalDue
    <3>4. approval' # {} /\ AcceptedBy("request_approval")' = {Entry(r)}
      BY <2>0, <3>2, <3>3 DEF OnceApproved
    <3> QED
      BY <2>0, <3>2, <3>3, <3>4
      DEF OnceAssessed, OnceApproved, OnceDone, OnceClosed, LatestAssess,
          AtMostOne
  <2>4. ASSUME NEW r, \/ r \in ExecuteRequests /\ Executed(r)
                      \/ r \in EscalateRequests /\ Escalated(r)
        PROVE  OnceAssessed' /\ OnceApproved' /\ OnceDone' /\ OnceClosed'
    <3>1. /\ Ledger' = Ledger \union {Entry(r)}
          /\ r.tool \in {"execute", "escalate"}
      BY <2>4, AcceptingStep, ToolOfRequest
    <3>2. /\ AcceptedBy("assess")' = AcceptedBy("assess")
          /\ AcceptedBy("request_approval")' = AcceptedBy("request_approval")
          /\ Outcomes' = Outcomes \union {Entry(r)}
          /\ AcceptedBy("close")' = AcceptedBy("close")
      BY <3>1, AcceptedByGrows DEF Outcomes
    <3>3. /\ Open /\ assessment # {}
          /\ UNCHANGED <<assessment, approval, closure>>
          /\ {o.id : o \in receipt'} = {r}
      <4>1. CASE Executed(r)
        BY <4>1 DEF Executed, Actionable
      <4>2. CASE Escalated(r)
        <5>1. /\ receipt' = {[id |-> r, owner |-> r.body.owner,
                               reason |-> r.body.reason, value |-> a.value] :
                                  a \in assessment}
              /\ assessment # {}
          BY <4>2 DEF Escalated, Actionable
        <5>2. \A o \in receipt' : o.id = r
          BY <5>1
        <5>3. receipt' # {}
          BY <5>1
        <5> QED BY <4>2, <5>1, <5>2, <5>3 DEF Escalated, Actionable
      <4> QED BY <2>4, <4>1, <4>2
    <3>4. Outcomes = {}
      <4>1. receipt = {}
        BY <3>3 DEF ReceiptBindsState
      <4> QED BY <2>0, <4>1 DEF OnceDone
    <3>5. Outcomes' = {Entry(r)} /\ Entry(r).request = r
      BY <3>2, <3>4 DEF Entry
    <3> QED
      BY <2>0, <3>2, <3>3, <3>5
      DEF OnceAssessed, OnceApproved, OnceDone, OnceClosed, LatestAssess,
          AtMostOne
  <2>5. ASSUME NEW r \in KnownCloses, CloseAccepted(r)
        PROVE  OnceAssessed' /\ OnceApproved' /\ OnceDone' /\ OnceClosed'
    <3>1. /\ Ledger' = Ledger \union {Entry(r)} /\ r.tool = "close"
          /\ closure = {}
      BY <2>5, AcceptingStep, ToolOfRequest
    <3>2. /\ AcceptedBy("assess")' = AcceptedBy("assess")
          /\ AcceptedBy("request_approval")' = AcceptedBy("request_approval")
          /\ Outcomes' = Outcomes
          /\ AcceptedBy("close")' = AcceptedBy("close") \union {Entry(r)}
      BY <3>1, AcceptedByGrows DEF Outcomes
    <3>3. /\ closure' = {r.body}
          /\ UNCHANGED <<assessment, approval, receipt>>
      BY <2>5 DEF CloseAccepted
    <3>4. AcceptedBy("close")' = {Entry(r)} /\ Entry(r).request = r
      BY <2>0, <3>1, <3>2 DEF OnceClosed, Entry
    <3> QED
      BY <2>0, <3>2, <3>3, <3>4
      DEF OnceAssessed, OnceApproved, OnceDone, OnceClosed, LatestAssess,
          AtMostOne
  <2> QED BY LedgerCases, <2>1, <2>2, <2>3, <2>4, <2>5
<1> QED
  BY <1>1, <1>2, TypeCorrect, NoLostUpdate, ReceiptsAreTrue, PTL DEF Spec

-----------------------------------------------------------------------------
(* What is final: outcomes, grades, spoiled cases; and the implementation of *)
(* CaseControl                                                              *)
\* An outcome is never revised (environment.py:102, 112, 120 and 143).
THEOREM OutcomesAreFinal == Spec => OutcomeIsFinal
<1>1. TypeOK /\ ReceiptBindsState /\ [Next]_vars
      => [receipt # {} => UNCHANGED <<status, value, assessment, approval,
                                      receipt, objects, journal>>]_vars
  <2> SUFFICES ASSUME TypeOK, ReceiptBindsState, [Next]_vars, receipt # {}
               PROVE  UNCHANGED <<status, value, assessment, approval,
                                  receipt, objects, journal>>
    OBVIOUS
  <2>1. ~Open
    BY DEF ReceiptBindsState
  <2> QED
    BY <2>1, StepCases
    DEF Quiet, Denied, ReadDocument, Inspect, state, AssessRecorded,
        AssessAllowed, ApprovalGranted, ApprovalDue, Executed, Escalated,
        Actionable, CloseAccepted
<1> QED BY <1>1, TypeCorrect, ReceiptsAreTrue, PTL DEF Spec, OutcomeIsFinal

\* A closed case names an outcome that had been inspected, and the closure is
\* the last request accepted (environment.py:96 and :151).
THEOREM ClosuresAreVerified == Spec => []ClosedAfterInspection
<1>1. Init => ClosedAfterInspection
  BY DEF Init, ClosedAfterInspection
<1>2. TypeOK /\ ExactlyOnce /\ ClosedAfterInspection /\ [Next]_vars
      => ClosedAfterInspection'
  <2> SUFFICES ASSUME TypeOK, ExactlyOnce, ClosedAfterInspection, [Next]_vars
               PROVE  ClosedAfterInspection'
    OBVIOUS
  <2>1. CASE /\ UNCHANGED <<receipt, closure, version, Ledger>>
             /\ inspected \subseteq inspected'
    BY <2>1 DEF ClosedAfterInspection, AcceptedBy
  <2>2. CASE \/ Quiet \/ Denied \/ Inspect \/ \E d \in Docs : ReadDocument(d)
    BY <2>1, <2>2 DEF Quiet, Denied, Inspect, ReadDocument, state, Ledger
  <2>3. CASE \/ \E r \in AssessRequests : AssessRecorded(r)
             \/ \E r \in ApprovalRequests : ApprovalGranted(r)
             \/ \E r \in ExecuteRequests : Executed(r)
             \/ \E r \in EscalateRequests : Escalated(r)
    <3>1. closure' = {}
      BY <2>3
      DEF AssessRecorded, ApprovalGranted, Executed, Escalated, Fresh, Closed
    <3> QED BY <3>1 DEF ClosedAfterInspection
  <2>4. ASSUME NEW r \in KnownCloses, CloseAccepted(r)
        PROVE  ClosedAfterInspection'
    <3>1. /\ Ledger' = Ledger \union {Entry(r)} /\ version' = version + 1
          /\ r.tool = "close" /\ closure = {}
      BY <2>4, AcceptingStep, ToolOfRequest
    <3>2. AcceptedBy("close")' = {Entry(r)}
      <4>1. AcceptedBy("close") = {}
        <5>1. closure = {e.request.body : e \in AcceptedBy("close")}
          BY DEF ExactlyOnce
        <5> QED BY <3>1, <5>1
      <4> QED BY <3>1, <4>1, AcceptedByGrows
    <3>3. /\ closure' = {r.body} /\ receipt' = receipt
          /\ inspected' = inspected
          /\ \E o \in receipt : o.id = r.body.receipt_id /\ o.id \in inspected
      BY <2>4 DEF CloseAccepted, Accept, Verified
    <3>4. Entry(r).version = version'
      BY <3>1 DEF Entry
    <3> QED BY <3>2, <3>3, <3>4 DEF ClosedAfterInspection
  <2> QED BY StepCases, <2>2, <2>3, <2>4
<1> QED BY <1>1, <1>2, TypeCorrect, AppliedOnce, PTL DEF Spec

\* The receipt speaks true of the state and the closure of the receipt, for as
\* long as the case lives (environment.py:130-159).
THEOREM OutcomesAreTrue == Spec => []OutcomeIsTrue
<1>1. ReceiptBindsState /\ ClosedAfterInspection => OutcomeIsTrue
  BY DEF OutcomeIsTrue
<1> QED BY <1>1, ReceiptsAreTrue, ClosuresAreVerified, PTL

-----------------------------------------------------------------------------
(***************************************************************************)
(* Grades                                                                  *)
(***************************************************************************)

\* What assess() accepted had been read, and what was read stays read.
CitationsOnFile == \A a \in assessment : CitationsValid(a)

LEMMA AssessmentsAreCited == Spec => []CitationsOnFile
<1>1. Init => CitationsOnFile
  BY DEF Init, CitationsOnFile
<1>2. CitationsOnFile /\ [Next]_vars => CitationsOnFile'
  <2> SUFFICES ASSUME CitationsOnFile, [Next]_vars PROVE CitationsOnFile'
    OBVIOUS
  <2>1. \/ assessment' = assessment /\ read \subseteq read'
        \/ \E r \in AssessRequests : AssessRecorded(r)
    BY StepCases
    DEF Quiet, Denied, Inspect, ReadDocument, state, ApprovalGranted,
        Executed, Escalated, CloseAccepted, Accept
  <2>2. CASE assessment' = assessment /\ read \subseteq read'
    BY <2>2 DEF CitationsOnFile, CitationsValid
  <2>3. ASSUME NEW r \in AssessRequests, AssessRecorded(r)
        PROVE  CitationsOnFile'
    BY <2>3 DEF AssessRecorded, Accept, CitationsOnFile, CitationsValid
  <2> QED BY <2>1, <2>2, <2>3
<1> QED BY <1>1, <1>2, PTL DEF Spec

\* For a judgement on file, correctness does not depend on what else is read.
LEMMA CorrectnessIsStable ==
    ASSUME CitationsOnFile, CitationsOnFile', assessment' = assessment,
           case' = case, NEW a \in assessment
    PROVE  JudgementCorrect(a)' <=> JudgementCorrect(a)
BY DEF CitationsOnFile, JudgementCorrect, CitesEvidence, Gold

LEMMA SpoiledIsIncomplete ==
    ASSUME TypeOK', Spoiled' PROVE ~Complete'
BY DEF TypeOK, Spoiled, Complete, AtMostOne

LEMMA SpoiledStays ==
    ASSUME TypeOK, ReceiptBindsState, ClosedAfterInspection, CitationsOnFile,
           CitationsOnFile', Spoiled, [Next]_vars
    PROVE  Spoiled'
<1>0. case' = case /\ safety \subseteq safety'
  BY StepCases
  DEF Quiet, Denied, ReadDocument, Inspect, state, AssessRecorded,
      ApprovalGranted, Executed, Escalated, CloseAccepted, Accept
<1>1. CASE safety # {}
  BY <1>0, <1>1 DEF Spoiled
<1>2. CASE receipt # {} /\ ~(/\ ApprovalOk /\ MutationOk
                             /\ \E a \in assessment : JudgementCorrect(a))
  <2>1. UNCHANGED <<status, value, assessment, approval, receipt, objects,
                    journal>>
    BY <1>2, StepCases
    DEF ReceiptBindsState, Quiet, Denied, ReadDocument, Inspect, state,
        AssessRecorded, AssessAllowed, ApprovalGranted, ApprovalDue, Executed,
        Escalated, Actionable, CloseAccepted
  <2>2. /\ ApprovalOk' <=> ApprovalOk
        /\ MutationOk' <=> MutationOk
    BY <1>0, <2>1 DEF ApprovalOk, MutationOk, Escalating, Gold
  <2> QED BY <1>0, <1>2, <2>1, <2>2, CorrectnessIsStable DEF Spoiled
<1>3. CASE approval # {} /\ ~(ApprovalOk
                              /\ \E a \in assessment : JudgementCorrect(a))
  <2>1. UNCHANGED <<assessment, approval>>
    BY <1>3, StepCases
    DEF Quiet, Denied, ReadDocument, Inspect, state, AssessRecorded,
        AssessAllowed, ApprovalGranted, ApprovalDue, Executed, Escalated,
        CloseAccepted
  <2>2. ApprovalOk' <=> ApprovalOk
    BY <1>0, <2>1 DEF ApprovalOk, Gold
  <2> QED BY <1>0, <1>3, <2>1, <2>2, CorrectnessIsStable DEF Spoiled
<1>4. CASE \E c \in closure : c.status # ExpectedClosure
  <2>1. Closed
    BY <1>4 DEF Closed
  <2>2. closure' = closure
    BY <2>1, StepCases
    DEF Quiet, Denied, ReadDocument, Inspect, state, AssessRecorded,
        ApprovalGranted, Executed, Escalated, CloseAccepted, Fresh
  <2> QED
    BY <1>0, <1>4, <2>2 DEF Spoiled, ExpectedClosure, Escalating, Gold
<1> QED BY <1>1, <1>2, <1>3, <1>4 DEF Spoiled

\* A failed control, a wrong approval or a wrong outcome is never redeemed:
\* the case stays incomplete whatever follows (environment.py:125, :192, :206).
THEOREM SpoiledForever == Spec => NoRedemption
<1>1. TypeOK /\ TypeOK' /\ ReceiptBindsState /\ ClosedAfterInspection
      /\ CitationsOnFile /\ CitationsOnFile' /\ [Next]_vars
      => [Spoiled => Spoiled' /\ ~Complete']_vars
  BY SpoiledStays, SpoiledIsIncomplete
<1> QED
  BY <1>1, TypeCorrect, ReceiptsAreTrue, ClosuresAreVerified,
     AssessmentsAreCited, PTL
  DEF Spec, NoRedemption

\* A grade of complete is final (environment.py:96: nothing is accepted, and
\* no breach recorded, once the case is closed).
THEOREM CompleteForever == Spec => GradeIsFinal
<1>1. TypeOK /\ ReceiptBindsState /\ CitationsOnFile /\ CitationsOnFile'
      /\ [Next]_vars
      => [Complete => Complete']_vars
  <2> SUFFICES ASSUME TypeOK, ReceiptBindsState, CitationsOnFile,
                      CitationsOnFile', [Next]_vars, Complete
               PROVE  Complete'
    OBVIOUS
  <2>1. Closed
    BY DEF Complete, Closed
  <2>2. /\ UNCHANGED <<case, status, value, assessment, approval, receipt,
                       closure, objects, journal, safety>>
        /\ inspected \subseteq inspected'
    BY <2>1, StepCases
    DEF Quiet, Denied, ReadDocument, Inspect, state, AssessRecorded,
        ApprovalGranted, Executed, Escalated, CloseAccepted, Fresh
  <2>3. /\ ApprovalOk' <=> ApprovalOk
        /\ MutationOk' <=> MutationOk
        /\ ExpectedClosure' = ExpectedClosure
    BY <2>2 DEF ApprovalOk, MutationOk, ExpectedClosure, Escalating, Gold
  <2> QED BY <2>2, <2>3, CorrectnessIsStable DEF Complete
<1> QED
  BY <1>1, TypeCorrect, ReceiptsAreTrue, AssessmentsAreCited, PTL
  DEF Spec, GradeIsFinal

\* What can be said of a case for good stays said, for every case and every
\* request an agent may send (environment.py:87-99, :186-214).
THEOREM VerdictsAreFinal == Spec => VerdictsStand
BY SpoiledForever, CompleteForever DEF VerdictsStand

-----------------------------------------------------------------------------
(***************************************************************************)
(* Refinement                                                              *)
(***************************************************************************)
LEMMA DemandFixed ==
    ASSUME case' = case PROVE Demand' = Demand
BY DEF Demand, Gold

LEMMA StepImplementsControl ==
    ASSUME TypeOK, ReceiptBindsState, [Next]_vars
    PROVE  [Control!CNext]_(Control!cvars)
<1>1. CASE UNCHANGED <<case, status, value, assessment, approval, closure>>
  <2>1. UNCHANGED <<Demand, Phase, {a.value : a \in assessment}, value, Closed>>
    BY <1>1, DemandFixed DEF Phase, Open, Closed
  <2> QED BY <2>1 DEF Control!cvars
<1>2. CASE \/ Quiet \/ Denied \/ Inspect \/ \E d \in Docs : ReadDocument(d)
  BY <1>1, <1>2 DEF Quiet, Denied, Inspect, ReadDocument, state
<1>3. ASSUME NEW r \in AssessRequests, AssessRecorded(r)
      PROVE  Control!Judge
  <2>1. /\ Open /\ approval = {} /\ assessment' = {r.body}
        /\ r.body \in Judgements
        /\ UNCHANGED <<case, status, value, approval, closure>>
    BY <1>3, ToolOfRequest DEF AssessRecorded, AssessAllowed, Accept
  <2>2. Phase = "judging" /\ Phase' = Phase
    BY <2>1 DEF Phase, Open
  <2>3. {a.value : a \in assessment'} = {r.body.value}
    BY <2>1
  <2>4. r.body.value \in {j.value : j \in Judgements}
    BY <2>1
  <2>5. Closed' = Closed /\ Demand' = Demand
    BY <2>1, DemandFixed DEF Closed
  <2> QED BY <2>1, <2>2, <2>3, <2>4, <2>5 DEF Control!Judge
<1>4. ASSUME NEW r \in ApprovalRequests, ApprovalGranted(r)
      PROVE  Control!Approve
  <2>1. /\ Open /\ approval = {} /\ assessment # {} /\ ReviewPasses
        /\ approval' = {[assessment |-> a, reviewer |-> "control_reviewer"] :
                            a \in assessment}
        /\ UNCHANGED <<case, status, value, assessment, closure>>
    BY <1>4 DEF ApprovalGranted, ApprovalDue, Accept
  <2>2. approval' # {}
    BY <2>1
  <2>3. Phase = "judging" /\ Phase' = "approved"
    BY <2>1, <2>2 DEF Phase, Open
  <2>4. {a.value : a \in assessment} # {}
    BY <2>1
  <2>5. Demand # "evidence"
    BY <2>1 DEF Demand, ReviewPasses, Gold
  <2>6. Closed' = Closed /\ Demand' = Demand
    BY <2>1, DemandFixed DEF Closed
  <2> QED BY <2>1, <2>3, <2>4, <2>5, <2>6 DEF Control!Approve
<1>5. ASSUME NEW r \in ExecuteRequests, Executed(r) PROVE Control!Book
  <2>1. /\ Open /\ ControlsPass /\ status' = "executed"
        /\ \E a \in assessment : value' = a.value
        /\ UNCHANGED <<case, assessment, approval, closure>>
    BY <1>5 DEF Executed, Actionable, Accept
  <2>2. {a.value : a \in assessment} = {value'}
    BY <2>1 DEF TypeOK, AtMostOne
  <2>3. Demand # "evidence" /\ (Demand = "approval" => approval # {})
    BY <2>1 DEF Demand, ControlsPass, Gold
  <2>4. Demand \in {"nothing", "approval", "evidence"}
    BY DEF Demand, Gold
  <2>5. \/ Phase = "judging" /\ Demand = "nothing"
        \/ Phase = "approved" /\ Demand # "evidence"
    BY <2>1, <2>3, <2>4 DEF Phase
  <2>6. Phase' = "executed"
    BY <2>1 DEF Phase, Open
  <2>7. Closed' = Closed /\ Demand' = Demand
    BY <2>1, DemandFixed DEF Closed
  <2> QED BY <2>1, <2>2, <2>5, <2>6, <2>7 DEF Control!Book
<1>6. ASSUME NEW r \in EscalateRequests, Escalated(r)
      PROVE  Control!HandOff
  <2>1. /\ Open /\ assessment # {} /\ status' = "escalated"
        /\ UNCHANGED <<case, value, assessment, approval, closure>>
    BY <1>6 DEF Escalated, Actionable, Accept
  <2>2. Phase \in {"judging", "approved"} /\ Phase' = "escalated"
    BY <2>1 DEF Phase, Open
  <2>3. {a.value : a \in assessment} # {}
    BY <2>1
  <2>4. Closed' = Closed /\ Demand' = Demand
    BY <2>1, DemandFixed DEF Closed
  <2> QED BY <2>1, <2>2, <2>3, <2>4 DEF Control!HandOff
<1>7. ASSUME NEW r \in KnownCloses, CloseAccepted(r) PROVE Control!Seal
  <2>1. /\ ~Closed /\ receipt # {} /\ closure' = {r.body}
        /\ UNCHANGED <<case, status, value, assessment, approval>>
    BY <1>7 DEF CloseAccepted, Fresh, Verified, Accept
  <2>2. Phase \in {"executed", "escalated"} /\ Phase' = Phase
    BY <2>1 DEF Phase, Open, ReceiptBindsState, TypeOK
  <2>3. Closed' /\ Closed' = TRUE
    BY <2>1 DEF Closed
  <2>4. Demand' = Demand
    BY <2>1, DemandFixed
  <2> QED BY <2>1, <2>2, <2>3, <2>4 DEF Control!Seal
<1> QED
  BY StepCases, <1>2, <1>3, <1>4, <1>5, <1>6, <1>7 DEF Control!CNext

\* Whatever is sent to it, the environment keeps what CaseControl promises:
\* approval before money moves, one booking, of the judged amount, and no
\* change after the seal.
THEOREM EnvironmentImplementsControl == Spec => ImplementsControl
<1>1. Init => Control!CInit
  <2> SUFFICES ASSUME Init PROVE Control!CInit
    OBVIOUS
  <2>1. Demand \in {"nothing", "approval", "evidence"}
    BY DEF Demand, Gold
  <2>2. Phase = "judging" /\ {a.value : a \in assessment} = {}
        /\ Closed = FALSE
    BY DEF Init, Phase, Open, Closed
  <2>3. value \in Int
    BY CasesAssumption DEF Init, CaseRecord
  <2> QED BY <2>1, <2>2, <2>3 DEF Control!CInit
<1>2. TypeOK /\ ReceiptBindsState /\ [Next]_vars
      => [Control!CNext]_(Control!cvars)
  BY StepImplementsControl
<1> QED
  BY <1>1, <1>2, TypeCorrect, ReceiptsAreTrue, PTL
  DEF Spec, ImplementsControl, Control!CSpec

-----------------------------------------------------------------------------
(***************************************************************************)
(* BankingReplay: no single-fault variant of the reference is graded       *)
(* complete, whatever the case, its documents and its amounts              *)
(***************************************************************************)
Less == {ss \in Nat \X Nat : ss[1] < ss[2]}

LEMMA Least ==
    ASSUME NEW T, T \subseteq Nat, T # {}
    PROVE  \E x \in T : \A y \in T : x <= y
<1>1. IsWellFoundedOn(Less, Nat)
  <2>1. OpToRel(<, Nat) = Less
    BY DEF OpToRel, Less
  <2> QED BY <2>1, NatLessThanWellFounded
<1>2. PICK x \in T : \A y \in T : ~(<<y, x>> \in Less)
  BY <1>1, WFMin
<1>3. ASSUME NEW y \in T PROVE x <= y
  <2>1. ~(<<y, x>> \in Less) /\ x \in Nat /\ y \in Nat
    BY <1>2
  <2> QED BY <2>1 DEF Less
<1> QED BY <1>3

LEMMA Induction ==
    ASSUME NEW m \in Nat, NEW N \in Nat, NEW T, m \in T,
           \A n \in m..N : n \in T /\ n < N => n + 1 \in T
    PROVE  \A n \in m..N : n \in T
<1> SUFFICES ASSUME NEW k \in m..N, k \notin T PROVE FALSE
  OBVIOUS
<1> DEFINE F == {n \in m..N : n \notin T}
<1>1. PICK n \in F : \A l \in F : n <= l
  <2>1. F \subseteq Nat /\ F # {}
    OBVIOUS
  <2> HIDE DEF F
  <2> QED BY <2>1, Least
<1>2. n \in m..N /\ n \notin T /\ n # m
  BY <1>1
<1>3. n - 1 \in m..N /\ n - 1 < N /\ (n - 1) + 1 = n /\ ~(n <= n - 1)
  BY <1>2
<1>4. n - 1 \in T
  BY <1>1, <1>3
<1> QED BY <1>2, <1>3, <1>4

\* What is left of a sequence has not the tool omitted.
LEMMA OmittedShape ==
    ASSUME NEW S, NEW s \in Seq(S), NEW tool
    PROVE  /\ Omitted(s, tool) \in Seq(S)
           /\ \A i \in 1..Len(Omitted(s, tool)) : Omitted(s, tool)[i].tool # tool
<1> DEFINE N == Len(s)
           next(f, n) == IF s[n].tool = tool THEN f[n - 1] ELSE Append(f[n - 1], s[n])
           Kept(f, n) == f = [k \in 0..n |-> IF k = 0 THEN <<>> ELSE next(f, k)]
           T == {n \in 0..N : \E f : Kept(f, n)}
           kept[n \in 0..N] ==
               IF n = 0 THEN <<>>
               ELSE IF s[n].tool = tool THEN kept[n - 1]
               ELSE Append(kept[n - 1], s[n])
<1>1. N \in Nat /\ \A n \in 1..N : s[n] \in S
  OBVIOUS
<1>2. Omitted(s, tool) = kept[N]
  BY DEF Omitted
<1>3. 0 \in T
  <2>1. Kept([k \in 0..0 |-> <<>>], 0)
    OBVIOUS
  <2>2. 0 \in 0..N
    BY <1>1
  <2> HIDE DEF Kept
  <2> QED BY <2>1, <2>2
<1>4. ASSUME NEW n \in 0..N, n \in T, n < N PROVE n + 1 \in T
  <2>1. PICK f : Kept(f, n)
    BY <1>4
  <2> DEFINE m == n + 1
             g == [k \in 0..m |-> IF k = m THEN next(f, m) ELSE f[k]]
  <2>2. m \in 1..N /\ m - 1 = n /\ n \in 0..m /\ n # m
    BY <1>1, <1>4
  <2>3. g = [k \in 0..m |-> IF k = 0 THEN <<>> ELSE next(g, k)]
    <3> SUFFICES ASSUME NEW k \in 0..m
                 PROVE  g[k] = IF k = 0 THEN <<>> ELSE next(g, k)
      OBVIOUS
    <3>1. CASE k = m
      <4>1. g[k] = next(f, m) /\ g[m - 1] = f[m - 1] /\ k # 0
        BY <2>2, <3>1
      <4> QED BY <4>1, <3>1
    <3>2. CASE k # m
      <4>1. k \in 0..n /\ (k # 0 => k - 1 \in 0..m /\ k - 1 # m)
        BY <2>2, <3>2
      <4>2. g[k] = f[k] /\ (k # 0 => g[k - 1] = f[k - 1])
        BY <3>2, <4>1
      <4>3. f[k] = IF k = 0 THEN <<>> ELSE next(f, k)
        BY <2>1, <4>1
      <4> QED BY <4>2, <4>3
    <3> QED BY <3>1, <3>2
  <2>4. Kept(g, m)
    BY <2>3
  <2> HIDE DEF Kept, g
  <2> QED BY <2>2, <2>4
<1>5. \A n \in 0..N : n \in T
  <2> HIDE DEF T
  <2> QED BY <1>1, <1>3, <1>4, Induction
<1>6. \E f : Kept(f, N)
  <2>1. N \in 0..N
    BY <1>1
  <2> HIDE DEF Kept
  <2> QED BY <1>5, <2>1
<1>7. kept = [n \in 0..N |-> IF n = 0 THEN <<>> ELSE next(kept, n)]
  BY <1>6
<1> HIDE DEF kept
<1> DEFINE Good(q) == q \in Seq(S) /\ \A i \in 1..Len(q) : q[i].tool # tool
           G == {n \in 0..N : Good(kept[n])}
<1>8. 0 \in G
  BY <1>1, <1>7
<1>9. ASSUME NEW n \in 0..N, n \in G, n < N PROVE n + 1 \in G
  <2> DEFINE m == n + 1
  <2>1. m \in 1..N /\ m - 1 = n /\ m \in 0..N /\ m # 0
    BY <1>1, <1>9
  <2>2. kept[m] = next(kept, m)
    BY <1>7, <2>1
  <2>3. Good(kept[n])
    BY <1>9
  <2>4. CASE s[m].tool = tool
    BY <2>1, <2>2, <2>3, <2>4
  <2>5. CASE s[m].tool # tool
    <3> DEFINE q == kept[n]
    <3>1. q \in Seq(S) /\ s[m] \in S /\ Len(q) \in Nat
      BY <1>1, <2>1, <2>3
    <3>2. kept[m] = Append(q, s[m])
      BY <2>1, <2>2, <2>5
    <3> HIDE DEF q, m
    <3>3. /\ Append(q, s[m]) \in Seq(S) /\ Len(Append(q, s[m])) = Len(q) + 1
          /\ \A i \in 1..Len(q) : Append(q, s[m])[i] = q[i]
          /\ Append(q, s[m])[Len(q) + 1] = s[m]
      BY <3>1
    <3>4. \A i \in 1..Len(q) : q[i].tool # tool
      BY <2>3 DEF q
    <3>5. \A i \in 1..(Len(q) + 1) : i = Len(q) + 1 \/ i \in 1..Len(q)
      BY <3>1
    <3>6. Good(kept[m])
      BY <2>5, <3>2, <3>3, <3>4, <3>5
    <3> QED BY <2>1, <3>6
  <2> QED BY <2>4, <2>5
<1>10. \A n \in 0..N : n \in G
  <2> HIDE DEF G
  <2> QED BY <1>1, <1>8, <1>9, Induction
<1>11. Good(kept[N])
  BY <1>1, <1>10
<1> QED BY <1>2, <1>11

\* The requests of a reference rollout
Expected(c) ==
    {Reading(Authoritative("policy")), Reading(Authoritative("record")),
     Reading(Authoritative("control")), Inspecting,
     Sending("assess", 0, 3, ReferenceJudgement(c)),
     Sending("request_approval", 1, 4, [tool |-> "request_approval"]),
     ReferenceOutcome(c), ReferenceClose(c)}

\* What is asked for approval or escalated says the route (evaluate.py:27-38).
LEMMA ReferenceShape ==
    ASSUME NEW c
    PROVE  /\ ReferenceScript(c) \in Seq(Expected(c))
           /\ Has(ReferenceScript(c), "request_approval") => Gold(c).route = "approve"
           /\ Has(ReferenceScript(c), "escalate") => Gold(c).route = "escalate"
<1> DEFINE asking == Sending("request_approval", 1, 4, [tool |-> "request_approval"])
           X == Expected(c)
           Y == {r \in X : (r.tool = "request_approval" => Gold(c).route = "approve")
                           /\ (r.tool = "escalate" => Gold(c).route = "escalate")}
           middle == IF Gold(c).route = "approve" THEN <<asking>> ELSE <<>>
           ending == <<ReferenceOutcome(c), Inspecting, ReferenceClose(c)>>
<1>1. /\ ReferenceOutcome(c).tool \in {"escalate", "execute"}
      /\ ReferenceOutcome(c).tool = "escalate" => Gold(c).route = "escalate"
      /\ ReferenceClose(c).tool = "close" /\ Inspecting.tool = "inspect"
  BY DEF ReferenceOutcome, ReferenceClose, Inspecting, Sending
<1>2. /\ \A d : Reading(d).tool = "read_document"
      /\ \A v, k, b : Sending("assess", v, k, b).tool = "assess"
      /\ asking.tool = "request_approval"
  BY DEF Reading, Sending
<1>3. /\ ReferenceOutcome(c) \in Y /\ Inspecting \in Y /\ ReferenceClose(c) \in Y
      /\ Gold(c).route = "approve" => asking \in Y
      /\ Sending("assess", 0, 3, ReferenceJudgement(c)) \in Y
      /\ \A k \in {"policy", "record", "control"} : Reading(Authoritative(k)) \in Y
  BY <1>1, <1>2 DEF Expected
<1> HIDE DEF Y, X, asking
<1>4. Opening(c) \in Seq(Y) /\ ending \in Seq(Y) /\ middle \in Seq(Y)
  BY <1>3 DEF Opening
<1>5. ReferenceScript(c) = Opening(c) \o middle \o ending
  BY DEF ReferenceScript, asking
<1> HIDE DEF middle, ending
<1>6. ReferenceScript(c) \in Seq(Y)
  BY <1>4, <1>5
<1>7. \A i \in DOMAIN ReferenceScript(c) : ReferenceScript(c)[i] \in Y
  BY <1>6
<1>8. Y \subseteq X
  BY DEF Y
<1>9. ReferenceScript(c) \in Seq(X)
  BY <1>6, <1>8
<1> QED BY <1>7, <1>9 DEF Has, X, Y

\* The altered requests are those of the reference but for the one tool.
LEMMA AlteredShape ==
    ASSUME NEW c, NEW name \in DOMAIN AlteredTool
    PROVE  LET s == Attacked(name, ReferenceScript(c))
           IN  /\ Len(s) \in Nat /\ DOMAIN s = 1..Len(s)
               /\ \A i \in DOMAIN s :
                    \E r \in Expected(c) :
                        /\ i \in DOMAIN ReferenceScript(c)
                        /\ r = ReferenceScript(c)[i]
                        /\ s[i] = IF r.tool = AlteredTool[name] THEN Fault(name, r) ELSE r
<1> DEFINE q == ReferenceScript(c)
           s == [i \in DOMAIN q |-> IF q[i].tool = AlteredTool[name]
                                    THEN Fault(name, q[i]) ELSE q[i]]
<1>1. q \in Seq(Expected(c))
  BY ReferenceShape
<1>2. name # "none" /\ name \notin DOMAIN OmittedTool
  BY DEF AlteredTool, OmittedTool
<1>3. Attacked(name, q) = s
  BY <1>2 DEF Attacked
<1>4. PICK n \in Nat : n = Len(q) /\ DOMAIN q = 1..n
  BY <1>1
<1>5. \A i \in 1..n : q[i] \in Expected(c)
  BY <1>1, <1>4
<1> HIDE DEF q
<1>6. DOMAIN s = 1..n /\ Len(s) = n
  BY <1>4
<1>7. \A i \in 1..n : s[i] = IF q[i].tool = AlteredTool[name]
                             THEN Fault(name, q[i]) ELSE q[i]
  BY <1>4
<1> HIDE DEF s
<1>8. \A i \in DOMAIN s :
          \E r \in Expected(c) :
              /\ i \in DOMAIN q
              /\ r = q[i]
              /\ s[i] = IF r.tool = AlteredTool[name] THEN Fault(name, r) ELSE r
  BY <1>4, <1>5, <1>6, <1>7
<1>9. Len(s) \in Nat /\ DOMAIN s = 1..Len(s)
  BY <1>4, <1>6
<1> QED BY <1>3, <1>8, <1>9 DEF q

LEMMA OmittedOf ==
    ASSUME NEW c, NEW name \in DOMAIN OmittedTool
    PROVE  LET s == Attacked(name, ReferenceScript(c))
           IN  /\ Len(s) \in Nat /\ DOMAIN s = 1..Len(s)
               /\ \A i \in DOMAIN s : s[i].tool # OmittedTool[name]
<1> DEFINE s == Omitted(ReferenceScript(c), OmittedTool[name])
<1>1. Attacked(name, ReferenceScript(c)) = s
  <2>1. name # "none" /\ name \notin DOMAIN AlteredTool
    BY DEF OmittedTool, AlteredTool
  <2> QED BY <2>1 DEF Attacked
<1>2. s \in Seq(Expected(c)) /\ \A i \in 1..Len(s) : s[i].tool # OmittedTool[name]
  BY ReferenceShape, OmittedShape
<1> HIDE DEF s
<1> QED BY <1>1, <1>2

-----------------------------------------------------------------------------
(* Whatever the state has came from a request of the script. *)
Asked == {script[i] : i \in DOMAIN script}
AskedOf(tool) == {r \in Asked : r.tool = tool}

Traced ==
    /\ case \in Cases /\ version \in Nat
    /\ attack \in AttackNames /\ Applicable(attack, ReferenceScript(case))
    /\ script = Attacked(attack, ReferenceScript(case))
    /\ sent \in Nat /\ (attack # "none" => sent <= Len(script))
    /\ read # {} => AskedOf("read_document") # {}
    /\ inspected # {} => AskedOf("inspect") # {}
    /\ approval # {} => AskedOf("request_approval") # {}
    /\ \A a \in assessment : \E r \in AskedOf("assess") : r.body = a /\ r.version \in Nat
    /\ \A o \in receipt :
          \/ \E r \in AskedOf("execute") : r.body.operation = GoldOperation /\ o.id = r
          \/ \E r \in AskedOf("escalate") : o.id = r /\ o.owner = r.body.owner
    /\ \A c \in closure : \E r \in AskedOf("close") :
          /\ r.body = c
          /\ c.receipt_id \in AskedOf("execute") \union AskedOf("escalate")

\* A step answers a request of the script.
LEMMA StepAsks ==
    ASSUME Traced, ReplayNext, attack # "none"
    PROVE  /\ \E r \in Asked : Step(r)
           /\ UNCHANGED <<attack, script>>
           /\ sent' \in Nat /\ sent' <= Len(script)
<1>1. /\ attack \in DOMAIN OmittedTool \union DOMAIN AlteredTool
      /\ script = Attacked(attack, ReferenceScript(case))
      /\ sent \in Nat /\ sent <= Len(script)
  BY AttacksAssumption DEF Traced
<1>2. Len(script) \in Nat /\ DOMAIN script = 1..Len(script)
  <2>1. CASE attack \in DOMAIN OmittedTool
    BY <1>1, <2>1, OmittedOf
  <2>2. CASE attack \in DOMAIN AlteredTool
    BY <1>1, <2>2, AlteredShape
  <2> QED BY <1>1, <2>1, <2>2
<1>3. CASE Send
  <2>1. sent + 1 \in DOMAIN script
    BY <1>1, <1>2, <1>3 DEF Send
  <2> QED BY <1>1, <1>2, <1>3, <2>1 DEF Send, Asked
<1>4. CASE Retransmit
  <2>1. \A i \in 1..sent : i \in DOMAIN script
    BY <1>1, <1>2
  <2> QED BY <1>1, <1>4, <2>1 DEF Retransmit, Asked
<1> QED BY <1>3, <1>4 DEF ReplayNext

Traces == Traced \/ attack = "none"

\* Only what is asked for happens (environment.py:68-159).
LEMMA StepTraced ==
    ASSUME Traced, NEW q \in Asked, Step(q), UNCHANGED <<attack, script>>,
           sent' \in Nat, sent' <= Len(script)
    PROVE  Traced'
<1> USE DEF Refuse, Accept, Breach, state
<1>a. Asked' = Asked /\ \A tool : AskedOf(tool)' = AskedOf(tool)
  BY DEF Asked, AskedOf
<1>b. q \in AskedOf(q.tool)
  BY DEF AskedOf
<1>c. case' = case => Applicable(attack', ReferenceScript(case'))
                      /\ script' = Attacked(attack', ReferenceScript(case'))
  BY DEF Traced
<1> HIDE DEF AskedOf, Asked
<1>q. ASSUME Quiet PROVE Traced'
  BY <1>a, <1>c, <1>q DEF Traced, Quiet
<1>s. ASSUME Screened(q) PROVE Traced'
  BY <1>s, <1>q DEF Screened, Replay, Conflict, LateRequest, StaleRequest, Quiet
<1>1. CASE q.tool = "read_document" /\ ReadDocument(q.document)
  BY <1>a, <1>b, <1>c, <1>1 DEF ReadDocument, Traced
<1>2. CASE q.tool = "inspect" /\ Inspect
  BY <1>a, <1>b, <1>c, <1>2 DEF Inspect, Traced
<1>3. CASE q.tool = "assess" /\ Assess(q)
  <2>1. CASE AssessRecorded(q)
    <3>1. q.version \in Nat /\ version' \in Nat
      BY <2>1 DEF AssessRecorded, Fresh, Traced
    <3>2. \A a \in assessment' : \E r \in AskedOf("assess") : r.body = a /\ r.version \in Nat
      BY <1>b, <1>3, <2>1, <3>1 DEF AssessRecorded
    <3> QED BY <1>a, <1>c, <2>1, <3>1, <3>2 DEF AssessRecorded, Traced
  <2>2. CASE AssessLocked(q) \/ AssessUncited(q)
    BY <2>2, <1>q DEF AssessLocked, AssessUncited, Quiet
  <2> QED BY <1>3, <1>s, <2>1, <2>2 DEF Assess
<1>4. CASE q.tool = "request_approval" /\ RequestApproval(q)
  <2>1. CASE ApprovalGranted(q)
    BY <1>a, <1>b, <1>c, <1>4, <2>1 DEF ApprovalGranted, Traced
  <2>2. CASE ApprovalUndue(q) \/ ApprovalWithheld(q)
    BY <2>2, <1>q DEF ApprovalUndue, ApprovalWithheld, Quiet
  <2> QED BY <1>4, <1>s, <2>1, <2>2 DEF RequestApproval
<1>5. CASE q.tool = "execute" /\ Execute(q)
  <2>1. CASE Executed(q)
    <3>1. q \in AskedOf("execute") /\ q.body.operation = GoldOperation
      BY <1>b, <1>5, <2>1 DEF Executed
    <3>2. \A o \in receipt' : o.id = q
      BY <2>1 DEF Executed
    <3>3. closure' = closure /\ closure' = {}
      BY <2>1 DEF Executed, Fresh, Closed
    <3>4. version' \in Nat /\ UNCHANGED <<case, read, inspected, assessment, approval>>
      BY <2>1 DEF Executed, Traced
    <3> QED BY <1>a, <1>c, <3>1, <3>2, <3>3, <3>4 DEF Traced
  <2>2. CASE ExecuteEarly(q)
    BY <2>2, <1>q DEF ExecuteEarly, Quiet
  <2>3. CASE ExecuteDenied(q) \/ ExecuteWrong(q)
    BY <1>a, <1>c, <2>3 DEF ExecuteDenied, ExecuteWrong, Traced
  <2> QED BY <1>5, <1>s, <2>1, <2>2, <2>3 DEF Execute
<1>6. CASE q.tool = "escalate" /\ Escalate(q)
  <2>1. CASE Escalated(q)
    <3>1. q \in AskedOf("escalate")
      BY <1>b, <1>6
    <3>2. \A o \in receipt' : o.id = q /\ o.owner = q.body.owner
      BY <2>1 DEF Escalated
    <3>3. closure' = closure /\ closure' = {}
      BY <2>1 DEF Escalated, Fresh, Closed
    <3>4. version' \in Nat /\ UNCHANGED <<case, read, inspected, assessment, approval>>
      BY <2>1 DEF Escalated, Traced
    <3> QED BY <1>a, <1>c, <3>1, <3>2, <3>3, <3>4 DEF Traced
  <2>2. CASE EscalateUndue(q)
    BY <2>2, <1>q DEF EscalateUndue, Quiet
  <2> QED BY <1>6, <1>s, <2>1, <2>2 DEF Escalate
<1>7. CASE q.tool = "close" /\ Close(q)
  <2>1. CASE CloseAccepted(q)
    <3>1. q \in AskedOf("close")
      BY <1>b, <1>7
    <3>2. q.body.receipt_id \in AskedOf("execute") \union AskedOf("escalate")
      BY <2>1 DEF CloseAccepted, Verified, Traced
    <3>3. version' \in Nat /\ closure' = {q.body}
          /\ UNCHANGED <<case, read, inspected, assessment, approval, receipt>>
      BY <2>1 DEF CloseAccepted, Traced
    <3> QED BY <1>a, <1>c, <3>1, <3>2, <3>3 DEF Traced
  <2>2. CASE CloseUnverified(q)
    BY <2>2, <1>q DEF CloseUnverified, Quiet
  <2> QED BY <1>7, <1>s, <2>1, <2>2 DEF Close
<1> QED BY <1>1, <1>2, <1>3, <1>4, <1>5, <1>6, <1>7 DEF Step

\* The requests of each tool that a variant may send.
LEMMA ExpectedByTool ==
    ASSUME NEW c, NEW e \in Expected(c)
    PROVE  /\ e.tool = "assess" => e = Sending("assess", 0, 3, ReferenceJudgement(c))
           /\ e.tool = "close" => e = ReferenceClose(c)
           /\ e.tool \in {"escalate", "execute"} => e = ReferenceOutcome(c)
           /\ e.tool \in {"assess", "close"} => e # ReferenceOutcome(c)
<1>1. /\ ReferenceOutcome(c).tool \in {"escalate", "execute"}
      /\ ReferenceClose(c).tool = "close" /\ Inspecting.tool = "inspect"
      /\ \A d : Reading(d).tool = "read_document"
      /\ \A v, k, b : /\ Sending("assess", v, k, b).tool = "assess"
                      /\ Sending("request_approval", v, k, b).tool = "request_approval"
  BY DEF ReferenceOutcome, ReferenceClose, Inspecting, Reading, Sending
<1> QED BY <1>1 DEF Expected

\* An altered request keeps its tool and differs as attacks() says.
LEMMA FaultShows ==
    ASSUME NEW c, NEW name \in DOMAIN AlteredTool, NEW e \in Expected(c),
           e.tool = AlteredTool[name]
    PROVE  /\ Fault(name, e).tool = e.tool
           /\ name = "wrong_calculation" => Fault(name, e).body.value = c.target + 1
           /\ name = "wrong_diagnosis" => Fault(name, e).body.diagnosis # Gold(c).diagnosis
           /\ name = "wrong_route" => Fault(name, e).body.route # Gold(c).route
           /\ name = "wrong_policy" => Fault(name, e).body.policy = "nonexistent"
           /\ name = "missing_citations" => Fault(name, e).body.citations = {}
           /\ name = "fabricated_citation" => Fault(name, e).body.citations = {"nonexistent"}
           /\ name = "stale_version" => Fault(name, e).version = -1
           /\ name = "wrong_closure" =>
                  Fault(name, e).body.status
                      # IF Gold(c).route = "escalate" THEN "handed_off" ELSE "resolved"
           /\ name = "fabricated_receipt" => Fault(name, e).body.receipt_id = Fabricated
           /\ name = "wrong_escalation_owner" => Fault(name, e).body.owner = "wrong_queue"
           /\ name = "wrong_operation" => Fault(name, e).body.operation = "unsupported"
<1> USE ExpectedByTool DEF Sending
<1>1. CASE AlteredTool[name] = "assess"
  <2>1. e = Sending("assess", 0, 3, ReferenceJudgement(c))
    BY <1>1
  <2>2. name \in {"wrong_calculation", "wrong_diagnosis", "wrong_route", "wrong_policy",
                  "missing_citations", "fabricated_citation", "stale_version"}
    BY <1>1 DEF AlteredTool
  <2>3. e.tool = "assess"
    BY <2>1
  <2> USE <2>1, <2>3
  <2>4. CASE name = "wrong_calculation"
    BY <2>4 DEF Fault, ReferenceJudgement
  <2>5. CASE name = "wrong_diagnosis"
    BY <2>5 DEF Fault, ReferenceJudgement
  <2>6. CASE name = "wrong_route"
    BY <2>6 DEF Fault, ReferenceJudgement
  <2>7. CASE name = "wrong_policy"
    BY <2>7 DEF Fault, ReferenceJudgement
  <2>8. CASE name = "missing_citations"
    BY <2>8 DEF Fault, ReferenceJudgement
  <2>9. CASE name = "fabricated_citation"
    BY <2>9 DEF Fault, ReferenceJudgement
  <2>10. CASE name = "stale_version"
    BY <2>10 DEF Fault, ReferenceJudgement
  <2> QED BY <2>2, <2>4, <2>5, <2>6, <2>7, <2>8, <2>9, <2>10
<1>2. CASE AlteredTool[name] = "close"
  <2>1. e = ReferenceClose(c) /\ e.tool = "close"
    BY <1>2
  <2>2. name \in {"wrong_closure", "fabricated_receipt"}
    BY <1>2 DEF AlteredTool
  <2>3. CASE name = "wrong_closure"
    BY <2>1, <2>3 DEF Fault, ReferenceClose
  <2>4. CASE name = "fabricated_receipt"
    BY <2>1, <2>4 DEF Fault, ReferenceClose
  <2> QED BY <2>2, <2>3, <2>4
<1>3. CASE AlteredTool[name] = "escalate"
  <2>1. e = ReferenceOutcome(c) /\ e.tool = "escalate" /\ name = "wrong_escalation_owner"
    BY <1>3 DEF AlteredTool
  <2>2. Gold(c).route = "escalate"
    BY <2>1 DEF ReferenceOutcome
  <2>3. e = Sending("escalate", 1, 4, [owner |-> GoldOwner, reason |-> "missing_evidence"])
    BY <2>1, <2>2 DEF ReferenceOutcome
  <2> QED BY <2>1, <2>3 DEF Fault
<1>4. CASE AlteredTool[name] = "execute"
  <2>1. e = ReferenceOutcome(c) /\ e.tool = "execute" /\ name = "wrong_operation"
    BY <1>4 DEF AlteredTool
  <2>2. \E v, k : e = Sending("execute", v, k, [operation |-> GoldOperation])
    BY <2>1 DEF ReferenceOutcome
  <2> QED BY <2>1, <2>2 DEF Fault
<1> QED BY <1>1, <1>2, <1>3, <1>4 DEF AlteredTool

\* What an altered request says cannot be what the grade asks for, and without
\* an omitted one a criterion stays open (environment.py:186-214).
LEMMA NoVariantGrades ==
    ASSUME Traced, attack # "none", Complete
    PROVE  FALSE
<1> DEFINE name == attack
<1>0. /\ name \in DOMAIN OmittedTool \union DOMAIN AlteredTool
      /\ script = Attacked(name, ReferenceScript(case))
      /\ Applicable(name, ReferenceScript(case)) /\ case \in Cases
  BY AttacksAssumption DEF Traced
<1>1. PICK a \in assessment : JudgementCorrect(a)
  BY DEF Complete
<1>2. PICK r \in AskedOf("assess") : r.body = a /\ r.version \in Nat
  BY <1>1 DEF Traced
<1>3. PICK o \in receipt : o.id \in inspected
  BY DEF Complete
<1>4. PICK c \in closure : c.status = ExpectedClosure
  BY DEF Complete
<1>5. PICK d \in AskedOf("close") :
          d.body = c /\ c.receipt_id \in AskedOf("execute") \union AskedOf("escalate")
  BY <1>4 DEF Traced
<1>6. r.tool = "assess" /\ d.tool = "close" /\ r \in Asked /\ d \in Asked
  BY <1>2, <1>5 DEF AskedOf
<1>7. /\ a.policy \in Docs /\ a.policy = Authoritative("policy") /\ a.value = case.target
      /\ a.diagnosis = Gold(case).diagnosis /\ a.route = Gold(case).route
      /\ a.citations # {} /\ a.citations \subseteq read
      /\ Evidence \subseteq a.citations /\ Authoritative("policy") \in Evidence
  <2>1. PICK p \in Docs : Governing("policy") = {p}
    BY GoverningAssumption
  <2>2. Authoritative("policy") \in Docs
    BY <2>1 DEF Authoritative
  <2> QED BY <1>1, <2>2 DEF JudgementCorrect, CitesEvidence, CitationsValid, Evidence
<1>8. CASE name \in DOMAIN OmittedTool
  <2>1. \A tool : AskedOf(tool) # {} => tool # OmittedTool[name]
    BY <1>0, <1>8, OmittedOf DEF AskedOf, Asked
  <2>2. AskedOf("read_document") # {} /\ AskedOf("inspect") # {} /\ AskedOf("close") # {}
    BY <1>3, <1>5, <1>7 DEF Traced
  <2>3. name = "omit_request_approval" => AskedOf("request_approval") # {}
    <3>1. name = "omit_request_approval" => Gold(case).route = "approve"
      BY <1>0, ReferenceShape DEF Applicable
    <3> QED BY <3>1 DEF Complete, ApprovalOk, Traced
  <2>4. /\ OmittedTool.omit_read_document = "read_document"
        /\ OmittedTool.omit_inspect = "inspect" /\ OmittedTool.omit_close = "close"
        /\ OmittedTool.omit_request_approval = "request_approval"
        /\ name \in {"omit_read_document", "omit_inspect", "omit_close",
                     "omit_request_approval"}
    BY <1>8 DEF OmittedTool
  <2> QED BY <2>1, <2>2, <2>3, <2>4
<1>9. CASE name \in DOMAIN AlteredTool
  <2> DEFINE tool == AlteredTool[name]
  <2>1. ASSUME NEW s \in Asked
        PROVE  \E e \in Expected(case) :
                  /\ s = IF e.tool = tool THEN Fault(name, e) ELSE e
                  /\ s.tool = e.tool
                  /\ \E i \in DOMAIN ReferenceScript(case) : e = ReferenceScript(case)[i]
    <3>1. PICK i \in DOMAIN script : s = script[i]
      BY DEF Asked
    <3>2. PICK e \in Expected(case) :
              /\ i \in DOMAIN ReferenceScript(case) /\ e = ReferenceScript(case)[i]
              /\ s = IF e.tool = tool THEN Fault(name, e) ELSE e
      BY <1>0, <1>9, <3>1, AlteredShape
    <3>3. e.tool = tool => Fault(name, e).tool = e.tool
      BY <1>9, FaultShows
    <3> QED BY <3>2, <3>3
  <2>2. CASE tool = "assess"
    <3>1. PICK e \in Expected(case) : e.tool = tool /\ r = Fault(name, e)
      BY <1>6, <2>1, <2>2
    <3>2. name \in {"wrong_calculation", "wrong_diagnosis", "wrong_route", "wrong_policy",
                    "missing_citations", "fabricated_citation", "stale_version"}
      BY <1>9, <2>2 DEF AlteredTool
    <3>3. case.target \in Int
      BY <1>0, CasesAssumption DEF CaseRecord
    <3>4. /\ name # "wrong_policy" /\ name # "missing_citations"
          /\ name # "fabricated_citation"
      BY <1>2, <1>7, <1>9, <3>1, AttacksAssumption, FaultShows
    <3>5. /\ name # "wrong_calculation" /\ name # "wrong_diagnosis"
          /\ name # "wrong_route" /\ name # "stale_version"
      BY <1>2, <1>7, <1>9, <3>1, <3>3, FaultShows
    <3> QED BY <3>2, <3>4, <3>5
  <2>3. CASE tool = "close"
    <3>1. PICK e \in Expected(case) : e.tool = tool /\ d = Fault(name, e)
      BY <1>6, <2>1, <2>3
    <3>2. name \in {"wrong_closure", "fabricated_receipt"}
      BY <1>9, <2>3 DEF AlteredTool
    <3>3. name # "wrong_closure"
      BY <1>4, <1>5, <1>9, <3>1, FaultShows DEF ExpectedClosure, Escalating
    <3>4. PICK s \in Asked : s.tool \in {"execute", "escalate"} /\ c.receipt_id = s
      BY <1>5 DEF AskedOf
    <3>5. s = ReferenceOutcome(case)
      BY <2>1, <2>3, <3>4, ExpectedByTool
    <3>6. name # "fabricated_receipt"
      BY <1>0, <1>5, <1>9, <3>1, <3>4, <3>5, AttacksAssumption, FaultShows
    <3> QED BY <3>2, <3>3, <3>6
  <2>4. CASE tool = "escalate"
    <3>1. name = "wrong_escalation_owner"
      BY <1>9, <2>4 DEF AlteredTool
    <3>2. Gold(case).route = "escalate"
      BY <1>0, <3>1, ReferenceShape DEF Applicable
    <3>3. o.owner = GoldOwner
      BY <3>2 DEF Complete, MutationOk, Escalating
    <3>4. AskedOf("execute") = {}
      <4>1. ASSUME NEW s \in Asked, s.tool = "execute" PROVE FALSE
        <5>1. PICK e \in Expected(case) : s.tool = e.tool
          BY <2>1
        <5>2. ReferenceOutcome(case).tool = "execute"
          BY <4>1, <5>1, ExpectedByTool
        <5> QED BY <3>2, <5>2 DEF ReferenceOutcome, Sending
      <4> QED BY <4>1 DEF AskedOf
    <3>5. PICK s \in AskedOf("escalate") : o.owner = s.body.owner
      BY <3>4 DEF Traced
    <3>6. PICK e \in Expected(case) : e.tool = tool /\ s = Fault(name, e)
      BY <2>1, <2>4 DEF AskedOf
    <3> QED BY <1>9, <3>1, <3>3, <3>5, <3>6, AttacksAssumption, FaultShows
  <2>5. CASE tool = "execute"
    <3>1. name = "wrong_operation"
      BY <1>9, <2>5 DEF AlteredTool
    <3>2. ~Has(ReferenceScript(case), "escalate")
      BY <1>0, <3>1 DEF Applicable
    <3>3. AskedOf("escalate") = {}
      BY <2>1, <3>2 DEF AskedOf, Has
    <3>4. PICK s \in AskedOf("execute") : s.body.operation = GoldOperation
      BY <3>3 DEF Traced
    <3>5. PICK e \in Expected(case) : e.tool = tool /\ s = Fault(name, e)
      BY <2>1, <2>5, <3>4 DEF AskedOf
    <3> QED BY <1>9, <3>1, <3>4, <3>5, AttacksAssumption, FaultShows
  <2> QED BY <1>9, <2>2, <2>3, <2>4, <2>5 DEF AlteredTool
<1> QED BY <1>0, <1>8, <1>9

\* No single-fault variant of the reference trajectory ever grades as complete,
\* whatever of it is retransmitted (evaluate.py:91-96).
THEOREM VariantsFail == ReplaySpec => []AttackNeverCompletes
<1>1. ReplayInit => Traces
  <2> SUFFICES ASSUME ReplayInit, attack # "none" PROVE Traced
    BY DEF Traces
  <2>1. script = Attacked(attack, ReferenceScript(case))
        /\ attack \in DOMAIN OmittedTool \union DOMAIN AlteredTool
    BY AttacksAssumption DEF ReplayInit
  <2>2. Len(script) \in Nat
    BY <2>1, OmittedOf, AlteredShape
  <2>3. sent = 0 /\ sent <= Len(script)
    BY <2>2 DEF ReplayInit
  <2> QED BY <2>3 DEF ReplayInit, Init, Traced
<1>2. Traces /\ [ReplayNext]_rvars => Traces'
  <2> SUFFICES ASSUME Traces, [ReplayNext]_rvars PROVE Traces'
    OBVIOUS
  <2>1. CASE attack = "none"
    BY <2>1 DEF Traces, ReplayNext, Send, Retransmit, rvars
  <2>2. CASE attack # "none" /\ ReplayNext
    <3>1. Traced
      BY <2>2 DEF Traces
    <3>2. /\ \E r \in Asked : Step(r)
          /\ UNCHANGED <<attack, script>>
          /\ sent' \in Nat /\ sent' <= Len(script)
      BY <2>2, <3>1, StepAsks
    <3>3. Traced'
      BY <3>1, <3>2, StepTraced
    <3> QED BY <3>3 DEF Traces
  <2>3. CASE attack # "none" /\ UNCHANGED rvars
    <3>1. Traced
      BY <2>3 DEF Traces
    <3>2. Traced'
      BY <2>3, <3>1 DEF Traced, Asked, AskedOf, rvars, vars, state
    <3> QED BY <3>2 DEF Traces
  <2> QED BY <2>1, <2>2, <2>3
<1>3. Traces => AttackNeverCompletes
  BY NoVariantGrades DEF Traces, AttackNeverCompletes
<1> QED BY <1>1, <1>2, <1>3, PTL DEF ReplaySpec

-----------------------------------------------------------------------------
(***************************************************************************)
(* BankingReplay: the reference solves every case.  Its state after each   *)
(* request is known, and a retransmission changes nothing of it.           *)
(***************************************************************************)
Assessing(c) == Sending("assess", 0, 3, ReferenceJudgement(c))
AskingApproval == Sending("request_approval", 1, 4, [tool |-> "request_approval"])

\* One request more when an approval is due.
Extra(c) == IF Gold(c).route = "approve" THEN 1 ELSE 0

Kept(r) == [request |-> r, version |-> r.version + 1]

\* What is remembered under a key after the first n requests.
Remembered(c, n, k) ==
    IF k = 3 /\ n >= 4 THEN {Kept(Assessing(c))}
    ELSE IF k = 4 /\ Extra(c) = 1 /\ n >= 5 THEN {Kept(AskingApproval)}
    ELSE IF k = 4 + Extra(c) /\ n >= 5 + Extra(c) THEN {Kept(ReferenceOutcome(c))}
    ELSE IF k = 6 + Extra(c) /\ n >= 7 + Extra(c) THEN {Kept(ReferenceClose(c))}
    ELSE {}

JournalOf(c) == IF c.journaled THEN <<c.target, -c.target>> ELSE <<>>

\* The receipt of the reference.
ReferenceReceipt(c) ==
    LET outcome == ReferenceOutcome(c)
    IN  IF Gold(c).route = "escalate"
        THEN [id |-> outcome, owner |-> GoldOwner, reason |-> "missing_evidence",
              value |-> c.target]
        ELSE [id |-> outcome, operation |-> GoldOperation, before |-> c.initial,
              after |-> c.target, delta |-> c.target - c.initial,
              objects |-> BusinessObjects(c.target), journal |-> JournalOf(c)]

\* The environment of case c after the first n requests of its reference.
CourseAt(c, n) ==
    LET x == Extra(c)
        outcome == n >= 5 + x
        executed == outcome /\ Gold(c).route # "escalate"
    IN  /\ case = c /\ script = ReferenceScript(c) /\ sent = n
        /\ \A i \in 1..3 : i <= n => script[i].document \in read
        /\ version = IF n < 4 THEN 0 ELSE IF n < 5 THEN 1
                     ELSE IF n < 5 + x THEN 2
                     ELSE IF n < 7 + x THEN 2 + x ELSE 3 + x
        /\ DOMAIN requests = RequestIds
        /\ \A k \in RequestIds : requests[k] = Remembered(c, n, k)
        /\ assessment = IF n >= 4 THEN {ReferenceJudgement(c)} ELSE {}
        /\ approval = IF x = 1 /\ n >= 5
                      THEN {[assessment |-> ReferenceJudgement(c),
                             reviewer |-> "control_reviewer"]} ELSE {}
        /\ status = IF executed THEN "executed"
                    ELSE IF outcome THEN "escalated" ELSE "open"
        /\ value = IF executed THEN c.target ELSE c.initial
        /\ objects = IF executed THEN BusinessObjects(c.target) ELSE {}
        /\ journal = IF executed THEN JournalOf(c) ELSE <<>>
        /\ receipt = IF outcome THEN {ReferenceReceipt(c)} ELSE {}
        /\ inspected = IF n >= 6 + x THEN {ReferenceOutcome(c)} ELSE {}
        /\ closure = IF n >= 7 + x THEN {ReferenceClose(c).body} ELSE {}
        /\ safety = {}

\* A replay of the reference is at one of its points.
OnCourse == \E c \in Cases : \E n \in 0..(7 + Extra(c)) : CourseAt(c, n)

LEMMA ReferenceAt ==
    ASSUME NEW c \in CaseRecord
    PROVE  /\ Extra(c) \in {0, 1} /\ (Extra(c) = 1 <=> Gold(c).route = "approve")
           /\ Len(ReferenceScript(c)) = 7 + Extra(c)
           /\ ReferenceScript(c)[1] = Reading(Authoritative("policy"))
           /\ ReferenceScript(c)[2] = Reading(Authoritative("record"))
           /\ ReferenceScript(c)[3] = Reading(Authoritative("control"))
           /\ ReferenceScript(c)[4] = Assessing(c)
           /\ Extra(c) = 1 => ReferenceScript(c)[5] = AskingApproval
           /\ ReferenceScript(c)[5 + Extra(c)] = ReferenceOutcome(c)
           /\ ReferenceScript(c)[6 + Extra(c)] = Inspecting
           /\ ReferenceScript(c)[7 + Extra(c)] = ReferenceClose(c)
<1> DEFINE d1 == Reading(Authoritative("policy"))
           d2 == Reading(Authoritative("record"))
           d3 == Reading(Authoritative("control"))
<1>1. Opening(c) = <<d1, d2, d3, Assessing(c)>>
  BY DEF Opening, Assessing
<1>2. CASE Gold(c).route = "approve"
  <2>1. ReferenceScript(c) = <<d1, d2, d3, Assessing(c)>> \o <<AskingApproval>>
                             \o <<ReferenceOutcome(c), Inspecting, ReferenceClose(c)>>
    BY <1>1, <1>2 DEF ReferenceScript, AskingApproval
  <2>2. Extra(c) = 1
    BY <1>2 DEF Extra
  <2> HIDE DEF d1, d2, d3
  <2> QED BY <1>2, <2>1, <2>2 DEF d1, d2, d3
<1>3. CASE Gold(c).route # "approve"
  <2>1. ReferenceScript(c) = <<d1, d2, d3, Assessing(c)>> \o <<>>
                             \o <<ReferenceOutcome(c), Inspecting, ReferenceClose(c)>>
    BY <1>1, <1>3 DEF ReferenceScript
  <2>2. Extra(c) = 0
    BY <1>3 DEF Extra
  <2> HIDE DEF d1, d2, d3
  <2> QED BY <1>3, <2>1, <2>2 DEF d1, d2, d3
<1> QED BY <1>2, <1>3

LEMMA ReferenceRequests ==
    ASSUME NEW c \in CaseRecord
    PROVE  /\ Assessing(c).tool = "assess" /\ Assessing(c).version = 0
           /\ Assessing(c).request_id = 3 /\ Assessing(c).body = ReferenceJudgement(c)
           /\ AskingApproval.tool = "request_approval" /\ AskingApproval.version = 1
           /\ AskingApproval.request_id = 4
           /\ ReferenceOutcome(c).version = 1 + Extra(c)
           /\ ReferenceOutcome(c).request_id = 4 + Extra(c)
           /\ IF Gold(c).route = "escalate"
              THEN /\ ReferenceOutcome(c).tool = "escalate"
                   /\ ReferenceOutcome(c).body
                        = [owner |-> GoldOwner, reason |-> "missing_evidence"]
              ELSE /\ ReferenceOutcome(c).tool = "execute"
                   /\ ReferenceOutcome(c).body.operation = GoldOperation
           /\ ReferenceClose(c).tool = "close"
           /\ ReferenceClose(c).version = 2 + Extra(c)
           /\ ReferenceClose(c).request_id = 6 + Extra(c)
           /\ ReferenceClose(c).body.receipt_id = ReferenceOutcome(c)
           /\ ReferenceClose(c).body.status
                = IF Gold(c).route = "escalate" THEN "handed_off" ELSE "resolved"
<1>1. /\ ReferenceOutcome(c).version = 1 + Extra(c)
      /\ ReferenceOutcome(c).request_id = 4 + Extra(c)
      /\ IF Gold(c).route = "escalate"
         THEN /\ ReferenceOutcome(c).tool = "escalate"
              /\ ReferenceOutcome(c).body
                   = [owner |-> GoldOwner, reason |-> "missing_evidence"]
         ELSE /\ ReferenceOutcome(c).tool = "execute"
              /\ ReferenceOutcome(c).body.operation = GoldOperation
  BY DEF ReferenceOutcome, Sending, Extra
<1>2. Extra(c) \in {0, 1}
  BY DEF Extra
<1> QED BY <1>1, <1>2 DEF Assessing, AskingApproval, ReferenceClose, Sending

Mutating == {"assess", "request_approval", "execute", "escalate", "close"}

Settled == reply'.ok /\ UNCHANGED <<case, read, requests, inspected, state, safety>>

\* A request that was accepted is answered again and changes nothing.
LEMMA AnsweredAgain ==
    ASSUME NEW r, r.tool \in Mutating, requests[r.request_id] = {Kept(r)}, Step(r)
    PROVE  Settled
<1>1. ~Fresh(r)
  BY DEF Fresh
<1>2. Screened(r)
  BY <1>1
  DEF Step, Mutating, Assess, AssessLocked, AssessUncited, AssessRecorded,
      RequestApproval, ApprovalUndue, ApprovalWithheld, ApprovalGranted,
      Execute, ExecuteEarly, ExecuteDenied, ExecuteWrong, Executed,
      Escalate, EscalateUndue, Escalated, Close, CloseUnverified, CloseAccepted
<1>3. Kept(r).request = r /\ requests[r.request_id] # {}
      /\ \A e \in requests[r.request_id] : e.request = r
  BY DEF Kept
<1>4. Replay(r)
  BY <1>2, <1>3 DEF Screened, Conflict, LateRequest, StaleRequest
<1> QED BY <1>4 DEF Replay, Settled

LEMMA NotScreened == ASSUME NEW r, Fresh(r) PROVE ~Screened(r)
BY DEF Fresh, Screened, Replay, Conflict, LateRequest, StaleRequest

LEMMA CourseStands ==
    ASSUME NEW c, NEW n, CourseAt(c, n), Settled, UNCHANGED <<script, sent>>
    PROVE  CourseAt(c, n)'
BY DEF CourseAt, Settled, state

LEMMA RetransmittedAgain ==
    ASSUME NEW c \in Cases, NEW n \in 0..(7 + Extra(c)), CourseAt(c, n), Retransmit
    PROVE  reply'.ok /\ CourseAt(c, n)'
<1> DEFINE x == Extra(c)
<1>1. c \in CaseRecord
  BY CasesAssumption
<1>2. PICK i \in 1..n : Step(script[i])
  BY DEF Retransmit, CourseAt
<1>3. x \in {0, 1} /\ n \in 0..(7 + x) /\ script = ReferenceScript(c)
  BY <1>1, ReferenceAt DEF CourseAt
<1> HIDE DEF x
<1>4. CASE i \in 1..3
  <2>1. script[i].tool = "read_document" /\ script[i].document \in read
    BY <1>1, <1>2, <1>3, <1>4, ReferenceAt DEF CourseAt, Reading
  <2>2. Settled
    BY <1>2, <2>1 DEF Step, ReadDocument, Settled
  <2> QED BY <2>2, CourseStands DEF Retransmit, Settled
<1>5. CASE i = 6 + x
  <2>1. script[i].tool = "inspect"
    BY <1>1, <1>3, <1>5, ReferenceAt DEF Inspecting, x
  <2>2. Inspect
    BY <1>2, <2>1 DEF Step
  <2>3. inspected = {ReferenceOutcome(c)} /\ receipt = {ReferenceReceipt(c)}
    BY <1>3, <1>5 DEF CourseAt, x
  <2>4. ReferenceReceipt(c).id = ReferenceOutcome(c)
    BY DEF ReferenceReceipt
  <2>5. Settled
    BY <2>2, <2>3, <2>4 DEF Inspect, Settled
  <2> QED BY <2>5, CourseStands DEF Retransmit, Settled
<1>6. CASE i = 4 \/ (i = 5 /\ x = 1) \/ i = 5 + x \/ i = 7 + x
  <2> DEFINE r == script[i]
  <2>1. /\ r.tool \in Mutating /\ r.request_id \in RequestIds
        /\ Remembered(c, n, r.request_id) = {Kept(r)}
    <3>1. CASE i = 4
      <4>1. r = Assessing(c)
        BY <1>1, <1>3, <3>1, ReferenceAt
      <4> QED BY <1>1, <1>2, <1>3, <3>1, <4>1, ReferenceRequests, PositionsAssumption
              DEF Remembered, Mutating
    <3>2. CASE i = 5 /\ x = 1
      <4>1. r = AskingApproval
        BY <1>1, <1>3, <3>2, ReferenceAt DEF x
      <4> QED BY <1>1, <1>2, <1>3, <3>2, <4>1, ReferenceRequests, PositionsAssumption
              DEF Remembered, Mutating, x
    <3>3. CASE i = 5 + x
      <4>1. r = ReferenceOutcome(c)
        BY <1>1, <1>3, <3>3, ReferenceAt DEF x
      <4> QED BY <1>1, <1>2, <1>3, <3>3, <4>1, ReferenceRequests, PositionsAssumption
              DEF Remembered, Mutating, x
    <3>4. CASE i = 7 + x
      <4>1. r = ReferenceClose(c)
        BY <1>1, <1>3, <3>4, ReferenceAt DEF x
      <4> QED BY <1>1, <1>2, <1>3, <3>4, <4>1, ReferenceRequests, PositionsAssumption
              DEF Remembered, Mutating, x
    <3> QED BY <1>6, <3>1, <3>2, <3>3, <3>4
  <2>2. requests[r.request_id] = {Kept(r)}
    BY <2>1 DEF CourseAt
  <2> HIDE DEF r
  <2>3. Settled
    BY <1>2, <2>1, <2>2, AnsweredAgain DEF r
  <2> QED BY <2>3, CourseStands DEF Retransmit, Settled
<1>7. i \in 1..3 \/ i = 6 + x \/ (i = 4 \/ (i = 5 /\ x = 1) \/ i = 5 + x \/ i = 7 + x)
  <2>1. CASE x = 0
    <3>1. i = 1 \/ i = 2 \/ i = 3 \/ i = 4 \/ i = 5 \/ i = 6 \/ i = 7
      BY <1>2, <1>3, <2>1
    <3>2. 5 + x = 5 /\ 6 + x = 6 /\ 7 + x = 7
      BY <2>1
    <3> QED BY <2>1, <3>1, <3>2
  <2>2. CASE x = 1
    <3>1. i = 1 \/ i = 2 \/ i = 3 \/ i = 4 \/ i = 5 \/ i = 6 \/ i = 7 \/ i = 8
      BY <1>2, <1>3, <2>2
    <3>2. 5 + x = 6 /\ 6 + x = 7 /\ 7 + x = 8
      BY <2>2
    <3> QED BY <2>2, <3>1, <3>2
  <2> QED BY <1>3, <2>1, <2>2
<1> QED BY <1>4, <1>5, <1>6, <1>7

\* What the next request adds to what is remembered.
LEMMA RememberedNext ==
    ASSUME NEW c \in CaseRecord, NEW n \in {3, 4, 4 + Extra(c), 6 + Extra(c)}
    PROVE  LET r == ReferenceScript(c)[n + 1]
           IN  /\ r.request_id \in RequestIds
               /\ Remembered(c, n, r.request_id) = {}
               /\ \A k : Remembered(c, n + 1, k)
                    = IF k = r.request_id THEN {Kept(r)} ELSE Remembered(c, n, k)
<1> DEFINE r == ReferenceScript(c)[n + 1]
<1>1. Extra(c) \in {0, 1}
  BY ReferenceAt
<1>2. CASE n = 3
  <2>1. r = Assessing(c) /\ r.request_id = 3
    BY <1>2, ReferenceAt, ReferenceRequests
  <2> QED BY <1>1, <1>2, <2>1, PositionsAssumption DEF Remembered
<1>3. CASE n = 4 /\ Extra(c) = 1
  <2>1. r = AskingApproval /\ r.request_id = 4
    BY <1>3, ReferenceAt, ReferenceRequests
  <2> QED BY <1>1, <1>3, <2>1, PositionsAssumption DEF Remembered
<1>4. CASE n = 4 + Extra(c)
  <2>1. r = ReferenceOutcome(c) /\ r.request_id = 4 + Extra(c)
    BY <1>1, <1>4, ReferenceAt, ReferenceRequests
  <2> QED BY <1>1, <1>4, <2>1, PositionsAssumption DEF Remembered
<1>5. CASE n = 6 + Extra(c)
  <2>1. r = ReferenceClose(c) /\ r.request_id = 6 + Extra(c)
    BY <1>1, <1>5, ReferenceAt, ReferenceRequests
  <2> QED BY <1>1, <1>5, <2>1, PositionsAssumption DEF Remembered
<1> QED BY <1>1, <1>2, <1>3, <1>4, <1>5

\* A new request of the reference comes in time and is remembered.
LEMMA InTime ==
    ASSUME NEW c \in Cases, NEW n \in {3, 4, 4 + Extra(c), 6 + Extra(c)},
           CourseAt(c, n), NEW r, r = script[n + 1]
    PROVE  /\ Fresh(r) /\ ~Screened(r)
           /\ Accept(r) => /\ DOMAIN requests' = RequestIds
                           /\ \A k \in RequestIds : requests'[k] = Remembered(c, n + 1, k)
                           /\ version' = version + 1 /\ reply'.ok
                           /\ UNCHANGED <<case, read, inspected>>
<1>1. c \in CaseRecord /\ r = ReferenceScript(c)[n + 1]
  BY CasesAssumption DEF CourseAt
<1>2. /\ r.request_id \in RequestIds /\ Remembered(c, n, r.request_id) = {}
      /\ \A k : Remembered(c, n + 1, k)
           = IF k = r.request_id THEN {Kept(r)} ELSE Remembered(c, n, k)
  <2> DEFINE q == ReferenceScript(c)[n + 1]
  <2>1. /\ q.request_id \in RequestIds /\ Remembered(c, n, q.request_id) = {}
        /\ \A k : Remembered(c, n + 1, k)
             = IF k = q.request_id THEN {Kept(q)} ELSE Remembered(c, n, k)
    BY <1>1, RememberedNext
  <2> HIDE DEF q
  <2>2. r = q
    BY <1>1 DEF q
  <2> QED BY <2>1, <2>2
<1>3. closure = {} /\ version = r.version
  <2>1. Extra(c) \in {0, 1}
    BY <1>1, ReferenceAt
  <2>2. CASE n = 3
    BY <1>1, <2>1, <2>2, ReferenceAt, ReferenceRequests DEF CourseAt
  <2>3. CASE n = 4 /\ Extra(c) = 1
    <3>1. r = AskingApproval
      BY <1>1, <2>3, ReferenceAt
    <3> QED BY <1>1, <2>3, <3>1, ReferenceRequests DEF CourseAt
  <2>4. CASE n = 4 + Extra(c)
    <3>1. r = ReferenceOutcome(c)
      BY <1>1, <2>1, <2>4, ReferenceAt
    <3> QED BY <1>1, <2>1, <2>4, <3>1, ReferenceRequests DEF CourseAt
  <2>5. CASE n = 6 + Extra(c)
    <3>1. r = ReferenceClose(c)
      BY <1>1, <2>1, <2>5, ReferenceAt
    <3> QED BY <1>1, <2>1, <2>5, <3>1, ReferenceRequests DEF CourseAt
  <2> QED BY <2>1, <2>2, <2>3, <2>4, <2>5
<1>4. Fresh(r)
  BY <1>2, <1>3 DEF CourseAt, Fresh, Closed
<1>5. ASSUME Accept(r)
      PROVE  /\ DOMAIN requests' = RequestIds
             /\ \A k \in RequestIds : requests'[k] = Remembered(c, n + 1, k)
  BY <1>2, <1>3, <1>5 DEF Accept, CourseAt, Kept
<1> QED BY <1>4, <1>5, NotScreened DEF Accept

LEMMA DocumentRead ==
    ASSUME NEW c \in Cases, NEW n \in 0..2, CourseAt(c, n), Send
    PROVE  reply'.ok /\ CourseAt(c, n + 1)'
<1>1. c \in CaseRecord
  BY CasesAssumption
<1>2. Extra(c) \in {0, 1} /\ script[n + 1].tool = "read_document"
  BY <1>1, ReferenceAt DEF CourseAt, Reading
<1>3. ReadDocument(script[n + 1].document) /\ sent' = n + 1 /\ UNCHANGED script
  BY <1>2 DEF Send, Step, CourseAt
<1>4. \A k : Remembered(c, n + 1, k) = Remembered(c, n, k)
  BY <1>2 DEF Remembered
<1>5. \A i \in 1..3 : i <= n + 1 => script[i].document \in read'
  BY <1>3 DEF ReadDocument, CourseAt
<1> QED BY <1>2, <1>3, <1>4, <1>5 DEF ReadDocument, CourseAt, state

\* The judgement of the reference cites the documents it has read.
LEMMA EvidenceCited ==
    ASSUME NEW c \in Cases, NEW n \in Nat, n >= 3, CourseAt(c, n)
    PROVE  CitesEvidence(ReferenceJudgement(c))
<1>1. c \in CaseRecord
  BY CasesAssumption
<1>2. \A i \in 1..3 : script[i].document \in read
  BY DEF CourseAt
<1>3. Evidence \subseteq read
  BY <1>1, <1>2, ReferenceAt DEF CourseAt, Evidence, Reading
<1>4. Evidence # {} /\ ReferenceJudgement(c).citations = Evidence
  BY DEF Evidence, ReferenceJudgement
<1> QED BY <1>3, <1>4 DEF CitesEvidence, CitationsValid

LEMMA JudgementAccepted ==
    ASSUME NEW c \in Cases, CourseAt(c, 3), Send
    PROVE  reply'.ok /\ CourseAt(c, 4)'
<1> DEFINE r == Assessing(c)
<1>1. c \in CaseRecord
  BY CasesAssumption
<1>2. Extra(c) \in {0, 1} /\ r = script[4] /\ r.tool = "assess"
      /\ r.body = ReferenceJudgement(c)
  BY <1>1, ReferenceAt, ReferenceRequests DEF CourseAt
<1> HIDE DEF r
<1>3. Assess(r) /\ sent' = 4 /\ UNCHANGED script
  BY <1>2 DEF Send, Step, CourseAt
<1>4. Fresh(r) /\ ~Screened(r)
      /\ (Accept(r) => /\ DOMAIN requests' = RequestIds
                       /\ \A k \in RequestIds : requests'[k] = Remembered(c, 4, k)
                       /\ version' = version + 1 /\ reply'.ok
                       /\ UNCHANGED <<case, read, inspected>>)
  BY <1>2, InTime
<1>5. AssessAllowed /\ CitationsValid(r.body)
  <2>1. CitesEvidence(ReferenceJudgement(c))
    BY EvidenceCited
  <2> QED BY <1>2, <2>1 DEF AssessAllowed, Open, CourseAt, CitesEvidence
<1>6. AssessRecorded(r)
  BY <1>3, <1>4, <1>5 DEF Assess, AssessLocked, AssessUncited
<1> QED BY <1>2, <1>3, <1>4, <1>6 DEF AssessRecorded, CourseAt

LEMMA ApprovalGiven ==
    ASSUME NEW c \in Cases, Extra(c) = 1, CourseAt(c, 4), Send
    PROVE  reply'.ok /\ CourseAt(c, 5)'
<1> DEFINE r == AskingApproval
<1>1. c \in CaseRecord
  BY CasesAssumption
<1>2. r = script[5] /\ r.tool = "request_approval" /\ Gold(c).route = "approve"
  BY <1>1, ReferenceAt, ReferenceRequests DEF CourseAt
<1> HIDE DEF r
<1>3. RequestApproval(r) /\ sent' = 5 /\ UNCHANGED script
  BY <1>2 DEF Send, Step, CourseAt
<1>4. Fresh(r) /\ ~Screened(r)
      /\ (Accept(r) => /\ DOMAIN requests' = RequestIds
                       /\ \A k \in RequestIds : requests'[k] = Remembered(c, 5, k)
                       /\ version' = version + 1 /\ reply'.ok
                       /\ UNCHANGED <<case, read, inspected>>)
  BY <1>2, InTime
<1>5. ApprovalDue /\ ReviewPasses
  <2>1. CitesEvidence(ReferenceJudgement(c))
    BY EvidenceCited
  <2> QED BY <1>2, <2>1 DEF ApprovalDue, ReviewPasses, Open, CourseAt
<1>6. ApprovalGranted(r)
  BY <1>3, <1>4, <1>5 DEF RequestApproval, ApprovalUndue, ApprovalWithheld
<1> QED BY <1>2, <1>3, <1>4, <1>6 DEF ApprovalGranted, CourseAt

LEMMA OutcomeAccepted ==
    ASSUME NEW c \in Cases, CourseAt(c, 4 + Extra(c)), Send
    PROVE  reply'.ok /\ CourseAt(c, 5 + Extra(c))'
<1> DEFINE r == ReferenceOutcome(c)
           x == Extra(c)
<1>1. c \in CaseRecord
  BY CasesAssumption
<1>2. x \in {0, 1} /\ r = script[5 + x] /\ (x = 1 <=> Gold(c).route = "approve")
  BY <1>1, ReferenceAt DEF CourseAt
<1>3. IF Gold(c).route = "escalate"
      THEN /\ r.tool = "escalate"
           /\ r.body = [owner |-> GoldOwner, reason |-> "missing_evidence"]
      ELSE r.tool = "execute" /\ r.body.operation = GoldOperation
  BY <1>1, ReferenceRequests
<1>4. Fresh(r) /\ ~Screened(r)
      /\ (Accept(r) => /\ DOMAIN requests' = RequestIds
                       /\ \A k \in RequestIds : requests'[k] = Remembered(c, 5 + x, k)
                       /\ version' = version + 1 /\ reply'.ok
                       /\ UNCHANGED <<case, read, inspected>>)
  <2>1. (4 + x) + 1 = 5 + x
    BY <1>2
  <2> QED BY <1>2, <2>1, InTime
<1>5. sent' = 5 + x /\ UNCHANGED script /\ Step(r)
  BY <1>2 DEF Send, CourseAt
<1>6. /\ case = c /\ assessment = {ReferenceJudgement(c)} /\ Actionable
      /\ version = 1 + x /\ closure = {} /\ safety = {} /\ inspected = {}
      /\ objects = {} /\ journal = <<>> /\ value = c.initial
      /\ script = ReferenceScript(c)
      /\ \A i \in 1..3 : script[i].document \in read
      /\ approval = IF x = 1 THEN {[assessment |-> ReferenceJudgement(c),
                                    reviewer |-> "control_reviewer"]} ELSE {}
  BY <1>2 DEF CourseAt, Actionable, Open
<1>7. CitesEvidence(ReferenceJudgement(c))
      /\ ReferenceJudgement(c).policy = Authoritative("policy")
      /\ ReferenceJudgement(c).value = c.target
  BY <1>2, EvidenceCited DEF ReferenceJudgement
<1> HIDE DEF r, x
<1>8. CASE Gold(c).route = "escalate"
  <2>1. Escalated(r)
    BY <1>3, <1>4, <1>5, <1>6, <1>8 DEF Step, Escalate, EscalateUndue
  <2>2. receipt' = {ReferenceReceipt(c)}
    BY <1>3, <1>6, <1>7, <1>8, <2>1 DEF Escalated, ReferenceReceipt, r
  <2> QED BY <1>2, <1>4, <1>5, <1>6, <1>8, <2>1, <2>2 DEF Escalated, CourseAt, x
<1>9. CASE Gold(c).route # "escalate"
  <2>1. ControlsPass
    BY <1>2, <1>6, <1>7, <1>9 DEF ControlsPass
  <2>2. Executed(r)
    BY <1>3, <1>4, <1>5, <1>6, <1>9, <2>1
    DEF Step, Execute, ExecuteEarly, ExecuteDenied, ExecuteWrong
  <2>3. Journal(c.target) = JournalOf(c)
    BY <1>6 DEF Journal, JournalOf
  <2>4. /\ receipt' = {ReferenceReceipt(c)} /\ value' = c.target
        /\ objects' = BusinessObjects(c.target) /\ journal' = JournalOf(c)
    BY <1>3, <1>6, <1>7, <1>9, <2>2, <2>3 DEF Executed, ReferenceReceipt, r
  <2> QED BY <1>2, <1>4, <1>5, <1>6, <1>9, <2>2, <2>4 DEF Executed, CourseAt, x
<1> QED BY <1>8, <1>9

LEMMA OutcomeInspected ==
    ASSUME NEW c \in Cases, CourseAt(c, 5 + Extra(c)), Send
    PROVE  reply'.ok /\ CourseAt(c, 6 + Extra(c))'
<1> DEFINE x == Extra(c)
<1>1. c \in CaseRecord
  BY CasesAssumption
<1>2. x \in {0, 1} /\ script[6 + x].tool = "inspect"
  BY <1>1, ReferenceAt DEF CourseAt, Inspecting
<1>3. Inspect /\ sent' = 6 + x /\ UNCHANGED script
  BY <1>2 DEF Send, Step, CourseAt
<1>4. \A k : Remembered(c, 6 + x, k) = Remembered(c, 5 + x, k)
  BY <1>2 DEF Remembered
<1>5. receipt = {ReferenceReceipt(c)} /\ inspected = {}
      /\ ReferenceReceipt(c).id = ReferenceOutcome(c)
  BY <1>2 DEF CourseAt, ReferenceReceipt
<1>6. inspected' = {ReferenceOutcome(c)}
  BY <1>3, <1>5 DEF Inspect
<1> QED BY <1>2, <1>3, <1>4, <1>6 DEF Inspect, CourseAt, state

LEMMA ClosureAccepted ==
    ASSUME NEW c \in Cases, CourseAt(c, 6 + Extra(c)), Send
    PROVE  reply'.ok /\ CourseAt(c, 7 + Extra(c))'
<1> DEFINE r == ReferenceClose(c)
           x == Extra(c)
<1>1. c \in CaseRecord
  BY CasesAssumption
<1>2. x \in {0, 1} /\ r = script[7 + x] /\ r.tool = "close"
      /\ r.body.receipt_id = ReferenceOutcome(c) /\ r.body.status \in Statuses
  BY <1>1, ReferenceAt, ReferenceRequests DEF CourseAt, Statuses
<1>3. Fresh(r) /\ ~Screened(r)
      /\ (Accept(r) => /\ DOMAIN requests' = RequestIds
                       /\ \A k \in RequestIds : requests'[k] = Remembered(c, 7 + x, k)
                       /\ version' = version + 1 /\ reply'.ok
                       /\ UNCHANGED <<case, read, inspected>>)
  <2>1. (6 + x) + 1 = 7 + x
    BY <1>2
  <2> QED BY <1>2, <2>1, InTime
<1> HIDE DEF r
<1>4. Close(r) /\ sent' = 7 + x /\ UNCHANGED script
  BY <1>2 DEF Send, Step, CourseAt
<1>5. Verified(r.body)
  <2>1. /\ receipt = {ReferenceReceipt(c)} /\ inspected = {ReferenceOutcome(c)}
        /\ ReferenceReceipt(c).id = ReferenceOutcome(c)
    BY <1>2 DEF CourseAt, ReferenceReceipt
  <2> QED BY <1>2, <2>1 DEF Verified
<1>6. CloseAccepted(r)
  BY <1>3, <1>4, <1>5 DEF Close, CloseUnverified
<1> QED BY <1>2, <1>3, <1>4, <1>6 DEF CloseAccepted, CourseAt, r

\* A step of a replay of the reference, a new request or an old one.
LEMMA ReferenceStep ==
    ASSUME OnCourse, ReplayNext
    PROVE  reply'.ok /\ OnCourse'
<1>0. PICK c \in Cases : \E n \in 0..(7 + Extra(c)) : CourseAt(c, n)
  BY DEF OnCourse
<1>1. PICK n \in 0..(7 + Extra(c)) : CourseAt(c, n)
  BY <1>0
<1>2. /\ c \in CaseRecord /\ Extra(c) \in {0, 1} /\ Len(ReferenceScript(c)) = 7 + Extra(c)
  <2>1. c \in CaseRecord
    BY CasesAssumption
  <2> QED BY <2>1, ReferenceAt
<1>3. CASE Retransmit
  <2>1. reply'.ok /\ CourseAt(c, n)'
    BY <1>1, <1>3, RetransmittedAgain
  <2> QED BY <2>1 DEF OnCourse
<1>4. CASE Send
  <2>1. n < 7 + Extra(c)
    BY <1>1, <1>2, <1>4 DEF Send, CourseAt
  <2>2. reply'.ok /\ CourseAt(c, n + 1)'
    <3>1. CASE n \in 0..2
      BY <1>1, <1>4, <3>1, DocumentRead
    <3>2. CASE n = 3
      BY <1>1, <1>4, <3>2, JudgementAccepted
    <3>3. CASE n = 4 /\ Extra(c) = 1
      BY <1>1, <1>4, <3>3, ApprovalGiven
    <3>4. CASE n = 4 + Extra(c)
      <4>1. reply'.ok /\ CourseAt(c, 5 + Extra(c))'
        BY <1>1, <1>4, <3>4, OutcomeAccepted
      <4>2. n + 1 = 5 + Extra(c)
        BY <1>2, <3>4
      <4> QED BY <4>1, <4>2
    <3>5. CASE n = 5 + Extra(c)
      <4>1. reply'.ok /\ CourseAt(c, 6 + Extra(c))'
        BY <1>1, <1>4, <3>5, OutcomeInspected
      <4>2. n + 1 = 6 + Extra(c)
        BY <1>2, <3>5
      <4> QED BY <4>1, <4>2
    <3>6. CASE n = 6 + Extra(c)
      <4>1. reply'.ok /\ CourseAt(c, 7 + Extra(c))'
        BY <1>1, <1>4, <3>6, ClosureAccepted
      <4>2. n + 1 = 7 + Extra(c)
        BY <1>2, <3>6
      <4> QED BY <4>1, <4>2
    <3> QED BY <1>2, <2>1, <3>1, <3>2, <3>3, <3>4, <3>5, <3>6
  <2>3. n + 1 \in 0..(7 + Extra(c))
    BY <1>2, <2>1
  <2> QED BY <2>2, <2>3 DEF OnCourse
<1> QED BY <1>3, <1>4 DEF ReplayNext

\* At the end of its reference a case grades as complete (environment.py:186-214).
LEMMA CourseCompletes ==
    ASSUME OnCourse, sent = Len(script)
    PROVE  Complete
<1>0. PICK c \in Cases : \E n \in 0..(7 + Extra(c)) : CourseAt(c, n)
  BY DEF OnCourse
<1>1. PICK n \in 0..(7 + Extra(c)) : CourseAt(c, n)
  BY <1>0
<1>2. /\ c \in CaseRecord /\ Extra(c) \in {0, 1} /\ Len(ReferenceScript(c)) = 7 + Extra(c)
      /\ (Extra(c) = 1 <=> Gold(c).route = "approve")
      /\ ReferenceClose(c).body.status
           = IF Gold(c).route = "escalate" THEN "handed_off" ELSE "resolved"
  <2>1. c \in CaseRecord
    BY CasesAssumption
  <2> QED BY <2>1, ReferenceAt, ReferenceRequests
<1>3. n = 7 + Extra(c) /\ case = c /\ safety = {}
  BY <1>1, <1>2 DEF CourseAt
<1>4. \E a \in assessment : JudgementCorrect(a)
  <2>1. CitesEvidence(ReferenceJudgement(c))
    BY <1>1, <1>2, <1>3, EvidenceCited
  <2>2. ReferenceJudgement(c) \in assessment
    BY <1>1, <1>2, <1>3 DEF CourseAt
  <2> QED BY <1>3, <2>1, <2>2 DEF JudgementCorrect, ReferenceJudgement
<1>5. ApprovalOk
  <2>1. approval = IF Extra(c) = 1 THEN {[assessment |-> ReferenceJudgement(c),
                                          reviewer |-> "control_reviewer"]} ELSE {}
    BY <1>1, <1>2, <1>3 DEF CourseAt
  <2>2. approval # {} <=> Extra(c) = 1
    BY <2>1
  <2> QED BY <1>2, <1>3, <2>2 DEF ApprovalOk
<1>6. receipt = {ReferenceReceipt(c)} /\ ReferenceReceipt(c).id \in inspected
  BY <1>1, <1>2, <1>3 DEF CourseAt, ReferenceReceipt
<1>7. MutationOk
  <2>1. CASE Gold(c).route = "escalate"
    BY <1>1, <1>2, <1>3, <1>6, <2>1 DEF MutationOk, Escalating, CourseAt, ReferenceReceipt
  <2>2. CASE Gold(c).route # "escalate"
    <3>1. /\ status = "executed" /\ value = c.target
          /\ objects = BusinessObjects(c.target) /\ journal = JournalOf(c)
      BY <1>1, <1>2, <1>3, <2>2 DEF CourseAt
    <3>2. journal # <<>> => journal[1] + journal[2] = 0
      <4>1. c.target \in Int
        BY <1>2 DEF CaseRecord
      <4> QED BY <3>1, <4>1 DEF JournalOf
    <3> QED BY <1>3, <1>6, <2>2, <3>1, <3>2 DEF MutationOk, Escalating, ReferenceReceipt
  <2> QED BY <2>1, <2>2
<1>8. \E d \in closure : d.status = ExpectedClosure
  BY <1>1, <1>2, <1>3 DEF CourseAt, ExpectedClosure, Escalating
<1> QED BY <1>3, <1>4, <1>5, <1>6, <1>7, <1>8 DEF Complete

\* Whatever the case and whatever is retransmitted in between, every request of
\* the reference is answered ok (evaluate.py:24 would raise otherwise) and the
\* last one leaves the case complete (evaluate.py:88-90).
THEOREM ReferenceSolves == ReplaySpec => ReferenceAnswered /\ []ReferenceSolved
<1> DEFINE Inv == attack = "none" => OnCourse
<1>1. ReplayInit => Inv
  <2> SUFFICES ASSUME ReplayInit, attack = "none" PROVE CourseAt(case, 0) /\ case \in Cases
    BY ReferenceAt, CasesAssumption DEF OnCourse
  <2>1. case \in CaseRecord
    BY CasesAssumption DEF ReplayInit, Init
  <2>2. Extra(case) \in {0, 1} /\ \A k : Remembered(case, 0, k) = {}
    BY <2>1, ReferenceAt DEF Remembered
  <2>3. script = ReferenceScript(case)
    <3>1. "none" \notin DOMAIN OmittedTool /\ "none" \notin DOMAIN AlteredTool
      BY DEF OmittedTool, AlteredTool
    <3> QED BY <3>1 DEF ReplayInit, Attacked
  <2> QED BY <2>2, <2>3 DEF ReplayInit, Init, CourseAt
<1>2. Inv /\ [ReplayNext]_rvars => Inv' /\ [attack = "none" => reply'.ok]_rvars
  <2> SUFFICES ASSUME Inv, [ReplayNext]_rvars
               PROVE  Inv' /\ [attack = "none" => reply'.ok]_rvars
    OBVIOUS
  <2>1. CASE ReplayNext
    <3>1. attack' = attack
      BY <2>1 DEF ReplayNext, Send, Retransmit
    <3> QED BY <2>1, <3>1, ReferenceStep
  <2>2. CASE UNCHANGED rvars
    <3>1. OnCourse => OnCourse'
      BY <2>2 DEF OnCourse, CourseAt, rvars, vars, state
    <3> QED BY <2>2, <3>1 DEF rvars
  <2> QED BY <2>1, <2>2
<1>3. Inv => ReferenceSolved
  BY CourseCompletes DEF ReferenceSolved
<1> QED BY <1>1, <1>2, <1>3, PTL DEF ReplaySpec, ReferenceAnswered
=============================================================================
