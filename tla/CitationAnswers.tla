---------------------------- MODULE CitationAnswers ----------------------------
(***************************************************************************)
(* What one citation call comes to: citations.py validates the selection   *)
(* of a model against the evidence of its task and renders it,             *)
(* citation_run.py keeps a record of the call and checks it again when the *)
(* run is resumed or verified, citation_acceptance.py counts the records.  *)
(*                                                                         *)
(* A proposition is [topic, object, polarity], its topic standing for      *)
(* subject, relation and qualifiers; evidence is a function from           *)
(* identifiers to [propositions, coverage], coverage a set of topics.  A   *)
(* selection is [kind, claims, requested, cites]: an answer has claims     *)
(* [id, proposition, cites], a refusal what was requested and its cites.   *)
(* White space, prose, digests and schemas are left out.                   *)
(***************************************************************************)
EXTENDS Naturals, FiniteSets, SequencesExt

\* What the schema says of a selection
Formed(s) ==
    /\ s.kind \in {"answer", "refusal"}
    /\ s.claims \in Seq(Range(s.claims)) /\ s.cites \in Seq(Range(s.cites))
    /\ \A c \in Range(s.claims) : c.cites \in Seq(Range(c.cites))

\* _selected_evidence: {} or {the error code of the first citation at fault}
CitesFault(cites, evidence, otherwise) ==
    LET repeated(i) == \E j \in 1..(i - 1) : cites[j] = cites[i]
        bad == {i \in DOMAIN cites : repeated(i) \/ cites[i] \notin DOMAIN evidence}
        first == CHOOSE i \in bad : \A j \in bad : i <= j
    IN  IF cites = <<>> THEN {otherwise}
        ELSE IF bad = {} THEN {}
        ELSE {IF repeated(first) THEN otherwise ELSE "EVIDENCE_OUTSIDE_SET"}

ClaimFault(claims, i, evidence) ==
    LET claim == claims[i]
        cited == CitesFault(claim.cites, evidence, "VALIDATION_REJECTED")
    IN  IF \E j \in 1..(i - 1) : claims[j].id = claim.id
        THEN {"VALIDATION_REJECTED"}
        ELSE IF cited # {} THEN cited
        ELSE IF \A c \in Range(claim.cites) :
                    claim.proposition \in evidence[c].propositions THEN {}
        ELSE {"UNSUPPORTED_ADDITION"}

\* A refusal is refused itself when any evidence supports what it refuses.
RefusalFault(s, evidence) ==
    LET cited == CitesFault(s.cites, evidence, "REFUSAL_REJECTED")
    IN  IF s.claims # <<>> THEN {"REFUSAL_REJECTED"}
        ELSE IF cited # {} THEN cited
        ELSE IF /\ \A e \in DOMAIN evidence :
                       s.requested \notin evidence[e].propositions
                /\ \E c \in Range(s.cites) : s.requested.topic \in evidence[c].coverage
             THEN {} ELSE {"REFUSAL_REJECTED"}

\* validate_selection with _error_code: {} or {the code of the first fault}
Fault(s, evidence) ==
    IF s.kind = "refusal" THEN RefusalFault(s, evidence)
    ELSE LET bad == {i \in DOMAIN s.claims : ClaimFault(s.claims, i, evidence) # {}}
         IN  IF bad = {} THEN {}
             ELSE ClaimFault(s.claims, CHOOSE i \in bad : \A j \in bad : i <= j,
                             evidence)

-----------------------------------------------------------------------------
(* render_selection: a marker is the place of its citation object          *)
ClaimNoted(citation, claim) ==
    [citation EXCEPT !.claims = IF claim = {} \/ claim \subseteq Range(@) THEN @
                                ELSE @ \o SetToSeq(claim)]

MarkedAfresh(citations, use) ==  \* a slip: only the last citation is looked at
    IF citations # <<>> /\ Last(citations).evidence = use.evidence
    THEN Append(Front(citations), ClaimNoted(Last(citations), use.claim))
    ELSE Append(citations, [evidence |-> use.evidence, claims |-> SetToSeq(use.claim)])

Marked(citations, use) ==
    IF \E k \in DOMAIN citations : citations[k].evidence = use.evidence
    THEN [k \in DOMAIN citations |->
             IF citations[k].evidence = use.evidence
             THEN ClaimNoted(citations[k], use.claim) ELSE citations[k]]
    ELSE Append(citations, [evidence |-> use.evidence, claims |-> SetToSeq(use.claim)])

\* Every citation of the selection, in the order the text has them
Uses(s) ==
    IF s.kind = "refusal"
    THEN [i \in DOMAIN s.cites |-> [evidence |-> s.cites[i], claim |-> {}]]
    ELSE FlattenSeq([c \in DOMAIN s.claims |->
            [i \in DOMAIN s.claims[c].cites |->
                [evidence |-> s.claims[c].cites[i], claim |-> {s.claims[c].id}]]])

Citations(s) ==
    LET after[n \in 0..Len(Uses(s))] ==
            IF n = 0 THEN <<>> ELSE Marked(after[n - 1], Uses(s)[n])
    IN  after[Len(Uses(s))]

Render(s) ==
    LET citations == Citations(s)
        marker(e) == CHOOSE k \in DOMAIN citations : citations[k].evidence = e
    IN  [citations |-> citations,
         markers |-> [u \in DOMAIN Uses(s) |-> marker(Uses(s)[u].evidence)]]

-----------------------------------------------------------------------------
(* _selection_semantics: claims without their IDs, in any order            *)
Meaning(claim) == [claim EXCEPT !.id = ""]
Count(claims, meaning) == Cardinality({i \in DOMAIN claims : Meaning(claims[i]) = meaning})

SameMeaning(s, t) ==
    /\ s.kind = t.kind
    /\ IF s.kind = "refusal" THEN s = t
       ELSE \A claim \in Range(s.claims) \union Range(t.claims) :
                Count(s.claims, Meaning(claim)) = Count(t.claims, Meaning(claim))

(* A call ends as [selection, class, code, sound]: class is what the       *)
(* provider's telemetry says failed ("none" when nothing did), code the    *)
(* error code of the exception, and sound whether its history passes the   *)
(* checks (HistoryAccepted of ProviderCall).                               *)
Judged(selection, task) ==
    LET fault == Fault(selection, task.evidence)
        wrong == IF fault # {} THEN fault
                 ELSE IF SameMeaning(selection, task.oracle) THEN {}
                 ELSE {"ORACLE_MISMATCH"}
    IN  [rendered |-> IF wrong = {} THEN {Render(selection)} ELSE {},
         error |-> wrong]

\* _execute_one
RecordOf(call, task) ==
    LET judged == IF call.selection = {} THEN [rendered |-> {}, error |-> {call.code}]
                  ELSE Judged(CHOOSE s \in call.selection : TRUE, task)
    IN  [completed |-> call.class \in {"none", "RESPONSE"},
         selection |-> call.selection, class |-> call.class, sound |-> call.sound,
         rendered |-> judged.rendered, error |-> judged.error]

\* _validate_record
Validated(r, task) ==
    /\ r.sound
    /\ IF r.completed /\ r.class = "none"
       THEN /\ r.selection # {}
            /\ \A s \in r.selection :
                    [rendered |-> r.rendered, error |-> r.error] = Judged(s, task)
       ELSE /\ r.class # "none" /\ r.selection = {} /\ r.rendered = {}
            /\ r.error # {}

-----------------------------------------------------------------------------
(* derive_acceptance_metrics_and_gates over one record per task            *)
Completed(records) == {s \in DOMAIN records : records[s].completed}
Rendered(records) == {s \in Completed(records) : records[s].rendered # {}}
ForbiddenErrors == {"EVIDENCE_OUTSIDE_SET", "UNSUPPORTED_ADDITION",
                    "REFUSAL_REJECTED"}

StatusByCounts(records, minimum) ==  \* a slip: failed calls drop out
    IF /\ Cardinality(Rendered(records)) = Cardinality(Completed(records))
       /\ \A s \in DOMAIN records : records[s].error \intersect ForbiddenErrors = {}
    THEN "PASS" ELSE "INCOMPLETE"

\* minimum: the percentage of the tasks that must have been completed
Status(records, minimum) ==
    IF /\ 100 * Cardinality(Completed(records))
              >= minimum * Cardinality(DOMAIN records)
       /\ Cardinality(Rendered(records)) = Cardinality(Completed(records))
       /\ \A s \in DOMAIN records : records[s].error \intersect ForbiddenErrors = {}
    THEN "PASS" ELSE "INCOMPLETE"
=============================================================================
