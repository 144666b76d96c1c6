----------------------------- MODULE ProviderCall -----------------------------
(***************************************************************************)
(* One logical call of an HTTP provider: CompatibleHTTPProvider.act        *)
(* (real_provider.py, of the matched run) and                              *)
(* SchemaConstrainedHTTPProvider.select_claims (citation_provider.py), the *)
(* same loop of at most MaxRetries + 1 requests; then what the citation    *)
(* run keeps of the call, and whether its check accepts it.  ArmRunner     *)
(* does the same for the matched run.                                      *)
(*                                                                         *)
(* A request may fail before its status is known and, with a status, while *)
(* its body is read.  Hashes, latency, tokens and identifiers of the       *)
(* request are left out.                                                   *)
(***************************************************************************)
EXTENDS Naturals, Sequences, FiniteSets

CONSTANTS
    MaxRetries,
    Retryable,   \* RETRYABLE_STATUS, those a run looks at
    Terminal     \* other error statuses

ASSUME LimitAssumption == MaxRetries \in Nat
ASSUME StatusAssumption ==
    Retryable \intersect Terminal = {} /\ {"OK", "TRANSPORT"} \intersect
        (Retryable \union Terminal) = {}

\* What a body can be: the model's answer; no JSON or not the schema; bytes
\* that are not UTF-8.
Bodies == {"valid", "malformed", "undecodable"}

VARIABLES
    pc,
    attempt,    \* the loop variable
    statuses,   \* http_statuses
    body,       \* response_bytes: {} or {a body}
    telemetry,  \* {} or {the row of this call}
    sent,       \* history: requests sent
    misread     \* history: a read timed out after the status had come

vars == <<pc, attempt, statuses, body, telemetry, sent, misread>>

Init ==
    /\ pc = "send" /\ attempt = 0 /\ statuses = <<>> /\ body = {}
    /\ telemetry = {} /\ sent = 0 /\ misread = FALSE

\* The telemetry row; a failed one has no provider_request_id.
Row(status, class, history) ==
    [status |-> status, class |-> class, statuses |-> history, body |-> body]

Failed(class, history) ==
    /\ pc' = "raised"
    /\ telemetry' = telemetry \union {Row("FAIL", class, history)}
    /\ UNCHANGED attempt

-----------------------------------------------------------------------------
(* for attempt in range(max_retries + 1) *)
Send ==
    /\ pc = "send" /\ pc' = "open" /\ sent' = sent + 1
    /\ UNCHANGED <<attempt, statuses, body, telemetry, misread>>

\* The attempt failed: the next one, or the end of the call.
GiveUpOrRetryAll(class, status) ==  \* a slip: every status is tried again
    LET history == Append(statuses, status) IN
    /\ statuses' = history
    /\ IF attempt >= MaxRetries
       THEN Failed(class, history)
       ELSE pc' = "send" /\ attempt' = attempt + 1 /\ UNCHANGED telemetry

GiveUpOrRetry(class, status) ==
    LET history == Append(statuses, status) IN
    /\ statuses' = history
    /\ IF attempt >= MaxRetries \/ status \in Terminal
       THEN Failed(class, history)
       ELSE pc' = "send" /\ attempt' = attempt + 1 /\ UNCHANGED telemetry

HTTPError ==
    /\ pc = "open"
    /\ \E code \in Retryable \union Terminal : GiveUpOrRetry("HTTP", code)
    /\ UNCHANGED <<body, sent, misread>>

\* A time-out or an URLError; in a read, after the status was noted.
TransportError ==
    /\ pc \in {"open", "read"}
    /\ GiveUpOrRetry("TRANSPORT", "TRANSPORT")
    /\ misread' = (misread \/ pc = "read")
    /\ UNCHANGED <<body, sent>>

Opened ==
    /\ pc = "open" /\ pc' = "read"
    /\ statuses' = Append(statuses, "OK")
    /\ UNCHANGED <<attempt, body, telemetry, sent, misread>>

\* A connection that breaks in another way is no exception this code or its
\* callers expect (http.client.HTTPException, ConnectionResetError).
Escape ==
    /\ pc \in {"open", "read"} /\ pc' = "escaped"
    /\ UNCHANGED <<attempt, statuses, body, telemetry, sent, misread>>

Oversized ==
    /\ pc = "read" /\ Failed("RESPONSE", statuses)
    /\ UNCHANGED <<statuses, body, sent, misread>>

Read ==
    /\ pc = "read" /\ pc' = "parse"
    /\ \E b \in Bodies : body' = {b}
    /\ UNCHANGED <<attempt, statuses, telemetry, sent, misread>>

-----------------------------------------------------------------------------
(* After the loop; UnicodeDecodeError is a ValueError nothing records.     *)
ParseValid ==
    /\ pc = "parse" /\ body = {"valid"} /\ pc' = "returned"
    /\ telemetry' = telemetry \union {Row("PASS", "none", statuses)}
    /\ UNCHANGED <<attempt, statuses, body, sent, misread>>

ParseMalformedAgain ==  \* a slip: an unusable answer is asked for again
    /\ pc = "parse" /\ body = {"malformed"}
    /\ GiveUpOrRetry("RESPONSE", "TRANSPORT")
    /\ UNCHANGED <<body, sent, misread>>

ParseMalformed ==
    /\ pc = "parse" /\ body = {"malformed"}
    /\ Failed("RESPONSE", statuses)
    /\ UNCHANGED <<statuses, body, sent, misread>>

ParseUndecodable ==
    /\ pc = "parse" /\ body = {"undecodable"} /\ pc' = "raised"
    /\ UNCHANGED <<attempt, statuses, body, telemetry, sent, misread>>

Next ==
    \/ Send \/ HTTPError \/ TransportError \/ Opened \/ Escape
    \/ Oversized \/ Read \/ ParseValid \/ ParseMalformed \/ ParseUndecodable

Spec == Init /\ [][Next]_vars

-----------------------------------------------------------------------------
(* What the citation run keeps: an exception makes a failed record.        *)
Kept == pc \in {"returned", "raised"}

\* _execute_one raises unless there is one row; nothing is kept then.
CitationKept == Kept /\ Cardinality(telemetry) = 1

CitationRecord(row) ==
    [completed |-> \/ pc = "returned" \/ row.status = "PASS"
                   \/ row.class = "RESPONSE",
     selection |-> pc = "returned",
     error |-> pc = "raised"]

\* What both checks ask of the statuses of a row.
HistoryAccepted(row) ==
    /\ Len(row.statuses) \in 1..(MaxRetries + 1)
    /\ \A i \in 1..(Len(row.statuses) - 1) :
        row.statuses[i] \in Retryable \union {"TRANSPORT"}
    /\ row.status = "PASS" => row.statuses[Len(row.statuses)] = "OK"

\* _validate_record, when a run is resumed or verified
CitationAccepts(row, record) ==
    /\ HistoryAccepted(row)
    /\ row.status = "PASS" => row.class = "none" /\ row.body # {}
    /\ IF record.completed
       THEN IF row.status = "FAIL" /\ row.class = "RESPONSE"
            THEN ~record.selection /\ record.error
            ELSE row.status = "PASS" /\ record.selection
       ELSE row.status = "FAIL" /\ ~record.selection /\ record.error

-----------------------------------------------------------------------------
\* A request is repeated after a transport failure or a retryable status only
\* (real_provider.py:359, 367): after a body or a final status nothing is sent.
AnswersAreFinal ==
    [][(body # {} \/ \E i \in DOMAIN statuses : statuses[i] \in Terminal)
           => sent' <= sent]_vars

\* Which records _validate_record refuses although they were kept as they
\* happened (citation_run.py:365-422): exactly those of calls one of whose
\* reads timed out.
RefusedExactly ==
    CitationKept =>
        \A row \in telemetry :
            CitationAccepts(row, CitationRecord(row)) <=> ~misread
=============================================================================
