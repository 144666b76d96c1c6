------------------------------- MODULE ArmRunner -------------------------------
(***************************************************************************)
(* One job of the matched run: ArmRunner._run_arm (runner.py) plays one    *)
(* sealed episode, asking a CompatibleHTTPProvider once per event, and     *)
(* verify_job_receipt (matched_run.py) decides whether what was kept may   *)
(* be written as the job's receipt.                                        *)
(*                                                                         *)
(* Facts, narratives, gate counters, canaries, plan commitments and        *)
(* lineages are left out: the check compares them and nothing changes      *)
(* them between the call and the check.                                    *)
(***************************************************************************)
EXTENDS ProviderCall, EpisodeVerifier, SequencesExt

CONSTANTS
    Episode,   \* see EpisodeVerifier
    Responses  \* provider responses, each [action, execute, refs]

\* The episodes are verified before a plan is made of them (runner.py:545).
ASSUME EpisodeAssumption == Consistent(Episode)
\* The schema's array and objects.
ASSUME ShapeAssumption ==
    /\ Episode.events \in Seq({Episode.events[i] : i \in DOMAIN Episode.events})
    /\ \A f \in {Episode.initial, Episode.final} : f = [o \in DOMAIN f |-> f[o]]

Objects == DOMAIN Episode.initial
Events == Episode.events
Script == {Events[i] : i \in DOMAIN Events}

VARIABLES
    objects,  \* states
    ok,       \* episode_ok
    records,  \* one per event played
    rows,     \* the provider's telemetry of this job
    verdict,  \* "running", "lost", "verified", "refused"
    doneBy,   \* history: {} or {who applied the event}
    flaws     \* history: "misread", "unusable" calls

call == <<pc, attempt, statuses, body, telemetry, sent, misread>>
job == <<objects, ok, records, rows, verdict, doneBy, flaws>>

JobInit ==
    /\ Init
    /\ objects = Episode.initial /\ ok = TRUE /\ records = <<>> /\ rows = <<>>
    /\ verdict = "running"
    /\ doneBy = [e \in Script |-> {}] /\ flaws = {}

-----------------------------------------------------------------------------
(* One event, judged; the replay of a receipt judges the same way.         *)
Cited(e, r) == r.refs # {} /\ r.refs \subseteq e.refs

Authorized(e, r) ==
    /\ r.action \in DOMAIN Episode.authorization
    /\ Episode.role[e.actor] \in Episode.authorization[r.action]

\* _apply_mutations, on a copy: all mutations or none
Possible(e, states) ==
    \A o \in DOMAIN e.mutations : states[o] = e.mutations[o].from

AppliesAnyway(e, r, states) ==  \* a slip: the versions are not looked at
    /\ r.action = e.action /\ Cited(e, r) /\ r.execute /\ Authorized(e, r)

Applies(e, r, states) ==
    /\ r.action = e.action /\ Cited(e, r) /\ r.execute /\ Authorized(e, r)
    /\ Possible(e, states)

Moved(e, states) ==
    [o \in Objects |-> IF Moves(e, o) THEN e.mutations[o].to ELSE states[o]]

Judged(e, r, states) ==
    [event |-> e.id, response |-> {r}, error |-> {},
     action_match |-> r.action = e.action, citation_supported |-> Cited(e, r),
     mutation_applied |-> Applies(e, r, states)]

Unanswered(e, error) ==
    [event |-> e.id, response |-> {}, error |-> {error}, action_match |-> FALSE,
     citation_supported |-> FALSE, mutation_applied |-> FALSE]

\* episode_ok and action_ok and citation_ok and applied
Good(record) ==
    record.action_match /\ record.citation_supported /\ record.mutation_applied

Completed(fine, states) == fine /\ states = Episode.final

-----------------------------------------------------------------------------
(* The loop over the events *)
Here == Len(records) + 1
Asking == verdict = "running" /\ Here <= Len(Events)

Ask == Asking /\ Next /\ UNCHANGED job

\* The call has ended; the next one starts afresh.
EndCall ==
    /\ pc' = "send" /\ attempt' = 0 /\ statuses' = <<>> /\ body' = {}
    /\ telemetry' = {} /\ sent' = 0 /\ misread' = FALSE
    /\ rows' = rows \o SetToSeq(telemetry)
    /\ flaws' = flaws \union (IF misread THEN {"misread"} ELSE {})
                      \union (IF body \in {{}, {"valid"}} THEN {} ELSE {"unusable"})
    /\ UNCHANGED verdict

Judge ==
    /\ Asking /\ pc = "returned" /\ EndCall
    /\ \E r \in Responses :
        LET e == Events[Here]
            record == Judged(e, r, objects)
        IN  /\ records' = Append(records, record)
            /\ ok' = (ok /\ Good(record))
            /\ IF record.mutation_applied
               THEN /\ objects' = Moved(e, objects)
                    /\ doneBy' = [doneBy EXCEPT ![e] = {e.actor}]
               ELSE UNCHANGED <<objects, doneBy>>

SkipQuietly ==  \* a slip: an unanswered event does not fail the episode
    /\ Asking /\ pc = "raised" /\ EndCall
    /\ records' = Append(records, Unanswered(Events[Here], "provider"))
    /\ UNCHANGED <<ok, objects, doneBy>>

\* A provider error: the event is skipped, the arm goes on.
Skip ==
    /\ Asking /\ pc = "raised" /\ EndCall
    /\ records' = Append(records, Unanswered(Events[Here], "provider"))
    /\ ok' = FALSE
    /\ UNCHANGED <<objects, doneBy>>

\* An exception the runner does not expect ends the command; the marker of
\* the job stays (Fail of MatchedJobs).
Lose ==
    /\ Asking /\ pc = "escaped" /\ verdict' = "lost"
    /\ UNCHANGED <<call, objects, ok, records, rows, doneBy, flaws>>

-----------------------------------------------------------------------------
(* verify_job_receipt: rows and records pair up, each row's history is      *)
(* possible, and _run_arm over the kept responses gives what was kept.      *)
HistoryFits(row, record) ==
    /\ HistoryAccepted(row)
    /\ (row.status = "PASS") <=> (record.response # {})

\* _ReceiptReplayProvider.act: the kept error is raised again only when the
\* row of the failed call has no response_sha256.
Replayed(record, row, e, states) ==
    IF record.response # {}
    THEN Judged(e, CHOOSE r \in record.response : TRUE, states)
    ELSE Unanswered(e, IF row.status = "FAIL" /\ row.body = {}
                       THEN CHOOSE x \in record.error : TRUE
                       ELSE "evidence differs")

ReplayStep(run, i) ==
    LET record == Replayed(records[i], rows[i], Events[i], run.states)
    IN  [states |-> IF record.mutation_applied
                    THEN Moved(Events[i], run.states) ELSE run.states,
         fine |-> run.fine /\ Good(record),
         records |-> Append(run.records, record)]

\* The run over the first n kept responses.
Replay[n \in 0..Len(Events)] ==
    IF n = 0
    THEN [states |-> Episode.initial, fine |-> TRUE, records |-> <<>>]
    ELSE ReplayStep(Replay[n - 1], n)

Verifies ==
    /\ Len(rows) = Len(records)
    /\ \A i \in DOMAIN records : HistoryFits(rows[i], records[i])
    /\ LET run == Replay[Len(Events)]
       IN  /\ run.records = records
           /\ Completed(run.fine, run.states) = Completed(ok, objects)

VerifyUnbound ==  \* a slip: the rows are not compared with the records
    /\ verdict = "running" /\ Here > Len(Events)
    /\ verdict' = IF Len(rows) = Len(records) THEN "verified" ELSE "refused"
    /\ UNCHANGED <<call, objects, ok, records, rows, doneBy, flaws>>

Verify ==
    /\ verdict = "running" /\ Here > Len(Events)
    /\ verdict' = IF Verifies THEN "verified" ELSE "refused"
    /\ UNCHANGED <<call, objects, ok, records, rows, doneBy, flaws>>

JobNext == Ask \/ Judge \/ Skip \/ Lose \/ Verify

JobSpec == JobInit /\ [][JobNext]_<<call, job>>

-----------------------------------------------------------------------------
\* An episode counts as completed exactly when every one of its events was
\* answered, matched, cited and applied: no event that was skipped, not even
\* one that moves nothing, is made good by the ones after it, and the final
\* states follow from the events (runner.py:315-344, 396-421).
CompletedIsEarned ==
    Here > Len(Events) =>
        (Completed(ok, objects) <=> \A i \in DOMAIN records : Good(records[i]))

\* A receipt is refused exactly when a read of the job timed out after its
\* status or an answer could not be used (matched_run.py:619-629, 796-823).
VerifiedExactly ==
    /\ verdict = "verified" => flaws = {}
    /\ verdict = "refused" => flaws # {}

\* Each event is applied in whole, from the states it names, once, by its
\* actor: skipped events leave the later ones nothing to build on.
Contract == INSTANCE EpisodeContract WITH
    rights <- [e \in Script |-> {a \in DOMAIN Episode.role :
                  Episode.role[a] \in Episode.authorization[e.action]}]

ImplementsContract == Contract!CSpec

\* The matched run "writes independently verifiable per-job receipts"
\* (matched_run.py:6-7): no job that was executed ends without one.
ReceiptsAreVerified == verdict # "refused"
=============================================================================
