------------------------------- MODULE PanelRun -------------------------------
(***************************************************************************)
(* banking_v3/panel.py: every model of a panel plays every case once.  A   *)
(* unit of work is one case played by one model; run_case saves the answer *)
(* to each turn before it uses it, and a record when the case has ended.   *)
(* The command is run again after it was killed; run_case then replays the *)
(* saved answers through a fresh environment and goes on from there.       *)
(*                                                                         *)
(* The environment is deterministic (BankingEnv), so an answer is kept by  *)
(* what it does to the loop: the outcome it leads to, "act" when the case  *)
(* goes on, and what the provider says of it, the tokens and the model.    *)
(* It is checkpointed before it is looked at.  A "malformed" one is JSON   *)
(* of a shape the loop has no check for (a message that is null, a usage   *)
(* that is a list): using it raises, in this run and in every later one.   *)
(***************************************************************************)
EXTENDS Integers, Sequences, FiniteSets

CONSTANTS
    Arms, Cases,  \* the models of the panel, the cases of the package
    Workers,      \* workers_per_model
    Configs,      \* configurations the command may be started with
    TurnLimit, Budget, PerTurn,  \* turn_limit, case and turn_output_tokens
    Least,        \* the least budget a turn is given, 128
    Reports,      \* what a provider says of an answer: completion_tokens, any
                  \* integer, and model, given by the kind of JSON value it is
    Attempts,     \* HTTP attempts of one request
    Failures,     \* outcomes other than "closed" an answer may lead to
    MaxLosses     \* bound on how often a run is killed or a case raises

ASSUME LimitsAssumption ==
    /\ Workers \in Nat \ {0} /\ TurnLimit \in Nat \ {0}
    /\ Budget \in Nat /\ PerTurn \in Nat \ {0} /\ Least \in Nat
    /\ Attempts \in Nat \ {0} /\ MaxLosses \in Nat
ASSUME ReportsAssumption ==
    Reports \subseteq [tokens : Int, model : {"string", "null", "number"}]
ASSUME FailuresAssumption ==
    Failures \subseteq {"provider_error", "invalid_response", "usage_missing",
                        "response_token_limit", "invalid_json"}

Units == Arms \X Cases

Smaller(a, b) == IF a <= b THEN a ELSE b
Uncounted == {"provider_error", "usage_missing"}

\* The answers a turn may get when it asks for at most max tokens; models is
\* what using one adds to actual_models.  An invalid response is counted when
\* it is an object without a usable message.
Answers(max) ==
    {[max |-> max, leads |-> l, tokens |-> report.tokens,
      models |-> {report.model}] :
        l \in {"act", "closed"} \union (Failures \ Uncounted), report \in Reports}
    \union [max : {max}, tokens : {0}, models : {{}},
            leads : {"malformed"} \union
                    (Failures \intersect (Uncounted \union {"invalid_response"}))]

VARIABLES
    plan,     \* {} or {the configuration in plan.json}
    saved,    \* the turns each unit has on file
    record,   \* {} or {record.json} of each unit
    report,   \* {} or {the records report.json was made from}
    running,  \* {} or {the configuration of the command that runs}
    at,       \* what the worker of each unit is doing
    turn, spent, outcome, got, tries,  \* the local variables of run_case
    answered, \* history: how often each turn was answered
    losses

files == <<plan, saved, record, report>>
locals == <<at, turn, spent, outcome, got, tries>>
vars == <<files, running, locals, answered, losses>>

Fresh(what) ==
    /\ at' = [u \in Units |-> what]
    /\ turn' = [u \in Units |-> 0] /\ spent' = [u \in Units |-> 0]
    /\ outcome' = [u \in Units |-> "turn_limit"]
    /\ got' = [u \in Units |-> {}] /\ tries' = [u \in Units |-> 0]

Init ==
    /\ plan = {} /\ saved = [u \in Units |-> <<>>]
    /\ record = [u \in Units |-> {}] /\ report = {}
    /\ running = {} /\ at = [u \in Units |-> "queued"]
    /\ turn = [u \in Units |-> 0] /\ spent = [u \in Units |-> 0]
    /\ outcome = [u \in Units |-> "turn_limit"]
    /\ got = [u \in Units |-> {}] /\ tries = [u \in Units |-> 0]
    /\ answered = [u \in Units |-> [t \in 1..TurnLimit |-> 0]]
    /\ losses = 0

-----------------------------------------------------------------------------
(* run_panel: the lock admits one command, the plan must not have drifted *)
BeginDrifting(c) ==  \* a slip: an existing plan is not compared
    /\ running = {}
    /\ plan' = {c} /\ running' = {c}
    /\ UNCHANGED <<saved, record, report, locals, answered, losses>>

Begin(c) ==
    /\ running = {} /\ plan \subseteq {c}
    /\ plan' = {c} /\ running' = {c}
    /\ UNCHANGED <<saved, record, report, locals, answered, losses>>

-----------------------------------------------------------------------------
(* run_case *)
InProgress(arm) ==
    {u \in Units : u[1] = arm /\ at[u] \notin {"queued", "returned", "raised"}}

\* A worker of the arm's pool takes the case; a record on file ends it.
Take(u) ==
    /\ running # {} /\ at[u] = "queued"
    /\ Cardinality(InProgress(u[1])) < Workers
    /\ at' = [at EXCEPT ![u] = IF record[u] = {} THEN "looping" ELSE "returned"]
    /\ UNCHANGED <<files, running, turn, spent, outcome, got, tries, answered,
                   losses>>

Remaining(u) == Budget - spent[u]
MaxTokens(u) == Smaller(Remaining(u), PerTurn)
TurnLeft(u) == turn[u] < TurnLimit
BudgetLeft(u) == Remaining(u) >= Least

Leave(u) ==
    /\ at[u] = "looping" /\ ~(TurnLeft(u) /\ BudgetLeft(u))
    /\ at' = [at EXCEPT ![u] = "ending"]
    /\ outcome' = [outcome EXCEPT ![u] =
                     IF TurnLeft(u) THEN "case_token_limit" ELSE @]
    /\ UNCHANGED <<files, running, turn, spent, got, tries, answered, losses>>

\* What the loop does with the answer to a turn, new or saved.
Use(u, row) ==
    /\ turn' = [turn EXCEPT ![u] = @ + 1]
    /\ spent' = [spent EXCEPT ![u] = @ + row.tokens]
    /\ at' = [at EXCEPT ![u] = CASE row.leads = "act" -> "looping"
                                 [] row.leads = "malformed" -> "raised"
                                 [] OTHER -> "ending"]
    /\ outcome' = IF row.leads \in {"act", "malformed"} THEN outcome
                  ELSE [outcome EXCEPT ![u] = row.leads]

OnFile(u) == turn[u] < Len(saved[u])
Playing(u) == at[u] = "looping" /\ TurnLeft(u) /\ BudgetLeft(u)

ReloadUncharged(u) ==  \* a slip: a saved answer costs no tokens
    /\ Playing(u) /\ OnFile(u)
    /\ LET row == saved[u][turn[u] + 1] IN
        row.plan = running /\ Use(u, [row EXCEPT !.tokens = 0])
    /\ UNCHANGED <<files, running, got, tries, answered, losses>>

\* The saved answer must be to the very same model input.
Reload(u) ==
    /\ Playing(u) /\ OnFile(u)
    /\ LET row == saved[u][turn[u] + 1] IN
        row.max = MaxTokens(u) /\ row.plan = running /\ Use(u, row)
    /\ UNCHANGED <<files, running, got, tries, answered, losses>>

AskAgain(u) ==  \* a slip: the turns on file are not looked at
    /\ Playing(u)
    /\ at' = [at EXCEPT ![u] = "asking"] /\ tries' = [tries EXCEPT ![u] = 0]
    /\ UNCHANGED <<files, running, turn, spent, outcome, got, answered, losses>>

Ask(u) ==
    /\ Playing(u) /\ ~OnFile(u)
    /\ at' = [at EXCEPT ![u] = "asking"] /\ tries' = [tries EXCEPT ![u] = 0]
    /\ UNCHANGED <<files, running, turn, spent, outcome, got, answered, losses>>

-----------------------------------------------------------------------------
(* request: the same body again after a transport or service failure *)
Receive(u, row) ==
    /\ got' = [got EXCEPT ![u] = {[max |-> row.max, leads |-> row.leads,
                                   tokens |-> row.tokens,
                                   models |-> row.models, plan |-> running]}]
    /\ at' = [at EXCEPT ![u] = "answered"]

AnswerOrRetry(u) ==  \* a slip: an answer is retried when it cannot be used
    /\ at[u] = "asking"
    /\ \E row \in Answers(MaxTokens(u)) :
        IF row.leads = "invalid_json" /\ tries[u] + 1 < Attempts
        THEN tries' = [tries EXCEPT ![u] = @ + 1] /\ UNCHANGED <<got, at>>
        ELSE Receive(u, row) /\ UNCHANGED tries
    /\ answered' = [answered EXCEPT ![u][turn[u] + 1] = @ + 1]
    /\ UNCHANGED <<files, running, turn, spent, outcome, losses>>

\* A successful answer, or an error that ends the request.
Answer(u) ==
    /\ at[u] = "asking"
    /\ \E row \in Answers(MaxTokens(u)) : Receive(u, row)
    /\ answered' = [answered EXCEPT ![u][turn[u] + 1] = @ + 1]
    /\ UNCHANGED <<files, running, turn, spent, outcome, tries, losses>>

\* HTTP 5xx, most 429, a broken connection; the last attempt is final.
Unanswered(u) ==
    /\ at[u] = "asking" /\ "provider_error" \in Failures
    /\ tries[u] + 1 < Attempts
    /\ tries' = [tries EXCEPT ![u] = @ + 1]
    /\ UNCHANGED <<files, running, at, turn, spent, outcome, got, answered,
                   losses>>

\* atomic_json(path, row), then the loop goes on with the row.
Save(u) ==
    /\ at[u] = "answered"
    /\ \E row \in got[u] :
        saved' = [saved EXCEPT ![u] = Append(@, row)] /\ Use(u, row)
    /\ got' = [got EXCEPT ![u] = {}]
    /\ UNCHANGED <<plan, record, report, running, tries, answered, losses>>

\* sorted(actual_models) compares names of one kind only.
Unsortable(models) == Cardinality(models) > 1
ModelsIn(rows) == UNION {rows[t].models : t \in DOMAIN rows}

\* The record is written once the replayed grade agrees.
Finish(u) ==
    /\ at[u] = "ending" /\ ~Unsortable(ModelsIn(saved[u]))
    /\ record' = [record EXCEPT ![u] =
         {[outcome |-> outcome[u], turns |-> turn[u], tokens |-> spent[u]]}]
    /\ at' = [at EXCEPT ![u] = "returned"]
    /\ UNCHANGED <<plan, saved, report, running, turn, spent, outcome, got,
                   tries, answered, losses>>

FailToFinish(u) ==
    /\ at[u] = "ending" /\ Unsortable(ModelsIn(saved[u]))
    /\ at' = [at EXCEPT ![u] = "raised"]
    /\ UNCHANGED <<files, running, turn, spent, outcome, got, tries, answered,
                   losses>>

\* Anything request does not catch ends the case, not its arm; an answer it
\* cannot read (a JSON list, say) has been given but is not saved.
Raise(u) ==
    /\ at[u] = "asking" /\ losses < MaxLosses
    /\ at' = [at EXCEPT ![u] = "raised"] /\ losses' = losses + 1
    /\ \/ UNCHANGED answered
       \/ answered' = [answered EXCEPT ![u][turn[u] + 1] = @ + 1]
    /\ UNCHANGED <<files, running, turn, spent, outcome, got, tries>>

Play(u) ==
    \/ Take(u) \/ Leave(u) \/ Reload(u) \/ Ask(u) \/ Answer(u) \/ Unanswered(u)
    \/ Save(u) \/ Finish(u) \/ FailToFinish(u)

-----------------------------------------------------------------------------
(* The arms end, and the report is written when none of them raised *)
Ended == {u \in Units : at[u] \in {"returned", "raised"}}

EachArmReturned ==  \* a slip: the first case of an arm ends it
    running # {} /\ \A m \in Arms : \E c \in Cases : at[<<m, c>>] = "returned"

AllReturned == running # {} /\ \A u \in Units : at[u] = "returned"

\* summarize sorts the names its records give, over the cases of an arm.
Summarized(arm) ==
    ~Unsortable(UNION {ModelsIn(saved[<<arm, c>>]) : c \in Cases})

Report ==
    /\ AllReturned /\ \A m \in Arms : Summarized(m)
    /\ report' = {record} /\ running' = {} /\ Fresh("queued")
    /\ UNCHANGED <<plan, saved, record, answered, losses>>

GiveUp ==
    /\ running # {} /\ Ended = Units
    /\ ~(AllReturned /\ \A m \in Arms : Summarized(m))
    /\ running' = {} /\ Fresh("queued")
    /\ UNCHANGED <<files, answered, losses>>

\* The command is killed; the system releases its lock.
Kill ==
    /\ running # {} /\ losses < MaxLosses /\ losses' = losses + 1
    /\ running' = {} /\ Fresh("queued")
    /\ UNCHANGED <<files, answered>>

Next ==
    \/ \E c \in Configs : Begin(c)
    \/ \E u \in Units : Play(u) \/ Raise(u)
    \/ Report \/ GiveUp \/ Kill

Spec == Init /\ [][Next]_vars
FairSpec ==
    /\ Spec /\ WF_vars(Report \/ GiveUp \/ \E c \in Configs : Begin(c))
    /\ \A u \in Units : WF_vars(Play(u))

-----------------------------------------------------------------------------
\* What had been spent after each of the answers.
RunningTotal(rows) ==
    LET total[t \in 0..Len(rows)] ==
            IF t = 0 THEN 0 ELSE total[t - 1] + rows[t].tokens
    IN  total

\* Every saved answer can be replayed: its input is the one a fresh run of the
\* same plan would send, whatever runs were killed in between (panel.py:144), and
\* asks for no more than is left of the budget (panel.py:136-140).
Replayable ==
    \A u \in Units : LET total == RunningTotal(saved[u]) IN
        \A t \in DOMAIN saved[u] :
            /\ Budget - total[t - 1] >= Least /\ saved[u][t].plan = plan
            /\ saved[u][t].max = Smaller(Budget - total[t - 1], PerTurn)
            /\ t < Len(saved[u]) => saved[u][t].leads = "act"

\* The outcome the saved answers alone determine.
OutcomeOf(rows) ==
    IF rows # <<>> /\ rows[Len(rows)].leads # "act" THEN rows[Len(rows)].leads
    ELSE IF Len(rows) = TurnLimit THEN "turn_limit" ELSE "case_token_limit"

\* An answer on file stops its case: using it raises, or makes the names of
\* the models such that sorting them raises.
Stuck(u) ==
    \/ \E t \in DOMAIN saved[u] : saved[u][t].leads = "malformed"
    \/ Unsortable(ModelsIn(saved[u]))

\* A record says what an uninterrupted run over the same answers would have
\* said, however often the run that wrote it was interrupted; there is none of
\* a case that such a run could not have finished.
RecordsAreReplays ==
    \A u \in Units : \A r \in record[u] :
        /\ r = [outcome |-> OutcomeOf(saved[u]), turns |-> Len(saved[u]),
                tokens |-> RunningTotal(saved[u])[Len(saved[u])]]
        /\ ~Stuck(u)

\* The report speaks for every case of every arm, and for the records that
\* are on file now (doc: "No case is silently dropped").
ReportIsWhole ==
    \A r \in report : r = record /\ \A u \in Units : record[u] # {}

\* Each kill or raise costs a turn at most one more sample: an answer is
\* never asked again for what it says (panel.py:64).
SamplesAreBounded ==
    \A u \in Units : \A t \in 1..TurnLimit : answered[u][t] <= losses + 1

\* A saved turn is neither replaced nor sampled again.
SavedIsFinal ==
    [][\A u \in Units : \A t \in DOMAIN saved[u] :
        /\ t \in DOMAIN saved'[u] /\ saved'[u][t] = saved[u][t]
        /\ answered'[u][t] = answered[u][t]]_vars

\* A panel that is run again often enough ends with its report, unless what is
\* on file stops a case or the summary of an arm: it then never does, however
\* often it is run again (panel.py:149, :164, :198).
Settles ==
    <>[](report = {} <=>
            \/ \E u \in Units : Stuck(u)
            \/ \E m \in Arms : ~Summarized(m))
=============================================================================
