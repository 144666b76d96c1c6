# A TLA+ model of BankingEnv / cleanroom-eval 2.1.1

This directory is a verification development kept beside the code in `src/`:
TLA+ modules translated from the Python source, TLC configurations that check
them on small instances, and theorems that TLAPS proves for every value of the
constants.

## 1. Inventory

The repository holds three generations of one idea: put an agent (a language
model or a script) behind a small tool interface, let it operate a fictitious
banking case, and grade what it did from state the agent cannot touch.

| component | source | state it keeps | operations |
|---|---|---|---|
| case environment | `banking_v3/environment.py`, `rules.py` | per case: `_read`, `_requests` (idempotency table), `_inspected`, `_state` (version, status, value, assessment, approval, receipt, closure, business objects, journal), `_safety`, `_closed` | `read_document`, `inspect`, `assess`, `request_approval`, `execute`, `escalate`, `close`, `grade` |
| reference rollout, replay, adversarial validation | `banking_v3/evaluate.py` | the list of requests sent | `reference_rollout`, `replay`, `attacks`, `validate_dataset` |
| model panel | `banking_v3/panel.py` | on disk: `.lock`, `plan.json`, `turn-NN.json`, `record.json`, `progress.json`, `report.json`; in memory: the environment, the messages, the token count | `run_panel`, `arm`, `run_case`, `request`, `atomic_json`, crash and restart |
| evaluation flows | `banking_v3/flow.py`, `provider.py` | output directory, policy telemetry | `evaluate`, `regenerate`, `grade_transcripts` |
| package contract, generator | `banking_v3/contract.py`, `generate.py` | dataset directories, manifests | `load_package`, `validate_case`, `generate` |
| episode sessions | `cleanroom_corpus/eval_adapters.py` | `_states`, `_requests`, `_receipts`, `_applied_transitions`, `_event_index`, `_last_rejection`, `_trajectory` | `_invoke_free`, `_invoke` (replay), `observable_instruction`, `is_complete`, `state_changes_outside_contract` |
| episode contract | `cleanroom_eval/contract.py` | none (pure verification) | `evaluate_episode` |
| free run | `cleanroom_eval/free_run.py` | per episode counters, transcript | `run_episode`, `run`, policies |
| arm runner | `cleanroom_eval/runner.py` | object states, receipts, gate counters | `_run_arm`, `run`, `verify_run_receipt` |
| matched run | `cleanroom_eval/matched_run.py` | on disk: the plan, the readiness report, one receipt per job, one `started` marker per job in flight | `prepare`, `execute`, `status`: `build_run_plan`, `verify_run_plan`, `execute_pending_jobs`, `verify_job_receipt`, `build_readiness_report` |
| citation run | `cleanroom_eval/citation_run.py` | on disk: `run-config.json`, `records/`, `started/`, `receipt.json`, `run-manifest.json`; in memory: worker pool, rate limiter | `run`, `_execute_one`, `verify_run`, `RateLimiter.wait` |
| HTTP providers | `real_provider.py`, `citation_provider.py`, `free_run.py`, `banking_v3/provider.py`, `panel.request` | telemetry | bounded retry of one logical call |
| citations, tasks, acceptance | `citations.py`, `citation_tasks.py`, `citation_acceptance.py` | none / receipt | `validate_selection`, `render_selection`, `run_citation_acceptance` |
| analysis and reports | `strategy_metrics.py`, `benchmark.py`, `compare.py`, `cost_grader.py`, `aiuc1.py`, `panel_report.py` | report files | pure functions of run files |
| asset builders | `build_sealed_episodes*.py`, `build_citation_tasks.py`, `eval_export.py`, `episode_contract.py` | asset files | deterministic generation |
| evidence and certificates | `evidence/bind_gates_evidence.py`, `issue_certificates.py`, `fire_gates.py` | runs store, evidence pack, certificates, ledger | `preregister`, `report`, `build`, `verify`, `assemble` |
| release | `release/build_release_candidate.py`, `banking_v3/release.py` | archive, audit report, exported tree, EXPORT-OK | `build_archive`, the gates, `terminal_state`, `export_release` |
| certification | `certify.py` | a report | a sequential evaluation over the files of one engagement |

### How the parts interact

* The **case environment** is a passive object: the panel, the flows and the
  replay call `step()` and `grade()` on it, one request at a time. It is
  deterministic, which is what makes saved answers replayable.
* The **panel** runs one pool of threads per model. A thread owns one case: it
  asks the provider, saves the answer (`turn-NN.json`), feeds it to its own
  environment, and writes `record.json`. Threads share only the plan and the
  directory; a lock file keeps a second command out.
* An **episode session** is the same idea for the older episodes: a policy
  (free run), a provider (arm runner) or the script (replay mode) invokes
  adapters of one session.
* The **matched run** and the **citation run** are resumable commands around
  paid provider calls. Their processes communicate with later runs only
  through names in a directory: a `started` marker and a receipt or record per
  call. The citation run uses a worker pool behind one **rate limiter**.
* The **operator's commands** (prepare a plan, build and verify the evidence
  pack, issue certificates, audit and export a release) read many files one
  after another, most of them twice: once to hash, once to load. Runs go on and
  people edit meanwhile; nothing locks the files.
* Everything else reads finished files.

### What is hard, and what makes each part correct

| part | hard behaviour | correct when |
|---|---|---|
| case environment | retransmissions, stale and conflicting requests, denied attempts, any order of tools | every accepted request is applied once and in version order; money moves only under the controls; the receipt, the outcome and the grade are final |
| adversarial replay | one fault in an otherwise perfect rollout | no single fault ever grades as complete, the reference always does |
| panel | kills and exceptions between answer, checkpoint and record; budget carried over a resume | a resumed case ends as an uninterrupted one would have; the report speaks for every case |
| episode session | transitions applied in another order than scripted; request IDs used again | both modes keep one contract, and no order leads to a dead end |
| matched run | process kill or power loss between any two file operations | each repeat of a job took a power loss, and besides it a kill or the loss of a new directory above the receipts; where only processes are killed, or the directory's parent was on disk and only power is lost, no job is paid twice, a reported receipt survives, an offer for attestation stands |
| citation run | as above, with concurrent workers and cancellation, without directory fsync | no call is repeated unless the machine stopped, one configuration, seals speak for all tasks |
| HTTP providers | failures before and after a status, unusable answers | answers end a call, and what is kept of it is what its check accepts |
| arm runner | calls that fail in the middle of an episode | a step is applied in whole or not at all; only an episode answered throughout is completed |
| free run | a failing endpoint, a search that learns from rejections, several episodes under one policy | verdicts are those of the session, the search completes every episode, every run ends |
| rate limiter | threads that wake late | the rate holds over every stretch of time up to one call per thread |
| episode contract | what it accepts, a session has to play in both modes, in any order | no accepted episode leads a session to a dead end |
| citations and acceptance | evidence cited again, failed calls that drop out of counts, runs resumed from files | a citation names what cites it, a directory that verifies as a pass has earned it |
| matched plan | artifacts replaced between the hash and the reading of a file, and between prepare and execute | only a plan of one state of all artifacts is run or reported ready |
| evidence pack, certificates | a run that begins, ends or dies while the pack is being built, verified or certified, and may bring back results seen before; a report made in several steps | what a check passed is true of the files whose hashes it names |
| release | files edited during the two passes, commands killed between two writes, a verdict that ignores some gates | what was exported is what was audited, and nothing that must not leave is in it |

## 2. Plan

The modules in the order they were written, the most important behaviour of
the system first. All of it is done.

1. `BankingEnv` and its abstract specification `CaseControl` (refinement);
   `BankingReplay`, composed of its actions.
2. `Durability`, the file system as the resumable commands see it;
   `MatchedJobs` and its abstract specification `CallLedger` (refinement);
   `CitationRun`, on `Durability`; `PanelRun`; `RateLimiter`.
3. `EpisodeSession` and its abstract specification `EpisodeContract`
   (refinement of both modes).
4. `ProviderCall`, one logical call; `ArmRunner` around it; `FreeRun` around
   the sessions of `EpisodeSession`.
5. The pure parts, inside the systems that use them: `EpisodeVerifier` decides
   which episodes a session or an arm gets, `CitationAnswers` what a citation
   record says and whether a run passes.
6. The operator's commands: `OperatorDesk`, on it `MatchedPlan`, `EvidencePack`
   and `ReleaseAudit`, composed in `OperatorCommands`.
7. Theorems for all of them.

What could come next: a second execute command on one receipt directory.

## 3. The modules

**`BankingEnv`** (`environment.py`, `rules.py`). One variable per attribute of
`Environment`; `_state` is spread over `version` to `journal`. One action per
tool; each is a disjunction of its outcomes in the order of the code's early
returns: the screens of `_mutate` (`Replay`, `Conflict`, `LateRequest`,
`StaleRequest`), the tool's refusals, the accepted change. `Complete` is the
verdict of `grade()`. A digest is injective and stands for what it was computed
from, so a receipt id is the request that produced it; `None` is the empty set.
`target_value`, the arithmetic that computes the right amount from the
documents, is an attribute of the case.

**`CaseControl`** says what the environment promises without requests, keys,
versions and receipts. `ImplementsControl` is the refinement. `VerdictsStand`
joins the two things that can be said of a case for good: a failed control and
a complete grade.

**`BankingReplay`** (`evaluate.py`) sends the reference rollout of a case, or
one of the variants of `attacks`, through the environment's actions, and may
retransmit any request it has sent. `send` makes keys of positions, so the keys
are numbers here (`PositionsAssumption`).

**`Durability`** has two operators: `Synced`, what a directory fsync does to
the entries on disk, and `Survivors`, the sets of entries a machine may find
after it stopped. Both resumable commands keep `live`, the names processes see,
and `disk`, those that would survive.

**`MatchedJobs`** (`matched_run.py`). `pc` walks through
`execute_pending_jobs` one file-system operation at a time: `mkdir`, rename,
unlink and each directory fsync are separate steps, so a loss may fall between
any two. `_atomic_json` fsyncs the file before it renames it, so a name is a
whole file. `--receipt-dir` may be nested and new: `mkdir(parents=True)` makes
what is missing from the top down (`MakeParents`, `OpenDirectory`), and only the
parent of the last level is fsynced. `OuterDir` stands for all the levels above
it that a run has made; when any of them is lost, everything below is. `Readiness`
is the status `build_readiness_report` gives. Two things are chosen once for a
history: `ending`, whether runs end early by kills, by power losses or by both in
any order, and `placed`, whether the parent of the receipt directory was on disk
from the start. `kills` and `stops` count the ends, `uprooted` the stops that took
a directory above the receipts. `SendsAreBounded` says for every history what is
left of "at most once"; the other promises are those of a history of one way
(`OneWay`: only kills, or only power losses with the parent in place), and
section 5 says why.

**`CallLedger`** is the abstract promise: a call is made at most once and its
answer, once kept, stays.

**`CitationRun`** (`citation_run.py`). `phase` is the main thread (scan, pool,
cancelled, seal), `task` what each worker is doing between the steps of
`_execute_one`. The command is rerun with any of `Configs`. `ending` says, once
for a history, whether runs are cut short by kills or by power losses. A record
that `_validate_record` will refuse is written like any other and stops the run
when it is resumed (`ScanRejected`); `ProviderCall` says which are. `Verifies`
is what `verify_run` accepts, after the run or in a command of its own.

**`CitationAnswers`** (`citations.py`, `citation_run.py`,
`citation_acceptance.py`) has no state: the validation and the rendering of a
selection, the record of a call and its check, the counts and the status of an
acceptance. `CitationRun` makes its records and seals of these operators.

**`ProviderCall`** (`real_provider.py`, `citation_provider.py`, whose loops are
the same). One action per way an attempt can go on: refused, broken off before
or after its status, too large, read. `telemetry` is the row the call leaves,
`CitationRecord` what `_execute_one` keeps of it and `CitationAccepts` what
`_validate_record` asks. `Answer` and `Raise` of `CitationRun` are such a call
seen from outside: it ends with a row that is kept, or without one.

**`ArmRunner`** (`runner.py`, `matched_run.py`) extends `ProviderCall`: each
event of one episode is a call (`Ask`), judged when it is answered (`Judge`) and
skipped when it is not (`Skip`). `Verify` is `verify_job_receipt`: the rows and
records pair up, and judging the kept answers again, with the kept failures
raised again (`Replayed`), gives the kept records. `Call`, `Fail` and `Record`
of `MatchedJobs` are such a job seen from outside: it ends verified and is
recorded, or refused or lost, which are both `Fail`. Gate counters, canaries
and commitments are left out.

**`FreeRun`** (`free_run.py`) extends `EpisodeSession`: a new session for each
episode, the loop of `run_episode` (`NextTurn`, `StopComplete`, `OutOfTurns` for
the loop's `else`), and what a policy does in a turn. `SearchOn` and
`SearchAgain` are the boundary search, which may try its combinations in any
order here; `Propose`, `Decline` and the failures are a model behind an
endpoint. `EndEpisode` records the outcome. A proposal whose surface is neither
a string nor null is left out.

**`RateLimiter`** (`citation_run.py`, the class). `Reserve` is the critical
section, `Depart` the return from `sleep`, which may be late by any amount.

**`PanelRun`** (`panel.py`). A unit is a model and a case. `at`, `turn`,
`spent`, `outcome`, `got`, `tries` are the locals of `run_case` and `request`;
`saved` the turn files, `record` and `report` the other files. Answers are
identified with the outcome they lead to and with what the provider says of
them: `completion_tokens`, any integer (negative, or more than were asked for),
and the kind of value its model's name is. A `"malformed"` answer is JSON of a
shape that `run_case` has no check for; `Use` raises on it, after it was saved and
again whenever it is reloaded. `FailToFinish` is the `sorted` over the names of
models in a record, which raises when they are of different kinds
(`Unsortable`).

**`EpisodeVerifier`** (`contract.py`) is `evaluate_episode`: one operator per
check, and `Accepted`, their conjunction with what the adversarial mutations
must be refused for. The state the code's replay has reached before an event is
a closed form, the last event before it that moves the object.

**`EpisodeSession`** (`eval_adapters.py`). One variable per attribute of the
session; `InvokeFree` and `InvokeReplay` are the two modes of `_invoke`.
`Contracted` is the recomputation of `state_changes_outside_contract`. The
episode is any of `Candidates` that `EpisodeVerifier` accepts. `Playable` states
what the verifier does not ask and a session needs; section 5 has the cases.

**`EpisodeContract`** is what both modes and the arm runner promise: a
transition moves all its objects at once, from the states it names, at most
once, by somebody authorized.

**`OperatorDesk`** has what the operator's commands share: one command runs at
a time, `at` is its next step and `got` what it has read so far; changes to
files may fall between any two steps.

**`MatchedPlan`** (`matched_run.py`) is `prepare`, `execute` and `status`: the
table `BuildSteps` is the order in which `build_run_plan` hashes, loads and
scans; `Freeze`, `Compare` and `CheckTraining` are what the commands do with the
plan, `ReportReadiness` the report at their end. `SendJobs` stands for the whole
of `MatchedJobs`, of which it records under which plan it ran.

**`EvidencePack`** (`bind_gates_evidence.py`, `issue_certificates.py`, over the
runs store of `free_run.py` and `fire_gates.py`). `Reads` and `Emits` are the
orders in which `build` reads the store and writes the pack; `--verify` is the
same into a scratch directory, compared at the end (`Diverges`). `assemble` is
six steps from `LoadEvidence` to `WriteLedger`. Around them the store goes on: a
free run writes its configuration first and its metrics last (`RunBegins`,
`RunEnds`), and may die in between and be followed by another; `report` reads
the plan, the metrics and the run's model, and only then hashes the plan it
names (`ReportBegins` to `ReportWrites`); a plan may be taken away, written
again, and revised in the code. One run and one report are assumed to go on at
a time, and a file being written is seen whole. Metrics come back: a scripted
run that is repeated writes the bytes it wrote before, so `RunEnds` writes any of
`Results`. `rewrites`, which no guard reads, counts the metrics written since
`assemble` checked them.

**`ReleaseAudit`** (`build_release_candidate.py`, `banking_v3/release.py`). Two
passes of listing, reading and archiving, then gates over the members of the
first archive (`Gates`, `ExportGates`), the verdict (`TerminalState`) and, for
an export, the tree and EXPORT-OK. `machine` says which private inputs
(denylist, registry, corpus, dataset, the oracle of the citation tasks) the
gates find on this computer; a checkout may lack each of them. Where the
oracle's file is missing, `private_gold_leak` looks at names only and still says
PASS.

**`OperatorCommands`** composes the three at one desk; `Killed` may end a
command anywhere.

In these three modules a digest is the content it is taken from. In
`MatchedPlan` a content that was replaced does not come back: artifacts are
rewritten by people and training runs, and nobody is assumed to put an old one
back while a command runs. In `EvidencePack` two things never come back: a
configuration, which holds a fresh salt (`free_run.py:502`; no command passes
one), and a plan that people revised, which would have to be revised back while
a pack is built or verified.

Operators commented "a slip" are plausible mistakes in the definition that
follows them. No action uses them; each documents a change to the code that a
property would notice.

## 4. The runs

| run | instance | what it shows |
|---|---|---|
| `banking_env` | three documents, an execute, an approve and an escalate case (risk at and above the limit), six judgements (right, wrong value, wrong policy, incomplete citations, each route), four keys, versions 0 to 3 | every interleaving of requests keeps ledger, controls, receipt, closure and grade consistent; `CaseControl` is implemented |
| `banking_replay` | every kind of case (risk below, at and above the limit; supported or not; with and without journal), 16 variants | the reference completes and each of its requests is answered, no variant completes |
| `matched_jobs` | three jobs, `--max-jobs` 2, four kills, four power losses, or four of both in any order; the parent of the receipt directory on disk or still to be made | each repeat of a job took a power loss and with it a kill or the directories above the receipts; reruns settle; in a history of one way reported receipts and the offer for attestation survive and `CallLedger` is implemented |
| `citation` | two tasks (an answer of two claims over shared evidence, a refusal), three outcomes each, a configuration with one worker and one with two, one kill or one power loss | repeats are bounded by the stops of the machine, one configuration, whole seals, citations exact, a pass is earned; reruns settle |
| `rate_limiter` | two threads, seven calls, an interval of two ticks | the rate holds over every stretch of time |
| `arm_runner` | three events (one moves nothing, one moves two objects), calls of up to two attempts that fail in every way, answers wrong in every way | completion is earned, `EpisodeContract` is implemented; which kept jobs and citation calls their checks refuse |
| `arm_receipt` | the same | *violation:* a job with an unusable answer never gets a receipt |
| `free_run` | two episodes of three transitions; the search with the seven turns it needs at worst, a model with three turns and two retries, the refusing policy | verdicts agree with the session; the search completes every episode in whatever order it tries; the run ends |
| `free_run_crash` | the same | *violation:* a 429 or 5xx ends the run |
| `panel` | one model, two cases, two workers, two turns, a budget of 4 with 3 a turn and 2 at least, answers that cost -1, 2 or 3 tokens under two kinds of model name or have a wrong shape, one loss, two configurations | saved turns are final and replay, records are those of an uninterrupted case with its budget, each loss costs a sample at most, the report is whole; the panel settles with a report, or is stuck on an answer it cannot use and never has one |
| `episode_session` | the margin-dispute episode of the repository and nineteen variants, fifteen of which the verifier must refuse; correct, stale, excessive, unauthorized, ungrounded and repeated requests; both modes | `EpisodeContract` is implemented and explains the state, nothing accepted and playable leads to a dead end, outcomes and receipts stand |
| `operator_commands` | two commands of any kind, two changes under way, two results and two sets of episodes that may come back, a machine with all private inputs and one with none | only whole plans run, checked evidence is true of the files it names, what is released was audited |

**Why the bounds are enough.** In `banking_env` the longest complete course of a
case needs four accepted requests (assess, approve, execute, close), so four
keys reach every accepted history up to a closure, and versions 0 to 3 are those
such requests assert; a case with fewer steps has a key to spare for a second
judgement. The keys are interchangeable (`SYMMETRY`; no temporal property of
this run is a liveness property). The `VIEW` leaves the last reply out, which no
guard, invariant or property reads. Three jobs with `--max-jobs` 2 are the least
for which a rerun has reused, new and left-over jobs; two tasks with two workers
the least for which one worker fails while the other runs, and with one worker
for which a task is still queued when another fails. Losses may fall between any
two steps. A repeat of a job in `matched_jobs` takes a kill and then a power
loss, or a power loss that takes the directories above the receipts; with four
losses one is repeated twice by the first way and more often by the second; they
include losses during the recovery from others. In `citation` and `panel` a call
is related to one loss, there is one, and the theorems cover any number. In
`panel` two turns are the least for which a saved turn is replayed before
another is asked for, two cases and two workers the least for which one returns
while the other raises; one of the failures costs no tokens and is not counted,
the other is; the three costs are less than none, a fit, and all that a turn may
ask for, so a budget grows, is left with too little, and is exceeded. In
`arm_runner` the second attempt is the last; three events are the least with one
before and one after the one whose call fails. In `free_run` seven turns are the
least with which TLC finds the search complete in every order, so its last turn
is used, and the second episode shows what the first has left behind; the bound
of the theorem, which does not look into the episode, is fifteen there. In
`rate_limiter` seven calls include both threads late and waiting again, which
attains the bound of `RateHeld`: with one call less allowed, TLC finds three
calls in one instant. In `operator_commands` two changes are the least with
which a file can be replaced between a command's hash and its reading and again
between that and the next command's, or its old content put back; the second
command is the one that checks what the first has left. The two results and the
two sets of episodes are interchangeable (`SYMMETRY`; the run has no temporal
property). With `rewrites` left out of `LedgerTellsItsBytes` TLC finds, within
these bounds, the history in which the second run brings the first content back.
`Order`, the files of `ReleaseAudit`, has one of each kind the gates tell apart.

**Deadlock** is not checked: every one of these systems may really stop, a
closed case, a finished command, an episode nobody plays on, an operator who
gives no further command.

**Fairness.** `BankingReplay` assumes that the loop in `replay` goes on sending
(`WF` on `Send`); `MatchedJobs`, `CitationRun` and `PanelRun` that a started
command takes its next step and a thread of the pool is scheduled, and that
the operator starts the command again; `FreeRun` that the loop goes on, because
a question has a time-out and every failure is counted. No fairness is assumed
of kills, losses or failures, and the liveness properties name the states in
which a run is indeterminate and must not be resumed as an end.

## 5. What disagrees with its description

* `arm_receipt`: an unusable answer has a `response_sha256` in its telemetry,
  which the replay of `verify_job_receipt` does not allow for an event without a
  response. The job was paid and never gets a receipt.
* `free_run_crash`: `exc` is unbound once its `except` clause has ended, so the
  line that reads its `Retry-After` (`free_run.py:291`) raises, on every 429 or
  5xx that is to be tried again, an `UnboundLocalError` that nothing catches. The
  episodes already played have no transcript or metrics then. A read of an error
  body that fails (line 276) has the same effect.

The following observations have no run of their own.

*Calls and resumed runs*

* A read that times out after its status puts two entries into `http_statuses`
  for one attempt (`real_provider.py:344`, `367`; `citation_provider.py:219`,
  `247`). What is kept of that call, answered in the end or not, is refused
  afterwards, as a retry of status 200 or as more attempts than the policy has:
  a citation run cannot be resumed or sealed any more, a job of the matched run
  gets no receipt. `RefusedExactly` and `VerifiedExactly` say that nothing else
  is refused but the case above. (A body that is not UTF-8 leaves no telemetry
  at all, which both callers notice before they keep anything.)
* "A resumed run never repeats an already checkpointed logical call"
  (`citation_run.py:3-4`) holds for killed processes, not when the machine
  stops: no directory is fsynced, so the record's name may be lost together with
  the marker's. `RepeatsAreBounded` says how often in both cases.
* The panel "never resamples failed answers" that are saved (`SavedIsFinal`);
  one received and not yet saved when the command is killed is asked for again,
  once per loss (`SamplesAreBounded`).
* The panel saves an answer before it looks at it (`panel.py:149-154`). A valid
  JSON of an unforeseen shape (`"message": null`, a `choices[0]` that is no
  object, a `usage` that is a list, a `model` that cannot be hashed) raises
  where it is used (`:101-104`, `:160-164`), and every later run reloads it and
  raises again: there is never a report. So does a case whose answers name their
  model once by a string and once by null, when its record sorts the names
  (`:183`). `Settles` and `RecordsAreReplays` name these cases (`Stuck`).
* The rate limiter's "minimum-interval" is between slots, not calls: a thread
  that wakes late leaves together with the next one, which is what the term for
  the threads in `RateHeld` stands for.
* With a nested `--receipt-dir` of which two or more levels are new, only the
  parent of the last level is fsynced (`matched_run.py:914-917`; `_atomic_json`,
  `:68-71`, does the same). One power loss, without any kill, may take the whole
  tree with marker, receipts and report, and the next run sends every job again.
  `SendsAreBounded` counts such losses (`uprooted`); the promises of `OneWay`
  ask, for power losses, that the directory's parent was there before.
* Otherwise `MatchedJobs` implements `CallLedger` when runs end early by kills
  or by power losses, not by both; then a job may be sent again, but each repeat
  took one of each (`SendsAreBounded`). A run killed after the rename of a
  receipt and before its fsync is followed by one that reuses the receipt
  (`matched_run.py:930`), removes the marker and fsyncs only `started/`; a power
  loss then takes the receipt too. Two execute commands on one receipt directory
  may also both find no marker and both send the job (`:936`). No document
  claims otherwise.
* `HTTPPolicy.act` of `banking_v3/provider.py` turns `ValueError`, `KeyError`,
  `TypeError` and `IndexError` into the failure that `flow.evaluate` records. An
  envelope that is a JSON list (`AttributeError`) or a body cut short
  (`http.client.IncompleteRead`) ends the whole evaluation without a report,
  although its plan says "missing_results_policy": "zero, retained in
  denominator".

*Episodes*

* Object versions are not quite "enforced identically in both modes"
  (`eval_adapters.py:11-13`): replay mode compares `object_versions` with the
  event's for equality (line 430), free mode accepts a request that asserts the
  current version of further objects (lines 280-286).
* The verifier accepts more than a session can play: an event that retransmits
  itself (`contract.py:260`, `276`), an event on a surface of the taxonomy that
  the episode does not enable, two steps of one surface and action, and, for free
  mode, an event that moves one object twice. No episode of the repository is
  like that; `Playable` and the `Unplayable` candidates say it in the model.

*Operator's commands*

* A report kept in an evidence pack may show metrics other than those the pack
  lists and hashes (`fire_gates.py:122`, `bind_gates_evidence.py:199`): nothing
  compares the two, and `--verify` passes. `report` reads the plan's id first and
  hashes the plan last (`fire_gates.py:115`, `:137`), so the two may be of
  different plans; and it has no date, so between its hash and its reading it
  may have been another one and the same again. `VerifiedPackIsTrue` binds every
  report that the pack shows, hashes or draws on to the listed plan by its
  digest, and says nothing of the rows or the id.
* "hash-verified" (`issue_certificates.py:291`): the baseline is hashed, loaded
  and hashed again (`:208`, `:265`); one rewritten in between gives a ledger
  that names a digest other than the bound one. `LedgerTellsItsBytes` says that
  it is visible: where the two digests agree, the rows are theirs, unless two
  runs ended within that time and the second wrote the bound bytes again, which
  a scripted baseline does (`free_run.py:543-572`). The rows are of the other
  run then and nothing shows it.
* Where the oracle of the citation tasks is not in the checkout,
  `private_gold_leak` searches no content and reports PASS, not NOT_RUN
  (`build_release_candidate.py:328-341`), and where it is, content of rows after
  the 200th is not searched. The statement that goes into the release says that
  "their absence is enforced by the release audit's leakage gate" (`:96-98`).
  `ReleasesAreAudited` promises the absence of oracle content only of a machine
  that has the oracle.
* A content-safety refusal leaves the files emitted so far in the evidence
  directory (`bind_gates_evidence.py:329`).
* Two release commands on one `--out` may report the digest of an archive that
  the gates did not see, since `archive_sha256` is read again at the end; "the
  exact archive bytes" (`build_release_candidate.py:5-6`) needs one command.
* `RELEASE_AUDIT_PASS` cannot be reached: the tutorial's PASS carries a
  limitation. `terminal_state` ignores the two gates `export_release` adds; its
  caller looks at all gates, so nothing is exported for it, but the report of a
  refused export may state a pass.
* `status` of the matched run passes no inputs, therefore finds
  `concrete_artifacts_rehashed` false, always reports BLOCKED
  (`matched_run.py:1010-1017`, `1072-1081`) and writes that over a READY report.
* `prepare` leaves a plan on file that `execute` may refuse, when an artifact
  was replaced between its hash and its reading.

## 6. The proofs

Eight modules hold the theorems; each extends the component it is about.

| module | theorems |
|---|---|
| `BankingEnvProofs` | `TypeCorrect`, `ReceiptsAreTrue`, `ControlsHold`, `NoLostUpdate`, `AppliedOnce`, `OutcomesAreFinal`, `ClosuresAreVerified`, `OutcomesAreTrue`, `VerdictsAreFinal`, `EnvironmentImplementsControl`; of the replay `VariantsFail`, `ReferenceSolves` |
| `MatchedJobsProofs` | `TypeCorrect`, `RepeatsTakeStops`, `NeverTwice`, `TraceLeft`, `ReportsAreDurable`, `AttestationsStand`, `JobsImplementLedger` |
| `CitationRunProofs` | `TypeCorrect`, `RepeatsBounded`, `TraceLeft`, `ConfigurationFixed`, `SealsAreWhole`, `PassesAreEarned`, `CitationsExact` |
| `RateLimiterProofs` | `RateIsHeld` |
| `PanelRunProofs` | `TypeCorrect`, `SamplesBounded`, `AnswersReplay`, `RecordsReplay`, `ReportsAreWhole`, `SavedTurnsAreFinal` |
| `EpisodeSessionProofs` | `ContractIsHeld`, `ModesShareContract`, `NoDeadEnds`, `OutcomesStand`; of the free run `VerdictsAlwaysAgree`, `PoliciesAlwaysDeliver` |
| `ArmRunnerProofs` | of a call `RefusedExactlyHolds`, `AnswersFinal`; of a job `CompletionIsEarned`, `VerificationIsExact`, `JobImplementsContract` |
| `OperatorProofs` | `OnlyWholePlans`, `ReleasesAudited`, `EvidenceTrue` |

Several proofs need induction over a number, the place in a script or in a
sequence. The library's induction theorems take an operator and cannot be used;
the lemma `Induction`, that a set of numbers with the first and each next one
has all up to a bound, follows from the least element of a set (`WFMin`), and
the operator becomes a set. It stands in each of the four modules that need it,
and `PanelRunProofs` takes the least element itself (`LeastOf`). What a
recursive function of the model computes is proved that way too, about a
function of the same equation over the numbers up to a bound.

*Banking environment.* The assumptions are those named in the module: cases
and judgements have their fields, keys are finite, and each kind of document
has one governing document. `TypeOK` is inductive and carries what the shape of
the ledger says (an entry lies under its own key). `ReceiptBindsState` and the
controls are inductive together with it. `VersionLedger` needs the entries'
versions to be bounded by `version`; `ExactlyOnce` needs in addition that an
outcome leaves `status` other than open and a closure is set once, because the
guards look at the state and not at the ledger. The grade theorems use that
citations, once valid, stay so, because `read` only grows. The refinement maps
each accepted request to one step of `CaseControl` and all else to a stutter.

*Banking replay.* Nothing happens in a case but what the script asked for, and
`Traced` says so of each part of the state: who was read, judged, approved,
executed, escalated and closed has a request among those asked. A variant that
omits a tool asks for it nowhere (`OmittedOf`, by induction over the
reference), so what the grade wants of that tool is missing; one that alters a
request asks nothing else of that tool (`ExpectedByTool`), and `FaultShows` says
of each name what the grade excludes. `AttacksAssumption` says what `attacks`
knows: the names it has, and that what it puts in place of a document, an
operation, an owner or a receipt is none that the case has. Of the reference
itself everything is known: `CourseAt` is the environment after its first
requests, the answers kept under its keys included. A new request finds its
guards there and leads to the next of these states; an old one finds its own
answer (`AnsweredAgain`) or what it would add (a document, the inspected
receipt) and changes nothing. So every request is answered and the last state
grades as complete (`ReferenceSolves`).

*Matched jobs.* That each repeat of a job took a power loss, and a kill or the
directories above the receipts besides, is not inductive: nothing in it says why
a job without a marker may be sent. The invariant adds where the command stands
(`Progress`: between the marker's rename and its removal the job's marker or
receipt exists), that entries lie in existing directories (`Nested`), and an
account. As long as no process has been killed between a change and its fsync,
`live` and `disk` differ, below the parents, by exactly what the next fsync will
write (`Unsynced`, `DiskCurrent`); a kill may end that, no later run restores it,
and a power loss does. `Debt` says that it is so. A job with a trace has at most
one call more than there were kills and uprooting stops, less the debt, and than
there were stops; one without a trace, or about to be sent, has one call less
(`Spent`). A power loss in debt may clear every trace, but pays the debt; one
that takes the parents clears every trace and is counted for it; any other
clears no trace of a job that is not spent. In a history of one way one of the
counts is 0 (with `placed`, no stop uproots), and what remains is that a job is
sent once, that a job sent has a trace, and that where only machines stop there
never is a debt (`OneWayFacts`): a reported receipt is on disk, in directories that
are. The refinement maps `Call` to a call of the ledger and the step after which
a receipt can no longer be lost (its rename or its fsync, by `ending`) to keeping
it; any other history maps to a ledger on which nothing happens.

The offer for attestation stands because from then on every receipt is where a
loss does not reach it (`Held`), and a run that finds all receipts sends nothing.

*Matched plan.* The contents of a file are ordered by their numbers. A plan
holds, of each file, a hash and a later reading; `execute` holds the same of the
rebuilt plan, taken later still. When the two plans are equal, the first hash
and the last reading are the same content, and the two readings between them
are caught. The invariant says of each place what is known of it once its step
is past.

*Citation run.* The invariant `IInv` adds to the properties what each state of
a worker says of its files and calls (`TaskFiles`) and what the phase of the
main thread says of the workers (`MainThread`). Every worker step touches the
entries of its own task only, so the lemma `WorkersKeep` has one case per
action and under it one step per conjunct. For `PassIsEarned` the invariant adds
that a record on file is an answer of its task (`Filed`); what validation lets
pass is supported, because the least faulty claim would have been reported, and a
task cannot be counted as rendered without being completed, so equal counts are
equal sets. For `CitedExactly` the uses of a selection are read one after
another: after n of them (`Kept`) there is one citation for each piece of
evidence used, and it names the claims that have used it.

*Rate limiter.* Two accounts, both started anew with each call that leaves.
`Booked`: the calls since a given one and those still waiting are at most one for
each thread and one for each slot given out since. `Paced`, which rests on it: those
that can have left by a time are the ones that left and the ones due by then, and
not more than the slots up to that time and the threads that were late. A
reservation is balanced by the step of `next`, a departure by the thread that
leaves the waiting ones.

*Panel.* What a resumed case does with its saved answers depends on the tokens
they cost together. `RunningTotals` is the set of functions that start at
nothing and grow by the tokens of each answer; the invariant `PInv` says of each
unit that some running total fits its answers, as a fresh run would arrive at it
(`Fits`), and where its worker stands on the way (`Stands`). The properties speak
of the recursive function `RunningTotal`; that it is one of these functions, and
the only one, follows from the least turn at which it would differ (`LeastOf`).

*Episode session.* The assumption is that events are sequences, versions are
natural numbers and no action is permitted to nobody (`EpisodesAssumption`),
besides what the verifier accepts. Both modes change the state by `Performed`, a
transition not applied before from the states it names. In free mode the guard
says so; in replay mode no guard does, and it follows from the place in the
script (`InOrder`). `Explained`, that each object is at the highest version
applied to it, is inductive under that step. `Placed` says where on its way
through the script an object stands: those of its events that were applied are
the first ones. Each moves its version on (`VersionsGrow`), so the least event not
applied finds all its objects where it wants them, which is `NoDeadEnd`; and no
event starts from where the script ends, so a complete episode stays so.
`Playable` is a hypothesis inside the property: what the verifier does not ask.

*Free run.* Every turn but the one being asked was counted once, and every
applied transition among the applied ones (`Tallied`); a complete session has
applied all that changes something (`CompleteIsWhole`). The search is `Underway`
when the turns spent are no more than a round for each transition applied and
one for each try refused since, and a try that can succeed is still to come or
has just been told its versions (`Hopeful`). `NoDeadEnd` gives such a try
whenever it starts anew. `PoliciesAlwaysDeliver` needs that the episode is
playable and not complete from the start, and turns for a round for each
transition (`WithinReach`): the least bound that does not look into the episode.
The default of `turn_limit`, 64, is above it for each of the 80 sealed
episodes of the repository (48 at most).

*Arm runner.* Of a call: `OnFile` says what is kept of it at each point, `Told`
how its statuses came about, one for each attempt unless a read timed out. Of a
job: the objects have a history, one state between any two events, which the
records tell (`Stored`). Replaying the kept answers runs through that history,
by induction over the events, so verification fails only where rows and
records do not fit (`Evidence`). A step is applied only by a good answer, and an
episode all of whose answers are good has come where the script leads
(`Reached`).

*Release.* What each gate has seen is a lemma about `Gates` (`GatesTell`; of the
oracle, only on a machine that has it). `ReleaseInv` says that both reports are
right about their archives, and what an export has in hand at each step; only
what was read first reaches archive, gates and tree, so edits do not matter, and
neither does a kill, because an export begins with an empty root.

*Evidence pack.* Configurations and plans are ordered: `PastConfig`, `FiledPlan`
and `ReportedPlan` say that one was in the store, was on file, or was named by a
report there, and each stays true. What `--verify` compares was read before its
hashes (it is in the pack) and is found equal to what it reads after them, so
the hash in between is of that content; for a report, which may come back, that
holds of the plan it names, because reports never name an older plan than the
one before them. Metrics come back, and are dated by the configuration: while it
stays, its run writes them once at most. `Hashed` and `Loaded` say what is known
of metrics hashed, and loaded, after the configuration was read. A pack whose
metrics were hashed and loaded under one configuration, and are found equal
later under the same one, never changed in between. For the ledger, `Certifying`
counts: hashed, loaded and hashed again with one write in between, the first and
the last can be equal only if the write came before or after both.

**Only model-checked:** liveness, which is out of the prover's reach: that the
resumable commands settle (the three `Settles`), that the reference completes
(`ReferenceCompletes`, of which the rest is `ReferenceSolves`), that a run of
episodes ends (`RunEnds`), and the two violations, each one behaviour. Every
other property of a run is the conclusion of a theorem. The theorems are about
any values of the constants, but about the model: what it leaves out (section 7)
they do not cover.

## 7. What is not modelled

* Malformed requests, tampered files and foreign receipts: they are refused
  before any state is read.
* The contents of documents, prompts, answers, traces and signatures, and the
  arithmetic of `target_value`.
* JSON that nests too deeply for Python's parser (`RecursionError`), and numbers
  that are no numbers (NaN) in what is digested.
* Temporary files of `_atomic_json`: their names are never read.
* A version step other than one, and an event that moves an object twice: no
  sealed episode has either.
* Concurrent commands on one directory. The panel locks its directory; the
  others do not, and are modelled with one command.
* The loop of `banking_v3/provider.py`, `flow.evaluate` around it and
  `regenerate`: they run once, in order, into an empty directory.
* In the release, the gates over paths and the manifest, which an archive passes
  by the way it is made, and `stage_development`; in the evidence pack, scores,
  cards and transcripts, which are read and listed as the metrics are.
* Contamination shingles, canaries, gate counters, coverage matrices and the
  summaries of a whole set of episodes.
* The components marked "not_modelled" in `PROJECT.json`, by reason: pure
  functions of finished files (reports, metrics, certification), and generators
  of data files.
