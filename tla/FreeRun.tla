-------------------------------- MODULE FreeRun --------------------------------
(***************************************************************************)
(* cleanroom_eval/free_run.py, run: a policy plays sealed episodes one     *)
(* after the other, each in a free session of its own (EpisodeSession),    *)
(* until the episode is complete, the policy stops or fails, or its turns  *)
(* are used up.  The policies are the boundary search (ScriptedPolicy), a  *)
(* model behind an HTTP endpoint (ChatCompletionsPolicy) and RefusePolicy. *)
(*                                                                         *)
(* The episodes of a run are copies of one.  Canaries, gate counters,      *)
(* transcripts, telemetry, waiting times and the files written at the end  *)
(* are left out.                                                           *)
(***************************************************************************)
EXTENDS EpisodeSession

CONSTANTS
    Policies,    \* of {"scripted", "chat", "refuse"}
    TurnLimit,   \* policy -> turn_limit
    MaxRetries,  \* of one question to the endpoint
    Episodes     \* how many episodes the run has

ASSUME RunAssumption ==
    /\ Policies \subseteq {"scripted", "chat", "refuse"}
    /\ TurnLimit \in [Policies -> Nat \ {0}]
    /\ MaxRetries \in Nat /\ Episodes \in Nat \ {0}
ASSUME IdsAssumption ==  \* the search numbers its requests by their turn
    "scripted" \in Policies => 1..TurnLimit["scripted"] \subseteq RequestIds

VARIABLES
    policy,          \* never changes
    phase,           \* "next" episode, "loop", "ask", "done", "crashed"
    turn,
    appliedCount,    \* applied of run_episode
    rejectedCount,   \* rejected
    retries,         \* of ChatCompletionsPolicy.propose
    outcomes,        \* one for each episode that has ended
    pending,         \* _pending of ScriptedPolicy
    last,            \* _last: {} or {the proposal}
    retryVersions,   \* _retry_versions: {} or {versions}
    done             \* _applied: (surface, action) pairs

loop == <<phase, turn, appliedCount, rejectedCount, retries, outcomes>>
search == <<pending, last, retryVersions, done>>
runVars == <<vars, loop, search, policy>>

RunInit ==
    /\ Init /\ mode = "free" /\ policy \in Policies
    /\ phase = "next" /\ turn = 0 /\ appliedCount = 0 /\ rejectedCount = 0
    /\ retries = 0 /\ outcomes = <<>>
    /\ pending = {} /\ last = {} /\ retryVersions = {} /\ done = {}

Limit == TurnLimit[policy]

-----------------------------------------------------------------------------
(* run_episode *)
NewSession ==
    /\ states' = episode.initial /\ index' = 0 /\ rejection' = {}
    /\ requests' = [i \in RequestIds |-> {}]
    /\ receipts' = [i \in RequestIds |-> {}]
    /\ applied' = [t \in Transitions |-> {}]
    /\ UNCHANGED sealed

ResetForgotten == UNCHANGED search  \* a slip: the search goes on as it was

\* policy.reset(); a model has nothing to reset
Reset == pending' = {} /\ last' = {} /\ retryVersions' = {} /\ done' = {}

BeginEpisode ==
    /\ phase = "next" /\ Len(outcomes) < Episodes /\ phase' = "loop"
    /\ NewSession /\ Reset
    /\ turn' = 0 /\ appliedCount' = 0 /\ rejectedCount' = 0
    /\ UNCHANGED <<retries, outcomes, policy>>

EndEpisode(reason) ==
    /\ phase' = "next"
    /\ outcomes' = Append(outcomes,
           [complete |-> IsComplete, stop |-> reason, turns |-> turn,
            applied |-> appliedCount, rejected |-> rejectedCount])
    /\ UNCHANGED <<vars, search, turn, appliedCount, rejectedCount, retries,
                   policy>>

NextTurn ==
    /\ phase = "loop" /\ turn < Limit /\ ~IsComplete
    /\ phase' = "ask" /\ turn' = turn + 1 /\ retries' = 0
    /\ UNCHANGED <<vars, search, appliedCount, rejectedCount, outcomes, policy>>

StopComplete ==
    /\ phase = "loop" /\ turn < Limit /\ IsComplete
    /\ EndEpisode("complete")

OutOfTurnsOnly ==  \* a slip: the last turn is not looked at
    /\ phase = "loop" /\ turn = Limit
    /\ EndEpisode("turn_limit")

\* The while loop's else: the last turn may have completed the episode.
OutOfTurns ==
    /\ phase = "loop" /\ turn = Limit
    /\ EndEpisode(IF IsComplete THEN "complete" ELSE "turn_limit")

\* adapter(surface).invoke(request).  A receipt given again is counted too.
Invoke(surface, r) ==
    /\ InvokeFree(surface, r)
    /\ IF r \in requests'[r.id]
       THEN appliedCount' = appliedCount + 1 /\ UNCHANGED rejectedCount
       ELSE rejectedCount' = rejectedCount + 1 /\ UNCHANGED appliedCount
    /\ phase' = "loop"
    /\ UNCHANGED <<turn, retries, outcomes, policy>>

\* The proposal is no tool request, or its surface is not enabled.
NotInvoked ==
    /\ rejectedCount' = rejectedCount + 1 /\ phase' = "loop"
    /\ UNCHANGED <<vars, search, turn, appliedCount, retries, outcomes, policy>>

-----------------------------------------------------------------------------
(* ScriptedPolicy: what each enabled surface exposes, by every actor who is *)
(* allowed to, until one is applied.                                        *)
Searching == phase = "ask" /\ policy = "scripted"

Combinations ==
    {[surface |-> t.surface, actor |-> a, action |-> t.action] :
        t \in {t \in Transitions : t.surface \in episode.surfaces}, a \in Actors}

Untried ==
    {c \in Combinations : /\ Authorized(c.actor, c.action)
                          /\ <<c.surface, c.action>> \notin done}

ToTry == IF pending = {} THEN Untried ELSE pending

Asking(c, versions) ==
    [id |-> turn, actor |-> c.actor, action |-> c.action,
     versions |-> versions, refs |-> Available]

\* The one rejection the search learns from: it names the versions wanted.
WantedVersions(c, r) ==
    {ExpectedVersions(t) : t \in {t \in Named(c.surface, c.action) :
        Authorized(r.actor, r.action) /\ ~VersionsCurrent(r, t)}}

\* observe_outcome
Learn(c, r) ==
    /\ last' = {c}
    /\ IF r \in requests'[r.id]
       THEN /\ done' = done \union {<<c.surface, c.action>>}
            /\ pending' = {} /\ retryVersions' = {}
       ELSE /\ retryVersions' = WantedVersions(c, r)
            /\ UNCHANGED done

SearchOn ==
    /\ Searching /\ retryVersions = {}
    /\ \E c \in ToTry :
        LET r == Asking(c, <<>>)
        IN  /\ Invoke(c.surface, r) /\ Learn(c, r)
            /\ ~(r \in requests'[r.id]) => pending' = ToTry \ {c}

\* The last request once more, with the versions it was told.
SearchAgain ==
    /\ Searching
    /\ \E c \in last, v \in retryVersions :
        LET r == Asking(c, v)
        IN  /\ Invoke(c.surface, r) /\ Learn(c, r)
            /\ ~(r \in requests'[r.id]) => UNCHANGED pending

-----------------------------------------------------------------------------
(* ChatCompletionsPolicy: one question, asked again after failures.        *)
Calling == phase = "ask" /\ policy = "chat"

FailureForgiven ==  \* a slip: the retries are counted anew when used up
    /\ Calling /\ retries' = (retries + 1) % (MaxRetries + 1)
    /\ UNCHANGED <<vars, search, phase, turn, appliedCount, rejectedCount,
                   outcomes, policy>>

\* The endpoint is not reached, or its answer breaks off.
TransportFailure ==
    /\ Calling /\ retries < MaxRetries /\ retries' = retries + 1
    /\ UNCHANGED <<vars, search, phase, turn, appliedCount, rejectedCount,
                   outcomes, policy>>

\* A ContractError: the endpoint stays unreachable, or a last 429 or 5xx,
\* another status, an answer too long or not a JSON object.
PolicyError == Calling /\ EndEpisode("policy_error")

\* Nothing between propose and the command catches these: the name exc is
\* gone when a 429 or 5xx is about to be tried again (line 291), and reading
\* the body of an error can fail (line 276).
Crash ==
    /\ Calling /\ phase' = "crashed"
    /\ UNCHANGED <<vars, search, turn, appliedCount, rejectedCount, retries,
                   outcomes, policy>>

TransientStatus == retries < MaxRetries /\ Crash
BrokenErrorBody == Crash

Propose ==
    /\ Calling
    /\ \/ \E surface \in episode.surfaces, r \in Requests :
            Invoke(surface, r) /\ UNCHANGED search
       \/ NotInvoked

\* {"surface": null}: RefusePolicy always, a model when it likes, the search
\* when nothing is left to try
Decline ==
    /\ phase = "ask"
    /\ policy = "scripted" => retryVersions = {} /\ ToTry = {}
    /\ EndEpisode("policy_stopped")

-----------------------------------------------------------------------------
\* metrics.json and its like, after the last episode only
WriteMetrics ==
    /\ phase = "next" /\ Len(outcomes) = Episodes /\ phase' = "done"
    /\ UNCHANGED <<vars, search, turn, appliedCount, rejectedCount, retries,
                   outcomes, policy>>

RunNext ==
    \/ BeginEpisode \/ NextTurn \/ StopComplete \/ OutOfTurns
    \/ SearchOn \/ SearchAgain
    \/ TransportFailure \/ PolicyError \/ TransientStatus \/ BrokenErrorBody
    \/ Propose \/ Decline \/ WriteMetrics

RunSpec == RunInit /\ [][RunNext]_runVars
FairRunSpec == RunSpec /\ WF_runVars(RunNext)

-----------------------------------------------------------------------------
Counted(o) == o.applied + o.rejected

\* What is reported of an episode hangs together: it is complete exactly when
\* that is why it stopped, even if it took the last turn; every turn but the
\* one that ended it was counted, once; and no transition that changes
\* something was left out or came from the episode before (free_run.py:394-469).
VerdictsAgree ==
    \A i \in DOMAIN outcomes :
        LET o == outcomes[i] IN
        /\ o.complete <=> o.stop = "complete"
        /\ o.turns <= Limit
        /\ o.stop = "turn_limit" => o.turns = Limit
        /\ Counted(o) = IF o.stop \in {"complete", "turn_limit"} THEN o.turns
                        ELSE o.turns - 1
        /\ o.complete =>
               o.applied >= Cardinality({t \in Transitions : DOMAIN t.mutations # {}})

\* The boundary search, which never sees the script, completes every episode,
\* and a policy that declines completes none (free_run.py:87-113).
PoliciesDeliver ==
    \A i \in DOMAIN outcomes :
        /\ policy = "scripted" => outcomes[i].complete
        /\ policy = "refuse" => ~outcomes[i].complete

\* Whatever a policy does, the run ends: with an outcome for every episode, or
\* crashed, which only an endpoint can bring about (free_run.py:384-530).
RunEnds ==
    <>(\/ phase = "done" /\ Len(outcomes) = Episodes
       \/ phase = "crashed" /\ policy = "chat")

\* A failing endpoint must "never crash the whole run" (free_run.py:279-281).
NeverCrashes == phase # "crashed"
=============================================================================
