----------------------------- MODULE MatchedPlan -----------------------------
(***************************************************************************)
(* cleanroom_eval/matched_run.py, the commands prepare, execute and status *)
(* around the plan: build_run_plan hashes and loads the artifacts file by  *)
(* file, prepare freezes the plan, execute rebuilds it and runs its jobs   *)
(* only when the files still give the same one, and each writes a          *)
(* readiness report.  What happens to the single jobs is MatchedJobs.      *)
(*                                                                         *)
(* One adapted arm stands for all; artifacts that are only hashed are left *)
(* out, and so are the comparisons inside one document, which are made of  *)
(* what was read once.  A digest is the content it is taken from, and a    *)
(* content that was replaced does not come back.  The inputs file states   *)
(* the digest of every artifact; people rewrite it as they replace them.   *)
(***************************************************************************)
EXTENDS OperatorDesk

VARIABLES
    artifacts,   \* the inference configuration, the training material and
                 \* the training receipt on disk
    inputs,      \* --inputs: the content each of them is committed to have
    plan,        \* --plan: {} or {content}
    readiness,   \* --readiness: {} or {[plan, status]}
    executed     \* history: the plans under which jobs were sent

planVars == <<artifacts, inputs, plan, readiness, executed>>

PlanInit ==
    /\ artifacts = [inference |-> [n |-> 1, valid |-> TRUE],
                    training |-> [n |-> 1, clean |-> TRUE],
                    receipt |-> [n |-> 1, training |-> 1]]
    /\ inputs = artifacts /\ plan = {} /\ readiness = {} /\ executed = {}

\* Artifacts are replaced: another configuration, other training material, the
\* receipt of a training with what is there.
Replaced(file) ==
    LET n == artifacts[file].n + 1
    IN  CASE file = "inference" -> {[n |-> n, valid |-> b] : b \in BOOLEAN}
          [] file = "training" -> {[n |-> n, clean |-> b] : b \in BOOLEAN}
          [] file = "receipt" ->
                 {[n |-> n, training |-> artifacts["training"].n]}

ArtifactReplaced ==
    /\ Change
    /\ \E file \in DOMAIN artifacts : \E content \in Replaced(file) :
           artifacts' = [artifacts EXCEPT ![file] = content]
    /\ UNCHANGED <<inputs, plan, readiness, executed>>

InputsRewritten ==
    /\ Change /\ inputs # artifacts
    /\ inputs' = artifacts
    /\ UNCHANGED <<artifacts, plan, readiness, executed>>

-----------------------------------------------------------------------------
(* build_run_plan: each of these but the last is a read of its own *)
Build == <<"inputs", "inference_hash", "policy", "training_hash",
           "receipt_hash", "claims", "contamination", "verify">>

FileOf ==
    [inference_hash |-> "inference", policy |-> "inference",
     training_hash |-> "training", receipt_hash |-> "receipt",
     claims |-> "receipt", contamination |-> "training"]

Scripts ==
    [prepare |-> Build \o <<"freeze">> \o Build \o <<"report">>,
     execute |-> <<"load">> \o Build
                 \o <<"compare", "training_files", "scan_again", "jobs">>
                 \o Build \o <<"report">>,
     status |-> <<"load", "report">>]

BuildSteps == {Build[i] : i \in DOMAIN Build}
PlanPlaces == BuildSteps \union {"loaded", "failed"}

StartPlanCommand ==
    /\ \E name \in DOMAIN Scripts : Give(name, PlanPlaces)
    /\ UNCHANGED planVars

Planning == command \in DOMAIN Scripts
AtStep(name) == Planning /\ Scripts[command][at] = name

\* The report's own rebuilding catches what is raised.
Reporting == \A i \in at..Len(Scripts[command]) :
                 Scripts[command][i] \in BuildSteps \union {"report"}

Raise ==
    IF Reporting
    THEN /\ at' = Len(Scripts[command])
         /\ got' = [got EXCEPT !["failed"] = {TRUE}]
         /\ UNCHANGED <<command, commands, changes>>
    ELSE Leave

\* What is hashed must be what the inputs commit; the policy must be admissible,
\* the receipt must be of this training, and the training must be clean.
Rejects(place, content) ==
    \/ /\ place \in {"inference_hash", "training_hash", "receipt_hash"}
       /\ content # The(got["inputs"])[FileOf[place]]
    \/ place = "policy" /\ ~content.valid
    \/ place = "claims" /\ content.training # The(got["training_hash"]).n
    \/ place = "contamination" /\ ~content.clean

ReadInputs ==
    /\ AtStep("inputs") /\ Take("inputs", {inputs})
    /\ UNCHANGED planVars

ReadArtifact ==
    /\ Planning /\ Scripts[command][at] \in DOMAIN FileOf
    /\ LET place == Scripts[command][at]
           content == artifacts[FileOf[place]]
       IN  IF Rejects(place, content) THEN Raise ELSE Take(place, {content})
    /\ UNCHANGED planVars

Built == [place \in DOMAIN FileOf |-> The(got[place])]

\* verify_run_plan: the plan is held against itself.
Consistent(p) ==
    /\ p["policy"].valid /\ p["contamination"].clean
    /\ p["contamination"] = p["training_hash"]
    /\ p["claims"].training = p["training_hash"].n

VerifyBuilt ==
    /\ AtStep("verify") /\ (IF Consistent(Built) THEN GoOn ELSE Raise)
    /\ UNCHANGED planVars

Freeze ==
    /\ AtStep("freeze") /\ plan' = {Built} /\ Take("loaded", {Built})
    /\ UNCHANGED <<artifacts, inputs, readiness, executed>>

LoadPlan ==
    /\ AtStep("load")
    /\ IF plan = {} THEN Leave ELSE Take("loaded", plan)
    /\ UNCHANGED planVars

VerifiedAlone ==  \* a slip: the plan is only held against itself
    \A p \in got["loaded"] : Consistent(p)

\* canonical_bytes(rebuilt) == canonical_bytes(plan)
Reproduced == got["loaded"] = {Built}

Compare ==
    /\ AtStep("compare") /\ (IF Reproduced THEN GoOn ELSE Leave)
    /\ UNCHANGED planVars

\* execute_pending_jobs hashes and scans the training files once more.
CheckTraining ==
    /\ AtStep("training_files") \/ AtStep("scan_again")
    /\ IF The(got["loaded"])["training_hash"] = artifacts["training"]
       THEN GoOn ELSE Leave
    /\ UNCHANGED planVars

\* What becomes of the jobs, MatchedJobs tells; one that raises ends the command.
SendJobs ==
    /\ AtStep("jobs") /\ (GoOn \/ Leave)
    /\ executed' = executed \union got["loaded"]
    /\ UNCHANGED <<artifacts, inputs, plan, readiness>>

\* The provider's lineage or metadata differ from the plan: nothing is sent.
NotSent ==
    /\ AtStep("jobs") /\ Leave
    /\ UNCHANGED planVars

Blocked == "BLOCKED_MISSING_OR_INVALID_INPUTS"

\* status has nothing to rebuild from, and is therefore always blocked.
Status ==
    IF command = "status" \/ got["failed"] # {} \/ ~Reproduced
    THEN Blocked
    ELSE IF command = "execute" THEN "READY_FOR_INDEPENDENT_ATTESTATION"
    ELSE "READY_TO_EXECUTE"

\* An execution may have stopped at --max-jobs, before the last job or before one
\* whose completion is indeterminate.
ReportReadiness ==
    /\ AtStep("report") /\ Leave
    /\ \E status \in {Status} \union
                     (IF command = "execute" /\ Status # Blocked
                      THEN {"READY_TO_EXECUTE", Blocked} ELSE {}) :
           readiness' = {[plan |-> The(got["loaded"]), status |-> status]}
    /\ UNCHANGED <<artifacts, inputs, plan, executed>>

PlanNext ==
    \/ ArtifactReplaced \/ InputsRewritten \/ StartPlanCommand
    \/ ReadInputs \/ ReadArtifact \/ VerifyBuilt \/ Freeze \/ LoadPlan
    \/ Compare \/ CheckTraining \/ SendJobs \/ NotSent \/ ReportReadiness

-----------------------------------------------------------------------------
\* One state of the files gave this plan: what was loaded is what was hashed,
\* the training found clean is the one committed and the one that is claimed.
Whole(p) ==
    /\ Consistent(p)
    /\ p["policy"] = p["inference_hash"] /\ p["claims"] = p["receipt_hash"]

\* However the artifacts are replaced while prepare and execute read them, no
\* job is sent, and no report calls a plan ready, unless the plan is whole: a
\* plan frozen from two states of the files is never reproduced
\* (matched_run.py:1175-1181, :1010-1017).
OnlyWholePlansRun ==
    /\ \A p \in executed : Whole(p)
    /\ \A r \in readiness :
           r.status # Blocked => Whole(r.plan)
=============================================================================
