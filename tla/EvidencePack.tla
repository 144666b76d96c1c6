----------------------------- MODULE EvidencePack -----------------------------
(***************************************************************************)
(* cleanroom_eval/evidence/bind_gates_evidence.py (build and --verify) and *)
(* cleanroom_eval/issue_certificates.py (assemble), over a runs store that *)
(* fire_gates.py and free_run.py write: the evidence pack copies, derives  *)
(* and lists what is in the store, read file by file.                      *)
(*                                                                         *)
(* One run stands for all of them, and one run and one report go on at a   *)
(* time.  A digest is the content it is taken from.  Results come back: a  *)
(* scripted run writes the metrics it wrote before (free_run.py:543-572),  *)
(* and the plan is a constant of the code, which may be taken away and     *)
(* written again.  Only two things never do: a configuration, which holds  *)
(* a fresh salt (free_run.py:502), and a plan that people revised.         *)
(* deviations.json, scores, cards, transcripts and the report's second     *)
(* form, read and listed as the others are, are left out.                  *)
(***************************************************************************)
EXTENDS OperatorDesk

CONSTANTS
    Results,       \* what metrics.json may hold
    EpisodeSets    \* what the repository's episodes may be

ASSUME ResultsAssumption == Results # {}
ASSUME EpisodeSetsAssumption == EpisodeSets # {}

VARIABLES
    store,      \* runs root, and the runner's code: file -> {} or {content}
    running,    \* a run is between its first and its last file
    draft,      \* what a report going on has read: place -> {} or {content}
    latest,     \* [run, plan]: the last number given of each
    assets,     \* the episodes in the repository
    pack,       \* evidence directory: file -> {} or {content}
    verified,   \* {} or {the pack --verify passed last}
    certified,  \* per-episode/: {} or {the metrics they tell of}
    ledger,     \* certificate-ledger.json: {} or {content}
    rewrites    \* history: metrics written since assemble() checked them

storeVars == <<store, running, draft, latest, assets>>
resultVars == <<pack, verified, certified, ledger>>
othersVars == <<resultVars, rewrites>>
evidenceVars == <<storeVars, othersVars>>

PackFiles == {"preregistration", "report", "identities", "telemetry",
              "manifest", "artifacts"}

ConfigOf(n, episodes, unsafe) ==
    [run |-> n, episodes |-> episodes, unsafe |-> unsafe]

ReportOn(id, metrics, unsafe, plan) ==
    [id |-> id, metrics |-> metrics, unsafe |-> unsafe, plan |-> plan]

NoDraft == [p \in {"id", "metrics", "unsafe", "plan"} |-> {}]

EvidenceInit ==
    /\ assets \in EpisodeSets
    /\ \E m \in Results :
           store = [preregistration |-> {1},
                    config |-> {ConfigOf(1, assets, FALSE)}, metrics |-> {m},
                    report |-> {ReportOn(1, m, FALSE, 1)},
                    code |-> {"committed"}]
    /\ running = FALSE /\ draft = NoDraft /\ latest = [run |-> 1, plan |-> 1]
    /\ pack = [f \in PackFiles |-> {}]
    /\ verified = {} /\ certified = {} /\ ledger = {} /\ rewrites = 0

-----------------------------------------------------------------------------
(* What goes on around the commands *)
Written(file, content) == store' = [store EXCEPT ![file] = {content}]

\* free_run.run writes config.json first and metrics.json last; the model's
\* name in it may look like a credential.
RunBegins ==
    /\ ~running /\ Change /\ running' = TRUE
    /\ latest' = [latest EXCEPT !.run = @ + 1]
    /\ \E unsafe \in BOOLEAN :
           Written("config", ConfigOf(latest'.run, assets, unsafe))
    /\ UNCHANGED <<draft, assets, othersVars>>

RunEnds ==
    /\ running /\ running' = FALSE
    /\ \E m \in Results : Written("metrics", m)
    /\ rewrites' = rewrites + 1
    /\ UNCHANGED <<deskVars, draft, latest, assets, resultVars>>

RunDies ==
    /\ running /\ running' = FALSE
    /\ UNCHANGED <<deskVars, store, draft, latest, assets, othersVars>>

\* preregister() writes the plan where there is none, and never over another.
Preregister ==
    /\ store["preregistration"] = {}
    /\ Written("preregistration", latest.plan)
    /\ UNCHANGED <<deskVars, running, draft, latest, assets, othersVars>>

PlanWithdrawn ==  \* the file is taken away
    /\ store["preregistration"] # {} /\ Change
    /\ store' = [store EXCEPT !["preregistration"] = {}]
    /\ UNCHANGED <<running, draft, latest, assets, othersVars>>

PlanRevised ==  \* the constant in the code is another one
    /\ Change /\ latest' = [latest EXCEPT !.plan = @ + 1]
    /\ UNCHANGED <<store, running, draft, assets, othersVars>>

\* report() reads the plan, the metrics and the run's model, tries the sealed
\* mutations, and only then hashes the plan that its report is to name.
ReportBegins ==
    /\ draft = NoDraft /\ store["preregistration"] # {} /\ Change
    /\ draft' = [draft EXCEPT !["id"] = store["preregistration"]]
    /\ UNCHANGED <<store, running, latest, assets, othersVars>>

DraftTakes(after, place, content) ==
    /\ draft[after] # {} /\ draft[place] = {}
    /\ draft' = IF content = {} THEN NoDraft  \* the file is missing
                ELSE [draft EXCEPT ![place] = content]
    /\ UNCHANGED <<deskVars, store, running, latest, assets, othersVars>>

ReportReadsMetrics == DraftTakes("id", "metrics", store["metrics"])
ReportReadsModel ==
    DraftTakes("metrics", "unsafe", {c.unsafe : c \in store["config"]})
ReportHashesPlan == DraftTakes("unsafe", "plan", store["preregistration"])

ReportWrites ==
    /\ draft["plan"] # {} /\ draft' = NoDraft
    /\ Written("report", ReportOn(The(draft["id"]), The(draft["metrics"]),
                                  The(draft["unsafe"]), The(draft["plan"])))
    /\ UNCHANGED <<deskVars, running, latest, assets, othersVars>>

ReportDies ==
    /\ draft # NoDraft /\ draft' = NoDraft
    /\ UNCHANGED <<deskVars, store, running, latest, assets, othersVars>>

AssetsRebuilt ==
    /\ Change /\ assets' \in EpisodeSets \ {assets}
    /\ UNCHANGED <<store, running, draft, latest, othersVars>>

CodeEdited ==  \* the runner's code differs from the commit, or is committed
    /\ Change
    /\ \E code \in {"committed", "edited"} \ store["code"] :
           Written("code", code)
    /\ UNCHANGED <<running, draft, latest, assets, othersVars>>

-----------------------------------------------------------------------------
(* build(): what it reads, in this order, into which place *)
Reads ==
    <<[file |-> "preregistration", into |-> "hash_preregistration"],
      [file |-> "report",          into |-> "hash_report"],
      [file |-> "config",          into |-> "hash_config"],
      [file |-> "metrics",         into |-> "hash_metrics"],
      [file |-> "report",          into |-> "loaded"],
      [file |-> "preregistration", into |-> "plan"],
      [file |-> "config",          into |-> "config"],
      [file |-> "metrics",         into |-> "metrics"],
      [file |-> "code",            into |-> "code"]>>

\* What it emits after that, in this order.
Emits == <<"preregistration", "report", "identities", "telemetry",
           "manifest", "artifacts">>

Places == {Reads[i].into : i \in DOMAIN Reads} \union PackFiles

Building == command \in {"build", "verify"}

StartBuild ==
    /\ \E name \in {"build", "verify"} : Give(name, Places)
    /\ UNCHANGED evidenceVars

\* The report must name the plan on disk, the episodes of the configuration
\* must be those of the repository; a file that is missing raises.
Refuses(place, content) ==
    \/ content = {}
    \/ place = "plan" /\ The(got["loaded"]).plan # The(content)
    \/ place = "config" /\ The(content).episodes # assets

ReadNext ==
    /\ Building /\ at <= Len(Reads)
    /\ LET step == Reads[at]
           content == store[step.file]
       IN  IF Refuses(step.into, content) THEN Leave
           ELSE Take(step.into, content)
    /\ UNCHANGED evidenceVars

Artifacts ==
    [preregistration |-> The(got["hash_preregistration"]),
     report |-> The(got["hash_report"]), config |-> The(got["hash_config"]),
     metrics |-> The(got["hash_metrics"])]

\* The two documents are read again; the rest is derived from what was read.
Derived(file) ==
    CASE file \in {"preregistration", "report"} -> store[file]
      [] file = "identities" -> got["config"]
      [] file = "telemetry" -> got["metrics"]
      [] file = "manifest" ->
             {[plan |-> The(got["plan"]), report |-> The(got["loaded"]),
               artifacts |-> Artifacts, code |-> The(got["code"]),
               episodes |-> The(got["config"]).episodes]}
      [] file = "artifacts" -> {Artifacts}

\* _content_safe
Unsafe(file, content) ==
    file \in {"report", "identities"} /\ \E c \in content : c.unsafe

\* One file; --verify emits into a scratch directory.
EmitNext ==
    /\ Building /\ at > Len(Reads) /\ at <= Len(Reads) + Len(Emits)
    /\ LET file == Emits[at - Len(Reads)]
           content == Derived(file)
       IN  IF content = {} \/ Unsafe(file, content)
           THEN Leave /\ UNCHANGED pack
           ELSE IF command = "build"
           THEN GoOn /\ pack' = [pack EXCEPT ![file] = content]
           ELSE Take(file, content) /\ UNCHANGED pack
    /\ UNCHANGED <<storeVars, verified, certified, ledger, rewrites>>

DivergesInWhatItShows ==  \* a slip: the lists of hashes are not compared
    \/ \E f \in PackFiles : pack[f] = {}
    \/ \E f \in PackFiles \ {"manifest", "artifacts"} : pack[f] # got[f]

\* Every file is compared; of the manifest not what follows the commit, but
\* the runner's hashes must be those of the commit recorded.
Diverges ==
    \/ \E f \in PackFiles \ {"manifest"} : pack[f] # got[f]
    \/ pack["manifest"] = {}
    \/ LET ours == The(pack["manifest"])
           fresh == The(got["manifest"])
       IN  ours.code = "edited" \/ [ours EXCEPT !.code = fresh.code] # fresh

BuildReturns ==
    /\ Building /\ at > Len(Reads) + Len(Emits) /\ Leave
    /\ verified' = IF command = "verify" /\ ~Diverges THEN {pack} ELSE verified
    /\ UNCHANGED <<storeVars, pack, certified, ledger, rewrites>>

-----------------------------------------------------------------------------
(* assemble(): the baseline is hashed, loaded and hashed again *)
CertifyPlaces == {"expected", "rows", "baseline"}

StartCertify ==
    Give("certify", CertifyPlaces) /\ UNCHANGED evidenceVars

LoadEvidence ==
    /\ command = "certify" /\ at = 1
    /\ IF pack["manifest"] = {} THEN Leave
       ELSE Take("expected", {The(pack["manifest"]).artifacts.metrics})
    /\ UNCHANGED evidenceVars

VerifyBinding ==
    /\ command = "certify" /\ at = 2
    /\ IF store["metrics"] = got["expected"] THEN GoOn ELSE Leave
    /\ rewrites' = 0
    /\ UNCHANGED <<storeVars, resultVars>>

LoadMetrics ==
    /\ command = "certify" /\ at = 3 /\ Take("rows", store["metrics"])
    /\ UNCHANGED evidenceVars

HashBaseline ==
    /\ command = "certify" /\ at = 4 /\ Take("baseline", store["metrics"])
    /\ UNCHANGED evidenceVars

\* The certificates, which stay NOT_ISSUED, then the ledger.
WriteCertificates ==
    /\ command = "certify" /\ at = 5 /\ GoOn
    /\ certified' = got["rows"]
    /\ UNCHANGED <<storeVars, pack, verified, ledger, rewrites>>

WriteLedger ==
    /\ command = "certify" /\ at = 6 /\ Leave
    /\ ledger' = {[expected |-> The(got["expected"]),
                   baseline |-> The(got["baseline"]),
                   rows |-> The(got["rows"]), rewrites |-> rewrites]}
    /\ UNCHANGED <<storeVars, pack, verified, certified, rewrites>>

EvidenceNext ==
    \/ RunBegins \/ RunEnds \/ RunDies
    \/ Preregister \/ PlanWithdrawn \/ PlanRevised
    \/ ReportBegins \/ ReportReadsMetrics \/ ReportReadsModel
    \/ ReportHashesPlan \/ ReportWrites \/ ReportDies
    \/ AssetsRebuilt \/ CodeEdited
    \/ StartBuild \/ ReadNext \/ EmitNext \/ BuildReturns
    \/ StartCertify \/ LoadEvidence \/ VerifyBinding \/ LoadMetrics
    \/ HashBaseline \/ WriteCertificates \/ WriteLedger

-----------------------------------------------------------------------------
\* A pack that --verify passed tells of the files it lists, though neither
\* command read the store at one moment, results come back, and a build that
\* was killed may have overwritten part of an older pack: each number and each
\* identity in it comes from the file whose hash the pack lists, and every
\* report it shows, hashes or draws on names the plan it lists.
VerifiedPackIsTrue ==
    \A p \in verified :
        LET hashes == The(p["artifacts"])
        IN  /\ p["telemetry"] = {hashes.metrics}
            /\ p["identities"] = {hashes.config}
            /\ p["preregistration"] = {hashes.preregistration}
            /\ \A r \in p["report"]
                     \union {hashes.report, The(p["manifest"]).report} :
                   r.plan = hashes.preregistration

\* Where the ledger names the baseline that the evidence binds, its rows are of
\* that baseline, unless two runs ended while assemble() was hashing the file,
\* reading it and hashing it again, and the second brought the first one's
\* content back.
LedgerTellsItsBytes ==
    \A l \in ledger :
        l.baseline = l.expected /\ l.rewrites <= 1 => l.rows = l.baseline

\* Evidence that a command checked is true of the files it names by hash: the
\* pack that --verify passed (bind_gates_evidence.py:353-391) and the ledger
\* that names the bound baseline (issue_certificates.py:86-104, :259-265).
EvidenceIsTrue == VerifiedPackIsTrue /\ LedgerTellsItsBytes
=============================================================================
