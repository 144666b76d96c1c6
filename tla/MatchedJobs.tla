------------------------------ MODULE MatchedJobs ------------------------------
(***************************************************************************)
(* cleanroom_eval/matched_run.py, execute_pending_jobs: the jobs of a      *)
(* frozen plan are executed in order, each once, with a marker on disk     *)
(* while a job is in flight and a receipt on disk when it is done.  The    *)
(* command is run again and again; a run may be killed, or the machine may *)
(* stop, between any two file-system operations.                           *)
(*                                                                         *)
(* _atomic_json writes and fsyncs a temporary file before it renames it,   *)
(* so a name stands for a whole file.  Receipts are written only after     *)
(* verify_job_receipt accepts them, so the one found again is valid.       *)
(***************************************************************************)
EXTENDS Naturals, Sequences, FiniteSets, Durability

CONSTANTS
    N,          \* the plan has jobs 1 to N, in this order
    MaxJobs,    \* --max-jobs
    MaxLosses   \* bound on how often a run is killed or the machine stops

ASSUME BoundsAssumption ==
    N \in Nat /\ MaxJobs \in Nat \ {0} /\ MaxLosses \in Nat

Jobs == 1..N

OuterDir == <<"directory", 2>>          \* all parents of receipt_dir that a
                                        \* run has to make: any lost, all are
ReceiptDir == <<"directory", 0>>        \* receipt_dir, in its parent
StartedDir == <<"directory", 1>>        \* receipt_dir / "started"
Target(j) == <<"target", j>>            \* receipt_dir / j.json
Started(j) == <<"started", j>>          \* receipt_dir / "started" / j.json

Targets == {Target(j) : j \in Jobs}
Markers == {Started(j) : j \in Jobs}
InRoot == {ReceiptDir}
AboveRoot == {OuterDir}
InReceipts == {StartedDir} \union Targets

VARIABLES
    live,       \* the entries processes see
    disk,       \* the entries that would survive
    pc,         \* where the running command is, "down" when none runs
    job,        \* the plan position it has reached
    completed,  \* jobs this run executed
    calls,      \* how often each job was sent to the provider
    reported,   \* jobs some run counted as executed or reused
    kills,      \* how often a run was killed
    stops,      \* how often the machine stopped
    uprooted,   \* how many of these stops lost a directory above receipt_dir
    ending,     \* what ends runs early in this history: "process" (they are
                \* killed), "power" (the machine stops) or "either"
    placed      \* whether the parent of receipt_dir was on disk from the start

losses == <<kills, stops, uprooted>>
history == <<ending, placed>>   \* never changes
vars == <<live, disk, pc, job, completed, calls, reported, losses>>

Init ==
    /\ ending \in {"process", "power", "either"} /\ placed \in BOOLEAN
    /\ live = (IF placed THEN AboveRoot ELSE {}) /\ disk = live
    /\ pc = "down" /\ job = 1 /\ completed = 0
    /\ calls = [j \in Jobs |-> 0] /\ reported = {}
    /\ kills = 0 /\ stops = 0 /\ uprooted = 0

Make(n) == live' = live \union {n} /\ UNCHANGED disk
Remove(n) == live' = live \ {n} /\ UNCHANGED disk
Fsync(entries) == disk' = Synced(live, disk, entries) /\ UNCHANGED live
FsyncSkipped(entries) == UNCHANGED <<live, disk>>  \* a slip: no fsync

Goto(from, to) == pc = from /\ pc' = to /\ UNCHANGED <<job, completed>>

NextJob == pc' = "visit" /\ job' = job + 1

-----------------------------------------------------------------------------
(* The command starts: mkdir(parents=True) makes what is missing from the   *)
(* top down; only the parent of receipt_dir is fsynced, and no directory    *)
(* above it, new as it may be                                               *)
Begin ==
    /\ pc = "down"
    /\ pc' = "open" /\ job' = 1 /\ completed' = 0
    /\ UNCHANGED <<live, disk, calls, reported, losses>>

MakeParents ==
    /\ pc = "open" /\ {OuterDir, ReceiptDir} \intersect live = {}
    /\ Make(OuterDir)
    /\ UNCHANGED <<pc, job, completed, calls, reported, losses>>

OpenDirectory ==
    /\ OuterDir \in live
    /\ IF ReceiptDir \in live
       THEN Goto("open", "visit") /\ UNCHANGED <<live, disk>>
       ELSE Goto("open", "sync_root") /\ Make(ReceiptDir)
    /\ UNCHANGED <<calls, reported, losses>>

SyncRoot ==
    /\ Goto("sync_root", "visit") /\ Fsync(InRoot)
    /\ UNCHANGED <<calls, reported, losses>>

-----------------------------------------------------------------------------
(* The loop over plan["jobs"] *)
Visiting == pc = "visit" /\ job \in Jobs

\* A receipt is reused, and a marker a crash left beside it is cleared.
ReuseAndCount ==  \* a slip: reused jobs count against --max-jobs
    /\ Visiting /\ Target(job) \in live
    /\ reported' = reported \union {job}
    /\ completed' = completed + 1
    /\ IF Started(job) \in live
       THEN Remove(Started(job)) /\ pc' = "sync_reuse" /\ UNCHANGED job
       ELSE NextJob /\ UNCHANGED <<live, disk>>
    /\ UNCHANGED <<calls, losses>>

Reuse ==
    /\ Visiting /\ Target(job) \in live
    /\ reported' = reported \union {job}
    /\ IF Started(job) \in live
       THEN Remove(Started(job)) /\ pc' = "sync_reuse" /\ UNCHANGED job
       ELSE NextJob /\ UNCHANGED <<live, disk>>
    /\ UNCHANGED <<completed, calls, losses>>

SyncReuse ==
    /\ pc = "sync_reuse" /\ NextJob /\ Fsync(Markers)
    /\ UNCHANGED <<completed, calls, reported, losses>>

\* "indeterminate completion; do not resume this run"
Refuse ==
    /\ Visiting /\ Target(job) \notin live /\ Started(job) \in live
    /\ Goto("visit", "down")
    /\ UNCHANGED <<live, disk, calls, reported, losses>>

PendingUnasked ==  \* a slip: the marker is not looked for
    Visiting /\ Target(job) \notin live

Pending == Visiting /\ {Target(job), Started(job)} \intersect live = {}

Pause ==
    /\ Pending /\ completed >= MaxJobs
    /\ Goto("visit", "down")
    /\ UNCHANGED <<live, disk, calls, reported, losses>>

\* _atomic_json(started, ...): mkdir and fsync of its parent, rename, fsync.
PrepareMarker ==
    /\ Pending /\ completed < MaxJobs
    /\ IF StartedDir \in live
       THEN Goto("visit", "mark") /\ UNCHANGED <<live, disk>>
       ELSE Goto("visit", "sync_started") /\ Make(StartedDir)
    /\ UNCHANGED <<calls, reported, losses>>

SyncStarted ==
    /\ Goto("sync_started", "mark") /\ Fsync(InReceipts)
    /\ UNCHANGED <<calls, reported, losses>>

Mark ==
    /\ Goto("mark", "sync_mark") /\ Make(Started(job))
    /\ UNCHANGED <<calls, reported, losses>>

SyncMarkSkipped ==  \* a slip: the marker is not fsynced
    /\ Goto("sync_mark", "call") /\ FsyncSkipped(Markers)
    /\ UNCHANGED <<calls, reported, losses>>

SyncMark ==
    /\ Goto("sync_mark", "call") /\ Fsync(Markers)
    /\ UNCHANGED <<calls, reported, losses>>

\* begin_job and _run_arm: the provider is called and charged.
Call ==
    /\ Goto("call", "record")
    /\ calls' = [calls EXCEPT ![job] = @ + 1]
    /\ UNCHANGED <<live, disk, reported, losses>>

\* begin_job, _run_arm, _job_receipt or verify_job_receipt raises.
Fail ==
    /\ Goto("call", "down") \/ Goto("record", "down")
    /\ UNCHANGED <<live, disk, calls, reported, losses>>

Record ==
    /\ Goto("record", "sync_record") /\ Make(Target(job))
    /\ UNCHANGED <<calls, reported, losses>>

SyncRecordSkipped ==  \* a slip: the receipt is not fsynced
    /\ Goto("sync_record", "unmark") /\ FsyncSkipped(InReceipts)
    /\ UNCHANGED <<calls, reported, losses>>

SyncRecord ==
    /\ Goto("sync_record", "unmark") /\ Fsync(InReceipts)
    /\ UNCHANGED <<calls, reported, losses>>

Unmark ==
    /\ Goto("unmark", "sync_unmark") /\ Remove(Started(job))
    /\ UNCHANGED <<calls, reported, losses>>

SyncUnmark ==
    /\ pc = "sync_unmark" /\ NextJob /\ Fsync(Markers)
    /\ completed' = completed + 1
    /\ reported' = reported \union {job}
    /\ UNCHANGED <<calls, losses>>

Finish ==
    /\ pc = "visit" /\ job \notin Jobs
    /\ Goto("visit", "down")
    /\ UNCHANGED <<live, disk, calls, reported, losses>>

-----------------------------------------------------------------------------
(* The process is killed, or the machine stops *)
ProcessLoss ==
    /\ ending # "power" /\ kills + stops < MaxLosses /\ pc # "down"
    /\ kills' = kills + 1
    /\ pc' = "down"
    /\ UNCHANGED <<live, disk, job, completed, calls, reported, stops,
                   uprooted>>

\* An entry is found only if the directories above it are.
Reachable(found) ==
    {n \in found : /\ OuterDir \in found
                   /\ n \notin AboveRoot \union InRoot => ReceiptDir \in found
                   /\ n \in Markers => StartedDir \in found}

PowerLoss ==
    /\ ending # "process" /\ kills + stops < MaxLosses
    /\ stops' = stops + 1
    /\ \E found \in Survivors(live, disk) :
        /\ live' = Reachable(found) /\ disk' = Reachable(found)
        /\ uprooted' = IF OuterDir \in live \ found THEN uprooted + 1
                       ELSE uprooted
    /\ pc' = "down"
    /\ UNCHANGED <<job, completed, calls, reported, kills>>

Step ==
    \/ MakeParents \/ OpenDirectory \/ SyncRoot
    \/ Reuse \/ SyncReuse \/ Refuse \/ Pause
    \/ PrepareMarker \/ SyncStarted \/ Mark \/ SyncMark
    \/ Call \/ Fail \/ Record \/ SyncRecord \/ Unmark \/ SyncUnmark
    \/ Finish

Next ==
    /\ Begin \/ Step \/ ProcessLoss \/ PowerLoss
    /\ UNCHANGED history

Spec == Init /\ [][Next]_<<vars, history>>
FairSpec == Spec /\ WF_vars(Begin) /\ WF_vars(Step)

-----------------------------------------------------------------------------
Phases == {"down", "open", "sync_root", "visit", "sync_reuse", "sync_started",
           "mark", "sync_mark", "call", "record", "sync_record", "unmark",
           "sync_unmark"}

\* Names are those of the plan, counters stay within their bounds.
TypeOK ==
    /\ live \subseteq AboveRoot \union InRoot \union InReceipts \union Markers
    /\ disk \subseteq AboveRoot \union InRoot \union InReceipts \union Markers
    /\ pc \in Phases /\ job \in 1..(N + 1) /\ completed \in Nat
    /\ calls \in [Jobs -> Nat] /\ reported \subseteq Jobs
    /\ kills \in Nat /\ stops \in Nat /\ kills + stops <= MaxLosses
    /\ uprooted \in 0..stops
    /\ ending \in {"process", "power", "either"} /\ placed \in BOOLEAN

Trace(j) == {Target(j), Started(j)} \intersect live

\* A job is sent to the provider once, and again only after the machine
\* stopped: by itself where that lost the directories a run had made above
\* receipt_dir, and otherwise only after a run was killed as well.
SendsAreBounded ==
    \A j \in Jobs : calls[j] <= stops + 1 /\ calls[j] <= kills + uprooted + 1

\* More is promised only of a history that ends runs in one way: a kill can
\* leave a receipt that is reused but not on disk, which a stop of the machine
\* then takes back.  And where the machine stops, receipt_dir has to be made
\* in a directory that was there: one above it that a run made is never
\* fsynced, and with it everything is lost (matched_run.py:914-917).
OneWay == ending = "process" \/ (ending = "power" /\ placed)

\* In such a history a job is sent at most once, over all runs.
AtMostOnce == OneWay => \A j \in Jobs : calls[j] <= 1

\* A job that was sent has then left a trace every later run sees: its
\* receipt, or the marker that makes the run stop (matched_run.py:935-939).
CalledLeavesTrace == OneWay => \A j \in Jobs : calls[j] > 0 => Trace(j) # {}

\* The entries that outlive whatever can happen in a history of one way.
Lasting == IF ending = "power" THEN live \intersect disk ELSE live

\* A job reported as executed or reused was called and has its receipt, and
\* keeps it through whatever happens later.
ReportedIsDurable ==
    OneWay => \A j \in reported : calls[j] = 1 /\ Target(j) \in Lasting

Indeterminate(j) == Started(j) \in live /\ Target(j) \notin live

\* build_readiness_report: what it says of the receipt directory.
Readiness ==
    IF \E j \in Jobs : Indeterminate(j) THEN "BLOCKED_MISSING_OR_INVALID_INPUTS"
    ELSE IF \A j \in Jobs : Target(j) \in live
         THEN "READY_FOR_INDEPENDENT_ATTESTATION"
         ELSE "READY_TO_EXECUTE"

Attestable == Readiness = "READY_FOR_INDEPENDENT_ATTESTATION"

\* Once the report written after a run offers the receipts for attestation,
\* it always will, and every job was paid for exactly once.
AttestationStands ==
    [](OneWay /\ pc = "down" /\ Attestable =>
           [](Attestable /\ \A j \in Jobs : calls[j] = 1))

\* Rerunning the command gets somewhere: in the end every job has a receipt,
\* or one is indeterminate and the run must not be resumed.
Settles == <>[](\/ \A j \in Jobs : Target(j) \in live
                \/ \E j \in Jobs : Indeterminate(j))

\* What the ledger is told: nothing of a history that mixes both ways.
Made == IF OneWay THEN calls ELSE [j \in Jobs |-> 0]
Kept ==
    {j \in Jobs : OneWay /\ {OuterDir, ReceiptDir, Target(j)} \subseteq Lasting}

Ledger == INSTANCE CallLedger WITH Calls <- Jobs, made <- Made, kept <- Kept

ImplementsLedger == Ledger!LSpec
=============================================================================
