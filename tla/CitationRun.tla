------------------------------ MODULE CitationRun ------------------------------
(***************************************************************************)
(* cleanroom_eval/citation_run.py, run: one logical provider call per      *)
(* task, made by a pool of workers, each with a marker on disk while it is *)
(* in flight and a record on disk when it has an answer, failed answers    *)
(* included.  The command is run again until every task has its record;    *)
(* then it writes a receipt and a manifest over all of them.               *)
(*                                                                         *)
(* _atomic_json fsyncs the file before it renames it, but no directory: an *)
(* entry reaches the disk whenever the system writes it back.              *)
(***************************************************************************)
EXTENDS CitationAnswers, Durability

CONSTANTS
    N,          \* the frozen task set has tasks 1 to N
    Task,       \* the evidence and the oracle of each
    Calls,      \* what the provider call of each may come to: a function per task
    Refused,    \* the ones of these whose record no later command accepts
    Minimum,    \* percentage of the calls that an acceptance needs completed
    Workers,    \* --max-workers in each configuration of the command
    MaxLosses   \* bound on how often the run ends early

ASSUME BoundsAssumption ==
    /\ N \in Nat /\ MaxLosses \in Nat /\ Minimum \in Nat
    /\ Workers \in [DOMAIN Workers -> Nat \ {0}]

Configs == DOMAIN Workers
Tasks == 1..N

Record(s) == <<"record", s>>
Started(s) == <<"started", s>>
Receipt == <<"run", 1>>
Manifest == <<"run", 2>>
Config == <<"run", 3>>

Seals == {Receipt, Manifest}
Names == {Record(s) : s \in Tasks} \union {Started(s) : s \in Tasks}
         \union Seals \union {Config}

\* What the record of a task may come to say
Answer(s, a) == RecordOf(Calls[s][a], Task[s])
\* A call has an outcome of these classes and at most one selection.
ASSUME CallsAssumption ==
    \A s \in Tasks :
        /\ Formed(Task[s].oracle)
        /\ \A a \in DOMAIN Calls[s] :
            /\ Calls[s][a].class \in {"none", "RESPONSE", "HTTP", "TRANSPORT"}
            /\ Calls[s][a].selection = {}
               \/ \E c \in Calls[s][a].selection :
                        Formed(c) /\ Calls[s][a].selection = {c}
ASSUME RefusedAssumption ==
    \A s \in Tasks :
        Refused[s] = {a \in DOMAIN Calls[s] : ~Validated(Answer(s, a), Task[s])}

VARIABLES
    live, disk,  \* the entries processes see; those that would survive
    config,      \* {} or {the configuration in run-config.json}
    phase,       \* "down", or what the main thread is doing
    using,       \* {} or {the configuration the command was started with}
    scanned,     \* tasks the scan has looked at
    task,        \* what has become of each task in this run
    records,     \* which of its answers the record of a task holds, {} or {it}
    sealed,      \* the records that receipt and manifest speak for, as {} or {them}
    kept,        \* the same of the version of either that is on disk
    calls,       \* history: how often each task was sent
    sentUnder,   \* history: the configurations calls were made with
    ending,      \* what may end a run early: "process" or "power"
    losses

sent == <<calls, sentUnder, ending>>
contents == <<records, sealed, kept>>
history == <<contents, sent>>
vars == <<live, disk, config, phase, using, scanned, task, history, losses>>

Idle == [s \in Tasks |-> "idle"]

Init ==
    /\ live = {} /\ disk = {} /\ config = {}
    /\ phase = "down" /\ using = {} /\ scanned = 0 /\ task = Idle
    /\ records = [s \in Tasks |-> {}]
    /\ sealed = [n \in Seals |-> {}] /\ kept = sealed
    /\ calls = [s \in Tasks |-> 0] /\ sentUnder = {}
    /\ ending \in {"process", "power"} /\ losses = 0

Enter(n) == live' = live \union {n} /\ UNCHANGED disk
Unlink(n) == live' = live \ {n} /\ UNCHANGED disk
Become(s, what) == task' = [task EXCEPT ![s] = what]

Stop == phase' = "down" /\ using' = {} /\ scanned' = 0 /\ task' = Idle

InState(what) == {s \in Tasks : task[s] = what}
InFlight == {s \in Tasks : task[s] \in
                {"marking", "waiting", "calling", "recording", "unmarking"}}

-----------------------------------------------------------------------------
(* run(): the configuration is written once; a command started with another *)
(* one ("resume configuration differs") changes nothing.                   *)
BeginAnyway ==  \* a slip: the configuration on file is not compared
    /\ phase = "down" /\ phase' = "scan"
    /\ \E c \in Configs :
        /\ using' = {c}
        /\ IF Config \in live
           THEN UNCHANGED <<live, disk, config>>
           ELSE Enter(Config) /\ config' = {c}
    /\ UNCHANGED <<scanned, task, history, losses>>

Begin ==
    /\ phase = "down" /\ phase' = "scan"
    /\ \E c \in Configs :
        /\ using' = {c}
        /\ IF Config \in live
           THEN config = {c} /\ UNCHANGED <<live, disk, config>>
           ELSE Enter(Config) /\ config' = {c}
    /\ UNCHANGED <<scanned, task, history, losses>>

-----------------------------------------------------------------------------
(* The scan, in task order *)
Scanning == phase = "scan" /\ scanned < N
Here == scanned + 1
Rejected(s) == records[s] \intersect Refused[s] # {}
Scanned == scanned' = scanned + 1

ScanForgotten ==  \* a slip: the record is not collected
    /\ Scanning /\ Record(Here) \in live
    /\ Unlink(Started(Here)) /\ Scanned
    /\ UNCHANGED <<config, phase, using, task, history, losses>>

ScanRecorded ==
    /\ Scanning /\ Record(Here) \in live /\ ~Rejected(Here)
    /\ Unlink(Started(Here)) /\ Become(Here, "done") /\ Scanned
    /\ UNCHANGED <<config, phase, using, history, losses>>

\* _validate_record raises: nothing is sent for this directory again.
ScanRejected ==
    /\ Scanning /\ Record(Here) \in live /\ Rejected(Here)
    /\ Stop
    /\ UNCHANGED <<live, disk, config, history, losses>>

\* "indeterminate completion; do not resume this acceptance run"
ScanRefused ==
    /\ Scanning /\ Record(Here) \notin live /\ Started(Here) \in live
    /\ Stop
    /\ UNCHANGED <<live, disk, config, history, losses>>

ScanPending ==
    /\ Scanning /\ {Record(Here), Started(Here)} \intersect live = {}
    /\ Become(Here, "queued") /\ Scanned
    /\ UNCHANGED <<live, disk, config, phase, using, history, losses>>

Submit ==
    /\ phase = "scan" /\ scanned = N
    /\ phase' = "pool"
    /\ UNCHANGED <<live, disk, config, using, scanned, task, history, losses>>

-----------------------------------------------------------------------------
(* _execute_one(), by a worker of the pool *)
Pool == phase \in {"pool", "cancelled"}
Working == UNCHANGED <<config, phase, using, scanned, losses>>

\* Workers take the queued tasks in the order they were submitted.
Take(s) ==
    /\ Pool /\ \A c \in using : Cardinality(InFlight) < Workers[c]
    /\ s \in InState("queued") /\ \A t \in InState("queued") : s <= t
    /\ Become(s, "marking")
    /\ UNCHANGED <<live, disk, history>> /\ Working

MarkLate(s) ==  \* a slip: the marker is written after the call
    /\ Pool /\ task[s] = "marking"
    /\ Become(s, "waiting")
    /\ UNCHANGED <<live, disk, history>> /\ Working

Mark(s) ==
    /\ Pool /\ task[s] = "marking"
    /\ Enter(Started(s)) /\ Become(s, "waiting")
    /\ UNCHANGED history /\ Working

\* limiter.wait() returns and the request is sent.
Call(s) ==
    /\ Pool /\ task[s] = "waiting"
    /\ Become(s, "calling")
    /\ calls' = [calls EXCEPT ![s] = @ + 1]
    /\ sentUnder' = sentUnder \union using
    /\ UNCHANGED <<live, disk, contents, ending>> /\ Working

\* An answer, valid or not, an HTTP failure included, makes a record.
Return(s) ==
    /\ Pool /\ task[s] = "calling"
    /\ Become(s, "recording")
    /\ UNCHANGED <<live, disk, history>> /\ Working

\* Not exactly one telemetry record, or an exception nobody expected.
Raise(s) ==
    /\ Pool /\ task[s] \in {"calling", "recording"}
    /\ Become(s, "failed")
    /\ UNCHANGED <<live, disk, history>> /\ Working

WriteRecord(s) ==
    /\ Pool /\ task[s] = "recording"
    /\ Enter(Record(s)) /\ Become(s, "unmarking")
    /\ \E a \in DOMAIN Calls[s] : records' = [records EXCEPT ![s] = {a}]
    /\ UNCHANGED <<sealed, kept, sent>> /\ Working

Unmark(s) ==
    /\ Pool /\ task[s] = "unmarking"
    /\ Unlink(Started(s)) /\ Become(s, "done")
    /\ UNCHANGED history /\ Working

Execute(s) ==
    \/ Take(s) \/ Mark(s) \/ Call(s) \/ Return(s) \/ Raise(s)
    \/ WriteRecord(s) \/ Unmark(s)

-----------------------------------------------------------------------------
(* The main thread: as_completed, cancellation, receipt and manifest *)
Cancel ==
    /\ phase = "pool" /\ InState("failed") # {}
    /\ phase' = "cancelled"
    /\ task' = [s \in Tasks |-> IF task[s] = "queued" THEN "cancelled"
                                ELSE task[s]]
    /\ UNCHANGED <<live, disk, config, using, scanned, history, losses>>

\* The pool is left when its running tasks have ended, then run() raises.
Abort ==
    /\ phase = "cancelled" /\ InFlight = {}
    /\ Stop
    /\ UNCHANGED <<live, disk, config, history, losses>>

AllDoneSoFar == InState("queued") = {}  \* a slip: tasks in flight forgotten

AllDone == InState("done") = Tasks

WriteReceipt ==
    /\ phase = "pool" /\ AllDone
    /\ Enter(Receipt) /\ phase' = "seal"
    /\ sealed' = [sealed EXCEPT ![Receipt] = {records}]
    /\ UNCHANGED <<config, using, scanned, task, records, kept, sent, losses>>

\* The manifest is signed and written; what verify_run then reads is Verifies.
WriteManifest ==
    /\ phase = "seal"
    /\ Enter(Manifest) /\ Stop
    /\ sealed' = [sealed EXCEPT ![Manifest] = {records}]
    /\ UNCHANGED <<config, records, kept, sent, losses>>

\* verify_run() accepts the directory, after the run or in a command of its own.
Verifies ==
    /\ Seals \union {Config} \union {Record(s) : s \in Tasks} \subseteq live
    /\ \A s \in Tasks : ~Rejected(s)
    /\ \A n \in Seals : sealed[n] = {records}

-----------------------------------------------------------------------------
(* The process is killed, the machine stops, an entry is written back *)
ProcessLoss ==
    /\ ending = "process" /\ losses < MaxLosses /\ phase # "down"
    /\ losses' = losses + 1 /\ Stop
    /\ UNCHANGED <<live, disk, config, history>>

Unwritten == {n \in live \union disk :
                 n \notin live \intersect disk \/ (n \in Seals /\ sealed[n] # kept[n])}

Writeback ==
    /\ ending = "power"
    /\ \E n \in Unwritten :
        /\ disk' = Synced(live, disk, {n})
        /\ kept' = [m \in Seals |-> IF m = n THEN sealed[m] ELSE kept[m]]
    /\ UNCHANGED <<live, config, phase, using, scanned, task, records, sealed,
                   sent, losses>>

\* A file that was replaced is found in its old version or in its new one.
PowerLoss ==
    /\ ending = "power" /\ losses < MaxLosses
    /\ losses' = losses + 1 /\ Stop
    /\ \E found \in Survivors(live, disk) :
        /\ live' = found /\ disk' = found
        /\ config' = IF Config \in found THEN config ELSE {}
        /\ records' = [s \in Tasks |-> IF Record(s) \in found THEN records[s] ELSE {}]
        /\ \E version \in [Seals -> {sealed, kept}] :
            /\ \A n \in Seals \intersect found : version[n][n] # {}
            /\ sealed' = [n \in Seals |-> IF n \in found THEN version[n][n] ELSE {}]
        /\ kept' = sealed'
    /\ UNCHANGED sent

Main ==
    \/ Begin \/ ScanRecorded \/ ScanRejected \/ ScanRefused \/ ScanPending
    \/ Submit \/ Cancel \/ Abort \/ WriteReceipt \/ WriteManifest

Next ==
    \/ Main
    \/ \E s \in Tasks : Execute(s)
    \/ ProcessLoss \/ Writeback \/ PowerLoss

Spec == Init /\ [][Next]_vars
FairSpec == /\ Spec /\ WF_vars(Main)
            /\ \A s \in Tasks : WF_vars(Execute(s))

-----------------------------------------------------------------------------
TaskStates == {"idle", "queued", "marking", "waiting", "calling", "recording",
               "unmarking", "done", "failed", "cancelled"}

Records == [Tasks -> SUBSET UNION {DOMAIN Calls[s] : s \in Tasks}]

\* The files are those of the run, and the configuration on file is one.
TypeOK ==
    /\ live \subseteq Names /\ disk \subseteq Names
    /\ config \subseteq Configs /\ using \subseteq Configs
    /\ (Config \in live) <=> (config # {})
    /\ phase \in {"down", "scan", "pool", "cancelled", "seal"}
    /\ scanned \in 0..N /\ task \in [Tasks -> TaskStates]
    /\ records \in Records
    /\ sealed \in [Seals -> SUBSET Records] /\ kept \in [Seals -> SUBSET Records]
    /\ calls \in [Tasks -> Nat] /\ sentUnder \subseteq Configs
    /\ ending \in {"process", "power"} /\ losses \in 0..MaxLosses

\* "A resumed run never repeats an already checkpointed logical call, including
\* a failed call" (citation_run.py:3-4), nor one whose answer never came: a
\* process that is killed costs no task a second call, and each stop of the
\* machine, which may lose record and marker, at most one.
Forgiven == IF ending = "power" THEN losses ELSE 0
RepeatsAreBounded == \A s \in Tasks : calls[s] <= Forgiven + 1

\* What stops another call: the record or the marker of a task that was sent.
CalledLeavesTrace ==
    \A s \in Tasks :
        calls[s] > Forgiven => {Record(s), Started(s)} \intersect live # {}

\* All calls of one run directory are made under the one configuration its
\* manifest will commit to (citation_run.py:627-631).
OneConfiguration == ending = "process" => sentUnder \subseteq config

\* A receipt or a manifest speaks for exactly one answered call per task, for
\* the record of it on file, and no worker can still change what it speaks for.
SealedIsWhole ==
    ending = "process" /\ Seals \intersect live # {} =>
        /\ \A n \in Seals \intersect live : sealed[n] = {records}
        /\ \A s \in Tasks : /\ calls[s] = 1 /\ Record(s) \in live
                            /\ task[s] \notin {"calling", "recording", "unmarking"}

\* A directory that verifies as an acceptance has failed calls in no more than
\* its share of the tasks, and every other task was answered as its oracle
\* says, on evidence it was supplied with (citation_acceptance.py:59-73).
Supported(s, evidence) ==
    /\ \A i \in DOMAIN s.claims :
            /\ s.claims[i].cites # <<>>
            /\ Range(s.claims[i].cites) \subseteq DOMAIN evidence
            /\ \A c \in Range(s.claims[i].cites) :
                    s.claims[i].proposition \in evidence[c].propositions
    /\ s.kind = "refusal" =>
            ~\E e \in DOMAIN evidence : s.requested \in evidence[e].propositions

Earned(r, t) ==
    \E s \in r.selection : /\ Supported(s, t.evidence) /\ s.kind = t.oracle.kind
                           /\ {Meaning(c) : c \in Range(s.claims)}
                                = {Meaning(c) : c \in Range(t.oracle.claims)}

PassIsEarned ==
    LET record == [s \in Tasks |-> Answer(s, CHOOSE a \in records[s] : TRUE)]
        failed == {s \in Tasks : record[s].class \in {"HTTP", "TRANSPORT"}}
    IN  Verifies /\ Status(record, Minimum) = "PASS" =>
            /\ 100 * Cardinality(failed) <= (100 - Minimum) * N
            /\ \A s \in Tasks \ failed : Earned(record[s], Task[s])

\* A rendered answer has one citation for each piece of evidence that is cited,
\* which names exactly the claims that cite it, and its markers lead there
\* (citations.py:265-289).
CitedExactly ==
    \A t \in Tasks : \A n \in records[t] :
    \A s \in Answer(t, n).selection : \A a \in Answer(t, n).rendered :
        /\ \A u \in DOMAIN Uses(s) :
                a.citations[a.markers[u]].evidence = Uses(s)[u].evidence
        /\ \A k \in DOMAIN a.citations :
            LET citation == a.citations[k]
            IN  /\ \A j \in DOMAIN a.citations :
                       a.citations[j].evidence = citation.evidence => j = k
                /\ Range(citation.claims) =
                     {c.id : c \in {d \in Range(s.claims) :
                                       citation.evidence \in Range(d.cites)}}

Indeterminate(s) == Started(s) \in live /\ Record(s) \notin live

\* Rerunning the command ends with the manifest or with a task that keeps the
\* run from being resumed, however the workers and the failures interleave.
Settles ==
    ending = "process" =>
        <>[](\/ Manifest \in live
             \/ \E s \in Tasks : Indeterminate(s) \/ (Record(s) \in live /\ Rejected(s)))
=============================================================================
