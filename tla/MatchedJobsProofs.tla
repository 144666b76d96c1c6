--------------------------- MODULE MatchedJobsProofs ---------------------------
(***************************************************************************)
(* For any number of jobs: a job is sent again only after the machine      *)
(* stopped, and either lost the whole receipt directory with a parent a    *)
(* run had made, or a run was killed too.  Where runs end early in one way *)
(* only, and machines that stop have the parent of the directory on disk,  *)
(* a job is sent once, its receipt stays, and an offer of all receipts for *)
(* attestation stands.                                                     *)
(***************************************************************************)
EXTENDS MatchedJobs, TLAPS

USE DEF history

Names == AboveRoot \union InRoot \union InReceipts \union Markers

\* Each entry lies in a directory that exists.
Nested ==
    /\ live \intersect (InRoot \union InReceipts \union Markers) # {} =>
           OuterDir \in live
    /\ live \intersect (InReceipts \union Markers) # {} => ReceiptDir \in live
    /\ live \intersect Markers # {} => StartedDir \in live

\* Where the running command stands, and what it has done for its job.
Progress ==
    /\ pc \notin {"down", "open"} => ReceiptDir \in live
    /\ pc \notin {"down", "open", "sync_root", "visit"} => job \in Jobs
    /\ pc \in {"sync_started", "mark", "sync_mark", "call", "record",
               "sync_record", "unmark"} => StartedDir \in live
    /\ pc \in {"sync_mark", "call", "record", "sync_record", "unmark"} =>
           Started(job) \in live
    /\ pc = "sync_root" => live = {OuterDir, ReceiptDir}
    /\ pc = "sync_started" => live \intersect Markers = {}
    /\ pc \in {"sync_record", "unmark", "sync_unmark", "sync_reuse"} =>
           Target(job) \in live

\* What the next fsync will add to the disk, or take from it.
Unsynced ==
    CASE pc = "sync_root" -> {ReceiptDir}
      [] pc = "sync_started" -> {StartedDir}
      [] pc = "sync_mark" -> {Started(job)}
      [] pc = "sync_record" -> {Target(job)}
      [] pc \in {"sync_reuse", "sync_unmark"} -> {Started(job)}
      [] OTHER -> {}

\* The disk differs from what processes see by no more than the entry the
\* next fsync is for, and the directories above the one for receipts.
DiskCurrent ==
    /\ live \subseteq disk \union Unsynced \union AboveRoot
    /\ disk \subseteq live \union Unsynced

\* A kill can leave an fsync undone that no later run makes up for; this is
\* settled only when the machine stops.
Debt == IF DiskCurrent THEN 0 ELSE 1

\* All that was sent for the job has been lost again.
Spent(j) == calls[j] + Debt <= kills + uprooted /\ calls[j] <= stops

\* What calls have cost: each repeat of a job took a stop, and a kill too if
\* the directory for receipts was not lost in it.
Accounts ==
    /\ Debt <= kills
    /\ \A j \in Jobs : calls[j] + Debt <= kills + uprooted + 1 /\ calls[j] <= stops + 1
    /\ \A j \in Jobs : Trace(j) = {} => Spent(j)
    /\ pc \in {"sync_started", "mark", "sync_mark", "call"} => Spent(job)

\* Runs end in the ways of this history.
Ways ==
    /\ ending = "power" => kills = 0
    /\ ending = "process" => stops = 0
    /\ placed => OuterDir \in live \intersect disk /\ uprooted = 0

Shape == TypeOK /\ Nested /\ Progress /\ Ways

IInv == Shape /\ Accounts

LEMMA DistinctNames ==
    /\ \A i, j : Target(i) = Target(j) => i = j
    /\ \A i, j : Started(i) = Started(j) => i = j
    /\ \A i, j : Target(i) # Started(j)
    /\ \A i : Target(i) \notin {OuterDir, ReceiptDir, StartedDir}
    /\ \A i : Started(i) \notin {OuterDir, ReceiptDir, StartedDir}
    /\ ReceiptDir # StartedDir /\ OuterDir \notin {ReceiptDir, StartedDir}
BY DEF Target, Started, OuterDir, ReceiptDir, StartedDir

LEMMA InitIInv == Init => IInv
BY BoundsAssumption, DistinctNames
DEF Init, IInv, Shape, TypeOK, Nested, Progress, Ways, DiskCurrent, Debt,
    Unsynced, Accounts, Spent, Jobs, Phases, AboveRoot, InRoot, InReceipts,
    Targets, Markers

-----------------------------------------------------------------------------
(* One lemma per group of actions: the directories keep their shape, and   *)
(* no step of a run but a kill leaves the disk behind                      *)

LEMMA OpeningKeeps ==
    ASSUME Shape, Begin \/ MakeParents \/ OpenDirectory \/ SyncRoot,
           UNCHANGED history
    PROVE  Shape' /\ (DiskCurrent => DiskCurrent')
<1> USE DistinctNames, BoundsAssumption
    DEF Shape, Ways, TypeOK, Phases, Jobs, AboveRoot, InRoot, InReceipts,
        Targets, Markers,
        losses
<1>1. CASE Begin
  BY <1>1
  DEF Begin, Nested, Progress, DiskCurrent, Unsynced
<1>2. CASE OpenDirectory
  <2>1. CASE ReceiptDir \in live
    BY <1>2, <2>1
    DEF OpenDirectory, Goto, Nested, Progress, DiskCurrent, Unsynced
  <2>2. CASE ReceiptDir \notin live
    <3>1. live = {OuterDir}
      BY <1>2, <2>2 DEF OpenDirectory, Nested
    <3>2. live' = {OuterDir, ReceiptDir} /\ disk' = disk
      BY <1>2, <2>2, <3>1 DEF OpenDirectory, Make
    <3> QED
      BY <1>2, <2>2, <3>1, <3>2
      DEF OpenDirectory, Goto, Nested, Progress, DiskCurrent, Unsynced
  <2> QED BY <2>1, <2>2
<1>3. CASE SyncRoot
  BY <1>3
  DEF SyncRoot, Goto, Fsync, Synced, Nested, Progress, DiskCurrent, Unsynced
<1>4. CASE MakeParents
  BY <1>4
  DEF MakeParents, Make, Nested, Progress, DiskCurrent, Unsynced
<1> QED BY <1>1, <1>2, <1>3, <1>4

LEMMA ReusingKeeps ==
    ASSUME Shape, Reuse \/ SyncReuse \/ Refuse \/ Pause \/ Finish,
           UNCHANGED history
    PROVE  Shape' /\ (DiskCurrent => DiskCurrent')
<1> USE DistinctNames, BoundsAssumption
    DEF Shape, Ways, TypeOK, Phases, Jobs, AboveRoot, InRoot, InReceipts,
        Targets, Markers,
        losses, Visiting, NextJob
<1>1. CASE Reuse
  <2>1. CASE Started(job) \in live
    BY <1>1, <2>1
    DEF Reuse, Remove, Nested, Progress, DiskCurrent, Unsynced
  <2>2. CASE Started(job) \notin live
    <3>1. /\ pc = "visit" /\ pc' = "visit" /\ job \in Jobs /\ job' = job + 1
          /\ reported' = reported \union {job}
          /\ UNCHANGED <<live, disk, completed, calls, losses>>
      BY <1>1, <2>2 DEF Reuse
    <3>2. TypeOK' /\ Nested' /\ Ways'
      BY <3>1 DEF Nested
    <3>3. Progress' /\ (DiskCurrent => DiskCurrent')
      BY <3>1 DEF Progress, DiskCurrent, Unsynced
    <3> QED BY <3>2, <3>3
  <2> QED BY <2>1, <2>2
<1>2. CASE SyncReuse
  <2>1. TypeOK' /\ Ways'
    <3>1. job \in Jobs
      BY <1>2 DEF SyncReuse, Progress
    <3>2. /\ live' = live /\ pc' = "visit" /\ job' = job + 1
          /\ disk' = (disk \ Markers) \union (live \intersect Markers)
          /\ UNCHANGED <<completed, calls, reported, losses>>
      BY <1>2 DEF SyncReuse, Fsync, Synced
    <3>3. TypeOK'
      BY <3>1, <3>2
    <3> QED BY <3>2, <3>3
  <2>2. Nested' /\ Progress'
    BY <1>2 DEF SyncReuse, Fsync, Synced, Nested, Progress
  <2>3. DiskCurrent => DiskCurrent'
    BY <1>2 DEF SyncReuse, Fsync, Synced, DiskCurrent, Unsynced
  <2> QED BY <2>1, <2>2, <2>3
<1>3. CASE Refuse \/ Pause \/ Finish
  BY <1>3
  DEF Refuse, Pause, Pending, Finish, Goto, Nested, Progress, DiskCurrent,
      Unsynced
<1> QED BY <1>1, <1>2, <1>3

LEMMA MarkingKeeps ==
    ASSUME Shape, PrepareMarker \/ SyncStarted \/ Mark \/ SyncMark,
           UNCHANGED history
    PROVE  Shape' /\ (DiskCurrent => DiskCurrent')
<1> USE DistinctNames, BoundsAssumption
    DEF Shape, Ways, TypeOK, Phases, Jobs, AboveRoot, InRoot, InReceipts,
        Targets, Markers,
        losses, Goto
<1>1. CASE PrepareMarker
  <2>1. CASE StartedDir \in live
    <3>1. TypeOK' /\ Ways'
      BY <1>1, <2>1 DEF PrepareMarker, Pending, Visiting
    <3>2. Nested' /\ Progress' /\ (DiskCurrent => DiskCurrent')
      BY <1>1, <2>1
      DEF PrepareMarker, Pending, Visiting, Nested, Progress, DiskCurrent,
          Unsynced
    <3> QED BY <3>1, <3>2
  <2>2. CASE StartedDir \notin live
    <3>1. TypeOK' /\ Ways'
      BY <1>1, <2>2 DEF PrepareMarker, Pending, Visiting, Make
    <3>2. Nested' /\ Progress' /\ (DiskCurrent => DiskCurrent')
      BY <1>1, <2>2
      DEF PrepareMarker, Pending, Visiting, Make, Nested, Progress,
          DiskCurrent, Unsynced
    <3> QED BY <3>1, <3>2
  <2> QED BY <2>1, <2>2
<1>2. CASE SyncStarted
  BY <1>2
  DEF SyncStarted, Fsync, Synced, Nested, Progress, DiskCurrent, Unsynced
<1>3. CASE Mark
  BY <1>3
  DEF Mark, Make, Nested, Progress, DiskCurrent, Unsynced
<1>4. CASE SyncMark
  BY <1>4
  DEF SyncMark, Fsync, Synced, Nested, Progress, DiskCurrent, Unsynced
<1> QED BY <1>1, <1>2, <1>3, <1>4

LEMMA CallingKeeps ==
    ASSUME Shape, Call \/ Fail \/ Record \/ SyncRecord \/ Unmark \/ SyncUnmark,
           UNCHANGED history
    PROVE  Shape' /\ (DiskCurrent => DiskCurrent')
<1> USE DistinctNames, BoundsAssumption
    DEF Shape, Ways, TypeOK, Phases, Jobs, AboveRoot, InRoot, InReceipts,
        Targets, Markers,
        losses, Goto
<1>1. CASE Call
  <2>1. TypeOK' /\ Ways'
    <3>1. job \in Jobs
      BY <1>1 DEF Call, Progress
    <3> QED BY <1>1, <3>1 DEF Call
  <2>2. Nested' /\ Progress'
    BY <1>1 DEF Call, Nested, Progress
  <2>3. DiskCurrent => DiskCurrent'
    BY <1>1 DEF Call, DiskCurrent, Unsynced
  <2> QED BY <2>1, <2>2, <2>3
<1>2. CASE Fail
  BY <1>2
  DEF Fail, Nested, Progress, DiskCurrent, Unsynced
<1>3. CASE Record
  BY <1>3
  DEF Record, Make, Nested, Progress, DiskCurrent, Unsynced
<1>4. CASE SyncRecord
  BY <1>4
  DEF SyncRecord, Fsync, Synced, Nested, Progress, DiskCurrent, Unsynced
<1>5. CASE Unmark
  BY <1>5
  DEF Unmark, Remove, Nested, Progress, DiskCurrent, Unsynced
<1>6. CASE SyncUnmark
  <2>1. job \in Jobs /\ Started(job) \in Markers /\ Target(job) \in live
    BY <1>6 DEF SyncUnmark, Progress
  <2>2. /\ live' = live /\ disk' = (disk \ Markers) \union (live \intersect Markers)
        /\ pc' = "visit" /\ job' = job + 1 /\ completed' = completed + 1
        /\ reported' = reported \union {job}
        /\ calls' = calls /\ losses' = losses
    BY <1>6 DEF SyncUnmark, NextJob, Fsync, Synced
  <2>6. TypeOK'
    <3>1. disk' \subseteq AboveRoot \union InRoot \union InReceipts \union Markers
      BY <2>2 DEF TypeOK
    <3>2. job' \in 1..(N + 1) /\ completed' \in Nat /\ reported' \subseteq Jobs
      BY <2>1, <2>2
    <3>3. pc' \in Phases
      BY <2>2
    <3> HIDE DEF AboveRoot, InRoot, InReceipts, Targets, Markers, Phases
    <3> QED BY <2>2, <3>1, <3>2, <3>3
  <2>7. Ways'
    BY <2>2, DistinctNames
  <2>3. Nested'
    BY <2>2 DEF Nested
  <2>4. Progress'
    BY <1>6, <2>1, <2>2 DEF SyncUnmark, Progress
  <2>5. DiskCurrent => DiskCurrent'
    BY <1>6, <2>1, <2>2 DEF SyncUnmark, DiskCurrent, Unsynced
  <2> QED BY <2>3, <2>4, <2>5, <2>6, <2>7
<1> QED BY <1>1, <1>2, <1>3, <1>4, <1>5, <1>6

\* A run that goes on clears no job of its trace and sends only jobs whose
\* earlier calls have all been lost.
LEMMA StepKeepsAccounts ==
    ASSUME Shape, Accounts, Begin \/ Step, UNCHANGED history,
           DiskCurrent => DiskCurrent'
    PROVE  Accounts'
<1>1. UNCHANGED <<kills, stops, uprooted>>
  BY DEF Begin, Step, MakeParents, OpenDirectory, SyncRoot, Reuse, SyncReuse,
         Refuse, Pause,
     PrepareMarker, SyncStarted, Mark, SyncMark, Call, Fail, Record,
     SyncRecord, Unmark, SyncUnmark, Finish, losses
<1>2. Debt' <= Debt /\ Debt \in {0, 1} /\ Debt' \in {0, 1}
  BY DEF Debt
<1>3. calls \in [Jobs -> Nat] /\ kills \in Nat /\ stops \in Nat
      /\ uprooted \in 0..stops
  BY DEF Shape, TypeOK
<1>4. CASE Call
  <2>1. job \in Jobs /\ Spent(job) /\ Started(job) \in live
    BY <1>4 DEF Call, Goto, Shape, Progress, Accounts
  <2>2. calls' = [calls EXCEPT ![job] = @ + 1] /\ live' = live /\ job' = job
        /\ pc' = "record"
    BY <1>4 DEF Call, Goto
  <2>3. Trace(job) # {}
    BY <2>1 DEF Trace
  <2>4. ASSUME NEW j \in Jobs
        PROVE  calls'[j] + Debt' <= kills + uprooted + 1 /\ calls'[j] <= stops + 1
    BY <1>2, <1>3, <2>1, <2>2 DEF Accounts, Spent
  <2>5. ASSUME NEW j \in Jobs, Trace(j)' = {} PROVE Spent(j)'
    BY <1>1, <1>2, <1>3, <2>2, <2>3, <2>5 DEF Accounts, Spent, Trace
  <2> QED BY <1>1, <1>2, <1>3, <2>2, <2>4, <2>5 DEF Accounts
<1>5. CASE ~Call
  <2>1. UNCHANGED calls
    BY <1>5
    DEF Begin, Step, MakeParents, OpenDirectory, SyncRoot, Reuse, SyncReuse,
        Refuse, Pause,
       PrepareMarker, SyncStarted, Mark, SyncMark, Fail, Record, SyncRecord,
       Unmark, SyncUnmark, Finish
  <2>2. ASSUME NEW j \in Jobs, Spent(j) PROVE Spent(j)'
    BY <1>1, <1>2, <1>3, <2>1, <2>2 DEF Spent
  <2>3. ASSUME NEW j \in Jobs, Trace(j) # {} PROVE Trace(j)' # {}
    <3>1. CASE live \subseteq live'
      BY <2>3, <3>1 DEF Trace
    <3>2. CASE Reuse \/ Unmark
      <4>1. Target(job) \in live /\ live \ {Started(job)} \subseteq live'
        BY <3>2 DEF Reuse, Unmark, Visiting, Goto, Remove, Shape, Progress
      <4> QED BY <2>3, <4>1, DistinctNames DEF Trace
    <3> QED
      BY <1>5, <3>1, <3>2
      DEF Begin, Step, MakeParents, OpenDirectory, SyncRoot, SyncReuse, Refuse,
          Pause,
         PrepareMarker, SyncStarted, Mark, SyncMark, Fail, Record, SyncRecord,
         SyncUnmark, Finish, Make, Fsync
  <2>4. ASSUME pc' \in {"sync_started", "mark", "sync_mark", "call"}
        PROVE  Spent(job)'
    <3>1. job' = job
      BY <1>5, <2>4
      DEF Begin, Step, MakeParents, OpenDirectory, SyncRoot, Reuse, SyncReuse,
          Refuse,
         Pause, PrepareMarker, SyncStarted, Mark, SyncMark, Fail, Record,
         SyncRecord, Unmark, SyncUnmark, Finish, Goto, NextJob
    <3>2. job \in Jobs /\ Spent(job)
      <4>1. CASE PrepareMarker
        BY <4>1 DEF PrepareMarker, Pending, Visiting, Trace, Accounts
      <4>2. CASE SyncStarted \/ Mark \/ SyncMark
        BY <4>2 DEF SyncStarted, Mark, SyncMark, Goto, Accounts, Shape, Progress
      <4> QED
        BY <1>5, <2>4, <4>1, <4>2
        DEF Begin, Step, MakeParents, OpenDirectory, SyncRoot, Reuse,
            SyncReuse, Refuse,
           Pause, Fail, Record, SyncRecord, Unmark, SyncUnmark, Finish, Goto,
           NextJob
    <3> QED BY <1>1, <1>2, <1>3, <2>1, <3>1, <3>2 DEF Spent
  <2>5. ASSUME NEW j \in Jobs
        PROVE  calls'[j] + Debt' <= kills + uprooted + 1 /\ calls'[j] <= stops + 1
    BY <1>2, <1>3, <2>1 DEF Accounts
  <2> QED BY <1>1, <1>2, <1>3, <2>1, <2>2, <2>3, <2>4, <2>5 DEF Accounts
<1> QED BY <1>4, <1>5

\* A kill may run up the debt, and is counted.
LEMMA ProcessLossKeeps ==
    ASSUME IInv, ProcessLoss, UNCHANGED history
    PROVE  IInv'
<1>1. /\ kills' = kills + 1 /\ pc' = "down" /\ kills + stops < MaxLosses
      /\ ending # "power"
      /\ UNCHANGED <<live, disk, job, completed, calls, reported, stops, uprooted>>
  BY DEF ProcessLoss
<1>2. calls \in [Jobs -> Nat] /\ kills \in Nat /\ stops \in Nat
      /\ uprooted \in 0..stops
  BY DEF IInv, Shape, TypeOK
<1>3. Debt \in {0, 1} /\ Debt' \in {0, 1}
  BY DEF Debt
<1>4. TypeOK'
  BY <1>1, BoundsAssumption DEF IInv, Shape, TypeOK, Phases
<1>5. Nested' /\ Progress' /\ Ways'
  BY <1>1 DEF IInv, Shape, Nested, Progress, Ways
<1>6. Accounts'
  <2>1. Debt' <= kills'
    BY <1>1, <1>2, <1>3
  <2>2. ASSUME NEW j \in Jobs
        PROVE  calls'[j] + Debt' <= kills' + uprooted' + 1 /\ calls'[j] <= stops' + 1
    BY <1>1, <1>2, <1>3 DEF IInv, Accounts
  <2>3. ASSUME NEW j \in Jobs, Trace(j)' = {} PROVE Spent(j)'
    <3>1. Spent(j)
      BY <1>1, <2>3 DEF IInv, Accounts, Trace
    <3> QED BY <1>1, <1>2, <1>3, <3>1 DEF Spent
  <2> QED BY <1>1, <2>1, <2>2, <2>3 DEF Accounts
<1> QED BY <1>4, <1>5, <1>6 DEF IInv, Shape

\* A machine that stops while the disk is current, and finds the directories
\* above the one for receipts, leaves a trace of every job whose calls are not
\* all lost already.
LEMMA TracesSurvive ==
    ASSUME Shape, Accounts, DiskCurrent, NEW found \in Survivors(live, disk),
           NEW j \in Jobs, ~Spent(j), OuterDir \in found
    PROVE  {Target(j), Started(j)} \intersect Reachable(found) # {}
<1> USE DistinctNames
    DEF Shape, TypeOK, Phases, Jobs, AboveRoot, InRoot, InReceipts, Targets,
        Markers
<1>1. Trace(j) # {}
  BY DEF Accounts
<1>2. live \intersect disk \subseteq found
  BY DEF Survivors
<1>3. ReceiptDir \in live /\ pc # "sync_root"
  BY <1>1 DEF Trace, Nested, Progress
<1>4. ReceiptDir \in disk
  BY <1>3 DEF DiskCurrent, Unsynced
<1>5. CASE Target(j) \in live \intersect disk
  BY <1>2, <1>3, <1>4, <1>5 DEF Reachable
<1>6. CASE Target(j) \in live /\ Target(j) \notin disk
  <2>1. pc = "sync_record" /\ job = j
    BY <1>6 DEF DiskCurrent, Unsynced
  <2>2. {Started(j), StartedDir} \subseteq live
    BY <2>1 DEF Progress
  <2>3. {Started(j), StartedDir} \subseteq disk
    BY <2>1, <2>2 DEF DiskCurrent, Unsynced
  <2> QED BY <1>2, <1>3, <1>4, <2>2, <2>3 DEF Reachable
<1>7. CASE Target(j) \notin live
  <2>1. Started(j) \in live /\ StartedDir \in live
    BY <1>1, <1>7 DEF Trace, Nested
  <2>2. pc # "sync_started"
    BY <2>1 DEF Progress
  <2>3. ~(pc = "sync_mark" /\ job = j)
    BY DEF Accounts
  <2>4. ~(pc \in {"sync_reuse", "sync_unmark"} /\ job = j)
    BY <1>7 DEF Progress
  <2>5. {Started(j), StartedDir} \subseteq disk
    BY <2>1, <2>2, <2>3, <2>4 DEF DiskCurrent, Unsynced
  <2> QED BY <1>2, <1>3, <1>4, <2>1, <2>5 DEF Reachable
<1> QED BY <1>5, <1>6, <1>7

LEMMA PowerLossKeeps ==
    ASSUME IInv, PowerLoss, UNCHANGED history
    PROVE  IInv'
<1>1. PICK found \in Survivors(live, disk) :
          /\ live' = Reachable(found) /\ disk' = Reachable(found)
          /\ uprooted' = IF OuterDir \in live \ found THEN uprooted + 1
                         ELSE uprooted
  BY DEF PowerLoss
<1>2. /\ stops' = stops + 1 /\ pc' = "down" /\ kills + stops < MaxLosses
      /\ ending # "process"
      /\ UNCHANGED <<job, completed, calls, reported, kills>>
  BY DEF PowerLoss
<1>3. calls \in [Jobs -> Nat] /\ kills \in Nat /\ stops \in Nat
      /\ uprooted \in 0..stops
  BY DEF IInv, Shape, TypeOK
<1>4. live' \subseteq Names /\ disk' \subseteq Names
  BY <1>1 DEF IInv, Shape, TypeOK, Survivors, Reachable, Names
<1>11. uprooted' \in {uprooted, uprooted + 1} /\ uprooted' \in 0..stops'
  BY <1>1, <1>2, <1>3
<1>5. TypeOK'
  BY <1>2, <1>4, <1>11, BoundsAssumption DEF IInv, Shape, TypeOK, Phases, Names
<1>6. Nested'
  BY <1>1, DistinctNames
  DEF Nested, Reachable, AboveRoot, InRoot, InReceipts, Targets, Markers
<1>7. Progress' /\ Ways'
  <2>1. ASSUME placed PROVE OuterDir \in Reachable(found) /\ uprooted' = 0
    <3>1. OuterDir \in live \intersect disk /\ uprooted = 0
      BY <2>1 DEF IInv, Shape, Ways
    <3>2. OuterDir \in found
      BY <3>1 DEF Survivors
    <3> QED
      BY <1>1, <3>1, <3>2, DistinctNames
      DEF Reachable, AboveRoot, InRoot, Markers
  <2> QED BY <1>1, <1>2, <2>1 DEF IInv, Shape, Progress, Ways
<1>8. Debt' = 0
  BY <1>1 DEF Debt, DiskCurrent
<1>9. Debt \in {0, 1}
  BY DEF Debt
<1>10. Accounts'
  <2>1. Debt' <= kills'
    BY <1>2, <1>3, <1>8
  <2>2. ASSUME NEW j \in Jobs
        PROVE  calls'[j] + Debt' <= kills' + uprooted' + 1 /\ calls'[j] <= stops' + 1
    BY <1>2, <1>3, <1>8, <1>9, <1>11 DEF IInv, Accounts
  <2>3. ASSUME NEW j \in Jobs, Trace(j)' = {} PROVE Spent(j)'
    <3>1. CASE Spent(j)
      BY <1>2, <1>3, <1>8, <1>9, <1>11, <3>1 DEF Spent
    <3>2. CASE ~DiskCurrent
      <4>1. Debt = 1
        BY <3>2 DEF Debt
      <4>2. calls[j] + Debt <= kills + uprooted + 1 /\ calls[j] <= stops + 1
        BY DEF IInv, Accounts
      <4> QED BY <1>2, <1>3, <1>8, <1>11, <4>1, <4>2 DEF Spent
    <3>3. CASE DiskCurrent /\ ~Spent(j) /\ OuterDir \in found
      BY <1>1, <2>3, <3>3, TracesSurvive DEF IInv, Trace
    <3>4. CASE DiskCurrent /\ ~Spent(j) /\ OuterDir \notin found
      <4>1. Trace(j) # {}
        BY <3>4 DEF IInv, Accounts
      <4>2. OuterDir \in live
        BY <4>1 DEF Trace, IInv, Shape, Nested, InReceipts, Targets, Markers
      <4>3. uprooted' = uprooted + 1
        BY <1>1, <3>4, <4>2
      <4>4. calls[j] + Debt <= kills + uprooted + 1 /\ calls[j] <= stops + 1
        BY DEF IInv, Accounts
      <4> QED BY <1>2, <1>3, <1>8, <1>9, <4>3, <4>4 DEF Spent
    <3> QED BY <3>1, <3>2, <3>3, <3>4
  <2> QED BY <1>2, <2>1, <2>2, <2>3 DEF Accounts
<1> QED BY <1>5, <1>6, <1>7, <1>10 DEF IInv, Shape

-----------------------------------------------------------------------------
LEMMA IInvHolds == Spec => []IInv
<1>1. IInv /\ [Next]_<<vars, history>> => IInv'
  <2> SUFFICES ASSUME IInv, [Next]_<<vars, history>> PROVE IInv'
    OBVIOUS
  <2>1. CASE UNCHANGED <<vars, history>>
    BY <2>1
    DEF vars, losses, IInv, Shape, TypeOK, Nested, Progress, Ways,
        DiskCurrent, Debt, Unsynced, Accounts, Spent, Trace
  <2>2. CASE (Begin \/ Step) /\ UNCHANGED history
    <3>1. Shape' /\ (DiskCurrent => DiskCurrent')
      BY <2>2, OpeningKeeps, ReusingKeeps, MarkingKeeps, CallingKeeps
      DEF IInv, Step
    <3> QED BY <2>2, <3>1, StepKeepsAccounts DEF IInv
  <2> QED
    BY <2>1, <2>2, ProcessLossKeeps, PowerLossKeeps DEF Next
<1> QED BY <1>1, InitIInv, PTL DEF Spec

\* The run directories keep their shape, whatever ends the runs.
THEOREM TypeCorrect == Spec => []TypeOK
<1>1. IInv => TypeOK
  BY DEF IInv, Shape
<1> QED BY <1>1, IInvHolds, PTL

\* However often runs are killed and machines stop, in whatever order, each
\* repeat of a job took a stop, and one that lost the parents of the receipt
\* directory or a kill as well (matched_run.py:67-71, 914-981).
THEOREM RepeatsTakeStops == Spec => []SendsAreBounded
<1>1. IInv => SendsAreBounded
  <2> SUFFICES ASSUME IInv, NEW j \in Jobs
               PROVE  /\ calls[j] <= stops + 1
                      /\ calls[j] <= kills + uprooted + 1
    BY DEF SendsAreBounded
  <2>1. Debt \in {0, 1} /\ calls[j] \in Nat /\ kills \in Nat /\ uprooted \in Nat
    BY DEF Debt, IInv, Shape, TypeOK
  <2>2. calls[j] + Debt <= kills + uprooted + 1 /\ calls[j] <= stops + 1
    BY DEF IInv, Accounts
  <2> QED BY <2>1, <2>2
<1> QED BY <1>1, IInvHolds, PTL

\* What follows where runs end in one way.
LEMMA OneWayFacts ==
    ASSUME IInv, OneWay
    PROVE  /\ \A j \in Jobs : calls[j] <= 1
           /\ \A j \in Jobs : calls[j] > 0 => Trace(j) # {}
           /\ pc \in {"sync_started", "mark", "sync_mark", "call"} =>
                  calls[job] = 0
           /\ ending = "power" => DiskCurrent
<1>1. kills + uprooted = 0 \/ stops = 0
  BY DEF IInv, Shape, Ways, TypeOK, OneWay
<1>2. calls \in [Jobs -> Nat] /\ kills \in Nat /\ stops \in Nat
      /\ uprooted \in 0..stops
  BY DEF IInv, Shape, TypeOK
<1>3. Debt \in {0, 1}
  BY DEF Debt
<1>4. ASSUME NEW j \in Jobs PROVE calls[j] <= 1
  <2>1. calls[j] + Debt <= kills + uprooted + 1 /\ calls[j] <= stops + 1
    BY DEF IInv, Accounts
  <2> QED BY <1>1, <1>2, <1>3, <2>1
<1>5. ASSUME NEW j \in Jobs, Spent(j) PROVE calls[j] = 0
  BY <1>1, <1>2, <1>3, <1>5 DEF Spent
<1>6. ASSUME NEW j \in Jobs, calls[j] > 0 PROVE Trace(j) # {}
  BY <1>2, <1>5, <1>6 DEF IInv, Accounts
<1>7. ASSUME pc \in {"sync_started", "mark", "sync_mark", "call"}
      PROVE  calls[job] = 0
  BY <1>5, <1>7 DEF IInv, Accounts, Shape, Progress
<1>8. ASSUME ending = "power" PROVE DiskCurrent
  <2>1. kills = 0 /\ Debt <= kills
    BY <1>8 DEF IInv, Shape, Ways, Accounts
  <2> QED BY <1>3, <2>1 DEF Debt
<1> QED BY <1>4, <1>6, <1>7, <1>8

\* Where runs end in one way (and machines that stop have the parent of the
\* receipt directory on disk), no job is ever sent to the provider twice, over
\* any number of runs, ended at any point (matched_run.py:914-981).
THEOREM NeverTwice == Spec => []AtMostOnce
<1>1. IInv => AtMostOnce
  BY OneWayFacts DEF AtMostOnce
<1> QED BY <1>1, IInvHolds, PTL

\* What then stops a second call: a job that was sent has left its receipt or
\* its marker where the next run looks.
THEOREM TraceLeft == Spec => []CalledLeavesTrace
<1>1. IInv => CalledLeavesTrace
  BY OneWayFacts DEF CalledLeavesTrace
<1> QED BY <1>1, IInvHolds, PTL

-----------------------------------------------------------------------------
(* What was paid for stays, where runs end in one way *)

\* An answer on file, or on its way there, is that of a job that was sent; a
\* job that was reported keeps its receipt.
Answered ==
    /\ \A j \in Jobs : Target(j) \in live \union disk => calls[j] = 1
    /\ pc = "record" => calls[job] = 1
    /\ \A j \in reported : Target(j) \in Lasting

LEMMA InitAnswered == Init => Answered
BY DistinctNames DEF Init, Answered, Jobs, AboveRoot

LEMMA StepKeepsAnswered ==
    ASSUME IInv, OneWay, Answered, Step, UNCHANGED history
    PROVE  Answered'
<1>0. ending = "power" => DiskCurrent
  BY OneWayFacts
<1> USE <1>0, DistinctNames, BoundsAssumption
    DEF IInv, Shape, TypeOK, Jobs, AboveRoot, InRoot, InReceipts, Targets,
        Markers, Goto
<1>1. CASE MakeParents \/ OpenDirectory \/ SyncRoot \/ SyncReuse \/ PrepareMarker
           \/ SyncStarted \/ Mark \/ SyncMark \/ Unmark
  BY <1>1
  DEF MakeParents, OpenDirectory, SyncRoot, SyncReuse, PrepareMarker,
      SyncStarted, Mark,
      SyncMark, Unmark, NextJob, Make, Remove, Fsync, Synced, Answered, Lasting
<1>2. CASE Reuse
  <2>1. Target(job) \in Lasting
    BY <1>2 DEF Reuse, Visiting, Lasting, DiskCurrent, Unsynced
  <2> QED
    BY <1>2, <2>1 DEF Reuse, Visiting, NextJob, Remove, Answered, Lasting
<1>3. CASE Refuse \/ Pause \/ Finish \/ Fail
  BY <1>3 DEF Refuse, Pause, Finish, Fail, Answered, Lasting
<1>4. CASE Call
  <2>1. calls[job] = 0 /\ job \in Jobs
    BY <1>4, OneWayFacts DEF Call, Progress
  <2> QED BY <1>4, <2>1 DEF Call, Answered, Lasting
<1>5. CASE Record
  BY <1>5 DEF Record, Make, Answered, Lasting, Progress
<1>6. CASE SyncRecord
  BY <1>6 DEF SyncRecord, Fsync, Synced, Answered, Lasting
<1>7. CASE SyncUnmark
  <2>1. Target(job) \in live /\ job \in Jobs
    BY <1>7 DEF SyncUnmark, Progress
  <2>2. ending = "power" => Target(job) \in disk
    BY <1>7, <2>1 DEF SyncUnmark, DiskCurrent, Unsynced
  <2> QED
    BY <1>7, <2>1, <2>2
    DEF SyncUnmark, NextJob, Fsync, Synced, Answered, Lasting
<1> QED
  BY <1>1, <1>2, <1>3, <1>4, <1>5, <1>6, <1>7 DEF Step

\* A machine that stops keeps what is in Lasting, with its directory.
LEMMA LastingIsFound ==
    ASSUME IInv, OneWay, ending = "power", NEW found \in Survivors(live, disk),
           NEW j \in Jobs, Target(j) \in Lasting
    PROVE  {OuterDir, ReceiptDir, Target(j)} \subseteq Reachable(found)
<1>0. DiskCurrent
  BY OneWayFacts
<1> USE <1>0, DistinctNames
    DEF IInv, Shape, TypeOK, AboveRoot, InRoot, InReceipts, Targets, Markers
<1>1. Target(j) \in live \intersect disk
  BY DEF Lasting
<1>2. ReceiptDir \in live
  BY <1>1 DEF Nested
<1>3. pc # "sync_root"
  BY <1>1 DEF Progress
<1>4. ReceiptDir \in disk
  BY <1>2, <1>3 DEF DiskCurrent, Unsynced
<1>5. OuterDir \in live \intersect disk
  BY DEF OneWay, Ways
<1> QED BY <1>1, <1>2, <1>4, <1>5 DEF Survivors, Reachable

LEMMA LossKeepsAnswered ==
    ASSUME IInv, OneWay, Answered, ProcessLoss \/ PowerLoss, UNCHANGED history
    PROVE  Answered'
<1>1. CASE ProcessLoss
  BY <1>1 DEF ProcessLoss, Answered, Lasting
<1>2. CASE PowerLoss
  <2>1. ending = "power" /\ pc' = "down" /\ UNCHANGED <<calls, reported>>
    BY <1>2 DEF PowerLoss, OneWay, IInv, Shape, TypeOK
  <2>2. PICK found \in Survivors(live, disk) :
            live' = Reachable(found) /\ disk' = Reachable(found)
    BY <1>2 DEF PowerLoss
  <2>3. live' \union disk' \subseteq live \union disk
    BY <2>2 DEF Survivors, Reachable
  <2>4. ASSUME NEW j \in reported PROVE Target(j) \in Lasting'
    <3>1. j \in Jobs /\ Target(j) \in Lasting
      BY DEF IInv, Shape, TypeOK, Answered
    <3>2. Target(j) \in Reachable(found)
      BY <2>1, <3>1, LastingIsFound
    <3> QED BY <2>2, <3>2 DEF Lasting
  <2> QED BY <2>1, <2>3, <2>4 DEF Answered
<1> QED BY <1>1, <1>2

LEMMA AnsweredHolds == Spec => [](OneWay => Answered)
<1>1. IInv /\ (OneWay => Answered) /\ [Next]_<<vars, history>>
      => (OneWay => Answered)'
  <2> SUFFICES ASSUME IInv, OneWay => Answered, [Next]_<<vars, history>>, OneWay'
               PROVE  Answered'
    OBVIOUS
  <2>1. UNCHANGED history /\ OneWay /\ Answered
    BY DEF Next, OneWay
  <2>2. CASE UNCHANGED <<vars, history>>
    BY <2>1, <2>2 DEF vars, Answered, Lasting
  <2>3. CASE Begin
    BY <2>1, <2>3 DEF Begin, Answered, Lasting
  <2> QED
    BY <2>1, <2>2, <2>3, StepKeepsAnswered, LossKeepsAnswered DEF Next
<1>2. Init => (OneWay => Answered)
  BY InitAnswered
<1> QED BY <1>1, <1>2, IInvHolds, PTL DEF Spec

\* In such a history, a job that a run counted as executed or reused was sent
\* once and has its receipt where nothing that can still happen takes it away.
THEOREM ReportsAreDurable == Spec => []ReportedIsDurable
<1>1. IInv /\ (OneWay => Answered) => ReportedIsDurable
  BY DEF IInv, Shape, TypeOK, Answered, ReportedIsDurable, Lasting
<1> QED BY <1>1, IInvHolds, AnsweredHolds, PTL

-----------------------------------------------------------------------------
(* What the report offers for attestation *)

\* Every receipt is there for good, and no run finds a job to send.
Held ==
    /\ OneWay /\ \A j \in Jobs : Target(j) \in Lasting
    /\ pc \in {"down", "open", "sync_root", "visit", "sync_reuse"}

LEMMA HeldStays ==
    ASSUME IInv, Held, [Next]_<<vars, history>>
    PROVE  Held'
<1>0. OneWay /\ (ending = "power" => DiskCurrent)
  BY OneWayFacts DEF Held
<1>1. \A j \in Jobs : Target(j) \in live
  BY DEF Held, Lasting
<1> USE DistinctNames, BoundsAssumption
    DEF Jobs, AboveRoot, InRoot, InReceipts, Targets, Markers, Goto
<1>2. CASE UNCHANGED <<vars, history>>
  BY <1>2 DEF vars, Held, OneWay, Lasting
<1>3. CASE Begin /\ UNCHANGED history
  BY <1>3 DEF Begin, Held, OneWay, Lasting
<1>4. CASE Step /\ UNCHANGED history
  <2>1. ~(PrepareMarker \/ SyncStarted \/ Mark \/ SyncMark \/ Call \/ Record
          \/ SyncRecord \/ Unmark \/ SyncUnmark \/ Fail)
    BY <1>1 DEF Held, PrepareMarker, Pending, Visiting, SyncStarted, Mark,
                SyncMark,
        Call, Record, SyncRecord, Unmark, SyncUnmark, Fail
  <2>2. CASE MakeParents \/ OpenDirectory \/ SyncRoot
    BY <1>4, <2>2 DEF MakeParents, OpenDirectory, SyncRoot, Make, Fsync,
                      Synced, Held, OneWay, Lasting
  <2>3. CASE Reuse \/ SyncReuse
    BY <1>4, <2>3 DEF Reuse, SyncReuse, Visiting, NextJob, Remove, Fsync,
                      Synced, Held,
        OneWay, Lasting
  <2>4. CASE Refuse \/ Pause \/ Finish
    BY <1>4, <2>4 DEF Refuse, Pause, Finish, Held, OneWay, Lasting
  <2> QED BY <1>4, <2>1, <2>2, <2>3, <2>4 DEF Step
<1>5. CASE ProcessLoss /\ UNCHANGED history
  BY <1>5 DEF ProcessLoss, Held, OneWay, Lasting
<1>6. CASE PowerLoss /\ UNCHANGED history
  <2>1. ending = "power" /\ pc' = "down"
    BY <1>0, <1>6 DEF PowerLoss, OneWay, IInv, Shape, TypeOK
  <2>2. PICK found \in Survivors(live, disk) :
            live' = Reachable(found) /\ disk' = Reachable(found)
    BY <1>6 DEF PowerLoss
  <2>3. \A j \in Jobs : Target(j) \in Reachable(found)
    BY <2>1, LastingIsFound DEF Held
  <2> QED BY <1>6, <2>1, <2>2, <2>3 DEF Held, OneWay, Lasting
<1> QED BY <1>2, <1>3, <1>4, <1>5, <1>6 DEF Next

\* Once the report written after a run offers the receipts for attestation, no
\* later run, kill or stop of such a history takes the offer back, and each job
\* was paid for once (matched_run.py:919-981 and build_readiness_report).
THEOREM AttestationsStand == Spec => AttestationStands
<1>1. IInv /\ OneWay /\ pc = "down" /\ Attestable => Held
  <2> SUFFICES ASSUME IInv, OneWay, pc = "down", Attestable PROVE Held
    OBVIOUS
  <2>1. \A j \in Jobs : Target(j) \in live
    BY DEF Attestable, Readiness
  <2>2. ending = "power" => live \subseteq disk
    BY OneWayFacts
    DEF OneWay, IInv, Shape, Ways, DiskCurrent, Unsynced, AboveRoot
  <2> QED BY <2>1, <2>2 DEF Held, Lasting
<1>2. IInv /\ (OneWay => Answered) /\ Held
      => Attestable /\ \A j \in Jobs : calls[j] = 1
  <2> SUFFICES ASSUME OneWay => Answered, Held
               PROVE  Attestable /\ \A j \in Jobs : calls[j] = 1
    OBVIOUS
  <2>1. \A j \in Jobs : Target(j) \in live
    BY DEF Held, Lasting
  <2>2. Attestable
    BY <2>1 DEF Attestable, Readiness, Indeterminate
  <2> QED BY <2>1, <2>2 DEF Answered, Held
<1>3. IInv /\ Held /\ [Next]_<<vars, history>> => Held'
  BY HeldStays
<1> QED BY <1>1, <1>2, <1>3, IInvHolds, AnsweredHolds, PTL DEF Spec,
    AttestationStands

-----------------------------------------------------------------------------
(* The call ledger *)

\* Only the run that has just recorded an answer changes what is kept.
LEMMA StepKeepsOrAdds ==
    ASSUME IInv, OneWay, Answered, Step, UNCHANGED history, ~Call
    PROVE  /\ UNCHANGED calls
           /\ \/ Kept' = Kept
              \/ Kept' = Kept \union {job} /\ calls[job] = 1 /\ job \in Jobs
<1>0. ending = "power" => DiskCurrent
  BY OneWayFacts
<1> USE <1>0, DistinctNames, BoundsAssumption
    DEF IInv, Shape, TypeOK, Jobs, AboveRoot, InRoot, InReceipts, Targets,
        Markers, Goto
<1>1. CASE MakeParents \/ OpenDirectory
  BY <1>1 DEF MakeParents, OpenDirectory, Make, Nested, Kept, OneWay, Lasting,
              DiskCurrent,
      Unsynced
<1>2. CASE SyncRoot
  BY <1>2 DEF SyncRoot, Fsync, Synced, Progress, Kept, OneWay, Lasting
<1>3. CASE Reuse \/ SyncReuse \/ PrepareMarker \/ Mark \/ SyncMark \/ Unmark
           \/ SyncUnmark
  BY <1>3
  DEF Reuse, SyncReuse, PrepareMarker, Mark, SyncMark, Unmark, SyncUnmark,
      NextJob, Make, Remove, Fsync, Synced, Kept, OneWay, Lasting
<1>4. CASE Refuse \/ Pause \/ Finish \/ Fail
  BY <1>4 DEF Refuse, Pause, Finish, Fail, Kept, OneWay, Lasting
<1>5. CASE SyncStarted
  BY <1>5
  DEF SyncStarted, Fsync, Synced, Kept, OneWay, Lasting, DiskCurrent, Unsynced
<1>6. CASE Record
  BY <1>6 DEF Record, Make, Progress, Answered, Kept, OneWay, Lasting,
      DiskCurrent, Unsynced
<1>7. CASE SyncRecord
  BY <1>7
  DEF SyncRecord, Fsync, Synced, Progress, Answered, Kept, OneWay, Lasting,
      DiskCurrent, Unsynced
<1> QED
  BY <1>1, <1>2, <1>3, <1>4, <1>5, <1>6, <1>7 DEF Step

LEMMA LossKeepsOrAdds ==
    ASSUME IInv, OneWay, Answered, ProcessLoss \/ PowerLoss, UNCHANGED history
    PROVE  /\ UNCHANGED calls
           /\ \/ Kept' = Kept
              \/ Kept' = Kept \union {job} /\ calls[job] = 1 /\ job \in Jobs
<1>1. CASE ProcessLoss
  BY <1>1 DEF ProcessLoss, Kept, OneWay, Lasting
<1>2. CASE PowerLoss
  <2>1. ending = "power" /\ UNCHANGED <<calls, ending>>
    BY <1>2 DEF PowerLoss, OneWay, IInv, Shape, TypeOK
  <2>2. PICK found \in Survivors(live, disk) :
            live' = Reachable(found) /\ disk' = Reachable(found)
    BY <1>2 DEF PowerLoss
  <2>3. Kept \subseteq Kept'
    BY <2>1, <2>2, LastingIsFound DEF Kept, OneWay, Lasting
  <2>4. ASSUME NEW j \in Kept', j \notin Kept
        PROVE  j = job /\ calls[job] = 1 /\ job \in Jobs
    <3>0. DiskCurrent
      BY <2>1, OneWayFacts
    <3> USE <3>0, DistinctNames
        DEF IInv, Shape, TypeOK, AboveRoot, InRoot, InReceipts, Targets, Markers
    <3>1. j \in Jobs /\ {OuterDir, ReceiptDir, Target(j)} \subseteq found
      BY <2>1, <2>2 DEF Kept, OneWay, Lasting, Reachable
    <3>2. Target(j) \in live \union disk
      BY <2>2, <3>1 DEF Survivors
    <3>3. ReceiptDir \in live
      <4>1. Target(j) \in live
        BY <2>1, <3>1, <3>2 DEF Progress, DiskCurrent, Unsynced
      <4> QED BY <3>1, <4>1 DEF Nested
    <3>6. OuterDir \in live \intersect disk
      BY <2>1 DEF OneWay, Ways
    <3>4. Target(j) \notin Lasting
      <4>1. SUFFICES ASSUME Target(j) \in live \intersect disk
                     PROVE  ReceiptDir \in disk
        BY <2>1, <2>4, <3>1, <3>3, <3>6 DEF Kept, OneWay, Lasting
      <4> QED
        BY <2>1, <3>3, <4>1 DEF DiskCurrent, Unsynced, Progress
    <3>5. pc = "sync_record" /\ j = job
      BY <2>1, <3>1, <3>2, <3>4 DEF Lasting, DiskCurrent, Unsynced
    <3> QED BY <3>1, <3>2, <3>5 DEF Answered
  <2> QED BY <2>1, <2>3, <2>4
<1> QED BY <1>1, <1>2

\* Wherever runs are killed, or machines stop that have the parent of the
\* receipt directory on disk, the directory behaves as the ledger says: a call
\* is made at most once, only its answer is kept, and what is kept stays.
THEOREM JobsImplementLedger == Spec => ImplementsLedger
<1>1. Init => Ledger!LInit
  BY DistinctNames DEF Init, Ledger!LInit, Made, Kept, Lasting, Jobs, AboveRoot
<1>2. IInv /\ (OneWay => Answered) /\ [Next]_<<vars, history>>
      => [Ledger!LNext]_(Ledger!lvars)
  <2> SUFFICES ASSUME IInv, OneWay => Answered, [Next]_<<vars, history>>
               PROVE  [Ledger!LNext]_(Ledger!lvars)
    OBVIOUS
  <2> USE DEF Ledger!LNext, Ledger!lvars, Ledger!Make, Ledger!Keep
  <2>1. UNCHANGED history /\ OneWay' = OneWay
    BY DEF Next, OneWay
  <2>2. CASE ~OneWay
    <3>1. UNCHANGED <<Made, Kept>>
      BY <2>1, <2>2 DEF Made, Kept
    <3> QED BY <3>1
  <2>3. CASE OneWay /\ (UNCHANGED <<vars, history>> \/ Begin)
    <3>1. UNCHANGED calls /\ Kept' = Kept
      BY <2>1, <2>3 DEF vars, Begin, Kept, Lasting
    <3> QED BY <2>1, <3>1 DEF Made
  <2>4. CASE OneWay /\ Call
    <3>1. job \in Jobs /\ calls[job] = 0 /\ calls \in [Jobs -> Nat]
      BY <2>4, OneWayFacts DEF Call, Goto, IInv, Shape, Progress, TypeOK
    <3>2. calls' = [calls EXCEPT ![job] = 1] /\ Kept' = Kept
      BY <2>1, <2>4, <3>1 DEF Call, Kept, Lasting
    <3>3. Made = calls /\ Made' = calls'
      BY <2>1, <2>4 DEF Made
    <3> QED BY <3>1, <3>2, <3>3
  <2>5. CASE OneWay /\ ((Step /\ ~Call) \/ ProcessLoss \/ PowerLoss)
    <3>1. /\ UNCHANGED calls
          /\ \/ Kept' = Kept
             \/ Kept' = Kept \union {job} /\ calls[job] = 1 /\ job \in Jobs
      BY <2>1, <2>5, StepKeepsOrAdds, LossKeepsOrAdds
    <3>2. Made = calls /\ Made' = Made
      BY <2>1, <2>5, <3>1 DEF Made
    <3>3. CASE job \in Kept \/ Kept' = Kept
      <4>1. Kept' = Kept
        BY <3>1, <3>3
      <4> QED BY <3>2, <4>1
    <3>4. CASE job \notin Kept /\ Kept' = Kept \union {job}
      BY <3>1, <3>2, <3>4
    <3> QED BY <3>1, <3>3, <3>4
  <2> QED BY <2>1, <2>2, <2>3, <2>4, <2>5 DEF Next
<1> QED
  BY <1>1, <1>2, IInvHolds, AnsweredHolds, PTL
  DEF Spec, ImplementsLedger, Ledger!LSpec
=============================================================================
