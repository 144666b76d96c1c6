--------------------------- MODULE CitationRunProofs ---------------------------
(***************************************************************************)
(* CitationRun for any number of tasks, workers, configurations and losses, *)
(* whether they end the process or stop the machine; and what its records  *)
(* come to, for any task set, any selections and any minimum.              *)
(***************************************************************************)
EXTENDS CitationRun, FiniteSetTheorems, WellFoundedInduction, TLAPS

\* What the state of a task in this run says of its files and its calls.
TaskFiles ==
    \A s \in Tasks :
        /\ task[s] \in {"queued", "marking", "waiting", "calling", "recording"}
               => Record(s) \notin live
        /\ task[s] \in {"queued", "marking", "waiting"} => calls[s] <= Forgiven
        /\ task[s] \in {"waiting", "calling", "recording"} => Started(s) \in live
        /\ task[s] \in {"unmarking", "done"} => Record(s) \in live

\* Without a stop of the machine a record says that its task was sent once.
SentOnce ==
    ending = "process" =>
        \A s \in Tasks :
            task[s] \in {"calling", "recording"} \/ Record(s) \in live
                => calls[s] = 1

ConfigStays == Config \in disk => Config \in live

\* What the main thread is doing says where tasks can be.
MainThread ==
    /\ phase = "down" => task = Idle
    /\ phase \in {"down", "scan"} => InFlight = {}
    /\ phase = "seal" => \A s \in Tasks : task[s] = "done"
    /\ phase # "down" => using = config /\ using # {}
    /\ phase = "down" => using = {}

Core ==
    /\ TaskFiles /\ SentOnce /\ CalledLeavesTrace /\ RepeatsAreBounded
    /\ OneConfiguration /\ SealedIsWhole

IInv == TypeOK /\ ConfigStays /\ MainThread /\ Core

LEMMA DistinctNames ==
    /\ \A s, t : Record(s) = Record(t) => s = t
    /\ \A s, t : Started(s) = Started(t) => s = t
    /\ \A s, t : Record(s) # Started(t)
    /\ \A s : {Record(s), Started(s)} \intersect (Seals \union {Config}) = {}
    /\ Seals = {Receipt, Manifest} /\ Receipt # Manifest
    /\ Receipt # Config /\ Manifest # Config
BY DEF Record, Started, Receipt, Manifest, Config, Seals

LEMMA InitIInv == Init => IInv
BY DistinctNames, BoundsAssumption
DEF Init, IInv, Core, TypeOK, ConfigStays, TaskFiles, SentOnce, MainThread,
    CalledLeavesTrace, RepeatsAreBounded, Forgiven, OneConfiguration,
    SealedIsWhole, Idle, InFlight, Tasks, TaskStates, Records

\* Steps that leave records, calls and configuration alone, and of the files at
\* most the configuration, keep the core if they only let go of tasks.
LEMMA Frame ==
    ASSUME TypeOK, Core,
           UNCHANGED <<records, sealed, calls, sentUnder, ending, losses>>,
           config \subseteq config',
           live' = live \/ live' = live \union {Config},
           \A s \in Tasks : \/ task'[s] = task[s]
                            \/ task'[s] \in {"idle", "cancelled", "failed"}
                            \/ task'[s] = "queued" /\ task[s] = "idle"
                               /\ {Record(s), Started(s)} \intersect live = {}
                            \/ task'[s] = "marking" /\ task[s] = "queued"
                            \/ task'[s] = "recording" /\ task[s] = "calling"
    PROVE  Core'
<1>1. /\ Forgiven' = Forgiven
      /\ \A s \in Tasks : /\ Record(s) \in live' <=> Record(s) \in live
                          /\ Started(s) \in live' <=> Started(s) \in live
      /\ Seals \intersect live' = Seals \intersect live
  BY DistinctNames DEF Forgiven
<1>2. TaskFiles'
  BY <1>1 DEF Core, TaskFiles, CalledLeavesTrace, TypeOK, Forgiven
<1>3. SentOnce'
  BY <1>1 DEF Core, SentOnce
<1>4. CalledLeavesTrace' /\ RepeatsAreBounded'
  BY <1>1 DEF Core, CalledLeavesTrace, RepeatsAreBounded
<1>5. OneConfiguration'
  BY DEF Core, OneConfiguration
<1>6. SealedIsWhole'
  <2>1. SUFFICES ASSUME ending = "process", Seals \intersect live # {}, NEW s \in Tasks
                 PROVE  task'[s] \notin {"calling", "recording", "unmarking"}
    BY <1>1 DEF Core, SealedIsWhole
  <2> QED BY <2>1 DEF Core, SealedIsWhole
<1> QED BY <1>2, <1>3, <1>4, <1>5, <1>6 DEF Core

\* The main thread: starting, scanning, cancelling and sealing.
LEMMA MainKeeps ==
    ASSUME IInv, Main
    PROVE  IInv'
<1> USE DistinctNames, BoundsAssumption
    DEF IInv, TypeOK, TaskStates, Tasks, Names, Idle, InFlight, MainThread,
        ConfigStays, history, contents, sent
<1>1. CASE Begin
  <2>1. PICK c \in Configs :
          /\ using' = {c}
          /\ IF Config \in live
             THEN config = {c} /\ UNCHANGED <<live, disk, config>>
             ELSE Enter(Config) /\ config' = {c}
    BY <1>1 DEF Begin
  <2>2. /\ phase = "down" /\ phase' = "scan" /\ task = Idle
        /\ UNCHANGED <<disk, scanned, task, records, sealed, kept, calls, sentUnder,
                       ending, losses>>
        /\ live' = live \union {Config} /\ config' = {c}
        /\ config \subseteq config'
    BY <1>1, <2>1 DEF Begin, Enter
  <2>3. TypeOK' /\ MainThread' /\ ConfigStays'
    BY <2>1, <2>2
  <2>4. Core'
    BY <2>2, Frame
  <2> QED BY <2>3, <2>4
<1>2. CASE ScanRecorded
  <2> DEFINE h == scanned + 1
  <2>1. /\ h \in Tasks /\ Record(h) \in live
        /\ phase = "scan"
        /\ live' = live \ {Started(h)} /\ scanned' = scanned + 1
        /\ task' = [task EXCEPT ![h] = "done"]
        /\ UNCHANGED <<disk, config, phase, using, records, sealed, kept, calls,
                       sentUnder, ending, losses>>
    BY <1>2 DEF ScanRecorded, Scanning, Here, Scanned, Unlink, Become
  <2>2. /\ task'[h] = "done" /\ \A s \in Tasks : s # h => task'[s] = task[s]
        /\ task' \in [Tasks -> TaskStates]
    BY <2>1
  <2>3. /\ \A s \in Tasks : /\ Record(s) \in live' <=> Record(s) \in live
                            /\ s # h => (Started(s) \in live' <=> Started(s) \in live)
        /\ Seals \intersect live' = Seals \intersect live
        /\ Config \in live' <=> Config \in live
        /\ Forgiven' = Forgiven
    BY <2>1 DEF Forgiven
  <2>4. TypeOK'
    <3>1. live' \subseteq Names /\ scanned' \in 0..N
      BY <2>1
    <3> QED BY <2>1, <2>2, <2>3, <3>1
  <2>5. MainThread' /\ ConfigStays'
    BY <2>1, <2>2, <2>3
  <2>6. TaskFiles' /\ SentOnce'
    BY <2>1, <2>2, <2>3 DEF Core, TaskFiles, SentOnce
  <2>7. CalledLeavesTrace' /\ RepeatsAreBounded' /\ OneConfiguration'
    BY <2>1, <2>3 DEF Core, CalledLeavesTrace, RepeatsAreBounded, OneConfiguration
  <2>8. SealedIsWhole'
    BY <2>1, <2>2, <2>3 DEF Core, SealedIsWhole
  <2> QED BY <2>4, <2>5, <2>6, <2>7, <2>8 DEF Core
<1>3. CASE ScanRejected \/ ScanRefused \/ Abort
  <2>1. /\ phase' = "down" /\ using' = {} /\ scanned' = 0 /\ task' = Idle
        /\ UNCHANGED <<live, disk, config, records, sealed, kept, calls, sentUnder,
                       ending, losses>>
    BY <1>3 DEF ScanRejected, ScanRefused, Abort, Stop
  <2>2. Core'
    BY <2>1, Frame
  <2>3. Idle \in [Tasks -> TaskStates] /\ \A t \in Tasks : Idle[t] = "idle"
    OBVIOUS
  <2>4. TypeOK'
    <3>1. task' \in [Tasks -> TaskStates] /\ scanned' \in 0..N
      BY <2>1, <2>3
    <3> QED BY <2>1, <3>1
  <2>5. ConfigStays' /\ MainThread'
    BY <2>1, <2>3
  <2> QED BY <2>2, <2>4, <2>5
<1>4. CASE ScanPending
  <2> DEFINE h == scanned + 1
  <2>1. /\ h \in Tasks /\ {Record(h), Started(h)} \intersect live = {}
        /\ phase = "scan" /\ scanned' = scanned + 1
        /\ task' = [task EXCEPT ![h] = "queued"]
        /\ UNCHANGED <<live, disk, config, phase, using, records, sealed, kept, calls,
                       sentUnder, ending, losses>>
    BY <1>4 DEF ScanPending, Scanning, Here, Scanned, Become
  <2>2. /\ task'[h] = "queued" /\ \A s \in Tasks : s # h => task'[s] = task[s]
        /\ task' \in [Tasks -> TaskStates] /\ scanned' \in 0..N
    BY <2>1
  <2>3. TypeOK' /\ MainThread' /\ ConfigStays'
    BY <2>1, <2>2
  <2>4. TaskFiles' /\ SentOnce'
    BY <2>1, <2>2 DEF Core, TaskFiles, SentOnce, CalledLeavesTrace, Forgiven
  <2>5. /\ CalledLeavesTrace' /\ RepeatsAreBounded' /\ OneConfiguration'
        /\ SealedIsWhole'
    BY <2>1, <2>2
    DEF Core, CalledLeavesTrace, RepeatsAreBounded, OneConfiguration, SealedIsWhole,
        Forgiven
  <2> QED BY <2>3, <2>4, <2>5 DEF Core
<1>5. CASE Submit
  <2>1. /\ phase' = "pool" /\ phase = "scan"
        /\ UNCHANGED <<live, disk, config, using, scanned, task, records, sealed, kept,
                       calls, sentUnder, ending, losses>>
    BY <1>5 DEF Submit
  <2>2. Core'
    BY <2>1, Frame
  <2> QED BY <2>1, <2>2
<1>6. CASE Cancel
  <2>1. /\ phase' = "cancelled" /\ phase = "pool"
        /\ task' = [s \in Tasks |-> IF task[s] = "queued" THEN "cancelled"
                                    ELSE task[s]]
        /\ UNCHANGED <<live, disk, config, using, scanned, records, sealed, kept, calls,
                       sentUnder, ending, losses>>
    BY <1>6 DEF Cancel
  <2>2. Core'
    BY <2>1, Frame
  <2> QED BY <2>1, <2>2
<1>7. CASE WriteReceipt \/ WriteManifest
  <2>1. PICK n \in Seals :
          /\ live' = live \union {n} /\ sealed' = [sealed EXCEPT ![n] = {records}]
          /\ UNCHANGED <<disk, config, records, kept, calls, sentUnder, ending, losses>>
    BY <1>7 DEF WriteReceipt, WriteManifest, Enter
  <2>2. /\ \A s \in Tasks : task[s] = "done"
        /\ \/ phase' = "seal" /\ phase = "pool" /\ UNCHANGED <<using, scanned, task>>
           \/ phase' = "down" /\ using' = {} /\ scanned' = 0 /\ task' = Idle
    BY <1>7 DEF WriteReceipt, WriteManifest, AllDone, InState, Stop
  <2>3. sealed'[n] = {records} /\ \A m \in Seals : m # n => sealed'[m] = sealed[m]
    BY <2>1
  <2>4. /\ \A s \in Tasks : /\ Record(s) \in live' <=> Record(s) \in live
                            /\ Started(s) \in live' <=> Started(s) \in live
        /\ Config \in live' <=> Config \in live
        /\ Forgiven' = Forgiven
    BY <2>1 DEF Forgiven
  <2>5. TypeOK'
    <3>1. live' \subseteq Names /\ sealed' \in [Seals -> SUBSET Records]
      BY <2>1
    <3>2. task' \in [Tasks -> TaskStates] /\ scanned' \in 0..N
      BY <2>2
    <3> QED BY <2>1, <2>2, <2>4, <3>1, <3>2
  <2>6. MainThread' /\ ConfigStays'
    BY <2>1, <2>2, <2>4
  <2>7. TaskFiles' /\ SentOnce'
    BY <2>1, <2>2, <2>4 DEF Core, TaskFiles, SentOnce
  <2>8. CalledLeavesTrace' /\ RepeatsAreBounded' /\ OneConfiguration'
    BY <2>1, <2>4 DEF Core, CalledLeavesTrace, RepeatsAreBounded, OneConfiguration
  <2>9. SealedIsWhole'
    <3>1. \A s \in Tasks : Record(s) \in live
      BY <2>2 DEF Core, TaskFiles
    <3>2. ending = "process" => \A s \in Tasks : calls[s] = 1
      BY <3>1 DEF Core, SentOnce
    <3>3. \A s \in Tasks : task'[s] \notin {"calling", "recording", "unmarking"}
      BY <2>2
    <3>4. ending = "process" => \A m \in Seals \intersect live' : sealed'[m] = {records}
      BY <2>1, <2>3 DEF Core, SealedIsWhole
    <3> QED BY <2>1, <2>4, <3>1, <3>2, <3>3, <3>4 DEF SealedIsWhole
  <2> QED BY <2>5, <2>6, <2>7, <2>8, <2>9 DEF Core
<1> QED
  BY <1>1, <1>2, <1>3, <1>4, <1>5, <1>6, <1>7 DEF Main

\* A worker: only its own task, marker and record change.
LEMMA WorkersKeep ==
    ASSUME IInv, NEW s \in Tasks, Execute(s)
    PROVE  IInv'
<1> USE DistinctNames, BoundsAssumption
    DEF IInv, TypeOK, TaskStates, Tasks, Names, Pool, Working, Become, ConfigStays,
        history, contents, sent
<1>0. /\ phase \in {"pool", "cancelled"}
      /\ UNCHANGED <<config, phase, using, scanned, losses, ending, sealed, kept, disk>>
      /\ Forgiven' = Forgiven
  BY DEF Execute, Take, Mark, Call, Return, Raise, WriteRecord, Unmark, Enter,
         Unlink, Forgiven
<1>m. MainThread'
  BY <1>0 DEF MainThread
<1>1. CASE Take(s) \/ Return(s) \/ Raise(s)
  <2>1. PICK what \in {"marking", "recording", "failed"} :
          /\ task' = [task EXCEPT ![s] = what]
          /\ UNCHANGED <<live, records, calls, sentUnder>>
          /\ \/ what = "marking" /\ task[s] = "queued"
             \/ what = "recording" /\ task[s] = "calling"
             \/ what = "failed"
    BY <1>1 DEF Take, Return, Raise, InState
  <2>2. /\ task'[s] = what /\ \A t \in Tasks : t # s => task'[t] = task[t]
        /\ task' \in [Tasks -> TaskStates]
    BY <2>1
  <2>3. Core'
    BY <1>0, <2>1, <2>2, Frame
  <2> QED BY <1>0, <1>m, <2>1, <2>2, <2>3
<1>2. CASE Mark(s) \/ Unmark(s)
  <2>1. \/ /\ task[s] = "marking" /\ task' = [task EXCEPT ![s] = "waiting"]
           /\ live' = live \union {Started(s)}
        \/ /\ task[s] = "unmarking" /\ task' = [task EXCEPT ![s] = "done"]
           /\ live' = live \ {Started(s)} /\ Record(s) \in live
    BY <1>2 DEF Mark, Unmark, Enter, Unlink, Core, TaskFiles
  <2>2. UNCHANGED <<records, calls, sentUnder>>
    BY <1>2 DEF Mark, Unmark
  <2>3. /\ task[s] = "marking" => task'[s] = "waiting" /\ Started(s) \in live'
        /\ task[s] # "marking" => task'[s] = "done" /\ Record(s) \in live'
        /\ \A t \in Tasks : t # s => task'[t] = task[t]
        /\ task' \in [Tasks -> TaskStates] /\ live' \subseteq Names
    BY <2>1
  <2>4. \A t \in Tasks : /\ Record(t) \in live' <=> Record(t) \in live
                         /\ t # s => (Started(t) \in live' <=> Started(t) \in live)
    BY <2>1
  <2>5. /\ Config \in live' <=> Config \in live
        /\ Seals \intersect live' = Seals \intersect live
    BY <2>1
  <2>6. TypeOK' /\ ConfigStays'
    BY <1>0, <2>2, <2>3, <2>5
  <2>7. TaskFiles'
    BY <1>0, <2>1, <2>2, <2>3, <2>4 DEF Core, TaskFiles
  <2>8. SentOnce' /\ RepeatsAreBounded' /\ OneConfiguration'
    BY <1>0, <2>2, <2>3, <2>4 DEF Core, SentOnce, RepeatsAreBounded, OneConfiguration
  <2>9. CalledLeavesTrace'
    BY <1>0, <2>2, <2>3, <2>4 DEF Core, CalledLeavesTrace
  <2>10. SealedIsWhole'
    BY <1>0, <2>2, <2>3, <2>4, <2>5 DEF Core, SealedIsWhole
  <2> QED BY <1>m, <2>6, <2>7, <2>8, <2>9, <2>10 DEF Core
<1>3. CASE Call(s)
  <2>1. /\ task[s] = "waiting" /\ task' = [task EXCEPT ![s] = "calling"]
        /\ calls' = [calls EXCEPT ![s] = @ + 1]
        /\ sentUnder' = sentUnder \union using
        /\ UNCHANGED <<live, disk, records>>
    BY <1>3 DEF Call
  <2>2. /\ calls[s] <= Forgiven /\ Started(s) \in live /\ Record(s) \notin live
        /\ Forgiven \in Nat
    BY <2>1 DEF Core, TaskFiles, Forgiven
  <2>3. /\ calls'[s] = calls[s] + 1 /\ \A t \in Tasks : t # s => calls'[t] = calls[t]
        /\ calls' \in [Tasks -> Nat]
    BY <2>1, <2>2
  <2>4. /\ task'[s] = "calling" /\ \A t \in Tasks : t # s => task'[t] = task[t]
        /\ task' \in [Tasks -> TaskStates]
    BY <2>1
  <2>5. TypeOK' /\ ConfigStays' /\ OneConfiguration'
    BY <1>0, <2>1, <2>3, <2>4 DEF Core, OneConfiguration, MainThread
  <2>6. TaskFiles'
    BY <1>0, <2>1, <2>2, <2>3, <2>4 DEF Core, TaskFiles
  <2>7. SentOnce'
    BY <1>0, <2>1, <2>2, <2>3, <2>4 DEF Core, SentOnce, Forgiven
  <2>8. CalledLeavesTrace' /\ RepeatsAreBounded'
    BY <1>0, <2>1, <2>2, <2>3 DEF Core, CalledLeavesTrace, RepeatsAreBounded
  <2>9. SealedIsWhole'
    <3>1. ending = "process" => Seals \intersect live = {}
      BY <2>2 DEF Core, SealedIsWhole
    <3> QED BY <1>0, <2>1, <3>1 DEF SealedIsWhole
  <2> QED BY <1>m, <2>5, <2>6, <2>7, <2>8, <2>9 DEF Core
<1>4. CASE WriteRecord(s)
  <2>1. /\ task[s] = "recording" /\ task' = [task EXCEPT ![s] = "unmarking"]
        /\ live' = live \union {Record(s)}
        /\ UNCHANGED <<disk, calls, sentUnder>>
    BY <1>4 DEF WriteRecord, Enter
  <2>2. /\ task'[s] = "unmarking" /\ \A t \in Tasks : t # s => task'[t] = task[t]
        /\ task' \in [Tasks -> TaskStates] /\ live' \subseteq Names
    BY <2>1
  <2>3. records' \in Records
    <3>1. PICK a \in DOMAIN Calls[s] : records' = [records EXCEPT ![s] = {a}]
      BY <1>4 DEF WriteRecord
    <3> QED BY <3>1 DEF Records
  <2>4. \A t \in Tasks : /\ Started(t) \in live' <=> Started(t) \in live
                         /\ t # s => (Record(t) \in live' <=> Record(t) \in live)
    BY <2>1
  <2>5. /\ Record(s) \in live' /\ Record(s) \notin live
        /\ Config \in live' <=> Config \in live
        /\ Seals \intersect live' = Seals \intersect live
    BY <2>1 DEF Core, TaskFiles
  <2>6. TypeOK' /\ ConfigStays'
    BY <1>0, <2>1, <2>2, <2>3, <2>5
  <2>7. TaskFiles' /\ SentOnce'
    BY <1>0, <2>1, <2>2, <2>4, <2>5 DEF Core, TaskFiles, SentOnce
  <2>8. CalledLeavesTrace' /\ RepeatsAreBounded' /\ OneConfiguration'
    BY <1>0, <2>1, <2>4, <2>5
    DEF Core, CalledLeavesTrace, RepeatsAreBounded, OneConfiguration
  <2>9. SealedIsWhole'
    <3>1. ending = "process" => Seals \intersect live = {}
      BY <2>5 DEF Core, SealedIsWhole
    <3> QED BY <1>0, <2>5, <3>1 DEF SealedIsWhole
  <2> QED BY <1>m, <2>6, <2>7, <2>8, <2>9 DEF Core
<1> QED BY <1>1, <1>2, <1>3, <1>4 DEF Execute

\* A process that ends leaves the files; entries that are written back change
\* only the disk; a machine that stops has one more call forgiven.
LEMMA LossesKeep ==
    ASSUME IInv, ProcessLoss \/ Writeback \/ PowerLoss
    PROVE  IInv'
<1> USE DistinctNames, BoundsAssumption
    DEF IInv, TypeOK, TaskStates, Tasks, Names, Idle, InFlight, MainThread,
        ConfigStays, history, contents, sent
<1>1. CASE ProcessLoss
  <2>1. /\ phase' = "down" /\ using' = {} /\ scanned' = 0 /\ task' = Idle
        /\ losses' \in 0..MaxLosses /\ ending = "process"
        /\ UNCHANGED <<live, disk, config, records, sealed, kept, calls, sentUnder,
                       ending>>
    BY <1>1 DEF ProcessLoss, Stop
  <2>2. Forgiven' = Forgiven
    BY <2>1 DEF Forgiven
  <2>3. TaskFiles' /\ SentOnce' /\ SealedIsWhole'
    BY <2>1, <2>2 DEF Core, TaskFiles, SentOnce, SealedIsWhole
  <2>4. CalledLeavesTrace' /\ RepeatsAreBounded' /\ OneConfiguration'
    BY <2>1, <2>2 DEF Core, CalledLeavesTrace, RepeatsAreBounded, OneConfiguration
  <2>5. Idle \in [Tasks -> TaskStates] /\ \A t \in Tasks : Idle[t] = "idle"
    OBVIOUS
  <2>6. TypeOK' /\ ConfigStays' /\ MainThread'
    <3>1. TypeOK'
      BY <2>1, <2>5
    <3>2. ConfigStays' /\ MainThread'
      BY <2>1, <2>5
    <3> QED BY <3>1, <3>2
  <2> QED BY <2>3, <2>4, <2>6 DEF Core
<1>2. CASE Writeback
  <2>1. PICK n \in Unwritten :
          /\ disk' = Synced(live, disk, {n})
          /\ kept' = [m \in Seals |-> IF m = n THEN sealed[m] ELSE kept[m]]
    BY <1>2 DEF Writeback
  <2>2. UNCHANGED <<live, config, phase, using, scanned, task, records, sealed,
                    calls, sentUnder, ending, losses>>
    BY <1>2 DEF Writeback
  <2>3. /\ disk' \subseteq Names /\ (Config \in disk' => Config \in live)
        /\ kept' \in [Seals -> SUBSET Records]
    BY <2>1 DEF Synced
  <2>4. Core'
    BY <2>2, Frame
  <2> QED BY <2>2, <2>3, <2>4
<1>3. CASE PowerLoss
  <2>1. /\ phase' = "down" /\ using' = {} /\ scanned' = 0 /\ task' = Idle
        /\ losses' = losses + 1 /\ losses' \in 0..MaxLosses /\ ending = "power"
        /\ UNCHANGED <<calls, sentUnder, ending>>
    BY <1>3 DEF PowerLoss, Stop
  <2>2. PICK found \in Survivors(live, disk) :
          /\ live' = found /\ disk' = found
          /\ config' = IF Config \in found THEN config ELSE {}
          /\ records' = [t \in Tasks |-> IF Record(t) \in found THEN records[t] ELSE {}]
          /\ \E version \in [Seals -> {sealed, kept}] :
              /\ \A n \in Seals \intersect found : version[n][n] # {}
              /\ sealed' = [n \in Seals |-> IF n \in found THEN version[n][n] ELSE {}]
          /\ kept' = sealed'
    BY <1>3 DEF PowerLoss
  <2>3. found \subseteq live \union disk
    BY DEF Survivors
  <2>4. records' \in Records
    BY <2>2 DEF Records
  <2>5. sealed' \in [Seals -> SUBSET Records]
    <3>1. PICK version \in [Seals -> {sealed, kept}] :
            sealed' = [n \in Seals |-> IF n \in found THEN version[n][n] ELSE {}]
      BY <2>2
    <3>2. \A n \in Seals : version[n][n] \in SUBSET Records
      BY <3>1
    <3> QED BY <3>1, <3>2
  <2>6. TypeOK' /\ ConfigStays' /\ MainThread'
    <3>1. Idle \in [Tasks -> TaskStates] /\ \A t \in Tasks : Idle[t] = "idle"
      OBVIOUS
    <3>2. live' \subseteq Names /\ disk' \subseteq Names
      BY <2>2, <2>3
    <3>3. config' \subseteq Configs /\ (Config \in live' <=> config' # {})
      BY <2>2, <2>3
    <3>4. kept' \in [Seals -> SUBSET Records]
      BY <2>2, <2>5
    <3>5. TypeOK'
      BY <2>1, <2>4, <2>5, <3>1, <3>2, <3>3, <3>4
    <3>6. ConfigStays' /\ MainThread'
      BY <2>1, <2>2, <3>1
    <3> QED BY <3>5, <3>6
  <2>7. Forgiven' = Forgiven + 1 /\ Forgiven \in Nat
    BY <2>1 DEF Forgiven
  <2>8. CalledLeavesTrace' /\ RepeatsAreBounded' /\ OneConfiguration'
    BY <2>1, <2>7 DEF Core, CalledLeavesTrace, RepeatsAreBounded, OneConfiguration
  <2>9. TaskFiles' /\ SentOnce' /\ SealedIsWhole'
    BY <2>1 DEF TaskFiles, SentOnce, SealedIsWhole
  <2> QED BY <2>6, <2>8, <2>9 DEF Core
<1> QED BY <1>1, <1>2, <1>3

LEMMA IInvHolds == Spec => []IInv
<1>1. IInv /\ UNCHANGED vars => IInv'
  BY DEF vars, history, contents, sent, IInv, Core, TypeOK, ConfigStays, MainThread,
         InFlight, TaskFiles, SentOnce, CalledLeavesTrace, RepeatsAreBounded, Forgiven,
         OneConfiguration, SealedIsWhole
<1>2. IInv /\ [Next]_vars => IInv'
  BY <1>1, MainKeeps, WorkersKeep, LossesKeep DEF Next
<1> QED BY <1>2, InitIInv, PTL DEF Spec

\* Files, phases and counters are those the code can have.
THEOREM TypeCorrect == Spec => []TypeOK
<1>1. IInv => TypeOK
  BY DEF IInv
<1> QED BY <1>1, IInvHolds, PTL

\* A run killed and resumed any number of times repeats no call, one that
\* failed or whose answer never came included (citation_run.py:635-657); each
\* stop of the machine costs a task at most one more.
THEOREM RepeatsBounded == Spec => []RepeatsAreBounded
<1>1. IInv => RepeatsAreBounded
  BY DEF IInv, Core
<1> QED BY <1>1, IInvHolds, PTL

\* Every task sent, but for stops of the machine, has left its record or its
\* marker.
THEOREM TraceLeft == Spec => []CalledLeavesTrace
<1>1. IInv => CalledLeavesTrace
  BY DEF IInv, Core
<1> QED BY <1>1, IInvHolds, PTL

\* All calls of a run directory were made under the configuration on file.
THEOREM ConfigurationFixed == Spec => []OneConfiguration
<1>1. IInv => OneConfiguration
  BY DEF IInv, Core
<1> QED BY <1>1, IInvHolds, PTL

\* Receipt and manifest speak for exactly one answered call per task.
THEOREM SealsAreWhole == Spec => []SealedIsWhole
<1>1. IInv => SealedIsWhole
  BY DEF IInv, Core
<1> QED BY <1>1, IInvHolds, PTL

-----------------------------------------------------------------------------
(* What a selection must be to be accepted *)
Less == {ss \in Nat \X Nat : ss[1] < ss[2]}

LEMMA Least ==
    ASSUME NEW T, T \subseteq Nat, T # {}
    PROVE  \E x \in T : \A y \in T : x <= y
<1>1. IsWellFoundedOn(Less, Nat)
  <2>1. OpToRel(<, Nat) = Less
    BY DEF OpToRel, Less
  <2> QED BY <2>1, NatLessThanWellFounded
<1>2. PICK x \in T : \A y \in T : ~(<<y, x>> \in Less)
  BY <1>1, WFMin
<1>3. ASSUME NEW y \in T PROVE x <= y
  <2>1. ~(<<y, x>> \in Less) /\ x \in Nat /\ y \in Nat
    BY <1>2
  <2> QED BY <2>1 DEF Less
<1> QED BY <1>3

LEMMA Induction ==
    ASSUME NEW m \in Nat, NEW top \in Nat, NEW T, m \in T,
           \A n \in m..top : n \in T /\ n < top => n + 1 \in T
    PROVE  \A n \in m..top : n \in T
<1> SUFFICES ASSUME NEW k \in m..top, k \notin T PROVE FALSE
  OBVIOUS
<1> DEFINE F == {n \in m..top : n \notin T}
<1>1. PICK n \in F : \A l \in F : n <= l
  <2>1. F \subseteq Nat /\ F # {}
    OBVIOUS
  <2> HIDE DEF F
  <2> QED BY <2>1, Least
<1>2. n \in m..top /\ n \notin T /\ n # m
  BY <1>1
<1>3. n - 1 \in m..top /\ n - 1 < top /\ (n - 1) + 1 = n /\ ~(n <= n - 1)
  BY <1>2
<1>4. n - 1 \in T
  BY <1>1, <1>3
<1> QED BY <1>2, <1>3, <1>4

\* What is cited without a fault is supplied, and something is.
LEMMA CitesSupplied ==
    ASSUME NEW cites, NEW evidence, NEW otherwise,
           CitesFault(cites, evidence, otherwise) = {}
    PROVE  cites # <<>> /\ Range(cites) \subseteq DOMAIN evidence
<1>1. cites # <<>>
  BY DEF CitesFault
<1>2. {i \in DOMAIN cites : (\E j \in 1..(i - 1) : cites[j] = cites[i])
                            \/ cites[i] \notin DOMAIN evidence} = {}
  BY <1>1 DEF CitesFault
<1>3. \A i \in DOMAIN cites : cites[i] \in DOMAIN evidence
  BY <1>2
<1> QED BY <1>1, <1>3 DEF Range

\* What validate_selection accepts is supported by the evidence.
LEMMA AcceptedSupported ==
    ASSUME NEW s, Formed(s), NEW evidence, Fault(s, evidence) = {}
    PROVE  Supported(s, evidence)
<1>1. CASE s.kind = "refusal"
  <2>1. RefusalFault(s, evidence) = {}
    BY <1>1 DEF Fault
  <2>2. s.claims = <<>>
    BY <2>1 DEF RefusalFault
  <2>3. CitesFault(s.cites, evidence, "REFUSAL_REJECTED") = {}
    BY <2>1, <2>2 DEF RefusalFault
  <2>4. \A e \in DOMAIN evidence : s.requested \notin evidence[e].propositions
    BY <2>1, <2>2, <2>3 DEF RefusalFault
  <2> QED BY <2>2, <2>4 DEF Supported
<1>2. CASE s.kind # "refusal"
  <2> DEFINE bad == {i \in DOMAIN s.claims : ClaimFault(s.claims, i, evidence) # {}}
  <2>1. DOMAIN s.claims \subseteq Nat
    <3>1. s.claims \in Seq(Range(s.claims))
      BY DEF Formed
    <3> QED BY <3>1
  <2>2. bad = {}
    <3> SUFFICES ASSUME bad # {} PROVE FALSE
      OBVIOUS
    <3>1. PICK least \in bad : \A j \in bad : least <= j
      <4>1. bad \subseteq Nat
        BY <2>1
      <4> HIDE DEF bad
      <4> QED BY <4>1, Least
    <3>2. (CHOOSE i \in bad : \A j \in bad : i <= j) \in bad
      BY <3>1
    <3>3. Fault(s, evidence)
            = ClaimFault(s.claims, CHOOSE i \in bad : \A j \in bad : i <= j, evidence)
      BY <1>2 DEF Fault
    <3> QED BY <3>2, <3>3
  <2>3. ASSUME NEW i \in DOMAIN s.claims
        PROVE  /\ s.claims[i].cites # <<>>
               /\ Range(s.claims[i].cites) \subseteq DOMAIN evidence
               /\ \A c \in Range(s.claims[i].cites) :
                    s.claims[i].proposition \in evidence[c].propositions
    <3>1. ClaimFault(s.claims, i, evidence) = {}
      BY <2>2
    <3>2. CitesFault(s.claims[i].cites, evidence, "VALIDATION_REJECTED") = {}
      BY <3>1 DEF ClaimFault
    <3>3. \A c \in Range(s.claims[i].cites) :
            s.claims[i].proposition \in evidence[c].propositions
      BY <3>1, <3>2 DEF ClaimFault
    <3> QED BY <3>2, <3>3, CitesSupplied
  <2> QED BY <1>2, <2>3 DEF Supported
<1> QED BY <1>1, <1>2

\* Selections that mean the same make the same claims.
LEMMA MeaningsAgree ==
    ASSUME NEW s, NEW t, Formed(s), Formed(t), SameMeaning(s, t)
    PROVE  /\ s.kind = t.kind
           /\ {Meaning(c) : c \in Range(s.claims)} = {Meaning(c) : c \in Range(t.claims)}
<1>1. s.kind = t.kind
  BY DEF SameMeaning
<1>2. CASE s.kind = "refusal"
  BY <1>1, <1>2 DEF SameMeaning
<1>3. ASSUME s.kind # "refusal", NEW u, NEW v, u \in {s, t}, v \in {s, t},
             NEW c \in Range(u.claims)
      PROVE  \E d \in Range(v.claims) : Meaning(d) = Meaning(c)
  <2> DEFINE Of(w) == {i \in DOMAIN w.claims : Meaning(w.claims[i]) = Meaning(c)}
  <2>1. Cardinality(Of(s)) = Cardinality(Of(t))
    BY <1>3 DEF SameMeaning, Count
  <2>2. ASSUME NEW w \in {s, t} PROVE IsFiniteSet(Of(w))
    <3>1. w.claims \in Seq(Range(w.claims))
      BY <2>2 DEF Formed
    <3>2. DOMAIN w.claims = 1..Len(w.claims) /\ Len(w.claims) \in Nat
      BY <3>1
    <3>3. IsFiniteSet(1..Len(w.claims))
      BY <3>2, FS_Interval
    <3>4. Of(w) \subseteq 1..Len(w.claims)
      BY <3>2
    <3> HIDE DEF Of
    <3> QED BY <3>3, <3>4, FS_Subset
  <2>3. Of(u) # {}
    BY DEF Range
  <2>4. Cardinality(Of(u)) = Cardinality(Of(v))
    BY <1>3, <2>1
  <2>5. Of(v) # {}
    <3>1. IsFiniteSet(Of(u)) /\ IsFiniteSet(Of(v))
      BY <1>3, <2>2
    <3> HIDE DEF Of
    <3> QED BY <2>3, <2>4, <3>1, FS_EmptySet
  <2> QED BY <2>5 DEF Range
<1>4. CASE s.kind # "refusal"
  <2>1. \A c \in Range(s.claims) : \E d \in Range(t.claims) : Meaning(d) = Meaning(c)
    BY <1>3, <1>4
  <2>2. \A c \in Range(t.claims) : \E d \in Range(s.claims) : Meaning(d) = Meaning(c)
    BY <1>3, <1>4
  <2> QED BY <1>1, <2>1, <2>2
<1> QED BY <1>1, <1>2, <1>4

\* The record of a task that was rendered and is accepted was earned.
LEMMA RenderedEarned ==
    ASSUME NEW s \in Tasks, NEW a \in DOMAIN Calls[s],
           Validated(Answer(s, a), Task[s]),
           Answer(s, a).completed, Answer(s, a).rendered # {}
    PROVE  Earned(Answer(s, a), Task[s])
<1> DEFINE r == Answer(s, a)
<1>1. r.selection = Calls[s][a].selection
  BY DEF Answer, RecordOf
<1>2. r.class = "none"
  BY DEF Validated
<1>3. PICK c \in r.selection : Formed(c)
  BY <1>1, <1>2, CallsAssumption DEF Validated
<1>4. [rendered |-> r.rendered, error |-> r.error] = Judged(c, Task[s])
  BY <1>2, <1>3 DEF Validated
<1> HIDE DEF r
<1>5. r.rendered = Judged(c, Task[s]).rendered
  <2>1. [rendered |-> r.rendered, error |-> r.error].rendered = r.rendered
    OBVIOUS
  <2> QED BY <1>4, <2>1
<1>6. Judged(c, Task[s]).rendered # {}
  BY <1>5 DEF r
<1>7. Fault(c, Task[s].evidence) = {} /\ SameMeaning(c, Task[s].oracle)
  BY <1>6 DEF Judged
<1>8. Supported(c, Task[s].evidence)
  BY <1>3, <1>7, AcceptedSupported
<1>9. /\ c.kind = Task[s].oracle.kind
      /\ {Meaning(x) : x \in Range(c.claims)}
            = {Meaning(x) : x \in Range(Task[s].oracle.claims)}
  BY <1>3, <1>7, CallsAssumption, MeaningsAgree
<1> QED BY <1>3, <1>8, <1>9 DEF Earned, r

-----------------------------------------------------------------------------
\* An accepted set of records has failed calls in its share, and every other
\* record is rendered.
LEMMA GatesHold ==
    ASSUME NEW record, DOMAIN record = Tasks,
           \A s \in Tasks : record[s].completed <=>
                                record[s].class \notin {"HTTP", "TRANSPORT"},
           Status(record, Minimum) = "PASS"
    PROVE  LET failed == {s \in Tasks : record[s].class \in {"HTTP", "TRANSPORT"}}
           IN  /\ 100 * Cardinality(failed) <= (100 - Minimum) * N
               /\ \A s \in Tasks \ failed :
                        record[s].completed /\ record[s].rendered # {}
<1> DEFINE C == Completed(record)
           R == Rendered(record)
           F == {s \in Tasks : record[s].class \in {"HTTP", "TRANSPORT"}}
<1>1. N \in Nat /\ Minimum \in Nat
  BY BoundsAssumption
<1>2. IsFiniteSet(Tasks) /\ Cardinality(Tasks) = N
  BY <1>1, FS_Interval DEF Tasks
<1>3. C \subseteq Tasks /\ R \subseteq C /\ F = Tasks \ C /\ Tasks \intersect C = C
  BY DEF Completed, Rendered
<1>4. /\ 100 * Cardinality(C) >= Minimum * Cardinality(Tasks)
      /\ Cardinality(R) = Cardinality(C)
  BY DEF Status
<1>5. \A s \in R : record[s].completed /\ record[s].rendered # {}
  BY DEF Rendered, Completed
<1> HIDE DEF C, R, F
<1>6. IsFiniteSet(C) /\ Cardinality(C) \in Nat
  BY <1>2, <1>3, FS_Subset, FS_CardinalityType
<1>7. R = C
  BY <1>3, <1>4, <1>6, FS_Subset
<1>8. Cardinality(F) = N - Cardinality(C)
  BY <1>2, <1>3, FS_Difference
<1>9. 100 * Cardinality(F) <= (100 - Minimum) * N
  <2> DEFINE n == Cardinality(C)
  <2>1. n \in Nat /\ 100 * n >= Minimum * N /\ Cardinality(F) = N - n
    BY <1>2, <1>4, <1>6, <1>8
  <2> HIDE DEF n
  <2>2. (100 - Minimum) * N = 100 * N - Minimum * N /\ Minimum * N \in Nat
    BY <1>1
  <2> QED BY <1>1, <2>1, <2>2
<1>10. \A s \in Tasks \ F : record[s].completed /\ record[s].rendered # {}
  BY <1>3, <1>5, <1>7
<1> QED BY <1>9, <1>10 DEF F

\* A record on file is one of the answers its task may come to.
Filed ==
    /\ \A s \in Tasks : records[s] = {} \/ \E a \in DOMAIN Calls[s] : records[s] = {a}
    /\ \A s \in Tasks : Record(s) \in live => records[s] # {}
    /\ \A s \in Tasks : Record(s) \in disk => Record(s) \in live

LEMMA FiledStep == IInv /\ Filed /\ [Next]_vars => Filed'
<1> SUFFICES ASSUME IInv, Filed, [Next]_vars PROVE Filed'
  OBVIOUS
<1>1. records \in [Tasks -> SUBSET UNION {DOMAIN Calls[t] : t \in Tasks}]
  BY DEF IInv, TypeOK, Records
<1>2. ASSUME UNCHANGED records,
             \A s \in Tasks : /\ Record(s) \in live' <=> Record(s) \in live
                              /\ Record(s) \in disk' => Record(s) \in live
      PROVE  Filed'
  BY <1>2 DEF Filed
<1>3. ASSUME NEW n, \A s \in Tasks : n # Record(s), Enter(n) \/ Unlink(n),
             UNCHANGED records
      PROVE  Filed'
  BY <1>2, <1>3 DEF Enter, Unlink, Filed
<1>4. ASSUME UNCHANGED <<live, disk, records>> PROVE Filed'
  BY <1>2, <1>4 DEF Filed
<1>5. CASE Main
  <2>1. UNCHANGED records
    BY <1>5 DEF Main, Begin, ScanRecorded, ScanRejected, ScanRefused, ScanPending,
                Submit, Cancel, Abort, WriteReceipt, WriteManifest, history, contents
  <2>2. CASE ScanRejected \/ ScanRefused \/ ScanPending \/ Submit \/ Cancel \/ Abort
    BY <1>4, <2>1, <2>2 DEF ScanRejected, ScanRefused, ScanPending, Submit, Cancel,
                            Abort
  <2>3. CASE Begin
    <3>1. UNCHANGED <<live, disk>> \/ Enter(Config)
      BY <2>3 DEF Begin
    <3> QED BY <1>3, <1>4, <2>1, <3>1, DistinctNames
  <2>4. CASE ScanRecorded
    <3>1. Unlink(Started(Here))
      BY <2>4 DEF ScanRecorded
    <3> QED BY <1>3, <2>1, <3>1, DistinctNames
  <2>5. CASE WriteReceipt \/ WriteManifest
    <3>1. Enter(Receipt) \/ Enter(Manifest)
      BY <2>5 DEF WriteReceipt, WriteManifest
    <3> QED BY <1>3, <2>1, <3>1, DistinctNames
  <2> QED BY <1>5, <2>2, <2>3, <2>4, <2>5 DEF Main
<1>6. ASSUME NEW s \in Tasks, Execute(s) PROVE Filed'
  <2>1. CASE WriteRecord(s)
    <3>1. PICK a \in DOMAIN Calls[s] : records' = [records EXCEPT ![s] = {a}]
      BY <2>1 DEF WriteRecord
    <3>2. live' = live \union {Record(s)} /\ disk' = disk
      BY <2>1 DEF WriteRecord, Enter
    <3>3. records'[s] = {a} /\ \A t \in Tasks : t # s => records'[t] = records[t]
      BY <1>1, <3>1
    <3>4. \A t \in Tasks : t # s => (Record(t) \in live' <=> Record(t) \in live)
      BY <3>2, DistinctNames
    <3> QED BY <3>2, <3>3, <3>4 DEF Filed
  <2>2. CASE ~WriteRecord(s)
    BY <1>3, <1>4, <1>6, <2>2, DistinctNames
    DEF Execute, Take, Mark, Call, Return, Raise, Unmark, history, contents
  <2> QED BY <2>1, <2>2
<1>7. CASE ProcessLoss \/ UNCHANGED vars
  BY <1>4, <1>7 DEF ProcessLoss, vars, history, contents
<1>8. CASE Writeback
  <2>1. PICK n \in Unwritten : disk' = Synced(live, disk, {n})
    BY <1>8 DEF Writeback
  <2>2. live' = live /\ records' = records
    BY <1>8 DEF Writeback
  <2>3. \A s \in Tasks : Record(s) \in disk' => Record(s) \in live
    BY <2>1 DEF Synced, Filed
  <2> QED BY <1>2, <2>2, <2>3
<1>9. CASE PowerLoss
  <2>1. PICK found \in Survivors(live, disk) :
          /\ live' = found /\ disk' = found
          /\ records' = [t \in Tasks |-> IF Record(t) \in found THEN records[t] ELSE {}]
    BY <1>9 DEF PowerLoss
  <2>2. found \subseteq live \union disk
    BY DEF Survivors
  <2>3. \A s \in Tasks : Record(s) \in found => records[s] # {}
    BY <2>2 DEF Filed
  <2> QED BY <2>1, <2>3 DEF Filed
<1> QED BY <1>5, <1>6, <1>7, <1>8, <1>9 DEF Next

LEMMA FiledHolds == Spec => []Filed
<1>1. Init => Filed
  BY DEF Init, Filed
<1> QED BY <1>1, FiledStep, IInvHolds, PTL DEF Spec

\* A directory that verifies as an acceptance has earned it: failed calls in no
\* more than their share of the tasks, every other task answered as its oracle
\* says, each claim on evidence that was supplied and says so, whatever the
\* models selected (citation_acceptance.py:59-73).
THEOREM PassesAreEarned == Spec => []PassIsEarned
<1>1. Filed => PassIsEarned
  <2> DEFINE record == [s \in Tasks |-> Answer(s, CHOOSE a \in records[s] : TRUE)]
             failed == {s \in Tasks : record[s].class \in {"HTTP", "TRANSPORT"}}
  <2> SUFFICES ASSUME Filed, Verifies, Status(record, Minimum) = "PASS"
               PROVE  /\ 100 * Cardinality(failed) <= (100 - Minimum) * N
                      /\ \A s \in Tasks \ failed : Earned(record[s], Task[s])
    BY DEF PassIsEarned
  <2>1. ASSUME NEW s \in Tasks
        PROVE  \E a \in DOMAIN Calls[s] : /\ record[s] = Answer(s, a)
                                          /\ Validated(Answer(s, a), Task[s])
    <3>1. records[s] # {} /\ records[s] \intersect Refused[s] = {}
      BY DEF Verifies, Filed, Rejected
    <3>2. PICK a \in DOMAIN Calls[s] : records[s] = {a}
      BY <3>1 DEF Filed
    <3>3. (CHOOSE b \in {a} : TRUE) = a
      OBVIOUS
    <3>4. Validated(Answer(s, a), Task[s])
      BY <3>1, <3>2, RefusedAssumption
    <3> QED BY <3>2, <3>3, <3>4
  <2>2. ASSUME NEW s \in Tasks
        PROVE  record[s].completed <=> record[s].class \notin {"HTTP", "TRANSPORT"}
    <3>1. PICK a \in DOMAIN Calls[s] : record[s] = Answer(s, a)
      BY <2>1
    <3>2. Calls[s][a].class \in {"none", "RESPONSE", "HTTP", "TRANSPORT"}
      BY CallsAssumption
    <3>3. /\ Answer(s, a).class = Calls[s][a].class
          /\ Answer(s, a).completed = (Calls[s][a].class \in {"none", "RESPONSE"})
      BY DEF Answer, RecordOf
    <3> QED BY <3>1, <3>2, <3>3
  <2>3. DOMAIN record = Tasks
    OBVIOUS
  <2> HIDE DEF record
  <2>4. /\ 100 * Cardinality(failed) <= (100 - Minimum) * N
        /\ \A s \in Tasks \ failed : record[s].completed /\ record[s].rendered # {}
    BY <2>2, <2>3, GatesHold
  <2>5. ASSUME NEW s \in Tasks \ failed PROVE Earned(record[s], Task[s])
    BY <2>1, <2>4, RenderedEarned
  <2> QED BY <2>4, <2>5
<1> QED BY <1>1, FiledHolds, PTL

-----------------------------------------------------------------------------
(* Sequences *)
LEMMA RangeOfConcat ==
    ASSUME NEW S, NEW a \in Seq(S), NEW b \in Seq(S)
    PROVE  a \o b \in Seq(S) /\ Range(a \o b) = Range(a) \union Range(b)
<1>1. /\ a \o b \in Seq(S) /\ Len(a \o b) = Len(a) + Len(b)
      /\ Len(a) \in Nat /\ Len(b) \in Nat
      /\ DOMAIN a = 1..Len(a) /\ DOMAIN b = 1..Len(b)
      /\ DOMAIN (a \o b) = 1..(Len(a) + Len(b))
  OBVIOUS
<1>2. \A i \in 1..Len(a) : (a \o b)[i] = a[i]
  OBVIOUS
<1>3. \A i \in 1..Len(b) : (a \o b)[Len(a) + i] = b[i] /\ Len(a) + i \in 1..(Len(a) + Len(b))
  OBVIOUS
<1>4. \A i \in 1..(Len(a) + Len(b)) :
        i \in 1..Len(a) \/ \E j \in 1..Len(b) : i = Len(a) + j
  <2> SUFFICES ASSUME NEW i \in 1..(Len(a) + Len(b)), i \notin 1..Len(a)
               PROVE  \E j \in 1..Len(b) : i = Len(a) + j
    OBVIOUS
  <2>1. i - Len(a) \in 1..Len(b) /\ i = Len(a) + (i - Len(a))
    BY <1>1
  <2> QED BY <2>1
<1>5. \A i \in 1..Len(a) : i \in 1..(Len(a) + Len(b))
  BY <1>1
<1>6. ASSUME NEW x \in Range(a \o b) PROVE x \in Range(a) \union Range(b)
  <2>1. PICK i \in 1..(Len(a) + Len(b)) : x = (a \o b)[i]
    BY <1>1 DEF Range
  <2> QED BY <1>1, <1>2, <1>3, <1>4, <2>1 DEF Range
<1>7. ASSUME NEW x \in Range(a) \union Range(b) PROVE x \in Range(a \o b)
  <2>1. CASE x \in Range(a)
    <3>1. PICK i \in 1..Len(a) : x = a[i]
      BY <1>1, <2>1 DEF Range
    <3> QED BY <1>1, <1>2, <1>5, <3>1 DEF Range
  <2>2. CASE x \in Range(b)
    <3>1. PICK i \in 1..Len(b) : x = b[i]
      BY <1>1, <2>2 DEF Range
    <3> QED BY <1>1, <1>3, <3>1 DEF Range
  <2> QED BY <1>7, <2>1, <2>2
<1> QED BY <1>1, <1>6, <1>7

LEMMA RangeOfOne ==
    ASSUME NEW S, NEW claim \in SUBSET S, claim = {} \/ \E x \in claim : claim = {x}
    PROVE  SetToSeq(claim) \in Seq(S) /\ Range(SetToSeq(claim)) = claim
<1> DEFINE q == SetToSeq(claim)
<1>1. CASE claim = {}
  <2>1. Cardinality(claim) = 0
    BY <1>1, FS_EmptySet
  <2>2. q = CHOOSE f \in [1..0 -> claim] : IsInjective(f)
    BY <2>1 DEF SetToSeq
  <2>3. [i \in 1..0 |-> i] \in [1..0 -> claim] /\ IsInjective([i \in 1..0 |-> i])
    BY DEF IsInjective
  <2>4. q \in [1..0 -> claim]
    BY <2>2, <2>3
  <2> HIDE DEF q
  <2>5. q \in Seq(S) /\ DOMAIN q = {}
    BY <2>4
  <2> QED BY <1>1, <2>5 DEF Range, q
<1>2. CASE claim # {}
  <2>1. PICK x \in claim : claim = {x}
    BY <1>2
  <2>2. Cardinality(claim) = 1
    BY <2>1, FS_Singleton
  <2>3. q = CHOOSE f \in [1..1 -> claim] : IsInjective(f)
    BY <2>2 DEF SetToSeq
  <2>4. [i \in 1..1 |-> x] \in [1..1 -> claim] /\ IsInjective([i \in 1..1 |-> x])
    BY <2>1 DEF IsInjective
  <2>5. q \in [1..1 -> claim]
    BY <2>3, <2>4
  <2> HIDE DEF q
  <2>6. DOMAIN q = {1} /\ q[1] = x
    BY <2>1, <2>5
  <2>7. q \in Seq(S)
    <3>1. q \in [1..1 -> S]
      BY <2>5
    <3>2. \E n \in Nat : q \in [1..n -> S]
      BY <3>1
    <3> QED BY <3>2
  <2> QED BY <2>1, <2>6, <2>7 DEF Range, q
<1> QED BY <1>1, <1>2

\* A sequence of sequences laid end to end holds what they hold.
LEMMA Flattened ==
    ASSUME NEW S, NEW parts \in Seq(Seq(S))
    PROVE  /\ FlattenSeq(parts) \in Seq(S)
           /\ \A x : x \in Range(FlattenSeq(parts)) <=>
                        \E i \in DOMAIN parts : x \in Range(parts[i])
<1>1. Len(parts) \in Nat /\ DOMAIN parts = 1..Len(parts)
  OBVIOUS
<1>2. CASE Len(parts) = 0
  <2>1. FlattenSeq(parts) = parts
    BY <1>2 DEF FlattenSeq
  <2>2. parts = <<>>
    BY <1>2
  <2>3. parts \in Seq(S)
    BY <2>2
  <2>4. DOMAIN parts = {}
    BY <2>2
  <2> QED BY <2>1, <2>3, <2>4 DEF Range
<1>3. CASE Len(parts) # 0
  <2> DEFINE N0 == Len(parts)
             Flat(f, n) == f = [i \in 1..n |-> IF i = 1 THEN parts[i]
                                               ELSE f[i - 1] \o parts[i]]
             T == {n \in 1..N0 : \E f : Flat(f, n)}
             flatten[i \in 1..Len(parts)] ==
                IF i = 1 THEN parts[i] ELSE flatten[i - 1] \o parts[i]
             X(n) == {x \in S : \E i \in 1..n : x \in Range(parts[i])}
             R == {n \in 1..N0 : flatten[n] \in Seq(S) /\ Range(flatten[n]) = X(n)}
  <2>0. N0 \in Nat /\ 1 \in Nat /\ 1 \in 1..N0 /\ N0 \in 1..N0
    BY <1>1, <1>3
  <2>1. FlattenSeq(parts) = flatten[Len(parts)]
    BY <1>3 DEF FlattenSeq
  <2>2. 1 \in T
    <3>1. Flat([i \in 1..1 |-> parts[1]], 1)
      OBVIOUS
    <3> QED BY <2>0, <3>1
  <2>3. ASSUME NEW n \in 1..N0, n \in T, n < N0 PROVE n + 1 \in T
    <3>1. PICK f : Flat(f, n)
      BY <2>3
    <3> DEFINE g == [i \in 1..(n + 1) |-> IF i = n + 1 THEN f[n] \o parts[n + 1] ELSE f[i]]
    <3>2. g = [i \in 1..(n + 1) |-> IF i = 1 THEN parts[i] ELSE g[i - 1] \o parts[i]]
      <4> SUFFICES ASSUME NEW i \in 1..(n + 1)
                   PROVE  g[i] = IF i = 1 THEN parts[i] ELSE g[i - 1] \o parts[i]
        OBVIOUS
      <4>1. CASE i = n + 1
        <5>1. i # 1 /\ i - 1 = n /\ n \in 1..(n + 1) /\ n # n + 1
          BY <2>0, <4>1
        <5> QED BY <4>1, <5>1
      <4>2. CASE i # n + 1
        <5>1. i \in 1..n /\ (i # 1 => i - 1 \in 1..n /\ i - 1 # n + 1 /\ i - 1 \in 1..(n + 1))
          BY <2>0, <4>2
        <5>2. f[i] = IF i = 1 THEN parts[i] ELSE f[i - 1] \o parts[i]
          BY <3>1, <5>1
        <5> QED BY <4>2, <5>1, <5>2
      <4> QED BY <4>1, <4>2
    <3> HIDE DEF g
    <3>3. Flat(g, n + 1)
      BY <3>2
    <3>4. n + 1 \in 1..N0
      BY <2>0, <2>3
    <3> HIDE DEF Flat
    <3> QED BY <3>3, <3>4
  <2>4. \E f : Flat(f, N0)
    <3> HIDE DEF T
    <3>1. \A n \in 1..N0 : n \in T
      BY <2>0, <2>2, <2>3, Induction
    <3> QED BY <2>0, <3>1 DEF T
  <2>5. flatten = [i \in 1..N0 |-> IF i = 1 THEN parts[i] ELSE flatten[i - 1] \o parts[i]]
    BY <2>4
  <2> HIDE DEF flatten
  <2>6. \A i \in 1..N0 : parts[i] \in Seq(S)
    BY <1>1
  <2>7. 1 \in R
    <3>1. flatten[1] = parts[1] /\ parts[1] \in Seq(S)
      BY <2>0, <2>5, <2>6
    <3>2. \A x \in Range(parts[1]) : x \in S
      BY <3>1 DEF Range
    <3>3. Range(flatten[1]) = X(1)
      BY <3>1, <3>2
    <3> QED BY <2>0, <3>1, <3>3
  <2>8. ASSUME NEW n \in 1..N0, n \in R, n < N0 PROVE n + 1 \in R
    <3>1. n + 1 \in 1..N0 /\ n + 1 # 1 /\ (n + 1) - 1 = n
          /\ \A i : i \in 1..(n + 1) <=> i \in 1..n \/ i = n + 1
      BY <2>0, <2>8
    <3>2. flatten[n + 1] = flatten[n] \o parts[n + 1]
      BY <2>5, <3>1
    <3>3. flatten[n] \in Seq(S) /\ parts[n + 1] \in Seq(S) /\ Range(flatten[n]) = X(n)
      BY <2>6, <2>8, <3>1
    <3>4. flatten[n + 1] \in Seq(S)
          /\ Range(flatten[n + 1]) = X(n) \union Range(parts[n + 1])
      BY <3>2, <3>3, RangeOfConcat
    <3>5. \A x \in Range(parts[n + 1]) : x \in S
      BY <3>3 DEF Range
    <3>6. X(n) \union Range(parts[n + 1]) = X(n + 1)
      BY <3>1, <3>5
    <3> QED BY <3>1, <3>4, <3>6
  <2>9. N0 \in R
    <3> HIDE DEF R
    <3>1. \A n \in 1..N0 : n \in R
      BY <2>0, <2>7, <2>8, Induction
    <3> QED BY <2>0, <3>1
  <2>10. \A i \in DOMAIN parts : \A x \in Range(parts[i]) : x \in S
    BY <1>1, <2>6 DEF Range
  <2> QED BY <1>1, <2>1, <2>9, <2>10
<1> QED BY <1>2, <1>3

-----------------------------------------------------------------------------
(* The citations of a rendered selection *)
Cited(s) == {Uses(s)[u].evidence : u \in DOMAIN Uses(s)}
Claiming(s) == {c.id : c \in Range(s.claims)}

\* The uses of a selection: each piece of evidence a claim cites, and no other,
\* is used by that claim.
LEMMA UsesFacts ==
    ASSUME NEW s, Formed(s), s.kind = "refusal" => s.claims = <<>>
    PROVE  /\ Len(Uses(s)) \in Nat /\ DOMAIN Uses(s) = 1..Len(Uses(s))
           /\ \A u \in DOMAIN Uses(s) :
                LET claim == Uses(s)[u].claim
                IN  claim \in SUBSET Claiming(s) /\ (claim = {} \/ \E x \in claim : claim = {x})
           /\ \A e, x : (\E u \in DOMAIN Uses(s) :
                                Uses(s)[u].evidence = e /\ x \in Uses(s)[u].claim)
                        <=> x \in {c.id : c \in {d \in Range(s.claims) : e \in Range(d.cites)}}
<1>1. CASE s.kind = "refusal"
  <2> DEFINE n == Len(s.cites)
             uses == [i \in 1..n |-> [evidence |-> s.cites[i], claim |-> {}]]
  <2>1. s.cites \in Seq(Range(s.cites))
    BY DEF Formed
  <2>2. n \in Nat /\ DOMAIN s.cites = 1..n
    BY <2>1
  <2>3. Uses(s) = uses
    BY <1>1, <2>2 DEF Uses
  <2>4. DOMAIN uses = 1..n /\ \A u \in 1..n : uses[u].claim = {}
    OBVIOUS
  <2>5. Len(uses) = n
    BY <2>2
  <2> HIDE DEF uses, n
  <2>6. Range(s.claims) = {}
    BY <1>1 DEF Range
  <2> QED BY <2>2, <2>3, <2>4, <2>5, <2>6
<1>2. CASE s.kind # "refusal"
  <2> DEFINE E == UNION {Range(c.cites) : c \in Range(s.claims)}
             S == [evidence : E, claim : {{x} : x \in Claiming(s)}]
             part(c) == [i \in DOMAIN s.claims[c].cites |->
                            [evidence |-> s.claims[c].cites[i],
                             claim |-> {s.claims[c].id}]]
             parts == [c \in DOMAIN s.claims |-> part(c)]
  <2>1. /\ s.claims \in Seq(Range(s.claims)) /\ DOMAIN s.claims = 1..Len(s.claims)
        /\ Len(s.claims) \in Nat
    BY DEF Formed
  <2>2. ASSUME NEW c \in DOMAIN s.claims
        PROVE  /\ part(c) \in Seq(S)
               /\ Range(part(c)) = {[evidence |-> e, claim |-> {s.claims[c].id}] :
                                        e \in Range(s.claims[c].cites)}
    <3>1. s.claims[c] \in Range(s.claims)
      BY DEF Range
    <3>2. s.claims[c].cites \in Seq(Range(s.claims[c].cites))
      BY <3>1 DEF Formed
    <3>3. DOMAIN s.claims[c].cites = 1..Len(s.claims[c].cites)
          /\ Len(s.claims[c].cites) \in Nat
      BY <3>2
    <3>4. \A i \in DOMAIN s.claims[c].cites :
            [evidence |-> s.claims[c].cites[i], claim |-> {s.claims[c].id}] \in S
      <4> SUFFICES ASSUME NEW i \in DOMAIN s.claims[c].cites
                   PROVE  s.claims[c].cites[i] \in E
                          /\ {s.claims[c].id} \in {{x} : x \in Claiming(s)}
        OBVIOUS
      <4>1. s.claims[c].cites[i] \in Range(s.claims[c].cites)
        BY DEF Range
      <4>2. s.claims[c].id \in Claiming(s)
        BY <3>1 DEF Claiming
      <4> QED BY <3>1, <4>1, <4>2
    <3> HIDE DEF S
    <3>5. part(c) \in Seq(S)
      BY <3>3, <3>4
    <3>6. Range(part(c)) = {[evidence |-> e, claim |-> {s.claims[c].id}] :
                                e \in Range(s.claims[c].cites)}
      BY DEF Range
    <3> QED BY <3>5, <3>6
  <2> HIDE DEF part
  <2>3. parts \in Seq(Seq(S)) /\ DOMAIN parts = DOMAIN s.claims
    <3> HIDE DEF S
    <3>1. parts = [c \in 1..Len(s.claims) |-> part(c)]
      BY <2>1
    <3>2. \A c \in 1..Len(s.claims) : part(c) \in Seq(S)
      BY <2>1, <2>2
    <3> QED BY <2>1, <3>1, <3>2
  <2>4. Uses(s) = FlattenSeq(parts)
    BY <1>2 DEF Uses, part
  <2> HIDE DEF parts, S
  <2>5. /\ Uses(s) \in Seq(S)
        /\ \A x : x \in Range(Uses(s)) <=> \E i \in DOMAIN parts : x \in Range(parts[i])
    BY <2>3, <2>4, Flattened
  <2>6. Len(Uses(s)) \in Nat /\ DOMAIN Uses(s) = 1..Len(Uses(s))
        /\ \A u \in DOMAIN Uses(s) : Uses(s)[u] \in S
    BY <2>5
  <2>7. \A x : x \in Range(Uses(s)) <=>
            \E c \in DOMAIN s.claims : \E e \in Range(s.claims[c].cites) :
                x = [evidence |-> e, claim |-> {s.claims[c].id}]
    <3>1. \A c \in DOMAIN s.claims : parts[c] = part(c)
      BY DEF parts
    <3> QED BY <2>2, <2>3, <2>5, <3>1
  <2>8. ASSUME NEW e, NEW x
        PROVE  (\E u \in DOMAIN Uses(s) : Uses(s)[u].evidence = e /\ x \in Uses(s)[u].claim)
                <=> (\E c \in DOMAIN s.claims : e \in Range(s.claims[c].cites)
                                                /\ x = s.claims[c].id)
    <3>1. ASSUME NEW u \in DOMAIN Uses(s), Uses(s)[u].evidence = e, x \in Uses(s)[u].claim
          PROVE  \E c \in DOMAIN s.claims : e \in Range(s.claims[c].cites)
                                            /\ x = s.claims[c].id
      <4>1. Uses(s)[u] \in Range(Uses(s))
        BY DEF Range
      <4> QED BY <2>7, <3>1, <4>1
    <3>2. ASSUME NEW c \in DOMAIN s.claims, e \in Range(s.claims[c].cites),
                 x = s.claims[c].id
          PROVE  \E u \in DOMAIN Uses(s) : Uses(s)[u].evidence = e /\ x \in Uses(s)[u].claim
      <4>1. [evidence |-> e, claim |-> {s.claims[c].id}] \in Range(Uses(s))
        BY <2>7, <3>2
      <4>2. PICK u \in DOMAIN Uses(s) :
                Uses(s)[u] = [evidence |-> e, claim |-> {s.claims[c].id}]
        BY <4>1 DEF Range
      <4> QED BY <3>2, <4>2
    <3> QED BY <3>1, <3>2
  <2>9. \A e, x : x \in {c.id : c \in {d \in Range(s.claims) : e \in Range(d.cites)}}
            <=> \E c \in DOMAIN s.claims : e \in Range(s.claims[c].cites)
                                           /\ x = s.claims[c].id
    BY DEF Range
  <2>10. \A u \in DOMAIN Uses(s) :
            \E x \in Claiming(s) : Uses(s)[u].claim = {x}
    BY <2>6 DEF S
  <2>11. ASSUME NEW u \in DOMAIN Uses(s)
         PROVE  LET claim == Uses(s)[u].claim
                IN  claim \in SUBSET Claiming(s) /\ (claim = {} \/ \E x \in claim : claim = {x})
    BY <2>10
  <2>12. \A e, x : (\E u \in DOMAIN Uses(s) :
                        Uses(s)[u].evidence = e /\ x \in Uses(s)[u].claim)
                   <=> x \in {c.id : c \in {d \in Range(s.claims) : e \in Range(d.cites)}}
    BY <2>8, <2>9
  <2> QED BY <2>6, <2>11, <2>12
<1> QED BY <1>1, <1>2

\* Noting a claim adds it to what the citation names.
LEMMA Noted ==
    ASSUME NEW E, NEW X, NEW citation \in [evidence : E, claims : Seq(X)],
           NEW claim \in SUBSET X, claim = {} \/ \E x \in claim : claim = {x}
    PROVE  /\ ClaimNoted(citation, claim) \in [evidence : E, claims : Seq(X)]
           /\ ClaimNoted(citation, claim).evidence = citation.evidence
           /\ Range(ClaimNoted(citation, claim).claims)
                = Range(citation.claims) \union claim
<1>1. SetToSeq(claim) \in Seq(X) /\ Range(SetToSeq(claim)) = claim
  BY RangeOfOne
<1>2. citation.claims \in Seq(X)
  OBVIOUS
<1>3. /\ citation.claims \o SetToSeq(claim) \in Seq(X)
      /\ Range(citation.claims \o SetToSeq(claim)) = Range(citation.claims) \union claim
  BY <1>1, <1>2, RangeOfConcat
<1>4. CASE claim = {} \/ claim \subseteq Range(citation.claims)
  <2>1. ClaimNoted(citation, claim) = citation
    BY <1>4 DEF ClaimNoted
  <2> QED BY <1>4, <2>1
<1>5. CASE ~(claim = {} \/ claim \subseteq Range(citation.claims))
  <2>1. ClaimNoted(citation, claim)
            = [citation EXCEPT !.claims = citation.claims \o SetToSeq(claim)]
    BY <1>5 DEF ClaimNoted
  <2> QED BY <1>3, <2>1
<1> QED BY <1>4, <1>5

\* After n uses there is one citation for each piece of evidence used so far,
\* and it names the claims that have used it.
Kept(s, n, cs) ==
    /\ cs \in Seq([evidence : Cited(s), claims : Seq(Claiming(s))])
    /\ \A j, k \in DOMAIN cs : cs[j].evidence = cs[k].evidence => j = k
    /\ \A u \in 1..n : \E k \in DOMAIN cs : cs[k].evidence = Uses(s)[u].evidence
    /\ \A k \in DOMAIN cs : \A x : x \in Range(cs[k].claims) <=>
            \E u \in 1..n : Uses(s)[u].evidence = cs[k].evidence /\ x \in Uses(s)[u].claim

LEMMA MarkedKeeps ==
    ASSUME NEW s, Formed(s), s.kind = "refusal" => s.claims = <<>>,
           NEW n \in Nat, NEW v, v = n + 1, v \in DOMAIN Uses(s),
           NEW cs, Kept(s, n, cs)
    PROVE  Kept(s, v, Marked(cs, Uses(s)[v]))
<1> DEFINE use == Uses(s)[v]
           S == [evidence : Cited(s), claims : Seq(Claiming(s))]
           new == Marked(cs, use)
<1>1. /\ use.claim \in SUBSET Claiming(s)
      /\ use.claim = {} \/ \E x \in use.claim : use.claim = {x}
      /\ use.evidence \in Cited(s)
  BY UsesFacts DEF Cited
<1>2. cs \in Seq(S) /\ DOMAIN cs = 1..Len(cs) /\ Len(cs) \in Nat
  BY DEF Kept
<1>3. \A u : u \in 1..v <=> u \in 1..n \/ u = v
  OBVIOUS
<1>4. \A k \in DOMAIN cs :
        /\ cs[k] \in S
        /\ ClaimNoted(cs[k], use.claim) \in S
        /\ ClaimNoted(cs[k], use.claim).evidence = cs[k].evidence
        /\ Range(ClaimNoted(cs[k], use.claim).claims) = Range(cs[k].claims) \union use.claim
  <2> SUFFICES ASSUME NEW k \in DOMAIN cs
               PROVE  /\ cs[k] \in S
                      /\ ClaimNoted(cs[k], use.claim) \in S
                      /\ ClaimNoted(cs[k], use.claim).evidence = cs[k].evidence
                      /\ Range(ClaimNoted(cs[k], use.claim).claims)
                            = Range(cs[k].claims) \union use.claim
    OBVIOUS
  <2>1. cs[k] \in S
    <3> HIDE DEF S
    <3> QED BY <1>2
  <2> HIDE DEF use
  <2> QED BY <1>1, <2>1, Noted
<1> HIDE DEF use, S
<1>5. CASE \E k \in DOMAIN cs : cs[k].evidence = use.evidence
  <2>1. new = [k \in DOMAIN cs |-> IF cs[k].evidence = use.evidence
                                   THEN ClaimNoted(cs[k], use.claim) ELSE cs[k]]
    BY <1>5 DEF Marked
  <2>2. DOMAIN new = DOMAIN cs
    BY <2>1
  <2>3. \A k \in DOMAIN cs :
            /\ new[k] \in S /\ new[k].evidence = cs[k].evidence
            /\ cs[k].evidence = use.evidence =>
                    Range(new[k].claims) = Range(cs[k].claims) \union use.claim
            /\ cs[k].evidence # use.evidence => new[k] = cs[k]
    BY <1>4, <2>1
  <2>4. new \in Seq(S)
    <3>1. new \in [1..Len(cs) -> S]
      BY <1>2, <2>1, <2>3
    <3> QED BY <1>2, <3>1
  <2> HIDE DEF new
  <2>5. \A j, k \in DOMAIN new : new[j].evidence = new[k].evidence => j = k
    BY <2>2, <2>3 DEF Kept
  <2>6. \A u \in 1..v : \E k \in DOMAIN new : new[k].evidence = Uses(s)[u].evidence
    BY <1>3, <1>5, <2>2, <2>3 DEF Kept, use
  <2>7. ASSUME NEW k \in DOMAIN new, NEW x
        PROVE  x \in Range(new[k].claims) <=>
                \E u \in 1..v : Uses(s)[u].evidence = new[k].evidence /\ x \in Uses(s)[u].claim
    <3>1. x \in Range(cs[k].claims) <=>
            \E u \in 1..n : Uses(s)[u].evidence = cs[k].evidence /\ x \in Uses(s)[u].claim
      BY <2>2 DEF Kept
    <3>2. CASE cs[k].evidence = use.evidence
      BY <1>3, <2>2, <2>3, <3>1, <3>2 DEF use
    <3>3. CASE cs[k].evidence # use.evidence
      BY <1>3, <2>2, <2>3, <3>1, <3>3 DEF use
    <3> QED BY <3>2, <3>3
  <2> QED BY <2>4, <2>5, <2>6, <2>7 DEF Kept, S, new, use
<1>6. CASE ~\E k \in DOMAIN cs : cs[k].evidence = use.evidence
  <2> DEFINE m == Len(cs) + 1
             added == [evidence |-> use.evidence, claims |-> SetToSeq(use.claim)]
  <2>1. new = Append(cs, added)
    BY <1>6 DEF Marked
  <2>2. SetToSeq(use.claim) \in Seq(Claiming(s)) /\ Range(SetToSeq(use.claim)) = use.claim
    BY <1>1, RangeOfOne
  <2>3. added \in S /\ added.evidence = use.evidence /\ Range(added.claims) = use.claim
    BY <1>1, <2>2 DEF S
  <2> HIDE DEF added
  <2>4. /\ new \in Seq(S) /\ DOMAIN new = 1..m /\ m \in Nat /\ new[m] = added
        /\ \A k \in DOMAIN cs : k \in DOMAIN new /\ new[k] = cs[k]
        /\ \A k \in DOMAIN new : k \in DOMAIN cs \/ k = m
    BY <1>2, <2>1, <2>3
  <2> HIDE DEF new, m
  <2>5. m \in DOMAIN new
    BY <1>2, <2>4 DEF m
  <2>6. \A j, k \in DOMAIN new : new[j].evidence = new[k].evidence => j = k
    BY <1>6, <2>3, <2>4 DEF Kept
  <2>7. \A u \in 1..v : \E k \in DOMAIN new : new[k].evidence = Uses(s)[u].evidence
    <3>1. new[m].evidence = use.evidence
      BY <2>3, <2>4
    <3>2. \A u \in 1..n : \E k \in DOMAIN cs : cs[k].evidence = Uses(s)[u].evidence
      BY DEF Kept
    <3>3. \A u \in 1..n : \E k \in DOMAIN new : new[k].evidence = Uses(s)[u].evidence
      BY <2>4, <3>2
    <3> QED BY <1>3, <2>5, <3>1, <3>3 DEF use
  <2>8. ASSUME NEW k \in DOMAIN new, NEW x
        PROVE  x \in Range(new[k].claims) <=>
                \E u \in 1..v : Uses(s)[u].evidence = new[k].evidence /\ x \in Uses(s)[u].claim
    <3>1. CASE k \in DOMAIN cs
      <4>1. new[k] = cs[k] /\ cs[k].evidence # use.evidence
        BY <1>6, <2>4, <3>1
      <4>2. x \in Range(cs[k].claims) <=>
                \E u \in 1..n : Uses(s)[u].evidence = cs[k].evidence /\ x \in Uses(s)[u].claim
        BY <3>1 DEF Kept
      <4> QED BY <1>3, <4>1, <4>2 DEF use
    <3>2. CASE k = m
      <4>1. \A u \in 1..n : Uses(s)[u].evidence # use.evidence
        BY <1>6 DEF Kept
      <4> QED BY <1>3, <2>3, <2>4, <3>2, <4>1 DEF use
    <3> QED BY <2>4, <3>1, <3>2
  <2> QED BY <2>4, <2>6, <2>7, <2>8 DEF Kept, S, new, use
<1> QED BY <1>5, <1>6

\* The citations of a selection are kept so from the first use to the last.
LEMMA CitationsKept ==
    ASSUME NEW s, Formed(s), s.kind = "refusal" => s.claims = <<>>
    PROVE  Kept(s, Len(Uses(s)), Citations(s))
<1> DEFINE n == Len(Uses(s))
           Run(f, m) == f = [k \in 0..m |-> IF k = 0 THEN <<>>
                                            ELSE Marked(f[k - 1], Uses(s)[k])]
           T == {m \in 0..n : \E f : Run(f, m)}
           after[k \in 0..Len(Uses(s))] ==
                IF k = 0 THEN <<>> ELSE Marked(after[k - 1], Uses(s)[k])
           G == {m \in 0..n : Kept(s, m, after[m])}
<1>1. n \in Nat /\ DOMAIN Uses(s) = 1..n /\ 0 \in 0..n /\ n \in 0..n /\ 0 \in Nat
  BY UsesFacts
<1>2. Citations(s) = after[Len(Uses(s))]
  BY DEF Citations
<1>3. 0 \in T
  <2>1. Run([k \in 0..0 |-> <<>>], 0)
    OBVIOUS
  <2> QED BY <1>1, <2>1
<1>4. ASSUME NEW m \in 0..n, m \in T, m < n PROVE m + 1 \in T
  <2>1. PICK f : Run(f, m)
    BY <1>4
  <2> DEFINE g == [k \in 0..(m + 1) |-> IF k = m + 1 THEN Marked(f[m], Uses(s)[m + 1])
                                        ELSE f[k]]
  <2>2. g = [k \in 0..(m + 1) |-> IF k = 0 THEN <<>> ELSE Marked(g[k - 1], Uses(s)[k])]
    <3> SUFFICES ASSUME NEW k \in 0..(m + 1)
                 PROVE  g[k] = IF k = 0 THEN <<>> ELSE Marked(g[k - 1], Uses(s)[k])
      OBVIOUS
    <3>1. CASE k = m + 1
      <4>1. k # 0 /\ k - 1 = m /\ m \in 0..(m + 1) /\ m # m + 1
        BY <1>1, <3>1
      <4> QED BY <3>1, <4>1
    <3>2. CASE k # m + 1
      <4>1. k \in 0..m /\ (k # 0 => k - 1 \in 0..m /\ k - 1 # m + 1 /\ k - 1 \in 0..(m + 1))
        BY <1>1, <3>2
      <4>2. f[k] = IF k = 0 THEN <<>> ELSE Marked(f[k - 1], Uses(s)[k])
        BY <2>1, <4>1
      <4> QED BY <3>2, <4>1, <4>2
    <3> QED BY <3>1, <3>2
  <2> HIDE DEF g
  <2>3. Run(g, m + 1)
    BY <2>2
  <2>4. m + 1 \in 0..n
    BY <1>1, <1>4
  <2> HIDE DEF Run
  <2> QED BY <2>3, <2>4
<1>5. \E f : Run(f, n)
  <2> HIDE DEF T, Run
  <2>1. \A m \in 0..n : m \in T
    BY <1>1, <1>3, <1>4, Induction
  <2> QED BY <1>1, <2>1 DEF T
<1>6. after = [k \in 0..n |-> IF k = 0 THEN <<>> ELSE Marked(after[k - 1], Uses(s)[k])]
  BY <1>5
<1> HIDE DEF after
<1>7. 0 \in G
  <2>1. after[0] = <<>>
    BY <1>1, <1>6
  <2>2. Kept(s, 0, <<>>)
    BY DEF Kept
  <2> QED BY <1>1, <2>1, <2>2
<1>8. ASSUME NEW m \in 0..n, m \in G, m < n PROVE m + 1 \in G
  <2>1. PICK v \in DOMAIN Uses(s) : v = m + 1 /\ m \in Nat /\ v \in 0..n /\ v # 0 /\ v - 1 = m
    BY <1>1, <1>8
  <2>2. after[v] = Marked(after[m], Uses(s)[v])
    BY <1>6, <2>1
  <2>3. Kept(s, v, after[v])
    BY <1>8, <2>1, <2>2, MarkedKeeps
  <2> QED BY <2>1, <2>3
<1>9. n \in G
  <2> HIDE DEF G
  <2>1. \A m \in 0..n : m \in G
    BY <1>1, <1>7, <1>8, Induction
  <2> QED BY <1>1, <2>1
<1> QED BY <1>2, <1>9

\* The record that names one answer renders its own selection, which was accepted.
LEMMA RenderedOf ==
    ASSUME NEW t \in Tasks, NEW n \in DOMAIN Calls[t], NEW s \in Answer(t, n).selection,
           NEW a \in Answer(t, n).rendered
    PROVE  Formed(s) /\ Fault(s, Task[t].evidence) = {} /\ a = Render(s)
<1>1. Answer(t, n).selection = Calls[t][n].selection
  BY DEF Answer, RecordOf
<1>2. Formed(s) /\ Calls[t][n].selection = {s}
  BY <1>1, CallsAssumption
<1>3. (CHOOSE c \in {s} : TRUE) = s
  OBVIOUS
<1>4. Answer(t, n).rendered = Judged(s, Task[t]).rendered
  BY <1>2, <1>3 DEF Answer, RecordOf
<1>5. a \in Judged(s, Task[t]).rendered
  BY <1>4
<1> QED BY <1>2, <1>5 DEF Judged

\* For every selection that is rendered, however often its claims cite the same
\* evidence: one citation for each piece of evidence, which names exactly the
\* claims that cite it, and every marker leads to its own (citations.py:265-289).
THEOREM CitationsExact == Spec => []CitedExactly
<1>1. ASSUME NEW s, Formed(s), s.kind = "refusal" => s.claims = <<>>
      PROVE  /\ \A u \in DOMAIN Uses(s) :
                  Render(s).citations[Render(s).markers[u]].evidence = Uses(s)[u].evidence
             /\ \A k \in DOMAIN Render(s).citations :
                  LET citation == Render(s).citations[k]
                  IN  /\ \A j \in DOMAIN Render(s).citations :
                            Render(s).citations[j].evidence = citation.evidence => j = k
                      /\ Range(citation.claims) =
                            {c.id : c \in {d \in Range(s.claims) :
                                              citation.evidence \in Range(d.cites)}}
  <2> DEFINE cs == Citations(s)
             marker(e) == CHOOSE k \in DOMAIN cs : cs[k].evidence = e
  <2>1. Kept(s, Len(Uses(s)), cs)
    BY <1>1, CitationsKept
  <2>2. Render(s).citations = cs
        /\ Render(s).markers = [u \in DOMAIN Uses(s) |-> marker(Uses(s)[u].evidence)]
    BY DEF Render
  <2>3. DOMAIN Uses(s) = 1..Len(Uses(s))
    BY <1>1, UsesFacts
  <2> HIDE DEF cs
  <2>4. ASSUME NEW u \in DOMAIN Uses(s)
        PROVE  cs[marker(Uses(s)[u].evidence)].evidence = Uses(s)[u].evidence
    <3>1. \E k \in DOMAIN cs : cs[k].evidence = Uses(s)[u].evidence
      BY <2>1, <2>3 DEF Kept
    <3> QED BY <3>1
  <2> HIDE DEF marker
  <2>5. ASSUME NEW k \in DOMAIN cs
        PROVE  Range(cs[k].claims) =
                 {c.id : c \in {d \in Range(s.claims) : cs[k].evidence \in Range(d.cites)}}
    <3>1. \A x : x \in Range(cs[k].claims) <=>
            \E u \in DOMAIN Uses(s) :
                Uses(s)[u].evidence = cs[k].evidence /\ x \in Uses(s)[u].claim
      BY <2>1, <2>3 DEF Kept
    <3> DEFINE Cites == {c.id : c \in {d \in Range(s.claims) :
                                            cs[k].evidence \in Range(d.cites)}}
    <3>2. \A x : (\E u \in DOMAIN Uses(s) :
                    Uses(s)[u].evidence = cs[k].evidence /\ x \in Uses(s)[u].claim)
                 <=> x \in Cites
      BY <1>1, UsesFacts
    <3> HIDE DEF Cites
    <3>3. \A x : x \in Range(cs[k].claims) <=> x \in Cites
      BY <3>1, <3>2
    <3>4. Range(cs[k].claims) = Cites
      BY <3>3
    <3> QED BY <3>4 DEF Cites
  <2>6. \A j, k \in DOMAIN cs : cs[j].evidence = cs[k].evidence => j = k
    BY <2>1 DEF Kept
  <2>7. \A u \in DOMAIN Uses(s) :
            Render(s).citations[Render(s).markers[u]].evidence = Uses(s)[u].evidence
    BY <2>2, <2>4
  <2> QED BY <2>2, <2>5, <2>6, <2>7
<1>2. Filed => CitedExactly
  <2> SUFFICES ASSUME Filed, NEW t \in Tasks, NEW n \in records[t],
                      NEW s \in Answer(t, n).selection, NEW a \in Answer(t, n).rendered
               PROVE  /\ \A u \in DOMAIN Uses(s) :
                            a.citations[a.markers[u]].evidence = Uses(s)[u].evidence
                      /\ \A k \in DOMAIN a.citations :
                          LET citation == a.citations[k]
                          IN  /\ \A j \in DOMAIN a.citations :
                                    a.citations[j].evidence = citation.evidence => j = k
                              /\ Range(citation.claims) =
                                    {c.id : c \in {d \in Range(s.claims) :
                                                    citation.evidence \in Range(d.cites)}}
    BY DEF CitedExactly
  <2>1. n \in DOMAIN Calls[t]
    BY DEF Filed
  <2>2. Formed(s) /\ Fault(s, Task[t].evidence) = {} /\ a = Render(s)
    BY <2>1, RenderedOf
  <2>3. s.kind = "refusal" => s.claims = <<>>
    BY <2>2 DEF Fault, RefusalFault
  <2>4. /\ \A u \in DOMAIN Uses(s) :
              Render(s).citations[Render(s).markers[u]].evidence = Uses(s)[u].evidence
        /\ \A k \in DOMAIN Render(s).citations :
              LET citation == Render(s).citations[k]
              IN  /\ \A j \in DOMAIN Render(s).citations :
                        Render(s).citations[j].evidence = citation.evidence => j = k
                  /\ Range(citation.claims) =
                        {c.id : c \in {d \in Range(s.claims) :
                                          citation.evidence \in Range(d.cites)}}
    BY <1>1, <2>2, <2>3
  <2>5. a = Render(s)
    BY <2>2
  <2> QED BY <2>4, <2>5
<1> QED BY <1>2, FiledHolds, PTL
=============================================================================
