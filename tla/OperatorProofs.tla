---------------------------- MODULE OperatorProofs ----------------------------
(***************************************************************************)
(* What the commands of the operator's desk promise, for any number of     *)
(* commands given, killed and given again, and of changes made to the files *)
(* between any two of their steps: only whole plans run, releases are audited *)
(* and evidence that was checked is true.                                  *)
(***************************************************************************)
EXTENDS OperatorCommands, SequenceTheorems, TLAPS

-----------------------------------------------------------------------------
(***************************************************************************)
(* Plans.  A content that was replaced does not come back, so what is read *)
(* of one file can be ordered; a plan is frozen from a hash and a later    *)
(* reading, and reproduced by readings later than both, so when the two plans *)
(* are equal nothing changed in between.                                   *)
(***************************************************************************)

\* One reading of a file precedes another.
Precedes(c, d) == c.n < d.n \/ c = d

ArtifactSets ==
    [inference : [n : Nat, valid : BOOLEAN],
     training : [n : Nat, clean : BOOLEAN],
     receipt : [n : Nat, training : Nat]]

\* The readings of a plan are dated, and stand in the order they were taken in.
Dated(p) ==
    /\ p.inference_hash.n \in Nat /\ p.policy.n \in Nat
    /\ p.receipt_hash.n \in Nat /\ p.claims.n \in Nat

Ordered(p) ==
    /\ Precedes(p.inference_hash, p.policy)
    /\ Precedes(p.policy, artifacts.inference)
    /\ Precedes(p.receipt_hash, p.claims)
    /\ Precedes(p.claims, artifacts.receipt)

Frozen(p) == Dated(p) /\ Ordered(p) /\ Consistent(p)

\* How many steps of the current build are done (negative before the first).
Done ==
    IF command = "prepare" THEN IF at <= 9 THEN at - 1 ELSE at - 10
    ELSE IF at <= 13 THEN at - 2 ELSE at - 14

\* A place holds one content.
HoldsOne(place, kind) == \E c \in got[place] : got[place] = {c} /\ c \in kind

\* What the current build has read, after each of its steps.
InferenceHashed ==
    /\ HoldsOne("inference_hash", [n : Nat, valid : BOOLEAN])
    /\ \A h \in got["inference_hash"] :
        /\ Precedes(h, artifacts.inference)
        /\ \A p \in got["loaded"] : Precedes(p.policy, h)

PolicyLoaded ==
    /\ HoldsOne("policy", [n : Nat, valid : BOOLEAN])
    /\ \A v \in got["policy"] :
        /\ Precedes(v, artifacts.inference)
        /\ \A h \in got["inference_hash"] : Precedes(h, v)

ReceiptHashed ==
    /\ HoldsOne("receipt_hash", [n : Nat, training : Nat])
    /\ \A r \in got["receipt_hash"] :
        /\ Precedes(r, artifacts.receipt)
        /\ \A p \in got["loaded"] : Precedes(p.claims, r)

ClaimsLoaded ==
    /\ HoldsOne("claims", [n : Nat, training : Nat])
    /\ \A c \in got["claims"] :
        /\ Precedes(c, artifacts.receipt)
        /\ \A r \in got["receipt_hash"] : Precedes(r, c)

Readings ==
    /\ Done >= 2 => InferenceHashed
    /\ Done >= 3 => PolicyLoaded
    /\ Done >= 5 => ReceiptHashed
    /\ Done >= 6 => ClaimsLoaded
    /\ Done >= 8 => Consistent(Built)

\* The running command.
Running ==
    /\ DOMAIN got = PlanPlaces /\ at \in 1..Len(Scripts[command])
    /\ \A p \in got["loaded"] : Frozen(p)
    /\ IF at <= (IF command = "prepare" THEN 9 ELSE 1)
       THEN got["loaded"] = {} ELSE \E p \in got["loaded"] : got["loaded"] = {p}
    /\ got["failed"] # {} => command # "status" /\ at = Len(Scripts[command])
    /\ command # "status" /\ got["failed"] = {} => Readings
    /\ command = "execute" /\ at >= 11 => \A p \in got["loaded"] : Whole(p)

PlanInv ==
    /\ artifacts \in ArtifactSets /\ inputs \in ArtifactSets
    /\ \A p \in plan : plan = {p} /\ Frozen(p)
    /\ Planning => Running
    /\ OnlyWholePlansRun

-----------------------------------------------------------------------------
(* The scripts, step by step *)
StepNames ==
    {"inputs", "inference_hash", "policy", "training_hash", "receipt_hash",
     "claims", "contamination", "verify", "freeze", "load", "compare",
     "training_files", "scan_again", "jobs", "report"}

LEMMA BuildScript ==
    /\ Build \in Seq(StepNames) /\ Len(Build) = 8
    /\ Build[1] = "inputs" /\ Build[2] = "inference_hash"
    /\ Build[3] = "policy" /\ Build[4] = "training_hash"
    /\ Build[5] = "receipt_hash" /\ Build[6] = "claims"
    /\ Build[7] = "contamination" /\ Build[8] = "verify"
BY DEF Build, StepNames

LEMMA BuildStepNames ==
    BuildSteps = {"inputs", "inference_hash", "policy", "training_hash",
                  "receipt_hash", "claims", "contamination", "verify"}
<1>1. DOMAIN Build = 1..8
  BY BuildScript
<1> QED BY <1>1, BuildScript DEF BuildSteps

\* One part of a script after another: s and t are parts of m and n steps.
PartOf(s, n) == s \in Seq(StepNames) /\ Len(s) = n

Follows(s, m, t, n, whole) ==
    /\ PartOf(whole, m + n)
    /\ \A i \in 1..(m + n) : whole[i] = IF i <= m THEN s[i] ELSE t[i - m]

LEMMA Joined ==
    ASSUME NEW m \in Nat, NEW n \in Nat, NEW s, NEW t,
           PartOf(s, m), PartOf(t, n)
    PROVE  Follows(s, m, t, n, s \o t)
BY ConcatProperties, Zenon DEF PartOf, Follows

LEMMA SingleSteps ==
    /\ PartOf(Build, 8)
    /\ PartOf(<<"freeze">>, 1) /\ <<"freeze">>[1] = "freeze"
    /\ PartOf(<<"load">>, 1) /\ <<"load">>[1] = "load"
    /\ PartOf(<<"report">>, 1) /\ <<"report">>[1] = "report"
BY BuildScript DEF StepNames, PartOf

LEMMA PrepareScript ==
    /\ Len(Scripts["prepare"]) = 18
    /\ \A i \in 1..18 :
        Scripts["prepare"][i] =
            IF i <= 8 THEN Build[i] ELSE IF i = 9 THEN "freeze"
            ELSE IF i <= 17 THEN Build[i - 9] ELSE "report"
<1> DEFINE freeze == <<"freeze">>
           report == <<"report">>
           s1 == Build \o freeze
           s2 == s1 \o Build
           s3 == s2 \o report
<1>1. /\ PartOf(freeze, 1) /\ freeze[1] = "freeze"
      /\ PartOf(report, 1) /\ report[1] = "report" /\ PartOf(Build, 8)
  BY SingleSteps
<1>2. Scripts["prepare"] = s3
  BY DEF Scripts
<1>3. 1 \in Nat /\ 8 \in Nat /\ 9 \in Nat /\ 17 \in Nat
  OBVIOUS
<1> HIDE DEF freeze, report
<1>4. Follows(Build, 8, freeze, 1, s1)
  BY <1>1, <1>3, Joined, Zenon
<1> HIDE DEF s1
<1>5. PartOf(s1, 9)
  BY <1>4 DEF Follows
<1>6. Follows(s1, 9, Build, 8, s2)
  BY <1>1, <1>3, <1>5, Joined, Zenon
<1> HIDE DEF s2
<1>7. PartOf(s2, 17)
  BY <1>6 DEF Follows
<1>8. Follows(s2, 17, report, 1, s3)
  BY <1>1, <1>3, <1>7, Joined, Zenon
<1> HIDE DEF s3
<1>9. Len(s3) = 18
  BY <1>8 DEF Follows, PartOf
<1> QED BY <1>1, <1>2, <1>4, <1>6, <1>8, <1>9 DEF Follows

LEMMA ExecuteScript ==
    /\ Len(Scripts["execute"]) = 22
    /\ \A i \in 1..22 :
        Scripts["execute"][i] =
            IF i = 1 THEN "load" ELSE IF i <= 9 THEN Build[i - 1]
            ELSE IF i = 10 THEN "compare" ELSE IF i = 11 THEN "training_files"
            ELSE IF i = 12 THEN "scan_again" ELSE IF i = 13 THEN "jobs"
            ELSE IF i <= 21 THEN Build[i - 13] ELSE "report"
<1> DEFINE load == <<"load">>
           report == <<"report">>
           jobs == <<"compare", "training_files", "scan_again", "jobs">>
           s1 == load \o Build
           s2 == s1 \o jobs
           s3 == s2 \o Build
           s4 == s3 \o report
<1>1. /\ PartOf(load, 1) /\ load[1] = "load"
      /\ PartOf(report, 1) /\ report[1] = "report" /\ PartOf(Build, 8)
  BY SingleSteps
<1>2. /\ PartOf(jobs, 4)
      /\ jobs[1] = "compare" /\ jobs[2] = "training_files"
      /\ jobs[3] = "scan_again" /\ jobs[4] = "jobs"
  BY DEF StepNames, PartOf
<1>3. Scripts["execute"] = s4
  BY DEF Scripts
<1>4. 1 \in Nat /\ 4 \in Nat /\ 8 \in Nat /\ 9 \in Nat /\ 13 \in Nat /\ 21 \in Nat
  OBVIOUS
<1> HIDE DEF load, report, jobs
<1>5. Follows(load, 1, Build, 8, s1)
  BY <1>1, <1>4, Joined, Zenon
<1> HIDE DEF s1
<1>6. PartOf(s1, 9)
  BY <1>5 DEF Follows
<1>7. Follows(s1, 9, jobs, 4, s2)
  BY <1>2, <1>4, <1>6, Joined, Zenon
<1> HIDE DEF s2
<1>8. PartOf(s2, 13)
  BY <1>7 DEF Follows
<1>9. Follows(s2, 13, Build, 8, s3)
  BY <1>1, <1>4, <1>8, Joined, Zenon
<1> HIDE DEF s3
<1>10. PartOf(s3, 21)
  BY <1>9 DEF Follows
<1>11. Follows(s3, 21, report, 1, s4)
  BY <1>1, <1>4, <1>10, Joined, Zenon
<1> HIDE DEF s4
<1>12. Len(s4) = 22
  BY <1>11 DEF Follows, PartOf
<1>13. \A i \in 1..22 : s4[i] = IF i <= 13 THEN s2[i]
                                ELSE IF i <= 21 THEN Build[i - 13] ELSE "report"
  BY <1>1, <1>9, <1>11 DEF Follows
<1>14. \A i \in 1..13 : s2[i] = IF i = 1 THEN "load" ELSE IF i <= 9 THEN Build[i - 1]
                                ELSE jobs[i - 9]
  BY <1>1, <1>5, <1>7 DEF Follows
<1> QED BY <1>2, <1>3, <1>12, <1>13, <1>14

LEMMA StatusScript ==
    /\ Len(Scripts["status"]) = 2
    /\ Scripts["status"][1] = "load" /\ Scripts["status"][2] = "report"
BY DEF Scripts

\* Where the running command is when it takes a step.
LEMMA StepAt ==
    ASSUME Planning, at \in 1..Len(Scripts[command])
    PROVE  /\ AtStep("inputs") => command # "status" /\ Done = 0
           /\ AtStep("inference_hash") => command # "status" /\ Done = 1
           /\ AtStep("policy") => command # "status" /\ Done = 2
           /\ AtStep("training_hash") => command # "status" /\ Done = 3
           /\ AtStep("receipt_hash") => command # "status" /\ Done = 4
           /\ AtStep("claims") => command # "status" /\ Done = 5
           /\ AtStep("contamination") => command # "status" /\ Done = 6
           /\ AtStep("verify") => command # "status" /\ Done = 7
           /\ AtStep("freeze") => command = "prepare" /\ at = 9
           /\ AtStep("load") => command # "prepare" /\ at = 1
           /\ AtStep("compare") => command = "execute" /\ at = 10
           /\ AtStep("training_files") => command = "execute" /\ at = 11
           /\ AtStep("scan_again") => command = "execute" /\ at = 12
           /\ AtStep("jobs") => command = "execute" /\ at = 13
           /\ AtStep("report") => at = Len(Scripts[command])
<1>1. command \in {"prepare", "execute", "status"}
  BY DEF Planning, Scripts
<1> DEFINE step == Scripts[command][at]
<1>b. ASSUME NEW i \in 1..8
      PROVE  \/ Build[i] = "inputs" /\ i = 1
             \/ Build[i] = "inference_hash" /\ i = 2
             \/ Build[i] = "policy" /\ i = 3
             \/ Build[i] = "training_hash" /\ i = 4
             \/ Build[i] = "receipt_hash" /\ i = 5
             \/ Build[i] = "claims" /\ i = 6
             \/ Build[i] = "contamination" /\ i = 7
             \/ Build[i] = "verify" /\ i = 8
  <2>1. i = 1 \/ i = 2 \/ i = 3 \/ i = 4 \/ i = 5 \/ i = 6 \/ i = 7 \/ i = 8
    OBVIOUS
  <2> QED BY <2>1, BuildScript, Zenon
<1>2. CASE command = "prepare"
  <2>1. at \in 1..18
    BY <1>2, PrepareScript
  <2>2. CASE Done \in 0..7
    <3>1. step = Build[Done + 1] /\ Done + 1 \in 1..8 /\ at # 9
      BY <1>2, <2>1, <2>2, PrepareScript DEF Done
    <3>2. \/ step = "inputs" /\ Done = 0
          \/ step = "inference_hash" /\ Done = 1
          \/ step = "policy" /\ Done = 2
          \/ step = "training_hash" /\ Done = 3
          \/ step = "receipt_hash" /\ Done = 4
          \/ step = "claims" /\ Done = 5
          \/ step = "contamination" /\ Done = 6
          \/ step = "verify" /\ Done = 7
      <4> DEFINE i == Done + 1
      <4>1. i \in 1..8 /\ step = Build[i] /\ Done = i - 1
        BY <2>1, <2>2, <3>1
      <4> HIDE DEF i, step
      <4> QED BY <1>b, <4>1
    <3> QED BY <1>2, <3>2 DEF AtStep
  <2>3. CASE Done \notin 0..7
    <3>0. at = 9 \/ at = 18
      BY <1>2, <2>1, <2>3 DEF Done
    <3>1. \/ step = "freeze" /\ at = 9
          \/ step = "report" /\ at = 18
      BY <1>2, <3>0, PrepareScript
    <3> QED BY <1>2, <3>1, PrepareScript DEF AtStep
  <2> QED BY <2>2, <2>3
<1>3. CASE command = "execute"
  <2>1. at \in 1..22
    BY <1>3, ExecuteScript
  <2>2. CASE Done \in 0..7
    <3>1. step = Build[Done + 1] /\ Done + 1 \in 1..8
      BY <1>3, <2>1, <2>2, ExecuteScript DEF Done
    <3>2. \/ step = "inputs" /\ Done = 0
          \/ step = "inference_hash" /\ Done = 1
          \/ step = "policy" /\ Done = 2
          \/ step = "training_hash" /\ Done = 3
          \/ step = "receipt_hash" /\ Done = 4
          \/ step = "claims" /\ Done = 5
          \/ step = "contamination" /\ Done = 6
          \/ step = "verify" /\ Done = 7
      <4> DEFINE i == Done + 1
      <4>1. i \in 1..8 /\ step = Build[i] /\ Done = i - 1
        BY <2>1, <2>2, <3>1
      <4> HIDE DEF i, step
      <4> QED BY <1>b, <4>1
    <3> QED BY <1>3, <3>2 DEF AtStep
  <2>3. CASE Done \notin 0..7
    <3>0. at = 1 \/ at = 10 \/ at = 11 \/ at = 12 \/ at = 13 \/ at = 22
      BY <1>3, <2>1, <2>3 DEF Done
    <3>1. \/ step = "load" /\ at = 1
          \/ step = "compare" /\ at = 10
          \/ step = "training_files" /\ at = 11
          \/ step = "scan_again" /\ at = 12
          \/ step = "jobs" /\ at = 13
          \/ step = "report" /\ at = 22
      BY <1>3, <3>0, ExecuteScript
    <3> QED BY <1>3, <3>1, ExecuteScript DEF AtStep
  <2> QED BY <2>2, <2>3
<1>4. CASE command = "status"
  BY <1>4, StatusScript DEF AtStep
<1> QED BY <1>1, <1>2, <1>3, <1>4

LEMMA Lengths ==
    ASSUME Planning
    PROVE  /\ command \in {"prepare", "execute", "status"}
           /\ Len(Scripts[command]) = (IF command = "prepare" THEN 18
                                       ELSE IF command = "execute" THEN 22 ELSE 2)
<1>1. command \in {"prepare", "execute", "status"}
  BY DEF Planning, Scripts
<1> QED BY <1>1, PrepareScript, ExecuteScript, StatusScript

\* The report's rebuilding is under way.
LEMMA ReportingAt ==
    ASSUME Planning, at \in 1..Len(Scripts[command]), Reporting,
           command # "status"
    PROVE  at > (IF command = "prepare" THEN 9 ELSE 13)
<1>1. CASE command = "prepare"
  BY <1>1, PrepareScript, BuildStepNames DEF Reporting
<1>2. CASE command = "execute"
  BY <1>2, ExecuteScript, BuildStepNames DEF Reporting
<1> QED BY <1>1, <1>2, Lengths

\* What one file holds comes after all that was read of it.
LEMMA PrecedesFacts ==
    ASSUME NEW a, NEW b, NEW c, a.n \in Nat, b.n \in Nat, c.n \in Nat
    PROVE  /\ Precedes(a, a)
           /\ Precedes(a, b) /\ Precedes(b, c) => Precedes(a, c)
           /\ Precedes(a, b) /\ Precedes(b, a) => a = b
BY DEF Precedes

LEMMA OneContent == ASSUME NEW c PROVE The({c}) = c
BY DEF The

-----------------------------------------------------------------------------
(* Why a plan that is reproduced is whole *)

LEMMA BuiltFields ==
    /\ Built.inference_hash = The(got["inference_hash"])
    /\ Built.policy = The(got["policy"])
    /\ Built.training_hash = The(got["training_hash"])
    /\ Built.receipt_hash = The(got["receipt_hash"])
    /\ Built.claims = The(got["claims"])
    /\ Built.contamination = The(got["contamination"])
BY DEF Built, FileOf

\* A complete build has read every place.
LEMMA AllRead ==
    ASSUME Readings, Done \in Int, Done >= 8
    PROVE  /\ \E h \in got["inference_hash"] :
                /\ got["inference_hash"] = {h} /\ h.n \in Nat
                /\ Precedes(h, artifacts.inference)
                /\ \A p \in got["loaded"] : Precedes(p.policy, h)
           /\ \E v \in got["policy"] :
                /\ got["policy"] = {v} /\ v.n \in Nat
                /\ Precedes(v, artifacts.inference)
                /\ \A h \in got["inference_hash"] : Precedes(h, v)
           /\ \E r \in got["receipt_hash"] :
                /\ got["receipt_hash"] = {r} /\ r.n \in Nat
                /\ Precedes(r, artifacts.receipt)
                /\ \A p \in got["loaded"] : Precedes(p.claims, r)
           /\ \E c \in got["claims"] :
                /\ got["claims"] = {c} /\ c.n \in Nat
                /\ Precedes(c, artifacts.receipt)
                /\ \A r \in got["receipt_hash"] : Precedes(r, c)
           /\ Consistent(Built)
<1>1. Done >= 2 /\ Done >= 3 /\ Done >= 5 /\ Done >= 6
  OBVIOUS
<1>2. InferenceHashed /\ PolicyLoaded /\ ReceiptHashed /\ ClaimsLoaded
  BY <1>1, Zenon DEF Readings
<1>3. \A c : (c \in [n : Nat, valid : BOOLEAN] => c.n \in Nat)
             /\ (c \in [n : Nat, training : Nat] => c.n \in Nat)
  OBVIOUS
<1>4. Consistent(Built)
  BY DEF Readings
<1> QED BY <1>2, <1>3, <1>4, Zenon
        DEF InferenceHashed, PolicyLoaded, ReceiptHashed, ClaimsLoaded, HoldsOne

\* The two readings of one file were taken in both orders.
LEMMA ReproducedIsWhole ==
    ASSUME Readings, Done \in Int, Done >= 8, Reproduced,
           NEW p \in got["loaded"], Dated(p)
    PROVE  Whole(p)
<1>1. p = Built /\ Consistent(p)
  BY AllRead DEF Reproduced
<1>2. PICK h \in got["inference_hash"] :
          got["inference_hash"] = {h} /\ h.n \in Nat /\ Precedes(p.policy, h)
  BY AllRead, Zenon
<1>3. PICK v \in got["policy"] :
          got["policy"] = {v} /\ v.n \in Nat /\ Precedes(h, v)
  BY <1>2, AllRead, Zenon
<1>4. p.inference_hash = h /\ p.policy = v
  BY <1>1, <1>2, <1>3, BuiltFields, OneContent, Zenon
<1>5. p.policy = p.inference_hash
  BY <1>2, <1>3, <1>4, PrecedesFacts
<1>6. PICK r \in got["receipt_hash"] :
          got["receipt_hash"] = {r} /\ r.n \in Nat /\ Precedes(p.claims, r)
  BY AllRead, Zenon
<1>7. PICK c \in got["claims"] :
          got["claims"] = {c} /\ c.n \in Nat /\ Precedes(r, c)
  BY <1>6, AllRead, Zenon
<1>8. p.receipt_hash = r /\ p.claims = c
  BY <1>1, <1>6, <1>7, BuiltFields, OneContent, Zenon
<1>9. p.claims = p.receipt_hash
  BY <1>6, <1>7, <1>8, PrecedesFacts
<1> QED BY <1>1, <1>5, <1>9, Zenon DEF Whole

\* A complete build gives a plan that can be frozen.
LEMMA BuiltIsFrozen ==
    ASSUME Readings, Done \in Int, Done >= 8
    PROVE  Frozen(Built)
<1>1. PICK h \in got["inference_hash"] :
          /\ got["inference_hash"] = {h} /\ h.n \in Nat
          /\ Precedes(h, artifacts.inference)
  BY AllRead, Zenon
<1>2. PICK v \in got["policy"] :
          /\ got["policy"] = {v} /\ v.n \in Nat /\ Precedes(h, v)
          /\ Precedes(v, artifacts.inference)
  BY <1>1, AllRead, Zenon
<1>3. PICK r \in got["receipt_hash"] :
          /\ got["receipt_hash"] = {r} /\ r.n \in Nat
          /\ Precedes(r, artifacts.receipt)
  BY AllRead, Zenon
<1>4. PICK c \in got["claims"] :
          /\ got["claims"] = {c} /\ c.n \in Nat /\ Precedes(r, c)
          /\ Precedes(c, artifacts.receipt)
  BY <1>3, AllRead, Zenon
<1>5. /\ Built.inference_hash = h /\ Built.policy = v
      /\ Built.receipt_hash = r /\ Built.claims = c
  BY <1>1, <1>2, <1>3, <1>4, BuiltFields, OneContent, Zenon
<1>6. Consistent(Built)
  BY AllRead
<1> QED BY <1>1, <1>2, <1>3, <1>4, <1>5, <1>6, Zenon DEF Frozen, Dated, Ordered

-----------------------------------------------------------------------------
(* Steps that end the command or leave it alone *)

LEMMA InitPlan == OperatorInit => PlanInv
<1> SUFFICES ASSUME OperatorInit PROVE PlanInv
  OBVIOUS
<1>1. artifacts \in ArtifactSets /\ inputs = artifacts
  BY DEF OperatorInit, PlanInit, ArtifactSets
<1>2. ~Planning
  BY DEF OperatorInit, DeskInit, Planning, Scripts
<1>3. plan = {} /\ readiness = {} /\ executed = {}
  BY DEF OperatorInit, PlanInit
<1> QED BY <1>1, <1>2, <1>3 DEF PlanInv, OnlyWholePlansRun

LEMMA PlanLeavingKeeps ==
    ASSUME PlanInv, Leave, UNCHANGED <<artifacts, inputs, plan>>,
           OnlyWholePlansRun'
    PROVE  PlanInv'
<1>1. ~Planning'
  BY DEF Leave, Planning, Scripts
<1>2. \A p : Frozen(p) => Frozen(p)'
  BY DEF Frozen, Dated, Ordered, Consistent
<1> QED BY <1>1, <1>2 DEF PlanInv

LEMMA PlanStandingKeeps ==
    ASSUME PlanInv, UNCHANGED planVars,
           UNCHANGED <<command, at, got>> \/ ~Planning'
    PROVE  PlanInv'
<1>1. \A p : Frozen(p) => Frozen(p)'
  BY DEF planVars, Frozen, Dated, Ordered, Consistent
<1>2. OnlyWholePlansRun'
  BY DEF planVars, PlanInv, OnlyWholePlansRun, Whole, Consistent
<1>3. CASE ~Planning'
  BY <1>1, <1>2, <1>3 DEF planVars, PlanInv
<1>4. CASE UNCHANGED <<command, at, got>>
  <2>1. Planning => Running'
    BY <1>1, <1>4
    DEF planVars, PlanInv, Running, Readings, InferenceHashed, PolicyLoaded,
        ReceiptHashed, ClaimsLoaded, HoldsOne, Done, Precedes, Whole,
        Consistent, Built
  <2> QED BY <1>1, <1>2, <1>4, <2>1 DEF planVars, PlanInv, Planning
<1> QED BY <1>3, <1>4

-----------------------------------------------------------------------------
(* Changes to the artifacts *)

\* What was read before still was: the file holds a later content.
LEMMA LaterContent ==
    ASSUME artifacts \in ArtifactSets, ArtifactReplaced
    PROVE  /\ artifacts' \in ArtifactSets
           /\ \A c : c.n \in Nat =>
                /\ Precedes(c, artifacts.inference)
                       => Precedes(c, artifacts.inference)'
                /\ Precedes(c, artifacts.receipt)
                       => Precedes(c, artifacts.receipt)'
<1>1. PICK file \in DOMAIN artifacts : \E content \in Replaced(file) :
          artifacts' = [artifacts EXCEPT ![file] = content]
  BY DEF ArtifactReplaced
<1>2. PICK content \in Replaced(file) :
          artifacts' = [artifacts EXCEPT ![file] = content]
  BY <1>1
<1>3. /\ DOMAIN artifacts = {"inference", "training", "receipt"}
      /\ artifacts.inference \in [n : Nat, valid : BOOLEAN]
      /\ artifacts.training \in [n : Nat, clean : BOOLEAN]
      /\ artifacts.receipt \in [n : Nat, training : Nat]
  BY DEF ArtifactSets
<1>4. CASE file = "inference"
  <2>1. content \in [n : Nat, valid : BOOLEAN] /\ content.n = artifacts.inference.n + 1
    BY <1>2, <1>3, <1>4 DEF Replaced
  <2>2. artifacts'.inference = content /\ artifacts'.receipt = artifacts.receipt
    BY <1>2, <1>3, <1>4
  <2> QED BY <1>2, <1>3, <1>4, <2>1, <2>2 DEF ArtifactSets, Precedes
<1>5. CASE file = "training"
  <2>1. content \in [n : Nat, clean : BOOLEAN]
    BY <1>2, <1>3, <1>5 DEF Replaced
  <2>2. artifacts'.inference = artifacts.inference /\ artifacts'.receipt = artifacts.receipt
    BY <1>2, <1>3, <1>5
  <2> QED BY <1>2, <1>3, <1>5, <2>1, <2>2 DEF ArtifactSets, Precedes
<1>6. CASE file = "receipt"
  <2>1. content \in [n : Nat, training : Nat] /\ content.n = artifacts.receipt.n + 1
    BY <1>2, <1>3, <1>6 DEF Replaced
  <2>2. artifacts'.inference = artifacts.inference /\ artifacts'.receipt = content
    BY <1>2, <1>3, <1>6
  <2> QED BY <1>2, <1>3, <1>6, <2>1, <2>2 DEF ArtifactSets, Precedes
<1> QED BY <1>1, <1>3, <1>4, <1>5, <1>6

LEMMA ReplacingKeeps ==
    ASSUME PlanInv, ArtifactReplaced PROVE PlanInv'
<1>1. UNCHANGED <<inputs, plan, readiness, executed, command, at, got>>
  BY DEF ArtifactReplaced, Change
<1>2. /\ artifacts' \in ArtifactSets
      /\ \A c : c.n \in Nat =>
            /\ Precedes(c, artifacts.inference) => Precedes(c, artifacts'.inference)
            /\ Precedes(c, artifacts.receipt) => Precedes(c, artifacts'.receipt)
  BY LaterContent DEF PlanInv, Precedes
<1>3. ASSUME NEW p, Frozen(p) PROVE Frozen(p)'
  BY <1>2, <1>3, Zenon DEF Frozen, Dated, Ordered, Consistent, Precedes
<1>4. OnlyWholePlansRun'
  BY <1>1 DEF PlanInv, OnlyWholePlansRun, Whole, Consistent
<1>5. ASSUME Planning PROVE Running'
  <2>1. Running
    BY <1>5 DEF PlanInv
  <2>2. Readings => Readings'
    <3>1. InferenceHashed => InferenceHashed'
      <4>1. \A h \in [n : Nat, valid : BOOLEAN] : h.n \in Nat
        OBVIOUS
      <4> QED BY <1>1, <1>2, <4>1 DEF InferenceHashed, HoldsOne, Precedes
    <3>2. PolicyLoaded => PolicyLoaded'
      BY <1>1, <1>2 DEF PolicyLoaded, HoldsOne, Precedes
    <3>3. ReceiptHashed => ReceiptHashed'
      BY <1>1, <1>2 DEF ReceiptHashed, HoldsOne, Precedes
    <3>4. ClaimsLoaded => ClaimsLoaded'
      BY <1>1, <1>2 DEF ClaimsLoaded, HoldsOne, Precedes
    <3> QED BY <1>1, <3>1, <3>2, <3>3, <3>4
            DEF Readings, Done, Consistent, Built
  <2> QED BY <1>1, <1>3, <2>1, <2>2 DEF Running, Whole, Consistent
<1> QED BY <1>1, <1>2, <1>3, <1>4, <1>5 DEF PlanInv, Planning

LEMMA RewritingKeeps ==
    ASSUME PlanInv, InputsRewritten PROVE PlanInv'
<1>1. /\ UNCHANGED <<artifacts, plan, readiness, executed, command, at, got>>
      /\ inputs' = artifacts
  BY DEF InputsRewritten, Change
<1>2. \A p : Frozen(p) => Frozen(p)'
  BY <1>1 DEF Frozen, Dated, Ordered, Consistent
<1>3. OnlyWholePlansRun'
  BY <1>1 DEF PlanInv, OnlyWholePlansRun, Whole, Consistent
<1>4. Planning => Running'
  BY <1>1, <1>2
  DEF PlanInv, Running, Readings, InferenceHashed, PolicyLoaded, ReceiptHashed,
      ClaimsLoaded, HoldsOne, Done, Precedes, Whole, Consistent, Built
<1> QED BY <1>1, <1>2, <1>3, <1>4 DEF PlanInv, Planning

-----------------------------------------------------------------------------
(* Steps of a command *)

LEMMA GivingKeeps ==
    ASSUME PlanInv, StartPlanCommand PROVE PlanInv'
<1>1. UNCHANGED planVars
  BY DEF StartPlanCommand
<1>2. PICK name \in DOMAIN Scripts : Give(name, PlanPlaces)
  BY DEF StartPlanCommand
<1>3. /\ command' = name /\ at' = 1 /\ got' = [q \in PlanPlaces |-> {}]
      /\ name \in {"prepare", "execute", "status"}
  BY <1>2 DEF Give, Scripts
<1>4. \A q \in PlanPlaces : got'[q] = {}
  BY <1>3
<1>5. got'["loaded"] = {} /\ got'["failed"] = {}
  BY <1>4 DEF PlanPlaces
<1>6. 1 \in 1..Len(Scripts[command'])
  <2>1. CASE name = "prepare"
    BY <1>3, <2>1, PrepareScript
  <2>2. CASE name = "execute"
    BY <1>3, <2>2, ExecuteScript
  <2>3. CASE name = "status"
    BY <1>3, <2>3, StatusScript
  <2> QED BY <1>3, <2>1, <2>2, <2>3
<1>7. Readings'
  BY <1>3 DEF Readings, Done
<1>8. Running'
  <2>1. DOMAIN got' = PlanPlaces /\ at' \in 1..Len(Scripts[command'])
    BY <1>3, <1>6, Zenon
  <2>2. at' <= (IF command' = "prepare" THEN 9 ELSE 1)
    BY <1>3
  <2> QED BY <1>5, <1>7, <2>1, <2>2, Zenon DEF Running
<1>9. \A p : Frozen(p) => Frozen(p)'
  BY <1>1 DEF planVars, Frozen, Dated, Ordered, Consistent
<1>10. OnlyWholePlansRun'
  BY <1>1 DEF planVars, PlanInv, OnlyWholePlansRun, Whole, Consistent
<1> QED BY <1>1, <1>8, <1>9, <1>10 DEF planVars, PlanInv

LEMMA RaisingKeeps ==
    ASSUME PlanInv, Planning, command # "status", Raise, UNCHANGED planVars
    PROVE  PlanInv'
<1>1. OnlyWholePlansRun'
  BY DEF planVars, PlanInv, OnlyWholePlansRun, Whole, Consistent
<1>2. CASE ~Reporting
  <2>1. Leave
    BY <1>2 DEF Raise
  <2> QED BY <1>1, <2>1, PlanLeavingKeeps DEF planVars
<1>3. CASE Reporting
  <2>1. /\ at' = Len(Scripts[command]) /\ command' = command
        /\ got' = [got EXCEPT !["failed"] = {TRUE}]
    BY <1>3 DEF Raise
  <2>2. Running
    BY DEF PlanInv
  <2>3. DOMAIN got = PlanPlaces /\ at \in 1..Len(Scripts[command])
    BY <2>2 DEF Running
  <2>4. got'["loaded"] = got["loaded"] /\ got'["failed"] = {TRUE}
        /\ DOMAIN got' = PlanPlaces
    BY <2>1, <2>3 DEF PlanPlaces
  <2>5. at > (IF command = "prepare" THEN 9 ELSE 13)
    BY <1>3, <2>3, ReportingAt
  <2>6. \A p : Frozen(p) => Frozen(p)'
    BY DEF planVars, Frozen, Dated, Ordered, Consistent
  <2>7. \A p : Whole(p) => Whole(p)'
    BY DEF Whole, Consistent
  <2>8. Running'
    <3>1. at' \in 1..Len(Scripts[command'])
      BY <2>1, <2>3, Lengths
    <3>2. \A p \in got'["loaded"] : Frozen(p)'
      BY <2>2, <2>4, <2>6 DEF Running
    <3>3. /\ at > (IF command = "prepare" THEN 9 ELSE 1)
          /\ at' > (IF command = "prepare" THEN 9 ELSE 1)
      BY <2>1, <2>3, <2>5, Lengths
    <3>4. \E p \in got'["loaded"] : got'["loaded"] = {p}
      BY <2>2, <2>3, <2>4, <3>3 DEF Running
    <3>5. command' = "execute" => \A p \in got'["loaded"] : Whole(p)'
      BY <2>1, <2>2, <2>3, <2>4, <2>5, <2>7 DEF Running
    <3>6. ~(at' <= (IF command' = "prepare" THEN 9 ELSE 1))
      BY <2>1, <3>1, <3>3, Lengths
    <3> QED BY <2>1, <2>4, <3>1, <3>2, <3>4, <3>5, <3>6, Zenon DEF Running
  <2> QED BY <1>1, <2>6, <2>8 DEF planVars, PlanInv
<1> QED BY <1>2, <1>3

\* A command goes on with its build.
LEMMA NextDone ==
    ASSUME Planning, command # "status", at \in 1..Len(Scripts[command]),
           Done \in 0..7, at' = at + 1, command' = command
    PROVE  /\ Done' = Done + 1 /\ at' \in 1..Len(Scripts[command])
           /\ command = "prepare" => at # 9 /\ at # 18
           /\ command = "execute" => at > 1 /\ at \notin 10..13
<1>1. CASE command = "prepare"
  <2>1. at \in 1..18
    BY <1>1, Lengths
  <2>2. at \in 1..8 \/ at \in 10..17
    BY <1>1, <2>1 DEF Done
  <2>3. Done' = Done + 1
    BY <1>1, <2>2 DEF Done
  <2>4. at' \in 1..18 /\ at # 9 /\ at # 18
    BY <2>1, <2>2
  <2> QED BY <1>1, <2>3, <2>4, Lengths
<1>2. CASE command = "execute"
  <2>1. at \in 1..22
    BY <1>2, Lengths
  <2>2. at \in 2..9 \/ at \in 14..21
    BY <1>2, <2>1 DEF Done
  <2>3. Done' = Done + 1
    BY <1>2, <2>2 DEF Done
  <2>4. at' \in 1..22 /\ at > 1 /\ at \notin 10..13
    BY <2>1, <2>2
  <2> QED BY <1>2, <2>3, <2>4, Lengths
<1> QED BY <1>1, <1>2, Lengths

LEMMA BuildingKeeps ==
    ASSUME PlanInv, Planning, command # "status", Done \in 0..7,
           UNCHANGED <<planVars, command>>, at' = at + 1,
           DOMAIN got' = PlanPlaces, got'["loaded"] = got["loaded"],
           got'["failed"] = got["failed"], Readings'
    PROVE  PlanInv'
<1>1. Running
  BY DEF PlanInv
<1>2. at \in 1..Len(Scripts[command])
  BY <1>1 DEF Running
<1>3. got["failed"] = {}
  BY <1>1, <1>2, Lengths DEF Running, Done
<1>4. \A p : Frozen(p) => Frozen(p)'
  BY DEF planVars, Frozen, Dated, Ordered, Consistent
<1>5. \A p : Whole(p) => Whole(p)'
  BY DEF Whole, Consistent
<1>6. Running'
  BY <1>1, <1>2, <1>3, <1>4, <1>5, NextDone, Lengths DEF Running
<1>7. OnlyWholePlansRun'
  BY DEF planVars, PlanInv, OnlyWholePlansRun, Whole, Consistent
<1> QED BY <1>4, <1>6, <1>7 DEF planVars, PlanInv

\* One more step of the build is done, and the others still are.
LEMMA ReadingsGrow ==
    ASSUME Readings, Done \in 0..7, Done' = Done + 1, UNCHANGED artifacts,
           NEW place, \A q \in PlanPlaces : q # place => got'[q] = got[q],
           \/ Done = 0 /\ place = "inputs"
           \/ Done = 1 /\ place = "inference_hash" /\ InferenceHashed'
           \/ Done = 2 /\ place = "policy" /\ PolicyLoaded'
           \/ Done = 3 /\ place = "training_hash"
           \/ Done = 4 /\ place = "receipt_hash" /\ ReceiptHashed'
           \/ Done = 5 /\ place = "claims" /\ ClaimsLoaded'
           \/ Done = 6 /\ place = "contamination"
           \/ Done = 7 /\ place = "verify" /\ Consistent(Built)'
    PROVE  Readings'
<1>1. /\ place # "inference_hash" => got'["inference_hash"] = got["inference_hash"]
      /\ place # "policy" => got'["policy"] = got["policy"]
      /\ place # "receipt_hash" => got'["receipt_hash"] = got["receipt_hash"]
      /\ place # "claims" => got'["claims"] = got["claims"]
      /\ got'["loaded"] = got["loaded"]
  BY BuildStepNames DEF PlanPlaces
<1>2. place # "inference_hash" /\ InferenceHashed => InferenceHashed'
  BY <1>1 DEF InferenceHashed, HoldsOne, Precedes
<1>3. place \notin {"inference_hash", "policy"} /\ PolicyLoaded => PolicyLoaded'
  BY <1>1 DEF PolicyLoaded, HoldsOne, Precedes
<1>4. place # "receipt_hash" /\ ReceiptHashed => ReceiptHashed'
  BY <1>1 DEF ReceiptHashed, HoldsOne, Precedes
<1>5. place \notin {"receipt_hash", "claims"} /\ ClaimsLoaded => ClaimsLoaded'
  BY <1>1 DEF ClaimsLoaded, HoldsOne, Precedes
<1>6. /\ Done' >= 2 => InferenceHashed'
      /\ Done' >= 3 => PolicyLoaded'
  BY <1>2, <1>3 DEF Readings
<1>7. /\ Done' >= 5 => ReceiptHashed'
      /\ Done' >= 6 => ClaimsLoaded'
  BY <1>4, <1>5 DEF Readings
<1>8. Done' >= 8 => Consistent(Built)'
  OBVIOUS
<1> QED BY <1>6, <1>7, <1>8, Zenon DEF Readings

\* Reading what a file holds now.
LEMMA TakingKeeps ==
    ASSUME PlanInv, Planning, command # "status", Done \in 0..7,
           UNCHANGED planVars, NEW place, NEW content, place \in BuildSteps,
           Take(place, {content}),
           Readings /\ Done' = Done + 1 => Readings'
    PROVE  PlanInv'
<1>1. Running
  BY DEF PlanInv
<1>2. /\ DOMAIN got = PlanPlaces /\ at \in 1..Len(Scripts[command])
      /\ at' = at + 1 /\ command' = command
      /\ got' = [got EXCEPT ![place] = {content}]
  BY <1>1 DEF Running, Take
<1>3. DOMAIN got' = PlanPlaces /\ got'["loaded"] = got["loaded"]
      /\ got'["failed"] = got["failed"]
  BY <1>2, BuildStepNames DEF PlanPlaces
<1>4. got["failed"] = {}
  BY <1>1, <1>2, Lengths DEF Running, Done
<1>5. Readings'
  BY <1>1, <1>2, <1>4, NextDone DEF Running
<1> QED BY <1>2, <1>3, <1>5, BuildingKeeps

LEMMA ReadInputsKeeps ==
    ASSUME PlanInv, ReadInputs PROVE PlanInv'
<1>1. /\ AtStep("inputs") /\ Planning /\ Take("inputs", {inputs})
      /\ UNCHANGED planVars
  BY DEF ReadInputs, AtStep
<1>2. Running /\ DOMAIN got = PlanPlaces /\ at \in 1..Len(Scripts[command])
  BY <1>1 DEF PlanInv, Running
<1>3. command # "status" /\ Done = 0 /\ "inputs" \in BuildSteps
  BY <1>1, <1>2, StepAt, BuildStepNames
<1>4. \A q \in PlanPlaces : q # "inputs" => got'[q] = got[q]
  BY <1>1, <1>2 DEF Take
<1>5. Readings /\ Done' = Done + 1 => Readings'
  BY <1>1, <1>3, <1>4, ReadingsGrow DEF planVars
<1> QED BY <1>1, <1>3, <1>5, TakingKeeps

LEMMA ReadArtifactKeeps ==
    ASSUME PlanInv, ReadArtifact PROVE PlanInv'
<1> DEFINE place == Scripts[command][at]
           content == artifacts[FileOf[place]]
<1>1. /\ Planning /\ place \in DOMAIN FileOf /\ UNCHANGED planVars
      /\ Raise \/ Take(place, {content})
  BY DEF ReadArtifact
<1>2. Running /\ DOMAIN got = PlanPlaces /\ at \in 1..Len(Scripts[command])
  BY <1>1 DEF PlanInv, Running
<1>3. /\ place \in {"inference_hash", "policy", "training_hash", "receipt_hash",
                    "claims", "contamination"}
      /\ place \in BuildSteps
  BY <1>1, BuildStepNames DEF FileOf
<1>4. \/ place = "inference_hash" /\ Done = 1
      \/ place = "policy" /\ Done = 2
      \/ place = "training_hash" /\ Done = 3
      \/ place = "receipt_hash" /\ Done = 4
      \/ place = "claims" /\ Done = 5
      \/ place = "contamination" /\ Done = 6
  BY <1>1, <1>2, <1>3, StepAt DEF AtStep
<1>5. command # "status" /\ Done \in 0..7
  BY <1>1, <1>2, <1>3, <1>4, StepAt DEF AtStep
<1>6. CASE Raise
  BY <1>1, <1>5, <1>6, RaisingKeeps
<1>7. CASE Take(place, {content})
  <2>1. \A q \in PlanPlaces : got'[q] = IF q = place THEN {content} ELSE got[q]
    BY <1>2, <1>7 DEF Take
  <2>2. /\ artifacts.inference \in [n : Nat, valid : BOOLEAN]
        /\ artifacts.receipt \in [n : Nat, training : Nat]
        /\ artifacts' = artifacts
    BY <1>1 DEF PlanInv, ArtifactSets, planVars
  <2>3. {"inference_hash", "policy", "receipt_hash", "claims", "loaded"}
            \subseteq PlanPlaces
    BY BuildStepNames DEF PlanPlaces
  <2>4. \A p \in got["loaded"] :
            /\ Precedes(p.policy, artifacts.inference)
            /\ Precedes(p.claims, artifacts.receipt)
    BY <1>2 DEF Running, Frozen, Ordered
  <2>5. ASSUME place = "inference_hash" PROVE InferenceHashed'
    <3>1. got'["inference_hash"] = {artifacts.inference}
          /\ got'["loaded"] = got["loaded"]
      BY <2>1, <2>3, <2>5 DEF FileOf
    <3> QED BY <2>2, <2>4, <3>1 DEF InferenceHashed, HoldsOne, Precedes
  <2>6. ASSUME place = "policy", Readings PROVE PolicyLoaded'
    <3>1. got'["policy"] = {artifacts.inference}
          /\ got'["inference_hash"] = got["inference_hash"]
      BY <2>1, <2>3, <2>6 DEF FileOf
    <3>2. \A h \in got["inference_hash"] : Precedes(h, artifacts.inference)
      BY <1>4, <2>6 DEF Readings, InferenceHashed
    <3> QED BY <2>2, <3>1, <3>2 DEF PolicyLoaded, HoldsOne, Precedes
  <2>7. ASSUME place = "receipt_hash" PROVE ReceiptHashed'
    <3>1. got'["receipt_hash"] = {artifacts.receipt}
          /\ got'["loaded"] = got["loaded"]
      BY <2>1, <2>3, <2>7 DEF FileOf
    <3> QED BY <2>2, <2>4, <3>1 DEF ReceiptHashed, HoldsOne, Precedes
  <2>8. ASSUME place = "claims", Readings PROVE ClaimsLoaded'
    <3>1. got'["claims"] = {artifacts.receipt}
          /\ got'["receipt_hash"] = got["receipt_hash"]
      BY <2>1, <2>3, <2>8 DEF FileOf
    <3>2. \A r \in got["receipt_hash"] : Precedes(r, artifacts.receipt)
      BY <1>4, <2>8 DEF Readings, ReceiptHashed
    <3> QED BY <2>2, <3>1, <3>2 DEF ClaimsLoaded, HoldsOne, Precedes
  <2>9. ASSUME Readings, Done' = Done + 1 PROVE Readings'
    <3> HIDE DEF place
    <3>1. \A q \in PlanPlaces : q # place => got'[q] = got[q]
      BY <2>1
    <3> QED BY <1>4, <1>5, <2>2, <2>5, <2>6, <2>7, <2>8, <2>9, <3>1, ReadingsGrow
  <2> HIDE DEF place, content
  <2> QED BY <1>1, <1>3, <1>5, <1>7, <2>9, TakingKeeps
<1> QED BY <1>1, <1>6, <1>7

LEMMA VerifyingKeeps ==
    ASSUME PlanInv, VerifyBuilt PROVE PlanInv'
<1>1. /\ AtStep("verify") /\ Planning /\ UNCHANGED planVars
      /\ Raise \/ (GoOn /\ Consistent(Built))
  BY Zenon DEF VerifyBuilt, AtStep
<1>2. Running /\ DOMAIN got = PlanPlaces /\ at \in 1..Len(Scripts[command])
  BY <1>1 DEF PlanInv, Running
<1>3. command # "status" /\ Done = 7
  BY <1>1, <1>2, StepAt
<1>4. CASE Raise
  BY <1>1, <1>3, <1>4, RaisingKeeps
<1>5. CASE GoOn /\ Consistent(Built)
  <2>1. got' = got /\ at' = at + 1 /\ command' = command /\ artifacts' = artifacts
    BY <1>1, <1>5 DEF GoOn, planVars
  <2>2. Consistent(Built)'
    BY <1>5, <2>1 DEF Built, Consistent
  <2>3. got["failed"] = {} /\ Done' = Done + 1
    BY <1>1, <1>2, <1>3, <2>1, NextDone, Lengths DEF Running, Done
  <2>4. Readings
    BY <1>2, <1>3, <2>3 DEF Running
  <2>5. Readings'
    BY <1>3, <2>1, <2>2, <2>3, <2>4, ReadingsGrow
  <2> QED BY <1>1, <1>2, <1>3, <2>1, <2>5, BuildingKeeps
<1> QED BY <1>1, <1>4, <1>5

\* What a command has loaded does not change with what it goes on to do.
LEMMA SamePlans ==
    ASSUME UNCHANGED artifacts
    PROVE  /\ \A p : Frozen(p) => Frozen(p)'
           /\ \A p : Whole(p) => Whole(p)'
BY DEF Frozen, Dated, Ordered, Consistent, Whole

LEMMA FreezingKeeps ==
    ASSUME PlanInv, Freeze PROVE PlanInv'
<1>1. /\ AtStep("freeze") /\ Planning /\ plan' = {Built}
      /\ Take("loaded", {Built})
      /\ UNCHANGED <<artifacts, inputs, readiness, executed>>
  BY DEF Freeze, AtStep
<1>2. Running /\ DOMAIN got = PlanPlaces /\ at \in 1..Len(Scripts[command])
  BY <1>1 DEF PlanInv, Running
<1>3. command = "prepare" /\ at = 9 /\ Done = 8
  BY <1>1, <1>2, StepAt DEF Done
<1>4. got["failed"] = {}
  BY <1>2, <1>3, Lengths, PrepareScript DEF Running
<1>5. Readings
  BY <1>2, <1>3, <1>4 DEF Running
<1>6. PICK b : b = Built
  OBVIOUS
<1>7. Frozen(b)
  BY <1>3, <1>5, <1>6, BuiltIsFrozen
<1>8. Frozen(b)'
  BY <1>1, <1>7, SamePlans
<1>9. /\ command' = command /\ at' = 10
      /\ got' = [got EXCEPT !["loaded"] = {b}]
  BY <1>1, <1>3, <1>6 DEF Take
<1>10. /\ DOMAIN got' = PlanPlaces /\ got'["loaded"] = {b} /\ got'["failed"] = {}
  BY <1>2, <1>4, <1>9 DEF PlanPlaces
<1>11. Readings'
  BY <1>3, <1>9 DEF Readings, Done
<1>12. at' \in 1..Len(Scripts[command']) /\ ~(at' <= 9) /\ command' = "prepare"
  BY <1>3, <1>9, PrepareScript
<1>13. Running'
  BY <1>8, <1>10, <1>11, <1>12 DEF Running
<1>14. OnlyWholePlansRun'
  BY <1>1 DEF PlanInv, OnlyWholePlansRun, Whole, Consistent
<1>15. \A p \in plan' : plan' = {p} /\ Frozen(p)'
  BY <1>1, <1>6, <1>8
<1> QED BY <1>1, <1>13, <1>14, <1>15 DEF PlanInv

LEMMA LoadingKeeps ==
    ASSUME PlanInv, LoadPlan PROVE PlanInv'
<1>1. /\ AtStep("load") /\ Planning /\ UNCHANGED planVars
      /\ Leave \/ (plan # {} /\ Take("loaded", plan))
  BY Zenon DEF LoadPlan, AtStep
<1>2. Running /\ DOMAIN got = PlanPlaces /\ at \in 1..Len(Scripts[command])
  BY <1>1 DEF PlanInv, Running
<1>3. command # "prepare" /\ at = 1
  BY <1>1, <1>2, StepAt
<1>4. OnlyWholePlansRun'
  BY <1>1 DEF PlanInv, OnlyWholePlansRun, Whole, Consistent, planVars
<1>5. CASE Leave
  BY <1>1, <1>4, <1>5, PlanLeavingKeeps DEF planVars
<1>6. CASE plan # {} /\ Take("loaded", plan)
  <2>1. /\ command' = command /\ at' = 2
        /\ got' = [got EXCEPT !["loaded"] = plan]
    BY <1>3, <1>6 DEF Take
  <2>2. DOMAIN got' = PlanPlaces /\ got'["loaded"] = plan
        /\ got'["failed"] = got["failed"]
    BY <1>2, <2>1 DEF PlanPlaces
  <2>3. got["failed"] = {}
    <3>1. at # Len(Scripts[command])
      <4>1. CASE command = "execute"
        BY <1>3, <4>1, ExecuteScript
      <4>2. CASE command = "status"
        BY <1>3, <4>2, StatusScript
      <4> QED BY <1>1, <1>3, <4>1, <4>2, Lengths, Zenon
    <3> QED BY <1>2, <3>1, Zenon DEF Running
  <2>4. \E p \in plan : plan = {p}
    BY <1>6 DEF PlanInv
  <2>5. \A p \in plan : plan = {p} /\ Frozen(p)'
    BY <1>1, SamePlans DEF PlanInv, planVars
  <2>6. Readings'
    BY <1>1, <1>3, <2>1, Lengths DEF Readings, Done
  <2>7. at' \in 1..Len(Scripts[command']) /\ ~(at' <= 1) /\ ~(at' >= 11)
        /\ command' # "prepare"
    BY <1>1, <1>3, <2>1, Lengths
  <2>8. Running'
    BY <2>2, <2>3, <2>4, <2>5, <2>6, <2>7 DEF Running
  <2> QED BY <1>1, <1>4, <2>5, <2>8 DEF PlanInv, planVars
<1> QED BY <1>1, <1>5, <1>6

\* An execution between its two builds.
LEMMA GoingOnKeeps ==
    ASSUME PlanInv, Planning, command = "execute", at \in 10..13, GoOn,
           UNCHANGED <<artifacts, inputs, plan>>, OnlyWholePlansRun',
           \A p \in got["loaded"] : Whole(p)
    PROVE  PlanInv'
<1>1. Running /\ DOMAIN got = PlanPlaces
  BY DEF PlanInv, Running
<1>2. command' = command /\ at' = at + 1 /\ got' = got
  BY DEF GoOn
<1>3. got["failed"] = {}
  BY <1>1, ExecuteScript DEF Running
<1>4. Readings
  BY <1>1, <1>3 DEF Running
<1>5. Readings'
  <2>1. CASE at = 13
    BY <1>2, <2>1 DEF Readings, Done
  <2>2. CASE at # 13
    <3>1. Done >= 8 /\ Done' >= 8 /\ Done \in Int /\ Done' \in Int
      BY <1>2, <2>2 DEF Done
    <3>2. InferenceHashed /\ PolicyLoaded /\ ReceiptHashed /\ ClaimsLoaded
          /\ Consistent(Built)
      BY <1>4, <3>1 DEF Readings
    <3>3. /\ InferenceHashed' /\ PolicyLoaded' /\ ReceiptHashed' /\ ClaimsLoaded'
          /\ Consistent(Built)'
      BY <1>2, <3>2 DEF InferenceHashed, PolicyLoaded, ReceiptHashed,
          ClaimsLoaded, HoldsOne, Precedes, Consistent, Built
    <3> QED BY <3>3, Zenon DEF Readings
  <2> QED BY <2>1, <2>2
<1>6. at' \in 1..Len(Scripts[command']) /\ ~(at' <= 1) /\ ~(at <= 1)
  BY <1>2, ExecuteScript
<1>7. Running'
  BY <1>1, <1>2, <1>3, <1>5, <1>6, SamePlans, Zenon DEF Running
<1>8. \A p \in plan' : plan' = {p} /\ Frozen(p)'
  BY SamePlans DEF PlanInv
<1> QED BY <1>7, <1>8 DEF PlanInv

LEMMA ComparingKeeps ==
    ASSUME PlanInv, Compare PROVE PlanInv'
<1>1. /\ AtStep("compare") /\ Planning /\ UNCHANGED planVars
      /\ Leave \/ (Reproduced /\ GoOn)
  BY Zenon DEF Compare, AtStep
<1>2. Running /\ at \in 1..Len(Scripts[command])
  BY <1>1 DEF PlanInv, Running
<1>3. command = "execute" /\ at = 10 /\ Done = 8
  BY <1>1, <1>2, StepAt DEF Done
<1>4. OnlyWholePlansRun'
  BY <1>1 DEF PlanInv, OnlyWholePlansRun, Whole, Consistent, planVars
<1>5. CASE Leave
  BY <1>1, <1>4, <1>5, PlanLeavingKeeps DEF planVars
<1>6. CASE Reproduced /\ GoOn
  <2>1. got["failed"] = {}
    BY <1>2, <1>3, ExecuteScript DEF Running
  <2>2. Readings /\ \A p \in got["loaded"] : Frozen(p)
    BY <1>2, <1>3, <2>1 DEF Running
  <2>3. \A p \in got["loaded"] : Whole(p)
    BY <1>3, <1>6, <2>2, ReproducedIsWhole DEF Frozen
  <2> QED BY <1>1, <1>3, <1>4, <1>6, <2>3, GoingOnKeeps DEF planVars
<1> QED BY <1>1, <1>5, <1>6

LEMMA CheckingKeeps ==
    ASSUME PlanInv, CheckTraining PROVE PlanInv'
<1>1. /\ AtStep("training_files") \/ AtStep("scan_again")
      /\ Planning /\ UNCHANGED planVars /\ (Leave \/ GoOn)
  BY Zenon DEF CheckTraining, AtStep
<1>2. Running /\ at \in 1..Len(Scripts[command])
  BY <1>1 DEF PlanInv, Running
<1>3. command = "execute" /\ at \in 11..12
  BY <1>1, <1>2, StepAt
<1>4. OnlyWholePlansRun'
  BY <1>1 DEF PlanInv, OnlyWholePlansRun, Whole, Consistent, planVars
<1>5. CASE Leave
  BY <1>1, <1>4, <1>5, PlanLeavingKeeps DEF planVars
<1>6. CASE GoOn
  <2>1. \A p \in got["loaded"] : Whole(p)
    BY <1>2, <1>3 DEF Running
  <2> QED BY <1>1, <1>3, <1>4, <1>6, <2>1, GoingOnKeeps DEF planVars
<1> QED BY <1>1, <1>5, <1>6

LEMMA SendingKeeps ==
    ASSUME PlanInv, SendJobs PROVE PlanInv'
<1>1. /\ AtStep("jobs") /\ Planning /\ (GoOn \/ Leave)
      /\ executed' = executed \union got["loaded"]
      /\ UNCHANGED <<artifacts, inputs, plan, readiness>>
  BY DEF SendJobs, AtStep
<1>2. Running /\ at \in 1..Len(Scripts[command])
  BY <1>1 DEF PlanInv, Running
<1>3. command = "execute" /\ at = 13
  BY <1>1, <1>2, StepAt
<1>4. \A p \in got["loaded"] : Whole(p)
  BY <1>2, <1>3 DEF Running
<1>5. OnlyWholePlansRun'
  BY <1>1, <1>4 DEF PlanInv, OnlyWholePlansRun, Whole, Consistent
<1>6. CASE Leave
  BY <1>1, <1>5, <1>6, PlanLeavingKeeps
<1>7. CASE GoOn
  BY <1>1, <1>3, <1>4, <1>5, <1>7, GoingOnKeeps
<1> QED BY <1>1, <1>6, <1>7

LEMMA ReportingKeeps ==
    ASSUME PlanInv, ReportReadiness PROVE PlanInv'
<1>1. /\ AtStep("report") /\ Planning /\ Leave
      /\ UNCHANGED <<artifacts, inputs, plan, executed>>
  BY DEF ReportReadiness, AtStep
<1>2. PICK status :
          /\ status # Blocked => Status # Blocked
          /\ readiness' = {[plan |-> The(got["loaded"]), status |-> status]}
  BY DEF ReportReadiness, Blocked
<1>3. Running /\ at \in 1..Len(Scripts[command])
  BY <1>1 DEF PlanInv, Running
<1>4. at = Len(Scripts[command])
  BY <1>1, <1>3, StepAt
<1>5. ASSUME Status # Blocked PROVE Whole(The(got["loaded"]))
  <2>1. command # "status" /\ got["failed"] = {} /\ Reproduced
    BY <1>5, Zenon DEF Status
  <2>2. Done = 8 /\ at > 9
    <3>1. CASE command = "prepare"
      BY <1>4, <3>1, PrepareScript DEF Done
    <3>2. CASE command = "execute"
      BY <1>4, <3>2, ExecuteScript DEF Done
    <3> QED BY <1>1, <2>1, <3>1, <3>2, Lengths
  <2>3. Readings /\ \A p \in got["loaded"] : Frozen(p)
    BY <1>3, <2>1, Zenon DEF Running
  <2>4. PICK p \in got["loaded"] : got["loaded"] = {p}
    BY <1>3, <2>2 DEF Running
  <2>5. Whole(p)
    BY <2>1, <2>2, <2>3, <2>4, ReproducedIsWhole DEF Frozen
  <2> QED BY <2>4, <2>5, OneContent
<1>6. OnlyWholePlansRun'
  <2>1. \A p \in executed' : Whole(p)'
    BY <1>1 DEF PlanInv, OnlyWholePlansRun, Whole, Consistent
  <2>2. PICK q : q = The(got["loaded"])
    OBVIOUS
  <2>3. readiness' = {[plan |-> q, status |-> status]}
        /\ (status # Blocked => Whole(q))
    BY <1>2, <1>5, <2>2
  <2>4. \A r \in readiness' : r.status # Blocked => Whole(r.plan)'
    BY <2>3 DEF Whole, Consistent
  <2> QED BY <2>1, <2>4 DEF OnlyWholePlansRun, Blocked
<1> QED BY <1>1, <1>6, PlanLeavingKeeps

-----------------------------------------------------------------------------
(* The other commands at the same desk *)

\* The steps that rewrite the store, of the free run, of the reports and of
\* people: no command of the desk moves with them.
Rewriting ==
    \/ RunBegins \/ RunEnds \/ RunDies
    \/ Preregister \/ PlanWithdrawn \/ PlanRevised
    \/ ReportBegins \/ ReportReadsMetrics \/ ReportReadsModel
    \/ ReportHashesPlan \/ ReportWrites \/ ReportDies
    \/ AssetsRebuilt \/ CodeEdited

LEMMA RewritingStands == ASSUME Rewriting PROVE UNCHANGED <<command, at, got>>
<1>1. CASE RunBegins \/ RunEnds \/ RunDies
  BY <1>1 DEF RunBegins, RunEnds, RunDies, Change, deskVars
<1>2. CASE Preregister \/ PlanWithdrawn \/ PlanRevised \/ AssetsRebuilt \/ CodeEdited
  BY <1>2 DEF Preregister, PlanWithdrawn, PlanRevised, AssetsRebuilt, CodeEdited,
              Change, deskVars
<1>3. CASE ReportBegins \/ ReportWrites \/ ReportDies
  BY <1>3 DEF ReportBegins, ReportWrites, ReportDies, Change, deskVars
<1>4. CASE ReportReadsMetrics \/ ReportReadsModel \/ ReportHashesPlan
  BY <1>4 DEF ReportReadsMetrics, ReportReadsModel, ReportHashesPlan, DraftTakes,
              deskVars
<1> QED BY <1>1, <1>2, <1>3, <1>4 DEF Rewriting

LEMMA OthersStand ==
    ASSUME EvidenceNext \/ ReleaseNext
    PROVE  UNCHANGED <<command, at, got>> \/ ~Planning'
<1> DEFINE Other(c) == c \in {"build", "verify", "certify", "audit", "export"}
<1>1. ASSUME Other(command), GoOn \/ Leave \/ \E q, content : Take(q, content)
      PROVE  ~Planning'
  BY <1>1 DEF GoOn, Leave, Take, Planning, Scripts
<1>2. ASSUME NEW name, Other(name), NEW places, Give(name, places)
      PROVE  ~Planning'
  BY <1>2 DEF Give, Planning, Scripts
<1>3. ASSUME Rewriting \/ Edit
      PROVE  UNCHANGED <<command, at, got>>
  BY <1>3, RewritingStands DEF Edit, Change
<1>4. ASSUME AnotherRoot
      PROVE  UNCHANGED <<command, at, got>>
  BY <1>4 DEF AnotherRoot, deskVars
<1>5. ASSUME StartBuild \/ StartCertify \/ StartAudit \/ StartExport
      PROVE  ~Planning'
  BY <1>2, <1>5 DEF StartBuild, StartCertify, StartAudit, StartExport
<1>6. ASSUME ReadNext \/ EmitNext \/ BuildReturns PROVE ~Planning'
  <2>1. Other(command)
    BY <1>6 DEF ReadNext, EmitNext, BuildReturns, Building
  <2>2. GoOn \/ Leave \/ \E q, content : Take(q, content)
    BY <1>6, Zenon DEF ReadNext, EmitNext, BuildReturns
  <2> QED BY <1>1, <2>1, <2>2
<1>7. ASSUME \/ LoadEvidence \/ VerifyBinding \/ LoadMetrics \/ HashBaseline
             \/ WriteCertificates \/ WriteLedger
      PROVE  ~Planning'
  <2>1. Other(command)
    BY <1>7 DEF LoadEvidence, VerifyBinding, LoadMetrics, HashBaseline,
        WriteCertificates, WriteLedger
  <2>2. GoOn \/ Leave \/ \E q, content : Take(q, content)
    BY <1>7, Zenon DEF LoadEvidence, VerifyBinding, LoadMetrics, HashBaseline,
        WriteCertificates, WriteLedger
  <2> QED BY <1>1, <2>1, <2>2
<1>8. ASSUME \/ ListFiles \/ ReadFile \/ WriteArchive \/ AuditReports
             \/ ExportReports \/ ExtractTree \/ WriteExportOk
      PROVE  ~Planning'
  <2>1. Other(command)
    BY <1>8 DEF ListFiles, ReadFile, WriteArchive, AuditReports, ExportReports,
        ExtractTree, WriteExportOk, Releasing, Judging
  <2>2. GoOn \/ Leave \/ \E q, content : Take(q, content)
    BY <1>8, Zenon DEF ListFiles, ReadFile, WriteArchive, AuditReports,
        ExportReports, ExtractTree, WriteExportOk
  <2> QED BY <1>1, <2>1, <2>2
<1> QED BY <1>3, <1>4, <1>5, <1>6, <1>7, <1>8, Zenon
        DEF EvidenceNext, Rewriting, ReleaseNext

\* An inductive invariant: what each command of matched_run.py has read comes
\* from the artifacts in the order it reads them (matched_run.py:198-376).
LEMMA PlanInvHolds == OperatorSpec => []PlanInv
<1>1. PlanInv /\ [OperatorNext]_allVars => PlanInv'
  <2> SUFFICES ASSUME PlanInv, [OperatorNext]_allVars PROVE PlanInv'
    OBVIOUS
  <2>1. CASE ArtifactReplaced
    BY <2>1, ReplacingKeeps
  <2>2. CASE InputsRewritten
    BY <2>2, RewritingKeeps
  <2>3. CASE StartPlanCommand
    BY <2>3, GivingKeeps
  <2>4. CASE ReadInputs
    BY <2>4, ReadInputsKeeps
  <2>5. CASE ReadArtifact
    BY <2>5, ReadArtifactKeeps
  <2>6. CASE VerifyBuilt
    BY <2>6, VerifyingKeeps
  <2>7. CASE Freeze
    BY <2>7, FreezingKeeps
  <2>8. CASE LoadPlan
    BY <2>8, LoadingKeeps
  <2>9. CASE Compare
    BY <2>9, ComparingKeeps
  <2>10. CASE CheckTraining
    BY <2>10, CheckingKeeps
  <2>11. CASE SendJobs
    BY <2>11, SendingKeeps
  <2>12. CASE NotSent \/ Killed
    <3>1. Leave /\ UNCHANGED planVars
      BY <2>12 DEF NotSent, Killed
    <3>2. OnlyWholePlansRun'
      BY <3>1 DEF PlanInv, OnlyWholePlansRun, Whole, Consistent, planVars
    <3> QED BY <3>1, <3>2, PlanLeavingKeeps DEF planVars
  <2>13. CASE ReportReadiness
    BY <2>13, ReportingKeeps
  <2>14. CASE (EvidenceNext \/ ReleaseNext) /\ UNCHANGED planVars
    BY <2>14, OthersStand, PlanStandingKeeps
  <2>15. CASE UNCHANGED allVars
    BY <2>15, PlanStandingKeeps DEF allVars, deskVars
  <2>16. OperatorNext \/ UNCHANGED allVars
    OBVIOUS
  <2> QED BY <2>1, <2>2, <2>3, <2>4, <2>5, <2>6, <2>7, <2>8, <2>9, <2>10,
             <2>11, <2>12, <2>13, <2>14, <2>15, <2>16, Zenon
          DEF OperatorNext, PlanNext
<1> QED BY InitPlan, <1>1, PTL DEF OperatorSpec

\* However the artifacts are replaced between the reads of a command, every plan
\* whose jobs were sent, and every plan a report calls ready, was read from one
\* state of the artifacts (matched_run.py:1175-1181, :1010-1017).
THEOREM OnlyWholePlans == OperatorSpec => []OnlyWholePlansRun
<1>1. PlanInv => OnlyWholePlansRun
  BY DEF PlanInv
<1> QED BY PlanInvHolds, <1>1, PTL

-----------------------------------------------------------------------------
(***************************************************************************)
(* Releases.  The gates of a report speak of the bytes that were read first, *)
(* those bytes are the archive, and an export goes on only with the archive *)
(* it has just judged.                                                     *)
(***************************************************************************)

\* The gates that tell whether an archive may leave.
Deciding ==
    {"secret_scan", "internal_identifier_scan", "registry_identity_scan",
     "source_shingle_overlap", "private_gold_leak", "license_inventory",
     "import_smoke"}

\* Where none of them failed, the archive holds nothing it must not.
LEMMA GatesTell ==
    ASSUME NEW members, NEW rebuilt, NEW tutorial, NEW gates,
           \A g \in Deciding : gates[g] = Gates(members, rebuilt, tutorial)[g],
           ~Failed(gates, Deciding)
    PROVE  Releasable(members)
<1> DEFINE found == Gates(members, rebuilt, tutorial)
<1>1. \A g \in Deciding : found[g] # "FAIL"
  BY DEF Failed
<1>2. found.secret_scan # "FAIL" /\ found.internal_identifier_scan # "FAIL"
      /\ found.registry_identity_scan # "FAIL"
      /\ found.source_shingle_overlap # "FAIL" /\ found.private_gold_leak # "FAIL"
      /\ found.license_inventory # "FAIL" /\ found.import_smoke # "FAIL"
  BY <1>1 DEF Deciding
<1>3. ~Holds(members, "secret") /\ ~Holds(members, "broken")
      /\ ~Named(members, "oracle") /\ Named(members, "licence")
  BY <1>2 DEF Gates, FailIf
<1>4. machine.denylist => ~Holds(members, "identifier")
  BY <1>2 DEF Gates, FailIf
<1>5. machine.registry => ~Holds(members, "name")
  BY <1>2 DEF Gates, FailIf, IfHad
<1>6. machine.corpus => ~Holds(members, "verbatim")
  BY <1>2 DEF Gates, FailIf, IfHad
<1>7. machine.oracle => ~Holds(members, "oracle")
  BY <1>2 DEF Gates, FailIf
<1> QED BY <1>3, <1>4, <1>5, <1>6, <1>7 DEF Releasable, Leaks

\* The verdict that lets an archive pass is given when no refusal applies.
LEMMA VerdictTells ==
    ASSUME NEW gates, TerminalState(gates) = "RELEASE_AUDIT_PASS_WITH_LIMITATIONS"
    PROVE  ~Failed(gates, Deciding)
<1> DEFINE refused == {i \in DOMAIN Refusals : Failed(gates, Refusals[i].gates)}
           least == CHOOSE i \in refused : \A j \in refused : i <= j
<1>1. DOMAIN Refusals = 1..5
      /\ \A i \in 1..5 : Refusals[i].state # "RELEASE_AUDIT_PASS_WITH_LIMITATIONS"
  BY DEF Refusals
<1>2. ASSUME refused # {} PROVE FALSE
  <2>1. refused \subseteq 1..5
    BY <1>1
  <2>2. \E i \in refused : \A j \in refused : i <= j
    <3>1. CASE 1 \in refused
      BY <2>1, <3>1
    <3>2. CASE 1 \notin refused /\ 2 \in refused
      BY <2>1, <3>2
    <3>3. CASE 1 \notin refused /\ 2 \notin refused /\ 3 \in refused
      BY <2>1, <3>3
    <3>4. CASE 1 \notin refused /\ 2 \notin refused /\ 3 \notin refused /\ 4 \in refused
      BY <2>1, <3>4
    <3>5. CASE refused = {5}
      BY <2>1, <3>5
    <3> QED BY <1>2, <2>1, <3>1, <3>2, <3>3, <3>4, <3>5
  <2>3. least \in refused
    BY <2>2
  <2>4. TerminalState(gates) = Refusals[least].state
    BY <1>2 DEF TerminalState
  <2> QED BY <1>1, <2>1, <2>3, <2>4
<1>3. \A i \in 1..5 : ~Failed(gates, Refusals[i].gates)
  BY <1>1, <1>2
<1>4. ~Failed(gates, Refusals[1].gates) /\ ~Failed(gates, Refusals[2].gates)
      /\ ~Failed(gates, Refusals[3].gates) /\ ~Failed(gates, Refusals[4].gates)
      /\ ~Failed(gates, Refusals[5].gates)
  BY <1>3
<1> QED BY <1>4 DEF Refusals, Failed, Deciding

\* A report that does not refuse its archive is right.
Sound(r) ==
    r.state = "RELEASE_AUDIT_PASS_WITH_LIMITATIONS" => Releasable(r.archive)

LEMMA ReportsAreSound ==
    ASSUME NEW members, NEW rebuilt, NEW tutorial, NEW gates,
           \A g \in Deciding : gates[g] = Gates(members, rebuilt, tutorial)[g]
    PROVE  Sound(ReportOf(members, gates))
<1>1. ReportOf(members, gates).archive = members
      /\ ReportOf(members, gates).state = TerminalState(gates)
  BY DEF ReportOf
<1>2. SUFFICES ASSUME TerminalState(gates) = "RELEASE_AUDIT_PASS_WITH_LIMITATIONS"
               PROVE  Releasable(members)
  BY <1>1, Zenon DEF Sound
<1>3. ~Failed(gates, Deciding)
  BY <1>2, VerdictTells
<1> QED BY <1>3, GatesTell

\* What an export that goes on may unpack.
Exportable(members) ==
    /\ Releasable(members)
    /\ machine.dataset => ~Holds(members, "private")
    /\ ~Holds(members, "invalid")

-----------------------------------------------------------------------------
(* The steps of a command *)
Ended == 2 * (Len(Order) + 2)

LEMMA StepNumbers ==
    /\ Len(Order) = 5 /\ DOMAIN Order = 1..5 /\ Ended = 14
    /\ \A n \in 1..7 : Pass(n) = 0 /\ Step(n) = n - 1
    /\ \A n \in 8..14 : Pass(n) = 1 /\ Step(n) = n - 8
    /\ \A n \in 15..17 : Pass(n) = 2
<1>1. Len(Order) = 5 /\ DOMAIN Order = 1..5
  BY DEF Order
<1>2. \A n \in 1..7 : (n - 1) \div 7 = 0 /\ (n - 1) % 7 = n - 1
  OBVIOUS
<1>3. \A n \in 8..14 : (n - 1) \div 7 = 1 /\ (n - 1) % 7 = n - 8
  OBVIOUS
<1>4. \A n \in 15..17 : (n - 1) \div 7 = 2
  OBVIOUS
<1>5. Len(Order) + 2 = 7
  BY <1>1
<1> QED BY <1>1, <1>2, <1>3, <1>4, <1>5 DEF Pass, Step, Ended

\* An export that is under way: the archive on file is the one it read, and
\* what follows the judgement is there only when no gate failed.
Exporting ==
    /\ exported.ok = {}
    /\ at <= 15 => exported.report = {}
    /\ at <= 16 => exported.tree = {}
    /\ at >= 8 => exported.archive = {got["read"]}
    /\ at >= 16 => /\ \E r \in exported.report :
                        exported.report = {r} /\ r.archive = got["read"]
                   /\ Exportable(got["read"])
    /\ at = 17 => exported.tree = {got["read"]}

RootFields == {"archive", "report", "tree", "ok"}

ReleaseInv ==
    /\ DOMAIN candidate = {"archive", "report"} /\ DOMAIN exported = RootFields
    /\ \A r \in candidate.report \union exported.report : Sound(r)
    /\ \A members \in exported.ok :
            /\ exported.tree = {members} /\ exported.archive = {members}
            /\ Exportable(members)
    /\ Releasing => /\ DOMAIN got = ReleasePlaces
                    /\ at \in 1..(IF command = "audit" THEN 15 ELSE 17)
    /\ command = "export" => Exporting

LEMMA OutsideKeeps ==
    ASSUME ReleaseInv, UNCHANGED releaseVars, ~Releasing' PROVE ReleaseInv'
<1>1. \A r : Sound(r)' <=> Sound(r)
  BY DEF Sound, Releasable, Leaks, releaseVars
<1>2. \A m : Exportable(m)' <=> Exportable(m)
  BY DEF Exportable, Releasable, Leaks, releaseVars
<1>3. candidate' = candidate /\ exported' = exported
  BY DEF releaseVars
<1> QED BY <1>1, <1>2, <1>3 DEF ReleaseInv, Releasing

LEMMA ReleaseStandingKeeps ==
    ASSUME ReleaseInv, UNCHANGED <<command, at, got, machine, candidate, exported>>
    PROVE  ReleaseInv'
<1>1. \A r : Sound(r)' <=> Sound(r)
  BY DEF Sound, Releasable, Leaks
<1>2. \A m : Exportable(m)' <=> Exportable(m)
  BY DEF Exportable, Releasable, Leaks
<1>3. Exporting' <=> Exporting
  BY <1>2 DEF Exporting
<1> QED BY <1>1, <1>2, <1>3 DEF ReleaseInv, Releasing

-----------------------------------------------------------------------------
(* The other commands at the same desk *)
PlanSide == {"prepare", "execute", "status", "none"}
EvidenceSide == {"build", "verify", "certify", "none"}

LEMMA PlanStands ==
    ASSUME PlanNext PROVE UNCHANGED <<command, at, got>> \/ command' \in PlanSide
<1>1. ASSUME Planning, GoOn \/ Leave \/ Raise \/ \E q, content : Take(q, content)
      PROVE  command' \in PlanSide
  BY <1>1 DEF GoOn, Leave, Raise, Take, Planning, Scripts, PlanSide
<1>2. CASE ArtifactReplaced \/ InputsRewritten
  BY <1>2 DEF ArtifactReplaced, InputsRewritten, Change, deskVars
<1>3. CASE StartPlanCommand
  BY <1>3 DEF StartPlanCommand, Give, Scripts, PlanSide
<1>4. CASE ReadInputs \/ Freeze \/ LoadPlan \/ ReadArtifact
  <2>1. Planning /\ (Leave \/ Raise \/ \E q, content : Take(q, content))
    BY <1>4, Zenon DEF ReadInputs, Freeze, LoadPlan, ReadArtifact, AtStep
  <2> QED BY <1>1, <2>1
<1>5. CASE VerifyBuilt \/ Compare \/ CheckTraining \/ SendJobs \/ NotSent
           \/ ReportReadiness
  <2>1. Planning /\ (GoOn \/ Leave \/ Raise)
    BY <1>5, Zenon DEF VerifyBuilt, Compare, CheckTraining, SendJobs, NotSent,
                       ReportReadiness, AtStep
  <2> QED BY <1>1, <2>1
<1> QED BY <1>2, <1>3, <1>4, <1>5, Zenon DEF PlanNext

LEMMA EvidenceStands ==
    ASSUME EvidenceNext
    PROVE  UNCHANGED <<command, at, got>> \/ command' \in EvidenceSide
<1>1. ASSUME Building \/ command = "certify",
             GoOn \/ Leave \/ \E q, content : Take(q, content)
      PROVE  command' \in EvidenceSide
  BY <1>1 DEF GoOn, Leave, Take, Building, EvidenceSide
<1>2. CASE Rewriting
  BY <1>2, RewritingStands
<1>3. CASE StartBuild \/ StartCertify
  BY <1>3 DEF StartBuild, StartCertify, Give, EvidenceSide
<1>4. CASE ReadNext \/ EmitNext \/ BuildReturns
  <2>1. Building /\ (GoOn \/ Leave \/ \E q, content : Take(q, content))
    BY <1>4, Zenon DEF ReadNext, EmitNext, BuildReturns
  <2> QED BY <1>1, <2>1
<1>5. CASE LoadEvidence \/ VerifyBinding \/ LoadMetrics \/ HashBaseline
           \/ WriteCertificates \/ WriteLedger
  <2>1. command = "certify" /\ (GoOn \/ Leave \/ \E q, content : Take(q, content))
    BY <1>5, Zenon DEF LoadEvidence, VerifyBinding, LoadMetrics, HashBaseline,
                       WriteCertificates, WriteLedger
  <2> QED BY <1>1, <2>1
<1> QED BY <1>2, <1>3, <1>4, <1>5, Zenon DEF EvidenceNext, Rewriting

-----------------------------------------------------------------------------
(* The steps of building the archive *)
LEMMA JudgedBefore ==
    UNCHANGED machine => \A m : /\ Sound(m)' <=> Sound(m)
                                /\ Exportable(m)' <=> Exportable(m)
BY DEF Sound, Exportable, Releasable, Leaks

\* A read takes the command on and leaves what was read first alone, once the
\* archive has been made of it.
ReadsOn == at <= 6 \/ (at # 7 /\ at <= 13 /\ got'["read"] = got["read"])

LEMMA ReadingGoesOn ==
    ASSUME ReleaseInv, Releasing, ReadsOn, UNCHANGED releaseVars,
           GoOn \/ \E place \in ReleasePlaces : \E content : Take(place, content)
    PROVE  ReleaseInv'
<1>1. command' = command /\ at' = at + 1 /\ DOMAIN got' = DOMAIN got
  BY DEF GoOn, Take
<1>2. at \in 1..17 /\ DOMAIN got = ReleasePlaces
  BY DEF ReleaseInv
<1>3. candidate' = candidate /\ exported' = exported /\ machine' = machine
  BY DEF releaseVars
<1>4. at' \in 1..14 /\ (at' >= 8 => at >= 8 /\ got'["read"] = got["read"])
  BY <1>1, <1>2 DEF ReadsOn
<1>5. command = "export" => Exporting'
  BY <1>1, <1>2, <1>3, <1>4 DEF ReleaseInv, Exporting
<1> QED BY <1>1, <1>2, <1>3, <1>4, <1>5, JudgedBefore DEF ReleaseInv, Releasing

LEMMA ReleaseLeavingKeeps ==
    ASSUME ReleaseInv, Leave, UNCHANGED releaseVars PROVE ReleaseInv'
BY OutsideKeeps DEF Leave, Releasing

LEMMA StepOfPass ==
    ASSUME ReleaseInv, Releasing, Pass(at) < 2
    PROVE  /\ at \in 1..14
           /\ Pass(at) = (IF at <= 7 THEN 0 ELSE 1)
           /\ Step(at) = (IF at <= 7 THEN at - 1 ELSE at - 8)
<1>1. at \in 1..17
  BY DEF ReleaseInv
<1>2. at \in 1..14
  <2>1. CASE at \in 15..17
    BY <2>1, StepNumbers
  <2> QED BY <1>1, <2>1
<1>3. CASE at \in 1..7
  BY <1>3, StepNumbers
<1>4. CASE at \in 8..14
  BY <1>4, StepNumbers
<1> QED BY <1>2, <1>3, <1>4

LEMMA ListingKeeps ==
    ASSUME ReleaseInv, ListFiles PROVE ReleaseInv'
<1>1. Releasing /\ Pass(at) < 2 /\ Step(at) = 0 /\ Take(Listed, Allowed)
      /\ UNCHANGED releaseVars
  BY DEF ListFiles
<1>2. at \in 1..14 /\ Step(at) = (IF at <= 7 THEN at - 1 ELSE at - 8)
  BY <1>1, StepOfPass
<1>3. at \in {1, 8}
  BY <1>1, <1>2
<1>4. Listed \in ReleasePlaces \ {"read"}
  BY DEF Listed, ReleasePlaces
<1>5. DOMAIN got = ReleasePlaces
  BY <1>1 DEF ReleaseInv
<1>6. got'["read"] = got["read"]
  BY <1>1, <1>4, <1>5 DEF Take, ReleasePlaces
<1>7. ReadsOn
  BY <1>3, <1>6 DEF ReadsOn
<1> QED BY <1>1, <1>4, <1>7, ReadingGoesOn

LEMMA ReadingKeeps ==
    ASSUME ReleaseInv, ReadFile PROVE ReleaseInv'
<1>1. Releasing /\ Pass(at) < 2 /\ Step(at) \in 1..5 /\ UNCHANGED releaseVars
  BY StepNumbers DEF ReadFile
<1>2. GoOn \/ Leave \/ \E content : Take(Blobs, content)
  BY Zenon DEF ReadFile
<1>3. at \in 1..14 /\ Step(at) = (IF at <= 7 THEN at - 1 ELSE at - 8)
      /\ Pass(at) = (IF at <= 7 THEN 0 ELSE 1)
  BY <1>1, StepOfPass
<1>4. at \in 2..6 \/ at \in 9..13
  BY <1>1, <1>3
<1>5. CASE Leave
  BY <1>1, <1>5, ReleaseLeavingKeeps
<1>6. CASE GoOn
  <2>1. ReadsOn
    BY <1>4, <1>6 DEF ReadsOn, GoOn
  <2> QED BY <1>1, <1>6, <2>1, ReadingGoesOn
<1>7. CASE \E content : Take(Blobs, content)
  <2>1. Blobs \in ReleasePlaces
    BY DEF Blobs, ReleasePlaces
  <2>2. CASE at \in 2..6
    <3>1. ReadsOn
      BY <2>2 DEF ReadsOn
    <3> QED BY <1>1, <1>7, <2>1, <3>1, ReadingGoesOn
  <2>3. CASE at \in 9..13
    <3>1. Blobs = "read_again"
      BY <1>3, <2>3 DEF Blobs
    <3>2. DOMAIN got = ReleasePlaces
      BY <1>1 DEF ReleaseInv
    <3>3. got'["read"] = got["read"]
      BY <1>7, <3>1, <3>2 DEF Take, ReleasePlaces
    <3>4. ReadsOn
      BY <2>3, <3>3 DEF ReadsOn
    <3> QED BY <1>1, <1>7, <2>1, <3>4, ReadingGoesOn
  <2> QED BY <1>4, <2>2, <2>3
<1> QED BY <1>2, <1>5, <1>6, <1>7

LEMMA ArchivingKeeps ==
    ASSUME ReleaseInv, WriteArchive PROVE ReleaseInv'
<1>1. Releasing /\ Pass(at) < 2 /\ Step(at) = 6 /\ GoOn /\ machine' = machine
  BY StepNumbers DEF WriteArchive
<1>2. at \in {7, 14} /\ (Pass(at) = 0 <=> at = 7)
  BY <1>1, StepOfPass
<1>3. DOMAIN candidate' = {"archive", "report"} /\ candidate'.report = candidate.report
  BY DEF WriteArchive, ReleaseInv
<1>4. exported' = IF command = "export" /\ at = 7
                  THEN [exported EXCEPT !.archive = {got["read"]}] ELSE exported
  BY <1>2 DEF WriteArchive
<1>5. DOMAIN exported' = RootFields /\ exported'.report = exported.report
      /\ exported'.tree = exported.tree /\ exported'.ok = exported.ok
  BY <1>4 DEF ReleaseInv, RootFields
<1>6. command' = command /\ got' = got /\ at' = at + 1
  BY <1>1 DEF GoOn
<1>7. ASSUME command = "export" PROVE Exporting'
  <2>1. Exporting /\ DOMAIN exported = RootFields
    BY <1>7 DEF ReleaseInv
  <2>2. exported'.archive = {got["read"]}
    BY <1>2, <1>4, <1>7, <2>1 DEF Exporting, RootFields
  <2> QED BY <1>2, <1>5, <1>6, <2>1, <2>2 DEF Exporting
<1>8. exported'.ok # {} => exported' = exported
  BY <1>4, <1>5 DEF ReleaseInv, Exporting
<1>9. ASSUME NEW members \in exported'.ok
      PROVE  /\ exported'.tree = {members} /\ exported'.archive = {members}
             /\ Exportable(members)
  BY <1>8, <1>9 DEF ReleaseInv
<1> QED BY <1>1, <1>2, <1>3, <1>5, <1>6, <1>7, <1>9, JudgedBefore
        DEF ReleaseInv, Releasing

-----------------------------------------------------------------------------
(* The judgement, and what follows it *)
LEMMA AuditKeeps ==
    ASSUME ReleaseInv, AuditReports PROVE ReleaseInv'
<1>1. Leave /\ exported' = exported /\ machine' = machine
  BY DEF AuditReports
<1>2. PICK tutorial : candidate' = [candidate EXCEPT !.report =
            {ReportOf(got["read"], Gates(got["read"], got["read_again"], tutorial))}]
  BY DEF AuditReports
<1>3. DOMAIN candidate' = {"archive", "report"}
      /\ \A r \in candidate'.report : Sound(r)
  BY <1>2, ReportsAreSound DEF ReleaseInv
<1> QED BY <1>1, <1>3, JudgedBefore DEF ReleaseInv, Leave, Releasing

\* What the gates of a report say that lets the export go on.
LEMMA ExportsAreJudged ==
    ASSUME machine \in Machines, NEW tutorial,
           ~Holds(got["read"], "invalid"),
           MayExport(ReportOf(got["read"], AllGates(tutorial)))
    PROVE  Exportable(got["read"])
<1> DEFINE first == Gates(got["read"], got["read_again"], tutorial)
           more == ExportGates(got["read"])
           gates == AllGates(tutorial)
<1>1. gates = [g \in DOMAIN first \union DOMAIN more |->
                  IF g \in DOMAIN first THEN first[g] ELSE more[g]]
  BY Zenon DEF AllGates
<1>2. Deciding \subseteq DOMAIN first
  BY DEF Gates, Deciding
<1>3. \A g \in Deciding : gates[g] = first[g]
  BY <1>1, <1>2
<1>4. ReportOf(got["read"], gates).gates = gates
  BY DEF ReportOf
<1>5. \A g \in DOMAIN gates : gates[g] # "FAIL"
  BY <1>4 DEF MayExport, Failed
<1>6. ~Failed(gates, Deciding)
  BY <1>1, <1>2, <1>5 DEF Failed
<1>7. Releasable(got["read"])
  BY <1>3, <1>6, GatesTell
<1>8. "v3_private_instances" \in DOMAIN more /\ "v3_private_instances" \notin DOMAIN first
      /\ more["v3_private_instances"] =
            IfHad(machine.dataset, FailIf(Holds(got["read"], "private")))
  BY DEF Gates, ExportGates
<1>9. IfHad(machine.dataset, FailIf(Holds(got["read"], "private"))) # "FAIL"
  BY <1>1, <1>5, <1>8
<1>10. machine.dataset => ~Holds(got["read"], "private")
  BY <1>9 DEF IfHad, FailIf
<1> QED BY <1>7, <1>10 DEF Exportable

LEMMA AllGatesDecide ==
    ASSUME NEW tutorial, NEW g \in Deciding
    PROVE  AllGates(tutorial)[g] = Gates(got["read"], got["read_again"], tutorial)[g]
<1> DEFINE first == Gates(got["read"], got["read_again"], tutorial)
           more == ExportGates(got["read"])
<1>1. AllGates(tutorial) = [h \in DOMAIN first \union DOMAIN more |->
                  IF h \in DOMAIN first THEN first[h] ELSE more[h]]
  BY Zenon DEF AllGates
<1>2. g \in DOMAIN first
  BY DEF Gates, Deciding
<1> QED BY <1>1, <1>2

LEMMA ExportKeeps ==
    ASSUME ReleaseInv, machine \in Machines, ExportReports PROVE ReleaseInv'
<1>1. at = 15 /\ command = "export" /\ Exporting /\ DOMAIN got = ReleasePlaces
      /\ candidate' = candidate /\ machine' = machine
  BY StepNumbers DEF ExportReports, Judging, Ended, ReleaseInv
<1>2. CASE Leave /\ exported' = exported
  BY <1>1, <1>2, JudgedBefore DEF ReleaseInv, Leave, Releasing
<1>3. CASE ~Holds(got["read"], "invalid") /\ ~(Leave /\ exported' = exported)
  <2>1. PICK tutorial :
            LET report == ReportOf(got["read"], AllGates(tutorial))
            IN  /\ exported' = [exported EXCEPT !.report = {report}]
                /\ IF MayExport(report) THEN GoOn ELSE Leave
    BY <1>3, Zenon DEF ExportReports
  <2> DEFINE report == ReportOf(got["read"], AllGates(tutorial))
  <2>2. Sound(report)
    BY AllGatesDecide, ReportsAreSound
  <2>3. DOMAIN exported' = RootFields /\ exported'.report = {report}
        /\ exported'.archive = exported.archive /\ exported'.tree = exported.tree
        /\ exported'.ok = {}
    BY <1>1, <2>1 DEF ReleaseInv, RootFields, Exporting
  <2>4. report.archive = got["read"]
    BY DEF ReportOf
  <2>5. CASE Leave
    BY <1>1, <2>2, <2>3, <2>5, JudgedBefore DEF ReleaseInv, Leave, Releasing
  <2>6. CASE MayExport(report) /\ GoOn
    <3>1. Exportable(got["read"])
      BY <1>3, <2>6, ExportsAreJudged
    <3>2. command' = "export" /\ got' = got /\ at' = 16
      BY <1>1, <2>6 DEF GoOn
    <3>3. Exporting'
      BY <1>1, <2>3, <2>4, <3>1, <3>2, JudgedBefore DEF Exporting
    <3> QED BY <1>1, <2>2, <2>3, <3>2, <3>3, JudgedBefore
            DEF ReleaseInv, Releasing
  <2> QED BY <2>1, <2>5, <2>6
<1> QED BY <1>2, <1>3, Zenon DEF ExportReports

LEMMA ExtractingKeeps ==
    ASSUME ReleaseInv, ExtractTree PROVE ReleaseInv'
<1>1. at = 16 /\ command = "export" /\ Exporting /\ DOMAIN got = ReleasePlaces
      /\ candidate' = candidate /\ machine' = machine
      /\ command' = command /\ got' = got /\ at' = 17
  <2>1. at = 16
    BY StepNumbers DEF ExtractTree
  <2>2. command = "export" /\ GoOn /\ candidate' = candidate /\ machine' = machine
    BY DEF ExtractTree
  <2>3. Exporting /\ DOMAIN got = ReleasePlaces
    BY <2>2 DEF ReleaseInv, Releasing
  <2> QED BY <2>1, <2>2, <2>3 DEF GoOn
<1>2. exported' = [exported EXCEPT !.tree = exported.tree \union exported.archive]
  BY DEF ExtractTree
<1>3. DOMAIN exported' = RootFields /\ exported'.tree = {got["read"]}
      /\ exported'.archive = exported.archive /\ exported'.report = exported.report
      /\ exported'.ok = {}
  BY <1>1, <1>2 DEF ReleaseInv, RootFields, Exporting
<1>4. Exporting'
  BY <1>1, <1>3, JudgedBefore DEF Exporting
<1> QED BY <1>1, <1>3, <1>4, JudgedBefore DEF ReleaseInv, Releasing

LEMMA ConfirmingKeeps ==
    ASSUME ReleaseInv, WriteExportOk PROVE ReleaseInv'
<1>1. at = 17 /\ command = "export" /\ Exporting /\ Leave
      /\ candidate' = candidate /\ machine' = machine
  BY StepNumbers DEF WriteExportOk, Ended, ReleaseInv
<1>2. exported' = [exported EXCEPT !.ok = {r.archive : r \in exported.report}]
  BY DEF WriteExportOk
<1>3. {r.archive : r \in exported.report} = {got["read"]}
  BY <1>1 DEF Exporting
<1>4. DOMAIN exported' = RootFields /\ exported'.tree = exported.tree
      /\ exported'.archive = exported.archive /\ exported'.report = exported.report
      /\ exported'.ok = {got["read"]}
  BY <1>2, <1>3 DEF ReleaseInv, RootFields
<1>5. \A members \in exported'.ok :
        exported'.tree = {members} /\ exported'.archive = {members}
        /\ Exportable(members)
  BY <1>1, <1>4 DEF Exporting
<1> QED BY <1>1, <1>4, <1>5, JudgedBefore DEF ReleaseInv, Leave, Releasing

-----------------------------------------------------------------------------
LEMMA InitRelease == OperatorInit => ReleaseInv
BY DEF OperatorInit, DeskInit, ReleaseInit, ReleaseInv, EmptyOut, EmptyRoot,
       RootFields, Releasing

LEMMA StartingKeeps ==
    ASSUME ReleaseInv, StartAudit \/ StartExport PROVE ReleaseInv'
<1>1. command' \in {"audit", "export"} /\ at' = 1 /\ DOMAIN got' = ReleasePlaces
      /\ exported' = exported /\ candidate' = candidate /\ machine' = machine
  BY DEF StartAudit, StartExport, Give, releaseVars
<1>2. command' = "export" => exported = EmptyRoot
  BY DEF StartAudit, StartExport, Give
<1>3. command' = "export" => Exporting'
  BY <1>1, <1>2 DEF Exporting, EmptyRoot
<1> QED BY <1>1, <1>3, JudgedBefore DEF ReleaseInv, Releasing

LEMMA ClearingKeeps ==
    ASSUME ReleaseInv, AnotherRoot PROVE ReleaseInv'
<1>1. command' = "none" /\ exported' = EmptyRoot /\ candidate' = candidate
      /\ machine' = machine
  BY DEF AnotherRoot, deskVars
<1> QED BY <1>1, JudgedBefore DEF ReleaseInv, EmptyRoot, RootFields, Releasing

\* An inductive invariant: what an export that is under way has on file comes
\* from what it read first (banking_v3/release.py:17).
LEMMA ReleaseInvHolds == OperatorSpec => [](ReleaseInv /\ machine \in Machines)
<1> DEFINE Inv == ReleaseInv /\ machine \in Machines
<1>1. OperatorInit => Inv
  BY InitRelease DEF OperatorInit, ReleaseInit
<1>2. Inv /\ [OperatorNext]_allVars => Inv'
  <2> SUFFICES ASSUME Inv, [OperatorNext]_allVars PROVE Inv'
    OBVIOUS
  <2>1. machine' = machine
    BY Zenon DEF OperatorNext, ReleaseNext, Edit, AnotherRoot, StartAudit,
        StartExport, ListFiles, ReadFile, WriteArchive, AuditReports,
        ExportReports, ExtractTree, WriteExportOk, Killed, releaseVars, allVars
  <2>2. CASE PlanNext /\ UNCHANGED releaseVars
    <3>1. UNCHANGED <<machine, candidate, exported>>
      BY <2>2 DEF releaseVars
    <3>2. CASE UNCHANGED <<command, at, got>>
      BY <3>1, <3>2, <2>1, ReleaseStandingKeeps
    <3>3. CASE command' \in PlanSide
      BY <2>1, <2>2, <3>3, OutsideKeeps DEF PlanSide, Releasing
    <3> QED BY <2>2, <3>2, <3>3, PlanStands
  <2>3. CASE EvidenceNext /\ UNCHANGED releaseVars
    <3>1. UNCHANGED <<machine, candidate, exported>>
      BY <2>3 DEF releaseVars
    <3>2. CASE UNCHANGED <<command, at, got>>
      BY <3>1, <3>2, <2>1, ReleaseStandingKeeps
    <3>3. CASE command' \in EvidenceSide
      BY <2>1, <2>3, <3>3, OutsideKeeps DEF EvidenceSide, Releasing
    <3> QED BY <2>3, <3>2, <3>3, EvidenceStands
  <2>4. CASE Killed
    BY <2>1, <2>4, ReleaseLeavingKeeps DEF Killed
  <2>5. CASE Edit
    BY <2>1, <2>5, ReleaseStandingKeeps DEF Edit, Change
  <2>6. CASE AnotherRoot
    BY <2>1, <2>6, ClearingKeeps
  <2>7. CASE StartAudit \/ StartExport
    BY <2>1, <2>7, StartingKeeps
  <2>8. CASE ListFiles
    BY <2>1, <2>8, ListingKeeps
  <2>9. CASE ReadFile
    BY <2>1, <2>9, ReadingKeeps
  <2>10. CASE WriteArchive
    BY <2>1, <2>10, ArchivingKeeps
  <2>11. CASE AuditReports
    BY <2>1, <2>11, AuditKeeps
  <2>12. CASE ExportReports
    BY <2>1, <2>12, ExportKeeps
  <2>13. CASE ExtractTree
    BY <2>1, <2>13, ExtractingKeeps
  <2>14. CASE WriteExportOk
    BY <2>1, <2>14, ConfirmingKeeps
  <2>15. CASE UNCHANGED allVars
    BY <2>1, <2>15, ReleaseStandingKeeps DEF allVars, deskVars, releaseVars
  <2>16. OperatorNext \/ UNCHANGED allVars
    OBVIOUS
  <2> QED BY <2>2, <2>3, <2>4, <2>5, <2>6, <2>7, <2>8, <2>9, <2>10, <2>11,
             <2>12, <2>13, <2>14, <2>15, <2>16, Zenon DEF OperatorNext, ReleaseNext
<1> QED BY <1>1, <1>2, PTL DEF OperatorSpec

\* However files are edited between two reads and commands killed between two
\* writes: a report that does not refuse an archive is right about it, and an
\* EXPORT-OK stands only beside the whole tree of an archive that may leave
\* (build_release_candidate.py:495-553, banking_v3/release.py:17).
THEOREM ReleasesAudited == OperatorSpec => []ReleasesAreAudited
<1>1. ReleaseInv => ReleasesAreAudited
  <2> SUFFICES ASSUME ReleaseInv PROVE ReleasesAreAudited
    OBVIOUS
  <2>1. \A r \in candidate.report \union exported.report :
            r.state = "RELEASE_AUDIT_PASS_WITH_LIMITATIONS" => Releasable(r.archive)
    BY DEF ReleaseInv, Sound
  <2>2. \A members \in exported.ok :
            /\ exported.tree = {members} /\ exported.archive = {members}
            /\ Releasable(members)
            /\ machine.dataset => ~Holds(members, "private")
            /\ ~Holds(members, "invalid")
    BY DEF ReleaseInv, Exportable
  <2> QED BY <2>1, <2>2 DEF ReleasesAreAudited
<1> QED BY <1>1, ReleaseInvHolds, PTL

-----------------------------------------------------------------------------
(***************************************************************************)
(* Evidence.  Configurations and plans never come back, so they are        *)
(* ordered: what --verify compares was read before its hashes and is found *)
(* equal to what it reads after them; the hash, taken in between, is then  *)
(* of that content too.  Metrics do come back, but while a configuration   *)
(* stays its run writes them at most once: metrics hashed, loaded and      *)
(* hashed again under one configuration, with equal hashes, never changed. *)
(***************************************************************************)

Older(c, d) == c.run < d.run \/ c = d

LEMMA OlderBothWays ==
    ASSUME NEW c, NEW d, c.run \in Nat, d.run \in Nat, Older(c, d), Older(d, c)
    PROVE  c = d
BY DEF Older

\* A plan that was on file, a configuration that was in the store, and the plan
\* that a report in the store named.
FiledPlan(x) ==
    x \in Nat /\ x <= latest.plan /\ \A n \in store["preregistration"] : x <= n

PastConfig(k) == k.run \in Nat /\ \A c \in store["config"] : Older(k, c)

ReportedPlan(x) == x \in Nat /\ \A r \in store["report"] : x <= r.plan

\* The metrics were hashed as h after the configuration was k: while k stays
\* and its run goes on, they are the same.
Hashed(k, h) ==
    store["config"] = {k} /\ running => store["metrics"] = {h}

\* ... and they were loaded as t after that.
Loaded(k, h, t) ==
    store["config"] = {k} => t = h \/ (~running /\ store["metrics"] = {t})

StoreFiles == {"preregistration", "config", "metrics", "report", "code"}
DraftPlaces == {"id", "metrics", "unsafe", "plan"}

StoreInv ==
    /\ DOMAIN store = StoreFiles /\ DOMAIN draft = DraftPlaces
    /\ latest \in [run : Nat, plan : Nat] /\ rewrites \in Nat
    /\ \E c : store["config"] = {c} /\ c.run = latest.run
    /\ \E m : store["metrics"] = {m}
    /\ \A n \in store["preregistration"] :
           store["preregistration"] = {n} /\ n \in Nat /\ n <= latest.plan
    /\ \E r : store["report"] = {r} /\ FiledPlan(r.plan)
    /\ \A n \in draft["plan"] :
           /\ draft["plan"] = {n} /\ FiledPlan(n)
           /\ \A r \in store["report"] : r.plan <= n

\* What was true of the past stays so.
Ages ==
    /\ \A x : FiledPlan(x) => FiledPlan(x)'
    /\ \A x : ReportedPlan(x) => ReportedPlan(x)'
    /\ \A k : PastConfig(k) =>
           /\ PastConfig(k)'
           /\ store'["config"] = {k} => store["config"] = {k}
           /\ \A h : Hashed(k, h) => Hashed(k, h)'
           /\ \A h, t : Loaded(k, h, t) => Loaded(k, h, t)'

ReportGoesOn ==
    \/ ReportBegins \/ ReportReadsMetrics \/ ReportReadsModel
    \/ ReportHashesPlan \/ ReportWrites \/ ReportDies

World ==
    \/ RunBegins \/ RunEnds \/ RunDies
    \/ Preregister \/ PlanWithdrawn \/ PlanRevised
    \/ ReportGoesOn \/ AssetsRebuilt \/ CodeEdited

LEMMA StandingAges ==
    ASSUME StoreInv, UNCHANGED <<storeVars, rewrites>> PROVE StoreInv' /\ Ages
<1>1. UNCHANGED <<store, running, draft, latest, rewrites>>
  BY DEF storeVars
<1>2. Ages
  BY <1>1 DEF Ages, FiledPlan, ReportedPlan, PastConfig, Hashed, Loaded
<1>3. StoreInv'
  BY <1>1 DEF StoreInv, FiledPlan
<1> QED BY <1>2, <1>3

\* The parts of StoreInv and Ages that a change of one file leaves alone.
LEMMA PlansStand ==
    ASSUME StoreInv, UNCHANGED <<draft, latest>>,
           store'["preregistration"] = store["preregistration"],
           store'["report"] = store["report"]
    PROVE  /\ \A x : FiledPlan(x) => FiledPlan(x)'
           /\ \A x : ReportedPlan(x) => ReportedPlan(x)'
           /\ \E r : store'["report"] = {r} /\ FiledPlan(r.plan)'
           /\ \A n \in draft'["plan"] :
                  /\ draft'["plan"] = {n} /\ FiledPlan(n)'
                  /\ \A r \in store'["report"] : r.plan <= n
           /\ \A n \in store'["preregistration"] :
                  /\ store'["preregistration"] = {n}
                  /\ n \in Nat /\ n <= latest'.plan
BY DEF StoreInv, FiledPlan, ReportedPlan

LEMMA RunsStand ==
    ASSUME StoreInv, running' = running, latest'.run = latest.run,
           store'["config"] = store["config"], store'["metrics"] = store["metrics"]
    PROVE  /\ \A k : PastConfig(k) =>
                  /\ PastConfig(k)'
                  /\ store'["config"] = {k} => store["config"] = {k}
                  /\ \A h : Hashed(k, h) => Hashed(k, h)'
                  /\ \A h, t : Loaded(k, h, t) => Loaded(k, h, t)'
           /\ \E c : store'["config"] = {c} /\ c.run = latest'.run
           /\ \E m : store'["metrics"] = {m}
BY DEF StoreInv, PastConfig, Hashed, Loaded

\* A run changes the configuration when it begins and the metrics when it ends.
LEMMA RunsAge ==
    ASSUME StoreInv, RunBegins \/ RunEnds \/ RunDies PROVE StoreInv' /\ Ages
<1>1. DOMAIN store = StoreFiles /\ latest \in [run : Nat, plan : Nat]
      /\ rewrites \in Nat /\ DOMAIN draft = DraftPlaces
  BY DEF StoreInv
<1>2. PICK d, m : store["config"] = {d} /\ d.run = latest.run
            /\ store["metrics"] = {m}
  BY DEF StoreInv
<1>3. draft' = draft
  BY DEF RunBegins, RunEnds, RunDies
<1>4. CASE RunBegins
  <2>1. running' /\ latest' = [latest EXCEPT !.run = latest.run + 1]
        /\ rewrites' = rewrites
    BY <1>4 DEF RunBegins, othersVars
  <2>2. PICK c : store' = [store EXCEPT !["config"] = {c}] /\ c.run = latest'.run
    <3>1. PICK unsafe \in BOOLEAN : store' = [store EXCEPT !["config"] =
                {ConfigOf(latest'.run, assets, unsafe)}]
      BY <1>4 DEF RunBegins, Written
    <3>2. ConfigOf(latest'.run, assets, unsafe).run = latest'.run
      BY DEF ConfigOf
    <3> QED BY <3>1, <3>2
  <2>3. latest'.run = latest.run + 1 /\ latest'.plan = latest.plan
        /\ latest' \in [run : Nat, plan : Nat]
    BY <1>1, <2>1
  <2>4. DOMAIN store' = StoreFiles /\ store'["config"] = {c}
        /\ \A f \in StoreFiles : f # "config" => store'[f] = store[f]
    BY <1>1, <2>2 DEF StoreFiles
  <2>5. \A k : PastConfig(k) => k.run <= latest.run
    BY <1>1, <1>2 DEF PastConfig, Older
  <2>6. \A k : PastConfig(k) => k # c /\ PastConfig(k)'
    BY <1>1, <2>2, <2>3, <2>4, <2>5 DEF PastConfig, Older
  <2>7. Ages
    <3>1. \A x : FiledPlan(x) => FiledPlan(x)'
      BY <2>3, <2>4 DEF FiledPlan, StoreFiles
    <3>2. \A x : ReportedPlan(x) => ReportedPlan(x)'
      BY <2>4 DEF ReportedPlan, StoreFiles
    <3> QED BY <2>4, <2>6, <3>1, <3>2 DEF Ages, Hashed, Loaded
  <2>8. StoreInv'
    BY <1>1, <1>2, <1>3, <2>1, <2>2, <2>3, <2>4 DEF StoreInv, StoreFiles, FiledPlan
  <2> QED BY <2>7, <2>8
<1>5. CASE RunEnds
  <2>1. ~running' /\ latest' = latest /\ rewrites' = rewrites + 1
    BY <1>5 DEF RunEnds
  <2>2. PICK n : store' = [store EXCEPT !["metrics"] = {n}]
    BY <1>5 DEF RunEnds, Written
  <2>3. DOMAIN store' = StoreFiles /\ store'["metrics"] = {n}
        /\ \A f \in StoreFiles : f # "metrics" => store'[f] = store[f]
    BY <1>1, <2>2 DEF StoreFiles
  <2>4. running
    BY <1>5 DEF RunEnds
  <2>5. Ages
    <3>1. \A x : FiledPlan(x) => FiledPlan(x)'
      BY <2>1, <2>3 DEF FiledPlan, StoreFiles
    <3>2. \A x : ReportedPlan(x) => ReportedPlan(x)'
      BY <2>3 DEF ReportedPlan, StoreFiles
    <3>3. \A k : PastConfig(k) => PastConfig(k)'
      BY <2>3 DEF PastConfig, StoreFiles
    <3>4. store'["config"] = store["config"]
      BY <2>3 DEF StoreFiles
    <3>5. \A k, h : Hashed(k, h)'
      BY <2>1 DEF Hashed
    <3>6. \A k, h, t : Loaded(k, h, t) => Loaded(k, h, t)'
      BY <2>1, <2>4, <3>4 DEF Loaded
    <3> QED BY <3>1, <3>2, <3>3, <3>4, <3>5, <3>6 DEF Ages
  <2>6. StoreInv'
    <3>1. rewrites' \in Nat
      BY <1>1, <2>1
    <3>2. store'["preregistration"] = store["preregistration"]
          /\ store'["report"] = store["report"] /\ store'["config"] = store["config"]
      BY <2>3 DEF StoreFiles
    <3> QED BY <1>1, <1>2, <1>3, <2>1, <2>3, <3>1, <3>2, PlansStand DEF StoreInv
  <2> QED BY <2>5, <2>6
<1>6. CASE RunDies
  <2>1. ~running' /\ UNCHANGED <<store, latest, rewrites>> /\ running
    BY <1>6 DEF RunDies, othersVars
  <2>2. Ages
    BY <2>1 DEF Ages, FiledPlan, ReportedPlan, PastConfig, Hashed, Loaded
  <2>3. StoreInv'
    BY <1>3, <2>1 DEF StoreInv, FiledPlan
  <2> QED BY <2>2, <2>3
<1> QED BY <1>4, <1>5, <1>6

LEMMA PlansAge ==
    ASSUME StoreInv, Preregister \/ PlanWithdrawn \/ PlanRevised
    PROVE  StoreInv' /\ Ages
<1>1. DOMAIN store = StoreFiles /\ latest \in [run : Nat, plan : Nat]
      /\ rewrites \in Nat /\ DOMAIN draft = DraftPlaces
  BY DEF StoreInv
<1>2. UNCHANGED <<draft, running, rewrites>> /\ latest'.run = latest.run
  BY <1>1 DEF Preregister, PlanWithdrawn, PlanRevised, othersVars
<1>3. latest' \in [run : Nat, plan : Nat] /\ latest.plan <= latest'.plan
  BY <1>1 DEF Preregister, PlanWithdrawn, PlanRevised
<1>4. /\ DOMAIN store' = StoreFiles
      /\ \A f \in StoreFiles : f # "preregistration" => store'[f] = store[f]
      /\ store'["preregistration"] \in {{}, {latest'.plan}, store["preregistration"]}
  BY <1>1 DEF Preregister, PlanWithdrawn, PlanRevised, Written, StoreFiles
<1>5. store'["config"] = store["config"] /\ store'["metrics"] = store["metrics"]
      /\ store'["report"] = store["report"]
  BY <1>4 DEF StoreFiles
<1>6. \A x : FiledPlan(x) => FiledPlan(x)'
  BY <1>1, <1>3, <1>4 DEF FiledPlan
<1>7. \A x : ReportedPlan(x) => ReportedPlan(x)'
  BY <1>5 DEF ReportedPlan
<1>8. Ages
  BY <1>2, <1>5, <1>6, <1>7, RunsStand DEF Ages
<1>9. \A n \in store'["preregistration"] :
          store'["preregistration"] = {n} /\ n \in Nat /\ n <= latest'.plan
  BY <1>1, <1>3, <1>4 DEF StoreInv
<1>10. \E r : store'["report"] = {r} /\ FiledPlan(r.plan)'
  BY <1>5, <1>6 DEF StoreInv
<1>11. \A n \in draft'["plan"] :
           /\ draft'["plan"] = {n} /\ FiledPlan(n)'
           /\ \A r \in store'["report"] : r.plan <= n
  BY <1>2, <1>5, <1>6 DEF StoreInv
<1> QED BY <1>1, <1>2, <1>3, <1>4, <1>5, <1>8, <1>9, <1>10, <1>11, RunsStand
        DEF StoreInv

\* One report at a time: the plan it names is no older than the one that the
\* report it replaces names.
LEMMA ReportsAge ==
    ASSUME StoreInv, ReportGoesOn PROVE StoreInv' /\ Ages
<1>1. DOMAIN store = StoreFiles /\ latest \in [run : Nat, plan : Nat]
      /\ rewrites \in Nat /\ DOMAIN draft = DraftPlaces
  BY DEF StoreInv
<1>2. UNCHANGED <<latest, running, rewrites>>
  BY DEF ReportGoesOn, ReportBegins, ReportReadsMetrics, ReportReadsModel,
         ReportHashesPlan, ReportWrites, ReportDies, DraftTakes, othersVars
<1>3. NoDraft["plan"] = {} /\ DOMAIN NoDraft = DraftPlaces
  BY DEF NoDraft, DraftPlaces
<1>4. CASE store' = store
  <2>1. DOMAIN draft' = DraftPlaces
        /\ draft'["plan"] \in {{}, draft["plan"], store["preregistration"]}
    <3>1. CASE draft' = NoDraft
      BY <1>3, <3>1
    <3>2. ASSUME NEW p \in DraftPlaces, NEW content,
                 draft' = [draft EXCEPT ![p] = content],
                 p = "plan" => content = store["preregistration"]
          PROVE  DOMAIN draft' = DraftPlaces
                 /\ draft'["plan"] \in {draft["plan"], store["preregistration"]}
      BY <1>1, <3>2 DEF DraftPlaces
    <3>3. CASE draft' # NoDraft
      <4>1. CASE ReportBegins
        BY <1>1, <4>1 DEF ReportBegins, DraftPlaces
      <4>2. CASE ReportReadsMetrics \/ ReportReadsModel \/ ReportHashesPlan
        <5>1. \/ draft' = [draft EXCEPT !["metrics"] = store["metrics"]]
              \/ draft' = [draft EXCEPT !["unsafe"] =
                                {c.unsafe : c \in store["config"]}]
              \/ draft' = [draft EXCEPT !["plan"] = store["preregistration"]]
          BY <3>3, <4>2, Zenon DEF ReportReadsMetrics, ReportReadsModel,
             ReportHashesPlan, DraftTakes
        <5> QED BY <1>1, <5>1 DEF DraftPlaces
      <4> QED BY <3>3, <4>1, <4>2 DEF ReportGoesOn, ReportWrites, ReportDies
    <3> QED BY <3>1, <3>3
  <2>2. Ages
    BY <1>2, <1>4 DEF Ages, FiledPlan, ReportedPlan, PastConfig, Hashed, Loaded
  <2>3. \A n \in draft'["plan"] :
            /\ draft'["plan"] = {n} /\ FiledPlan(n)'
            /\ \A r \in store'["report"] : r.plan <= n
    <3>1. CASE draft'["plan"] = draft["plan"]
      BY <1>2, <1>4, <3>1 DEF StoreInv, FiledPlan
    <3>2. CASE draft'["plan"] = store["preregistration"]
      BY <1>1, <1>2, <1>4, <3>2 DEF StoreInv, FiledPlan
    <3>3. CASE draft'["plan"] = {}
      BY <3>3
    <3> QED BY <2>1, <3>1, <3>2, <3>3
  <2>4. StoreInv'
    BY <1>1, <1>2, <1>4, <2>1, <2>3 DEF StoreInv, FiledPlan
  <2> QED BY <2>2, <2>4
<1>5. CASE store' # store
  <2>1. ReportWrites
    BY <1>5 DEF ReportGoesOn, ReportBegins, ReportReadsMetrics, ReportReadsModel,
                ReportHashesPlan, ReportDies, DraftTakes
  <2>2. PICK n \in draft["plan"] : TRUE
    BY <2>1 DEF ReportWrites
  <2>3. draft["plan"] = {n} /\ FiledPlan(n) /\ \A r \in store["report"] : r.plan <= n
    BY <2>2 DEF StoreInv
  <2>4. PICK r : store' = [store EXCEPT !["report"] = {r}] /\ r.plan = n
    <3> DEFINE written == ReportOn(The(draft["id"]), The(draft["metrics"]),
                                   The(draft["unsafe"]), The(draft["plan"]))
    <3>1. store' = [store EXCEPT !["report"] = {written}]
      BY <2>1 DEF ReportWrites, Written
    <3>2. written.plan = The(draft["plan"])
      BY DEF ReportOn
    <3>3. The(draft["plan"]) = n
      BY <2>3, OneContent
    <3> HIDE DEF written
    <3> QED BY <3>1, <3>2, <3>3
  <2>5. DOMAIN store' = StoreFiles /\ store'["report"] = {r}
        /\ \A f \in StoreFiles : f # "report" => store'[f] = store[f]
    BY <1>1, <2>4 DEF StoreFiles
  <2>6. store'["config"] = store["config"] /\ store'["metrics"] = store["metrics"]
        /\ store'["preregistration"] = store["preregistration"]
    BY <2>5 DEF StoreFiles
  <2>7. \A x : FiledPlan(x) => FiledPlan(x)'
    BY <1>2, <2>6 DEF FiledPlan
  <2>8. \A x : ReportedPlan(x) => ReportedPlan(x)'
    <3>1. PICK s : store["report"] = {s} /\ s.plan \in Nat
      BY DEF StoreInv, FiledPlan
    <3>2. s.plan <= n /\ n \in Nat
      BY <2>3, <3>1 DEF FiledPlan
    <3> QED BY <2>4, <2>5, <3>1, <3>2 DEF ReportedPlan
  <2>9. Ages
    BY <1>2, <2>6, <2>7, <2>8, RunsStand DEF Ages
  <2>10. DOMAIN draft' = DraftPlaces /\ draft'["plan"] = {}
    BY <1>3, <2>1 DEF ReportWrites
  <2>11. FiledPlan(r.plan)'
    BY <2>3, <2>4, <2>7
  <2>12. StoreInv'
    BY <1>1, <1>2, <2>5, <2>6, <2>10, <2>11, RunsStand DEF StoreInv
  <2> QED BY <2>9, <2>12
<1> QED BY <1>4, <1>5

\* Whatever goes on around the commands only makes what they read older.
LEMMA WorldAges ==
    ASSUME StoreInv, World
    PROVE  /\ StoreInv' /\ Ages
           /\ UNCHANGED <<command, at, got, pack, verified, ledger>>
<1>1. UNCHANGED <<command, at, got, pack, verified, ledger>>
  BY DEF World, ReportGoesOn, RunBegins, RunEnds, RunDies, Preregister,
     PlanWithdrawn, PlanRevised, ReportBegins, ReportReadsMetrics,
     ReportReadsModel, ReportHashesPlan, ReportWrites, ReportDies, DraftTakes,
     AssetsRebuilt, CodeEdited, Change, deskVars, othersVars, resultVars
<1>2. CASE AssetsRebuilt \/ CodeEdited
  <2>1. UNCHANGED <<running, draft, latest, rewrites>> /\ DOMAIN store = StoreFiles
    BY <1>2 DEF AssetsRebuilt, CodeEdited, othersVars, StoreInv
  <2>2. store' = store \/ \E x : store' = [store EXCEPT !["code"] = {x}]
    BY <1>2, Zenon DEF AssetsRebuilt, CodeEdited, Written
  <2>3. DOMAIN store' = StoreFiles
        /\ \A f \in StoreFiles : f # "code" => store'[f] = store[f]
    BY <2>1, <2>2 DEF StoreFiles
  <2>4. store'["config"] = store["config"] /\ store'["metrics"] = store["metrics"]
        /\ store'["preregistration"] = store["preregistration"]
        /\ store'["report"] = store["report"]
    BY <2>3 DEF StoreFiles
  <2>5. Ages
    BY <2>1, <2>4, PlansStand, RunsStand DEF Ages
  <2>6. StoreInv'
    BY <2>1, <2>3, <2>4, PlansStand, RunsStand DEF StoreInv
  <2> QED BY <1>1, <2>5, <2>6
<1> QED BY <1>1, <1>2, RunsAge, PlansAge, ReportsAge DEF World

-----------------------------------------------------------------------------
(* What build and --verify have read so far.  In --verify each hash is of   *)
(* a content no older than the one in the pack.                             *)
Verifying == command = "verify"

PlanHashed ==
    at >= 2 => \E h :
        /\ got["hash_preregistration"] = {h} /\ FiledPlan(h)
        /\ Verifying => \A p \in pack["preregistration"] : p <= h

ReportHashed ==
    at >= 3 => \E b :
        /\ got["hash_report"] = {b} /\ ReportedPlan(b.plan)
        /\ Verifying => \A a \in pack["report"] : a.plan <= b.plan

ConfigHashed ==
    at >= 4 => \E k :
        /\ got["hash_config"] = {k} /\ PastConfig(k)
        /\ Verifying => \A c \in pack["identities"] : Older(c, k)

MetricsHashed ==
    at >= 5 => \E m :
        got["hash_metrics"] = {m} /\ \A k \in got["hash_config"] : Hashed(k, m)

\* As long as the configuration is the hashed one.
SameConfig(k) == store["config"] = {k} \/ (at >= 8 /\ got["config"] = {k})

MetricsSettled ==
    Verifying /\ at >= 5 =>
        \A a \in pack["artifacts"], t \in pack["telemetry"] :
            /\ got["hash_config"] = {a.config} /\ got["hash_metrics"] = {a.metrics}
            /\ SameConfig(a.config)
            => t = a.metrics

ReportLoaded ==
    at >= 6 => \E c :
        /\ got["loaded"] = {c} /\ ReportedPlan(c.plan)
        /\ \A b \in got["hash_report"] : b.plan <= c.plan

PlanLoaded ==
    at >= 7 => \E q :
        /\ got["plan"] = {q} /\ FiledPlan(q) /\ The(got["loaded"]).plan = q
        /\ \A h \in got["hash_preregistration"] : h <= q

ConfigLoaded ==
    at >= 8 => \E c :
        /\ got["config"] = {c} /\ PastConfig(c)
        /\ \A k \in got["hash_config"] : Older(k, c)

MetricsLoaded ==
    at >= 9 => \E t :
        /\ got["metrics"] = {t}
        /\ \A k \in got["hash_config"], m \in got["hash_metrics"] : Loaded(k, m, t)
        /\ at <= 13 => \A a \in pack["artifacts"] : Loaded(a.config, a.metrics, t)

PlanEmitted ==
    Verifying /\ at >= 11 => \E s \in Nat :
        got["preregistration"] = {s} /\ \A q \in got["plan"] : q <= s

ReportEmitted ==
    Verifying /\ at >= 12 => \E d :
        /\ got["report"] = {d} /\ d.plan \in Nat
        /\ \A c \in got["loaded"] : c.plan <= d.plan

IdentitiesEmitted == Verifying /\ at >= 13 => got["identities"] = got["config"]
TelemetryEmitted == Verifying /\ at >= 14 => got["telemetry"] = got["metrics"]

ManifestEmitted ==
    Verifying /\ at >= 15 => \E x :
        /\ got["manifest"] = {x} /\ "report" \in DOMAIN x
        /\ x.report = The(got["loaded"])

ArtifactsEmitted == Verifying /\ at >= 16 => got["artifacts"] = {Artifacts}

TelemetryWritten ==
    command = "build" /\ at >= 14 => pack["telemetry"] = got["metrics"]

ReadingsDated ==
    /\ PlanHashed /\ ReportHashed /\ ConfigHashed /\ MetricsHashed /\ MetricsSettled
    /\ ReportLoaded /\ PlanLoaded /\ ConfigLoaded /\ MetricsLoaded
    /\ PlanEmitted /\ ReportEmitted /\ IdentitiesEmitted /\ TelemetryEmitted
    /\ ManifestEmitted /\ ArtifactsEmitted /\ TelemetryWritten

Underway == Building => DOMAIN got = Places /\ at \in 1..16 /\ ReadingsDated

\* The pack is of the past; files of a later build that was killed may lie
\* over those of an earlier one.
PackInv ==
    /\ DOMAIN pack = PackFiles
    /\ \A p \in pack["preregistration"] :
           pack["preregistration"] = {p} /\ FiledPlan(p)
    /\ \A a \in pack["report"] : pack["report"] = {a} /\ ReportedPlan(a.plan)
    /\ \A c \in pack["identities"] : pack["identities"] = {c} /\ PastConfig(c)
    /\ \A t \in pack["telemetry"] : pack["telemetry"] = {t}
    /\ \A x \in pack["manifest"] : pack["manifest"] = {x}
    /\ \A a \in pack["artifacts"] :
           /\ pack["artifacts"] = {a} /\ PastConfig(a.config)
           /\ Hashed(a.config, a.metrics)
           /\ \A t \in pack["telemetry"] : Loaded(a.config, a.metrics, t)

\* What assemble() has read of the metrics, when at most one run ended since
\* it checked them.
Certifying ==
    command = "certify" =>
        /\ DOMAIN got = CertifyPlaces /\ at \in 1..6
        /\ at >= 2 => \E x : got["expected"] = {x}
        /\ at = 3 /\ rewrites = 0 => store["metrics"] = got["expected"]
        /\ at >= 4 => \E r : got["rows"] = {r}
        /\ at = 4 /\ rewrites = 0 =>
               got["rows"] = got["expected"] /\ store["metrics"] = got["expected"]
        /\ at = 4 /\ rewrites = 1 =>
               got["rows"] = got["expected"] \/ store["metrics"] = got["rows"]
        /\ at >= 5 => \E m : got["baseline"] = {m}
        /\ at >= 5 /\ rewrites <= 1 /\ got["baseline"] = got["expected"] =>
               got["rows"] = got["expected"]

EvidenceInv == StoreInv /\ PackInv /\ Underway /\ Certifying /\ EvidenceIsTrue

-----------------------------------------------------------------------------
(* The steps of build and --verify *)
HashPlaces ==
    {"hash_preregistration", "hash_report", "hash_config", "hash_metrics"}
LoadPlaces == {"loaded", "plan", "config", "metrics", "code"}

\* The place a step reads into.
PlaceAt(n) == IF n <= 9 THEN Reads[n].into ELSE Emits[n - 9]

LEMMA PlaceTable ==
    /\ Len(Reads) = 9 /\ Len(Emits) = 6 /\ DOMAIN Reads = 1..9 /\ DOMAIN Emits = 1..6
    /\ PlaceAt(1) = "hash_preregistration" /\ PlaceAt(2) = "hash_report"
    /\ PlaceAt(3) = "hash_config" /\ PlaceAt(4) = "hash_metrics"
    /\ PlaceAt(5) = "loaded" /\ PlaceAt(6) = "plan" /\ PlaceAt(7) = "config"
    /\ PlaceAt(8) = "metrics" /\ PlaceAt(9) = "code"
    /\ PlaceAt(10) = "preregistration" /\ PlaceAt(11) = "report"
    /\ PlaceAt(12) = "identities" /\ PlaceAt(13) = "telemetry"
    /\ PlaceAt(14) = "manifest" /\ PlaceAt(15) = "artifacts"
BY DEF PlaceAt, Reads, Emits

LEMMA FileTable ==
    /\ Reads[1].file = "preregistration" /\ Reads[2].file = "report"
    /\ Reads[3].file = "config" /\ Reads[4].file = "metrics"
    /\ Reads[5].file = "report" /\ Reads[6].file = "preregistration"
    /\ Reads[7].file = "config" /\ Reads[8].file = "metrics"
    /\ Reads[9].file = "code"
BY DEF Reads

LEMMA FifteenSteps ==
    \A k \in 1..15 : \/ k = 1 \/ k = 2 \/ k = 3 \/ k = 4 \/ k = 5 \/ k = 6 \/ k = 7
                     \/ k = 8 \/ k = 9 \/ k = 10 \/ k = 11 \/ k = 12 \/ k = 13
                     \/ k = 14 \/ k = 15
OBVIOUS

LEMMA PlacesAre == Places = HashPlaces \union LoadPlaces \union PackFiles
<1>1. Places = {Reads[i].into : i \in 1..9} \union PackFiles
  BY PlaceTable DEF Places
<1>2. \A i \in 1..9 : PlaceAt(i) = Reads[i].into
  BY DEF PlaceAt
<1>3. {PlaceAt(i) : i \in 1..9} = HashPlaces \union LoadPlaces
  <2>1. \A i \in 1..9 : PlaceAt(i) \in HashPlaces \union LoadPlaces
    BY FifteenSteps, PlaceTable DEF HashPlaces, LoadPlaces
  <2>2. \A q \in HashPlaces \union LoadPlaces : \E i \in 1..9 : q = PlaceAt(i)
    BY PlaceTable DEF HashPlaces, LoadPlaces
  <2> QED BY <2>1, <2>2
<1> QED BY <1>1, <1>2, <1>3

\* The places are taken in turn, each once.
LEMMA PlacesDiffer == \A m, n \in 1..15 : PlaceAt(m) = PlaceAt(n) => m = n
<1> SUFFICES ASSUME NEW m \in 1..15, NEW n \in 1..15, PlaceAt(m) = PlaceAt(n)
             PROVE  m = n
  OBVIOUS
<1> QED BY FifteenSteps, PlaceTable

LEMMA PlaceIsPlace == \A n \in 1..15 : PlaceAt(n) \in Places
BY FifteenSteps, PlaceTable, PlacesAre DEF HashPlaces, LoadPlaces, PackFiles

Agree(S) == \A q \in S : got'[q] = got[q]

\* The same command, a step further or not, while what it read grows older; the
\* pack stays while it is being verified.
Onward ==
    /\ command' = command /\ at' \in {at, at + 1} /\ Ages
    /\ Verifying => UNCHANGED pack

\* A reading that was there stays what it is while others are taken.
Kept(n, S) == at' >= n => at >= n /\ Agree(S)

LEMMA HashesStay ==
    ASSUME Onward, at \in 1..16, ReadingsDated
    PROVE  /\ Kept(2, {"hash_preregistration"}) => PlanHashed'
           /\ Kept(3, {"hash_report"}) => ReportHashed'
           /\ Kept(4, {"hash_config"}) => ConfigHashed'
           /\ Kept(5, {"hash_config", "hash_metrics"}) => MetricsHashed'
<1>1. ASSUME Kept(2, {"hash_preregistration"}) PROVE PlanHashed'
  <2>1. PlanHashed
    BY DEF ReadingsDated
  <2> QED BY <1>1, <2>1 DEF Onward, Ages, Agree, Kept, PlanHashed, Verifying
<1>2. ASSUME Kept(3, {"hash_report"}) PROVE ReportHashed'
  <2>1. ReportHashed
    BY DEF ReadingsDated
  <2> QED BY <1>2, <2>1 DEF Onward, Ages, Agree, Kept, ReportHashed, Verifying
<1>3. ASSUME Kept(4, {"hash_config"}) PROVE ConfigHashed'
  <2>1. ConfigHashed
    BY DEF ReadingsDated
  <2> QED BY <1>3, <2>1 DEF Onward, Ages, Agree, Kept, ConfigHashed, Verifying
<1>4. ASSUME Kept(5, {"hash_config", "hash_metrics"}), at' >= 5 PROVE MetricsHashed'
  <2>1. MetricsHashed /\ ConfigHashed
    BY DEF ReadingsDated
  <2>2. PICK m : got["hash_metrics"] = {m} /\ \A k \in got["hash_config"] : Hashed(k, m)
    BY <1>4, <2>1 DEF MetricsHashed, Kept
  <2>3. \A k \in got["hash_config"] : PastConfig(k)
    BY <1>4, <2>1 DEF ConfigHashed, Kept
  <2>4. \A k \in got'["hash_config"] : Hashed(k, m)'
    BY <1>4, <2>2, <2>3 DEF Onward, Ages, Agree, Kept
  <2> QED BY <1>4, <2>2, <2>4 DEF MetricsHashed, Agree, Kept
<1> QED BY <1>1, <1>2, <1>3, <1>4 DEF MetricsHashed

LEMMA LoadsStay ==
    ASSUME Onward, at \in 1..16, ReadingsDated
    PROVE  /\ Kept(6, {"loaded", "hash_report"}) => ReportLoaded'
           /\ Kept(7, {"plan", "loaded", "hash_preregistration"}) => PlanLoaded'
           /\ Kept(8, {"config", "hash_config"}) => ConfigLoaded'
<1>1. ASSUME Kept(6, {"loaded", "hash_report"}) PROVE ReportLoaded'
  <2>1. ReportLoaded
    BY DEF ReadingsDated
  <2> QED BY <1>1, <2>1 DEF Onward, Ages, Agree, Kept, ReportLoaded
<1>2. ASSUME Kept(7, {"plan", "loaded", "hash_preregistration"}) PROVE PlanLoaded'
  <2>1. PlanLoaded
    BY DEF ReadingsDated
  <2> QED BY <1>2, <2>1 DEF Onward, Ages, Agree, Kept, PlanLoaded
<1>3. ASSUME Kept(8, {"config", "hash_config"}) PROVE ConfigLoaded'
  <2>1. ConfigLoaded
    BY DEF ReadingsDated
  <2> QED BY <1>3, <2>1 DEF Onward, Ages, Agree, Kept, ConfigLoaded
<1> QED BY <1>1, <1>2, <1>3

\* The metrics that were loaded, as they bear on both hashes of them.
LEMMA LoadedMetricsStay ==
    ASSUME Onward, at \in 1..16, ReadingsDated, PackInv,
           Kept(9, {"metrics", "hash_config", "hash_metrics"}),
           at' <= 13 => pack'["artifacts"] = pack["artifacts"]
    PROVE  MetricsLoaded'
<1>1. SUFFICES ASSUME at' >= 9 PROVE MetricsLoaded'
  BY DEF MetricsLoaded
<1>2. at >= 9 /\ at' \in {at, at + 1} /\ Ages
      /\ Agree({"metrics", "hash_config", "hash_metrics"})
      /\ MetricsLoaded /\ ConfigHashed
  BY <1>1 DEF Kept, Onward, ReadingsDated
<1>3. PICK t :
        /\ got["metrics"] = {t}
        /\ \A k \in got["hash_config"], m \in got["hash_metrics"] : Loaded(k, m, t)
        /\ at <= 13 => \A a \in pack["artifacts"] : Loaded(a.config, a.metrics, t)
  BY <1>2 DEF MetricsLoaded
<1>4. \A k \in got["hash_config"] : PastConfig(k)
  BY <1>2 DEF ConfigHashed
<1>5. \A k \in got'["hash_config"], m \in got'["hash_metrics"] : Loaded(k, m, t)'
  BY <1>2, <1>3, <1>4 DEF Ages, Agree
<1>6. at' <= 13 => \A a \in pack'["artifacts"] : Loaded(a.config, a.metrics, t)'
  BY <1>2, <1>3 DEF Ages, PackInv
<1> QED BY <1>2, <1>3, <1>5, <1>6 DEF MetricsLoaded, Agree

\* What --verify knows of the pack's metrics, once it hashed them.
LEMMA SettledStays ==
    ASSUME Onward, at \in 1..16, ReadingsDated, PackInv,
           Kept(5, {"hash_config", "hash_metrics"}),
           at' >= 8 => \/ at >= 8 /\ Agree({"config"})
                       \/ at = 7 /\ got'["config"] = store["config"]
    PROVE  MetricsSettled'
<1>1. SUFFICES ASSUME Verifying', at' >= 5,
                      NEW a \in pack'["artifacts"], NEW t \in pack'["telemetry"],
                      got'["hash_config"] = {a.config},
                      got'["hash_metrics"] = {a.metrics},
                      SameConfig(a.config)'
               PROVE  t = a.metrics
  BY DEF MetricsSettled
<1>2. Verifying /\ pack' = pack /\ at >= 5 /\ Ages /\ at' \in {at, at + 1}
      /\ got["hash_config"] = {a.config} /\ got["hash_metrics"] = {a.metrics}
  BY <1>1 DEF Onward, Kept, Agree, Verifying
<1>3. PastConfig(a.config)
  BY <1>1, <1>2 DEF PackInv
<1>4. store'["config"] = {a.config} => store["config"] = {a.config}
  BY <1>2, <1>3 DEF Ages
<1>5. SameConfig(a.config)
  <2>1. CASE store'["config"] = {a.config}
    BY <1>4, <2>1 DEF SameConfig
  <2>2. CASE at' >= 8 /\ got'["config"] = {a.config}
    BY <2>2 DEF SameConfig, Agree
  <2> QED BY <1>1, <2>1, <2>2 DEF SameConfig
<1> QED BY <1>1, <1>2, <1>5 DEF MetricsSettled, ReadingsDated

LEMMA EmissionsStay ==
    ASSUME Onward, at \in 1..16, ReadingsDated
    PROVE  /\ (Verifying => Kept(11, {"preregistration", "plan"})) => PlanEmitted'
           /\ (Verifying => Kept(12, {"report", "loaded"})) => ReportEmitted'
           /\ (Verifying => Kept(13, {"identities", "config"})) => IdentitiesEmitted'
           /\ (Verifying => Kept(14, {"telemetry", "metrics"})) => TelemetryEmitted'
           /\ (Verifying => Kept(15, {"manifest", "loaded"})) => ManifestEmitted'
           /\ (Verifying => Kept(16, {"artifacts"} \union HashPlaces))
                => ArtifactsEmitted'
<1>1. (Verifying => Kept(11, {"preregistration", "plan"})) => PlanEmitted'
  BY DEF Onward, Agree, Kept, ReadingsDated, PlanEmitted, Verifying
<1>2. (Verifying => Kept(12, {"report", "loaded"})) => ReportEmitted'
  BY DEF Onward, Agree, Kept, ReadingsDated, ReportEmitted, Verifying
<1>3. (Verifying => Kept(13, {"identities", "config"})) => IdentitiesEmitted'
  BY DEF Onward, Agree, Kept, ReadingsDated, IdentitiesEmitted, Verifying
<1>4. (Verifying => Kept(14, {"telemetry", "metrics"})) => TelemetryEmitted'
  BY DEF Onward, Agree, Kept, ReadingsDated, TelemetryEmitted, Verifying
<1>5. (Verifying => Kept(15, {"manifest", "loaded"})) => ManifestEmitted'
  BY DEF Onward, Agree, Kept, ReadingsDated, ManifestEmitted, Verifying
<1>6. ASSUME Verifying => Kept(16, {"artifacts"} \union HashPlaces)
      PROVE  ArtifactsEmitted'
  <2>1. SUFFICES ASSUME Verifying', at' >= 16 PROVE ArtifactsEmitted'
    BY DEF ArtifactsEmitted
  <2>2. Verifying /\ at >= 16 /\ Agree({"artifacts"} \union HashPlaces)
    BY <1>6, <2>1 DEF Onward, Kept, Verifying
  <2>3. got'["artifacts"] = got["artifacts"] /\ \A q \in HashPlaces : got'[q] = got[q]
    BY <2>2 DEF Agree
  <2>4. Artifacts' = Artifacts
    BY <2>3 DEF Artifacts, HashPlaces
  <2> QED BY <2>2, <2>3, <2>4 DEF ReadingsDated, ArtifactsEmitted
<1> QED BY <1>1, <1>2, <1>3, <1>4, <1>5, <1>6

\* A step that takes something leaves what was taken before alone.
LEMMA RestStays ==
    ASSUME Underway, Building, PackInv, Onward, at \in 1..15, UNCHANGED pack,
           NEW content, Take(PlaceAt(at), content),
           at = 7 => content = store["config"]
    PROVE  /\ DOMAIN got' = Places /\ got'[PlaceAt(at)] = content /\ at' = at + 1
           /\ \A n \in 1..15 : n # at => got'[PlaceAt(n)] = got[PlaceAt(n)]
           /\ at # 1 => PlanHashed'
           /\ at # 2 => ReportHashed'
           /\ at # 3 => ConfigHashed'
           /\ at # 4 => MetricsHashed' /\ MetricsSettled'
           /\ at # 5 => ReportLoaded'
           /\ at # 6 => PlanLoaded'
           /\ at # 7 => ConfigLoaded'
           /\ at # 8 => MetricsLoaded'
           /\ (Verifying => at # 10) => PlanEmitted'
           /\ (Verifying => at # 11) => ReportEmitted'
           /\ (Verifying => at # 12) => IdentitiesEmitted'
           /\ (Verifying => at # 13) => TelemetryEmitted'
           /\ (Verifying => at # 14) => ManifestEmitted'
           /\ (Verifying => at # 15) => ArtifactsEmitted'
<1>1. DOMAIN got = Places /\ ReadingsDated /\ at \in 1..16
  BY DEF Underway
<1>2. got' = [got EXCEPT ![PlaceAt(at)] = content] /\ PlaceAt(at) \in Places
      /\ at' = at + 1
  BY PlaceIsPlace DEF Take
<1>3. DOMAIN got' = Places /\ got'[PlaceAt(at)] = content
      /\ \A q \in Places : q # PlaceAt(at) => got'[q] = got[q]
  BY <1>1, <1>2
<1>4. \A n \in 1..15 : n # at => got'[PlaceAt(n)] = got[PlaceAt(n)]
  BY <1>3, PlacesDiffer, PlaceIsPlace
<1>5. /\ at # 1 => Kept(2, {"hash_preregistration"})
      /\ at # 2 => Kept(3, {"hash_report"})
      /\ at # 3 => Kept(4, {"hash_config"})
      /\ at # 4 => Kept(5, {"hash_config", "hash_metrics"})
  BY <1>2, <1>4, PlaceTable DEF Kept, Agree
<1>6. /\ at # 5 => Kept(6, {"loaded", "hash_report"})
      /\ at # 6 => Kept(7, {"plan", "loaded", "hash_preregistration"})
      /\ at # 7 => Kept(8, {"config", "hash_config"})
      /\ at # 8 => Kept(9, {"metrics", "hash_config", "hash_metrics"})
  BY <1>2, <1>4, PlaceTable DEF Kept, Agree
<1>7. /\ at # 10 => Kept(11, {"preregistration", "plan"})
      /\ at # 11 => Kept(12, {"report", "loaded"})
      /\ at # 12 => Kept(13, {"identities", "config"})
      /\ at # 13 => Kept(14, {"telemetry", "metrics"})
      /\ at # 14 => Kept(15, {"manifest", "loaded"})
      /\ at # 15 => Kept(16, {"artifacts"} \union HashPlaces)
  BY <1>2, <1>4, PlaceTable DEF Kept, Agree, HashPlaces
<1>8. at' >= 8 => \/ at >= 8 /\ Agree({"config"})
                  \/ at = 7 /\ got'["config"] = store["config"]
  BY <1>2, <1>3, <1>4, PlaceTable DEF Agree
<1>9. /\ at # 1 => PlanHashed'
      /\ at # 2 => ReportHashed'
      /\ at # 3 => ConfigHashed'
      /\ at # 4 => MetricsHashed'
  BY <1>1, <1>5, HashesStay
<1>10. at # 4 => MetricsSettled'
  BY <1>1, <1>5, <1>8, SettledStays
<1>11. /\ at # 5 => ReportLoaded'
       /\ at # 6 => PlanLoaded'
       /\ at # 7 => ConfigLoaded'
  BY <1>1, <1>6, LoadsStay
<1>12. at # 8 => MetricsLoaded'
  BY <1>1, <1>6, LoadedMetricsStay
<1>13. /\ (Verifying => at # 10) => PlanEmitted'
       /\ (Verifying => at # 11) => ReportEmitted'
       /\ (Verifying => at # 12) => IdentitiesEmitted'
       /\ (Verifying => at # 13) => TelemetryEmitted'
       /\ (Verifying => at # 14) => ManifestEmitted'
       /\ (Verifying => at # 15) => ArtifactsEmitted'
  BY <1>1, <1>7, EmissionsStay
<1> QED BY <1>2, <1>3, <1>4, <1>9, <1>10, <1>11, <1>12, <1>13

\* What the store holds, as what build and --verify read of it.
LEMMA StoreReads ==
    ASSUME StoreInv
    PROVE  /\ \A n \in store["preregistration"] :
                  store["preregistration"] = {n} /\ FiledPlan(n)
           /\ \E r : store["report"] = {r} /\ ReportedPlan(r.plan)
           /\ \E c : store["config"] = {c} /\ PastConfig(c)
           /\ \E m : store["metrics"] = {m}
<1>1. latest \in [run : Nat, plan : Nat]
  BY DEF StoreInv
<1>2. \A n \in store["preregistration"] :
          store["preregistration"] = {n} /\ FiledPlan(n)
  BY <1>1 DEF StoreInv, FiledPlan
<1>3. PICK r : store["report"] = {r} /\ FiledPlan(r.plan)
  BY DEF StoreInv
<1>4. ReportedPlan(r.plan)
  BY <1>3 DEF ReportedPlan, FiledPlan
<1>5. PICK c : store["config"] = {c} /\ c.run = latest.run
  BY DEF StoreInv
<1>6. PastConfig(c)
  BY <1>1, <1>5 DEF PastConfig, Older
<1> QED BY <1>2, <1>3, <1>4, <1>5, <1>6 DEF StoreInv

LEMMA ReadsAreDated ==
    ASSUME EvidenceInv, Building, Onward, UNCHANGED <<pack, storeVars>>, at \in 1..9,
           NEW content, content = store[Reads[at].file],
           ~Refuses(Reads[at].into, content), Take(Reads[at].into, content)
    PROVE  DOMAIN got' = Places /\ ReadingsDated'
<1>1. PlaceAt(at) = Reads[at].into /\ Underway /\ StoreInv /\ PackInv /\ at \in 1..15
      /\ UNCHANGED <<store, running, latest, pack>>
  BY DEF PlaceAt, EvidenceInv, storeVars
<1>2. Take(PlaceAt(at), content) /\ (at = 7 => content = store["config"])
  BY <1>1, FileTable
<1>3. DOMAIN got = Places /\ ReadingsDated
  BY <1>1 DEF Underway
<1>4. content # {}
  BY DEF Refuses
<1>5. got'[PlaceAt(at)] = content /\ at' = at + 1
      /\ \A n \in 1..15 : n # at => got'[PlaceAt(n)] = got[PlaceAt(n)]
  BY <1>1, <1>2, RestStays
<1>6. \A x : (FiledPlan(x) => FiledPlan(x)') /\ (ReportedPlan(x) => ReportedPlan(x)')
             /\ (PastConfig(x) => PastConfig(x)')
  BY DEF Onward, Ages
<1>7. ASSUME at = 1 PROVE PlanHashed'
  <2>1. PICK h : got'["hash_preregistration"] = {h} /\ FiledPlan(h)
            /\ store["preregistration"] = {h}
    BY <1>1, <1>4, <1>5, <1>7, StoreReads, FileTable, PlaceTable
  <2>2. \A p \in pack["preregistration"] : p <= h
    BY <1>1, <2>1 DEF PackInv, FiledPlan
  <2> QED BY <1>1, <1>6, <2>1, <2>2 DEF PlanHashed
<1>8. ASSUME at = 2 PROVE ReportHashed'
  <2>1. PICK b : got'["hash_report"] = {b} /\ ReportedPlan(b.plan)
            /\ store["report"] = {b}
    BY <1>1, <1>5, <1>8, StoreReads, FileTable, PlaceTable
  <2>2. \A a \in pack["report"] : a.plan <= b.plan
    BY <1>1, <2>1 DEF PackInv, ReportedPlan
  <2> QED BY <1>1, <1>6, <2>1, <2>2 DEF ReportHashed
<1>9. ASSUME at = 3 PROVE ConfigHashed'
  <2>1. PICK k : got'["hash_config"] = {k} /\ PastConfig(k) /\ store["config"] = {k}
    BY <1>1, <1>5, <1>9, StoreReads, FileTable, PlaceTable
  <2>2. \A c \in pack["identities"] : Older(c, k)
    BY <1>1, <2>1 DEF PackInv, PastConfig
  <2> QED BY <1>1, <1>6, <2>1, <2>2 DEF ConfigHashed
<1>10. ASSUME at = 4 PROVE MetricsHashed' /\ MetricsSettled'
  <2>1. PICK m : got'["hash_metrics"] = {m} /\ store["metrics"] = {m}
    BY <1>1, <1>5, <1>10, StoreReads, FileTable, PlaceTable
  <2>2. got'["hash_config"] = got["hash_config"]
    BY <1>5, <1>10, PlaceTable
  <2>3. MetricsHashed'
    BY <1>1, <2>1 DEF MetricsHashed, Hashed
  <2>4. MetricsSettled'
    <3>1. SUFFICES ASSUME NEW a \in pack["artifacts"], NEW t \in pack["telemetry"],
                          {m} = {a.metrics}, SameConfig(a.config)'
                   PROVE  t = a.metrics
      BY <1>1, <2>1 DEF MetricsSettled
    <3>2. store["config"] = {a.config}
      BY <1>1, <1>5, <1>10, <3>1 DEF SameConfig
    <3>3. Loaded(a.config, a.metrics, t)
      BY <1>1 DEF PackInv
    <3> QED BY <2>1, <3>1, <3>2, <3>3 DEF Loaded
  <2> QED BY <2>3, <2>4
<1>11. ASSUME at = 5 PROVE ReportLoaded'
  <2>1. PICK c : got'["loaded"] = {c} /\ ReportedPlan(c.plan) /\ store["report"] = {c}
            /\ got'["hash_report"] = got["hash_report"]
    BY <1>1, <1>5, <1>11, StoreReads, FileTable, PlaceTable
  <2>2. \A b \in got["hash_report"] : b.plan <= c.plan
    BY <1>3, <1>11, <2>1 DEF ReadingsDated, ReportHashed, ReportedPlan
  <2> QED BY <1>1, <1>6, <2>1, <2>2 DEF ReportLoaded
<1>12. ASSUME at = 6 PROVE PlanLoaded'
  <2>1. PICK q : got'["plan"] = {q} /\ FiledPlan(q) /\ store["preregistration"] = {q}
            /\ got'["loaded"] = got["loaded"] /\ content = {q}
            /\ got'["hash_preregistration"] = got["hash_preregistration"]
    BY <1>1, <1>4, <1>5, <1>12, StoreReads, FileTable, PlaceTable
  <2>2. The(got["loaded"]).plan = q
    BY <1>1, <1>12, <2>1, OneContent, PlaceTable DEF Refuses
  <2>3. \A h \in got["hash_preregistration"] : h <= q
    BY <1>3, <1>12, <2>1 DEF ReadingsDated, PlanHashed, FiledPlan
  <2> QED BY <1>1, <1>6, <2>1, <2>2, <2>3 DEF PlanLoaded
<1>13. ASSUME at = 7 PROVE ConfigLoaded'
  <2>1. PICK c : got'["config"] = {c} /\ PastConfig(c) /\ store["config"] = {c}
            /\ got'["hash_config"] = got["hash_config"]
    BY <1>1, <1>5, <1>13, StoreReads, FileTable, PlaceTable
  <2>2. \A k \in got["hash_config"] : Older(k, c)
    BY <1>3, <1>13, <2>1 DEF ReadingsDated, ConfigHashed, PastConfig
  <2> QED BY <1>1, <1>6, <2>1, <2>2 DEF ConfigLoaded
<1>14. ASSUME at = 8 PROVE MetricsLoaded'
  <2>7. got'["metrics"] = store["metrics"]
    BY <1>5, <1>14, FileTable, PlaceTable
  <2>1. PICK t : got'["metrics"] = {t} /\ store["metrics"] = {t}
    BY <1>1, <2>7 DEF StoreInv
  <2>2. \A k, h : Hashed(k, h) => Loaded(k, h, t)
    BY <2>1 DEF Hashed, Loaded
  <2>6. got'["hash_config"] = got["hash_config"]
        /\ got'["hash_metrics"] = got["hash_metrics"]
    BY <1>5, <1>14, PlaceTable
  <2>3. \A k \in got["hash_config"], m \in got["hash_metrics"] : Hashed(k, m)
    BY <1>3, <1>14 DEF ReadingsDated, MetricsHashed
  <2>4. \A a \in pack["artifacts"] : Hashed(a.config, a.metrics)
    BY <1>1 DEF PackInv
  <2>5. \A k, h : Loaded(k, h, t) => Loaded(k, h, t)'
    BY <1>1 DEF Loaded
  <2> QED BY <1>1, <2>1, <2>2, <2>3, <2>4, <2>5, <2>6 DEF MetricsLoaded
<1>15. PlanEmitted' /\ ReportEmitted' /\ IdentitiesEmitted' /\ TelemetryEmitted'
       /\ ManifestEmitted' /\ ArtifactsEmitted' /\ TelemetryWritten'
  BY <1>5 DEF PlanEmitted, ReportEmitted, IdentitiesEmitted, TelemetryEmitted,
              ManifestEmitted, ArtifactsEmitted, TelemetryWritten
<1>16. DOMAIN got' = Places
       /\ (at # 1 => PlanHashed') /\ (at # 2 => ReportHashed')
       /\ (at # 3 => ConfigHashed') /\ (at # 4 => MetricsHashed' /\ MetricsSettled')
       /\ (at # 5 => ReportLoaded') /\ (at # 6 => PlanLoaded')
       /\ (at # 7 => ConfigLoaded') /\ (at # 8 => MetricsLoaded')
  BY <1>1, <1>2, RestStays
<1> QED BY <1>7, <1>8, <1>9, <1>10, <1>11, <1>12, <1>13, <1>14, <1>15, <1>16
        DEF ReadingsDated

-----------------------------------------------------------------------------
(* Other commands, and what goes on around them *)
\* A step that is none of the pack's or of the certificates'.
LEMMA OutsideAges ==
    ASSUME EvidenceInv, World \/ UNCHANGED <<storeVars, rewrites>>,
           \/ UNCHANGED <<command, at, got, pack>>
           \/ ~Building' /\ command' # "certify" /\ UNCHANGED pack,
           UNCHANGED <<verified, ledger>>
    PROVE  EvidenceInv'
<1>1. StoreInv' /\ Ages
  BY WorldAges, StandingAges DEF EvidenceInv
<1>2. StoreInv /\ PackInv /\ Underway /\ Certifying /\ pack' = pack
  BY DEF EvidenceInv
<1>3. PackInv'
  BY <1>1, <1>2 DEF PackInv, Ages
<1>4. EvidenceIsTrue'
  BY DEF EvidenceInv, EvidenceIsTrue, VerifiedPackIsTrue, LedgerTellsItsBytes
<1>5. CASE ~Building' /\ command' # "certify"
  BY <1>1, <1>3, <1>4, <1>5 DEF EvidenceInv, Underway, Certifying
<1>6. CASE UNCHANGED <<command, at, got, pack>>
  <2>1. Underway'
    <3>1. SUFFICES ASSUME Building PROVE Underway'
      BY <1>6 DEF Underway, Building
    <3>2. DOMAIN got = Places /\ at \in 1..16 /\ ReadingsDated
      BY <1>2, <3>1 DEF Underway
    <3>3. Onward
      BY <1>1, <1>6 DEF Onward
    <3>4. \A n, S : Kept(n, S)
      BY <1>6 DEF Kept, Agree
    <3>5. PlanHashed' /\ ReportHashed' /\ ConfigHashed' /\ MetricsHashed'
      BY <3>2, <3>3, <3>4, HashesStay
    <3>6. ReportLoaded' /\ PlanLoaded' /\ ConfigLoaded'
      BY <3>2, <3>3, <3>4, LoadsStay
    <3>7. MetricsLoaded'
      BY <1>2, <3>2, <3>3, <3>4, LoadedMetricsStay
    <3>8. MetricsSettled'
      <4>1. at' >= 8 => at >= 8 /\ Agree({"config"})
        BY <1>6 DEF Agree
      <4> QED BY <1>2, <3>2, <3>3, <3>4, <4>1, SettledStays
    <3>9. PlanEmitted' /\ ReportEmitted' /\ IdentitiesEmitted' /\ TelemetryEmitted'
          /\ ManifestEmitted' /\ ArtifactsEmitted'
      BY <3>2, <3>3, <3>4, EmissionsStay
    <3>10. TelemetryWritten'
      BY <1>6, <3>2 DEF ReadingsDated, TelemetryWritten
    <3> QED BY <1>6, <3>2, <3>5, <3>6, <3>7, <3>8, <3>9, <3>10
            DEF Underway, ReadingsDated
  <2>2. Certifying'
    <3>1. SUFFICES ASSUME command = "certify" PROVE Certifying'
      BY <1>6 DEF Certifying
    <3>2. CASE RunEnds
      <4>1. rewrites' = rewrites + 1 /\ rewrites \in Nat
        BY <1>2, <3>2 DEF RunEnds, StoreInv
      <4>2. rewrites' # 0 /\ (rewrites' = 1 => rewrites = 0)
            /\ (rewrites' <= 1 => rewrites <= 1)
        BY <4>1
      <4>3. Certifying /\ command' = "certify" /\ at' = at /\ got' = got
        BY <1>2, <1>6, <3>1
      <4>4. DOMAIN got = CertifyPlaces /\ at \in 1..6
            /\ (at >= 2 => \E x : got["expected"] = {x})
            /\ (at >= 4 => \E r : got["rows"] = {r})
            /\ (at >= 5 => \E m : got["baseline"] = {m})
        BY <3>1, <4>3 DEF Certifying
      <4>5. at = 4 /\ rewrites' = 1 => got["rows"] = got["expected"]
        BY <3>1, <4>2, <4>3 DEF Certifying
      <4>6. at >= 5 /\ rewrites' <= 1 /\ got["baseline"] = got["expected"]
            => got["rows"] = got["expected"]
        BY <3>1, <4>2, <4>3 DEF Certifying
      <4> QED BY <4>2, <4>3, <4>4, <4>5, <4>6 DEF Certifying
    <3>3. CASE ~RunEnds
      <4>1. rewrites' = rewrites /\ store'["metrics"] = store["metrics"]
        <5>1. CASE UNCHANGED <<storeVars, rewrites>>
          BY <5>1 DEF storeVars
        <5>2. CASE World
          <6>1. rewrites' = rewrites
            BY <3>3, <5>2 DEF World, ReportGoesOn, RunBegins, RunDies, Preregister,
               PlanWithdrawn, PlanRevised, ReportBegins, ReportReadsMetrics,
               ReportReadsModel, ReportHashesPlan, ReportWrites, ReportDies,
               DraftTakes, AssetsRebuilt, CodeEdited, othersVars
          <6>2. store' = store \/ \E f \in {"config", "preregistration", "report",
                                            "code"} :
                    \E content : store' = [store EXCEPT ![f] = content]
            <7>1. CASE RunBegins
              BY <7>1, Zenon DEF RunBegins, Written
            <7>2. CASE Preregister \/ PlanWithdrawn
              BY <7>2, Zenon DEF Preregister, PlanWithdrawn, Written
            <7>3. CASE ReportWrites
              BY <7>3, Zenon DEF ReportWrites, Written
            <7>4. CASE CodeEdited
              BY <7>4, Zenon DEF CodeEdited, Written
            <7>5. CASE RunDies \/ PlanRevised \/ AssetsRebuilt
              BY <7>5 DEF RunDies, PlanRevised, AssetsRebuilt
            <7>6. CASE ReportGoesOn /\ ~ReportWrites
              BY <7>6 DEF ReportGoesOn, ReportBegins, ReportReadsMetrics,
                 ReportReadsModel, ReportHashesPlan, ReportDies, DraftTakes
            <7> QED BY <3>3, <5>2, <7>1, <7>2, <7>3, <7>4, <7>5, <7>6 DEF World
          <6>3. "metrics" \in DOMAIN store
            BY <1>2 DEF StoreInv, StoreFiles
          <6> QED BY <6>1, <6>2, <6>3
        <5> QED BY <5>1, <5>2
      <4> QED BY <1>2, <1>6, <3>1, <4>1 DEF Certifying
    <3> QED BY <3>2, <3>3
  <2> QED BY <1>1, <1>3, <1>4, <2>1, <2>2 DEF EvidenceInv
<1> QED BY <1>5, <1>6

LEMMA LeavingEvidence ==
    ASSUME EvidenceInv, Leave, UNCHANGED <<storeVars, rewrites, pack>>,
           UNCHANGED <<verified, ledger>>
    PROVE  EvidenceInv'
BY OutsideAges DEF Leave, Building

LEMMA ReadingGoesOnDated ==
    ASSUME EvidenceInv, ReadNext PROVE EvidenceInv'
<1>1. Building /\ at \in 1..9 /\ UNCHANGED evidenceVars
  BY PlaceTable DEF ReadNext, EvidenceInv, Underway
<1>2. UNCHANGED <<storeVars, rewrites, pack>> /\ UNCHANGED <<verified, ledger>>
  BY <1>1 DEF evidenceVars, othersVars, resultVars
<1>3. PICK content : content = store[Reads[at].file]
  OBVIOUS
<1>4. IF Refuses(Reads[at].into, content) THEN Leave
      ELSE Take(Reads[at].into, content)
  BY <1>3, Zenon DEF ReadNext
<1>5. CASE Leave
  BY <1>2, <1>5, LeavingEvidence
<1>6. CASE ~Refuses(Reads[at].into, content) /\ Take(Reads[at].into, content)
  <2>1. StoreInv' /\ Ages
    BY <1>2, StandingAges DEF EvidenceInv
  <2>2. Onward /\ command' = command /\ at' = at + 1
    BY <1>2, <1>6, <2>1 DEF Onward, Take
  <2>3. DOMAIN got' = Places /\ ReadingsDated'
    BY <1>1, <1>2, <1>3, <1>6, <2>2, ReadsAreDated
  <2>4. PackInv'
    BY <1>2, <2>1 DEF EvidenceInv, PackInv, Ages
  <2>5. Underway' /\ Certifying'
    BY <1>1, <2>2, <2>3 DEF Underway, Certifying, Building
  <2>6. EvidenceIsTrue'
    BY <1>2 DEF EvidenceInv, EvidenceIsTrue, VerifiedPackIsTrue, LedgerTellsItsBytes
  <2> QED BY <2>1, <2>4, <2>5, <2>6 DEF EvidenceInv
<1> QED BY <1>4, <1>5, <1>6

-----------------------------------------------------------------------------
(* Emitting into the scratch directory, by --verify *)
LEMMA EmitsAreDated ==
    ASSUME EvidenceInv, Verifying, Onward, UNCHANGED <<pack, storeVars>>,
           at \in 10..15, NEW content, content = Derived(Emits[at - 9]),
           content # {}, Take(Emits[at - 9], content)
    PROVE  DOMAIN got' = Places /\ ReadingsDated'
<1>1. PlaceAt(at) = Emits[at - 9] /\ Underway /\ Building /\ StoreInv /\ PackInv
      /\ at \in 1..15 /\ UNCHANGED <<store, pack>> /\ command' = "verify"
  BY DEF PlaceAt, EvidenceInv, Verifying, Building, storeVars, Onward
<1>2. Take(PlaceAt(at), content) /\ (at = 7 => content = store["config"])
  BY <1>1
<1>3. ReadingsDated
  BY <1>1 DEF Underway
<1>4. /\ DOMAIN got' = Places /\ got'[PlaceAt(at)] = content /\ at' = at + 1
      /\ \A n \in 1..15 : n # at => got'[PlaceAt(n)] = got[PlaceAt(n)]
  BY <1>1, <1>2, RestStays
<1>5. ASSUME at = 10 PROVE PlanEmitted'
  <2>1. content = store["preregistration"]
    BY <1>1, <1>5, PlaceTable DEF Derived
  <2>2. got'["preregistration"] = content /\ got'["plan"] = got["plan"]
    BY <1>4, <1>5, PlaceTable
  <2>3. PICK s : content = {s} /\ s \in Nat /\ store["preregistration"] = {s}
    BY <1>1, <2>1, StoreReads DEF FiledPlan
  <2>4. \A q \in got["plan"] : q <= s
    BY <1>3, <1>5, <2>3 DEF ReadingsDated, PlanLoaded, FiledPlan
  <2> QED BY <2>2, <2>3, <2>4 DEF PlanEmitted
<1>6. ASSUME at = 11 PROVE ReportEmitted'
  <2>1. content = store["report"]
    BY <1>1, <1>6, PlaceTable DEF Derived
  <2>2. got'["report"] = content /\ got'["loaded"] = got["loaded"]
    BY <1>4, <1>6, PlaceTable
  <2>3. PICK d : content = {d} /\ d.plan \in Nat /\ store["report"] = {d}
    BY <1>1, <2>1 DEF StoreInv, FiledPlan
  <2>4. \A c \in got["loaded"] : c.plan <= d.plan
    BY <1>3, <1>6, <2>3 DEF ReadingsDated, ReportLoaded, ReportedPlan
  <2> QED BY <2>2, <2>3, <2>4 DEF ReportEmitted
<1>7. ASSUME at = 12 PROVE IdentitiesEmitted'
  <2>1. content = got["config"]
    BY <1>1, <1>7, PlaceTable DEF Derived
  <2>2. got'["identities"] = content /\ got'["config"] = got["config"]
    BY <1>4, <1>7, PlaceTable
  <2> QED BY <2>1, <2>2 DEF IdentitiesEmitted
<1>8. ASSUME at = 13 PROVE TelemetryEmitted'
  <2>1. content = got["metrics"]
    BY <1>1, <1>8, PlaceTable DEF Derived
  <2>2. got'["telemetry"] = content /\ got'["metrics"] = got["metrics"]
    BY <1>4, <1>8, PlaceTable
  <2> QED BY <2>1, <2>2 DEF TelemetryEmitted
<1>9. ASSUME at = 14 PROVE ManifestEmitted'
  <2> DEFINE fresh == [plan |-> The(got["plan"]), report |-> The(got["loaded"]),
                       artifacts |-> Artifacts, code |-> The(got["code"]),
                       episodes |-> The(got["config"]).episodes]
  <2>1. content = {fresh}
    BY <1>1, <1>9, PlaceTable DEF Derived
  <2>2. "report" \in DOMAIN fresh /\ fresh.report = The(got["loaded"])
    OBVIOUS
  <2> HIDE DEF fresh
  <2>3. got'["manifest"] = {fresh} /\ got'["loaded"] = got["loaded"]
    BY <1>4, <1>9, <2>1, PlaceTable
  <2> QED BY <2>2, <2>3 DEF ManifestEmitted
<1>10. ASSUME at = 15 PROVE ArtifactsEmitted'
  <2>1. content = {Artifacts}
    BY <1>1, <1>10, PlaceTable DEF Derived
  <2>2. got'["artifacts"] = {Artifacts}
    BY <1>4, <1>10, <2>1, PlaceTable
  <2>3. got'["hash_preregistration"] = got["hash_preregistration"]
        /\ got'["hash_report"] = got["hash_report"]
        /\ got'["hash_config"] = got["hash_config"]
        /\ got'["hash_metrics"] = got["hash_metrics"]
    BY <1>4, <1>10, PlaceTable
  <2>4. Artifacts' = Artifacts
    BY <2>3, Zenon DEF Artifacts
  <2> QED BY <2>2, <2>4 DEF ArtifactsEmitted
<1>11. TelemetryWritten'
  BY <1>1 DEF TelemetryWritten
<1>12. /\ PlanHashed' /\ ReportHashed' /\ ConfigHashed' /\ MetricsHashed'
       /\ MetricsSettled' /\ ReportLoaded' /\ PlanLoaded' /\ ConfigLoaded'
       /\ MetricsLoaded' /\ (at # 10 => PlanEmitted') /\ (at # 11 => ReportEmitted')
       /\ (at # 12 => IdentitiesEmitted') /\ (at # 13 => TelemetryEmitted')
       /\ (at # 14 => ManifestEmitted') /\ (at # 15 => ArtifactsEmitted')
  BY <1>1, <1>2, RestStays
<1> QED BY <1>4, <1>5, <1>6, <1>7, <1>8, <1>9, <1>10, <1>11, <1>12 DEF ReadingsDated

-----------------------------------------------------------------------------
(* Emitting into the pack, by build *)
LEMMA PackStaysPast ==
    ASSUME EvidenceInv, command = "build", Ages, UNCHANGED storeVars, at \in 10..15,
           NEW content, content = Derived(Emits[at - 9]), content # {},
           pack' = [pack EXCEPT ![Emits[at - 9]] = content]
    PROVE  /\ PackInv' /\ (at = 13 => pack'["telemetry"] = got["metrics"])
           /\ at # 13 => pack'["telemetry"] = pack["telemetry"]
           /\ at # 15 => pack'["artifacts"] = pack["artifacts"]
<1>1. StoreInv /\ PackInv /\ ReadingsDated /\ UNCHANGED <<store, running, latest>>
  BY DEF EvidenceInv, Underway, Building, storeVars
<1>2. Emits[at - 9] \in PackFiles
      /\ Emits[at - 9] =
            (IF at = 10 THEN "preregistration" ELSE IF at = 11 THEN "report"
             ELSE IF at = 12 THEN "identities" ELSE IF at = 13 THEN "telemetry"
             ELSE IF at = 14 THEN "manifest" ELSE "artifacts")
  BY DEF Emits, PackFiles
<1>3. DOMAIN pack' = PackFiles /\ pack'[Emits[at - 9]] = content
      /\ \A f \in PackFiles : f # Emits[at - 9] => pack'[f] = pack[f]
  BY <1>1, <1>2 DEF PackInv
<1>4. \A x : (FiledPlan(x) => FiledPlan(x)') /\ (ReportedPlan(x) => ReportedPlan(x)')
             /\ (PastConfig(x) => PastConfig(x)')
  BY DEF Ages
<1>5. \A k, h, t : (Hashed(k, h) => Hashed(k, h)')
                   /\ (Loaded(k, h, t) => Loaded(k, h, t)')
  BY <1>1 DEF Hashed, Loaded
<1>6. \A p \in pack'["preregistration"] :
          pack'["preregistration"] = {p} /\ FiledPlan(p)'
  <2>1. CASE at = 10
    <3>1. content = store["preregistration"] /\ pack'["preregistration"] = content
      BY <1>2, <1>3, <2>1 DEF Derived
    <3> QED BY <1>1, <1>4, <3>1, StoreReads
  <2>2. CASE at # 10
    BY <1>1, <1>2, <1>3, <1>4, <2>2 DEF PackInv, PackFiles
  <2> QED BY <2>1, <2>2
<1>7. \A a \in pack'["report"] : pack'["report"] = {a} /\ ReportedPlan(a.plan)'
  <2>1. CASE at = 11
    <3>1. content = store["report"] /\ pack'["report"] = content
      BY <1>2, <1>3, <2>1 DEF Derived
    <3> QED BY <1>1, <1>4, <3>1, StoreReads
  <2>2. CASE at # 11
    BY <1>1, <1>2, <1>3, <1>4, <2>2 DEF PackInv, PackFiles
  <2> QED BY <2>1, <2>2
<1>8. \A c \in pack'["identities"] : pack'["identities"] = {c} /\ PastConfig(c)'
  <2>1. CASE at = 12
    <3>1. content = got["config"] /\ pack'["identities"] = content
      BY <1>2, <1>3, <2>1 DEF Derived
    <3>2. \E c : got["config"] = {c} /\ PastConfig(c)
      BY <1>1, <2>1 DEF ReadingsDated, ConfigLoaded
    <3> QED BY <1>4, <3>1, <3>2
  <2>2. CASE at # 12
    BY <1>1, <1>2, <1>3, <1>4, <2>2 DEF PackInv, PackFiles
  <2> QED BY <2>1, <2>2
<1>9. \A x \in pack'["manifest"] : pack'["manifest"] = {x}
  <2>1. CASE at = 14
    <3> DEFINE fresh == [plan |-> The(got["plan"]), report |-> The(got["loaded"]),
                         artifacts |-> Artifacts, code |-> The(got["code"]),
                         episodes |-> The(got["config"]).episodes]
    <3>1. content = {fresh}
      BY <1>2, <2>1 DEF Derived
    <3> HIDE DEF fresh
    <3> QED BY <1>2, <1>3, <2>1, <3>1
  <2>2. CASE at # 14
    BY <1>1, <1>2, <1>3, <2>2 DEF PackInv, PackFiles
  <2> QED BY <2>1, <2>2
<1>10. /\ at = 13 => pack'["telemetry"] = got["metrics"]
       /\ at # 13 => pack'["telemetry"] = pack["telemetry"]
       /\ at = 15 => pack'["artifacts"] = {Artifacts}
       /\ at # 15 => pack'["artifacts"] = pack["artifacts"]
  <2>1. at = 13 => content = got["metrics"]
    BY <1>2 DEF Derived
  <2>2. at = 15 => content = {Artifacts}
    BY <1>2 DEF Derived
  <2> QED BY <1>2, <1>3, <2>1, <2>2 DEF PackFiles
<1>11. \A t \in pack'["telemetry"] : pack'["telemetry"] = {t}
  <2>1. CASE at = 13
    BY <1>1, <1>10, <2>1 DEF ReadingsDated, MetricsLoaded
  <2>2. CASE at # 13
    BY <1>1, <1>10, <2>2 DEF PackInv
  <2> QED BY <2>1, <2>2
<1>12. \A a \in pack'["artifacts"] :
           /\ pack'["artifacts"] = {a} /\ PastConfig(a.config)
           /\ Hashed(a.config, a.metrics)
           /\ \A t \in pack'["telemetry"] : Loaded(a.config, a.metrics, t)
  <2>1. PICK t : /\ got["metrics"] = {t}
                 /\ \A k \in got["hash_config"], m \in got["hash_metrics"] :
                        Loaded(k, m, t)
                 /\ at <= 13 => \A a \in pack["artifacts"] :
                                    Loaded(a.config, a.metrics, t)
    BY <1>1 DEF ReadingsDated, MetricsLoaded
  <2>2. CASE at = 13
    BY <1>1, <1>10, <2>1, <2>2 DEF PackInv
  <2>3. CASE at = 15
    <3>1. PICK k : got["hash_config"] = {k} /\ PastConfig(k)
      BY <1>1 DEF ReadingsDated, ConfigHashed
    <3>2. PICK m : got["hash_metrics"] = {m} /\ Hashed(k, m)
      BY <1>1, <3>1 DEF ReadingsDated, MetricsHashed
    <3>3. Artifacts.config = k /\ Artifacts.metrics = m
      BY <3>1, <3>2, OneContent DEF Artifacts
    <3>4. pack["telemetry"] = {t}
      BY <1>1, <2>1, <2>3 DEF ReadingsDated, TelemetryWritten
    <3> QED BY <1>10, <2>1, <2>3, <3>1, <3>2, <3>3, <3>4
  <2>4. CASE at # 13 /\ at # 15
    BY <1>1, <1>10, <2>4 DEF PackInv
  <2> QED BY <2>2, <2>3, <2>4
<1>13. \A a \in pack'["artifacts"] :
           /\ pack'["artifacts"] = {a} /\ PastConfig(a.config)'
           /\ Hashed(a.config, a.metrics)'
           /\ \A t \in pack'["telemetry"] : Loaded(a.config, a.metrics, t)'
  BY <1>4, <1>5, <1>12
<1> QED BY <1>3, <1>6, <1>7, <1>8, <1>9, <1>10, <1>11, <1>13 DEF PackInv

LEMMA EmittingKeeps ==
    ASSUME EvidenceInv, EmitNext PROVE EvidenceInv'
<1>1. Building /\ at \in 10..15 /\ Underway /\ DOMAIN got = Places /\ ReadingsDated
  BY PlaceTable DEF EmitNext, EvidenceInv, Underway
<1>2. UNCHANGED storeVars /\ UNCHANGED <<storeVars, rewrites, verified, ledger>>
  BY DEF EmitNext
<1>3. PICK content : content = Derived(Emits[at - 9])
  OBVIOUS
<1>4. \/ Leave /\ UNCHANGED pack
      \/ /\ content # {} /\ command = "build" /\ GoOn
         /\ pack' = [pack EXCEPT ![Emits[at - 9]] = content]
      \/ /\ content # {} /\ command # "build" /\ UNCHANGED pack
         /\ Take(Emits[at - 9], content)
  <2>1. Len(Reads) = 9
    BY PlaceTable
  <2> QED BY <1>3, <2>1 DEF EmitNext
<1>5. CASE Leave /\ UNCHANGED pack
  BY <1>2, <1>5, LeavingEvidence
<1>6. StoreInv' /\ Ages /\ EvidenceIsTrue'
  BY <1>2, StandingAges DEF EvidenceInv, EvidenceIsTrue, VerifiedPackIsTrue,
                            LedgerTellsItsBytes
<1>7. CASE /\ content # {} /\ command = "build" /\ GoOn
           /\ pack' = [pack EXCEPT ![Emits[at - 9]] = content]
  <2>1. Onward /\ got' = got /\ at' = at + 1 /\ command' = "build"
    BY <1>6, <1>7 DEF Onward, GoOn, Verifying
  <2>2. /\ PackInv' /\ (at = 13 => pack'["telemetry"] = got["metrics"])
        /\ at # 13 => pack'["telemetry"] = pack["telemetry"]
        /\ at # 15 => pack'["artifacts"] = pack["artifacts"]
    BY <1>1, <1>2, <1>3, <1>6, <1>7, PackStaysPast
  <2>3. \A n \in 1..9 : \A S : Kept(n, S)
    BY <1>1, <2>1 DEF Kept, Agree
  <2>4. PlanHashed' /\ ReportHashed' /\ ConfigHashed' /\ MetricsHashed'
    BY <1>1, <2>1, <2>3, HashesStay
  <2>5. ReportLoaded' /\ PlanLoaded' /\ ConfigLoaded'
    BY <1>1, <2>1, <2>3, LoadsStay
  <2>6. MetricsLoaded'
    BY <1>1, <2>1, <2>2, <2>3, LoadedMetricsStay DEF EvidenceInv
  <2>7. MetricsSettled' /\ PlanEmitted' /\ ReportEmitted' /\ IdentitiesEmitted'
        /\ TelemetryEmitted' /\ ManifestEmitted' /\ ArtifactsEmitted'
    BY <2>1 DEF Verifying, MetricsSettled, PlanEmitted, ReportEmitted,
       IdentitiesEmitted, TelemetryEmitted, ManifestEmitted, ArtifactsEmitted
  <2>8. TelemetryWritten'
    BY <1>1, <1>7, <2>1, <2>2 DEF TelemetryWritten, ReadingsDated
  <2>9. Underway'
    BY <1>1, <2>1, <2>4, <2>5, <2>6, <2>7, <2>8 DEF Underway, ReadingsDated
  <2>10. Certifying'
    BY <2>1 DEF Certifying
  <2> QED BY <1>6, <2>2, <2>9, <2>10 DEF EvidenceInv
<1>8. CASE /\ content # {} /\ command # "build" /\ UNCHANGED pack
           /\ Take(Emits[at - 9], content)
  <2>1. Onward /\ Verifying /\ command' = "verify" /\ at' = at + 1
    BY <1>1, <1>6, <1>8 DEF Onward, Take, Verifying, Building
  <2>2. DOMAIN got' = Places /\ ReadingsDated'
    BY <1>1, <1>2, <1>3, <1>8, <2>1, EmitsAreDated
  <2>3. PackInv'
    BY <1>6, <1>8 DEF EvidenceInv, PackInv, Ages
  <2>4. Underway' /\ Certifying'
    BY <1>1, <2>1, <2>2 DEF Underway, Certifying
  <2> QED BY <1>6, <2>3, <2>4 DEF EvidenceInv
<1> QED BY <1>4, <1>5, <1>7, <1>8

-----------------------------------------------------------------------------
(* What --verify passes *)
\* In a pack in which nothing diverges, plans, reports and configurations are
\* older than their hashes and equal to what was read after them; and the
\* metrics were read between two equal hashes of them, under one configuration.
LEMMA PassedPackIsTrue ==
    ASSUME EvidenceInv, Verifying, at = 16, ~Diverges
    PROVE  LET hashes == The(pack["artifacts"])
           IN  /\ pack["telemetry"] = {hashes.metrics}
               /\ pack["identities"] = {hashes.config}
               /\ pack["preregistration"] = {hashes.preregistration}
               /\ \A r \in pack["report"]
                        \union {hashes.report, The(pack["manifest"]).report} :
                      r.plan = hashes.preregistration
<1>1. Building /\ ReadingsDated /\ PackInv
  BY DEF EvidenceInv, Underway, Building, Verifying
<1>2. pack["preregistration"] = got["preregistration"] /\ pack["report"] = got["report"]
      /\ pack["identities"] = got["identities"] /\ pack["telemetry"] = got["telemetry"]
      /\ pack["artifacts"] = got["artifacts"]
  <2>1. \A f \in PackFiles \ {"manifest"} : pack[f] = got[f]
    BY DEF Diverges
  <2> QED BY <2>1 DEF PackFiles
<1>3. PICK h : got["hash_preregistration"] = {h} /\ h \in Nat
            /\ \A p \in pack["preregistration"] : p <= h
  BY <1>1 DEF ReadingsDated, PlanHashed, FiledPlan
<1>4. PICK q : got["plan"] = {q} /\ q \in Nat /\ The(got["loaded"]).plan = q /\ h <= q
  BY <1>1, <1>3 DEF ReadingsDated, PlanLoaded, FiledPlan
<1>5. PICK s \in Nat : got["preregistration"] = {s} /\ q <= s
  BY <1>1, <1>4 DEF ReadingsDated, PlanEmitted
<1>6. s = h /\ q = h
  BY <1>2, <1>3, <1>4, <1>5
<1>7. PICK b : got["hash_report"] = {b} /\ b.plan \in Nat
            /\ \A a \in pack["report"] : a.plan <= b.plan
  BY <1>1 DEF ReadingsDated, ReportHashed, ReportedPlan
<1>8. PICK l : got["loaded"] = {l} /\ l.plan \in Nat /\ b.plan <= l.plan
  BY <1>1, <1>7 DEF ReadingsDated, ReportLoaded, ReportedPlan
<1>9. PICK d : got["report"] = {d} /\ d.plan \in Nat /\ l.plan <= d.plan
  BY <1>1, <1>8 DEF ReadingsDated, ReportEmitted
<1>10. pack["report"] = {d} /\ d.plan <= b.plan
  BY <1>2, <1>7, <1>9
<1>11. l.plan = h
  BY <1>4, <1>6, <1>8, OneContent
<1>12. b.plan = h /\ d.plan = h
  BY <1>3, <1>7, <1>8, <1>9, <1>10, <1>11
<1>13. PICK k : got["hash_config"] = {k} /\ PastConfig(k)
            /\ \A c \in pack["identities"] : Older(c, k)
  BY <1>1 DEF ReadingsDated, ConfigHashed
<1>14. PICK c : got["config"] = {c} /\ PastConfig(c) /\ Older(k, c)
  BY <1>1, <1>13 DEF ReadingsDated, ConfigLoaded
<1>15. pack["identities"] = {c} /\ c = k
  <2>1. pack["identities"] = {c}
    BY <1>1, <1>2, <1>14 DEF ReadingsDated, IdentitiesEmitted
  <2> QED BY <1>13, <1>14, <2>1, OlderBothWays DEF PastConfig
<1>16. PICK m : got["hash_metrics"] = {m}
  BY <1>1 DEF ReadingsDated, MetricsHashed
<1>17. Artifacts = [preregistration |-> h, report |-> b, config |-> k, metrics |-> m]
  BY <1>3, <1>7, <1>13, <1>16, OneContent DEF Artifacts
<1>18. PICK a : a = Artifacts
  OBVIOUS
<1>19. pack["artifacts"] = {a} /\ The(pack["artifacts"]) = a
  <2>1. got["artifacts"] = {Artifacts}
    BY <1>1 DEF ReadingsDated, ArtifactsEmitted
  <2> QED BY <1>2, <1>18, <2>1, OneContent, Zenon
<1>20. a.preregistration = h /\ a.report = b /\ a.config = k /\ a.metrics = m
  BY <1>17, <1>18
<1>21. pack["telemetry"] = {m}
  <2>1. PICK t : pack["telemetry"] = {t}
    BY <1>1, <1>2 DEF ReadingsDated, TelemetryEmitted, MetricsLoaded
  <2>2. SameConfig(a.config)
    BY <1>14, <1>15, <1>20 DEF SameConfig
  <2>3. t = a.metrics
    BY <1>1, <1>13, <1>16, <1>19, <1>20, <2>1, <2>2 DEF ReadingsDated, MetricsSettled
  <2> QED BY <1>20, <2>1, <2>3
<1>22. The(pack["manifest"]).report = l
  <2>1. PICK x : got["manifest"] = {x} /\ "report" \in DOMAIN x
            /\ x.report = The(got["loaded"])
    BY <1>1 DEF ReadingsDated, ManifestEmitted
  <2>2. The(got["manifest"]) = x /\ The(got["loaded"]) = l
    BY <1>8, <2>1, OneContent
  <2>3. PICK y : y = The(pack["manifest"])
    OBVIOUS
  <2>4. [y EXCEPT !.code = x.code] = x
    BY <2>2, <2>3 DEF Diverges
  <2>5. y.report = x.report
    BY <2>1, <2>4
  <2> QED BY <2>1, <2>2, <2>3, <2>5
<1> QED BY <1>2, <1>5, <1>6, <1>8, <1>10, <1>11, <1>12, <1>15, <1>19, <1>20, <1>21,
           <1>22

LEMMA ReturningKeeps ==
    ASSUME EvidenceInv, BuildReturns PROVE EvidenceInv'
<1>1. Building /\ at = 16 /\ Leave
  BY PlaceTable DEF BuildReturns, EvidenceInv, Underway
<1>2. UNCHANGED <<storeVars, rewrites, pack>> /\ ledger' = ledger
  BY DEF BuildReturns
<1>3. StoreInv' /\ Ages
  BY <1>2, StandingAges DEF EvidenceInv
<1>4. PackInv' /\ Underway' /\ Certifying'
  BY <1>1, <1>2, <1>3 DEF EvidenceInv, PackInv, Ages, Underway, Certifying,
                          Building, Leave
<1>5. LedgerTellsItsBytes'
  BY <1>2 DEF EvidenceInv, EvidenceIsTrue, LedgerTellsItsBytes
<1>6. VerifiedPackIsTrue'
  <2>1. CASE Verifying /\ ~Diverges
    <3>1. verified' = {pack}
      BY <2>1, Zenon DEF BuildReturns, Verifying
    <3> QED BY <1>1, <2>1, <3>1, PassedPackIsTrue DEF VerifiedPackIsTrue
  <2>2. CASE ~(Verifying /\ ~Diverges)
    <3>1. verified' = verified
      BY <2>2, Zenon DEF BuildReturns, Verifying
    <3> QED BY <3>1 DEF VerifiedPackIsTrue, EvidenceInv, EvidenceIsTrue
  <2> QED BY <2>1, <2>2
<1> QED BY <1>3, <1>4, <1>5, <1>6 DEF EvidenceInv, EvidenceIsTrue

-----------------------------------------------------------------------------
(* assemble() *)
\* The steps of certify leave the store, the pack and what was verified alone.
LEMMA CertifyFrame ==
    ASSUME EvidenceInv, UNCHANGED <<storeVars, pack, verified>>, rewrites' \in Nat,
           command' \in {"certify", "none"}, Certifying', LedgerTellsItsBytes'
    PROVE  EvidenceInv'
<1>1. UNCHANGED <<store, running, draft, latest>>
  BY DEF storeVars
<1>2. StoreInv'
  BY <1>1 DEF EvidenceInv, StoreInv, FiledPlan
<1>3. PackInv'
  BY <1>1 DEF EvidenceInv, PackInv, FiledPlan, ReportedPlan, PastConfig, Hashed, Loaded
<1>4. Underway'
  BY DEF Underway, Building
<1>5. VerifiedPackIsTrue'
  BY DEF EvidenceInv, EvidenceIsTrue, VerifiedPackIsTrue
<1> QED BY <1>2, <1>3, <1>4, <1>5 DEF EvidenceInv, EvidenceIsTrue

\* What a step of certify takes.
LEMMA CertifyTakes ==
    ASSUME EvidenceInv, command = "certify", NEW place \in CertifyPlaces,
           NEW content, Take(place, content)
    PROVE  /\ DOMAIN got' = CertifyPlaces /\ got'[place] = content
           /\ \A q \in CertifyPlaces : q # place => got'[q] = got[q]
           /\ at' = at + 1 /\ at \in 1..6 /\ command' = "certify"
BY DEF Take, EvidenceInv, Certifying

LEMMA CertifyKeeps ==
    ASSUME EvidenceInv,
           \/ LoadEvidence \/ VerifyBinding \/ LoadMetrics \/ HashBaseline
           \/ WriteCertificates \/ WriteLedger
    PROVE  EvidenceInv'
<1>1. command = "certify" /\ Certifying /\ rewrites \in Nat
      /\ \E m : store["metrics"] = {m}
  BY DEF LoadEvidence, VerifyBinding, LoadMetrics, HashBaseline,
     WriteCertificates, WriteLedger, EvidenceInv, StoreInv
<1>2. UNCHANGED <<storeVars, pack, verified>> /\ rewrites' \in Nat
      /\ store'["metrics"] = store["metrics"]
  <2>1. UNCHANGED <<storeVars, pack, verified>> /\ rewrites' \in {0, rewrites}
    BY DEF LoadEvidence, VerifyBinding, LoadMetrics, HashBaseline,
       WriteCertificates, WriteLedger, evidenceVars, othersVars, resultVars
  <2> QED BY <1>1, <2>1 DEF storeVars
<1>3. ledger' = ledger => LedgerTellsItsBytes'
  BY DEF EvidenceInv, EvidenceIsTrue, LedgerTellsItsBytes
<1>4. CASE Leave /\ ledger' = ledger
  <2>1. command' = "none" /\ Certifying'
    BY <1>4 DEF Leave, Certifying
  <2> QED BY <1>2, <1>3, <1>4, <2>1, CertifyFrame
<1>5. CASE LoadEvidence /\ ~Leave
  <2>1. PICK x : Take("expected", {x}) /\ at = 1 /\ ledger' = ledger
    BY <1>5 DEF LoadEvidence, evidenceVars, othersVars, resultVars
  <2>2. got'["expected"] = {x} /\ at' = 2 /\ command' = "certify"
        /\ DOMAIN got' = CertifyPlaces
    BY <1>1, <2>1, CertifyTakes DEF CertifyPlaces
  <2>3. Certifying'
    BY <2>2 DEF Certifying
  <2> QED BY <1>2, <1>3, <2>1, <2>2, <2>3, CertifyFrame
<1>6. CASE VerifyBinding /\ ~Leave
  <2>1. at = 2 /\ GoOn /\ store["metrics"] = got["expected"] /\ ledger' = ledger
    BY <1>6 DEF VerifyBinding, resultVars
  <2>2. at' = 3 /\ got' = got /\ command' = "certify" /\ DOMAIN got = CertifyPlaces
        /\ \E x : got["expected"] = {x}
    BY <1>1, <2>1 DEF GoOn, Certifying
  <2>3. Certifying'
    BY <1>2, <2>1, <2>2 DEF Certifying
  <2> QED BY <1>2, <1>3, <2>1, <2>2, <2>3, CertifyFrame
<1>7. CASE LoadMetrics
  <2>1. at = 3 /\ Take("rows", store["metrics"]) /\ ledger' = ledger
        /\ rewrites' = rewrites
    BY <1>7 DEF LoadMetrics, evidenceVars, othersVars, resultVars
  <2>2. got'["rows"] = store["metrics"] /\ got'["expected"] = got["expected"]
        /\ at' = 4 /\ command' = "certify" /\ DOMAIN got' = CertifyPlaces
    BY <1>1, <2>1, CertifyTakes DEF CertifyPlaces
  <2>3. (\E x : got["expected"] = {x})
        /\ (rewrites = 0 => store["metrics"] = got["expected"])
    BY <1>1, <2>1 DEF Certifying
  <2>4. Certifying'
    BY <1>1, <1>2, <2>1, <2>2, <2>3 DEF Certifying
  <2> QED BY <1>2, <1>3, <2>1, <2>2, <2>4, CertifyFrame
<1>8. CASE HashBaseline
  <2>1. at = 4 /\ Take("baseline", store["metrics"]) /\ ledger' = ledger
        /\ rewrites' = rewrites
    BY <1>8 DEF HashBaseline, evidenceVars, othersVars, resultVars
  <2>2. got'["baseline"] = store["metrics"] /\ got'["expected"] = got["expected"]
        /\ got'["rows"] = got["rows"]
        /\ at' = 5 /\ command' = "certify" /\ DOMAIN got' = CertifyPlaces
    BY <1>1, <2>1, CertifyTakes DEF CertifyPlaces
  <2>3. (\E x : got["expected"] = {x}) /\ (\E r : got["rows"] = {r})
        /\ (rewrites = 0 => got["rows"] = got["expected"])
        /\ (rewrites = 1 => got["rows"] = got["expected"]
                            \/ store["metrics"] = got["rows"])
    <3>1. (\E x : got["expected"] = {x}) /\ (\E r : got["rows"] = {r})
      BY <1>1, <2>1 DEF Certifying
    <3>2. rewrites = 0 => got["rows"] = got["expected"]
      BY <1>1, <2>1 DEF Certifying
    <3>3. rewrites = 1 => got["rows"] = got["expected"]
                          \/ store["metrics"] = got["rows"]
      BY <1>1, <2>1 DEF Certifying
    <3> QED BY <3>1, <3>2, <3>3
  <2>4. rewrites <= 1 => rewrites = 0 \/ rewrites = 1
    BY <1>1
  <2>5. rewrites <= 1 /\ got'["baseline"] = got'["expected"]
        => got'["rows"] = got'["expected"]
    BY <2>2, <2>3, <2>4
  <2>6. Certifying'
    <3>1. /\ DOMAIN got' = CertifyPlaces /\ at' \in 1..6 /\ command' = "certify"
          /\ \E x : got'["expected"] = {x}
          /\ \E r : got'["rows"] = {r}
          /\ \E m : got'["baseline"] = {m}
      <4>1. got'["baseline"] = store["metrics"] /\ \E m : store["metrics"] = {m}
        BY <1>1, <2>2
      <4>2. DOMAIN got' = CertifyPlaces /\ at' \in 1..6 /\ command' = "certify"
        BY <2>2
      <4>3. (\E x : got'["expected"] = {x}) /\ \E r : got'["rows"] = {r}
        BY <2>2, <2>3
      <4> QED BY <4>1, <4>2, <4>3
    <3>2. rewrites' <= 1 /\ got'["baseline"] = got'["expected"]
          => got'["rows"] = got'["expected"]
      BY <2>1, <2>5
    <3>3. at' # 3 /\ at' # 4
      BY <2>2
    <3> QED BY <3>1, <3>2, <3>3 DEF Certifying
  <2> QED BY <1>2, <1>3, <2>1, <2>2, <2>6, CertifyFrame
<1>9. CASE WriteCertificates
  <2>1. at = 5 /\ GoOn /\ ledger' = ledger /\ rewrites' = rewrites
    BY <1>9 DEF WriteCertificates
  <2>2. at' = 6 /\ got' = got /\ command' = "certify"
    BY <1>1, <2>1 DEF GoOn
  <2>3. Certifying'
    <3>1. (\E x : got["expected"] = {x}) /\ (\E r : got["rows"] = {r})
          /\ \E m : got["baseline"] = {m}
      BY <1>1, <2>1 DEF Certifying
    <3>2. rewrites <= 1 /\ got["baseline"] = got["expected"]
          => got["rows"] = got["expected"]
      BY <1>1, <2>1 DEF Certifying
    <3>3. DOMAIN got = CertifyPlaces
      BY <1>1 DEF Certifying
    <3> QED BY <2>1, <2>2, <3>1, <3>2, <3>3 DEF Certifying
  <2> QED BY <1>2, <1>3, <2>1, <2>2, <2>3, CertifyFrame
<1>10. CASE WriteLedger
  <2>1. at = 6 /\ Leave
    BY <1>10 DEF WriteLedger
  <2>2. PICK x, r, m : got["expected"] = {x} /\ got["rows"] = {r}
            /\ got["baseline"] = {m}
            /\ (rewrites <= 1 /\ got["baseline"] = got["expected"]
                => got["rows"] = got["expected"])
    BY <1>1, <2>1 DEF Certifying
  <2>3. ledger' = {[expected |-> x, baseline |-> m, rows |-> r,
                    rewrites |-> rewrites]}
    BY <1>10, <2>2, OneContent DEF WriteLedger
  <2>4. LedgerTellsItsBytes'
    BY <2>2, <2>3 DEF LedgerTellsItsBytes
  <2>5. command' = "none" /\ Certifying'
    BY <2>1 DEF Leave, Certifying
  <2> QED BY <1>2, <2>4, <2>5, CertifyFrame
<1>11. CASE (LoadEvidence \/ VerifyBinding) /\ Leave
  BY <1>4, <1>11 DEF LoadEvidence, VerifyBinding, evidenceVars, othersVars, resultVars
<1> QED BY <1>5, <1>6, <1>7, <1>8, <1>9, <1>10, <1>11

-----------------------------------------------------------------------------
(* A command begins, or is another's *)
LEMMA StartingEvidence ==
    ASSUME EvidenceInv, StartBuild \/ StartCertify PROVE EvidenceInv'
<1>1. command = "none" /\ at' = 1 /\ UNCHANGED evidenceVars
  BY DEF StartBuild, StartCertify, Give
<1>2. UNCHANGED <<storeVars, rewrites, pack>> /\ UNCHANGED <<verified, ledger>>
  BY <1>1 DEF evidenceVars, othersVars, resultVars
<1>3. StoreInv' /\ Ages
  BY <1>2, StandingAges DEF EvidenceInv
<1>4. PackInv' /\ EvidenceIsTrue'
  BY <1>2, <1>3 DEF EvidenceInv, PackInv, Ages, EvidenceIsTrue,
                    VerifiedPackIsTrue, LedgerTellsItsBytes
<1>5. (command' \in {"build", "verify"} /\ DOMAIN got' = Places)
      \/ (command' = "certify" /\ DOMAIN got' = CertifyPlaces)
  BY DEF StartBuild, StartCertify, Give
<1>6. Underway'
  <2>1. ReadingsDated'
    BY <1>1 DEF ReadingsDated, PlanHashed, ReportHashed, ConfigHashed,
        MetricsHashed, MetricsSettled, ReportLoaded, PlanLoaded, ConfigLoaded,
        MetricsLoaded, PlanEmitted, ReportEmitted, IdentitiesEmitted,
        TelemetryEmitted, ManifestEmitted, ArtifactsEmitted, TelemetryWritten
  <2>2. Building' => DOMAIN got' = Places
    BY <1>5 DEF Building
  <2> QED BY <1>1, <2>1, <2>2 DEF Underway
<1>7. Certifying'
  BY <1>1, <1>5 DEF Certifying
<1> QED BY <1>3, <1>4, <1>6, <1>7 DEF EvidenceInv

LEMMA ReleaseStands ==
    ASSUME ReleaseNext
    PROVE  UNCHANGED <<command, at, got>> \/ command' \in {"audit", "export", "none"}
<1>1. ASSUME Releasing, GoOn \/ Leave \/ \E q, content : Take(q, content)
      PROVE  command' \in {"audit", "export", "none"}
  BY <1>1 DEF GoOn, Leave, Take, Releasing
<1>2. CASE Edit \/ AnotherRoot
  BY <1>2 DEF Edit, AnotherRoot, Change, deskVars
<1>3. CASE StartAudit \/ StartExport
  BY <1>3 DEF StartAudit, StartExport, Give
<1>4. CASE ListFiles \/ ReadFile \/ WriteArchive
  <2>1. Releasing /\ (GoOn \/ Leave \/ \E q, content : Take(q, content))
    BY <1>4, Zenon DEF ListFiles, ReadFile, WriteArchive
  <2> QED BY <1>1, <2>1
<1>5. CASE AuditReports \/ ExtractTree \/ WriteExportOk
  <2>1. Releasing /\ (GoOn \/ Leave)
    BY <1>5 DEF AuditReports, ExtractTree, WriteExportOk, Judging, Releasing
  <2> QED BY <1>1, <2>1
<1>6. CASE ExportReports
  <2>1. Releasing /\ (GoOn \/ Leave)
    BY <1>6, Zenon DEF ExportReports, Judging
  <2> QED BY <1>1, <2>1
<1> QED BY <1>2, <1>3, <1>4, <1>5, <1>6, Zenon DEF ReleaseNext


LEMMA OthersKeep ==
    ASSUME EvidenceInv, PlanNext \/ ReleaseNext, UNCHANGED evidenceVars
    PROVE  EvidenceInv'
<1>1. UNCHANGED <<storeVars, rewrites, pack>> /\ UNCHANGED <<verified, ledger>>
  BY DEF evidenceVars, othersVars, resultVars
<1>2. UNCHANGED <<command, at, got>> \/ (~Building' /\ command' # "certify")
  <2>1. \/ UNCHANGED <<command, at, got>>
        \/ command' \in PlanSide \union {"audit", "export"}
    BY PlanStands, ReleaseStands DEF PlanSide
  <2> QED BY <2>1 DEF PlanSide, Building
<1> QED BY <1>1, <1>2, OutsideAges

LEMMA InitEvidence == OperatorInit => EvidenceInv
<1> SUFFICES ASSUME OperatorInit PROVE EvidenceInv
  OBVIOUS
<1> USE DEF OperatorInit, DeskInit, EvidenceInit
<1> DEFINE c == ConfigOf(1, assets, FALSE)
<1>1. PICK m \in Results :
          store = [preregistration |-> {1}, config |-> {c}, metrics |-> {m},
                   report |-> {ReportOn(1, m, FALSE, 1)}, code |-> {"committed"}]
  OBVIOUS
<1>2. DOMAIN store = StoreFiles /\ store["config"] = {c} /\ store["metrics"] = {m}
      /\ store["preregistration"] = {1}
      /\ store["report"] = {ReportOn(1, m, FALSE, 1)}
  BY <1>1 DEF StoreFiles
<1>3. c.run = 1 /\ ReportOn(1, m, FALSE, 1).plan = 1
  BY DEF ConfigOf, ReportOn
<1>4. StoreInv
  <2>1. DOMAIN draft = DraftPlaces /\ draft["plan"] = {}
    BY DEF NoDraft, DraftPlaces
  <2>2. latest = [run |-> 1, plan |-> 1] /\ rewrites = 0
    OBVIOUS
  <2>3. PICK r : r = ReportOn(1, m, FALSE, 1)
    OBVIOUS
  <2>4. r.plan = 1 /\ store["report"] = {r}
    BY <1>2, <1>3, <2>3
  <2>5. FiledPlan(r.plan)
    BY <1>2, <2>2, <2>4 DEF FiledPlan
  <2>6. PICK d : d = c
    OBVIOUS
  <2>7. store["config"] = {d} /\ d.run = latest.run
    <3>1. d.run = c.run
      BY <2>6
    <3>2. c.run = latest.run
      <4>1. latest.run = 1
        BY <2>2
      <4> QED BY <1>3, <4>1
    <3>3. store["config"] = {d}
      BY <1>2, <2>6
    <3> QED BY <3>1, <3>2, <3>3
  <2>8. \A n \in store["preregistration"] :
            store["preregistration"] = {n} /\ n \in Nat /\ n <= latest.plan
    BY <1>2, <2>2
  <2>9. latest \in [run : Nat, plan : Nat] /\ rewrites \in Nat
    BY <2>2
  <2> QED BY <1>2, <2>1, <2>4, <2>5, <2>7, <2>8, <2>9 DEF StoreInv
<1>5. PackInv
  BY DEF PackInv, PackFiles
<1>6. Underway /\ Certifying
  BY DEF Underway, Certifying, Building
<1>7. EvidenceIsTrue
  BY DEF EvidenceIsTrue, VerifiedPackIsTrue, LedgerTellsItsBytes
<1> QED BY <1>4, <1>5, <1>6, <1>7 DEF EvidenceInv

LEMMA EvidenceInvHolds == OperatorSpec => []EvidenceInv
<1>1. EvidenceInv /\ [OperatorNext]_allVars => EvidenceInv'
  <2>1. SUFFICES ASSUME EvidenceInv, [OperatorNext]_allVars PROVE EvidenceInv'
    OBVIOUS
  <2>2. CASE (PlanNext \/ ReleaseNext) /\ UNCHANGED evidenceVars
    BY <2>1, <2>2, OthersKeep
  <2>3. CASE World
    <3>1. UNCHANGED <<command, at, got, pack, verified, ledger>>
      BY <2>1, <2>3, WorldAges DEF EvidenceInv
    <3> QED BY <2>1, <2>3, <3>1, OutsideAges
  <2>4. CASE StartBuild \/ StartCertify
    BY <2>1, <2>4, StartingEvidence
  <2>5. CASE ReadNext
    BY <2>1, <2>5, ReadingGoesOnDated
  <2>6. CASE EmitNext
    BY <2>1, <2>6, EmittingKeeps
  <2>7. CASE BuildReturns
    BY <2>1, <2>7, ReturningKeeps
  <2>8. CASE LoadEvidence \/ VerifyBinding \/ LoadMetrics \/ HashBaseline
             \/ WriteCertificates \/ WriteLedger
    BY <2>1, <2>8, CertifyKeeps
  <2>9. CASE Killed
    BY <2>1, <2>9, LeavingEvidence DEF Killed, evidenceVars, othersVars, resultVars
  <2>10. CASE UNCHANGED allVars
    BY <2>1, <2>10, OutsideAges
       DEF allVars, deskVars, evidenceVars, othersVars, resultVars
  <2>11. \/ (PlanNext \/ ReleaseNext) /\ UNCHANGED evidenceVars
         \/ EvidenceNext \/ Killed \/ UNCHANGED allVars
    BY <2>1 DEF OperatorNext
  <2> QED BY <2>2, <2>3, <2>4, <2>5, <2>6, <2>7, <2>8, <2>9, <2>10, <2>11, Zenon
          DEF EvidenceNext, World, ReportGoesOn
<1> QED BY <1>1, InitEvidence, PTL DEF OperatorSpec

\* However the store is rewritten between two reads, with the same results as
\* before too, and runs, reports and commands are killed between two steps:
\* each number and identity of a pack that --verify passed comes from the file
\* whose hash it lists and its reports name its plan (bind_gates_evidence.py:
\* 353-391), and a ledger that names the bound baseline has its rows from it
\* unless two runs ended while assemble() was reading it
\* (issue_certificates.py:86-104, :259-265).
THEOREM EvidenceTrue == OperatorSpec => []EvidenceIsTrue
<1>1. EvidenceInv => EvidenceIsTrue
  BY DEF EvidenceInv
<1> QED BY <1>1, EvidenceInvHolds, PTL

=============================================================================
