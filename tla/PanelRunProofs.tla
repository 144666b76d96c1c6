---------------------------- MODULE PanelRunProofs ----------------------------
(***************************************************************************)
(* PanelRun for any number of models, cases, workers, turns, tokens and    *)
(* losses.  The invariant is about one unit of work at a time: its saved   *)
(* answers have a running total which a fresh run would arrive at again,   *)
(* and its worker stands somewhere on the way.                             *)
(***************************************************************************)
EXTENDS PanelRun, WellFoundedInduction, TLAPS

Leads == {"act", "closed", "provider_error", "invalid_response",
          "usage_missing", "response_token_limit", "invalid_json", "malformed"}
Kinds == {"string", "null", "number"}
Outcomes == Leads \union {"turn_limit", "case_token_limit"}
Rows == [max : Nat, leads : Leads, tokens : Int, models : SUBSET Kinds,
         plan : SUBSET Configs]
Stations == {"queued", "looping", "asking", "answered", "ending", "returned",
             "raised"}

TypeOK ==
    /\ plan \subseteq Configs /\ running \subseteq Configs
    /\ saved \in [Units -> Seq(Rows)]
    /\ record \in [Units -> SUBSET [outcome : Outcomes, turns : Nat, tokens : Int]]
    /\ at \in [Units -> Stations]
    /\ turn \in [Units -> Nat] /\ spent \in [Units -> Int]
    /\ outcome \in [Units -> Outcomes]
    /\ got \in [Units -> SUBSET Rows] /\ tries \in [Units -> Nat]
    /\ answered \in [Units -> [1..TurnLimit -> Nat]]
    /\ losses \in Nat

\* What had been spent after each answer, told without recursion.
RunningTotals(rows) ==
    {total \in [0..Len(rows) -> Int] :
        /\ total[0] = 0
        /\ \A t \in DOMAIN rows : total[t] = total[t - 1] + rows[t].tokens}

\* The answers can be replayed under a plan, with these running totals.
Fits(rows, total, p) ==
    /\ total \in RunningTotals(rows) /\ Len(rows) <= TurnLimit
    /\ \A t \in 1..Len(rows) :
        /\ Budget - total[t - 1] >= Least /\ rows[t].plan = p
        /\ rows[t].max = Smaller(Budget - total[t - 1], PerTurn)
        /\ t < Len(rows) => rows[t].leads = "act"

\* Where the worker of a unit stands, and the record of the unit.
Stands(u, total) ==
    /\ turn[u] <= Len(saved[u]) /\ spent[u] = total[turn[u]]
    /\ at[u] \in {"queued", "looping", "asking", "answered"}
           => outcome[u] = "turn_limit"
    /\ at[u] = "queued" => turn[u] = 0
    /\ at[u] \in {"looping", "asking", "answered"} =>
           \A t \in 1..turn[u] : saved[u][t].leads = "act"
    /\ at[u] \in {"asking", "answered"} =>
           /\ turn[u] = Len(saved[u]) /\ turn[u] < TurnLimit
           /\ Budget - spent[u] >= Least
    /\ at[u] = "answered" =>
           \E row \in Rows :
               /\ got[u] = {row} /\ row.plan = running
               /\ row.max = MaxTokens(u)
    /\ at[u] = "ending" =>
           /\ turn[u] = Len(saved[u]) /\ outcome[u] = OutcomeOf(saved[u])
           /\ \A t \in DOMAIN saved[u] : saved[u][t].leads # "malformed"
    /\ at[u] = "returned" => record[u] # {}
    /\ record[u] # {} => at[u] \in {"queued", "returned"} /\ ~Stuck(u)
    /\ \A r \in record[u] :
           r = [outcome |-> OutcomeOf(saved[u]), turns |-> Len(saved[u]),
                tokens |-> total[Len(saved[u])]]

\* How often the turns of a unit can have been answered.
Sampled(u) ==
    \A t \in 1..TurnLimit :
        /\ answered[u][t] <= losses + 1
        /\ t > Len(saved[u]) /\ (at[u] = "answered" => t # Len(saved[u]) + 1)
               => answered[u][t] <= losses

UnitInv(u) ==
    /\ \E total : Fits(saved[u], total, plan) /\ Stands(u, total)
    /\ Sampled(u)

\* What the main thread knows.
Command ==
    /\ running = {} => \A u \in Units : at[u] = "queued"
    /\ running # {} => plan = running
    /\ plan = {} => \A u \in Units : saved[u] = <<>>
    /\ \A r \in report : r = record /\ \A u \in Units : record[u] # {}

PInv == TypeOK /\ Command /\ \A u \in Units : UnitInv(u)

LEMMA InitPInv == Init => PInv
<1> SUFFICES ASSUME Init PROVE PInv
  OBVIOUS
<1> USE LimitsAssumption
<1>1. TypeOK
  BY DEF Init, TypeOK, Stations, Outcomes
<1>2. Command
  BY DEF Init, Command
<1>3. ASSUME NEW u \in Units PROVE UnitInv(u)
  <2> DEFINE total == [t \in 0..0 |-> 0]
  <2>1. Fits(saved[u], total, plan)
    BY DEF Init, Fits, RunningTotals
  <2>2. Stands(u, total)
    BY DEF Init, Stands
  <2>3. Sampled(u)
    BY DEF Init, Sampled
  <2> QED BY <2>1, <2>2, <2>3 DEF UnitInv
<1> QED BY <1>1, <1>2, <1>3 DEF PInv

\* A unit that a step does not touch.
LEMMA Untouched ==
    ASSUME NEW v \in Units, UnitInv(v), TypeOK,
           saved'[v] = saved[v], record'[v] = record[v], at'[v] = at[v],
           turn'[v] = turn[v], spent'[v] = spent[v], outcome'[v] = outcome[v],
           got'[v] = got[v], answered'[v] = answered[v],
           running' = running, plan' = plan,
           losses' = losses \/ losses' = losses + 1
    PROVE  UnitInv(v)'
<1>1. PICK total : Fits(saved[v], total, plan) /\ Stands(v, total)
  BY DEF UnitInv
<1>2. Fits(saved'[v], total, plan')
  BY <1>1
<1>3. Stands(v, total)'
  BY <1>1 DEF Stands, Stuck, MaxTokens, Remaining, OutcomeOf
<1>4. Sampled(v)'
  <2>1. losses \in Nat /\ answered[v] \in [1..TurnLimit -> Nat]
    BY DEF TypeOK
  <2>2. losses' >= losses /\ losses' \in Nat
    BY <2>1
  <2>3. \A t \in 1..TurnLimit : answered[v][t] \in Nat
    BY <2>1
  <2> QED BY <2>1, <2>2, <2>3 DEF UnitInv, Sampled
<1> QED BY <1>2, <1>3, <1>4 DEF UnitInv

-----------------------------------------------------------------------------
(* The steps of the worker of one unit *)

LEMMA TakeKeeps ==
    ASSUME PInv, NEW u \in Units, Take(u) PROVE PInv'
<1> USE DEF PInv
<1>1. /\ at[u] = "queued" /\ running # {}
      /\ at' = [at EXCEPT ![u] = IF record[u] = {} THEN "looping" ELSE "returned"]
      /\ UNCHANGED <<plan, saved, record, report, running, turn, spent, outcome,
                     got, tries, answered, losses>>
  BY DEF Take, files
<1>2. TypeOK'
  BY <1>1 DEF TypeOK, Stations
<1>3. Command'
  BY <1>1 DEF Command
<1>4. ASSUME NEW v \in Units PROVE UnitInv(v)'
  <2>1. CASE v # u
    <3>1. at'[v] = at[v]
      BY <1>1, <2>1 DEF TypeOK
    <3> QED BY <1>1, <3>1, Untouched
  <2>2. CASE v = u
    <3>1. at'[v] = (IF record[v] = {} THEN "looping" ELSE "returned")
      BY <1>1, <2>2 DEF TypeOK
    <3>2. PICK total : Fits(saved[v], total, plan) /\ Stands(v, total)
      BY DEF UnitInv
    <3>3. turn[v] = 0 /\ outcome[v] = "turn_limit"
      BY <1>1, <2>2, <3>2 DEF Stands
    <3>4. Stands(v, total)'
      BY <1>1, <3>1, <3>2, <3>3 DEF Stands, Stuck
    <3>5. Sampled(v)'
      BY <1>1, <2>2, <3>1 DEF UnitInv, Sampled
    <3> QED BY <1>1, <3>2, <3>4, <3>5 DEF UnitInv
  <2> QED BY <2>1, <2>2
<1> QED BY <1>2, <1>3, <1>4

LEMMA LeaveKeeps ==
    ASSUME PInv, NEW u \in Units, Leave(u) PROVE PInv'
<1> USE LimitsAssumption DEF PInv
<1>1. /\ at[u] = "looping" /\ ~(TurnLeft(u) /\ BudgetLeft(u))
      /\ at' = [at EXCEPT ![u] = "ending"]
      /\ outcome' = [outcome EXCEPT ![u] =
                        IF TurnLeft(u) THEN "case_token_limit" ELSE outcome[u]]
      /\ UNCHANGED <<plan, saved, record, report, running, turn, spent, got,
                     tries, answered, losses>>
  BY DEF Leave, files
<1>2. TypeOK'
  BY <1>1 DEF TypeOK, Stations, Outcomes
<1>3. Command'
  BY <1>1 DEF Command
<1>4. ASSUME NEW v \in Units PROVE UnitInv(v)'
  <2>1. CASE v # u
    <3>1. at'[v] = at[v] /\ outcome'[v] = outcome[v]
      BY <1>1, <2>1 DEF TypeOK
    <3> QED BY <1>1, <3>1, Untouched
  <2>2. CASE v = u
    <3>1. at'[v] = "ending" /\ outcome'[v] =
              (IF TurnLeft(v) THEN "case_token_limit" ELSE outcome[v])
      BY <1>1, <2>2 DEF TypeOK
    <3>2. PICK total : Fits(saved[v], total, plan) /\ Stands(v, total)
      BY DEF UnitInv
    <3>3. /\ saved[v] \in Seq(Rows) /\ turn[v] \in Nat /\ spent[v] \in Int
          /\ turn[v] <= Len(saved[v]) /\ Len(saved[v]) <= TurnLimit
          /\ Len(saved[v]) \in Nat
      BY <3>2 DEF TypeOK, Stands, Fits
    <3>4. turn[v] = Len(saved[v])
      <4>1. SUFFICES ASSUME turn[v] < Len(saved[v]) PROVE FALSE
        BY <3>3
      <4> DEFINE t == turn[v] + 1
      <4>2. t \in 1..Len(saved[v]) /\ t - 1 = turn[v] /\ turn[v] < TurnLimit
        BY <3>3, <4>1
      <4> HIDE DEF t
      <4>3. Budget - total[t - 1] >= Least
        BY <3>2, <4>2 DEF Fits
      <4>4. Budget - spent[v] >= Least
        BY <3>2, <3>3, <4>2, <4>3 DEF Stands
      <4> QED BY <1>1, <2>2, <3>3, <4>2, <4>4 DEF TurnLeft, BudgetLeft,
          Remaining
    <3>5. outcome'[v] = OutcomeOf(saved[v])
      <4>1. saved[v] # <<>> => saved[v][Len(saved[v])].leads = "act"
        BY <1>1, <2>2, <3>2, <3>3, <3>4 DEF Stands
      <4>2. outcome[v] = "turn_limit"
        BY <1>1, <2>2, <3>2 DEF Stands
      <4>3. TurnLeft(v) <=> Len(saved[v]) # TurnLimit
        BY <3>3, <3>4 DEF TurnLeft
      <4> QED BY <3>1, <4>1, <4>2, <4>3 DEF OutcomeOf
    <3>6. record[v] = {}
      BY <1>1, <2>2, <3>2 DEF Stands
    <3>9. \A t \in DOMAIN saved[v] : saved[v][t].leads # "malformed"
      <4>1. DOMAIN saved[v] = 1..turn[v]
        BY <3>3, <3>4
      <4> QED BY <1>1, <2>2, <3>2, <4>1 DEF Stands
    <3>7. Stands(v, total)'
      BY <1>1, <3>1, <3>2, <3>4, <3>5, <3>6, <3>9 DEF Stands, OutcomeOf
    <3>8. Sampled(v)'
      BY <1>1, <2>2, <3>1 DEF UnitInv, Sampled
    <3> QED BY <1>1, <3>2, <3>7, <3>8 DEF UnitInv
  <2> QED BY <2>1, <2>2
<1> QED BY <1>2, <1>3, <1>4

\* What the loop does with the answer to the turn after the last.
LEMMA UsedRow ==
    ASSUME NEW u \in Units, NEW row \in Rows, TypeOK, Use(u, row)
    PROVE  /\ turn' \in [Units -> Nat] /\ spent' \in [Units -> Int]
           /\ at' \in [Units -> Stations] /\ outcome' \in [Units -> Outcomes]
           /\ \A v \in Units : v # u =>
                /\ turn'[v] = turn[v] /\ spent'[v] = spent[v]
                /\ at'[v] = at[v] /\ outcome'[v] = outcome[v]
           /\ turn'[u] = turn[u] + 1 /\ spent'[u] = spent[u] + row.tokens
           /\ row.leads = "act" => at'[u] = "looping" /\ outcome'[u] = outcome[u]
           /\ row.leads = "malformed" =>
                  at'[u] = "raised" /\ outcome'[u] = outcome[u]
           /\ row.leads \notin {"act", "malformed"} =>
                  at'[u] = "ending" /\ outcome'[u] = row.leads
<1>1. row.leads \in Leads /\ row.tokens \in Int
  BY DEF Rows
<1>2. /\ turn' = [turn EXCEPT ![u] = turn[u] + 1]
      /\ spent' = [spent EXCEPT ![u] = spent[u] + row.tokens]
  BY DEF Use
<1>3. CASE row.leads = "act"
  <2>1. at' = [at EXCEPT ![u] = "looping"] /\ outcome' = outcome
    BY <1>3 DEF Use
  <2> QED BY <1>1, <1>2, <1>3, <2>1 DEF TypeOK, Stations, Outcomes
<1>5. CASE row.leads = "malformed"
  <2>1. at' = [at EXCEPT ![u] = "raised"] /\ outcome' = outcome
    BY <1>5 DEF Use
  <2> QED BY <1>1, <1>2, <1>5, <2>1 DEF TypeOK, Stations, Outcomes
<1>4. CASE row.leads \notin {"act", "malformed"}
  <2>1. /\ at' = [at EXCEPT ![u] = "ending"]
        /\ outcome' = [outcome EXCEPT ![u] = row.leads]
    BY <1>4 DEF Use
  <2> QED BY <1>1, <1>2, <1>4, <2>1 DEF TypeOK, Stations, Outcomes
<1> QED BY <1>3, <1>4, <1>5

LEMMA ReloadKeeps ==
    ASSUME PInv, NEW u \in Units, Reload(u) PROVE PInv'
<1> USE LimitsAssumption DEF PInv
<1> DEFINE row == saved[u][turn[u] + 1]
<1>1. /\ at[u] = "looping" /\ turn[u] < Len(saved[u]) /\ Use(u, row)
      /\ UNCHANGED <<plan, saved, record, report, running, got, tries, answered,
                     losses>>
  BY DEF Reload, Playing, OnFile, files
<1>2. saved[u] \in Seq(Rows) /\ turn[u] \in Nat /\ turn[u] + 1 \in 1..Len(saved[u])
  BY <1>1 DEF TypeOK
<1>3. row \in Rows
  BY <1>2
<1> HIDE DEF row
<1>4. TypeOK'
  BY <1>1, <1>3, UsedRow DEF TypeOK
<1>5. Command'
  BY <1>1, UsedRow, <1>3 DEF Command
<1>6. ASSUME NEW v \in Units PROVE UnitInv(v)'
  <2>1. CASE v # u
    BY <1>1, <1>3, <2>1, UsedRow, Untouched
  <2>2. CASE v = u
    <3>1. PICK total : Fits(saved[u], total, plan) /\ Stands(u, total)
      BY DEF UnitInv
    <3>2. PICK t \in 1..Len(saved[u]) : t = turn[u] + 1 /\ row = saved[u][t]
      BY <1>2 DEF row
    <3>3. /\ total[t] = total[t - 1] + row.tokens
          /\ t < Len(saved[u]) => row.leads = "act"
      <4>1. DOMAIN saved[u] = 1..Len(saved[u])
        BY <1>2
      <4>2. total[t] = total[t - 1] + saved[u][t].tokens
        BY <3>1, <4>1, Zenon DEF Fits, RunningTotals
      <4>3. t < Len(saved[u]) => saved[u][t].leads = "act"
        BY <3>1, Zenon DEF Fits
      <4> QED BY <3>2, <4>2, <4>3
    <3>4. turn'[u] = t /\ spent'[u] = total[t]
      <4>1. spent[u] = total[t - 1]
        BY <1>2, <3>1, <3>2 DEF Stands
      <4> QED BY <1>1, <1>3, <3>2, <3>3, <4>1, UsedRow
    <3>5. /\ record[u] = {} /\ outcome[u] = "turn_limit"
          /\ \A i \in 1..turn[u] : saved[u][i].leads = "act"
      BY <1>1, <3>1 DEF Stands
    <3>6. Stands(u, total)'
      <4>1. CASE row.leads = "act"
        <5>1. at'[u] = "looping" /\ outcome'[u] = "turn_limit"
          BY <1>1, <1>3, <3>5, <4>1, UsedRow
        <5>2. \A i \in 1..t : saved[u][i].leads = "act"
          BY <1>2, <3>2, <3>5, <4>1
        <5> QED BY <1>1, <1>2, <3>2, <3>4, <3>5, <5>1, <5>2 DEF Stands
      <4>3. CASE row.leads = "malformed"
        <5>1. at'[u] = "raised"
          BY <1>1, <1>3, <4>3, UsedRow
        <5> QED BY <1>1, <1>2, <3>2, <3>4, <3>5, <5>1 DEF Stands
      <4>2. CASE row.leads \notin {"act", "malformed"}
        <5>1. at'[u] = "ending" /\ outcome'[u] = row.leads
          BY <1>1, <1>3, <4>2, UsedRow
        <5>2. t = Len(saved[u])
          BY <1>2, <3>2, <3>3, <4>2
        <5>4. \A i \in DOMAIN saved[u] : saved[u][i].leads # "malformed"
          BY <1>2, <3>2, <3>5, <4>2, <5>2
        <5>3. outcome'[u] = OutcomeOf(saved[u])
          BY <1>2, <3>2, <4>2, <5>1, <5>2 DEF OutcomeOf
        <5> QED BY <1>1, <1>2, <3>2, <3>4, <3>5, <5>1, <5>2, <5>3, <5>4
                DEF Stands, OutcomeOf
      <4> QED BY <4>1, <4>2, <4>3
    <3>7. Sampled(u)'
      <4>1. at'[u] # "answered" /\ at[u] # "answered"
        BY <1>1, <1>3, UsedRow
      <4> QED BY <1>1, <4>1 DEF UnitInv, Sampled
    <3> QED BY <1>1, <2>2, <3>1, <3>6, <3>7 DEF UnitInv
  <2> QED BY <2>1, <2>2
<1> QED BY <1>4, <1>5, <1>6

LEMMA AskKeeps ==
    ASSUME PInv, NEW u \in Units, Ask(u) PROVE PInv'
<1> USE LimitsAssumption DEF PInv
<1>1. /\ at[u] = "looping" /\ turn[u] < TurnLimit /\ Budget - spent[u] >= Least
      /\ ~(turn[u] < Len(saved[u]))
      /\ at' = [at EXCEPT ![u] = "asking"] /\ tries' = [tries EXCEPT ![u] = 0]
      /\ UNCHANGED <<plan, saved, record, report, running, turn, spent, outcome,
                     got, answered, losses>>
  BY DEF Ask, Playing, TurnLeft, BudgetLeft, Remaining, OnFile, files
<1>2. TypeOK'
  BY <1>1 DEF TypeOK, Stations
<1>3. Command'
  BY <1>1 DEF Command
<1>4. ASSUME NEW v \in Units PROVE UnitInv(v)'
  <2>1. CASE v # u
    <3>1. at'[v] = at[v]
      BY <1>1, <2>1 DEF TypeOK
    <3> QED BY <1>1, <3>1, Untouched
  <2>2. CASE v = u
    <3>1. at'[u] = "asking"
      BY <1>1 DEF TypeOK
    <3>2. PICK total : Fits(saved[u], total, plan) /\ Stands(u, total)
      BY DEF UnitInv
    <3>3. turn[u] = Len(saved[u]) /\ Budget - spent[u] >= Least
      <4>1. turn[u] \in Nat /\ spent[u] \in Int /\ saved[u] \in Seq(Rows)
        BY DEF TypeOK
      <4> QED BY <1>1, <3>2, <4>1 DEF Stands
    <3>4. Stands(u, total)'
      BY <1>1, <3>1, <3>2, <3>3 DEF Stands
    <3>5. Sampled(u)'
      BY <1>1, <3>1 DEF UnitInv, Sampled
    <3> QED BY <1>1, <2>2, <3>2, <3>4, <3>5 DEF UnitInv
  <2> QED BY <2>1, <2>2
<1> QED BY <1>2, <1>3, <1>4

LEMMA CountedOnce ==
    ASSUME NEW f \in [1..TurnLimit -> Nat], NEW h \in 1..TurnLimit
    PROVE  /\ [f EXCEPT ![h] = f[h] + 1] \in [1..TurnLimit -> Nat]
           /\ \A t \in 1..TurnLimit : [f EXCEPT ![h] = f[h] + 1][t] =
                                          IF t = h THEN f[t] + 1 ELSE f[t]
OBVIOUS

\* Counting the answer to the turn that is asked for.
LEMMA CountedAnswer ==
    ASSUME TypeOK, NEW u \in Units, turn[u] + 1 \in 1..TurnLimit,
           answered' = [answered EXCEPT ![u][turn[u] + 1] =
                            answered[u][turn[u] + 1] + 1]
    PROVE  /\ answered' \in [Units -> [1..TurnLimit -> Nat]]
           /\ \A v \in Units : v # u => answered'[v] = answered[v]
           /\ \A t \in 1..TurnLimit :
                answered'[u][t] = IF t = turn[u] + 1 THEN answered[u][t] + 1
                                  ELSE answered[u][t]
<1> DEFINE here == turn[u] + 1
           row == [answered[u] EXCEPT ![here] = answered[u][here] + 1]
<1>1. answered[u] \in [1..TurnLimit -> Nat]
  BY DEF TypeOK
<1>2. row \in [1..TurnLimit -> Nat]
  BY <1>1, CountedOnce, Zenon
<1>3. \A t \in 1..TurnLimit :
          row[t] = IF t = here THEN answered[u][t] + 1 ELSE answered[u][t]
  BY <1>1, CountedOnce, Zenon
<1>4. answered' = [answered EXCEPT ![u] = row]
  OBVIOUS
<1> HIDE DEF row
<1>5. answered'[u] = row
  BY <1>4 DEF TypeOK
<1>6. \A t \in 1..TurnLimit :
          answered'[u][t] = IF t = here THEN answered[u][t] + 1 ELSE answered[u][t]
  BY <1>3, <1>5
<1> QED BY <1>2, <1>4, <1>6 DEF TypeOK

LEMMA AnswerKeeps ==
    ASSUME PInv, NEW u \in Units, Answer(u) PROVE PInv'
<1> USE LimitsAssumption DEF PInv
<1>1. PICK row \in Answers(MaxTokens(u)) : Receive(u, row)
  BY DEF Answer
<1> DEFINE kept == [max |-> row.max, leads |-> row.leads, tokens |-> row.tokens,
                    models |-> row.models, plan |-> running]
<1>2. /\ at[u] = "asking"
      /\ answered' = [answered EXCEPT ![u][turn[u] + 1] =
                          answered[u][turn[u] + 1] + 1]
      /\ got' = [got EXCEPT ![u] = {kept}] /\ at' = [at EXCEPT ![u] = "answered"]
      /\ UNCHANGED <<plan, saved, record, report, running, turn, spent, outcome,
                     tries, losses>>
  BY <1>1 DEF Answer, Receive, files
<1>3. PICK total : Fits(saved[u], total, plan) /\ Stands(u, total)
  BY DEF UnitInv
<1>4. /\ turn[u] \in Nat /\ spent[u] \in Int
      /\ turn[u] = Len(saved[u]) /\ turn[u] < TurnLimit
      /\ Budget - spent[u] >= Least
      /\ turn[u] + 1 \in 1..TurnLimit
  BY <1>2, <1>3 DEF TypeOK, Stands
<1>5. MaxTokens(u) \in Nat
  BY <1>4 DEF MaxTokens, Remaining, Smaller
<1>6. /\ row.max = MaxTokens(u) /\ row.leads \in Leads /\ row.tokens \in Int
      /\ row.models \subseteq Kinds
  <2> DEFINE max == MaxTokens(u)
  <2> HIDE DEF max
  <2>1. Failures \subseteq Leads /\ {"act", "closed"} \subseteq Leads /\ max \in Nat
    BY <1>5, FailuresAssumption DEF Leads, max
  <2>2. row \in Answers(max)
    BY DEF max
  <2>3. CASE row \in [max : {max}, tokens : {0}, models : {{}},
                      leads : {"malformed"} \union
                              (Failures \intersect
                                   (Uncounted \union {"invalid_response"}))]
    <3>1. "malformed" \in Leads
      BY DEF Leads
    <3>2. row.max = max /\ row.tokens = 0 /\ row.models = {}
          /\ row.leads \in {"malformed"} \union
                            (Failures \intersect
                                 (Uncounted \union {"invalid_response"}))
      BY <2>3
    <3> QED BY <2>1, <3>1, <3>2 DEF max
  <2>4. ASSUME NEW l \in {"act", "closed"} \union (Failures \ Uncounted),
               NEW said \in Reports,
               row = [max |-> max, leads |-> l, tokens |-> said.tokens,
                      models |-> {said.model}]
        PROVE  /\ row.max = max /\ row.leads \in Leads /\ row.tokens \in Int
               /\ row.models \subseteq Kinds
    <3>1. said.tokens \in Int /\ said.model \in Kinds
      BY ReportsAssumption DEF Kinds
    <3> QED BY <2>1, <2>4, <3>1
  <2> QED BY <2>2, <2>3, <2>4 DEF Answers, max
<1>7. kept \in Rows /\ kept.max = MaxTokens(u) /\ kept.plan = running
  BY <1>5, <1>6 DEF Rows, TypeOK
<1> HIDE DEF kept
<1>8. /\ answered' \in [Units -> [1..TurnLimit -> Nat]]
      /\ \A v \in Units : v # u => answered'[v] = answered[v]
      /\ \A t \in 1..TurnLimit :
            answered'[u][t] = IF t = turn[u] + 1 THEN answered[u][t] + 1
                              ELSE answered[u][t]
  BY <1>2, <1>4, CountedAnswer
<1>9. TypeOK'
  BY <1>2, <1>7, <1>8 DEF TypeOK, Stations
<1>10. Command'
  <2>1. running # {}
    BY <1>2 DEF Command
  <2> QED BY <1>2, <2>1 DEF Command
<1>11. ASSUME NEW v \in Units PROVE UnitInv(v)'
  <2>1. CASE v # u
    <3>1. at'[v] = at[v] /\ got'[v] = got[v]
      BY <1>2, <2>1 DEF TypeOK
    <3> QED BY <1>2, <1>8, <2>1, <3>1, Untouched
  <2>2. CASE v = u
    <3>1. at'[u] = "answered" /\ got'[u] = {kept}
      BY <1>2 DEF TypeOK
    <3>2. MaxTokens(u)' = MaxTokens(u)
      BY <1>2 DEF MaxTokens, Remaining
    <3>3. Stands(u, total)'
      BY <1>2, <1>3, <1>4, <1>7, <3>1, <3>2 DEF Stands
    <3>4. Sampled(u)'
      <4>1. losses \in Nat /\ \A t \in 1..TurnLimit : answered[u][t] \in Nat
        BY DEF TypeOK
      <4>2. Sampled(u)
        BY DEF UnitInv
      <4>3. ASSUME NEW t \in 1..TurnLimit
            PROVE  /\ answered'[u][t] <= losses + 1
                   /\ t > Len(saved[u]) /\ t # Len(saved[u]) + 1
                          => answered'[u][t] <= losses
        <5>1. CASE t = turn[u] + 1
          <6>1. t > Len(saved[u]) /\ answered[u][t] <= losses
            BY <1>2, <1>4, <4>2, <5>1 DEF Sampled
          <6>2. answered'[u][t] = answered[u][t] + 1
            BY <1>8, <5>1
          <6>3. t = Len(saved[u]) + 1
            BY <1>4, <5>1
          <6> QED BY <4>1, <6>1, <6>2, <6>3
        <5>2. CASE t # turn[u] + 1
          BY <1>2, <1>8, <4>2, <5>2 DEF Sampled
        <5> QED BY <5>1, <5>2
      <4> QED BY <1>2, <3>1, <4>3 DEF Sampled
    <3> QED BY <1>2, <1>3, <2>2, <3>3, <3>4 DEF UnitInv
  <2> QED BY <2>1, <2>2
<1> QED BY <1>9, <1>10, <1>11

LEMMA UnansweredKeeps ==
    ASSUME PInv, NEW u \in Units, Unanswered(u) PROVE PInv'
<1> USE DEF PInv
<1>1. /\ tries' = [tries EXCEPT ![u] = tries[u] + 1]
      /\ UNCHANGED <<plan, saved, record, report, running, at, turn, spent,
                     outcome, got, answered, losses>>
  BY DEF Unanswered, files
<1>2. TypeOK'
  BY <1>1 DEF TypeOK
<1>3. Command'
  BY <1>1 DEF Command
<1>4. \A v \in Units : UnitInv(v)'
  BY <1>1, Untouched
<1> QED BY <1>2, <1>3, <1>4

\* The running totals of the answers with one more.
LEMMA OneMoreRow ==
    ASSUME NEW rows \in Seq(Rows), NEW row \in Rows, NEW total, NEW p,
           Fits(rows, total, p), Len(rows) < TurnLimit,
           \A t \in 1..Len(rows) : rows[t].leads = "act",
           Budget - total[Len(rows)] >= Least, row.plan = p,
           row.max = Smaller(Budget - total[Len(rows)], PerTurn)
    PROVE  \E more :
               /\ Fits(Append(rows, row), more, p)
               /\ more[Len(rows) + 1] = total[Len(rows)] + row.tokens
<1> USE LimitsAssumption
<1> DEFINE n == Len(rows)
           more == [t \in 0..(n + 1) |-> IF t <= n THEN total[t]
                                        ELSE total[n] + row.tokens]
           longer == Append(rows, row)
<1>1. /\ n \in Nat /\ total \in [0..n -> Int] /\ total[0] = 0
      /\ \A t \in 1..n : total[t] = total[t - 1] + rows[t].tokens
  <2>1. n \in Nat /\ DOMAIN rows = 1..n
    OBVIOUS
  <2>2. total \in RunningTotals(rows)
    BY DEF Fits
  <2> QED BY <2>1, <2>2, Zenon DEF RunningTotals
<1>2. total[n] \in Int /\ row.tokens \in Int
  BY <1>1 DEF Rows
<1>3. total[n] + row.tokens \in Int
  BY <1>2
<1>4. /\ longer \in Seq(Rows) /\ Len(longer) = n + 1 /\ DOMAIN longer = 1..(n + 1)
      /\ \A t \in 1..n : longer[t] = rows[t]
      /\ longer[n + 1] = row
  OBVIOUS
<1>5. /\ \A t \in 0..n : more[t] = total[t]
      /\ more[n + 1] = total[n] + row.tokens
      /\ more \in [0..(n + 1) -> Int]
  BY <1>1, <1>3
<1> HIDE DEF n, more, longer
<1>6. more \in RunningTotals(longer)
  <2>1. more[0] = 0
    BY <1>1, <1>5
  <2>2. ASSUME NEW t \in 1..(n + 1)
        PROVE  more[t] = more[t - 1] + longer[t].tokens
    <3>1. CASE t \in 1..n
      <4>1. t - 1 \in 0..n /\ t \in 0..n
        BY <1>1, <3>1
      <4> QED BY <1>1, <1>4, <1>5, <3>1, <4>1
    <3>2. CASE t = n + 1
      <4>1. t - 1 = n /\ n \in 0..n
        BY <1>1, <3>2
      <4> QED BY <1>1, <1>4, <1>5, <3>2, <4>1
    <3> QED BY <1>1, <3>1, <3>2
  <2> QED BY <1>4, <1>5, <2>1, <2>2 DEF RunningTotals
<1>7. ASSUME NEW t \in 1..(n + 1)
      PROVE  /\ Budget - more[t - 1] >= Least /\ longer[t].plan = p
             /\ longer[t].max = Smaller(Budget - more[t - 1], PerTurn)
             /\ t < n + 1 => longer[t].leads = "act"
  <2>1. CASE t \in 1..n
    <3>1. t - 1 \in 0..n
      BY <1>1, <2>1
    <3>2. more[t - 1] = total[t - 1] /\ longer[t] = rows[t]
      BY <1>4, <1>5, <2>1, <3>1
    <3>3. /\ Budget - total[t - 1] >= Least /\ rows[t].plan = p
          /\ rows[t].max = Smaller(Budget - total[t - 1], PerTurn)
          /\ rows[t].leads = "act"
      BY <2>1 DEF Fits, n
    <3> QED BY <3>2, <3>3
  <2>2. CASE t = n + 1
    <3>1. t - 1 = n /\ n \in 0..n
      BY <1>1, <2>2
    <3>2. more[t - 1] = total[n] /\ longer[t] = row
      BY <1>4, <1>5, <2>2, <3>1
    <3> QED BY <1>1, <2>2, <3>2 DEF n
  <2> QED BY <1>1, <2>1, <2>2
<1>8. n < TurnLimit /\ TurnLimit \in Nat
  BY DEF n
<1>9. Fits(longer, more, p)
  BY <1>1, <1>4, <1>6, <1>7, <1>8 DEF Fits
<1> QED BY <1>5, <1>9 DEF longer, n

LEMMA SaveKeeps ==
    ASSUME PInv, NEW u \in Units, Save(u) PROVE PInv'
<1> USE LimitsAssumption DEF PInv
<1>1. PICK total : Fits(saved[u], total, plan) /\ Stands(u, total)
  BY DEF UnitInv
<1>2. at[u] = "answered"
  BY DEF Save
<1>3. PICK row \in Rows : /\ got[u] = {row} /\ row.plan = running
                          /\ row.max = MaxTokens(u)
  BY <1>1, <1>2 DEF Stands
<1>4. /\ saved' = [saved EXCEPT ![u] = Append(saved[u], row)]
      /\ Use(u, row) /\ got' = [got EXCEPT ![u] = {}]
      /\ UNCHANGED <<plan, record, report, running, tries, answered, losses>>
  BY <1>3 DEF Save
<1>5. /\ saved[u] \in Seq(Rows) /\ Len(saved[u]) \in Nat
      /\ turn[u] = Len(saved[u]) /\ turn[u] < TurnLimit
      /\ Budget - spent[u] >= Least
      /\ spent[u] = total[Len(saved[u])] /\ outcome[u] = "turn_limit"
      /\ record[u] = {}
      /\ \A t \in 1..Len(saved[u]) : saved[u][t].leads = "act"
  BY <1>1, <1>2 DEF TypeOK, Stands
<1>6. running # {} /\ plan = running
  BY <1>2 DEF Command
<1>7. /\ saved'[u] = Append(saved[u], row) /\ got'[u] = {}
      /\ saved' \in [Units -> Seq(Rows)] /\ got' \in [Units -> SUBSET Rows]
      /\ \A v \in Units : v # u => saved'[v] = saved[v] /\ got'[v] = got[v]
  BY <1>4, <1>5 DEF TypeOK
<1>8. TypeOK'
  BY <1>4, <1>7, UsedRow DEF TypeOK
<1>9. Command'
  BY <1>4, <1>6 DEF Command
<1>10. ASSUME NEW v \in Units PROVE UnitInv(v)'
  <2>1. CASE v # u
    BY <1>4, <1>7, <2>1, UsedRow, Untouched
  <2>2. CASE v = u
    <3>1. row.max = Smaller(Budget - total[Len(saved[u])], PerTurn)
      BY <1>3, <1>5 DEF MaxTokens, Remaining
    <3>2. Budget - total[Len(saved[u])] >= Least /\ Len(saved[u]) < TurnLimit
      BY <1>5
    <3>3. PICK more : /\ Fits(Append(saved[u], row), more, plan)
                      /\ more[Len(saved[u]) + 1] = total[Len(saved[u])] + row.tokens
      BY <1>1, <1>3, <1>5, <1>6, <3>1, <3>2, OneMoreRow
    <3>4. /\ Len(saved'[u]) = Len(saved[u]) + 1 /\ saved'[u] # <<>>
          /\ saved'[u][Len(saved[u]) + 1] = row
          /\ \A t \in 1..Len(saved[u]) : saved'[u][t] = saved[u][t]
      <4>1. saved[u] \in Seq(Rows) /\ saved'[u] = Append(saved[u], row)
        BY <1>5, <1>7
      <4> QED BY <4>1
    <3>5. turn'[u] = Len(saved'[u]) /\ spent'[u] = more[turn'[u]]
      BY <1>4, <1>5, <3>3, <3>4, UsedRow
    <3>6. Stands(u, more)'
      <4>1. CASE row.leads = "act"
        <5>1. at'[u] = "looping" /\ outcome'[u] = "turn_limit"
          BY <1>4, <1>5, <4>1, UsedRow
        <5>2. \A t \in 1..turn'[u] : saved'[u][t].leads = "act"
          BY <1>5, <3>4, <3>5, <4>1
        <5>3. turn'[u] <= Len(saved'[u])
          BY <1>5, <3>4, <3>5
        <5> QED BY <1>4, <1>5, <3>5, <5>1, <5>2, <5>3 DEF Stands
      <4>3. CASE row.leads = "malformed"
        <5>1. at'[u] = "raised"
          BY <1>4, <4>3, UsedRow
        <5>2. turn'[u] <= Len(saved'[u])
          BY <1>5, <3>4, <3>5
        <5> QED BY <1>4, <1>5, <3>5, <5>1, <5>2 DEF Stands
      <4>2. CASE row.leads \notin {"act", "malformed"}
        <5>1. at'[u] = "ending" /\ outcome'[u] = row.leads
          BY <1>4, <4>2, UsedRow
        <5>4. \A t \in DOMAIN saved'[u] : saved'[u][t].leads # "malformed"
          <6>1. DOMAIN saved'[u] = 1..(Len(saved[u]) + 1)
            BY <1>5, <1>7
          <6> QED BY <1>5, <3>4, <4>2, <6>1
        <5>2. outcome'[u] = OutcomeOf(saved'[u])
          BY <3>4, <4>2, <5>1 DEF OutcomeOf
        <5>3. turn'[u] <= Len(saved'[u])
          BY <1>5, <3>4, <3>5
        <5> QED BY <1>4, <1>5, <3>5, <5>1, <5>2, <5>3, <5>4
                DEF Stands, OutcomeOf
      <4> QED BY <4>1, <4>2, <4>3
    <3>7. Sampled(u)'
      <4>1. Sampled(u)
        BY DEF UnitInv
      <4>2. at'[u] # "answered"
        BY <1>4, UsedRow
      <4> QED BY <1>2, <1>4, <1>5, <3>4, <4>1, <4>2 DEF Sampled
    <3>8. Fits(saved[u], more, plan)'
      BY <1>4, <1>7, <3>3
    <3> QED BY <2>2, <3>6, <3>7, <3>8 DEF UnitInv
  <2> QED BY <2>1, <2>2
<1> QED BY <1>8, <1>9, <1>10

LEMMA FinishKeeps ==
    ASSUME PInv, NEW u \in Units, Finish(u) PROVE PInv'
<1> USE LimitsAssumption DEF PInv
<1> DEFINE new == [outcome |-> outcome[u], turns |-> turn[u], tokens |-> spent[u]]
<1>1. /\ at[u] = "ending" /\ ~Unsortable(ModelsIn(saved[u]))
      /\ record' = [record EXCEPT ![u] = {new}]
      /\ at' = [at EXCEPT ![u] = "returned"]
      /\ UNCHANGED <<plan, saved, report, running, turn, spent, outcome, got,
                     tries, answered, losses>>
  BY DEF Finish
<1>2. PICK total : Fits(saved[u], total, plan) /\ Stands(u, total)
  BY DEF UnitInv
<1>3. /\ turn[u] = Len(saved[u]) /\ outcome[u] = OutcomeOf(saved[u])
      /\ spent[u] = total[Len(saved[u])] /\ record[u] = {} /\ ~Stuck(u)
  BY <1>1, <1>2 DEF Stands, Stuck
<1>4. new \in [outcome : Outcomes, turns : Nat, tokens : Int]
  BY DEF TypeOK
<1>5. new = [outcome |-> OutcomeOf(saved[u]), turns |-> Len(saved[u]),
             tokens |-> total[Len(saved[u])]]
  BY <1>3
<1> HIDE DEF new
<1>6. TypeOK'
  BY <1>1, <1>4 DEF TypeOK, Stations
<1>7. report = {}
  BY <1>3 DEF Command
<1>8. Command'
  <2>1. running # {}
    BY <1>1 DEF Command
  <2> QED BY <1>1, <1>7, <2>1 DEF Command
<1>9. ASSUME NEW v \in Units PROVE UnitInv(v)'
  <2>1. CASE v # u
    <3>1. at'[v] = at[v] /\ record'[v] = record[v]
      BY <1>1, <2>1 DEF TypeOK
    <3> QED BY <1>1, <3>1, Untouched
  <2>2. CASE v = u
    <3>1. at'[u] = "returned" /\ record'[u] = {new}
      BY <1>1 DEF TypeOK
    <3>2. Stands(u, total)'
      BY <1>1, <1>2, <1>3, <1>5, <3>1 DEF Stands, OutcomeOf, Stuck
    <3>3. Sampled(u)'
      BY <1>1, <3>1 DEF UnitInv, Sampled
    <3> QED BY <1>1, <1>2, <2>2, <3>2, <3>3 DEF UnitInv
  <2> QED BY <2>1, <2>2
<1> QED BY <1>6, <1>8, <1>9

LEMMA RaiseKeeps ==
    ASSUME PInv, NEW u \in Units, Raise(u) PROVE PInv'
<1> USE LimitsAssumption DEF PInv
<1>1. /\ at[u] = "asking" /\ losses' = losses + 1
      /\ at' = [at EXCEPT ![u] = "raised"]
      /\ UNCHANGED <<plan, saved, record, report, running, turn, spent, outcome,
                     got, tries>>
  BY DEF Raise, files
<1>2. PICK total : Fits(saved[u], total, plan) /\ Stands(u, total)
  BY DEF UnitInv
<1>3. turn[u] = Len(saved[u]) /\ turn[u] + 1 \in 1..TurnLimit
  BY <1>1, <1>2 DEF Stands, TypeOK
<1>4. /\ answered' \in [Units -> [1..TurnLimit -> Nat]]
      /\ \A v \in Units : v # u => answered'[v] = answered[v]
      /\ \A t \in 1..TurnLimit :
            \/ answered'[u][t] = answered[u][t]
            \/ t = turn[u] + 1 /\ answered'[u][t] = answered[u][t] + 1
  <2>1. CASE answered' = answered
    BY <2>1 DEF TypeOK
  <2>2. CASE answered' = [answered EXCEPT ![u][turn[u] + 1] =
                              answered[u][turn[u] + 1] + 1]
    BY <1>3, <2>2, CountedAnswer
  <2> QED BY <2>1, <2>2 DEF Raise
<1>5. TypeOK'
  <2>1. at' \in [Units -> Stations] /\ losses' \in Nat
    BY <1>1 DEF TypeOK, Stations
  <2>2. answered' \in [Units -> [1..TurnLimit -> Nat]]
    BY <1>4
  <2> QED BY <1>1, <2>1, <2>2 DEF TypeOK
<1>6. Command'
  <2>1. running # {}
    BY <1>1 DEF Command
  <2> QED BY <1>1, <2>1 DEF Command
<1>7. ASSUME NEW v \in Units PROVE UnitInv(v)'
  <2>1. CASE v # u
    <3>1. at'[v] = at[v]
      BY <1>1, <2>1 DEF TypeOK
    <3> QED BY <1>1, <1>4, <2>1, <3>1, Untouched
  <2>2. CASE v = u
    <3>1. at'[u] = "raised"
      BY <1>1 DEF TypeOK
    <3>2. Stands(u, total)'
      BY <1>1, <1>2, <3>1 DEF Stands
    <3>3. Sampled(u)'
      <4>1. losses \in Nat /\ \A t \in 1..TurnLimit : answered[u][t] \in Nat
        BY DEF TypeOK
      <4>2. ASSUME NEW t \in 1..TurnLimit, t = turn[u] + 1
            PROVE  answered[u][t] <= losses
        <5>1. t > Len(saved[u])
          BY <1>3, <4>2
        <5> QED BY <1>1, <5>1 DEF UnitInv, Sampled
      <4>3. \A t \in 1..TurnLimit : answered[u][t] <= losses + 1
        BY DEF UnitInv, Sampled
      <4>4. ASSUME NEW t \in 1..TurnLimit
            PROVE  answered'[u][t] <= losses + 1 /\ answered'[u][t] \in Nat
        <5>1. answered[u][t] \in Nat /\ answered[u][t] <= losses + 1
          BY <4>1, <4>3
        <5>2. CASE answered'[u][t] = answered[u][t]
          BY <5>1, <5>2
        <5>3. CASE t = turn[u] + 1 /\ answered'[u][t] = answered[u][t] + 1
          BY <4>1, <4>2, <5>1, <5>3
        <5> QED BY <1>4, <5>2, <5>3
      <4> QED BY <1>1, <4>1, <4>4 DEF Sampled
    <3> QED BY <1>1, <1>2, <2>2, <3>2, <3>3 DEF UnitInv
  <2> QED BY <2>1, <2>2
<1> QED BY <1>5, <1>6, <1>7

LEMMA FailToFinishKeeps ==
    ASSUME PInv, NEW u \in Units, FailToFinish(u) PROVE PInv'
<1> USE DEF PInv
<1>1. /\ at[u] = "ending" /\ at' = [at EXCEPT ![u] = "raised"]
      /\ UNCHANGED <<plan, saved, record, report, running, turn, spent, outcome,
                     got, tries, answered, losses>>
  BY DEF FailToFinish, files
<1>2. TypeOK'
  BY <1>1 DEF TypeOK, Stations
<1>3. Command'
  <2>1. running # {}
    BY <1>1 DEF Command
  <2> QED BY <1>1, <2>1 DEF Command
<1>4. ASSUME NEW v \in Units PROVE UnitInv(v)'
  <2>1. CASE v # u
    <3>1. at'[v] = at[v]
      BY <1>1, <2>1 DEF TypeOK
    <3> QED BY <1>1, <3>1, Untouched
  <2>2. CASE v = u
    <3>1. at'[u] = "raised"
      BY <1>1 DEF TypeOK
    <3>2. PICK total : Fits(saved[u], total, plan) /\ Stands(u, total)
      BY DEF UnitInv
    <3>3. Stands(u, total)'
      BY <1>1, <3>1, <3>2 DEF Stands
    <3>4. Sampled(u)'
      BY <1>1, <3>1 DEF UnitInv, Sampled
    <3> QED BY <1>1, <2>2, <3>2, <3>3, <3>4 DEF UnitInv
  <2> QED BY <2>1, <2>2
<1> QED BY <1>2, <1>3, <1>4

-----------------------------------------------------------------------------
(* The command begins, ends and is killed *)

LEMMA BeginKeeps ==
    ASSUME PInv, NEW c \in Configs, Begin(c) PROVE PInv'
<1> USE DEF PInv
<1>1. /\ running = {} /\ plan \subseteq {c} /\ plan' = {c} /\ running' = {c}
      /\ UNCHANGED <<saved, record, report, at, turn, spent, outcome, got, tries,
                     answered, losses>>
  BY DEF Begin, locals
<1>2. TypeOK'
  BY <1>1 DEF TypeOK
<1>3. Command'
  BY <1>1 DEF Command
<1>4. ASSUME NEW v \in Units PROVE UnitInv(v)'
  <2>1. PICK total : Fits(saved[v], total, plan) /\ Stands(v, total)
    BY DEF UnitInv
  <2>2. at[v] = "queued"
    BY <1>1 DEF Command
  <2>3. Fits(saved[v], total, plan')
    <3>1. CASE plan = {}
      <4>1. saved[v] = <<>>
        BY <3>1 DEF Command
      <4> QED BY <2>1, <4>1 DEF Fits
    <3>2. CASE plan # {}
      <4>1. plan' = plan
        BY <1>1, <3>2
      <4> QED BY <2>1, <4>1
    <3> QED BY <3>1, <3>2
  <2>4. Stands(v, total)'
    BY <1>1, <2>1, <2>2 DEF Stands, Stuck, OutcomeOf
  <2>5. Sampled(v)'
    BY <1>1 DEF UnitInv, Sampled
  <2> QED BY <1>1, <2>3, <2>4, <2>5 DEF UnitInv
<1> QED BY <1>2, <1>3, <1>4

\* Whatever the workers were doing, their cases can be taken up again.
LEMMA FreshKeeps ==
    ASSUME PInv, Fresh("queued"), running' = {},
           UNCHANGED <<plan, saved, record, answered>>,
           report' = report \/ (report' = {record} /\ AllReturned),
           \/ losses' = losses + 1
           \/ losses' = losses /\ \A u \in Units : at[u] # "answered"
    PROVE  PInv'
<1> USE DEF PInv
<1>1. /\ at' = [u \in Units |-> "queued"] /\ turn' = [u \in Units |-> 0]
      /\ spent' = [u \in Units |-> 0] /\ outcome' = [u \in Units |-> "turn_limit"]
      /\ got' = [u \in Units |-> {}] /\ tries' = [u \in Units |-> 0]
  BY DEF Fresh
<1>2. TypeOK'
  BY <1>1 DEF TypeOK, Stations, Outcomes
<1>3. \A r \in report' : r = record /\ \A u \in Units : record[u] # {}
  <2>1. AllReturned => \A u \in Units : record[u] # {}
    BY DEF AllReturned, UnitInv, Stands
  <2> QED BY <2>1 DEF Command
<1>4. Command'
  BY <1>1, <1>3 DEF Command
<1>5. ASSUME NEW v \in Units PROVE UnitInv(v)'
  <2>1. PICK total : Fits(saved[v], total, plan) /\ Stands(v, total)
    BY DEF UnitInv
  <2>2. /\ at'[v] = "queued" /\ turn'[v] = 0 /\ spent'[v] = 0
        /\ outcome'[v] = "turn_limit"
    BY <1>1
  <2>3. total[0] = 0
    BY <2>1 DEF Fits, RunningTotals
  <2>4. 0 <= Len(saved[v])
    BY DEF TypeOK
  <2>5. Stands(v, total)'
    BY <2>1, <2>2, <2>3, <2>4 DEF Stands, Stuck, OutcomeOf
  <2>6. Sampled(v)'
    <3>1. losses \in Nat /\ answered[v] \in [1..TurnLimit -> Nat]
      BY DEF TypeOK
    <3>2. \A t \in 1..TurnLimit : answered[v][t] \in Nat
      BY <3>1
    <3>3. Sampled(v)
      BY DEF UnitInv
    <3>4. CASE losses' = losses + 1
      BY <2>2, <3>1, <3>2, <3>3, <3>4 DEF Sampled
    <3>5. CASE losses' = losses /\ at[v] # "answered"
      BY <2>2, <3>3, <3>5 DEF Sampled
    <3> QED BY <3>4, <3>5
  <2> QED BY <2>1, <2>5, <2>6 DEF UnitInv
<1> QED BY <1>2, <1>4, <1>5

LEMMA EndingKeeps ==
    ASSUME PInv, Report \/ GiveUp \/ Kill PROVE PInv'
<1>1. ASSUME Report PROVE PInv'
  <2>1. \A u \in Units : at[u] # "answered"
    BY <1>1 DEF Report, AllReturned
  <2> QED BY <1>1, <2>1, FreshKeeps DEF Report
<1>2. ASSUME GiveUp PROVE PInv'
  <2>1. \A u \in Units : at[u] # "answered"
    BY <1>2 DEF GiveUp, Ended
  <2> QED BY <1>2, <2>1, FreshKeeps DEF GiveUp, files
<1>3. ASSUME Kill PROVE PInv'
  BY <1>3, FreshKeeps DEF Kill, files
<1> QED BY <1>1, <1>2, <1>3

LEMMA PInvHolds == Spec => []PInv
<1>1. PInv /\ [Next]_vars => PInv'
  <2> SUFFICES ASSUME PInv, [Next]_vars PROVE PInv'
    OBVIOUS
  <2>1. CASE \E c \in Configs : Begin(c)
    BY <2>1, BeginKeeps
  <2>2. ASSUME NEW u \in Units, Play(u) \/ Raise(u) PROVE PInv'
    BY <2>2, TakeKeeps, LeaveKeeps, ReloadKeeps, AskKeeps, AnswerKeeps,
       UnansweredKeeps, SaveKeeps, FinishKeeps, FailToFinishKeeps,
       RaiseKeeps DEF Play
  <2>3. CASE Report \/ GiveUp \/ Kill
    BY <2>3, EndingKeeps
  <2>4. CASE UNCHANGED vars
    <3>1. UNCHANGED <<plan, saved, record, report, running, at, turn, spent,
                      outcome, got, tries, answered, losses>>
      BY <2>4 DEF vars, files, locals
    <3>2. TypeOK' /\ Command'
      BY <3>1 DEF PInv, TypeOK, Command
    <3>3. \A v \in Units : UnitInv(v)'
      BY <3>1, Untouched DEF PInv
    <3> QED BY <3>2, <3>3 DEF PInv
  <2> QED BY <2>1, <2>2, <2>3, <2>4 DEF Next
<1> QED BY <1>1, InitPInv, PTL DEF Spec

-----------------------------------------------------------------------------
(* The running total is told by its recursion *)
Less == {ss \in Nat \X Nat : ss[1] < ss[2]}

LEMMA LeastOf ==
    ASSUME NEW T, T \subseteq Nat, T # {}
    PROVE  \E x \in T : \A y \in T : x <= y
<1>1. IsWellFoundedOn(Less, Nat)
  <2>1. OpToRel(<, Nat) = Less
    BY DEF OpToRel, Less
  <2> QED BY <2>1, NatLessThanWellFounded
<1>2. PICK x \in T : \A y \in T : ~(<<y, x>> \in Less)
  BY <1>1, WFMin
<1>3. ASSUME NEW y \in T PROVE x <= y
  <2>1. ~(<<y, x>> \in Less) /\ x \in Nat /\ y \in Nat
    BY <1>2
  <2> QED BY <2>1 DEF Less
<1> QED BY <1>3

LEMMA TotalOf ==
    ASSUME NEW rows \in Seq(Rows), NEW known \in RunningTotals(rows),
           NEW t \in 0..Len(rows)
    PROVE  RunningTotal(rows)[t] = known[t]
<1> DEFINE total[i \in 0..Len(rows)] ==
               IF i = 0 THEN 0 ELSE total[i - 1] + rows[i].tokens
           F == {i \in 0..Len(rows) : total[i] # known[i]}
<1>1. /\ known \in [0..Len(rows) -> Int] /\ known[0] = 0
      /\ \A i \in 1..Len(rows) : known[i] = known[i - 1] + rows[i].tokens
      /\ Len(rows) \in Nat
  <2>1. DOMAIN rows = 1..Len(rows) /\ Len(rows) \in Nat
    OBVIOUS
  <2> QED BY <2>1, Zenon DEF RunningTotals
<1>2. known = [i \in 0..Len(rows) |->
                  IF i = 0 THEN 0 ELSE known[i - 1] + rows[i].tokens]
  BY <1>1
<1>3. total = [i \in 0..Len(rows) |->
                  IF i = 0 THEN 0 ELSE total[i - 1] + rows[i].tokens]
  <2> DEFINE G(f) == [i \in 0..Len(rows) |->
                         IF i = 0 THEN 0 ELSE f[i - 1] + rows[i].tokens]
  <2>1. total = CHOOSE f : f = G(f)
    BY Zenon DEF total
  <2>2. \E f : f = G(f)
    BY <1>2, Zenon
  <2> QED BY <2>1, <2>2, Zenon
<1> HIDE DEF total
<1>4. \A i \in 0..Len(rows) :
          total[i] = IF i = 0 THEN 0 ELSE total[i - 1] + rows[i].tokens
  BY <1>3
<1>5. F = {}
  <2> SUFFICES ASSUME F # {} PROVE FALSE
    OBVIOUS
  <2>1. F \subseteq Nat
    BY <1>1
  <2>2. PICK n \in F : \A m \in F : n <= m
    <3> HIDE DEF F
    <3> QED BY <2>1, LeastOf
  <2>3. n \in 0..Len(rows) /\ total[n] # known[n]
    OBVIOUS
  <2>4. n # 0
    BY <1>1, <1>4, <2>3
  <2>5. n - 1 \in 0..Len(rows) /\ ~(n <= n - 1) /\ n \in 1..Len(rows)
    BY <1>1, <2>3, <2>4
  <2>6. total[n - 1] = known[n - 1]
    BY <2>2, <2>5
  <2>7. total[n] = total[n - 1] + rows[n].tokens
    BY <1>4, <2>3, <2>4
  <2>8. known[n] = known[n - 1] + rows[n].tokens
    BY <1>1, <2>5
  <2> QED BY <2>3, <2>6, <2>7, <2>8
<1>6. RunningTotal(rows) = total
  BY Zenon DEF RunningTotal, total
<1> QED BY <1>5, <1>6

-----------------------------------------------------------------------------
\* Every file and every local variable has the values the code can give it.
THEOREM TypeCorrect == Spec => []TypeOK
<1>1. PInv => TypeOK
  BY DEF PInv
<1> QED BY <1>1, PInvHolds, PTL

\* However often a run is killed or a case raises, each loss costs a turn at
\* most one sample more (panel.py:64, :142-149).
THEOREM SamplesBounded == Spec => []SamplesAreBounded
<1>1. PInv => SamplesAreBounded
  BY DEF PInv, UnitInv, Sampled, SamplesAreBounded
<1> QED BY <1>1, PInvHolds, PTL

\* The answers on file are those a fresh run of the plan would ask for
\* (panel.py:136-145).
THEOREM AnswersReplay == Spec => []Replayable
<1>1. PInv => Replayable
  <2> SUFFICES ASSUME PInv, NEW u \in Units, NEW t \in DOMAIN saved[u]
               PROVE  LET total == RunningTotal(saved[u]) IN
                      /\ Budget - total[t - 1] >= Least /\ saved[u][t].plan = plan
                      /\ saved[u][t].max = Smaller(Budget - total[t - 1], PerTurn)
                      /\ t < Len(saved[u]) => saved[u][t].leads = "act"
    BY DEF Replayable
  <2>1. saved[u] \in Seq(Rows) /\ t \in 1..Len(saved[u])
    BY DEF PInv, TypeOK
  <2>2. PICK total : Fits(saved[u], total, plan)
    BY DEF PInv, UnitInv
  <2>3. t - 1 \in 0..Len(saved[u])
    BY <2>1
  <2>4. RunningTotal(saved[u])[t - 1] = total[t - 1]
    BY <2>1, <2>2, <2>3, TotalOf DEF Fits
  <2> QED BY <2>1, <2>2, <2>4 DEF Fits
<1> QED BY <1>1, PInvHolds, PTL

\* A record does not tell how often the run that wrote it was interrupted, and
\* no case has one that an uninterrupted run would not finish
\* (panel.py:142-186).
THEOREM RecordsReplay == Spec => []RecordsAreReplays
<1>1. PInv => RecordsAreReplays
  <2> SUFFICES ASSUME PInv, NEW u \in Units, NEW r \in record[u]
               PROVE  /\ r = [outcome |-> OutcomeOf(saved[u]),
                              turns |-> Len(saved[u]),
                              tokens |-> RunningTotal(saved[u])[Len(saved[u])]]
                      /\ ~Stuck(u)
    BY DEF RecordsAreReplays
  <2>1. saved[u] \in Seq(Rows) /\ Len(saved[u]) \in 0..Len(saved[u])
    BY DEF PInv, TypeOK
  <2>2. PICK total : Fits(saved[u], total, plan) /\ Stands(u, total)
    BY DEF PInv, UnitInv
  <2>3. RunningTotal(saved[u])[Len(saved[u])] = total[Len(saved[u])]
    BY <2>1, <2>2, TotalOf DEF Fits
  <2> QED BY <2>2, <2>3 DEF Stands
<1> QED BY <1>1, PInvHolds, PTL

\* A report speaks for every case of every model (panel.py:253-271).
THEOREM ReportsAreWhole == Spec => []ReportIsWhole
<1>1. PInv => ReportIsWhole
  BY DEF PInv, Command, ReportIsWhole
<1> QED BY <1>1, PInvHolds, PTL

\* What each step leaves on file, and which counts it leaves alone.
SavedStays(u) ==
    \A t \in DOMAIN saved[u] :
        /\ t \in DOMAIN saved'[u] /\ saved'[u][t] = saved[u][t]
        /\ answered'[u][t] = answered[u][t]

LEMMA StepKeepsSaved ==
    ASSUME PInv, [Next]_vars, NEW u \in Units PROVE SavedStays(u)
<1> USE LimitsAssumption DEF PInv
<1>1. CASE UNCHANGED <<saved, answered>>
  BY <1>1 DEF SavedStays
<1>2. ASSUME NEW v \in Units, Save(v) PROVE SavedStays(u)
  <2>1. CASE v # u
    <3>1. saved'[u] = saved[u] /\ answered' = answered
      BY <1>2, <2>1 DEF Save, TypeOK
    <3> QED BY <3>1 DEF SavedStays
  <2>2. CASE v = u
    <3>1. PICK row \in Rows : saved'[u] = Append(saved[u], row) /\ answered' = answered
      BY <1>2, <2>2 DEF Save, TypeOK
    <3>2. saved[u] \in Seq(Rows)
      BY DEF TypeOK
    <3> QED BY <3>1, <3>2 DEF SavedStays
  <2> QED BY <2>1, <2>2
<1>3. ASSUME NEW v \in Units, Answer(v) \/ Raise(v), answered' # answered
      PROVE  SavedStays(u)
  <2>1. saved' = saved /\ at[v] = "asking"
        /\ answered' = [answered EXCEPT ![v][turn[v] + 1] =
                            answered[v][turn[v] + 1] + 1]
    BY <1>3 DEF Answer, Raise, files
  <2>2. turn[v] \in Nat /\ turn[v] = Len(saved[v]) /\ turn[v] < TurnLimit
    BY <2>1 DEF UnitInv, Stands, TypeOK
  <2>3. turn[v] + 1 \in 1..TurnLimit
    BY <2>2
  <2>4. \A t \in DOMAIN saved[u] : t \in 1..TurnLimit /\ t \in 1..Len(saved[u])
    BY DEF TypeOK, UnitInv, Fits
  <2>5. \A t \in DOMAIN saved[u] : answered'[u][t] = answered[u][t]
    <3>1. CASE v # u
      BY <2>1, <2>3, <3>1, CountedAnswer
    <3>2. CASE v = u
      <4>1. \A t \in DOMAIN saved[u] : t # turn[v] + 1
        BY <2>2, <2>4, <3>2
      <4> QED BY <2>1, <2>3, <2>4, <3>2, <4>1, CountedAnswer
    <3> QED BY <3>1, <3>2
  <2> QED BY <2>1, <2>5 DEF SavedStays
<1>4. ASSUME NEW v \in Units,
             \/ Take(v) \/ Leave(v) \/ Reload(v) \/ Ask(v) \/ Unanswered(v)
             \/ Finish(v) \/ FailToFinish(v)
      PROVE  UNCHANGED <<saved, answered>>
  BY <1>4 DEF Take, Leave, Reload, Ask, Unanswered, Finish, FailToFinish, files
<1>6. ASSUME NEW v \in Units, Answer(v) \/ Raise(v), answered' = answered
      PROVE  UNCHANGED <<saved, answered>>
  BY <1>6 DEF Answer, Raise, files
<1>5. ASSUME \/ \E c \in Configs : Begin(c)
             \/ Report \/ GiveUp \/ Kill \/ UNCHANGED vars
      PROVE  UNCHANGED <<saved, answered>>
  BY <1>5 DEF Begin, Report, GiveUp, Kill, vars, files
<1> QED BY <1>1, <1>2, <1>3, <1>4, <1>5, <1>6, Zenon DEF Next, Play

\* A saved turn is neither replaced nor asked for again, in this run of the
\* command or in any later one (panel.py:142-149).
THEOREM SavedTurnsAreFinal == Spec => SavedIsFinal
<1>1. PInv /\ [Next]_vars => \A u \in Units : SavedStays(u)
  BY StepKeepsSaved
<1>2. PInv /\ [Next]_vars =>
        [\A u \in Units : \A t \in DOMAIN saved[u] :
            /\ t \in DOMAIN saved'[u] /\ saved'[u][t] = saved[u][t]
            /\ answered'[u][t] = answered[u][t]]_vars
  BY <1>1 DEF SavedStays
<1> QED BY <1>2, PInvHolds, PTL DEF Spec, SavedIsFinal
=============================================================================
