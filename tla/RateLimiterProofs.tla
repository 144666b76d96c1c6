-------------------------- MODULE RateLimiterProofs --------------------------
(***************************************************************************)
(* However many threads share the limiter, however late they wake and      *)
(* however long they go on, the rate holds over every stretch of time.     *)
(***************************************************************************)
EXTENDS RateLimiter, FiniteSetTheorems, TLAPS

\* The threads that wait, and those of them whose slot has come by time t.
Waiting == {w \in Threads : slot[w] # {}}
Due(t) == {w \in Threads : \E s \in slot[w] : s <= t}

\* How many calls left since the i-th, that one included.
Since(i) == (Len(departed) - i) + 1

\* How many intervals lie between the i-th call and time t.
Intervals(i, t) == IF t < departed[i] THEN 0 ELSE (t - departed[i]) \div Interval

TypeOK ==
    /\ now \in Nat /\ next \in Nat /\ departed \in Seq(Nat)
    /\ DOMAIN slot = Threads
    /\ \A w \in Threads : slot[w] = {} \/ \E s \in Nat : slot[w] = {s}

Past == \A i \in DOMAIN departed : departed[i] <= now

\* Calls that left since the i-th and those waiting: at most one for each
\* thread of then, and one for each slot given out since.
Booked ==
    \A i \in DOMAIN departed :
        Since(i) + Cardinality(Waiting) <= Workers + Intervals(i, next)

\* Calls that can have left by time t: what is due by then counts as gone.
Paced ==
    \A i \in DOMAIN departed : \A t \in Nat : now <= t =>
        Since(i) + Cardinality(Due(t)) <= Workers + 1 + Intervals(i, t)

IInv == TypeOK /\ Past /\ Booked /\ Paced /\ RateHeld

-----------------------------------------------------------------------------
(* Arithmetic and counting *)

LEMMA DivFacts ==
    ASSUME NEW a \in Nat
    PROVE  /\ a \div Interval \in Nat
           /\ (a + Interval) \div Interval = (a \div Interval) + 1
           /\ \A b \in Nat : a <= b => a \div Interval <= b \div Interval
BY IntervalAssumption

LEMMA IntervalsGrow ==
    ASSUME TypeOK, NEW i \in DOMAIN departed, NEW t \in Nat, NEW u \in Nat,
           t <= u
    PROVE  /\ Intervals(i, t) \in Nat /\ Intervals(i, u) \in Nat
           /\ Intervals(i, t) <= Intervals(i, u)
<1>1. departed[i] \in Nat
  BY DEF TypeOK
<1>2. CASE t < departed[i] /\ u < departed[i]
  BY <1>2 DEF Intervals
<1>3. CASE t < departed[i] /\ ~(u < departed[i])
  <2>1. u - departed[i] \in Nat
    BY <1>1, <1>3
  <2> QED BY <1>3, <2>1, DivFacts DEF Intervals
<1>4. CASE ~(t < departed[i])
  <2>1. t - departed[i] \in Nat /\ u - departed[i] \in Nat
        /\ t - departed[i] <= u - departed[i] /\ ~(u < departed[i])
    BY <1>1, <1>4
  <2> QED BY <1>4, <2>1, DivFacts DEF Intervals
<1> QED BY <1>1, <1>2, <1>3, <1>4

\* A slot given out after the i-th call adds an interval.
LEMMA IntervalsStep ==
    ASSUME TypeOK, Past, NEW i \in DOMAIN departed, NEW s \in Nat,
           now <= s, next <= s
    PROVE  /\ Intervals(i, next) + 1 <= Intervals(i, s + Interval)
           /\ Intervals(i, next) <= Intervals(i, s)
<1>1. departed[i] \in Nat /\ departed[i] <= s
  BY DEF TypeOK, Past
<1>2. s - departed[i] \in Nat /\ (s + Interval) - departed[i] = (s - departed[i]) + Interval
      /\ s + Interval \in Nat
  BY <1>1, IntervalAssumption
<1>3. Intervals(i, s + Interval) = ((s - departed[i]) \div Interval) + 1
  <2>1. ((s - departed[i]) + Interval) \div Interval
            = ((s - departed[i]) \div Interval) + 1
    BY <1>2, DivFacts
  <2>2. ~(s + Interval < departed[i])
    BY <1>1, IntervalAssumption
  <2> QED BY <1>2, <2>1, <2>2 DEF Intervals
<1>4. Intervals(i, s) = (s - departed[i]) \div Interval
  BY <1>1 DEF Intervals
<1>5. Intervals(i, next) \in Nat /\ Intervals(i, next) <= Intervals(i, s)
  BY IntervalsGrow DEF TypeOK
<1>6. Intervals(i, s) \in Nat
  BY IntervalsGrow
<1> QED BY <1>3, <1>4, <1>5, <1>6

LEMMA ThreadsFinite ==
    ASSUME NEW S, S \subseteq Threads
    PROVE  IsFiniteSet(S) /\ Cardinality(S) \in 0..Workers
<1>1. IsFiniteSet(1..Workers) /\ Cardinality(1..Workers) = Workers
  BY FS_Interval, IntervalAssumption
<1>2. IsFiniteSet(S) /\ Cardinality(S) <= Workers
  BY <1>1, FS_Subset DEF Threads
<1> QED BY <1>2, FS_CardinalityType, IntervalAssumption

LEMMA DueWaits ==
    ASSUME TypeOK, NEW t \in Nat
    PROVE  /\ Due(t) \subseteq Waiting /\ Waiting \subseteq Threads
           /\ Cardinality(Due(t)) <= Cardinality(Waiting)
           /\ Cardinality(Due(t)) \in 0..Workers
           /\ Cardinality(Waiting) \in 0..Workers
<1>1. Due(t) \subseteq Waiting /\ Waiting \subseteq Threads
  BY DEF Due, Waiting
<1>2. IsFiniteSet(Waiting)
  BY <1>1, ThreadsFinite
<1>3. Cardinality(Due(t)) <= Cardinality(Waiting)
  BY <1>1, <1>2, FS_Subset
<1> QED BY <1>1, <1>3, ThreadsFinite

-----------------------------------------------------------------------------
LEMMA InitIInv == Init => IInv
BY IntervalAssumption
DEF Init, IInv, TypeOK, Past, Booked, Paced, RateHeld

LEMMA TickKeeps ==
    ASSUME IInv, Tick
    PROVE  IInv'
<1>1. now' = now + 1 /\ UNCHANGED <<next, slot, departed>>
  BY DEF Tick
<1>2. TypeOK' /\ Past'
  <2>1. \A i \in DOMAIN departed : departed[i] <= now' /\ departed[i] \in Nat
    BY <1>1 DEF IInv, TypeOK, Past
  <2> QED BY <1>1, <2>1 DEF IInv, TypeOK, Past
<1>3. Booked' /\ RateHeld'
  BY <1>1 DEF IInv, Booked, Since, Waiting, Intervals, RateHeld
<1>4. Paced'
  <2> SUFFICES ASSUME NEW i \in DOMAIN departed, NEW t \in Nat, now + 1 <= t
               PROVE  Since(i) + Cardinality(Due(t))
                          <= Workers + 1 + Intervals(i, t)
    BY <1>1 DEF Paced, Since, Due, Intervals
  <2>1. now <= t
    BY DEF IInv, TypeOK
  <2> QED BY <2>1 DEF IInv, Paced
<1> QED BY <1>2, <1>3, <1>4 DEF IInv

LEMMA ReserveKeeps ==
    ASSUME IInv, NEW w \in Threads, Reserve(w)
    PROVE  IInv'
<1> DEFINE s == Later(now, next)
<1>0. TypeOK /\ Past /\ Booked /\ Paced
  BY DEF IInv
<1>1. s \in Nat /\ now <= s /\ next <= s
  BY DEF IInv, TypeOK, Later
<1> HIDE DEF s
<1>2. /\ slot[w] = {} /\ slot' = [slot EXCEPT ![w] = {s}]
      /\ next' = s + Interval /\ UNCHANGED <<now, departed>>
  BY DEF Reserve, s
<1>3. TypeOK' /\ Past' /\ RateHeld'
  BY <1>1, <1>2, IntervalAssumption DEF IInv, TypeOK, Past, RateHeld
<1>4. Waiting' = Waiting \union {w} /\ w \notin Waiting
  BY <1>2 DEF Waiting, IInv, TypeOK
<1>5. Cardinality(Waiting') = Cardinality(Waiting) + 1
  <2>1. IsFiniteSet(Waiting)
    BY ThreadsFinite DEF Waiting
  <2> QED BY <1>4, <2>1, FS_AddElement
<1>6. Booked'
  <2> SUFFICES ASSUME NEW i \in DOMAIN departed
               PROVE  Since(i) + Cardinality(Waiting')
                          <= Workers + Intervals(i, s + Interval)
    BY <1>2 DEF Booked, Since, Intervals
  <2>1. Since(i) + Cardinality(Waiting) <= Workers + Intervals(i, next)
    BY DEF IInv, Booked
  <2>2. Intervals(i, next) + 1 <= Intervals(i, s + Interval)
    BY <1>1, IntervalsStep DEF IInv
  <2>3. Intervals(i, next) \in Nat /\ Intervals(i, s + Interval) \in Nat
    <3>1. next \in Nat /\ s + Interval \in Nat /\ next <= s + Interval
      BY <1>0, <1>1, IntervalAssumption DEF TypeOK
    <3> QED BY <1>0, <3>1, IntervalsGrow
  <2>4. Since(i) \in Int /\ Cardinality(Waiting) \in Nat
    <3>1. Len(departed) \in Nat /\ i \in Nat
      BY <1>0 DEF TypeOK
    <3>2. Cardinality(Waiting) \in 0..Workers
      BY ThreadsFinite DEF Waiting
    <3> QED BY <3>1, <3>2 DEF Since
  <2> QED BY <1>5, <2>1, <2>2, <2>3, <2>4, IntervalAssumption
<1>7. Paced'
  <2> SUFFICES ASSUME NEW i \in DOMAIN departed, NEW t \in Nat, now <= t
               PROVE  Since(i) + Cardinality(Due(t)')
                          <= Workers + 1 + Intervals(i, t)
    BY <1>2 DEF Paced, Since, Intervals, Due
  <2>1. Since(i) \in Int /\ Cardinality(Waiting) \in Nat
        /\ Cardinality(Due(t)) \in Nat
    <3>1. Len(departed) \in Nat /\ i \in Nat
      BY <1>0 DEF TypeOK
    <3>2. Cardinality(Waiting) \in 0..Workers
          /\ Cardinality(Due(t)) \in 0..Workers
      BY ThreadsFinite DEF Waiting, Due
    <3> QED BY <3>1, <3>2 DEF Since
  <2>2. CASE t < s
    <3>1. Due(t)' = Due(t)
      BY <1>1, <1>2, <2>2 DEF Due, IInv, TypeOK
    <3> QED BY <3>1 DEF IInv, Paced
  <2>3. CASE s <= t
    <3>1. Cardinality(Due(t)') <= Cardinality(Waiting')
          /\ Cardinality(Due(t)') \in Nat
      <4>1. Due(t)' \subseteq Waiting'
        BY DEF Due, Waiting
      <4>2. IsFiniteSet(Waiting') /\ Cardinality(Due(t)') \in 0..Workers
        BY ThreadsFinite DEF Waiting, Due
      <4> QED BY <4>1, <4>2, FS_Subset
    <3>2. Since(i) + Cardinality(Waiting) <= Workers + Intervals(i, next)
      BY DEF IInv, Booked
    <3>3. Intervals(i, next) <= Intervals(i, t)
          /\ Intervals(i, next) \in Nat /\ Intervals(i, t) \in Nat
      <4>1. next \in Nat /\ next <= t
        BY <1>0, <1>1, <2>3 DEF TypeOK
      <4> QED BY <1>0, <4>1, IntervalsGrow
    <3> QED BY <1>5, <2>1, <3>1, <3>2, <3>3, IntervalAssumption
  <2> QED BY <1>1, <2>2, <2>3
<1> QED BY <1>3, <1>6, <1>7 DEF IInv

LEMMA DepartKeeps ==
    ASSUME IInv, NEW w \in Threads, Depart(w)
    PROVE  IInv'
<1> DEFINE n == Len(departed)
<1>1. PICK s \in slot[w] : s <= now
  BY DEF Depart
<1>2. /\ slot' = [slot EXCEPT ![w] = {}]
      /\ departed' = Append(departed, now) /\ UNCHANGED <<now, next>>
  BY DEF Depart
<1>3. n \in Nat /\ Len(departed') = n + 1 /\ DOMAIN departed = 1..n
      /\ DOMAIN departed' = 1..(n + 1) /\ departed'[n + 1] = now
      /\ \A i \in 1..n : departed'[i] = departed[i]
  BY <1>2 DEF IInv, TypeOK
<1> HIDE DEF n
<1>k. PICK k \in Nat : k = n + 1
  BY <1>3
<1>4. TypeOK'
  BY <1>2 DEF IInv, TypeOK
<1>5. Past'
  BY <1>2, <1>3 DEF IInv, TypeOK, Past
<1>6. Waiting' = Waiting \ {w} /\ w \in Waiting
  BY <1>1, <1>2 DEF Waiting, IInv, TypeOK
<1>7. Cardinality(Waiting') = Cardinality(Waiting) - 1
  <2>1. IsFiniteSet(Waiting)
    BY ThreadsFinite DEF Waiting
  <2> QED BY <1>6, <2>1, FS_RemoveElement
<1>8. \A i \in 1..n : Since(i)' = Since(i) + 1 /\ Since(i) \in Int
  BY <1>3 DEF Since, n
<1>9. Since(k)' = 1
  BY <1>3, <1>k DEF Since
<1>10. Cardinality(Waiting) \in 0..Workers
  BY ThreadsFinite DEF Waiting
<1>11. \A t \in Nat : /\ Cardinality(Due(t)) \in 0..Workers
                      /\ Cardinality(Due(t)') \in Nat
                      /\ Cardinality(Due(t)') <= Cardinality(Waiting')
  <2> SUFFICES ASSUME NEW t \in Nat
               PROVE  /\ Cardinality(Due(t)) \in 0..Workers
                      /\ Cardinality(Due(t)') \in Nat
                      /\ Cardinality(Due(t)') <= Cardinality(Waiting')
    OBVIOUS
  <2>1. Due(t)' \subseteq Waiting'
    BY DEF Due, Waiting
  <2>2. IsFiniteSet(Waiting') /\ Cardinality(Due(t)') \in 0..Workers
        /\ Cardinality(Due(t)) \in 0..Workers
    BY ThreadsFinite DEF Waiting, Due
  <2> QED BY <2>1, <2>2, FS_Subset
<1>12. Booked'
  <2>1. ASSUME NEW i \in 1..n
        PROVE  Since(i)' + Cardinality(Waiting')
                   <= Workers + Intervals(i, next)'
    <3>1. Since(i) + Cardinality(Waiting) <= Workers + Intervals(i, next)
      BY <1>3 DEF IInv, Booked
    <3>2. Intervals(i, next)' = Intervals(i, next)
      BY <1>2, <1>3 DEF Intervals
    <3> QED BY <1>7, <1>8, <1>10, <3>1, <3>2
  <2>2. Since(k)' + Cardinality(Waiting')
            <= Workers + Intervals(k, next)'
    <3>1. Intervals(k, next)' \in Nat
      <4>1. departed'[k] \in Nat /\ departed'[k] = now /\ next' \in Nat
        BY <1>2, <1>3, <1>4, <1>k DEF TypeOK
      <4>2. CASE next' < departed'[k]
        BY <4>2 DEF Intervals
      <4>3. CASE ~(next' < departed'[k])
        BY <4>1, <4>3, DivFacts DEF Intervals
      <4> QED BY <4>2, <4>3
    <3> QED BY <1>7, <1>9, <1>10, <3>1, IntervalAssumption
  <2> QED BY <1>3, <1>k, <2>1, <2>2 DEF Booked
<1>13. Paced'
  <2>1. ASSUME NEW i \in 1..n, NEW t \in Nat, now <= t
        PROVE  Since(i)' + Cardinality(Due(t)')
                   <= Workers + 1 + Intervals(i, t)'
    <3>1. Due(t)' = Due(t) \ {w} /\ w \in Due(t)
      BY <1>1, <1>2, <2>1 DEF Due, IInv, TypeOK
    <3>2. IsFiniteSet(Due(t))
      BY ThreadsFinite DEF Due
    <3>3. Cardinality(Due(t)') = Cardinality(Due(t)) - 1
      BY <3>1, <3>2, FS_RemoveElement
    <3>4. Since(i) + Cardinality(Due(t)) <= Workers + 1 + Intervals(i, t)
      BY <1>3, <2>1 DEF IInv, Paced
    <3>5. Intervals(i, t)' = Intervals(i, t)
      BY <1>3 DEF Intervals
    <3> QED BY <1>8, <1>11, <3>3, <3>4, <3>5
  <2>2. ASSUME NEW t \in Nat
        PROVE  Since(k)' + Cardinality(Due(t)')
                   <= Workers + 1 + Intervals(k, t)'
    <3>1. Intervals(k, t)' \in Nat
      <4>1. departed'[k] \in Nat /\ departed'[k] = now
        BY <1>2, <1>3, <1>4, <1>k DEF TypeOK
      <4>2. CASE t < departed'[k]
        BY <4>2 DEF Intervals
      <4>3. CASE ~(t < departed'[k])
        BY <4>1, <4>3, DivFacts DEF Intervals
      <4> QED BY <4>2, <4>3
    <3> QED BY <1>7, <1>9, <1>10, <1>11, <3>1, IntervalAssumption
  <2> QED BY <1>2, <1>3, <1>k, <2>1, <2>2 DEF Paced
<1>14. RateHeld'
  <2> SUFFICES ASSUME NEW i \in 1..(n + 1), NEW j \in i..(n + 1)
               PROVE  (j - i) + 1 <= Workers + 1
                          + (departed'[j] - departed'[i]) \div Interval
    BY <1>3 DEF RateHeld
  <2>1. CASE j <= n
    <3>1. i \in 1..n /\ j \in i..n
      BY <1>3, <2>1
    <3>2. RateHeld /\ DOMAIN departed = 1..n /\ Len(departed) = n
      BY <1>3 DEF IInv, n
    <3>3. departed'[i] = departed[i] /\ departed'[j] = departed[j]
      BY <1>3, <3>1
    <3> QED BY <3>1, <3>2, <3>3 DEF RateHeld
  <2>2. CASE j = n + 1
    <3>1. Since(i)' + Cardinality(Due(now)')
              <= Workers + 1 + Intervals(i, now)'
      BY <1>2, <1>3, <1>13 DEF Paced, IInv, TypeOK
    <3>2. Since(i)' = (j - i) + 1
      BY <1>3, <2>2 DEF Since
    <3>3. departed'[i] <= now /\ departed'[i] \in Nat /\ now \in Nat
      BY <1>2, <1>3, <1>4, <1>5 DEF Past, TypeOK
    <3>4. Intervals(i, now)' = (departed'[j] - departed'[i]) \div Interval
      BY <1>2, <1>3, <2>2, <3>3 DEF Intervals
    <3>5. Cardinality(Due(now)') \in Nat
      BY <1>2, <1>11, <3>3 DEF Due
    <3>6. departed'[j] - departed'[i] \in Nat
      BY <1>3, <2>2, <3>3
    <3>7. (departed'[j] - departed'[i]) \div Interval \in Nat
      BY <3>6, DivFacts
    <3> QED
      BY <1>3, <3>1, <3>2, <3>4, <3>5, <3>7, IntervalAssumption
  <2> QED BY <1>3, <2>1, <2>2
<1> QED BY <1>4, <1>5, <1>12, <1>13, <1>14 DEF IInv

-----------------------------------------------------------------------------
\* For any number of threads and any interval: no stretch of time sees more
\* calls leave than one for each interval in it, one for the slot it starts
\* with and one for each thread (citation_run.py, RateLimiter.wait).
THEOREM RateIsHeld == Spec => []RateHeld
<1>1. IInv /\ [Next]_vars => IInv'
  <2> SUFFICES ASSUME IInv, [Next]_vars PROVE IInv'
    OBVIOUS
  <2>1. CASE UNCHANGED vars
    BY <2>1
    DEF vars, IInv, TypeOK, Past, Booked, Paced, RateHeld, Since, Waiting, Due,
        Intervals
  <2> QED BY <2>1, TickKeeps, ReserveKeeps, DepartKeeps DEF Next
<1>2. IInv => RateHeld
  BY DEF IInv
<1> QED BY <1>1, <1>2, InitIInv, PTL DEF Spec
=============================================================================
