---------------------------- MODULE ArmRunnerProofs ----------------------------
(***************************************************************************)
(* A job of the matched run, for any accepted episode, any answers and any *)
(* number of retries: what a call leaves on record is accepted unless a    *)
(* read timed out, a completed episode is one whose every event was        *)
(* answered, and the receipt is verified exactly when every call left      *)
(* usable evidence.                                                        *)
(***************************************************************************)
EXTENDS ArmRunner, FiniteSetTheorems, WellFoundedInduction, TLAPS

-----------------------------------------------------------------------------
(* One call *)
Again == Retryable \union {"TRANSPORT"}
Codes == Again \union Terminal \union {"OK"}

\* All statuses up to the n-th led to another attempt.
Repeated(n) == \A i \in 1..n : statuses[i] \in Again

CallTypeOK ==
    /\ pc \in {"send", "open", "read", "parse", "returned", "raised", "escaped"}
    /\ attempt \in 0..MaxRetries /\ statuses \in Seq(Codes)
    /\ body = {} \/ \E b \in Bodies : body = {b}
    /\ sent \in Nat /\ misread \in BOOLEAN

\* What a call has on file at each point.
OnFile ==
    /\ pc \in {"send", "open", "read"} => body = {}
    /\ pc = "returned" => body = {"valid"}
    /\ pc \notin {"returned", "raised"} => telemetry = {}
    /\ pc = "returned" => telemetry = {Row("PASS", "none", statuses)}
    /\ pc = "raised" =>
        \/ telemetry = {} /\ body = {"undecodable"}
        \/ /\ body \in {{}, {"malformed"}}
           /\ \E class \in {"HTTP", "TRANSPORT", "RESPONSE"} :
                telemetry = {Row("FAIL", class, statuses)}

\* How the statuses came about: one for each attempt, but two for one whose
\* read timed out.
Told ==
    /\ (\E i \in DOMAIN statuses : statuses[i] \in Terminal) => pc = "raised"
    /\ misread => \E i \in 1..(Len(statuses) - 1) : statuses[i] = "OK"
    /\ ~misread =>
        /\ pc \in {"send", "open"} =>
              Len(statuses) = attempt /\ Repeated(attempt)
        /\ pc \in {"read", "parse", "returned", "raised"} =>
              Len(statuses) = attempt + 1 /\ Repeated(attempt)
        /\ pc \in {"read", "parse", "returned"} =>
              statuses[Len(statuses)] = "OK"

CallInv == CallTypeOK /\ OnFile /\ Told

LEMMA CodesApart ==
    /\ "OK" \notin Again /\ "OK" \notin Terminal
    /\ Again \intersect Terminal = {}
BY StatusAssumption DEF Again

LEMMA CallBegins == Init => CallInv
<1> SUFFICES ASSUME Init PROVE CallInv
  OBVIOUS
<1>1. CallTypeOK
  <2>1. <<>> \in Seq(Codes) /\ 0 \in 0..MaxRetries
    BY LimitAssumption
  <2> QED BY <2>1 DEF Init, CallTypeOK
<1>2. OnFile /\ Told
  BY DEF Init, OnFile, Told, Repeated
<1> QED BY <1>1, <1>2 DEF CallInv

\* A status more on record.
LEMMA StatusAdded ==
    ASSUME NEW s \in Seq(Codes), NEW c \in Codes
    PROVE  /\ Append(s, c) \in Seq(Codes) /\ Len(Append(s, c)) = Len(s) + 1
           /\ Len(s) \in Nat
           /\ \A i \in 1..Len(s) : Append(s, c)[i] = s[i]
           /\ Append(s, c)[Len(s) + 1] = c
OBVIOUS

\* Where no earlier status ended the call and this one is tried again or
\* ends it, the statuses still tell what happened.
LEMMA RetryTells ==
    ASSUME CallInv, pc \in {"open", "read"},
           NEW class \in {"HTTP", "TRANSPORT"}, NEW c \in Again \union Terminal,
           pc = "read" => c = "TRANSPORT",
           GiveUpOrRetry(class, c), misread' = (misread \/ pc = "read"),
           UNCHANGED <<body, sent>>
    PROVE  CallInv'
<1>1. /\ statuses \in Seq(Codes) /\ c \in Codes /\ attempt \in 0..MaxRetries
      /\ body = {} /\ telemetry = {}
  BY DEF CallInv, CallTypeOK, OnFile, Codes
<1>2. statuses' = Append(statuses, c)
  BY DEF GiveUpOrRetry
<1>3. /\ statuses' \in Seq(Codes) /\ Len(statuses') = Len(statuses) + 1
      /\ Len(statuses) \in Nat
      /\ \A i \in 1..Len(statuses) : statuses'[i] = statuses[i]
      /\ statuses'[Len(statuses) + 1] = c
      /\ DOMAIN statuses = 1..Len(statuses)
      /\ DOMAIN statuses' = 1..(Len(statuses) + 1)
  BY <1>1, <1>2, StatusAdded
<1>4. \A i \in DOMAIN statuses : statuses[i] \notin Terminal
  BY DEF CallInv, Told
<1>5. \/ /\ pc' = "raised" /\ UNCHANGED attempt
         /\ telemetry' = {Row("FAIL", class, statuses')}
      \/ /\ pc' = "send" /\ attempt' = attempt + 1 /\ attempt < MaxRetries
         /\ UNCHANGED telemetry /\ c \in Again
  BY <1>1, <1>2, LimitAssumption DEF GiveUpOrRetry, Failed
<1>6. CallTypeOK'
  BY <1>1, <1>3, <1>5, LimitAssumption DEF CallInv, CallTypeOK
<1>7. OnFile'
  <2>1. CASE pc' = "send"
    BY <1>1, <1>5, <2>1 DEF OnFile
  <2>2. CASE pc' = "raised"
    BY <1>1, <1>5, <2>2 DEF OnFile, Row
  <2> QED BY <1>5, <2>1, <2>2
<1>8. Told'
  <2>1. (\E i \in DOMAIN statuses' : statuses'[i] \in Terminal) => pc' = "raised"
    BY <1>3, <1>4, <1>5, CodesApart
  <2>2. misread' => \E i \in 1..(Len(statuses') - 1) : statuses'[i] = "OK"
    <3>1. CASE misread
      <4>1. PICK i \in 1..(Len(statuses) - 1) : statuses[i] = "OK"
        BY <3>1 DEF CallInv, Told
      <4>2. i \in 1..Len(statuses) /\ i \in 1..(Len(statuses') - 1)
        BY <1>3, <4>1
      <4> QED BY <1>3, <4>1, <4>2
    <3>2. CASE ~misread /\ pc = "read"
      <4>1. Len(statuses) = attempt + 1 /\ statuses[Len(statuses)] = "OK"
        BY <3>2 DEF CallInv, Told
      <4>2. Len(statuses) \in 1..(Len(statuses') - 1)
            /\ Len(statuses) \in 1..Len(statuses)
        BY <1>1, <1>3, <4>1
      <4> QED BY <1>3, <4>1, <4>2
    <3> QED BY <3>1, <3>2
  <2>3. ASSUME ~misread'
        PROVE  /\ pc = "open" /\ Len(statuses') = attempt + 1
               /\ \A i \in 1..attempt : statuses'[i] \in Again
    <3>1. ~misread /\ pc = "open"
      BY <2>3
    <3>2. Len(statuses) = attempt /\ Repeated(attempt)
      BY <3>1 DEF CallInv, Told
    <3> QED BY <1>1, <1>3, <3>1, <3>2 DEF Repeated
  <2>4. ASSUME ~misread', pc' = "send"
        PROVE  Len(statuses') = attempt' /\ Repeated(attempt)'
    <3>1. attempt' = attempt + 1 /\ c \in Again
      BY <1>5, <2>4
    <3>2. \A i \in 1..(attempt + 1) : statuses'[i] \in Again
      BY <1>1, <1>3, <2>3, <2>4, <3>1
    <3> QED BY <2>3, <2>4, <3>1, <3>2 DEF Repeated
  <2>5. ASSUME ~misread', pc' = "raised"
        PROVE  Len(statuses') = attempt' + 1 /\ Repeated(attempt)'
    BY <1>5, <2>3, <2>5 DEF Repeated
  <2> QED BY <1>5, <2>1, <2>2, <2>4, <2>5 DEF Told
<1> QED BY <1>6, <1>7, <1>8 DEF CallInv

LEMMA CallKeeps ==
    ASSUME CallInv, Next
    PROVE  CallInv'
<1> USE DEF CallInv
<1>1. CASE Send
  BY <1>1 DEF Send, CallTypeOK, OnFile, Told, Repeated
<1>2. CASE HTTPError
  <2>1. PICK c \in Retryable \union Terminal : GiveUpOrRetry("HTTP", c)
    BY <1>2 DEF HTTPError
  <2> QED BY <1>2, <2>1, RetryTells DEF HTTPError, Again, CallTypeOK
<1>3. CASE TransportError
  BY <1>3, RetryTells DEF TransportError, Again
<1>4. CASE Opened
  <2>1. pc = "open" /\ pc' = "read" /\ statuses' = Append(statuses, "OK")
        /\ UNCHANGED <<attempt, body, telemetry, sent, misread>>
    BY <1>4 DEF Opened
  <2>2. /\ statuses' \in Seq(Codes) /\ Len(statuses') = Len(statuses) + 1
        /\ Len(statuses) \in Nat
        /\ \A i \in 1..Len(statuses) : statuses'[i] = statuses[i]
        /\ statuses'[Len(statuses) + 1] = "OK"
        /\ DOMAIN statuses = 1..Len(statuses)
        /\ DOMAIN statuses' = 1..(Len(statuses) + 1)
    <3>1. statuses \in Seq(Codes) /\ "OK" \in Codes
      BY DEF CallTypeOK, Codes
    <3> QED BY <2>1, <3>1, StatusAdded
  <2>3. CallTypeOK' /\ OnFile'
    BY <2>1, <2>2 DEF CallTypeOK, OnFile
  <2>4. \A i \in DOMAIN statuses' : statuses'[i] \notin Terminal
    BY <2>1, <2>2, CodesApart DEF Told
  <2>5. misread => \E i \in 1..(Len(statuses') - 1) : statuses'[i] = "OK"
    BY <2>2 DEF Told
  <2>6. ~misread => /\ Len(statuses') = attempt + 1
                    /\ \A i \in 1..attempt : statuses'[i] \in Again
                    /\ statuses'[Len(statuses')] = "OK"
    BY <2>1, <2>2 DEF Told, Repeated
  <2> QED BY <2>1, <2>3, <2>4, <2>5, <2>6 DEF Told, Repeated
<1>5. CASE Escape
  BY <1>5 DEF Escape, CallTypeOK, OnFile, Told, Repeated
<1>6. CASE Oversized
  <2>1. telemetry' = {Row("FAIL", "RESPONSE", statuses)}
    BY <1>6 DEF Oversized, Failed, OnFile
  <2> QED BY <1>6, <2>1 DEF Oversized, Failed, CallTypeOK, OnFile, Told,
                              Repeated, Row
<1>7. CASE Read
  BY <1>7 DEF Read, CallTypeOK, OnFile, Told, Repeated
<1>8. CASE ParseValid
  <2>1. telemetry' = {Row("PASS", "none", statuses)}
    BY <1>8 DEF ParseValid, OnFile
  <2> QED BY <1>8, <2>1 DEF ParseValid, CallTypeOK, OnFile, Told, Repeated, Row
<1>9. CASE ParseMalformed
  <2>1. telemetry' = {Row("FAIL", "RESPONSE", statuses)}
    BY <1>9 DEF ParseMalformed, Failed, OnFile
  <2> QED BY <1>9, <2>1 DEF ParseMalformed, Failed, CallTypeOK, OnFile, Told,
                              Repeated, Row
<1>10. CASE ParseUndecodable
  BY <1>10 DEF ParseUndecodable, CallTypeOK, OnFile, Told, Repeated
<1> QED BY <1>1, <1>2, <1>3, <1>4, <1>5, <1>6, <1>7, <1>8, <1>9, <1>10 DEF Next

\* The statuses of a finished call are accepted unless a read timed out.
LEMMA HistoryTells ==
    ASSUME CallInv, NEW row \in telemetry
    PROVE  /\ HistoryAccepted(row) <=> ~misread
           /\ row.status \in {"PASS", "FAIL"}
           /\ row.status = "PASS" <=> pc = "returned"
           /\ row.body = body
           /\ row.status = "PASS" => row.class = "none"
           /\ row.status = "FAIL" => row.class \in {"HTTP", "TRANSPORT", "RESPONSE"}
<1>1. pc \in {"returned", "raised"} /\ row.statuses = statuses
      /\ row.status \in {"PASS", "FAIL"}
      /\ (row.status = "PASS" <=> pc = "returned") /\ row.body = body
      /\ (row.status = "PASS" => row.class = "none")
      /\ (row.status = "FAIL" => row.class \in {"HTTP", "TRANSPORT", "RESPONSE"})
  BY DEF CallInv, OnFile, Row
<1>2. attempt \in 0..MaxRetries /\ Len(statuses) \in Nat /\ misread \in BOOLEAN
  BY DEF CallInv, CallTypeOK
<1>3. CASE misread
  <2>1. PICK i \in 1..(Len(statuses) - 1) : statuses[i] = "OK"
    BY <1>3 DEF CallInv, Told
  <2> QED BY <1>1, <1>3, <2>1, CodesApart DEF HistoryAccepted, Again
<1>4. CASE ~misread
  <2>1. /\ Len(statuses) = attempt + 1 /\ Repeated(attempt)
        /\ pc = "returned" => statuses[Len(statuses)] = "OK"
    BY <1>1, <1>4 DEF CallInv, Told
  <2>2. HistoryAccepted(row)
    BY <1>1, <1>2, <2>1, LimitAssumption DEF HistoryAccepted, Again, Repeated
  <2> QED BY <1>1, <1>4, <2>2
<1> QED BY <1>1, <1>2, <1>3, <1>4

LEMMA RefusalTells == CallInv => RefusedExactly
<1> SUFFICES ASSUME CallInv, CitationKept, NEW row \in telemetry
             PROVE  CitationAccepts(row, CitationRecord(row)) <=> ~misread
  BY DEF RefusedExactly
<1>1. /\ HistoryAccepted(row) <=> ~misread
      /\ row.status \in {"PASS", "FAIL"}
      /\ row.status = "PASS" <=> pc = "returned"
      /\ row.body = body
      /\ row.status = "PASS" => row.class = "none"
      /\ row.status = "FAIL" => row.class \in {"HTTP", "TRANSPORT", "RESPONSE"}
  BY HistoryTells
<1>2. pc \in {"returned", "raised"} /\ (pc = "returned" => body # {})
  BY DEF CitationKept, Kept, CallInv, OnFile
<1>3. CASE pc = "returned"
  BY <1>1, <1>2, <1>3 DEF CitationAccepts, CitationRecord
<1>4. CASE pc = "raised"
  BY <1>1, <1>2, <1>4 DEF CitationAccepts, CitationRecord
<1> QED BY <1>2, <1>3, <1>4

-----------------------------------------------------------------------------
(* What is known of the episode *)
LEMMA EpisodeFacts ==
    /\ Len(Events) \in Nat /\ DOMAIN Events = 1..Len(Events)
    /\ \A i, j \in DOMAIN Events : Events[i].id = Events[j].id => i = j
    /\ \A i \in DOMAIN Events : ActorPermitted(Episode, i)
    /\ FinalReached(Episode)
    /\ Episode.initial = [o \in Objects |-> Episode.initial[o]]
    /\ Episode.final = [o \in Objects |-> Episode.final[o]]
<1>1. Len(Events) \in Nat /\ DOMAIN Events = 1..Len(Events)
  <2>1. Events \in Seq({Events[i] : i \in DOMAIN Events})
    BY ShapeAssumption DEF Events
  <2> QED BY <2>1
<1>2. HoldsBefore(Episode, "coverage") /\ HoldsBefore(Episode, "event_ids")
  <2>1. 3 \in DOMAIN Before /\ Before[3] = "coverage"
        /\ 4 \in DOMAIN Before /\ Before[4] = "event_ids"
    BY DEF Before
  <2>2. HoldsBefore(Episode, Before[3]) /\ HoldsBefore(Episode, Before[4])
    BY <2>1, EpisodeAssumption DEF Consistent
  <2> QED BY <2>1, <2>2
<1>3. Covered(Episode) /\ UniqueEvents(Episode)
  BY <1>2 DEF HoldsBefore
<1>4. ASSUME NEW i \in DOMAIN Events PROVE ActorPermitted(Episode, i)
  <2>1. 3 \in DOMAIN PerEvent /\ PerEvent[3] = "actor"
    BY DEF PerEvent
  <2>2. HoldsAt(Episode, i, PerEvent[3])
    BY <2>1, EpisodeAssumption DEF Consistent, Events
  <2> QED BY <2>1, <2>2 DEF HoldsAt
<1>5. FinalReached(Episode)
  BY EpisodeAssumption DEF Consistent
<1>6. DOMAIN Episode.final = Objects
  BY <1>3 DEF Covered, Objects
<1> QED BY <1>1, <1>3, <1>4, <1>5, <1>6, ShapeAssumption
        DEF UniqueEvents, Events, Objects

\* The events leave an object in one state only.
LEMMA LeavesOne ==
    ASSUME NEW n \in Nat, n <= Len(Events), NEW o, NEW s, NEW t,
           Leaves(Episode, n, o, s), Leaves(Episode, n, o, t)
    PROVE  s = t
<1> DEFINE LastMove(k) == /\ Moves(Episode.events[k], o)
                          /\ \A l \in (k + 1)..n : ~Moves(Episode.events[l], o)
<1>1. ASSUME NEW k \in 1..n, NEW m \in 1..n, LastMove(k), LastMove(m)
      PROVE  k = m
  <2>1. ~(k < m) /\ ~(m < k)
    BY <1>1
  <2> QED BY <2>1
<1> QED BY <1>1 DEF Leaves

\* An event that is applied moves the objects it names and no other.
LEMMA LeavesOn ==
    ASSUME NEW n \in Nat, n < Len(Events), NEW o, NEW s, NEW t,
           Leaves(Episode, n, o, s),
           t = IF Moves(Events[n + 1], o) THEN Events[n + 1].mutations[o].to ELSE s
    PROVE  Leaves(Episode, n + 1, o, t)
<1>1. CASE Moves(Events[n + 1], o)
  <2>1. n + 1 \in 1..(n + 1) /\ \A l \in ((n + 1) + 1)..(n + 1) : FALSE
    OBVIOUS
  <2> QED BY <1>1, <2>1 DEF Leaves, Events
<1>2. CASE ~Moves(Events[n + 1], o)
  <2>1. \A l \in 1..(n + 1) : l \in 1..n \/ l = n + 1
    OBVIOUS
  <2>2. CASE s = Episode.initial[o] /\ \A k \in 1..n : ~Moves(Episode.events[k], o)
    BY <1>2, <2>1, <2>2 DEF Leaves, Events
  <2>3. CASE \E k \in 1..n :
                /\ Moves(Episode.events[k], o) /\ s = Episode.events[k].mutations[o].to
                /\ \A l \in (k + 1)..n : ~Moves(Episode.events[l], o)
    <3>1. PICK k \in 1..n :
                /\ Moves(Episode.events[k], o) /\ s = Episode.events[k].mutations[o].to
                /\ \A l \in (k + 1)..n : ~Moves(Episode.events[l], o)
      BY <2>3
    <3>2. k \in 1..(n + 1)
          /\ \A l \in (k + 1)..(n + 1) : l \in (k + 1)..n \/ l = n + 1
      OBVIOUS
    <3>3. \A l \in (k + 1)..(n + 1) : ~Moves(Episode.events[l], o)
      BY <1>2, <3>1, <3>2 DEF Events
    <3> QED BY <1>2, <3>1, <3>2, <3>3 DEF Leaves
  <2> QED BY <2>2, <2>3 DEF Leaves
<1> QED BY <1>1, <1>2

-----------------------------------------------------------------------------
(* The job *)
RecordSet ==
    [event : {Events[i].id : i \in DOMAIN Events},
     response : {{}} \union {{r} : r \in Responses},
     error : {{}, {"provider"}}, action_match : BOOLEAN,
     citation_supported : BOOLEAN, mutation_applied : BOOLEAN]

RowSet ==
    [status : {"PASS", "FAIL"}, class : {"none", "HTTP", "TRANSPORT", "RESPONSE"},
     statuses : Seq(Codes), body : {{}} \union {{b} : b \in Bodies}]

JobTypeOK ==
    /\ verdict \in {"running", "lost", "verified", "refused"}
    /\ records \in Seq(RecordSet) /\ Len(records) <= Len(Events)
    /\ rows \in Seq(RowSet) /\ ok \in BOOLEAN
    /\ doneBy = [e \in Script |-> doneBy[e]]
    /\ objects = [o \in Objects |-> objects[o]]

\* The states between the events played, and that the records tell them.
Stored(h) ==
    /\ h[0] = Episode.initial /\ h[Len(records)] = objects
    /\ \A i \in DOMAIN records :
        /\ \/ \E r \in Responses : records[i] = Judged(Events[i], r, h[i - 1])
           \/ records[i] = Unanswered(Events[i], "provider")
        /\ h[i] = IF records[i].mutation_applied
                  THEN Moved(Events[i], h[i - 1]) ELSE h[i - 1]

Graded == ok <=> \A i \in DOMAIN records : Good(records[i])

Reached == ok => \A o \in Objects : Leaves(Episode, Len(records), o, objects[o])

\* A row that the verification takes for the record beside it.
Clean(row, record) ==
    HistoryFits(row, record) /\ (row.status = "FAIL" => row.body = {})

Evidence ==
    /\ Len(rows) <= Len(records)
    /\ flaws = {} <=> /\ Len(rows) = Len(records)
                      /\ \A i \in DOMAIN records : Clean(rows[i], records[i])

ToCome == \A i \in DOMAIN Events : Here <= i => doneBy[Events[i]] = {}

JobInv ==
    /\ CallInv /\ JobTypeOK /\ Graded /\ Reached /\ Evidence /\ ToCome
    /\ VerifiedExactly /\ \E h : Stored(h)

-----------------------------------------------------------------------------
(* The end of a call *)
LEMMA NoRow == SetToSeq({}) = <<>>
<1>1. Cardinality({}) = 0
  BY FS_EmptySet
<1>2. <<>> \in [1..0 -> {}] /\ IsInjective(<<>>)
  BY DEF IsInjective
<1>3. \A f \in [1..0 -> {}] : f = <<>>
  OBVIOUS
<1> QED BY <1>1, <1>2, <1>3 DEF SetToSeq

LEMMA OneRow == ASSUME NEW x PROVE SetToSeq({x}) = <<x>>
<1>1. Cardinality({x}) = 1
  BY FS_Singleton
<1>2. <<x>> \in [1..1 -> {x}] /\ IsInjective(<<x>>)
  BY DEF IsInjective
<1>3. \A f \in [1..1 -> {x}] : f = <<x>>
  OBVIOUS
<1> QED BY <1>1, <1>2, <1>3 DEF SetToSeq

\* A call leaves one row, but none when its body was not even text.
LEMMA RowsAdded ==
    ASSUME CallInv, JobTypeOK, pc \in {"returned", "raised"}, EndCall
    PROVE  \/ telemetry = {} /\ body = {"undecodable"} /\ rows' = rows
           \/ \E row \in RowSet : telemetry = {row} /\ rows' = Append(rows, row)
<1>1. rows' = rows \o SetToSeq(telemetry) /\ rows \in Seq(RowSet)
  BY DEF EndCall, JobTypeOK
<1>2. CASE telemetry = {}
  BY <1>1, <1>2, NoRow DEF CallInv, OnFile
<1>3. ASSUME NEW row, telemetry = {row}, row \in RowSet
      PROVE  \E r \in RowSet : telemetry = {r} /\ rows' = Append(rows, r)
  <2>1. rows' = rows \o <<row>>
    BY <1>1, <1>3, OneRow
  <2>2. rows \o <<row>> = Append(rows, row)
    BY <1>1, <1>3
  <2> QED BY <1>3, <2>1, <2>2
<1>4. statuses \in Seq(Codes) /\ body \in {{}} \union {{b} : b \in Bodies}
  BY DEF CallInv, CallTypeOK
<1>5. CASE telemetry # {}
  <2>1. PICK status \in {"PASS", "FAIL"},
             class \in {"none", "HTTP", "TRANSPORT", "RESPONSE"} :
                telemetry = {Row(status, class, statuses)}
    BY <1>5 DEF CallInv, OnFile
  <2>2. Row(status, class, statuses) \in RowSet
    BY <1>4 DEF Row, RowSet
  <2> QED BY <1>3, <2>1, <2>2
<1> QED BY <1>2, <1>5

\* The row of a call and the record made of it are taken for each other
\* unless the call was misread or its answer unusable.
LEMMA CleanTells ==
    ASSUME CallInv, NEW row, telemetry = {row}, NEW record,
           record.response # {} <=> pc = "returned"
    PROVE  Clean(row, record) <=> ~misread /\ body \in {{}, {"valid"}}
<1>1. /\ HistoryAccepted(row) <=> ~misread
      /\ row.status \in {"PASS", "FAIL"}
      /\ row.status = "PASS" <=> pc = "returned"
      /\ row.body = body
  BY HistoryTells
<1>2. HistoryFits(row, record) <=> ~misread
  BY <1>1 DEF HistoryFits
<1>3. CASE pc = "returned"
  <2>1. body = {"valid"}
    BY <1>3 DEF CallInv, OnFile
  <2> QED BY <1>1, <1>2, <1>3, <2>1 DEF Clean
<1>4. CASE pc # "returned"
  <2>1. body \in {{}, {"malformed"}}
    BY <1>4 DEF CallInv, OnFile
  <2> QED BY <1>1, <1>2, <1>4, <2>1 DEF Clean
<1> QED BY <1>3, <1>4

LEMMA EvidenceKeeps ==
    ASSUME CallInv, JobTypeOK, Evidence, pc \in {"returned", "raised"}, EndCall,
           NEW record \in RecordSet, records' = Append(records, record),
           record.response # {} <=> pc = "returned"
    PROVE  Evidence' /\ rows' \in Seq(RowSet)
<1>1. /\ records \in Seq(RecordSet) /\ rows \in Seq(RowSet)
      /\ Len(records) \in Nat /\ Len(rows) \in Nat
      /\ DOMAIN records = 1..Len(records) /\ Len(rows) <= Len(records)
  BY DEF JobTypeOK, Evidence
<1>2. /\ Len(records') = Len(records) + 1
      /\ DOMAIN records' = 1..(Len(records) + 1)
      /\ \A i \in DOMAIN records : records'[i] = records[i]
      /\ records'[Len(records) + 1] = record
  BY <1>1
<1>3. /\ flaws' = flaws \union (IF misread THEN {"misread"} ELSE {})
                    \union (IF body \in {{}, {"valid"}} THEN {} ELSE {"unusable"})
      /\ misread \in BOOLEAN
  BY DEF EndCall, CallInv, CallTypeOK
<1>4. flaws' = {} <=> flaws = {} /\ ~misread /\ body \in {{}, {"valid"}}
  BY <1>3
<1>5. CASE telemetry = {} /\ body = {"undecodable"} /\ rows' = rows
  <2>1. flaws' # {}
    BY <1>4, <1>5
  <2>2. Len(rows') < Len(records')
    BY <1>1, <1>2, <1>5
  <2> QED BY <1>1, <1>2, <1>5, <2>1, <2>2 DEF Evidence
<1>6. ASSUME NEW row \in RowSet, telemetry = {row}, rows' = Append(rows, row)
      PROVE  Evidence' /\ rows' \in Seq(RowSet)
  <2>1. /\ Len(rows') = Len(rows) + 1 /\ rows' \in Seq(RowSet)
        /\ \A i \in 1..Len(rows) : rows'[i] = rows[i]
        /\ rows'[Len(rows) + 1] = row
    BY <1>1, <1>6
  <2>2. Clean(row, record) <=> ~misread /\ body \in {{}, {"valid"}}
    BY <1>6, CleanTells
  <2>3. CASE Len(rows) = Len(records)
    <3>1. flaws = {} <=> \A i \in DOMAIN records : Clean(rows[i], records[i])
      BY <2>3 DEF Evidence
    <3>2. (\A i \in DOMAIN records' : Clean(rows'[i], records'[i]))
              <=> (\A i \in DOMAIN records : Clean(rows[i], records[i]))
                  /\ Clean(row, record)
      BY <1>1, <1>2, <2>1, <2>3
    <3>3. flaws' = {}
              <=> \A i \in DOMAIN records' : Clean(rows'[i], records'[i])
      BY <1>4, <2>2, <3>1, <3>2
    <3>4. Len(rows') = Len(records')
      BY <1>2, <2>1, <2>3
    <3> QED BY <2>1, <3>3, <3>4, <1>1, <1>2 DEF Evidence, Clean, HistoryFits,
                                               HistoryAccepted
  <2>4. CASE Len(rows) < Len(records)
    <3>1. flaws # {}
      BY <1>1, <2>4 DEF Evidence
    <3>2. Len(rows') < Len(records') /\ flaws' # {}
      BY <1>1, <1>2, <1>4, <2>1, <2>4, <3>1
    <3> QED BY <1>1, <1>2, <2>1, <3>2 DEF Evidence
  <2> QED BY <1>1, <2>3, <2>4
<1> QED BY <1>5, <1>6, RowsAdded

\* The next call starts afresh.
LEMMA NextCallBegins == ASSUME EndCall PROVE CallInv'
<1>1. <<>> \in Seq(Codes) /\ 0 \in 0..MaxRetries
  BY LimitAssumption
<1>2. CallTypeOK'
  BY <1>1 DEF EndCall, CallTypeOK
<1>3. OnFile' /\ Told'
  BY DEF EndCall, OnFile, Told, Repeated
<1> QED BY <1>2, <1>3 DEF CallInv

-----------------------------------------------------------------------------
(* The loop over the events *)
LEMMA JobBegins == JobInit => JobInv
<1> SUFFICES ASSUME JobInit PROVE JobInv
  OBVIOUS
<1>1. CallInv
  BY CallBegins DEF JobInit
<1>2. JobTypeOK
  <2>1. <<>> \in Seq(RecordSet) /\ <<>> \in Seq(RowSet) /\ Len(<<>>) = 0
    OBVIOUS
  <2>2. objects = [o \in Objects |-> objects[o]]
    BY EpisodeFacts DEF JobInit
  <2> QED BY <2>1, <2>2, EpisodeFacts DEF JobInit, JobTypeOK
<1>3. Graded /\ Evidence /\ VerifiedExactly
  BY DEF JobInit, Graded, Evidence, VerifiedExactly
<1>4. Reached
  BY DEF JobInit, Reached, Leaves
<1>5. ToCome
  BY DEF JobInit, ToCome, Script
<1>6. Stored([i \in {0} |-> Episode.initial])
  BY DEF JobInit, Stored
<1> QED BY <1>1, <1>2, <1>3, <1>4, <1>5, <1>6 DEF JobInv

\* An event played: its record tells how the states went on.
LEMMA EventPlayed ==
    ASSUME JobInv, Asking, pc \in {"returned", "raised"}, EndCall,
           NEW record \in RecordSet, records' = Append(records, record),
           record.response # {} <=> pc = "returned",
           \/ \E r \in Responses : record = Judged(Events[Here], r, objects)
           \/ record = Unanswered(Events[Here], "provider"),
           objects' = IF record.mutation_applied
                      THEN Moved(Events[Here], objects) ELSE objects,
           ok' = (ok /\ Good(record)),
           doneBy' = IF record.mutation_applied
                     THEN [doneBy EXCEPT ![Events[Here]] = {Events[Here].actor}]
                     ELSE doneBy
    PROVE  JobInv'
<1> DEFINE n == Len(records)
<1> USE DEF Here
<1>1. /\ records \in Seq(RecordSet) /\ n \in Nat /\ DOMAIN records = 1..n
      /\ n < Len(Events) /\ Len(Events) \in Nat /\ n + 1 \in DOMAIN Events
  BY EpisodeFacts DEF JobInv, JobTypeOK, Asking
<1>2. /\ Len(records') = n + 1 /\ DOMAIN records' = 1..(n + 1)
      /\ \A i \in 1..n : records'[i] = records[i]
      /\ records'[n + 1] = record /\ records' \in Seq(RecordSet)
  BY <1>1
<1> HIDE DEF n
<1>3. Len(records) = n
  BY DEF n
<1>4. CallInv'
  BY NextCallBegins
<1>5. Evidence' /\ rows' \in Seq(RowSet)
  BY EvidenceKeeps DEF JobInv
<1>6. JobTypeOK'
  <2>1. verdict' = verdict
    BY DEF EndCall
  <2>2. ok' \in BOOLEAN
    BY DEF JobInv, JobTypeOK, Good, RecordSet
  <2>3. objects' = [o \in Objects |-> objects'[o]]
    BY DEF JobInv, JobTypeOK, Moved
  <2>4. doneBy' = [e \in Script |-> doneBy'[e]]
    BY DEF JobInv, JobTypeOK
  <2>5. Len(records') <= Len(Events)
    BY <1>1, <1>2
  <2> QED BY <1>2, <1>5, <2>1, <2>2, <2>3, <2>4, <2>5 DEF JobInv, JobTypeOK
<1>7. Graded'
  <2>1. ok <=> \A i \in 1..n : Good(records[i])
    BY <1>1 DEF JobInv, Graded
  <2>2. ok' <=> \A i \in 1..(n + 1) : Good(records'[i])
    <3>1. \A i \in 1..(n + 1) : i \in 1..n \/ i = n + 1
      BY <1>1
    <3>2. \A i \in 1..n : i \in 1..(n + 1)
      BY <1>1
    <3>3. n + 1 \in 1..(n + 1)
      BY <1>1
    <3>4. (\A i \in 1..(n + 1) : Good(records'[i]))
              <=> (\A i \in 1..n : Good(records[i])) /\ Good(record)
      BY <1>2, <3>1, <3>2, <3>3, Zenon
    <3>5. ok' <=> ok /\ Good(record)
      OBVIOUS
    <3> QED BY <2>1, <3>4, <3>5, Zenon
  <2> QED BY <1>2, <2>2 DEF Graded
<1>8. Reached'
  <2> SUFFICES ASSUME ok', NEW o \in Objects
               PROVE  Leaves(Episode, n + 1, o, objects'[o])
    BY <1>2 DEF Reached
  <2>1. Leaves(Episode, n, o, objects[o]) /\ record.mutation_applied
    BY <1>3 DEF JobInv, Reached, Good, JobTypeOK
  <2>2. objects'[o] = IF Moves(Events[n + 1], o)
                      THEN Events[n + 1].mutations[o].to ELSE objects[o]
    BY <1>3, <2>1 DEF Moved
  <2> QED BY <1>1, <2>1, <2>2, LeavesOn
<1>9. ToCome'
  <2> SUFFICES ASSUME NEW i \in DOMAIN Events, n + 2 <= i
               PROVE  doneBy'[Events[i]] = {}
    BY <1>1, <1>2, EpisodeFacts DEF ToCome
  <2>1. doneBy[Events[i]] = {} /\ Events[i] # Events[n + 1]
    BY <1>1, <1>3, EpisodeFacts DEF JobInv, ToCome
  <2> QED BY <1>3, <2>1 DEF JobInv, JobTypeOK
<1>10. VerifiedExactly'
  BY DEF EndCall, Asking, VerifiedExactly
<1>11. ASSUME NEW h, Stored(h)
       PROVE  \E g : Stored(g)'
  <2> DEFINE g == [i \in 0..(n + 1) |-> IF i = n + 1 THEN objects' ELSE h[i]]
  <2>1. g[0] = Episode.initial /\ g[n + 1] = objects' /\ g[n] = objects
    BY <1>1, <1>3, <1>11 DEF Stored
  <2>2. \A i \in 1..n : g[i] = h[i] /\ g[i - 1] = h[i - 1]
    BY <1>1
  <2> HIDE DEF g
  <2>3. ASSUME NEW i \in 1..(n + 1)
        PROVE  /\ \/ \E r \in Responses :
                        records'[i] = Judged(Events[i], r, g[i - 1])
                  \/ records'[i] = Unanswered(Events[i], "provider")
               /\ g[i] = IF records'[i].mutation_applied
                         THEN Moved(Events[i], g[i - 1]) ELSE g[i - 1]
    <3>1. CASE i = n + 1
      <4>1. g[i - 1] = objects /\ records'[i] = record /\ g[i] = objects'
        BY <1>1, <1>2, <2>1, <3>1
      <4> QED BY <1>3, <3>1, <4>1
    <3>2. CASE i \in 1..n
      BY <1>1, <1>2, <1>11, <2>2, <3>2 DEF Stored
    <3> QED BY <1>1, <3>1, <3>2
  <2>4. \A f : f = g => Stored(f)'
    BY <1>2, <2>1, <2>3 DEF Stored
  <2> QED BY <2>4
<1> QED BY <1>4, <1>5, <1>6, <1>7, <1>8, <1>9, <1>10, <1>11 DEF JobInv

-----------------------------------------------------------------------------
(* Induction over the events *)
Less == {ss \in Nat \X Nat : ss[1] < ss[2]}

LEMMA Induction ==
    ASSUME NEW N \in Nat, NEW T, 0 \in T,
           \A n \in 0..N : n \in T /\ n < N => n + 1 \in T
    PROVE  \A n \in 0..N : n \in T
<1> SUFFICES ASSUME NEW k \in 0..N, k \notin T PROVE FALSE
  OBVIOUS
<1> DEFINE F == {n \in 0..N : n \notin T}
<1>1. IsWellFoundedOn(Less, Nat)
  <2>1. OpToRel(<, Nat) = Less
    BY DEF OpToRel, Less
  <2> QED BY <2>1, NatLessThanWellFounded
<1>2. F \subseteq Nat /\ F # {}
  OBVIOUS
<1>3. PICK m \in F : \A n \in F : ~(<<n, m>> \in Less)
  BY <1>1, <1>2, WFMin
<1>4. m \in 0..N /\ m \notin T /\ m # 0
  BY <1>3
<1>5. m - 1 \in 0..N /\ m - 1 < N /\ (m - 1) + 1 = m
  BY <1>4
<1>6. m - 1 \notin F
  <2> SUFFICES ASSUME m - 1 \in F PROVE FALSE
    OBVIOUS
  <2> DEFINE p == m - 1
  <2>1. ~(<<p, m>> \in Less)
    BY <1>3
  <2>2. p \in Nat /\ m \in Nat /\ p < m
    BY <1>4, <1>5
  <2> HIDE DEF p
  <2> QED BY <2>1, <2>2 DEF Less
<1> QED BY <1>4, <1>5, <1>6

\* One run over the first n responses, and the next one from it.
Start == [states |-> Episode.initial, fine |-> TRUE, records |-> <<>>]

RunsTo(f, n) ==
    f = [m \in 0..n |-> IF m = 0 THEN Start ELSE ReplayStep(f[m - 1], m)]

LEMMA ReplayRuns ==
    /\ Replay[0] = Start
    /\ \A n \in 0..Len(Events) : n < Len(Events) =>
            Replay[n + 1] = ReplayStep(Replay[n], n + 1)
<1> DEFINE N == Len(Events)
           T == {n \in 0..N : \E f : RunsTo(f, n)}
<1>1. N \in Nat
  BY EpisodeFacts
<1>2. 0 \in T
  <2>1. RunsTo([m \in 0..0 |-> Start], 0)
    BY DEF RunsTo
  <2> QED BY <1>1, <2>1
<1>3. ASSUME NEW n \in 0..N, n \in T, n < N
      PROVE  n + 1 \in T
  <2>1. PICK f : RunsTo(f, n)
    BY <1>3
  <2> DEFINE g == [m \in 0..(n + 1) |->
                      IF m = n + 1 THEN ReplayStep(f[n], n + 1) ELSE f[m]]
  <2>2. g = [m \in 0..(n + 1) |->
                IF m = 0 THEN Start ELSE ReplayStep(g[m - 1], m)]
    <3> SUFFICES ASSUME NEW m \in 0..(n + 1)
                 PROVE  g[m] = IF m = 0 THEN Start ELSE ReplayStep(g[m - 1], m)
      OBVIOUS
    <3>1. CASE m = n + 1
      BY <1>1, <3>1
    <3>2. CASE m # n + 1
      <4>1. m \in 0..n /\ (m # 0 => m - 1 \in 0..n)
        BY <1>1, <3>2
      <4>2. g[m] = f[m] /\ (m # 0 => g[m - 1] = f[m - 1])
        BY <1>1, <4>1
      <4>3. f[m] = IF m = 0 THEN Start ELSE ReplayStep(f[m - 1], m)
        BY <2>1, <4>1 DEF RunsTo
      <4> QED BY <4>2, <4>3
    <3> QED BY <3>1, <3>2
  <2> HIDE DEF g
  <2>3. RunsTo(g, n + 1)
    BY <2>2 DEF RunsTo
  <2> QED BY <1>1, <1>3, <2>3
<1>4. \E f : RunsTo(f, N)
  <2> HIDE DEF T
  <2>1. \A n \in 0..N : n \in T
    BY <1>1, <1>2, <1>3, Induction
  <2> QED BY <1>1, <2>1 DEF T
<1>5. Replay = [n \in 0..N |->
                    IF n = 0 THEN Start ELSE ReplayStep(Replay[n - 1], n)]
  BY <1>4 DEF Replay, RunsTo, Start
<1>6. Replay[0] = Start
  BY <1>1, <1>5
<1>7. ASSUME NEW n \in 0..N, n < N
      PROVE  Replay[n + 1] = ReplayStep(Replay[n], n + 1)
  <2>1. n + 1 \in 0..N /\ n + 1 # 0 /\ (n + 1) - 1 = n
    BY <1>1, <1>7
  <2> QED BY <1>5, <2>1
<1> QED BY <1>6, <1>7

-----------------------------------------------------------------------------
(* The verification *)

\* A record is its own replay when its row is taken for it.
LEMMA ReplaysItself ==
    ASSUME JobInv, NEW h, Stored(h), NEW i \in DOMAIN records, i \in DOMAIN rows,
           Clean(rows[i], records[i])
    PROVE  Replayed(records[i], rows[i], Events[i], h[i - 1]) = records[i]
<1>1. rows[i].status \in {"PASS", "FAIL"}
  <2>1. rows \in Seq(RowSet)
    BY DEF JobInv, JobTypeOK
  <2>2. rows[i] \in RowSet
    BY <2>1
  <2> QED BY <2>2 DEF RowSet
<1>2. CASE \E r \in Responses : records[i] = Judged(Events[i], r, h[i - 1])
  <2>1. PICK r \in Responses : records[i] = Judged(Events[i], r, h[i - 1])
    BY <1>2
  <2>2. records[i].response = {r} /\ (CHOOSE x \in {r} : TRUE) = r
    BY <2>1 DEF Judged
  <2> QED BY <2>1, <2>2 DEF Replayed
<1>3. CASE records[i] = Unanswered(Events[i], "provider")
  <2>1. records[i].response = {} /\ records[i].error = {"provider"}
    BY <1>3 DEF Unanswered
  <2>2. rows[i].status = "FAIL" /\ rows[i].body = {}
    BY <1>1, <2>1 DEF Clean, HistoryFits
  <2>3. (CHOOSE x \in {"provider"} : TRUE) = "provider"
    OBVIOUS
  <2> QED BY <1>3, <2>1, <2>2, <2>3 DEF Replayed
<1> QED BY <1>2, <1>3 DEF Stored

\* Replayed, what was kept gives the kept records, and arrives where the run
\* arrived, when each row is taken for its record.
LEMMA ReplayAgrees ==
    ASSUME JobInv, Len(records) = Len(Events), Len(rows) = Len(records),
           \A i \in DOMAIN records : Clean(rows[i], records[i])
    PROVE  LET run == Replay[Len(Events)]
           IN  run.records = records /\ run.states = objects /\ run.fine = ok
<1> DEFINE N == Len(Events)
<1>1. /\ N \in Nat /\ DOMAIN records = 1..N /\ records \in Seq(RecordSet)
      /\ DOMAIN rows = 1..N
  BY EpisodeFacts DEF JobInv, JobTypeOK
<1>2. PICK h : Stored(h)
  BY DEF JobInv
<1> DEFINE Arrived(n, run) ==
              /\ run.states = h[n] /\ run.records = SubSeq(records, 1, n)
              /\ run.fine \in BOOLEAN
              /\ run.fine <=> \A i \in 1..n : Good(records[i])
           T == {n \in 0..N : Arrived(n, Replay[n])}
<1>3. 0 \in T
  <2>1. Replay[0] = Start /\ h[0] = Episode.initial /\ SubSeq(records, 1, 0) = <<>>
    BY <1>1, <1>2, ReplayRuns DEF Stored
  <2>2. Arrived(0, Start)
    BY <2>1 DEF Start
  <2> QED BY <1>1, <2>1, <2>2
<1>4. ASSUME NEW n \in 0..N, n \in T, n < N
      PROVE  n + 1 \in T
  <2>1. n + 1 \in DOMAIN records /\ n + 1 \in DOMAIN rows /\ (n + 1) - 1 = n
        /\ n + 1 \in 0..N
    BY <1>1, <1>4
  <2>2. Arrived(n, Replay[n])
    BY <1>4
  <2>3. Replayed(records[n + 1], rows[n + 1], Events[n + 1], h[n])
            = records[n + 1]
    BY <1>2, <2>1, ReplaysItself
  <2>4. Replay[n + 1] = ReplayStep(Replay[n], n + 1)
    BY <1>1, <1>4, ReplayRuns
  <2>5. /\ Replay[n + 1].states = h[n + 1]
        /\ Replay[n + 1].fine = (Replay[n].fine /\ Good(records[n + 1]))
        /\ Replay[n + 1].records = Append(SubSeq(records, 1, n), records[n + 1])
    <3>1. h[n + 1] = IF records[n + 1].mutation_applied
                     THEN Moved(Events[n + 1], h[n]) ELSE h[n]
      BY <1>2, <2>1 DEF Stored
    <3> QED BY <2>2, <2>3, <2>4, <3>1 DEF ReplayStep
  <2>6. Append(SubSeq(records, 1, n), records[n + 1]) = SubSeq(records, 1, n + 1)
    BY <1>1, <1>4
  <2>7. Replay[n + 1].fine \in BOOLEAN
    BY <2>2, <2>5 DEF Good
  <2>8. Replay[n + 1].fine <=> \A i \in 1..(n + 1) : Good(records[i])
    <3>1. \A i \in 1..(n + 1) : i \in 1..n \/ i = n + 1
      BY <1>1
    <3>2. \A i \in 1..n : i \in 1..(n + 1)
      BY <1>1
    <3>3. n + 1 \in 1..(n + 1)
      BY <1>1
    <3>4. Replay[n + 1].fine <=> Replay[n].fine /\ Good(records[n + 1])
      BY <2>5
    <3>5. Replay[n].fine <=> \A i \in 1..n : Good(records[i])
      BY <2>2
    <3> QED BY <3>1, <3>2, <3>3, <3>4, <3>5, Zenon
  <2>9. Arrived(n + 1, Replay[n + 1])
    BY <2>5, <2>6, <2>7, <2>8
  <2> HIDE DEF Arrived
  <2> QED BY <2>1, <2>9
<1>5. \A n \in 0..N : n \in T
  <2> HIDE DEF T
  <2> QED BY <1>1, <1>3, <1>4, Induction
<1>6. Arrived(N, Replay[N])
  BY <1>1, <1>5
<1>7. SubSeq(records, 1, N) = records /\ Len(records) = N
  BY <1>1
<1>8. h[N] = objects
  BY <1>2, <1>7 DEF Stored
<1>9. Replay[N].fine = ok
  <2>1. ok <=> \A i \in 1..N : Good(records[i])
    BY <1>1 DEF JobInv, Graded
  <2>2. Replay[N].fine <=> ok
    BY <1>6, <2>1, Zenon
  <2> QED BY <1>6, <2>2 DEF JobInv, JobTypeOK
<1> QED BY <1>6, <1>7, <1>8, <1>9

\* A failed row with a body is replayed with another error than the one on
\* record.
LEMMA ReplayDiffers ==
    ASSUME JobInv, Len(records) = Len(Events), Len(rows) = Len(records),
           NEW i \in DOMAIN records, HistoryFits(rows[i], records[i]),
           ~Clean(rows[i], records[i])
    PROVE  Replay[Len(Events)].records # records
<1> DEFINE N == Len(Events)
<1>1. N \in Nat /\ DOMAIN records = 1..N /\ i \in 1..N
  BY EpisodeFacts DEF JobInv, JobTypeOK
<1> HIDE DEF N
<1> DEFINE Off(n, kept) ==
              /\ \E S : kept \in Seq(S)
              /\ Len(kept) = n
              /\ i <= n => kept[i].error = {"evidence differs"}
           T == {n \in 0..N : Off(n, Replay[n].records)}
<1>2. 0 \in T
  <2>1. <<>> \in Seq({}) /\ Len(<<>>) = 0 /\ ~(i <= 0) /\ 0 \in 0..N
    BY <1>1
  <2>2. Replay[0].records = <<>>
    BY ReplayRuns DEF Start
  <2>3. Off(0, Replay[0].records)
    BY <2>1, <2>2
  <2> HIDE DEF Off
  <2> QED BY <2>1, <2>3
<1>3. ASSUME NEW n \in 0..N, n \in T, n < N
      PROVE  n + 1 \in T
  <2> DEFINE record == Replayed(records[n + 1], rows[n + 1], Events[n + 1],
                                Replay[n].states)
             kept == Replay[n].records
  <2>0. n \in Nat /\ n + 1 \in 0..N /\ i \in Nat /\ n \in 0..Len(Events)
        /\ n < Len(Events)
    <3>1. n < N
      BY <1>3
    <3>2. n \in Nat /\ n + 1 \in 0..N /\ i \in Nat
      BY <1>1, <3>1
    <3> QED BY <3>1, <3>2 DEF N
  <2>1. Replay[n + 1].records = Append(kept, record)
    <3>1. Replay[n + 1] = ReplayStep(Replay[n], n + 1)
      BY <2>0, ReplayRuns
    <3> QED BY <3>1 DEF ReplayStep
  <2>2. PICK S : kept \in Seq(S)
    BY <1>3
  <2>3. Len(kept) = n /\ (i <= n => kept[i].error = {"evidence differs"})
    BY <1>3
  <2>4. i = n + 1 => record.error = {"evidence differs"}
    <3>1. records[i].response = {} /\ ~(rows[i].status = "FAIL" /\ rows[i].body = {})
      BY DEF Clean, HistoryFits
    <3> QED BY <3>1 DEF Replayed, Unanswered
  <2> HIDE DEF record, kept
  <2>5. /\ Append(kept, record) \in Seq(S \union {record})
        /\ Len(Append(kept, record)) = n + 1
        /\ \A m \in 1..n : Append(kept, record)[m] = kept[m]
        /\ Append(kept, record)[n + 1] = record
    <3>1. kept \in Seq(S \union {record})
      BY <2>2
    <3> HIDE DEF kept, record
    <3>2. \A s \in Seq(S \union {record}) : \A e \in S \union {record} :
              /\ Append(s, e) \in Seq(S \union {record})
              /\ Len(Append(s, e)) = Len(s) + 1
              /\ \A m \in 1..Len(s) : Append(s, e)[m] = s[m]
              /\ Append(s, e)[Len(s) + 1] = e
      OBVIOUS
    <3>3. record \in S \union {record}
      OBVIOUS
    <3> QED BY <2>3, <3>1, <3>2, <3>3
  <2>6. i <= n + 1 => Append(kept, record)[i].error = {"evidence differs"}
    <3>1. i <= n + 1 => i \in 1..n \/ i = n + 1
      BY <1>1, <2>0
    <3>2. i \in 1..n => i <= n
      BY <2>0
    <3> QED BY <2>3, <2>4, <2>5, <3>1, <3>2
  <2>7. Off(n + 1, Append(kept, record))
    BY <2>5, <2>6
  <2> HIDE DEF Off
  <2> QED BY <2>0, <2>1, <2>7
<1>4. \A n \in 0..N : n \in T
  <2> HIDE DEF T
  <2> QED BY <1>1, <1>2, <1>3, Induction
<1>5. Replay[N].records[i].error = {"evidence differs"}
  <2>1. N \in 0..N /\ i <= N
    BY <1>1
  <2>2. Off(N, Replay[N].records)
    BY <1>4, <2>1
  <2> QED BY <2>1, <2>2
<1>6. records[i].error # {"evidence differs"}
  <2>1. records \in Seq(RecordSet)
    BY DEF JobInv, JobTypeOK
  <2>2. records[i] \in RecordSet
    BY <2>1
  <2>3. records[i].error \in {{}, {"provider"}}
    BY <2>2 DEF RecordSet
  <2> QED BY <2>3
<1> QED BY <1>5, <1>6 DEF N

\* The verification finds out whether every call left usable evidence.
LEMMA VerificationTells ==
    ASSUME JobInv, Here > Len(Events)
    PROVE  Verifies <=> flaws = {}
<1>1. Len(records) = Len(Events) /\ Len(records) \in Nat
  BY EpisodeFacts DEF JobInv, JobTypeOK, Here
<1>2. CASE flaws = {}
  <2>1. Len(rows) = Len(records)
        /\ \A i \in DOMAIN records : Clean(rows[i], records[i])
    BY <1>2 DEF JobInv, Evidence
  <2>2. LET run == Replay[Len(Events)]
        IN  run.records = records /\ run.states = objects /\ run.fine = ok
    BY <1>1, <2>1, ReplayAgrees
  <2> QED BY <1>2, <2>1, <2>2 DEF Verifies, Clean
<1>3. ASSUME flaws # {}, Verifies
      PROVE  FALSE
  <2>1. Len(rows) = Len(records) /\ Replay[Len(Events)].records = records
        /\ \A i \in DOMAIN records : HistoryFits(rows[i], records[i])
    BY <1>3 DEF Verifies
  <2>2. PICK i \in DOMAIN records : ~Clean(rows[i], records[i])
    BY <1>3, <2>1 DEF JobInv, Evidence
  <2> QED BY <1>1, <2>1, <2>2, ReplayDiffers
<1> QED BY <1>2, <1>3

-----------------------------------------------------------------------------
(* The steps of the job *)
\* What the job has is unchanged, but for what it ends with.
LEMMA JobStands ==
    ASSUME JobInv, CallInv', UNCHANGED <<objects, ok, records, rows, doneBy, flaws>>,
           \/ verdict' = verdict
           \/ /\ verdict' \in {"lost", "verified", "refused"}
              /\ verdict' = "verified" => flaws = {}
              /\ verdict' = "refused" => flaws # {}
    PROVE  JobInv'
<1>1. JobTypeOK' /\ VerifiedExactly'
  BY DEF JobInv, JobTypeOK, VerifiedExactly
<1>2. Graded' /\ Reached' /\ ToCome'
  BY DEF JobInv, Graded, Reached, ToCome, Here
<1>3. Evidence'
  BY DEF JobInv, Evidence, Clean, HistoryFits, HistoryAccepted
<1>4. PICK h : Stored(h)
  BY DEF JobInv
<1>5. Stored(h)'
  BY <1>4 DEF Stored
<1> QED BY <1>1, <1>2, <1>3, <1>5 DEF JobInv

LEMMA CallStands == ASSUME CallInv, UNCHANGED call PROVE CallInv'
<1>1. CallTypeOK' /\ Told'
  BY DEF call, CallInv, CallTypeOK, Told, Repeated
<1>2. OnFile'
  BY DEF call, CallInv, OnFile, Row
<1> QED BY <1>1, <1>2 DEF CallInv

LEMMA JudgeKeeps == ASSUME JobInv, Judge PROVE JobInv'
<1>1. PICK r \in Responses :
        LET e == Events[Here]
            record == Judged(e, r, objects)
        IN  /\ records' = Append(records, record)
            /\ ok' = (ok /\ Good(record))
            /\ IF record.mutation_applied
               THEN /\ objects' = Moved(e, objects)
                    /\ doneBy' = [doneBy EXCEPT ![e] = {e.actor}]
               ELSE UNCHANGED <<objects, doneBy>>
  BY DEF Judge
<1> DEFINE record == Judged(Events[Here], r, objects)
<1>2. Here \in DOMAIN Events /\ Asking /\ EndCall /\ pc = "returned"
  BY EpisodeFacts DEF Judge, Asking, Here, JobInv, JobTypeOK
<1>3. record \in RecordSet /\ record.response # {}
  BY <1>2 DEF Judged, RecordSet, Cited, Applies, Authorized, Possible
<1> HIDE DEF record
<1>4. /\ records' = Append(records, record) /\ ok' = (ok /\ Good(record))
      /\ objects' = IF record.mutation_applied
                    THEN Moved(Events[Here], objects) ELSE objects
      /\ doneBy' = IF record.mutation_applied
                   THEN [doneBy EXCEPT ![Events[Here]] = {Events[Here].actor}]
                   ELSE doneBy
  BY <1>1 DEF record
<1>5. \E q \in Responses : record = Judged(Events[Here], q, objects)
  BY DEF record
<1> QED BY <1>2, <1>3, <1>4, <1>5, EventPlayed

LEMMA SkipKeeps == ASSUME JobInv, Skip PROVE JobInv'
<1> DEFINE record == Unanswered(Events[Here], "provider")
<1>1. Here \in DOMAIN Events /\ Asking /\ EndCall /\ pc = "raised"
  BY EpisodeFacts DEF Skip, Asking, Here, JobInv, JobTypeOK
<1>2. record \in RecordSet /\ record.response = {} /\ ~record.mutation_applied
      /\ ~Good(record)
  BY <1>1 DEF Unanswered, RecordSet, Good
<1> HIDE DEF record
<1>3. /\ records' = Append(records, record) /\ ok' = (ok /\ Good(record))
      /\ objects' = IF record.mutation_applied
                    THEN Moved(Events[Here], objects) ELSE objects
      /\ doneBy' = IF record.mutation_applied
                   THEN [doneBy EXCEPT ![Events[Here]] = {Events[Here].actor}]
                   ELSE doneBy
  BY <1>2 DEF Skip, record
<1>4. record = Unanswered(Events[Here], "provider")
  BY DEF record
<1> QED BY <1>1, <1>2, <1>3, <1>4, EventPlayed

LEMMA JobKeeps ==
    ASSUME JobInv, [JobNext]_<<call, job>>
    PROVE  JobInv'
<1>1. CASE Ask
  <2>1. CallInv' /\ UNCHANGED job
    BY <1>1, CallKeeps DEF Ask, JobInv
  <2> QED BY <2>1, JobStands DEF job
<1>2. CASE Judge
  BY <1>2, JudgeKeeps
<1>3. CASE Skip
  BY <1>3, SkipKeeps
<1>4. CASE Lose
  <2>1. CallInv' /\ verdict' = "lost"
        /\ UNCHANGED <<objects, ok, records, rows, doneBy, flaws>>
    BY <1>4, CallStands DEF JobInv, Lose
  <2> QED BY <2>1, JobStands
<1>5. CASE Verify
  <2>1. Verifies <=> flaws = {}
    BY <1>5, VerificationTells DEF Verify
  <2>2. CallInv' /\ UNCHANGED <<objects, ok, records, rows, doneBy, flaws>>
    BY <1>5, CallStands DEF JobInv, Verify
  <2>3. /\ verdict' \in {"verified", "refused"}
        /\ verdict' = "verified" => flaws = {}
        /\ verdict' = "refused" => flaws # {}
    BY <1>5, <2>1 DEF Verify
  <2> QED BY <2>2, <2>3, JobStands
<1>6. CASE UNCHANGED <<call, job>>
  <2>1. CallInv'
    BY <1>6, CallStands DEF JobInv
  <2> QED BY <1>6, <2>1, JobStands DEF job
<1> QED BY <1>1, <1>2, <1>3, <1>4, <1>5, <1>6 DEF JobNext

LEMMA JobInvHolds == JobSpec => []JobInv
BY JobBegins, JobKeeps, PTL DEF JobSpec

-----------------------------------------------------------------------------
\* For any statuses and any number of retries: the check of a run refuses a
\* record that was kept as it happened exactly when a read timed out
\* (citation_run.py, _validate_record).
THEOREM RefusedExactlyHolds == JobSpec => []RefusedExactly
<1>1. JobInv => RefusedExactly
  BY RefusalTells DEF JobInv
<1> QED BY <1>1, JobInvHolds, PTL

\* Whatever the provider does, nothing is sent again after a body or a final
\* status (real_provider.py, CompatibleHTTPProvider.act).
THEOREM AnswersFinal == JobSpec => AnswersAreFinal
<1>1. JobInv /\ [JobNext]_<<call, job>> =>
          [(body # {} \/ \E i \in DOMAIN statuses : statuses[i] \in Terminal)
               => sent' <= sent]_vars
  <2> SUFFICES ASSUME JobInv, JobNext, ~UNCHANGED vars,
                      body # {} \/ \E i \in DOMAIN statuses : statuses[i] \in Terminal
               PROVE  sent' <= sent
    BY DEF call, vars
  <2>1. sent \in Nat /\ pc # "send"
    BY DEF JobInv, CallInv, CallTypeOK, OnFile, Told
  <2>2. CASE Ask
    BY <2>1, <2>2
    DEF Ask, Next, Send, HTTPError, TransportError, Opened, Escape, Oversized,
        Read, ParseValid, ParseMalformed, ParseUndecodable
  <2>3. CASE Judge \/ Skip
    BY <2>1, <2>3 DEF Judge, Skip, EndCall
  <2>4. CASE Lose \/ Verify
    BY <2>1, <2>4 DEF Lose, Verify, call
  <2> QED BY <2>2, <2>3, <2>4 DEF JobNext
<1> QED BY <1>1, JobInvHolds, PTL DEF JobSpec, AnswersAreFinal

\* For any accepted episode and any answers: an episode counts as completed
\* exactly when each of its events was answered, matched, cited and applied
\* (runner.py, ArmRunner._run_arm).
THEOREM CompletionIsEarned == JobSpec => []CompletedIsEarned
<1>1. ASSUME JobInv PROVE CompletedIsEarned
  <2> SUFFICES ASSUME Here > Len(Events),
                      \A i \in DOMAIN records : Good(records[i])
               PROVE  Completed(ok, objects)
    BY <1>1 DEF CompletedIsEarned, Completed, JobInv, Graded
  <2>1. Len(records) = Len(Events) /\ Len(Events) \in Nat
    BY <1>1, EpisodeFacts DEF JobInv, JobTypeOK, Here
  <2>2. ok
    BY <1>1 DEF JobInv, Graded
  <2>3. ASSUME NEW o \in Objects PROVE objects[o] = Episode.final[o]
    <3>1. Leaves(Episode, Len(Events), o, objects[o])
      BY <1>1, <2>1, <2>2 DEF JobInv, Reached
    <3>2. Leaves(Episode, Len(Events), o, Episode.final[o])
      BY EpisodeFacts DEF FinalReached, Objects, Events
    <3> QED BY <2>1, <3>1, <3>2, LeavesOne
  <2>4. objects = Episode.final
    BY <1>1, <2>3, EpisodeFacts DEF JobInv, JobTypeOK
  <2> QED BY <2>2, <2>4 DEF Completed
<1> QED BY <1>1, JobInvHolds, PTL

\* For any length of episode: the replay of the kept responses refuses a job
\* exactly when a read timed out or an answer could not be used
\* (matched_run.py, verify_job_receipt).
THEOREM VerificationIsExact == JobSpec => []VerifiedExactly
<1>1. JobInv => VerifiedExactly
  BY DEF JobInv
<1> QED BY <1>1, JobInvHolds, PTL

\* A job applies each event at most once, in whole, from the states it names
\* and by an actor with the right to it (runner.py, _apply_mutations).
THEOREM JobImplementsContract == JobSpec => ImplementsContract
<1>1. JobInit => Contract!CInit
  BY DEF JobInit, Contract!CInit, Contract!Transitions
<1>2. JobInv /\ [JobNext]_<<call, job>> => [Contract!CNext]_(Contract!cvars)
  <2> SUFFICES ASSUME JobInv, [JobNext]_<<call, job>>
               PROVE  Contract!CNext \/ UNCHANGED Contract!cvars
    OBVIOUS
  <2>1. CASE UNCHANGED <<objects, doneBy>>
    BY <2>1 DEF Contract!cvars
  <2>2. CASE Judge /\ ~UNCHANGED <<objects, doneBy>>
    <3> DEFINE e == Events[Here]
    <3>1. PICK r \in Responses :
            /\ Applies(e, r, objects) /\ objects' = Moved(e, objects)
            /\ doneBy' = [doneBy EXCEPT ![e] = {e.actor}]
      BY <2>2 DEF Judge, Judged
    <3>2. Here \in DOMAIN Events /\ e \in Script
      BY <2>2, EpisodeFacts DEF Judge, Asking, Here, JobInv, JobTypeOK, Script
    <3> HIDE DEF e
    <3>3. doneBy[e] = {}
      <4>1. Here <= Here
        BY <3>2, EpisodeFacts
      <4> QED BY <3>2, <4>1 DEF e, JobInv, ToCome
    <3>4. e.actor \in DOMAIN Episode.role
          /\ Episode.role[e.actor] \in Episode.authorization[e.action]
      BY <3>2, EpisodeFacts DEF ActorPermitted, e, Events
    <3>5. Contract!Holds(e)
      BY <3>1 DEF Applies, Possible, Contract!Holds
    <3>6. objects' = Contract!Moved(e)
      BY <3>1 DEF Moved, Moves, Contract!Moved, JobInv, JobTypeOK
    <3>7. Contract!Apply(e, e.actor)
      BY <3>1, <3>2, <3>3, <3>4, <3>5, <3>6 DEF Contract!Apply
    <3> QED BY <3>2, <3>4, <3>7 DEF Contract!CNext, Contract!Transitions
  <2> QED BY <2>1, <2>2 DEF JobNext, Ask, Skip, Lose, Verify, job
<1> QED BY <1>1, <1>2, JobInvHolds, PTL
        DEF JobSpec, ImplementsContract, Contract!CSpec
=============================================================================
