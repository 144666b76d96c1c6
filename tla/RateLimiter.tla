----------------------------- MODULE RateLimiter -----------------------------
(***************************************************************************)
(* cleanroom_eval/citation_run.py, RateLimiter.wait: each worker reserves  *)
(* the next slot under the lock and sleeps until then.  Time is counted in *)
(* ticks; a worker may find itself awake any time after its slot, as a     *)
(* sleeping thread may.                                                    *)
(***************************************************************************)
EXTENDS Naturals, Sequences

CONSTANTS
    Workers,   \* number of pool threads
    Interval,  \* _interval, in ticks
    MaxCalls,  \* bound on calls
    MaxTime    \* bound on time

ASSUME IntervalAssumption ==
    Workers \in Nat \ {0} /\ Interval \in Nat \ {0}
    /\ MaxCalls \in Nat /\ MaxTime \in Nat

Threads == 1..Workers

VARIABLES
    now,       \* time.monotonic()
    next,      \* _next
    slot,      \* {} or {the slot a thread is waiting for}
    departed   \* history: when wait() returned, in order

vars == <<now, next, slot, departed>>

Later(a, b) == IF a >= b THEN a ELSE b

Init ==
    /\ now \in 0..Interval /\ next = 0
    /\ slot = [w \in Threads |-> {}] /\ departed = <<>>

\* Under the lock: slot = max(now, _next), _next = slot + _interval.
ReserveFromNow(w) ==  \* a slip: the interval is counted from now
    /\ slot[w] = {} /\ Len(departed) < MaxCalls
    /\ slot' = [slot EXCEPT ![w] = {Later(now, next)}]
    /\ next' = now + Interval
    /\ UNCHANGED <<now, departed>>

Reserve(w) ==
    /\ slot[w] = {} /\ Len(departed) < MaxCalls
    /\ slot' = [slot EXCEPT ![w] = {Later(now, next)}]
    /\ next' = Later(now, next) + Interval
    /\ UNCHANGED <<now, departed>>

\* time.sleep(delay) returns no earlier than the slot.
Depart(w) ==
    /\ \E s \in slot[w] : s <= now
    /\ slot' = [slot EXCEPT ![w] = {}]
    /\ departed' = Append(departed, now)
    /\ UNCHANGED <<now, next>>

Tick ==
    /\ now < MaxTime /\ now' = now + 1
    /\ UNCHANGED <<next, slot, departed>>

Next == Tick \/ \E w \in Threads : Reserve(w) \/ Depart(w)

Spec == Init /\ [][Next]_vars

-----------------------------------------------------------------------------
\* Over any stretch of time no more calls leave than the interval allows, one
\* for the slot it starts with, and one for each thread that was late: even
\* then the provider sees no more than that at once.
RateHeld ==
    \A i \in DOMAIN departed : \A j \in i..Len(departed) :
        (j - i) + 1 <= Workers + 1 + (departed[j] - departed[i]) \div Interval
=============================================================================
