----------------------------- MODULE RateLimiter ------------------------------
(***************************************************************************)
(* RateLimiter: the guard of the quota of one service, shared by the       *)
(* threads of a process.  A call is admitted, refused, or put to sleep     *)
(* without the lock until there may be room, within a budget of time; the  *)
(* others go on meanwhile.  Time is counted in ticks.                      *)
(***************************************************************************)
EXTENDS Integers, Sequences, FiniteSets

CONSTANTS
    Procs,      \* threads that call the service
    Second,     \* ticks of the short window (1 / rate for less than 1 per second)
    Minute,     \* ticks of the long one
    PerSecond,  \* calls in a short window
    PerMinute,  \* calls in a long one
    PerDay,     \* calls on a day
    MaxWait,    \* max_wait_seconds
    MaxTime,    \* bound: ticks
    MaxDays     \* bound: midnights

VARIABLES
    now,        \* time.monotonic
    today,      \* date.today
    short,      \* _second_window: times of the calls admitted, oldest first
    long,       \* _minute_window
    day, count, \* _day and _daily_count
    caller,     \* the threads that wait
    admitted    \* every call that was ever admitted

vars == <<now, today, short, long, day, count, caller, admitted>>

\* Mutant: a call leaves its window a tick early.
Recent_Short(window, t, length) == SelectSeq(window, LAMBDA c : t - c < length - 1)
\* _trim_windows
Recent(window, t, length) == SelectSeq(window, LAMBDA c : t - c < length)

\* _required_wait_seconds: until the oldest call has left a window that is
\* full.  A rate below one per second is a window of one call.
Wait(s, l, t) ==
    LET full(window, limit, length) ==
            IF Len(window) >= limit THEN {length - (t - window[1])} ELSE {}
        waits == full(s, PerSecond, Second) \cup full(l, PerMinute, Minute)
    IN  IF waits = {} THEN 0 ELSE CHOOSE w \in waits : \A v \in waits : v <= w

Lesser(a, b) == IF a < b THEN a ELSE b

Idle == [at |-> "idle"]

Init ==
    /\ now = 0 /\ today = 0 /\ day = 0 /\ count = 0
    /\ short = <<>> /\ long = <<>> /\ admitted = <<>>
    /\ caller = [p \in Procs |-> Idle]

TypeOK ==
    /\ now \in 0..MaxTime /\ today \in 0..MaxDays /\ day \in 0..today
    /\ \A w \in {short, long} : \A i \in 1..Len(w) : w[i] \in 0..now
    /\ count \in 0..PerDay
    /\ \A p \in Procs :
        caller[p].at = "asleep" => caller[p].until <= caller[p].deadline

\* One turn of the loop of acquire, under the lock: the quota of the day is
\* used up, or there is room, or the caller waits or gives up.
Try(p, block, deadline) ==
    LET s == Recent(short, now, Second)
        l == Recent(long, now, Minute)
        used == IF today = day THEN count ELSE 0
        wait == Wait(s, l, now)
    IN  /\ day' = today
        /\ \/ /\ used >= PerDay
              /\ short' = s /\ long' = l /\ count' = used
              /\ caller' = [caller EXCEPT ![p] = Idle]
              /\ UNCHANGED admitted
           \/ /\ used < PerDay /\ wait <= 0
              /\ short' = Append(s, now) /\ long' = Append(l, now)
              /\ count' = used + 1
              /\ caller' = [caller EXCEPT ![p] = Idle]
              /\ admitted' = Append(admitted, [time |-> now, day |-> today])
           \/ /\ used < PerDay /\ wait > 0
              /\ short' = s /\ long' = l /\ count' = used
              /\ caller' = [caller EXCEPT ![p] =
                     IF ~block \/ deadline <= now THEN Idle
                     ELSE [at |-> "asleep", deadline |-> deadline,
                           until |-> now + Lesser(wait, deadline - now)]]
              /\ UNCHANGED admitted
        /\ UNCHANGED <<now, today>>

Acquire(p, block) == caller[p] = Idle /\ Try(p, block, now + MaxWait)

\* A sleeper wakes when its time has come, or later.
Retry(p) ==
    /\ caller[p].at = "asleep" /\ now >= caller[p].until
    /\ Try(p, TRUE, caller[p].deadline)

\* get_current_rate, for the dashboard and for a handler that was refused.
CurrentRate ==
    /\ short' = Recent(short, now, Second) /\ long' = Recent(long, now, Minute)
    /\ day' = today /\ count' = IF today = day THEN count ELSE 0
    /\ UNCHANGED <<now, today, caller, admitted>>

Tick ==
    /\ now < MaxTime /\ now' = now + 1
    /\ UNCHANGED <<today, short, long, day, count, caller, admitted>>

Midnight ==
    /\ today < MaxDays /\ today' = today + 1
    /\ UNCHANGED <<now, short, long, day, count, caller, admitted>>

Next ==
    \/ \E p \in Procs : Retry(p) \/ \E block \in BOOLEAN : Acquire(p, block)
    \/ CurrentRate \/ Tick \/ Midnight

-----------------------------------------------------------------------------
\* acquire: whatever the threads do, no interval as long as a window has more
\* calls than the window may have, and no day more than a day may have.
QuotaHeld ==
    LET calls == 1..Len(admitted)
        within(i, length) ==
            {j \in calls : admitted[j].time \in
                               admitted[i].time..(admitted[i].time + length - 1)}
    IN  \A i \in calls :
            /\ Cardinality(within(i, Second)) <= PerSecond
            /\ Cardinality(within(i, Minute)) <= PerMinute
            /\ Cardinality({j \in calls : admitted[j].day = admitted[i].day})
                   <= PerDay
===============================================================================
