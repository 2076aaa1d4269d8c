----------------------------- MODULE RateLimiter -----------------------------
(***************************************************************************)
(* ratelimit.py: the fixed-window limiter in front of POST /upload, with a *)
(* cap per client and minute and a cap per day over all clients.  Time is  *)
(* counted in ticks, TicksPerMinute to a minute, MinutesPerDay to a day.   *)
(* check reads the clock before it takes the lock, so that other callers   *)
(* may overtake a caller that has its reading.  The service has a single   *)
(* caller, the event loop.                                                 *)
(***************************************************************************)
EXTENDS Integers, FiniteSets

CONSTANTS
    Callers,         \* the threads that call check; one in the service
    Clients,         \* client ids
    PerMinute,       \* smartingest_rate_limit_per_minute, 0 for no cap
    PerDay,          \* smartingest_rate_limit_per_day, 0 for no cap
    Enabled,         \* smartingest_rate_limit_enabled
    MaxBuckets,      \* _MAX_CLIENT_BUCKETS
    TicksPerMinute,
    MinutesPerDay,
    LastTick,        \* bound on the clock
    NoClient         \* what a caller outside check has

ASSUME CapsAssumption == PerMinute \in Nat /\ PerDay \in Nat
ASSUME BucketsAssumption == MaxBuckets \in Nat
ASSUME ClockAssumption ==
    /\ TicksPerMinute \in Nat \ {0}
    /\ MinutesPerDay \in Nat \ {0}
    /\ LastTick \in Nat
ASSUME EnabledAssumption == Enabled \in BOOLEAN
ASSUME NoClientAssumption == NoClient \notin Clients

TicksPerDay == TicksPerMinute * MinutesPerDay

Minute(t) == t \div TicksPerMinute
Day(t) == t \div TicksPerDay

VARIABLES
    clock,           \* time.time()
    minute_buckets,  \* client -> [window, count], for the clients it has
    day_window,      \* the day that day_count counts, -1 before any call
    day_count,
    caller,          \* per caller: the client it serves, the clock it read
    last,            \* history: the last refusal
    admitted_day,    \* history: requests let through, per day of the clock
    admitted_minute  \* history: the same per client and minute

limiter == <<minute_buckets, day_window, day_count>>
history == <<last, admitted_day, admitted_minute>>
vars == <<clock, limiter, caller, history>>

Outside == [client |-> NoClient, now |-> 0]
NoRefusal == [by |-> "none", client |-> NoClient, now |-> 0, retry |-> 0]

Init ==
    /\ clock = 0
    /\ minute_buckets = [c \in {} |-> 0]
    /\ day_window = -1
    /\ day_count = 0
    /\ caller = [k \in Callers |-> Outside]
    /\ last = NoRefusal
    /\ admitted_day = [d \in 0..Day(LastTick) |-> 0]
    /\ admitted_minute =
          [c \in Clients |-> [m \in 0..Minute(LastTick) |-> 0]]

Tick ==
    /\ clock < LastTick
    /\ clock' = clock + 1
    /\ UNCHANGED <<limiter, caller, history>>

(* check: the clock is read, then the lock is asked for. *)
read_clock(k) ==
    /\ Enabled
    /\ caller[k] = Outside
    /\ \E c \in Clients :
          caller' = [caller EXCEPT ![k] = [client |-> c, now |-> clock]]
    /\ UNCHANGED <<clock, limiter, history>>

(* The daily count once the window has been moved to the day of now. *)
DayCount(now) == IF Day(now) # day_window THEN 0 ELSE day_count

(* The count of client c in the minute of now. *)
MinuteCount(c, now) ==
    IF c \in DOMAIN minute_buckets
       /\ minute_buckets[c].window = Minute(now)
    THEN minute_buckets[c].count ELSE 0

(* Mutants of Verdict: the caps let one more through. *)
VerdictDayLate(c, now) ==
    IF PerDay # 0 /\ DayCount(now) > PerDay THEN "day"
    ELSE IF PerMinute # 0 /\ MinuteCount(c, now) >= PerMinute THEN "minute"
    ELSE "admitted"

VerdictMinuteLate(c, now) ==
    IF PerDay # 0 /\ DayCount(now) >= PerDay THEN "day"
    ELSE IF PerMinute # 0 /\ MinuteCount(c, now) > PerMinute THEN "minute"
    ELSE "admitted"

(* The daily cap first, then the cap of the client. *)
Verdict(c, now) ==
    IF PerDay # 0 /\ DayCount(now) >= PerDay THEN "day"
    ELSE IF PerMinute # 0 /\ MinuteCount(c, now) >= PerMinute THEN "minute"
    ELSE "admitted"

(* Mutant of RetryAfter: a moment too early. *)
RetryAfterEarly(by, now) ==
    IF by = "day" THEN TicksPerDay - 1 - (now % TicksPerDay)
                  ELSE TicksPerMinute - 1 - (now % TicksPerMinute)

RetryAfter(by, now) ==
    IF by = "day" THEN TicksPerDay - (now % TicksPerDay)
                  ELSE TicksPerMinute - (now % TicksPerMinute)

(* Mutants of prune: every bucket goes; every bucket stays. *)
prune_all(buckets, minute) == [c \in {} |-> 0]
prune_none(buckets, minute) == buckets

(* _prune: only the buckets of the current minute stay. *)
prune(buckets, minute) ==
    [c \in {d \in DOMAIN buckets : buckets[d].window = minute} |-> buckets[c]]

(* One more request of c in minute m; the map is pruned when it overflows. *)
Recorded(c, m, count) ==
    LET buckets == [d \in DOMAIN minute_buckets \cup {c} |->
                       IF d = c THEN [window |-> m, count |-> count + 1]
                       ELSE minute_buckets[d]]
    IN IF Cardinality(DOMAIN buckets) > MaxBuckets
       THEN prune(buckets, m) ELSE buckets

(* Mutant of OpenDay: the window holds the time, not the day. *)
OpenDayRaw(now) == day_window' = now

(* The window moves to the day of the reading, whatever the verdict. *)
OpenDay(now) == day_window' = Day(now)

admit(k) ==
    LET c == caller[k].client
        now == caller[k].now
    IN /\ c # NoClient
       /\ Verdict(c, now) = "admitted"
       /\ OpenDay(now)
       /\ day_count' = DayCount(now) + 1
       /\ minute_buckets' = Recorded(c, Minute(now), MinuteCount(c, now))
       /\ admitted_day' = [admitted_day EXCEPT ![Day(now)] = @ + 1]
       /\ admitted_minute' =
             [admitted_minute EXCEPT ![c][Minute(now)] = @ + 1]
       /\ last' = NoRefusal
       /\ caller' = [caller EXCEPT ![k] = Outside]
       /\ UNCHANGED clock

(* Mutant of refuse: a refused request is counted all the same. *)
refuse_counts(k) ==
    LET c == caller[k].client
        now == caller[k].now
    IN /\ c # NoClient
       /\ Verdict(c, now) # "admitted"
       /\ OpenDay(now)
       /\ day_count' = DayCount(now) + 1
       /\ last' = [by |-> Verdict(c, now), client |-> c, now |-> now,
                   retry |-> RetryAfter(Verdict(c, now), now)]
       /\ caller' = [caller EXCEPT ![k] = Outside]
       /\ UNCHANGED <<clock, minute_buckets, admitted_day, admitted_minute>>

refuse(k) ==
    LET c == caller[k].client
        now == caller[k].now
    IN /\ c # NoClient
       /\ Verdict(c, now) # "admitted"
       /\ OpenDay(now)
       /\ day_count' = DayCount(now)
       /\ last' = [by |-> Verdict(c, now), client |-> c, now |-> now,
                   retry |-> RetryAfter(Verdict(c, now), now)]
       /\ caller' = [caller EXCEPT ![k] = Outside]
       /\ UNCHANGED <<clock, minute_buckets, admitted_day, admitted_minute>>

Next ==
    \/ Tick
    \/ \E k \in Callers : read_clock(k) \/ admit(k) \/ refuse(k)

Spec == Init /\ [][Next]_vars

-----------------------------------------------------------------------------
Days == 0..Day(LastTick)
Minutes == 0..Minute(LastTick)

(* Every variable keeps its type. *)
TypeOK ==
    /\ clock \in 0..LastTick
    /\ DOMAIN minute_buckets \subseteq Clients
    /\ \A c \in DOMAIN minute_buckets :
          minute_buckets[c] \in [window : Minutes, count : Nat]
    /\ day_window \in Days \cup {-1}
    /\ day_count \in Nat
    /\ caller \in [Callers -> [client : Clients \cup {NoClient},
                               now : 0..LastTick]]
    /\ admitted_day \in [Days -> Nat]
    /\ admitted_minute \in [Clients -> [Minutes -> Nat]]

(* No day of the clock lets more requests through than the global cap,     *)
(* across resets of the window.                                            *)
DailyCap == PerDay # 0 => \A d \in Days : admitted_day[d] <= PerDay

(* No client gets more requests through in a minute than its cap, although *)
(* its bucket may have been pruned in between.                             *)
MinuteCap ==
    PerMinute # 0 =>
        \A c \in Clients, m \in Minutes : admitted_minute[c][m] <= PerMinute

(* "A rejected request never consumes budget": the counters are exactly    *)
(* what was let through in their windows.                                  *)
CountersAreExact ==
    /\ day_window >= 0 => day_count = admitted_day[day_window]
    /\ \A c \in DOMAIN minute_buckets :
          minute_buckets[c].count =
              admitted_minute[c][minute_buckets[c].window]

(* A stream of fresh clients cannot grow the map without bound: past the   *)
(* retention limit it holds clients of one minute only, and the daily cap  *)
(* bounds those.                                                           *)
BucketsBounded ==
    PerDay # 0 =>
        Cardinality(DOMAIN minute_buckets)
            <= IF MaxBuckets > PerDay THEN MaxBuckets ELSE PerDay

(* The Retry-After of a refusal is honest: after that wait the cap that    *)
(* refused the request lets it through.                                    *)
RetryAfterHonest ==
    last.by # "none" => Verdict(last.client, last.now + last.retry) # last.by

=============================================================================
