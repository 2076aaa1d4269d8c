-------------------------- MODULE RateLimiterProofs -------------------------
(***************************************************************************)
(* The caps of the limiter hold for every cap, retention limit, length of  *)
(* the windows and stream of clients, as long as one caller at a time is   *)
(* between its reading of the clock and the lock.  That is the service,    *)
(* where the event loop is the caller, and the hypothesis is needed: the   *)
(* run threads of this project breaks the daily cap with two callers.      *)
(***************************************************************************)
EXTENDS RateLimiter, FiniteSetTheorems, TLAPS

OneCaller == \E k : Callers = {k}

-----------------------------------------------------------------------------
(* Windows. *)

(* A time has one window, and windows follow the clock. *)
LEMMA Windows ==
    ASSUME NEW t \in Nat, NEW u \in Nat, NEW n \in Nat \ {0}, t <= u
    PROVE  /\ t \div n \in Nat
           /\ t \div n <= u \div n
    OBVIOUS

(* The end of the window of t is in the next window. *)
LEMMA NextWindow ==
    ASSUME NEW t \in Nat, NEW n \in Nat \ {0}
    PROVE  /\ t + (n - (t % n)) \in Nat
           /\ (t + (n - (t % n))) \div n = (t \div n) + 1
    OBVIOUS

(* A day has ticks. *)
LEMMA TicksPerDayIsPositive == TicksPerDay \in Nat \ {0}
BY ClockAssumption DEF TicksPerDay

(* Days and minutes are numbered. *)
LEMMA WindowNumbers ==
    (\A d \in Days : d \in Nat) /\ (\A m \in Minutes : m \in Nat)
<1>1. Day(LastTick) \in Nat /\ Minute(LastTick) \in Nat
  BY ClockAssumption, Windows, TicksPerDayIsPositive DEF Day, Minute
<1>2. QED
  BY <1>1 DEF Days, Minutes

(* Days and minutes of the times of a behaviour. *)
LEMMA WindowTypes ==
    ASSUME NEW t \in 0..LastTick, NEW u \in 0..LastTick, t <= u
    PROVE  /\ Day(t) \in Days /\ Day(t) <= Day(u)
           /\ Minute(t) \in Minutes /\ Minute(t) <= Minute(u)
<1>1. LastTick \in Nat /\ t \in Nat /\ u \in Nat /\ t <= LastTick
  BY ClockAssumption
<1>2. /\ Day(t) \in Nat /\ Day(t) <= Day(u) /\ Day(t) <= Day(LastTick)
      /\ Day(LastTick) \in Nat
  BY <1>1, TicksPerDayIsPositive, Windows DEF Day
<1>3. /\ Minute(t) \in Nat /\ Minute(t) <= Minute(u)
      /\ Minute(t) <= Minute(LastTick) /\ Minute(LastTick) \in Nat
  BY <1>1, ClockAssumption, Windows DEF Minute
<1>4. QED
  BY <1>2, <1>3 DEF Days, Minutes

-----------------------------------------------------------------------------
(* The map of buckets. *)

(* Recording a request counts it and changes no other count; the pruning   *)
(* loses only buckets of other minutes.                                    *)
LEMMA RecordedFacts ==
    ASSUME NEW c \in Clients, NEW m, NEW n, NEW after,
           after = Recorded(c, m, n), DOMAIN minute_buckets \subseteq Clients
    PROVE  /\ DOMAIN after \subseteq Clients
           /\ c \in DOMAIN after
           /\ after[c] = [window |-> m, count |-> n + 1]
           /\ \A d \in DOMAIN after \ {c} :
                 /\ d \in DOMAIN minute_buckets
                 /\ after[d] = minute_buckets[d]
           /\ \A d \in DOMAIN minute_buckets \ DOMAIN after :
                 minute_buckets[d].window # m
<1> DEFINE buckets == [d \in DOMAIN minute_buckets \cup {c} |->
                         IF d = c THEN [window |-> m, count |-> n + 1]
                         ELSE minute_buckets[d]]
<1>1. CASE Cardinality(DOMAIN buckets) > MaxBuckets
  <2>1. after = prune(buckets, m)
    BY <1>1 DEF Recorded
  <2>2. QED
    BY <2>1 DEF prune
<1>2. CASE ~(Cardinality(DOMAIN buckets) > MaxBuckets)
  <2>1. after = buckets
    BY <1>2 DEF Recorded
  <2>2. QED
    BY <2>1
<1>3. QED
  BY <1>1, <1>2

-----------------------------------------------------------------------------
(* Types. *)

(* A caller inside check serves a client. *)
LEMMA InsideTypes ==
    ASSUME TypeOK, NEW k \in Callers, caller[k].client # NoClient
    PROVE  /\ caller[k].client \in Clients
           /\ caller[k].now \in 0..LastTick
           /\ Day(caller[k].now) \in Days
           /\ Minute(caller[k].now) \in Minutes
           /\ DayCount(caller[k].now) \in Nat
           /\ MinuteCount(caller[k].client, caller[k].now) \in Nat
<1>1. caller[k].client \in Clients /\ caller[k].now \in 0..LastTick
  BY DEF TypeOK
<1>2. QED
  BY <1>1, WindowTypes DEF TypeOK, DayCount, MinuteCount

(* Every variable keeps its type, for any number of callers. *)
THEOREM TypeCorrect == Spec => []TypeOK
<1>1. Init => TypeOK
  <2>1. 0 \in 0..LastTick /\ LastTick \in Nat
    BY ClockAssumption
  <2>2. QED
    BY <2>1 DEF Init, TypeOK, Outside, Days, Minutes
<1>2. TypeOK /\ [Next]_vars => TypeOK'
  <2> SUFFICES ASSUME TypeOK, [Next]_vars PROVE TypeOK'
    OBVIOUS
  <2>1. CASE Tick
    BY <2>1, ClockAssumption DEF Tick, TypeOK, limiter, history
  <2>2. ASSUME NEW k \in Callers, read_clock(k) PROVE TypeOK'
    BY <2>2 DEF read_clock, TypeOK, limiter, history
  <2>3. ASSUME NEW k \in Callers, admit(k) PROVE TypeOK'
    <3> DEFINE c == caller[k].client
               now == caller[k].now
    <3>1. /\ c \in Clients /\ now \in 0..LastTick
          /\ Day(now) \in Days /\ Minute(now) \in Minutes
          /\ DayCount(now) \in Nat /\ MinuteCount(c, now) \in Nat
      BY <2>3, InsideTypes DEF admit
    <3>2. /\ DOMAIN minute_buckets' \subseteq Clients
          /\ \A d \in DOMAIN minute_buckets' :
                minute_buckets'[d] \in [window : Minutes, count : Nat]
      <4>1. minute_buckets' = Recorded(c, Minute(now), MinuteCount(c, now))
        BY <2>3 DEF admit
      <4>2. DOMAIN minute_buckets \subseteq Clients
        BY DEF TypeOK
      <4>3. /\ DOMAIN minute_buckets' \subseteq Clients
            /\ minute_buckets'[c] = [window |-> Minute(now),
                                     count |-> MinuteCount(c, now) + 1]
            /\ \A d \in DOMAIN minute_buckets' \ {c} :
                  /\ d \in DOMAIN minute_buckets
                  /\ minute_buckets'[d] = minute_buckets[d]
        BY <3>1, <4>1, <4>2, RecordedFacts
      <4>4. QED
        BY <3>1, <4>3 DEF TypeOK
    <3>3. day_window' \in Days \cup {-1} /\ day_count' \in Nat
      BY <2>3, <3>1 DEF admit, OpenDay
    <3>4. caller' \in [Callers -> [client : Clients \cup {NoClient},
                                   now : 0..LastTick]]
      BY <2>3, <3>1, ClockAssumption DEF admit, Outside, TypeOK
    <3>5. admitted_day' \in [Days -> Nat]
      BY <2>3, <3>1 DEF admit, TypeOK
    <3>6. admitted_minute' \in [Clients -> [Minutes -> Nat]]
      BY <2>3, <3>1 DEF admit, TypeOK
    <3>7. clock' \in 0..LastTick
      BY <2>3 DEF admit, TypeOK
    <3>8. QED
      BY <3>2, <3>3, <3>4, <3>5, <3>6, <3>7 DEF TypeOK
  <2>4. ASSUME NEW k \in Callers, refuse(k) PROVE TypeOK'
    <3> DEFINE c == caller[k].client
               now == caller[k].now
    <3>1. Day(now) \in Days /\ DayCount(now) \in Nat
      BY <2>4, InsideTypes DEF refuse
    <3>2. QED
      BY <2>4, <3>1, ClockAssumption DEF refuse, OpenDay, Outside, TypeOK
  <2>5. CASE UNCHANGED vars
    BY <2>5 DEF vars, limiter, history, TypeOK
  <2>6. QED
    BY <2>1, <2>2, <2>3, <2>4, <2>5 DEF Next
<1>3. QED
  BY <1>1, <1>2, PTL DEF Spec

-----------------------------------------------------------------------------
(* The inductive invariant.  The caps follow from exact counters, and the  *)
(* counters stay exact because a window is never opened twice: whatever    *)
(* was counted lies behind the clock, and behind the reading of the caller *)
(* that is about to be counted.                                            *)

(* Nothing is counted in a window after that of time t, and a client whose *)
(* bucket is gone had no request in that window.                           *)
Behind(t) ==
    /\ day_window <= Day(t)
    /\ \A c \in DOMAIN minute_buckets : minute_buckets[c].window <= Minute(t)
    /\ \A c \in Clients \ DOMAIN minute_buckets, m \in Minutes :
          m >= Minute(t) => admitted_minute[c][m] = 0

ClockInv ==
    /\ Behind(clock)
    /\ \A k \in Callers :
          caller[k].client # NoClient =>
             caller[k].now <= clock /\ Behind(caller[k].now)

NothingAhead ==
    /\ \A d \in Days : d > day_window => admitted_day[d] = 0
    /\ \A c \in DOMAIN minute_buckets, m \in Minutes :
          m > minute_buckets[c].window => admitted_minute[c][m] = 0

CapInv ==
    ClockInv /\ NothingAhead /\ CountersAreExact /\ DailyCap /\ MinuteCap

(* What is behind a time is behind every later one. *)
LEMMA BehindLater ==
    ASSUME TypeOK, NEW t \in 0..LastTick, NEW u \in 0..LastTick, t <= u,
           Behind(t)
    PROVE  Behind(u)
<1>1. /\ Day(t) \in Days /\ Day(u) \in Days /\ Day(t) <= Day(u)
      /\ Minute(t) \in Minutes /\ Minute(u) \in Minutes
      /\ Minute(t) <= Minute(u)
  BY WindowTypes
<1>2. (\A d \in Days : d \in Nat) /\ (\A m \in Minutes : m \in Nat)
  BY WindowNumbers
<1>3. QED
  BY <1>1, <1>2 DEF Behind, TypeOK

(* The counts a verdict rests on are those of all requests let through in  *)
(* the windows of the reading.                                             *)
LEMMA Counted ==
    ASSUME TypeOK, CapInv, NEW k \in Callers, caller[k].client # NoClient
    PROVE  LET c == caller[k].client
               now == caller[k].now
           IN /\ DayCount(now) = admitted_day[Day(now)]
              /\ MinuteCount(c, now) = admitted_minute[c][Minute(now)]
<1> DEFINE c == caller[k].client
           now == caller[k].now
<1>1. /\ c \in Clients /\ Day(now) \in Days /\ Minute(now) \in Minutes
  BY InsideTypes
<1>2. (\A d \in Days : d \in Nat) /\ (\A m \in Minutes : m \in Nat)
  BY WindowNumbers
<1>3. Behind(now)
  BY DEF CapInv, ClockInv
<1>4. DayCount(now) = admitted_day[Day(now)]
  <2>1. CASE Day(now) = day_window
    BY <1>1, <2>1 DEF DayCount, CapInv, CountersAreExact, Days
  <2>2. CASE Day(now) # day_window
    <3>1. Day(now) > day_window
      <4>1. Day(now) \in Nat /\ day_window \in Int
        BY <1>1, <1>2 DEF TypeOK
      <4>2. QED
        BY <1>3, <2>2, <4>1 DEF Behind
    <3>2. QED
      BY <1>1, <2>2, <3>1 DEF DayCount, CapInv, NothingAhead
  <2>3. QED
    BY <2>1, <2>2
<1>5. MinuteCount(c, now) = admitted_minute[c][Minute(now)]
  <2>1. CASE c \in DOMAIN minute_buckets
    <3>1. /\ minute_buckets[c].window \in Minutes
          /\ minute_buckets[c].window <= Minute(now)
      BY <1>3, <2>1 DEF Behind, TypeOK
    <3>2. CASE minute_buckets[c].window = Minute(now)
      BY <2>1, <3>2 DEF MinuteCount, CapInv, CountersAreExact
    <3>3. CASE minute_buckets[c].window # Minute(now)
      <4>1. Minute(now) > minute_buckets[c].window
        BY <1>1, <1>2, <3>1, <3>3
      <4>2. QED
        BY <1>1, <2>1, <3>3, <4>1 DEF MinuteCount, CapInv, NothingAhead
    <3>4. QED
      BY <3>2, <3>3
  <2>2. CASE c \notin DOMAIN minute_buckets
    BY <1>1, <1>2, <1>3, <2>2 DEF MinuteCount, Behind
  <2>3. QED
    BY <2>1, <2>2
<1>6. QED
  BY <1>4, <1>5

(* Letting a request through keeps the invariant. *)
LEMMA AdmitKeepsCaps ==
    ASSUME OneCaller, TypeOK, TypeOK', CapInv, NEW k \in Callers, admit(k)
    PROVE  CapInv'
<1> DEFINE c == caller[k].client
           now == caller[k].now
           m == Minute(now)
<1>1. /\ c \in Clients /\ c # NoClient /\ now \in 0..LastTick
      /\ Day(now) \in Days /\ m \in Minutes
      /\ DayCount(now) \in Nat /\ MinuteCount(c, now) \in Nat
  BY InsideTypes DEF admit
<1>2. (\A d \in Days : d \in Nat) /\ (\A n \in Minutes : n \in Nat)
  BY WindowNumbers
<1>3. now <= clock /\ Behind(now) /\ clock \in 0..LastTick
  BY <1>1 DEF CapInv, ClockInv, TypeOK
<1>4. /\ DayCount(now) = admitted_day[Day(now)]
      /\ MinuteCount(c, now) = admitted_minute[c][m]
  BY <1>1, Counted
<1>5. /\ clock' = clock /\ day_window' = Day(now)
      /\ day_count' = DayCount(now) + 1
      /\ admitted_day' = [admitted_day EXCEPT ![Day(now)] = @ + 1]
      /\ admitted_minute' = [admitted_minute EXCEPT ![c][m] = @ + 1]
      /\ minute_buckets' = Recorded(c, m, MinuteCount(c, now))
      /\ Verdict(c, now) = "admitted"
  BY DEF admit, OpenDay
<1>6. /\ DOMAIN minute_buckets' \subseteq Clients
      /\ c \in DOMAIN minute_buckets'
      /\ minute_buckets'[c] = [window |-> m, count |-> MinuteCount(c, now) + 1]
      /\ \A d \in DOMAIN minute_buckets' \ {c} :
            /\ d \in DOMAIN minute_buckets
            /\ minute_buckets'[d] = minute_buckets[d]
      /\ \A d \in DOMAIN minute_buckets \ DOMAIN minute_buckets' :
            minute_buckets[d].window # m
  <2>1. DOMAIN minute_buckets \subseteq Clients
    BY DEF TypeOK
  <2>2. QED
    BY <1>1, <1>5, <2>1, RecordedFacts
<1>7. /\ admitted_minute'[c][m] = MinuteCount(c, now) + 1
      /\ \A d \in Clients, n \in Minutes :
            d # c \/ n # m => admitted_minute'[d][n] = admitted_minute[d][n]
  BY <1>1, <1>4, <1>5 DEF TypeOK
<1>8. \A j \in Callers : caller'[j].client = NoClient
  <2>1. Callers = {k}
    BY DEF OneCaller
  <2>2. QED
    BY <2>1 DEF admit, Outside, TypeOK
<1>9. ClockInv'
  <2>1. ASSUME NEW d \in DOMAIN minute_buckets'
        PROVE  minute_buckets'[d].window <= m
    BY <1>1, <1>2, <1>3, <1>6, <2>1 DEF Behind
  <2>2. ASSUME NEW d \in Clients \ DOMAIN minute_buckets',
               NEW n \in Minutes, n >= m
        PROVE  admitted_minute'[d][n] = 0
    <3>1. d # c /\ admitted_minute'[d][n] = admitted_minute[d][n]
      BY <1>6, <1>7, <2>2
    <3>2. CASE d \notin DOMAIN minute_buckets
      BY <1>3, <2>2, <3>1, <3>2 DEF Behind
    <3>3. CASE d \in DOMAIN minute_buckets
      <4>1. /\ minute_buckets[d].window # m
            /\ minute_buckets[d].window <= m
            /\ minute_buckets[d].window \in Minutes
        BY <1>3, <1>6, <2>2, <3>3 DEF Behind, TypeOK
      <4>2. n > minute_buckets[d].window
        BY <1>1, <1>2, <2>2, <4>1
      <4>3. QED
        BY <3>1, <3>3, <4>2 DEF CapInv, NothingAhead
    <3>4. QED
      BY <3>2, <3>3
  <2>3. /\ clock' \in 0..LastTick
        /\ Day(clock') \in Nat /\ Day(now) <= Day(clock')
        /\ Minute(clock') \in Nat /\ m <= Minute(clock')
    BY <1>1, <1>2, <1>3, <1>5, WindowTypes
  <2>4. ASSUME NEW d \in DOMAIN minute_buckets'
        PROVE  minute_buckets'[d].window <= Minute(clock')
    <3>1. minute_buckets'[d].window \in Minutes
      BY <2>4 DEF TypeOK
    <3>2. QED
      BY <1>1, <1>2, <2>1, <2>3, <3>1
  <2>5. ASSUME NEW d \in Clients \ DOMAIN minute_buckets',
               NEW n \in Minutes, n >= Minute(clock')
        PROVE  admitted_minute'[d][n] = 0
    <3>1. n >= m
      BY <1>1, <1>2, <2>3, <2>5
    <3>2. QED
      BY <2>2, <2>5, <3>1
  <2>6. Behind(clock)'
    BY <1>5, <2>3, <2>4, <2>5 DEF Behind
  <2>7. QED
    BY <1>8, <2>6 DEF ClockInv
<1>10. NothingAhead'
  <2>1. ASSUME NEW d \in Days, d > Day(now) PROVE admitted_day'[d] = 0
    <3>1. d > day_window
      BY <1>1, <1>2, <1>3, <2>1 DEF Behind, TypeOK
    <3>2. QED
      BY <1>1, <1>2, <1>5, <2>1, <3>1 DEF CapInv, NothingAhead, TypeOK
  <2>2. ASSUME NEW d \in DOMAIN minute_buckets', NEW n \in Minutes,
               n > minute_buckets'[d].window
        PROVE  admitted_minute'[d][n] = 0
    <3>1. CASE d = c
      <4>1. n > m /\ n # m
        BY <1>1, <1>2, <1>6, <2>2, <3>1
      <4>2. CASE c \in DOMAIN minute_buckets
        <5>1. minute_buckets[c].window <= m
              /\ minute_buckets[c].window \in Minutes
          BY <1>3, <4>2 DEF Behind, TypeOK
        <5>2. n > minute_buckets[c].window
          BY <1>1, <1>2, <4>1, <5>1
        <5>3. QED
          BY <1>1, <1>7, <3>1, <4>1, <4>2, <5>2 DEF CapInv, NothingAhead
      <4>3. CASE c \notin DOMAIN minute_buckets
        <5>1. n >= m
          BY <1>1, <1>2, <4>1
        <5>2. QED
          BY <1>1, <1>3, <1>7, <3>1, <4>1, <4>3, <5>1 DEF Behind
      <4>4. QED
        BY <4>2, <4>3
    <3>2. CASE d # c
      BY <1>6, <1>7, <2>2, <3>2 DEF CapInv, NothingAhead
    <3>3. QED
      BY <3>1, <3>2
  <2>3. QED
    BY <1>5, <2>1, <2>2 DEF NothingAhead
<1>11. CountersAreExact'
  <2>1. day_count' = admitted_day'[day_window']
    BY <1>1, <1>4, <1>5 DEF TypeOK
  <2>2. ASSUME NEW d \in DOMAIN minute_buckets'
        PROVE  minute_buckets'[d].count
                  = admitted_minute'[d][minute_buckets'[d].window]
    <3>1. CASE d = c
      BY <1>6, <1>7, <3>1
    <3>2. CASE d # c
      <4>1. minute_buckets[d].window \in Minutes /\ d \in Clients
        BY <1>6, <2>2, <3>2 DEF TypeOK
      <4>2. QED
        BY <1>6, <1>7, <2>2, <3>2, <4>1 DEF CapInv, CountersAreExact
    <3>3. QED
      BY <3>1, <3>2
  <2>3. QED
    BY <2>1, <2>2 DEF CountersAreExact
<1>12. DailyCap'
  <2>1. PerDay # 0 => DayCount(now) + 1 <= PerDay
    BY <1>1, <1>5, CapsAssumption DEF Verdict
  <2>2. QED
    BY <1>1, <1>4, <1>5, <2>1 DEF DailyCap, CapInv, TypeOK
<1>13. MinuteCap'
  <2>1. PerMinute # 0 => MinuteCount(c, now) + 1 <= PerMinute
    BY <1>1, <1>5, CapsAssumption DEF Verdict
  <2>2. QED
    BY <1>1, <1>7, <2>1 DEF MinuteCap, CapInv
<1>14. QED
  BY <1>9, <1>10, <1>11, <1>12, <1>13 DEF CapInv

(* A refusal moves the daily window and counts nothing. *)
LEMMA RefuseKeepsCaps ==
    ASSUME OneCaller, TypeOK, TypeOK', CapInv, NEW k \in Callers, refuse(k)
    PROVE  CapInv'
<1> DEFINE c == caller[k].client
           now == caller[k].now
<1>1. /\ c \in Clients /\ c # NoClient /\ now \in 0..LastTick
      /\ Day(now) \in Days /\ DayCount(now) = admitted_day[Day(now)]
  BY InsideTypes, Counted DEF refuse
<1>2. (\A d \in Days : d \in Nat) /\ (\A m \in Minutes : m \in Nat)
  BY WindowNumbers
<1>3. now <= clock /\ Behind(now) /\ Behind(clock) /\ clock \in 0..LastTick
  BY <1>1 DEF CapInv, ClockInv, TypeOK
<1>4. /\ day_window' = Day(now) /\ day_count' = DayCount(now)
      /\ UNCHANGED <<clock, minute_buckets, admitted_day, admitted_minute>>
  BY DEF refuse, OpenDay
<1>5. \A j \in Callers : caller'[j].client = NoClient
  <2>1. Callers = {k}
    BY DEF OneCaller
  <2>2. QED
    BY <2>1 DEF refuse, Outside, TypeOK
<1>6. Behind(clock)'
  <2>1. Day(now) <= Day(clock)
    BY <1>1, <1>3, WindowTypes
  <2>2. QED
    BY <1>3, <1>4, <2>1 DEF Behind
<1>7. \A d \in Days : d > Day(now) => admitted_day[d] = 0
  <2>1. ASSUME NEW d \in Days, d > Day(now) PROVE d > day_window
    BY <1>1, <1>2, <1>3, <2>1 DEF Behind, TypeOK
  <2>2. QED
    BY <2>1 DEF CapInv, NothingAhead
<1>8. ClockInv' /\ NothingAhead'
  BY <1>4, <1>5, <1>6, <1>7 DEF ClockInv, NothingAhead, CapInv
<1>9. CountersAreExact' /\ DailyCap' /\ MinuteCap'
  BY <1>1, <1>4 DEF CountersAreExact, DailyCap, MinuteCap, CapInv
<1>10. QED
  BY <1>8, <1>9 DEF CapInv

(* Time passes, or the caller reads the clock. *)
LEMMA ClockKeepsCaps ==
    ASSUME TypeOK, TypeOK', CapInv, UNCHANGED <<limiter, history>>,
           Tick \/ \E k \in Callers : read_clock(k)
    PROVE  CapInv'
<1>1. /\ UNCHANGED <<minute_buckets, day_window, day_count, admitted_day,
                    admitted_minute>>
      /\ clock \in 0..LastTick /\ clock' \in 0..LastTick /\ clock <= clock'
  <2>1. clock' = clock \/ clock' = clock + 1
    BY DEF Tick, read_clock
  <2>2. clock \in 0..LastTick /\ clock' \in 0..LastTick /\ LastTick \in Nat
    BY ClockAssumption DEF TypeOK
  <2>3. QED
    BY <2>1, <2>2 DEF limiter, history
<1>2. \A u : Behind(u) => Behind(u)'
  BY <1>1 DEF Behind
<1>3. Behind(clock) /\ Behind(clock')
  BY <1>1, BehindLater DEF CapInv, ClockInv
<1>4. Behind(clock)'
  BY <1>1, <1>3 DEF Behind
<1>5. ASSUME NEW k \in Callers, caller'[k].client # NoClient
      PROVE  caller'[k].now <= clock' /\ Behind(caller[k].now)'
  <2>1. CASE caller'[k] = caller[k]
    <3>1. /\ caller[k].now <= clock /\ Behind(caller[k].now)
          /\ caller[k].now \in 0..LastTick
      BY <1>5, <2>1 DEF CapInv, ClockInv, TypeOK
    <3>2. caller[k].now <= clock'
      BY <1>1, <3>1, ClockAssumption
    <3>3. QED
      BY <1>1, <2>1, <3>1, <3>2 DEF Behind
  <2>2. CASE caller'[k].now = clock' /\ clock' = clock
    BY <1>1, <1>3, <2>2 DEF Behind
  <2>3. CASE Tick
    BY <2>1, <2>3 DEF Tick
  <2>4. ASSUME NEW l \in Callers, read_clock(l)
        PROVE  \/ caller'[k] = caller[k]
               \/ caller'[k].now = clock' /\ clock' = clock
    BY <2>4 DEF read_clock, TypeOK
  <2>5. QED
    BY <2>1, <2>2, <2>3, <2>4
<1>6. ClockInv'
  BY <1>4, <1>5 DEF ClockInv
<1>7. (NothingAhead /\ CountersAreExact /\ DailyCap /\ MinuteCap)'
  BY <1>1 DEF CapInv, NothingAhead, CountersAreExact, DailyCap, MinuteCap
<1>8. QED
  BY <1>6, <1>7 DEF CapInv

(* The inductive invariant holds for every stream of clients. *)
THEOREM CapsCorrect == OneCaller => (Spec => []CapInv)
<1> SUFFICES ASSUME OneCaller PROVE Spec => []CapInv
  OBVIOUS
<1>1. Init => CapInv
  <2> SUFFICES ASSUME Init PROVE CapInv
    OBVIOUS
  <2>1. (\A d \in Days : d \in Nat) /\ (\A m \in Minutes : m \in Nat)
    BY WindowNumbers
  <2>2. /\ \A d \in Days : admitted_day[d] = 0
        /\ \A c \in Clients, m \in Minutes : admitted_minute[c][m] = 0
        /\ DOMAIN minute_buckets = {} /\ day_window = -1
    BY DEF Init, Days, Minutes
  <2>3. Day(0) \in Nat /\ clock = 0
    BY Windows, TicksPerDayIsPositive DEF Init, Day
  <2>4. Behind(clock)
    BY <2>2, <2>3 DEF Behind
  <2>5. \A k \in Callers : caller[k].client = NoClient
    BY DEF Init, Outside
  <2>6. DailyCap /\ MinuteCap
    BY <2>2, CapsAssumption DEF DailyCap, MinuteCap
  <2>7. QED
    BY <2>2, <2>4, <2>5, <2>6
    DEF CapInv, ClockInv, NothingAhead, CountersAreExact
<1>2. TypeOK /\ TypeOK' /\ CapInv /\ [Next]_vars => CapInv'
  <2> SUFFICES ASSUME TypeOK, TypeOK', CapInv, [Next]_vars PROVE CapInv'
    OBVIOUS
  <2>1. CASE Tick
    BY <2>1, ClockKeepsCaps DEF Tick
  <2>2. ASSUME NEW k \in Callers, read_clock(k) PROVE CapInv'
    BY <2>2, ClockKeepsCaps DEF read_clock
  <2>3. ASSUME NEW k \in Callers, admit(k) PROVE CapInv'
    BY <2>3, AdmitKeepsCaps
  <2>4. ASSUME NEW k \in Callers, refuse(k) PROVE CapInv'
    BY <2>4, RefuseKeepsCaps
  <2>5. CASE UNCHANGED vars
    BY <2>5 DEF vars, limiter, history, CapInv, ClockInv, Behind, NothingAhead,
                CountersAreExact, DailyCap, MinuteCap
  <2>6. QED
    BY <2>1, <2>2, <2>3, <2>4, <2>5 DEF Next
<1>3. QED
  BY <1>1, <1>2, TypeCorrect, PTL DEF Spec

(* The daily cap is global and holds in every day of the clock. *)
THEOREM DailyCapHolds == OneCaller => (Spec => []DailyCap)
<1>1. CapInv => DailyCap
  BY DEF CapInv
<1>2. QED
  BY <1>1, CapsCorrect, PTL

(* The cap of a client holds in every minute, pruned buckets or not. *)
THEOREM MinuteCapHolds == OneCaller => (Spec => []MinuteCap)
<1>1. CapInv => MinuteCap
  BY DEF CapInv
<1>2. QED
  BY <1>1, CapsCorrect, PTL

(* "A rejected request never consumes budget", nor does anything else but  *)
(* a request that is let through.                                          *)
THEOREM CountersAreExactHolds == OneCaller => (Spec => []CountersAreExact)
<1>1. CapInv => CountersAreExact
  BY DEF CapInv
<1>2. QED
  BY <1>1, CapsCorrect, PTL

-----------------------------------------------------------------------------
(* Retry-After. *)

(* When the wait a refusal names is over, the window that refused is over. *)
LEMMA RefusalIsHonest ==
    ASSUME TypeOK, TypeOK', CapInv, NEW k \in Callers, refuse(k)
    PROVE  RetryAfterHonest'
<1>0. PICK c, now, by : /\ c = caller[k].client /\ now = caller[k].now
                        /\ by = Verdict(c, now)
  OBVIOUS
<1> DEFINE later == now + RetryAfter(by, now)
<1>1. /\ c \in Clients /\ now \in 0..LastTick
      /\ Day(now) \in Days /\ Minute(now) \in Minutes
      /\ now \in Nat
  BY <1>0, InsideTypes, ClockAssumption DEF refuse
<1>2. Day(now) \in Nat /\ \A m \in Minutes : m \in Nat
  BY <1>1, WindowNumbers
<1>3. /\ day_window' = Day(now) /\ minute_buckets' = minute_buckets
      /\ last' = [by |-> by, client |-> c, now |-> now,
                  retry |-> RetryAfter(by, now)]
  BY <1>0 DEF refuse, OpenDay
<1>4. CASE by = "day"
  <2>1. PerDay # 0 /\ PerDay \in Nat
    BY <1>0, <1>4, CapsAssumption DEF Verdict
  <2>2. Day(later) = Day(now) + 1
    BY <1>1, <1>4, NextWindow, TicksPerDayIsPositive DEF Day, RetryAfter
  <2>3. DayCount(later)' = 0
    BY <1>2, <1>3, <2>2 DEF DayCount
  <2>4. QED
    BY <1>3, <1>4, <2>1, <2>3 DEF RetryAfterHonest, Verdict
<1>5. CASE by = "minute"
  <2>1. PerMinute # 0 /\ PerMinute \in Nat
    BY <1>0, <1>5, CapsAssumption DEF Verdict
  <2>2. Minute(later) = Minute(now) + 1
    BY <1>1, <1>5, NextWindow, ClockAssumption DEF Minute, RetryAfter
  <2>3. c \in DOMAIN minute_buckets =>
           /\ minute_buckets[c].window \in Nat
           /\ minute_buckets[c].window <= Minute(now)
    BY <1>0, <1>2 DEF refuse, CapInv, ClockInv, Behind, TypeOK
  <2>4. MinuteCount(c, later)' = 0
    BY <1>1, <1>2, <1>3, <2>2, <2>3 DEF MinuteCount
  <2>5. QED
    BY <1>3, <1>5, <2>1, <2>4 DEF RetryAfterHonest, Verdict
<1>6. QED
  BY <1>0, <1>4, <1>5 DEF Verdict, refuse

(* The Retry-After of every refusal is honest. *)
THEOREM RetryAfterHonestHolds == OneCaller => (Spec => []RetryAfterHonest)
<1> SUFFICES ASSUME OneCaller PROVE Spec => []RetryAfterHonest
  OBVIOUS
<1>1. Init => RetryAfterHonest
  BY DEF Init, RetryAfterHonest, NoRefusal
<1>2. TypeOK /\ TypeOK' /\ CapInv /\ RetryAfterHonest /\ [Next]_vars
         => RetryAfterHonest'
  <2> SUFFICES ASSUME TypeOK, TypeOK', CapInv, RetryAfterHonest, [Next]_vars
               PROVE  RetryAfterHonest'
    OBVIOUS
  <2>1. CASE UNCHANGED <<limiter, last>>
    BY <2>1 DEF RetryAfterHonest, Verdict, DayCount, MinuteCount, limiter
  <2>2. ASSUME NEW k \in Callers, admit(k) PROVE RetryAfterHonest'
    BY <2>2 DEF admit, RetryAfterHonest, NoRefusal
  <2>3. ASSUME NEW k \in Callers, refuse(k) PROVE RetryAfterHonest'
    BY <2>3, RefusalIsHonest
  <2>4. CASE Tick \/ UNCHANGED vars
    BY <2>1, <2>4 DEF Tick, vars, history
  <2>5. ASSUME NEW k \in Callers, read_clock(k) PROVE RetryAfterHonest'
    BY <2>1, <2>5 DEF read_clock, history
  <2>6. QED
    BY <2>2, <2>3, <2>4, <2>5 DEF Next
<1>3. QED
  BY <1>1, <1>2, TypeCorrect, CapsCorrect, PTL DEF Spec

-----------------------------------------------------------------------------
(* The size of the map.  Each bucket of a minute was let through in it, so *)
(* that a minute has no more buckets than its day has requests.            *)

InMinute(m) == {c \in DOMAIN minute_buckets : minute_buckets[c].window = m}

FewInADay ==
    \A t \in 0..LastTick :
        Cardinality(InMinute(Minute(t))) <= admitted_day[Day(t)]

BucketInv == IsFiniteSet(DOMAIN minute_buckets) /\ FewInADay

(* Division by the remainder it leaves. *)
LEMMA DivIsUnique ==
    ASSUME NEW a \in Nat, NEW n \in Nat \ {0}, NEW q \in Nat, NEW r \in Nat,
           a = q * n + r, r < n
    PROVE  a \div n = q
OBVIOUS

(* A minute lies within one day. *)
LEMMA MinuteWithinDay ==
    ASSUME NEW t \in 0..LastTick
    PROVE  Day(t) = Minute(t) \div MinutesPerDay
<1> DEFINE T == TicksPerMinute
           M == MinutesPerDay
           q == t \div T
           d == q \div M
           rest == (q % M) * T + (t % T)
<1>1. T \in Nat \ {0} /\ M \in Nat \ {0} /\ t \in Nat
  BY ClockAssumption
<1>2. q \in Nat /\ t % T \in 0..(T - 1) /\ t = q * T + (t % T)
  BY <1>1
<1> HIDE DEF q
<1>3. d \in Nat /\ q % M \in 0..(M - 1) /\ q = d * M + (q % M)
  BY <1>1, <1>2
<1> HIDE DEF d
<1>4. PICK s, r : s = q % M /\ r = t % T
  OBVIOUS
<1>5. s \in Nat /\ r \in Nat /\ s <= M - 1 /\ r <= T - 1
  BY <1>1, <1>2, <1>3, <1>4
<1>6. t = d * (T * M) + (s * T + r)
  <2>1. q * T = (d * M) * T + s * T
    BY <1>1, <1>3, <1>4, <1>5
  <2>2. (d * M) * T = d * (T * M)
    BY <1>1, <1>3
  <2>3. QED
    BY <1>1, <1>2, <1>3, <1>4, <1>5, <2>1, <2>2
<1>7. s * T + r \in Nat /\ s * T + r < T * M
  <2>1. s * T <= (M - 1) * T
    BY <1>1, <1>5
  <2>2. (M - 1) * T = T * M - T
    BY <1>1
  <2>3. s * T \in Nat /\ T * M \in Nat
    BY <1>1, <1>5
  <2>4. QED
    BY <1>1, <1>5, <2>1, <2>2, <2>3
<1>8. t \div (T * M) = d
  BY <1>1, <1>3, <1>6, <1>7, DivIsUnique, TicksPerDayIsPositive
  DEF TicksPerDay
<1>9. QED
  BY <1>8 DEF Day, Minute, TicksPerDay, q, d

(* After a request the map is within the retention limit, or it holds      *)
(* nothing but the minute of the request.                                  *)
LEMMA RecordedSize ==
    ASSUME NEW c, NEW m, NEW n, NEW after, after = Recorded(c, m, n),
           IsFiniteSet(DOMAIN minute_buckets)
    PROVE  /\ DOMAIN after \subseteq DOMAIN minute_buckets \cup {c}
           /\ IsFiniteSet(DOMAIN after) /\ Cardinality(DOMAIN after) \in Nat
           /\ \/ Cardinality(DOMAIN after) <= MaxBuckets
              \/ \A d \in DOMAIN after : after[d].window = m
<1> DEFINE buckets == [d \in DOMAIN minute_buckets \cup {c} |->
                         IF d = c THEN [window |-> m, count |-> n + 1]
                         ELSE minute_buckets[d]]
<1>1. /\ IsFiniteSet(DOMAIN buckets) /\ Cardinality(DOMAIN buckets) \in Nat
      /\ DOMAIN buckets = DOMAIN minute_buckets \cup {c}
  BY FS_AddElement, FS_CardinalityType
<1>2. CASE Cardinality(DOMAIN buckets) > MaxBuckets
  <2>1. after = prune(buckets, m)
    BY <1>2 DEF Recorded
  <2>2. /\ DOMAIN after \subseteq DOMAIN buckets
        /\ \A d \in DOMAIN after : after[d].window = m
    BY <2>1 DEF prune
  <2> HIDE DEF buckets
  <2>3. IsFiniteSet(DOMAIN after)
    BY <1>1, <2>2, FS_Subset
  <2>4. QED
    BY <1>1, <2>2, <2>3, FS_CardinalityType
<1>3. CASE ~(Cardinality(DOMAIN buckets) > MaxBuckets)
  <2>1. after = buckets
    BY <1>3 DEF Recorded
  <2> HIDE DEF buckets
  <2>2. QED
    BY <1>1, <1>3, <2>1, BucketsAssumption
<1>4. QED
  BY <1>2, <1>3

(* A request adds at most its client to its minute, and one to its day. *)
LEMMA AdmitKeepsBuckets ==
    ASSUME TypeOK, BucketInv, NEW k \in Callers, admit(k)
    PROVE  BucketInv' /\ (DailyCap' => BucketsBounded')
<1> DEFINE c == caller[k].client
           now == caller[k].now
           m == Minute(now)
<1>1. /\ c \in Clients /\ now \in 0..LastTick
      /\ Day(now) \in Days /\ m \in Minutes
  BY InsideTypes DEF admit
<1>2. /\ minute_buckets' = Recorded(c, m, MinuteCount(c, now))
      /\ admitted_day' = [admitted_day EXCEPT ![Day(now)] = @ + 1]
  BY DEF admit
<1>3. /\ IsFiniteSet(DOMAIN minute_buckets')
      /\ Cardinality(DOMAIN minute_buckets') \in Nat
      /\ \/ Cardinality(DOMAIN minute_buckets') <= MaxBuckets
         \/ \A d \in DOMAIN minute_buckets' : minute_buckets'[d].window = m
  BY <1>2, RecordedSize DEF BucketInv
<1>4. /\ minute_buckets'[c].window = m
      /\ \A d \in DOMAIN minute_buckets' \ {c} :
            /\ d \in DOMAIN minute_buckets
            /\ minute_buckets'[d] = minute_buckets[d]
  <2>1. DOMAIN minute_buckets \subseteq Clients
    BY DEF TypeOK
  <2>2. /\ minute_buckets'[c] = [window |-> m,
                                 count |-> MinuteCount(c, now) + 1]
        /\ \A d \in DOMAIN minute_buckets' \ {c} :
              /\ d \in DOMAIN minute_buckets
              /\ minute_buckets'[d] = minute_buckets[d]
    BY <1>1, <1>2, <2>1, RecordedFacts
  <2>3. QED
    BY <2>2
<1>5. ASSUME NEW n
      PROVE  /\ InMinute(n)' \subseteq
                   IF n = m THEN InMinute(n) \cup {c} ELSE InMinute(n)
             /\ IsFiniteSet(InMinute(n))
             /\ Cardinality(InMinute(n)) \in Nat
             /\ Cardinality(InMinute(n)') \in Nat
             /\ Cardinality(InMinute(n)')
                   <= Cardinality(InMinute(n)) + (IF n = m THEN 1 ELSE 0)
  <2>1. InMinute(n)' \subseteq
           IF n = m THEN InMinute(n) \cup {c} ELSE InMinute(n)
    BY <1>4 DEF InMinute
  <2>2. IsFiniteSet(InMinute(n))
    <3>1. InMinute(n) \subseteq DOMAIN minute_buckets
      BY DEF InMinute
    <3>2. QED
      BY <3>1, FS_Subset DEF BucketInv
  <2>3. Cardinality(InMinute(n)) \in Nat
    BY <2>2, FS_CardinalityType
  <2>4. PICK B : B = InMinute(n)'
    OBVIOUS
  <2>5. CASE n = m
    <3>1. /\ IsFiniteSet(InMinute(n) \cup {c})
          /\ Cardinality(InMinute(n) \cup {c}) \in Nat
          /\ Cardinality(InMinute(n) \cup {c}) <= Cardinality(InMinute(n)) + 1
      BY <2>2, <2>3, FS_AddElement
    <3>2. /\ IsFiniteSet(B)
          /\ Cardinality(B) <= Cardinality(InMinute(n) \cup {c})
      BY <2>1, <2>4, <2>5, <3>1, FS_Subset
    <3>3. Cardinality(B) \in Nat
      BY <3>2, FS_CardinalityType
    <3>4. QED
      BY <2>1, <2>2, <2>3, <2>4, <2>5, <3>1, <3>2, <3>3
  <2>6. CASE n # m
    <3>1. IsFiniteSet(B) /\ Cardinality(B) <= Cardinality(InMinute(n))
      BY <2>1, <2>2, <2>4, <2>6, FS_Subset
    <3>2. Cardinality(B) \in Nat
      BY <3>1, FS_CardinalityType
    <3>3. QED
      BY <2>1, <2>2, <2>3, <2>4, <2>6, <3>1, <3>2
  <2>7. QED
    BY <2>5, <2>6
<1>6. ASSUME NEW t \in 0..LastTick
      PROVE  Cardinality(InMinute(Minute(t))') <= admitted_day'[Day(t)]
  <2>1. /\ Cardinality(InMinute(Minute(t))) <= admitted_day[Day(t)]
        /\ admitted_day[Day(t)] \in Nat /\ Day(t) \in Days
    BY WindowTypes DEF BucketInv, FewInADay, TypeOK
  <2>2. CASE Minute(t) = m
    <3>1. Day(t) = Day(now)
      BY <1>1, <2>2, MinuteWithinDay
    <3>2. admitted_day'[Day(t)] = admitted_day[Day(t)] + 1
      BY <1>1, <1>2, <3>1 DEF TypeOK
    <3>3. QED
      BY <1>5, <2>1, <2>2, <3>2
  <2>3. CASE Minute(t) # m
    <3>1. /\ admitted_day'[Day(t)] >= admitted_day[Day(t)]
          /\ admitted_day'[Day(t)] \in Nat
      BY <1>1, <1>2, <2>1 DEF TypeOK
    <3>2. QED
      BY <1>5, <2>1, <2>3, <3>1
  <2>4. QED
    BY <2>2, <2>3
<1>7. ASSUME DailyCap', PerDay # 0
      PROVE  Cardinality(DOMAIN minute_buckets')
                <= IF MaxBuckets > PerDay THEN MaxBuckets ELSE PerDay
  <2>1. CASE Cardinality(DOMAIN minute_buckets') <= MaxBuckets
    BY <1>3, <2>1, CapsAssumption, BucketsAssumption
  <2>2. CASE \A d \in DOMAIN minute_buckets' : minute_buckets'[d].window = m
    <3>1. PICK n, t : n = m /\ t = now
      OBVIOUS
    <3>2. DOMAIN minute_buckets' = InMinute(n)'
      BY <2>2, <3>1 DEF InMinute
    <3>3. Cardinality(InMinute(n)') <= admitted_day'[Day(now)]
      <4>1. t \in 0..LastTick /\ n = Minute(t)
        BY <1>1, <3>1
      <4>2. Cardinality(InMinute(Minute(t))') <= admitted_day'[Day(t)]
        BY <1>6, <4>1
      <4>3. QED
        BY <3>1, <4>1, <4>2
    <3>4. admitted_day'[Day(now)] \in Nat
          /\ admitted_day'[Day(now)] <= PerDay
      BY <1>1, <1>2, <1>7 DEF DailyCap, TypeOK
    <3>5. QED
      BY <1>3, <3>2, <3>3, <3>4, CapsAssumption, BucketsAssumption
  <2>3. QED
    BY <1>3, <2>1, <2>2
<1>8. FewInADay'
  BY <1>6 DEF FewInADay, InMinute
<1>9. QED
  BY <1>3, <1>7, <1>8 DEF BucketInv, BucketsBounded

(* The map stays bounded for every stream of clients: with the daily cap   *)
(* its size does not depend on how many clients there are (_prune).        *)
THEOREM BucketsBoundedHolds == OneCaller => (Spec => []BucketsBounded)
<1> SUFFICES ASSUME OneCaller PROVE Spec => []BucketsBounded
  OBVIOUS
<1>1. Init => BucketInv /\ BucketsBounded
  <2> SUFFICES ASSUME Init PROVE BucketInv /\ BucketsBounded
    OBVIOUS
  <2>1. /\ DOMAIN minute_buckets = {} /\ IsFiniteSet({})
        /\ Cardinality({}) = 0
    BY FS_EmptySet DEF Init
  <2>2. \A n : InMinute(n) = {}
    BY <2>1 DEF InMinute
  <2>3. \A t \in 0..LastTick : admitted_day[Day(t)] = 0
    BY WindowTypes DEF Init, Days
  <2>4. \A n : Cardinality(InMinute(n)) = 0
    BY <2>1, <2>2
  <2>5. FewInADay
    BY <2>3, <2>4 DEF FewInADay
  <2>6. BucketsBounded
    BY <2>1, CapsAssumption, BucketsAssumption DEF BucketsBounded
  <2>7. QED
    BY <2>1, <2>5, <2>6 DEF BucketInv
<1>2. /\ TypeOK /\ BucketInv /\ BucketsBounded /\ DailyCap'
      /\ [Next]_vars
      => BucketInv' /\ BucketsBounded'
  <2> SUFFICES ASSUME TypeOK, BucketInv, BucketsBounded, DailyCap',
                      [Next]_vars
               PROVE  BucketInv' /\ BucketsBounded'
    OBVIOUS
  <2>1. CASE UNCHANGED <<minute_buckets, admitted_day>>
    BY <2>1 DEF BucketInv, FewInADay, InMinute, BucketsBounded
  <2>2. ASSUME NEW k \in Callers, admit(k)
        PROVE  BucketInv' /\ BucketsBounded'
    BY <2>2, AdmitKeepsBuckets
  <2>3. ASSUME NEW k \in Callers, read_clock(k) \/ refuse(k)
        PROVE  UNCHANGED <<minute_buckets, admitted_day>>
    BY <2>3 DEF read_clock, refuse, limiter, history
  <2>4. CASE Tick \/ UNCHANGED vars
    BY <2>1, <2>4 DEF Tick, vars, limiter, history
  <2>5. QED
    BY <2>1, <2>2, <2>3, <2>4 DEF Next
<1>3. QED
  BY <1>1, <1>2, TypeCorrect, DailyCapHolds, PTL DEF Spec

=============================================================================
