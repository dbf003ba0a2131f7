------------------------------ MODULE Throttler ------------------------------
(***************************************************************************)
(* ThrottlerGuard over the store in memory, which counts the requests of a *)
(* key in windows that begin with its first request and forgets those that *)
(* are over, and over RedisThrottlerStore, which Redis forgets by itself.  *)
(* A key is a client of a handler.                                         *)
(***************************************************************************)
EXTENDS Naturals, FiniteSetTheorems, TLAPS

CONSTANTS
  Store,   \* "memory" or "redis"
  Keys,
  Method, Class, Module, \* limit and ttl in seconds for each key, by what decorated it: NotSet
                         \* when it is not; Module is the default
  Skipped, \* keys of handlers that are not throttled
  MaxTtl,  \* the longest of these
  MaxTime  \* bound: of the clock, which counts half seconds

NotSet == [limit |-> 0, ttl |-> 0]
Throttles == [limit : Nat \ {0}, ttl : 1 .. MaxTtl]
ThrottlerAssumption ==
  /\ Store \in {"memory", "redis"} /\ Module \in Throttles /\ Skipped \subseteq Keys
  /\ MaxTtl \in Nat /\ MaxTime \in Nat \ {0}
  /\ \A k \in Keys : Method[k] \in Throttles \cup {NotSet} /\ Class[k] \in Throttles \cup {NotSet}

VARIABLES
  time,
  windows,   \* the entry of each key: how many requests, and when it is over; Nothing
  nextSweep, \* nextSweepAt of the store in memory; 0 when it has no entry
  answer,    \* the last request: its key, and when it was told to come back; 0 if it passed
  passed     \* history: of each key, the requests that passed in each window, by its end

throttleVars == <<time, windows, nextSweep, answer, passed>>

Nothing == [count |-> 0, resetAt |-> 0]
Seconds(n) == 2 * n
\* When a window may be over.
Ends == 0 .. MaxTime + Seconds(MaxTtl)
Init ==
  /\ time = 1 /\ windows = [k \in Keys |-> Nothing] /\ nextSweep = 0
  /\ answer = [key |-> "none", back |-> 0] /\ passed = [k \in Keys |-> [t \in Ends |-> 0]]

Tick == time < MaxTime /\ time' = time + 1 /\ UNCHANGED <<windows, nextSweep, answer, passed>>

\* A decorator of the method goes before one of the class, and that before the module.
Throttle(k) == IF Method[k] # NotSet THEN Method[k] ELSE IF Class[k] # NotSet THEN Class[k] ELSE Module

\* Keys of entries that are there, and how one more request changes an entry.
Held == {k \in Keys : windows[k] # Nothing}
consumeWindow(entry, ttl) ==
  IF entry = Nothing \/ time >= entry.resetAt
    THEN [count |-> 1, resetAt |-> time + Seconds(ttl)] ELSE [entry EXCEPT !.count = @ + 1]

\* The entries after a sweep, when it is time for one, and when the next is due.
Swept == IF time < nextSweep THEN windows
         ELSE [k \in Keys |-> IF time >= windows[k].resetAt THEN Nothing ELSE windows[k]]
Earliest(entries) ==
  LET ends == {entries[k].resetAt : k \in Keys} \ {0}
  IN  IF ends = {} THEN 0 ELSE CHOOSE t \in ends : \A u \in ends : t <= u
SweepAfterThis(k) == windows'[k].resetAt
SweepAfter(k) ==
  LET due == IF time < nextSweep THEN nextSweep ELSE Earliest(Swept)
      end == windows'[k].resetAt
  IN  IF due = 0 \/ end < due THEN end ELSE due
MemoryConsume(k) ==
  /\ windows' = [Swept EXCEPT ![k] = consumeWindow(Swept[k], Throttle(k).ttl)]
  /\ nextSweep' = SweepAfter(k)
\* The script of a store in Redis, whose clock it asks; the key expires there.
RedisConsume(k) ==
  /\ windows' = [j \in Keys |-> IF j = k THEN consumeWindow(windows[k], Throttle(k).ttl)
                                ELSE IF time >= windows[j].resetAt THEN Nothing ELSE windows[j]]
  /\ UNCHANGED nextSweep

\* Retry-After: whole seconds, one at least.
RetryAfter(entry) == (entry.resetAt - time + 1) \div 2
\* Bound: a window that has refused two requests is asked no more.
canActivate(k) ==
  /\ k \notin Skipped /\ (time < windows[k].resetAt => windows[k].count < Throttle(k).limit + 2)
  /\ (Store = "memory" /\ MemoryConsume(k)) \/ (Store = "redis" /\ RedisConsume(k))
  /\ LET entry == windows'[k] IN
     IF entry.count > Throttle(k).limit
       THEN answer' = [key |-> k, back |-> time + Seconds(RetryAfter(entry))] /\ UNCHANGED passed
       ELSE /\ answer' = [key |-> k, back |-> 0]
            /\ passed' = [passed EXCEPT ![k][entry.resetAt] = @ + 1]
  /\ UNCHANGED time
Skips(k) ==
  /\ k \in Skipped /\ answer' = [key |-> k, back |-> 0] /\ UNCHANGED <<time, windows, nextSweep, passed>>

Next == Tick \/ \E k \in Keys : canActivate(k) \/ Skips(k)
Spec == Init /\ [][Next]_throttleVars

---------------------------------------------------------------------------
TypeOK ==
  /\ time \in 1 .. MaxTime /\ nextSweep \in Ends
  /\ \A k \in Keys : windows[k].count \in Nat /\ windows[k].resetAt \in Ends

\* No window of a client lets more requests pass than the handler's limit, and
\* the windows of a client do not overlap (consumeWindow(), sweepExpiredEntries()
\* and CONSUME_LUA).
LimitHolds ==
  \A k \in Keys \ Skipped :
    LET used == {t \in Ends : passed[k][t] > 0} IN
    /\ \A t \in used : passed[k][t] <= Throttle(k).limit
    /\ \A t, u \in used : t < u => u - t >= Seconds(Throttle(k).ttl)

\* The next request, of whatever client, finds the windows that are over
\* (nextSweepAt), and one that comes back when it was told to does not find the
\* window that refused it (Retry-After).
WindowsEnd ==
  /\ Store = "memory" => \A k \in Held : nextSweep # 0 /\ nextSweep <= windows[k].resetAt
  /\ answer.back # 0 => windows[answer.key].resetAt <= answer.back

---------------------------------------------------------------------------
(* Proofs *)

Typed ==
  /\ time \in 1 .. MaxTime /\ nextSweep \in Ends
  /\ windows \in [Keys -> [count : Nat, resetAt : Ends]]
  /\ passed \in [Keys -> [Ends -> Nat]]
  /\ \A k \in Keys : windows[k].resetAt = 0 => windows[k] = Nothing

\* The window of a client has counted what passed in it, and what passed
\* before is over, whether its window is still held or was swept.
CountInv ==
  \A k \in Keys \ Skipped : \A t \in Ends :
    passed[k][t] > 0 =>
      /\ t > 0 /\ passed[k][t] <= Throttle(k).limit
      /\ t = windows[k].resetAt => passed[k][t] <= windows[k].count
      /\ t # windows[k].resetAt => /\ t <= time
                                   /\ windows[k] # Nothing => t + Seconds(Throttle(k).ttl) <= windows[k].resetAt

LEMMA ThrottleTyped ==
  ASSUME ThrottlerAssumption, NEW k \in Keys
  PROVE  Throttle(k) \in Throttles
BY DEF ThrottlerAssumption, Throttle

LEMMA Numbers ==
  ASSUME ThrottlerAssumption
  PROVE  /\ Ends \subseteq Nat /\ 0 \in Ends /\ Nothing.resetAt = 0 /\ Nothing.count = 0
         /\ Nothing \in [count : Nat, resetAt : Ends]
         /\ \A k \in Keys : /\ Throttle(k).limit \in Nat /\ Seconds(Throttle(k).ttl) \in Nat
                            /\ Throttle(k).limit > 0 /\ Seconds(Throttle(k).ttl) > 0
<1>1. Ends \subseteq Nat /\ 0 \in Ends
  BY DEF Ends, Seconds, ThrottlerAssumption
<1>2. \A k \in Keys : /\ Throttle(k).limit \in Nat /\ Throttle(k).limit > 0
                      /\ Throttle(k).ttl \in Nat /\ Throttle(k).ttl > 0
  BY ThrottleTyped DEF Throttles, ThrottlerAssumption
<1> QED
  BY <1>1, <1>2 DEF Nothing, Seconds

\* What a request does to a window: it goes on, or a new one begins.
LEMMA Consumed ==
  ASSUME ThrottlerAssumption, Typed, NEW k \in Keys, NEW entry \in [count : Nat, resetAt : Ends],
         entry.resetAt = 0 => entry = Nothing
  PROVE  LET next == consumeWindow(entry, Throttle(k).ttl) IN
         /\ next \in [count : Nat, resetAt : Ends] /\ next.resetAt > time
         /\ \/ entry # Nothing /\ time < entry.resetAt /\ next.resetAt = entry.resetAt /\ next.count = entry.count + 1
            \/ time >= entry.resetAt /\ next.count = 1 /\ next.resetAt = time + Seconds(Throttle(k).ttl)
<1>1. Throttle(k).ttl \in 1 .. MaxTtl /\ MaxTtl \in Nat /\ MaxTime \in Nat
  BY ThrottleTyped DEF Throttles, ThrottlerAssumption
<1> DEFINE next == consumeWindow(entry, Throttle(k).ttl)
<1>2. time \in 1 .. MaxTime
  BY DEF Typed
<1>3. CASE entry = Nothing \/ time >= entry.resetAt
  <2>1. next = [count |-> 1, resetAt |-> time + Seconds(Throttle(k).ttl)]
    BY <1>3 DEF consumeWindow
  <2>2. next.count = 1 /\ next.resetAt = time + 2 * Throttle(k).ttl
    BY <2>1 DEF Seconds
  <2>3. time + 2 * Throttle(k).ttl \in Ends /\ time + 2 * Throttle(k).ttl > time
    BY <1>1, <1>2 DEF Ends, Seconds
  <2>4. time >= entry.resetAt
    BY <1>2, <1>3 DEF Nothing
  <2> QED
    BY <2>1, <2>2, <2>3, <2>4 DEF Seconds
<1>4. CASE ~(entry = Nothing \/ time >= entry.resetAt)
  <2>1. next = [entry EXCEPT !.count = @ + 1]
    BY <1>4 DEF consumeWindow
  <2>2. next \in [count : Nat, resetAt : Ends] /\ next.count = entry.count + 1 /\ next.resetAt = entry.resetAt
    BY <2>1
  <2>3. time < entry.resetAt
    BY <1>1, <1>2, <1>4 DEF Ends, Seconds
  <2> QED
    BY <1>2, <1>4, <2>2, <2>3 DEF Ends
<1> QED
  BY <1>3, <1>4

LEMMA SmallestNumber ==
  ASSUME NEW T \in SUBSET Nat, T # {}
  PROVE  \E x \in T : \A y \in T : x <= y
<1> DEFINE U == {1 .. n : n \in T}
<1>1. U \subseteq FiniteSubsetsOf(Nat) /\ U # {}
  <2>1. \A n \in T : 1 .. n \in FiniteSubsetsOf(Nat)
    BY FS_Interval DEF FiniteSubsetsOf
  <2> QED
    BY <2>1
<1>2. IsWellFoundedOn(StrictSubsetOrdering(Nat), FiniteSubsetsOf(Nat))
  BY FS_StrictSubsetOrderingWellFounded
<1>3. \E u \in U : \A v \in U : ~(<<v, u>> \in StrictSubsetOrdering(Nat))
  <2> HIDE DEF U
  <2> QED
    BY <1>1, <1>2, WFMin, Zenon
<1>4. PICK x \in T : \A y \in T : ~(<<1 .. y, 1 .. x>> \in StrictSubsetOrdering(Nat))
  BY <1>3
<1>5. ASSUME NEW y \in T, y < x PROVE FALSE
  <2>1. 1 .. y \subseteq 1 .. x /\ 1 .. y # 1 .. x /\ 1 .. y \in SUBSET Nat /\ 1 .. x \in SUBSET Nat
    <3>1. x \in 1 .. x /\ x \notin 1 .. y
      BY <1>5
    <3> QED
      BY <1>5, <3>1
  <2> QED
    BY <1>4, <2>1, Zenon DEF StrictSubsetOrdering
<1> QED
  BY <1>5

\* What a request does to the windows, in either store: the client's own counts
\* it, one that is over may be forgotten, the others stay.
LEMMA WindowsAfter ==
  ASSUME ThrottlerAssumption, Typed, NEW k \in Keys,
         MemoryConsume(k) \/ RedisConsume(k)
  PROVE  /\ windows' \in [Keys -> [count : Nat, resetAt : Ends]]
         /\ \A j \in Keys \ {k} : windows'[j] = windows[j] \/ (windows'[j] = Nothing /\ time >= windows[j].resetAt)
         /\ windows'[k].resetAt > time
         /\ \/ time < windows[k].resetAt /\ windows'[k].resetAt = windows[k].resetAt
                                         /\ windows'[k].count = windows[k].count + 1
            \/ time >= windows[k].resetAt /\ windows'[k].count = 1
                                          /\ windows'[k].resetAt = time + Seconds(Throttle(k).ttl)
<1>1. Nothing \in [count : Nat, resetAt : Ends] /\ time \in Nat
  BY DEF Nothing, Ends, Typed, ThrottlerAssumption, Seconds
<1>2. CASE MemoryConsume(k)
  <2>1. /\ Swept \in [Keys -> [count : Nat, resetAt : Ends]]
        /\ \A j \in Keys : Swept[j] = windows[j] \/ (Swept[j] = Nothing /\ time >= windows[j].resetAt)
    BY <1>1 DEF Swept, Typed
  <2>2. windows' = [Swept EXCEPT ![k] = consumeWindow(Swept[k], Throttle(k).ttl)]
    BY <1>2 DEF MemoryConsume
  <2>3. CASE Swept[k] = windows[k]
    BY <2>1, <2>2, <2>3, Consumed DEF Typed
  <2>4. CASE Swept[k] = Nothing /\ time >= windows[k].resetAt
    <3>1. Nothing.resetAt = 0
      BY DEF Nothing
    <3>2. LET next == consumeWindow(Nothing, Throttle(k).ttl) IN
             next \in [count : Nat, resetAt : Ends] /\ next.resetAt > time
             /\ next.count = 1 /\ next.resetAt = time + Seconds(Throttle(k).ttl)
      BY <1>1, <3>1, Consumed
    <3> QED
      BY <2>1, <2>2, <2>4, <3>2
  <2> QED
    BY <2>1, <2>3, <2>4
<1>3. CASE RedisConsume(k)
  BY <1>1, <1>3, Consumed DEF RedisConsume, Typed
<1> QED
  BY <1>2, <1>3

\* Where the sweep of the store in memory goes next: never past the end of a
\* window that it holds.
LEMMA SweepsInTime ==
  ASSUME ThrottlerAssumption, Typed, WindowsEnd, Store = "memory", NEW k \in Keys, MemoryConsume(k)
  PROVE  nextSweep' \in Ends /\ \A j \in Keys : windows'[j] # Nothing => nextSweep' # 0 /\ nextSweep' <= windows'[j].resetAt
<1> DEFINE due == IF time < nextSweep THEN nextSweep ELSE Earliest(Swept)
           end == windows'[k].resetAt
<1>1. nextSweep' = IF due = 0 \/ end < due THEN end ELSE due
  BY DEF MemoryConsume, SweepAfter
<1>2. windows' \in [Keys -> [count : Nat, resetAt : Ends]] /\ end > time /\ time \in Nat /\ end \in Ends
  BY WindowsAfter DEF Typed
<1>3. \A j \in Keys \ {k} : windows'[j] = Swept[j]
  BY DEF MemoryConsume, Swept, Typed
<1>4. due \in Ends /\ \A j \in Keys : Swept[j] # Nothing => due # 0 /\ due <= Swept[j].resetAt
  <2>1. CASE time < nextSweep
    BY <1>2, <2>1 DEF Swept, WindowsEnd, Held, Typed
  <2>2. CASE ~(time < nextSweep)
    <3> DEFINE ends == {Swept[j].resetAt : j \in Keys} \ {0}
    <3>1. Swept = [j \in Keys |-> IF time >= windows[j].resetAt THEN Nothing ELSE windows[j]]
      BY <2>2 DEF Swept
    <3>2. \A j \in Keys : Swept[j].resetAt \in Ends /\ (Swept[j] # Nothing => Swept[j].resetAt \in ends)
      <4>1. Nothing.resetAt = 0 /\ 0 \in Ends
        BY DEF Nothing, Ends, ThrottlerAssumption, Seconds
      <4> QED
        BY <3>1, <4>1 DEF Typed
    <3>3. ends \subseteq Ends /\ Ends \subseteq Nat /\ 0 \in Ends
      BY <3>2 DEF Ends, ThrottlerAssumption, Seconds
    <3>4. Earliest(Swept) = IF ends = {} THEN 0 ELSE CHOOSE t \in ends : \A u \in ends : t <= u
      BY DEF Earliest
    <3> HIDE DEF ends
    <3>5. CASE ends = {}
      BY <2>2, <3>2, <3>3, <3>4, <3>5
    <3>6. CASE ends # {}
      <4>1. \E t \in ends : \A u \in ends : t <= u
        BY <3>3, <3>6, SmallestNumber
      <4>2. due \in ends /\ \A u \in ends : due <= u
        BY <2>2, <3>4, <3>6, <4>1
      <4>3. 0 \notin ends
        BY DEF ends
      <4> QED
        BY <3>2, <3>3, <4>2, <4>3
    <3> QED
      BY <3>5, <3>6
  <2> QED
    BY <2>1, <2>2
<1> HIDE DEF due, end
<1>5. nextSweep' \in Ends /\ nextSweep' # 0 /\ nextSweep' <= end /\ (due # 0 => nextSweep' <= due)
  BY <1>1, <1>2, <1>4 DEF Ends
<1>6. ASSUME NEW j \in Keys, windows'[j] # Nothing PROVE nextSweep' <= windows'[j].resetAt
  <2>1. CASE j = k
    BY <1>5, <2>1 DEF end
  <2>2. CASE j # k
    <3>1. windows'[j] = Swept[j] /\ due # 0 /\ due <= windows'[j].resetAt /\ windows'[j].resetAt \in Ends
      BY <1>2, <1>3, <1>4, <1>6, <2>2
    <3> QED
      BY <1>4, <1>5, <3>1 DEF Ends
  <2> QED
    BY <2>1, <2>2
<1> QED
  BY <1>5, <1>6

LimitsInv == Typed /\ CountInv /\ LimitHolds /\ WindowsEnd

LEMMA ActivateTyped ==
  ASSUME ThrottlerAssumption, LimitsInv, NEW k \in Keys, canActivate(k)
  PROVE  Typed'
<1> USE DEF LimitsInv
<1>1. /\ windows' \in [Keys -> [count : Nat, resetAt : Ends]]
      /\ \A j \in Keys : windows'[j].resetAt = 0 => windows'[j] = Nothing
  BY WindowsAfter DEF canActivate, Typed
<1>2. nextSweep' \in Ends
  BY SweepsInTime DEF canActivate, RedisConsume, Typed
<1>3. passed' \in [Keys -> [Ends -> Nat]]
  BY DEF canActivate, Typed
<1> QED
  BY <1>1, <1>2, <1>3 DEF canActivate, Typed

LEMMA ActivateEnds ==
  ASSUME ThrottlerAssumption, LimitsInv, NEW k \in Keys, canActivate(k)
  PROVE  WindowsEnd'
<1> USE DEF LimitsInv
<1>1. Store = "memory" => \A j \in Held' : nextSweep' # 0 /\ nextSweep' <= windows'[j].resetAt
  BY SweepsInTime DEF canActivate, Held
<1>2. answer'.back # 0 => windows'[answer'.key].resetAt <= answer'.back
  <2> DEFINE end == windows'[k].resetAt
  <2>1. time \in Nat /\ end \in Nat
    <3>1. windows' \in [Keys -> [count : Nat, resetAt : Ends]]
      BY ActivateTyped DEF Typed
    <3> QED
      BY <3>1, Numbers DEF Typed
  <2>2. answer' = [key |-> k, back |-> 0] \/ answer' = [key |-> k, back |-> time + Seconds(RetryAfter(windows'[k]))]
    BY DEF canActivate
  <2>3. time + Seconds(RetryAfter(windows'[k])) = time + 2 * ((end - time + 1) \div 2)
    BY DEF Seconds, RetryAfter
  <2> HIDE DEF end
  <2>4. end <= time + 2 * ((end - time + 1) \div 2)
    BY <2>1
  <2> QED
    BY <2>2, <2>3, <2>4 DEF end
<1> QED
  BY <1>1, <1>2 DEF WindowsEnd

\* What passed in the windows of a client after its request: in its own window
\* one more, when the window has counted no more than the limit.
LEMMA ActivateCounts ==
  ASSUME ThrottlerAssumption, LimitsInv, NEW k \in Keys, canActivate(k), NEW j \in Keys \ Skipped
  PROVE  /\ \A t \in Ends : passed'[j][t] > 0 =>
              /\ t > 0 /\ passed'[j][t] <= Throttle(j).limit
              /\ t = windows'[j].resetAt => passed'[j][t] <= windows'[j].count
              /\ t # windows'[j].resetAt =>
                   /\ t <= time'
                   /\ windows'[j] # Nothing => t + Seconds(Throttle(j).ttl) <= windows'[j].resetAt
         /\ \A t \in Ends : passed'[j][t] > 0 => passed[j][t] > 0 \/ (t = windows'[j].resetAt /\ windows'[j] # Nothing)
<1> USE DEF LimitsInv
<1>1. /\ time \in Nat /\ time' = time /\ Ends \subseteq Nat /\ Nothing.resetAt = 0 /\ Nothing.count = 0
      /\ Throttle(j).limit \in Nat /\ Throttle(j).limit > 0
  BY Numbers DEF Typed, canActivate
<1>2. \A t \in Ends : passed[j][t] \in Nat /\ windows[j].count \in Nat /\ windows[j].resetAt \in Ends
  BY DEF Typed
<1>3. Seconds(Throttle(j).ttl) \in Nat /\ Seconds(Throttle(j).ttl) > 0
  BY Numbers
<1>4. \A t \in Ends : passed[j][t] > 0 =>
        /\ t > 0 /\ passed[j][t] <= Throttle(j).limit
        /\ t = windows[j].resetAt => passed[j][t] <= windows[j].count
        /\ t # windows[j].resetAt => /\ t <= time
                                     /\ windows[j] # Nothing => t + Seconds(Throttle(j).ttl) <= windows[j].resetAt
  BY DEF CountInv
<1>5. CASE j # k
  <2>1. windows'[j] = windows[j] \/ (windows'[j] = Nothing /\ time >= windows[j].resetAt)
    BY <1>5, WindowsAfter DEF canActivate
  <2>2. passed'[j] = passed[j]
    BY <1>5 DEF canActivate, Typed
  <2> QED
    BY <1>1, <1>2, <1>3, <1>4, <2>1, <2>2
<1>6. CASE j = k
  <2> DEFINE end == windows'[k].resetAt
  <2>1. /\ end > time /\ end \in Ends /\ windows'[k] # Nothing
        /\ \/ time < windows[k].resetAt /\ end = windows[k].resetAt /\ windows'[k].count = windows[k].count + 1
           \/ time >= windows[k].resetAt /\ windows'[k].count = 1 /\ end = time + Seconds(Throttle(k).ttl)
    BY <1>1, WindowsAfter DEF canActivate
  <2>2. \A t \in Ends \ {end} : passed'[k][t] = passed[k][t]
    BY DEF canActivate, Typed
  <2>3. \/ passed'[k][end] = passed[k][end]
        \/ passed'[k][end] = passed[k][end] + 1 /\ ~(windows'[k].count > Throttle(k).limit)
    BY <2>1 DEF canActivate, Typed
  <2> HIDE DEF end
  <2>4. windows[k] = Nothing => time >= windows[k].resetAt
    BY <1>1
  <2>5. ASSUME NEW t \in Ends, passed'[k][t] > 0, t # end
        PROVE  t > 0 /\ passed'[k][t] <= Throttle(k).limit /\ t <= time /\ t + Seconds(Throttle(k).ttl) <= end
    BY <1>1, <1>2, <1>3, <1>4, <1>6, <2>1, <2>2, <2>4, <2>5
  <2>6. CASE time < windows[k].resetAt
    BY <1>1, <1>2, <1>3, <1>4, <1>6, <2>1, <2>2, <2>3, <2>5, <2>6 DEF end
  <2>7. CASE time >= windows[k].resetAt
    <3>1. passed[k][end] = 0
      <4>1. ASSUME passed[k][end] > 0 PROVE FALSE
        <5>1. CASE end = windows[k].resetAt
          <6>1. end \in Nat /\ time \in Nat /\ end > time
            BY <1>1, <2>1
          <6>2. time >= end
            BY <2>7, <5>1
          <6> QED
            BY <6>1, <6>2
        <5>2. CASE end # windows[k].resetAt
          <6>1. end \in Ends /\ end \in Nat /\ time \in Nat /\ end > time
            BY <1>1, <2>1
          <6>2. passed[j][end] > 0 /\ end # windows[j].resetAt
            BY <1>6, <4>1, <5>2
          <6>3. end <= time
            BY <1>4, <6>1, <6>2
          <6> QED
            BY <6>1, <6>3
        <5> QED
          BY <5>1, <5>2
      <4> QED
        BY <1>2, <1>6, <2>1, <4>1
    <3> QED
      BY <1>1, <1>2, <1>3, <1>4, <1>6, <2>1, <2>2, <2>3, <2>5, <2>7, <3>1 DEF end
  <2>8. time < windows[k].resetAt \/ time >= windows[k].resetAt
    BY <1>1, <1>2, <1>6, <2>1
  <2> QED
    BY <2>6, <2>7, <2>8
<1> QED
  BY <1>5, <1>6

LEMMA ActivateLimits ==
  ASSUME ThrottlerAssumption, LimitsInv, NEW k \in Keys, canActivate(k)
  PROVE  CountInv' /\ LimitHolds'
<1>1. CountInv'
  BY ActivateCounts DEF CountInv
<1>2. ASSUME NEW j \in Keys \ Skipped, NEW t \in Ends, NEW u \in Ends,
             passed'[j][t] > 0, passed'[j][u] > 0, t < u
      PROVE  u - t >= Seconds(Throttle(j).ttl)
  <2>1. /\ Seconds(Throttle(j).ttl) \in Nat /\ Ends \subseteq Nat /\ Nothing.resetAt = 0
        /\ time \in Nat /\ time' = time /\ windows'[j].resetAt \in Ends
    <3>1. windows' \in [Keys -> [count : Nat, resetAt : Ends]]
      BY ActivateTyped DEF Typed
    <3> QED
      BY <3>1, Numbers DEF LimitsInv, Typed, canActivate
  <2>2. CASE passed[j][t] > 0 /\ passed[j][u] > 0
    BY <1>2, <2>2 DEF LimitsInv, LimitHolds
  <2>3. CASE u = windows'[j].resetAt /\ windows'[j] # Nothing
    BY <1>2, <2>1, <2>3, ActivateCounts
  <2>4. CASE t = windows'[j].resetAt /\ windows'[j] # Nothing /\ u # windows'[j].resetAt
    BY <1>2, <2>1, <2>4, ActivateCounts
  <2> QED
    BY <1>2, <2>2, <2>3, <2>4, ActivateCounts
<1>3. \A j \in Keys \ Skipped, t \in Ends : passed'[j][t] > 0 => passed'[j][t] <= Throttle(j).limit
  BY ActivateCounts
<1> QED
  BY <1>1, <1>2, <1>3 DEF LimitHolds

\* No window of a client lets more requests pass than the limit, the windows
\* of a client do not overlap, sweeps come in time and Retry-After is never too
\* early: for all clients, limits and times, in either store.
THEOREM LimitsHold ==
  ASSUME ThrottlerAssumption
  PROVE  Spec => [](LimitHolds /\ WindowsEnd)
<1>1. Init => LimitsInv
  <2> SUFFICES ASSUME Init PROVE LimitsInv
    OBVIOUS
  <2>1. /\ windows \in [Keys -> [count : Nat, resetAt : Ends]] /\ nextSweep \in Ends
        /\ \A k \in Keys : windows[k] = Nothing
        /\ passed \in [Keys -> [Ends -> Nat]] /\ \A k \in Keys, t \in Ends : ~(passed[k][t] > 0)
    BY Numbers DEF Init
  <2>2. time \in 1 .. MaxTime /\ answer.back = 0
    BY DEF Init, ThrottlerAssumption
  <2>3. Typed
    BY <2>1, <2>2 DEF Typed
  <2>4. CountInv
    BY <2>1 DEF CountInv
  <2>5. LimitHolds
    BY <2>1 DEF LimitHolds
  <2>6. WindowsEnd
    BY <2>1, <2>2 DEF WindowsEnd, Held
  <2> QED
    BY <2>3, <2>4, <2>5, <2>6 DEF LimitsInv
<1>2. LimitsInv /\ [Next]_throttleVars => LimitsInv'
  <2> SUFFICES ASSUME LimitsInv, [Next]_throttleVars PROVE LimitsInv'
    OBVIOUS
  <2>1. CASE Tick
    <3>1. time' \in 1 .. MaxTime /\ time \in Nat /\ time' = time + 1
      BY <2>1 DEF Tick, LimitsInv, Typed, ThrottlerAssumption
    <3>2. \A t \in Ends : t \in Nat
      BY DEF Ends, ThrottlerAssumption, Seconds
    <3> QED
      BY <2>1, <3>1, <3>2 DEF Tick, LimitsInv, Typed, CountInv, LimitHolds, WindowsEnd, Held
  <2>2. ASSUME NEW k \in Keys, canActivate(k) PROVE LimitsInv'
    BY <2>2, ActivateTyped, ActivateEnds, ActivateLimits DEF LimitsInv
  <2>3. ASSUME NEW k \in Keys, Skips(k) PROVE LimitsInv'
    BY <2>3 DEF Skips, LimitsInv, Typed, CountInv, LimitHolds, WindowsEnd, Held
  <2>4. CASE UNCHANGED throttleVars
    BY <2>4 DEF throttleVars, LimitsInv, Typed, CountInv, LimitHolds, WindowsEnd, Held
  <2> QED
    BY <2>1, <2>2, <2>3, <2>4 DEF Next
<1>3. LimitsInv => LimitHolds /\ WindowsEnd
  BY DEF LimitsInv
<1> QED
  BY <1>1, <1>2, <1>3, PTL DEF Spec
=============================================================================
