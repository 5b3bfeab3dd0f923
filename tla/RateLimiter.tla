----------------------------- MODULE RateLimiter -----------------------------
(***************************************************************************)
(* The rate limiter of gateway-policy (rate_limiter.rs): token buckets or  *)
(* sliding windows in memory, or a counter in Redis.  Each operation on an *)
(* in-memory entry runs under the write lock of its map entry, each Lua    *)
(* script runs alone in Redis, so each is one step.                        *)
(*                                                                         *)
(* Time is a number of ticks.  A tick gives a bucket `cap` units and a     *)
(* request costs Window units: the code's 1.0 token and cap/60 tokens per  *)
(* second, without the rounding of f64.  Every entry keeps what passes     *)
(* since its last access, which is all the code reads of Instant::now().   *)
(***************************************************************************)
EXTENDS Integers, FiniteSets

CONSTANTS
    Keys,           \* the rate-limit keys
    Rpms,           \* the limits callers pass
    MaxRpm,         \* none of them is larger
    Window,         \* ticks in the window: the 60 seconds of the code
    IdleThreshold,  \* ticks after which cleanup drops an idle entry (300 s)
    Limiters        \* the limiters the configuration may choose

ASSUME LimiterAssumption ==
    /\ MaxRpm \in Nat /\ Rpms \subseteq 1..MaxRpm
    /\ Window \in Nat \ {0}
    /\ IdleThreshold \in Nat /\ IdleThreshold >= Window
    /\ Limiters \subseteq {"TokenBucket", "SlidingWindow", "Redis"}

VARIABLES
    limiter,    \* chosen at start
    bucket,     \* token buckets; cap 0 is a missing entry
    log,        \* sliding windows: how many requests are no older than an age;
                \* limit 0 is a missing entry
    tally,      \* Redis counters; count 0 is a missing key
    grants      \* history: how many granted requests are no older than an age

limiterVars == <<limiter, bucket, log, tally, grants>>

Ages == 0..Window
Least(m, n) == IF m <= n THEN m ELSE n

\* A count of requests by age, one request and one tick later.
OneMore(f) == [a \in DOMAIN f |-> f[a] + 1]
Older(f) == [a \in DOMAIN f |-> IF a = 0 THEN 0 ELSE f[a - 1]]

NoBucket == [cap |-> 0, tokens |-> 0, idle |-> 0]
NoLog == [limit |-> 0, within |-> [a \in Ages |-> 0]]
NoTally == [count |-> 0, ttl |-> 0]

LimiterInit ==
    /\ limiter \in Limiters
    /\ bucket = [k \in Keys |-> NoBucket]
    /\ log = [k \in Keys |-> NoLog]
    /\ tally = [k \in Keys |-> NoTally]
    /\ grants = [k \in Keys |-> [a \in 0..(Window - 1) |-> 0]]

Granted(k, ok) ==
    grants' = IF ok THEN [grants EXCEPT ![k] = OneMore(@)] ELSE grants

\* A new bucket is full and keeps the limit it was created with.
FoundBucket(k, rpm) ==
    IF bucket[k] = NoBucket THEN [cap |-> rpm, tokens |-> rpm * Window, idle |-> 0] ELSE bucket[k]

\* TokenBucket::try_consume: refill for the time since the last attempt,
\* then take a token if there is one.
TakeToken(k, rpm, ok) ==
    LET b == FoundBucket(k, rpm)
        filled == Least(b.tokens + b.idle * b.cap, b.cap * Window)
    IN  /\ limiter = "TokenBucket"
        /\ ok <=> filled >= Window
        /\ bucket' = [bucket EXCEPT
              ![k] = [cap |-> b.cap, tokens |-> IF ok THEN filled - Window ELSE filled, idle |-> 0]]
        /\ Granted(k, ok)
        /\ UNCHANGED <<limiter, log, tally>>

\* Mutant: an off-by-one on the limit.
TakeStampOverLimit(k, rpm, ok) ==
    LET w == IF log[k] = NoLog THEN [NoLog EXCEPT !.limit = rpm] ELSE log[k]
    IN  /\ limiter = "SlidingWindow"
        /\ ok <=> w.within[Window] <= w.limit
        /\ log' = [log EXCEPT ![k] = IF ok THEN [w EXCEPT !.within = OneMore(@)] ELSE w]
        /\ Granted(k, ok)
        /\ UNCHANGED <<limiter, bucket, tally>>

\* SlidingWindow::try_consume: requests older than the window are dropped
\* (by the tick that makes them so), one exactly as old as it counts.
TakeStamp(k, rpm, ok) ==
    LET w == IF log[k] = NoLog THEN [NoLog EXCEPT !.limit = rpm] ELSE log[k]
    IN  /\ limiter = "SlidingWindow"
        /\ ok <=> w.within[Window] + 1 <= w.limit
        /\ log' = [log EXCEPT ![k] = IF ok THEN [w EXCEPT !.within = OneMore(@)] ELSE w]
        /\ Granted(k, ok)
        /\ UNCHANGED <<limiter, bucket, tally>>

\* Mutant: every request, refused ones too, restarts the expiry.
RunCheckScriptRefreshing(k) ==
    tally' = [tally EXCEPT
        ![k] = [count |-> IF @.count > MaxRpm THEN @.count ELSE @.count + 1, ttl |-> Window]]

\* LUA_CHECK: count the request, refused or not; the first one of a window
\* sets the expiry.  Counts above every limit are all alike.
RunCheckScript(k) ==
    tally' = [tally EXCEPT
        ![k] = [count |-> IF @.count > MaxRpm THEN @.count ELSE @.count + 1,
                ttl |-> IF @.count = 0 THEN Window ELSE @.ttl]]

\* ... and its answer reaches the gateway.
TakeCount(k, rpm, ok) ==
    /\ limiter = "Redis"
    /\ RunCheckScript(k)
    /\ ok <=> tally'[k].count <= rpm
    /\ Granted(k, ok)
    /\ UNCHANGED <<limiter, bucket, log>>

\* ... and its answer is lost on the way.
LoseCount(k) ==
    /\ limiter = "Redis"
    /\ RunCheckScript(k)
    /\ UNCHANGED <<limiter, bucket, log, grants>>

\* Mutant: every entry counts as idle.
IdleAlways(k) == TRUE

\* The worker drops the entries no request touched for IdleThreshold.
Idle(k) ==
    CASE limiter = "TokenBucket" -> bucket[k].idle >= IdleThreshold
      [] limiter = "SlidingWindow" -> \A a \in Ages : a < IdleThreshold => log[k].within[a] = 0
      [] limiter = "Redis" -> FALSE

Cleanup ==
    /\ bucket' = [k \in Keys |-> IF Idle(k) THEN NoBucket ELSE bucket[k]]
    /\ log' = [k \in Keys |-> IF Idle(k) THEN NoLog ELSE log[k]]
    /\ UNCHANGED <<limiter, tally, grants>>

\* One tick of time; Redis deletes the keys that expire.
Tick ==
    /\ bucket' = [k \in Keys |->
          IF bucket[k] = NoBucket \/ bucket[k].idle = IdleThreshold THEN bucket[k]
          ELSE [bucket[k] EXCEPT !.idle = @ + 1]]
    /\ log' = [k \in Keys |-> [log[k] EXCEPT !.within = Older(@)]]
    /\ tally' = [k \in Keys |->
          IF tally[k].ttl <= 1 THEN NoTally ELSE [tally[k] EXCEPT !.ttl = @ - 1]]
    /\ grants' = [k \in Keys |-> Older(grants[k])]
    /\ UNCHANGED limiter

LimiterTypeOK ==
    /\ limiter \in Limiters
    /\ bucket \in [Keys -> [cap : 0..MaxRpm, tokens : 0..(MaxRpm * Window), idle : 0..IdleThreshold]]
    /\ log \in [Keys -> [limit : 0..MaxRpm, within : [Ages -> 0..MaxRpm]]]
    /\ tally \in [Keys -> [count : 0..(MaxRpm + 1), ttl : 0..Window]]

(***************************************************************************)
(* What the limit is worth: in any Window ticks a key is granted at most   *)
(* its limit by the sliding window; a burst and the refill of the window   *)
(* by the bucket; two windows' limits by the fixed window of Redis.  The   *)
(* cleanup worker must not hand out fresh buckets earlier than the refill. *)
(***************************************************************************)
GrantsBounded ==
    \A k \in Keys :
        LET n == grants[k][Window - 1]
        IN  CASE limiter = "SlidingWindow" -> n <= MaxRpm
              [] limiter = "TokenBucket" -> n * Window <= MaxRpm * (2 * Window - 1)
              [] limiter = "Redis" -> n <= 2 * MaxRpm
=============================================================================
