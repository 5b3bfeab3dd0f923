---------------------------- MODULE Proxy_proofs ----------------------------
(***************************************************************************)
(* Theorems about the proxy handler with its rate limiter and budget       *)
(* enforcer (ProxyHandler), for any keys, limits, window, costs, calendar  *)
(* and number of requests and faults.                                      *)
(***************************************************************************)
EXTENDS ProxyHandler, FiniteSetTheorems, WellFoundedInduction, TLAPS

----------------------------------------------------------------------------
(* The rate limiter.  What a key was granted within the window is bounded  *)
(* by what the entry of the limiter in use knows of it; each limiter needs *)
(* an invariant of its own, for every age within the window.               *)

GrantAges == 0..(Window - 1)

\* A count of requests no older than an age grows with the age.
Grows(f, last) == \A a \in 0..last, b \in 0..last : a <= b => f[a] <= f[b]

GrantsTypeOK ==
    /\ grants \in [Keys -> [GrantAges -> Nat]]
    /\ \A k \in Keys : Grows(grants[k], Window - 1)

\* The tokens a bucket has at its next refill.
Available(b) == Least(b.tokens + b.idle * b.cap, b.cap * Window)

\* A bucket gives no more than it had and what has been refilled since, and
\* nothing while it is idle; without an entry nothing is recent.
BucketHolds(k) ==
    LET b == bucket[k] IN
    /\ b.cap = 0 => b = NoBucket /\ \A j \in GrantAges : grants[k][j] = 0
    /\ b.cap # 0 =>
          \A j \in GrantAges :
             /\ grants[k][j] * Window + Available(b) <= b.cap * Window + j * b.cap
             /\ j < b.idle => grants[k][j] = 0

\* The window remembers every recent grant.
LogHolds(k) ==
    /\ log[k].limit = 0 => log[k] = NoLog
    /\ Grows(log[k].within, Window) /\ log[k].within[Window] <= log[k].limit
    /\ limiter = "SlidingWindow" => \A j \in GrantAges : grants[k][j] = log[k].within[j]

\* The grants of the fixed window under way are counted; those of the one
\* before it are no more than a limit.
TallyHolds(k) ==
    LET t == tally[k] IN
    /\ t.count = 0 => t = NoTally /\ grants[k][0] = 0 /\ grants[k][Window - 1] <= MaxRpm
    /\ t.count # 0 =>
          /\ t.ttl \in 1..Window
          /\ grants[k][Window - t.ttl] <= t.count
          /\ grants[k][Window - t.ttl] <= MaxRpm
          /\ grants[k][Window - 1] - grants[k][Window - t.ttl] <= MaxRpm

LimiterInv ==
    /\ LimiterTypeOK /\ GrantsTypeOK
    /\ \A k \in Keys : LogHolds(k)
    /\ limiter = "TokenBucket" => \A k \in Keys : BucketHolds(k)
    /\ limiter = "Redis" => \A k \in Keys : TallyHolds(k)

----------------------------------------------------------------------------
(* Arithmetic, and how the history moves.                                  *)

LEMMA ProductGrows ==
    ASSUME NEW a \in Nat, NEW b \in Nat, NEW c \in Nat, a <= b
    PROVE  /\ a * c <= b * c
           /\ a * c \in Nat /\ b * c \in Nat
<1>1. PICK d \in Nat : b = a + d
    BY SMT
<1>2. b * c = a * c + d * c /\ d * c \in Nat /\ a * c \in Nat
    BY <1>1, SMT
<1> QED
    BY <1>2, SMT

LEMMA ProductNext ==
    ASSUME NEW a \in Int, NEW c \in Int
    PROVE  /\ (a + 1) * c = a * c + c
           /\ (a - 1) * c = a * c - c
           /\ c * (a + 1) = c * a + c
           /\ c * (a - 1) = c * a - c
           /\ a * c \in Int /\ c * a \in Int
BY SMT

LEMMA HistoryOneMore ==
    ASSUME NEW n \in Nat, NEW f \in [0..n -> Nat], Grows(f, n)
    PROVE  /\ OneMore(f) \in [0..n -> Nat]
           /\ Grows(OneMore(f), n)
           /\ \A a \in 0..n : OneMore(f)[a] = f[a] + 1
BY DEF OneMore, Grows

LEMMA HistoryOlder ==
    ASSUME NEW n \in Nat, NEW f \in [0..n -> Nat], Grows(f, n)
    PROVE  /\ Older(f) \in [0..n -> Nat]
           /\ Grows(Older(f), n)
           /\ Older(f)[0] = 0
           /\ \A a \in 1..n : Older(f)[a] = f[a - 1]
           /\ \A a \in 0..n : Older(f)[a] <= f[a]
BY DEF Older, Grows

----------------------------------------------------------------------------
(* The operations on an entry.                                             *)

LEMMA GrantedKeepsTypes ==
    ASSUME GrantsTypeOK, NEW k \in Keys, NEW ok \in BOOLEAN, Granted(k, ok)
    PROVE  /\ GrantsTypeOK'
           /\ \A q \in Keys \ {k} : grants'[q] = grants[q]
           /\ ~ok => grants' = grants
           /\ ok => \A j \in GrantAges : grants'[k][j] = grants[k][j] + 1
<1> USE LimiterAssumption DEF LimiterAssumption
<1>1. Window - 1 \in Nat /\ GrantAges = 0..(Window - 1)
    BY DEF GrantAges
<1>2. CASE ~ok
    BY <1>2 DEF Granted, GrantsTypeOK
<1>3. CASE ok
  <2>1. /\ OneMore(grants[k]) \in [GrantAges -> Nat]
        /\ Grows(OneMore(grants[k]), Window - 1)
        /\ \A j \in GrantAges : OneMore(grants[k])[j] = grants[k][j] + 1
      BY <1>1, HistoryOneMore DEF GrantsTypeOK
  <2>2. grants' = [grants EXCEPT ![k] = OneMore(grants[k])]
      BY <1>3 DEF Granted
  <2> QED
      BY <1>3, <2>1, <2>2 DEF GrantsTypeOK
<1> QED
    BY <1>2, <1>3

\* TokenBucket::try_consume takes from what is available what it grants.
LEMMA TakeTokenKeeps ==
    ASSUME LimiterInv, NEW k \in Keys, NEW rpm \in Rpms, NEW ok \in BOOLEAN,
           TakeToken(k, rpm, ok)
    PROVE  LimiterInv'
<1> USE LimiterAssumption DEF LimiterAssumption
<1>1. PICK b : b = FoundBucket(k, rpm)
    OBVIOUS
<1>2. PICK filled : filled = Available(b)
    OBVIOUS
<1>3. /\ ok <=> filled >= Window
      /\ bucket' = [bucket EXCEPT
            ![k] = [cap |-> b.cap, tokens |-> IF ok THEN filled - Window ELSE filled, idle |-> 0]]
      /\ limiter = "TokenBucket" /\ limiter' = limiter /\ log' = log /\ tally' = tally
      /\ Granted(k, ok)
    BY <1>1, <1>2 DEF TakeToken, Available
<1>4. GrantsTypeOK /\ LimiterTypeOK /\ BucketHolds(k)
    BY <1>3 DEF LimiterInv
<1>5. rpm \in 1..MaxRpm /\ rpm * Window \in Nat /\ rpm * Window <= MaxRpm * Window
    BY ProductGrows
<1>6. b \in [cap : 1..MaxRpm, tokens : 0..(MaxRpm * Window), idle : 0..IdleThreshold]
  <2>1. CASE bucket[k] = NoBucket
      BY <1>1, <1>5, <2>1 DEF FoundBucket
  <2>2. CASE bucket[k] # NoBucket
    <3>1. b = bucket[k] /\ b.cap # 0
        BY <1>1, <1>4, <2>2 DEF FoundBucket, BucketHolds
    <3> QED
        BY <1>4, <3>1 DEF LimiterTypeOK
  <2> QED
      BY <2>1, <2>2
<1>7. /\ b.cap * Window \in Nat /\ b.cap * Window <= MaxRpm * Window
      /\ b.idle * b.cap \in Nat /\ MaxRpm * Window \in Nat
    BY <1>6, ProductGrows
<1>8. filled \in Nat /\ filled <= b.cap * Window
    BY <1>2, <1>6, <1>7 DEF Available, Least
<1>9. /\ bucket'[k] = [cap |-> b.cap, tokens |-> IF ok THEN filled - Window ELSE filled, idle |-> 0]
      /\ \A q \in Keys \ {k} : bucket'[q] = bucket[q]
    BY <1>3, <1>4 DEF LimiterTypeOK
<1>10. LimiterTypeOK'
  <2>1. bucket'[k] \in [cap : 0..MaxRpm, tokens : 0..(MaxRpm * Window), idle : 0..IdleThreshold]
      BY <1>3, <1>6, <1>7, <1>8, <1>9
  <2> QED
      BY <1>3, <1>4, <2>1 DEF LimiterTypeOK
<1>11. /\ GrantsTypeOK'
       /\ \A q \in Keys \ {k} : grants'[q] = grants[q]
       /\ ~ok => grants' = grants
       /\ ok => \A j \in GrantAges : grants'[k][j] = grants[k][j] + 1
    BY <1>3, <1>4, GrantedKeepsTypes
<1>12. \A j \in GrantAges : grants[k][j] * Window + filled <= b.cap * Window + j * b.cap
  <2> TAKE j \in GrantAges
  <2>1. CASE bucket[k] = NoBucket
    <3>1. b = [cap |-> rpm, tokens |-> rpm * Window, idle |-> 0]
        BY <1>1, <2>1 DEF FoundBucket
    <3>2. grants[k][j] = 0
        BY <1>4, <2>1 DEF BucketHolds, NoBucket
    <3>3. j * b.cap \in Nat
        BY <1>6, ProductGrows DEF GrantAges
    <3> QED
        BY <1>7, <1>8, <3>2, <3>3
  <2>2. CASE bucket[k] # NoBucket
    <3>1. b = bucket[k] /\ b.cap # 0
        BY <1>1, <1>4, <2>2 DEF FoundBucket, BucketHolds
    <3> QED
        BY <1>2, <1>4, <3>1 DEF BucketHolds
  <2> QED
      BY <2>1, <2>2
<1>13. BucketHolds(k)'
  <2>1. PICK c : c = bucket'[k]
      OBVIOUS
  <2>2. c.cap = b.cap /\ c.idle = 0 /\ c.tokens = IF ok THEN filled - Window ELSE filled
      BY <1>9, <2>1
  <2>3. Available(c) = c.tokens
      BY <1>6, <1>7, <1>8, <1>3, <2>2 DEF Available, Least
  <2>4. ASSUME NEW j \in GrantAges
        PROVE  grants'[k][j] * Window + Available(c) <= c.cap * Window + j * c.cap
    <3>1. grants[k][j] \in Nat /\ j \in Nat
        BY <1>4 DEF GrantsTypeOK, GrantAges
    <3>2. j * b.cap \in Nat /\ grants[k][j] * Window \in Int
        BY <1>6, <3>1, ProductGrows
    <3>3. CASE ok
      <4>1. grants'[k][j] * Window = grants[k][j] * Window + Window
          BY <1>11, <3>1, <3>3, ProductNext
      <4> QED
          BY <1>7, <1>8, <1>12, <2>2, <2>3, <3>2, <3>3, <4>1
    <3>4. CASE ~ok
        BY <1>11, <1>12, <2>2, <2>3, <3>4
    <3> QED
        BY <3>3, <3>4
  <2>5. BucketHolds(k)' <=>
          /\ c.cap = 0 => c = NoBucket /\ \A j \in GrantAges : grants'[k][j] = 0
          /\ c.cap # 0 =>
                \A j \in GrantAges :
                   /\ grants'[k][j] * Window + Available(c) <= c.cap * Window + j * c.cap
                   /\ j < c.idle => grants'[k][j] = 0
      BY <2>1 DEF BucketHolds, Available, NoBucket, GrantAges
  <2> QED
      BY <1>6, <2>2, <2>4, <2>5 DEF GrantAges
<1>14. \A q \in Keys : BucketHolds(q)'
  <2> TAKE q \in Keys
  <2>1. CASE q = k
      BY <1>13, <2>1
  <2>2. CASE q # k
    <3>1. bucket'[q] = bucket[q] /\ grants'[q] = grants[q] /\ BucketHolds(q)
        BY <1>3, <1>9, <1>11, <2>2 DEF LimiterInv
    <3> QED
        BY <3>1 DEF BucketHolds, Available, NoBucket, GrantAges
  <2> QED
      BY <2>1, <2>2
<1> QED
    BY <1>3, <1>10, <1>11, <1>14 DEF LimiterInv, LogHolds, NoLog, Ages

\* SlidingWindow::try_consume: what is granted is remembered, and counted
\* against the limit before.
LEMMA TakeStampKeeps ==
    ASSUME LimiterInv, NEW k \in Keys, NEW rpm \in Rpms, NEW ok \in BOOLEAN,
           TakeStamp(k, rpm, ok)
    PROVE  LimiterInv'
<1> USE LimiterAssumption DEF LimiterAssumption
<1>1. PICK w : w = IF log[k] = NoLog THEN [NoLog EXCEPT !.limit = rpm] ELSE log[k]
    OBVIOUS
<1>2. /\ limiter = "SlidingWindow" /\ limiter' = limiter /\ bucket' = bucket /\ tally' = tally
      /\ ok <=> w.within[Window] + 1 <= w.limit
      /\ log' = [log EXCEPT ![k] = IF ok THEN [w EXCEPT !.within = OneMore(@)] ELSE w]
      /\ Granted(k, ok)
    BY <1>1 DEF TakeStamp
<1>3. GrantsTypeOK /\ LimiterTypeOK /\ LogHolds(k)
    BY DEF LimiterInv
<1>4. /\ w \in [limit : 1..MaxRpm, within : [Ages -> 0..MaxRpm]]
      /\ Grows(w.within, Window) /\ w.within[Window] <= w.limit
      /\ \A j \in GrantAges : grants[k][j] = w.within[j]
  <2>1. CASE log[k] = NoLog
    <3>1. w = [limit |-> rpm, within |-> [a \in Ages |-> 0]]
        BY <1>1, <2>1 DEF NoLog
    <3>2. \A j \in GrantAges : j \in Ages /\ grants[k][j] = 0
        BY <1>2, <1>3, <2>1 DEF NoLog, LogHolds, GrantAges, Ages
    <3>3. Window \in Ages /\ rpm \in 1..MaxRpm /\ 0 \in 0..MaxRpm
        BY DEF Ages
    <3> QED
        BY <3>1, <3>2, <3>3 DEF Grows, Ages
  <2>2. CASE log[k] # NoLog
      BY <1>1, <1>2, <1>3, <2>2 DEF LogHolds, LimiterTypeOK, Ages
  <2> QED
      BY <2>1, <2>2
<1>5. PICK v : v = log'[k]
    OBVIOUS
<1>6. /\ v = IF ok THEN [w EXCEPT !.within = OneMore(@)] ELSE w
      /\ \A q \in Keys \ {k} : log'[q] = log[q]
    BY <1>2, <1>3, <1>5 DEF LimiterTypeOK
<1>7. /\ v \in [limit : 1..MaxRpm, within : [Ages -> 0..MaxRpm]]
      /\ Grows(v.within, Window) /\ v.within[Window] <= v.limit
      /\ ok => \A j \in Ages : v.within[j] = w.within[j] + 1
      /\ ~ok => v = w
  <2>1. CASE ok
    <3>1. /\ OneMore(w.within) \in [Ages -> Nat]
          /\ Grows(OneMore(w.within), Window)
          /\ \A j \in Ages : OneMore(w.within)[j] = w.within[j] + 1
        BY <1>4, HistoryOneMore DEF Ages
    <3>2. v = [limit |-> w.limit, within |-> OneMore(w.within)]
        BY <1>4, <1>6, <2>1
    <3>3. \A j \in Ages : w.within[j] + 1 <= MaxRpm
        BY <1>2, <1>4, <2>1 DEF Grows, Ages
    <3>4. OneMore(w.within) \in [Ages -> 0..MaxRpm]
        BY <1>4, <3>1, <3>3
    <3> QED
        BY <1>2, <1>4, <2>1, <3>1, <3>2, <3>4 DEF Ages
  <2>2. CASE ~ok
      BY <1>4, <1>6, <2>2
  <2> QED
      BY <2>1, <2>2
<1>8. LimiterTypeOK'
  <2>1. v \in [limit : 0..MaxRpm, within : [Ages -> 0..MaxRpm]]
      BY <1>7
  <2> QED
      BY <1>2, <1>3, <1>5, <1>6, <2>1 DEF LimiterTypeOK, Ages
<1>9. /\ GrantsTypeOK'
      /\ \A q \in Keys \ {k} : grants'[q] = grants[q]
      /\ ~ok => grants' = grants
      /\ ok => \A j \in GrantAges : grants'[k][j] = grants[k][j] + 1
    BY <1>2, <1>3, GrantedKeepsTypes
<1>10. \A q \in Keys : LogHolds(q)'
  <2> TAKE q \in Keys
  <2>1. CASE q = k
    <3>1. \A j \in GrantAges : grants'[k][j] = v.within[j]
      <4>1. \A j \in GrantAges : j \in Ages
          BY DEF GrantAges, Ages
      <4> QED
          BY <1>4, <1>7, <1>9, <4>1
    <3> QED
        BY <1>5, <1>7, <2>1, <3>1 DEF LogHolds, Grows, GrantAges
  <2>2. CASE q # k
    <3>1. log'[q] = log[q] /\ grants'[q] = grants[q] /\ LogHolds(q)
        BY <1>6, <1>9, <2>2 DEF LimiterInv
    <3> QED
        BY <1>2, <3>1 DEF LogHolds, Grows, NoLog, Ages, GrantAges
  <2> QED
      BY <2>1, <2>2
<1> QED
    BY <1>2, <1>8, <1>9, <1>10 DEF LimiterInv

\* LUA_CHECK, whether its answer grants the request, refuses it or is lost.
LEMMA RunCheckKeeps ==
    ASSUME LimiterInv, NEW k \in Keys, NEW ok \in BOOLEAN,
           limiter = "Redis", RunCheckScript(k),
           ok => tally'[k].count <= MaxRpm,
           Granted(k, ok), UNCHANGED <<limiter, bucket, log>>
    PROVE  LimiterInv'
<1> USE LimiterAssumption DEF LimiterAssumption
<1>1. GrantsTypeOK /\ LimiterTypeOK /\ TallyHolds(k)
    BY DEF LimiterInv
<1>2. PICK t : t = tally[k]
    OBVIOUS
<1>3. PICK u : u = tally'[k]
    OBVIOUS
<1>4. /\ u = [count |-> IF t.count > MaxRpm THEN t.count ELSE t.count + 1,
              ttl |-> IF t.count = 0 THEN Window ELSE t.ttl]
      /\ \A q \in Keys \ {k} : tally'[q] = tally[q]
    BY <1>1, <1>2, <1>3 DEF RunCheckScript, LimiterTypeOK
<1>5. t \in [count : 0..(MaxRpm + 1), ttl : 0..Window]
    BY <1>1, <1>2 DEF LimiterTypeOK
<1>6. u \in [count : 1..(MaxRpm + 1), ttl : 1..Window]
    BY <1>1, <1>2, <1>4, <1>5 DEF TallyHolds
<1>7. LimiterTypeOK'
  <2>1. u \in [count : 0..(MaxRpm + 1), ttl : 0..Window]
      BY <1>6
  <2> QED
      BY <1>1, <1>3, <1>4, <2>1 DEF LimiterTypeOK, Ages, RunCheckScript
<1>8. /\ GrantsTypeOK'
      /\ \A q \in Keys \ {k} : grants'[q] = grants[q]
      /\ ~ok => grants' = grants
      /\ ok => \A j \in GrantAges : grants'[k][j] = grants[k][j] + 1
    BY <1>1, GrantedKeepsTypes
<1>9. PICK g : g = grants[k]
    OBVIOUS
<1>10. PICK h : h = grants'[k]
    OBVIOUS
<1>11. /\ g \in [GrantAges -> Nat] /\ h \in [GrantAges -> Nat]
       /\ ~ok => h = g
       /\ ok => \A j \in GrantAges : h[j] = g[j] + 1
    BY <1>1, <1>8, <1>9, <1>10 DEF GrantsTypeOK
<1>12. /\ h[Window - u.ttl] <= u.count
       /\ h[Window - u.ttl] <= MaxRpm
       /\ h[Window - 1] - h[Window - u.ttl] <= MaxRpm
  <2>1. Window - u.ttl \in GrantAges /\ Window - 1 \in GrantAges /\ 0 \in GrantAges
      BY <1>6 DEF GrantAges
  <2>2. CASE t.count = 0
    <3>1. g[0] = 0 /\ g[Window - 1] <= MaxRpm
        BY <1>1, <1>2, <1>9, <2>2 DEF TallyHolds
    <3>2. Window - u.ttl = 0 /\ u.count = 1
        BY <1>4, <2>2
    <3> QED
        BY <1>3, <1>11, <2>1, <3>1, <3>2
  <2>3. CASE t.count # 0
    <3>1. /\ g[Window - t.ttl] <= t.count
          /\ g[Window - t.ttl] <= MaxRpm
          /\ g[Window - 1] - g[Window - t.ttl] <= MaxRpm
        BY <1>1, <1>2, <1>9, <2>3 DEF TallyHolds
    <3>2. u.ttl = t.ttl /\ u.count = IF t.count > MaxRpm THEN t.count ELSE t.count + 1
        BY <1>4, <2>3
    <3>3. ok => u.count <= MaxRpm /\ u.count = t.count + 1
        BY <1>3, <1>5, <3>2
    <3>4. g[Window - u.ttl] \in Nat /\ g[Window - 1] \in Nat
        BY <1>11, <2>1
    <3> QED
        BY <1>5, <1>11, <2>1, <3>1, <3>2, <3>3, <3>4
  <2> QED
      BY <2>2, <2>3
<1>13. \A q \in Keys : TallyHolds(q)'
  <2> TAKE q \in Keys
  <2>1. CASE q = k
      BY <1>3, <1>6, <1>10, <1>12, <2>1 DEF TallyHolds
  <2>2. CASE q # k
    <3>1. tally'[q] = tally[q] /\ grants'[q] = grants[q] /\ TallyHolds(q)
        BY <1>4, <1>8, <2>2 DEF LimiterInv
    <3> QED
        BY <3>1 DEF TallyHolds, NoTally
  <2> QED
      BY <2>1, <2>2
<1>14. \A q \in Keys : LogHolds(q)'
    BY DEF LimiterInv, LogHolds, Grows, NoLog, Ages
<1> QED
    BY <1>7, <1>8, <1>13, <1>14 DEF LimiterInv

----------------------------------------------------------------------------
(* The worker and the clock.                                               *)

\* An entry that is dropped has no grant within the window: IdleThreshold is
\* no less than Window.
LEMMA CleanupKeeps ==
    ASSUME LimiterInv, Cleanup
    PROVE  LimiterInv'
<1> USE LimiterAssumption DEF LimiterAssumption
<1>1. /\ bucket' = [k \in Keys |-> IF Idle(k) THEN NoBucket ELSE bucket[k]]
      /\ log' = [k \in Keys |-> IF Idle(k) THEN NoLog ELSE log[k]]
      /\ limiter' = limiter /\ tally' = tally /\ grants' = grants
    BY DEF Cleanup
<1>2. LimiterTypeOK /\ GrantsTypeOK
    BY DEF LimiterInv
<1>3. LimiterTypeOK'
  <2>1. NoBucket \in [cap : 0..MaxRpm, tokens : 0..(MaxRpm * Window), idle : 0..IdleThreshold]
    <3>1. MaxRpm * Window \in Nat
        BY ProductGrows
    <3> QED
        BY <3>1 DEF NoBucket
  <2>2. NoLog \in [limit : 0..MaxRpm, within : [Ages -> 0..MaxRpm]]
      BY DEF NoLog
  <2> QED
      BY <1>1, <1>2, <2>1, <2>2 DEF LimiterTypeOK, Ages
<1>4. GrantsTypeOK'
    BY <1>1, <1>2 DEF GrantsTypeOK, GrantAges, Grows
<1>5. \A k \in Keys : LogHolds(k)'
  <2> TAKE k \in Keys
  <2>1. LogHolds(k)
      BY DEF LimiterInv
  <2>2. CASE ~Idle(k)
      BY <1>1, <2>1, <2>2 DEF LogHolds, Grows, NoLog, Ages, GrantAges
  <2>3. CASE Idle(k)
    <3>1. log'[k] = NoLog
        BY <1>1, <2>3
    <3>2. ASSUME limiter = "SlidingWindow", NEW j \in GrantAges
          PROVE  grants[k][j] = 0
      <4>1. j \in Ages /\ j < IdleThreshold
          BY DEF GrantAges, Ages
      <4> QED
          BY <2>1, <2>3, <3>2, <4>1 DEF Idle, LogHolds
    <3> QED
        BY <1>1, <3>1, <3>2 DEF LogHolds, Grows, NoLog, Ages, GrantAges
  <2> QED
      BY <2>2, <2>3
<1>6. ASSUME limiter = "TokenBucket", NEW k \in Keys
      PROVE  BucketHolds(k)'
  <2>1. BucketHolds(k)
      BY <1>6 DEF LimiterInv
  <2>2. CASE ~Idle(k)
    <3>1. bucket'[k] = bucket[k]
        BY <1>1, <2>2
    <3> QED
        BY <1>1, <2>1, <3>1 DEF BucketHolds, Available, NoBucket, GrantAges
  <2>3. CASE Idle(k)
    <3>1. bucket'[k] = NoBucket
        BY <1>1, <2>3
    <3>2. bucket[k].idle >= IdleThreshold
        BY <1>6, <2>3 DEF Idle
    <3>3. \A j \in GrantAges : grants[k][j] = 0
        BY <1>2, <2>1, <3>2 DEF BucketHolds, GrantAges, LimiterTypeOK
    <3> QED
        BY <1>1, <3>1, <3>3 DEF BucketHolds, NoBucket, GrantAges
  <2> QED
      BY <2>2, <2>3
<1>7. limiter = "Redis" => \A k \in Keys : TallyHolds(k)'
    BY <1>1 DEF LimiterInv, TallyHolds, NoTally
<1> QED
    BY <1>1, <1>3, <1>4, <1>5, <1>6, <1>7 DEF LimiterInv

\* A tick refills the buckets by no more than it lets grants age, and ends a
\* fixed window only when the one before it is out of sight.
LEMMA TickKeeps ==
    ASSUME LimiterInv, Tick
    PROVE  LimiterInv'
<1> USE LimiterAssumption DEF LimiterAssumption
<1>1. /\ bucket' = [k \in Keys |->
            IF bucket[k] = NoBucket \/ bucket[k].idle = IdleThreshold THEN bucket[k]
            ELSE [bucket[k] EXCEPT !.idle = @ + 1]]
      /\ log' = [k \in Keys |-> [log[k] EXCEPT !.within = Older(@)]]
      /\ tally' = [k \in Keys |->
            IF tally[k].ttl <= 1 THEN NoTally ELSE [tally[k] EXCEPT !.ttl = @ - 1]]
      /\ grants' = [k \in Keys |-> Older(grants[k])]
      /\ limiter' = limiter
    BY DEF Tick
<1>2. LimiterTypeOK /\ GrantsTypeOK
    BY DEF LimiterInv
<1>3. ASSUME NEW k \in Keys
      PROVE  /\ grants'[k] \in [GrantAges -> Nat]
             /\ Grows(grants'[k], Window - 1)
             /\ grants'[k][0] = 0
             /\ \A j \in 1..(Window - 1) : grants'[k][j] = grants[k][j - 1]
  <2>1. Window - 1 \in Nat /\ GrantAges = 0..(Window - 1)
      BY DEF GrantAges
  <2> QED
      BY <1>1, <1>2, <1>3, <2>1, HistoryOlder DEF GrantsTypeOK
<1>4. GrantsTypeOK'
    BY <1>1, <1>3 DEF GrantsTypeOK, GrantAges, Grows
<1>5. ASSUME NEW k \in Keys
      PROVE  \E w, o :
             /\ log[k] = [limit |-> log[k].limit, within |-> w]
             /\ log'[k] = [limit |-> log[k].limit, within |-> o]
             /\ log[k].limit \in 0..MaxRpm
             /\ w \in [Ages -> 0..MaxRpm] /\ o \in [Ages -> 0..MaxRpm]
             /\ Grows(o, Window)
             /\ o[0] = 0
             /\ \A j \in 1..Window : o[j] = w[j - 1]
             /\ \A j \in Ages : o[j] <= w[j]
  <2>1. PICK w : w = log[k].within
      OBVIOUS
  <2>2. PICK o : o = Older(w)
      OBVIOUS
  <2>3. /\ log[k] \in [limit : 0..MaxRpm, within : [Ages -> 0..MaxRpm]]
        /\ log[k] = [limit |-> log[k].limit, within |-> w]
        /\ w \in [Ages -> 0..MaxRpm]
      BY <1>2, <2>1 DEF LimiterTypeOK
  <2>4. w \in [0..Window -> Nat]
      BY <2>3 DEF Ages
  <2>5. Grows(w, Window)
      BY <2>1 DEF LimiterInv, LogHolds
  <2>6. /\ o \in [0..Window -> Nat]
        /\ Grows(o, Window)
        /\ o[0] = 0
        /\ \A j \in 1..Window : o[j] = w[j - 1]
        /\ \A j \in 0..Window : o[j] <= w[j]
      BY <2>2, <2>4, <2>5, HistoryOlder
  <2>7. \A j \in Ages : o[j] \in 0..MaxRpm
      BY <2>3, <2>6 DEF Ages
  <2>8. o \in [Ages -> 0..MaxRpm]
      BY <2>6, <2>7 DEF Ages
  <2>9. log'[k] = [limit |-> log[k].limit, within |-> o]
      BY <1>1, <2>2, <2>3
  <2> QED
      BY <2>3, <2>6, <2>8, <2>9 DEF Ages
<1>6. LimiterTypeOK'
  <2>1. bucket' \in [Keys -> [cap : 0..MaxRpm, tokens : 0..(MaxRpm * Window), idle : 0..IdleThreshold]]
    <3>1. ASSUME NEW k \in Keys
          PROVE  bucket'[k] \in [cap : 0..MaxRpm, tokens : 0..(MaxRpm * Window), idle : 0..IdleThreshold]
      <4>1. PICK b : b = bucket[k]
          OBVIOUS
      <4>2. b \in [cap : 0..MaxRpm, tokens : 0..(MaxRpm * Window), idle : 0..IdleThreshold]
          BY <1>2, <4>1 DEF LimiterTypeOK
      <4>3. bucket'[k] = IF b = NoBucket \/ b.idle = IdleThreshold THEN b
                         ELSE [cap |-> b.cap, tokens |-> b.tokens, idle |-> b.idle + 1]
          BY <1>1, <4>1, <4>2
      <4> QED
          BY <4>2, <4>3
    <3> QED
        BY <1>1, <3>1
  <2>2. log' \in [Keys -> [limit : 0..MaxRpm, within : [Ages -> 0..MaxRpm]]]
    <3>1. ASSUME NEW k \in Keys
          PROVE  log'[k] \in [limit : 0..MaxRpm, within : [Ages -> 0..MaxRpm]]
      <4>1. PICK o : /\ o \in [Ages -> 0..MaxRpm]
                     /\ log'[k] = [limit |-> log[k].limit, within |-> o]
                     /\ log[k].limit \in 0..MaxRpm
          BY <1>5
      <4> QED
          BY <4>1
    <3> QED
        BY <1>1, <3>1
  <2>3. tally' \in [Keys -> [count : 0..(MaxRpm + 1), ttl : 0..Window]]
    <3>1. ASSUME NEW k \in Keys
          PROVE  tally'[k] \in [count : 0..(MaxRpm + 1), ttl : 0..Window]
      <4>1. PICK t : t = tally[k]
          OBVIOUS
      <4>2. t \in [count : 0..(MaxRpm + 1), ttl : 0..Window]
          BY <1>2, <4>1 DEF LimiterTypeOK
      <4>3. tally'[k] = IF t.ttl <= 1 THEN [count |-> 0, ttl |-> 0]
                        ELSE [count |-> t.count, ttl |-> t.ttl - 1]
          BY <1>1, <4>1, <4>2 DEF NoTally
      <4> QED
          BY <4>2, <4>3
    <3> QED
        BY <1>1, <3>1
  <2> QED
      BY <1>1, <1>2, <2>1, <2>2, <2>3 DEF LimiterTypeOK, Ages
<1>7. ASSUME NEW k \in Keys
      PROVE  LogHolds(k)'
  <2>1. LogHolds(k)
      BY DEF LimiterInv
  <2>2. PICK w, o :
             /\ log[k] = [limit |-> log[k].limit, within |-> w]
             /\ log'[k] = [limit |-> log[k].limit, within |-> o]
             /\ log[k].limit \in 0..MaxRpm
             /\ w \in [Ages -> 0..MaxRpm] /\ o \in [Ages -> 0..MaxRpm]
             /\ Grows(o, Window)
             /\ o[0] = 0
             /\ \A j \in 1..Window : o[j] = w[j - 1]
             /\ \A j \in Ages : o[j] <= w[j]
      BY <1>5
  <2>3. log'[k].limit = log[k].limit /\ log'[k].within = o /\ log[k].within = w
      BY <2>2
  <2>4. log'[k].limit = 0 => log'[k] = NoLog
    <3>1. ASSUME log[k] = NoLog
          PROVE  o = [a \in Ages |-> 0]
      <4>1. \A a \in Ages : w[a] = 0
          BY <2>3, <3>1 DEF NoLog
      <4>2. \A a \in Ages : o[a] = 0
          BY <2>2, <4>1
      <4> QED
          BY <2>2, <4>2
    <3> QED
        BY <2>1, <2>2, <2>3, <3>1 DEF LogHolds, NoLog
  <2>5. o[Window] <= log[k].limit
    <3>1. Window \in Ages
        BY DEF Ages
    <3>2. w[Window] <= log[k].limit
        BY <2>1, <2>3 DEF LogHolds
    <3> QED
        BY <2>2, <3>1, <3>2
  <2>6. ASSUME limiter = "SlidingWindow", NEW j \in GrantAges
        PROVE  grants'[k][j] = o[j]
    <3>1. CASE j = 0
        BY <1>3, <2>2, <3>1
    <3>2. CASE j # 0
      <4>1. j \in 1..(Window - 1) /\ j \in 1..Window /\ j - 1 \in GrantAges
          BY <3>2 DEF GrantAges
      <4>2. grants[k][j - 1] = w[j - 1]
          BY <2>1, <2>3, <2>6, <4>1 DEF LogHolds
      <4> QED
          BY <1>3, <2>2, <4>1, <4>2
    <3> QED
        BY <3>1, <3>2
  <2> QED
      BY <1>1, <2>2, <2>3, <2>4, <2>5, <2>6 DEF LogHolds, NoLog, Grows, Ages, GrantAges
<1>8. ASSUME limiter = "TokenBucket", NEW k \in Keys
      PROVE  BucketHolds(k)'
  <2>1. BucketHolds(k)
      BY <1>8 DEF LimiterInv
  <2>2. PICK b : b = bucket[k]
      OBVIOUS
  <2>3. PICK c : c = bucket'[k]
      OBVIOUS
  <2>4. /\ b \in [cap : 0..MaxRpm, tokens : 0..(MaxRpm * Window), idle : 0..IdleThreshold]
        /\ b.cap = 0 => b = NoBucket /\ \A j \in GrantAges : grants[k][j] = 0
        /\ b.cap # 0 => \A j \in GrantAges :
               /\ grants[k][j] * Window + Available(b) <= b.cap * Window + j * b.cap
               /\ j < b.idle => grants[k][j] = 0
        /\ c = IF b = NoBucket \/ b.idle = IdleThreshold THEN b
               ELSE [cap |-> b.cap, tokens |-> b.tokens, idle |-> b.idle + 1]
      BY <1>1, <1>2, <2>1, <2>2, <2>3 DEF BucketHolds, LimiterTypeOK
  <2>5. \A j \in GrantAges : grants'[k][j] \in Nat /\ (j # 0 => j - 1 \in GrantAges)
      BY <1>3 DEF GrantAges
  <2>6. b.cap * Window \in Nat /\ b.idle * b.cap \in Nat /\ b.tokens \in Nat /\ b.cap \in Nat
    <3>1. b.cap \in Nat /\ b.idle \in Nat
        BY <2>4
    <3> QED
        BY <2>4, <3>1, ProductNext, ProductGrows
  <2>7. ASSUME b.cap # 0
        PROVE  /\ Available(c) \in Nat /\ Available(c) <= b.cap * Window
               /\ Available(c) <= Available(b) + b.cap
    <3>1. CASE b.idle = IdleThreshold
      <4>1. c = b
          BY <2>4, <3>1
      <4> QED
          BY <2>6, <4>1 DEF Available, Least
    <3>2. CASE b.idle # IdleThreshold
      <4>1. c = [cap |-> b.cap, tokens |-> b.tokens, idle |-> b.idle + 1]
          BY <2>4, <2>7, <3>2 DEF NoBucket
      <4>2. (b.idle + 1) * b.cap = b.idle * b.cap + b.cap
          BY <2>4, ProductNext
      <4> QED
          BY <2>6, <4>1, <4>2 DEF Available, Least
    <3> QED
        BY <3>1, <3>2
  <2>8. c.cap = b.cap
      BY <2>4
  <2>9. ASSUME c.cap = 0
        PROVE  c = NoBucket /\ \A j \in GrantAges : grants'[k][j] = 0
    <3>1. b = NoBucket /\ c = b /\ \A j \in GrantAges : grants[k][j] = 0
        BY <2>4, <2>8, <2>9
    <3>2. \A j \in GrantAges : j = 0 \/ (j \in 1..(Window - 1) /\ j - 1 \in GrantAges)
        BY DEF GrantAges
    <3> QED
        BY <1>3, <3>1, <3>2
  <2>10. ASSUME c.cap # 0, NEW j \in GrantAges
         PROVE  /\ grants'[k][j] * Window + Available(c) <= c.cap * Window + j * c.cap
                /\ j < c.idle => grants'[k][j] = 0
    <3>1. CASE j = 0
        BY <1>3, <2>6, <2>7, <2>8, <2>10, <3>1
    <3>2. CASE j # 0
      <4>1. j - 1 \in GrantAges /\ j \in 1..(Window - 1) /\ grants'[k][j] = grants[k][j - 1]
          BY <1>3, <3>2 DEF GrantAges
      <4>2. /\ grants[k][j - 1] * Window + Available(b) <= b.cap * Window + (j - 1) * b.cap
            /\ j - 1 < b.idle => grants[k][j - 1] = 0
          BY <2>4, <2>8, <2>10, <4>1
      <4>3. (j - 1) * b.cap = j * b.cap - b.cap /\ j * b.cap \in Int
          BY <2>6, <4>1, ProductNext
      <4>4. grants[k][j - 1] * Window \in Int
          BY <2>5, <4>1, ProductNext
      <4>5. Available(b) \in Int
          BY <2>6 DEF Available, Least
      <4>6. grants'[k][j] * Window + Available(c) <= c.cap * Window + j * c.cap
          BY <2>6, <2>7, <2>8, <2>10, <4>1, <4>2, <4>3, <4>4, <4>5
      <4>7. j < c.idle => j - 1 < b.idle
          BY <2>4, <4>1
      <4> QED
          BY <4>1, <4>2, <4>6, <4>7
    <3> QED
        BY <3>1, <3>2
  <2>11. BucketHolds(k)' <=>
          /\ c.cap = 0 => c = NoBucket /\ \A j \in GrantAges : grants'[k][j] = 0
          /\ c.cap # 0 =>
                \A j \in GrantAges :
                   /\ grants'[k][j] * Window + Available(c) <= c.cap * Window + j * c.cap
                   /\ j < c.idle => grants'[k][j] = 0
      BY <2>3 DEF BucketHolds, Available, NoBucket, GrantAges
  <2> QED
      BY <2>9, <2>10, <2>11
<1>9. ASSUME limiter = "Redis", NEW k \in Keys
      PROVE  TallyHolds(k)'
  <2>1. TallyHolds(k)
      BY <1>9 DEF LimiterInv
  <2>2. PICK t : t = tally[k]
      OBVIOUS
  <2>3. PICK u : u = tally'[k]
      OBVIOUS
  <2>4. PICK g : g = grants[k]
      OBVIOUS
  <2>5. PICK h : h = grants'[k]
      OBVIOUS
  <2>6. /\ t \in [count : 0..(MaxRpm + 1), ttl : 0..Window]
        /\ u = IF t.ttl <= 1 THEN NoTally ELSE [count |-> t.count, ttl |-> t.ttl - 1]
        /\ t.count = 0 => t = NoTally /\ g[0] = 0 /\ g[Window - 1] <= MaxRpm
        /\ t.count # 0 =>
              /\ t.ttl \in 1..Window
              /\ g[Window - t.ttl] <= t.count
              /\ g[Window - t.ttl] <= MaxRpm
              /\ g[Window - 1] - g[Window - t.ttl] <= MaxRpm
      BY <1>1, <1>2, <2>1, <2>2, <2>3, <2>4 DEF TallyHolds, LimiterTypeOK
  <2>7. /\ g \in [GrantAges -> Nat] /\ h \in [GrantAges -> Nat] /\ h[0] = 0
        /\ \A a \in GrantAges, b \in GrantAges : a <= b => g[a] <= g[b]
        /\ \A j \in 1..(Window - 1) : h[j] = g[j - 1]
      BY <1>2, <1>3, <2>4, <2>5 DEF GrantsTypeOK, Grows, GrantAges
  <2>8. h[Window - 1] <= g[Window - 1]
    <3>1. CASE Window = 1
        BY <2>7, <3>1 DEF GrantAges
    <3>2. CASE Window # 1
      <4>1. Window - 1 \in 1..(Window - 1) /\ Window - 2 \in GrantAges /\ Window - 1 \in GrantAges
          BY <3>2 DEF GrantAges
      <4> QED
          BY <2>7, <4>1
    <3> QED
        BY <3>1, <3>2
  <2>9. /\ u.count = 0 => u = NoTally /\ h[0] = 0 /\ h[Window - 1] <= MaxRpm
        /\ u.count # 0 =>
              /\ u.ttl \in 1..Window
              /\ h[Window - u.ttl] <= u.count
              /\ h[Window - u.ttl] <= MaxRpm
              /\ h[Window - 1] - h[Window - u.ttl] <= MaxRpm
    <3>1. Window - 1 \in GrantAges /\ h[Window - 1] \in Nat /\ g[Window - 1] \in Nat
        BY <2>7 DEF GrantAges
    <3>2. CASE t.ttl <= 1
      <4>1. u = NoTally
          BY <2>6, <3>2
      <4>2. g[Window - 1] <= MaxRpm
        <5>1. t.count # 0 => t.ttl = 1
            BY <2>6, <3>2
        <5> QED
            BY <2>6, <5>1
      <4> QED
          BY <2>7, <2>8, <3>1, <4>1, <4>2 DEF NoTally
    <3>3. CASE t.ttl > 1
      <4>1. t.count # 0 /\ t.ttl \in 2..Window
          BY <2>6, <3>3 DEF NoTally
      <4>2. u.count = t.count /\ u.ttl = t.ttl - 1
          BY <2>6, <3>3
      <4>3. /\ Window - u.ttl \in 1..(Window - 1)
            /\ (Window - u.ttl) - 1 = Window - t.ttl
            /\ Window - t.ttl \in GrantAges
          BY <4>1, <4>2 DEF GrantAges
      <4>4. h[Window - u.ttl] = g[Window - t.ttl] /\ g[Window - t.ttl] \in Nat
          BY <2>7, <4>3
      <4> QED
          BY <2>6, <2>8, <3>1, <4>1, <4>2, <4>4
    <3> QED
        BY <2>6, <3>2, <3>3
  <2> QED
      BY <2>3, <2>5, <2>9 DEF TallyHolds, NoTally
<1> QED
    BY <1>1, <1>4, <1>6, <1>7, <1>8, <1>9 DEF LimiterInv

----------------------------------------------------------------------------
(* The limiter in the proxy handler.                                       *)

LEMMA LimiterStarts ==
    ASSUME LimiterInit
    PROVE  LimiterInv
<1> USE LimiterAssumption DEF LimiterAssumption
<1>1. /\ bucket = [k \in Keys |-> NoBucket]
      /\ log = [k \in Keys |-> NoLog]
      /\ tally = [k \in Keys |-> NoTally]
      /\ grants = [k \in Keys |-> [a \in GrantAges |-> 0]]
      /\ limiter \in Limiters
    BY DEF LimiterInit, GrantAges
<1>2. LimiterTypeOK
  <2>1. MaxRpm * Window \in Nat
      BY ProductGrows
  <2>2. NoBucket \in [cap : 0..MaxRpm, tokens : 0..(MaxRpm * Window), idle : 0..IdleThreshold]
      BY <2>1 DEF NoBucket
  <2>3. NoLog \in [limit : 0..MaxRpm, within : [Ages -> 0..MaxRpm]]
      BY DEF NoLog
  <2>4. NoTally \in [count : 0..(MaxRpm + 1), ttl : 0..Window]
      BY DEF NoTally
  <2> QED
      BY <1>1, <2>2, <2>3, <2>4 DEF LimiterTypeOK
<1>3. GrantsTypeOK
    BY <1>1 DEF GrantsTypeOK, Grows, GrantAges
<1>4. \A k \in Keys : LogHolds(k)
    BY <1>1 DEF LogHolds, NoLog, Grows, Ages, GrantAges
<1>5. \A k \in Keys : BucketHolds(k)
    BY <1>1 DEF BucketHolds, NoBucket
<1>6. \A k \in Keys : TallyHolds(k)
    BY <1>1 DEF TallyHolds, NoTally, GrantAges
<1> QED
    BY <1>2, <1>3, <1>4, <1>5, <1>6 DEF LimiterInv

LEMMA LimiterUnchanged ==
    ASSUME LimiterInv, UNCHANGED limiterVars
    PROVE  LimiterInv'
<1>1. /\ limiter' = limiter /\ bucket' = bucket /\ log' = log
      /\ tally' = tally /\ grants' = grants
    BY DEF limiterVars
<1> QED
    BY <1>1 DEF LimiterInv, LimiterTypeOK, GrantsTypeOK, LogHolds, BucketHolds, TallyHolds,
                Grows, NoLog, NoBucket, NoTally, Available, Ages, GrantAges

\* Every request passes a limit of its own or the default.
LEMMA LimitsKnown ==
    ASSUME NEW r \in Requests
    PROVE  Rpm(r) \in Rpms /\ LimitKey[r] \in Keys
BY ProxyAssumption DEF ProxyAssumption, Rpm

LEMMA LimiterStep ==
    ASSUME LimiterInv, [Next]_vars
    PROVE  LimiterInv'
<1>1. ASSUME NEW r \in Requests, CheckLimit(r)
      PROVE  LimiterInv'
    BY <1>1, LimitsKnown, TakeTokenKeeps, TakeStampKeeps DEF CheckLimit
<1>2. ASSUME NEW r \in Requests, RunScript(r)
      PROVE  LimiterInv'
  <2>1. PICK ok \in BOOLEAN : TakeCount(LimitKey[r], Rpm(r), ok)
      BY <1>2 DEF RunScript
  <2>2. Rpm(r) \in 1..MaxRpm /\ MaxRpm \in Nat
      BY LimitsKnown, LimiterAssumption DEF LimiterAssumption
  <2>3. tally'[LimitKey[r]].count \in Nat
    <3>1. tally \in [Keys -> [count : 0..(MaxRpm + 1), ttl : 0..Window]]
        BY DEF LimiterInv, LimiterTypeOK
    <3> QED
        BY <2>1, <2>2, <3>1, LimitsKnown DEF TakeCount, RunCheckScript
  <2>4. ok => tally'[LimitKey[r]].count <= MaxRpm
      BY <2>1, <2>2, <2>3 DEF TakeCount
  <2> QED
      BY <2>1, <2>4, LimitsKnown, RunCheckKeeps DEF TakeCount
<1>3. ASSUME NEW r \in Requests, ScriptFails(r)
      PROVE  LimiterInv'
  <2>1. CASE LoseCount(LimitKey[r])
      BY <2>1, LimitsKnown, RunCheckKeeps DEF LoseCount, Granted
  <2>2. CASE UNCHANGED limiterVars
      BY <2>2, LimiterUnchanged
  <2> QED
      BY <1>3, <2>1, <2>2 DEF ScriptFails
<1>4. ASSUME NEW r \in Requests,
             Begin(r) \/ CheckBudget(r) \/ Refuse(r) \/ Answered(r) \/ Failed(r)
                \/ AddSpend(r) \/ ExpireSpend(r) \/ Cancel(r)
      PROVE  UNCHANGED limiterVars
    BY <1>4 DEF Begin, CheckBudget, Refuse, Answered, Failed, AddSpend, ExpireSpend, Cancel
<1>5. Seconds => LimiterInv'
    BY TickKeeps DEF Seconds
<1>6. CleanupWorker => LimiterInv'
    BY CleanupKeeps DEF CleanupWorker
<1>7. Days => UNCHANGED limiterVars
    BY DEF Days
<1>8. UNCHANGED vars => UNCHANGED limiterVars
    BY DEF vars
<1>9. ASSUME NEW p \in Periods, RedisDeletes(p) PROVE UNCHANGED limiterVars
    BY <1>9 DEF RedisDeletes
<1> QED
    BY <1>1, <1>2, <1>3, <1>4, <1>5, <1>6, <1>7, <1>8, <1>9, LimiterUnchanged DEF Next, Run

LEMMA LimiterBounds ==
    ASSUME LimiterInv
    PROVE  GrantsBounded
<1> USE LimiterAssumption DEF LimiterAssumption
<1>1. SUFFICES ASSUME NEW k \in Keys
               PROVE  LET n == grants[k][Window - 1]
                      IN  /\ limiter = "SlidingWindow" => n <= MaxRpm
                          /\ limiter = "TokenBucket" => n * Window <= MaxRpm * (2 * Window - 1)
                          /\ limiter = "Redis" => n <= 2 * MaxRpm
  <2>1. limiter \in {"TokenBucket", "SlidingWindow", "Redis"}
      BY DEF LimiterInv, LimiterTypeOK
  <2> QED
      BY <2>1 DEF GrantsBounded
<1>2. LimiterTypeOK /\ GrantsTypeOK
    BY DEF LimiterInv
<1>3. PICK n : n = grants[k][Window - 1]
    OBVIOUS
<1>4. n \in Nat /\ Window - 1 \in GrantAges /\ Window - 1 \in Ages
    BY <1>2, <1>3 DEF GrantsTypeOK, GrantAges, Ages
<1>5. ASSUME limiter = "SlidingWindow"
      PROVE  n <= MaxRpm
    BY <1>2, <1>3, <1>4, <1>5 DEF LimiterInv, LogHolds, LimiterTypeOK
<1>6. ASSUME limiter = "TokenBucket"
      PROVE  n * Window <= MaxRpm * (2 * Window - 1)
  <2>1. PICK b : b = bucket[k]
      OBVIOUS
  <2>2. /\ b \in [cap : 0..MaxRpm, tokens : 0..(MaxRpm * Window), idle : 0..IdleThreshold]
        /\ b.cap = 0 => n = 0
        /\ b.cap # 0 => n * Window + Available(b) <= b.cap * Window + (Window - 1) * b.cap
      BY <1>2, <1>3, <1>4, <1>6, <2>1 DEF LimiterInv, LimiterTypeOK, BucketHolds
  <2>3. b.cap \in Nat /\ b.idle \in Nat /\ b.tokens \in Nat /\ b.cap <= MaxRpm
      BY <2>2
  <2>4. /\ b.cap * Window \in Nat /\ b.idle * b.cap \in Nat
        /\ MaxRpm * (2 * Window - 1) \in Nat
        /\ b.cap * (2 * Window - 1) <= MaxRpm * (2 * Window - 1)
      BY <2>3, ProductGrows
  <2>5. Available(b) \in Nat
      BY <2>3, <2>4 DEF Available, Least
  <2>6. n * Window \in Nat
      BY <1>4, ProductGrows
  <2>7. b.cap * Window + (Window - 1) * b.cap = b.cap * (2 * Window - 1)
      BY <2>3, SMT
  <2>8. b.cap * (2 * Window - 1) \in Nat
      BY <2>3, ProductGrows
  <2>9. CASE b.cap = 0
      BY <2>2, <2>4, <2>9
  <2>10. CASE b.cap # 0
      BY <2>2, <2>4, <2>5, <2>6, <2>7, <2>8, <2>10
  <2> QED
      BY <2>9, <2>10
<1>7. ASSUME limiter = "Redis"
      PROVE  n <= 2 * MaxRpm
  <2>1. TallyHolds(k)
      BY <1>7 DEF LimiterInv
  <2>2. CASE tally[k].count = 0
      BY <1>3, <1>4, <2>1, <2>2 DEF TallyHolds
  <2>3. CASE tally[k].count # 0
    <3>1. PICK m : m = grants[k][Window - tally[k].ttl]
        OBVIOUS
    <3>2. m \in Nat
        BY <1>2, <2>1, <2>3, <3>1 DEF TallyHolds, GrantsTypeOK, GrantAges
    <3> QED
        BY <1>3, <1>4, <2>1, <2>3, <3>1, <3>2 DEF TallyHolds
  <2> QED
      BY <2>2, <2>3
<1> QED
    BY <1>3, <1>5, <1>6, <1>7

(***************************************************************************)
(* Whichever limiter the configuration chooses, and whatever Redis loses,  *)
(* no key is granted more within a window than its limit is worth: the     *)
(* limit, or a burst and its refill, or two fixed windows' limits          *)
(* (rate_limiter.rs check, try_consume, LUA_CHECK, cleanup).               *)
(***************************************************************************)
THEOREM LimitsHold == Spec => []GrantsBounded
<1>1. Init => LimiterInv
    BY LimiterStarts DEF Init
<1>2. LimiterInv /\ [Next]_vars => LimiterInv'
    BY LimiterStep
<1>3. LimiterInv => GrantsBounded
    BY LimiterBounds
<1> QED
    BY <1>1, <1>2, <1>3, PTL DEF Spec

----------------------------------------------------------------------------
(* The budget.                                                             *)

LEMMA LeastNat ==
    ASSUME NEW T \in SUBSET Nat, T # {}
    PROVE  \E x \in T : \A y \in T : x <= y
<1>1. PICK R : R = OpToRel(<, Nat)
    OBVIOUS
<1>2. IsWellFoundedOn(R, Nat)
    BY <1>1, NatLessThanWellFounded
<1>3. PICK x \in T : \A y \in T : ~ (<<y, x>> \in R)
    BY <1>2, WFMin
<1>4. \A y \in T : ~ (y < x)
    BY <1>1, <1>3 DEF OpToRel
<1> QED
    BY <1>4

\* The next month's first day, as ttl_secs computes it, exists.
LEMMA NextMonth ==
    ASSUME BudgetTypeOK
    PROVE  /\ Ttl("Monthly") \in Nat \ {0}
           /\ today + Ttl("Monthly") \in MonthStarts
<1> USE BudgetAssumption DEF BudgetAssumption
<1>1. today \in FirstDay..LastDay /\ today \in Nat
    BY DEF BudgetTypeOK
<1>2. PICK T : T = {m \in MonthStarts : m > today}
    OBVIOUS
<1>3. T \in SUBSET Nat /\ T # {}
    BY <1>1, <1>2
<1>4. PICK x \in T : \A y \in T : x <= y
    BY <1>3, LeastNat
<1>5. x \in MonthStarts /\ x > today /\ \A n \in MonthStarts : n > today => x <= n
    BY <1>2, <1>4
<1>6. PICK m : m = CHOOSE d \in MonthStarts :
                       d > today /\ \A n \in MonthStarts : n > today => d <= n
    OBVIOUS
<1>7. m \in MonthStarts /\ m > today
    BY <1>5, <1>6
<1>8. Ttl("Monthly") = m - today
    BY <1>6 DEF Ttl
<1> QED
    BY <1>1, <1>7, <1>8

\* The counters of the day and of the month lapse in the last second of a day
\* that ends their period, or at the midnight after it.
DueAtEnd(p) ==
    expiry[p] # Never =>
        \E m \in Nat : /\ m > today /\ expiry[p] \in {2 * m - 1, 2 * m}
                      /\ ~SamePeriod(p, m - 1, m)

BudgetInv ==
    /\ BudgetTypeOK
    /\ SpendKept
    /\ DueAtEnd("Daily") /\ DueAtEnd("Monthly")

\* The first of a month does not share the counter of the day before.
LEMMA MonthEnds ==
    ASSUME NEW m \in MonthStarts, m \in Nat
    PROVE  ~SamePeriod("Monthly", m - 1, m)
<1>1. m \in {n \in MonthStarts : n <= m}
    OBVIOUS
<1>2. m \notin {n \in MonthStarts : n <= m - 1}
    OBVIOUS
<1> QED
    BY <1>1, <1>2 DEF SamePeriod

LEMMA AddKeeps ==
    ASSUME BudgetInv, NEW p \in Periods, NEW day, Add(p, day)
    PROVE  /\ BudgetInv'
           /\ spend'["Daily"] \in {spend["Daily"], spend["Daily"] + Cost}
           /\ p # "Daily" => spend'["Daily"] = spend["Daily"]
<1> USE BudgetAssumption DEF BudgetAssumption
<1>1. store' = store /\ today' = today /\ ending' = ending /\ expiry' = expiry
    BY DEF Add
<1>2. BudgetTypeOK'
    BY DEF Add, BudgetInv, BudgetTypeOK, Periods, Never
<1>3. ASSUME NEW q \in {"Daily", "Monthly"}, spend[q] = recorded[q] \/ AtItsEnd(q)
      PROVE  (spend[q] = recorded[q] \/ AtItsEnd(q))'
  <2>1. AtItsEnd(q) => AtItsEnd(q)'
      BY <1>1 DEF AtItsEnd, SamePeriod
  <2>2. spend[q] = recorded[q] => spend'[q] = recorded'[q]
      BY DEF Add, BudgetInv, BudgetTypeOK, Periods
  <2> QED
      BY <1>3, <2>1, <2>2
<1>4. DueAtEnd("Daily")' /\ DueAtEnd("Monthly")'
    BY <1>1 DEF BudgetInv, DueAtEnd, SamePeriod
<1>5. /\ spend'["Daily"] \in {spend["Daily"], spend["Daily"] + Cost}
      /\ p # "Daily" => spend'["Daily"] = spend["Daily"]
    BY DEF Add, BudgetInv, BudgetTypeOK, Periods
<1> QED
    BY <1>2, <1>3, <1>4, <1>5 DEF BudgetInv, SpendKept

LEMMA SetExpiryKeeps ==
    ASSUME BudgetInv, NEW p \in Periods, NEW day, SetExpiry(p, day)
    PROVE  BudgetInv' /\ spend' = spend
<1> USE BudgetAssumption DEF BudgetAssumption
<1>1. /\ store' = store /\ today' = today /\ ending' = ending
      /\ spend' = spend /\ recorded' = recorded
      /\ expiry' = expiry \/ expiry' = [expiry EXCEPT ![p] = Lapse(p)]
    BY DEF SetExpiry
<1>2. BudgetTypeOK /\ today \in Nat /\ expiry \in [Periods -> Nat \union {Never}]
    BY DEF BudgetInv, BudgetTypeOK
<1>3. Ttl(p) \in Nat \ {0}
  <2>1. CASE p = "Monthly"
    <3>1. Ttl("Monthly") \in Nat \ {0}
        BY <1>2, NextMonth
    <3> QED
        BY <2>1, <3>1
  <2>2. CASE p = "Daily"
      BY <1>2, <2>2 DEF Ttl
  <2>3. CASE p = "Weekly"
    <3>1. today % 7 \in 0..6
        BY <1>2
    <3>2. (7 - (today % 7)) % 7 \in 0..6
        BY <3>1
    <3> QED
        BY <1>2, <2>3, <3>2 DEF Ttl
  <2> QED
      BY <2>1, <2>2, <2>3 DEF Periods
<1>4. Lapse(p) \in {2 * (today + Ttl(p)) - 1, 2 * (today + Ttl(p))} /\ Lapse(p) \in Nat
    BY <1>2, <1>3 DEF Lapse
<1>5. BudgetTypeOK'
    BY <1>1, <1>2, <1>4 DEF BudgetTypeOK
<1>6. SpendKept'
    BY <1>1 DEF BudgetInv, SpendKept, AtItsEnd, SamePeriod
<1>7. ASSUME NEW q \in {"Daily", "Monthly"}, p = q
      PROVE  \E m \in Nat : m = today + Ttl(p) /\ m > today /\ ~SamePeriod(q, m - 1, m)
  <2>1. CASE q = "Daily"
    <3>1. today + 1 = today + Ttl(p)
        BY <1>2, <1>7, <2>1 DEF Ttl
    <3>2. ~SamePeriod(q, today + 1 - 1, today + 1)
        BY <1>2, <2>1 DEF SamePeriod
    <3> QED
        BY <1>2, <3>1, <3>2
  <2>2. CASE q = "Monthly"
    <3>1. PICK m \in MonthStarts : m = today + Ttl("Monthly")
        BY <1>2, NextMonth
    <3>2. m \in Nat /\ ~SamePeriod("Monthly", m - 1, m)
        BY <3>1, MonthEnds
    <3>3. Ttl("Monthly") \in Nat \ {0}
        BY <1>2, NextMonth
    <3>4. m > today
        BY <1>2, <3>1, <3>3
    <3> QED
        BY <1>7, <2>2, <3>1, <3>2, <3>4
  <2> QED
      BY <2>1, <2>2
<1>8. ASSUME NEW q \in {"Daily", "Monthly"}, DueAtEnd(q) PROVE DueAtEnd(q)'
  <2>1. CASE expiry'[q] = expiry[q]
      BY <1>1, <1>8, <2>1 DEF DueAtEnd, SamePeriod
  <2>2. CASE expiry'[q] # expiry[q]
    <3>1. p = q /\ expiry'[q] = Lapse(q)
        BY <1>1, <1>2, <2>2 DEF Periods
    <3>2. PICK m \in Nat : m = today + Ttl(p) /\ m > today /\ ~SamePeriod(q, m - 1, m)
        BY <1>7, <3>1
    <3>3. expiry'[q] \in {2 * m - 1, 2 * m}
        BY <1>4, <3>1, <3>2
    <3>4. m > today'
        BY <1>1, <3>2
    <3> QED
        BY <3>2, <3>3, <3>4 DEF DueAtEnd, SamePeriod
  <2> QED
      BY <2>1, <2>2
<1> QED
    BY <1>1, <1>5, <1>6, <1>8 DEF BudgetInv

\* A counter that lapses does so in the last second of its period.
LEMMA LapsesAtEnd ==
    ASSUME BudgetTypeOK, NEW p, DueAtEnd(p), Lapsed(p)
    PROVE  AtItsEnd(p)
<1>1. today \in Nat /\ ending \in BOOLEAN
    BY BudgetAssumption DEF BudgetAssumption, BudgetTypeOK
<1>2. PICK m \in Nat : /\ m > today /\ expiry[p] \in {2 * m - 1, 2 * m}
                       /\ ~SamePeriod(p, m - 1, m)
    BY DEF Lapsed, DueAtEnd
<1>3. Moment = 2 * today \/ Moment = 2 * today + 1
    BY <1>1 DEF Moment
<1>4. expiry[p] <= Moment
    BY DEF Lapsed
<1>5. m = today + 1 /\ Moment = 2 * today + 1
    BY <1>1, <1>2, <1>3, <1>4
<1>6. ending
    BY <1>1, <1>5 DEF Moment
<1>7. m - 1 = today
    BY <1>1, <1>5
<1> QED
    BY <1>2, <1>5, <1>6, <1>7 DEF AtItsEnd

LEMMA ExpireKeeps ==
    ASSUME BudgetInv, NEW p \in Periods, DeleteLapsed(p)
    PROVE  BudgetInv' /\ spend'["Daily"] <= spend["Daily"]
<1>1. /\ store' = store /\ today' = today /\ ending' = ending /\ recorded' = recorded
      /\ spend' = [spend EXCEPT ![p] = 0] /\ expiry' = [expiry EXCEPT ![p] = Never]
    BY DEF DeleteLapsed
<1>2. BudgetTypeOK /\ SpendKept /\ spend \in [Periods -> Nat]
    BY DEF BudgetInv, BudgetTypeOK
<1>3. BudgetTypeOK'
    BY <1>1, <1>2 DEF BudgetTypeOK
<1>4. ASSUME NEW q \in {"Daily", "Monthly"}, DueAtEnd(q)
      PROVE  (spend[q] = recorded[q] \/ AtItsEnd(q))'
  <2>1. CASE q = p
    <3>1. AtItsEnd(q)
        BY <1>2, <1>4, <2>1, LapsesAtEnd DEF DeleteLapsed
    <3> QED
        BY <1>1, <3>1 DEF AtItsEnd, SamePeriod
  <2>2. CASE q # p
    <3>1. spend[q] = recorded[q] \/ AtItsEnd(q)
        BY <1>2 DEF SpendKept
    <3>2. spend'[q] = spend[q] /\ recorded'[q] = recorded[q]
        BY <1>1, <1>2, <2>2 DEF Periods
    <3>3. AtItsEnd(q) => AtItsEnd(q)'
        BY <1>1 DEF AtItsEnd, SamePeriod
    <3> QED
        BY <3>1, <3>2, <3>3
  <2> QED
      BY <2>1, <2>2
<1>5. ASSUME NEW q \in {"Daily", "Monthly"}, DueAtEnd(q) PROVE DueAtEnd(q)'
  <2>1. expiry'[q] = Never \/ expiry'[q] = expiry[q]
      BY <1>1, <1>2 DEF BudgetTypeOK, Periods
  <2> QED
      BY <1>1, <1>5, <2>1 DEF DueAtEnd, SamePeriod
<1>6. SpendKept'
    BY <1>4 DEF SpendKept, BudgetInv
<1>7. spend'["Daily"] <= spend["Daily"]
    BY <1>1, <1>2 DEF Periods
<1> QED
    BY <1>3, <1>5, <1>6, <1>7 DEF BudgetInv

LEMMA LastSecondKeeps ==
    ASSUME BudgetInv, LastSecond
    PROVE  BudgetInv' /\ spend' = spend
<1>1. /\ store' = store /\ today' = today /\ ending = FALSE /\ ending' = TRUE
      /\ spend' = spend /\ expiry' = expiry /\ recorded' = recorded
    BY DEF LastSecond, BudgetInv, BudgetTypeOK
<1>2. BudgetTypeOK'
    BY <1>1 DEF BudgetInv, BudgetTypeOK
<1>3. SpendKept'
    BY <1>1 DEF BudgetInv, SpendKept, AtItsEnd
<1>4. DueAtEnd("Daily")' /\ DueAtEnd("Monthly")'
    BY <1>1 DEF BudgetInv, DueAtEnd, SamePeriod
<1> QED
    BY <1>1, <1>2, <1>3, <1>4 DEF BudgetInv

\* A day ends its own counter; what lapsed before the midnight is over there.
LEMMA MidnightKeeps ==
    ASSUME BudgetInv, Midnight
    PROVE  BudgetInv' /\ spend'["Daily"] = 0
<1> USE BudgetAssumption DEF BudgetAssumption
<1> DEFINE over(p) == ~SamePeriod(p, today, today + 1)
<1>1. /\ today < LastDay /\ today' = today + 1 /\ ending' = FALSE /\ store' = store
      /\ spend' = [p \in Periods |-> IF over(p) THEN 0 ELSE spend[p]]
      /\ expiry' = [p \in Periods |-> IF over(p) THEN Never ELSE expiry[p]]
      /\ recorded' = [p \in Periods |-> IF over(p) THEN 0 ELSE recorded[p]]
    BY DEF Midnight
<1>2. /\ BudgetTypeOK /\ SpendKept
      /\ today \in Nat /\ today + 1 \in FirstDay..LastDay
    BY <1>1 DEF BudgetInv, BudgetTypeOK
<1>3. over("Daily")
    BY <1>2 DEF SamePeriod
<1>4. ASSUME NEW q \in {"Daily", "Monthly"}, DueAtEnd(q) PROVE DueAtEnd(q)'
  <2>1. CASE over(q)
    <3>1. expiry'[q] = Never
        BY <1>1, <2>1 DEF Periods
    <3> QED
        BY <3>1 DEF DueAtEnd, Never
  <2>2. CASE ~over(q)
    <3>1. expiry'[q] = expiry[q]
        BY <1>1, <2>2 DEF Periods
    <3>2. SUFFICES ASSUME expiry[q] # Never
                   PROVE  \E m \in Nat : /\ m > today' /\ expiry[q] \in {2 * m - 1, 2 * m}
                                         /\ ~SamePeriod(q, m - 1, m)
        BY <3>1 DEF DueAtEnd, SamePeriod
    <3>3. PICK m \in Nat : /\ m > today /\ expiry[q] \in {2 * m - 1, 2 * m}
                           /\ ~SamePeriod(q, m - 1, m)
        BY <1>4, <3>2 DEF DueAtEnd
    <3>4. m # today + 1
      <4>1. SUFFICES ASSUME m = today + 1 PROVE FALSE
          OBVIOUS
      <4>2. m - 1 = today
          BY <1>2, <4>1
      <4> QED
          BY <2>2, <3>3, <4>1, <4>2
    <3>5. m > today'
        BY <1>1, <1>2, <3>3, <3>4
    <3> QED
        BY <3>3, <3>5
  <2> QED
      BY <2>1, <2>2
<1>5. "Daily" \in Periods /\ "Monthly" \in Periods
    BY DEF Periods
<1>6. spend["Monthly"] = recorded["Monthly"] \/ over("Monthly")
    BY <1>2 DEF SpendKept, AtItsEnd
<1> HIDE DEF over
<1>7. spend'["Daily"] = 0 /\ recorded'["Daily"] = 0
    BY <1>1, <1>3, <1>5
<1>8. spend'["Monthly"] = recorded'["Monthly"]
    BY <1>1, <1>5, <1>6
<1>9. BudgetTypeOK'
    BY <1>1, <1>2 DEF BudgetTypeOK, Never
<1>10. SpendKept'
    BY <1>7, <1>8 DEF SpendKept
<1> QED
    BY <1>4, <1>7, <1>9, <1>10 DEF BudgetInv

BudgetKeeps == BudgetInv' /\ spend'["Daily"] <= spend["Daily"]

LEMMA BudgetUnchanged ==
    ASSUME BudgetInv, UNCHANGED budgetVars
    PROVE  BudgetKeeps
<1>1. /\ store' = store /\ today' = today /\ ending' = ending /\ spend' = spend
      /\ expiry' = expiry /\ recorded' = recorded
    BY DEF budgetVars
<1>2. spend["Daily"] \in Nat
    BY DEF BudgetInv, BudgetTypeOK, Periods
<1> QED
    BY <1>1, <1>2
       DEF BudgetInv, BudgetTypeOK, SpendKept, AtItsEnd, DueAtEnd, SamePeriod, BudgetKeeps

----------------------------------------------------------------------------
(* The handler.  A request is pending from its budget check until its      *)
(* recorder has added its cost to the day's counter.                       *)

RequestTypeOK ==
    /\ pc \in [Requests -> Steps]
    /\ period \in [Requests -> Periods]
    /\ keyDay \in [Requests -> FirstDay..LastDay]
    /\ loaded \in BOOLEAN
    /\ faults \in 0..FaultLimit

ProxyInv == LimiterInv /\ BudgetInv /\ RequestTypeOK

LEMMA PendingFinite ==
    /\ IsFiniteSet(Pending) /\ Cardinality(Pending) \in Nat
    /\ Cardinality(Requests) \in Nat
    /\ Cardinality(Requests) >= 1
    /\ Cardinality(Pending) <= Cardinality(Requests)
<1> USE ProxyAssumption DEF ProxyAssumption
<1>1. Pending \in SUBSET Requests
    BY DEF Pending
<1>2. Cardinality(Requests) # 0
    BY FS_EmptySet
<1> QED
    BY <1>1, <1>2, FS_Subset, FS_CardinalityType

\* A step that lets no request past the budget check keeps the bound.
LEMMA BoundKept ==
    ASSUME OvershootBounded, RequestTypeOK, BudgetInv, BudgetKeeps,
           faults' \in Nat, faults' >= faults,
           Pending' \subseteq Pending
    PROVE  OvershootBounded'
<1> USE BudgetAssumption, ProxyAssumption DEF BudgetAssumption, ProxyAssumption
<1>1. SUFFICES ASSUME \A r \in Requests : HardBudget(r) >= Cost
               PROVE  \E r \in Requests :
                          spend'["Daily"] + Cost * Cardinality(Pending')
                             <= HardBudget(r) + Cost * (Cardinality(Requests) - 1 + faults')
    BY DEF OvershootBounded, HardBudget
<1>2. PICK r \in Requests :
          spend["Daily"] + Cost * Cardinality(Pending)
             <= HardBudget(r) + Cost * (Cardinality(Requests) - 1 + faults)
    BY <1>1 DEF OvershootBounded
<1>3. /\ Cardinality(Pending') \in Nat /\ Cardinality(Pending') <= Cardinality(Pending)
      /\ Cardinality(Pending) \in Nat
    BY PendingFinite, FS_Subset, FS_CardinalityType
<1>4. Cost * Cardinality(Pending') <= Cost * Cardinality(Pending)
    BY <1>3, ProductGrows
<1>5. faults \in Nat /\ Cardinality(Requests) - 1 \in Nat
    BY PendingFinite DEF RequestTypeOK
<1>6. Cost * (Cardinality(Requests) - 1 + faults) <= Cost * (Cardinality(Requests) - 1 + faults')
    BY <1>5, ProductGrows
<1>7. /\ spend'["Daily"] \in Nat /\ spend["Daily"] \in Nat
      /\ spend'["Daily"] <= spend["Daily"]
    BY DEF BudgetKeeps, BudgetInv, BudgetTypeOK, Periods
<1>8. /\ Cost * Cardinality(Pending') \in Nat /\ Cost * Cardinality(Pending) \in Nat
      /\ Cost * (Cardinality(Requests) - 1 + faults) \in Nat
      /\ Cost * (Cardinality(Requests) - 1 + faults') \in Nat
      /\ HardBudget(r) \in Nat
    BY <1>3, <1>5, ProductGrows DEF HardBudget
<1> QED
    BY <1>2, <1>4, <1>6, <1>7, <1>8

\* Every step but the check and the addition.
LEMMA OtherSteps ==
    ASSUME ProxyInv, OvershootBounded, NEW q \in Requests,
           \/ Begin(q) \/ CheckLimit(q) \/ RunScript(q) \/ ScriptFails(q) \/ Refuse(q)
           \/ Answered(q) \/ Failed(q) \/ ExpireSpend(q) \/ Cancel(q)
    PROVE  RequestTypeOK' /\ BudgetInv' /\ OvershootBounded'
<1> USE BudgetAssumption, ProxyAssumption DEF BudgetAssumption, ProxyAssumption
<1>1. /\ RequestTypeOK /\ BudgetInv /\ BudgetTypeOK
      /\ today \in FirstDay..LastDay /\ FirstDay \in FirstDay..LastDay
      /\ spend["Daily"] \in Nat /\ faults \in Nat
    BY DEF ProxyInv, BudgetInv, BudgetTypeOK, RequestTypeOK, Periods
<1>2. CASE Begin(q)
  <2>1. BudgetKeeps
      BY <1>1, <1>2, BudgetUnchanged DEF Begin
  <2>2. RequestTypeOK' /\ Pending' \subseteq Pending /\ faults' = faults
      BY <1>1, <1>2 DEF Begin, Goto, RequestTypeOK, Pending, Steps
  <2> QED
      BY <1>1, <2>1, <2>2, BoundKept DEF BudgetKeeps
<1>3. CASE CheckLimit(q)
  <2>1. BudgetKeeps
      BY <1>1, <1>3, BudgetUnchanged DEF CheckLimit
  <2>2. RequestTypeOK' /\ Pending' \subseteq Pending /\ faults' = faults
      BY <1>1, <1>3 DEF CheckLimit, Goto, RequestTypeOK, Pending, Steps
  <2> QED
      BY <1>1, <2>1, <2>2, BoundKept DEF BudgetKeeps
<1>4. CASE RunScript(q)
  <2>1. BudgetKeeps
      BY <1>1, <1>4, BudgetUnchanged DEF RunScript
  <2>2. RequestTypeOK' /\ Pending' \subseteq Pending /\ faults' = faults
      BY <1>1, <1>4 DEF RunScript, Evaluates, Sends, Goto, RequestTypeOK, Pending, Steps
  <2> QED
      BY <1>1, <2>1, <2>2, BoundKept DEF BudgetKeeps
<1>5. CASE ScriptFails(q)
  <2>1. BudgetKeeps
      BY <1>1, <1>5, BudgetUnchanged DEF ScriptFails
  <2>2. RequestTypeOK' /\ Pending' \subseteq Pending /\ faults' = faults + 1
      BY <1>1, <1>5 DEF ScriptFails, Evaluates, Sends, Fault, Goto, RequestTypeOK, Pending, Steps
  <2> QED
      BY <1>1, <2>1, <2>2, BoundKept DEF BudgetKeeps
<1>6. CASE Refuse(q)
  <2>1. BudgetKeeps
      BY <1>1, <1>6, BudgetUnchanged DEF Refuse
  <2>2. RequestTypeOK' /\ Pending' \subseteq Pending /\ faults' = faults
      BY <1>1, <1>6 DEF Refuse, Goto, RequestTypeOK, Pending, Steps
  <2> QED
      BY <1>1, <2>1, <2>2, BoundKept DEF BudgetKeeps
<1>7. CASE Answered(q)
  <2>1. BudgetKeeps
      BY <1>1, <1>7, BudgetUnchanged DEF Answered
  <2>2. RequestTypeOK' /\ Pending' \subseteq Pending /\ faults' = faults
      BY <1>1, <1>7 DEF Answered, RequestTypeOK, Pending, Steps, Periods
  <2> QED
      BY <1>1, <2>1, <2>2, BoundKept DEF BudgetKeeps
<1>8. CASE Failed(q)
  <2>1. BudgetKeeps
      BY <1>1, <1>8, BudgetUnchanged DEF Failed
  <2>2. RequestTypeOK' /\ Pending' \subseteq Pending /\ faults' = faults
      BY <1>1, <1>8 DEF Failed, Goto, RequestTypeOK, Pending, Steps
  <2> QED
      BY <1>1, <2>1, <2>2, BoundKept DEF BudgetKeeps
<1>9. CASE ExpireSpend(q)
  <2>1. BudgetKeeps
    <3>1. period[q] \in Periods
        BY <1>1 DEF RequestTypeOK
    <3>2. CASE SetExpiry(period[q], keyDay[q])
        BY <1>1, <3>1, <3>2, SetExpiryKeeps DEF BudgetKeeps
    <3>3. CASE UNCHANGED budgetVars
        BY <1>1, <3>3, BudgetUnchanged
    <3> QED
        BY <1>9, <3>2, <3>3 DEF ExpireSpend
  <2>2. RequestTypeOK'
      BY <1>1, <1>9 DEF ExpireSpend, Fault, RequestTypeOK, Steps, Periods, NextPeriod
  <2>3. Pending' \subseteq Pending
    <3>1. period[q] \in Periods
        BY <1>1 DEF RequestTypeOK
    <3>2. pc'[q] = "idle" \/ (pc'[q] = "add" /\ period'[q] \in {"Weekly", "Monthly"})
        BY <1>1, <1>9, <3>1 DEF ExpireSpend, RequestTypeOK, Periods, NextPeriod
    <3>3. \A r \in Requests \ {q} : pc'[r] = pc[r] /\ period'[r] = period[r]
        BY <1>1, <1>9 DEF ExpireSpend, RequestTypeOK
    <3> QED
        BY <3>2, <3>3 DEF Pending
  <2>4. faults' = faults \/ faults' = faults + 1
      BY <1>9 DEF ExpireSpend, Fault
  <2> QED
      BY <1>1, <2>1, <2>2, <2>3, <2>4, BoundKept DEF BudgetKeeps
<1>10. CASE Cancel(q)
  <2>1. BudgetKeeps
      BY <1>1, <1>10, BudgetUnchanged DEF Cancel
  <2>2. RequestTypeOK' /\ Pending' \subseteq Pending /\ faults' = faults
      BY <1>1, <1>10 DEF Cancel, Evaluates, Sends, Goto, RequestTypeOK, Pending, Steps
  <2> QED
      BY <1>1, <2>1, <2>2, BoundKept DEF BudgetKeeps
<1> QED
    BY <1>2, <1>3, <1>4, <1>5, <1>6, <1>7, <1>8, <1>9, <1>10

\* The check: with the counter it read, this request and all others pending
\* at most exhaust its hard limit; with a read that failed, the fault pays.
LEMMA CheckKeeps ==
    ASSUME ProxyInv, OvershootBounded, NEW q \in Requests, CheckBudget(q)
    PROVE  RequestTypeOK' /\ BudgetInv' /\ OvershootBounded'
<1> USE BudgetAssumption, ProxyAssumption DEF BudgetAssumption, ProxyAssumption
<1>1. /\ RequestTypeOK /\ BudgetInv
      /\ spend["Daily"] \in Nat /\ faults \in Nat /\ pc[q] = "budget"
    BY DEF ProxyInv, BudgetInv, BudgetTypeOK, RequestTypeOK, Periods, CheckBudget
<1>2. BudgetKeeps /\ spend' = spend
    BY <1>1, BudgetUnchanged DEF CheckBudget, budgetVars
<1>3. PICK current \in {0, spend["Daily"]} :
          /\ \/ current = spend["Daily"] /\ faults' = faults
             \/ current = 0 /\ Fault
          /\ Goto(q, IF WithinHardLimit(current, HardBudget(q)) THEN "limit" ELSE "idle")
    BY DEF CheckBudget
<1>4. RequestTypeOK'
    BY <1>1, <1>3 DEF RequestTypeOK, Goto, Fault, Steps
<1>5. faults' \in Nat /\ faults' >= faults
    BY <1>1, <1>3 DEF Fault
<1>6. CASE ~WithinHardLimit(current, HardBudget(q))
  <2>1. Pending' \subseteq Pending
      BY <1>1, <1>3, <1>6 DEF RequestTypeOK, Goto, Pending
  <2> QED
      BY <1>1, <1>2, <1>4, <1>5, <2>1, BoundKept DEF BudgetKeeps
<1>7. CASE WithinHardLimit(current, HardBudget(q))
  <2>1. q \notin Pending /\ Pending' = Pending \union {q}
      BY <1>1, <1>3, <1>7 DEF RequestTypeOK, Goto, Pending
  <2>2. /\ Cardinality(Pending') = Cardinality(Pending) + 1
        /\ Cardinality(Pending) \in Nat
        /\ Cardinality(Requests) \in Nat /\ Cardinality(Requests) - 1 \in Nat
        /\ Cardinality(Pending') <= Cardinality(Requests)
    <3>1. Pending' \in SUBSET Requests
        BY DEF Pending
    <3> QED
        BY <2>1, <3>1, PendingFinite, FS_AddElement, FS_Subset
  <2>3. ASSUME \A r \in Requests : HardBudget(r) >= Cost
        PROVE  \E r \in Requests :
                   spend["Daily"] + Cost * Cardinality(Pending')
                      <= HardBudget(r) + Cost * (Cardinality(Requests) - 1 + faults')
    <3>1. CASE current = spend["Daily"]
      <4>1. HardBudget(q) \in Nat /\ HardBudget(q) >= Cost
          BY <2>3 DEF HardBudget
      <4>2. spend["Daily"] + Cost <= HardBudget(q)
          BY <1>7, <3>1, <4>1 DEF WithinHardLimit
      <4>3. Cardinality(Pending') <= (Cardinality(Requests) - 1 + faults') + 1
          BY <1>5, <2>2
      <4>4. /\ Cost * Cardinality(Pending')
                  <= Cost * ((Cardinality(Requests) - 1 + faults') + 1)
            /\ Cost * ((Cardinality(Requests) - 1 + faults') + 1)
                  = Cost * (Cardinality(Requests) - 1 + faults') + Cost
            /\ Cost * Cardinality(Pending') \in Nat
            /\ Cost * (Cardinality(Requests) - 1 + faults') \in Int
          BY <1>5, <2>2, <4>3, ProductGrows, ProductNext
      <4> QED
          BY <1>1, <4>1, <4>2, <4>4
    <3>2. CASE current # spend["Daily"]
      <4>1. faults' = faults + 1
          BY <1>3, <3>2 DEF Fault
      <4>2. PICK r \in Requests :
                spend["Daily"] + Cost * Cardinality(Pending)
                   <= HardBudget(r) + Cost * (Cardinality(Requests) - 1 + faults)
          BY <2>3 DEF OvershootBounded
      <4>3. Cardinality(Requests) - 1 + faults' = (Cardinality(Requests) - 1 + faults) + 1
          BY <1>1, <2>2, <4>1
      <4>4. /\ Cost * Cardinality(Pending') = Cost * Cardinality(Pending) + Cost
            /\ Cost * (Cardinality(Requests) - 1 + faults')
                  = Cost * (Cardinality(Requests) - 1 + faults) + Cost
            /\ Cost * Cardinality(Pending) \in Int
            /\ Cost * (Cardinality(Requests) - 1 + faults) \in Int
          BY <1>1, <2>2, <4>3, ProductNext
      <4>5. HardBudget(r) \in Nat
          BY DEF HardBudget
      <4> QED
          BY <1>1, <4>2, <4>4, <4>5
    <3> QED
        BY <3>1, <3>2
  <2>4. OvershootBounded'
      BY <1>2, <2>3 DEF OvershootBounded, HardBudget
  <2> QED
      BY <1>2, <1>4, <2>4 DEF BudgetKeeps
<1> QED
    BY <1>6, <1>7

\* The addition: the request stops being pending as its cost is counted, or
\* its cost is lost.
LEMMA AdditionKeeps ==
    ASSUME ProxyInv, OvershootBounded, NEW q \in Requests, AddSpend(q)
    PROVE  RequestTypeOK' /\ BudgetInv' /\ OvershootBounded'
<1> USE BudgetAssumption, ProxyAssumption DEF BudgetAssumption, ProxyAssumption
<1>1. /\ RequestTypeOK /\ BudgetInv /\ period[q] \in Periods
      /\ today \in FirstDay..LastDay /\ keyDay[q] \in FirstDay..LastDay
      /\ spend["Daily"] \in Nat /\ faults \in Nat /\ pc[q] = "add"
    BY DEF ProxyInv, BudgetInv, BudgetTypeOK, RequestTypeOK, Periods, AddSpend
<1>2. PICK day \in keyDay[q]..today :
          /\ \/ Add(period[q], day) /\ UNCHANGED faults
             \/ Fault /\ UNCHANGED budgetVars
          /\ keyDay' = [keyDay EXCEPT ![q] = day]
    BY DEF AddSpend
<1>3. /\ pc' = [pc EXCEPT ![q] = "expire"]
      /\ period' = period /\ loaded' = loaded
    BY DEF AddSpend
<1>4. RequestTypeOK' /\ faults' \in Nat /\ faults' >= faults
    BY <1>1, <1>2, <1>3 DEF RequestTypeOK, Fault, Steps
<1>5. /\ BudgetInv'
      /\ spend'["Daily"] \in {spend["Daily"], spend["Daily"] + Cost}
      /\ period[q] # "Daily" => spend'["Daily"] = spend["Daily"]
  <2>1. CASE Add(period[q], day)
      BY <1>1, <2>1, AddKeeps
  <2>2. CASE UNCHANGED budgetVars
      BY <1>1, <2>2, BudgetUnchanged DEF BudgetKeeps, budgetVars
  <2> QED
      BY <1>2, <2>1, <2>2
<1>6. Pending' = Pending \ {q} /\ (q \in Pending <=> period[q] = "Daily")
    BY <1>1, <1>3 DEF RequestTypeOK, Pending
<1>7. CASE spend'["Daily"] = spend["Daily"]
    BY <1>1, <1>4, <1>5, <1>6, <1>7, BoundKept DEF BudgetKeeps
<1>8. CASE spend'["Daily"] # spend["Daily"]
  <2>1. period[q] = "Daily" /\ spend'["Daily"] = spend["Daily"] + Cost
      BY <1>5, <1>8
  <2>2. faults' = faults
      BY <1>2, <1>8 DEF budgetVars
  <2>3. /\ Cardinality(Pending') = Cardinality(Pending) - 1
        /\ Cardinality(Pending) \in Nat
      BY <1>6, <2>1, PendingFinite, FS_RemoveElement
  <2>4. /\ Cost * Cardinality(Pending') = Cost * Cardinality(Pending) - Cost
        /\ Cost * Cardinality(Pending) \in Int
      BY <2>3, ProductNext
  <2>5. spend'["Daily"] + Cost * Cardinality(Pending')
           = spend["Daily"] + Cost * Cardinality(Pending)
      BY <1>1, <2>1, <2>4
  <2> QED
      BY <1>4, <1>5, <2>2, <2>5 DEF OvershootBounded, HardBudget
<1> QED
    BY <1>7, <1>8

----------------------------------------------------------------------------
LEMMA ProxyStarts ==
    ASSUME Init
    PROVE  ProxyInv /\ OvershootBounded
<1> USE BudgetAssumption, ProxyAssumption DEF BudgetAssumption, ProxyAssumption
<1>1. LimiterInv
    BY LimiterStarts DEF Init
<1>2. BudgetInv
  <2>1. BudgetTypeOK
    <3>1. /\ store \in Stores /\ today \in FirstDay..LastDay
          /\ spend \in [Periods -> Nat] /\ recorded \in [Periods -> Nat]
          /\ expiry \in [Periods -> Nat \union {Never}]
        BY DEF Init, BudgetInit
    <3>2. ending \in BOOLEAN
        BY DEF Init, BudgetInit
    <3> QED
        BY <3>1, <3>2 DEF BudgetTypeOK
  <2>2. SpendKept /\ DueAtEnd("Daily") /\ DueAtEnd("Monthly")
      BY DEF Init, BudgetInit, SpendKept, DueAtEnd, Periods
  <2> QED
      BY <2>1, <2>2 DEF BudgetInv
<1>3. RequestTypeOK
    BY DEF Init, RequestTypeOK, Steps, Periods
<1>4. OvershootBounded
  <2>1. Pending = {} /\ spend["Daily"] = 0 /\ faults = 0
      BY DEF Init, BudgetInit, Pending, Periods
  <2>2. Cardinality(Pending) = 0 /\ Cardinality(Requests) - 1 + faults \in Nat
      BY <2>1, FS_EmptySet, PendingFinite
  <2>3. PICK r \in Requests : TRUE
      OBVIOUS
  <2>4. /\ Cost * (Cardinality(Requests) - 1 + faults) \in Nat
        /\ Cost * Cardinality(Pending) = 0
        /\ HardBudget(r) \in Nat
      BY <2>2, ProductGrows DEF HardBudget
  <2> QED
      BY <2>1, <2>4 DEF OvershootBounded
<1> QED
    BY <1>1, <1>2, <1>3, <1>4 DEF ProxyInv

LEMMA ProxyStep ==
    ASSUME ProxyInv, OvershootBounded, [Next]_vars
    PROVE  ProxyInv' /\ OvershootBounded'
<1>1. LimiterInv'
    BY LimiterStep DEF ProxyInv
<1>2. RequestTypeOK /\ BudgetInv /\ spend["Daily"] \in Nat /\ faults \in Nat
    BY DEF ProxyInv, BudgetInv, BudgetTypeOK, RequestTypeOK, Periods
<1>3. ASSUME NEW q \in Requests, Begin(q) \/ Run(q) \/ Cancel(q)
      PROVE  RequestTypeOK' /\ BudgetInv' /\ OvershootBounded'
    BY <1>3, OtherSteps, CheckKeeps, AdditionKeeps DEF Run
<1>4. ASSUME UNCHANGED requestVars, UNCHANGED faults, BudgetKeeps
      PROVE  RequestTypeOK' /\ BudgetInv' /\ OvershootBounded'
  <2>1. RequestTypeOK' /\ Pending' = Pending /\ faults' = faults
      BY <1>2, <1>4 DEF requestVars, RequestTypeOK, Pending
  <2> QED
      BY <1>2, <1>4, <2>1, BoundKept DEF BudgetKeeps
<1>5. Seconds \/ CleanupWorker \/ UNCHANGED vars =>
          UNCHANGED budgetVars /\ UNCHANGED requestVars /\ UNCHANGED faults
    BY DEF Seconds, CleanupWorker, vars
<1>6. Days => BudgetKeeps /\ UNCHANGED requestVars /\ UNCHANGED faults
    BY <1>2, MidnightKeeps, LastSecondKeeps DEF Days, BudgetKeeps
<1>7. ASSUME NEW p \in Periods, RedisDeletes(p)
      PROVE  BudgetKeeps /\ UNCHANGED requestVars /\ UNCHANGED faults
    BY <1>2, <1>7, ExpireKeeps DEF RedisDeletes, BudgetKeeps
<1> QED
    BY <1>1, <1>2, <1>3, <1>4, <1>5, <1>6, <1>7, BudgetUnchanged DEF Next, ProxyInv

LEMMA ProxyAlways == Spec => [](ProxyInv /\ OvershootBounded)
BY ProxyStarts, ProxyStep, PTL DEF Spec

\* The variables keep their types (proxy.rs, engine.rs, budget.rs, rate_limiter.rs).
THEOREM ProxyTypes == Spec => []TypeOK
<1>1. ProxyInv => TypeOK
    BY DEF ProxyInv, LimiterInv, BudgetInv, RequestTypeOK, TypeOK
<1> QED
    BY <1>1, ProxyAlways, PTL

(***************************************************************************)
(* Nothing recorded in the current day or month is lost from its counter   *)
(* before the last second of the day or the month: whatever expiries the   *)
(* recorders set, before or after midnights, and rounded down to seconds   *)
(* as they are, Redis deletes no counter sooner (budget.rs record_entity,  *)
(* ttl_secs).                                                              *)
(***************************************************************************)
THEOREM BudgetKept == Spec => []SpendKept
<1>1. ProxyInv => SpendKept
    BY DEF ProxyInv, BudgetInv
<1> QED
    BY <1>1, ProxyAlways, PTL

(***************************************************************************)
(* The day's counter passes the largest hard limit by no more than the cost*)
(* of the requests in flight at once and of those whose counter Redis      *)
(* failed to read or add to, for any number of requests, any limits, and   *)
(* any faults (proxy.rs, engine.rs evaluate and record_usage).             *)
(***************************************************************************)
THEOREM SpendBounded == Spec => []OvershootBounded
BY ProxyAlways, PTL
=============================================================================
