---------------------------- MODULE Audit_proofs ----------------------------
(***************************************************************************)
(* Theorems about the logs: the audit writer (AuditPipeline), the sinks of *)
(* the LLM log (LogSink) and reading a log by pages (LogPages), for any    *)
(* capacities, batch and page sizes, and any number of events, entries and *)
(* rows.                                                                   *)
(***************************************************************************)
EXTENDS AuditPipeline, LogSink, LogPages,
        SequenceTheorems, FiniteSetTheorems, WellFoundedInduction, TLAPS

----------------------------------------------------------------------------
(* Sequences and the sets of what they hold.                               *)

Ascends(s) == \A i, j \in 1..Len(s) : i < j => s[i] < s[j]

\* All of one set comes before all of another.
Before(S, T) == \A x \in S, y \in T : x < y

LEMMA ToSetNat ==
    ASSUME NEW s \in Seq(Nat)
    PROVE  /\ \A x : x \in ToSet(s) <=> \E i \in 1..Len(s) : s[i] = x
           /\ ToSet(s) \subseteq Nat
           /\ s # <<>> <=> Len(s) # 0
           /\ s # <<>> <=> ToSet(s) # {}
<1>1. DOMAIN s = 1..Len(s) /\ Len(s) \in Nat /\ \A i \in 1..Len(s) : s[i] \in Nat
    BY LenProperties, ElementOfSeq
<1>2. s # <<>> <=> Len(s) # 0
    BY EmptySeq
<1> QED
    BY <1>1, <1>2 DEF ToSet

LEMMA EmptyHolds ==
    <<>> \in Seq(Nat) /\ ToSet(<<>>) = {} /\ Ascends(<<>>) /\ Len(<<>>) = 0
BY DEF ToSet, Ascends

LEMMA AppendHolds ==
    ASSUME NEW s \in Seq(Nat), NEW x \in Nat
    PROVE  /\ Append(s, x) \in Seq(Nat)
           /\ Len(Append(s, x)) = Len(s) + 1
           /\ ToSet(Append(s, x)) = ToSet(s) \union {x}
           /\ Ascends(s) /\ Before(ToSet(s), {x}) => Ascends(Append(s, x))
<1>1. PICK t : t = Append(s, x)
    OBVIOUS
<1>2. /\ t \in Seq(Nat) /\ Len(t) = Len(s) + 1 /\ Len(s) \in Nat
      /\ \A i \in 1..Len(s) : t[i] = s[i]
      /\ t[Len(s) + 1] = x
    BY <1>1, AppendProperties, LenProperties
<1>3. \A i \in 1..Len(t) : i \in 1..Len(s) \/ i = Len(s) + 1
    BY <1>2
<1>4. ToSet(t) = ToSet(s) \union {x}
  <2>1. ASSUME NEW y \in ToSet(t) PROVE y \in ToSet(s) \union {x}
    <3>1. PICK i \in 1..Len(t) : t[i] = y
        BY <1>2, ToSetNat
    <3>2. CASE i \in 1..Len(s)
      <4>1. s[i] = y
          BY <1>2, <3>1, <3>2
      <4> QED
          BY <3>2, <4>1, ToSetNat
    <3> QED
        BY <1>2, <1>3, <3>1, <3>2
  <2>2. ASSUME NEW y \in ToSet(s) PROVE y \in ToSet(t)
    <3>1. PICK i \in 1..Len(s) : s[i] = y
        BY ToSetNat
    <3>2. i \in 1..Len(t) /\ t[i] = y
        BY <1>2, <3>1
    <3> QED
        BY <1>2, <3>2, ToSetNat
  <2>3. x \in ToSet(t)
    <3>1. Len(s) + 1 \in 1..Len(t)
        BY <1>2
    <3> QED
        BY <1>2, <3>1, ToSetNat
  <2> QED
      BY <2>1, <2>2, <2>3
<1>5. ASSUME Ascends(s), Before(ToSet(s), {x})
      PROVE  Ascends(t)
  <2>1. \A i \in 1..Len(s) : s[i] < x
      BY <1>5, ToSetNat DEF Before
  <2>2. ASSUME NEW i \in 1..Len(t), NEW j \in 1..Len(t), i < j
        PROVE  t[i] < t[j]
    <3>1. i \in 1..Len(s)
        BY <1>2, <2>2
    <3>2. CASE j \in 1..Len(s)
        BY <1>2, <1>5, <2>2, <3>1, <3>2 DEF Ascends
    <3>3. CASE j = Len(s) + 1
        BY <1>2, <2>1, <3>1, <3>3
    <3> QED
        BY <1>3, <3>2, <3>3
  <2> QED
      BY <2>2 DEF Ascends
<1> QED
    BY <1>1, <1>2, <1>4, <1>5

LEMMA ConcatHolds ==
    ASSUME NEW s \in Seq(Nat), NEW t \in Seq(Nat)
    PROVE  /\ s \o t \in Seq(Nat)
           /\ Len(s \o t) = Len(s) + Len(t)
           /\ ToSet(s \o t) = ToSet(s) \union ToSet(t)
           /\ Ascends(s) /\ Ascends(t) /\ Before(ToSet(s), ToSet(t)) => Ascends(s \o t)
<1>1. PICK u : u = s \o t
    OBVIOUS
<1>2. /\ u \in Seq(Nat) /\ Len(u) = Len(s) + Len(t) /\ Len(s) \in Nat /\ Len(t) \in Nat
      /\ \A i \in 1..Len(s) + Len(t) : u[i] = IF i <= Len(s) THEN s[i] ELSE t[i - Len(s)]
    BY <1>1, ConcatProperties, LenProperties
<1>3. /\ \A i \in 1..Len(s) : u[i] = s[i]
      /\ \A i \in 1..Len(t) : i + Len(s) \in 1..Len(u) /\ u[i + Len(s)] = t[i]
      /\ \A i \in 1..Len(u) : i \in 1..Len(s) \/ \E j \in 1..Len(t) : i = j + Len(s)
  <2>1. ASSUME NEW i \in 1..Len(u), i \notin 1..Len(s)
        PROVE  \E j \in 1..Len(t) : i = j + Len(s)
    <3>1. i - Len(s) \in 1..Len(t) /\ i = (i - Len(s)) + Len(s)
        BY <1>2, <2>1
    <3> QED
        BY <3>1
  <2>2. ASSUME NEW i \in 1..Len(s) PROVE u[i] = s[i]
      BY <1>2
  <2>3. ASSUME NEW i \in 1..Len(t)
        PROVE  i + Len(s) \in 1..Len(u) /\ u[i + Len(s)] = t[i]
    <3>1. i + Len(s) \in 1..Len(s) + Len(t) /\ ~(i + Len(s) <= Len(s)) /\ (i + Len(s)) - Len(s) = i
        BY <1>2
    <3> QED
        BY <1>2, <3>1
  <2> QED
      BY <2>1, <2>2, <2>3
<1>4. ToSet(u) = ToSet(s) \union ToSet(t)
  <2>1. ASSUME NEW y \in ToSet(u) PROVE y \in ToSet(s) \union ToSet(t)
    <3>1. PICK i \in 1..Len(u) : u[i] = y
        BY <1>2, ToSetNat
    <3>2. CASE i \in 1..Len(s)
      <4>1. s[i] = y
          BY <1>3, <3>1, <3>2
      <4> QED
          BY <3>2, <4>1, ToSetNat
    <3>3. CASE i \notin 1..Len(s)
      <4>1. PICK j \in 1..Len(t) : i = j + Len(s)
          BY <1>3, <3>3
      <4>2. t[j] = y
          BY <1>3, <3>1, <4>1
      <4> QED
          BY <4>2, ToSetNat
    <3> QED
        BY <3>2, <3>3
  <2>2. ASSUME NEW y \in ToSet(s) PROVE y \in ToSet(u)
    <3>1. PICK i \in 1..Len(s) : s[i] = y
        BY ToSetNat
    <3>2. i \in 1..Len(u) /\ u[i] = y
        BY <1>2, <1>3, <3>1
    <3> QED
        BY <1>2, <3>2, ToSetNat
  <2>3. ASSUME NEW y \in ToSet(t) PROVE y \in ToSet(u)
    <3>1. PICK i \in 1..Len(t) : t[i] = y
        BY ToSetNat
    <3>2. i + Len(s) \in 1..Len(u) /\ u[i + Len(s)] = y
        BY <1>3, <3>1
    <3> QED
        BY <1>2, <3>2, ToSetNat
  <2> QED
      BY <2>1, <2>2, <2>3
<1>5. ASSUME Ascends(s), Ascends(t), Before(ToSet(s), ToSet(t))
      PROVE  Ascends(u)
  <2>1. \A i \in 1..Len(s), j \in 1..Len(t) : s[i] < t[j]
      BY <1>5, ToSetNat DEF Before
  <2>2. ASSUME NEW i \in 1..Len(u), NEW j \in 1..Len(u), i < j
        PROVE  u[i] < u[j]
    <3>1. CASE j \in 1..Len(s)
        BY <1>2, <1>3, <1>5, <2>2, <3>1 DEF Ascends
    <3>2. CASE j \notin 1..Len(s)
      <4>1. PICK b \in 1..Len(t) : j = b + Len(s)
          BY <1>3, <3>2
      <4>2. CASE i \in 1..Len(s)
          BY <1>3, <2>1, <4>1, <4>2
      <4>3. CASE i \notin 1..Len(s)
        <5>1. PICK a \in 1..Len(t) : i = a + Len(s)
            BY <1>3, <4>3
        <5>2. a < b
            BY <1>2, <2>2, <4>1, <5>1
        <5> QED
            BY <1>3, <1>5, <4>1, <5>1, <5>2 DEF Ascends
      <4> QED
          BY <4>2, <4>3
    <3> QED
        BY <3>1, <3>2
  <2> QED
      BY <2>2 DEF Ascends
<1> QED
    BY <1>1, <1>2, <1>4, <1>5

LEMMA HeadTailHolds ==
    ASSUME NEW s \in Seq(Nat), s # <<>>
    PROVE  /\ Head(s) \in Nat /\ Tail(s) \in Seq(Nat)
           /\ Len(Tail(s)) = Len(s) - 1
           /\ ToSet(s) = {Head(s)} \union ToSet(Tail(s))
           /\ Ascends(s) => Ascends(Tail(s)) /\ Before({Head(s)}, ToSet(Tail(s)))
<1>1. PICK t : t = Tail(s)
    OBVIOUS
<1>2. /\ t \in Seq(Nat) /\ Len(t) = Len(s) - 1 /\ Len(s) \in Nat /\ Len(s) # 0
      /\ \A i \in 1..Len(t) : t[i] = s[i + 1]
      /\ Head(s) = s[1] /\ Head(s) \in Nat
    BY <1>1, HeadTailProperties, LenProperties, ToSetNat
<1>3. \A i \in 1..Len(s) : i = 1 \/ (i - 1 \in 1..Len(t) /\ t[i - 1] = s[i])
    BY <1>2
<1>4. ToSet(s) = {Head(s)} \union ToSet(t)
  <2>1. ASSUME NEW y \in ToSet(s) PROVE y \in {Head(s)} \union ToSet(t)
    <3>1. PICK i \in 1..Len(s) : s[i] = y
        BY ToSetNat
    <3>2. CASE i = 1
        BY <1>2, <3>1, <3>2
    <3>3. CASE i # 1
      <4>1. i - 1 \in 1..Len(t) /\ t[i - 1] = y
          BY <1>3, <3>1, <3>3
      <4> QED
          BY <1>2, <4>1, ToSetNat
    <3> QED
        BY <3>2, <3>3
  <2>2. ASSUME NEW y \in ToSet(t) PROVE y \in ToSet(s)
    <3>1. PICK i \in 1..Len(t) : t[i] = y
        BY <1>2, ToSetNat
    <3>2. i + 1 \in 1..Len(s) /\ s[i + 1] = y
        BY <1>2, <3>1
    <3> QED
        BY <3>2, ToSetNat
  <2>3. Head(s) \in ToSet(s)
    <3>1. 1 \in 1..Len(s) /\ s[1] = Head(s)
        BY <1>2
    <3> QED
        BY <3>1, ToSetNat
  <2> QED
      BY <2>1, <2>2, <2>3
<1>5. ASSUME Ascends(s)
      PROVE  Ascends(t) /\ Before({Head(s)}, ToSet(t))
  <2>1. \A i \in 1..Len(t) : i + 1 \in 1..Len(s) /\ 1 \in 1..Len(s) /\ s[1] < s[i + 1]
      BY <1>2, <1>5 DEF Ascends
  <2>2. Before({Head(s)}, ToSet(t))
    <3>1. \A i \in 1..Len(t) : Head(s) < t[i]
        BY <1>2, <2>1
    <3>2. \A x \in ToSet(t) : \E i \in 1..Len(t) : t[i] = x
        BY <1>2, ToSetNat
    <3> QED
        BY <3>1, <3>2 DEF Before
  <2>3. ASSUME NEW i \in 1..Len(t), NEW j \in 1..Len(t), i < j
        PROVE  t[i] < t[j]
    <3>1. i + 1 \in 1..Len(s) /\ j + 1 \in 1..Len(s) /\ i + 1 < j + 1
        BY <1>2, <2>3
    <3>2. s[i + 1] < s[j + 1]
        BY <1>5, <3>1 DEF Ascends
    <3> QED
        BY <1>2, <3>2
  <2>4. Ascends(t)
      BY <2>3 DEF Ascends
  <2> QED
      BY <2>2, <2>4
<1> QED
    BY <1>1, <1>2, <1>4, <1>5

----------------------------------------------------------------------------
(* The audit writer.  InPlace, taken apart: each part is in order, the     *)
(* parts follow each other, and with what is lost they are the events      *)
(* given.                                                                  *)

Hand == {taken} \ {0}

PipeTypes ==
    /\ given \in Nat /\ taken \in Nat
    /\ auditRows \in Seq(Nat) /\ batch \in Seq(Nat)
    /\ buffer \in Seq(Nat) /\ channel \in Seq(Nat)
    /\ writer \in Positions
    /\ (taken # 0) <=> (writer = "endpoints")
    /\ (batch # <<>>) <=> (writer = "insert")
    /\ Len(channel) <= ChannelSize /\ Len(buffer) < BatchSize

PipeOrder ==
    /\ Ascends(auditRows) /\ Ascends(batch) /\ Ascends(buffer) /\ Ascends(channel)
    /\ Before(ToSet(auditRows), ToSet(batch) \union ToSet(buffer) \union Hand \union ToSet(channel))
    /\ Before(ToSet(batch), ToSet(buffer) \union Hand \union ToSet(channel))
    /\ Before(ToSet(buffer), Hand \union ToSet(channel))
    /\ Before(Hand, ToSet(channel))

Waiting == ToSet(auditRows) \union ToSet(batch) \union ToSet(buffer) \union Hand \union ToSet(channel)

PipeWhole == Waiting \union lost = 1..given /\ Waiting \intersect lost = {}

PipeInv == PipeTypes /\ PipeOrder /\ PipeWhole

LEMMA PipeTypeOK ==
    ASSUME PipeInv
    PROVE  AuditTypeOK
<1> USE DEF PipeInv
<1>1. PICK h : h = IF taken = 0 THEN <<>> ELSE <<taken>>
    OBVIOUS
<1>2. h \in Seq(Nat) /\ ToSet(h) = Hand /\ Ascends(h)
  <2>1. CASE taken = 0
      BY <1>1, <2>1, EmptyHolds DEF Hand
  <2>2. CASE taken # 0
    <3>1. h = Append(<<>>, taken) /\ taken \in Nat
        BY <1>1, <2>2 DEF PipeTypes
    <3>2. Ascends(<<>>) /\ Before({}, {taken}) /\ <<>> \in Seq(Nat) /\ ToSet(<<>>) = {}
        BY EmptyHolds DEF Before
    <3>3. PICK e \in Seq(Nat) : e = <<>>
        BY <3>2
    <3>4. h = Append(e, taken) /\ ToSet(e) = {} /\ Ascends(e) /\ Before(ToSet(e), {taken})
        BY <3>1, <3>2, <3>3
    <3>5. h \in Seq(Nat) /\ ToSet(h) = {taken} /\ Ascends(h)
        BY <3>1, <3>4, AppendHolds
    <3> QED
        BY <2>2, <3>5 DEF Hand
  <2> QED
      BY <2>1, <2>2
<1>3. PICK a : a = auditRows \o batch
    OBVIOUS
<1>4. a \in Seq(Nat) /\ ToSet(a) = ToSet(auditRows) \union ToSet(batch) /\ Ascends(a)
  <2>1. Before(ToSet(auditRows), ToSet(batch))
      BY DEF PipeOrder, Before
  <2> QED
      BY <1>3, <2>1, ConcatHolds DEF PipeTypes, PipeOrder
<1>5. PICK b : b = a \o buffer
    OBVIOUS
<1>6. b \in Seq(Nat) /\ ToSet(b) = ToSet(a) \union ToSet(buffer) /\ Ascends(b)
  <2>1. Before(ToSet(a), ToSet(buffer))
      BY <1>4 DEF PipeOrder, Before
  <2> QED
      BY <1>4, <1>5, <2>1, ConcatHolds DEF PipeTypes, PipeOrder
<1>7. PICK c : c = b \o h
    OBVIOUS
<1>8. c \in Seq(Nat) /\ ToSet(c) = ToSet(b) \union Hand /\ Ascends(c)
  <2>1. Before(ToSet(b), Hand)
      BY <1>4, <1>6 DEF PipeOrder, Before
  <2> QED
      BY <1>2, <1>6, <1>7, <2>1, ConcatHolds
<1>9. PICK d : d = c \o channel
    OBVIOUS
<1>10. d \in Seq(Nat) /\ ToSet(d) = ToSet(c) \union ToSet(channel) /\ Ascends(d)
  <2>1. Before(ToSet(c), ToSet(channel))
      BY <1>4, <1>6, <1>8 DEF PipeOrder, Before
  <2> QED
      BY <1>8, <1>9, <2>1, ConcatHolds DEF PipeTypes, PipeOrder
<1>11. InPlace = d /\ ToSet(InPlace) = Waiting
    BY <1>1, <1>3, <1>4, <1>5, <1>6, <1>7, <1>8, <1>9, <1>10 DEF InPlace, Waiting
<1> QED
    BY <1>10, <1>11 DEF PipeTypes, PipeWhole, AuditTypeOK, Ascends

LEMMA PipeStarts ==
    ASSUME AuditInit
    PROVE  PipeInv
<1>1. /\ given = 0 /\ taken = 0 /\ writer = "select" /\ lost = {}
      /\ channel = <<>> /\ buffer = <<>> /\ batch = <<>> /\ auditRows = <<>>
    BY DEF AuditInit
<1>2. Hand = {}
    BY <1>1 DEF Hand
<1>3. PipeTypes
    BY <1>1, EmptyHolds, AuditAssumption DEF PipeTypes, Positions, AuditAssumption
<1>4. PipeOrder
    BY <1>1, <1>2, EmptyHolds DEF PipeOrder, Before
<1>5. PipeWhole
    BY <1>1, <1>2, EmptyHolds DEF PipeWhole, Waiting
<1> QED
    BY <1>3, <1>4, <1>5 DEF PipeInv

\* An event that is given is the last in the channel, or lost at once.
LEMMA LogKeeps ==
    ASSUME PipeInv, Log
    PROVE  PipeInv'
<1>1. /\ given \in Nat /\ given' = given + 1
      /\ writer' = writer /\ taken' = taken /\ buffer' = buffer /\ batch' = batch
      /\ auditRows' = auditRows /\ Hand' = Hand
      /\ PipeTypes /\ PipeOrder /\ PipeWhole
    BY DEF Log, PipeInv, PipeTypes, Hand
<1>2. given' \in Nat /\ 1..given' = 1..given \union {given'} /\ given' \notin 1..given
    BY <1>1
<1>3. CASE Len(channel) < ChannelSize
  <2>1. channel' = Append(channel, given') /\ lost' = lost
      BY <1>3 DEF Log
  <2>2. Before(Waiting, {given'})
      BY <1>1 DEF PipeWhole, Before
  <2>3. /\ channel' \in Seq(Nat) /\ Len(channel') = Len(channel) + 1
        /\ ToSet(channel') = ToSet(channel) \union {given'}
        /\ Ascends(channel')
    <3>1. Before(ToSet(channel), {given'})
        BY <2>2 DEF Before, Waiting
    <3> QED
        BY <1>1, <1>2, <2>1, <3>1, AppendHolds DEF PipeTypes, PipeOrder
  <2>4. PipeTypes'
      BY <1>1, <1>2, <1>3, <2>3, LenProperties, AuditAssumption DEF PipeTypes, AuditAssumption
  <2>5. PipeOrder'
    <3>1. \A x \in Waiting : x < given'
        BY <2>2 DEF Before
    <3> QED
        BY <1>1, <2>3, <3>1 DEF PipeOrder, Before, Waiting
  <2>6. PipeWhole'
      BY <1>1, <1>2, <2>1, <2>3 DEF PipeWhole, Waiting
  <2> QED
      BY <2>4, <2>5, <2>6 DEF PipeInv
<1>4. CASE ~(Len(channel) < ChannelSize)
  <2>1. channel' = channel /\ lost' = lost \union {given'}
      BY <1>4 DEF Log
  <2>2. PipeTypes' /\ PipeOrder'
      BY <1>1, <1>2, <2>1 DEF PipeTypes, PipeOrder
  <2>3. PipeWhole'
      BY <1>1, <1>2, <2>1 DEF PipeWhole, Waiting
  <2> QED
      BY <2>2, <2>3 DEF PipeInv
<1> QED
    BY <1>3, <1>4

LEMMA ReceiveKeeps ==
    ASSUME PipeInv, Receive
    PROVE  PipeInv'
<1>1. /\ writer = "select" /\ channel # <<>>
      /\ taken' = Head(channel) /\ channel' = Tail(channel) /\ writer' = "endpoints"
      /\ given' = given /\ buffer' = buffer /\ batch' = batch
      /\ auditRows' = auditRows /\ lost' = lost
      /\ PipeTypes /\ PipeOrder /\ PipeWhole
    BY DEF Receive, PipeInv
<1>2. /\ taken' \in Nat /\ channel' \in Seq(Nat) /\ Len(channel') = Len(channel) - 1
      /\ ToSet(channel) = {taken'} \union ToSet(channel')
      /\ Ascends(channel') /\ Before({taken'}, ToSet(channel'))
    BY <1>1, HeadTailHolds DEF PipeTypes, PipeOrder
<1>3. taken = 0 /\ Hand = {}
    BY <1>1 DEF PipeTypes, Hand
<1>4. taken' # 0 /\ Hand' = {taken'}
  <2>1. taken' \in 1..given
      BY <1>1, <1>2 DEF PipeWhole, Waiting
  <2> QED
      BY <2>1 DEF Hand
<1>5. PipeTypes'
    BY <1>1, <1>2, <1>4, LenProperties, AuditAssumption DEF PipeTypes, Positions, AuditAssumption
<1>6. PipeOrder'
    BY <1>1, <1>2, <1>3, <1>4 DEF PipeOrder, Before
<1>7. PipeWhole'
    BY <1>1, <1>2, <1>3, <1>4 DEF PipeWhole, Waiting
<1> QED
    BY <1>5, <1>6, <1>7 DEF PipeInv

\* What is drained goes before what comes.
LEMMA DrainKeeps ==
    ASSUME PipeInv, batch = <<>>, NEW b \in Seq(Nat), b # <<>>, Ascends(b),
           ToSet(b) = ToSet(buffer) \union Hand,
           Drain(b), taken' = 0,
           UNCHANGED <<given, channel, auditRows, lost>>
    PROVE  PipeInv'
<1>1. /\ buffer' = <<>> /\ batch' = b /\ writer' = "insert"
      /\ PipeTypes /\ PipeOrder /\ PipeWhole
      /\ given' = given /\ channel' = channel /\ auditRows' = auditRows /\ lost' = lost
    BY DEF Drain, PipeInv
<1>2. Hand' = {} /\ ToSet(buffer') = {} /\ ToSet(batch) = {} /\ ToSet(batch') = ToSet(buffer) \union Hand
    BY <1>1, EmptyHolds DEF Hand
<1>3. PipeTypes'
    BY <1>1, EmptyHolds, AuditAssumption DEF PipeTypes, Positions, AuditAssumption
<1>4. PipeOrder'
    BY <1>1, <1>2, EmptyHolds DEF PipeOrder, Before
<1>5. PipeWhole'
    BY <1>1, <1>2 DEF PipeWhole, Waiting
<1> QED
    BY <1>3, <1>4, <1>5 DEF PipeInv

LEMMA DispatchKeeps ==
    ASSUME PipeInv, Dispatch
    PROVE  PipeInv'
<1>1. PICK full : full = Append(buffer, taken)
    OBVIOUS
<1>2. /\ writer = "endpoints" /\ taken' = 0
      /\ IF Len(full) >= BatchSize
         THEN Drain(full)
         ELSE buffer' = full /\ writer' = "select" /\ UNCHANGED batch
      /\ given' = given /\ channel' = channel /\ auditRows' = auditRows /\ lost' = lost
      /\ PipeTypes /\ PipeOrder /\ PipeWhole
    BY <1>1 DEF Dispatch, BufferTaken, PipeInv
<1>3. taken # 0 /\ Hand = {taken} /\ batch = <<>> /\ Hand' = {}
    BY <1>2 DEF PipeTypes, Hand
<1>4. /\ full \in Seq(Nat) /\ Len(full) = Len(buffer) + 1
      /\ ToSet(full) = ToSet(buffer) \union Hand
      /\ Ascends(full)
  <2>1. Before(ToSet(buffer), {taken})
      BY <1>2, <1>3 DEF PipeOrder, Before
  <2> QED
      BY <1>1, <1>2, <1>3, <2>1, AppendHolds DEF PipeTypes, PipeOrder
<1>5. CASE Len(full) >= BatchSize
  <2>1. full # <<>>
      BY <1>3, <1>4, ToSetNat
  <2> QED
      BY <1>2, <1>3, <1>4, <1>5, <2>1, DrainKeeps
<1>6. CASE ~(Len(full) >= BatchSize)
  <2>1. buffer' = full /\ writer' = "select" /\ batch' = batch
      BY <1>2, <1>6
  <2>2. PipeTypes'
      BY <1>2, <1>3, <1>4, <1>6, <2>1, LenProperties, AuditAssumption
         DEF PipeTypes, Positions, AuditAssumption
  <2>3. PipeOrder'
      BY <1>2, <1>3, <1>4, <2>1 DEF PipeOrder, Before
  <2>4. PipeWhole'
      BY <1>2, <1>3, <1>4, <2>1 DEF PipeWhole, Waiting
  <2> QED
      BY <2>2, <2>3, <2>4 DEF PipeInv
<1> QED
    BY <1>5, <1>6

LEMMA TickKeeps ==
    ASSUME PipeInv, Tick
    PROVE  PipeInv'
<1>1. /\ writer = "select" /\ buffer # <<>> /\ Drain(buffer)
      /\ given' = given /\ channel' = channel /\ taken' = taken
      /\ auditRows' = auditRows /\ lost' = lost
      /\ PipeTypes /\ PipeOrder
    BY DEF Tick, PipeInv
<1>2. taken = 0 /\ batch = <<>> /\ Hand = {}
    BY <1>1 DEF PipeTypes, Hand
<1> QED
    BY <1>1, <1>2, DrainKeeps DEF PipeTypes, PipeOrder

\* The rows of a batch follow those of the table.
LEMMA InsertedRows ==
    ASSUME PipeInv
    PROVE  /\ auditRows \o batch \in Seq(Nat)
           /\ ToSet(auditRows \o batch) = ToSet(auditRows) \union ToSet(batch)
           /\ Ascends(auditRows \o batch)
<1>1. Before(ToSet(auditRows), ToSet(batch))
    BY DEF PipeInv, PipeOrder, Before
<1> QED
    BY <1>1, ConcatHolds DEF PipeInv, PipeTypes, PipeOrder

LEMMA InsertKeeps ==
    ASSUME PipeInv, BatchInsert
    PROVE  PipeInv'
<1>1. /\ writer = "insert" /\ writer' = "select" /\ batch' = <<>>
      /\ \/ auditRows' = auditRows \o batch /\ lost' = lost
         \/ lost' = lost \union ToSet(batch) /\ auditRows' = auditRows
      /\ given' = given /\ channel' = channel /\ taken' = taken /\ buffer' = buffer
      /\ PipeTypes /\ PipeOrder /\ PipeWhole
    BY DEF BatchInsert, PipeInv
<1>2. taken = 0 /\ Hand = {} /\ Hand' = {} /\ ToSet(batch') = {} /\ Ascends(batch')
    BY <1>1, EmptyHolds DEF PipeTypes, Hand
<1>3. /\ auditRows' \in Seq(Nat) /\ Ascends(auditRows')
      /\ ToSet(auditRows') \subseteq ToSet(auditRows) \union ToSet(batch)
      /\ ToSet(auditRows') \union lost' = ToSet(auditRows) \union ToSet(batch) \union lost
      /\ (ToSet(auditRows') \union ToSet(buffer) \union ToSet(channel)) \intersect lost' = {}
  <2>1. CASE auditRows' = auditRows \o batch /\ lost' = lost
      BY <1>1, <2>1, InsertedRows DEF PipeWhole, Waiting
  <2>2. CASE lost' = lost \union ToSet(batch) /\ auditRows' = auditRows
    <3>1. \A x \in ToSet(batch) : x \in Nat
        BY <1>1, ToSetNat DEF PipeTypes
    <3>2. ToSet(batch) \intersect (ToSet(auditRows) \union ToSet(buffer) \union ToSet(channel)) = {}
        BY <1>1, <3>1 DEF PipeOrder, Before
    <3> QED
        BY <1>1, <2>2, <3>2 DEF PipeTypes, PipeOrder, PipeWhole, Waiting
  <2> QED
      BY <1>1, <2>1, <2>2
<1>4. PipeTypes'
    BY <1>1, <1>2, <1>3, EmptyHolds DEF PipeTypes, Positions
<1>5. PipeOrder'
    BY <1>1, <1>2, <1>3 DEF PipeOrder, Before
<1>6. PipeWhole'
    BY <1>1, <1>2, <1>3 DEF PipeWhole, Waiting
<1> QED
    BY <1>4, <1>5, <1>6 DEF PipeInv

LEMMA StopKeeps ==
    ASSUME PipeInv, StopProcess
    PROVE  PipeInv'
<1> DEFINE volatile == ToSet(channel) \union ToSet(buffer) \union Hand
<1>1. /\ \/ auditRows' = auditRows \o batch /\ lost' = lost \union volatile
         \/ lost' = lost \union volatile \union ToSet(batch) /\ auditRows' = auditRows
      /\ channel' = <<>> /\ writer' = "select" /\ taken' = 0
      /\ buffer' = <<>> /\ batch' = <<>> /\ given' = given
      /\ PipeTypes /\ PipeOrder /\ PipeWhole
    BY DEF StopProcess, PipeInv, Hand
<1>2. /\ Hand' = {} /\ ToSet(batch') = {} /\ ToSet(buffer') = {} /\ ToSet(channel') = {}
      /\ Ascends(batch') /\ Ascends(buffer') /\ Ascends(channel')
    BY <1>1, EmptyHolds DEF Hand
<1>3. /\ ToSet(auditRows) \subseteq Nat /\ ToSet(batch) \subseteq Nat
      /\ ToSet(buffer) \subseteq Nat /\ ToSet(channel) \subseteq Nat /\ Hand \subseteq Nat
    BY <1>1, ToSetNat DEF PipeTypes, Hand
<1>4. /\ (ToSet(auditRows) \union ToSet(batch)) \intersect volatile = {}
      /\ ToSet(auditRows) \intersect ToSet(batch) = {}
    BY <1>1, <1>3 DEF PipeOrder, Before
<1>5. /\ auditRows' \in Seq(Nat) /\ Ascends(auditRows')
      /\ ToSet(auditRows') \union lost' = Waiting \union lost
      /\ ToSet(auditRows') \intersect lost' = {}
  <2>1. CASE auditRows' = auditRows \o batch /\ lost' = lost \union volatile
      BY <1>1, <1>4, <2>1, InsertedRows DEF PipeWhole, Waiting
  <2>2. CASE lost' = lost \union volatile \union ToSet(batch) /\ auditRows' = auditRows
      BY <1>1, <1>4, <2>2 DEF PipeTypes, PipeOrder, PipeWhole, Waiting
  <2> QED
      BY <1>1, <2>1, <2>2
<1>6. PipeTypes'
    BY <1>1, <1>5, EmptyHolds, AuditAssumption DEF PipeTypes, Positions, AuditAssumption
<1>7. PipeOrder'
    BY <1>2, <1>5 DEF PipeOrder, Before
<1>8. PipeWhole'
    BY <1>1, <1>2, <1>5 DEF PipeWhole, Waiting
<1> QED
    BY <1>6, <1>7, <1>8 DEF PipeInv

\* Everything but the writer's own state stays in the other steps.
LEMMA PipeStep ==
    ASSUME PipeInv, [AuditNext]_auditVars
    PROVE  PipeInv'
<1>1. ASSUME \/ \E t \in deliveries : NextEndpoint(t) \/ SendWithRetry(t)
             \/ \E e \in Endpoints : DeleteWebhook(e) \/ TestWebhook(e)
             \/ UNCHANGED auditVars
      PROVE  UNCHANGED given /\ UNCHANGED writerVars
    BY <1>1 DEF NextEndpoint, SendWithRetry, DeleteWebhook, TestWebhook, auditVars
<1>2. ASSUME UNCHANGED given, UNCHANGED writerVars
      PROVE  PipeInv'
    BY <1>2 DEF writerVars, PipeInv, PipeTypes, PipeOrder, PipeWhole, Waiting, Hand
<1>3. LogEvent \/ (\E e \in Endpoints : CreateWebhook(e)) => Log
    BY DEF LogEvent, CreateWebhook
<1> QED
    BY <1>1, <1>2, <1>3, LogKeeps, ReceiveKeeps, DispatchKeeps, TickKeeps, InsertKeeps, StopKeeps
       DEF AuditNext, Writer

\* Every event given to the writer is in one place, or lost, and what waits
\* for the table is in the order given (service.rs log, the loop, flush).
THEOREM EventsInPlace == AuditSpec => []AuditTypeOK
<1>1. AuditInit => PipeInv
    BY PipeStarts
<1>2. PipeInv /\ [AuditNext]_auditVars => PipeInv'
    BY PipeStep
<1>3. PipeInv => AuditTypeOK
    BY PipeTypeOK
<1> QED
    BY <1>1, <1>2, <1>3, PTL DEF AuditSpec

\* A table that is extended by what follows it keeps the promise.
LEMMA ExtensionRecords ==
    ASSUME PipeInv, auditRows' = auditRows \o batch, given' = given, batch # <<>>
    PROVE  AuditLog!Record
<1>1. PICK r : r = auditRows \o batch
    OBVIOUS
<1>2. /\ auditRows \in Seq(Nat) /\ batch \in Seq(Nat) /\ given \in Nat
      /\ r \in Seq(Nat) /\ Ascends(r) /\ Len(r) = Len(auditRows) + Len(batch)
      /\ ToSet(r) = ToSet(auditRows) \union ToSet(batch)
      /\ Len(batch) \in Nat /\ Len(batch) # 0 /\ Len(auditRows) \in Nat
    BY <1>1, InsertedRows, ConcatHolds, ToSetNat, LenProperties DEF PipeInv, PipeTypes
<1>3. \A i \in 1..Len(auditRows) : r[i] = auditRows[i]
    BY <1>1, <1>2, ConcatProperties
<1>4. IsStrictPrefix(auditRows, r)
  <2>1. PICK p : p = SubSeq(r, 1, Len(auditRows))
      OBVIOUS
  <2>2. SubSeq(auditRows, 1, Len(auditRows)) = auditRows
      BY <1>2, SubSeqFull
  <2>3. p \in Seq(Nat) /\ Len(p) = Len(auditRows) /\ \A i \in 1..Len(p) : p[i] = r[i]
      BY <1>2, <2>1, SubSeqProperties
  <2>4. p = auditRows
      BY <1>2, <1>3, <2>3, SeqEqual
  <2>5. Len(auditRows) <= Len(r) /\ auditRows # r
      BY <1>2
  <2> QED
      BY <2>1, <2>2, <2>4, <2>5 DEF IsStrictPrefix, IsPrefix
<1>5. AuditLog!Increasing(r)
    BY <1>2 DEF Ascends, AuditLog!Increasing
<1>6. r[Len(r)] <= given
  <2>1. r[Len(r)] \in ToSet(r)
    <3>1. Len(r) \in 1..Len(r)
        BY <1>2
    <3> QED
        BY <1>2, <3>1, ToSetNat
  <2>2. ToSet(r) \subseteq 1..given
      BY <1>2 DEF PipeInv, PipeWhole, Waiting
  <2> QED
      BY <1>2, <2>1, <2>2
<1> QED
    BY <1>1, <1>4, <1>5, <1>6
       DEF AuditLog!Record, AuditLog!IsStrictPrefix, AuditLog!IsPrefix, IsStrictPrefix, IsPrefix

LEMMA PromiseStep ==
    ASSUME PipeInv, [AuditNext]_auditVars
    PROVE  [AuditLog!Offer \/ AuditLog!Record]_<<given, auditRows>>
<1>1. ASSUME auditRows' = auditRows \o batch, given' = given
      PROVE  AuditLog!Record \/ UNCHANGED <<given, auditRows>>
  <2>1. CASE batch = <<>>
      BY <1>1, <2>1, ConcatEmptySeq DEF PipeInv, PipeTypes
  <2> QED
      BY <1>1, <2>1, ExtensionRecords
<1>2. ASSUME BatchInsert \/ StopProcess
      PROVE  /\ given' = given
             /\ auditRows' = auditRows \o batch \/ auditRows' = auditRows
    BY <1>2 DEF BatchInsert, StopProcess
<1>3. Log => AuditLog!Offer
    BY DEF Log, AuditLog!Offer
<1>4. ASSUME \/ Receive \/ Dispatch \/ Tick
             \/ \E t \in deliveries : NextEndpoint(t) \/ SendWithRetry(t)
             \/ \E e \in Endpoints : DeleteWebhook(e) \/ TestWebhook(e)
             \/ UNCHANGED auditVars
      PROVE  UNCHANGED <<given, auditRows>>
    BY <1>4 DEF Receive, Dispatch, BufferTaken, Tick, NextEndpoint, SendWithRetry,
                DeleteWebhook, TestWebhook, auditVars, writerVars
<1>5. LogEvent \/ (\E e \in Endpoints : CreateWebhook(e)) => Log
    BY DEF LogEvent, CreateWebhook
<1> QED
    BY <1>1, <1>2, <1>3, <1>4, <1>5 DEF AuditNext, Writer

(***************************************************************************)
(* The writer implements AuditPromise: whatever fails, is dropped or       *)
(* stops, the table only grows, by events in the order given and none      *)
(* twice (service.rs, audit_log.rs batch_insert).                          *)
(***************************************************************************)
THEOREM AuditKeepsPromise == AuditSpec => KeepsPromise
<1>1. AuditInit => AuditLog!PromiseInit
    BY DEF AuditInit, AuditLog!PromiseInit
<1>2. AuditInit => PipeInv
    BY PipeStarts
<1>3. PipeInv /\ [AuditNext]_auditVars => PipeInv'
    BY PipeStep
<1>4. PipeInv /\ [AuditNext]_auditVars => [AuditLog!Offer \/ AuditLog!Record]_<<given, auditRows>>
    BY PromiseStep
<1> QED
    BY <1>1, <1>2, <1>3, <1>4, PTL DEF AuditSpec, KeepsPromise, AuditLog!PromiseSpec

----------------------------------------------------------------------------
(* The sinks.  An entry is in one place: the channel, the buffer, one of   *)
(* the batches being written, written, or gone.                            *)

Ended == written \union gone
Queued == ToSet(queue) \union ToSet(held)

SinkTypes ==
    /\ pushed \in Nat /\ writeErrors \in Nat
    /\ queue \in Seq(Nat) /\ held \in Seq(Nat) /\ Ascends(queue)

SinkPlaces ==
    /\ \A x \in Queued \union Ended : x <= pushed
    /\ Ended \subseteq Nat
    /\ \A b \in writing : b \subseteq 0..pushed
    /\ ToSet(queue) \intersect ToSet(held) = {}
    /\ Queued \intersect Ended = {}
    /\ written \intersect gone = {}
    /\ \A b \in writing : b \intersect (Ended \union Queued) = {}
    /\ \A b \in writing, c \in writing : b = c \/ b \intersect c = {}

SinkInv == SinkTypes /\ SinkPlaces

LEMMA SinkStarts ==
    ASSUME SinkInit
    PROVE  SinkInv
<1>1. /\ pushed = 0 /\ queue = <<>> /\ held = <<>> /\ writing = {}
      /\ written = {} /\ gone = {} /\ writeErrors = 0
    BY DEF SinkInit
<1>2. Queued = {} /\ Ended = {} /\ ToSet(queue) = {} /\ ToSet(held) = {}
    BY <1>1, EmptyHolds DEF Queued, Ended
<1> QED
    BY <1>1, <1>2, EmptyHolds DEF SinkInv, SinkTypes, SinkPlaces

LEMMA PushKeeps ==
    ASSUME SinkInv, Push
    PROVE  SinkInv'
<1>1. /\ pushed \in Nat /\ pushed' = pushed + 1 /\ pushed' \in Nat
      /\ held' = held /\ writing' = writing /\ written' = written /\ sink' = sink
      /\ SinkTypes /\ SinkPlaces
    BY DEF Push, SinkInv, SinkTypes
<1>2. /\ ToSet(queue) \subseteq Nat /\ ToSet(held) \subseteq Nat
      /\ \A x \in Queued \union Ended : x \in Nat /\ x <= pushed
    BY <1>1, ToSetNat DEF SinkTypes, SinkPlaces, Queued
<1>3. /\ pushed' \notin Queued \union Ended
      /\ \A b \in writing : pushed' \notin b /\ b \subseteq 0..pushed'
    BY <1>1, <1>2 DEF SinkPlaces
<1>4. CASE Len(queue) < QueueSize
  <2>1. queue' = Append(queue, pushed') /\ gone' = gone /\ writeErrors' = writeErrors
      BY <1>4 DEF Push
  <2>2. /\ queue' \in Seq(Nat) /\ ToSet(queue') = ToSet(queue) \union {pushed'} /\ Ascends(queue')
    <3>1. Before(ToSet(queue), {pushed'})
        BY <1>1, <1>2 DEF Before, Queued
    <3> QED
        BY <1>1, <2>1, <3>1, AppendHolds DEF SinkTypes
  <2>3. Queued' = Queued \union {pushed'} /\ Ended' = Ended
      BY <1>1, <2>1, <2>2 DEF Queued, Ended
  <2>4. SinkPlaces'
    <3>1. \A x \in Queued' \union Ended' : x <= pushed'
        BY <1>1, <1>2, <2>3
    <3>2. ToSet(queue') \intersect ToSet(held') = {}
        BY <1>1, <1>3, <2>2 DEF SinkPlaces, Queued
    <3> QED
        BY <1>1, <1>3, <2>1, <2>3, <3>1, <3>2 DEF SinkPlaces
  <2> QED
      BY <1>1, <2>1, <2>2, <2>4 DEF SinkInv, SinkTypes
<1>5. CASE ~(Len(queue) < QueueSize)
  <2>1. /\ gone' = gone \union {pushed'} /\ queue' = queue
        /\ writeErrors' = IF sink = "llm_log" THEN writeErrors + 1 ELSE writeErrors
      BY <1>5 DEF Push, CountError
  <2>2. Queued' = Queued /\ Ended' = Ended \union {pushed'}
      BY <1>1, <2>1 DEF Queued, Ended
  <2>3. SinkPlaces'
    <3>1. \A x \in Queued' \union Ended' : x <= pushed'
        BY <1>1, <1>2, <2>2
    <3> QED
        BY <1>1, <1>3, <2>1, <2>2, <3>1 DEF SinkPlaces, Ended
  <2>4. SinkTypes'
      BY <1>1, <2>1 DEF SinkTypes
  <2> QED
      BY <2>3, <2>4 DEF SinkInv
<1> QED
    BY <1>4, <1>5

\* A batch is written of entries that leave the channel or the buffer.
LEMMA WriteKeeps ==
    ASSUME SinkInv, NEW b, b \subseteq Queued,
           writing' \subseteq writing \union {b},
           queue' \in Seq(Nat), held' \in Seq(Nat), Ascends(queue'),
           Queued' \subseteq Queued, b \intersect Queued' = {},
           ToSet(queue') \intersect ToSet(held') = {},
           UNCHANGED <<sink, pushed, written, gone, writeErrors>>
    PROVE  SinkInv'
<1>1. /\ pushed' = pushed /\ written' = written /\ gone' = gone /\ sink' = sink
      /\ writeErrors' = writeErrors /\ Ended' = Ended
      /\ SinkTypes /\ SinkPlaces
    BY DEF Ended, SinkInv
<1>2. b \subseteq 0..pushed
  <2>1. Queued \subseteq Nat
      BY <1>1, ToSetNat DEF SinkTypes, Queued
  <2> QED
      BY <1>1, <2>1 DEF SinkTypes, SinkPlaces
<1>3. SinkPlaces'
  <2>1. \A x \in Queued' \union Ended' : x <= pushed'
      BY <1>1 DEF SinkPlaces
  <2>2. \A c \in writing' : c \in writing \/ c = b
      OBVIOUS
  <2>3. \A c \in writing' : c \subseteq 0..pushed'
    <3>1. \A c \in writing : c \subseteq 0..pushed
        BY <1>1 DEF SinkPlaces
    <3> QED
        BY <1>1, <1>2, <2>2, <3>1
  <2>4. Queued' \intersect Ended' = {} /\ Ended' \subseteq Nat /\ written' \intersect gone' = {}
      BY <1>1 DEF SinkPlaces
  <2>5. \A c \in writing' : c \intersect (Ended' \union Queued') = {}
      BY <1>1, <2>2 DEF SinkPlaces
  <2>6. \A c \in writing', d \in writing' : c = d \/ c \intersect d = {}
    <3>1. \A c \in writing : c \intersect b = {}
        BY <1>1 DEF SinkPlaces
    <3>2. \A c \in writing, d \in writing : c = d \/ c \intersect d = {}
        BY <1>1 DEF SinkPlaces
    <3> QED
        BY <2>2, <3>1, <3>2
  <2> QED
      BY <2>1, <2>3, <2>4, <2>5, <2>6 DEF SinkPlaces
<1> QED
    BY <1>1, <1>3 DEF SinkInv, SinkTypes

LEMMA TakeKeeps ==
    ASSUME SinkInv, Take
    PROVE  SinkInv'
<1>1. /\ queue # <<>> /\ queue' = Tail(queue)
      /\ UNCHANGED <<sink, pushed, written, gone, writeErrors>>
    BY DEF Take, TakeLog, TakeLake, TakeExport
<1>2. PICK x : x = Head(queue)
    OBVIOUS
<1>3. PICK full : full = Append(held, x)
    OBVIOUS
<1>4. /\ x \in Nat /\ queue' \in Seq(Nat) /\ Ascends(queue')
      /\ ToSet(queue) = {x} \union ToSet(queue')
      /\ x \notin ToSet(queue') /\ x \notin ToSet(held)
      /\ held \in Seq(Nat) /\ ToSet(queue) \intersect ToSet(held) = {}
  <2>1. /\ x \in Nat /\ queue' \in Seq(Nat) /\ Ascends(queue')
        /\ ToSet(queue) = {x} \union ToSet(queue') /\ Before({x}, ToSet(queue'))
        /\ held \in Seq(Nat) /\ ToSet(queue) \intersect ToSet(held) = {}
      BY <1>1, <1>2, HeadTailHolds DEF SinkInv, SinkTypes, SinkPlaces
  <2>2. x \notin ToSet(queue')
      BY <2>1 DEF Before
  <2> QED
      BY <2>1, <2>2
<1>5. full \in Seq(Nat) /\ ToSet(full) = ToSet(held) \union {x}
    BY <1>3, <1>4, AppendHolds
<1>6. CASE held' = full /\ writing' = writing
  <2>1. Queued' = Queued /\ ToSet(queue') \intersect ToSet(held') = {}
      BY <1>4, <1>5, <1>6 DEF Queued
  <2> QED
      BY <1>1, <1>4, <1>5, <1>6, <2>1, WriteKeeps
<1>7. CASE held' = <<>> /\ writing' = writing \union {ToSet(full)}
  <2>1. /\ Queued' \subseteq Queued /\ ToSet(full) \subseteq Queued
        /\ ToSet(full) \intersect Queued' = {}
        /\ ToSet(queue') \intersect ToSet(held') = {} /\ held' \in Seq(Nat)
      BY <1>4, <1>5, <1>7, EmptyHolds DEF Queued
  <2> QED
      BY <1>1, <1>4, <1>7, <2>1, WriteKeeps
<1>8. CASE held' = held /\ writing' = {{x}}
  <2>1. /\ Queued' \subseteq Queued /\ {x} \subseteq Queued
        /\ {x} \intersect Queued' = {}
        /\ ToSet(queue') \intersect ToSet(held') = {}
        /\ writing' \subseteq writing \union {{x}}
      BY <1>4, <1>8 DEF Queued
  <2> QED
      BY <1>1, <1>4, <1>8, <2>1, WriteKeeps
<1>9. \/ held' = full /\ writing' = writing
      \/ held' = <<>> /\ writing' = writing \union {ToSet(full)}
      \/ held' = held /\ writing' = {{x}}
    BY <1>2, <1>3 DEF Take, TakeLog, TakeLake, TakeExport, WriteHeld
<1> QED
    BY <1>6, <1>7, <1>8, <1>9

LEMMA RotateKeeps ==
    ASSUME SinkInv, Rotate
    PROVE  SinkInv'
<1>1. /\ held' = <<>> /\ writing' = writing \union {ToSet(held)} /\ queue' = queue
      /\ UNCHANGED <<sink, pushed, written, gone, writeErrors>>
      /\ queue \in Seq(Nat) /\ Ascends(queue) /\ ToSet(queue) \intersect ToSet(held) = {}
    BY DEF Rotate, WriteHeld, SinkInv, SinkTypes, SinkPlaces
<1>2. /\ ToSet(held') = {} /\ held' \in Seq(Nat) /\ Queued' \subseteq Queued
      /\ ToSet(held) \subseteq Queued /\ ToSet(held) \intersect Queued' = {}
      /\ ToSet(queue') \intersect ToSet(held') = {}
    BY <1>1, EmptyHolds DEF Queued
<1> QED
    BY <1>1, <1>2, WriteKeeps

LEMMA StopSinkKeeps ==
    ASSUME SinkInv, StopSink
    PROVE  SinkInv'
<1>1. /\ held' = <<>> /\ writing' = {} /\ queue' = <<>>
      /\ UNCHANGED <<sink, pushed, written, gone, writeErrors>>
    BY DEF StopSink
<1>2. /\ ToSet(held') = {} /\ ToSet(queue') = {} /\ held' \in Seq(Nat) /\ queue' \in Seq(Nat)
      /\ Ascends(queue') /\ Queued' = {}
    BY <1>1, EmptyHolds DEF Queued
<1> QED
    BY <1>1, <1>2, WriteKeeps

LEMMA WriteEndsKeeps ==
    ASSUME SinkInv, NEW b \in writing, WriteEnds(b)
    PROVE  SinkInv'
<1>1. /\ writing' = writing \ {b} /\ queue' = queue /\ held' = held
      /\ sink' = sink /\ pushed' = pushed
      /\ SinkTypes /\ SinkPlaces
    BY DEF WriteEnds, SinkInv
<1>2. \/ written' = written \union b /\ gone' = gone /\ writeErrors' = writeErrors
      \/ /\ gone' = gone \union b /\ written' = written
         /\ writeErrors' = IF sink = "llm_log" THEN writeErrors + 1 ELSE writeErrors
    BY DEF WriteEnds, LogWritten, LakeWritten, Exported, CountError
<1>3. SinkTypes'
    BY <1>1, <1>2 DEF SinkTypes
<1>4. Ended' = Ended \union b /\ Queued' = Queued
    BY <1>1, <1>2 DEF Ended, Queued
<1>5. written' \intersect gone' = {}
    BY <1>1, <1>2 DEF SinkPlaces, Ended
<1>6. b \subseteq 0..pushed /\ b \intersect Queued = {} /\ pushed \in Nat
    BY <1>1 DEF SinkPlaces, SinkTypes
<1>7. SinkPlaces'
  <2>1. \A x \in Queued' \union Ended' : x <= pushed'
    <3>1. \A x \in Queued \union Ended : x <= pushed
        BY <1>1 DEF SinkPlaces
    <3>2. \A x \in b : x <= pushed
        BY <1>6
    <3> QED
        BY <1>1, <1>4, <3>1, <3>2
  <2>2. \A c \in writing' : c \in writing /\ c # b
      BY <1>1
  <2>3. \A c \in writing' : c \subseteq 0..pushed'
      BY <1>1, <2>2 DEF SinkPlaces
  <2>4. Ended' \subseteq Nat /\ Queued' \intersect Ended' = {}
    <3>1. Ended \subseteq Nat /\ Queued \intersect Ended = {}
        BY <1>1 DEF SinkPlaces
    <3>2. b \subseteq Nat
        BY <1>6
    <3> QED
        BY <1>4, <1>6, <3>1, <3>2
  <2>5. \A c \in writing' : c \intersect (Ended' \union Queued') = {}
    <3>1. \A c \in writing' : c \intersect b = {} /\ c \intersect (Ended \union Queued) = {}
        BY <1>1, <2>2 DEF SinkPlaces
    <3> QED
        BY <1>4, <3>1
  <2>6. \A c \in writing', d \in writing' : c = d \/ c \intersect d = {}
      BY <1>1, <2>2 DEF SinkPlaces
  <2>7. ToSet(queue') \intersect ToSet(held') = {}
      BY <1>1 DEF SinkPlaces
  <2> QED
      BY <1>5, <2>1, <2>3, <2>4, <2>5, <2>6, <2>7 DEF SinkPlaces
<1> QED
    BY <1>3, <1>7 DEF SinkInv

(***************************************************************************)
(* An entry pushed to a sink is in one place only: no batch is written     *)
(* twice or in part with another, and nothing is written and lost          *)
(* (llm_log_service.rs, data_lake.rs, observability_export.rs).            *)
(***************************************************************************)
THEOREM EntriesStayInPlace == SinkSpec => []EntriesInOnePlace
<1>1. SinkInit => SinkInv
    BY SinkStarts
<1>2. SinkInv /\ [SinkNext]_sinkVars => SinkInv'
  <2>1. ASSUME SinkInv, UNCHANGED sinkVars PROVE SinkInv'
      BY <2>1 DEF sinkVars, SinkInv, SinkTypes, SinkPlaces, Ended, Queued
  <2> QED
      BY <2>1, PushKeeps, TakeKeeps, RotateKeeps, StopSinkKeeps, WriteEndsKeeps DEF SinkNext
<1>3. SinkInv => EntriesInOnePlace
    BY DEF SinkInv, SinkPlaces, EntriesInOnePlace, Ended, Queued
<1> QED
    BY <1>1, <1>2, <1>3, PTL DEF SinkSpec

----------------------------------------------------------------------------
(* Pages.  The order of the query, and the first rows of a set.            *)

Points == [ts : 0..(LastTime + 1), id : Nat]

LEMMA PointsOrdered ==
    /\ Rows \subseteq Points /\ NoCursor \in Points
    /\ \A r \in Rows : After(r, NoCursor)
    /\ \A r \in Points : ~After(r, r)
    /\ \A r \in Points, q \in Points : r = q \/ After(r, q) \/ After(q, r)
    /\ \A r \in Points, q \in Points : After(r, q) => ~After(q, r)
    /\ \A r \in Points, q \in Points, p \in Points : After(r, q) /\ After(q, p) => After(r, p)
<1> USE PageAssumption DEF PageAssumption
<1>1. Rows \subseteq Points /\ NoCursor \in Points
  <2>1. 0..LastTime \subseteq 0..(LastTime + 1) /\ LastTime + 1 \in 0..(LastTime + 1) /\ 0 \in Nat
      OBVIOUS
  <2> QED
      BY <2>1 DEF Rows, Points, NoCursor
<1>2. \A r \in Rows : After(r, NoCursor)
    BY DEF Rows, NoCursor, After
<1>3. \A r \in Points : r.ts \in Nat /\ r.id \in Nat /\ r = [ts |-> r.ts, id |-> r.id]
    BY DEF Points
<1>4. \A r \in Points : ~After(r, r)
    BY <1>3 DEF After
<1>5. ASSUME NEW r \in Points, NEW q \in Points
      PROVE  r = q \/ After(r, q) \/ After(q, r)
  <2>1. CASE r.ts = q.ts /\ r.id = q.id
      BY <1>3, <2>1
  <2> QED
      BY <1>3, <2>1 DEF After
<1>6. \A r \in Points, q \in Points : After(r, q) => ~After(q, r)
    BY <1>3 DEF After
<1>7. \A r \in Points, q \in Points, p \in Points : After(r, q) /\ After(q, p) => After(r, p)
    BY <1>3 DEF After
<1> QED
    BY <1>1, <1>2, <1>4, <1>5, <1>6, <1>7

LEMMA LeastNat ==
    ASSUME NEW T \in SUBSET Nat, T # {}
    PROVE  \E x \in T : \A y \in T : x <= y
<1>1. PICK R : R = OpToRel(<, Nat)
    OBVIOUS
<1>2. IsWellFoundedOn(R, Nat)
    BY <1>1, NatLessThanWellFounded
<1>3. PICK x \in T : \A y \in T : ~ (<<y, x>> \in R)
    BY <1>2, WFMin
<1>4. \A y \in T : ~ (y < x)
    BY <1>1, <1>3 DEF OpToRel
<1> QED
    BY <1>4

\* The rows of a set before a row.
Ahead(r, S) == {q \in S : After(r, q)}

LEMMA AheadCounts ==
    ASSUME NEW S, IsFiniteSet(S), S \subseteq Points
    PROVE  /\ \A r : Ahead(r, S) \subseteq S /\ IsFiniteSet(Ahead(r, S))
                     /\ Cardinality(Ahead(r, S)) \in Nat
           /\ \A r \in S : Cardinality(Ahead(r, S)) < Cardinality(S)
           /\ \A r \in Points, q \in S :
                 After(r, q) => Cardinality(Ahead(q, S)) < Cardinality(Ahead(r, S))
<1>1. \A r : Ahead(r, S) \in SUBSET S
    BY DEF Ahead
<1>2. ASSUME NEW T \in SUBSET S
      PROVE  IsFiniteSet(T) /\ Cardinality(T) \in Nat
    BY FS_Subset, FS_CardinalityType
<1>3. ASSUME NEW T \in SUBSET S, NEW U \in SUBSET T, NEW x \in T, x \notin U
      PROVE  Cardinality(U) < Cardinality(T)
    BY <1>2, <1>3, FS_Subset
<1>4. ASSUME NEW r \in S
      PROVE  Cardinality(Ahead(r, S)) < Cardinality(S)
  <2>1. r \notin Ahead(r, S)
      BY PointsOrdered DEF Ahead
  <2> QED
      BY <1>1, <1>3, <2>1
<1>5. ASSUME NEW r \in Points, NEW q \in S, After(r, q)
      PROVE  Cardinality(Ahead(q, S)) < Cardinality(Ahead(r, S))
  <2>1. Ahead(q, S) \in SUBSET Ahead(r, S)
      BY <1>5, PointsOrdered DEF Ahead
  <2>2. q \in Ahead(r, S) /\ q \notin Ahead(q, S)
      BY <1>5, PointsOrdered DEF Ahead
  <2> QED
      BY <1>1, <1>3, <2>1, <2>2
<1> QED
    BY <1>1, <1>2, <1>4, <1>5

\* A set that is not empty has a first row of all.
LEMMA FirstOfAll ==
    ASSUME NEW S, IsFiniteSet(S), S \subseteq Points, NEW T \in SUBSET S, T # {}
    PROVE  \E r \in T : \A q \in T : q = r \/ After(q, r)
<1>1. PICK C : C = {Cardinality(Ahead(r, S)) : r \in T}
    OBVIOUS
<1>2. C \in SUBSET Nat /\ C # {}
    BY <1>1, AheadCounts
<1>3. PICK x \in C : \A y \in C : x <= y
    BY <1>2, LeastNat
<1>4. PICK r \in T : x = Cardinality(Ahead(r, S))
    BY <1>1, <1>3
<1>5. ASSUME NEW q \in T
      PROVE  q = r \/ After(q, r)
  <2>1. r \in S /\ q \in S /\ r \in Points /\ q \in Points
      OBVIOUS
  <2>2. x <= Cardinality(Ahead(q, S))
      BY <1>1, <1>3
  <2>3. ~After(r, q)
    <3>1. After(r, q) => Cardinality(Ahead(q, S)) < Cardinality(Ahead(r, S))
        BY <2>1, AheadCounts
    <3>2. Cardinality(Ahead(q, S)) \in Nat /\ Cardinality(Ahead(r, S)) \in Nat
        BY AheadCounts
    <3> QED
        BY <1>4, <2>2, <3>1, <3>2
  <2> QED
      BY <2>1, <2>3, PointsOrdered
<1> QED
    BY <1>5

\* ... and a last one.
LEMMA LastOfAll ==
    ASSUME NEW S, IsFiniteSet(S), S \subseteq Points, S # {}
    PROVE  \E r \in S : \A q \in S : q = r \/ After(r, q)
<1>1. PICK C : C = {Cardinality(S) - Cardinality(Ahead(r, S)) : r \in S}
    OBVIOUS
<1>2. C \in SUBSET Nat /\ C # {}
  <2>1. Cardinality(S) \in Nat
      BY FS_CardinalityType
  <2>2. ASSUME NEW r \in S
        PROVE  Cardinality(S) - Cardinality(Ahead(r, S)) \in Nat
      BY <2>1, AheadCounts
  <2> QED
      BY <1>1, <2>2
<1>3. PICK x \in C : \A y \in C : x <= y
    BY <1>2, LeastNat
<1>4. PICK r \in S : x = Cardinality(S) - Cardinality(Ahead(r, S))
    BY <1>1, <1>3
<1>5. ASSUME NEW q \in S
      PROVE  q = r \/ After(r, q)
  <2>1. r \in Points /\ q \in Points
      OBVIOUS
  <2>2. x <= Cardinality(S) - Cardinality(Ahead(q, S))
      BY <1>1, <1>3
  <2>3. ~After(q, r)
    <3>1. After(q, r) => Cardinality(Ahead(r, S)) < Cardinality(Ahead(q, S))
        BY <2>1, AheadCounts
    <3>2. /\ Cardinality(Ahead(q, S)) \in Nat /\ Cardinality(Ahead(r, S)) \in Nat
          /\ Cardinality(S) \in Nat
        BY AheadCounts, FS_CardinalityType
    <3> QED
        BY <1>4, <2>2, <3>1, <3>2
  <2> QED
      BY <2>1, <2>3, PointsOrdered
<1> QED
    BY <1>5

\* What FirstRows leaves out comes after all of it; unless it leaves nothing
\* out, it has as many rows as it was asked for.
LEMMA FirstRowsAre ==
    ASSUME NEW S, IsFiniteSet(S), S \subseteq Points, NEW n \in Nat
    PROVE  /\ FirstRows(S, n) \subseteq S
           /\ \A r \in S \ FirstRows(S, n), q \in FirstRows(S, n) : After(r, q)
           /\ Cardinality(FirstRows(S, n)) < n => FirstRows(S, n) = S
           /\ Cardinality(S) <= n => FirstRows(S, n) = S
           /\ n # 0 /\ S # {} => FirstRows(S, n) # {}
<1>1. PICK F : F = FirstRows(S, n)
    OBVIOUS
<1>2. F = {r \in S : Cardinality(Ahead(r, S)) < n}
    BY <1>1 DEF FirstRows, Ahead
<1>3. /\ \A r \in S : Cardinality(Ahead(r, S)) \in Nat
      /\ \A r \in S : Cardinality(Ahead(r, S)) < Cardinality(S)
      /\ \A r \in S, q \in S :
            After(r, q) => Cardinality(Ahead(q, S)) < Cardinality(Ahead(r, S))
      /\ Cardinality(S) \in Nat
    BY AheadCounts, FS_CardinalityType
<1>4. ASSUME NEW r \in S \ F, NEW q \in F
      PROVE  After(r, q)
  <2>1. r \in S /\ q \in S /\ r # q /\ r \in Points /\ q \in Points
      BY <1>2
  <2>2. ~After(q, r)
      BY <1>2, <1>3, <2>1
  <2> QED
      BY <2>1, <2>2, PointsOrdered
<1>5. ASSUME Cardinality(F) < n, F # S
      PROVE  FALSE
  <2>1. S \ F \in SUBSET S /\ S \ F # {} /\ F \in SUBSET S
      BY <1>2, <1>5
  <2>2. PICK r \in S \ F : \A q \in S \ F : q = r \/ After(q, r)
      BY <2>1, FirstOfAll
  <2>3. Ahead(r, S) \in SUBSET F
    <3>1. ASSUME NEW q \in S, After(r, q), q \notin F
          PROVE  FALSE
      <4>1. q = r \/ After(q, r)
          BY <2>2, <3>1
      <4> QED
          BY <3>1, <4>1, PointsOrdered
    <3> QED
        BY <3>1 DEF Ahead
  <2>4. IsFiniteSet(F) /\ Cardinality(F) \in Nat
      BY <2>1, FS_Subset, FS_CardinalityType
  <2>5. Cardinality(Ahead(r, S)) <= Cardinality(F)
      BY <2>3, <2>4, FS_Subset
  <2>6. ~(Cardinality(Ahead(r, S)) < n) /\ Cardinality(Ahead(r, S)) \in Nat
      BY <1>2, <1>3
  <2> QED
      BY <1>5, <2>4, <2>5, <2>6
<1>6. Cardinality(S) <= n => F = S
    BY <1>2, <1>3
<1>7. ASSUME n # 0, S # {}
      PROVE  F # {}
  <2>1. PICK r \in S : \A q \in S : q = r \/ After(q, r)
      BY <1>7, FirstOfAll
  <2>2. Ahead(r, S) = {}
      BY <2>1, PointsOrdered DEF Ahead
  <2>3. Cardinality(Ahead(r, S)) = 0
      BY <2>2, FS_EmptySet
  <2> QED
      BY <1>2, <1>7, <2>3
<1> QED
    BY <1>1, <1>2, <1>4, <1>5, <1>6, <1>7

\* While the reader turns pages, what it got is before its cursor, and what
\* it must get is what it got or what comes after.
PageTypes ==
    /\ time \in 0..LastTime
    /\ logRows \subseteq Rows /\ IsFiniteSet(logRows)
    /\ openTx \subseteq Rows /\ IsFiniteSet(openTx)
    /\ page \subseteq Rows /\ seen \subseteq Rows
    /\ cursor \in Points
    /\ reading \in {"idle", "pages", "done"}

PageInv ==
    /\ PageTypes
    /\ PagesExact
    /\ expected \subseteq logRows
    /\ reading = "idle" => cursor = NoCursor /\ page = {} /\ seen = {}
    /\ reading = "pages" =>
          /\ \A r \in seen \union page : ~After(r, cursor)
          /\ \A r \in expected : r \in seen \union page \/ After(r, cursor)

LEMMA PagesStart ==
    ASSUME PagesInit
    PROVE  PageInv
<1>1. /\ time = 0 /\ logRows = {} /\ openTx = {} /\ cursor = NoCursor
      /\ page = {} /\ seen = {} /\ expected = {} /\ reading = "idle"
    BY DEF PagesInit
<1> QED
    BY <1>1, FS_EmptySet, PointsOrdered, PageAssumption
       DEF PageInv, PageTypes, PagesExact, PageAssumption

\* The writers and the clock.
LEMMA WritersKeep ==
    ASSUME PageInv, BeginBatch \/ CommitBatch \/ AbortBatch \/ Pass \/ UNCHANGED pageVars
    PROVE  PageInv'
<1> USE PageAssumption DEF PageAssumption, PageInv
<1>1. /\ cursor' = cursor /\ page' = page /\ seen' = seen /\ expected' = expected
      /\ reading' = reading
    BY DEF BeginBatch, CommitBatch, AbortBatch, Pass, pageVars, readerVars
<1>2. /\ logRows \subseteq logRows' /\ logRows' \subseteq Rows /\ IsFiniteSet(logRows')
      /\ openTx' \subseteq Rows /\ IsFiniteSet(openTx') /\ time' \in 0..LastTime
  <2>1. CASE BeginBatch
    <3>1. PICK ids \in SUBSET UnusedIds \ {{}} : openTx' = [ts : {time}, id : ids]
        BY <2>1 DEF BeginBatch
    <3>2. ids \in SUBSET RowIds /\ IsFiniteSet(ids)
        BY FS_Subset DEF UnusedIds
    <3>3. PICK f : f = [i \in ids |-> [ts |-> time, id |-> i]]
        OBVIOUS
    <3>4. f \in Surjection(ids, openTx')
      <4>1. \A i \in ids : f[i] \in openTx'
          BY <3>1, <3>3
      <4>2. ASSUME NEW r \in openTx'
            PROVE  \E i \in ids : f[i] = r
        <5>1. r = [ts |-> time, id |-> r.id] /\ r.id \in ids
            BY <3>1
        <5> QED
            BY <3>3, <5>1
      <4> QED
          BY <3>3, <4>1, <4>2 DEF Surjection
    <3>5. IsFiniteSet(openTx')
        BY <3>2, <3>4, FS_Surjection
    <3>6. openTx' \subseteq Rows
        BY <3>1, <3>2 DEF PageTypes, Rows
    <3> QED
        BY <2>1, <3>5, <3>6 DEF BeginBatch, PageTypes
  <2>2. CASE CommitBatch
    <3>1. logRows' = logRows \union openTx /\ openTx' = {} /\ time' = time
        BY <2>2 DEF CommitBatch
    <3> QED
        BY <3>1, FS_Union, FS_EmptySet DEF PageTypes
  <2>3. CASE AbortBatch
      BY <2>3, FS_EmptySet DEF AbortBatch, PageTypes
  <2>4. CASE Pass
      BY <2>4 DEF Pass, PageTypes
  <2>5. CASE UNCHANGED pageVars
      BY <2>5 DEF pageVars, PageTypes
  <2> QED
      BY <2>1, <2>2, <2>3, <2>4, <2>5
<1> QED
    BY <1>1, <1>2 DEF PageTypes, PagesExact

LEMMA RetainKeeps ==
    ASSUME PageInv, Retain
    PROVE  PageInv'
<1> USE DEF PageInv
<1>1. PICK old : /\ logRows' = logRows \ old /\ expected' = expected \ old
    BY DEF Retain
<1>2. /\ time' = time /\ openTx' = openTx /\ cursor' = cursor /\ page' = page
      /\ seen' = seen /\ reading' = reading
    BY DEF Retain
<1>3. IsFiniteSet(logRows') /\ logRows' \subseteq Rows
    BY <1>1, FS_Difference DEF PageTypes
<1> QED
    BY <1>1, <1>2, <1>3 DEF PageTypes, PagesExact

\* A page: the rows after the cursor up to its last row, or all of them.
LEMMA ListPageKeeps ==
    ASSUME PageInv, ListPage
    PROVE  PageInv'
<1> USE PageAssumption DEF PageAssumption, PageInv
<1>1. PICK S : S = Query(cursor)
    OBVIOUS
<1>2. PICK found : found = FirstRows(S, PageLimit + 1)
    OBVIOUS
<1>4. /\ reading # "done"
      /\ page' = FirstRows(found, PageLimit)
      /\ reading' = IF Cardinality(found) > PageLimit THEN "pages" ELSE "done"
      /\ cursor' = IF Cardinality(found) > PageLimit
                   THEN CHOOSE r \in page' : \A q \in page' : q = r \/ After(r, q)
                   ELSE cursor
      /\ seen' = seen \union page
      /\ expected' = IF reading = "idle" THEN logRows ELSE expected
      /\ time' = time /\ logRows' = logRows /\ openTx' = openTx
    BY <1>1, <1>2 DEF ListPage
<1>5. PageLimit \in Nat /\ PageLimit + 1 \in Nat /\ PageLimit # 0
    OBVIOUS
<1>6. /\ S \subseteq Rows /\ S \subseteq Points /\ IsFiniteSet(S) /\ Cardinality(S) \in Nat
      /\ S = {r \in logRows : After(r, cursor)}
  <2>1. S = {r \in logRows : After(r, cursor)} /\ S \in SUBSET logRows
      BY <1>1 DEF Query
  <2> QED
      BY <2>1, FS_Subset, FS_CardinalityType, PointsOrdered DEF PageTypes
<1>7. /\ found \subseteq S /\ IsFiniteSet(found) /\ found \subseteq Points
      /\ Cardinality(found) \in Nat
      /\ Cardinality(found) < PageLimit + 1 => found = S
      /\ \A r \in S \ found, q \in found : After(r, q)
  <2>1. /\ found \subseteq S
        /\ Cardinality(found) < PageLimit + 1 => found = S
        /\ \A r \in S \ found, q \in found : After(r, q)
      BY <1>2, <1>5, <1>6, FirstRowsAre
  <2> QED
      BY <1>6, <2>1, FS_Subset, FS_CardinalityType
<1>8. /\ page' \subseteq found
      /\ \A r \in found \ page', q \in page' : After(r, q)
      /\ Cardinality(found) <= PageLimit => page' = found
      /\ found # {} => page' # {}
    BY <1>4, <1>5, <1>7, FirstRowsAre
<1>9. /\ page' \subseteq Rows /\ page' \subseteq Points /\ seen' \subseteq Rows
      /\ seen' \subseteq Points
    BY <1>4, <1>6, <1>7, <1>8, PointsOrdered DEF PageTypes
<1>10. \A r \in seen' : ~After(r, cursor)
    BY <1>4 DEF PageTypes
<1>11. \A r \in page' : After(r, cursor)
    BY <1>6, <1>7, <1>8
<1>12. page' \intersect seen' = {}
    BY <1>10, <1>11
<1>13. \A r \in expected' : r \in seen' \/ r \in S
  <2>1. CASE reading = "idle"
    <3>1. expected' = logRows /\ cursor = NoCursor
        BY <1>4, <2>1
    <3> QED
        BY <1>6, <3>1, PointsOrdered DEF PageTypes
  <2>2. CASE reading = "pages"
      BY <1>4, <1>6, <2>2
  <2> QED
      BY <1>4, <2>1, <2>2 DEF PageTypes
<1>14. expected' \subseteq logRows'
    BY <1>4
<1>15. CASE ~(Cardinality(found) > PageLimit)
  <2>1. page' = S /\ reading' = "done" /\ cursor' = cursor
      BY <1>4, <1>5, <1>7, <1>8, <1>15
  <2> QED
      BY <1>4, <1>9, <1>12, <1>13, <1>14, <2>1 DEF PageTypes, PagesExact
<1>16. CASE Cardinality(found) > PageLimit
  <2>1. reading' = "pages" /\ page' # {}
    <3>1. Cardinality(found) # 0
        BY <1>5, <1>7, <1>16
    <3>2. found # {}
        BY <1>7, <3>1, FS_EmptySet
    <3> QED
        BY <1>4, <1>8, <1>16, <3>2
  <2>2. cursor' \in page' /\ \A q \in page' : q = cursor' \/ After(cursor', q)
    <3>1. IsFiniteSet(page')
        BY <1>7, <1>8, FS_Subset
    <3>2. \E r \in page' : \A q \in page' : q = r \/ After(r, q)
        BY <1>9, <2>1, <3>1, LastOfAll
    <3> QED
        BY <1>4, <1>16, <3>2
  <2>3. cursor' \in Points /\ cursor \in Points /\ After(cursor', cursor)
      BY <1>9, <1>11, <2>2 DEF PageTypes
  <2>4. \A r \in page' : ~After(r, cursor')
      BY <1>9, <2>2, <2>3, PointsOrdered
  <2>5. \A r \in seen' : ~After(r, cursor')
      BY <1>9, <1>10, <2>3, PointsOrdered
  <2>6. \A r \in S : r \in page' \/ After(r, cursor')
      BY <1>7, <1>8, <2>2
  <2> QED
      BY <1>4, <1>9, <1>12, <1>13, <1>14, <2>1, <2>3, <2>4, <2>5, <2>6 DEF PageTypes, PagesExact
<1> QED
    BY <1>15, <1>16

(***************************************************************************)
(* A reader that follows the cursors to the end gets every row that was    *)
(* there when it began and is still there, and none twice, for any rows,   *)
(* page sizes and interleavings with inserts and retention                 *)
(* (list_by_tenant_cursor, search).                                        *)
(***************************************************************************)
THEOREM PagesAreExact == PagesSpec => []PagesExact
<1>1. PagesInit => PageInv
    BY PagesStart
<1>2. PageInv /\ [PagesNext]_pageVars => PageInv'
    BY WritersKeep, RetainKeeps, ListPageKeeps DEF PagesNext
<1>3. PageInv => PagesExact
    BY DEF PageInv
<1> QED
    BY <1>1, <1>2, <1>3, PTL DEF PagesSpec
=============================================================================
