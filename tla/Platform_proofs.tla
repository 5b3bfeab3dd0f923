-------------------------- MODULE Platform_proofs --------------------------
(***************************************************************************)
(* What the gateway exchanges with the platform: the usage report          *)
(* (UsageReporter) and the link (PlatformSync), for any number of records, *)
(* hours, registrations and calls, and the licence of the instance         *)
(* (LicenseActivation), for any entitlements and days.                     *)
(***************************************************************************)
EXTENDS UsageReporter, PlatformSync, LicenseActivation, TLAPS

----------------------------------------------------------------------------
(* The usage report.  OwedIsReported alone is not inductive: the update of *)
(* last_reported_at needs that what was there when the pass began was      *)
(* found, and that what was found was received before the mark.            *)

PassTypeOK ==
    /\ pass.step \in {"sleep", "query", "send", "mark"}
    /\ pass = [step |-> pass.step, since |-> pass.since, end |-> pass.end,
               there |-> pass.there, found |-> pass.found]

PassHolds ==
    /\ pass.step = "query" => pass.there \subseteq Since(pass.since)
    /\ pass.step \in {"send", "mark"} => pass.there \subseteq pass.found
    /\ pass.step = "mark" => pass.found \subseteq received

UsageInv ==
    /\ record \in [Records -> [at : Int, is : {"none", "pending", "there"}]]
    /\ hour \in Int
    /\ PassTypeOK /\ PassHolds /\ OwedIsReported

\* A record that is there stays there, with its time (usage_records is only
\* inserted into): what a query has seen, a later one with the same bound
\* sees again.
LEMMA SinceGrows ==
    ASSUME UsageInv, [UsageNext]_usageVars, NEW t
    PROVE  /\ Since(t) \subseteq Since(t)'
           /\ record' \in [Records -> [at : Int, is : {"none", "pending", "there"}]]
           /\ hour' \in Int
<1> USE UsageAssumption DEF UsageAssumption, UsageInv, Since
<1>1. CASE \E r \in Records : BeginRecord(r)
    BY <1>1 DEF BeginRecord, Unwritten
<1>2. CASE \E r \in Records : CommitRecord(r)
    BY <1>2 DEF CommitRecord
<1>3. CASE UNCHANGED <<record, hour>>
    BY <1>3
<1>4. CASE NextHour
    BY <1>4 DEF NextHour
<1> QED
    BY <1>1, <1>2, <1>3, <1>4 DEF UsageNext, usageVars, StartReport, GetUnreportedUsage,
       ReportUsage, MarkReported, StopReport

LEMMA UsageStep == UsageInv /\ [UsageNext]_usageVars => UsageInv'
<1> SUFFICES ASSUME UsageInv, [UsageNext]_usageVars PROVE UsageInv'
    OBVIOUS
<1>0. /\ record' \in [Records -> [at : Int, is : {"none", "pending", "there"}]]
      /\ hour' \in Int
    BY SinceGrows
<1>s. \A t : Since(t) \subseteq Since(t)'
    BY SinceGrows
<1>a. ASSUME Asleep = pass' PROVE PassTypeOK' /\ PassHolds'
    BY <1>a DEF Asleep, PassTypeOK, PassHolds
<1>1. CASE \E r \in Records : BeginRecord(r) \/ CommitRecord(r)
  <2>1. UNCHANGED <<pass, received, owed>>
    BY <1>1 DEF BeginRecord, CommitRecord
  <2>2. PassHolds'
    BY <2>1, <1>s DEF UsageInv, PassHolds
  <2> QED
    BY <2>1, <2>2, <1>0 DEF UsageInv, PassTypeOK, OwedIsReported
<1>2. CASE StartReport
  <2>1. PICK since :
          /\ pass' = [step |-> "query", since |-> since, end |-> hour,
                      there |-> Since(since), found |-> {}]
          /\ UNCHANGED <<record, received, owed>>
    BY <1>2 DEF StartReport
  <2>2. pass'.since = since /\ pass'.there = Since(since) /\ pass'.step = "query"
    BY <2>1
  <2>3. Since(since)' = Since(since)
    BY <2>1 DEF Since
  <2>4. PassHolds'
    BY <2>2, <2>3 DEF PassHolds, Since
  <2> QED
    BY <2>1, <2>4, <1>0 DEF UsageInv, PassTypeOK, OwedIsReported
<1>3. CASE GetUnreportedUsage
  <2>1. UNCHANGED <<record, received, owed>> /\ pass.step = "query"
    BY <1>3 DEF GetUnreportedUsage
  <2>2. CASE pass' = Asleep
    BY <2>1, <2>2, <1>a, <1>0 DEF UsageInv, OwedIsReported
  <2>3. CASE pass' = [pass EXCEPT !.step = "send", !.found = Since(pass.since)]
    <3>1. /\ pass'.step = "send" /\ pass'.found = Since(pass.since)
          /\ pass'.there = pass.there
          /\ PassTypeOK'
        BY <2>3 DEF UsageInv, PassTypeOK
    <3>2. PassHolds'
        BY <3>1, <2>1 DEF UsageInv, PassHolds
    <3> QED
        BY <3>1, <3>2, <2>1, <1>0 DEF UsageInv, OwedIsReported
  <2> QED
    BY <1>3, <2>2, <2>3 DEF GetUnreportedUsage
<1>4. CASE ReportUsage
  <2>1. /\ pass.step = "send" /\ received \subseteq received'
        /\ UNCHANGED <<record, owed>>
    BY <1>4 DEF ReportUsage
  <2>2. CASE pass' = Asleep
    BY <2>1, <2>2, <1>a, <1>0 DEF UsageInv, OwedIsReported
  <2>3. CASE /\ received' = received \union pass.found
             /\ pass' = [pass EXCEPT !.step = "mark"]
    <3>1. /\ pass'.step = "mark" /\ pass'.found = pass.found
          /\ pass'.there = pass.there
          /\ PassTypeOK'
        BY <2>3 DEF UsageInv, PassTypeOK
    <3>2. PassHolds'
        BY <3>1, <2>1, <2>3 DEF UsageInv, PassHolds
    <3> QED
        BY <3>1, <3>2, <2>1, <1>0 DEF UsageInv, OwedIsReported
  <2> QED
    BY <1>4, <2>2, <2>3 DEF ReportUsage
<1>5. CASE MarkReported
  <2>1. pass' = Asleep /\ received' = received /\ owed' \subseteq owed \union pass.there
        /\ pass.step = "mark"
    BY <1>5 DEF MarkReported
  <2>2. OwedIsReported'
    BY <2>1 DEF UsageInv, PassHolds, OwedIsReported
  <2> QED
    BY <2>1, <2>2, <1>a, <1>0 DEF UsageInv
<1>6. CASE StopReport
    BY <1>6, <1>a, <1>0 DEF StopReport, UsageInv, OwedIsReported
<1>7. CASE NextHour \/ UNCHANGED usageVars
  <2>1. UNCHANGED <<record, pass, received, owed>>
    BY <1>7 DEF NextHour, usageVars
  <2> QED
    BY <2>1, <1>0 DEF UsageInv, PassTypeOK, PassHolds, OwedIsReported, Since
<1> QED
    BY <1>1, <1>2, <1>3, <1>4, <1>5, <1>6, <1>7 DEF UsageNext

LEMMA UsageStart == UsageInit => UsageInv
BY DEF UsageInit, UsageInv, Unwritten, Asleep, PassTypeOK, PassHolds, OwedIsReported

\* Whatever fails or stops, in whatever order records commit while a report
\* is under way, last_reported_at moves past no record that was there when
\* the pass began and that the platform has not got (report_for_tenant).
THEOREM OwedGetsReported == UsageSpec => []OwedIsReported
<1>1. UsageInv => OwedIsReported
    BY DEF UsageInv
<1> QED
    BY <1>1, UsageStart, UsageStep, PTL DEF UsageSpec

----------------------------------------------------------------------------
(* The link to the platform.  What keeps a link whole is that a            *)
(* registration nobody disturbs is the only call that writes its rows.     *)

Places ==
    [at : {"idle"}] \union [at : {"write"}, of : Int, next : 1..4, alone : BOOLEAN]
      \union [at : {"delete"}, next : 1..5]
      \union [at : {"read"}, url : Int]
      \union [at : {"sent"}, url : Int, key : Int]

SyncTypeOK ==
    /\ settings \in [AllKeys -> Int]
    /\ registered \in Nat /\ linked \in Int
    /\ sync \in [Calls -> Places]

Changes(c) == sync[c].at \in {"write", "delete"}

AloneWrites ==
    \A c \in Calls : sync[c].at = "write" /\ sync[c].alone =>
        /\ \A d \in Calls : Changes(d) => d = c
        /\ \A i \in 1..4 : i < sync[c].next => settings[Keys[i]] = sync[c].of

LinkedAtRest == linked # 0 => \A c \in Calls : ~Changes(c)

SyncInv == SyncTypeOK /\ AloneWrites /\ LinkedAtRest /\ LinkedWhole

LEMMA RowsOfTheLink ==
    /\ Len(Keys) = 4
    /\ Keys[1] = "state" /\ Keys[2] = "platform_url"
    /\ Keys[3] = "api_key" /\ Keys[4] = "linked_at"
    /\ AllKeys = {"state", "platform_url", "api_key", "linked_at", "last_sync_at"}
    /\ LastSync = "last_sync_at"
<1>1. Len(Keys) = 4 /\ \A i \in 1..4 : i \in 1..Len(Keys)
    BY DEF Keys
<1>2. /\ Keys[1] = "state" /\ Keys[2] = "platform_url"
      /\ Keys[3] = "api_key" /\ Keys[4] = "linked_at"
    BY DEF Keys
<1>3. {Keys[i] : i \in 1..Len(Keys)} = {"state", "platform_url", "api_key", "linked_at"}
    BY <1>1, <1>2
<1> QED
    BY <1>1, <1>2, <1>3 DEF AllKeys, LastSync

LEMMA PlacesTyped ==
    ASSUME NEW s \in Places
    PROVE  /\ s.at = "write" => /\ s.of \in Int /\ s.next \in 1..4
                                /\ [s EXCEPT !.alone = FALSE] \in Places
                                /\ [s EXCEPT !.alone = FALSE].at = "write"
                                /\ [s EXCEPT !.alone = FALSE].alone = FALSE
                                /\ s.next < 4 => [s EXCEPT !.next = s.next + 1] \in Places
                                /\ [s EXCEPT !.next = s.next + 1].at = "write"
                                /\ [s EXCEPT !.next = s.next + 1].of = s.of
                                /\ [s EXCEPT !.next = s.next + 1].next = s.next + 1
                                /\ [s EXCEPT !.next = s.next + 1].alone = s.alone
           /\ s.at = "delete" => /\ s.next \in 1..5
                                 /\ s.next < 5 => [s EXCEPT !.next = s.next + 1] \in Places
                                 /\ [s EXCEPT !.next = s.next + 1].at = "delete"
           /\ s.at = "read" => s.url \in Int
<1>1. CASE s.at = "write"
  <2>1. PICK o \in Int, n \in 1..4, b \in BOOLEAN :
           s = [at |-> "write", of |-> o, next |-> n, alone |-> b]
    BY <1>1 DEF Places
  <2>2. [s EXCEPT !.alone = FALSE] = [at |-> "write", of |-> o, next |-> n, alone |-> FALSE]
    <3>1. \A f : [s EXCEPT !.alone = f] = [at |-> "write", of |-> o, next |-> n, alone |-> f]
        BY <2>1
    <3> QED
        BY <3>1, Zenon
  <2>3. [s EXCEPT !.next = s.next + 1] = [at |-> "write", of |-> o, next |-> n + 1, alone |-> b]
    BY <2>1
  <2>4. n < 4 => n + 1 \in 1..4
    OBVIOUS
  <2> QED
    BY <2>1, <2>2, <2>3, <2>4 DEF Places
<1>2. CASE s.at = "delete"
  <2>1. PICK n \in 1..5 : s = [at |-> "delete", next |-> n]
    BY <1>2 DEF Places
  <2>2. [s EXCEPT !.next = s.next + 1] = [at |-> "delete", next |-> n + 1]
    BY <2>1
  <2>3. n < 5 => n + 1 \in 1..5
    OBVIOUS
  <2> QED
    BY <2>1, <2>2, <2>3 DEF Places
<1>3. CASE s.at = "read"
    BY <1>3 DEF Places
<1> QED
    BY <1>1, <1>2, <1>3 DEF Places

\* A call that changes nothing of the link leaves the invariant alone: it
\* moves on, and at most the time of the last exchange is stored.
LEMMA BystanderKeepsLink ==
    ASSUME SyncInv, NEW c \in Calls, NEW at \in Places,
           at.at \notin {"write", "delete"}, Becomes(c, at),
           settings' \in [AllKeys -> Int],
           \A k \in AllKeys \ {LastSync} : settings'[k] = settings[k],
           UNCHANGED <<registered, linked>>
    PROVE  SyncInv'
<1>1. sync' \in [Calls -> Places] /\ sync'[c] = at
      /\ \A d \in Calls \ {c} : sync'[d] = sync[d]
    BY DEF Becomes, SyncInv, SyncTypeOK
<1>2. SyncTypeOK'
    BY <1>1 DEF SyncInv, SyncTypeOK
<1>3. \A d \in Calls : Changes(d)' => Changes(d) /\ sync'[d] = sync[d]
    BY <1>1 DEF Changes
<1>4. \A i \in 1..4 : settings'[Keys[i]] = settings[Keys[i]]
    BY RowsOfTheLink
<1>5. AloneWrites'
    BY <1>3, <1>4 DEF SyncInv, AloneWrites, Changes
<1>6. LinkedAtRest' /\ LinkedWhole'
    BY <1>3, <1>4, RowsOfTheLink DEF SyncInv, LinkedAtRest, LinkedWhole
<1> QED
    BY <1>2, <1>5, <1>6 DEF SyncInv

\* A call that begins to change the link: it is alone unless another writes
\* or deletes, and takes that from the others.
LEMMA StartKeepsLink ==
    ASSUME SyncInv, NEW c \in Calls, NEW at \in Places, Starts(c, at),
           at.at \in {"write", "delete"},
           at.at = "write" /\ at.alone => \A d \in Calls : sync[d].at \notin {"write", "delete"},
           at.at = "write" => at.next = 1,
           settings' = settings, registered' \in Nat
    PROVE  SyncInv'
<1>1. \A d \in Calls : sync[d] \in Places
    BY DEF SyncInv, SyncTypeOK
<1>2. \A d \in Calls : sync'[d] \in Places
    BY <1>1, PlacesTyped DEF Starts
<1>3. /\ sync' \in [Calls -> Places] /\ linked' = 0 /\ sync'[c] = at
    BY <1>2 DEF Starts
<1>4. SyncTypeOK'
    BY <1>3 DEF SyncInv, SyncTypeOK
<1>5. \A d \in Calls \ {c} : Changes(d)' => /\ Changes(d)
                                            /\ sync'[d].at = "write" => sync'[d].alone = FALSE
    BY <1>1, PlacesTyped DEF Starts, Changes
<1>6. AloneWrites'
    BY <1>3, <1>5 DEF AloneWrites, Changes
<1> QED
    BY <1>3, <1>4, <1>6 DEF SyncInv, LinkedAtRest, LinkedWhole

\* A row of the link is written: at the last one the registration is answered,
\* and linked if it was alone.
LEMMA WriteKeepsLink ==
    ASSUME SyncInv, NEW c \in Calls, RegisterWrites(c)
    PROVE  SyncInv'
<1> DEFINE n == sync[c].next
           of == sync[c].of
<1>1. sync[c] \in Places /\ sync[c].at = "write" /\ n \in 1..4 /\ of \in Int
      /\ registered' = registered /\ Changes(c)
    BY PlacesTyped DEF RegisterWrites, SyncInv, SyncTypeOK, Changes
<1>2. linked = 0
    BY <1>1 DEF SyncInv, LinkedAtRest
<1>3. /\ settings \in [AllKeys -> Int]
      /\ \A i \in 1..4 : Keys[i] \in AllKeys
      /\ \A i, j \in 1..4 : Keys[i] = Keys[j] => i = j
    BY RowsOfTheLink DEF SyncInv, SyncTypeOK
<1>4. settings' \in {settings, Upsert(Keys[n], of)}
    BY <1>1 DEF RegisterWrites, Set
<1>5. /\ settings' \in [AllKeys -> Int]
      /\ \A i \in 1..4 : i # n => settings'[Keys[i]] = settings[Keys[i]]
    BY <1>1, <1>3, <1>4 DEF Upsert
<1>6. Waiting \in Places /\ Waiting.at = "idle"
    BY DEF Waiting, Places
<1>7. CASE Becomes(c, Waiting) /\ linked' = linked
  <2>1. /\ sync' \in [Calls -> Places] /\ sync'[c] = Waiting
        /\ \A d \in Calls \ {c} : sync'[d] = sync[d]
    BY <1>6, <1>7 DEF Becomes, SyncInv, SyncTypeOK
  <2>2. \A d \in Calls : Changes(d)' => Changes(d) /\ sync'[d] = sync[d] /\ d # c
    BY <2>1, <1>6 DEF Changes
  <2>3. AloneWrites'
    BY <2>2, <1>1 DEF AloneWrites, SyncInv, Changes
  <2> QED
    BY <1>1, <1>2, <1>5, <1>7, <2>1, <2>3 DEF SyncInv, SyncTypeOK, LinkedAtRest, LinkedWhole
<1>8. CASE /\ n < 4 /\ settings' = Upsert(Keys[n], of) /\ linked' = linked
           /\ Becomes(c, [sync[c] EXCEPT !.next = n + 1])
  <2> DEFINE at == [sync[c] EXCEPT !.next = n + 1]
  <2>1. /\ at \in Places /\ at.at = "write" /\ at.of = of /\ at.next = n + 1
        /\ at.alone = sync[c].alone
    BY <1>1, <1>8, PlacesTyped
  <2>2. /\ sync' \in [Calls -> Places] /\ sync'[c] = at
        /\ \A d \in Calls \ {c} : sync'[d] = sync[d]
    BY <2>1, <1>8 DEF Becomes, SyncInv, SyncTypeOK
  <2>3. settings'[Keys[n]] = of
    BY <1>1, <1>3, <1>8 DEF Upsert
  <2>4. ASSUME NEW d \in Calls, sync'[d].at = "write", sync'[d].alone
        PROVE  /\ \A e \in Calls : Changes(e)' => e = d
               /\ \A i \in 1..4 : i < sync'[d].next => settings'[Keys[i]] = sync'[d].of
    <3>1. sync[d].at = "write" /\ sync[d].alone
        BY <2>1, <2>2, <2>4, <1>1
    <3>2. d = c
        BY <3>1, <1>1 DEF SyncInv, AloneWrites, Changes
    <3>3. \A i \in 1..4 : i < n => settings[Keys[i]] = of
        BY <3>1, <3>2 DEF SyncInv, AloneWrites
    <3>4. \A e \in Calls : Changes(e)' => Changes(e)
        BY <2>1, <2>2, <1>1 DEF Changes
    <3> QED
        BY <3>1, <3>2, <3>3, <3>4, <2>1, <2>2, <2>3, <1>1, <1>5 DEF SyncInv, AloneWrites
  <2>5. AloneWrites'
    BY <2>4 DEF AloneWrites
  <2> QED
    BY <1>1, <1>2, <1>5, <1>8, <2>2, <2>5 DEF SyncInv, SyncTypeOK, LinkedAtRest, LinkedWhole
<1>9. CASE /\ n = 4 /\ settings' = Upsert(Keys[n], of) /\ Becomes(c, Waiting)
           /\ linked' = IF sync[c].alone THEN of ELSE 0
  <2>1. /\ sync' \in [Calls -> Places] /\ sync'[c] = Waiting
        /\ \A d \in Calls \ {c} : sync'[d] = sync[d]
    BY <1>6, <1>9 DEF Becomes, SyncInv, SyncTypeOK
  <2>2. \A d \in Calls : Changes(d)' => Changes(d) /\ sync'[d] = sync[d] /\ d # c
    BY <2>1, <1>6 DEF Changes
  <2>3. AloneWrites'
    BY <2>2, <1>1 DEF AloneWrites, SyncInv, Changes
  <2>4. CASE sync[c].alone
    <3>1. /\ \A d \in Calls : Changes(d) => d = c
          /\ \A i \in 1..4 : i < 4 => settings[Keys[i]] = of
        BY <2>4, <1>1, <1>9 DEF SyncInv, AloneWrites
    <3>2. settings'[Keys[4]] = of
        BY <1>3, <1>9 DEF Upsert
    <3>3. \A i \in 1..4 : settings'[Keys[i]] = of
        BY <3>1, <3>2, <1>5, <1>9
    <3>4. LinkedAtRest'
        BY <3>1, <2>2 DEF LinkedAtRest
    <3>5. linked' = of
        BY <2>4, <1>9
    <3>6. LinkedWhole'
        BY <3>3, <3>5, RowsOfTheLink DEF LinkedWhole
    <3> QED
        BY <3>4, <3>5, <3>6, <1>1, <1>5, <2>1, <2>3 DEF SyncInv, SyncTypeOK
  <2>5. CASE ~sync[c].alone
    BY <2>5, <1>1, <1>5, <1>9, <2>1, <2>3 DEF SyncInv, SyncTypeOK, LinkedAtRest, LinkedWhole
  <2> QED
    BY <2>4, <2>5
<1> QED
  <2>1. CASE n < 4
    BY <2>1, <1>1, <1>7, <1>8, RowsOfTheLink DEF RegisterWrites, Set
  <2>2. CASE n = 4
    BY <2>2, <1>1, <1>7, <1>9, RowsOfTheLink DEF RegisterWrites, Set
  <2> QED
    BY <2>1, <2>2, <1>1

LEMMA DeleteKeepsLink ==
    ASSUME SyncInv, NEW c \in Calls, UnlinkDeletes(c)
    PROVE  SyncInv'
<1> DEFINE n == sync[c].next
<1>1. /\ sync[c] \in Places /\ sync[c].at = "delete" /\ n \in 1..5 /\ Changes(c)
      /\ UNCHANGED <<registered, linked>>
    BY PlacesTyped DEF UnlinkDeletes, SyncInv, SyncTypeOK, Changes
<1>2. linked' = 0
    BY <1>1 DEF SyncInv, LinkedAtRest
<1>3. settings' \in [AllKeys -> Int]
    BY <1>1, RowsOfTheLink DEF UnlinkDeletes, DeleteRow, SyncInv, SyncTypeOK
<1> DEFINE at == IF n > 4 THEN Waiting ELSE [sync[c] EXCEPT !.next = n + 1]
<1>4. at \in Places /\ at.at \in {"idle", "delete"}
  <2>1. CASE n > 4
    BY <2>1 DEF Waiting, Places
  <2>2. CASE n < 5
    <3>1. [sync[c] EXCEPT !.next = n + 1] \in Places
          /\ [sync[c] EXCEPT !.next = n + 1].at = "delete"
        BY <2>2, <1>1, PlacesTyped
    <3>2. at = [sync[c] EXCEPT !.next = n + 1]
        BY <2>2, <1>1
    <3> HIDE DEF at
    <3> QED
        BY <3>1, <3>2
  <2> QED
    BY <2>1, <2>2, <1>1
<1>5. /\ sync' \in [Calls -> Places] /\ sync'[c] = at
      /\ \A d \in Calls \ {c} : sync'[d] = sync[d]
    BY <1>4, RowsOfTheLink DEF UnlinkDeletes, Becomes, SyncInv, SyncTypeOK
<1> HIDE DEF at
<1>6. \A d \in Calls : sync'[d].at = "write" => sync[d].at = "write" /\ sync'[d] = sync[d]
    BY <1>4, <1>5
<1>7. \A d \in Calls : sync[d].at = "write" => ~sync[d].alone
    BY <1>1 DEF SyncInv, AloneWrites
<1>8. AloneWrites'
    BY <1>6, <1>7 DEF AloneWrites
<1> QED
    BY <1>1, <1>2, <1>3, <1>5, <1>8 DEF SyncInv, SyncTypeOK, LinkedAtRest, LinkedWhole

LEMMA SyncStep == SyncInv /\ [SyncNext]_syncVars => SyncInv'
<1> SUFFICES ASSUME SyncInv, [SyncNext]_syncVars PROVE SyncInv'
    OBVIOUS
<1>0. /\ settings \in [AllKeys -> Int] /\ registered \in Nat
      /\ \A d \in Calls : sync[d] \in Places
      /\ {"platform_url", "api_key"} \subseteq AllKeys
    BY RowsOfTheLink DEF SyncInv, SyncTypeOK
<1>w. Waiting \in Places /\ Waiting.at = "idle"
    BY DEF Waiting, Places
<1>1. ASSUME NEW c \in Calls, Register(c) PROVE SyncInv'
  <2> DEFINE free == \A d \in Calls : sync[d].at \notin {"write", "delete"}
             at == [at |-> "write", of |-> registered', next |-> 1, alone |-> free]
  <2>1. Starts(c, at) /\ settings' = settings /\ registered' \in Nat
    BY <1>1, <1>0 DEF Register
  <2>2. free \in BOOLEAN
    OBVIOUS
  <2>3. at.alone = free
    OBVIOUS
  <2>4. at \in Places /\ at.at = "write" /\ at.next = 1
    BY <2>1, <2>2 DEF Places
  <2>5. at.alone => free
    BY <2>3, Zenon
  <2> QED
    BY <2>1, <2>4, <2>5, StartKeepsLink
<1>2. ASSUME NEW c \in Calls, Unlink(c) PROVE SyncInv'
  <2> DEFINE at == [at |-> "delete", next |-> 1]
  <2>1. at \in Places /\ at.at = "delete"
    BY DEF Places
  <2>2. Starts(c, at) /\ settings' = settings /\ registered' \in Nat
    BY <1>2, <1>0 DEF Unlink
  <2> QED
    BY <2>1, <2>2, StartKeepsLink
<1>3. ASSUME NEW c \in Calls, ReadState(c) PROVE SyncInv'
  <2> DEFINE at == [at |-> "read", url |-> settings["platform_url"]]
  <2>1. at \in Places /\ at.at = "read"
    BY <1>0 DEF Places
  <2> QED
    BY <1>0, <1>3, <2>1, BystanderKeepsLink DEF ReadState
<1>4. ASSUME NEW c \in Calls, ReadKey(c) PROVE SyncInv'
  <2>1. PICK key \in {0, settings["api_key"]} :
          Becomes(c, [at |-> "sent", url |-> sync[c].url, key |-> key])
    BY <1>4 DEF ReadKey
  <2> DEFINE at == [at |-> "sent", url |-> sync[c].url, key |-> key]
  <2>2. sync[c].url \in Int
    BY <1>0, <1>4, PlacesTyped DEF ReadKey
  <2>3. at \in Places /\ at.at = "sent"
    BY <1>0, <2>1, <2>2 DEF Places
  <2> QED
    BY <1>0, <1>4, <2>1, <2>3, BystanderKeepsLink DEF ReadKey
<1>5. ASSUME NEW c \in Calls, Synced(c) PROVE SyncInv'
  <2>1. /\ settings' \in [AllKeys -> Int]
        /\ \A k \in AllKeys \ {LastSync} : settings'[k] = settings[k]
    BY <1>0, <1>5 DEF Synced, Upsert
  <2> QED
    BY <1>5, <1>w, <2>1, BystanderKeepsLink DEF Synced
<1>6. ASSUME NEW c \in Calls, Abandon(c) PROVE SyncInv'
    BY <1>0, <1>6, <1>w, BystanderKeepsLink DEF Abandon
<1>7. CASE UNCHANGED syncVars
    BY <1>7 DEF syncVars, SyncInv, SyncTypeOK, AloneWrites, LinkedAtRest, LinkedWhole, Changes
<1> QED
    BY <1>1, <1>2, <1>3, <1>4, <1>5, <1>6, <1>7, WriteKeepsLink, DeleteKeepsLink DEF SyncNext

LEMMA SyncStart == SyncInit => SyncInv
<1> SUFFICES ASSUME SyncInit PROVE SyncInv
    OBVIOUS
<1>1. \A d \in Calls : sync[d] = Waiting
    BY DEF SyncInit
<1>2. Waiting \in Places /\ Waiting.at = "idle"
    BY DEF Waiting, Places
<1>3. SyncTypeOK
    BY <1>2 DEF SyncInit, SyncTypeOK
<1> QED
    BY <1>1, <1>2, <1>3 DEF SyncInit, SyncInv, AloneWrites, LinkedAtRest, LinkedWhole, Changes

\* Any number of calls may register, unlink, push and pull at a time, fail
\* and be abandoned between any two rows: a registration that was answered OK
\* and that none of them overlapped is linked as a whole (sync.rs register).
THEOREM LinksAreWhole == SyncSpec => []LinkedWhole
<1>1. SyncInv => LinkedWhole
    BY DEF SyncInv
<1> QED
    BY <1>1, SyncStart, SyncStep, PTL DEF SyncSpec

----------------------------------------------------------------------------
(* The licence of the instance.                                            *)

\* A plan serves a feature if and only if it is not below the one a refusal
\* names: what holds of the three columns of flags.
LEMMA PlansServe ==
    ASSUME NEW f \in Feature \ Overridable, NEW p \in Plan
    PROVE  f \in ForPlan(p) <=> Meets(p, MinPlan(f))
<1>1. CASE f \in ProfessionalFeatures
  <2>1. MinPlan(f) = "professional"
      BY <1>1 DEF MinPlan
  <2>2. f \notin CommunityFlags
      BY <1>1 DEF ProfessionalFeatures, CommunityFlags
  <2>3. f \in ProfessionalFlags
      BY <1>1 DEF ProfessionalFeatures, ProfessionalFlags
  <2>4. f \in EnterpriseFlags
      BY <2>3 DEF EnterpriseFlags
  <2> QED
      BY <2>1, <2>2, <2>3, <2>4 DEF Plan, ForPlan, Meets, Rank
<1>2. CASE f \in EnterpriseFeatures
  <2>1. f \notin ProfessionalFeatures
      BY <1>2 DEF ProfessionalFeatures, EnterpriseFeatures
  <2>2. MinPlan(f) = "enterprise"
      BY <2>1 DEF MinPlan
  <2>3. f \notin CommunityFlags
      BY <1>2 DEF EnterpriseFeatures, CommunityFlags
  <2>4. f \notin ProfessionalFlags
      BY <1>2, <2>3 DEF EnterpriseFeatures, ProfessionalFlags, Overridable
  <2>5. f \in EnterpriseFlags
      BY <1>2 DEF EnterpriseFeatures, EnterpriseFlags
  <2> QED
      BY <2>2, <2>3, <2>4, <2>5 DEF Plan, ForPlan, Meets, Rank
<1> QED
    BY <1>1, <1>2 DEF Feature

\* What a state grants is what its plan grants, but for the flags a licence
\* may set by itself; a state that is not valid names the free plan.
Granted(s) ==
    /\ s.plan \in Plan
    /\ \A f \in Feature \ Overridable : f \in s.flags <=> f \in ForPlan(s.plan)
    /\ \/ s.status \in {"offline_valid", "online_valid", "grace_period"}
       \/ s.plan = "community"

\* What is on file, or under way as an answer, overrides no other flag.
OnFile(e) == e.on \subseteq Overridable /\ e.off \subseteq Overridable

\* Where a call may be.
CallOK(s) == s \in {Idle, Sent, Failed} \/ \E e : OnFile(e) /\ s = Accepted(e)

ActivationInv ==
    /\ Granted(activation)
    /\ OnFile(platform)
    /\ call = [c \in Callers |-> call[c]]
    /\ \A c \in Callers : CallOK(call[c])

LEMMA FreeIsGranted == Granted(Unlicensed)
BY DEF Granted, Unlicensed, State, Plan, ForPlan

LEMMA OfflineIsGranted == Granted(Offline)
BY DEF Granted, Offline, State, Plan, ForPlan

LEMMA OnlineIsGranted ==
    ASSUME NEW e, OnFile(e)
    PROVE  Granted(OnlineValid(e))
<1>1. PICK p : p = FromStr(e.plan)
    OBVIOUS
<1>2. p \in Plan
    BY <1>1 DEF FromStr, Plan
<1>3. PICK s : s = OnlineValid(e)
    OBVIOUS
<1>4. s.status = "online_valid" /\ s.plan = p /\ s.flags = (ForPlan(p) \ e.off) \union e.on
    BY <1>1, <1>3 DEF OnlineValid, State, EntitlementsToFeatures
<1> QED
    BY <1>2, <1>3, <1>4 DEF Granted, OnFile

LEMMA CallsMove ==
    ASSUME ActivationInv, NEW c \in Callers, NEW at, CallOK(at), call' = [call EXCEPT ![c] = at]
    PROVE  call' = [d \in Callers |-> call'[d]] /\ \A d \in Callers : CallOK(call'[d])
<1>1. call' = [d \in Callers |-> IF d = c THEN at ELSE call[d]]
    BY DEF ActivationInv
<1> QED
    BY <1>1 DEF ActivationInv

LEMMA ActivateKeeps ==
    ASSUME ActivationInv, NEW c \in Callers, Activate(c)
    PROVE  ActivationInv'
<1>1. CASE call' = [call EXCEPT ![c] = Sent] /\ UNCHANGED activation
  <2>1. CallOK(Sent)
      BY DEF CallOK
  <2> QED
      BY <1>1, <2>1, CallsMove DEF Activate, ActivationInv
<1>2. CASE activation' \in {Unlicensed, Offline} /\ UNCHANGED call
  <2>1. Granted(activation')
      BY <1>2, FreeIsGranted, OfflineIsGranted
  <2> QED
      BY <1>2, <2>1 DEF Activate, ActivationInv
<1> QED
    BY <1>1, <1>2 DEF Activate

LEMMA AnswerKeeps ==
    ASSUME ActivationInv, NEW c \in Callers, AnswerCall(c)
    PROVE  ActivationInv'
<1>1. PICK at \in {Accepted(platform), Failed} : call' = [call EXCEPT ![c] = at]
    BY DEF AnswerCall
<1>2. CallOK(at)
    BY DEF CallOK, ActivationInv
<1> QED
    BY <1>1, <1>2, CallsMove DEF AnswerCall, ActivationInv

LEMMA ReturnKeeps ==
    ASSUME ActivationInv, NEW c \in Callers, ReturnCall(c)
    PROVE  ActivationInv'
<1>1. CallOK(Idle) /\ CallOK(call[c])
    BY DEF CallOK, ActivationInv
<1>2. Granted(activation')
  <2>1. CASE call[c] = Failed
      BY <2>1, OfflineIsGranted DEF ReturnCall
  <2>2. CASE call[c] # Failed
    <3>1. call[c] # Idle /\ call[c] # Sent
        BY DEF ReturnCall, Idle, Sent
    <3>2. PICK e : OnFile(e) /\ call[c] = Accepted(e)
        BY <1>1, <2>2, <3>1 DEF CallOK
    <3>3. activation' = OnlineValid(e)
        BY <2>2, <3>2 DEF ReturnCall, Accepted
    <3> QED
        BY <3>2, <3>3, OnlineIsGranted
  <2> QED
      BY <2>1, <2>2
<1> QED
    BY <1>1, <1>2, CallsMove DEF ReturnCall, ActivationInv

\* Whatever is on file, however calls overlap and whichever returns last: a
\* feature is refused if and only if the plan of the licence is below the plan
\* the refusal names.  What is stored is always a whole state, the plan and
\* the flags of one decision (features.rs, feature_gate.rs, activation.rs).
THEOREM RefusalsNamePlan == ActivationSpec => []RefusalsName
<1>1. ActivationInit => ActivationInv
  <2> SUFFICES ASSUME ActivationInit PROVE ActivationInv
      OBVIOUS
  <2>1. OnFile(platform)
      BY ActivationAssumption DEF ActivationAssumption, ActivationInit, OnFile
  <2>2. CallOK(Idle)
      BY DEF CallOK
  <2> QED
      BY <2>1, <2>2, FreeIsGranted DEF ActivationInit, ActivationInv
<1>2. ActivationInv /\ [ActivationNext]_activationVars => ActivationInv'
  <2> SUFFICES ASSUME ActivationInv, [ActivationNext]_activationVars PROVE ActivationInv'
      OBVIOUS
  <2>1. CASE Startup \/ Heartbeat \/ ManualActivate
      BY <2>1, ActivateKeeps DEF Startup, Heartbeat, ManualActivate, Callers
  <2>2. CASE Shutdown
      BY <2>2, FreeIsGranted DEF Shutdown, ActivationInv
  <2>3. CASE \E c \in Callers : AnswerCall(c) \/ ReturnCall(c)
      BY <2>3, AnswerKeeps, ReturnKeeps
  <2>4. CASE ChangeLicense
    <3>1. OnFile(Revoked)
        BY DEF OnFile, Revoked
    <3>2. OnFile(platform')
        BY <2>4, <3>1, ActivationAssumption DEF ActivationAssumption, ChangeLicense, OnFile
    <3> QED
        BY <2>4, <3>2 DEF ChangeLicense, ActivationInv
  <2>5. CASE NextDay \/ UNCHANGED activationVars
      BY <2>5 DEF NextDay, activationVars, ActivationInv
  <2> QED
      BY <2>1, <2>2, <2>3, <2>4, <2>5 DEF ActivationNext
<1>3. ActivationInv => RefusalsName
  <2> SUFFICES ASSUME Granted(activation), NEW f \in Feature \ Overridable
               PROVE  f \in Features <=> Meets(activation.plan, MinPlan(f))
      BY DEF ActivationInv, RefusalsName, Allowed, Check, GatedResponse
  <2>1. activation.plan \in Plan
      BY DEF Granted
  <2>2. f \in ForPlan(activation.plan) <=> Meets(activation.plan, MinPlan(f))
      BY <2>1, PlansServe
  <2>3. f \in Features <=> f \in ForPlan(activation.plan)
    <3>1. CASE activation.status \in {"offline_valid", "online_valid", "grace_period"}
        BY <3>1 DEF Granted, Features
    <3>2. CASE activation.status \notin {"offline_valid", "online_valid", "grace_period"}
        BY <3>2 DEF Granted, Features, ForPlan
    <3> QED
        BY <3>1, <3>2
  <2> QED
      BY <2>2, <2>3
<1> QED
    BY <1>1, <1>2, <1>3, PTL DEF ActivationSpec
=============================================================================
