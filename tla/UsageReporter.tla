--------------------------- MODULE UsageReporter ---------------------------
(***************************************************************************)
(* The hourly report of a tenant's usage to the licence platform           *)
(* (gateway-license usage_reporter.rs): read last_reported_at, note the    *)
(* time, read what was recorded since, send it, store the time.  Requests  *)
(* are recorded all the while (handlers/llm.rs), each by an insert that    *)
(* takes its time when it begins and is visible when it has committed.     *)
(* The queries and the platform fail at will, and the process may stop and *)
(* start again between two steps.                                          *)
(***************************************************************************)
EXTENDS Integers, FiniteSets

CONSTANTS
    Records,        \* usage records
    Window,         \* how far back a tenant that never reported is read
    EndOfTime       \* the clock stops here

ASSUME UsageAssumption ==
    IsFiniteSet(Records) /\ Window \in Nat /\ EndOfTime \in Nat

VARIABLES
    hour,           \* the clock
    record,         \* created_at of each record and whether it has committed
    lastReported,   \* last_reported_at, or Never
    pass,           \* the reporter: its step and what it holds
    received,       \* records the platform has counted
    owed            \* records a finished pass was to report

usageVars == <<hour, record, lastReported, pass, received, owed>>

Never == -Window - 1
Unwritten == [at |-> 0, is |-> "none"]
Asleep == [step |-> "sleep", since |-> 0, end |-> 0, there |-> {}, found |-> {}]

UsageInit ==
    /\ hour = 0
    /\ record = [r \in Records |-> Unwritten]
    /\ lastReported = Never
    /\ pass = Asleep
    /\ received = {}
    /\ owed = {}

Since(t) == {r \in Records : record[r].is = "there" /\ record[r].at > t}

BeginRecord(r) ==
    /\ record[r] = Unwritten
    /\ record' = [record EXCEPT ![r] = [at |-> hour, is |-> "pending"]]
    /\ UNCHANGED <<hour, lastReported, pass, received, owed>>

CommitRecord(r) ==
    /\ record[r].is = "pending"
    /\ record' = [record EXCEPT ![r].is = "there"]
    /\ UNCHANGED <<hour, lastReported, pass, received, owed>>

\* What remains of a pass; "there" is what was recorded when it began.
StartReport ==
    /\ pass = Asleep
    /\ LET since == IF lastReported = Never THEN hour - Window ELSE lastReported IN
       pass' = [step |-> "query", since |-> since, end |-> hour,
                there |-> Since(since), found |-> {}]
    /\ UNCHANGED <<hour, record, lastReported, received, owed>>

\* No upper bound: the query also sees what came after the time was noted.
GetUnreportedUsage ==
    /\ pass.step = "query"
    /\ LET found == Since(pass.since) IN
       pass' = IF found = {} THEN Asleep
               ELSE [pass EXCEPT !.step = "send", !.found = found]
    /\ UNCHANGED <<hour, record, lastReported, received, owed>>

\* Mutant: the report goes on as if it had been taken, whatever the answer.
ReportIgnored ==
    /\ pass.step = "send"
    /\ pass' = [pass EXCEPT !.step = "mark"]
    /\ UNCHANGED <<hour, record, lastReported, received, owed>>

\* The platform may count a report whose answer is lost.
ReportUsage ==
    /\ pass.step = "send"
    /\ LET counted == received \union pass.found IN
       \/ received' = counted /\ pass' = [pass EXCEPT !.step = "mark"]
       \/ received' \in {received, counted} /\ pass' = Asleep
    /\ UNCHANGED <<hour, record, lastReported, owed>>

MarkReported ==
    /\ pass.step = "mark"
    /\ \/ lastReported' = pass.end /\ owed' = owed \union pass.there
       \/ UNCHANGED <<lastReported, owed>>
    /\ pass' = Asleep
    /\ UNCHANGED <<hour, record, received>>

\* A restart, or an error of one of the queries, ends the pass.
StopReport ==
    /\ pass # Asleep
    /\ pass' = Asleep
    /\ UNCHANGED <<hour, record, lastReported, received, owed>>

NextHour ==
    /\ hour < EndOfTime
    /\ hour' = hour + 1
    /\ UNCHANGED <<record, lastReported, pass, received, owed>>

UsageNext ==
    \/ \E r \in Records : BeginRecord(r) \/ CommitRecord(r)
    \/ StartReport \/ GetUnreportedUsage \/ ReportUsage \/ MarkReported
    \/ StopReport \/ NextHour

UsageSpec == UsageInit /\ [][UsageNext]_usageVars

----------------------------------------------------------------------------
\* A pass that moved last_reported_at has reported all that had been recorded
\* when it began, whatever failed or stopped in this pass or an earlier one
\* (report_for_tenant: the update is after the report).
OwedIsReported == owed \subseteq received
=============================================================================
