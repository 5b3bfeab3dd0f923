--------------------------- MODULE AuditPipeline ---------------------------
(***************************************************************************)
(* The audit writer (gateway-audit service.rs): handlers give it events    *)
(* without waiting, one task takes them from a bounded channel, looks up   *)
(* the webhook endpoints of the tenant, and inserts events in batches; and *)
(* the webhook dispatcher (webhook.rs), which delivers an event in a task  *)
(* of its own, one endpoint after the other, each with a few attempts.     *)
(*                                                                         *)
(* Events are numbered in the order in which they are given to log; number *)
(* 0 is the synthetic event of the test handler, which is never logged.    *)
(* The database and the endpoints fail at will, and the process may stop   *)
(* at any time: main does not wait for the writer.                         *)
(***************************************************************************)
EXTENDS Integers, FiniteSets, Sequences, SequencesExt

CONSTANTS
    Endpoints,      \* webhook endpoints of one tenant
    EventLimit,     \* how many events the handlers give to log
    ChannelSize,    \* capacity of the mpsc channel
    BatchSize,      \* events per insert
    DeliveryRetries \* webhook_max_retries

ASSUME AuditAssumption ==
    /\ IsFiniteSet(Endpoints)
    /\ EventLimit \in Nat
    /\ ChannelSize \in Nat \ {0}
    /\ BatchSize \in Nat \ {0}
    /\ DeliveryRetries \in Nat \ {0}

VARIABLES
    given,          \* how many events were given to log
    channel,        \* the channel of the writer
    writer,         \* where the writer task is
    taken,          \* the event it has taken and not yet buffered, or 0
    buffer,         \* its buffer
    batch,          \* the batch it inserts
    auditRows,      \* audit_logs
    lost,           \* events that will never be rows
    endpoint,       \* webhook_endpoints: absent, or what they subscribe to
    deliveries      \* the tasks of the dispatcher

writerVars == <<channel, writer, taken, buffer, batch, auditRows, lost>>
auditVars == <<given, writerVars, endpoint, deliveries>>

Events == 1..EventLimit
None == "none"

AuditInit ==
    /\ given = 0
    /\ channel = <<>> /\ writer = "select" /\ taken = 0
    /\ buffer = <<>> /\ batch = <<>> /\ auditRows = <<>> /\ lost = {}
    /\ endpoint = [e \in Endpoints |-> "absent"]
    /\ deliveries = {}

----------------------------------------------------------------------------
(* The writer.                                                             *)

\* log never waits: an event that finds the channel full is dropped.
Log ==
    /\ given < EventLimit
    /\ given' = given + 1
    /\ IF Len(channel) < ChannelSize
       THEN channel' = Append(channel, given') /\ UNCHANGED lost
       ELSE lost' = lost \union {given'} /\ UNCHANGED channel
    /\ UNCHANGED <<writer, taken, buffer, batch, auditRows>>

Receive ==
    /\ writer = "select" /\ channel # <<>>
    /\ taken' = Head(channel)
    /\ channel' = Tail(channel)
    /\ writer' = "endpoints"
    /\ UNCHANGED <<given, buffer, batch, auditRows, lost, endpoint, deliveries>>

\* Mutant: the buffer is emptied only by the next flush.
DrainNothing(b) == buffer' = b /\ batch' = b /\ writer' = "insert"

\* drain(..) empties the buffer before the insert has succeeded.
Drain(b) == buffer' = <<>> /\ batch' = b /\ writer' = "insert"

BufferTaken ==
    LET full == Append(buffer, taken) IN
    /\ taken' = 0
    /\ IF Len(full) >= BatchSize
       THEN Drain(full)
       ELSE buffer' = full /\ writer' = "select" /\ UNCHANGED batch
    /\ UNCHANGED <<given, channel, auditRows, lost, endpoint>>

Active == {e \in Endpoints : endpoint[e] # "absent"}
Subscribed(e) == endpoint[e] = "all"

Task(event, to, limit) ==
    [event |-> event, left |-> to, at |-> None, tries |-> 0, limit |-> limit]

\* Mutant: the writer waits for the deliveries instead of spawning a task.
DispatchWaiting ==
    /\ writer = "endpoints" /\ deliveries = {}
    /\ \/ UNCHANGED deliveries
       \/ /\ Active # {}
          /\ deliveries' = {Task(taken, {e \in Active : Subscribed(e)}, DeliveryRetries)}
    /\ BufferTaken

\* The endpoints are read while the writer waits; a failed query costs the
\* event its deliveries.  dispatch skips the endpoints whose events do not
\* include this one.
Dispatch ==
    /\ writer = "endpoints"
    /\ \/ UNCHANGED deliveries
       \/ /\ Active # {}
          /\ deliveries' = deliveries \union
                {Task(taken, {e \in Active : Subscribed(e)}, DeliveryRetries)}
    /\ BufferTaken

Tick ==
    /\ writer = "select" /\ buffer # <<>>
    /\ Drain(buffer)
    /\ UNCHANGED <<given, channel, taken, auditRows, lost, endpoint, deliveries>>

\* The rows of a batch are inserted in one transaction; when it fails the
\* batch is gone.
BatchInsert ==
    /\ writer = "insert"
    /\ writer' = "select" /\ batch' = <<>>
    /\ \/ auditRows' = auditRows \o batch /\ UNCHANGED lost
       \/ lost' = lost \union ToSet(batch) /\ UNCHANGED auditRows
    /\ UNCHANGED <<given, channel, taken, buffer, endpoint, deliveries>>

\* The process ends, and with it the channel, the buffer and the tasks; a
\* transaction in flight has committed or not.
StopProcess ==
    /\ writer # "select" \/ channel # <<>> \/ buffer # <<>> \/ deliveries # {}
    /\ LET volatile == ToSet(channel) \union ToSet(buffer) \union ({taken} \ {0}) IN
       \/ auditRows' = auditRows \o batch /\ lost' = lost \union volatile
       \/ lost' = lost \union volatile \union ToSet(batch) /\ UNCHANGED auditRows
    /\ channel' = <<>> /\ writer' = "select" /\ taken' = 0
    /\ buffer' = <<>> /\ batch' = <<>> /\ deliveries' = {}
    /\ UNCHANGED <<given, endpoint>>

----------------------------------------------------------------------------
(* The dispatcher.                                                         *)

Replace(t, new) == deliveries' = (deliveries \ {t}) \union new

\* dispatch goes on to an endpoint of the list it was given, or ends.
NextEndpoint(t) ==
    /\ t.at = None
    /\ IF t.left = {}
       THEN Replace(t, {})
       ELSE \E e \in t.left :
              Replace(t, {[t EXCEPT !.left = @ \ {e}, !.at = e, !.tries = 0]})
    /\ UNCHANGED <<given, writerVars, endpoint>>

GivesUp(t) == t.tries + 1 >= t.limit

SendWithRetry(t) ==
    /\ t.at # None
    /\ LET done == [t EXCEPT !.at = None] IN
       \/ Replace(t, {done})
       \/ Replace(t, {IF GivesUp(t) THEN done ELSE [t EXCEPT !.tries = @ + 1]})
    /\ UNCHANGED <<given, writerVars, endpoint>>

----------------------------------------------------------------------------
(* The handlers of the endpoints.                                          *)

\* Creating an endpoint logs an event of its own, after the row exists.
CreateWebhook(e) ==
    /\ endpoint[e] = "absent"
    /\ \E s \in {"all", "others"} : endpoint' = [endpoint EXCEPT ![e] = s]
    /\ Log
    /\ UNCHANGED deliveries

DeleteWebhook(e) ==
    /\ endpoint[e] # "absent"
    /\ endpoint' = [endpoint EXCEPT ![e] = "absent"]
    /\ UNCHANGED <<given, writerVars, deliveries>>

\* The handler sends the test event itself, with a single attempt, and
\* answers "sent" whatever came of it.  One test at a time.
TestWebhook(e) ==
    /\ endpoint[e] # "absent"
    /\ \A t \in deliveries : t.event # 0
    /\ deliveries' = deliveries \union
          {Task(0, IF Subscribed(e) THEN {e} ELSE {}, 1)}
    /\ UNCHANGED <<given, writerVars, endpoint>>

LogEvent == Log /\ UNCHANGED <<endpoint, deliveries>>

Writer == Receive \/ Dispatch \/ Tick \/ BatchInsert

AuditNext ==
    \/ LogEvent \/ Writer \/ StopProcess
    \/ \E t \in deliveries : NextEndpoint(t) \/ SendWithRetry(t)
    \/ \E e \in Endpoints : CreateWebhook(e) \/ DeleteWebhook(e) \/ TestWebhook(e)

AuditSpec == AuditInit /\ [][AuditNext]_auditVars

\* The runtime polls the writer: its loop goes on while the process runs.
\* Nothing is assumed of the dispatcher, whose endpoints may never answer.
AuditFairness == WF_auditVars(Writer)
AuditFairSpec == AuditSpec /\ AuditFairness

----------------------------------------------------------------------------
Positions == {"select", "endpoints", "insert"}

\* Every event given is in one place only: the channel, the hands of the
\* writer, its buffer, the batch in flight, the table, or lost; and what
\* waits is in the order given (service.rs log, the loop and flush).
InPlace == auditRows \o batch \o buffer \o (IF taken = 0 THEN <<>> ELSE <<taken>>) \o channel

AuditTypeOK ==
    /\ writer \in Positions
    /\ (taken # 0) <=> (writer = "endpoints")
    /\ (batch # <<>>) <=> (writer = "insert")
    /\ Len(channel) <= ChannelSize /\ Len(buffer) < BatchSize
    /\ \A i, j \in 1..Len(InPlace) : i < j => InPlace[i] < InPlace[j]
    /\ ToSet(InPlace) \union lost = 1..given
    /\ ToSet(InPlace) \intersect lost = {}

\* The table is what AuditPromise says of it: append-only, in order, without
\* duplicates, whatever fails or stops (service.rs flush, batch_insert).
AuditLog == INSTANCE AuditPromise WITH offered <- given, rows <- auditRows
KeepsPromise == AuditLog!PromiseSpec

\* Every event given is eventually in the table or lost to a failure: no
\* endpoint, however slow, keeps the writer from it (dispatch_webhook spawns).
EventsSettle ==
    \A e \in Events : (given >= e) ~> (e \in ToSet(auditRows) \union lost)
=============================================================================
