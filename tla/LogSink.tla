------------------------------ MODULE LogSink ------------------------------
(***************************************************************************)
(* The three sinks every LLM request is pushed to without waiting: the     *)
(* table of LLM logs (gateway-audit llm_log_service.rs), the data lake     *)
(* (data_lake.rs) and the trace export (observability_export.rs).  Each is *)
(* a bounded channel and a task, and they differ in what the task does     *)
(* with an entry.  The model follows one sink, chosen at the start.        *)
(***************************************************************************)
EXTENDS Integers, FiniteSets, Sequences, SequencesExt

CONSTANTS
    EntryLimit,     \* how many entries are pushed
    QueueSize,      \* capacity of the channel (max_queue, queue_size)
    LogBatch        \* batch_size of the LLM log

ASSUME SinkAssumption ==
    EntryLimit \in Nat /\ QueueSize \in Nat \ {0} /\ LogBatch \in Nat \ {0}

VARIABLES
    sink,           \* which of the sinks this is
    pushed,         \* how many entries were pushed
    queue,          \* the channel
    held,           \* the buffer of the task
    writing,        \* the batches being written, one task each
    written,        \* entries that reached the destination
    gone,           \* entries lost while the process runs
    writeErrors     \* the static LLM_LOG_WRITE_ERRORS

sinkVars == <<sink, pushed, queue, held, writing, written, gone, writeErrors>>

Sinks == {"llm_log", "data_lake", "export"}

SinkInit ==
    /\ sink \in Sinks
    /\ pushed = 0 /\ queue = <<>> /\ held = <<>> /\ writing = {}
    /\ written = {} /\ gone = {} /\ writeErrors = 0

\* Only the LLM log counts what it drops.  What /metrics shows under that name
\* is another collector, which Metrics::new() has registered before and nothing
\* increments: the registry refuses the second, and .ok() drops its refusal.
CountError == writeErrors' = IF sink = "llm_log" THEN writeErrors + 1 ELSE writeErrors

Push ==
    /\ pushed < EntryLimit
    /\ pushed' = pushed + 1
    /\ IF Len(queue) < QueueSize
       THEN queue' = Append(queue, pushed') /\ UNCHANGED <<gone, writeErrors>>
       ELSE gone' = gone \union {pushed'} /\ CountError /\ UNCHANGED queue
    /\ UNCHANGED <<sink, held, writing, written>>

\* The loops of the LLM log and of the export wait for the write they have
\* started; the loop of the data lake spawns it.
RoomToTake == sink = "data_lake" \/ writing = {}

\* Mutant: the batch is copied and not taken.
WriteCopy(entries) == writing' = writing \union {ToSet(entries)} /\ held' = entries

WriteHeld(entries) == writing' = writing \union {ToSet(entries)} /\ held' = <<>>

TakeLog ==
    /\ sink = "llm_log" /\ RoomToTake /\ queue # <<>>
    /\ LET full == Append(held, Head(queue)) IN
       IF Len(full) >= LogBatch
       THEN WriteHeld(full)
       ELSE held' = full /\ UNCHANGED writing
    /\ queue' = Tail(queue)
    /\ UNCHANGED <<sink, pushed, written, gone, writeErrors>>

TakeLake ==
    /\ sink = "data_lake" /\ queue # <<>>
    /\ held' = Append(held, Head(queue))
    /\ queue' = Tail(queue)
    /\ UNCHANGED <<sink, pushed, writing, written, gone, writeErrors>>

TakeExport ==
    /\ sink = "export" /\ RoomToTake /\ queue # <<>>
    /\ writing' = {{Head(queue)}}
    /\ queue' = Tail(queue)
    /\ UNCHANGED <<sink, pushed, held, written, gone, writeErrors>>

\* The flush interval of the LLM log, the rotation of the data lake.
Rotate ==
    /\ RoomToTake /\ held # <<>>
    /\ WriteHeld(held)
    /\ UNCHANGED <<sink, pushed, queue, written, gone, writeErrors>>

\* One transaction for the LLM log: a batch is written whole or lost.
LogWritten(b) ==
    /\ sink = "llm_log"
    /\ \/ written' = written \union b /\ UNCHANGED <<gone, writeErrors>>
       \/ gone' = gone \union b /\ CountError /\ UNCHANGED written

\* One file for the lake; an upload that fails is warned of, and its
\* temporary file removed.
LakeWritten(b) ==
    /\ sink = "data_lake"
    /\ \/ written' = written \union b /\ UNCHANGED gone
       \/ gone' = gone \union b /\ UNCHANGED written
    /\ UNCHANGED writeErrors

\* Both vendors at once; an event counts as written when both accepted it.
Exported(b) ==
    /\ sink = "export"
    /\ \E langfuse, helicone \in BOOLEAN :
          IF langfuse /\ helicone
          THEN written' = written \union b /\ UNCHANGED gone
          ELSE gone' = gone \union b /\ UNCHANGED written
    /\ UNCHANGED writeErrors

WriteEnds(b) ==
    /\ writing' = writing \ {b}
    /\ LogWritten(b) \/ LakeWritten(b) \/ Exported(b)
    /\ UNCHANGED <<sink, pushed, queue, held>>

StopSink ==
    /\ queue # <<>> \/ held # <<>> \/ writing # {}
    /\ queue' = <<>> /\ held' = <<>> /\ writing' = {}
    /\ UNCHANGED <<sink, pushed, written, gone, writeErrors>>

Take == TakeLog \/ TakeLake \/ TakeExport

SinkNext ==
    \/ Push \/ Take \/ Rotate \/ StopSink
    \/ \E b \in writing : WriteEnds(b)

SinkSpec == SinkInit /\ [][SinkNext]_sinkVars

----------------------------------------------------------------------------
\* An entry is in one place: a batch that is being written is in no other
\* batch, not in the channel or the buffer, and was neither written nor lost
\* before, although batches are written beside each other and new entries
\* come in meanwhile; what is lost was not written.
EntriesInOnePlace ==
    /\ gone \intersect written = {}
    /\ \A b \in writing :
          b \intersect (written \union gone \union ToSet(queue) \union ToSet(held)) = {}
    /\ \A b, c \in writing : b = c \/ b \intersect c = {}
=============================================================================
