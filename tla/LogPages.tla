------------------------------ MODULE LogPages ------------------------------
(***************************************************************************)
(* Reading a log page by page (gateway-db audit_log.rs and llm_log.rs, the *)
(* handlers audit_logs.rs and llm_logs.rs) while batches are inserted and  *)
(* the retention worker (data_lake.rs) deletes what is old.                *)
(*                                                                         *)
(* Rows are those of one tenant that match the filters of the query.  The  *)
(* rows of a batch carry the time its transaction began, so they tie, and  *)
(* a row may appear behind rows that are newer; identifiers are random, so *)
(* any of them may be the next.                                            *)
(***************************************************************************)
EXTENDS Integers, FiniteSets, FiniteSetsExt

CONSTANTS
    RowIds,         \* identifiers of rows
    LastTime,       \* the clock stops here
    PageLimit       \* limit, after the clamp to 1..200

ASSUME PageAssumption ==
    IsFiniteSet(RowIds) /\ RowIds \subseteq Nat
    /\ LastTime \in Nat /\ PageLimit \in Nat \ {0}

VARIABLES
    time,           \* the clock of the database
    logRows,        \* the committed rows
    openTx,         \* rows of the transaction in flight
    retention,      \* llm_log_retention_days of the tenant, or the default
    cursor,         \* where the reader is, NoCursor at the start
    page,           \* the last page it got
    seen,           \* what it got before
    expected,       \* the rows that were there when it began, and still are
    reading         \* "idle", "pages" or "done"

pageVars == <<time, logRows, openTx, retention, cursor, page, seen, expected, reading>>

Rows == [ts : 0..LastTime, id : RowIds]
NoCursor == [ts |-> LastTime + 1, id |-> 0]
Forever == 0        \* days <= 0: the worker skips the tenant

PagesInit ==
    /\ time = 0 /\ logRows = {} /\ openTx = {}
    /\ retention \in {Forever, 1}
    /\ cursor = NoCursor /\ page = {} /\ seen = {} /\ expected = {}
    /\ reading = "idle"

readerVars == <<cursor, page, seen, expected, reading>>

UnusedIds == RowIds \ {r.id : r \in logRows \union openTx}

\* batch_insert: one transaction, created_at is its NOW().
BeginBatch ==
    /\ openTx = {}
    /\ \E ids \in SUBSET UnusedIds \ {{}} : openTx' = [ts : {time}, id : ids]
    /\ UNCHANGED <<time, logRows, retention, readerVars>>

CommitBatch ==
    /\ openTx # {}
    /\ logRows' = logRows \union openTx /\ openTx' = {}
    /\ UNCHANGED <<time, retention, readerVars>>

AbortBatch ==
    /\ openTx # {}
    /\ openTx' = {}
    /\ UNCHANGED <<time, logRows, retention, readerVars>>

Pass == time < LastTime /\ time' = time + 1
        /\ UNCHANGED <<logRows, openTx, retention, readerVars>>

\* The worker's pass over one tenant: it deletes by age and skips a tenant
\* that keeps its logs forever.
Retain ==
    /\ retention # Forever
    /\ LET old == {r \in logRows : r.ts < time - retention} IN
       /\ old # {}
       /\ logRows' = logRows \ old
       /\ expected' = expected \ old
    /\ UNCHANGED <<time, openTx, retention, cursor, page, seen, reading>>

\* ORDER BY created_at DESC, id DESC, and the rows after a cursor.
After(r, c) == r.ts < c.ts \/ (r.ts = c.ts /\ r.id < c.id)

\* Mutant: the cursor is a time alone.
QueryByTime(c) == {r \in logRows : r.ts < c.ts}

Query(c) == {r \in logRows : After(r, c)}

\* The first rows of a set in the order of the query.
FirstRows(S, n) == {r \in S : Cardinality({q \in S : After(r, q)}) < n}

\* The handler asks for one row more than the limit to learn whether there
\* are more, and gives the last row of the page as the next cursor.
ListPage ==
    /\ reading # "done"
    /\ LET found == FirstRows(Query(cursor), PageLimit + 1)
           more == Cardinality(found) > PageLimit
       IN /\ page' = FirstRows(found, PageLimit)
          /\ reading' = IF more THEN "pages" ELSE "done"
          /\ cursor' = IF more
                       THEN CHOOSE r \in page' : \A q \in page' : q = r \/ After(r, q)
                       ELSE cursor
    /\ seen' = seen \union page
    /\ expected' = IF reading = "idle" THEN logRows ELSE expected
    /\ UNCHANGED <<time, logRows, openTx, retention>>

PagesNext == BeginBatch \/ CommitBatch \/ AbortBatch \/ Pass \/ Retain \/ ListPage

PagesSpec == PagesInit /\ [][PagesNext]_pageVars

----------------------------------------------------------------------------
\* A reader that follows the cursors to the end gets every row that was there
\* when it began and was not deleted meanwhile, and no row twice, although
\* rows of one batch share their time and late commits add rows behind it
\* (list_by_tenant_cursor, search; "stable ordering", audit_logs.rs:18).
PagesExact ==
    /\ page \intersect seen = {}
    /\ reading = "done" => expected \subseteq seen \union page
=============================================================================
