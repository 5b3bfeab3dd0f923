---------------------------- MODULE PlatformSync ----------------------------
(***************************************************************************)
(* Linking an instance to the platform (gateway-tenant sync.rs and         *)
(* handlers/sync.rs).  The link is a handful of rows of the settings       *)
(* table, written and deleted one by one, while other calls read them.     *)
(* A registration is a number: every value it writes stands for it, and 0  *)
(* is a row that is not there.  The database and the platform may refuse   *)
(* at each step, and a call may end between two of them.                   *)
(***************************************************************************)
EXTENDS Integers, Sequences, FiniteSets

CONSTANTS
    Registrations,  \* how many registrations the platform answers
    Calls           \* concurrent calls of the handlers

ASSUME SyncAssumption == Registrations \in Nat /\ IsFiniteSet(Calls)

VARIABLES
    settings,       \* the rows of the link
    registered,     \* registrations the platform has answered so far
    sync,           \* where each call is
    linked          \* the registration that was last answered OK, undisturbed

syncVars == <<settings, registered, sync, linked>>

\* In the order in which register writes them; the identifiers of the instance
\* and of the tenant, between the URL and the key, are read as the URL is.
Keys == <<"state", "platform_url", "api_key", "linked_at">>
LastSync == "last_sync_at"
AllKeys == {Keys[i] : i \in 1..Len(Keys)} \union {LastSync}
Waiting == [at |-> "idle"]

SyncInit ==
    /\ settings = [k \in AllKeys |-> 0]
    /\ registered = 0
    /\ sync = [c \in Calls |-> Waiting]
    /\ linked = 0

Linked == settings["state"] # 0

Upsert(k, v) == [settings EXCEPT ![k] = v]
DeleteRow(k) == [settings EXCEPT ![k] = 0]

Becomes(c, at) == sync' = [sync EXCEPT ![c] = at]

\* A call that changes the link disturbs the registrations in progress.
Starts(c, at) ==
    /\ linked' = 0
    /\ sync' = [d \in Calls |->
          IF d = c THEN at
          ELSE IF sync[d].at = "write" THEN [sync[d] EXCEPT !.alone = FALSE] ELSE sync[d]]

\* The platform has answered; the rows are written one after the other.
Register(c) ==
    /\ sync[c] = Waiting /\ registered < Registrations
    /\ registered' = registered + 1
    /\ Starts(c, [at |-> "write", of |-> registered', next |-> 1,
                  alone |-> \A d \in Calls : sync[d].at \notin {"write", "delete"}])
    /\ UNCHANGED <<settings>>

\* Mutant: the result of a write is not looked at.
SetIgnored(k, v, done, failed) ==
    /\ settings' \in {settings, Upsert(k, v)}
    /\ done

\* A write that fails ends the call with an error, whatever was written.
Set(k, v, done, failed) ==
    \/ settings' = Upsert(k, v) /\ done
    \/ settings' \in {settings, Upsert(k, v)} /\ failed

RegisterWrites(c) ==
    /\ sync[c].at = "write"
    /\ LET n == sync[c].next IN
       Set(Keys[n], sync[c].of,
           IF n < Len(Keys)
           THEN Becomes(c, [sync[c] EXCEPT !.next = n + 1]) /\ UNCHANGED linked
           ELSE /\ Becomes(c, Waiting)
                /\ linked' = IF sync[c].alone THEN sync[c].of ELSE 0,
           Becomes(c, Waiting) /\ UNCHANGED linked)
    /\ UNCHANGED registered

\* unlink goes over the rows in the order they were written and ignores what
\* fails.
Unlink(c) ==
    /\ sync[c] = Waiting
    /\ Starts(c, [at |-> "delete", next |-> 1])
    /\ UNCHANGED <<settings, registered>>

UnlinkDeletes(c) ==
    /\ sync[c].at = "delete"
    /\ LET n == sync[c].next IN
       /\ settings' \in {settings, DeleteRow(IF n > Len(Keys) THEN LastSync ELSE Keys[n])}
       /\ Becomes(c, IF n > Len(Keys) THEN Waiting ELSE [sync[c] EXCEPT !.next = n + 1])
    /\ UNCHANGED <<registered, linked>>

\* push and pull: get_state reads the URL, a second query the
\* key; when that one fails the key is empty.
ReadState(c) ==
    /\ sync[c] = Waiting /\ Linked
    /\ Becomes(c, [at |-> "read", url |-> settings["platform_url"]])
    /\ UNCHANGED <<settings, registered, linked>>

ReadKey(c) ==
    /\ sync[c].at = "read"
    /\ \E key \in {0, settings["api_key"]} :
          Becomes(c, [at |-> "sent", url |-> sync[c].url, key |-> key])
    /\ UNCHANGED <<settings, registered, linked>>

\* The platform has answered the push or the pull: the time of it is stored.
Synced(c) ==
    /\ sync[c].at = "sent"
    /\ settings' \in {settings, Upsert(LastSync, 1)}
    /\ Becomes(c, Waiting)
    /\ UNCHANGED <<registered, linked>>

\* The client goes away, or the process stops.
Abandon(c) ==
    /\ sync[c] # Waiting
    /\ Becomes(c, Waiting)
    /\ UNCHANGED <<settings, registered, linked>>

SyncNext ==
    \E c \in Calls :
        \/ Register(c) \/ RegisterWrites(c) \/ Unlink(c) \/ UnlinkDeletes(c)
        \/ ReadState(c) \/ ReadKey(c) \/ Synced(c) \/ Abandon(c)

SyncSpec == SyncInit /\ [][SyncNext]_syncVars

----------------------------------------------------------------------------
\* A registration that was answered OK, and that no other overlapped, is
\* linked as a whole: every row is its own until the next call that changes
\* the link, whatever earlier registrations left half written (register).
LinkedWhole == linked # 0 => \A i \in 1..Len(Keys) : settings[Keys[i]] = linked
=============================================================================
