---------------------------- MODULE LoginLockout ----------------------------
(***************************************************************************)
(* The lockout of one account by failed logins (handlers/auth.rs login and *)
(* the row of the user, user.rs).  Every query is an await: a login reads  *)
(* the row, decides on what it read, and counts, locks or resets later.    *)
(* The limit per client address that comes first is not in the model.      *)
(***************************************************************************)
EXTENDS Integers, FiniteSets

CONSTANTS
    Logins,         \* logins in flight, for the same account
    MaxFailed,      \* max_failed_logins
    Lockout,        \* lockout_duration_minutes, in ticks
    LoginFaultLimit \* queries that fail or are dropped: a bound

ASSUME LoginAssumption ==
    /\ IsFiniteSet(Logins)
    /\ MaxFailed \in Nat \ {0}
    /\ Lockout \in Nat \ {0}
    /\ LoginFaultLimit \in Nat

VARIABLES
    user,       \* the row: status, failed_login_attempts, ticks to locked_until
    loginPc,    \* where each login is
    tried,      \* history: wrong passwords looked at since the last reset,
                \* unlocking or end of a lockout
    lost        \* queries that failed or were dropped with their client

loginVars == <<user, loginPc, tried, lost>>

\* A pending account logs in like an inactive one: the status is not asked.
Statuses == {"active", "inactive", "locked"}
LoginSteps == {"idle", "verify", "count", "lock", "reset"}

\* Attempts past the limit are all alike.
MostFailed == MaxFailed + 1

LoginInit ==
    /\ user = [status |-> "active", failed |-> 0, until |-> 0]
    /\ loginPc = [c \in Logins |-> "idle"]
    /\ tried = 0
    /\ lost = 0

GotoLogin(c, s) == loginPc' = [loginPc EXCEPT ![c] = s]

QueryFails ==
    /\ lost < LoginFaultLimit
    /\ lost' = lost + 1
    /\ UNCHANGED <<user, tried>>

LockedOut == user.status = "locked" /\ user.until > 0

\* The row arrives; one that is locked out ends the login.
ReadRow(c) ==
    /\ loginPc[c] = "idle"
    /\ ~LockedOut
    /\ GotoLogin(c, "verify")
    /\ UNCHANGED <<user, tried, lost>>

\* The password is verified while other logins run.  A right one may still
\* end at the second factor, which counts for nothing.
Verify(c) ==
    /\ loginPc[c] = "verify"
    /\ \/ tried' = tried + 1 /\ GotoLogin(c, "count")
       \/ tried' = tried /\ (GotoLogin(c, "reset") \/ GotoLogin(c, "idle"))
    /\ UNCHANGED <<user, lost>>

\* Mutant: only the attempt that reaches the limit locks.
CountLockingOnce(c) ==
    /\ loginPc[c] = "count"
    /\ LET attempts == IF user.failed < MostFailed THEN user.failed + 1 ELSE MostFailed
       IN  /\ user' = [user EXCEPT !.failed = attempts]
           /\ GotoLogin(c, IF attempts = MaxFailed THEN "lock" ELSE "idle")
           /\ UNCHANGED <<tried, lost>>

\* increment_failed_attempts; a failed query reads as no attempts.
Count(c) ==
    /\ loginPc[c] = "count"
    /\ LET attempts == IF user.failed < MostFailed THEN user.failed + 1 ELSE MostFailed
       IN  \/ /\ user' = [user EXCEPT !.failed = attempts]
              /\ GotoLogin(c, IF attempts >= MaxFailed THEN "lock" ELSE "idle")
              /\ UNCHANGED <<tried, lost>>
           \/ QueryFails /\ GotoLogin(c, "idle")

\* Mutant: a lockout is added to the one that runs.
LockLonger(c) ==
    /\ loginPc[c] = "lock"
    /\ user' = [user EXCEPT !.status = "locked", !.until = @ + Lockout]
    /\ GotoLogin(c, "idle")
    /\ UNCHANGED <<tried, lost>>

\* lock_user, whose failure is ignored.
Lock(c) ==
    /\ loginPc[c] = "lock"
    /\ GotoLogin(c, "idle")
    /\ \/ /\ user' = [user EXCEPT !.status = "locked", !.until = Lockout]
          /\ UNCHANGED <<tried, lost>>
       \/ QueryFails

\* reset_failed_attempts: no attempts, no locked_until, and the status as it is.
Reset(c) ==
    /\ loginPc[c] = "reset"
    /\ GotoLogin(c, "idle")
    /\ \/ /\ user' = [user EXCEPT !.failed = 0, !.until = 0]
          /\ tried' = 0
          /\ UNCHANGED lost
       \/ QueryFails

\* The client goes away at an await; its query may have been done or not.
DropLogin(c) ==
    /\ loginPc[c] \in {"count", "lock", "reset"}
    /\ lost < LoginFaultLimit
    /\ lost' = lost + 1
    /\ GotoLogin(c, "idle")
    /\ UNCHANGED <<user, tried>>

\* An administrator sets the status, which may end a lockout.
SetStatus ==
    /\ \E s \in Statuses :
          /\ user' = [user EXCEPT !.status = s]
          /\ tried' = IF LockedOut /\ s # "locked" THEN 0 ELSE tried
    /\ UNCHANGED <<loginPc, lost>>

Minutes ==
    /\ user.until > 0
    /\ user' = [user EXCEPT !.until = @ - 1]
    /\ tried' = IF user.until = 1 THEN 0 ELSE tried
    /\ UNCHANGED <<loginPc, lost>>

LoginNext ==
    \/ \E c \in Logins :
          \/ ReadRow(c) \/ Verify(c) \/ Count(c) \/ Lock(c) \/ Reset(c)
          \/ DropLogin(c)
    \/ SetStatus
    \/ Minutes

LoginSpec == LoginInit /\ [][LoginNext]_loginVars
-----------------------------------------------------------------------------
LoginTypeOK ==
    /\ user \in [status : Statuses, failed : 0..MostFailed, until : 0..Lockout]
    /\ loginPc \in [Logins -> LoginSteps]
    /\ tried \in Nat
    /\ lost \in 0..LoginFaultLimit

(***************************************************************************)
(* Between two resets, unlockings or ends of a lockout, no more wrong      *)
(* passwords are looked at than max_failed_logins, one more for each other *)
(* login that had read the row already, and one for each query that failed *)
(* or was dropped.  The attempts are not set back when a lockout ends, so  *)
(* the bound of later periods rests on the lock being set again each time. *)
(***************************************************************************)
GuessesBounded == tried <= MaxFailed + Cardinality(Logins) - 1 + lost
=============================================================================
