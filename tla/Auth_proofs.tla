------------------------ MODULE Auth_proofs -------------------------------
(***************************************************************************)
(* Theorems about LoginLockout, for any number of logins, any limit and    *)
(* any duration, and about ApiKeyAuth, for any keys, users and roles.      *)
(***************************************************************************)
EXTENDS LoginLockout, ApiKeyAuth, FiniteSetTheorems, TLAPS

USE LoginAssumption DEF LoginAssumption

\* Logins whose wrong password was looked at and not yet counted, or counted
\* and the account not yet locked.
Pending == {c \in Logins : loginPc[c] \in {"count", "lock"}}

\* What the attempts of the row have of the limit, short of reaching it.
Counted == IF user.failed < MaxFailed THEN user.failed ELSE MaxFailed - 1

\* Logins that hold no password still to be looked at.
Spent == {c \in Logins : loginPc[c] # "verify"}

\* While the account is open, every wrong password that was looked at is
\* counted in the row, pending, or was lost with a query; while it is locked,
\* only those who read the row before have one left.
Accounted ==
    \/ ~LockedOut /\ tried <= Counted + Cardinality(Pending) + lost
    \/ LockedOut /\ tried <= MaxFailed - 1 + Cardinality(Spent) + lost

GuessInv == LoginTypeOK /\ Accounted /\ GuessesBounded

-----------------------------------------------------------------------------
\* The two sets, the smaller one within the other.
LEMMA PendingFinite ==
    /\ IsFiniteSet(Pending) /\ IsFiniteSet(Spent)
    /\ Cardinality(Pending) \in Nat /\ Cardinality(Spent) \in Nat
    /\ Cardinality(Logins) \in Nat
    /\ Cardinality(Pending) <= Cardinality(Spent)
    /\ Cardinality(Spent) <= Cardinality(Logins)
<1>1. Pending \subseteq Spent /\ Spent \subseteq Logins BY DEF Pending, Spent
<1>2. IsFiniteSet(Spent) /\ Cardinality(Spent) <= Cardinality(Logins)
  BY <1>1, FS_Subset
<1>3. IsFiniteSet(Pending) /\ Cardinality(Pending) <= Cardinality(Spent)
  BY <1>1, <1>2, FS_Subset
<1> QED BY <1>2, <1>3, FS_CardinalityType

\* A login that found its password wrong is one more of either.
LEMMA PendingJoins ==
    ASSUME LoginTypeOK, NEW c \in Logins, loginPc[c] = "verify", GotoLogin(c, "count")
    PROVE  /\ Cardinality(Pending') = Cardinality(Pending) + 1
           /\ Cardinality(Spent') = Cardinality(Spent) + 1
<1>1. Pending' = Pending \union {c} /\ Spent' = Spent \union {c}
  BY DEF Pending, Spent, LoginTypeOK, LoginSteps, GotoLogin
<1>2. c \notin Pending /\ c \notin Spent BY DEF Pending, Spent
<1> QED BY <1>1, <1>2, PendingFinite, FS_AddElement

\* One that found it right is no more pending than before.
LEMMA OnlySpent ==
    ASSUME LoginTypeOK, NEW c \in Logins, loginPc[c] = "verify",
           GotoLogin(c, "reset") \/ GotoLogin(c, "idle")
    PROVE  /\ Cardinality(Pending') = Cardinality(Pending)
           /\ Cardinality(Spent') = Cardinality(Spent) + 1
<1>1. Pending' = Pending /\ Spent' = Spent \union {c}
  BY DEF Pending, Spent, LoginTypeOK, LoginSteps, GotoLogin
<1>2. c \notin Spent BY DEF Spent
<1> QED BY <1>1, <1>2, PendingFinite, FS_AddElement

\* A pending login that goes back to idle is one less.
LEMMA PendingLeaves ==
    ASSUME LoginTypeOK, NEW c \in Logins, c \in Pending, GotoLogin(c, "idle")
    PROVE  /\ Cardinality(Pending') = Cardinality(Pending) - 1
           /\ Cardinality(Spent') = Cardinality(Spent)
<1>1. Pending' = Pending \ {c} /\ Spent' = Spent
  BY DEF Pending, Spent, LoginTypeOK, LoginSteps, GotoLogin
<1> QED BY <1>1, PendingFinite, FS_RemoveElement

LEMMA LoginTypeStep ==
    ASSUME LoginTypeOK, [LoginNext]_loginVars
    PROVE  LoginTypeOK'
<1> USE DEF LoginTypeOK, LoginSteps, Statuses, MostFailed, GotoLogin, QueryFails
<1>1. CASE UNCHANGED loginVars BY <1>1 DEF loginVars
<1>2. CASE SetStatus BY <1>2 DEF SetStatus
<1>3. CASE Minutes BY <1>3 DEF Minutes
<1>4. ASSUME NEW c \in Logins,
             \/ ReadRow(c) \/ Verify(c) \/ Count(c) \/ Lock(c) \/ Reset(c)
             \/ DropLogin(c)
      PROVE  LoginTypeOK'
  <2>1. CASE ReadRow(c) BY <2>1 DEF ReadRow
  <2>2. CASE Verify(c) BY <2>2 DEF Verify
  <2>3. CASE Count(c) BY <2>3 DEF Count
  <2>4. CASE Lock(c)
    <3>1. CASE QueryFails BY <2>4, <3>1 DEF Lock
    <3>2. CASE user' = [user EXCEPT !.status = "locked", !.until = Lockout]
               /\ UNCHANGED <<tried, lost>>
      <4>1. user' = [status |-> "locked", failed |-> user.failed, until |-> Lockout]
        BY <3>2
      <4>2. loginPc' \in [Logins -> LoginSteps] BY <2>4 DEF Lock
      <4> QED BY <3>2, <4>1, <4>2
    <3> QED BY <2>4, <3>1, <3>2 DEF Lock
  <2>5. CASE Reset(c)
    <3>1. CASE QueryFails BY <2>5, <3>1 DEF Reset
    <3>2. CASE user' = [user EXCEPT !.failed = 0, !.until = 0]
               /\ tried' = 0 /\ UNCHANGED lost
      <4>1. user' = [status |-> user.status, failed |-> 0, until |-> 0]
        BY <3>2
      <4>2. loginPc' \in [Logins -> LoginSteps] BY <2>5 DEF Reset
      <4> QED BY <3>2, <4>1, <4>2
    <3> QED BY <2>5, <3>1, <3>2 DEF Reset
  <2>6. CASE DropLogin(c) BY <2>6 DEF DropLogin
  <2> QED BY <1>4, <2>1, <2>2, <2>3, <2>4, <2>5, <2>6
<1> QED BY <1>1, <1>2, <1>3, <1>4 DEF LoginNext

\* The account of the wrong passwords survives every step, and with it the
\* bound: an open account has at most the limit less one counted, and at most
\* every login pending.
LEMMA GuessStep ==
    ASSUME GuessInv, [LoginNext]_loginVars
    PROVE  Accounted' /\ GuessesBounded'
<1> USE DEF GuessInv, Accounted, GuessesBounded, LoginTypeOK
<1> DEFINE n == Cardinality(Pending)
<1> DEFINE s == Cardinality(Spent)
<1>t. LoginTypeOK' BY LoginTypeStep
<1>n. /\ n \in Nat /\ s \in Nat /\ n <= s /\ s <= Cardinality(Logins)
      /\ n' \in Nat /\ s' \in Nat /\ n' <= s' /\ s' <= Cardinality(Logins)
      /\ Cardinality(Logins) \in Nat
  <2>1. Pending' \subseteq Spent' /\ Spent' \subseteq Logins BY DEF Pending, Spent
  <2>2. IsFiniteSet(Spent') /\ Cardinality(Spent') <= Cardinality(Logins)
    BY <2>1, FS_Subset
  <2>3. IsFiniteSet(Pending') /\ Cardinality(Pending') <= Cardinality(Spent')
    BY <2>1, <2>2, FS_Subset
  <2> QED BY <2>2, <2>3, PendingFinite, FS_CardinalityType
<1>k. Counted \in 0..(MaxFailed - 1) /\ Counted' \in 0..(MaxFailed - 1)
  BY <1>t DEF Counted, MostFailed
<1>1. CASE UNCHANGED loginVars
  <2>1. n' = n /\ s' = s /\ Counted' = Counted
    BY <1>1 DEF loginVars, Pending, Spent, Counted
  <2> QED BY <1>1, <2>1 DEF loginVars, LockedOut
<1>2. CASE SetStatus
  <2>1. n' = n /\ s' = s /\ Counted' = Counted
    BY <1>2 DEF SetStatus, Pending, Spent, Counted
  <2> QED BY <1>2, <1>n, <1>k, <2>1, <1>t DEF SetStatus, LockedOut, Statuses
<1>3. CASE Minutes
  <2>1. n' = n /\ s' = s /\ Counted' = Counted
    BY <1>3 DEF Minutes, Pending, Spent, Counted
  <2> QED BY <1>3, <1>n, <1>k, <2>1, <1>t DEF Minutes, LockedOut
<1>4. ASSUME NEW c \in Logins, ReadRow(c)
      PROVE  Accounted' /\ GuessesBounded'
  <2>1. n' = n /\ Counted' = Counted
    BY <1>4 DEF ReadRow, GotoLogin, LoginSteps, Pending, Counted
  <2> QED BY <1>4, <2>1 DEF ReadRow, LockedOut
<1>5. ASSUME NEW c \in Logins, Verify(c)
      PROVE  Accounted' /\ GuessesBounded'
  <2>1. Counted' = Counted /\ UNCHANGED <<user, lost>> BY <1>5 DEF Verify, Counted
  <2>2. CASE tried' = tried + 1 /\ GotoLogin(c, "count")
    <3>1. n' = n + 1 /\ s' = s + 1 BY <1>5, <2>2, PendingJoins DEF Verify
    <3> QED BY <1>n, <1>k, <2>1, <2>2, <3>1 DEF LockedOut
  <2>3. CASE tried' = tried /\ (GotoLogin(c, "reset") \/ GotoLogin(c, "idle"))
    <3>1. n' = n /\ s' = s + 1 BY <1>5, <2>3, OnlySpent DEF Verify
    <3> QED BY <1>n, <1>k, <2>1, <2>3, <3>1 DEF LockedOut
  <2> QED BY <1>5, <2>2, <2>3 DEF Verify
<1>6. ASSUME NEW c \in Logins, Count(c)
      PROVE  Accounted' /\ GuessesBounded'
  <2>0. c \in Pending BY <1>6 DEF Count, Pending
  <2>1. CASE QueryFails /\ GotoLogin(c, "idle")
    <3>1. n' = n - 1 /\ s' = s BY <2>0, <2>1, PendingLeaves
    <3>2. Counted' = Counted BY <2>1 DEF QueryFails, Counted
    <3> QED BY <1>n, <1>k, <2>1, <3>1, <3>2 DEF QueryFails, LockedOut
  <2>2. CASE user.failed + 1 < MaxFailed /\ ~(QueryFails /\ GotoLogin(c, "idle"))
    <3>1. GotoLogin(c, "idle") /\ user' = [user EXCEPT !.failed = @ + 1]
          /\ UNCHANGED <<tried, lost>>
      BY <1>6, <2>2 DEF Count, MostFailed
    <3>2. n' = n - 1 /\ s' = s BY <2>0, <3>1, PendingLeaves
    <3>3. Counted' = Counted + 1 BY <2>2, <3>1 DEF Counted
    <3> QED BY <1>n, <1>k, <3>1, <3>2, <3>3 DEF LockedOut
  <2>3. CASE user.failed + 1 >= MaxFailed /\ ~(QueryFails /\ GotoLogin(c, "idle"))
    <3>1. /\ GotoLogin(c, "lock") /\ UNCHANGED <<tried, lost>>
          /\ user' = [user EXCEPT !.failed =
                         IF user.failed < MostFailed THEN user.failed + 1 ELSE MostFailed]
      BY <1>6, <2>3 DEF Count, MostFailed
    <3>2. Pending' = Pending /\ Spent' = Spent
      BY <2>0, <3>1 DEF Pending, Spent, GotoLogin, LoginSteps
    <3>3. Counted' = MaxFailed - 1 BY <2>3, <3>1 DEF Counted, MostFailed
    <3> QED BY <1>n, <1>k, <3>1, <3>2, <3>3 DEF LockedOut
  <2> QED BY <2>1, <2>2, <2>3
<1>7. ASSUME NEW c \in Logins, Lock(c)
      PROVE  Accounted' /\ GuessesBounded'
  <2>0. n' = n - 1 /\ s' = s BY <1>7, PendingLeaves DEF Lock, Pending
  <2>1. Counted' = Counted BY <1>7 DEF Lock, QueryFails, Counted
  <2>2. CASE QueryFails BY <1>n, <1>k, <2>0, <2>1, <2>2 DEF QueryFails, LockedOut
  <2>3. CASE ~QueryFails
    <3>1. user' = [user EXCEPT !.status = "locked", !.until = Lockout]
          /\ UNCHANGED <<tried, lost>>
      BY <1>7, <2>3 DEF Lock
    <3>2. user'.status = "locked" /\ user'.until = Lockout BY <3>1
    <3> QED BY <1>n, <1>k, <2>0, <2>1, <3>1, <3>2 DEF LockedOut
  <2> QED BY <2>2, <2>3
<1>8. ASSUME NEW c \in Logins, Reset(c)
      PROVE  Accounted' /\ GuessesBounded'
  <2>1. n' = n /\ s' = s BY <1>8 DEF Reset, GotoLogin, LoginSteps, Pending, Spent
  <2>2. CASE QueryFails
    <3>1. Counted' = Counted BY <2>2 DEF QueryFails, Counted
    <3> QED BY <1>n, <1>k, <2>1, <2>2, <3>1 DEF QueryFails, LockedOut
  <2>3. CASE ~QueryFails
    BY <1>8, <1>n, <1>k, <1>t, <2>3 DEF Reset
  <2> QED BY <2>2, <2>3
<1>9. ASSUME NEW c \in Logins, DropLogin(c)
      PROVE  Accounted' /\ GuessesBounded'
  <2>1. Counted' = Counted /\ lost' = lost + 1 /\ UNCHANGED <<user, tried>>
    BY <1>9 DEF DropLogin, Counted
  <2>2. (n' = n \/ n' = n - 1) /\ s' = s
    <3>1. CASE c \in Pending BY <1>9, <3>1, PendingLeaves DEF DropLogin
    <3>2. CASE c \notin Pending
      BY <1>9, <3>2 DEF DropLogin, GotoLogin, LoginSteps, Pending, Spent
    <3> QED BY <3>1, <3>2
  <2> QED BY <1>n, <1>k, <2>1, <2>2 DEF LockedOut
<1> QED BY <1>1, <1>2, <1>3, <1>4, <1>5, <1>6, <1>7, <1>8, <1>9 DEF LoginNext

LEMMA GuessInvariant == LoginSpec => []GuessInv
<1>1. LoginInit => GuessInv
  <2> SUFFICES ASSUME LoginInit PROVE GuessInv OBVIOUS
  <2>1. LoginTypeOK
    BY DEF LoginInit, LoginTypeOK, LoginSteps, Statuses, MostFailed
  <2>2. Accounted /\ GuessesBounded
    BY PendingFinite DEF LoginInit, Accounted, GuessesBounded, Counted
  <2> QED BY <2>1, <2>2 DEF GuessInv
<1>2. GuessInv /\ [LoginNext]_loginVars => GuessInv'
  BY LoginTypeStep, GuessStep DEF GuessInv
<1> QED BY <1>1, <1>2, PTL DEF LoginSpec

-----------------------------------------------------------------------------
\* The row and the logins keep their types: locked_until is never further off
\* than one lockout.
THEOREM LoginTypeCorrect == LoginSpec => []LoginTypeOK
<1>1. GuessInv => LoginTypeOK BY DEF GuessInv
<1> QED BY <1>1, GuessInvariant, PTL

\* However many logins of an account run at once, the wrong passwords looked
\* at before it locks stay within the limit, the logins in flight and the
\* queries lost.
THEOREM GuessesAreBounded == LoginSpec => []GuessesBounded
<1>1. GuessInv => GuessesBounded BY DEF GuessInv
<1> QED BY <1>1, GuessInvariant, PTL

-----------------------------------------------------------------------------
(* Authentication by API key.                                              *)

\* What is about to be inserted is a role that was found.
KeyInv ==
    /\ KeyTypeOK
    /\ \A u \in Users : keyPc[u] = "insert" => roleOf[u] \in Roles

LEMMA KeyRunKeeps ==
    ASSUME KeyInv, NEW u \in Users, KeyRun(u) \/ Present(u) \/ DropRequest(u)
    PROVE  KeyInv'
<1> USE DEF KeyInv, KeyTypeOK, KeySteps, GotoKey
<1>1. CASE Hit(u)
  <2>1. entry[keyOf[u]].role \in Roles
      BY <1>1 DEF Hit, Live, Cached, Entries
  <2> QED
      BY <1>1, <2>1 DEF Hit
<1>2. CASE Miss(u) \/ HitExpired(u)
    BY <1>2 DEF Miss, HitExpired
<1>3. CASE FindKey(u) \/ FindUser(u)
    BY <1>3 DEF FindKey, FindUser
<1>4. CASE Insert(u)
  <2>1. [role |-> roleOf[u], age |-> 0] \in Entries
      BY <1>4, KeyAssumption DEF KeyAssumption, Insert, Entries
  <2> QED
      BY <1>4, <2>1 DEF Insert
<1>5. CASE Served(u) \/ DropRequest(u)
    BY <1>5 DEF Served, DropRequest, ResetKey
<1>6. CASE Present(u)
    BY <1>6 DEF Present
<1> QED
    BY <1>1, <1>2, <1>3, <1>4, <1>5, <1>6 DEF KeyRun

\* For any keys, roles and time to live: an entry of the cache holds a role
\* that the database gave, and is never older than the time to live, although
\* a hit and an insert interleave with whatever administrators write
\* (api_key_cache.rs get, insert; middleware.rs authenticate_api_key).
THEOREM KeyTypes == KeySpec => []KeyTypeOK
<1>1. KeyInit => KeyInv
    BY DEF KeyInit, KeyInv, KeyTypeOK, KeySteps, Entries
<1>2. KeyInv /\ [KeyNext]_keyVars => KeyInv'
  <2> SUFFICES ASSUME KeyInv, [KeyNext]_keyVars PROVE KeyInv'
      OBVIOUS
  <2> USE DEF KeyInv, KeyTypeOK
  <2>1. CASE \E u \in Users : Present(u) \/ KeyRun(u) \/ DropRequest(u)
      BY <2>1, KeyRunKeeps
  <2>2. CASE \E k \in ApiKeys : RevokeKey(k) \/ ChangeRole(k)
    <3>1. PICK k \in ApiKeys : \/ row' = [row EXCEPT ![k].active = FALSE]
                            \/ \E role \in Roles : row' = [row EXCEPT ![k].role = role]
        BY <2>2 DEF RevokeKey, ChangeRole
    <3>2. UNCHANGED <<entry, keyPc, keyOf, roleOf>>
        BY <2>2 DEF RevokeKey, ChangeRole
    <3>3. row[k] \in [active : BOOLEAN, role : Roles]
        OBVIOUS
    <3>4. CASE row' = [row EXCEPT ![k].active = FALSE]
      <4>1. [row[k] EXCEPT !.active = FALSE] \in [active : BOOLEAN, role : Roles]
          BY <3>3
      <4>2. row' = [row EXCEPT ![k] = [row[k] EXCEPT !.active = FALSE]]
          BY <3>4
      <4>3. row' \in [ApiKeys -> [active : BOOLEAN, role : Roles]]
          BY <4>1, <4>2
      <4> QED
          BY <3>2, <4>3
    <3>5. ASSUME NEW role \in Roles, row' = [row EXCEPT ![k].role = role] PROVE KeyInv'
      <4>1. [row[k] EXCEPT !.role = role] \in [active : BOOLEAN, role : Roles]
          BY <3>3
      <4>2. row' = [row EXCEPT ![k] = [row[k] EXCEPT !.role = role]]
          BY <3>5
      <4>3. row' \in [ApiKeys -> [active : BOOLEAN, role : Roles]]
          BY <4>1, <4>2
      <4> QED
          BY <3>2, <4>3
    <3> QED
        BY <3>1, <3>4, <3>5
  <2>3. CASE CleanCache
      BY <2>3 DEF CleanCache, Entries
  <2>4. CASE AgeCache
    <3>1. ASSUME NEW k \in ApiKeys, Live(k)
          PROVE  [role |-> entry[k].role, age |-> entry[k].age + 1] \in Entries
      <4>1. entry[k] \in [role : Roles, age : 0..KeyTtl] /\ entry[k].age < KeyTtl
          BY <3>1 DEF Live, Cached, Entries
      <4> QED
          BY <4>1, KeyAssumption DEF KeyAssumption, Entries
    <3> QED
        BY <2>4, <3>1 DEF AgeCache
  <2>5. CASE UNCHANGED keyVars
      BY <2>5 DEF keyVars
  <2> QED
      BY <2>1, <2>2, <2>3, <2>4, <2>5 DEF KeyNext
<1>3. KeyInv => KeyTypeOK
    BY DEF KeyInv
<1> QED
    BY <1>1, <1>2, <1>3, PTL DEF KeySpec
=============================================================================
