--------------------------- MODULE Tenant_proofs ---------------------------
(***************************************************************************)
(* Who gets into a tenant: its quotas (TenantQuotas), the logins through a *)
(* provider (SsoLogin) and the tenant a request is resolved to             *)
(* (TenantService), for any quota, any number of rows, handlers, states,   *)
(* callbacks, tenants and requests.                                        *)
(***************************************************************************)
EXTENDS TenantQuotas, SsoLogin, TenantService, FiniteSetTheorems, TLAPS

----------------------------------------------------------------------------
(* Quotas.  A handler that was let through by its caller's own quota will  *)
(* add a row; the rows there are and those to come pass the quota by no    *)
(* more than the other handlers, because the last to be let through found  *)
(* room for one.                                                           *)

AdminStates == [table : QuotaTables \union {<<>>}, context : QuotaTenants \union {NoContext}]

QuotaTypeOK ==
    /\ row \in [QuotaTables -> [QuotaRows -> {Missing, Activated, Inactive}]]
    /\ admin \in [Admins -> AdminStates]
    /\ outside \in [QuotaTables -> Nat]

\* A handler about to add a row to a table, held to its own tenant's quota.
AddsTo(x, t) == x.table = t /\ x.context = TenantOf(t)

Pending(t) == {a \in Admins : AddsTo(admin[a], t)}

\* What a table may come to: its rows and the handlers it waits for.
RoomLeft ==
    \A t \in QuotaTables :
       CountOf(t) + Cardinality(Pending(t))
          <= QuotaOf[TenantOf(t)] + outside[t] + Cardinality(Admins) - 1

QuotaInv == QuotaTypeOK /\ RoomLeft

ActiveRows(t) == {i \in QuotaRows : row[t][i] = Activated}

LEMMA OneMoreAtMost ==
    ASSUME NEW S, IsFiniteSet(S), NEW x
    PROVE  Cardinality(S \union {x}) <= Cardinality(S) + 1
<1>1. Cardinality(S) \in Nat
    BY FS_CardinalityType
<1>2. CASE x \in S
  <2>1. S \union {x} = S
    BY <1>2
  <2>2. Cardinality(S) <= Cardinality(S) + 1
    BY <1>1
  <2> QED
    BY <2>1, <2>2
<1>3. CASE x \notin S
  <2>1. Cardinality(S \union {x}) = Cardinality(S) + 1
    BY <1>3, FS_AddElement
  <2>2. Cardinality(S) + 1 <= Cardinality(S) + 1
    BY <1>1
  <2> QED
    BY <2>1, <2>2
<1> QED
    BY <1>2, <1>3

\* The figures of a table are naturals, its tenant one with a quota.
LEMMA TableFigures ==
    ASSUME QuotaTypeOK, NEW t \in QuotaTables
    PROVE  /\ IsFiniteSet(ActiveRows(t)) /\ CountOf(t) = Cardinality(ActiveRows(t))
           /\ CountOf(t) \in Nat
           /\ IsFiniteSet(Pending(t)) /\ Cardinality(Pending(t)) \in Nat
           /\ Cardinality(Pending(t)) <= Cardinality(Admins)
           /\ TenantOf(t) \in QuotaTenants /\ TenantOf(t) # NoContext
           /\ QuotaOf[TenantOf(t)] \in Nat /\ outside[t] \in Nat
           /\ Cardinality(Admins) \in Nat
<1> USE QuotaAssumption DEF QuotaAssumption
<1>1. IsFiniteSet(ActiveRows(t))
    BY FS_Subset DEF ActiveRows
<1>2. CountOf(t) = Cardinality(ActiveRows(t))
    BY DEF CountOf, ActiveRows
<1>3. IsFiniteSet(Pending(t)) /\ Cardinality(Pending(t)) <= Cardinality(Admins)
    BY FS_Subset DEF Pending
<1>4. TenantOf(t) \in QuotaTenants /\ TenantOf(t) # NoContext
    BY DEF TenantOf, NoContext
<1>5. QuotaOf[TenantOf(t)] \in Nat /\ outside[t] \in Nat
    BY <1>4 DEF QuotaTypeOK
<1> QED
    BY <1>1, <1>2, <1>3, <1>4, <1>5, FS_CardinalityType

\* A row that becomes active adds at most one to the count of its table.
LEMMA BecomesActiveAddsOne ==
    ASSUME QuotaTypeOK, QuotaTypeOK', NEW t \in QuotaTables, NEW i \in QuotaRows,
           row' = [row EXCEPT ![t][i] = Activated]
    PROVE  /\ CountOf(t)' <= CountOf(t) + 1
           /\ \A j \in QuotaTables : j # t => CountOf(j)' = CountOf(j)
           /\ \A j \in QuotaTables : CountOf(j)' \in Nat
<1>1. ActiveRows(t)' = ActiveRows(t) \union {i}
    BY DEF ActiveRows, QuotaTypeOK
<1>2. Cardinality(ActiveRows(t) \union {i}) <= Cardinality(ActiveRows(t)) + 1
    BY TableFigures, OneMoreAtMost
<1>3. ASSUME NEW j \in QuotaTables, j # t PROVE ActiveRows(j)' = ActiveRows(j)
    BY <1>3 DEF ActiveRows, QuotaTypeOK
<1>4. \A j \in QuotaTables : CountOf(j)' = Cardinality(ActiveRows(j)')
    BY DEF CountOf, ActiveRows
<1>5. \A j \in QuotaTables : Cardinality(ActiveRows(j)) \in Nat /\ CountOf(j) = Cardinality(ActiveRows(j))
    BY TableFigures
<1>6. CountOf(t)' \in Nat
  <2>1. IsFiniteSet(ActiveRows(t) \union {i})
    BY TableFigures, FS_AddElement
  <2> QED
    BY <2>1, <1>1, <1>4, FS_CardinalityType
<1> QED
    BY <1>1, <1>2, <1>3, <1>4, <1>5, <1>6

\* A handler waits for a table according to what it does now.
LEMMA PendingAfter ==
    ASSUME QuotaTypeOK, NEW a \in Admins, NEW x, admin' = [admin EXCEPT ![a] = x],
           NEW t \in QuotaTables
    PROVE  /\ AddsTo(x, t) => Pending(t)' = Pending(t) \union {a}
           /\ ~AddsTo(x, t) => Pending(t)' = Pending(t) \ {a}
BY DEF QuotaTypeOK, Pending, AddsTo

LEMMA AtRestAddsNothing == ASSUME QuotaTypeOK, NEW t \in QuotaTables PROVE ~AddsTo(AtRest, t)
BY TableFigures DEF AddsTo, AtRest

LEMMA AtRestIsOne == AtRest \in AdminStates
BY DEF AtRest, AdminStates

\* A handler that comes to rest is waited for no longer.
LEMMA PendingAtRest ==
    ASSUME QuotaTypeOK, NEW a \in Admins, admin' = [admin EXCEPT ![a] = AtRest],
           NEW t \in QuotaTables
    PROVE  /\ Cardinality(Pending(t)') \in Nat
           /\ Cardinality(Pending(t)') <= Cardinality(Pending(t))
           /\ AddsTo(admin[a], t) => Cardinality(Pending(t)') = Cardinality(Pending(t)) - 1
<1>1. Pending(t)' = Pending(t) \ {a}
    BY PendingAfter, AtRestAddsNothing
<1>2. IsFiniteSet(Pending(t)) /\ Cardinality(Pending(t)) \in Nat
    BY TableFigures
<1>3. AddsTo(admin[a], t) => a \in Pending(t)
    BY DEF Pending
<1>4. IsFiniteSet(Pending(t) \ {a}) /\ Cardinality(Pending(t) \ {a}) <= Cardinality(Pending(t))
    BY <1>2, FS_Subset
<1>5. a \in Pending(t) => Cardinality(Pending(t) \ {a}) = Cardinality(Pending(t)) - 1
    BY <1>2, FS_RemoveElement
<1> QED
    BY <1>1, <1>2, <1>3, <1>4, <1>5, FS_CardinalityType

\* A handler let through by the quota of its own table found room for one.
LEMMA LetThroughHolds ==
    ASSUME QuotaInv, NEW a \in Admins, NEW t \in QuotaTables, CountRows(a, t)
    PROVE  QuotaInv'
<1>t. QuotaTypeOK /\ RoomLeft
    BY DEF QuotaInv
<1>1. UNCHANGED <<row, outside>>
    BY DEF CountRows
<1>2. PICK c \in LetThroughBy(t) : admin' = [admin EXCEPT ![a] = [table |-> t, context |-> c]]
    BY DEF CountRows
<1>3. c \in QuotaTenants \union {NoContext} /\ (c # NoContext => CountOf(t) < QuotaOf[c])
    BY DEF LetThroughBy, CanAdd
<1>4. QuotaTypeOK'
  <2>1. [table |-> t, context |-> c] \in AdminStates
    BY <1>3 DEF AdminStates
  <2> QED
    BY <1>t, <1>1, <1>2, <2>1 DEF QuotaTypeOK
<1>5. ASSUME NEW j \in QuotaTables
      PROVE  CountOf(j)' + Cardinality(Pending(j)')
                <= QuotaOf[TenantOf(j)] + outside'[j] + Cardinality(Admins) - 1
  <2>1. CountOf(j)' = CountOf(j) /\ outside'[j] = outside[j]
    BY <1>1 DEF CountOf
  <2>2. CASE AddsTo([table |-> t, context |-> c], j)
    <3>1. CountOf(j) < QuotaOf[TenantOf(j)]
        BY <2>2, <1>3, <1>t, TableFigures DEF AddsTo
    <3>2. Cardinality(Pending(j)') <= Cardinality(Admins) /\ Cardinality(Pending(j)') \in Nat
      <4>1. Pending(j)' \subseteq Admins
        BY DEF Pending
      <4> QED
        BY <4>1, FS_Subset, FS_CardinalityType, QuotaAssumption DEF QuotaAssumption
    <3> QED
        BY <2>1, <3>1, <3>2, <1>t, TableFigures
  <2>3. CASE ~AddsTo([table |-> t, context |-> c], j)
    <3>1. Pending(j)' = Pending(j) \ {a}
        BY <2>3, <1>2, <1>t, PendingAfter
    <3>2. /\ Cardinality(Pending(j) \ {a}) <= Cardinality(Pending(j))
          /\ Cardinality(Pending(j) \ {a}) \in Nat
        BY <1>t, TableFigures, FS_Subset, FS_CardinalityType
    <3>3. CountOf(j) + Cardinality(Pending(j))
             <= QuotaOf[TenantOf(j)] + outside[j] + Cardinality(Admins) - 1
        BY <1>t DEF RoomLeft
    <3> QED
        BY <2>1, <3>1, <3>2, <3>3, <1>t, TableFigures
  <2> QED
    BY <2>2, <2>3
<1> QED
    BY <1>4, <1>5 DEF QuotaInv, RoomLeft

\* One row more has its room when its handler was waited for or it is counted
\* outside the quota.
LEMMA BecomeActiveHolds ==
    ASSUME QuotaInv, QuotaTypeOK', NEW t \in QuotaTables, NEW i \in QuotaRows,
           NEW held \in BOOLEAN, BecomeActive(t, i, held),
           \A j \in QuotaTables : /\ Cardinality(Pending(j)') \in Nat
                                  /\ Cardinality(Pending(j)') <= Cardinality(Pending(j)),
           held => Cardinality(Pending(t)') = Cardinality(Pending(t)) - 1
    PROVE  RoomLeft'
<1>t. QuotaTypeOK /\ RoomLeft
    BY DEF QuotaInv
<1>1. row' = [row EXCEPT ![t][i] = Activated]
    BY DEF BecomeActive
<1>2. /\ CountOf(t)' <= CountOf(t) + 1
      /\ \A j \in QuotaTables : j # t => CountOf(j)' = CountOf(j)
      /\ \A j \in QuotaTables : CountOf(j)' \in Nat
    BY <1>1, <1>t, BecomesActiveAddsOne
<1>3. outside' = [outside EXCEPT ![t] = IF held THEN outside[t] ELSE outside[t] + 1]
    BY DEF BecomeActive
<1>4. ASSUME NEW j \in QuotaTables
      PROVE  CountOf(j)' + Cardinality(Pending(j)')
                <= QuotaOf[TenantOf(j)] + outside'[j] + Cardinality(Admins) - 1
  <2>1. CountOf(j) + Cardinality(Pending(j))
           <= QuotaOf[TenantOf(j)] + outside[j] + Cardinality(Admins) - 1
    BY <1>t DEF RoomLeft
  <2>2. /\ CountOf(j) \in Nat /\ Cardinality(Pending(j)) \in Nat /\ outside[j] \in Nat
        /\ QuotaOf[TenantOf(j)] \in Nat /\ Cardinality(Admins) \in Nat
    BY <1>t, TableFigures
  <2>3. CASE j # t
    <3>1. outside'[j] = outside[j] /\ CountOf(j)' = CountOf(j)
        BY <2>3, <1>2, <1>3, <1>t DEF QuotaTypeOK
    <3> QED
        BY <2>1, <2>2, <3>1
  <2>4. CASE j = t /\ held
    <3>1. outside'[j] = outside[j]
        BY <2>4, <1>3, <1>t DEF QuotaTypeOK
    <3>2. Cardinality(Pending(j)') = Cardinality(Pending(j)) - 1 /\ CountOf(j)' <= CountOf(j) + 1
        BY <2>4, <1>2
    <3>3. CountOf(j)' \in Nat
        BY <1>2
    <3> QED
        BY <2>1, <2>2, <3>1, <3>2, <3>3
  <2>5. CASE j = t /\ ~held
    <3>1. outside'[j] = outside[j] + 1
        BY <2>5, <1>3, <1>t DEF QuotaTypeOK
    <3>2. CountOf(j)' <= CountOf(j) + 1 /\ CountOf(j)' \in Nat
        BY <2>5, <1>2
    <3>3. Cardinality(Pending(j)') <= Cardinality(Pending(j)) /\ Cardinality(Pending(j)') \in Nat
        OBVIOUS
    <3> QED
        BY <2>1, <2>2, <3>1, <3>2, <3>3
  <2> QED
    BY <2>3, <2>4, <2>5
<1> QED
    BY <1>4 DEF RoomLeft

\* What leaves the counts and the waiting as they are, or lowers them.
LEMMA LessRoomTaken ==
    ASSUME QuotaInv, QuotaTypeOK', outside' = outside,
           \A j \in QuotaTables :
              /\ CountOf(j)' \in Nat /\ CountOf(j)' <= CountOf(j)
              /\ Cardinality(Pending(j)') \in Nat
              /\ Cardinality(Pending(j)') <= Cardinality(Pending(j))
    PROVE  QuotaInv'
<1>t. QuotaTypeOK /\ RoomLeft
    BY DEF QuotaInv
<1>1. ASSUME NEW j \in QuotaTables
      PROVE  CountOf(j)' + Cardinality(Pending(j)')
                <= QuotaOf[TenantOf(j)] + outside'[j] + Cardinality(Admins) - 1
  <2>1. CountOf(j) + Cardinality(Pending(j))
           <= QuotaOf[TenantOf(j)] + outside[j] + Cardinality(Admins) - 1
    BY <1>t DEF RoomLeft
  <2>2. /\ CountOf(j) \in Nat /\ Cardinality(Pending(j)) \in Nat /\ outside[j] \in Nat
        /\ QuotaOf[TenantOf(j)] \in Nat /\ Cardinality(Admins) \in Nat
    BY <1>t, TableFigures
  <2> QED
    BY <2>1, <2>2
<1> QED
    BY <1>1 DEF QuotaInv, RoomLeft

LEMMA QuotaStep == QuotaInv /\ [QuotaNext]_quotaVars => QuotaInv'
<1> SUFFICES ASSUME QuotaInv, [QuotaNext]_quotaVars PROVE QuotaInv'
    OBVIOUS
<1>t. QuotaTypeOK /\ RoomLeft
    BY DEF QuotaInv
<1>s. \A j \in QuotaTables : CountOf(j) \in Nat /\ Cardinality(Pending(j)) \in Nat
    BY <1>t, TableFigures
<1>1. ASSUME NEW a \in Admins, NEW i \in QuotaRows, Create(a, i) PROVE QuotaInv'
  <2> DEFINE t == admin[a].table
             held == admin[a].context = TenantOf(t)
  <2>1. /\ t \in QuotaTables /\ BecomeActive(t, i, held)
        /\ admin' = [admin EXCEPT ![a] = AtRest]
    BY <1>1 DEF Create
  <2>2. QuotaTypeOK'
    BY <1>t, <2>1, AtRestIsOne DEF QuotaTypeOK, BecomeActive
  <2>3. \A j \in QuotaTables :
           /\ Cardinality(Pending(j)') \in Nat
           /\ Cardinality(Pending(j)') <= Cardinality(Pending(j))
           /\ AddsTo(admin[a], j) => Cardinality(Pending(j)') = Cardinality(Pending(j)) - 1
    BY <1>t, <2>1, PendingAtRest
  <2>4. held => AddsTo(admin[a], t)
    BY DEF AddsTo
  <2>5. held \in BOOLEAN
    OBVIOUS
  <2> HIDE DEF t, held
  <2>6. RoomLeft'
    BY <2>1, <2>2, <2>3, <2>4, <2>5, BecomeActiveHolds
  <2> QED
    BY <2>2, <2>6 DEF QuotaInv
<1>2. ASSUME NEW a \in Admins, GiveUp(a) PROVE QuotaInv'
  <2>1. UNCHANGED <<row, outside>> /\ admin' = [admin EXCEPT ![a] = AtRest]
    BY <1>2 DEF GiveUp
  <2>2. QuotaTypeOK'
    BY <1>t, <2>1, AtRestIsOne DEF QuotaTypeOK
  <2>3. \A j \in QuotaTables : CountOf(j)' = CountOf(j)
    BY <2>1 DEF CountOf
  <2>4. \A j \in QuotaTables : /\ Cardinality(Pending(j)') \in Nat
                               /\ Cardinality(Pending(j)') <= Cardinality(Pending(j))
    BY <1>t, <2>1, PendingAtRest
  <2>5. \A j \in QuotaTables : CountOf(j)' \in Nat /\ CountOf(j)' <= CountOf(j)
    BY <2>3, <1>s
  <2> QED
    BY <2>1, <2>2, <2>4, <2>5, LessRoomTaken
<1>3. ASSUME NEW t \in QuotaTables, NEW i \in QuotaRows, BecomeActive(t, i, FALSE),
             UNCHANGED admin
      PROVE  QuotaInv'
  <2>1. QuotaTypeOK'
    BY <1>t, <1>3 DEF QuotaTypeOK, BecomeActive
  <2>2. \A j \in QuotaTables : Pending(j)' = Pending(j)
    BY <1>3 DEF Pending
  <2>3. \A j \in QuotaTables : /\ Cardinality(Pending(j)') \in Nat
                               /\ Cardinality(Pending(j)') <= Cardinality(Pending(j))
    BY <2>2, <1>s
  <2>4. RoomLeft'
    BY <1>3, <2>1, <2>3, BecomeActiveHolds
  <2> QED
    BY <2>1, <2>4 DEF QuotaInv
<1>4. ASSUME NEW t \in QuotaTables, NEW i \in QuotaRows, Deactivate(t, i) PROVE QuotaInv'
  <2>1. row' = [row EXCEPT ![t][i] = Inactive] /\ UNCHANGED <<admin, outside>>
    BY <1>4 DEF Deactivate
  <2>2. QuotaTypeOK'
    BY <1>t, <2>1 DEF QuotaTypeOK
  <2>3. ASSUME NEW j \in QuotaTables PROVE CountOf(j)' <= CountOf(j) /\ CountOf(j)' \in Nat
    <3>1. ActiveRows(j)' \subseteq ActiveRows(j)
        BY <1>t, <2>1 DEF QuotaTypeOK, ActiveRows, Inactive, Activated
    <3>2. IsFiniteSet(ActiveRows(j)) /\ CountOf(j) = Cardinality(ActiveRows(j))
        BY <1>t, TableFigures
    <3>3. CountOf(j)' = Cardinality(ActiveRows(j)')
        BY DEF CountOf, ActiveRows
    <3>4. /\ IsFiniteSet(ActiveRows(j)')
          /\ Cardinality(ActiveRows(j)') <= Cardinality(ActiveRows(j))
        BY <3>1, <3>2, FS_Subset
    <3>5. Cardinality(ActiveRows(j)') \in Nat
        BY <3>4, FS_CardinalityType
    <3> QED
        BY <3>2, <3>3, <3>4, <3>5
  <2>4. \A j \in QuotaTables : Pending(j)' = Pending(j)
    BY <2>1 DEF Pending
  <2>5. \A j \in QuotaTables : /\ Cardinality(Pending(j)') \in Nat
                               /\ Cardinality(Pending(j)') <= Cardinality(Pending(j))
    BY <2>4, <1>s
  <2> QED
    BY <2>1, <2>2, <2>3, <2>5, LessRoomTaken
<1>5. CASE UNCHANGED quotaVars
    BY <1>5, <1>t DEF quotaVars, QuotaInv, QuotaTypeOK, RoomLeft, CountOf, Pending
<1>6. ASSUME NEW t \in QuotaTables, NEW i \in QuotaRows, Reactivate(t, i) PROVE QuotaInv'
    BY <1>3, <1>6 DEF Reactivate
<1>7. ASSUME NEW t \in QuotaTables, NEW i \in QuotaRows, Provision(t, i) PROVE QuotaInv'
    BY <1>3, <1>7 DEF Provision
<1> QED
    BY <1>1, <1>2, <1>4, <1>5, <1>6, <1>7, LetThroughHolds DEF QuotaNext

LEMMA QuotaStart == QuotaInit => QuotaInv
<1> SUFFICES ASSUME QuotaInit PROVE QuotaInv
    OBVIOUS
<1>1. QuotaTypeOK
    BY AtRestIsOne DEF QuotaInit, QuotaTypeOK
<1>2. ASSUME NEW t \in QuotaTables
      PROVE  CountOf(t) = 0 /\ Cardinality(Pending(t)) = 0 /\ outside[t] = 0
  <2>1. ActiveRows(t) = {}
    BY DEF QuotaInit, ActiveRows, Missing, Activated
  <2>2. Pending(t) = {}
    BY <1>1, AtRestAddsNothing DEF QuotaInit, Pending
  <2>3. outside[t] = 0
    BY DEF QuotaInit
  <2> QED
    BY <2>1, <2>2, <2>3, <1>1, FS_EmptySet, TableFigures
<1>3. Cardinality(Admins) >= 1
    BY FS_EmptySet, FS_CardinalityType, QuotaAssumption DEF QuotaAssumption
<1>4. RoomLeft
    BY <1>1, <1>2, <1>3, TableFigures DEF RoomLeft
<1> QED
    BY <1>1, <1>4 DEF QuotaInv

\* However many handlers are let through before one of them inserts, a tenant
\* passes its quota by no more rows than there are other handlers, but for
\* those that were never held to it (TenantContext::can_add_user,
\* can_add_backend, can_add_api_key).
THEOREM QuotasHold == QuotaSpec => []QuotaHolds
<1>1. QuotaInv => QuotaHolds
    BY TableFigures DEF QuotaInv, RoomLeft, QuotaHolds
<1> QED
    BY <1>1, QuotaStart, QuotaStep, PTL DEF QuotaSpec

----------------------------------------------------------------------------
(* Single sign-on.  A state is held by one callback at most, and only once *)
(* it is spent; a callback that holds it has not logged in yet.            *)

Busy(c) == callback[c] # NoCallback

CallbackTypeOK ==
    /\ DOMAIN callback = Callbacks /\ DOMAIN authState = SsoStates
    /\ DOMAIN ssoLogins = SsoStates
    /\ callback = [c \in Callbacks |-> callback[c]]
    /\ authState = [s \in SsoStates |-> authState[s]]
    /\ ssoLogins = [s \in SsoStates |-> ssoLogins[s]]
    /\ \A c \in Callbacks : Busy(c) => callback[c].state \in SsoStates

HeldOnce ==
    /\ \A c, d \in Callbacks :
          Busy(c) /\ Busy(d) /\ callback[c].state = callback[d].state => c = d
    /\ \A c \in Callbacks : Busy(c) => /\ authState[callback[c].state] = Spent
                                       /\ ssoLogins[callback[c].state] = <<>>
    /\ \A s \in SsoStates : authState[s] # Spent => ssoLogins[s] = <<>>

SsoInv == CallbackTypeOK /\ HeldOnce /\ OneLoginPerState

\* A step of a callback that keeps its state or ends it, and that changes
\* neither the states nor the logins.
LEMMA CallbackMovesOn ==
    ASSUME SsoInv, NEW c \in Callbacks, NEW at, Goes(c, at), Busy(c),
           at = NoCallback \/ at.state = callback[c].state,
           UNCHANGED <<authState, ssoLogins>>
    PROVE  SsoInv'
<1>1. /\ callback' = [callback EXCEPT ![c] = at]
      /\ \A d \in Callbacks : callback'[d] = IF d = c THEN at ELSE callback[d]
    BY DEF Goes, SsoInv, CallbackTypeOK
<1>2. CallbackTypeOK'
    BY <1>1 DEF SsoInv, CallbackTypeOK, Busy
<1>3. \A d \in Callbacks : Busy(d)' => Busy(d) /\ callback'[d].state = callback[d].state
    BY <1>1 DEF Busy
<1>4. HeldOnce'
    BY <1>3 DEF SsoInv, HeldOnce
<1> QED
    BY <1>2, <1>4 DEF SsoInv, OneLoginPerState

\* A state that is drawn or spent by nobody's callback.
LEMMA StateChanges ==
    ASSUME SsoInv, NEW s \in SsoStates, NEW v, authState[s] # Spent,
           authState' = [authState EXCEPT ![s] = v],
           UNCHANGED <<callback, ssoLogins>>
    PROVE  SsoInv'
<1>1. \A r \in SsoStates : authState'[r] = IF r = s THEN v ELSE authState[r]
    BY DEF SsoInv, CallbackTypeOK
<1>2. CallbackTypeOK'
    BY <1>1 DEF SsoInv, CallbackTypeOK, Busy
<1>3. \A c \in Callbacks : Busy(c)' => Busy(c) /\ callback'[c] = callback[c]
                                       /\ callback[c].state \in SsoStates
    BY DEF SsoInv, CallbackTypeOK, Busy
<1>4. \A c \in Callbacks : Busy(c)' => callback[c].state # s
    BY <1>3 DEF SsoInv, HeldOnce
<1>5. HeldOnce'
    BY <1>1, <1>3, <1>4 DEF SsoInv, HeldOnce
<1> QED
    BY <1>2, <1>5 DEF SsoInv, OneLoginPerState

LEMMA ConsumeHeldOnce ==
    ASSUME SsoInv, NEW c \in Callbacks, NEW s \in SsoStates, Consume(c, s)
    PROVE  SsoInv'
<1> DEFINE at == [at |-> "exchange", state |-> s, provider |-> authState[s]]
<1>1. /\ ~Busy(c) /\ authState[s] # Spent
      /\ authState' = [authState EXCEPT ![s] = Spent]
      /\ callback' = [callback EXCEPT ![c] = at] /\ UNCHANGED ssoLogins
    BY ProviderAssumption DEF Consume, ConsumeState, Goes, Busy
<1>2. /\ \A r \in SsoStates : authState'[r] = IF r = s THEN Spent ELSE authState[r]
      /\ \A d \in Callbacks : callback'[d] = IF d = c THEN at ELSE callback[d]
    BY <1>1 DEF SsoInv, CallbackTypeOK
<1>3. at.state = s
    OBVIOUS
<1>4. CallbackTypeOK'
    BY <1>1, <1>2, <1>3 DEF SsoInv, CallbackTypeOK, Busy
<1>5. \A d \in Callbacks : Busy(d)' /\ d # c => /\ Busy(d) /\ callback'[d] = callback[d]
                                                /\ callback[d].state \in SsoStates
                                                /\ callback[d].state # s
    BY <1>1, <1>2 DEF SsoInv, CallbackTypeOK, HeldOnce, Busy
<1>6. callback'[c].state = s /\ ssoLogins[s] = <<>>
    BY <1>1, <1>2, <1>3 DEF SsoInv, HeldOnce
<1>7. HeldOnce'
    BY <1>1, <1>2, <1>5, <1>6 DEF SsoInv, HeldOnce
<1> QED
    BY <1>1, <1>4, <1>7 DEF SsoInv, OneLoginPerState

LEMMA LinkLogsInOnce ==
    ASSUME SsoInv, NEW c \in Callbacks, Link(c)
    PROVE  SsoInv'
<1> DEFINE s == callback[c].state
           login == [provider |-> callback[c].provider, person |-> callback[c].person,
                     user |-> callback[c].email]
<1>1. /\ callback[c].at = "link" /\ callback' = [callback EXCEPT ![c] = NoCallback]
      /\ ssoLogins' = [ssoLogins EXCEPT ![s] = Append(ssoLogins[s], login)]
      /\ authState' = authState
    BY DEF Link, Goes
<1>2. Busy(c) /\ s \in SsoStates /\ ssoLogins[s] = <<>> /\ authState[s] = Spent
    BY <1>1 DEF Busy, NoCallback, SsoInv, CallbackTypeOK, HeldOnce
<1>3. \A d \in Callbacks : callback'[d] = IF d = c THEN NoCallback ELSE callback[d]
    BY <1>1 DEF SsoInv, CallbackTypeOK
<1>4. \A d \in Callbacks : Busy(d)' => /\ Busy(d) /\ callback'[d] = callback[d]
                                       /\ callback[d].state # s
    BY <1>2, <1>3 DEF Busy, SsoInv, HeldOnce
<1>5. /\ ssoLogins'[s] = Append(<<>>, login)
      /\ \A r \in SsoStates : r # s => ssoLogins'[r] = ssoLogins[r]
    BY <1>1, <1>2 DEF SsoInv, CallbackTypeOK
<1>6. Len(Append(<<>>, login)) = 1
    <2> HIDE DEF login
    <2>1. <<>> \in Seq({login}) /\ login \in {login}
        OBVIOUS
    <2>2. Len(Append(<<>>, login)) = Len(<<>>) + 1
        BY <2>1
    <2> QED
        BY <2>2
<1>7. CallbackTypeOK'
    BY <1>1, <1>2, <1>4 DEF SsoInv, CallbackTypeOK, Busy
<1>8. HeldOnce'
    BY <1>1, <1>2, <1>4, <1>5, <1>7 DEF SsoInv, HeldOnce, CallbackTypeOK, Busy
<1>9. OneLoginPerState'
  <2>1. ASSUME NEW r \in SsoStates PROVE Len(ssoLogins'[r]) <= 1
    <3>1. CASE r = s
        BY <3>1, <1>5, <1>6
    <3>2. CASE r # s
        BY <3>2, <1>5 DEF SsoInv, OneLoginPerState
    <3> QED
        BY <3>1, <3>2
  <2> QED
    BY <2>1 DEF OneLoginPerState
<1> QED
    BY <1>7, <1>8, <1>9 DEF SsoInv

LEMMA SsoStep == SsoInv /\ [SsoNext]_ssoVars => SsoInv'
<1> SUFFICES ASSUME SsoInv, [SsoNext]_ssoVars PROVE SsoInv'
    OBVIOUS
<1>1. ASSUME NEW c \in Callbacks, Exchange(c) PROVE SsoInv'
  <2>1. Busy(c) /\ UNCHANGED <<authState, ssoLogins>>
    <3>1. callback[c].at = "exchange" /\ NoCallback.at = "none"
        BY <1>1 DEF Exchange, NoCallback
    <3> QED
        BY <1>1, <3>1 DEF Exchange, Busy
  <2>2. CASE Goes(c, NoCallback)
    BY <2>1, <2>2, CallbackMovesOn
  <2>3. CASE \E person \in Persons : \E e \in EmailsSaid(callback[c].provider, person) \ {""} :
                Goes(c, [at |-> "find", state |-> callback[c].state,
                         provider |-> callback[c].provider, person |-> person, email |-> e])
    <3>1. PICK person, e :
                Goes(c, [at |-> "find", state |-> callback[c].state,
                         provider |-> callback[c].provider, person |-> person, email |-> e])
        BY <2>3
    <3> DEFINE at == [at |-> "find", state |-> callback[c].state,
                      provider |-> callback[c].provider, person |-> person, email |-> e]
    <3>2. at.state = callback[c].state /\ Goes(c, at)
        BY <3>1
    <3> HIDE DEF at
    <3> QED
        BY <2>1, <3>2, CallbackMovesOn
  <2> QED
    BY <1>1, <2>2, <2>3 DEF Exchange
<1>k. ASSUME NEW c \in Callbacks, NEW where PROVE
        [callback[c] EXCEPT !.at = where].state = callback[c].state
    OBVIOUS
<1>2. ASSUME NEW c \in Callbacks, FindUser(c) PROVE SsoInv'
  <2>1. Busy(c) /\ UNCHANGED <<authState, ssoLogins>>
    BY <1>2 DEF FindUser, Busy, NoCallback
  <2>2. \/ Goes(c, NoCallback)
        \/ Goes(c, [callback[c] EXCEPT !.at = "link"])
        \/ Goes(c, [callback[c] EXCEPT !.at = "create"])
    BY <1>2 DEF FindUser
  <2> QED
    BY <2>1, <2>2, <1>k, CallbackMovesOn
<1>3. ASSUME NEW c \in Callbacks, CreateUser(c) PROVE SsoInv'
  <2>1. Busy(c) /\ UNCHANGED <<authState, ssoLogins>>
    BY <1>3 DEF CreateUser, Busy, NoCallback
  <2>2. Goes(c, NoCallback) \/ Goes(c, [callback[c] EXCEPT !.at = "link"])
    BY <1>3 DEF CreateUser
  <2> QED
    BY <2>1, <2>2, <1>k, CallbackMovesOn
<1>4. ASSUME NEW s \in SsoStates, NEW p \in SsoProviders, Authorize(s, p) PROVE SsoInv'
  <2>1. Undrawn.kind # Spent.kind
    BY DEF Undrawn, Spent
  <2>2. authState[s] # Spent
    BY <1>4, <2>1 DEF Authorize
  <2> QED
    BY <1>4, <2>2, StateChanges DEF Authorize
<1>5. ASSUME NEW s \in SsoStates, ExpireState(s) PROVE SsoInv'
    BY <1>5, ProviderAssumption, StateChanges DEF ExpireState
<1>6. CASE UNCHANGED <<authState, callback, ssoLogins>>
    BY <1>6 DEF SsoInv, CallbackTypeOK, HeldOnce, OneLoginPerState, Busy
<1>7. ASSUME NEW p \in SsoProviders, CreateProvider(p) \/ DeleteProvider(p) PROVE SsoInv'
    BY <1>6, <1>7 DEF CreateProvider, DeleteProvider, OnlyOffered
<1>8. ASSUME NEW person \in Persons, NEW e \in Emails, ChangeEmail(person, e) PROVE SsoInv'
    BY <1>6, <1>8 DEF ChangeEmail
<1>9. CASE UNCHANGED ssoVars
    BY <1>6, <1>9 DEF ssoVars
<1> QED
    BY <1>1, <1>2, <1>3, <1>4, <1>5, <1>7, <1>8, <1>9, ConsumeHeldOnce, LinkLogsInOnce DEF SsoNext

LEMMA SsoStart == SsoInit => SsoInv
<1>1. Len(<<>>) = 0
    OBVIOUS
<1> QED
    BY <1>1 DEF SsoInit, SsoInv, CallbackTypeOK, HeldOnce, OneLoginPerState, Busy

\* Any number of callbacks may present a state at a time, or again, while it
\* expires and its provider is deleted: it is worth one login (consume).
THEOREM StatesLogInOnce == SsoSpec => []OneLoginPerState
<1>1. SsoInv => OneLoginPerState
    BY DEF SsoInv
<1> QED
    BY <1>1, SsoStart, SsoStep, PTL DEF SsoSpec

----------------------------------------------------------------------------
(* The cache of tenants.  A request that found a row and has not yet       *)
(* entered it holds the row as it is, unless an update is under way or the *)
(* tenant has raced; a tenant that was never written has neither an entry  *)
(* nor such a request.                                                     *)

Filling(q, t) == request[q].at = "fill" /\ request[q].key[2] = t

CacheTypes ==
    /\ tenantRow \in [Tenants -> [active : BOOLEAN, plan : TenantPlans \union {NoTenant}]]
    /\ tenantCache = [k \in {"id", "slug"} \X Tenants |-> tenantCache[k]]
    /\ request = [q \in Requests |-> request[q]]

Settled == Tenants \ (dirty \union raced)

HeldIsRow ==
    \A q \in Requests :
        request[q].at = "fill" =>
            /\ request[q].held.active
            /\ \A t \in Settled : request[q].key[2] = t => request[q].held = tenantRow[t]

NeverWritten == \A t \in Tenants : tenantRow[t] = NoRow => t \in Settled

CacheInv == CacheTypes /\ HeldIsRow /\ NeverWritten /\ OnlyRacesStale

LEMMA CacheStarts ==
    ASSUME TenantInit
    PROVE  CacheInv
BY DEF TenantInit, CacheInv, CacheTypes, HeldIsRow, NeverWritten, OnlyRacesStale,
       Settled, NoRow, Ready

\* What has no entry, and no request about to enter it.
LEMMA NothingOfNew ==
    ASSUME CacheInv, NEW t \in Tenants, tenantRow[t] = NoRow
    PROVE  /\ t \in Settled
           /\ tenantCache[<<"id", t>>] = NoRow
           /\ \A q \in Requests : ~Filling(q, t)
<1>1. t \in Settled /\ ~tenantRow[t].active
    BY DEF CacheInv, NeverWritten, NoRow
<1>2. tenantCache[<<"id", t>>] = NoRow
    BY <1>1 DEF CacheInv, OnlyRacesStale, Settled
<1>3. ASSUME NEW q \in Requests, Filling(q, t)
      PROVE  FALSE
    BY <1>1, <1>3 DEF Filling, CacheInv, HeldIsRow
<1> QED
    BY <1>1, <1>2, <1>3

\* A request goes on.
LEMMA ResolveKeeps ==
    ASSUME CacheInv, NEW q \in Requests, ResolveTenant(q) \/ Look(q) \/ Find(q)
    PROVE  CacheInv'
<1>1. /\ tenantRow' = tenantRow /\ tenantCache' = tenantCache
      /\ dirty' = dirty /\ raced' = raced
      /\ CacheTypes /\ HeldIsRow /\ NeverWritten /\ OnlyRacesStale
    BY DEF ResolveTenant, Look, Find, CacheInv
<1>2. PICK at : request' = [request EXCEPT ![q] = at]
    BY DEF ResolveTenant, Look, Find, Resolved, Proceed
<1>3. /\ request'[q] = at
      /\ \A p \in Requests \ {q} : request'[p] = request[p]
      /\ request' = [p \in Requests |-> request'[p]]
    BY <1>1, <1>2 DEF CacheTypes
<1>4. request'[q].at = "fill" =>
          /\ request'[q].held.active
          /\ \A t \in Settled : request'[q].key[2] = t => request'[q].held = tenantRow[t]
  <2>1. CASE ResolveTenant(q)
    <3>1. PICK l : request'[q] = [at |-> "look", left |-> l]
        BY <1>1, <2>1 DEF ResolveTenant, Proceed, CacheTypes
    <3> QED
        BY <3>1
  <2>2. CASE Look(q)
    <3>1. request'[q] = Ready \/ request'[q] = [request[q] EXCEPT !.at = "find"]
        BY <1>1, <2>2 DEF Look, Resolved, Proceed, CacheTypes
    <3>2. CASE request'[q] = Ready
        BY <3>2 DEF Ready
    <3>3. CASE request'[q] = [request[q] EXCEPT !.at = "find"]
        BY <2>2, <3>3 DEF Look
    <3> QED
        BY <3>1, <3>2, <3>3
  <2>3. CASE Find(q)
    <3>1. PICK source : source = Head(request[q].left)
        OBVIOUS
    <3>2. \/ /\ tenantRow[source[2]].active
             /\ request'[q] = [at |-> "fill", key |-> source, held |-> tenantRow[source[2]]]
          \/ request'[q] = Ready
          \/ request'[q] = [at |-> "look", left |-> Tail(request[q].left)]
        BY <1>1, <2>3, <3>1 DEF Find, Resolved, Proceed, CacheTypes
    <3> QED
        BY <3>2 DEF Ready
  <2> QED
      BY <2>1, <2>2, <2>3
<1>5. HeldIsRow'
    BY <1>1, <1>3, <1>4 DEF HeldIsRow, Settled
<1> QED
    BY <1>1, <1>3, <1>5 DEF CacheInv, CacheTypes, NeverWritten, OnlyRacesStale, Settled, NoRow

\* The row that was held is entered.
LEMMA FillKeeps ==
    ASSUME CacheInv, NEW q \in Requests, Fill(q)
    PROVE  CacheInv'
<1>1. /\ request[q].at = "fill"
      /\ tenantRow' = tenantRow /\ dirty' = dirty /\ raced' = raced
      /\ tenantCache' = [k \in DOMAIN tenantCache |->
            IF k[2] = request[q].key[2] /\ (k = request[q].key \/ k[1] = "id")
            THEN request[q].held ELSE tenantCache[k]]
      /\ request' = [request EXCEPT ![q] = Ready]
      /\ CacheTypes /\ HeldIsRow /\ NeverWritten /\ OnlyRacesStale
    BY DEF Fill, Resolved, Proceed, CacheInv
<1>2. DOMAIN tenantCache = {"id", "slug"} \X Tenants
    BY <1>1 DEF CacheTypes
<1>3. \A t \in Tenants :
          tenantCache'[<<"id", t>>] =
              IF t = request[q].key[2] THEN request[q].held ELSE tenantCache[<<"id", t>>]
  <2> TAKE t \in Tenants
  <2>1. <<"id", t>> \in {"id", "slug"} \X Tenants
      OBVIOUS
  <2> QED
      BY <1>1, <1>2, <2>1
<1>4. OnlyRacesStale'
  <2>1. SUFFICES ASSUME NEW t \in Settled, tenantCache'[<<"id", t>>] # NoRow
                 PROVE  tenantRow[t].active /\ tenantCache'[<<"id", t>>] = tenantRow[t]
      BY <1>1 DEF OnlyRacesStale, Settled, NoRow
  <2>2. CASE t = request[q].key[2]
      BY <1>1, <1>3, <2>2 DEF HeldIsRow, Settled
  <2>3. CASE t # request[q].key[2]
      BY <1>1, <1>3, <2>1, <2>3 DEF OnlyRacesStale, Settled
  <2> QED
      BY <2>2, <2>3
<1>5. /\ request'[q] = Ready
      /\ \A p \in Requests \ {q} : request'[p] = request[p]
      /\ request' = [p \in Requests |-> request'[p]]
    BY <1>1 DEF CacheTypes
<1>6. HeldIsRow'
  <2>1. Ready.at # "fill"
      BY DEF Ready
  <2> QED
      BY <1>1, <1>5, <2>1 DEF HeldIsRow, Settled
<1>7. CacheTypes'
    BY <1>1, <1>2, <1>5 DEF CacheTypes
<1> QED
    BY <1>1, <1>4, <1>6, <1>7 DEF CacheInv, NeverWritten, Settled, NoRow

\* The administrators write rows.
LEMMA RowWrites ==
    ASSUME CacheInv, NEW t \in Tenants, NEW r, r # NoRow,
           r \in [active : BOOLEAN, plan : TenantPlans \union {NoTenant}],
           tenantRow' = [tenantRow EXCEPT ![t] = r],
           UNCHANGED <<tenantCache, request>>,
           Settled' \subseteq Settled,
           \A s \in Tenants \ {t} : s \in Settled => s \in Settled',
           t \in Settled' => tenantRow[t] = NoRow
    PROVE  CacheInv'
<1>1. /\ tenantCache' = tenantCache /\ request' = request
      /\ CacheTypes /\ HeldIsRow /\ NeverWritten /\ OnlyRacesStale
    BY DEF CacheInv
<1>2. tenantRow'[t] = r /\ \A s \in Tenants \ {t} : tenantRow'[s] = tenantRow[s]
    BY <1>1 DEF CacheTypes
<1>3. CacheTypes'
    BY <1>1 DEF CacheTypes
<1>4. NeverWritten'
    BY <1>1, <1>2 DEF NeverWritten, NoRow
<1>5. ASSUME NEW s \in Settled'
      PROVE  /\ s \in Settled /\ s \in Tenants
             /\ s = t => /\ tenantCache[<<"id", t>>] = NoRow
                         /\ \A q \in Requests : ~Filling(q, t)
    BY <1>5, NothingOfNew DEF Settled
<1>6. HeldIsRow'
    BY <1>1, <1>2, <1>5 DEF HeldIsRow, Filling
<1>7. OnlyRacesStale'
  <2>1. SUFFICES ASSUME NEW s \in Settled', tenantCache[<<"id", s>>] # NoRow
                 PROVE  tenantRow'[s].active /\ tenantCache[<<"id", s>>] = tenantRow'[s]
      BY <1>1 DEF OnlyRacesStale, Settled, NoRow
  <2>2. s # t /\ s \in Settled /\ s \in Tenants
      BY <1>5, <2>1
  <2> QED
      BY <1>1, <1>2, <2>1, <2>2 DEF OnlyRacesStale, Settled
<1> QED
    BY <1>3, <1>4, <1>6, <1>7 DEF CacheInv

LEMMA AdminKeeps ==
    ASSUME CacheInv, NEW t \in Tenants,
           CreateTenant(t) \/ WriteTenant(t) \/ WriteElsewhere(t)
    PROVE  CacheInv'
<1> USE TenantAssumption DEF TenantAssumption
<1>1. CASE CreateTenant(t)
  <2>1. PICK p \in TenantPlans : tenantRow' = [tenantRow EXCEPT ![t] = RowOf(p)]
      BY <1>1 DEF CreateTenant
  <2>2. /\ RowOf(p) # NoRow
        /\ RowOf(p) \in [active : BOOLEAN, plan : TenantPlans \union {NoTenant}]
      BY DEF RowOf, NoRow
  <2>3. Settled' = Settled /\ tenantRow[t] = NoRow /\ UNCHANGED <<tenantCache, request>>
      BY <1>1 DEF CreateTenant, Settled
  <2> QED
      BY <2>1, <2>2, <2>3, RowWrites
<1>2. CASE WriteTenant(t) \/ WriteElsewhere(t)
  <2>1. PICK r \in Written(t) : tenantRow' = [tenantRow EXCEPT ![t] = r]
      BY <1>2 DEF WriteTenant, WriteElsewhere
  <2>2. r # NoRow /\ r \in [active : BOOLEAN, plan : TenantPlans \union {NoTenant}]
      BY DEF Written, NoRow
  <2>3. Settled' = Settled \ {t} /\ UNCHANGED <<tenantCache, request>>
      BY <1>2 DEF WriteTenant, WriteElsewhere, Settled
  <2> QED
      BY <2>1, <2>2, <2>3, RowWrites
<1> QED
    BY <1>1, <1>2

\* The entry is removed; a request that read the old row is a race.
LEMMA InvalidateKeeps ==
    ASSUME CacheInv, NEW t \in Tenants, InvalidateCache(t)
    PROVE  CacheInv'
<1>1. /\ t \in dirty /\ dirty' = dirty \ {t}
      /\ tenantCache' = [tenantCache EXCEPT ![<<"id", t>>] = NoRow]
      /\ raced' = IF Outdated(t) THEN raced \union {t} ELSE raced \ {t}
      /\ tenantRow' = tenantRow /\ request' = request
      /\ CacheTypes /\ HeldIsRow /\ NeverWritten /\ OnlyRacesStale
    BY DEF InvalidateCache, RemoveEntry, CacheInv
<1>2. /\ tenantCache' = [k \in {"id", "slug"} \X Tenants |-> tenantCache'[k]]
      /\ tenantCache'[<<"id", t>>] = NoRow
      /\ \A s \in Tenants \ {t} : tenantCache'[<<"id", s>>] = tenantCache[<<"id", s>>]
    BY <1>1 DEF CacheTypes
<1>3. /\ \A s \in Settled' : s = t \/ s \in Settled
      /\ \A s \in Settled : s \in Settled'
      /\ t \in Settled' => ~Outdated(t)
    BY <1>1 DEF Settled
<1>4. HeldIsRow'
  <2>1. ASSUME NEW q \in Requests, request[q].at = "fill", NEW s \in Settled', request[q].key[2] = s
        PROVE  request[q].held = tenantRow[s]
    <3>1. CASE s = t
        BY <1>3, <2>1, <3>1 DEF Outdated
    <3>2. CASE s # t
        BY <1>1, <1>3, <2>1, <3>2 DEF HeldIsRow
    <3> QED
        BY <3>1, <3>2
  <2> QED
      BY <1>1, <2>1 DEF HeldIsRow
<1>5. OnlyRacesStale'
  <2>1. SUFFICES ASSUME NEW s \in Settled', tenantCache'[<<"id", s>>] # NoRow
                 PROVE  tenantRow[s].active /\ tenantCache'[<<"id", s>>] = tenantRow[s]
      BY <1>1 DEF OnlyRacesStale, Settled, NoRow
  <2>2. s # t /\ s \in Settled /\ s \in Tenants
      BY <1>2, <1>3, <2>1 DEF Settled
  <2> QED
      BY <1>1, <1>2, <2>1, <2>2 DEF OnlyRacesStale, Settled
<1>6. NeverWritten'
    BY <1>1, <1>3 DEF NeverWritten, NoRow
<1> QED
    BY <1>1, <1>2, <1>4, <1>5, <1>6 DEF CacheInv, CacheTypes

(***************************************************************************)
(* The cached entry of a tenant is its active row, unless an update is on  *)
(* its way to the cache or has raced with another replica or a request in  *)
(* flight, for any tenants and requests (service.rs resolve,               *)
(* invalidate_cache).                                                      *)
(***************************************************************************)
THEOREM StaleOnlyByRaces == TenantSpec => []OnlyRacesStale
<1>1. TenantInit => CacheInv
    BY CacheStarts
<1>2. CacheInv /\ [TenantNext]_tenantVars => CacheInv'
  <2>1. ASSUME CacheInv, UNCHANGED tenantVars PROVE CacheInv'
      BY <2>1 DEF tenantVars, CacheInv, CacheTypes, HeldIsRow, NeverWritten, OnlyRacesStale,
                  Settled, NoRow
  <2> QED
      BY <2>1, ResolveKeeps, FillKeeps, AdminKeeps, InvalidateKeeps DEF TenantNext
<1>3. CacheInv => OnlyRacesStale
    BY DEF CacheInv
<1> QED
    BY <1>1, <1>2, <1>3, PTL DEF TenantSpec
=============================================================================
