----------------------- MODULE TokenLifecycle_proofs -----------------------
(***************************************************************************)
(* Theorems about TokenLifecycle, for any number of tokens and requests,   *)
(* any lives and leeway, and any number of restarts.                       *)
(***************************************************************************)
EXTENDS TokenLifecycle, FiniteSetTheorems, TLAPS

USE TokenAssumption DEF TokenAssumption

\* What is on the blacklist was revoked, only issued tokens were, and the
\* entry of one that has time left has as much.
ListedWhileAlive ==
    \A j \in Jtis :
        /\ listed[j] # Unlisted => j \in revoked
        /\ j \in revoked => token[j].typ # "none"
        /\ j \in revoked /\ token[j].life > 0 => listed[j] >= token[j].life

\* A request past its start works on an issued token, and one that is about
\* to remove an entry on one past its exp.
WorksOnIssued ==
    \A c \in Clients :
        /\ tokenPc[c] # "idle" => shown[c] \in Jtis /\ token[shown[c]].typ # "none"
        /\ tokenPc[c] = "unlist" => token[shown[c]].life <= 0

TokenInv == TokenTypeOK /\ ListedWhileAlive /\ WorksOnIssued

Tokens == [typ : {"none", "access", "refresh"}, life : Lifes]

-----------------------------------------------------------------------------
LEMMA LifeTypes ==
    /\ MaxTtl \in Nat /\ AccessTtl \in Lifes /\ RefreshTtl \in Lifes
    /\ \A i \in Lifes : i \in Int /\ i <= MaxTtl
BY DEF MaxTtl, Lifes

\* New tokens take ids that were free and leave the issued ones alone.
LEMMA IssueLeavesIssued ==
    ASSUME token \in [Jtis -> Tokens], IssuePair
    PROVE  /\ token' \in [Jtis -> Tokens]
           /\ \A j \in Jtis : token[j].typ # "none" => token'[j] = token[j]
<1> DEFINE free == {j \in Jtis : token[j].typ = "none"}
<1> DEFINE a == CHOOSE j \in free : TRUE
<1> DEFINE r == CHOOSE j \in free \ {a} : TRUE
<1>1. Cardinality(free) >= 2
      /\ token' = [token EXCEPT ![a] = [typ |-> "access", life |-> AccessTtl],
                                ![r] = [typ |-> "refresh", life |-> RefreshTtl]]
  BY DEF IssuePair
<1>2. a \in free
  <2>1. Cardinality(free) # 0 BY <1>1
  <2> HIDE DEF free
  <2>2. free # {} BY <2>1, FS_EmptySet
  <2> USE DEF free
  <2> QED BY <2>2
<1>3. r \in free
  <2>1. Cardinality(free) # 1 BY <1>1
  <2> HIDE DEF free, a
  <2>3. free # {a} BY <2>1, FS_Singleton
  <2>4. a \in free BY <1>2
  <2> USE DEF free, a
  <2>2. free \ {a} # {} BY <2>3, <2>4
  <2> QED BY <2>2
<1>4. [typ |-> "access", life |-> AccessTtl] \in Tokens
      /\ [typ |-> "refresh", life |-> RefreshTtl] \in Tokens
  BY LifeTypes DEF Tokens
<1>5. a \in Jtis /\ r \in Jtis /\ token[a].typ = "none" /\ token[r].typ = "none"
  BY <1>2, <1>3
<1> HIDE DEF free, a, r
<1> QED BY <1>1, <1>4, <1>5

\* Revoking an issued token keeps what the blacklist is to hold.
LEMMA RevokeKeeps ==
    ASSUME TokenInv, NEW j \in Jtis, token[j].typ # "none", Revoke(j), UNCHANGED token
    PROVE  /\ ListedWhileAlive'
           /\ listed' \in [Jtis -> 0..MaxTtl \union {Unlisted}]
           /\ revoked' \subseteq Jtis
<1>1. Remaining(j) \in 0..MaxTtl /\ (token[j].life > 0 => Remaining(j) = token[j].life)
  <2>1. token[j].life \in Lifes BY DEF TokenInv, TokenTypeOK
  <2>2. token[j].life \in Int /\ token[j].life <= MaxTtl BY <2>1, LifeTypes
  <2>3. MaxTtl \in Nat BY LifeTypes
  <2> QED BY <2>2, <2>3 DEF Remaining
<1>2. listed' = [listed EXCEPT ![j] = Remaining(j)] /\ revoked' = revoked \union {j}
  BY DEF Revoke
<1>3. \A i \in Jtis : token[i].life \in Int
  BY LifeTypes DEF TokenInv, TokenTypeOK
<1> QED BY <1>1, <1>2, <1>3 DEF TokenInv, TokenTypeOK, ListedWhileAlive, Unlisted

\* The history of exchanges counts one at a time.
LEMMA CountedByOne ==
    ASSUME NEW n \in Nat
    PROVE  Counted(n) \in Nat /\ Counted(n) <= n + 1
BY FS_CardinalityType DEF Counted, UseCap

LEMMA LetThroughTypes ==
    ASSUME TokenTypeOK, NEW c \in Clients, LetThrough(c)
    PROVE  uses' \in [Jtis -> Nat]
<1>1. \A j \in Jtis : Counted(uses[j]) \in Nat
  <2>1. \A j \in Jtis : uses[j] \in Nat BY DEF TokenTypeOK
  <2> QED BY <2>1, CountedByOne
<1>2. CASE uses' = uses BY <1>2 DEF TokenTypeOK
<1>3. CASE uses' = [uses EXCEPT ![shown[c]] = Counted(@)]
  BY <1>1, <1>3 DEF TokenTypeOK
<1> QED BY <1>2, <1>3 DEF LetThrough

LEMMA TokenStep ==
    ASSUME TokenInv, [TokenNext]_tokenVars
    PROVE  TokenInv'
<1> USE DEF TokenInv
<1>r. token \in [Jtis -> Tokens] BY DEF TokenTypeOK, Tokens
<1>i. \A j \in Jtis : token[j].life \in Lifes /\ token[j].life \in Int
  BY LifeTypes DEF TokenTypeOK
<1>1. CASE UNCHANGED tokenVars
  BY <1>1 DEF tokenVars, TokenTypeOK, ListedWhileAlive, WorksOnIssued
<1>2. CASE Login
  <2>1. IssuePair /\ UNCHANGED <<listed, tokenPc, shown, revoked, uses, restarts>>
    BY <1>2 DEF Login
  <2>2. /\ token' \in [Jtis -> Tokens]
        /\ \A j \in Jtis : token[j].typ # "none" => token'[j] = token[j]
    BY <1>r, <2>1, IssueLeavesIssued
  <2>3. TokenTypeOK' BY <2>1, <2>2 DEF TokenTypeOK, Tokens
  <2>4. ListedWhileAlive' BY <2>1, <2>2 DEF ListedWhileAlive
  <2>5. WorksOnIssued' BY <2>1, <2>2 DEF WorksOnIssued
  <2> QED BY <2>3, <2>4, <2>5
<1>3. CASE CleanBlacklist
  <2>1. TokenTypeOK' BY <1>3 DEF CleanBlacklist, TokenTypeOK
  <2>2. ListedWhileAlive'
    BY <1>3, <1>i DEF CleanBlacklist, TokenTypeOK, ListedWhileAlive, Unlisted
  <2>3. WorksOnIssued' BY <1>3 DEF CleanBlacklist, WorksOnIssued
  <2> QED BY <2>1, <2>2, <2>3
<1>4. CASE Expire
  <2>1. \A j \in Jtis : /\ token'[j].typ = token[j].typ
                        /\ token'[j].life \in Lifes
                        /\ token'[j].life <= token[j].life
                        /\ token[j].typ # "none" /\ token[j].life > 0
                              => token'[j].life = token[j].life - 1
    <3> SUFFICES ASSUME NEW j \in Jtis
                 PROVE  /\ token'[j].typ = token[j].typ
                        /\ token'[j].life \in Lifes
                        /\ token'[j].life <= token[j].life
                        /\ token[j].typ # "none" /\ token[j].life > 0
                              => token'[j].life = token[j].life - 1
      OBVIOUS
    <3>1. CASE token[j].typ # "none" /\ Decodes(j)
      <4>1. token'[j] = [typ |-> token[j].typ, life |-> token[j].life - 1]
        BY <1>4, <3>1 DEF Expire
      <4>2. token[j].life - 1 \in Lifes BY <1>i, <3>1, LifeTypes DEF Decodes, Lifes
      <4> QED BY <1>i, <4>1, <4>2
    <3>2. CASE ~(token[j].typ # "none" /\ Decodes(j))
      <4>1. token'[j] = token[j] BY <1>4, <3>2 DEF Expire
      <4> QED BY <1>i, <3>2, <4>1 DEF Decodes
    <3> QED BY <3>1, <3>2
  <2>2. TokenTypeOK'
    <3>1. token' \in [Jtis -> Tokens]
      <4>1. \A j \in Jtis : [typ |-> token[j].typ, life |-> token[j].life - 1] \in Tokens
                            \/ ~Decodes(j)
        <5> SUFFICES ASSUME NEW j \in Jtis, Decodes(j)
                     PROVE  [typ |-> token[j].typ, life |-> token[j].life - 1] \in Tokens
          OBVIOUS
        <5>1. token[j].life - 1 \in Lifes BY <1>i, LifeTypes DEF Decodes, Lifes
        <5>2. token[j].typ \in {"none", "access", "refresh"} BY <1>r DEF Tokens
        <5> QED BY <5>1, <5>2 DEF Tokens
      <4> QED BY <1>4, <1>r, <4>1 DEF Expire
    <3>2. listed' \in [Jtis -> 0..MaxTtl \union {Unlisted}]
      BY <1>4, LifeTypes DEF Expire, TokenTypeOK, Unlisted
    <3> QED BY <1>4, <3>1, <3>2 DEF Expire, TokenTypeOK, Tokens
  <2>3. ListedWhileAlive'
    BY <1>4, <1>i, <2>1, LifeTypes DEF Expire, TokenTypeOK, ListedWhileAlive, Unlisted
  <2>4. WorksOnIssued'
    <3>1. UNCHANGED <<tokenPc, shown>> BY <1>4 DEF Expire
    <3>2. \A j \in Jtis : token[j].life <= 0 => token'[j].life <= 0
      BY <1>i, <2>1, LifeTypes
    <3> QED BY <2>1, <3>1, <3>2 DEF WorksOnIssued
  <2> QED BY <2>2, <2>3, <2>4
<1>5. CASE Restart
  <2>1. TokenTypeOK' BY <1>5 DEF Restart, TokenTypeOK, TokenSteps
  <2>2. ListedWhileAlive' BY <1>5 DEF Restart, ListedWhileAlive
  <2>3. WorksOnIssued' BY <1>5 DEF Restart, WorksOnIssued
  <2> QED BY <2>1, <2>2, <2>3
<1>6. ASSUME NEW c \in Clients,
             Send(c) \/ Check(c) \/ Finish(c)
      PROVE  TokenInv'
  <2>1. UNCHANGED <<token, listed, revoked>>
    BY <1>6 DEF Send, Check, Finish
  <2>2. ListedWhileAlive' BY <2>1 DEF ListedWhileAlive
  <2>3. CASE Send(c)
    <3>1. TokenTypeOK' BY <2>3 DEF Send, GotoToken, TokenTypeOK, TokenSteps
    <3>2. WorksOnIssued'
      BY <2>3 DEF Send, Decodes, GotoToken, TokenTypeOK, TokenSteps, WorksOnIssued
    <3> QED BY <2>2, <3>1, <3>2
  <2>4. CASE Finish(c)
    BY <2>2, <2>4 DEF Finish, EndRequest, GotoToken, TokenTypeOK, TokenSteps, WorksOnIssued
  <2>5. CASE Check(c)
    <3>1. shown[c] \in Jtis /\ token[shown[c]].typ # "none"
      BY <2>5 DEF Check, WorksOnIssued
    <3>2. CASE listed[shown[c]] > 0 /\ EndRequest(c) /\ UNCHANGED uses
      BY <2>1, <2>2, <2>5, <3>2
      DEF Check, EndRequest, GotoToken, TokenTypeOK, TokenSteps, WorksOnIssued
    <3>3. CASE listed[shown[c]] = 0 /\ GotoToken(c, "unlist") /\ UNCHANGED <<shown, uses>>
      <4>1. token[shown[c]].life <= 0
        BY <1>i, <3>1, <3>3 DEF ListedWhileAlive, Unlisted
      <4> QED BY <2>1, <2>2, <2>5, <3>1, <3>3, <4>1
              DEF Check, GotoToken, TokenTypeOK, TokenSteps, WorksOnIssued
    <3>4. CASE LetThrough(c) /\ UNCHANGED shown
      <4>1. uses' \in [Jtis -> Nat] BY <3>4, LetThroughTypes
      <4>2. UNCHANGED restarts BY <2>5 DEF Check
      <4>3. TokenTypeOK'
        BY <2>1, <3>4, <4>1, <4>2 DEF LetThrough, GotoToken, TokenTypeOK, TokenSteps
      <4>4. WorksOnIssued'
        BY <2>1, <3>1, <3>4 DEF LetThrough, GotoToken, TokenTypeOK, TokenSteps, WorksOnIssued
      <4> QED BY <2>2, <4>3, <4>4
    <3> QED BY <2>5, <3>2, <3>3, <3>4 DEF Check
  <2> QED BY <1>6, <2>3, <2>4, <2>5
<1>7. ASSUME NEW c \in Clients, Unlist(c)
      PROVE  TokenInv'
  <2>1. shown[c] \in Jtis /\ token[shown[c]].typ # "none" /\ token[shown[c]].life <= 0
    BY <1>7 DEF Unlist, WorksOnIssued
  <2>2. TokenTypeOK' /\ WorksOnIssued'
    <3>1. uses' \in [Jtis -> Nat] BY <1>7, LetThroughTypes DEF Unlist
    <3>2. TokenTypeOK'
      BY <1>7, <2>1, <3>1 DEF Unlist, LetThrough, GotoToken, TokenTypeOK, TokenSteps, Unlisted
    <3>3. WorksOnIssued'
      BY <1>7, <2>1 DEF Unlist, LetThrough, GotoToken, TokenTypeOK, TokenSteps, WorksOnIssued
    <3> QED BY <3>2, <3>3
  <2>3. ListedWhileAlive'
    BY <1>7, <1>i, <2>1 DEF Unlist, TokenTypeOK, ListedWhileAlive
  <2> QED BY <2>2, <2>3
<1>8. ASSUME NEW c \in Clients, LogoutBearer(c) \/ LogoutRefresh(c) \/ RevokeOld(c)
      PROVE  TokenInv'
  <2>1. UNCHANGED <<token, uses, restarts>>
    BY <1>8 DEF LogoutBearer, LogoutRefresh, RevokeOld
  <2>2. shown[c] \in Jtis /\ token[shown[c]].typ # "none"
    BY <1>8 DEF LogoutBearer, LogoutRefresh, RevokeOld, WorksOnIssued
  <2>3. Revoke(shown[c]) \/ UNCHANGED <<listed, revoked>>
    BY <1>8 DEF LogoutBearer, LogoutRefresh, RevokeOld, RevokeIfDecodes
  <2>4. /\ ListedWhileAlive'
        /\ listed' \in [Jtis -> 0..MaxTtl \union {Unlisted}]
        /\ revoked' \subseteq Jtis
    <3>1. CASE Revoke(shown[c]) BY <2>1, <2>2, <3>1, RevokeKeeps
    <3>2. CASE UNCHANGED <<listed, revoked>>
      BY <2>1, <3>2 DEF ListedWhileAlive, TokenTypeOK
    <3> QED BY <2>3, <3>1, <3>2
  <2>5. /\ tokenPc' \in [Clients -> TokenSteps]
        /\ shown' \in [Clients -> Jtis \union {NoJti}]
        /\ WorksOnIssued'
    <3> USE DEF EndRequest, GotoToken, TokenTypeOK, TokenSteps, WorksOnIssued
    <3>1. CASE LogoutBearer(c)
      BY <2>1, <2>2, <3>1 DEF LogoutBearer, Decodes
    <3>2. CASE LogoutRefresh(c) BY <2>1, <3>2 DEF LogoutRefresh
    <3>3. CASE RevokeOld(c) BY <2>1, <2>2, <3>3 DEF RevokeOld
    <3> QED BY <1>8, <3>1, <3>2, <3>3
  <2>6. TokenTypeOK' BY <2>1, <2>4, <2>5 DEF TokenTypeOK
  <2> QED BY <2>4, <2>5, <2>6
<1>9. ASSUME NEW c \in Clients, Issue(c)
      PROVE  TokenInv'
  <2>1. /\ token' \in [Jtis -> Tokens]
        /\ \A j \in Jtis : token[j].typ # "none" => token'[j] = token[j]
    BY <1>9, <1>r, IssueLeavesIssued DEF Issue
  <2>2. EndRequest(c) /\ UNCHANGED <<listed, revoked, uses, restarts>>
    BY <1>9 DEF Issue
  <2>3. TokenTypeOK'
    BY <2>1, <2>2 DEF EndRequest, GotoToken, TokenTypeOK, TokenSteps, Tokens
  <2>4. ListedWhileAlive' BY <2>1, <2>2 DEF ListedWhileAlive
  <2>5. WorksOnIssued'
    BY <2>1, <2>2 DEF EndRequest, GotoToken, TokenTypeOK, TokenSteps, WorksOnIssued
  <2> QED BY <2>3, <2>4, <2>5
<1> QED BY <1>1, <1>2, <1>3, <1>4, <1>5, <1>6, <1>7, <1>8, <1>9 DEF TokenNext

LEMMA TokenInvariant == TokenSpec => []TokenInv
<1>1. TokenInit => TokenInv
  BY LifeTypes DEF TokenInit, TokenInv, TokenTypeOK, TokenSteps, Lifes, Unissued,
                   ListedWhileAlive, WorksOnIssued
<1>2. TokenInv /\ [TokenNext]_tokenVars => TokenInv' BY TokenStep
<1> QED BY <1>1, <1>2, PTL DEF TokenSpec

-----------------------------------------------------------------------------
\* Tokens, entries and requests keep their types: no entry outlives the
\* longest life of a token.
THEOREM TokenTypeCorrect == TokenSpec => []TokenTypeOK
<1>1. TokenInv => TokenTypeOK BY DEF TokenInv
<1> QED BY <1>1, TokenInvariant, PTL

LEMMA RevokedRejectedStep ==
    ASSUME TokenInv, [TokenNext]_tokenVars, NEW c \in Clients,
           Passes(c), token[shown[c]].life > 0
    PROVE  shown[c] \notin revoked
<1> USE DEF TokenInv, TokenTypeOK, Passes
<1>1. shown[c] \in Jtis /\ (tokenPc[c] = "unlist" => token[shown[c]].life <= 0)
  BY DEF WorksOnIssued
<1>2. token[shown[c]].life \in Int BY <1>1, LifeTypes
<1>3. tokenPc[c] = "check" BY <1>1, <1>2
<1>4. Check(c)
  <2>1. tokenPc'[c] # tokenPc[c] /\ tokenPc'[c] # "idle" BY <1>3
  <2>2. ~UNCHANGED tokenVars /\ ~Login /\ ~CleanBlacklist /\ ~Expire /\ ~Restart
    BY <2>1 DEF tokenVars, Login, CleanBlacklist, Expire, Restart
  <2>3. \A d \in Clients :
            ~(\/ Send(d) \/ Unlist(d) \/ Finish(d) \/ LogoutBearer(d) \/ LogoutRefresh(d)
              \/ RevokeOld(d) \/ Issue(d))
    <3> SUFFICES ASSUME NEW d \in Clients,
                        \/ Send(d) \/ Unlist(d) \/ Finish(d) \/ LogoutBearer(d)
                        \/ LogoutRefresh(d) \/ RevokeOld(d) \/ Issue(d)
                 PROVE  FALSE
      OBVIOUS
    <3>1. tokenPc[d] # "check" /\ \E s : tokenPc' = [tokenPc EXCEPT ![d] = s]
      BY DEF Send, Unlist, LetThrough, Finish, LogoutBearer, LogoutRefresh, RevokeOld,
             Issue, EndRequest, GotoToken
    <3> QED BY <1>3, <2>1, <3>1
  <2>4. PICK d \in Clients : Check(d) BY <2>2, <2>3 DEF TokenNext
  <2>5. d = c
    BY <2>1, <2>4 DEF Check, LetThrough, EndRequest, GotoToken
  <2> QED BY <2>4, <2>5
<1>5. listed[shown[c]] = Unlisted
  BY <1>3, <1>4 DEF Check, EndRequest, GotoToken
<1> QED BY <1>1, <1>2, <1>5 DEF ListedWhileAlive, Unlisted

\* Whatever requests revoke, clean up or remove at the same time, nothing that
\* was revoked is let through before its exp.
THEOREM RevokedAreRejected == TokenSpec => RevokedRejected
<1>1. TokenInv /\ [TokenNext]_tokenVars
      => [\A c \in Clients :
             Passes(c) /\ token[shown[c]].life > 0 => shown[c] \notin revoked]_tokenVars
  BY RevokedRejectedStep
<1> QED BY <1>1, TokenInvariant, PTL DEF TokenSpec, RevokedRejected

-----------------------------------------------------------------------------
\* Requests let through with a refresh token that have not revoked it yet.
Exchanging(j) == {c \in Clients : tokenPc[c] = "exchange" /\ shown[c] = j}

\* A token that is alive and nobody revoked was let through for requests that
\* are all still about to revoke it; one not issued yet, for none.
UsesPending ==
    \A j \in Jtis :
        /\ token[j].life > 0 /\ j \notin revoked => uses[j] <= Cardinality(Exchanging(j))
        /\ token[j].typ = "none" => uses[j] = 0

LEMMA ExchangingFinite ==
    \A j : /\ IsFiniteSet(Exchanging(j)) /\ Cardinality(Exchanging(j)) \in Nat
           /\ Cardinality(Clients) \in Nat
           /\ Cardinality(Exchanging(j)) <= Cardinality(Clients)
<1> SUFFICES ASSUME NEW j
             PROVE  /\ IsFiniteSet(Exchanging(j)) /\ Cardinality(Exchanging(j)) \in Nat
                    /\ Cardinality(Clients) \in Nat
                    /\ Cardinality(Exchanging(j)) <= Cardinality(Clients)
  OBVIOUS
<1>1. Exchanging(j) \subseteq Clients BY DEF Exchanging
<1> QED BY <1>1, FS_Subset, FS_CardinalityType

\* A request that is let through is counted and joins those about to revoke.
LEMMA LetThroughCounts ==
    ASSUME TokenInv, NEW c \in Clients, tokenPc[c] \in {"check", "unlist"},
           shown[c] \in Jtis, token[shown[c]].typ # "none",
           LetThrough(c), UNCHANGED <<token, shown, revoked>>,
           token[shown[c]].life > 0 => shown[c] \notin revoked,
           UsesPending, ExchangesBounded
    PROVE  UsesPending' /\ ExchangesBounded'
<1> USE DEF TokenInv, TokenTypeOK
<1>1. \A j \in Jtis : Exchanging(j) \subseteq Exchanging(j)'
  BY DEF Exchanging, LetThrough, GotoToken
<1>2. \A j \in Jtis : /\ IsFiniteSet(Exchanging(j)')
                      /\ Cardinality(Exchanging(j)') \in Nat
                      /\ Cardinality(Exchanging(j)') <= Cardinality(Clients)
  <2>1. \A j : Exchanging(j)' \subseteq Clients BY DEF Exchanging
  <2> QED BY <2>1, FS_Subset, FS_CardinalityType
<1>3. \A j \in Jtis : Cardinality(Exchanging(j)) <= Cardinality(Exchanging(j)')
  BY <1>1, <1>2, FS_Subset
<1>k. PICK k \in Jtis : k = shown[c] OBVIOUS
<1> USE <1>k
\* What is not the token at hand keeps its uses, and so its bounds.
<1>4. ASSUME NEW j \in Jtis, uses'[j] = uses[j]
      PROVE  /\ token[j].life > 0 /\ j \notin revoked => uses'[j] <= Cardinality(Exchanging(j)')
             /\ token[j].typ = "none" => uses'[j] = 0
             /\ token[j].life > 0 => uses'[j] <= Cardinality(Clients)
  <2>1. token[j].life > 0 /\ j \notin revoked => uses[j] <= Cardinality(Exchanging(j))
    BY DEF UsesPending
  <2>2. uses[j] \in Nat BY DEF TokenTypeOK
  <2>3. token[j].life > 0 /\ j \notin revoked => uses[j] <= Cardinality(Exchanging(j)')
    BY <1>2, <1>3, <2>1, <2>2, ExchangingFinite
  <2> QED BY <1>4, <2>3 DEF UsesPending, ExchangesBounded
<1>5. CASE uses' = uses
  <2>1. \A j \in Jtis : uses'[j] = uses[j] BY <1>5
  <2> QED BY <1>4, <2>1 DEF UsesPending, ExchangesBounded
<1>6. CASE token[k].typ = "refresh"
  <2>1. uses' = [uses EXCEPT ![k] = Counted(@)] BY <1>6 DEF LetThrough
  <2>2. uses'[k] \in Nat /\ uses'[k] <= uses[k] + 1 BY <2>1, CountedByOne
  <2>3. Cardinality(Exchanging(k)') >= Cardinality(Exchanging(k)) + 1
    <3>1. c \notin Exchanging(k) BY DEF Exchanging
    <3>2. c \in Exchanging(k)' BY <1>6 DEF Exchanging, LetThrough, GotoToken
    <3>3. Exchanging(k) \union {c} \subseteq Exchanging(k)' BY <1>1, <3>2
    <3>4. Cardinality(Exchanging(k) \union {c}) = Cardinality(Exchanging(k)) + 1
      BY <3>1, ExchangingFinite, FS_AddElement
    <3>5. Cardinality(Exchanging(k) \union {c}) <= Cardinality(Exchanging(k)')
      BY <1>2, <3>3, FS_Subset
    <3> QED BY <3>4, <3>5
  <2>4. token[k].life > 0 => uses'[k] <= Cardinality(Exchanging(k)')
    <3> SUFFICES ASSUME token[k].life > 0 PROVE uses'[k] <= Cardinality(Exchanging(k)')
      OBVIOUS
    <3>1. uses[k] \in Nat BY DEF TokenTypeOK
    <3>2. uses[k] <= Cardinality(Exchanging(k)) BY DEF UsesPending
    <3> QED BY <1>2, <2>2, <2>3, <3>1, <3>2, ExchangingFinite
  <2>5. token[k].life > 0 => uses'[k] <= Cardinality(Clients)
    BY <1>2, <2>2, <2>4, FS_CardinalityType
  <2>6. \A j \in Jtis : j # k => uses'[j] = uses[j] BY <2>1
  <2>7. ASSUME NEW j \in Jtis
        PROVE  /\ token[j].life > 0 /\ j \notin revoked => uses'[j] <= Cardinality(Exchanging(j)')
               /\ token[j].typ = "none" => uses'[j] = 0
               /\ token[j].life > 0 => uses'[j] <= Cardinality(Clients)
    <3>1. CASE j = k
      <4>1. /\ uses'[j] = uses'[k] /\ token[j] = token[k]
            /\ Exchanging(j)' = Exchanging(k)'
        BY <3>1
      <4> QED BY <1>6, <2>4, <2>5, <4>1
    <3>2. CASE j # k BY <1>4, <2>6, <3>2
    <3> QED BY <3>1, <3>2
  <2> QED BY <2>7 DEF UsesPending, ExchangesBounded
<1> QED BY <1>5, <1>6 DEF LetThrough

\* Lives only grow when a token is issued, and then it was not used yet.
LEMMA LivesShrink ==
    ASSUME TokenInv, [TokenNext]_tokenVars, NEW j \in Jtis
    PROVE  /\ token'[j].life > 0 => token[j].life > 0 \/ token[j].typ = "none"
           /\ token'[j].typ = "none" => token[j].typ = "none"
<1> USE DEF TokenInv, TokenTypeOK
<1>r. token \in [Jtis -> Tokens] BY DEF Tokens
<1>i. token[j].life \in Int BY LifeTypes
<1>1. CASE IssuePair
  <2>1. token[j].typ # "none" => token'[j] = token[j]
    BY <1>r, <1>1, IssueLeavesIssued
  <2> QED BY <2>1
<1>2. CASE Expire
  <2>1. token'[j] = token[j] \/ token'[j] = [typ |-> token[j].typ, life |-> token[j].life - 1]
    BY <1>2 DEF Expire
  <2> QED BY <1>i, <2>1
<1>3. CASE token' = token
  BY <1>3
<1>4. IssuePair \/ Expire \/ token' = token
  BY DEF TokenNext, tokenVars, Login, CleanBlacklist, Restart, Send, Check, Unlist, Finish,
         LogoutBearer, LogoutRefresh, RevokeOld, Issue
<1> QED BY <1>1, <1>2, <1>3, <1>4

LEMMA ExchangesStep ==
    ASSUME TokenInv, UsesPending, ExchangesBounded, [TokenNext]_tokenVars
    PROVE  UsesPending' /\ ExchangesBounded'
<1> USE DEF TokenInv, TokenTypeOK
\* Where uses stays and nobody leaves without revoking, nothing is to show.
<1>s. ASSUME uses' = uses, revoked \subseteq revoked',
             \A j \in Jtis : j \notin revoked' => Exchanging(j) \subseteq Exchanging(j)'
      PROVE  UsesPending' /\ ExchangesBounded'
  <2>1. ASSUME NEW j \in Jtis
        PROVE  /\ token'[j].life > 0 /\ j \notin revoked' => uses'[j] <= Cardinality(Exchanging(j)')
               /\ token'[j].typ = "none" => uses'[j] = 0
               /\ token'[j].life > 0 => uses'[j] <= Cardinality(Clients)
    <3>1. Exchanging(j)' \subseteq Clients BY DEF Exchanging
    <3>2. IsFiniteSet(Exchanging(j)') /\ Cardinality(Exchanging(j)') \in Nat
      BY <3>1, FS_Subset, FS_CardinalityType
    <3>3. /\ token'[j].life > 0 => token[j].life > 0 \/ uses[j] = 0
          /\ token'[j].typ = "none" => uses[j] = 0
      BY LivesShrink DEF UsesPending
    <3>4. uses'[j] = uses[j] /\ uses[j] \in Nat BY <1>s
    <3>5. CASE uses[j] = 0 BY <3>2, <3>4, <3>5, ExchangingFinite
    <3>6. CASE uses[j] # 0
      <4>1. token'[j].typ # "none" BY <3>3, <3>6
      <4>2. token'[j].life > 0 => uses[j] <= Cardinality(Clients)
        BY <3>3, <3>6 DEF ExchangesBounded
      <4>3. token'[j].life > 0 /\ j \notin revoked' => uses[j] <= Cardinality(Exchanging(j)')
        <5> SUFFICES ASSUME token'[j].life > 0, j \notin revoked'
                     PROVE  uses[j] <= Cardinality(Exchanging(j)')
          OBVIOUS
        <5>1. uses[j] <= Cardinality(Exchanging(j)) BY <1>s, <3>3, <3>6 DEF UsesPending
        <5>2. Cardinality(Exchanging(j)) <= Cardinality(Exchanging(j)')
          BY <1>s, <3>2, FS_Subset
        <5> QED BY <3>2, <3>4, <5>1, <5>2, ExchangingFinite
      <4> QED BY <3>4, <4>1, <4>2, <4>3
    <3> QED BY <3>5, <3>6
  <2> QED BY <2>1 DEF UsesPending, ExchangesBounded
<1>1. CASE UNCHANGED tokenVars \/ Login \/ CleanBlacklist \/ Expire
  BY <1>1, <1>s DEF tokenVars, Login, CleanBlacklist, Expire, Exchanging
<1>2. CASE Restart
  <2>1. \A j \in Jtis : uses'[j] = 0 BY <1>2 DEF Restart
  <2>2. \A j : Cardinality(Exchanging(j)') \in Nat
    <3>1. \A j : Exchanging(j)' \subseteq Clients BY DEF Exchanging
    <3> QED BY <3>1, FS_Subset, FS_CardinalityType
  <2>3. \A j \in Jtis : uses'[j] <= Cardinality(Exchanging(j)')
    BY <2>1, <2>2
  <2>4. UsesPending' BY <2>1, <2>3 DEF UsesPending
  <2>5. ExchangesBounded'
    <3>1. Cardinality(Clients) \in Nat BY FS_CardinalityType
    <3> QED BY <2>1, <3>1 DEF ExchangesBounded
  <2> QED BY <2>4, <2>5
<1>3. ASSUME NEW c \in Clients,
             \/ Send(c) \/ Finish(c) \/ LogoutBearer(c) \/ LogoutRefresh(c) \/ Issue(c)
      PROVE  UsesPending' /\ ExchangesBounded'
  <2>1. uses' = uses /\ revoked \subseteq revoked'
    BY <1>3 DEF Send, Finish, LogoutBearer, LogoutRefresh, Issue, RevokeIfDecodes, Revoke
  <2>2. tokenPc[c] # "exchange" /\ (\A d \in Clients \ {c} :
            tokenPc'[d] = tokenPc[d] /\ shown'[d] = shown[d])
    BY <1>3 DEF Send, Finish, LogoutBearer, LogoutRefresh, Issue, EndRequest, GotoToken
  <2>3. \A j \in Jtis : Exchanging(j) \subseteq Exchanging(j)' BY <2>2 DEF Exchanging
  <2> QED BY <1>s, <2>1, <2>3
<1>4. ASSUME NEW c \in Clients, RevokeOld(c)
      PROVE  UsesPending' /\ ExchangesBounded'
  <2>1. uses' = uses /\ revoked' = revoked \union {shown[c]} /\ UNCHANGED shown
    BY <1>4 DEF RevokeOld, Revoke
  <2>2. \A d \in Clients \ {c} : tokenPc'[d] = tokenPc[d]
    BY <1>4 DEF RevokeOld, GotoToken
  <2>3. \A j \in Jtis : j \notin revoked' => Exchanging(j) \subseteq Exchanging(j)'
    BY <2>1, <2>2 DEF Exchanging
  <2> QED BY <1>s, <2>1, <2>3
<1>5. ASSUME NEW c \in Clients, Check(c) \/ Unlist(c)
      PROVE  UsesPending' /\ ExchangesBounded'
  <2>1. /\ tokenPc[c] \in {"check", "unlist"} /\ UNCHANGED <<token, revoked>>
        /\ shown[c] \in Jtis /\ token[shown[c]].typ # "none"
    BY <1>5 DEF Check, Unlist, WorksOnIssued
  <2>2. CASE LetThrough(c) /\ UNCHANGED shown
    <3>1. tokenPc'[c] \in {"accepted", "exchange"}
      BY <2>2 DEF LetThrough, GotoToken
    <3>2. token[shown[c]].life > 0 => shown[c] \notin revoked
      BY <2>1, <3>1, RevokedRejectedStep DEF Passes
    <3> QED BY <2>1, <2>2, <3>2, LetThroughCounts
  <2>3. CASE ~(LetThrough(c) /\ UNCHANGED shown)
    <3>1. UNCHANGED uses /\ (EndRequest(c) \/ (GotoToken(c, "unlist") /\ UNCHANGED shown))
      BY <1>5, <2>3 DEF Check, Unlist
    <3>2. \A d \in Clients \ {c} : tokenPc'[d] = tokenPc[d] /\ shown'[d] = shown[d]
      BY <3>1 DEF EndRequest, GotoToken
    <3>3. \A j \in Jtis : Exchanging(j) \subseteq Exchanging(j)'
      BY <2>1, <3>2 DEF Exchanging
    <3> QED BY <1>s, <2>1, <3>1, <3>3
  <2> QED BY <2>2, <2>3
<1> QED BY <1>1, <1>2, <1>3, <1>4, <1>5 DEF TokenNext

\* However requests overlap, revoke and clean up, a refresh token has been
\* exchanged, until its exp, by no more of them than can be in flight: whoever
\* comes after the first to revoke it is turned away (auth.rs refresh).
THEOREM ExchangesAreBounded == TokenSpec => []ExchangesBounded
<1>1. TokenInit => UsesPending /\ ExchangesBounded
  BY ExchangingFinite DEF TokenInit, UsesPending, ExchangesBounded
<1>2. TokenInv /\ (UsesPending /\ ExchangesBounded) /\ [TokenNext]_tokenVars
      => (UsesPending /\ ExchangesBounded)'
  BY ExchangesStep
<1> QED BY <1>1, <1>2, TokenInvariant, PTL DEF TokenSpec
=============================================================================
