--------------------------- MODULE TokenLifecycle ---------------------------
(***************************************************************************)
(* Access and refresh tokens (gateway-auth jwt.rs) from login to expiry:   *)
(* refresh exchanges a refresh token for a new pair, logout revokes, and   *)
(* the blacklist (token_blacklist.rs) remembers what was revoked for as    *)
(* long as the token had to live.  The handlers have no await between      *)
(* their steps but run on several threads, and the blacklist is a          *)
(* concurrent map: each of its calls is a step.                            *)
(***************************************************************************)
EXTENDS Integers, FiniteSets

CONSTANTS
    Jtis,           \* the ids tokens may be issued with: a bound
    Clients,        \* requests in flight
    AccessTtl,      \* access_token_ttl_minutes, in ticks
    RefreshTtl,     \* refresh_token_ttl_days, in ticks
    Leeway,         \* ticks past its exp that a token still decodes
    RestartLimit    \* restarts of the gateway: a bound

ASSUME TokenAssumption ==
    /\ IsFiniteSet(Clients)
    /\ AccessTtl \in Nat \ {0} /\ RefreshTtl \in Nat \ {0}
    /\ Leeway \in Nat /\ RestartLimit \in Nat

VARIABLES
    token,      \* the tokens issued: their type, and the ticks left to exp
    listed,     \* the blacklist: the ticks each entry has left
    tokenPc,    \* where each request is in its handler
    shown,      \* the token it is working on: its bearer, or its body's; NoJti
    revoked,    \* history: tokens revoked since the gateway started
    uses,       \* history: exchanges a refresh token was let through for since then
    restarts

tokenVars == <<token, listed, tokenPc, shown, revoked, uses, restarts>>

MaxTtl == IF AccessTtl > RefreshTtl THEN AccessTtl ELSE RefreshTtl
Lifes == (-Leeway - 1)..MaxTtl
Unissued == [typ |-> "none", life |-> 0]
Unlisted == -1
NoJti == "none"

TokenSteps ==
    {"idle", "check", "unlist", "accepted", "logout", "exchange", "issue"}

TokenInit ==
    /\ token = [j \in Jtis |-> Unissued]
    /\ listed = [j \in Jtis |-> Unlisted]
    /\ tokenPc = [c \in Clients |-> "idle"]
    /\ shown = [c \in Clients |-> NoJti]
    /\ revoked = {}
    /\ uses = [j \in Jtis |-> 0]
    /\ restarts = 0

GotoToken(c, s) == tokenPc' = [tokenPc EXCEPT ![c] = s]

EndRequest(c) == GotoToken(c, "idle") /\ shown' = [shown EXCEPT ![c] = NoJti]

\* What validate accepts: jsonwebtoken refuses a token whose exp lies more
\* than its leeway behind, 60 seconds unless told otherwise.
Decodes(j) == token[j].typ # "none" /\ token[j].life >= -Leeway

\* Two tokens under ids of their own; which ids, nothing depends on.
IssuePair ==
    LET free == {j \in Jtis : token[j].typ = "none"}
        a    == CHOOSE j \in free : TRUE
        r    == CHOOSE j \in free \ {a} : TRUE
    IN  /\ Cardinality(free) >= 2
        /\ token' = [token EXCEPT ![a] = [typ |-> "access", life |-> AccessTtl],
                                  ![r] = [typ |-> "refresh", life |-> RefreshTtl]]

\* Mutant: what is past its exp has all the time left.
RemainingWrapped(j) == IF token[j].life >= 0 THEN token[j].life ELSE MaxTtl + 1

Remaining(j) == IF token[j].life > 0 THEN token[j].life ELSE 0

\* Mutant: entries last as long as access tokens do.
RevokeForAccess(j) ==
    /\ listed' = [listed EXCEPT ![j] =
                     IF Remaining(j) > AccessTtl THEN AccessTtl ELSE Remaining(j)]
    /\ revoked' = revoked \union {j}

Revoke(j) ==
    /\ listed' = [listed EXCEPT ![j] = Remaining(j)]
    /\ revoked' = revoked \union {j}

\* A login that succeeds.
Login ==
    /\ IssuePair
    /\ UNCHANGED <<listed, tokenPc, shown, revoked, uses, restarts>>

\* A request shows a token to the handlers its type is meant for; a token of
\* the other type is refused and changes nothing.
Send(c) ==
    /\ tokenPc[c] = "idle"
    /\ \E j \in Jtis : Decodes(j) /\ shown' = [shown EXCEPT ![c] = j]
    /\ GotoToken(c, "check")
    /\ UNCHANGED <<token, listed, revoked, uses, restarts>>

\* Beyond this many exchanges of a token the history stops counting: a bound.
UseCap == Cardinality(Clients) + 1
Counted(n) == IF n < UseCap THEN n + 1 ELSE n

\* The request is past the blacklist: authenticated, or free to exchange.
LetThrough(c) ==
    /\ GotoToken(c, IF token[shown[c]].typ = "access" THEN "accepted" ELSE "exchange")
    /\ uses' = IF token[shown[c]].typ = "refresh"
               THEN [uses EXCEPT ![shown[c]] = Counted(@)] ELSE uses

\* Mutant: what is on the blacklist is let through.
CheckBlindly(c) ==
    /\ tokenPc[c] = "check"
    /\ LetThrough(c)
    /\ UNCHANGED <<token, listed, shown, revoked, restarts>>

\* is_revoked, for the middleware and for refresh: an entry with time left
\* refuses, one without is removed in a step of its own.
Check(c) ==
    /\ tokenPc[c] = "check"
    /\ \/ listed[shown[c]] > 0 /\ EndRequest(c) /\ UNCHANGED uses
       \/ listed[shown[c]] = 0 /\ GotoToken(c, "unlist") /\ UNCHANGED <<shown, uses>>
       \/ listed[shown[c]] = Unlisted /\ LetThrough(c) /\ UNCHANGED shown
    /\ UNCHANGED <<token, listed, revoked, restarts>>

\* The removal is by id: it takes whatever entry is there by then.
Unlist(c) ==
    /\ tokenPc[c] = "unlist"
    /\ listed' = [listed EXCEPT ![shown[c]] = Unlisted]
    /\ LetThrough(c)
    /\ UNCHANGED <<token, shown, revoked, restarts>>

\* An authenticated request ends, or is a logout: that revokes the bearer,
\* then the refresh token of its body, looking at no type and no entry.
Finish(c) ==
    /\ tokenPc[c] = "accepted"
    /\ EndRequest(c)
    /\ UNCHANGED <<token, listed, revoked, uses, restarts>>

RevokeIfDecodes(j) ==
    IF Decodes(j) THEN Revoke(j) ELSE UNCHANGED <<listed, revoked>>

LogoutBearer(c) ==
    /\ tokenPc[c] = "accepted"
    /\ RevokeIfDecodes(shown[c])
    /\ \/ EndRequest(c)
       \/ /\ GotoToken(c, "logout")
          /\ \E j \in Jtis : Decodes(j) /\ shown' = [shown EXCEPT ![c] = j]
    /\ UNCHANGED <<token, uses, restarts>>

LogoutRefresh(c) ==
    /\ tokenPc[c] = "logout"
    /\ RevokeIfDecodes(shown[c])
    /\ EndRequest(c)
    /\ UNCHANGED <<token, uses, restarts>>

\* refresh, past its check: the old token is revoked, then a pair issued.
RevokeOld(c) ==
    /\ tokenPc[c] = "exchange"
    /\ Revoke(shown[c])
    /\ GotoToken(c, "issue")
    /\ UNCHANGED <<token, shown, uses, restarts>>

Issue(c) ==
    /\ tokenPc[c] = "issue"
    /\ IssuePair \/ UNCHANGED token         \* encoding may fail
    /\ EndRequest(c)
    /\ UNCHANGED <<listed, revoked, uses, restarts>>

\* The cleanup worker, and the reload handler of the administrators.
CleanBlacklist ==
    /\ listed' = [j \in Jtis |-> IF listed[j] > 0 THEN listed[j] ELSE Unlisted]
    /\ UNCHANGED <<token, tokenPc, shown, revoked, uses, restarts>>

\* The tokens and their entries lose a tick of life.
Expire ==
    /\ token' = [j \in Jtis |->
          IF token[j].typ # "none" /\ Decodes(j)
          THEN [typ |-> token[j].typ, life |-> token[j].life - 1] ELSE token[j]]
    /\ listed' = [j \in Jtis |-> IF listed[j] > 0 THEN listed[j] - 1 ELSE listed[j]]
    /\ UNCHANGED <<tokenPc, shown, revoked, uses, restarts>>

\* The blacklist is memory of the process; the tokens are the clients'.
Restart ==
    /\ restarts < RestartLimit
    /\ restarts' = restarts + 1
    /\ listed' = [j \in Jtis |-> Unlisted]
    /\ tokenPc' = [c \in Clients |-> "idle"]
    /\ revoked' = {}
    /\ shown' = [c \in Clients |-> NoJti]
    /\ uses' = [j \in Jtis |-> 0]
    /\ UNCHANGED token

TokenNext ==
    \/ Login
    \/ \E c \in Clients :
          \/ Send(c) \/ Check(c) \/ Unlist(c) \/ Finish(c) \/ LogoutBearer(c)
          \/ LogoutRefresh(c) \/ RevokeOld(c) \/ Issue(c)
    \/ CleanBlacklist \/ Expire \/ Restart

TokenSpec == TokenInit /\ [][TokenNext]_tokenVars
-----------------------------------------------------------------------------
TokenTypeOK ==
    /\ token \in [Jtis -> [typ : {"none", "access", "refresh"}, life : Lifes]]
    /\ listed \in [Jtis -> 0..MaxTtl \union {Unlisted}]
    /\ tokenPc \in [Clients -> TokenSteps]
    /\ shown \in [Clients -> Jtis \union {NoJti}]
    /\ revoked \subseteq Jtis
    /\ uses \in [Jtis -> Nat]
    /\ restarts \in 0..RestartLimit

(***************************************************************************)
(* Once a revocation returned, and until the exp of the token, no request  *)
(* gets past the blacklist with it, whatever revokes it again, cleans up   *)
(* or removes an entry it saw expired earlier (token_blacklist.rs          *)
(* is_revoked, under validate_with_blacklist and refresh).                 *)
(***************************************************************************)
Passes(c) ==
    /\ tokenPc[c] \in {"check", "unlist"}
    /\ tokenPc'[c] \in {"accepted", "exchange"}

RevokedRejected ==
    [][\A c \in Clients :
          Passes(c) /\ token[shown[c]].life > 0 => shown[c] \notin revoked]_tokenVars

(***************************************************************************)
(* refresh asks the blacklist and writes it in two steps, so concurrent    *)
(* requests may exchange one token each; but until its exp, and since the  *)
(* gateway started, no token has been exchanged by more requests than may  *)
(* be in flight.  Past its exp, in the leeway, it is revoked for no time   *)
(* at all, and nothing bounds its exchanges.                               *)
(***************************************************************************)
ExchangesBounded ==
    \A j \in Jtis : token[j].life > 0 => uses[j] <= Cardinality(Clients)

(***************************************************************************)
(* token_blacklist.rs:6 "Stores JTI -> expiry so revoked tokens are        *)
(* rejected until they would have expired naturally".                      *)
(***************************************************************************)
RevokedUntilRefused ==
    [][\A c \in Clients : Passes(c) => shown[c] \notin revoked]_tokenVars
=============================================================================
