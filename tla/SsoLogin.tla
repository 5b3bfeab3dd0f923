------------------------------ MODULE SsoLogin ------------------------------
(***************************************************************************)
(* Logging in through an identity provider (gateway-auth sso.rs,           *)
(* handlers/sso_auth.rs, gateway-db sso.rs): authorize stores a state and  *)
(* sends the browser away, callback consumes it, exchanges the code, finds *)
(* or creates the user and links the identity.  One tenant.                *)
(*                                                                         *)
(* A person has an account at the provider, whose email may change; users  *)
(* of the tenant are their emails, which are unique.  Tokens, codes and    *)
(* verifiers are as good as the provider says.                             *)
(***************************************************************************)
EXTENDS Integers, Sequences, FiniteSets

CONSTANTS
    SsoProviders,   \* records: kind, whether it has URLs, auto_provision
    Persons,
    Emails,
    SsoStates,      \* the state tokens authorize may draw
    Callbacks       \* callbacks handled at a time

ASSUME SsoAssumption == IsFiniteSet(Callbacks) /\ "" \notin Emails

VARIABLES
    offered,        \* provider -> absent, active or deleted
    authState,      \* state token -> Undrawn, its provider, or Spent
    emailOf,        \* the email of each person at the provider
    accounts,       \* users of the tenant
    identity,       \* provider and person -> the user it is linked to
    callback,       \* where each callback is
    ssoLogins       \* the logins that have got tokens, for each state token

ssoVars == <<offered, authState, emailOf, accounts, identity, callback, ssoLogins>>

NoUser == ""
Undrawn == [kind |-> "undrawn"]
Spent == [kind |-> "spent"]
NoCallback == [at |-> "none"]

ASSUME ProviderAssumption == SsoProviders \intersect {Undrawn, Spent} = {}

SsoInit ==
    /\ offered = [p \in SsoProviders |-> "absent"]
    /\ authState = [s \in SsoStates |-> Undrawn]
    /\ emailOf \in [Persons -> Emails]
    /\ accounts \in SUBSET Emails
    /\ identity = [x \in SsoProviders \X Persons |-> NoUser]
    /\ callback = [c \in Callbacks |-> NoCallback]
    /\ ssoLogins = [s \in SsoStates |-> <<>>]

----------------------------------------------------------------------------
(* create_provider and delete_provider.                                    *)

OnlyOffered == UNCHANGED <<authState, emailOf, accounts, identity, callback, ssoLogins>>

\* A slug is never free again: deletion only marks the row.
CreateProvider(p) ==
    /\ offered[p] = "absent"
    /\ offered' = [offered EXCEPT ![p] = "active"]
    /\ OnlyOffered

DeleteProvider(p) ==
    /\ offered[p] # "absent"
    /\ offered' = [offered EXCEPT ![p] = "deleted"]
    /\ OnlyOffered

----------------------------------------------------------------------------
(* authorize.                                                              *)

\* The kinds with endpoints of their own; the others need an issuer or URLs.
Preset == {"google", "microsoft", "github"}

HasEndpoints(p) == p.kind \in Preset \/ p.urls

\* The state is stored before the URL is built: without endpoints it stays
\* behind, and the browser is not sent away.
Authorize(s, p) ==
    /\ offered[p] = "active" /\ authState[s] = Undrawn
    /\ authState' = [authState EXCEPT ![s] = p]
    /\ UNCHANGED <<offered, emailOf, accounts, identity, callback, ssoLogins>>

----------------------------------------------------------------------------
(* callback.                                                               *)

Goes(c, at) == callback' = [callback EXCEPT ![c] = at]

\* Mutant: the state is found and left where it is.
Reused(s) == UNCHANGED authState

\* DELETE ... RETURNING.
ConsumeState(s) == authState' = [authState EXCEPT ![s] = Spent]

\* A provider deleted in the meantime is still found, by its identifier.
Consume(c, s) ==
    /\ callback[c] = NoCallback
    /\ authState[s] \in SsoProviders /\ HasEndpoints(authState[s])
    /\ ConsumeState(s)
    /\ Goes(c, [at |-> "exchange", state |-> s, provider |-> authState[s]])
    /\ UNCHANGED <<offered, emailOf, accounts, identity, ssoLogins>>

\* What the provider says the email of a person is: none, if the account has
\* none (OIDC), or no verified one that is its first (GitHub).
EmailsSaid(p, person) == {emailOf[person], ""}

\* An error of the provider, or no email, ends the callback.
Exchange(c) ==
    /\ callback[c].at = "exchange"
    /\ \/ Goes(c, NoCallback)
       \/ \E person \in Persons : \E e \in EmailsSaid(callback[c].provider, person) \ {""} :
             Goes(c, [at |-> "find", state |-> callback[c].state,
                      provider |-> callback[c].provider, person |-> person, email |-> e])
    /\ UNCHANGED <<offered, authState, emailOf, accounts, identity, ssoLogins>>

\* The user is looked for by the email alone.
FindUser(c) ==
    /\ callback[c].at = "find"
    /\ Goes(c, IF callback[c].email \in accounts THEN [callback[c] EXCEPT !.at = "link"]
               ELSE IF callback[c].provider.auto THEN [callback[c] EXCEPT !.at = "create"]
               ELSE NoCallback)
    /\ UNCHANGED <<offered, authState, emailOf, accounts, identity, ssoLogins>>

\* The insert fails when another has taken the email in the meantime.
CreateUser(c) ==
    /\ callback[c].at = "create"
    /\ IF callback[c].email \in accounts
       THEN Goes(c, NoCallback) /\ UNCHANGED accounts
       ELSE /\ accounts' = accounts \union {callback[c].email}
            /\ Goes(c, [callback[c] EXCEPT !.at = "link"])
    /\ UNCHANGED <<offered, authState, emailOf, identity, ssoLogins>>

\* ON CONFLICT updates the profile and not the user; the result is not
\* looked at.
UpsertIdentity(c) ==
    identity' \in
        {identity,
         [identity EXCEPT ![<<callback[c].provider, callback[c].person>>] =
            IF @ = NoUser THEN callback[c].email ELSE @]}

\* Tokens are issued, and the login is logged.
Link(c) ==
    /\ callback[c].at = "link"
    /\ UpsertIdentity(c)
    /\ ssoLogins' = [ssoLogins EXCEPT ![callback[c].state] = Append(@,
          [provider |-> callback[c].provider, person |-> callback[c].person,
           user |-> callback[c].email])]
    /\ Goes(c, NoCallback)
    /\ UNCHANGED <<offered, authState, emailOf, accounts>>

----------------------------------------------------------------------------
(* Around it.                                                              *)

\* expires_at has passed.
ExpireState(s) ==
    /\ authState[s] \in SsoProviders
    /\ authState' = [authState EXCEPT ![s] = Spent]
    /\ UNCHANGED <<offered, emailOf, accounts, identity, callback, ssoLogins>>

\* The person changes the email of the account at the provider.
ChangeEmail(person, e) ==
    /\ emailOf' = [emailOf EXCEPT ![person] = e]
    /\ UNCHANGED <<offered, authState, accounts, identity, callback, ssoLogins>>

SsoNext ==
    \/ \E p \in SsoProviders : CreateProvider(p) \/ DeleteProvider(p)
    \/ \E s \in SsoStates :
          \/ ExpireState(s)
          \/ \E p \in SsoProviders : Authorize(s, p)
          \/ \E c \in Callbacks : Consume(c, s)
    \/ \E c \in Callbacks : Exchange(c) \/ FindUser(c) \/ CreateUser(c) \/ Link(c)
    \/ \E person \in Persons, e \in Emails : ChangeEmail(person, e)

SsoSpec == SsoInit /\ [][SsoNext]_ssoVars

----------------------------------------------------------------------------
\* A state is worth one login, however often and however concurrently its
\* callback is called (sso.rs consume).
OneLoginPerState == \A s \in SsoStates : Len(ssoLogins[s]) <= 1
=============================================================================
