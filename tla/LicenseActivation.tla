------------------------- MODULE LicenseActivation -------------------------
(***************************************************************************)
(* The licence of an instance (gateway-license activation.rs, validator.rs *)
(* and client.rs): activate asks the platform first and falls back to the  *)
(* signed key; main calls it at the start, a worker every hour while the   *)
(* licence is valid online, and an administrator at any time.  The lock of *)
(* the state is not held while a call waits for the platform, so the calls *)
(* overlap and the last to return decides.                                 *)
(*                                                                         *)
(* The platform is modelled by what the client does with its answers: it   *)
(* may refuse, give entitlements, or fail before or after it took the      *)
(* request in.  A valid request takes a seat for the machine.              *)
(***************************************************************************)
EXTENDS Plans, FiniteSets

CONSTANTS
    Entitlements,   \* what the platform may have on file for the key
    KeyExpires,     \* exp of a signed key, 0 if it never expires
    GraceDays,      \* grace_period_days
    LastDay         \* the calendar stops here

ASSUME ActivationAssumption ==
    /\ IsFiniteSet(Entitlements)
    /\ \A e \in Entitlements :
          e.plan \in STRING /\ e.on \subseteq Overridable /\ e.off \subseteq Overridable
    /\ KeyExpires \in Nat /\ GraceDays \in Nat /\ LastDay \in Nat

VARIABLES
    day,            \* the calendar
    setup,          \* what is configured: the key, the client, the validator
    platform,       \* what the platform has on file, or Revoked
    seat,           \* whether the machine holds a seat there
    call,           \* where each caller of activate is
    activation,     \* the ActivationState
    phase           \* of the process: "starting", "serving" or "stopped"

activationVars == <<day, setup, platform, seat, call, activation, phase>>

Callers == {"main", "heartbeat", "admin"}
Revoked == [plan |-> "revoked", on |-> {}, off |-> {}]
Idle == [at |-> "idle"]
Sent == [at |-> "sent"]
Failed == [at |-> "failed"]
Accepted(e) == [at |-> "accepted", with |-> e]

\* status, the plan, the flags, and the day it was decided.
State(status, plan, flags) == [status |-> status, plan |-> plan, flags |-> flags]
Unlicensed == State("unlicensed", "community", CommunityFlags)

ActivationInit ==
    /\ day = 0
    /\ setup \in [key : {"none", "signed", "opaque"}, client : BOOLEAN, validator : BOOLEAN]
    /\ platform \in Entitlements
    /\ seat = FALSE
    /\ call = [c \in Callers |-> Idle]
    /\ activation = Unlicensed
    /\ phase = "starting"

\* Anything but a valid state serves the free plan.
Features ==
    IF activation.status \in {"offline_valid", "online_valid", "grace_period"}
    THEN activation.flags
    ELSE CommunityFlags

\* require_feature: a refusal names the plan that would do.
Allowed(f) == Check(f, Features)
GatedResponse(f) == [status |-> 402, required |-> MinPlan(f)]

----------------------------------------------------------------------------
EntitlementsToFeatures(e) == (ForPlan(FromStr(e.plan)) \ e.off) \union e.on

OnlineValid(e) == State("online_valid", FromStr(e.plan), EntitlementsToFeatures(e))

\* validate: the grace is part of the validity, so that Expired means that
\* the grace is over as well.
Expired == KeyExpires > 0 /\ day > KeyExpires + GraceDays

\* Mutant: a failed validation leaves the state alone.
OfflineKept == activation

\* The signed key of the model grants the enterprise plan.
Offline ==
    IF ~(setup.validator /\ setup.key = "signed")
    THEN State("invalid", "community", CommunityFlags)
    ELSE IF Expired
    THEN State("grace_period", "community", CommunityFlags)
    ELSE State("offline_valid", "enterprise", EnterpriseFlags)

\* activate up to its request to the platform.
Activate(c) ==
    /\ call[c] = Idle
    /\ IF setup.key # "none" /\ setup.client
       THEN call' = [call EXCEPT ![c] = Sent] /\ UNCHANGED activation
       ELSE /\ activation' = IF setup.key = "none" THEN Unlicensed ELSE Offline
            /\ UNCHANGED call
    /\ UNCHANGED <<day, setup, platform, seat>>

\* The platform takes the request in and answers, or the answer is lost and
\* the client's timeout ends the call.
AnswerCall(c) ==
    /\ call[c] = Sent
    /\ \/ /\ platform # Revoked
          /\ seat' = TRUE
          /\ call' = [call EXCEPT ![c] = Accepted(platform)]
       \/ platform # Revoked /\ seat' = TRUE /\ call' = [call EXCEPT ![c] = Failed]
       \/ UNCHANGED seat /\ call' = [call EXCEPT ![c] = Failed]
    /\ UNCHANGED <<day, setup, platform, activation, phase>>

\* activate after the answer.
ReturnCall(c) ==
    /\ phase # "stopped"
    /\ call[c].at \in {"accepted", "failed"}
    /\ activation' = IF call[c] = Failed THEN Offline ELSE OnlineValid(call[c].with)
    /\ call' = [call EXCEPT ![c] = Idle]
    /\ phase' = IF c = "main" THEN "serving" ELSE phase
    /\ UNCHANGED <<day, setup, platform, seat>>

----------------------------------------------------------------------------
Startup ==
    /\ phase = "starting"
    /\ Activate("main")
    /\ phase' = IF call' = call THEN "serving" ELSE phase

\* An offline or an invalid licence is not looked at again.
Heartbeat ==
    /\ phase = "serving"
    /\ activation.status = "online_valid"
    /\ Activate("heartbeat")
    /\ UNCHANGED phase

ManualActivate == phase = "serving" /\ Activate("admin") /\ UNCHANGED phase

\* The server has answered its last request; what the heartbeat has sent may
\* still arrive.  Only a state that is valid online gives its seat back.
Shutdown ==
    /\ phase = "serving" /\ call["admin"] = Idle
    /\ phase' = "stopped"
    /\ activation' = Unlicensed
    /\ seat' \in IF activation.status = "online_valid" THEN {FALSE, seat} ELSE {seat}
    /\ UNCHANGED <<day, setup, platform, call>>

\* The platform: renewals, changes of plan, revocation.
ChangeLicense ==
    /\ \E p \in Entitlements \union {Revoked} :
          /\ p # platform
          /\ platform' = p
          /\ seat' = (seat /\ p # Revoked)
    /\ UNCHANGED <<day, setup, call, activation, phase>>

NextDay ==
    /\ day < LastDay
    /\ day' = day + 1
    /\ UNCHANGED <<setup, platform, seat, call, activation, phase>>

ActivationNext ==
    \/ Startup \/ Heartbeat \/ ManualActivate \/ Shutdown
    \/ \E c \in Callers : AnswerCall(c) \/ ReturnCall(c)
    \/ ChangeLicense \/ NextDay

ActivationSpec == ActivationInit /\ [][ActivationNext]_activationVars

\* The worker's timer, and the client's timeout: its calls come back.
ActivationFairness ==
    /\ WF_activationVars(Heartbeat)
    /\ WF_activationVars(AnswerCall("heartbeat"))
    /\ WF_activationVars(ReturnCall("heartbeat"))

ActivationFairSpec == ActivationSpec /\ ActivationFairness

----------------------------------------------------------------------------
\* The plan served, the table of flags and the plan a refusal names agree: a
\* feature is refused if and only if the licence's plan is below the one the
\* refusal asks for, but for the flags the licence overrides
\* (features.rs for_plan, check, min_plan; feature_gate.rs).
RefusalsName ==
    \A f \in Feature \ Overridable :
        Allowed(f) <=> Meets(activation.plan, GatedResponse(f).required)

\* The gateway can verify the key by itself.
KeyStandsAlone == setup.key = "signed" /\ setup.validator

\* Where the key cannot be verified without the platform, a licence that
\* stays revoked ends with the free plan, although calls overlap and an old
\* answer may be stored after a newer one (heartbeat, activate).
RevocationTakesHold ==
    <>[](platform = Revoked) /\ ~KeyStandsAlone => <>[](Features = CommunityFlags)

\* docs/operations.md:231 "License expired / revoked", :235 "`invalid` ->
\* license rejected. Gateway degrades to Community features immediately": an
\* instance that is valid online with a licence that stays revoked comes to
\* serve the free plan.
RevokedDegrades ==
    <>[](platform = Revoked) =>
        (platform = Revoked /\ activation.status = "online_valid"
            ~> Features = CommunityFlags)
=============================================================================
