----------------------------- MODULE MC_Progress -----------------------------
(***************************************************************************)
(* What must get done while other things stand in the way: a request on    *)
(* its route, an audit event on its way to the table, the revocation of a  *)
(* licence on its way to the gateway.  The three share no state: a run     *)
(* explores one of them, chosen at the start.                              *)
(***************************************************************************)
EXTENDS MC_GatewayEngine, AuditPipeline, LicenseActivation

\* What the platform may have on file: two plans, a flag more or less.
TwoEntitlements ==
    {[plan |-> "pro", on |-> {"sso"}, off |-> {}],
     [plan |-> "enterprise", on |-> {}, off |-> {"sso"}]}

VARIABLE part

MCInit ==
    /\ part \in {"route", "audit", "activation"}
    /\ Init
    /\ AuditInit
    /\ ActivationInit
    \* What is not explored need not be tried in every one of its first states.
    /\ \/ part = "activation"
       \/ /\ setup = [key |-> "none", client |-> FALSE, validator |-> FALSE]
          /\ platform = CHOOSE e \in Entitlements : TRUE

MCNext ==
    /\ UNCHANGED part
    /\ IF part = "route" THEN Next ELSE UNCHANGED vars
    /\ IF part = "audit" THEN AuditNext ELSE UNCHANGED auditVars
    /\ IF part = "activation" THEN ActivationNext ELSE UNCHANGED activationVars

\* In its first state, where a part that is not explored stays, no action of
\* its fairness can change anything.
MCSpec ==
    /\ MCInit /\ [][MCNext]_<<part, vars, auditVars, activationVars>>
    /\ Fairness
    /\ AuditFairness
    /\ ActivationFairness
=============================================================================
