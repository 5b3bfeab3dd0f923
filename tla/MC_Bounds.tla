------------------------------ MODULE MC_Bounds ------------------------------
(***************************************************************************)
(* What is checked some awaits before it is counted: the spend against the *)
(* budget, the password against the lockout, the token against the         *)
(* blacklist.  The three share no state: a run explores one of them,       *)
(* chosen at the start.  The clients of the tokens have the names of the   *)
(* requests, so that one permutation serves both.                          *)
(***************************************************************************)
EXTENDS MC_ProxyHandler, LoginLockout, TokenLifecycle

VARIABLE part

MCInit ==
    /\ part \in {"spend", "login", "tokens"}
    /\ Init
    /\ LoginInit
    /\ TokenInit
    \* Whether Redis has the script is asked by the limiter in Redis only.
    /\ limiter = "Redis" \/ loaded = FALSE

MCNext ==
    /\ UNCHANGED part
    /\ \/ part = "spend" /\ Next /\ UNCHANGED <<loginVars, tokenVars>>
       \/ part = "login" /\ LoginNext /\ UNCHANGED <<vars, tokenVars>>
       \/ part = "tokens" /\ TokenNext /\ UNCHANGED <<vars, loginVars>>

MCSpec == MCInit /\ [][MCNext]_<<part, vars, loginVars, tokenVars>>
=============================================================================
