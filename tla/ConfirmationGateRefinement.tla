----------------------- MODULE ConfirmationGateRefinement -----------------------
(***************************************************************************)
(* The refinement mapping from the confirmation gate to the promise of     *)
(* OneTimeApproval: a token is alive while the store would call it valid,  *)
(* and dead from the moment it expires, is consumed, or is lost.           *)
(***************************************************************************)
EXTENDS ConfirmationGate

CONSTANT Nobody

ASSUME NobodyAssumption == Nobody \notin Tokens \cup {NoToken}

TokenLife ==
  [t \in Tokens |->
     IF t \notin issued THEN "unknown" ELSE IF IsValid(t) THEN "alive" ELSE "dead"]

ActingUnder ==
  [h \in Handlers |-> IF pc[h] \in {"running", "ran"} THEN token[h] ELSE Nobody]

Promise == INSTANCE OneTimeApproval
  WITH Actors <- Handlers, Approvals <- Tokens, NoApproval <- NoToken,
       bypass <- hitl_disabled, life <- TokenLife, acting <- ActingUnder

\* The gate keeps its promise: every behaviour of the store and its handlers
\* (confirmation.py) is one of grants, lapses, starts under a live approval,
\* and ends, in which a dead approval never authorises anything again.
KeepsPromise == Promise!Spec
=============================================================================
