----------------------------- MODULE MCGateApi -----------------------------
(***************************************************************************)
(* The gate alone: two allowed event types and one that is not in the      *)
(* allowlist, one entity, and costs that reach the budget by several ways. *)
(***************************************************************************)
EXTENDS GateApi, TLC

CONSTANTS lead, digest, unlisted, acme, salesTriage, executiveDigest, unknown

MCEventType == {lead, digest, unlisted}
MCAllowedEvents == {lead, digest}
MCEntity == {acme}
MCModule == {salesTriage, executiveDigest, unknown}
MCModuleOf == lead :> salesTriage @@ digest :> executiveDigest @@ unlisted :> unknown
MCCritical == {executiveDigest}
MCMaxDaily == salesTriage :> 2 @@ executiveDigest :> 1 @@ unknown :> 2
=============================================================================
