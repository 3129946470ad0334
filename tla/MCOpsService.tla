---------------------------- MODULE MCOpsService ----------------------------
(***************************************************************************)
(* OpsService on a small instance: two modules, one of them critical, a    *)
(* lead event for a customer or for none, and the cron job's digest.       *)
(***************************************************************************)
EXTENDS OpsService, TLC

CONSTANTS lead, digest, acme, nobody, salesTriage, executiveDigest

MCEventType == {lead, digest}
MCEntity == {acme, nobody}
MCModule == {salesTriage, executiveDigest}
MCModuleOf == lead :> salesTriage @@ digest :> executiveDigest
MCCritical == {executiveDigest}
MCMaxDaily == salesTriage :> 2 @@ executiveDigest :> 1
MCDigestKey == <<digest, nobody>>
=============================================================================
