------------------------------ MODULE MCOpsDay ------------------------------
(***************************************************************************)
(* One day of the service and of its cron job: one module, one key.        *)
(***************************************************************************)
EXTENDS OpsDay, TLC

CONSTANTS digest, nobody, executiveDigest

MCModuleOf == digest :> executiveDigest
MCMaxDaily == executiveDigest :> 2
MCDigestKey == <<digest, nobody>>
=============================================================================
