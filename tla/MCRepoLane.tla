----------------------------- MODULE MCRepoLane -----------------------------
(***************************************************************************)
(* Two runs and two seconds.  Four plans of one auto-patch class: one is   *)
(* low-risk and has two patches, one reaches into the source, one into a   *)
(* protected file, and one is low-risk by a path that leads to a file the  *)
(* policy protects under another.  The others are a plan of a blocked      *)
(* class and a low-risk one of a pr_only class, which shares the name of   *)
(* its branches with the auto-patch class.                                 *)
(***************************************************************************)
EXTENDS RepoLane, TLC

CONSTANTS
    seo, billing, hotfix,
    low, source, payment, other, invoice, note,
    doc, web, crew, handler, adapter, byway

MCClassOf ==
    low :> seo @@ source :> seo @@ payment :> seo @@ other :> seo
    @@ invoice :> billing @@ note :> hotfix
MCPatchesOf ==
    low :> <<doc, web>> @@ source :> <<crew>> @@ payment :> <<doc, handler>>
    @@ other :> <<byway>> @@ invoice :> <<doc>> @@ note :> <<web>>
MCNameOf == seo :> seo @@ billing :> billing @@ hotfix :> seo
MCFileOf ==
    doc :> doc @@ web :> web @@ crew :> crew @@ handler :> handler
    @@ adapter :> adapter @@ byway :> adapter
RunnerSymmetry == Permutations(Runner)
=============================================================================
