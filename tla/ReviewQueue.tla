---------------------------- MODULE ReviewQueue ----------------------------
(***************************************************************************)
(* What the execution lane promises to the human who reviews its pull      *)
(* requests: each one shows the whole of one patch plan, on a branch of    *)
(* its own, and does not change after it was opened.                       *)
(***************************************************************************)
CONSTANTS Branch, Plan, FilesOf(_)

VARIABLE open  \* the pull requests: the branch and the commits each one shows

Whole(p) == {<<p, f>> : f \in FilesOf(p)}

Submit(b, p) ==
    /\ \A r \in open : r.branch # b
    /\ open' = open \cup {[branch |-> b, content |-> Whole(p)]}

Spec == open = {} /\ [][\E b \in Branch, p \in Plan : Submit(b, p)]_open
=============================================================================
