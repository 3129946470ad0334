-------------------------- MODULE AdmissionControl --------------------------
(***************************************************************************)
(* What the gate promises to whoever pays for the crews, without saying    *)
(* how: the runs a module finishes in one process lifetime stay within its *)
(* quota, and two runs of one key start at least Spacing apart.  Runs that *)
(* fail need not be counted.  OpsService implements it, and so does        *)
(* AmpRouter when it has a single worker.                                  *)
(***************************************************************************)
EXTENDS Integers

CONSTANTS Runner, Key, Module, ModuleOfKey(_), Quota, Spacing, NoKey

VARIABLES
    run,    \* what each runner runs, NoKey when it runs nothing
    used,   \* finished runs per module
    since   \* seconds since a key's last run began, saturated at Spacing

acVars == <<run, used, since>>

Fresh ==
    /\ run = [r \in Runner |-> NoKey]
    /\ used = [m \in Module |-> 0]
    /\ since = [k \in Key |-> Spacing]

Start(r, k) ==
    /\ run[r] = NoKey
    /\ used[ModuleOfKey(k)] < Quota[ModuleOfKey(k)]
    /\ since[k] >= Spacing
    /\ run' = [run EXCEPT ![r] = k]
    /\ since' = [since EXCEPT ![k] = 0]
    /\ UNCHANGED used

Finish(r) ==
    /\ run[r] # NoKey
    /\ LET m == ModuleOfKey(run[r])
       IN  /\ used[m] < Quota[m]
           /\ used' = [used EXCEPT ![m] = @ + 1]
    /\ run' = [run EXCEPT ![r] = NoKey]
    /\ UNCHANGED since

Fail(r) ==
    /\ run[r] # NoKey
    /\ run' = [run EXCEPT ![r] = NoKey]
    /\ UNCHANGED <<used, since>>

Pass ==
    /\ since' = [k \in Key |-> IF since[k] < Spacing THEN since[k] + 1 ELSE Spacing]
    /\ UNCHANGED <<run, used>>

\* The process that enforces the promise is replaced by a new one.
Forget == Fresh'

Next ==
    \/ \E r \in Runner : Finish(r) \/ Fail(r) \/ \E k \in Key : Start(r, k)
    \/ Pass
    \/ Forget

Spec == Fresh /\ [][Next]_acVars
=============================================================================
