------------------------------- MODULE Funnel -------------------------------
(***************************************************************************)
(* The funnel tracker over the moving table of PendingSignups: breakpoints *)
(* as it counts them, by the status rows have when it reads, and the       *)
(* advice it draws from their ratios.  The rows are those of its window of *)
(* 24 hours, and its query answers.  Thresholds are percentages, and rates *)
(* are compared with them without division.                                *)
(***************************************************************************)
EXTENDS PendingSignups, FiniteSets

CONSTANTS
    CheckoutThreshold,            \* checkout_completion_threshold
    ActivationFailureThreshold,   \* activation_failure_threshold
    ProvisioningFailureThreshold  \* expensive_provisioning_failure_threshold

\* counts of FunnelBreakpoints: rows by their status now.
Count(s) == Cardinality({i \in Id : status[i] = s})

\* part / whole is below threshold; without data the rate is 1.
Below(part, whole, threshold) == whole > 0 /\ 100 * part < threshold * whole

IsCheckoutBelowThreshold ==
    Below(Count("checkout_completed"), Count("link_sent"), CheckoutThreshold)

IsActivationBelowThreshold ==
    Below(Count("activated"), Count("checkout_completed"), 100 - ActivationFailureThreshold)

IsProvisioningBelowThreshold ==
    Below(Count("provisioned"), Count("account_created"), 100 - ProvisioningFailureThreshold)

ShouldActivateSafeMode ==
    IsCheckoutBelowThreshold \/ IsActivationBelowThreshold \/ IsProvisioningBelowThreshold

-----------------------------------------------------------------------------
\* Customers with a link whose checkout is decided: completed, or given up.
Won == {i \in Id : paid[i]}
Lost == {i \in Id : link[i] /\ ~paid[i] /\ status[i] = "expired"}

(***************************************************************************)
(* docs/runbooks/outbound_pause.md: "Outbound calling should be paused or  *)
(* reduced when: Checkout completion rate drops below 50%" - when fewer    *)
(* than that of the customers who were sent a link, and have made up their *)
(* minds, completed the checkout, the tracker advises the pause.           *)
(***************************************************************************)
PauseAdvisedWhenCheckoutDrops ==
    Below(Cardinality(Won), Cardinality(Won) + Cardinality(Lost), CheckoutThreshold)
        => ShouldActivateSafeMode
=============================================================================
