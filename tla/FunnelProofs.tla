---------------------------- MODULE FunnelProofs ----------------------------
(***************************************************************************)
(* Proofs about the funnel tracker over any table, any number of callers   *)
(* and any thresholds: what its counts say of the customers, and when its  *)
(* advice comes.  The table is finite, as a table is; where a rate is      *)
(* compared, thresholds are percentages.                                   *)
(***************************************************************************)
EXTENDS Funnel, PendingSignupsProofs

\* The statuses that follow a completed checkout.
Converted == {"checkout_completed", "account_created", "provisioned", "activated"}

(***************************************************************************)
(* The tracker never invents a sale: the rows it counts at or past         *)
(* checkout_completed, all four breakpoints together, are no more than the *)
(* customers whose checkout Stripe completed.                              *)
(***************************************************************************)
ConversionsNotOvercounted ==
    Count("checkout_completed") + Count("account_created")
        + Count("provisioned") + Count("activated") <= Cardinality(Won)

(***************************************************************************)
(* No advice comes of a table in which nobody is waiting between a link    *)
(* and provisioning: however many customers were lost, rows that are all   *)
(* new, opened, provisioned, activated or expired advise nothing.          *)
(***************************************************************************)
AdviceNeedsARowInProgress ==
    ShouldActivateSafeMode =>
        \E i \in Id : status[i] \in {"link_sent", "checkout_completed", "account_created"}

(***************************************************************************)
(* The false alarm: while a payment has been written and no row has        *)
(* reached activated, the tracker advises the pause.                       *)
(***************************************************************************)
FirstPaymentAdvises ==
    Count("checkout_completed") > 0 /\ Count("activated") = 0 => ShouldActivateSafeMode

\* Row i is given up before its checkout completes.
Abandoned(i) ==
    status[i] \in {"qualified", "link_sent", "checkout_opened"} /\ status'[i] = "expired"

(***************************************************************************)
(* A customer who gives up before the checkout completes never turns the   *)
(* advice on, whatever share of the checkouts is lost so far.              *)
(***************************************************************************)
LossNeverAdvises ==
    [][(\E i \in Id : Abandoned(i)) /\ ShouldActivateSafeMode' => ShouldActivateSafeMode]_vars

-----------------------------------------------------------------------------
\* A count is a number.
LEMMA CountType ==
    ASSUME IsFiniteSet(Id), NEW s
    PROVE  /\ IsFiniteSet({i \in Id : status[i] = s})
           /\ Count(s) \in Nat
<1>1. {i \in Id : status[i] = s} \in SUBSET Id
  OBVIOUS
<1> QED
  BY <1>1, FS_Subset, FS_CardinalityType DEF Count

\* Rows counted under two statuses are different rows.
LEMMA DisjointCounts ==
    ASSUME IsFiniteSet(Id), NEW S \in SUBSET Id, NEW T \in SUBSET Id, S \cap T = {}
    PROVE  Cardinality(S \cup T) = Cardinality(S) + Cardinality(T)
<1>1. IsFiniteSet(S) /\ IsFiniteSet(T)
  BY FS_Subset
<1>2. Cardinality(S \cup T) = Cardinality(S) + Cardinality(T) - Cardinality(S \cap T)
  BY <1>1, FS_Union
<1>3. Cardinality(S \cap T) = 0
  BY FS_EmptySet
<1> QED
  BY <1>1, <1>2, <1>3, FS_CardinalityType

(***************************************************************************)
(* Every reachable table: the rows of the four statuses are different      *)
(* rows, and each of them is paid.                                         *)
(***************************************************************************)
THEOREM ConversionTheorem ==
    ASSUME IsFiniteSet(Id)
    PROVE  Spec => []ConversionsNotOvercounted
<1>1. CompletedOnlyIfPaid => ConversionsNotOvercounted
  <2> SUFFICES ASSUME CompletedOnlyIfPaid PROVE ConversionsNotOvercounted
    OBVIOUS
  <2> DEFINE Rows(s) == {i \in Id : status[i] = s}
             C == Rows("checkout_completed")
             A == Rows("account_created")
             P == Rows("provisioned")
             V == Rows("activated")
  <2>1. /\ C \in SUBSET Id /\ A \in SUBSET Id /\ P \in SUBSET Id /\ V \in SUBSET Id
        /\ C \cap A = {} /\ (C \cup A) \cap P = {} /\ (C \cup A \cup P) \cap V = {}
    OBVIOUS
  <2>2. C \cup A \cup P \cup V \in SUBSET Won /\ Won \in SUBSET Id
    BY DEF CompletedOnlyIfPaid, Won
  <2>3. /\ Count("checkout_completed") = Cardinality(C)
        /\ Count("account_created") = Cardinality(A)
        /\ Count("provisioned") = Cardinality(P)
        /\ Count("activated") = Cardinality(V)
    BY DEF Count
  <2> HIDE DEF C, A, P, V
  <2>4. Cardinality(C \cup A) = Cardinality(C) + Cardinality(A)
    BY <2>1, DisjointCounts
  <2>5. Cardinality(C \cup A \cup P) = Cardinality(C \cup A) + Cardinality(P)
    BY <2>1, DisjointCounts
  <2>6. Cardinality(C \cup A \cup P \cup V) = Cardinality(C \cup A \cup P) + Cardinality(V)
    BY <2>1, DisjointCounts
  <2>7. Cardinality(C \cup A \cup P \cup V) <= Cardinality(Won)
    BY <2>2, FS_Subset
  <2> QED
    BY <2>3, <2>4, <2>5, <2>6, <2>7 DEF ConversionsNotOvercounted
<1> QED
  BY <1>1, PaidTheorem, PTL

(***************************************************************************)
(* A rate without data is 1, so a breakpoint nobody stands at advises      *)
(* nothing.                                                                *)
(***************************************************************************)
THEOREM AdviceTheorem == Spec => []AdviceNeedsARowInProgress
<1>1. AdviceNeedsARowInProgress
  <2> SUFFICES ASSUME \A i \in Id : status[i] \notin {"link_sent", "checkout_completed",
                                                     "account_created"}
               PROVE  ~ShouldActivateSafeMode
    BY DEF AdviceNeedsARowInProgress
  <2>1. /\ Count("link_sent") = Cardinality({})
        /\ Count("checkout_completed") = Cardinality({})
        /\ Count("account_created") = Cardinality({})
    BY DEF Count
  <2>2. /\ Count("link_sent") = 0
        /\ Count("checkout_completed") = 0
        /\ Count("account_created") = 0
    BY <2>1, FS_EmptySet
  <2> QED
    BY <2>2 DEF ShouldActivateSafeMode, IsCheckoutBelowThreshold, IsActivationBelowThreshold,
                IsProvisioningBelowThreshold, Below
<1> QED
  BY <1>1, PTL

(***************************************************************************)
(* With any activation_failure_threshold below 100 percent.                *)
(***************************************************************************)
THEOREM FirstPaymentTheorem ==
    ASSUME IsFiniteSet(Id), ActivationFailureThreshold \in 0..99
    PROVE  Spec => []FirstPaymentAdvises
<1>1. FirstPaymentAdvises
  <2>1. Count("checkout_completed") \in Nat
    BY CountType
  <2> SUFFICES ASSUME Count("checkout_completed") > 0, Count("activated") = 0
               PROVE  IsActivationBelowThreshold
    BY DEF FirstPaymentAdvises, ShouldActivateSafeMode
  <2> DEFINE n == Count("checkout_completed")
             t == 100 - ActivationFailureThreshold
  <2>2. t \in 1..100
    OBVIOUS
  <2> HIDE DEF n, t
  <2>3. n \in Nat /\ n > 0
    BY <2>1 DEF n
  <2>4. t * n > 0
    BY <2>2, <2>3
  <2> QED
    BY <2>3, <2>4 DEF IsActivationBelowThreshold, Below, n, t
<1> QED
  BY <1>1, PTL

\* Only the platform gives a row up, and it writes that row alone.
LEMMA AbandonedAlone ==
    ASSUME TypeOK, [Next]_vars, NEW i \in Id, Abandoned(i)
    PROVE  \A j \in Id : j # i => status'[j] = status[j]
<1> USE DEF TypeOK, Abandoned
<1>1. ASSUME NEW w \in Worker, InsertRow(w) PROVE FALSE
  BY <1>1 DEF InsertRow, SetStatus
<1>2. ASSUME NEW w \in Worker, CreateCheckoutSession(w) PROVE FALSE
  BY <1>2 DEF CreateCheckoutSession, SetStatus
<1>3. ASSUME NEW w \in Worker, MarkCompleted(w) PROVE FALSE
  BY <1>3 DEF MarkCompleted, SetStatus
<1>4. ASSUME NEW j \in Id, Platform(j) PROVE j = i
  BY <1>4 DEF Platform, SetStatus
<1>5. CASE UNCHANGED status
  BY <1>5
<1>6. ASSUME NEW j \in Id, Platform(j)
      PROVE  \A k \in Id : k # j => status'[k] = status[k]
  BY <1>6 DEF Platform, SetStatus
<1>7. UNCHANGED status \/ (\E w \in Worker : InsertRow(w) \/ CreateCheckoutSession(w)
                                               \/ MarkCompleted(w))
                       \/ \E j \in Id : Platform(j)
  BY StepCases DEF FindActiveByEmail, SendCheckoutLink, MatchSession, ReadAttempts, ResendLink,
                   CountAttempt, StripeRaises, UpsertRaises, CustomerPays, StoreSession,
                   Restart, rowVars, vars
<1> QED
  BY <1>1, <1>2, <1>3, <1>4, <1>5, <1>6, <1>7

(***************************************************************************)
(* Giving up a row can only take it out of link_sent, the whole of one     *)
(* rate: the part, and the other two rates, stay as they are.              *)
(***************************************************************************)
THEOREM LossTheorem ==
    ASSUME IsFiniteSet(Id), CheckoutThreshold \in Nat
    PROVE  Spec => LossNeverAdvises
<1>1. TypeOK /\ [Next]_vars
        => ((\E i \in Id : Abandoned(i)) /\ ShouldActivateSafeMode' => ShouldActivateSafeMode)
  <2> SUFFICES ASSUME TypeOK, [Next]_vars, NEW i \in Id, Abandoned(i), ShouldActivateSafeMode'
               PROVE  ShouldActivateSafeMode
    OBVIOUS
  <2>1. \A j \in Id : j # i => status'[j] = status[j]
    BY AbandonedAlone
  <2>2. \A s \in Converted : Count(s)' = Count(s)
    BY <2>1 DEF Count, Converted, Abandoned
  <2>3. /\ Count("link_sent") \in Nat /\ Count("link_sent")' \in Nat
        /\ Count("link_sent")' <= Count("link_sent")
    <3> DEFINE S == {j \in Id : status[j] = "link_sent"}
    <3>1. S' \in SUBSET S /\ IsFiniteSet(S)
      BY <2>1, CountType DEF Abandoned
    <3>2. IsFiniteSet(S') /\ Cardinality(S') <= Cardinality(S)
      BY <3>1, FS_Subset
    <3>3. Cardinality(S) \in Nat /\ Cardinality(S') \in Nat
      BY <3>1, <3>2, FS_CardinalityType
    <3> QED
      BY <3>2, <3>3 DEF Count
  <2>4. IsActivationBelowThreshold' => IsActivationBelowThreshold
    BY <2>2 DEF IsActivationBelowThreshold, Below, Converted
  <2>5. IsProvisioningBelowThreshold' => IsProvisioningBelowThreshold
    BY <2>2 DEF IsProvisioningBelowThreshold, Below, Converted
  <2>6. IsCheckoutBelowThreshold' => IsCheckoutBelowThreshold
    <3> DEFINE t == CheckoutThreshold
               m == Count("link_sent")'
               n == Count("link_sent")
               c == Count("checkout_completed")
    <3> SUFFICES ASSUME m > 0, 100 * c < t * m
                 PROVE  n > 0 /\ 100 * c < t * n
      BY <2>2 DEF IsCheckoutBelowThreshold, Below, Converted
    <3>1. c \in Nat /\ t \in Nat /\ m \in Nat /\ n \in Nat /\ m <= n
      BY <2>3, CountType
    <3> HIDE DEF t, m, n, c
    <3>2. t * m <= t * n
      BY <3>1
    <3> QED
      BY <3>1, <3>2
  <2> QED
    BY <2>4, <2>5, <2>6 DEF ShouldActivateSafeMode
<1> QED
  BY <1>1, TypeCorrect, PTL DEF Spec, LossNeverAdvises
=============================================================================
