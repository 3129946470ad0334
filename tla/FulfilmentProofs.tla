-------------------------- MODULE FulfilmentProofs --------------------------
(***************************************************************************)
(* Proofs about Fulfilment for any number of workers and rows, any length  *)
(* of Stage 2 and a database that may fail at any request.  Fulfilment     *)
(* implements both of its parts, so that whatever is proved of             *)
(* PendingSignups and of Activation holds of it; what their composition    *)
(* adds is proved from those results.                                      *)
(***************************************************************************)
EXTENDS Fulfilment, PendingSignupsProofs

\* The results about Activation, for its instance in Fulfilment.
AP == INSTANCE ActivationProofs
    WITH Account <- Id, NoAccount <- NoId, at <- stage, OnFile <- {}

\* The actions of a step, taken apart once.
LEMMA FulfilmentCases ==
    ASSUME [FulfilmentNext]_fulfilmentVars
    PROVE  \/ \E w \in Worker : RecordPayment(w)
           \/ \E w \in Worker : StartStages(w)
           \/ \E w \in Worker : FailDelivery(w)
           \/ \E w \in Worker : RunStages(w)
           \/ \E w \in Worker : OtherCall(w)
           \/ \E w \in Worker, i \in Id : ReceiveWebhook(w, i)
           \/ \E i \in Id : Pay(i)
           \/ /\ \E i \in Id : Platform(i) \/ StoreSession(i)
              /\ UNCHANGED <<deliveryVars, activationVars>>
           \/ RecoverOrResume
           \/ Crash
           \/ UNCHANGED fulfilmentVars
BY DEF FulfilmentNext, DeliveryStep

(***************************************************************************)
(* The signup half of every step is a step of PendingSignups, or nothing.  *)
(***************************************************************************)
THEOREM SignupsRefinement == FulfilmentSpec => Spec
<1>1. FulfilmentInit => Init
  BY DEF FulfilmentInit
<1>2. [FulfilmentNext]_fulfilmentVars => [Next]_vars
  <2> SUFFICES ASSUME [FulfilmentNext]_fulfilmentVars PROVE [Next]_vars
    OBVIOUS
  <2>1. ASSUME NEW w \in Worker, RecordPayment(w) PROVE [Next]_vars
    BY <2>1 DEF RecordPayment, Next, WebhookStep
  <2>2. ASSUME NEW w \in Worker, StartStages(w) PROVE [Next]_vars
    BY <2>2 DEF StartStages
  <2>3. ASSUME NEW w \in Worker, FailDelivery(w) PROVE [Next]_vars
    BY <2>3 DEF FailDelivery, Next
  <2>4. ASSUME NEW w \in Worker, RunStages(w) PROVE [Next]_vars
    BY <2>4 DEF RunStages
  <2>5. ASSUME NEW w \in Worker, OtherCall(w) PROVE [Next]_vars
    BY <2>5 DEF OtherCall, Next
  <2>6. ASSUME NEW w \in Worker, NEW i \in Id, ReceiveWebhook(w, i) PROVE [Next]_vars
    BY <2>6 DEF ReceiveWebhook, Next, WebhookStep
  <2>7. ASSUME NEW i \in Id, Pay(i) PROVE [Next]_vars
    BY <2>7 DEF Pay, Next
  <2>8. CASE /\ \E i \in Id : Platform(i) \/ StoreSession(i)
             /\ UNCHANGED <<deliveryVars, activationVars>>
    BY <2>8 DEF Next
  <2>9. CASE RecoverOrResume
    BY <2>9 DEF RecoverOrResume
  <2>10. CASE Crash
    BY <2>10 DEF Crash, Next
  <2>11. CASE UNCHANGED fulfilmentVars
    BY <2>11 DEF fulfilmentVars
  <2> QED
    BY <2>1, <2>2, <2>3, <2>4, <2>5, <2>6, <2>7, <2>8, <2>9, <2>10, <2>11, FulfilmentCases
<1> QED
  BY <1>1, <1>2, PTL DEF FulfilmentSpec, Spec

\* A step that leaves the variables of the composition's other half alone.
LEMMA ActivationStutters ==
    ASSUME UNCHANGED activationVars
    PROVE  UNCHANGED A!vars
BY DEF activationVars, A!vars, A!accountVars, A!flowVars

(***************************************************************************)
(* The provisioning half of every step is a step of Activation: a delivery *)
(* starts a flow at Stage 1, and nothing else but a recovery, an operator  *)
(* or a restart touches an account.                                        *)
(***************************************************************************)
THEOREM ActivationRefinement == FulfilmentSpec => ImplementsActivation
<1>1. FulfilmentInit => A!Init
  BY DEF FulfilmentInit
<1>2. [FulfilmentNext]_fulfilmentVars => [A!Next]_A!vars
  <2> SUFFICES ASSUME [FulfilmentNext]_fulfilmentVars PROVE [A!Next]_A!vars
    OBVIOUS
  <2>1. ASSUME NEW w \in Worker, RecordPayment(w) PROVE [A!Next]_A!vars
    BY <2>1, ActivationStutters DEF RecordPayment
  <2>2. ASSUME NEW w \in Worker, StartStages(w) PROVE [A!Next]_A!vars
    BY <2>2 DEF StartStages, Recorded, A!Next
  <2>3. ASSUME NEW w \in Worker, FailDelivery(w) PROVE [A!Next]_A!vars
    BY <2>3, ActivationStutters DEF FailDelivery
  <2>4. ASSUME NEW w \in Worker, RunStages(w) PROVE [A!Next]_A!vars
    BY <2>4 DEF RunStages, A!Next
  <2>5. ASSUME NEW w \in Worker, OtherCall(w) PROVE [A!Next]_A!vars
    BY <2>5, ActivationStutters DEF OtherCall
  <2>6. ASSUME NEW w \in Worker, NEW i \in Id, ReceiveWebhook(w, i) PROVE [A!Next]_A!vars
    BY <2>6, ActivationStutters DEF ReceiveWebhook
  <2>7. ASSUME NEW i \in Id, Pay(i) PROVE [A!Next]_A!vars
    BY <2>7, ActivationStutters DEF Pay
  <2>8. CASE /\ \E i \in Id : Platform(i) \/ StoreSession(i)
             /\ UNCHANGED <<deliveryVars, activationVars>>
    BY <2>8, ActivationStutters
  <2>9. CASE RecoverOrResume
    BY <2>9 DEF RecoverOrResume, A!Next
  <2>10. CASE Crash
    BY <2>10 DEF Crash, A!Next
  <2>11. CASE UNCHANGED fulfilmentVars
    BY <2>11, ActivationStutters DEF fulfilmentVars
  <2> QED
    BY <2>1, <2>2, <2>3, <2>4, <2>5, <2>6, <2>7, <2>8, <2>9, <2>10, <2>11, FulfilmentCases
<1> QED
  BY <1>1, <1>2, PTL DEF FulfilmentSpec, ImplementsActivation, A!Spec

(***************************************************************************)
(* The results about Activation carry over: both instances of it are the   *)
(* same specification.                                                     *)
(***************************************************************************)
LEMMA ActivationCarriesOver ==
    FulfilmentSpec => [](A!TypeOK /\ A!Stage2AfterStage1 /\ A!ActivatedIsComplete)
<1>1. AP!ActivationAssumption
  BY SignupAssumption, FulfilmentAssumption DEF AP!ActivationAssumption
<1>2. AP!Spec => []AP!TypeOK
  BY <1>1, AP!TypeCorrect
<1>3. AP!Spec => []AP!Stage2AfterStage1
  BY <1>1, AP!Stage2Theorem
<1>4. AP!Spec => []AP!ActivatedIsComplete
  BY <1>1, AP!ActivatedTheorem
<1>5. A!Init <=> AP!Init
  BY DEF A!Init, AP!Init
<1>6. [A!Next]_A!vars <=> [AP!Next]_AP!vars
  BY DEF A!Next, A!vars, A!accountVars, A!flowVars, A!HandleCheckoutCompleted,
         A!FlowStep, A!RunStage1, A!Validate, A!RunStage2,
         A!Stage1Helpers, A!Stage2Helpers, A!Goto, A!Return, A!Recover, A!RetryStage1,
         A!ResumeStage2, A!Restart,
         AP!Next, AP!vars, AP!accountVars, AP!flowVars, AP!HandleCheckoutCompleted,
         AP!FlowStep, AP!RunStage1, AP!Validate, AP!RunStage2,
         AP!Stage1Helpers, AP!Stage2Helpers, AP!Goto, AP!Return, AP!Recover, AP!RetryStage1,
         AP!ResumeStage2, AP!Restart
<1>7. AP!TypeOK => A!TypeOK
  BY DEF A!TypeOK, AP!TypeOK
<1>8. AP!Stage2AfterStage1 => A!Stage2AfterStage1
  BY DEF A!Stage2AfterStage1, AP!Stage2AfterStage1
<1>9. AP!ActivatedIsComplete => A!ActivatedIsComplete
  BY DEF A!ActivatedIsComplete, AP!ActivatedIsComplete
<1> QED
  BY <1>2, <1>3, <1>4, <1>5, <1>6, <1>7, <1>8, <1>9, ActivationRefinement, PTL
     DEF ImplementsActivation, A!Spec, AP!Spec

-----------------------------------------------------------------------------
(***************************************************************************)
(* One step keeps a delivery where its payment is: the row it holds inside *)
(* SignupHandler, the account it works for inside the stages.              *)
(***************************************************************************)
LEMMA DeliveryTypeStep ==
    ASSUME TypeOK, TypeOK', A!TypeOK, A!TypeOK', DeliveryTypeOK,
           [FulfilmentNext]_fulfilmentVars
    PROVE  DeliveryTypeOK'
<1> USE SignupAssumption DEF DeliveryTypeOK
<1>1. ASSUME NEW w \in Worker, RecordPayment(w) PROVE DeliveryTypeOK'
  BY <1>1 DEF RecordPayment, MarkCompleted, Leave, Goto, deliveryVars, activationVars, TypeOK
<1>2. ASSUME NEW w \in Worker, StartStages(w) PROVE DeliveryTypeOK'
  BY <1>2 DEF StartStages, Recorded, A!HandleCheckoutCompleted, vars, workerVars, deliveryVars,
              A!TypeOK
<1>3. ASSUME NEW w \in Worker, FailDelivery(w) PROVE DeliveryTypeOK'
  <2>1. CASE at[w] = "matched" /\ UpsertRaises(w)
    <3>1. stage[w] = "idle" /\ at' = [at EXCEPT ![w] = "idle"]
      BY <2>1 DEF UpsertRaises, Leave, Goto
    <3> QED
      BY <1>3, <2>1, <3>1 DEF FailDelivery, UpsertRaises, Leave, Goto, activationVars, TypeOK
  <2>2. CASE Recorded(w) /\ UNCHANGED vars
    BY <1>3, <2>2 DEF FailDelivery, Recorded, vars, workerVars, activationVars
  <2> QED
    BY <1>3, <2>1, <2>2 DEF FailDelivery
<1>4. ASSUME NEW w \in Worker, RunStages(w) PROVE DeliveryTypeOK'
  <2>1. /\ stage[w] # "idle"
        /\ \A v \in Worker \ {w} : stage'[v] = stage[v] /\ account'[v] = account[v]
        /\ stage'[w] # "idle" => account'[w] = account[w]
    BY <1>4 DEF RunStages, A!FlowStep, A!RunStage1, A!Validate, A!RunStage2, A!Goto, A!Return,
                A!TypeOK
  <2>2. at'= at /\ holds' = holds /\ hook[w] \in Id
    BY <1>4, <2>1 DEF RunStages, vars, workerVars, A!TypeOK
  <2>3. CASE stage'[w] = "idle"
    BY <1>4, <2>1, <2>2, <2>3 DEF RunStages, Acknowledge
  <2>4. CASE stage'[w] # "idle"
    BY <1>4, <2>1, <2>2, <2>4 DEF RunStages, deliveryVars
  <2> QED
    BY <2>3, <2>4
<1>5. ASSUME NEW w \in Worker, OtherCall(w) PROVE DeliveryTypeOK'
  <2>1. /\ hook[w] = NoId /\ stage[w] = "idle"
        /\ UNCHANGED <<hook, owed, handled, stage, account>>
    BY <1>5 DEF OtherCall, deliveryVars, activationVars, A!TypeOK
  <2>2. at[w] # "matched"
    BY <2>1 DEF TypeOK
  <2>3. /\ at'[w] # "matched"
        /\ \A v \in Worker \ {w} : at'[v] = at[v] /\ holds'[v] = holds[v]
    BY <1>5, <2>2 DEF OtherCall, SalesStep, RescueStep, UpsertRaises, FindActiveByEmail, InsertRow,
                CreateCheckoutSession, SendCheckoutLink, StripeRaises, ReadAttempts, ResendLink,
                CountAttempt, Leave, Goto, TypeOK
  <2> QED
    BY <2>1, <2>3
<1>6. ASSUME NEW w \in Worker, NEW i \in Id, ReceiveWebhook(w, i) PROVE DeliveryTypeOK'
  <2>1. /\ hook[w] = NoId /\ at[w] = "idle" /\ stage[w] = "idle"
        /\ hook' = [hook EXCEPT ![w] = i]
        /\ UNCHANGED <<owed, handled, stage, account>>
    BY <1>6 DEF ReceiveWebhook, MatchSession, activationVars, A!TypeOK
  <2>2. /\ at'[w] \in {"idle", "matched"}
        /\ at'[w] = "matched" => holds'[w] = i
        /\ \A v \in Worker \ {w} : at'[v] = at[v] /\ holds'[v] = holds[v]
    BY <1>6, <2>1 DEF ReceiveWebhook, MatchSession, Goto, workerVars, TypeOK
  <2> QED
    BY <2>1, <2>2
<1>7. ASSUME NEW i \in Id, Pay(i) PROVE DeliveryTypeOK'
  BY <1>7 DEF Pay, CustomerPays, workerVars, activationVars
<1>8. CASE /\ \E i \in Id : Platform(i) \/ StoreSession(i)
           /\ UNCHANGED <<deliveryVars, activationVars>>
  BY <1>8 DEF Platform, StoreSession, workerVars, deliveryVars, activationVars
<1>9. CASE RecoverOrResume
  BY <1>9 DEF RecoverOrResume, A!Recover, A!ResumeStage2, A!flowVars, vars, workerVars,
              deliveryVars
<1>10. CASE Crash
  BY <1>10 DEF Crash, Restart, A!Restart
<1>11. CASE UNCHANGED fulfilmentVars
  BY <1>11 DEF fulfilmentVars, vars, workerVars, deliveryVars, activationVars
<1> QED
  BY <1>1, <1>2, <1>3, <1>4, <1>5, <1>6, <1>7, <1>8, <1>9, <1>10, <1>11, FulfilmentCases

(***************************************************************************)
(* Both halves keep their types, and a delivery is in one place at a time. *)
(***************************************************************************)
THEOREM FulfilmentTypeCorrect == FulfilmentSpec => []FulfilmentTypeOK
<1>1. FulfilmentInit => DeliveryTypeOK
  BY DEF FulfilmentInit, Init, A!Init, DeliveryTypeOK
<1>2. /\ TypeOK /\ TypeOK' /\ A!TypeOK /\ A!TypeOK' /\ DeliveryTypeOK
      /\ [FulfilmentNext]_fulfilmentVars
      => DeliveryTypeOK'
  BY DeliveryTypeStep
<1>3. FulfilmentSpec => []TypeOK
  BY SignupsRefinement, TypeCorrect, PTL
<1>4. FulfilmentSpec => []A!TypeOK
  BY ActivationCarriesOver, PTL
<1>5. TypeOK /\ A!TypeOK /\ DeliveryTypeOK => FulfilmentTypeOK
  BY DEF FulfilmentTypeOK
<1> QED
  BY <1>1, <1>2, <1>3, <1>4, <1>5, PTL DEF FulfilmentSpec

-----------------------------------------------------------------------------
\* What a delivery knows of its payment: it was made, and past SignupHandler
\* the row has had its write.
DeliveryKnows ==
    \A w \in Worker : hook[w] \in Id =>
        /\ paid[hook[w]]
        /\ at[w] = "idle" => ~due[hook[w]]

\* The inductive invariant of the composition.
DeliveryInv == DeliveryKnows /\ BuiltWasPaid /\ AcknowledgedIsDone

(***************************************************************************)
(* One step of any delivery, call, customer, recovery or crash keeps it: a *)
(* payment is never taken back, and Stripe is answered only by a delivery  *)
(* that has come through both halves.                                      *)
(***************************************************************************)
LEMMA DeliveryStepKeeps ==
    ASSUME FulfilmentTypeOK, FulfilmentTypeOK', DeliveryInv, [FulfilmentNext]_fulfilmentVars
    PROVE  DeliveryInv'
<1> USE SignupAssumption DEF FulfilmentTypeOK, DeliveryTypeOK, DeliveryInv
<1>1. ASSUME NEW w \in Worker, RecordPayment(w) PROVE DeliveryInv'
  <2>1. /\ at[w] = "matched" /\ holds[w] = hook[w] /\ hook[w] \in Id
        /\ due' = [due EXCEPT ![hook[w]] = FALSE]
        /\ UNCHANGED <<paid, owed, hook, handled, built, activated>>
        /\ \A v \in Worker \ {w} : at'[v] = at[v]
    <3>1. /\ at[w] = "matched"
          /\ due' = [due EXCEPT ![holds[w]] = FALSE]
          /\ at' = [at EXCEPT ![w] = "idle"]
          /\ UNCHANGED <<paid, owed, hook, handled, built, activated>>
      BY <1>1 DEF RecordPayment, MarkCompleted, Leave, Goto, deliveryVars, activationVars
    <3>2. holds[w] = hook[w] /\ holds[w] \in Id
      BY <3>1 DEF TypeOK
    <3> QED
      BY <3>1, <3>2 DEF TypeOK
  <2>2. \A i \in Id : due'[i] => due[i]
    BY <2>1 DEF TypeOK
  <2>3. DeliveryKnows'
    BY <2>1, <2>2 DEF DeliveryKnows, TypeOK
  <2> QED
    BY <2>1, <2>2, <2>3 DEF BuiltWasPaid, AcknowledgedIsDone
<1>2. ASSUME NEW w \in Worker, StartStages(w) PROVE DeliveryInv'
  BY <1>2 DEF StartStages, A!HandleCheckoutCompleted, A!accountVars, vars, rowVars, workerVars,
              deliveryVars, DeliveryKnows, BuiltWasPaid, AcknowledgedIsDone
<1>3. ASSUME NEW w \in Worker, FailDelivery(w) PROVE DeliveryInv'
  <2>1. /\ hook' = [hook EXCEPT ![w] = NoId]
        /\ UNCHANGED <<paid, due, owed, handled, built, activated>>
        /\ \A v \in Worker \ {w} : at'[v] = at[v]
    BY <1>3 DEF FailDelivery, UpsertRaises, Leave, Goto, vars, rowVars, workerVars,
                activationVars, TypeOK
  <2> QED
    BY <2>1 DEF DeliveryKnows, BuiltWasPaid, AcknowledgedIsDone
<1>4. ASSUME NEW w \in Worker, RunStages(w) PROVE DeliveryInv'
  <2>1. /\ stage[w] # "idle" /\ account[w] = hook[w] /\ hook[w] \in Id /\ at[w] = "idle"
        /\ UNCHANGED <<paid, due, at>>
    BY <1>4 DEF RunStages, A!FlowStep, A!RunStage1, A!Validate, A!RunStage2, A!TypeOK, vars,
                rowVars, workerVars
  <2>2. paid[hook[w]] /\ ~due[hook[w]]
    BY <2>1 DEF DeliveryKnows
  <2>3. BuiltWasPaid'
    <3>1. CASE A!RunStage1(w) \/ A!Validate(w)
      BY <2>1, <3>1 DEF A!RunStage1, A!Validate, A!accountVars, BuiltWasPaid
    <3>2. CASE A!RunStage2(w)
      <4>1. PICK done \in 0..Stage2Steps :
              /\ A!Stage2Helpers(hook[w], done)
              /\ activated' = activated \cup (IF done = Stage2Steps THEN {hook[w]} ELSE {})
        BY <2>1, <3>2 DEF A!RunStage2
      <4>2. \A i \in Id \ {hook[w]} : built'[i] = built[i]
        BY <4>1 DEF A!Stage2Helpers, A!TypeOK
      <4> QED
        BY <2>1, <2>2, <4>1, <4>2 DEF BuiltWasPaid
    <3> QED
      BY <1>4, <3>1, <3>2 DEF RunStages, A!FlowStep
  <2>4. CASE stage'[w] = "idle"
    <3>1. /\ hook' = [hook EXCEPT ![w] = NoId]
          /\ owed' = [owed EXCEPT ![hook[w]] = FALSE]
          /\ handled' = handled \cup {hook[w]}
      BY <1>4, <2>4 DEF RunStages, Acknowledge
    <3>2. DeliveryKnows'
      BY <2>1, <3>1 DEF DeliveryKnows
    <3>3. AcknowledgedIsDone'
      BY <2>1, <2>2, <3>1 DEF AcknowledgedIsDone
    <3> QED
      BY <2>3, <3>2, <3>3
  <2>5. CASE stage'[w] # "idle"
    BY <1>4, <2>1, <2>3, <2>5 DEF RunStages, deliveryVars, DeliveryKnows, AcknowledgedIsDone
  <2> QED
    BY <2>4, <2>5
<1>5. ASSUME NEW w \in Worker, OtherCall(w) PROVE DeliveryInv'
  <2>1. /\ hook[w] = NoId
        /\ UNCHANGED <<hook, owed, handled, built, activated>>
    BY <1>5 DEF OtherCall, deliveryVars, activationVars
  <2>2. /\ UNCHANGED <<paid, due>>
        /\ \A v \in Worker \ {w} : at'[v] = at[v]
    BY <1>5 DEF OtherCall, SalesStep, RescueStep, UpsertRaises, FindActiveByEmail, InsertRow,
                CreateCheckoutSession, SendCheckoutLink, StripeRaises, ReadAttempts, ResendLink,
                CountAttempt, Leave, Goto, rowVars, TypeOK
  <2> QED
    BY <2>1, <2>2 DEF DeliveryKnows, BuiltWasPaid, AcknowledgedIsDone
<1>6. ASSUME NEW w \in Worker, NEW i \in Id, ReceiveWebhook(w, i) PROVE DeliveryInv'
  <2>1. /\ hook' = [hook EXCEPT ![w] = i] /\ paid[i]
        /\ UNCHANGED <<paid, owed, handled, built, activated>>
    BY <1>6 DEF ReceiveWebhook, MatchSession, activationVars, rowVars
  <2>2. /\ \/ at'[w] = "matched" /\ UNCHANGED due
           \/ due' = [due EXCEPT ![i] = FALSE]
        /\ \A v \in Worker \ {w} : at'[v] = at[v]
    BY <1>6 DEF ReceiveWebhook, MatchSession, Goto, rowVars, workerVars, TypeOK
  <2>3. \A j \in Id : due'[j] => due[j]
    BY <2>2 DEF TypeOK
  <2>4. DeliveryKnows'
    BY <2>1, <2>2, <2>3 DEF DeliveryKnows, TypeOK
  <2> QED
    BY <2>1, <2>3, <2>4 DEF BuiltWasPaid, AcknowledgedIsDone
<1>7. ASSUME NEW i \in Id, Pay(i) PROVE DeliveryInv'
  <2>1. /\ ~paid[i]
        /\ paid' = [paid EXCEPT ![i] = TRUE]
        /\ due' = [due EXCEPT ![i] = TRUE]
        /\ owed' = [owed EXCEPT ![i] = TRUE]
        /\ UNCHANGED <<hook, handled, at, built, activated>>
    BY <1>7 DEF Pay, CustomerPays, workerVars, activationVars
  <2> QED
    BY <2>1 DEF DeliveryKnows, BuiltWasPaid, AcknowledgedIsDone, TypeOK
<1>8. CASE /\ \E i \in Id : Platform(i) \/ StoreSession(i)
           /\ UNCHANGED <<deliveryVars, activationVars>>
  BY <1>8 DEF Platform, StoreSession, workerVars, deliveryVars, activationVars, DeliveryKnows,
              BuiltWasPaid, AcknowledgedIsDone
<1>9. CASE RecoverOrResume
  BY <1>9 DEF RecoverOrResume, A!Recover, A!ResumeStage2, A!accountVars, vars, rowVars,
              workerVars, deliveryVars, DeliveryKnows, BuiltWasPaid, AcknowledgedIsDone
<1>10. CASE Crash
  BY <1>10 DEF Crash, Restart, A!Restart, A!accountVars, rowVars, DeliveryKnows, BuiltWasPaid,
               AcknowledgedIsDone
<1>11. CASE UNCHANGED fulfilmentVars
  BY <1>11 DEF fulfilmentVars, vars, rowVars, workerVars, deliveryVars, activationVars,
               DeliveryKnows, BuiltWasPaid, AcknowledgedIsDone
<1> QED
  BY <1>1, <1>2, <1>3, <1>4, <1>5, <1>6, <1>7, <1>8, <1>9, <1>10, <1>11, FulfilmentCases

(***************************************************************************)
(* What a delivery knows holds in every reachable state.                   *)
(***************************************************************************)
LEMMA DeliveryInvariant == FulfilmentSpec => []DeliveryInv
<1>1. FulfilmentInit => DeliveryInv
  BY SignupAssumption DEF FulfilmentInit, Init, A!Init, DeliveryInv, DeliveryKnows, BuiltWasPaid,
                          AcknowledgedIsDone
<1>2. FulfilmentTypeOK /\ FulfilmentTypeOK' /\ DeliveryInv /\ [FulfilmentNext]_fulfilmentVars
      => DeliveryInv'
  BY DeliveryStepKeeps
<1> QED
  BY <1>1, <1>2, FulfilmentTypeCorrect, PTL DEF FulfilmentSpec

(***************************************************************************)
(* Nothing of Stage 2 exists for an account that is not paid for.          *)
(***************************************************************************)
THEOREM PaidForTheorem == FulfilmentSpec => []BuiltWasPaid
<1>1. DeliveryInv => BuiltWasPaid
  BY DEF DeliveryInv
<1> QED
  BY <1>1, DeliveryInvariant, PTL

(***************************************************************************)
(* A payment that Stripe takes for delivered has been through both halves. *)
(***************************************************************************)
THEOREM AcknowledgedTheorem == FulfilmentSpec => []AcknowledgedIsDone
<1>1. DeliveryInv => AcknowledgedIsDone
  BY DEF DeliveryInv
<1> QED
  BY <1>1, DeliveryInvariant, PTL

(***************************************************************************)
(* Stage 2 comes after Stage 1 and an activated account is complete, also  *)
(* when the flows are begun by deliveries that fail and are repeated.      *)
(***************************************************************************)
THEOREM StagesTheorem == FulfilmentSpec => [](Stage2AfterStage1 /\ ActivatedIsComplete)
<1>1. A!Stage2AfterStage1 /\ A!ActivatedIsComplete => Stage2AfterStage1 /\ ActivatedIsComplete
  BY DEF Stage2AfterStage1, ActivatedIsComplete
<1> QED
  BY <1>1, ActivationCarriesOver, PTL

(***************************************************************************)
(* An account reported as activated is paid for, and every step of both    *)
(* stages is behind it.                                                    *)
(***************************************************************************)
THEOREM ActivatedIsPaidFor ==
    FulfilmentSpec =>
        [](\A i \in activated : paid[i] /\ i \in ready /\ built[i] = Stage2Steps)
<1>1. BuiltWasPaid /\ Stage2AfterStage1 /\ ActivatedIsComplete /\ A!TypeOK
      => \A i \in activated : paid[i] /\ i \in ready /\ built[i] = Stage2Steps
  BY DEF BuiltWasPaid, ActivatedIsComplete, A!ActivatedIsComplete, A!TypeOK
<1> QED
  BY <1>1, PaidForTheorem, StagesTheorem, ActivationCarriesOver, PTL
=============================================================================
