----------------------------- MODULE Fulfilment -----------------------------
(***************************************************************************)
(* From the payment to the account: PendingSignups and Activation in one   *)
(* process.  A delivery of Stripe's webhook is one call of                 *)
(* SalesActivationFlow.handle_checkout_completed: it looks the session's   *)
(* row up, writes it, asks the payment handler and runs the two stages of  *)
(* Activation.  Stripe has its acknowledgement when the call returns, and  *)
(* delivers again when it raises or is lost with the process.  Each row    *)
(* has one customer account, named like the row; Stripe's caller passes    *)
(* its id along with the session.                                          *)
(***************************************************************************)
EXTENDS PendingSignups

CONSTANT Stage2Steps

ASSUME FulfilmentAssumption == Stage2Steps \in Nat \ {0}

VARIABLES
    ready, built, activated, paused, \* Activation's, of the accounts
    stage, account,                  \* Activation's, of each worker
    hook,     \* the payment whose delivery each worker has in hand
    owed,     \* whether Stripe still awaits the acknowledgement of a payment
    handled   \* history: payments some delivery has taken through the stages

A == INSTANCE Activation WITH Account <- Id, NoAccount <- NoId, at <- stage, OnFile <- {}

activationVars == <<ready, built, activated, paused, stage, account>>
deliveryVars == <<hook, owed, handled>>
fulfilmentVars == <<vars, activationVars, deliveryVars>>

(***************************************************************************)
(* A delivery inside SignupHandler holds the row of its payment, one       *)
(* inside the stages its account, and only deliveries are in there.        *)
(***************************************************************************)
DeliveryTypeOK ==
    /\ hook \in [Worker -> Id \cup {NoId}]
    /\ owed \in [Id -> BOOLEAN]
    /\ handled \subseteq Id
    /\ \A w \in Worker :
          /\ stage[w] # "idle" => at[w] = "idle" /\ account[w] = hook[w]
          /\ at[w] = "matched" => holds[w] = hook[w]
          /\ hook[w] \in Id => at[w] \in {"idle", "matched"}

FulfilmentTypeOK == TypeOK /\ A!TypeOK /\ DeliveryTypeOK

FulfilmentInit ==
    /\ Init
    /\ A!Init
    /\ hook = [w \in Worker |-> NoId]
    /\ owed = [i \in Id |-> FALSE]
    /\ handled = {}

\* The call returns: Stripe has its answer.
Acknowledge(w) ==
    /\ hook' = [hook EXCEPT ![w] = NoId]
    /\ owed' = [owed EXCEPT ![hook[w]] = FALSE]

-----------------------------------------------------------------------------
(* SalesActivationFlow.handle_checkout_completed                           *)

\* A delivery of a payment, the first or a repeated one, and its lookup.
ReceiveWebhook(w, i) ==
    /\ hook[w] = NoId
    /\ MatchSession(w, i)
    /\ hook' = [hook EXCEPT ![w] = i]
    /\ UNCHANGED <<owed, handled, activationVars>>

\* Faulty: a row that reads as completed has been dealt with.
RecordPaymentOnce(w) ==
    /\ MarkCompleted(w)
    /\ IF seen[w] = 1 THEN Acknowledge(w) ELSE UNCHANGED <<hook, owed>>
    /\ UNCHANGED <<handled, activationVars>>

RecordPayment(w) ==
    /\ MarkCompleted(w)
    /\ UNCHANGED <<deliveryVars, activationVars>>

\* Between SignupHandler and the stages: the row is written, or there is none.
Recorded(w) == hook[w] \in Id /\ at[w] = "idle" /\ stage[w] = "idle"

\* Faulty: an account that is ready goes straight to Stage 2.
ResumeStages(w) ==
    /\ Recorded(w)
    /\ stage' = [stage EXCEPT ![w] = IF hook[w] \in ready THEN "stage2" ELSE "stage1"]
    /\ account' = [account EXCEPT ![w] = hook[w]]
    /\ UNCHANGED <<vars, deliveryVars, ready, built, activated, paused>>

StartStages(w) ==
    /\ Recorded(w)
    /\ A!HandleCheckoutCompleted(w, hook[w])
    /\ UNCHANGED <<vars, deliveryVars>>

\* Faulty: a write that raises is logged and passed over, as queries are.
FailedWritePassedOver(w) ==
    /\ at[w] = "matched"
    /\ UpsertRaises(w)
    /\ UNCHANGED <<deliveryVars, activationVars>>

\* The write of the row raises, or the call does on its way to the stages: the
\* delivery has failed.
FailDelivery(w) ==
    /\ \/ at[w] = "matched" /\ UpsertRaises(w)
       \/ Recorded(w) /\ UNCHANGED vars
    /\ hook' = [hook EXCEPT ![w] = NoId]
    /\ UNCHANGED <<owed, handled, activationVars>>

\* The stages; however they end, the call returns.
RunStages(w) ==
    /\ A!FlowStep(w)
    /\ IF stage'[w] = "idle" THEN Acknowledge(w) /\ handled' = handled \cup {hook[w]}
       ELSE UNCHANGED deliveryVars
    /\ UNCHANGED vars

-----------------------------------------------------------------------------
\* Faulty: a worker takes calls while its delivery waits for the stages.
OtherCallMeanwhile(w) ==
    /\ SalesStep(w) \/ RescueStep(w) \/ UpsertRaises(w)
    /\ UNCHANGED <<deliveryVars, activationVars>>

\* Calls of the sales flow and rescues, by workers that have no delivery.
OtherCall(w) ==
    /\ hook[w] = NoId
    /\ SalesStep(w) \/ RescueStep(w) \/ UpsertRaises(w)
    /\ UNCHANGED <<deliveryVars, activationVars>>

Pay(i) ==
    /\ CustomerPays(i)
    /\ owed' = [owed EXCEPT ![i] = TRUE]
    /\ UNCHANGED <<hook, handled, activationVars>>

\* The recovery flow may take up any account, paid for or not.
RecoverOrResume ==
    /\ (\E i \in Id : A!Recover(i)) \/ A!ResumeStage2
    /\ UNCHANGED <<vars, deliveryVars>>

\* The process is replaced, and every delivery in progress is lost with it.
Crash ==
    /\ Restart
    /\ A!Restart
    /\ hook' = [w \in Worker |-> NoId]
    /\ UNCHANGED <<owed, handled>>

DeliveryStep(w) == RecordPayment(w) \/ StartStages(w) \/ FailDelivery(w) \/ RunStages(w)

FulfilmentNext ==
    \/ \E w \in Worker : DeliveryStep(w) \/ OtherCall(w)
    \/ \E w \in Worker, i \in Id : ReceiveWebhook(w, i)
    \/ \E i \in Id : Pay(i)
    \/ (\E i \in Id : Platform(i) \/ StoreSession(i))
          /\ UNCHANGED <<deliveryVars, activationVars>>
    \/ RecoverOrResume
    \/ Crash

FulfilmentSpec == FulfilmentInit /\ [][FulfilmentNext]_fulfilmentVars

(***************************************************************************)
(* A call that has begun goes on, unless the process is replaced, which    *)
(* comes to an end.  Stripe delivers until it is answered, and neither the *)
(* write nor the payment handler raises for ever.                          *)
(***************************************************************************)
DeliverOwed(i) == owed[i] /\ \E w \in Worker : ReceiveWebhook(w, i)
RecordFor(i) == \E w \in Worker : hook[w] = i /\ RecordPayment(w)
StartFor(i) == \E w \in Worker : hook[w] = i /\ StartStages(w)

FulfilmentFairSpec ==
    /\ FulfilmentSpec
    /\ \A w \in Worker :
          WF_fulfilmentVars(DeliveryStep(w) \/ (at[w] # "idle" /\ OtherCall(w)))
    /\ \A i \in Id :
          /\ SF_fulfilmentVars(DeliverOwed(i))
          /\ SF_fulfilmentVars(RecordFor(i)) /\ SF_fulfilmentVars(StartFor(i))
    /\ <>[][~Crash]_fulfilmentVars

-----------------------------------------------------------------------------
(***************************************************************************)
(* Nothing expensive is ever built for an account whose customer has not   *)
(* paid, and none is reported as activated: the recovery flow may work on  *)
(* any account, but only a delivery reaches Stage 2.                       *)
(***************************************************************************)
BuiltWasPaid == \A i \in Id : built[i] > 0 \/ i \in activated => paid[i]

(***************************************************************************)
(* Once Stripe is told that a payment is dealt with, and will not deliver  *)
(* it again, its row has had the write of SignupHandler (unless the lookup *)
(* found none) and its account has been through the stages: no failed      *)
(* write and no lost process comes between the two.                        *)
(***************************************************************************)
AcknowledgedIsDone == \A i \in Id : paid[i] /\ ~owed[i] => ~due[i] /\ i \in handled

(***************************************************************************)
(* Every payment takes its account through the stages in the end, although *)
(* the row may read as completed long before: a delivery that got only as  *)
(* far as the row is repeated, and does not stop there.                    *)
(***************************************************************************)
PaidIsHandled == \A i \in Id : paid[i] ~> i \in handled

(***************************************************************************)
(* Whatever the deliveries add to it, provisioning is Activation, and what *)
(* holds there holds here.                                                 *)
(***************************************************************************)
ImplementsActivation == A!Spec

(***************************************************************************)
(* And so nothing of Stage 2 exists without Stage 1, an account reported   *)
(* as activated is complete, and a pause takes effect, when the flows are  *)
(* begun by deliveries that fail, are lost and are repeated.               *)
(***************************************************************************)
Stage2AfterStage1 == A!Stage2AfterStage1
ActivatedIsComplete == A!ActivatedIsComplete
PauseTakesEffect == A!PauseTakesEffect
=============================================================================
