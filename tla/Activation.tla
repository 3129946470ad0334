----------------------------- MODULE Activation -----------------------------
(***************************************************************************)
(* Account provisioning in two stages, started by each delivery of a       *)
(* completed checkout and repaired by the recovery flow, over one global   *)
(* flag that pauses Stage 2.  Deliveries of several accounts, and repeated *)
(* deliveries of one, overlap.  The helpers behind the stages are the      *)
(* platform's Edge Functions and CRM (placeholders in the repository, here *)
(* external): each may raise, which run_stage1 and run_stage2 turn into    *)
(* the answer False.  attempt_retry repeats only a call that raises, so    *)
(* neither stage is ever attempted twice by it.                            *)
(***************************************************************************)
EXTENDS Integers

CONSTANTS
    Worker,     \* flows active at the same time
    Account,
    NoAccount,
    OnFile,     \* accounts whose customer has a payment method on file
    Stage2Steps \* phone number, assistant, link: how many steps Stage 2 has

\* What the proofs suppose of the constants.
ActivationAssumption ==
    /\ NoAccount \notin Account
    /\ OnFile \subseteq Account
    /\ Stage2Steps \in Nat \ {0}

VARIABLES
    ready,      \* accounts whose Stage 1 has completed
    built,      \* how many Stage 2 steps an account has behind it
    activated,  \* accounts a flow has reported as activated
    paused,     \* _STAGE2_GLOBALLY_PAUSED
    at,         \* what each worker's flow does next
    account     \* the account it works for

accountVars == <<ready, built, activated>>
flowVars == <<at, account>>
vars == <<accountVars, paused, flowVars>>

TypeOK ==
    /\ ready \subseteq Account
    /\ built \in [Account -> 0..Stage2Steps]
    /\ activated \subseteq Account
    /\ paused \in BOOLEAN
    /\ at \in [Worker -> {"idle", "stage1", "validate", "stage2"}]
    /\ account \in [Worker -> Account \cup {NoAccount}]
    /\ \A w \in Worker : account[w] \in Account <=> at[w] # "idle"

Init ==
    /\ ready = {}
    /\ built = [a \in Account |-> 0]
    /\ activated = {}
    /\ paused = FALSE
    /\ at = [w \in Worker |-> "idle"]
    /\ account = [w \in Worker |-> NoAccount]

\* The four helpers of Stage 1, all of them done.
Stage1Helpers(a) == ready' = ready \cup {a}

\* The first done of the three helpers of Stage 2; those of an earlier
\* delivery stay.
Stage2Helpers(a, done) == built' = [built EXCEPT ![a] = IF done > @ THEN done ELSE @]

Goto(w, s) == at' = [at EXCEPT ![w] = s] /\ UNCHANGED account

\* The flow returns.
Return(w) ==
    /\ at' = [at EXCEPT ![w] = "idle"]
    /\ account' = [account EXCEPT ![w] = NoAccount]

-----------------------------------------------------------------------------
(* SalesActivationFlow.handle_checkout_completed, at least once for every  *)
(* checkout that Stripe reports.                                           *)

(***************************************************************************)
(* Up to Stage 1.  The payment handler is asked on the way, and what it    *)
(* answers says nothing of the customer: the flow builds it without        *)
(* Stripe, and then every payment method is captured; with Stripe it tells *)
(* whether the session accepts any type of payment, which every session    *)
(* does.  So has_payment_method holds in every validation below.           *)
(***************************************************************************)
HandleCheckoutCompleted(w, a) ==
    /\ at[w] = "idle"
    /\ at' = [at EXCEPT ![w] = "stage1"]
    /\ account' = [account EXCEPT ![w] = a]
    /\ UNCHANGED <<accountVars, paused>>

\* Faulty variant: the answer of run_stage1 is taken for success.
RunStage1Unread(w) ==
    /\ at[w] = "stage1"
    /\ Stage1Helpers(account[w]) \/ UNCHANGED ready
    /\ Goto(w, "validate")
    /\ UNCHANGED <<built, activated, paused>>

\* run_stage1: a helper that raises ends the flow.
RunStage1(w) ==
    /\ at[w] = "stage1"
    /\ \/ Stage1Helpers(account[w]) /\ Goto(w, "validate")
       \/ UNCHANGED ready /\ Return(w)
    /\ UNCHANGED <<built, activated, paused>>

\* Faulty variant: the pause is looked at only for accounts not yet built.
ValidateOncePerAccount(w) ==
    /\ at[w] = "validate"
    /\ IF paused /\ account[w] \notin activated THEN Return(w) ELSE Goto(w, "stage2") \/ Return(w)
    /\ UNCHANGED <<accountVars, paused>>

(***************************************************************************)
(* validate_before_stage2 and what the flow makes of it: a pause ends the  *)
(* flow, and so does an empty phone pool.                                  *)
(***************************************************************************)
Validate(w) ==
    /\ at[w] = "validate"
    /\ (~paused /\ Goto(w, "stage2")) \/ Return(w)
    /\ UNCHANGED <<accountVars, paused>>

\* Faulty variant: the account is reported however far Stage 2 came.
RunStage2Unread(w) ==
    /\ at[w] = "stage2"
    /\ \E done \in 0..Stage2Steps :
          Stage2Helpers(account[w], done)
    /\ activated' = activated \cup {account[w]}
    /\ Return(w)
    /\ UNCHANGED <<ready, paused>>

(***************************************************************************)
(* run_stage2, which may raise between its steps and leaves behind those   *)
(* it has done; all of them done, the flow starts the onboarding and       *)
(* reports the account activated.                                          *)
(***************************************************************************)
RunStage2(w) ==
    /\ at[w] = "stage2"
    /\ \E done \in 0..Stage2Steps :
          /\ Stage2Helpers(account[w], done)
          /\ activated' = activated \cup (IF done = Stage2Steps THEN {account[w]} ELSE {})
    /\ Return(w)
    /\ UNCHANGED <<ready, paused>>

-----------------------------------------------------------------------------
(***************************************************************************)
(* attempt_retry around run_stage1 calls it again only after an exception, *)
(* and run_stage1 answers False instead: there is one attempt, and nobody  *)
(* reads its answer.                                                       *)
(***************************************************************************)
RetryStage1(a) == Stage1Helpers(a) \/ UNCHANGED ready

\* Faulty variant: the plan of the recovery crew may have Stage 2 begun.
RecoverBothStages(a) ==
    /\ RetryStage1(a)
    /\ \E done \in 0..Stage2Steps : Stage2Helpers(a, done)
    /\ paused' \in {paused, TRUE}
    /\ UNCHANGED <<activated, flowVars>>

(***************************************************************************)
(* RecoveryFlow: the plan of the recovery crew may have Stage 1 run again, *)
(* which works or does not, and may have Stage 2 paused.                   *)
(***************************************************************************)
Recover(a) ==
    /\ RetryStage1(a)
    /\ paused' \in {paused, TRUE}
    /\ UNCHANGED <<built, activated, flowVars>>

\* resume_stage2, called by an operator.
ResumeStage2 ==
    /\ paused
    /\ paused' = FALSE
    /\ UNCHANGED <<accountVars, flowVars>>

\* The process is replaced: the flag and the flows in progress are gone.
Restart ==
    /\ paused' = FALSE
    /\ at' = [w \in Worker |-> "idle"]
    /\ account' = [w \in Worker |-> NoAccount]
    /\ UNCHANGED accountVars

FlowStep(w) == RunStage1(w) \/ Validate(w) \/ RunStage2(w)

Next ==
    \/ \E w \in Worker, a \in Account : HandleCheckoutCompleted(w, a)
    \/ \E w \in Worker : FlowStep(w)
    \/ \E a \in Account : Recover(a)
    \/ ResumeStage2
    \/ Restart

Spec == Init /\ [][Next]_vars

\* A flow that has begun goes on; deliveries and operators are not obliged.
FairSpec == Spec /\ \A w \in Worker : WF_vars(FlowStep(w))

-----------------------------------------------------------------------------
(***************************************************************************)
(* Nothing of the expensive Stage 2 exists for an account that has not     *)
(* completed Stage 1, through any overlap of deliveries, recoveries and    *)
(* restarts.                                                               *)
(***************************************************************************)
Stage2AfterStage1 == \A a \in Account : built[a] > 0 => a \in ready

(***************************************************************************)
(* An account reported as activated has every step of both stages behind   *)
(* it, also when a repeated delivery fails half way through Stage 2.       *)
(***************************************************************************)
ActivatedIsComplete == \A a \in activated : a \in ready /\ built[a] = Stage2Steps

(***************************************************************************)
(* A pause takes effect: once Stage 2 stays paused, the flows that were    *)
(* validated before it drain, and no account enters Stage 2 any more.      *)
(***************************************************************************)
PauseTakesEffect == <>[]paused => <>[](\A w \in Worker : at[w] # "stage2")

(***************************************************************************)
(* "Stage 2 must be blocked when no payment method is on file": nothing of *)
(* it exists for an account whose customer has none there.                 *)
(***************************************************************************)
Stage2NeedsPaymentMethod == \A a \in Account : built[a] > 0 => a \in OnFile
=============================================================================
