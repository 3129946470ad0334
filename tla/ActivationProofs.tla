-------------------------- MODULE ActivationProofs --------------------------
(***************************************************************************)
(* Proofs about Activation for any number of flows and accounts and any    *)
(* length of Stage 2: the expensive stage comes after the first, and an    *)
(* account that was reported as activated stays complete.                  *)
(***************************************************************************)
EXTENDS Activation, TLAPS

(***************************************************************************)
(* Every variable keeps its type, and a flow has an account while it runs. *)
(***************************************************************************)
THEOREM TypeCorrect ==
    ASSUME ActivationAssumption
    PROVE  Spec => []TypeOK
<1>1. Init => TypeOK
  <2> SUFFICES ASSUME Init PROVE TypeOK
    OBVIOUS
  <2>1. built \in [Account -> 0..Stage2Steps]
    BY DEF Init, ActivationAssumption
  <2>2. at \in [Worker -> {"idle", "stage1", "validate", "stage2"}]
    BY DEF Init
  <2>3. \A w \in Worker : account[w] \in Account <=> at[w] # "idle"
    BY DEF Init, ActivationAssumption
  <2> QED
    BY <2>1, <2>2, <2>3 DEF Init, TypeOK
<1>2. TypeOK /\ [Next]_vars => TypeOK'
  <2> SUFFICES ASSUME TypeOK, [Next]_vars PROVE TypeOK'
    OBVIOUS
  <2> USE DEF TypeOK, ActivationAssumption
  <2>1. ASSUME NEW w \in Worker, NEW a \in Account, HandleCheckoutCompleted(w, a)
        PROVE  TypeOK'
    BY <2>1 DEF HandleCheckoutCompleted, accountVars
  <2>2. ASSUME NEW w \in Worker, RunStage1(w) PROVE TypeOK'
    BY <2>2 DEF RunStage1, Stage1Helpers, Goto, Return
  <2>3. ASSUME NEW w \in Worker, Validate(w) PROVE TypeOK'
    BY <2>3 DEF Validate, Goto, Return, accountVars
  <2>4. ASSUME NEW w \in Worker, RunStage2(w) PROVE TypeOK'
    BY <2>4 DEF RunStage2, Stage2Helpers, Return
  <2>5. ASSUME NEW a \in Account, Recover(a) PROVE TypeOK'
    BY <2>5 DEF Recover, RetryStage1, Stage1Helpers, flowVars
  <2>6. ASSUME ResumeStage2 PROVE TypeOK'
    BY <2>6 DEF ResumeStage2, accountVars, flowVars
  <2>7. ASSUME Restart PROVE TypeOK'
    BY <2>7 DEF Restart, accountVars
  <2>8. CASE UNCHANGED vars
    BY <2>8 DEF vars, accountVars, flowVars
  <2> QED
    BY <2>1, <2>2, <2>3, <2>4, <2>5, <2>6, <2>7, <2>8 DEF Next, FlowStep
<1> QED
  BY <1>1, <1>2, PTL DEF Spec

-----------------------------------------------------------------------------
\* What a flow past Stage 1 knows of its account.
FlowKnows ==
    \A w \in Worker : at[w] \in {"validate", "stage2"} => account[w] \in ready

\* The inductive invariant: a flow's knowledge never goes stale, because no
\* step takes a completed stage back.
ActivationInv == FlowKnows /\ Stage2AfterStage1 /\ ActivatedIsComplete

(***************************************************************************)
(* One step of any flow, recovery, operator or restart keeps it.           *)
(***************************************************************************)
LEMMA ActivationStep ==
    ASSUME ActivationAssumption, TypeOK, TypeOK', ActivationInv, [Next]_vars
    PROVE  ActivationInv'
<1> USE DEF ActivationInv, TypeOK
<1>1. ASSUME NEW w \in Worker, NEW a \in Account, HandleCheckoutCompleted(w, a)
      PROVE  ActivationInv'
  <2>1. FlowKnows'
    BY <1>1 DEF HandleCheckoutCompleted, FlowKnows, accountVars
  <2> QED
    BY <1>1, <2>1 DEF HandleCheckoutCompleted, accountVars, Stage2AfterStage1, ActivatedIsComplete
<1>2. ASSUME NEW w \in Worker, RunStage1(w) PROVE ActivationInv'
  <2>1. ready \subseteq ready'
    BY <1>2 DEF RunStage1, Stage1Helpers
  <2>2. FlowKnows'
    BY <1>2, <2>1 DEF RunStage1, Stage1Helpers, Goto, Return, FlowKnows
  <2> QED
    BY <1>2, <2>1, <2>2 DEF RunStage1, Stage2AfterStage1, ActivatedIsComplete
<1>3. ASSUME NEW w \in Worker, Validate(w) PROVE ActivationInv'
  <2>1. FlowKnows'
    BY <1>3 DEF Validate, Goto, Return, FlowKnows, accountVars
  <2> QED
    BY <1>3, <2>1 DEF Validate, accountVars, Stage2AfterStage1, ActivatedIsComplete
<1>4. ASSUME NEW w \in Worker, RunStage2(w) PROVE ActivationInv'
  <2>1. FlowKnows'
    BY <1>4 DEF RunStage2, Return, FlowKnows
  <2>2. account[w] \in ready
    BY <1>4 DEF RunStage2, FlowKnows
  <2>3. PICK done \in 0..Stage2Steps :
          /\ Stage2Helpers(account[w], done)
          /\ activated' = activated \cup (IF done = Stage2Steps THEN {account[w]} ELSE {})
    BY <1>4 DEF RunStage2
  <2>4. Stage2AfterStage1'
    BY <1>4, <2>2, <2>3 DEF RunStage2, Stage2Helpers, Stage2AfterStage1
  <2>5. \A a \in Account : built'[a] >= built[a]
    BY <2>3 DEF Stage2Helpers, ActivationAssumption
  <2>6. done = Stage2Steps => built'[account[w]] = Stage2Steps
    BY <1>4, <2>3 DEF RunStage2, Stage2Helpers, ActivationAssumption
  <2>7. \A a \in activated : built'[a] = Stage2Steps
    BY <2>5 DEF ActivatedIsComplete, ActivationAssumption
  <2>8. ActivatedIsComplete'
    BY <1>4, <2>2, <2>3, <2>6, <2>7 DEF RunStage2, ActivatedIsComplete
  <2> QED
    BY <2>1, <2>4, <2>8
<1>5. ASSUME NEW a \in Account, Recover(a) PROVE ActivationInv'
  BY <1>5 DEF Recover, RetryStage1, Stage1Helpers, flowVars,
              FlowKnows, Stage2AfterStage1, ActivatedIsComplete
<1>6. ASSUME ResumeStage2 PROVE ActivationInv'
  BY <1>6 DEF ResumeStage2, accountVars, flowVars,
              FlowKnows, Stage2AfterStage1, ActivatedIsComplete
<1>7. ASSUME Restart PROVE ActivationInv'
  BY <1>7 DEF Restart, accountVars, FlowKnows, Stage2AfterStage1, ActivatedIsComplete
<1>8. CASE UNCHANGED vars
  BY <1>8 DEF vars, accountVars, flowVars, FlowKnows, Stage2AfterStage1, ActivatedIsComplete
<1> QED
  BY <1>1, <1>2, <1>3, <1>4, <1>5, <1>6, <1>7, <1>8 DEF Next, FlowStep

(***************************************************************************)
(* What a flow knows stays true while other deliveries, recoveries and     *)
(* restarts go on.                                                         *)
(***************************************************************************)
THEOREM ActivationInvariant ==
    ASSUME ActivationAssumption
    PROVE  Spec => []ActivationInv
<1>1. Init => ActivationInv
  BY DEF Init, ActivationInv, FlowKnows, Stage2AfterStage1, ActivatedIsComplete
<1>2. TypeOK /\ TypeOK' /\ ActivationInv /\ [Next]_vars => ActivationInv'
  BY ActivationStep
<1> QED
  BY <1>1, <1>2, TypeCorrect, PTL DEF Spec

(***************************************************************************)
(* Nothing of Stage 2 exists for an account without a completed Stage 1.   *)
(***************************************************************************)
THEOREM Stage2Theorem ==
    ASSUME ActivationAssumption
    PROVE  Spec => []Stage2AfterStage1
<1>1. ActivationInv => Stage2AfterStage1
  BY DEF ActivationInv
<1> QED
  BY <1>1, ActivationInvariant, PTL

(***************************************************************************)
(* An account reported as activated has, and keeps, both stages complete.  *)
(***************************************************************************)
THEOREM ActivatedTheorem ==
    ASSUME ActivationAssumption
    PROVE  Spec => []ActivatedIsComplete
<1>1. ActivationInv => ActivatedIsComplete
  BY DEF ActivationInv
<1> QED
  BY <1>1, ActivationInvariant, PTL
=============================================================================
