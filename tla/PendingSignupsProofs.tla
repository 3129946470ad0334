------------------------ MODULE PendingSignupsProofs ------------------------
(***************************************************************************)
(* Proofs about PendingSignups for any number of callers, rows and         *)
(* customers, any rescue cap, a database that may fail at any request and  *)
(* a process that may be replaced between any two: the rescue counter, the *)
(* paid statuses and the recipients of links.  Each rests on what a call   *)
(* knows of its row between its requests.                                  *)
(***************************************************************************)
EXTENDS PendingSignups, FiniteSetTheorems, TLAPS

\* The actions that write a row, and those that do not, taken apart once.
LEMMA StepCases ==
    ASSUME [Next]_vars
    PROVE  \/ \E w \in Worker, e \in Email : FindActiveByEmail(w, e)
           \/ \E w \in Worker : InsertRow(w)
           \/ \E w \in Worker : CreateCheckoutSession(w)
           \/ \E w \in Worker : SendCheckoutLink(w)
           \/ \E w \in Worker, i \in Id : MatchSession(w, i)
           \/ \E w \in Worker : MarkCompleted(w)
           \/ \E w \in Worker, i \in Id : ReadAttempts(w, i)
           \/ \E w \in Worker : ResendLink(w)
           \/ \E w \in Worker : CountAttempt(w)
           \/ \E w \in Worker : StripeRaises(w) \/ UpsertRaises(w)
           \/ \E i \in Id : StoreSession(i)
           \/ \E i \in Id : CustomerPays(i)
           \/ \E i \in Id : Platform(i)
           \/ Restart
           \/ UNCHANGED vars
BY DEF Next, SalesStep, RescueStep, WebhookStep

(***************************************************************************)
(* Every variable keeps its type, and a call holds a row exactly while it  *)
(* is past its lookup.                                                     *)
(***************************************************************************)
THEOREM TypeCorrect == Spec => []TypeOK
<1>1. Init => TypeOK
  BY SignupAssumption DEF Init, TypeOK, Step
<1>2. TypeOK /\ [Next]_vars => TypeOK'
  <2> SUFFICES ASSUME TypeOK, [Next]_vars PROVE TypeOK'
    OBVIOUS
  <2> USE SignupAssumption DEF TypeOK, Step, Status, Terminal
  <2>1. ASSUME NEW w \in Worker, NEW e \in Email, FindActiveByEmail(w, e) PROVE TypeOK'
    BY <2>1 DEF FindActiveByEmail, ActiveRows, Goto, rowVars
  <2>2. ASSUME NEW w \in Worker, InsertRow(w) PROVE TypeOK'
    BY <2>2 DEF InsertRow, SetStatus, Goto
  <2>3. ASSUME NEW w \in Worker, CreateCheckoutSession(w) PROVE TypeOK'
    BY <2>3 DEF CreateCheckoutSession, SetStatus, Goto
  <2>4. ASSUME NEW w \in Worker, SendCheckoutLink(w) PROVE TypeOK'
    BY <2>4 DEF SendCheckoutLink, Leave, Goto
  <2>5. ASSUME NEW w \in Worker, NEW i \in Id, MatchSession(w, i) PROVE TypeOK'
    <3>1. CASE /\ Goto(w, "matched", NoEmail, i, IF status[i] = "checkout_completed" THEN 1 ELSE 0)
               /\ UNCHANGED rowVars
      <4>1. (IF status[i] = "checkout_completed" THEN 1 ELSE 0) \in Nat
        OBVIOUS
      <4> QED
        BY <3>1, <4>1 DEF Goto, rowVars
    <3>2. CASE /\ due' = [due EXCEPT ![i] = FALSE]
               /\ UNCHANGED <<status, owner, rescue, link, paid, stored, resent, workerVars>>
      BY <3>2 DEF workerVars
    <3> QED
      BY <2>5, <3>1, <3>2 DEF MatchSession
  <2>6. ASSUME NEW w \in Worker, MarkCompleted(w) PROVE TypeOK'
    BY <2>6 DEF MarkCompleted, SetStatus, Leave, Goto
  <2>7. ASSUME NEW w \in Worker, NEW i \in Id, ReadAttempts(w, i) PROVE TypeOK'
    BY <2>7 DEF ReadAttempts, Goto, rowVars
  <2>8. ASSUME NEW w \in Worker, ResendLink(w) PROVE TypeOK'
    <3>1. holds[w] \in Id /\ resent' \in [Id -> Nat]
      BY <2>8 DEF ResendLink
    <3>2. link' \in [Id -> BOOLEAN]
      BY <2>8, <3>1 DEF ResendLink
    <3> QED
      BY <2>8, <3>1, <3>2 DEF ResendLink, Goto
  <2>9. ASSUME NEW w \in Worker, CountAttempt(w) PROVE TypeOK'
    BY <2>9 DEF CountAttempt, Leave, Goto
  <2>10. ASSUME NEW w \in Worker, StripeRaises(w) \/ UpsertRaises(w) PROVE TypeOK'
    BY <2>10 DEF StripeRaises, UpsertRaises, Leave, Goto, rowVars
  <2>11. ASSUME NEW i \in Id, CustomerPays(i) PROVE TypeOK'
    BY <2>11 DEF CustomerPays, workerVars
  <2>12. ASSUME NEW i \in Id, StoreSession(i) PROVE TypeOK'
    BY <2>12 DEF StoreSession, workerVars
  <2>13. ASSUME NEW i \in Id, Platform(i) PROVE TypeOK'
    BY <2>13 DEF Platform, SetStatus, workerVars
  <2>14. ASSUME Restart PROVE TypeOK'
    BY <2>14 DEF Restart, rowVars
  <2>15. CASE UNCHANGED vars
    BY <2>15 DEF vars, rowVars, workerVars
  <2> QED
    BY <2>1, <2>2, <2>3, <2>4, <2>5, <2>6, <2>7, <2>8, <2>9, <2>10, <2>11, <2>13, <2>14, <2>15,
       <2>12, StepCases
<1> QED
  BY <1>1, <1>2, PTL DEF Spec

-----------------------------------------------------------------------------
\* What a rescue knows of its row: the count it read leaves room under the
\* cap, and is behind the links sent - by its own link, once that is out.
RescueKnows ==
    \A w \in Worker :
        /\ at[w] \in {"rescuing", "resent"} => seen[w] < MaxRescue
        /\ at[w] = "rescuing" => seen[w] <= resent[holds[w]]
        /\ at[w] = "resent" => seen[w] + 1 <= resent[holds[w]]

RescueInv == RescueCounterSound /\ RescueKnows

(***************************************************************************)
(* The rescue counter stays within the cap and behind the links sent: the  *)
(* links sent never become fewer, so what an overlapping rescue has read   *)
(* is a lower bound still when it writes.                                  *)
(***************************************************************************)
THEOREM RescueTheorem == Spec => []RescueCounterSound
<1>1. Init => RescueInv
  BY SignupAssumption DEF Init, RescueInv, RescueCounterSound, RescueKnows
<1>2. TypeOK /\ TypeOK' /\ RescueInv /\ [Next]_vars => RescueInv'
  <2> SUFFICES ASSUME TypeOK, TypeOK', RescueInv, [Next]_vars PROVE RescueInv'
    OBVIOUS
  <2> USE SignupAssumption DEF TypeOK, RescueInv, RescueCounterSound, RescueKnows
  <2>1. ASSUME NEW w \in Worker, NEW e \in Email, FindActiveByEmail(w, e) PROVE RescueInv'
    BY <2>1 DEF FindActiveByEmail, Goto, rowVars
  <2>2. ASSUME NEW w \in Worker, InsertRow(w) PROVE RescueInv'
    BY <2>2 DEF InsertRow, Goto
  <2>3. ASSUME NEW w \in Worker, CreateCheckoutSession(w) PROVE RescueInv'
    BY <2>3 DEF CreateCheckoutSession, Goto
  <2>4. ASSUME NEW w \in Worker, SendCheckoutLink(w) PROVE RescueInv'
    BY <2>4 DEF SendCheckoutLink, Leave, Goto
  <2>5. ASSUME NEW w \in Worker, NEW i \in Id, MatchSession(w, i) PROVE RescueInv'
    BY <2>5 DEF MatchSession, Goto, rowVars, workerVars
  <2>6. ASSUME NEW w \in Worker, MarkCompleted(w) PROVE RescueInv'
    BY <2>6 DEF MarkCompleted, Leave, Goto
  <2>7. ASSUME NEW w \in Worker, NEW i \in Id, ReadAttempts(w, i) PROVE RescueInv'
    BY <2>7 DEF ReadAttempts, Goto, rowVars
  <2>8. ASSUME NEW w \in Worker, ResendLink(w) PROVE RescueInv'
    <3>1. /\ holds[w] \in Id /\ UNCHANGED rescue
          /\ resent' = [resent EXCEPT ![holds[w]] = @ + 1]
      BY <2>8 DEF ResendLink
    <3>2. \A i \in Id : resent'[i] >= resent[i]
      BY <3>1
    <3>3. RescueCounterSound'
      BY <3>1, <3>2
    <3>4. seen[w] < MaxRescue /\ seen[w] <= resent[holds[w]]
      BY <2>8 DEF ResendLink
    <3>5. /\ at'[w] = "resent" /\ holds'[w] = holds[w] /\ seen'[w] = seen[w]
          /\ resent'[holds[w]] = resent[holds[w]] + 1
      BY <2>8, <3>1 DEF ResendLink, Goto
    <3>6. \A v \in Worker \ {w} :
            at'[v] = at[v] /\ holds'[v] = holds[v] /\ seen'[v] = seen[v]
      BY <2>8 DEF ResendLink, Goto
    <3>7. \A v \in Worker : at[v] \in {"rescuing", "resent"} => holds[v] \in Id
      OBVIOUS
    <3>8. RescueKnows'
      BY <3>2, <3>4, <3>5, <3>6, <3>7
    <3> QED
      BY <3>3, <3>8
  <2>9. ASSUME NEW w \in Worker, CountAttempt(w) PROVE RescueInv'
    <3>1. holds[w] \in Id /\ seen[w] + 1 <= MaxRescue /\ seen[w] + 1 <= resent[holds[w]]
      BY <2>9 DEF CountAttempt
    <3> QED
      BY <2>9, <3>1 DEF CountAttempt, Leave, Goto
  <2>10. ASSUME NEW w \in Worker, StripeRaises(w) \/ UpsertRaises(w) PROVE RescueInv'
    BY <2>10 DEF StripeRaises, UpsertRaises, Leave, Goto, rowVars
  <2>11. ASSUME NEW i \in Id, CustomerPays(i) PROVE RescueInv'
    BY <2>11 DEF CustomerPays, workerVars
  <2>12. ASSUME NEW i \in Id, StoreSession(i) PROVE RescueInv'
    BY <2>12 DEF StoreSession, workerVars
  <2>13. ASSUME NEW i \in Id, Platform(i) PROVE RescueInv'
    BY <2>13 DEF Platform, workerVars
  <2>14. ASSUME Restart PROVE RescueInv'
    BY <2>14 DEF Restart, rowVars
  <2>15. CASE UNCHANGED vars
    BY <2>15 DEF vars, rowVars, workerVars
  <2> QED
    BY <2>1, <2>2, <2>3, <2>4, <2>5, <2>6, <2>7, <2>8, <2>9, <2>10, <2>11, <2>13, <2>14, <2>15,
       <2>12, StepCases
<1>3. RescueInv => RescueCounterSound
  BY DEF RescueInv
<1> QED
  BY <1>1, <1>2, <1>3, TypeCorrect, PTL DEF Spec

-----------------------------------------------------------------------------
\* A webhook between its lookup and its write holds a row that is paid.
WebhookKnows == \A w \in Worker : at[w] = "matched" => paid[holds[w]]

PaidInv == CompletedOnlyIfPaid /\ WebhookKnows

(***************************************************************************)
(* Payments are not taken back, and every other write leaves the statuses  *)
(* of rows that are not paid where they are.                               *)
(***************************************************************************)
LEMMA PaidInvariant == Spec => []PaidInv
<1>1. Init => PaidInv
  BY DEF Init, PaidInv, CompletedOnlyIfPaid, WebhookKnows
<1>2. TypeOK /\ TypeOK' /\ PaidInv /\ [Next]_vars => PaidInv'
  <2> SUFFICES ASSUME TypeOK, TypeOK', PaidInv, [Next]_vars PROVE PaidInv'
    OBVIOUS
  <2> USE DEF TypeOK, PaidInv, CompletedOnlyIfPaid, WebhookKnows
  <2>1. ASSUME NEW w \in Worker, NEW e \in Email, FindActiveByEmail(w, e) PROVE PaidInv'
    BY <2>1 DEF FindActiveByEmail, Goto, rowVars
  <2>2. ASSUME NEW w \in Worker, InsertRow(w) PROVE PaidInv'
    BY <2>2 DEF InsertRow, SetStatus, Goto
  <2>3. ASSUME NEW w \in Worker, CreateCheckoutSession(w) PROVE PaidInv'
    BY <2>3 DEF CreateCheckoutSession, SetStatus, Goto
  <2>4. ASSUME NEW w \in Worker, SendCheckoutLink(w) PROVE PaidInv'
    BY <2>4 DEF SendCheckoutLink, Leave, Goto
  <2>5. ASSUME NEW w \in Worker, NEW i \in Id, MatchSession(w, i) PROVE PaidInv'
    BY <2>5 DEF MatchSession, Goto, rowVars, workerVars
  <2>6. ASSUME NEW w \in Worker, MarkCompleted(w) PROVE PaidInv'
    <3>1. paid[holds[w]] /\ holds[w] \in Id
      BY <2>6 DEF MarkCompleted
    <3> QED
      BY <2>6, <3>1 DEF MarkCompleted, SetStatus, Leave, Goto
  <2>7. ASSUME NEW w \in Worker, NEW i \in Id, ReadAttempts(w, i) PROVE PaidInv'
    BY <2>7 DEF ReadAttempts, Goto, rowVars
  <2>8. ASSUME NEW w \in Worker, ResendLink(w) PROVE PaidInv'
    BY <2>8 DEF ResendLink, Goto
  <2>9. ASSUME NEW w \in Worker, CountAttempt(w) PROVE PaidInv'
    BY <2>9 DEF CountAttempt, Leave, Goto
  <2>10. ASSUME NEW w \in Worker, StripeRaises(w) \/ UpsertRaises(w) PROVE PaidInv'
    BY <2>10 DEF StripeRaises, UpsertRaises, Leave, Goto, rowVars
  <2>11. ASSUME NEW i \in Id, CustomerPays(i) PROVE PaidInv'
    BY <2>11 DEF CustomerPays, workerVars
  <2>12. ASSUME NEW i \in Id, StoreSession(i) PROVE PaidInv'
    BY <2>12 DEF StoreSession, workerVars
  <2>13. ASSUME NEW i \in Id, Platform(i) PROVE PaidInv'
    BY <2>13 DEF Platform, SetStatus, workerVars
  <2>14. ASSUME Restart PROVE PaidInv'
    BY <2>14 DEF Restart, rowVars
  <2>15. CASE UNCHANGED vars
    BY <2>15 DEF vars, rowVars, workerVars
  <2> QED
    BY <2>1, <2>2, <2>3, <2>4, <2>5, <2>6, <2>7, <2>8, <2>9, <2>10, <2>11, <2>13, <2>14, <2>15,
       <2>12, StepCases
<1> QED
  BY <1>1, <1>2, TypeCorrect, PTL DEF Spec

(***************************************************************************)
(* Only a paid row stands at or past checkout_completed: payments are not  *)
(* taken back, and every other write leaves those statuses.                *)
(***************************************************************************)
THEOREM PaidTheorem == Spec => []CompletedOnlyIfPaid
<1>1. PaidInv => CompletedOnlyIfPaid
  BY DEF PaidInv
<1> QED
  BY <1>1, PaidInvariant, PTL

-----------------------------------------------------------------------------
\* The row of a sales flow exists, so no insert of another caller takes it.
FlowRowExists ==
    \A w \in Worker : at[w] \in {"recorded", "linked"} => status[holds[w]] # "absent"

LeadInv == LinkGoesToLead /\ FlowRowExists

(***************************************************************************)
(* A sales flow's link belongs to its lead: rows never return to absent,   *)
(* and only the insert of an absent row writes an owner.                   *)
(***************************************************************************)
THEOREM LeadTheorem == Spec => []LinkGoesToLead
<1>1. Init => LeadInv
  BY DEF Init, LeadInv, LinkGoesToLead, FlowRowExists
<1>2. TypeOK /\ TypeOK' /\ LeadInv /\ [Next]_vars => LeadInv'
  <2> SUFFICES ASSUME TypeOK, TypeOK', LeadInv, [Next]_vars PROVE LeadInv'
    OBVIOUS
  <2> USE DEF TypeOK, LeadInv, LinkGoesToLead, FlowRowExists
  <2>1. ASSUME NEW w \in Worker, NEW e \in Email, FindActiveByEmail(w, e) PROVE LeadInv'
    BY <2>1 DEF FindActiveByEmail, ActiveRows, Active, Goto, rowVars
  <2>2. ASSUME NEW w \in Worker, InsertRow(w) PROVE LeadInv'
    BY <2>2 DEF InsertRow, SetStatus, Goto
  <2>3. ASSUME NEW w \in Worker, CreateCheckoutSession(w) PROVE LeadInv'
    BY <2>3 DEF CreateCheckoutSession, SetStatus, Goto
  <2>4. ASSUME NEW w \in Worker, SendCheckoutLink(w) PROVE LeadInv'
    BY <2>4 DEF SendCheckoutLink, Leave, Goto
  <2>5. ASSUME NEW w \in Worker, NEW i \in Id, MatchSession(w, i) PROVE LeadInv'
    BY <2>5 DEF MatchSession, Goto, rowVars, workerVars
  <2>6. ASSUME NEW w \in Worker, MarkCompleted(w) PROVE LeadInv'
    BY <2>6 DEF MarkCompleted, SetStatus, Leave, Goto
  <2>7. ASSUME NEW w \in Worker, NEW i \in Id, ReadAttempts(w, i) PROVE LeadInv'
    BY <2>7 DEF ReadAttempts, Goto, rowVars
  <2>8. ASSUME NEW w \in Worker, ResendLink(w) PROVE LeadInv'
    BY <2>8 DEF ResendLink, Goto
  <2>9. ASSUME NEW w \in Worker, CountAttempt(w) PROVE LeadInv'
    BY <2>9 DEF CountAttempt, Leave, Goto
  <2>10. ASSUME NEW w \in Worker, StripeRaises(w) \/ UpsertRaises(w) PROVE LeadInv'
    BY <2>10 DEF StripeRaises, UpsertRaises, Leave, Goto, rowVars
  <2>11. ASSUME NEW i \in Id, CustomerPays(i) PROVE LeadInv'
    BY <2>11 DEF CustomerPays, workerVars
  <2>12. ASSUME NEW i \in Id, StoreSession(i) PROVE LeadInv'
    BY <2>12 DEF StoreSession, workerVars
  <2>13. ASSUME NEW i \in Id, Platform(i) PROVE LeadInv'
    BY <2>13 DEF Platform, SetStatus, workerVars
  <2>14. ASSUME Restart PROVE LeadInv'
    BY <2>14 DEF Restart, rowVars
  <2>15. CASE UNCHANGED vars
    BY <2>15 DEF vars, rowVars, workerVars
  <2> QED
    BY <2>1, <2>2, <2>3, <2>4, <2>5, <2>6, <2>7, <2>8, <2>9, <2>10, <2>11, <2>13, <2>14, <2>15,
       <2>12, StepCases
<1>3. LeadInv => LinkGoesToLead
  BY DEF LeadInv
<1> QED
  BY <1>1, <1>2, <1>3, TypeCorrect, PTL DEF Spec

-----------------------------------------------------------------------------
(* How many open signups a customer may come to have.  A signup is open    *)
(* while its row is active and its checkout is not paid for.               *)

Open(e) == {i \in ActiveRows(e) : ~paid[i]}

(***************************************************************************)
(* create_pending_signup looks for an active row and inserts one in two    *)
(* requests, so concurrent callers can each insert a row for one customer. *)
(* There are never more of them than callers.                              *)
(***************************************************************************)
OpenSignupsBounded ==
    \A e \in Email :
        IsFiniteSet(Open(e)) /\ Cardinality(Open(e)) <= Cardinality(Worker)

\* One caller at a time leaves a customer at most one open signup.
OneOpenSignup == \A e \in Email : \A i, j \in Open(e) : i = j

\* Callers that found no row of e and are about to insert one.
Taking(e) == {w \in Worker : at[w] = "checked" /\ lead[w] = e}

\* Rows of e that are open, or that a caller is about to open again: it holds
\* a row that may have expired meanwhile, and will write link_sent to it.
Candidates(e) ==
    {i \in Id : /\ owner[i] = e /\ ~paid[i]
                /\ Active(i) \/ \E w \in Worker : at[w] = "recorded" /\ holds[w] = i}

\* The inductive form: every candidate, and every row still to be inserted,
\* takes the place of one caller.
OpenInv ==
    \A e \in Email :
        /\ IsFiniteSet(Candidates(e))
        /\ Cardinality(Candidates(e)) + Cardinality(Taking(e)) <= Cardinality(Worker)

\* The callers of a kind are finitely many if all of them are.
LEMMA CallersCounted ==
    ASSUME IsFiniteSet(Worker), NEW S \in SUBSET Worker
    PROVE  IsFiniteSet(S) /\ Cardinality(S) \in Nat /\ Cardinality(Worker) \in Nat
BY FS_Subset, FS_CardinalityType

\* The rows that callers of a kind hold are no more than those callers.
LEMMA HeldRowsCounted ==
    ASSUME IsFiniteSet(Worker), NEW R \in SUBSET Worker,
           NEW C, \A i \in C : \E w \in R : holds[w] = i
    PROVE  IsFiniteSet(C) /\ Cardinality(C) <= Cardinality(R)
<1> DEFINE row == [w \in R |-> holds[w]]
           T == {row[w] : w \in R}
<1>1. row \in Surjection(R, T)
  BY DEF Surjection
<1>2. IsFiniteSet(R)
  BY CallersCounted
<1>3. IsFiniteSet(T) /\ Cardinality(T) <= Cardinality(R)
  BY <1>1, <1>2, FS_Surjection
<1>4. C \in SUBSET T
  OBVIOUS
<1> HIDE DEF T
<1>5. IsFiniteSet(C) /\ Cardinality(C) <= Cardinality(T)
  BY <1>3, <1>4, FS_Subset
<1>6. Cardinality(C) \in Nat /\ Cardinality(T) \in Nat /\ Cardinality(R) \in Nat
  BY <1>2, <1>3, <1>5, FS_CardinalityType
<1> QED
  BY <1>3, <1>5, <1>6

\* A step that adds no candidate and no taker for e keeps the bound for e.
LEMMA NoneAdded ==
    ASSUME IsFiniteSet(Worker), NEW e \in Email, OpenInv,
           Candidates(e)' \subseteq Candidates(e), Taking(e)' \subseteq Taking(e)
    PROVE  /\ IsFiniteSet(Candidates(e)')
           /\ Cardinality(Candidates(e)') + Cardinality(Taking(e)') <= Cardinality(Worker)
<1>1. IsFiniteSet(Candidates(e))
  BY DEF OpenInv
<1>2. /\ IsFiniteSet(Candidates(e)')
      /\ Cardinality(Candidates(e)') <= Cardinality(Candidates(e))
      /\ Cardinality(Candidates(e)) \in Nat /\ Cardinality(Candidates(e)') \in Nat
  BY <1>1, FS_Subset, FS_CardinalityType
<1>3. Taking(e) \in SUBSET Worker
  BY DEF Taking
<1>4. IsFiniteSet(Taking(e)) /\ Cardinality(Taking(e)) \in Nat /\ Cardinality(Worker) \in Nat
  BY <1>3, CallersCounted
<1>5. IsFiniteSet(Taking(e)') /\ Cardinality(Taking(e)') <= Cardinality(Taking(e))
  BY <1>4, FS_Subset
<1>6. Cardinality(Taking(e)') \in Nat
  BY <1>5, FS_CardinalityType
<1>7. Cardinality(Candidates(e)) + Cardinality(Taking(e)) <= Cardinality(Worker)
  BY DEF OpenInv
<1> QED
  BY <1>2, <1>4, <1>5, <1>6, <1>7

\* The lookup that finds no active row of its lead: the other callers are the
\* most that can still stand in for a row of that lead.
LEMMA LookupKeepsOpenInv ==
    ASSUME IsFiniteSet(Worker), ~QueryFails, TypeOK, OpenInv,
           NEW w \in Worker, NEW e \in Email, FindActiveByEmail(w, e)
    PROVE  OpenInv'
<1> USE DEF TypeOK
<1>1. UNCHANGED <<status, owner, paid>> /\ at[w] = "idle"
  BY DEF FindActiveByEmail, rowVars
<1>2. CASE \E i \in ActiveRows(e) : Goto(w, "recorded", e, i, 0)
  <2>1. ASSUME NEW d \in Email
        PROVE  Candidates(d)' \subseteq Candidates(d) /\ Taking(d)' \subseteq Taking(d)
    <3>1. PICK i \in ActiveRows(e) : Goto(w, "recorded", e, i, 0)
      BY <1>2
    <3>2. /\ \A v \in Worker \ {w} :
               at'[v] = at[v] /\ holds'[v] = holds[v] /\ lead'[v] = lead[v]
          /\ at'[w] = "recorded" /\ holds'[w] = i /\ Active(i)
      BY <3>1 DEF Goto, ActiveRows
    <3> QED
      BY <1>1, <3>2 DEF Candidates, Taking, Active
  <2> QED
    BY <2>1, NoneAdded DEF OpenInv
<1>3. CASE ActiveRows(e) = {} /\ Goto(w, "checked", e, NoId, 0)
  <2>1. /\ \A v \in Worker \ {w} :
             at'[v] = at[v] /\ holds'[v] = holds[v] /\ lead'[v] = lead[v]
        /\ at'[w] = "checked" /\ lead'[w] = e
    BY <1>3 DEF Goto
  <2>2. ASSUME NEW d \in Email \ {e}
        PROVE  Candidates(d)' \subseteq Candidates(d) /\ Taking(d)' \subseteq Taking(d)
    BY <1>1, <2>1 DEF Candidates, Taking, Active
  <2>3. /\ IsFiniteSet(Candidates(e)')
        /\ Cardinality(Candidates(e)') + Cardinality(Taking(e)') <= Cardinality(Worker)
    <3> DEFINE R == {v \in Worker : at[v] = "recorded"}
    <3>1. \A i \in Candidates(e)' : \E v \in R : holds[v] = i
      BY <1>1, <1>3, <2>1 DEF Candidates, ActiveRows, Active
    <3>2. IsFiniteSet(Candidates(e)') /\ Cardinality(Candidates(e)') <= Cardinality(R)
      <4> HIDE DEF R
      <4>1. R \in SUBSET Worker
        BY DEF R
      <4> QED
        BY <3>1, <4>1, HeldRowsCounted
    <3>3. Taking(e)' \in SUBSET (Worker \ R)
      BY <1>1, <2>1 DEF Taking
    <3>4. R \cap Taking(e)' = {} /\ R \cup Taking(e)' \in SUBSET Worker
      BY <3>3
    <3>5. IsFiniteSet(R) /\ IsFiniteSet(Taking(e)') /\ IsFiniteSet(R \cup Taking(e)')
      <4> HIDE DEF R
      <4> QED
        BY <3>4, CallersCounted
    <3> HIDE DEF R
    <3>6. Cardinality(R) + Cardinality(Taking(e)') <= Cardinality(Worker)
      <4>1. Cardinality(R \cup Taking(e)') <= Cardinality(Worker)
        BY <3>4, FS_Subset
      <4>2. Cardinality(R \cup Taking(e)')
              = Cardinality(R) + Cardinality(Taking(e)') - Cardinality(R \cap Taking(e)')
        BY <3>5, FS_Union
      <4>3. Cardinality(R \cap Taking(e)') = 0
        BY <3>4, FS_EmptySet
      <4> QED
        BY <3>5, <4>1, <4>2, <4>3, FS_CardinalityType
    <3>7. /\ Cardinality(R) \in Nat /\ Cardinality(Taking(e)') \in Nat
          /\ Cardinality(Candidates(e)') \in Nat /\ Cardinality(Worker) \in Nat
      BY <3>2, <3>5, FS_CardinalityType
    <3> QED
      BY <3>2, <3>6, <3>7
  <2> QED
    BY <2>2, <2>3, NoneAdded DEF OpenInv
<1> QED
  BY <1>2, <1>3 DEF FindActiveByEmail

\* An insert exchanges the caller that was to take a place for its row.
LEMMA InsertKeepsOpenInv ==
    ASSUME IsFiniteSet(Worker), TypeOK, OpenInv, NEW w \in Worker, InsertRow(w)
    PROVE  OpenInv'
<1> USE DEF TypeOK
<1>1. PICK i \in Id :
        /\ status[i] = "absent"
        /\ SetStatus(i, "qualified")
        /\ owner' = [owner EXCEPT ![i] = lead[w]]
        /\ Goto(w, "recorded", lead[w], i, 0)
  BY DEF InsertRow
<1>2. paid' = paid /\ at[w] = "checked"
  BY DEF InsertRow
<1>3. /\ \A v \in Worker \ {w} :
           at'[v] = at[v] /\ holds'[v] = holds[v] /\ lead'[v] = lead[v]
      /\ at'[w] = "recorded" /\ holds'[w] = i
      /\ \A j \in Id \ {i} : status'[j] = status[j] /\ owner'[j] = owner[j]
      /\ owner'[i] = lead[w]
  BY <1>1 DEF Goto, SetStatus
<1>4. ASSUME NEW e \in Email, e # lead[w]
      PROVE  Candidates(e)' \subseteq Candidates(e) /\ Taking(e)' \subseteq Taking(e)
  BY <1>2, <1>3, <1>4 DEF Candidates, Taking, Active
<1>5. ASSUME NEW e \in Email, e = lead[w]
      PROVE  /\ IsFiniteSet(Candidates(e)')
             /\ Cardinality(Candidates(e)') + Cardinality(Taking(e)') <= Cardinality(Worker)
  <2>1. Candidates(e)' \in SUBSET (Candidates(e) \cup {i})
    BY <1>2, <1>3 DEF Candidates, Active
  <2>2. Taking(e)' = Taking(e) \ {w} /\ w \in Taking(e) /\ Taking(e) \in SUBSET Worker
    BY <1>2, <1>3, <1>5 DEF Taking
  <2>3. /\ IsFiniteSet(Candidates(e))
        /\ Cardinality(Candidates(e)) + Cardinality(Taking(e)) <= Cardinality(Worker)
    BY DEF OpenInv
  <2>4. /\ IsFiniteSet(Candidates(e) \cup {i})
        /\ Cardinality(Candidates(e) \cup {i}) <= Cardinality(Candidates(e)) + 1
        /\ Cardinality(Candidates(e)) \in Nat
    <3>1. Cardinality(Candidates(e)) \in Nat
      BY <2>3, FS_CardinalityType
    <3>2. /\ IsFiniteSet(Candidates(e) \cup {i})
          /\ \/ Cardinality(Candidates(e) \cup {i}) = Cardinality(Candidates(e))
             \/ Cardinality(Candidates(e) \cup {i}) = Cardinality(Candidates(e)) + 1
      BY <2>3, FS_AddElement, Zenon
    <3> QED
      BY <3>1, <3>2
  <2>5. /\ IsFiniteSet(Candidates(e)')
        /\ Cardinality(Candidates(e)') <= Cardinality(Candidates(e) \cup {i})
        /\ Cardinality(Candidates(e)') \in Nat /\ Cardinality(Candidates(e) \cup {i}) \in Nat
    BY <2>1, <2>4, FS_Subset, FS_CardinalityType
  <2>6. IsFiniteSet(Taking(e)) /\ Cardinality(Taking(e)) \in Nat /\ Cardinality(Worker) \in Nat
    BY <2>2, CallersCounted
  <2>7. Cardinality(Taking(e)') = Cardinality(Taking(e)) - 1
    <3>1. Cardinality(Taking(e) \ {w}) = Cardinality(Taking(e)) - 1
      BY <2>2, <2>6, FS_RemoveElement
    <3> QED
      BY <2>2, <3>1
  <2> QED
    BY <2>3, <2>4, <2>5, <2>6, <2>7
<1> QED
  BY <1>4, <1>5, NoneAdded DEF OpenInv

(***************************************************************************)
(* No other step adds a candidate or a taker: a caller that writes         *)
(* link_sent has had its row as a candidate, and the webhook only opens    *)
(* rows that are paid.                                                     *)
(***************************************************************************)
LEMMA OtherStepsAddNone ==
    ASSUME TypeOK, WebhookKnows, NEW e \in Email, [Next]_vars,
           ~\E w \in Worker, d \in Email : FindActiveByEmail(w, d),
           ~\E w \in Worker : InsertRow(w)
    PROVE  Candidates(e)' \subseteq Candidates(e) /\ Taking(e)' \subseteq Taking(e)
<1> USE DEF TypeOK, Candidates, Taking, Active
<1> DEFINE None == Candidates(e)' \subseteq Candidates(e) /\ Taking(e)' \subseteq Taking(e)
<1>1. ASSUME NEW w \in Worker, CreateCheckoutSession(w) PROVE None
  <2>1. /\ at[w] = "recorded" /\ at'[w] = "linked" /\ holds'[w] = holds[w]
        /\ \A v \in Worker \ {w} :
             at'[v] = at[v] /\ holds'[v] = holds[v] /\ lead'[v] = lead[v]
        /\ \A i \in Id : i # holds[w] => status'[i] = status[i]
        /\ owner' = owner /\ paid' = paid
    BY <1>1 DEF CreateCheckoutSession, SetStatus, Goto
  <2> QED
    BY <2>1
<1>2. ASSUME NEW w \in Worker, SendCheckoutLink(w) PROVE None
  BY <1>2 DEF SendCheckoutLink, Leave, Goto
<1>3. ASSUME NEW w \in Worker, NEW i \in Id, MatchSession(w, i) PROVE None
  BY <1>3 DEF MatchSession, Goto, rowVars, workerVars
<1>4. ASSUME NEW w \in Worker, MarkCompleted(w) PROVE None
  <2>1. /\ \A i \in Id : i # holds[w] => status'[i] = status[i]
        /\ owner' = owner /\ paid' = paid /\ paid[holds[w]]
        /\ at' = [at EXCEPT ![w] = "idle"] /\ holds' = [holds EXCEPT ![w] = NoId]
        /\ lead' = [lead EXCEPT ![w] = NoEmail]
    BY <1>4 DEF MarkCompleted, SetStatus, Leave, Goto, WebhookKnows
  <2> QED
    BY <2>1
<1>5. ASSUME NEW w \in Worker, NEW i \in Id, ReadAttempts(w, i) PROVE None
  BY <1>5 DEF ReadAttempts, Goto, rowVars
<1>6. ASSUME NEW w \in Worker, ResendLink(w) PROVE None
  BY <1>6 DEF ResendLink, Goto
<1>7. ASSUME NEW w \in Worker, CountAttempt(w) PROVE None
  BY <1>7 DEF CountAttempt, Leave, Goto
<1>8. ASSUME NEW w \in Worker, StripeRaises(w) \/ UpsertRaises(w) PROVE None
  BY <1>8 DEF StripeRaises, UpsertRaises, Leave, Goto, rowVars
<1>9. ASSUME NEW i \in Id, CustomerPays(i) PROVE None
  BY <1>9 DEF CustomerPays, workerVars
<1>10. ASSUME NEW i \in Id, StoreSession(i) PROVE None
  BY <1>10 DEF StoreSession, workerVars
<1>11. ASSUME NEW i \in Id, Platform(i) PROVE None
  <2>1. /\ \A j \in Id : j # i => status'[j] = status[j]
        /\ status[i] \notin Terminal \cup {"absent"}
        /\ owner' = owner /\ paid' = paid /\ UNCHANGED workerVars
    BY <1>11 DEF Platform, SetStatus, Terminal
  <2> QED
    BY <2>1 DEF workerVars
<1>12. CASE Restart
  BY <1>12 DEF Restart, rowVars
<1>13. CASE UNCHANGED vars
  BY <1>13 DEF vars, rowVars, workerVars
<1> QED
  BY <1>1, <1>2, <1>3, <1>4, <1>5, <1>6, <1>7, <1>8, <1>9, <1>11, <1>12, <1>13, <1>10,
     StepCases

\* Every candidate and every taker keeps its place, always.
LEMMA OpenInvariant ==
    ASSUME IsFiniteSet(Worker), ~QueryFails
    PROVE  Spec => []OpenInv
<1>1. Init => OpenInv
  <2> SUFFICES ASSUME Init, NEW e \in Email
               PROVE  /\ IsFiniteSet(Candidates(e))
                      /\ Cardinality(Candidates(e)) + Cardinality(Taking(e)) <= Cardinality(Worker)
    BY DEF OpenInv
  <2>1. Candidates(e) = {} /\ Taking(e) = {}
    BY DEF Init, Candidates, Taking, Active
  <2>2. Cardinality(Worker) \in Nat
    BY FS_CardinalityType
  <2> QED
    BY <2>1, <2>2, FS_EmptySet
<1>2. TypeOK /\ PaidInv /\ OpenInv /\ [Next]_vars => OpenInv'
  <2> SUFFICES ASSUME TypeOK, PaidInv, OpenInv, [Next]_vars PROVE OpenInv'
    OBVIOUS
  <2>1. CASE \E w \in Worker, e \in Email : FindActiveByEmail(w, e)
    BY <2>1, LookupKeepsOpenInv
  <2>2. CASE \E w \in Worker : InsertRow(w)
    BY <2>2, InsertKeepsOpenInv
  <2>3. CASE /\ ~\E w \in Worker, e \in Email : FindActiveByEmail(w, e)
             /\ ~\E w \in Worker : InsertRow(w)
    <3>1. \A e \in Email :
            Candidates(e)' \subseteq Candidates(e) /\ Taking(e)' \subseteq Taking(e)
      BY <2>3, OtherStepsAddNone DEF PaidInv
    <3> QED
      BY <3>1, NoneAdded DEF OpenInv
  <2> QED
    BY <2>1, <2>2, <2>3
<1> QED
  BY <1>1, <1>2, TypeCorrect, PaidInvariant, PTL DEF Spec

(***************************************************************************)
(* While queries are answered, a customer never has more open signups than *)
(* there are concurrent callers, whatever expires, is paid or is repeated. *)
(***************************************************************************)
THEOREM OpenSignupsTheorem ==
    ASSUME IsFiniteSet(Worker), ~QueryFails
    PROVE  Spec => []OpenSignupsBounded
<1>1. OpenInv => OpenSignupsBounded
  <2> SUFFICES ASSUME OpenInv, NEW e \in Email
               PROVE  IsFiniteSet(Open(e)) /\ Cardinality(Open(e)) <= Cardinality(Worker)
    BY DEF OpenSignupsBounded
  <2>1. Open(e) \in SUBSET Candidates(e)
    BY DEF Open, ActiveRows, Candidates
  <2>2. /\ IsFiniteSet(Candidates(e))
        /\ Cardinality(Candidates(e)) + Cardinality(Taking(e)) <= Cardinality(Worker)
    BY DEF OpenInv
  <2>3. Taking(e) \in SUBSET Worker
    BY DEF Taking
  <2>4. Cardinality(Taking(e)) \in Nat /\ Cardinality(Worker) \in Nat
    BY <2>3, CallersCounted
  <2>5. IsFiniteSet(Open(e)) /\ Cardinality(Open(e)) <= Cardinality(Candidates(e))
    BY <2>1, <2>2, FS_Subset
  <2>6. Cardinality(Open(e)) \in Nat /\ Cardinality(Candidates(e)) \in Nat
    BY <2>2, <2>5, FS_CardinalityType
  <2> QED
    BY <2>2, <2>4, <2>5, <2>6
<1> QED
  BY <1>1, OpenInvariant, PTL

(***************************************************************************)
(* With one caller at a time, as in the event loop of the service, no      *)
(* customer ever has two open signups.                                     *)
(***************************************************************************)
THEOREM SerialSignupsTheorem ==
    ASSUME IsFiniteSet(Worker), Cardinality(Worker) = 1, ~QueryFails
    PROVE  Spec => []OneOpenSignup
<1>1. OpenSignupsBounded => OneOpenSignup
  <2> SUFFICES ASSUME OpenSignupsBounded, NEW e \in Email, NEW i \in Open(e), NEW j \in Open(e)
               PROVE  i = j
    BY DEF OneOpenSignup
  <2>1. IsFiniteSet(Open(e)) /\ Cardinality(Open(e)) <= 1
    BY DEF OpenSignupsBounded
  <2>2. Cardinality(Open(e)) \in Nat
    BY <2>1, FS_CardinalityType
  <2>3. Cardinality(Open(e)) # 0
    BY <2>1, FS_EmptySet
  <2>4. Cardinality(Open(e)) = 1
    BY <2>1, <2>2, <2>3
  <2>5. \E x : Open(e) = {x}
    BY <2>1, <2>4, FS_Singleton
  <2> QED
    BY <2>5
<1> QED
  BY <1>1, OpenSignupsTheorem, PTL
=============================================================================
