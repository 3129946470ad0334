--------------------------- MODULE PendingSignups ---------------------------
(***************************************************************************)
(* The pending_signups table under SignupHandler: the sales flow creates a *)
(* row and its checkout link, Stripe's webhook marks it completed, a       *)
(* rescue resends the link.  Every method reads a row and writes it in     *)
(* separate database calls, so workers interleave between the two; a query *)
(* that fails looks like an empty table, an upsert that fails raises, and  *)
(* the process may be replaced between any two calls.  CustomerPays,       *)
(* Platform and StoreSession stand for Stripe and for the Edge Functions   *)
(* that own the later statuses and whatever the code only reads.           *)
(***************************************************************************)
EXTENDS Integers

CONSTANTS
    Worker,       \* callers of SignupHandler active at the same time
    Id,           \* rows the table may come to hold
    Email,
    MaxRescue,    \* execution.max_rescue_attempts
    ResentBound,  \* no rescue begins once this many links have been resent
    QueryFails,   \* whether reads of the database may fail
    UpsertFails,  \* whether writes may
    NoId, NoEmail

ASSUME SignupAssumption ==
    /\ MaxRescue \in Nat
    /\ ResentBound \in Nat
    /\ QueryFails \in BOOLEAN
    /\ UpsertFails \in BOOLEAN
    /\ NoId \notin Id
    /\ NoEmail \notin Email

VARIABLES
    status,   \* each row's status column, "absent" before it is inserted
    owner,    \* contact_email
    rescue,   \* rescue_attempts
    link,     \* whether the customer has been sent a checkout link
    paid,     \* whether Stripe has completed the row's checkout session
    due,      \* whether Stripe still owes a successful webhook delivery
    stored,   \* whether stripe_checkout_session_id is the session that was paid
    resent,   \* history: links handed to the SMS service by rescues
    at,       \* the call each worker is in the middle of
    lead,     \* the email it works for
    holds,    \* the row it works on
    seen      \* what it read of that row

rowVars == <<status, owner, rescue, link, paid, due, stored, resent>>
workerVars == <<at, lead, holds, seen>>
vars == <<rowVars, workerVars>>

Terminal == {"activated", "expired"}
\* expired stands for failed too.
Status == {"qualified", "link_sent", "checkout_opened", "checkout_completed",
           "account_created", "provisioned"} \cup Terminal

Step == {"idle", "checked", "recorded", "linked", "matched", "rescuing", "resent"}

TypeOK ==
    /\ status \in [Id -> Status \cup {"absent"}]
    /\ owner \in [Id -> Email \cup {NoEmail}]
    /\ rescue \in [Id -> Nat]
    /\ link \in [Id -> BOOLEAN]
    /\ paid \in [Id -> BOOLEAN]
    /\ due \in [Id -> BOOLEAN]
    /\ stored \in [Id -> BOOLEAN]
    /\ resent \in [Id -> Nat]
    /\ at \in [Worker -> Step]
    /\ lead \in [Worker -> Email \cup {NoEmail}]
    /\ holds \in [Worker -> Id \cup {NoId}]
    /\ seen \in [Worker -> Nat]
    /\ \A w \in Worker : holds[w] \in Id <=> at[w] \notin {"idle", "checked"}

Init ==
    /\ status = [i \in Id |-> "absent"]
    /\ owner = [i \in Id |-> NoEmail]
    /\ rescue = [i \in Id |-> 0]
    /\ link = [i \in Id |-> FALSE]
    /\ paid = [i \in Id |-> FALSE]
    /\ due = [i \in Id |-> FALSE]
    /\ stored = [i \in Id |-> FALSE]
    /\ resent = [i \in Id |-> 0]
    /\ at = [w \in Worker |-> "idle"]
    /\ lead = [w \in Worker |-> NoEmail]
    /\ holds = [w \in Worker |-> NoId]
    /\ seen = [w \in Worker |-> 0]

Active(i) == status[i] \notin Terminal \cup {"absent"}
\* Faulty: any active row is a duplicate.
ActiveRowsOfAnyone(e) == {i \in Id : Active(i)}

ActiveRows(e) == {i \in Id : Active(i) /\ owner[i] = e}

\* Worker w goes on to a step for lead e and row i, remembering n.
Goto(w, step, e, i, n) ==
    /\ at' = [at EXCEPT ![w] = step]
    /\ lead' = [lead EXCEPT ![w] = e]
    /\ holds' = [holds EXCEPT ![w] = i]
    /\ seen' = [seen EXCEPT ![w] = n]

\* Its call returns or raises.
Leave(w) == Goto(w, "idle", NoEmail, NoId, 0)

SetStatus(i, s) == status' = [status EXCEPT ![i] = s]

-----------------------------------------------------------------------------
(* The sales flow: create_pending_signup, create_checkout_session and      *)
(* send_checkout_link, one call after the other.                           *)

\* _find_active_by_email; a failed query finds nothing.
FindActiveByEmail(w, e) ==
    /\ at[w] = "idle"
    /\ \/ \E i \in ActiveRows(e) : Goto(w, "recorded", e, i, 0)
       \/ (ActiveRows(e) = {} \/ QueryFails) /\ Goto(w, "checked", e, NoId, 0)
    /\ UNCHANGED rowVars

\* Faulty: the id of the upserted row is not read back.
InsertRowLosingId(w) ==
    /\ at[w] = "checked"
    /\ \E i \in Id :
          /\ status[i] = "absent"
          /\ SetStatus(i, "qualified")
          /\ owner' = [owner EXCEPT ![i] = lead[w]]
          /\ Goto(w, "recorded", lead[w], NoId, 0)
    /\ UNCHANGED <<rescue, link, paid, due, stored, resent>>

\* The rest of create_pending_signup: a row of its own is written.
InsertRow(w) ==
    /\ at[w] = "checked"
    /\ \E i \in Id :
          /\ status[i] = "absent"
          /\ SetStatus(i, "qualified")
          /\ owner' = [owner EXCEPT ![i] = lead[w]]
          /\ Goto(w, "recorded", lead[w], i, 0)
    /\ UNCHANGED <<rescue, link, paid, due, stored, resent>>

\* create_checkout_session writes link_sent whatever the row's status is.
CreateCheckoutSession(w) ==
    /\ at[w] = "recorded"
    /\ SetStatus(holds[w], "link_sent")
    /\ Goto(w, "linked", lead[w], holds[w], 0)
    /\ UNCHANGED <<owner, rescue, link, paid, due, stored, resent>>

\* send_checkout_link: the message arrives or it does not.
SendCheckoutLink(w) ==
    /\ at[w] = "linked"
    /\ \/ link' = [link EXCEPT ![holds[w]] = TRUE]
       \/ UNCHANGED link
    /\ Leave(w)
    /\ UNCHANGED <<status, owner, rescue, paid, due, stored, resent>>

-----------------------------------------------------------------------------
(* The webhook: handle_checkout_completed, at least once per payment.      *)

\* Faulty: the row is looked up by the payer's email.
MatchSessionByEmail(w, i) ==
    /\ at[w] = "idle"
    /\ paid[i]
    /\ \E j \in Id :
          /\ status[j] # "absent"
          /\ owner[j] = owner[i]
          /\ Goto(w, "matched", NoEmail, j, IF status[j] = "checkout_completed" THEN 1 ELSE 0)
    /\ UNCHANGED rowVars

(***************************************************************************)
(* The lookup by session.  A session that no row carries and a query that  *)
(* fails are both answered like any other delivery, without a write.       *)
(***************************************************************************)
MatchSession(w, i) ==
    /\ at[w] = "idle"
    /\ paid[i]
    /\ \/ /\ stored[i]
          /\ Goto(w, "matched", NoEmail, i, IF status[i] = "checkout_completed" THEN 1 ELSE 0)
          /\ UNCHANGED rowVars
       \/ /\ ~stored[i] \/ QueryFails
          /\ due' = [due EXCEPT ![i] = FALSE]
          /\ UNCHANGED <<status, owner, rescue, link, paid, stored, resent, workerVars>>

\* Faulty: only a row whose link is out is completed.
MarkCompletedIfSent(w) ==
    /\ at[w] = "matched"
    /\ IF status[holds[w]] = "link_sent" THEN SetStatus(holds[w], "checkout_completed")
       ELSE UNCHANGED status
    /\ due' = [due EXCEPT ![holds[w]] = FALSE]
    /\ Leave(w)
    /\ UNCHANGED <<owner, rescue, link, paid, stored, resent>>

\* The write, unless the row was read as completed already.
MarkCompleted(w) ==
    /\ at[w] = "matched"
    /\ IF seen[w] = 1 THEN UNCHANGED status ELSE SetStatus(holds[w], "checkout_completed")
    /\ due' = [due EXCEPT ![holds[w]] = FALSE]
    /\ Leave(w)
    /\ UNCHANGED <<owner, rescue, link, paid, stored, resent>>

-----------------------------------------------------------------------------
(* The rescue: resend_checkout_link.                                       *)

\* Faulty: one attempt too many.
ReadAttemptsInclusive(w, i) ==
    /\ at[w] = "idle"
    /\ status[i] # "absent"
    /\ rescue[i] <= MaxRescue /\ resent[i] < ResentBound
    /\ Goto(w, "rescuing", NoEmail, i, rescue[i])
    /\ UNCHANGED rowVars

ReadAttempts(w, i) ==
    /\ at[w] = "idle"
    /\ status[i] # "absent"
    /\ rescue[i] < MaxRescue
    /\ resent[i] < ResentBound
    /\ Goto(w, "rescuing", NoEmail, i, rescue[i])
    /\ UNCHANGED rowVars

(***************************************************************************)
(* send_checkout_link answers True whether or not the message arrives: the *)
(* SMS adapter answers False where its caller waits for an exception.      *)
(***************************************************************************)
ResendLink(w) ==
    /\ at[w] = "rescuing"
    /\ resent' = [resent EXCEPT ![holds[w]] = @ + 1]
    /\ \/ link' = [link EXCEPT ![holds[w]] = TRUE]
       \/ UNCHANGED link
    /\ Goto(w, "resent", NoEmail, holds[w], seen[w])
    /\ UNCHANGED <<status, owner, rescue, paid, due, stored>>

\* The attempt is counted from the value read before the link was sent.
CountAttempt(w) ==
    /\ at[w] = "resent"
    /\ rescue' = [rescue EXCEPT ![holds[w]] = seen[w] + 1]
    /\ Leave(w)
    /\ UNCHANGED <<status, owner, link, paid, due, stored, resent>>

-----------------------------------------------------------------------------
\* Stripe refuses to create a session, and the call raises.
StripeRaises(w) ==
    /\ at[w] = "recorded"
    /\ Leave(w)
    /\ UNCHANGED rowVars

\* An upsert raises, and the call with it.  A table that has no row left (Id
\* is a bound) turns the insert away too.
UpsertRaises(w) ==
    /\ \/ UpsertFails /\ at[w] \in {"checked", "recorded", "matched", "resent"}
       \/ at[w] = "checked" /\ \A i \in Id : status[i] # "absent"
    /\ Leave(w)
    /\ UNCHANGED rowVars

\* The process is replaced: every call in progress is lost.
Restart ==
    /\ at' = [w \in Worker |-> "idle"]
    /\ lead' = [w \in Worker |-> NoEmail]
    /\ holds' = [w \in Worker |-> NoId]
    /\ seen' = [w \in Worker |-> 0]
    /\ UNCHANGED rowVars

(***************************************************************************)
(* stripe_checkout_session_id is written, by others: create_checkout_      *)
(* session stores the link alone.  The column holds one session, and a row *)
(* has one for every sales flow that took it up, so it may be set to the   *)
(* one its customer has paid or to another.                                *)
(***************************************************************************)
StoreSession(i) ==
    /\ paid[i]
    /\ stored' = [stored EXCEPT ![i] = ~@]
    /\ UNCHANGED <<status, owner, rescue, link, paid, due, resent, workerVars>>

\* The customer completes the checkout behind the link.
CustomerPays(i) ==
    /\ link[i]
    /\ ~paid[i]
    /\ paid' = [paid EXCEPT ![i] = TRUE]
    /\ due' = [due EXCEPT ![i] = TRUE]
    /\ UNCHANGED <<status, owner, rescue, link, stored, resent, workerVars>>

\* The Edge Functions move a row along, or give it up.
Platform(i) ==
    /\ \/ status[i] = "link_sent" /\ SetStatus(i, "checkout_opened")
       \/ status[i] = "checkout_completed" /\ SetStatus(i, "account_created")
       \/ status[i] = "account_created" /\ SetStatus(i, "provisioned")
       \/ status[i] = "provisioned" /\ SetStatus(i, "activated")
       \/ Active(i) /\ SetStatus(i, "expired")
    /\ UNCHANGED <<owner, rescue, link, paid, due, stored, resent, workerVars>>

SalesStep(w) ==
    \/ \E e \in Email : FindActiveByEmail(w, e)
    \/ InsertRow(w) \/ CreateCheckoutSession(w) \/ SendCheckoutLink(w)
    \/ StripeRaises(w)

RescueStep(w) == (\E i \in Id : ReadAttempts(w, i)) \/ ResendLink(w) \/ CountAttempt(w)

WebhookStep(w) == (\E i \in Id : MatchSession(w, i)) \/ MarkCompleted(w)

Next ==
    \/ \E w \in Worker : SalesStep(w) \/ RescueStep(w) \/ WebhookStep(w) \/ UpsertRaises(w)
    \/ \E i \in Id : CustomerPays(i) \/ Platform(i) \/ StoreSession(i)
    \/ Restart

Spec == Init /\ [][Next]_vars

(***************************************************************************)
(* A call that has begun goes on; Stripe delivers a webhook until one      *)
(* delivery succeeds, and the write it needs does not raise for ever.      *)
(* Nothing obliges leads, rescues or customers.                            *)
(***************************************************************************)
Deliver(i) == due[i] /\ \E w \in Worker : MatchSession(w, i)
Complete(i) == \E w \in Worker : holds[w] = i /\ MarkCompleted(w)

Fairness ==
    /\ \A w \in Worker : WF_vars(at[w] # "idle" /\ (SalesStep(w) \/ RescueStep(w)
                                                   \/ MarkCompleted(w) \/ UpsertRaises(w)))
    /\ \A i \in Id : SF_vars(Deliver(i)) /\ SF_vars(Complete(i))

FairSpec == Spec /\ Fairness

-----------------------------------------------------------------------------
(***************************************************************************)
(* The stored rescue counter never passes max_rescue_attempts and never    *)
(* claims more links than rescues handed to the SMS service, however       *)
(* rescues of one row overlap: the lost updates of its read and write, and *)
(* restarts between the message and the count, only lose attempts.         *)
(***************************************************************************)
RescueCounterSound ==
    \A i \in Id : rescue[i] <= MaxRescue /\ rescue[i] <= resent[i]

(***************************************************************************)
(* No lead, rescue or stale write makes a row look paid for: a row is at   *)
(* or past checkout_completed only if its customer completed the checkout. *)
(***************************************************************************)
CompletedOnlyIfPaid ==
    \A i \in Id :
        status[i] \in {"checkout_completed", "account_created", "provisioned", "activated"}
            => paid[i]

(***************************************************************************)
(* The row a sales flow attaches a checkout link to carries the email of   *)
(* the lead it is talking to, whether it was inserted or found.            *)
(***************************************************************************)
LinkGoesToLead ==
    \A w \in Worker : at[w] \in {"recorded", "linked"} => owner[holds[w]] = lead[w]

(***************************************************************************)
(* A payment whose session its row carries is always handed off, while     *)
(* queries are answered: the row reaches checkout_completed, whatever      *)
(* calls, expiries and repeated deliveries write to it meanwhile, and      *)
(* however often a write raises or the process is replaced first.  The     *)
(* session has to be there and to stay there until the delivery that       *)
(* succeeds; without it the payment is acknowledged and never written.     *)
(***************************************************************************)
StoredPaymentHandedOff ==
    \A i \in Id : (due[i] /\ []stored[i]) ~> status[i] = "checkout_completed"

(***************************************************************************)
(* "Idempotent handler called when Stripe checkout.session.completed       *)
(* fires": a delivery of the webhook leaves a row alone that has already   *)
(* moved on from checkout_completed.                                       *)
(***************************************************************************)
WebhookIdempotent ==
    [][\A w \in Worker :
        MarkCompleted(w) => \A i \in Id :
            status[i] \in {"account_created", "provisioned", "activated"} => status'[i] = status[i]]_vars

(***************************************************************************)
(* DuplicatePendingSignupError "prevents double-provisioning and           *)
(* double-checkout for the same contact": no checkout session is created   *)
(* for a row that is known to have completed its checkout.                 *)
(***************************************************************************)
NoDoubleCheckout ==
    [][\A w \in Worker :
        at[w] = "recorded" /\ at'[w] = "linked" =>
            status[holds[w]] \notin {"checkout_completed", "account_created", "provisioned"}]_vars
=============================================================================
