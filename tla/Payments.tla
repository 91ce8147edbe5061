------------------------------- MODULE Payments -------------------------------
(***************************************************************************)
(* The payments of one order between this backend and its two providers:   *)
(* apps/payments/services/provider_service.py and apps/payments/views.py.  *)
(* The provider keeps books of its own, and every request calls it in the  *)
(* middle of a database transaction, so a worker that dies, or a second    *)
(* request, may find the two in disagreement.  What a completion does to   *)
(* the order is module Checkout.                                           *)
(***************************************************************************)
EXTENDS Integers, FiniteSetsExt

CONSTANTS
  Pid,         \* payment ids the providers may hand out
  Key,         \* idempotency keys of the requests that open a payment
  RefundKey,   \* idempotency keys of refund requests
  Web,         \* sessions of the web workers
  None,        \* no payment, no key
  Amount,      \* what the order costs, in units of one refund
  MaxCrashes   \* how many workers die in a request

ASSUME NoneAssumption == None \notin Pid \cup Key \cup RefundKey
ASSUME NumberAssumption == Amount \in Nat /\ MaxCrashes \in Nat

Providers == {"stripe", "paypal"}

VARIABLES
  pay,      \* the providers' books: key of the request, open or charged
  refunds,  \* and how often each payment was refunded for each request key
  due,      \* success events a provider delivers until it gets an answer
  row,      \* PaymentTransaction rows
  refunded, \* number of RefundTransaction rows of each payment
  done,     \* payments of which a completion was committed
  job,      \* what each session is in the middle of
  crashes

vars == <<pay, refunds, due, row, refunded, done, job, crashes>>
books == <<pay, refunds, due>>
tables == <<row, refunded, done>>

-----------------------------------------------------------------------------

NoPayment == [prov |-> "none", key |-> None, state |-> "none"]
NoRow == [key |-> None, status |-> "none"]
Idle == [step |-> "idle", prov |-> "none", pid |-> None, key |-> None]

Begin(w, j) == job[w] = Idle /\ job' = [job EXCEPT ![w] = j]
Continue(w, j) == job' = [job EXCEPT ![w] = j]
End(w) == Continue(w, Idle)

HasRow(p) == row[p].status # "none"

\* _get_or_create_idempotent_txn finds one.
Known(prov, k) == \E p \in Pid : HasRow(p) /\ pay[p].prov = prov /\ row[p].key = k

\* What a provider answers to a request to open a payment: Stripe has the
\* request's key and answers a repeat with the payment there is, PayPal's SDK
\* is given no key.
\* Faulty variant: Stripe gets no key either.
Opened_NoKey(prov, k) == {p \in Pid : pay[p] = NoPayment}

Opened(prov, k) ==
  LET same == {p \in Pid : pay[p].prov = "stripe" /\ pay[p].key = k}
  IN  IF prov = "stripe" /\ same # {} THEN same ELSE {p \in Pid : pay[p] = NoPayment}

-----------------------------------------------------------------------------
(* Opening: create_stripe_payment_intent, create_stripe_checkout_session,  *)
(* create_paypal_order.                                                    *)

BeginOpen(w, prov, k) ==
  /\ ~Known(prov, k)
  /\ Begin(w, [Idle EXCEPT !.step = "open", !.prov = prov, !.key = k])
  /\ UNCHANGED <<books, tables, crashes>>

CallOpen(w) ==
  /\ job[w].step = "open"
  /\ \E p \in Opened(job[w].prov, job[w].key) :
       /\ pay' = IF pay[p] # NoPayment THEN pay
                 ELSE [pay EXCEPT ![p] =
                         [prov |-> job[w].prov, state |-> "open",
                          key |-> IF job[w].prov = "stripe" THEN job[w].key ELSE None]]
       /\ Continue(w, [job[w] EXCEPT !.step = "insert", !.pid = p])
  /\ UNCHANGED <<refunds, due, tables, crashes>>

\* The provider is not reached or refuses: PaymentProviderError.
FailOpen(w) ==
  /\ job[w].step = "open"
  /\ End(w)
  /\ UNCHANGED <<books, tables, crashes>>

\* The row is inserted, or refused because its provider_payment_id is there.
InsertRow(w) ==
  /\ job[w].step = "insert"
  /\ row' = IF HasRow(job[w].pid) THEN row
            ELSE [row EXCEPT ![job[w].pid] = [key |-> job[w].key, status |-> "pending"]]
  /\ End(w)
  /\ UNCHANGED <<books, refunded, done, crashes>>

-----------------------------------------------------------------------------
(* Paying.                                                                 *)

\* The customer pays at Stripe, with the URL or secret of the response.
Charge(p) ==
  /\ HasRow(p)
  /\ pay[p].prov = "stripe" /\ pay[p].state = "open"
  /\ pay' = [pay EXCEPT ![p].state = "charged"]
  /\ due' = due \cup {p}
  /\ UNCHANGED <<refunds, tables, job, crashes>>

\* Faulty variant: what Stripe answers about the session is not looked at.
BeginConfirm_Trusting(w, p) ==
  /\ HasRow(p)
  /\ pay[p].prov = "stripe"
  /\ Begin(w, [Idle EXCEPT !.step = "complete", !.pid = p])
  /\ UNCHANGED <<books, tables, crashes>>

\* confirm_stripe_checkout_session, when Stripe says the session is paid.
BeginConfirm(w, p) ==
  /\ HasRow(p)
  /\ pay[p].prov = "stripe" /\ pay[p].state = "charged"
  /\ Begin(w, [Idle EXCEPT !.step = "complete", !.pid = p])
  /\ UNCHANGED <<books, tables, crashes>>

\* capture_paypal_order: PayPal executes an open payment and takes the money;
\* what it refuses to execute leaves no trace, for the failure is written and
\* rolled back.
Capture(w, p) ==
  /\ HasRow(p)
  /\ pay[p].prov = "paypal" /\ pay[p].state = "open"
  /\ pay' = [pay EXCEPT ![p].state = "charged"]
  /\ due' = due \cup {p}
  /\ Begin(w, [Idle EXCEPT !.step = "complete", !.pid = p])
  /\ UNCHANGED <<refunds, tables, crashes>>

\* COMMIT of _complete_paid_transaction.
Completed(p) ==
  /\ row' = [row EXCEPT ![p].status = "succeeded"]
  /\ done' = done \cup {p}

Complete(w) ==
  /\ job[w].step = "complete"
  /\ Completed(job[w].pid)
  /\ End(w)
  /\ UNCHANGED <<books, refunded, crashes>>

\* Faulty variant: an event that was recorded before is answered at once.
Deliver_Once(w, p) ==
  /\ p \in due
  /\ due' = due \ {p}
  /\ Begin(w, [Idle EXCEPT !.step = "reconcile", !.pid = p])
  /\ UNCHANGED <<pay, refunds, tables, crashes>>

\* A webhook view records the event, in a transaction of its own; that it was
\* recorded before makes no difference.
Deliver(w, p) ==
  /\ p \in due
  /\ Begin(w, [Idle EXCEPT !.step = "reconcile", !.pid = p])
  /\ UNCHANGED <<books, tables, crashes>>

\* reconcile_stripe_event and reconcile_paypal_event, when they find the row.
Reconcile(w) ==
  /\ job[w].step = "reconcile"
  /\ HasRow(job[w].pid)
  /\ Completed(job[w].pid)
  /\ due' = due \ {job[w].pid}
  /\ End(w)
  /\ UNCHANGED <<pay, refunds, refunded, crashes>>

\* They find none, and the provider gets its answer all the same: the row is not
\* there, or it is PayPal's and the event's resource has another id (a sale's, say)
\* than the payment that was stored.
DropEvent(w) ==
  /\ job[w].step = "reconcile"
  /\ HasRow(job[w].pid) => pay[job[w].pid].prov = "paypal"
  /\ due' = due \ {job[w].pid}
  /\ End(w)
  /\ UNCHANGED <<pay, refunds, tables, crashes>>

\* A completion raises and is rolled back, the provider's event unanswered: the
\* reserve does not cover the order, its email has a usage row already, or a
\* statement fails.
Raise(w, p) ==
  /\ job[w].step \in {"complete", "reconcile"}
  /\ job[w].pid = p /\ HasRow(p)
  /\ End(w)
  /\ UNCHANGED <<books, tables, crashes>>

\* A failure event, of an attempt before the payment was charged, delivered
\* now or after the success; or the sweep, which fails pending rows only.
FailRow(p) ==
  /\ HasRow(p)
  /\ row' = [row EXCEPT ![p].status = "failed"]
  /\ UNCHANGED <<books, refunded, done, job, crashes>>

-----------------------------------------------------------------------------
(* Refunding: create_refund, which looks at no status and uses no key.     *)

BeginRefund(w, p, r) ==
  /\ HasRow(p)
  /\ Begin(w, [Idle EXCEPT !.step = "refund", !.pid = p, !.key = r])
  /\ UNCHANGED <<books, tables, crashes>>

\* The provider refunds what was charged and is left.
Refundable(p) ==
  /\ pay[p].state = "charged"
  /\ MapThenSumSet(LAMBDA r : refunds[p][r], RefundKey) < Amount

CallRefund(w) ==
  /\ job[w].step = "refund"
  /\ LET p == job[w].pid
     IN  IF Refundable(p)
         THEN /\ refunds' = [refunds EXCEPT ![p][job[w].key] = @ + 1]
              /\ Continue(w, [job[w] EXCEPT !.step = "refunded"])
         ELSE UNCHANGED refunds /\ End(w)
  /\ UNCHANGED <<pay, due, tables, crashes>>

RecordRefund(w) ==
  /\ job[w].step = "refunded"
  /\ refunded' = [refunded EXCEPT ![job[w].pid] = @ + 1]
  /\ End(w)
  /\ UNCHANGED <<books, row, done, crashes>>

-----------------------------------------------------------------------------

Init ==
  /\ pay = [p \in Pid |-> NoPayment]
  /\ refunds = [p \in Pid |-> [r \in RefundKey |-> 0]]
  /\ due = {}
  /\ row = [p \in Pid |-> NoRow]
  /\ refunded = [p \in Pid |-> 0]
  /\ done = {}
  /\ job = [w \in Web |-> Idle]
  /\ crashes = 0

\* A worker dies: what it told the provider stands, what it wrote does not.
Crash(w) ==
  /\ crashes < MaxCrashes
  /\ job[w] # Idle
  /\ crashes' = crashes + 1
  /\ End(w)
  /\ UNCHANGED <<books, tables>>

\* The next step of a request that is under way.
Step(w) ==
  \/ CallOpen(w) \/ FailOpen(w) \/ InsertRow(w)
  \/ Complete(w) \/ Reconcile(w) \/ DropEvent(w) \/ \E p \in Pid : Raise(w, p)
  \/ CallRefund(w) \/ RecordRefund(w)

\* The views, each of which begins a request.
CreateStripePayment(w) == \E k \in Key : BeginOpen(w, "stripe", k)
CreatePayPalOrder(w) == \E k \in Key : BeginOpen(w, "paypal", k)
ConfirmCheckoutSession(w) == \E p \in Pid : BeginConfirm(w, p)
CapturePayPalOrder(w) == \E p \in Pid : Capture(w, p)
CreateRefund(w) == \E p \in Pid, r \in RefundKey : BeginRefund(w, p, r)
Webhook(w, p) == Deliver(w, p)

Next ==
  \/ \E w \in Web :
       \/ CreateStripePayment(w) \/ CreatePayPalOrder(w)
       \/ ConfirmCheckoutSession(w) \/ CapturePayPalOrder(w)
       \/ CreateRefund(w)
       \/ \E p \in Pid : Webhook(w, p)
       \/ Step(w)
       \/ Crash(w)
  \/ \E p \in Pid : Charge(p) \/ FailRow(p)

Spec == Init /\ [][Next]_vars

\* A request under way goes on, to its end or to an exception, and a provider
\* repeats an event until it is answered, however often it meets busy workers.
FairSpec ==
  /\ Spec
  /\ \A w \in Web : WF_vars(Step(w))
  /\ \A p \in Pid : SF_vars(\E w \in Web : Webhook(w, p))

-----------------------------------------------------------------------------
(* Properties.                                                             *)

\* A payment is recorded as succeeded only if the provider has the money,
\* whether a confirmation, a capture or an event reported it.
SucceededIsCharged == \A p \in Pid : row[p].status = "succeeded" => pay[p].state = "charged"

\* A repeated or concurrent request to open a payment, a retry after a crash
\* included, leads to one row of its key (_get_or_create_idempotent_txn).
OneRowPerKeyOf(prov) ==
  \A p, q \in Pid :
    /\ HasRow(p) /\ pay[p].prov = prov
    /\ HasRow(q) /\ pay[q].prov = prov
    /\ row[p].key = row[q].key
    => p = q

OneStripeRowPerKey == OneRowPerKeyOf("stripe")

ChargedBy(prov, p) == pay[p].prov = prov /\ pay[p].state = "charged"

\* Money that Stripe took is recorded in the end, though workers die between the
\* charge and the COMMIT, or between recording an event and applying it, and
\* completions raise: unless they do so for ever, again and again.
ChargeRecorded ==
  \A p \in Pid : \/ ChargedBy("stripe", p) ~> p \in done
                 \/ []<><<\E w \in Web : Raise(w, p)>>_vars

-----------------------------------------------------------------------------
(* What the docs lead one to expect and the code does not keep: see README. *)

\* What OneStripeRowPerKey says, for PayPal (POSTMAN_USAGE.md, the idempotency_key of a request).
OnePayPalRowPerKey == OneRowPerKeyOf("paypal")

\* What ChargeRecorded says, for PayPal, whose webhook view answers an event that
\* it cannot match (reconcile_paypal_event).
PayPalChargeRecorded ==
  \A p \in Pid : \/ ChargedBy("paypal", p) ~> p \in done
                 \/ []<><<\E w \in Web : Raise(w, p)>>_vars

\* A refund request repeated with its idempotency key refunds once
\* (POSTMAN_USAGE.md, the optional idempotency_key of a refund).
RefundOncePerKey == \A p \in Pid, r \in RefundKey : refunds[p][r] <= 1
=============================================================================
