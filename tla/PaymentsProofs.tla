---------------------------- MODULE PaymentsProofs ----------------------------
(***************************************************************************)
(* Proofs about Payments, for any payments, keys and sessions, and however *)
(* many workers die.  Nothing that a crash wipes out carries them: what a  *)
(* request knows of a payment, it read in the provider's books, and what   *)
(* it read there stays (Grows).                                            *)
(***************************************************************************)
EXTENDS Payments, TLAPS

Books == [prov : Providers \cup {"none"}, key : Key \cup {None},
          state : {"none", "open", "charged"}]

Jobs == [step : {"idle", "open", "insert", "complete", "reconcile", "refund", "refunded"},
         prov : Providers \cup {"none"}, pid : Pid \cup {None},
         key : Key \cup RefundKey \cup {None}]

Charged(p) == pay[p].state = "charged"

\* A payment that a request with key k opened at prov.
OpenedFor(p, prov, k) == /\ pay[p].prov = prov /\ prov \in Providers /\ k \in Key
                         /\ prov = "stripe" => pay[p].key = k

\* What a session has found out and relies on when it writes.
Knows(j) ==
  /\ j.step = "open" => j.prov \in Providers /\ j.key \in Key
  /\ j.step = "insert" => j.pid \in Pid /\ OpenedFor(j.pid, j.prov, j.key)
  /\ j.step \in {"complete", "reconcile"} => j.pid \in Pid /\ Charged(j.pid)
  /\ j.step = "complete" => HasRow(j.pid)

\* Stripe has one payment of a key.
StripeIsIdempotent ==
  \A p, q \in Pid :
    pay[p].prov = "stripe" /\ pay[q].prov = "stripe" /\ pay[p].key = pay[q].key => p = q

BooksOK ==
  /\ pay \in [Pid -> Books]
  /\ due \subseteq {p \in Pid : Charged(p)}
  /\ StripeIsIdempotent

RowsOK ==
  /\ row \in [Pid -> [key : Key \cup {None}, status : {"none", "pending", "succeeded", "failed"}]]
  /\ \A p \in Pid : HasRow(p) => OpenedFor(p, pay[p].prov, row[p].key)
  /\ SucceededIsCharged

SessionsOK == job \in [Web -> Jobs] /\ \A w \in Web : Knows(job[w])

Inv == BooksOK /\ RowsOK /\ SessionsOK

\* What nobody takes back.
Grows ==
  \A p \in Pid :
    /\ pay[p].prov \in Providers => pay'[p].prov = pay[p].prov /\ pay'[p].key = pay[p].key
    /\ Charged(p) => Charged(p)'
    /\ HasRow(p) => HasRow(p)'

LEMMA OpenedStays ==
  ASSUME Grows, NEW p \in Pid, NEW prov, NEW k, OpenedFor(p, prov, k)
  PROVE  OpenedFor(p, prov, k)'
  BY DEF Grows, OpenedFor

LEMMA KnowsStays ==
  ASSUME Grows, NEW j \in Jobs, Knows(j) PROVE Knows(j)'
  <1>1. j.step = "insert" => j.pid \in Pid /\ OpenedFor(j.pid, j.prov, j.key)'
    BY OpenedStays DEF Knows
  <1>2. j.step \in {"complete", "reconcile"} => j.pid \in Pid /\ Charged(j.pid)'
    BY DEF Knows, Grows
  <1>3. j.step = "complete" => HasRow(j.pid)'
    BY DEF Knows, Grows
  <1>4. QED
    BY <1>1, <1>2, <1>3 DEF Knows

LEMMA IdleKnows == Idle \in Jobs /\ Knows(Idle) /\ Knows(Idle)'
  BY DEF Idle, Jobs, Knows

\* A step of one session, from what it does to the rows and where it goes.
LEMMA StepKeeps ==
  ASSUME Inv, BooksOK', RowsOK', Grows, NEW w \in Web, NEW j \in Jobs, Knows(j)', Continue(w, j)
  PROVE  Inv'
  <1>1. ASSUME NEW x \in Web PROVE job'[x] \in Jobs /\ Knows(job[x])'
    <2>1. CASE x = w
      <3>1. job'[x] = j
        BY <2>1 DEF Continue, Inv, SessionsOK
      <3>2. QED
        BY <3>1 DEF Knows, OpenedFor, HasRow, Charged
    <2>2. CASE x # w
      <3>1. PICK k \in Jobs : k = job[x] /\ k = job'[x]
        BY <2>2 DEF Continue, Inv, SessionsOK
      <3>2. Knows(k)'
        BY <3>1, KnowsStays DEF Inv, SessionsOK
      <3>3. QED
        BY <3>1, <3>2 DEF Knows, OpenedFor, HasRow, Charged
    <2>3. QED
      BY <2>1, <2>2
  <1>2. QED
    BY <1>1 DEF Inv, SessionsOK, Continue

LEMMA EndKeeps ==
  ASSUME Inv, BooksOK', RowsOK', Grows, NEW w \in Web, End(w) PROVE Inv'
  BY IdleKnows, StepKeeps DEF End

\* A step of no session.
LEMMA OthersKeep ==
  ASSUME Inv, BooksOK', RowsOK', Grows, UNCHANGED job PROVE Inv'
  <1>1. ASSUME NEW x \in Web PROVE Knows(job[x])'
    <2>1. PICK k \in Jobs : k = job[x] /\ k = job'[x]
      BY DEF Inv, SessionsOK
    <2>2. Knows(k)'
      BY <2>1, KnowsStays DEF Inv, SessionsOK
    <2>3. QED
      BY <2>1, <2>2 DEF Knows, OpenedFor, HasRow, Charged
  <1>2. QED
    BY <1>1 DEF Inv, SessionsOK

\* The provider's books stay as they are, or the rows do.
LEMMA SameBooks ==
  ASSUME Inv, UNCHANGED pay, due' \subseteq due, \A p \in Pid : HasRow(p) => HasRow(p)'
  PROVE  BooksOK' /\ Grows
  BY DEF Inv, BooksOK, StripeIsIdempotent, Grows, Charged

LEMMA SameRows ==
  ASSUME Inv, UNCHANGED row, Grows PROVE RowsOK'
  <1>1. \A p \in Pid : HasRow(p)' => OpenedFor(p, pay[p].prov, row[p].key)'
    BY DEF Inv, RowsOK, HasRow, OpenedFor, Grows
  <1>2. SucceededIsCharged'
    BY DEF Inv, RowsOK, SucceededIsCharged, Grows, Charged
  <1>3. QED
    BY <1>1, <1>2 DEF Inv, RowsOK

LEMMA InvInit == Init => Inv
  <1> SUFFICES ASSUME Init PROVE Inv
    OBVIOUS
  <1>1. BooksOK
    BY DEF Init, BooksOK, Books, NoPayment, StripeIsIdempotent, Charged
  <1>2. RowsOK
    BY DEF Init, RowsOK, NoRow, HasRow, SucceededIsCharged
  <1>3. SessionsOK
    BY IdleKnows DEF Init, SessionsOK
  <1>4. QED
    BY <1>1, <1>2, <1>3 DEF Inv
-----------------------------------------------------------------------------

\* A request begins with what it has read, or is told, of a payment.
LEMMA BeginKeeps ==
  ASSUME Inv, NEW w \in Web, NEW j \in Jobs, Begin(w, j), Knows(j), UNCHANGED <<pay, row>>,
         due' \subseteq due
  PROVE  Inv'
  <1>1. BooksOK' /\ Grows
    BY SameBooks DEF HasRow
  <1>2. RowsOK' /\ Knows(j)'
    BY <1>1, SameRows, KnowsStays
  <1>3. QED
    BY <1>1, <1>2, StepKeeps DEF Begin, Continue

LEMMA CallOpenKeeps ==
  ASSUME Inv, NEW w \in Web, CallOpen(w) PROVE Inv'
  <1> PICK j \in Jobs : j = job[w]
    BY DEF Inv, SessionsOK
  <1>1. j.prov \in Providers /\ j.key \in Key
    BY DEF Inv, SessionsOK, Knows, CallOpen
  <1>2. PICK p \in Opened(j.prov, j.key) :
          /\ pay' = IF pay[p] # NoPayment THEN pay
                    ELSE [pay EXCEPT ![p] =
                            [prov |-> j.prov, state |-> "open",
                             key |-> IF j.prov = "stripe" THEN j.key ELSE None]]
          /\ Continue(w, [j EXCEPT !.step = "insert", !.pid = p])
    BY DEF CallOpen
  <1>3. p \in Pid
    BY <1>2 DEF Opened
  <1> DEFINE k == [j EXCEPT !.step = "insert", !.pid = p]
  <1>4. k \in Jobs /\ k.step = "insert" /\ k.pid = p /\ k.prov = j.prov /\ k.key = j.key
    BY <1>3 DEF Jobs
  <1>5. CASE pay[p] # NoPayment
    <2>1. j.prov = "stripe" /\ pay[p].prov = "stripe" /\ pay[p].key = j.key
      BY <1>2, <1>5 DEF Opened
    <2>2. UNCHANGED pay
      BY <1>2, <1>5
    <2>3. BooksOK' /\ Grows /\ RowsOK'
      BY <2>2, SameBooks, SameRows DEF CallOpen, tables, HasRow
    <2>4. Knows(k)'
      BY <1>1, <1>3, <1>4, <2>1, <2>2 DEF Knows, OpenedFor
    <2>5. QED
      BY <1>2, <1>4, <2>3, <2>4, StepKeeps
  <1>6. CASE pay[p] = NoPayment
    <2> DEFINE new == [prov |-> j.prov, state |-> "open",
                       key |-> IF j.prov = "stripe" THEN j.key ELSE None]
    <2>1. pay' = [pay EXCEPT ![p] = new]
      BY <1>2, <1>6
    <2>2. new \in Books
      BY <1>1 DEF Books, Providers
    <2>3. /\ pay' \in [Pid -> Books] /\ pay'[p] = new
          /\ \A q \in Pid \ {p} : pay'[q] = pay[q]
      BY <1>3, <2>1, <2>2 DEF Inv, BooksOK
    <2>4. pay[p].prov = "none" /\ pay[p].state = "none"
      BY <1>6 DEF NoPayment
    <2>5. Grows
      BY <2>3, <2>4 DEF Grows, Charged, Providers, CallOpen, tables, HasRow
    <2>6. StripeIsIdempotent'
      <3> SUFFICES ASSUME NEW q \in Pid, q # p, pay[q].prov = "stripe", new.prov = "stripe",
                          pay[q].key = new.key
                   PROVE  FALSE
        BY <2>3 DEF Inv, BooksOK, StripeIsIdempotent
      <3>1. j.prov = "stripe" /\ pay[q].key = j.key
        OBVIOUS
      <3>2. pay[p].prov = "stripe"
        BY <1>2, <1>6, <3>1 DEF Opened
      <3>3. QED
        BY <2>4, <3>2
    <2>7. BooksOK'
      BY <2>3, <2>4, <2>6 DEF Inv, BooksOK, Charged, CallOpen
    <2>8. RowsOK'
      BY <2>5, SameRows DEF CallOpen, tables
    <2>9. Knows(k)'
      BY <1>1, <1>3, <1>4, <2>3 DEF Knows, OpenedFor
    <2>10. QED
      BY <1>2, <1>4, <2>5, <2>7, <2>8, <2>9, StepKeeps
  <1>7. QED
    BY <1>5, <1>6

LEMMA InsertRowKeeps ==
  ASSUME Inv, NEW w \in Web, InsertRow(w) PROVE Inv'
  <1> DEFINE j == job[w]
  <1>1. j.pid \in Pid /\ j.key \in Key /\ OpenedFor(j.pid, j.prov, j.key)
    BY DEF Inv, SessionsOK, Knows, InsertRow, OpenedFor
  <1>0. \A p \in Pid : HasRow(p) => HasRow(p)'
    BY DEF HasRow, InsertRow, Inv, RowsOK
  <1>2. BooksOK' /\ Grows
    BY <1>0, SameBooks DEF InsertRow, books
  <1>3. RowsOK'
    <2>1. CASE HasRow(j.pid)
      BY <1>2, <2>1, SameRows DEF InsertRow
    <2>2. CASE ~HasRow(j.pid)
      <3>1. row' = [row EXCEPT ![j.pid] = [key |-> j.key, status |-> "pending"]]
        BY <2>2 DEF InsertRow
      <3>2. /\ row'[j.pid] = [key |-> j.key, status |-> "pending"]
            /\ \A q \in Pid \ {j.pid} : row'[q] = row[q]
            /\ row' \in [Pid -> [key : Key \cup {None},
                                 status : {"none", "pending", "succeeded", "failed"}]]
        BY <1>1, <3>1 DEF Inv, RowsOK
      <3>3. \A p \in Pid : HasRow(p)' => OpenedFor(p, pay[p].prov, row[p].key)'
        BY <1>1, <3>2 DEF Inv, RowsOK, HasRow, OpenedFor, InsertRow, books
      <3>4. SucceededIsCharged'
        BY <3>2 DEF Inv, RowsOK, SucceededIsCharged, InsertRow, books
      <3>5. QED
        BY <3>2, <3>3, <3>4 DEF RowsOK
    <2>3. QED
      BY <2>1, <2>2
  <1>4. QED
    BY <1>2, <1>3, EndKeeps DEF InsertRow

\* Only what the provider has charged is completed; a failure event of an earlier
\* attempt changes the status of a row that is there.
LEMMA StatusKeeps ==
  ASSUME Inv, NEW p \in Pid, NEW s \in {"succeeded", "failed"}, s = "succeeded" => Charged(p),
         HasRow(p),
         row' = [row EXCEPT ![p].status = s], UNCHANGED pay
  PROVE  RowsOK' /\ \A q \in Pid : HasRow(q) => HasRow(q)'
  <1>1. /\ row'[p].status = s /\ row'[p].key = row[p].key
        /\ \A q \in Pid \ {p} : row'[q] = row[q]
        /\ row' \in [Pid -> [key : Key \cup {None},
                             status : {"none", "pending", "succeeded", "failed"}]]
    BY DEF Inv, RowsOK
  <1>2. \A q \in Pid : HasRow(q)' => OpenedFor(q, pay[q].prov, row[q].key)'
    BY <1>1 DEF Inv, RowsOK, HasRow, OpenedFor
  <1>3. SucceededIsCharged'
    BY <1>1 DEF Inv, RowsOK, SucceededIsCharged, Charged
  <1>4. QED
    BY <1>1, <1>2, <1>3 DEF RowsOK, HasRow

\* The COMMIT of a completion, by a confirmation, a capture or an event.
LEMMA CompletedKeeps ==
  ASSUME Inv, NEW w \in Web, NEW p \in Pid, HasRow(p), Charged(p), Completed(p), End(w),
         UNCHANGED pay, due' \subseteq due
  PROVE  Inv'
  <1>1. RowsOK' /\ \A q \in Pid : HasRow(q) => HasRow(q)'
    BY StatusKeeps DEF Completed
  <1>2. BooksOK' /\ Grows
    BY <1>1, SameBooks
  <1>3. QED
    BY <1>1, <1>2, EndKeeps

LEMMA ReconcileKeeps ==
  ASSUME Inv, NEW w \in Web, Reconcile(w) PROVE Inv'
  <1>1. job[w].pid \in Pid /\ Charged(job[w].pid)
    BY DEF Inv, SessionsOK, Knows, Reconcile
  <1>2. QED
    BY <1>1, CompletedKeeps DEF Reconcile

\* An event that is dropped, or an exception, takes nothing back.
LEMMA DropKeeps ==
  ASSUME Inv, NEW w \in Web, DropEvent(w) \/ \E p \in Pid : Raise(w, p) PROVE Inv'
  <1>1. BooksOK' /\ Grows /\ RowsOK'
    BY SameBooks, SameRows DEF DropEvent, Raise, books, tables, HasRow
  <1>2. QED
    BY <1>1, EndKeeps DEF DropEvent, Raise

\* The customer's money: at Stripe, or taken by the capture of a PayPal order.
LEMMA ChargeGrows ==
  ASSUME Inv, NEW p \in Pid, HasRow(p), pay' = [pay EXCEPT ![p].state = "charged"],
         due' = due \cup {p}, UNCHANGED row
  PROVE  BooksOK' /\ RowsOK' /\ Grows /\ Charged(p)'
  <1>1. /\ pay'[p].state = "charged" /\ pay'[p].prov = pay[p].prov /\ pay'[p].key = pay[p].key
        /\ \A q \in Pid \ {p} : pay'[q] = pay[q]
        /\ pay' \in [Pid -> Books]
    BY DEF Inv, BooksOK, Books
  <1>2. BooksOK'
    BY <1>1 DEF Inv, BooksOK, StripeIsIdempotent, Charged
  <1>3. Grows
    BY <1>1 DEF Grows, Charged, HasRow
  <1>4. QED
    BY <1>1, <1>2, <1>3, SameRows DEF Charged

LEMMA CaptureKeeps ==
  ASSUME Inv, NEW w \in Web, NEW p \in Pid, Capture(w, p) PROVE Inv'
  <1> DEFINE k == [Idle EXCEPT !.step = "complete", !.pid = p]
  <1>1. BooksOK' /\ RowsOK' /\ Grows /\ Charged(p)'
    BY ChargeGrows DEF Capture, tables
  <1>2. k \in Jobs /\ k.step = "complete" /\ k.pid = p
    BY IdleKnows DEF Jobs, Idle
  <1>3. Knows(k)'
    BY <1>1, <1>2 DEF Knows, Capture, Grows
  <1>4. QED
    BY <1>1, <1>2, <1>3, StepKeeps DEF Capture, Begin, Continue

LEMMA RefundKeeps ==
  ASSUME Inv, NEW w \in Web, CallRefund(w) PROVE Inv'
  <1> PICK j \in Jobs : j = job[w]
    BY DEF Inv, SessionsOK
  <1>1. BooksOK' /\ Grows /\ RowsOK'
    BY SameBooks, SameRows DEF CallRefund, tables, HasRow
  <1>2. CASE End(w)
    BY <1>1, <1>2, EndKeeps
  <1>3. CASE Continue(w, [j EXCEPT !.step = "refunded"])
    <2> DEFINE k == [j EXCEPT !.step = "refunded"]
    <2>1. k \in Jobs /\ k.step = "refunded"
      BY DEF Jobs
    <2>2. Knows(k)'
      BY <2>1 DEF Knows
    <2>3. QED
      BY <1>1, <1>3, <2>1, <2>2, StepKeeps
  <1>4. QED
    BY <1>2, <1>3 DEF CallRefund

\* The requests that begin without a call of the provider.
LEMMA ViewsKeep ==
  ASSUME Inv, NEW w \in Web, CreateStripePayment(w) \/ CreatePayPalOrder(w)
                             \/ ConfirmCheckoutSession(w) \/ CreateRefund(w)
                             \/ \E p \in Pid : Webhook(w, p)
  PROVE  Inv'
  <1>1. ASSUME NEW k \in Key, NEW prov \in Providers, BeginOpen(w, prov, k) PROVE Inv'
    <2> DEFINE j == [Idle EXCEPT !.step = "open", !.prov = prov, !.key = k]
    <2>1. j \in Jobs /\ j.step = "open" /\ j.prov = prov /\ j.key = k
      BY IdleKnows DEF Jobs, Idle
    <2>2. Knows(j)
      BY <2>1 DEF Knows
    <2>3. QED
      BY <1>1, <2>1, <2>2, BeginKeeps DEF BeginOpen, books, tables
  <1>2. ASSUME NEW p \in Pid, BeginConfirm(w, p) PROVE Inv'
    <2> DEFINE j == [Idle EXCEPT !.step = "complete", !.pid = p]
    <2>1. j \in Jobs /\ j.step = "complete" /\ j.pid = p
      BY IdleKnows DEF Jobs, Idle
    <2>2. Knows(j)
      BY <1>2, <2>1 DEF Knows, BeginConfirm, Charged
    <2>3. QED
      BY <1>2, <2>1, <2>2, BeginKeeps DEF BeginConfirm, books, tables
  <1>3. ASSUME NEW p \in Pid, NEW r \in RefundKey, BeginRefund(w, p, r) PROVE Inv'
    <2> DEFINE j == [Idle EXCEPT !.step = "refund", !.pid = p, !.key = r]
    <2>1. j \in Jobs /\ j.step = "refund"
      BY IdleKnows DEF Jobs, Idle
    <2>2. Knows(j)
      BY <2>1 DEF Knows
    <2>3. QED
      BY <1>3, <2>1, <2>2, BeginKeeps DEF BeginRefund, books, tables
  <1>4. ASSUME NEW p \in Pid, Webhook(w, p) PROVE Inv'
    <2> DEFINE j == [Idle EXCEPT !.step = "reconcile", !.pid = p]
    <2>1. j \in Jobs /\ j.step = "reconcile" /\ j.pid = p
      BY IdleKnows DEF Jobs, Idle
    <2>2. Knows(j)
      BY <1>4, <2>1 DEF Knows, Webhook, Deliver, Inv, BooksOK
    <2>3. QED
      BY <1>4, <2>1, <2>2, BeginKeeps DEF Webhook, Deliver, books, tables
  <1>5. QED
    BY <1>1, <1>2, <1>3, <1>4
    DEF CreateStripePayment, CreatePayPalOrder, ConfirmCheckoutSession, CreateRefund, Providers

LEMMA InvStep == Inv /\ [Next]_vars => Inv'
  <1> SUFFICES ASSUME Inv, [Next]_vars PROVE Inv'
    OBVIOUS
  <1>1. ASSUME NEW w \in Web, CapturePayPalOrder(w) PROVE Inv'
    BY <1>1, CaptureKeeps DEF CapturePayPalOrder
  <1>2. ASSUME NEW w \in Web, FailOpen(w) \/ RecordRefund(w) \/ Crash(w) PROVE Inv'
    <2>1. BooksOK' /\ Grows /\ RowsOK'
      BY <1>2, SameBooks, SameRows DEF FailOpen, RecordRefund, Crash, books, tables, HasRow
    <2>2. QED
      BY <1>2, <2>1, EndKeeps DEF FailOpen, RecordRefund, Crash
  <1>3. ASSUME NEW w \in Web, Complete(w) PROVE Inv'
    <2>1. job[w].pid \in Pid /\ Charged(job[w].pid) /\ HasRow(job[w].pid)
      BY <1>3 DEF Inv, SessionsOK, Knows, Complete
    <2>2. QED
      BY <1>3, <2>1, CompletedKeeps DEF Complete, books
  <1>4. ASSUME NEW w \in Web, Step(w) PROVE Inv'
    BY <1>2, <1>3, <1>4, CallOpenKeeps, InsertRowKeeps, ReconcileKeeps, DropKeeps, RefundKeeps DEF Step
  <1>5. ASSUME NEW p \in Pid, Charge(p) PROVE Inv'
    <2>1. BooksOK' /\ RowsOK' /\ Grows
      BY <1>5, ChargeGrows DEF Charge, tables
    <2>2. QED
      BY <1>5, <2>1, OthersKeep DEF Charge
  <1>6. ASSUME NEW p \in Pid, FailRow(p) PROVE Inv'
    <2>1. RowsOK' /\ \A q \in Pid : HasRow(q) => HasRow(q)'
      BY <1>6, StatusKeeps DEF FailRow, books
    <2>2. BooksOK' /\ Grows
      BY <1>6, <2>1, SameBooks DEF FailRow, books
    <2>3. QED
      BY <1>6, <2>1, <2>2, OthersKeep DEF FailRow
  <1>7. CASE UNCHANGED vars
    <2>1. BooksOK' /\ Grows /\ RowsOK'
      BY <1>7, SameBooks, SameRows DEF vars, HasRow
    <2>2. QED
      BY <1>7, <2>1, OthersKeep DEF vars
  <1>8. QED
    BY <1>1, <1>2, <1>4, <1>5, <1>6, <1>7, ViewsKeep DEF Next

LEMMA InvCorrect == Spec => []Inv
  BY InvInit, InvStep, PTL DEF Spec
-----------------------------------------------------------------------------

\* The provider has the money of every payment recorded as succeeded, whoever
\* reported it (_complete_paid_transaction).
THEOREM SucceededHasMoney == Spec => []SucceededIsCharged
  <1>1. Inv => SucceededIsCharged
    BY DEF Inv, RowsOK
  <1>2. QED
    BY <1>1, InvCorrect, PTL

\* However often a request to open a Stripe payment is repeated, and wherever its
\* workers died, its idempotency key has one row.
THEOREM OneRowPerStripeKey == Spec => []OneStripeRowPerKey
  <1>1. Inv => OneStripeRowPerKey
    BY DEF Inv, BooksOK, RowsOK, StripeIsIdempotent, OpenedFor, OneStripeRowPerKey, OneRowPerKeyOf
  <1>2. QED
    BY <1>1, InvCorrect, PTL

-----------------------------------------------------------------------------
(* What ChargeRecorded rests on: nothing is dropped that was charged.      *)

\* A charge is of a payment we have a row of, and when Stripe made it, its
\* completion was committed or its success event is still to be answered.
NoneForgotten ==
  \A p \in Pid : Charged(p) => /\ HasRow(p)
                               /\ ChargedBy("stripe", p) => p \in done \/ p \in due

\* Who charges nothing, forgets no row and takes back neither completion nor
\* Stripe's event.
LEMMA NothingForgotten ==
  ASSUME Inv, NoneForgotten, Grows, done \subseteq done',
         \A p \in Pid : ChargedBy("stripe", p) /\ p \in due => p \in due' \cup done',
         \A p \in Pid : Charged(p)' => Charged(p)
  PROVE  NoneForgotten'
  <1> SUFFICES ASSUME NEW p \in Pid, Charged(p)'
               PROVE  /\ HasRow(p)'
                      /\ ChargedBy("stripe", p)' => p \in done' \cup due'
    BY DEF NoneForgotten
  <1>1. pay[p].prov \in Providers /\ pay'[p].prov = pay[p].prov
    BY DEF NoneForgotten, Inv, RowsOK, OpenedFor, Grows
  <1>2. QED
    BY <1>1 DEF NoneForgotten, Grows, ChargedBy, Charged

LEMMA StepGrows == Inv /\ [Next]_vars => Grows
  <1> SUFFICES ASSUME Inv, [Next]_vars, NEW p \in Pid
               PROVE  /\ pay[p].prov \in Providers => pay'[p].prov = pay[p].prov /\ pay'[p].key = pay[p].key
                      /\ Charged(p) => Charged(p)'
                      /\ HasRow(p) => HasRow(p)'
    BY DEF Grows
  <1>1. pay[p] \in Books /\ (pay[p] = NoPayment => pay[p].prov \notin Providers /\ ~Charged(p))
    BY DEF Inv, BooksOK, Charged, NoPayment, Providers
  <1>2. \/ pay'[p] = pay[p]
        \/ pay[p] = NoPayment
        \/ pay'[p] = [pay[p] EXCEPT !.state = "charged"]
    BY DEF Inv, BooksOK, Next, vars, books, tables, CreateStripePayment, CreatePayPalOrder,
           ConfirmCheckoutSession, CapturePayPalOrder, CreateRefund, Webhook, Step, BeginOpen,
           BeginConfirm, Capture, BeginRefund, Deliver, CallOpen, FailOpen, InsertRow, Complete,
           Reconcile, DropEvent, Raise, CallRefund, RecordRefund, Crash, Charge, FailRow
  <1>3. \/ row'[p] = row[p]
        \/ ~HasRow(p)
        \/ \E s \in {"succeeded", "failed"} : row'[p] = [row[p] EXCEPT !.status = s]
    BY DEF Inv, RowsOK, HasRow, Next, vars, books, tables, CreateStripePayment, CreatePayPalOrder,
           ConfirmCheckoutSession, CapturePayPalOrder, CreateRefund, Webhook, Step, BeginOpen,
           BeginConfirm, Capture, BeginRefund, Deliver, CallOpen, FailOpen, InsertRow, Complete,
           Completed, Reconcile, DropEvent, Raise, CallRefund, RecordRefund, Crash, Charge, FailRow
  <1>4. row[p] \in [key : Key \cup {None}, status : {"none", "pending", "succeeded", "failed"}]
    BY DEF Inv, RowsOK
  <1>5. /\ pay[p].prov \in Providers => pay'[p].prov = pay[p].prov /\ pay'[p].key = pay[p].key
        /\ Charged(p) => Charged(p)'
    BY <1>1, <1>2 DEF Charged, Books
  <1>6. HasRow(p) => HasRow(p)'
    BY <1>3, <1>4 DEF HasRow
  <1>7. QED
    BY <1>5, <1>6

LEMMA ForgottenStep == Inv /\ NoneForgotten /\ [Next]_vars => NoneForgotten'
  <1> SUFFICES ASSUME Inv, NoneForgotten, [Next]_vars PROVE NoneForgotten'
    OBVIOUS
  <1>1. Grows
    BY StepGrows
  <1>2. ASSUME UNCHANGED pay, done \subseteq done', due \subseteq due' PROVE NoneForgotten'
    BY <1>1, <1>2, NothingForgotten DEF Charged
  <1>3. ASSUME NEW q \in Pid, HasRow(q), pay' = [pay EXCEPT ![q].state = "charged"],
               due' = due \cup {q}, UNCHANGED done
        PROVE  NoneForgotten'
    <2> SUFFICES ASSUME NEW p \in Pid, Charged(p)'
                 PROVE  /\ HasRow(p)'
                        /\ ChargedBy("stripe", p)' => p \in done' \cup due'
      BY DEF NoneForgotten
    <2>1. CASE p = q
      BY <1>1, <1>3, <2>1 DEF Grows
    <2>2. CASE p # q
      <3>1. pay'[p] = pay[p]
        BY <1>3, <2>2 DEF Inv, BooksOK
      <3>2. QED
        BY <1>1, <1>3, <3>1 DEF Grows, NoneForgotten, Charged, ChargedBy
    <2>3. QED
      BY <2>1, <2>2
  <1>4. ASSUME NEW w \in Web, CallOpen(w) PROVE NoneForgotten'
    <2>1. PICK q \in Pid :
            pay' = IF pay[q] # NoPayment THEN pay
                   ELSE [pay EXCEPT ![q] =
                           [prov |-> job[w].prov, state |-> "open",
                            key |-> IF job[w].prov = "stripe" THEN job[w].key ELSE None]]
      BY <1>4 DEF CallOpen, Opened
    <2>2. \A p \in Pid : Charged(p)' => Charged(p)
      BY <2>1 DEF Charged, Inv, BooksOK
    <2>3. QED
      BY <1>1, <1>4, <2>2, NothingForgotten DEF CallOpen, tables
  <1>5. ASSUME NEW w \in Web, Reconcile(w) PROVE NoneForgotten'
    BY <1>1, <1>5, NothingForgotten DEF Reconcile, Completed, Charged
  <1>6. ASSUME NEW w \in Web, DropEvent(w) PROVE NoneForgotten'
    <2>1. ASSUME NEW p \in Pid, ChargedBy("stripe", p) PROVE p # job[w].pid
      BY <1>6, <2>1 DEF DropEvent, ChargedBy, NoneForgotten, Charged
    <2>2. QED
      BY <1>1, <1>6, <2>1, NothingForgotten DEF DropEvent, tables, Charged
  <1>7. ASSUME NEW w \in Web, Complete(w) PROVE NoneForgotten'
    BY <1>2, <1>7 DEF Complete, Completed, books
  <1>8. QED
    BY <1>2, <1>3, <1>4, <1>5, <1>6, <1>7
    DEF Next, vars, books, tables, CreateStripePayment, CreatePayPalOrder,
        ConfirmCheckoutSession, CapturePayPalOrder, CreateRefund, Webhook, Step, BeginOpen,
        BeginConfirm, Capture, BeginRefund, Deliver, FailOpen, InsertRow, Raise, CallRefund,
        RecordRefund, Crash, Charge, FailRow

\* No charge of Stripe's is ever without somebody to record it, though completions
\* raise and workers die: Stripe still repeats its event, or a completion was
\* committed.  An event that is answered and dropped, because there is no row for
\* it, is never the event of such a charge (reconcile_stripe_event).  PayPal's are
\* dropped for another reason: PayPalChargeRecorded.
THEOREM NoChargeIsForgotten == Spec => []NoneForgotten
  <1>1. Init => NoneForgotten
    BY DEF Init, NoneForgotten, Charged, NoPayment
  <1>2. QED
    BY <1>1, InvCorrect, ForgottenStep, PTL DEF Spec
=============================================================================
