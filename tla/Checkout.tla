------------------------------- MODULE Checkout -------------------------------
(***************************************************************************)
(* The life of an order's stock, from checkout to payment, cancellation or *)
(* expiry: apps/orders/services, apps/inventory/services and the           *)
(* completion half of apps/payments/services.                              *)
(*                                                                         *)
(* The processes are database sessions: the gunicorn workers (Web), which  *)
(* run checkout, payment completion and staff requests, and the Celery     *)
(* workers (Beat), which run the expiry sweep.  PostgreSQL runs them at    *)
(* READ COMMITTED, so a session sees the committed rows and its own        *)
(* writes, and blocks on a row another open transaction has locked.  The   *)
(* model keeps exactly that: `order', `row', `ledger' and `txn' are the    *)
(* COMMITTED rows, the lock tables say which session holds which row, and  *)
(* the writes of an open transaction wait in `job' until its last step.    *)
(* One action is one SQL statement, or several that no other session can   *)
(* tell apart from one.                                                    *)
(***************************************************************************)
EXTENDS Integers, FiniteSetsExt

CONSTANTS
  Order,         \* primary keys of the orders that may be placed
  Variant,       \* primary keys of the product variants
  Txn,           \* payment transactions that may be opened
  Web,           \* sessions of the web workers
  Beat,          \* sessions of the task workers
  None,          \* no session, no order, no transaction
  Lines,         \* Lines[o][v]: quantity of v in the cart that becomes order o
  InitialStock,  \* stock_quantity of each variant at the start
  StaffTargets   \* the statuses staff set by hand

Worker == Web \cup Beat

FulStatus == {"pending", "awaiting_payment", "paid", "processing", "shipped",
              "delivered", "cancelled", "partially_refunded", "refunded",
              "returned"}

ASSUME IdAssumption == Order \subseteq Nat /\ Variant \subseteq Nat
ASSUME WorkerAssumption == Web \cap Beat = {} /\ None \notin Worker
ASSUME NoneAssumption == None \notin Order /\ None \notin Txn
ASSUME TxnAssumption == IsFiniteSet(Txn)
ASSUME OrderAssumption == IsFiniteSet(Order)
ASSUME LinesAssumption == Lines \in [Order -> [Variant -> Nat]]
ASSUME StockAssumption == InitialStock \in [Variant -> Nat]
ASSUME TargetAssumption == StaffTargets \subseteq FulStatus

\* The variants order o takes from stock.  An order of an empty cart has none
\* and the stock functions do nothing for it; it is left out.
Need(o) == {v \in Variant : Lines[o][v] > 0}

ASSUME NeedAssumption == \A o \in Order : Need(o) # {}

VARIABLES
  order,   \* Order rows: payment_status, fulfillment_status and the
           \* to_status of the newest OrderStatusHistory row
  row,     \* ProductVariant rows: stock_quantity and reserved_quantity
  ledger,  \* InventoryAdjustment rows of each order: how many times its lines
           \* were written as "Committed stock" and "Released reserved stock"
  txn,     \* PaymentTransaction rows
  aged,    \* orders older than ORDER_PAYMENT_RESERVATION_MINUTES
  olock,   \* row locks on orders,
  vlock,   \* on variants,
  tlock,   \* and on payment transactions
  job      \* what each session is in the middle of

vars == <<order, row, ledger, txn, aged, olock, vlock, tlock, job>>
tables == <<order, row, ledger, txn, aged>>
locks == <<olock, vlock, tlock>>

-----------------------------------------------------------------------------
(* Rows and sessions. *)

NoOrder == [pay |-> "none", ful |-> "none", logged |-> "none"]

Idle == [op    |-> "idle",   \* the service function that is running
         step  |-> "idle",   \* its next statement
         ord   |-> None,     \* the order it works on
         txn   |-> None,     \* the payment transaction it completes
         mode  |-> "first",  \* what the completion decided from its reads
         to    |-> "none",   \* the status it will write to the history
         queue |-> {},       \* sweep: orders still to lock, then to release
         batch |-> {},       \* sweep: orders locked, to be expired
         done  |-> {},       \* orders whose lines it commits or releases
         todo  |-> {},       \* lines of `ord' still to process
         taken |-> [v \in Variant |-> 0]]  \* quantity it moved on each variant

Placed(o) == order[o].pay # "none"

\* payment_window_expired of _complete_paid_transaction.
WindowExpired(r) == \/ r.pay = "expired"
                    \/ r.ful = "cancelled" /\ r.pay # "paid"

\* The filter of get_expirable_unpaid_orders.
Expirable(o) == /\ order[o].ful = "awaiting_payment"
                /\ order[o].pay = "pending"
                /\ o \in aged

\* The lowest key of S, as a set.
First(S) == {x \in S : \A y \in S : x <= y}

\* A variant row after the transaction of an `op' moved n units of it.
Applied(op, r, n) ==
  CASE op = "create"   -> [r EXCEPT !.reserved = @ + n]
    [] op = "complete" -> [stock |-> r.stock - n, reserved |-> r.reserved - n]
    [] OTHER           -> [r EXCEPT !.reserved = @ - n]

\* The row as the transaction of w sees it.
Seen(w, v) == Applied(job[w].op, row[v], job[w].taken[v])

\* Faulty variant: the stock is looked at, not what is available of it.
CanReserve_Stock(r, q) == r.stock >= q
\* Faulty variant: only the stock is checked before it is committed.
CanCommit_Stock(r, q) == r.stock >= q

CanReserve(r, q) == r.stock - r.reserved >= q
CanCommit(r, q)  == r.reserved >= q /\ r.stock >= q
CanRelease(r, q) == r.reserved >= q

Enough(w, v) ==
  LET q == Lines[job[w].ord][v]
  IN  CASE job[w].op = "create"   -> CanReserve(Seen(w, v), q)
        [] job[w].op = "complete" -> CanCommit(Seen(w, v), q)
        [] OTHER                  -> CanRelease(Seen(w, v), q)

Unlocked(lock, w) == [x \in DOMAIN lock |-> IF lock[x] = w THEN None ELSE lock[x]]

\* The end of a transaction, either way: its locks go and its session is free.
EndTransaction(w) ==
  /\ olock' = Unlocked(olock, w)
  /\ vlock' = Unlocked(vlock, w)
  /\ tlock' = Unlocked(tlock, w)
  /\ job' = [job EXCEPT ![w] = Idle]

Rollback(w) == EndTransaction(w) /\ UNCHANGED tables

\* COMMIT of what the stock functions wrote: the variant rows and the ledger.
CommitStockWrites(w) ==
  /\ row' = [v \in Variant |-> Seen(w, v)]
  /\ ledger' = [o \in Order |->
       IF o \notin job[w].done THEN ledger[o]
       ELSE IF job[w].op = "complete" THEN [ledger[o] EXCEPT !.com = @ + 1]
                                      ELSE [ledger[o] EXCEPT !.rel = @ + 1]]

At(w, op, step) == job[w].op = op /\ job[w].step = step

Continue(w, j) == job' = [job EXCEPT ![w] = j]

Begin(w, j) == job[w].op = "idle" /\ Continue(w, j)

-----------------------------------------------------------------------------
(* Stock lines, the common part of the four transactions.                  *)

\* Faulty variant: the cart's lines are reserved unsorted.
NextLines_Unsorted(w) == job[w].todo

\* reserve_order_stock_from_cart sorts the variants; the lines of a commit or
\* a release come from a GROUP BY without an order.
NextLines(w) == IF job[w].op = "create" THEN First(job[w].todo) ELSE job[w].todo

\* How a commit or a release starts: with its early return, or its lines.
EitherLines(w, settled) ==
  LET o == job[w].ord
  IN  Continue(w, IF settled THEN [job[w] EXCEPT !.step = "close"]
                  ELSE [job[w] EXCEPT !.step = "lines", !.done = {o}, !.todo = Need(o)])

\* A session after line v; the last line ends the stock function.
Moved(j, v) == [j EXCEPT
  !.taken = [j.taken EXCEPT ![v] = @ + Lines[j.ord][v]],
  !.todo = j.todo \ {v},
  !.step = IF j.todo # {v} THEN "lines" ELSE IF j.op = "sweep" THEN "payments" ELSE "close"]

\* reserve_stock, commit_stock or release_reserved_stock on one line: SELECT
\* ... FOR UPDATE, the check, the update and the ledger row.
TakeLine(w) ==
  /\ job[w].step = "lines"
  /\ \E v \in NextLines(w) :
       /\ vlock[v] \in {None, w}
       /\ Enough(w, v)
       /\ vlock' = [vlock EXCEPT ![v] = w]
       /\ Continue(w, Moved(job[w], v))
  /\ UNCHANGED <<tables, olock, tlock>>

\* Faulty variant: without @transaction.atomic the lines before the failing
\* one stay moved.
LackLine_NotAtomic(w) ==
  /\ job[w].step = "lines"
  /\ \E v \in NextLines(w) : vlock[v] \in {None, w} /\ ~Enough(w, v)
  /\ row' = [v \in Variant |-> Seen(w, v)]
  /\ EndTransaction(w)
  /\ UNCHANGED <<order, ledger, txn, aged>>

\* InsufficientStockError on a line rolls the whole transaction back.
LackLine(w) ==
  /\ job[w].step = "lines"
  /\ \E v \in NextLines(w) : vlock[v] \in {None, w} /\ ~Enough(w, v)
  /\ Rollback(w)

-----------------------------------------------------------------------------
(* Checkout: create_order_from_cart.                                       *)

BeginCreate(w, o) ==
  /\ ~Placed(o)
  /\ \A x \in Worker : job[x].op = "create" => job[x].ord # o
  /\ Begin(w, [Idle EXCEPT !.op = "create", !.step = "lines", !.ord = o,
                           !.todo = Need(o)])
  /\ UNCHANGED <<tables, locks>>

FinishCreate(w) ==
  /\ At(w, "create", "close")
  /\ order' = [order EXCEPT ![job[w].ord] =
       [pay |-> "pending", ful |-> "awaiting_payment", logged |-> "awaiting_payment"]]
  /\ CommitStockWrites(w)
  /\ EndTransaction(w)
  /\ UNCHANGED <<txn, aged>>

\* The order becomes older than the reservation window.
Age(o) ==
  /\ Placed(o)
  /\ aged' = aged \cup {o}
  /\ UNCHANGED <<order, row, ledger, txn, locks, job>>

-----------------------------------------------------------------------------
(* Payments: opening, failing and completing a transaction.                *)

\* An insert or update elsewhere that refers to order o takes a key-share lock
\* on it, which only the FOR UPDATE lock of a sweep keeps waiting.
Referable(o) == olock[o] \notin Beat

\* create_stripe_payment_intent and its two siblings, whatever the state of
\* the order; a repeated idempotency key returns the row there is.
OpenTxn(t, o) ==
  /\ txn[t].of = None
  /\ Placed(o)
  /\ Referable(o)
  /\ txn' = [txn EXCEPT ![t] = [of |-> o, status |-> "pending"]]
  /\ UNCHANGED <<order, row, ledger, aged, locks, job>>

\* A failure event of the provider, with no look at the status it overwrites.
FailTxn(t) ==
  /\ txn[t].of # None
  /\ tlock[t] = None
  /\ txn' = [txn EXCEPT ![t] = [@ EXCEPT !.status = "failed"]]
  /\ UNCHANGED <<order, row, ledger, aged, locks, job>>

\* A success event, a confirmation or a capture loads the transaction.
BeginComplete(w, t) ==
  /\ txn[t].of # None
  /\ Begin(w, [Idle EXCEPT !.op = "complete", !.step = "read",
                           !.ord = txn[t].of, !.txn = t,
                           !.mode = IF txn[t].status = "succeeded"
                                    THEN "again" ELSE "first"])
  /\ UNCHANGED <<tables, locks>>

\* txn.order is loaded lazily, before anything is locked: first is the first
\* payment of an open order, again a repeat for a paid one, late a payment of
\* an expired order, and relate a repeat of that.
ReadOrder(w) ==
  /\ At(w, "complete", "read")
  /\ LET r == order[job[w].ord]
         again == job[w].mode = "again"
     IN  Continue(w, [job[w] EXCEPT
           !.step = "save",
           !.mode = IF WindowExpired(r) THEN IF again THEN "relate" ELSE "late"
                       ELSE IF again /\ r.pay = "paid" THEN "again" ELSE "first",
           !.to = IF WindowExpired(r) THEN r.ful ELSE "processing"])
  /\ UNCHANGED <<tables, locks>>

\* Faulty variant: the row is saved in a transaction of its own.
SaveTxn_NoLock(w) ==
  /\ At(w, "complete", "save")
  /\ Continue(w, [job[w] EXCEPT !.step = IF job[w].mode = "first" THEN "check" ELSE "close"])
  /\ UNCHANGED <<tables, locks>>

\* UPDATE of the transaction row, which holds its lock to the end.
SaveTxn(w) ==
  /\ At(w, "complete", "save")
  /\ tlock[job[w].txn] = None
  /\ tlock' = [tlock EXCEPT ![job[w].txn] = w]
  /\ Continue(w, [job[w] EXCEPT !.step = IF job[w].mode = "first" THEN "check" ELSE "close"])
  /\ UNCHANGED <<tables, olock, vlock>>

\* Faulty variant: it returns early on a release as well.
CheckCommitted_Released(w) ==
  /\ At(w, "complete", "check")
  /\ EitherLines(w, ledger[job[w].ord].com + ledger[job[w].ord].rel > 0)
  /\ UNCHANGED <<tables, locks>>

\* commit_reserved_stock_for_order returns early if the ledger has a commit.
CheckCommitted(w) ==
  /\ At(w, "complete", "check")
  /\ EitherLines(w, ledger[job[w].ord].com > 0)
  /\ UNCHANGED <<tables, locks>>

\* Faulty variant: the order gets the word the transaction uses.
Paid_Word(r, mode) == [r EXCEPT !.pay = "succeeded", !.ful = "processing"]

\* The order update of a completion: both statuses, whatever they are by now,
\* and a history row unless the payment is a repeat.
Paid(r, mode) ==
  CASE mode = "first" -> [pay |-> "paid", ful |-> "processing", logged |-> "processing"]
    [] mode = "again" -> [r EXCEPT !.pay = "paid", !.ful = "processing"]

\* The order that was read as expired is left alone; its history gets a row,
\* once.
FinishLate(w) ==
  /\ At(w, "complete", "close")
  /\ job[w].mode \in {"late", "relate"}
  /\ job[w].mode = "late" => Referable(job[w].ord)
  /\ txn' = [txn EXCEPT ![job[w].txn] = [@ EXCEPT !.status = "succeeded"]]
  /\ order' = IF job[w].mode = "relate" THEN order
              ELSE [order EXCEPT ![job[w].ord] = [@ EXCEPT !.logged = job[w].to]]
  /\ EndTransaction(w)
  /\ UNCHANGED <<row, ledger, aged>>

FinishComplete(w) ==
  /\ At(w, "complete", "close")
  /\ job[w].mode \in {"first", "again"}
  /\ olock[job[w].ord] = None
  /\ txn' = [txn EXCEPT ![job[w].txn] = [@ EXCEPT !.status = "succeeded"]]
  /\ order' = [order EXCEPT ![job[w].ord] = Paid(@, job[w].mode)]
  /\ CommitStockWrites(w)
  /\ EndTransaction(w)
  /\ UNCHANGED aged

-----------------------------------------------------------------------------
(* Staff: update_order_status.                                             *)

\* The view has loaded the order; its status decides whether this is a change.
BeginStaff(w, o, to) ==
  /\ Placed(o)
  /\ order[o].ful # to
  /\ Begin(w, [Idle EXCEPT !.op = "staff", !.step = "save", !.ord = o, !.to = to])
  /\ UNCHANGED <<tables, locks>>

\* Faulty variant: the stock is released before the order row is saved.
SaveStatus_Late(w) ==
  /\ At(w, "staff", "save")
  /\ olock[job[w].ord] = None
  /\ Continue(w, [job[w] EXCEPT !.step = IF job[w].to = "cancelled" THEN "check" ELSE "close"])
  /\ UNCHANGED <<tables, locks>>

SaveStatus(w) ==
  /\ At(w, "staff", "save")
  /\ olock[job[w].ord] = None
  /\ olock' = [olock EXCEPT ![job[w].ord] = w]
  /\ Continue(w, [job[w] EXCEPT !.step = IF job[w].to = "cancelled" THEN "check" ELSE "close"])
  /\ UNCHANGED <<tables, vlock, tlock>>

\* Faulty variant: the look for a commit is missing.
Settled_Released(o) == ledger[o].rel > 0

\* release_reserved_stock_for_order returns early on a commit or a release.
Settled(o) == ledger[o].com > 0 \/ ledger[o].rel > 0

CheckReleased(w) ==
  /\ At(w, "staff", "check")
  /\ EitherLines(w, Settled(job[w].ord))
  /\ UNCHANGED <<tables, locks>>

FinishStaff(w) ==
  /\ At(w, "staff", "close")
  /\ order' = [order EXCEPT ![job[w].ord] =
                  [@ EXCEPT !.ful = job[w].to, !.logged = job[w].to]]
  /\ CommitStockWrites(w)
  /\ EndTransaction(w)
  /\ UNCHANGED <<txn, aged>>

-----------------------------------------------------------------------------
(* The sweep: expire_unpaid_orders, one transaction for the whole batch.   *)

\* Keys grow with created_at, the order the sweep asks for.
BeginSweep(w) ==
  /\ \E o \in Order : Expirable(o)
  /\ Begin(w, [Idle EXCEPT !.op = "sweep", !.step = "lock",
                           !.queue = {o \in Order : Expirable(o)}])
  /\ UNCHANGED <<tables, locks>>

\* Faulty variant: the orders are filtered before, not after, the wait.
Locked_NoRetest(j, o) ==
  LET batch == j.batch \cup {o}
      last == j.queue = {o}
  IN  [j EXCEPT !.batch = batch,
                !.queue = IF last THEN batch ELSE @ \ {o},
                !.step = IF last THEN "next" ELSE "lock"]

\* A sweep after it locked order o, which it keeps if it still is expirable;
\* the last lock starts the loop over the batch.
Locked(j, o) ==
  LET batch == j.batch \cup (IF Expirable(o) THEN {o} ELSE {})
      last == j.queue = {o}
  IN  [j EXCEPT !.batch = batch,
                !.queue = IF last THEN batch ELSE @ \ {o},
                !.step = IF last THEN "next" ELSE "lock"]

\* SELECT ... FOR UPDATE waits for each row in turn and then tests it again.
LockOrder(w) ==
  /\ At(w, "sweep", "lock")
  /\ \E o \in First(job[w].queue) :
       /\ olock[o] = None
       /\ olock' = [olock EXCEPT ![o] = w]
       /\ Continue(w, Locked(job[w], o))
  /\ UNCHANGED <<tables, vlock, tlock>>

\* A sweep as it turns to order o of its batch.
Turned(j, o) ==
  IF Settled(o) THEN [j EXCEPT !.ord = o, !.queue = @ \ {o}, !.step = "payments"]
  ELSE [j EXCEPT !.ord = o, !.queue = @ \ {o}, !.step = "lines",
                 !.done = @ \cup {o}, !.todo = Need(o)]

NextOrder(w) ==
  /\ At(w, "sweep", "next")
  /\ \E o \in First(job[w].queue) :
       Continue(w, Turned(job[w], o))
  /\ UNCHANGED <<tables, locks>>

PendingOf(o) == {t \in Txn : txn[t].of = o /\ txn[t].status = "pending"}

\* UPDATE of the order's pending transactions.
FailPending(w) ==
  /\ At(w, "sweep", "payments")
  /\ LET P == PendingOf(job[w].ord)
     IN  /\ \A t \in P : tlock[t] = None
         /\ tlock' = [t \in Txn |-> IF t \in P THEN w ELSE tlock[t]]
  /\ Continue(w, [job[w] EXCEPT !.step = "next"])
  /\ UNCHANGED <<tables, olock, vlock>>

\* Faulty variant: update_fields names neither status.
FinishSweep_NoStatus(w) ==
  /\ At(w, "sweep", "next")
  /\ job[w].queue = {}
  /\ txn' = [t \in Txn |-> IF tlock[t] = w THEN [txn[t] EXCEPT !.status = "failed"]
                                           ELSE txn[t]]
  /\ CommitStockWrites(w)
  /\ EndTransaction(w)
  /\ UNCHANGED <<order, aged>>

FinishSweep(w) ==
  /\ At(w, "sweep", "next")
  /\ job[w].queue = {}
  /\ order' = [o \in Order |->
       IF o \in job[w].batch
       THEN [pay |-> "expired", ful |-> "cancelled", logged |-> "cancelled"]
       ELSE order[o]]
  /\ txn' = [t \in Txn |-> IF tlock[t] = w THEN [txn[t] EXCEPT !.status = "failed"]
                                           ELSE txn[t]]
  /\ CommitStockWrites(w)
  /\ EndTransaction(w)
  /\ UNCHANGED aged

-----------------------------------------------------------------------------
(* Failures: a killed worker, a dropped connection, a broken lock cycle.   *)

Abort(w) == job[w].op # "idle" /\ Rollback(w)

\* The sessions w cannot go on without.
BlockedBy(w) ==
  LET held(L) == L \ {None, w}
  IN  CASE job[w].step = "lines" ->
             IF \E v \in NextLines(w) : vlock[v] \in {None, w} THEN {}
             ELSE held({vlock[v] : v \in NextLines(w)})
        [] At(w, "complete", "save")  -> held({tlock[job[w].txn]})
        [] At(w, "complete", "close") ->
             CASE job[w].mode = "late"   -> held({olock[job[w].ord]}) \ Web
               [] job[w].mode = "relate" -> {}
               [] OTHER                  -> held({olock[job[w].ord]})
        [] At(w, "staff", "save")     -> held({olock[job[w].ord]})
        [] At(w, "sweep", "lock")     -> held({olock[o] : o \in First(job[w].queue)})
        [] At(w, "sweep", "payments") -> held({tlock[t] : t \in PendingOf(job[w].ord)})
        [] OTHER -> {}

\* A set of sessions none of which can go on before another of the set does.
Cycle(S) == S # {} /\ \A w \in S : BlockedBy(w) \cap S # {}

\* deadlock_timeout: PostgreSQL picks a victim of the cycle.
BreakCycle(w) == (\E S \in SUBSET Worker : w \in S /\ Cycle(S)) /\ Rollback(w)

-----------------------------------------------------------------------------

Init ==
  /\ order = [o \in Order |-> NoOrder]
  /\ row = [v \in Variant |-> [stock |-> InitialStock[v], reserved |-> 0]]
  /\ ledger = [o \in Order |-> [com |-> 0, rel |-> 0]]
  /\ txn = [t \in Txn |-> [of |-> None, status |-> "pending"]]
  /\ aged = {}
  /\ olock = [o \in Order |-> None]
  /\ vlock = [v \in Variant |-> None]
  /\ tlock = [t \in Txn |-> None]
  /\ job = [w \in Worker |-> Idle]

Request(w) ==
  \/ \E o \in Order : BeginCreate(w, o)
  \/ \E t \in Txn : BeginComplete(w, t)
  \/ \E o \in Order, to \in StaffTargets : BeginStaff(w, o, to)

\* The next statement of a running transaction.
Statement(w) ==
  \/ TakeLine(w) \/ LackLine(w)
  \/ FinishCreate(w)
  \/ ReadOrder(w) \/ SaveTxn(w) \/ CheckCommitted(w)
  \/ FinishLate(w) \/ FinishComplete(w)
  \/ SaveStatus(w) \/ CheckReleased(w) \/ FinishStaff(w)
  \/ LockOrder(w) \/ NextOrder(w) \/ FailPending(w) \/ FinishSweep(w)

\* Everything but failures.
Work ==
  \/ \E w \in Web : Request(w)
  \/ \E w \in Beat : BeginSweep(w)
  \/ \E w \in Worker : Statement(w)
  \/ \E o \in Order : Age(o)
  \/ \E t \in Txn, o \in Order : OpenTxn(t, o)
  \/ \E t \in Txn : FailTxn(t)

Failure(w) == Abort(w) \/ BreakCycle(w)

Next == Work \/ \E w \in Worker : Failure(w)

Spec == Init /\ [][Next]_vars

-----------------------------------------------------------------------------
(* Properties.                                                             *)

Ops == {"idle", "create", "complete", "staff", "sweep"}
Steps == {"idle", "lines", "read", "save", "check", "lock", "next", "payments", "close"}
Modes == {"first", "again", "late", "relate"}

Job == [op : Ops, step : Steps, ord : Order \cup {None}, txn : Txn \cup {None},
        mode : Modes, to : FulStatus \cup {"none"},
        queue : SUBSET Order, batch : SUBSET Order, done : SUBSET Order,
        todo : SUBSET Variant, taken : [Variant -> Nat]]

OrderRow == [pay : {"none", "pending", "paid", "expired"},
             ful : FulStatus \cup {"none"}, logged : FulStatus \cup {"none"}]

\* Every table, lock and session has the shape the code gives it; the
\* quantities of a variant are only integers here, RowOK bounds them.
TypeOK ==
  /\ order \in [Order -> OrderRow]
  /\ row \in [Variant -> [stock : Int, reserved : Int]]
  /\ ledger \in [Order -> [com : Nat, rel : Nat]]
  /\ txn \in [Txn -> [of : Order \cup {None}, status : {"pending", "succeeded", "failed"}]]
  /\ aged \subseteq Order
  /\ olock \in [Order -> Worker \cup {None}]
  /\ vlock \in [Variant -> Worker \cup {None}]
  /\ tlock \in [Txn -> Worker \cup {None}]
  /\ job \in [Worker -> Job]

\* No interleaving of checkouts, payments, cancellations and sweeps drives a
\* variant's reserved quantity below zero or above its stock: the checks of
\* inventory_service hold until the COMMIT that relies on them.
Sound(r) == r.stock \in Nat /\ r.reserved \in Nat /\ r.reserved <= r.stock

RowOK == \A v \in Variant : Sound(row[v])

\* What the ledger says of an order's line: what was reserved and neither
\* committed nor released, and what was committed.
Outstanding(o, v) ==
  IF Placed(o) THEN Lines[o][v] * (1 - ledger[o].com - ledger[o].rel) ELSE 0

Sold(o, v) == Lines[o][v] * ledger[o].com

\* The adjustment rows account for every unit: what a variant has reserved is
\* what the ledger says is outstanding, and what left its stock is what was sold.
LedgerBalance ==
  \A v \in Variant :
    /\ row[v].reserved = SumFunctionOnSet([o \in Order |-> Outstanding(o, v)], Order)
    /\ row[v].stock = InitialStock[v] - SumFunctionOnSet([o \in Order |-> Sold(o, v)], Order)

\* An order is paid only after its stock was committed, also when the payment
\* is reported twice, late, or together with another payment of the order.
PaidImpliesCommitted ==
  \A o \in Order : order[o].pay = "paid" => ledger[o].com > 0

\* Once paid, an order is never expired or pending again: the sweep tests the
\* order again after it has the lock.
PaidForGood ==
  [][\A o \in Order : order[o].pay = "paid" => order'[o].pay = "paid"]_vars

\* A reservation is given back at most once, whatever staff cancellations and
\* sweeps overlap: each holds the order's row when it looks at the ledger.
ReleasedOnce == \A o \in Order : ledger[o].rel <= 1

\* Stock that was committed is not given back afterwards.
NoReleaseAfterCommit ==
  [][\A o \in Order : ledger'[o].rel > ledger[o].rel => ledger[o].com = 0]_vars

\* However often a success is delivered, a payment transaction commits the
\* order's stock at most once: deliveries queue up on the transaction's row
\* before they look at the ledger.
CommitPerPayment ==
  \A o \in Order : ledger[o].com <= Cardinality({t \in Txn : txn[t].of = o})

Awaits(o) == order[o].ful = "awaiting_payment" /\ order[o].pay = "pending"
Held(o) == ledger[o].com = 0 /\ ledger[o].rel = 0

StaffReopens(o) ==
  \E w \in Worker : FinishStaff(w) /\ job[w].ord = o /\ job[w].to = "awaiting_payment"

\* No step of a payment, a sweep or a cancellation leaves an order that awaits its
\* payment without its stock on reserve, or brings such an order about: only staff
\* do, who set an order back to awaiting_payment (update_order_status takes any
\* status and reserves nothing).
HeldUnlessReopened ==
  [][\A o \in Order : (Awaits(o) /\ ~Held(o))' => (Awaits(o) /\ ~Held(o)) \/ StaffReopens(o)]_vars

\* Checkouts of overlapping carts never wait on each other in a circle: all of
\* them lock the variants in the order of their keys.
CheckoutsNeverDeadlock ==
  \A S \in SUBSET {w \in Worker : job[w].op = "create"} : ~Cycle(S)

-----------------------------------------------------------------------------
(* What the docs lead one to expect and the code does not keep: see README. *)

\* A payment that arrives after an order gave its stock back does not commit
\* stock (apps/core/tests/test_e2e_flows.py, the late payment webhook test).
LateNeverCommits ==
  [][\A o \in Order : ledger'[o].com > ledger[o].com => ledger[o].rel = 0]_vars

\* An order that awaits its payment has its stock on reserve
\* (README.md: the sweep releases "their reserved stock").
AwaitingHeld == \A o \in Order : Awaits(o) => Held(o)

\* However many payments an order got, its stock is committed once
\* (commit_reserved_stock_for_order returns if there is a commit).
CommittedOnce == \A o \in Order : ledger[o].com <= 1

\* The newest row of an order's status history is the status it has.
TimelineComplete == \A o \in Order : order[o].logged = order[o].ful

===============================================================================
