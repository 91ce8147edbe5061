-------------------------- MODULE CheckoutInvariant --------------------------
(***************************************************************************)
(* The inductive invariants of Checkout.  Inv is behind RowOK,             *)
(* PaidImpliesCommitted, PaidForGood, ReleasedOnce and                     *)
(* NoReleaseAfterCommit: what each open transaction knows and which lock   *)
(* keeps it true.  CommitInv adds what CommitPerPayment and                *)
(* HeldUnlessReopened need, BalanceInv what LedgerBalance and the          *)
(* refinement of OrderStock need, ClimbInv what CheckoutsNeverDeadlock     *)
(* needs.  CheckoutProofs proves them for all constants; TLC checks        *)
(* BalanceInv, and Inv and CommitInv with it.                              *)
(***************************************************************************)
EXTENDS Checkout

\* A session works on an order except when it is idle or a sweep between two.
Focused ==
  \A w \in Worker :
    /\ job[w].op \in {"create", "complete", "staff"} => job[w].ord \in Order
    /\ job[w].step \in {"lines", "payments"} => job[w].ord \in Order

\* A session with job j holds every variant it moved something on, and sees a
\* sound row on each, so that its COMMIT leaves sound rows.
HoldsMoved(w, j) == \A v \in Variant : j.taken[v] > 0 => vlock[v] = w

SeesSound(w, j) == \A v \in Variant : Sound(Applied(j.op, row[v], j.taken[v]))

\* Only a checkout works on an order that is not there yet, and it is alone.
HasPlace(w, j) ==
  /\ j.op \in {"complete", "staff"} => Placed(j.ord)
  /\ j.op = "create" =>
       /\ ~Placed(j.ord)
       /\ j.done = {}
       /\ \A x \in Worker \ {w} : job[x].op = "create" => job[x].ord # j.ord

\* A sweep holds the orders it will expire, and they stay unpaid meanwhile.
HoldsBatch(w, j) == \A o \in j.batch : olock[o] = w /\ order[o].pay = "pending"

\* A first completion commits the lines itself or saw them committed; one that
\* is a repeat saw the order paid.
KnowsPaid(w, j) ==
  j.op = "complete" =>
    /\ j.done \subseteq {j.ord}
    /\ j.step = "lines" => j.ord \in j.done
    /\ j.step \in {"check", "lines"} => j.mode = "first"
    /\ j.step = "close" /\ j.mode = "first"
         => j.ord \in j.done \/ ledger[j.ord].com > 0
    /\ j.step \in {"save", "close"} /\ j.mode = "again" => order[j.ord].pay = "paid"

\* Whoever gives stock back holds the order, and its ledger is still open.
HoldsReleased(w, j) ==
  /\ j.op = "staff" /\ j.step # "save" => olock[j.ord] = w
  /\ j.op = "sweep" /\ j.step # "lock" => j.queue \subseteq j.batch
  /\ j.op \in {"staff", "sweep"} =>
       \A o \in j.done : olock[o] = w /\ ledger[o].com = 0 /\ ledger[o].rel = 0

Knows(w, j) ==
  /\ HoldsMoved(w, j) /\ SeesSound(w, j) /\ HasPlace(w, j)
  /\ HoldsBatch(w, j) /\ KnowsPaid(w, j) /\ HoldsReleased(w, j)

\* Every payment transaction is for an order that was placed.
TxnPlaced == \A t \in Txn : txn[t].of # None => Placed(txn[t].of)

\* The invariant: the shape of the state, what the committed rows promise, and
\* what every session may rely on until its COMMIT.
Inv ==
  /\ TypeOK /\ Focused
  /\ RowOK /\ TxnPlaced /\ PaidImpliesCommitted /\ ReleasedOnce
  /\ \A w \in Worker : Knows(w, job[w])

-----------------------------------------------------------------------------
(* What CommitPerPayment and HeldUnlessReopened need beyond Inv.           *)

\* A completion works on the order of its payment, holds the payment's row
\* from the moment it saved it, and only then decides to commit.
HoldsTxn(w, j) ==
  j.op = "complete" =>
    /\ j.txn \in Txn /\ txn[j.txn].of = j.ord
    /\ j.step \notin {"read", "save"} => tlock[j.txn] = w
    /\ j.step \in {"read", "save", "check"} => j.done = {}

\* Who gives stock back gives back that of the orders whose status it writes.
GivesUp(j) ==
  /\ j.op = "staff" => j.done \subseteq {j.ord}
  /\ j.op = "sweep" => j.done \subseteq j.batch

TxnsOf(o) == {t \in Txn : txn[t].of = o}

Committing(o) == {w \in Worker : job[w].op = "complete" /\ o \in job[w].done}

\* Behind every commit of an order, done or under way, is a payment of its own.
CommitsBacked ==
  \A o \in Order :
    /\ IsFiniteSet(Committing(o))
    /\ ledger[o].com + Cardinality(Committing(o)) <= Cardinality(TxnsOf(o))

\* An order that is not there yet has nothing in the ledger.
BooksOpen == \A o \in Order : ~Placed(o) => Held(o)

\* The second invariant: the commits, and what every
\* session knows of its payment and does with the orders it gives up.
CommitInv ==
  /\ Inv /\ CommitsBacked /\ BooksOpen
  /\ \A w \in Worker : HoldsTxn(w, job[w]) /\ GivesUp(job[w])

-----------------------------------------------------------------------------
(* What LedgerBalance and ImplementsOrderStock need beyond CommitInv.      *)

\* The quantity of v in the lines of all orders in S.
Quantity(S, v) == SumFunctionOnSet([o \in Order |-> Lines[o][v]], S)

\* The orders whose line of v a session with job j has worked off.
WorkedOff(j, v) == IF v \in j.todo THEN j.done \ {j.ord} ELSE j.done

\* A session has moved exactly the lines it has worked off, and it comes to
\* its COMMIT with no line left.
MovesLines(j) ==
  /\ j.step = "lines" => j.todo \subseteq Need(j.ord)
  /\ j.step # "lines" => j.todo = {}
  /\ j.op = "create" => \A v \in Variant : j.taken[v] = IF v \in j.todo THEN 0 ELSE Lines[j.ord][v]
  /\ j.op # "create" =>
       /\ \A v \in Variant : j.taken[v] = Quantity(WorkedOff(j, v), v)
       /\ j.step = "lines" => j.ord \in j.done
       /\ j.step \in {"idle", "read", "save", "check", "lock"} => j.done = {}
       /\ j.op = "sweep" => j.queue \cap j.done = {}

\* The third invariant: the ledger balances, whole orders at a time.
BalanceInv == CommitInv /\ LedgerBalance /\ \A w \in Worker : MovesLines(job[w])

-----------------------------------------------------------------------------
(* What CheckoutsNeverDeadlock needs.                                      *)

\* A checkout climbs: every variant it holds is below those it still wants,
\* and it starts with none.
Climbs(w, j) ==
  /\ j.op = "idle" => j.step = "idle" /\ \A v \in Variant : vlock[v] # w
  /\ j.op = "create" =>
       /\ j.step \in {"lines", "close"}
       /\ \A v \in Variant : vlock[v] = w => \A u \in j.todo : v < u

\* The fourth invariant: every checkout climbs.
ClimbInv == TypeOK /\ Focused /\ \A w \in Worker : Climbs(w, job[w])
=============================================================================
