--------------------------- MODULE CheckoutProofs ---------------------------
(***************************************************************************)
(* Theorems about Checkout for any finite set of orders and payments and   *)
(* any variants and sessions: type correctness, the invariant Inv of       *)
(* CheckoutInvariant and the safety properties it gives, then CommitInv,   *)
(* built on Inv, and what it says of commits and reservations, then        *)
(* BalanceInv, built on CommitInv, the balance of the ledger and the       *)
(* refinement of OrderStock, and then ClimbInv and the circles of          *)
(* checkouts it rules out.                                                 *)
(*                                                                         *)
(* A session's step changes either its own job and locks (lemmas           *)
(* SessionStep, CommitSession and MovesSession) or, at a COMMIT, the       *)
(* tables (lemmas EndStep, CommitEnd, BooksCommit and BooksCreate), after  *)
(* which it is idle; the locks keep true what the others know.             *)
(***************************************************************************)
EXTENDS CheckoutInvariant, CheckoutRefinement, Sums, WellFoundedInduction

Assumptions == /\ Order \subseteq Nat /\ Variant \subseteq Nat
               /\ Web \cap Beat = {} /\ None \notin Worker
               /\ None \notin Order /\ None \notin Txn
               /\ Lines \in [Order -> [Variant -> Nat]]
               /\ InitialStock \in [Variant -> Nat]
               /\ StaffTargets \subseteq FulStatus

TypeInv == TypeOK /\ Focused

LEMMA ConstantFacts == Assumptions
  BY IdAssumption, WorkerAssumption, NoneAssumption, LinesAssumption,
     StockAssumption, TargetAssumption DEF Assumptions

LEMMA IdleType == Idle \in Job
  BY DEF Idle, Job, Ops, Steps, Modes

\* A variant row stays a pair of integers whatever is moved on it.
LEMMA AppliedType ==
  ASSUME NEW op, NEW r \in [stock : Int, reserved : Int], NEW n \in Nat
  PROVE  Applied(op, r, n) \in [stock : Int, reserved : Int]
  BY DEF Applied

LEMMA CommitType ==
  ASSUME TypeInv, NEW w \in Worker, CommitStockWrites(w)
  PROVE  /\ row' \in [Variant -> [stock : Int, reserved : Int]]
         /\ ledger' \in [Order -> [com : Nat, rel : Nat]]
  <1>1. ASSUME NEW v \in Variant PROVE Seen(w, v) \in [stock : Int, reserved : Int]
    <2>1. job[w].taken[v] \in Nat /\ row[v] \in [stock : Int, reserved : Int]
      BY DEF TypeInv, TypeOK, Job
    <2>2. QED
      BY <2>1, AppliedType DEF Seen
  <1>2. row' \in [Variant -> [stock : Int, reserved : Int]]
    BY <1>1 DEF CommitStockWrites
  <1>3. ledger' \in [Order -> [com : Nat, rel : Nat]]
    BY DEF CommitStockWrites, TypeInv, TypeOK
  <1>4. QED
    BY <1>2, <1>3

\* The locks and the session a transaction leaves behind.
LEMMA EndType ==
  ASSUME TypeInv, NEW w \in Worker, EndTransaction(w)
  PROVE  /\ olock' \in [Order -> Worker \cup {None}]
         /\ vlock' \in [Variant -> Worker \cup {None}]
         /\ tlock' \in [Txn -> Worker \cup {None}]
         /\ job' \in [Worker -> Job]
         /\ Focused'
  <1>1. /\ olock' \in [Order -> Worker \cup {None}]
        /\ vlock' \in [Variant -> Worker \cup {None}]
        /\ tlock' \in [Txn -> Worker \cup {None}]
    BY DEF EndTransaction, Unlocked, TypeInv, TypeOK
  <1>2. job' \in [Worker -> Job]
    BY IdleType DEF EndTransaction, TypeInv, TypeOK
  <1>3. Focused'
    BY DEF EndTransaction, TypeInv, TypeOK, Focused, Idle
  <1>4. QED
    BY <1>1, <1>2, <1>3

-----------------------------------------------------------------------------
(* Type correctness. *)

LEMMA TypeInit == Init => TypeInv
  <1> SUFFICES ASSUME Init PROVE TypeInv
    OBVIOUS
  <1>2. InitialStock \in [Variant -> Nat]
    BY ConstantFacts DEF Assumptions
  <1>3. job \in [Worker -> Job]
    BY IdleType DEF Init
  <1>4. TypeOK
    BY <1>2, <1>3 DEF Init, TypeOK, OrderRow, NoOrder
  <1>5. Focused
    BY DEF Init, Focused, Idle
  <1>6. QED
    BY <1>4, <1>5 DEF TypeInv

LEMMA ContinueType ==
  ASSUME TypeInv, NEW w \in Worker, NEW j \in Job, Continue(w, j),
         j.op \in {"create", "complete", "staff"} \/ j.step \in {"lines", "payments"}
           => j.ord \in Order
  PROVE  job' \in [Worker -> Job] /\ Focused'
  <1>1. job' \in [Worker -> Job]
    BY DEF Continue, TypeInv, TypeOK
  <1>2. Focused'
    BY DEF Continue, TypeInv, TypeOK, Focused
  <1>3. QED
    BY <1>1, <1>2

\* The start of a transaction: everything but the session stays.
LEMMA BeginType ==
  ASSUME TypeInv, NEW w \in Worker, NEW j \in Job, Begin(w, j),
         UNCHANGED <<tables, locks>>,
         j.op \in {"create", "complete", "staff"} \/ j.step \in {"lines", "payments"}
           => j.ord \in Order
  PROVE  TypeInv'
  <1>1. job' \in [Worker -> Job] /\ Focused'
    BY ContinueType DEF Begin
  <1>2. QED
    BY <1>1 DEF TypeInv, TypeOK, tables, locks

LEMMA TypeRequest ==
  ASSUME TypeInv, NEW w \in Web, Request(w)
  PROVE  TypeInv'
  <1> USE ConstantFacts DEF Assumptions, Worker
  <1>1. ASSUME NEW o \in Order, BeginCreate(w, o)
        PROVE  TypeInv'
    <2> DEFINE j == [Idle EXCEPT !.op = "create", !.step = "lines", !.ord = o,
                                 !.todo = Need(o)]
    <2>1. j \in Job
      BY DEF Idle, Job, Ops, Steps, Modes, Need
    <2>2. j.ord \in Order /\ j.step # "payments"
      BY DEF Idle
    <2>3. Begin(w, j) /\ UNCHANGED <<tables, locks>>
      BY <1>1 DEF BeginCreate
    <2> HIDE DEF j
    <2>4. QED
      BY <2>1, <2>2, <2>3, BeginType
  <1>2. ASSUME NEW t \in Txn, BeginComplete(w, t)
        PROVE  TypeInv'
    <2> DEFINE j == [Idle EXCEPT !.op = "complete", !.step = "read",
                           !.ord = txn[t].of, !.txn = t,
                           !.mode = IF txn[t].status = "succeeded"
                                    THEN "again" ELSE "first"]
    <2>1. txn[t].of \in Order
      BY <1>2 DEF BeginComplete, TypeInv, TypeOK
    <2>2. j \in Job
      BY <2>1 DEF Idle, Job, Ops, Steps, Modes
    <2>3. j.ord \in Order /\ j.step # "payments"
      BY <2>1 DEF Idle
    <2>4. Begin(w, j) /\ UNCHANGED <<tables, locks>>
      BY <1>2 DEF BeginComplete
    <2> HIDE DEF j
    <2>5. QED
      BY <2>2, <2>3, <2>4, BeginType
  <1>3. ASSUME NEW o \in Order, NEW to \in StaffTargets, BeginStaff(w, o, to)
        PROVE  TypeInv'
    <2> DEFINE j == [Idle EXCEPT !.op = "staff", !.step = "save", !.ord = o, !.to = to]
    <2>1. j \in Job
      BY DEF Idle, Job, Ops, Steps, Modes
    <2>2. j.ord \in Order /\ j.step # "payments"
      BY DEF Idle
    <2>3. Begin(w, j) /\ UNCHANGED <<tables, locks>>
      BY <1>3 DEF BeginStaff
    <2> HIDE DEF j
    <2>4. QED
      BY <2>1, <2>2, <2>3, BeginType
  <1>4. QED
    BY <1>1, <1>2, <1>3 DEF Request

LEMMA LinesType ==
  ASSUME TypeInv, NEW w \in Worker, NEW settled, EitherLines(w, settled),
         job[w].ord \in Order
  PROVE  job' \in [Worker -> Job] /\ Focused'
  <1> DEFINE j == IF settled THEN [job[w] EXCEPT !.step = "close"]
                  ELSE [job[w] EXCEPT !.step = "lines", !.done = {job[w].ord},
                                      !.todo = Need(job[w].ord)]
  <1>1. job[w] \in Job
    BY DEF TypeInv, TypeOK
  <1>2. j \in Job /\ j.ord \in Order
    BY <1>1 DEF Job, Steps, Need
  <1>3. Continue(w, j)
    BY DEF EitherLines
  <1> HIDE DEF j
  <1>4. QED
    BY <1>2, <1>3, ContinueType

LEMMA TypeRollback ==
  ASSUME TypeInv, NEW w \in Worker, Rollback(w)
  PROVE  TypeInv'
  BY EndType DEF Rollback, TypeInv, TypeOK, tables

\* The statements that write nothing but their session and a lock.
LEMMA TypeStatement ==
  ASSUME TypeInv, NEW w \in Worker,
         \/ TakeLine(w) \/ ReadOrder(w) \/ SaveTxn(w) \/ CheckCommitted(w)
         \/ SaveStatus(w) \/ CheckReleased(w)
         \/ LockOrder(w) \/ NextOrder(w) \/ FailPending(w)
  PROVE  TypeInv'
  <1> USE DEF TypeInv
  <1>0. /\ job[w] \in Job
        /\ job[w].op \in {"create", "complete", "staff"} => job[w].ord \in Order
        /\ job[w].step \in {"lines", "payments"} => job[w].ord \in Order
    BY DEF Focused, TypeOK
  <1>1. CASE TakeLine(w)
    <2>1. PICK v \in NextLines(w) :
            /\ vlock' = [vlock EXCEPT ![v] = w]
            /\ Continue(w, Moved(job[w], v))
      BY <1>1 DEF TakeLine
    <2>2. v \in Variant /\ Lines[job[w].ord][v] \in Nat /\ job[w].ord \in Order
      <3>1. v \in job[w].todo
        BY DEF NextLines, First
      <3>2. job[w].ord \in Order
        BY <1>0, <1>1 DEF TakeLine
      <3>3. QED
        <4>1. v \in Variant
          BY <1>0, <3>1 DEF Job
        <4>2. QED
          BY <3>2, <4>1, ConstantFacts DEF Assumptions
    <2>3. Moved(job[w], v) \in Job /\ Moved(job[w], v).ord \in Order
      <3> DEFINE moved == [job[w].taken EXCEPT ![v] = @ + Lines[job[w].ord][v]]
      <3>1. moved \in [Variant -> Nat]
        BY <1>0, <2>2 DEF Job
      <3>2. Moved(job[w], v) = [job[w] EXCEPT
              !.taken = moved,
              !.todo = job[w].todo \ {v},
              !.step = IF job[w].todo # {v} THEN "lines"
                       ELSE IF job[w].op = "sweep" THEN "payments" ELSE "close"]
        BY DEF Moved
      <3> HIDE DEF moved
      <3>3. QED
        BY <1>0, <2>2, <3>1, <3>2 DEF Job, Steps
    <2>4. job' \in [Worker -> Job] /\ Focused'
      BY <2>1, <2>3, ContinueType
    <2>5. QED
      BY <1>1, <2>1, <2>4 DEF TakeLine, TypeOK, tables
  <1>2. CASE ReadOrder(w)
    <2>1. order[job[w].ord] \in OrderRow /\ job[w].ord \in Order
      BY <1>0, <1>2 DEF ReadOrder, At, TypeOK
    <2> DEFINE r == order[job[w].ord]
               again == job[w].mode = "again"
               j == [job[w] EXCEPT
           !.step = "save",
           !.mode = IF WindowExpired(r) THEN IF again THEN "relate" ELSE "late"
                    ELSE IF again /\ r.pay = "paid" THEN "again" ELSE "first",
           !.to = IF WindowExpired(r) THEN r.ful ELSE "processing"]
    <2>2. j \in Job /\ j.ord \in Order
      <3> DEFINE mode == IF WindowExpired(r) THEN IF again THEN "relate" ELSE "late"
                         ELSE IF again /\ r.pay = "paid" THEN "again" ELSE "first"
                 to == IF WindowExpired(r) THEN r.ful ELSE "processing"
      <3>1. mode \in Modes
        BY DEF Modes
      <3>2. to \in FulStatus \cup {"none"}
        BY <2>1 DEF OrderRow, FulStatus
      <3> HIDE DEF mode, to
      <3>3. [job[w] EXCEPT !.step = "save", !.mode = mode, !.to = to] \in Job
        BY <1>0, <3>1, <3>2 DEF Job, Steps
      <3>4. QED
        BY <1>0, <2>1, <3>3 DEF mode, to, Job
    <2>3. Continue(w, j)
      BY <1>2 DEF ReadOrder
    <2> HIDE DEF j
    <2>4. job' \in [Worker -> Job] /\ Focused'
      BY <2>2, <2>3, ContinueType
    <2>5. QED
      BY <1>2, <2>4 DEF ReadOrder, TypeOK, tables, locks
  <1>3. CASE SaveTxn(w)
    <2> DEFINE j == [job[w] EXCEPT !.step = IF job[w].mode = "first" THEN "check" ELSE "close"]
    <2>1. j \in Job /\ j.ord \in Order
      BY <1>0, <1>3 DEF SaveTxn, At, Job, Steps
    <2>2. Continue(w, j)
      BY <1>3 DEF SaveTxn
    <2> HIDE DEF j
    <2>3. job' \in [Worker -> Job] /\ Focused'
      BY <2>1, <2>2, ContinueType
    <2>4. QED
      BY <1>3, <2>3 DEF SaveTxn, TypeOK, tables
  <1>4. CASE CheckCommitted(w)
    <2>1. EitherLines(w, ledger[job[w].ord].com > 0) /\ job[w].ord \in Order
      BY <1>0, <1>4 DEF CheckCommitted, At
    <2>2. QED
      BY <1>0, <1>4, <2>1, LinesType DEF CheckCommitted, TypeOK, tables, locks
  <1>5. CASE SaveStatus(w)
    <2> DEFINE j == [job[w] EXCEPT !.step = IF job[w].to = "cancelled" THEN "check" ELSE "close"]
    <2>1. j \in Job /\ j.ord \in Order
      BY <1>0, <1>5 DEF SaveStatus, At, Job, Steps
    <2>2. Continue(w, j)
      BY <1>5 DEF SaveStatus
    <2> HIDE DEF j
    <2>3. job' \in [Worker -> Job] /\ Focused'
      BY <2>1, <2>2, ContinueType
    <2>4. QED
      BY <1>5, <2>3 DEF SaveStatus, TypeOK, tables
  <1>6. CASE CheckReleased(w)
    <2>1. EitherLines(w, Settled(job[w].ord)) /\ job[w].ord \in Order
      BY <1>0, <1>6 DEF CheckReleased, At
    <2>2. QED
      BY <1>0, <1>6, <2>1, LinesType DEF CheckReleased, TypeOK, tables, locks
  <1>7. CASE LockOrder(w)
    <2>1. PICK o \in First(job[w].queue) : olock' = [olock EXCEPT ![o] = w] /\ Continue(w, Locked(job[w], o))
      BY <1>7 DEF LockOrder
    <2>2. o \in Order
      BY <1>0 DEF First, Job
    <2>3. /\ Locked(job[w], o) \in Job
          /\ Locked(job[w], o).op = "sweep"
          /\ Locked(job[w], o).step \in {"lock", "next"}
      BY <1>0, <1>7, <2>2 DEF LockOrder, At, Locked, Job, Steps
    <2>4. job' \in [Worker -> Job] /\ Focused'
      BY <2>1, <2>3, ContinueType
    <2>5. QED
      BY <1>7, <2>1, <2>4 DEF LockOrder, TypeOK, tables
  <1>8. CASE NextOrder(w)
    <2>1. PICK o \in First(job[w].queue) : Continue(w, Turned(job[w], o))
      BY <1>8 DEF NextOrder
    <2>2. o \in Order
      BY <1>0 DEF First, Job
    <2>3. Turned(job[w], o) \in Job /\ Turned(job[w], o).ord \in Order
      BY <1>0, <2>2 DEF Turned, Job, Steps, Need
    <2>4. job' \in [Worker -> Job] /\ Focused'
      BY <2>1, <2>3, ContinueType
    <2>5. QED
      BY <1>8, <2>4 DEF NextOrder, TypeOK, tables, locks
  <1>9. CASE FailPending(w)
    <2> DEFINE j == [job[w] EXCEPT !.step = "next"]
    <2>1. j \in Job /\ j.ord \in Order
      BY <1>0, <1>9 DEF FailPending, At, Job, Steps
    <2>2. Continue(w, j)
      BY <1>9 DEF FailPending
    <2> HIDE DEF j
    <2>3. job' \in [Worker -> Job] /\ Focused'
      BY <2>1, <2>2, ContinueType
    <2>4. QED
      BY <1>9, <2>3 DEF FailPending, TypeOK, tables
  <1>10. QED
    BY <1>1, <1>2, <1>3, <1>4, <1>5, <1>6, <1>7, <1>8, <1>9

\* The statements that commit.
LEMMA TypeCommit ==
  ASSUME TypeInv, NEW w \in Worker,
         \/ FinishCreate(w) \/ FinishLate(w) \/ FinishComplete(w)
         \/ FinishStaff(w) \/ FinishSweep(w)
  PROVE  TypeInv'
  <1> USE DEF TypeInv, TypeOK
  <1>0. job[w] \in Job
    OBVIOUS
  <1>1. CASE FinishCreate(w)
    <2>1. order' \in [Order -> OrderRow]
      BY <1>1 DEF FinishCreate, OrderRow, FulStatus
    <2>2. QED
      BY <1>1, <2>1, CommitType, EndType DEF FinishCreate
  <1>2. CASE FinishLate(w)
    <2>1. order' \in [Order -> OrderRow]
      <3>1. job[w].to \in FulStatus \cup {"none"}
        BY <1>0 DEF Job
      <3>2. QED
        BY <1>2, <3>1 DEF FinishLate, OrderRow
    <2>2. QED
      BY <1>2, <2>1, EndType DEF FinishLate
  <1>3. CASE FinishComplete(w)
    <2>1. ASSUME NEW r \in OrderRow PROVE Paid(r, job[w].mode) \in OrderRow
      BY <1>3 DEF FinishComplete, Paid, OrderRow, FulStatus
    <2>2. order' \in [Order -> OrderRow]
      BY <1>3, <2>1 DEF FinishComplete
    <2>3. QED
      <3>1. /\ txn' \in [Txn -> [of : Order \cup {None}, status : {"pending", "succeeded", "failed"}]]
            /\ aged' \subseteq Order
        BY <1>3 DEF FinishComplete
      <3>2. CommitStockWrites(w) /\ EndTransaction(w)
        BY <1>3 DEF FinishComplete
      <3>3. QED
        BY <2>2, <3>1, <3>2, CommitType, EndType
  <1>4. CASE FinishStaff(w)
    <2>1. order' \in [Order -> OrderRow]
      <3>1. job[w].to \in FulStatus \cup {"none"}
        BY <1>0 DEF Job
      <3>2. QED
        BY <1>4, <3>1 DEF FinishStaff, OrderRow
    <2>2. QED
      BY <1>4, <2>1, CommitType, EndType DEF FinishStaff
  <1>5. CASE FinishSweep(w)
    <2>1. order' \in [Order -> OrderRow]
      BY <1>5 DEF FinishSweep, OrderRow, FulStatus
    <2>2. QED
      BY <1>5, <2>1, CommitType, EndType DEF FinishSweep
  <1>6. QED
    BY <1>1, <1>2, <1>3, <1>4, <1>5

LEMMA TypeNext ==
  ASSUME TypeInv, [Next]_vars
  PROVE  TypeInv'
  <1>1. ASSUME NEW w \in Web, Request(w) PROVE TypeInv'
    BY <1>1, TypeRequest
  <1>2. ASSUME NEW w \in Beat, BeginSweep(w) PROVE TypeInv'
    <2> DEFINE j == [Idle EXCEPT !.op = "sweep", !.step = "lock",
                                 !.queue = {o \in Order : Expirable(o)}]
    <2>1. j \in Job
      BY ConstantFacts DEF Idle, Job, Ops, Steps, Modes
    <2>2. j.op = "sweep" /\ j.step = "lock"
      BY DEF Idle
    <2>3. Begin(w, j) /\ UNCHANGED <<tables, locks>> /\ w \in Worker
      BY <1>2 DEF BeginSweep, Worker
    <2> HIDE DEF j
    <2>4. QED
      BY <2>1, <2>2, <2>3, BeginType
  <1>3. ASSUME NEW w \in Worker, Statement(w) PROVE TypeInv'
    <2>1. CASE LackLine(w)
      BY <2>1, TypeRollback DEF LackLine
    <2>2. QED
      BY <1>3, <2>1, TypeStatement, TypeCommit DEF Statement
  <1>4. ASSUME NEW w \in Worker, Failure(w) PROVE TypeInv'
    BY <1>4, TypeRollback DEF Failure, Abort, BreakCycle
  <1>5. ASSUME NEW o \in Order, Age(o) PROVE TypeInv'
    BY <1>5 DEF Age, locks, TypeInv, TypeOK, Focused
  <1>6. ASSUME NEW t \in Txn, NEW o \in Order, OpenTxn(t, o) PROVE TypeInv'
    BY <1>6 DEF OpenTxn, locks, TypeInv, TypeOK, Focused
  <1>7. ASSUME NEW t \in Txn, FailTxn(t) PROVE TypeInv'
    BY <1>7 DEF FailTxn, locks, TypeInv, TypeOK, Focused
  <1>8. CASE UNCHANGED vars
    BY <1>8 DEF vars, TypeInv, TypeOK, Focused
  <1>9. QED
    BY <1>1, <1>2, <1>3, <1>4, <1>5, <1>6, <1>7, <1>8 DEF Next, Work

\* Every table, lock and session keeps the shape the code gives it, for any
\* number of orders, variants, payments and sessions.
THEOREM TypeCorrect == Spec => []TypeOK
  <1>1. Spec => []TypeInv
    BY TypeInit, TypeNext, PTL DEF Spec
  <1>2. TypeInv => TypeOK
    BY DEF TypeInv
  <1>3. QED
    BY <1>1, <1>2, PTL

-----------------------------------------------------------------------------
(* Inv: what every open transaction may rely on. *)

\* The part of Inv about the committed rows.
TablesInv == RowOK /\ TxnPlaced /\ PaidImpliesCommitted /\ ReleasedOnce

SessionsInv == \A w \in Worker : Knows(w, job[w])

\* What a step may never do to an order: unpay it, or give its stock back
\* after a commit.
Kept ==
  \A o \in Order : /\ order[o].pay = "paid" => order'[o].pay = "paid"
                   /\ ledger'[o].rel > ledger[o].rel => ledger[o].com = 0

LEMMA InvParts == Inv <=> TypeInv /\ TablesInv /\ SessionsInv
  BY DEF Inv, TypeInv, TablesInv, SessionsInv

\* An idle session knows nothing.
LEMMA IdleKnows ==
  ASSUME NEW w \in Worker, RowOK, TypeOK
  PROVE  Knows(w, Idle)
  <1>1. \A v \in Variant : Idle.taken[v] = 0
    BY DEF Idle
  <1>2. SeesSound(w, Idle)
    <2>1. ASSUME NEW v \in Variant PROVE Sound(Applied(Idle.op, row[v], Idle.taken[v]))
      <3>1. row[v] \in [stock : Int, reserved : Int] /\ Sound(row[v])
        BY DEF RowOK, TypeOK
      <3>2. QED
        BY <1>1, <3>1 DEF Applied, Idle, Sound
    <2>2. QED
      BY <2>1 DEF SeesSound
  <1>3. HoldsMoved(w, Idle)
    BY <1>1 DEF HoldsMoved
  <1>4. HasPlace(w, Idle) /\ HoldsBatch(w, Idle) /\ KnowsPaid(w, Idle) /\ HoldsReleased(w, Idle)
    BY DEF HasPlace, HoldsBatch, KnowsPaid, HoldsReleased, Idle
  <1>5. QED
    BY <1>2, <1>3, <1>4 DEF Knows

-----------------------------------------------------------------------------
(* Steps that leave the tables alone. *)

\* Session w takes locks that were free and changes its job to j; nobody else
\* notices.
LEMMA SessionStep ==
  ASSUME Inv, TypeInv', NEW w \in Worker, NEW j \in Job, Continue(w, j),
         UNCHANGED tables,
         \A o \in Order : olock'[o] = olock[o] \/ (olock[o] = None /\ olock'[o] = w),
         \A v \in Variant : vlock'[v] = vlock[v] \/ (vlock[v] \in {None, w} /\ vlock'[v] = w),
         j.op = "create" => \/ job[w].op = "create" /\ j.ord = job[w].ord
                            \/ \A x \in Worker : job[x].op = "create" => job[x].ord # j.ord,
         Knows(w, j)'
  PROVE  Inv' /\ Kept
  <1>1. None \notin Worker
    BY ConstantFacts DEF Assumptions
  <1>2. job[w] \in Job /\ job'[w] = j /\ \A x \in Worker \ {w} : job'[x] = job[x]
    BY DEF Inv, TypeOK, Continue
  <1>3. TablesInv'
    BY DEF Inv, TablesInv, tables, RowOK, TxnPlaced, Placed, PaidImpliesCommitted, ReleasedOnce
  <1>4. ASSUME NEW x \in Worker, x # w PROVE Knows(x, job[x])'
    <2>1. Knows(x, job[x]) /\ job'[x] = job[x] /\ job[x] \in Job
      BY <1>2, <1>4 DEF Inv, TypeOK
    <2>2. HoldsMoved(x, job[x])'
      BY <1>1, <1>4, <2>1 DEF Knows, HoldsMoved
    <2>3. SeesSound(x, job[x])'
      BY <2>1 DEF Knows, SeesSound, tables
    <2>4. HasPlace(x, job[x])'
      BY <1>2, <1>4, <2>1 DEF Knows, HasPlace, Placed, tables
    <2>5. HoldsBatch(x, job[x])'
      BY <1>1, <1>4, <2>1 DEF Knows, HoldsBatch, tables, Job
    <2>6. KnowsPaid(x, job[x])'
      BY <2>1 DEF Knows, KnowsPaid, tables
    <2>7. HoldsReleased(x, job[x])'
      <3>1. job[x].op = "staff" => job[x].ord \in Order
        BY DEF Inv, Focused
      <3>2. job[x].done \subseteq Order
        BY <2>1 DEF Job
      <3>3. \A o \in Order : olock[o] = x => olock'[o] = x
        BY <1>1, <1>4
      <3>4. QED
        BY <2>1, <3>1, <3>2, <3>3 DEF Knows, HoldsReleased, tables
    <2>8. QED
      BY <2>2, <2>3, <2>4, <2>5, <2>6, <2>7 DEF Knows
  <1>5. SessionsInv'
    BY <1>2, <1>4 DEF SessionsInv
  <1>6. Inv'
    BY <1>3, <1>5, InvParts, PTL
  <1>7. Kept
    BY DEF Kept, tables, Inv, TypeOK
  <1>8. QED
    BY <1>6, <1>7

\* A transaction begins: the session was idle and moved nothing yet.
LEMMA BeginStep ==
  ASSUME Inv, TypeInv', NEW w \in Worker, NEW j \in Job, Begin(w, j),
         UNCHANGED <<tables, locks>>,
         \A v \in Variant : j.taken[v] = 0,
         j.done = {}, j.batch = {},
         j.op = "complete" => j.step = "read",
         j.op = "staff" => j.step = "save",
         j.op = "sweep" => j.step = "lock",
         j.op \in {"complete", "staff"} => Placed(j.ord),
         j.op = "create" => ~Placed(j.ord) /\ \A x \in Worker : job[x].op = "create" => job[x].ord # j.ord
  PROVE  Inv' /\ Kept
  <1>1. Continue(w, j) /\ UNCHANGED tables /\ UNCHANGED <<olock, vlock>>
    BY DEF Begin, locks
  <1>2. job' = [job EXCEPT ![w] = j] /\ job \in [Worker -> Job]
    BY <1>1 DEF Continue, Inv, TypeOK
  <1>3. HoldsMoved(w, j)' /\ HoldsBatch(w, j)'
    BY DEF HoldsMoved, HoldsBatch
  <1>4. SeesSound(w, j)'
    <2>1. ASSUME NEW v \in Variant PROVE Sound(Applied(j.op, row[v], 0))
      <3>1. row[v] \in [stock : Int, reserved : Int] /\ Sound(row[v])
        BY DEF Inv, RowOK, TypeOK
      <3>2. QED
        BY <3>1 DEF Applied, Sound
    <2>2. QED
      BY <1>1, <2>1 DEF SeesSound, tables
  <1>5. HasPlace(w, j)'
    BY <1>1, <1>2 DEF HasPlace, Placed, tables
  <1>6. KnowsPaid(w, j)'
    BY DEF KnowsPaid
  <1>7. HoldsReleased(w, j)'
    BY DEF HoldsReleased
  <1>8. Knows(w, j)'
    BY <1>3, <1>4, <1>5, <1>6, <1>7 DEF Knows
  <1>9. QED
    BY <1>1, <1>8, SessionStep

LEMMA InvBegin ==
  ASSUME Inv, NEW w \in Worker, Request(w) \/ BeginSweep(w), TypeInv'
  PROVE  Inv' /\ Kept
  <1>1. ASSUME NEW o \in Order, BeginCreate(w, o) PROVE Inv' /\ Kept
    <2> DEFINE j == [Idle EXCEPT !.op = "create", !.step = "lines", !.ord = o,
                                 !.todo = Need(o)]
    <2>1. j \in Job
      BY DEF Idle, Job, Ops, Steps, Modes, Need
    <2>2. /\ \A v \in Variant : j.taken[v] = 0
          /\ j.done = {} /\ j.batch = {} /\ j.op = "create" /\ j.ord = o
      BY DEF Idle
    <2>3. Begin(w, j) /\ UNCHANGED <<tables, locks>> /\ ~Placed(o)
      BY <1>1 DEF BeginCreate
    <2>4. \A x \in Worker : job[x].op = "create" => job[x].ord # o
      BY <1>1 DEF BeginCreate
    <2> HIDE DEF j
    <2>5. QED
      BY <2>1, <2>2, <2>3, <2>4, BeginStep
  <1>2. ASSUME NEW t \in Txn, BeginComplete(w, t) PROVE Inv' /\ Kept
    <2> DEFINE j == [Idle EXCEPT !.op = "complete", !.step = "read",
                           !.ord = txn[t].of, !.txn = t,
                           !.mode = IF txn[t].status = "succeeded"
                                    THEN "again" ELSE "first"]
    <2>1. txn[t].of \in Order /\ Placed(txn[t].of)
      BY <1>2 DEF BeginComplete, Inv, TypeOK, TxnPlaced
    <2>2. j \in Job
      BY <2>1 DEF Idle, Job, Ops, Steps, Modes
    <2>3. /\ \A v \in Variant : j.taken[v] = 0
          /\ j.done = {} /\ j.batch = {} /\ j.op = "complete" /\ j.step = "read"
          /\ Placed(j.ord)
      BY <2>1 DEF Idle
    <2>4. Begin(w, j) /\ UNCHANGED <<tables, locks>>
      BY <1>2 DEF BeginComplete
    <2> HIDE DEF j
    <2>5. QED
      BY <2>2, <2>3, <2>4, BeginStep
  <1>3. ASSUME NEW o \in Order, NEW to \in StaffTargets, BeginStaff(w, o, to) PROVE Inv' /\ Kept
    <2> DEFINE j == [Idle EXCEPT !.op = "staff", !.step = "save", !.ord = o, !.to = to]
    <2>1. j \in Job
      BY ConstantFacts DEF Idle, Job, Ops, Steps, Modes, Assumptions
    <2>2. /\ \A v \in Variant : j.taken[v] = 0
          /\ j.done = {} /\ j.batch = {} /\ j.op = "staff" /\ j.step = "save" /\ j.ord = o
      BY DEF Idle
    <2>3. Begin(w, j) /\ UNCHANGED <<tables, locks>> /\ Placed(o)
      BY <1>3 DEF BeginStaff
    <2> HIDE DEF j
    <2>4. QED
      BY <2>1, <2>2, <2>3, BeginStep
  <1>4. CASE BeginSweep(w)
    <2> DEFINE j == [Idle EXCEPT !.op = "sweep", !.step = "lock",
                                 !.queue = {o \in Order : Expirable(o)}]
    <2>1. j \in Job
      BY DEF Idle, Job, Ops, Steps, Modes
    <2>2. /\ \A v \in Variant : j.taken[v] = 0
          /\ j.done = {} /\ j.batch = {} /\ j.op = "sweep" /\ j.step = "lock"
      BY DEF Idle
    <2>3. Begin(w, j) /\ UNCHANGED <<tables, locks>>
      BY <1>4 DEF BeginSweep
    <2> HIDE DEF j
    <2>4. QED
      BY <2>1, <2>2, <2>3, BeginStep
  <1>5. QED
    BY <1>1, <1>2, <1>3, <1>4 DEF Request

\* The quantity of a line: positive, and as much as the row the session sees
\* can give, so that the row stays sound with the line moved.
LEMMA EnoughSound ==
  ASSUME NEW op, NEW r \in [stock : Int, reserved : Int], NEW n \in Nat, NEW q \in Nat,
         Sound(Applied(op, r, n)),
         op = "create" => CanReserve(Applied(op, r, n), q),
         op = "complete" => CanCommit(Applied(op, r, n), q),
         op \notin {"create", "complete"} => CanRelease(Applied(op, r, n), q)
  PROVE  Sound(Applied(op, r, n + q))
  <1>1. CASE op = "create"
    BY <1>1 DEF Applied, Sound, CanReserve
  <1>2. CASE op = "complete"
    BY <1>2 DEF Applied, Sound, CanCommit
  <1>3. CASE op \notin {"create", "complete"}
    BY <1>3 DEF Applied, Sound, CanRelease
  <1>4. QED
    BY <1>1, <1>2, <1>3

LEMMA InvTakeLine ==
  ASSUME Inv, NEW w \in Worker, TakeLine(w), TypeInv'
  PROVE  Inv' /\ Kept
  <1>1. PICK v \in NextLines(w) :
          /\ vlock[v] \in {None, w}
          /\ Enough(w, v)
          /\ vlock' = [vlock EXCEPT ![v] = w]
          /\ Continue(w, Moved(job[w], v))
    BY DEF TakeLine
  <1> DEFINE q == Lines[job[w].ord][v]
  <1>0. PICK j \in Job : j = Moved(job[w], v)
    <2>1. job' \in [Worker -> Job] /\ job'[w] = Moved(job[w], v)
      BY <1>1 DEF TypeInv, TypeOK, Inv, Continue
    <2>2. QED
      BY <2>1
  <1>2. job[w] \in Job /\ job[w].step = "lines" /\ UNCHANGED <<tables, olock, tlock>>
    BY DEF TakeLine, Inv, TypeOK
  <1>3. job[w].ord \in Order
    BY <1>2 DEF Inv, Focused
  <1>4. v \in Variant
    BY <1>2 DEF NextLines, First, Job
  <1>5. q \in Nat
    BY <1>3, <1>4, ConstantFacts DEF Assumptions
  <1>6. /\ j.op = job[w].op /\ j.ord = job[w].ord /\ j.done = job[w].done
        /\ j.batch = job[w].batch /\ j.queue = job[w].queue /\ j.mode = job[w].mode
        /\ j.step \in {"lines", "payments", "close"}
        /\ \A u \in Variant : j.taken[u] = IF u = v THEN job[w].taken[v] + q ELSE job[w].taken[u]
    BY <1>0, <1>2, <1>4 DEF Moved, Job
  <1>8. Knows(w, job[w])
    BY DEF Inv
  <1> HIDE DEF q
  <1>9. HoldsMoved(w, j)'
    BY <1>1, <1>2, <1>4, <1>6, <1>8 DEF Knows, HoldsMoved, Inv, TypeOK
  <1>10. SeesSound(w, j)'
    <2>1. ASSUME NEW u \in Variant PROVE Sound(Applied(j.op, row[u], j.taken[u]))
      <3>1. row[u] \in [stock : Int, reserved : Int] /\ job[w].taken[u] \in Nat
        BY <1>2 DEF Inv, TypeOK, Job
      <3>2. Sound(Applied(job[w].op, row[u], job[w].taken[u]))
        BY <1>8 DEF Knows, SeesSound
      <3>3. CASE u # v
        BY <1>6, <3>2, <3>3
      <3>4. CASE u = v
        <4>1. /\ job[w].op = "create" => CanReserve(Seen(w, v), q)
              /\ job[w].op = "complete" => CanCommit(Seen(w, v), q)
              /\ job[w].op \notin {"create", "complete"} => CanRelease(Seen(w, v), q)
          BY <1>1 DEF Enough, q
        <4>2. Sound(Applied(job[w].op, row[v], job[w].taken[v] + q))
          BY <1>5, <3>1, <3>2, <3>4, <4>1, EnoughSound DEF Seen
        <4>3. QED
          BY <1>4, <1>6, <3>4, <4>2
      <3>5. QED
        BY <3>3, <3>4
    <2>2. QED
      BY <1>2, <2>1 DEF SeesSound, tables
  <1>11. HasPlace(w, j)'
    <2>1. \A x \in Worker \ {w} : job'[x] = job[x]
      BY <1>1 DEF Continue, Inv, TypeOK
    <2>2. QED
      BY <1>2, <1>6, <1>8, <2>1 DEF Knows, HasPlace, Placed, tables
  <1>12. HoldsBatch(w, j)'
    BY <1>2, <1>6, <1>8 DEF Knows, HoldsBatch, tables
  <1>13. KnowsPaid(w, j)'
    BY <1>2, <1>6, <1>8 DEF Knows, KnowsPaid, tables
  <1>14. HoldsReleased(w, j)'
    BY <1>2, <1>6, <1>8 DEF Knows, HoldsReleased, tables
  <1>15. Knows(w, j)'
    BY <1>9, <1>10, <1>11, <1>12, <1>13, <1>14 DEF Knows
  <1>16. /\ \A o \in Order : olock'[o] = olock[o]
         /\ \A u \in Variant : vlock'[u] = vlock[u] \/ (vlock[u] \in {None, w} /\ vlock'[u] = w)
    BY <1>1, <1>2, <1>4 DEF Inv, TypeOK
  <1>17. Continue(w, j) /\ UNCHANGED tables
    BY <1>0, <1>1, <1>2
  <1>18. QED
    BY <1>6, <1>15, <1>16, <1>17, SessionStep

\* A statement that moves no stock and no table.
LEMMA QuietStep ==
  ASSUME Inv, TypeInv', NEW w \in Worker, NEW j \in Job, Continue(w, j),
         UNCHANGED <<tables, vlock>>,
         \A o \in Order : olock'[o] = olock[o] \/ (olock[o] = None /\ olock'[o] = w),
         j.op = job[w].op, j.op # "create", j.taken = job[w].taken,
         j.op \in {"complete", "staff"} => j.ord = job[w].ord,
         HoldsBatch(w, j)', KnowsPaid(w, j)', HoldsReleased(w, j)'
  PROVE  Inv' /\ Kept
  <1>1. Knows(w, job[w])
    BY DEF Inv
  <1>2. HoldsMoved(w, j)' /\ SeesSound(w, j)'
    BY <1>1 DEF Knows, HoldsMoved, SeesSound, tables
  <1>3. HasPlace(w, j)'
    BY <1>1 DEF Knows, HasPlace, Placed, tables
  <1>4. Knows(w, j)'
    BY <1>2, <1>3 DEF Knows
  <1>5. \A v \in Variant : vlock'[v] = vlock[v]
    OBVIOUS
  <1>6. UNCHANGED tables
    OBVIOUS
  <1>7. QED
    BY <1>4, <1>5, <1>6, SessionStep

\* A completion that has read, saved or looked at the ledger.
LEMMA InvCompleteStatement ==
  ASSUME Inv, TypeInv', NEW w \in Worker, ReadOrder(w) \/ SaveTxn(w) \/ CheckCommitted(w)
  PROVE  Inv' /\ Kept
  <1>1. /\ job[w] \in Job /\ job[w].op = "complete" /\ Knows(w, job[w])
        /\ UNCHANGED <<tables, vlock>> /\ UNCHANGED olock
    BY DEF ReadOrder, SaveTxn, CheckCommitted, At, locks, Inv, TypeOK
  <1>2. job[w].ord \in Order
    BY <1>1 DEF Inv, Focused
  <1>3. PICK j \in Job : /\ Continue(w, j)
                         /\ j.op = job[w].op /\ j.ord = job[w].ord
                         /\ j.taken = job[w].taken /\ j.batch = job[w].batch
                         /\ \/ j.done = job[w].done /\ j.step = "save"
                               /\ (j.mode = "again" => order[j.ord].pay = "paid")
                            \/ j.done = job[w].done /\ j.mode = job[w].mode /\ job[w].step = "save"
                               /\ j.step = IF j.mode = "first" THEN "check" ELSE "close"
                            \/ j.done = job[w].done /\ j.mode = "first" /\ j.step = "close"
                               /\ ledger[j.ord].com > 0
                            \/ j.done = {j.ord} /\ j.mode = "first" /\ j.step = "lines"
    <2>1. job' \in [Worker -> Job] /\ job \in [Worker -> Job]
      BY DEF TypeInv, TypeOK, Inv
    <2>2. job'[w] \in Job /\ \A j : Continue(w, j) => job'[w] = j
      BY <2>1 DEF Continue
    <2>3. CASE ReadOrder(w)
      <3>1. Continue(w, job'[w])
        BY <2>2, <2>3 DEF ReadOrder
      <3>2. /\ job'[w].op = job[w].op /\ job'[w].ord = job[w].ord
            /\ job'[w].taken = job[w].taken /\ job'[w].batch = job[w].batch
            /\ job'[w].done = job[w].done /\ job'[w].step = "save"
        BY <1>1, <2>2, <2>3 DEF ReadOrder, Job
      <3>3. job'[w].mode = "again" => order[job[w].ord].pay = "paid"
        BY <1>1, <2>2, <2>3 DEF ReadOrder, Job
      <3>4. QED
        BY <2>2, <3>1, <3>2, <3>3
    <2>4. CASE SaveTxn(w)
      <3>1. job'[w] = [job[w] EXCEPT !.step = IF job[w].mode = "first" THEN "check" ELSE "close"]
            /\ Continue(w, job'[w]) /\ job[w].step = "save"
        BY <2>2, <2>4 DEF SaveTxn, At
      <3>2. QED
        BY <1>1, <2>2, <3>1 DEF Job
    <2>5. CASE CheckCommitted(w)
      <3>1. job[w].mode = "first"
        BY <1>1, <2>5 DEF CheckCommitted, At, Knows, KnowsPaid
      <3>2. Continue(w, job'[w])
        BY <2>2, <2>5 DEF CheckCommitted, EitherLines
      <3>3. CASE ledger[job[w].ord].com > 0
        BY <1>1, <2>2, <2>5, <3>1, <3>2, <3>3 DEF CheckCommitted, EitherLines, Job
      <3>4. CASE ~(ledger[job[w].ord].com > 0)
        BY <1>1, <2>2, <2>5, <3>1, <3>2, <3>4 DEF CheckCommitted, EitherLines, Job
      <3>5. QED
        BY <3>3, <3>4
    <2>6. QED
      BY <2>3, <2>4, <2>5
  <1>4. HoldsBatch(w, j)'
    BY <1>1, <1>3 DEF Knows, HoldsBatch, tables
  <1>5. KnowsPaid(w, j)'
    BY <1>1, <1>3 DEF Knows, KnowsPaid, tables
  <1>6. HoldsReleased(w, j)'
    BY <1>1, <1>3 DEF HoldsReleased
  <1>7. QED
    BY <1>1, <1>3, <1>4, <1>5, <1>6, QuietStep

\* A cancellation that has locked its order or looked at the ledger.
LEMMA InvStaffStatement ==
  ASSUME Inv, TypeInv', NEW w \in Worker, SaveStatus(w) \/ CheckReleased(w)
  PROVE  Inv' /\ Kept
  <1>1. /\ job[w] \in Job /\ job[w].op = "staff" /\ Knows(w, job[w])
        /\ UNCHANGED <<tables, vlock>>
    BY DEF SaveStatus, CheckReleased, At, locks, Inv, TypeOK
  <1>2. job[w].ord \in Order
    BY <1>1 DEF Inv, Focused
  <1>3. /\ \A o \in Order : olock'[o] = olock[o] \/ (olock[o] = None /\ olock'[o] = w)
        /\ olock'[job[w].ord] = w
    <2>1. CASE SaveStatus(w)
      BY <1>2, <2>1 DEF SaveStatus, Inv, TypeOK
    <2>2. CASE CheckReleased(w)
      BY <1>1, <2>2 DEF CheckReleased, At, locks, Knows, HoldsReleased
    <2>3. QED
      BY <2>1, <2>2
  <1>4. PICK j \in Job : /\ Continue(w, j)
                         /\ j.op = job[w].op /\ j.ord = job[w].ord
                         /\ j.taken = job[w].taken /\ j.batch = job[w].batch
                         /\ \/ j.done = job[w].done
                            \/ j.done = {j.ord} /\ ~Settled(j.ord)
    <2>1. job' \in [Worker -> Job] /\ job \in [Worker -> Job]
      BY DEF TypeInv, TypeOK, Inv
    <2>2. job'[w] \in Job /\ \A j : Continue(w, j) => job'[w] = j
      BY <2>1 DEF Continue
    <2>3. CASE SaveStatus(w)
      <3>1. job'[w] = [job[w] EXCEPT !.step = IF job[w].to = "cancelled" THEN "check" ELSE "close"]
            /\ Continue(w, job'[w])
        BY <2>2, <2>3 DEF SaveStatus
      <3>2. QED
        BY <1>1, <2>2, <3>1 DEF Job
    <2>4. CASE CheckReleased(w)
      <3>1. Continue(w, job'[w])
        BY <2>2, <2>4 DEF CheckReleased, EitherLines
      <3>2. CASE Settled(job[w].ord)
        BY <1>1, <2>2, <2>4, <3>1, <3>2 DEF CheckReleased, EitherLines, Job
      <3>3. CASE ~Settled(job[w].ord)
        BY <1>1, <2>2, <2>4, <3>1, <3>3 DEF CheckReleased, EitherLines, Job
      <3>4. QED
        BY <3>2, <3>3
    <2>5. QED
      BY <2>3, <2>4
  <1>5. HoldsBatch(w, j)'
    BY <1>1, <1>3, <1>4 DEF Knows, HoldsBatch, tables, Job
  <1>6. KnowsPaid(w, j)'
    BY <1>1, <1>4 DEF KnowsPaid
  <1>7. HoldsReleased(w, j)'
    <2>1. olock'[j.ord] = w
      BY <1>3, <1>4
    <2>2. ASSUME NEW o \in j.done
          PROVE  olock'[o] = w /\ ledger'[o].com = 0 /\ ledger'[o].rel = 0
      <3>1. CASE j.done = job[w].done
        BY <1>1, <1>3, <2>2, <3>1 DEF Knows, HoldsReleased, tables, Job
      <3>2. CASE j.done = {j.ord} /\ ~Settled(j.ord)
        BY <1>2, <1>4, <2>1, <2>2, <3>2, <1>1 DEF Settled, tables, Inv, TypeOK
      <3>3. QED
        BY <1>4, <3>1, <3>2
    <2>3. QED
      BY <1>1, <1>4, <2>1, <2>2 DEF HoldsReleased
  <1>8. QED
    BY <1>1, <1>3, <1>4, <1>5, <1>6, <1>7, QuietStep

\* A sweep that has locked an order, turned to the next or failed payments.
LEMMA InvSweepStatement ==
  ASSUME Inv, TypeInv', NEW w \in Worker, LockOrder(w) \/ NextOrder(w) \/ FailPending(w)
  PROVE  Inv' /\ Kept
  <1>1. /\ job[w] \in Job /\ job[w].op = "sweep" /\ Knows(w, job[w])
        /\ UNCHANGED <<tables, vlock>>
    BY DEF LockOrder, NextOrder, FailPending, At, locks, Inv, TypeOK
  <1>2. job' \in [Worker -> Job] /\ job \in [Worker -> Job]
    BY DEF TypeInv, TypeOK, Inv
  <1>3. job'[w] \in Job /\ \A j : Continue(w, j) => job'[w] = j
    BY <1>2 DEF Continue
  <1>4. CASE LockOrder(w)
    <2>1. PICK o \in First(job[w].queue) :
            /\ olock[o] = None
            /\ olock' = [olock EXCEPT ![o] = w]
            /\ Continue(w, Locked(job[w], o))
      BY <1>4 DEF LockOrder
    <2>2. o \in Order
      BY <1>1, <2>1 DEF First, Job
    <2>3. \A p \in Order : olock'[p] = olock[p] \/ (olock[p] = None /\ olock'[p] = w)
      BY <2>1, <2>2 DEF Inv, TypeOK
    <2>4. PICK j \in Job : j = Locked(job[w], o)
      BY <1>3, <2>1
    <2>5. /\ j.op = "sweep" /\ j.taken = job[w].taken /\ j.done = job[w].done
          /\ j.batch = job[w].batch \cup (IF Expirable(o) THEN {o} ELSE {})
          /\ j.step # "lock" => j.queue \subseteq j.batch
      BY <1>1, <2>4 DEF Locked, Job
    <2>6. HoldsBatch(w, j)'
      <3>1. ASSUME NEW p \in j.batch PROVE olock'[p] = w /\ order'[p].pay = "pending"
        <4>1. CASE p \in job[w].batch
          BY <1>1, <2>3, <4>1 DEF Knows, HoldsBatch, tables, Job
        <4>2. CASE p = o /\ Expirable(o)
          BY <1>1, <2>1, <2>2, <4>2 DEF Expirable, tables, Inv, TypeOK
        <4>3. QED
          BY <2>5, <3>1, <4>1, <4>2
      <3>2. QED
        BY <3>1 DEF HoldsBatch
    <2>7. HoldsReleased(w, j)'
      <3>1. \A p \in job[w].done : olock'[p] = w /\ ledger'[p].com = 0 /\ ledger'[p].rel = 0
        BY <1>1, <2>3 DEF Knows, HoldsReleased, tables, Job
      <3>2. QED
        BY <2>5, <3>1 DEF HoldsReleased
    <2>8. KnowsPaid(w, j)'
      BY <2>5 DEF KnowsPaid
    <2>9. Continue(w, j)
      BY <2>1, <2>4
    <2>10. QED
      BY <1>1, <2>3, <2>5, <2>6, <2>7, <2>8, <2>9, QuietStep
  <1>5. CASE NextOrder(w)
    <2>1. PICK o \in First(job[w].queue) : Continue(w, Turned(job[w], o))
      BY <1>5 DEF NextOrder
    <2>2. /\ UNCHANGED olock /\ job[w].step = "next"
          /\ job[w].queue \subseteq job[w].batch
      BY <1>1, <1>5 DEF NextOrder, At, locks, Knows, HoldsReleased
    <2>3. o \in job[w].queue /\ o \in Order /\ olock[o] = w
      BY <1>1, <2>1, <2>2 DEF First, Job, Knows, HoldsBatch
    <2>4. PICK j \in Job : j = Turned(job[w], o)
      BY <1>3, <2>1
    <2>5. /\ j.op = "sweep" /\ j.taken = job[w].taken /\ j.batch = job[w].batch
          /\ j.queue \subseteq job[w].queue
          /\ \/ j.done = job[w].done
             \/ j.done = job[w].done \cup {o} /\ ~Settled(o)
      <3>1. CASE Settled(o)
        BY <1>1, <2>4, <3>1 DEF Turned, Job
      <3>2. CASE ~Settled(o)
        BY <1>1, <2>4, <3>2 DEF Turned, Job
      <3>3. QED
        BY <3>1, <3>2
    <2>6. HoldsBatch(w, j)'
      BY <1>1, <2>2, <2>5 DEF Knows, HoldsBatch, tables
    <2>7. HoldsReleased(w, j)'
      <3>1. \A p \in job[w].done : olock'[p] = w /\ ledger'[p].com = 0 /\ ledger'[p].rel = 0
        BY <1>1, <2>2 DEF Knows, HoldsReleased, tables
      <3>2. ~Settled(o) => olock'[o] = w /\ ledger'[o].com = 0 /\ ledger'[o].rel = 0
        BY <1>1, <2>2, <2>3 DEF Settled, tables, Inv, TypeOK
      <3>3. QED
        BY <2>2, <2>5, <3>1, <3>2 DEF HoldsReleased
    <2>8. KnowsPaid(w, j)'
      BY <2>5 DEF KnowsPaid
    <2>9. Continue(w, j)
      BY <2>1, <2>4
    <2>10. QED
      BY <1>1, <2>2, <2>5, <2>6, <2>7, <2>8, <2>9, QuietStep
  <1>6. CASE FailPending(w)
    <2>1. PICK j \in Job : j = [job[w] EXCEPT !.step = "next"] /\ Continue(w, j)
      BY <1>3, <1>6 DEF FailPending
    <2>2. /\ UNCHANGED olock /\ job[w].step = "payments"
          /\ job[w].queue \subseteq job[w].batch
      BY <1>1, <1>6 DEF FailPending, At, Knows, HoldsReleased
    <2>3. /\ j.op = "sweep" /\ j.taken = job[w].taken /\ j.batch = job[w].batch
          /\ j.queue = job[w].queue /\ j.done = job[w].done
      BY <1>1, <2>1 DEF Job
    <2>4. HoldsBatch(w, j)'
      BY <1>1, <2>2, <2>3 DEF Knows, HoldsBatch, tables
    <2>5. HoldsReleased(w, j)'
      BY <1>1, <2>2, <2>3 DEF Knows, HoldsReleased, tables
    <2>6. KnowsPaid(w, j)'
      BY <2>3 DEF KnowsPaid
    <2>7. QED
      BY <1>1, <2>1, <2>2, <2>3, <2>4, <2>5, <2>6, QuietStep
  <1>7. QED
    BY <1>4, <1>5, <1>6

-----------------------------------------------------------------------------
(* Steps that end a transaction. *)

\* The stock part of a ROLLBACK or of a COMMIT.
StockSettled(w) ==
  \/ UNCHANGED <<row, ledger>>
  \/ job[w].op # "idle" /\ CommitStockWrites(w)

\* What a COMMIT writes to the variants is sound, and it writes only the ones
\* its session has locked.
LEMMA CommitRows ==
  ASSUME Inv, NEW w \in Worker, StockSettled(w)
  PROVE  RowOK' /\ \A v \in Variant : vlock[v] # w => row'[v] = row[v]
  <1>1. CASE UNCHANGED <<row, ledger>>
    BY <1>1 DEF Inv, RowOK
  <1>2. CASE job[w].op # "idle" /\ CommitStockWrites(w)
    <2>1. Knows(w, job[w]) /\ job[w] \in Job
      BY DEF Inv, TypeOK
    <2>2. ASSUME NEW v \in Variant
          PROVE  Sound(row'[v]) /\ (vlock[v] # w => row'[v] = row[v])
      <3>1. row'[v] = Applied(job[w].op, row[v], job[w].taken[v])
        BY <1>2 DEF CommitStockWrites, Seen
      <3>2. row[v] \in [stock : Int, reserved : Int] /\ job[w].taken[v] \in Nat
        BY <2>1 DEF Inv, TypeOK, Job
      <3>3. vlock[v] # w => job[w].taken[v] = 0
        BY <2>1, <3>2 DEF Knows, HoldsMoved
      <3>4. Applied(job[w].op, row[v], 0) = row[v]
        BY <3>2 DEF Applied
      <3>5. QED
        BY <2>1, <3>1, <3>3, <3>4 DEF Knows, SeesSound
    <2>3. QED
      BY <2>2 DEF RowOK
  <1>3. QED
    BY <1>1, <1>2 DEF StockSettled

\* What a COMMIT writes to the ledger: nothing is taken back, and a release is
\* the first of its order, which has no commit.
LEMMA CommitLedger ==
  ASSUME Inv, NEW w \in Worker, StockSettled(w),
         NEW o \in Order
  PROVE  /\ ledger'[o].com >= ledger[o].com
         /\ ledger'[o].rel <= 1
         /\ ledger'[o].rel > ledger[o].rel => ledger[o].com = 0
         /\ ledger'[o] # ledger[o] => o \in job[w].done
  <1>1. ledger[o] \in [com : Nat, rel : Nat] /\ ledger[o].rel <= 1
    BY DEF Inv, TypeOK, ReleasedOnce
  <1>2. CASE UNCHANGED <<row, ledger>>
    BY <1>1, <1>2
  <1>3. CASE job[w].op # "idle" /\ CommitStockWrites(w)
    <2>1. Knows(w, job[w]) /\ job[w] \in Job
      BY DEF Inv, TypeOK
    <2>2. ledger'[o] = IF o \notin job[w].done THEN ledger[o]
                       ELSE IF job[w].op = "complete" THEN [ledger[o] EXCEPT !.com = @ + 1]
                                                      ELSE [ledger[o] EXCEPT !.rel = @ + 1]
      BY <1>3 DEF CommitStockWrites
    <2>3. CASE o \notin job[w].done \/ job[w].op = "complete"
      BY <1>1, <2>2, <2>3
    <2>4. CASE o \in job[w].done /\ job[w].op # "complete"
      <3>1. job[w].op # "create"
        BY <2>1, <2>4 DEF Knows, HasPlace
      <3>2. job[w].op \in {"staff", "sweep"}
        BY <1>3, <2>1, <2>4, <3>1 DEF Job, Ops
      <3>3. ledger[o].com = 0 /\ ledger[o].rel = 0
        BY <2>1, <2>4, <3>2 DEF Knows, HoldsReleased
      <3>4. QED
        BY <1>1, <2>2, <2>4, <3>3
    <2>5. QED
      BY <2>3, <2>4
  <1>4. QED
    BY <1>2, <1>3 DEF StockSettled

\* A transaction ends.  It keeps its promises about the rows it wrote, and
\* every other session finds what it relies on as it left it.
LEMMA EndStep ==
  ASSUME Inv, TypeInv', NEW w \in Worker, EndTransaction(w), StockSettled(w),
         ledger' # ledger => \A o \in job[w].done : olock[o] \in {None, w},
         \A t \in Txn : txn'[t].of = txn[t].of,
         \A o \in Order : Placed(o) => Placed(o)',
         \A o \in Order : Placed(o)' => Placed(o) \/ (job[w].op = "create" /\ o = job[w].ord),
         \A o \in Order : order[o].pay = "paid" => order'[o].pay = "paid",
         \A o \in Order : order'[o].pay = "paid" => ledger'[o].com > 0,
         \A o \in Order : olock[o] \notin {None, w} /\ order[o].pay = "pending"
                            => order'[o].pay = "pending"
  PROVE  Inv' /\ Kept
  <1>1. None \notin Worker
    BY ConstantFacts DEF Assumptions
  <1>2. /\ job'[w] = Idle /\ \A x \in Worker \ {w} : job'[x] = job[x]
        /\ \A x \in Worker \ {w} : \A o \in Order : olock[o] = x => olock'[o] = x
        /\ \A x \in Worker \ {w} : \A v \in Variant : vlock[v] = x => vlock'[v] = x
    BY DEF EndTransaction, Unlocked, Inv, TypeOK
  <1>3. RowOK' /\ \A v \in Variant : vlock[v] # w => row'[v] = row[v]
    BY CommitRows
  <1>4. TablesInv'
    <2>1. TxnPlaced'
      BY DEF Inv, TypeOK, TxnPlaced, TypeInv
    <2>2. PaidImpliesCommitted'
      BY DEF PaidImpliesCommitted
    <2>3. ReleasedOnce'
      BY CommitLedger DEF ReleasedOnce
    <2>4. QED
      BY <1>3, <2>1, <2>2, <2>3 DEF TablesInv
  <1>5. \A o \in Order : ledger[o] \in [com : Nat, rel : Nat] /\ ledger'[o] \in [com : Nat, rel : Nat]
    BY DEF Inv, TypeInv, TypeOK
  <1>6. ASSUME NEW x \in Worker, x # w PROVE Knows(x, job[x])'
    <2>1. PICK j \in Job : j = job[x] /\ job'[x] = j
      BY <1>2, <1>6 DEF Inv, TypeOK
    <2>2. Knows(x, j)
      BY <2>1 DEF Inv
    <2>3. HoldsMoved(x, j)'
      BY <1>2, <1>6, <2>2 DEF Knows, HoldsMoved
    <2>4. SeesSound(x, j)'
      <3>1. ASSUME NEW v \in Variant PROVE Sound(Applied(j.op, row'[v], j.taken[v]))
        <4>1. row'[v] \in [stock : Int, reserved : Int] /\ Sound(row'[v])
          BY <1>3 DEF TypeInv, TypeOK, RowOK
        <4>2. CASE vlock[v] # w
          BY <1>3, <2>2, <4>2 DEF Knows, SeesSound
        <4>3. CASE vlock[v] = w
          <5>1. j.taken[v] = 0
            BY <1>6, <2>2, <4>3 DEF Knows, HoldsMoved, Job
          <5>2. QED
            BY <4>1, <5>1 DEF Applied, Sound
        <4>4. QED
          BY <4>2, <4>3
      <3>2. QED
        BY <3>1 DEF SeesSound
    <2>5. HasPlace(x, j)'
      <3>1. j.op \in {"complete", "staff", "create"} => j.ord \in Order
        BY <2>1 DEF Inv, Focused
      <3>2. j.op = "create" /\ job[w].op = "create" => j.ord # job[w].ord
        BY <1>6, <2>2 DEF Knows, HasPlace
      <3>3. \A y \in Worker \ {x} : job'[y].op = "create" => job[y].op = "create" /\ job'[y].ord = job[y].ord
        BY <1>2 DEF Idle
      <3>4. QED
        BY <2>2, <3>1, <3>2, <3>3 DEF Knows, HasPlace
    <2>6. HoldsBatch(x, j)'
      BY <1>1, <1>2, <1>6, <2>2 DEF Knows, HoldsBatch, Job
    <2>7. KnowsPaid(x, j)'
      <3>1. j.op = "complete" => j.ord \in Order
        BY <2>1 DEF Inv, Focused
      <3>2. \A o \in Order : ledger'[o].com >= ledger[o].com
        BY CommitLedger
      <3>3. \A o \in Order : ledger[o].com > 0 => ledger'[o].com > 0
        BY <1>5, <3>2
      <3>4. QED
        BY <2>2, <3>1, <3>3 DEF Knows, KnowsPaid
    <2>8. HoldsReleased(x, j)'
      <3>1. j.op = "staff" => j.ord \in Order
        BY <2>1 DEF Inv, Focused
      <3>2. \A o \in Order : olock[o] = x => ledger'[o] = ledger[o]
        BY <1>1, <1>6, CommitLedger
      <3>3. QED
        BY <1>2, <1>6, <2>2, <3>1, <3>2 DEF Knows, HoldsReleased, Job
    <2>9. QED
      BY <2>1, <2>3, <2>4, <2>5, <2>6, <2>7, <2>8 DEF Knows
  <1>7. Knows(w, job[w])'
    <2>1. Knows(w, Idle)'
      BY <1>4, IdleKnows, PTL DEF TablesInv, TypeInv
    <2>2. QED
      BY <1>2, <2>1
  <1>8. SessionsInv'
    BY <1>6, <1>7 DEF SessionsInv
  <1>9. Inv'
    BY <1>4, <1>8, InvParts, PTL
  <1>10. Kept
    BY CommitLedger DEF Kept
  <1>11. QED
    BY <1>9, <1>10

\* A ROLLBACK, and the COMMIT of a late completion, change no stock and no
\* payment status.
LEMMA InvUnpaid ==
  ASSUME Inv, TypeInv', NEW w \in Worker, Rollback(w) \/ FinishLate(w)
  PROVE  Inv' /\ Kept
  <1>1. EndTransaction(w) /\ UNCHANGED <<row, ledger>>
    BY DEF Rollback, FinishLate, tables
  <1>2. \A t \in Txn : txn'[t].of = txn[t].of
    BY DEF Rollback, FinishLate, tables, Inv, TypeOK
  <1>3. \A o \in Order : order'[o].pay = order[o].pay
    <2>1. CASE Rollback(w)
      BY <2>1 DEF Rollback, tables
    <2>2. CASE FinishLate(w)
      BY <2>2 DEF FinishLate, Inv, TypeOK, OrderRow
    <2>3. QED
      BY <2>1, <2>2
  <1>4. \A o \in Order : Placed(o)' <=> Placed(o)
    BY <1>3 DEF Placed
  <1>5. \A o \in Order : order[o].pay = "paid" => ledger[o].com > 0
    BY DEF Inv, PaidImpliesCommitted
  <1>6. QED
    BY <1>1, <1>2, <1>3, <1>4, <1>5, EndStep DEF StockSettled

LEMMA InvFinishCreate ==
  ASSUME Inv, TypeInv', NEW w \in Worker, FinishCreate(w)
  PROVE  Inv' /\ Kept
  <1>1. /\ job[w].op = "create" /\ EndTransaction(w) /\ CommitStockWrites(w)
        /\ UNCHANGED txn /\ Knows(w, job[w])
    BY DEF FinishCreate, At, Inv
  <1>2. job[w].ord \in Order /\ ~Placed(job[w].ord) /\ job[w].done = {}
    BY <1>1 DEF Inv, Focused, Knows, HasPlace
  <1>3. /\ order'[job[w].ord].pay = "pending"
        /\ \A o \in Order : o # job[w].ord => order'[o] = order[o]
    BY <1>2 DEF FinishCreate, Inv, TypeOK
  <1>4. StockSettled(w)
    BY <1>1 DEF StockSettled
  <1>5. \A o \in Order : ledger'[o].com >= ledger[o].com
    BY <1>4, CommitLedger
  <1>6. \A o \in Order : order'[o].pay = "paid" => ledger'[o].com > 0
    <2>1. \A o \in Order : ledger[o].com \in Nat /\ ledger'[o].com \in Nat
      BY DEF Inv, TypeInv, TypeOK
    <2>2. QED
      BY <1>3, <1>5, <2>1 DEF Inv, PaidImpliesCommitted
  <1>7. /\ \A o \in Order : order[o].pay = "paid" => order'[o].pay = "paid"
        /\ \A o \in Order : order[o].pay = "pending" => order'[o].pay = "pending"
        /\ \A o \in Order : Placed(o) => Placed(o)'
        /\ \A o \in Order : Placed(o)' => Placed(o) \/ (job[w].op = "create" /\ o = job[w].ord)
    BY <1>1, <1>2, <1>3 DEF Placed
  <1>8. QED
    BY <1>1, <1>2, <1>4, <1>6, <1>7, EndStep

LEMMA InvFinishComplete ==
  ASSUME Inv, TypeInv', NEW w \in Worker, FinishComplete(w)
  PROVE  Inv' /\ Kept
  <1>1. /\ job[w].op = "complete" /\ job[w].step = "close"
        /\ EndTransaction(w) /\ CommitStockWrites(w) /\ Knows(w, job[w])
        /\ job[w].mode \in {"first", "again"} /\ olock[job[w].ord] = None
    BY DEF FinishComplete, At, Inv
  <1>2. job[w].ord \in Order /\ Placed(job[w].ord) /\ job[w].done \subseteq {job[w].ord}
    BY <1>1 DEF Inv, Focused, Knows, HasPlace, KnowsPaid
  <1>3. /\ order'[job[w].ord].pay = "paid"
        /\ \A o \in Order : o # job[w].ord => order'[o] = order[o]
    BY <1>1, <1>2 DEF FinishComplete, Paid, Inv, TypeOK, OrderRow
  <1>4. \A t \in Txn : txn'[t].of = txn[t].of
    BY DEF FinishComplete, Inv, TypeOK
  <1>5. StockSettled(w)
    BY <1>1 DEF StockSettled
  <1>6. \A o \in Order : order'[o].pay = "paid" => ledger'[o].com > 0
    <2>1. \A o \in Order : /\ ledger'[o].com >= ledger[o].com
                           /\ ledger[o] \in [com : Nat, rel : Nat] /\ ledger'[o].com \in Nat
      BY <1>5, CommitLedger DEF Inv, TypeInv, TypeOK
    <2>2. \A o \in Order : order[o].pay = "paid" => ledger'[o].com > 0
      BY <2>1 DEF Inv, PaidImpliesCommitted
    <2>3. ledger'[job[w].ord].com > 0
      <3>1. CASE job[w].mode = "again"
        BY <1>1, <1>2, <2>2, <3>1 DEF Knows, KnowsPaid
      <3>2. CASE job[w].mode = "first" /\ job[w].ord \in job[w].done
        <4>1. ledger'[job[w].ord] = [ledger[job[w].ord] EXCEPT !.com = @ + 1]
          BY <1>1, <1>2, <3>2 DEF CommitStockWrites
        <4>2. QED
          BY <1>2, <2>1, <4>1
      <3>3. CASE job[w].mode = "first" /\ job[w].ord \notin job[w].done
        BY <1>1, <1>2, <2>1, <3>3 DEF Knows, KnowsPaid
      <3>4. QED
        BY <1>1, <3>1, <3>2, <3>3
    <2>4. QED
      BY <1>3, <2>2, <2>3
  <1>7. /\ \A o \in Order : order[o].pay = "paid" => order'[o].pay = "paid"
        /\ \A o \in Order : olock[o] \notin {None, w} /\ order[o].pay = "pending"
                            => order'[o].pay = "pending"
        /\ \A o \in Order : Placed(o) => Placed(o)'
        /\ \A o \in Order : Placed(o)' => Placed(o)
    BY <1>1, <1>2, <1>3 DEF Placed
  <1>8. \A o \in job[w].done : olock[o] \in {None, w}
    BY <1>1, <1>2
  <1>9. QED
    BY <1>1, <1>4, <1>5, <1>6, <1>7, <1>8, EndStep

LEMMA InvFinishHeld ==
  ASSUME Inv, TypeInv', NEW w \in Worker, FinishStaff(w) \/ FinishSweep(w)
  PROVE  Inv' /\ Kept
  <1>1. /\ job[w].op \in {"staff", "sweep"} /\ EndTransaction(w) /\ CommitStockWrites(w)
        /\ Knows(w, job[w]) /\ job[w] \in Job
    BY DEF FinishStaff, FinishSweep, At, Inv, TypeOK
  <1>2. \A t \in Txn : txn'[t].of = txn[t].of
    BY DEF FinishStaff, FinishSweep, Inv, TypeOK
  <1>3. StockSettled(w)
    BY <1>1 DEF StockSettled
  <1>4. \A o \in Order : \/ order'[o].pay = order[o].pay
                         \/ /\ order[o].pay = "pending" /\ order'[o].pay = "expired"
                            /\ olock[o] = w
    <2>1. CASE FinishStaff(w)
      BY <2>1 DEF FinishStaff, Inv, TypeOK, OrderRow
    <2>2. CASE FinishSweep(w)
      BY <1>1, <2>2 DEF FinishSweep, Inv, TypeOK, Knows, HoldsBatch
    <2>3. QED
      BY <2>1, <2>2
  <1>5. \A o \in Order : order'[o].pay = "paid" => ledger'[o].com > 0
    <2>1. \A o \in Order : /\ ledger'[o].com >= ledger[o].com
                           /\ ledger[o].com \in Nat /\ ledger'[o].com \in Nat
      BY <1>3, CommitLedger DEF Inv, TypeInv, TypeOK
    <2>2. QED
      BY <1>4, <2>1 DEF Inv, PaidImpliesCommitted
  <1>6. /\ \A o \in Order : order[o].pay = "paid" => order'[o].pay = "paid"
        /\ \A o \in Order : olock[o] \notin {None, w} /\ order[o].pay = "pending"
                            => order'[o].pay = "pending"
        /\ \A o \in Order : Placed(o) => Placed(o)'
        /\ \A o \in Order : Placed(o)' => Placed(o)
    BY <1>4 DEF Placed
  <1>7. \A o \in job[w].done : olock[o] \in {None, w}
    BY <1>1 DEF Knows, HoldsReleased
  <1>8. QED
    BY <1>1, <1>2, <1>3, <1>5, <1>6, <1>7, EndStep

-----------------------------------------------------------------------------
(* The invariant. *)

\* Payments are opened and failed, and orders grow old, beside the sessions.
LEMMA InvBeside ==
  ASSUME Inv, TypeInv', UNCHANGED <<order, row, ledger, olock, vlock, job>>, TxnPlaced'
  PROVE  Inv' /\ Kept
  <1>1. TablesInv'
    BY DEF Inv, TablesInv, RowOK, PaidImpliesCommitted, ReleasedOnce
  <1>2. SessionsInv'
    <2>1. ASSUME NEW w \in Worker PROVE Knows(w, job[w])'
      <3>1. Knows(w, job[w])
        BY DEF Inv
      <3>2. QED
        BY <3>1 DEF Knows, HoldsMoved, SeesSound, HasPlace, Placed, HoldsBatch,
                    KnowsPaid, HoldsReleased
    <2>2. QED
      BY <2>1 DEF SessionsInv
  <1>3. Inv'
    BY <1>1, <1>2, InvParts, PTL
  <1>4. Kept
    BY DEF Kept, Inv, TypeOK
  <1>5. QED
    BY <1>3, <1>4

LEMMA InvInit == Init => Inv
  <1> SUFFICES ASSUME Init PROVE Inv
    OBVIOUS
  <1>1. TypeInv
    BY TypeInit
  <1>2. RowOK
    <2>1. InitialStock \in [Variant -> Nat]
      BY ConstantFacts DEF Assumptions
    <2>2. QED
      BY <2>1 DEF Init, RowOK, Sound
  <1>3. TxnPlaced /\ PaidImpliesCommitted /\ ReleasedOnce
    BY DEF Init, TxnPlaced, PaidImpliesCommitted, ReleasedOnce, NoOrder
  <1>4. SessionsInv
    BY <1>1, <1>2, IdleKnows DEF Init, SessionsInv, TypeInv
  <1>5. QED
    BY <1>1, <1>2, <1>3, <1>4, InvParts DEF TablesInv

LEMMA InvNext ==
  ASSUME Inv, [Next]_vars
  PROVE  Inv' /\ Kept
  <1>0. TypeInv'
    BY TypeNext, InvParts
  <1>1. ASSUME NEW w \in Web, Request(w) PROVE Inv' /\ Kept
    BY <1>0, <1>1, InvBegin DEF Worker
  <1>2. ASSUME NEW w \in Beat, BeginSweep(w) PROVE Inv' /\ Kept
    BY <1>0, <1>2, InvBegin DEF Worker
  <1>3. ASSUME NEW w \in Worker, Statement(w) PROVE Inv' /\ Kept
    <2>1. CASE LackLine(w)
      BY <1>0, <2>1, InvUnpaid DEF LackLine
    <2>2. QED
      BY <1>0, <1>3, <2>1, InvTakeLine, InvFinishCreate, InvCompleteStatement, InvUnpaid,
         InvFinishComplete, InvStaffStatement, InvFinishHeld, InvSweepStatement DEF Statement
  <1>4. ASSUME NEW w \in Worker, Failure(w) PROVE Inv' /\ Kept
    BY <1>0, <1>4, InvUnpaid DEF Failure, Abort, BreakCycle
  <1>5. ASSUME NEW o \in Order, Age(o) PROVE Inv' /\ Kept
    BY <1>0, <1>5, InvBeside DEF Age, locks, Inv, TxnPlaced, Placed
  <1>6. ASSUME NEW t \in Txn, NEW o \in Order, OpenTxn(t, o) PROVE Inv' /\ Kept
    <2>1. TxnPlaced'
      BY <1>6 DEF OpenTxn, Inv, TypeOK, TxnPlaced, Placed
    <2>2. QED
      BY <1>0, <1>6, <2>1, InvBeside DEF OpenTxn, locks
  <1>7. ASSUME NEW t \in Txn, FailTxn(t) PROVE Inv' /\ Kept
    <2>1. TxnPlaced'
      BY <1>7 DEF FailTxn, Inv, TypeOK, TxnPlaced, Placed
    <2>2. QED
      BY <1>0, <1>7, <2>1, InvBeside DEF FailTxn, locks
  <1>8. CASE UNCHANGED vars
    BY <1>0, <1>8, InvBeside DEF vars, Inv, TxnPlaced, Placed
  <1>9. QED
    BY <1>1, <1>2, <1>3, <1>4, <1>5, <1>6, <1>7, <1>8 DEF Next, Work

\* What every open transaction relies on holds until its COMMIT.
THEOREM InvCorrect == Spec => []Inv
  <1>1. Inv /\ [Next]_vars => Inv'
    BY InvNext
  <1>2. QED
    BY <1>1, InvInit, PTL DEF Spec

-----------------------------------------------------------------------------
(* The safety properties. *)

\* No variant is ever reserved beyond its stock, or below zero.
THEOREM RowsSound == Spec => []RowOK
  <1>1. Inv => RowOK
    BY DEF Inv
  <1>2. QED
    BY <1>1, InvCorrect, PTL

\* A paid order has its stock committed.
THEOREM PaidHasCommitted == Spec => []PaidImpliesCommitted
  <1>1. Inv => PaidImpliesCommitted
    BY DEF Inv
  <1>2. QED
    BY <1>1, InvCorrect, PTL

\* A reservation is given back at most once.
THEOREM ReleasedAtMostOnce == Spec => []ReleasedOnce
  <1>1. Inv => ReleasedOnce
    BY DEF Inv
  <1>2. QED
    BY <1>1, InvCorrect, PTL

\* A paid order stays paid.
THEOREM PaidStaysPaid == Spec => PaidForGood
  <1>1. Inv /\ [Next]_vars => [\A o \in Order : order[o].pay = "paid" => order'[o].pay = "paid"]_vars
    BY InvNext DEF Kept
  <1>2. QED
    BY <1>1, InvCorrect, PTL DEF Spec, PaidForGood

\* Committed stock is not given back.
THEOREM CommittedForGood == Spec => NoReleaseAfterCommit
  <1>1. Inv /\ [Next]_vars
          => [\A o \in Order : ledger'[o].rel > ledger[o].rel => ledger[o].com = 0]_vars
    BY InvNext DEF Kept
  <1>2. QED
    BY <1>1, InvCorrect, PTL DEF Spec, NoReleaseAfterCommit

-----------------------------------------------------------------------------
(* CommitInv: commits and the payments behind them, and what is still reserved. *)

\* Sessions that end a commit, and payments that are opened, keep the balance.
LEMMA Counting ==
  ASSUME NEW S, IsFiniteSet(S), NEW T, IsFiniteSet(T), NEW c \in Nat,
         c + Cardinality(S) <= Cardinality(T),
         NEW S2 \in SUBSET S, NEW T2, IsFiniteSet(T2), T \subseteq T2
  PROVE  /\ IsFiniteSet(S2)
         /\ c + Cardinality(S2) <= Cardinality(T2)
         /\ \A x \in S : S2 \subseteq S \ {x} => c + 1 + Cardinality(S2) <= Cardinality(T2)
  <1>1. /\ IsFiniteSet(S2) /\ Cardinality(S2) <= Cardinality(S)
        /\ Cardinality(S2) \in Nat /\ Cardinality(S) \in Nat
    BY FS_Subset, FS_CardinalityType
  <1>2. Cardinality(T) <= Cardinality(T2) /\ Cardinality(T) \in Nat /\ Cardinality(T2) \in Nat
    BY FS_Subset, FS_CardinalityType
  <1>3. ASSUME NEW x \in S, S2 \subseteq S \ {x}
        PROVE  Cardinality(S2) <= Cardinality(S) - 1
    <2>1. IsFiniteSet(S \ {x}) /\ Cardinality(S \ {x}) = Cardinality(S) - 1
      BY FS_RemoveElement
    <2>2. QED
      BY <1>3, <2>1, FS_Subset
  <1>4. QED
    BY <1>1, <1>2, <1>3

LEMMA FiniteTxns ==
  ASSUME NEW o
  PROVE  IsFiniteSet(TxnsOf(o)) /\ IsFiniteSet(TxnsOf(o)')
  BY TxnAssumption, FS_Subset DEF TxnsOf

\* A step in which nobody starts a commit.
LEMMA BackedStep ==
  ASSUME CommitsBacked, TypeOK, TypeOK',
         \A t \in Txn : txn[t].of # None => txn'[t].of = txn[t].of,
         \A o \in Order :
           \/ Committing(o)' \subseteq Committing(o) /\ ledger'[o].com = ledger[o].com
           \/ \E w \in Committing(o) : /\ Committing(o)' \subseteq Committing(o) \ {w}
                                       /\ ledger'[o].com = ledger[o].com + 1
  PROVE  CommitsBacked'
  <1>1. ASSUME NEW o \in Order
        PROVE  /\ IsFiniteSet(Committing(o)')
               /\ ledger'[o].com + Cardinality(Committing(o)') <= Cardinality(TxnsOf(o)')
    <2>1. TxnsOf(o) \subseteq TxnsOf(o)'
      BY NoneAssumption DEF TxnsOf
    <2>2. ledger[o].com \in Nat
      BY DEF TypeOK
    <2>3. /\ IsFiniteSet(Committing(o))
          /\ ledger[o].com + Cardinality(Committing(o)) <= Cardinality(TxnsOf(o))
      BY DEF CommitsBacked
    <2> DEFINE S == Committing(o)
               T == TxnsOf(o)
               S2 == Committing(o)'
               T2 == TxnsOf(o)'
               c == ledger[o].com
    <2>4. S2 \subseteq S
      OBVIOUS
    <2>5. IsFiniteSet(T) /\ IsFiniteSet(T2)
      BY FiniteTxns
    <2> HIDE DEF S, T, S2, T2, c
    <2>6. /\ IsFiniteSet(S2)
          /\ c + Cardinality(S2) <= Cardinality(T2)
          /\ \A x \in S : S2 \subseteq S \ {x} => c + 1 + Cardinality(S2) <= Cardinality(T2)
      <3>1. IsFiniteSet(S) /\ c \in Nat /\ c + Cardinality(S) <= Cardinality(T) /\ T \subseteq T2
        BY <2>1, <2>2, <2>3 DEF S, T, T2, c
      <3>2. QED
        BY <2>4, <2>5, <3>1, Counting
    <2>7. \/ ledger'[o].com = c
          \/ \E x \in S : S2 \subseteq S \ {x} /\ ledger'[o].com = c + 1
      BY DEF S, S2, c
    <2>8. IsFiniteSet(S2) /\ ledger'[o].com + Cardinality(S2) <= Cardinality(T2)
      BY <2>6, <2>7
    <2>9. QED
      BY <2>8 DEF S2, T2
  <1>2. QED
    BY <1>1 DEF CommitsBacked

\* A session takes payment rows that were free and changes its job to j; what
\* the other sessions know stays true.
LEMMA CommitSession ==
  ASSUME CommitInv, Inv', NEW w \in Worker, NEW j \in Job, Continue(w, j),
         UNCHANGED tables,
         \A t \in Txn : tlock'[t] = tlock[t] \/ tlock[t] = None,
         HoldsTxn(w, j)', GivesUp(j),
         \/ CommitsBacked'
         \/ j.op = "complete" => job[w].op = "complete" /\ j.done \subseteq job[w].done
         \/ j.done = {}
  PROVE  CommitInv'
  <1>1. None \notin Worker
    BY ConstantFacts DEF Assumptions
  <1>2. job'[w] = j /\ \A x \in Worker \ {w} : job'[x] = job[x]
    BY DEF CommitInv, Inv, TypeOK, Continue
  <1>3. CommitsBacked'
    <2>1. CASE \/ j.op = "complete" => job[w].op = "complete" /\ j.done \subseteq job[w].done
               \/ j.done = {}
      <3>1. \A o \in Order : Committing(o)' \subseteq Committing(o) /\ ledger'[o].com = ledger[o].com
        BY <1>2, <2>1 DEF Committing, tables
      <3>2. QED
        BY <3>1, BackedStep DEF CommitInv, Inv, tables
    <2>2. QED
      BY <2>1
  <1>4. BooksOpen'
    BY DEF CommitInv, BooksOpen, Held, Placed, tables
  <1>5. ASSUME NEW x \in Worker PROVE HoldsTxn(x, job[x])' /\ GivesUp(job[x])'
    <2>1. CASE x = w
      BY <1>2, <2>1 DEF HoldsTxn, GivesUp
    <2>2. CASE x # w
      BY <1>1, <1>2, <2>2 DEF CommitInv, HoldsTxn, GivesUp, tables
    <2>3. QED
      BY <2>1, <2>2
  <1>6. QED
    BY <1>3, <1>4, <1>5 DEF CommitInv

\* Sessions that hold different payments of an order are no more than these.
LEMMA DistinctPayments ==
  ASSUME NEW S, NEW T, IsFiniteSet(T), NEW pays, NEW lock,
         \A x \in S : pays[x] \in T /\ lock[pays[x]] = x
  PROVE  IsFiniteSet(S) /\ 0 + Cardinality(S) <= Cardinality(T)
  <1> DEFINE f == [x \in S |-> pays[x]]
  <1>1. f \in Injection(S, T)
    BY DEF Injection, IsInjective
  <1> HIDE DEF f
  <1>2. IsFiniteSet(S) /\ Cardinality(S) <= Cardinality(T)
    BY <1>1, FS_Injection
  <1>3. Cardinality(S) \in Nat
    BY <1>2, FS_CardinalityType
  <1>4. QED
    BY <1>2, <1>3

LEMMA CommitBegin ==
  ASSUME CommitInv, Inv', NEW w \in Worker, Request(w) \/ BeginSweep(w)
  PROVE  CommitInv'
  <1>1. ASSUME NEW j \in Job, Begin(w, j), UNCHANGED <<tables, locks>>, j.done = {},
               j.op = "complete" => j.step = "read" /\ j.txn \in Txn /\ txn[j.txn].of = j.ord
        PROVE  CommitInv'
    BY <1>1, CommitSession DEF Begin, HoldsTxn, GivesUp, tables, locks
  <1>2. ASSUME NEW o \in Order, BeginCreate(w, o) PROVE CommitInv'
    <2> DEFINE j == [Idle EXCEPT !.op = "create", !.step = "lines", !.ord = o,
                                 !.todo = Need(o)]
    <2>1. j \in Job
      BY DEF Idle, Job, Ops, Steps, Modes, Need
    <2>2. j.done = {} /\ j.op = "create"
      BY DEF Idle
    <2>3. Begin(w, j) /\ UNCHANGED <<tables, locks>>
      BY <1>2 DEF BeginCreate
    <2> HIDE DEF j
    <2>4. QED
      BY <1>1, <2>1, <2>2, <2>3
  <1>3. ASSUME NEW t \in Txn, BeginComplete(w, t) PROVE CommitInv'
    <2> DEFINE j == [Idle EXCEPT !.op = "complete", !.step = "read",
                           !.ord = txn[t].of, !.txn = t,
                           !.mode = IF txn[t].status = "succeeded"
                                    THEN "again" ELSE "first"]
    <2>1. j \in Job
      BY <1>3 DEF BeginComplete, CommitInv, Inv, TypeOK, Idle, Job, Ops, Steps, Modes
    <2>2. j.done = {} /\ j.op = "complete" /\ j.step = "read" /\ j.txn = t /\ txn[t].of = j.ord
      BY DEF Idle
    <2>3. Begin(w, j) /\ UNCHANGED <<tables, locks>>
      BY <1>3 DEF BeginComplete
    <2> HIDE DEF j
    <2>4. QED
      BY <1>1, <2>1, <2>2, <2>3
  <1>4. ASSUME NEW o \in Order, NEW to \in StaffTargets, BeginStaff(w, o, to) PROVE CommitInv'
    <2> DEFINE j == [Idle EXCEPT !.op = "staff", !.step = "save", !.ord = o, !.to = to]
    <2>1. j \in Job
      BY ConstantFacts DEF Idle, Job, Ops, Steps, Modes, Assumptions
    <2>2. j.done = {} /\ j.op = "staff"
      BY DEF Idle
    <2>3. Begin(w, j) /\ UNCHANGED <<tables, locks>>
      BY <1>4 DEF BeginStaff
    <2> HIDE DEF j
    <2>4. QED
      BY <1>1, <2>1, <2>2, <2>3
  <1>5. CASE BeginSweep(w)
    <2> DEFINE j == [Idle EXCEPT !.op = "sweep", !.step = "lock",
                                 !.queue = {o \in Order : Expirable(o)}]
    <2>1. j \in Job
      BY DEF Idle, Job, Ops, Steps, Modes
    <2>2. j.done = {} /\ j.op = "sweep"
      BY DEF Idle
    <2>3. Begin(w, j) /\ UNCHANGED <<tables, locks>>
      BY <1>5 DEF BeginSweep
    <2> HIDE DEF j
    <2>4. QED
      BY <1>1, <2>1, <2>2, <2>3
  <1>6. QED
    BY <1>2, <1>3, <1>4, <1>5 DEF Request

\* A completion that finds the ledger without a commit is about to make one.
LEMMA CommitCheck ==
  ASSUME CommitInv, Inv', NEW w \in Worker, CheckCommitted(w)
  PROVE  CommitInv'
  <1>1. /\ job[w] \in Job /\ job[w].op = "complete" /\ job[w].step = "check"
        /\ UNCHANGED <<tables, locks>>
        /\ EitherLines(w, ledger[job[w].ord].com > 0)
    BY DEF CheckCommitted, At, CommitInv, Inv, TypeOK
  <1>2. /\ job[w].txn \in Txn /\ txn[job[w].txn].of = job[w].ord
        /\ tlock[job[w].txn] = w /\ job[w].done = {}
    BY <1>1 DEF CommitInv, HoldsTxn
  <1>3. job[w].ord \in Order
    BY <1>1 DEF CommitInv, Inv, Focused
  <1>4. PICK j \in Job :
          /\ Continue(w, j) /\ j.op = "complete" /\ j.txn = job[w].txn /\ j.ord = job[w].ord
          /\ j.step \in {"lines", "close"}
          /\ j.done = {} \/ (j.done = {j.ord} /\ ~(ledger[j.ord].com > 0))
    <2> DEFINE j == IF ledger[job[w].ord].com > 0 THEN [job[w] EXCEPT !.step = "close"]
                    ELSE [job[w] EXCEPT !.step = "lines", !.done = {job[w].ord},
                                        !.todo = Need(job[w].ord)]
    <2>1. j \in Job
      BY <1>1, <1>3 DEF Job, Steps, Need
    <2>2. /\ j.op = "complete" /\ j.txn = job[w].txn /\ j.ord = job[w].ord
          /\ j.step \in {"lines", "close"}
          /\ j.done = {} \/ (j.done = {j.ord} /\ ~(ledger[j.ord].com > 0))
      BY <1>1, <1>2 DEF Job
    <2>3. Continue(w, j)
      BY <1>1 DEF EitherLines
    <2> HIDE DEF j
    <2>4. QED
      BY <2>1, <2>2, <2>3
  <1>5. HoldsTxn(w, j)' /\ GivesUp(j)
    BY <1>1, <1>2, <1>4 DEF HoldsTxn, GivesUp, tables, locks
  <1>6. CASE j.done = {}
    BY <1>1, <1>4, <1>5, <1>6, CommitSession DEF locks
  <1>7. CASE j.done = {j.ord} /\ ~(ledger[j.ord].com > 0)
    <2>1. job'[w] = j /\ \A x \in Worker \ {w} : job'[x] = job[x]
      BY <1>4 DEF CommitInv, Inv, TypeOK, Continue
    <2>2. ledger[j.ord].com = 0
      BY <1>3, <1>4, <1>7 DEF CommitInv, Inv, TypeOK
    <2>3. ASSUME NEW o \in Order, o # j.ord
          PROVE  /\ IsFiniteSet(Committing(o)')
                 /\ ledger'[o].com + Cardinality(Committing(o)') <= Cardinality(TxnsOf(o)')
      <3>1. Committing(o)' = Committing(o)
        BY <1>2, <1>7, <2>1, <2>3 DEF Committing
      <3>2. TxnsOf(o)' = TxnsOf(o) /\ ledger' = ledger
        BY <1>1 DEF TxnsOf, tables
      <3>3. QED
        BY <3>1, <3>2 DEF CommitInv, CommitsBacked
    <2>4. \A x \in Committing(j.ord)' : /\ job'[x].txn \in TxnsOf(j.ord)'
                                        /\ tlock'[job'[x].txn] = x
      <3>1. ASSUME NEW x \in Worker, x # w, job[x].op = "complete", j.ord \in job[x].done
            PROVE  /\ job[x].txn \in Txn /\ txn[job[x].txn].of = j.ord
                   /\ tlock[job[x].txn] = x
        <4>1. job[x].done \subseteq {job[x].ord}
          BY <3>1 DEF CommitInv, Inv, Knows, KnowsPaid
        <4>2. HoldsTxn(x, job[x]) /\ job[x] \in Job
          BY DEF CommitInv, Inv, TypeOK
        <4>3. /\ job[x].txn \in Txn /\ txn[job[x].txn].of = job[x].ord
              /\ job[x].step \notin {"read", "save"}
          BY <3>1, <4>2 DEF HoldsTxn
        <4>4. QED
          BY <3>1, <4>1, <4>2, <4>3 DEF HoldsTxn
      <3>2. QED
        BY <1>1, <1>2, <1>4, <2>1, <3>1 DEF Committing, TxnsOf, tables, locks
    <2>5. /\ IsFiniteSet(Committing(j.ord)')
          /\ ledger'[j.ord].com + Cardinality(Committing(j.ord)') <= Cardinality(TxnsOf(j.ord)')
      <3> DEFINE S == Committing(j.ord)'
                 T == TxnsOf(j.ord)'
                 pays == [x \in Worker |-> job'[x].txn]
      <3>1. \A x \in S : pays[x] \in T /\ tlock'[pays[x]] = x
        BY <2>4 DEF Committing
      <3>2. IsFiniteSet(T)
        BY FiniteTxns
      <3> HIDE DEF S, T, pays
      <3>3. IsFiniteSet(S) /\ 0 + Cardinality(S) <= Cardinality(T)
        BY <3>1, <3>2, DistinctPayments
      <3>4. ledger'[j.ord].com = 0
        BY <1>1, <2>2 DEF tables
      <3>5. QED
        BY <3>3, <3>4 DEF S, T
    <2>6. CommitsBacked'
      BY <2>3, <2>5 DEF CommitsBacked
    <2>7. QED
      BY <1>1, <1>4, <1>5, <2>6, CommitSession DEF locks
  <1>8. QED
    BY <1>4, <1>6, <1>7

\* The statements in which nobody starts a commit.
LEMMA CommitStatement ==
  ASSUME CommitInv, Inv', NEW w \in Worker,
         \/ TakeLine(w) \/ ReadOrder(w) \/ SaveTxn(w) \/ SaveStatus(w) \/ CheckReleased(w)
         \/ LockOrder(w) \/ NextOrder(w) \/ FailPending(w)
  PROVE  CommitInv'
  <1>0. /\ job[w] \in Job /\ HoldsTxn(w, job[w]) /\ GivesUp(job[w]) /\ Knows(w, job[w])
        /\ tlock \in [Txn -> Worker \cup {None}]
    BY DEF CommitInv, Inv, TypeOK
  <1>1. CASE TakeLine(w)
    <2>1. PICK v \in NextLines(w) : Continue(w, Moved(job[w], v))
      BY <1>1 DEF TakeLine
    <2>2. job'[w] \in Job /\ job'[w] = Moved(job[w], v)
      BY <2>1 DEF Inv, CommitInv, TypeOK, Continue
    <2>3. PICK j \in Job : j = Moved(job[w], v)
      BY <2>2
    <2>4. /\ j.op = job[w].op /\ j.ord = job[w].ord /\ j.txn = job[w].txn /\ j.to = job[w].to
          /\ j.done = job[w].done /\ j.batch = job[w].batch
          /\ job[w].step = "lines" /\ j.step \in {"lines", "payments", "close"}
      BY <1>0, <1>1, <2>3 DEF TakeLine, Moved, Job
    <2>5. HoldsTxn(w, j)' /\ GivesUp(j) /\ UNCHANGED tables /\ UNCHANGED tlock
      BY <1>0, <1>1, <2>4 DEF TakeLine, HoldsTxn, GivesUp, tables
    <2>6. QED
      BY <2>1, <2>3, <2>4, <2>5, CommitSession
  <1>2. CASE ReadOrder(w)
    <2>1. PICK j \in Job :
            /\ Continue(w, j) /\ j.op = "complete" /\ j.ord = job[w].ord /\ j.txn = job[w].txn
            /\ j.done = job[w].done /\ j.step = "save"
      <3>1. job'[w] \in Job
        BY DEF Inv, TypeOK
      <3>2. Continue(w, job'[w])
        BY <1>2 DEF ReadOrder, Continue, CommitInv, Inv, TypeOK
      <3>3. /\ job'[w].op = "complete" /\ job'[w].ord = job[w].ord /\ job'[w].txn = job[w].txn
            /\ job'[w].done = job[w].done /\ job'[w].step = "save"
        BY <1>0, <1>2 DEF ReadOrder, At, Continue, CommitInv, Inv, TypeOK, Job
      <3>4. QED
        BY <3>1, <3>2, <3>3
    <2>2. job[w].op = "complete" /\ job[w].step = "read" /\ UNCHANGED <<tables, locks>>
      BY <1>2 DEF ReadOrder, At
    <2>3. HoldsTxn(w, j)' /\ GivesUp(j)
      BY <1>0, <2>1, <2>2 DEF HoldsTxn, GivesUp, tables, locks
    <2>4. QED
      BY <2>1, <2>2, <2>3, CommitSession DEF locks
  <1>3. CASE SaveTxn(w)
    <2>1. /\ job[w].op = "complete" /\ job[w].step = "save" /\ UNCHANGED tables
          /\ tlock[job[w].txn] = None /\ tlock' = [tlock EXCEPT ![job[w].txn] = w]
      BY <1>3 DEF SaveTxn, At
    <2>2. PICK j \in Job :
            /\ Continue(w, j) /\ j.op = "complete" /\ j.ord = job[w].ord /\ j.txn = job[w].txn
            /\ j.done = job[w].done /\ j.step \in {"check", "close"}
      <3> DEFINE j == [job[w] EXCEPT !.step = IF job[w].mode = "first" THEN "check" ELSE "close"]
      <3>1. j \in Job /\ Continue(w, j)
        BY <1>0, <1>3 DEF SaveTxn, Job, Steps
      <3>2. /\ j.op = "complete" /\ j.ord = job[w].ord /\ j.txn = job[w].txn
            /\ j.done = job[w].done /\ j.step \in {"check", "close"}
        BY <1>0, <2>1 DEF Job
      <3> HIDE DEF j
      <3>3. QED
        BY <3>1, <3>2
    <2>3. HoldsTxn(w, j)' /\ GivesUp(j)
      BY <1>0, <2>1, <2>2 DEF HoldsTxn, GivesUp, tables
    <2>4. \A t \in Txn : tlock'[t] = tlock[t] \/ tlock[t] = None
      BY <1>0, <2>1
    <2>5. QED
      BY <2>1, <2>2, <2>3, <2>4, CommitSession
  <1>4. CASE SaveStatus(w) \/ CheckReleased(w)
    <2>1. job[w].op = "staff" /\ UNCHANGED tables /\ UNCHANGED tlock
      BY <1>4 DEF SaveStatus, CheckReleased, At, locks
    <2>2. job[w].ord \in Order
      BY <2>1 DEF CommitInv, Inv, Focused
    <2>3. PICK j \in Job :
            /\ Continue(w, j) /\ j.op = "staff" /\ j.ord = job[w].ord /\ j.to = job[w].to
            /\ j.done = job[w].done \/ j.done = {j.ord}
      <3> DEFINE j1 == [job[w] EXCEPT !.step = IF job[w].to = "cancelled" THEN "check" ELSE "close"]
                 j2 == [job[w] EXCEPT !.step = "close"]
                 j3 == [job[w] EXCEPT !.step = "lines", !.done = {job[w].ord},
                                      !.todo = Need(job[w].ord)]
      <3>1. j1 \in Job /\ j2 \in Job /\ j3 \in Job
        BY <1>0, <2>2 DEF Job, Steps, Need
      <3>2. Continue(w, j1) \/ Continue(w, j2) \/ Continue(w, j3)
        BY <1>4 DEF SaveStatus, CheckReleased, EitherLines
      <3>3. \A j \in {j1, j2, j3} : /\ j.op = "staff" /\ j.ord = job[w].ord /\ j.to = job[w].to
                                    /\ j.done = job[w].done \/ j.done = {j.ord}
        BY <1>0, <2>1 DEF Job
      <3> HIDE DEF j1, j2, j3
      <3>4. QED
        BY <3>1, <3>2, <3>3
    <2>4. HoldsTxn(w, j)' /\ GivesUp(j)
      BY <1>0, <2>1, <2>3 DEF HoldsTxn, GivesUp
    <2>5. QED
      BY <2>1, <2>3, <2>4, CommitSession
  <1>5. CASE LockOrder(w) \/ NextOrder(w) \/ FailPending(w)
    <2>1. /\ job[w].op = "sweep" /\ UNCHANGED tables
          /\ \A t \in Txn : tlock'[t] = tlock[t] \/ tlock[t] = None
      BY <1>0, <1>5 DEF LockOrder, NextOrder, FailPending, At, locks, PendingOf
    <2>2. PICK j \in Job :
            /\ Continue(w, j) /\ j.op = "sweep" /\ job[w].batch \subseteq j.batch
            /\ j.done \subseteq j.batch
      <3>1. job'[w] \in Job
        BY DEF Inv, TypeOK
      <3>2. /\ Continue(w, job'[w]) /\ job'[w].op = "sweep"
            /\ job[w].batch \subseteq job'[w].batch /\ job'[w].done \subseteq job'[w].batch
        <4>1. CASE LockOrder(w)
          <5>1. PICK o \in First(job[w].queue) : Continue(w, Locked(job[w], o))
            BY <4>1 DEF LockOrder
          <5>2. job'[w] = Locked(job[w], o)
            BY <5>1 DEF Continue, CommitInv, Inv, TypeOK
          <5>3. QED
            BY <1>0, <2>1, <5>1, <5>2 DEF Locked, GivesUp, Job
        <4>2. CASE NextOrder(w)
          <5>1. PICK o \in First(job[w].queue) : Continue(w, Turned(job[w], o))
            BY <4>2 DEF NextOrder
          <5>2. job'[w] = Turned(job[w], o)
            BY <5>1 DEF Continue, CommitInv, Inv, TypeOK
          <5>3. o \in job[w].batch
            BY <1>0, <2>1, <4>2 DEF NextOrder, At, First, Knows, HoldsReleased
          <5>4. QED
            BY <1>0, <2>1, <5>1, <5>2, <5>3 DEF Turned, GivesUp, Job
        <4>3. CASE FailPending(w)
          <5>1. job'[w] = [job[w] EXCEPT !.step = "next"] /\ Continue(w, job'[w])
            BY <4>3 DEF FailPending, Continue, CommitInv, Inv, TypeOK
          <5>2. QED
            BY <1>0, <2>1, <5>1 DEF GivesUp, Job
        <4>4. QED
          BY <1>5, <4>1, <4>2, <4>3
      <3>3. QED
        BY <3>1, <3>2
    <2>3. HoldsTxn(w, j)' /\ GivesUp(j)
      BY <2>2 DEF HoldsTxn, GivesUp
    <2>4. QED
      BY <2>1, <2>2, <2>3, CommitSession
  <1>6. QED
    BY <1>1, <1>2, <1>3, <1>4, <1>5

\* A transaction ends; it wrote nothing on an order that is not there.
LEMMA CommitEnd ==
  ASSUME CommitInv, Inv', NEW w \in Worker, EndTransaction(w),
         CommitStockWrites(w) \/ UNCHANGED ledger,
         \A t \in Txn : txn'[t].of = txn[t].of,
         \A o \in Order : ~Placed(o)' => /\ ~Placed(o)
                                         /\ ledger' = ledger \/ o \notin job[w].done
  PROVE  CommitInv'
  <1>1. None \notin Worker
    BY ConstantFacts DEF Assumptions
  <1>2. job'[w] = Idle /\ \A x \in Worker \ {w} : job'[x] = job[x]
    BY DEF EndTransaction, CommitInv, Inv, TypeOK
  <1>3. \A o \in Order : Committing(o)' \subseteq Committing(o) \ {w}
    BY <1>2 DEF Committing, Idle
  <1>4. ASSUME NEW o \in Order
        PROVE  \/ ledger'[o] = ledger[o]
               \/ o \in job[w].done /\ ledger'[o].com = ledger[o].com /\ job[w].op # "complete"
               \/ w \in Committing(o) /\ ledger'[o].com = ledger[o].com + 1
    BY DEF CommitStockWrites, Committing, CommitInv, Inv, TypeOK
  <1>5. CommitsBacked'
    BY <1>3, <1>4, BackedStep DEF CommitInv, Inv
  <1>6. BooksOpen'
    <2>1. \A o \in Order : ledger' = ledger \/ o \notin job[w].done => ledger'[o] = ledger[o]
      BY DEF CommitStockWrites
    <2>2. QED
      BY <2>1 DEF CommitInv, BooksOpen, Held
  <1>7. ASSUME NEW x \in Worker PROVE HoldsTxn(x, job[x])' /\ GivesUp(job[x])'
    <2>1. CASE x = w
      BY <1>2, <2>1 DEF HoldsTxn, GivesUp, Idle
    <2>2. CASE x # w
      BY <1>1, <1>2, <2>2 DEF CommitInv, Inv, TypeOK, HoldsTxn, GivesUp, EndTransaction, Unlocked
    <2>3. QED
      BY <2>1, <2>2
  <1>8. QED
    BY <1>5, <1>6, <1>7 DEF CommitInv

LEMMA CommitFinish ==
  ASSUME CommitInv, Inv', NEW w \in Worker,
         \/ Rollback(w) \/ FinishCreate(w) \/ FinishLate(w) \/ FinishComplete(w)
         \/ FinishStaff(w) \/ FinishSweep(w)
  PROVE  CommitInv'
  <1>0. /\ Knows(w, job[w]) /\ GivesUp(job[w]) /\ Inv /\ TypeOK
        /\ job[w].op \in {"create", "complete", "staff"} => job[w].ord \in Order
    BY DEF CommitInv, Inv, Focused
  <1>1. EndTransaction(w) /\ (CommitStockWrites(w) \/ UNCHANGED ledger)
    BY DEF Rollback, FinishCreate, FinishLate, FinishComplete, FinishStaff, FinishSweep, tables
  <1>2. \A t \in Txn : txn'[t].of = txn[t].of
    <2>1. CASE Rollback(w) \/ FinishCreate(w) \/ FinishStaff(w)
      BY <2>1 DEF Rollback, FinishCreate, FinishStaff, tables
    <2>2. CASE FinishLate(w) \/ FinishComplete(w)
      <3>1. txn' = [txn EXCEPT ![job[w].txn] = [@ EXCEPT !.status = "succeeded"]]
        BY <2>2 DEF FinishLate, FinishComplete
      <3>2. QED
        BY <1>0, <3>1 DEF TypeOK
    <2>3. CASE FinishSweep(w)
      BY <1>0, <2>3 DEF FinishSweep, TypeOK
    <2>4. QED
      BY <2>1, <2>2, <2>3
  <1>3. ASSUME NEW o \in Order, ~Placed(o)'
        PROVE  ~Placed(o) /\ (ledger' = ledger \/ o \notin job[w].done)
    <2>1. CASE Rollback(w)
      BY <1>3, <2>1 DEF Rollback, tables, Placed
    <2>2. CASE FinishLate(w)
      BY <1>0, <1>3, <2>2 DEF FinishLate, Placed, TypeOK, OrderRow
    <2>3. CASE FinishCreate(w)
      BY <1>0, <1>3, <2>3 DEF FinishCreate, At, Placed, Knows, HasPlace, TypeOK
    <2>4. CASE FinishComplete(w)
      <3>1. /\ order'[job[w].ord].pay = "paid"
            /\ o # job[w].ord => order'[o] = order[o]
            /\ job[w].done \subseteq {job[w].ord}
        BY <1>0, <2>4 DEF FinishComplete, At, Paid, TypeOK, OrderRow, Knows, KnowsPaid
      <3>2. QED
        BY <1>3, <3>1 DEF Placed
    <2>5. CASE FinishStaff(w)
      <3>1. /\ job[w].ord \in Order /\ Placed(job[w].ord)
            /\ job[w].done \subseteq {job[w].ord}
        BY <1>0, <2>5 DEF FinishStaff, At, Knows, HasPlace, GivesUp
      <3>2. /\ order'[job[w].ord].pay = order[job[w].ord].pay
            /\ order'[job[w].ord].ful = job[w].to
            /\ o # job[w].ord => order'[o] = order[o]
        BY <1>0, <2>5, <3>1 DEF FinishStaff, TypeOK, OrderRow
      <3>3. QED
        BY <1>3, <3>1, <3>2 DEF Placed
    <2>6. CASE FinishSweep(w)
      <3>1. /\ o \in job[w].batch => order'[o].pay = "expired"
            /\ o \notin job[w].batch => order'[o] = order[o]
            /\ job[w].done \subseteq job[w].batch
        BY <1>0, <2>6 DEF FinishSweep, At, GivesUp
      <3>2. QED
        BY <1>3, <3>1 DEF Placed
    <2>7. QED
      BY <2>1, <2>2, <2>3, <2>4, <2>5, <2>6
  <1>4. QED
    BY <1>1, <1>2, <1>3, CommitEnd

\* Payments are opened and failed, and orders grow old, beside the sessions.
LEMMA CommitBeside ==
  ASSUME CommitInv, Inv', UNCHANGED <<order, row, ledger, locks, job>>,
         \A t \in Txn : txn[t].of # None => txn'[t].of = txn[t].of
  PROVE  CommitInv'
  <1>1. CommitsBacked'
    <2>1. \A o \in Order : Committing(o)' \subseteq Committing(o) /\ ledger'[o].com = ledger[o].com
      BY DEF Committing
    <2>2. QED
      BY <2>1, BackedStep DEF CommitInv, Inv
  <1>2. BooksOpen'
    BY DEF CommitInv, BooksOpen, Held, Placed
  <1>3. ASSUME NEW w \in Worker PROVE HoldsTxn(w, job[w])' /\ GivesUp(job[w])'
    <2>1. job[w].op = "complete" => job[w].ord \in Order
      BY DEF CommitInv, Inv, Focused
    <2>2. QED
      BY <2>1, NoneAssumption DEF CommitInv, HoldsTxn, GivesUp, locks
  <1>4. QED
    BY <1>1, <1>2, <1>3 DEF CommitInv

LEMMA CommitInit == Init => CommitInv
  <1> SUFFICES ASSUME Init PROVE CommitInv
    OBVIOUS
  <1>1. ASSUME NEW o \in Order
        PROVE  /\ IsFiniteSet(Committing(o))
               /\ ledger[o].com + Cardinality(Committing(o)) <= Cardinality(TxnsOf(o))
    <2>1. Committing(o) = {} /\ ledger[o].com = 0
      BY DEF Init, Committing, Idle
    <2>2. Cardinality(TxnsOf(o)) \in Nat
      BY FiniteTxns, FS_CardinalityType
    <2>3. QED
      BY <2>1, <2>2, FS_EmptySet
  <1>2. BooksOpen
    BY DEF Init, BooksOpen, Held
  <1>3. \A w \in Worker : HoldsTxn(w, job[w]) /\ GivesUp(job[w])
    BY DEF Init, HoldsTxn, GivesUp, Idle
  <1>4. QED
    BY <1>1, <1>2, <1>3, InvInit DEF CommitInv, CommitsBacked

LEMMA CommitNext ==
  ASSUME CommitInv, [Next]_vars
  PROVE  CommitInv'
  <1>0. Inv'
    BY InvNext DEF CommitInv
  <1>1. ASSUME NEW w \in Web, Request(w) PROVE CommitInv'
    BY <1>0, <1>1, CommitBegin DEF Worker
  <1>2. ASSUME NEW w \in Beat, BeginSweep(w) PROVE CommitInv'
    BY <1>0, <1>2, CommitBegin DEF Worker
  <1>3. ASSUME NEW w \in Worker, Statement(w) PROVE CommitInv'
    <2>1. CASE LackLine(w)
      BY <1>0, <2>1, CommitFinish DEF LackLine
    <2>2. QED
      BY <1>0, <1>3, <2>1, CommitStatement, CommitCheck, CommitFinish DEF Statement
  <1>4. ASSUME NEW w \in Worker, Failure(w) PROVE CommitInv'
    BY <1>0, <1>4, CommitFinish DEF Failure, Abort, BreakCycle
  <1>5. ASSUME NEW o \in Order, Age(o) PROVE CommitInv'
    BY <1>0, <1>5, CommitBeside DEF Age
  <1>6. ASSUME NEW t \in Txn, NEW o \in Order, OpenTxn(t, o) PROVE CommitInv'
    BY <1>0, <1>6, CommitBeside DEF OpenTxn, CommitInv, Inv, TypeOK
  <1>7. ASSUME NEW t \in Txn, FailTxn(t) PROVE CommitInv'
    BY <1>0, <1>7, CommitBeside DEF FailTxn, CommitInv, Inv, TypeOK
  <1>8. CASE UNCHANGED vars
    BY <1>0, <1>8, CommitBeside DEF vars, locks
  <1>9. QED
    BY <1>1, <1>2, <1>3, <1>4, <1>5, <1>6, <1>7, <1>8 DEF Next, Work

\* Each commit of stock, done or under way, has a payment of its own behind it.
THEOREM CommitInvCorrect == Spec => []CommitInv
  <1>1. CommitInv /\ [Next]_vars => CommitInv'
    BY CommitNext
  <1>2. QED
    BY <1>1, CommitInit, PTL DEF Spec

\* An order's stock is committed at most once per payment of the order.
THEOREM OneCommitPerPayment == Spec => []CommitPerPayment
  <1>1. CommitInv => CommitPerPayment
    <2> SUFFICES ASSUME CommitInv, NEW o \in Order
                 PROVE  ledger[o].com <= Cardinality({t \in Txn : txn[t].of = o})
      BY DEF CommitPerPayment
    <2>1. /\ IsFiniteSet(Committing(o))
          /\ ledger[o].com + Cardinality(Committing(o)) <= Cardinality(TxnsOf(o))
      BY DEF CommitInv, CommitsBacked
    <2>2. Cardinality(Committing(o)) \in Nat /\ ledger[o].com \in Nat
          /\ Cardinality(TxnsOf(o)) \in Nat
      BY <2>1, FiniteTxns, FS_CardinalityType DEF CommitInv, Inv, TypeOK
    <2>3. ledger[o].com <= Cardinality(TxnsOf(o))
      BY <2>1, <2>2
    <2>4. QED
      BY <2>3 DEF TxnsOf
  <1>2. QED
    BY <1>1, CommitInvCorrect, PTL

\* A transaction that ends leaves no order waiting whose stock it commits or gives
\* back; what it writes on other orders changes neither their status nor their ledger.
LEMMA HeldFinish ==
  ASSUME CommitInv, NEW w \in Worker, NEW o \in Order,
         \/ Rollback(w) \/ FinishCreate(w) \/ FinishLate(w) \/ FinishComplete(w)
         \/ FinishStaff(w) \/ FinishSweep(w),
         (Awaits(o) /\ ~Held(o))'
  PROVE  (Awaits(o) /\ ~Held(o)) \/ StaffReopens(o)
  <1>0. /\ Knows(w, job[w]) /\ GivesUp(job[w]) /\ TypeOK /\ BooksOpen
        /\ job[w].op \in {"create", "complete", "staff"} => job[w].ord \in Order
    BY DEF CommitInv, Inv, Focused
  <1>1. CommitStockWrites(w) /\ o \notin job[w].done => ledger'[o] = ledger[o]
    BY DEF CommitStockWrites
  <1>2. CASE Rollback(w)
    BY <1>2 DEF Rollback, tables, Awaits, Held
  <1>3. CASE FinishLate(w)
    BY <1>0, <1>3 DEF FinishLate, Awaits, Held, TypeOK, OrderRow
  <1>4. CASE FinishCreate(w)
    <2>1. job[w].done = {} /\ job[w].ord \in Order /\ ~Placed(job[w].ord)
      BY <1>0, <1>4 DEF FinishCreate, At, Knows, HasPlace
    <2>2. ledger'[o] = ledger[o]
      BY <1>1, <1>4, <2>1 DEF FinishCreate
    <2>3. o # job[w].ord
      BY <1>0, <2>1, <2>2 DEF BooksOpen, Held
    <2>4. order'[o] = order[o]
      BY <1>0, <1>4, <2>1, <2>3 DEF FinishCreate, TypeOK
    <2>5. QED
      BY <2>2, <2>4 DEF Awaits, Held
  <1>5. CASE FinishComplete(w)
    <2>1. /\ order'[job[w].ord].pay = "paid"
          /\ o # job[w].ord => order'[o] = order[o]
          /\ job[w].done \subseteq {job[w].ord}
      BY <1>0, <1>5 DEF FinishComplete, At, Paid, TypeOK, OrderRow, Knows, KnowsPaid
    <2>2. QED
      BY <1>1, <1>5, <2>1 DEF FinishComplete, Awaits, Held
  <1>6. CASE FinishStaff(w)
    <2>1. job[w].ord \in Order /\ job[w].done \subseteq {job[w].ord}
      BY <1>0, <1>6 DEF FinishStaff, At, GivesUp
    <2>2. /\ order'[job[w].ord].ful = job[w].to
          /\ o # job[w].ord => order'[o] = order[o]
      BY <1>0, <1>6, <2>1 DEF FinishStaff, TypeOK, OrderRow
    <2>3. CASE o = job[w].ord
      BY <1>6, <2>2, <2>3 DEF StaffReopens, Awaits
    <2>4. CASE o # job[w].ord
      BY <1>1, <1>6, <2>1, <2>2, <2>4 DEF FinishStaff, Awaits, Held
    <2>5. QED
      BY <2>3, <2>4
  <1>7. CASE FinishSweep(w)
    <2>1. /\ o \in job[w].batch => order'[o].pay = "expired"
          /\ o \notin job[w].batch => order'[o] = order[o]
          /\ job[w].done \subseteq job[w].batch
      BY <1>0, <1>7 DEF FinishSweep, At, GivesUp
    <2>2. QED
      BY <1>1, <1>7, <2>1 DEF FinishSweep, Awaits, Held
  <1>8. QED
    BY <1>2, <1>3, <1>4, <1>5, <1>6, <1>7

LEMMA HeldStep ==
  ASSUME CommitInv, [Next]_vars, NEW o \in Order, (Awaits(o) /\ ~Held(o))'
  PROVE  (Awaits(o) /\ ~Held(o)) \/ StaffReopens(o)
  <1>1. CASE UNCHANGED <<order, ledger>>
    BY <1>1 DEF Awaits, Held
  <1>2. ASSUME NEW w \in Worker,
               \/ Rollback(w) \/ FinishCreate(w) \/ FinishLate(w) \/ FinishComplete(w)
               \/ FinishStaff(w) \/ FinishSweep(w)
        PROVE  (Awaits(o) /\ ~Held(o)) \/ StaffReopens(o)
    BY <1>2, HeldFinish
  <1>3. ASSUME NEW w \in Web, Request(w) PROVE UNCHANGED <<order, ledger>>
    BY <1>3 DEF Request, BeginCreate, BeginComplete, BeginStaff, tables
  <1>4. ASSUME NEW w \in Beat, BeginSweep(w) PROVE UNCHANGED <<order, ledger>>
    BY <1>4 DEF BeginSweep, tables
  <1>5. ASSUME NEW w \in Worker, Statement(w)
        PROVE  \/ UNCHANGED <<order, ledger>>
               \/ Rollback(w) \/ FinishCreate(w) \/ FinishLate(w) \/ FinishComplete(w)
               \/ FinishStaff(w) \/ FinishSweep(w)
    BY <1>5 DEF Statement, TakeLine, LackLine, ReadOrder, SaveTxn, CheckCommitted, SaveStatus,
                CheckReleased, LockOrder, NextOrder, FailPending, tables
  <1>6. ASSUME NEW w \in Worker, Failure(w) PROVE Rollback(w)
    BY <1>6 DEF Failure, Abort, BreakCycle
  <1>7. ASSUME NEW t \in Txn, NEW x \in Order, OpenTxn(t, x) \/ Age(x) \/ FailTxn(t)
        PROVE  UNCHANGED <<order, ledger>>
    BY <1>7 DEF OpenTxn, Age, FailTxn
  <1>8. ASSUME NEW t \in Txn, FailTxn(t) PROVE UNCHANGED <<order, ledger>>
    BY <1>8 DEF FailTxn
  <1>9. ASSUME NEW x \in Order, Age(x) PROVE UNCHANGED <<order, ledger>>
    BY <1>9 DEF Age
  <1>10. CASE UNCHANGED vars
    BY <1>1, <1>10 DEF vars
  <1>11. QED
    BY <1>1, <1>2, <1>3, <1>4, <1>5, <1>6, <1>7, <1>8, <1>9, <1>10 DEF Next, Work

\* For any statuses staff may set: an order gets to await its payment without its stock
\* on reserve by staff's hand only.  Payments, sweeps and cancellations take the order
\* whose stock they commit or give back out of awaiting_payment with the same COMMIT.
THEOREM HeldIsKept == Spec => HeldUnlessReopened
  <1>1. CommitInv /\ [Next]_vars
          => [\A o \in Order : (Awaits(o) /\ ~Held(o))' => (Awaits(o) /\ ~Held(o)) \/ StaffReopens(o)]_vars
    BY HeldStep
  <1>2. QED
    BY <1>1, CommitInvCorrect, PTL DEF Spec, HeldUnlessReopened

-----------------------------------------------------------------------------
(* BalanceInv: the ledger accounts for every unit. *)

LEMMA QuantityFacts ==
  ASSUME NEW v \in Variant, NEW S \in SUBSET Order
  PROVE  /\ Quantity(S, v) \in Int
         /\ Quantity({}, v) = 0
         /\ \A o \in S : Quantity(S, v) = Lines[o][v] + Quantity(S \ {o}, v)
  <1> DEFINE f == [o \in Order |-> Lines[o][v]]
  <1>1. \A o \in Order : f[o] = Lines[o][v] /\ f[o] \in Int
    BY ConstantFacts DEF Assumptions
  <1>2. IsFiniteSet(S)
    BY OrderAssumption, FS_Subset
  <1> HIDE DEF f
  <1>3. /\ SumFunctionOnSet(f, S) \in Int
        /\ SumFunctionOnSet(f, {}) = 0
        /\ \A o \in S : SumFunctionOnSet(f, S) = f[o] + SumFunctionOnSet(f, S \ {o})
    BY <1>1, <1>2, SumInt, SumEmpty, SumRemove
  <1>4. QED
    BY <1>1, <1>3 DEF f, Quantity

LEMMA QuantityOfOne ==
  ASSUME NEW v \in Variant, NEW o \in Order
  PROVE  Quantity({o}, v) = Lines[o][v] /\ Lines[o][v] \in Nat
  <1>1. Lines[o][v] \in Nat
    BY ConstantFacts DEF Assumptions
  <1>2. Quantity({o}, v) = Lines[o][v] + Quantity({o} \ {o}, v) /\ Quantity({o} \ {o}, v) = 0
    BY QuantityFacts
  <1>3. QED
    BY <1>1, <1>2

LEMMA NotNeeded ==
  ASSUME NEW o \in Order, NEW v \in Variant \ Need(o)
  PROVE  Lines[o][v] = 0
  <1>1. Lines[o][v] \in Nat /\ ~(Lines[o][v] > 0)
    BY ConstantFacts DEF Assumptions, Need
  <1>2. QED
    BY <1>1

\* Only w changes its job.
LEMMA MovesSession ==
  ASSUME TypeOK, \A x \in Worker : MovesLines(job[x]),
         NEW w \in Worker, NEW j, Continue(w, j), MovesLines(j)
  PROVE  \A x \in Worker : MovesLines(job'[x])
  <1>1. ASSUME NEW x \in Worker PROVE job'[x] = IF x = w THEN j ELSE job[x]
    BY DEF Continue, TypeOK
  <1>2. QED
    BY <1>1

LEMMA IdleMoves == MovesLines(Idle)
  <1>1. ASSUME NEW v \in Variant PROVE Quantity({}, v) = 0
    BY QuantityFacts
  <1>2. QED
    BY <1>1 DEF MovesLines, WorkedOff, Idle

\* A session that begins has moved nothing and has no orders worked off.
LEMMA MovesBegin ==
  ASSUME TypeOK, \A x \in Worker : MovesLines(job[x]), NEW w \in Worker,
         \/ Request(w)
         \/ BeginSweep(w)
  PROVE  \A x \in Worker : MovesLines(job'[x])
  <1>0. ASSUME NEW v \in Variant PROVE Quantity({}, v) = 0
    BY QuantityFacts
  <1>1. ASSUME NEW o \in Order, BeginCreate(w, o)
        PROVE  \A x \in Worker : MovesLines(job'[x])
    <2> DEFINE j == [Idle EXCEPT !.op = "create", !.step = "lines", !.ord = o, !.todo = Need(o)]
    <2>1. MovesLines(j)
      BY ConstantFacts DEF MovesLines, Idle, Need, Assumptions
    <2>2. Continue(w, j)
      BY <1>1 DEF BeginCreate, Begin
    <2> HIDE DEF j
    <2>3. QED
      BY <2>1, <2>2, MovesSession
  <1>2. ASSUME NEW t \in Txn, BeginComplete(w, t)
        PROVE  \A x \in Worker : MovesLines(job'[x])
    <2> DEFINE j == [Idle EXCEPT !.op = "complete", !.step = "read", !.ord = txn[t].of, !.txn = t,
                                 !.mode = IF txn[t].status = "succeeded" THEN "again" ELSE "first"]
    <2>1. MovesLines(j)
      BY <1>0 DEF MovesLines, WorkedOff, Idle
    <2>2. Continue(w, j)
      BY <1>2 DEF BeginComplete, Begin
    <2> HIDE DEF j
    <2>3. QED
      BY <2>1, <2>2, MovesSession
  <1>3. ASSUME NEW o \in Order, NEW to \in StaffTargets, BeginStaff(w, o, to)
        PROVE  \A x \in Worker : MovesLines(job'[x])
    <2> DEFINE j == [Idle EXCEPT !.op = "staff", !.step = "save", !.ord = o, !.to = to]
    <2>1. MovesLines(j)
      BY <1>0 DEF MovesLines, WorkedOff, Idle
    <2>2. Continue(w, j)
      BY <1>3 DEF BeginStaff, Begin
    <2> HIDE DEF j
    <2>3. QED
      BY <2>1, <2>2, MovesSession
  <1>4. CASE BeginSweep(w)
    <2> DEFINE j == [Idle EXCEPT !.op = "sweep", !.step = "lock",
                                 !.queue = {o \in Order : Expirable(o)}]
    <2>1. MovesLines(j)
      BY <1>0 DEF MovesLines, WorkedOff, Idle
    <2>2. Continue(w, j)
      BY <1>4 DEF BeginSweep, Begin
    <2> HIDE DEF j
    <2>3. QED
      BY <2>1, <2>2, MovesSession
  <1>5. QED
    BY <1>1, <1>2, <1>3, <1>4 DEF Request

\* One line more: its quantity is moved, and it is worked off.
LEMMA MovesTake ==
  ASSUME TypeInv, \A x \in Worker : MovesLines(job[x]), NEW w \in Worker, TakeLine(w)
  PROVE  \A x \in Worker : MovesLines(job'[x])
  <1>1. PICK v \in NextLines(w) : Continue(w, Moved(job[w], v))
    BY DEF TakeLine
  <1>2. job[w] \in Job /\ MovesLines(job[w]) /\ job[w].step = "lines" /\ job[w].ord \in Order
    BY DEF TakeLine, TypeInv, TypeOK, Focused
  <1>3. v \in job[w].todo /\ v \in Variant
    BY <1>1, <1>2 DEF NextLines, First, Job
  <1> DEFINE j == Moved(job[w], v)
             n == Lines[job[w].ord][v]
  <1>4. /\ j.op = job[w].op /\ j.ord = job[w].ord /\ j.done = job[w].done /\ j.queue = job[w].queue
        /\ j.todo = job[w].todo \ {v}
        /\ \A u \in Variant : j.taken[u] = IF u = v THEN job[w].taken[v] + n ELSE job[w].taken[u]
        /\ IF j.todo # {} THEN j.step = "lines"
           ELSE j.step = IF j.op = "sweep" THEN "payments" ELSE "close"
    BY <1>2, <1>3 DEF Moved, Job
  <1>5. n \in Nat /\ \A u \in Variant : job[w].taken[u] \in Nat
    BY <1>2, <1>3, ConstantFacts DEF Assumptions, Job
  <1>6. ASSUME job[w].op # "create" PROVE j.taken[v] = Quantity(WorkedOff(j, v), v)
    <2>1. job[w].ord \in job[w].done /\ job[w].done \in SUBSET Order
      BY <1>2, <1>6 DEF MovesLines, Job
    <2>2. job[w].taken[v] = Quantity(job[w].done \ {job[w].ord}, v)
      BY <1>2, <1>3, <1>6 DEF MovesLines, WorkedOff
    <2>3. Quantity(job[w].done, v) = n + Quantity(job[w].done \ {job[w].ord}, v)
      BY <1>3, <2>1, QuantityFacts
    <2>4. WorkedOff(j, v) = job[w].done
      BY <1>4 DEF WorkedOff
    <2>5. QED
      BY <1>3, <1>4, <1>5, <2>2, <2>3, <2>4
  <1>7. ASSUME NEW u \in Variant, u # v, job[w].op # "create"
        PROVE  j.taken[u] = Quantity(WorkedOff(j, u), u)
    <2>1. WorkedOff(j, u) = WorkedOff(job[w], u)
      BY <1>4, <1>7 DEF WorkedOff
    <2>2. QED
      BY <1>2, <1>4, <1>7, <2>1 DEF MovesLines
  <1>8. ASSUME NEW u \in Variant, job[w].op = "create"
        PROVE  j.taken[u] = IF u \in j.todo THEN 0 ELSE Lines[j.ord][u]
    BY <1>2, <1>3, <1>4, <1>5, <1>8 DEF MovesLines
  <1> HIDE DEF j
  <1>9. MovesLines(j)
    BY <1>2, <1>4, <1>6, <1>7, <1>8 DEF MovesLines
  <1>10. QED
    BY <1>1, <1>9, MovesSession DEF j, TypeInv

\* Statements that move nothing: some make the orders to be worked off one more,
\* which is then still to be worked off, line by line.
LEMMA MovesStatement ==
  ASSUME TypeInv, \A x \in Worker : MovesLines(job[x]), NEW w \in Worker,
         \/ ReadOrder(w) \/ SaveTxn(w) \/ CheckCommitted(w)
         \/ SaveStatus(w) \/ CheckReleased(w)
         \/ LockOrder(w) \/ NextOrder(w) \/ FailPending(w)
  PROVE  \A x \in Worker : MovesLines(job'[x])
  <1>0. job[w] \in Job /\ MovesLines(job[w])
    BY DEF TypeInv, TypeOK
  <1>1. ASSUME NEW j, Continue(w, j), NEW v \in Variant,
               j.op = job[w].op, j.ord = job[w].ord, j.done = job[w].done, j.todo = job[w].todo
        PROVE  WorkedOff(j, v) = WorkedOff(job[w], v)
    BY <1>1 DEF WorkedOff
  <1>2. CASE ReadOrder(w)
    <2>1. PICK j : /\ Continue(w, j) /\ j.op = job[w].op /\ j.ord = job[w].ord
                   /\ j.done = job[w].done /\ j.todo = job[w].todo /\ j.taken = job[w].taken
                   /\ j.step = "save"
      <3>1. Continue(w, job'[w])
        BY <1>2 DEF ReadOrder, Continue, TypeInv, TypeOK
      <3>2. /\ job'[w].op = job[w].op /\ job'[w].ord = job[w].ord
            /\ job'[w].done = job[w].done /\ job'[w].todo = job[w].todo
            /\ job'[w].taken = job[w].taken /\ job'[w].step = "save"
        BY <1>0, <1>2 DEF ReadOrder, Continue, TypeInv, TypeOK, Job
      <3>3. QED
        BY <3>1, <3>2
    <2>2. job[w].op = "complete" /\ job[w].step = "read"
      BY <1>2 DEF ReadOrder, At
    <2>3. MovesLines(j)
      BY <1>0, <2>1, <2>2 DEF MovesLines, WorkedOff
    <2>4. QED
      BY <2>1, <2>3, MovesSession DEF TypeInv
  <1>3. CASE SaveTxn(w) \/ SaveStatus(w)
    <2>1. /\ job[w].op \in {"complete", "staff"} /\ job[w].step = "save"
          /\ \E s \in {"check", "close"} : Continue(w, [job[w] EXCEPT !.step = s])
      BY <1>3 DEF SaveTxn, SaveStatus, At
    <2>2. PICK j : /\ Continue(w, j) /\ j.op = job[w].op /\ j.ord = job[w].ord
                   /\ j.done = job[w].done /\ j.todo = job[w].todo /\ j.taken = job[w].taken
                   /\ j.step \in {"check", "close"}
      BY <1>0, <2>1 DEF Job
    <2>3. MovesLines(j)
      BY <1>0, <2>1, <2>2 DEF MovesLines, WorkedOff
    <2>4. QED
      BY <2>2, <2>3, MovesSession DEF TypeInv
  <1>4. CASE CheckCommitted(w) \/ CheckReleased(w)
    <2> DEFINE o == job[w].ord
               j1 == [job[w] EXCEPT !.step = "close"]
               j2 == [job[w] EXCEPT !.step = "lines", !.done = {o}, !.todo = Need(o)]
    <2>1. /\ job[w].op \in {"complete", "staff"} /\ job[w].step = "check"
          /\ Continue(w, j1) \/ Continue(w, j2)
      BY <1>4 DEF CheckCommitted, CheckReleased, At, EitherLines
    <2>2. o \in Order
      BY <2>1 DEF TypeInv, Focused
    <2>3. MovesLines(j1)
      BY <1>0, <2>1 DEF MovesLines, WorkedOff, Job
    <2>4. /\ j2.op = job[w].op /\ j2.ord = o /\ j2.step = "lines" /\ j2.done = {o}
          /\ j2.todo = Need(o) /\ j2.taken = job[w].taken
      BY <1>0 DEF Job
    <2>5. ASSUME NEW v \in Variant PROVE j2.taken[v] = Quantity(WorkedOff(j2, v), v)
      <3>1. job[w].taken[v] = Quantity({}, v) /\ Quantity({}, v) = 0
        BY <1>0, <2>1, QuantityFacts DEF MovesLines, WorkedOff
      <3>2. CASE v \in Need(o)
        <4>1. WorkedOff(j2, v) = {}
          BY <2>4, <3>2 DEF WorkedOff
        <4>2. QED
          BY <2>4, <3>1, <4>1
      <3>3. CASE v \notin Need(o)
        <4>1. WorkedOff(j2, v) = {o}
          BY <2>4, <3>3 DEF WorkedOff
        <4>3. Lines[o][v] = 0
          BY <2>2, <3>3, NotNeeded
        <4>2. QED
          BY <2>2, <2>4, <3>1, <4>1, <4>3, QuantityOfOne
      <3>4. QED
        BY <3>2, <3>3
    <2> HIDE DEF j1, j2
    <2>6. MovesLines(j2)
      BY <2>1, <2>4, <2>5 DEF MovesLines
    <2>7. QED
      BY <2>1, <2>3, <2>6, MovesSession DEF TypeInv
  <1>5. CASE LockOrder(w)
    <2>1. PICK o \in First(job[w].queue) : Continue(w, Locked(job[w], o))
      BY <1>5 DEF LockOrder
    <2>2. job[w].op = "sweep" /\ job[w].step = "lock"
      BY <1>5 DEF LockOrder, At
    <2> DEFINE j == Locked(job[w], o)
    <2>3. /\ j.op = job[w].op /\ j.ord = job[w].ord /\ j.done = job[w].done
          /\ j.todo = job[w].todo /\ j.taken = job[w].taken /\ j.step \in {"next", "lock"}
      BY <1>0 DEF Locked, Job
    <2> HIDE DEF j
    <2>4. MovesLines(j)
      BY <1>0, <2>2, <2>3 DEF MovesLines, WorkedOff
    <2>5. QED
      BY <2>1, <2>4, MovesSession DEF j, TypeInv
  <1>6. CASE NextOrder(w)
    <2>1. PICK o \in First(job[w].queue) : Continue(w, Turned(job[w], o))
      BY <1>6 DEF NextOrder
    <2>2. /\ job[w].op = "sweep" /\ job[w].step = "next" /\ o \in job[w].queue /\ o \in Order
      BY <1>0, <1>6 DEF NextOrder, At, First, Job
    <2>3. /\ job[w].todo = {} /\ job[w].queue \cap job[w].done = {}
          /\ \A v \in Variant : job[w].taken[v] = Quantity(job[w].done, v)
      BY <1>0, <2>2 DEF MovesLines, WorkedOff
    <2> DEFINE j == Turned(job[w], o)
    <2>4. CASE Settled(o)
      <3>1. /\ j.op = "sweep" /\ j.done = job[w].done /\ j.todo = job[w].todo
            /\ j.taken = job[w].taken /\ j.queue = job[w].queue \ {o} /\ j.step = "payments"
        BY <1>0, <2>2, <2>4 DEF Turned, Job
      <3> HIDE DEF j
      <3>2. MovesLines(j)
        BY <2>3, <3>1 DEF MovesLines, WorkedOff
      <3>3. QED
        BY <2>1, <3>2, MovesSession DEF j, TypeInv
    <2>5. CASE ~Settled(o)
      <3>1. /\ j.op = "sweep" /\ j.ord = o /\ j.done = job[w].done \cup {o} /\ j.todo = Need(o)
            /\ j.taken = job[w].taken /\ j.queue = job[w].queue \ {o} /\ j.step = "lines"
        BY <1>0, <2>2, <2>5 DEF Turned, Job
      <3> HIDE DEF j
      <3>2. ASSUME NEW v \in Variant PROVE j.taken[v] = Quantity(WorkedOff(j, v), v)
        <4>1. o \notin job[w].done /\ job[w].done \in SUBSET Order
          BY <1>0, <2>2, <2>3 DEF Job
        <4>2. CASE v \in Need(o)
          <5>1. WorkedOff(j, v) = job[w].done
            BY <3>1, <4>1, <4>2 DEF WorkedOff
          <5>2. QED
            BY <2>3, <3>1, <5>1
        <4>3. CASE v \notin Need(o)
          <5>1. WorkedOff(j, v) = job[w].done \cup {o}
            BY <3>1, <4>3 DEF WorkedOff
          <5>2. Lines[o][v] = 0
            BY <2>2, <4>3, NotNeeded
          <5>3. job[w].done \cup {o} \in SUBSET Order /\ (job[w].done \cup {o}) \ {o} = job[w].done
            BY <2>2, <4>1
          <5>4. Quantity(job[w].done \cup {o}, v) = Lines[o][v] + Quantity(job[w].done, v)
            BY <5>3, QuantityFacts
          <5>5. Quantity(job[w].done, v) \in Int
            BY <4>1, QuantityFacts
          <5>6. QED
            BY <2>3, <3>1, <5>1, <5>2, <5>4, <5>5
        <4>4. QED
          BY <4>2, <4>3
      <3>3. MovesLines(j)
        BY <2>3, <3>1, <3>2 DEF MovesLines
      <3>4. QED
        BY <2>1, <3>3, MovesSession DEF j, TypeInv
    <2>6. QED
      BY <2>4, <2>5
  <1>7. CASE FailPending(w)
    <2>1. PICK j : /\ Continue(w, j) /\ j.op = job[w].op /\ j.ord = job[w].ord
                   /\ j.queue = job[w].queue
                   /\ j.done = job[w].done /\ j.todo = job[w].todo /\ j.taken = job[w].taken
                   /\ j.step = "next"
      BY <1>0, <1>7 DEF FailPending, Job
    <2>2. job[w].op = "sweep" /\ job[w].step = "payments"
      BY <1>7 DEF FailPending, At
    <2>3. MovesLines(j)
      BY <1>0, <2>1, <2>2 DEF MovesLines, WorkedOff
    <2>4. QED
      BY <2>1, <2>3, MovesSession DEF TypeInv
  <1>8. QED
    BY <1>2, <1>3, <1>4, <1>5, <1>6, <1>7

\* After its transaction a session is idle.
LEMMA MovesEnd ==
  ASSUME TypeOK, \A x \in Worker : MovesLines(job[x]), NEW w \in Worker, EndTransaction(w)
  PROVE  \A x \in Worker : MovesLines(job'[x])
  <1>1. ASSUME NEW x \in Worker PROVE job'[x] = IF x = w THEN Idle ELSE job[x]
    BY DEF EndTransaction, TypeOK
  <1>2. QED
    BY <1>1, IdleMoves

LEMMA MovesNext ==
  ASSUME TypeInv, \A x \in Worker : MovesLines(job[x]), [Next]_vars
  PROVE  \A x \in Worker : MovesLines(job'[x])
  <1>1. ASSUME NEW w \in Web, Request(w) PROVE \A x \in Worker : MovesLines(job'[x])
    BY <1>1, MovesBegin DEF Worker, TypeInv
  <1>2. ASSUME NEW w \in Beat, BeginSweep(w) PROVE \A x \in Worker : MovesLines(job'[x])
    BY <1>2, MovesBegin DEF Worker, TypeInv
  <1>3. ASSUME NEW w \in Worker, Statement(w) PROVE \A x \in Worker : MovesLines(job'[x])
    <2>1. CASE \/ LackLine(w) \/ FinishCreate(w) \/ FinishLate(w) \/ FinishComplete(w)
               \/ FinishStaff(w) \/ FinishSweep(w)
      <3>1. EndTransaction(w)
        BY <2>1 DEF LackLine, Rollback, FinishCreate, FinishLate, FinishComplete, FinishStaff,
                    FinishSweep
      <3>2. QED
        BY <3>1, MovesEnd DEF TypeInv
    <2>2. QED
      BY <1>3, <2>1, MovesTake, MovesStatement DEF Statement
  <1>4. ASSUME NEW w \in Worker, Failure(w) PROVE \A x \in Worker : MovesLines(job'[x])
    BY <1>4, MovesEnd DEF Failure, Abort, BreakCycle, Rollback, TypeInv
  <1>5. CASE job' = job
    BY <1>5
  <1>6. QED
    BY <1>1, <1>2, <1>3, <1>4, <1>5 DEF Next, Work, Age, OpenTxn, FailTxn, vars

\* A term that loses, or gains, the lines of the orders in A.
LEMMA SumLess ==
  ASSUME NEW v \in Variant, NEW A \in SUBSET Order, NEW f, NEW h,
         \A o \in Order : h[o] \in Int,
         \A o \in Order : f[o] = IF o \in A THEN h[o] + Lines[o][v] ELSE h[o]
  PROVE  SumFunctionOnSet(f, Order) = SumFunctionOnSet(h, Order) + Quantity(A, v)
  <1> DEFINE g == [o \in Order |-> Lines[o][v]]
  <1>1. \A o \in Order : g[o] = Lines[o][v] /\ g[o] \in Int
    BY ConstantFacts DEF Assumptions
  <1>2. Quantity(A, v) = SumFunctionOnSet(g, A)
    BY DEF Quantity
  <1> HIDE DEF g
  <1>3. SumFunctionOnSet(f, Order) = SumFunctionOnSet(h, Order) + SumFunctionOnSet(g, A)
    BY <1>1, OrderAssumption, SumShift
  <1>4. QED
    BY <1>2, <1>3

LEMMA OneTimeLess == \A a, b \in Int : a * b = a * (b - 1) + a /\ a * (b + 1) = a * b + a
  OBVIOUS

\* Where neither the rows nor the ledger nor the set of placed orders change, the
\* balance stays.
LEMMA SameBooks ==
  ASSUME LedgerBalance, UNCHANGED <<row, ledger>>, \A o \in Order : Placed(o)' <=> Placed(o)
  PROVE  LedgerBalance'
  <1>1. ASSUME NEW v \in Variant, NEW o \in Order
        PROVE  Outstanding(o, v)' = Outstanding(o, v) /\ Sold(o, v)' = Sold(o, v)
    BY DEF Outstanding, Sold
  <1>2. ASSUME NEW v \in Variant
        PROVE  /\ [o \in Order |-> Outstanding(o, v)'] = [o \in Order |-> Outstanding(o, v)]
               /\ [o \in Order |-> Sold(o, v)'] = [o \in Order |-> Sold(o, v)]
    BY <1>1
  <1>3. QED
    BY <1>2 DEF LedgerBalance

\* The four transactions that write stock when they commit.
Commits(w) == FinishComplete(w) \/ FinishStaff(w) \/ FinishSweep(w)

Quiet == UNCHANGED <<row, ledger>> /\ \A o \in Order : Placed(o)' <=> Placed(o)

LEMMA StepCases ==
  ASSUME TypeInv, [Next]_vars
  PROVE  Quiet \/ \E w \in Worker : FinishCreate(w) \/ Commits(w)
  <1>1. CASE UNCHANGED <<order, row, ledger>>
    BY <1>1 DEF Quiet, Placed
  <1>2. ASSUME NEW w \in Worker, FinishLate(w) PROVE Quiet
    <2>1. \A o \in Order : order'[o].pay = order[o].pay
      BY <1>2 DEF FinishLate, TypeInv, TypeOK, OrderRow
    <2>2. QED
      BY <1>2, <2>1 DEF FinishLate, Quiet, Placed
  <1>3. ASSUME NEW w \in Worker, Request(w) \/ BeginSweep(w) PROVE UNCHANGED <<order, row, ledger>>
    BY <1>3 DEF Request, BeginCreate, BeginComplete, BeginStaff, BeginSweep, tables
  <1>4. ASSUME NEW w \in Worker, Statement(w), ~FinishCreate(w), ~Commits(w), ~FinishLate(w)
        PROVE  UNCHANGED <<order, row, ledger>>
    BY <1>4 DEF Statement, Commits, TakeLine, LackLine, Rollback, ReadOrder, SaveTxn,
                CheckCommitted, SaveStatus, CheckReleased, LockOrder, NextOrder, FailPending,
                tables
  <1>5. ASSUME NEW w \in Worker, Failure(w) PROVE UNCHANGED <<order, row, ledger>>
    BY <1>5 DEF Failure, Abort, BreakCycle, Rollback, tables
  <1>6. CASE \/ \E o \in Order : Age(o)
             \/ \E t \in Txn, o \in Order : OpenTxn(t, o)
             \/ \E t \in Txn : FailTxn(t)
             \/ UNCHANGED vars
    BY <1>1, <1>6 DEF Age, OpenTxn, FailTxn, vars
  <1>7. QED
    BY <1>1, <1>2, <1>3, <1>4, <1>5, <1>6 DEF Next, Work, Worker

\* What such a transaction writes: whole orders, all of them placed, and given
\* back only with an open ledger.
LEMMA CommitsWhole ==
  ASSUME BalanceInv, NEW w \in Worker, Commits(w)
  PROVE  /\ job[w].op \in {"complete", "staff", "sweep"} /\ CommitStockWrites(w)
         /\ \A o \in Order : Placed(o)' <=> Placed(o)
         /\ job[w].done \in SUBSET Order
         /\ \A o \in job[w].done : Placed(o)
         /\ job[w].op = "complete" => job[w].done \subseteq {job[w].ord}
         /\ job[w].op # "complete" =>
              \A o \in job[w].done : ledger[o].com = 0 /\ ledger[o].rel = 0
         /\ \A v \in Variant : job[w].taken[v] = Quantity(job[w].done, v)
  <1>1. /\ job[w] \in Job /\ Knows(w, job[w]) /\ GivesUp(job[w]) /\ MovesLines(job[w]) /\ Inv
        /\ TypeOK
    BY DEF BalanceInv, CommitInv, Inv, TypeOK
  <1>2. /\ job[w].op \in {"complete", "staff", "sweep"} /\ CommitStockWrites(w)
        /\ job[w].step \in {"close", "next"}
    BY DEF Commits, FinishComplete, FinishStaff, FinishSweep, At
  <1>3. \A o \in Order : Placed(o)' <=> Placed(o)
    <2>1. CASE FinishComplete(w)
      <3>1. /\ job[w].ord \in Order /\ Placed(job[w].ord) /\ job[w].mode \in {"first", "again"}
        BY <1>1, <2>1 DEF FinishComplete, At, Inv, Focused, Knows, HasPlace
      <3>2. /\ order'[job[w].ord].pay = "paid"
            /\ \A o \in Order : o # job[w].ord => order'[o] = order[o]
        BY <1>1, <2>1, <3>1 DEF FinishComplete, Paid, TypeOK, OrderRow
      <3>3. QED
        BY <3>1, <3>2 DEF Placed
    <2>2. CASE FinishStaff(w)
      <3>1. \A o \in Order : order'[o].pay = order[o].pay
        BY <1>1, <2>2 DEF FinishStaff, TypeOK, OrderRow
      <3>2. QED
        BY <3>1 DEF Placed
    <2>3. CASE FinishSweep(w)
      <3>1. \A o \in Order : \/ order'[o].pay = order[o].pay
                             \/ order[o].pay = "pending" /\ order'[o].pay = "expired"
        BY <1>1, <2>3 DEF FinishSweep, TypeOK, Knows, HoldsBatch
      <3>2. QED
        BY <3>1 DEF Placed
    <2>4. QED
      BY <2>1, <2>2, <2>3 DEF Commits
  <1>4. job[w].done \in SUBSET Order
    BY <1>1 DEF Job
  <1>5. \A o \in job[w].done : Placed(o)
    <2>1. CASE job[w].op \in {"complete", "staff"}
      <3>1. job[w].done \subseteq {job[w].ord}
        BY <1>1, <2>1 DEF Knows, KnowsPaid, GivesUp
      <3>2. Placed(job[w].ord)
        BY <1>1, <2>1 DEF Knows, HasPlace
      <3>3. QED
        BY <3>1, <3>2
    <2>2. CASE job[w].op = "sweep"
      BY <1>1, <2>2 DEF Knows, HoldsBatch, GivesUp, Placed
    <2>3. QED
      BY <1>2, <2>1, <2>2
  <1>6. job[w].op = "complete" => job[w].done \subseteq {job[w].ord}
    BY <1>1 DEF Knows, KnowsPaid
  <1>7. job[w].op # "complete" => \A o \in job[w].done : ledger[o].com = 0 /\ ledger[o].rel = 0
    BY <1>1, <1>2 DEF Knows, HoldsReleased
  <1>8. ASSUME NEW v \in Variant PROVE job[w].taken[v] = Quantity(job[w].done, v)
    <2>1. WorkedOff(job[w], v) = job[w].done
      BY <1>1, <1>2 DEF MovesLines, WorkedOff
    <2>2. QED
      BY <1>1, <1>2, <2>1 DEF MovesLines
  <1>9. QED
    BY <1>2, <1>3, <1>4, <1>5, <1>6, <1>7, <1>8

\* A commit or a release takes off the outstanding sum what it takes off the row.
LEMMA BooksCommit ==
  ASSUME BalanceInv, NEW w \in Worker, Commits(w)
  PROVE  LedgerBalance'
  <1> DEFINE D == job[w].done
             sold == job[w].op = "complete"
  <1>1. /\ job[w].op \in {"complete", "staff", "sweep"} /\ CommitStockWrites(w)
        /\ \A o \in Order : Placed(o)' <=> Placed(o)
        /\ D \in SUBSET Order
        /\ \A o \in D : Placed(o)
        /\ \A v \in Variant : job[w].taken[v] = Quantity(D, v)
    BY CommitsWhole
  <1>2. LedgerBalance /\ TypeOK
    BY DEF BalanceInv, CommitInv, Inv
  <1>3. ASSUME NEW o \in Order
        PROVE  /\ ledger[o].com \in Nat /\ ledger[o].rel \in Nat
               /\ ledger'[o].com = IF o \in D /\ sold THEN ledger[o].com + 1 ELSE ledger[o].com
               /\ ledger'[o].rel = IF o \in D /\ ~sold THEN ledger[o].rel + 1 ELSE ledger[o].rel
    BY <1>1, <1>2 DEF CommitStockWrites, TypeOK
  <1> HIDE DEF D, sold
  <1>4. ASSUME NEW v \in Variant, NEW o \in Order
        PROVE  /\ Outstanding(o, v)' \in Int /\ Sold(o, v)' \in Int /\ Sold(o, v) \in Int
               /\ Outstanding(o, v) = IF o \in D THEN Outstanding(o, v)' + Lines[o][v]
                                                 ELSE Outstanding(o, v)'
               /\ Sold(o, v)' = IF o \in D /\ sold THEN Sold(o, v) + Lines[o][v] ELSE Sold(o, v)
    <2> DEFINE n == Lines[o][v]
               c == ledger[o].com
               r == ledger[o].rel
    <2>1. n \in Nat /\ c \in Nat /\ r \in Nat
      BY <1>3, ConstantFacts DEF Assumptions
    <2>2. /\ Outstanding(o, v) = IF Placed(o) THEN n * (1 - c - r) ELSE 0
          /\ Outstanding(o, v)' =
               IF Placed(o) THEN n * (1 - c - r - (IF o \in D THEN 1 ELSE 0)) ELSE 0
          /\ Sold(o, v) = n * c
          /\ Sold(o, v)' = n * (IF o \in D /\ sold THEN c + 1 ELSE c)
      <3>1. Placed(o)' <=> Placed(o)
        BY <1>1
      <3>2. 1 - ledger'[o].com - ledger'[o].rel = 1 - c - r - (IF o \in D THEN 1 ELSE 0)
        BY <1>3, <2>1
      <3>3. Outstanding(o, v)' =
              IF Placed(o)' THEN n * (1 - ledger'[o].com - ledger'[o].rel) ELSE 0
        BY DEF Outstanding
      <3>4. Sold(o, v)' = n * ledger'[o].com
        BY DEF Sold
      <3>5. QED
        BY <1>3, <3>1, <3>2, <3>3, <3>4 DEF Outstanding, Sold
    <2> HIDE DEF n, c, r
    <2> DEFINE b == 1 - c - r
    <2>3. b \in Int
      BY <2>1
    <2> HIDE DEF b
    <2>4. n * b \in Int /\ n * (b - 1) \in Int /\ n * c \in Int /\ n * (c + 1) \in Int
      BY <2>1, <2>3
    <2>5. n * b = n * (b - 1) + n /\ n * (c + 1) = n * c + n
      BY <2>1, <2>3, OneTimeLess
    <2>6. /\ Outstanding(o, v) = IF Placed(o) THEN n * b ELSE 0
          /\ Outstanding(o, v)' = IF Placed(o) THEN IF o \in D THEN n * (b - 1) ELSE n * b ELSE 0
      BY <2>1, <2>2 DEF b
    <2>7. Sold(o, v)' = IF o \in D /\ sold THEN n * (c + 1) ELSE n * c
      BY <2>2
    <2>8. o \in D => Placed(o)
      BY <1>1
    <2>9. QED
      BY <2>2, <2>4, <2>5, <2>6, <2>7, <2>8 DEF n
  <1>5. ASSUME NEW v \in Variant
        PROVE  /\ row[v].stock \in Int /\ row[v].reserved \in Int /\ Quantity(D, v) \in Int
               /\ row'[v].reserved = row[v].reserved - Quantity(D, v)
               /\ row'[v].stock = IF sold THEN row[v].stock - Quantity(D, v) ELSE row[v].stock
    BY <1>1, <1>2, QuantityFacts DEF CommitStockWrites, Seen, Applied, TypeOK, sold
  <1>6. ASSUME NEW v \in Variant
        PROVE  row'[v].reserved = SumFunctionOnSet([o \in Order |-> Outstanding(o, v)'], Order)
    <2> DEFINE f == [o \in Order |-> Outstanding(o, v)]
               h == [o \in Order |-> Outstanding(o, v)']
    <2>1. \A o \in Order : h[o] \in Int
      BY <1>4
    <2>2. \A o \in Order : f[o] = IF o \in D THEN h[o] + Lines[o][v] ELSE h[o]
      BY <1>4
    <2>3. row[v].reserved = SumFunctionOnSet(f, Order)
      BY <1>2 DEF LedgerBalance
    <2> HIDE DEF f, h
    <2>4. SumFunctionOnSet(f, Order) = SumFunctionOnSet(h, Order) + Quantity(D, v)
      BY <1>1, <2>1, <2>2, SumLess
    <2>5. SumFunctionOnSet(h, Order) \in Int
      BY <2>1, OrderAssumption, SumInt
    <2>6. row'[v].reserved = SumFunctionOnSet(h, Order)
      BY <1>5, <2>3, <2>4, <2>5
    <2>7. QED
      BY <2>6 DEF h
  <1>7. ASSUME NEW v \in Variant
        PROVE  row'[v].stock =
                 InitialStock[v] - SumFunctionOnSet([o \in Order |-> Sold(o, v)'], Order)
    <2> DEFINE f == [o \in Order |-> Sold(o, v)']
               h == [o \in Order |-> Sold(o, v)]
               A == IF sold THEN D ELSE {}
    <2>1. \A o \in Order : h[o] \in Int
      BY <1>4
    <2>2. \A o \in Order : f[o] = IF o \in A THEN h[o] + Lines[o][v] ELSE h[o]
      BY <1>4
    <2>3. row[v].stock = InitialStock[v] - SumFunctionOnSet(h, Order)
      BY <1>2 DEF LedgerBalance
    <2>4. A \in SUBSET Order /\ Quantity(A, v) = IF sold THEN Quantity(D, v) ELSE 0
      BY <1>1, QuantityFacts
    <2> HIDE DEF f, h, A
    <2>5. SumFunctionOnSet(f, Order) = SumFunctionOnSet(h, Order) + Quantity(A, v)
      BY <2>1, <2>2, <2>4, SumLess
    <2>6. SumFunctionOnSet(h, Order) \in Int
      BY <2>1, OrderAssumption, SumInt
    <2>9. InitialStock[v] \in Int
      BY ConstantFacts DEF Assumptions
    <2>7. row'[v].stock = InitialStock[v] - SumFunctionOnSet(f, Order)
      BY <1>5, <2>3, <2>4, <2>5, <2>6, <2>9
    <2>8. QED
      BY <2>7 DEF f
  <1>8. QED
    BY <1>6, <1>7 DEF LedgerBalance

\* What a checkout writes: its order, with the ledger still open, and all its lines.
LEMMA CreatesWhole ==
  ASSUME BalanceInv, NEW w \in Worker, FinishCreate(w), NEW n, n = job[w].ord
  PROVE  /\ n \in Order /\ ~Placed(n)
         /\ \A o \in Order : Placed(o)' <=> Placed(o) \/ o = n
         /\ ledger[n].com = 0 /\ ledger[n].rel = 0
         /\ ledger' = ledger
         /\ \A v \in Variant : /\ row'[v] = [row[v] EXCEPT !.reserved = @ + Lines[n][v]]
                               /\ row'[v] = Seen(w, v)
  <1>1. /\ Knows(w, job[w]) /\ MovesLines(job[w]) /\ TypeOK /\ Focused /\ BooksOpen
        /\ CommitStockWrites(w) /\ job[w].op = "create" /\ job[w].step = "close"
    BY DEF BalanceInv, CommitInv, Inv, FinishCreate, At
  <1>2. n \in Order /\ ~Placed(n) /\ job[w].done = {}
    BY <1>1 DEF Focused, Knows, HasPlace
  <1>3. order'[n].pay = "pending" /\ \A o \in Order : o # n => order'[o] = order[o]
    BY <1>1, <1>2 DEF FinishCreate, TypeOK
  <1>4. ledger[n].com = 0 /\ ledger[n].rel = 0
    BY <1>1, <1>2 DEF BooksOpen, Held
  <1>5. ledger' = ledger
    BY <1>1, <1>2 DEF CommitStockWrites, TypeOK
  <1>6. ASSUME NEW v \in Variant
        PROVE  row'[v] = [row[v] EXCEPT !.reserved = @ + Lines[n][v]] /\ row'[v] = Seen(w, v)
    <2>1. job[w].taken[v] = Lines[n][v]
      BY <1>1 DEF MovesLines
    <2>2. row'[v] = Seen(w, v) /\ Seen(w, v) = Applied("create", row[v], job[w].taken[v])
      BY <1>1 DEF CommitStockWrites, Seen
    <2>3. QED
      BY <2>1, <2>2 DEF Applied
  <1>7. \A o \in Order : Placed(o)' <=> Placed(o) \/ o = n
    BY <1>2, <1>3 DEF Placed
  <1>8. QED
    BY <1>2, <1>4, <1>5, <1>6, <1>7

LEMMA BooksCreate ==
  ASSUME BalanceInv, NEW w \in Worker, FinishCreate(w)
  PROVE  LedgerBalance'
  <1>0. PICK n : n = job[w].ord
    OBVIOUS
  <1>1. /\ n \in Order /\ ~Placed(n)
        /\ \A o \in Order : Placed(o)' <=> Placed(o) \/ o = n
        /\ ledger[n].com = 0 /\ ledger[n].rel = 0 /\ ledger' = ledger
        /\ \A v \in Variant : row'[v] = [row[v] EXCEPT !.reserved = @ + Lines[n][v]]
    BY <1>0, CreatesWhole
  <1>2. LedgerBalance /\ TypeOK
    BY DEF BalanceInv, CommitInv, Inv
  <1>3. ASSUME NEW v \in Variant, NEW o \in Order
        PROVE  /\ Outstanding(o, v) \in Int
               /\ Outstanding(o, v)' = IF o \in {n} THEN Outstanding(o, v) + Lines[o][v]
                                                    ELSE Outstanding(o, v)
               /\ Sold(o, v)' = Sold(o, v)
    <2>1. Lines[o][v] \in Nat /\ ledger[o].com \in Nat /\ ledger[o].rel \in Nat
      BY <1>2, ConstantFacts DEF Assumptions, TypeOK
    <2>2. Lines[o][v] * (1 - ledger[o].com - ledger[o].rel) \in Int /\ Lines[o][v] * 1 = Lines[o][v]
      BY <2>1
    <2>3. Outstanding(o, v) \in Int
      BY <2>2 DEF Outstanding
    <2>4. Sold(o, v)' = Sold(o, v)
      BY <1>1 DEF Sold
    <2>5. CASE o = n
      <3>1. 1 - ledger[o].com - ledger[o].rel = 1
        BY <1>1, <2>5
      <3>4. /\ Outstanding(o, v) = IF Placed(o) THEN Lines[o][v] * 1 ELSE 0
            /\ Outstanding(o, v)' = IF Placed(o)' THEN Lines[o][v] * 1 ELSE 0
        BY <1>1, <3>1 DEF Outstanding
      <3>2. Outstanding(o, v) = 0 /\ Outstanding(o, v)' = Lines[o][v] * 1
        BY <1>1, <2>5, <3>4
      <3>3. QED
        BY <2>1, <2>2, <2>4, <2>5, <3>2
    <2>6. CASE o # n
      BY <1>1, <2>3, <2>4, <2>6 DEF Outstanding
    <2>7. QED
      BY <2>5, <2>6
  <1>4. ASSUME NEW v \in Variant
        PROVE  row'[v].reserved = SumFunctionOnSet([o \in Order |-> Outstanding(o, v)'], Order)
    <2> DEFINE f == [o \in Order |-> Outstanding(o, v)']
               h == [o \in Order |-> Outstanding(o, v)]
    <2>1. \A o \in Order : h[o] \in Int
      BY <1>3
    <2>2. \A o \in Order : f[o] = IF o \in {n} THEN h[o] + Lines[o][v] ELSE h[o]
      BY <1>3
    <2>3. row[v].reserved = SumFunctionOnSet(h, Order)
      BY <1>2 DEF LedgerBalance
    <2> HIDE DEF f, h
    <2>4. SumFunctionOnSet(f, Order) = SumFunctionOnSet(h, Order) + Quantity({n}, v)
      BY <1>1, <2>1, <2>2, SumLess
    <2>5. row'[v].reserved = row[v].reserved + Lines[n][v]
      BY <1>1, <1>2 DEF TypeOK
    <2>6. row'[v].reserved = SumFunctionOnSet(f, Order)
      BY <1>1, <2>3, <2>4, <2>5, QuantityOfOne
    <2>7. QED
      BY <2>6 DEF f
  <1>5. ASSUME NEW v \in Variant
        PROVE  row'[v].stock =
                 InitialStock[v] - SumFunctionOnSet([o \in Order |-> Sold(o, v)'], Order)
    <2>1. [o \in Order |-> Sold(o, v)'] = [o \in Order |-> Sold(o, v)]
      BY <1>3
    <2>2. row'[v].stock = row[v].stock
      BY <1>1, <1>2 DEF TypeOK
    <2>3. QED
      BY <1>2, <2>1, <2>2 DEF LedgerBalance
  <1>6. QED
    BY <1>4, <1>5 DEF LedgerBalance

LEMMA BalanceInit == Init => BalanceInv
  <1> SUFFICES ASSUME Init PROVE BalanceInv
    OBVIOUS
  <1>1. CommitInv
    BY CommitInit
  <1>2. \A w \in Worker : MovesLines(job[w])
    BY IdleMoves DEF Init
  <1>3. ASSUME NEW v \in Variant, NEW f, \A o \in Order : f[o] = 0
        PROVE  SumFunctionOnSet(f, Order) = 0
    BY <1>3, OrderAssumption, SumOnly, SumEmpty
  <1>4. ASSUME NEW v \in Variant, NEW o \in Order
        PROVE  Outstanding(o, v) = 0 /\ Sold(o, v) = 0
    <2>1. Lines[o][v] \in Nat
      BY ConstantFacts DEF Assumptions
    <2>2. ~Placed(o) /\ ledger[o].com = 0
      BY DEF Init, Placed, NoOrder
    <2>3. QED
      BY <2>1, <2>2 DEF Outstanding, Sold
  <1>5. ASSUME NEW v \in Variant
        PROVE  /\ SumFunctionOnSet([o \in Order |-> Outstanding(o, v)], Order) = 0
               /\ SumFunctionOnSet([o \in Order |-> Sold(o, v)], Order) = 0
    <2>1. \A o \in Order : [q \in Order |-> Outstanding(q, v)][o] = 0
      BY <1>4
    <2>2. \A o \in Order : [q \in Order |-> Sold(q, v)][o] = 0
      BY <1>4
    <2>3. QED
      BY <1>3, <2>1, <2>2
  <1>6. LedgerBalance
    <2>1. \A v \in Variant : InitialStock[v] \in Nat
      BY ConstantFacts DEF Assumptions
    <2>2. \A v \in Variant : row[v].stock = InitialStock[v] /\ row[v].reserved = 0
      BY DEF Init
    <2>3. QED
      BY <1>5, <2>1, <2>2 DEF LedgerBalance
  <1>7. QED
    BY <1>1, <1>2, <1>6 DEF BalanceInv

LEMMA BalanceNext ==
  ASSUME BalanceInv, [Next]_vars
  PROVE  BalanceInv'
  <1>1. CommitInv /\ CommitInv' /\ TypeInv /\ \A w \in Worker : MovesLines(job[w])
    BY CommitNext DEF BalanceInv, CommitInv, Inv, TypeInv
  <1>2. \A w \in Worker : MovesLines(job[w])'
    BY <1>1, MovesNext DEF MovesLines, WorkedOff
  <1>3. LedgerBalance'
    <2>1. Quiet => LedgerBalance'
      BY SameBooks DEF Quiet, BalanceInv
    <2>2. QED
      BY <1>1, <2>1, StepCases, BooksCreate, BooksCommit
  <1>4. QED
    BY <1>1, <1>2, <1>3 DEF BalanceInv

\* At every COMMIT whole orders change hands: each session has moved exactly the
\* lines it has worked off, and the ledger balances.
THEOREM BalanceInvCorrect == Spec => []BalanceInv
  <1>1. BalanceInv /\ [Next]_vars => BalanceInv'
    BY BalanceNext
  <1>2. QED
    BY <1>1, BalanceInit, PTL DEF Spec

\* The adjustment rows account for every unit of every variant, for any number
\* of orders: what is reserved is what the ledger has outstanding, and what left
\* the stock is what it has sold.
THEOREM LedgerAlwaysBalances == Spec => []LedgerBalance
  <1>1. BalanceInv => LedgerBalance
    BY DEF BalanceInv
  <1>2. QED
    BY <1>1, BalanceInvCorrect, PTL

\* No order's stock was both committed and given back, or committed twice.
OnceAtMost == \A o \in Order : ledger[o].com + ledger[o].rel <= 1

\* The orders whose stock a sweep would give back, were they in its batch: of an
\* order whose ledger is closed it gives back nothing.
Releasable == {o \in Order : Placed(o) /\ Held(o)}

ReleasesFit ==
  OnceAtMost => \A S \in SUBSET Releasable, v \in Variant : Quantity(S, v) <= row[v].reserved

LEMMA ReleasableFits ==
  ASSUME BalanceInv, OnceAtMost, NEW S \in SUBSET Releasable, NEW v \in Variant
  PROVE  Quantity(S, v) <= row[v].reserved
  <1> DEFINE f == [o \in Order |-> Lines[o][v]]
             g == [o \in Order |-> Outstanding(o, v)]
             h == [o \in Order |-> IF o \in S THEN Lines[o][v] ELSE 0]
  <1>1. TypeOK /\ LedgerBalance
    BY DEF BalanceInv, CommitInv, Inv
  <1>2. row[v].reserved = SumFunctionOnSet(g, Order)
    BY <1>1 DEF LedgerBalance
  <1>3. Quantity(S, v) = SumFunctionOnSet(f, S)
    BY DEF Quantity
  <1>4. IsFiniteSet(Order) /\ S \in SUBSET Order /\ IsFiniteSet(S)
    BY OrderAssumption, FS_Subset DEF Releasable
  <1>5. ASSUME NEW o \in Order
        PROVE  Lines[o][v] \in Nat /\ ledger[o].com \in Nat /\ ledger[o].rel \in Nat
    BY <1>1, ConstantFacts DEF Assumptions, TypeOK
  <1>6. ASSUME NEW o \in Order PROVE g[o] \in Nat
    <2>1. 1 - ledger[o].com - ledger[o].rel \in {0, 1}
      BY <1>5 DEF OnceAtMost
    <2>2. g[o] = IF Placed(o) THEN Lines[o][v] * (1 - ledger[o].com - ledger[o].rel) ELSE 0
      BY DEF Outstanding
    <2>3. \A n \in Nat, k \in {0, 1} : n * k \in Nat
      OBVIOUS
    <2>4. QED
      BY <1>5, <2>1, <2>2, <2>3
  <1>7. ASSUME NEW o \in S PROVE g[o] = Lines[o][v]
    <2>1. o \in Order /\ Placed(o)
      BY DEF Releasable
    <2>2. ledger[o].com = 0 /\ ledger[o].rel = 0
      BY DEF Releasable, Held
    <2>3. g[o] = Lines[o][v] * (1 - 0 - 0)
      BY <2>1, <2>2 DEF Outstanding
    <2>4. QED
      BY <1>5, <2>1, <2>3
  <1>8. \A o \in Order : h[o] = IF o \in S THEN Lines[o][v] ELSE 0
    OBVIOUS
  <1>9. \A o \in S : f[o] = Lines[o][v]
    BY <1>4
  <1> HIDE DEF f, g, h
  <1>10. ASSUME NEW o \in Order
         PROVE  h[o] \in Int /\ g[o] \in Int /\ h[o] <= g[o] /\ (o \notin S => h[o] = 0)
    BY <1>5, <1>6, <1>7, <1>8
  <1>11. ASSUME NEW o \in S PROVE f[o] \in Int /\ h[o] = f[o]
    BY <1>4, <1>5, <1>8, <1>9
  <1>12. SumFunctionOnSet(h, Order) <= SumFunctionOnSet(g, Order)
    BY <1>4, <1>10, SumMonotone
  <1>13. SumFunctionOnSet(h, Order) = SumFunctionOnSet(h, S)
    BY <1>4, <1>10, SumOnly
  <1>14. SumFunctionOnSet(h, S) = SumFunctionOnSet(f, S)
    BY <1>4, <1>11, SumSame
  <1>15. QED
    BY <1>2, <1>3, <1>12, <1>13, <1>14

\* What is on reserve covers every batch of orders a sweep may meet, whatever statuses
\* staff set, unless some order's stock was committed after its release, or twice: by a
\* completion that comes late, the payment of an order that staff reopened, or a second
\* payment.  Only these can leave a sweep an order that it cannot release (the run
\* poisoned shows one).
THEOREM SweepsCanRelease == Spec => []ReleasesFit
  <1>1. BalanceInv => ReleasesFit
    BY ReleasableFits DEF ReleasesFit
  <1>2. QED
    BY <1>1, BalanceInvCorrect, PTL

-----------------------------------------------------------------------------
(* The sessions implement OrderStock.                                      *)

LEMMA StockInit == Init => Stock!Init
  BY DEF Init, Stock!Init, Placed, NoOrder

LEMMA QuietStutters == Quiet => UNCHANGED Stock!vars
  BY DEF Quiet, Stock!vars

\* A checkout's COMMIT reserves its order.
LEMMA CreateReserves ==
  ASSUME BalanceInv, NEW w \in Worker, FinishCreate(w)
  PROVE  Stock!Next
  <1>0. PICK n : n = job[w].ord
    OBVIOUS
  <1>1. /\ n \in Order /\ ~Placed(n)
        /\ \A o \in Order : Placed(o)' <=> Placed(o) \/ o = n
        /\ ledger' = ledger
        /\ \A v \in Variant : /\ row'[v] = [row[v] EXCEPT !.reserved = @ + Lines[n][v]]
                              /\ row'[v] = Seen(w, v)
    BY <1>0, CreatesWhole
  <1>2. TypeOK /\ Knows(w, job[w])
    BY DEF BalanceInv, CommitInv, Inv
  <1>3. ASSUME NEW v \in Variant PROVE row[v].stock - row[v].reserved >= Lines[n][v]
    <2>1. Sound(row'[v])
      BY <1>1, <1>2 DEF Knows, SeesSound, Seen
    <2>2. row[v] \in [stock : Int, reserved : Int] /\ Lines[n][v] \in Nat
      BY <1>1, <1>2, ConstantFacts DEF TypeOK, Assumptions
    <2>3. row'[v].stock = row[v].stock /\ row'[v].reserved = row[v].reserved + Lines[n][v]
      BY <1>1, <2>2
    <2>4. QED
      BY <2>1, <2>2, <2>3 DEF Sound
  <1>4. row' = [v \in Variant |-> [row[v] EXCEPT !.reserved = @ + Lines[n][v]]]
    <2>1. row' = [v \in Variant |-> row'[v]]
      BY DEF FinishCreate, CommitStockWrites
    <2>2. QED
      BY <1>1, <2>1
  <1>5. {o \in Order : Placed(o)}' = {o \in Order : Placed(o)} \cup {n}
    BY <1>1
  <1>6. Stock!Reserve(n)
    BY <1>1, <1>3, <1>4, <1>5 DEF Stock!Reserve
  <1>7. QED
    BY <1>1, <1>6 DEF Stock!Next

\* A completion's COMMIT commits its order or nothing, a cancellation's or a
\* sweep's releases the orders it worked off or nothing.
LEMMA CommitImplements ==
  ASSUME BalanceInv, NEW w \in Worker, Commits(w)
  PROVE  Stock!Next \/ UNCHANGED Stock!vars
  <1> DEFINE D == job[w].done
             P == {o \in Order : Placed(o)}
  <1>1. /\ job[w].op \in {"complete", "staff", "sweep"} /\ CommitStockWrites(w)
        /\ \A o \in Order : Placed(o)' <=> Placed(o)
        /\ D \in SUBSET Order
        /\ \A o \in D : Placed(o)
        /\ job[w].op = "complete" => D \subseteq {job[w].ord}
        /\ job[w].op # "complete" => \A o \in D : ledger[o].com = 0 /\ ledger[o].rel = 0
        /\ \A v \in Variant : job[w].taken[v] = Quantity(D, v)
    BY CommitsWhole
  <1>2. TypeOK /\ Knows(w, job[w])
    BY DEF BalanceInv, CommitInv, Inv
  <1>3. P' = P /\ D \subseteq P
    BY <1>1
  <1>4. ASSUME NEW v \in Variant
        PROVE  /\ row[v] \in [stock : Int, reserved : Int] /\ Quantity(D, v) \in Int
               /\ row'[v] = Applied(job[w].op, row[v], Quantity(D, v)) /\ Sound(row'[v])
    BY <1>1, <1>2, QuantityFacts DEF CommitStockWrites, Seen, TypeOK, Knows, SeesSound
  <1>5. /\ row' = [v \in Variant |-> row'[v]] /\ row = [v \in Variant |-> row[v]]
        /\ ledger' = [o \in Order |-> ledger'[o]] /\ ledger = [o \in Order |-> ledger[o]]
    BY <1>1, <1>2 DEF CommitStockWrites, TypeOK
  <1>6. ASSUME NEW o \in Order
        PROVE  /\ ledger[o] \in [com : Nat, rel : Nat]
               /\ ledger'[o] = IF o \notin D THEN ledger[o]
                               ELSE IF job[w].op = "complete" THEN [ledger[o] EXCEPT !.com = @ + 1]
                                                              ELSE [ledger[o] EXCEPT !.rel = @ + 1]
    BY <1>1, <1>2 DEF CommitStockWrites, TypeOK
  <1> HIDE DEF D
  <1>7. CASE D = {}
    <2>1. ASSUME NEW v \in Variant PROVE row'[v] = row[v]
      <3>1. Quantity(D, v) = 0
        BY <1>7, QuantityFacts
      <3>4. row[v] \in [stock : Int, reserved : Int]
        BY <1>4
      <3>2. Applied(job[w].op, row[v], 0) = row[v]
        BY <3>4 DEF Applied
      <3>3. QED
        BY <1>4, <3>1, <3>2
    <2>2. \A o \in Order : ledger'[o] = ledger[o]
      BY <1>6, <1>7
    <2>3. row' = row /\ ledger' = ledger
      BY <1>5, <2>1, <2>2
    <2>4. QED
      BY <1>3, <2>3 DEF Stock!vars
  <1>8. CASE D # {} /\ job[w].op = "complete"
    <2>1. PICK o \in Order : D = {o}
      BY <1>1, <1>8
    <2>2. ASSUME NEW v \in Variant
          PROVE  /\ row'[v] = [stock |-> row[v].stock - Lines[o][v],
                               reserved |-> row[v].reserved - Lines[o][v]]
                 /\ Lines[o][v] <= row[v].reserved /\ Lines[o][v] <= row[v].stock
      <3>1. Quantity(D, v) = Lines[o][v] /\ Lines[o][v] \in Nat
        BY <2>1, QuantityOfOne
      <3>2. QED
        BY <1>4, <1>8, <3>1 DEF Applied, Sound
    <2>3. row' = [v \in Variant |-> [stock |-> row[v].stock - Lines[o][v],
                                     reserved |-> row[v].reserved - Lines[o][v]]]
      BY <1>5, <2>2
    <2>4. ledger' = [ledger EXCEPT ![o].com = @ + 1]
      BY <1>5, <1>6, <1>8, <2>1
    <2>5. Stock!Commit(o)
      BY <1>3, <2>1, <2>2, <2>3, <2>4 DEF Stock!Commit
    <2>6. QED
      BY <2>5 DEF Stock!Next
  <1>9. CASE D # {} /\ job[w].op # "complete"
    <2>0. ASSUME NEW v \in Variant PROVE Stock!Total(D, v) = Quantity(D, v)
      BY DEF Stock!Total, Quantity, Stock!SumFunctionOnSet, SumFunctionOnSet,
              Stock!FoldFunctionOnSet, FoldFunctionOnSet, Stock!MapThenFoldSet, MapThenFoldSet
    <2>1. ASSUME NEW v \in Variant
          PROVE  /\ row'[v] = [row[v] EXCEPT !.reserved = @ - Stock!Total(D, v)]
                 /\ Stock!Total(D, v) <= row[v].reserved
      <3>1. row'[v] = [row[v] EXCEPT !.reserved = @ - Quantity(D, v)]
        BY <1>1, <1>4, <1>9 DEF Applied
      <3>2. Quantity(D, v) <= row[v].reserved
        BY <1>4, <3>1 DEF Sound
      <3>3. QED
        BY <2>0, <3>1, <3>2
    <2>2. row' = [v \in Variant |-> [row[v] EXCEPT !.reserved = @ - Stock!Total(D, v)]]
      BY <1>5, <2>1
    <2>3. \A o \in D : ledger[o] = [com |-> 0, rel |-> 0]
      BY <1>1, <1>6, <1>9
    <2>4. ASSUME NEW o \in Order
          PROVE  ledger'[o] = IF o \in D THEN [ledger[o] EXCEPT !.rel = 1] ELSE ledger[o]
      <3>1. CASE o \in D
        <4>1. ledger'[o] = [ledger[o] EXCEPT !.rel = @ + 1] /\ ledger[o].rel = 0
          BY <1>6, <1>9, <2>3, <3>1
        <4>2. QED
          BY <3>1, <4>1
      <3>2. CASE o \notin D
        BY <1>6, <3>2
      <3>3. QED
        BY <3>1, <3>2
    <2>5. ledger' = [o \in Order |-> IF o \in D THEN [ledger[o] EXCEPT !.rel = 1] ELSE ledger[o]]
      BY <1>5, <2>4
    <2>6. Stock!Release(D)
      BY <1>3, <2>1, <2>2, <2>3, <2>5 DEF Stock!Release
    <2>7. QED
      BY <1>1, <1>9, <2>6 DEF Stock!Next
  <1>10. QED
    BY <1>7, <1>8, <1>9

LEMMA StepImplements ==
  ASSUME BalanceInv, [Next]_vars
  PROVE  [Stock!Next]_Stock!vars
  <1>1. TypeInv
    BY DEF BalanceInv, CommitInv, Inv, TypeInv
  <1>2. QED
    BY <1>1, StepCases, QuietStutters, CreateReserves, CommitImplements

\* The transactions of all sessions, with their locks, interleavings, rollbacks and
\* early returns, implement the whole-order steps of OrderStock.
THEOREM SessionsImplementOrderStock == Spec => ImplementsOrderStock
  <1>1. BalanceInv /\ [Next]_vars => [Stock!Next]_Stock!vars
    BY StepImplements
  <1>2. QED
    BY <1>1, StockInit, BalanceInvCorrect, PTL DEF Spec, ImplementsOrderStock, Stock!Spec

-----------------------------------------------------------------------------
(* ClimbInv: checkouts lock variants in the order of their keys. *)

\* Only its own statements and the end of its transaction change what a session
\* holds.
LEMMA ClimbSession ==
  ASSUME ClimbInv, TypeInv', NEW w \in Worker, NEW j \in Job, Continue(w, j), Climbs(w, j)',
         \A v \in Variant : vlock'[v] = vlock[v] \/ vlock'[v] = w
  PROVE  ClimbInv'
  <1>1. job'[w] = j /\ \A x \in Worker \ {w} : job'[x] = job[x]
    BY DEF ClimbInv, TypeOK, Continue
  <1>2. ASSUME NEW x \in Worker PROVE Climbs(x, job[x])'
    <2>1. CASE x = w
      BY <1>1, <2>1 DEF Climbs
    <2>2. CASE x # w
      BY <1>1, <2>2 DEF ClimbInv, Climbs
    <2>3. QED
      BY <2>1, <2>2
  <1>3. QED
    BY <1>2 DEF ClimbInv, TypeInv

LEMMA ClimbEnd ==
  ASSUME ClimbInv, TypeInv', NEW w \in Worker, EndTransaction(w)
  PROVE  ClimbInv'
  <1>1. None \notin Worker
    BY ConstantFacts DEF Assumptions
  <1>2. job'[w] = Idle /\ \A x \in Worker \ {w} : job'[x] = job[x]
    BY DEF EndTransaction, ClimbInv, TypeOK
  <1>3. \A v \in Variant : vlock'[v] = IF vlock[v] = w THEN None ELSE vlock[v]
    BY DEF EndTransaction, Unlocked, ClimbInv, TypeOK
  <1>4. ASSUME NEW x \in Worker PROVE Climbs(x, job[x])'
    <2>1. CASE x = w
      BY <1>1, <1>2, <1>3, <2>1 DEF Climbs, Idle
    <2>2. CASE x # w
      BY <1>1, <1>2, <1>3, <2>2 DEF ClimbInv, Climbs
    <2>3. QED
      BY <2>1, <2>2
  <1>5. QED
    BY <1>4 DEF ClimbInv, TypeInv

LEMMA ClimbTake ==
  ASSUME ClimbInv, TypeInv', NEW w \in Worker, TakeLine(w)
  PROVE  ClimbInv'
  <1>1. PICK v \in NextLines(w) :
          vlock' = [vlock EXCEPT ![v] = w] /\ Continue(w, Moved(job[w], v))
    BY DEF TakeLine
  <1>2. job'[w] \in Job /\ job'[w] = Moved(job[w], v)
    BY <1>1 DEF TypeInv, ClimbInv, TypeOK, Continue
  <1>3. PICK j \in Job : j = Moved(job[w], v)
    BY <1>2
  <1>4. job[w] \in Job /\ Climbs(w, job[w]) /\ job[w].step = "lines"
    BY DEF TakeLine, ClimbInv, TypeOK
  <1>5. v \in Variant /\ job[w].todo \subseteq Variant
    BY <1>4 DEF NextLines, First, Job
  <1>6. /\ j.op = job[w].op /\ j.todo = job[w].todo \ {v}
        /\ j.op = "create" => j.step \in {"lines", "close"}
    BY <1>3, <1>4 DEF Moved, Job
  <1>7. \A u \in Variant : vlock'[u] = IF u = v THEN w ELSE vlock[u]
    BY <1>1, <1>5 DEF ClimbInv, TypeOK
  <1>8. job[w].op # "idle"
    BY <1>4 DEF Climbs
  <1>9. Climbs(w, j)'
    <2>1. ASSUME job[w].op = "create", NEW u \in job[w].todo, u # v PROVE v < u
      <3>1. v \in First(job[w].todo)
        BY <2>1 DEF NextLines
      <3>2. v <= u
        BY <3>1 DEF First
      <3>3. v \in Nat /\ u \in Nat
        BY <1>5, IdAssumption
      <3>4. QED
        BY <2>1, <3>2, <3>3
    <2>2. QED
      BY <1>4, <1>5, <1>6, <1>7, <1>8, <2>1 DEF Climbs
  <1>10. QED
    BY <1>1, <1>3, <1>7, <1>9, ClimbSession

LEMMA ClimbInit == Init => ClimbInv
  <1> SUFFICES ASSUME Init PROVE ClimbInv
    OBVIOUS
  <1>1. None \notin Worker
    BY ConstantFacts DEF Assumptions
  <1>2. \A w \in Worker : Climbs(w, job[w])
    BY <1>1 DEF Init, Climbs, Idle
  <1>3. QED
    BY <1>2, TypeInit DEF ClimbInv, TypeInv

LEMMA ClimbNext ==
  ASSUME ClimbInv, [Next]_vars
  PROVE  ClimbInv'
  <1>0. TypeInv' /\ TypeOK
    BY TypeNext DEF ClimbInv, TypeInv
  \* A session that begins holds nothing, and one that is no checkout may hold
  \* whatever it wants.
  <1>1. ASSUME NEW w \in Worker, job[w].op = "idle", UNCHANGED vlock, job'[w].op # "idle",
               job'[w].op = "create" => job'[w].step = "lines",
               \A x \in Worker \ {w} : job'[x] = job[x]
        PROVE  ClimbInv'
    <2>1. ASSUME NEW x \in Worker PROVE Climbs(x, job[x])'
      BY <1>1 DEF ClimbInv, Climbs
    <2>2. QED
      BY <1>0, <2>1 DEF ClimbInv, TypeInv
  <1>2. ASSUME NEW w \in Worker, job[w].op \in {"complete", "staff", "sweep"}, UNCHANGED vlock,
               job'[w].op = job[w].op,
               \A x \in Worker \ {w} : job'[x] = job[x]
        PROVE  ClimbInv'
    <2>1. ASSUME NEW x \in Worker PROVE Climbs(x, job[x])'
      BY <1>2 DEF ClimbInv, Climbs
    <2>2. QED
      BY <1>0, <2>1 DEF ClimbInv, TypeInv
  <1>3. ASSUME NEW w \in Web, Request(w) PROVE ClimbInv'
    <2>1. UNCHANGED vlock /\ job[w].op = "idle" /\ w \in Worker
      BY <1>3 DEF Request, BeginCreate, BeginComplete, BeginStaff, Begin, locks, Worker
    <2>2. /\ job'[w].op # "idle" /\ (job'[w].op = "create" => job'[w].step = "lines")
          /\ \A x \in Worker \ {w} : job'[x] = job[x]
      <3>1. ASSUME NEW o \in Order, BeginCreate(w, o)
            PROVE  job'[w].op = "create" /\ job'[w].step = "lines"
        BY <1>0, <2>1, <3>1 DEF BeginCreate, Begin, Continue, Idle, TypeOK
      <3>2. ASSUME NEW t \in Txn, BeginComplete(w, t) PROVE job'[w].op = "complete"
        BY <1>0, <2>1, <3>2 DEF BeginComplete, Begin, Continue, Idle, TypeOK
      <3>3. ASSUME NEW o \in Order, NEW to \in StaffTargets, BeginStaff(w, o, to)
            PROVE  job'[w].op = "staff"
        BY <1>0, <2>1, <3>3 DEF BeginStaff, Begin, Continue, Idle, TypeOK
      <3>4. \A x \in Worker \ {w} : job'[x] = job[x]
        BY <1>0, <1>3 DEF Request, BeginCreate, BeginComplete, BeginStaff, Begin, Continue, TypeOK
      <3>5. QED
        BY <1>3, <3>1, <3>2, <3>3, <3>4 DEF Request
    <2>3. QED
      BY <1>1, <2>1, <2>2
  <1>4. ASSUME NEW w \in Beat, BeginSweep(w) PROVE ClimbInv'
    BY <1>0, <1>1, <1>4 DEF BeginSweep, Begin, Continue, Idle, locks, TypeOK, Worker
  <1>5. ASSUME NEW w \in Worker, EndTransaction(w) PROVE ClimbInv'
    BY <1>0, <1>5, ClimbEnd
  <1>6. ASSUME NEW w \in Worker, Statement(w) PROVE ClimbInv'
    <2>1. CASE TakeLine(w)
      BY <1>0, <2>1, ClimbTake
    <2>2. CASE \/ LackLine(w) \/ FinishCreate(w) \/ FinishLate(w) \/ FinishComplete(w)
               \/ FinishStaff(w) \/ FinishSweep(w)
      BY <1>5, <2>2 DEF LackLine, Rollback, FinishCreate, FinishLate, FinishComplete,
                        FinishStaff, FinishSweep
    <2>3. CASE ReadOrder(w) \/ SaveTxn(w) \/ CheckCommitted(w)
      <3>1. job[w].op = "complete" /\ UNCHANGED vlock /\ job[w] \in Job
        BY <1>0, <2>3 DEF ReadOrder, SaveTxn, CheckCommitted, At, locks, TypeOK
      <3>2. CASE ReadOrder(w)
        <4>1. job'[w].op = job[w].op
          BY <1>0, <3>1, <3>2 DEF ReadOrder, Continue, TypeOK, Job
        <4>2. \A x \in Worker \ {w} : job'[x] = job[x]
          BY <1>0, <3>2 DEF ReadOrder, Continue, TypeOK, Job
        <4>3. QED
          BY <1>2, <3>1, <4>1, <4>2
      <3>3. CASE SaveTxn(w)
        <4>1. job'[w].op = job[w].op
          BY <1>0, <3>1, <3>3 DEF SaveTxn, Continue, TypeOK, Job
        <4>2. \A x \in Worker \ {w} : job'[x] = job[x]
          BY <1>0, <3>3 DEF SaveTxn, Continue, TypeOK, Job
        <4>3. QED
          BY <1>2, <3>1, <4>1, <4>2
      <3>4. CASE CheckCommitted(w)
        <4>1. job'[w].op = job[w].op
          BY <1>0, <3>1, <3>4 DEF CheckCommitted, EitherLines, Continue, TypeOK, Job
        <4>2. \A x \in Worker \ {w} : job'[x] = job[x]
          BY <1>0, <3>4 DEF CheckCommitted, EitherLines, Continue, TypeOK, Job
        <4>3. QED
          BY <1>2, <3>1, <4>1, <4>2
      <3>5. QED
        BY <2>3, <3>2, <3>3, <3>4
    <2>4. CASE SaveStatus(w) \/ CheckReleased(w)
      <3>1. job[w].op = "staff" /\ UNCHANGED vlock /\ job[w] \in Job
        BY <1>0, <2>4 DEF SaveStatus, CheckReleased, At, locks, TypeOK
      <3>2. CASE SaveStatus(w)
        <4>1. job'[w].op = job[w].op
          BY <1>0, <3>1, <3>2 DEF SaveStatus, Continue, TypeOK, Job
        <4>2. \A x \in Worker \ {w} : job'[x] = job[x]
          BY <1>0, <3>2 DEF SaveStatus, Continue, TypeOK, Job
        <4>3. QED
          BY <1>2, <3>1, <4>1, <4>2
      <3>3. CASE CheckReleased(w)
        <4>1. job'[w].op = job[w].op
          BY <1>0, <3>1, <3>3 DEF CheckReleased, EitherLines, Continue, TypeOK, Job
        <4>2. \A x \in Worker \ {w} : job'[x] = job[x]
          BY <1>0, <3>3 DEF CheckReleased, EitherLines, Continue, TypeOK, Job
        <4>3. QED
          BY <1>2, <3>1, <4>1, <4>2
      <3>4. QED
        BY <2>4, <3>2, <3>3
    <2>5. CASE LockOrder(w) \/ NextOrder(w) \/ FailPending(w)
      <3>1. job[w].op = "sweep" /\ UNCHANGED vlock /\ job[w] \in Job
        BY <1>0, <2>5 DEF LockOrder, NextOrder, FailPending, At, locks, TypeOK
      <3>2. CASE LockOrder(w)
        <4>1. job'[w].op = job[w].op
          BY <1>0, <3>1, <3>2 DEF LockOrder, Locked, Continue, TypeOK, Job
        <4>2. \A x \in Worker \ {w} : job'[x] = job[x]
          BY <1>0, <3>2 DEF LockOrder, Locked, Continue, TypeOK, Job
        <4>3. QED
          BY <1>2, <3>1, <4>1, <4>2
      <3>3. CASE NextOrder(w)
        <4>1. job'[w].op = job[w].op
          BY <1>0, <3>1, <3>3 DEF NextOrder, Turned, Continue, TypeOK, Job
        <4>2. \A x \in Worker \ {w} : job'[x] = job[x]
          BY <1>0, <3>3 DEF NextOrder, Turned, Continue, TypeOK, Job
        <4>3. QED
          BY <1>2, <3>1, <4>1, <4>2
      <3>4. CASE FailPending(w)
        <4>1. job'[w].op = job[w].op
          BY <1>0, <3>1, <3>4 DEF FailPending, Continue, TypeOK, Job
        <4>2. \A x \in Worker \ {w} : job'[x] = job[x]
          BY <1>0, <3>4 DEF FailPending, Continue, TypeOK, Job
        <4>3. QED
          BY <1>2, <3>1, <4>1, <4>2
      <3>5. QED
        BY <2>5, <3>2, <3>3, <3>4
    <2>6. QED
      BY <1>6, <2>1, <2>2, <2>3, <2>4, <2>5 DEF Statement
  <1>7. ASSUME NEW w \in Worker, Failure(w) PROVE ClimbInv'
    BY <1>5, <1>7 DEF Failure, Abort, BreakCycle, Rollback
  <1>8. ASSUME UNCHANGED <<vlock, job>> PROVE ClimbInv'
    BY <1>0, <1>8 DEF ClimbInv, TypeInv, Climbs
  <1>9. QED
    BY <1>3, <1>4, <1>6, <1>7, <1>8 DEF Next, Work, Age, OpenTxn, FailTxn, vars, locks

\* A session of a circle of checkouts waits for a variant that another one of
\* the circle holds, and that one waits for a higher variant.
LEMMA WaitsHigher ==
  ASSUME ClimbInv, NEW S \in SUBSET {w \in Worker : job[w].op = "create"}, Cycle(S),
         NEW w \in S
  PROVE  \E v \in First(job[w].todo) : vlock[v] \in S \ {w}
  <1>1. job[w].op = "create" /\ w \in Worker /\ BlockedBy(w) \cap S # {}
    BY DEF Cycle
  <1>2. NextLines(w) = First(job[w].todo)
    BY <1>1 DEF NextLines
  <1>3. BlockedBy(w) \subseteq {vlock[v] : v \in First(job[w].todo)} \ {None, w}
    BY <1>1, <1>2 DEF BlockedBy, At
  <1>4. QED
    BY <1>1, <1>3

\* Checkouts never wait in a circle, however many there are and whatever their
\* carts have in common.  Keys are bounded: they are 64-bit integers.
THEOREM NoCircleOfCheckouts ==
  ASSUME NEW MaxKey \in Nat, \A v \in Variant : v <= MaxKey
  PROVE  Spec => []CheckoutsNeverDeadlock
  <1>1. ClimbInv => CheckoutsNeverDeadlock
    <2> SUFFICES ASSUME ClimbInv,
                        NEW S \in SUBSET {w \in Worker : job[w].op = "create"}, Cycle(S)
                 PROVE  FALSE
      BY DEF CheckoutsNeverDeadlock
    \* How far below the bound the variants are that the circle waits for.
    <2> DEFINE R == OpToRel(<, Nat)
               Gaps == {n \in Nat : \E w \in S : \E v \in First(job[w].todo) :
                                       vlock[v] \in S \ {w} /\ n = MaxKey - v}
    <2>1. \A w \in S : job[w] \in Job /\ job[w].op = "create" /\ Climbs(w, job[w])
      BY DEF ClimbInv, TypeOK
    <2>2. \A w \in S : \A v \in job[w].todo : v \in Variant /\ v \in Nat /\ MaxKey - v \in Nat
      <3>1. \A w \in S : job[w].todo \subseteq Variant
        BY <2>1 DEF Job
      <3>2. \A v \in Variant : v \in Nat /\ MaxKey - v \in Nat
        BY IdAssumption
      <3>3. QED
        BY <3>1, <3>2
    <2>3. Gaps # {}
      <3>1. PICK w \in S : TRUE
        BY DEF Cycle
      <3>2. PICK v \in First(job[w].todo) : vlock[v] \in S \ {w}
        BY WaitsHigher
      <3>3. MaxKey - v \in Gaps
        BY <2>2, <3>2 DEF First
      <3>4. QED
        BY <3>3
    <2>4. PICK n \in Gaps : \A m \in Gaps : ~(<<m, n>> \in R)
      <3> HIDE DEF R
      <3>1. IsWellFoundedOn(R, Nat)
        BY NatLessThanWellFounded DEF R
      <3>2. QED
        BY <2>3, <3>1, WFMin
    <2>5. PICK w \in S : \E v \in First(job[w].todo) : vlock[v] \in S \ {w} /\ n = MaxKey - v
      OBVIOUS
    <2>6. PICK v \in First(job[w].todo) : vlock[v] \in S \ {w} /\ n = MaxKey - v
      BY <2>5
    <2>7. PICK x \in S : x = vlock[v]
      BY <2>6
    <2>8. PICK u \in First(job[x].todo) : vlock[u] \in S \ {x}
      BY WaitsHigher
    <2>9. v < u /\ v \in Nat /\ u \in Nat /\ MaxKey - u \in Nat
      BY <2>1, <2>2, <2>6, <2>7, <2>8 DEF Climbs, First
    <2>10. MaxKey - u \in Gaps
      BY <2>8, <2>9
    <2>11. <<MaxKey - u, n>> \in R
      BY <2>6, <2>9, <2>10 DEF OpToRel
    <2>12. QED
      BY <2>4, <2>10, <2>11
  <1>2. ClimbInv /\ [Next]_vars => ClimbInv'
    BY ClimbNext
  <1>3. QED
    BY <1>1, <1>2, ClimbInit, PTL DEF Spec
=============================================================================
