------------------------------ MODULE Stockroom ------------------------------
(***************************************************************************)
(* The variant rows as the back office sees them: manual adjustments       *)
(* (apps/inventory/views.py), the staff form (apps/products/serializers.py)*)
(* the low-stock task (apps/inventory/tasks) and the reports of stock      *)
(* (apps/analytics, apps/products/views.py), while checkouts reserve,      *)
(* commit and release under a row lock.  Checkout.tla has those three      *)
(* statement by statement; here each is one step, and the desks are slow.  *)
(***************************************************************************)
EXTENDS Integers, FiniteSets

CONSTANTS
  Item,      \* variants
  Desk,      \* staff sessions and workers that run the low-stock task
  Change,    \* quantity_delta of an adjustment
  Limit,     \* low_stock_threshold
  Most       \* bound on the quantities of a row, its holds, and alerts of one kind

ASSUME ChangeAssumption == Change \subseteq Int
ASSUME LimitAssumption == Limit \subseteq Nat
ASSUME MostAssumption == Most \in Nat

VARIABLES
  row,         \* ProductVariant: stock, reserved, threshold, active
  hold,        \* history: units that open orders have reserved
  overwritten, \* history: variants whose reserved quantity a form has changed
  alert,       \* unresolved LowStockAlert rows by what they say
  desk         \* what each session is in the middle of

stockVars == <<row, hold, overwritten, alert, desk>>

Rows == [stock : 0 .. Most, reserved : 0 .. Most, threshold : Limit, active : BOOLEAN]

Alerts == Item \X Limit \X (0 .. Most)

-----------------------------------------------------------------------------
(* Helpers.                                                                *)

FreeDesk == [step |-> "none"]

\* ProductVariant.available_quantity
Available(r) == IF r.stock > r.reserved THEN r.stock - r.reserved ELSE 0

Sit(w, d) == desk[w] = FreeDesk /\ desk' = [desk EXCEPT ![w] = d]

Leave(w) == desk' = [desk EXCEPT ![w] = FreeDesk]

-----------------------------------------------------------------------------
(* Orders, under SELECT FOR UPDATE.                                        *)

ReserveStock(v) ==
  /\ Available(row[v]) >= 1 /\ hold[v] < Most
  /\ row' = [row EXCEPT ![v].reserved = @ + 1]
  /\ hold' = [hold EXCEPT ![v] = @ + 1]
  /\ UNCHANGED <<overwritten, alert, desk>>

CommitStock(v) ==
  /\ hold[v] >= 1 /\ row[v].reserved >= 1 /\ row[v].stock >= 1
  /\ row' = [row EXCEPT ![v].stock = @ - 1, ![v].reserved = @ - 1]
  /\ hold' = [hold EXCEPT ![v] = @ - 1]
  /\ UNCHANGED <<overwritten, alert, desk>>

ReleaseStock(v) ==
  /\ hold[v] >= 1 /\ row[v].reserved >= 1
  /\ row' = [row EXCEPT ![v].reserved = @ - 1]
  /\ hold' = [hold EXCEPT ![v] = @ - 1]
  /\ UNCHANGED <<overwritten, alert, desk>>

-----------------------------------------------------------------------------
(* Manual adjustments.                                                     *)

\* InventoryAdjustmentSerializer.validate, on the variant the request has read.
LookAdjust(w, v, d) ==
  /\ row[v].stock + d >= row[v].reserved /\ row[v].stock + d <= Most
  /\ Sit(w, [step |-> "adjust", item |-> v, seen |-> row[v], delta |-> d])
  /\ UNCHANGED <<row, hold, overwritten, alert>>

\* Faulty variant: the whole row is saved.
SaveAdjust_Whole(w) ==
  /\ desk[w].step = "adjust"
  /\ row' = [row EXCEPT ![desk[w].item] = [desk[w].seen EXCEPT !.stock = @ + desk[w].delta]]
  /\ Leave(w)
  /\ UNCHANGED <<hold, overwritten, alert>>

\* perform_create adds to the stock it has read and saves that column, in the
\* transaction of the adjustment's row.
SaveAdjust(w) ==
  /\ desk[w].step = "adjust"
  /\ row' = [row EXCEPT ![desk[w].item].stock = desk[w].seen.stock + desk[w].delta]
  /\ Leave(w)
  /\ UNCHANGED <<hold, overwritten, alert>>

-----------------------------------------------------------------------------
(* The staff form of a variant.                                            *)

\* PUT and PATCH save every column, typed in or as it was when the form was
\* loaded, however long ago: quantities too.
SaveForm(v) ==
  \E new \in Rows :
    /\ row' = [row EXCEPT ![v] = new]
    /\ overwritten' = IF new.reserved = row[v].reserved THEN overwritten ELSE overwritten \cup {v}
    /\ UNCHANGED <<hold, alert, desk>>

-----------------------------------------------------------------------------
(* detect_low_stock_task.                                                  *)

\* All rows are read at once.
ReadLow(w, v) ==
  /\ row[v].active /\ Available(row[v]) <= row[v].threshold
  /\ Sit(w, [step |-> "find", key |-> <<v, row[v].threshold, Available(row[v])>>])
  /\ UNCHANGED <<row, hold, overwritten, alert>>

\* get_or_create looks for an alert: it keeps one, and two make the task fail.
FindAlert(w) ==
  /\ desk[w].step = "find"
  /\ IF alert[desk[w].key] = 0 THEN desk' = [desk EXCEPT ![w].step = "create"] ELSE Leave(w)
  /\ UNCHANGED <<row, hold, overwritten, alert>>

\* Nothing makes alerts of one kind unique: two tasks create one each.
CreateAlert(w) ==
  /\ desk[w].step = "create"
  /\ alert[desk[w].key] < Most
  /\ alert' = [alert EXCEPT ![desk[w].key] = @ + 1]
  /\ Leave(w)
  /\ UNCHANGED <<row, hold, overwritten>>

\* Staff tick is_resolved.
ResolveAlert(k) ==
  /\ alert[k] > 0
  /\ alert' = [alert EXCEPT ![k] = @ - 1]
  /\ UNCHANGED <<row, hold, overwritten, desk>>

-----------------------------------------------------------------------------

StockInit ==
  /\ row \in [Item -> {r \in Rows : r.reserved = 0 /\ r.active}]
  /\ hold = [v \in Item |-> 0]
  /\ overwritten = {}
  /\ alert = [k \in Alerts |-> 0]
  /\ desk = [w \in Desk |-> FreeDesk]

StockNext ==
  \/ \E v \in Item : ReserveStock(v) \/ CommitStock(v) \/ ReleaseStock(v) \/ SaveForm(v)
  \/ \E w \in Desk, v \in Item :
       \/ \E d \in Change : LookAdjust(w, v, d)
       \/ ReadLow(w, v)
  \/ \E w \in Desk : SaveAdjust(w) \/ FindAlert(w) \/ CreateAlert(w)
  \/ \E k \in Alerts : ResolveAlert(k)

StockSpec == StockInit /\ [][StockNext]_stockVars

-----------------------------------------------------------------------------
(* Reports of stock.                                                       *)

Active == {v \in Item : row[v].active}

Left(v) == row[v].stock - row[v].reserved

\* What the dashboard lists and counts as low_stock.
LowStock == {v \in Active : Left(v) <= row[v].threshold}

\* Faulty variant: the stock itself is compared.
Low_Stock == {v \in Active : row[v].stock > row[v].reserved /\ row[v].stock <= row[v].threshold}

\* The three numbers of inventory_health.
Healthy == {v \in Active : Left(v) > row[v].threshold}
Low == {v \in Active : row[v].stock > row[v].reserved /\ Left(v) <= row[v].threshold}
Out == {v \in Active : row[v].stock <= row[v].reserved}

\* ?stock_status=low of the variant list.
ListedLow ==
  {v \in Item : row[v].stock > row[v].reserved /\ row[v].stock <= row[v].threshold}

-----------------------------------------------------------------------------
(* Properties.                                                             *)

Desks ==
  {FreeDesk}
  \cup [step : {"adjust"}, item : Item, seen : Rows, delta : Change]
  \cup [step : {"find", "create"}, key : Alerts]

\* Quantities are never negative, however old what a desk has read: PostgreSQL
\* refuses a negative PositiveIntegerField, and no statement writes one.
StockTypeOK ==
  /\ row \in [Item -> Rows]
  /\ hold \in [Item -> Nat]
  /\ overwritten \subseteq Item
  /\ alert \in [Alerts -> Nat]
  /\ desk \in [Desk -> Desks]

\* The reserved quantity is what open orders hold, whatever is adjusted meanwhile,
\* unless a form wrote a reserved quantity that had changed since it was read.
ReservedIsHolds == \A v \in Item : v \notin overwritten => row[v].reserved = hold[v]

\* The task alerts about the variants that the dashboard counts as low, and the
\* dashboard counts every active variant once, though each subtracts in its own
\* way and desks can leave less stock than is reserved.
ReportsAgree ==
  /\ LowStock = {v \in Active : Available(row[v]) <= row[v].threshold}
  /\ LowStock = Low \cup Out
  /\ Low \cap Out = {} /\ Healthy \cap LowStock = {}
  /\ Healthy \cup LowStock = Active

-----------------------------------------------------------------------------
(* What the code sets out to keep and does not: see README.                *)

\* "Adjustment would make total stock lower than reserved stock."
EveryHoldIsStocked == \A v \in Item : v \notin overwritten => row[v].stock >= row[v].reserved

\* One alert of a kind; with two, every later task fails at that variant.
NoTwinAlerts == \A k \in Alerts : alert[k] <= 1

\* The list of low variants is the dashboard's.
ListMatchesDashboard == ListedLow \cap Active = Low
=============================================================================
