---------------------------------- MODULE Cart ----------------------------------
(***************************************************************************)
(* One customer's cart: apps/cart/views.py, and how checkout and payment   *)
(* use it (apps/orders/services/order_service.py,                          *)
(* apps/payments/services/provider_service.py).                            *)
(*                                                                         *)
(* No cart request has a transaction: each statement commits by itself and *)
(* another tab's, or a payment webhook's, run in between.  Checkout has a  *)
(* transaction, but at READ COMMITTED each of its statements sees what has *)
(* been committed by then, and it reads the cart three times.              *)
(*                                                                         *)
(* The endpoints put variants in a cart; no endpoint puts a bundle there.  *)
(***************************************************************************)
EXTENDS Integers, Sequences, FiniteSetsExt, Functions

CONSTANTS
  Variant,    \* what the shop sells
  Item,       \* primary keys of cart rows, each given out once
  Web,        \* sessions of the web workers
  None,       \* no variant, no row
  Stock,      \* bound on what is available of a variant
  MaxQty,     \* largest quantity of a request
  MaxLine,    \* bound on the quantity that racing adds pile up on a row
  PromoLimit, \* usage_limit of the promo code's discount
  MaxOrders   \* how often the customer checks out

ASSUME NoneAssumption == None \notin Variant \cup Item
ASSUME NumberAssumption ==
  /\ Stock \in Nat /\ MaxQty \in Nat \ {0} /\ MaxOrders \in Nat
  /\ PromoLimit \in Nat \ {0}
  /\ MaxLine \in Nat /\ Stock <= MaxLine

VARIABLES
  row,     \* CartVariantItem rows: variant, quantity, deleted or not
  coupon,  \* applied_coupon: "none", a "promo" code or the "first"-order one
  claim,   \* is applied_discount_claim set?
  avail,   \* available_quantity of the variants: what no order has reserved
  orders,  \* orders placed: what each was priced for, reserved and lists
  job      \* what each session is in the middle of

vars == <<row, coupon, claim, avail, orders, job>>

-----------------------------------------------------------------------------

NoRow == [v |-> None, qty |-> 0, live |-> FALSE]
Idle == [step |-> "idle", v |-> None, i |-> None, n |-> 0]
Quantities == 1 .. MaxQty

\* The live rows of a variant: at most one, for unique_together (cart, variant).
RowsOf(v) == {i \in Item : row[i].live /\ row[i].v = v}

\* The cart as a SELECT sees it.
Contents == [v \in Variant |-> SumFunctionOnSet([i \in Item |-> row[i].qty], RowsOf(v))]

Begin(w, j) == job[w] = Idle /\ job' = [job EXCEPT ![w] = j]
Continue(w, j) == job' = [job EXCEPT ![w] = j]
End(w) == Continue(w, Idle)

\* INSERT of a row with a new key.
Insert(v, n) ==
  \E i \in Item :
    /\ row[i] = NoRow
    /\ row' = [row EXCEPT ![i] = [v |-> v, qty |-> n, live |-> TRUE]]

DeleteAll == row' = [i \in Item |-> [row[i] EXCEPT !.live = FALSE]]

-----------------------------------------------------------------------------
(* AddToCartView: look, get_or_create, save.                               *)

\* The quantity in the cart and the new one together are available.
LookAdd(w, v, n) ==
  /\ Contents[v] + n <= avail[v]
  /\ Begin(w, [step |-> "add", v |-> v, i |-> None, n |-> n])
  /\ UNCHANGED <<row, coupon, claim, avail, orders>>

\* A row that is there is read, and its quantity added to in memory.
CreateAdd(w) ==
  /\ job[w].step = "add"
  /\ \/ /\ RowsOf(job[w].v) = {}
        /\ Insert(job[w].v, job[w].n)
        /\ End(w)
     \/ \E i \in RowsOf(job[w].v) :
          /\ row[i].qty + job[w].n <= MaxLine
          /\ Continue(w, [step |-> "save", v |-> job[w].v, i |-> i, n |-> row[i].qty + job[w].n])
          /\ UNCHANGED row
  /\ UNCHANGED <<coupon, claim, avail, orders>>

\* Faulty variant: no unique constraint on (cart, variant).
SaveAdd_NotUnique(w) ==
  /\ job[w].step = "save"
  /\ LET i == job[w].i
     IN  row' = [row EXCEPT ![i] = [v |-> job[w].v, qty |-> job[w].n, live |-> TRUE]]
  /\ End(w)
  /\ UNCHANGED <<coupon, claim, avail, orders>>

\* save() writes every field: over what the row has by now, and as an INSERT
\* with its old key if it was deleted, unless the variant has a new row.
SaveAdd(w) ==
  /\ job[w].step = "save"
  /\ LET i == job[w].i
     IN  IF RowsOf(job[w].v) \subseteq {i}
         THEN row' = [row EXCEPT ![i] = [v |-> job[w].v, qty |-> job[w].n, live |-> TRUE]]
         ELSE UNCHANGED row
  /\ End(w)
  /\ UNCHANGED <<coupon, claim, avail, orders>>

-----------------------------------------------------------------------------
(* MergeGuestCartView: the same for each guest item, capped.               *)

LookMerge(w, v, n) ==
  /\ avail[v] >= 1
  /\ Begin(w, [step |-> "merge", v |-> v, i |-> None, n |-> Min({Contents[v] + n, avail[v]})])
  /\ UNCHANGED <<row, coupon, claim, avail, orders>>

CreateMerge(w) ==
  /\ job[w].step = "merge"
  /\ \/ /\ RowsOf(job[w].v) = {}
        /\ Insert(job[w].v, job[w].n)
        /\ End(w)
     \/ \E i \in RowsOf(job[w].v) :
          /\ Continue(w, [step |-> "update", v |-> job[w].v, i |-> i,
                          n |-> Max({row[i].qty, job[w].n})])
          /\ UNCHANGED row
  /\ UNCHANGED <<coupon, claim, avail, orders>>

\* save(update_fields) writes the quantity only; it raises on a deleted row.
Update(w) ==
  /\ job[w].step = "update"
  /\ LET i == job[w].i
     IN  IF row[i].live THEN row' = [row EXCEPT ![i].qty = job[w].n] ELSE UNCHANGED row
  /\ End(w)
  /\ UNCHANGED <<coupon, claim, avail, orders>>

-----------------------------------------------------------------------------
(* RemoveFromCartView and ClearCartView.                                   *)

\* PATCH: the row is read, the quantity checked; Update saves it.
LookPatch(w, i, n) ==
  /\ row[i].live
  /\ n <= avail[row[i].v]
  /\ Begin(w, [step |-> "update", v |-> row[i].v, i |-> i, n |-> n])
  /\ UNCHANGED <<row, coupon, claim, avail, orders>>

Remove(i) ==
  /\ row[i].live
  /\ row' = [row EXCEPT ![i].live = FALSE]
  /\ UNCHANGED <<coupon, claim, avail, orders, job>>

ClearItems(w) ==
  /\ DeleteAll
  /\ Begin(w, [Idle EXCEPT !.step = "clear"])
  /\ UNCHANGED <<coupon, claim, avail, orders>>

ClearCoupon(w) ==
  /\ job[w].step = "clear"
  /\ coupon' = "none" /\ claim' = FALSE
  /\ End(w)
  /\ UNCHANGED <<row, avail, orders>>

-----------------------------------------------------------------------------
(* Coupons.                                                                *)

\* DiscountUsage rows of a promo code: payment writes such rows for claims only.
PromoUsage == 0

\* ApplyCouponView: the promo code is within its limit, and the cart has no
\* first-order one.
LookCoupon(w) ==
  /\ coupon # "first"
  /\ PromoUsage < PromoLimit
  /\ Begin(w, [Idle EXCEPT !.step = "coupon"])
  /\ UNCHANGED <<row, coupon, claim, avail, orders>>

\* Faulty variant: the claim is left as it was when the cart was read.
SaveCoupon_KeepClaim(w) ==
  /\ job[w].step = "coupon"
  /\ coupon' = "promo"
  /\ End(w)
  /\ UNCHANGED <<row, claim, avail, orders>>

SaveCoupon(w) ==
  /\ job[w].step = "coupon"
  /\ coupon' = "promo" /\ claim' = FALSE
  /\ End(w)
  /\ UNCHANGED <<row, avail, orders>>

\* apply_first_order_claim_to_cart, whose steps are in module FirstOrder.
SaveClaim ==
  /\ coupon' = "first" /\ claim' = TRUE
  /\ UNCHANGED <<row, avail, orders, job>>

RemoveCoupon(w) ==
  /\ coupon # "none"
  /\ Begin(w, [Idle EXCEPT !.step = "clear"])
  /\ UNCHANGED <<row, coupon, claim, avail, orders>>

-----------------------------------------------------------------------------
(* Checkout, which leaves the cart as it is, and payment, which empties it. *)

\* Variants whose rows an open checkout holds until COMMIT.
Locked == {v \in Variant : \E w \in Web : job[w].step = "reserve" /\ job[w].reserved[v] > 0}

\* A transaction that has read the cart once: calculate_cart_totals.
PriceOrder(w) ==
  /\ Begin(w, [step |-> "price", priced |-> Contents, promo |-> coupon = "promo"])
  /\ UNCHANGED <<row, coupon, claim, avail, orders>>

\* _cart_stock_requirements reads it again; reserve_stock looks at the locked rows.
ReserveOrder(w) ==
  /\ job[w].step = "price"
  /\ \A v \in Variant : Contents[v] > 0 => v \notin Locked /\ Contents[v] <= avail[v]
  /\ Continue(w, [step |-> "reserve", priced |-> job[w].priced, promo |-> job[w].promo,
                  reserved |-> Contents])
  /\ UNCHANGED <<row, coupon, claim, avail, orders>>

\* So does the loop that snapshots the items; COMMIT, and what is reserved is not
\* available any more, to this cart either, which keeps its rows until the payment.
PlaceOrder(w) ==
  /\ job[w].step = "reserve"
  /\ Len(orders) < MaxOrders
  /\ orders' = Append(orders, [priced |-> job[w].priced, promo |-> job[w].promo,
                               reserved |-> job[w].reserved, items |-> Contents])
  /\ avail' = [v \in Variant |-> avail[v] - job[w].reserved[v]]
  /\ End(w)
  /\ UNCHANGED <<row, coupon, claim>>

\* Other customers' orders, releases, sweeps and staff change what is available.
StockMoves(v, n) ==
  /\ v \notin Locked /\ n # avail[v]
  /\ avail' = [avail EXCEPT ![v] = n]
  /\ UNCHANGED <<row, coupon, claim, orders, job>>

\* _complete_paid_transaction for any of the orders, and for a repeated event.
EmptyPaidCart ==
  /\ orders # <<>>
  /\ DeleteAll
  /\ coupon' = "none" /\ claim' = FALSE
  /\ UNCHANGED <<avail, orders, job>>

\* A killed worker, and a checkout that is refused for want of stock.
Abort(w) ==
  /\ job[w] # Idle
  /\ End(w)
  /\ UNCHANGED <<row, coupon, claim, avail, orders>>

-----------------------------------------------------------------------------

Init ==
  /\ row = [i \in Item |-> NoRow]
  /\ coupon = "none"
  /\ claim = FALSE
  /\ avail \in [Variant -> 0 .. Stock]
  /\ orders = <<>>
  /\ job = [w \in Web |-> Idle]

Next ==
  \/ \E w \in Web :
       \/ \E v \in Variant, n \in Quantities : LookAdd(w, v, n) \/ LookMerge(w, v, n)
       \/ CreateAdd(w) \/ SaveAdd(w) \/ CreateMerge(w) \/ Update(w)
       \/ \E i \in Item, n \in Quantities : LookPatch(w, i, n)
       \/ ClearItems(w) \/ ClearCoupon(w)
       \/ LookCoupon(w) \/ SaveCoupon(w) \/ RemoveCoupon(w)
       \/ PriceOrder(w) \/ ReserveOrder(w) \/ PlaceOrder(w)
       \/ Abort(w)
  \/ \E i \in Item : Remove(i)
  \/ \E v \in Variant, n \in 0 .. Stock : StockMoves(v, n)
  \/ SaveClaim
  \/ EmptyPaidCart

Spec == Init /\ [][Next]_vars

-----------------------------------------------------------------------------
(* Properties.                                                             *)

\* Two tabs, a merge at login and a deleted row that an add brings back never
\* leave two rows of one variant, which totals and stock would count twice.
OneLinePerVariant == \A v \in Variant : Cardinality(RowsOf(v)) <= 1

\* The first-order claim and its coupon come and go together, whatever tabs and
\* webhooks overlap: a claim never rides on a cart that is priced with another
\* coupon, and the first-order price is never given without a claim to redeem.
CouponMatchesClaim == claim <=> coupon = "first"

-----------------------------------------------------------------------------
(* What the docs lead one to expect and the code does not keep: see README. *)

\* A cart never has more of a variant than the shop can deliver, added, merged
\* or changed (test_guest_cart_merge_caps_quantity_to_available_stock).  It holds
\* with one session while availability only rises: two tabs can check before either
\* writes, and an order, this customer's own unpaid one too, takes from what a cart
\* that was checked holds.
WithinStock == \A v \in Variant : Contents[v] <= avail[v]

\* What is available only rises in a step.
Rising == \A v \in Variant : avail[v] <= avail'[v]

\* An order reserves, charges and lists the same goods
\* (test_e2e_flows.py checks subtotal, reservation and items of an order).
OrderAddsUp ==
  \A k \in DOMAIN orders :
    orders[k].priced = orders[k].items /\ orders[k].reserved = orders[k].items

\* A promo code is used on no more orders than its usage_limit allows
\* (docstring of track_discount_usage).
PromoWithinLimit ==
  Cardinality({k \in DOMAIN orders : orders[k].promo}) <= PromoLimit
=============================================================================
